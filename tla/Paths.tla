-------------------------------- MODULE Paths --------------------------------
(***************************************************************************)
(* Paths and links (src/src/routes.rs): which spellings of a path the      *)
(* server accepts, the upstream URL it makes of them, and how it rewrites  *)
(* the links of the pages it serves.                                       *)
(*                                                                         *)
(* A path is the sequence of its segments between slashes ("" is <<"">>    *)
(* and a trailing slash an empty last segment), a segment the sequence of  *)
(* its characters, a character <<form, octet>>.  The form is "raw", "enc"  *)
(* (%XX), "low" (%xx with a letter in lower case) or "bad" (a % without    *)
(* two hexadecimal digits); the octet stands for its class:                *)
(*   "a" letters   "0" digits and -   "_" _ and ~   "+"   "." dot   "/"    *)
(*   "\\"   "?" ? and #   ":"   "@"   "!" what else is visible              *)
(*   "q" visible, but a URL has it encoded (such as < and >)               *)
(*   " " the rest, which a URL has encoded.                                *)
(***************************************************************************)
EXTENDS Naturals, Sequences, SequencesExt

CONSTANT None

Raw(octet) == <<"raw", octet>>
Enc(octet) == <<"enc", octet>>
Low(octet) == <<"low", octet>>
Bad == <<"bad", "%">>

Octets == {"a", "0", "_", "+", ".", "/", "\\", "?", ":", "@", "!", "q", " "}
Chars == ({"raw", "enc", "low"} \X Octets) \cup {Bad}
Segments == Seq(Chars)
Word == <<Raw("a")>>           \* any fixed word of a path template
Dots == {<<Raw(".")>>, <<Raw("."), Raw(".")>>}
Unreserved == {"a", "0", "_", "."}

MapPath(F(_), path) == [i \in DOMAIN path |-> [j \in DOMAIN path[i] |-> F(path[i][j])]]
AllChars(path, P(_)) == \A i \in DOMAIN path : \A j \in DOMAIN path[i] : P(path[i][j])

-------------------------------------------------------------------------------
(* The url crate.                                                          *)

IsDot(s) == Len(s) = 1 /\ s[1][2] = "."
IsDotDot(s) == Len(s) = 2 /\ s[1][2] = "." /\ s[2][2] = "."

UrlChar(ch) == IF ch[1] = "raw" /\ ch[2] \in {"q", " "} THEN Enc(ch[2]) ELSE ch

\* What segment i does to those before it: dot segments are resolved, encoded
\* ones too.
Push(done, path, i) ==
    LET s == path[i]
        up == IF IsDotDot(s) /\ done # <<>> THEN Front(done) ELSE done
        end == IF i = Len(path) THEN <<<<>>>> ELSE <<>>
    IN  IF IsDot(s) \/ IsDotDot(s) THEN up \o end ELSE Append(done, s)

\* Resolved(path)[i]: what the first i segments come to.
Resolved(path) ==
    LET done[i \in 0 .. Len(path)] == IF i = 0 THEN <<>> ELSE Push(done[i - 1], path, i)
    IN  done

\* Url::path for a path given with a base: dot segments are resolved, and what
\* a URL may not have is encoded.
UrlPath(path) == MapPath(UrlChar, Resolved(path)[Len(path)])

\* Url::parse takes the path for an absolute URL: it begins with a letter, then
\* letters, digits, +, - and dots up to a colon.
HasScheme(path) ==
    \E n \in 2 .. Len(path[1]) :
        /\ path[1][n] = Raw(":")
        /\ path[1][1] = Raw("a")
        /\ \A m \in 2 .. n - 1 : path[1][m] \in {Raw("a"), Raw("0"), Raw("+"), Raw(".")}

-------------------------------------------------------------------------------
(* Validation.                                                             *)

\* Mutant: an encoded letter or dot is let through.
Mutcanonical_segment(s) ==
    /\ s # <<>> /\ s \notin Dots
    /\ \A i \in DOMAIN s : \/ s[i][1] = "raw" /\ s[i][2] \notin {"?", "\\", "/", " "}
                           \/ s[i][1] = "enc" /\ s[i][2] \notin {"?", "\\", "/"}

canonical_segment(s) ==
    /\ s # <<>> /\ s \notin Dots
    /\ \A i \in DOMAIN s : \/ s[i][1] = "raw" /\ s[i][2] \notin {"?", "\\", "/", " "}
                           \/ s[i][1] = "enc" /\ s[i][2] \notin Unreserved \cup {"?", "\\", "/"}

canonical_path(path) ==
    \A i \in DOMAIN path : \/ canonical_segment(path[i])
                           \/ path[i] = <<>> /\ i = Len(path) /\ i > 1

\* The path below the upstream origin, or None.
build_url(path) ==
    IF /\ ~HasScheme(path)
       /\ AllChars(path, LAMBDA ch : ch # Raw("?"))
       /\ UrlPath(path) = path
      THEN path ELSE None
join_url(path) == IF canonical_path(path) THEN build_url(path) ELSE None

pypi_simple_url(project) ==
    IF canonical_segment(project) THEN join_url(<<Word, project, <<>>>>) ELSE None

cargo_download_url(name, version) ==
    join_url(<<Word, name, name \o Word \o version \o <<Raw(".")>> \o Word>>)

\* A scoped package is one segment with an encoded slash, %2F before %2f.
npm_packument_url(path) ==
    LET s == path[1]
        slashes == {i \in DOMAIN s : s[i] = Enc("/")}
        lower == {i \in DOMAIN s : s[i] = Low("/")}
        at == IF slashes # {} THEN Min(slashes) ELSE Min(lower)
        scope == SubSeq(s, 1, at - 1)
        name == SubSeq(s, at + 1, Len(s))
    IN  IF Len(path) # 1 \/ s = <<>> THEN None
        ELSE IF s[1] # Raw("@")
               THEN IF canonical_segment(s) THEN build_url(path) ELSE None
        ELSE IF slashes \cup lower = {} \/ Len(scope) <= 1
                  \/ ~canonical_segment(scope) \/ ~canonical_segment(name)
               THEN None
               ELSE build_url(<<scope \o <<Enc("/")>> \o name>>)

-------------------------------------------------------------------------------
(* Rewriting.  A link is [abs, host, plain, query, fragment, path]: whether*)
(* it names a host, which, whether it is free of credentials, whether it   *)
(* has a query or a fragment, and its path after the first slash.  What    *)
(* comes out is the same link or [origin, prefix, path], a link to here.   *)
(* The path of a link that names a host is taken as url::Url reads it:     *)
(* backslashes have become slashes, tabs and newlines are gone.            *)

canonical_rewrite_path(path) ==
    LET Canonical(ch) == IF ch[1] = "raw" THEN ch
                         ELSE IF ch[2] \in Unreserved THEN Raw(ch[2]) ELSE Enc(ch[2])
        out == MapPath(Canonical, path)
    IN  IF AllChars(path, LAMBDA ch : ch # Bad) /\ canonical_path(out) THEN out ELSE None

Here(origin, prefix, path) == [origin |-> origin, prefix |-> prefix, path |-> path]

\* "/simple/" and something.
BelowSimple(path) == Len(path) > 1 /\ path[1] = Word

rewrite_pypi_href(link, origin) ==
    LET path == canonical_rewrite_path(IF link.abs THEN UrlPath(link.path) ELSE link.path)
        file == link.abs /\ link.host = "pypi_files" /\ link.plain /\ ~link.query
        page == /\ IF link.abs THEN link.host = "pypi_simple" /\ link.plain ELSE TRUE
                /\ ~link.query /\ ~link.fragment
                /\ BelowSimple(IF link.abs THEN UrlPath(link.path) ELSE link.path)
    IN  IF path # None /\ file THEN Here(origin, "pypi/files", path)
        ELSE IF path # None /\ page THEN Here(origin, "pypi/simple", Tail(path))
        ELSE link

\* Mutant: the path goes out as the registry spelled it.
Mutrewrite_npm_tarball(link, origin) ==
    IF link.abs /\ link.host = "npm" /\ link.plain /\ ~link.query /\ ~link.fragment
      THEN Here(origin, "npm/tarballs", UrlPath(link.path))
      ELSE link

rewrite_npm_tarball(link, origin) ==
    LET path == canonical_rewrite_path(UrlPath(link.path))
    IN  IF /\ link.abs /\ link.host = "npm" /\ link.plain /\ ~link.query /\ ~link.fragment
           /\ path # None
          THEN Here(origin, "npm/tarballs", path)
          ELSE link

\* write_npm_package: the tarballs of a manifest, and of the versions of a
\* packument, not of versions inside a version.
rewrite_npm_json(place, link, origin) ==
    IF place \in {<<"dist">>, <<"versions", "dist">>}
      THEN rewrite_npm_tarball(link, origin)
      ELSE link
===============================================================================

------------------------------ MODULE MCFrontend ------------------------------
(* Spellings of a few names: plain, with encoded, lower-case, malformed and *)
(* unsafe characters, dot segments, doubled and trailing slashes; links in  *)
(* the same spellings; and Git requests around the two that are forwarded.  *)
EXTENDS Frontend

X == <<Raw("a")>>
Char == {Enc("a"), Low("a"), Raw("."), Enc("."), Raw("!"), Enc("!"), Raw("q"), Enc("q"),
         Raw("0"), Enc("0"), Raw("_"), Enc("_"), Raw("+"), Enc("+"),
         Enc(" "), Low(" "), Enc("/"), Raw(":"), Raw("\\"), Bad}
\* Three that Url::parse takes for the scheme of an absolute URL, three it does not.
Schemes == {<<Raw("a"), Raw(":")>>, <<Raw("a"), Raw("+"), Raw(":")>>,
            <<Raw("a"), Raw("0"), Raw("."), Raw(":")>>,
            <<Raw("0"), Raw(":")>>, <<Raw("a"), Raw("_"), Raw(":")>>,
            <<Raw("a"), Enc("+"), Raw(":")>>}
Segment == {X, <<>>, <<Raw("."), Raw(".")>>, <<Enc("."), Raw(".")>>} \cup Schemes
             \cup {<<ch>> : ch \in Char}
Scoped == {<<Raw("@")>> \o scope \o <<slash>> \o name :
              scope \in {X, <<>>}, slash \in {Enc("/"), Low("/")}, name \in {X, <<Enc("a")>>}}

Req(prefix, paths) == {[prefix |-> prefix, path |-> p, query |-> FALSE] : p \in paths}
MCRequests ==
    Req("npm/tarballs", {<<X, s>> : s \in Segment} \cup {<<s, X>> : s \in Segment} \cup {<<X>>})
    \cup Req("npm", {<<s>> : s \in Scoped \cup {X, <<Enc("a")>>}} \cup {<<X, <<>>>>})
    \cup Req("pypi/simple", {<<<<>>>>, <<X, <<>>>>, <<<<Low(" ")>>, <<>>>>, <<X>>})
    \cup Req("pypi/files", {<<X>>, <<<<>>>>})
    \cup Req("cargo/index", {<<X, X>>, <<X, <<Enc("a")>>>>})
    \cup Req("cargo/api/v1/crates", {<<X, s, Word>> : s \in {X, <<Enc("a")>>}} \cup {<<X, X>>})
    \cup {[prefix |-> "npm", path |-> <<X>>, query |-> TRUE]}

Link(host, path) == [abs |-> TRUE, host |-> host, plain |-> TRUE, query |-> FALSE,
                     fragment |-> FALSE, path |-> path]
LinkChar == {Enc("a"), Enc("0"), Enc("_"), Raw("+"), Enc("."), Raw("!"), Raw("q"), Low(" "), Enc("/"), Bad}
LinkSegment == {X, <<Raw("."), Raw(".")>>} \cup {<<ch>> : ch \in LinkChar}
LinkPaths == {<<X, s>> : s \in LinkSegment} \cup {<<s, X>> : s \in Schemes} \cup {<<X, <<>>>>}
Rooted(l) == [l EXCEPT !.abs = FALSE, !.host = None]
MCNpmLinks == {Link("npm", p) : p \in LinkPaths}
                \cup {[Link("npm", <<X>>) EXCEPT !.query = TRUE], Link("else", <<X>>)}
MCPypiLinks == {Link("pypi_files", p) : p \in LinkPaths}
                 \cup {[Link("pypi_files", <<X>>) EXCEPT !.fragment = TRUE],
                       [Link("pypi_files", <<X>>) EXCEPT !.plain = FALSE]}
                 \cup UNION {{Link("pypi_simple", p), Rooted(Link("", p))} :
                                p \in {<<X, s, <<>>>> : s \in LinkSegment}
                                        \cup {<<X, X>>, <<X, <<>>>>}}
MCValidated == {None, Link("npm", <<X, X>>), Link("pypi_files", <<X, X>>)}
MCNpmPlaces == {<<"dist">>, <<"versions", "dist">>, <<"versions", "versions", "dist">>}

Hop(host, plain) == [host |-> host, plain |-> plain]
MCRedirects == {<<>>, <<Hop("npm", TRUE)>>, <<Hop("npm", TRUE), Hop("else", TRUE)>>,
                <<Hop("npm", FALSE)>>, <<Hop("npm", TRUE), Hop("npm", TRUE), Hop("npm", TRUE)>>}

MCPercent == {"%63", "%zz"}
MCBackslash == {"a\\b"}
Names == {"own", "repo", "repo.git", ".git", "..", "", "x:", "x+1:", "<>", "a\\b", "info", "refs",
          "git-upload-pack", "git-receive-pack"} \cup MCPercent
MCStripGit == [s \in Names |-> CASE s = "repo.git" -> "repo" [] s = ".git" -> "" [] OTHER -> s]
Git(methods, paths, queries) ==
    [method : methods, absolute : {FALSE}, userinfo : {FALSE}, path : paths, query : queries,
     headers : {{"git-protocol", "authorization", "content-type"}}, large : {FALSE}]
MCGitRequests ==
    Git({"GET", "POST", "HEAD"},
        {<<"own", "repo">> \o rpc : rpc \in {<<"info", "refs">>, <<"git-upload-pack">>,
                                             <<"git-receive-pack">>}},
        {"none", "upload", "receive", "other"})
    \cup Git({"POST"}, {<<"">>, <<"own">>, <<"own", "repo", "refs">>}
                         \cup {<<o, n, "git-upload-pack">> : o \in {"own", "x:", "x+1:", "<>", "..", ""},
                                                            n \in Names \ {"own", "info", "refs"}},
             {"none"})
    \cup [method : {"POST", "CONNECT"}, absolute : BOOLEAN, userinfo : BOOLEAN,
          path : {<<"own", "repo", "git-upload-pack">>}, query : {"none"},
          headers : {{}}, large : BOOLEAN]
===============================================================================

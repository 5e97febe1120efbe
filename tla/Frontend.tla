------------------------------- MODULE Frontend -------------------------------
(***************************************************************************)
(* What clients see of the two listeners (src/src/cargo.rs, pypi.rs,       *)
(* npm.rs, git.rs over routes.rs): requests for pages and files in any     *)
(* spelling, the links of pages, restarts under another public address on  *)
(* the same cache directory, entries lost to eviction.  A handler is one   *)
(* step here; its flights are those of ArtifactCache and MetadataCache.    *)
(*                                                                         *)
(* A request is [prefix, path, query]: the fixed beginning of a route, the *)
(* path after it, and whether there is a query.  Routes of their own are   *)
(* config.json of the Cargo index, which is answered from the settings,    *)
(* and npm searches and audits, which are not cached (Admission).          *)
(***************************************************************************)
EXTENDS Paths, GitGateway, FiniteSets

CONSTANTS Requests,     \* package requests clients make
          PypiLinks,    \* links upstream may have on a simple page
          NpmLinks,     \* tarball links upstream may have in a packument
          NpmPlaces,    \* and where
          Validated,    \* links of pages that come with an ETag or Last-Modified
          Redirects,    \* chains of hosts upstream may redirect a download along
          MaxRedirects, \* MAX_PACKAGE_REDIRECTS
          GitRequests,  \* requests to the Git listener
          Origins,      \* values of VAMPIRE_PUBLIC_BASE_URL
          MaxEntries    \* bound on the cache

Routes == {"cargo/index", "cargo/api/v1/crates", "pypi/simple", "pypi/files", "npm",
           "npm/tarballs"}
Links == [abs : BOOLEAN, host : STRING \cup {None}, plain : BOOLEAN, query : BOOLEAN,
          fragment : BOOLEAN, path : Seq(Segments) \ {<<>>}]

ASSUME ConstantsAssumption ==
    /\ None \notin Seq(Segments)
    /\ Requests \subseteq [prefix : Routes, path : Seq(Segments) \ {<<>>}, query : BOOLEAN]
    /\ PypiLinks \cup NpmLinks \subseteq Links
    /\ Redirects \subseteq Seq([host : STRING, plain : BOOLEAN])

VARIABLES origin,   \* public_base_url of this run of the server
          cache,    \* the entries on disk, by their key
          answer,   \* a request and what it was answered with, until the client goes on
          git       \* a request to the Git listener and what became of it

vars == <<origin, cache, answer, git>>

Init == /\ origin \in Origins
        /\ cache = [k \in {} |-> None]
        /\ answer = None /\ git = None

-------------------------------------------------------------------------------
(* The routes: upstream, class and representation of a request.            *)

HostOf(q) == CASE q.prefix = "cargo/index" -> "cargo_index"
               [] q.prefix = "cargo/api/v1/crates" -> "cargo_download"
               [] q.prefix = "pypi/simple" -> "pypi_simple"
               [] q.prefix = "pypi/files" -> "pypi_files"
               [] OTHER -> "npm"

\* A path without query and with something after the prefix.
raw_path_tail(q) == IF q.query \/ q.path = <<<<>>>> THEN None ELSE join_url(q.path)

cargo_index(q) == raw_path_tail(q)

\* <name>/<version>/download.
cargo_download(q) ==
    IF ~q.query /\ Len(q.path) = 3 /\ q.path[1] # <<>> /\ q.path[2] # <<>> /\ q.path[3] = Word
      THEN cargo_download_url(q.path[1], q.path[2])
      ELSE None

\* The root page, or <project>/.
pypi_simple(q) ==
    IF q.query THEN None
    ELSE IF q.path = <<<<>>>> THEN join_url(<<Word, <<>>>>)
    ELSE IF Len(q.path) = 2 /\ q.path[1] # <<>> /\ q.path[2] = <<>>
      THEN pypi_simple_url(q.path[1])
    ELSE None

pypi_file(q) == raw_path_tail(q)

npm_packument(q) == IF q.query \/ q.path = <<<<>>>> THEN None ELSE npm_packument_url(q.path)

npm_tarball(q) == raw_path_tail(q)

UpstreamPath(q) == CASE q.prefix = "cargo/index" -> cargo_index(q)
                     [] q.prefix = "cargo/api/v1/crates" -> cargo_download(q)
                     [] q.prefix = "pypi/simple" -> pypi_simple(q)
                     [] q.prefix = "pypi/files" -> pypi_file(q)
                     [] q.prefix = "npm" -> npm_packument(q)
                     [] q.prefix = "npm/tarballs" -> npm_tarball(q)

Upstream(q) == [host |-> HostOf(q), path |-> UpstreamPath(q)]
Found(q) == UpstreamPath(q) # None
IsPage(q) == q.prefix \in {"cargo/index", "pypi/simple", "npm"}

\* MetadataRewrite, and with it the representation of a page.
Rewrite(q) == CASE q.prefix = "npm" -> <<"npm", origin>>
                [] q.prefix = "pypi/simple" -> <<"pypi", origin>>
                [] OTHER -> <<"raw">>

\* Mutant: the public address is left out of the identity.
Mutcache_identity(q) == <<Rewrite(q)[1]>>
cache_identity(q) == Rewrite(q)

\* Mutant: pages and files share one name space.
Muthash_key(q) == <<Upstream(q)>>

\* hash_key, which is taken to be injective.
hash_key(q) == IF IsPage(q) THEN <<"metadata", Upstream(q), cache_identity(q)>>
                            ELSE <<"artifact", Upstream(q)>>

\* What upstream may put on a page, and what the page says when it is served.
PageLinks(q) == CASE q.prefix = "npm" -> NpmLinks
                  [] q.prefix = "pypi/simple" -> PypiLinks
                  [] OTHER -> {None}
Served(q, place, link) ==
    CASE q.prefix = "npm" -> rewrite_npm_json(place, link, origin)
      [] q.prefix = "pypi/simple" -> rewrite_pypi_href(link, origin)
      [] OTHER -> None

\* Every hop is held against the first request.
package_redirect_allowed(host, hops) ==
    /\ Len(hops) <= MaxRedirects
    /\ \A i \in DOMAIN hops : hops[i].host = host /\ hops[i].plain

-------------------------------------------------------------------------------
Respond(q, entry) ==
    /\ answer' = [q |-> q, entry |-> entry]
    /\ UNCHANGED <<origin, git>>

Refuse(q) == ~Found(q) /\ Respond(None, None) /\ UNCHANGED cache

Put(k, entry) == /\ k \in DOMAIN cache \/ Cardinality(DOMAIN cache) < MaxEntries
                 /\ cache' = [x \in DOMAIN cache \cup {k} |-> IF x = k THEN entry ELSE cache[x]]

Cached(q) ==
    /\ hash_key(q) \in DOMAIN cache
    /\ Respond(q, cache[hash_key(q)])
    /\ UNCHANGED cache

\* The answer of upstream, at the end of the redirects the client follows.
Fetched(q, class, link, served) ==
    {[upstream |-> Upstream(q), class |-> class, rewrite |-> Rewrite(q), link |-> link,
      served |-> served, from |-> IF hops = <<>> THEN HostOf(q) ELSE Last(hops).host] :
        hops \in {h \in Redirects : package_redirect_allowed(HostOf(q), h)}}

\* handle_metadata, for GET and HEAD: upstream says that the entry is good
\* still, or sends the page anew; without a validator it is not kept.
GetPage(q) ==
    /\ Found(q) /\ IsPage(q)
    /\ \/ Cached(q)
       \/ \E link \in PageLinks(q), place \in NpmPlaces :
            \E entry \in Fetched(q, "page", link, Served(q, place, link)) :
               /\ Respond(q, entry)
               /\ IF link \in Validated THEN Put(hash_key(q), entry) ELSE UNCHANGED cache

\* handle_artifact; with head, handle_artifact_head, which stores nothing, as
\* a GET that upstream answers with an error does.
GetFile(q, head) ==
    /\ Found(q) /\ ~IsPage(q)
    /\ \/ Cached(q)
       \/ \E entry \in Fetched(q, "file", None, None) :
            /\ hash_key(q) \notin DOMAIN cache
            /\ Respond(q, entry)
            /\ IF head THEN UNCHANGED cache ELSE Put(hash_key(q), entry)

Idle == answer = None /\ git = None

Request == /\ Idle
           /\ \E q \in Requests : \/ Refuse(q)
                                  \/ GetPage(q)
                                  \/ \E head \in BOOLEAN : GetFile(q, head)

GitAsk == /\ Idle
          /\ \E q \in GitRequests : git' = [q |-> q, sent |-> GitRequest(q)]
          /\ UNCHANGED <<origin, cache, answer>>

\* The client has its answer and is done with it.
GoOn == /\ ~Idle
        /\ answer' = None /\ git' = None
        /\ UNCHANGED <<origin, cache>>

Evict == /\ Idle
         /\ \E k \in DOMAIN cache :
              cache' = [x \in DOMAIN cache \ {k} |-> cache[x]]
         /\ UNCHANGED <<origin, answer, git>>

Restart == /\ Idle
           /\ origin' \in Origins
           /\ UNCHANGED <<cache, answer, git>>

Next == Request \/ GoOn \/ GitAsk \/ Evict \/ Restart

Spec == Init /\ [][Next]_vars

-------------------------------------------------------------------------------
(* Properties.                                                             *)

\* RFC 3986: spellings that differ in encoded unreserved characters, in the case
\* of hexadecimal digits, or in dot segments name the same resource.
NormalChar(ch) == IF ch[1] = "raw" THEN ch
                  ELSE IF ch[2] \in Unreserved THEN Raw(ch[2]) ELSE Enc(ch[2])
Resource(path) == MapPath(NormalChar, UrlPath(path))

\* docs/specs/requirements.md:89: noncanonical paths are rejected, "encoded
\* unreserved aliases" among them: whatever spellings clients use, the cache never
\* holds two entries of one class and representation for one upstream resource.
NoAliases ==
    \A j, k \in DOMAIN cache :
       /\ cache[j].class = cache[k].class
       /\ cache[j].upstream.host = cache[k].upstream.host
       /\ Resource(cache[j].upstream.path) = Resource(cache[k].upstream.path)
       /\ cache[j].rewrite = cache[k].rewrite
       => j = k

\* An answer is what was asked for: a page for a page and a file for a file, of
\* the very resource, and its bytes came from the registry itself wherever
\* upstream redirected to.
AnswersMatch ==
    answer # None /\ answer.entry # None =>
       /\ answer.entry.class = IF IsPage(answer.q) THEN "page" ELSE "file"
       /\ answer.entry.upstream = Upstream(answer.q)
       /\ answer.entry.from = HostOf(answer.q)

IsHere(link) == link # None /\ "origin" \in DOMAIN link

\* docs/specs/arch.md:196: the identity of a representation "prevents a persistent
\* cache from serving URLs generated for an older VAMPIRE_PUBLIC_BASE_URL": a link
\* that was rewritten, by this run or an earlier one, leads here.
LinksPointHere ==
    answer # None /\ answer.entry # None /\ IsHere(answer.entry.served) =>
       answer.entry.served.origin = origin

\* A rewritten link is as good as the original: a client that follows it, and
\* spells its path as URLs do, makes a request that is accepted and reaches the
\* same upstream resource.  Left out: a first segment that reads like the scheme of
\* a URL, and links below /simple/ that are no project page; both are rewritten,
\* and refused when followed.
Following(link) == [prefix |-> link.prefix, path |-> UrlPath(link.path), query |-> FALSE]
Followable(link) ==
    /\ ~HasScheme(Resource(link.path))
    /\ ~link.abs \/ link.host = "pypi_simple" =>
          Len(UrlPath(link.path)) <= 3 /\ Last(UrlPath(link.path)) = <<>>
Resolves(link, served) ==
    LET q == Following(served)
    IN  /\ Found(q)
        /\ HostOf(q) = IF link.abs THEN link.host ELSE "pypi_simple"
        /\ Resource(UpstreamPath(q)) = Resource(link.path)
LinksResolve ==
    /\ answer # None /\ answer.entry # None
    /\ IsHere(answer.entry.served) /\ Followable(answer.entry.link)
    => Resolves(answer.entry.link, answer.entry.served)

\* Whatever is asked of the Git listener, all that goes to GitHub is a fetch from
\* the repository that was named: never a push, never with credentials.
GitFetchesOnly ==
    git # None /\ "rejected" \notin DOMAIN git.sent =>
       /\ <<git.sent.method, git.sent.service>> \in {<<"GET", "upload">>, <<"POST", "upload_pack">>}
       /\ git.sent.owner = git.q.path[1] /\ git.sent.repo = StripGit[git.q.path[2]]
       /\ ~git.q.userinfo /\ "authorization" \notin git.sent.headers
       /\ git.sent.method = "POST" => ~git.q.large
===============================================================================

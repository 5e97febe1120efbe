---------------------------- MODULE FrontendProofs ----------------------------
(***************************************************************************)
(* Proofs about Paths, GitGateway and Frontend, for any requests, links,   *)
(* redirects and public addresses: whatever spellings clients use, the     *)
(* cache never holds a resource twice, an answer is what was asked for,    *)
(* rewritten links lead here and to the resource upstream meant, and only  *)
(* fetches go to GitHub.                                                   *)
(***************************************************************************)
EXTENDS Frontend, FiniteSums, SequenceTheorems

-------------------------------------------------------------------------------
(* The Git gateway.                                                        *)

\* from_request lets through the two requests of a fetch, without credentials,
\* from the repository the path names.
LEMMA GitAccepts ==
  ASSUME NEW q, "rejected" \notin DOMAIN from_request(q)
  PROVE  LET git_ == from_request(q)
         IN  /\ ~q.userinfo
             /\ git_.owner = q.path[1] /\ git_.repo = StripGit[q.path[2]]
             /\ \/ q.method = "GET" /\ git_.rpc = "info_refs" /\ q.query = "upload"
                \/ q.method = "POST" /\ git_.rpc = "upload_pack"
<1> DEFINE parsed == parse_github_git_request_path(q.path)
<1>1. ~q.userinfo /\ "rejected" \notin DOMAIN parsed /\ from_request(q) = resolve(parsed, q)
  BY DEF from_request, Rejected
<1>2. parsed.owner = q.path[1] /\ parsed.repo = StripGit[q.path[2]]
  BY <1>1 DEF parse_github_git_request_path, Rejected, NotGit
<1> HIDE DEF parsed
<1>3. \/ /\ from_request(q) = parsed
         /\ \/ q.method = "GET" /\ parsed.rpc = "info_refs" /\ q.query = "upload"
            \/ q.method = "POST" /\ parsed.rpc = "upload_pack"
      \/ \E status : from_request(q) = Rejected(status)
  BY <1>1 DEF resolve, NotGit
<1>4. \A status : "rejected" \in DOMAIN Rejected(status)
  BY DEF Rejected
<1>5. QED
  BY <1>1, <1>2, <1>3, <1>4

\* What handle_git sends.
LEMMA GitSends ==
  ASSUME NEW q, NEW sent, sent = GitRequest(q), "rejected" \notin DOMAIN sent
  PROVE  /\ <<sent.method, sent.service>> \in {<<"GET", "upload">>, <<"POST", "upload_pack">>}
         /\ sent.owner = q.path[1] /\ sent.repo = StripGit[q.path[2]]
         /\ ~q.userinfo /\ "authorization" \notin sent.headers
         /\ sent.method = "POST" => ~q.large
<1> DEFINE parsed == from_request(q)
           allowed == {h \in q.headers : is_allowlisted_git_request_header(q.method, h)}
<1>1. /\ "rejected" \notin DOMAIN parsed
      /\ ~(q.method = "POST" /\ q.large)
      /\ sent = [method |-> q.method, owner |-> parsed.owner, repo |-> parsed.repo,
                 service |-> IF q.method = "GET" THEN q.query ELSE parsed.rpc,
                 headers |-> allowed]
  BY DEF GitRequest, Rejected
<1>2. "authorization" \notin allowed
  BY DEF is_allowlisted_git_request_header
<1>3. /\ ~q.userinfo
      /\ parsed.owner = q.path[1] /\ parsed.repo = StripGit[q.path[2]]
      /\ \/ q.method = "GET" /\ q.query = "upload"
         \/ q.method = "POST" /\ parsed.rpc = "upload_pack"
  BY <1>1, GitAccepts
<1> HIDE DEF parsed, allowed
<1>4. QED
  BY <1>1, <1>2, <1>3

-------------------------------------------------------------------------------
(* Spellings.                                                              *)

\* A path as a URL has it, and in normal spelling.
UrlSpelling(p) == MapPath(UrlChar, p)
NormalSpelling(p) == MapPath(NormalChar, p)

\* A segment that is spelled the normal way.
NormalSegment(s) == \A j \in DOMAIN s : NormalChar(s[j]) = s[j]

\* The characters of a segment.
LEMMA CharForms ==
  ASSUME NEW ch \in Chars
  PROVE  /\ ch = <<ch[1], ch[2]>>
         /\ ch[1] \in {"raw", "enc", "low", "bad"}
         /\ ch[1] = "bad" => ch = Bad
BY DEF Chars, Bad

\* canonical_segment accepts the normal spelling only.
LEMMA CanonicalIsNormal ==
  ASSUME NEW s \in Segments, canonical_segment(s)
  PROVE  NormalSegment(s)
<1> SUFFICES ASSUME NEW j \in DOMAIN s PROVE NormalChar(s[j]) = s[j]
  BY DEF NormalSegment
<1>1. s[j] \in Chars
  BY DEF Segments
<1>2. s[j] = <<s[j][1], s[j][2]>>
  BY <1>1, CharForms
<1>3. s[j][1] = "raw" \/ (s[j][1] = "enc" /\ s[j][2] \notin Unreserved)
  BY DEF canonical_segment
<1>4. QED
  BY <1>2, <1>3 DEF NormalChar, Enc

\* A path of normal segments is its own normal spelling.
LEMMA NormalPathIsItself ==
  ASSUME NEW p \in Seq(Segments), \A i \in DOMAIN p : NormalSegment(p[i])
  PROVE  NormalSpelling(p) = p
<1>1. ASSUME NEW i \in DOMAIN p
      PROVE  [j \in DOMAIN p[i] |-> NormalChar(p[i][j])] = p[i]
  <2>1. p[i] \in Seq(Chars)
    BY DEF Segments
  <2>2. p[i] = [j \in DOMAIN p[i] |-> p[i][j]]
    BY <2>1
  <2>3. QED
    BY <1>1, <2>2, Zenon DEF NormalSegment
<1>2. p = [i \in DOMAIN p |-> p[i]]
  OBVIOUS
<1>3. QED
  BY <1>1, <1>2, Zenon DEF NormalSpelling, MapPath

\* build_url answers with the very path, which Url::parse leaves as it is.
LEMMA BuildFacts ==
  ASSUME NEW p, build_url(p) # None
  PROVE  build_url(p) = p /\ UrlPath(p) = p
<1> DEFINE ok == /\ ~HasScheme(p)
                 /\ AllChars(p, LAMBDA ch : ch # Raw("?"))
                 /\ UrlPath(p) = p
<1>1. build_url(p) = IF ok THEN p ELSE None
  BY DEF build_url
<1>2. ok => UrlPath(p) = p
  OBVIOUS
<1> HIDE DEF ok
<1>3. QED
  BY <1>1, <1>2

\* A path below upstream that is in normal spelling is the name of its resource.
IsResource(p) == Resource(p) = p

LEMMA BuiltIsResource ==
  ASSUME NEW p \in Seq(Segments), build_url(p) # None,
         \A i \in DOMAIN p : NormalSegment(p[i])
  PROVE  build_url(p) = p /\ IsResource(p)
<1>1. build_url(p) = p /\ UrlPath(p) = p
  BY BuildFacts
<1>2. NormalSpelling(p) = p
  BY NormalPathIsItself
<1>3. QED
  BY <1>1, <1>2 DEF IsResource, Resource, NormalSpelling

\* join_url accepts a path only under the name of its resource.
LEMMA JoinedIsResource ==
  ASSUME NEW p \in Seq(Segments), join_url(p) # None
  PROVE  join_url(p) = p /\ IsResource(p)
<1>1. canonical_path(p) /\ join_url(p) = build_url(p)
  BY DEF join_url
<1>2. ASSUME NEW i \in DOMAIN p PROVE NormalSegment(p[i])
  <2>1. p[i] \in Segments
    OBVIOUS
  <2>2. canonical_segment(p[i]) \/ p[i] = <<>>
    BY <1>1 DEF canonical_path
  <2>3. CASE p[i] = <<>>
    BY <2>3 DEF NormalSegment
  <2>4. QED
    BY <2>1, <2>2, <2>3, CanonicalIsNormal
<1>3. QED
  BY <1>1, <1>2, BuiltIsResource

\* The parts of a scoped name before and after a separator.
LEMMA PartsOfName ==
  ASSUME NEW s \in Segments, NEW at \in DOMAIN s
  PROVE  SubSeq(s, 1, at - 1) \in Segments /\ SubSeq(s, at + 1, Len(s)) \in Segments
<1>1. s \in Seq(Chars) /\ Len(s) \in Nat /\ DOMAIN s = 1 .. Len(s)
  BY LenProperties DEF Segments
<1>2. \A i \in 1 .. Len(s) : s[i] \in Chars
  BY <1>1, ElementOfSeq
<1>3. at \in Nat /\ 1 <= at /\ at <= Len(s)
  BY <1>1
<1>4. /\ \A i \in 1 .. at - 1 : s[i] \in Chars
      /\ \A i \in at + 1 .. Len(s) : s[i] \in Chars
  BY <1>1, <1>2, <1>3
<1>5. QED
  BY <1>1, <1>3, <1>4, SubSeqProperties DEF Segments

\* The first of some separators of a name is one of its characters.
LEMMA MinInDomain ==
  ASSUME NEW s \in Segments, NEW I \in SUBSET DOMAIN s, I # {}
  PROVE  Min(I) \in DOMAIN s
<1>1. DOMAIN s = 1 .. Len(s) /\ Len(s) \in Nat
  BY LenProperties DEF Segments
<1>2. I \subseteq Nat
  BY <1>1
<1>3. \E n \in I : \A m \in I : n <= m
  BY <1>2, NatSetLeast
<1>4. Min(I) \in I
  BY <1>3 DEF Min
<1>5. QED
  BY <1>4

\* A scoped name put together from two accepted parts.
LEMMA ScopedIsNormal ==
  ASSUME NEW scope \in Segments, NEW name \in Segments,
         NormalSegment(scope), NormalSegment(name)
  PROVE  /\ scope \o <<Enc("/")>> \o name \in Segments
         /\ NormalSegment(scope \o <<Enc("/")>> \o name)
<1> DEFINE slash == <<Enc("/")>>
           all == scope \o slash \o name
<1>1. slash \in Seq(Chars) /\ Len(slash) = 1 /\ slash[1] = Enc("/")
  <2>1. Enc("/") \in Chars
    BY DEF Enc, Chars, Octets
  <2>2. QED
    BY <2>1
<1>2. NormalChar(Enc("/")) = Enc("/")
  BY DEF NormalChar, Enc, Unreserved
<1> HIDE DEF slash
<1>3. /\ scope \o slash \in Seq(Chars)
      /\ Len(scope \o slash) = Len(scope) + 1
      /\ \A i \in 1 .. Len(scope) + 1 :
            (scope \o slash)[i] = IF i <= Len(scope) THEN scope[i] ELSE slash[i - Len(scope)]
  BY <1>1, ConcatProperties DEF Segments
<1>4. Len(scope) \in Nat /\ Len(name) \in Nat
  BY LenProperties DEF Segments
<1>5. ASSUME NEW i \in DOMAIN (scope \o slash)
      PROVE  NormalChar((scope \o slash)[i]) = (scope \o slash)[i]
  <2>1. i \in 1 .. Len(scope) + 1
    BY <1>3
  <2>2. CASE i <= Len(scope)
    <3>1. i \in DOMAIN scope /\ (scope \o slash)[i] = scope[i]
      BY <1>3, <1>4, <2>1, <2>2 DEF Segments
    <3>2. QED
      BY <3>1 DEF NormalSegment
  <2>3. CASE ~(i <= Len(scope))
    <3>1. (scope \o slash)[i] = slash[i - Len(scope)] /\ i - Len(scope) = 1
      BY <1>3, <1>4, <2>1, <2>3
    <3>2. QED
      BY <1>1, <1>2, <3>1
  <2>4. QED
    BY <2>2, <2>3
<1> DEFINE front == scope \o slash
<1> HIDE DEF front
<1>6. /\ front \in Seq(Chars) /\ Len(front) \in Nat
      /\ \A i \in DOMAIN front : NormalChar(front[i]) = front[i]
  BY <1>3, <1>4, <1>5 DEF front
<1>7. /\ front \o name \in Seq(Chars)
      /\ Len(front \o name) = Len(front) + Len(name)
      /\ \A i \in 1 .. Len(front) + Len(name) :
            (front \o name)[i] = IF i <= Len(front) THEN front[i] ELSE name[i - Len(front)]
  BY <1>6, ConcatProperties DEF Segments
<1>8. ASSUME NEW i \in DOMAIN (front \o name)
      PROVE  NormalChar((front \o name)[i]) = (front \o name)[i]
  <2>1. i \in 1 .. Len(front) + Len(name)
    BY <1>7
  <2>2. CASE i <= Len(front)
    <3>1. i \in DOMAIN front /\ (front \o name)[i] = front[i]
      BY <1>4, <1>6, <1>7, <2>1, <2>2
    <3>2. QED
      BY <1>6, <3>1
  <2>3. CASE ~(i <= Len(front))
    <3>1. i - Len(front) \in DOMAIN name /\ (front \o name)[i] = name[i - Len(front)]
      BY <1>4, <1>6, <1>7, <2>1, <2>3 DEF Segments
    <3>2. QED
      BY <3>1 DEF NormalSegment
  <2>4. QED
    BY <2>2, <2>3
<1>9. front \o name = scope \o <<Enc("/")>> \o name
  BY DEF front, slash
<1>10. QED
  BY <1>7, <1>8, <1>9 DEF Segments, NormalSegment

\* npm_packument_url accepts a plain name, or a scoped one of which it writes the
\* separator as %2F, only under the name of its resource.
LEMMA PackumentIsResource ==
  ASSUME NEW p \in Seq(Segments) \ {<<>>}, npm_packument_url(p) # None
  PROVE  IsResource(npm_packument_url(p))
<1> DEFINE s == p[1]
           slashes == {i \in DOMAIN s : s[i] = Enc("/")}
           lower == {i \in DOMAIN s : s[i] = Low("/")}
           at == IF slashes # {} THEN Min(slashes) ELSE Min(lower)
           scope == SubSeq(s, 1, at - 1)
           name == SubSeq(s, at + 1, Len(s))
<1>1. Len(p) = 1 /\ s # <<>>
  BY DEF npm_packument_url
<1>2. s \in Segments /\ DOMAIN p = {1}
  <2>1. 1 \in 1 .. Len(p)
    BY <1>1
  <2>2. QED
    BY <1>1, <2>1, ElementOfSeq, LenProperties
<1>3. CASE s[1] # Raw("@")
  <2>1. canonical_segment(s) /\ npm_packument_url(p) = build_url(p)
    BY <1>1, <1>3 DEF npm_packument_url
  <2>2. \A i \in DOMAIN p : NormalSegment(p[i])
    BY <1>2, <2>1, CanonicalIsNormal
  <2>3. QED
    BY <2>1, <2>2, BuiltIsResource
<1>4. CASE s[1] = Raw("@")
  <2>1. /\ slashes \cup lower # {}
        /\ canonical_segment(scope) /\ canonical_segment(name)
        /\ npm_packument_url(p) = build_url(<<scope \o <<Enc("/")>> \o name>>)
    BY <1>1, <1>4 DEF npm_packument_url
  <2>2. at \in DOMAIN s
    <3>1. slashes \in SUBSET DOMAIN s /\ lower \in SUBSET DOMAIN s
      OBVIOUS
    <3> HIDE DEF slashes, lower
    <3>2. CASE slashes # {}
      BY <1>2, <3>1, <3>2, MinInDomain
    <3>3. CASE slashes = {}
      BY <1>2, <2>1, <3>1, <3>3, MinInDomain
    <3>4. QED
      BY <3>2, <3>3
  <2> HIDE DEF at
  <2>3. scope \in Segments /\ name \in Segments
    BY <1>2, <2>2, PartsOfName
  <2> HIDE DEF scope, name
  <2>4. NormalSegment(scope) /\ NormalSegment(name)
    BY <2>1, <2>3, CanonicalIsNormal
  <2> DEFINE whole == scope \o <<Enc("/")>> \o name
  <2>5. whole \in Segments /\ NormalSegment(whole)
    BY <2>3, <2>4, ScopedIsNormal
  <2>6. npm_packument_url(p) = build_url(<<whole>>)
    BY <2>1
  <2> HIDE DEF whole
  <2>7. <<whole>> \in Seq(Segments) /\ \A i \in DOMAIN <<whole>> : NormalSegment(<<whole>>[i])
    BY <2>5
  <2>8. QED
    BY <2>6, <2>7, BuiltIsResource
<1>5. QED
  BY <1>3, <1>4

\* The words of the route templates.
LEMMA TemplateWords == Word \in Segments /\ <<Raw(".")>> \in Segments /\ <<>> \in Segments
<1>1. Raw("a") \in Chars /\ Raw(".") \in Chars
  BY DEF Raw, Chars, Octets
<1>2. QED
  BY <1>1 DEF Word, Segments

\* Every route accepts a resource only under its own name.
LEMMA UpstreamIsResource ==
  ASSUME NEW q \in [prefix : Routes, path : Seq(Segments) \ {<<>>}, query : BOOLEAN], Found(q)
  PROVE  IsResource(UpstreamPath(q))
<1>1. q.path \in Seq(Segments) \ {<<>>} /\ q.prefix \in Routes
  OBVIOUS
<1>2. \A i \in 1 .. Len(q.path) : q.path[i] \in Segments
  BY <1>1, ElementOfSeq
<1>3. ASSUME raw_path_tail(q) # None PROVE IsResource(raw_path_tail(q))
  <2>1. raw_path_tail(q) = join_url(q.path)
    BY <1>3 DEF raw_path_tail
  <2>2. QED
    BY <1>1, <1>3, <2>1, JoinedIsResource
<1>4. CASE q.prefix \in {"cargo/index", "pypi/files", "npm/tarballs"}
  <2>1. UpstreamPath(q) = raw_path_tail(q)
    BY <1>4 DEF UpstreamPath, cargo_index, pypi_file, npm_tarball
  <2>2. QED
    BY <1>3, <2>1 DEF Found
<1>5. CASE q.prefix = "cargo/api/v1/crates"
  <2>1. UpstreamPath(q) = cargo_download(q) /\ cargo_download(q) # None
    BY <1>5 DEF UpstreamPath, Found
  <2> DEFINE name == q.path[1]
             version == q.path[2]
             file == name \o Word \o version \o <<Raw(".")>> \o Word
  <2>2. Len(q.path) = 3 /\ cargo_download(q) = cargo_download_url(name, version)
    BY <2>1 DEF cargo_download
  <2>3. name \in Segments /\ version \in Segments
    BY <1>2, <2>2
  <2>4. cargo_download(q) = join_url(<<Word, name, file>>)
    BY <2>2 DEF cargo_download_url
  <2> HIDE DEF name, version
  <2>5. file \in Segments
    <3>1. name \o Word \in Segments
      BY <2>3, TemplateWords DEF Segments
    <3>2. name \o Word \o version \in Segments
      BY <2>3, <3>1 DEF Segments
    <3>3. name \o Word \o version \o <<Raw(".")>> \in Segments
      BY <3>2, TemplateWords DEF Segments
    <3>4. QED
      BY <3>3, TemplateWords DEF Segments
  <2> HIDE DEF file
  <2>6. <<Word, name, file>> \in Seq(Segments)
    BY <2>3, <2>5, TemplateWords
  <2>7. QED
    BY <2>1, <2>4, <2>6, JoinedIsResource
<1>6. CASE q.prefix = "pypi/simple"
  <2>1. UpstreamPath(q) = pypi_simple(q) /\ pypi_simple(q) # None
    BY <1>6 DEF UpstreamPath, Found
  <2>2. CASE q.path = <<<<>>>>
    <3>1. pypi_simple(q) = join_url(<<Word, <<>>>>)
      BY <2>1, <2>2 DEF pypi_simple
    <3>2. <<Word, <<>>>> \in Seq(Segments)
      BY TemplateWords
    <3>3. QED
      BY <2>1, <3>1, <3>2, JoinedIsResource
  <2>3. CASE q.path # <<<<>>>>
    <3> DEFINE project == q.path[1]
    <3>1. Len(q.path) = 2 /\ pypi_simple(q) = pypi_simple_url(project)
      BY <2>1, <2>3 DEF pypi_simple
    <3>2. project \in Segments
      BY <1>2, <3>1
    <3> HIDE DEF project
    <3>3. pypi_simple(q) = join_url(<<Word, project, <<>>>>)
      BY <2>1, <3>1 DEF pypi_simple_url
    <3>4. <<Word, project, <<>>>> \in Seq(Segments)
      BY <3>2, TemplateWords
    <3>5. QED
      BY <2>1, <3>3, <3>4, JoinedIsResource
  <2>4. QED
    BY <2>2, <2>3
<1>7. CASE q.prefix = "npm"
  <2>1. UpstreamPath(q) = npm_packument_url(q.path) /\ UpstreamPath(q) # None
    BY <1>7 DEF UpstreamPath, Found, npm_packument
  <2>2. QED
    BY <1>1, <2>1, PackumentIsResource
<1>8. QED
  BY <1>1, <1>4, <1>5, <1>6, <1>7 DEF Routes

-------------------------------------------------------------------------------
(* Url::path.                                                              *)

\* Resolved is the function its recursive definition describes.
LEMMA ResolvedEquation ==
  ASSUME NEW p, Len(p) \in Nat
  PROVE  Resolved(p) = [i \in 0 .. Len(p) |->
                          IF i = 0 THEN <<>> ELSE Push(Resolved(p)[i - 1], p, i)]
<1> DEFINE Solves(g, n) == g = [i \in 0 .. n |-> IF i = 0 THEN <<>> ELSE Push(g[i - 1], p, i)]
           Good == {n \in Nat : \E g : Solves(g, n)}
<1>1. 0 \in Good
  <2> DEFINE g == [i \in 0 .. 0 |-> <<>>]
  <2>1. Solves(g, 0)
    OBVIOUS
  <2>2. QED
    BY <2>1
<1>2. ASSUME NEW n \in Good PROVE n + 1 \in Good
  <2>1. PICK g : Solves(g, n)
    OBVIOUS
  <2> DEFINE h == [i \in 0 .. n + 1 |-> IF i <= n THEN g[i] ELSE Push(g[n], p, n + 1)]
  <2>2. n \in Nat /\ \A i \in 0 .. n : g[i] = IF i = 0 THEN <<>> ELSE Push(g[i - 1], p, i)
    BY <2>1, Zenon
  <2>3. ASSUME NEW i \in 0 .. n + 1
        PROVE  h[i] = IF i = 0 THEN <<>> ELSE Push(h[i - 1], p, i)
    <3>1. CASE i = 0
      <4>1. h[i] = g[0] /\ g[0] = <<>>
        BY <2>2, <3>1
      <4>2. QED
        BY <3>1, <4>1
    <3>2. CASE i # 0 /\ i <= n
      <4>1. h[i] = g[i] /\ h[i - 1] = g[i - 1]
        BY <2>2, <3>2
      <4>2. g[i] = Push(g[i - 1], p, i)
        BY <2>2, <3>2
      <4>3. QED
        BY <3>2, <4>1, <4>2
    <3>3. CASE i = n + 1
      <4>1. h[i] = Push(g[n], p, n + 1) /\ h[n] = g[n] /\ i - 1 = n /\ i # 0
        BY <2>2, <3>3
      <4>2. QED
        BY <3>3, <4>1
    <3>4. QED
      BY <2>2, <3>1, <3>2, <3>3
  <2>4. h = [i \in 0 .. n + 1 |-> h[i]]
    OBVIOUS
  <2> HIDE DEF h
  <2>5. Solves(h, n + 1)
    BY <2>3, <2>4, Zenon
  <2>6. QED
    BY <2>2, <2>5
<1>3. Good = Nat
  <2> HIDE DEF Good
  <2>1. Good \subseteq Nat
    BY DEF Good
  <2>2. QED
    BY <1>1, <1>2, <2>1, NatSetInduction
<1>4. \E g : Solves(g, Len(p))
  <2>1. Len(p) \in Good
    BY <1>3
  <2>2. QED
    BY <2>1
<1>5. Resolved(p) = CHOOSE g : Solves(g, Len(p))
  BY DEF Resolved
<1>6. Solves(Resolved(p), Len(p))
  <2> HIDE DEF Solves
  <2>1. QED
    BY <1>4, <1>5
<1>7. QED
  BY <1>6

\* Resolving dot segments gives a path again.
LEMMA PushType ==
  ASSUME NEW p \in Seq(Segments), NEW done \in Seq(Segments), NEW i \in 1 .. Len(p)
  PROVE  Push(done, p, i) \in Seq(Segments)
<1>1. p[i] \in Segments
  BY ElementOfSeq
<1>2. done # <<>> => Front(done) \in Seq(Segments)
  <2> SUFFICES ASSUME done # <<>> PROVE SubSeq(done, 1, Len(done) - 1) \in Seq(Segments)
    BY DEF Front
  <2>1. Len(done) \in Nat /\ \A j \in 1 .. Len(done) : done[j] \in Segments
    BY LenProperties, ElementOfSeq
  <2>2. \A j \in 1 .. Len(done) - 1 : done[j] \in Segments
    BY <2>1
  <2>3. QED
    BY <2>1, <2>2, SubSeqProperties
<1> DEFINE up == IF IsDotDot(p[i]) /\ done # <<>> THEN Front(done) ELSE done
           end == IF i = Len(p) THEN <<<<>>>> ELSE <<>>
<1>3. up \in Seq(Segments)
  BY <1>2
<1>4. end \in Seq(Segments)
  BY TemplateWords
<1>5. Push(done, p, i) = IF IsDot(p[i]) \/ IsDotDot(p[i]) THEN up \o end ELSE Append(done, p[i])
  BY DEF Push
<1> HIDE DEF up, end
<1>6. up \o end \in Seq(Segments) /\ Append(done, p[i]) \in Seq(Segments)
  BY <1>1, <1>3, <1>4, ConcatProperties, AppendProperties
<1>7. QED
  BY <1>5, <1>6

LEMMA ResolvedType ==
  ASSUME NEW p \in Seq(Segments)
  PROVE  \A i \in 0 .. Len(p) : Resolved(p)[i] \in Seq(Segments)
<1> DEFINE r == Resolved(p)
           Good == {n \in Nat : n <= Len(p) => r[n] \in Seq(Segments)}
<1>0. Len(p) \in Nat
  BY LenProperties
<1>1. \A i \in 0 .. Len(p) : r[i] = IF i = 0 THEN <<>> ELSE Push(r[i - 1], p, i)
  BY <1>0, ResolvedEquation, Zenon
<1> HIDE DEF r
<1>2. 0 \in Good
  <2>1. r[0] = <<>> /\ <<>> \in Seq(Segments)
    BY <1>0, <1>1, EmptySeq
  <2>2. QED
    BY <2>1
<1>3. ASSUME NEW n \in Good PROVE n + 1 \in Good
  <2> SUFFICES ASSUME n + 1 <= Len(p) PROVE r[n + 1] \in Seq(Segments)
    OBVIOUS
  <2>1. n \in Nat /\ r[n] \in Seq(Segments)
    BY <1>0
  <2>2. n + 1 \in 1 .. Len(p) /\ n + 1 - 1 = n /\ n + 1 # 0 /\ n + 1 \in 0 .. Len(p)
    BY <1>0, <2>1
  <2>3. r[n + 1] = Push(r[n], p, n + 1)
    BY <1>1, <2>2
  <2>4. QED
    BY <2>1, <2>2, <2>3, PushType
<1>4. Good = Nat
  <2> HIDE DEF Good
  <2>1. Good \subseteq Nat
    BY DEF Good
  <2>2. QED
    BY <1>2, <1>3, <2>1, NatSetInduction
<1>5. ASSUME NEW i \in 0 .. Len(p) PROVE r[i] \in Seq(Segments)
  BY <1>0, <1>4
<1>6. QED
  BY <1>5 DEF r

\* Nothing of a path goes up or stays.
NoDots(p) == \A i \in DOMAIN p : ~IsDot(p[i]) /\ ~IsDotDot(p[i])

LEMMA AppendedSegment ==
  ASSUME NEW done \in Seq(Segments), NEW s \in Segments
  PROVE  /\ Len(Append(done, s)) = Len(done) + 1
         /\ \A j \in 1 .. Len(done) : Append(done, s)[j] = done[j]
         /\ Append(done, s)[Len(done) + 1] = s
BY AppendProperties

LEMMA ResolvedWithoutDots ==
  ASSUME NEW p \in Seq(Segments), NoDots(p)
  PROVE  Resolved(p)[Len(p)] = p
<1> DEFINE r == Resolved(p)
           Good == {n \in Nat : n <= Len(p) =>
                        Len(r[n]) = n /\ \A j \in 1 .. n : r[n][j] = p[j]}
<1>0. Len(p) \in Nat
  BY LenProperties
<1>1. \A i \in 0 .. Len(p) : r[i] = IF i = 0 THEN <<>> ELSE Push(r[i - 1], p, i)
  BY <1>0, ResolvedEquation, Zenon
<1>2. \A i \in 0 .. Len(p) : r[i] \in Seq(Segments)
  BY ResolvedType
<1> HIDE DEF r
<1>3. 0 \in Good
  BY <1>0, <1>1
<1>4. ASSUME NEW n \in Good PROVE n + 1 \in Good
  <2> SUFFICES ASSUME n + 1 <= Len(p)
               PROVE  Len(r[n + 1]) = n + 1 /\ \A j \in 1 .. n + 1 : r[n + 1][j] = p[j]
    OBVIOUS
  <2>1. n \in Nat /\ Len(r[n]) = n /\ \A j \in 1 .. n : r[n][j] = p[j]
    BY <1>0
  <2>2. n + 1 \in 1 .. Len(p) /\ n + 1 - 1 = n /\ n + 1 # 0 /\ n \in 0 .. Len(p)
        /\ n + 1 \in 0 .. Len(p)
    BY <1>0, <2>1
  <2>3. r[n + 1] = Push(r[n], p, n + 1) /\ r[n] \in Seq(Segments)
    BY <1>1, <1>2, <2>2
  <2>4. ~IsDot(p[n + 1]) /\ ~IsDotDot(p[n + 1]) /\ p[n + 1] \in Segments
    BY <2>2, ElementOfSeq, LenProperties DEF NoDots
  <2>5. r[n + 1] = Append(r[n], p[n + 1])
    BY <2>3, <2>4 DEF Push
  <2>6. /\ Len(r[n + 1]) = n + 1 /\ r[n + 1][n + 1] = p[n + 1]
        /\ \A j \in 1 .. n : r[n + 1][j] = r[n][j]
    <3>1. /\ Len(Append(r[n], p[n + 1])) = Len(r[n]) + 1
          /\ \A j \in 1 .. Len(r[n]) : Append(r[n], p[n + 1])[j] = r[n][j]
          /\ Append(r[n], p[n + 1])[Len(r[n]) + 1] = p[n + 1]
      <4>1. r[n] \in Seq(Segments) /\ p[n + 1] \in Segments
        BY <2>3, <2>4
      <4>2. QED
        BY <4>1, AppendedSegment, Zenon
    <3>2. QED
      BY <2>1, <2>5, <3>1, Zenon
  <2>7. \A j \in 1 .. n + 1 : j \in 1 .. n \/ j = n + 1
    BY <2>1
  <2>8. QED
    BY <2>1, <2>6, <2>7
<1>5. Good = Nat
  <2> HIDE DEF Good
  <2>1. Good \subseteq Nat
    BY DEF Good
  <2>2. QED
    BY <1>3, <1>4, <2>1, NatSetInduction
<1>6. Len(r[Len(p)]) = Len(p) /\ \A j \in 1 .. Len(p) : r[Len(p)][j] = p[j]
  BY <1>0, <1>5
<1>7. r[Len(p)] \in Seq(Segments)
  BY <1>0, <1>2
<1>8. r[Len(p)] = p
  BY <1>6, <1>7, SeqEqual
<1>9. QED
  BY <1>8 DEF r

-------------------------------------------------------------------------------
(* Paths that differ in the spelling of characters only.                   *)

\* m has the segments of p, and in them as many characters.
Shape(m, p) == m = [i \in DOMAIN p |-> [j \in DOMAIN p[i] |-> m[i][j]]]

LEMMA ShapeFacts ==
  ASSUME NEW p \in Seq(Segments), NEW m, Shape(m, p),
         \A i \in DOMAIN p : \A j \in DOMAIN p[i] : m[i][j] \in Chars
  PROVE  /\ m \in Seq(Segments) /\ Len(m) = Len(p) /\ DOMAIN m = DOMAIN p
         /\ \A i \in DOMAIN p : /\ m[i] \in Segments
                                /\ Len(m[i]) = Len(p[i]) /\ DOMAIN m[i] = DOMAIN p[i]
<1>1. Len(p) \in Nat /\ DOMAIN p = 1 .. Len(p)
  BY LenProperties
<1>2. ASSUME NEW i \in DOMAIN p
      PROVE  m[i] \in Segments /\ Len(m[i]) = Len(p[i]) /\ DOMAIN m[i] = DOMAIN p[i]
  <2>1. p[i] \in Seq(Chars) /\ Len(p[i]) \in Nat /\ DOMAIN p[i] = 1 .. Len(p[i])
    BY <1>1, ElementOfSeq, LenProperties DEF Segments
  <2>2. m[i] = [j \in DOMAIN p[i] |-> m[i][j]]
    BY Zenon DEF Shape
  <2> DEFINE s == m[i]
  <2>3. s = [j \in 1 .. Len(p[i]) |-> s[j]] /\ \A j \in 1 .. Len(p[i]) : s[j] \in Chars
    BY <2>1, <2>2
  <2> HIDE DEF s
  <2>4. s \in [1 .. Len(p[i]) -> Chars]
    BY <2>3
  <2>5. s \in Seq(Chars) /\ Len(s) = Len(p[i])
    BY <2>1, <2>4
  <2>6. QED
    BY <2>1, <2>3, <2>5 DEF s, Segments
<1>3. DOMAIN m = DOMAIN p
  BY Zenon DEF Shape
<1>4. m \in [1 .. Len(p) -> Segments]
  <2>1. m = [i \in DOMAIN p |-> m[i]]
    BY <1>3, Zenon DEF Shape
  <2>2. QED
    BY <1>1, <1>2, <2>1
<1>5. m \in Seq(Segments) /\ Len(m) = Len(p)
  BY <1>1, <1>4
<1>6. QED
  BY <1>2, <1>3, <1>5

\* Paths of one shape are equal if their characters are.
LEMMA ShapeEqual ==
  ASSUME NEW p, NEW m, NEW n, Shape(m, p), Shape(n, p),
         \A i \in DOMAIN p : \A j \in DOMAIN p[i] : m[i][j] = n[i][j]
  PROVE  m = n
BY Zenon DEF Shape

\* The url crate encodes characters, and keeps their octets.
LEMMA UrlChars ==
  ASSUME NEW ch \in Chars
  PROVE  /\ UrlChar(ch) \in Chars /\ UrlChar(ch)[2] = ch[2]
         /\ UrlChar(UrlChar(ch)) = UrlChar(ch)
BY DEF UrlChar, Enc, Chars, Octets, Bad

\* So does the normal spelling, of what is well-formed; the two orders agree.
LEMMA NormalChars ==
  ASSUME NEW ch \in Chars, ch # Bad
  PROVE  /\ NormalChar(ch) \in Chars /\ NormalChar(ch)[2] = ch[2]
         /\ UrlChar(NormalChar(ch)) = NormalChar(UrlChar(ch))
         /\ UrlChar(NormalChar(UrlChar(ch))) = NormalChar(UrlChar(ch))
<1>1. ch[1] \in {"raw", "enc", "low"} /\ ch[2] \in Octets /\ ch = <<ch[1], ch[2]>>
  BY DEF Chars
<1>2. NormalChar(ch) \in Chars /\ NormalChar(ch)[2] = ch[2]
  BY <1>1 DEF NormalChar, Raw, Enc, Chars
<1>3. UrlChar(NormalChar(ch)) = NormalChar(UrlChar(ch))
  BY <1>1 DEF NormalChar, UrlChar, Raw, Enc, Unreserved
<1>4. UrlChar(NormalChar(UrlChar(ch))) = NormalChar(UrlChar(ch))
  BY <1>1 DEF NormalChar, UrlChar, Raw, Enc, Unreserved
<1>5. QED
  BY <1>2, <1>3, <1>4

LEMMA UrlMap ==
  ASSUME NEW p \in Seq(Segments)
  PROVE  LET m == UrlSpelling(p)
         IN  /\ Shape(m, p) /\ m \in Seq(Segments) /\ Len(m) = Len(p) /\ DOMAIN m = DOMAIN p
             /\ \A i \in DOMAIN p : /\ m[i] \in Segments
                                    /\ Len(m[i]) = Len(p[i]) /\ DOMAIN m[i] = DOMAIN p[i]
                                    /\ \A j \in DOMAIN p[i] : m[i][j] = UrlChar(p[i][j])
<1> DEFINE m == UrlSpelling(p)
<1>1. m = [i \in DOMAIN p |-> [j \in DOMAIN p[i] |-> UrlChar(p[i][j])]]
  BY Zenon DEF UrlSpelling, MapPath
<1> HIDE DEF m
<1>2. \A i \in DOMAIN p : \A j \in DOMAIN p[i] : m[i][j] = UrlChar(p[i][j])
  BY <1>1, Zenon
<1>3. Shape(m, p)
  BY <1>1, <1>2, Zenon DEF Shape
<1>4. \A i \in DOMAIN p : \A j \in DOMAIN p[i] : m[i][j] \in Chars
  <2>1. \A i \in DOMAIN p : \A j \in DOMAIN p[i] : p[i][j] \in Chars
    BY DEF Segments
  <2>2. QED
    BY <1>2, <2>1, UrlChars
<1>5. QED
  BY <1>2, <1>3, <1>4, ShapeFacts DEF m

LEMMA NormalMap ==
  ASSUME NEW p \in Seq(Segments),
         \A i \in DOMAIN p : \A j \in DOMAIN p[i] : p[i][j] # Bad
  PROVE  LET m == NormalSpelling(p)
         IN  /\ Shape(m, p) /\ m \in Seq(Segments) /\ Len(m) = Len(p) /\ DOMAIN m = DOMAIN p
             /\ \A i \in DOMAIN p : /\ m[i] \in Segments
                                    /\ Len(m[i]) = Len(p[i]) /\ DOMAIN m[i] = DOMAIN p[i]
                                    /\ \A j \in DOMAIN p[i] : m[i][j] = NormalChar(p[i][j])
<1> DEFINE m == NormalSpelling(p)
<1>1. m = [i \in DOMAIN p |-> [j \in DOMAIN p[i] |-> NormalChar(p[i][j])]]
  BY Zenon DEF NormalSpelling, MapPath
<1> HIDE DEF m
<1>2. \A i \in DOMAIN p : \A j \in DOMAIN p[i] : m[i][j] = NormalChar(p[i][j])
  BY <1>1, Zenon
<1>3. Shape(m, p)
  BY <1>1, <1>2, Zenon DEF Shape
<1>4. \A i \in DOMAIN p : \A j \in DOMAIN p[i] : m[i][j] \in Chars
  <2>1. \A i \in DOMAIN p : \A j \in DOMAIN p[i] : p[i][j] \in Chars
    BY DEF Segments
  <2>2. QED
    BY <1>2, <2>1, NormalChars
<1>5. QED
  BY <1>2, <1>3, <1>4, ShapeFacts DEF m

-------------------------------------------------------------------------------
(* Rewritten links.                                                        *)

\* Url::path of a path without dot segments only encodes.
LEMMA UrlPathWithoutDots ==
  ASSUME NEW p \in Seq(Segments), NoDots(p)
  PROVE  UrlPath(p) = UrlSpelling(p)
<1>1. Resolved(p)[Len(p)] = p
  BY ResolvedWithoutDots
<1>2. UrlPath(p) = UrlSpelling(Resolved(p)[Len(p)])
  BY Zenon DEF UrlPath, UrlSpelling
<1>3. QED
  BY <1>1, <1>2

\* Url::path is a path, and what it encodes is encoded.
LEMMA UrlPathType ==
  ASSUME NEW p \in Seq(Segments)
  PROVE  \E r \in Seq(Segments) : UrlPath(p) = UrlSpelling(r)
<1>1. Resolved(p)[Len(p)] \in Seq(Segments)
  BY ResolvedType, LenProperties
<1>2. UrlPath(p) = UrlSpelling(Resolved(p)[Len(p)])
  BY Zenon DEF UrlPath, UrlSpelling
<1>3. QED
  BY <1>1, <1>2

\* canonical_path refuses dot segments, however they are spelled.
LEMMA CanonicalHasNoDots ==
  ASSUME NEW p \in Seq(Segments), canonical_path(p)
  PROVE  NoDots(p)
<1> SUFFICES ASSUME NEW i \in DOMAIN p PROVE ~IsDot(p[i]) /\ ~IsDotDot(p[i])
  BY DEF NoDots
<1> DEFINE s == p[i]
<1>1. s \in Seq(Chars) /\ Len(s) \in Nat /\ DOMAIN s = 1 .. Len(s)
  BY LenProperties DEF Segments
<1>2. canonical_segment(s) \/ s = <<>>
  BY DEF canonical_path
<1> HIDE DEF s
<1>3. CASE s = <<>>
  BY <1>3 DEF IsDot, IsDotDot, s
<1>4. CASE canonical_segment(s)
  <2>1. ASSUME NEW j \in 1 .. Len(s), s[j][2] = "." PROVE s[j] = Raw(".")
    <3>1. s[j] \in Chars
      BY <1>1, ElementOfSeq
    <3>2. s[j] = <<s[j][1], s[j][2]>>
      BY <3>1, CharForms
    <3>3. s[j][1] = "raw"
      BY <1>1, <1>4, <2>1 DEF canonical_segment, Unreserved
    <3>4. QED
      BY <2>1, <3>2, <3>3 DEF Raw
  <2>2. ASSUME IsDot(s) PROVE FALSE
    <3>1. Len(s) = 1 /\ s[1] = Raw(".")
      BY <2>1, <2>2 DEF IsDot
    <3>2. s = <<Raw(".")>>
      BY <1>1, <3>1
    <3>3. QED
      BY <1>4, <3>2 DEF canonical_segment, Dots
  <2>3. ASSUME IsDotDot(s) PROVE FALSE
    <3>1. Len(s) = 2 /\ s[1] = Raw(".") /\ s[2] = Raw(".")
      BY <2>1, <2>3 DEF IsDotDot
    <3>2. s = <<Raw("."), Raw(".")>>
      BY <1>1, <3>1
    <3>3. QED
      BY <1>4, <3>2 DEF canonical_segment, Dots
  <2>4. QED
    BY <2>2, <2>3 DEF s
<1>5. QED
  BY <1>2, <1>3, <1>4

\* Encoding keeps a canonical path canonical.
LEMMA EncodedIsCanonical ==
  ASSUME NEW p \in Seq(Segments), canonical_path(p)
  PROVE  canonical_path(UrlSpelling(p))
<1> DEFINE m == UrlSpelling(p)
<1>1. /\ m \in Seq(Segments) /\ Len(m) = Len(p) /\ DOMAIN m = DOMAIN p
      /\ \A i \in DOMAIN p : /\ m[i] \in Segments
                             /\ Len(m[i]) = Len(p[i]) /\ DOMAIN m[i] = DOMAIN p[i]
                             /\ \A j \in DOMAIN p[i] : m[i][j] = UrlChar(p[i][j])
  BY UrlMap
<1> HIDE DEF m
<1>2. ASSUME NEW i \in DOMAIN p, canonical_segment(p[i]) PROVE canonical_segment(m[i])
  <2>0. p[i] # <<>>
    BY <1>2, Zenon DEF canonical_segment
  <2>1. p[i] \in Seq(Chars) /\ m[i] \in Seq(Chars)
    <3>1. p[i] \in Segments /\ m[i] \in Segments
      BY <1>1
    <3>2. QED
      BY <3>1 DEF Segments
  <2>2. m[i] # <<>>
    BY <1>1, <2>0, <2>1
  <2>3. ASSUME NEW j \in DOMAIN m[i]
        PROVE  \/ m[i][j][1] = "raw" /\ m[i][j][2] \notin {"?", "\\", "/", " "}
               \/ m[i][j][1] = "enc" /\ m[i][j][2] \notin Unreserved \cup {"?", "\\", "/"}
    <3> DEFINE ch == p[i][j]
    <3>1. \/ ch[1] = "raw" /\ ch[2] \notin {"?", "\\", "/", " "}
          \/ ch[1] = "enc" /\ ch[2] \notin Unreserved \cup {"?", "\\", "/"}
      BY <1>1, <1>2, <2>3 DEF canonical_segment
    <3>2. m[i][j] = UrlChar(ch)
      BY <1>1, <2>3
    <3> HIDE DEF ch
    <3>3. CASE ch[1] = "raw" /\ ch[2] \in {"q", " "}
      <4>1. m[i][j] = <<"enc", ch[2]>>
        BY <3>2, <3>3 DEF UrlChar, Enc
      <4>2. ch[2] = "q"
        BY <3>1, <3>3
      <4>3. QED
        BY <4>1, <4>2 DEF Unreserved
    <3>4. CASE ~(ch[1] = "raw" /\ ch[2] \in {"q", " "})
      BY <3>1, <3>2, <3>4 DEF UrlChar
    <3>5. QED
      BY <3>3, <3>4
  <2>4. m[i] \notin Dots
    <3>1. ~IsDot(p[i]) /\ ~IsDotDot(p[i])
      BY CanonicalHasNoDots DEF NoDots
    <3>2. \A j \in DOMAIN p[i] : p[i][j] \in Chars /\ m[i][j][2] = p[i][j][2]
      BY <1>1, <2>1, UrlChars
    <3>3. DOMAIN p[i] = 1 .. Len(p[i]) /\ Len(m[i]) = Len(p[i])
      BY <1>1, <2>1
    <3>4. ASSUME m[i] = <<Raw(".")>> PROVE FALSE
      <4>0. Len(m[i]) = 1 /\ m[i][1] = Raw(".")
        BY <3>4
      <4>1. Len(p[i]) = 1 /\ m[i][1] = Raw(".") /\ 1 \in DOMAIN p[i]
        BY <3>3, <4>0
      <4>2. p[i][1][2] = "."
        BY <3>2, <4>1 DEF Raw
      <4>3. QED
        BY <3>1, <4>1, <4>2 DEF IsDot
    <3>5. ASSUME m[i] = <<Raw("."), Raw(".")>> PROVE FALSE
      <4>0. Len(m[i]) = 2 /\ m[i][1] = Raw(".") /\ m[i][2] = Raw(".")
        BY <3>5
      <4>1. Len(p[i]) = 2 /\ 1 \in DOMAIN p[i] /\ 2 \in DOMAIN p[i]
        BY <3>3, <4>0
      <4>2. p[i][1][2] = "." /\ p[i][2][2] = "."
        BY <3>2, <4>0, <4>1 DEF Raw
      <4>3. QED
        BY <3>1, <4>1, <4>2 DEF IsDotDot
    <3>6. QED
      BY <3>4, <3>5 DEF Dots
  <2>5. QED
    BY <2>2, <2>3, <2>4 DEF canonical_segment
<1>3. ASSUME NEW i \in DOMAIN p, p[i] = <<>> PROVE m[i] = <<>>
  BY <1>1, <1>3 DEF Segments
<1>4. canonical_path(m)
  BY <1>1, <1>2, <1>3 DEF canonical_path
<1>5. QED
  BY <1>4 DEF m

\* canonical_rewrite_path answers with the normal spelling of a well-formed path.
LEMMA RewriteFacts ==
  ASSUME NEW p, canonical_rewrite_path(p) # None
  PROVE  /\ canonical_rewrite_path(p) = NormalSpelling(p)
         /\ canonical_path(NormalSpelling(p))
         /\ \A i \in DOMAIN p : \A j \in DOMAIN p[i] : p[i][j] # Bad
<1> DEFINE formed == \A i \in DOMAIN p : \A j \in DOMAIN p[i] : p[i][j] # Bad
<1>1. canonical_rewrite_path(p)
        = IF formed /\ canonical_path(NormalSpelling(p)) THEN NormalSpelling(p) ELSE None
  BY Zenon DEF canonical_rewrite_path, AllChars, NormalSpelling, MapPath, NormalChar
<1>2. QED
  BY <1>1

\* Encoding what is encoded changes nothing.
LEMMA UrlSpellingTwice ==
  ASSUME NEW p \in Seq(Segments)
  PROVE  UrlSpelling(UrlSpelling(p)) = UrlSpelling(p)
<1> DEFINE m == UrlSpelling(p)
           n == UrlSpelling(m)
<1>1. /\ m \in Seq(Segments) /\ DOMAIN m = DOMAIN p
      /\ \A i \in DOMAIN p : /\ DOMAIN m[i] = DOMAIN p[i]
                             /\ \A j \in DOMAIN p[i] : m[i][j] = UrlChar(p[i][j])
  BY UrlMap
<1> HIDE DEF m
<1>2. /\ Shape(n, m)
      /\ \A i \in DOMAIN m : \A j \in DOMAIN m[i] : n[i][j] = UrlChar(m[i][j])
  BY <1>1, UrlMap
<1> HIDE DEF n
<1>3. Shape(m, m)
  <2>1. m = [i \in DOMAIN m |-> m[i]]
    BY <1>1
  <2>2. ASSUME NEW i \in DOMAIN m PROVE m[i] = [j \in DOMAIN m[i] |-> m[i][j]]
    BY <1>1 DEF Segments
  <2>3. QED
    BY <2>1, <2>2, Zenon DEF Shape
<1>4. ASSUME NEW i \in DOMAIN m, NEW j \in DOMAIN m[i] PROVE n[i][j] = m[i][j]
  <2>1. p[i][j] \in Chars
    BY <1>1 DEF Segments
  <2>2. n[i][j] = UrlChar(UrlChar(p[i][j])) /\ m[i][j] = UrlChar(p[i][j])
    BY <1>1, <1>2
  <2>3. QED
    BY <2>1, <2>2, UrlChars
<1>5. n = m
  BY <1>2, <1>3, <1>4, ShapeEqual
<1>6. QED
  BY <1>5 DEF m, n

\* The two spellings may be taken in either order.
LEMMA SpellingsCommute ==
  ASSUME NEW p \in Seq(Segments),
         \A i \in DOMAIN p : \A j \in DOMAIN p[i] : p[i][j] # Bad
  PROVE  /\ UrlSpelling(NormalSpelling(p)) = NormalSpelling(UrlSpelling(p))
         /\ \A i \in DOMAIN p : \A j \in DOMAIN p[i] : UrlSpelling(p)[i][j] # Bad
<1> DEFINE n == NormalSpelling(p)
           un == UrlSpelling(n)
           u == UrlSpelling(p)
           nu == NormalSpelling(u)
<1>1. /\ n \in Seq(Segments) /\ DOMAIN n = DOMAIN p
      /\ \A i \in DOMAIN p : /\ DOMAIN n[i] = DOMAIN p[i]
                             /\ \A j \in DOMAIN p[i] : n[i][j] = NormalChar(p[i][j])
  BY NormalMap
<1>2. /\ u \in Seq(Segments) /\ DOMAIN u = DOMAIN p
      /\ \A i \in DOMAIN p : /\ DOMAIN u[i] = DOMAIN p[i]
                             /\ \A j \in DOMAIN p[i] : u[i][j] = UrlChar(p[i][j])
  BY UrlMap
<1> HIDE DEF n, u
<1>3. \A i \in DOMAIN p : \A j \in DOMAIN p[i] : p[i][j] \in Chars
  BY DEF Segments
<1>4. \A i \in DOMAIN p : \A j \in DOMAIN p[i] : u[i][j] # Bad
  <2>1. \A ch : UrlChar(ch) = Bad => ch = Bad
    BY DEF UrlChar, Enc, Bad
  <2>2. QED
    BY <1>2, <2>1
<1>5. /\ Shape(un, n)
      /\ \A i \in DOMAIN n : \A j \in DOMAIN n[i] : un[i][j] = UrlChar(n[i][j])
  BY <1>1, UrlMap
<1>6. /\ Shape(nu, u)
      /\ \A i \in DOMAIN u : \A j \in DOMAIN u[i] : nu[i][j] = NormalChar(u[i][j])
  <2>1. \A i \in DOMAIN u : \A j \in DOMAIN u[i] : u[i][j] # Bad
    BY <1>2, <1>4
  <2>2. QED
    BY <1>2, <2>1, NormalMap
<1> HIDE DEF un, nu
<1>7. Shape(un, p) /\ Shape(nu, p)
  BY <1>1, <1>2, <1>5, <1>6, Zenon DEF Shape
<1>8. ASSUME NEW i \in DOMAIN p, NEW j \in DOMAIN p[i] PROVE un[i][j] = nu[i][j]
  <2>1. un[i][j] = UrlChar(NormalChar(p[i][j])) /\ nu[i][j] = NormalChar(UrlChar(p[i][j]))
    BY <1>1, <1>2, <1>5, <1>6
  <2>2. QED
    BY <1>3, <2>1, NormalChars
<1>9. un = nu
  BY <1>7, <1>8, ShapeEqual
<1>10. QED
  BY <1>4, <1>9 DEF n, u, un, nu

\* A rewritten path, as a client's URL has it, is the upstream resource's name,
\* whether the link was resolved before it was rewritten or not.
LEMMA RewrittenIsResource ==
  ASSUME NEW p \in Seq(Segments), NEW from \in {p, UrlPath(p)},
         canonical_rewrite_path(from) # None
  PROVE  LET out == canonical_rewrite_path(from)
         IN  /\ from \in Seq(Segments) /\ out \in Seq(Segments)
             /\ out = NormalSpelling(from) /\ canonical_path(out)
             /\ UrlSpelling(out) = Resource(p)
<1>1. /\ canonical_rewrite_path(from) = NormalSpelling(from)
      /\ canonical_path(NormalSpelling(from))
      /\ \A i \in DOMAIN from : \A j \in DOMAIN from[i] : from[i][j] # Bad
  BY RewriteFacts
<1>2. Resource(p) = NormalSpelling(UrlPath(p))
  BY Zenon DEF Resource, NormalSpelling
<1>3. CASE from = UrlPath(p)
  <2>1. PICK r \in Seq(Segments) : from = UrlSpelling(r)
    BY <1>3, UrlPathType
  <2>2. /\ from \in Seq(Segments) /\ DOMAIN from = DOMAIN r
        /\ \A i \in DOMAIN r : /\ DOMAIN from[i] = DOMAIN r[i]
                               /\ \A j \in DOMAIN r[i] : from[i][j] = UrlChar(r[i][j])
    BY <2>1, UrlMap
  <2>3. \A i \in DOMAIN r : \A j \in DOMAIN r[i] : r[i][j] # Bad
    <3>1. UrlChar(Bad) = Bad
      BY DEF UrlChar, Bad
    <3>2. QED
      BY <1>1, <2>2, <3>1
  <2>4. UrlSpelling(NormalSpelling(r)) = NormalSpelling(from)
    BY <2>1, <2>3, SpellingsCommute
  <2>5. NormalSpelling(r) \in Seq(Segments)
    BY <2>3, NormalMap
  <2>6. UrlSpelling(NormalSpelling(from)) = NormalSpelling(from)
    BY <2>4, <2>5, UrlSpellingTwice
  <2>7. NormalSpelling(from) \in Seq(Segments)
    BY <1>1, <2>2, NormalMap
  <2>8. QED
    BY <1>1, <1>2, <1>3, <2>2, <2>6, <2>7
<1>4. CASE from = p
  <2> DEFINE out == NormalSpelling(p)
  <2>1. \A i \in DOMAIN p : \A j \in DOMAIN p[i] : p[i][j] # Bad
    BY <1>1, <1>4
  <2>2. /\ out \in Seq(Segments) /\ DOMAIN out = DOMAIN p
        /\ \A i \in DOMAIN p : /\ Len(out[i]) = Len(p[i]) /\ DOMAIN out[i] = DOMAIN p[i]
                               /\ \A j \in DOMAIN p[i] : out[i][j] = NormalChar(p[i][j])
    BY <2>1, NormalMap
  <2> HIDE DEF out
  <2>3. NoDots(out)
    BY <1>1, <1>4, <2>2, CanonicalHasNoDots DEF out
  <2>4. NoDots(p)
    <3> SUFFICES ASSUME NEW i \in DOMAIN p PROVE ~IsDot(p[i]) /\ ~IsDotDot(p[i])
      BY DEF NoDots
    <3>1. p[i] \in Seq(Chars) /\ DOMAIN p[i] = 1 .. Len(p[i]) /\ Len(p[i]) \in Nat
      BY LenProperties DEF Segments
    <3>2. ASSUME NEW j \in DOMAIN p[i] PROVE out[i][j][2] = p[i][j][2]
      <4>1. p[i][j] \in Chars /\ p[i][j] # Bad
        BY <2>1, <3>1
      <4>2. QED
        BY <2>2, <4>1, NormalChars
    <3>3. Len(out[i]) = Len(p[i]) /\ ~IsDot(out[i]) /\ ~IsDotDot(out[i])
      BY <2>2, <2>3 DEF NoDots
    <3>4. Len(p[i]) = 1 => 1 \in DOMAIN p[i]
      BY <3>1
    <3>5. Len(p[i]) = 2 => 1 \in DOMAIN p[i] /\ 2 \in DOMAIN p[i]
      BY <3>1
    <3>6. QED
      BY <3>2, <3>3, <3>4, <3>5 DEF IsDot, IsDotDot
  <2>5. UrlPath(p) = UrlSpelling(p)
    BY <2>4, UrlPathWithoutDots
  <2>6. UrlSpelling(out) = Resource(p)
    BY <1>2, <2>1, <2>5, SpellingsCommute DEF out
  <2>7. QED
    BY <1>1, <1>4, <2>2, <2>6 DEF out
<1>5. QED
  BY <1>3, <1>4

\* What a client asks for when it follows a rewritten path, and that join_url
\* accepts the name of the resource if it does not read like an absolute URL.
LEMMA FollowedPath ==
  ASSUME NEW out \in Seq(Segments), canonical_path(out)
  PROVE  LET r == UrlSpelling(out)
         IN  /\ UrlPath(out) = r /\ r \in Seq(Segments)
             /\ canonical_path(r) /\ UrlPath(r) = r
             /\ ~HasScheme(r) => join_url(r) = r
<1> DEFINE r == UrlSpelling(out)
<1>1. UrlPath(out) = r
  BY CanonicalHasNoDots, UrlPathWithoutDots
<1>2. r \in Seq(Segments) /\ canonical_path(r)
  BY UrlMap, EncodedIsCanonical
<1>3. UrlSpelling(r) = r
  BY UrlSpellingTwice
<1> HIDE DEF r
<1>4. UrlPath(r) = r
  BY <1>2, <1>3, CanonicalHasNoDots, UrlPathWithoutDots
<1>5. ASSUME NEW i \in DOMAIN r, NEW j \in DOMAIN r[i] PROVE r[i][j] # Raw("?")
  <2>1. r[i] # <<>>
    BY <1>2, <1>5 DEF Segments
  <2>2. canonical_segment(r[i])
    BY <1>2, <2>1 DEF canonical_path
  <2>3. r[i][j][1] # "raw" \/ r[i][j][2] # "?"
    BY <2>2 DEF canonical_segment
  <2>4. QED
    BY <2>3 DEF Raw
<1>6. ASSUME ~HasScheme(r) PROVE join_url(r) = r
  <2>1. AllChars(r, LAMBDA ch : ch # Raw("?"))
    BY <1>5, Zenon DEF AllChars
  <2>2. build_url(r) = r
    BY <1>4, <1>6, <2>1, Zenon DEF build_url
  <2>3. QED
    BY <1>2, <2>2 DEF join_url
<1>7. QED
  BY <1>1, <1>2, <1>4, <1>6 DEF r

\* Following a path below its first segment.
LEMMA FollowedTail ==
  ASSUME NEW out \in Seq(Segments), canonical_path(out), Len(out) > 1
  PROVE  UrlPath(Tail(out)) = Tail(UrlSpelling(out))
<1> DEFINE t == Tail(out)
           r == UrlSpelling(out)
<1>1. NoDots(out)
  BY CanonicalHasNoDots
<1>2. /\ t \in Seq(Segments) /\ Len(t) = Len(out) - 1
      /\ \A i \in 1 .. Len(t) : t[i] = out[i + 1]
  BY HeadTailProperties, LenProperties
<1>3. Len(out) \in Nat /\ DOMAIN out = 1 .. Len(out) /\ DOMAIN t = 1 .. Len(t)
  BY <1>2, LenProperties
<1>4. \A i \in 1 .. Len(t) : i + 1 \in 1 .. Len(out)
  BY <1>2, <1>3
<1> HIDE DEF t
<1>5. NoDots(t)
  BY <1>1, <1>2, <1>3, <1>4 DEF NoDots
<1>6. UrlPath(t) = UrlSpelling(t)
  BY <1>2, <1>5, UrlPathWithoutDots
<1>7. r \in Seq(Segments) /\ Len(r) = Len(out)
  BY UrlMap
<1>8. \A i \in DOMAIN out : r[i] = [j \in DOMAIN out[i] |-> UrlChar(out[i][j])]
  BY Zenon DEF UrlSpelling, MapPath
<1>9. \A i \in DOMAIN t : UrlSpelling(t)[i] = [j \in DOMAIN t[i] |-> UrlChar(t[i][j])]
  BY Zenon DEF UrlSpelling, MapPath
<1> HIDE DEF r
<1>10. UrlSpelling(t) \in Seq(Segments) /\ Len(UrlSpelling(t)) = Len(t)
  BY <1>2, UrlMap
<1>11. /\ Tail(r) \in Seq(Segments) /\ Len(Tail(r)) = Len(t)
       /\ \A i \in 1 .. Len(t) : Tail(r)[i] = r[i + 1]
  <2>1. r # <<>>
    BY <1>3, <1>7
  <2>2. QED
    BY <1>2, <1>3, <1>7, <2>1, HeadTailProperties
<1>12. ASSUME NEW i \in 1 .. Len(t) PROVE UrlSpelling(t)[i] = Tail(r)[i]
  <2>1. Tail(r)[i] = r[i + 1] /\ t[i] = out[i + 1] /\ i + 1 \in DOMAIN out /\ i \in DOMAIN t
    BY <1>2, <1>3, <1>4, <1>11
  <2>2. QED
    BY <1>8, <1>9, <2>1, Zenon
<1>13. UrlSpelling(t) = Tail(r)
  BY <1>10, <1>11, <1>12, SeqEqual
<1>14. QED
  BY <1>6, <1>13 DEF t, r

\* A followed link of a file reaches the resource.
LEMMA FileLinkResolves ==
  ASSUME NEW link \in Links, NEW prefix \in {"pypi/files", "npm/tarballs"}, NEW origin_,
         link.abs, link.host = (IF prefix = "pypi/files" THEN "pypi_files" ELSE "npm"),
         canonical_rewrite_path(UrlPath(link.path)) # None,
         ~HasScheme(Resource(link.path))
  PROVE  Resolves(link, Here(origin_, prefix, canonical_rewrite_path(UrlPath(link.path))))
<1> DEFINE out == canonical_rewrite_path(UrlPath(link.path))
           r == Resource(link.path)
           served == Here(origin_, prefix, out)
           q == Following(served)
<1>1. link.path \in Seq(Segments)
  BY DEF Links
<1>2. out \in Seq(Segments) /\ canonical_path(out) /\ UrlSpelling(out) = r
  BY <1>1, RewrittenIsResource
<1> HIDE DEF out, r
<1>3. UrlPath(out) = r /\ r \in Seq(Segments) /\ canonical_path(r) /\ join_url(r) = r
  BY <1>2, FollowedPath DEF r
<1>4. q.prefix = prefix /\ q.path = r /\ q.query = FALSE
  BY <1>3 DEF Following, Here
<1>5. r # <<<<>>>>
  <2> SUFFICES ASSUME r = <<<<>>>> PROVE FALSE
    OBVIOUS
  <2>1. r[1] = <<>> /\ 1 \in DOMAIN r
    OBVIOUS
  <2>2. ~canonical_segment(<<>>)
    BY Zenon DEF canonical_segment
  <2>3. canonical_segment(r[1]) \/ 1 > 1
    BY <1>3, <2>1, Zenon DEF canonical_path
  <2>4. QED
    BY <2>1, <2>2, <2>3
<1> HIDE DEF q, served
<1>6. UpstreamPath(q) = r
  <2>1. raw_path_tail(q) = join_url(r)
    BY <1>4, <1>5 DEF raw_path_tail
  <2>2. UpstreamPath(q) = raw_path_tail(q)
    BY <1>4 DEF UpstreamPath, pypi_file, npm_tarball
  <2>3. QED
    BY <1>3, <2>1, <2>2
<1>7. r # None
  BY <1>3, ConstantsAssumption
<1>8. HostOf(q) = link.host
  BY <1>4 DEF HostOf
<1>9. Resource(r) = r
  BY <1>3, <1>7, JoinedIsResource DEF IsResource
<1>10. QED
  BY <1>6, <1>7, <1>8, <1>9 DEF Resolves, Found, q, served, out, r

\* Sequences with the same domain are as long as each other.
LEMMA SameLength ==
  ASSUME NEW m \in Nat, NEW n \in Nat, 1 .. m = 1 .. n
  PROVE  m = n
<1>1. CASE m < n
  <2>1. n \in 1 .. n /\ n \notin 1 .. m
    BY <1>1
  <2>2. QED
    BY <2>1
<1>2. CASE n < m
  <2>1. m \in 1 .. m /\ m \notin 1 .. n
    BY <1>2
  <2>2. QED
    BY <2>1
<1>3. QED
  BY <1>1, <1>2

\* A sequence with no index is empty, one with the index 1 alone has one element.
LEMMA SmallSequences ==
  ASSUME NEW S, NEW s \in Seq(S)
  PROVE  /\ DOMAIN s = {} => s = <<>>
         /\ DOMAIN s = {1} => Len(s) = 1
<1>1. Len(s) \in Nat /\ DOMAIN s = 1 .. Len(s)
  BY LenProperties
<1>2. ASSUME DOMAIN s = {} PROVE s = <<>>
  <2>1. Len(s) = 0
    <3>1. CASE Len(s) >= 1
      <4>1. 1 \in 1 .. Len(s)
        BY <1>1, <3>1
      <4>2. QED
        BY <1>1, <1>2, <4>1
    <3>2. QED
      BY <1>1, <3>1
  <2>2. QED
    BY <2>1, EmptySeq
<1>3. ASSUME DOMAIN s = {1} PROVE Len(s) = 1
  <2>1. 1 .. Len(s) = 1 .. 1
    <3>1. 1 .. 1 = {1}
      OBVIOUS
    <3>2. QED
      BY <1>1, <1>3, <3>1, Zenon
  <2>2. QED
    BY <1>1, <2>1, SameLength
<1>4. QED
  BY <1>2, <1>3

\* What is left of two or three elements.
LEMMA TailElements ==
  ASSUME NEW S, NEW s \in Seq(S), NEW n \in Nat \ {0}, Len(s) = n
  PROVE  Tail(s) \in Seq(S) /\ Len(Tail(s)) = n - 1 /\ \A i \in 1 .. n - 1 : Tail(s)[i] = s[i + 1]
<1>1. s # <<>>
  <2>1. Len(<<>>) = 0 /\ n # 0
    OBVIOUS
  <2>2. QED
    BY <2>1, Zenon
<1>2. QED
  BY <1>1, HeadTailProperties

LEMMA TailOfTwo ==
  ASSUME NEW S, NEW s \in Seq(S), Len(s) = 2
  PROVE  Tail(s) = <<s[2]>>
<1> DEFINE t == Tail(s)
<1>1. t \in Seq(S) /\ Len(t) = 2 - 1 /\ \A i \in 1 .. 2 - 1 : t[i] = s[i + 1]
  <2>1. 2 \in Nat \ {0}
    OBVIOUS
  <2>2. QED
    BY <2>1, TailElements, Zenon
<1> HIDE DEF t
<1>2. t[1] = s[2]
  BY <1>1
<1>3. t = <<t[1]>>
  BY <1>1
<1>4. QED
  BY <1>2, <1>3 DEF t

LEMMA TailOfThree ==
  ASSUME NEW S, NEW s \in Seq(S), Len(s) = 3
  PROVE  Tail(s) = <<s[2], s[3]>>
<1> DEFINE t == Tail(s)
<1>1. t \in Seq(S) /\ Len(t) = 3 - 1 /\ \A i \in 1 .. 3 - 1 : t[i] = s[i + 1]
  <2>1. 3 \in Nat \ {0}
    OBVIOUS
  <2>2. QED
    BY <2>1, TailElements, Zenon
<1> HIDE DEF t
<1>2. t[1] = s[2] /\ t[2] = s[3]
  BY <1>1
<1>3. t = <<t[1], t[2]>>
  BY <1>1
<1>4. QED
  BY <1>2, <1>3 DEF t

\* A followed link of a project page reaches the page.
LEMMA PageLinkResolves ==
  ASSUME NEW link \in Links, NEW from \in {link.path, UrlPath(link.path)}, NEW origin_,
         link.abs => link.host = "pypi_simple", BelowSimple(from),
         canonical_rewrite_path(from) # None,
         Len(UrlPath(link.path)) <= 3, Last(UrlPath(link.path)) = <<>>
  PROVE  Resolves(link, Here(origin_, "pypi/simple", Tail(canonical_rewrite_path(from))))
<1> DEFINE out == canonical_rewrite_path(from)
           r == Resource(link.path)
           u == UrlPath(link.path)
           served == Here(origin_, "pypi/simple", Tail(out))
           q == Following(served)
<1>1. link.path \in Seq(Segments)
  BY DEF Links
<1>2. /\ from \in Seq(Segments) /\ out \in Seq(Segments)
      /\ out = NormalSpelling(from) /\ canonical_path(out) /\ UrlSpelling(out) = r
  BY <1>1, RewrittenIsResource
<1>3. r = NormalSpelling(u)
  BY Zenon DEF Resource, NormalSpelling
<1>4. u \in Seq(Segments)
  BY <1>1, UrlPathType, UrlMap
<1>5. /\ DOMAIN r = DOMAIN u
      /\ \A i \in DOMAIN u : r[i] = [j \in DOMAIN u[i] |-> NormalChar(u[i][j])]
  BY <1>3, Zenon DEF NormalSpelling, MapPath
<1>6. /\ DOMAIN out = DOMAIN from
      /\ \A i \in DOMAIN from : out[i] = [j \in DOMAIN from[i] |-> NormalChar(from[i][j])]
  BY <1>2, Zenon DEF NormalSpelling, MapPath
<1>7. /\ r \in Seq(Segments) /\ Len(r) = Len(out) /\ DOMAIN r = DOMAIN out
      /\ \A i \in DOMAIN out : /\ r[i] \in Segments /\ DOMAIN r[i] = DOMAIN out[i]
                               /\ \A j \in DOMAIN out[i] : r[i][j] = UrlChar(out[i][j])
  BY <1>2, UrlMap
<1> HIDE DEF out, r, u
<1>8. Len(out) > 1 /\ Len(r) \in {2, 3} /\ Len(u) = Len(r)
  <2>1. /\ Len(r) \in Nat /\ DOMAIN r = 1 .. Len(r) /\ Len(out) = Len(r)
        /\ Len(u) \in Nat /\ DOMAIN u = 1 .. Len(u)
        /\ Len(from) \in Nat /\ DOMAIN from = 1 .. Len(from)
    BY <1>2, <1>4, <1>7, LenProperties
  <2>2. Len(u) = Len(r)
    <3>1. DOMAIN r = DOMAIN u
      BY <1>5
    <3>2. 1 .. Len(u) = 1 .. Len(r)
      BY <2>1, <3>1, Zenon
    <3>3. QED
      BY <2>1, <3>2, SameLength
  <2>3. Len(from) = Len(r)
    <3>1. DOMAIN r = DOMAIN from
      BY <1>6, <1>7
    <3>2. 1 .. Len(from) = 1 .. Len(r)
      BY <2>1, <3>1, Zenon
    <3>3. QED
      BY <2>1, <3>2, SameLength
  <2>4. Len(from) > 1 /\ Len(u) <= 3
    BY DEF BelowSimple, u
  <2>5. QED
    BY <2>1, <2>2, <2>3, <2>4
<1>9. r[1] = Word
  <2>1. from[1] = Word /\ DOMAIN Word = {1} /\ Word[1] = Raw("a")
    BY DEF BelowSimple, Word
  <2>2. 1 \in DOMAIN from
    BY <1>2, <1>6, <1>7, <1>8
  <2>3. DOMAIN out[1] = {1} /\ out[1][1] = NormalChar(Raw("a"))
    BY <1>6, <2>1, <2>2
  <2>4. NormalChar(Raw("a")) = Raw("a") /\ UrlChar(Raw("a")) = Raw("a")
    BY DEF NormalChar, UrlChar, Raw
  <2>5. r[1] \in Seq(Chars) /\ DOMAIN r[1] = {1} /\ r[1][1] = Raw("a")
    <3>1. 1 \in DOMAIN out
      BY <1>6, <2>2
    <3>2. /\ r[1] \in Segments /\ DOMAIN r[1] = DOMAIN out[1]
          /\ \A j \in DOMAIN out[1] : r[1][j] = UrlChar(out[1][j])
      BY <1>7, <3>1, Zenon
    <3>3. 1 \in DOMAIN out[1]
      BY <2>3
    <3>4. r[1][1] = UrlChar(out[1][1])
      BY <3>2, <3>3, Zenon
    <3>5. QED
      BY <2>3, <2>4, <3>2, <3>4 DEF Segments
  <2>6. Len(r[1]) = 1
    BY <2>5, SmallSequences
  <2>7. Word \in Seq(Chars) /\ Len(Word) = 1
    BY TemplateWords DEF Segments, Word
  <2>8. QED
    BY <2>1, <2>5, <2>6, <2>7, SeqEqual
<1>10. r[Len(r)] = <<>>
  <2>1. Len(u) \in DOMAIN u
    BY <1>4, <1>8
  <2>2. u[Len(u)] = <<>>
    BY DEF Last, u
  <2>3. r[Len(u)] = [j \in DOMAIN u[Len(u)] |-> NormalChar(u[Len(u)][j])]
    BY <1>5, <2>1, Zenon
  <2>4. r[Len(u)] \in Seq(Chars) /\ DOMAIN r[Len(u)] = {}
    BY <1>5, <1>7, <2>1, <2>2, <2>3 DEF Segments
  <2>5. r[Len(u)] = <<>>
    BY <2>4, SmallSequences
  <2>6. QED
    BY <1>8, <2>5
<1>11. ~HasScheme(r)
  <2>1. Len(r[1]) = 1
    BY <1>9 DEF Word
  <2>2. QED
    BY <2>1 DEF HasScheme
<1>12. canonical_path(r) /\ join_url(r) = r
  BY <1>2, <1>11, FollowedPath
<1>13. q.prefix = "pypi/simple" /\ q.path = Tail(r) /\ q.query = FALSE
  BY <1>2, <1>8, FollowedTail DEF Following, Here
<1> HIDE DEF q, served
<1>14. pypi_simple(q) = r
  <2>1. CASE Len(r) = 2
    <3>1. Tail(r) = <<<<>>>>
      <4>1. r[2] = <<>>
        BY <1>10, <2>1
      <4>2. QED
        BY <1>7, <2>1, <4>1, TailOfTwo
    <3>2. r = <<Word, <<>>>>
      BY <1>7, <1>9, <1>10, <2>1
    <3>3. QED
      BY <1>12, <1>13, <3>1, <3>2 DEF pypi_simple
  <2>2. CASE Len(r) = 3
    <3>1. /\ Len(Tail(r)) = 2 /\ Tail(r)[1] = r[2] /\ Tail(r)[2] = <<>>
          /\ Tail(r) # <<<<>>>>
      <4>1. r[3] = <<>>
        BY <1>10, <2>2
      <4>2. Tail(r) = <<r[2], <<>>>>
        BY <1>7, <2>2, <4>1, TailOfThree
      <4>3. /\ Len(<<r[2], <<>>>>) = 2 /\ Len(<<<<>>>>) = 1
            /\ <<r[2], <<>>>>[1] = r[2] /\ <<r[2], <<>>>>[2] = <<>>
        OBVIOUS
      <4>4. Tail(r) # <<<<>>>>
        <5>1. Len(Tail(r)) = 2
          BY <4>2, <4>3, Zenon
        <5>2. QED
          BY <4>3, <5>1
      <4>5. QED
        BY <4>2, <4>3, <4>4, Zenon
    <3>2. canonical_segment(r[2])
      <4>1. 2 \in DOMAIN r /\ 2 # Len(r)
        BY <1>7, <2>2
      <4>2. QED
        BY <1>12, <4>1 DEF canonical_path
    <3>3. r[2] # <<>>
      BY <3>2, Zenon DEF canonical_segment
    <3>4. r = <<Word, r[2], <<>>>>
      BY <1>7, <1>9, <1>10, <2>2
    <3>5. pypi_simple(q) = pypi_simple_url(r[2])
      BY <1>13, <3>1, <3>3 DEF pypi_simple
    <3>6. pypi_simple_url(r[2]) = join_url(<<Word, r[2], <<>>>>)
      BY <3>2 DEF pypi_simple_url
    <3>7. QED
      BY <1>12, <3>4, <3>5, <3>6
  <2>3. QED
    BY <1>8, <2>1, <2>2
<1>15. r # None
  BY <1>7, ConstantsAssumption
<1>16. UpstreamPath(q) = r /\ HostOf(q) = "pypi_simple"
  BY <1>13, <1>14 DEF UpstreamPath, HostOf
<1>17. Resource(r) = r
  BY <1>7, <1>12, <1>15, JoinedIsResource DEF IsResource
<1>18. QED
  BY <1>15, <1>16, <1>17 DEF Resolves, Found, q, served, out, r

\* rewrite_pypi_href and rewrite_npm_tarball: a link that comes out as one to
\* here carries the present address, and is as good as the original.
LEMMA RewrittenLinks ==
  ASSUME NEW link \in Links, NEW origin_,
         NEW served \in {rewrite_pypi_href(link, origin_), rewrite_npm_tarball(link, origin_),
                         link},
         IsHere(served)
  PROVE  /\ served.origin = origin_
         /\ Followable(link) => Resolves(link, served)
<1>1. served # link
  BY DEF IsHere, Links
<1>2. \A prefix, path : Here(origin_, prefix, path).origin = origin_
  BY DEF Here
<1>3. CASE served = rewrite_npm_tarball(link, origin_)
  <2> DEFINE path == canonical_rewrite_path(UrlPath(link.path))
  <2>1. /\ link.abs /\ link.host = "npm" /\ path # None
        /\ served = Here(origin_, "npm/tarballs", path)
    BY <1>1, <1>3 DEF rewrite_npm_tarball
  <2>2. Followable(link) => ~HasScheme(Resource(link.path))
    BY DEF Followable
  <2> HIDE DEF path
  <2>3. Followable(link) => Resolves(link, served)
    BY <2>1, <2>2, FileLinkResolves DEF path
  <2>4. QED
    BY <1>2, <2>1, <2>3
<1>4. CASE served = rewrite_pypi_href(link, origin_)
  <2> DEFINE from == IF link.abs THEN UrlPath(link.path) ELSE link.path
             path == canonical_rewrite_path(from)
  <2>1. \/ /\ link.abs /\ link.host = "pypi_files" /\ path # None
           /\ served = Here(origin_, "pypi/files", path)
        \/ /\ link.abs => link.host = "pypi_simple"
           /\ BelowSimple(from) /\ path # None
           /\ served = Here(origin_, "pypi/simple", Tail(path))
    BY <1>1, <1>4 DEF rewrite_pypi_href
  <2>2. ASSUME Followable(link), link.abs, link.host = "pypi_files", path # None,
               served = Here(origin_, "pypi/files", path)
        PROVE  Resolves(link, served)
    <3>1. ~HasScheme(Resource(link.path))
      BY <2>2 DEF Followable
    <3>2. from = UrlPath(link.path)
      BY <2>2
    <3>3. canonical_rewrite_path(UrlPath(link.path)) # None
      BY <2>2, <3>2
    <3>4. Resolves(link, Here(origin_, "pypi/files", canonical_rewrite_path(UrlPath(link.path))))
      BY <2>2, <3>1, <3>3, FileLinkResolves
    <3>5. QED
      BY <2>2, <3>2, <3>4
  <2>3. ASSUME Followable(link), link.abs => link.host = "pypi_simple",
               BelowSimple(from), path # None,
               served = Here(origin_, "pypi/simple", Tail(path))
        PROVE  Resolves(link, served)
    <3>1. Len(UrlPath(link.path)) <= 3 /\ Last(UrlPath(link.path)) = <<>>
      <4>1. ~link.abs \/ link.host = "pypi_simple"
        BY <2>3
      <4>2. QED
        BY <2>3, <4>1 DEF Followable
    <3>2. from \in {link.path, UrlPath(link.path)}
      OBVIOUS
    <3> HIDE DEF from
    <3>3. QED
      BY <2>3, <3>1, <3>2, PageLinkResolves
  <2>4. QED
    BY <1>2, <2>1, <2>2, <2>3
<1>5. QED
  BY <1>1, <1>3, <1>4


-------------------------------------------------------------------------------
(* The entries.                                                            *)

KeyOf(e) == IF e.class = "page" THEN <<"metadata", e.upstream, e.rewrite>>
                                ELSE <<"artifact", e.upstream>>

\* An entry is what it was stored as: it has its class, came from the host it is
\* filed under, is filed under the one spelling of its resource, and its links are
\* rewritten for the address its representation names.
Sound(e) ==
    /\ e.class \in {"page", "file"}
    /\ e.upstream = [host |-> e.from, path |-> e.upstream.path]
    /\ IsResource(e.upstream.path)
    /\ e.class = "file" => e.served = None
    /\ IsHere(e.served) =>
          /\ e.rewrite \in {<<"npm", e.served.origin>>, <<"pypi", e.served.origin>>}
          /\ Followable(e.link) => Resolves(e.link, e.served)

\* The cache files sound entries under their keys.
Filed == \A k \in DOMAIN cache : Sound(cache[k]) /\ k = KeyOf(cache[k])

\* An answer is a sound entry for the request.
Answered ==
    answer # None /\ answer.entry # None =>
       /\ Sound(answer.entry)
       /\ answer.entry.class = IF IsPage(answer.q) THEN "page" ELSE "file"
       /\ answer.entry.upstream = Upstream(answer.q)
       /\ answer.entry.class = "page" => answer.entry.rewrite = Rewrite(answer.q)

GitAnswered == git # None => git.sent = GitRequest(git.q)

FrontInv == Filed /\ Answered /\ GitAnswered

\* The address a rewritten page is for.
LEMMA RewriteOrigin ==
  ASSUME NEW q, q.prefix \in {"npm", "pypi/simple"}
  PROVE  Rewrite(q) \in {<<"npm", origin>>, <<"pypi", origin>>}
BY DEF Rewrite

\* What is fetched is sound.
LEMMA FetchedIsSound ==
  ASSUME NEW q \in Requests, Found(q), NEW class, NEW link, NEW served,
         NEW e \in Fetched(q, class, link, served),
         \/ /\ class = "page" /\ link \in PageLinks(q)
            /\ \E place \in NpmPlaces : served = Served(q, place, link)
         \/ class = "file" /\ link = None /\ served = None
  PROVE  /\ Sound(e) /\ e.class = class /\ e.upstream = Upstream(q) /\ e.rewrite = Rewrite(q)
<1>1. q \in [prefix : Routes, path : Seq(Segments) \ {<<>>}, query : BOOLEAN]
  BY ConstantsAssumption
<1>2. PICK hops \in Redirects :
         /\ package_redirect_allowed(HostOf(q), hops)
         /\ e = [upstream |-> Upstream(q), class |-> class, rewrite |-> Rewrite(q), link |-> link,
                 served |-> served, from |-> IF hops = <<>> THEN HostOf(q) ELSE Last(hops).host]
  BY DEF Fetched
<1>3. /\ e.upstream = Upstream(q) /\ e.class = class /\ e.rewrite = Rewrite(q) /\ e.link = link
      /\ e.served = served /\ e.from = IF hops = <<>> THEN HostOf(q) ELSE Last(hops).host
  BY <1>2
<1>4. e.from = HostOf(q)
  <2>1. CASE hops # <<>>
    <3>1. hops \in Seq([host : STRING, plain : BOOLEAN])
      BY ConstantsAssumption
    <3>2. Len(hops) \in DOMAIN hops
      BY <2>1, <3>1, EmptySeq, LenProperties
    <3>3. hops[Len(hops)].host = HostOf(q)
      BY <1>2, <3>2 DEF package_redirect_allowed
    <3>4. QED
      BY <1>3, <2>1, <3>3 DEF Last
  <2>2. QED
    BY <1>3, <2>1
<1>5. e.upstream = [host |-> e.from, path |-> e.upstream.path] /\ IsResource(e.upstream.path)
  <2>1. e.upstream.path = UpstreamPath(q) /\ e.upstream.host = HostOf(q)
    BY <1>3 DEF Upstream
  <2>2. IsResource(UpstreamPath(q))
    BY <1>1, UpstreamIsResource
  <2>3. QED
    BY <1>3, <1>4, <2>1, <2>2 DEF Upstream
<1>6. class \in {"page", "file"} /\ (class = "file" => served = None)
  OBVIOUS
<1>7. ASSUME IsHere(served)
      PROVE  /\ Rewrite(q) \in {<<"npm", served.origin>>, <<"pypi", served.origin>>}
             /\ Followable(link) => Resolves(link, served)
  <2>1. /\ link \in PageLinks(q) /\ \E place \in NpmPlaces : served = Served(q, place, link)
    BY <1>7 DEF IsHere
  <2>2. q.prefix \in {"npm", "pypi/simple"} /\ link \in Links
    BY <1>7, <2>1, ConstantsAssumption DEF PageLinks, Served, IsHere
  <2>3. served \in {rewrite_pypi_href(link, origin), rewrite_npm_tarball(link, origin), link}
    BY <2>1, <2>2 DEF Served, rewrite_npm_json
  <2>4. served.origin = origin /\ (Followable(link) => Resolves(link, served))
    BY <1>7, <2>2, <2>3, RewrittenLinks
  <2>5. QED
    BY <2>2, <2>4, RewriteOrigin
<1>8. QED
  BY <1>3, <1>5, <1>6, <1>7 DEF Sound

\* hash_key and the key an entry is filed under agree.
LEMMA KeysAgree ==
  ASSUME NEW q, NEW e, e.class = IF IsPage(q) THEN "page" ELSE "file",
         e.upstream = Upstream(q), e.class = "page" => e.rewrite = Rewrite(q)
  PROVE  KeyOf(e) = hash_key(q)
BY DEF KeyOf, hash_key, cache_identity

\* An entry that is filed under a request's key answers it.
LEMMA CachedAnswers ==
  ASSUME NEW q, NEW e, Sound(e), hash_key(q) = KeyOf(e)
  PROVE  /\ e.class = IF IsPage(q) THEN "page" ELSE "file"
         /\ e.upstream = Upstream(q) /\ (e.class = "page" => e.rewrite = Rewrite(q))
<1>1. e.class \in {"page", "file"}
  BY DEF Sound
<1>2. \A a, b, c : <<"metadata", a, b>> # <<"artifact", c>>
  OBVIOUS
<1>3. QED
  BY <1>1, <1>2 DEF KeyOf, hash_key, cache_identity

\* Storing a sound entry under its key.
LEMMA PutFiles ==
  ASSUME Filed, NEW k, NEW e, Put(k, e), Sound(e), k = KeyOf(e)
  PROVE  Filed'
<1>1. cache' = [x \in DOMAIN cache \cup {k} |-> IF x = k THEN e ELSE cache[x]]
  BY DEF Put
<1>2. ASSUME NEW x \in DOMAIN cache' PROVE Sound(cache'[x]) /\ x = KeyOf(cache'[x])
  BY <1>1, <1>2 DEF Filed
<1>3. QED
  BY <1>2 DEF Filed

\* A request leaves the cache filed and is answered with what was asked for.
LEMMA RequestKeeps ==
  ASSUME FrontInv, Request
  PROVE  FrontInv'
<1>1. PICK q \in Requests : Refuse(q) \/ GetPage(q) \/ \E head \in BOOLEAN : GetFile(q, head)
  BY DEF Request
<1>2. ASSUME NEW e, Respond(q, e), Filed', Sound(e), e.upstream = Upstream(q),
             e.class = IF IsPage(q) THEN "page" ELSE "file",
             e.class = "page" => e.rewrite = Rewrite(q)
      PROVE  FrontInv'
  <2>1. answer' = [q |-> q, entry |-> e] /\ origin' = origin /\ git' = git
    BY <1>2 DEF Respond
  <2>2. answer'.q = q /\ answer'.entry = e
    BY <2>1
  <2>3. Rewrite(q)' = Rewrite(q)
    BY <2>1 DEF Rewrite
  <2>4. Answered'
    BY <1>2, <2>1, <2>2, <2>3 DEF Answered
  <2>5. QED
    BY <1>2, <2>1, <2>4 DEF FrontInv, GitAnswered
<1>3. CASE Refuse(q)
  <2>1. answer' = [q |-> None, entry |-> None] /\ cache' = cache /\ git' = git
    BY <1>3 DEF Refuse, Respond
  <2>2. answer'.entry = None
    BY <2>1
  <2>3. QED
    BY <2>1, <2>2 DEF FrontInv, Filed, Answered, GitAnswered
<1>4. CASE Cached(q)
  <2> DEFINE e == cache[hash_key(q)]
  <2>1. hash_key(q) \in DOMAIN cache /\ Respond(q, e) /\ cache' = cache
    BY <1>4 DEF Cached
  <2>2. Sound(e) /\ hash_key(q) = KeyOf(e)
    BY <2>1 DEF FrontInv, Filed
  <2>3. Filed'
    BY <2>1 DEF FrontInv, Filed
  <2> HIDE DEF e
  <2>4. QED
    BY <1>2, <2>1, <2>2, <2>3, CachedAnswers
<1>5. ASSUME NEW class, NEW link, NEW served, NEW e \in Fetched(q, class, link, served),
             Found(q), Respond(q, e), Put(hash_key(q), e) \/ UNCHANGED cache,
             \/ /\ class = "page" /\ IsPage(q) /\ link \in PageLinks(q)
                /\ \E place \in NpmPlaces : served = Served(q, place, link)
             \/ class = "file" /\ ~IsPage(q) /\ link = None /\ served = None
      PROVE  FrontInv'
  <2>1. /\ Sound(e) /\ e.class = class /\ e.upstream = Upstream(q) /\ e.rewrite = Rewrite(q)
    BY <1>5, FetchedIsSound
  <2>2. e.class = IF IsPage(q) THEN "page" ELSE "file"
    BY <1>5, <2>1
  <2>3. KeyOf(e) = hash_key(q)
    BY <2>1, <2>2, KeysAgree
  <2>4. Filed'
    <3>1. CASE Put(hash_key(q), e)
      BY <2>1, <2>3, <3>1, PutFiles DEF FrontInv
    <3>2. CASE UNCHANGED cache
      BY <3>2 DEF FrontInv, Filed
    <3>3. QED
      BY <1>5, <3>1, <3>2
  <2>5. QED
    BY <1>2, <1>5, <2>1, <2>2, <2>4
<1>6. CASE GetPage(q) /\ ~Cached(q)
  <2>1. PICK link \in PageLinks(q), place \in NpmPlaces :
          \E e \in Fetched(q, "page", link, Served(q, place, link)) :
            /\ Respond(q, e)
            /\ IF link \in Validated THEN Put(hash_key(q), e) ELSE UNCHANGED cache
    BY <1>6 DEF GetPage
  <2>2. PICK e \in Fetched(q, "page", link, Served(q, place, link)) :
            /\ Respond(q, e)
            /\ IF link \in Validated THEN Put(hash_key(q), e) ELSE UNCHANGED cache
    BY <2>1
  <2>3. Found(q) /\ IsPage(q)
    BY <1>6 DEF GetPage
  <2>4. QED
    BY <1>5, <2>2, <2>3
<1>7. ASSUME NEW head \in BOOLEAN, GetFile(q, head), ~Cached(q) PROVE FrontInv'
  <2>1. PICK e \in Fetched(q, "file", None, None) :
            /\ Respond(q, e)
            /\ IF head THEN UNCHANGED cache ELSE Put(hash_key(q), e)
    BY <1>7 DEF GetFile
  <2>2. Found(q) /\ ~IsPage(q)
    BY <1>7 DEF GetFile
  <2>3. QED
    BY <1>5, <2>1, <2>2
<1>8. QED
  BY <1>1, <1>3, <1>4, <1>6, <1>7

\* Every step keeps the invariant.
LEMMA FrontInvariant == Spec => []FrontInv
<1>1. Init => FrontInv
  BY DEF Init, FrontInv, Filed, Answered, GitAnswered
<1>2. ASSUME FrontInv, [Next]_vars PROVE FrontInv'
  <2>1. CASE Request
    BY <1>2, <2>1, RequestKeeps
  <2>2. CASE GoOn
    BY <1>2, <2>2 DEF GoOn, FrontInv, Filed, Answered, GitAnswered
  <2>3. CASE GitAsk
    <3>1. PICK q \in GitRequests : git' = [q |-> q, sent |-> GitRequest(q)]
      BY <2>3 DEF GitAsk
    <3>2. git'.sent = GitRequest(git'.q)
      BY <3>1
    <3>3. UNCHANGED <<origin, cache, answer>> /\ answer = None
      BY <2>3 DEF GitAsk, Idle
    <3>4. QED
      BY <1>2, <3>2, <3>3 DEF FrontInv, Filed, Answered, GitAnswered
  <2>4. CASE Evict
    <3>1. PICK k \in DOMAIN cache : cache' = [x \in DOMAIN cache \ {k} |-> cache[x]]
      BY <2>4 DEF Evict
    <3>2. Filed'
      BY <1>2, <3>1 DEF FrontInv, Filed
    <3>3. UNCHANGED <<origin, answer, git>> /\ answer = None
      BY <2>4 DEF Evict, Idle
    <3>4. QED
      BY <1>2, <3>2, <3>3 DEF FrontInv, Answered, GitAnswered
  <2>5. CASE Restart
    BY <1>2, <2>5 DEF Restart, Idle, FrontInv, Filed, Answered, GitAnswered
  <2>6. CASE UNCHANGED vars
    <3>1. UNCHANGED <<origin, cache, answer, git>>
      BY <2>6 DEF vars
    <3>2. Rewrite(answer.q)' = Rewrite(answer.q)
      BY <3>1 DEF Rewrite
    <3>3. QED
      BY <1>2, <3>1, <3>2 DEF FrontInv, Filed, Answered, GitAnswered
  <2>7. QED
    BY <1>2, <2>1, <2>2, <2>3, <2>4, <2>5, <2>6 DEF Next
<1>3. QED
  BY <1>1, <1>2, PTL DEF Spec

-------------------------------------------------------------------------------
(* The theorems.                                                           *)

\* docs/specs/requirements.md:89: join_url, pypi_simple_url, cargo_download_url and
\* npm_packument_url accept a resource under one spelling only, so however clients
\* spell their paths the cache never holds one resource of a class and
\* representation twice.
THEOREM ResourcesAreHeldOnce == Spec => []NoAliases
<1>1. FrontInv => NoAliases
  <2> SUFFICES ASSUME Filed, NEW j \in DOMAIN cache, NEW k \in DOMAIN cache,
                      cache[j].class = cache[k].class,
                      cache[j].upstream.host = cache[k].upstream.host,
                      Resource(cache[j].upstream.path) = Resource(cache[k].upstream.path),
                      cache[j].rewrite = cache[k].rewrite
               PROVE  j = k
    BY DEF FrontInv, NoAliases
  <2>1. /\ Sound(cache[j]) /\ j = KeyOf(cache[j])
        /\ Sound(cache[k]) /\ k = KeyOf(cache[k])
    BY DEF Filed
  <2>2. cache[j].upstream.path = cache[k].upstream.path
    BY <2>1 DEF Sound, IsResource
  <2>3. /\ cache[j].upstream = [host |-> cache[j].from, path |-> cache[j].upstream.path]
        /\ cache[k].upstream = [host |-> cache[k].from, path |-> cache[k].upstream.path]
    BY <2>1 DEF Sound
  <2>4. cache[j].upstream = cache[k].upstream
    BY <2>2, <2>3
  <2>5. QED
    BY <2>1, <2>4 DEF KeyOf
<1>2. QED
  BY <1>1, FrontInvariant, PTL

\* handle_metadata and handle_artifact answer with a page for a page and a file for
\* a file, of the resource that was asked for, and its bytes are the registry's own
\* whatever redirects upstream answers with.
THEOREM AnswersAreAsAsked == Spec => []AnswersMatch
<1>1. FrontInv => AnswersMatch
  <2> SUFFICES ASSUME Answered, answer # None, answer.entry # None
               PROVE  /\ answer.entry.class = IF IsPage(answer.q) THEN "page" ELSE "file"
                      /\ answer.entry.upstream = Upstream(answer.q)
                      /\ answer.entry.from = HostOf(answer.q)
    BY DEF FrontInv, AnswersMatch
  <2>1. /\ Sound(answer.entry) /\ answer.entry.upstream = Upstream(answer.q)
        /\ answer.entry.class = IF IsPage(answer.q) THEN "page" ELSE "file"
    BY DEF Answered
  <2>2. answer.entry.upstream.host = answer.entry.from
    BY <2>1 DEF Sound
  <2>3. answer.entry.upstream.host = HostOf(answer.q)
    BY <2>1 DEF Upstream
  <2>4. QED
    BY <2>1, <2>2, <2>3
<1>2. QED
  BY <1>1, FrontInvariant, PTL

\* docs/specs/arch.md:196: cache_identity keeps pages apart by the address they were
\* rewritten for, so a link that was rewritten, by this run of the server or an
\* earlier one, leads to the present VAMPIRE_PUBLIC_BASE_URL.
THEOREM RewrittenLinksLeadHere == Spec => []LinksPointHere
<1>1. FrontInv => LinksPointHere
  <2> SUFFICES ASSUME Answered, answer # None, answer.entry # None, IsHere(answer.entry.served)
               PROVE  answer.entry.served.origin = origin
    BY DEF FrontInv, LinksPointHere
  <2>1. Sound(answer.entry)
    BY DEF Answered
  <2>2. answer.entry.class = "page"
    BY <2>1 DEF Sound, IsHere
  <2>3. answer.entry.rewrite = Rewrite(answer.q)
    BY <2>2 DEF Answered
  <2>4. answer.entry.rewrite \in {<<"npm", answer.entry.served.origin>>,
                                 <<"pypi", answer.entry.served.origin>>}
    BY <2>1 DEF Sound
  <2>5. \A o : <<"raw">> # <<"npm", o>> /\ <<"raw">> # <<"pypi", o>>
    OBVIOUS
  <2>6. QED
    BY <2>3, <2>4, <2>5 DEF Rewrite
<1>2. QED
  BY <1>1, FrontInvariant, PTL

\* rewrite_pypi_href and rewrite_npm_tarball: a client that follows a rewritten
\* link makes a request that is accepted, and reaches the upstream resource the
\* registry's link meant.
THEOREM RewrittenLinksResolve == Spec => []LinksResolve
<1>1. FrontInv => LinksResolve
  BY DEF FrontInv, Answered, Sound, LinksResolve
<1>2. QED
  BY <1>1, FrontInvariant, PTL

\* handle_git sends GitHub the two requests of a fetch from the repository that was
\* named, without credentials, and nothing else.
THEOREM OnlyFetchesGoToGitHub == Spec => []GitFetchesOnly
<1>1. FrontInv => GitFetchesOnly
  BY GitSends DEF FrontInv, GitAnswered, GitFetchesOnly
<1>2. QED
  BY <1>1, FrontInvariant, PTL
===============================================================================

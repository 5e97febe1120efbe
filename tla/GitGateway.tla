------------------------------ MODULE GitGateway ------------------------------
(***************************************************************************)
(* The Git gateway (src/src/git.rs): what it makes of a request.  A        *)
(* request is [method, absolute, userinfo, path, query, headers, large]:   *)
(* its path the sequence of segments after the first slash, names out of a *)
(* small set, its query "none", "upload" (service=git-upload-pack),          *)
(* "receive" or "other", and large whether its body exceeds                *)
(* MAX_GIT_REQUEST_BODY_BYTES.                                             *)
(***************************************************************************)
EXTENDS Sequences

CONSTANTS Percent,      \* segments with a percent sign, well-formed or not
          Backslash,    \* segments with a backslash
          SchemeLike,   \* segments that begin like an absolute URL
          Unsafe,       \* segments with a character that a URL has encoded
          StripGit      \* StripGit[s]: s without one .git at its end

Rejected(status) == [rejected |-> status]
NotGit == Rejected(404)

valid_repo_segment(s) == s \notin {"", ".", ".."} \cup Percent \cup Backslash

parse_github_git_request_path(path) ==
    LET owner == path[1]
        repo == StripGit[path[2]]
        Git(rpc) == IF valid_repo_segment(owner) /\ valid_repo_segment(repo)
                      THEN [owner |-> owner, repo |-> repo, rpc |-> rpc]
                      ELSE NotGit
        segments == {path[i] : i \in DOMAIN path}
    IN  CASE segments \cap Backslash # {} -> Rejected(400)
          [] path = <<"">> -> NotGit
          [] path # <<"">> /\ segments \cap ({"", ".", ".."} \cup Percent) # {} -> Rejected(400)
          [] OTHER ->
               IF Len(path) = 4 /\ SubSeq(path, 3, 4) = <<"info", "refs">> THEN Git("info_refs")
               ELSE IF Len(path) # 3 THEN NotGit
               ELSE IF path[3] = "git-upload-pack" THEN Git("upload_pack")
               ELSE IF path[3] = "git-receive-pack" THEN Rejected(405)
               ELSE NotGit

\* join_url makes a URL of owner and repository; owners and repositories that
\* hold what a path segment may not have been refused before.
Joins(git) == git.owner \notin SchemeLike \cup Unsafe /\ git.repo \notin Unsafe

\* Mutant: info/refs is forwarded for whatever service was named.
Mutresolve(git, q) ==
    CASE q.method = "GET" /\ git.rpc = "info_refs" ->
           IF q.query = "none" THEN Rejected(400) ELSE git
      [] q.method = "GET" /\ git.rpc = "upload_pack" -> Rejected(405)
      [] q.method = "POST" /\ git.rpc = "upload_pack" ->
           IF q.query # "none" THEN Rejected(400) ELSE git
      [] OTHER -> Rejected(405)

\* GithubGitPath::resolve and upstream_url, which does without a query.
resolve(git, q) ==
    CASE q.method = "GET" /\ git.rpc = "info_refs" ->
           IF q.query = "receive" THEN Rejected(405)
           ELSE IF q.query # "upload" THEN Rejected(400)
           ELSE IF ~Joins(git) THEN NotGit ELSE git
      [] q.method = "GET" /\ git.rpc = "upload_pack" -> Rejected(405)
      [] q.method = "POST" /\ git.rpc = "upload_pack" ->
           IF q.query # "none" THEN Rejected(400)
           ELSE IF ~Joins(git) THEN NotGit ELSE git
      [] OTHER -> Rejected(405)

from_request(q) ==
    IF q.userinfo THEN Rejected(403)
    ELSE IF q.method = "CONNECT" THEN Rejected(405)
    ELSE IF q.absolute THEN Rejected(400)
    ELSE LET git == parse_github_git_request_path(q.path)
         IN  IF "rejected" \in DOMAIN git THEN git ELSE resolve(git, q)

is_allowlisted_git_request_header(method, name) ==
    name \in CASE method = "GET"  -> {"git-protocol"}
               [] method = "POST" -> {"git-protocol", "content-type", "content-encoding"}
               [] OTHER           -> {}

\* request and handle_git: what goes to GitHub, or the status of the refusal.
GitRequest(q) ==
    LET git == from_request(q)
        allowed == {h \in q.headers : is_allowlisted_git_request_header(q.method, h)}
    IN  IF "rejected" \in DOMAIN git THEN git
        ELSE IF q.method = "POST" /\ q.large THEN Rejected(400)
        ELSE [method |-> q.method, owner |-> git.owner, repo |-> git.repo,
              service |-> IF q.method = "GET" THEN q.query ELSE git.rpc, headers |-> allowed]
===============================================================================

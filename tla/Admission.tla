------------------------------ MODULE Admission ------------------------------
(***************************************************************************)
(* The two admission bounds of the package listener: the permits of        *)
(* upstream_semaphore, and the MiB of metadata_memory_semaphore that cover *)
(* buffered bodies (src/src/cache.rs, src/src/proxy.rs, src/src/npm.rs).   *)
(* Cold artifact HEADs, npm searches and audits and metadata fetches       *)
(* compete for them.  Nobody waits for either: what cannot be had at once  *)
(* is answered with 503.                                                   *)
(*                                                                         *)
(* All metadata requests of the model ask for one key, so they share one   *)
(* flight and its bytes.  Storing the body is MetadataCache's subject and  *)
(* only shows as a step that may fail.  Lengths are in MiB, rounded up, as *)
(* the reservation counts them.                                            *)
(***************************************************************************)
EXTENDS Integers, FiniteSets, Functions

CONSTANTS Reqs,               \* requests
          Kind,               \* Kind[r]: "head", "search", "audit" or "metadata"
          Rewrite,            \* the MetadataRewrite of the key: "none", "pypi", "npm"
          Growth,             \* how many MiB a rewrite can add to one MiB
          NpmFactor,          \* 12: the working space of the JSON rewrite per MiB
          MaxUpstreamFetches, \* VAMPIRE_MAX_UPSTREAM_FETCHES
          Budget,             \* METADATA_MEMORY_BUDGET_MIB
          MaxBody,            \* MAX_METADATA_BODY_LEN
          None

ASSUME ConstantsAssumption ==
    /\ IsFiniteSet(Reqs)
    /\ Kind \in [Reqs -> {"head", "search", "audit", "metadata"}]
    /\ Rewrite \in {"none", "pypi", "npm"}
    /\ Growth \in Nat
    /\ NpmFactor \in Nat
    /\ MaxUpstreamFetches \in Nat
    /\ Budget \in Nat
    /\ MaxBody \in Nat
    /\ None \notin Nat \cup Reqs \cup {"body", "failed"}

VARIABLES
    free,      \* permits left in upstream_semaphore
    mem,       \* MiB left in metadata_memory_semaphore
    stage,     \* stage[r]: where the handler of r stands, or how it ended
    held,      \* held[r]: MiB of the reservation made by r
    body,      \* body[r]: MiB of the body r has buffered
    declared,  \* declared[r]: the Content-Length of the response, or None
    inflight,  \* the metadata request registered as leader, or None
    flight,    \* flight[r]: the flight metadata request r joined, or None
    outcome,   \* outcome[f]: None, "body" or "failed"
    starved    \* history: the requests refused for lack of memory

flightVars == <<inflight, flight, outcome>>
vars == <<free, mem, stage, held, body, declared, flightVars, starved>>

\* The handler holds an upstream permit.
Permitted == {"head", "post", "send", "read", "rewrite", "failing", "signal", "finish"}
Ended == {"done", "busy", "failed", "gone"}

TypeOK ==
    /\ free \in 0 .. MaxUpstreamFetches
    /\ mem \in 0 .. Budget
    /\ stage \in [Reqs -> {"idle", "wait", "deliver", "guard"} \cup Permitted \cup Ended]
    /\ held \in [Reqs -> Nat]
    /\ body \in [Reqs -> 0 .. MaxBody]
    /\ declared \in [Reqs -> (0 .. MaxBody) \cup {None}]
    /\ inflight \in Reqs \cup {None}
    /\ flight \in [Reqs -> Reqs \cup {None}]
    /\ outcome \in [Reqs -> {None, "body", "failed"}]
    /\ starved \subseteq Reqs

Init ==
    /\ free = MaxUpstreamFetches
    /\ mem = Budget
    /\ stage = [r \in Reqs |-> "idle"]
    /\ held = [r \in Reqs |-> 0]
    /\ body = [r \in Reqs |-> 0]
    /\ declared = [r \in Reqs |-> None]
    /\ inflight = None
    /\ flight = [r \in Reqs |-> None]
    /\ outcome = [r \in Reqs |-> None]
    /\ starved = {}

Goto(r, s) == stage' = [stage EXCEPT ![r] = s]

-------------------------------------------------------------------------------
(* Sizes.                                                                  *)

Least(m, n) == IF m <= n THEN m ELSE n

\* MetadataRewrite::output_bound and working_set.
OutputBound(n) == IF Rewrite = "none" THEN n ELSE Least(n + Growth * n, MaxBody)
WorkingSet(n) == CASE Rewrite = "none" -> n
                   [] Rewrite = "pypi" -> n + OutputBound(n)
                   [] Rewrite = "npm" -> NpmFactor * n + OutputBound(n)

\* MetadataMemoryReservation::reserve: at least one MiB, and only what is not
\* held yet is acquired.
Required(n) == IF n = 0 THEN 1 ELSE n
\* Mutant: the MiB already held are asked for again.
MutAdditional(r, n) == Required(n)

Additional(r, n) == IF Required(n) <= held[r] THEN 0 ELSE Required(n) - held[r]
Fits(r, n) == Additional(r, n) <= mem

-------------------------------------------------------------------------------
(* Who can still reach the bytes that request f has buffered.              *)

\* The Inflight of f, and with it its outcome: in the map, in the leader or its
\* guard, in a request that waits.
InflightAlive(f) ==
    \/ inflight = f
    \/ stage[f] \in {"signal", "finish", "guard"}
    \/ \E r \in Reqs : flight[r] = f /\ stage[r] = "wait"

\* The bytes are in f's handler while it reads and rewrites; then the outcome
\* and every response that has not been delivered hold a clone.
BytesAlive(f) ==
    \/ stage[f] \in {"read", "rewrite", "signal", "deliver"}
    \/ outcome[f] = "body" /\ InflightAlive(f)
    \/ \E r \in Reqs : flight[r] = f /\ stage[r] = "deliver"

\* Mutant: the reservation is dropped with the handler, not with the bytes.
MutReservationAlive(f) == stage[f] \in {"read", "rewrite", "signal"}

\* BufferedMetadataBody owns body and permit: they are dropped together.
ReservationAlive(f) == BytesAlive(f)

\* The reservations become h, except those dropped in this step; the semaphore
\* gets back what is dropped.
Hold(h) ==
    /\ held' = [f \in Reqs |-> IF ReservationAlive(f)' THEN h[f] ELSE 0]
    /\ mem' = mem - SumFunctionOnSet([f \in Reqs |-> held'[f] - held[f]], Reqs)

Reserve(r, n) == Hold([held EXCEPT ![r] = held[r] + Additional(r, n)])

-------------------------------------------------------------------------------
(* Admission.                                                              *)

NeedsPermit(r) == Kind[r] # "metadata" \/ inflight = None

\* try_acquire_upstream_permit fails: WouldBlock, answered with 503.
Refuse(r) ==
    /\ stage[r] = "idle"
    /\ NeedsPermit(r)
    /\ free = 0
    /\ Goto(r, "busy")
    /\ UNCHANGED <<free, mem, held, body, declared, flightVars, starved>>

\* handle_artifact_head finds the entry in the cache and needs no permit.
HeadHit(r) ==
    /\ stage[r] = "idle"
    /\ Kind[r] = "head"
    /\ Goto(r, "done")
    /\ UNCHANGED <<free, mem, held, body, declared, flightVars, starved>>

\* A cold HEAD, a search or an audit gets a permit; an audit has yet to read
\* the body of its own request.
Admit(r) ==
    /\ stage[r] = "idle"
    /\ Kind[r] # "metadata"
    /\ free > 0
    /\ free' = free - 1
    /\ Goto(r, CASE Kind[r] = "head" -> "head"
                 [] Kind[r] = "audit" -> "post"
                 [] Kind[r] = "search" -> "send")
    /\ UNCHANGED <<mem, held, body, declared, flightVars, starved>>

\* lookup_or_start_metadata.
Lead(r) ==
    /\ stage[r] = "idle"
    /\ Kind[r] = "metadata"
    /\ inflight = None
    /\ free > 0
    /\ free' = free - 1
    /\ inflight' = r
    /\ Goto(r, "send")
    /\ UNCHANGED <<mem, held, body, declared, flight, outcome, starved>>

Join(r) ==
    /\ stage[r] = "idle"
    /\ Kind[r] = "metadata"
    /\ inflight # None
    /\ flight' = [flight EXCEPT ![r] = inflight]
    /\ Goto(r, "wait")
    /\ UNCHANGED <<free, mem, held, body, declared, inflight, outcome, starved>>

\* to_bytes of the audit's own body, at most 8 MiB.
AuditBody(r) ==
    /\ stage[r] = "post"
    /\ Goto(r, "send")
    /\ UNCHANGED <<free, mem, held, body, declared, flightVars, starved>>

-------------------------------------------------------------------------------
(* Reading and rewriting.                                                  *)

\* A handler gives up: a metadata leader has an outcome to report first, any
\* other request returns its permit and is answered.  The reservation and what
\* was read are dropped.
GiveUp(r) ==
    /\ \/ /\ Kind[r] = "metadata"
          /\ Goto(r, "failing")
          /\ UNCHANGED free
       \/ /\ Kind[r] # "metadata"
          /\ Goto(r, "failed")
          /\ free' = free + 1
    /\ UNCHANGED <<body, declared, flightVars>>
    /\ Hold(held)

\* The exchange with upstream, the client's body, a limit (a declared length or a
\* body over MaxBody), the rewrite or the store fails.
Fail(r) ==
    /\ stage[r] \in {"head", "post", "send", "read", "rewrite"}
    /\ GiveUp(r)
    /\ UNCHANGED starved

\* The memory for n MiB is not there: WouldBlock.
Starve(r, n) ==
    /\ ~Fits(r, n)
    /\ GiveUp(r)
    /\ starved' = starved \cup {r}

HeadEnds(r) ==
    /\ stage[r] = "head"
    /\ Goto(r, "done")
    /\ free' = free + 1
    /\ UNCHANGED <<mem, held, body, declared, flightVars, starved>>

\* read_metadata_body: response headers with a length of n, or with none, are
\* there; the length is reserved before anything is read.
Respond(r, n) ==
    /\ stage[r] = "send"
    /\ LET expected == IF n = None THEN 0 ELSE n
       IN  \/ Starve(r, expected)
           \/ /\ Fits(r, expected)
              /\ Goto(r, "read")
              /\ body' = [body EXCEPT ![r] = 0]
              /\ declared' = [declared EXCEPT ![r] = n]
              /\ UNCHANGED <<free, flightVars, starved>>
              /\ Reserve(r, expected)

\* One more MiB has arrived; beyond MaxBody the request fails instead.
Chunk(r) ==
    /\ stage[r] = "read"
    /\ body[r] < MaxBody
    /\ declared[r] # None => body[r] < declared[r]
    /\ \/ Starve(r, body[r] + 1)
       \/ /\ Fits(r, body[r] + 1)
          /\ body' = [body EXCEPT ![r] = @ + 1]
          /\ UNCHANGED stage
          /\ UNCHANGED <<free, declared, flightVars, starved>>
          /\ Reserve(r, body[r] + 1)

\* The end of a search or audit response: handle_npm_request returns it and the
\* permit goes back, while the bytes wait for delivery.
NpmBodyEnds(r) ==
    /\ stage[r] = "read"
    /\ Kind[r] # "metadata"
    /\ declared[r] \in {None, body[r]}
    /\ Goto(r, "deliver")
    /\ free' = free + 1
    /\ UNCHANGED <<body, declared, flightVars, starved>>
    /\ Hold(held)

\* The end of a metadata response: finish_metadata reserves the working set.
MetadataBodyEnds(r) ==
    /\ stage[r] = "read"
    /\ Kind[r] = "metadata"
    /\ declared[r] \in {None, body[r]}
    /\ \/ Starve(r, WorkingSet(body[r]))
       \/ /\ Fits(r, WorkingSet(body[r]))
          /\ Goto(r, "rewrite")
          /\ UNCHANGED <<free, body, declared, flightVars, starved>>
          /\ Reserve(r, WorkingSet(body[r]))

\* The rewritten body, of n MiB, is what will be shared.  The code checks it
\* against MAX_METADATA_BODY_LEN only; that it keeps to output_bound is assumed,
\* as rewrite_bound_covers_short_pypi_index_links, a test of proxy.rs, has it.
RewriteEnds(r, n) ==
    /\ stage[r] = "rewrite"
    /\ n <= OutputBound(body[r])
    /\ body' = [body EXCEPT ![r] = n]
    /\ Goto(r, "signal")
    /\ UNCHANGED <<free, declared, flightVars, starved>>
    /\ Hold(held)

\* 304: the stored body, of n MiB, is reserved and read from disk.
NotModified(r, n) ==
    /\ stage[r] = "send"
    /\ Kind[r] = "metadata"
    /\ \/ Starve(r, n)
       \/ /\ Fits(r, n)
          /\ body' = [body EXCEPT ![r] = n]
          /\ Goto(r, "signal")
          /\ UNCHANGED <<free, declared, flightVars, starved>>
          /\ Reserve(r, n)

-------------------------------------------------------------------------------
(* Completion, delivery, disconnects.                                      *)

Signal(r) ==
    /\ stage[r] \in {"signal", "failing"}
    /\ outcome' = [outcome EXCEPT ![r] = IF stage[r] = "signal" THEN "body" ELSE "failed"]
    /\ Goto(r, "finish")
    /\ UNCHANGED <<free, body, declared, inflight, flight, starved>>
    /\ Hold(held)

\* finish_inflight; the leader goes on to deliver its own clone.
Finish(r) ==
    /\ stage[r] = "finish"
    /\ inflight' = None
    /\ free' = free + 1
    /\ Goto(r, IF outcome[r] = "body" THEN "deliver" ELSE "failed")
    /\ UNCHANGED <<body, declared, flight, outcome, starved>>
    /\ Hold(held)

\* A follower takes its clone, or the failure with its error kind.
Answer(r) ==
    /\ stage[r] = "wait"
    /\ outcome[flight[r]] # None
    /\ Goto(r, IF outcome[flight[r]] = "body" THEN "deliver" ELSE "failed")
    /\ UNCHANGED <<free, body, declared, flightVars, starved>>
    /\ Hold(held)

Delivered(r) ==
    /\ stage[r] = "deliver"
    /\ Goto(r, "done")
    /\ UNCHANGED <<free, body, declared, flightVars, starved>>
    /\ Hold(held)

\* The client disconnects: everything the handler or the response owns is
\* dropped.  A metadata leader leaves its MetadataFetchCleanup behind.
Leave(r) ==
    /\ stage[r] \in {"wait", "deliver"} \cup Permitted
    /\ free' = IF stage[r] \in Permitted THEN free + 1 ELSE free
    /\ Goto(r, IF stage[r] \in Permitted /\ Kind[r] = "metadata" THEN "guard" ELSE "gone")
    /\ UNCHANGED <<body, declared, flightVars, starved>>
    /\ Hold(held)

\* Mutants: the guard's task does not remove the flight from the map; the
\* permit, dropped with the leader, is returned once more.
MutGuardUnregistered(r) ==
    /\ stage[r] = "guard"
    /\ Goto(r, "gone")
    /\ outcome' = [outcome EXCEPT ![r] = IF @ = None THEN "failed" ELSE @]
    /\ UNCHANGED <<free, body, declared, inflight, flight, starved>>
    /\ Hold(held)
MutGuardReturnsPermit(r) ==
    /\ stage[r] = "guard"
    /\ Goto(r, "gone")
    /\ outcome' = [outcome EXCEPT ![r] = IF @ = None THEN "failed" ELSE @]
    /\ inflight' = None
    /\ free' = free + 1
    /\ UNCHANGED <<body, declared, flight, starved>>
    /\ Hold(held)

\* The guard's task: fail unless there is an outcome, then finish_inflight.
GuardEnds(r) ==
    /\ stage[r] = "guard"
    /\ Goto(r, "gone")
    /\ outcome' = [outcome EXCEPT ![r] = IF @ = None THEN "failed" ELSE @]
    /\ inflight' = None
    /\ UNCHANGED <<free, body, declared, flight, starved>>
    /\ Hold(held)

Quiet == \A r \in Reqs : stage[r] \in Ended
Settled == Quiet /\ UNCHANGED vars

Next ==
    \/ \E r \in Reqs :
          \/ Refuse(r) \/ HeadHit(r) \/ Admit(r) \/ Lead(r) \/ Join(r) \/ AuditBody(r)
          \/ Fail(r) \/ HeadEnds(r) \/ Chunk(r) \/ NpmBodyEnds(r) \/ MetadataBodyEnds(r)
          \/ Signal(r) \/ Finish(r) \/ Answer(r) \/ Delivered(r) \/ Leave(r) \/ GuardEnds(r)
          \/ \E n \in 0 .. MaxBody : Respond(r, n) \/ RewriteEnds(r, n) \/ NotModified(r, n)
          \/ Respond(r, None)
    \/ Settled

SafeSpec == Init /\ [][Next]_vars

-------------------------------------------------------------------------------
(* Properties.                                                             *)

\* What request f has in memory: the working set while it rewrites, else the
\* bytes it has buffered, for as long as any clone of them is alive.
Footprint(f) ==
    CASE stage[f] = "rewrite" -> WorkingSet(body[f])
      [] BytesAlive(f) /\ stage[f] # "rewrite" -> body[f]
      [] OTHER -> 0

\* Buffered bodies, the clones that followers still deliver and the working
\* space of rewrites never take more than the budget.
MemoryBounded == SumFunctionOnSet([f \in Reqs |-> Footprint(f)], Reqs) <= Budget

\* Nothing leaks: when every response is delivered or dropped, all permits and the
\* whole memory budget are there again, whoever was refused, cancelled or followed.
AllReturned == Quiet => free = MaxUpstreamFetches /\ mem = Budget

\* Fail-fast does not become fail-always: requests that grow their reservations
\* step by step can refuse each other, but when nothing they ask for exceeds the
\* budget on its own, one of those that buffer a body is not refused.
Users == {r \in Reqs : Kind[r] # "head"}
SomebodyFits ==
    (\A n \in 0 .. MaxBody : WorkingSet(n) <= Budget /\ Required(n) <= Budget)
        => Users = {} \/ ~(Users \subseteq starved)
===============================================================================

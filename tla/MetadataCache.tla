---------------------------- MODULE MetadataCache ----------------------------
(***************************************************************************)
(* The metadata path of vampire: GET and HEAD of package metadata, one     *)
(* leader per representation key that revalidates the stored entry with    *)
(* upstream, and store_metadata with its eviction scan                     *)
(* (src/src/cache.rs, src/src/proxy.rs).                                   *)
(*                                                                         *)
(* Unlike an artifact fetch, the leader runs inside its own request: when  *)
(* its client disconnects, all of it stops at the current await, and what  *)
(* it had handed to the blocking pool runs on without it.  A request leads *)
(* at most one flight, so the flight, its Inflight and its temporary file  *)
(* carry the request's name.  Bodies are abstracted to the version of the  *)
(* upstream document they were made from; a validator identifies it.       *)
(***************************************************************************)
EXTENDS Integers, FiniteSets, Functions

CONSTANTS Keys,               \* metadata keys (upstream URL and representation)
          Reqs,               \* metadata GET and HEAD requests
          KeyOf,              \* KeyOf[r]: the key request r asks for
          Size,               \* Size[k]: the length of the stored entry of key k
          MaxCacheSize,       \* VAMPIRE_MAX_CACHE_SIZE_MB, in the unit of Size
          MaxUpstreamFetches, \* VAMPIRE_MAX_UPSTREAM_FETCHES
          MaxArtifactFetches, \* bound on the permits artifact fetches hold at once
          IOFaults,           \* the file operations of a store that may fail
          MaxVersion,         \* MaxVersion[k]: bound on the changes of document k upstream
          Failed,             \* the outcome of a flight that ends in an error
          None

ASSUME ConstantsAssumption ==
    /\ IsFiniteSet(Keys)
    /\ KeyOf \in [Reqs -> Keys]
    /\ Size \in [Keys -> Nat]
    /\ MaxCacheSize \in Nat
    /\ MaxUpstreamFetches \in Nat
    /\ MaxArtifactFetches \in Nat
    /\ IOFaults \subseteq {"write", "list", "remove"}
    /\ MaxVersion \in [Keys -> Nat]
    /\ Failed \notin Nat
    /\ None \notin Nat \cup Reqs \cup Keys \cup {Failed}

VARIABLES
    inflight,   \* inflight[k]: the flight registered for k, or None
    free,       \* permits left in upstream_semaphore
    artifacts,  \* permits of it that artifact fetches hold
    req,        \* req[r]: where handle_metadata of r stands, or how it ended
    flight,     \* flight[r]: the flight r waits for, or None
    entry,      \* entry[r]: the version leader r has loaded from disk, or None
    result,     \* result[r]: what leader r is going to report
    outcome,    \* outcome[f]: the outcome in the Inflight of f, or None
    got,        \* got[r]: what r answered its client, or None
    guard,      \* guard[r]: the task spawned by the drop of MetadataFetchCleanup
    upstream,   \* upstream[k]: the version upstream serves now
    disk,       \* disk[k]: the version stored at <key>, or None
    temps,      \* the requests whose unique temporary file exists
    tempGuard,  \* the requests whose MetadataTempCleanup has yet to remove it
    late,       \* late[r]: a file operation of r that outlived r
    evictor,    \* the request that holds eviction_lock, or None
    left,       \* the scan's entries not yet considered
    total,      \* the scan's running total
    began,      \* history: upstream[k] when flight r began
    cut         \* history: the leaders whose store_metadata did not get to its
                \* end: cancelled inside it, or an error of its eviction scan

permitVars == <<free, artifacts>>
flightVars == <<inflight, permitVars, outcome, began>>
leadVars == <<entry, result>>
fileVars == <<disk, temps, tempGuard, late>>
scanVars == <<evictor, left, total>>
vars == <<flightVars, req, flight, leadVars, got, guard, upstream, fileVars, scanVars,
          cut>>

-------------------------------------------------------------------------------
\* store_metadata: creating the temporary file, writing it and waiting for the
\* eviction lock, renaming it, listing the cache, removing entries.
Storing == {"create", "lock", "rename", "list", "scan"}
\* run_metadata_fetch: the leader's future exists and holds the permit.
Leading == {"load", "send", "signal", "finish"} \cup Storing
Ended == {"done", "busy", "gone"}

TypeOK ==
    /\ inflight \in [Keys -> Reqs \cup {None}]
    /\ free \in 0 .. MaxUpstreamFetches
    /\ artifacts \in 0 .. MaxArtifactFetches
    /\ req \in [Reqs -> {"idle", "wait"} \cup Leading \cup Ended]
    /\ flight \in [Reqs -> Reqs \cup {None}]
    /\ entry \in [Reqs -> Nat \cup {None}]
    /\ result \in [Reqs -> Nat \cup {Failed, None}]
    /\ outcome \in [Reqs -> Nat \cup {Failed, None}]
    /\ got \in [Reqs -> Nat \cup {Failed, None}]
    /\ guard \in [Reqs -> {"off", "fail", "finish"}]
    /\ upstream \in [Keys -> Nat]
    /\ disk \in [Keys -> Nat \cup {None}]
    /\ temps \subseteq Reqs
    /\ tempGuard \subseteq Reqs
    /\ late \in [Reqs -> {"no", "create", "rename"}]
    /\ evictor \in Reqs \cup {None}
    /\ left \subseteq Keys
    /\ total \in Nat
    /\ began \in [Reqs -> Nat \cup {None}]
    /\ cut \subseteq Reqs

\* The bytes of the entries of a set of keys.
Bytes(K) == SumFunctionOnSet(Size, K)
Stored == {k \in Keys : disk[k] # None}

Init ==
    /\ inflight = [k \in Keys |-> None]
    /\ free = MaxUpstreamFetches
    /\ artifacts = 0
    /\ req = [r \in Reqs |-> "idle"]
    /\ flight = [r \in Reqs |-> None]
    /\ entry = [r \in Reqs |-> None]
    /\ result = [r \in Reqs |-> None]
    /\ outcome = [r \in Reqs |-> None]
    /\ got = [r \in Reqs |-> None]
    /\ guard = [r \in Reqs |-> "off"]
    /\ upstream = [k \in Keys |-> 0]
    /\ disk \in [Keys -> {0, None}]
    /\ Bytes(Stored) <= MaxCacheSize      \* CacheStore::new ends with a scan
    /\ temps = {}
    /\ tempGuard = {}
    /\ late = [r \in Reqs |-> "no"]
    /\ evictor = None
    /\ left = {}
    /\ total = 0
    /\ began = [r \in Reqs |-> None]
    /\ cut = {}

Goto(r, p) == req' = [req EXCEPT ![r] = p]

-------------------------------------------------------------------------------
(* handle_metadata: lookup_or_start_metadata, under the map's mutex.       *)

Join(r) ==
    /\ req[r] = "idle"
    /\ inflight[KeyOf[r]] # None
    /\ Goto(r, "wait")
    /\ flight' = [flight EXCEPT ![r] = inflight[KeyOf[r]]]
    /\ UNCHANGED <<flightVars, leadVars, got, guard, upstream, fileVars, scanVars, cut>>

Refuse(r) ==
    /\ req[r] = "idle"
    /\ inflight[KeyOf[r]] = None
    /\ free = 0
    /\ Goto(r, "busy")
    /\ UNCHANGED <<flightVars, flight, leadVars, got, guard, upstream, fileVars, scanVars,
                   cut>>

Lead(r) ==
    /\ req[r] = "idle"
    /\ inflight[KeyOf[r]] = None
    /\ free > 0
    /\ free' = free - 1
    /\ inflight' = [inflight EXCEPT ![KeyOf[r]] = r]
    /\ Goto(r, "load")
    /\ began' = [began EXCEPT ![r] = upstream[KeyOf[r]]]
    /\ UNCHANGED <<artifacts, flight, leadVars, outcome, got, guard, upstream, fileVars,
                   scanVars, cut>>

\* serve_metadata_inflight: the follower answers with the flight's outcome.
Answer(r) ==
    /\ req[r] = "wait"
    /\ outcome[flight[r]] # None
    /\ Goto(r, "done")
    /\ got' = [got EXCEPT ![r] = outcome[flight[r]]]
    /\ UNCHANGED <<flightVars, flight, leadVars, guard, upstream, fileVars, scanVars, cut>>

-------------------------------------------------------------------------------
(* run_metadata_fetch and do_metadata_fetch.                               *)

Load(r) ==
    /\ req[r] = "load"
    /\ Goto(r, "send")
    /\ entry' = [entry EXCEPT ![r] = disk[KeyOf[r]]]
    /\ UNCHANGED <<flightVars, flight, result, got, guard, upstream, fileVars, scanVars, cut>>

\* Mutant: a stored entry is served without asking upstream.
MutNotModifiedUnasked(r) ==
    /\ req[r] = "send"
    /\ entry[r] # None
    /\ result' = [result EXCEPT ![r] = entry[r]]
    /\ Goto(r, "signal")
    /\ UNCHANGED <<flightVars, flight, entry, got, guard, upstream, fileVars, scanVars, cut>>

\* 304 to a conditional request: the entry loaded before is what upstream has,
\* and its body is read through the handle opened then.
NotModified(r) ==
    /\ req[r] = "send"
    /\ entry[r] = upstream[KeyOf[r]]
    /\ result' = [result EXCEPT ![r] = entry[r]]
    /\ Goto(r, "signal")
    /\ UNCHANGED <<flightVars, flight, entry, got, guard, upstream, fileVars, scanVars, cut>>

\* A full response, rewritten; it is stored if its status is 200 and it carries
\* a validator, otherwise only passed on.
Fresh(r) ==
    /\ req[r] = "send"
    /\ result' = [result EXCEPT ![r] = upstream[KeyOf[r]]]
    /\ \/ Goto(r, "create")
       \/ Goto(r, "signal")
    /\ UNCHANGED <<flightVars, flight, entry, got, guard, upstream, fileVars, scanVars, cut>>

\* Loading, the request, a size limit, the memory budget or the rewrite fails.
FetchFails(r) ==
    /\ req[r] \in {"load", "send"}
    /\ result' = [result EXCEPT ![r] = Failed]
    /\ Goto(r, "signal")
    /\ UNCHANGED <<flightVars, flight, entry, got, guard, upstream, fileVars, scanVars, cut>>

-------------------------------------------------------------------------------
(* store_metadata.                                                         *)

CreateTemp(r) ==
    /\ req[r] = "create"
    /\ temps' = temps \cup {r}
    /\ Goto(r, "lock")
    /\ UNCHANGED <<flightVars, flight, leadVars, got, guard, upstream, disk, tempGuard, late,
                   scanVars, cut>>

\* The file is written and flushed, and the eviction lock acquired.
AcquireLock(r) ==
    /\ req[r] = "lock"
    /\ evictor = None
    /\ evictor' = r
    /\ Goto(r, "rename")
    /\ UNCHANGED <<flightVars, flight, leadVars, got, guard, upstream, fileVars, left, total,
                   cut>>

Rename(r) ==
    /\ req[r] = "rename"
    /\ disk' = [disk EXCEPT ![KeyOf[r]] = result[r]]
    /\ temps' = temps \ {r}
    /\ Goto(r, "list")
    /\ UNCHANGED <<flightVars, flight, leadVars, got, guard, upstream, tempGuard, late,
                   scanVars, cut>>

ListEntries(r) ==
    /\ req[r] = "list"
    /\ left' = Stored
    /\ total' = Bytes(Stored)
    /\ Goto(r, "scan")
    /\ UNCHANGED <<flightVars, flight, leadVars, got, guard, upstream, fileVars, evictor, cut>>

\* Metadata entries have no pins: any of them can go, in any order.
RemoveEntry(r, k) ==
    /\ req[r] = "scan"
    /\ total > MaxCacheSize
    /\ k \in left
    /\ left' = left \ {k}
    /\ total' = IF total >= Size[k] THEN total - Size[k] ELSE 0
    /\ disk' = [disk EXCEPT ![k] = None]
    /\ UNCHANGED <<flightVars, req, flight, leadVars, got, guard, upstream, temps, tempGuard,
                   late, evictor, cut>>

\* remove_file fails with another error than NotFound: go on with the next.
RemoveFails(r, k) ==
    /\ "remove" \in IOFaults
    /\ req[r] = "scan"
    /\ total > MaxCacheSize
    /\ k \in left
    /\ left' = left \ {k}
    /\ cut' = cut \cup {r}
    /\ UNCHANGED <<flightVars, req, flight, leadVars, got, guard, upstream, fileVars,
                   evictor, total>>

\* Mutant: the scan stops one entry early.
MutScanStopsEarly(r) ==
    /\ req[r] = "scan"
    /\ total <= MaxCacheSize + 1 \/ left = {}
    /\ evictor' = None
    /\ left' = {}
    /\ total' = 0
    /\ Goto(r, "signal")
    /\ UNCHANGED <<flightVars, flight, leadVars, got, guard, upstream, fileVars, cut>>

ScanEnds(r) ==
    /\ req[r] = "scan"
    /\ total <= MaxCacheSize \/ left = {}
    /\ evictor' = None
    /\ left' = {}
    /\ total' = 0
    /\ Goto(r, "signal")
    /\ UNCHANGED <<flightVars, flight, leadVars, got, guard, upstream, fileVars, cut>>

\* A write or the rename fails: the fetch fails with it, and the armed
\* MetadataTempCleanup is dropped.
StoreFails(r) ==
    /\ "write" \in IOFaults
    /\ req[r] \in {"create", "lock", "rename"}
    /\ result' = [result EXCEPT ![r] = Failed]
    /\ tempGuard' = tempGuard \cup {r}
    /\ evictor' = IF evictor = r THEN None ELSE evictor
    /\ Goto(r, "signal")
    /\ UNCHANGED <<flightVars, flight, entry, got, guard, upstream, disk, temps, late, left,
                   total, cut>>

\* The cache cannot be listed: the fetch fails although its entry is stored.
ListFails(r) ==
    /\ "list" \in IOFaults
    /\ req[r] = "list"
    /\ result' = [result EXCEPT ![r] = Failed]
    /\ evictor' = None
    /\ cut' = cut \cup {r}
    /\ Goto(r, "signal")
    /\ UNCHANGED <<flightVars, flight, entry, got, guard, upstream, fileVars, left, total>>

-------------------------------------------------------------------------------
(* The end of run_metadata_fetch.                                          *)

Signal(r) ==
    /\ req[r] = "signal"
    /\ outcome' = [outcome EXCEPT ![r] = IF @ = None THEN result[r] ELSE @]
    /\ Goto(r, "finish")
    /\ UNCHANGED <<inflight, permitVars, began, flight, leadVars, got, guard, upstream, fileVars,
                   scanVars, cut>>

\* Mutant: finish_inflight is forgotten.
MutFinishUnregistered(r) ==
    /\ req[r] = "finish"
    /\ free' = free + 1
    /\ got' = [got EXCEPT ![r] = result[r]]
    /\ Goto(r, "done")
    /\ UNCHANGED <<inflight, artifacts, outcome, began, flight, leadVars, guard, upstream,
                   fileVars, scanVars, cut>>

\* finish_inflight, disarm, and the response to the leader's own client.
Finish(r) ==
    /\ req[r] = "finish"
    /\ inflight' = [inflight EXCEPT ![KeyOf[r]] = None]
    /\ free' = free + 1
    /\ got' = [got EXCEPT ![r] = result[r]]
    /\ Goto(r, "done")
    /\ UNCHANGED <<artifacts, outcome, began, flight, leadVars, guard, upstream, fileVars,
                   scanVars, cut>>

-------------------------------------------------------------------------------
(* A client disconnects.                                                   *)

FollowerLeaves(r) ==
    /\ req[r] = "wait"
    /\ Goto(r, "gone")
    /\ UNCHANGED <<flightVars, flight, leadVars, got, guard, upstream, fileVars, scanVars,
                   cut>>

\* The leader's future is dropped: permit and eviction lock go back, the two
\* guards spawn their tasks, and a create or rename already handed to the
\* blocking pool has either not begun (it stays in late) or taken place.
LeaderLeaves(r) ==
    /\ req[r] \in Leading
    /\ Goto(r, "gone")
    /\ free' = free + 1
    /\ guard' = [guard EXCEPT ![r] = "fail"]
    /\ tempGuard' = IF req[r] \in {"create", "lock", "rename"}
                      THEN tempGuard \cup {r} ELSE tempGuard
    /\ late' = [late EXCEPT ![r] = IF req[r] \in {"create", "rename"}
                                     THEN req[r] ELSE "no"]
    /\ \/ evictor = r /\ evictor' = None /\ left' = {} /\ total' = 0
       \/ evictor # r /\ UNCHANGED <<evictor, left, total>>
    /\ cut' = IF req[r] \in Storing THEN cut \cup {r} ELSE cut
    /\ UNCHANGED <<inflight, artifacts, outcome, began, flight, leadVars, got, upstream, disk,
                   temps>>

\* Mutant: the guard's task only removes the flight from the map.
MutGuardWithoutFail(r) ==
    /\ guard[r] = "fail"
    /\ guard' = [guard EXCEPT ![r] = "finish"]
    /\ UNCHANGED <<flightVars, req, flight, leadVars, got, upstream, fileVars,
                   scanVars, cut>>

\* The task of MetadataFetchCleanup: fail, then finish_inflight.
GuardFails(r) ==
    /\ guard[r] = "fail"
    /\ guard' = [guard EXCEPT ![r] = "finish"]
    /\ outcome' = [outcome EXCEPT ![r] = IF @ = None THEN Failed ELSE @]
    /\ UNCHANGED <<inflight, permitVars, began, req, flight, leadVars, got, upstream, fileVars,
                   scanVars, cut>>

\* Mutant: the guard's task gives the permit back a second time.
MutGuardReturnsPermit(r) ==
    /\ guard[r] = "finish"
    /\ guard' = [guard EXCEPT ![r] = "off"]
    /\ inflight' = [inflight EXCEPT ![KeyOf[r]] = None]
    /\ free' = free + 1
    /\ UNCHANGED <<artifacts, outcome, began, req, flight, leadVars, got, upstream, fileVars,
                   scanVars, cut>>

GuardFinishes(r) ==
    /\ guard[r] = "finish"
    /\ guard' = [guard EXCEPT ![r] = "off"]
    /\ inflight' = [inflight EXCEPT ![KeyOf[r]] = None]
    /\ UNCHANGED <<permitVars, outcome, began, req, flight, leadVars, got, upstream, fileVars,
                   scanVars, cut>>

\* The task of MetadataTempCleanup: remove_file, whether or not it is there.
RemoveTemp(r) ==
    /\ r \in tempGuard
    /\ tempGuard' = tempGuard \ {r}
    /\ temps' = temps \ {r}
    /\ UNCHANGED <<flightVars, req, flight, leadVars, got, guard, upstream, disk, late,
                   scanVars, cut>>

\* The blocking pool gets to an operation whose request is gone.
LateCreate(r) ==
    /\ late[r] = "create"
    /\ late' = [late EXCEPT ![r] = "no"]
    /\ temps' = temps \cup {r}
    /\ UNCHANGED <<flightVars, req, flight, leadVars, got, guard, upstream, disk, tempGuard,
                   scanVars, cut>>

LateRename(r) ==
    /\ late[r] = "rename"
    /\ late' = [late EXCEPT ![r] = "no"]
    /\ \/ r \in temps /\ disk' = [disk EXCEPT ![KeyOf[r]] = result[r]]
       \/ r \notin temps /\ UNCHANGED disk
    /\ temps' = temps \ {r}
    /\ UNCHANGED <<flightVars, req, flight, leadVars, got, guard, upstream, tempGuard,
                   scanVars, cut>>

-------------------------------------------------------------------------------
\* The registry publishes a new version of the document.
UpstreamChanges(k) ==
    /\ upstream[k] < MaxVersion[k]
    /\ upstream' = [upstream EXCEPT ![k] = @ + 1]
    /\ UNCHANGED <<flightVars, req, flight, leadVars, got, guard, fileVars, scanVars, cut>>

\* The semaphore is shared with the artifact path (module ArtifactCache): a fetch
\* there takes a permit if there is one, and gives it back when it is through.
ArtifactBegins ==
    /\ free > 0 /\ artifacts < MaxArtifactFetches
    /\ free' = free - 1
    /\ artifacts' = artifacts + 1
    /\ UNCHANGED <<inflight, outcome, began, req, flight, leadVars, got, guard, upstream,
                   fileVars, scanVars, cut>>

ArtifactEnds ==
    /\ artifacts > 0
    /\ free' = free + 1
    /\ artifacts' = artifacts - 1
    /\ UNCHANGED <<inflight, outcome, began, req, flight, leadVars, got, guard, upstream,
                   fileVars, scanVars, cut>>

Quiet ==
    /\ \A r \in Reqs : /\ req[r] \in Ended
                       /\ guard[r] = "off"
                       /\ late[r] = "no"
    /\ tempGuard = {}

Settled == Quiet /\ UNCHANGED vars

LeadStep(r) ==
    \/ Load(r) \/ NotModified(r) \/ Fresh(r) \/ FetchFails(r)
    \/ CreateTemp(r) \/ AcquireLock(r) \/ Rename(r) \/ ListEntries(r)
    \/ (\E k \in Keys : RemoveEntry(r, k)) \/ ScanEnds(r)
    \/ Signal(r) \/ Finish(r)

GuardStep(r) == GuardFails(r) \/ GuardFinishes(r)
TempStep(r) == RemoveTemp(r)
PoolStep(r) == LateCreate(r) \/ LateRename(r)

Next ==
    \/ \E r \in Reqs : \/ Join(r) \/ Refuse(r) \/ Lead(r) \/ Answer(r)
                       \/ LeadStep(r) \/ StoreFails(r) \/ ListFails(r)
                       \/ (\E k \in Keys : RemoveFails(r, k))
                       \/ FollowerLeaves(r) \/ LeaderLeaves(r)
                       \/ GuardStep(r) \/ TempStep(r) \/ PoolStep(r)
    \/ \E k \in Keys : UpstreamChanges(k)
    \/ ArtifactBegins \/ ArtifactEnds
    \/ Settled

\* The runtime polls every ready task and the package client's total timeout
\* ends every upstream exchange.  Nothing forces a file operation to fail, a
\* client to come or to leave.
Fairness ==
    \A r \in Reqs : /\ WF_vars(Answer(r))
                    /\ WF_vars(LeadStep(r))
                    /\ WF_vars(GuardStep(r))
                    /\ WF_vars(TempStep(r))
                    /\ WF_vars(PoolStep(r))

SafeSpec == Init /\ [][Next]_vars
Spec == SafeSpec /\ Fairness

-------------------------------------------------------------------------------
(* Properties.                                                             *)

\* Revalidation: whatever the cache held, whoever was cancelled and in whatever
\* order entries were stored, a body answered to a client is at least as new as
\* what upstream served when the flight that produced it began.
Freshness ==
    \A r \in Reqs :
        got[r] \in Nat =>
            LET f == IF flight[r] = None THEN r ELSE flight[r]
            IN  began[f] \in Nat /\ got[r] >= began[f]

\* Single flight: a leader at work, or its guard, is what the map holds for the
\* key, and the map holds nothing that nobody will remove.
SingleFlight ==
    /\ \A r \in Reqs :
          req[r] \in Leading \/ guard[r] # "off" => inflight[KeyOf[r]] = r
    /\ \A k \in Keys, r \in Reqs :
          inflight[k] = r => KeyOf[r] = k /\ (req[r] \in Leading \/ guard[r] # "off")

\* upstream_semaphore: every permit is free, with an artifact fetch or held by a
\* leader at work, so permits neither leak nor multiply over errors and
\* cancellations.
PermitAccounting ==
    free + artifacts + Cardinality({r \in Reqs : req[r] \in Leading})
        = MaxUpstreamFetches

\* What store_metadata leaves when everything has come to rest: a temporary file
\* only of a store that was cancelled, and a cache over its bound only if some
\* store did not get to its end.
LeftoversOnlyWhenCut ==
    Quiet => /\ temps \subseteq cut
             /\ cut = {} => Bytes(Stored) <= MaxCacheSize

\* Every request that joined or leads ends, also when the leader is cancelled.
EveryRequestEnds ==
    \A r \in Reqs : (req[r] \in {"wait"} \cup Leading) ~> (req[r] \in Ended)

-------------------------------------------------------------------------------
(* What the documentation says, and the code does not keep.                *)

\* docs/specs/requirements.md: "Bound disk use with VAMPIRE_MAX_CACHE_SIZE_MB":
\* the bound holds whenever nothing is under way.
BoundWhenQuiet == Quiet => Bytes(Stored) <= MaxCacheSize
===============================================================================

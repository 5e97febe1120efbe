---------------------------- MODULE ArtifactCache ----------------------------
(***************************************************************************)
(* The artifact path of vampire: requests for immutable artifacts, the     *)
(* single-flight map, the detached fetch tasks, the files of the cache     *)
(* directory, the publication pins and the eviction janitor                *)
(* (src/src/cache.rs, src/src/proxy.rs).                                   *)
(*                                                                         *)
(* A step is what one task does between two awaits, or one file operation. *)
(* A request leads at most one flight, so a flight, its Arc<Inflight>, its *)
(* fetch task and the inode it writes all carry the name of the request    *)
(* that leads it.  How a waiter of a flight is woken is module Inflight's  *)
(* subject; here the outcome of a flight is simply there or not.           *)
(***************************************************************************)
EXTENDS Integers, FiniteSets, Functions

CONSTANTS Keys,               \* cache keys (artifact_key of an upstream URL)
          Reqs,               \* artifact GET requests
          KeyOf,              \* KeyOf[r]: the key request r asks for
          Size,               \* Size[k]: the length of the entry of key k
          MaxCacheSize,       \* VAMPIRE_MAX_CACHE_SIZE_MB, in the unit of Size
          MaxUpstreamFetches, \* VAMPIRE_MAX_UPSTREAM_FETCHES
          IOFaults,           \* the file operations that may fail on their own
          Abortable,          \* flights whose fetch future may be dropped early
          MetadataBytes,      \* what the metadata entries in the directory may add up to
          MaxCrashes,         \* bound on the number of crashes
          MaxStores,          \* bound on the number of inline scans
          Old,                \* the inode of an entry left by an earlier run
          None

ASSUME ConstantsAssumption ==
    /\ IsFiniteSet(Keys)
    /\ KeyOf \in [Reqs -> Keys]
    /\ Size \in [Keys -> Nat]
    /\ MaxCacheSize \in Nat
    /\ MaxUpstreamFetches \in Nat
    /\ IOFaults \subseteq {"read", "write", "list", "remove"}
    /\ Abortable \subseteq Reqs
    /\ MetadataBytes \subseteq Nat /\ MetadataBytes # {}
    /\ MaxCrashes \in Nat
    /\ MaxStores \in Nat
    /\ Old \notin Reqs
    /\ None \notin Reqs \cup {Old} \cup Keys \cup {"cached", "response", "failed"}

VARIABLES
    \* CacheStore in memory.
    inflight,   \* inflight[k]: the flight registered for k, or None
    free,       \* permits left in upstream_semaphore
    pins,       \* pins[k]: the flight whose publication pin guards k, or None
    queue,      \* is a request waiting in the capacity-one eviction channel?
    \* Requests and fetch tasks.
    req,        \* req[r]: where handle_artifact of r stands, or how it ended
    flight,     \* flight[r]: the Arc<Inflight> r holds, or None
    task,       \* task[f]: where the fetch task of flight f stands
    outcome,    \* outcome[f]: the outcome in the Inflight of f, or None
    \* The cache directory.
    temp,       \* temp[k]: the inode at <key>.part, or None
    disk,       \* disk[k]: the inode at <key>, or None
    footer,     \* footer[i]: has inode i its metadata length at the end?
    \* A run of evict_files_to_bound.
    scan,       \* "idle", "list", "evict" or "remove"
    unseen,     \* directory entries not read yet
    left,       \* entries listed and not yet considered
    total,      \* the running total
    victim,     \* the entry whose pin was checked and whose file is removed next
    \* The scans of store_metadata.
    inline,     \* is the scan that is running one of store_metadata?
    stores,     \* such scans so far
    stray,      \* stray[k]: removals of k's file a cut scan left with the pool
    strayed,    \* history: keys that lost a published file to such a removal
    \* The process.
    phase,      \* "serving", or the steps of CacheStore::new after a crash
    crashes,    \* crashes so far
    \* History, for the properties only.
    redundant   \* flights begun while the key already had a published file

cacheVars == <<inflight, free>>
pinVars == <<pins, queue>>
reqVars == <<req, flight>>
fileVars == <<temp, disk, footer>>
inlineVars == <<inline, stores, stray, strayed>>
scanVars == <<scan, unseen, left, total, victim, inlineVars>>
lifeVars == <<phase, crashes>>
vars == <<cacheVars, pinVars, reqVars, task, outcome, fileVars, scanVars,
          lifeVars, redundant>>

Inodes == Reqs \cup {Old}

-------------------------------------------------------------------------------
(* Where a request and a fetch task can stand.                             *)

Waiting == {"wait", "open"}                    \* holds the Arc of a flight
Running == {"load", "recheck"} \cup Waiting
Ended == {"served", "busy", "error", "missing", "torn", "gone"}

\* do_artifact_fetch, the stages in which <key>.part may exist.
Fetching == {"get", "stream", "append", "publish"}
\* run_artifact_fetch about to complete the Inflight; the name is the outcome.
Signalling == {"cached", "response", "failed"}
\* The fetch future exists and holds the leader's permit.
Permitted == Fetching \cup {"discard", "finish", "drop"} \cup Signalling
\* The task spawned by the drop of an armed ArtifactFetchCleanup.
Cleaning == {"cleanTemp", "cleanFail", "cleanFinish"}
\* The flight is in the map from Lead until finish_inflight.
Registered == (Permitted \ {"drop"}) \cup Cleaning

TypeOK ==
    /\ inflight \in [Keys -> Reqs \cup {None}]
    /\ free \in 0 .. MaxUpstreamFetches
    /\ pins \in [Keys -> Reqs \cup {None}]
    /\ queue \in BOOLEAN
    /\ req \in [Reqs -> {"idle"} \cup Running \cup Ended]
    /\ flight \in [Reqs -> Reqs \cup {None}]
    /\ task \in [Reqs -> {"none", "done"} \cup Permitted \cup Cleaning]
    /\ outcome \in [Reqs -> Signalling \cup {None}]
    /\ temp \in [Keys -> Reqs \cup {None}]
    /\ disk \in [Keys -> Inodes \cup {None}]
    /\ footer \in [Inodes -> {"absent", "pending", "written", "lost"}]
    /\ scan \in {"idle", "list", "evict", "remove"}
    /\ unseen \subseteq Keys
    /\ left \subseteq Keys
    /\ total \in Nat
    /\ victim \in Keys \cup {None}
    /\ inline \in BOOLEAN
    /\ stores \in 0 .. MaxStores
    /\ stray \in [Keys -> Nat]
    /\ strayed \subseteq Keys
    /\ phase \in {"serving", "down", "cleanup", "evict"}
    /\ crashes \in 0 .. MaxCrashes
    /\ redundant \subseteq Reqs

-------------------------------------------------------------------------------
(* Files.                                                                  *)

\* load: the path can be opened and read_footer accepts the file.  Without its
\* last four bytes a file ends in JSON text, which no valid length looks like,
\* and load takes InvalidData for a miss.
Readable(k) == disk[k] # None /\ footer[disk[k]] = "written"

\* The bytes of all published entries.
DiskTotal == SumFunctionOnSet(Size, {k \in Keys : disk[k] # None})

-------------------------------------------------------------------------------
(* Publication pins.                                                       *)

\* Is a clone of flight f's PublishedEntry alive?  In the fetch task between
\* pin and completion, then in the outcome for as long as an Arc of the
\* Inflight is: in the map, in the task and its guard, in a waiting request.
Holds(f) ==
    \/ task[f] \in {"publish", "cached"}
    \/ /\ outcome[f] = "cached"
       /\ \/ inflight[KeyOf[f]] = f
          \/ task[f] \in {"finish", "drop"} \cup Cleaning
          \/ \E r \in Reqs : flight[r] = f

\* Mutant: the drop forgets to ask for an eviction pass.
MutDropPinsSilently ==
    /\ pins' = [k \in Keys |->
                  IF \E f \in Reqs : pins[k] = f /\ ~Holds(f)' THEN None ELSE pins[k]]
    /\ UNCHANGED queue

\* Drop for PublishedEntryInner, as part of the step that drops the last clone:
\* if the key's pin is still this entry's own, remove it and request eviction
\* with a try_send that is ignored when the channel is full.
DropPins ==
    LET dropped == {k \in Keys : \E f \in Reqs : pins[k] = f /\ ~Holds(f)'}
    IN  /\ pins' = [k \in Keys |-> IF k \in dropped THEN None ELSE pins[k]]
        /\ queue' = (queue \/ dropped # {})

-------------------------------------------------------------------------------
Init ==
    /\ inflight = [k \in Keys |-> None]
    /\ free = MaxUpstreamFetches
    /\ pins = [k \in Keys |-> None]
    /\ queue = FALSE
    /\ req = [r \in Reqs |-> "idle"]
    /\ flight = [r \in Reqs |-> None]
    /\ task = [f \in Reqs |-> "none"]
    /\ outcome = [f \in Reqs |-> None]
    /\ temp = [k \in Keys |-> None]
    /\ disk \in [Keys -> {Old, None}]
    /\ DiskTotal <= MaxCacheSize          \* CacheStore::new ends with a scan
    /\ footer = [i \in Inodes |-> IF i = Old THEN "written" ELSE "absent"]
    /\ scan = "idle"
    /\ unseen = {}
    /\ left = {}
    /\ total = 0
    /\ victim = None
    /\ inline = FALSE
    /\ stores = 0
    /\ stray = [k \in Keys |-> 0]
    /\ strayed = {}
    /\ phase = "serving"
    /\ crashes = 0
    /\ redundant = {}

-------------------------------------------------------------------------------
(* Requests: lookup_or_start_artifact, then serve_inflight.                *)

Join(r) ==
    /\ inflight[KeyOf[r]] # None
    /\ req' = [req EXCEPT ![r] = "wait"]
    /\ flight' = [flight EXCEPT ![r] = inflight[KeyOf[r]]]

\* The first look at the map.
Lookup(r) ==
    /\ phase = "serving"
    /\ req[r] = "idle"
    /\ \/ Join(r)
       \/ /\ inflight[KeyOf[r]] = None
          /\ req' = [req EXCEPT ![r] = "load"]
          /\ UNCHANGED flight
    /\ UNCHANGED <<cacheVars, pinVars, task, outcome, fileVars, scanVars, lifeVars,
                   redundant>>

\* load, outside the map's mutex: a hit is served from the open file.
Load(r) ==
    /\ req[r] = "load"
    /\ req' = [req EXCEPT ![r] = IF Readable(KeyOf[r]) THEN "served" ELSE "recheck"]
    /\ UNCHANGED <<cacheVars, pinVars, flight, task, outcome, fileVars, scanVars,
                   lifeVars, redundant>>

\* load or create_dir_all fails with another error than a miss.
LoadFails(r) ==
    /\ "read" \in IOFaults
    /\ req[r] = "load"
    /\ req' = [req EXCEPT ![r] = "error"]
    /\ UNCHANGED <<cacheVars, pinVars, flight, task, outcome, fileVars, scanVars,
                   lifeVars, redundant>>

\* The second look at the map finds a flight that began meanwhile.
JoinLate(r) ==
    /\ req[r] = "recheck"
    /\ Join(r)
    /\ UNCHANGED <<cacheVars, pinVars, task, outcome, fileVars, scanVars, lifeVars,
                   redundant>>

\* No permit: WouldBlock, answered with 503.
Refuse(r) ==
    /\ req[r] = "recheck"
    /\ inflight[KeyOf[r]] = None
    /\ free = 0
    /\ req' = [req EXCEPT ![r] = "busy"]
    /\ UNCHANGED <<cacheVars, pinVars, flight, task, outcome, fileVars, scanVars,
                   lifeVars, redundant>>

\* Take the lead: permit, map entry and spawned fetch task, without an await.
StartFlight(r) ==
    /\ free > 0
    /\ free' = free - 1
    /\ inflight' = [inflight EXCEPT ![KeyOf[r]] = r]
    /\ task' = [task EXCEPT ![r] = "get"]
    /\ req' = [req EXCEPT ![r] = "wait"]
    /\ flight' = [flight EXCEPT ![r] = r]
    /\ redundant' = IF disk[KeyOf[r]] # None THEN redundant \cup {r} ELSE redundant
    /\ UNCHANGED <<pinVars, outcome, fileVars, scanVars, lifeVars>>

\* Mutant: the map is not looked at again after the load.
MutLeadUnchecked(r) ==
    /\ req[r] = "recheck"
    /\ StartFlight(r)

Lead(r) ==
    /\ req[r] = "recheck"
    /\ inflight[KeyOf[r]] = None
    /\ StartFlight(r)

\* wait_for_outcome returns; only a Cached outcome sends the request to the file.
Wake(r) ==
    /\ req[r] = "wait"
    /\ outcome[flight[r]] # None
    /\ \/ /\ outcome[flight[r]] = "cached"
          /\ req' = [req EXCEPT ![r] = "open"]
          /\ UNCHANGED flight
       \/ /\ outcome[flight[r]] # "cached"
          /\ req' = [req EXCEPT ![r] = IF outcome[flight[r]] = "response"
                                         THEN "served" ELSE "error"]
          /\ flight' = [flight EXCEPT ![r] = None]
    /\ UNCHANGED <<cacheVars, task, outcome, fileVars, scanVars, lifeVars, redundant>>
    /\ DropPins

\* The waiter opens its own handle; what it can find at the path is the entry,
\* nothing ("artifact missing after inflight completion") or a file whose footer
\* cannot be read, which load also reports as nothing.
Open(r) ==
    /\ req[r] = "open"
    /\ req' = [req EXCEPT ![r] =
                 CASE Readable(KeyOf[r]) -> "served"
                   [] disk[KeyOf[r]] = None -> "missing"
                   [] OTHER -> "torn"]
    /\ flight' = [flight EXCEPT ![r] = None]
    /\ UNCHANGED <<cacheVars, task, outcome, fileVars, scanVars, lifeVars, redundant>>
    /\ DropPins

OpenFails(r) ==
    /\ "read" \in IOFaults
    /\ req[r] = "open"
    /\ req' = [req EXCEPT ![r] = "error"]
    /\ flight' = [flight EXCEPT ![r] = None]
    /\ UNCHANGED <<cacheVars, task, outcome, fileVars, scanVars, lifeVars, redundant>>
    /\ DropPins

\* The client disconnects and the handler is dropped at an await.  A fetch task
\* it has spawned goes on.
Disconnect(r) ==
    /\ req[r] \in Running
    /\ req' = [req EXCEPT ![r] = "gone"]
    /\ flight' = [flight EXCEPT ![r] = None]
    /\ UNCHANGED <<cacheVars, task, outcome, fileVars, scanVars, lifeVars, redundant>>
    /\ DropPins

-------------------------------------------------------------------------------
(* The fetch task: run_artifact_fetch, do_artifact_fetch, commit_artifact. *)

\* Upstream answers 200 and <key>.part is created, or truncated if it is there.
FetchOk(f) ==
    /\ task[f] = "get"
    /\ task' = [task EXCEPT ![f] = "stream"]
    /\ temp' = [temp EXCEPT ![KeyOf[f]] = f]
    /\ UNCHANGED <<cacheVars, pinVars, reqVars, outcome, disk, footer, scanVars,
                   lifeVars, redundant>>

\* Upstream answers something else, with a body of at most 1 MiB.
FetchNotOk(f) ==
    /\ task[f] = "get"
    /\ task' = [task EXCEPT ![f] = "response"]
    /\ UNCHANGED <<cacheVars, pinVars, reqVars, outcome, fileVars, scanVars,
                   lifeVars, redundant>>

\* The body is written and flushed.
StreamEnds(f) ==
    /\ task[f] = "stream"
    /\ task' = [task EXCEPT ![f] = "append"]
    /\ UNCHANGED <<cacheVars, pinVars, reqVars, outcome, fileVars, scanVars,
                   lifeVars, redundant>>

\* commit_artifact appends metadata and length.  write_all hands the last bytes
\* to the blocking pool and the file is dropped without a flush, so this write
\* is still pending.  Then the entry is pinned, whatever pin the key had.
Append(f) ==
    /\ task[f] = "append"
    /\ task' = [task EXCEPT ![f] = "publish"]
    /\ footer' = [footer EXCEPT ![f] = "pending"]
    /\ pins' = [pins EXCEPT ![KeyOf[f]] = f]
    /\ UNCHANGED <<cacheVars, queue, reqVars, outcome, temp, disk, scanVars,
                   lifeVars, redundant>>

\* rename moves <key>.part over <key>.
Publish(f) ==
    /\ task[f] = "publish"
    /\ task' = [task EXCEPT ![f] = "cached"]
    /\ disk' = [disk EXCEPT ![KeyOf[f]] = f]
    /\ temp' = [temp EXCEPT ![KeyOf[f]] = None]
    /\ UNCHANGED <<cacheVars, pinVars, reqVars, outcome, footer, scanVars,
                   lifeVars, redundant>>

\* Mutant: a failed stage leaves its temporary file behind.
MutFetchFailsUntidily(f) ==
    /\ task[f] \in Fetching
    /\ task' = [task EXCEPT ![f] = "failed"]
    /\ UNCHANGED <<cacheVars, reqVars, outcome, fileVars, scanVars, lifeVars, redundant>>
    /\ DropPins

\* Any stage can fail: connection, timeout, an oversized error body, a file
\* operation.  A failed rename drops the PublishedEntry.
FetchFails(f) ==
    /\ task[f] \in Fetching
    /\ task' = [task EXCEPT ![f] = "discard"]
    /\ UNCHANGED <<cacheVars, reqVars, outcome, fileVars, scanVars, lifeVars, redundant>>
    /\ DropPins

\* The error path removes <key>.part before it reports the failure.
Discard(f) ==
    /\ task[f] = "discard"
    /\ task' = [task EXCEPT ![f] = "failed"]
    /\ temp' = [temp EXCEPT ![KeyOf[f]] = None]
    /\ UNCHANGED <<cacheVars, pinVars, reqVars, outcome, disk, footer, scanVars,
                   lifeVars, redundant>>

\* finish_cached, finish_response or fail: the first outcome stays.
Signal(f) ==
    /\ task[f] \in Signalling
    /\ task' = [task EXCEPT ![f] = "finish"]
    /\ outcome' = [outcome EXCEPT ![f] = IF @ = None THEN task[f] ELSE @]
    /\ UNCHANGED <<cacheVars, reqVars, fileVars, scanVars, lifeVars, redundant>>
    /\ DropPins

\* finish_inflight removes whatever the map holds for the key.
Finish(f) ==
    /\ task[f] = "finish"
    /\ task' = [task EXCEPT ![f] = "drop"]
    /\ inflight' = [inflight EXCEPT ![KeyOf[f]] = None]
    /\ UNCHANGED <<free, pinVars, reqVars, outcome, fileVars, scanVars, lifeVars,
                   redundant>>

\* The guard is disarmed and the leader dropped: the permit goes back and with
\* the leader's Arc perhaps the last PublishedEntry.
DropLeader(f) ==
    /\ task[f] = "drop"
    /\ task' = [task EXCEPT ![f] = "done"]
    /\ free' = free + 1
    /\ UNCHANGED <<inflight, reqVars, outcome, fileVars, scanVars, lifeVars, redundant>>
    /\ DropPins

-------------------------------------------------------------------------------
(* The fetch future dropped at an await, and the task its guard spawns.    *)

\* Mutant: the permit is not part of what the dropped future owns.
MutAbortKeepsPermit(f) ==
    /\ f \in Abortable
    /\ task[f] \in Permitted \ {"drop"}
    /\ task' = [task EXCEPT ![f] = "cleanTemp"]
    /\ UNCHANGED <<cacheVars, reqVars, outcome, fileVars, scanVars, lifeVars, redundant>>
    /\ DropPins

\* What the future had handed to the blocking pool is taken as done or not begun:
\* a create or a rename of <key>.part that lands after CleanTemp is left out.
Abort(f) ==
    /\ f \in Abortable
    /\ task[f] \in Permitted \ {"drop"}
    /\ task' = [task EXCEPT ![f] = "cleanTemp"]
    /\ free' = free + 1
    /\ UNCHANGED <<inflight, reqVars, outcome, fileVars, scanVars, lifeVars, redundant>>
    /\ DropPins

CleanTemp(f) ==
    /\ task[f] = "cleanTemp"
    /\ task' = [task EXCEPT ![f] = "cleanFail"]
    /\ temp' = [temp EXCEPT ![KeyOf[f]] = None]
    /\ UNCHANGED <<cacheVars, pinVars, reqVars, outcome, disk, footer, scanVars,
                   lifeVars, redundant>>

\* Mutant: the guard's task only cleans the map.
MutCleanWithoutFail(f) ==
    /\ task[f] = "cleanFail"
    /\ task' = [task EXCEPT ![f] = "cleanFinish"]
    /\ UNCHANGED <<cacheVars, pinVars, reqVars, outcome, fileVars, scanVars, lifeVars,
                   redundant>>

CleanFail(f) ==
    /\ task[f] = "cleanFail"
    /\ task' = [task EXCEPT ![f] = "cleanFinish"]
    /\ outcome' = [outcome EXCEPT ![f] = IF @ = None THEN "failed" ELSE @]
    /\ UNCHANGED <<cacheVars, pinVars, reqVars, fileVars, scanVars, lifeVars, redundant>>

\* Mutant: the guard's task gives the permit back a second time.
MutCleanReturnsPermit(f) ==
    /\ task[f] = "cleanFinish"
    /\ task' = [task EXCEPT ![f] = "done"]
    /\ free' = free + 1
    /\ inflight' = [inflight EXCEPT ![KeyOf[f]] = None]
    /\ UNCHANGED <<reqVars, outcome, fileVars, scanVars, lifeVars, redundant>>
    /\ DropPins

CleanFinish(f) ==
    /\ task[f] = "cleanFinish"
    /\ task' = [task EXCEPT ![f] = "done"]
    /\ inflight' = [inflight EXCEPT ![KeyOf[f]] = None]
    /\ UNCHANGED <<free, reqVars, outcome, fileVars, scanVars, lifeVars, redundant>>
    /\ DropPins

-------------------------------------------------------------------------------
(* The last write of commit_artifact, on the blocking pool.                *)

FooterLands(f) ==
    /\ footer[f] = "pending"
    /\ footer' = [footer EXCEPT ![f] = "written"]
    /\ UNCHANGED <<cacheVars, pinVars, reqVars, task, outcome, temp, disk, scanVars,
                   lifeVars, redundant>>

\* The write fails (disk full); its error goes to a file handle that is gone.
FooterFails(f) ==
    /\ "write" \in IOFaults
    /\ footer[f] = "pending"
    /\ footer' = [footer EXCEPT ![f] = "lost"]
    /\ UNCHANGED <<cacheVars, pinVars, reqVars, task, outcome, temp, disk, scanVars,
                   lifeVars, redundant>>

-------------------------------------------------------------------------------
(* evict_files_to_bound, under the eviction lock: run by the janitor task, at *)
(* the end of store_metadata, and at startup.                              *)

\* The entries of the metadata class are in the directory too, and count.
BeginScan ==
    /\ scan' = "list"
    /\ unseen' = Keys
    /\ left' = {}
    /\ total' \in MetadataBytes
    /\ victim' = None

\* recv, then the lock, then the queue is drained before the scan begins.
JanitorWakes ==
    /\ phase = "serving"
    /\ scan = "idle"
    /\ queue
    /\ queue' = FALSE
    /\ BeginScan
    /\ UNCHANGED <<cacheVars, pins, reqVars, task, outcome, fileVars, inlineVars, lifeVars,
                   redundant>>

\* A metadata request has renamed its entry and scans while it holds the lock.
InlineBegins ==
    /\ phase = "serving"
    /\ scan = "idle"
    /\ stores < MaxStores
    /\ stores' = stores + 1
    /\ inline' = TRUE
    /\ BeginScan
    /\ UNCHANGED <<cacheVars, pinVars, reqVars, task, outcome, fileVars, stray, strayed,
                   lifeVars, redundant>>

\* Its client disconnects: the scan is dropped at an await and the lock goes, but
\* a remove_file that the blocking pool has stays there.
InlineCut ==
    /\ inline
    /\ inline' = FALSE
    /\ scan' = "idle"
    /\ unseen' = {}
    /\ left' = {}
    /\ total' = 0
    /\ victim' = None
    /\ stray' = IF scan = "remove" THEN [stray EXCEPT ![victim] = @ + 1] ELSE stray
    /\ UNCHANGED <<cacheVars, pinVars, reqVars, task, outcome, fileVars, stores, strayed,
                   lifeVars, redundant>>

\* The pool comes to that removal: no lock, no pin is looked at any more.
LateRemoval(k) ==
    /\ stray[k] > 0
    /\ stray' = [stray EXCEPT ![k] = @ - 1]
    /\ disk' = [disk EXCEPT ![k] = None]
    /\ strayed' = IF disk[k] # None THEN strayed \cup {k} ELSE strayed
    /\ UNCHANGED <<cacheVars, pinVars, reqVars, task, outcome, temp, footer, scan, unseen,
                   left, total, victim, inline, stores, lifeVars, redundant>>

\* completed_entries_at reads one directory entry after the other.
ListEntry(k) ==
    /\ scan = "list"
    /\ k \in unseen
    /\ unseen' = unseen \ {k}
    /\ \/ /\ disk[k] # None
          /\ left' = left \cup {k}
          /\ total' = total + Size[k]
       \/ /\ disk[k] = None
          /\ UNCHANGED <<left, total>>
    /\ UNCHANGED <<cacheVars, pinVars, reqVars, task, outcome, fileVars, scan, victim,
                   inlineVars, lifeVars, redundant>>

ListEnds ==
    /\ scan = "list"
    /\ unseen = {}
    /\ scan' = "evict"
    /\ UNCHANGED <<cacheVars, pinVars, reqVars, task, outcome, fileVars, unseen, left,
                   total, victim, inlineVars, lifeVars, redundant>>

\* The cache cannot be listed.  The janitor ignores the error and waits for the
\* next request, store_metadata returns it; CacheStore::new fails, and with it
\* the start of the process.
ScanFails ==
    /\ "list" \in IOFaults
    /\ scan = "list"
    /\ scan' = "idle"
    /\ unseen' = {}
    /\ left' = {}
    /\ total' = 0
    /\ inline' = FALSE
    /\ phase' = IF phase = "evict" THEN "down" ELSE phase
    /\ UNCHANGED <<cacheVars, pinVars, reqVars, task, outcome, fileVars, victim, stores,
                   stray, strayed, crashes, redundant>>

\* Mutant: evict without looking at the pins.
MutCheckIgnoresPins(k) ==
    /\ scan = "evict"
    /\ total > MaxCacheSize
    /\ k \in left
    /\ scan' = "remove"
    /\ victim' = k
    /\ UNCHANGED <<cacheVars, pinVars, reqVars, task, outcome, fileVars, unseen, left,
                   total, inlineVars, lifeVars, redundant>>

\* is_pinned, for the next entry.  The entries come in any order, whatever
\* order their modification times give.
CheckEntry(k) ==
    /\ scan = "evict"
    /\ total > MaxCacheSize
    /\ k \in left
    /\ \/ /\ pins[k] # None
          /\ left' = left \ {k}
          /\ UNCHANGED <<scan, victim>>
       \/ /\ pins[k] = None
          /\ scan' = "remove"
          /\ victim' = k
          /\ UNCHANGED left
    /\ UNCHANGED <<cacheVars, pinVars, reqVars, task, outcome, fileVars, unseen, total,
                   inlineVars, lifeVars, redundant>>

\* remove_file, by path: it removes the file that is there by now.
RemoveEntry ==
    /\ scan = "remove"
    /\ disk' = [disk EXCEPT ![victim] = None]
    /\ total' = IF total >= Size[victim] THEN total - Size[victim] ELSE 0
    /\ left' = left \ {victim}
    /\ scan' = "evict"
    /\ victim' = None
    /\ UNCHANGED <<cacheVars, pinVars, reqVars, task, outcome, temp, footer, unseen,
                   inlineVars, lifeVars, redundant>>

\* remove_file fails with another error than NotFound: go on with the next.
RemoveFails ==
    /\ "remove" \in IOFaults
    /\ scan = "remove"
    /\ left' = left \ {victim}
    /\ scan' = "evict"
    /\ victim' = None
    /\ UNCHANGED <<cacheVars, pinVars, reqVars, task, outcome, fileVars, unseen, total,
                   inlineVars, lifeVars, redundant>>

\* Mutant: requests that arrive during the scan are taken as answered by it.
MutScanEndsDrained ==
    /\ scan = "evict"
    /\ total <= MaxCacheSize \/ left = {}
    /\ scan' = "idle"
    /\ left' = {}
    /\ total' = 0
    /\ inline' = FALSE
    /\ phase' = "serving"
    /\ queue' = FALSE
    /\ UNCHANGED <<cacheVars, pins, reqVars, task, outcome, fileVars, unseen, victim,
                   stores, stray, strayed, crashes, redundant>>

\* The scan that ends CacheStore::new opens the service.
ScanEnds ==
    /\ scan = "evict"
    /\ total <= MaxCacheSize \/ left = {}
    /\ scan' = "idle"
    /\ left' = {}
    /\ total' = 0
    /\ inline' = FALSE
    /\ phase' = "serving"
    /\ UNCHANGED <<cacheVars, pinVars, reqVars, task, outcome, fileVars, unseen, victim,
                   stores, stray, strayed, crashes, redundant>>

-------------------------------------------------------------------------------
(* Crash and restart: cleanup_stale_and_legacy, then evict_to_bound.       *)

\* Memory is gone, files stay, and a write that had not landed never does.
Crash ==
    /\ phase # "down"
    /\ crashes < MaxCrashes
    /\ crashes' = crashes + 1
    /\ phase' = "down"
    /\ inflight' = [k \in Keys |-> None]
    /\ free' = MaxUpstreamFetches
    /\ pins' = [k \in Keys |-> None]
    /\ queue' = FALSE
    /\ req' = [r \in Reqs |-> IF req[r] \in Running THEN "gone" ELSE req[r]]
    /\ flight' = [r \in Reqs |-> None]
    /\ task' = [f \in Reqs |-> IF task[f] = "none" THEN "none" ELSE "done"]
    /\ footer' = [i \in Inodes |-> IF footer[i] = "pending" THEN "lost" ELSE footer[i]]
    /\ scan' = "idle"
    /\ unseen' = {}
    /\ left' = {}
    /\ total' = 0
    /\ victim' = None
    /\ inline' = FALSE
    /\ stray' = [k \in Keys |-> 0]
    /\ UNCHANGED <<outcome, temp, disk, stores, strayed, redundant>>

Restart ==
    /\ phase = "down"
    /\ phase' = "cleanup"
    /\ UNCHANGED <<cacheVars, pinVars, reqVars, task, outcome, fileVars, scanVars,
                   crashes, redundant>>

RemoveStale(k) ==
    /\ phase = "cleanup"
    /\ temp[k] # None
    /\ temp' = [temp EXCEPT ![k] = None]
    /\ UNCHANGED <<cacheVars, pinVars, reqVars, task, outcome, disk, footer, scanVars,
                   lifeVars, redundant>>

CleanupEnds ==
    /\ phase = "cleanup"
    /\ \A k \in Keys : temp[k] = None
    /\ phase' = "evict"
    /\ BeginScan
    /\ UNCHANGED <<cacheVars, pinVars, reqVars, task, outcome, fileVars, inlineVars, crashes,
                   redundant>>

-------------------------------------------------------------------------------
ReqStep(r) == Load(r) \/ JoinLate(r) \/ Refuse(r) \/ Lead(r) \/ Wake(r) \/ Open(r)

FetchStep(f) ==
    \/ FetchOk(f) \/ FetchNotOk(f) \/ StreamEnds(f) \/ Append(f) \/ Publish(f)
    \/ FetchFails(f) \/ Discard(f) \/ Signal(f) \/ Finish(f) \/ DropLeader(f)

CleanStep(f) == CleanTemp(f) \/ CleanFail(f) \/ CleanFinish(f)

ScanStep ==
    \/ JanitorWakes \/ ListEnds \/ RemoveEntry \/ RemoveFails \/ ScanEnds
    \/ \E k \in Keys : ListEntry(k) \/ CheckEntry(k)

StartupStep == Restart \/ CleanupEnds \/ \E k \in Keys : RemoveStale(k)

\* Every request has been answered and nothing runs.
Settled ==
    /\ phase = "serving"
    /\ \A r \in Reqs : /\ req[r] \in Ended
                       /\ task[r] \in {"none", "done"}
                       /\ footer[r] # "pending"
    /\ scan = "idle"
    /\ ~queue
    /\ \A k \in Keys : stray[k] = 0
    /\ UNCHANGED vars

Next ==
    \/ \E r \in Reqs : \/ Lookup(r) \/ LoadFails(r) \/ OpenFails(r) \/ Disconnect(r)
                       \/ ReqStep(r)
                       \/ FetchStep(r) \/ Abort(r) \/ CleanStep(r)
                       \/ FooterLands(r) \/ FooterFails(r)
    \/ ScanStep \/ ScanFails
    \/ InlineBegins \/ InlineCut \/ \E k \in Keys : LateRemoval(k)
    \/ Crash
    \/ StartupStep
    \/ Settled

\* The runtime polls every ready task; the package client's total timeout ends
\* every GET and every stream; the blocking pool runs what it was handed.
\* Clients need not come or leave, and nothing forces a fault, abort or crash.
Fairness ==
    /\ \A r \in Reqs : /\ WF_vars(ReqStep(r))
                       /\ WF_vars(FetchStep(r))
                       /\ WF_vars(CleanStep(r))
                       /\ WF_vars(FooterLands(r))
    /\ WF_vars(ScanStep)
    /\ \A k \in Keys : WF_vars(LateRemoval(k))
    /\ WF_vars(StartupStep)

SafeSpec == Init /\ [][Next]_vars
Spec == SafeSpec /\ Fairness

-------------------------------------------------------------------------------
(* Safety.                                                                 *)

\* Single flight: a fetch that is under way, or being cleaned up, is the one
\* registered for its key, so no two fetches of a key run at once; and every
\* registered flight has a task that will remove it, so no key is blocked.
SingleFlight ==
    /\ \A f \in Reqs : task[f] \in Registered => inflight[KeyOf[f]] = f
    /\ \A k \in Keys, f \in Reqs :
          inflight[k] = f => KeyOf[f] = k /\ task[f] \in Registered

\* <key>.part has one name for all flights of a key.  While the proxy serves,
\* such a file belongs to the registered flight and that flight's task is going
\* to rename or remove it: no error path, abort or crash leaves one behind.
TempOwned ==
    phase = "serving" =>
        \A k \in Keys, f \in Reqs :
            temp[k] = f =>
                /\ inflight[k] = f
                /\ task[f] \in {"stream", "append", "publish", "discard", "cleanTemp"}

\* upstream_semaphore: every permit is either free or held by a running fetch,
\* so permits neither leak nor multiply over errors, aborts and crashes.
PermitAccounting ==
    free + Cardinality({f \in Reqs : task[f] \in Permitted}) = MaxUpstreamFetches

\* The publication pin does its job: a request that waited for a flight finds
\* the entry gone only if some flight of that key had been started although a
\* published file was already there, or if a removal that outlived its inline
\* scan took a published file of that key.  Scans that keep the lock, whoever
\* runs them, never take an entry from its waiters.
PinnedHandoff ==
    \A r \in Reqs :
        req[r] = "missing" =>
            KeyOf[r] \in strayed \/ \E f \in redundant : KeyOf[f] = KeyOf[r]

\* Eviction requests are not lost in the capacity-one channel: once no flight
\* runs, nobody waits and the janitor has nothing to do, the bound holds.
BoundWhenQuiet ==
    /\ phase = "serving"
    /\ scan = "idle"
    /\ ~queue
    /\ \A r \in Reqs : task[r] \in {"none", "done"} /\ req[r] \notin Waiting
    => DiskTotal <= MaxCacheSize

-------------------------------------------------------------------------------
(* Liveness.                                                               *)

\* Every request that got past the map ends, however its flight ends.
EveryRequestEnds == \A r \in Reqs : (req[r] \in Running) ~> (req[r] \in Ended)

\* Overshoot of the disk bound is temporary.
BoundRestored == (DiskTotal > MaxCacheSize) ~> (DiskTotal <= MaxCacheSize)

-------------------------------------------------------------------------------
(* What the documentation says, and the code does not keep.                *)

\* docs/specs/requirements.md: "A freshly published entry is pinned through
\* response handoff and skipped by eviction until all waiters have opened it."
PinnedThroughHandoff == \A r \in Reqs : req[r] # "missing"
===============================================================================

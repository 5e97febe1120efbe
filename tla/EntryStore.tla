------------------------------ MODULE EntryStore ------------------------------
(***************************************************************************)
(* The files of the cache (src/src/cache.rs) under everybody who works on  *)
(* them at the same time: commit_artifact and store_metadata publish       *)
(* entries, load reads them, and evict_files_to_bound removes them, for    *)
(* the janitor and inline for a metadata store.  ArtifactCache and         *)
(* MetadataCache have the flights behind these steps; here one directory,  *)
(* one lock and one queue serve both, files have bytes, sizes and          *)
(* modification times, and a reader goes through them step by step.        *)
(*                                                                         *)
(* A writer writes one file, which is named by it and stays the same file  *)
(* when it is renamed, replaced or removed while a reader has it open.     *)
(***************************************************************************)
EXTENDS EntryFormat, FiniteSets, Functions

CONSTANTS Keys,          \* cache keys
          Writers,       \* commits and stores, each of one file
          KeyOf,         \* KeyOf[w]: the key it publishes
          Kind,          \* Kind[w]: "artifact" or "metadata"
          Body, Meta,    \* Body[w], Meta[w]: what it writes
          Old,           \* the writers of an earlier run: their files are there
          Torn,          \* those it crashed on between rename and last write
          OldTimes,      \* the possible mtime; their clock may have been ahead
          Readers,       \* calls of load
          MaxCacheSize,  \* bytes
          DiskFails,     \* whether writes, listings and removals may fail
          None, Janitor

\* CacheEntry: what a scan knows of an entry.
Listed == [key : Keys, file : Writers, modified : Nat, size : Nat]

ASSUME ConstantsAssumption ==
    /\ IsFiniteSet(Keys)
    /\ KeyOf \in [Writers -> Keys]
    /\ Kind \in [Writers -> {"artifact", "metadata"}]
    /\ Body \in [Writers -> Seq(Byte)]
    /\ Meta \in [Writers -> Metas]
    /\ Old \subseteq Writers
    /\ Torn \subseteq {w \in Old : Kind[w] = "artifact"}
    /\ \A v, w \in Old : KeyOf[v] = KeyOf[w] => v = w
    /\ OldTimes \subseteq [Writers -> Nat]
    /\ MaxCacheSize \in Nat
    /\ DiskFails \in BOOLEAN
    /\ None \notin Writers \cup Listed /\ Janitor \notin Writers \cup {None}

VARIABLES
    disk,     \* disk[k]: the file at the path of k, or None
    file,     \* file[w]: the bytes of w's file
    mtime,    \* mtime[w]: when it was last written
    clock,    \* the time of the file system
    late,     \* the files whose last write is still with the blocking pool
    stray,    \* the keys whose removal is, for a scan that was cut short
    pc,       \* pc[w]: where writer w stands
    pins,     \* pins[k]: the publication that pins k, or None
    queue,    \* eviction requests in the channel, 0 or 1
    janitor,  \* "idle", "lock" or "scan"
    lock,     \* who holds eviction_lock: a writer, Janitor or None
    unlisted, \* the keys the scan has not come to
    left,     \* the entries it has listed and not examined
    total,    \* its running total
    victim,   \* the entry it is about to remove, or None
    spared,   \* the entries it passed over
    reader,   \* reader[r]: where reader r stands
    handle,   \* handle[r]: the file it has open, or None
    asked,    \* asked[r]: the key it was called for, or None
    seen,     \* seen[r]: the size, then what a valid footer says, then the result
    cut,      \* history: stores cut short, failures, files listed without their length
    raced     \* history: an artifact was published or finished during this scan

fileVars == <<disk, file, mtime, clock, late>>
scanVars == <<unlisted, left, total, victim, spared, raced>>
readVars == <<reader, handle, asked, seen>>
vars == <<fileVars, stray, pc, pins, queue, janitor, lock, scanVars, readVars, cut>>

TypeOK ==
    /\ disk \in [Keys -> Writers \cup {None}]
    /\ file \in [Writers -> Seq(Byte)]
    /\ mtime \in [Writers -> Nat] /\ clock \in Nat
    /\ late \subseteq Writers /\ stray \subseteq Keys
    /\ pc \in [Writers -> {"idle", "rename", "pinned", "lock", "renaming", "scan", "done", "cut"}]
    /\ pins \in [Keys -> Writers \cup {None}]
    /\ queue \in 0 .. 1
    /\ janitor \in {"idle", "lock", "scan"}
    /\ lock \in Writers \cup {None, Janitor}
    /\ unlisted \subseteq Keys
    /\ left \subseteq Listed /\ spared \subseteq Listed
    /\ victim \in Listed \cup {None}
    /\ total \in Nat
    /\ reader \in [Readers -> {"idle", "size", "footer", "body", "hit", "missing"}]
    /\ handle \in [Readers -> Writers \cup {None}]
    /\ asked \in [Readers -> Keys \cup {None}]
    /\ cut \subseteq Writers \cup {Janitor}
    /\ raced \in BOOLEAN

Init ==
    /\ disk = [k \in Keys |-> IF \E w \in Old : KeyOf[w] = k
                                THEN CHOOSE w \in Old : KeyOf[w] = k ELSE None]
    /\ file = [w \in Writers |-> CASE w \in Torn -> Unfinished(Body[w], Meta[w])
                               [] w \in Old \ Torn -> Pack(Body[w], Meta[w])
                               [] OTHER -> <<>>]
    /\ mtime \in OldTimes /\ clock = 1
    /\ late = {} /\ stray = {}
    /\ pc = [w \in Writers |-> IF w \in Old THEN "done" ELSE "idle"]
    /\ pins = [k \in Keys |-> None]
    /\ queue = 0 /\ janitor = "idle" /\ lock = None
    /\ unlisted = {} /\ left = {} /\ total = 0 /\ victim = None /\ spared = {}
    /\ reader = [r \in Readers |-> "idle"]
    /\ handle = [r \in Readers |-> None]
    /\ asked = [r \in Readers |-> None]
    /\ seen = [r \in Readers |-> None]
    /\ cut = {} /\ raced = FALSE

Goto(w, s) == pc' = [pc EXCEPT ![w] = s]

\* A write stamps the file; the clock may stand still between two writes.
Write(w, bytes) ==
    /\ file' = [file EXCEPT ![w] = bytes]
    /\ clock' \in clock .. clock + 1
    /\ mtime' = [mtime EXCEPT ![w] = clock']

\* History: the holder of the lock may have listed the directory before this.
Races == /\ raced' = (lock # None)
         /\ UNCHANGED <<unlisted, left, total, victim, spared>>

\* Flights on one key follow each other; the rename of a store that was cut
\* short may come after the guard has let the next one in.
Alone(w) == \A v \in Writers \ {w} : KeyOf[v] = KeyOf[w] =>
               pc[v] \in {"idle", "pinned", "renaming", "done", "cut"}

-------------------------------------------------------------------------------
(* commit_artifact, and the life of its PublishedEntry.                    *)

\* The temporary file has body and metadata; the write of the length is handed
\* over, the file dropped without waiting for it, and the key pinned.
Commit(w) ==
    /\ Kind[w] = "artifact" /\ pc[w] = "idle" /\ Alone(w)
    /\ Write(w, Unfinished(Body[w], Meta[w]))
    /\ late' = late \cup {w}
    /\ pins' = [pins EXCEPT ![KeyOf[w]] = w]
    /\ Goto(w, "rename")
    /\ UNCHANGED <<disk, stray, queue, janitor, lock, scanVars, readVars, cut>>

LengthLands(w) ==
    /\ w \in late
    /\ late' = late \ {w}
    /\ Write(w, file[w] \o ToBe(Len(Meta[w])))
    /\ Races
    /\ UNCHANGED <<disk, stray, pc, pins, queue, janitor, lock, readVars, cut>>

LengthFails(w) ==
    /\ DiskFails
    /\ w \in late
    /\ late' = late \ {w}
    /\ UNCHANGED <<disk, stray, file, mtime, clock, pc, pins, queue, janitor, lock, scanVars,
                   readVars, cut>>

RenameArtifact(w) ==
    /\ Kind[w] = "artifact" /\ pc[w] = "rename"
    /\ disk' = [disk EXCEPT ![KeyOf[w]] = w]
    /\ Goto(w, "pinned")
    /\ Races
    /\ UNCHANGED <<file, mtime, clock, late, stray, pins, queue, janitor, lock, readVars, cut>>

\* Mutant: the janitor is not asked.
MutDropPin(w) ==
    /\ pc[w] = "pinned"
    /\ pins' = [pins EXCEPT ![KeyOf[w]] = IF @ = w THEN None ELSE @]
    /\ Goto(w, "done")
    /\ UNCHANGED <<fileVars, stray, queue, janitor, lock, scanVars, readVars, cut>>

\* The last clone of the PublishedEntry goes: its pin, if it is still the one in
\* the map, is taken out and the janitor asked to scan, unless it has been.
DropPin(w) ==
    /\ pc[w] = "pinned"
    /\ \/ /\ pins[KeyOf[w]] = w
          /\ pins' = [pins EXCEPT ![KeyOf[w]] = None]
          /\ queue' = 1
       \/ pins[KeyOf[w]] # w /\ UNCHANGED <<pins, queue>>
    /\ Goto(w, "done")
    /\ UNCHANGED <<fileVars, stray, janitor, lock, scanVars, readVars, cut>>

-------------------------------------------------------------------------------
(* store_metadata, and the janitor.                                        *)

\* Mutant: the file is dropped without flush, as in commit_artifact.
MutStore(w) ==
    /\ Kind[w] = "metadata" /\ pc[w] = "idle" /\ Alone(w)
    /\ Write(w, Unfinished(Body[w], Meta[w]))
    /\ late' = late \cup {w}
    /\ Goto(w, "lock")
    /\ UNCHANGED <<disk, stray, pins, queue, janitor, lock, scanVars, readVars, cut>>

Store(w) ==
    /\ Kind[w] = "metadata" /\ pc[w] = "idle" /\ Alone(w)
    /\ Write(w, Pack(Body[w], Meta[w]))
    /\ Goto(w, "lock")
    /\ UNCHANGED <<disk, late, stray, pins, queue, janitor, lock, scanVars, readVars, cut>>

ScanOf(keys) == /\ unlisted' = keys /\ left' = {} /\ total' = 0
                /\ victim' = None /\ spared' = {} /\ raced' = FALSE
BeginScan == ScanOf(Keys)
EndScan == ScanOf({})

\* Under the lock: the entry is renamed into place and the scan begins.
RenameMetadata(w) ==
    /\ Kind[w] = "metadata" /\ pc[w] = "lock"
    /\ lock = None
    /\ lock' = w
    /\ disk' = [disk EXCEPT ![KeyOf[w]] = w]
    /\ BeginScan
    /\ Goto(w, "scan")
    /\ UNCHANGED <<file, mtime, clock, late, stray, pins, queue, janitor, readVars, cut>>

\* The request behind the store is dropped.  Its temporary file is removed, or
\* its scan ends where it is; a rename or removal it had handed to the blocking
\* pool still takes place, without the lock.
Cut(w) ==
    /\ cut' = cut \cup {w}
    /\ \/ /\ pc[w] = "lock"
          /\ Goto(w, "cut") \/ (lock = None /\ Goto(w, "renaming"))
          /\ UNCHANGED <<lock, scanVars, stray>>
       \/ /\ pc[w] = "scan" /\ Goto(w, "cut")
          /\ lock' = None /\ EndScan
          /\ stray' = stray \cup {e.key : e \in {victim} \ {None}}
    /\ UNCHANGED <<fileVars, pins, queue, janitor, readVars>>

\* The rename of a store that is gone, before or after its file is cleaned up.
LateRename(w) ==
    /\ pc[w] = "renaming"
    /\ Goto(w, "cut")
    /\ disk' = [disk EXCEPT ![KeyOf[w]] = w] \/ UNCHANGED disk
    /\ Races
    /\ UNCHANGED <<file, mtime, clock, late, pins, queue, janitor, lock, stray, readVars, cut>>

LateRemoval(k) ==
    /\ k \in stray
    /\ stray' = stray \ {k}
    /\ disk' = [disk EXCEPT ![k] = None]
    /\ Races
    /\ UNCHANGED <<file, mtime, clock, late, pc, pins, queue, janitor, lock, readVars, cut>>

Receive ==
    /\ janitor = "idle" /\ queue = 1
    /\ queue' = 0
    /\ janitor' = "lock"
    /\ UNCHANGED <<fileVars, stray, pc, pins, lock, scanVars, readVars, cut>>

\* Mutant: one more request is counted off, whether there is one or not.
MutJanitorLocks ==
    /\ janitor = "lock" /\ lock = None
    /\ lock' = Janitor
    /\ queue' = queue - 1
    /\ janitor' = "scan"
    /\ BeginScan
    /\ UNCHANGED <<fileVars, stray, pc, pins, readVars, cut>>

\* The lock is there: requests that came in meanwhile are drained.
JanitorLocks ==
    /\ janitor = "lock" /\ lock = None
    /\ lock' = Janitor
    /\ queue' = 0
    /\ janitor' = "scan"
    /\ BeginScan
    /\ UNCHANGED <<fileVars, stray, pc, pins, readVars, cut>>

-------------------------------------------------------------------------------
(* evict_files_to_bound, for whoever holds the lock.                       *)

\* The scan returns: the lock goes, and the janitor or the store is through.
Leave ==
    /\ lock' = None
    /\ EndScan
    /\ \/ lock = Janitor /\ janitor' = "idle" /\ UNCHANGED pc
       \/ lock # Janitor /\ Goto(lock, "done") /\ UNCHANGED janitor

\* completed_entries_at comes to the path of k.
List(k) ==
    /\ k \in unlisted
    /\ unlisted' = unlisted \ {k}
    /\ \/ disk[k] = None /\ UNCHANGED <<left, total>>
       \/ LET w == disk[k]
          IN  /\ w # None
              /\ left' = left \cup {[key |-> k, file |-> w, modified |-> mtime[w],
                                     size |-> Len(file[w])]}
              /\ total' = total + Len(file[w])
    /\ cut' = cut \cup ({disk[k]} \cap late)
    /\ UNCHANGED <<fileVars, stray, pc, pins, queue, janitor, lock, victim, spared, raced,
                   readVars>>

\* Reading the directory fails, and with it the scan.
ListFails ==
    /\ DiskFails
    /\ unlisted # {}
    /\ cut' = cut \cup {Janitor}
    /\ Leave
    /\ UNCHANGED <<fileVars, stray, pins, queue, readVars>>

\* Mutant: the entries are taken in the order of the directory.
MutIsNext(e) == e \in left

\* Sorted by modification time; entries of the same time in any order.
IsNext(e) == e \in left /\ \A f \in left : e.modified <= f.modified

Evicting == lock # None /\ unlisted = {} /\ victim = None

Examine(e) ==
    /\ Evicting /\ total > MaxCacheSize
    /\ IsNext(e)
    /\ left' = left \ {e}
    /\ \/ pins[e.key] # None /\ spared' = spared \cup {e} /\ UNCHANGED victim
       \/ pins[e.key] = None /\ victim' = e /\ UNCHANGED spared
    /\ UNCHANGED <<fileVars, stray, pc, pins, queue, janitor, lock, unlisted, total, raced,
                   readVars, cut>>

\* Mutant: the running total is not reduced.
MutRemoveVictim ==
    /\ victim # None
    /\ victim' = None
    /\ disk' = [disk EXCEPT ![victim.key] = None]
    /\ UNCHANGED <<file, mtime, clock, late, stray, pc, pins, queue, janitor, lock, unlisted, left,
                   total, spared, raced, readVars, cut>>

\* remove_file takes whatever stands at the path by now.
RemoveVictim ==
    /\ victim # None
    /\ victim' = None
    /\ disk' = [disk EXCEPT ![victim.key] = None]
    /\ total' = IF total >= victim.size THEN total - victim.size ELSE 0
    /\ UNCHANGED <<file, mtime, clock, late, stray, pc, pins, queue, janitor, lock, unlisted, left,
                   spared, raced, readVars, cut>>

RemoveFails ==
    /\ DiskFails
    /\ victim # None
    /\ victim' = None
    /\ spared' = spared \cup {victim}
    /\ cut' = cut \cup {Janitor}
    /\ UNCHANGED <<fileVars, stray, pc, pins, queue, janitor, lock, unlisted, left, total,
                   raced, readVars>>

ScanEnds ==
    /\ Evicting
    /\ total <= MaxCacheSize \/ left = {}
    /\ Leave
    /\ UNCHANGED <<fileVars, stray, pins, queue, readVars, cut>>

-------------------------------------------------------------------------------
(* load, then read_body or file_response.                                  *)

Read(r, from, to, value) ==
    /\ reader[r] = from
    /\ reader' = [reader EXCEPT ![r] = to]
    /\ seen' = [seen EXCEPT ![r] = value]
    /\ UNCHANGED <<fileVars, stray, pc, pins, queue, janitor, lock, scanVars, cut>>

Open(r, k) ==
    /\ Read(r, "idle", IF disk[k] = None THEN "missing" ELSE "size", None)
    /\ handle' = [handle EXCEPT ![r] = disk[k]]
    /\ asked' = [asked EXCEPT ![r] = k]

Size(r) ==
    /\ Read(r, "size", "footer", Len(file[handle[r]]))
    /\ UNCHANGED <<handle, asked>>

Footer(r) ==
    /\ reader[r] = "footer"
    /\ LET footer == ReadFooter(file[handle[r]], seen[r])
       IN  \/ footer = Invalid /\ Read(r, "footer", "missing", seen[r])
           \/ footer # Invalid /\ Read(r, "footer", "body", footer)
    /\ UNCHANGED <<handle, asked>>

Result(r, bytes) ==
    [meta |-> seen[r].meta, body |-> SubSeq(bytes, 1, seen[r].bodyLen)]

\* Mutant: the body is read from the path again.
MutReadBody(r) ==
    /\ reader[r] = "body"
    /\ disk[asked[r]] # None
    /\ Read(r, "body", "hit", Result(r, file[disk[asked[r]]]))
    /\ UNCHANGED <<handle, asked>>

\* The body comes from the file that is open since the beginning.
ReadBody(r) ==
    /\ reader[r] = "body"
    /\ Read(r, "body", "hit", Result(r, file[handle[r]]))
    /\ UNCHANGED <<handle, asked>>

-------------------------------------------------------------------------------
Settled ==
    /\ \A w \in Writers : pc[w] \in {"done", "cut"}
    /\ \A r \in Readers : reader[r] \in {"hit", "missing"}
    /\ late = {} /\ stray = {} /\ queue = 0 /\ janitor = "idle" /\ lock = None
    /\ UNCHANGED vars

Next ==
    \/ \E w \in Writers :
          \/ Commit(w) \/ LengthLands(w) \/ LengthFails(w) \/ RenameArtifact(w) \/ DropPin(w)
          \/ Store(w) \/ RenameMetadata(w) \/ Cut(w) \/ LateRename(w)
    \/ (\E k \in stray : LateRemoval(k)) \/ Receive \/ JanitorLocks
    \/ (\E k \in Keys : List(k)) \/ ListFails
    \/ \E e \in left : Examine(e)
    \/ RemoveVictim \/ RemoveFails \/ ScanEnds
    \/ \E r \in Readers : (\E k \in Keys : Open(r, k)) \/ Size(r) \/ Footer(r) \/ ReadBody(r)
    \/ Settled

SafeSpec == Init /\ [][Next]_vars

-------------------------------------------------------------------------------
(* Properties.                                                             *)

\* docs/specs/requirements.md: entries are "read through a stable open entry so
\* replacement or eviction cannot mix headers and body bytes".  Whatever is
\* written, replaced or removed while a reader is on its way, what it returns
\* is one whole publication of its key; a file that still lacks its length is
\* never taken for an entry.
ReadsAreWhole ==
    \A r \in Readers : reader[r] = "hit" =>
       \E w \in Writers : /\ KeyOf[w] = asked[r]
                          /\ seen[r] = [meta |-> Meta[w], body |-> Body[w]]

\* A miss has a reason: nothing was at the path, or the size the reader was told
\* is that of an artifact without its last write.  So whatever had its length
\* when it was asked for its size is found, old or new, and metadata, which is
\* flushed before it is renamed, always is.  This is less than what
\* docs/specs/requirements.md promises, "All cache entries are published as a
\* single atomic file": an artifact is at its path before it is whole.
MissesHaveReason ==
    \A r \in Readers : reader[r] = "missing" /\ handle[r] # None =>
       /\ Kind[handle[r]] = "artifact"
       /\ seen[r] = Len(Unfinished(Body[handle[r]], Meta[handle[r]]))

\* Scans never remove too much, although janitor and stores share files, lock
\* and bound: an entry goes only while the files there are exceed the bound, or
\* while an artifact is published beside the scan (which it may have listed at
\* another size).
SizeAt(k) == IF disk[k] = None THEN 0 ELSE Len(file[disk[k]])
Bytes == SumFunctionOnSet([k \in Keys |-> SizeAt(k)], Keys)
EvictsOnlyWhenOver ==
    [][(\E k \in Keys : disk[k] # None /\ disk'[k] = None /\ k \notin stray)
         => Bytes > MaxCacheSize \/ raced]_vars

\* docs/specs/requirements.md: "Eviction is oldest-first by completed file
\* mtime".  When an entry goes, every older one that stays was pinned or could
\* not be removed when its turn came, or has been written since the scan
\* listed the directory.
OldestFirst ==
    [][\A k, j \in Keys :
          /\ disk[k] # None /\ disk'[k] = None /\ k \notin stray
          /\ disk[j] # None /\ mtime[disk[j]] < mtime[disk[k]]
          => \/ \E e \in spared : e.key = j
             \/ victim.file # disk[k] \/ victim.modified # mtime[disk[k]]
             \/ ~\E e \in left : e.file = disk[j] /\ e.modified = mtime[disk[j]]]_vars

\* With nothing under way the files fit the bound, whatever artifacts were
\* published during inline scans and however requests to the janitor fell
\* together, unless a store was cut short, the disk failed, or
\* a scan saw a file that still lacked its length.
Quiet == /\ \A w \in Writers : pc[w] \in {"done", "cut", "idle"}
         /\ late = {} /\ stray = {} /\ queue = 0 /\ janitor = "idle" /\ lock = None
BoundWhenUncut == Quiet /\ cut = {} => Bytes <= MaxCacheSize
===============================================================================

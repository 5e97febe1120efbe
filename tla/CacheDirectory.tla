---------------------------- MODULE CacheDirectory ----------------------------
(***************************************************************************)
(* Startup and ownership of the cache directory.  main (src/src/main.rs)   *)
(* reads the configuration (config.rs) and binds three listeners;          *)
(* CacheStore::new (cache.rs) then claims the directory with a marker      *)
(* file, locks the marker, takes every temporary file it recognises for    *)
(* the rest of a dead process and removes it.  Several vampire processes   *)
(* may be started on one directory, with any settings, and each may crash  *)
(* anywhere.                                                               *)
(*                                                                         *)
(* A file is a member of Files; what its name makes of it, at the place    *)
(* where it stands, is Class: a cache entry, a legacy file, a temporary    *)
(* file, or something else.  How entries come and go while the proxy       *)
(* serves is the subject of ArtifactCache and MetadataCache.               *)
(***************************************************************************)
EXTENDS Naturals

CONSTANTS Procs,      \* processes that may be started on the directory
          Files,      \* paths under the directory, the marker apart
          Class,      \* Class[s]: "entry", "legacy", "temp" or "other"
          Marker,     \* the path .vampire-cache-v1
          Ports,      \* addresses listeners may be bound to
          Settings,   \* what the environment of a process may say
          Mega,       \* 1_000_000
          MaxU64,     \* u64::MAX
          MaxStarts,  \* bound on the starts of each process
          None

ASSUME ConstantsAssumption ==
    /\ Class \in [Files -> {"entry", "legacy", "temp", "other"}]
    /\ Marker \notin Files
    /\ MaxStarts \in Nat
    /\ None \notin Procs
    /\ Mega \in Nat /\ MaxU64 \in Nat
    /\ Settings \subseteq [ports : [1 .. 3 -> Ports], base : {"absent", "unfit", "origin"},
                            mb : Nat, fetches : Nat, timeout : Nat]

VARIABLES
    marker,   \* content of the marker: "absent", "empty" or "v1"
    present,  \* the files that exist
    lock,     \* the process that holds the advisory lock on the marker, or None
    pc,       \* pc[p]: where process p stands
    unseen,   \* unseen[p]: what a directory walk of p has not come to
    writer,   \* writer[s]: the live process that is writing file s, or None
    starts,   \* starts[p]: how often p was started
    env,      \* env[p]: the settings p runs with, or None
    size,     \* size[p]: max_cache_size as p computed it
    held,     \* held[a]: the process with a listener on address a, or None
    found     \* history: the files there were, if the directory had no marker

startVars == <<starts, env, size, held>>
vars == <<marker, present, lock, pc, unseen, writer, startVars, found>>

\* CacheStore::new: claim_cache_directory, lock_cache_directory, then
\* cleanup_stale_and_legacy and evict_to_bound.
Ended == {"off", "failed", "unowned", "inUse"}
Binding == {"bindPkg", "bindGit", "bindManagement"}
Claiming == {"read", "walk", "write"}
Owning == {"cleanup", "evict", "serve"}
Paths == Files \cup {Marker}

TypeOK ==
    /\ marker \in {"absent", "empty", "v1"}
    /\ present \subseteq Files
    /\ lock \in Procs \cup {None}
    /\ pc \in [Procs -> {"lock"} \cup Ended \cup Binding \cup Claiming \cup Owning]
    /\ unseen \in [Procs -> SUBSET Paths]
    /\ writer \in [Files -> Procs \cup {None}]
    /\ starts \in [Procs -> 0 .. MaxStarts]
    /\ env \in [Procs -> Settings \cup {None}]
    /\ size \in [Procs -> 0 .. MaxU64]
    /\ held \in [Ports -> Procs \cup {None}]
    /\ found \subseteq Files

\* Any directory, with or without the marker of an earlier run.
Init ==
    /\ marker \in {"absent", "v1"}
    /\ present \in SUBSET Files
    /\ lock = None
    /\ pc = [p \in Procs |-> "off"]
    /\ unseen = [p \in Procs |-> {}]
    /\ writer = [s \in Files |-> None]
    /\ starts = [p \in Procs |-> 0]
    /\ env = [p \in Procs |-> None]
    /\ size = [p \in Procs |-> 0]
    /\ held = [a \in Ports |-> None]
    /\ found = IF marker = "absent" THEN present ELSE {}

Goto(p, s) == pc' = [pc EXCEPT ![p] = s]
Exists(x) == IF x = Marker THEN marker # "absent" ELSE x \in present

\* The process is gone, and with it its settings and its listeners.
Gone(p) ==
    /\ env' = [env EXCEPT ![p] = None]
    /\ size' = [size EXCEPT ![p] = 0]
    /\ held' = [a \in Ports |-> IF held[a] = p THEN None ELSE held[a]]

-------------------------------------------------------------------------------
(* main: Config::from_env, then the listeners.  Settings are what is left  *)
(* of the variables after defaults and parsing; a number that does not     *)
(* parse ends the start like one that is refused.                          *)

\* Mutant: the product wraps.
Mutmax_cache_size(e) == (e.mb * Mega) % (MaxU64 + 1)

\* checked_mul, or None.
max_cache_size(e) == IF e.mb * Mega > MaxU64 THEN None ELSE e.mb * Mega

\* from_vars and validate: parse_public_base_url lets only a bare http or https
\* origin pass.
Valid(e) ==
    /\ e.base = "origin"
    /\ max_cache_size(e) \notin {None, 0}
    /\ e.fetches # 0 /\ e.timeout # 0

Start(p) ==
    /\ pc[p] \in Ended
    /\ starts[p] < MaxStarts
    /\ starts' = [starts EXCEPT ![p] = @ + 1]
    /\ \E e \in Settings :
          \/ /\ Valid(e)
             /\ Goto(p, "bindPkg")
             /\ env' = [env EXCEPT ![p] = e]
             /\ size' = [size EXCEPT ![p] = max_cache_size(e)]
          \/ ~Valid(e) /\ Goto(p, "failed") /\ UNCHANGED <<env, size>>
    /\ UNCHANGED <<marker, present, lock, unseen, writer, held, found>>

\* TcpListener::bind, one listener after the other; an address that is in use
\* ends the start.
Bind(p, from, i, to) ==
    /\ pc[p] = from
    /\ LET a == env[p].ports[i]
       IN  \/ /\ held[a] = None
              /\ held' = [held EXCEPT ![a] = p]
              /\ Goto(p, to)
              /\ UNCHANGED <<env, size>>
           \/ held[a] # None /\ Goto(p, "failed") /\ Gone(p)
    /\ UNCHANGED <<marker, present, lock, unseen, writer, starts, found>>

-------------------------------------------------------------------------------
(* claim_cache_directory.                                                  *)

Refuse(p, s) == Goto(p, s) /\ Gone(p)

\* A marker with another content than "v1\n" is not ours.
ReadMarker(p) ==
    /\ pc[p] = "read"
    /\ \/ marker = "v1" /\ Goto(p, "lock") /\ UNCHANGED <<unseen, env, size, held>>
       \/ marker = "empty" /\ Refuse(p, "unowned") /\ UNCHANGED unseen
       \/ /\ marker = "absent"
          /\ Goto(p, "walk")
          /\ unseen' = [unseen EXCEPT ![p] = Paths]
          /\ UNCHANGED <<env, size, held>>
    /\ UNCHANGED <<marker, present, lock, writer, starts, found>>

\* Mutant: the walk passes over names it does not know.
MutAcceptable(x) == x # Marker

\* What the walk puts up with.  The marker, when it shows up by now, is no shard
\* directory.
Acceptable(x) == x # Marker /\ Class[x] # "other"

Walk(p, x) ==
    /\ pc[p] = "walk"
    /\ x \in unseen[p]
    /\ unseen' = [unseen EXCEPT ![p] = @ \ {x}]
    /\ \/ Exists(x) /\ ~Acceptable(x) /\ Refuse(p, "unowned")
       \/ (Exists(x) => Acceptable(x)) /\ UNCHANGED <<pc, env, size, held>>
    /\ UNCHANGED <<marker, present, lock, writer, starts, found>>

\* fs::write creates or truncates the marker, then writes it.
CreateMarker(p) ==
    /\ pc[p] = "walk"
    /\ unseen[p] = {}
    /\ marker' = "empty"
    /\ Goto(p, "write")
    /\ UNCHANGED <<present, lock, unseen, writer, startVars, found>>

\* Mutant: the marker is written without its line end.
MutWriteMarker(p) ==
    /\ pc[p] = "write"
    /\ marker' = "v1 unterminated"
    /\ Goto(p, "lock")
    /\ UNCHANGED <<present, lock, unseen, writer, startVars, found>>

WriteMarker(p) ==
    /\ pc[p] = "write"
    /\ marker' = "v1"
    /\ Goto(p, "lock")
    /\ UNCHANGED <<present, lock, unseen, writer, startVars, found>>

-------------------------------------------------------------------------------
(* lock_cache_directory, cleanup_stale_and_legacy, evict_to_bound.         *)

\* Mutant: the lock is tried, and its refusal ignored.
MutLock(p) ==
    /\ pc[p] = "lock"
    /\ Goto(p, "cleanup")
    /\ lock' = IF lock = None THEN p ELSE lock
    /\ unseen' = [unseen EXCEPT ![p] = Files]
    /\ UNCHANGED <<marker, present, writer, startVars, found>>

\* try_lock: somebody else's lock ends the start.
Lock(p) ==
    /\ pc[p] = "lock"
    /\ \/ lock # None /\ Refuse(p, "inUse") /\ UNCHANGED <<lock, unseen>>
       \/ /\ lock = None
          /\ lock' = p
          /\ Goto(p, "cleanup")
          /\ unseen' = [unseen EXCEPT ![p] = Files]
          /\ UNCHANGED <<env, size, held>>
    /\ UNCHANGED <<marker, present, writer, starts, found>>

\* Mutant: the extension decides, not the whole name.
MutStale(s) == Class[s] \in {"temp", "legacy", "other"}

Stale(s) == Class[s] \in {"temp", "legacy"}

\* Every recognised temporary or legacy file goes; a failed removal is ignored.
CleanFile(p, s) ==
    /\ pc[p] = "cleanup"
    /\ s \in unseen[p]
    /\ unseen' = [unseen EXCEPT ![p] = @ \ {s}]
    /\ \/ present' = IF Stale(s) THEN present \ {s} ELSE present
       \/ s \in present /\ Stale(s) /\ UNCHANGED present
    /\ UNCHANGED <<marker, lock, pc, writer, startVars, found>>

CleanupEnds(p) ==
    /\ pc[p] = "cleanup"
    /\ unseen[p] = {}
    /\ Goto(p, "evict")
    /\ UNCHANGED <<marker, present, lock, unseen, writer, startVars, found>>

\* evict_to_bound: entries, and only entries, may have to go.
Evict(p, s) ==
    /\ pc[p] \in {"evict", "serve"}
    /\ s \in present
    /\ Class[s] = "entry"
    /\ present' = present \ {s}
    /\ UNCHANGED <<marker, lock, pc, unseen, writer, startVars, found>>

Opened(p) ==
    /\ pc[p] = "evict"
    /\ Goto(p, "serve")
    /\ UNCHANGED <<marker, present, lock, unseen, writer, startVars, found>>

-------------------------------------------------------------------------------
(* Serving: a fetch or a store writes a temporary file, then renames it to *)
(* an entry or removes it.                                                 *)

BeginWrite(p, s) ==
    /\ pc[p] = "serve"
    /\ Class[s] = "temp"
    /\ writer[s] = None
    /\ present' = present \cup {s}
    /\ writer' = [writer EXCEPT ![s] = p]
    /\ UNCHANGED <<marker, lock, pc, unseen, startVars, found>>

EndWrite(p, s) ==
    /\ writer[s] = p
    /\ writer' = [writer EXCEPT ![s] = None]
    /\ \/ present' = present \ {s}
       \/ \E e \in Files : Class[e] = "entry" /\ present' = (present \ {s}) \cup {e}
    /\ UNCHANGED <<marker, lock, pc, unseen, startVars, found>>

\* The process ends, wherever it stands, by a crash, a kill or an error of the
\* start: the kernel drops its lock, its files and a half-written marker stay.
Stop(p) ==
    /\ pc[p] \notin Ended
    /\ Goto(p, "off")
    /\ Gone(p)
    /\ lock' = IF lock = p THEN None ELSE lock
    /\ unseen' = [unseen EXCEPT ![p] = {}]
    /\ writer' = [s \in Files |-> IF writer[s] = p THEN None ELSE writer[s]]
    /\ UNCHANGED <<marker, present, starts, found>>

-------------------------------------------------------------------------------
Settled ==
    /\ \A p \in Procs : pc[p] \in Ended /\ starts[p] = MaxStarts
    /\ UNCHANGED vars

Next ==
    \/ \E p \in Procs :
          \/ Start(p)
          \/ Bind(p, "bindPkg", 1, "bindGit")
          \/ Bind(p, "bindGit", 2, "bindManagement")
          \/ Bind(p, "bindManagement", 3, "read")
          \/ ReadMarker(p) \/ CreateMarker(p) \/ WriteMarker(p) \/ Lock(p)
          \/ CleanupEnds(p) \/ Opened(p) \/ Stop(p)
          \/ \E x \in Paths : Walk(p, x)
          \/ \E s \in Files : \/ CleanFile(p, s) \/ Evict(p, s)
                              \/ BeginWrite(p, s) \/ EndWrite(p, s)
    \/ Settled

SafeSpec == Init /\ [][Next]_vars

-------------------------------------------------------------------------------
(* Properties.                                                             *)

\* A process comes to the directory only when it can serve: its three listeners
\* are its own, its cache bound is exactly the megabytes it was told and not zero,
\* and it may fetch.  Whatever fails before that leaves the directory alone.
ReadyBeforeClaim ==
    \A p \in Procs : pc[p] \notin Ended \cup Binding =>
       /\ \A i \in 1 .. 3 : held[env[p].ports[i]] = p
       /\ size[p] = env[p].mb * Mega /\ size[p] > 0
       /\ env[p].base = "origin" /\ env[p].fetches > 0 /\ env[p].timeout > 0

\* Removing every temporary file at startup is sound: a file that a live
\* process is writing is never taken from under it, whoever starts, crashes or
\* starts again on the same directory.
LiveWritesKept == \A s \in Files : writer[s] # None => s \in present

\* A directory without a marker that holds anything vampire does not recognise
\* is refused unchanged: no file removed or added, no marker left behind.
Unrecognised == \E s \in found : Class[s] = "other"
UnownedUntouched ==
    Unrecognised => /\ marker = "absent"
                    /\ present = found

\* Cleanup and eviction remove nothing outside the cache layout, also in a
\* directory that was accepted because it is marked.
ForeignKept ==
    [][\A s \in Files : Class[s] = "other" => (s \in present <=> s \in present')]_vars
===============================================================================

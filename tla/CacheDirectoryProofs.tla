------------------------- MODULE CacheDirectoryProofs -------------------------
(***************************************************************************)
(* Proofs about CacheDirectory, for any number of processes, files and     *)
(* starts.                                                                 *)
(***************************************************************************)
EXTENDS CacheDirectory, TLAPS

\* The lock separates owners: whoever cleans, evicts or serves holds it.
OwnersHoldLock == \A p \in Procs : pc[p] \in Owning => lock = p

\* Only a serving process writes, and only to temporary files.
WritersServe ==
    \A s \in Files, p \in Procs : writer[s] = p => pc[p] = "serve" /\ Class[s] = "temp"

\* In a directory that must be refused nobody gets past the walk, because some
\* unrecognised file is still ahead of every walk.
WalksWillRefuse ==
    Unrecognised =>
        \A p \in Procs :
            /\ pc[p] \in {"off", "failed", "unowned", "read", "walk"} \cup Binding
            /\ pc[p] = "walk" => \E s \in found : Class[s] = "other" /\ s \in unseen[p]

\* A start goes on only with settings that were found valid, and holds the
\* listeners it has come past.
Configured ==
    \A p \in Procs : pc[p] \notin Ended =>
       /\ env[p] \in Settings /\ Valid(env[p])
       /\ size[p] = max_cache_size(env[p])
       /\ pc[p] # "bindPkg" => held[env[p].ports[1]] = p
       /\ pc[p] \notin {"bindPkg", "bindGit"} => held[env[p].ports[2]] = p
       /\ pc[p] \notin Binding => held[env[p].ports[3]] = p

IInv ==
    /\ TypeOK
    /\ OwnersHoldLock
    /\ WritersServe
    /\ LiveWritesKept
    /\ UnownedUntouched
    /\ WalksWillRefuse
    /\ Configured

USE DEF Ended, Binding, Claiming, Owning, Paths, Goto

-------------------------------------------------------------------------------
\* from_vars and validate let only exact products and non-zero numbers pass.
LEMMA ValidSettings ==
  ASSUME NEW e \in Settings, Valid(e)
  PROVE  /\ max_cache_size(e) = e.mb * Mega
         /\ max_cache_size(e) \in 1 .. MaxU64
         /\ e.base = "origin" /\ e.fetches > 0 /\ e.timeout > 0
<1>1. e.mb \in Nat /\ e.fetches \in Nat /\ e.timeout \in Nat
  BY ConstantsAssumption
<1>2. e.mb * Mega \in Nat
  BY <1>1, ConstantsAssumption
<1>3. ~(e.mb * Mega > MaxU64)
  BY DEF Valid, max_cache_size
<1>4. max_cache_size(e) = e.mb * Mega
  BY <1>3 DEF max_cache_size
<1>5. QED
  BY <1>1, <1>2, <1>3, <1>4, ConstantsAssumption DEF Valid

\* The addresses of a setting are addresses.
LEMMA SettingPorts ==
  ASSUME NEW e \in Settings
  PROVE  e.ports[1] \in Ports /\ e.ports[2] \in Ports /\ e.ports[3] \in Ports
  BY ConstantsAssumption

-------------------------------------------------------------------------------
\* Every directory a first process may find satisfies the invariant.
LEMMA InitIInv == Init => IInv
  BY ConstantsAssumption
  DEF Init, IInv, TypeOK, OwnersHoldLock, WritersServe, LiveWritesKept, UnownedUntouched,
      WalksWillRefuse, Unrecognised, Configured

\* No step of any process breaks it.
LEMMA NextIInv == IInv /\ [Next]_vars => IInv'
<1> SUFFICES ASSUME IInv, [Next]_vars PROVE IInv'
  OBVIOUS
<1> USE ConstantsAssumption
        DEF IInv, TypeOK, OwnersHoldLock, WritersServe, LiveWritesKept, UnownedUntouched,
            WalksWillRefuse, Unrecognised
<1>1. ASSUME NEW p \in Procs, Start(p) PROVE IInv'
  <2>1. PICK e \in Settings :
           \/ /\ Valid(e)
              /\ Goto(p, "bindPkg")
              /\ env' = [env EXCEPT ![p] = e]
              /\ size' = [size EXCEPT ![p] = max_cache_size(e)]
           \/ ~Valid(e) /\ Goto(p, "failed") /\ UNCHANGED <<env, size>>
    BY <1>1 DEF Start
  <2>2. Valid(e) => max_cache_size(e) \in 0 .. MaxU64
    BY ValidSettings
  <2>3. TypeOK'
    BY <1>1, <2>1, <2>2 DEF Start
  <2>4. Configured'
    BY <1>1, <2>1 DEF Start, Configured
  <2>5. QED
    BY <1>1, <2>1, <2>3, <2>4 DEF Start
<1>2. ASSUME NEW p \in Procs, ReadMarker(p) PROVE IInv'
  <2>1. Configured'
    BY <1>2 DEF ReadMarker, Configured, Refuse, Gone
  <2>2. QED
    BY <1>2, <2>1 DEF ReadMarker, Refuse, Gone
<1>3. ASSUME NEW p \in Procs, NEW x \in Paths, Walk(p, x) PROVE IInv'
  <2>1. Configured'
    BY <1>3 DEF Walk, Configured, Refuse, Gone
  <2>2. QED
    BY <1>3, <2>1 DEF Walk, Exists, Acceptable, Refuse, Gone
<1>4. ASSUME NEW p \in Procs, CreateMarker(p) PROVE IInv'
  BY <1>4 DEF CreateMarker, startVars, Configured
<1>5. ASSUME NEW p \in Procs, WriteMarker(p) PROVE IInv'
  BY <1>5 DEF WriteMarker, startVars, Configured
<1>6. ASSUME NEW p \in Procs, Lock(p) PROVE IInv'
  <2>1. Configured'
    BY <1>6 DEF Lock, Configured, Refuse, Gone
  <2>2. QED
    BY <1>6, <2>1 DEF Lock, Refuse, Gone
<1>7. ASSUME NEW p \in Procs, NEW s \in Files, CleanFile(p, s) PROVE IInv'
  BY <1>7 DEF CleanFile, Stale, startVars, Configured
<1>8. ASSUME NEW p \in Procs, CleanupEnds(p) PROVE IInv'
  BY <1>8 DEF CleanupEnds, startVars, Configured
<1>9. ASSUME NEW p \in Procs, NEW s \in Files, Evict(p, s) PROVE IInv'
  BY <1>9 DEF Evict, startVars, Configured
<1>10. ASSUME NEW p \in Procs, Opened(p) PROVE IInv'
  BY <1>10 DEF Opened, startVars, Configured
<1>11. ASSUME NEW p \in Procs, NEW s \in Files, BeginWrite(p, s) PROVE IInv'
  BY <1>11 DEF BeginWrite, startVars, Configured
<1>12. ASSUME NEW p \in Procs, NEW s \in Files, EndWrite(p, s) PROVE IInv'
  BY <1>12 DEF EndWrite, startVars, Configured
<1>13. ASSUME NEW p \in Procs, Stop(p) PROVE IInv'
  <2>1. Configured'
    BY <1>13 DEF Stop, Configured, Gone
  <2>2. QED
    BY <1>13, <2>1 DEF Stop, Gone
<1>14. ASSUME NEW p \in Procs, NEW from \in Binding, NEW i \in 1 .. 3,
              NEW to \in Binding \cup {"read"},
              Bind(p, from, i, to),
              <<from, i, to>> \in {<<"bindPkg", 1, "bindGit">>, <<"bindGit", 2, "bindManagement">>,
                                  <<"bindManagement", 3, "read">>}
       PROVE  IInv'
  <2>1. env[p] \in Settings /\ env[p].ports[i] \in Ports
    BY <1>14, SettingPorts DEF Bind, Configured
  <2>2. CASE held[env[p].ports[i]] = None
    <3>1. held' = [held EXCEPT ![env[p].ports[i]] = p] /\ Goto(p, to) /\ UNCHANGED <<env, size>>
      BY <1>14, <2>2 DEF Bind
    <3>2. Configured'
      BY <1>14, <2>1, <2>2, <3>1 DEF Bind, Configured
    <3>3. QED
      BY <1>14, <2>1, <3>1, <3>2 DEF Bind
  <2>3. CASE held[env[p].ports[i]] # None
    <3>1. Goto(p, "failed") /\ Gone(p)
      BY <1>14, <2>3 DEF Bind
    <3>2. Configured'
      BY <1>14, <3>1 DEF Bind, Gone, Configured
    <3>3. QED
      BY <1>14, <3>1, <3>2 DEF Bind, Gone
  <2>4. QED
    BY <2>2, <2>3
<1>15. CASE UNCHANGED vars
  BY <1>15 DEF vars, startVars, Configured
<1>16. QED
  BY <1>1, <1>2, <1>3, <1>4, <1>5, <1>6, <1>7, <1>8, <1>9, <1>10, <1>11, <1>12, <1>13,
     <1>14, <1>15
  DEF Next, Settled

\* The invariant holds in every reachable state.
LEMMA Invariance == SafeSpec => []IInv
  BY InitIInv, NextIInv, PTL DEF SafeSpec

-------------------------------------------------------------------------------
\* Type correctness of the directory and of every process.
THEOREM TypeCorrect == SafeSpec => []TypeOK
<1>1. IInv => TypeOK
  BY DEF IInv
<1>2. QED
  BY <1>1, Invariance, PTL

\* main reaches CacheStore::new only with its three listeners bound and with
\* settings that were read without overflow.
THEOREM StartsAreReady == SafeSpec => []ReadyBeforeClaim
<1>1. IInv => ReadyBeforeClaim
  <2> SUFFICES ASSUME IInv, NEW p \in Procs, pc[p] \notin Ended \cup Binding
               PROVE  /\ \A i \in 1 .. 3 : held[env[p].ports[i]] = p
                      /\ size[p] = env[p].mb * Mega /\ size[p] > 0
                      /\ env[p].base = "origin" /\ env[p].fetches > 0 /\ env[p].timeout > 0
    BY DEF ReadyBeforeClaim
  <2>1. /\ env[p] \in Settings /\ Valid(env[p])
        /\ size[p] = max_cache_size(env[p])
        /\ held[env[p].ports[1]] = p
        /\ held[env[p].ports[2]] = p
        /\ held[env[p].ports[3]] = p
    BY DEF IInv, Configured
  <2>2. QED
    BY <2>1, ValidSettings
<1>2. QED
  BY <1>1, Invariance, PTL

\* cleanup_stale_and_legacy never removes a file that a live process writes.
THEOREM LiveWritesAreKept == SafeSpec => []LiveWritesKept
<1>1. IInv => LiveWritesKept
  BY DEF IInv
<1>2. QED
  BY <1>1, Invariance, PTL

\* claim_cache_directory refuses an unmarked directory with unrecognised files
\* and leaves it as it was.
THEOREM UnownedIsUntouched == SafeSpec => []UnownedUntouched
<1>1. IInv => UnownedUntouched
  BY DEF IInv
<1>2. QED
  BY <1>1, Invariance, PTL

\* No step removes or creates a file outside the cache layout.
THEOREM ForeignIsKept == SafeSpec => ForeignKept
<1> DEFINE Kept == \A s \in Files : Class[s] = "other" => (s \in present <=> s \in present')
<1>1. IInv /\ [Next]_vars => [Kept]_vars
  <2> SUFFICES ASSUME IInv, Next PROVE Kept
    OBVIOUS
  <2> USE DEF IInv, TypeOK, WritersServe
  <2>1. ASSUME NEW p \in Procs, NEW s \in Files, CleanFile(p, s) PROVE Kept
    BY <2>1 DEF CleanFile, Stale
  <2>2. ASSUME NEW p \in Procs, NEW s \in Files, Evict(p, s) PROVE Kept
    BY <2>2 DEF Evict
  <2>3. ASSUME NEW p \in Procs, NEW s \in Files, BeginWrite(p, s) PROVE Kept
    BY <2>3 DEF BeginWrite
  <2>4. ASSUME NEW p \in Procs, NEW s \in Files, EndWrite(p, s) PROVE Kept
    BY <2>4 DEF EndWrite
  <2>5. CASE UNCHANGED present
    BY <2>5
  <2>6. QED
    BY <2>1, <2>2, <2>3, <2>4, <2>5
    DEF Next, Start, Bind, ReadMarker, Walk, CreateMarker, WriteMarker, Lock, CleanupEnds, Opened,
        Stop, Settled, vars
<1>2. QED
  BY <1>1, Invariance, PTL DEF SafeSpec, ForeignKept
===============================================================================

------------------------- MODULE ArtifactCacheProofs -------------------------
(***************************************************************************)
(* Proofs about ArtifactCache, for any sets of keys and requests and any   *)
(* bounds: flights are single and own their temporary files, permits are   *)
(* conserved, a published entry is pinned until its waiters have opened    *)
(* it, nobody waits for a flight nothing is left of, and when nothing      *)
(* runs any more the files obey the disk bound.                            *)
(***************************************************************************)
EXTENDS ArtifactCache, FiniteSums

\* What an armed reader of the state may rely on about a request: it holds a
\* flight, of its own key, exactly while it waits for one, and it has a flight
\* of its own only from the moment it took the lead.
Requests ==
    \A r \in Reqs :
        /\ req[r] \in Waiting => /\ flight[r] \in Reqs
                                 /\ KeyOf[flight[r]] = KeyOf[r]
                                 /\ task[flight[r]] # "none"
        /\ req[r] \notin Waiting => flight[r] = None
        /\ req[r] = "open" => outcome[flight[r]] = "cached"
        /\ req[r] \in {"idle", "load", "recheck"} => task[r] = "none"

\* Nothing runs while the process is down or starting.
Startup ==
    /\ phase # "serving" =>
          \A r \in Reqs : req[r] \notin Running /\ task[r] \in {"none", "done"}
    /\ phase \in {"down", "cleanup"} => scan = "idle"

\* The outcome is empty until the flight's task, or its guard, completes it.
Outcomes ==
    \A f \in Reqs :
        task[f] \in {"none", "discard"} \cup Fetching \cup Signalling => outcome[f] = None

\* TypeOK without the upper bound of free, which needs the permit accounting.
Types ==
    /\ inflight \in [Keys -> Reqs \cup {None}]
    /\ pins \in [Keys -> Reqs \cup {None}]
    /\ queue \in BOOLEAN
    /\ req \in [Reqs -> {"idle"} \cup Running \cup Ended]
    /\ flight \in [Reqs -> Reqs \cup {None}]
    /\ task \in [Reqs -> {"none", "done"} \cup Permitted \cup Cleaning]
    /\ outcome \in [Reqs -> Signalling \cup {None}]
    /\ temp \in [Keys -> Reqs \cup {None}]
    /\ disk \in [Keys -> Inodes \cup {None}]
    /\ footer \in [Inodes -> {"absent", "pending", "written", "lost"}]
    /\ scan \in {"idle", "list", "evict", "remove"}
    /\ unseen \subseteq Keys
    /\ left \subseteq Keys
    /\ total \in Nat
    /\ victim \in Keys \cup {None}
    /\ inline \in BOOLEAN
    /\ stores \in 0 .. MaxStores
    /\ stray \in [Keys -> Nat]
    /\ strayed \subseteq Keys
    /\ phase \in {"serving", "down", "cleanup", "evict"}
    /\ crashes \in 0 .. MaxCrashes
    /\ redundant \subseteq Reqs

\* The scan's list: what is on it is on disk, since only the scan removes files,
\* apart from the removals that inline scans have left behind.
Scan ==
    /\ \A k \in left : disk[k] # None \/ k \in strayed
    /\ scan = "remove" => victim \in left
    /\ inline => scan # "idle" /\ phase = "serving"

BaseInv == Types /\ Scan /\ Requests /\ Startup /\ Outcomes /\ SingleFlight

-------------------------------------------------------------------------------
\* The drop of a PublishedEntry: pins only disappear, and the pin of an entry
\* that is still held stays.
LEMMA DropPinsFacts ==
  ASSUME pins \in [Keys -> Reqs \cup {None}], queue \in BOOLEAN, DropPins
  PROVE  /\ pins' \in [Keys -> Reqs \cup {None}]
         /\ queue' \in BOOLEAN
         /\ \A k \in Keys : pins'[k] \in {pins[k], None}
         /\ \A k \in Keys, f \in Reqs : pins[k] = f /\ Holds(f)' => pins'[k] = f
<1> DEFINE dropped == {k \in Keys : \E f \in Reqs : pins[k] = f /\ ~Holds(f)'}
<1>1. /\ pins' = [k \in Keys |-> IF k \in dropped THEN None ELSE pins[k]]
      /\ queue' = (queue \/ dropped # {})
  BY DEF DropPins
<1>2. queue' \in BOOLEAN
  BY <1>1
<1>3. \A k \in Keys, f \in Reqs : pins[k] = f /\ Holds(f)' => k \notin dropped
  OBVIOUS
<1> HIDE DEF dropped
<1>4. QED
  BY <1>1, <1>2, <1>3

\* CacheStore::new leaves the store in a state that satisfies the groundwork.
LEMMA InitBase == Init => BaseInv
<1> SUFFICES ASSUME Init PROVE BaseInv
  OBVIOUS
<1> USE ConstantsAssumption DEF Init
<1>1. Types
  <2>1. queue \in BOOLEAN
    OBVIOUS
  <2>2. disk \in [Keys -> Inodes \cup {None}]
    BY DEF Inodes
  <2>3. footer \in [Inodes -> {"absent", "pending", "written", "lost"}]
    OBVIOUS
  <2>4. crashes \in 0 .. MaxCrashes
    OBVIOUS
  <2>5. /\ inline \in BOOLEAN
        /\ stores \in 0 .. MaxStores
    <3>1. inline \in BOOLEAN
      OBVIOUS
    <3>2. stores \in 0 .. MaxStores
      OBVIOUS
    <3>3. QED
      BY <3>1, <3>2
  <2>6. QED
    BY <2>1, <2>2, <2>3, <2>4, <2>5
    DEF Types, Inodes, Running, Waiting, Ended, Permitted, Fetching, Signalling, Cleaning
<1>2. Scan
  BY DEF Scan
<1>3. Requests
  BY DEF Requests, Waiting
<1>4. Startup
  BY DEF Startup
<1>5. Outcomes
  BY DEF Outcomes, Fetching, Signalling
<1>6. SingleFlight
  BY DEF SingleFlight, Registered, Permitted, Fetching, Signalling, Cleaning
<1>7. QED
  BY <1>1, <1>2, <1>3, <1>4, <1>5, <1>6 DEF BaseInv

\* Every step preserves the groundwork; one case per action.
LEMMA NextBase == BaseInv /\ [Next]_vars => BaseInv'
<1> SUFFICES ASSUME BaseInv, [Next]_vars PROVE BaseInv'
  OBVIOUS
<1> USE ConstantsAssumption
    DEF BaseInv, Types, Scan, Requests, Startup, Outcomes,
        SingleFlight, Registered, Inodes, Running, Waiting, Ended,
        Permitted, Fetching, Signalling, Cleaning, cacheVars, pinVars, reqVars,
        fileVars, scanVars, inlineVars, lifeVars
<1>1. ASSUME NEW r \in Reqs, Lookup(r) PROVE BaseInv'
  BY <1>1 DEF Lookup, Join
<1>2. ASSUME NEW r \in Reqs, Load(r) PROVE BaseInv'
  BY <1>2 DEF Load
<1>3. ASSUME NEW r \in Reqs, LoadFails(r) PROVE BaseInv'
  BY <1>3 DEF LoadFails
<1>4. ASSUME NEW r \in Reqs, JoinLate(r) PROVE BaseInv'
  BY <1>4 DEF JoinLate, Join
<1>5. ASSUME NEW r \in Reqs, Refuse(r) PROVE BaseInv'
  BY <1>5 DEF Refuse
<1>6. ASSUME NEW r \in Reqs, Lead(r) PROVE BaseInv'
  BY <1>6 DEF Lead, StartFlight
<1>7. ASSUME NEW r \in Reqs, Wake(r) PROVE BaseInv'
  <2>1. Types' /\ Scan' /\ Startup' /\ Outcomes'
    BY <1>7, DropPinsFacts DEF Wake
  <2>2. Requests' /\ SingleFlight'
    BY <1>7 DEF Wake
  <2>3. QED
    BY <2>1, <2>2
<1>8. ASSUME NEW r \in Reqs, Open(r) PROVE BaseInv'
  BY <1>8, DropPinsFacts DEF Open
<1>9. ASSUME NEW r \in Reqs, OpenFails(r) PROVE BaseInv'
  BY <1>9, DropPinsFacts DEF OpenFails
<1>10. ASSUME NEW r \in Reqs, Disconnect(r) PROVE BaseInv'
  BY <1>10, DropPinsFacts DEF Disconnect
<1>11. ASSUME NEW f \in Reqs, FetchOk(f) PROVE BaseInv'
  BY <1>11 DEF FetchOk
<1>12. ASSUME NEW f \in Reqs, FetchNotOk(f) PROVE BaseInv'
  BY <1>12 DEF FetchNotOk
<1>13. ASSUME NEW f \in Reqs, StreamEnds(f) PROVE BaseInv'
  BY <1>13 DEF StreamEnds
<1>14. ASSUME NEW f \in Reqs, Append(f) PROVE BaseInv'
  BY <1>14 DEF Append
<1>15. ASSUME NEW f \in Reqs, Publish(f) PROVE BaseInv'
  BY <1>15 DEF Publish
<1>16. ASSUME NEW f \in Reqs, FetchFails(f) PROVE BaseInv'
  BY <1>16, DropPinsFacts DEF FetchFails
<1>17. ASSUME NEW f \in Reqs, Discard(f) PROVE BaseInv'
  BY <1>17 DEF Discard
<1>18. ASSUME NEW f \in Reqs, Signal(f) PROVE BaseInv'
  BY <1>18, DropPinsFacts DEF Signal
<1>19. ASSUME NEW f \in Reqs, Finish(f) PROVE BaseInv'
  BY <1>19 DEF Finish
<1>20. ASSUME NEW f \in Reqs, DropLeader(f) PROVE BaseInv'
  BY <1>20, DropPinsFacts DEF DropLeader
<1>21. ASSUME NEW f \in Reqs, Abort(f) PROVE BaseInv'
  BY <1>21, DropPinsFacts DEF Abort
<1>22. ASSUME NEW f \in Reqs, CleanTemp(f) PROVE BaseInv'
  BY <1>22 DEF CleanTemp
<1>23. ASSUME NEW f \in Reqs, CleanFail(f) PROVE BaseInv'
  BY <1>23 DEF CleanFail
<1>24. ASSUME NEW f \in Reqs, CleanFinish(f) PROVE BaseInv'
  BY <1>24, DropPinsFacts DEF CleanFinish
<1>25. ASSUME NEW f \in Reqs, FooterLands(f) PROVE BaseInv'
  BY <1>25 DEF FooterLands
<1>26. ASSUME NEW f \in Reqs, FooterFails(f) PROVE BaseInv'
  BY <1>26 DEF FooterFails
<1>27. CASE JanitorWakes
  <2>1. queue' \in BOOLEAN
    BY <1>27 DEF JanitorWakes
  <2>2. QED
    BY <1>27, <2>1 DEF JanitorWakes, BeginScan
<1>28. ASSUME NEW k \in Keys, ListEntry(k) PROVE BaseInv'
  BY <1>28 DEF ListEntry
<1>29. CASE ListEnds
  BY <1>29 DEF ListEnds
<1>30. ASSUME NEW k \in Keys, CheckEntry(k) PROVE BaseInv'
  BY <1>30 DEF CheckEntry
<1>31. CASE RemoveEntry
  BY <1>31 DEF RemoveEntry
<1>32. CASE RemoveFails
  BY <1>32 DEF RemoveFails
<1>33. CASE ScanEnds
  <2>1. inline' \in BOOLEAN
    BY <1>33 DEF ScanEnds
  <2>2. QED
    BY <1>33, <2>1 DEF ScanEnds
<1>34. CASE Crash
  <2>1. queue' \in BOOLEAN
    BY <1>34 DEF Crash
  <2>2. Types'
    <3>1. stores' \in 0 .. MaxStores /\ strayed' \subseteq Keys
      BY <1>34 DEF Crash
    <3>2. stray' \in [Keys -> Nat]
      BY <1>34 DEF Crash
    <3>3. inline' \in BOOLEAN
      BY <1>34 DEF Crash
    <3>4. QED
      BY <1>34, <2>1, <3>1, <3>2, <3>3 DEF Crash
  <2>3. QED
    BY <1>34, <2>2 DEF Crash
<1>35. CASE Restart
  BY <1>35 DEF Restart
<1>36. ASSUME NEW k \in Keys, RemoveStale(k) PROVE BaseInv'
  BY <1>36 DEF RemoveStale
<1>37. CASE CleanupEnds
  BY <1>37 DEF CleanupEnds, BeginScan
<1>38. CASE UNCHANGED vars
  BY <1>38 DEF vars
<1>39. CASE ScanFails
  <2>1. inline' \in BOOLEAN
    BY <1>39 DEF ScanFails
  <2>2. QED
    BY <1>39, <2>1 DEF ScanFails
<1>40. CASE InlineBegins
  <2>1. inline' \in BOOLEAN
    BY <1>40 DEF InlineBegins
  <2>2. stores' \in 0 .. MaxStores
    BY <1>40 DEF InlineBegins
  <2>3. QED
    BY <1>40, <2>1, <2>2 DEF InlineBegins, BeginScan
<1>41. CASE InlineCut
  <2>1. inline' \in BOOLEAN
    BY <1>41 DEF InlineCut
  <2>2. QED
    BY <1>41, <2>1 DEF InlineCut
<1>42. ASSUME NEW k \in Keys, LateRemoval(k) PROVE BaseInv'
  BY <1>42 DEF LateRemoval
<1>43. QED
  BY <1>1, <1>2, <1>3, <1>4, <1>5, <1>6, <1>7, <1>8, <1>9, <1>10, <1>11, <1>12, <1>13,
     <1>14, <1>15, <1>16, <1>17, <1>18, <1>19, <1>20, <1>21, <1>22, <1>23, <1>24, <1>25,
     <1>26, <1>27, <1>28, <1>29, <1>30, <1>31, <1>32, <1>33, <1>34, <1>35, <1>36, <1>37,
     <1>38, <1>39, <1>40, <1>41, <1>42
  DEF Next, ReqStep, FetchStep, CleanStep, ScanStep, StartupStep, Settled

-------------------------------------------------------------------------------
(* Temporary files.                                                        *)

\* TempOwned also holds during the scan that ends startup.
TempInv ==
    phase \in {"serving", "evict"} =>
        \A k \in Keys, f \in Reqs :
            temp[k] = f =>
                /\ inflight[k] = f
                /\ task[f] \in {"stream", "append", "publish", "discard", "cleanTemp"}

\* Every step leaves each <key>.part with its registered flight.
LEMMA NextTemp == BaseInv /\ TempInv /\ [Next]_vars => TempInv'
<1> SUFFICES ASSUME BaseInv, TempInv, [Next]_vars PROVE TempInv'
  OBVIOUS
<1> USE ConstantsAssumption
    DEF BaseInv, Types, SingleFlight, Startup, TempInv, Registered, Permitted, Fetching,
        Signalling, Cleaning, cacheVars, reqVars, fileVars, scanVars, inlineVars, lifeVars
<1>1. CASE UNCHANGED <<temp, inflight, task, phase>>
  BY <1>1
<1>2. ASSUME NEW r \in Reqs, Lead(r) PROVE TempInv'
  BY <1>2 DEF Lead, StartFlight
<1>3. ASSUME NEW f \in Reqs, FetchOk(f) PROVE TempInv'
  BY <1>3 DEF FetchOk
<1>4. ASSUME NEW f \in Reqs, FetchNotOk(f) PROVE TempInv'
  BY <1>4 DEF FetchNotOk
<1>5. ASSUME NEW f \in Reqs, StreamEnds(f) PROVE TempInv'
  BY <1>5 DEF StreamEnds
<1>6. ASSUME NEW f \in Reqs, Append(f) PROVE TempInv'
  BY <1>6 DEF Append
<1>7. ASSUME NEW f \in Reqs, Publish(f) PROVE TempInv'
  BY <1>7 DEF Publish
<1>8. ASSUME NEW f \in Reqs, FetchFails(f) PROVE TempInv'
  BY <1>8 DEF FetchFails
<1>9. ASSUME NEW f \in Reqs, Discard(f) PROVE TempInv'
  BY <1>9 DEF Discard
<1>10. ASSUME NEW f \in Reqs, Signal(f) PROVE TempInv'
  BY <1>10 DEF Signal
<1>11. ASSUME NEW f \in Reqs, Finish(f) PROVE TempInv'
  BY <1>11 DEF Finish
<1>12. ASSUME NEW f \in Reqs, DropLeader(f) PROVE TempInv'
  BY <1>12 DEF DropLeader
<1>13. ASSUME NEW f \in Reqs, Abort(f) PROVE TempInv'
  BY <1>13 DEF Abort
<1>14. ASSUME NEW f \in Reqs, CleanTemp(f) PROVE TempInv'
  BY <1>14 DEF CleanTemp
<1>15. ASSUME NEW f \in Reqs, CleanFail(f) PROVE TempInv'
  BY <1>15 DEF CleanFail
<1>16. ASSUME NEW f \in Reqs, CleanFinish(f) PROVE TempInv'
  BY <1>16 DEF CleanFinish
<1>17. CASE ScanEnds \/ ScanFails
  BY <1>17 DEF ScanEnds, ScanFails
<1>18. CASE Crash
  BY <1>18 DEF Crash
<1>19. CASE Restart \/ \E k \in Keys : RemoveStale(k)
  BY <1>19 DEF Restart, RemoveStale
<1>20. CASE CleanupEnds
  BY <1>20 DEF CleanupEnds
<1>21. ASSUME NEW r \in Reqs,
              \/ Lookup(r) \/ Load(r) \/ LoadFails(r) \/ JoinLate(r) \/ Refuse(r)
              \/ Wake(r) \/ Open(r) \/ OpenFails(r) \/ Disconnect(r)
              \/ FooterLands(r) \/ FooterFails(r)
       PROVE  UNCHANGED <<temp, inflight, task, phase>>
  BY <1>21 DEF Lookup, Load, LoadFails, JoinLate, Refuse, Wake, Open, OpenFails,
               Disconnect, FooterLands, FooterFails
<1>22. ASSUME \/ JanitorWakes \/ ListEnds \/ RemoveEntry \/ RemoveFails
              \/ InlineBegins \/ InlineCut
              \/ \E k \in Keys : ListEntry(k) \/ CheckEntry(k) \/ LateRemoval(k)
       PROVE  UNCHANGED <<temp, inflight, task, phase>>
  BY <1>22 DEF JanitorWakes, ListEnds, RemoveEntry, RemoveFails, ListEntry, CheckEntry,
               InlineBegins, InlineCut, LateRemoval
<1>23. UNCHANGED vars => UNCHANGED <<temp, inflight, task, phase>>
  BY DEF vars
<1>24. QED
  BY <1>1, <1>2, <1>3, <1>4, <1>5, <1>6, <1>7, <1>8, <1>9, <1>10, <1>11, <1>12, <1>13,
     <1>14, <1>15, <1>16, <1>17, <1>18, <1>19, <1>20, <1>21, <1>22, <1>23
  DEF Next, ReqStep, FetchStep, CleanStep, ScanStep, StartupStep, Settled

-------------------------------------------------------------------------------
(* Permits.                                                                *)

\* The flights whose leader holds a permit.
PermitHolders == {f \in Reqs : task[f] \in Permitted}

\* The accounting, with the finiteness that Cardinality needs.
PermitInv ==
    /\ free \in Nat
    /\ IsFiniteSet(PermitHolders)
    /\ PermitAccounting

\* At the start all permits are free.
LEMMA InitPermit == Init => PermitInv
<1> SUFFICES ASSUME Init PROVE PermitInv
  OBVIOUS
<1>1. PermitHolders = {}
  BY DEF Init, PermitHolders, Permitted, Fetching, Signalling
<1>2. IsFiniteSet(PermitHolders) /\ Cardinality(PermitHolders) = 0
  BY <1>1, FS_EmptySet
<1>3. free \in Nat /\ free = MaxUpstreamFetches
  BY ConstantsAssumption DEF Init
<1>4. QED
  BY <1>2, <1>3 DEF PermitInv, PermitAccounting, PermitHolders

\* A permit changes hands only when a flight starts, ends or is dropped.
LEMMA NextPermit == BaseInv /\ PermitInv /\ [Next]_vars => PermitInv'
<1> SUFFICES ASSUME BaseInv, PermitInv, [Next]_vars PROVE PermitInv'
  OBVIOUS
<1> USE ConstantsAssumption DEF BaseInv, Types
<1>1. ASSUME free' = free, PermitHolders' = PermitHolders PROVE PermitInv'
  BY <1>1 DEF PermitInv, PermitAccounting, PermitHolders
<1>2. ASSUME NEW r \in Reqs, Lead(r) PROVE PermitInv'
  <2>1. PermitHolders' = PermitHolders \cup {r}
    BY <1>2 DEF Lead, StartFlight, PermitHolders, Permitted, Fetching
  <2>2. r \notin PermitHolders
    BY <1>2 DEF Lead, Requests, PermitHolders, Permitted, Fetching, Signalling
  <2>3. /\ IsFiniteSet(PermitHolders')
        /\ Cardinality(PermitHolders') = Cardinality(PermitHolders) + 1
    BY <2>1, <2>2, FS_AddElement DEF PermitInv
  <2>4. free' \in Nat /\ free' = free - 1
    BY <1>2 DEF Lead, StartFlight, PermitInv
  <2>5. Cardinality(PermitHolders) \in Nat
    BY FS_CardinalityType DEF PermitInv
  <2>6. QED
    BY <2>3, <2>4, <2>5 DEF PermitInv, PermitAccounting, PermitHolders
<1>3. ASSUME NEW f \in Reqs, DropLeader(f) \/ Abort(f) PROVE PermitInv'
  <2>1. PermitHolders' = PermitHolders \ {f} /\ f \in PermitHolders
    BY <1>3 DEF DropLeader, Abort, PermitHolders, Permitted, Fetching, Signalling
  <2>2. /\ IsFiniteSet(PermitHolders')
        /\ Cardinality(PermitHolders') = Cardinality(PermitHolders) - 1
    BY <2>1, FS_RemoveElement DEF PermitInv
  <2>3. free' \in Nat /\ free' = free + 1
    BY <1>3 DEF DropLeader, Abort, PermitInv
  <2>4. Cardinality(PermitHolders) \in Nat
    BY FS_CardinalityType DEF PermitInv
  <2>5. QED
    BY <2>2, <2>3, <2>4 DEF PermitInv, PermitAccounting, PermitHolders
<1>4. CASE Crash
  <2>1. PermitHolders' = {} /\ free' = MaxUpstreamFetches
    BY <1>4 DEF Crash, PermitHolders, Permitted, Fetching, Signalling
  <2>2. IsFiniteSet(PermitHolders') /\ Cardinality(PermitHolders') = 0
    BY <2>1, FS_EmptySet
  <2>3. QED
    BY <2>1, <2>2 DEF PermitInv, PermitAccounting, PermitHolders
<1>5. ASSUME NEW f \in Reqs,
             \/ FetchOk(f) \/ FetchNotOk(f) \/ StreamEnds(f) \/ Append(f) \/ Publish(f)
             \/ FetchFails(f) \/ Discard(f) \/ Signal(f) \/ Finish(f)
             \/ CleanTemp(f) \/ CleanFail(f) \/ CleanFinish(f)
      PROVE  free' = free /\ PermitHolders' = PermitHolders
  BY <1>5 DEF FetchOk, FetchNotOk, StreamEnds, Append, Publish, FetchFails, Discard,
              Signal, Finish, CleanTemp, CleanFail, CleanFinish, cacheVars,
              PermitHolders, Permitted, Fetching, Signalling, Cleaning
<1>6. ASSUME NEW r \in Reqs,
             \/ Lookup(r) \/ Load(r) \/ LoadFails(r) \/ JoinLate(r) \/ Refuse(r)
             \/ Wake(r) \/ Open(r) \/ OpenFails(r) \/ Disconnect(r)
             \/ FooterLands(r) \/ FooterFails(r)
      PROVE  free' = free /\ task' = task
  BY <1>6 DEF Lookup, Load, LoadFails, JoinLate, Refuse, Wake, Open, OpenFails,
              Disconnect, FooterLands, FooterFails, cacheVars
<1>7. ASSUME \/ ScanStep \/ ScanFails \/ StartupStep \/ UNCHANGED vars
             \/ InlineBegins \/ InlineCut \/ \E k \in Keys : LateRemoval(k)
      PROVE  free' = free /\ task' = task
  BY <1>7 DEF InlineBegins, InlineCut, LateRemoval, ScanStep, StartupStep, JanitorWakes, ListEnds, RemoveEntry, RemoveFails,
              ScanEnds, ScanFails, ListEntry, CheckEntry, Restart, CleanupEnds, RemoveStale,
              cacheVars, vars
<1>8. task' = task => PermitHolders' = PermitHolders
  BY DEF PermitHolders
<1>9. QED
  BY <1>1, <1>2, <1>3, <1>4, <1>5, <1>6, <1>7, <1>8
  DEF Next, ReqStep, FetchStep, CleanStep, Settled

-------------------------------------------------------------------------------
(* Handoff of a published entry.                                           *)

\* No flight of the key was begun while a published file was there, and no
\* removal that an inline scan left behind has taken a file of the key.
Clean(k) == k \notin strayed /\ \A f \in redundant : KeyOf[f] # k

\* Flight f has renamed its file and somebody still refers to its outcome.
Published(f) ==
    \/ task[f] = "cached"
    \/ /\ outcome[f] = "cached"
       /\ \/ inflight[KeyOf[f]] = f
          \/ task[f] \in {"finish", "drop"} \cup Cleaning
          \/ \E r \in Reqs : flight[r] = f

\* A fetch for a clean key works on an empty path.
EmptyPath ==
    \A f \in Reqs :
        Clean(KeyOf[f]) /\ task[f] \in Fetching => disk[KeyOf[f]] = None

\* Between pin and rename the key's pin is the flight's own.
OwnPin == \A f \in Reqs : task[f] = "publish" => pins[KeyOf[f]] = f

\* As long as somebody refers to a published flight of a clean key, the path
\* names the flight's file and the pin is the flight's.
Guarded ==
    \A f \in Reqs :
        Clean(KeyOf[f]) /\ Published(f) =>
            disk[KeyOf[f]] = f /\ pins[KeyOf[f]] = f

\* The pin check of a clean key is not outdated when its file is removed.
FreshCheck == scan = "remove" /\ Clean(victim) => pins[victim] = None

HandoffInv == EmptyPath /\ OwnPin /\ Guarded /\ FreshCheck /\ PinnedHandoff

\* At the start nothing is published or fetched.
LEMMA InitHandoff == Init => HandoffInv
<1> SUFFICES ASSUME Init PROVE HandoffInv
  OBVIOUS
<1>1. \A f \in Reqs : task[f] = "none" /\ outcome[f] = None /\ req[f] = "idle"
  BY DEF Init
<1>2. \A f \in Reqs : ~Published(f)
  BY <1>1, ConstantsAssumption DEF Published, Cleaning
<1>3. QED
  BY <1>1, <1>2
  DEF HandoffInv, EmptyPath, OwnPin, Guarded, FreshCheck, PinnedHandoff, Fetching, Init

\* A step that keeps the published files, drops pins at most, begins no removal
\* and after which no flight is newly published or fetching keeps the invariant.
LEMMA HandoffFrame ==
  ASSUME BaseInv, HandoffInv,
         UNCHANGED <<disk, redundant, strayed>>,
         UNCHANGED <<scan, victim>> \/ scan' # "remove",
         DropPins \/ UNCHANGED pins,
         \A f \in Reqs : task'[f] \in Fetching => task[f] \in Fetching,
         \A f \in Reqs : task'[f] = "publish" => task[f] = "publish",
         \A f \in Reqs : Published(f)' => Published(f),
         \A r \in Reqs : req'[r] = "missing" => req[r] = "missing" \/ ~Clean(KeyOf[r])
  PROVE  HandoffInv'
<1> USE ConstantsAssumption DEF BaseInv, Types
<1>1. /\ \A k \in Keys : pins'[k] \in {pins[k], None}
      /\ \A k \in Keys, f \in Reqs : pins[k] = f /\ Holds(f)' => pins'[k] = f
  BY DropPinsFacts
<1>2. \A k : Clean(k)' <=> Clean(k)
  BY DEF Clean
<1>3. EmptyPath'
  BY <1>2 DEF HandoffInv, EmptyPath
<1>4. OwnPin'
  BY <1>1 DEF HandoffInv, OwnPin, Holds
<1>5. Guarded'
  <2>1. \A f \in Reqs : Published(f)' => Holds(f)'
    BY DEF Published, Holds
  <2>2. QED
    BY <1>1, <1>2, <2>1 DEF HandoffInv, Guarded
<1>6. FreshCheck'
  BY <1>1, <1>2 DEF HandoffInv, FreshCheck, Scan
<1>7. PinnedHandoff'
  BY DEF HandoffInv, PinnedHandoff, Clean
<1>8. QED
  BY <1>3, <1>4, <1>5, <1>6, <1>7 DEF HandoffInv

\* Every step keeps published entries guarded while they are handed over.
LEMMA NextHandoff == BaseInv /\ HandoffInv /\ [Next]_vars => HandoffInv'
<1> SUFFICES ASSUME BaseInv, HandoffInv, [Next]_vars PROVE HandoffInv'
  OBVIOUS
<1> USE ConstantsAssumption
    DEF BaseInv, Types, SingleFlight, Registered, Permitted, Fetching, Signalling,
        Cleaning, cacheVars, pinVars, reqVars, fileVars, scanVars, inlineVars, lifeVars
<1>1. ASSUME NEW r \in Reqs, Lookup(r) \/ JoinLate(r) PROVE HandoffInv'
  <2>1. \A f \in Reqs : Published(f)' => Published(f)
    BY <1>1 DEF Lookup, JoinLate, Join, Published
  <2>2. QED
    BY <1>1, <2>1, HandoffFrame DEF Lookup, JoinLate, Join
<1>2. ASSUME NEW r \in Reqs, Load(r) \/ LoadFails(r) \/ Refuse(r) PROVE HandoffInv'
  <2>1. \A f \in Reqs : Published(f)' => Published(f)
    BY <1>2 DEF Load, LoadFails, Refuse, Published
  <2>2. QED
    BY <1>2, <2>1, HandoffFrame DEF Load, LoadFails, Refuse
<1>3. ASSUME NEW r \in Reqs, Lead(r) PROVE HandoffInv'
  <2>1. \A k : Clean(k)' => Clean(k)
    BY <1>3 DEF Lead, StartFlight, Clean
  <2>2. Clean(KeyOf[r])' => disk[KeyOf[r]] = None
    BY <1>3 DEF Lead, StartFlight, Clean
  <2>3. task[r] = "none" /\ outcome[r] = None
    BY <1>3 DEF Lead, Requests, Outcomes
  <2>4. \A f \in Reqs : Published(f)' => Published(f)
    BY <1>3, <2>3 DEF Lead, StartFlight, Published
  <2>5. EmptyPath'
    BY <1>3, <2>1, <2>2 DEF Lead, StartFlight, HandoffInv, EmptyPath
  <2>6. OwnPin'
    BY <1>3 DEF Lead, StartFlight, HandoffInv, OwnPin
  <2>7. Guarded'
    BY <1>3, <2>1, <2>4 DEF Lead, StartFlight, HandoffInv, Guarded
  <2>8. FreshCheck'
    BY <1>3, <2>1 DEF Lead, StartFlight, HandoffInv, FreshCheck
  <2>9. PinnedHandoff'
    BY <1>3 DEF Lead, StartFlight, HandoffInv, PinnedHandoff
  <2>10. QED
    BY <2>5, <2>6, <2>7, <2>8, <2>9 DEF HandoffInv
<1>4. ASSUME NEW r \in Reqs, Wake(r) \/ OpenFails(r) \/ Disconnect(r) PROVE HandoffInv'
  <2>1. \A f \in Reqs : Published(f)' => Published(f)
    BY <1>4 DEF Wake, OpenFails, Disconnect, Published
  <2>2. \A x \in Reqs : req'[x] = "missing" => req[x] = "missing"
    BY <1>4 DEF Wake, OpenFails, Disconnect
  <2>3. QED
    BY <1>4, <2>1, <2>2, HandoffFrame DEF Wake, OpenFails, Disconnect
<1>5. ASSUME NEW r \in Reqs, Open(r) PROVE HandoffInv'
  <2>1. \A f \in Reqs : Published(f)' => Published(f)
    BY <1>5 DEF Open, Published
  <2>2. disk[KeyOf[r]] = None => ~Clean(KeyOf[r])
    <3>1. Published(flight[r]) /\ flight[r] \in Reqs /\ KeyOf[flight[r]] = KeyOf[r]
      BY <1>5 DEF Open, Requests, Waiting, Published
    <3>2. QED
      BY <3>1 DEF HandoffInv, Guarded
  <2>3. \A x \in Reqs : req'[x] = "missing" => req[x] = "missing" \/ ~Clean(KeyOf[x])
    BY <1>5, <2>2 DEF Open, Readable
  <2>4. QED
    BY <1>5, <2>1, <2>3, HandoffFrame DEF Open
<1>6. ASSUME NEW f \in Reqs, FetchOk(f) \/ FetchNotOk(f) \/ StreamEnds(f) \/ Discard(f)
      PROVE  HandoffInv'
  <2>1. \A g \in Reqs : Published(g)' => Published(g)
    BY <1>6 DEF FetchOk, FetchNotOk, StreamEnds, Discard, Published
  <2>2. QED
    BY <1>6, <2>1, HandoffFrame DEF FetchOk, FetchNotOk, StreamEnds, Discard
<1>7. ASSUME NEW f \in Reqs, Append(f) PROVE HandoffInv'
  <2>1. \A g \in Reqs : Published(g)' => Published(g)
    BY <1>7 DEF Append, Published
  <2>2. \A k : Clean(k)' <=> Clean(k)
    BY <1>7 DEF Append, Clean
  <2>3. Clean(KeyOf[f]) => disk[KeyOf[f]] = None
    BY <1>7 DEF Append, HandoffInv, EmptyPath
  <2>4. EmptyPath'
    BY <1>7, <2>2 DEF Append, HandoffInv, EmptyPath
  <2>5. OwnPin'
    BY <1>7 DEF Append, HandoffInv, OwnPin
  <2>6. Guarded'
    BY <1>7, <2>1, <2>2, <2>3 DEF Append, HandoffInv, Guarded
  <2>7. FreshCheck'
    <3>1. scan = "remove" /\ Clean(victim) => disk[victim] # None
      BY DEF Scan, Clean
    <3>2. scan = "remove" /\ Clean(victim) => KeyOf[f] # victim
      BY <2>3, <3>1
    <3>3. QED
      BY <1>7, <2>2, <3>2 DEF Append, HandoffInv, FreshCheck
  <2>8. PinnedHandoff'
    BY <1>7 DEF Append, HandoffInv, PinnedHandoff
  <2>9. QED
    BY <2>4, <2>5, <2>6, <2>7, <2>8 DEF HandoffInv
<1>8. ASSUME NEW f \in Reqs, Publish(f) PROVE HandoffInv'
  <2>1. \A g \in Reqs : Published(g)' => g = f \/ Published(g)
    BY <1>8 DEF Publish, Published
  <2>2. \A k : Clean(k)' <=> Clean(k)
    BY <1>8 DEF Publish, Clean
  <2>3. Clean(KeyOf[f]) => disk[KeyOf[f]] = None
    BY <1>8 DEF Publish, HandoffInv, EmptyPath
  <2>4. pins[KeyOf[f]] = f
    BY <1>8 DEF Publish, HandoffInv, OwnPin
  <2>5. EmptyPath'
    BY <1>8, <2>2 DEF Publish, HandoffInv, EmptyPath
  <2>6. OwnPin'
    BY <1>8 DEF Publish, HandoffInv, OwnPin
  <2>7. Guarded'
    BY <1>8, <2>1, <2>2, <2>3, <2>4 DEF Publish, HandoffInv, Guarded
  <2>8. FreshCheck'
    BY <1>8, <2>2 DEF Publish, HandoffInv, FreshCheck
  <2>9. PinnedHandoff'
    BY <1>8 DEF Publish, HandoffInv, PinnedHandoff
  <2>10. QED
    BY <2>5, <2>6, <2>7, <2>8, <2>9 DEF HandoffInv
<1>9. ASSUME NEW f \in Reqs, FetchFails(f) \/ Signal(f) PROVE HandoffInv'
  <2>1. \A g \in Reqs : Published(g)' => Published(g)
    BY <1>9 DEF FetchFails, Signal, Published
  <2>2. QED
    BY <1>9, <2>1, HandoffFrame DEF FetchFails, Signal
<1>10. ASSUME NEW f \in Reqs, Finish(f) \/ DropLeader(f) PROVE HandoffInv'
  <2>1. \A g \in Reqs : Published(g)' => Published(g)
    BY <1>10 DEF Finish, DropLeader, Published
  <2>2. QED
    BY <1>10, <2>1, HandoffFrame DEF Finish, DropLeader
<1>11. ASSUME NEW f \in Reqs, Abort(f) PROVE HandoffInv'
  <2>1. \A g \in Reqs : Published(g)' => Published(g)
    BY <1>11 DEF Abort, Published
  <2>2. QED
    BY <1>11, <2>1, HandoffFrame DEF Abort
<1>12. ASSUME NEW f \in Reqs, CleanTemp(f) \/ CleanFail(f) \/ CleanFinish(f)
       PROVE  HandoffInv'
  <2>1. \A g \in Reqs : Published(g)' => Published(g)
    BY <1>12 DEF CleanTemp, CleanFail, CleanFinish, Published
  <2>2. QED
    BY <1>12, <2>1, HandoffFrame DEF CleanTemp, CleanFail, CleanFinish
<1>13. ASSUME \/ Restart
              \/ \E f \in Reqs : FooterLands(f) \/ FooterFails(f)
              \/ \E k \in Keys : ListEntry(k) \/ RemoveStale(k)
              \/ UNCHANGED vars
       PROVE  HandoffInv'
  <2>1. \A g \in Reqs : Published(g)' => Published(g)
    BY <1>13 DEF Restart, FooterLands, FooterFails, ListEntry, RemoveStale, vars, Published
  <2>2. QED
    BY <1>13, <2>1, HandoffFrame
    DEF Restart, FooterLands, FooterFails, ListEntry, RemoveStale, vars
<1>14. CASE \/ JanitorWakes \/ ListEnds \/ ScanEnds \/ ScanFails \/ RemoveFails \/ CleanupEnds
            \/ InlineBegins \/ InlineCut
  <2>1. \A g \in Reqs : Published(g)' => Published(g)
    BY <1>14
    DEF JanitorWakes, ListEnds, ScanEnds, ScanFails, RemoveFails, CleanupEnds,
        InlineBegins, InlineCut, Published
  <2>2. QED
    BY <1>14, <2>1, HandoffFrame
    DEF JanitorWakes, ListEnds, ScanEnds, ScanFails, RemoveFails, CleanupEnds, InlineBegins,
        InlineCut, BeginScan
<1>15. ASSUME NEW k \in Keys, CheckEntry(k) PROVE HandoffInv'
  <2>1. \A g \in Reqs : Published(g)' => Published(g)
    BY <1>15 DEF CheckEntry, Published
  <2>2. CASE scan' # "remove"
    BY <1>15, <2>1, <2>2, HandoffFrame DEF CheckEntry
  <2>3. CASE pins[k] = None
    <3>1. \A x : Clean(x)' <=> Clean(x)
      BY <1>15 DEF CheckEntry, Clean
    <3>2. EmptyPath' /\ OwnPin' /\ PinnedHandoff'
      BY <1>15, <3>1 DEF CheckEntry, HandoffInv, EmptyPath, OwnPin, PinnedHandoff
    <3>3. Guarded'
      BY <1>15, <2>1, <3>1 DEF CheckEntry, HandoffInv, Guarded
    <3>4. FreshCheck'
      BY <1>15, <2>3 DEF CheckEntry, FreshCheck
    <3>5. QED
      BY <3>2, <3>3, <3>4 DEF HandoffInv
  <2>4. QED
    BY <1>15, <2>2, <2>3 DEF CheckEntry
<1>16. CASE RemoveEntry
  <2>1. \A g \in Reqs : Published(g)' => Published(g)
    BY <1>16 DEF RemoveEntry, Published
  <2>2. \A x : Clean(x)' <=> Clean(x)
    BY <1>16 DEF RemoveEntry, Clean
  <2>3. victim \in Keys /\ (Clean(victim) => pins[victim] = None)
    BY <1>16 DEF RemoveEntry, HandoffInv, FreshCheck, Scan
  <2>4. EmptyPath' /\ OwnPin' /\ PinnedHandoff' /\ FreshCheck'
    BY <1>16, <2>2, <2>3
    DEF RemoveEntry, HandoffInv, EmptyPath, OwnPin, PinnedHandoff, FreshCheck
  <2>5. Guarded'
    BY <1>16, <2>1, <2>2, <2>3 DEF RemoveEntry, HandoffInv, Guarded
  <2>6. QED
    BY <2>4, <2>5 DEF HandoffInv
<1>17. CASE Crash
  <2>1. /\ \A g \in Reqs : task'[g] \in {"none", "done"} /\ flight'[g] = None
        /\ \A k \in Keys : inflight'[k] = None
    BY <1>17 DEF Crash
  <2>2. \A g \in Reqs : ~Published(g)'
    BY <2>1 DEF Published
  <2>3. EmptyPath' /\ OwnPin' /\ Guarded'
    BY <2>1, <2>2 DEF EmptyPath, OwnPin, Guarded
  <2>4. FreshCheck' /\ PinnedHandoff'
    BY <1>17 DEF Crash, FreshCheck, PinnedHandoff, HandoffInv
  <2>5. QED
    BY <2>3, <2>4 DEF HandoffInv
<1>18. ASSUME NEW k \in Keys, LateRemoval(k) PROVE HandoffInv'
  <2>1. \A g \in Reqs : Published(g)' => Published(g)
    BY <1>18 DEF LateRemoval, Published
  <2>2. \A x : Clean(x)' => Clean(x)
    BY <1>18 DEF LateRemoval, Clean
  <2>3. \A x \in Keys : Clean(x)' => disk'[x] = disk[x]
    BY <1>18 DEF LateRemoval, Clean
  <2>4. EmptyPath' /\ OwnPin' /\ FreshCheck'
    BY <1>18, <2>2, <2>3 DEF LateRemoval, HandoffInv, EmptyPath, OwnPin, FreshCheck
  <2>5. Guarded'
    BY <1>18, <2>1, <2>2, <2>3 DEF LateRemoval, HandoffInv, Guarded
  <2>6. PinnedHandoff'
    BY <1>18 DEF LateRemoval, HandoffInv, PinnedHandoff
  <2>7. QED
    BY <2>4, <2>5, <2>6 DEF HandoffInv
<1>19. QED
  BY <1>1, <1>2, <1>3, <1>4, <1>5, <1>6, <1>7, <1>8, <1>9, <1>10, <1>11, <1>12, <1>13,
     <1>14, <1>15, <1>16, <1>17, <1>18
  DEF Next, ReqStep, FetchStep, CleanStep, ScanStep, StartupStep, Settled

-------------------------------------------------------------------------------
(* The disk bound.  Two operations may fail without anybody noticing: a     *)
(* failed listing ends a scan, and a file that cannot be removed stays.     *)
(* Without those, a scan is about to begin or somebody holds the pin whose  *)
(* drop will ask for one, or else what the last scan left obeys the bound.  *)

\* Every pin is that of a PublishedEntry somebody holds.
PinsHeld == \A k \in Keys, f \in Reqs : pins[k] = f => Holds(f)

\* What a scan has listed is what it need not read any more.
ScanOrder ==
    /\ left \cap unseen = {}
    /\ scan \in {"evict", "remove"} => unseen = {}

\* Another scan will be asked for, or has been.
Pending == queue \/ \E k \in Keys : pins[k] # None

\* What may be relied on when no other scan is to come: between scans the bound
\* holds, and during an inline scan too, as its client may leave; and a scan has
\* counted every file there is in what it has read, beside the metadata.
Kept ==
    /\ (scan = "idle" \/ inline) /\ phase = "serving" => DiskTotal <= MaxCacheSize
    /\ scan # "idle" => /\ SumFunctionOnSet(Size, left) <= total
                        /\ \A k \in Keys \ unseen : disk[k] # None => k \in left

BoundInv == PinsHeld /\ ScanOrder /\ (Pending \/ Kept)

\* At the start nothing is pinned and the bound holds.
LEMMA InitBound == Init => BoundInv
<1> SUFFICES ASSUME Init PROVE BoundInv
  OBVIOUS
<1>1. PinsHeld
  BY ConstantsAssumption DEF Init, PinsHeld
<1>2. ScanOrder /\ Kept
  BY DEF Init, ScanOrder, Kept
<1>3. QED
  BY <1>1, <1>2 DEF BoundInv

\* A PublishedEntry that is dropped takes its pin with it and asks for a scan.
LEMMA DropPinsBound ==
  ASSUME pins \in [Keys -> Reqs \cup {None}], queue \in BOOLEAN, DropPins
  PROVE  PinsHeld' /\ (Pending => Pending')
<1> DEFINE dropped == {k \in Keys : \E f \in Reqs : pins[k] = f /\ ~Holds(f)'}
<1>1. /\ pins' = [k \in Keys |-> IF k \in dropped THEN None ELSE pins[k]]
      /\ queue' = (queue \/ dropped # {})
  BY DEF DropPins
<1>2. \A k \in Keys, f \in Reqs : pins[k] = f /\ ~Holds(f)' => k \in dropped
  OBVIOUS
<1> HIDE DEF dropped
<1>3. PinsHeld'
  <2> SUFFICES ASSUME NEW k \in Keys, NEW f \in Reqs, pins'[k] = f
               PROVE  Holds(f)'
    BY DEF PinsHeld
  <2>1. k \notin dropped /\ pins[k] = f
    BY <1>1, ConstantsAssumption
  <2>2. QED
    BY <1>2, <2>1
<1>4. ASSUME Pending PROVE Pending'
  <2>1. CASE queue \/ dropped # {}
    BY <1>1, <2>1 DEF Pending
  <2>2. CASE ~queue /\ dropped = {}
    BY <1>1, <1>4, <2>2 DEF Pending
  <2>3. QED
    BY <2>1, <2>2
<1>5. QED
  BY <1>3, <1>4

\* A step of a request or a fetch that leaves the files and the scan alone.
LEMMA BoundFrame ==
  ASSUME BaseInv, BoundInv,
         UNCHANGED <<disk, scan, unseen, left, total, inline, phase>>,
         \/ DropPins
         \/ UNCHANGED <<pins, queue>> /\ \A f \in Reqs : Holds(f) => Holds(f)'
  PROVE  BoundInv'
<1>1. pins \in [Keys -> Reqs \cup {None}] /\ queue \in BOOLEAN
  BY DEF BaseInv, Types
<1>2. PinsHeld' /\ (Pending => Pending')
  <2>1. CASE DropPins
    BY <1>1, <2>1, DropPinsBound
  <2>2. CASE UNCHANGED <<pins, queue>> /\ \A f \in Reqs : Holds(f) => Holds(f)'
    BY <2>2 DEF BoundInv, PinsHeld, Pending
  <2>3. QED
    BY <2>1, <2>2
<1>3. ScanOrder'
  BY DEF BoundInv, ScanOrder
<1>4. Kept => Kept'
  BY DEF Kept, DiskTotal
<1>5. QED
  BY <1>2, <1>3, <1>4 DEF BoundInv

\* A step of the janitor or of startup, which holds no pin.
LEMMA HoldsFrame ==
  ASSUME UNCHANGED <<task, outcome, inflight, flight>>
  PROVE  \A f \in Reqs : Holds(f) => Holds(f)'
BY DEF Holds

\* Requests and fetches keep what the bound rests on.
LEMMA NextBoundServing ==
  ASSUME BaseInv, OwnPin, BoundInv, NEW r \in Reqs,
         \/ Lookup(r) \/ LoadFails(r) \/ OpenFails(r) \/ Disconnect(r)
         \/ ReqStep(r) \/ FetchStep(r) \/ Abort(r) \/ CleanStep(r)
         \/ FooterLands(r) \/ FooterFails(r)
  PROVE  BoundInv'
<1> USE DEF cacheVars, pinVars, reqVars, fileVars, scanVars, inlineVars, lifeVars
<1>1. CASE Lookup(r) \/ JoinLate(r)
  <2>1. flight[r] = None
    BY <1>1 DEF Lookup, JoinLate, BaseInv, Requests, Waiting
  <2>2. \A f \in Reqs : Holds(f) => Holds(f)'
    <3>1. UNCHANGED <<task, outcome, inflight>>
      BY <1>1 DEF Lookup, JoinLate
    <3>2. \A f, x \in Reqs : flight[x] = f => flight'[x] = f
      BY <1>1, <2>1, ConstantsAssumption DEF Lookup, JoinLate, Join, BaseInv, Types
    <3>3. QED
      BY <3>1, <3>2 DEF Holds
  <2>3. QED
    BY <1>1, <2>2, BoundFrame DEF Lookup, JoinLate
<1>2. CASE Load(r) \/ LoadFails(r) \/ Refuse(r) \/ FooterLands(r) \/ FooterFails(r)
  BY <1>2, HoldsFrame, BoundFrame DEF Load, LoadFails, Refuse, FooterLands, FooterFails
<1>3. CASE Lead(r)
  <2>1. flight[r] = None /\ task[r] = "none" /\ outcome[r] = None
    BY <1>3 DEF Lead, BaseInv, Requests, Outcomes, Waiting
  <2>2. inflight[KeyOf[r]] = None
    BY <1>3 DEF Lead
  <2>3. \A f \in Reqs : Holds(f) => Holds(f)'
    BY <1>3, <2>1, <2>2, ConstantsAssumption DEF Lead, StartFlight, Holds, BaseInv, Types
  <2>4. QED
    BY <1>3, <2>3, BoundFrame DEF Lead, StartFlight
<1>4. CASE Wake(r) \/ Open(r) \/ OpenFails(r) \/ Disconnect(r)
  BY <1>4, BoundFrame DEF Wake, Open, OpenFails, Disconnect
<1>5. CASE FetchFails(r) \/ Signal(r) \/ DropLeader(r) \/ Abort(r) \/ CleanFinish(r)
  BY <1>5, BoundFrame DEF FetchFails, Signal, DropLeader, Abort, CleanFinish
<1>6. CASE FetchOk(r) \/ FetchNotOk(r) \/ StreamEnds(r) \/ Discard(r)
  <2>1. outcome[r] = None /\ task[r] \notin {"publish", "cached"}
    BY <1>6 DEF FetchOk, FetchNotOk, StreamEnds, Discard, BaseInv, Outcomes, Fetching
  <2>2. \A f \in Reqs : Holds(f) => Holds(f)'
    BY <1>6, <2>1, ConstantsAssumption
    DEF FetchOk, FetchNotOk, StreamEnds, Discard, Holds, BaseInv, Types
  <2>3. QED
    BY <1>6, <2>2, BoundFrame DEF FetchOk, FetchNotOk, StreamEnds, Discard
<1>7. CASE Finish(r) \/ CleanTemp(r) \/ CleanFail(r)
  <2>1. \A f \in Reqs : Holds(f) => Holds(f)'
    <3>1. /\ task[r] \in {"finish"} \cup Cleaning
          /\ task'[r] \in {"drop"} \cup Cleaning
          /\ \A f \in Reqs \ {r} : task'[f] = task[f]
      BY <1>7 DEF Finish, CleanTemp, CleanFail, Cleaning, BaseInv, Types
    <3>2. \A f \in Reqs : outcome[f] # None => outcome'[f] = outcome[f]
      BY <1>7 DEF Finish, CleanTemp, CleanFail, BaseInv, Types
    <3>3. \A f \in Reqs \ {r} : inflight[KeyOf[f]] = f => inflight'[KeyOf[f]] = f
      <4>1. inflight[KeyOf[r]] = r
        BY <3>1 DEF BaseInv, SingleFlight, Registered, Permitted, Cleaning
      <4>2. QED
        BY <1>7, <4>1, ConstantsAssumption
        DEF Finish, CleanTemp, CleanFail, BaseInv, Types
    <3>4. flight' = flight
      BY <1>7 DEF Finish, CleanTemp, CleanFail
    <3>5. QED
      BY <3>1, <3>2, <3>3, <3>4, ConstantsAssumption DEF Holds, Cleaning
  <2>2. QED
    BY <1>7, <2>1, BoundFrame DEF Finish, CleanTemp, CleanFail
<1>8. CASE Append(r) \/ Publish(r)
  <2>1. \A f \in Reqs : Holds(f) => Holds(f)'
    BY <1>8 DEF Append, Publish, Holds, BaseInv, Types
  <2>2. Holds(r)'
    BY <1>8 DEF Append, Publish, Holds, BaseInv, Types
  <2>3. pins'[KeyOf[r]] = r /\ KeyOf[r] \in Keys
    BY <1>8, ConstantsAssumption DEF Append, Publish, OwnPin, BaseInv, Types
  <2>4. PinsHeld'
    BY <1>8, <2>1, <2>2 DEF Append, Publish, PinsHeld, BoundInv, BaseInv, Types
  <2>5. ScanOrder'
    BY <1>8 DEF Append, Publish, BoundInv, ScanOrder
  <2>6. Pending'
    BY <2>3, ConstantsAssumption DEF Pending
  <2>7. QED
    BY <2>4, <2>5, <2>6 DEF BoundInv
<1>9. QED
  BY <1>1, <1>2, <1>3, <1>4, <1>5, <1>6, <1>7, <1>8 DEF ReqStep, FetchStep, CleanStep

\* Removals only bring the bytes on disk down.
LEMMA DiskShrinks ==
  ASSUME \A k \in Keys : disk'[k] \in {disk[k], None}
  PROVE  DiskTotal' <= DiskTotal /\ DiskTotal \in Nat /\ DiskTotal' \in Nat
<1> DEFINE before == {k \in Keys : disk[k] # None}
           after == {k \in Keys : disk'[k] # None}
<1>1. after \in SUBSET before /\ before \in SUBSET Keys
  OBVIOUS
<1>2. IsFiniteSet(before) /\ IsFiniteSet(after)
  BY <1>1, FS_Subset, ConstantsAssumption
<1>3. \A k \in before : Size[k] \in Nat
  BY ConstantsAssumption
<1>4. \A k \in after : Size[k] \in Nat
  BY <1>1, <1>3
<1>5. DiskTotal = SumFunctionOnSet(Size, before) /\ DiskTotal' = SumFunctionOnSet(Size, after)
  BY DEF DiskTotal
<1> HIDE DEF before, after
<1>6. SumFunctionOnSet(Size, after) <= SumFunctionOnSet(Size, before)
  BY <1>1, <1>2, <1>3, SumSubset
<1>7. SumFunctionOnSet(Size, before) \in Nat /\ SumFunctionOnSet(Size, after) \in Nat
  BY <1>2, <1>3, <1>4, SumNat
<1>8. QED
  BY <1>5, <1>6, <1>7

\* What a scan adds up.
LEMMA LeftSums ==
  ASSUME BaseInv
  PROVE  /\ IsFiniteSet(left)
         /\ \A k \in left : Size[k] \in Nat
         /\ SumFunctionOnSet(Size, left) \in Nat
<1>1. IsFiniteSet(left)
  BY FS_Subset, ConstantsAssumption DEF BaseInv, Types
<1>2. \A k \in left : Size[k] \in Nat
  BY ConstantsAssumption DEF BaseInv, Types
<1>3. QED
  BY <1>1, <1>2, SumNat

\* A scan that can list and remove keeps what the bound rests on.
LEMMA NextBoundScan ==
  ASSUME IOFaults \cap {"list", "remove"} = {}, BaseInv, BoundInv,
         \/ ScanStep \/ ScanFails \/ Crash \/ StartupStep
         \/ InlineBegins \/ InlineCut \/ \E k \in Keys : LateRemoval(k)
  PROVE  BoundInv'
<1> USE DEF cacheVars, pinVars, reqVars, fileVars, scanVars, inlineVars, lifeVars
<1>1. CASE ScanFails \/ RemoveFails
  BY <1>1 DEF ScanFails, RemoveFails
<1>2. CASE JanitorWakes \/ CleanupEnds
  <2>1. PinsHeld'
    <3>1. UNCHANGED <<task, outcome, inflight, flight>> /\ UNCHANGED pins
      BY <1>2 DEF JanitorWakes, CleanupEnds
    <3>2. QED
      BY <3>1, HoldsFrame DEF PinsHeld, BoundInv
  <2>2. BeginScan
    BY <1>2 DEF JanitorWakes, CleanupEnds
  <2>3. ScanOrder'
    BY <2>2 DEF BeginScan, ScanOrder
  <2>4. Kept'
    <3>1. ~inline'
      BY <1>2 DEF JanitorWakes, CleanupEnds, BaseInv, Scan
    <3>2. /\ scan' = "list" /\ unseen' = Keys /\ left' = {} /\ total' \in Nat
      BY <2>2, ConstantsAssumption DEF BeginScan
    <3>3. SumFunctionOnSet(Size, left') = 0
      BY <3>2, SumEmpty
    <3>4. QED
      BY <3>1, <3>2, <3>3 DEF Kept
  <2>5. QED
    BY <2>1, <2>3, <2>4 DEF BoundInv
<1>3. CASE Crash
  <2>1. \A k \in Keys : pins'[k] = None
    BY <1>3 DEF Crash
  <2>2. PinsHeld'
    BY <2>1, ConstantsAssumption DEF PinsHeld
  <2>3. ScanOrder' /\ Kept'
    BY <1>3, SumEmpty DEF Crash, ScanOrder, Kept
  <2>4. QED
    BY <2>2, <2>3 DEF BoundInv
<1>4. ASSUME UNCHANGED <<task, outcome, inflight, flight, pins, queue>>,
             ScanOrder', Pending \/ Kept'
      PROVE  BoundInv'
  <2>1. PinsHeld'
    BY <1>4, HoldsFrame DEF PinsHeld, BoundInv
  <2>2. Pending => Pending'
    BY <1>4 DEF Pending
  <2>3. QED
    BY <1>4, <2>1, <2>2 DEF BoundInv
<1>5. CASE Restart \/ \E k \in Keys : RemoveStale(k)
  <2>1. UNCHANGED <<task, outcome, inflight, flight, pins, queue, scan, unseen, left,
                    total, disk>>
    BY <1>5 DEF Restart, RemoveStale
  <2>2. phase' # "serving"
    BY <1>5 DEF Restart, RemoveStale
  <2>3. ScanOrder'
    BY <2>1 DEF ScanOrder, BoundInv
  <2>4. Kept => Kept'
    BY <2>1, <2>2 DEF Kept
  <2>5. QED
    BY <1>4, <2>1, <2>3, <2>4 DEF BoundInv
<1>6. ASSUME NEW k \in Keys, ListEntry(k) PROVE BoundInv'
  <2>1. UNCHANGED <<task, outcome, inflight, flight, pins, queue>>
    BY <1>6 DEF ListEntry
  <2>2. ScanOrder'
    BY <1>6 DEF ListEntry, ScanOrder, BoundInv
  <2>3. ASSUME Kept PROVE Kept'
    <3>1. k \notin left
      BY <1>6 DEF ListEntry, ScanOrder, BoundInv
    <3>2. SumFunctionOnSet(Size, left') <= total'
      <4>1. CASE disk[k] = None
        BY <1>6, <2>3, <4>1 DEF ListEntry, Kept
      <4>2. CASE disk[k] # None
        <5>1. left' = left \cup {k} /\ total' = total + Size[k]
          BY <1>6, <4>2 DEF ListEntry
        <5>2. IsFiniteSet(left \cup {k})
          BY LeftSums, FS_AddElement
        <5>3. \A j \in left \cup {k} : Size[j] \in Int
          BY LeftSums, ConstantsAssumption
        <5>4. (left \cup {k}) \ {k} = left
          BY <3>1
        <5>5. SumFunctionOnSet(Size, left \cup {k}) = Size[k] + SumFunctionOnSet(Size, left)
          BY <5>2, <5>3, <5>4, SumOneOut
        <5>6. SumFunctionOnSet(Size, left) <= total
          BY <1>6, <2>3 DEF ListEntry, Kept
        <5>7. total \in Nat /\ Size[k] \in Nat /\ SumFunctionOnSet(Size, left) \in Nat
          BY LeftSums, ConstantsAssumption DEF BaseInv, Types
        <5>8. QED
          BY <5>1, <5>5, <5>6, <5>7
      <4>3. QED
        BY <4>1, <4>2
    <3>3. \A j \in Keys \ unseen' : disk'[j] # None => j \in left'
      BY <1>6, <2>3 DEF ListEntry, Kept
    <3>4. scan # "idle" /\ UNCHANGED <<scan, inline, phase, disk>>
      BY <1>6 DEF ListEntry
    <3>5. DiskTotal' = DiskTotal
      BY <3>4 DEF DiskTotal
    <3>6. QED
      BY <2>3, <3>2, <3>3, <3>4, <3>5 DEF Kept
  <2>4. QED
    BY <1>4, <2>1, <2>2, <2>3 DEF BoundInv
<1>7. CASE ListEnds
  <2>1. UNCHANGED <<task, outcome, inflight, flight, pins, queue>>
    BY <1>7 DEF ListEnds
  <2>2. ScanOrder'
    BY <1>7 DEF ListEnds, ScanOrder, BoundInv
  <2>3. Kept => Kept'
    BY <1>7 DEF ListEnds, Kept, DiskTotal
  <2>4. QED
    BY <1>4, <2>1, <2>2, <2>3 DEF BoundInv
<1>8. ASSUME NEW k \in Keys, CheckEntry(k) PROVE BoundInv'
  <2>1. UNCHANGED <<task, outcome, inflight, flight, pins, queue>>
    BY <1>8 DEF CheckEntry
  <2>2. ScanOrder'
    BY <1>8 DEF CheckEntry, ScanOrder, BoundInv
  <2>3. CASE pins[k] # None
    BY <1>4, <2>1, <2>2, <2>3 DEF Pending
  <2>4. CASE pins[k] = None
    <3>1. Kept => Kept'
      BY <1>8, <2>4 DEF CheckEntry, Kept, DiskTotal
    <3>2. QED
      BY <1>4, <2>1, <2>2, <3>1 DEF BoundInv
  <2>5. QED
    BY <2>3, <2>4
<1>9. CASE RemoveEntry
  <2>1. UNCHANGED <<task, outcome, inflight, flight, pins, queue>>
    BY <1>9 DEF RemoveEntry
  <2>2. ScanOrder'
    BY <1>9 DEF RemoveEntry, ScanOrder, BoundInv
  <2>3. ASSUME Kept PROVE Kept'
    <3>1. victim \in left /\ left' = left \ {victim}
      BY <1>9 DEF RemoveEntry, BaseInv, Scan
    <3>2. \A j \in left : Size[j] \in Int
      BY LeftSums
    <3>3. SumFunctionOnSet(Size, left)
            = Size[victim] + SumFunctionOnSet(Size, left \ {victim})
      BY <3>1, <3>2, LeftSums, SumOneOut
    <3>4. IsFiniteSet(left \ {victim}) /\ \A j \in left \ {victim} : Size[j] \in Nat
      BY LeftSums, FS_RemoveElement, <3>1
    <3>5. SumFunctionOnSet(Size, left \ {victim}) \in Nat
      BY <3>4, SumNat
    <3>6. SumFunctionOnSet(Size, left) <= total /\ Size[victim] \in Nat /\ total \in Nat
      BY <1>9, <2>3, <3>1, LeftSums DEF RemoveEntry, Kept, BaseInv, Types
    <3>7. SumFunctionOnSet(Size, left') <= total'
      <4>1. total >= Size[victim] /\ SumFunctionOnSet(Size, left \ {victim}) <= total - Size[victim]
        BY <3>3, <3>5, <3>6
      <4>2. QED
        BY <1>9, <3>1, <4>1 DEF RemoveEntry
    <3>8. \A j \in Keys \ unseen' : disk'[j] # None => j \in left'
      BY <1>9, <2>3 DEF RemoveEntry, Kept, BaseInv, Types
    <3>9. scan' # "idle" /\ UNCHANGED <<inline, phase>>
      BY <1>9 DEF RemoveEntry
    <3>10. DiskTotal' <= DiskTotal /\ DiskTotal \in Nat /\ DiskTotal' \in Nat
      <4>1. \A j \in Keys : disk'[j] \in {disk[j], None}
        BY <1>9 DEF RemoveEntry, BaseInv, Types
      <4>2. QED
        BY <4>1, DiskShrinks
    <3>11. inline /\ phase = "serving" => DiskTotal' <= MaxCacheSize
      BY <2>3, <3>10, ConstantsAssumption DEF Kept
    <3>12. QED
      BY <3>7, <3>8, <3>9, <3>11 DEF Kept
  <2>4. QED
    BY <1>4, <2>1, <2>2, <2>3 DEF BoundInv
<1>10. CASE ScanEnds
  <2>1. UNCHANGED <<task, outcome, inflight, flight, pins, queue>>
    BY <1>10 DEF ScanEnds
  <2>2. ScanOrder'
    BY <1>10 DEF ScanEnds, ScanOrder, BoundInv
  <2>3. ASSUME Kept PROVE Kept'
    <3>1. {j \in Keys : disk[j] # None} \in SUBSET left
      BY <1>10, <2>3 DEF ScanEnds, Kept, ScanOrder, BoundInv
    <3>2. /\ DiskTotal <= SumFunctionOnSet(Size, left)
          /\ DiskTotal \in Nat
      <4>1. DiskTotal <= SumFunctionOnSet(Size, left)
        BY <3>1, LeftSums, SumSubset DEF DiskTotal
      <4>2. disk' = disk
        BY <1>10 DEF ScanEnds
      <4>3. DiskTotal \in Nat
        BY <4>2, DiskShrinks
      <4>4. QED
        BY <4>1, <4>3
    <3>3. DiskTotal <= MaxCacheSize
      <4>1. CASE total <= MaxCacheSize
        <5>1. SumFunctionOnSet(Size, left) <= total
          BY <1>10, <2>3 DEF ScanEnds, Kept
        <5>2. QED
          BY <3>2, <4>1, <5>1, LeftSums, ConstantsAssumption DEF BaseInv, Types
      <4>2. CASE left = {}
        BY <3>2, <4>2, SumEmpty, ConstantsAssumption
      <4>3. QED
        BY <1>10, <4>1, <4>2 DEF ScanEnds
    <3>4. DiskTotal' = DiskTotal
      BY <1>10 DEF ScanEnds, DiskTotal
    <3>5. scan' = "idle"
      BY <1>10 DEF ScanEnds
    <3>6. QED
      BY <3>3, <3>4, <3>5 DEF Kept
  <2>4. QED
    BY <1>4, <2>1, <2>2, <2>3 DEF BoundInv
<1>11. CASE InlineBegins
  <2>1. UNCHANGED <<task, outcome, inflight, flight, pins, queue, disk>>
    BY <1>11 DEF InlineBegins
  <2>2. /\ scan' = "list" /\ unseen' = Keys /\ left' = {} /\ total' \in Nat
        /\ scan = "idle" /\ phase = "serving"
    BY <1>11, ConstantsAssumption DEF InlineBegins, BeginScan
  <2>3. ScanOrder'
    BY <2>2 DEF ScanOrder
  <2>4. ASSUME Kept PROVE Kept'
    <3>1. DiskTotal' <= MaxCacheSize
      BY <2>1, <2>2, <2>4 DEF Kept, DiskTotal
    <3>2. SumFunctionOnSet(Size, left') = 0
      BY <2>2, SumEmpty
    <3>3. QED
      BY <2>2, <3>1, <3>2 DEF Kept
  <2>5. QED
    BY <1>4, <2>1, <2>3, <2>4 DEF BoundInv
<1>12. CASE InlineCut
  <2>1. UNCHANGED <<task, outcome, inflight, flight, pins, queue, disk, phase>>
    BY <1>12 DEF InlineCut
  <2>2. ScanOrder'
    BY <1>12 DEF InlineCut, ScanOrder
  <2>3. Kept => Kept'
    BY <1>12, <2>1 DEF InlineCut, Kept, DiskTotal
  <2>4. QED
    BY <1>4, <2>1, <2>2, <2>3 DEF BoundInv
<1>13. ASSUME NEW k \in Keys, LateRemoval(k) PROVE BoundInv'
  <2>1. UNCHANGED <<task, outcome, inflight, flight, pins, queue, scan, unseen, left,
                    total, inline, phase>>
    BY <1>13 DEF LateRemoval
  <2>2. ScanOrder'
    BY <2>1 DEF ScanOrder, BoundInv
  <2>3. \A j \in Keys : disk'[j] \in {disk[j], None}
    BY <1>13 DEF LateRemoval, BaseInv, Types
  <2>4. DiskTotal' <= DiskTotal /\ DiskTotal \in Nat /\ DiskTotal' \in Nat
    BY <2>3, DiskShrinks
  <2>5. DiskTotal <= MaxCacheSize => DiskTotal' <= MaxCacheSize
    BY <2>4, ConstantsAssumption
  <2>6. Kept => Kept'
    BY <2>1, <2>3, <2>5 DEF Kept
  <2>7. QED
    BY <1>4, <2>1, <2>2, <2>6 DEF BoundInv
<1>14. QED
  BY <1>1, <1>2, <1>3, <1>5, <1>6, <1>7, <1>8, <1>9, <1>10, <1>11, <1>12, <1>13
  DEF ScanStep, StartupStep

\* Every step keeps what the bound rests on.
LEMMA NextBound ==
  ASSUME IOFaults \cap {"list", "remove"} = {}
  PROVE  BaseInv /\ OwnPin /\ BoundInv /\ [Next]_vars => BoundInv'
<1> SUFFICES ASSUME BaseInv, OwnPin, BoundInv, [Next]_vars PROVE BoundInv'
  OBVIOUS
<1>1. CASE UNCHANGED vars
  BY <1>1, HoldsFrame, BoundFrame
  DEF vars, cacheVars, pinVars, reqVars, fileVars, scanVars, inlineVars, lifeVars
<1>2. QED
  BY <1>1, NextBoundServing, NextBoundScan DEF Next, Settled

-------------------------------------------------------------------------------
(* Waiting requests.  That they end is a liveness property; that nobody waits *)
(* for a flight nothing is left of is the part of it that is safety.          *)

\* The flight's task, or the task of its guard, has yet to complete the Inflight.
Completing == Fetching \cup {"discard"} \cup Signalling \cup {"cleanTemp", "cleanFail"}

\* A request that waits has an outcome to wake up to, or somebody will give it
\* one: no error path, abort, disconnect or crash leaves a waiter alone.
Attended ==
    \A r \in Reqs : req[r] \in Waiting =>
        outcome[flight[r]] # None \/ task[flight[r]] \in Completing

\* A flight that is still in the map or in its task has been completed before.
Completed ==
    \A f \in Reqs : task[f] \in {"finish", "drop", "cleanFinish"} => outcome[f] # None

WaitInv == Attended /\ Completed

\* Every step preserves it; one case per action that touches what it speaks about.
LEMMA NextWait == BaseInv /\ WaitInv /\ [Next]_vars => WaitInv'
<1> SUFFICES ASSUME BaseInv, WaitInv, [Next]_vars PROVE WaitInv'
  OBVIOUS
<1> USE DEF WaitInv, Attended, Completed, Completing, Waiting, Fetching, Signalling
<1>1. /\ Requests /\ SingleFlight /\ Outcomes
      /\ req \in [Reqs -> {"idle"} \cup Running \cup Ended] /\ flight \in [Reqs -> Reqs \cup {None}]
      /\ task \in [Reqs -> {"none", "done"} \cup Permitted \cup Cleaning]
      /\ outcome \in [Reqs -> Signalling \cup {None}]
      /\ inflight \in [Keys -> Reqs \cup {None}]
  BY DEF BaseInv, Types
<1>2. None \notin Reqs \cup {"cached", "response", "failed"} /\ KeyOf \in [Reqs -> Keys]
  BY ConstantsAssumption
<1>3. CASE UNCHANGED <<req, flight, task, outcome>>
  BY <1>3
<1>4. ASSUME NEW r \in Reqs, Join(r), UNCHANGED <<task, outcome>> PROVE WaitInv'
  <2>1. inflight[KeyOf[r]] \in Reqs /\ task[inflight[KeyOf[r]]] \in Registered
    BY <1>1, <1>2, <1>4 DEF Join, SingleFlight
  <2>2. /\ req' = [req EXCEPT ![r] = "wait"]
        /\ flight' = [flight EXCEPT ![r] = inflight[KeyOf[r]]]
    BY <1>4 DEF Join
  <2>3. task[inflight[KeyOf[r]]] \in Completing \/ outcome[inflight[KeyOf[r]]] # None
    BY <2>1 DEF Registered, Permitted, Cleaning
  <2>4. QED
    BY <1>1, <1>4, <2>2, <2>3
<1>5. ASSUME NEW r \in Reqs, NEW end \in {"idle", "load", "recheck"} \cup Ended,
             req' = [req EXCEPT ![r] = end], UNCHANGED <<task, outcome>>,
             flight' \in {flight, [flight EXCEPT ![r] = None]}
      PROVE  WaitInv'
  BY <1>1, <1>5 DEF Ended
<1>6. ASSUME NEW r \in Reqs, Lookup(r) \/ JoinLate(r) PROVE WaitInv'
  BY <1>4, <1>5, <1>6 DEF Lookup, JoinLate
<1>7. ASSUME NEW r \in Reqs, Load(r) \/ LoadFails(r) \/ Refuse(r) PROVE WaitInv'
  BY <1>5, <1>7 DEF Load, LoadFails, Refuse, Ended
<1>8. ASSUME NEW r \in Reqs, Lead(r) PROVE WaitInv'
  <2>1. \A q \in Reqs : req[q] \in Waiting => flight[q] # r
    BY <1>1, <1>8 DEF Lead, Requests
  <2>2. QED
    BY <1>1, <1>8, <2>1 DEF Lead, StartFlight
<1>9. ASSUME NEW r \in Reqs, Wake(r) PROVE WaitInv'
  BY <1>1, <1>9 DEF Wake
<1>10. ASSUME NEW r \in Reqs, Open(r) \/ OpenFails(r) \/ Disconnect(r) PROVE WaitInv'
  BY <1>5, <1>10 DEF Open, OpenFails, Disconnect, Ended
<1>11. ASSUME NEW f \in Reqs, NEW next \in Completing, task[f] # "none",
              task' = [task EXCEPT ![f] = next], UNCHANGED <<req, flight, outcome>>
       PROVE  WaitInv'
  BY <1>1, <1>11
<1>12. ASSUME NEW f \in Reqs,
              \/ FetchOk(f) \/ FetchNotOk(f) \/ StreamEnds(f) \/ Append(f) \/ Publish(f)
              \/ FetchFails(f) \/ Discard(f) \/ Abort(f) \/ CleanTemp(f)
       PROVE  WaitInv'
  <2>1. task[f] # "none" /\ UNCHANGED <<req, flight, outcome>>
    BY <1>12 DEF FetchOk, FetchNotOk, StreamEnds, Append, Publish, FetchFails, Discard, Abort,
                 CleanTemp, reqVars, Permitted
  <2>2. \E next \in Completing : task' = [task EXCEPT ![f] = next]
    BY <1>12 DEF FetchOk, FetchNotOk, StreamEnds, Append, Publish, FetchFails, Discard, Abort,
                 CleanTemp
  <2>3. QED
    BY <1>11, <2>1, <2>2
<1>13. ASSUME NEW f \in Reqs, Signal(f) PROVE WaitInv'
  BY <1>1, <1>2, <1>13 DEF Signal, reqVars
<1>14. ASSUME NEW f \in Reqs, CleanFail(f) PROVE WaitInv'
  BY <1>1, <1>2, <1>14 DEF CleanFail, reqVars
<1>15. ASSUME NEW f \in Reqs, Finish(f) \/ DropLeader(f) \/ CleanFinish(f) PROVE WaitInv'
  <2>1. UNCHANGED <<req, flight, outcome>> /\ outcome[f] # None
    BY <1>15 DEF Finish, DropLeader, CleanFinish, reqVars
  <2>2. task' \in {[task EXCEPT ![f] = "drop"], [task EXCEPT ![f] = "done"]}
    BY <1>15 DEF Finish, DropLeader, CleanFinish
  <2>3. \A g \in Reqs : g # f => task'[g] = task[g]
    BY <1>1, <2>2
  <2>4. \A q \in Reqs : req[q] \in Waiting => flight[q] \in Reqs
    BY <1>1 DEF Requests
  <2>5. QED
    BY <2>1, <2>3, <2>4
<1>16. CASE Crash
  BY <1>1, <1>16 DEF Crash, Running
<1>17. ASSUME NEW f \in Reqs, FooterLands(f) \/ FooterFails(f)
       PROVE  UNCHANGED <<req, flight, task, outcome>>
  BY <1>17 DEF FooterLands, FooterFails, reqVars
<1>18. ASSUME \/ ScanStep \/ ScanFails \/ StartupStep
              \/ InlineBegins \/ InlineCut \/ \E k \in Keys : LateRemoval(k)
       PROVE  UNCHANGED <<req, flight, task, outcome>>
  BY <1>18 DEF InlineBegins, InlineCut, LateRemoval, ScanStep, ScanFails, StartupStep, JanitorWakes, ListEnds, RemoveEntry, RemoveFails,
               ScanEnds, ListEntry, CheckEntry, Restart, CleanupEnds, RemoveStale, reqVars
<1>19. CASE UNCHANGED vars
  BY <1>3, <1>19 DEF vars, reqVars
<1>20. QED
  BY <1>3, <1>6, <1>7, <1>8, <1>9, <1>10, <1>12, <1>13, <1>14, <1>15, <1>16, <1>17, <1>18, <1>19
  DEF Next, ReqStep, FetchStep, CleanStep, Settled

-------------------------------------------------------------------------------
(* The theorems.                                                           *)

\* The inductive invariant.
IInv == BaseInv /\ TempInv /\ PermitInv /\ HandoffInv

\* The inductive invariant holds in every state.
LEMMA Invariance == SafeSpec => []IInv
<1>1. Init => IInv
  <2>1. Init => TempInv
    BY ConstantsAssumption DEF Init, TempInv
  <2>2. QED
    BY <2>1, InitBase, InitPermit, InitHandoff DEF IInv
<1>2. IInv /\ [Next]_vars => IInv'
  BY NextBase, NextTemp, NextPermit, NextHandoff DEF IInv
<1>3. QED
  BY <1>1, <1>2, PTL DEF SafeSpec

\* Type correctness; in particular the semaphore never has more permits than
\* VAMPIRE_MAX_UPSTREAM_FETCHES.
THEOREM TypeCorrect == SafeSpec => []TypeOK
<1>1. IInv => TypeOK
  <2> SUFFICES ASSUME IInv PROVE TypeOK
    OBVIOUS
  <2>1. Cardinality(PermitHolders) \in Nat
    BY FS_CardinalityType DEF IInv, PermitInv
  <2>2. free \in 0 .. MaxUpstreamFetches
    BY <2>1, ConstantsAssumption DEF IInv, PermitInv, PermitAccounting, PermitHolders
  <2>3. QED
    BY <2>2 DEF IInv, BaseInv, Types, TypeOK
<1>2. QED
  BY <1>1, Invariance, PTL

\* lookup_or_start_artifact and finish_inflight: one fetch per key at a time,
\* and a map entry always has a task that will remove it.
THEOREM FlightsAreSingle == SafeSpec => []SingleFlight
<1>1. IInv => SingleFlight
  BY DEF IInv, BaseInv
<1>2. QED
  BY <1>1, Invariance, PTL

\* run_artifact_fetch, its guard and startup: while the proxy serves, every
\* <key>.part belongs to the registered flight.
THEOREM TempsAreOwned == SafeSpec => []TempOwned
<1>1. IInv => TempOwned
  BY DEF IInv, TempInv, TempOwned
<1>2. QED
  BY <1>1, Invariance, PTL

\* try_acquire_upstream_permit and the leader's drop: permits are conserved.
THEOREM PermitsAreConserved == SafeSpec => []PermitAccounting
<1>1. IInv => PermitAccounting
  BY DEF IInv, PermitInv
<1>2. QED
  BY <1>1, Invariance, PTL

\* pin, evict_files_to_bound and serve_inflight: a waiter of a finished flight
\* finds the entry gone only if a flight of its key had been started although a
\* published file was already there, or if a removal that outlived the inline
\* scan of a disconnected metadata request took a published file of that key.
THEOREM HandoffIsPinned == SafeSpec => []PinnedHandoff
<1>1. IInv => PinnedHandoff
  BY DEF IInv, HandoffInv
<1>2. QED
  BY <1>1, Invariance, PTL

\* The eviction channel, Drop for PublishedEntryInner and evict_files_to_bound:
\* no request for a scan is lost, so that once nothing runs the files obey
\* VAMPIRE_MAX_CACHE_SIZE_MB, after any number of flights, aborts and crashes,
\* provided the janitor can list the cache and remove files.
THEOREM BoundIsRestored ==
  ASSUME IOFaults \cap {"list", "remove"} = {}
  PROVE  SafeSpec => []BoundWhenQuiet
<1>1. SafeSpec => []BoundInv
  <2>1. IInv => BaseInv /\ OwnPin
    BY DEF IInv, HandoffInv
  <2>2. BaseInv /\ OwnPin /\ BoundInv /\ [Next]_vars => BoundInv'
    BY NextBound
  <2>3. QED
    BY <2>1, <2>2, InitBound, Invariance, PTL DEF SafeSpec
<1>2. IInv /\ BoundInv => BoundWhenQuiet
  <2> SUFFICES ASSUME IInv, BoundInv, phase = "serving", scan = "idle", ~queue,
                      \A r \in Reqs : task[r] \in {"none", "done"} /\ req[r] \notin Waiting
               PROVE  DiskTotal <= MaxCacheSize
    BY DEF BoundWhenQuiet
  <2>1. \A f \in Reqs : inflight[KeyOf[f]] # f
    BY ConstantsAssumption
    DEF IInv, BaseInv, SingleFlight, Registered, Permitted, Fetching, Signalling, Cleaning
  <2>2. \A r \in Reqs : flight[r] = None
    BY DEF IInv, BaseInv, Requests
  <2>3. \A f \in Reqs : ~Holds(f)
    BY <2>1, <2>2, ConstantsAssumption DEF Holds, Cleaning
  <2>4. \A k \in Keys : pins[k] = None
    BY <2>3 DEF BoundInv, PinsHeld, IInv, BaseInv, Types
  <2>5. Kept
    BY <2>4 DEF BoundInv, Pending
  <2>6. QED
    BY <2>5 DEF Kept
<1>3. QED
  BY <1>1, <1>2, Invariance, PTL

\* serve_inflight, run_artifact_fetch and ArtifactFetchCleanup: whoever waits for a
\* flight has its outcome there, or a task that will complete it.  With the fairness
\* of the runtime this is why every request ends, which the runs check.
THEOREM WaitersAreAttended == SafeSpec => []Attended
<1>1. Init => WaitInv
  BY DEF Init, WaitInv, Attended, Completed, Waiting
<1>2. IInv => BaseInv
  BY DEF IInv
<1>3. SafeSpec => []WaitInv
  BY <1>1, <1>2, NextWait, Invariance, PTL DEF SafeSpec
<1>4. WaitInv => Attended
  BY DEF WaitInv
<1>5. QED
  BY <1>3, <1>4, PTL
===============================================================================

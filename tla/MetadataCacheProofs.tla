------------------------- MODULE MetadataCacheProofs -------------------------
(***************************************************************************)
(* Proofs about MetadataCache, for any sets of keys and requests and any   *)
(* bounds: flights are single, permits are conserved, answers are at least *)
(* as new as the flight that produced them, nobody waits for a flight      *)
(* nothing is left of, and a file too many or a temporary one left behind  *)
(* is the work of a store that was cut short.                              *)
(***************************************************************************)
EXTENDS MetadataCache, FiniteSums

\* The part of TypeOK the arguments below need.
Types ==
    /\ inflight \in [Keys -> Reqs \cup {None}]
    /\ free \in Int
    /\ artifacts \in 0 .. MaxArtifactFetches
    /\ req \in [Reqs -> {"idle", "wait"} \cup Leading \cup Ended]
    /\ flight \in [Reqs -> Reqs \cup {None}]
    /\ entry \in [Reqs -> Nat \cup {None}]
    /\ result \in [Reqs -> Nat \cup {Failed, None}]
    /\ outcome \in [Reqs -> Nat \cup {Failed, None}]
    /\ got \in [Reqs -> Nat \cup {Failed, None}]
    /\ guard \in [Reqs -> {"off", "fail", "finish"}]
    /\ upstream \in [Keys -> Nat]
    /\ disk \in [Keys -> Nat \cup {None}]
    /\ late \in [Reqs -> {"no", "create", "rename"}]
    /\ began \in [Reqs -> Nat \cup {None}]

\* A request is a follower of somebody else's flight or leads its own, and a
\* flight that somebody refers to has begun.  A request that has not started
\* has left no trace.
Requests ==
    \A r \in Reqs :
        /\ req[r] = "idle" => guard[r] = "off" /\ flight[r] = None /\ got[r] = None
        /\ req[r] \in Leading => flight[r] = None /\ guard[r] = "off"
        /\ req[r] = "wait" => flight[r] # None /\ got[r] = None
        /\ flight[r] # None => req[flight[r]] # "idle" /\ KeyOf[flight[r]] = KeyOf[r]
        /\ guard[r] # "off" => req[r] = "gone"

\* What is stored, now or by a rename that outlived its request, is a body.
Stores ==
    \A r \in Reqs : req[r] \in Storing \/ late[r] = "rename" => result[r] \in Nat

\* A request whose file operation outlived it is gone.
LateIsGone == \A r \in Reqs : late[r] # "no" => req[r] = "gone"

BaseInv == Types /\ Requests /\ Stores /\ LateIsGone /\ SingleFlight

-------------------------------------------------------------------------------
\* The state left by CacheStore::new satisfies the groundwork.
LEMMA InitBase == Init => BaseInv
<1> SUFFICES ASSUME Init PROVE BaseInv
  OBVIOUS
<1> USE ConstantsAssumption DEF Init
<1>1. Types
  BY DEF Types
<1>2. Requests
  BY DEF Requests, Leading, Storing
<1>3. SingleFlight
  BY DEF SingleFlight, Leading, Storing
<1>4. Stores /\ LateIsGone
  BY DEF Stores, LateIsGone, Storing
<1>5. QED
  BY <1>1, <1>2, <1>3, <1>4 DEF BaseInv

\* Every step preserves the groundwork; one case per action.
LEMMA NextBase == BaseInv /\ [Next]_vars => BaseInv'
<1> SUFFICES ASSUME BaseInv, [Next]_vars PROVE BaseInv'
  OBVIOUS
<1> USE ConstantsAssumption
    DEF BaseInv, Types, Requests, Stores, LateIsGone, SingleFlight, Leading, Storing, Ended, Goto,
        flightVars, permitVars, leadVars, fileVars, scanVars
<1>1. ASSUME NEW r \in Reqs, Join(r) PROVE BaseInv'
  BY <1>1 DEF Join
<1>2. ASSUME NEW r \in Reqs, Refuse(r) PROVE BaseInv'
  BY <1>2 DEF Refuse
<1>3. ASSUME NEW r \in Reqs, Lead(r) PROVE BaseInv'
  BY <1>3 DEF Lead
<1>4. ASSUME NEW r \in Reqs, Answer(r) PROVE BaseInv'
  BY <1>4 DEF Answer
<1>5. ASSUME NEW r \in Reqs, Load(r) PROVE BaseInv'
  BY <1>5 DEF Load
<1>6. ASSUME NEW r \in Reqs, NotModified(r) PROVE BaseInv'
  BY <1>6 DEF NotModified
<1>7. ASSUME NEW r \in Reqs, Fresh(r) PROVE BaseInv'
  BY <1>7 DEF Fresh
<1>8. ASSUME NEW r \in Reqs, FetchFails(r) PROVE BaseInv'
  BY <1>8 DEF FetchFails
<1>9. ASSUME NEW r \in Reqs, CreateTemp(r) PROVE BaseInv'
  BY <1>9 DEF CreateTemp
<1>10. ASSUME NEW r \in Reqs, AcquireLock(r) PROVE BaseInv'
  BY <1>10 DEF AcquireLock
<1>11. ASSUME NEW r \in Reqs, ListEntries(r) PROVE BaseInv'
  BY <1>11 DEF ListEntries
<1>12. ASSUME NEW r \in Reqs, NEW k \in Keys, RemoveEntry(r, k) \/ RemoveFails(r, k)
       PROVE  BaseInv'
  BY <1>12 DEF RemoveEntry, RemoveFails
<1>13. ASSUME NEW r \in Reqs, ScanEnds(r) PROVE BaseInv'
  BY <1>13 DEF ScanEnds
<1>14. ASSUME NEW r \in Reqs, StoreFails(r) \/ ListFails(r) PROVE BaseInv'
  BY <1>14 DEF StoreFails, ListFails
<1>15. ASSUME NEW r \in Reqs, Signal(r) PROVE BaseInv'
  BY <1>15 DEF Signal
<1>16. ASSUME NEW r \in Reqs, Finish(r) PROVE BaseInv'
  BY <1>16 DEF Finish
<1>17. ASSUME NEW r \in Reqs, FollowerLeaves(r) PROVE BaseInv'
  BY <1>17 DEF FollowerLeaves
<1>18. ASSUME NEW r \in Reqs, LeaderLeaves(r) PROVE BaseInv'
  BY <1>18 DEF LeaderLeaves
<1>19. ASSUME NEW r \in Reqs, GuardFails(r) PROVE BaseInv'
  BY <1>19 DEF GuardFails
<1>20. ASSUME NEW r \in Reqs, GuardFinishes(r) PROVE BaseInv'
  BY <1>20 DEF GuardFinishes
<1>21. ASSUME NEW r \in Reqs, RemoveTemp(r) \/ LateCreate(r) PROVE BaseInv'
  BY <1>21 DEF RemoveTemp, LateCreate
<1>22. ASSUME NEW k \in Keys, UpstreamChanges(k) PROVE BaseInv'
  BY <1>22 DEF UpstreamChanges
<1>23. ASSUME NEW r \in Reqs, Rename(r) PROVE BaseInv'
  BY <1>23 DEF Rename
<1>24. ASSUME NEW r \in Reqs, LateRename(r) PROVE BaseInv'
  BY <1>24 DEF LateRename
<1>25. CASE UNCHANGED vars
  BY <1>25 DEF vars
<1>26. CASE ArtifactBegins \/ ArtifactEnds
  BY <1>26 DEF ArtifactBegins, ArtifactEnds
<1>27. QED
  BY <1>1, <1>2, <1>3, <1>4, <1>5, <1>6, <1>7, <1>8, <1>9, <1>10, <1>11, <1>12, <1>13,
     <1>14, <1>15, <1>16, <1>17, <1>18, <1>19, <1>20, <1>21, <1>22, <1>23, <1>24, <1>25,
     <1>26
  DEF Next, LeadStep, GuardStep, TempStep, PoolStep, Settled
-------------------------------------------------------------------------------
(* Permits.                                                                *)

\* The requests whose leader holds a permit.
Leaders == {r \in Reqs : req[r] \in Leading}

\* The accounting, with the finiteness that Cardinality needs.
PermitInv ==
    /\ free \in Nat
    /\ IsFiniteSet(Leaders)
    /\ PermitAccounting

\* At the start all permits are free.
LEMMA InitPermit == Init => PermitInv
<1> SUFFICES ASSUME Init PROVE PermitInv
  OBVIOUS
<1>1. Leaders = {}
  BY DEF Init, Leaders, Leading, Storing
<1>2. IsFiniteSet(Leaders) /\ Cardinality(Leaders) = 0
  BY <1>1, FS_EmptySet
<1>3. free \in Nat /\ free = MaxUpstreamFetches /\ artifacts = 0
  BY ConstantsAssumption DEF Init
<1>4. QED
  BY <1>2, <1>3 DEF PermitInv, PermitAccounting, Leaders

\* A permit changes hands only when a request takes the lead, ends or is
\* dropped.
LEMMA NextPermit == BaseInv /\ PermitInv /\ [Next]_vars => PermitInv'
<1> SUFFICES ASSUME BaseInv, PermitInv, [Next]_vars PROVE PermitInv'
  OBVIOUS
<1> USE ConstantsAssumption DEF BaseInv, Types, Goto, flightVars, permitVars, leadVars, fileVars
<1>1. ASSUME permitVars' = permitVars, Leaders' = Leaders PROVE PermitInv'
  BY <1>1 DEF PermitInv, PermitAccounting, Leaders
<1>2. ASSUME NEW r \in Reqs, Lead(r) PROVE PermitInv'
  <2>1. Leaders' = Leaders \cup {r} /\ r \notin Leaders
    BY <1>2 DEF Lead, Leaders, Leading, Storing
  <2>2. /\ IsFiniteSet(Leaders')
        /\ Cardinality(Leaders') = Cardinality(Leaders) + 1
    BY <2>1, FS_AddElement DEF PermitInv
  <2>3. free' \in Nat /\ free' = free - 1 /\ artifacts' = artifacts
    BY <1>2 DEF Lead, PermitInv
  <2>4. Cardinality(Leaders) \in Nat
    BY FS_CardinalityType DEF PermitInv
  <2>5. QED
    BY <2>2, <2>3, <2>4 DEF PermitInv, PermitAccounting, Leaders
<1>3. ASSUME NEW r \in Reqs, Finish(r) \/ LeaderLeaves(r) PROVE PermitInv'
  <2>1. Leaders' = Leaders \ {r} /\ r \in Leaders
    BY <1>3 DEF Finish, LeaderLeaves, Leaders, Leading, Storing
  <2>2. /\ IsFiniteSet(Leaders')
        /\ Cardinality(Leaders') = Cardinality(Leaders) - 1
    BY <2>1, FS_RemoveElement DEF PermitInv
  <2>3. free' \in Nat /\ free' = free + 1 /\ artifacts' = artifacts
    BY <1>3 DEF Finish, LeaderLeaves, PermitInv
  <2>4. Cardinality(Leaders) \in Nat
    BY FS_CardinalityType DEF PermitInv
  <2>5. QED
    BY <2>2, <2>3, <2>4 DEF PermitInv, PermitAccounting, Leaders
<1>4. ASSUME NEW r \in Reqs,
             \/ Join(r) \/ Refuse(r) \/ Answer(r) \/ FollowerLeaves(r)
             \/ Load(r) \/ NotModified(r) \/ Fresh(r) \/ FetchFails(r)
      PROVE  permitVars' = permitVars /\ Leaders' = Leaders
  BY <1>4 DEF Join, Refuse, Answer, FollowerLeaves, Load, NotModified, Fresh, FetchFails,
              Leaders, Leading, Storing
<1>5. ASSUME NEW r \in Reqs,
             \/ CreateTemp(r) \/ AcquireLock(r) \/ Rename(r) \/ ListEntries(r)
             \/ ScanEnds(r) \/ StoreFails(r) \/ ListFails(r) \/ Signal(r)
      PROVE  permitVars' = permitVars /\ Leaders' = Leaders
  BY <1>5 DEF CreateTemp, AcquireLock, Rename, ListEntries, ScanEnds, StoreFails,
              ListFails, Signal, Leaders, Leading, Storing
<1>6. ASSUME \/ \E r \in Reqs : \/ GuardStep(r) \/ TempStep(r) \/ PoolStep(r)
                                \/ \E k \in Keys : RemoveEntry(r, k) \/ RemoveFails(r, k)
             \/ \E k \in Keys : UpstreamChanges(k)
             \/ UNCHANGED vars
      PROVE  permitVars' = permitVars /\ req' = req
  BY <1>6 DEF GuardStep, TempStep, PoolStep, GuardFails, GuardFinishes, RemoveTemp,
              LateCreate, LateRename, RemoveEntry, RemoveFails, UpstreamChanges, vars
<1>7. req' = req => Leaders' = Leaders
  BY DEF Leaders
<1>8. CASE ArtifactBegins \/ ArtifactEnds
  <2>1. free' \in Nat /\ artifacts' \in Nat /\ free' + artifacts' = free + artifacts
    <3>1. free \in Nat /\ artifacts \in Nat
      BY DEF PermitInv
    <3>2. CASE ArtifactBegins
      <4>1. free > 0 /\ free' = free - 1 /\ artifacts' = artifacts + 1
        BY <3>2 DEF ArtifactBegins
      <4>2. QED
        BY <3>1, <4>1
    <3>3. CASE ArtifactEnds
      <4>1. artifacts > 0 /\ free' = free + 1 /\ artifacts' = artifacts - 1
        BY <3>3 DEF ArtifactEnds
      <4>2. QED
        BY <3>1, <4>1
    <3>4. QED
      BY <1>8, <3>2, <3>3
  <2>2. Leaders' = Leaders
    BY <1>8 DEF ArtifactBegins, ArtifactEnds, Leaders
  <2>3. QED
    BY <2>1, <2>2 DEF PermitInv, PermitAccounting, Leaders
<1>9. QED
  BY <1>1, <1>2, <1>3, <1>4, <1>5, <1>6, <1>7, <1>8 DEF Next, LeadStep, Settled

-------------------------------------------------------------------------------
(* Freshness.                                                              *)

\* The version v is one that upstream served after flight f began.
AsNewAs(v, f) == began[f] \in Nat /\ v >= began[f]

\* Upstream only moves forward: what it serves is as new as every flight of
\* the key, and so is what a leader is going to report and what it reported.
\* What an idle request has not produced cannot be told apart from stale data,
\* which is why the invariant also says that it has produced nothing.
FreshInv ==
    /\ \A r \in Reqs : req[r] = "idle" => result[r] = None /\ outcome[r] = None
    /\ \A r \in Reqs : req[r] \in Leading => AsNewAs(upstream[KeyOf[r]], r)
    /\ \A r \in Reqs : result[r] \in Nat => AsNewAs(result[r], r)
    /\ \A r \in Reqs : outcome[r] \in Nat => AsNewAs(outcome[r], r)
    /\ Freshness

\* At the start nothing was answered.
LEMMA InitFresh == Init => FreshInv
  BY ConstantsAssumption DEF Init, FreshInv, Freshness, Leading, Storing

\* Every step keeps results, outcomes and answers as new as their flight.
LEMMA NextFresh == BaseInv /\ FreshInv /\ [Next]_vars => FreshInv'
<1> SUFFICES ASSUME BaseInv, FreshInv, [Next]_vars PROVE FreshInv'
  OBVIOUS
<1> USE ConstantsAssumption
    DEF BaseInv, Types, Requests, FreshInv, AsNewAs, Freshness, Leading, Storing, Ended,
        Goto, flightVars, permitVars, leadVars, fileVars, scanVars
<1>1. ASSUME NEW r \in Reqs, Join(r) \/ Refuse(r) \/ FollowerLeaves(r) PROVE FreshInv'
  BY <1>1 DEF Join, Refuse, FollowerLeaves
<1>2. ASSUME NEW r \in Reqs, Lead(r) PROVE FreshInv'
  BY <1>2 DEF Lead
<1>3. ASSUME NEW r \in Reqs, Answer(r) PROVE FreshInv'
  BY <1>3 DEF Answer
<1>4. ASSUME NEW r \in Reqs, Load(r) \/ FetchFails(r) PROVE FreshInv'
  BY <1>4 DEF Load, FetchFails
<1>5. ASSUME NEW r \in Reqs, NotModified(r) \/ Fresh(r) PROVE FreshInv'
  BY <1>5 DEF NotModified, Fresh
<1>6. ASSUME NEW r \in Reqs,
             CreateTemp(r) \/ AcquireLock(r) \/ Rename(r) \/ ListEntries(r) \/ ScanEnds(r)
      PROVE  FreshInv'
  BY <1>6 DEF CreateTemp, AcquireLock, Rename, ListEntries, ScanEnds
<1>7. ASSUME NEW r \in Reqs, StoreFails(r) \/ ListFails(r) PROVE FreshInv'
  BY <1>7 DEF StoreFails, ListFails
<1>8. ASSUME NEW r \in Reqs, Signal(r) PROVE FreshInv'
  BY <1>8 DEF Signal
<1>9. ASSUME NEW r \in Reqs, Finish(r) PROVE FreshInv'
  BY <1>9 DEF Finish
<1>10. ASSUME NEW r \in Reqs, LeaderLeaves(r) PROVE FreshInv'
  BY <1>10 DEF LeaderLeaves
<1>11. ASSUME NEW r \in Reqs, GuardFails(r) \/ GuardFinishes(r) PROVE FreshInv'
  BY <1>11 DEF GuardFails, GuardFinishes
<1>12. ASSUME NEW k \in Keys, UpstreamChanges(k) PROVE FreshInv'
  BY <1>12 DEF UpstreamChanges
<1>13. ASSUME \/ \E r \in Reqs : \/ TempStep(r) \/ PoolStep(r)
                                 \/ \E k \in Keys : RemoveEntry(r, k) \/ RemoveFails(r, k)
              \/ ArtifactBegins \/ ArtifactEnds
              \/ UNCHANGED vars
       PROVE  UNCHANGED <<req, flight, result, outcome, got, began, upstream>>
  BY <1>13 DEF TempStep, PoolStep, RemoveTemp, LateCreate, LateRename, RemoveEntry,
               RemoveFails, ArtifactBegins, ArtifactEnds, vars
<1>14. CASE UNCHANGED <<req, flight, result, outcome, got, began, upstream>>
  BY <1>14
<1>15. QED
  BY <1>1, <1>2, <1>3, <1>4, <1>5, <1>6, <1>7, <1>8, <1>9, <1>10, <1>11, <1>12, <1>13,
     <1>14
  DEF Next, LeadStep, GuardStep, Settled

-------------------------------------------------------------------------------
(* The theorems.                                                           *)

\* The inductive invariant.
IInv == BaseInv /\ PermitInv /\ FreshInv

\* The inductive invariant holds in every state.
LEMMA Invariance == SafeSpec => []IInv
<1>1. Init => IInv
  BY InitBase, InitPermit, InitFresh DEF IInv
<1>2. IInv /\ [Next]_vars => IInv'
  BY NextBase, NextPermit, NextFresh DEF IInv
<1>3. QED
  BY <1>1, <1>2, PTL DEF SafeSpec

\* lookup_or_start_metadata, finish_inflight and MetadataFetchCleanup: one
\* leader per key at a time, and a map entry always has somebody to remove it.
THEOREM FlightsAreSingle == SafeSpec => []SingleFlight
<1>1. IInv => SingleFlight
  BY DEF IInv, BaseInv
<1>2. QED
  BY <1>1, Invariance, PTL

\* The permit of a MetadataLeader comes back, however its request ends.
THEOREM PermitsAreConserved == SafeSpec => []PermitAccounting
<1>1. IInv => PermitAccounting
  BY DEF IInv, PermitInv
<1>2. QED
  BY <1>1, Invariance, PTL

\* do_metadata_fetch revalidates: no body answered to a leader or a follower is
\* older than what upstream served when the flight began.
THEOREM AnswersAreFresh == SafeSpec => []Freshness
<1>1. IInv => Freshness
  BY DEF IInv, FreshInv
<1>2. QED
  BY <1>1, Invariance, PTL

-------------------------------------------------------------------------------
(* Files: what a store leaves.                                             *)

FileTypes ==
    /\ temps \subseteq Reqs /\ tempGuard \subseteq Reqs
    /\ evictor \in Reqs \cup {None}
    /\ left \subseteq Keys
    /\ total \in Nat
    /\ cut \subseteq Reqs

\* A temporary file has somebody who renames or removes it, unless its request
\* was dropped while the blocking pool created it.
TempInv ==
    /\ \A r \in Reqs : late[r] # "no" => r \in cut
    /\ \A r \in temps : req[r] \in {"lock", "rename"} \/ r \in tempGuard \/ r \in cut

\* From the lock to the end of the scan.
Scanning == {"rename", "list", "scan"}

\* Only who holds the lock renames, lists and removes.
LockInv == \A r \in Reqs : req[r] \in Scanning <=> evictor = r

\* Under the lock the running total is exact, and the cache is over its bound only
\* from the rename to the end of the scan.
BoundInv ==
    cut = {} => /\ \A r \in Reqs : req[r] = "scan" => left = Stored /\ total = Bytes(Stored)
                /\ (\A r \in Reqs : req[r] \notin {"list", "scan"}) => Bytes(Stored) <= MaxCacheSize

FilesInv == FileTypes /\ TempInv /\ LockInv /\ BoundInv

\* The bytes of entries, and of one entry less.
LEMMA BytesFacts ==
  ASSUME NEW K \in SUBSET Keys
  PROVE  /\ Bytes(K) \in Nat
         /\ \A k \in K : Bytes(K) = Size[k] + Bytes(K \ {k}) /\ Bytes(K \ {k}) \in Nat
<1>1. /\ IsFiniteSet(K) /\ \A k \in K : Size[k] \in Nat /\ Size[k] \in Int
  BY ConstantsAssumption, FS_Subset
<1>2. Bytes(K) \in Nat
  BY <1>1, SumNat DEF Bytes
<1>3. ASSUME NEW k \in K
      PROVE  Bytes(K) = Size[k] + Bytes(K \ {k}) /\ Bytes(K \ {k}) \in Nat
  <2>1. IsFiniteSet(K \ {k}) /\ \A j \in K \ {k} : Size[j] \in Nat
    BY <1>1, FS_RemoveElement
  <2>2. Bytes(K \ {k}) \in Nat
    BY <2>1, SumNat DEF Bytes
  <2>3. Bytes(K) = Size[k] + Bytes(K \ {k})
    BY <1>1, SumOneOut DEF Bytes
  <2>4. QED
    BY <2>2, <2>3
<1>4. QED
  BY <1>2, <1>3

LEMMA BytesNone == Bytes({}) = 0
  BY SumEmpty DEF Bytes

LEMMA InitFiles == Init => FilesInv
<1> SUFFICES ASSUME Init PROVE FilesInv
  OBVIOUS
<1> USE ConstantsAssumption
<1>1. FileTypes
  BY DEF Init, FileTypes
<1>2. TempInv /\ LockInv
  BY DEF Init, TempInv, LockInv, Scanning
<1>3. BoundInv
  BY DEF Init, BoundInv
<1>4. QED
  BY <1>1, <1>2, <1>3 DEF FilesInv

\* A step of r that leaves the directory, the lock and the scan alone.
LEMMA AsideFiles ==
  ASSUME BaseInv, FilesInv, UNCHANGED <<disk, scanVars>>, cut' = cut,
         temps' \subseteq temps, tempGuard' \subseteq Reqs, tempGuard \subseteq tempGuard',
         NEW r \in Reqs, req[r] \notin Scanning,
         \E p \in {"idle", "wait"} \cup Leading \cup Ended :
             p \notin Scanning /\ req' = [req EXCEPT ![r] = p],
         req[r] = "lock" => r \in tempGuard',
         \A q \in Reqs : late'[q] # "no" => late[q] # "no"
  PROVE  FilesInv'
<1>1. PICK p : p \notin Scanning /\ req' = [req EXCEPT ![r] = p]
  OBVIOUS
<1>2. \A q \in Reqs : req'[q] = req[q] \/ q = r
  BY <1>1 DEF BaseInv, Types
<1>3. req'[r] = p
  BY <1>1 DEF BaseInv, Types
<1>4. FileTypes'
  BY DEF FilesInv, FileTypes, scanVars
<1>5. TempInv'
  BY <1>2, <1>3 DEF FilesInv, TempInv, FileTypes, Scanning
<1>6. LockInv'
  BY <1>1, <1>2, <1>3 DEF FilesInv, LockInv, scanVars
<1>7. BoundInv'
  <2>1. Stored' = Stored
    BY DEF Stored
  <2>2. Bytes(Stored)' = Bytes(Stored)
    BY <2>1 DEF Bytes
  <2>3. \A q \in Reqs : /\ req'[q] = "scan" <=> req[q] = "scan"
                        /\ req'[q] = "list" <=> req[q] = "list"
    BY <1>1, <1>2, <1>3 DEF Scanning
  <2>4. QED
    BY <2>1, <2>2, <2>3 DEF FilesInv, BoundInv, scanVars
<1>8. QED
  BY <1>4, <1>5, <1>6, <1>7 DEF FilesInv

\* A step that leaves the requests and all files alone.
LEMMA SameFiles ==
  ASSUME FilesInv, UNCHANGED <<req, disk, temps, tempGuard, late, scanVars, cut>>
  PROVE  FilesInv'
<1>1. Stored' = Stored /\ Bytes(Stored)' = Bytes(Stored)
  BY DEF Stored, Bytes
<1>2. QED
  BY <1>1 DEF FilesInv, FileTypes, TempInv, LockInv, BoundInv, scanVars

\* The temporary file is created.
LEMMA CreateTempFiles == ASSUME BaseInv, FilesInv, NEW r \in Reqs, CreateTemp(r) PROVE FilesInv'
<1>0. /\ req[r] = "create" /\ temps' = temps \cup {r} /\ req' = [req EXCEPT ![r] = "lock"]
      /\ UNCHANGED <<disk, tempGuard, late, scanVars, cut>>
  BY DEF CreateTemp, Goto
<1>1. req'[r] = "lock" /\ \A q \in Reqs : q # r => req'[q] = req[q]
  BY <1>0 DEF BaseInv, Types
<1>2. FileTypes'
  BY <1>0 DEF FilesInv, FileTypes, scanVars
<1>3. TempInv'
  BY <1>0, <1>1 DEF FilesInv, FileTypes, TempInv
<1>4. LockInv'
  BY <1>0, <1>1 DEF FilesInv, LockInv, Scanning, scanVars
<1>5. BoundInv'
  <2>1. Stored' = Stored /\ Bytes(Stored)' = Bytes(Stored)
    BY <1>0 DEF Stored, Bytes
  <2>2. QED
    BY <1>0, <1>1, <2>1 DEF FilesInv, BoundInv, scanVars
<1>6. QED
  BY <1>2, <1>3, <1>4, <1>5 DEF FilesInv

\* The lock is taken.
LEMMA AcquireLockFiles == ASSUME BaseInv, FilesInv, NEW r \in Reqs, AcquireLock(r) PROVE FilesInv'
<1>0. /\ req[r] = "lock" /\ evictor = None /\ evictor' = r /\ req' = [req EXCEPT ![r] = "rename"]
      /\ UNCHANGED <<disk, temps, tempGuard, late, left, total, cut>>
  BY DEF AcquireLock, Goto, fileVars
<1>1. req'[r] = "rename" /\ \A q \in Reqs : q # r => req'[q] = req[q]
  BY <1>0 DEF BaseInv, Types
<1>2. FileTypes'
  BY <1>0 DEF FilesInv, FileTypes
<1>3. TempInv'
  BY <1>0, <1>1 DEF FilesInv, FileTypes, TempInv
<1>4. LockInv'
  <2>1. \A q \in Reqs : req[q] \notin Scanning
    BY <1>0, ConstantsAssumption DEF FilesInv, LockInv
  <2>2. QED
    BY <1>0, <1>1, <2>1 DEF LockInv, Scanning
<1>5. BoundInv'
  <2>1. Stored' = Stored /\ Bytes(Stored)' = Bytes(Stored)
    BY <1>0 DEF Stored, Bytes
  <2>2. QED
    BY <1>0, <1>1, <2>1 DEF FilesInv, BoundInv
<1>6. QED
  BY <1>2, <1>3, <1>4, <1>5 DEF FilesInv

\* The holder of the lock is the only one in its part of store_metadata.
LEMMA OneScans ==
  ASSUME FilesInv, NEW r \in Reqs, req[r] \in Scanning
  PROVE  evictor = r /\ \A q \in Reqs : q # r => req[q] \notin Scanning
  BY DEF FilesInv, LockInv

\* The entry is renamed into place: only now may the cache be over its bound.
LEMMA RenameFiles == ASSUME BaseInv, FilesInv, NEW r \in Reqs, Rename(r) PROVE FilesInv'
<1>0. /\ req[r] = "rename" /\ req' = [req EXCEPT ![r] = "list"] /\ temps' = temps \ {r}
      /\ UNCHANGED <<tempGuard, late, scanVars, cut>>
  BY DEF Rename, Goto
<1>1. req'[r] = "list" /\ \A q \in Reqs : q # r => req'[q] = req[q]
  BY <1>0 DEF BaseInv, Types
<1>2. FileTypes'
  BY <1>0 DEF FilesInv, FileTypes, scanVars
<1>3. TempInv'
  BY <1>0, <1>1 DEF FilesInv, FileTypes, TempInv
<1>4. LockInv'
  BY <1>0, <1>1 DEF FilesInv, LockInv, Scanning, scanVars
<1>5. BoundInv'
  <2>1. \A q \in Reqs : req'[q] # "scan"
    BY <1>0, <1>1, OneScans DEF Scanning
  <2>2. QED
    BY <1>1, <2>1 DEF BoundInv
<1>6. QED
  BY <1>2, <1>3, <1>4, <1>5 DEF FilesInv

\* The total is that of all entries there are.
LEMMA ListEntriesFiles == ASSUME BaseInv, FilesInv, NEW r \in Reqs, ListEntries(r) PROVE FilesInv'
<1>0. /\ req[r] = "list" /\ req' = [req EXCEPT ![r] = "scan"]
      /\ left' = Stored /\ total' = Bytes(Stored)
      /\ UNCHANGED <<disk, temps, tempGuard, late, evictor, cut>>
  BY DEF ListEntries, Goto, fileVars
<1>1. req'[r] = "scan" /\ \A q \in Reqs : q # r => req'[q] = req[q]
  BY <1>0 DEF BaseInv, Types
<1>2. FileTypes'
  <2>1. Stored \in SUBSET Keys
    BY DEF Stored
  <2>2. QED
    BY <1>0, <2>1, BytesFacts DEF FilesInv, FileTypes
<1>3. TempInv'
  BY <1>0, <1>1 DEF FilesInv, FileTypes, TempInv
<1>4. LockInv'
  BY <1>0, <1>1 DEF FilesInv, LockInv, Scanning
<1>5. BoundInv'
  <2>1. Stored' = Stored /\ Bytes(Stored)' = Bytes(Stored)
    BY <1>0 DEF Stored, Bytes
  <2>2. QED
    BY <1>0, <1>1, <2>1 DEF BoundInv
<1>6. QED
  BY <1>2, <1>3, <1>4, <1>5 DEF FilesInv

\* An entry goes, and its size with it.
LEMMA RemoveEntryFiles ==
  ASSUME BaseInv, FilesInv, NEW r \in Reqs, NEW k \in Keys, RemoveEntry(r, k) PROVE FilesInv'
<1>0. /\ req[r] = "scan" /\ k \in left /\ left' = left \ {k}
      /\ total' = (IF total >= Size[k] THEN total - Size[k] ELSE 0)
      /\ disk' = [disk EXCEPT ![k] = None] /\ UNCHANGED <<req, temps, tempGuard, late, evictor, cut>>
  BY DEF RemoveEntry
<1>1. Size[k] \in Nat
  BY ConstantsAssumption
<1>2. FileTypes'
  BY <1>0, <1>1 DEF FilesInv, FileTypes
<1>3. TempInv' /\ LockInv'
  BY <1>0 DEF FilesInv, TempInv, LockInv
<1>4. BoundInv'
  <2> SUFFICES ASSUME cut = {} PROVE left' = Stored' /\ total' = Bytes(Stored)'
    BY <1>0 DEF BoundInv
  <2>1. left = Stored /\ total = Bytes(Stored)
    BY <1>0 DEF FilesInv, BoundInv
  <2>2. Stored' = Stored \ {k}
    BY <1>0, ConstantsAssumption DEF Stored, BaseInv, Types
  <2>3. Stored \in SUBSET Keys /\ k \in Stored
    BY <1>0, <2>1 DEF Stored
  <2>4. Bytes(Stored) = Size[k] + Bytes(Stored \ {k}) /\ Bytes(Stored \ {k}) \in Nat
    BY <2>3, BytesFacts
  <2>5. total' = Bytes(Stored \ {k})
    BY <1>0, <1>1, <2>1, <2>4
  <2>6. Bytes(Stored)' = Bytes(Stored \ {k})
    BY <2>2 DEF Bytes
  <2>7. QED
    BY <1>0, <2>1, <2>2, <2>5, <2>6
<1>5. QED
  BY <1>2, <1>3, <1>4 DEF FilesInv

\* The scan ends within the bound.
LEMMA ScanEndsFiles == ASSUME BaseInv, FilesInv, NEW r \in Reqs, ScanEnds(r) PROVE FilesInv'
<1>0. /\ req[r] = "scan" /\ req' = [req EXCEPT ![r] = "signal"]
      /\ total <= MaxCacheSize \/ left = {}
      /\ evictor' = None /\ left' = {} /\ total' = 0
      /\ UNCHANGED <<disk, temps, tempGuard, late, cut>>
  BY DEF ScanEnds, Goto, fileVars
<1>1. req'[r] = "signal" /\ \A q \in Reqs : q # r => req'[q] = req[q]
  BY <1>0 DEF BaseInv, Types
<1>2. \A q \in Reqs : req'[q] \notin Scanning
  BY <1>0, <1>1, OneScans DEF Scanning
<1>3. FileTypes'
  BY <1>0 DEF FilesInv, FileTypes
<1>4. TempInv'
  BY <1>0, <1>1 DEF FilesInv, FileTypes, TempInv
<1>5. LockInv'
  BY <1>0, <1>2, ConstantsAssumption DEF LockInv
<1>6. BoundInv'
  <2> SUFFICES ASSUME cut = {} PROVE Bytes(Stored)' <= MaxCacheSize
    BY <1>0, <1>2 DEF BoundInv, Scanning
  <2>1. left = Stored /\ total = Bytes(Stored)
    BY <1>0 DEF FilesInv, BoundInv
  <2>2. Bytes(Stored)' = Bytes(Stored)
    BY <1>0 DEF Stored, Bytes
  <2>3. CASE left = {}
    BY <2>1, <2>2, <2>3, BytesNone, ConstantsAssumption
  <2>4. QED
    BY <1>0, <2>1, <2>2, <2>3
<1>7. QED
  BY <1>3, <1>4, <1>5, <1>6 DEF FilesInv

\* A store that fails before its rename leaves the cache as it was.
LEMMA StoreFailsFiles == ASSUME BaseInv, FilesInv, NEW r \in Reqs, StoreFails(r) PROVE FilesInv'
<1>0. /\ req[r] \in {"create", "lock", "rename"} /\ req' = [req EXCEPT ![r] = "signal"]
      /\ tempGuard' = tempGuard \cup {r}
      /\ evictor' = (IF evictor = r THEN None ELSE evictor)
      /\ UNCHANGED <<disk, temps, late, left, total, cut>>
  BY DEF StoreFails, Goto
<1>1. req'[r] = "signal" /\ \A q \in Reqs : q # r => req'[q] = req[q]
  BY <1>0 DEF BaseInv, Types
<1>2. FileTypes'
  BY <1>0 DEF FilesInv, FileTypes
<1>3. TempInv'
  BY <1>0, <1>1 DEF FilesInv, FileTypes, TempInv
<1>4. LockInv'
  <2>1. None \notin Reqs
    BY ConstantsAssumption
  <2>2. QED
    BY <1>0, <1>1, <2>1 DEF FilesInv, LockInv, Scanning
<1>5. BoundInv'
  <2>1. Stored' = Stored /\ Bytes(Stored)' = Bytes(Stored)
    BY <1>0 DEF Stored, Bytes
  <2>2. \A q \in Reqs : /\ req'[q] = "scan" <=> req[q] = "scan"
                        /\ req'[q] = "list" <=> req[q] = "list"
    BY <1>0, <1>1
  <2>3. QED
    BY <1>0, <2>1, <2>2 DEF FilesInv, BoundInv
<1>6. QED
  BY <1>2, <1>3, <1>4, <1>5 DEF FilesInv

\* Where a store is cut short only its temporary file and the lock matter.
LEMMA CutFiles ==
  ASSUME BaseInv, FilesInv, NEW r \in Reqs, r \in cut', cut \subseteq cut', cut' \subseteq Reqs,
         UNCHANGED temps, tempGuard \subseteq tempGuard', tempGuard' \subseteq Reqs,
         \A q \in Reqs : q # r => late'[q] = late[q] /\ req'[q] = req[q],
         req'[r] \notin Scanning \/ (req'[r] = req[r] /\ UNCHANGED evictor),
         \/ UNCHANGED evictor /\ (evictor = r => req'[r] = req[r])
         \/ evictor = r /\ evictor' = None,
         left' \subseteq Keys, total' \in Nat
  PROVE  FilesInv'
<1>1. None \notin Reqs
  BY ConstantsAssumption
<1>2. FileTypes'
  BY DEF FilesInv, FileTypes
<1>3. TempInv'
  BY DEF FilesInv, FileTypes, TempInv
<1>4. LockInv'
  BY <1>1 DEF FilesInv, LockInv
<1>5. BoundInv'
  BY DEF BoundInv
<1>6. QED
  BY <1>2, <1>3, <1>4, <1>5 DEF FilesInv

\* Every step preserves what is said of the files; one case per action.
LEMMA NextFiles == BaseInv /\ FilesInv /\ [Next]_vars => FilesInv'
<1> SUFFICES ASSUME BaseInv, FilesInv, [Next]_vars PROVE FilesInv'
  OBVIOUS
<1> USE DEF Goto, flightVars, permitVars, leadVars, fileVars
<1>0. /\ FileTypes /\ req \in [Reqs -> {"idle", "wait"} \cup Leading \cup Ended]
      /\ late \in [Reqs -> {"no", "create", "rename"}]
  BY DEF FilesInv, BaseInv, Types
<1>1. ASSUME NEW r \in Reqs, req[r] \in {"idle", "wait", "load", "send", "signal", "finish"},
             \E p \in {"wait", "busy", "load", "done", "send", "signal", "create", "finish", "gone"} :
                 req' = [req EXCEPT ![r] = p],
             UNCHANGED <<fileVars, scanVars, cut>>
      PROVE  FilesInv'
  <2>1. PICK p \in {"wait", "busy", "load", "done", "send", "signal", "create", "finish", "gone"} :
               req' = [req EXCEPT ![r] = p]
    BY <1>1
  <2>2. p \in {"idle", "wait"} \cup Leading \cup Ended /\ p \notin Scanning
    BY DEF Leading, Storing, Ended, Scanning
  <2>3. req[r] \notin Scanning /\ req[r] # "lock"
    BY <1>1 DEF Scanning
  <2>4. QED
    BY <1>0, <1>1, <2>1, <2>2, <2>3, AsideFiles DEF FileTypes
<1>2. ASSUME NEW r \in Reqs, Join(r) \/ Refuse(r) \/ Lead(r) \/ Answer(r) PROVE FilesInv'
  BY <1>1, <1>2 DEF Join, Refuse, Lead, Answer
<1>3. ASSUME NEW r \in Reqs, Load(r) \/ NotModified(r) \/ Fresh(r) \/ FetchFails(r) PROVE FilesInv'
  BY <1>1, <1>3 DEF Load, NotModified, Fresh, FetchFails
<1>4. ASSUME NEW r \in Reqs, Signal(r) \/ Finish(r) \/ FollowerLeaves(r) PROVE FilesInv'
  BY <1>1, <1>4 DEF Signal, Finish, FollowerLeaves
<1>5. ASSUME NEW r \in Reqs, NEW k \in Keys, RemoveFails(r, k) PROVE FilesInv'
  <2>1. cut' = cut \cup {r} /\ left' = left \ {k} /\ UNCHANGED <<req, fileVars, evictor, total>>
    BY <1>5 DEF RemoveFails
  <2>2. QED
    BY <1>0, <2>1, CutFiles DEF FileTypes
<1>6. ASSUME NEW r \in Reqs, ListFails(r) PROVE FilesInv'
  <2>1. /\ req[r] = "list" /\ cut' = cut \cup {r} /\ evictor' = None
        /\ req' = [req EXCEPT ![r] = "signal"] /\ UNCHANGED <<fileVars, left, total>>
    BY <1>6 DEF ListFails
  <2>2. evictor = r /\ req'[r] \notin Scanning
    BY <1>0, <2>1, OneScans DEF Scanning
  <2>3. \A q \in Reqs : q # r => req'[q] = req[q]
    BY <1>0, <2>1
  <2>4. QED
    BY <1>0, <2>1, <2>2, <2>3, CutFiles DEF FileTypes
<1>7. ASSUME NEW r \in Reqs, LeaderLeaves(r) PROVE FilesInv'
  <2>0. /\ req[r] \in Leading /\ req' = [req EXCEPT ![r] = "gone"]
        /\ \/ evictor = r /\ evictor' = None /\ left' = {} /\ total' = 0
           \/ evictor # r /\ UNCHANGED <<evictor, left, total>>
        /\ UNCHANGED <<disk, temps>>
    BY <1>7 DEF LeaderLeaves
  <2>1. req'[r] \notin Scanning /\ \A q \in Reqs : q # r => req'[q] = req[q] /\ late'[q] = late[q]
    BY <1>0, <1>7, <2>0 DEF LeaderLeaves, Scanning
  <2>2. tempGuard \subseteq tempGuard' /\ tempGuard' \subseteq Reqs
    BY <1>0, <1>7 DEF LeaderLeaves, FileTypes
  <2>3. left' \subseteq Keys /\ total' \in Nat
    BY <1>0, <2>0 DEF FileTypes
  <2>4. CASE req[r] \in Storing
    <3>1. cut' = cut \cup {r}
      BY <1>7, <2>4 DEF LeaderLeaves
    <3>2. QED
      BY <1>0, <2>0, <2>1, <2>2, <2>3, <3>1, CutFiles DEF FileTypes
  <2>5. CASE req[r] \notin Storing
    <3>1. req[r] \notin Scanning /\ req[r] \notin {"create", "lock", "rename"}
      BY <2>5 DEF Storing, Scanning
    <3>2. evictor # r
      BY <3>1 DEF FilesInv, LockInv
    <3>3. UNCHANGED <<disk, temps, tempGuard, scanVars, cut>>
      BY <1>7, <2>0, <2>5, <3>1, <3>2 DEF LeaderLeaves, scanVars
    <3>4. \A q \in Reqs : late'[q] # "no" => late[q] # "no"
      BY <1>0, <1>7, <3>1 DEF LeaderLeaves
    <3>5. "gone" \in {"idle", "wait"} \cup Leading \cup Ended /\ "gone" \notin Scanning
      BY DEF Ended, Scanning
    <3>6. QED
      BY <1>0, <2>0, <3>1, <3>3, <3>4, <3>5, AsideFiles DEF FileTypes
  <2>6. QED
    BY <2>4, <2>5
<1>8. ASSUME NEW r \in Reqs, RemoveTemp(r) PROVE FilesInv'
  <2>0. /\ tempGuard' = tempGuard \ {r} /\ temps' = temps \ {r}
        /\ UNCHANGED <<req, disk, late, scanVars, cut>>
    BY <1>8 DEF RemoveTemp
  <2>1. Stored' = Stored /\ Bytes(Stored)' = Bytes(Stored)
    BY <2>0 DEF Stored, Bytes
  <2>2. FileTypes' /\ TempInv' /\ LockInv'
    BY <2>0 DEF FilesInv, FileTypes, TempInv, LockInv, scanVars
  <2>3. BoundInv'
    BY <2>0, <2>1 DEF FilesInv, BoundInv, scanVars
  <2>4. QED
    BY <2>2, <2>3 DEF FilesInv
<1>9. ASSUME NEW r \in Reqs, LateCreate(r) \/ LateRename(r) PROVE FilesInv'
  <2>1. r \in cut
    BY <1>9 DEF LateCreate, LateRename, FilesInv, TempInv
  <2>2. /\ temps' \subseteq temps \cup {r} /\ late' = [late EXCEPT ![r] = "no"]
        /\ UNCHANGED <<req, tempGuard, scanVars, cut>>
    BY <1>9 DEF LateCreate, LateRename
  <2>3. FileTypes'
    BY <2>2 DEF FilesInv, FileTypes, scanVars
  <2>4. TempInv'
    BY <1>0, <2>1, <2>2 DEF FilesInv, TempInv
  <2>5. LockInv'
    BY <2>2 DEF FilesInv, LockInv, scanVars
  <2>6. BoundInv'
    BY <2>1, <2>2 DEF BoundInv
  <2>7. QED
    BY <2>3, <2>4, <2>5, <2>6 DEF FilesInv
<1>10. ASSUME \/ \E r \in Reqs : GuardFails(r) \/ GuardFinishes(r)
              \/ \E k \in Keys : UpstreamChanges(k)
              \/ ArtifactBegins \/ ArtifactEnds
              \/ UNCHANGED vars
       PROVE  FilesInv'
  BY <1>10, SameFiles DEF GuardFails, GuardFinishes, UpstreamChanges, ArtifactBegins,
                          ArtifactEnds, vars
<1>11. QED
  BY <1>2, <1>3, <1>4, <1>5, <1>6, <1>7, <1>8, <1>9, <1>10, CreateTempFiles, AcquireLockFiles,
     RenameFiles, ListEntriesFiles, RemoveEntryFiles, ScanEndsFiles, StoreFailsFiles
  DEF Next, LeadStep, GuardStep, TempStep, PoolStep, Settled

LEMMA FilesInvariance == SafeSpec => []FilesInv
<1>1. IInv => BaseInv
  BY DEF IInv
<1>2. QED
  BY <1>1, InitFiles, NextFiles, Invariance, PTL DEF SafeSpec

\* Map, permits, requests and files have the values they should; free permits
\* never exceed VAMPIRE_MAX_UPSTREAM_FETCHES.
THEOREM TypeCorrect == SafeSpec => []TypeOK
<1>1. IInv /\ FilesInv => TypeOK
  <2> SUFFICES ASSUME IInv, FilesInv PROVE TypeOK
    OBVIOUS
  <2>1. free \in 0 .. MaxUpstreamFetches
    <3>1. Cardinality(Leaders) \in Nat /\ free \in Nat /\ artifacts \in Nat
      BY FS_CardinalityType, ConstantsAssumption DEF IInv, PermitInv, BaseInv, Types
    <3>2. free + artifacts + Cardinality(Leaders) = MaxUpstreamFetches
      BY DEF IInv, PermitInv, PermitAccounting, Leaders
    <3>3. MaxUpstreamFetches \in Nat
      BY ConstantsAssumption
    <3>4. QED
      BY <3>1, <3>2, <3>3
  <2>2. QED
    BY <2>1 DEF IInv, BaseInv, Types, FilesInv, FileTypes, TypeOK
<1>2. QED
  BY <1>1, Invariance, FilesInvariance, PTL

\* store_metadata leaves a temporary file or a cache over its bound only where it
\* was cut short, whatever fails and whoever disconnects.
THEOREM LeftoversAreExplained == SafeSpec => []LeftoversOnlyWhenCut
<1>1. IInv /\ FilesInv => LeftoversOnlyWhenCut
  <2> SUFFICES ASSUME FilesInv, Quiet
               PROVE  temps \subseteq cut /\ (cut = {} => Bytes(Stored) <= MaxCacheSize)
    BY DEF LeftoversOnlyWhenCut
  <2>1. \A r \in Reqs : req[r] \notin {"lock", "rename", "list", "scan"}
    BY DEF Quiet, Ended
  <2>2. temps \subseteq cut
    BY <2>1 DEF FilesInv, FileTypes, TempInv, Quiet
  <2>3. QED
    BY <2>1, <2>2 DEF FilesInv, BoundInv
<1>2. QED
  BY <1>1, Invariance, FilesInvariance, PTL

-------------------------------------------------------------------------------
(* Waiting requests.  That they end is a liveness property; that nobody waits *)
(* for a flight nothing is left of is the part of it that is safety.          *)

\* A follower has an outcome to answer with, or the leader or the task of its
\* guard will give it one: no failure and no disconnect leaves a follower alone.
Attended ==
    \A r \in Reqs : req[r] = "wait" =>
        \/ outcome[flight[r]] # None
        \/ req[flight[r]] \in Leading \ {"finish"}
        \/ guard[flight[r]] = "fail"

\* A leader that reports has something to report, and what is about to be removed
\* from the map has been completed before.
Completed ==
    \A f \in Reqs : /\ req[f] = "signal" => result[f] # None
                    /\ req[f] = "finish" \/ guard[f] = "finish" => outcome[f] # None

WaitInv == Attended /\ Completed

\* Every step preserves it; one case per action that touches what it speaks about.
LEMMA NextWait == BaseInv /\ WaitInv /\ [Next]_vars => WaitInv'
<1> SUFFICES ASSUME BaseInv, WaitInv, [Next]_vars PROVE WaitInv'
  OBVIOUS
<1> USE DEF WaitInv, Attended, Completed, Leading, Storing
<1>1. /\ Requests /\ Stores /\ SingleFlight
      /\ inflight \in [Keys -> Reqs \cup {None}]
      /\ req \in [Reqs -> {"idle", "wait"} \cup Leading \cup Ended]
      /\ flight \in [Reqs -> Reqs \cup {None}]
      /\ entry \in [Reqs -> Nat \cup {None}]
      /\ result \in [Reqs -> Nat \cup {Failed, None}]
      /\ outcome \in [Reqs -> Nat \cup {Failed, None}]
      /\ guard \in [Reqs -> {"off", "fail", "finish"}]
      /\ upstream \in [Keys -> Nat]
  BY DEF BaseInv, Types
<1>2. None \notin Nat \cup Reqs \cup {Failed} /\ KeyOf \in [Reqs -> Keys]
  BY ConstantsAssumption
<1>3. \A q \in Reqs : req[q] = "wait" => flight[q] \in Reqs
  BY <1>1 DEF Requests
<1>4. CASE UNCHANGED <<req, flight, outcome, guard, result>>
  BY <1>4
<1>5. ASSUME NEW r \in Reqs, Join(r) PROVE WaitInv'
  <2>1. /\ req' = [req EXCEPT ![r] = "wait"]
        /\ flight' = [flight EXCEPT ![r] = inflight[KeyOf[r]]]
        /\ UNCHANGED <<outcome, guard, result>> /\ req[r] = "idle"
    BY <1>5 DEF Join, Goto, flightVars, permitVars, leadVars
  <2>2. /\ inflight[KeyOf[r]] \in Reqs
        /\ req[inflight[KeyOf[r]]] \in Leading \/ guard[inflight[KeyOf[r]]] # "off"
    BY <1>1, <1>2, <1>5 DEF Join, SingleFlight
  <2>3. \/ outcome[inflight[KeyOf[r]]] # None
        \/ req[inflight[KeyOf[r]]] \in Leading \ {"finish"}
        \/ guard[inflight[KeyOf[r]]] = "fail"
    BY <1>1, <2>2
  <2>4. inflight[KeyOf[r]] # r
    BY <1>1, <2>1, <2>2 DEF Requests
  <2>5. \A q \in Reqs : req[q] = "wait" => flight[q] # r
    BY <1>1, <2>1 DEF Requests
  <2>6. QED
    BY <1>1, <1>3, <2>1, <2>2, <2>3, <2>4, <2>5
<1>6. ASSUME NEW r \in Reqs, NEW end \in Ended \cup {"load"},
             req[r] \in {"idle", "wait"}, Goto(r, end),
             UNCHANGED <<flight, outcome, guard, result>>
      PROVE  WaitInv'
  <2>1. \A q \in Reqs : req[q] = "wait" => req[flight[q]] \notin {"idle"}
    BY <1>1 DEF Requests
  <2>2. \A q \in Reqs : q # r => req'[q] = req[q]
    BY <1>1, <1>6 DEF Goto
  <2>3. req'[r] = end
    BY <1>1, <1>6 DEF Goto
  <2>4. QED
    BY <1>3, <1>6, <2>1, <2>2, <2>3 DEF Ended
<1>7. ASSUME NEW r \in Reqs, Refuse(r) \/ Lead(r) \/ Answer(r) \/ FollowerLeaves(r)
      PROVE  WaitInv'
  <2>1. /\ req[r] \in {"idle", "wait"} /\ \E end \in Ended \cup {"load"} : Goto(r, end)
        /\ UNCHANGED <<flight, outcome, guard, result>>
    BY <1>7 DEF Refuse, Lead, Answer, FollowerLeaves, Ended, flightVars, permitVars, leadVars
  <2>2. QED
    BY <1>6, <2>1
<1>8. ASSUME NEW r \in Reqs, NEW next \in Leading \ {"finish"},
             req[r] \in Leading \ {"finish"}, Goto(r, next), UNCHANGED <<flight, outcome, guard>>,
             \/ result' = result /\ (next = "signal" => result[r] # None)
             \/ \E v \in Nat \cup {Failed} : result' = [result EXCEPT ![r] = v]
      PROVE  WaitInv'
  <2>1. \A q \in Reqs : q # r => req'[q] = req[q] /\ result'[q] = result[q]
    BY <1>1, <1>8 DEF Goto
  <2>2. req'[r] = next /\ (next = "signal" => result'[r] # None)
    BY <1>1, <1>2, <1>8 DEF Goto
  <2>3. QED
    BY <1>3, <1>8, <2>1, <2>2
<1>9. ASSUME NEW r \in Reqs, Load(r) \/ CreateTemp(r) \/ AcquireLock(r) \/ Rename(r) \/ ListEntries(r)
      PROVE  WaitInv'
  BY <1>8, <1>9 DEF Load, CreateTemp, AcquireLock, Rename, ListEntries, flightVars, permitVars, leadVars
<1>10. ASSUME NEW r \in Reqs, ScanEnds(r) PROVE WaitInv'
  <2>1. result[r] # None
    BY <1>1, <1>2, <1>10 DEF ScanEnds, Stores
  <2>2. QED
    BY <1>8, <1>10, <2>1 DEF ScanEnds, flightVars, permitVars, leadVars
<1>11. ASSUME NEW r \in Reqs, NotModified(r) \/ Fresh(r) PROVE WaitInv'
  <2>1. upstream[KeyOf[r]] \in Nat
    BY <1>1, <1>2
  <2>2. /\ req[r] = "send" /\ UNCHANGED <<flight, outcome, guard>>
        /\ result' = [result EXCEPT ![r] = upstream[KeyOf[r]]]
        /\ Goto(r, "create") \/ Goto(r, "signal")
    BY <1>11 DEF NotModified, Fresh, flightVars, permitVars
  <2>3. QED
    BY <1>8, <2>1, <2>2
<1>12. ASSUME NEW r \in Reqs, FetchFails(r) \/ StoreFails(r) \/ ListFails(r) PROVE WaitInv'
  <2>1. /\ req[r] \in Leading \ {"finish"} /\ Goto(r, "signal") /\ UNCHANGED <<flight, outcome, guard>>
        /\ result' = [result EXCEPT ![r] = Failed]
    BY <1>12 DEF FetchFails, StoreFails, ListFails, flightVars, permitVars
  <2>2. QED
    BY <1>8, <2>1
<1>13. ASSUME NEW r \in Reqs, Signal(r) PROVE WaitInv'
  <2>1. /\ outcome'[r] # None /\ req'[r] = "finish" /\ UNCHANGED <<flight, guard, result>>
        /\ \A q \in Reqs : q # r => req'[q] = req[q] /\ outcome'[q] = outcome[q]
    BY <1>1, <1>13 DEF Signal, Goto, leadVars
  <2>2. QED
    BY <1>3, <2>1
<1>14. ASSUME NEW r \in Reqs, Finish(r) PROVE WaitInv'
  <2>1. /\ outcome[r] # None /\ req'[r] = "done" /\ UNCHANGED <<flight, outcome, guard, result>>
        /\ \A q \in Reqs : q # r => req'[q] = req[q]
    BY <1>1, <1>14 DEF Finish, Goto, leadVars
  <2>2. QED
    BY <1>3, <2>1
<1>15. ASSUME NEW r \in Reqs, LeaderLeaves(r) PROVE WaitInv'
  <2>1. /\ req'[r] = "gone" /\ guard'[r] = "fail" /\ UNCHANGED <<flight, outcome, result>>
        /\ \A q \in Reqs : q # r => req'[q] = req[q] /\ guard'[q] = guard[q]
    BY <1>1, <1>15 DEF LeaderLeaves, Goto, leadVars
  <2>2. QED
    BY <1>3, <2>1
<1>16. ASSUME NEW r \in Reqs, GuardFails(r) PROVE WaitInv'
  <2>1. /\ outcome'[r] # None /\ guard'[r] = "finish" /\ UNCHANGED <<req, flight, result>>
        /\ \A q \in Reqs : q # r => guard'[q] = guard[q] /\ outcome'[q] = outcome[q]
    BY <1>1, <1>2, <1>16 DEF GuardFails, leadVars
  <2>2. QED
    BY <1>3, <2>1
<1>17. ASSUME NEW r \in Reqs, GuardFinishes(r) PROVE WaitInv'
  <2>1. /\ outcome[r] # None /\ guard'[r] = "off" /\ UNCHANGED <<req, flight, outcome, result>>
        /\ \A q \in Reqs : q # r => guard'[q] = guard[q]
    BY <1>1, <1>17 DEF GuardFinishes, leadVars
  <2>2. QED
    BY <1>3, <2>1
<1>18. ASSUME NEW r \in Reqs,
              \/ \E k \in Keys : RemoveEntry(r, k) \/ RemoveFails(r, k)
              \/ RemoveTemp(r) \/ LateCreate(r) \/ LateRename(r)
       PROVE  UNCHANGED <<req, flight, outcome, guard, result>>
  BY <1>18 DEF RemoveEntry, RemoveFails, RemoveTemp, LateCreate, LateRename, flightVars, permitVars, leadVars
<1>19. ASSUME ArtifactBegins \/ ArtifactEnds \/ \E k \in Keys : UpstreamChanges(k)
       PROVE  UNCHANGED <<req, flight, outcome, guard, result>>
  BY <1>19 DEF UpstreamChanges, ArtifactBegins, ArtifactEnds, flightVars, permitVars, leadVars
<1>20. CASE UNCHANGED vars
  BY <1>4, <1>20 DEF vars, flightVars, permitVars, leadVars
<1>21. QED
  BY <1>4, <1>5, <1>7, <1>9, <1>10, <1>11, <1>12, <1>13, <1>14, <1>15, <1>16, <1>17, <1>18,
     <1>19, <1>20
  DEF Next, LeadStep, GuardStep, TempStep, PoolStep, Settled

\* serve_metadata_inflight, run_metadata_fetch and MetadataFetchCleanup: a follower
\* has its outcome there, or a leader or guard that will give it one.  With the
\* fairness of the runtime this is why every request ends, which the runs check.
THEOREM FollowersAreAttended == SafeSpec => []Attended
<1>1. Init => WaitInv
  BY DEF Init, WaitInv, Attended, Completed
<1>2. IInv => BaseInv
  BY DEF IInv
<1>3. SafeSpec => []WaitInv
  BY <1>1, <1>2, NextWait, Invariance, PTL DEF SafeSpec
<1>4. WaitInv => Attended
  BY DEF WaitInv
<1>5. QED
  BY <1>3, <1>4, PTL
===============================================================================

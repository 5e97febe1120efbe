--------------------------- MODULE AdmissionProofs ---------------------------
(***************************************************************************)
(* Proofs about Admission: both semaphores are accounted for exactly, by   *)
(* who holds a permit and by what is reserved, in every reachable state    *)
(* and for any number of requests, any budget and any sizes.               *)
(***************************************************************************)
EXTENDS Admission, FiniteSums

Reserved == SumFunctionOnSet(held, Reqs)
Holders == {r \in Reqs : stage[r] \in Permitted}

\* TypeOK but for the bounds of the two semaphores.
Types ==
    /\ free \in Int
    /\ mem \in Int
    /\ stage \in [Reqs -> {"idle", "wait", "deliver", "guard"} \cup Permitted \cup Ended]
    /\ held \in [Reqs -> Nat]
    /\ body \in [Reqs -> 0 .. MaxBody]
    /\ declared \in [Reqs -> (0 .. MaxBody) \cup {None}]
    /\ inflight \in Reqs \cup {None}
    /\ flight \in [Reqs -> Reqs \cup {None}]
    /\ outcome \in [Reqs -> {None, "body", "failed"}]
    /\ starved \subseteq Reqs

\* Which stages a kind of request can be in, and the registered leader.
KindInv ==
    /\ \A r \in Reqs : Kind[r] # "metadata" =>
          stage[r] \notin {"wait", "guard", "signal", "finish", "failing", "rewrite"}
    /\ \A r \in Reqs : Kind[r] = "head" => stage[r] \notin {"post", "send", "read"}
    /\ \A r \in Reqs : Kind[r] = "metadata" => stage[r] \notin {"head", "post"}
    /\ \A r \in Reqs : Kind[r] = "metadata" /\ stage[r] \in Permitted \cup {"guard"}
          => inflight = r
    /\ inflight # None => /\ Kind[inflight] = "metadata"
                          /\ stage[inflight] \in Permitted \cup {"guard"}

\* What a request has joined, what a flight has reported.
FlightInv ==
    /\ \A r \in Reqs : stage[r] = "wait" => flight[r] \in Reqs
    /\ \A r \in Reqs : stage[r] \in Permitted \cup {"idle"} => flight[r] = None
    /\ \A r \in Reqs : stage[r] \in {"idle", "wait"} => body[r] = 0
    /\ \A f \in Reqs : stage[f] \in {"idle", "wait", "head", "post", "send", "read",
                                     "rewrite", "signal", "failing"}
          => outcome[f] = None
    /\ \A r \in Reqs : stage[r] = "deliver" /\ flight[r] # None
          => outcome[flight[r]] = "body"

\* Every permit is free or with a handler.
PermitInv ==
    /\ free = MaxUpstreamFetches - Cardinality(Holders)
    /\ free >= 0

\* Every MiB is free or reserved.
MemoryInv ==
    /\ mem = Budget - Reserved
    /\ mem >= 0

\* A reservation covers what it is for, and is gone with it.
CoverInv ==
    \A f \in Reqs :
        /\ ~BytesAlive(f) => held[f] = 0
        /\ BytesAlive(f) => body[f] <= held[f]
        /\ stage[f] = "rewrite" => WorkingSet(body[f]) <= held[f]

\* A request refused for lack of memory holds none and asks for none again.
StarvedInv ==
    /\ \A r \in starved : held[r] = 0 /\ stage[r] \notin {"idle", "post", "send", "read"}
    /\ \A r \in Reqs : Kind[r] = "head" => held[r] = 0

IInv == Types /\ KindInv /\ FlightInv /\ PermitInv /\ MemoryInv /\ CoverInv
        /\ StarvedInv /\ SomebodyFits

-------------------------------------------------------------------------------
(* Sizes and the two semaphores.                                           *)

\* The sizes a rewrite asks for are numbers, and its result fits in its
\* working set.
LEMMA Sizes ==
    ASSUME NEW n \in 0 .. MaxBody
    PROVE  /\ OutputBound(n) \in Nat
           /\ WorkingSet(n) \in Nat
           /\ OutputBound(n) <= WorkingSet(n)
  <1>1. Growth * n \in Nat /\ NpmFactor * n \in Nat
    BY ConstantsAssumption
  <1>2. OutputBound(n) \in Nat
    BY <1>1, ConstantsAssumption DEF OutputBound, Least
  <1>3. CASE Rewrite = "none"
    BY <1>3 DEF OutputBound, WorkingSet
  <1>4. CASE Rewrite = "pypi"
    BY <1>2, <1>4 DEF WorkingSet
  <1>5. CASE Rewrite = "npm"
    BY <1>1, <1>2, <1>5 DEF WorkingSet
  <1> QED BY <1>3, <1>4, <1>5, ConstantsAssumption

\* The semaphore after the reservations become h, when h fits: it has what is
\* not reserved.
LEMMA HoldFacts ==
    ASSUME Types, MemoryInv, NEW h \in [Reqs -> Nat],
           SumFunctionOnSet(h, Reqs) <= Budget, Hold(h)
    PROVE  /\ held' \in [Reqs -> Nat]
           /\ mem' \in Int
           /\ MemoryInv'
           /\ \A f \in Reqs : held'[f] = IF BytesAlive(f)' THEN h[f] ELSE 0
  <1>1. \A f \in Reqs : held'[f] = IF BytesAlive(f)' THEN h[f] ELSE 0
    BY DEF Hold, ReservationAlive
  <1>2. held' \in [Reqs -> Nat]
    BY DEF Hold
  <1>3. \A f \in Reqs : /\ held[f] \in Nat
                        /\ held'[f] \in Nat
                        /\ h[f] \in Nat
                        /\ held'[f] <= h[f]
    BY <1>1, <1>2 DEF Types
  <1> DEFINE d == [f \in Reqs |-> held'[f] - held[f]]
  <1>4. SumFunctionOnSet(d, Reqs)
          = SumFunctionOnSet(held', Reqs) - SumFunctionOnSet(held, Reqs)
    <2>1. \A f \in Reqs : /\ held[f] \in Int /\ held'[f] \in Int
                          /\ d[f] = held'[f] - held[f]
      BY <1>3
    <2> HIDE DEF d
    <2> QED BY <2>1, SumDifference, ConstantsAssumption
  <1>5. mem' = mem - SumFunctionOnSet(d, Reqs)
    BY DEF Hold
  <1>6. /\ SumFunctionOnSet(held', Reqs) <= SumFunctionOnSet(h, Reqs)
        /\ SumFunctionOnSet(held', Reqs) \in Int
        /\ SumFunctionOnSet(held, Reqs) \in Int
        /\ SumFunctionOnSet(h, Reqs) \in Int
    BY <1>3, SumMonotone, SumInt, ConstantsAssumption
  <1> HIDE DEF d
  <1>7. Reserved = SumFunctionOnSet(held, Reqs) /\ Reserved' = SumFunctionOnSet(held', Reqs)
    BY DEF Reserved
  <1>8. mem' = Budget - Reserved' /\ mem' \in Int /\ mem' >= 0
    BY <1>4, <1>5, <1>6, <1>7, ConstantsAssumption DEF MemoryInv
  <1> QED BY <1>1, <1>2, <1>8 DEF MemoryInv

\* Nothing new is reserved: only dropped reservations change.
LEMMA KeepFacts ==
    ASSUME Types, MemoryInv, Hold(held)
    PROVE  /\ held' \in [Reqs -> Nat]
           /\ mem' \in Int
           /\ MemoryInv'
           /\ \A f \in Reqs : held'[f] = IF BytesAlive(f)' THEN held[f] ELSE 0
  <1>1. held \in [Reqs -> Nat] /\ SumFunctionOnSet(held, Reqs) \in Int
    BY SumInt, ConstantsAssumption DEF Types
  <1>2. SumFunctionOnSet(held, Reqs) <= Budget
    BY <1>1, ConstantsAssumption DEF MemoryInv, Reserved
  <1> QED BY <1>1, <1>2, HoldFacts

\* Request r has reserved n MiB, and still has them if its bytes are alive.
LEMMA ReserveFacts ==
    ASSUME Types, MemoryInv, NEW r \in Reqs, NEW n \in Nat,
           Fits(r, n), Reserve(r, n)
    PROVE  /\ held' \in [Reqs -> Nat]
           /\ mem' \in Int
           /\ MemoryInv'
           /\ BytesAlive(r)' => held'[r] >= n /\ held'[r] >= held[r]
           /\ \A f \in Reqs : ~BytesAlive(f)' => held'[f] = 0
           /\ \A f \in Reqs \ {r} : BytesAlive(f)' => held'[f] = held[f]
  <1> DEFINE h == [held EXCEPT ![r] = held[r] + Additional(r, n)]
  <1>1. /\ held[r] \in Nat
        /\ Additional(r, n) \in Nat
        /\ Additional(r, n) <= mem
        /\ held[r] + Additional(r, n) >= n
    <2>1. held[r] \in Nat /\ Required(n) \in Nat /\ Required(n) >= n
      BY DEF Types, Required
    <2> QED BY <2>1 DEF Fits, Additional
  <1>2. /\ h \in [Reqs -> Nat]
        /\ h[r] = held[r] + Additional(r, n)
        /\ \A f \in Reqs : f # r => h[f] = held[f]
    BY <1>1 DEF Types
  <1>3. Hold(h)
    BY DEF Reserve
  <1> HIDE DEF h
  <1>4. SumFunctionOnSet(h, Reqs) = SumFunctionOnSet(held, Reqs) - held[r] + h[r]
    <2>1. \A f \in Reqs : held[f] \in Int /\ h[f] \in Int /\ (f # r => held[f] = h[f])
      BY <1>2 DEF Types
    <2> QED BY <2>1, SumUpdate, ConstantsAssumption
  <1>5. SumFunctionOnSet(held, Reqs) \in Int
    BY SumInt, ConstantsAssumption DEF Types
  <1>6. SumFunctionOnSet(h, Reqs) <= Budget
    BY <1>1, <1>2, <1>4, <1>5, ConstantsAssumption DEF MemoryInv, Reserved, Types
  <1>7. /\ held' \in [Reqs -> Nat]
        /\ mem' \in Int
        /\ MemoryInv'
        /\ \A f \in Reqs : held'[f] = IF BytesAlive(f)' THEN h[f] ELSE 0
    BY <1>2, <1>3, <1>6, HoldFacts
  <1> QED BY <1>1, <1>2, <1>7

\* The reservations are left alone.
LEMMA MemorySame ==
    ASSUME MemoryInv, held' = held, mem' = mem
    PROVE  MemoryInv'
  BY DEF MemoryInv, Reserved

\* The permits: nobody takes or returns one, r takes one, r returns its own.
LEMMA PermitSame ==
    ASSUME PermitInv, free' = free,
           \A q \in Reqs : stage'[q] \in Permitted <=> stage[q] \in Permitted
    PROVE  PermitInv'
  <1>1. Holders' = Holders
    BY DEF Holders
  <1> QED BY <1>1 DEF PermitInv

LEMMA PermitTaken ==
    ASSUME Types, PermitInv, NEW r \in Reqs, free > 0, free' = free - 1,
           stage[r] \notin Permitted, stage'[r] \in Permitted,
           \A q \in Reqs \ {r} : stage'[q] = stage[q]
    PROVE  PermitInv'
  <1>1. IsFiniteSet(Holders) /\ Cardinality(Holders) \in Nat
    BY FS_Subset, FS_CardinalityType, ConstantsAssumption DEF Holders
  <1>2. Holders' = Holders \cup {r} /\ r \notin Holders
    BY DEF Holders
  <1>3. Cardinality(Holders') = Cardinality(Holders) + 1
    BY <1>1, <1>2, FS_AddElement
  <1> QED BY <1>1, <1>3, ConstantsAssumption DEF PermitInv, Types

LEMMA PermitReturned ==
    ASSUME Types, PermitInv, NEW r \in Reqs, free' = free + 1,
           stage[r] \in Permitted, stage'[r] \notin Permitted,
           \A q \in Reqs \ {r} : stage'[q] = stage[q]
    PROVE  PermitInv'
  <1>1. IsFiniteSet(Holders) /\ Cardinality(Holders) \in Nat
    BY FS_Subset, FS_CardinalityType, ConstantsAssumption DEF Holders
  <1>2. Holders' = Holders \ {r} /\ r \in Holders
    BY DEF Holders
  <1>3. Cardinality(Holders') = Cardinality(Holders) - 1
    BY <1>1, <1>2, FS_RemoveElement
  <1> QED BY <1>1, <1>3, ConstantsAssumption DEF PermitInv, Types

\* SomebodyFits only looks at who was refused.
LEMMA NobodyStarved ==
    ASSUME SomebodyFits, starved' = starved
    PROVE  SomebodyFits'
  BY DEF SomebodyFits, Users

-------------------------------------------------------------------------------
(* One step of a request.                                                  *)

\* Reservations without a step of their own: nothing dies, nothing is born with
\* bytes, nothing is reserved.
LEMMA CoverSame ==
    ASSUME Types, CoverInv, held' = held, body' = body,
           \A f \in Reqs : /\ BytesAlive(f) <=> BytesAlive(f)'
                           /\ stage'[f] = "rewrite" => stage[f] = "rewrite"
    PROVE  CoverInv'
  <1> SUFFICES ASSUME NEW f \in Reqs
               PROVE  /\ ~BytesAlive(f)' => held'[f] = 0
                      /\ BytesAlive(f)' => body'[f] <= held'[f]
                      /\ stage'[f] = "rewrite" => WorkingSet(body'[f]) <= held'[f]
    BY DEF CoverInv, WorkingSet, OutputBound, Least
  <1> QED BY Zenon DEF CoverInv

\* Reservations are only dropped: what is alive was so before, or has no bytes.
LEMMA CoverKept ==
    ASSUME Types, CoverInv, body' = body,
           \A f \in Reqs : held'[f] = IF BytesAlive(f)' THEN held[f] ELSE 0,
           \A f \in Reqs : /\ BytesAlive(f)' => BytesAlive(f) \/ body[f] = 0
                           /\ stage'[f] = "rewrite" =>
                                stage[f] = "rewrite" /\ BytesAlive(f)'
    PROVE  CoverInv'
  <1> SUFFICES ASSUME NEW f \in Reqs
               PROVE  /\ ~BytesAlive(f)' => held'[f] = 0
                      /\ BytesAlive(f)' => body'[f] <= held'[f]
                      /\ stage'[f] = "rewrite" => WorkingSet(body'[f]) <= held'[f]
    BY DEF CoverInv, WorkingSet, OutputBound, Least
  <1>1. held[f] \in Nat /\ body[f] \in Nat
    BY ConstantsAssumption DEF Types
  <1>2. /\ ~BytesAlive(f) => held[f] = 0
        /\ BytesAlive(f) => body[f] <= held[f]
        /\ stage[f] = "rewrite" => WorkingSet(body[f]) <= held[f]
    BY DEF CoverInv
  <1>3. CASE BytesAlive(f)'
    <2>1. held'[f] = held[f]
      BY <1>3, Zenon
    <2>2. body[f] <= held[f]
      <3>1. BytesAlive(f) \/ body[f] = 0
        BY <1>3, Zenon
      <3>2. CASE BytesAlive(f)
        BY <1>2, <3>2, Zenon
      <3>3. CASE body[f] = 0
        BY <1>1, <3>3
      <3> QED BY <3>1, <3>2, <3>3, Zenon
    <2> QED BY <1>2, <1>3, <2>1, <2>2, Zenon
  <1>4. CASE ~BytesAlive(f)'
    BY <1>4, Zenon
  <1> QED BY <1>3, <1>4, Zenon

\* A request refused for lack of memory stays out of it.
LEMMA StarvedKept ==
    ASSUME Types, StarvedInv, starved' = starved,
           \A f \in Reqs : held'[f] = held[f] \/ held'[f] = 0,
           \A f \in Reqs : stage'[f] \in {"idle", "post", "send", "read"}
                            => stage[f] \in {"idle", "post", "send", "read"}
    PROVE  StarvedInv'
  BY DEF StarvedInv, Types

\* The refusal for want of a permit changes nothing but the stage.
LEMMA RefuseIInv ==
    ASSUME IInv, NEW r \in Reqs, Refuse(r)
    PROVE  IInv'
  <1> USE DEF IInv
  <1>1. Types' /\ KindInv' /\ FlightInv'
    BY ConstantsAssumption
    DEF Refuse, Goto, flightVars, Permitted, Ended, Types, KindInv, FlightInv
  <1>2. PermitInv'
    BY PermitSame DEF Refuse, Goto, Permitted, Types
  <1>3. \A f \in Reqs : BytesAlive(f) <=> BytesAlive(f)'
    BY ConstantsAssumption
    DEF Refuse, Goto, flightVars, Types, KindInv, FlightInv, BytesAlive, InflightAlive
  <1>4. CoverInv'
    BY <1>3, CoverSame DEF Refuse, Goto, flightVars, Types
  <1>5. MemoryInv' /\ SomebodyFits'
    BY MemorySame, NobodyStarved DEF Refuse
  <1>6. StarvedInv'
    BY StarvedKept DEF Refuse, Goto, Types
  <1> QED BY <1>1, <1>2, <1>4, <1>5, <1>6

\* A HEAD answered from the cache.
LEMMA HeadHitIInv ==
    ASSUME IInv, NEW r \in Reqs, HeadHit(r)
    PROVE  IInv'
  <1> USE DEF IInv
  <1>1. Types' /\ KindInv' /\ FlightInv'
    BY ConstantsAssumption
    DEF HeadHit, Goto, flightVars, Permitted, Ended, Types, KindInv, FlightInv
  <1>2. PermitInv'
    BY PermitSame DEF HeadHit, Goto, Permitted, Types
  <1>3. \A f \in Reqs : BytesAlive(f) <=> BytesAlive(f)'
    BY ConstantsAssumption
    DEF HeadHit, Goto, flightVars, Types, KindInv, FlightInv, BytesAlive, InflightAlive
  <1>4. CoverInv'
    BY <1>3, CoverSame DEF HeadHit, Goto, flightVars, Types
  <1>5. MemoryInv' /\ SomebodyFits'
    BY MemorySame, NobodyStarved DEF HeadHit
  <1>6. StarvedInv'
    BY StarvedKept DEF HeadHit, Goto, Types
  <1> QED BY <1>1, <1>2, <1>4, <1>5, <1>6

\* A permit goes to a HEAD, a search or an audit.
LEMMA AdmitIInv ==
    ASSUME IInv, NEW r \in Reqs, Admit(r)
    PROVE  IInv'
  <1> USE DEF IInv
  <1>0. PICK s \in {"head", "post", "send"} :
           /\ stage' = [stage EXCEPT ![r] = s]
           /\ Kind[r] = "head" => s = "head"
    <2>1. CASE Kind[r] = "head"
      BY <2>1 DEF Admit, Goto
    <2>2. CASE Kind[r] = "audit"
      BY <2>2 DEF Admit, Goto
    <2>3. CASE Kind[r] = "search"
      BY <2>3 DEF Admit, Goto
    <2> QED BY <2>1, <2>2, <2>3, ConstantsAssumption DEF Admit
  <1>1. Types' /\ KindInv' /\ FlightInv'
    <2> USE <1>0, ConstantsAssumption
        DEF Admit, flightVars, Permitted, Ended, Types, KindInv, FlightInv
    <2>1. Types'
      OBVIOUS
    <2>2. KindInv'
      OBVIOUS
    <2>3. FlightInv'
      OBVIOUS
    <2> QED BY <2>1, <2>2, <2>3
  <1>2. PermitInv'
    BY <1>0, PermitTaken DEF Admit, Permitted, Types
  <1>3. \A f \in Reqs : BytesAlive(f) <=> BytesAlive(f)'
    BY <1>0, ConstantsAssumption
    DEF Admit, flightVars, Types, KindInv, FlightInv, BytesAlive, InflightAlive
  <1>4. CoverInv'
    BY <1>0, <1>3, CoverSame DEF Admit, flightVars, Types
  <1>5. MemoryInv' /\ SomebodyFits'
    BY MemorySame, NobodyStarved DEF Admit
  <1>6. StarvedInv'
    BY <1>0, StarvedKept DEF Admit, Types
  <1> QED BY <1>1, <1>2, <1>4, <1>5, <1>6

\* A permit goes to the leader of a flight.
LEMMA LeadIInv ==
    ASSUME IInv, NEW r \in Reqs, Lead(r)
    PROVE  IInv'
  <1> USE DEF IInv
  <1>1. Types' /\ KindInv' /\ FlightInv'
    BY ConstantsAssumption
    DEF Lead, Goto, flightVars, Permitted, Ended, Types, KindInv, FlightInv
  <1>2. PermitInv'
    BY PermitTaken DEF Lead, Goto, Permitted, Types
  <1>3. \A f \in Reqs : BytesAlive(f) <=> BytesAlive(f)'
    BY ConstantsAssumption
    DEF Lead, Goto, flightVars, Types, KindInv, FlightInv, BytesAlive, InflightAlive
  <1>4. CoverInv'
    BY <1>3, CoverSame DEF Lead, Goto, flightVars, Types
  <1>5. MemoryInv' /\ SomebodyFits'
    BY MemorySame, NobodyStarved DEF Lead
  <1>6. StarvedInv'
    BY StarvedKept DEF Lead, Goto, Types
  <1> QED BY <1>1, <1>2, <1>4, <1>5, <1>6

\* A follower joins the registered flight.
LEMMA JoinIInv ==
    ASSUME IInv, NEW r \in Reqs, Join(r)
    PROVE  IInv'
  <1> USE DEF IInv
  <1>1. Types' /\ KindInv' /\ FlightInv'
    BY ConstantsAssumption
    DEF Join, Goto, flightVars, Permitted, Ended, Types, KindInv, FlightInv
  <1>2. PermitInv'
    BY PermitSame DEF Join, Goto, Permitted, Types
  <1>3. \A f \in Reqs : BytesAlive(f) <=> BytesAlive(f)'
    BY ConstantsAssumption
    DEF Join, Goto, flightVars, Types, KindInv, FlightInv, BytesAlive, InflightAlive
  <1>4. CoverInv'
    BY <1>3, CoverSame DEF Join, Goto, flightVars, Types
  <1>5. MemoryInv' /\ SomebodyFits'
    BY MemorySame, NobodyStarved DEF Join
  <1>6. StarvedInv'
    BY StarvedKept DEF Join, Goto, Types
  <1> QED BY <1>1, <1>2, <1>4, <1>5, <1>6

\* The audit has read its own body.
LEMMA AuditBodyIInv ==
    ASSUME IInv, NEW r \in Reqs, AuditBody(r)
    PROVE  IInv'
  <1> USE DEF IInv
  <1>1. Types' /\ KindInv' /\ FlightInv'
    BY ConstantsAssumption
    DEF AuditBody, Goto, flightVars, Permitted, Ended, Types, KindInv, FlightInv
  <1>2. PermitInv'
    BY PermitSame DEF AuditBody, Goto, Permitted, Types
  <1>3. \A f \in Reqs : BytesAlive(f) <=> BytesAlive(f)'
    BY ConstantsAssumption
    DEF AuditBody, Goto, flightVars, Types, KindInv, FlightInv, BytesAlive, InflightAlive
  <1>4. CoverInv'
    BY <1>3, CoverSame DEF AuditBody, Goto, flightVars, Types
  <1>5. MemoryInv' /\ SomebodyFits'
    BY MemorySame, NobodyStarved DEF AuditBody
  <1>6. StarvedInv'
    BY StarvedKept DEF AuditBody, Goto, Types
  <1> QED BY <1>1, <1>2, <1>4, <1>5, <1>6

\* The cold HEAD ends and returns its permit.
LEMMA HeadEndsIInv ==
    ASSUME IInv, NEW r \in Reqs, HeadEnds(r)
    PROVE  IInv'
  <1> USE DEF IInv
  <1>1. Types' /\ KindInv' /\ FlightInv'
    BY ConstantsAssumption
    DEF HeadEnds, Goto, flightVars, Permitted, Ended, Types, KindInv, FlightInv
  <1>2. PermitInv'
    BY PermitReturned DEF HeadEnds, Goto, Permitted, Types
  <1>3. \A f \in Reqs : BytesAlive(f) <=> BytesAlive(f)'
    BY ConstantsAssumption
    DEF HeadEnds, Goto, flightVars, Types, KindInv, FlightInv, BytesAlive, InflightAlive
  <1>4. CoverInv'
    BY <1>3, CoverSame DEF HeadEnds, Goto, flightVars, Types
  <1>5. MemoryInv' /\ SomebodyFits'
    BY MemorySame, NobodyStarved DEF HeadEnds
  <1>6. StarvedInv'
    BY StarvedKept DEF HeadEnds, Goto, Types
  <1> QED BY <1>1, <1>2, <1>4, <1>5, <1>6

\* The reservations of the others are kept, those of dead bytes dropped.
LEMMA GiveUpFacts ==
    ASSUME IInv, NEW r \in Reqs, starved' \subseteq Reqs, GiveUp(r),
           stage[r] \in {"head", "post", "send", "read", "rewrite"}
    PROVE  /\ Types' /\ KindInv' /\ FlightInv' /\ PermitInv' /\ MemoryInv' /\ CoverInv'
           /\ held'[r] = 0
           /\ \A f \in Reqs : held'[f] = held[f] \/ held'[f] = 0
           /\ \A f \in Reqs : stage'[f] \in {"idle", "post", "send", "read"}
                              => f # r /\ stage'[f] = stage[f]
  <1> USE DEF IInv
  <1>0. /\ held' \in [Reqs -> Nat]
        /\ mem' \in Int
        /\ MemoryInv'
        /\ \A f \in Reqs : held'[f] = IF BytesAlive(f)' THEN held[f] ELSE 0
    BY KeepFacts DEF GiveUp
  <1>1. PICK s \in {"failing", "failed"} :
           /\ stage' = [stage EXCEPT ![r] = s]
           /\ s = "failing" => Kind[r] = "metadata" /\ free' = free
           /\ s = "failed" => Kind[r] # "metadata" /\ free' = free + 1
    BY DEF GiveUp, Goto
  <1>2. body' = body /\ declared' = declared /\ inflight' = inflight
        /\ flight' = flight /\ outcome' = outcome
    BY DEF GiveUp, flightVars
  <1>3. /\ stage[r] \in Permitted
        /\ s \in Permitted <=> s = "failing"
        /\ s \in {"failing", "failed"}
        /\ \A f \in Reqs : stage'[f] = IF f = r THEN s ELSE stage[f]
        /\ outcome[r] = None
    BY <1>1 DEF Permitted, Types, FlightInv
  <1>4. Types'
    BY <1>0, <1>1, <1>2 DEF Types, Permitted, Ended
  <1>5. KindInv' /\ FlightInv'
    BY <1>1, <1>2, <1>3 DEF Types, KindInv, FlightInv, Permitted
  <1>6. PermitInv'
    <2>1. CASE s = "failing"
      BY <1>1, <1>3, <2>1, PermitSame
    <2>2. CASE s = "failed"
      BY <1>1, <1>3, <2>2, PermitReturned
    <2> QED BY <2>1, <2>2
  <1>7. /\ \A f \in Reqs : BytesAlive(f)' => BytesAlive(f)
        /\ ~BytesAlive(r)'
    <2>1. \A f \in Reqs : InflightAlive(f)' => InflightAlive(f)
      BY <1>2, <1>3 DEF InflightAlive
    <2>2. \A f \in Reqs : BytesAlive(f)' => BytesAlive(f)
      BY <1>2, <1>3, <2>1 DEF BytesAlive
    <2>3. ASSUME NEW q \in Reqs, flight'[q] = r, stage'[q] = "deliver"
          PROVE  FALSE
      <3>1. flight[q] = r /\ stage[q] = "deliver" /\ r # None
        BY <1>2, <1>3, <2>3, ConstantsAssumption
      <3> QED BY <1>3, <3>1, ConstantsAssumption DEF FlightInv
    <2>4. ~BytesAlive(r)'
      BY <1>2, <1>3, <2>3, ConstantsAssumption DEF BytesAlive
    <2> QED BY <2>2, <2>4
  <1>8. \A f \in Reqs : stage'[f] = "rewrite" => stage[f] = "rewrite" /\ BytesAlive(f)'
    BY <1>3 DEF BytesAlive
  <1>9. CoverInv'
    BY <1>0, <1>2, <1>7, <1>8, CoverKept
  <1>10. held'[r] = 0 /\ \A f \in Reqs : held'[f] = held[f] \/ held'[f] = 0
    BY <1>0, <1>7
  <1> QED BY <1>0, <1>3, <1>4, <1>5, <1>6, <1>9, <1>10

\* A failure of the exchange, the body or the rewrite.
LEMMA FailIInv ==
    ASSUME IInv, NEW r \in Reqs, Fail(r)
    PROVE  IInv'
  <1>1. /\ stage[r] \in {"head", "post", "send", "read", "rewrite"}
        /\ GiveUp(r) /\ starved' = starved /\ starved' \subseteq Reqs
        /\ Types /\ StarvedInv /\ SomebodyFits
    BY DEF Fail, IInv, Types
  <1>2. /\ Types' /\ KindInv' /\ FlightInv' /\ PermitInv' /\ MemoryInv' /\ CoverInv'
        /\ \A f \in Reqs : held'[f] = held[f] \/ held'[f] = 0
        /\ \A f \in Reqs : stage'[f] \in {"idle", "post", "send", "read"}
                           => stage'[f] = stage[f]
    BY <1>1, GiveUpFacts
  <1>3. StarvedInv'
    BY <1>1, <1>2, StarvedKept
  <1>4. SomebodyFits'
    BY <1>1, NobodyStarved
  <1> QED BY <1>2, <1>3, <1>4 DEF IInv

\* A refusal for lack of memory: if nothing exceeds the budget on its own,
\* somebody else holds the rest, who has not been refused.
LEMMA StarveIInv ==
    ASSUME IInv, NEW r \in Reqs, NEW n \in Nat, Starve(r, n),
           stage[r] \in {"send", "read"},
           n \in 0 .. MaxBody \/ \E b \in 0 .. MaxBody : n = WorkingSet(b)
    PROVE  IInv'
  <1>1. GiveUp(r) /\ starved' = starved \cup {r} /\ starved' \subseteq Reqs
    BY DEF Starve, IInv, Types
  <1>2. /\ Types' /\ KindInv' /\ FlightInv' /\ PermitInv' /\ MemoryInv' /\ CoverInv'
        /\ held'[r] = 0
        /\ \A f \in Reqs : held'[f] = held[f] \/ held'[f] = 0
        /\ \A f \in Reqs : stage'[f] \in {"idle", "post", "send", "read"}
                           => f # r /\ stage'[f] = stage[f]
    BY <1>1, GiveUpFacts
  <1>3. StarvedInv'
    BY <1>1, <1>2 DEF IInv, StarvedInv, Types
  <1>4. SomebodyFits'
    <2> SUFFICES ASSUME \A m \in 0 .. MaxBody : WorkingSet(m) <= Budget /\ Required(m) <= Budget,
                        Users # {}, Users \subseteq starved \cup {r}
                 PROVE  FALSE
      BY <1>1 DEF SomebodyFits, Users
    <2>1. ~(Users \subseteq starved)
      BY DEF IInv, SomebodyFits
    <2>2. \A f \in Reqs \ {r} : held[f] = 0
      BY DEF IInv, StarvedInv, Users
    <2>3. held[r] \in Nat /\ mem = Budget - held[r]
      <3> DEFINE zero == [f \in Reqs |-> 0]
      <3>1. SumFunctionOnSet(zero, Reqs) = 0
        BY SumZero, ConstantsAssumption
      <3>2. \A f \in Reqs : /\ zero[f] \in Int /\ held[f] \in Int
                            /\ f # r => zero[f] = held[f]
        BY <2>2 DEF IInv, Types
      <3>3. zero[r] = 0 /\ held[r] \in Nat
        BY DEF IInv, Types
      <3> HIDE DEF zero
      <3>4. SumFunctionOnSet(held, Reqs)
              = SumFunctionOnSet(zero, Reqs) - zero[r] + held[r]
        BY <3>2, SumUpdate, ConstantsAssumption
      <3> QED BY <3>1, <3>3, <3>4 DEF IInv, MemoryInv, Reserved
    <2>4. Required(n) <= Budget
      <3>1. CASE n \in 0 .. MaxBody
        BY <3>1
      <3>2. CASE \E b \in 0 .. MaxBody : n = WorkingSet(b)
        <4>1. n <= Budget
          BY <3>2
        <4>2. Required(0) <= Budget /\ Required(0) = 1
          BY ConstantsAssumption DEF Required
        <4> QED BY <4>1, <4>2 DEF Required
      <3> QED BY <3>1, <3>2
    <2>5. Additional(r, n) > mem
      <3>1. Required(n) \in Nat /\ mem \in Int
        BY DEF Required, IInv, Types
      <3> QED BY <2>3, <3>1 DEF Starve, Fits, Additional
    <2>6. Required(n) \in Nat /\ mem >= 0
      BY DEF Required, IInv, MemoryInv
    <2> QED BY <2>3, <2>4, <2>5, <2>6, ConstantsAssumption
            DEF Additional
  <1> QED BY <1>2, <1>3, <1>4 DEF IInv

\* The response of a search or an audit is complete.
LEMMA NpmBodyEndsIInv ==
    ASSUME IInv, NEW r \in Reqs, NpmBodyEnds(r)
    PROVE  IInv'
  <1> USE DEF IInv
  <1>0. /\ held' \in [Reqs -> Nat]
        /\ mem' \in Int
        /\ MemoryInv'
        /\ \A f \in Reqs : held'[f] = IF BytesAlive(f)' THEN held[f] ELSE 0
    BY KeepFacts DEF NpmBodyEnds
  <1>1. Types'
    <2>1. held' \in [Reqs -> Nat] /\ mem' \in Int
      BY <1>0
    <2>2. free' \in Int
      BY DEF NpmBodyEnds, Types
    <2>3. stage' \in [Reqs -> {"idle", "wait", "deliver", "guard"} \cup Permitted \cup Ended]
      BY DEF NpmBodyEnds, Goto, Permitted, Ended, Types
    <2>4. outcome' \in [Reqs -> {None, "body", "failed"}] /\ inflight' \in Reqs \cup {None}
      BY DEF NpmBodyEnds, flightVars, Types
    <2> QED BY <2>1, <2>2, <2>3, <2>4 DEF NpmBodyEnds, flightVars, Types
  <1>2. KindInv' /\ FlightInv'
    <2>1. KindInv'
      BY ConstantsAssumption DEF NpmBodyEnds, Goto, flightVars, Permitted, Types, KindInv
    <2>2. FlightInv'
      BY ConstantsAssumption
      DEF NpmBodyEnds, Goto, flightVars, Permitted, Types, KindInv, FlightInv
    <2> QED BY <2>1, <2>2
  <1>3. PermitInv'
    BY PermitReturned DEF NpmBodyEnds, Goto, Permitted, Types, KindInv
  <1>4. \A f \in Reqs :
           /\ BytesAlive(f)' => BytesAlive(f) \/ body[f] = 0
           /\ stage'[f] = "rewrite" => stage[f] = "rewrite" /\ BytesAlive(f)'
    BY ConstantsAssumption
    DEF NpmBodyEnds, Goto, flightVars, Types, KindInv, FlightInv, Permitted,
        BytesAlive, InflightAlive
  <1>5. CoverInv'
    BY <1>0, <1>4, CoverKept DEF NpmBodyEnds
  <1>6. SomebodyFits'
    BY NobodyStarved DEF NpmBodyEnds
  <1>7. StarvedInv'
    BY <1>0, StarvedKept DEF NpmBodyEnds, Goto, Types
  <1> QED BY <1>0, <1>1, <1>2, <1>3, <1>5, <1>6, <1>7

\* The leader reports its outcome.
LEMMA SignalIInv ==
    ASSUME IInv, NEW r \in Reqs, Signal(r)
    PROVE  IInv'
  <1> USE DEF IInv
  <1>0. /\ held' \in [Reqs -> Nat]
        /\ mem' \in Int
        /\ MemoryInv'
        /\ \A f \in Reqs : held'[f] = IF BytesAlive(f)' THEN held[f] ELSE 0
    BY KeepFacts DEF Signal
  <1>1. Types'
    <2>1. held' \in [Reqs -> Nat] /\ mem' \in Int
      BY <1>0
    <2>2. free' \in Int
      BY DEF Signal, Types
    <2>3. stage' \in [Reqs -> {"idle", "wait", "deliver", "guard"} \cup Permitted \cup Ended]
      BY DEF Signal, Goto, Permitted, Ended, Types
    <2>4. outcome' \in [Reqs -> {None, "body", "failed"}] /\ inflight' \in Reqs \cup {None}
      BY DEF Signal, flightVars, Types
    <2> QED BY <2>1, <2>2, <2>3, <2>4 DEF Signal, flightVars, Types
  <1>2. KindInv' /\ FlightInv'
    <2>1. KindInv'
      BY ConstantsAssumption DEF Signal, Goto, flightVars, Permitted, Types, KindInv
    <2>2. FlightInv'
      BY ConstantsAssumption
      DEF Signal, Goto, flightVars, Permitted, Types, KindInv, FlightInv
    <2> QED BY <2>1, <2>2
  <1>3. PermitInv'
    BY PermitSame DEF Signal, Goto, Permitted, Types, KindInv
  <1>4. \A f \in Reqs :
           /\ BytesAlive(f)' => BytesAlive(f) \/ body[f] = 0
           /\ stage'[f] = "rewrite" => stage[f] = "rewrite" /\ BytesAlive(f)'
    BY ConstantsAssumption
    DEF Signal, Goto, flightVars, Types, KindInv, FlightInv, Permitted,
        BytesAlive, InflightAlive
  <1>5. CoverInv'
    BY <1>0, <1>4, CoverKept DEF Signal
  <1>6. SomebodyFits'
    BY NobodyStarved DEF Signal
  <1>7. StarvedInv'
    BY <1>0, StarvedKept DEF Signal, Goto, Types
  <1> QED BY <1>0, <1>1, <1>2, <1>3, <1>5, <1>6, <1>7

\* The leader takes the flight off the map and returns its permit.
LEMMA FinishIInv ==
    ASSUME IInv, NEW r \in Reqs, Finish(r)
    PROVE  IInv'
  <1> USE DEF IInv
  <1>0. /\ held' \in [Reqs -> Nat]
        /\ mem' \in Int
        /\ MemoryInv'
        /\ \A f \in Reqs : held'[f] = IF BytesAlive(f)' THEN held[f] ELSE 0
    BY KeepFacts DEF Finish
  <1>1. Types'
    <2>1. held' \in [Reqs -> Nat] /\ mem' \in Int
      BY <1>0
    <2>2. free' \in Int
      BY DEF Finish, Types
    <2>3. stage' \in [Reqs -> {"idle", "wait", "deliver", "guard"} \cup Permitted \cup Ended]
      BY DEF Finish, Goto, Permitted, Ended, Types
    <2>4. outcome' \in [Reqs -> {None, "body", "failed"}] /\ inflight' \in Reqs \cup {None}
      BY DEF Finish, flightVars, Types
    <2> QED BY <2>1, <2>2, <2>3, <2>4 DEF Finish, flightVars, Types
  <1>2. KindInv' /\ FlightInv'
    <2>1. KindInv'
      BY ConstantsAssumption DEF Finish, Goto, flightVars, Permitted, Types, KindInv
    <2>2. FlightInv'
      BY ConstantsAssumption
      DEF Finish, Goto, flightVars, Permitted, Types, KindInv, FlightInv
    <2> QED BY <2>1, <2>2
  <1>3. PermitInv'
    BY PermitReturned DEF Finish, Goto, Permitted, Types, KindInv
  <1>4. \A f \in Reqs :
           /\ BytesAlive(f)' => BytesAlive(f) \/ body[f] = 0
           /\ stage'[f] = "rewrite" => stage[f] = "rewrite" /\ BytesAlive(f)'
    BY ConstantsAssumption
    DEF Finish, Goto, flightVars, Types, KindInv, FlightInv, Permitted,
        BytesAlive, InflightAlive
  <1>5. CoverInv'
    BY <1>0, <1>4, CoverKept DEF Finish
  <1>6. SomebodyFits'
    BY NobodyStarved DEF Finish
  <1>7. StarvedInv'
    BY <1>0, StarvedKept DEF Finish, Goto, Types
  <1> QED BY <1>0, <1>1, <1>2, <1>3, <1>5, <1>6, <1>7

\* A follower takes the outcome.
LEMMA AnswerIInv ==
    ASSUME IInv, NEW r \in Reqs, Answer(r)
    PROVE  IInv'
  <1> USE DEF IInv
  <1>0. /\ held' \in [Reqs -> Nat]
        /\ mem' \in Int
        /\ MemoryInv'
        /\ \A f \in Reqs : held'[f] = IF BytesAlive(f)' THEN held[f] ELSE 0
    BY KeepFacts DEF Answer
  <1>1. Types'
    <2>1. held' \in [Reqs -> Nat] /\ mem' \in Int
      BY <1>0
    <2>2. free' \in Int
      BY DEF Answer, Types
    <2>3. stage' \in [Reqs -> {"idle", "wait", "deliver", "guard"} \cup Permitted \cup Ended]
      BY DEF Answer, Goto, Permitted, Ended, Types
    <2>4. outcome' \in [Reqs -> {None, "body", "failed"}] /\ inflight' \in Reqs \cup {None}
      BY DEF Answer, flightVars, Types
    <2> QED BY <2>1, <2>2, <2>3, <2>4 DEF Answer, flightVars, Types
  <1>2. KindInv' /\ FlightInv'
    <2>1. KindInv'
      BY ConstantsAssumption DEF Answer, Goto, flightVars, Permitted, Types, KindInv
    <2>2. FlightInv'
      BY ConstantsAssumption
      DEF Answer, Goto, flightVars, Permitted, Types, KindInv, FlightInv
    <2> QED BY <2>1, <2>2
  <1>3. PermitInv'
    BY PermitSame DEF Answer, Goto, Permitted, Types, KindInv
  <1>4. \A f \in Reqs :
           /\ BytesAlive(f)' => BytesAlive(f) \/ body[f] = 0
           /\ stage'[f] = "rewrite" => stage[f] = "rewrite" /\ BytesAlive(f)'
    BY ConstantsAssumption
    DEF Answer, Goto, flightVars, Types, KindInv, FlightInv, Permitted,
        BytesAlive, InflightAlive
  <1>5. CoverInv'
    BY <1>0, <1>4, CoverKept DEF Answer
  <1>6. SomebodyFits'
    BY NobodyStarved DEF Answer
  <1>7. StarvedInv'
    BY <1>0, StarvedKept DEF Answer, Goto, Types
  <1> QED BY <1>0, <1>1, <1>2, <1>3, <1>5, <1>6, <1>7

\* A response is delivered.
LEMMA DeliveredIInv ==
    ASSUME IInv, NEW r \in Reqs, Delivered(r)
    PROVE  IInv'
  <1> USE DEF IInv
  <1>0. /\ held' \in [Reqs -> Nat]
        /\ mem' \in Int
        /\ MemoryInv'
        /\ \A f \in Reqs : held'[f] = IF BytesAlive(f)' THEN held[f] ELSE 0
    BY KeepFacts DEF Delivered
  <1>1. Types'
    <2>1. held' \in [Reqs -> Nat] /\ mem' \in Int
      BY <1>0
    <2>2. free' \in Int
      BY DEF Delivered, Types
    <2>3. stage' \in [Reqs -> {"idle", "wait", "deliver", "guard"} \cup Permitted \cup Ended]
      BY DEF Delivered, Goto, Permitted, Ended, Types
    <2>4. outcome' \in [Reqs -> {None, "body", "failed"}] /\ inflight' \in Reqs \cup {None}
      BY DEF Delivered, flightVars, Types
    <2> QED BY <2>1, <2>2, <2>3, <2>4 DEF Delivered, flightVars, Types
  <1>2. KindInv' /\ FlightInv'
    <2>1. KindInv'
      BY ConstantsAssumption DEF Delivered, Goto, flightVars, Permitted, Types, KindInv
    <2>2. FlightInv'
      BY ConstantsAssumption
      DEF Delivered, Goto, flightVars, Permitted, Types, KindInv, FlightInv
    <2> QED BY <2>1, <2>2
  <1>3. PermitInv'
    BY PermitSame DEF Delivered, Goto, Permitted, Types, KindInv
  <1>4. \A f \in Reqs :
           /\ BytesAlive(f)' => BytesAlive(f) \/ body[f] = 0
           /\ stage'[f] = "rewrite" => stage[f] = "rewrite" /\ BytesAlive(f)'
    BY ConstantsAssumption
    DEF Delivered, Goto, flightVars, Types, KindInv, FlightInv, Permitted,
        BytesAlive, InflightAlive
  <1>5. CoverInv'
    BY <1>0, <1>4, CoverKept DEF Delivered
  <1>6. SomebodyFits'
    BY NobodyStarved DEF Delivered
  <1>7. StarvedInv'
    BY <1>0, StarvedKept DEF Delivered, Goto, Types
  <1> QED BY <1>0, <1>1, <1>2, <1>3, <1>5, <1>6, <1>7

\* The client is gone.
LEMMA LeaveIInv ==
    ASSUME IInv, NEW r \in Reqs, Leave(r)
    PROVE  IInv'
  <1> USE DEF IInv
  <1>0. /\ held' \in [Reqs -> Nat]
        /\ mem' \in Int
        /\ MemoryInv'
        /\ \A f \in Reqs : held'[f] = IF BytesAlive(f)' THEN held[f] ELSE 0
    BY KeepFacts DEF Leave
  <1>1. Types'
    <2>1. held' \in [Reqs -> Nat] /\ mem' \in Int
      BY <1>0
    <2>2. free' \in Int
      BY DEF Leave, Types
    <2>3. stage' \in [Reqs -> {"idle", "wait", "deliver", "guard"} \cup Permitted \cup Ended]
      BY DEF Leave, Goto, Permitted, Ended, Types
    <2>4. outcome' \in [Reqs -> {None, "body", "failed"}] /\ inflight' \in Reqs \cup {None}
      BY DEF Leave, flightVars, Types
    <2> QED BY <2>1, <2>2, <2>3, <2>4 DEF Leave, flightVars, Types
  <1>2. KindInv' /\ FlightInv'
    <2>1. KindInv'
      BY ConstantsAssumption DEF Leave, Goto, flightVars, Permitted, Types, KindInv
    <2>2. FlightInv'
      BY ConstantsAssumption
      DEF Leave, Goto, flightVars, Permitted, Types, KindInv, FlightInv
    <2> QED BY <2>1, <2>2
  <1>3. PermitInv'
    <2>1. CASE stage[r] \in Permitted
      BY <2>1, PermitReturned DEF Leave, Goto, Permitted, Types
    <2>2. CASE stage[r] \notin Permitted
      BY <2>2, PermitSame DEF Leave, Goto, Permitted, Types
    <2> QED BY <2>1, <2>2
  <1>4. \A f \in Reqs :
           /\ BytesAlive(f)' => BytesAlive(f) \/ body[f] = 0
           /\ stage'[f] = "rewrite" => stage[f] = "rewrite" /\ BytesAlive(f)'
    BY ConstantsAssumption
    DEF Leave, Goto, flightVars, Types, KindInv, FlightInv, Permitted,
        BytesAlive, InflightAlive
  <1>5. CoverInv'
    BY <1>0, <1>4, CoverKept DEF Leave
  <1>6. SomebodyFits'
    BY NobodyStarved DEF Leave
  <1>7. StarvedInv'
    BY <1>0, StarvedKept DEF Leave, Goto, Types
  <1> QED BY <1>0, <1>1, <1>2, <1>3, <1>5, <1>6, <1>7

\* The guard of a leader that was dropped ends.
LEMMA GuardEndsIInv ==
    ASSUME IInv, NEW r \in Reqs, GuardEnds(r)
    PROVE  IInv'
  <1> USE DEF IInv
  <1>0. /\ held' \in [Reqs -> Nat]
        /\ mem' \in Int
        /\ MemoryInv'
        /\ \A f \in Reqs : held'[f] = IF BytesAlive(f)' THEN held[f] ELSE 0
    BY KeepFacts DEF GuardEnds
  <1>1. Types'
    <2>1. held' \in [Reqs -> Nat] /\ mem' \in Int
      BY <1>0
    <2>2. free' \in Int
      BY DEF GuardEnds, Types
    <2>3. stage' \in [Reqs -> {"idle", "wait", "deliver", "guard"} \cup Permitted \cup Ended]
      BY DEF GuardEnds, Goto, Permitted, Ended, Types
    <2>4. outcome' \in [Reqs -> {None, "body", "failed"}] /\ inflight' \in Reqs \cup {None}
      BY DEF GuardEnds, flightVars, Types
    <2> QED BY <2>1, <2>2, <2>3, <2>4 DEF GuardEnds, flightVars, Types
  <1>2. KindInv' /\ FlightInv'
    <2>1. KindInv'
      BY ConstantsAssumption DEF GuardEnds, Goto, flightVars, Permitted, Types, KindInv
    <2>2. FlightInv'
      BY ConstantsAssumption
      DEF GuardEnds, Goto, flightVars, Permitted, Types, KindInv, FlightInv
    <2> QED BY <2>1, <2>2
  <1>3. PermitInv'
    BY PermitSame DEF GuardEnds, Goto, Permitted, Types, KindInv
  <1>4. \A f \in Reqs :
           /\ BytesAlive(f)' => BytesAlive(f) \/ body[f] = 0
           /\ stage'[f] = "rewrite" => stage[f] = "rewrite" /\ BytesAlive(f)'
    BY ConstantsAssumption
    DEF GuardEnds, Goto, flightVars, Types, KindInv, FlightInv, Permitted,
        BytesAlive, InflightAlive
  <1>5. CoverInv'
    BY <1>0, <1>4, CoverKept DEF GuardEnds
  <1>6. SomebodyFits'
    BY NobodyStarved DEF GuardEnds
  <1>7. StarvedInv'
    BY <1>0, StarvedKept DEF GuardEnds, Goto, Types
  <1> QED BY <1>0, <1>1, <1>2, <1>3, <1>5, <1>6, <1>7

\* Request r goes on to buffer b MiB of the n it has reserved.
LEMMA BufferedIInv ==
    ASSUME IInv, NEW r \in Reqs, NEW n \in Nat, Fits(r, n), Reserve(r, n),
           stage[r] \in {"send", "read"},
           NEW s \in {"read", "rewrite", "signal"},
           s # "read" => Kind[r] = "metadata",
           NEW b \in 0 .. MaxBody,
           b <= n \/ (stage[r] = "read" /\ b = body[r]),
           s = "rewrite" => WorkingSet(b) <= n,
           stage' = [stage EXCEPT ![r] = s],
           body' = [body EXCEPT ![r] = b],
           declared' \in [Reqs -> (0 .. MaxBody) \cup {None}],
           free' = free, inflight' = inflight, flight' = flight,
           outcome' = outcome, starved' = starved
    PROVE  IInv'
  <1> USE DEF IInv
  <1>0. /\ held' \in [Reqs -> Nat]
        /\ mem' \in Int
        /\ MemoryInv'
        /\ BytesAlive(r)' => held'[r] >= n /\ held'[r] >= held[r]
        /\ \A f \in Reqs : ~BytesAlive(f)' => held'[f] = 0
        /\ \A f \in Reqs \ {r} : BytesAlive(f)' => held'[f] = held[f]
    BY ReserveFacts
  <1>1. /\ \A f \in Reqs : stage'[f] = IF f = r THEN s ELSE stage[f]
        /\ \A f \in Reqs : body'[f] = IF f = r THEN b ELSE body[f]
    BY DEF Types
  <1>2. Types'
    <2>1. held' \in [Reqs -> Nat] /\ mem' \in Int
      BY <1>0
    <2>2. body' \in [Reqs -> 0 .. MaxBody]
      BY DEF Types
    <2> QED BY <2>1, <2>2 DEF Types, Permitted, Ended
  <1>3. KindInv'
    BY <1>1 DEF KindInv, Permitted, Types
  <1>4. FlightInv'
    BY <1>1 DEF FlightInv, Permitted, Types
  <1>5. PermitInv'
    BY <1>1, PermitSame DEF Permitted
  <1>6. BytesAlive(r)'
    BY <1>1 DEF BytesAlive
  <1>7. \A f \in Reqs \ {r} : BytesAlive(f)' => BytesAlive(f)
    <2>1. \A f \in Reqs \ {r} : InflightAlive(f)' => InflightAlive(f)
      BY <1>1 DEF InflightAlive
    <2> QED BY <1>1, <2>1 DEF BytesAlive
  <1>8. CoverInv'
    <2> SUFFICES ASSUME NEW f \in Reqs
                 PROVE  /\ ~BytesAlive(f)' => held'[f] = 0
                        /\ BytesAlive(f)' => body'[f] <= held'[f]
                        /\ stage'[f] = "rewrite" => WorkingSet(body'[f]) <= held'[f]
      BY DEF CoverInv, WorkingSet, OutputBound, Least
    <2>1. CASE f = r
      <3>1. held'[r] >= n /\ held'[r] >= held[r] /\ held'[r] \in Nat /\ held[r] \in Nat
        BY <1>0, <1>6 DEF Types
      <3>2. b <= held'[r]
        <4>1. CASE b <= n
          BY <3>1, <4>1
        <4>2. CASE stage[r] = "read" /\ b = body[r]
          <5>1. BytesAlive(r)
            BY <4>2 DEF BytesAlive
          <5>2. body[r] <= held[r]
            BY <5>1 DEF CoverInv
          <5> QED BY <3>1, <4>2, <5>2
        <4> QED BY <4>1, <4>2
      <3>3. s = "rewrite" => WorkingSet(b) <= held'[r]
        BY <3>1, Sizes
      <3> QED BY <1>1, <1>6, <2>1, <3>2, <3>3
    <2>2. CASE f # r
      <3>1. stage'[f] = stage[f] /\ body'[f] = body[f]
        BY <1>1, <2>2
      <3>2. CASE BytesAlive(f)'
        <4>1. held'[f] = held[f] /\ BytesAlive(f)
          BY <1>0, <1>7, <2>2, <3>2
        <4> QED BY <3>1, <3>2, <4>1, Zenon DEF CoverInv
      <3>3. CASE ~BytesAlive(f)'
        <4>1. stage'[f] # "rewrite"
          BY <3>3 DEF BytesAlive
        <4> QED BY <1>0, <3>3, <4>1
      <3> QED BY <3>2, <3>3
    <2> QED BY <2>1, <2>2
  <1>9. StarvedInv'
    <2>1. \A f \in Reqs \ {r} : held'[f] = held[f] \/ held'[f] = 0
      BY <1>0
    <2>2. r \notin starved /\ Kind[r] # "head"
      BY DEF StarvedInv, KindInv
    <2> QED BY <1>1, <2>1, <2>2 DEF StarvedInv, Types
  <1>10. SomebodyFits'
    BY NobodyStarved
  <1> QED BY <1>0, <1>2, <1>3, <1>4, <1>5, <1>8, <1>9, <1>10

\* Response headers are there.
LEMMA RespondIInv ==
    ASSUME IInv, NEW r \in Reqs, NEW n \in (0 .. MaxBody) \cup {None}, Respond(r, n)
    PROVE  IInv'
  <1> DEFINE expected == IF n = None THEN 0 ELSE n
  <1>1. expected \in 0 .. MaxBody /\ expected \in Nat /\ stage[r] = "send"
    BY ConstantsAssumption DEF Respond
  <1>2. CASE Starve(r, expected)
    <2> HIDE DEF expected
    <2> QED BY <1>1, <1>2, StarveIInv
  <1>3. CASE /\ Fits(r, expected)
             /\ Goto(r, "read")
             /\ body' = [body EXCEPT ![r] = 0]
             /\ declared' = [declared EXCEPT ![r] = n]
             /\ UNCHANGED <<free, flightVars, starved>>
             /\ Reserve(r, expected)
    <2>1. declared' \in [Reqs -> (0 .. MaxBody) \cup {None}]
      BY <1>3 DEF IInv, Types
    <2>2. stage' = [stage EXCEPT ![r] = "read"]
      BY <1>3 DEF Goto
    <2>3. /\ free' = free /\ inflight' = inflight /\ flight' = flight
          /\ outcome' = outcome /\ starved' = starved
      BY <1>3 DEF flightVars
    <2>4. 0 \in 0 .. MaxBody /\ 0 <= expected
      BY <1>1, ConstantsAssumption
    <2> HIDE DEF expected
    <2> QED BY <1>1, <1>3, <2>1, <2>2, <2>3, <2>4, BufferedIInv
  <1> QED BY <1>2, <1>3 DEF Respond

\* One more MiB of the body.
LEMMA ChunkIInv ==
    ASSUME IInv, NEW r \in Reqs, Chunk(r)
    PROVE  IInv'
  <1> DEFINE m == body[r] + 1
  <1>1. m \in 0 .. MaxBody /\ m \in Nat /\ stage[r] = "read" /\ m <= m
    BY ConstantsAssumption DEF Chunk, IInv, Types
  <1>2. CASE Starve(r, m)
    <2> HIDE DEF m
    <2> QED BY <1>1, <1>2, StarveIInv
  <1>3. CASE /\ Fits(r, m)
             /\ body' = [body EXCEPT ![r] = @ + 1]
             /\ UNCHANGED stage
             /\ UNCHANGED <<free, declared, flightVars, starved>>
             /\ Reserve(r, m)
    <2>1. /\ declared' \in [Reqs -> (0 .. MaxBody) \cup {None}]
          /\ stage' = [stage EXCEPT ![r] = "read"]
          /\ body' = [body EXCEPT ![r] = m]
      BY <1>1, <1>3 DEF IInv, Types
    <2>2. /\ free' = free /\ inflight' = inflight /\ flight' = flight
          /\ outcome' = outcome /\ starved' = starved
      BY <1>3 DEF flightVars
    <2> HIDE DEF m
    <2> QED BY <1>1, <1>3, <2>1, <2>2, BufferedIInv
  <1> QED BY <1>2, <1>3 DEF Chunk

\* The working set of a rewrite.
LEMMA MetadataBodyEndsIInv ==
    ASSUME IInv, NEW r \in Reqs, MetadataBodyEnds(r)
    PROVE  IInv'
  <1> DEFINE m == WorkingSet(body[r])
  <1>1. /\ body[r] \in 0 .. MaxBody
        /\ stage[r] = "read"
        /\ Kind[r] = "metadata"
    BY DEF MetadataBodyEnds, IInv, Types
  <1>2. m \in Nat /\ WorkingSet(body[r]) <= m
    BY <1>1, Sizes
  <1>3. CASE Starve(r, m)
    <2>1. \E b \in 0 .. MaxBody : m = WorkingSet(b)
      BY <1>1
    <2> HIDE DEF m
    <2> QED BY <1>1, <1>2, <1>3, <2>1, StarveIInv
  <1>4. CASE /\ Fits(r, m)
             /\ Goto(r, "rewrite")
             /\ UNCHANGED <<free, body, declared, flightVars, starved>>
             /\ Reserve(r, m)
    <2>1. /\ declared' \in [Reqs -> (0 .. MaxBody) \cup {None}]
          /\ stage' = [stage EXCEPT ![r] = "rewrite"]
          /\ body' = [body EXCEPT ![r] = body[r]]
      BY <1>4 DEF Goto, IInv, Types
    <2>2. /\ free' = free /\ inflight' = inflight /\ flight' = flight
          /\ outcome' = outcome /\ starved' = starved
      BY <1>4 DEF flightVars
    <2> HIDE DEF m
    <2> QED BY <1>1, <1>2, <1>4, <2>1, <2>2, BufferedIInv
  <1> QED BY <1>3, <1>4 DEF MetadataBodyEnds

\* A stored body, read again after a 304.
LEMMA NotModifiedIInv ==
    ASSUME IInv, NEW r \in Reqs, NEW n \in 0 .. MaxBody, NotModified(r, n)
    PROVE  IInv'
  <1>1. n \in Nat /\ n <= n /\ stage[r] = "send" /\ Kind[r] = "metadata"
    BY DEF NotModified
  <1>2. CASE Starve(r, n)
    BY <1>1, <1>2, StarveIInv
  <1>3. CASE /\ Fits(r, n)
             /\ body' = [body EXCEPT ![r] = n]
             /\ Goto(r, "signal")
             /\ UNCHANGED <<free, declared, flightVars, starved>>
             /\ Reserve(r, n)
    <2>1. /\ declared' \in [Reqs -> (0 .. MaxBody) \cup {None}]
          /\ stage' = [stage EXCEPT ![r] = "signal"]
      BY <1>3 DEF Goto, IInv, Types
    <2>2. /\ free' = free /\ inflight' = inflight /\ flight' = flight
          /\ outcome' = outcome /\ starved' = starved
      BY <1>3 DEF flightVars
    <2> QED BY <1>1, <1>3, <2>1, <2>2, BufferedIInv
  <1> QED BY <1>2, <1>3 DEF NotModified

\* The rewritten body replaces the one that was read, within what is reserved.
LEMMA RewriteEndsIInv ==
    ASSUME IInv, NEW r \in Reqs, NEW n \in 0 .. MaxBody, RewriteEnds(r, n)
    PROVE  IInv'
  <1> USE DEF IInv
  <1>0. /\ held' \in [Reqs -> Nat]
        /\ mem' \in Int
        /\ MemoryInv'
        /\ \A f \in Reqs : held'[f] = IF BytesAlive(f)' THEN held[f] ELSE 0
    BY KeepFacts DEF RewriteEnds
  <1>1. /\ \A f \in Reqs : stage'[f] = IF f = r THEN "signal" ELSE stage[f]
        /\ \A f \in Reqs : body'[f] = IF f = r THEN n ELSE body[f]
        /\ stage[r] = "rewrite"
        /\ free' = free /\ inflight' = inflight /\ flight' = flight
        /\ outcome' = outcome /\ starved' = starved
    BY DEF RewriteEnds, Goto, flightVars, Types
  <1>2. Types'
    <2>1. held' \in [Reqs -> Nat] /\ mem' \in Int
      BY <1>0
    <2>2. /\ body' \in [Reqs -> 0 .. MaxBody]
          /\ stage' \in [Reqs -> {"idle", "wait", "deliver", "guard"}
                                   \cup Permitted \cup Ended]
      BY DEF RewriteEnds, Goto, Permitted, Types
    <2> QED BY <1>1, <2>1, <2>2 DEF Types, RewriteEnds
  <1>3. KindInv'
    BY <1>1 DEF KindInv, Permitted, Types
  <1>4. FlightInv'
    BY <1>1 DEF FlightInv, Permitted, Types
  <1>5. PermitInv'
    BY <1>1, PermitSame DEF Permitted
  <1>6. \A f \in Reqs : BytesAlive(f)' => BytesAlive(f)
    <2>1. \A f \in Reqs : InflightAlive(f)' => InflightAlive(f) \/ stage[f] = "rewrite"
      BY <1>1 DEF InflightAlive
    <2> QED BY <1>1, <2>1 DEF BytesAlive
  <1>7. CoverInv'
    <2> SUFFICES ASSUME NEW f \in Reqs
                 PROVE  /\ ~BytesAlive(f)' => held'[f] = 0
                        /\ BytesAlive(f)' => body'[f] <= held'[f]
                        /\ stage'[f] = "rewrite" => WorkingSet(body'[f]) <= held'[f]
      BY DEF CoverInv, WorkingSet, OutputBound, Least
    <2>1. CASE f = r
      <3>1. BytesAlive(r)'
        BY <1>1 DEF BytesAlive
      <3>2. held'[r] = held[r] /\ held[r] \in Nat
        BY <1>0, <3>1 DEF Types
      <3>3. n <= OutputBound(body[r]) /\ body[r] \in 0 .. MaxBody
        BY DEF RewriteEnds, Types
      <3>4. WorkingSet(body[r]) <= held[r]
        BY <1>1 DEF CoverInv
      <3>5. n <= held[r]
        BY <3>2, <3>3, <3>4, Sizes
      <3> QED BY <1>1, <2>1, <3>1, <3>2, <3>5
    <2>2. CASE f # r
      <3>1. stage'[f] = stage[f] /\ body'[f] = body[f]
        BY <1>1, <2>2
      <3>2. CASE BytesAlive(f)'
        <4>1. held'[f] = held[f] /\ BytesAlive(f)
          BY <1>0, <1>6, <3>2
        <4> QED BY <3>1, <3>2, <4>1, Zenon DEF CoverInv
      <3>3. CASE ~BytesAlive(f)'
        <4>1. stage'[f] # "rewrite"
          BY <3>3 DEF BytesAlive
        <4>2. held'[f] = 0
          BY <1>0, <3>3
        <4> QED BY <3>3, <4>1, <4>2
      <3> QED BY <3>2, <3>3
    <2> QED BY <2>1, <2>2
  <1>8. StarvedInv'
    BY <1>0, <1>1, StarvedKept
  <1>9. SomebodyFits'
    BY <1>1, NobodyStarved
  <1> QED BY <1>0, <1>2, <1>3, <1>4, <1>5, <1>7, <1>8, <1>9

-------------------------------------------------------------------------------
(* The theorems.                                                           *)

\* The invariant is inductive.
LEMMA Invariance == SafeSpec => []IInv
  <1>1. Init => IInv
    <2> SUFFICES ASSUME Init PROVE IInv
      OBVIOUS
    <2>1. Types /\ KindInv /\ FlightInv
      BY ConstantsAssumption DEF Init, Types, KindInv, FlightInv, Permitted
    <2>2. PermitInv
      <3>1. Holders = {}
        BY DEF Init, Holders, Permitted
      <3> QED BY <3>1, FS_EmptySet, ConstantsAssumption DEF Init, PermitInv
    <2>3. MemoryInv
      <3>1. Reserved = 0
        BY SumZero, ConstantsAssumption DEF Init, Reserved
      <3> QED BY <3>1, ConstantsAssumption DEF Init, MemoryInv
    <2>4. CoverInv
      <3>1. \A f \in Reqs : held[f] = 0 /\ body[f] = 0 /\ stage[f] # "rewrite"
        BY DEF Init
      <3> QED BY <3>1 DEF CoverInv
    <2>5. StarvedInv /\ SomebodyFits
      BY DEF Init, StarvedInv, SomebodyFits
    <2> QED BY <2>1, <2>2, <2>3, <2>4, <2>5 DEF IInv
  <1>2. IInv /\ [Next]_vars => IInv'
    <2> SUFFICES ASSUME IInv, [Next]_vars PROVE IInv'
      OBVIOUS
    <2>1. CASE UNCHANGED vars
      <3>1. /\ free' = free /\ mem' = mem /\ stage' = stage /\ held' = held
            /\ body' = body /\ declared' = declared /\ inflight' = inflight
            /\ flight' = flight /\ outcome' = outcome /\ starved' = starved
        BY <2>1 DEF vars, flightVars
      <3>2. \A f \in Reqs : BytesAlive(f) <=> BytesAlive(f)'
        BY <3>1 DEF BytesAlive, InflightAlive
      <3>3. CoverInv'
        BY <3>1, <3>2, CoverSame DEF IInv
      <3>4. PermitInv' /\ MemoryInv' /\ SomebodyFits'
        BY <3>1, PermitSame, MemorySame, NobodyStarved DEF IInv
      <3>5. Types' /\ KindInv' /\ FlightInv' /\ StarvedInv'
        BY <3>1 DEF IInv, Types, KindInv, FlightInv, StarvedInv
      <3> QED BY <3>3, <3>4, <3>5 DEF IInv
    <2>2. ASSUME NEW r \in Reqs,
                 \/ Refuse(r) \/ HeadHit(r) \/ Admit(r) \/ Lead(r) \/ Join(r)
                 \/ AuditBody(r)
          PROVE  IInv'
      BY <2>2, RefuseIInv, HeadHitIInv, AdmitIInv, LeadIInv, JoinIInv, AuditBodyIInv
    <2>3. ASSUME NEW r \in Reqs,
                 \/ Fail(r) \/ HeadEnds(r) \/ Chunk(r) \/ NpmBodyEnds(r)
                 \/ MetadataBodyEnds(r)
          PROVE  IInv'
      BY <2>3, FailIInv, HeadEndsIInv, ChunkIInv, NpmBodyEndsIInv, MetadataBodyEndsIInv
    <2>4. ASSUME NEW r \in Reqs,
                 \/ Signal(r) \/ Finish(r) \/ Answer(r) \/ Delivered(r) \/ Leave(r)
                 \/ GuardEnds(r)
          PROVE  IInv'
      BY <2>4, SignalIInv, FinishIInv, AnswerIInv, DeliveredIInv, LeaveIInv, GuardEndsIInv
    <2>5. ASSUME NEW r \in Reqs, NEW n \in 0 .. MaxBody,
                 Respond(r, n) \/ RewriteEnds(r, n) \/ NotModified(r, n)
          PROVE  IInv'
      BY <2>5, RespondIInv, RewriteEndsIInv, NotModifiedIInv
    <2>6. ASSUME NEW r \in Reqs, Respond(r, None)
          PROVE  IInv'
      BY <2>6, RespondIInv
    <2>7. CASE Settled
      BY <2>1, <2>7 DEF Settled
    <2> QED BY <2>1, <2>2, <2>3, <2>4, <2>5, <2>6, <2>7 DEF Next
  <1> QED BY <1>1, <1>2, PTL DEF SafeSpec

\* The two semaphores never have fewer than no permits, nor more than they
\* started with, and the handlers keep to their stages.
THEOREM TypeCorrect == SafeSpec => []TypeOK
  <1>1. IInv => TypeOK
    <2> SUFFICES ASSUME IInv PROVE TypeOK
      OBVIOUS
    <2>1. Cardinality(Holders) \in Nat
      BY FS_Subset, FS_CardinalityType, ConstantsAssumption DEF Holders
    <2>2. Reserved \in Nat
      BY SumNat, ConstantsAssumption DEF IInv, Types, Reserved
    <2>3. free \in 0 .. MaxUpstreamFetches
      BY <2>1, ConstantsAssumption DEF IInv, Types, PermitInv
    <2>4. mem \in 0 .. Budget
      BY <2>2, ConstantsAssumption DEF IInv, Types, MemoryInv
    <2> QED BY <2>3, <2>4 DEF IInv, Types, TypeOK
  <1> QED BY <1>1, Invariance, PTL

\* Buffered bodies, the clones followers deliver and the working space of
\* rewrites stay within the budget, for any budget and any number of requests.
THEOREM MemoryIsBounded == SafeSpec => []MemoryBounded
  <1>1. IInv => MemoryBounded
    <2> SUFFICES ASSUME IInv PROVE MemoryBounded
      OBVIOUS
    <2> DEFINE need == [f \in Reqs |-> Footprint(f)]
    <2>1. \A f \in Reqs : /\ need[f] \in Int /\ held[f] \in Int
                          /\ need[f] <= held[f]
      <3> SUFFICES ASSUME NEW f \in Reqs
                   PROVE  Footprint(f) \in Int /\ held[f] \in Int /\ Footprint(f) <= held[f]
        OBVIOUS
      <3>1. body[f] \in 0 .. MaxBody /\ body[f] \in Int /\ held[f] \in Nat
        BY DEF IInv, Types
      <3>2. CASE stage[f] = "rewrite"
        <4>1. Footprint(f) = WorkingSet(body[f])
          BY <3>2 DEF Footprint
        <4>2. WorkingSet(body[f]) <= held[f]
          BY <3>2 DEF IInv, CoverInv
        <4> QED BY <3>1, <4>1, <4>2, Sizes
      <3>3. CASE stage[f] # "rewrite" /\ BytesAlive(f)
        <4>1. Footprint(f) = body[f]
          BY <3>3 DEF Footprint
        <4>2. body[f] <= held[f]
          BY <3>3 DEF IInv, CoverInv
        <4> QED BY <3>1, <4>1, <4>2
      <3>4. CASE stage[f] # "rewrite" /\ ~BytesAlive(f)
        <4>1. Footprint(f) = 0
          BY <3>4 DEF Footprint
        <4> QED BY <3>1, <4>1
      <3> QED BY <3>2, <3>3, <3>4
    <2> HIDE DEF need
    <2>2. /\ SumFunctionOnSet(need, Reqs) <= SumFunctionOnSet(held, Reqs)
          /\ SumFunctionOnSet(need, Reqs) \in Int
          /\ SumFunctionOnSet(held, Reqs) \in Int
      BY <2>1, SumMonotone, SumInt, ConstantsAssumption
    <2>3. SumFunctionOnSet(need, Reqs) <= Budget
      BY <2>2, ConstantsAssumption DEF IInv, MemoryInv, Reserved
    <2> QED BY <2>3 DEF MemoryBounded, need
  <1> QED BY <1>1, Invariance, PTL

\* When every request has ended, every permit and every MiB is back.
THEOREM EverythingReturned == SafeSpec => []AllReturned
  <1>1. IInv => AllReturned
    <2> SUFFICES ASSUME IInv, Quiet PROVE free = MaxUpstreamFetches /\ mem = Budget
      BY DEF AllReturned
    <2>1. \A r \in Reqs : stage[r] \in Ended
      BY DEF Quiet
    <2>2. Holders = {}
      BY <2>1 DEF Holders, Permitted, Ended
    <2>3. inflight = None
      BY <2>1, ConstantsAssumption DEF IInv, KindInv, Types, Permitted, Ended
    <2>4. \A f \in Reqs : ~BytesAlive(f)
      BY <2>1, <2>3, ConstantsAssumption DEF BytesAlive, InflightAlive, Ended
    <2>5. \A f \in Reqs : held[f] = 0
      BY <2>4 DEF IInv, CoverInv
    <2>6. Reserved = 0
      BY <2>5, SumZero, ConstantsAssumption DEF Reserved
    <2> QED BY <2>2, <2>6, FS_EmptySet, ConstantsAssumption DEF IInv, PermitInv, MemoryInv
  <1> QED BY <1>1, Invariance, PTL

\* If nothing exceeds the budget alone, memory never refuses everybody.
THEOREM NotEverybodyStarves == SafeSpec => []SomebodyFits
  <1>1. IInv => SomebodyFits
    BY DEF IInv
  <1> QED BY <1>1, Invariance, PTL
===============================================================================

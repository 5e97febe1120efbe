--------------------------- MODULE InflightProofs ---------------------------
(***************************************************************************)
(* For every number of waiters and every set of results: no wake-up is     *)
(* lost, and an Inflight cell implements the one-shot outcome of OneShot.  *)
(***************************************************************************)
EXTENDS Inflight, TLAPS

\* Where the two completers stand.  The guard's task exists only once the fetch
\* is gone, so the cell is completed, and notified, at most once.
Completion ==
    /\ guard = "armed" <=> fetch \in {"run", "notify", "finish"}
    /\ fetch = "run" => outcome = None
    /\ fetch \in {"notify", "finish", "done"} => outcome # None
    /\ guard \in {"notify", "finish", "done"} => outcome # None
    /\ notifyCalls = 1 <=> outcome # None /\ "notify" \notin {fetch, guard}

\* What a waiter knows: it sleeps only on a Notified created before the
\* notification, and it returned exactly when it has an answer, the outcome.
WaiterKnowledge ==
    \A w \in Waiters :
        /\ seen[w] = 1 => outcome # None
        /\ pc[w] = "await" => seen[w] = 0
        /\ got[w] # None => pc[w] = "done" /\ got[w] = outcome

IInv == TypeOK /\ Completion /\ WaiterKnowledge

-------------------------------------------------------------------------------
\* The empty cell of Inflight::new satisfies the invariant.
LEMMA InitIInv == Init => IInv
  BY OutcomesAreDistinct
  DEF Init, IInv, TypeOK, Completion, WaiterKnowledge, Outcomes

\* Every step of a waiter, of the fetch and of the guard preserves it.
LEMMA NextIInv == IInv /\ [Next]_vars => IInv'
<1> SUFFICES ASSUME IInv, [Next]_vars PROVE IInv'
  OBVIOUS
<1> USE OutcomesAreDistinct DEF IInv, TypeOK, Completion, WaiterKnowledge,
        Outcomes, waiterVars
<1>1. CASE \E w \in Waiters : Register(w)
  BY <1>1 DEF Register
<1>2. CASE \E w \in Waiters : Check(w)
  BY <1>2 DEF Check
<1>3. CASE \E w \in Waiters : Wake(w)
  BY <1>3 DEF Wake
<1>4. CASE \E w \in Waiters : Cancel(w)
  BY <1>4 DEF Cancel
<1>5. CASE \E v \in Results : Complete(v)
  BY <1>5 DEF Complete, FirstWriterWins
<1>6. CASE Notify
  BY <1>6 DEF Notify
<1>7. CASE Finish
  BY <1>7 DEF Finish
<1>8. CASE DropFetch
  BY <1>8 DEF DropFetch
<1>9. CASE GuardComplete
  BY <1>9 DEF GuardComplete, FirstWriterWins
<1>10. CASE GuardNotify
  BY <1>10 DEF GuardNotify
<1>11. CASE GuardFinish
  BY <1>11 DEF GuardFinish
<1>12. CASE UNCHANGED vars
  BY <1>12 DEF vars
<1>13. QED
  BY <1>1, <1>2, <1>3, <1>4, <1>5, <1>6, <1>7, <1>8, <1>9, <1>10, <1>11, <1>12
  DEF Next, WaiterStep, FetchStep, GuardStep, Settled

\* The invariant holds in every reachable state of the cell.
LEMMA Invariance == SafeSpec => []IInv
  BY InitIInv, NextIInv, PTL DEF SafeSpec

-------------------------------------------------------------------------------
\* Type correctness: in particular notify_waiters is called at most once.
THEOREM TypeCorrect == SafeSpec => []TypeOK
<1>1. IInv => TypeOK
  BY DEF IInv
<1>2. QED
  BY <1>1, Invariance, PTL

\* wait_for_outcome never sleeps through a completion.
THEOREM WakeupsAreNotLost == SafeSpec => []NoLostWakeup
<1>1. IInv => NoLostWakeup
  BY DEF IInv, TypeOK, Completion, WaiterKnowledge, NoLostWakeup
<1>2. QED
  BY <1>1, Invariance, PTL

\* The cell refines the one-shot outcome: completing is Choose, returning from
\* wait_for_outcome is Answer, and every other step changes neither.
THEOREM CellIsOneShot == SafeSpec => ImplementsOneShot
<1>1. Init => OneShotCell!Init
  BY DEF Init, OneShotCell!Init
<1>2. IInv /\ [Next]_vars => [OneShotCell!Next]_(OneShotCell!vars)
  <2> SUFFICES ASSUME IInv, [Next]_vars
               PROVE  \/ \E v \in Outcomes : OneShotCell!Choose(v)
                      \/ \E w \in Waiters : OneShotCell!Answer(w)
                      \/ UNCHANGED <<outcome, got>>
    BY DEF OneShotCell!Next, OneShotCell!vars
  <2>1. ASSUME NEW w \in Waiters, Check(w)
        PROVE  OneShotCell!Answer(w) \/ UNCHANGED <<outcome, got>>
    BY <2>1 DEF Check, OneShotCell!Answer, IInv, WaiterKnowledge
  <2>2. ASSUME NEW v \in Results, Complete(v)
        PROVE  OneShotCell!Choose(v)
    BY <2>2 DEF Complete, FirstWriterWins, OneShotCell!Choose, waiterVars, IInv, Completion
  <2>3. CASE GuardComplete
    BY <2>3 DEF GuardComplete, FirstWriterWins, OneShotCell!Choose, waiterVars, Outcomes
  <2>4. ASSUME NEW w \in Waiters, Register(w) \/ Wake(w) \/ Cancel(w)
        PROVE  UNCHANGED <<outcome, got>>
    BY <2>4 DEF Register, Wake, Cancel
  <2>5. CASE Notify \/ Finish \/ DropFetch \/ GuardNotify \/ GuardFinish
    BY <2>5 DEF Notify, Finish, DropFetch, GuardNotify, GuardFinish, waiterVars
  <2>6. CASE UNCHANGED vars
    BY <2>6 DEF vars
  <2>7. QED
    BY <2>1, <2>2, <2>3, <2>4, <2>5, <2>6
    DEF Next, WaiterStep, FetchStep, GuardStep, Settled, Outcomes
<1>3. QED
  BY <1>1, <1>2, Invariance, PTL
  DEF SafeSpec, ImplementsOneShot, OneShotCell!Spec
===============================================================================

------------------------------- MODULE Inflight -------------------------------
(***************************************************************************)
(* One Inflight cell of src/src/cache.rs: the outcome under its mutex, the *)
(* Notify that wakes the waiters, the fetch that completes the cell and    *)
(* the cleanup guard (ArtifactFetchCleanup, MetadataFetchCleanup) that     *)
(* completes it when the fetch is dropped half-way.                        *)
(*                                                                         *)
(* The step size is the one of a multi-threaded runtime: creating the      *)
(* Notified future, the critical section on the outcome, and the call of   *)
(* notify_waiters are separate steps, and steps of waiters and completers  *)
(* interleave.  A critical section of the mutex holds no await, so it is   *)
(* one step.                                                               *)
(***************************************************************************)
EXTENDS Naturals

CONSTANTS Waiters,      \* calls of wait_for_outcome
          Results,      \* outcomes the fetch itself can produce
          Interrupted,  \* the outcome the cleanup guard reports
          None          \* the empty cell, Option::None

ASSUME OutcomesAreDistinct == None \notin Results /\ Interrupted # None

VARIABLES outcome,      \* the Option<InflightOutcome> under the mutex
          notifyCalls,  \* how often notify_waiters was called on this Notify
          pc,           \* pc[w]: where wait_for_outcome of w stands
          seen,         \* seen[w]: notifyCalls when w's Notified was created
          got,          \* got[w]: the outcome w returned with
          fetch,        \* where the fetch stands in completing the cell
          guard         \* where the task spawned by the cleanup guard stands

vars == <<outcome, notifyCalls, pc, seen, got, fetch, guard>>
waiterVars == <<pc, seen, got>>

Outcomes == Results \cup {Interrupted}

TypeOK ==
    /\ outcome \in Outcomes \cup {None}
    /\ notifyCalls \in {0, 1}
    /\ pc \in [Waiters -> {"loop", "check", "await", "done", "gone"}]
    /\ seen \in [Waiters -> {0, 1}]
    /\ got \in [Waiters -> Outcomes \cup {None}]
    /\ fetch \in {"run", "notify", "finish", "done", "dropped"}
    /\ guard \in {"armed", "complete", "notify", "finish", "done"}

Init ==
    /\ outcome = None
    /\ notifyCalls = 0
    /\ pc = [w \in Waiters |-> "loop"]
    /\ seen = [w \in Waiters |-> 0]
    /\ got = [w \in Waiters |-> None]
    /\ fetch = "run"
    /\ guard = "armed"

-------------------------------------------------------------------------------
(* wait_for_outcome.                                                       *)

\* The loop's first statement creates the Notified future before the outcome
\* is looked at; from then on it observes every notify_waiters.
Register(w) ==
    /\ pc[w] = "loop"
    /\ pc' = [pc EXCEPT ![w] = "check"]
    /\ seen' = [seen EXCEPT ![w] = notifyCalls]
    /\ UNCHANGED <<outcome, notifyCalls, got, fetch, guard>>

\* The critical section: return a clone of the outcome, or go on to await.
Check(w) ==
    /\ pc[w] = "check"
    /\ \/ /\ outcome # None
          /\ pc' = [pc EXCEPT ![w] = "done"]
          /\ got' = [got EXCEPT ![w] = outcome]
       \/ /\ outcome = None
          /\ pc' = [pc EXCEPT ![w] = "await"]
          /\ UNCHANGED got
    /\ UNCHANGED <<outcome, notifyCalls, seen, fetch, guard>>

\* notified.await resolves when notify_waiters was called after the future
\* was created, and the loop starts again.
Wake(w) ==
    /\ pc[w] = "await"
    /\ notifyCalls # seen[w]
    /\ pc' = [pc EXCEPT ![w] = "loop"]
    /\ UNCHANGED <<outcome, notifyCalls, seen, got, fetch, guard>>

\* The client disconnects: the handler's future is dropped at an await.
Cancel(w) ==
    /\ pc[w] \in {"check", "await"}
    /\ pc' = [pc EXCEPT ![w] = "gone"]
    /\ UNCHANGED <<outcome, notifyCalls, seen, got, fetch, guard>>

-------------------------------------------------------------------------------
(* complete, called by the fetch and by the guard's task.  The operators   *)
(* named Mut... are faulty variants of the definition after them; no       *)
(* specification uses them.  They show that the properties notice.         *)

\* Mutant: complete without the early return on current.is_some().
MutLastWriterWins(v) == outcome' = v

\* complete stores v unless an outcome is already there.
FirstWriterWins(v) == outcome' = IF outcome = None THEN v ELSE outcome

\* Mutant: complete without notify_waiters.
MutCompleteSilently(v) ==
    /\ fetch = "run"
    /\ FirstWriterWins(v)
    /\ fetch' = "finish"
    /\ UNCHANGED <<notifyCalls, waiterVars, guard>>

Complete(v) ==
    /\ fetch = "run"
    /\ FirstWriterWins(v)
    /\ fetch' = IF outcome = None THEN "notify" ELSE "finish"
    /\ UNCHANGED <<notifyCalls, waiterVars, guard>>

Notify ==
    /\ fetch = "notify"
    /\ notifyCalls' = notifyCalls + 1
    /\ fetch' = "finish"
    /\ UNCHANGED <<outcome, waiterVars, guard>>

\* finish_inflight and disarm: the fetch ends and the guard does nothing.
Finish ==
    /\ fetch = "finish"
    /\ fetch' = "done"
    /\ guard' = "done"
    /\ UNCHANGED <<outcome, notifyCalls, waiterVars>>

\* Mutant: the guard's Drop finds itself disarmed.
MutDropUnguarded ==
    /\ fetch \in {"run", "finish"}
    /\ fetch' = "dropped"
    /\ guard' = "done"
    /\ UNCHANGED <<outcome, notifyCalls, waiterVars>>

\* The fetch is dropped at an await: while it fetches or waits for the outcome
\* mutex ("run"), or while it waits for the map's mutex ("finish").  Storing
\* the outcome and notifying have no await between them.  The guard's Drop
\* spawns its task.
DropFetch ==
    /\ fetch \in {"run", "finish"}
    /\ fetch' = "dropped"
    /\ guard' = "complete"
    /\ UNCHANGED <<outcome, notifyCalls, waiterVars>>

\* Mutant: the second completer notifies although it stored nothing.
MutGuardNotifiesAgain ==
    /\ guard = "complete"
    /\ FirstWriterWins(Interrupted)
    /\ guard' = "notify"
    /\ UNCHANGED <<notifyCalls, waiterVars, fetch>>

GuardComplete ==
    /\ guard = "complete"
    /\ FirstWriterWins(Interrupted)
    /\ guard' = IF outcome = None THEN "notify" ELSE "finish"
    /\ UNCHANGED <<notifyCalls, waiterVars, fetch>>

GuardNotify ==
    /\ guard = "notify"
    /\ notifyCalls' = notifyCalls + 1
    /\ guard' = "finish"
    /\ UNCHANGED <<outcome, waiterVars, fetch>>

GuardFinish ==
    /\ guard = "finish"
    /\ guard' = "done"
    /\ UNCHANGED <<outcome, notifyCalls, waiterVars, fetch>>

\* Everybody has returned: nothing is left to do.
Settled ==
    /\ guard = "done"
    /\ \A w \in Waiters : pc[w] \in {"done", "gone"}
    /\ UNCHANGED vars

-------------------------------------------------------------------------------
WaiterStep(w) == Register(w) \/ Check(w) \/ Wake(w)
FetchStep == (\E v \in Results : Complete(v)) \/ Notify \/ Finish
GuardStep == GuardComplete \/ GuardNotify \/ GuardFinish

Next ==
    \/ \E w \in Waiters : WaiterStep(w) \/ Cancel(w)
    \/ FetchStep
    \/ DropFetch
    \/ GuardStep
    \/ Settled

\* The runtime polls every task that is ready; the fetch ends because the
\* package client has a total timeout.  Nothing forces a drop or a disconnect.
Fairness ==
    /\ \A w \in Waiters : WF_vars(WaiterStep(w))
    /\ WF_vars(FetchStep)
    /\ WF_vars(GuardStep)

SafeSpec == Init /\ [][Next]_vars
Spec == SafeSpec /\ Fairness

-------------------------------------------------------------------------------
(* Properties.                                                             *)

\* No lost wake-up.  wait_for_outcome looks at the outcome and then sleeps; a
\* completion between the two must still wake it: a sleeping waiter of a
\* completed cell has a wake-up already due, or the completer has yet to notify.
NoLostWakeup ==
    \A w \in Waiters :
        pc[w] = "await" /\ outcome # None =>
            \/ notifyCalls # seen[w]
            \/ "notify" \in {fetch, guard}

\* The cell behaves as a one-shot outcome: complete chooses once, whichever of
\* fetch and guard comes first, and all waiters of the cell return the same.
OneShotCell == INSTANCE OneShot WITH answer <- got
ImplementsOneShot == OneShotCell!Spec

\* Every call of wait_for_outcome returns, unless its client goes away, also
\* when the fetch is dropped and only the cleanup guard is left to complete.
EveryWaiterReturns ==
    \A w \in Waiters : (pc[w] = "check") ~> (pc[w] \in {"done", "gone"})
===============================================================================

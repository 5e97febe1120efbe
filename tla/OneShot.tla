------------------------------- MODULE OneShot -------------------------------
(***************************************************************************)
(* What an Inflight cell promises to the requests that share one fetch     *)
(* (src/src/cache.rs, Inflight): one outcome is chosen, at most once, and  *)
(* every request that is answered is answered with that outcome.  How a    *)
(* waiting request learns that there is an outcome is left open here;      *)
(* module Inflight implements it with tokio's Notify.                      *)
(***************************************************************************)
CONSTANTS Waiters,      \* the requests that wait for the outcome
          Outcomes,     \* every outcome a fetch can end with
          None          \* "no outcome yet"

VARIABLES outcome,      \* the outcome chosen, or None
          answer        \* answer[w]: what w returned with, or None

vars == <<outcome, answer>>

Init == /\ outcome = None
        /\ answer = [w \in Waiters |-> None]

Choose(v) == /\ outcome = None
             /\ outcome' = v
             /\ UNCHANGED answer

Answer(w) == /\ outcome # None
             /\ answer[w] = None
             /\ answer' = [answer EXCEPT ![w] = outcome]
             /\ UNCHANGED outcome

Next == \/ \E v \in Outcomes : Choose(v)
        \/ \E w \in Waiters : Answer(w)

Spec == Init /\ [][Next]_vars
===============================================================================

----------------------------- MODULE MCAdmission -----------------------------
(* Admission on a small instance: two requests for one document, a search,  *)
(* an audit and an artifact HEAD, with a budget that two of them exceed.    *)
EXTENDS Admission, TLC

CONSTANTS m1, m2, s1, a1, h1

MCKind == m1 :> "metadata" @@ m2 :> "metadata" @@ s1 :> "search"
          @@ a1 :> "audit" @@ h1 :> "head"
MCSymmetry == Permutations({m1, m2})

\* What no action and no property looks at any more is left out: the length of
\* dropped bytes, the declared length after the read, the flight of a request
\* that has its answer, the outcome of a flight nobody holds, how a request ended.
MCView ==
    <<free, mem, held, inflight, starved,
      [r \in Reqs |-> IF stage[r] \in Ended THEN "done" ELSE stage[r]],
      [r \in Reqs |-> IF BytesAlive(r) THEN body[r] ELSE 0],
      [r \in Reqs |-> IF stage[r] = "read" THEN declared[r] ELSE None],
      [r \in Reqs |-> IF stage[r] \in {"wait", "deliver"} THEN flight[r] ELSE None],
      [r \in Reqs |-> IF InflightAlive(r) THEN outcome[r] ELSE None]>>
===============================================================================

--------------------------- MODULE MCArtifactCache ---------------------------
(* ArtifactCache on small instances: two artifacts of size one and room for *)
(* one, so that publishing the second makes a scan evict, or one artifact   *)
(* larger than the bound.                                                   *)
EXTENDS ArtifactCache, TLC

CONSTANTS k1, k2, r1, r2

MCKeyOf2 == r1 :> k1 @@ r2 :> k1
MCSize == k1 :> 1 @@ k2 :> 1
MCOversize == k1 :> 2

\* Requests for the same key are interchangeable.
MCSymmetry == Permutations({r1, r2})

\* What can still matter: how a request ended (apart from the two ways the
\* properties speak of), the outcome of a flight nobody refers to and the
\* footer of a file that no path names do not.
Live(f) == task[f] \notin {"none", "done"} \/ \E r \in Reqs : flight[r] = f
MCView ==
    <<inflight, free, pins, queue,
      [r \in Reqs |-> IF req[r] \in Ended \ {"missing", "torn"} THEN "ended" ELSE req[r]],
      flight, task,
      [f \in Reqs |-> IF Live(f) THEN outcome[f] ELSE None],
      temp, disk,
      [f \in Reqs |-> IF \E k \in Keys : f \in {temp[k], disk[k]}
                        THEN footer[f] ELSE "absent"],
      scanVars, lifeVars, redundant>>
===============================================================================

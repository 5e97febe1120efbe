--------------------------- MODULE MCMetadataCache ---------------------------
(* MetadataCache on small instances: two documents and room for one.        *)
EXTENDS MetadataCache, TLC

CONSTANTS k1, k2, r1, r2, r3

MCKeyOf3 == r1 :> k1 @@ r2 :> k1 @@ r3 :> k2
MCKeyOf2 == r1 :> k1 @@ r2 :> k2
MCSize == k1 :> 1 @@ k2 :> 1
\* Entries larger than the whole cache: every store evicts what it stored.
MCSizeOver == k1 :> 2 @@ k2 :> 2

MCNoChange == k1 :> 0 @@ k2 :> 0
MCOneChange == k1 :> 1 @@ k2 :> 0

\* Requests for the same key are interchangeable.
MCSymmetry == Permutations({r1, r2})

\* What can still matter: the versions a leader works with while it needs them,
\* the outcome while somebody can read it, and of an answer only its freshness.
IsFresh(r) == LET f == IF flight[r] = None THEN r ELSE flight[r]
              IN  got[r] \in Nat => began[f] \in Nat /\ got[r] >= began[f]
Needed(f) == \/ req[f] \in Leading
             \/ guard[f] # "off"
             \/ \E r \in Reqs : flight[r] = f /\ req[r] = "wait"
MCView ==
    <<inflight, permitVars, req, guard, upstream, fileVars, scanVars, cut,
      [r \in Reqs |-> IF req[r] = "wait" THEN flight[r] ELSE None],
      [r \in Reqs |-> IF req[r] = "send" THEN entry[r] ELSE None],
      [r \in Reqs |-> IF req[r] \in Leading \/ late[r] = "rename"
                        THEN result[r] ELSE None],
      [r \in Reqs |-> IF Needed(r) THEN <<outcome[r], began[r]>> ELSE <<None, None>>],
      [r \in Reqs |-> IsFresh(r)]>>
===============================================================================

----------------------------- MODULE MCEntryStore -----------------------------
(* An earlier run left the artifact b, a document at m, and at a an        *)
(* artifact without its length; now a1 publishes a again and m1 replaces   *)
(* the document, in a cache that holds two of the entries but not three.   *)
EXTENDS EntryStore

CONSTANTS a, b, m, oa, ob, om, a1, m1

\* v":200} in short: the version, then what every serialized meta ends in.
MetaOf(v) == <<v, 50, 48, 48, 125>>
MCMetas == {MetaOf(v) : v \in {1, 2, 3}}

\* The body of a looks like a complete entry itself.
MCWriters == {oa, ob, om, a1, m1}
MCKeyOf == [w \in MCWriters |-> CASE w \in {oa, a1} -> a [] w = ob -> b [] OTHER -> m]
MCKind == [w \in MCWriters |-> IF w \in {om, m1} THEN "metadata" ELSE "artifact"]
MCMeta == [w \in MCWriters |-> MetaOf(CASE w \in {oa, om} -> 1 [] w = ob -> 3 [] OTHER -> 2)]
MCBody == [w \in MCWriters |-> CASE w \in {oa, a1} -> <<7>> \o MetaOf(3) \o ToBe(5)
                                 [] w = ob -> <<8>>
                                 [] w = om -> <<9>>
                                 [] OTHER  -> <<6, 9>>]

\* All of one time, or one of them younger or older than the others.
MCOldTimes == {[w \in MCWriters |-> IF w \in new THEN 1 ELSE 0] : new \in {{}, {oa, om}, {ob, om}}}
===============================================================================

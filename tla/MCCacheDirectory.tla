--------------------------- MODULE MCCacheDirectory ---------------------------
(* CacheDirectory with two processes and one file of each class.            *)
EXTENDS CacheDirectory, TLC

CONSTANTS p1, p2, entry, legacy, temp, foreign

MCClass == entry :> "entry" @@ legacy :> "legacy" @@ temp :> "temp" @@ foreign :> "other"

\* Usable, on the ports of the others or with one of them twice, or too large a
\* cache: 26 * 10 is 4 more than a byte, where the run has 8 bits for 64.
Usable == [ports |-> <<1, 2, 3>>, base |-> "origin", mb |-> 25, fetches |-> 1, timeout |-> 1]
MCSettings == {Usable, [Usable EXCEPT !.ports = <<4, 5, 6>>],
               [Usable EXCEPT !.ports = <<4, 2, 4>>], [Usable EXCEPT !.mb = 26],
               [Usable EXCEPT !.mb = 0], [Usable EXCEPT !.base = "unfit"]}
MCSymmetry == Permutations({p1, p2})
===============================================================================

-------------------------- MODULE MC_PieceMatcher --------------------------
(* Instances of PieceMatcher for TLC: three deals of sizes 1, 2 and 1     *)
(* unit in sectors of 4 units (127-byte units of a 512-byte sector).      *)
EXTENDS PieceMatcher

CONSTANTS d1, d2, d3

MCDeals == {d1, d2, d3}
MCDealSize == (d1 :> 1) @@ (d2 :> 2) @@ (d3 :> 1)

\* No deal is submitted twice; d2 is submitted twice.
MCNoDeals == {}
MCResubmitted == {d2}

\* d1 and d3 have the same size, so they are interchangeable.
MCSymmetry == Permutations({d1, d3})
=============================================================================

------------------------- MODULE MCAsyncDerivatives -------------------------
(* Two workers and two jobs, the first with two attempts, for one derivative *)
(* that may be invalidated and requested again.                              *)
EXTENDS AsyncDerivatives, TLC
CONSTANTS w1, w2, j1, j2, o1, o2, a1
MCMaxAttempts == (j1 :> 2) @@ (j2 :> 1)
MCTwoAttempts == (j1 :> 2) @@ (j2 :> 2)
MCSymmetry == Permutations({o1, o2}) \union Permutations({w1, w2})
=============================================================================

----------------------------- MODULE MCUploads -----------------------------
EXTENDS Uploads, TLC

CONSTANTS s1, s2, t1, k

MCSize == (s1 :> 1) @@ (s2 :> 2) @@ (t1 :> 3)
MCKey == (s1 :> k) @@ (s2 :> k)
RequestSymmetry == Permutations(Requests)
=============================================================================

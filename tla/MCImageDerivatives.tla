------------------------- MODULE MCImageDerivatives -------------------------
(* Two requests for one transformation, two invalidations at a time.          *)
EXTENDS ImageDerivatives, TLC
CONSTANTS r1, r2, a1, a2, o1, o2
MCOwnerOf == (r1 :> "request:1") @@ (r2 :> "request:2")
MCOwners == {"request:1", "request:2"}
MCSymmetry == Permutations({o1, o2}) \union Permutations({a1, a2})
=============================================================================

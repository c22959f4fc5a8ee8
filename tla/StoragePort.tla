---------------------------- MODULE StoragePort ----------------------------
(* The calls of put that a backend gets (StoragePort in storage/contracts.ts). *)
EXTENDS Naturals

CONSTANTS Puts,
          Keys,
          Key,        \* the key that each call writes
          Sound,      \* the calls whose source has the size and digest they expect
          Length,     \* the pieces in which the source of each comes
          Nothing

ASSUME PutAssumption ==
    /\ Key \in [Puts -> Keys]
    /\ Sound \subseteq Puts
    /\ Length \in [Puts -> Nat]
    /\ Nothing \notin Puts /\ "broken" \notin Puts \union {Nothing}
=============================================================================

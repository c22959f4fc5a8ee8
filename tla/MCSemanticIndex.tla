-------------------------- MODULE MCSemanticIndex --------------------------
(* Two studies of SemanticIndex, one in each half of the states: indexes that *)
(* replace one another, of one asset at most and without exclusions, and the  *)
(* batches of a single index, with them.                                      *)
EXTENDS SemanticIndex, TLC

CONSTANT i1

VARIABLE study

MCMoreAttempts == [i \in Jobs |-> 2]
Symmetric == Permutations(Workers) \union Permutations(Assets)

Seen == UNION {records[i] : i \in Indexes} \union UNION {builder[w].todo : w \in Workers}
          \union {c.asset : c \in writing}

MCInit == Init /\ study \in {"activation", "batches"}

MCNext ==
    /\ Next
    /\ study' = study
    /\ IF study = "activation"
       THEN excluded' = {} /\ Cardinality(Seen') <= 1
       ELSE \A i \in Indexes \ {i1} : index'[i].state = "absent"

MCSpec == MCInit /\ [][MCNext]_<<vars, study>>
=============================================================================

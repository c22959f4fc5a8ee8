---------------------------- MODULE MCInspection ----------------------------
EXTENDS Inspection, TLC

MCMaxAttempts == [j \in Jobs |-> 2]
Symmetric == Permutations(Workers)
=============================================================================

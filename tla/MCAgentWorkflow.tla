-------------------------- MODULE MCAgentWorkflow --------------------------
EXTENDS AgentWorkflow, TLC

CONSTANTS k1, a1

MCKey == [c \in Calls |-> k1]
MCTarget == [c \in Calls |-> a1]
MCMaxAttempts == [j \in Jobs |-> 2]
Symmetric == Permutations(Workers) \union Permutations(Calls)
=============================================================================

----------------------------- MODULE Providers -----------------------------
(***************************************************************************)
(* Calls to an AI provider or to the vector service: the circuit breaker   *)
(* through which they go (ai/circuit-breaker.ts) and the monthly budget    *)
(* that is compared before a call and charged after it (ai/indexing-       *)
(* handler.ts, ai/service.ts), except by the evaluation of an index, which *)
(* compares nothing.  Callers are the concurrent batches of the indexing   *)
(* jobs and the searches; one breaker and one project.                     *)
(*                                                                         *)
(* Times are relative: the breaker's is what is left of openUntil.         *)
(***************************************************************************)
EXTENDS Naturals, FiniteSets, FiniteSetsExt

CONSTANTS Callers,
          Threshold,     \* AI_PROVIDER_FAILURE_THRESHOLD
          Cooldown,      \* AI_PROVIDER_COOLDOWN_MS, in steps of the clock
          Timeout,       \* AI_PROVIDER_TIMEOUT_MS
          MaxCost,       \* of one call; 0 is a provider without rates
          Budgets,       \* that the project's settings may name
          Queries,       \* the most that an evaluation asks, .limit(25)
          MaxJudged      \* bound: of the queries charged in a month

ASSUME ProviderAssumption ==
    /\ IsFiniteSet(Callers)
    /\ Threshold \in Nat \ {0} /\ Cooldown \in Nat \ {0} /\ Timeout \in Nat \ {0}
    /\ MaxCost \in Nat /\ Queries \in Nat /\ MaxJudged \in Nat
    /\ Budgets \subseteq Nat \ {0} /\ IsFiniteSet(Budgets) /\ Budgets # {}

VARIABLES up,            \* whether the dependency answers
          failures,      \* consecutiveFailures; at the threshold it counts no further
          openFor,       \* what is left of openUntil
          calling,       \* the callers
          spend,         \* the ledger's sum of the month
          budget,        \* in the project's settings
          judged         \* history: the queries of evaluations in that sum

providerVars == <<up, failures, openFor, calling, spend, budget, judged>>

\* allowance: the budget that the caller has read, age: of its call; left: the
\* queries that its evaluation has still to put, the present one included.
Caller == [at : {"idle", "asking"}, age : Nat, allowance : Nat, left : Nat]

ProviderInit ==
    /\ up = TRUE
    /\ failures = 0 /\ openFor = 0
    /\ budget \in Budgets
    /\ calling = [c \in Callers |-> [at |-> "idle", age |-> 0, allowance |-> budget, left |-> 0]]
    /\ spend = 0 /\ judged = 0

AtMost(bound, n) == IF n < bound THEN n ELSE bound
Left(n, m) == IF n > m THEN n - m ELSE 0

Asking == {c \in Callers : calling[c].at = "asking"}
Resting(c) == calling[c].at = "idle"
Judging(c) == calling[c].left > 0

\* An indexing job reads the settings once, a search every time.
ReadSettings(c) ==
    /\ Resting(c)
    /\ calling[c].allowance # budget
    /\ calling' = [calling EXCEPT ![c].allowance = budget]
    /\ UNCHANGED <<up, failures, openFor, spend, budget, judged>>

\* A mutant: the budget may be met.
MeetsBudget(c) == MaxCost = 0 \/ spend <= calling[c].allowance

WithinBudget(c) == MaxCost = 0 \/ spend < calling[c].allowance

\* A mutant: a circuit that has opened waits for a success.
NeverFailed == failures < Threshold

Admits == openFor = 0

\* Nothing is written but the call itself; a refused one has no effect.
Asks(c) ==
    /\ Resting(c) /\ Admits
    /\ calling' = [calling EXCEPT ![c].at = "asking", ![c].age = 0]
    /\ UNCHANGED <<up, failures, openFor, spend, budget, judged>>

Ask(c) == ~Judging(c) /\ WithinBudget(c) /\ Asks(c)

\* A job whose index is built puts the captions of its records as queries, one by one
\* and whatever has been spent.
BeginEvaluation(c) ==
    /\ Resting(c) /\ ~Judging(c)
    /\ \E n \in 1 .. Queries : calling' = [calling EXCEPT ![c].left = n]
    /\ UNCHANGED <<up, failures, openFor, spend, budget, judged>>

Judge(c) == Judging(c) /\ judged < MaxJudged /\ Asks(c)

\* Between two queries the vector service fails it, or its job is interrupted.
EvaluationFails(c) ==
    /\ Resting(c) /\ Judging(c)
    /\ calling' = [calling EXCEPT ![c].left = 0]
    /\ UNCHANGED <<up, failures, openFor, spend, budget, judged>>

Returned(c, left) == calling' = [calling EXCEPT ![c].at = "idle", ![c].age = 0, ![c].left = left]

\* The usage of a response that does not parse, or that names none, is not recorded.
Answered(c) ==
    /\ calling[c].at = "asking" /\ up
    /\ Returned(c, Left(calling[c].left, 1))
    /\ failures' = 0 /\ openFor' = 0
    /\ \E cost \in 0 .. MaxCost : spend' = spend + cost
    /\ judged' = IF Judging(c) THEN judged + 1 ELSE judged
    /\ UNCHANGED <<up, budget>>

\* The circuit opens from the start of the call, whichever failed last.  An evaluation
\* ends with its first failure.
Failed(c) ==
    /\ Returned(c, 0)
    /\ failures' = AtMost(Threshold, failures + 1)
    /\ openFor' = IF failures + 1 >= Threshold THEN Left(Cooldown, calling[c].age) ELSE openFor
    /\ UNCHANGED <<up, spend, budget, judged>>

\* Refused or unreachable, too slow, or taken back by the caller: its job's deadline,
\* a lost lease, a rejected request.  All of them count.
Unavailable(c) == calling[c].at = "asking" /\ ~up /\ Failed(c)
TimedOut(c) == calling[c].at = "asking" /\ calling[c].age = Timeout /\ Failed(c)
TakenBack(c) == calling[c].at = "asking" /\ Failed(c)

\* A worker dies, and its breaker with it: the usage of its call is lost.
Restarted ==
    /\ Asking # {}
    /\ calling' = [c \in Callers |-> [calling[c] EXCEPT !.at = "idle", !.age = 0, !.left = 0]]
    /\ failures' = 0 /\ openFor' = 0
    /\ UNCHANGED <<up, spend, budget, judged>>

ProviderClock ==
    /\ \A c \in Asking : calling[c].age < Timeout
    /\ Asking # {} \/ openFor > 0
    /\ calling' = [c \in Callers |-> IF c \in Asking THEN [calling[c] EXCEPT !.age = @ + 1]
                                     ELSE calling[c]]
    /\ openFor' = Left(openFor, 1)
    /\ UNCHANGED <<up, failures, spend, budget, judged>>

MonthBegins ==
    /\ spend > 0 \/ judged > 0
    /\ spend' = 0 /\ judged' = 0
    /\ UNCHANGED <<up, failures, openFor, calling, budget>>

UpdateBudget ==
    /\ budget' \in Budgets \ {budget}
    /\ UNCHANGED <<up, failures, openFor, calling, spend, judged>>

Outage(changed) ==
    /\ up' = changed /\ up # changed
    /\ UNCHANGED <<failures, openFor, calling, spend, budget, judged>>

ProviderNext ==
    \/ \E c \in Callers : \/ ReadSettings(c)
                          \/ Ask(c)
                          \/ BeginEvaluation(c)
                          \/ Judge(c)
                          \/ EvaluationFails(c)
                          \/ Answered(c)
                          \/ Unavailable(c)
                          \/ TimedOut(c)
                          \/ TakenBack(c)
    \/ Restarted
    \/ ProviderClock
    \/ MonthBegins
    \/ UpdateBudget
    \/ \E changed \in BOOLEAN : Outage(changed)

\* Time passes, months too; callers go on calling; and a dependency that is up does
\* not let every call of a caller time out.
ProviderFairness ==
    /\ WF_providerVars(ProviderClock)
    /\ WF_providerVars(MonthBegins)
    /\ \A c \in Callers : /\ WF_providerVars(Ask(c) \/ Judge(c))
                          /\ WF_providerVars(Unavailable(c))
                          /\ WF_providerVars(TimedOut(c))
                          /\ SF_providerVars(Answered(c))

ProviderSpec == ProviderInit /\ [][ProviderNext]_providerVars

-----------------------------------------------------------------------------
(* Properties.                                                             *)

\* The month's ledger goes over the largest budget by less than one call of each
\* caller and the queries of evaluations: all the other callers compare, though none
\* may have been charged when they do, and while evaluations spend what they compare.
SpendIsBounded ==
    MaxCost > 0 => spend < Max(Budgets) + (Cardinality(Callers) + judged) * MaxCost

\* A dependency that answers for good is called for good: no order of late failures,
\* late successes and half-open attempts shuts the circuit off.
CircuitRecovers == <>[]up => []<>(failures = 0 /\ openFor = 0)
=============================================================================

--------------------------- MODULE ApprovalToken ---------------------------
(***************************************************************************)
(* What the agent workflow promises to the people who approve: a plan is   *)
(* offered, granted or not, spent once, and changes its target at most     *)
(* once, after it was spent and never after it has become void.            *)
(***************************************************************************)
EXTENDS Naturals

CONSTANT Runs

VARIABLES token, effects

Init == /\ token = [k \in Runs |-> "none"]
        /\ effects = [k \in Runs |-> 0]

Move(k, from, to) ==
    /\ token[k] \in from
    /\ token' = [token EXCEPT ![k] = to]
    /\ UNCHANGED effects

Offer(k) == Move(k, {"none"}, "offered")
Grant(k) == Move(k, {"offered"}, "granted")
Spend(k) == Move(k, {"granted"}, "spent")

\* One statement may let several approvals expire.
Void(S) ==
    /\ \A k \in S : token[k] \in {"none", "offered", "granted", "spent"}
    /\ token' = [k \in Runs |-> IF k \in S THEN "void" ELSE token[k]]
    /\ UNCHANGED effects

Use(k) ==
    /\ token[k] = "spent"
    /\ token' = [token EXCEPT ![k] = "used"]
    /\ effects' = [effects EXCEPT ![k] = @ + 1]

Next ==
    \/ \E k \in Runs : Offer(k) \/ Grant(k) \/ Spend(k) \/ Use(k)
    \/ \E S \in SUBSET Runs : Void(S)

Spec == Init /\ [][Next]_<<token, effects>>

\* A target is changed exactly when its token is used, and once.
UsedOnce == \A k \in Runs : effects[k] = IF token[k] = "used" THEN 1 ELSE 0
=============================================================================

---------------------------- MODULE QuotaLedger ----------------------------
(***************************************************************************)
(* What the uploads of a project promise about its quota: an upload        *)
(* reserves its bytes before it receives any, and each reservation ends    *)
(* once, by becoming stored bytes or by being given back.                  *)
(***************************************************************************)
EXTENDS ProjectQuota

VARIABLE account

Init == account = [u \in Uploads |-> "none"]

In(s) == {u \in Uploads : account[u] = s}

Reserve(u) ==
    /\ account[u] = "none"
    /\ Total(In("held")) + Total(In("reserved")) + Size[u] <= Quota
    /\ account' = [account EXCEPT ![u] = "reserved"]

Settle(u) ==
    /\ account[u] = "reserved"
    /\ \E s \in {"held", "released"} : account' = [account EXCEPT ![u] = s]

Next == \E u \in Uploads : Reserve(u) \/ Settle(u)

Spec == Init /\ [][Next]_account

TypeOK == account \in [Uploads -> {"none", "reserved", "held", "released"}]

\* What is stored and what is reserved fit the quota together.
WithinLimit == Total(In("held")) + Total(In("reserved")) <= Quota
=============================================================================

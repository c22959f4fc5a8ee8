---------------------------- MODULE ObjectStore ----------------------------
(***************************************************************************)
(* What a storage backend promises to the services that write objects      *)
(* (StoragePort in storage/contracts.ts).  A call of put stores the whole  *)
(* of what it was given under its key or nothing, and never in the place   *)
(* of another object.  A call that fails may have stored its object, or    *)
(* may still come to store it.                                             *)
(***************************************************************************)
EXTENDS StoragePort

VARIABLES objects,    \* by key, the call whose object it is
          landed,     \* history: the calls that have stored their object
          answered    \* what each call has returned

storeVars == <<objects, landed, answered>>

StoreInit ==
    /\ objects = [k \in Keys |-> Nothing]
    /\ landed = {}
    /\ answered = [p \in Puts |-> "nothing"]

Land(p) ==
    /\ p \in Sound
    /\ objects[Key[p]] = Nothing
    /\ objects' = [objects EXCEPT ![Key[p]] = p]
    /\ landed' = landed \union {p}
    /\ UNCHANGED answered

Answer(p, answer) ==
    /\ answered[p] = "nothing"
    /\ answer = "stored" => p \in landed
    /\ answered' = [answered EXCEPT ![p] = answer]
    /\ UNCHANGED <<objects, landed>>

Remove(k) ==
    /\ objects' = [objects EXCEPT ![k] = Nothing]
    /\ UNCHANGED <<landed, answered>>

\* Calls end without an answer.  If it is the host that stops, objects that were
\* not on its disk are gone, and deletions that were not are undone.
Outage ==
    /\ \E after \in [Keys -> Puts \union {Nothing}] :
         /\ \A k \in Keys : after[k] \in {objects[k], Nothing} \union {p \in landed : Key[p] = k}
         /\ objects' = after
    /\ \E failed \in SUBSET {p \in Puts : answered[p] = "nothing"} :
         answered' = [p \in Puts |-> IF p \in failed THEN "failed" ELSE answered[p]]
    /\ UNCHANGED landed

Next ==
    \/ \E p \in Puts : Land(p)
    \/ \E p \in Puts, answer \in {"stored", "failed"} : Answer(p, answer)
    \/ \E k \in Keys : Remove(k)
    \/ Outage

Spec == StoreInit /\ [][Next]_storeVars
=============================================================================

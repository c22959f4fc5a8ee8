----------------------------- MODULE MCServices -----------------------------
(* The services that the other models take for granted, each of which has    *)
(* its own part of the states: storage, access by keys, projects and their   *)
(* editions, and calls to a provider.  A study lets one of them move.        *)
EXTENDS StorageBackends, Access, Providers, TLC

CONSTANTS p1, p2, p3, k1, d1, pr1, pr2

VARIABLE study

MCKey == [p \in Puts |-> k1]
MCLength == (p1 :> 2) @@ (p2 :> 0) @@ (p3 :> 1)
MCDoomed == (d1 :> k1)

Studied(what, next, vars) == IF study = what THEN next ELSE UNCHANGED vars

MCInit ==
    /\ BackendInit /\ AccessInit /\ ProviderInit
    /\ study \in {"storage", "keys", "projects", "providers"}
    /\ study # "storage" => backend = "local" /\ fresh
    /\ study # "providers" => budget = Max(Budgets)

\* Of storage, two puts of one key, the second one without bytes, or p3 alone, whose
\* bytes are not what they should be.
Begun(p) == putAt'[p] # "idle" \/ upload'[p].at # "idle"

\* Where projects are studied the second one comes when the first is deleted, and to
\* administrators; there are no keys, no request awaits anything but the hash, and roles
\* wait for the setups that come too late.
ProjectsStudied ==
    /\ UNCHANGED key
    /\ project'[pr2].state # "absent" => project'[pr1].state = "deleted"
    /\ \A u \in Users : <<u, pr2>> \notin assigned'
    /\ \A r \in AccessRequests :
         /\ request'[r].at \in {"idle", "hashing"}
         /\ complete /\ request[r].at = "hashing" => request'[r].at = "idle" \/ role' = role
         /\ complete /\ request'[r] # request[r] => request'[r].at = "idle"

\* Where keys are, one user sets up, stays an owner and is sent the projects, which are
\* not edited; the second one stays and is assigned to nobody; there is no administrator
\* but the owners; an upload enters when the other request is over.
Founder == CHOOSE u \in Users : TRUE

KeysStudied ==
    /\ \A p \in Projects : project'[p].edition <= 1
    /\ \A u \in Users \ {Founder} : UNCHANGED seen[u]
    /\ project'[pr2].state # "deleted"
    /\ \A u \in Users : <<u, pr2>> \notin assigned' /\ role'[u] # "admin"
    /\ complete' => role'[Founder] = "owner" /\ <<Founder, pr1>> \in assigned'
    /\ \A r, s \in AccessRequests :
         /\ request'[r].at = "hashing" => ~complete'
         /\ r # s /\ request'[r].at = "entered" => request'[s].at = "idle"

MCNext ==
    /\ Studied("storage", BackendNext, backendVars)
    /\ Begun(p3) => ~Begun(p1) /\ ~Begun(p2)
    /\ Studied("providers", ProviderNext, providerVars)
    /\ \/ study = "keys" /\ AccessNext /\ KeysStudied
       \/ study = "projects" /\ AccessNext /\ ProjectsStudied
       \/ study \notin {"keys", "projects"} /\ UNCHANGED accessVars
    /\ \A u \in Users : role'[u] # "viewer"
    /\ study' = study

MCSpec ==
    MCInit /\ [][MCNext]_<<backendVars, accessVars, providerVars, study>> /\ ProviderFairness
=============================================================================

------------------------------- MODULE Access -------------------------------
(***************************************************************************)
(* Who may do what in the organization: setup, memberships, projects and   *)
(* their editions, assignments to a project, and API keys (setup/service,  *)
(* projects/service, projects/members, api-keys/service, authorization/    *)
(* policy, http/authentication).                                           *)
(*                                                                         *)
(* better-auth keeps the members and the rows of the keys, and its own     *)
(* endpoints are mounted beside the services.  These are synchronous but   *)
(* where they await it: the hash of a password, a new key, the check of a  *)
(* key that a request carries.                                             *)
(***************************************************************************)
EXTENDS Naturals, FiniteSets

CONSTANTS Users,
          Projects,
          ApiKeys,
          AccessRequests,
          MaxVersion,     \* bound: of a project
          NoOne

ASSUME AccessAssumption == NoOne \notin Users \union Projects \union ApiKeys /\ MaxVersion \in Nat

VARIABLES complete,       \* whether the setting 'setup.completed' has its row
          role,           \* the role of each member of the organization
          assigned,       \* the rows of project_members
          project,        \* the rows of projects
          seen,           \* what each user has last been sent of each project
          key,            \* the rows of apikey and project_api_keys
          request         \* the requests that have awaited something

accessVars == <<complete, role, assigned, project, seen, key, request>>

\* edition: the contents, told apart by when they were written.
Edition == [version : Nat, edition : Nat]
ProjectRow == [state : {"absent", "live", "deleted"}, version : Nat, edition : Nat,
               by : Users \union {NoOne}]
NoProject == [state |-> "absent", version |-> 0, edition |-> 0, by |-> NoOne]
NotSeen == [version |-> 0, edition |-> 0]

\* auth and names are better-auth's row: whether verifyApiKey finds it valid
\* (invalid: disabled or expired) and the project that its metadata names.  link, by
\* and project are that of project_api_keys, written once as ApiKeyService asked for.
\* ours: whether ApiKeyService asked for the key; secret: whether anybody was sent it.
KeyRow == [auth : {"absent", "valid", "invalid", "deleted"}, names : Projects \union {NoOne},
           ours : BOOLEAN, secret : BOOLEAN, link : {"none", "active", "revoked"},
           by : Users \union {NoOne}, project : Projects \union {NoOne}]
NoKey == [auth |-> "absent", names |-> NoOne, ours |-> FALSE, secret |-> FALSE,
          link |-> "none", by |-> NoOne, project |-> NoOne]

AccessRequest == [at : {"idle", "hashing", "minting", "minted", "linked", "verified", "entered"},
                  by : Users \union {NoOne}, key : ApiKeys \union {NoOne}, project : Projects \union {NoOne}]
NoRequest == [at |-> "idle", by |-> NoOne, key |-> NoOne, project |-> NoOne]

AccessInit ==
    /\ complete = FALSE
    /\ role = [u \in Users |-> "none"]
    /\ assigned = {}
    /\ project = [p \in Projects |-> NoProject]
    /\ seen = [u \in Users |-> [p \in Projects |-> NotSeen]]
    /\ key = [k \in ApiKeys |-> NoKey]
    /\ request = [r \in AccessRequests |-> NoRequest]

-----------------------------------------------------------------------------
(* The policy.                                                             *)

Roles == {"owner", "admin", "developer", "viewer"}
OrganizationWide == {"owner", "admin"}

AllowedActions ==
    [owner     |-> {"create", "read", "update", "delete", "manage_api_keys", "upload"},
     admin     |-> {"create", "read", "update", "delete", "manage_api_keys", "upload"},
     developer |-> {"read", "manage_api_keys", "upload"},
     viewer    |-> {"read"},
     none      |-> {}]

\* Whose sessions better-auth lets create, update and delete keys.
KeepsKeys(u) == role[u] \in {"owner", "admin", "developer"}

\* Whether the project is there is not asked.
Authorized(u, p, action) ==
    /\ action \in AllowedActions[role[u]]
    /\ role[u] \in OrganizationWide \/ <<u, p>> \in assigned

Live(p) == project[p].state = "live"
Free(r) == request[r].at = "idle"
Await(r, what) == request' = [request EXCEPT ![r] = what]
Ends(r) == Await(r, NoRequest)

-----------------------------------------------------------------------------
(* Setup and memberships.                                                  *)

\* by is the actor of the last entry that the audit has of the project.
FirstEdition(u) == [state |-> "live", version |-> 1, edition |-> 1, by |-> u]

BeginSetup(r, u) ==
    /\ Free(r) /\ role[u] = "none"
    /\ Await(r, [NoRequest EXCEPT !.at = "hashing", !.by = u])
    /\ UNCHANGED <<complete, role, assigned, project, seen, key>>

\* A mutant: whether it is complete was asked before the hash, and is not any more.
FinishAnySetup(r) ==
    /\ request[r].at = "hashing"
    /\ Ends(r)
    /\ \E p \in Projects :
         /\ complete' = TRUE
         /\ role' = [role EXCEPT ![request[r].by] = "owner"]
         /\ project' = [project EXCEPT ![p] = FirstEdition(request[r].by)]
         /\ assigned' = assigned \union {<<request[r].by, p>>}
    /\ UNCHANGED <<seen, key>>

\* One transaction, that the unique key of the setting breaks for all but the first.
FinishSetup(r) ==
    /\ request[r].at = "hashing"
    /\ Ends(r)
    /\ IF complete
       THEN UNCHANGED <<complete, role, assigned, project>>
       ELSE \E p \in Projects :
              /\ complete' = TRUE
              /\ role' = [role EXCEPT ![request[r].by] = "owner"]
              /\ project' = [project EXCEPT ![p] = FirstEdition(request[r].by)]
              /\ assigned' = assigned \union {<<request[r].by, p>>}
    /\ UNCHANGED <<seen, key>>

\* Members join, leave and change roles; the last owner stays.  Assignments stay too.
ChangeMember(u, new) ==
    /\ complete
    /\ role[u] # new
    /\ new # "owner" => \E v \in Users \ {u} : role[v] = "owner"
    /\ role' = [role EXCEPT ![u] = new]
    /\ UNCHANGED <<complete, assigned, project, seen, key, request>>

Assign(u, p, v) ==
    /\ Authorized(u, p, "update")
    /\ project[p].state # "absent"
    /\ role[v] # "none" /\ <<v, p>> \notin assigned
    /\ assigned' = assigned \union {<<v, p>>}
    /\ UNCHANGED <<complete, role, project, seen, key, request>>

Unassign(u, p, v) ==
    /\ Authorized(u, p, "update")
    /\ <<v, p>> \in assigned
    /\ assigned' = assigned \ {<<v, p>>}
    /\ UNCHANGED <<complete, role, project, seen, key, request>>

-----------------------------------------------------------------------------
(* Projects.                                                               *)

Shown(p) == [version |-> project[p].version, edition |-> project[p].edition]

CreateProject(u, p) ==
    /\ "create" \in AllowedActions[role[u]]
    /\ project[p].state = "absent"
    /\ project' = [project EXCEPT ![p] = FirstEdition(u)]
    /\ seen' = [seen EXCEPT ![u][p] = [version |-> 1, edition |-> 1]]
    /\ UNCHANGED <<complete, role, assigned, key, request>>

GetProject(u, p) ==
    /\ Authorized(u, p, "read") /\ Live(p)
    /\ seen' = [seen EXCEPT ![u][p] = Shown(p)]
    /\ UNCHANGED <<complete, role, assigned, project, key, request>>

\* If-Match names the version, and the statement does once more.
Matches(u, p) == seen[u][p].version = project[p].version

\* A mutant: the version stays.
UpdateSilently(u, p) ==
    /\ Authorized(u, p, "update") /\ Live(p) /\ Matches(u, p)
    /\ project[p].edition < MaxVersion
    /\ project' = [project EXCEPT ![p].edition = @ + 1, ![p].by = u]
    /\ seen' = [seen EXCEPT ![u][p].edition = project[p].edition + 1]
    /\ UNCHANGED <<complete, role, assigned, key, request>>

UpdateProject(u, p) ==
    LET next == [project[p] EXCEPT !.version = @ + 1, !.edition = @ + 1, !.by = u]
    IN  /\ Authorized(u, p, "update") /\ Live(p) /\ Matches(u, p)
        /\ project[p].version < MaxVersion
        /\ project' = [project EXCEPT ![p] = next]
        /\ seen' = [seen EXCEPT ![u][p] = [version |-> next.version, edition |-> next.edition]]
        /\ UNCHANGED <<complete, role, assigned, key, request>>

DeleteProject(u, p) ==
    /\ Authorized(u, p, "delete") /\ Live(p) /\ Matches(u, p)
    /\ project' = [project EXCEPT ![p].state = "deleted", ![p].version = @ + 1, ![p].by = u]
    /\ UNCHANGED <<complete, role, assigned, seen, key, request>>

-----------------------------------------------------------------------------
(* API keys.                                                               *)

BeginKey(r, u, p) ==
    /\ Free(r)
    /\ Authorized(u, p, "manage_api_keys")
    /\ project[p].state # "absent"
    /\ Await(r, [NoRequest EXCEPT !.at = "minting", !.by = u, !.project = p])
    /\ UNCHANGED <<complete, role, assigned, project, seen, key>>

KeyMinted(r, k) ==
    /\ request[r].at = "minting"
    /\ key[k].auth = "absent"
    /\ key' = [key EXCEPT ![k] = [NoKey EXCEPT !.auth = "valid", !.ours = TRUE,
                                               !.names = request[r].project,
                                               !.by = request[r].by,
                                               !.project = request[r].project]]
    /\ Await(r, [request[r] EXCEPT !.at = "minted", !.key = k])
    /\ UNCHANGED <<complete, role, assigned, project, seen>>

\* A mutant: the request goes on though the transaction has failed.
LinkSilently(r) ==
    LET k == request[r].key
    IN  /\ request[r].at = "minted"
        /\ \E link \in {"active", "none"} : key' = [key EXCEPT ![k].link = link]
        /\ Await(r, [request[r] EXCEPT !.at = "linked"])
        /\ UNCHANGED <<complete, role, assigned, project, seen>>

\* The link refers to better-auth's row.
LinkKey(r) ==
    LET k == request[r].key
    IN  /\ request[r].at = "minted"
        /\ key[k].auth # "deleted"
        /\ key' = [key EXCEPT ![k].link = "active"]
        /\ Await(r, [request[r] EXCEPT !.at = "linked"])
        /\ UNCHANGED <<complete, role, assigned, project, seen>>

\* If the transaction fails, the key is deleted, unless that fails as well.
LinkFails(r) ==
    LET k == request[r].key
    IN  /\ request[r].at = "minted"
        /\ Ends(r)
        /\ \E auth \in {key[k].auth, "deleted"} : key' = [key EXCEPT ![k].auth = auth]
        /\ UNCHANGED <<complete, role, assigned, project, seen>>

\* The response, if the process lives to send it.
SendKey(r) ==
    /\ request[r].at = "linked"
    /\ Ends(r)
    /\ key' = [key EXCEPT ![request[r].key].secret = TRUE]
    /\ UNCHANGED <<complete, role, assigned, project, seen>>

RevokeKey(u, k) ==
    /\ key[k].link = "active"
    /\ Authorized(u, key[k].project, "manage_api_keys")
    /\ role[u] \in OrganizationWide \/ key[k].by = u
    /\ key' = [key EXCEPT ![k].auth = "invalid", ![k].link = "revoked"]
    /\ UNCHANGED <<complete, role, assigned, project, seen, request>>

\* better-auth's own endpoints know nothing of project_api_keys, but the row of a key
\* takes its link with it.
Remains(k) == key[k].auth \in {"valid", "invalid"}
Gone(k) == key' = [key EXCEPT ![k].auth = "deleted", ![k].link = "none"]

AuthCreates(u, k) ==
    /\ KeepsKeys(u) /\ key[k].auth = "absent"
    /\ \E names \in Projects \union {NoOne} :
         key' = [key EXCEPT ![k] = [NoKey EXCEPT !.auth = "valid", !.secret = TRUE, !.names = names]]
    /\ UNCHANGED <<complete, role, assigned, project, seen, request>>

AuthUpdates(u, k) ==
    /\ KeepsKeys(u) /\ Remains(k)
    /\ \E auth \in {"valid", "invalid"}, names \in Projects \union {NoOne} :
         key' = [key EXCEPT ![k].auth = auth, ![k].names = names]
    /\ UNCHANGED <<complete, role, assigned, project, seen, request>>

AuthDeletes(u, k) ==
    /\ KeepsKeys(u) /\ Remains(k)
    /\ Gone(k)
    /\ UNCHANGED <<complete, role, assigned, project, seen, request>>

\* expires_at passes, and better-auth may clear the row away.
Expires(k) ==
    /\ Remains(k)
    /\ key' = [key EXCEPT ![k].auth = "invalid"] \/ Gone(k)
    /\ UNCHANGED <<complete, role, assigned, project, seen, request>>

-----------------------------------------------------------------------------
(* Uploads into a project, by a user and by a key.                         *)

\* The middleware asks better-auth for the key and compares the project it names.
\* (The scopes of keys are left out.)
VerifyKey(r, k) ==
    /\ Free(r)
    /\ key[k].auth = "valid" /\ key[k].secret /\ key[k].names # NoOne
    /\ Await(r, [NoRequest EXCEPT !.at = "verified", !.key = k, !.project = key[k].names])
    /\ UNCHANGED <<complete, role, assigned, project, seen, key>>

\* A mutant: what the middleware has verified is enough.
Trusted(r) == TRUE

\* creatorFor looks at the link, and neither at the key again nor at who made it.
StillLinked(r) == /\ key[request[r].key].link = "active"
                  /\ key[request[r].key].project = request[r].project

EnterByKey(r) ==
    /\ request[r].at = "verified"
    /\ IF StillLinked(r) /\ Live(request[r].project)
       THEN Await(r, [request[r] EXCEPT !.at = "entered"])
       ELSE Ends(r)
    /\ UNCHANGED <<complete, role, assigned, project, seen, key>>

EnterByUser(r, u, p) ==
    /\ Free(r)
    /\ Authorized(u, p, "upload") /\ Live(p)
    /\ Await(r, [NoRequest EXCEPT !.at = "entered", !.by = u, !.project = p])
    /\ UNCHANGED <<complete, role, assigned, project, seen, key>>

\* A response, or the death of the process.
RequestEnds(r) ==
    /\ ~Free(r)
    /\ Ends(r)
    /\ UNCHANGED <<complete, role, assigned, project, seen, key>>

AccessNext ==
    \/ \E r \in AccessRequests :
         \/ \E u \in Users : BeginSetup(r, u)
         \/ FinishSetup(r)
         \/ \E u \in Users, p \in Projects : BeginKey(r, u, p) \/ EnterByUser(r, u, p)
         \/ \E k \in ApiKeys : KeyMinted(r, k) \/ VerifyKey(r, k)
         \/ LinkKey(r) \/ LinkFails(r) \/ SendKey(r)
         \/ EnterByKey(r)
         \/ RequestEnds(r)
    \/ \E u \in Users :
         \/ \E new \in Roles \union {"none"} : ChangeMember(u, new)
         \/ \E p \in Projects :
              \/ CreateProject(u, p)
              \/ GetProject(u, p)
              \/ UpdateProject(u, p)
              \/ DeleteProject(u, p)
              \/ \E v \in Users : Assign(u, p, v) \/ Unassign(u, p, v)
         \/ \E k \in ApiKeys : \/ RevokeKey(u, k)
                              \/ AuthCreates(u, k) \/ AuthUpdates(u, k) \/ AuthDeletes(u, k)
    \/ \E k \in ApiKeys : Expires(k)

AccessSpec == AccessInit /\ [][AccessNext]_accessVars

-----------------------------------------------------------------------------
(* Properties.                                                             *)

\* README.md: a race-safe setup.  The first request to commit makes one owner, with a
\* project and an assignment to it; none that commits later changes anything.
SetupHappensOnce ==
    [][/\ complete => complete' /\ (role' # role => request' = request)
       /\ ~complete /\ complete' =>
            \E u \in Users, p \in Projects :
               /\ role' = [v \in Users |-> IF v = u THEN "owner" ELSE "none"]
               /\ {q \in Projects : project'[q].state = "live"} = {p}
               /\ assigned' = {<<u, p>>}]_accessVars

\* Whoever replaces an edition of a project, or deletes the project, has been sent that
\* very edition, whatever anybody else has written since he was sent an earlier one.
EditsSeeWhatTheyReplace ==
    [][\A p \in Projects :
         project[p].state = "live" /\ project'[p] # project[p] =>
           LET u == project'[p].by
           IN  /\ u \in Users
               /\ seen[u][p].edition = project[p].edition
               /\ "update" \in AllowedActions[role[u]]]_accessVars

\* A key that ApiKeyService has handed out is listed for its project, where it can be
\* revoked, until its row is gone: whatever fails, or dies, between the two rows, and
\* whatever is done to the key at better-auth's own endpoints.
KeysSentAreListed ==
    \A k \in ApiKeys :
        key[k].ours /\ key[k].secret => key[k].link # "none" \/ key[k].auth = "deleted"

\* An upload enters a project that is live, with the leave that its user has at that
\* moment, or by a key that ApiKeyService made for that project and that is neither
\* revoked nor deleted at that moment: a key made, or turned to another project, at
\* better-auth's own endpoints lets none in.  (Whether the key has expired or been
\* disabled since it was verified is not asked again.)
UploadsEnterWithLeave ==
    [][\A r \in AccessRequests :
         LET q == request'[r]
         IN  request[r].at # "entered" /\ q.at = "entered" =>
               /\ Live(q.project)
               /\ \/ q.by # NoOne /\ Authorized(q.by, q.project, "upload")
                  \/ /\ q.key # NoOne /\ key[q.key].ours /\ key[q.key].auth # "deleted"
                     /\ key[q.key].link = "active" /\ key[q.key].project = q.project]_accessVars
=============================================================================

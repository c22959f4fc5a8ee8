--------------------------- MODULE ServicesProofs ---------------------------
(***************************************************************************)
(* Theorems about the services beside storage: who may do what (Access),   *)
(* what calls to a provider cost (Providers), and what links and downloads *)
(* show (Delivery).                                                        *)
(***************************************************************************)
EXTENDS Access, Providers, Delivery, FiniteSetTheorems, TLAPS

-----------------------------------------------------------------------------
(* Access, for any users, projects, keys and requests.                     *)

AccessTypeOK ==
    /\ complete \in BOOLEAN
    /\ role \in [Users -> Roles \union {"none"}]
    /\ assigned \subseteq Users \X Projects
    /\ project \in [Projects -> ProjectRow]
    /\ seen \in [Users -> [Projects -> Edition]]
    /\ key \in [ApiKeys -> KeyRow]
    /\ request \in [AccessRequests -> AccessRequest]

\* A row that is absent or gone takes its link with it, only ApiKeyService links, and
\* what it has handed out was linked first.
RowOK(row) ==
    /\ row.auth \in {"absent", "deleted"} => row.link = "none"
    /\ row.link # "none" => row.ours
    /\ row.ours /\ row.secret => row.link # "none" \/ row.auth = "deleted"

\* A request makes one key, which no other request makes, and sends it when it is linked;
\* meanwhile it can be changed or deleted at better-auth's endpoints.
Making(q) == q.at \in {"minted", "linked"}

Says(q, row) ==
    /\ row.auth # "absent"
    /\ q.at = "minted" => row.ours /\ row.link = "none" /\ ~row.secret
    /\ q.at = "linked" => row.link # "none" \/ row.auth = "deleted"

RequestOK(r) ==
    /\ request[r].at = "hashing" => request[r].by \in Users
    /\ Making(request[r]) \/ request[r].at = "verified" => request[r].key \in ApiKeys
    /\ Making(request[r]) => Says(request[r], key[request[r].key])

MakingApart ==
    \A r, s \in AccessRequests :
        r # s /\ Making(request[r]) /\ Making(request[s]) => request[r].key # request[s].key

KeysOK == /\ \A k \in ApiKeys : RowOK(key[k])
          /\ \A r \in AccessRequests : RequestOK(r)
          /\ MakingApart

\* A user who has been sent the current version has been sent the current edition.
SeenOK ==
    \A u \in Users, p \in Projects :
        /\ seen[u][p].version <= project[p].version
        /\ project[p].state = "absent" => project[p].version = 0
        /\ project[p].state = "live" => project[p].version >= 1
        /\ project[p].state = "live" /\ seen[u][p].version = project[p].version
             => seen[u][p].edition = project[p].edition

\* Before setup has completed there is nobody and nothing.
BeforeSetup ==
    ~complete => /\ \A u \in Users : role[u] = "none"
                 /\ assigned = {}
                 /\ \A p \in Projects : project[p].state = "absent"

AccessInv == AccessTypeOK /\ KeysOK /\ SeenOK /\ BeforeSetup

-----------------------------------------------------------------------------
(* The policy.                                                             *)

LEMMA NobodyIsAllowedNothing ==
    ASSUME AccessTypeOK, NEW u \in Users, NEW action, action \in AllowedActions[role[u]]
    PROVE  role[u] \in Roles
BY DEF AccessTypeOK, AllowedActions

\* Whoever is allowed something was made a member, so setup has completed.
LEMMA MembersAfterSetup ==
    ASSUME AccessInv, NEW u \in Users, NEW action, action \in AllowedActions[role[u]]
    PROVE  complete = TRUE
<1>1. role[u] # "none"
  BY NobodyIsAllowedNothing DEF AccessInv, Roles
<1> QED
  BY <1>1 DEF AccessInv, BeforeSetup, AccessTypeOK

-----------------------------------------------------------------------------
(* Requests and keys.                                                      *)

LEMMA AwaitType ==
    ASSUME AccessTypeOK, NEW r \in AccessRequests, NEW what \in AccessRequest, Await(r, what)
    PROVE  /\ request' \in [AccessRequests -> AccessRequest]
           /\ request'[r] = what
           /\ \A s \in AccessRequests \ {r} : request'[s] = request[s]
BY DEF AccessTypeOK, Await

LEMMA NoRequestType == NoRequest \in AccessRequest /\ NoRequest.at = "idle"
BY DEF NoRequest, AccessRequest

LEMMA StillApart ==
    ASSUME AccessInv, NEW r \in AccessRequests,
           \A s \in AccessRequests \ {r} : request'[s] = request[s],
           Making(request'[r]) =>
             \A s \in AccessRequests \ {r} : Making(request[s]) => request[s].key # request'[r].key
    PROVE  MakingApart'
<1> SUFFICES ASSUME NEW s \in AccessRequests, NEW t \in AccessRequests, s # t,
                    Making(request'[s]), Making(request'[t])
             PROVE  request'[s].key # request'[t].key
  BY DEF MakingApart
<1>1. CASE s # r /\ t # r
  BY <1>1 DEF AccessInv, KeysOK, MakingApart
<1>2. CASE s = r
  BY <1>2
<1>3. CASE t = r
  BY <1>3
<1> QED
  BY <1>1, <1>2, <1>3

\* A request that makes no key says nothing about the keys.
LEMMA OneRequest ==
    ASSUME AccessInv, NEW r \in AccessRequests, NEW what \in AccessRequest, Await(r, what),
           UNCHANGED key,
           ~Making(what),
           what.at = "hashing" => what.by \in Users,
           what.at = "verified" => what.key \in ApiKeys
    PROVE  KeysOK' /\ request' \in [AccessRequests -> AccessRequest]
<1>1. /\ request' \in [AccessRequests -> AccessRequest] /\ request'[r] = what
      /\ \A s \in AccessRequests \ {r} : request'[s] = request[s]
  BY AwaitType DEF AccessInv
<1>2. \A s \in AccessRequests : (RequestOK(s))'
  BY <1>1 DEF AccessInv, KeysOK, RequestOK
<1>3. MakingApart'
  BY <1>1, StillApart
<1> QED
  BY <1>1, <1>2, <1>3 DEF AccessInv, KeysOK

LEMMA EndsKeeps ==
    ASSUME AccessInv, NEW r \in AccessRequests, Ends(r), UNCHANGED key
    PROVE  KeysOK' /\ request' \in [AccessRequests -> AccessRequest]
BY NoRequestType, OneRequest DEF Ends, Making

LEMMA RequestPlane ==
    ASSUME AccessInv, UNCHANGED <<complete, role, assigned, project, seen>>,
           KeysOK', request' \in [AccessRequests -> AccessRequest],
           key' \in [ApiKeys -> KeyRow]
    PROVE  AccessInv'
BY DEF AccessInv, AccessTypeOK, SeenOK, BeforeSetup

\* One key is written, and the requests that stay as they were can still say of it what
\* they said.
LEMMA OneKey ==
    ASSUME AccessInv, UNCHANGED <<complete, role, assigned, project, seen>>,
           NEW k \in ApiKeys, NEW row \in KeyRow, key' = [key EXCEPT ![k] = row], RowOK(row),
           request' \in [AccessRequests -> AccessRequest], MakingApart',
           \A s \in AccessRequests :
              \/ /\ request'[s] = request[s]
                 /\ Making(request[s]) /\ request[s].key = k => Says(request[s], row)
              \/ request'[s].at \notin {"hashing", "minted", "linked", "verified"}
              \/ Making(request'[s]) /\ request'[s].key = k /\ Says(request'[s], row)
    PROVE  AccessInv'
<1>1. /\ key' \in [ApiKeys -> KeyRow] /\ key'[k] = row
      /\ \A l \in ApiKeys \ {k} : key'[l] = key[l]
  BY DEF AccessInv, AccessTypeOK
<1>2. \A l \in ApiKeys : RowOK(key'[l])
  BY <1>1 DEF AccessInv, KeysOK
<1>3. ASSUME NEW s \in AccessRequests PROVE (RequestOK(s))'
  <2>1. RequestOK(s)
    BY DEF AccessInv, KeysOK
  <2>2. CASE /\ request'[s] = request[s]
             /\ Making(request[s]) /\ request[s].key = k => Says(request[s], row)
    BY <1>1, <2>1, <2>2 DEF RequestOK
  <2>3. CASE request'[s].at \notin {"hashing", "minted", "linked", "verified"}
    BY <2>3 DEF RequestOK, Making
  <2>4. CASE Making(request'[s]) /\ request'[s].key = k /\ Says(request'[s], row)
    BY <1>1, <2>4 DEF RequestOK, Making
  <2> QED
    BY <2>2, <2>3, <2>4
<1> QED
  BY <1>1, <1>2, <1>3, RequestPlane DEF KeysOK

LEMMA BeginSetupInv ==
    ASSUME AccessInv, NEW r \in AccessRequests, NEW u \in Users, BeginSetup(r, u)
    PROVE  AccessInv'
<1> DEFINE what == [NoRequest EXCEPT !.at = "hashing", !.by = u]
<1>1. what \in AccessRequest /\ what.at = "hashing" /\ what.by = u
  BY DEF NoRequest, AccessRequest
<1>2. KeysOK' /\ request' \in [AccessRequests -> AccessRequest]
  BY <1>1, OneRequest DEF BeginSetup, Making
<1> QED
  BY <1>2, RequestPlane DEF BeginSetup, AccessInv, AccessTypeOK

LEMMA BeginKeyInv ==
    ASSUME AccessInv, NEW r \in AccessRequests, NEW u \in Users, NEW p \in Projects, BeginKey(r, u, p)
    PROVE  AccessInv'
<1> DEFINE what == [NoRequest EXCEPT !.at = "minting", !.by = u, !.project = p]
<1>1. what \in AccessRequest /\ what.at = "minting"
  BY DEF NoRequest, AccessRequest
<1>2. KeysOK' /\ request' \in [AccessRequests -> AccessRequest]
  BY <1>1, OneRequest DEF BeginKey, Making
<1> QED
  BY <1>2, RequestPlane DEF BeginKey, AccessInv, AccessTypeOK

LEMMA EnterByUserInv ==
    ASSUME AccessInv, NEW r \in AccessRequests, NEW u \in Users, NEW p \in Projects,
           EnterByUser(r, u, p)
    PROVE  AccessInv'
<1> DEFINE what == [NoRequest EXCEPT !.at = "entered", !.by = u, !.project = p]
<1>1. what \in AccessRequest /\ what.at = "entered"
  BY DEF NoRequest, AccessRequest
<1>2. KeysOK' /\ request' \in [AccessRequests -> AccessRequest]
  BY <1>1, OneRequest DEF EnterByUser, Making
<1> QED
  BY <1>2, RequestPlane DEF EnterByUser, AccessInv, AccessTypeOK

LEMMA EnterByKeyInv ==
    ASSUME AccessInv, NEW r \in AccessRequests, EnterByKey(r)
    PROVE  AccessInv'
<1> DEFINE what == [request[r] EXCEPT !.at = "entered"]
<1>1. what \in AccessRequest /\ what.at = "entered"
  BY DEF AccessInv, AccessTypeOK, AccessRequest
<1>2. KeysOK' /\ request' \in [AccessRequests -> AccessRequest]
  BY <1>1, OneRequest, EndsKeeps DEF EnterByKey, Making
<1> QED
  BY <1>2, RequestPlane DEF EnterByKey, AccessInv, AccessTypeOK

LEMMA RequestEndsInv ==
    ASSUME AccessInv, NEW r \in AccessRequests, RequestEnds(r)
    PROVE  AccessInv'
BY EndsKeeps, RequestPlane DEF RequestEnds, AccessInv, AccessTypeOK

LEMMA VerifyKeyInv ==
    ASSUME AccessInv, NEW r \in AccessRequests, NEW k \in ApiKeys, VerifyKey(r, k)
    PROVE  AccessInv'
<1> DEFINE what == [NoRequest EXCEPT !.at = "verified", !.key = k, !.project = key[k].names]
<1>1. key[k] \in KeyRow
  BY DEF AccessInv, AccessTypeOK
<1>2. what \in AccessRequest /\ what.at = "verified" /\ what.key = k
  BY <1>1 DEF NoRequest, AccessRequest, KeyRow
<1>3. KeysOK' /\ request' \in [AccessRequests -> AccessRequest]
  BY <1>2, OneRequest DEF VerifyKey, Making
<1> QED
  BY <1>3, RequestPlane DEF VerifyKey, AccessInv, AccessTypeOK

LEMMA KeyMintedInv ==
    ASSUME AccessInv, NEW r \in AccessRequests, NEW k \in ApiKeys, KeyMinted(r, k)
    PROVE  AccessInv'
<1> DEFINE row == [NoKey EXCEPT !.auth = "valid", !.ours = TRUE, !.names = request[r].project,
                                !.by = request[r].by, !.project = request[r].project]
           what == [request[r] EXCEPT !.at = "minted", !.key = k]
<1>1. request[r] \in AccessRequest
  BY DEF AccessInv, AccessTypeOK
<1>2. /\ row \in KeyRow /\ row.auth = "valid" /\ row.link = "none" /\ row.secret = FALSE
      /\ row.ours = TRUE
  BY <1>1 DEF NoKey, KeyRow, AccessRequest
<1>3. what \in AccessRequest /\ what.at = "minted" /\ what.key = k
  BY <1>1 DEF AccessRequest
<1>4. /\ request' \in [AccessRequests -> AccessRequest] /\ request'[r] = what
      /\ \A s \in AccessRequests \ {r} : request'[s] = request[s]
  BY <1>3, AwaitType DEF KeyMinted, AccessInv
<1>5. key' = [key EXCEPT ![k] = row] /\ key[k].auth = "absent"
  BY DEF KeyMinted
<1>6. \A s \in AccessRequests : Making(request[s]) => request[s].key # k
  BY <1>5 DEF AccessInv, KeysOK, RequestOK, Says
<1> HIDE DEF row, what
<1>7. RowOK(row) /\ Says(what, row) /\ Making(what)
  BY <1>2, <1>3 DEF RowOK, Says, Making
<1>8. MakingApart'
  BY <1>3, <1>4, <1>6, StillApart
<1> QED
  <2>1. \A s \in AccessRequests :
          \/ /\ request'[s] = request[s]
             /\ Making(request[s]) /\ request[s].key = k => Says(request[s], row)
          \/ Making(request'[s]) /\ request'[s].key = k /\ Says(request'[s], row)
    BY <1>3, <1>4, <1>6, <1>7
  <2> QED
    BY <1>2, <1>4, <1>5, <1>7, <1>8, <2>1, OneKey DEF KeyMinted

LEMMA LinkKeyInv ==
    ASSUME AccessInv, NEW r \in AccessRequests, LinkKey(r)
    PROVE  AccessInv'
<1> DEFINE k == request[r].key
           row == [key[k] EXCEPT !.link = "active"]
           what == [request[r] EXCEPT !.at = "linked"]
<1>1. /\ request[r] \in AccessRequest /\ k \in ApiKeys /\ key[k] \in KeyRow
      /\ Says(request[r], key[k]) /\ request[r].at = "minted" /\ key[k].auth # "deleted"
  BY DEF AccessInv, AccessTypeOK, KeysOK, RequestOK, LinkKey, Making
<1>2. /\ row \in KeyRow /\ row.auth = key[k].auth /\ row.link = "active"
      /\ row.ours = key[k].ours /\ row.secret = key[k].secret
  BY <1>1 DEF KeyRow
<1>3. what \in AccessRequest /\ what.at = "linked" /\ what.key = k
  BY <1>1 DEF AccessRequest
<1>4. /\ request' \in [AccessRequests -> AccessRequest] /\ request'[r] = what
      /\ \A s \in AccessRequests \ {r} : request'[s] = request[s]
  BY <1>3, AwaitType DEF LinkKey, AccessInv
<1>5. key' = [key EXCEPT ![k] = row]
  BY DEF LinkKey
<1>6. \A s \in AccessRequests \ {r} : Making(request[s]) => request[s].key # k
  BY <1>1 DEF AccessInv, KeysOK, MakingApart, Making
<1> HIDE DEF row, what, k
<1>7. RowOK(row) /\ Says(what, row) /\ Making(what)
  BY <1>1, <1>2, <1>3 DEF RowOK, Says, Making
<1>8. MakingApart'
  BY <1>3, <1>4, <1>6, StillApart
<1>9. \A s \in AccessRequests :
        \/ /\ request'[s] = request[s]
           /\ Making(request[s]) /\ request[s].key = k => Says(request[s], row)
        \/ Making(request'[s]) /\ request'[s].key = k /\ Says(request'[s], row)
  BY <1>3, <1>4, <1>6, <1>7
<1> QED
  BY <1>1, <1>2, <1>4, <1>5, <1>7, <1>8, <1>9, OneKey DEF LinkKey

\* The request that made a key is over, and nobody else speaks of the key.
LEMMA MakerEnds ==
    ASSUME AccessInv, UNCHANGED <<complete, role, assigned, project, seen>>,
           NEW r \in AccessRequests, Making(request[r]), Ends(r),
           NEW row \in KeyRow, RowOK(row), key' = [key EXCEPT ![request[r].key] = row]
    PROVE  AccessInv'
<1>1. request[r].key \in ApiKeys
  BY DEF AccessInv, KeysOK, RequestOK
<1>2. /\ request' \in [AccessRequests -> AccessRequest] /\ request'[r] = NoRequest
      /\ \A s \in AccessRequests \ {r} : request'[s] = request[s]
  BY NoRequestType, AwaitType DEF Ends, AccessInv
<1>3. \A s \in AccessRequests \ {r} : Making(request[s]) => request[s].key # request[r].key
  BY DEF AccessInv, KeysOK, MakingApart
<1>4. MakingApart'
  BY <1>2, NoRequestType, StillApart DEF Making
<1>5. \A s \in AccessRequests :
        \/ /\ request'[s] = request[s]
           /\ Making(request[s]) /\ request[s].key = request[r].key => Says(request[s], row)
        \/ request'[s].at \notin {"hashing", "minted", "linked", "verified"}
  BY <1>2, <1>3, NoRequestType
<1> QED
  BY <1>1, <1>2, <1>4, <1>5, OneKey

LEMMA LinkFailsInv ==
    ASSUME AccessInv, NEW r \in AccessRequests, LinkFails(r)
    PROVE  AccessInv'
<1> DEFINE k == request[r].key
<1>1. /\ k \in ApiKeys /\ key[k] \in KeyRow
      /\ Says(request[r], key[k]) /\ request[r].at = "minted"
  BY DEF AccessInv, AccessTypeOK, KeysOK, RequestOK, LinkFails, Making
<1>2. PICK auth \in {key[k].auth, "deleted"} : key' = [key EXCEPT ![k].auth = auth]
  BY DEF LinkFails
<1> DEFINE row == [key[k] EXCEPT !.auth = auth]
<1>3. row \in KeyRow /\ row.link = key[k].link /\ row.secret = key[k].secret
  BY <1>1, <1>2 DEF KeyRow
<1>4. key' = [key EXCEPT ![k] = row]
  BY <1>2
<1> HIDE DEF row
<1>5. RowOK(row)
  BY <1>1, <1>3 DEF RowOK, Says
<1>6. Making(request[r]) /\ Ends(r) /\ UNCHANGED <<complete, role, assigned, project, seen>>
  BY <1>1 DEF Making, LinkFails
<1> QED
  BY <1>3, <1>4, <1>5, <1>6, MakerEnds

LEMMA SendKeyInv ==
    ASSUME AccessInv, NEW r \in AccessRequests, SendKey(r)
    PROVE  AccessInv'
<1> DEFINE k == request[r].key
           row == [key[k] EXCEPT !.secret = TRUE]
<1>1. /\ k \in ApiKeys /\ key[k] \in KeyRow /\ RowOK(key[k])
      /\ Says(request[r], key[k]) /\ request[r].at = "linked"
  BY DEF AccessInv, AccessTypeOK, KeysOK, RequestOK, SendKey, Making
<1>2. row \in KeyRow /\ row.link = key[k].link /\ row.auth = key[k].auth /\ row.ours = key[k].ours
  BY <1>1 DEF KeyRow
<1>3. key' = [key EXCEPT ![k] = row]
  BY DEF SendKey
<1> HIDE DEF row
<1>4. RowOK(row)
  BY <1>1, <1>2 DEF RowOK, Says
<1>5. Making(request[r]) /\ Ends(r) /\ UNCHANGED <<complete, role, assigned, project, seen>>
  BY <1>1 DEF Making, SendKey
<1> QED
  BY <1>2, <1>3, <1>4, <1>5, MakerEnds

\* A key that no request has a hand in is written.
LEMMA KeyPlane ==
    ASSUME AccessInv, UNCHANGED <<complete, role, assigned, project, seen, request>>,
           NEW k \in ApiKeys, NEW row \in KeyRow, key' = [key EXCEPT ![k] = row], RowOK(row),
           \A s \in AccessRequests :
              Making(request[s]) /\ request[s].key = k => Says(request[s], row)
    PROVE  AccessInv'
<1>1. MakingApart' /\ request' \in [AccessRequests -> AccessRequest]
  BY DEF AccessInv, AccessTypeOK, KeysOK, MakingApart
<1> QED
  BY <1>1, OneKey

LEMMA RevokeKeyInv ==
    ASSUME AccessInv, NEW u \in Users, NEW k \in ApiKeys, RevokeKey(u, k)
    PROVE  AccessInv'
<1> DEFINE row == [key[k] EXCEPT !.auth = "invalid", !.link = "revoked"]
<1>1. RowOK(key[k]) /\ key[k] \in KeyRow /\ key[k].link = "active"
  BY DEF AccessInv, KeysOK, RevokeKey, AccessTypeOK
<1>2. /\ row \in KeyRow /\ row.link = "revoked" /\ row.auth = "invalid"
      /\ row.ours = key[k].ours
  BY <1>1 DEF KeyRow
<1>3. key' = [key EXCEPT ![k] = row]
  BY <1>1 DEF RevokeKey, AccessInv, AccessTypeOK, KeyRow
<1>4. \A s \in AccessRequests : Making(request[s]) => Says(request[s], key[request[s].key])
  BY DEF AccessInv, KeysOK, RequestOK
<1> HIDE DEF row
<1>5. RowOK(row)
  BY <1>1, <1>2 DEF RowOK
<1>6. \A s \in AccessRequests : Making(request[s]) /\ request[s].key = k => Says(request[s], row)
  BY <1>1, <1>2, <1>4 DEF Says
<1> QED
  BY <1>2, <1>3, <1>5, <1>6, KeyPlane DEF RevokeKey

\* What better-auth does to a row that it keeps.
LEMMA RemainsInv ==
    ASSUME AccessInv, NEW k \in ApiKeys, Remains(k),
           UNCHANGED <<complete, role, assigned, project, seen, request>>,
           NEW row \in KeyRow, key' = [key EXCEPT ![k] = row],
           \/ /\ row.auth \in {"valid", "invalid"} /\ row.link = key[k].link
              /\ row.ours = key[k].ours /\ row.secret = key[k].secret
           \/ /\ row.auth = "deleted" /\ row.link = "none"
              /\ row.ours = key[k].ours /\ row.secret = key[k].secret
    PROVE  AccessInv'
<1>1. RowOK(key[k]) /\ key[k].auth \in {"valid", "invalid"}
  BY DEF AccessInv, KeysOK, Remains
<1>2. \A s \in AccessRequests : Making(request[s]) => Says(request[s], key[request[s].key])
  BY DEF AccessInv, KeysOK, RequestOK
<1>3. RowOK(row)
  BY <1>1 DEF RowOK
<1>4. \A s \in AccessRequests : Making(request[s]) /\ request[s].key = k => Says(request[s], row)
  BY <1>1, <1>2 DEF Says
<1> QED
  BY <1>3, <1>4, KeyPlane

LEMMA GoneInv ==
    ASSUME AccessInv, NEW k \in ApiKeys, Remains(k), Gone(k),
           UNCHANGED <<complete, role, assigned, project, seen, request>>
    PROVE  AccessInv'
<1> DEFINE row == [key[k] EXCEPT !.auth = "deleted", !.link = "none"]
<1>1. key[k] \in KeyRow
  BY DEF AccessInv, AccessTypeOK
<1>2. /\ row \in KeyRow /\ row.auth = "deleted" /\ row.link = "none"
      /\ row.ours = key[k].ours /\ row.secret = key[k].secret
  BY <1>1 DEF KeyRow
<1>3. key' = [key EXCEPT ![k] = row]
  BY <1>1 DEF Gone, AccessInv, AccessTypeOK, KeyRow
<1> HIDE DEF row
<1> QED
  BY <1>2, <1>3, RemainsInv

\* better-auth's endpoints, and the clock.
LEMMA AuthInv ==
    ASSUME AccessInv, NEW k \in ApiKeys,
           \/ \E u \in Users : AuthCreates(u, k) \/ AuthUpdates(u, k) \/ AuthDeletes(u, k)
           \/ Expires(k)
    PROVE  AccessInv'
<1>1. key[k] \in KeyRow
  BY DEF AccessInv, AccessTypeOK
<1>2. ASSUME NEW u \in Users, AuthCreates(u, k) PROVE AccessInv'
  <2>1. PICK names \in Projects \union {NoOne} :
          key' = [key EXCEPT ![k] = [NoKey EXCEPT !.auth = "valid", !.secret = TRUE, !.names = names]]
    BY <1>2 DEF AuthCreates
  <2> DEFINE row == [NoKey EXCEPT !.auth = "valid", !.secret = TRUE, !.names = names]
  <2>2. row \in KeyRow /\ row.auth = "valid" /\ row.link = "none" /\ row.ours = FALSE
    BY <2>1 DEF NoKey, KeyRow
  <2>3. \A s \in AccessRequests : Making(request[s]) => request[s].key # k
    BY <1>2 DEF AuthCreates, AccessInv, KeysOK, RequestOK, Says
  <2> HIDE DEF row
  <2>4. RowOK(row)
    BY <2>2 DEF RowOK
  <2> QED
    BY <1>2, <2>1, <2>2, <2>3, <2>4, KeyPlane DEF AuthCreates, row
<1>3. ASSUME NEW auth \in {"valid", "invalid"}, NEW names \in Projects \union {NoOne},
             key' = [key EXCEPT ![k] = [key[k] EXCEPT !.auth = auth, !.names = names]],
             Remains(k), UNCHANGED <<complete, role, assigned, project, seen, request>>
      PROVE  AccessInv'
  <2> DEFINE row == [key[k] EXCEPT !.auth = auth, !.names = names]
  <2>1. /\ row \in KeyRow /\ row.auth = auth /\ row.link = key[k].link
        /\ row.ours = key[k].ours /\ row.secret = key[k].secret
    BY <1>1 DEF KeyRow
  <2>2. key' = [key EXCEPT ![k] = row]
    BY <1>3
  <2> HIDE DEF row
  <2> QED
    BY <1>3, <2>1, <2>2, RemainsInv
<1>4. ASSUME NEW u \in Users, AuthUpdates(u, k) PROVE AccessInv'
  <2>1. PICK auth \in {"valid", "invalid"}, names \in Projects \union {NoOne} :
          key' = [key EXCEPT ![k].auth = auth, ![k].names = names]
    BY <1>4 DEF AuthUpdates
  <2>2. key' = [key EXCEPT ![k] = [key[k] EXCEPT !.auth = auth, !.names = names]]
    BY <1>1, <2>1 DEF AccessInv, AccessTypeOK, KeyRow
  <2> QED
    BY <1>3, <1>4, <2>1, <2>2 DEF AuthUpdates
<1>5. ASSUME NEW u \in Users, AuthDeletes(u, k) PROVE AccessInv'
  BY <1>5, GoneInv DEF AuthDeletes
<1>6. CASE Expires(k)
  <2>1. CASE key' = [key EXCEPT ![k].auth = "invalid"]
    <3>1. key' = [key EXCEPT ![k] = [key[k] EXCEPT !.auth = "invalid", !.names = key[k].names]]
      BY <1>1, <2>1 DEF KeyRow
    <3>2. key[k].names \in Projects \union {NoOne}
      BY <1>1 DEF KeyRow
    <3> QED
      BY <1>3, <1>6, <3>1, <3>2 DEF Expires
  <2>2. CASE Gone(k)
    BY <1>6, <2>2, GoneInv DEF Expires
  <2> QED
    BY <1>6, <2>1, <2>2 DEF Expires
<1> QED
  BY <1>2, <1>4, <1>5, <1>6

-----------------------------------------------------------------------------
(* Memberships and projects.                                               *)

LEMMA ProjectPlane ==
    ASSUME AccessInv, UNCHANGED <<key, request>>
    PROVE  KeysOK'
BY DEF AccessInv, KeysOK, RequestOK, MakingApart

\* What a user may do without touching the projects.
LEMMA MembershipInv ==
    ASSUME AccessInv,
           \/ \E u \in Users, new \in Roles \union {"none"} : ChangeMember(u, new)
           \/ \E u, v \in Users, p \in Projects : Assign(u, p, v) \/ Unassign(u, p, v)
    PROVE  AccessInv'
<1>1. UNCHANGED <<complete, project, seen, key, request>>
  BY DEF ChangeMember, Assign, Unassign
<1>2. complete = TRUE
  BY MembersAfterSetup DEF ChangeMember, Assign, Unassign, Authorized, AccessInv, AccessTypeOK
<1>3. role' \in [Users -> Roles \union {"none"}] /\ assigned' \subseteq Users \X Projects
  <2>1. ASSUME NEW u \in Users, NEW new \in Roles \union {"none"}, ChangeMember(u, new)
        PROVE  role' \in [Users -> Roles \union {"none"}] /\ UNCHANGED assigned
    BY <2>1 DEF ChangeMember, AccessInv, AccessTypeOK
  <2>2. ASSUME NEW u \in Users, NEW v \in Users, NEW p \in Projects,
               Assign(u, p, v) \/ Unassign(u, p, v)
        PROVE  UNCHANGED role /\ assigned' \subseteq Users \X Projects
    BY <2>2 DEF Assign, Unassign, AccessInv, AccessTypeOK
  <2> QED
    BY <2>1, <2>2 DEF AccessInv, AccessTypeOK
<1>4. AccessTypeOK' /\ SeenOK' /\ BeforeSetup'
  BY <1>1, <1>2, <1>3 DEF AccessInv, AccessTypeOK, SeenOK, BeforeSetup
<1> QED
  BY <1>1, <1>4, ProjectPlane DEF AccessInv

\* A project that is written, and what the user who wrote it is sent.
Writes(u, p, row, sent) ==
    /\ project' = [project EXCEPT ![p] = row]
    /\ seen' = [seen EXCEPT ![u] = [seen[u] EXCEPT ![p] = sent]]
    /\ UNCHANGED <<complete, role, assigned, key, request>>
    /\ complete = TRUE
    /\ row.version >= 1 /\ row.state # "absent"
    /\ row.version > project[p].version \/ row = project[p]
    /\ \/ sent = seen[u][p]
       \/ sent.version = row.version /\ sent.edition = row.edition

LEMMA OneProject ==
    ASSUME AccessInv, NEW u \in Users, NEW p \in Projects, NEW row \in ProjectRow, NEW sent \in Edition,
           Writes(u, p, row, sent)
    PROVE  AccessInv'
<1>1. /\ project' \in [Projects -> ProjectRow] /\ project'[p] = row
      /\ \A q \in Projects \ {p} : project'[q] = project[q]
  BY DEF AccessInv, AccessTypeOK, Writes
<1>2. /\ seen' \in [Users -> [Projects -> Edition]]
      /\ \A v \in Users, q \in Projects : seen'[v][q] = IF v = u /\ q = p THEN sent ELSE seen[v][q]
  BY DEF AccessInv, AccessTypeOK, Writes
<1>3. \A v \in Users, q \in Projects :
        /\ seen[v][q].version \in Nat /\ project[q].version \in Nat /\ project'[q].version \in Nat
  BY <1>1 DEF AccessInv, AccessTypeOK, Edition, ProjectRow
<1>4. ASSUME NEW v \in Users, NEW q \in Projects
      PROVE  /\ seen'[v][q].version <= project'[q].version
             /\ project'[q].state = "absent" => project'[q].version = 0
             /\ project'[q].state = "live" => project'[q].version >= 1
             /\ project'[q].state = "live" /\ seen'[v][q].version = project'[q].version
                  => seen'[v][q].edition = project'[q].edition
  <2>1. /\ seen[v][q].version <= project[q].version
        /\ project[q].state = "absent" => project[q].version = 0
        /\ project[q].state = "live" => project[q].version >= 1
        /\ project[q].state = "live" /\ seen[v][q].version = project[q].version
                  => seen[v][q].edition = project[q].edition
    BY DEF AccessInv, SeenOK
  <2>2. CASE q # p
    BY <1>1, <1>2, <2>1, <2>2
  <2>3. CASE q = p
    <3>1. seen'[v][q] = seen[v][q] \/ (seen'[v][q].version = row.version /\ seen'[v][q].edition = row.edition)
      BY <1>2, <2>3 DEF Writes
    <3>2. CASE row = project[p]
      BY <1>1, <1>3, <2>1, <2>3, <3>1, <3>2 DEF Writes
    <3>3. CASE row.version > project[p].version
      BY <1>1, <1>3, <2>1, <2>3, <3>1, <3>3 DEF Writes
    <3> QED
      BY <3>2, <3>3 DEF Writes
  <2> QED
    BY <2>2, <2>3
<1>5. SeenOK'
  BY <1>4 DEF SeenOK
<1> QED
  BY <1>1, <1>2, <1>5, ProjectPlane DEF AccessInv, AccessTypeOK, BeforeSetup, Writes

LEMMA CreateProjectInv ==
    ASSUME AccessInv, NEW u \in Users, NEW p \in Projects, CreateProject(u, p)
    PROVE  AccessInv'
<1>1. complete = TRUE
  BY MembersAfterSetup DEF CreateProject
<1> DEFINE row == FirstEdition(u)
           sent == [version |-> 1, edition |-> 1]
<1>2. /\ row \in ProjectRow /\ sent \in Edition
      /\ row.state = "live" /\ row.version = 1 /\ row.edition = 1
  BY DEF FirstEdition, ProjectRow, Edition
<1>3. project[p].version = 0
  BY DEF AccessInv, SeenOK, CreateProject
<1>4. Writes(u, p, row, sent)
  <2> HIDE DEF row
  <2> QED
    BY <1>1, <1>2, <1>3 DEF CreateProject, Writes, row
<1> HIDE DEF row, sent
<1> QED
  BY <1>2, <1>4, OneProject

LEMMA GetProjectInv ==
    ASSUME AccessInv, NEW u \in Users, NEW p \in Projects, GetProject(u, p)
    PROVE  AccessInv'
<1>1. complete = TRUE
  BY MembersAfterSetup DEF GetProject, Authorized
<1>2. project[p] \in ProjectRow /\ project[p].version >= 1 /\ project[p].state # "absent"
  BY DEF AccessInv, AccessTypeOK, SeenOK, GetProject, Live
<1>3. /\ Shown(p) \in Edition /\ Shown(p).version = project[p].version
      /\ Shown(p).edition = project[p].edition
  BY <1>2 DEF Shown, Edition, ProjectRow
<1>4. project' = [project EXCEPT ![p] = project[p]]
  BY DEF GetProject, AccessInv, AccessTypeOK
<1>5. seen' = [seen EXCEPT ![u] = [seen[u] EXCEPT ![p] = Shown(p)]]
  BY DEF GetProject
<1>6. Writes(u, p, project[p], Shown(p))
  BY <1>1, <1>2, <1>3, <1>4, <1>5 DEF GetProject, Writes
<1> QED
  BY <1>2, <1>3, <1>6, OneProject

LEMMA UpdateProjectInv ==
    ASSUME AccessInv, NEW u \in Users, NEW p \in Projects, UpdateProject(u, p)
    PROVE  AccessInv'
<1>1. complete = TRUE
  BY MembersAfterSetup DEF UpdateProject, Authorized
<1>2. project[p] \in ProjectRow /\ project[p].version >= 1 /\ project[p].state = "live"
  BY DEF AccessInv, AccessTypeOK, SeenOK, UpdateProject, Live
<1> DEFINE row == [project[p] EXCEPT !.version = @ + 1, !.edition = @ + 1, !.by = u]
           sent == [version |-> row.version, edition |-> row.edition]
<1>3. /\ row \in ProjectRow /\ row.version = project[p].version + 1
      /\ row.state = "live" /\ row.edition \in Nat
  <2>1. project[p].version + 1 \in Nat /\ project[p].edition + 1 \in Nat
    BY <1>2 DEF ProjectRow
  <2> QED
    BY <1>2, <2>1, Zenon DEF ProjectRow
<1>4. row.version > project[p].version /\ row.version >= 1 /\ row.version \in Nat
  BY <1>2, <1>3 DEF ProjectRow
<1>5. sent \in Edition /\ sent.version = row.version /\ sent.edition = row.edition
  BY <1>3, <1>4 DEF Edition
<1>6. project' = [project EXCEPT ![p] = row]
      /\ seen' = [seen EXCEPT ![u] = [seen[u] EXCEPT ![p] = sent]]
  BY DEF UpdateProject
<1> HIDE DEF row, sent
<1>7. Writes(u, p, row, sent)
  BY <1>1, <1>3, <1>4, <1>5, <1>6 DEF UpdateProject, Writes
<1> QED
  BY <1>3, <1>5, <1>7, OneProject

LEMMA DeleteProjectInv ==
    ASSUME AccessInv, NEW u \in Users, NEW p \in Projects, DeleteProject(u, p)
    PROVE  AccessInv'
<1>1. complete = TRUE
  BY MembersAfterSetup DEF DeleteProject, Authorized
<1>2. project[p] \in ProjectRow /\ seen[u][p] \in Edition
  BY DEF AccessInv, AccessTypeOK
<1> DEFINE row == [project[p] EXCEPT !.state = "deleted", !.version = @ + 1, !.by = u]
<1>3. row \in ProjectRow /\ row.version = project[p].version + 1 /\ row.state = "deleted"
  <2>1. project[p].version + 1 \in Nat
    BY <1>2 DEF ProjectRow
  <2> QED
    BY <1>2, <2>1, Zenon DEF ProjectRow
<1>4. row.version > project[p].version /\ row.version >= 1
  BY <1>2, <1>3 DEF ProjectRow
<1>5. project' = [project EXCEPT ![p] = row]
  BY <1>2 DEF DeleteProject, AccessInv, AccessTypeOK, ProjectRow
<1>6. seen' = [seen EXCEPT ![u] = [seen[u] EXCEPT ![p] = seen[u][p]]]
  BY DEF DeleteProject, AccessInv, AccessTypeOK
<1> HIDE DEF row
<1>7. Writes(u, p, row, seen[u][p])
  BY <1>1, <1>3, <1>4, <1>5, <1>6 DEF DeleteProject, Writes
<1> QED
  BY <1>2, <1>3, <1>7, OneProject

LEMMA FinishSetupInv ==
    ASSUME AccessInv, NEW r \in AccessRequests, FinishSetup(r)
    PROVE  AccessInv'
<1>1. KeysOK' /\ request' \in [AccessRequests -> AccessRequest]
  BY EndsKeeps DEF FinishSetup
<1>2. CASE complete
  BY <1>1, <1>2, RequestPlane DEF FinishSetup, AccessInv, AccessTypeOK
<1>3. CASE ~complete
  <2>1. PICK p \in Projects :
          /\ complete' = TRUE
          /\ role' = [role EXCEPT ![request[r].by] = "owner"]
          /\ project' = [project EXCEPT ![p] = FirstEdition(request[r].by)]
          /\ assigned' = assigned \union {<<request[r].by, p>>}
    BY <1>3 DEF FinishSetup
  <2>2. request[r].by \in Users
    BY DEF AccessInv, KeysOK, RequestOK, FinishSetup
  <2>3. project' \in [Projects -> ProjectRow]
    BY <2>1, <2>2 DEF AccessInv, AccessTypeOK, ProjectRow, FirstEdition
  <2>4. AccessTypeOK'
    BY <1>1, <2>1, <2>2, <2>3 DEF AccessInv, AccessTypeOK, Roles, FinishSetup
  <2>5. ASSUME NEW u \in Users, NEW q \in Projects
        PROVE  seen[u][q].version = 0 /\ project[q].state = "absent" /\ project[q].version = 0
    BY <1>3 DEF AccessInv, BeforeSetup, SeenOK, AccessTypeOK, Edition
  <2>6. \A q \in Projects : project'[q] = IF q = p THEN FirstEdition(request[r].by) ELSE project[q]
    BY <2>1 DEF AccessInv, AccessTypeOK
  <2>7. SeenOK'
    BY <2>5, <2>6 DEF SeenOK, FinishSetup, FirstEdition
  <2> QED
    BY <1>1, <2>1, <2>4, <2>7 DEF AccessInv, BeforeSetup
<1> QED
  BY <1>2, <1>3 DEF AccessInv, AccessTypeOK

LEMMA AccessInitInv == AccessInit => AccessInv
<1> SUFFICES ASSUME AccessInit PROVE AccessInv
  OBVIOUS
<1>1. AccessTypeOK
  BY DEF AccessInit, AccessTypeOK, ProjectRow, NoProject, NotSeen, Edition, NoKey, KeyRow, NoRequest,
         AccessRequest
<1>2. KeysOK
  BY DEF AccessInit, KeysOK, RowOK, RequestOK, Making, MakingApart, NoKey, NoRequest
<1>3. SeenOK
  BY DEF AccessInit, SeenOK, NotSeen, NoProject
<1> QED
  BY <1>1, <1>2, <1>3 DEF AccessInit, AccessInv, BeforeSetup, NoProject

LEMMA AccessNextInv ==
    ASSUME AccessInv, [AccessNext]_accessVars
    PROVE  AccessInv'
<1>1. CASE UNCHANGED accessVars
  BY <1>1, ProjectPlane DEF accessVars, AccessInv, AccessTypeOK, SeenOK, BeforeSetup
<1> QED
  BY <1>1, BeginSetupInv, FinishSetupInv, BeginKeyInv, EnterByUserInv, KeyMintedInv, VerifyKeyInv,
     LinkKeyInv, LinkFailsInv, SendKeyInv, AuthInv, EnterByKeyInv, RequestEndsInv, MembershipInv, CreateProjectInv, GetProjectInv,
     UpdateProjectInv, DeleteProjectInv, RevokeKeyInv DEF AccessNext

LEMMA AccessInvariant == AccessSpec => []AccessInv
BY AccessInitInv, AccessNextInv, PTL DEF AccessSpec

-----------------------------------------------------------------------------
(* The theorems.                                                           *)

\* The tables, and what the requests carry, hold values of their types.
THEOREM AccessTypes == AccessSpec => []AccessTypeOK
<1>1. AccessInv => AccessTypeOK
  BY DEF AccessInv
<1> QED
  BY <1>1, AccessInvariant, PTL

\* Whatever fails or dies between the two rows of a key, and whatever is done to it at
\* better-auth's own endpoints, a key that ApiKeyService has handed out is listed for its
\* project until its row is gone.
THEOREM KeysAreListed == AccessSpec => []KeysSentAreListed
<1>1. AccessInv => KeysSentAreListed
  BY DEF AccessInv, KeysOK, RowOK, KeysSentAreListed
<1> QED
  BY <1>1, AccessInvariant, PTL

Edited ==
    \A p \in Projects :
        project[p].state = "live" /\ project'[p] # project[p] =>
          LET u == project'[p].by
          IN  /\ u \in Users
              /\ seen[u][p].edition = project[p].edition
              /\ "update" \in AllowedActions[role[u]]

LEMMA EditedStep ==
    ASSUME AccessInv, [AccessNext]_accessVars
    PROVE  Edited
<1> SUFFICES ASSUME NEW p \in Projects, project[p].state = "live", project'[p] # project[p]
             PROVE  LET u == project'[p].by
                    IN  /\ u \in Users
                        /\ seen[u][p].edition = project[p].edition
                        /\ "update" \in AllowedActions[role[u]]
  BY DEF Edited
<1>1. ASSUME NEW u \in Users, UpdateProject(u, p) \/ DeleteProject(u, p)
      PROVE  /\ project'[p].by = u
             /\ seen[u][p].edition = project[p].edition
             /\ "update" \in AllowedActions[role[u]]
  <2>1. seen[u][p].edition = project[p].edition
    BY <1>1 DEF AccessInv, SeenOK, UpdateProject, DeleteProject, Matches
  <2>2. role[u] \in Roles /\ \/ "update" \in AllowedActions[role[u]]
                             \/ "delete" \in AllowedActions[role[u]]
    BY <1>1, NobodyIsAllowedNothing DEF AccessInv, UpdateProject, DeleteProject, Authorized
  <2>3. "update" \in AllowedActions[role[u]]
    BY <2>2 DEF Roles, AllowedActions
  <2>4. project'[p].by = u
    <3>1. project[p] \in ProjectRow /\ project \in [Projects -> ProjectRow]
      BY DEF AccessInv, AccessTypeOK
    <3>2. CASE UpdateProject(u, p)
      <4> DEFINE next == [project[p] EXCEPT !.version = @ + 1, !.edition = @ + 1, !.by = u]
      <4>1. project' = [project EXCEPT ![p] = next] /\ next.by = u
        BY <3>1, <3>2 DEF UpdateProject, ProjectRow
      <4> HIDE DEF next
      <4> QED
        BY <3>1, <4>1
    <3>3. CASE DeleteProject(u, p)
      BY <3>1, <3>3 DEF DeleteProject, ProjectRow
    <3> QED
      BY <1>1, <3>2, <3>3
  <2> QED
    BY <2>1, <2>3, <2>4
<1>2. ASSUME NEW u \in Users, NEW q \in Projects, UpdateProject(u, q) \/ DeleteProject(u, q)
      PROVE  q = p
  BY <1>2 DEF UpdateProject, DeleteProject, AccessInv, AccessTypeOK
<1>3. ASSUME NEW u \in Users, NEW q \in Projects, CreateProject(u, q) PROVE FALSE
  BY <1>3 DEF CreateProject, AccessInv, AccessTypeOK
<1>4. ASSUME NEW r \in AccessRequests, FinishSetup(r) PROVE FALSE
  BY <1>4 DEF FinishSetup, AccessInv, BeforeSetup, AccessTypeOK
<1>5. UNCHANGED project \/ \/ \E u \in Users, q \in Projects : \/ UpdateProject(u, q)
                                                               \/ DeleteProject(u, q)
                                                               \/ CreateProject(u, q)
                           \/ \E r \in AccessRequests : FinishSetup(r)
  BY DEF AccessNext, accessVars, BeginSetup, BeginKey, EnterByUser, KeyMinted, VerifyKey, LinkKey,
         LinkFails, SendKey, EnterByKey, RequestEnds, ChangeMember, Assign, Unassign, GetProject,
         RevokeKey, AuthCreates, AuthUpdates, AuthDeletes, Expires
<1> QED
  BY <1>1, <1>2, <1>3, <1>4, <1>5

\* Whoever replaces an edition of a project has been sent that edition himself.
THEOREM NoLostEdits == AccessSpec => EditsSeeWhatTheyReplace
<1>1. AccessInv /\ [AccessNext]_accessVars => [Edited]_accessVars
  BY EditedStep
<1> QED
  BY <1>1, AccessInvariant, PTL DEF AccessSpec, EditsSeeWhatTheyReplace, Edited

SetupStep ==
    /\ complete => complete' /\ (role' # role => request' = request)
    /\ ~complete /\ complete' =>
         \E u \in Users, p \in Projects :
            /\ role' = [v \in Users |-> IF v = u THEN "owner" ELSE "none"]
            /\ {q \in Projects : project'[q].state = "live"} = {p}
            /\ assigned' = {<<u, p>>}

LEMMA SetupStepHolds ==
    ASSUME AccessInv, [AccessNext]_accessVars
    PROVE  SetupStep
<1>1. \/ UNCHANGED <<complete, role>>
      \/ \E u \in Users, new \in Roles \union {"none"} : ChangeMember(u, new)
      \/ \E r \in AccessRequests : FinishSetup(r)
  <2>1. ASSUME NEW r \in AccessRequests,
               \/ \E u \in Users : BeginSetup(r, u)
               \/ \E u \in Users, p \in Projects : BeginKey(r, u, p) \/ EnterByUser(r, u, p)
               \/ \E k \in ApiKeys : KeyMinted(r, k) \/ VerifyKey(r, k)
               \/ LinkKey(r) \/ LinkFails(r) \/ SendKey(r) \/ EnterByKey(r) \/ RequestEnds(r)
        PROVE  UNCHANGED <<complete, role>>
    BY <2>1 DEF BeginSetup, BeginKey, EnterByUser, KeyMinted, VerifyKey, LinkKey, LinkFails,
                SendKey, EnterByKey, RequestEnds
  <2>2. ASSUME NEW u \in Users, NEW p \in Projects,
               \/ CreateProject(u, p) \/ GetProject(u, p)
               \/ UpdateProject(u, p) \/ DeleteProject(u, p)
               \/ \E v \in Users : Assign(u, p, v) \/ Unassign(u, p, v)
        PROVE  UNCHANGED <<complete, role>>
    BY <2>2 DEF CreateProject, GetProject, UpdateProject, DeleteProject, Assign, Unassign
  <2>3. ASSUME NEW k \in ApiKeys,
               \/ \E u \in Users : \/ RevokeKey(u, k) \/ AuthCreates(u, k)
                                   \/ AuthUpdates(u, k) \/ AuthDeletes(u, k)
               \/ Expires(k)
        PROVE  UNCHANGED <<complete, role>>
    BY <2>3 DEF RevokeKey, AuthCreates, AuthUpdates, AuthDeletes, Expires
  <2>4. UNCHANGED accessVars => UNCHANGED <<complete, role>>
    BY DEF accessVars
  <2> QED
    BY <2>1, <2>2, <2>3, <2>4 DEF AccessNext
<1>2. ASSUME NEW r \in AccessRequests, FinishSetup(r), ~complete PROVE SetupStep
  <2>1. PICK p \in Projects :
          /\ complete' = TRUE
          /\ role' = [role EXCEPT ![request[r].by] = "owner"]
          /\ project' = [project EXCEPT ![p] = FirstEdition(request[r].by)]
          /\ assigned' = assigned \union {<<request[r].by, p>>}
    BY <1>2 DEF FinishSetup
  <2>2. request[r].by \in Users
    BY <1>2 DEF AccessInv, KeysOK, RequestOK, FinishSetup
  <2>3. /\ \A u \in Users : role[u] = "none"
        /\ assigned = {} /\ \A q \in Projects : project[q].state = "absent"
        /\ role \in [Users -> Roles \union {"none"}] /\ project \in [Projects -> ProjectRow]
    BY <1>2 DEF AccessInv, BeforeSetup, AccessTypeOK
  <2>4. role' = [v \in Users |-> IF v = request[r].by THEN "owner" ELSE "none"]
    BY <2>1, <2>2, <2>3
  <2>5. \A q \in Projects : project'[q].state = IF q = p THEN "live" ELSE "absent"
    BY <2>1, <2>3 DEF FirstEdition
  <2>6. {q \in Projects : project'[q].state = "live"} = {p}
    BY <2>5
  <2>7. assigned' = {<<request[r].by, p>>}
    BY <2>1, <2>3
  <2> QED
    BY <1>2, <2>2, <2>4, <2>6, <2>7 DEF SetupStep
<1>3. ASSUME NEW r \in AccessRequests, FinishSetup(r), complete PROVE SetupStep
  BY <1>3 DEF FinishSetup, SetupStep
<1>4. ASSUME NEW u \in Users, NEW new, ChangeMember(u, new) PROVE SetupStep
  BY <1>4 DEF ChangeMember, SetupStep
<1> QED
  BY <1>1, <1>2, <1>3, <1>4 DEF SetupStep

\* However many setups race, one makes one owner and one project.
THEOREM OneSetup == AccessSpec => SetupHappensOnce
<1>1. AccessInv /\ [AccessNext]_accessVars => [SetupStep]_accessVars
  BY SetupStepHolds
<1> QED
  BY <1>1, AccessInvariant, PTL DEF AccessSpec, SetupHappensOnce, SetupStep

EnterStep ==
    \A r \in AccessRequests :
        LET q == request'[r]
        IN  request[r].at # "entered" /\ q.at = "entered" =>
              /\ Live(q.project)
              /\ \/ q.by # NoOne /\ Authorized(q.by, q.project, "upload")
                 \/ /\ q.key # NoOne /\ key[q.key].ours /\ key[q.key].auth # "deleted"
                    /\ key[q.key].link = "active" /\ key[q.key].project = q.project

LEMMA EnterStepHolds ==
    ASSUME AccessInv, [AccessNext]_accessVars
    PROVE  EnterStep
<1> SUFFICES ASSUME NEW r \in AccessRequests,
                    request[r].at # "entered", request'[r].at = "entered"
             PROVE  /\ Live(request'[r].project)
                    /\ \/ /\ request'[r].by # NoOne
                          /\ Authorized(request'[r].by, request'[r].project, "upload")
                       \/ /\ request'[r].key # NoOne
                          /\ key[request'[r].key].ours
                          /\ key[request'[r].key].auth # "deleted"
                          /\ key[request'[r].key].link = "active"
                          /\ key[request'[r].key].project = request'[r].project
  BY DEF EnterStep
<1>1. request \in [AccessRequests -> AccessRequest] /\ request[r] \in AccessRequest
  BY DEF AccessInv, AccessTypeOK
<1>2. \/ \E u \in Users, p \in Projects : EnterByUser(r, u, p)
      \/ EnterByKey(r)
  <2>1. ASSUME NEW s \in AccessRequests, NEW what, Await(s, what), what.at # "entered"
        PROVE  FALSE
    BY <1>1, <2>1 DEF Await
  <2>2. CASE UNCHANGED request
    BY <2>2
  <2>3. ASSUME NEW s \in AccessRequests, Ends(s) PROVE FALSE
    BY <2>1, <2>3, NoRequestType DEF Ends
  <2>4. ASSUME NEW s \in AccessRequests, NEW u \in Users, BeginSetup(s, u) PROVE FALSE
    BY <1>1, <2>4 DEF BeginSetup, Await, NoRequest
  <2>5. ASSUME NEW s \in AccessRequests, NEW u \in Users, NEW p \in Projects, BeginKey(s, u, p)
        PROVE  FALSE
    BY <1>1, <2>5 DEF BeginKey, Await, NoRequest
  <2>6. ASSUME NEW s \in AccessRequests, NEW k \in ApiKeys, VerifyKey(s, k)
        PROVE  FALSE
    BY <1>1, <2>6 DEF VerifyKey, Await, NoRequest
  <2>7. ASSUME NEW s \in AccessRequests, NEW k \in ApiKeys, KeyMinted(s, k)
        PROVE  FALSE
    BY <1>1, <2>7 DEF KeyMinted, Await, AccessRequest
  <2>8. ASSUME NEW s \in AccessRequests,
               LinkFails(s) \/ SendKey(s) \/ FinishSetup(s) \/ RequestEnds(s)
        PROVE  FALSE
    BY <2>3, <2>8 DEF LinkFails, SendKey, FinishSetup, RequestEnds
  <2>11. ASSUME NEW s \in AccessRequests, LinkKey(s) PROVE FALSE
    BY <1>1, <2>11 DEF LinkKey, Await, AccessRequest
  <2>9. ASSUME NEW s \in AccessRequests, s # r,
               \/ EnterByKey(s) \/ \E u \in Users, p \in Projects : EnterByUser(s, u, p)
        PROVE  FALSE
    BY <1>1, <2>9 DEF EnterByKey, EnterByUser, Await, Ends
  <2>10. \/ UNCHANGED request
         \/ \E s \in AccessRequests :
              \/ \E u \in Users : BeginSetup(s, u)
              \/ FinishSetup(s) \/ LinkKey(s) \/ LinkFails(s) \/ SendKey(s) \/ RequestEnds(s)
              \/ \E u \in Users, p \in Projects : BeginKey(s, u, p)
              \/ \E k \in ApiKeys : KeyMinted(s, k) \/ VerifyKey(s, k)
              \/ EnterByKey(s)
              \/ \E u \in Users, p \in Projects : EnterByUser(s, u, p)
    <3>1. CASE UNCHANGED accessVars
      BY <3>1 DEF accessVars
    <3>2. ASSUME NEW u \in Users, NEW p \in Projects,
                 \/ CreateProject(u, p) \/ GetProject(u, p)
                 \/ UpdateProject(u, p) \/ DeleteProject(u, p)
                 \/ \E v \in Users : Assign(u, p, v) \/ Unassign(u, p, v)
          PROVE  UNCHANGED request
      BY <3>2 DEF CreateProject, GetProject, UpdateProject, DeleteProject, Assign, Unassign
    <3>3. ASSUME NEW u \in Users,
                 \/ \E new \in Roles \union {"none"} : ChangeMember(u, new)
                 \/ \E k \in ApiKeys : \/ RevokeKey(u, k) \/ AuthCreates(u, k)
                                       \/ AuthUpdates(u, k) \/ AuthDeletes(u, k)
          PROVE  UNCHANGED request
      BY <3>3 DEF ChangeMember, RevokeKey, AuthCreates, AuthUpdates, AuthDeletes
    <3>4. ASSUME NEW k \in ApiKeys, Expires(k) PROVE UNCHANGED request
      BY <3>4 DEF Expires
    <3> QED
      BY <3>1, <3>2, <3>3, <3>4 DEF AccessNext
  <2> QED
    BY <2>2, <2>4, <2>5, <2>6, <2>7, <2>8, <2>9, <2>10, <2>11
<1>3. ASSUME NEW u \in Users, NEW p \in Projects, EnterByUser(r, u, p)
      PROVE  /\ Live(request'[r].project) /\ request'[r].by # NoOne
             /\ Authorized(request'[r].by, request'[r].project, "upload")
  <2>1. request'[r].by = u /\ request'[r].project = p
    BY <1>1, <1>3 DEF EnterByUser, Await, NoRequest
  <2> QED
    BY <1>3, <2>1, AccessAssumption DEF EnterByUser
<1>4. ASSUME EnterByKey(r)
      PROVE  /\ Live(request'[r].project)
             /\ request'[r].key # NoOne /\ key[request'[r].key].ours
             /\ key[request'[r].key].auth # "deleted"
             /\ key[request'[r].key].link = "active"
             /\ key[request'[r].key].project = request'[r].project
  <2>1. StillLinked(r) /\ Live(request[r].project)
        /\ request' = [request EXCEPT ![r] = [request[r] EXCEPT !.at = "entered"]]
    BY <1>1, <1>4, NoRequestType DEF EnterByKey, Await, Ends
  <2>2. request'[r].key = request[r].key /\ request'[r].project = request[r].project
    BY <1>1, <2>1 DEF AccessRequest
  <2>3. request[r].key \in ApiKeys /\ key[request[r].key].project = request[r].project
    BY <1>4, <2>1 DEF AccessInv, KeysOK, RequestOK, EnterByKey, StillLinked
  <2>4. /\ key[request[r].key].ours /\ key[request[r].key].auth # "deleted"
        /\ key[request[r].key].link = "active"
    BY <2>1, <2>3 DEF AccessInv, KeysOK, RowOK, StillLinked
  <2> QED
    BY <2>1, <2>2, <2>3, <2>4, AccessAssumption
<1> QED
  BY <1>2, <1>3, <1>4

\* An upload enters a live project with the leave its user has at that moment, or by a key
\* made for that project and neither revoked nor deleted at that moment.
THEOREM EntryIsAllowed == AccessSpec => UploadsEnterWithLeave
<1>1. AccessInv /\ [AccessNext]_accessVars => [EnterStep]_accessVars
  BY EnterStepHolds
<1> QED
  BY <1>1, AccessInvariant, PTL DEF AccessSpec, UploadsEnterWithLeave, EnterStep

-----------------------------------------------------------------------------
(* Providers, for any callers, prices and budgets.                         *)

\* A finite set of numbers has a greatest one.
LEMMA Greatest ==
  ASSUME NEW S \in SUBSET Nat, IsFiniteSet(S), S # {}
  PROVE  Max(S) \in S /\ \A x \in S : x <= Max(S)
<1> DEFINE Bad == {T \in FiniteSubsetsOf(S) : T # {} /\ ~ \E m \in T : \A x \in T : m >= x}
<1>1. Bad = {}
  <2> SUFFICES ASSUME Bad # {} PROVE FALSE
    OBVIOUS
  <2>1. PICK T \in Bad : \A U \in Bad : ~ (<<U, T>> \in StrictSubsetOrdering(S))
    <3> HIDE DEF Bad
    <3>1. Bad \subseteq FiniteSubsetsOf(S)
      BY DEF Bad
    <3> QED
      BY <3>1, FS_StrictSubsetOrderingWellFounded, WFMin
  <2>2. T \subseteq S /\ IsFiniteSet(T) /\ T # {} /\ ~ \E m \in T : \A x \in T : m >= x
    BY DEF FiniteSubsetsOf
  <2>3. PICK y \in T : TRUE
    BY <2>2
  <2> DEFINE U == T \ {y}
  <2>4. U \in FiniteSubsetsOf(S)
    BY <2>2, FS_RemoveElement DEF FiniteSubsetsOf
  <2>5. <<U, T>> \in StrictSubsetOrdering(S)
    BY <2>2, <2>3, <2>4 DEF StrictSubsetOrdering, FiniteSubsetsOf
  <2>6. U \notin Bad
    BY <2>1, <2>5
  <2>7. CASE U = {}
    <3>1. \A x \in T : x = y
      BY <2>7
    <3> QED
      BY <2>2, <2>3, <3>1
  <2>8. CASE U # {}
    <3>1. PICK m \in U : \A x \in U : m >= x
      BY <2>4, <2>6, <2>8
    <3>2. m \in Nat /\ y \in Nat /\ T \subseteq Nat
      BY <2>2, <2>3, <3>1
    <3>3. CASE m >= y
      <4>1. \A x \in T : m >= x
        BY <3>1, <3>3
      <4> QED
        BY <2>2, <3>1, <4>1
    <3>4. CASE ~(m >= y)
      <4>1. \A x \in T : y >= x
        BY <3>1, <3>2, <3>4
      <4> QED
        BY <2>2, <2>3, <4>1
    <3> QED
      BY <3>3, <3>4
  <2> QED
    BY <2>7, <2>8
<1>2. S \in FiniteSubsetsOf(S)
  BY DEF FiniteSubsetsOf
<1>3. \E m \in S : \A x \in S : m >= x
  BY <1>1, <1>2
<1>4. Max(S) \in S /\ \A x \in S : Max(S) >= x
  BY <1>3 DEF Max
<1> QED
  BY <1>4

LEMMA Multiples ==
  ASSUME NEW n \in Nat, NEW k \in Nat, NEW m \in Nat, n <= k
  PROVE  /\ n * m \in Nat /\ k * m \in Nat
         /\ n * m <= k * m
         /\ n < k => n * m + m <= k * m
<1>1. /\ n * m \in Nat /\ k * m \in Nat
  OBVIOUS
<1>2. ASSUME NEW d \in Nat PROVE d * m >= 0 /\ (n + d) * m = n * m + d * m /\ (n + 1) * m = n * m + m
  OBVIOUS
<1>3. k - n \in Nat /\ k = n + (k - n)
  OBVIOUS
<1>4. n * m <= k * m
  <2> DEFINE d == k - n
  <2>1. d * m >= 0 /\ (n + d) * m = n * m + d * m
    BY <1>2, <1>3
  <2>2. n + d = k
    OBVIOUS
  <2>3. k * m = n * m + d * m
    BY <2>1, <2>2
  <2>4. d * m \in Nat
    BY <1>3
  <2> HIDE DEF d
  <2> QED
    BY <1>1, <2>1, <2>3, <2>4
<1>5. ASSUME n < k PROVE n * m + m <= k * m
  <2> DEFINE d == k - (n + 1)
  <2>1. d \in Nat /\ k = (n + 1) + d
    BY <1>5
  <2>2. ((n + 1) + d) * m = (n + 1) * m + d * m /\ (n + 1) * m = n * m + m
    BY <2>1
  <2>3. d * m \in Nat
    BY <2>1
  <2>4. k * m = (n * m + m) + d * m
    BY <2>1, <2>2
  <2> HIDE DEF d
  <2> QED
    BY <1>1, <2>3, <2>4
<1> QED
  BY <1>1, <1>4, <1>5

\* Callers have read a budget that the settings name.
ProviderTypeOK ==
    /\ spend \in Nat /\ judged \in Nat
    /\ budget \in Budgets
    /\ calling \in [Callers -> Caller]
    /\ \A c \in Callers : calling[c].allowance \in Budgets

\* The calls that compared before they were made.
Checked == {c \in Asking : ~Judging(c)}

\* What is spent, with the most that the compared calls under way may cost, is within the
\* bound: they are admitted below the budget, there are only so many callers, and what an
\* evaluation has been charged is in the bound already.
Committed ==
    MaxCost > 0 =>
      spend + Cardinality(Checked) * MaxCost
        < Max(Budgets) + (Cardinality(Callers) + judged) * MaxCost

ProviderInv == ProviderTypeOK /\ Committed

LEMMA AskersAreCallers ==
  IsFiniteSet(Checked) /\ Cardinality(Checked) \in Nat /\ Cardinality(Checked) <= Cardinality(Callers)
  /\ Cardinality(Callers) \in Nat
<1>1. Checked \in SUBSET Callers
  BY DEF Checked, Asking
<1> QED
  BY <1>1, ProviderAssumption, FS_Subset, FS_CardinalityType

LEMMA BudgetsAreNumbers == Budgets \subseteq Nat \ {0} /\ Max(Budgets) \in Nat /\ \A b \in Budgets : b <= Max(Budgets)
<1>1. Budgets \in SUBSET Nat /\ IsFiniteSet(Budgets) /\ Budgets # {}
  BY ProviderAssumption
<1> QED
  BY <1>1, Greatest, ProviderAssumption

LEMMA PositiveBudget == Max(Budgets) > 0
<1>1. PICK b \in Budgets : TRUE
  BY ProviderAssumption
<1>2. b \in Nat /\ b > 0 /\ b <= Max(Budgets)
  BY <1>1, BudgetsAreNumbers
<1> QED
  BY <1>2, BudgetsAreNumbers

\* A step after which less is spent than the budget leaves the calls' cost covered: the
\* bound has room for all of them.
LEMMA BelowTheBudget ==
  ASSUME spend' \in Nat, judged' \in Nat, spend' < Max(Budgets)
  PROVE  Committed'
<1>1. MaxCost \in Nat /\ Max(Budgets) \in Nat
  BY ProviderAssumption, BudgetsAreNumbers
<1>2. Checked' \in SUBSET Callers
  BY DEF Checked, Asking
<1>3. /\ Cardinality(Checked') \in Nat /\ Cardinality(Callers) \in Nat
      /\ Cardinality(Checked') <= Cardinality(Callers) + judged'
  <2>1. Cardinality(Checked') \in Nat /\ Cardinality(Checked') <= Cardinality(Callers)
        /\ Cardinality(Callers) \in Nat
    BY <1>2, ProviderAssumption, FS_Subset, FS_CardinalityType
  <2> QED
    BY <2>1
<1> DEFINE then == Cardinality(Checked') * MaxCost
           all == (Cardinality(Callers) + judged') * MaxCost
<1>4. then <= all /\ then \in Nat /\ all \in Nat
  <2>1. Cardinality(Callers) + judged' \in Nat
    BY <1>3
  <2> QED
    BY <1>1, <1>3, <2>1, Multiples
<1>5. spend' + then < Max(Budgets) + all
  <2> HIDE DEF then, all
  <2> QED
    BY <1>1, <1>4
<1> QED
  BY <1>5 DEF Committed

\* A step that charges nothing and lets nobody in leaves it covered as well.
LEMMA NobodyEnters ==
  ASSUME Committed, spend \in Nat, judged \in Nat, spend' = spend, judged' = judged,
         Checked' \subseteq Checked
  PROVE  Committed'
<1>1. Checked' \in SUBSET Checked /\ IsFiniteSet(Checked')
  BY AskersAreCallers, FS_Subset
<1>2. Cardinality(Checked') \in Nat /\ Cardinality(Checked') <= Cardinality(Checked)
  BY <1>1, AskersAreCallers, FS_Subset, FS_CardinalityType
<1>3. MaxCost \in Nat
  BY ProviderAssumption
<1> DEFINE now == Cardinality(Checked) * MaxCost
           then == Cardinality(Checked') * MaxCost
           all == (Cardinality(Callers) + judged) * MaxCost
<1>4. then <= now /\ now \in Nat /\ then \in Nat
  BY <1>2, <1>3, AskersAreCallers, Multiples
<1>5. all \in Nat
  BY <1>3, AskersAreCallers
<1>6. MaxCost > 0 => spend + now < Max(Budgets) + all
  BY DEF Committed
<1>7. MaxCost > 0 => spend' + then < Max(Budgets) + all
  <2> HIDE DEF now, then, all
  <2> QED
    BY <1>4, <1>5, <1>6, BudgetsAreNumbers
<1> QED
  BY <1>7 DEF Committed

LEMMA ProviderInitInv == ProviderInit => ProviderInv
<1> SUFFICES ASSUME ProviderInit PROVE ProviderInv
  OBVIOUS
<1>1. ProviderTypeOK
  BY BudgetsAreNumbers DEF ProviderInit, ProviderTypeOK, Caller
<1>2. Checked = {}
  BY DEF ProviderInit, Checked, Asking
<1>3. Cardinality(Checked) = 0
  BY <1>2, FS_EmptySet
<1>4. Max(Budgets) > 0
  BY PositiveBudget
<1>5. Committed
  <2>1. spend = 0 /\ judged = 0 /\ MaxCost \in Nat
    BY ProviderAssumption DEF ProviderInit
  <2>2. (Cardinality(Callers) + judged) * MaxCost \in Nat
    BY <2>1, AskersAreCallers, Multiples
  <2>3. Cardinality(Checked) * MaxCost = 0
    BY <1>3, <2>1
  <2> QED
    BY <1>4, <2>1, <2>2, <2>3, BudgetsAreNumbers DEF Committed
<1> QED
  BY <1>1, <1>5 DEF ProviderInv

\* What a step may write of one caller.
LEMMA OneCaller ==
  ASSUME ProviderInv, NEW c \in Callers, NEW b \in Caller, b.allowance \in Budgets,
         calling' = [calling EXCEPT ![c] = b]
  PROVE  /\ calling' \in [Callers -> Caller]
         /\ \A k \in Callers : calling'[k].allowance \in Budgets
         /\ ~(b.at = "asking" /\ b.left = 0) => Checked' \subseteq Checked \ {c}
<1>1. \A k \in Callers : calling'[k] = IF k = c THEN b ELSE calling[k]
  BY DEF ProviderInv, ProviderTypeOK
<1>2. b.left \in Nat
  BY DEF Caller
<1>3. ASSUME ~(b.at = "asking" /\ b.left = 0) PROVE Checked' \subseteq Checked \ {c}
  BY <1>1, <1>2, <1>3 DEF Checked, Asking, Judging
<1> QED
  BY <1>1, <1>3 DEF ProviderInv, ProviderTypeOK

LEMMA AskInv ==
  ASSUME ProviderInv, NEW c \in Callers, Ask(c)
  PROVE  ProviderInv'
<1>1. /\ calling[c].allowance \in Budgets /\ calling[c] \in Caller
      /\ spend \in Nat /\ judged \in Nat /\ budget \in Budgets
  BY DEF ProviderInv, ProviderTypeOK
<1>2. UNCHANGED <<spend, judged, budget>>
  BY DEF Ask, Asks
<1> DEFINE b == [calling[c] EXCEPT !.at = "asking", !.age = 0]
<1>3. b \in Caller /\ b.allowance = calling[c].allowance
  BY <1>1 DEF Caller
<1>4. calling' = [calling EXCEPT ![c] = b]
  BY DEF Ask, Asks, ProviderInv, ProviderTypeOK
<1> HIDE DEF b
<1>5. ProviderTypeOK'
  BY <1>1, <1>2, <1>3, <1>4, OneCaller DEF ProviderTypeOK
<1>6. ASSUME MaxCost > 0 PROVE Committed'
  <2>1. spend < calling[c].allowance
    BY <1>6, ProviderAssumption DEF Ask, WithinBudget
  <2>2. spend < Max(Budgets)
    <3>1. PICK limit \in Budgets : limit = calling[c].allowance
      BY <1>1
    <3>2. limit \in Nat /\ limit <= Max(Budgets) /\ spend < limit
      BY <2>1, <3>1, BudgetsAreNumbers
    <3> QED
      BY <1>1, <3>2, BudgetsAreNumbers
  <2> QED
    BY <1>1, <1>2, <2>2, BelowTheBudget
<1>7. Committed'
  BY <1>6 DEF Committed
<1> QED
  BY <1>5, <1>7 DEF ProviderInv

LEMMA ReturnedType ==
  ASSUME ProviderInv, NEW c \in Callers, NEW left \in Nat, Returned(c, left)
  PROVE  /\ calling' \in [Callers -> Caller]
         /\ \A k \in Callers : calling'[k].allowance \in Budgets
         /\ Checked' \subseteq Checked \ {c}
<1>1. calling[c].allowance \in Budgets /\ calling[c] \in Caller
  BY DEF ProviderInv, ProviderTypeOK
<1> DEFINE b == [calling[c] EXCEPT !.at = "idle", !.age = 0, !.left = left]
<1>2. b \in Caller /\ b.allowance = calling[c].allowance /\ b.at = "idle"
  BY <1>1 DEF Caller
<1>3. calling' = [calling EXCEPT ![c] = b]
  BY DEF Returned, ProviderInv, ProviderTypeOK
<1> HIDE DEF b
<1> QED
  BY <1>1, <1>2, <1>3, OneCaller

LEMMA AnsweredInv ==
  ASSUME ProviderInv, NEW c \in Callers, Answered(c)
  PROVE  ProviderInv'
<1>1. /\ Returned(c, Left(calling[c].left, 1)) /\ calling[c].at = "asking" /\ budget' = budget
      /\ judged' = IF Judging(c) THEN judged + 1 ELSE judged
  BY DEF Answered
<1>2. Left(calling[c].left, 1) \in Nat
  BY DEF ProviderInv, ProviderTypeOK, Caller, Left
<1>3. PICK cost \in 0 .. MaxCost : spend' = spend + cost
  BY DEF Answered
<1>4. MaxCost \in Nat /\ cost \in Nat /\ cost <= MaxCost /\ spend \in Nat /\ judged \in Nat
  BY <1>3, ProviderAssumption DEF ProviderInv, ProviderTypeOK
<1>5. /\ calling' \in [Callers -> Caller] /\ Checked' \subseteq Checked \ {c}
      /\ \A k \in Callers : calling'[k].allowance \in Budgets
  BY <1>1, <1>2, ReturnedType
<1>6. ProviderTypeOK'
  BY <1>1, <1>3, <1>4, <1>5 DEF ProviderInv, ProviderTypeOK
<1>7. Checked' \in SUBSET Checked /\ IsFiniteSet(Checked')
  BY <1>5, AskersAreCallers, FS_Subset
<1> DEFINE n == Cardinality(Checked)
           m == Cardinality(Checked')
           N == Cardinality(Callers) + judged
<1>8. n \in Nat /\ m \in Nat /\ N \in Nat /\ m <= n
  BY <1>4, <1>7, AskersAreCallers, FS_Subset, FS_CardinalityType
<1>9. MaxCost > 0 => spend + n * MaxCost < Max(Budgets) + N * MaxCost
  BY DEF ProviderInv, Committed
<1>10. n * MaxCost \in Nat /\ m * MaxCost \in Nat /\ N * MaxCost \in Nat /\ m * MaxCost <= n * MaxCost
  BY <1>4, <1>8, Multiples
<1>11. CASE Judging(c)
  <2>1. Cardinality(Callers) + judged' = N + 1
    BY <1>1, <1>4, <1>11, AskersAreCallers
  <2>2. (N + 1) * MaxCost \in Nat /\ N * MaxCost + MaxCost <= (N + 1) * MaxCost
    BY <1>4, <1>8, Multiples
  <2>3. MaxCost > 0 => spend' + m * MaxCost < Max(Budgets) + (N + 1) * MaxCost
    <3> DEFINE x == n * MaxCost  y == m * MaxCost  z == N * MaxCost  w == (N + 1) * MaxCost
    <3>1. /\ x \in Nat /\ y \in Nat /\ z \in Nat /\ w \in Nat /\ y <= x /\ z + MaxCost <= w
          /\ MaxCost > 0 => spend + x < Max(Budgets) + z
      BY <1>9, <1>10, <2>2
    <3> HIDE DEF x, y, z, w
    <3>2. MaxCost > 0 => spend' + y < Max(Budgets) + w
      BY <1>3, <1>4, <3>1, BudgetsAreNumbers
    <3> QED
      BY <3>2 DEF y, w
  <2>4. Committed'
    BY <2>1, <2>3 DEF Committed
  <2> QED
    BY <1>6, <2>4 DEF ProviderInv
<1>12. CASE ~Judging(c)
  <2>1. c \in Checked
    BY <1>1, <1>12 DEF Checked, Asking
  <2>2. m < n
    <3>1. IsFiniteSet(Checked \ {c}) /\ Cardinality(Checked \ {c}) = n - 1
      BY <2>1, AskersAreCallers, FS_RemoveElement
    <3>2. m <= Cardinality(Checked \ {c})
      BY <1>5, <3>1, FS_Subset
    <3> QED
      BY <1>8, <3>1, <3>2
  <2>3. m * MaxCost + MaxCost <= n * MaxCost
    BY <1>4, <1>8, <2>2, Multiples
  <2>4. Cardinality(Callers) + judged' = N
    BY <1>1, <1>12
  <2>5. MaxCost > 0 => spend' + m * MaxCost < Max(Budgets) + N * MaxCost
    <3> DEFINE x == n * MaxCost  y == m * MaxCost  z == N * MaxCost
    <3>1. /\ x \in Nat /\ y \in Nat /\ z \in Nat /\ y + MaxCost <= x
          /\ MaxCost > 0 => spend + x < Max(Budgets) + z
      BY <1>9, <1>10, <2>3
    <3> HIDE DEF x, y, z
    <3>2. MaxCost > 0 => spend' + y < Max(Budgets) + z
      BY <1>3, <1>4, <3>1, BudgetsAreNumbers
    <3> QED
      BY <3>2 DEF y, z
  <2>6. Committed'
    BY <2>4, <2>5 DEF Committed
  <2> QED
    BY <1>6, <2>6 DEF ProviderInv
<1> QED
  BY <1>11, <1>12

\* A call of an evaluation was not compared.
LEMMA EvaluationInv ==
  ASSUME ProviderInv, NEW c \in Callers, BeginEvaluation(c) \/ Judge(c) \/ EvaluationFails(c)
  PROVE  ProviderInv'
<1>1. /\ calling[c].allowance \in Budgets /\ calling[c] \in Caller
      /\ spend \in Nat /\ judged \in Nat /\ budget \in Budgets /\ calling[c].left \in Nat
  BY DEF ProviderInv, ProviderTypeOK, Caller
<1>2. UNCHANGED <<spend, judged, budget>>
  BY DEF BeginEvaluation, Judge, Asks, EvaluationFails
<1>3. PICK b \in Caller : /\ b.allowance = calling[c].allowance /\ (b.at = "idle" \/ b.left > 0)
                          /\ calling' = [calling EXCEPT ![c] = b]
  <2>1. CASE BeginEvaluation(c)
    <3>1. PICK n \in 1 .. Queries : calling' = [calling EXCEPT ![c].left = n]
      BY <2>1 DEF BeginEvaluation
    <3> DEFINE b == [calling[c] EXCEPT !.left = n]
    <3>2. b \in Caller /\ b.allowance = calling[c].allowance /\ b.at = "idle"
      BY <1>1, <2>1, <3>1, ProviderAssumption DEF Caller, BeginEvaluation, Resting
    <3>3. calling' = [calling EXCEPT ![c] = b]
      BY <3>1
    <3> QED
      BY <3>2, <3>3
  <2>2. CASE Judge(c)
    <3> DEFINE b == [calling[c] EXCEPT !.at = "asking", !.age = 0]
    <3>1. b \in Caller /\ b.allowance = calling[c].allowance /\ b.left > 0
      BY <1>1, <2>2 DEF Caller, Judge, Judging
    <3>2. calling' = [calling EXCEPT ![c] = b]
      BY <2>2 DEF Judge, Asks, ProviderInv, ProviderTypeOK
    <3> QED
      BY <3>1, <3>2
  <2>3. CASE EvaluationFails(c)
    <3> DEFINE b == [calling[c] EXCEPT !.left = 0]
    <3>1. b \in Caller /\ b.allowance = calling[c].allowance /\ b.at = "idle"
      BY <1>1, <2>3 DEF Caller, EvaluationFails, Resting
    <3>2. calling' = [calling EXCEPT ![c] = b]
      BY <2>3 DEF EvaluationFails
    <3> QED
      BY <3>1, <3>2
  <2> QED
    BY <2>1, <2>2, <2>3
<1>4. /\ calling' \in [Callers -> Caller] /\ Checked' \subseteq Checked
      /\ \A k \in Callers : calling'[k].allowance \in Budgets
  <2>1. ~(b.at = "asking" /\ b.left = 0) /\ b.allowance \in Budgets
    BY <1>1, <1>3
  <2> QED
    BY <1>3, <2>1, OneCaller
<1>5. ProviderTypeOK'
  BY <1>1, <1>2, <1>4 DEF ProviderTypeOK
<1> QED
  BY <1>1, <1>2, <1>4, <1>5, NobodyEnters DEF ProviderInv

LEMMA ProviderNextInv == ProviderInv /\ [ProviderNext]_providerVars => ProviderInv'
<1> SUFFICES ASSUME ProviderInv, [ProviderNext]_providerVars PROVE ProviderInv'
  OBVIOUS
<1>0. /\ spend \in Nat /\ judged \in Nat /\ budget \in Budgets /\ calling \in [Callers -> Caller]
      /\ \A c \in Callers : calling[c].allowance \in Budgets /\ calling[c] \in Caller
  BY DEF ProviderInv, ProviderTypeOK
<1>1. ASSUME UNCHANGED <<spend, judged>>, Checked' \subseteq Checked, ProviderTypeOK'
      PROVE  ProviderInv'
  BY <1>0, <1>1, NobodyEnters DEF ProviderInv
<1>2. ASSUME NEW c \in Callers, ReadSettings(c) PROVE ProviderInv'
  <2> DEFINE b == [calling[c] EXCEPT !.allowance = budget]
  <2>1. b \in Caller /\ b.allowance \in Budgets /\ b.at = "idle"
    BY <1>0, <1>2, BudgetsAreNumbers DEF Caller, ReadSettings, Resting
  <2>2. calling' = [calling EXCEPT ![c] = b]
    BY <1>0, <1>2 DEF ReadSettings
  <2> HIDE DEF b
  <2>3. /\ calling' \in [Callers -> Caller] /\ Checked' \subseteq Checked
        /\ \A k \in Callers : calling'[k].allowance \in Budgets
    BY <2>1, <2>2, OneCaller
  <2>4. UNCHANGED <<spend, judged, budget>>
    BY <1>2 DEF ReadSettings
  <2> QED
    BY <1>0, <1>1, <2>3, <2>4 DEF ProviderTypeOK
<1>3. ASSUME NEW c \in Callers, Ask(c) PROVE ProviderInv'
  BY <1>3, AskInv
<1>4. ASSUME NEW c \in Callers, Answered(c) PROVE ProviderInv'
  BY <1>4, AnsweredInv
<1>5. ASSUME NEW c \in Callers, Unavailable(c) \/ TimedOut(c) \/ TakenBack(c) PROVE ProviderInv'
  <2>1. Returned(c, 0) /\ UNCHANGED <<spend, judged, budget>>
    BY <1>5 DEF Unavailable, TimedOut, TakenBack, Failed
  <2>2. ProviderTypeOK' /\ Checked' \subseteq Checked
    BY <1>0, <2>1, ReturnedType DEF ProviderTypeOK
  <2> QED
    BY <1>1, <2>1, <2>2
<1>6. ASSUME Restarted PROVE ProviderInv'
  <2> DEFINE dead(c) == [calling[c] EXCEPT !.at = "idle", !.age = 0, !.left = 0]
  <2>1. \A c \in Callers : /\ dead(c) \in Caller /\ dead(c).at = "idle"
                           /\ dead(c).allowance = calling[c].allowance
    BY <1>0 DEF Caller
  <2>2. calling' = [c \in Callers |-> dead(c)] /\ UNCHANGED <<spend, judged, budget>>
    BY <1>6 DEF Restarted
  <2> HIDE DEF dead
  <2>3. ProviderTypeOK'
    BY <1>0, <2>1, <2>2 DEF ProviderTypeOK
  <2>4. \A c \in Callers : calling'[c].at = "idle"
    BY <2>1, <2>2
  <2>5. Checked' \subseteq Checked
    BY <2>4 DEF Checked, Asking
  <2> QED
    BY <1>1, <2>2, <2>3, <2>5
<1>7. ASSUME ProviderClock PROVE ProviderInv'
  <2> DEFINE older(c) == IF c \in Asking THEN [calling[c] EXCEPT !.age = @ + 1] ELSE calling[c]
  <2>1. \A c \in Callers : /\ older(c) \in Caller /\ older(c).at = calling[c].at
                           /\ older(c).allowance = calling[c].allowance
                           /\ older(c).left = calling[c].left
    BY <1>0 DEF Caller
  <2>2. calling' = [c \in Callers |-> older(c)] /\ UNCHANGED <<spend, judged, budget>>
    BY <1>7 DEF ProviderClock
  <2> HIDE DEF older
  <2>3. ProviderTypeOK'
    BY <1>0, <2>1, <2>2 DEF ProviderTypeOK
  <2>4. \A c \in Callers : calling'[c].at = calling[c].at /\ calling'[c].left = calling[c].left
    BY <2>1, <2>2
  <2>5. Checked' \subseteq Checked
    BY <2>4 DEF Checked, Asking, Judging
  <2> QED
    BY <1>1, <2>2, <2>3, <2>5
<1>8. CASE MonthBegins
  <2>1. spend' = 0 /\ judged' = 0 /\ ProviderTypeOK'
    BY <1>0, <1>8 DEF MonthBegins, ProviderTypeOK
  <2> QED
    BY <2>1, PositiveBudget, BelowTheBudget DEF ProviderInv
<1>9. CASE UpdateBudget
  <2>1. UNCHANGED <<spend, judged>> /\ Checked' = Checked /\ ProviderTypeOK'
    BY <1>0, <1>9 DEF UpdateBudget, Checked, Asking, Judging, ProviderTypeOK
  <2> QED
    BY <1>1, <2>1
<1>10. CASE (\E changed \in BOOLEAN : Outage(changed)) \/ UNCHANGED providerVars
  <2>1. UNCHANGED <<spend, judged>> /\ Checked' = Checked /\ ProviderTypeOK'
    BY <1>0, <1>10 DEF Outage, providerVars, Checked, Asking, Judging, ProviderTypeOK
  <2> QED
    BY <1>1, <2>1
<1>11. ASSUME NEW c \in Callers, BeginEvaluation(c) \/ Judge(c) \/ EvaluationFails(c)
       PROVE  ProviderInv'
  BY <1>11, EvaluationInv
<1> QED
  BY <1>2, <1>3, <1>4, <1>5, <1>6, <1>7, <1>8, <1>9, <1>10, <1>11 DEF ProviderNext

\* Whoever compares and whoever is charged first, and however the budget changes
\* meanwhile, the month is overspent by less than one call of each caller and the
\* queries that evaluations have been charged for.
THEOREM SpendingIsBounded == ProviderSpec => []SpendIsBounded
<1>1. ProviderInv => SpendIsBounded
  <2> SUFFICES ASSUME ProviderInv, MaxCost > 0
               PROVE  spend < Max(Budgets) + (Cardinality(Callers) + judged) * MaxCost
    BY DEF SpendIsBounded
  <2>1. MaxCost \in Nat /\ spend \in Nat /\ judged \in Nat
    BY ProviderAssumption DEF ProviderInv, ProviderTypeOK
  <2> DEFINE now == Cardinality(Checked) * MaxCost
             all == (Cardinality(Callers) + judged) * MaxCost
  <2>2. now \in Nat /\ all \in Nat
    BY <2>1, AskersAreCallers, Multiples
  <2>3. spend + now < Max(Budgets) + all
    BY DEF ProviderInv, Committed
  <2> HIDE DEF now, all
  <2>4. spend < Max(Budgets) + all
    BY <2>1, <2>2, <2>3, BudgetsAreNumbers
  <2> QED
    BY <2>4 DEF all
<1> QED
  BY <1>1, ProviderInitInv, ProviderNextInv, PTL DEF ProviderSpec

-----------------------------------------------------------------------------
(* The grammar.                                                            *)

\* A canonical specification says of a plan what differs from the default, but for what
\* the grammar takes to be without effect.
LEMMA CanonicalPlan ==
  ASSUME NEW plan
  PROVE  PlanOf(Canonical(plan)) =
           [n \in OperationNames |-> IF Spelled(plan, n) THEN plan[n] ELSE Default[n]]
BY DEF PlanOf, Canonical

\* Spelling what has been read of a canonical specification gives it back.
LEMMA CanonicalIsFixed ==
  ASSUME NEW plan
  PROVE  Canonical(PlanOf(Canonical(plan))) = Canonical(plan)
<1> DEFINE again == PlanOf(Canonical(plan))
<1>1. \A n \in OperationNames : again[n] = IF Spelled(plan, n) THEN plan[n] ELSE Default[n]
  BY CanonicalPlan
<1>2. {"w", "h", "f", "fit", "g", "q"} \subseteq OperationNames
  BY DEF OperationNames, Lengths
<1> HIDE DEF again
<1>3. (again["w"] # 0 <=> plan["w"] # 0) /\ (again["h"] # 0 <=> plan["h"] # 0)
  BY <1>1, <1>2 DEF Spelled, Default
<1>4. Sized(again) <=> Sized(plan)
  BY <1>3 DEF Sized
<1>5. again["f"] = plan["f"]
  BY <1>1, <1>2 DEF Spelled, Default
<1>6. \A n \in OperationNames : Spelled(again, n) <=> Spelled(plan, n)
  <2> SUFFICES ASSUME NEW n \in OperationNames PROVE Spelled(again, n) <=> Spelled(plan, n)
    OBVIOUS
  <2>1. CASE n \in {"fit", "g"}
    BY <1>1, <1>4, <2>1 DEF Spelled
  <2>2. CASE n = "q"
    BY <1>1, <1>5, <2>2 DEF Spelled
  <2>3. CASE n \notin {"fit", "g", "q"}
    BY <1>1, <2>3 DEF Spelled
  <2> QED
    BY <2>1, <2>2, <2>3
<1>7. \A n \in OperationNames : Spelled(plan, n) => again[n] = plan[n]
  BY <1>1
<1>8. {m \in OperationNames : Spelled(again, m)} = {m \in OperationNames : Spelled(plan, m)}
  BY <1>6
<1>9. [n \in {m \in OperationNames : Spelled(again, m)} |-> again[n]]
        = [n \in {m \in OperationNames : Spelled(plan, m)} |-> plan[n]]
  BY <1>7, <1>8
<1>10. Canonical(again) = Canonical(plan)
  BY <1>9 DEF Canonical
<1> QED
  BY <1>10 DEF again

\* What is given explicitly and read is kept by the canonical specification, whose plan
\* is therefore the same.
LEMMA CanonicalSaysThePlan ==
  ASSUME NEW d, Readable(d)
  PROVE  PlanOf(Canonical(PlanOf(d))) = PlanOf(d)
<1> DEFINE plan == PlanOf(d)
<1>1. plan = [n \in OperationNames |-> IF n \in DOMAIN d.given THEN d.given[n] ELSE Default[n]]
  BY DEF PlanOf
<1>2. /\ {"fit", "g"} \intersect DOMAIN d.given # {} => Sized(plan)
      /\ "q" \in DOMAIN d.given => plan["f"] \notin {"source", "png"}
  BY DEF Readable
<1> HIDE DEF plan
<1>3. ASSUME NEW n \in OperationNames, ~Spelled(plan, n)
      PROVE  plan[n] = Default[n]
  <2>1. CASE n \in {"fit", "g"}
    <3>1. CASE Sized(plan)
      BY <1>3, <2>1, <3>1 DEF Spelled
    <3>2. CASE ~Sized(plan)
      <4>1. n \notin DOMAIN d.given
        BY <1>2, <2>1, <3>2
      <4> QED
        BY <1>1, <4>1
    <3> QED
      BY <3>1, <3>2
  <2>2. CASE n = "q"
    <3>1. CASE plan["f"] = "source"
      <4>1. n \notin DOMAIN d.given
        BY <1>2, <2>2, <3>1
      <4> QED
        BY <1>1, <4>1
    <3>2. CASE plan["f"] # "source"
      BY <1>3, <2>2, <3>2 DEF Spelled
    <3> QED
      BY <3>1, <3>2
  <2>3. CASE n \notin {"fit", "g", "q"}
    BY <1>3, <2>3 DEF Spelled
  <2> QED
    BY <2>1, <2>2, <2>3
<1>4. PlanOf(Canonical(plan)) = [n \in OperationNames |-> IF Spelled(plan, n) THEN plan[n] ELSE Default[n]]
  BY CanonicalPlan
<1>5. \A n \in OperationNames : (IF Spelled(plan, n) THEN plan[n] ELSE Default[n]) = plan[n]
  BY <1>3
<1>6. PlanOf(Canonical(plan)) = [n \in OperationNames |-> plan[n]]
  BY <1>4, <1>5
<1>7. plan = [n \in OperationNames |-> plan[n]]
  BY <1>1
<1> QED
  BY <1>6, <1>7 DEF plan

\* No measure may be given as 0, which stands for undefined.
LEMMA MeasuresArePositive ==
  \A n \in {"w", "h", "blur", "sharpen"} : 0 \notin Permitted[n]
<1>1. 0 \notin Permitted["w"]
  BY DEF Permitted
<1>2. 0 \notin Permitted["h"]
  BY DEF Permitted
<1>3. 0 \notin Permitted["blur"]
  BY DEF Permitted
<1>4. 0 \notin Permitted["sharpen"]
  BY DEF Permitted
<1> QED
  BY <1>1, <1>2, <1>3, <1>4

\* The canonical specification of a readable one is readable.
LEMMA CanonicalIsReadable ==
  ASSUME NEW d, Readable(d)
  PROVE  Readable(Canonical(PlanOf(d)))
<1> DEFINE plan == PlanOf(d)
           c == Canonical(plan)
<1>1. plan = [n \in OperationNames |-> IF n \in DOMAIN d.given THEN d.given[n] ELSE Default[n]]
  BY DEF PlanOf
<1>2. /\ DOMAIN d.given # {} /\ DOMAIN d.given \subseteq OperationNames
      /\ \A n \in DOMAIN d.given : d.given[n] \in Permitted[n]
      /\ {"fit", "g"} \intersect DOMAIN d.given # {} => Sized(plan)
      /\ "g" \in DOMAIN d.given => plan["fit"] = "cover"
      /\ "q" \in DOMAIN d.given => plan["f"] \notin {"source", "png"}
      /\ plan["w"] * plan["h"] <= MAX_OUTPUT_PIXELS
  BY DEF Readable
<1>3. /\ DOMAIN c.given = {n \in OperationNames : Spelled(plan, n)}
      /\ \A n \in OperationNames : Spelled(plan, n) => c.given[n] = plan[n]
      /\ c.repeated = FALSE
  BY DEF Canonical
<1>4. PlanOf(c) = plan
  BY CanonicalSaysThePlan
<1> HIDE DEF plan, c
<1>5. ASSUME NEW n \in OperationNames, Spelled(plan, n)
      PROVE  n \in DOMAIN d.given /\ c.given[n] \in Permitted[n]
  <2>1. plan[n] # Default[n]
    BY <1>5 DEF Spelled
  <2>2. n \in DOMAIN d.given /\ plan[n] = d.given[n]
    BY <1>1, <1>5, <2>1
  <2> QED
    BY <1>2, <1>3, <1>5, <2>2
<1>6. DOMAIN c.given # {}
  <2>1. PICK n \in DOMAIN d.given : TRUE
    BY <1>2
  <2>2. n \in OperationNames /\ plan[n] = d.given[n] /\ plan[n] \in Permitted[n]
    BY <1>1, <1>2, <2>1
  <2>3. CASE n \in {"w", "h", "blur", "sharpen"}
    <3>1. plan[n] # 0
      BY <2>2, <2>3, MeasuresArePositive
    <3>2. Spelled(plan, n)
      BY <2>3, <3>1 DEF Spelled, Default
    <3> QED
      BY <1>3, <2>2, <3>2
  <2>4. CASE n = "f"
    <3>1. plan[n] # "source"
      BY <2>2, <2>4 DEF Permitted
    <3>2. Spelled(plan, n)
      BY <2>4, <3>1 DEF Spelled, Default
    <3> QED
      BY <1>3, <2>2, <3>2
  <2>5. CASE n = "q"
    <3>1. plan["f"] # "source" /\ "f" \in OperationNames
      BY <1>2, <2>1, <2>5 DEF OperationNames
    <3>2. Spelled(plan, "f")
      BY <3>1 DEF Spelled, Default
    <3> QED
      BY <1>3, <3>1, <3>2
  <2>6. CASE n \in {"fit", "g"}
    <3>1. plan["w"] # 0 /\ "w" \in OperationNames
      BY <1>2, <2>1, <2>6 DEF Sized, OperationNames, Lengths
    <3>2. Spelled(plan, "w")
      BY <3>1 DEF Spelled, Default
    <3> QED
      BY <1>3, <3>1, <3>2
  <2> QED
    BY <2>2, <2>3, <2>4, <2>5, <2>6 DEF OperationNames, Lengths
<1>7. DOMAIN c.given \subseteq DOMAIN d.given
  BY <1>3, <1>5
<1>8. /\ {"fit", "g"} \intersect DOMAIN c.given # {} => Sized(plan)
      /\ "g" \in DOMAIN c.given => plan["fit"] = "cover"
      /\ "q" \in DOMAIN c.given => plan["f"] \notin {"source", "png"}
  BY <1>2, <1>7
<1>9. \A n \in DOMAIN c.given : n \in OperationNames /\ c.given[n] \in Permitted[n]
  BY <1>3, <1>5
<1>10. Readable(c)
  BY <1>2, <1>3, <1>4, <1>6, <1>8, <1>9 DEF Readable
<1> QED
  BY <1>10 DEF c, plan

Read(d) == [plan |-> PlanOf(d), canonicalSpec |-> Canonical(PlanOf(d))]

\* What is read of a specification is read of its canonical one, which is one of those
\* that the service may be given.
LEMMA CanonicalReadsTheSame ==
  ASSUME NEW d \in Specifications, Readable(d)
  PROVE  LET c == Canonical(PlanOf(d))
         IN  c \in Specifications /\ ParseImageTransformV1[c] = {Read(d)}
<1> DEFINE c == Canonical(PlanOf(d))
<1>1. c \in Specifications
  <2>1. CASE d \in Definitions
    BY <2>1 DEF Specifications
  <2>2. CASE \E e \in Definitions : d = Canonical(PlanOf(e))
    <3>1. c = d
      BY <2>2, CanonicalIsFixed
    <3> QED
      BY <3>1
  <2> QED
    BY <2>1, <2>2 DEF Specifications
<1>2. Readable(c) /\ PlanOf(c) = PlanOf(d)
  BY CanonicalIsReadable, CanonicalSaysThePlan
<1>3. Read(c) = Read(d)
  BY <1>2 DEF Read
<1> HIDE DEF c
<1>4. ParseImageTransformV1[c] = {Read(c)}
  BY <1>1, <1>2 DEF ParseImageTransformV1, Read
<1> QED
  BY <1>1, <1>3, <1>4 DEF c

LEMMA WhatIsRead ==
  ASSUME NEW d \in Specifications
  PROVE  ParseImageTransformV1[d] = IF Readable(d) THEN {Read(d)} ELSE {}
BY DEF ParseImageTransformV1, Read

LEMMA CanonicalIsAsked ==
  ASSUME NEW d \in Definitions
  PROVE  Canonical(PlanOf(d)) \in Specifications /\ d \in Specifications
BY DEF Specifications

-----------------------------------------------------------------------------
(* Addresses.                                                              *)

CanonicalSpecs == {Canonical(PlanOf(d)) : d \in Definitions}

PresetsOK == presets \in [Names -> Seq(CanonicalSpecs)]

LEMMA KindsOfAddress ==
  ASSUME NEW a \in Addresses
  PROVE  /\ a.source \in Sources
         /\ \/ a.by = "original" /\ a = Original(a.source)
            \/ a.by = "spec" /\ a.spec \in Specifications
            \/ a.by = "preset" /\ a.name \in Names
BY DEF Addresses, Original, ByPlan, ByPreset

\* What an address means, by its kind.
LEMMA MeaningOfOriginal ==
  ASSUME NEW a, a.by = "original"
  PROVE  Means(a) = {[plan |-> Default, canonicalSpec |-> NoSpec]}
BY DEF Means, ResolveTransform

LEMMA MeaningOfSpec ==
  ASSUME NEW a, a.by = "spec"
  PROVE  Means(a) = {t \in ParseImageTransformV1[a.spec] : a.spec = t.canonicalSpec}
BY DEF Means, ResolveTransform

LEMMA MeaningOfPreset ==
  ASSUME NEW a, a.by = "preset"
  PROVE  /\ ResolveTransform(a) = UNION {ParseImageTransformV1[presets[a.name][v]] :
                                          v \in {a.version} \intersect DOMAIN presets[a.name]}
         /\ Means(a) = ResolveTransform(a)
BY DEF Means, ResolveTransform

\* A transformation is read of a specification.
LEMMA MeaningIsRead ==
  ASSUME PresetsOK, NEW a \in Addresses, a.by # "original", NEW t \in ResolveTransform(a)
  PROVE  \E d \in Specifications : Readable(d) /\ t = Read(d) /\ ResolveTransform(a) = {t}
<1>0. ASSUME NEW d \in Specifications, ResolveTransform(a) = ParseImageTransformV1[d]
      PROVE  Readable(d) /\ t = Read(d) /\ ResolveTransform(a) = {t}
  <2>1. ParseImageTransformV1[d] = IF Readable(d) THEN {Read(d)} ELSE {}
    BY WhatIsRead
  <2>2. t \in IF Readable(d) THEN {Read(d)} ELSE {}
    BY <1>0, <2>1
  <2>3. Readable(d) /\ t = Read(d)
    BY <2>2
  <2> QED
    BY <1>0, <2>1, <2>3
<1>1. CASE a.by = "spec"
  <2>1. a.spec \in Specifications
    BY <1>1, KindsOfAddress
  <2>2. ResolveTransform(a) = ParseImageTransformV1[a.spec]
    BY <1>1 DEF ResolveTransform
  <2> QED
    BY <1>0, <2>1, <2>2
<1>2. CASE a.by = "preset"
  <2>1. a.name \in Names
    BY <1>2, KindsOfAddress
  <2>2. a.version \in DOMAIN presets[a.name]
        /\ ResolveTransform(a) = ParseImageTransformV1[presets[a.name][a.version]]
    BY <1>2, MeaningOfPreset
  <2> DEFINE versions == presets[a.name]
             d == versions[a.version]
  <2>3. versions \in Seq(CanonicalSpecs) /\ a.version \in DOMAIN versions
    BY <2>1, <2>2 DEF PresetsOK
  <2>4. d \in CanonicalSpecs
    <3> HIDE DEF versions
    <3> QED
      BY <2>3
  <2>5. d \in Specifications
    <3> HIDE DEF d
    <3> QED
      BY <2>4 DEF CanonicalSpecs, Specifications
  <2>6. ResolveTransform(a) = ParseImageTransformV1[d]
    BY <2>2
  <2> HIDE DEF d
  <2> QED
    BY <1>0, <2>5, <2>6
<1> QED
  BY <1>1, <1>2, KindsOfAddress

\* An address means one thing or nothing.
LEMMA OneMeaning ==
  ASSUME PresetsOK, NEW a \in Addresses, NEW t \in Means(a)
  PROVE  Means(a) = {t}
<1>1. CASE a.by = "original"
  BY <1>1, MeaningOfOriginal
<1>2. CASE a.by # "original"
  <2>1. t \in ResolveTransform(a)
    BY DEF Means
  <2>2. ResolveTransform(a) = {t}
    BY <1>2, <2>1, MeaningIsRead
  <2> QED
    BY <2>2 DEF Means
<1> QED
  BY <1>1, <1>2

\* The path that is signed for an address means what the address was read as, whatever
\* its spelling.
LEMMA PathMeansTheSame ==
  ASSUME PresetsOK, NEW a \in Addresses, NEW t \in ResolveTransform(a)
  PROVE  /\ Path(a, t) \in Addresses
         /\ Path(a, t).by \in {"original", "spec"}
         /\ Means(Path(a, t)) = {t}
<1>1. CASE a.by = "original"
  <2>1. Path(a, t) = a
    BY <1>1 DEF Path
  <2>2. t \in Means(a)
    BY <1>1 DEF Means
  <2> QED
    BY <1>1, <2>1, <2>2, OneMeaning
<1>2. CASE a.by # "original"
  <2>1. PICK d \in Specifications : Readable(d) /\ t = Read(d)
    BY <1>2, MeaningIsRead
  <2> DEFINE c == Canonical(PlanOf(d))
  <2>2. t.canonicalSpec = c /\ c \in Specifications /\ ParseImageTransformV1[c] = {t}
    BY <2>1, CanonicalReadsTheSame DEF Read
  <2> HIDE DEF c
  <2>3. Path(a, t) = ByPlan(a.source, c)
    BY <1>2, <2>2 DEF Path
  <2>4. a.source \in Sources
    BY KindsOfAddress
  <2>5. Path(a, t) \in Addresses
    BY <2>2, <2>3, <2>4 DEF Addresses
  <2>6. Path(a, t).by = "spec" /\ Path(a, t).spec = c
    BY <2>3 DEF ByPlan
  <2>7. Means(Path(a, t)) = {u \in {t} : c = u.canonicalSpec}
    BY <2>2, <2>6, MeaningOfSpec
  <2> QED
    BY <2>2, <2>5, <2>6, <2>7
<1> QED
  BY <1>1, <1>2

-----------------------------------------------------------------------------
(* The invariant.                                                          *)

\* Presets are only added to.
Grown == \A n \in Names : \/ presets'[n] = presets[n]
                          \/ presets[n] = <<>>
                          \/ \E spec \in CanonicalSpecs : presets'[n] = Append(presets[n], spec)

\* A link was made for an address that nothing changes the meaning of.
LinkOK(l) ==
    /\ l.path \in Addresses /\ l.path.by \in {"original", "spec"}
    /\ l.expires \in Nat \ {0}
    /\ Means(l.path) = {l.shows}

\* The representation r is of the address a.
Shows(a, r) ==
    /\ a \in Addresses
    /\ {t.canonicalSpec : t \in Means(a)} = {r.spec}
    /\ r.source = a.source
    /\ r.processor \in Processors \union {"none"}

IsDownload(d) ==
    d \in [address : {d.address}, accept : {d.accept}, of : {d.of}, by : {d.by},
           dated : {d.dated}, octets : {d.octets}]

\* With an ETag, all octets are of the one representation.
Pieces(d) ==
    d.by = "etag" =>
      /\ {o[2] : o \in d.octets} = {d.of}
      /\ {o[1] : o \in d.octets} \subseteq Octets(d.of)

ClientOK(d, r) ==
    /\ IsDownload(d)
    /\ r # NoRepresentation => Shows(d.address, r)
    /\ d.of # NoRepresentation => Shows(d.address, d.of) /\ Pieces(d)

ClientsOK ==
    /\ DOMAIN answering = Clients /\ answering = [c \in Clients |-> answering[c]]
    /\ DOMAIN download = Clients /\ download = [c \in Clients |-> download[c]]
    /\ \A c \in Clients : ClientOK(download[c], answering[c])

DeliveryInv ==
    /\ PresetsOK /\ today \in Nat /\ processor \in Processors /\ keys \in KeyRings
    /\ \A l \in links : LinkOK(l)
    /\ ClientsOK

\* New presets and versions change no meaning.
LEMMA MeaningStays ==
  ASSUME PresetsOK, presets' = presets \/ Grown, NEW a \in Addresses, Means(a) # {}
  PROVE  Means(a)' = Means(a)
<1>1. CASE a.by = "original"
  BY <1>1, MeaningOfOriginal DEF Means, ResolveTransform
<1>2. CASE a.by = "spec"
  BY <1>2 DEF Means, ResolveTransform
<1>3. CASE a.by = "preset"
  <2>1. a.name \in Names
    BY <1>3, KindsOfAddress
  <2> DEFINE old == presets[a.name]
             new == presets'[a.name]
             v == a.version
  <2>2. v \in DOMAIN old
    BY <1>3, MeaningOfPreset
  <2>3. old \in Seq(CanonicalSpecs)
    BY <2>1 DEF PresetsOK
  <2>4. new = old \/ old = <<>> \/ \E spec \in CanonicalSpecs : new = Append(old, spec)
    BY <2>1 DEF Grown
  <2>5. v \in DOMAIN new /\ new[v] = old[v]
    <3> HIDE DEF old, new
    <3> QED
      BY <2>2, <2>3, <2>4
  <2>6. UNION {ParseImageTransformV1[new[w]] : w \in {v} \intersect DOMAIN new}
          = UNION {ParseImageTransformV1[old[w]] : w \in {v} \intersect DOMAIN old}
    <3> HIDE DEF old, new
    <3> QED
      BY <2>2, <2>5
  <2>7. Means(a)' = UNION {ParseImageTransformV1[new[w]] : w \in {v} \intersect DOMAIN new}
    BY <1>3 DEF Means, ResolveTransform
  <2> QED
    BY <1>3, <2>6, <2>7, MeaningOfPreset
<1> QED
  BY <1>1, <1>2, <1>3, KindsOfAddress

LEMMA ShowsStays ==
  ASSUME PresetsOK, presets' = presets \/ Grown, NEW a, NEW r, Shows(a, r)
  PROVE  Shows(a, r)'
<1>1. a \in Addresses /\ Means(a) # {}
  BY DEF Shows
<1>2. Means(a)' = Means(a)
  BY <1>1, MeaningStays
<1>3. Addresses' = Addresses
  BY DEF Addresses, Original, ByPlan, ByPreset, NoSpec, Specifications
<1> QED
  BY <1>2, <1>3 DEF Shows

LEMMA LinkStays ==
  ASSUME PresetsOK, presets' = presets \/ Grown, NEW l, LinkOK(l)
  PROVE  LinkOK(l)'
<1>1. Means(l.path)' = Means(l.path)
  BY MeaningStays DEF LinkOK
<1> QED
  BY <1>1 DEF LinkOK

LEMMA ClientStays ==
  ASSUME PresetsOK, presets' = presets \/ Grown, NEW d, NEW r, ClientOK(d, r)
  PROVE  ClientOK(d, r)'
BY ShowsStays DEF ClientOK, IsDownload, Pieces

LEMMA InitDelivery == DeliveryInit => DeliveryInv
<1> SUFFICES ASSUME DeliveryInit PROVE DeliveryInv
  OBVIOUS
<1>1. PresetsOK
  BY DEF DeliveryInit, PresetsOK
<1>2. today \in Nat /\ processor \in Processors /\ keys \in KeyRings /\ links = {}
  BY DEF DeliveryInit
<1>3. answering = [c \in Clients |-> NoRepresentation] /\ download = [c \in Clients |-> NoDownload]
  BY DEF DeliveryInit
<1>4. NoDownload.of = NoRepresentation /\ IsDownload(NoDownload)
  BY DEF NoDownload, IsDownload
<1>5. ClientsOK
  BY <1>3, <1>4 DEF ClientsOK, ClientOK
<1> QED
  BY <1>1, <1>2, <1>5 DEF DeliveryInv

\* Where only the presets change, and are added to, everything keeps its meaning.
LEMMA NewPresets ==
  ASSUME DeliveryInv, PresetsOK', Grown \/ presets' = presets,
         UNCHANGED <<keys, processor, answering, download>>, today' \in Nat,
         \A l \in links' \ links : LinkOK(l)'
  PROVE  DeliveryInv'
<1>1. \A l \in links' : LinkOK(l)'
  BY LinkStays DEF DeliveryInv
<1>2. \A c \in Clients : ClientOK(download[c], answering[c])'
  <2> SUFFICES ASSUME NEW c \in Clients PROVE ClientOK(download[c], answering[c])'
    OBVIOUS
  <2> DEFINE d == download[c]
             r == answering[c]
  <2>1. ClientOK(d, r) /\ d' = d /\ r' = r
    BY DEF DeliveryInv, ClientsOK
  <2>2. ClientOK(d, r)'
    BY <2>1, ClientStays DEF DeliveryInv, ClientOK, Shows, IsDownload, Pieces
  <2> QED
    BY <2>2
<1>3. ClientsOK'
  BY <1>2 DEF DeliveryInv, ClientsOK
<1> QED
  BY <1>1, <1>3 DEF DeliveryInv

\* A step of one client.
LEMMA OneClient ==
  ASSUME DeliveryInv, NEW c \in Clients, NEW d, NEW r,
         download' = [download EXCEPT ![c] = d], answering' = [answering EXCEPT ![c] = r],
         UNCHANGED <<presets, keys, processor, links, today>>,
         ClientOK(d, r)
  PROVE  DeliveryInv'
<1>1. \A l \in links' : LinkOK(l)'
  BY LinkStays DEF DeliveryInv
<1>2. /\ DOMAIN answering' = Clients /\ answering' = [k \in Clients |-> answering'[k]]
      /\ DOMAIN download' = Clients /\ download' = [k \in Clients |-> download'[k]]
  BY DEF DeliveryInv, ClientsOK
<1>3. ASSUME NEW k \in Clients PROVE ClientOK(download'[k], answering'[k])
  <2>1. CASE k = c
    <3>1. download'[k] = d /\ answering'[k] = r
      BY <2>1 DEF DeliveryInv, ClientsOK
    <3> QED
      BY <3>1
  <2>2. CASE k # c
    <3>1. download'[k] = download[k] /\ answering'[k] = answering[k]
      BY <2>2 DEF DeliveryInv, ClientsOK
    <3> QED
      BY <3>1 DEF DeliveryInv, ClientsOK
  <2> QED
    BY <2>1, <2>2
<1>4. \A e, s : ClientOK(e, s) => ClientOK(e, s)'
  BY ClientStays DEF DeliveryInv
<1>5. ClientsOK'
  BY <1>2, <1>3, <1>4 DEF ClientsOK
<1> QED
  BY <1>1, <1>5 DEF DeliveryInv, PresetsOK

LEMMA CreateSignedUrlInv ==
  ASSUME DeliveryInv, NEW a \in Addresses, CreateSignedUrl(a)
  PROVE  DeliveryInv'
<1>1. PICK t \in ResolveTransform(a) :
        links' = links \union {[path |-> Path(a, t), shows |-> t, expires |-> today + Ttl, kid |-> keys[1]]}
  BY DEF CreateSignedUrl
<1> DEFINE p == Path(a, t)
           l == [path |-> p, shows |-> t, expires |-> today + Ttl, kid |-> keys[1]]
<1>2. p \in Addresses /\ p.by \in {"original", "spec"} /\ Means(p) = {t}
  BY PathMeansTheSame DEF DeliveryInv
<1>3. today + Ttl \in Nat \ {0}
  BY DeliveryAssumption DEF DeliveryInv
<1>4. l.path = p /\ l.shows = t /\ l.expires = today + Ttl
  OBVIOUS
<1> HIDE DEF p, l
<1>5. LinkOK(l)
  BY <1>2, <1>3, <1>4 DEF LinkOK
<1>6. presets' = presets /\ PresetsOK'
  BY DEF CreateSignedUrl, DeliveryInv, PresetsOK
<1>7. \A m : LinkOK(m) => LinkOK(m)'
  BY <1>6, LinkStays DEF DeliveryInv
<1>8. \A m \in links' \ links : LinkOK(m)'
  <2>1. \A m \in links' \ links : m = l
    BY <1>1 DEF l, p
  <2> QED
    BY <1>5, <1>7, <2>1
<1> QED
  BY <1>6, <1>8, NewPresets DEF CreateSignedUrl, DeliveryInv

LEMMA TheSpecIsCanonical ==
  ASSUME NEW d \in Definitions, ParseImageTransformV1[d] # {}
  PROVE  TheSpec(d) \in CanonicalSpecs
<1>1. ParseImageTransformV1[d] = {Read(d)}
  BY CanonicalIsAsked, WhatIsRead
<1>2. TheSpec(d) = Read(d).canonicalSpec
  BY <1>1 DEF TheSpec
<1> QED
  BY <1>2 DEF Read, CanonicalSpecs

LEMMA PresetInv ==
  ASSUME DeliveryInv, NEW n \in Names, NEW d \in Definitions, CreatePreset(n, d) \/ CreateVersion(n, d)
  PROVE  DeliveryInv'
<1> DEFINE spec == TheSpec(d)
           old == presets[n]
<1>1. spec \in CanonicalSpecs
  BY TheSpecIsCanonical DEF CreatePreset, CreateVersion
<1>2. old \in Seq(CanonicalSpecs) /\ presets \in [Names -> Seq(CanonicalSpecs)]
  BY DEF DeliveryInv, PresetsOK
<1>3. CASE CreatePreset(n, d)
  <2>1. presets' = [presets EXCEPT ![n] = <<spec>>] /\ old = <<>>
    BY <1>3 DEF CreatePreset
  <2> HIDE DEF spec
  <2>2. <<spec>> \in Seq(CanonicalSpecs)
    BY <1>1
  <2>3. PresetsOK' /\ Grown
    BY <1>2, <2>1, <2>2 DEF PresetsOK, Grown
  <2> QED
    BY <1>3, <2>3, NewPresets DEF CreatePreset, DeliveryInv
<1>4. CASE CreateVersion(n, d)
  <2>1. presets' = [presets EXCEPT ![n] = Append(old, spec)]
    BY <1>2, <1>4 DEF CreateVersion
  <2> HIDE DEF spec
  <2>2. Append(old, spec) \in Seq(CanonicalSpecs)
    BY <1>1, <1>2
  <2>3. PresetsOK'
    BY <1>2, <2>1, <2>2 DEF PresetsOK
  <2>4. Grown
    BY <1>1, <1>2, <2>1 DEF Grown
  <2> QED
    BY <1>4, <2>3, <2>4, NewPresets DEF CreateVersion, DeliveryInv
<1> QED
  BY <1>3, <1>4

\* What answers an address is a representation of it.
LEMMA AnswersShow ==
  ASSUME DeliveryInv, NEW a \in Addresses, NEW link, NEW accept, NEW r \in Answers(a, link, accept)
  PROVE  Shows(a, r)
<1>1. PICK t \in Means(a) : r = Representation(a, t, accept)
  BY DEF Answers
<1>2. Means(a) = {t}
  BY OneMeaning DEF DeliveryInv
<1>3. r.spec = t.canonicalSpec /\ r.source = a.source /\ r.processor \in {"none", processor}
  BY <1>1 DEF Representation
<1> QED
  BY <1>2, <1>3 DEF Shows, DeliveryInv

LEMMA RequestInv ==
  ASSUME DeliveryInv, NEW c \in Clients, NEW a \in Addresses, NEW link, NEW accept,
         Request(c, a, link, accept)
  PROVE  DeliveryInv'
<1> DEFINE d == download[c]
           b == [d EXCEPT !.address = a, !.accept = accept]
<1>1. PICK r \in Answers(a, link, accept) : answering' = [answering EXCEPT ![c] = r]
  BY DEF Request
<1>2. Shows(a, r)
  BY AnswersShow
<1>3. IsDownload(d) /\ (d.of # NoRepresentation => Shows(d.address, d.of) /\ Pieces(d))
  BY DEF DeliveryInv, ClientsOK, ClientOK
<1>4. d.of # NoRepresentation => a = d.address
  BY DEF Request, Begun
<1>5. download' = [download EXCEPT ![c] = b]
  BY DEF Request, DeliveryInv, ClientsOK
<1> HIDE DEF d
<1>6. IsDownload(b) /\ b.address = a /\ b.of = d.of /\ b.by = d.by /\ b.octets = d.octets
  BY <1>3 DEF IsDownload
<1> HIDE DEF b
<1>7. ClientOK(b, r)
  BY <1>2, <1>3, <1>4, <1>6 DEF ClientOK, Pieces
<1> QED
  BY <1>1, <1>5, <1>7, OneClient DEF Request

\* A range that is answered lies within the representation.
LEMMA RangeIsWithin ==
  ASSUME NEW size \in Nat \ {0}, NEW range \in Headers(size)
  PROVE  ParseSingleByteRange(range, size) \subseteq 0 .. size - 1
<1> DEFINE first == range[1]
           last == range[2]
<1>1. /\ first \in 0 .. size \/ first = NoOctet
      /\ last \in 0 .. size \/ last = NoOctet
  BY DEF Headers
<1>2. CASE first = NoOctet /\ last = NoOctet
  <2>1. ParseSingleByteRange(range, size) = {}
    BY <1>2 DEF ParseSingleByteRange
  <2> QED
    BY <2>1
<1>3. CASE first = NoOctet /\ last # NoOctet
  <2> DEFINE kept == IF last < size THEN last ELSE size
  <2>1. ParseSingleByteRange(range, size) = IF last = 0 THEN {} ELSE size - kept .. size - 1
    BY <1>3 DEF ParseSingleByteRange
  <2>2. last \in 0 .. size
    BY <1>1, <1>3
  <2>3. kept \in 0 .. size
    BY <2>2
  <2> HIDE DEF kept
  <2>4. size - kept .. size - 1 \subseteq 0 .. size - 1
    BY <2>3
  <2> QED
    BY <2>1, <2>4
<1>4. CASE first # NoOctet /\ last = NoOctet
  BY <1>1, <1>4 DEF ParseSingleByteRange, NoOctet
<1>5. CASE first # NoOctet /\ last # NoOctet
  BY <1>1, <1>5 DEF ParseSingleByteRange, NoOctet
<1> QED
  BY <1>2, <1>3, <1>4, <1>5

LEMMA KeptInv ==
  ASSUME DeliveryInv, NEW c \in Clients, NEW d, Kept(c, d),
         IsDownload(d), d.of # NoRepresentation => Shows(d.address, d.of) /\ Pieces(d)
  PROVE  DeliveryInv'
<1>1. ClientOK(d, NoRepresentation)
  BY DEF ClientOK
<1> QED
  BY <1>1, OneClient DEF Kept

LEMMA PartialContentInv ==
  ASSUME DeliveryInv, NEW c \in Clients, PartialContent(c)
  PROVE  DeliveryInv'
<1> DEFINE d == download[c]
           r == answering[c]
           size == Size[r.processor]
<1>1. r # NoRepresentation /\ d.of # NoRepresentation /\ IfRangeAllows(d, r)
  BY DEF PartialContent, Ready, Waiting, Begun
<1>2. PICK range \in Headers(size) : \E n \in ParseSingleByteRange(range, size) :
        Kept(c, [d EXCEPT !.octets = @ \union {<<o, r>> : o \in {m \in ParseSingleByteRange(range, size) : m <= n}}])
  BY DEF PartialContent
<1> DEFINE asked == ParseSingleByteRange(range, size)
<1>3. PICK n \in asked : Kept(c, [d EXCEPT !.octets = @ \union {<<o, r>> : o \in {m \in asked : m <= n}}])
  BY <1>2
<1> DEFINE new == {<<o, r>> : o \in {m \in asked : m <= n}}
           b == [d EXCEPT !.octets = @ \union new]
<1>4. Kept(c, b)
  BY <1>3
<1>5. IsDownload(d) /\ Shows(d.address, d.of) /\ Pieces(d) /\ Shows(d.address, r)
  BY <1>1 DEF DeliveryInv, ClientsOK, ClientOK
<1>6. asked \subseteq 0 .. size - 1
  <2>1. size \in Nat \ {0}
    BY <1>5, DeliveryAssumption DEF Shows
  <2> HIDE DEF size
  <2> QED
    BY <2>1, RangeIsWithin
<1> HIDE DEF asked, d, r
<1>7. \A o \in new : o[2] = r /\ o[1] \in 0 .. size - 1
  BY <1>6
<1> HIDE DEF new
<1>8. IsDownload(b) /\ b.address = d.address /\ b.of = d.of /\ b.by = d.by /\ b.octets = d.octets \union new
  BY <1>5 DEF IsDownload
<1> HIDE DEF b
<1>9. Pieces(b)
  <2>1. SUFFICES ASSUME d.by = "etag"
                 PROVE  /\ {o[2] : o \in b.octets} = {d.of}
                        /\ {o[1] : o \in b.octets} \subseteq Octets(d.of)
    BY <1>8 DEF Pieces
  <2>2. d.of = r
    BY <1>1, <2>1 DEF IfRangeAllows
  <2>3. {o[2] : o \in d.octets} = {d.of} /\ {o[1] : o \in d.octets} \subseteq Octets(d.of)
    BY <1>5, <2>1 DEF Pieces
  <2>4. \A o \in new : o[2] = d.of /\ o[1] \in Octets(d.of)
    BY <1>7, <2>2 DEF Octets
  <2> QED
    BY <1>8, <2>3, <2>4
<1> QED
  BY <1>4, <1>5, <1>8, <1>9, KeptInv

LEMMA EntireContentInv ==
  ASSUME DeliveryInv, NEW c \in Clients, NEW by, EntireContent(c, by)
  PROVE  DeliveryInv'
<1> DEFINE d == download[c]
           r == answering[c]
<1>1. r # NoRepresentation
  BY DEF EntireContent, Ready, Waiting
<1>2. PICK n \in Octets(r) :
        Kept(c, [d EXCEPT !.of = r, !.by = by, !.dated = LastModified(r), !.octets = {<<o, r>> : o \in 0 .. n}])
  BY DEF EntireContent
<1> DEFINE new == {<<o, r>> : o \in 0 .. n}
           b == [d EXCEPT !.of = r, !.by = by, !.dated = LastModified(r), !.octets = new]
<1>3. Kept(c, b)
  BY <1>2
<1>4. IsDownload(d) /\ Shows(d.address, r)
  BY <1>1 DEF DeliveryInv, ClientsOK, ClientOK
<1>5. Size[r.processor] \in Nat \ {0}
  BY <1>4, DeliveryAssumption DEF Shows
<1> HIDE DEF d, r
<1>6. 0 \in 0 .. n /\ 0 .. n \subseteq Octets(r)
  BY <1>5 DEF Octets
<1>7. (\A o \in new : o[2] = r /\ o[1] \in Octets(r)) /\ new # {}
  <2>1. <<0, r>> \in new
    BY <1>6
  <2>2. \A o \in new : \E k \in 0 .. n : o = <<k, r>>
    OBVIOUS
  <2>3. \A o \in new : o[2] = r /\ o[1] \in Octets(r)
    BY <1>6, <2>2
  <2> QED
    BY <2>1, <2>3
<1> HIDE DEF new
<1>8. IsDownload(b) /\ b.address = d.address /\ b.of = r /\ b.octets = new
  BY <1>4 DEF IsDownload
<1> HIDE DEF b
<1>9. Pieces(b)
  <2>1. {o[2] : o \in new} = {r} /\ {o[1] : o \in new} \subseteq Octets(r)
    BY <1>7
  <2> QED
    BY <1>8, <2>1 DEF Pieces
<1> QED
  BY <1>3, <1>4, <1>8, <1>9, KeptInv

LEMMA NextDelivery == DeliveryInv /\ [DeliveryNext]_deliveryVars => DeliveryInv'
<1> SUFFICES ASSUME DeliveryInv, [DeliveryNext]_deliveryVars PROVE DeliveryInv'
  OBVIOUS
<1>1. ASSUME NEW a \in Addresses, CreateSignedUrl(a) PROVE DeliveryInv'
  BY <1>1, CreateSignedUrlInv
<1>2. ASSUME UNCHANGED <<presets, keys, processor, answering, download>>, today' \in Nat, links' \subseteq links
      PROVE  DeliveryInv'
  <2>1. PresetsOK'
    BY <1>2 DEF DeliveryInv, PresetsOK
  <2> QED
    BY <1>2, <2>1, NewPresets
<1>3. ASSUME \/ \E l \in links : LinkIsForgotten(l)
             \/ \E s \in Sources, new \in {"private", "public"} : UpdateVisibility(s, new)
             \/ DayPasses \/ UNCHANGED deliveryVars
             \/ \E c \in Clients : Generate(c)
      PROVE  DeliveryInv'
  <2>1. today \in Nat
    BY DEF DeliveryInv
  <2>2. UNCHANGED <<presets, keys, processor, answering, download>> /\ today' \in Nat /\ links' \subseteq links
    BY <1>3, <2>1 DEF LinkIsForgotten, UpdateVisibility, DayPasses, Generate, deliveryVars
  <2> QED
    BY <1>2, <2>2
<1>4. ASSUME NEW n \in Names, NEW d \in Definitions, CreatePreset(n, d) \/ CreateVersion(n, d)
      PROVE  DeliveryInv'
  BY <1>4, PresetInv
<1>5. ASSUME NEW c \in Clients, NEW accept \in Accepts,
             \/ \E a \in Addresses : Request(c, a, NoLink, accept)
             \/ \E l \in links : Request(c, l.path, l, accept)
      PROVE  DeliveryInv'
  <2>1. \A l \in links : l.path \in Addresses
    BY DEF DeliveryInv, LinkOK
  <2> QED
    BY <1>5, <2>1, RequestInv
<1>6. ASSUME NEW c \in Clients, Fails(c) PROVE DeliveryInv'
  <2> DEFINE d == download[c]
  <2>1. ClientOK(d, NoRepresentation)
    BY DEF DeliveryInv, ClientsOK, ClientOK
  <2>2. download' = [download EXCEPT ![c] = d]
    BY <1>6 DEF Fails, DeliveryInv, ClientsOK
  <2> HIDE DEF d
  <2> QED
    BY <1>6, <2>1, <2>2, OneClient DEF Fails
<1>7. ASSUME NEW c \in Clients, NotModified(c) PROVE DeliveryInv'
  <2> DEFINE d == download[c]
  <2>1. Kept(c, d) /\ IsDownload(d) /\ (d.of # NoRepresentation => Shows(d.address, d.of) /\ Pieces(d))
    BY <1>7 DEF NotModified, DeliveryInv, ClientsOK, ClientOK
  <2> HIDE DEF d
  <2> QED
    BY <2>1, KeptInv
<1>8. ASSUME NEW c \in Clients, PartialContent(c) PROVE DeliveryInv'
  BY <1>8, PartialContentInv
<1>9. ASSUME NEW c \in Clients, NEW by \in {"etag", "date"}, EntireContent(c, by) PROVE DeliveryInv'
  BY <1>9, EntireContentInv
<1>10. ASSUME NEW c \in Clients, Forget(c) PROVE DeliveryInv'
  <2>1. Kept(c, NoDownload)
    BY <1>10 DEF Forget
  <2>2. IsDownload(NoDownload) /\ NoDownload.of = NoRepresentation
    BY DEF NoDownload, IsDownload
  <2> QED
    BY <2>1, <2>2, KeptInv
<1>11. ASSUME NEW ring \in KeyRings, NEW p \in Processors, Restart(ring, p) PROVE DeliveryInv'
  <2>1. presets' = presets /\ links' = links /\ download' = download /\ today' = today
        /\ keys' \in KeyRings /\ processor' \in Processors
    BY <1>11 DEF Restart
  <2>2. answering' = [c \in Clients |-> NoRepresentation]
    BY <1>11 DEF Restart
  <2>3. \A c \in Clients : ClientOK(download[c], NoRepresentation)
    BY DEF DeliveryInv, ClientsOK, ClientOK
  <2>4. \A d, r : ClientOK(d, r) => ClientOK(d, r)'
    BY <2>1, ClientStays DEF DeliveryInv
  <2>5. \A c \in Clients : ClientOK(download'[c], answering'[c])
    BY <2>1, <2>2, <2>3
  <2>6. ClientsOK'
    BY <2>1, <2>2, <2>4, <2>5 DEF ClientsOK, DeliveryInv
  <2>7. \A l \in links' : LinkOK(l)'
    BY <2>1, LinkStays DEF DeliveryInv
  <2> QED
    BY <2>1, <2>6, <2>7 DEF DeliveryInv, PresetsOK
<1> QED
  BY <1>1, <1>3, <1>4, <1>5, <1>6, <1>7, <1>8, <1>9, <1>10, <1>11 DEF DeliveryNext

LEMMA DeliveryInvariant == DeliverySpec => []DeliveryInv
BY InitDelivery, NextDelivery, PTL DEF DeliverySpec

\* Links show what their makers asked for, and open while they should and no longer.
THEOREM LinksWork == DeliverySpec => []LinksWorkUntilTheyExpire
<1>1. DeliveryInv => LinksWorkUntilTheyExpire
  <2> SUFFICES ASSUME DeliveryInv, NEW l \in links
               PROVE  /\ Means(l.path) = {l.shows}
                      /\ \A accept \in Accepts :
                           LET r == Representation(l.path, l.shows, accept)
                           IN  Answers(l.path, l, accept) # {} <=>
                                 /\ l.expires > today /\ \E i \in DOMAIN keys : keys[i] = l.kid
                                 /\ l.path.by = "original" \/ r.format # "none"
    BY DEF LinksWorkUntilTheyExpire
  <2>1. LinkOK(l)
    BY DEF DeliveryInv
  <2>2. l # NoLink
    BY <2>1 DEF LinkOK, NoLink
  <2>3. ASSUME NEW accept \in Accepts
        PROVE  LET r == Representation(l.path, l.shows, accept)
               IN  Answers(l.path, l, accept) # {} <=>
                     /\ l.expires > today /\ \E i \in DOMAIN keys : keys[i] = l.kid
                     /\ l.path.by = "original" \/ r.format # "none"
    <3> DEFINE r == Representation(l.path, l.shows, accept)
    <3>1. {Representation(l.path, t, accept) : t \in Means(l.path)} = {r}
      BY <2>1 DEF LinkOK
    <3>2. Answers(l.path, l, accept) = {s \in {r} : /\ IsPubliclyAuthorized(l.path, l)
                                                    /\ l.path.by # "original" => s.format # "none"}
      BY <3>1 DEF Answers
    <3>3. IsPubliclyAuthorized(l.path, l) <=> l.expires > today /\ \E i \in DOMAIN keys : keys[i] = l.kid
      BY <2>2 DEF IsPubliclyAuthorized, Verifies
    <3> HIDE DEF r
    <3>4. Answers(l.path, l, accept) # {} <=>
            /\ l.expires > today /\ \E i \in DOMAIN keys : keys[i] = l.kid
            /\ l.path.by = "original" \/ r.format # "none"
      BY <3>2, <3>3
    <3> QED
      BY <3>4 DEF r
  <2> QED
    BY <2>1, <2>3 DEF LinkOK
<1> QED
  BY <1>1, DeliveryInvariant, PTL

\* What a client that keeps the ETag puts together is of one representation, and of the
\* address it asked for.
THEOREM DownloadsStayWhole == DeliverySpec => []DownloadsAreWhole
<1>1. DeliveryInv => DownloadsAreWhole
  BY DEF DeliveryInv, ClientsOK, ClientOK, Shows, Pieces, DownloadsAreWhole, Begun
<1> QED
  BY <1>1, DeliveryInvariant, PTL
=============================================================================

--------------------------- MODULE UploadsProofs ---------------------------
(***************************************************************************)
(* Theorems about the uploads, for any uploads, sizes, quota, requests and *)
(* number of crashes.                                                      *)
(*                                                                         *)
(* Every step of a request writes the rows, the object and the file of one *)
(* upload, and no other request is at work on it: the invariant is stated  *)
(* per upload and per request, and ActIsGood carries it over such a step.  *)
(***************************************************************************)
EXTENDS Uploads, FiniteSetTheorems, TLAPS

-----------------------------------------------------------------------------
(* Sums of upload sizes, for any finite set of uploads.                    *)

LEMMA SizeNat == \A u \in Uploads : Size[u] \in Nat /\ Size[u] \in 1..MaxBytes
BY QuotaAssumption

LEMMA TotalType ==
    ASSUME NEW S \in SUBSET Uploads
    PROVE  IsFiniteSet(BytesOf(S)) /\ Total(S) \in Nat
<1>1. IsFiniteSet(S)
  BY FS_Subset, QuotaAssumption
<1>2. IsFiniteSet(1..MaxBytes)
  BY FS_Interval, QuotaAssumption
<1>3. IsFiniteSet(S \X (1..MaxBytes))
  BY <1>1, <1>2, FS_Product
<1>4. IsFiniteSet(BytesOf(S))
  BY <1>3, FS_Subset DEF BytesOf
<1> QED
  BY <1>4, FS_CardinalityType DEF Total

\* One upload weighs its size.
LEMMA TotalOne ==
    ASSUME NEW u \in Uploads
    PROVE  Total({u}) = Size[u]
<1> DEFINE f == [k \in 1..Size[u] |-> <<u, k>>]
<1>1. Size[u] \in Nat /\ Size[u] <= MaxBytes
  BY SizeNat, QuotaAssumption
<1>2. BytesOf({u}) = {<<u, k>> : k \in 1..Size[u]}
  BY <1>1, QuotaAssumption DEF BytesOf
<1>3. f \in Bijection(1..Size[u], BytesOf({u}))
  BY <1>2 DEF Bijection, Injection, Surjection, IsInjective
<1>4. ExistsBijection(1..Size[u], BytesOf({u}))
  BY <1>3 DEF ExistsBijection
<1> QED
  BY <1>1, <1>4, FS_CountingElements DEF Total

LEMMA TotalAdd ==
    ASSUME NEW S \in SUBSET Uploads, NEW u \in Uploads, u \notin S
    PROVE  Total(S \union {u}) = Total(S) + Size[u]
<1>1. BytesOf(S \union {u}) = BytesOf(S) \union BytesOf({u})
  BY DEF BytesOf
<1>2. BytesOf(S) \intersect BytesOf({u}) = {}
  BY DEF BytesOf
<1>3. {u} \in SUBSET Uploads
  OBVIOUS
<1>4. Cardinality(BytesOf(S) \union BytesOf({u})) = Total(S) + Total({u}) - Cardinality({})
  BY <1>2, <1>3, TotalType, FS_Union DEF Total
<1>5. Cardinality({}) = 0
  BY FS_EmptySet
<1>6. Total(S \union {u}) = Total(S) + Total({u}) - 0
  BY <1>1, <1>4, <1>5 DEF Total
<1>7. Total(S) \in Nat /\ Total({u}) \in Nat
  BY <1>3, TotalType
<1>8. Total({u}) = Size[u]
  BY TotalOne
<1> QED
  BY <1>6, <1>7, <1>8

LEMMA TotalRemove ==
    ASSUME NEW S \in SUBSET Uploads, NEW u \in S
    PROVE  Total(S) = Total(S \ {u}) + Size[u]
<1>1. S = (S \ {u}) \union {u}
  OBVIOUS
<1> QED
  BY <1>1, TotalAdd

LEMMA TotalEmpty == Total({}) = 0
<1>1. BytesOf({}) = {}
  BY DEF BytesOf
<1> QED
  BY <1>1, FS_EmptySet DEF Total

\* A reservation that fits is added; one that is settled moves or goes.
LEMMA TotalsReserve ==
    ASSUME NEW S \in SUBSET Uploads, NEW T \in SUBSET Uploads, NEW u \in Uploads, u \notin T,
           Total(S) + Total(T) + Size[u] <= Quota
    PROVE  Total(S) + Total(T \union {u}) <= Quota
<1>1. Total(T \union {u}) = Total(T) + Size[u]
  BY TotalAdd
<1>2. Total(S) \in Nat /\ Total(T) \in Nat /\ Size[u] \in Nat
  BY TotalType, SizeNat
<1> QED
  BY <1>1, <1>2

LEMMA TotalsSettle ==
    ASSUME NEW S \in SUBSET Uploads, NEW T \in SUBSET Uploads, NEW u \in T, u \notin S,
           Total(S) + Total(T) <= Quota
    PROVE  /\ Total(S) + Total(T \ {u}) <= Quota
           /\ Total(S \union {u}) + Total(T \ {u}) <= Quota
<1>1. Total(T) = Total(T \ {u}) + Size[u]
  BY TotalRemove
<1>2. Total(S \union {u}) = Total(S) + Size[u]
  BY TotalAdd
<1>3. T \ {u} \in SUBSET Uploads /\ u \in Uploads
  OBVIOUS
<1>4. /\ Total(S) \in Nat /\ Total(T \ {u}) \in Nat
      /\ Size[u] \in Nat /\ Quota \in Nat
  BY <1>3, TotalType, SizeNat, QuotaAssumption
<1>5. Total(T \ {u}) <= Total(T)
  BY <1>1, <1>4
<1>6. Total(S) + Total(T \ {u}) <= Quota
  BY <1>1, <1>4
<1>7. Total(S \union {u}) + Total(T \ {u}) <= Quota
  BY <1>1, <1>2, <1>4
<1> QED
  BY <1>6, <1>7


-----------------------------------------------------------------------------
(* The inductive invariant.                                                *)

\* n bytes are stored and the staging file has length m.
UploadOK(u, row, n, m) ==
    /\ row \in UploadRow
    /\ n \in {0, Size[u]}
    /\ m \in (0..MaxBytes) \union {NoFile}
    /\ row.state = "absent" => row.object = "absent" /\ n = 0
    /\ row.state \in Open \union {"absent"} => row.inspections = 0
    /\ row.state \in Open => row.object = "staging"
    /\ row.object = "available" =>
          /\ n = Size[u] /\ row.content = "declared" /\ row.inspections = 1
          /\ row.state \in {"completed", "terminated"}
    /\ row.asset \in {"processing", "ready"} => row.object = "available"
    /\ row.object = "deleted" /\ n # 0 => row.unhinged \/ row.late
    /\ u \in Tus /\ m # NoFile => row.received <= m
    /\ u \in Tus /\ row.state \in Open /\ n # 0 => m # NoFile \/ row.unhinged \/ row.late
    /\ row.late => row.state # "absent"

OnOpen == {"putting", "checking", "rejecting", "creating", "sizing", "truncating",
           "appending", "dropping", "erasing"}

\* What a request at an await relies on.
Fits(t, u, row, n, m) ==
    /\ t.at \in OnOpen => row.state \in Open
    /\ t.at = "putting" /\ u \in Tus => m = Size[u]
    /\ t.at = "creating" => n = 0 /\ row.received = 0 /\ ~row.late
    /\ t.at = "cleaning" => row.state \notin Open \union {"absent"}
    /\ t.at = "removing" => row.state \in Open \union {"failed", "rejected"}
    /\ t.at \in {"sizing", "truncating", "appending"} => u \in Tus /\ t.offset = row.received
    /\ t.at \in {"truncating", "appending"} => m # NoFile
    /\ t.at = "appending" => t.offset + t.size <= Size[u]
    /\ t.at \in {"dropping", "erasing"} => t.ends # "none"

UploadsOK ==
    /\ uploads \in [Uploads -> UploadRow]
    /\ stored \in [Uploads -> 0..MaxBytes]
    /\ staging \in [Uploads -> (0..MaxBytes) \union {NoFile}]
    /\ \A u \in Uploads : UploadOK(u, uploads[u], stored[u], staging[u])

AtWork(t) ==
    /\ t.at # "idle"
    /\ t.upload \in Uploads
    /\ Fits(t, t.upload, uploads[t.upload], stored[t.upload], staging[t.upload])

TasksOK ==
    /\ task \in [Requests -> Task]
    /\ \A r \in Requests : task[r] = NoTask \/ AtWork(task[r])

\* No two requests are at work on the same upload.
Alone == \A r, q \in Requests : r # q /\ Of(r) = Of(q) => Of(r) = NoUpload

Inv == /\ UploadsOK
       /\ TasksOK
       /\ Alone
       /\ backlog \subseteq Uploads
       /\ QuotaHeld

-----------------------------------------------------------------------------
(* Steps that write one upload.                                            *)

\* How the row of u may change: its standing with the quota moves as the ledger
\* allows, and it ends once.
Moves(u, old, new) ==
    /\ \/ Standing(new) = Standing(old)
       \/ Standing(old) = "reserved" /\ Standing(new) \in {"held", "released"}
       \/ Standing(old) = "none" /\ Standing(new) = "reserved" /\ WithinQuota(u)
    /\ old.state \notin Open \union {"absent"} =>
          /\ \/ new.state = old.state
             \/ old.state = "completed" /\ new.state = "terminated"
          /\ new.inspections = old.inspections

EndsStep ==
    \A u \in Uploads :
         uploads[u].state \notin Open \union {"absent"} =>
            /\ \/ uploads'[u].state = uploads[u].state
               \/ uploads[u].state = "completed" /\ uploads'[u].state = "terminated"
            /\ uploads'[u].inspections = uploads[u].inspections

Good == Inv' /\ [Ledger!Next]_Account /\ EndsStep

LEMMA LedgerTotal == \A S : Ledger!Total(S) = Total(S)
<1>1. \A S : Ledger!Cardinality(S) = Cardinality(S)
  BY Zenon DEF Ledger!Cardinality, Cardinality
<1> QED
  BY <1>1 DEF Ledger!Total, Ledger!BytesOf, Total, BytesOf

LEMMA Standings ==
    ASSUME NEW u, NEW row, NEW n, NEW m, UploadOK(u, row, n, m)
    PROVE  /\ Standing(row) = "held" <=> row.object = "available"
           /\ Standing(row) = "reserved" <=> row.state \in Open
           /\ Standing(row) = "none" <=> row.state = "absent"
           /\ Standing(row) \in {"none", "reserved", "held", "released"}
BY DEF UploadOK, Standing, Open

\* The account moves as the ledger says and stays within the quota.
LEMMA AccountStep ==
    ASSUME UploadsOK, QuotaHeld, NEW u \in Uploads, NEW row, NEW n, NEW m,
           UploadOK(u, row, n, m), Moves(u, uploads[u], row),
           uploads' = [uploads EXCEPT ![u] = row]
    PROVE  QuotaHeld' /\ [Ledger!Next]_Account /\ EndsStep
<1> DEFINE old == Standing(uploads[u])
           new == Standing(row)
<1>0. \A v \in Uploads : uploads[v] \in UploadRow /\ UploadOK(v, uploads[v], stored[v], staging[v])
  BY DEF UploadsOK
<1>a. uploads'[u] = row /\ \A v \in Uploads : v # u => uploads'[v] = uploads[v]
  BY DEF UploadsOK
<1>1. Account' = [Account EXCEPT ![u] = new] /\ Account[u] = old
  <2>1. Account' = [v \in Uploads |-> Standing(uploads'[v])]
    BY DEF Account
  <2>2. Account = [v \in Uploads |-> Standing(uploads[v])]
    BY DEF Account
  <2>3. \A v \in Uploads : Account'[v] = IF v = u THEN new ELSE Account[v]
    BY <1>a, <2>1, <2>2
  <2> QED
    BY <2>1, <2>2, <2>3
<1>2. /\ Holding' = IF new = "held" THEN Holding \union {u} ELSE Holding \ {u}
      /\ Reserving' = IF new = "reserved" THEN Reserving \union {u} ELSE Reserving \ {u}
  BY <1>a, Standings DEF Holding, Reserving
<1>3. /\ u \in Holding <=> old = "held"
      /\ u \in Reserving <=> old = "reserved"
  BY <1>0, Standings DEF Holding, Reserving
<1>4. Ledger!In("held") = Holding /\ Ledger!In("reserved") = Reserving
  BY <1>0, Standings DEF Ledger!In, Account, Holding, Reserving
<1>5. Holding \in SUBSET Uploads /\ Reserving \in SUBSET Uploads
  BY DEF Holding, Reserving
<1>6. EndsStep
  BY <1>a DEF Moves, EndsStep
<1>7. CASE new = old
  <2>1. Holding' = Holding /\ Reserving' = Reserving
    BY <1>2, <1>3, <1>7
  <2>2. Account' = Account
    BY <1>1, <1>7 DEF Account
  <2>3. QuotaHeld'
    BY <2>1 DEF QuotaHeld
  <2> QED
    BY <1>6, <2>2, <2>3
<1>8. CASE old = "reserved" /\ new \in {"held", "released"}
  <2>1. Reserving' = Reserving \ {u} /\ (Holding' = Holding \union {u} \/ Holding' = Holding)
    BY <1>2, <1>3, <1>8
  <2>2. Ledger!Settle(u)
    BY <1>1, <1>8 DEF Ledger!Settle
  <2>3. QuotaHeld'
    BY <1>3, <1>5, <1>8, <2>1, TotalsSettle DEF QuotaHeld
  <2> QED
    BY <1>6, <2>2, <2>3 DEF Ledger!Next
<1>9. CASE old = "none" /\ new = "reserved" /\ WithinQuota(u)
  <2>1. Reserving' = Reserving \union {u} /\ Holding' = Holding
    BY <1>2, <1>3, <1>9
  <2>2. Ledger!Reserve(u)
    BY <1>1, <1>4, <1>9, LedgerTotal DEF Ledger!Reserve, WithinQuota
  <2>3. QuotaHeld'
    BY <1>3, <1>5, <1>9, <2>1, TotalsReserve DEF QuotaHeld, WithinQuota
  <2> QED
    BY <1>6, <2>2, <2>3 DEF Ledger!Next
<1> QED
  BY <1>7, <1>8, <1>9 DEF Moves

\* The step of request r on upload u, which no other request is at work on.
LEMMA ActIsGood ==
    ASSUME Inv, NEW r \in Requests, NEW u \in Uploads,
           \A q \in Requests : q # r => Of(q) # u,
           NEW row, NEW n, NEW m, NEW t \in Task,
           UploadOK(u, row, n, m), Moves(u, uploads[u], row),
           t = NoTask \/ (t.at # "idle" /\ t.upload = u /\ Fits(t, u, row, n, m)),
           uploads' = [uploads EXCEPT ![u] = row],
           stored' = [stored EXCEPT ![u] = n],
           staging' = [staging EXCEPT ![u] = m],
           task' = [task EXCEPT ![r] = t],
           backlog' \subseteq Uploads
    PROVE  Good
<1>0. /\ uploads \in [Uploads -> UploadRow] /\ stored \in [Uploads -> 0..MaxBytes]
      /\ staging \in [Uploads -> (0..MaxBytes) \union {NoFile}] /\ task \in [Requests -> Task]
  BY DEF Inv, UploadsOK, TasksOK
<1>1. QuotaHeld' /\ [Ledger!Next]_Account /\ EndsStep
  BY AccountStep DEF Inv
<1>2. /\ uploads'[u] = row /\ stored'[u] = n /\ staging'[u] = m
      /\ \A v \in Uploads : v # u => /\ uploads'[v] = uploads[v] /\ stored'[v] = stored[v]
                                     /\ staging'[v] = staging[v]
  BY <1>0
<1>3. task'[r] = t /\ \A q \in Requests : q # r => task'[q] = task[q]
  BY <1>0
<1>4. UploadsOK'
  <2>1. row \in UploadRow /\ n \in 0..MaxBytes /\ m \in (0..MaxBytes) \union {NoFile}
    BY SizeNat, QuotaAssumption DEF UploadOK
  <2>2. /\ uploads' \in [Uploads -> UploadRow] /\ stored' \in [Uploads -> 0..MaxBytes]
        /\ staging' \in [Uploads -> (0..MaxBytes) \union {NoFile}]
    BY <1>0, <2>1
  <2>3. \A v \in Uploads : UploadOK(v, uploads'[v], stored'[v], staging'[v])
    BY <1>2 DEF Inv, UploadsOK
  <2> QED
    BY <2>2, <2>3 DEF UploadsOK
<1>5. TasksOK'
  <2>1. task' \in [Requests -> Task]
    BY <1>0
  <2>2. ASSUME NEW q \in Requests
        PROVE  task'[q] = NoTask \/ AtWork(task[q])'
    <3>1. CASE q = r
      BY <1>2, <1>3, <3>1 DEF AtWork
    <3>2. CASE q # r
      <4>1. task'[q] = task[q] /\ task[q].upload # u
        BY <1>3, <3>2 DEF Of
      <4>2. task[q] = NoTask \/ AtWork(task[q])
        BY DEF Inv, TasksOK
      <4> QED
        BY <1>2, <4>1, <4>2 DEF AtWork
    <3> QED
      BY <3>1, <3>2
  <2> QED
    BY <2>1, <2>2 DEF TasksOK
<1>6. Alone'
  <2>1. t.upload \in {u, NoUpload}
    BY DEF NoTask
  <2> QED
    BY <1>3, <2>1 DEF Inv, Alone, Of
<1> QED
  BY <1>1, <1>4, <1>5, <1>6 DEF Good, Inv

\* A step outside the requests that changes a row in a way none of them minds.
LEMMA RowIsGood ==
    ASSUME Inv, NEW u \in Uploads, NEW row,
           UploadOK(u, row, stored[u], staging[u]), Moves(u, uploads[u], row),
           \A t \in Task : Fits(t, u, uploads[u], stored[u], staging[u])
                            => Fits(t, u, row, stored[u], staging[u]),
           uploads' = [uploads EXCEPT ![u] = row],
           UNCHANGED <<stored, staging, task, backlog>>
    PROVE  Good
<1>0. /\ uploads \in [Uploads -> UploadRow] /\ task \in [Requests -> Task]
  BY DEF Inv, UploadsOK, TasksOK
<1>1. QuotaHeld' /\ [Ledger!Next]_Account /\ EndsStep
  BY AccountStep DEF Inv
<1>2. /\ uploads'[u] = row
      /\ \A v \in Uploads : v # u => uploads'[v] = uploads[v]
  BY <1>0
<1>3. UploadsOK'
  <2>1. row \in UploadRow
    BY DEF UploadOK
  <2>2. uploads' \in [Uploads -> UploadRow]
    BY <1>0, <2>1
  <2>3. \A v \in Uploads : UploadOK(v, uploads'[v], stored[v], staging[v])
    BY <1>2 DEF Inv, UploadsOK
  <2> QED
    BY <2>2, <2>3 DEF Inv, UploadsOK
<1>4. TasksOK'
  <2>1. ASSUME NEW q \in Requests
        PROVE  task[q] = NoTask \/ AtWork(task[q])'
    BY <1>0, <1>2 DEF Inv, TasksOK, AtWork
  <2> QED
    BY <2>1 DEF Inv, TasksOK
<1> QED
  BY <1>1, <1>3, <1>4 DEF Good, Inv, Alone, Of

\* Bytes that come to an upload without a request.
LEMMA BytesAreGood ==
    ASSUME Inv, NEW u \in Uploads, NEW n,
           UploadOK(u, uploads[u], n, staging[u]),
           \A t \in Task : Fits(t, u, uploads[u], stored[u], staging[u])
                            => Fits(t, u, uploads[u], n, staging[u]),
           stored' = [stored EXCEPT ![u] = n],
           UNCHANGED <<uploads, staging, task, backlog>>
    PROVE  Good
<1>0. stored \in [Uploads -> 0..MaxBytes] /\ task \in [Requests -> Task]
  BY DEF Inv, UploadsOK, TasksOK
<1>1. QuotaHeld' /\ UNCHANGED Account /\ EndsStep
  BY DEF Inv, QuotaHeld, Holding, Reserving, Account, EndsStep
<1>2. stored'[u] = n /\ \A v \in Uploads : v # u => stored'[v] = stored[v]
  BY <1>0
<1>3. UploadsOK'
  <2>1. n \in 0..MaxBytes
    BY SizeNat, QuotaAssumption DEF UploadOK
  <2>2. stored' \in [Uploads -> 0..MaxBytes]
    BY <1>0, <2>1
  <2>3. \A v \in Uploads : UploadOK(v, uploads[v], stored'[v], staging[v])
    BY <1>2 DEF Inv, UploadsOK
  <2> QED
    BY <2>2, <2>3 DEF Inv, UploadsOK
<1>4. TasksOK'
  <2>1. ASSUME NEW q \in Requests
        PROVE  task[q] = NoTask \/ AtWork(task[q])'
    BY <1>0, <1>2 DEF Inv, TasksOK, AtWork
  <2> QED
    BY <2>1 DEF Inv, TasksOK
<1> QED
  BY <1>1, <1>3, <1>4 DEF Good, Inv, Alone, Of

-----------------------------------------------------------------------------
(* What the step of a request starts from.                                 *)

LEMMA Mine ==
    ASSUME Inv, NEW r \in Requests, ~Idle(r)
    PROVE  /\ Of(r) \in Uploads
           /\ \A q \in Requests : q # r => Of(q) # Of(r)
           /\ task[r] \in Task
           /\ uploads[Of(r)] \in UploadRow
           /\ UploadOK(Of(r), uploads[Of(r)], stored[Of(r)], staging[Of(r)])
           /\ Fits(task[r], Of(r), uploads[Of(r)], stored[Of(r)], staging[Of(r)])
<1>1. AtWork(task[r]) /\ task[r] \in Task
  BY DEF Inv, TasksOK, Idle, NoTask
<1>2. Of(r) \in Uploads
  BY <1>1 DEF AtWork, Of
<1> QED
  BY <1>1, <1>2, UploadAssumption DEF AtWork, Of, Inv, UploadsOK, Alone

LEMMA Frame ==
    ASSUME Inv
    PROVE  /\ \A u \in Uploads : /\ uploads = [uploads EXCEPT ![u] = uploads[u]]
                               /\ stored = [stored EXCEPT ![u] = stored[u]]
                               /\ staging = [staging EXCEPT ![u] = staging[u]]
           /\ \A r \in Requests : task = [task EXCEPT ![r] = task[r]]
BY DEF Inv, UploadsOK, TasksOK

LEMMA GoesTo ==
    ASSUME Inv, NEW r \in Requests, NEW a \in Awaits, GoTo(r, a)
    PROVE  /\ task' = [task EXCEPT ![r] = [task[r] EXCEPT !.at = a]]
           /\ [task[r] EXCEPT !.at = a] \in Task
BY DEF Inv, TasksOK, GoTo, Task

LEMMA NoTaskType == NoTask \in Task /\ NoTask.at = "idle" /\ NoTask.upload = NoUpload
BY QuotaAssumption DEF NoTask, Task, Awaits, Calls

\* A request that ends after its last write.
LEMMA ReturnIsGood ==
    ASSUME Inv, NEW r \in Requests, ~Idle(r), NEW row, NEW n, NEW m,
           UploadOK(Of(r), row, n, m), Moves(Of(r), uploads[Of(r)], row),
           uploads' = [uploads EXCEPT ![Of(r)] = row],
           stored' = [stored EXCEPT ![Of(r)] = n],
           staging' = [staging EXCEPT ![Of(r)] = m],
           Return(r), UNCHANGED backlog
    PROVE  Good
<1>1. task' = [task EXCEPT ![r] = NoTask]
  BY DEF Return
<1>2. backlog' \subseteq Uploads
  BY DEF Inv
<1> QED
  BY <1>1, <1>2, Mine, NoTaskType, ActIsGood

\* A request that goes on.
LEMMA ContinueIsGood ==
    ASSUME Inv, NEW r \in Requests, ~Idle(r), NEW row, NEW n, NEW m, NEW t \in Task,
           UploadOK(Of(r), row, n, m), Moves(Of(r), uploads[Of(r)], row),
           t.at # "idle", t.upload = Of(r), Fits(t, Of(r), row, n, m),
           uploads' = [uploads EXCEPT ![Of(r)] = row],
           stored' = [stored EXCEPT ![Of(r)] = n],
           staging' = [staging EXCEPT ![Of(r)] = m],
           task' = [task EXCEPT ![r] = t], UNCHANGED backlog
    PROVE  Good
<1>1. backlog' \subseteq Uploads
  BY DEF Inv
<1>2. Of(r) \in Uploads /\ \A q \in Requests : q # r => Of(q) # Of(r)
  BY Mine
<1> QED
  BY <1>1, <1>2, ActIsGood

LEMMA GoToIsGood ==
    ASSUME Inv, NEW r \in Requests, ~Idle(r), NEW row, NEW n, NEW m,
           NEW a \in Awaits \ {"idle"},
           UploadOK(Of(r), row, n, m), Moves(Of(r), uploads[Of(r)], row),
           Fits([task[r] EXCEPT !.at = a], Of(r), row, n, m),
           uploads' = [uploads EXCEPT ![Of(r)] = row],
           stored' = [stored EXCEPT ![Of(r)] = n],
           staging' = [staging EXCEPT ![Of(r)] = m],
           GoTo(r, a), UNCHANGED backlog
    PROVE  Good
<1> DEFINE t == [task[r] EXCEPT !.at = a]
<1>1. task' = [task EXCEPT ![r] = t] /\ t \in Task
  BY GoesTo
<1>2. t.at # "idle" /\ t.upload = Of(r)
  BY Mine DEF Task, Of
<1> HIDE DEF t
<1> QED
  BY <1>1, <1>2, ContinueIsGood DEF t

\* A request that stays where it is.
LEMMA StayIsGood ==
    ASSUME Inv, NEW r \in Requests, ~Idle(r), NEW row, NEW n, NEW m,
           UploadOK(Of(r), row, n, m), Moves(Of(r), uploads[Of(r)], row),
           Fits(task[r], Of(r), row, n, m),
           uploads' = [uploads EXCEPT ![Of(r)] = row],
           stored' = [stored EXCEPT ![Of(r)] = n],
           staging' = [staging EXCEPT ![Of(r)] = m],
           UNCHANGED <<task, backlog>>
    PROVE  Good
<1>1. task' = [task EXCEPT ![r] = task[r]] /\ backlog' \subseteq Uploads
  BY Frame DEF Inv
<1>2. task[r].at # "idle" /\ task[r].upload = Of(r)
  BY DEF Idle, Of
<1> QED
  BY <1>1, <1>2, Mine, ActIsGood

LEMMA StaysOpen ==
    ASSUME NEW u, NEW old, NEW new, NEW n, NEW m, NEW k, NEW l,
           UploadOK(u, old, n, m), UploadOK(u, new, k, l),
           old.state \in Open, new.state \in Open
    PROVE  Moves(u, old, new)
<1>1. Standing(old) = "reserved" /\ Standing(new) = "reserved"
  BY Standings
<1> QED
  BY <1>1 DEF Moves

LEMMA Still == \A u, row : Moves(u, row, row)
BY DEF Moves

-----------------------------------------------------------------------------
(* The finalizer's steps.                                                  *)

LEMMA PutLandsGood ==
    ASSUME Inv, NEW r \in Requests, PutLands(r), UNCHANGED <<staging, backlog>>
    PROVE  Good
<1> DEFINE u == Of(r)
<1>1. ~Idle(r)
  BY DEF PutLands, Idle
<1>2. uploads[u].state \in Open /\ (u \in Tus => staging[u] = Size[u]) /\ task[r].at = "putting"
  BY <1>1, Mine DEF PutLands, Fits, OnOpen
<1>3. UploadOK(u, uploads[u], Size[u], staging[u])
  BY <1>1, <1>2, Mine, SizeNat, TusAssumption DEF UploadOK, Open
<1>4. Fits(task[r], u, uploads[u], Size[u], staging[u])
  BY <1>1, <1>2, Mine DEF Fits
<1>5. /\ uploads' = [uploads EXCEPT ![u] = uploads[u]]
      /\ stored' = [stored EXCEPT ![u] = Size[u]]
      /\ staging' = [staging EXCEPT ![u] = staging[u]]
      /\ UNCHANGED <<task, backlog>>
  BY <1>1, Mine, Frame DEF PutLands
<1>6. Moves(u, uploads[u], uploads[u])
  BY Still
<1> QED
  BY <1>1, <1>3, <1>4, <1>5, <1>6, StayIsGood

LEMMA DeleteLandsGood ==
    ASSUME Inv, NEW r \in Requests, DeleteLands(r), UNCHANGED <<staging, backlog>>
    PROVE  Good
<1> DEFINE u == Of(r)
<1>1. ~Idle(r)
  BY DEF DeleteLands, Idle
<1>2. uploads[u].object # "available" \/ Size[u] = 0
  BY <1>1, Mine DEF DeleteLands, Fits, OnOpen, UploadOK, Open
<1>3. UploadOK(u, uploads[u], 0, staging[u])
  BY <1>1, <1>2, Mine DEF UploadOK
<1>4. Fits(task[r], u, uploads[u], 0, staging[u])
  BY <1>1, Mine DEF Fits
<1>5. /\ uploads' = [uploads EXCEPT ![u] = uploads[u]]
      /\ stored' = [stored EXCEPT ![u] = 0]
      /\ staging' = [staging EXCEPT ![u] = staging[u]]
      /\ UNCHANGED <<task, backlog>>
  BY <1>1, Mine, Frame DEF DeleteLands
<1>6. Moves(u, uploads[u], uploads[u])
  BY Still
<1> QED
  BY <1>1, <1>3, <1>4, <1>5, <1>6, StayIsGood

LEMMA MarkValidatingGood ==
    ASSUME Inv, NEW r \in Requests, MarkValidating(r), UNCHANGED <<staging, backlog>>
    PROVE  Good
<1> DEFINE u == Of(r)
           row == [uploads[u] EXCEPT !.state = "validating", !.received = stored[u],
                                     !.asset = "validating"]
<1>1. ~Idle(r) /\ task[r].at = "putting" /\ stored[u] = Size[u]
  BY DEF MarkValidating, Idle
<1>2. uploads[u].state \in Open /\ (u \in Tus => staging[u] = Size[u])
  BY <1>1, Mine DEF Fits, OnOpen
<1>3. u \in Uploads /\ stored[u] \in 0..MaxBytes /\ uploads[u] \in UploadRow
  BY <1>1, Mine DEF Inv, UploadsOK
<1>4. row \in UploadRow
  BY <1>3 DEF UploadRow, UploadStates, AssetStates, Open
<1>5. UploadOK(u, row, stored[u], staging[u])
  BY <1>1, <1>2, <1>3, <1>4, Mine, SizeNat, TusAssumption DEF UploadOK, UploadRow, Open
<1>6. Moves(u, uploads[u], row)
  <2>1. row.state \in Open
    BY <1>3 DEF UploadRow, Open
  <2>2. UploadOK(u, uploads[u], stored[u], staging[u])
    BY <1>1, Mine
  <2> HIDE DEF row
  <2> QED
    BY <1>2, <1>5, <2>1, <2>2, StaysOpen
<1>7. Fits([task[r] EXCEPT !.at = "checking"], u, row, stored[u], staging[u])
  BY <1>1, Mine DEF Fits, OnOpen, Task, UploadRow, Open
<1>8. /\ uploads' = [uploads EXCEPT ![u] = row]
      /\ stored' = [stored EXCEPT ![u] = stored[u]]
      /\ staging' = [staging EXCEPT ![u] = staging[u]]
      /\ GoTo(r, "checking")
  BY <1>3, Frame DEF MarkValidating, Write
<1> HIDE DEF row
<1> QED
  BY <1>1, <1>5, <1>6, <1>7, <1>8, GoToIsGood DEF Awaits

\* Both outcomes of the finalizer end a simple upload's request and send that of
\* a resumable one on to its staging file.
LEMMA FinishedIsGood ==
    ASSUME Inv, NEW r \in Requests, ~Idle(r), NEW row,
           UploadOK(Of(r), row, stored[Of(r)], staging[Of(r)]),
           Moves(Of(r), uploads[Of(r)], row),
           row.state \in {"completed", "rejected"},
           uploads' = [uploads EXCEPT ![Of(r)] = row], UNCHANGED <<stored, staging, backlog>>,
           Finished(r)
    PROVE  Good
<1> DEFINE u == Of(r)
<1>1. u \in Uploads /\ stored' = [stored EXCEPT ![u] = stored[u]]
      /\ staging' = [staging EXCEPT ![u] = staging[u]]
  BY Mine, Frame
<1>2. CASE Return(r)
  BY <1>1, <1>2, ReturnIsGood
<1>3. CASE GoTo(r, "cleaning")
  <2>1. Fits([task[r] EXCEPT !.at = "cleaning"], u, row, stored[u], staging[u])
    BY Mine DEF Fits, OnOpen, Task, Open
  <2> QED
    BY <1>1, <1>3, <2>1, GoToIsGood DEF Awaits
<1> QED
  BY <1>2, <1>3 DEF Finished

LEMMA CompleteGood ==
    ASSUME Inv, NEW r \in Requests, Complete(r), UNCHANGED <<staging, backlog>>
    PROVE  Good
<1> DEFINE u == Of(r)
           row == [Completed(uploads[u]) EXCEPT !.content = "declared"]
<1>1. ~Idle(r) /\ task[r].at = "checking" /\ stored[u] # 0
  BY DEF Complete, Idle
<1>2. uploads[u].state \in Open
  BY <1>1, Mine DEF Fits, OnOpen
<1>3. uploads[u] \in UploadRow /\ uploads[u].inspections = 0 /\ 0 + 1 \in Nat
  BY <1>1, <1>2, Mine DEF UploadOK
<1>4. row \in UploadRow
  BY <1>3 DEF UploadRow, Completed, UploadStates, AssetStates, ObjectStates
<1>5. /\ row.state = "completed" /\ row.object = "available" /\ row.asset = "processing"
      /\ row.content = "declared" /\ row.inspections = 1 /\ row.received = uploads[u].received
  BY <1>3 DEF UploadRow, Completed
<1>6. UploadOK(u, row, stored[u], staging[u])
  BY <1>1, <1>4, <1>5, Mine DEF UploadOK, Open
<1>7. Moves(u, uploads[u], row)
  BY <1>1, <1>2, <1>5, <1>6, Mine, Standings DEF Moves
<1> QED
  BY <1>1, <1>5, <1>6, <1>7, FinishedIsGood DEF Complete, Write

LEMMA RefuseGood ==
    ASSUME Inv, NEW r \in Requests, Refuse(r), UNCHANGED <<staging, backlog>>
    PROVE  Good
<1> DEFINE u == Of(r)
           row == [uploads[u] EXCEPT !.content = "other"]
<1>1. ~Idle(r) /\ task[r].at = "checking"
  BY DEF Refuse, Idle
<1>2. uploads[u].state \in Open /\ uploads[u].object = "staging" /\ u \in Uploads
  BY <1>1, Mine DEF Fits, OnOpen, UploadOK
<1>3. row \in UploadRow
  BY <1>1, Mine DEF UploadRow
<1>4. UploadOK(u, row, stored[u], staging[u])
  BY <1>1, <1>2, <1>3, Mine DEF UploadOK, UploadRow
<1>5. Moves(u, uploads[u], row)
  BY <1>1, <1>2, <1>4, Mine, Standings DEF Moves, UploadRow
<1>6. Fits([task[r] EXCEPT !.at = "rejecting"], u, row, stored[u], staging[u])
  BY <1>1, <1>2, Mine DEF Fits, OnOpen, Task, UploadRow
<1> QED
  BY <1>1, <1>2, <1>4, <1>5, <1>6, Frame, GoToIsGood DEF Refuse, Write, Awaits

LEMMA RejectContentGood ==
    ASSUME Inv, NEW r \in Requests, RejectContent(r), UNCHANGED <<staging, backlog>>
    PROVE  Good
<1> DEFINE u == Of(r)
<1>1. ~Idle(r) /\ task[r].at = "rejecting"
  BY DEF RejectContent, Idle
<1>2. uploads[u].state \in Open /\ uploads[u] \in UploadRow
  BY <1>1, Mine DEF Fits, OnOpen
<1>3. PICK object \in {"deleted", "failed"} :
         (object = "deleted" => stored[u] = 0) /\ Write(u, Rejected(uploads[u], object))
  BY DEF RejectContent
<1> DEFINE row == Rejected(uploads[u], object)
<1>4. row \in UploadRow
  BY <1>2 DEF UploadRow, Rejected, UploadStates, AssetStates, ObjectStates
<1>5. /\ row.state = "rejected" /\ row.object = object /\ row.asset = "rejected"
      /\ row.received = uploads[u].received
  BY <1>2 DEF UploadRow, Rejected
<1>6. UploadOK(u, row, stored[u], staging[u])
  BY <1>1, <1>3, <1>4, <1>5, Mine DEF UploadOK, Open
<1>7. Moves(u, uploads[u], row)
  BY <1>1, <1>2, <1>3, <1>5, <1>6, Mine, Standings DEF Moves, Open
<1> QED
  BY <1>1, <1>3, <1>5, <1>6, <1>7, FinishedIsGood DEF RejectContent, Write

\* A row that records an unanswered request still fits the upload.
LEMMA OutstandingOK ==
    ASSUME NEW u, NEW old, NEW new, NEW n, NEW m, UploadOK(u, new, n, m),
           new.state # "absent", Moves(u, old, new), NEW row,
           row = new \/ row = [new EXCEPT !.late = TRUE]
    PROVE  UploadOK(u, row, n, m) /\ Moves(u, old, row)
<1>1. new \in UploadRow
  BY DEF UploadOK
<1>2. row \in UploadRow
  BY <1>1 DEF UploadRow
<1>3. /\ row.state = new.state /\ row.object = new.object /\ row.asset = new.asset
      /\ row.inspections = new.inspections /\ row.received = new.received
      /\ row.content = new.content /\ row.unhinged = new.unhinged
      /\ row.late \/ row.late = new.late
  BY <1>1 DEF UploadRow
<1>4. UploadOK(u, row, n, m)
  BY <1>2, <1>3 DEF UploadOK
<1>5. Standing(row) = Standing(new)
  BY <1>3 DEF Standing
<1> QED
  BY <1>3, <1>4, <1>5 DEF Moves

LEMMA AbandonGood ==
    ASSUME Inv, NEW r \in Requests, Abandon(r), UNCHANGED <<staging, backlog>>
    PROVE  Good
<1> DEFINE u == Of(r)
<1>1. ~Idle(r) /\ u \in Uploads /\ Moves(u, uploads[u], uploads[u])
  BY Mine, Still DEF Abandon
<1>2. CASE UNCHANGED uploads
  BY <1>1, <1>2, Mine, Frame, ReturnIsGood DEF Abandon
<1>3. CASE task[r].at = "putting"
  <2>1. PICK row \in Outstanding(u, uploads[u]) : Write(u, row)
    BY <1>3 DEF Abandon
  <2>2. uploads[u].state \in Open /\ UploadOK(u, uploads[u], stored[u], staging[u])
    BY <1>1, <1>3, Mine DEF Fits, OnOpen
  <2>3. row = uploads[u] \/ row = [uploads[u] EXCEPT !.late = TRUE]
    BY DEF Outstanding
  <2>4. UploadOK(u, row, stored[u], staging[u]) /\ Moves(u, uploads[u], row)
    BY <1>1, <2>2, <2>3, OutstandingOK DEF Open
  <2>5. /\ stored' = [stored EXCEPT ![u] = stored[u]]
        /\ staging' = [staging EXCEPT ![u] = staging[u]]
    BY <1>1, Frame DEF Abandon
  <2> QED
    BY <1>1, <2>1, <2>4, <2>5, ReturnIsGood DEF Abandon, Write
<1> QED
  BY <1>2, <1>3 DEF Abandon

LEMMA LateLandsGood ==
    ASSUME Inv, NEW u \in Uploads, LateLands(u), UNCHANGED <<staging, backlog>>
    PROVE  Good
<1>1. UploadOK(u, uploads[u], stored[u], staging[u])
  BY DEF Inv, UploadsOK
<1>2. UploadOK(u, uploads[u], Size[u], staging[u])
  BY <1>1, SizeNat, QuotaAssumption DEF LateLands, UploadOK
<1>3. \A t \in Task : Fits(t, u, uploads[u], stored[u], staging[u])
                       => Fits(t, u, uploads[u], Size[u], staging[u])
  BY DEF Fits, LateLands
<1> QED
  BY <1>2, <1>3, BytesAreGood DEF LateLands

LEMMA InspectGood ==
    ASSUME Inv, NEW u \in Uploads, Inspect(u), UNCHANGED <<staging, backlog>>
    PROVE  Good
<1>1. PICK s \in {"ready", "rejected"} : Write(u, [uploads[u] EXCEPT !.asset = s])
  BY DEF Inspect
<1> DEFINE row == [uploads[u] EXCEPT !.asset = s]
<1>2. UploadOK(u, uploads[u], stored[u], staging[u]) /\ uploads[u] \in UploadRow
  BY DEF Inv, UploadsOK
<1>3. row \in UploadRow
  BY <1>2 DEF UploadRow, AssetStates
<1>4. UploadOK(u, row, stored[u], staging[u])
  BY <1>2, <1>3 DEF UploadOK, UploadRow, Inspect
<1>5. Moves(u, uploads[u], row)
  BY <1>2, <1>4, Standings DEF Moves, UploadRow, Standing
<1>6. \A t \in Task : Fits(t, u, uploads[u], stored[u], staging[u])
                       => Fits(t, u, row, stored[u], staging[u])
  BY <1>2 DEF Fits, UploadRow
<1> QED
  BY <1>1, <1>4, <1>5, <1>6, RowIsGood DEF Inspect, Write

-----------------------------------------------------------------------------
(* The steps of simple uploads and of their reconciler.                    *)

LEMMA IdleTask ==
    ASSUME Inv, NEW r \in Requests, Idle(r)
    PROVE  task[r] = NoTask /\ Of(r) = NoUpload
BY NoTaskType DEF Inv, TasksOK, Idle, AtWork, Of

\* A new task on an upload that no request is at work on.
LEMMA BeginIsGood ==
    ASSUME Inv, NEW r \in Requests, Idle(r), NEW u \in Uploads,
           \A q \in Requests : Of(q) # u,
           NEW row, NEW t \in Task,
           UploadOK(u, row, stored[u], staging[u]), Moves(u, uploads[u], row),
           t.at # "idle", t.upload = u, Fits(t, u, row, stored[u], staging[u]),
           uploads' = [uploads EXCEPT ![u] = row], UNCHANGED <<stored, staging>>,
           task' = [task EXCEPT ![r] = t], backlog' \subseteq Uploads
    PROVE  Good
<1> DEFINE n == stored[u]
           m == staging[u]
<1>1. stored' = [stored EXCEPT ![u] = n] /\ staging' = [staging EXCEPT ![u] = m]
  BY Frame
<1>2. \A q \in Requests : q # r => Of(q) # u
  OBVIOUS
<1>3. /\ t = NoTask \/ (t.at # "idle" /\ t.upload = u /\ Fits(t, u, row, n, m))
      /\ UploadOK(u, row, n, m)
  OBVIOUS
<1> HIDE DEF n, m
<1> QED
  BY <1>1, <1>2, <1>3, ActIsGood

\* No request is at work on an upload that does not exist yet.
LEMMA AbsentIsFree ==
    ASSUME Inv, NEW u \in Uploads, uploads[u].state = "absent"
    PROVE  /\ \A q \in Requests : Of(q) # u
           /\ UploadOK(u, uploads[u], stored[u], staging[u])
<1>1. ASSUME NEW q \in Requests, Of(q) = u PROVE FALSE
  <2>1. ~Idle(q)
    BY <1>1, IdleTask, UploadAssumption
  <2>2. Fits(task[q], u, uploads[u], stored[u], staging[u]) /\ task[q].at # "idle"
        /\ task[q].at \in Awaits
    BY <1>1, <2>1, Mine DEF Idle, Task
  <2> QED
    BY <2>2 DEF Fits, OnOpen, Awaits, Open
<1>2. UploadOK(u, uploads[u], stored[u], staging[u])
  BY DEF Inv, UploadsOK
<1> QED
  BY <1>1, <1>2

LEMMA ReservationOK ==
    ASSUME Inv, NEW u \in Uploads, uploads[u].state = "absent", WithinQuota(u)
    PROVE  /\ UploadOK(u, Reservation, stored[u], staging[u])
           /\ Moves(u, uploads[u], Reservation)
           /\ Reservation.state = "receiving" /\ Reservation.received = 0
           /\ ~Reservation.late
<1>0. UploadOK(u, uploads[u], stored[u], staging[u])
  BY AbsentIsFree
<1>1. AbsentUpload \in UploadRow
  BY QuotaAssumption DEF AbsentUpload, UploadRow, UploadStates, AssetStates, ObjectStates
<1>2. Reservation \in UploadRow
  BY <1>1 DEF Reservation, UploadRow, UploadStates, AssetStates, ObjectStates, Open
<1>3. /\ Reservation.state = "receiving" /\ Reservation.received = 0
      /\ Reservation.asset = "uploading" /\ Reservation.object = "staging"
      /\ Reservation.inspections = 0 /\ ~Reservation.late
  BY DEF Reservation, AbsentUpload
<1>4. UploadOK(u, Reservation, stored[u], staging[u])
  BY <1>0, <1>2, <1>3, TusAssumption, QuotaAssumption DEF UploadOK, Open
<1>5. Moves(u, uploads[u], Reservation)
  BY <1>0, <1>3, <1>4, Standings DEF Moves, Open
<1> QED
  BY <1>3, <1>4, <1>5

LEMMA ReserveGood ==
    ASSUME Inv, NEW r \in Requests, NEW u \in Uploads, Reserve(r, u),
           UNCHANGED <<staging, backlog>>
    PROVE  Good
<1> DEFINE t == [NoTask EXCEPT !.call = "simple", !.upload = u, !.at = "putting"]
<1>1. t.at = "putting" /\ t.upload = u
  BY NoTaskType DEF Task
<1>2. t \in Task
  BY NoTaskType DEF Task, Calls, Awaits
<1>3. Fits(t, u, Reservation, stored[u], staging[u])
  BY <1>1, ReservationOK, ProtocolAssumption DEF Reserve, Fits, OnOpen, Open
<1>4. \A q \in Requests : Of(q) # u
  BY AbsentIsFree DEF Reserve
<1>5. backlog' \subseteq Uploads
  BY DEF Inv
<1>6. t.at # "idle" /\ t.upload = u
  BY <1>1
<1>7. /\ uploads' = [uploads EXCEPT ![u] = Reservation] /\ UNCHANGED <<stored, staging>>
      /\ task' = [task EXCEPT ![r] = t] /\ Idle(r)
  BY DEF Reserve, Write
<1>8. UploadOK(u, Reservation, stored[u], staging[u]) /\ Moves(u, uploads[u], Reservation)
  BY ReservationOK DEF Reserve
<1> HIDE DEF t
<1> QED
  BY <1>2, <1>3, <1>4, <1>5, <1>6, <1>7, <1>8, BeginIsGood

LEMMA StorageFailsGood ==
    ASSUME Inv, NEW r \in Requests, StorageFails(r), UNCHANGED <<staging, backlog>>
    PROVE  Good
<1> DEFINE u == Of(r)
<1>1. ~Idle(r) /\ task[r].at = "putting" /\ Return(r)
  BY DEF StorageFails, Idle
<1>2. uploads[u].state \in Open /\ uploads[u] \in UploadRow /\ u \in Uploads
  BY <1>1, Mine DEF Fits, OnOpen
<1>3. PICK s \in {"rejected", "failed"} :
         \E row \in Outstanding(u, Unstored(uploads[u], s)) : Write(u, row)
  BY DEF StorageFails, Outstanding
<1> DEFINE new == Unstored(uploads[u], s)
<1>a. PICK row \in Outstanding(u, new) : Write(u, row)
  BY <1>3
<1>4. new \in UploadRow
  BY <1>2 DEF UploadRow, Unstored, UploadStates, AssetStates, ObjectStates
<1>5. /\ new.state = s /\ new.object = "failed" /\ new.asset = s
      /\ new.received = uploads[u].received
  BY <1>2 DEF UploadRow, Unstored
<1>6. UploadOK(u, new, stored[u], staging[u])
  BY <1>1, <1>4, <1>5, Mine DEF UploadOK, Open
<1>7. Moves(u, uploads[u], new)
  BY <1>1, <1>2, <1>5, <1>6, Mine, Standings DEF Moves, Open
<1>b. row = new \/ row = [new EXCEPT !.late = TRUE]
  BY DEF Outstanding
<1>c. UploadOK(u, row, stored[u], staging[u]) /\ Moves(u, uploads[u], row)
  <2> HIDE DEF new
  <2>1. new.state # "absent"
    BY <1>5
  <2> QED
    BY <1>6, <1>7, <1>b, <2>1, OutstandingOK
<1>8. /\ uploads' = [uploads EXCEPT ![u] = row]
      /\ stored' = [stored EXCEPT ![u] = stored[u]]
      /\ staging' = [staging EXCEPT ![u] = staging[u]]
  BY <1>2, <1>a, Frame DEF StorageFails, Write
<1> QED
  BY <1>1, <1>c, <1>8, ReturnIsGood

\* The reconciler of simple uploads runs alone.
LEMMA ReconcileGood ==
    ASSUME Inv, NEW r \in Requests, NEW u \in Uploads, Reconcile(r, u), Quiet,
           UNCHANGED staging, backlog' \subseteq Uploads
    PROVE  Good
<1> DEFINE t == [NoTask EXCEPT !.call = "simple", !.upload = u, !.at = "removing"]
<1>1. t.at = "removing" /\ t.upload = u
  BY NoTaskType DEF Task
<1>2. t \in Task
  BY NoTaskType DEF Task, Calls, Awaits
<1>3. Fits(t, u, uploads[u], stored[u], staging[u])
  BY <1>1 DEF Fits, OnOpen, Reconcile, Candidates
<1>4. \A q \in Requests : Of(q) # u
  BY IdleTask, UploadAssumption DEF Quiet
<1>5. UploadOK(u, uploads[u], stored[u], staging[u]) /\ Moves(u, uploads[u], uploads[u])
  BY Still DEF Inv, UploadsOK
<1>6. t.at # "idle" /\ t.upload = u
  BY <1>1
<1>7. /\ uploads' = [uploads EXCEPT ![u] = uploads[u]] /\ UNCHANGED <<stored, staging>>
      /\ task' = [task EXCEPT ![r] = t] /\ Idle(r)
  BY Frame DEF Reconcile
<1> HIDE DEF t
<1> QED
  BY <1>2, <1>3, <1>4, <1>5, <1>6, <1>7, BeginIsGood

LEMMA ReconciledGood ==
    ASSUME Inv, NEW r \in Requests, Reconciled(r), UNCHANGED <<staging, backlog>>
    PROVE  Good
<1> DEFINE u == Of(r)
<1>1. ~Idle(r) /\ task[r].at = "removing" /\ Return(r)
  BY DEF Reconciled, Idle
<1>2. /\ uploads[u].state \in Open \union {"failed", "rejected"}
      /\ uploads[u] \in UploadRow /\ u \in Uploads
  BY <1>1, Mine DEF Fits
<1>3. PICK object \in {"deleted", "failed"} :
         (object = "deleted" => stored[u] = 0) /\ Write(u, Cleaned(uploads[u], object))
  BY DEF Reconciled
<1> DEFINE row == Cleaned(uploads[u], object)
<1>4. row \in UploadRow
  BY <1>2 DEF UploadRow, Cleaned, UploadStates, AssetStates, ObjectStates
<1>5. /\ row.object = object /\ row.received = uploads[u].received
      /\ uploads[u].state \in Open => row.state = "failed" /\ row.asset = "failed"
      /\ uploads[u].state \notin Open =>
            /\ row.state = uploads[u].state /\ row.asset = uploads[u].asset
            /\ row.inspections = uploads[u].inspections
  BY <1>2 DEF UploadRow, Cleaned
<1>6. UploadOK(u, row, stored[u], staging[u])
  BY <1>1, <1>2, <1>3, <1>4, <1>5, Mine DEF UploadOK, Open
<1>7. Moves(u, uploads[u], row)
  <2>1. UploadOK(u, uploads[u], stored[u], staging[u])
    BY <1>1, Mine
  <2>2. Standing(row) = "released"
    BY <1>2, <1>3, <1>5, <1>6, Standings DEF Open
  <2>3. Standing(uploads[u]) \in {"reserved", "released"}
    BY <1>2, <2>1, Standings DEF UploadOK, Open
  <2> QED
    BY <1>2, <1>5, <2>2, <2>3 DEF Moves
<1>8. /\ uploads' = [uploads EXCEPT ![u] = row]
      /\ stored' = [stored EXCEPT ![u] = stored[u]]
      /\ staging' = [staging EXCEPT ![u] = staging[u]]
  BY <1>2, <1>3, Frame DEF Reconciled, Write
<1> HIDE DEF row
<1> QED
  BY <1>1, <1>6, <1>7, <1>8, ReturnIsGood

-----------------------------------------------------------------------------
(* The steps of resumable uploads.                                         *)

LEMMA CreateTusGood ==
    ASSUME Inv, NEW r \in Requests, NEW u \in Uploads, CreateTus(r, u), UNCHANGED backlog
    PROVE  Good
<1> DEFINE t == [NoTask EXCEPT !.call = "create", !.upload = u, !.at = "creating"]
<1>1. t.at = "creating" /\ t.upload = u
  BY NoTaskType DEF Task
<1>2. t \in Task
  BY NoTaskType DEF Task, Calls, Awaits
<1>3. stored[u] = 0 /\ \A q \in Requests : Of(q) # u
  BY AbsentIsFree DEF CreateTus, UploadOK
<1>4. UploadOK(u, Reservation, stored[u], staging[u]) /\ Moves(u, uploads[u], Reservation)
  BY ReservationOK DEF CreateTus
<1>5. Fits(t, u, Reservation, stored[u], staging[u])
  BY <1>1, <1>3, ReservationOK DEF CreateTus, Fits, OnOpen, Open
<1>6. t.at # "idle" /\ backlog' \subseteq Uploads
  BY <1>1 DEF Inv
<1>7. /\ uploads' = [uploads EXCEPT ![u] = Reservation] /\ UNCHANGED <<stored, staging>>
      /\ task' = [task EXCEPT ![r] = t] /\ Idle(r)
  BY DEF CreateTus, Write
<1> HIDE DEF t
<1> QED
  BY <1>1, <1>2, <1>3, <1>4, <1>5, <1>6, <1>7, BeginIsGood

\* The end of an upload that was open: its reservation is given back.
LEMMA EndedOK ==
    ASSUME Inv, NEW u \in Uploads, uploads[u].state \in Open,
           NEW s \in {"failed", "expired", "terminated"}, NEW h \in BOOLEAN,
           stored[u] = 0 \/ h \/ uploads[u].late
    PROVE  LET row == [Ended(uploads[u], s) EXCEPT !.unhinged = h]
           IN  UploadOK(u, row, stored[u], staging[u]) /\ Moves(u, uploads[u], row)
<1> DEFINE row == [Ended(uploads[u], s) EXCEPT !.unhinged = h]
<1>1. uploads[u] \in UploadRow /\ UploadOK(u, uploads[u], stored[u], staging[u])
  BY DEF Inv, UploadsOK
<1>2. Ended(uploads[u], s) \in UploadRow
  BY <1>1 DEF Ended, UploadRow, UploadStates, AssetStates, ObjectStates
<1>3. row \in UploadRow
  BY <1>2 DEF UploadRow
<1>4. /\ row.state = s /\ row.object = "deleted" /\ row.unhinged = h
      /\ row.asset \in {"failed", "rejected"} /\ row.received = uploads[u].received
      /\ row.late = uploads[u].late
  BY <1>1, <1>2 DEF Ended, UploadRow
<1>5. UploadOK(u, row, stored[u], staging[u])
  BY <1>1, <1>3, <1>4 DEF UploadOK, Open
<1>6. Standing(row) = "released" /\ Standing(uploads[u]) = "reserved"
  BY <1>1, <1>4, <1>5, Standings DEF Open
<1> QED
  BY <1>5, <1>6 DEF Moves

LEMMA EndedIsGood ==
    ASSUME Inv, NEW r \in Requests, ~Idle(r), uploads[Of(r)].state \in Open,
           NEW s \in {"failed", "expired", "terminated"}, NEW h \in BOOLEAN,
           stored[Of(r)] = 0 \/ h \/ uploads[Of(r)].late,
           Write(Of(r), [Ended(uploads[Of(r)], s) EXCEPT !.unhinged = h]),
           Return(r), UNCHANGED <<stored, staging, backlog>>
    PROVE  Good
<1> DEFINE u == Of(r)
           row == [Ended(uploads[u], s) EXCEPT !.unhinged = h]
<1>1. u \in Uploads
  BY Mine
<1>2. UploadOK(u, row, stored[u], staging[u]) /\ Moves(u, uploads[u], row)
  BY <1>1, EndedOK
<1>3. /\ uploads' = [uploads EXCEPT ![u] = row]
      /\ stored' = [stored EXCEPT ![u] = stored[u]]
      /\ staging' = [staging EXCEPT ![u] = staging[u]]
  BY <1>1, Frame DEF Write
<1> HIDE DEF row
<1> QED
  BY <1>2, <1>3, ReturnIsGood

LEMMA EndedKeeps ==
    ASSUME NEW row \in UploadRow, NEW s
    PROVE  Ended(row, s) = [Ended(row, s) EXCEPT !.unhinged = row.unhinged]
BY DEF Ended, UploadRow

LEMMA CreationFailsGood ==
    ASSUME Inv, NEW r \in Requests, CreationFails(r), UNCHANGED backlog
    PROVE  Good
<1>1. ~Idle(r) /\ task[r].at = "creating"
  BY DEF CreationFails, Idle
<1>2. uploads[Of(r)].state \in Open /\ stored[Of(r)] = 0 /\ uploads[Of(r)] \in UploadRow
  BY <1>1, Mine DEF Fits, OnOpen
<1> DEFINE h == uploads[Of(r)].unhinged
<1>3. h \in BOOLEAN
  BY <1>2 DEF UploadRow
<1>4. Write(Of(r), [Ended(uploads[Of(r)], "failed") EXCEPT !.unhinged = h])
  BY <1>2, EndedKeeps DEF CreationFails
<1> HIDE DEF h
<1> QED
  BY <1>1, <1>2, <1>3, <1>4, EndedIsGood DEF CreationFails

LEMMA FileLostGood ==
    ASSUME Inv, NEW r \in Requests, FileLost(r), UNCHANGED backlog
    PROVE  Good
<1> DEFINE u == Of(r)
           h == uploads[u].unhinged
<1>1. ~Idle(r) /\ task[r].at = "sizing" /\ Return(r)
  BY DEF FileLost, Idle
<1>2. /\ u \in Uploads /\ uploads[u].state \in Open /\ uploads[u] \in UploadRow
      /\ UploadOK(u, uploads[u], stored[u], staging[u])
      /\ u \in Tus /\ task[r].offset = uploads[u].received
  BY <1>1, Mine DEF Fits, OnOpen
<1>3. CASE UNCHANGED uploads
  <2>1. /\ uploads' = [uploads EXCEPT ![u] = uploads[u]]
        /\ stored' = [stored EXCEPT ![u] = stored[u]]
        /\ staging' = [staging EXCEPT ![u] = staging[u]]
    BY <1>2, <1>3, Frame DEF FileLost
  <2> QED
    BY <1>1, <1>2, <2>1, Still, ReturnIsGood
<1>4. CASE Write(u, Ended(uploads[u], "failed"))
  <2>1. uploads[u].received \in 0..MaxBytes /\ staging[u] \in (0..MaxBytes) \union {NoFile}
    BY <1>2 DEF UploadRow, UploadOK
  <2>2. ~(staging[u] < task[r].offset) \/ staging[u] = NoFile
    BY <1>2, <2>1, QuotaAssumption DEF UploadOK
  <2>3. staging[u] = NoFile
    BY <2>2 DEF FileLost
  <2>4. stored[u] = 0 \/ h \/ uploads[u].late
    BY <1>2, <2>3 DEF UploadOK
  <2>5. h \in BOOLEAN
    BY <1>2 DEF UploadRow
  <2>6. Write(u, [Ended(uploads[u], "failed") EXCEPT !.unhinged = h])
    BY <1>2, <1>4, EndedKeeps
  <2> HIDE DEF h
  <2> QED
    BY <1>1, <1>2, <2>4, <2>5, <2>6, EndedIsGood DEF FileLost
<1> QED
  BY <1>3, <1>4 DEF FileLost

LEMMA ErasedGood ==
    ASSUME Inv, NEW r \in Requests, Erased(r), UNCHANGED backlog
    PROVE  Good
<1>1. ~Idle(r) /\ task[r].at = "erasing" /\ stored[Of(r)] = 0
  BY DEF Erased, Idle
<1>2. uploads[Of(r)].state \in Open /\ task[r].ends \in {"failed", "expired", "terminated"}
  BY <1>1, Mine DEF Fits, OnOpen, Task
<1> QED
  BY <1>1, <1>2, EndedIsGood DEF Erased

\* Only the staging file changes.
LEMMA FileIsGood ==
    ASSUME Inv, NEW r \in Requests, ~Idle(r), NEW m, UNCHANGED <<uploads, stored, backlog>>,
           staging' = [staging EXCEPT ![Of(r)] = m],
           UploadOK(Of(r), uploads[Of(r)], stored[Of(r)], m),
           \/ Return(r)
           \/ UNCHANGED task /\ Fits(task[r], Of(r), uploads[Of(r)], stored[Of(r)], m)
    PROVE  Good
<1> DEFINE u == Of(r)
<1>1. /\ uploads' = [uploads EXCEPT ![u] = uploads[u]]
      /\ stored' = [stored EXCEPT ![u] = stored[u]]
      /\ Moves(u, uploads[u], uploads[u])
  BY Mine, Frame, Still
<1>2. CASE Return(r)
  BY <1>1, <1>2, ReturnIsGood
<1>3. CASE UNCHANGED task /\ Fits(task[r], u, uploads[u], stored[u], m)
  BY <1>1, <1>3, StayIsGood
<1> QED
  BY <1>2, <1>3

LEMMA FileCreatedGood ==
    ASSUME Inv, NEW r \in Requests, FileCreated(r), UNCHANGED backlog
    PROVE  Good
<1>1. ~Idle(r) /\ task[r].at = "creating"
  BY DEF FileCreated, Idle
<1>2. stored[Of(r)] = 0 /\ uploads[Of(r)].received = 0
  BY <1>1, Mine DEF Fits
<1>3. UploadOK(Of(r), uploads[Of(r)], stored[Of(r)], 0)
  BY <1>1, <1>2, Mine, QuotaAssumption DEF UploadOK
<1> QED
  BY <1>1, <1>3, FileIsGood DEF FileCreated

LEMMA TooLongGood ==
    ASSUME Inv, NEW r \in Requests, TooLong(r), UNCHANGED backlog
    PROVE  Good
<1> DEFINE u == Of(r)
<1>1. ~Idle(r) /\ task[r].at = "sizing" /\ staging[u] # NoFile
  BY DEF TooLong, Idle
<1>2. Fits([task[r] EXCEPT !.at = "truncating"], u, uploads[u], stored[u], staging[u])
  BY <1>1, Mine DEF Fits, OnOpen, Task
<1>3. /\ uploads' = [uploads EXCEPT ![u] = uploads[u]]
      /\ stored' = [stored EXCEPT ![u] = stored[u]]
      /\ staging' = [staging EXCEPT ![u] = staging[u]]
      /\ GoTo(r, "truncating")
  BY <1>1, Mine, Frame DEF TooLong, Lasting
<1>4. UploadOK(u, uploads[u], stored[u], staging[u]) /\ Moves(u, uploads[u], uploads[u])
  BY <1>1, Mine, Still
<1> QED
  BY <1>1, <1>2, <1>3, <1>4, GoToIsGood DEF Awaits

\* The repair leaves the file as long as the offset says.
LEMMA RepairedGood ==
    ASSUME Inv, NEW r \in Requests, task[r].at \in {"sizing", "truncating"}, Repaired(r),
           staging[Of(r)] # NoFile,
           staging' = [staging EXCEPT ![Of(r)] = task[r].offset],
           UNCHANGED <<uploads, stored, backlog>>
    PROVE  Good
<1> DEFINE u == Of(r)
           m == task[r].offset
<1>1. ~Idle(r) /\ task[r].at \in {"sizing", "truncating"}
  BY DEF Idle
<1>2. /\ u \in Tus /\ m = uploads[u].received /\ uploads[u].state \in Open
      /\ u \in Uploads /\ task[r] \in Task
  BY <1>1, Mine DEF Fits, OnOpen
<1>3. m \in 0..MaxBytes /\ m \in Nat /\ m # NoFile /\ Size[u] \in Nat
  BY <1>2, QuotaAssumption, SizeNat, TusAssumption DEF Task
<1>4. UploadOK(u, uploads[u], stored[u], m)
  BY <1>1, <1>2, <1>3, Mine DEF UploadOK
<1>5. /\ uploads' = [uploads EXCEPT ![u] = uploads[u]]
      /\ stored' = [stored EXCEPT ![u] = stored[u]]
      /\ Moves(u, uploads[u], uploads[u])
  BY <1>2, Frame, Still
<1>6. CASE m = Size[u] /\ GoTo(r, "putting")
  <2>1. Fits([task[r] EXCEPT !.at = "putting"], u, uploads[u], stored[u], m)
    BY <1>2, <1>6 DEF Fits, OnOpen, Task
  <2> HIDE DEF m
  <2> QED
    BY <1>1, <1>4, <1>5, <1>6, <2>1, GoToIsGood DEF Awaits, m
<1>7. ASSUME NEW n \in 0..(Size[u] - m), m < Size[u],
             task' = [task EXCEPT ![r].at = "appending", ![r].size = n]
      PROVE  Good
  <2> DEFINE t == [task[r] EXCEPT !.at = "appending", !.size = n]
  <2>1. n \in 0..MaxBytes /\ m + n <= Size[u]
    BY <1>2, <1>3, <1>7, SizeNat, QuotaAssumption
  <2>2. t \in Task /\ t.at = "appending" /\ t.upload = u /\ t.offset = m /\ t.size = n
    BY <1>2, <2>1 DEF Task, Awaits, Of
  <2>3. task' = [task EXCEPT ![r] = t]
    BY <1>7 DEF Inv, TasksOK
  <2>4. Fits(t, u, uploads[u], stored[u], m)
    BY <1>2, <1>3, <2>1, <2>2 DEF Fits
  <2> HIDE DEF t
  <2> QED
    BY <1>1, <1>4, <1>5, <2>2, <2>3, <2>4, ContinueIsGood
<1>8. CASE Return(r)
  BY <1>1, <1>4, <1>8, FileIsGood
<1> QED
  BY <1>6, <1>7, <1>8 DEF Repaired

LEMMA RightLengthGood ==
    ASSUME Inv, NEW r \in Requests, RightLength(r), UNCHANGED backlog
    PROVE  Good
<1>1. ~Idle(r) /\ task[r].at = "sizing" /\ staging[Of(r)] = task[r].offset
  BY DEF RightLength, Idle
<1>2. Of(r) \in Uploads /\ task[r] \in Task
  BY <1>1, Mine
<1>3. staging[Of(r)] # NoFile
  BY <1>1, <1>2, TusAssumption, QuotaAssumption DEF Task
<1>4. staging' = [staging EXCEPT ![Of(r)] = task[r].offset]
  BY <1>1, <1>2, Frame DEF RightLength, Lasting
<1> QED
  BY <1>1, <1>3, <1>4, RepairedGood DEF RightLength, Lasting

LEMMA TruncateGood ==
    ASSUME Inv, NEW r \in Requests, Truncate(r), UNCHANGED backlog
    PROVE  Good
<1>1. ~Idle(r) /\ task[r].at = "truncating"
  BY DEF Truncate, Idle
<1>2. staging[Of(r)] # NoFile
  BY <1>1, Mine DEF Fits
<1> QED
  BY <1>1, <1>2, RepairedGood DEF Truncate

LEMMA ChunkLandsGood ==
    ASSUME Inv, NEW r \in Requests, ChunkLands(r), UNCHANGED backlog
    PROVE  Good
<1> DEFINE u == Of(r)
<1>1. ~Idle(r) /\ task[r].at = "appending"
  BY DEF ChunkLands, Idle
<1>2. PICK n \in (staging[u] + 1)..(task[r].offset + task[r].size) :
         staging' = [staging EXCEPT ![u] = n]
  BY DEF ChunkLands
<1>3. /\ u \in Uploads /\ task[r].offset = uploads[u].received
      /\ task[r].offset + task[r].size <= Size[u]
      /\ task[r].offset \in Nat /\ task[r].size \in Nat
  BY <1>1, Mine, QuotaAssumption DEF Fits, Task
<1>4. Size[u] \in Nat /\ Size[u] <= MaxBytes
  BY <1>3, SizeNat, QuotaAssumption
<1>5. staging[u] \in task[r].offset..(task[r].offset + task[r].size - 1)
  BY DEF ChunkLands
<1>6. n \in 0..MaxBytes /\ n \in Nat /\ uploads[u].received <= n
  BY <1>2, <1>3, <1>4, <1>5, QuotaAssumption
<1>7. n # NoFile
  BY <1>6, TusAssumption
<1>8. UploadOK(u, uploads[u], stored[u], n) /\ Fits(task[r], u, uploads[u], stored[u], n)
  BY <1>1, <1>6, <1>7, Mine DEF UploadOK, Fits
<1> QED
  BY <1>1, <1>2, <1>8, FileIsGood DEF ChunkLands

LEMMA AppendFailsGood ==
    ASSUME Inv, NEW r \in Requests, AppendFails(r), UNCHANGED backlog
    PROVE  Good
<1> DEFINE u == Of(r)
<1>1. ~Idle(r) /\ task[r].at = "appending" /\ Return(r)
  BY DEF AppendFails, Idle
<1>2. /\ u \in Uploads /\ task[r].offset = uploads[u].received
      /\ task[r].offset \in 0..MaxBytes /\ task[r].offset # NoFile
  BY <1>1, Mine, QuotaAssumption, TusAssumption DEF Fits, Task
<1>3. UploadOK(u, uploads[u], stored[u], task[r].offset)
  BY <1>1, <1>2, Mine, QuotaAssumption DEF UploadOK
<1>4. UploadOK(u, uploads[u], stored[u], staging[u])
  BY <1>1, Mine
<1>5. CASE staging' = staging
  <2>1. staging' = [staging EXCEPT ![u] = staging[u]]
    BY <1>2, <1>5, Frame
  <2> QED
    BY <1>1, <1>4, <2>1, FileIsGood DEF AppendFails
<1>6. CASE staging' = [staging EXCEPT ![u] = task[r].offset]
  BY <1>1, <1>3, <1>6, FileIsGood DEF AppendFails
<1> QED
  BY <1>5, <1>6 DEF AppendFails

LEMMA AppendedGood ==
    ASSUME Inv, NEW r \in Requests, Appended(r), UNCHANGED backlog
    PROVE  Good
<1> DEFINE u == Of(r)
           offset == task[r].offset + task[r].size
           s == IF offset = Size[u] THEN "validating" ELSE "receiving"
           row == [uploads[u] EXCEPT !.received = offset, !.lapsed = FALSE, !.state = s]
<1>1. ~Idle(r) /\ task[r].at = "appending" /\ staging[u] = offset
  BY DEF Appended, Idle
<1>2. /\ u \in Uploads /\ task[r].offset = uploads[u].received /\ offset <= Size[u]
      /\ task[r].offset \in Nat /\ task[r].size \in Nat /\ task[r] \in Task
      /\ uploads[u].state \in Open /\ uploads[u] \in UploadRow
  BY <1>1, Mine, QuotaAssumption DEF Fits, Task, OnOpen
<1>3. offset \in 0..MaxBytes
  <2>1. Size[u] \in Nat /\ Size[u] <= MaxBytes
    BY <1>2, SizeNat, QuotaAssumption
  <2> QED
    BY <1>2, <2>1, QuotaAssumption
<1>4. s \in Open
  BY DEF Open
<1> HIDE DEF s, offset
<1>5. row \in UploadRow
  BY <1>2, <1>3, <1>4 DEF UploadRow, UploadStates
<1>6. /\ row.state \in Open /\ row.received = offset /\ row.object = uploads[u].object
      /\ row.asset = uploads[u].asset /\ row.inspections = uploads[u].inspections
      /\ row.unhinged = uploads[u].unhinged /\ row.late = uploads[u].late
  BY <1>2, <1>4 DEF UploadRow
<1>7. offset \in Nat
  BY <1>3, QuotaAssumption
<1>8. UploadOK(u, row, stored[u], staging[u])
  BY <1>1, <1>2, <1>5, <1>6, <1>7, Mine DEF UploadOK, Open
<1>9. Moves(u, uploads[u], row)
  BY <1>1, <1>2, <1>6, <1>8, Mine, Standings DEF Moves
<1>10. uploads' = [uploads EXCEPT ![u] = row]
  BY <1>2 DEF Appended, Write, Received, offset, s
<1>11. /\ stored' = [stored EXCEPT ![u] = stored[u]]
       /\ staging' = [staging EXCEPT ![u] = staging[u]]
  BY <1>2, Frame DEF Appended
<1>12. CASE Return(r)
  <2> HIDE DEF row
  <2> QED
    BY <1>1, <1>8, <1>9, <1>10, <1>11, <1>12, ReturnIsGood
<1>13. CASE offset = Size[u] /\ GoTo(r, "putting")
  <2>1. Fits([task[r] EXCEPT !.at = "putting"], u, row, stored[u], staging[u])
    BY <1>1, <1>2, <1>6, <1>13 DEF Fits, OnOpen, Task
  <2> HIDE DEF row
  <2> QED
    BY <1>1, <1>8, <1>9, <1>10, <1>11, <1>13, <2>1, GoToIsGood DEF Awaits
<1> QED
  BY <1>12, <1>13 DEF Appended, offset

LEMMA StagingRemovedGood ==
    ASSUME Inv, NEW r \in Requests, StagingRemoved(r), UNCHANGED backlog
    PROVE  Good
<1>1. ~Idle(r) /\ task[r].at = "cleaning"
  BY DEF StagingRemoved, Idle
<1>2. UploadOK(Of(r), uploads[Of(r)], stored[Of(r)], NoFile)
  BY <1>1, Mine DEF UploadOK, Fits
<1> QED
  BY <1>1, <1>2, FileIsGood DEF StagingRemoved

LEMMA DroppedGood ==
    ASSUME Inv, NEW r \in Requests, Dropped(r), UNCHANGED backlog
    PROVE  Good
<1> DEFINE u == Of(r)
           row == [uploads[u] EXCEPT !.unhinged = TRUE]
<1>1. ~Idle(r) /\ task[r].at = "dropping"
  BY DEF Dropped, Idle
<1>2. /\ u \in Uploads /\ uploads[u].state \in Open /\ uploads[u] \in UploadRow
      /\ task[r].ends # "none"
  BY <1>1, Mine DEF Fits, OnOpen
<1>3. row \in UploadRow
  BY <1>2 DEF UploadRow
<1>4. UploadOK(u, row, stored[u], NoFile)
  BY <1>1, <1>2, <1>3, Mine DEF UploadOK, UploadRow
<1>5. Moves(u, uploads[u], row)
  BY <1>1, <1>2, <1>4, Mine, Standings DEF Moves, UploadRow
<1>6. Fits([task[r] EXCEPT !.at = "erasing"], u, row, stored[u], NoFile)
  BY <1>1, <1>2, Mine DEF Fits, OnOpen, Task, UploadRow
<1>7. /\ uploads' = [uploads EXCEPT ![u] = row]
      /\ stored' = [stored EXCEPT ![u] = stored[u]]
      /\ staging' = [staging EXCEPT ![u] = NoFile]
      /\ GoTo(r, "erasing")
  BY <1>2, Frame DEF Dropped, Write
<1> HIDE DEF row
<1> QED
  BY <1>1, <1>4, <1>5, <1>6, <1>7, GoToIsGood DEF Awaits

LEMMA LapseGood ==
    ASSUME Inv, NEW u \in Uploads, Lapse(u), UNCHANGED backlog
    PROVE  Good
<1> DEFINE row == [uploads[u] EXCEPT !.lapsed = TRUE]
<1>1. UploadOK(u, uploads[u], stored[u], staging[u]) /\ uploads[u] \in UploadRow
  BY DEF Inv, UploadsOK
<1>2. row \in UploadRow
  BY <1>1 DEF UploadRow
<1>3. UploadOK(u, row, stored[u], staging[u])
  BY <1>1, <1>2 DEF UploadOK, UploadRow
<1>4. Moves(u, uploads[u], row)
  BY <1>1 DEF Moves, UploadRow, Standing
<1>5. \A t \in Task : Fits(t, u, uploads[u], stored[u], staging[u])
                       => Fits(t, u, row, stored[u], staging[u])
  BY <1>1 DEF Fits, UploadRow
<1> QED
  BY <1>3, <1>4, <1>5, RowIsGood DEF Lapse, Write

LEMMA TerminateCompletedGood ==
    ASSUME Inv, NEW r \in Requests, NEW u \in Uploads, TerminateCompleted(r, u),
           UNCHANGED backlog
    PROVE  Good
<1> DEFINE row == [uploads[u] EXCEPT !.state = "terminated"]
<1>1. UploadOK(u, uploads[u], stored[u], staging[u]) /\ uploads[u] \in UploadRow
  BY DEF Inv, UploadsOK
<1>2. row \in UploadRow
  BY <1>1 DEF UploadRow, UploadStates
<1>3. UploadOK(u, row, stored[u], staging[u])
  BY <1>1, <1>2 DEF TerminateCompleted, UploadOK, UploadRow, Open
<1>4. Standing(row) = Standing(uploads[u])
  BY <1>1 DEF TerminateCompleted, UploadRow, Standing, Open
<1>5. Moves(u, uploads[u], row)
  BY <1>1, <1>4 DEF TerminateCompleted, Moves, UploadRow
<1>6. \A q \in Requests : Of(q) # u
  BY DEF TerminateCompleted, Unlocked
<1>7. /\ uploads' = [uploads EXCEPT ![u] = row] /\ stored' = [stored EXCEPT ![u] = stored[u]]
      /\ staging' = [staging EXCEPT ![u] = staging[u]] /\ task' = [task EXCEPT ![r] = NoTask]
      /\ backlog' \subseteq Uploads
  BY Frame, IdleTask DEF TerminateCompleted, Write, Inv
<1> HIDE DEF row
<1> QED
  BY <1>3, <1>5, <1>6, <1>7, NoTaskType, ActIsGood

\* A request that takes the lock of an open or completed upload and writes nothing.
LEMMA LockedIsGood ==
    ASSUME Inv, NEW r \in Requests, Idle(r), NEW u \in Uploads, Unlocked(u), NEW t \in Task,
           t.at # "idle", t.upload = u, Fits(t, u, uploads[u], stored[u], staging[u]),
           task' = [task EXCEPT ![r] = t], UNCHANGED Lasting, backlog' \subseteq Uploads
    PROVE  Good
<1>1. uploads' = [uploads EXCEPT ![u] = uploads[u]] /\ UNCHANGED <<stored, staging>>
  BY Frame DEF Lasting
<1>2. UploadOK(u, uploads[u], stored[u], staging[u]) /\ Moves(u, uploads[u], uploads[u])
  BY Still DEF Inv, UploadsOK
<1>3. \A q \in Requests : Of(q) # u
  BY DEF Unlocked
<1> QED
  BY <1>1, <1>2, <1>3, BeginIsGood

LEMMA DroppingIsGood ==
    ASSUME Inv, NEW r \in Requests, Idle(r), NEW u \in Tus, Unlocked(u), NEW call \in Calls,
           uploads[u].state \in Open, NEW e \in {"expired", "terminated"},
           task' = [task EXCEPT ![r] = [NoTask EXCEPT !.call = call, !.upload = u,
                                                      !.at = "dropping", !.ends = e]],
           UNCHANGED Lasting, backlog' \subseteq Uploads
    PROVE  Good
<1> DEFINE t == [NoTask EXCEPT !.call = call, !.upload = u, !.at = "dropping", !.ends = e]
<1>0. u \in Uploads
  BY TusAssumption
<1>1. t.at = "dropping" /\ t.upload = u /\ t.ends # "none"
  BY NoTaskType DEF Task
<1>2. t \in Task
  BY <1>0, NoTaskType DEF Task, Awaits
<1>3. Fits(t, u, uploads[u], stored[u], staging[u])
  BY <1>1 DEF Fits, OnOpen
<1>4. t.at # "idle" /\ task' = [task EXCEPT ![r] = t]
  BY <1>1
<1> HIDE DEF t
<1> QED
  BY <1>0, <1>1, <1>2, <1>3, <1>4, LockedIsGood

LEMMA BegunIsGood ==
    ASSUME Inv, NEW r \in Requests, Idle(r), NEW u \in Tus, Unlocked(u), NEW call \in Calls,
           NEW await \in {"sizing", "cleaning"},
           await = "sizing" => uploads[u].state \in Open,
           await = "cleaning" => uploads[u].state = "completed",
           Begin(r, call, u, await), UNCHANGED Lasting, backlog' \subseteq Uploads
    PROVE  Good
<1> DEFINE t == [NoTask EXCEPT !.call = call, !.upload = u, !.at = await,
                               !.offset = Received(u)]
<1>0. u \in Uploads /\ Received(u) = uploads[u].received /\ Received(u) \in 0..MaxBytes
  BY TusAssumption DEF Received, Inv, UploadsOK, UploadRow
<1>1. t.at = await /\ t.upload = u /\ t.offset = uploads[u].received
  BY <1>0, NoTaskType DEF Task
<1>2. t \in Task
  BY <1>0, NoTaskType DEF Task, Awaits
<1>3. Fits(t, u, uploads[u], stored[u], staging[u])
  BY <1>1 DEF Fits, OnOpen, Open
<1>4. t.at # "idle" /\ task' = [task EXCEPT ![r] = t]
  BY <1>1 DEF Begin
<1> HIDE DEF t
<1> QED
  BY <1>0, <1>1, <1>2, <1>3, <1>4, LockedIsGood

LEMMA RequestTusGood ==
    ASSUME Inv, NEW r \in Requests, NEW u \in Uploads,
           NEW call \in {"head", "patch", "delete"}, RequestTus(r, u, call), UNCHANGED backlog
    PROVE  Good
<1>1. /\ Idle(r) /\ u \in Tus /\ uploads[u].state \in Open /\ Unlocked(u)
      /\ UNCHANGED Lasting /\ backlog' \subseteq Uploads /\ call \in Calls
  BY DEF RequestTus, Expiring, Inv, Calls
<1>2. CASE Expiring(r, u, call)
  BY <1>1, <1>2, DroppingIsGood DEF Expiring
<1>3. CASE Begin(r, call, u, "sizing")
  BY <1>1, <1>3, BegunIsGood
<1>4. CASE task' = [task EXCEPT ![r] = [NoTask EXCEPT !.call = call, !.upload = u,
                                                      !.at = "dropping", !.ends = "terminated"]]
  BY <1>1, <1>4, DroppingIsGood
<1> QED
  BY <1>2, <1>3, <1>4 DEF RequestTus

LEMMA ReconcileTusGood ==
    ASSUME Inv, NEW r \in Requests, NEW u \in Uploads, ReconcileTus(r, u), Quiet,
           backlog' \subseteq Uploads
    PROVE  Good
<1>1. Idle(r) /\ u \in Tus /\ Unlocked(u) /\ UNCHANGED Lasting /\ "reconcile" \in Calls
  BY IdleTask, UploadAssumption
     DEF ReconcileTus, TusCandidates, Quiet, Unlocked, Expiring, Calls
<1>2. CASE uploads[u].state = "completed" /\ Begin(r, "reconcile", u, "cleaning")
  BY <1>1, <1>2, BegunIsGood
<1>3. CASE uploads[u].state \in Open /\ Expiring(r, u, "reconcile")
  BY <1>1, <1>3, DroppingIsGood DEF Expiring
<1>4. CASE uploads[u].state \in Open /\ Begin(r, "reconcile", u, "sizing")
  BY <1>1, <1>4, BegunIsGood
<1> QED
  BY <1>2, <1>3, <1>4 DEF ReconcileTus

-----------------------------------------------------------------------------
(* The process, and the theorems.                                          *)

\* A step of the process that leaves the uploads and the requests alone.
LEMMA ProcessGood ==
    ASSUME Inv, UNCHANGED Lasting, UNCHANGED task, backlog' \subseteq Uploads
    PROVE  Good
<1>1. UploadsOK' /\ QuotaHeld' /\ Account' = Account /\ EndsStep
  BY DEF Inv, Lasting, UploadsOK, QuotaHeld, Holding, Reserving, Account, EndsStep
<1>2. TasksOK' /\ Alone'
  BY DEF Inv, Lasting, TasksOK, AtWork, Alone, Of
<1> QED
  BY <1>1, <1>2 DEF Good, Inv

\* A death ends all requests, and may leave completions behind.
LEMMA CrashGood ==
    ASSUME Inv, Crash
    PROVE  Good
<1>1. PICK late \in SUBSET {u \in Putting : stored[u] = 0} :
         uploads' = [u \in Uploads |-> IF u \in late THEN [uploads[u] EXCEPT !.late = TRUE]
                                       ELSE uploads[u]]
  BY DEF Crash
<1>2. /\ UNCHANGED <<stored, staging>> /\ task' = [r \in Requests |-> NoTask]
      /\ backlog' = {}
  BY DEF Crash
<1>3. ASSUME NEW u \in Uploads
      PROVE  /\ uploads'[u].state = uploads[u].state /\ uploads'[u].object = uploads[u].object
             /\ uploads'[u].inspections = uploads[u].inspections
             /\ UploadOK(u, uploads'[u], stored[u], staging[u])
  <2>1. UploadOK(u, uploads[u], stored[u], staging[u]) /\ uploads[u] \in UploadRow
    BY DEF Inv, UploadsOK
  <2>2. CASE u \in late
    <3>1. PICK r \in Requests : task[r].at = "putting" /\ Of(r) = u
      BY <2>2 DEF Putting
    <3>2. uploads[u].state \in Open
      BY <3>1, Mine DEF Fits, OnOpen, Idle
    <3>3. uploads'[u] = [uploads[u] EXCEPT !.late = TRUE]
      BY <1>1, <2>2
    <3>4. UploadOK(u, uploads'[u], stored[u], staging[u])
      BY <2>1, <3>2, <3>3, Still, OutstandingOK DEF Open
    <3> QED
      BY <2>1, <3>3, <3>4 DEF UploadRow
  <2>3. CASE u \notin late
    BY <1>1, <2>1, <2>3
  <2> QED
    BY <2>2, <2>3
<1>4. UploadsOK'
  <2>1. \A u \in Uploads : uploads'[u] \in UploadRow
    BY <1>3 DEF UploadOK
  <2>2. uploads' \in [Uploads -> UploadRow]
    BY <1>1, <2>1
  <2> QED
    BY <1>2, <1>3, <2>2 DEF Inv, UploadsOK
<1>5. QuotaHeld' /\ EndsStep
  <2>1. Holding' = Holding /\ Reserving' = Reserving
    BY <1>3 DEF Holding, Reserving
  <2> QED
    BY <1>3, <2>1 DEF Inv, QuotaHeld, EndsStep
<1>6. Account' = Account
  BY <1>3 DEF Account, Standing
<1>7. TasksOK' /\ Alone'
  BY <1>2, NoTaskType DEF TasksOK, Alone, Of
<1> QED
  BY <1>2, <1>4, <1>5, <1>6, <1>7 DEF Good, Inv

LEMMA InitInv == Init => Inv /\ Ledger!Init
<1> SUFFICES ASSUME Init PROVE Inv /\ Ledger!Init
  OBVIOUS
<1>1. AbsentUpload \in UploadRow
  BY QuotaAssumption DEF AbsentUpload, UploadRow, UploadStates, AssetStates, ObjectStates
<1>2. UploadsOK
  <2>1. \A u \in Uploads : UploadOK(u, AbsentUpload, 0, NoFile)
    BY <1>1 DEF UploadOK, AbsentUpload, Open
  <2> QED
    BY <1>1, <2>1, QuotaAssumption DEF Init, UploadsOK
<1>3. TasksOK /\ Alone
  BY NoTaskType DEF Init, TasksOK, Alone, Of
<1>4. QuotaHeld
  <2>1. Holding = {} /\ Reserving = {}
    BY DEF Init, Holding, Reserving, AbsentUpload, Open
  <2> QED
    BY <2>1, TotalEmpty, QuotaAssumption DEF QuotaHeld
<1>5. Ledger!Init
  BY DEF Init, Ledger!Init, Account, Standing, AbsentUpload, Open
<1> QED
  BY <1>2, <1>3, <1>4, <1>5 DEF Init, Inv

LEMMA NextGood == Inv /\ [Next]_vars => Good
<1> SUFFICES ASSUME Inv, [Next]_vars PROVE Good
  OBVIOUS
<1>1. ASSUME NEW r \in Requests, Request(r) PROVE Good
  <2>1. UNCHANGED backlog
    BY <1>1 DEF Request, process
  <2> QED
    BY <1>1, <2>1, ReserveGood, CreateTusGood, RequestTusGood, TerminateCompletedGood
       DEF Request
<1>2. ASSUME NEW r \in Requests, TakeNext(r) PROVE Good
  <2>1. PICK u \in backlog : /\ backlog' = backlog \ {u}
                             /\ ReconcileTus(r, u) \/ (Reconcile(r, u) /\ UNCHANGED staging)
    BY <1>2 DEF TakeNext
  <2>2. u \in Uploads /\ backlog' \subseteq Uploads /\ Quiet
    BY <1>2, <2>1 DEF TakeNext, Inv
  <2> QED
    BY <2>1, <2>2, ReconcileTusGood, ReconcileGood
<1>3. ASSUME NEW r \in Requests, FinalizerStep(r), UNCHANGED staging, UNCHANGED process
      PROVE  Good
  <2>1. UNCHANGED <<staging, backlog>>
    BY <1>3 DEF process
  <2> QED
    BY <1>3, <2>1, DeleteLandsGood, MarkValidatingGood, CompleteGood, RefuseGood,
       RejectContentGood, AbandonGood DEF FinalizerStep
<1>4. ASSUME NEW r \in Requests, SimpleStep(r), UNCHANGED staging, UNCHANGED process
      PROVE  Good
  <2>1. UNCHANGED <<staging, backlog>>
    BY <1>4 DEF process
  <2> QED
    BY <1>4, <2>1, PutLandsGood, StorageFailsGood, ReconciledGood DEF SimpleStep
<1>5. ASSUME NEW r \in Requests, TusStep(r), UNCHANGED process PROVE Good
  <2>1. UNCHANGED backlog
    BY <1>5 DEF process
  <2>2. ASSUME StagedPutLands(r) PROVE Good
    BY <2>1, <2>2, PutLandsGood DEF StagedPutLands
  <2> QED
    BY <1>5, <2>1, <2>2, FileCreatedGood, CreationFailsGood, FileLostGood, TooLongGood,
       RightLengthGood, TruncateGood, ChunkLandsGood, AppendedGood, AppendFailsGood,
       StagingRemovedGood, DroppedGood, ErasedGood DEF TusStep
<1>6. ASSUME NEW u \in Uploads, Inspect(u), UNCHANGED staging, UNCHANGED process
      PROVE  Good
  BY <1>6, InspectGood DEF process
<1>7. ASSUME NEW u \in Uploads, Lapse(u), UNCHANGED process PROVE Good
  BY <1>7, LapseGood DEF process
<1>13. ASSUME NEW u \in Uploads, LateLands(u), UNCHANGED staging, UNCHANGED process
       PROVE  Good
  BY <1>13, LateLandsGood DEF process
<1>8. CASE Crash
  BY <1>8, CrashGood
<1>9. CASE Start
  <2>1. backlog' \subseteq Uploads
    BY <1>9, TusAssumption DEF Start, Selections, TusCandidates
  <2> QED
    BY <1>9, <2>1, ProcessGood DEF Start
<1>10. CASE SweepSimple
  <2>1. backlog' \subseteq Uploads
    BY <1>10, SimpleAssumption DEF SweepSimple, Selections, Candidates
  <2> QED
    BY <1>10, <2>1, ProcessGood DEF SweepSimple
<1>11. CASE Listen
  BY <1>11, ProcessGood DEF Listen, Inv
<1>12. CASE UNCHANGED vars
  BY <1>12, ProcessGood DEF vars, Lasting, Inv
<1> QED
  BY <1>1, <1>2, <1>3, <1>4, <1>5, <1>6, <1>7, <1>8, <1>9, <1>10, <1>11, <1>12, <1>13
     DEF Next

\* In every reachable state the rows agree with the objects, the files and the
\* requests as Inv says.
THEOREM InvHolds == Spec => []Inv
<1>1. Init => Inv
  BY InitInv
<1>2. Inv /\ [Next]_vars => Inv'
  BY NextGood DEF Good
<1> QED
  BY <1>1, <1>2, PTL DEF Spec

\* Rows, files and requests hold values of their types.
THEOREM UploadTypes == Spec => []UploadTypeOK
<1>1. Inv => UploadTypeOK
  BY DEF Inv, UploadsOK, TasksOK, UploadTypeOK
<1> QED
  BY <1>1, InvHolds, PTL

\* Stored originals and open reservations never exceed the project's quota.
THEOREM QuotaIsHeld == Spec => []QuotaHeld
<1>1. Inv => QuotaHeld
  BY DEF Inv
<1> QED
  BY <1>1, InvHolds, PTL

\* A published asset has all its validated bytes, and one inspection job.
THEOREM PublishedWhole == Spec => []PublishedIsWhole
<1>1. Inv => PublishedIsWhole
  BY DEF Inv, UploadsOK, UploadOK, PublishedIsWhole
<1> QED
  BY <1>1, InvHolds, PTL

\* Bytes whose row calls them deleted are gone, but for a termination that was
\* broken off and a completion that S3 served after its put was given up.
THEOREM DeletedGone == Spec => []DeletedIsGone
<1>1. Inv => DeletedIsGone
  BY DEF Inv, UploadsOK, UploadOK, DeletedIsGone
<1> QED
  BY <1>1, InvHolds, PTL

\* The offset of a resumable upload is on disk.
THEOREM OffsetDurable == Spec => []OffsetIsDurable
<1>1. Inv => OffsetIsDurable
  BY TusAssumption DEF Inv, UploadsOK, UploadOK, OffsetIsDurable
<1> QED
  BY <1>1, InvHolds, PTL

\* An upload ends once.
THEOREM OneEnd == Spec => EndsOnce
<1>1. Inv /\ [Next]_vars => EndsStep
  BY NextGood DEF Good
<1> QED
  BY <1>1, InvHolds, PTL DEF Spec, EndsOnce, EndsStep

\* The uploads keep the account that the ledger describes.
THEOREM KeepsTheLedger == Spec => ImplementsQuotaLedger
<1>1. Init => Ledger!Init
  BY InitInv
<1>2. Inv /\ [Next]_vars => [Ledger!Next]_Account
  BY NextGood DEF Good
<1> QED
  BY <1>1, <1>2, InvHolds, PTL DEF Spec, ImplementsQuotaLedger, Ledger!Spec

-----------------------------------------------------------------------------
(* What the ledger itself promises.                                        *)

Accounts == [Uploads -> {"none", "reserved", "held", "released"}]
Part(account, s) == {u \in Uploads : account[u] = s}
FitsQuota(account) == Total(Part(account, "held")) + Total(Part(account, "reserved")) <= Quota

LEMMA ReserveFits ==
    ASSUME NEW account \in Accounts, NEW u \in Uploads, account[u] = "none",
           Total(Part(account, "held")) + Total(Part(account, "reserved")) + Size[u] <= Quota
    PROVE  FitsQuota([account EXCEPT ![u] = "reserved"])
<1> DEFINE new == [account EXCEPT ![u] = "reserved"]
<1>1. /\ Part(new, "held") = Part(account, "held")
      /\ Part(new, "reserved") = Part(account, "reserved") \union {u}
      /\ u \notin Part(account, "reserved")
  BY DEF Part, Accounts
<1>2. Part(account, "held") \in SUBSET Uploads /\ Part(account, "reserved") \in SUBSET Uploads
  BY DEF Part
<1>3. Total(Part(account, "held")) + Total(Part(account, "reserved") \union {u}) <= Quota
  BY <1>1, <1>2, TotalsReserve
<1> QED
  BY <1>1, <1>3 DEF FitsQuota

LEMMA SettleFits ==
    ASSUME NEW account \in Accounts, FitsQuota(account), NEW u \in Uploads,
           account[u] = "reserved", NEW s \in {"held", "released"}
    PROVE  FitsQuota([account EXCEPT ![u] = s])
<1> DEFINE new == [account EXCEPT ![u] = s]
<1>1. /\ Part(new, "held") = Part(account, "held") \union {u} \/ Part(new, "held") = Part(account, "held")
      /\ Part(new, "reserved") = Part(account, "reserved") \ {u}
      /\ u \in Part(account, "reserved") /\ u \notin Part(account, "held")
  BY DEF Part, Accounts
<1>2. Part(account, "held") \in SUBSET Uploads /\ Part(account, "reserved") \in SUBSET Uploads
  BY DEF Part
<1>3. /\ Total(Part(account, "held")) + Total(Part(account, "reserved") \ {u}) <= Quota
      /\ Total(Part(account, "held") \union {u}) + Total(Part(account, "reserved") \ {u}) <= Quota
  BY <1>1, <1>2, TotalsSettle DEF FitsQuota
<1> QED
  BY <1>1, <1>3 DEF FitsQuota

LEMMA LedgerParts ==
    /\ Ledger!TypeOK <=> Account \in Accounts
    /\ Ledger!WithinLimit <=> FitsQuota(Account)
    /\ \A s : Ledger!In(s) = Part(Account, s)
BY LedgerTotal DEF Ledger!TypeOK, Ledger!WithinLimit, Ledger!In, Account, Accounts, FitsQuota, Part

LEMMA LedgerPartsAfter ==
    /\ Ledger!TypeOK' <=> Account' \in Accounts
    /\ Ledger!WithinLimit' <=> FitsQuota(Account')
BY LedgerTotal DEF Ledger!TypeOK, Ledger!WithinLimit, Ledger!In, Account, Accounts, FitsQuota, Part

\* What the ledger records as stored and as reserved stay within the quota
\* together: whoever keeps the ledger has this, and so the upload services have
\* it (the reserving transactions of both).
THEOREM LedgerWithinLimit == ImplementsQuotaLedger => []Ledger!WithinLimit
<1>1. Ledger!Init => Ledger!TypeOK /\ Ledger!WithinLimit
  <2> SUFFICES ASSUME Ledger!Init PROVE Account \in Accounts /\ FitsQuota(Account)
    BY LedgerParts
  <2>1. Account = [u \in Uploads |-> "none"]
    BY DEF Ledger!Init, Account
  <2>2. Part(Account, "held") = {} /\ Part(Account, "reserved") = {}
    BY <2>1 DEF Part
  <2> QED
    BY <2>1, <2>2, TotalEmpty, QuotaAssumption DEF Accounts, FitsQuota
<1>2. Ledger!TypeOK /\ Ledger!WithinLimit /\ [Ledger!Next]_Account
        => Ledger!TypeOK' /\ Ledger!WithinLimit'
  <2> SUFFICES ASSUME Account \in Accounts, FitsQuota(Account), [Ledger!Next]_Account
               PROVE  Account' \in Accounts /\ FitsQuota(Account')
    BY LedgerParts, LedgerPartsAfter
  <2>1. ASSUME NEW u \in Uploads, Ledger!Reserve(u)
        PROVE  Account' \in Accounts /\ FitsQuota(Account')
    <3>1. /\ Account[u] = "none" /\ Account' = [Account EXCEPT ![u] = "reserved"]
          /\ Total(Part(Account, "held")) + Total(Part(Account, "reserved")) + Size[u] <= Quota
      BY <2>1, LedgerParts, LedgerTotal DEF Ledger!Reserve, Account
    <3> QED
      BY <3>1, ReserveFits DEF Accounts
  <2>2. ASSUME NEW u \in Uploads, Ledger!Settle(u)
        PROVE  Account' \in Accounts /\ FitsQuota(Account')
    <3>1. /\ Account[u] = "reserved"
          /\ \E s \in {"held", "released"} : Account' = [Account EXCEPT ![u] = s]
      BY <2>2 DEF Ledger!Settle, Account
    <3> QED
      BY <3>1, SettleFits DEF Accounts
  <2>3. CASE UNCHANGED Account
    BY <2>3
  <2> QED
    BY <2>1, <2>2, <2>3 DEF Ledger!Next
<1> QED
  BY <1>1, <1>2, PTL DEF ImplementsQuotaLedger, Ledger!Spec
=============================================================================

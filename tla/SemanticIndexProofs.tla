------------------------ MODULE SemanticIndexProofs ------------------------
(***************************************************************************)
(* Theorems about the semantic index, for any indexes, assets, workers and *)
(* batch sizes: one index serves, an index that is over stays so, records  *)
(* have their vectors, and what is excluded stays out of later builds.     *)
(***************************************************************************)
EXTENDS SemanticIndex, TLAPS

\* Everything has its type; a handler that runs was given an index, and only then
\* has a list of assets.
TypeOK ==
    /\ ledger \in [Jobs -> Entry]
    /\ index \in [Indexes -> IndexRow]
    /\ records \in [Indexes -> SUBSET Assets]
    /\ vectors \in [Indexes -> {NoCollection} \union SUBSET Assets]
    /\ excluded \in SUBSET Assets
    /\ cleanup \in [Indexes -> SUBSET Assets]
    /\ listed \in [Indexes -> SUBSET Assets]
    /\ builder \in [Workers -> Builder]
    /\ writing \in SUBSET Call
    /\ \A w \in Workers : IF builder[w].at = "idle" THEN builder[w].todo = {}
                          ELSE builder[w].job \in Indexes

Backed(i, a) == a \in cleanup[i] \/ (vectors[i] # NoCollection /\ a \in vectors[i])

\* Records, and calls that are about to write some, have their vectors; a deleted
\* index has no records and takes no more.
BackedOK ==
    \A i \in Indexes :
      /\ index[i].state = "deleted" => records[i] = {}
      /\ \A a \in records[i] : Backed(i, a)
      /\ \A c \in writing : c.index = i /\ c.at = "record" =>
           index[i].state = "deleted" \/ Backed(i, c.asset)

\* What is excluded is, in records, in calls and on the lists of builds, only where
\* a build had it on its list before.
ListedOK ==
    /\ \A i \in Indexes : records[i] \intersect excluded \subseteq listed[i]
    /\ \A c \in writing : c.asset \in excluded => c.asset \in listed[c.index]
    /\ \A w \in Workers : \A a \in builder[w].todo : a \in excluded => a \in listed[builder[w].job]

IInv == TypeOK /\ OneActive /\ BackedOK /\ ListedOK

-----------------------------------------------------------------------------
(* Types.                                                                  *)

\* A handler goes on to another point of the same job, and learns of no more assets.
HandlerMoves(w) ==
    /\ builder' \in [Workers -> Builder]
    /\ \A v \in Workers : v # w => builder'[v] = builder[v]
    /\ builder'[w].at # "idle"
    /\ builder'[w].job = builder[w].job
    /\ builder'[w].todo \subseteq builder[w].todo

Points == {"starting", "preparing", "building", "evaluating", "catching", "done"}
Outcomes == {"none", "ok", "retry", "reject"}

LEMMA Moving ==
    ASSUME builder \in [Workers -> Builder], NEW w \in Workers, builder[w].at # "idle"
    PROVE  /\ \A at \in Points : GoTo(w, at) => HandlerMoves(w)
           /\ \A result \in Outcomes : Ends(w, result) => HandlerMoves(w)
           /\ \A result \in Outcomes : Throws(w, result) => HandlerMoves(w)
           /\ UNCHANGED builder => HandlerMoves(w)
<1>1. \A at \in Points : GoTo(w, at) => HandlerMoves(w)
  BY DEF GoTo, HandlerMoves, Builder, Points
<1>2. \A result \in Outcomes : Ends(w, result) => HandlerMoves(w)
  <2> SUFFICES ASSUME NEW result \in Outcomes, Ends(w, result) PROVE HandlerMoves(w)
    OBVIOUS
  <2> DEFINE b == [builder[w] EXCEPT !.at = "done", !.result = result, !.todo = {}]
  <2>1. b \in Builder /\ b.at = "done" /\ b.job = builder[w].job /\ b.todo = {}
    BY DEF Builder, Outcomes
  <2>2. builder' = [builder EXCEPT ![w] = b]
    BY DEF Ends
  <2> HIDE DEF b
  <2>3. QED
    BY <2>1, <2>2 DEF HandlerMoves
<1>3. \A result \in Outcomes : Throws(w, result) => HandlerMoves(w)
  <2> SUFFICES ASSUME NEW result \in Outcomes, Throws(w, result) PROVE HandlerMoves(w)
    OBVIOUS
  <2> DEFINE b == [builder[w] EXCEPT !.at = "catching", !.result = result, !.todo = {}]
  <2>1. b \in Builder /\ b.at = "catching" /\ b.job = builder[w].job /\ b.todo = {}
    BY DEF Builder, Outcomes
  <2>2. builder' = [builder EXCEPT ![w] = b]
    BY DEF Throws
  <2> HIDE DEF b
  <2>3. QED
    BY <2>1, <2>2 DEF HandlerMoves
<1>4. UNCHANGED builder => HandlerMoves(w)
  BY DEF HandlerMoves
<1>5. QED
  BY <1>1, <1>2, <1>3, <1>4

\* The job ledger keeps its type, whatever is swept, started or settled.
LEMMA LedgerTypes ==
    ASSUME LedgerAssumption, ledger \in [Jobs -> Entry]
    PROVE  /\ \A swept \in SUBSET Jobs : Sweep(swept) => ledger' \in [Jobs -> Entry]
           /\ \A w \in Workers, swept \in SUBSET Jobs, j \in Jobs :
                Start(w, swept, j) => ledger' \in [Jobs -> Entry]
           /\ \A j \in Jobs : Add(j) => ledger' \in [Jobs -> Entry]
           /\ \A w \in Workers, j \in Jobs :
                Complete(w, j) \/ Reject(w, j) \/ GiveBack(w, j) => ledger' \in [Jobs -> Entry]
<1>1. \A j \in Jobs, s \in {"queued", "succeeded", "failed"} : Released(ledger[j], s) \in Entry
  BY DEF Released, Entry, JobStates, Settled
<1>2. \A w \in Workers, j \in Jobs :
        [state |-> "running", attempts |-> ledger[j].attempts + 1, owner |-> w] \in Entry
  BY DEF Entry, JobStates
<1>3. ASSUME NEW swept \in SUBSET Jobs, Sweep(swept) PROVE ledger' \in [Jobs -> Entry]
  BY <1>1, <1>3 DEF Sweep
<1>4. ASSUME NEW w \in Workers, NEW swept \in SUBSET Jobs, NEW j \in Jobs, Start(w, swept, j)
      PROVE  ledger' \in [Jobs -> Entry]
  BY <1>1, <1>2, <1>4 DEF Start
<1>5. ASSUME NEW j \in Jobs, Add(j) PROVE ledger' \in [Jobs -> Entry]
  BY <1>5 DEF Add, Entry, JobStates
<1>6. ASSUME NEW w \in Workers, NEW j \in Jobs,
             Complete(w, j) \/ Reject(w, j) \/ GiveBack(w, j)
      PROVE  ledger' \in [Jobs -> Entry]
  BY <1>1, <1>6 DEF Complete, Reject, GiveBack
<1>7. QED
  BY <1>3, <1>4, <1>5, <1>6

\* What a step does to the rows of the indexes, if it does not activate one: none
\* becomes active, and none comes back that is over.
Quiet ==
    /\ index' \in [Indexes -> IndexRow]
    /\ \A j \in Indexes :
         /\ index'[j].state = "active" => index'[j] = index[j]
         /\ index[j].state \in Over => index'[j].state \in Over
         /\ index[j].state = "deleted" => index'[j].state = "deleted"

\* ... and none is deleted.
NoneDeleted == \A j \in Indexes : index'[j].state = "deleted" <=> index[j].state = "deleted"

LEMMA RowChanges ==
    ASSUME index \in [Indexes -> IndexRow], NEW i \in Indexes,
           NEW s \in {"building", "evaluating", "failed"}, NEW e \in BOOLEAN,
           index[i].state # "deleted",
           s # "failed" => index[i].state \notin Over,
           index' = [index EXCEPT ![i] = [state |-> s, evaluated |-> e]]
    PROVE  Quiet /\ NoneDeleted
<1>1. [state |-> s, evaluated |-> e] \in IndexRow
  BY DEF IndexRow, Over
<1>2. /\ index' \in [Indexes -> IndexRow] /\ index'[i].state = s
      /\ \A j \in Indexes : j # i => index'[j] = index[j]
  BY <1>1
<1>3. QED
  BY <1>2 DEF Quiet, NoneDeleted, Over

LEMMA Failing ==
    ASSUME index \in [Indexes -> IndexRow], NEW i \in Indexes, index' = Failed(i)
    PROVE  Quiet /\ NoneDeleted
<1>1. CASE Exists(i)
  <2>1. index' = [index EXCEPT ![i].state = "failed"]
    BY <1>1 DEF Failed
  <2>2. /\ index' \in [Indexes -> IndexRow] /\ index'[i].state = "failed"
        /\ \A j \in Indexes : j # i => index'[j] = index[j]
    BY <2>1 DEF IndexRow, Over
  <2>3. QED
    BY <2>2, <1>1 DEF Quiet, NoneDeleted, Over, Exists
<1>2. CASE ~Exists(i)
  BY <1>2 DEF Failed, Quiet, NoneDeleted
<1>3. QED
  BY <1>1, <1>2

LEMMA QuietKeepsOne == ASSUME Quiet, OneActive PROVE OneActive'
BY DEF Quiet, OneActive, InState

\* The handlers keep their types, and no list of assets grows or changes its index.
ListsShrink ==
    /\ builder' \in [Workers -> Builder]
    /\ \A v \in Workers : IF builder'[v].at = "idle" THEN builder'[v].todo = {}
                          ELSE builder'[v].job \in Indexes
    /\ \A v \in Workers : \A a \in builder'[v].todo :
         a \in builder[v].todo /\ builder'[v].job = builder[v].job

LEMMA MovesShrink ==
    ASSUME TypeOK, NEW w \in Workers, builder[w].at # "idle", HandlerMoves(w)
    PROVE  ListsShrink
<1>1. \A v \in Workers : /\ IF builder'[v].at = "idle" THEN builder'[v].todo = {}
                            ELSE builder'[v].job \in Indexes
                         /\ \A a \in builder'[v].todo :
                              a \in builder[v].todo /\ builder'[v].job = builder[v].job
  <2> TAKE v \in Workers
  <2>1. CASE v = w
    BY <2>1 DEF TypeOK, HandlerMoves
  <2>2. CASE v # w
    BY <2>2 DEF TypeOK, HandlerMoves
  <2>3. QED
    BY <2>1, <2>2
<1>2. QED
  BY <1>1 DEF ListsShrink, HandlerMoves

\* A handler is replaced by one that knows of no assets, or by none.
LEMMA FreshShrinks ==
    ASSUME TypeOK, NEW w \in Workers, NEW b \in Builder, b.todo = {},
           b.at = "idle" \/ b.job \in Indexes, builder' = [builder EXCEPT ![w] = b]
    PROVE  ListsShrink
<1>1. /\ builder' \in [Workers -> Builder] /\ builder'[w] = b
      /\ \A v \in Workers : v # w => builder'[v] = builder[v]
  BY DEF TypeOK
<1>2. QED
  BY <1>1 DEF ListsShrink, TypeOK

\* A step of the handlers and the rows alone.
LEMMA HandlersOnly ==
    ASSUME IInv, ListsShrink, ledger' \in [Jobs -> Entry],
           UNCHANGED <<records, vectors, api>>, writing' \subseteq writing,
           index' \in [Indexes -> IndexRow], NoneDeleted, OneActive'
    PROVE  IInv'
<1>1. TypeOK'
  BY DEF IInv, TypeOK, api, ListsShrink
<1>2. BackedOK'
  <2>1. \A i \in Indexes : \A a : Backed(i, a)' <=> Backed(i, a)
    BY DEF Backed, api
  <2>2. QED
    BY <2>1 DEF IInv, BackedOK, NoneDeleted
<1>3. ListedOK'
  BY DEF IInv, ListedOK, ListsShrink, api
<1>4. QED
  BY <1>1, <1>2, <1>3 DEF IInv

-----------------------------------------------------------------------------
(* The API.                                                                *)

LEMMA StartReindexOK ==
    ASSUME LedgerAssumption, IInv, NEW i \in Indexes, StartReindex(i)
    PROVE  IInv' /\ Quiet
<1>1. TypeOK /\ index \in [Indexes -> IndexRow] /\ index[i] \in IndexRow
  BY DEF IInv, TypeOK
<1>2. index' = [index EXCEPT ![i] = [state |-> "building", evaluated |-> index[i].evaluated]]
  <2>1. [index[i] EXCEPT !.state = "building"]
          = [state |-> "building", evaluated |-> index[i].evaluated]
    BY <1>1 DEF IndexRow
  <2>2. index' = [index EXCEPT ![i] = [index[i] EXCEPT !.state = "building"]]
    BY DEF StartReindex
  <2>3. QED
    BY <2>1, <2>2
<1>3. index[i].evaluated \in BOOLEAN /\ index[i].state = "absent"
  BY <1>1 DEF IndexRow, StartReindex
<1>4. Quiet /\ NoneDeleted
  <2> DEFINE e == index[i].evaluated
  <2>1. e \in BOOLEAN /\ index' = [index EXCEPT ![i] = [state |-> "building", evaluated |-> e]]
    BY <1>2, <1>3
  <2> HIDE DEF e
  <2>2. QED
    BY <2>1, <1>1, <1>3, RowChanges DEF Over
<1>5. ledger' \in [Jobs -> Entry]
  BY LedgerTypes, LedgerAssumption DEF StartReindex, IInv, TypeOK, Indexes
<1>6. ListsShrink /\ OneActive' /\ index' \in [Indexes -> IndexRow]
  BY <1>1, <1>4, QuietKeepsOne DEF ListsShrink, TypeOK, StartReindex, IInv, Quiet
<1>7. QED
  BY <1>4, <1>5, <1>6, HandlersOnly DEF StartReindex

LEMMA ExcludeOK ==
    ASSUME IInv, NEW a \in Assets, Exclude(a)
    PROVE  IInv'
<1>1. TypeOK
  BY DEF IInv
<1>2. /\ records' \in [Indexes -> SUBSET Assets]
      /\ cleanup' \in [Indexes -> SUBSET Assets]
      /\ listed' \in [Indexes -> SUBSET Assets]
      /\ excluded' = excluded \union {a}
      /\ UNCHANGED <<ledger, index, vectors, builder, writing>>
      /\ \A i \in Indexes :
           /\ records'[i] = records[i] \ {a}
           /\ cleanup[i] \subseteq cleanup'[i]
           /\ listed[i] \subseteq listed'[i]
           /\ OnList(i, a) => a \in listed'[i]
  BY <1>1 DEF Exclude, Bar, TypeOK
<1>3. TypeOK'
  BY <1>1, <1>2 DEF TypeOK
<1>4. BackedOK'
  BY <1>2 DEF IInv, BackedOK, Backed
<1>5. ListedOK'
  <2>1. (\A i \in Indexes : records[i] \intersect excluded \subseteq listed[i])'
    BY <1>2 DEF IInv, ListedOK
  <2>2. (\A c \in writing : c.asset \in excluded => c.asset \in listed[c.index])'
    <3> SUFFICES ASSUME NEW c \in writing, c.asset \in excluded'
                 PROVE  c.asset \in listed'[c.index]
      BY <1>2
    <3>1. c.index \in Indexes
      BY <1>1 DEF TypeOK, Call
    <3>2. CASE c.asset = a
      BY <3>1, <3>2, <1>2 DEF OnList
    <3>3. CASE c.asset # a
      BY <3>1, <3>3, <1>2 DEF IInv, ListedOK
    <3>4. QED
      BY <3>2, <3>3
  <2>3. (\A w \in Workers : \A b \in builder[w].todo :
           b \in excluded => b \in listed[builder[w].job])'
    <3> SUFFICES ASSUME NEW w \in Workers, NEW b \in builder[w].todo, b \in excluded'
                 PROVE  b \in listed'[builder[w].job]
      BY <1>2
    <3>1. builder[w].job \in Indexes
      BY <1>1 DEF TypeOK
    <3>2. CASE b = a
      BY <3>1, <3>2, <1>2 DEF OnList
    <3>3. CASE b # a
      BY <3>1, <3>3, <1>2 DEF IInv, ListedOK
    <3>4. QED
      BY <3>2, <3>3
  <2>4. QED
    BY <2>1, <2>2, <2>3 DEF ListedOK
<1>6. OneActive'
  BY <1>2 DEF IInv, OneActive, InState
<1>7. QED
  BY <1>3, <1>4, <1>5, <1>6 DEF IInv

LEMMA AdmitOK ==
    ASSUME IInv, NEW a \in Assets, Admit(a)
    PROVE  IInv'
<1>1. /\ excluded' = excluded \ {a}
      /\ UNCHANGED <<ledger, index, records, vectors, cleanup, listed, builder, writing>>
  BY DEF Admit
<1>2. TypeOK'
  BY <1>1 DEF IInv, TypeOK
<1>3. BackedOK' /\ OneActive'
  BY <1>1 DEF IInv, BackedOK, Backed, OneActive, InState
<1>4. ListedOK'
  BY <1>1 DEF IInv, ListedOK
<1>5. QED
  BY <1>2, <1>3, <1>4 DEF IInv

LEMMA DeleteIndexOK ==
    ASSUME IInv, NEW i \in Indexes, DeleteIndex(i)
    PROVE  IInv' /\ Quiet
<1>1. TypeOK
  BY DEF IInv
<1> DEFINE gone == [state |-> "deleted", evaluated |-> FALSE]
<1>2. gone \in IndexRow /\ gone.state = "deleted"
  BY DEF IndexRow, Over
<1>3. index' = [index EXCEPT ![i] = gone] /\ records' = [records EXCEPT ![i] = {}]
  BY DEF DeleteIndex
<1> HIDE DEF gone
<1>4. /\ index' \in [Indexes -> IndexRow] /\ index'[i].state = "deleted"
      /\ \A j \in Indexes : j # i => index'[j] = index[j]
      /\ records' \in [Indexes -> SUBSET Assets] /\ records'[i] = {}
      /\ \A j \in Indexes : j # i => records'[j] = records[j]
  BY <1>1, <1>2, <1>3 DEF TypeOK
<1>5. UNCHANGED <<ledger, vectors, excluded, cleanup, listed, builder, writing>>
  BY DEF DeleteIndex, api
<1>6. Quiet
  BY <1>4 DEF Quiet, Over
<1>7. TypeOK'
  BY <1>1, <1>4, <1>5 DEF TypeOK
<1>8. BackedOK'
  <2> SUFFICES ASSUME NEW j \in Indexes
               PROVE  /\ index'[j].state = "deleted" => records'[j] = {}
                      /\ \A a \in records'[j] : Backed(j, a)'
                      /\ \A c \in writing : c.index = j /\ c.at = "record" =>
                           index'[j].state = "deleted" \/ Backed(j, c.asset)'
    BY <1>5 DEF BackedOK
  <2>1. CASE j = i
    BY <2>1, <1>4
  <2>2. CASE j # i
    BY <2>2, <1>4, <1>5 DEF IInv, BackedOK, Backed
  <2>3. QED
    BY <2>1, <2>2
<1>9. ListedOK'
  <2>1. \A j \in Indexes : records'[j] \subseteq records[j]
    BY <1>4
  <2>2. QED
    BY <2>1, <1>5 DEF IInv, ListedOK
<1>10. QED
  BY <1>6, <1>7, <1>8, <1>9, QuietKeepsOne DEF IInv

\* The cleanup takes only what the records no longer promise.
LEMMA CleanUpOK ==
    ASSUME IndexAssumption, IInv, NEW i \in Indexes, CleanUp(i)
    PROVE  IInv'
<1>1. TypeOK /\ vectors[i] \in SUBSET Assets
  BY DEF IInv, TypeOK, CleanUp
<1>2. UNCHANGED <<ledger, index, records, excluded, cleanup, listed, builder, writing>>
  BY DEF CleanUp, api
<1>3. /\ vectors' \in [Indexes -> {NoCollection} \union SUBSET Assets]
      /\ \A j \in Indexes : j # i => vectors'[j] = vectors[j]
      /\ \/ \E a \in cleanup[i] : vectors'[i] = vectors[i] \ {a}
         \/ index[i].state = "deleted"
  BY <1>1 DEF CleanUp, TypeOK
<1>4. TypeOK'
  BY <1>1, <1>2, <1>3 DEF TypeOK
<1>5. \A j \in Indexes : \A a : Backed(j, a) => Backed(j, a)' \/ index[j].state = "deleted"
  <2> SUFFICES ASSUME NEW j \in Indexes, NEW a, Backed(j, a), index[j].state # "deleted"
               PROVE  Backed(j, a)'
    OBVIOUS
  <2>1. CASE j # i
    BY <2>1, <1>2, <1>3 DEF Backed
  <2>2. CASE j = i
    <3>1. PICK b \in cleanup[i] : vectors'[i] = vectors[i] \ {b}
      BY <2>2, <1>3
    <3>2. vectors'[i] # NoCollection
      BY <3>1, <1>1, IndexAssumption DEF IndexAssumption
    <3>3. QED
      BY <3>1, <3>2, <2>2, <1>2 DEF Backed
  <2>3. QED
    BY <2>1, <2>2
<1>6. BackedOK'
  <2> SUFFICES ASSUME NEW j \in Indexes
               PROVE  /\ index[j].state = "deleted" => records[j] = {}
                      /\ \A a \in records[j] : Backed(j, a)'
                      /\ \A c \in writing : c.index = j /\ c.at = "record" =>
                           index[j].state = "deleted" \/ Backed(j, c.asset)'
    BY <1>2 DEF BackedOK
  <2>1. QED
    BY <1>5 DEF IInv, BackedOK
<1>7. ListedOK' /\ OneActive'
  BY <1>2 DEF IInv, ListedOK, OneActive, InState
<1>8. QED
  BY <1>4, <1>6, <1>7 DEF IInv

-----------------------------------------------------------------------------
(* The handler.                                                            *)

\* The activation leaves one active index, evaluated, and brings none back.
LEMMA Activation ==
    ASSUME index \in [Indexes -> IndexRow], NEW i \in Indexes, index' = Activated(i)
    PROVE  /\ index' \in [Indexes -> IndexRow] /\ NoneDeleted /\ OneActive'
           /\ \A j \in Indexes : index[j].state \in Over => index'[j].state \in Over
<1>1. /\ Evaluated(i) \in [Indexes -> IndexRow]
      /\ Evaluated(i)[i].evaluated
      /\ \A j \in Indexes : Evaluated(i)[j].state = index[j].state
  BY DEF Evaluated, IndexRow
<1> DEFINE e == Evaluated(i)
<1>2. \A j \in Indexes :
        /\ [e[j] EXCEPT !.state = "retired"] \in IndexRow
        /\ [e[j] EXCEPT !.state = "retired"].state = "retired"
        /\ [e[j] EXCEPT !.state = "active"] \in IndexRow
        /\ [e[j] EXCEPT !.state = "active"].state = "active"
        /\ [e[j] EXCEPT !.state = "active"].evaluated = e[j].evaluated
  BY <1>1 DEF IndexRow, Over
<1>3. index' = [j \in Indexes |->
                 IF index[j].state = "active" THEN [e[j] EXCEPT !.state = "retired"]
                 ELSE IF j = i /\ index[j].state = "evaluating" THEN [e[j] EXCEPT !.state = "active"]
                 ELSE e[j]]
  BY DEF Activated
<1> HIDE DEF e
<1>4. /\ index' \in [Indexes -> IndexRow]
      /\ \A j \in Indexes :
           \/ index[j].state = "active" /\ index'[j].state = "retired"
           \/ j = i /\ index[j].state = "evaluating" /\ index'[j].state = "active" /\ index'[j].evaluated
           \/ index[j].state # "active" /\ index'[j].state = index[j].state
  BY <1>1, <1>2, <1>3 DEF e
<1>5. QED
  BY <1>4 DEF NoneDeleted, OneActive, InState, Over

\* A handler moves on: what it may do to the rows.
OverKept == \A j \in Indexes : index[j].state \in Over => index'[j].state \in Over

LEMMA HandlerOK ==
    ASSUME IInv, NEW w \in Workers, builder[w].at # "idle", HandlerMoves(w),
           UNCHANGED <<ledger, records, vectors, api, writing>>,
           index' \in [Indexes -> IndexRow], NoneDeleted, OneActive'
    PROVE  IInv'
<1>1. ListsShrink /\ ledger' \in [Jobs -> Entry]
  BY MovesShrink DEF IInv, TypeOK
<1>2. QED
  BY <1>1, HandlersOnly

LEMMA BeginOK ==
    ASSUME IInv, NEW w \in Workers, Begin(w)
    PROVE  IInv' /\ OverKept
<1> DEFINE i == JobOf(w)
<1>1. /\ index \in [Indexes -> IndexRow] /\ i \in Indexes
      /\ builder \in [Workers -> Builder] /\ builder[w].at # "idle"
  BY DEF IInv, TypeOK, JobOf, Begin
<1>2. HandlerMoves(w)
  BY <1>1, Moving DEF Begin, Points, Outcomes
<1>3. UNCHANGED index \/ index' = Failed(i)
  BY DEF Begin
<1>4. Quiet /\ NoneDeleted
  <2>1. CASE UNCHANGED index
    BY <2>1, <1>1 DEF Quiet, NoneDeleted
  <2>2. CASE index' = Failed(i)
    BY <2>2, <1>1, Failing
  <2>3. QED
    BY <1>3, <2>1, <2>2
<1>5. QED
  BY <1>1, <1>2, <1>4, QuietKeepsOne, HandlerOK DEF Begin, IInv, Quiet, OverKept

LEMMA CallFailsOK ==
    ASSUME IInv, NEW w \in Workers, CallFails(w)
    PROVE  IInv'
<1>1. builder \in [Workers -> Builder] /\ builder[w].at # "idle"
  BY DEF IInv, TypeOK, CallFails
<1>2. HandlerMoves(w)
  BY <1>1, Moving DEF CallFails, Outcomes
<1>3. Quiet /\ NoneDeleted
  BY DEF CallFails, Quiet, NoneDeleted, IInv, TypeOK
<1>4. QED
  BY <1>1, <1>2, <1>3, QuietKeepsOne, HandlerOK DEF CallFails, IInv, Quiet

LEMMA FinishBuildOK ==
    ASSUME IInv, NEW w \in Workers, FinishBuild(w)
    PROVE  IInv' /\ OverKept
<1> DEFINE i == JobOf(w)
<1>1. /\ index \in [Indexes -> IndexRow] /\ i \in Indexes /\ index[i] \in IndexRow
      /\ builder \in [Workers -> Builder] /\ builder[w].at # "idle"
  BY DEF IInv, TypeOK, JobOf, FinishBuild
<1>2. HandlerMoves(w)
  BY <1>1, Moving DEF FinishBuild, Reports, Points, Outcomes
<1>3. Quiet /\ NoneDeleted
  <2>1. CASE index[i].state = "building"
    <3>1. index' = [index EXCEPT ![i] = [index[i] EXCEPT !.state = "evaluating"]]
      BY <2>1 DEF FinishBuild
    <3> DEFINE e == index[i].evaluated
    <3>2. /\ [index[i] EXCEPT !.state = "evaluating"] = [state |-> "evaluating", evaluated |-> e]
          /\ e \in BOOLEAN
      BY <1>1 DEF IndexRow
    <3>3. index' = [index EXCEPT ![i] = [state |-> "evaluating", evaluated |-> e]]
      BY <3>1, <3>2
    <3> HIDE DEF e
    <3>4. QED
      BY <3>2, <3>3, <2>1, <1>1, RowChanges DEF Over
  <2>2. CASE UNCHANGED index
    BY <2>2, <1>1 DEF Quiet, NoneDeleted
  <2>3. QED
    BY <2>1, <2>2 DEF FinishBuild
<1>4. QED
  BY <1>1, <1>2, <1>3, QuietKeepsOne, HandlerOK DEF FinishBuild, IInv, Quiet, OverKept

LEMMA DecideOK ==
    ASSUME IInv, NEW w \in Workers, Decide(w)
    PROVE  IInv' /\ OverKept
<1> DEFINE i == JobOf(w)
<1>1. /\ index \in [Indexes -> IndexRow] /\ i \in Indexes /\ index[i] \in IndexRow
      /\ builder \in [Workers -> Builder] /\ builder[w].at # "idle"
  BY DEF IInv, TypeOK, JobOf, Decide
<1>2. HandlerMoves(w)
  BY <1>1, Moving DEF Decide, Outcomes
<1>3. /\ index' \in [Indexes -> IndexRow] /\ NoneDeleted /\ OneActive' /\ OverKept
  <2>1. CASE index' = Activated(i)
    BY <2>1, <1>1, Activation DEF OverKept
  <2>2. CASE index' = [Evaluated(i) EXCEPT ![i].state = "failed"]
    <3> DEFINE e == Evaluated(i)
    <3>1. /\ e \in [Indexes -> IndexRow]
          /\ \A j \in Indexes : j # i => e[j] = index[j]
          /\ index' = [e EXCEPT ![i].state = "failed"]
      BY <2>2, <1>1 DEF Evaluated, IndexRow
    <3> HIDE DEF e
    <3>2. /\ index' \in [Indexes -> IndexRow] /\ index'[i].state = "failed"
          /\ \A j \in Indexes : j # i => index'[j] = index[j]
      BY <3>1, <1>1 DEF IndexRow, Over
    <3>3. Quiet /\ NoneDeleted
      BY <3>2 DEF Quiet, NoneDeleted, Over, Decide, Exists
    <3>4. QED
      BY <3>3, QuietKeepsOne DEF Quiet, OverKept, IInv
  <2>3. QED
    BY <2>1, <2>2 DEF Decide
<1>4. QED
  BY <1>1, <1>2, <1>3, HandlerOK DEF Decide

LEMMA CatchOK ==
    ASSUME IInv, NEW w \in Workers, Catch(w)
    PROVE  IInv' /\ OverKept
<1> DEFINE i == JobOf(w)
<1>1. /\ index \in [Indexes -> IndexRow] /\ i \in Indexes
      /\ builder \in [Workers -> Builder] /\ builder[w].at # "idle"
      /\ builder[w].result \in Outcomes
  BY DEF IInv, TypeOK, JobOf, Catch, Builder, Outcomes
<1>2. HandlerMoves(w)
  BY <1>1, Moving DEF Catch
<1>3. UNCHANGED index \/ index' = Failed(i)
  BY DEF Catch
<1>4. Quiet /\ NoneDeleted
  <2>1. CASE UNCHANGED index
    BY <2>1, <1>1 DEF Quiet, NoneDeleted
  <2>2. CASE index' = Failed(i)
    BY <2>2, <1>1, Failing
  <2>3. QED
    BY <1>3, <2>1, <2>2
<1>5. QED
  BY <1>1, <1>2, <1>4, QuietKeepsOne, HandlerOK DEF Catch, IInv, Quiet, OverKept

\* The list of a build has nothing on it that is excluded.
LEMMA PrepareOK ==
    ASSUME IndexAssumption, IInv, NEW w \in Workers, Prepare(w)
    PROVE  IInv'
<1> DEFINE i == JobOf(w)
<1>1. /\ TypeOK /\ i \in Indexes /\ i = builder[w].job
      /\ builder \in [Workers -> Builder] /\ builder[w].at # "idle"
      /\ UNCHANGED <<ledger, index, records, excluded, cleanup, listed, writing>>
  BY DEF IInv, TypeOK, JobOf, Prepare, api
<1>2. PICK targets \in SUBSET (Assets \ excluded) :
        builder' = [builder EXCEPT ![w].at = "building", ![w].todo = targets]
  BY DEF Prepare
<1>3. /\ builder' \in [Workers -> Builder]
      /\ builder'[w].at # "idle" /\ builder'[w].job = i /\ builder'[w].todo = targets
      /\ \A v \in Workers : v # w => builder'[v] = builder[v]
  <2> DEFINE b == [builder[w] EXCEPT !.at = "building", !.todo = targets]
  <2>1. b \in Builder /\ b.at = "building" /\ b.job = i /\ b.todo = targets
    BY <1>1 DEF Builder
  <2>2. builder' = [builder EXCEPT ![w] = b]
    BY <1>2
  <2> HIDE DEF b
  <2>3. QED
    BY <2>1, <2>2, <1>1
<1>4. /\ vectors' \in [Indexes -> {NoCollection} \union SUBSET Assets]
      /\ \A j \in Indexes : vectors[j] # NoCollection => vectors'[j] = vectors[j]
  BY <1>1 DEF Prepare, TypeOK
<1>5. TypeOK'
  BY <1>1, <1>3, <1>4 DEF TypeOK
<1>6. BackedOK'
  <2>1. \A j \in Indexes : \A a : Backed(j, a) => Backed(j, a)'
    BY <1>1, <1>4 DEF Backed
  <2>2. QED
    BY <2>1, <1>1 DEF IInv, BackedOK
<1>7. ListedOK'
  BY <1>1, <1>3 DEF IInv, ListedOK
<1>8. OneActive'
  BY <1>1 DEF IInv, OneActive, InState
<1>9. QED
  BY <1>5, <1>6, <1>7, <1>8 DEF IInv

\* A batch is taken from the list.
LEMMA NextBatchOK ==
    ASSUME IInv, NEW w \in Workers, NextBatch(w)
    PROVE  IInv'
<1> DEFINE i == JobOf(w)
           todo == builder[w].todo
<1>1. /\ TypeOK /\ i \in Indexes /\ i = builder[w].job
      /\ builder \in [Workers -> Builder] /\ builder[w].at # "idle"
      /\ todo \in SUBSET Assets /\ builder[w].attempt \in Nat
      /\ UNCHANGED <<ledger, index, records, vectors, excluded, cleanup, listed>>
  BY DEF IInv, TypeOK, JobOf, NextBatch, api, Builder
<1>2. PICK batch \in SUBSET todo :
        /\ writing' = writing \union [worker : {w}, index : {i}, attempt : {builder[w].attempt},
                                      asset : batch, at : {"upsert"}]
        /\ builder' = [builder EXCEPT ![w].todo = todo \ batch]
  BY DEF NextBatch
<1>3. /\ builder' \in [Workers -> Builder]
      /\ builder'[w].at # "idle" /\ builder'[w].job = i /\ builder'[w].todo \subseteq todo
      /\ \A v \in Workers : v # w => builder'[v] = builder[v]
  BY <1>1, <1>2 DEF Builder
<1>4. \A c \in writing' : \/ c \in writing
                          \/ c \in Call /\ c.index = i /\ c.asset \in todo /\ c.at = "upsert"
  <2> SUFFICES ASSUME NEW c \in [worker : {w}, index : {i}, attempt : {builder[w].attempt},
                                 asset : batch, at : {"upsert"}]
               PROVE  c \in Call /\ c.index = i /\ c.asset \in todo /\ c.at = "upsert"
    BY <1>2
  <2> QED
    BY <1>1 DEF Call
<1>5. TypeOK'
  <2>1. writing' \in SUBSET Call
    BY <1>1, <1>4 DEF TypeOK
  <2>2. QED
    BY <2>1, <1>1, <1>3 DEF TypeOK
<1>6. BackedOK'
  <2>1. \A j \in Indexes : \A a : Backed(j, a)' <=> Backed(j, a)
    BY <1>1 DEF Backed
  <2>2. QED
    BY <2>1, <1>1, <1>4 DEF IInv, BackedOK
<1>7. ListedOK'
  <2>1. (\A c \in writing : c.asset \in excluded => c.asset \in listed[c.index])'
    BY <1>1, <1>4 DEF IInv, ListedOK
  <2>2. (\A v \in Workers : \A b \in builder[v].todo :
           b \in excluded => b \in listed[builder[v].job])'
    BY <1>1, <1>3 DEF IInv, ListedOK
  <2>3. QED
    BY <2>1, <2>2, <1>1 DEF IInv, ListedOK
<1>8. OneActive'
  BY <1>1 DEF IInv, OneActive, InState
<1>9. QED
  BY <1>5, <1>6, <1>7, <1>8 DEF IInv

\* A claim hands an index to a handler that knows of no assets yet.
LEMMA ClaimOK ==
    ASSUME LedgerAssumption, IInv, NEW w \in Workers, ClaimNext(w)
    PROVE  IInv'
<1>1. /\ TypeOK /\ ledger \in [Jobs -> Entry]
      /\ UNCHANGED <<index, records, vectors, api, writing>>
  BY DEF IInv, TypeOK, ClaimNext
<1>2. PICK swept \in SUBSET Exhaustible :
        \/ Sweep(swept) /\ UNCHANGED builder
        \/ \E i \in Startable :
             /\ Start(w, swept, i)
             /\ builder' = [builder EXCEPT ![w] = [IdleBuilder EXCEPT
                  !.at = "starting", !.job = i, !.attempt = ledger[i].attempts + 1]]
  BY DEF ClaimNext
<1>3. swept \in SUBSET Jobs
  BY DEF Exhaustible
<1>4. ledger' \in [Jobs -> Entry]
  BY <1>1, <1>2, <1>3, LedgerTypes, LedgerAssumption DEF Startable
<1>5. ListsShrink
  <2>1. CASE UNCHANGED builder
    BY <2>1, <1>1 DEF ListsShrink, TypeOK
  <2>2. ASSUME NEW i \in Startable,
               builder' = [builder EXCEPT ![w] = [IdleBuilder EXCEPT
                  !.at = "starting", !.job = i, !.attempt = ledger[i].attempts + 1]]
        PROVE  ListsShrink
    <3> DEFINE b == [IdleBuilder EXCEPT !.at = "starting", !.job = i,
                                        !.attempt = ledger[i].attempts + 1]
    <3>1. i \in Indexes /\ ledger[i].attempts + 1 \in Nat
      BY <1>1 DEF Startable, Indexes, Entry
    <3>2. b \in Builder /\ b.todo = {} /\ b.job = i
      BY <3>1 DEF IdleBuilder, Builder
    <3>3. builder' = [builder EXCEPT ![w] = b]
      BY <2>2
    <3> HIDE DEF b
    <3>4. QED
      BY <3>1, <3>2, <3>3, <1>1, FreshShrinks
  <2>3. QED
    BY <1>2, <2>1, <2>2
<1>6. OneActive' /\ NoneDeleted /\ index' \in [Indexes -> IndexRow]
  BY <1>1 DEF IInv, OneActive, InState, NoneDeleted, TypeOK
<1>7. QED
  BY <1>1, <1>4, <1>5, <1>6, HandlersOnly

\* A handler ends, with or without its job, and with or without its calls.
LEMMA LeavesOK ==
    ASSUME LedgerAssumption, IInv, NEW w \in Workers, Settle(w) \/ WorkerDies(w)
    PROVE  IInv'
<1>1. /\ TypeOK /\ ledger \in [Jobs -> Entry] /\ builder[w].at # "idle" /\ JobOf(w) \in Jobs
      /\ builder' = [builder EXCEPT ![w] = IdleBuilder]
      /\ UNCHANGED <<index, records, vectors, api>>
      /\ writing' \subseteq writing
  BY DEF IInv, TypeOK, Settle, WorkerDies, JobOf, Indexes
<1>2. ledger' \in [Jobs -> Entry]
  BY <1>1, LedgerTypes, LedgerAssumption DEF Settle, Settles, WorkerDies
<1>3. IdleBuilder \in Builder /\ IdleBuilder.todo = {} /\ IdleBuilder.at = "idle"
  BY DEF IdleBuilder, Builder
<1>4. ListsShrink
  BY <1>1, <1>3, FreshShrinks
<1>5. OneActive' /\ NoneDeleted /\ index' \in [Indexes -> IndexRow]
  BY <1>1 DEF IInv, OneActive, InState, NoneDeleted, TypeOK
<1>6. QED
  BY <1>1, <1>2, <1>4, <1>5, HandlersOnly

-----------------------------------------------------------------------------
(* The calls.                                                              *)

\* The handler hears of a call only while it waits for it.
LEMMA CallersShrink ==
    ASSUME TypeOK, NEW c \in writing, Record(c) \/ WriteFails(c)
    PROVE  ListsShrink
<1>1. CASE UNCHANGED builder
  BY <1>1 DEF ListsShrink, TypeOK
<1>2. CASE ~UNCHANGED builder
  <2>1. IsAwaited(c) /\ c.worker \in Workers /\ builder[c.worker].at # "idle"
    BY <1>2 DEF Record, WriteFails, IsAwaited, TypeOK, Call
  <2>2. \E result \in Outcomes : Throws(c.worker, result)
    BY <2>1, <1>2 DEF Record, WriteFails, Reports, Outcomes
  <2>3. HandlerMoves(c.worker)
    BY <2>1, <2>2, Moving DEF TypeOK
  <2>4. QED
    BY <2>1, <2>3, MovesShrink
<1>3. QED
  BY <1>1, <1>2

LEMMA UpsertOK ==
    ASSUME IndexAssumption, IInv, NEW c \in writing, Upsert(c)
    PROVE  IInv'
<1> DEFINE i == c.index
           d == [c EXCEPT !.at = "record"]
<1>1. /\ TypeOK /\ c \in Call /\ i \in Indexes /\ c.asset \in Assets
      /\ vectors[i] \in SUBSET Assets
      /\ UNCHANGED <<ledger, index, records, excluded, cleanup, listed, builder>>
  BY DEF IInv, TypeOK, Call, Upsert, api
<1>2. d \in Call /\ d.index = i /\ d.asset = c.asset /\ d.at = "record"
  BY <1>1 DEF Call
<1>3. /\ vectors' \in [Indexes -> {NoCollection} \union SUBSET Assets]
      /\ vectors'[i] = vectors[i] \union {c.asset} /\ vectors'[i] # NoCollection
      /\ \A j \in Indexes : j # i => vectors'[j] = vectors[j]
  BY <1>1, IndexAssumption DEF Upsert, TypeOK, IndexAssumption
<1>4. writing' = (writing \ {c}) \union {d}
  BY DEF Upsert
<1> HIDE DEF d
<1>5. TypeOK'
  BY <1>1, <1>2, <1>3, <1>4 DEF TypeOK
<1>6. BackedOK'
  <2>1. \A j \in Indexes : \A a : Backed(j, a) => Backed(j, a)'
    BY <1>1, <1>3 DEF Backed
  <2>2. Backed(i, c.asset)'
    BY <1>3 DEF Backed
  <2>3. QED
    BY <2>1, <2>2, <1>1, <1>2, <1>4 DEF IInv, BackedOK
<1>7. ListedOK'
  BY <1>1, <1>2, <1>4 DEF IInv, ListedOK
<1>8. OneActive'
  BY <1>1 DEF IInv, OneActive, InState
<1>9. QED
  BY <1>5, <1>6, <1>7, <1>8 DEF IInv

LEMMA RecordOK ==
    ASSUME IInv, NEW c \in writing, Record(c)
    PROVE  IInv'
<1> DEFINE i == c.index
<1>1. /\ TypeOK /\ i \in Indexes /\ c.asset \in Assets /\ c.at = "record"
      /\ index[i].state # "deleted"
      /\ UNCHANGED <<ledger, index, vectors, excluded, cleanup, listed>>
      /\ writing' = writing \ {c}
  BY DEF IInv, TypeOK, Call, Record, api, Exists
<1>2. /\ records' \in [Indexes -> SUBSET Assets]
      /\ records'[i] = records[i] \union {c.asset}
      /\ \A j \in Indexes : j # i => records'[j] = records[j]
  BY <1>1 DEF Record, TypeOK
<1>3. ListsShrink
  BY <1>1, CallersShrink
<1>4. TypeOK'
  BY <1>1, <1>2, <1>3 DEF TypeOK, ListsShrink
<1>5. BackedOK'
  <2>1. \A j \in Indexes : \A a : Backed(j, a)' <=> Backed(j, a)
    BY <1>1 DEF Backed
  <2>2. Backed(i, c.asset)
    BY <1>1 DEF IInv, BackedOK
  <2>3. QED
    BY <2>1, <2>2, <1>1, <1>2 DEF IInv, BackedOK
<1>6. ListedOK'
  <2>1. c.asset \in excluded => c.asset \in listed[i]
    BY DEF IInv, ListedOK
  <2>2. (\A j \in Indexes : records[j] \intersect excluded \subseteq listed[j])'
    BY <2>1, <1>1, <1>2 DEF IInv, ListedOK
  <2>3. (\A v \in Workers : \A b \in builder[v].todo :
           b \in excluded => b \in listed[builder[v].job])'
    BY <1>1, <1>3 DEF IInv, ListedOK, ListsShrink
  <2>4. QED
    BY <2>2, <2>3, <1>1 DEF IInv, ListedOK
<1>7. OneActive'
  BY <1>1 DEF IInv, OneActive, InState
<1>8. QED
  BY <1>4, <1>5, <1>6, <1>7 DEF IInv

LEMMA WriteFailsOK ==
    ASSUME IInv, NEW c \in writing, WriteFails(c)
    PROVE  IInv'
<1>1. /\ TypeOK /\ ledger' \in [Jobs -> Entry]
      /\ UNCHANGED <<index, records, vectors, api>>
      /\ writing' \subseteq writing
  BY DEF IInv, TypeOK, WriteFails
<1>2. ListsShrink
  BY <1>1, CallersShrink
<1>3. OneActive' /\ NoneDeleted /\ index' \in [Indexes -> IndexRow]
  BY <1>1 DEF IInv, OneActive, InState, NoneDeleted, TypeOK
<1>4. QED
  BY <1>1, <1>2, <1>3, HandlersOnly

-----------------------------------------------------------------------------
(* What the index promises.                                                *)

LEMMA InitOK == ASSUME LedgerAssumption, IndexAssumption, Init PROVE IInv
<1>1. ledger \in [Jobs -> Entry]
  BY DEF Init, LedgerInit, Entry, JobStates
<1>2. IdleBuilder \in Builder /\ IdleBuilder.at = "idle" /\ IdleBuilder.todo = {}
  BY DEF IdleBuilder, Builder
<1>3. index \in [Indexes -> IndexRow] /\ \A i \in Indexes : index[i].state = "absent"
  BY DEF Init, IndexRow
<1>4. TypeOK
  BY <1>1, <1>2, <1>3 DEF Init, TypeOK
<1>5. OneActive
  BY <1>3 DEF OneActive, InState
<1>6. BackedOK
  BY <1>3 DEF Init, BackedOK
<1>7. ListedOK
  BY <1>2 DEF Init, ListedOK
<1>8. QED
  BY <1>4, <1>5, <1>6, <1>7 DEF IInv

\* Every step preserves the invariant and brings back no index that is over.
LEMMA StepOK ==
    ASSUME LedgerAssumption, IndexAssumption, IInv, [Next]_vars
    PROVE  IInv' /\ OverKept
<1> USE LedgerAssumption, IndexAssumption
<1>q. Quiet \/ UNCHANGED index => OverKept
  BY DEF Quiet, OverKept
<1>1. CASE \E i \in Indexes : StartReindex(i)
  BY <1>1, <1>q, StartReindexOK
<1>2. CASE \E i \in Indexes : DeleteIndex(i)
  BY <1>2, <1>q, DeleteIndexOK
<1>3. CASE \E i \in Indexes : CleanUp(i)
  BY <1>3, <1>q, CleanUpOK DEF CleanUp
<1>4. CASE \E a \in Excludable : Exclude(a)
  BY <1>4, <1>q, ExcludeOK DEF IndexAssumption, Exclude, Bar
<1>5. CASE \E a \in Excludable : Admit(a)
  BY <1>5, <1>q, AdmitOK DEF IndexAssumption, Admit
<1>6. CASE \E w \in Workers : ClaimNext(w)
  BY <1>6, <1>q, ClaimOK DEF ClaimNext
<1>7. CASE \E w \in Workers : Begin(w) \/ FinishBuild(w) \/ Decide(w) \/ Catch(w)
  BY <1>7, BeginOK, FinishBuildOK, DecideOK, CatchOK
<1>8. CASE \E w \in Workers : CallFails(w) \/ Prepare(w) \/ NextBatch(w)
  BY <1>8, <1>q, CallFailsOK, PrepareOK, NextBatchOK DEF CallFails, Prepare, NextBatch
<1>9. CASE \E w \in Workers : Settle(w) \/ WorkerDies(w)
  BY <1>9, <1>q, LeavesOK DEF Settle, WorkerDies
<1>10. CASE \E c \in writing : Upsert(c) \/ Record(c) \/ WriteFails(c)
  BY <1>10, <1>q, UpsertOK, RecordOK, WriteFailsOK DEF Upsert, Record, WriteFails
<1>11. CASE UNCHANGED vars
  <2>1. UNCHANGED <<ledger, index, records, vectors, excluded, cleanup, listed, builder, writing>>
    BY <1>11 DEF vars, api
  <2>2. QED
    BY <2>1, <1>q DEF IInv, TypeOK, OneActive, InState, BackedOK, Backed, ListedOK
<1>12. QED
  BY <1>1, <1>2, <1>3, <1>4, <1>5, <1>6, <1>7, <1>8, <1>9, <1>10, <1>11 DEF Next

\* One index serves a project, and it has passed an evaluation (evaluateAndActivate),
\* for any number of indexes, attempts and workers.
THEOREM OneServes == Spec => []OneActive
<1>1. Init => IInv
  BY InitOK, LedgerAssumption, IndexAssumption
<1>2. IInv /\ [Next]_vars => IInv'
  BY StepOK, LedgerAssumption, IndexAssumption
<1>3. IInv => OneActive
  BY DEF IInv
<1>4. QED
  BY <1>1, <1>2, <1>3, PTL DEF Spec

\* What the records of an index promise is in its collection, unless a cleanup of the
\* asset may have taken it (indexTarget and the ai.delete_asset jobs).
THEOREM RecordsHaveVectors == Spec => []RecordsAreBacked
<1>1. Init => IInv
  BY InitOK, LedgerAssumption, IndexAssumption
<1>2. IInv /\ [Next]_vars => IInv'
  BY StepOK, LedgerAssumption, IndexAssumption
<1>3. IInv => RecordsAreBacked
  BY DEF IInv, BackedOK, Backed, RecordsAreBacked
<1>4. QED
  BY <1>1, <1>2, <1>3, PTL DEF Spec

\* An excluded asset stays out of every index but those whose build had it on its
\* list when it was excluded (setAssetExclusion and readTargets).
THEOREM ExclusionHolds == Spec => []OnlyEarlierBuildsKeep
<1>1. Init => IInv
  BY InitOK, LedgerAssumption, IndexAssumption
<1>2. IInv /\ [Next]_vars => IInv'
  BY StepOK, LedgerAssumption, IndexAssumption
<1>3. IInv => OnlyEarlierBuildsKeep
  BY DEF IInv, ListedOK, OnlyEarlierBuildsKeep
<1>4. QED
  BY <1>1, <1>2, <1>3, PTL DEF Spec

\* No attempt that comes late, and no retry, brings back an index that was retired,
\* has failed or was deleted (failIndex, evaluateAndActivate).
THEOREM OverStaysOver == Spec => OverIsOver
<1>1. Init => IInv
  BY InitOK, LedgerAssumption, IndexAssumption
<1>2. IInv /\ [Next]_vars => IInv'
  BY StepOK, LedgerAssumption, IndexAssumption
<1>3. IInv /\ [Next]_vars =>
        [\A i \in Indexes : index[i].state \in Over => index'[i].state \in Over]_vars
  BY StepOK, LedgerAssumption, IndexAssumption DEF OverKept
<1>4. QED
  BY <1>1, <1>2, <1>3, PTL DEF Spec, OverIsOver

=============================================================================

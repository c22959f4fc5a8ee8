------------------------- MODULE DerivativesProofs -------------------------
(***************************************************************************)
(* Theorems about the derivative cache, for any makers, objects, jobs and  *)
(* invalidations: first the invariant of the store, which the steps shared *)
(* by both services preserve, then what each service adds to it.           *)
(***************************************************************************)
EXTENDS AsyncDerivatives, ImageDerivatives, TLAPS

-----------------------------------------------------------------------------
(* The invariant of the store.                                             *)

\* A generation has an object of its own before its object is published, ...
Unpublished == {"make", "made", "stored", "finalized"}
\* ... and while it cleans up.
CleaningUp == {"discard", "discarded", "fail"}
Holding == Unpublished \union {"published"} \union CleaningUp

StoreTypeOK ==
    /\ row \in Row
    /\ object \in [Objects -> ObjectStates]
    /\ blobs \in SUBSET Objects
    /\ maker \in [Makers -> Maker]
    /\ invalidation \in [Admins -> Invalidation]

\* The object of a generation: recorded before its bytes are stored, and stored
\* before it is finalized.
MakerOK(mk, states, bytes) ==
    /\ mk.pc \in Holding => mk.object \in Objects /\ states[mk.object] # "none"
    /\ mk.pc \in {"make", "made", "stored"} => states[mk.object] = "staging"
    /\ mk.pc = "finalized" => states[mk.object] = "available"
    /\ mk.pc \in {"stored", "finalized"} => mk.object \in bytes

\* The object of an invalidation will not be available again; once its bytes are
\* deleted they stay so.
InvalidationOK(inv, states, bytes) ==
    inv.pc # "idle" =>
      \/ inv.pc = "finish" /\ inv.object = NoObject
      \/ /\ inv.object \in Objects
         /\ states[inv.object] \in {"deleting", "deleted", "failed"}
         /\ inv.pc = "finish" => inv.object \notin bytes

RowOK(derivative, states) ==
    /\ derivative.state = "ready" => derivative.object \in Objects
    /\ derivative.object \in Objects => states[derivative.object] # "none"

\* Nobody but its generation has met this object.
Unseen(o) ==
    /\ row.object # o
    /\ \A a \in Admins : invalidation[a].pc # "idle" => invalidation[a].object # o

Distinct ==
    \A m, n \in Makers : /\ m # n
                         /\ maker[m].pc \in Holding /\ maker[n].pc \in Holding
                         => maker[m].object # maker[n].object

StoreOK ==
    /\ StoreTypeOK
    /\ \A m \in Makers : MakerOK(maker[m], object, blobs)
    /\ \A a \in Admins : InvalidationOK(invalidation[a], object, blobs)
    /\ RowOK(row, object)
    /\ \A m \in Makers : maker[m].pc \in Unpublished => Unseen(maker[m].object)
    /\ Distinct
    /\ BytesStayListed

-----------------------------------------------------------------------------
(* The steps of the store preserve its invariant.                          *)

\* One maker moves to another phase of the same generation.
Moves(m, pc) ==
    /\ maker' \in [Makers -> Maker]
    /\ maker'[m].pc = pc
    /\ maker'[m].object = maker[m].object
    /\ maker'[m].owner = maker[m].owner
    /\ maker'[m].id = maker[m].id
    /\ \A n \in Makers : n # m => maker'[n] = maker[n]

\* Each of the three ways in which a maker goes on is such a move.
LEMMA GotoMoves ==
    ASSUME StoreTypeOK, NEW m \in Makers, NEW pc \in Phases, Goto(m, pc)
    PROVE  Moves(m, pc) /\ maker'[m].result = maker[m].result
BY DEF StoreTypeOK, Goto, Moves, Maker

LEMMA EndsMoves ==
    ASSUME StoreTypeOK, NEW m \in Makers, NEW result \in Results, Ends(m, result)
    PROVE  Moves(m, "done") /\ maker'[m].result = result
BY DEF StoreTypeOK, Ends, Moves, Maker, Phases

LEMMA ThrowsMoves ==
    ASSUME StoreTypeOK, NEW m \in Makers, NEW retryable \in BOOLEAN, Throws(m, retryable)
    PROVE  Moves(m, "discard") /\ maker'[m].result \in {"retry", "reject"}
BY DEF StoreTypeOK, Throws, Moves, Maker, Phases, Results

\* Initially there are no bytes, no generation and no invalidation.
LEMMA StoreInitOK == ASSUME StoreAssumption, StoreInit PROVE StoreOK
<1> USE DEF StoreInit, IdleMaker, IdleInvalidation, NoRow
<1>1. StoreTypeOK
  BY StoreAssumption DEF StoreAssumption, StoreTypeOK, Row, ObjectStates, Maker, Phases, Results,
       Invalidation
<1>2. /\ \A m \in Makers : maker[m].pc = "idle"
      /\ \A a \in Admins : invalidation[a].pc = "idle"
  OBVIOUS
<1>3. RowOK(row, object)
  BY StoreAssumption DEF RowOK, StoreAssumption
<1>4. BytesStayListed
  BY DEF BytesStayListed
<1>5. QED
  BY <1>1, <1>2, <1>3, <1>4
     DEF StoreOK, MakerOK, InvalidationOK, Distinct, Holding, Unpublished, CleaningUp

\* A maker that leaves its generation, or never had one, disturbs nothing.
LEMMA MakerLeaves ==
    ASSUME StoreOK, NEW m \in Makers,
           maker' \in [Makers -> Maker], maker'[m].pc \notin Holding,
           \A n \in Makers : n # m => maker'[n] = maker[n],
           UNCHANGED <<row, object, blobs, invalidation>>
    PROVE  StoreOK'
<1>1. StoreTypeOK'
  BY DEF StoreOK, StoreTypeOK
<1>2. \A n \in Makers : maker'[n].pc \in Holding => n # m /\ maker'[n] = maker[n]
  OBVIOUS
<1>3. (\A n \in Makers : MakerOK(maker[n], object, blobs))'
  <2> TAKE n \in Makers
  <2>1. CASE n = m
    BY <2>1 DEF MakerOK, Holding, Unpublished
  <2>2. CASE n # m
    BY <2>2 DEF StoreOK, MakerOK
  <2>3. QED
    BY <2>1, <2>2
<1>4. (\A n \in Makers : maker[n].pc \in Unpublished => Unseen(maker[n].object))'
  BY <1>2 DEF StoreOK, Unseen, Holding
<1>5. Distinct'
  BY <1>2 DEF StoreOK, Distinct
<1>6. QED
  BY <1>1, <1>3, <1>4, <1>5 DEF StoreOK, RowOK, InvalidationOK, BytesStayListed

\* What one generation may change: its own object and its bytes, freely as long as
\* the object is unpublished, afterwards only to lose them; and the row that it
\* holds, which it publishes or gives up.
PublishesRow(m) ==
    /\ maker[m].pc = "finalized" /\ maker'[m].pc = "published"
    /\ HoldsRow(m)
    /\ row'.state = "ready" /\ row'.object = maker[m].object
    /\ UNCHANGED <<object, blobs>>

GivesUpRow(m) ==
    /\ maker[m].pc = "fail" /\ maker'[m].pc = "done"
    /\ HoldsRow(m)
    /\ row'.state = "failed" /\ row'.object = row.object
    /\ UNCHANGED <<object, blobs>>

OwnStep(m, pc) ==
    /\ maker[m].pc \in Holding
    /\ Moves(m, pc)
    /\ pc \in Unpublished => maker[m].pc \in Unpublished
    /\ UNCHANGED invalidation
    /\ object' \in [Objects -> ObjectStates]
    /\ blobs' \in SUBSET Objects
    /\ row' \in Row
    /\ row' = row \/ PublishesRow(m) \/ GivesUpRow(m)
    /\ \A o \in Objects : o # maker[m].object =>
         object'[o] = object[o] /\ (o \in blobs' <=> o \in blobs)
    /\ MakerOK(maker'[m], object', blobs')
    /\ object'[maker[m].object] # "none"
    /\ maker[m].object \in blobs' => object'[maker[m].object] # "deleted"
    /\ maker[m].pc \notin Unpublished =>
         blobs' \subseteq blobs /\ object'[maker[m].object] \in {object[maker[m].object], "failed"}

LEMMA OwnStepOK ==
    ASSUME StoreOK, NEW m \in Makers, NEW pc, OwnStep(m, pc)
    PROVE  StoreOK'
<1> DEFINE mine == maker[m].object
<1>1. StoreTypeOK'
  BY DEF StoreOK, StoreTypeOK, OwnStep, Moves
<1>2. mine \in Objects /\ maker'[m].object = mine
  BY DEF StoreOK, MakerOK, OwnStep, Moves
<1>3. \A n \in Makers : n # m =>
        /\ maker'[n] = maker[n]
        /\ maker[n].pc \in Holding => maker[n].object # mine
  BY DEF StoreOK, Distinct, OwnStep, Moves
<1>r. /\ RowOK(row', object')
      /\ row'.object \in {row.object, mine}
      /\ maker'[m].pc \in Unpublished => row' = row
  <2>1. RowOK(row, object)
    BY DEF StoreOK
  <2>2. CASE row' = row
    BY <2>1, <2>2, <1>2 DEF RowOK, OwnStep, Unpublished, PublishesRow, GivesUpRow
  <2>3. CASE PublishesRow(m)
    BY <2>1, <2>3, <1>2 DEF RowOK, OwnStep, Unpublished, PublishesRow
  <2>4. CASE GivesUpRow(m)
    BY <2>1, <2>4, <1>2 DEF RowOK, OwnStep, Unpublished, GivesUpRow
  <2>5. QED
    BY <2>2, <2>3, <2>4 DEF OwnStep
<1>4. (\A n \in Makers : MakerOK(maker[n], object, blobs))'
  <2> TAKE n \in Makers
  <2>1. CASE n = m
    BY <2>1 DEF OwnStep
  <2>2. CASE n # m
    <3>1. MakerOK(maker[n], object, blobs)
      BY DEF StoreOK
    <3>2. CASE maker[n].pc \in Holding
      <4>1. maker[n].object \in Objects /\ maker[n].object # mine
        BY <3>1, <3>2, <2>2, <1>3 DEF MakerOK
      <4>2. /\ object'[maker[n].object] = object[maker[n].object]
            /\ (maker[n].object \in blobs') <=> (maker[n].object \in blobs)
        BY <4>1 DEF OwnStep
      <4>3. QED
        BY <3>1, <4>1, <4>2, <2>2, <1>3 DEF MakerOK
    <3>3. CASE maker[n].pc \notin Holding
      BY <3>3, <2>2, <1>3 DEF MakerOK, Holding, Unpublished
    <3>4. QED
      BY <3>2, <3>3
  <2>3. QED
    BY <2>1, <2>2
<1>5. (\A a \in Admins : InvalidationOK(invalidation[a], object, blobs))'
  <2> TAKE a \in Admins
  <2>1. InvalidationOK(invalidation[a], object, blobs) /\ invalidation'[a] = invalidation[a]
    BY DEF StoreOK, OwnStep
  <2>2. CASE invalidation[a].pc = "idle" \/ invalidation[a].object # mine
    BY <2>1, <2>2 DEF InvalidationOK, OwnStep
  <2>3. CASE invalidation[a].pc # "idle" /\ invalidation[a].object = mine
    <3>1. maker[m].pc \notin Unpublished
      BY <2>3 DEF StoreOK, Unseen
    <3>2. QED
      BY <3>1, <2>1, <2>3 DEF InvalidationOK, OwnStep
  <2>4. QED
    BY <2>2, <2>3
<1>6. (\A n \in Makers : maker[n].pc \in Unpublished => Unseen(maker[n].object))'
  <2> SUFFICES ASSUME NEW n \in Makers, maker'[n].pc \in Unpublished
               PROVE  Unseen(maker[n].object)'
    OBVIOUS
  <2>1. CASE n = m
    <3>1. maker[m].pc \in Unpublished /\ row' = row
      BY <2>1, <1>r DEF OwnStep, Moves
    <3>2. QED
      BY <3>1, <2>1, <1>2 DEF StoreOK, Unseen, OwnStep
  <2>2. CASE n # m
    <3>1. maker'[n] = maker[n]
      BY <2>2, <1>3
    <3>2. maker[n].pc \in Unpublished /\ maker[n].pc \in Holding
      BY <3>1 DEF Holding
    <3>3. maker[n].object # mine
      BY <3>2, <2>2, <1>3
    <3>4. Unseen(maker[n].object)
      BY <3>2 DEF StoreOK
    <3>5. QED
      BY <3>1, <3>3, <3>4, <1>r DEF Unseen, OwnStep
  <2>3. QED
    BY <2>1, <2>2
<1>7. Distinct'
  <2> SUFFICES ASSUME NEW k \in Makers, NEW n \in Makers, k # n,
                      maker'[k].pc \in Holding, maker'[n].pc \in Holding
               PROVE  maker'[k].object # maker'[n].object
    BY DEF Distinct
  <2>1. CASE k = m
    BY <2>1, <1>2, <1>3
  <2>2. CASE n = m
    BY <2>2, <1>2, <1>3
  <2>3. CASE k # m /\ n # m
    BY <2>3, <1>3 DEF Distinct, StoreOK
  <2>4. QED
    BY <2>1, <2>2, <2>3
<1>8. BytesStayListed'
  BY <1>1, <1>2 DEF BytesStayListed, StoreOK, StoreTypeOK, OwnStep
<1>9. QED
  BY <1>1, <1>r, <1>4, <1>5, <1>6, <1>7, <1>8 DEF StoreOK, OwnStep

\* Every step of a generation is such a step.
LEMMA ThrowsOwn ==
    ASSUME StoreOK, NEW m \in Makers, NEW retryable \in BOOLEAN,
           maker[m].pc \in Unpublished \union {"published"}, Throws(m, retryable),
           UNCHANGED <<row, object, invalidation>>,
           blobs' \in {blobs, blobs \union {maker[m].object}},
           blobs' = blobs \/ maker[m].pc = "made"
    PROVE  OwnStep(m, "discard") /\ maker'[m].result \in {"retry", "reject"}
<1>1. StoreTypeOK /\ MakerOK(maker[m], object, blobs) /\ BytesStayListed
  BY DEF StoreOK
<1>2. maker[m].pc \in Holding
  BY DEF Holding
<1>3. Moves(m, "discard") /\ maker'[m].result \in {"retry", "reject"}
  BY <1>1, ThrowsMoves
<1>4. /\ maker[m].object \in Objects /\ object[maker[m].object] # "none"
      /\ maker[m].pc = "made" => object[maker[m].object] = "staging" /\ maker[m].pc \in Unpublished
  BY <1>1, <1>2 DEF MakerOK, Unpublished
<1>5. blobs' \in SUBSET Objects /\ object \in [Objects -> ObjectStates] /\ row \in Row
  BY <1>1, <1>4 DEF StoreTypeOK
<1>6. MakerOK(maker'[m], object', blobs')
  BY <1>3, <1>4 DEF MakerOK, Moves
<1>7. maker[m].object \in blobs' => object[maker[m].object] # "deleted"
  BY <1>4, <1>1 DEF BytesStayListed
<1>8. QED
  BY <1>2, <1>3, <1>4, <1>5, <1>6, <1>7 DEF OwnStep, Unpublished

LEMMA TransformOwn ==
    ASSUME StoreOK, NEW m \in Makers, Transform(m)
    PROVE  OwnStep(m, "made")
<1>1. StoreTypeOK /\ MakerOK(maker[m], object, blobs) /\ BytesStayListed
  BY DEF StoreOK
<1>2. maker[m].pc \in Holding /\ maker[m].pc \in Unpublished
  BY DEF Transform, Holding, Unpublished
<1>3. Moves(m, "made")
  BY <1>1, GotoMoves DEF Transform, Phases
<1>4. MakerOK(maker'[m], object', blobs')
  BY <1>1, <1>2, <1>3 DEF MakerOK, Moves, Transform
<1>5. QED
  BY <1>1, <1>2, <1>3, <1>4 DEF OwnStep, Transform, StoreTypeOK, MakerOK, BytesStayListed

LEMMA MakerStepOwn ==
    ASSUME StoreOK, NEW m \in Makers, MakerStep(m)
    PROVE  /\ \E pc : OwnStep(m, pc)
           /\ maker[m].pc \in Unpublished \union CleaningUp
           /\ maker'[m].pc \in CleaningUp =>
                \/ maker'[m].result \in {"retry", "reject"}
                \/ maker[m].pc \in CleaningUp /\ maker'[m].result = maker[m].result
           /\ maker'[m].pc = "done" => maker'[m].result = "retry" \/ ~HoldsRow(m)'
           /\ maker'[m].pc = "published" => row'.state = "ready"
<1> DEFINE mine == maker[m].object
<1>1. /\ StoreTypeOK /\ MakerOK(maker[m], object, blobs) /\ BytesStayListed
      /\ \A o \in blobs : object[o] \notin {"none", "deleted"}
      /\ maker \in [Makers -> Maker] /\ object \in [Objects -> ObjectStates]
      /\ blobs \in SUBSET Objects /\ row \in Row
  BY DEF StoreOK, StoreTypeOK, BytesStayListed
<1> USE DEF Unpublished, CleaningUp
<1>h. maker[m].pc \in Holding => mine \in Objects /\ object[mine] # "none"
  BY <1>1 DEF MakerOK
<1>2. CASE TransformFails(m)
  <2>1. PICK retryable \in BOOLEAN : Throws(m, retryable)
    BY <1>2 DEF TransformFails
  <2>2. OwnStep(m, "discard") /\ maker'[m].result \in {"retry", "reject"}
    BY <2>1, <1>2, ThrowsOwn DEF TransformFails
  <2>3. QED
    BY <2>2, <1>2 DEF TransformFails, OwnStep, Moves
<1>3. CASE Put(m)
  <2>1. Moves(m, "stored")
    BY <1>1, <1>3, GotoMoves DEF Put, Phases
  <2>2. maker[m].pc \in Holding /\ object[mine] = "staging"
    BY <1>1, <1>3 DEF Put, Holding, MakerOK
  <2>3. MakerOK(maker'[m], object', blobs')
    BY <2>1, <2>2, <1>h, <1>3 DEF MakerOK, Moves, Put
  <2>4. OwnStep(m, "stored")
    BY <2>1, <2>2, <2>3, <1>1, <1>h, <1>3 DEF OwnStep, Put
  <2>5. QED
    BY <2>1, <2>4, <1>3 DEF Put, Moves
<1>4. CASE PutFails(m)
  <2>1. PICK retryable \in BOOLEAN : Throws(m, retryable)
    BY <1>4 DEF PutFails
  <2>2. OwnStep(m, "discard") /\ maker'[m].result \in {"retry", "reject"}
    BY <2>1, <1>4, ThrowsOwn DEF PutFails
  <2>3. QED
    BY <2>2, <1>4 DEF PutFails, OwnStep, Moves
<1>5. CASE Finalize(m)
  <2>1. Moves(m, "finalized")
    BY <1>1, <1>5, GotoMoves DEF Finalize, Phases
  <2>2. maker[m].pc \in Holding /\ mine \in Objects /\ mine \in blobs
    BY <1>1, <1>h, <1>5 DEF Finalize, Holding, MakerOK
  <2>3. /\ object' \in [Objects -> ObjectStates] /\ object'[mine] = "available"
        /\ \A o \in Objects : o # mine => object'[o] = object[o]
    BY <2>2, <1>1, <1>5 DEF Finalize, ObjectStates
  <2>4. MakerOK(maker'[m], object', blobs')
    BY <2>1, <2>2, <2>3, <1>5 DEF MakerOK, Moves, Finalize
  <2>5. OwnStep(m, "finalized")
    BY <2>1, <2>2, <2>3, <2>4, <1>1, <1>5 DEF OwnStep, Finalize
  <2>6. QED
    BY <2>1, <2>5, <1>5 DEF Finalize, Moves
<1>6. CASE Publish(m)
  <2>1. Moves(m, "published")
    BY <1>1, <1>6, GotoMoves DEF Publish, Phases
  <2>2. maker[m].pc \in Holding /\ mine \in Objects /\ object[mine] = "available"
    BY <1>1, <1>h, <1>6 DEF Publish, Holding, MakerOK
  <2>3. row' \in Row /\ row'.state = "ready" /\ row'.object = mine
    BY <2>2, <1>1, <1>6 DEF Publish, Row
  <2>4. PublishesRow(m)
    BY <2>1, <2>3, <1>6 DEF Publish, PublishesRow, Moves
  <2>5. MakerOK(maker'[m], object', blobs')
    BY <2>1, <2>2, <1>6 DEF MakerOK, Moves, Publish
  <2>6. OwnStep(m, "published")
    BY <2>1, <2>2, <2>3, <2>4, <2>5, <1>1, <1>6 DEF OwnStep, Publish
  <2>7. QED
    BY <2>1, <2>3, <2>6, <1>6 DEF Publish, Moves
<1>7. CASE PublishFails(m)
  <2>1. OwnStep(m, "discard") /\ maker'[m].result \in {"retry", "reject"}
    BY <1>7, ThrowsOwn DEF PublishFails
  <2>2. QED
    BY <2>1, <1>7 DEF PublishFails, OwnStep, Moves
<1>8. CASE DiscardBytes(m)
  <2>1. Moves(m, "discarded") /\ maker'[m].result = maker[m].result
    BY <1>1, <1>8, GotoMoves DEF DiscardBytes, Phases
  <2>2. maker[m].pc \in Holding /\ mine \in Objects /\ object[mine] # "none"
    BY <1>1, <1>h, <1>8 DEF DiscardBytes, Holding
  <2>3. MakerOK(maker'[m], object', blobs')
    BY <2>1, <2>2, <1>8 DEF MakerOK, Moves, DiscardBytes
  <2>4. OwnStep(m, "discarded")
    BY <2>1, <2>2, <2>3, <1>1, <1>8 DEF OwnStep, DiscardBytes
  <2>5. QED
    BY <2>1, <2>4, <1>8 DEF DiscardBytes, Moves
<1>9. CASE DiscardRow(m)
  <2>1. Moves(m, "fail") /\ maker'[m].result = maker[m].result
    BY <1>1, <1>9, GotoMoves DEF DiscardRow, Phases
  <2>2. maker[m].pc \in Holding /\ mine \in Objects
    BY <1>1, <1>h, <1>9 DEF DiscardRow, Holding
  <2>3. /\ object' \in [Objects -> ObjectStates] /\ object'[mine] = "failed"
        /\ \A o \in Objects : o # mine => object'[o] = object[o]
    BY <2>2, <1>1, <1>9 DEF DiscardRow, ObjectStates
  <2>4. MakerOK(maker'[m], object', blobs')
    BY <2>1, <2>2, <2>3, <1>9 DEF MakerOK, Moves, DiscardRow
  <2>5. OwnStep(m, "fail")
    BY <2>1, <2>2, <2>3, <2>4, <1>1, <1>9 DEF OwnStep, DiscardRow
  <2>6. QED
    BY <2>1, <2>5, <1>9 DEF DiscardRow, Moves
<1>10. CASE GiveUp(m)
  <2>1. maker[m].result \in Results
    BY <1>1 DEF Maker
  <2>2. Moves(m, "done")
    BY <1>1, <1>10, <2>1, EndsMoves DEF GiveUp
  <2>3. maker[m].pc \in Holding /\ mine \in Objects /\ object[mine] # "none"
    BY <1>1, <1>h, <1>10 DEF GiveUp, Holding
  <2>4. MakerOK(maker'[m], object', blobs')
    BY <2>2, <2>3 DEF MakerOK, Moves, Holding
  <2>5. row' \in Row /\ (row' = row \/ GivesUpRow(m)) /\ ~HoldsRow(m)'
    <3>1. CASE HoldsRow(m)
      <4>1. row' = [row EXCEPT !.state = "failed", !.owner = NoOwner, !.live = FALSE]
        BY <3>1, <1>10 DEF GiveUp
      <4>2. row' \in Row /\ row'.state = "failed" /\ row'.object = row.object
        BY <4>1, <1>1 DEF Row
      <4>3. QED
        BY <4>2, <3>1, <2>2, <1>10 DEF GiveUp, GivesUpRow, Moves, HoldsRow
    <3>2. CASE ~HoldsRow(m)
      <4>1. row' = row
        BY <3>2, <1>10 DEF GiveUp
      <4>2. QED
        BY <4>1, <3>2, <2>2, <1>1 DEF HoldsRow, Moves
    <3>3. QED
      BY <3>1, <3>2
  <2>6. OwnStep(m, "done")
    BY <2>2, <2>3, <2>4, <2>5, <1>1, <1>10 DEF OwnStep, GiveUp
  <2>7. QED
    BY <2>2, <2>5, <2>6, <1>10 DEF GiveUp, Moves
<1>11. CASE CatchFails(m)
  <2>1. Moves(m, "done") /\ maker'[m].result = "retry"
    BY <1>1, <1>11, EndsMoves DEF CatchFails, Results
  <2>2. maker[m].pc \in Holding /\ mine \in Objects /\ object[mine] # "none"
    BY <1>1, <1>h, <1>11 DEF CatchFails, Holding
  <2>3. MakerOK(maker'[m], object', blobs')
    BY <2>1, <2>2 DEF MakerOK, Moves, Holding
  <2>4. OwnStep(m, "done")
    BY <2>1, <2>2, <2>3, <1>1, <1>11 DEF OwnStep, CatchFails
  <2>5. QED
    BY <2>1, <2>4, <1>11 DEF CatchFails, Moves
<1>12. QED
  BY <1>2, <1>3, <1>4, <1>5, <1>6, <1>7, <1>8, <1>9, <1>10, <1>11 DEF MakerStep

\* A row that is inserted, acquired again or queued again keeps its object or has none.
LEMMA AcquiredRowType ==
    ASSUME StoreAssumption, row \in Row, RowBound, NEW owner \in Owners
    PROVE  /\ AcquiredRow(owner) \in Row
           /\ AcquiredRow(owner).state = "generating"
           /\ AcquiredRow(owner).owner = owner
           /\ AcquiredRow(owner).object \in {row.object, NoObject}
           /\ AcquiredRow(owner).id = IF row.state = "absent" THEN row.id + 1 ELSE row.id
<1>1. CASE row.state = "absent"
  <2>1. row.id + 1 \in 0..MaxRows
    BY <1>1, StoreAssumption DEF RowBound, StoreAssumption, Row
  <2> DEFINE r == NextRow("generating")
  <2>2. r \in Row /\ r.id = row.id + 1 /\ r.object = NoObject
    BY <2>1 DEF NextRow, NoRow, Row
  <2>3. AcquiredRow(owner) = [r EXCEPT !.state = "generating", !.owner = owner, !.live = TRUE]
    BY <1>1 DEF AcquiredRow
  <2> HIDE DEF r
  <2>4. QED
    BY <2>2, <2>3, <1>1 DEF Row
<1>2. CASE row.state # "absent"
  <2>1. AcquiredRow(owner) = [row EXCEPT !.state = "generating", !.owner = owner, !.live = TRUE]
    BY <1>2 DEF AcquiredRow
  <2>2. QED
    BY <2>1, <1>2 DEF Row
<1>3. QED
  BY <1>1, <1>2

\* The row changes, but does not become ready and does not get another object.
LEMMA RowStepOK ==
    ASSUME StoreAssumption, StoreOK,
           row' \in Row, row'.state # "ready", row'.object \in {row.object, NoObject},
           UNCHANGED <<object, blobs, maker, invalidation>>
    PROVE  StoreOK'
<1>1. StoreTypeOK'
  BY DEF StoreOK, StoreTypeOK
<1>2. RowOK(row, object)'
  BY StoreAssumption DEF StoreOK, RowOK, StoreAssumption
<1>3. (\A m \in Makers : maker[m].pc \in Unpublished => Unseen(maker[m].object))'
  <2> SUFFICES ASSUME NEW m \in Makers, maker[m].pc \in Unpublished
               PROVE  Unseen(maker[m].object)'
    OBVIOUS
  <2>1. Unseen(maker[m].object) /\ maker[m].object \in Objects
    BY DEF StoreOK, MakerOK, Holding
  <2>2. QED
    BY <2>1, StoreAssumption DEF Unseen, StoreAssumption
<1>4. QED
  BY <1>1, <1>2, <1>3 DEF StoreOK, MakerOK, InvalidationOK, Distinct, BytesStayListed

\* An acquisition gives the maker a fresh object.
LEMMA AcquireOK ==
    ASSUME StoreAssumption, StoreOK, NEW m \in Makers, NEW owner \in Owners, NEW id \in 0..MaxRows,
           maker[m].pc \notin Holding, Acquire(m, owner, id)
    PROVE  /\ StoreOK'
           /\ row' = AcquiredRow(owner)
           /\ \A n \in Makers : n # m => maker'[n] = maker[n]
           /\ \/ /\ maker'[m].pc = "make" /\ maker'[m].owner = owner /\ maker'[m].id = id
                 /\ maker'[m].object \notin {o \in Objects : object[o] # "none"}
              \/ /\ maker'[m].pc = "done" /\ maker'[m].result = "retry"
                 /\ maker'[m].id = maker[m].id /\ UNCHANGED object
<1>1. row' = AcquiredRow(owner) /\ UNCHANGED <<blobs, invalidation>>
  BY DEF Acquire
<1>2. StoreTypeOK
  BY DEF StoreOK
<1>3. /\ row' \in Row /\ row'.state = "generating"
      /\ row'.object \in {row.object, NoObject}
  BY <1>1, <1>2, AcquiredRowType DEF Acquire, StoreTypeOK
<1>4. RowOK(row, object)
  BY DEF StoreOK
<1>5. CASE DatabaseFails /\ Ends(m, "retry") /\ UNCHANGED object
  <2>1. Moves(m, "done") /\ maker'[m].result = "retry"
    BY <1>5, <1>2, EndsMoves DEF Results
  <2>2. /\ maker' \in [Makers -> Maker] /\ maker'[m].pc \notin Holding
        /\ \A n \in Makers : n # m => maker'[n] = maker[n]
    BY <2>1 DEF Moves, Holding, Unpublished, CleaningUp
  <2>3. StoreTypeOK'
    BY <2>2, <1>1, <1>2, <1>3, <1>5 DEF StoreTypeOK
  <2>4. \A n \in Makers : maker'[n].pc \in Holding => maker'[n] = maker[n]
    BY <2>2
  <2>5. (\A n \in Makers : MakerOK(maker[n], object, blobs))'
    <3> TAKE n \in Makers
    <3>1. CASE n = m
      BY <3>1, <2>2 DEF MakerOK, Holding, Unpublished
    <3>2. CASE n # m
      BY <3>2, <2>2, <1>1, <1>5 DEF StoreOK, MakerOK
    <3>3. QED
      BY <3>1, <3>2
  <2>6. RowOK(row, object)'
    BY <1>3, <1>4, <1>5, StoreAssumption DEF RowOK, StoreAssumption
  <2>7. (\A n \in Makers : maker[n].pc \in Unpublished => Unseen(maker[n].object))'
    <3> SUFFICES ASSUME NEW n \in Makers, maker'[n].pc \in Unpublished
                 PROVE  Unseen(maker[n].object)'
      OBVIOUS
    <3>1. maker'[n] = maker[n] /\ maker[n].pc \in Unpublished /\ maker[n].pc \in Holding
      BY <2>4 DEF Holding
    <3>2. Unseen(maker[n].object) /\ maker[n].object \in Objects
      BY <3>1 DEF StoreOK, MakerOK
    <3>3. QED
      BY <3>1, <3>2, <1>1, <1>3, StoreAssumption DEF Unseen, StoreAssumption
  <2>8. Distinct'
    BY <2>4 DEF StoreOK, Distinct
  <2>9. StoreOK'
    BY <2>3, <2>5, <2>6, <2>7, <2>8, <1>1, <1>5 DEF StoreOK, InvalidationOK, BytesStayListed
  <2>10. QED
    BY <2>1, <2>2, <2>9, <1>1, <1>5 DEF Moves
<1>6. CASE ~(DatabaseFails /\ Ends(m, "retry") /\ UNCHANGED object)
  <2>1. PICK o \in Objects :
          /\ object[o] = "none"
          /\ object' = [object EXCEPT ![o] = "staging"]
          /\ maker' = [maker EXCEPT ![m] = [@ EXCEPT !.pc = "make", !.owner = owner,
                                                     !.id = id, !.object = o]]
    BY <1>6 DEF Acquire
  <2>2. /\ maker' \in [Makers -> Maker]
        /\ maker'[m].pc = "make" /\ maker'[m].owner = owner /\ maker'[m].id = id
        /\ maker'[m].object = o
        /\ \A n \in Makers : n # m => maker'[n] = maker[n]
    <3>1. [maker[m] EXCEPT !.pc = "make", !.owner = owner, !.id = id, !.object = o] \in Maker
      BY <1>2 DEF StoreTypeOK, Maker, Phases
    <3>2. QED
      BY <3>1, <2>1, <1>2 DEF StoreTypeOK, Maker
  <2>3. /\ object' \in [Objects -> ObjectStates]
        /\ object'[o] = "staging"
        /\ \A p \in Objects : p # o => object'[p] = object[p]
    BY <2>1, <1>2 DEF StoreTypeOK, ObjectStates
  <2>4. StoreTypeOK'
    BY <2>2, <2>3, <1>1, <1>2, <1>3 DEF StoreTypeOK
  <2>5. o \notin blobs
    BY <2>1 DEF StoreOK, BytesStayListed
  <2>6. \A n \in Makers : n # m /\ maker[n].pc \in Holding =>
          maker[n].object \in Objects /\ maker[n].object # o
    BY <2>1 DEF StoreOK, MakerOK
  <2>7. row.object # o /\ row'.object # o
    BY <2>1, <1>3, <1>4, StoreAssumption DEF RowOK, StoreAssumption
  <2>8. \A a \in Admins : invalidation[a].pc # "idle" => invalidation[a].object # o
    BY <2>1, StoreAssumption DEF StoreOK, InvalidationOK, StoreAssumption
  <2>9. (\A n \in Makers : MakerOK(maker[n], object, blobs))'
    <3> TAKE n \in Makers
    <3>1. CASE n = m
      BY <3>1, <2>2, <2>3 DEF MakerOK
    <3>2. CASE n # m
      <4>1. maker'[n] = maker[n] /\ MakerOK(maker[n], object, blobs)
        BY <3>2, <2>2 DEF StoreOK
      <4>2. maker[n].pc \in Holding => object'[maker[n].object] = object[maker[n].object]
        BY <3>2, <2>3, <2>6
      <4>3. maker[n].pc \in {"make", "made", "stored", "finalized"} => maker[n].pc \in Holding
        BY DEF Holding, Unpublished
      <4>4. QED
        BY <4>1, <4>2, <4>3, <1>1 DEF MakerOK
    <3>3. QED
      BY <3>1, <3>2
  <2>10. (\A a \in Admins : InvalidationOK(invalidation[a], object, blobs))'
    BY <2>3, <2>8, <1>1 DEF StoreOK, InvalidationOK
  <2>11. RowOK(row, object)'
    <3>1. row'.object \in Objects => row'.object = row.object /\ row'.object # o
      BY <1>3, <2>7, StoreAssumption DEF StoreAssumption
    <3>2. QED
      BY <3>1, <1>3, <1>4, <2>3 DEF RowOK
  <2>12. (\A n \in Makers : maker[n].pc \in Unpublished => Unseen(maker[n].object))'
    <3> SUFFICES ASSUME NEW n \in Makers, maker'[n].pc \in Unpublished
                 PROVE  Unseen(maker[n].object)'
      OBVIOUS
    <3>1. CASE n = m
      BY <3>1, <2>2, <2>7, <2>8, <1>1 DEF Unseen
    <3>2. CASE n # m
      <4>1. maker'[n] = maker[n] /\ maker[n].pc \in Unpublished /\ maker[n].pc \in Holding
        BY <3>2, <2>2 DEF Holding
      <4>2. Unseen(maker[n].object) /\ maker[n].object \in Objects
        BY <4>1 DEF StoreOK, MakerOK
      <4>3. QED
        BY <4>1, <4>2, <1>1, <1>3, StoreAssumption DEF Unseen, StoreAssumption
    <3>3. QED
      BY <3>1, <3>2
  <2>13. Distinct'
    <3> SUFFICES ASSUME NEW k \in Makers, NEW n \in Makers, k # n,
                        maker'[k].pc \in Holding, maker'[n].pc \in Holding
                 PROVE  maker'[k].object # maker'[n].object
      BY DEF Distinct
    <3>1. CASE k = m
      BY <3>1, <2>2, <2>6
    <3>2. CASE n = m
      BY <3>2, <2>2, <2>6
    <3>3. CASE k # m /\ n # m
      BY <3>3, <2>2 DEF Distinct, StoreOK
    <3>4. QED
      BY <3>1, <3>2, <3>3
  <2>14. BytesStayListed'
    BY <2>3, <2>5, <1>1, <1>2 DEF StoreOK, BytesStayListed, StoreTypeOK
  <2>15. StoreOK'
    BY <2>4, <2>9, <2>10, <2>11, <2>12, <2>13, <2>14 DEF StoreOK
  <2>16. QED
    BY <2>15, <2>1, <2>2, <1>1
<1>7. QED
  BY <1>5, <1>6

LEMMA LeaseRunsOutOK ==
    ASSUME StoreAssumption, StoreOK, LeaseRunsOut
    PROVE  StoreOK' /\ row'.state = "generating" /\ ~row'.live
<1>1. row \in Row
  BY DEF StoreOK, StoreTypeOK
<1>2. row' \in Row /\ row'.state = "generating" /\ ~row'.live /\ row'.object = row.object
  BY <1>1 DEF LeaseRunsOut, Row
<1>3. QED
  BY <1>2, RowStepOK DEF LeaseRunsOut

\* What one invalidation may change: an object that is not a generation's own, only
\* to withdraw it, its bytes, and the row.
AdminStep(a, o) ==
    /\ ~Unseen(o)
    /\ UNCHANGED maker
    /\ invalidation' \in [Admins -> Invalidation]
    /\ \A b \in Admins : b # a => invalidation'[b] = invalidation[b]
    /\ invalidation'[a].pc # "idle" => invalidation'[a].object = o
    /\ InvalidationOK(invalidation'[a], object', blobs')
    /\ object' \in [Objects -> ObjectStates]
    /\ \A p \in Objects : p # o => object'[p] = object[p]
    /\ o \in Objects => object'[o] \in {object[o], "deleting", "deleted", "failed"}
    /\ blobs' \in {blobs, blobs \ {o}}
    /\ o \in blobs' => object'[o] \notin {"none", "deleted"}
    /\ o \in blobs => o \in blobs' \/ object'[o] # "available"
    /\ row' \in Row
    /\ row' = row \/ row'.state \in {"absent", "failed"}
    /\ row'.object \in {row.object, NoObject}

LEMMA AdminStepOK ==
    ASSUME StoreAssumption, StoreOK, NEW a \in Admins, NEW o, AdminStep(a, o)
    PROVE  StoreOK'
<1>1. StoreTypeOK'
  BY DEF StoreOK, StoreTypeOK, AdminStep
<1>2. \A m \in Makers : maker[m].pc \in Unpublished =>
        /\ maker[m].object \in Objects /\ maker[m].object # o
        /\ Unseen(maker[m].object)
  <2> SUFFICES ASSUME NEW m \in Makers, maker[m].pc \in Unpublished
               PROVE  /\ maker[m].object \in Objects /\ maker[m].object # o
                      /\ Unseen(maker[m].object)
    OBVIOUS
  <2>1. Unseen(maker[m].object) /\ maker[m].object \in Objects
    BY DEF StoreOK, MakerOK, Holding
  <2>2. QED
    BY <2>1 DEF AdminStep
<1>3. (\A m \in Makers : MakerOK(maker[m], object, blobs))'
  <2> TAKE m \in Makers
  <2>1. maker'[m] = maker[m] /\ MakerOK(maker[m], object, blobs)
    BY DEF StoreOK, AdminStep
  <2>2. CASE maker[m].pc \in Unpublished
    BY <2>1, <2>2, <1>2 DEF MakerOK, AdminStep
  <2>3. CASE maker[m].pc \notin Unpublished
    BY <2>1, <2>3 DEF MakerOK, AdminStep, Unpublished
  <2>4. QED
    BY <2>2, <2>3
<1>4. (\A b \in Admins : InvalidationOK(invalidation[b], object, blobs))'
  <2> TAKE b \in Admins
  <2>1. CASE b = a
    BY <2>1 DEF AdminStep
  <2>2. CASE b # a
    <3>1. invalidation'[b] = invalidation[b] /\ InvalidationOK(invalidation[b], object, blobs)
      BY <2>2 DEF StoreOK, AdminStep
    <3>2. CASE invalidation[b].object = o
      BY <3>1, <3>2 DEF InvalidationOK, AdminStep
    <3>3. CASE invalidation[b].object # o
      BY <3>1, <3>3 DEF InvalidationOK, AdminStep
    <3>4. QED
      BY <3>2, <3>3
  <2>3. QED
    BY <2>1, <2>2
<1>5. RowOK(row, object)'
  <2>1. RowOK(row, object)
    BY DEF StoreOK
  <2>2. QED
    BY <2>1, StoreAssumption DEF RowOK, AdminStep, StoreAssumption
<1>6. (\A m \in Makers : maker[m].pc \in Unpublished => Unseen(maker[m].object))'
  <2> SUFFICES ASSUME NEW m \in Makers, maker[m].pc \in Unpublished
               PROVE  Unseen(maker[m].object)'
    BY DEF AdminStep
  <2>1. QED
    BY <1>2, StoreAssumption DEF Unseen, AdminStep, StoreAssumption
<1>7. Distinct'
  BY DEF StoreOK, Distinct, AdminStep
<1>8. BytesStayListed'
  BY DEF StoreOK, StoreTypeOK, BytesStayListed, AdminStep
<1>9. QED
  BY <1>1, <1>3, <1>4, <1>5, <1>6, <1>7, <1>8 DEF StoreOK

\* Every step of an invalidation is such a step, on the object that it was given
\* or that it finds in the row.
LEMMA InvalidationAdmin ==
    ASSUME StoreAssumption, StoreOK, NEW a \in Admins,
           PrepareInvalidation(a) \/ InvalidationStep(a) \/ InvalidationLost(a)
    PROVE  \E o : AdminStep(a, o)
<1>1. /\ StoreTypeOK /\ BytesStayListed /\ RowOK(row, object)
      /\ InvalidationOK(invalidation[a], object, blobs)
      /\ row \in Row /\ object \in [Objects -> ObjectStates] /\ blobs \in SUBSET Objects
      /\ invalidation \in [Admins -> Invalidation]
      /\ invalidation[a] \in Invalidation
  BY DEF StoreOK, StoreTypeOK
<1>2. IdleInvalidation \in Invalidation /\ IdleInvalidation.pc = "idle"
  BY StoreAssumption DEF IdleInvalidation, Invalidation, StoreAssumption
<1> DEFINE given == invalidation[a].object
<1>3. CASE PrepareInvalidation(a)
  <2> DEFINE inv == [pc |-> IF row.object = NoObject THEN "finish" ELSE "delete",
                     id |-> row.id, object |-> row.object]
  <2>1. inv \in Invalidation /\ inv.object = row.object
    BY <1>1 DEF Invalidation, Row
  <2>2. row.object # NoObject => inv.pc = "delete" /\ row.object \in Objects
    BY <1>1 DEF Row
  <2>3. row.object = NoObject => inv.pc = "finish"
    OBVIOUS
  <2>4. invalidation' = [invalidation EXCEPT ![a] = inv]
    BY <1>3 DEF PrepareInvalidation
  <2> HIDE DEF inv
  <2>5. /\ invalidation' \in [Admins -> Invalidation] /\ invalidation'[a] = inv
        /\ \A b \in Admins : b # a => invalidation'[b] = invalidation[b]
    BY <2>1, <2>4, <1>1
  <2>6. /\ object' \in [Objects -> ObjectStates]
        /\ \A p \in Objects : p # row.object => object'[p] = object[p]
        /\ row.object \in Objects => object'[row.object] = "deleting"
    BY <1>3, <1>1 DEF PrepareInvalidation, ObjectStates
  <2>7. InvalidationOK(invalidation'[a], object', blobs')
    BY <2>1, <2>2, <2>3, <2>5, <2>6 DEF InvalidationOK
  <2>8. AdminStep(a, row.object)
    BY <2>1, <2>5, <2>6, <2>7, <1>1, <1>3 DEF AdminStep, PrepareInvalidation, Unseen
  <2>9. QED
    BY <2>8
<1>4. CASE DeleteBytes(a)
  <2>1. /\ given \in Objects /\ object[given] \in {"deleting", "deleted", "failed"}
        /\ ~Unseen(given)
    BY <1>1, <1>4 DEF DeleteBytes, InvalidationOK, Unseen
  <2>2. PICK pc \in {"finish", "restore"} :
          /\ invalidation' = [invalidation EXCEPT ![a].pc = pc]
          /\ blobs' \in {blobs, blobs \ {given}}
          /\ pc = "finish" => blobs' = blobs \ {given}
    BY <1>4 DEF DeleteBytes
  <2>3. /\ invalidation' \in [Admins -> Invalidation]
        /\ invalidation'[a].pc = pc /\ invalidation'[a].object = given
        /\ \A b \in Admins : b # a => invalidation'[b] = invalidation[b]
    BY <2>2, <1>1 DEF Invalidation
  <2>4. InvalidationOK(invalidation'[a], object', blobs')
    BY <2>1, <2>2, <2>3, <1>4 DEF InvalidationOK, DeleteBytes
  <2>5. AdminStep(a, given)
    BY <2>1, <2>2, <2>3, <2>4, <1>1, <1>4 DEF AdminStep, DeleteBytes, BytesStayListed
  <2>6. QED
    BY <2>5
<1>5. CASE Restore(a)
  <2>1. /\ given \in Objects /\ object[given] \in {"deleting", "deleted", "failed"}
        /\ ~Unseen(given)
    BY <1>1, <1>5 DEF Restore, InvalidationOK, Unseen
  <2>2. /\ invalidation' \in [Admins -> Invalidation] /\ invalidation'[a].pc = "idle"
        /\ \A b \in Admins : b # a => invalidation'[b] = invalidation[b]
    BY <1>1, <1>2, <1>5 DEF Restore
  <2>3. InvalidationOK(invalidation'[a], object', blobs')
    BY <2>2 DEF InvalidationOK
  <2>4. CASE UNCHANGED <<row, object>>
    <3>1. AdminStep(a, given)
      BY <2>1, <2>2, <2>3, <2>4, <1>1, <1>5 DEF AdminStep, Restore, BytesStayListed
    <3>2. QED
      BY <3>1
  <2>5. CASE /\ object' = [object EXCEPT ![given] = "failed"]
             /\ row' \in {row, [row EXCEPT !.state = "failed"]}
    <3>1. /\ object' \in [Objects -> ObjectStates] /\ object'[given] = "failed"
          /\ \A p \in Objects : p # given => object'[p] = object[p]
      BY <2>1, <2>5, <1>1 DEF ObjectStates
    <3>2. /\ row' \in Row /\ row'.object = row.object
          /\ row' = row \/ row'.state = "failed"
      BY <2>5, <1>1 DEF Row
    <3>3. AdminStep(a, given)
      BY <3>1, <3>2, <2>1, <2>2, <2>3, <1>5 DEF AdminStep, Restore
    <3>4. QED
      BY <3>3
  <2>6. QED
    BY <2>4, <2>5, <1>5 DEF Restore
<1>6. CASE FinishInvalidation(a)
  <2>1. ~Unseen(given)
    BY <1>6 DEF FinishInvalidation, Unseen
  <2>2. given \in Objects => given \notin blobs
    BY <1>1, <1>6, StoreAssumption DEF FinishInvalidation, InvalidationOK, StoreAssumption
  <2>3. /\ invalidation' \in [Admins -> Invalidation] /\ invalidation'[a].pc = "idle"
        /\ \A b \in Admins : b # a => invalidation'[b] = invalidation[b]
    BY <1>1, <1>2, <1>6 DEF FinishInvalidation
  <2>4. InvalidationOK(invalidation'[a], object', blobs')
    BY <2>3 DEF InvalidationOK
  <2>5. /\ object' \in [Objects -> ObjectStates]
        /\ given \in Objects => object'[given] = "deleted"
        /\ \A p \in Objects : p # given => object'[p] = object[p]
    BY <1>1, <1>6 DEF FinishInvalidation, ObjectStates
  <2>6. /\ row' \in Row /\ row'.object \in {row.object, NoObject}
        /\ row' = row \/ row'.state = "absent"
    <3>1. NoRow \in Row /\ NoRow.state = "absent" /\ NoRow.object = NoObject
      BY StoreAssumption DEF NoRow, Row, StoreAssumption
    <3>2. row' = row \/ row' = [NoRow EXCEPT !.id = row.id]
      BY <1>6 DEF FinishInvalidation
    <3>3. QED
      BY <3>1, <3>2, <1>1 DEF Row
  <2>7. AdminStep(a, given)
    BY <2>1, <2>2, <2>3, <2>4, <2>5, <2>6, <1>1, <1>6 DEF AdminStep, FinishInvalidation
  <2>8. QED
    BY <2>7
<1>7. CASE InvalidationLost(a)
  <2>1. ~Unseen(given)
    BY <1>7 DEF InvalidationLost, Unseen
  <2>2. /\ invalidation' \in [Admins -> Invalidation] /\ invalidation'[a].pc = "idle"
        /\ \A b \in Admins : b # a => invalidation'[b] = invalidation[b]
    BY <1>1, <1>2, <1>7 DEF InvalidationLost
  <2>3. InvalidationOK(invalidation'[a], object', blobs')
    BY <2>2 DEF InvalidationOK
  <2>4. AdminStep(a, given)
    BY <2>1, <2>2, <2>3, <1>1, <1>7 DEF AdminStep, InvalidationLost, BytesStayListed
  <2>5. QED
    BY <2>4
<1>8. QED
  BY <1>3, <1>4, <1>5, <1>6, <1>7 DEF InvalidationStep

-----------------------------------------------------------------------------
(* The image service: a generation that cleans up has not been published,  *)
(* unless it could not read back what it had published.                    *)

\* A request that ends in a retryable error is past the try block.
ResultsOK ==
    \A m \in Makers : maker[m].result = "retry" => maker[m].pc \in CleaningUp \union {"done"}

ImageIInv ==
    /\ StoreOK
    /\ \A m \in Makers : maker[m].pc \in Holding => maker[m].owner = OwnerOf[m]
    /\ \A m \in Makers : maker[m].pc \in CleaningUp =>
                           Unseen(maker[m].object) \/ maker[m].result = "retry"
    /\ ResultsOK
    /\ ServedUnlessTakenBack

\* What a request has taken back stays on record.
Remembers == \A m \in Makers : maker[m].result = "retry" =>
                 maker'[m].result = "retry" /\ maker'[m].object = maker[m].object

LEMMA TakenBackStays ==
    ASSUME Remembers, NEW o, TakenBack(o)
    PROVE  TakenBack(o)'
BY DEF Remembers, TakenBack

LEMMA ImageInitOK == ASSUME StoreAssumption, StoreInit PROVE ImageIInv
<1>1. StoreOK
  BY StoreInitOK
<1>2. /\ \A m \in Makers : maker[m].pc = "idle" /\ maker[m].result = "none"
      /\ row.state = "absent"
  BY DEF StoreInit, IdleMaker, NoRow
<1>3. QED
  BY <1>1, <1>2 DEF ImageIInv, ResultsOK, Holding, Unpublished, CleaningUp,
                    ServedUnlessTakenBack, ServedIsBacked

\* What a step of a generation does to the result: the catch block keeps it or
\* makes it retryable, and before it there is none.
ResultStep(m) ==
    /\ maker[m].pc \in CleaningUp =>
         /\ maker'[m].pc \in CleaningUp \union {"done"}
         /\ maker'[m].result \in {maker[m].result, "retry"}
    /\ maker'[m].pc \notin CleaningUp \union {"done"} => maker'[m].result = maker[m].result

LEMMA MakerStepResult ==
    ASSUME StoreTypeOK, NEW m \in Makers, Transform(m) \/ MakerStep(m)
    PROVE  ResultStep(m)
<1>1. CASE Transform(m)
  BY <1>1, GotoMoves DEF Transform, Phases, ResultStep, CleaningUp, Moves
<1>2. CASE TransformFails(m) \/ PutFails(m) \/ PublishFails(m)
  <2>1. PICK retryable \in BOOLEAN : Throws(m, retryable)
    BY <1>2 DEF TransformFails, PutFails, PublishFails
  <2>2. maker'[m].pc = "discard"
    BY <2>1, ThrowsMoves DEF Moves
  <2>3. QED
    BY <2>2, <1>2 DEF TransformFails, PutFails, PublishFails, ResultStep, CleaningUp
<1>3. CASE Put(m) \/ Finalize(m) \/ Publish(m) \/ DiscardBytes(m) \/ DiscardRow(m)
  <2>1. PICK pc \in Phases : Goto(m, pc)
    BY <1>3 DEF Put, Finalize, Publish, DiscardBytes, DiscardRow, Phases
  <2>2. maker'[m].pc = pc /\ maker'[m].result = maker[m].result
    BY <2>1, GotoMoves DEF Moves
  <2>3. maker[m].pc \in CleaningUp => pc \in CleaningUp
    BY <2>1, <2>2, <1>3 DEF Put, Finalize, Publish, DiscardBytes, DiscardRow, Goto, StoreTypeOK,
                            Maker, CleaningUp
  <2>4. QED
    BY <2>2, <2>3 DEF ResultStep
<1>4. CASE GiveUp(m)
  <2>1. Ends(m, maker[m].result) /\ maker[m].result \in Results
    BY <1>4 DEF GiveUp, StoreTypeOK, Maker
  <2>2. QED
    BY <2>1, EndsMoves DEF ResultStep, Moves
<1>5. CASE CatchFails(m)
  <2>1. maker'[m].result = "retry" /\ maker'[m].pc = "done"
    BY <1>5, EndsMoves DEF CatchFails, Results, Moves
  <2>2. QED
    BY <2>1 DEF ResultStep
<1>6. QED
  BY <1>1, <1>2, <1>3, <1>4, <1>5 DEF MakerStep

\* What a generation does to the invariant of the image service.
LEMMA ImageGeneration ==
    ASSUME ImageIInv, NEW m \in Makers, NEW pc, OwnStep(m, pc), StoreOK', ResultStep(m),
           \/ maker[m].pc \in Unpublished \union CleaningUp
           \/ maker[m].pc = "published" /\ maker'[m].pc = "discard" /\ maker'[m].result = "retry"
    PROVE  ImageIInv'
<1>1. /\ StoreOK /\ ResultsOK /\ maker[m].object \in Objects
      /\ maker[m].pc \in Holding
      /\ maker[m].pc \in Unpublished => Unseen(maker[m].object)
  BY DEF ImageIInv, StoreOK, MakerOK, OwnStep
<1>2. (\A n \in Makers : maker[n].pc \in Holding => maker[n].owner = OwnerOf[n])'
  BY <1>1 DEF ImageIInv, OwnStep, Moves
<1>3. \A n \in Makers : n # m =>
        /\ maker'[n] = maker[n]
        /\ maker[n].pc \in Holding => maker[n].object # maker[m].object
  BY <1>1 DEF StoreOK, Distinct, OwnStep, Moves
<1>4. maker'[m].pc = "published" \/ row'.object = row.object
  BY DEF OwnStep, PublishesRow, GivesUpRow
<1>5. maker'[m].object = maker[m].object
  BY DEF OwnStep, Moves
<1>6. Remembers
  <2> SUFFICES ASSUME NEW n \in Makers, maker[n].result = "retry"
               PROVE  maker'[n].result = "retry" /\ maker'[n].object = maker[n].object
    BY DEF Remembers
  <2>1. CASE n = m
    <3>1. maker[m].pc \in CleaningUp
      BY <2>1, <1>1 DEF ResultsOK, Holding, Unpublished, CleaningUp
    <3>2. QED
      BY <3>1, <2>1, <1>5 DEF ResultStep
  <2>2. CASE n # m
    BY <2>2, <1>3
  <2>3. QED
    BY <2>1, <2>2
<1>7. ResultsOK'
  <2> SUFFICES ASSUME NEW n \in Makers, maker'[n].result = "retry"
               PROVE  maker'[n].pc \in CleaningUp \union {"done"}
    BY DEF ResultsOK
  <2>1. CASE n = m
    <3>1. CASE maker[m].pc \in CleaningUp
      BY <3>1, <2>1 DEF ResultStep
    <3>2. CASE maker[m].pc \notin CleaningUp
      BY <3>2, <2>1, <1>1 DEF ResultStep, ResultsOK, Holding, Unpublished, CleaningUp
    <3>3. QED
      BY <3>1, <3>2
  <2>2. CASE n # m
    BY <2>2, <1>1, <1>3 DEF ResultsOK
  <2>3. QED
    BY <2>1, <2>2
<1>8. (\A n \in Makers : maker[n].pc \in CleaningUp =>
                           Unseen(maker[n].object) \/ maker[n].result = "retry")'
  <2> SUFFICES ASSUME NEW n \in Makers, maker'[n].pc \in CleaningUp
               PROVE  Unseen(maker[n].object)' \/ maker'[n].result = "retry"
    OBVIOUS
  <2>1. CASE n = m
    <3>1. row'.object = row.object /\ invalidation' = invalidation
      BY <2>1, <1>4 DEF CleaningUp, OwnStep
    <3>2. CASE Unseen(maker[m].object)
      BY <3>1, <3>2, <2>1, <1>5 DEF Unseen
    <3>3. CASE ~Unseen(maker[m].object)
      <4>1. \/ maker[m].pc \in CleaningUp /\ maker[m].result = "retry"
            \/ maker'[m].result = "retry"
        BY <3>3, <1>1 DEF ImageIInv
      <4>2. QED
        BY <4>1, <2>1, <1>6 DEF Remembers
    <3>4. QED
      BY <3>2, <3>3
  <2>2. CASE n # m
    <3>1. /\ maker'[n] = maker[n] /\ maker[n].pc \in CleaningUp /\ maker[n].pc \in Holding
      BY <2>2, <1>3 DEF Holding
    <3>2. /\ Unseen(maker[n].object) \/ maker[n].result = "retry"
          /\ maker[n].object # maker[m].object
      BY <3>1, <2>2, <1>3 DEF ImageIInv
    <3>3. row'.object \in {row.object, maker[m].object} /\ invalidation' = invalidation
      BY DEF OwnStep, PublishesRow, GivesUpRow
    <3>4. QED
      BY <3>1, <3>2, <3>3 DEF Unseen
  <2>3. QED
    BY <2>1, <2>2
<1>9. ServedUnlessTakenBack'
  <2>1. CASE PublishesRow(m)
    <3>1. maker[m].object \in blobs
      BY <2>1 DEF PublishesRow, StoreOK, MakerOK, ImageIInv
    <3>2. QED
      BY <3>1, <2>1 DEF PublishesRow, ServedIsBacked, ServedUnlessTakenBack
  <2>2. CASE GivesUpRow(m)
    BY <2>2 DEF GivesUpRow, ServedIsBacked, ServedUnlessTakenBack
  <2>3. CASE row' = row /\ row.object # maker[m].object
    <3>1. row.state = "ready" => row.object \in Objects
      BY <1>1 DEF StoreOK, RowOK
    <3>2. CASE ServedIsBacked
      BY <3>1, <3>2, <2>3 DEF OwnStep, ServedIsBacked, ServedUnlessTakenBack
    <3>3. CASE TakenBack(row.object)
      BY <3>3, <2>3, <1>6, TakenBackStays DEF ServedUnlessTakenBack
    <3>4. QED
      BY <3>2, <3>3 DEF ImageIInv, ServedUnlessTakenBack
  <2>4. CASE row' = row /\ row.object = maker[m].object
    <3>1. maker'[m].result = "retry"
      <4>1. ~Unseen(maker[m].object)
        BY <2>4 DEF Unseen
      <4>2. \/ maker[m].pc \in CleaningUp /\ maker[m].result = "retry"
            \/ maker'[m].result = "retry"
        BY <4>1, <1>1 DEF ImageIInv
      <4>3. QED
        BY <4>2, <1>6 DEF Remembers
    <3>2. QED
      BY <3>1, <2>4, <1>5 DEF TakenBack, ServedUnlessTakenBack
  <2>5. QED
    BY <2>1, <2>2, <2>3, <2>4 DEF OwnStep
<1>10. QED
  BY <1>2, <1>7, <1>8, <1>9 DEF ImageIInv

\* A maker stops: nothing else changes.
LEMMA ImageLeaves ==
    ASSUME ImageIInv, NEW m \in Makers, NEW result \in Results, Ends(m, result),
           maker[m].pc \in {"idle", "published"},
           UNCHANGED <<row, object, blobs, invalidation>>
    PROVE  ImageIInv'
<1>1. StoreOK /\ StoreTypeOK
  BY DEF ImageIInv, StoreOK
<1>2. Moves(m, "done")
  BY <1>1, EndsMoves
<1>3. /\ maker' \in [Makers -> Maker]
      /\ maker'[m].pc = "done"
      /\ maker'[m].pc \notin Holding /\ maker'[m].pc \notin CleaningUp
      /\ \A n \in Makers : n # m => maker'[n] = maker[n]
  BY <1>2 DEF Moves, Holding, Unpublished, CleaningUp
<1>4. StoreOK'
  BY <1>1, <1>3, MakerLeaves
<1>5. (\A n \in Makers : maker[n].pc \in Holding => maker[n].owner = OwnerOf[n])'
  BY <1>3 DEF ImageIInv
<1>6. (\A n \in Makers : maker[n].pc \in CleaningUp =>
                           Unseen(maker[n].object) \/ maker[n].result = "retry")'
  BY <1>3 DEF ImageIInv, Unseen
<1>7. ResultsOK'
  BY <1>3 DEF ImageIInv, ResultsOK
<1>8. Remembers
  <2>1. maker[m].result # "retry"
    BY DEF ImageIInv, ResultsOK, CleaningUp
  <2>2. QED
    BY <2>1, <1>3 DEF Remembers
<1>9. ServedUnlessTakenBack'
  <2>1. CASE ServedIsBacked
    BY <2>1 DEF ServedIsBacked, ServedUnlessTakenBack
  <2>2. CASE TakenBack(row.object)
    BY <2>2, <1>8, TakenBackStays DEF ServedUnlessTakenBack
  <2>3. QED
    BY <2>1, <2>2 DEF ImageIInv, ServedUnlessTakenBack
<1>10. QED
  BY <1>4, <1>5, <1>6, <1>7, <1>9 DEF ImageIInv

LEMMA ImageAcquires ==
    ASSUME StoreAssumption, OwnerAssumption, ImageIInv, NEW m \in Makers, maker[m].pc = "idle",
           Acquire(m, OwnerOf[m], AcquiredRow(OwnerOf[m]).id)
    PROVE  ImageIInv'
<1> DEFINE owner == OwnerOf[m]
           id == AcquiredRow(owner).id
<1>1. owner \in Owners
  BY OwnerAssumption DEF OwnerAssumption
<1>2. StoreOK /\ StoreTypeOK /\ row \in Row /\ RowBound
  BY DEF ImageIInv, StoreOK, StoreTypeOK, Acquire
<1>3. /\ AcquiredRow(owner) \in Row /\ AcquiredRow(owner).state = "generating"
      /\ AcquiredRow(owner).object \in {row.object, NoObject}
  BY <1>1, <1>2, AcquiredRowType, StoreAssumption
<1>4. id \in 0..MaxRows /\ maker[m].pc \notin Holding
  BY <1>3 DEF Row, Holding, Unpublished, CleaningUp
<1>5. Acquire(m, owner, id)
  OBVIOUS
<1> HIDE DEF owner, id
<1>6. /\ StoreOK'
      /\ row' = AcquiredRow(owner)
      /\ \A n \in Makers : n # m => maker'[n] = maker[n]
      /\ \/ maker'[m].pc = "make" /\ maker'[m].owner = owner
         \/ maker'[m].pc = "done"
  BY <1>1, <1>2, <1>4, <1>5, AcquireOK, StoreAssumption
<1>7. (\A n \in Makers : maker[n].pc \in Holding => maker[n].owner = OwnerOf[n])'
  BY <1>6 DEF ImageIInv, owner, Holding, Unpublished, CleaningUp
<1>8. (\A n \in Makers : maker[n].pc \in CleaningUp =>
                           Unseen(maker[n].object) \/ maker[n].result = "retry")'
  <2> SUFFICES ASSUME NEW n \in Makers, maker'[n].pc \in CleaningUp
               PROVE  Unseen(maker[n].object)' \/ maker'[n].result = "retry"
    OBVIOUS
  <2>1. n # m /\ maker'[n] = maker[n]
    BY <1>6 DEF CleaningUp
  <2>2. /\ Unseen(maker[n].object) \/ maker[n].result = "retry"
        /\ maker[n].object \in Objects
    BY <2>1, <1>2 DEF ImageIInv, StoreOK, MakerOK, Holding
  <2>3. QED
    BY <2>1, <2>2, <1>3, <1>5, <1>6, StoreAssumption DEF Unseen, StoreAssumption, Acquire
<1>9. ResultsOK'
  <2>1. maker[m].result # "retry" /\ ResultsOK
    BY DEF ImageIInv, ResultsOK, CleaningUp
  <2>2. maker'[m].result = maker[m].result \/ maker'[m].pc = "done"
    <3>1. maker \in [Makers -> Maker]
      BY <1>2 DEF StoreTypeOK
    <3>2. CASE Ends(m, "retry")
      BY <3>1, <3>2 DEF Ends, Maker
    <3>3. CASE \E p \in Objects :
                 maker' = [maker EXCEPT ![m] = [@ EXCEPT !.pc = "make", !.owner = owner,
                                                         !.id = id, !.object = p]]
      BY <3>1, <3>3 DEF Maker
    <3>4. QED
      BY <3>2, <3>3, <1>5 DEF Acquire
  <2>3. QED
    BY <2>1, <2>2, <1>6 DEF ResultsOK
<1>10. ServedUnlessTakenBack'
  BY <1>3, <1>6 DEF ServedIsBacked, ServedUnlessTakenBack
<1>11. QED
  BY <1>6, <1>7, <1>8, <1>9, <1>10 DEF ImageIInv

LEMMA ImageInvalidation ==
    ASSUME StoreAssumption, ImageIInv, NEW a \in Admins, NEW o, AdminStep(a, o)
    PROVE  ImageIInv'
<1>1. StoreOK /\ RowOK(row, object) /\ UNCHANGED maker
  BY DEF ImageIInv, StoreOK, AdminStep
<1>2. StoreOK'
  BY <1>1, StoreAssumption, AdminStepOK
<1>3. (\A m \in Makers : maker[m].pc \in CleaningUp =>
                           Unseen(maker[m].object) \/ maker[m].result = "retry")'
  <2> SUFFICES ASSUME NEW m \in Makers, maker[m].pc \in CleaningUp, maker[m].result # "retry"
               PROVE  Unseen(maker[m].object)'
    BY <1>1
  <2>1. Unseen(maker[m].object) /\ maker[m].object \in Objects
    BY <1>1 DEF ImageIInv, StoreOK, MakerOK, Holding
  <2>2. maker[m].object # o
    BY <2>1 DEF AdminStep
  <2>3. QED
    BY <2>1, <2>2, StoreAssumption DEF Unseen, AdminStep, StoreAssumption
<1>4. ServedUnlessTakenBack'
  <2> SUFFICES ASSUME row'.state = "ready", object'[row'.object] = "available",
                      ~TakenBack(row.object)'
               PROVE  row'.object \in blobs'
    BY DEF ServedIsBacked, ServedUnlessTakenBack
  <2>1. row' = row /\ row.object \in Objects
    BY <1>1 DEF AdminStep, RowOK
  <2>2. object[row.object] = "available"
    BY <2>1 DEF AdminStep
  <2>3. ~TakenBack(row.object)
    BY <2>1, <1>1 DEF TakenBack
  <2>4. row.object \in blobs
    BY <2>1, <2>2, <2>3 DEF ImageIInv, ServedIsBacked, ServedUnlessTakenBack
  <2>5. QED
    BY <2>1, <2>4 DEF AdminStep
<1>5. QED
  BY <1>1, <1>2, <1>3, <1>4 DEF ImageIInv, ResultsOK

\* Every step of the image service preserves its invariant.
LEMMA ImageStepOK ==
    ASSUME StoreAssumption, OwnerAssumption, ImageIInv, [ImageNext]_storeVars
    PROVE  ImageIInv'
<1>1. StoreOK /\ StoreTypeOK
  BY DEF ImageIInv, StoreOK
<1>2. CASE \E m \in Makers : Resolve(m)
  <2>1. PICK m \in Makers : Resolve(m)
    BY <1>2
  <2>2. CASE Ready \/ ~Acquirable(OwnerOf[m])
    <3>1. PICK result \in Results : Ends(m, result)
      BY <2>1, <2>2 DEF Resolve, Results
    <3>2. QED
      BY <3>1, <2>1, <2>2, ImageLeaves DEF Resolve
  <2>3. CASE ~(Ready \/ ~Acquirable(OwnerOf[m]))
    BY <2>1, <2>3, ImageAcquires, StoreAssumption, OwnerAssumption DEF Resolve
  <2>4. QED
    BY <2>2, <2>3
<1>3. CASE \E m \in Makers : Transform(m) \/ MakerStep(m)
  <2>1. PICK m \in Makers : Transform(m) \/ MakerStep(m)
    BY <1>3
  <2>2. PICK pc : OwnStep(m, pc)
    BY <2>1, <1>1, TransformOwn, MakerStepOwn
  <2>3. maker[m].pc \in Unpublished \union CleaningUp
    BY <2>1, <1>1, MakerStepOwn DEF Transform, Unpublished
  <2>4. StoreOK' /\ ResultStep(m)
    BY <2>1, <2>2, <1>1, OwnStepOK, MakerStepResult
  <2>5. QED
    BY <2>2, <2>3, <2>4, ImageGeneration
<1>4. CASE \E m \in Makers : Serve(m)
  BY <1>4, ImageLeaves DEF Serve, Results
<1>r. CASE \E m \in Makers : ReadBackFails(m)
  <2>1. PICK m \in Makers : ReadBackFails(m)
    BY <1>r
  <2>2. /\ maker[m].pc = "published" /\ Throws(m, TRUE)
        /\ UNCHANGED <<row, object, blobs, invalidation>>
    BY <2>1 DEF ReadBackFails
  <2>3. OwnStep(m, "discard")
    BY <2>2, <1>1, ThrowsOwn
  <2>4. maker'[m].result = "retry" /\ maker'[m].pc = "discard"
    BY <2>2, <1>1 DEF Throws, StoreTypeOK, Maker
  <2>5. StoreOK' /\ ResultStep(m)
    BY <2>2, <2>3, <2>4, <1>1, OwnStepOK DEF ResultStep, CleaningUp
  <2>6. QED
    BY <2>2, <2>3, <2>4, <2>5, ImageGeneration
<1>5. CASE \E a \in Admins : PrepareInvalidation(a) \/ InvalidationStep(a)
  BY <1>5, <1>1, InvalidationAdmin, ImageInvalidation, StoreAssumption
<1>6. CASE LeaseRunsOut
  <2>1. StoreOK' /\ row'.state = "generating"
    BY <1>6, <1>1, LeaseRunsOutOK, StoreAssumption
  <2>2. row'.object = row.object /\ UNCHANGED <<object, blobs, maker, invalidation>>
    BY <1>6, <1>1 DEF LeaseRunsOut, StoreTypeOK, Row
  <2>3. QED
    BY <2>1, <2>2 DEF ImageIInv, ResultsOK, ServedUnlessTakenBack, ServedIsBacked, Unseen
<1>7. CASE ApiDies
  <2>1. /\ maker' \in [Makers -> Maker]
        /\ \A m \in Makers : /\ maker'[m].pc \in {"idle", "done"}
                             /\ maker'[m].result = maker[m].result
                             /\ maker'[m].object = maker[m].object
                             /\ maker'[m].pc = "idle" => maker[m].pc = "idle"
    BY <1>7, <1>1 DEF ApiDies, StoreTypeOK, Maker, Phases
  <2>2. /\ invalidation' \in [Admins -> Invalidation]
        /\ \A a \in Admins : invalidation'[a].pc = "idle"
    BY <1>7, StoreAssumption DEF ApiDies, IdleInvalidation, Invalidation, StoreAssumption
  <2>3. UNCHANGED <<row, object, blobs>>
    BY <1>7 DEF ApiDies
  <2>4. \A m \in Makers : maker'[m].pc \notin Holding
    BY <2>1 DEF Holding, Unpublished, CleaningUp
  <2>5. StoreOK'
    BY <2>1, <2>2, <2>3, <2>4, <1>1
       DEF StoreOK, StoreTypeOK, MakerOK, InvalidationOK, RowOK, Distinct, BytesStayListed,
           Unpublished
  <2>6. ResultsOK'
    BY <2>1 DEF ImageIInv, ResultsOK, CleaningUp
  <2>7. ServedUnlessTakenBack'
    BY <2>1, <2>3 DEF ImageIInv, ServedUnlessTakenBack, ServedIsBacked, TakenBack
  <2>8. QED
    BY <2>4, <2>5, <2>6, <2>7 DEF ImageIInv, Holding
<1>8. CASE UNCHANGED storeVars
  BY <1>8
     DEF storeVars, ImageIInv, StoreOK, StoreTypeOK, MakerOK, InvalidationOK, RowOK, Distinct,
         BytesStayListed, Unseen, ResultsOK, ServedUnlessTakenBack, ServedIsBacked, TakenBack
<1>9. QED
  BY <1>2, <1>3, <1>4, <1>r, <1>5, <1>6, <1>7, <1>8 DEF ImageNext

\* Nobody else owns a row that a generation holds.
LEMMA OneHolder ==
    ASSUME OwnerAssumption, ImageIInv, NEW m \in Makers, NEW n \in Makers,
           maker[m].pc \in Holding, HoldsRow(m), row.owner = OwnerOf[n]
    PROVE  n = m
BY OwnerAssumption DEF ImageIInv, HoldsRow, OwnerAssumption

\* What another request does leaves the row of a generation alone.
LEMMA OthersKeepOff ==
    ASSUME OwnerAssumption, ImageIInv, NEW m \in Makers, maker[m].pc \in Unpublished, HoldsRow(m),
           NEW n \in Makers, Resolve(n) \/ Transform(n) \/ MakerStep(n)
    PROVE  row' = row \/ maker'[m] # maker[m]
<1>1. StoreOK /\ StoreTypeOK /\ maker[m].pc \in Holding
  BY DEF ImageIInv, StoreOK, Holding
<1>2. CASE Resolve(n)
  <2>1. CASE Ready \/ ~Acquirable(OwnerOf[n])
    BY <2>1, <1>2 DEF Resolve
  <2>2. CASE Acquirable(OwnerOf[n])
    <3>1. row.owner = OwnerOf[n]
      BY <2>2 DEF Acquirable, HoldsRow
    <3>2. n = m
      BY <3>1, <1>1, OneHolder, OwnerAssumption
    <3>3. QED
      BY <3>2, <1>2 DEF Resolve, Unpublished
  <2>3. QED
    BY <2>1, <2>2
<1>3. CASE Transform(n)
  BY <1>3 DEF Transform
<1>4. CASE MakerStep(n)
  <2>1. PICK pc : OwnStep(n, pc)
    BY <1>4, <1>1, MakerStepOwn
  <2>2. CASE PublishesRow(n) \/ GivesUpRow(n)
    <3>1. HoldsRow(n) /\ maker[n].pc \in Holding /\ maker'[n].pc # maker[n].pc
      BY <2>1, <2>2 DEF PublishesRow, GivesUpRow, OwnStep
    <3>2. row.owner = OwnerOf[n]
      BY <3>1 DEF HoldsRow, ImageIInv
    <3>3. n = m
      BY <3>2, <1>1, OneHolder, OwnerAssumption
    <3>4. QED
      BY <3>1, <3>3
  <2>3. QED
    BY <2>1, <2>2 DEF OwnStep
<1>5. QED
  BY <1>2, <1>3, <1>4

\* What a delivery request is answered with is there: a ready image derivative whose
\* object is available has its bytes (ImageDerivativeService.ready), unless the request
\* that published it failed to read it back, for any number of requests, invalidations
\* and crashes.
THEOREM ImagesAreBacked == ImageSpec => []ServedUnlessTakenBack
<1>1. StoreInit => ImageIInv
  BY ImageInitOK, StoreAssumption
<1>2. ImageIInv /\ [ImageNext]_storeVars => ImageIInv'
  BY ImageStepOK, StoreAssumption, OwnerAssumption
<1>3. ImageIInv => ServedUnlessTakenBack
  BY DEF ImageIInv
<1>4. QED
  BY <1>1, <1>2, <1>3, PTL DEF ImageSpec

\* Nobody publishes, gives up, takes or withdraws the row under a request whose lease
\* stands, but an invalidation that had seen it (SqliteDerivativeRepository.acquire,
\* complete and fail, AsyncDerivativeService.invalidate).
THEOREM LeasesAreExclusive == ImageSpec => LeaseIsExclusive
<1> DEFINE Exclusive ==
             \A m \in Makers :
               maker[m].pc \in {"make", "made", "stored", "finalized"} /\ HoldsRow(m) =>
                 \/ row' = row
                 \/ maker'[m] # maker[m]
                 \/ row' = [row EXCEPT !.live = FALSE]
                 \/ \E a \in Admins : invalidation[a].pc = "finish" /\ invalidation[a].id = row.id
<1>1. StoreInit => ImageIInv
  BY ImageInitOK, StoreAssumption
<1>2. ImageIInv /\ [ImageNext]_storeVars => ImageIInv'
  BY ImageStepOK, StoreAssumption, OwnerAssumption
<1>3. ImageIInv /\ [ImageNext]_storeVars => [Exclusive]_storeVars
  <2> SUFFICES ASSUME ImageIInv, ImageNext, NEW m \in Makers,
                      maker[m].pc \in {"make", "made", "stored", "finalized"}, HoldsRow(m)
               PROVE  \/ row' = row
                      \/ maker'[m] # maker[m]
                      \/ row' = [row EXCEPT !.live = FALSE]
                      \/ \E a \in Admins : /\ invalidation[a].pc = "finish"
                                           /\ invalidation[a].id = row.id
    OBVIOUS
  <2>1. CASE \E n \in Makers : Resolve(n) \/ Transform(n) \/ MakerStep(n)
    BY <2>1, OthersKeepOff, OwnerAssumption DEF Unpublished
  <2>2. CASE \E n \in Makers : Serve(n) \/ ReadBackFails(n)
    BY <2>2 DEF Serve, ReadBackFails
  <2>3. CASE \E a \in Admins : PrepareInvalidation(a) \/ InvalidationStep(a)
    BY <2>3 DEF PrepareInvalidation, InvalidationStep, DeleteBytes, Restore, FinishInvalidation,
                HoldsRow
  <2>4. CASE LeaseRunsOut \/ ApiDies
    BY <2>4 DEF LeaseRunsOut, ApiDies
  <2>5. QED
    BY <2>1, <2>2, <2>3, <2>4 DEF ImageNext
<1>4. QED
  BY <1>1, <1>2, <1>3, PTL DEF ImageSpec, LeaseIsExclusive

-----------------------------------------------------------------------------
(* The asynchronous service.                                               *)

LeftBehind(j) == row.state = "generating" /\ row.live /\ row.owner = j /\ payload[j] = row.id

\* A worker at a job: the maker acts for it, and the job has been added.
WorkerOK(w) ==
    maker[w].pc # "idle" =>
      /\ current[w] \in Jobs
      /\ maker[w].id = payload[current[w]]
      /\ ledger[current[w]].state # "absent"
      /\ maker[w].pc \in Holding => maker[w].owner = current[w]
      /\ maker[w].pc \in CleaningUp => maker[w].result # "ok"

\* The worker that owns a job and will settle it for good leaves no row behind.
SettlesForGood(w) ==
    \/ maker[w].pc = "published"
    \/ maker[w].pc = "done" /\ maker[w].result # "retry"

JobsOK ==
    /\ ledger \in [Jobs -> Entry]
    /\ payload \in [Jobs -> 0..MaxRows]
    /\ late \in BOOLEAN
    /\ current \in [Workers -> Jobs \union {NoJob}]
    /\ \A j \in Jobs : ledger[j].attempts <= MaxAttempts[j]

Attended(j) == Unsettled(j) \/ ledger[j].attempts = MaxAttempts[j]

AsyncIInv ==
    /\ StoreOK
    /\ JobsOK
    /\ \A w \in Workers : WorkerOK(w)
    /\ \A w \in Workers : SettlesForGood(w) /\ Owns(w, current[w]) =>
                            late \/ ~LeftBehind(current[w])
    /\ row.state = "generating" => row.owner \in Jobs
    /\ \A j \in Jobs : LeftBehind(j) => late \/ Attended(j)

LEMMA AsyncInitOK ==
    ASSUME StoreAssumption, LedgerAssumption, WorkersAssumption, Init PROVE AsyncIInv
<1>1. StoreOK
  BY StoreInitOK, StoreAssumption DEF Init
<1>2. /\ \A w \in Workers : maker[w].pc = "idle"
      /\ row.state = "absent"
  BY WorkersAssumption DEF Init, StoreInit, IdleMaker, NoRow, WorkersAssumption
<1>3. JobsOK
  <2>1. /\ ledger \in [Jobs -> Entry]
        /\ \A j \in Jobs : ledger[j].attempts = 0
    BY DEF Init, LedgerInit, Entry, JobStates
  <2>2. \A j \in Jobs : MaxAttempts[j] \in Nat
    BY LedgerAssumption DEF LedgerAssumption
  <2>3. payload \in [Jobs -> 0..MaxRows]
    BY StoreAssumption DEF Init, StoreAssumption
  <2>4. current \in [Workers -> Jobs \union {NoJob}] /\ late \in BOOLEAN
    BY DEF Init
  <2>5. \A j \in Jobs : ledger[j].attempts <= MaxAttempts[j]
    BY <2>1, <2>2
  <2>6. QED
    BY <2>1, <2>3, <2>4, <2>5 DEF JobsOK
<1>4. QED
  BY <1>1, <1>2, <1>3 DEF AsyncIInv, WorkerOK, SettlesForGood, LeftBehind

\* A step that leaves the jobs and the workers alone and the row no more alive than
\* it was.
RowKeptOrReleased ==
    \/ row' = row
    \/ ~(row'.state = "generating" /\ row'.live)

LEMMA StoreOnly ==
    ASSUME AsyncIInv, StoreOK', UNCHANGED <<ledger, payload, current, late, maker>>,
           RowKeptOrReleased, row'.state = "generating" => row'.owner \in Jobs
    PROVE  AsyncIInv'
<1>1. JobsOK' /\ (\A w \in Workers : WorkerOK(w))'
  BY DEF AsyncIInv, JobsOK, WorkerOK
<1>2. \A j \in Jobs \union {NoJob} : LeftBehind(j)' => LeftBehind(j)
  BY DEF LeftBehind, RowKeptOrReleased
<1>3. \A w \in Workers : current[w] \in Jobs \union {NoJob}
  BY DEF AsyncIInv, JobsOK
<1>4. (\A w \in Workers : SettlesForGood(w) /\ Owns(w, current[w]) =>
                            late \/ ~LeftBehind(current[w]))'
  BY <1>2, <1>3 DEF AsyncIInv, SettlesForGood, Owns
<1>5. (\A j \in Jobs : LeftBehind(j) => late \/ Attended(j))'
  BY <1>2 DEF AsyncIInv, Attended, Unsettled
<1>6. QED
  BY <1>1, <1>4, <1>5 DEF AsyncIInv

\* The API adds a job: the row is queued, and the job is nobody's work yet.
LEMMA CreateOK ==
    ASSUME StoreAssumption, LedgerAssumption, AsyncIInv, NEW j \in Jobs, Create(j)
    PROVE  AsyncIInv'
<1>1. StoreOK /\ row \in Row /\ JobsOK /\ RowBound
  BY DEF AsyncIInv, StoreOK, StoreTypeOK, Create
<1>2. /\ row' \in Row /\ row'.state = "queued" /\ row'.object \in {row.object, NoObject}
  <2>1. CASE row.state = "absent"
    <3>1. row' = NextRow("queued") /\ row.id + 1 \in 0..MaxRows
      BY <2>1, <1>1, StoreAssumption DEF Create, RowBound, Row, StoreAssumption
    <3>2. QED
      BY <3>1, StoreAssumption DEF NextRow, NoRow, Row, StoreAssumption
  <2>2. CASE row.state # "absent"
    BY <2>2, <1>1 DEF Create, Row
  <2>3. QED
    BY <2>1, <2>2
<1>3. StoreOK'
  BY <1>1, <1>2, RowStepOK, StoreAssumption DEF Create
<1>4. /\ ledger[j].state = "absent"
      /\ ledger' \in [Jobs -> Entry] /\ ledger'[j].state = "queued"
      /\ ledger'[j].attempts = ledger[j].attempts
      /\ \A k \in Jobs : k # j => ledger'[k] = ledger[k]
  BY <1>1 DEF Create, Add, JobsOK, Entry, JobStates
<1>5. /\ payload' \in [Jobs -> 0..MaxRows]
      /\ \A k \in Jobs : k # j => payload'[k] = payload[k]
  BY <1>1, <1>2 DEF Create, JobsOK, Row
<1>6. JobsOK'
  BY <1>1, <1>4, <1>5 DEF JobsOK, Create
<1>7. (\A w \in Workers : WorkerOK(w))'
  <2> TAKE w \in Workers
  <2>1. WorkerOK(w) /\ maker' = maker /\ current' = current
    BY DEF AsyncIInv, Create
  <2>2. maker[w].pc # "idle" => current[w] # j /\ current[w] \in Jobs
    BY <2>1, <1>4 DEF WorkerOK
  <2>3. QED
    BY <2>1, <2>2, <1>4, <1>5 DEF WorkerOK
<1>8. \A k : ~LeftBehind(k)'
  BY <1>2 DEF LeftBehind
<1>9. QED
  BY <1>2, <1>3, <1>6, <1>7, <1>8 DEF AsyncIInv

\* Withdrawn jobs were not left a row: the row is not being generated.
LEMMA InvalidateOK ==
    ASSUME StoreAssumption, AsyncIInv, NEW a \in Admins, Invalidate(a)
    PROVE  AsyncIInv'
<1>1. StoreOK /\ JobsOK
  BY DEF AsyncIInv
<1>2. StoreOK'
  BY <1>1, InvalidationAdmin, AdminStepOK, StoreAssumption DEF Invalidate
<1>3. row' = row /\ row.state # "generating" /\ UNCHANGED <<maker, payload, current, late>>
  BY DEF Invalidate, PrepareInvalidation, Invalidable
<1>4. ledger' = [k \in Jobs |-> IF k \in QueuedFor(row.id) THEN Released(ledger[k], "cancelled")
                                ELSE ledger[k]]
  BY DEF Invalidate, Withdraw
<1>5. /\ ledger' \in [Jobs -> Entry]
      /\ \A k \in Jobs : /\ ledger'[k].attempts = ledger[k].attempts
                         /\ ledger'[k].state \in {ledger[k].state, "cancelled"}
  <2>1. \A k \in Jobs : /\ Released(ledger[k], "cancelled") \in Entry
                        /\ Released(ledger[k], "cancelled").attempts = ledger[k].attempts
                        /\ Released(ledger[k], "cancelled").state = "cancelled"
    BY <1>1 DEF JobsOK, Released, Entry, JobStates, Settled
  <2>2. QED
    BY <2>1, <1>1, <1>4 DEF JobsOK
<1>6. JobsOK'
  BY <1>1, <1>3, <1>5 DEF JobsOK
<1>7. (\A w \in Workers : WorkerOK(w))'
  BY <1>3, <1>5 DEF AsyncIInv, WorkerOK
<1>8. \A k : ~LeftBehind(k)'
  BY <1>3 DEF LeftBehind
<1>9. QED
  BY <1>2, <1>3, <1>6, <1>7, <1>8 DEF AsyncIInv

LEMMA StoreStutters == ASSUME StoreOK, UNCHANGED storeVars PROVE StoreOK'
BY DEF storeVars, StoreOK, StoreTypeOK, MakerOK, InvalidationOK, RowOK, Distinct,
       BytesStayListed, Unseen

\* A worker that goes on, or stops, without settling its job: its row is left with
\* the job that it was left with.
LEMMA WorkerOnly ==
    ASSUME WorkersAssumption, AsyncIInv, NEW w \in Workers, StoreOK',
           UNCHANGED <<ledger, payload, row, late>>,
           \A v \in Workers : v # w => maker'[v] = maker[v] /\ current'[v] = current[v],
           current' \in [Workers -> Jobs \union {NoJob}],
           WorkerOK(w)',
           SettlesForGood(w)' /\ Owns(w, current[w])' => late \/ ~LeftBehind(current'[w])
    PROVE  AsyncIInv'
<1>1. JobsOK'
  BY DEF AsyncIInv, JobsOK
<1>2. (\A v \in Workers : WorkerOK(v))'
  <2> TAKE v \in Workers
  <2>1. CASE v = w
    BY <2>1
  <2>2. CASE v # w
    BY <2>2 DEF AsyncIInv, WorkerOK
  <2>3. QED
    BY <2>1, <2>2
<1>3. \A j : LeftBehind(j)' = LeftBehind(j)
  BY DEF LeftBehind
<1>4. (\A v \in Workers : SettlesForGood(v) /\ Owns(v, current[v]) =>
                            late \/ ~LeftBehind(current[v]))'
  <2> TAKE v \in Workers
  <2>1. CASE v = w
    BY <2>1, <1>3
  <2>2. CASE v # w
    BY <2>2, <1>3 DEF AsyncIInv, SettlesForGood, Owns
  <2>3. QED
    BY <2>1, <2>2
<1>5. (\A j \in Jobs : LeftBehind(j) => late \/ Attended(j))'
  BY <1>3 DEF AsyncIInv, Attended, Unsettled
<1>6. QED
  BY <1>1, <1>2, <1>4, <1>5 DEF AsyncIInv

\* A claim: what is swept has used up its attempts, what is started is attended to.
LEMMA ClaimOK ==
    ASSUME WorkersAssumption, LedgerAssumption, AsyncIInv, NEW w \in Workers, ClaimNext(w)
    PROVE  AsyncIInv'
<1>1. /\ StoreOK /\ JobsOK /\ maker[w].pc = "idle"
      /\ UNCHANGED <<row, object, blobs, invalidation, payload, late>>
      /\ maker \in [Makers -> Maker] /\ w \in Makers
  BY WorkersAssumption DEF AsyncIInv, ClaimNext, Idle, StoreOK, StoreTypeOK, WorkersAssumption
<1>2. PICK swept \in SUBSET Exhaustible :
        \/ /\ Sweep(swept)
           /\ UNCHANGED <<maker, current>>
        \/ \E j \in Startable :
             /\ Start(w, swept, j)
             /\ maker' = [maker EXCEPT ![w] = [@ EXCEPT !.pc = "acquire", !.id = payload[j]]]
             /\ current' = [current EXCEPT ![w] = j]
  BY DEF ClaimNext
<1>3. \A k \in swept : /\ k \in Jobs
                      /\ ledger[k].attempts = MaxAttempts[k]
                      /\ ledger[k].state # "absent"
  <2>1. \A k \in Jobs : /\ ledger[k].attempts \in Nat /\ MaxAttempts[k] \in Nat
                       /\ ledger[k].attempts <= MaxAttempts[k]
    BY <1>1, LedgerAssumption DEF JobsOK, Entry, LedgerAssumption
  <2>2. QED
    BY <2>1 DEF Exhaustible
<1>4. \A k \in Jobs : /\ Released(ledger[k], "failed") \in Entry
                     /\ Released(ledger[k], "failed").attempts = ledger[k].attempts
                     /\ Released(ledger[k], "failed").state = "failed"
  BY <1>1 DEF JobsOK, Released, Entry, JobStates, Settled
<1>5. \A k : LeftBehind(k)' = LeftBehind(k)
  BY <1>1 DEF LeftBehind
<1>6. CASE Sweep(swept) /\ UNCHANGED <<maker, current>>
  <2>1. /\ ledger' \in [Jobs -> Entry]
        /\ \A k \in Jobs : IF k \in swept
                           THEN /\ ledger'[k].attempts = MaxAttempts[k]
                                /\ ledger'[k].state = "failed"
                           ELSE ledger'[k] = ledger[k]
    BY <1>1, <1>3, <1>4, <1>6 DEF Sweep, JobsOK
  <2>2. StoreOK'
    BY <1>1, <1>6, StoreStutters DEF storeVars
  <2>3. JobsOK'
    BY <2>1, <1>1, <1>6, LedgerAssumption DEF JobsOK, LedgerAssumption
  <2>4. (\A v \in Workers : WorkerOK(v))'
    BY <2>1, <1>1, <1>6 DEF AsyncIInv, WorkerOK
  <2>5. (\A v \in Workers : SettlesForGood(v) /\ Owns(v, current[v]) =>
                              late \/ ~LeftBehind(current[v]))'
    <3> SUFFICES ASSUME NEW v \in Workers, SettlesForGood(v)', Owns(v, current[v])'
                 PROVE  (late \/ ~LeftBehind(current[v]))'
      OBVIOUS
    <3>1. SettlesForGood(v) /\ current' = current
      BY <1>6 DEF SettlesForGood
    <3>2. current[v] \in Jobs
      BY <3>1 DEF AsyncIInv, WorkerOK, SettlesForGood
    <3>3. Owns(v, current[v])
      BY <3>1, <3>2, <2>1 DEF Owns
    <3>4. QED
      BY <3>1, <3>3, <1>1, <1>5 DEF AsyncIInv
  <2>6. (\A j \in Jobs : LeftBehind(j) => late \/ Attended(j))'
    BY <2>1, <1>1, <1>5 DEF AsyncIInv, Attended, Unsettled
  <2>7. QED
    BY <2>2, <2>3, <2>4, <2>5, <2>6, <1>1 DEF AsyncIInv
<1>7. ASSUME NEW j \in Startable,
             Start(w, swept, j),
             maker' = [maker EXCEPT ![w] = [@ EXCEPT !.pc = "acquire", !.id = payload[j]]],
             current' = [current EXCEPT ![w] = j]
      PROVE  AsyncIInv'
  <2>1. /\ j \in Jobs /\ j \notin swept
        /\ ledger[j].attempts + 1 \in Nat /\ ledger[j].attempts + 1 <= MaxAttempts[j]
    BY <1>1, <1>3, LedgerAssumption DEF JobsOK, Startable, Entry, LedgerAssumption
  <2>2. [state |-> "running", attempts |-> ledger[j].attempts + 1, owner |-> w] \in Entry
    BY <2>1 DEF Entry, JobStates
  <2>3. /\ ledger' \in [Jobs -> Entry]
        /\ \A k \in Jobs : k # j =>
             IF k \in swept
             THEN ledger'[k].attempts = MaxAttempts[k] /\ ledger'[k].state = "failed"
             ELSE ledger'[k] = ledger[k]
        /\ ledger'[j].state = "running" /\ ledger'[j].owner = w
        /\ ledger'[j].attempts <= MaxAttempts[j]
    BY <2>1, <2>2, <1>1, <1>3, <1>4, <1>7 DEF Start, JobsOK
  <2>4. /\ maker' \in [Makers -> Maker] /\ maker'[w].pc = "acquire" /\ maker'[w].id = payload[j]
        /\ \A v \in Makers : v # w => maker'[v] = maker[v]
    <3>1. payload[j] \in 0..MaxRows /\ maker[w] \in Maker
      BY <2>1, <1>1 DEF JobsOK
    <3> DEFINE m == [maker[w] EXCEPT !.pc = "acquire", !.id = payload[j]]
    <3>2. m \in Maker /\ m.pc = "acquire" /\ m.id = payload[j]
      BY <3>1 DEF Maker, Phases
    <3> HIDE DEF m
    <3>3. maker' = [maker EXCEPT ![w] = m]
      BY <1>7 DEF m
    <3>4. QED
      BY <3>2, <3>3, <1>1
  <2>5. StoreOK'
    BY <2>4, <1>1, MakerLeaves DEF Holding, Unpublished, CleaningUp
  <2>6. /\ current' \in [Workers -> Jobs \union {NoJob}] /\ current'[w] = j
        /\ \A v \in Workers : v # w => current'[v] = current[v]
    BY <2>1, <1>1, <1>7 DEF JobsOK
  <2>7. JobsOK'
    BY <2>3, <2>6, <1>1, LedgerAssumption DEF JobsOK, LedgerAssumption
  <2>8. (\A v \in Workers : WorkerOK(v))'
    <3> TAKE v \in Workers
    <3>1. CASE v = w
      BY <3>1, <2>1, <2>3, <2>4, <2>6, <1>1
         DEF WorkerOK, Holding, Unpublished, CleaningUp
    <3>2. CASE v # w
      <4>1. WorkerOK(v) /\ maker'[v] = maker[v] /\ current'[v] = current[v]
        BY <3>2, <2>4, <2>6, WorkersAssumption DEF AsyncIInv, WorkersAssumption
      <4>2. QED
        BY <4>1, <2>3, <1>1 DEF WorkerOK
    <3>3. QED
      BY <3>1, <3>2
  <2>9. (\A v \in Workers : SettlesForGood(v) /\ Owns(v, current[v]) =>
                              late \/ ~LeftBehind(current[v]))'
    <3> SUFFICES ASSUME NEW v \in Workers, SettlesForGood(v)', Owns(v, current[v])'
                 PROVE  (late \/ ~LeftBehind(current[v]))'
      OBVIOUS
    <3>1. v # w
      BY <2>4 DEF SettlesForGood
    <3>2. SettlesForGood(v) /\ current'[v] = current[v]
      BY <3>1, <2>4, <2>6, WorkersAssumption DEF SettlesForGood, WorkersAssumption
    <3>3. current[v] \in Jobs
      BY <3>2 DEF AsyncIInv, WorkerOK, SettlesForGood
    <3>4. Owns(v, current[v])
      BY <3>1, <3>2, <3>3, <2>3 DEF Owns
    <3>5. QED
      BY <3>2, <3>4, <1>1, <1>5 DEF AsyncIInv
  <2>10. (\A k \in Jobs : LeftBehind(k) => late \/ Attended(k))'
    BY <2>3, <1>1, <1>5 DEF AsyncIInv, Attended, Unsettled
  <2>11. QED
    BY <2>5, <2>7, <2>8, <2>9, <2>10, <1>1 DEF AsyncIInv
<1>8. QED
  BY <1>2, <1>6, <1>7

\* lookup fails when the row is no longer the one that the job is for.
LEMMA LookupFailsOK ==
    ASSUME WorkersAssumption, AsyncIInv, NEW w \in Workers, LookupFails(w)
    PROVE  AsyncIInv'
<1>1. /\ StoreOK /\ StoreTypeOK /\ JobsOK /\ w \in Makers /\ WorkerOK(w)
      /\ Ends(w, "reject") /\ maker[w].pc = "acquire"
      /\ UNCHANGED <<ledger, row, object, blobs, invalidation, payload, current, late>>
  BY WorkersAssumption DEF AsyncIInv, StoreOK, LookupFails, WorkersAssumption
<1>2. Moves(w, "done") /\ maker'[w].result = "reject"
  BY <1>1, EndsMoves DEF Results
<1>3. StoreOK'
  BY <1>1, <1>2, MakerLeaves DEF Moves, Holding, Unpublished, CleaningUp
<1>4. WorkerOK(w)'
  BY <1>1, <1>2 DEF WorkerOK, Moves, Holding, Unpublished, CleaningUp
<1>5. ~LeftBehind(current[w])
  BY <1>1 DEF LookupFails, LeftBehind, WorkerOK
<1>6. \A v \in Workers : v # w => maker'[v] = maker[v] /\ current'[v] = current[v]
  BY <1>1, <1>2, WorkersAssumption DEF Moves, WorkersAssumption
<1>7. current' \in [Workers -> Jobs \union {NoJob}]
  BY <1>1 DEF JobsOK
<1>8. QED
  BY <1>1, <1>3, <1>4, <1>5, <1>6, <1>7, WorkerOnly, WorkersAssumption

\* A worker that acquires the row attends to its job, or is late.
LEMMA AcquireOrLeaveOK ==
    ASSUME StoreAssumption, WorkersAssumption, AsyncIInv, NEW w \in Workers, AcquireOrLeave(w)
    PROVE  AsyncIInv'
<1>1. /\ StoreOK /\ StoreTypeOK /\ JobsOK /\ w \in Makers /\ WorkerOK(w)
      /\ maker[w].pc = "acquire" /\ current[w] \in Jobs /\ current[w] \in Owners
      /\ maker[w] \in Maker /\ maker[w].id \in 0..MaxRows /\ row \in Row
      /\ UNCHANGED <<ledger, payload, current>>
  BY WorkersAssumption
     DEF AsyncIInv, StoreOK, StoreTypeOK, AcquireOrLeave, WorkerOK, Maker, WorkersAssumption
<1>2. maker[w].pc \notin Holding
  BY <1>1 DEF Holding, Unpublished, CleaningUp
<1>3. CASE /\ Ends(w, IF row.state = "ready" THEN "ok" ELSE "retry")
           /\ UNCHANGED <<row, object, blobs, invalidation, late>>
  <2> DEFINE result == IF row.state = "ready" THEN "ok" ELSE "retry"
  <2>1. result \in Results
    BY DEF Results
  <2>2. Moves(w, "done") /\ maker'[w].result = result
    BY <2>1, <1>1, <1>3, EndsMoves
  <2>3. StoreOK'
    BY <1>1, <1>3, <2>2, MakerLeaves DEF Moves, Holding, Unpublished, CleaningUp
  <2>4. WorkerOK(w)'
    BY <1>1, <2>2 DEF WorkerOK, Moves, Holding, Unpublished, CleaningUp
  <2>5. SettlesForGood(w)' => ~LeftBehind(current[w])
    BY <2>2 DEF SettlesForGood, Moves, LeftBehind
  <2>6. \A v \in Workers : v # w => maker'[v] = maker[v] /\ current'[v] = current[v]
    BY <1>1, <2>2, WorkersAssumption DEF Moves, WorkersAssumption
  <2>7. current' \in [Workers -> Jobs \union {NoJob}]
    BY <1>1 DEF JobsOK
  <2>8. QED
    BY <1>1, <1>3, <2>3, <2>4, <2>5, <2>6, <2>7, WorkerOnly, WorkersAssumption
<1>4. CASE Acquire(w, current[w], maker[w].id) /\ late' = ~Owns(w, current[w])
  <2> DEFINE j == current[w]
             id == maker[w].id
  <2>0. Acquire(w, j, id) /\ j \in Owners /\ id \in 0..MaxRows /\ RowBound
    BY <1>1, <1>4 DEF Acquire
  <2>1. /\ StoreOK'
        /\ row' = AcquiredRow(j)
        /\ \A v \in Makers : v # w => maker'[v] = maker[v]
        /\ \/ maker'[w].pc = "make" /\ maker'[w].owner = j /\ maker'[w].id = id
           \/ maker'[w].pc = "done" /\ maker'[w].result = "retry" /\ maker'[w].id = id
    <3> HIDE DEF j
    <3> HIDE DEF id
    <3>1. QED
      BY <2>0, <1>1, <1>2, AcquireOK, StoreAssumption DEF id
  <2>2. row'.state = "generating" /\ row'.owner = j
    BY <2>0, <2>1, <1>1, AcquiredRowType, StoreAssumption
  <2>3. JobsOK'
    BY <1>1, <1>4 DEF JobsOK
  <2>4. (\A v \in Workers : WorkerOK(v))'
    <3> TAKE v \in Workers
    <3>1. CASE v = w
      BY <3>1, <2>1, <1>1 DEF WorkerOK, Holding, Unpublished, CleaningUp
    <3>2. CASE v # w
      BY <3>2, <2>1, <1>1, WorkersAssumption DEF AsyncIInv, WorkerOK, WorkersAssumption
    <3>3. QED
      BY <3>1, <3>2
  <2>5. (\A v \in Workers : SettlesForGood(v) /\ Owns(v, current[v]) =>
                              late \/ ~LeftBehind(current[v]))'
    <3> SUFFICES ASSUME NEW v \in Workers, SettlesForGood(v)', Owns(v, current[v])',
                        LeftBehind(current[v])'
                 PROVE  late'
      OBVIOUS
    <3>1. v # w
      BY <2>1 DEF SettlesForGood
    <3>2. current'[v] = j
      BY <2>2 DEF LeftBehind
    <3>3. ~Owns(w, j)
      BY <3>1, <3>2, <1>1 DEF Owns
    <3>4. QED
      BY <3>3, <1>4
  <2>6. (\A k \in Jobs : LeftBehind(k) => late \/ Attended(k))'
    <3> SUFFICES ASSUME NEW k \in Jobs, LeftBehind(k)', ~late'
                 PROVE  Attended(k)'
      BY <2>3 DEF JobsOK
    <3>1. k = j /\ Owns(w, j)
      BY <2>2, <1>4 DEF LeftBehind
    <3>2. QED
      BY <3>1, <1>1 DEF Owns, Attended, Unsettled
  <2>7. QED
    BY <2>1, <2>2, <2>3, <2>4, <2>5, <2>6, <1>1 DEF AsyncIInv
<1>5. QED
  BY <1>3, <1>4 DEF AcquireOrLeave

\* A generation does not make the row any more its job's than it was.
LEMMA GenerationOK ==
    ASSUME WorkersAssumption, AsyncIInv, NEW w \in Workers, NEW pc, OwnStep(w, pc),
           UNCHANGED <<ledger, payload, current, late>>,
           maker'[w].pc \in CleaningUp => maker'[w].result # "ok",
           SettlesForGood(w)' => ~LeftBehind(current[w])'
    PROVE  AsyncIInv'
<1>1. /\ StoreOK /\ JobsOK /\ w \in Makers /\ WorkerOK(w) /\ maker[w].pc \in Holding
      /\ Moves(w, pc)
  BY WorkersAssumption DEF AsyncIInv, OwnStep, WorkersAssumption
<1>2. StoreOK'
  BY <1>1, OwnStepOK
<1>3. /\ \A j : LeftBehind(j)' => LeftBehind(j)
      /\ row'.state = "generating" => row'.owner \in Jobs
  BY DEF AsyncIInv, OwnStep, PublishesRow, GivesUpRow, LeftBehind
<1>4. JobsOK'
  BY <1>1 DEF JobsOK
<1>5. maker[w].pc # "idle"
  BY <1>1 DEF Holding, Unpublished, CleaningUp
<1>6. \A v \in Workers : v # w => maker'[v] = maker[v]
  BY <1>1, WorkersAssumption DEF Moves, WorkersAssumption
<1>7. (\A v \in Workers : WorkerOK(v))'
  <2> TAKE v \in Workers
  <2>1. CASE v = w
    BY <2>1, <1>1, <1>5 DEF WorkerOK, Moves
  <2>2. CASE v # w
    BY <2>2, <1>6 DEF AsyncIInv, WorkerOK
  <2>3. QED
    BY <2>1, <2>2
<1>8. (\A v \in Workers : SettlesForGood(v) /\ Owns(v, current[v]) =>
                            late \/ ~LeftBehind(current[v]))'
  <2> SUFFICES ASSUME NEW v \in Workers, SettlesForGood(v)', Owns(v, current[v])',
                      LeftBehind(current[v])'
               PROVE  late'
    OBVIOUS
  <2>1. v # w
    OBVIOUS
  <2>2. SettlesForGood(v) /\ Owns(v, current[v]) /\ LeftBehind(current[v])
    BY <2>1, <1>3, <1>6 DEF SettlesForGood, Owns
  <2>3. QED
    BY <2>2 DEF AsyncIInv
<1>9. (\A j \in Jobs : LeftBehind(j) => late \/ Attended(j))'
  BY <1>3 DEF AsyncIInv, Attended, Unsettled
<1>10. QED
  BY <1>2, <1>3, <1>4, <1>7, <1>8, <1>9 DEF AsyncIInv

LEMMA GenerateOK ==
    ASSUME WorkersAssumption, AsyncIInv, NEW w \in Workers, Generate(w)
    PROVE  AsyncIInv'
<1>1. /\ StoreOK /\ StoreTypeOK /\ JobsOK /\ w \in Makers /\ WorkerOK(w)
      /\ UNCHANGED <<ledger, payload, current, late>>
  BY WorkersAssumption DEF AsyncIInv, Generate, StoreOK, WorkersAssumption
<1>2. CASE Progress(w)
  <2>1. OwnStep(w, "made")
    BY <1>1, <1>2, TransformOwn DEF Progress
  <2>2. maker'[w].pc = "made"
    BY <2>1 DEF OwnStep, Moves
  <2>3. QED
    BY <2>1, <2>2, <1>1, GenerationOK, WorkersAssumption DEF CleaningUp, SettlesForGood
<1>3. CASE MakerStep(w)
  <2>1. /\ \E pc : OwnStep(w, pc)
        /\ maker'[w].pc \in CleaningUp =>
             \/ maker'[w].result \in {"retry", "reject"}
             \/ maker[w].pc \in CleaningUp /\ maker'[w].result = maker[w].result
        /\ maker'[w].pc = "done" => maker'[w].result = "retry" \/ ~HoldsRow(w)'
        /\ maker'[w].pc = "published" => row'.state = "ready"
    BY <1>1, <1>3, MakerStepOwn
  <2>2. PICK pc : OwnStep(w, pc)
    BY <2>1
  <2>3. maker'[w].pc \in CleaningUp => maker'[w].result # "ok"
    BY <2>1, <1>1 DEF WorkerOK, CleaningUp
  <2>4. /\ maker'[w].id = payload[current[w]] /\ maker'[w].owner = current[w]
    BY <2>2, <1>1 DEF OwnStep, Moves, WorkerOK, Holding, Unpublished, CleaningUp
  <2>5. SettlesForGood(w)' => ~LeftBehind(current[w])'
    BY <2>1, <2>4, <1>1 DEF SettlesForGood, LeftBehind, HoldsRow
  <2>6. QED
    BY <2>2, <2>3, <2>5, <1>1, GenerationOK, WorkersAssumption
<1>4. CASE Report(w)
  <2>1. CASE Owns(w, current[w]) /\ Ends(w, "ok")
    <3>1. Moves(w, "done") /\ maker'[w].result = "ok"
      BY <1>1, <2>1, EndsMoves DEF Results
    <3>2. /\ UNCHANGED <<row, object, blobs, invalidation>>
          /\ maker[w].pc = "published"
      BY <1>4 DEF Report
    <3>3. StoreOK'
      BY <1>1, <3>1, <3>2, MakerLeaves DEF Moves, Holding, Unpublished, CleaningUp
    <3>4. WorkerOK(w)'
      BY <1>1, <3>1, <3>2 DEF WorkerOK, Moves, Holding, Unpublished, CleaningUp
    <3>5. late \/ ~LeftBehind(current[w])
      BY <2>1, <3>2 DEF AsyncIInv, SettlesForGood
    <3>6. \A v \in Workers : v # w => maker'[v] = maker[v] /\ current'[v] = current[v]
      BY <1>1, <3>1, WorkersAssumption DEF Moves, WorkersAssumption
    <3>7. current' \in [Workers -> Jobs \union {NoJob}] /\ current'[w] = current[w]
      BY <1>1 DEF JobsOK
    <3>8. QED
      BY <1>1, <3>2, <3>3, <3>4, <3>5, <3>6, <3>7, WorkerOnly, WorkersAssumption
  <2>2. CASE Throws(w, TRUE)
    <3>1. OwnStep(w, "discard") /\ maker'[w].result \in {"retry", "reject"}
      BY <1>1, <1>4, <2>2, ThrowsOwn DEF Report
    <3>2. maker'[w].pc = "discard"
      BY <3>1 DEF OwnStep, Moves
    <3>3. QED
      BY <3>1, <3>2, <1>1, GenerationOK, WorkersAssumption DEF SettlesForGood
  <2>3. QED
    BY <2>1, <2>2, <1>4 DEF Report
<1>5. QED
  BY <1>2, <1>3, <1>4 DEF Generate

\* A worker that has left its job, settled or not, is idle.
LEMMA BecomesIdle ==
    ASSUME StoreAssumption, WorkersAssumption, AsyncIInv, NEW w \in Workers,
           maker' = [maker EXCEPT ![w] = IdleMaker],
           current' = [current EXCEPT ![w] = NoJob],
           UNCHANGED <<row, object, blobs, invalidation>>
    PROVE  /\ StoreOK' /\ maker'[w].pc = "idle"
           /\ \A v \in Workers : v # w => maker'[v] = maker[v] /\ current'[v] = current[v]
           /\ current' \in [Workers -> Jobs \union {NoJob}]
<1>1. /\ StoreOK /\ maker \in [Makers -> Maker] /\ w \in Makers
      /\ current \in [Workers -> Jobs \union {NoJob}]
  BY WorkersAssumption DEF AsyncIInv, StoreOK, StoreTypeOK, JobsOK, WorkersAssumption
<1>2. IdleMaker \in Maker /\ IdleMaker.pc = "idle"
  BY StoreAssumption DEF IdleMaker, Maker, Phases, Results, StoreAssumption
<1>3. /\ maker' \in [Makers -> Maker] /\ maker'[w].pc = "idle"
      /\ \A v \in Makers : v # w => maker'[v] = maker[v]
  BY <1>1, <1>2
<1>4. StoreOK'
  BY <1>1, <1>3, MakerLeaves DEF Holding, Unpublished, CleaningUp
<1>5. QED
  BY <1>1, <1>3, <1>4, WorkersAssumption DEF WorkersAssumption

\* Only the owner settles its job, and then leaves no row behind unless the job has
\* used up its attempts.
LEMMA SettleOK ==
    ASSUME StoreAssumption, WorkersAssumption, AsyncIInv, NEW w \in Workers, Settle(w)
    PROVE  AsyncIInv'
<1> DEFINE j == current[w]
<1>1. /\ JobsOK /\ WorkerOK(w) /\ maker[w].pc = "done" /\ j \in Jobs
      /\ UNCHANGED <<row, object, blobs, invalidation, payload, late>>
  BY DEF AsyncIInv, Settle, WorkerOK
<1>2. /\ StoreOK' /\ maker'[w].pc = "idle"
      /\ \A v \in Workers : v # w => maker'[v] = maker[v] /\ current'[v] = current[v]
      /\ current' \in [Workers -> Jobs \union {NoJob}]
  BY BecomesIdle, StoreAssumption, WorkersAssumption DEF Settle
<1>3. WorkerOK(w)' /\ ~SettlesForGood(w)'
  BY <1>2 DEF WorkerOK, SettlesForGood
<1>4. CASE UNCHANGED ledger
  BY <1>1, <1>2, <1>3, <1>4, WorkerOnly, WorkersAssumption
<1>5. CASE ~UNCHANGED ledger
  <2>1. PICK s \in {"succeeded", "queued", "failed"} :
          /\ Owns(w, j)
          /\ ledger' = [ledger EXCEPT ![j] = Released(@, s)]
          /\ \/ s = "queued"
             \/ maker[w].result # "retry"
             \/ ledger[j].attempts = MaxAttempts[j]
    BY <1>1, <1>5 DEF Settle, Settles, Complete, GiveBack, Reject
  <2>2. /\ Released(ledger[j], s) \in Entry
        /\ Released(ledger[j], s).state = s
        /\ Released(ledger[j], s).attempts = ledger[j].attempts
    BY <1>1 DEF JobsOK, Released, Entry, JobStates, Settled
  <2>3. /\ ledger' \in [Jobs -> Entry]
        /\ ledger'[j].state = s /\ ledger'[j].attempts = ledger[j].attempts
        /\ \A k \in Jobs : k # j => ledger'[k] = ledger[k]
    BY <2>1, <2>2, <1>1 DEF JobsOK
  <2>4. JobsOK'
    BY <2>3, <1>1, <1>2 DEF JobsOK
  <2>5. (\A v \in Workers : WorkerOK(v))'
    <3> TAKE v \in Workers
    <3>1. CASE v = w
      BY <3>1, <1>3
    <3>2. CASE v # w
      BY <3>2, <2>3, <1>1, <1>2 DEF AsyncIInv, WorkerOK
    <3>3. QED
      BY <3>1, <3>2
  <2>6. \A k : LeftBehind(k)' = LeftBehind(k)
    BY <1>1 DEF LeftBehind
  <2>7. (\A v \in Workers : SettlesForGood(v) /\ Owns(v, current[v]) =>
                              late \/ ~LeftBehind(current[v]))'
    <3> SUFFICES ASSUME NEW v \in Workers, SettlesForGood(v)', Owns(v, current[v])'
                 PROVE  (late \/ ~LeftBehind(current[v]))'
      OBVIOUS
    <3>1. v # w
      BY <1>3
    <3>2. SettlesForGood(v) /\ current'[v] = current[v] /\ current[v] \in Jobs
      BY <3>1, <1>2 DEF SettlesForGood, AsyncIInv, WorkerOK
    <3>3. current[v] # j /\ Owns(v, current[v])
      BY <3>2, <2>3 DEF Owns
    <3>4. QED
      BY <3>2, <3>3, <2>6, <1>1 DEF AsyncIInv
  <2>8. (\A k \in Jobs : LeftBehind(k) => late \/ Attended(k))'
    <3> SUFFICES ASSUME NEW k \in Jobs, LeftBehind(k), ~late
                 PROVE  Attended(k)'
      BY <2>6, <1>1
    <3>1. CASE k # j
      BY <3>1, <2>3 DEF AsyncIInv, Attended, Unsettled
    <3>2. CASE k = j
      <4>1. maker[w].result = "retry"
        BY <3>2, <2>1, <1>1 DEF AsyncIInv, SettlesForGood
      <4>2. QED
        BY <4>1, <3>2, <2>1, <2>3 DEF Attended, Unsettled
    <3>3. QED
      BY <3>1, <3>2
  <2>9. QED
    BY <2>4, <2>5, <2>7, <2>8, <1>1, <1>2 DEF AsyncIInv
<1>6. QED
  BY <1>4, <1>5

LEMMA CrashOK ==
    ASSUME StoreAssumption, WorkersAssumption, AsyncIInv, NEW w \in Workers, Crash(w)
    PROVE  AsyncIInv'
<1>1. /\ StoreOK' /\ maker'[w].pc = "idle"
      /\ \A v \in Workers : v # w => maker'[v] = maker[v] /\ current'[v] = current[v]
      /\ current' \in [Workers -> Jobs \union {NoJob}]
      /\ UNCHANGED <<ledger, payload, row, late>>
  BY BecomesIdle, StoreAssumption, WorkersAssumption DEF Crash
<1>2. WorkerOK(w)' /\ ~SettlesForGood(w)'
  BY <1>1 DEF WorkerOK, SettlesForGood
<1>3. QED
  BY <1>1, <1>2, WorkerOnly, WorkersAssumption

\* What may happen to the store without the workers.
LEMMA EnvironmentOK ==
    ASSUME StoreAssumption, AsyncIInv, Environment, UNCHANGED <<ledger, payload, current, late>>
    PROVE  AsyncIInv'
<1>1. StoreOK
  BY DEF AsyncIInv
<1>2. CASE LeaseRunsOut
  <2>1. StoreOK' /\ row'.state = "generating" /\ ~row'.live
    BY <1>1, <1>2, LeaseRunsOutOK, StoreAssumption
  <2>2. row'.owner = row.owner /\ row.state = "generating" /\ maker' = maker
    BY <1>1, <1>2 DEF LeaseRunsOut, StoreOK, StoreTypeOK, Row
  <2>3. QED
    BY <2>1, <2>2, StoreOnly DEF RowKeptOrReleased, AsyncIInv
<1>3. CASE \E a \in Admins : InvalidationStep(a) \/ InvalidationLost(a)
  <2>1. PICK a \in Admins : InvalidationStep(a) \/ InvalidationLost(a)
    BY <1>3
  <2>2. PICK o : AdminStep(a, o)
    BY <2>1, <1>1, InvalidationAdmin, StoreAssumption
  <2>3. StoreOK'
    BY <2>2, <1>1, AdminStepOK, StoreAssumption
  <2>4. QED
    BY <2>2, <2>3, StoreOnly DEF AdminStep, RowKeptOrReleased, AsyncIInv
<1>4. QED
  BY <1>2, <1>3 DEF Environment

\* Every step of the asynchronous service preserves its invariant.
LEMMA AsyncStepOK ==
    ASSUME StoreAssumption, LedgerAssumption, WorkersAssumption, AsyncIInv, [Next]_vars
    PROVE  AsyncIInv'
<1> USE StoreAssumption, LedgerAssumption, WorkersAssumption
<1>1. CASE \E j \in Jobs : Create(j)
  BY <1>1, CreateOK
<1>2. CASE \E a \in Admins : Invalidate(a)
  BY <1>2, InvalidateOK
<1>3. CASE \E w \in Workers : ClaimNext(w)
  BY <1>3, ClaimOK
<1>4. CASE \E w \in Workers : LookupFails(w)
  BY <1>4, LookupFailsOK
<1>5. CASE \E w \in Workers : AcquireOrLeave(w)
  BY <1>5, AcquireOrLeaveOK
<1>6. CASE \E w \in Workers : Generate(w)
  BY <1>6, GenerateOK
<1>7. CASE \E w \in Workers : Settle(w)
  BY <1>7, SettleOK
<1>8. CASE \E w \in Workers : Crash(w)
  BY <1>8, CrashOK
<1>9. CASE Environment /\ UNCHANGED <<ledger, payload, current, late>>
  BY <1>9, EnvironmentOK
<1>10. CASE UNCHANGED vars
  <2>1. StoreOK' /\ UNCHANGED <<ledger, payload, current, late, maker, row>>
    BY <1>10, StoreStutters DEF vars, storeVars, AsyncIInv
  <2>2. QED
    BY <2>1, StoreOnly DEF RowKeptOrReleased, AsyncIInv
<1>11. QED
  BY <1>1, <1>2, <1>3, <1>4, <1>5, <1>6, <1>7, <1>8, <1>9, <1>10 DEF Next

-----------------------------------------------------------------------------
(* What the two services promise.                                          *)

\* The row becomes ready only when its generation publishes it, and a ready row
\* changes only when an invalidation that saw it restores or deletes it.
LEMMA MakerPublishes ==
    ASSUME StoreOK, NEW m \in Makers, NEW pc, OwnStep(m, pc)
    PROVE  Published
<1>1. CASE row' = row
  BY <1>1 DEF Published
<1>2. CASE PublishesRow(m)
  <2>1. maker[m].object \in blobs /\ object[maker[m].object] = "available"
    BY <1>2 DEF StoreOK, MakerOK, PublishesRow
  <2>2. QED
    BY <2>1, <1>2 DEF Published, PublishesRow, HoldsRow
<1>3. CASE GivesUpRow(m)
  BY <1>3 DEF Published, GivesUpRow, HoldsRow
<1>4. QED
  BY <1>1, <1>2, <1>3 DEF OwnStep

LEMMA InvalidationPublishes ==
    ASSUME StoreAssumption, StoreOK, NEW a \in Admins,
           PrepareInvalidation(a) \/ InvalidationStep(a) \/ InvalidationLost(a)
    PROVE  Published
<1>1. row' = row \/ row'.state \in {"absent", "failed"}
  BY InvalidationAdmin, StoreAssumption DEF AdminStep
<1>2. row' # row => /\ invalidation[a].pc \in {"restore", "finish"}
                    /\ invalidation[a].id = row.id
  BY DEF PrepareInvalidation, InvalidationStep, InvalidationLost, DeleteBytes, Restore,
         FinishInvalidation
<1>3. QED
  BY <1>1, <1>2 DEF Published

LEMMA StepPublishes ==
    ASSUME StoreAssumption, WorkersAssumption, AsyncIInv, [Next]_vars
    PROVE  [Published]_storeVars
<1>1. StoreOK /\ row \in Row
  BY DEF AsyncIInv, StoreOK, StoreTypeOK
<1>2. CASE row' = row
  BY <1>2 DEF Published
<1>3. CASE \E j \in Jobs : Create(j)
  <2>1. row.state # "ready" /\ row'.state = "queued"
    BY <1>3, <1>1 DEF Create, NextRow, NoRow, Row
  <2>2. QED
    BY <2>1 DEF Published
<1>4. CASE \E w \in Workers : AcquireOrLeave(w)
  <2>1. PICK w \in Workers : AcquireOrLeave(w)
    BY <1>4
  <2>2. CASE Acquire(w, current[w], maker[w].id)
    <3>1. current[w] \in Owners
      BY <2>1, WorkersAssumption DEF AsyncIInv, WorkerOK, AcquireOrLeave, WorkersAssumption
    <3>2. row' = AcquiredRow(current[w]) /\ Acquirable(current[w]) /\ RowBound
      BY <2>2 DEF Acquire
    <3>3. row'.state = "generating" /\ row.state # "ready"
      BY <3>1, <3>2, <1>1, AcquiredRowType, StoreAssumption DEF Acquirable
    <3>4. QED
      BY <3>3 DEF Published
  <2>3. CASE row' = row
    BY <2>3, <1>2
  <2>4. QED
    BY <2>1, <2>2, <2>3 DEF AcquireOrLeave
<1>5. CASE \E w \in Workers : Generate(w)
  <2>1. PICK w \in Workers : Generate(w)
    BY <1>5
  <2>2. w \in Makers
    BY WorkersAssumption DEF WorkersAssumption
  <2>3. CASE MakerStep(w)
    <3>1. PICK pc : OwnStep(w, pc)
      BY <2>2, <2>3, <1>1, MakerStepOwn
    <3>2. QED
      BY <3>1, <2>2, <1>1, MakerPublishes
  <2>4. CASE row' = row
    BY <2>4, <1>2
  <2>5. QED
    BY <2>1, <2>3, <2>4 DEF Generate, Progress, Transform, Report
<1>6. CASE Environment
  <2>1. CASE LeaseRunsOut
    BY <2>1, <1>1 DEF LeaseRunsOut, Published, Row
  <2>2. CASE \E a \in Admins : InvalidationStep(a) \/ InvalidationLost(a)
    BY <2>2, <1>1, InvalidationPublishes, StoreAssumption
  <2>3. QED
    BY <2>1, <2>2, <1>6 DEF Environment
<1>7. CASE \/ \E a \in Admins : Invalidate(a)
           \/ \E w \in Workers : ClaimNext(w) \/ LookupFails(w) \/ Settle(w) \/ Crash(w)
           \/ UNCHANGED vars
  <2>1. row' = row
    BY <1>7
       DEF Invalidate, PrepareInvalidation, ClaimNext, LookupFails, Settle, Crash, vars, storeVars
  <2>2. QED
    BY <2>1, <1>2
<1>8. QED
  BY <1>3, <1>4, <1>5, <1>6, <1>7 DEF Next

\* No bytes are in the store without a row that says so, whichever step of a
\* generation or an invalidation fails (discard, invalidate), and for any number of
\* workers and jobs.
THEOREM BytesAreListed == Spec => []BytesStayListed
<1>1. Init => AsyncIInv
  BY AsyncInitOK, StoreAssumption, LedgerAssumption, WorkersAssumption
<1>2. AsyncIInv /\ [Next]_vars => AsyncIInv'
  BY AsyncStepOK, StoreAssumption, LedgerAssumption, WorkersAssumption
<1>3. AsyncIInv => BytesStayListed
  BY DEF AsyncIInv, StoreOK
<1>4. QED
  BY <1>1, <1>2, <1>3, PTL DEF Spec

\* A derivative is published by the generation that holds its row, with finalized
\* bytes, and no stalled or repeated attempt publishes over it
\* (SqliteDerivativeRepository.complete and fail).
THEOREM PublishedByItsHolder == Spec => PublishedOnce
<1>1. Init => AsyncIInv
  BY AsyncInitOK, StoreAssumption, LedgerAssumption, WorkersAssumption
<1>2. AsyncIInv /\ [Next]_vars => AsyncIInv'
  BY AsyncStepOK, StoreAssumption, LedgerAssumption, WorkersAssumption
<1>3. AsyncIInv /\ [Next]_vars => [Published]_storeVars
  BY StepPublishes, StoreAssumption, WorkersAssumption
<1>4. QED
  BY <1>1, <1>2, <1>3, PTL DEF Spec, PublishedOnce

\* A row that a job has left generating gets another attempt of that job, unless its
\* last attempt was lost, or the row was acquired by an attempt that had lost the job
\* (MediaDerivativeHandler.handle and JobRunner).
THEOREM RowsAreAttendedTo == Spec => []AbandonedOnlyWhenExhausted
<1>1. Init => AsyncIInv
  BY AsyncInitOK, StoreAssumption, LedgerAssumption, WorkersAssumption
<1>2. AsyncIInv /\ [Next]_vars => AsyncIInv'
  BY AsyncStepOK, StoreAssumption, LedgerAssumption, WorkersAssumption
<1>3. AsyncIInv => AbandonedOnlyWhenExhausted
  BY DEF AsyncIInv, AbandonedOnlyWhenExhausted, LeftBehind, Attended
<1>4. QED
  BY <1>1, <1>2, <1>3, PTL DEF Spec

=============================================================================

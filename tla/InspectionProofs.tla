--------------------------- MODULE InspectionProofs ---------------------------
(***************************************************************************)
(* Inspection judges assets by their bytes, for any jobs and workers.       *)
(***************************************************************************)
EXTENDS Inspection, TLAPS

-----------------------------------------------------------------------------
(* Types.                                                                   *)

LEMMA EntryTypes ==
    ASSUME NEW entry \in Entry
    PROVE  /\ \A s \in {"queued"} \union Settled : Released(entry, s) \in Entry
           /\ \A w \in Workers : [state |-> "running", attempts |-> entry.attempts + 1, owner |-> w] \in Entry
           /\ [entry EXCEPT !.state = "queued"] \in Entry
<1>2. entry.attempts \in Nat /\ entry.owner \in Workers \union {NoWorker}
  BY DEF Entry
<1>3. ASSUME NEW s \in {"queued"} \union Settled PROVE Released(entry, s) \in Entry
  <2>1. s \in JobStates
    BY <1>3 DEF JobStates
  <2> QED
    BY <2>1 DEF Released, Entry
<1>4. ASSUME NEW w \in Workers
      PROVE  [state |-> "running", attempts |-> entry.attempts + 1, owner |-> w] \in Entry
  BY <1>2 DEF Entry, JobStates
<1>5. [entry EXCEPT !.state = "queued"] \in Entry
  BY DEF Entry, JobStates
<1> QED
  BY <1>3, <1>4, <1>5

LEMMA LedgerTypes ==
    ASSUME ledger \in [Jobs -> Entry], LedgerNext \/ UNCHANGED ledger
    PROVE  ledger' \in [Jobs -> Entry]
<1>1. ASSUME NEW j \in Jobs, Add(j) PROVE ledger' \in [Jobs -> Entry]
  BY <1>1, EntryTypes DEF Add
<1>2. ASSUME NEW S \in SUBSET Jobs, Withdraw(S) PROVE ledger' \in [Jobs -> Entry]
  BY <1>2, EntryTypes DEF Withdraw, Settled
<1>3. ASSUME NEW S \in SUBSET Jobs, Sweep(S) PROVE ledger' \in [Jobs -> Entry]
  BY <1>3, EntryTypes DEF Sweep, Settled
<1>4. ASSUME NEW w \in Workers, NEW S \in SUBSET Jobs, NEW j \in Jobs, Start(w, S, j)
      PROVE  ledger' \in [Jobs -> Entry]
  <2> SUFFICES ASSUME NEW k \in Jobs
               PROVE  (IF k \in S THEN Released(ledger[k], "failed")
                       ELSE IF k = j THEN [state |-> "running", attempts |-> ledger[k].attempts + 1, owner |-> w]
                       ELSE ledger[k]) \in Entry
    BY <1>4 DEF Start
  <2> QED
    BY EntryTypes DEF Settled
<1>5. ASSUME NEW w \in Workers, NEW j \in Jobs, Complete(w, j) \/ Reject(w, j) \/ GiveBack(w, j)
      PROVE  ledger' \in [Jobs -> Entry]
  <2> DEFINE Becomes(s) == ledger' = [ledger EXCEPT ![j] = Released(@, s)]
  <2>1. \E s \in {"queued"} \union Settled : Becomes(s)
    BY <1>5 DEF Complete, Reject, GiveBack, Settled
  <2>2. PICK s \in {"queued"} \union Settled : Becomes(s)
    BY <2>1
  <2>3. Released(ledger[j], s) \in Entry
    BY <2>2, EntryTypes
  <2> QED
    BY <2>2, <2>3
<1> QED
  BY <1>1, <1>2, <1>3, <1>4, <1>5 DEF LedgerNext, Withdrawable, Exhaustible, Startable

-----------------------------------------------------------------------------
(* The inductive invariant.                                                *)

Judged(j) == asset[j] = "ready" \/ (j \notin Images /\ asset[j] = "rejected")

\* What an image was found to be agrees with its bytes.
AssetOK(j) == /\ j \in Images /\ asset[j] = "rejected" => j \notin Sound
              /\ asset[j] = "ready" => j \in Sound

\* What a handler in flight is about to write, and to report.
InspectorOK(w) ==
    /\ inspector[w].at # "idle" =>
         JobOf(w) \in Jobs /\ ledger[JobOf(w)].state # "absent" /\ asset[JobOf(w)] # "absent"
    /\ inspector[w].at = "publishing" => JobOf(w) \in Sound
    /\ inspector[w].at = "rejecting" => inspector[w].result # "ok"
    /\ inspector[w].at = "rejecting" /\ JobOf(w) \in Images => JobOf(w) \notin Sound
    /\ inspector[w].at = "done" /\ inspector[w].result = "ok" => Judged(JobOf(w))

\* An asset exists exactly when its job does.
Inv == /\ TypeOK
       /\ \A j \in Jobs : AssetOK(j) /\ (ledger[j].state # "absent" <=> asset[j] # "absent")
       /\ \A w \in Workers : InspectorOK(w)
       /\ SucceededIsJudged

-----------------------------------------------------------------------------
(* Steps.                                                                  *)

LEMMA CompleteUploadStep ==
    ASSUME Inv, NEW j \in Jobs, CompleteUpload(j)
    PROVE  Inv'
<1>1. ledger' \in [Jobs -> Entry]
  BY LedgerTypes DEF Inv, TypeOK, CompleteUpload, LedgerNext
<1>2. /\ ledger[j].state = "absent"
      /\ ledger' = [ledger EXCEPT ![j].state = "queued"]
      /\ asset' = [asset EXCEPT ![j] = "processing"]
      /\ inspector' = inspector
  BY DEF CompleteUpload, Add
<1>3. TypeOK'
  BY <1>1, <1>2 DEF Inv, TypeOK, AssetStates
<1>4. /\ ledger'[j].state = "queued" /\ asset'[j] = "processing"
      /\ \A k \in Jobs : k # j => ledger'[k] = ledger[k] /\ asset'[k] = asset[k]
  BY <1>2 DEF Inv, TypeOK, Entry
<1>5. ASSUME NEW w \in Workers PROVE InspectorOK(w)'
  BY <1>2, <1>4 DEF Inv, InspectorOK, JobOf, Judged
<1>6. SucceededIsJudged'
  BY <1>4 DEF Inv, SucceededIsJudged
<1>7. ASSUME NEW k \in Jobs PROVE (AssetOK(k) /\ (ledger[k].state # "absent" <=> asset[k] # "absent"))'
  BY <1>4 DEF Inv, AssetOK
<1> QED
  BY <1>3, <1>5, <1>6, <1>7 DEF Inv

\* The ledger moves and assets do not: a job that exists goes on existing, and one
\* that succeeds was settled by a handler that had returned without an error.
LEMMA LedgerMoves ==
    ASSUME Inv, NEW w \in Workers, NEW next \in Inspector,
           inspector' = [inspector EXCEPT ![w] = next], UNCHANGED asset,
           ledger' \in [Jobs -> Entry],
           \A j \in Jobs : ledger'[j].state = "absent" <=> ledger[j].state = "absent",
           \A j \in Jobs : ledger'[j].state = "succeeded" => ledger[j].state = "succeeded" \/ Judged(j),
           InspectorOK(w)'
    PROVE  Inv'
<1>1. TypeOK'
  BY DEF Inv, TypeOK
<1>2. ASSUME NEW q \in Workers PROVE InspectorOK(q)'
  <2>1. CASE q = w
    BY <2>1
  <2>2. CASE q # w
    BY <2>2 DEF Inv, TypeOK, InspectorOK, JobOf, Judged
  <2> QED
    BY <2>1, <2>2
<1>3. SucceededIsJudged'
  BY DEF Inv, SucceededIsJudged, Judged
<1>4. ASSUME NEW k \in Jobs PROVE (AssetOK(k) /\ (ledger[k].state # "absent" <=> asset[k] # "absent"))'
  BY DEF Inv, AssetOK
<1> QED
  BY <1>1, <1>2, <1>3, <1>4 DEF Inv

LEMMA ClaimNextStep ==
    ASSUME Inv, NEW w \in Workers, ClaimNext(w)
    PROVE  Inv'
<1>1. PICK swept \in SUBSET Exhaustible :
        \/ Sweep(swept) /\ UNCHANGED inspector
        \/ \E j \in Startable :
             /\ Start(w, swept, j)
             /\ inspector' = [inspector EXCEPT ![w] = [at |-> "looking", job |-> j, result |-> "none"]]
  BY DEF ClaimNext
<1>2. swept \in SUBSET Jobs /\ \A j \in swept : ledger[j].state # "absent"
  BY DEF Exhaustible
<1>3. UNCHANGED asset
  BY DEF ClaimNext
<1>4. CASE Sweep(swept) /\ UNCHANGED inspector
  <2>1. ledger' \in [Jobs -> Entry]
    BY <1>2, <1>4, LedgerTypes DEF Inv, TypeOK, LedgerNext
  <2>2. ASSUME NEW j \in Jobs
        PROVE  /\ ledger'[j].state = "absent" <=> ledger[j].state = "absent"
               /\ ledger'[j].state = "succeeded" => ledger[j].state = "succeeded"
    BY <1>2, <1>4 DEF Sweep, Released, Inv, TypeOK, Entry
  <2>3. inspector' = [inspector EXCEPT ![w] = inspector[w]] /\ inspector[w] \in Inspector
    BY <1>4 DEF Inv, TypeOK
  <2>4. InspectorOK(w)'
    BY <1>3, <1>4, <2>2 DEF Inv, InspectorOK, JobOf, Judged
  <2> QED
    BY <1>3, <2>1, <2>2, <2>3, <2>4, LedgerMoves
<1>5. ASSUME NEW j \in Startable, Start(w, swept, j),
             inspector' = [inspector EXCEPT ![w] = [at |-> "looking", job |-> j, result |-> "none"]]
      PROVE  Inv'
  <2>1. j \in Jobs /\ ledger[j].state # "absent" /\ asset[j] # "absent"
    BY DEF Startable, Inv
  <2>2. ledger' \in [Jobs -> Entry]
    BY <1>5, LedgerTypes DEF Inv, TypeOK, LedgerNext
  <2>3. ASSUME NEW k \in Jobs
        PROVE  /\ ledger'[k].state = "absent" <=> ledger[k].state = "absent"
               /\ ledger'[k].state = "succeeded" => ledger[k].state = "succeeded"
    BY <1>2, <1>5, <2>1 DEF Start, Released, Inv, TypeOK, Entry
  <2>4. [at |-> "looking", job |-> j, result |-> "none"] \in Inspector
    BY <2>1 DEF Inspector
  <2>5. inspector'[w] = [at |-> "looking", job |-> j, result |-> "none"]
    BY <1>5 DEF Inv, TypeOK
  <2>6. InspectorOK(w)'
    BY <1>3, <2>1, <2>3, <2>5 DEF InspectorOK, JobOf
  <2> QED
    BY <1>3, <1>5, <2>2, <2>3, <2>4, <2>6, LedgerMoves
<1> QED
  BY <1>1, <1>4, <1>5

\* The actions of a handler that write nothing.
LEMMA QuietStep ==
    ASSUME Inv, NEW w \in Workers,
           Look(w) \/ ReadingFails(w) \/ Interrupted(w) \/ Judge(w) \/ WriteFails(w) \/ WorkerDies(w)
    PROVE  Inv'
<1>1. UNCHANGED <<ledger, asset>> /\ ledger \in [Jobs -> Entry]
  BY DEF Inv, TypeOK, Look, ReadingFails, Interrupted, Judge, WriteFails, WorkerDies
<1>2. PICK next : inspector' = [inspector EXCEPT ![w] = next]
  BY DEF Look, ReadingFails, Interrupted, Judge, WriteFails, WorkerDies, Ends, GoTo
<1>3. inspector[w] \in Inspector /\ InspectorOK(w) /\ inspector'[w] = next
  BY <1>2 DEF Inv, TypeOK
<1>4. next \in Inspector /\ InspectorOK(w)'
  <2> USE <1>1, <1>3
  <2>1. CASE Look(w)
    BY <2>1 DEF Look, Ends, GoTo, Inspector, InspectorOK, JobOf, Judged, Inv, TypeOK
  <2>2. CASE ReadingFails(w)
    BY <2>2 DEF ReadingFails, Ends, Inspector, InspectorOK, JobOf, Inv, TypeOK
  <2>3. CASE Interrupted(w)
    BY <2>3 DEF Interrupted, Ends, Inspector, InspectorOK, JobOf, Inv, TypeOK
  <2>4. CASE Judge(w)
    BY <2>4 DEF Judge, Ends, GoTo, Inspector, InspectorOK, JobOf, Inv, TypeOK
  <2>5. CASE WriteFails(w)
    BY <2>5 DEF WriteFails, Ends, Inspector, InspectorOK, JobOf, Inv, TypeOK
  <2>6. CASE WorkerDies(w)
    BY <2>6 DEF WorkerDies, IdleInspector, Inspector, InspectorOK, JobOf, Inv, TypeOK
  <2> QED
    BY <2>1, <2>2, <2>3, <2>4, <2>5, <2>6
<1> QED
  BY <1>1, <1>2, <1>4, LedgerMoves

LEMMA PublishStep ==
    ASSUME Inv, NEW w \in Workers, Publish(w)
    PROVE  Inv'
<1> DEFINE j == JobOf(w)
<1>1. /\ j \in Jobs /\ j \in Sound /\ asset[j] \in AssetStates \ {"absent"}
      /\ j \in Images => asset[j] # "rejected"
      /\ ledger[j].state # "absent"
  BY DEF Publish, Inv, TypeOK, InspectorOK, AssetOK
<1>2. /\ asset' = [asset EXCEPT ![j] = IF asset[j] = "processing" THEN "ready" ELSE asset[j]]
      /\ inspector' = [inspector EXCEPT ![w].at = "done", ![w].result = "ok"]
      /\ ledger' = ledger
  BY DEF Publish, Ends
<1> HIDE DEF j
<1>3. TypeOK'
  <2>1. asset' \in [Jobs -> AssetStates]
    BY <1>1, <1>2 DEF Inv, TypeOK, AssetStates
  <2>2. inspector' \in [Workers -> Inspector]
    BY <1>2 DEF Inv, TypeOK, Inspector
  <2> QED
    BY <1>2, <2>1, <2>2 DEF Inv, TypeOK
<1>4. /\ asset'[j] = "ready" \/ (j \notin Images /\ asset'[j] = "rejected")
      /\ asset[j] # "processing" => asset'[j] = asset[j]
      /\ \A k \in Jobs : k # j => asset'[k] = asset[k]
  BY <1>1, <1>2 DEF Inv, TypeOK, AssetStates
<1>5. ASSUME NEW k \in Jobs
      PROVE  (AssetOK(k) /\ (ledger[k].state # "absent" <=> asset[k] # "absent"))' /\ (Judged(k) => Judged(k)')
  BY <1>1, <1>2, <1>4 DEF Inv, AssetOK, Judged
<1>6. ASSUME NEW q \in Workers PROVE InspectorOK(q)'
  <2>1. CASE q = w
    <3>1. inspector'[w].at = "done" /\ JobOf(w)' = j
      BY <1>2 DEF Inv, TypeOK, Inspector, JobOf, j
    <3> QED
      BY <1>1, <1>2, <1>4, <1>5, <2>1, <3>1 DEF InspectorOK, Judged
  <2>2. CASE q # w
    <3>1. inspector'[q] = inspector[q] /\ InspectorOK(q)
      BY <1>2, <2>2 DEF Inv, TypeOK
    <3> QED
      BY <1>2, <1>5, <3>1 DEF InspectorOK, JobOf
  <2> QED
    BY <2>1, <2>2
<1>7. SucceededIsJudged'
  BY <1>2, <1>5 DEF Inv, SucceededIsJudged, Judged
<1> QED
  BY <1>3, <1>5, <1>6, <1>7 DEF Inv


LEMMA RejectAssetStep ==
    ASSUME Inv, NEW w \in Workers, RejectAsset(w)
    PROVE  Inv'
<1> DEFINE j == JobOf(w)
<1>1. j \in Jobs /\ (j \in Images => j \notin Sound) /\ ledger[j].state # "absent"
  BY DEF RejectAsset, Inv, InspectorOK
<1>2. /\ asset' = [asset EXCEPT ![j] = "rejected"]
      /\ inspector' = [inspector EXCEPT ![w].at = "done"]
      /\ ledger' = ledger
      /\ inspector[w].result # "ok"
  BY DEF RejectAsset, Ends, Inv, TypeOK, Inspector, InspectorOK
<1> HIDE DEF j
<1>3. TypeOK'
  BY <1>1, <1>2 DEF Inv, TypeOK, AssetStates, Inspector
<1>4. asset'[j] = "rejected" /\ \A k \in Jobs : k # j => asset'[k] = asset[k]
  BY <1>1, <1>2 DEF Inv, TypeOK
<1>5. ASSUME NEW k \in Jobs
      PROVE  (AssetOK(k) /\ (ledger[k].state # "absent" <=> asset[k] # "absent"))' /\ (Judged(k) => Judged(k)')
  BY <1>1, <1>2, <1>4 DEF Inv, AssetOK, Judged
<1>6. ASSUME NEW q \in Workers PROVE InspectorOK(q)'
  <2>1. CASE q = w
    <3>1. inspector'[w].at = "done" /\ inspector'[w].result # "ok" /\ JobOf(w)' = j
      BY <1>2 DEF Inv, TypeOK, Inspector, JobOf, j
    <3> QED
      BY <1>1, <1>2, <1>5, <2>1, <3>1 DEF InspectorOK
  <2>2. CASE q # w
    <3>1. inspector'[q] = inspector[q] /\ InspectorOK(q)
      BY <1>2, <2>2 DEF Inv, TypeOK
    <3> QED
      BY <1>2, <1>5, <3>1 DEF InspectorOK, JobOf
  <2> QED
    BY <2>1, <2>2
<1>7. SucceededIsJudged'
  BY <1>2, <1>5 DEF Inv, SucceededIsJudged, Judged
<1> QED
  BY <1>3, <1>5, <1>6, <1>7 DEF Inv

LEMMA SettleStep ==
    ASSUME Inv, NEW w \in Workers, Settle(w)
    PROVE  Inv'
<1> DEFINE j == JobOf(w)
<1>1. /\ j \in Jobs /\ ledger[j].state # "absent"
      /\ inspector[w].result = "ok" => Judged(j)
  BY DEF Settle, Inv, InspectorOK
<1>2. /\ inspector' = [inspector EXCEPT ![w] = IdleInspector]
      /\ UNCHANGED asset
      /\ \/ UNCHANGED ledger
         \/ inspector[w].result = "ok" /\ Complete(w, j)
         \/ GiveBack(w, j)
         \/ Reject(w, j)
  BY DEF Settle, Settles
<1> HIDE DEF j
<1>3. ledger' \in [Jobs -> Entry]
  BY <1>1, <1>2, LedgerTypes DEF Inv, TypeOK, LedgerNext
<1>4. ASSUME NEW k \in Jobs
      PROVE  /\ ledger'[k].state = "absent" <=> ledger[k].state = "absent"
             /\ ledger'[k].state = "succeeded" => ledger[k].state = "succeeded" \/ Judged(k)
  <2> USE <1>1 DEF Inv, TypeOK, Entry, Released, Owns
  <2>1. CASE UNCHANGED ledger
    BY <2>1
  <2>2. CASE inspector[w].result = "ok" /\ Complete(w, j)
    BY <2>2 DEF Complete
  <2>3. CASE GiveBack(w, j)
    BY <2>3 DEF GiveBack
  <2>4. CASE Reject(w, j)
    BY <2>4 DEF Reject
  <2> QED
    BY <1>2, <2>1, <2>2, <2>3, <2>4
<1>5. IdleInspector \in Inspector /\ inspector'[w] = IdleInspector
  BY <1>2 DEF IdleInspector, Inspector, Inv, TypeOK
<1>6. InspectorOK(w)'
  BY <1>5 DEF InspectorOK, IdleInspector
<1> QED
  BY <1>2, <1>3, <1>4, <1>5, <1>6, LedgerMoves

LEMMA Inductive == Inv /\ [Next]_vars => Inv'
<1> SUFFICES ASSUME Inv, [Next]_vars PROVE Inv'
  OBVIOUS
<1>1. CASE UNCHANGED vars
  BY <1>1 DEF vars, Inv, TypeOK, AssetOK, InspectorOK, JobOf, Judged, SucceededIsJudged
<1>2. ASSUME NEW j \in Jobs, CompleteUpload(j) PROVE Inv'
  BY <1>2, CompleteUploadStep
<1>3. ASSUME NEW w \in Workers, ClaimNext(w) PROVE Inv'
  BY <1>3, ClaimNextStep
<1>4. ASSUME NEW w \in Workers, Publish(w) PROVE Inv'
  BY <1>4, PublishStep
<1>5. ASSUME NEW w \in Workers, RejectAsset(w) PROVE Inv'
  BY <1>5, RejectAssetStep
<1>6. ASSUME NEW w \in Workers, Settle(w) PROVE Inv'
  BY <1>6, SettleStep
<1> QED
  BY <1>1, <1>2, <1>3, <1>4, <1>5, <1>6, QuietStep DEF Next

LEMMA Initially == Init => Inv
BY LedgerAssumption DEF Init, LedgerInit, Inv, TypeOK, Entry, JobStates, AssetStates, Inspector, IdleInspector,
   AssetOK, InspectorOK, SucceededIsJudged

LEMMA Invariance == Spec => []Inv
BY Initially, Inductive, PTL DEF Spec

-----------------------------------------------------------------------------
(* Theorems.                                                               *)

\* Rows and handlers of an inspection keep their types.
THEOREM InspectionTypes == Spec => []TypeOK
<1>1. Inv => TypeOK
  BY DEF Inv
<1> QED
  BY <1>1, Invariance, PTL

\* Images are rejected for their bytes only (media/image-inspection-handler.ts),
\* however many workers are at them and whatever interrupts them.
THEOREM ImagesJudgedByBytes == Spec => []ImagesAreJudged
<1>1. Inv => ImagesAreJudged
  BY InspectionAssumption DEF Inv, AssetOK, ImagesAreJudged
<1> QED
  BY <1>1, Invariance, PTL

\* A job that succeeded has left its asset judged, and it stays so.
THEOREM SuccessJudges == Spec => []SucceededIsJudged
<1>1. Inv => SucceededIsJudged
  BY DEF Inv
<1> QED
  BY <1>1, Invariance, PTL

\* No worker brings a rejected asset back (the guards of both publications).
THEOREM RejectionIsFinal == Spec => RejectedIsFinal
<1> DEFINE Final == \A j \in Jobs : asset[j] = "rejected" => asset'[j] = "rejected"
<1>1. Inv /\ [Next]_vars => [Final]_vars
  <2> SUFFICES ASSUME Inv, Next, NEW k \in Jobs, asset[k] = "rejected" PROVE asset'[k] = "rejected"
    BY DEF vars
  <2>1. ASSUME NEW j \in Jobs, CompleteUpload(j) PROVE asset'[k] = "rejected"
    <3>1. asset[j] = "absent"
      BY <2>1 DEF CompleteUpload, Add, Inv
    <3> QED
      BY <2>1, <3>1 DEF CompleteUpload
  <2>2. ASSUME NEW w \in Workers, Publish(w) \/ RejectAsset(w) PROVE asset'[k] = "rejected"
    BY <2>2 DEF Publish, RejectAsset, Inv, TypeOK
  <2>3. ASSUME NEW w \in Workers,
               \/ ClaimNext(w) \/ Look(w) \/ ReadingFails(w) \/ Interrupted(w) \/ Judge(w)
               \/ WriteFails(w) \/ Settle(w) \/ WorkerDies(w)
        PROVE  asset'[k] = "rejected"
    BY <2>3 DEF ClaimNext, Look, ReadingFails, Interrupted, Judge, WriteFails, Settle, WorkerDies
  <2> QED
    BY <2>1, <2>2, <2>3 DEF Next
<1>2. RejectedIsFinal <=> [][Final]_vars
  BY DEF RejectedIsFinal
<1> QED
  BY <1>1, <1>2, Invariance, PTL DEF Spec

=============================================================================

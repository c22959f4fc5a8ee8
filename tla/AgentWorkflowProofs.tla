------------------------ MODULE AgentWorkflowProofs ------------------------
(***************************************************************************)
(* Theorems about the agent workflow, for any requests, runs, assets and   *)
(* workers: it implements the approval token, a change was reviewed, and   *)
(* no run is left executing with nobody to finish it.                      *)
(***************************************************************************)
EXTENDS AgentWorkflow, TLAPS

Given == {"pending", "approved", "rejected", "expired"}

\* A row of the run, its plan, its approval and its execution.
RunOK(row) ==
    /\ row \in RunRow
    /\ row.effects = IF row.state = "succeeded" THEN 1 ELSE 0
    /\ row.effects = 0 => row.applied = 0
    /\ row.state \in {"absent", "planning"} => row.approval = "absent"
    /\ row.state = "awaiting_approval" => row.approval \in Given
    /\ row.state \in {"executing", "succeeded", "failed"} => row.approval = "consumed"
    /\ row.approval = "pending" => row.state = "awaiting_approval"
    /\ (row.execution # "absent") <=> (row.approval = "consumed")
    /\ (row.plan \in Calls) <=> (row.approval # "absent")
    /\ row.execution = "succeeded" => row.state = "succeeded"
    /\ row.execution = "cancelled" => row.state = "cancelled"

\* The job of a run: there is one once the approval is spent, none that can be
\* claimed once the execution is cancelled, and one that can be claimed, or whose
\* attempts are used up, while the run executes.
JobOK(k, entry, row) ==
    /\ entry \in Entry
    /\ entry.attempts <= MaxAttempts[k]
    /\ (entry.state = "absent") <=> (row.approval # "consumed")
    /\ row.execution = "cancelled" => entry.state \notin {"queued", "running"}
    /\ row.state = "executing" => \/ entry.state \in {"queued", "running"}
                                  \/ entry.attempts = MaxAttempts[k]

\* A worker and the rows it works on: it was given its job after the approval was
\* spent, and what it will settle for good is a run that no longer executes.
WorkerOK(wk, rows) ==
    /\ wk \in Worker
    /\ wk.at # "idle" =>
         /\ wk.job \in Runs
         /\ rows[wk.job].approval = "consumed"
         /\ wk.now >= rows[wk.job].snapshot.stamp
    /\ wk.at = "done" /\ wk.result # "retry" => rows[wk.job].state # "executing"
    /\ wk.at \in {"recording", "writing", "failing"} => wk.result \in {"retry", "reject"}

\* The timestamps of an asset never go back, and none is in the future.
LogOK(log, now) ==
    /\ log \in Seq(0..MaxClock)
    /\ Len(log) <= MaxWrites
    /\ \A i, j \in 1..Len(log) : i <= j => log[i] <= log[j]
    /\ \A i \in 1..Len(log) : log[i] <= now

\* A snapshot is the target as it was after some write.
Faithful(s, log) ==
    /\ s.writes <= Len(log)
    /\ s.stamp = IF s.writes = 0 THEN 0 ELSE log[s.writes]

ReviewOK(row, log) ==
    /\ Faithful(row.snapshot, log)
    /\ row.applied <= Len(log)
    /\ row.effects > 0 => \A i \in (row.snapshot.writes + 1)..(row.applied - 1) :
                             log[i] = row.snapshot.stamp

ClockOK == clock \in 0..MaxClock
AssetsOK == /\ asset \in [Assets -> Seq(0..MaxClock)]
            /\ \A a \in Assets : LogOK(asset[a], clock)
PlannersOK == /\ planner \in [Calls -> Planner]
              /\ \A c \in Calls : Faithful(planner[c].snapshot, asset[Target[c]])
RunsOK == run \in [Runs -> RunRow] /\ \A k \in Runs : RunOK(run[k])
JobsOK == ledger \in [Jobs -> Entry] /\ \A k \in Jobs : JobOK(k, ledger[k], run[k])
WorkersOK == worker \in [Workers -> Worker] /\ \A w \in Workers : WorkerOK(worker[w], run)
ReviewsOK == \A k \in Runs : run[k].plan \in Calls => ReviewOK(run[k], asset[Target[run[k].plan]])

Inv == /\ ClockOK
       /\ AssetsOK
       /\ PlannersOK
       /\ RunsOK
       /\ JobsOK
       /\ WorkersOK
       /\ ReviewsOK

-----------------------------------------------------------------------------
(* What a step may do to the parts it is not about.                        *)

\* A row that keeps what its job's workers and its review rest on.
Later(old, new) ==
    /\ old.approval = "consumed" => /\ new.approval = "consumed"
                                    /\ new.snapshot = old.snapshot
    /\ old.approval = "consumed" /\ old.state # "executing" => new.state # "executing"

SameReview(old, new) ==
    /\ new.plan = old.plan
    /\ new.snapshot = old.snapshot
    /\ new.applied = old.applied
    /\ new.effects = old.effects

LEMMA WorkersStay ==
    ASSUME WorkersOK, \A k \in Runs : Later(run[k], run'[k]), UNCHANGED worker
    PROVE  WorkersOK'
<1>1. ASSUME NEW w \in Workers PROVE WorkerOK(worker[w], run')
  <2>1. WorkerOK(worker[w], run)
    BY DEF WorkersOK
  <2>2. worker[w].job \in Runs => Later(run[worker[w].job], run'[worker[w].job])
    OBVIOUS
  <2> QED
    BY <2>1, <2>2 DEF WorkerOK, Later
<1> QED
  BY <1>1 DEF WorkersOK

LEMMA ReviewsStay ==
    ASSUME ReviewsOK, \A k \in Runs : SameReview(run[k], run'[k]), UNCHANGED asset
    PROVE  ReviewsOK'
BY DEF ReviewsOK, ReviewOK, SameReview

\* A step that rewrites one row.
LEMMA OneRow ==
    ASSUME RunsOK, NEW k \in Runs, NEW row, RunOK(row), run' = [run EXCEPT ![k] = row],
           Later(run[k], row)
    PROVE  /\ RunsOK'
           /\ \A x \in Runs : Later(run[x], run'[x])
           /\ run'[k] = row
           /\ \A x \in Runs \ {k} : run'[x] = run[x]
BY DEF RunsOK, RunOK, Later

LEMMA OneReview ==
    ASSUME NEW k \in Runs, RunsOK, run'[k].plan = run[k].plan,
           SameReview(run[k], run'[k]), \A x \in Runs \ {k} : run'[x] = run[x]
    PROVE  \A x \in Runs : SameReview(run[x], run'[x])
BY DEF SameReview

\* A step that rewrites one row and one job, or none.
LEMMA OneJob ==
    ASSUME JobsOK, NEW k \in Runs, NEW entry, JobOK(k, entry, run'[k]),
           ledger' = [ledger EXCEPT ![k] = entry],
           \A x \in Runs \ {k} : run'[x] = run[x]
    PROVE  JobsOK'
<1>1. entry \in Entry
  BY DEF JobOK
<1>2. ASSUME NEW x \in Jobs PROVE JobOK(x, ledger'[x], run'[x])
  <2>1. CASE x = k
    BY <2>1 DEF JobsOK
  <2>2. CASE x # k
    <3>1. ledger'[x] = ledger[x] /\ run'[x] = run[x]
      BY <2>2 DEF JobsOK, Runs
    <3> QED
      BY <3>1 DEF JobsOK
  <2> QED
    BY <2>1, <2>2
<1> QED
  BY <1>1, <1>2 DEF JobsOK

LEMMA JobsStay ==
    ASSUME JobsOK, NEW k \in Runs, JobOK(k, ledger[k], run'[k]), UNCHANGED ledger,
           \A x \in Runs \ {k} : run'[x] = run[x]
    PROVE  JobsOK'
BY DEF JobsOK, Runs

\* A step of one worker alone.
LEMMA OneWorker ==
    ASSUME WorkersOK, NEW w \in Workers, NEW wk, WorkerOK(wk, run'),
           worker' = [worker EXCEPT ![w] = wk],
           \A k \in Runs : Later(run[k], run'[k])
    PROVE  WorkersOK'
<1>1. wk \in Worker
  BY DEF WorkerOK
<1>2. ASSUME NEW x \in Workers PROVE WorkerOK(worker'[x], run')
  <2>1. CASE x = w
    BY <2>1 DEF WorkersOK
  <2>2. CASE x # w
    <3>1. worker'[x] = worker[x] /\ WorkerOK(worker[x], run)
      BY <2>2 DEF WorkersOK
    <3>2. worker[x].job \in Runs => Later(run[worker[x].job], run'[worker[x].job])
      OBVIOUS
    <3> QED
      BY <3>1, <3>2 DEF WorkerOK, Later
  <2> QED
    BY <2>1, <2>2
<1> QED
  BY <1>1, <1>2 DEF WorkersOK

LEMMA SameRows ==
    ASSUME UNCHANGED run
    PROVE  \A k \in Runs : Later(run[k], run'[k]) /\ SameReview(run[k], run'[k])
BY DEF Later, SameReview

-----------------------------------------------------------------------------
(* The initial state and the planner.                                      *)

LEMMA InitInv == Init => Inv
<1> SUFFICES ASSUME Init PROVE Inv
  OBVIOUS
<1> USE WorkflowAssumption, LedgerAssumption
<1>1. ClockOK /\ NoSnapshot \in Snapshot /\ 0 \in 0..MaxClock /\ 0 \in 0..MaxWrites
  BY DEF Init, ClockOK, Snapshot, NoSnapshot
<1>2. AssetsOK
  BY DEF Init, AssetsOK, LogOK
<1>3. PlannersOK
  <2>1. IdlePlanner \in Planner
    BY <1>1 DEF IdlePlanner, Planner
  <2>2. ASSUME NEW c \in Calls PROVE Faithful(planner[c].snapshot, asset[Target[c]])
    BY DEF Init, IdlePlanner, NoSnapshot, Faithful
  <2> QED
    BY <2>1, <2>2 DEF Init, PlannersOK
<1>4. RunsOK
  <2>1. AbsentRun \in RunRow
    BY <1>1 DEF AbsentRun, RunRow, RunStates, ApprovalStates, ExecutionStates, Ended
  <2>2. RunOK(AbsentRun)
    BY <2>1 DEF RunOK, AbsentRun, Given
  <2> QED
    BY <2>1, <2>2 DEF Init, RunsOK
<1>5. JobsOK
  <2>1. [state |-> "absent", attempts |-> 0, owner |-> NoWorker] \in Entry
    BY DEF Entry, JobStates, Settled
  <2> QED
    BY <2>1 DEF Init, LedgerInit, JobsOK, JobOK, Runs, AbsentRun
<1>6. WorkersOK
  <2>1. IdleWorker \in Worker
    BY <1>1 DEF IdleWorker, Worker
  <2> QED
    BY <2>1 DEF Init, WorkersOK, WorkerOK, IdleWorker
<1>7. ReviewsOK
  BY DEF Init, ReviewsOK, AbsentRun
<1> QED
  BY <1>1, <1>2, <1>3, <1>4, <1>5, <1>6, <1>7 DEF Inv

LEMMA OnePlanner ==
    ASSUME PlannersOK, NEW c \in Calls, NEW p \in Planner,
           Faithful(p.snapshot, asset[Target[c]]),
           planner' = [planner EXCEPT ![c] = p], UNCHANGED asset
    PROVE  PlannersOK'
BY DEF PlannersOK

LEMMA IdlePlannerOK ==
    ASSUME AssetsOK, NEW c \in Calls
    PROVE  IdlePlanner \in Planner /\ Faithful(IdlePlanner.snapshot, asset[Target[c]])
BY WorkflowAssumption DEF IdlePlanner, Planner, NoSnapshot, Snapshot, Faithful, AssetsOK, LogOK

LEMMA ElementType ==
    ASSUME NEW S, NEW s \in Seq(S), NEW i \in 1..Len(s)
    PROVE  s[i] \in S
OBVIOUS

\* What the planner reads is a snapshot that is faithful to the asset.
LEMMA SnapshotIsFaithful ==
    ASSUME AssetsOK, NEW a \in Assets
    PROVE  /\ SnapshotOf(a) \in Snapshot
           /\ Faithful(SnapshotOf(a), asset[a])
<1>0. /\ asset[a] \in Seq(0..MaxClock)
      /\ Len(asset[a]) \in Nat
      /\ Len(asset[a]) <= MaxWrites
  BY DEF AssetsOK, LogOK
<1>1. CASE asset[a] = <<>>
  BY <1>1, WorkflowAssumption DEF SnapshotOf, UpdatedAt, Snapshot, Faithful
<1>2. CASE asset[a] # <<>>
  <2>1. Len(asset[a]) \in 1..Len(asset[a])
    BY <1>0, <1>2
  <2>2. UpdatedAt(a) = asset[a][Len(asset[a])]
    BY <1>2, Zenon DEF UpdatedAt
  <2>3. asset[a][Len(asset[a])] \in 0..MaxClock
    BY <1>0, <2>1, ElementType
  <2> QED
    BY <1>0, <2>1, <2>2, <2>3, WorkflowAssumption DEF SnapshotOf, Snapshot, Faithful
<1> QED
  BY <1>1, <1>2

LEMMA SameRest ==
    ASSUME Inv, UNCHANGED <<ledger, asset, run, worker, clock>>
    PROVE  ClockOK' /\ AssetsOK' /\ RunsOK' /\ JobsOK' /\ WorkersOK' /\ ReviewsOK'
BY DEF Inv, ClockOK, AssetsOK, RunsOK, JobsOK, WorkersOK, ReviewsOK

LEMMA ReadTargetKeeps ==
    ASSUME Inv, NEW c \in Calls, ReadTarget(c)
    PROVE  Inv'
<1> DEFINE p == [at |-> "creating", snapshot |-> SnapshotOf(Target[c]), now |-> clock]
<1>1. Target[c] \in Assets
  BY WorkflowAssumption
<1>2. p \in Planner /\ p.snapshot = SnapshotOf(Target[c])
  BY <1>1, SnapshotIsFaithful DEF Inv, ClockOK, Planner
<1>3. PlannersOK'
  BY <1>1, <1>2, SnapshotIsFaithful, OnePlanner DEF ReadTarget, Inv
<1> QED
  BY <1>3, SameRest DEF ReadTarget, Inv

LEMMA PlannerDiesKeeps ==
    ASSUME Inv, NEW c \in Calls, PlannerDies(c)
    PROVE  Inv'
<1>1. PlannersOK'
  BY IdlePlannerOK, OnePlanner DEF PlannerDies, Answer, Inv
<1> QED
  BY <1>1, SameRest DEF PlannerDies, Inv

\* What the planner's transactions leave alone.
LEMMA PlannersAct ==
    ASSUME Inv, NEW k \in Runs, NEW row, RunOK(row), run' = [run EXCEPT ![k] = row],
           run[k].approval # "consumed", row.approval # "consumed",
           row.state # "executing", row.execution # "cancelled",
           UNCHANGED <<ledger, clock, asset, worker>>
    PROVE  ClockOK' /\ AssetsOK' /\ RunsOK' /\ JobsOK' /\ WorkersOK'
<1>1. ClockOK' /\ AssetsOK'
  BY DEF Inv, ClockOK, AssetsOK
<1>2. Later(run[k], row)
  BY DEF Later
<1>3. /\ RunsOK'
      /\ \A x \in Runs : Later(run[x], run'[x])
      /\ run'[k] = row
      /\ \A x \in Runs \ {k} : run'[x] = run[x]
  BY <1>2, OneRow DEF Inv
<1>4. JobOK(k, ledger[k], run'[k])
  BY <1>3 DEF Inv, JobsOK, JobOK, Runs
<1>5. JobsOK' /\ WorkersOK'
  BY <1>3, <1>4, JobsStay, WorkersStay DEF Inv
<1> QED
  BY <1>1, <1>3, <1>5

LEMMA KeyIsRun == \A c \in Calls : Key[c] \in Runs /\ Target[c] \in Assets
BY WorkflowAssumption DEF Runs

LEMMA PlannerMoves ==
    ASSUME Inv, NEW c \in Calls, planner' = [planner EXCEPT ![c].at = "freezing"],
           UNCHANGED asset
    PROVE  PlannersOK'
<1> DEFINE p == [planner[c] EXCEPT !.at = "freezing"]
<1>1. p \in Planner /\ p.snapshot = planner[c].snapshot
  BY DEF Inv, PlannersOK, Planner
<1>2. Faithful(p.snapshot, asset[Target[c]])
  BY <1>1 DEF Inv, PlannersOK
<1>3. planner' = [planner EXCEPT ![c] = p]
  BY DEF Inv, PlannersOK
<1> HIDE DEF p
<1> QED
  BY <1>1, <1>2, <1>3, OnePlanner DEF Inv

LEMMA NewRun ==
    LET row == [AbsentRun EXCEPT !.state = "planning"]
    IN  /\ RunOK(row)
        /\ row.plan = NoCall
        /\ row.approval = "absent"
        /\ row.state = "planning"
        /\ row.execution = "absent"
<1> DEFINE row == [AbsentRun EXCEPT !.state = "planning"]
<1>1. 0 \in 0..MaxClock /\ 0 \in 0..MaxWrites /\ NoSnapshot \in Snapshot
  BY WorkflowAssumption DEF Snapshot, NoSnapshot
<1>2. row \in RunRow
  BY <1>1 DEF AbsentRun, RunRow, RunStates, ApprovalStates, ExecutionStates, Ended
<1>3. /\ row.effects = 0 /\ row.applied = 0 /\ row.plan = NoCall /\ row.approval = "absent"
      /\ row.state = "planning" /\ row.execution = "absent"
  BY DEF AbsentRun
<1> QED
  BY <1>2, <1>3, WorkflowAssumption DEF RunOK

LEMMA CreateRunKeeps ==
    ASSUME Inv, NEW c \in Calls, CreateRun(c)
    PROVE  Inv'
<1> DEFINE k == Key[c]
<1>0. k \in Runs
  BY KeyIsRun
<1>1. PlannersOK'
  BY PlannerMoves, IdlePlannerOK, OnePlanner DEF CreateRun, Answer, Inv
<1>2. CASE UNCHANGED run
  BY <1>1, <1>2, SameRest DEF CreateRun, Inv
<1>3. CASE /\ run[k].state = "absent"
           /\ run' = [run EXCEPT ![k] = [AbsentRun EXCEPT !.state = "planning"]]
  <2> DEFINE row == [AbsentRun EXCEPT !.state = "planning"]
  <2>1. RunOK(run[k])
    BY <1>0 DEF Inv, RunsOK
  <2>2. run[k].approval = "absent"
    BY <2>1, <1>3 DEF RunOK
  <2>3. ClockOK' /\ AssetsOK' /\ RunsOK' /\ JobsOK' /\ WorkersOK'
    BY <1>0, <1>3, <2>2, NewRun, PlannersAct DEF CreateRun
  <2>4. ReviewsOK'
    <3>1. run'[k] = row /\ \A x \in Runs \ {k} : run'[x] = run[x]
      BY <1>0, <1>3 DEF Inv, RunsOK
    <3>2. row.plan \notin Calls
      BY NewRun, WorkflowAssumption
    <3> HIDE DEF row
    <3> QED
      BY <3>1, <3>2 DEF Inv, ReviewsOK, CreateRun
  <2> QED
    BY <1>1, <2>3, <2>4 DEF Inv
<1> QED
  BY <1>2, <1>3 DEF CreateRun

LEMMA FreezeKeeps ==
    ASSUME Inv, NEW c \in Calls, Freeze(c)
    PROVE  Inv'
<1> DEFINE k == Key[c]
<1>0. k \in Runs
  BY KeyIsRun
<1>1. PlannersOK'
  BY IdlePlannerOK, OnePlanner DEF Freeze, Answer, Inv
<1>2. CASE UNCHANGED run
  BY <1>1, <1>2, SameRest DEF Freeze, Inv
<1>3. CASE run[k].state = "planning" /\ ~ UNCHANGED run
  <2> DEFINE row == [run[k] EXCEPT !.state = "awaiting_approval", !.plan = c,
                                   !.snapshot = planner[c].snapshot,
                                   !.expires = planner[c].now + TimeToLive,
                                   !.approval = "pending"]
  <2>1. RunOK(run[k]) /\ run \in [Runs -> RunRow] /\ run[k] \in RunRow
    BY <1>0 DEF Inv, RunsOK
  <2>2. run' = [run EXCEPT ![k] = row]
    BY <1>0, <1>3, <2>1 DEF Freeze
  <2>3. planner[c] \in Planner /\ planner[c].now + TimeToLive \in Nat
    BY WorkflowAssumption DEF Inv, PlannersOK, Planner
  <2>4. row \in RunRow
    BY <2>1, <2>3 DEF RunRow, RunStates, ApprovalStates, Planner
  <2>5. /\ row.state = "awaiting_approval" /\ row.plan = c /\ row.approval = "pending"
        /\ row.snapshot = planner[c].snapshot /\ row.execution = run[k].execution
        /\ row.effects = run[k].effects /\ row.applied = run[k].applied
    BY <2>1 DEF RunRow
  <2>6. /\ run[k].approval = "absent" /\ run[k].execution = "absent"
        /\ run[k].effects = 0 /\ run[k].applied = 0
    BY <1>3, <2>1 DEF RunOK
  <2> HIDE DEF row
  <2>7. RunOK(row)
    BY <2>4, <2>5, <2>6 DEF RunOK, Given
  <2>8. ClockOK' /\ AssetsOK' /\ RunsOK' /\ JobsOK' /\ WorkersOK'
    BY <1>0, <2>2, <2>5, <2>6, <2>7, PlannersAct DEF Freeze
  <2>9. ReviewsOK'
    <3>1. run'[k] = row /\ \A x \in Runs \ {k} : run'[x] = run[x]
      BY <1>0, <2>1, <2>2
    <3>2. ReviewOK(row, asset[Target[c]])
      BY <2>5, <2>6 DEF Inv, PlannersOK, ReviewOK
    <3> QED
      BY <2>5, <3>1, <3>2 DEF Inv, ReviewsOK, Freeze
  <2> QED
    BY <1>1, <2>8, <2>9 DEF Inv
<1> QED
  BY <1>2, <1>3 DEF Freeze

-----------------------------------------------------------------------------
(* The API.                                                                *)

\* A step that rewrites one row and its job, without touching the review.
LEMMA OneRunStep ==
    ASSUME Inv, NEW k \in Runs, NEW row, NEW entry,
           RunOK(row), JobOK(k, entry, row), Later(run[k], row), SameReview(run[k], row),
           run' = [run EXCEPT ![k] = row], ledger' = [ledger EXCEPT ![k] = entry],
           UNCHANGED <<clock, asset, planner>>
    PROVE  /\ ClockOK' /\ AssetsOK' /\ PlannersOK' /\ RunsOK' /\ JobsOK' /\ ReviewsOK'
           /\ \A x \in Runs : Later(run[x], run'[x])
           /\ run'[k] = row
<1>1. ClockOK' /\ AssetsOK' /\ PlannersOK'
  BY DEF Inv, ClockOK, AssetsOK, PlannersOK
<1>2. /\ RunsOK'
      /\ \A x \in Runs : Later(run[x], run'[x])
      /\ run'[k] = row
      /\ \A x \in Runs \ {k} : run'[x] = run[x]
  BY OneRow DEF Inv
<1>3. JobsOK'
  BY <1>2, OneJob DEF Inv
<1>4. \A x \in Runs : SameReview(run[x], run'[x])
  BY <1>2 DEF SameReview
<1>5. ReviewsOK'
  BY <1>4, ReviewsStay DEF Inv
<1> QED
  BY <1>1, <1>2, <1>3, <1>5

LEMMA SameJob ==
    ASSUME Inv, NEW k \in Runs, UNCHANGED ledger
    PROVE  ledger' = [ledger EXCEPT ![k] = ledger[k]]
BY DEF Inv, JobsOK, Runs

LEMMA RowsOK ==
    ASSUME Inv, NEW k \in Runs
    PROVE  /\ run \in [Runs -> RunRow] /\ run[k] \in RunRow /\ RunOK(run[k])
           /\ ledger \in [Jobs -> Entry] /\ ledger[k] \in Entry /\ JobOK(k, ledger[k], run[k])
           /\ MaxAttempts[k] \in Nat \ {0}
BY LedgerAssumption DEF Inv, RunsOK, JobsOK, Runs

LEMMA DecideKeeps ==
    ASSUME Inv, NEW k \in Runs, Decide(k)
    PROVE  Inv'
<1>1. PICK decision \in {"approved", "rejected"} : run' = [run EXCEPT ![k].approval = decision]
  BY DEF Decide
<1> DEFINE row == [run[k] EXCEPT !.approval = decision]
<1>2. run[k] \in RunRow /\ RunOK(run[k]) /\ JobOK(k, ledger[k], run[k])
  BY RowsOK
<1>3. row \in RunRow /\ run' = [run EXCEPT ![k] = row]
  BY <1>1, <1>2, RowsOK DEF RunRow, ApprovalStates
<1>4. /\ row.approval = decision /\ row.state = run[k].state /\ row.execution = run[k].execution
      /\ row.effects = run[k].effects /\ row.plan = run[k].plan
      /\ SameReview(run[k], row)
  BY <1>2 DEF RunRow, SameReview
<1>5. run[k].approval = "pending" /\ decision \in {"approved", "rejected"}
  BY DEF Decide
<1> HIDE DEF row
<1>6. RunOK(row)
  BY <1>2, <1>3, <1>4, <1>5 DEF RunOK, Given, SameReview
<1>7. JobOK(k, ledger[k], row) /\ Later(run[k], row)
  BY <1>2, <1>4, <1>5 DEF JobOK, RunOK, Later
<1>8. ledger' = [ledger EXCEPT ![k] = ledger[k]]
  BY SameJob DEF Decide
<1>9. WorkersOK'
  BY <1>3, <1>4, <1>6, <1>7, <1>8, OneRunStep, WorkersStay DEF Decide, Inv
<1> QED
  BY <1>3, <1>4, <1>6, <1>7, <1>8, <1>9, OneRunStep DEF Decide, Inv

LEMMA ConsumeKeeps ==
    ASSUME Inv, NEW k \in Runs, Consume(k)
    PROVE  Inv'
<1> DEFINE row == [run[k] EXCEPT !.approval = "consumed", !.consumed = clock,
                                 !.state = "executing", !.execution = "queued"]
           entry == [ledger[k] EXCEPT !.state = "queued"]
<1>1. /\ run[k] \in RunRow /\ RunOK(run[k]) /\ ledger[k] \in Entry
      /\ JobOK(k, ledger[k], run[k]) /\ clock \in 0..MaxClock
  BY RowsOK DEF Inv, ClockOK
<1>2. row \in RunRow /\ run' = [run EXCEPT ![k] = row]
  BY <1>1, RowsOK DEF Consume, RunRow, ApprovalStates, RunStates, ExecutionStates
<1>3. entry \in Entry /\ ledger' = [ledger EXCEPT ![k] = entry]
  BY <1>1, RowsOK DEF Consume, Add, Entry, JobStates
<1>4. /\ row.approval = "consumed" /\ row.state = "executing" /\ row.execution = "queued"
      /\ row.effects = run[k].effects /\ row.plan = run[k].plan
      /\ SameReview(run[k], row)
  BY <1>1 DEF RunRow, SameReview
<1>5. /\ run[k].approval = "approved" /\ run[k].state = "awaiting_approval"
      /\ entry.state = "queued" /\ entry.attempts = ledger[k].attempts
  BY <1>1 DEF Consume, Entry
<1> HIDE DEF row, entry
<1>6. RunOK(row)
  BY <1>1, <1>2, <1>4, <1>5 DEF RunOK, SameReview
<1>7. JobOK(k, entry, row) /\ Later(run[k], row)
  BY <1>1, <1>3, <1>4, <1>5 DEF JobOK, Later
<1>8. WorkersOK'
  BY <1>2, <1>3, <1>4, <1>6, <1>7, OneRunStep, WorkersStay DEF Consume, Inv
<1> QED
  BY <1>2, <1>3, <1>4, <1>6, <1>7, <1>8, OneRunStep DEF Consume, Inv

LEMMA CancelRunKeeps ==
    ASSUME Inv, NEW k \in Runs, CancelRun(k)
    PROVE  Inv'
<1> DEFINE row == [run[k] EXCEPT !.state = "cancelled",
                                 !.approval = IF @ = "pending" THEN "cancelled" ELSE @,
                                 !.execution = IF Unfinished(k) THEN "cancelled" ELSE @]
           entry == IF Unfinished(k) /\ k \in Withdrawable THEN Released(ledger[k], "cancelled")
                    ELSE ledger[k]
<1>1. /\ run[k] \in RunRow /\ RunOK(run[k]) /\ ledger[k] \in Entry
      /\ JobOK(k, ledger[k], run[k])
  BY RowsOK
<1>2. row \in RunRow
  BY <1>1 DEF RunRow, ApprovalStates, RunStates, ExecutionStates, Ended
<1>3. run' = [run EXCEPT ![k] = row]
  BY <1>1, RowsOK DEF CancelRun
<1>4. /\ row.state = "cancelled" /\ row.effects = run[k].effects
      /\ row.approval = IF run[k].approval = "pending" THEN "cancelled" ELSE run[k].approval
      /\ row.execution = IF Unfinished(k) THEN "cancelled" ELSE run[k].execution
      /\ SameReview(run[k], row)
  BY <1>1 DEF RunRow, SameReview
<1>5. run[k].state \in {"planning", "awaiting_approval", "executing"}
  BY DEF CancelRun
<1>6. /\ entry \in Entry /\ entry.attempts = ledger[k].attempts
      /\ (entry.state = "absent") <=> (ledger[k].state = "absent")
      /\ Unfinished(k) => entry.state \notin {"queued", "running"}
  BY <1>1 DEF Released, Entry, JobStates, Settled, Withdrawable, Runs
<1>7. ledger' = [ledger EXCEPT ![k] = entry]
  BY RowsOK DEF CancelRun, Withdraw, Runs
<1> HIDE DEF row, entry
<1>8. RunOK(row)
  BY <1>1, <1>2, <1>4, <1>5 DEF RunOK, SameReview, Given, Unfinished
<1>9. Later(run[k], row)
  BY <1>4 DEF Later, SameReview
<1>10. JobOK(k, entry, row)
  <2>1. (row.approval = "consumed") <=> (run[k].approval = "consumed")
    BY <1>4
  <2>2. row.execution = "cancelled" => Unfinished(k)
    BY <1>1, <1>4, <1>5 DEF RunOK
  <2> QED
    BY <1>1, <1>4, <1>6, <2>1, <2>2 DEF JobOK
<1>11. WorkersOK'
  BY <1>3, <1>4, <1>7, <1>8, <1>9, <1>10, OneRunStep, WorkersStay DEF CancelRun, Inv
<1> QED
  BY <1>3, <1>4, <1>7, <1>8, <1>9, <1>10, <1>11, OneRunStep DEF CancelRun, Inv

LEMMA ExpirePendingKeeps ==
    ASSUME Inv, ExpirePending
    PROVE  Inv'
<1>1. ASSUME NEW k \in Runs
      PROVE  /\ RunOK(run'[k]) /\ JobOK(k, ledger'[k], run'[k])
             /\ Later(run[k], run'[k]) /\ SameReview(run[k], run'[k])
  <2>1. /\ run[k] \in RunRow /\ RunOK(run[k]) /\ JobOK(k, ledger[k], run[k])
        /\ UNCHANGED ledger
    BY RowsOK DEF ExpirePending
  <2>2. CASE run'[k] = run[k]
    BY <2>1, <2>2 DEF Later, SameReview
  <2>3. CASE run[k].approval = "pending" /\ run'[k] = [run[k] EXCEPT !.approval = "expired"]
    <3> DEFINE row == [run[k] EXCEPT !.approval = "expired"]
    <3>1. row \in RunRow
      BY <2>1 DEF RunRow, ApprovalStates
    <3>2. /\ row.approval = "expired" /\ row.state = run[k].state
          /\ row.execution = run[k].execution
          /\ row.effects = run[k].effects /\ SameReview(run[k], row)
      BY <2>1 DEF RunRow, SameReview
    <3> HIDE DEF row
    <3>3. RunOK(row)
      BY <2>1, <2>3, <3>1, <3>2 DEF RunOK, SameReview, Given
    <3>4. JobOK(k, ledger[k], row) /\ Later(run[k], row)
      BY <2>1, <2>3, <3>2 DEF JobOK, Later
    <3> QED
      BY <2>1, <2>3, <3>2, <3>3, <3>4 DEF row
  <2> QED
    BY <2>2, <2>3 DEF ExpirePending
<1>2. RunsOK'
  BY <1>1 DEF RunsOK, RunOK, ExpirePending
<1>3. JobsOK'
  BY <1>1 DEF JobsOK, ExpirePending, Inv, Runs
<1>4. WorkersOK' /\ ReviewsOK'
  BY <1>1, WorkersStay, ReviewsStay DEF ExpirePending, Inv
<1>5. ClockOK' /\ AssetsOK' /\ PlannersOK'
  BY DEF ExpirePending, Inv, ClockOK, AssetsOK, PlannersOK
<1> QED
  BY <1>2, <1>3, <1>4, <1>5 DEF Inv

-----------------------------------------------------------------------------
(* Writes to the assets.                                                   *)

\* A log that grows by a stamp that is not in the future, nor older than the
\* newest, stays in order, and what was said of a prefix stays true.
LEMMA LogGrows ==
    ASSUME NEW log, NEW now \in 0..MaxClock, NEW stamp \in 0..MaxClock, LogOK(log, now),
           stamp <= now, Len(log) < MaxWrites,
           \A i \in 1..Len(log) : log[i] <= stamp
    PROVE  LogOK(Append(log, stamp), now)
<1> DEFINE new == Append(log, stamp)
<1>1. /\ log \in Seq(0..MaxClock) /\ Len(log) \in Nat /\ MaxWrites \in Nat
      /\ \A i \in 1..Len(log) : log[i] \in 0..MaxClock
  BY WorkflowAssumption DEF LogOK
<1>2. /\ new \in Seq(0..MaxClock)
      /\ Len(new) = Len(log) + 1
      /\ \A i \in 1..Len(log) : new[i] = log[i]
      /\ new[Len(log) + 1] = stamp
  BY <1>1
<1> HIDE DEF new
<1>3. \A i \in 1..Len(new) : (i \in 1..Len(log) /\ new[i] = log[i]) \/ (i = Len(log) + 1 /\ new[i] = stamp)
  BY <1>1, <1>2
<1>4. \A i \in 1..Len(new) : new[i] \in 0..MaxClock /\ new[i] <= stamp /\ new[i] <= now
  BY <1>1, <1>3 DEF LogOK
<1>5. \A i, j \in 1..Len(new) : i <= j => new[i] <= new[j]
  <2> SUFFICES ASSUME NEW i \in 1..Len(new), NEW j \in 1..Len(new), i <= j
               PROVE  new[i] <= new[j]
    OBVIOUS
  <2>1. CASE j = Len(log) + 1
    BY <1>2, <1>4, <2>1
  <2>2. CASE j \in 1..Len(log)
    <3>1. i \in 1..Len(log)
      BY <1>1, <1>2, <2>2
    <3>2. new[i] = log[i] /\ new[j] = log[j]
      BY <1>2, <2>2, <3>1
    <3>3. log[i] <= log[j]
      BY <2>2, <3>1 DEF LogOK
    <3> QED
      BY <3>2, <3>3
  <2> QED
    BY <1>3, <2>1, <2>2
<1> QED
  BY <1>1, <1>2, <1>4, <1>5 DEF LogOK, new

LEMMA PastStays ==
    ASSUME NEW log \in Seq(0..MaxClock), NEW stamp \in 0..MaxClock
    PROVE  /\ \A s \in Snapshot : Faithful(s, log) => Faithful(s, Append(log, stamp))
           /\ \A row \in RunRow : ReviewOK(row, log) => ReviewOK(row, Append(log, stamp))
<1> DEFINE new == Append(log, stamp)
<1>1. /\ Len(log) \in Nat
      /\ Len(new) = Len(log) + 1
      /\ \A i \in 1..Len(log) : new[i] = log[i]
  OBVIOUS
<1> HIDE DEF new
<1>2. \A s \in Snapshot : Faithful(s, log) => Faithful(s, new)
  BY <1>1, WorkflowAssumption DEF Faithful, Snapshot
<1>3. ASSUME NEW row \in RunRow, ReviewOK(row, log) PROVE ReviewOK(row, new)
  <2>1. /\ row.snapshot \in Snapshot /\ row.snapshot.writes \in Nat /\ row.applied \in Nat
        /\ row.applied <= Len(log)
    BY <1>3, WorkflowAssumption DEF RunRow, Snapshot, ReviewOK
  <2>2. Faithful(row.snapshot, new)
    BY <1>2, <1>3, <2>1 DEF ReviewOK
  <2>3. ASSUME row.effects > 0, NEW i \in (row.snapshot.writes + 1)..(row.applied - 1)
        PROVE  new[i] = row.snapshot.stamp
    BY <1>1, <1>3, <2>1, <2>3 DEF ReviewOK
  <2> QED
    BY <1>1, <2>1, <2>2, <2>3 DEF ReviewOK
<1> QED
  BY <1>2, <1>3 DEF new

LEMMA AssetGrows ==
    ASSUME Inv, NEW a \in Assets, NEW stamp \in 0..MaxClock, stamp <= clock,
           Len(asset[a]) < MaxWrites, \A i \in 1..Len(asset[a]) : asset[a][i] <= stamp,
           asset' = [asset EXCEPT ![a] = Append(@, stamp)], UNCHANGED clock
    PROVE  /\ AssetsOK'
           /\ \A x \in Assets, s \in Snapshot : Faithful(s, asset[x]) => Faithful(s, asset'[x])
           /\ \A x \in Assets, row \in RunRow : ReviewOK(row, asset[x]) => ReviewOK(row, asset'[x])
<1>1. /\ asset \in [Assets -> Seq(0..MaxClock)]
      /\ clock \in 0..MaxClock
      /\ \A x \in Assets : LogOK(asset[x], clock)
  BY DEF Inv, AssetsOK, ClockOK
<1>2. asset'[a] = Append(asset[a], stamp) /\ \A x \in Assets \ {a} : asset'[x] = asset[x]
  BY <1>1
<1>3. LogOK(asset'[a], clock)
  BY <1>1, <1>2, LogGrows
<1>4. AssetsOK'
  BY <1>1, <1>2, <1>3 DEF AssetsOK, LogOK
<1>5. /\ \A s \in Snapshot : Faithful(s, asset[a]) => Faithful(s, asset'[a])
      /\ \A row \in RunRow : ReviewOK(row, asset[a]) => ReviewOK(row, asset'[a])
  BY <1>1, <1>2, PastStays
<1>6. ASSUME NEW x \in Assets
      PROVE  /\ \A s \in Snapshot : Faithful(s, asset[x]) => Faithful(s, asset'[x])
             /\ \A row \in RunRow : ReviewOK(row, asset[x]) => ReviewOK(row, asset'[x])
  <2>1. CASE x = a
    BY <1>5, <2>1
  <2>2. CASE x # a
    <3>1. asset'[x] = asset[x]
      BY <1>2, <2>2
    <3> QED
      BY <3>1
  <2> QED
    BY <2>1, <2>2
<1> QED
  BY <1>4, <1>6

LEMMA PlanTarget ==
    ASSUME NEW k \in Runs, run[k].plan \in Calls
    PROVE  Target[run[k].plan] \in Assets
BY WorkflowAssumption

LEMMA UpdateAssetKeeps ==
    ASSUME Inv, NEW a \in Assets, UpdateAsset(a)
    PROVE  Inv'
<1>1. /\ clock \in 0..MaxClock /\ clock <= clock
      /\ \A i \in 1..Len(asset[a]) : asset[a][i] <= clock
      /\ Len(asset[a]) < MaxWrites /\ UNCHANGED clock
      /\ asset' = [asset EXCEPT ![a] = Append(@, clock)]
  BY WorkflowAssumption DEF Inv, ClockOK, AssetsOK, LogOK, UpdateAsset
<1>2. /\ AssetsOK'
      /\ \A x \in Assets, s \in Snapshot : Faithful(s, asset[x]) => Faithful(s, asset'[x])
      /\ \A x \in Assets, row \in RunRow : ReviewOK(row, asset[x]) => ReviewOK(row, asset'[x])
  BY <1>1, AssetGrows, Zenon
<1>3. PlannersOK'
  BY <1>2, KeyIsRun DEF Inv, PlannersOK, Planner, UpdateAsset
<1>4. ReviewsOK'
  BY <1>2, PlanTarget DEF Inv, ReviewsOK, RunsOK, UpdateAsset
<1>5. ClockOK' /\ RunsOK' /\ JobsOK' /\ WorkersOK'
  BY DEF UpdateAsset, Inv, ClockOK, RunsOK, JobsOK, WorkersOK
<1> QED
  BY <1>2, <1>3, <1>4, <1>5 DEF Inv

LEMMA TickKeeps ==
    ASSUME Inv, Tick
    PROVE  Inv'
<1>1. ClockOK'
  BY WorkflowAssumption DEF Tick, Inv, ClockOK
<1>2. AssetsOK'
  <2>1. ASSUME NEW a \in Assets PROVE LogOK(asset[a], clock')
    <3>1. LogOK(asset[a], clock) /\ asset[a] \in Seq(0..MaxClock) /\ clock \in 0..MaxClock
      BY DEF Inv, AssetsOK, ClockOK
    <3>2. \A i \in 1..Len(asset[a]) : asset[a][i] \in 0..MaxClock /\ asset[a][i] <= clock
      BY <3>1, ElementType DEF LogOK
    <3> QED
      BY <3>1, <3>2 DEF LogOK, Tick
  <2> QED
    BY <2>1 DEF Tick, Inv, AssetsOK
<1>3. PlannersOK' /\ RunsOK' /\ JobsOK' /\ WorkersOK' /\ ReviewsOK'
  BY DEF Tick, Inv, PlannersOK, RunsOK, JobsOK, WorkersOK, ReviewsOK
<1> QED
  BY <1>1, <1>2, <1>3 DEF Inv

-----------------------------------------------------------------------------
(* The worker.                                                             *)

\* A step that changes one worker, and no more of the rest than the row and the
\* job that it works on.
LEMMA WorkerStep ==
    ASSUME Inv, NEW w \in Workers, NEW wk, WorkerOK(wk, run'),
           worker' = [worker EXCEPT ![w] = wk],
           UNCHANGED <<ledger, clock, asset, planner, run>>
    PROVE  Inv'
<1>1. WorkersOK'
  BY OneWorker, SameRows DEF Inv
<1> QED
  BY <1>1 DEF Inv, ClockOK, AssetsOK, PlannersOK, RunsOK, JobsOK, ReviewsOK

LEMMA WorkersType ==
    ASSUME Inv, NEW w \in Workers
    PROVE  /\ worker \in [Workers -> Worker] /\ worker[w] \in Worker /\ WorkerOK(worker[w], run)
           /\ worker[w].at # "idle" =>
                LET k == worker[w].job
                IN  /\ k \in Runs /\ run[k] \in RunRow /\ RunOK(run[k]) /\ run[k].approval = "consumed"
                    /\ ledger[k] \in Entry /\ JobOK(k, ledger[k], run[k])
BY RowsOK DEF Inv, WorkersOK, WorkerOK

LEMMA IdleIsOK == \A rows : WorkerOK(IdleWorker, rows)
BY WorkflowAssumption DEF WorkerOK, IdleWorker, Worker

LEMMA WorkerDiesKeeps ==
    ASSUME Inv, NEW w \in Workers, WorkerDies(w)
    PROVE  Inv'
BY IdleIsOK, WorkerStep DEF WorkerDies

\* How a handler moves on from one step to the next.
LEMMA EndsOK ==
    ASSUME Inv, NEW w \in Workers, worker[w].at # "idle", NEW result \in {"ok", "retry", "reject"},
           result # "retry" => run'[worker[w].job].state # "executing",
           Later(run[worker[w].job], run'[worker[w].job]), Ends(w, result)
    PROVE  \E wk : WorkerOK(wk, run') /\ worker' = [worker EXCEPT ![w] = wk]
<1> DEFINE wk == [worker[w] EXCEPT !.at = "done", !.result = result]
<1>1. worker[w] \in Worker /\ WorkerOK(worker[w], run) /\ worker \in [Workers -> Worker]
  BY WorkersType
<1>2. wk \in Worker /\ worker' = [worker EXCEPT ![w] = wk]
  BY <1>1 DEF Worker, Ends
<1>3. wk.at = "done" /\ wk.result = result /\ wk.job = worker[w].job /\ wk.now = worker[w].now
  BY <1>1 DEF Worker
<1> HIDE DEF wk
<1>4. WorkerOK(wk, run')
  BY <1>1, <1>2, <1>3 DEF WorkerOK, Later
<1> QED
  BY <1>2, <1>4

LEMMA MovesOK ==
    ASSUME Inv, NEW w \in Workers, worker[w].at # "idle", NEW at \in {"recording", "writing", "failing"},
           NEW result \in {"retry", "reject"},
           Later(run[worker[w].job], run'[worker[w].job]),
           worker' = [worker EXCEPT ![w].at = at, ![w].result = result]
    PROVE  \E wk : WorkerOK(wk, run') /\ worker' = [worker EXCEPT ![w] = wk]
<1> DEFINE wk == [worker[w] EXCEPT !.at = at, !.result = result]
<1>1. worker[w] \in Worker /\ WorkerOK(worker[w], run) /\ worker \in [Workers -> Worker]
  BY WorkersType
<1>2. wk \in Worker /\ worker' = [worker EXCEPT ![w] = wk]
  BY <1>1 DEF Worker
<1>3. wk.at = at /\ wk.result = result /\ wk.job = worker[w].job /\ wk.now = worker[w].now
  BY <1>1 DEF Worker
<1> HIDE DEF wk
<1>4. WorkerOK(wk, run')
  BY <1>1, <1>2, <1>3 DEF WorkerOK, Later
<1> QED
  BY <1>2, <1>4

\* A worker's step that writes no row.
LEMMA RowsStay ==
    ASSUME UNCHANGED run, NEW k
    PROVE  Later(run[k], run'[k])
BY DEF Later

LEMMA ExecuteNothingKeeps ==
    ASSUME Inv, NEW w \in Workers, ExecuteNothing(w)
    PROVE  Inv'
<1> DEFINE k == worker[w].job
<1>1. /\ worker[w].at # "idle" /\ worker \in [Workers -> Worker]
      /\ RunOK(run[k]) /\ Later(run[k], run'[k])
      /\ UNCHANGED <<ledger, clock, asset, planner, run>>
  BY WorkersType, RowsStay DEF ExecuteNothing
<1>2. CASE run[k].execution = "succeeded" /\ Ends(w, "ok")
  <2>1. run'[k].state # "executing"
    BY <1>1, <1>2 DEF RunOK
  <2> QED
    BY <1>1, <1>2, <2>1, EndsOK, WorkerStep
<1>3. CASE Fails(w, "reject") \/ Fails(w, "retry")
  <2>1. PICK result \in {"retry", "reject"} : Fails(w, result)
    BY <1>3
  <2>2. worker' = [worker EXCEPT ![w].at = "recording", ![w].result = result]
    BY <2>1 DEF Fails
  <2>3. \E wk : WorkerOK(wk, run') /\ worker' = [worker EXCEPT ![w] = wk]
    BY <1>1, <2>2, MovesOK
  <2> QED
    BY <1>1, <2>3, WorkerStep
<1> QED
  BY <1>2, <1>3 DEF ExecuteNothing

\* A worker that records a failure has a result that is one.
LEMMA Recording ==
    ASSUME Inv, NEW w \in Workers, worker[w].at \in {"recording", "writing", "failing"}
    PROVE  /\ worker[w].result \in {"retry", "reject"}
           /\ worker \in [Workers -> Worker] /\ worker[w] \in Worker
           /\ worker[w].job \in Runs
           /\ \A at \in {"recording", "writing", "failing"} :
                [worker EXCEPT ![w].at = at]
                  = [worker EXCEPT ![w].at = at, ![w].result = worker[w].result]
<1>1. /\ worker[w].result \in {"retry", "reject"}
      /\ worker \in [Workers -> Worker] /\ worker[w] \in Worker
      /\ worker[w].job \in Runs
  BY WorkersType DEF WorkerOK
<1>2. ASSUME NEW at \in {"recording", "writing", "failing"}
      PROVE  [worker EXCEPT ![w].at = at]
               = [worker EXCEPT ![w].at = at, ![w].result = worker[w].result]
  <2>1. [worker[w] EXCEPT !.at = at] = [worker[w] EXCEPT !.at = at, !.result = worker[w].result]
    BY <1>1 DEF Worker
  <2> QED
    BY <1>1, <2>1
<1> QED
  BY <1>1, <1>2

LEMMA ReadExecutionKeeps ==
    ASSUME Inv, NEW w \in Workers, ReadExecution(w)
    PROVE  Inv'
<1> DEFINE k == worker[w].job
<1>1. /\ worker[w].at = "recording" /\ RunOK(run[k]) /\ Later(run[k], run'[k])
      /\ worker[w].result \in {"retry", "reject"}
      /\ UNCHANGED <<ledger, clock, asset, planner, run>>
  BY WorkersType, RowsStay, Recording DEF ReadExecution
<1>2. CASE run[k].execution \in {"succeeded", "cancelled"}
  <2>1. run'[k].state # "executing" /\ Ends(w, worker[w].result)
    BY <1>1, <1>2 DEF RunOK, ReadExecution
  <2> QED
    BY <1>1, <2>1, EndsOK, WorkerStep
<1>3. CASE run[k].execution \notin {"succeeded", "cancelled"}
  <2>1. worker' = [worker EXCEPT ![w].at = "writing", ![w].result = worker[w].result]
    BY <1>1, <1>3, Recording DEF ReadExecution
  <2> QED
    BY <1>1, <2>1, MovesOK, WorkerStep
<1> QED
  BY <1>2, <1>3

LEMMA RecordingFailsKeeps ==
    ASSUME Inv, NEW w \in Workers, RecordingFails(w)
    PROVE  Inv'
<1>1. worker[w].at # "idle" /\ Later(run[worker[w].job], run'[worker[w].job])
  BY RowsStay DEF RecordingFails
<1>2. \E wk : WorkerOK(wk, run') /\ worker' = [worker EXCEPT ![w] = wk]
  BY <1>1, EndsOK DEF RecordingFails
<1> QED
  BY <1>2, WorkerStep DEF RecordingFails

\* The rest of a worker's step that rewrites the row of its run.
LEMMA RowStep ==
    ASSUME Inv, NEW w \in Workers, worker[w].at # "idle", NEW row, RunOK(row),
           JobOK(worker[w].job, ledger[worker[w].job], row),
           Later(run[worker[w].job], row), SameReview(run[worker[w].job], row),
           run' = [run EXCEPT ![worker[w].job] = row],
           UNCHANGED <<ledger, clock, asset, planner>>,
           NEW wk, WorkerOK(wk, run'), worker' = [worker EXCEPT ![w] = wk]
    PROVE  Inv'
<1>1. worker[w].job \in Runs
  BY WorkersType
<1>2. ledger' = [ledger EXCEPT ![worker[w].job] = ledger[worker[w].job]]
  BY <1>1, SameJob
<1>3. /\ ClockOK' /\ AssetsOK' /\ PlannersOK' /\ RunsOK' /\ JobsOK' /\ ReviewsOK'
      /\ \A x \in Runs : Later(run[x], run'[x])
  BY <1>1, <1>2, OneRunStep
<1>4. WorkersOK'
  BY <1>3, OneWorker DEF Inv
<1> QED
  BY <1>3, <1>4 DEF Inv

LEMMA WriteExecutionKeeps ==
    ASSUME Inv, NEW w \in Workers, WriteExecution(w)
    PROVE  Inv'
<1> DEFINE k == worker[w].job
           e == IF Terminal(w) THEN "failed" ELSE "queued"
           row == [run[k] EXCEPT !.execution = e]
<1>1. /\ worker[w].at = "writing" /\ k \in Runs /\ run[k] \in RunRow /\ RunOK(run[k])
      /\ run[k].approval = "consumed" /\ JobOK(k, ledger[k], run[k])
      /\ worker[w].result \in {"retry", "reject"}
      /\ UNCHANGED <<ledger, clock, asset, planner>>
  BY WorkersType, Recording DEF WriteExecution
<1>2. run' = [run EXCEPT ![k] = row]
  BY <1>1, RowsOK DEF WriteExecution
<1>3. row \in RunRow
  BY <1>1 DEF RunRow, ExecutionStates, Ended
<1>4. /\ row.execution = e /\ row.approval = run[k].approval /\ row.state = run[k].state
      /\ row.effects = run[k].effects /\ SameReview(run[k], row)
  BY <1>1 DEF RunRow, SameReview
<1>5. e \in {"failed", "queued"}
  OBVIOUS
<1> HIDE DEF e, row
<1>6. RunOK(row)
  BY <1>1, <1>3, <1>4, <1>5 DEF RunOK, SameReview
<1>7. JobOK(k, ledger[k], row) /\ Later(run[k], row)
  BY <1>1, <1>4, <1>5 DEF JobOK, Later, SameReview
<1>8. run'[k] = row /\ Later(run[k], run'[k])
  BY <1>1, <1>2, <1>7, RowsOK
<1>9. \E wk : WorkerOK(wk, run') /\ worker' = [worker EXCEPT ![w] = wk]
  <2>1. CASE Terminal(w)
    <3>1. worker' = [worker EXCEPT ![w].at = "failing", ![w].result = worker[w].result]
      BY <1>1, <2>1, Recording DEF WriteExecution
    <3> QED
      BY <1>1, <1>8, <3>1, MovesOK
  <2>2. CASE ~Terminal(w)
    <3>1. worker[w].result = "retry" /\ Ends(w, "retry")
      BY <1>1, <2>2 DEF WriteExecution, Terminal
    <3> QED
      BY <1>1, <1>8, <3>1, EndsOK
  <2> QED
    BY <2>1, <2>2
<1> QED
  BY <1>1, <1>2, <1>4, <1>6, <1>7, <1>9, RowStep

LEMMA FailRunKeeps ==
    ASSUME Inv, NEW w \in Workers, FailRun(w)
    PROVE  Inv'
<1> DEFINE k == worker[w].job
           row == [run[k] EXCEPT !.state = "failed"]
<1>1. /\ worker[w].at = "failing" /\ k \in Runs /\ run[k] \in RunRow /\ RunOK(run[k])
      /\ run[k].approval = "consumed" /\ JobOK(k, ledger[k], run[k])
      /\ worker[w].result \in {"retry", "reject"} /\ Ends(w, worker[w].result)
      /\ UNCHANGED <<ledger, clock, asset, planner>>
  BY WorkersType, Recording DEF FailRun
<1>2. CASE run[k].state # "executing"
  <2>1. UNCHANGED run /\ Later(run[k], run'[k]) /\ run'[k].state # "executing"
    BY <1>2, RowsStay DEF FailRun
  <2> QED
    BY <1>1, <2>1, EndsOK, WorkerStep
<1>3. CASE run[k].state = "executing"
  <2>1. run' = [run EXCEPT ![k] = row]
    BY <1>1, <1>3, RowsOK DEF FailRun
  <2>2. row \in RunRow
    BY <1>1 DEF RunRow, RunStates, Ended
  <2>3. /\ row.execution = run[k].execution /\ row.approval = run[k].approval
        /\ row.state = "failed"
        /\ row.effects = run[k].effects /\ SameReview(run[k], row)
    BY <1>1 DEF RunRow, SameReview
  <2> HIDE DEF row
  <2>4. RunOK(row)
    BY <1>1, <1>3, <2>2, <2>3 DEF RunOK, SameReview
  <2>5. JobOK(k, ledger[k], row) /\ Later(run[k], row)
    BY <1>1, <2>3 DEF JobOK, Later, SameReview
  <2>6. run'[k] = row /\ Later(run[k], run'[k]) /\ run'[k].state # "executing"
    BY <1>1, <2>1, <2>3, <2>5, RowsOK
  <2>7. \E wk : WorkerOK(wk, run') /\ worker' = [worker EXCEPT ![w] = wk]
    BY <1>1, <2>6, EndsOK
  <2> QED
    BY <1>1, <2>1, <2>3, <2>4, <2>5, <2>7, RowStep
<1> QED
  BY <1>2, <1>3

\* A worker's step that changes jobs and no row.
LEMMA LedgerStep ==
    ASSUME Inv, NEW w \in Workers, NEW wk, WorkerOK(wk, run),
           worker' = [worker EXCEPT ![w] = wk],
           DOMAIN ledger' = Jobs, ledger' = [j \in Jobs |-> ledger'[j]],
           \A j \in Jobs : JobOK(j, ledger'[j], run[j]),
           UNCHANGED <<clock, asset, planner, run>>
    PROVE  Inv'
<1>1. WorkersOK'
  BY OneWorker, SameRows DEF Inv
<1>2. JobsOK'
  BY DEF JobsOK, JobOK
<1> QED
  BY <1>1, <1>2 DEF Inv, ClockOK, AssetsOK, PlannersOK, RunsOK, ReviewsOK

\* What may become of a job that is let go.
LEMMA ReleasedJob ==
    ASSUME NEW k, NEW entry, NEW row, JobOK(k, entry, row), entry.state = "running",
           NEW s \in {"succeeded", "failed", "queued"},
           s # "queued" => row.state # "executing" \/ entry.attempts = MaxAttempts[k]
    PROVE  JobOK(k, Released(entry, s), row)
<1>1. /\ Released(entry, s) \in Entry
      /\ Released(entry, s).state = s
      /\ Released(entry, s).attempts = entry.attempts
  BY DEF JobOK, Released, Entry, JobStates, Settled
<1> QED
  BY <1>1 DEF JobOK

LEMMA OneJobOfAll ==
    ASSUME Inv, NEW k \in Jobs, NEW entry, JobOK(k, entry, run[k]),
           ledger' = [ledger EXCEPT ![k] = entry]
    PROVE  /\ DOMAIN ledger' = Jobs /\ ledger' = [j \in Jobs |-> ledger'[j]]
           /\ \A j \in Jobs : JobOK(j, ledger'[j], run[j])
<1>1. ledger \in [Jobs -> Entry] /\ \A j \in Jobs : JobOK(j, ledger[j], run[j])
  BY DEF Inv, JobsOK
<1>2. ASSUME NEW j \in Jobs PROVE JobOK(j, ledger'[j], run[j])
  BY <1>1
<1> QED
  BY <1>1, <1>2

LEMMA SettleKeeps ==
    ASSUME Inv, NEW w \in Workers, Settle(w)
    PROVE  Inv'
<1> DEFINE k == worker[w].job
<1>1. /\ worker[w].at = "done" /\ WorkerOK(worker[w], run) /\ k \in Jobs
      /\ ledger[k] \in Entry /\ JobOK(k, ledger[k], run[k])
      /\ worker' = [worker EXCEPT ![w] = IdleWorker]
      /\ UNCHANGED <<clock, asset, planner, run>>
  BY WorkersType DEF Settle, Runs
<1>2. WorkerOK(IdleWorker, run) /\ WorkerOK(IdleWorker, run')
  BY IdleIsOK
<1>3. CASE UNCHANGED ledger
  BY <1>1, <1>2, <1>3, WorkerStep
<1>4. ASSUME NEW s \in {"succeeded", "failed", "queued"}, Owns(w, k),
             s # "queued" => run[k].state # "executing" \/ ledger[k].attempts = MaxAttempts[k],
             ledger' = [ledger EXCEPT ![k] = Released(@, s)]
      PROVE  Inv'
  <2>1. JobOK(k, Released(ledger[k], s), run[k])
    BY <1>1, <1>4, ReleasedJob DEF Owns
  <2>2. /\ DOMAIN ledger' = Jobs /\ ledger' = [j \in Jobs |-> ledger'[j]]
        /\ \A j \in Jobs : JobOK(j, ledger'[j], run[j])
    BY <1>1, <1>4, <2>1, OneJobOfAll
  <2> QED
    BY <1>1, <1>2, <2>2, LedgerStep
<1>5. CASE worker[w].result = "ok" /\ Complete(w, k)
  <2>1. run[k].state # "executing"
    BY <1>1, <1>5 DEF WorkerOK
  <2> QED
    BY <1>4, <1>5, <2>1 DEF Complete
<1>6. CASE GiveBack(w, k)
  BY <1>4, <1>6 DEF GiveBack
<1>7. CASE /\ worker[w].result = "reject" \/ ledger[k].attempts = MaxAttempts[k]
           /\ Reject(w, k)
  <2>1. run[k].state # "executing" \/ ledger[k].attempts = MaxAttempts[k]
    BY <1>1, <1>7 DEF WorkerOK
  <2> QED
    BY <1>4, <1>7, <2>1 DEF Reject
<1> QED
  BY <1>3, <1>5, <1>6, <1>7 DEF Settle, Settles

LEMMA SweptJob ==
    ASSUME Inv, NEW j \in Jobs, j \in Exhaustible
    PROVE  JobOK(j, Released(ledger[j], "failed"), run[j])
<1>1. /\ JobOK(j, ledger[j], run[j]) /\ ledger[j] \in Entry /\ MaxAttempts[j] \in Nat
      /\ ledger[j].state \in {"queued", "running"} /\ ledger[j].attempts >= MaxAttempts[j]
  BY RowsOK DEF Exhaustible, Runs
<1>2. ledger[j].attempts = MaxAttempts[j]
  BY <1>1 DEF JobOK, Entry
<1>3. /\ Released(ledger[j], "failed") \in Entry
      /\ Released(ledger[j], "failed").state = "failed"
      /\ Released(ledger[j], "failed").attempts = ledger[j].attempts
  BY <1>1 DEF Released, Entry, JobStates, Settled
<1> QED
  BY <1>1, <1>2, <1>3 DEF JobOK

LEMMA StartedJob ==
    ASSUME Inv, NEW w \in Workers, NEW j \in Startable
    PROVE  /\ JobOK(j, [state |-> "running", attempts |-> ledger[j].attempts + 1, owner |-> w], run[j])
           /\ j \in Jobs /\ run[j].approval = "consumed" /\ ledger[j].attempts + 1 \in Nat
<1> DEFINE entry == [state |-> "running", attempts |-> ledger[j].attempts + 1, owner |-> w]
<1>1. /\ JobOK(j, ledger[j], run[j]) /\ ledger[j] \in Entry /\ MaxAttempts[j] \in Nat /\ j \in Jobs
      /\ ledger[j].state \in {"queued", "running"} /\ ledger[j].attempts < MaxAttempts[j]
  BY RowsOK DEF Startable, Runs
<1>2. ledger[j].attempts \in Nat /\ ledger[j].attempts + 1 \in Nat
  BY <1>1 DEF Entry
<1>3. entry \in Entry
  BY <1>2 DEF Entry, JobStates
<1>4. /\ entry.state = "running" /\ entry.attempts = ledger[j].attempts + 1
  OBVIOUS
<1> HIDE DEF entry
<1>5. JobOK(j, entry, run[j]) /\ run[j].approval = "consumed"
  BY <1>1, <1>2, <1>3, <1>4 DEF JobOK
<1> QED
  BY <1>1, <1>2, <1>5 DEF entry

LEMMA ClaimNextKeeps ==
    ASSUME Inv, NEW w \in Workers, ClaimNext(w)
    PROVE  Inv'
<1>1. PICK swept \in SUBSET Exhaustible :
         \/ /\ swept # {}
            /\ Sweep(swept)
            /\ UNCHANGED worker
         \/ \E k \in Startable :
              /\ Start(w, swept, k)
              /\ worker' = [worker EXCEPT ![w] =
                   [at |-> "executing", job |-> k, attempt |-> ledger[k].attempts + 1,
                    now |-> clock, result |-> "none"]]
  BY DEF ClaimNext
<1>2. \A j \in swept : j \in Jobs /\ JobOK(j, Released(ledger[j], "failed"), run[j])
  BY SweptJob DEF Exhaustible
<1>3. \A j \in Jobs : JobOK(j, ledger[j], run[j])
  BY DEF Inv, JobsOK
<1>4. UNCHANGED <<clock, asset, planner, run>>
  BY DEF ClaimNext
<1>5. CASE Sweep(swept) /\ UNCHANGED worker
  <2>1. JobsOK'
    BY <1>2, <1>3, <1>4, <1>5 DEF Sweep, JobsOK, JobOK
  <2> QED
    BY <1>4, <1>5, <2>1 DEF Inv, ClockOK, AssetsOK, PlannersOK, RunsOK, WorkersOK, ReviewsOK
<1>6. ASSUME NEW k \in Startable, Start(w, swept, k),
             worker' = [worker EXCEPT ![w] =
                   [at |-> "executing", job |-> k, attempt |-> ledger[k].attempts + 1,
                    now |-> clock, result |-> "none"]]
      PROVE  Inv'
  <2> DEFINE wk == [at |-> "executing", job |-> k, attempt |-> ledger[k].attempts + 1,
                    now |-> clock, result |-> "none"]
             entry == [state |-> "running", attempts |-> ledger[k].attempts + 1, owner |-> w]
  <2>1. /\ JobOK(k, entry, run[k]) /\ k \in Jobs
        /\ run[k].approval = "consumed" /\ ledger[k].attempts + 1 \in Nat
    BY StartedJob
  <2>2. \A j \in Jobs : ledger'[j] = IF j \in swept THEN Released(ledger[j], "failed")
                                     ELSE IF j = k THEN entry ELSE ledger[j]
    BY <1>6 DEF Start
  <2>3. DOMAIN ledger' = Jobs /\ ledger' = [j \in Jobs |-> ledger'[j]]
    BY <1>6 DEF Start
  <2> HIDE DEF entry
  <2>4. \A j \in Jobs : JobOK(j, ledger'[j], run[j])
    BY <1>2, <1>3, <2>1, <2>2
  <2>5. clock \in 0..MaxClock /\ run[k].snapshot.stamp <= clock
    <3>1. RunOK(run[k]) /\ run[k].plan \in Calls
      BY <2>1, RowsOK DEF RunOK, Runs
    <3>2. /\ Faithful(run[k].snapshot, asset[Target[run[k].plan]])
          /\ LogOK(asset[Target[run[k].plan]], clock)
          /\ run[k].snapshot.writes \in Nat
      BY <2>1, <3>1, PlanTarget DEF Inv, ReviewsOK, ReviewOK, AssetsOK, RunOK, RunRow, Snapshot, Runs
    <3> DEFINE s == run[k].snapshot
               log == asset[Target[run[k].plan]]
    <3>3. Faithful(s, log) /\ LogOK(log, clock) /\ s.writes \in Nat
      BY <3>2
    <3>4. clock \in 0..MaxClock /\ clock \in Nat /\ clock >= 0
      BY DEF Inv, ClockOK
    <3> HIDE DEF s, log
    <3>5. /\ log \in Seq(0..MaxClock)
          /\ \A i \in 1..Len(log) : log[i] <= clock
      BY <3>3, Zenon DEF LogOK
    <3>6. /\ s.writes <= Len(log)
          /\ s.stamp = IF s.writes = 0 THEN 0 ELSE log[s.writes]
      BY <3>3, Zenon DEF Faithful
    <3>7. Len(log) \in Nat
      BY <3>5
    <3>8. s.stamp <= clock
      <4>1. CASE s.writes = 0
        BY <3>4, <3>6, <4>1
      <4>2. CASE s.writes # 0
        <5>1. s.writes \in 1..Len(log)
          BY <3>3, <3>6, <3>7, <4>2
        <5>2. s.stamp = log[s.writes]
          BY <3>6, <4>2, Zenon
        <5>3. log[s.writes] <= clock
          BY <3>5, <5>1, Zenon
        <5> QED
          BY <5>2, <5>3
      <4> QED
        BY <4>1, <4>2
    <3> QED
      BY <3>4, <3>8 DEF s
  <2>6. WorkerOK(wk, run)
    BY <2>1, <2>5, WorkflowAssumption DEF WorkerOK, Worker, Runs
  <2> QED
    BY <1>4, <1>6, <2>3, <2>4, <2>6, LedgerStep
<1> QED
  BY <1>1, <1>5, <1>6

\* Nobody works with a time that has not come.
NowsOK == \A w \in Workers : worker[w].now \in 0..MaxClock /\ worker[w].now <= clock

LEMMA NowsKeep ==
    ASSUME Inv, NowsOK, [Next]_vars
    PROVE  NowsOK'
<1>0. /\ clock \in 0..MaxClock /\ worker \in [Workers -> Worker] /\ MaxClock \in Nat
      /\ \A w \in Workers : worker[w] \in Worker
  BY WorkflowAssumption DEF Inv, ClockOK, WorkersOK
<1>1. CASE UNCHANGED <<clock, worker>>
  BY <1>1 DEF NowsOK
<1>2. CASE Tick
  BY <1>0, <1>2 DEF Tick, NowsOK
<1>3. ASSUME NEW w \in Workers, NEW wk, UNCHANGED clock,
             wk.now = worker[w].now \/ wk.now = 0 \/ wk.now = clock,
             worker' = [worker EXCEPT ![w] = wk]
      PROVE  NowsOK'
  <2>1. ASSUME NEW x \in Workers PROVE worker'[x].now \in 0..MaxClock /\ worker'[x].now <= clock
    BY <1>0, <1>3 DEF NowsOK
  <2> QED
    BY <1>3, <2>1 DEF NowsOK
<1>4. ASSUME NEW w \in Workers, NEW at, NEW result, UNCHANGED clock,
             worker' = [worker EXCEPT ![w].at = at, ![w].result = result]
      PROVE  NowsOK'
  <2> DEFINE wk == [worker[w] EXCEPT !.at = at, !.result = result]
  <2>1. wk.now = worker[w].now /\ worker' = [worker EXCEPT ![w] = wk]
    BY <1>0, <1>4 DEF Worker
  <2> HIDE DEF wk
  <2> QED
    BY <1>3, <1>4, <2>1
<1>5. ASSUME NEW w \in Workers, ClaimNext(w) PROVE NowsOK'
  <2>1. CASE UNCHANGED worker
    BY <1>1, <1>5, <2>1 DEF ClaimNext
  <2>2. CASE \E k \in Startable :
               worker' = [worker EXCEPT ![w] =
                   [at |-> "executing", job |-> k, attempt |-> ledger[k].attempts + 1,
                    now |-> clock, result |-> "none"]]
    BY <1>3, <1>5, <2>2 DEF ClaimNext
  <2> QED
    BY <1>5, <2>1, <2>2 DEF ClaimNext
<1>6. ASSUME NEW w \in Workers, Settle(w) \/ WorkerDies(w) PROVE NowsOK'
  <2>1. worker' = [worker EXCEPT ![w] = IdleWorker] /\ UNCHANGED clock /\ IdleWorker.now = 0
    BY <1>6 DEF Settle, WorkerDies, IdleWorker
  <2> QED
    BY <1>3, <2>1
<1>7. ASSUME NEW w \in Workers, Apply(w) \/ ExecuteNothing(w) \/ FailRun(w) \/ RecordingFails(w)
      PROVE  NowsOK'
  <2>1. UNCHANGED clock /\ \E at, result : worker' = [worker EXCEPT ![w].at = at, ![w].result = result]
    BY <1>7 DEF Apply, ExecuteNothing, FailRun, RecordingFails, Ends, Fails
  <2> QED
    BY <1>4, <2>1
<1>8. ASSUME NEW w \in Workers, ReadExecution(w) \/ WriteExecution(w) PROVE NowsOK'
  <2>1. /\ UNCHANGED clock /\ worker[w] \in Worker
        /\ worker[w].at \in {"recording", "writing", "failing"}
    BY <1>0, <1>8 DEF ReadExecution, WriteExecution
  <2>2. \/ Ends(w, worker[w].result)
        \/ \E at \in {"recording", "writing", "failing"} : worker' = [worker EXCEPT ![w].at = at]
    BY <1>8 DEF ReadExecution, WriteExecution
  <2>3. CASE Ends(w, worker[w].result)
    BY <1>4, <2>1, <2>3 DEF Ends
  <2>4. ASSUME NEW at \in {"recording", "writing", "failing"},
               worker' = [worker EXCEPT ![w].at = at]
        PROVE  NowsOK'
    <3>1. worker' = [worker EXCEPT ![w].at = at, ![w].result = worker[w].result]
      BY <2>1, <2>4, Recording
    <3> QED
      BY <1>4, <2>1, <3>1
  <2> QED
    BY <2>2, <2>3, <2>4
<1>9. CASE \E c \in Calls : ReadTarget(c) \/ CreateRun(c) \/ Freeze(c) \/ PlannerDies(c)
  BY <1>1, <1>9 DEF ReadTarget, CreateRun, Freeze, PlannerDies
<1>10. CASE \E k \in Runs : Decide(k) \/ Consume(k) \/ CancelRun(k)
  BY <1>1, <1>10 DEF Decide, Consume, CancelRun
<1>11. CASE ExpirePending \/ \E a \in Assets : UpdateAsset(a)
  BY <1>1, <1>11 DEF ExpirePending, UpdateAsset
<1> QED
  BY <1>1, <1>2, <1>5, <1>6, <1>7, <1>8, <1>9, <1>10, <1>11 DEF Next, vars

\* The one step that changes a target: nothing was written to it since its
\* snapshot that does not carry the snapshot's own timestamp, for the stamps in
\* between lie between the snapshot's and the newest, and these are the same.
LEMMA UnchangedSinceSnapshot ==
    ASSUME NEW log, NEW now, LogOK(log, now), NEW s \in Snapshot, Faithful(s, log),
           (IF log = <<>> THEN 0 ELSE log[Len(log)]) = s.stamp
    PROVE  /\ \A i \in (s.writes + 1)..Len(log) : log[i] = s.stamp
           /\ \A i \in 1..Len(log) : log[i] <= s.stamp
<1>1. /\ log \in Seq(0..MaxClock) /\ Len(log) \in Nat
      /\ \A i \in 1..Len(log) : log[i] \in Nat
      /\ s.writes \in Nat /\ s.stamp \in Nat /\ s.writes <= Len(log)
  BY WorkflowAssumption, ElementType DEF LogOK, Snapshot, Faithful
<1>2. \A i \in 1..Len(log) : log[i] <= s.stamp
  <2> SUFFICES ASSUME NEW i \in 1..Len(log) PROVE log[i] <= s.stamp
    OBVIOUS
  <2>1. log # <<>> /\ Len(log) \in 1..Len(log) /\ i <= Len(log)
    BY <1>1
  <2>2. log[Len(log)] = s.stamp
    BY <2>1
  <2>3. log[i] <= log[Len(log)]
    BY <2>1 DEF LogOK
  <2> QED
    BY <2>2, <2>3
<1>3. ASSUME NEW i \in (s.writes + 1)..Len(log) PROVE s.stamp <= log[i]
  <2>0. i \in 1..Len(log) /\ s.writes <= i
    BY <1>1
  <2>1. CASE s.writes = 0
    BY <1>1, <2>0, <2>1 DEF Faithful
  <2>2. CASE s.writes # 0
    <3>1. s.writes \in 1..Len(log) /\ s.stamp = log[s.writes]
      BY <1>1, <2>2 DEF Faithful
    <3> QED
      BY <2>0, <3>1 DEF LogOK
  <2> QED
    BY <2>1, <2>2
<1>4. ASSUME NEW i \in (s.writes + 1)..Len(log) PROVE log[i] = s.stamp
  <2>1. i \in 1..Len(log)
    BY <1>1
  <2> QED
    BY <1>1, <1>2, <1>3, <2>1
<1> QED
  BY <1>2, <1>4

LEMMA ApplyKeeps ==
    ASSUME Inv, NowsOK, NEW w \in Workers, Apply(w)
    PROVE  Inv'
<1> DEFINE k == worker[w].job
           a == Target[run[k].plan]
           stamp == worker[w].now
           row == [run[k] EXCEPT !.state = "succeeded", !.execution = "succeeded",
                                 !.effects = @ + 1, !.applied = Len(asset[a]) + 1]
<1>1. /\ k \in Runs /\ run[k] \in RunRow /\ RunOK(run[k])
      /\ run \in [Runs -> RunRow]
      /\ run[k].approval = "consumed" /\ JobOK(k, ledger[k], run[k])
      /\ worker[w].at = "executing" /\ stamp >= run[k].snapshot.stamp
      /\ stamp \in 0..MaxClock /\ stamp <= clock
  BY WorkersType, RowsOK DEF Apply, WorkerOK, NowsOK
<1>2. /\ Authorized(k, stamp) /\ Len(asset[a]) < MaxWrites
      /\ asset' = [asset EXCEPT ![a] = Append(@, stamp)]
      /\ Ends(w, "ok") /\ UNCHANGED <<ledger, clock, planner>>
      /\ run' = [run EXCEPT ![k].state = "succeeded", ![k].execution = "succeeded",
                            ![k].effects = @ + 1, ![k].applied = Len(asset[a]) + 1]
  BY DEF Apply
<1>3. /\ run[k].plan \in Calls /\ a \in Assets /\ a = Target[run[k].plan]
      /\ run[k].state = "executing" /\ run[k].effects = 0 /\ k = worker[w].job
  <2>1. run[k].plan \in Calls /\ run[k].state = "executing"
    BY <1>1, <1>2 DEF RunOK, Authorized
  <2> QED
    BY <1>1, <2>1, PlanTarget DEF RunOK
<1> HIDE DEF k, a, stamp
<1>4. /\ LogOK(asset[a], clock) /\ asset[a] \in Seq(0..MaxClock) /\ Len(asset[a]) \in Nat
      /\ run[k].snapshot \in Snapshot /\ run[k].snapshot.stamp \in Nat
      /\ run[k].snapshot.writes \in Nat
      /\ Faithful(run[k].snapshot, asset[a])
  <2>1. LogOK(asset[a], clock) /\ asset[a] \in Seq(0..MaxClock)
    BY <1>3 DEF Inv, AssetsOK
  <2>2. run[k].snapshot \in Snapshot
    BY <1>1 DEF RunRow
  <2>3. Faithful(run[k].snapshot, asset[a])
    BY <1>1, <1>3 DEF Inv, ReviewsOK, ReviewOK
  <2> QED
    BY <2>1, <2>2, <2>3, WorkflowAssumption DEF Snapshot
<1>5. /\ \A i \in (run[k].snapshot.writes + 1)..Len(asset[a]) : asset[a][i] = run[k].snapshot.stamp
      /\ \A i \in 1..Len(asset[a]) : asset[a][i] <= run[k].snapshot.stamp
  <2>1. (IF asset[a] = <<>> THEN 0 ELSE asset[a][Len(asset[a])]) = run[k].snapshot.stamp
    BY <1>2, <1>3 DEF Authorized, TargetCurrent, UpdatedAt
  <2> QED
    BY <1>4, <2>1, UnchangedSinceSnapshot
<1>6. \A i \in 1..Len(asset[a]) : asset[a][i] <= stamp
  <2>1. \A i \in 1..Len(asset[a]) : asset[a][i] \in 0..MaxClock
    BY <1>4, ElementType
  <2> QED
    BY <1>1, <1>4, <1>5, <2>1, WorkflowAssumption
<1>7. /\ AssetsOK'
      /\ \A x \in Assets, s \in Snapshot : Faithful(s, asset[x]) => Faithful(s, asset'[x])
      /\ \A x \in Assets, r \in RunRow : ReviewOK(r, asset[x]) => ReviewOK(r, asset'[x])
  BY <1>1, <1>2, <1>3, <1>6, AssetGrows, Zenon
<1>8. PlannersOK'
  BY <1>2, <1>7, KeyIsRun DEF Inv, PlannersOK, Planner
<1>9. /\ run' = [run EXCEPT ![k] = row]
      /\ row.approval = "consumed" /\ row.state = "succeeded" /\ row.execution = "succeeded"
      /\ row.effects = 1 /\ row.applied = Len(asset[a]) + 1
      /\ row.plan = run[k].plan /\ row.snapshot = run[k].snapshot
  <2>1. row.effects = 1
    BY <1>1, <1>3 DEF RunRow
  <2>2. run' = [run EXCEPT ![k] = row]
    BY <1>1, <1>2
  <2> QED
    BY <1>1, <2>1, <2>2 DEF RunRow
<1>10. row \in RunRow
  <2>1. run[k].effects + 1 \in Nat
    BY <1>3
  <2>2. Len(asset[a]) + 1 \in 0..MaxWrites
    BY <1>2, <1>4, WorkflowAssumption
  <2> QED
    BY <1>1, <2>1, <2>2 DEF RunRow, RunStates, ExecutionStates, Ended
<1> HIDE DEF row
<1>11. RunOK(row)
  BY <1>1, <1>9, <1>10 DEF RunOK
<1>12. Later(run[k], row)
  BY <1>9 DEF Later
<1>13. /\ RunsOK'
       /\ \A x \in Runs : Later(run[x], run'[x])
       /\ run'[k] = row
       /\ \A x \in Runs \ {k} : run'[x] = run[x]
  BY <1>1, <1>9, <1>11, <1>12, OneRow DEF Inv
<1>14. JobsOK'
  <2>1. JobOK(k, ledger[k], row)
    BY <1>1, <1>9 DEF JobOK
  <2> QED
    BY <1>1, <1>2, <1>13, <2>1, JobsStay DEF Inv
<1>15. WorkersOK'
  <2>1. /\ run'[worker[w].job].state # "executing" /\ worker[w].at # "idle"
        /\ Later(run[worker[w].job], run'[worker[w].job])
    BY <1>1, <1>3, <1>9, <1>13
  <2>2. \E wk : WorkerOK(wk, run') /\ worker' = [worker EXCEPT ![w] = wk]
    BY <1>2, <2>1, EndsOK
  <2> QED
    BY <1>13, <2>2, OneWorker DEF Inv
<1>16. ReviewOK(row, asset'[a])
  <2>0. asset'[a] = Append(asset[a], stamp)
    BY <1>2, <1>3 DEF Inv, AssetsOK
  <2>1. /\ Len(asset'[a]) = Len(asset[a]) + 1
        /\ \A i \in 1..Len(asset[a]) : asset'[a][i] = asset[a][i]
    BY <1>4, <2>0
  <2>2. Faithful(row.snapshot, asset'[a])
    BY <1>3, <1>4, <1>7, <1>9
  <2>3. row.snapshot.writes \in Nat
    BY <1>4, <1>9
  <2>4. ASSUME NEW i \in (row.snapshot.writes + 1)..(row.applied - 1)
        PROVE  asset'[a][i] = row.snapshot.stamp
    BY <1>4, <1>5, <1>9, <2>1, <2>3
  <2> QED
    BY <1>4, <1>9, <2>1, <2>2, <2>4 DEF ReviewOK
<1>17. ReviewsOK'
  <2>1. ASSUME NEW x \in Runs, run'[x].plan \in Calls
        PROVE  ReviewOK(run'[x], asset'[Target[run'[x].plan]])
    <3>1. CASE x = k
      <4>1. run'[x] = row
        BY <1>13, <3>1
      <4>2. Target[row.plan] = a
        BY <1>3, <1>9
      <4> QED
        BY <1>16, <4>1, <4>2
    <3>2. CASE x # k
      <4>1. run'[x] = run[x] /\ run[x] \in RunRow /\ run[x].plan \in Calls
        BY <1>1, <1>13, <2>1, <3>2
      <4>2. ReviewOK(run[x], asset[Target[run[x].plan]]) /\ Target[run[x].plan] \in Assets
        BY <4>1, PlanTarget DEF Inv, ReviewsOK
      <4>3. ReviewOK(run[x], asset'[Target[run[x].plan]])
        BY <1>7, <4>1, <4>2
      <4> QED
        BY <4>1, <4>3
    <3> QED
      BY <3>1, <3>2
  <2> QED
    BY <2>1 DEF ReviewsOK
<1>18. ClockOK'
  BY <1>2 DEF Inv, ClockOK
<1> QED
  BY <1>7, <1>8, <1>13, <1>14, <1>15, <1>17, <1>18 DEF Inv

-----------------------------------------------------------------------------
(* The theorems.                                                           *)

IInv == Inv /\ NowsOK

LEMMA StepInv ==
    ASSUME IInv, [Next]_vars
    PROVE  IInv'
<1> USE DEF IInv
<1>1. ASSUME NEW c \in Calls, ReadTarget(c) \/ CreateRun(c) \/ Freeze(c) \/ PlannerDies(c)
      PROVE  Inv'
  BY <1>1, ReadTargetKeeps, CreateRunKeeps, FreezeKeeps, PlannerDiesKeeps
<1>2. ASSUME NEW k \in Runs, Decide(k) \/ Consume(k) \/ CancelRun(k)
      PROVE  Inv'
  BY <1>2, DecideKeeps, ConsumeKeeps, CancelRunKeeps
<1>3. ASSUME ExpirePending PROVE Inv'
  BY <1>3, ExpirePendingKeeps
<1>4. ASSUME NEW a \in Assets, UpdateAsset(a) PROVE Inv'
  BY <1>4, UpdateAssetKeeps
<1>5. ASSUME NEW w \in Workers,
             \/ ClaimNext(w)
             \/ Apply(w)
             \/ ExecuteNothing(w)
             \/ ReadExecution(w)
             \/ WriteExecution(w)
             \/ FailRun(w)
             \/ RecordingFails(w)
             \/ Settle(w)
             \/ WorkerDies(w)
      PROVE  Inv'
  BY <1>5, ClaimNextKeeps, ApplyKeeps, ExecuteNothingKeeps, ReadExecutionKeeps,
     WriteExecutionKeeps, FailRunKeeps, RecordingFailsKeeps, SettleKeeps, WorkerDiesKeeps
<1>6. ASSUME Tick PROVE Inv'
  BY <1>6, TickKeeps
<1>7. ASSUME UNCHANGED vars PROVE Inv'
  BY <1>7 DEF vars, Inv, ClockOK, AssetsOK, PlannersOK, RunsOK, JobsOK, WorkersOK, ReviewsOK
<1>8. NowsOK'
  BY NowsKeep
<1>9. Inv'
  <2>1. CASE Next
    BY <1>1, <1>2, <1>3, <1>4, <1>5, <1>6, <2>1 DEF Next
  <2> QED
    BY <1>7, <2>1
<1> QED
  BY <1>8, <1>9

LEMMA WorkflowInv == Spec => []IInv
<1>1. Init => IInv
  BY InitInv, WorkflowAssumption DEF IInv, NowsOK, Init, IdleWorker
<1>2. IInv /\ [Next]_vars => IInv'
  BY StepInv
<1> QED
  BY <1>1, <1>2, PTL DEF Spec

\* Whatever was written to the target of a change between the snapshot that its
\* approver was shown and the change carries the very timestamp of the snapshot
\* (agents/repository.ts, assertTargetsCurrent; agents/execution-handler.ts).
THEOREM ReviewedBeforeChange == Spec => []ReviewedOrSimultaneous
<1>1. IInv => ReviewedOrSimultaneous
  <2> SUFFICES ASSUME IInv, NEW k \in Runs, run[k].effects > 0
               PROVE  \A i \in (run[k].snapshot.writes + 1)..(run[k].applied - 1) :
                        asset[Target[run[k].plan]][i] = run[k].snapshot.stamp
    BY DEF ReviewedOrSimultaneous
  <2>1. run[k].plan \in Calls
    BY RowsOK DEF IInv, RunOK
  <2> QED
    BY <2>1 DEF IInv, Inv, ReviewsOK, ReviewOK
<1> QED
  BY <1>1, WorkflowInv, PTL

\* A run that executes has a job that is held or will be claimed, unless the
\* job's last attempt was lost (agents/execution-handler.ts, recordFailure, and
\* the queue's sweep in jobs/repository.ts).
THEOREM NoRunIsForgotten == Spec => []StuckOnlyWhenExhausted
<1>1. IInv => StuckOnlyWhenExhausted
  BY DEF IInv, Inv, JobsOK, JobOK, Runs, StuckOnlyWhenExhausted, Live
<1> QED
  BY <1>1, WorkflowInv, PTL

\* An execution that was cancelled has no job left that a worker holds or may
\* claim (agents/repository.ts, cancelRun).
THEOREM CancelledMeansRevoked == Spec => []CancellationRevokes
<1>1. IInv => CancellationRevokes
  BY DEF IInv, Inv, JobsOK, JobOK, Runs, CancellationRevokes, Live
<1> QED
  BY <1>1, WorkflowInv, PTL

-----------------------------------------------------------------------------
(* The workflow implements the approval token.                             *)

RunTokens == [k \in Runs |-> Token(run[k])]
RunEffects == [k \in Runs |-> run[k].effects]

\* The token's step, on the tokens of the runs.
TokenStep == Approval!Next \/ UNCHANGED <<RunTokens, RunEffects>>

\* What the invariant says of a row's token.
LEMMA TokenOf ==
    ASSUME NEW row, RunOK(row)
    PROVE  /\ row.state \in {"absent", "planning"} => Token(row) = "none"
           /\ row.state = "awaiting_approval" =>
                Token(row) = CASE row.approval = "pending"  -> "offered"
                               [] row.approval = "approved" -> "granted"
                               [] row.approval \in {"rejected", "expired"} -> "void"
           /\ row.state = "executing" => Token(row) = "spent"
           /\ row.state = "succeeded" => Token(row) = "used"
           /\ row.state \in {"failed", "cancelled"} => Token(row) = "void"
BY DEF RunOK, Token, Ended, Given

LEMMA OneToken ==
    ASSUME NEW k \in Runs, NEW row, run \in [Runs -> RunRow], run' = [run EXCEPT ![k] = row]
    PROVE  /\ RunTokens' = [x \in Runs |-> IF x = k THEN Token(row) ELSE RunTokens[x]]
           /\ RunEffects' = [x \in Runs |-> IF x = k THEN row.effects ELSE RunEffects[x]]
<1>1. \A x \in Runs : run'[x] = IF x = k THEN row ELSE run[x]
  OBVIOUS
<1> QED
  BY <1>1 DEF RunTokens, RunEffects

LEMMA RunFunctions ==
    /\ RunTokens = [x \in Runs |-> RunTokens[x]]
    /\ RunEffects = [x \in Runs |-> RunEffects[x]]
    /\ \A k \in Runs : RunTokens[k] = Token(run[k]) /\ RunEffects[k] = run[k].effects
BY DEF RunTokens, RunEffects

LEMMA SameToken ==
    ASSUME NEW k \in Runs, NEW row, run \in [Runs -> RunRow], run' = [run EXCEPT ![k] = row],
           Token(row) = Token(run[k]), row.effects = run[k].effects
    PROVE  TokenStep
<1>1. \A x \in Runs : Token(run'[x]) = Token(run[x]) /\ run'[x].effects = run[x].effects
  OBVIOUS
<1> QED
  BY <1>1 DEF TokenStep, RunTokens, RunEffects

LEMMA SameTokens ==
    ASSUME UNCHANGED run
    PROVE  TokenStep
BY DEF TokenStep, RunTokens, RunEffects

LEMMA TokenMoves ==
    ASSUME NEW k \in Runs, NEW row, run \in [Runs -> RunRow], run' = [run EXCEPT ![k] = row],
           row.effects = run[k].effects,
           \/ Token(run[k]) = "none" /\ Token(row) = "offered"
           \/ Token(run[k]) = "offered" /\ Token(row) = "granted"
           \/ Token(run[k]) = "granted" /\ Token(row) = "spent"
           \/ Token(run[k]) \in {"none", "offered", "granted", "spent"} /\ Token(row) = "void"
    PROVE  TokenStep
<1>1. /\ RunTokens' = [x \in Runs |-> IF x = k THEN Token(row) ELSE RunTokens[x]]
      /\ RunTokens[k] = Token(run[k])
  BY OneToken, RunFunctions
<1>2. RunEffects' = RunEffects
  <2>1. \A x \in Runs : run'[x].effects = run[x].effects
    OBVIOUS
  <2> QED
    BY <2>1 DEF RunEffects
<1>3. CASE Token(run[k]) = "none" /\ Token(row) = "offered"
  BY <1>1, <1>2, <1>3 DEF TokenStep, Approval!Next, Approval!Offer, Approval!Move
<1>4. CASE Token(run[k]) = "offered" /\ Token(row) = "granted"
  BY <1>1, <1>2, <1>4 DEF TokenStep, Approval!Next, Approval!Grant, Approval!Move
<1>5. CASE Token(run[k]) = "granted" /\ Token(row) = "spent"
  BY <1>1, <1>2, <1>5 DEF TokenStep, Approval!Next, Approval!Spend, Approval!Move
<1>6. CASE Token(run[k]) \in {"none", "offered", "granted", "spent"} /\ Token(row) = "void"
  <2>1. Approval!Void({k})
    BY <1>1, <1>2, <1>6 DEF Approval!Void, RunTokens, RunEffects
  <2> QED
    BY <2>1 DEF TokenStep, Approval!Next
<1> QED
  BY <1>3, <1>4, <1>5, <1>6

LEMMA PlannerToken ==
    ASSUME IInv, IInv', NEW c \in Calls, CreateRun(c) \/ Freeze(c)
    PROVE  TokenStep
<1> DEFINE k == Key[c]
<1>1. /\ k \in Runs /\ run \in [Runs -> RunRow] /\ run[k] \in RunRow
      /\ RunOK(run[k]) /\ RunOK(run'[k])
  BY KeyIsRun DEF IInv, Inv, RunsOK
<1>2. CASE UNCHANGED run
  BY <1>2, SameTokens
<1>3. CASE /\ run[k].state = "absent"
           /\ run' = [run EXCEPT ![k] = [AbsentRun EXCEPT !.state = "planning"]]
  <2> DEFINE row == [AbsentRun EXCEPT !.state = "planning"]
  <2>1. row.state = "planning" /\ row.effects = 0 /\ RunOK(row)
    BY NewRun DEF AbsentRun
  <2>2. run[k].effects = 0
    BY <1>1, <1>3 DEF RunOK
  <2> HIDE DEF row
  <2>3. Token(row) = "none" /\ Token(run[k]) = "none"
    BY <1>1, <1>3, <2>1, TokenOf
  <2> QED
    BY <1>1, <1>3, <2>1, <2>2, <2>3, SameToken DEF row
<1>4. CASE run[k].state = "planning" /\ Freeze(c) /\ ~ UNCHANGED run
  <2> DEFINE row == [run[k] EXCEPT !.state = "awaiting_approval", !.plan = c,
                                   !.snapshot = planner[c].snapshot,
                                   !.expires = planner[c].now + TimeToLive,
                                   !.approval = "pending"]
  <2>1. run' = [run EXCEPT ![k] = row] /\ run'[k] = row
    BY <1>1, <1>4 DEF Freeze
  <2>2. row.state = "awaiting_approval" /\ row.approval = "pending" /\ row.effects = run[k].effects
    BY <1>1 DEF RunRow
  <2> HIDE DEF row
  <2>3. Token(row) = "offered" /\ Token(run[k]) = "none"
    BY <1>1, <1>4, <2>1, <2>2, TokenOf
  <2> QED
    BY <1>1, <2>1, <2>2, <2>3, TokenMoves
<1> QED
  BY <1>2, <1>3, <1>4 DEF CreateRun, Freeze

LEMMA DecideToken ==
    ASSUME IInv, IInv', NEW k \in Runs, Decide(k)
    PROVE  TokenStep
<1>1. PICK decision \in {"approved", "rejected"} : run' = [run EXCEPT ![k].approval = decision]
  BY DEF Decide
<1> DEFINE row == [run[k] EXCEPT !.approval = decision]
<1>2. /\ run \in [Runs -> RunRow] /\ run[k] \in RunRow
      /\ RunOK(run[k]) /\ RunOK(run'[k]) /\ run[k].approval = "pending"
  BY DEF IInv, Inv, RunsOK, Decide
<1>3. run' = [run EXCEPT ![k] = row] /\ run'[k] = row
  BY <1>1, <1>2
<1>4. row.state = "awaiting_approval" /\ row.approval = decision /\ row.effects = run[k].effects
      /\ run[k].state = "awaiting_approval"
  BY <1>2 DEF RunRow, RunOK
<1> HIDE DEF row
<1>5. Token(run[k]) = "offered" /\ Token(row) \in {"granted", "void"}
  BY <1>2, <1>3, <1>4, TokenOf
<1> QED
  BY <1>2, <1>3, <1>4, <1>5, TokenMoves

LEMMA ConsumeToken ==
    ASSUME IInv, IInv', NEW k \in Runs, Consume(k)
    PROVE  TokenStep
<1> DEFINE row == [run[k] EXCEPT !.approval = "consumed", !.consumed = clock,
                                 !.state = "executing", !.execution = "queued"]
<1>1. /\ run \in [Runs -> RunRow] /\ run[k] \in RunRow
      /\ RunOK(run[k]) /\ RunOK(run'[k])
      /\ run[k].approval = "approved" /\ run[k].state = "awaiting_approval"
  BY DEF IInv, Inv, RunsOK, Consume
<1>2. run' = [run EXCEPT ![k] = row] /\ run'[k] = row
  BY <1>1 DEF Consume
<1>3. row.state = "executing" /\ row.effects = run[k].effects
  BY <1>1 DEF RunRow
<1> HIDE DEF row
<1>4. Token(run[k]) = "granted" /\ Token(row) = "spent"
  BY <1>1, <1>2, <1>3, TokenOf
<1> QED
  BY <1>1, <1>2, <1>3, <1>4, TokenMoves

LEMMA CancelToken ==
    ASSUME IInv, IInv', NEW k \in Runs, CancelRun(k)
    PROVE  TokenStep
<1> DEFINE row == [run[k] EXCEPT !.state = "cancelled",
                                 !.approval = IF @ = "pending" THEN "cancelled" ELSE @,
                                 !.execution = IF Unfinished(k) THEN "cancelled" ELSE @]
<1>1. /\ run \in [Runs -> RunRow] /\ run[k] \in RunRow
      /\ RunOK(run[k]) /\ RunOK(run'[k])
      /\ run[k].state \in {"planning", "awaiting_approval", "executing"}
  BY DEF IInv, Inv, RunsOK, CancelRun
<1>2. run' = [run EXCEPT ![k] = row] /\ run'[k] = row
  BY <1>1 DEF CancelRun
<1>3. row.state = "cancelled" /\ row.effects = run[k].effects
  BY <1>1 DEF RunRow
<1> HIDE DEF row
<1>4. Token(row) = "void"
  BY <1>1, <1>2, <1>3, TokenOf
<1>5. Token(run[k]) \in {"none", "offered", "granted", "spent", "void"}
  <2>1. run[k].state = "awaiting_approval" =>
          run[k].approval \in {"pending", "approved", "rejected", "expired"}
    BY <1>1 DEF RunOK, Given
  <2> QED
    BY <1>1, <2>1, TokenOf
<1> QED
  BY <1>1, <1>2, <1>3, <1>4, <1>5, TokenMoves, SameToken

LEMMA ExpireToken ==
    ASSUME IInv, IInv', ExpirePending
    PROVE  TokenStep
<1> DEFINE due == {k \in Runs : run[k].approval = "pending" /\ run[k].expires <= clock}
<1>1. \A k \in Runs : RunOK(run[k]) /\ RunOK(run'[k]) /\ run[k] \in RunRow
  BY DEF IInv, Inv, RunsOK
<1>2. \A k \in Runs : run'[k] = IF k \in due THEN [run[k] EXCEPT !.approval = "expired"] ELSE run[k]
  BY DEF ExpirePending
<1>3. ASSUME NEW k \in Runs
      PROVE  /\ Token(run'[k]) = IF k \in due THEN "void" ELSE Token(run[k])
             /\ run'[k].effects = run[k].effects
             /\ k \in due => Token(run[k]) = "offered"
  <2>1. CASE k \notin due
    BY <1>2, <2>1
  <2>2. CASE k \in due
    <3>1. run[k].approval = "pending" /\ run[k].state = "awaiting_approval"
      BY <1>1, <2>2 DEF RunOK
    <3>2. /\ run'[k].approval = "expired" /\ run'[k].state = "awaiting_approval"
          /\ run'[k].effects = run[k].effects
      BY <1>1, <1>2, <2>2, <3>1 DEF RunRow
    <3> QED
      BY <1>1, <2>2, <3>1, <3>2, TokenOf
  <2> QED
    BY <2>1, <2>2
<1>4. due \in SUBSET Runs
  OBVIOUS
<1> HIDE DEF due
<1>5. /\ RunTokens' = [k \in Runs |-> IF k \in due THEN "void" ELSE RunTokens[k]]
      /\ RunEffects' = RunEffects
      /\ \A k \in due : RunTokens[k] = "offered"
  BY <1>3, <1>4 DEF RunTokens, RunEffects
<1>6. Approval!Void(due)
  BY <1>4, <1>5 DEF Approval!Void, RunTokens, RunEffects
<1> QED
  BY <1>4, <1>6 DEF TokenStep, Approval!Next

LEMMA ApplyToken ==
    ASSUME IInv, IInv', NEW w \in Workers, Apply(w), NEW k \in Runs, k = worker[w].job
    PROVE  TokenStep
<1> DEFINE a == Target[run[k].plan]
       row == [run[k] EXCEPT !.state = "succeeded", !.execution = "succeeded",
                             !.effects = @ + 1, !.applied = Len(asset[a]) + 1]
<1>1. /\ k \in Runs /\ run \in [Runs -> RunRow] /\ run[k] \in RunRow
      /\ RunOK(run[k]) /\ RunOK(run'[k]) /\ run[k].state = "executing"
  BY DEF IInv, Inv, RunsOK, Apply, Authorized
<1>2. run' = [run EXCEPT ![k] = row] /\ run'[k] = row
  BY <1>1 DEF Apply
<1>3. row.state = "succeeded" /\ row.effects = run[k].effects + 1
  BY <1>1 DEF RunRow
<1> HIDE DEF row
<1>4. Token(run[k]) = "spent" /\ Token(row) = "used"
  BY <1>1, <1>2, <1>3, TokenOf
<1>5. /\ RunTokens' = [x \in Runs |-> IF x = k THEN "used" ELSE RunTokens[x]]
      /\ RunEffects' = [x \in Runs |-> IF x = k THEN RunEffects[k] + 1 ELSE RunEffects[x]]
      /\ RunTokens[k] = "spent"
  BY <1>1, <1>2, <1>3, <1>4 DEF RunTokens, RunEffects
<1>6. Approval!Use(k)
  BY <1>1, <1>5, Zenon DEF Approval!Use, RunTokens, RunEffects
<1> QED
  BY <1>6 DEF TokenStep, Approval!Next

LEMMA WorkerToken ==
    ASSUME IInv, IInv', NEW w \in Workers, WriteExecution(w) \/ FailRun(w)
    PROVE  TokenStep
<1> DEFINE k == worker[w].job
<1>1. /\ k \in Runs /\ run \in [Runs -> RunRow] /\ run[k] \in RunRow
      /\ RunOK(run[k]) /\ RunOK(run'[k])
  <2>1. k \in Runs
    BY Recording DEF WriteExecution, FailRun, IInv
  <2> QED
    BY <2>1 DEF IInv, Inv, RunsOK
<1>2. ASSUME NEW e, run' = [run EXCEPT ![k].execution = e] PROVE TokenStep
  <2> DEFINE row == [run[k] EXCEPT !.execution = e]
  <2>1. run' = [run EXCEPT ![k] = row]
    BY <1>1, <1>2
  <2>2. row.state = run[k].state /\ row.approval = run[k].approval /\ row.effects = run[k].effects
    BY <1>1 DEF RunRow
  <2> HIDE DEF row, k
  <2>3. Token(row) = Token(run[k])
    BY <2>2 DEF Token
  <2> QED
    BY <1>1, <2>1, <2>2, <2>3, SameToken
<1>3. CASE UNCHANGED run
  BY <1>3, SameTokens
<1>4. CASE run[k].state = "executing" /\ run' = [run EXCEPT ![k].state = "failed"]
  <2> DEFINE row == [run[k] EXCEPT !.state = "failed"]
  <2>1. run' = [run EXCEPT ![k] = row] /\ run'[k] = row
    BY <1>1, <1>4
  <2>2. row.state = "failed" /\ row.effects = run[k].effects
    BY <1>1 DEF RunRow
  <2> HIDE DEF row, k
  <2>3. Token(row) = "void" /\ Token(run[k]) = "spent"
    BY <1>1, <1>4, <2>1, <2>2, TokenOf
  <2> QED
    BY <1>1, <2>1, <2>2, <2>3, TokenMoves
<1> QED
  BY <1>2, <1>3, <1>4 DEF WriteExecution, FailRun

LEMMA StepIsToken ==
    ASSUME IInv, IInv', [Next]_vars
    PROVE  TokenStep
<1>1. CASE UNCHANGED run
  BY <1>1, SameTokens
<1>2. ASSUME NEW c \in Calls, ReadTarget(c) \/ CreateRun(c) \/ Freeze(c) \/ PlannerDies(c)
      PROVE  TokenStep
  BY <1>1, <1>2, PlannerToken DEF ReadTarget, PlannerDies
<1>3. ASSUME NEW k \in Runs, Decide(k) \/ Consume(k) \/ CancelRun(k)
      PROVE  TokenStep
  BY <1>3, DecideToken, ConsumeToken, CancelToken
<1>4. CASE ExpirePending
  BY <1>4, ExpireToken
<1>5. CASE \E a \in Assets : UpdateAsset(a)
  BY <1>1, <1>5 DEF UpdateAsset
<1>6. ASSUME NEW w \in Workers, Apply(w) \/ WriteExecution(w) \/ FailRun(w)
      PROVE  TokenStep
  <2>1. CASE Apply(w)
    <3>1. worker[w].job \in Runs
      BY <2>1, WorkersType DEF Apply, IInv
    <3> QED
      BY <2>1, <3>1, ApplyToken
  <2> QED
    BY <1>6, <2>1, WorkerToken
<1>7. ASSUME NEW w \in Workers,
             \/ ClaimNext(w)
             \/ ExecuteNothing(w)
             \/ ReadExecution(w)
             \/ RecordingFails(w)
             \/ Settle(w)
             \/ WorkerDies(w)
      PROVE  TokenStep
  BY <1>1, <1>7 DEF ClaimNext, ExecuteNothing, ReadExecution, RecordingFails, Settle, WorkerDies
<1>8. CASE Tick \/ UNCHANGED vars
  BY <1>1, <1>8 DEF Tick, vars
<1> QED
  BY <1>2, <1>3, <1>4, <1>5, <1>6, <1>7, <1>8 DEF Next

\* Every step of the planner, the API and the workers is a step of the approval
\* token or leaves it alone: an approval is spent once, and changes its target at
\* most once and never after it has become void (agents/repository.ts,
\* agents/service.ts and agents/execution-handler.ts).
THEOREM ApprovalRefined == Spec => ImplementsApproval
<1>1. Init => Approval!Init
  <2>1. Token(AbsentRun) = "none" /\ AbsentRun.effects = 0
    BY DEF Token, AbsentRun, Ended
  <2> QED
    BY <2>1 DEF Init, Approval!Init
<1>2. IInv /\ IInv' /\ [Next]_vars => [Approval!Next]_<<RunTokens, RunEffects>>
  BY StepIsToken DEF TokenStep
<1> QED
  BY <1>1, <1>2, WorkflowInv, PTL DEF Spec, ImplementsApproval, Approval!Spec, RunTokens, RunEffects

\* What the token's own steps keep, whoever takes them.
TokenInv ==
    /\ RunTokens \in [Runs -> {"none", "offered", "granted", "spent", "used", "void"}]
    /\ RunEffects \in [Runs -> Nat]
    /\ Approval!UsedOnce

LEMMA TokenStepKeeps ==
    ASSUME TokenInv, [Approval!Next]_<<RunTokens, RunEffects>>
    PROVE  TokenInv'
<1>0. Approval!UsedOnce <=> \A k \in Runs : RunEffects[k] = IF RunTokens[k] = "used" THEN 1 ELSE 0
  BY DEF Approval!UsedOnce, RunTokens, RunEffects
<1>0p. Approval!UsedOnce' <=> \A k \in Runs : RunEffects'[k] = IF RunTokens'[k] = "used" THEN 1 ELSE 0
  BY DEF Approval!UsedOnce, RunTokens, RunEffects
<1>1. ASSUME NEW k \in Runs, NEW to \in {"offered", "granted", "spent"},
             RunTokens[k] \in {"none", "offered", "granted"}, UNCHANGED RunEffects,
             RunTokens' = [RunTokens EXCEPT ![k] = to]
      PROVE  TokenInv'
  BY <1>0, <1>0p, <1>1 DEF TokenInv
<1>2. ASSUME NEW k \in Runs, Approval!Offer(k) \/ Approval!Grant(k) \/ Approval!Spend(k) PROVE TokenInv'
  BY <1>1, <1>2 DEF Approval!Offer, Approval!Grant, Approval!Spend, Approval!Move, RunTokens, RunEffects
<1>3. ASSUME NEW k \in Runs, Approval!Use(k) PROVE TokenInv'
  <2>1. /\ RunTokens[k] = "spent" /\ RunTokens' = [RunTokens EXCEPT ![k] = "used"]
        /\ RunEffects' = [RunEffects EXCEPT ![k] = @ + 1]
    BY <1>3 DEF Approval!Use, RunTokens, RunEffects
  <2> QED
    BY <1>0, <1>0p, <2>1 DEF TokenInv
<1>4. ASSUME NEW S \in SUBSET Runs, Approval!Void(S) PROVE TokenInv'
  <2>1. /\ \A k \in S : RunTokens[k] \in {"none", "offered", "granted", "spent"}
        /\ RunTokens' = [k \in Runs |-> IF k \in S THEN "void" ELSE RunTokens[k]]
        /\ UNCHANGED RunEffects
    BY <1>4 DEF Approval!Void, RunTokens, RunEffects
  <2> QED
    BY <1>0, <1>0p, <2>1 DEF TokenInv
<1>5. CASE UNCHANGED <<RunTokens, RunEffects>>
  BY <1>0, <1>0p, <1>5 DEF TokenInv
<1> QED
  BY <1>2, <1>3, <1>4, <1>5 DEF Approval!Next

\* A target is changed exactly when its token is used, and once: every system
\* that implements the token has this, and so the agent workflow has it (the
\* worker's transaction in agents/execution-handler.ts).
THEOREM ChangedOnce == Spec => []Approval!UsedOnce
<1>1. Approval!Init => TokenInv
  BY DEF Approval!Init, Approval!UsedOnce, TokenInv, RunTokens, RunEffects
<1>2. TokenInv /\ [Approval!Next]_<<RunTokens, RunEffects>> => TokenInv'
  BY TokenStepKeeps
<1>3. TokenInv => Approval!UsedOnce
  BY DEF TokenInv
<1>4. ImplementsApproval => []Approval!UsedOnce
  BY <1>1, <1>2, <1>3, PTL DEF ImplementsApproval, Approval!Spec, RunTokens, RunEffects
<1> QED
  BY <1>4, ApprovalRefined
=============================================================================

--------------------------- MODULE AgentWorkflow ---------------------------
(***************************************************************************)
(* Changes that an agent asks for and people approve (agents): a planner   *)
(* in the MCP process freezes a plan for a target as it stands, the API    *)
(* decides, spends the approval and queues the call, or cancels, and a     *)
(* worker revalidates and applies it.  The three processes share the       *)
(* database only; the queue is the job ledger, with one job for a run, as  *)
(* the planner's budget and its only tool have one call for a plan.        *)
(***************************************************************************)
EXTENDS JobLedger, Sequences

CONSTANTS Calls,         \* requests to the planner, each with
          Key,           \*   its idempotency key, which names the run,
          Target,        \*   and the asset it would change
          Assets,
          NoCall,
          TimeToLive,    \* 30 minutes
          WallTime,      \* maxWallTimeMs
          MaxClock,      \* bound: the time modelled
          MaxWrites      \* bound: writes of each asset

Runs == Jobs

ASSUME WorkflowAssumption ==
    /\ Key \in [Calls -> Jobs] /\ Target \in [Calls -> Assets] /\ NoCall \notin Calls
    /\ TimeToLive \in Nat \ {0} /\ WallTime \in Nat /\ MaxClock \in Nat /\ MaxWrites \in Nat

VARIABLES clock,
          asset,      \* updated_at of each asset after each write, the newest last
          planner,    \* [Calls -> Planner]: the calls of the planner in the MCP process
          run,        \* [Runs -> RunRow]: agent_runs with agent_plans, approval_requests
                      \* and tool_executions
          worker      \* [Workers -> Worker]

vars == <<ledger, clock, asset, planner, run, worker>>

-----------------------------------------------------------------------------
(* Rows.                                                                   *)

Ended == {"succeeded", "failed", "cancelled"}
RunStates == {"absent", "planning", "awaiting_approval", "executing"} \union Ended
ApprovalStates == {"absent", "pending", "approved", "rejected", "expired", "cancelled", "consumed"}
ExecutionStates == {"absent", "queued"} \union Ended

\* What the planner reads of its target: updated_at, and as history how many
\* writes the asset had seen.
Snapshot == [stamp : 0..MaxClock, writes : 0..MaxWrites]
NoSnapshot == [stamp |-> 0, writes |-> 0]

\* The plan is the call it was made from and its snapshot.  effects and applied
\* are history: how often the run has changed its target, and which write of
\* the target it was.
RunRow == [state : RunStates, plan : Calls \union {NoCall}, snapshot : Snapshot, expires : Nat,
           approval : ApprovalStates, consumed : 0..MaxClock, execution : ExecutionStates,
           effects : Nat, applied : 0..MaxWrites]

AbsentRun == [state |-> "absent", plan |-> NoCall, snapshot |-> NoSnapshot, expires |-> 0, approval |-> "absent",
              consumed |-> 0, execution |-> "absent", effects |-> 0, applied |-> 0]

Planner == [at : {"idle", "creating", "freezing"}, snapshot : Snapshot,
            now : 0..MaxClock]
IdlePlanner == [at |-> "idle", snapshot |-> NoSnapshot, now |-> 0]

\* now is read at the head of the handler.
Worker == [at : {"idle", "executing", "recording", "writing", "failing", "done"},
           job : Runs \union {NoCall}, attempt : Nat, now : 0..MaxClock,
           result : {"none", "ok", "retry", "reject"}]
IdleWorker == [at |-> "idle", job |-> NoCall, attempt |-> 0, now |-> 0, result |-> "none"]

UpdatedAt(a) == IF asset[a] = <<>> THEN 0 ELSE asset[a][Len(asset[a])]
SnapshotOf(a) == [stamp |-> UpdatedAt(a), writes |-> Len(asset[a])]

Init ==
    /\ LedgerInit
    /\ clock = 0
    /\ asset = [a \in Assets |-> <<>>]
    /\ planner = [c \in Calls |-> IdlePlanner]
    /\ run = [k \in Runs |-> AbsentRun]
    /\ worker = [w \in Workers |-> IdleWorker]

-----------------------------------------------------------------------------
(* The planner: a read and two transactions, with nothing to tie them.      *)

\* A call that ended before its first transaction is as good as never made, and
\* may be made again.
ReadTarget(c) ==
    /\ planner[c].at \in {"idle", "creating"}
    /\ planner' = [planner EXCEPT ![c] = [at |-> "creating", snapshot |-> SnapshotOf(Target[c]),
                                          now |-> clock]]
    /\ UNCHANGED <<ledger, clock, asset, run, worker>>

Answer(c) == planner' = [planner EXCEPT ![c] = IdlePlanner]

\* createRun inserts the run or finds the one with this key; once it is no longer
\* planning, the call is answered with its plan, if it has one.  (A call whose
\* reason is not the one recorded is refused and changes nothing.)
CreateRun(c) ==
    LET k == Key[c]
    IN  /\ planner[c].at = "creating"
        /\ \/ /\ run[k].state = "absent"
              /\ run' = [run EXCEPT ![k] = [AbsentRun EXCEPT !.state = "planning"]]
              /\ planner' = [planner EXCEPT ![c].at = "freezing"]
           \/ /\ run[k].state = "planning"
              /\ planner' = [planner EXCEPT ![c].at = "freezing"]
              /\ UNCHANGED run
           \/ /\ run[k].state \notin {"absent", "planning"}
              /\ Answer(c)
              /\ UNCHANGED run
        /\ UNCHANGED <<ledger, clock, asset, worker>>

Freeze(c) ==
    LET k == Key[c]
    IN  /\ planner[c].at = "freezing"
        /\ \/ /\ run[k].state = "planning"
              /\ run' = [run EXCEPT ![k].state = "awaiting_approval", ![k].plan = c,
                                    ![k].snapshot = planner[c].snapshot,
                                    ![k].expires = planner[c].now + TimeToLive,
                                    ![k].approval = "pending"]
              /\ Answer(c)
           \/ /\ run[k].state # "planning"
              /\ Answer(c)
              /\ UNCHANGED run
        /\ UNCHANGED <<ledger, clock, asset, worker>>

\* The MCP process ends between its two transactions.
PlannerDies(c) ==
    /\ planner[c].at = "freezing"
    /\ Answer(c)
    /\ UNCHANGED <<ledger, clock, asset, run, worker>>

-----------------------------------------------------------------------------
(* The API.                                                                *)

\* listActionableApprovals writes the expiry down.  decideApproval does so as
\* well, but its refusal rolls that back.
ExpirePending ==
    LET due == {k \in Runs : run[k].approval = "pending" /\ run[k].expires <= clock}
    IN  /\ due # {}
        /\ run' = [k \in Runs |-> IF k \in due THEN [run[k] EXCEPT !.approval = "expired"]
                                  ELSE run[k]]
        /\ UNCHANGED <<ledger, clock, asset, planner, worker>>

\* A rejection leaves the run awaiting its approval.
Decide(k) ==
    /\ run[k].approval = "pending" /\ run[k].expires > clock
    /\ \E decision \in {"approved", "rejected"} :
         run' = [run EXCEPT ![k].approval = decision]
    /\ UNCHANGED <<ledger, clock, asset, planner, worker>>

\* assertTargetsCurrent.
TargetCurrent(k) == UpdatedAt(Target[run[k].plan]) = run[k].snapshot.stamp

\* consumeApproval.
Consume(k) ==
    /\ run[k].approval = "approved" /\ run[k].expires > clock
    /\ TargetCurrent(k)
    /\ run[k].state = "awaiting_approval"
    /\ run' = [run EXCEPT ![k].approval = "consumed", ![k].consumed = clock,
                          ![k].state = "executing", ![k].execution = "queued"]
    /\ Add(k)
    /\ UNCHANGED <<clock, asset, planner, worker>>

Unfinished(k) == run[k].execution = "queued"

\* A mutant: the job of a cancelled execution stays in the queue.
CancelRowsOnly(k) ==
    /\ run[k].state \in {"planning", "awaiting_approval", "executing"}
    /\ run' = [run EXCEPT ![k].state = "cancelled",
                          ![k].approval = IF @ = "pending" THEN "cancelled" ELSE @,
                          ![k].execution = IF Unfinished(k) THEN "cancelled" ELSE @]
    /\ UNCHANGED <<ledger, clock, asset, planner, worker>>

\* cancelRun: an approval that was granted keeps its state.
CancelRun(k) ==
    /\ run[k].state \in {"planning", "awaiting_approval", "executing"}
    /\ run' = [run EXCEPT ![k].state = "cancelled",
                          ![k].approval = IF @ = "pending" THEN "cancelled" ELSE @,
                          ![k].execution = IF Unfinished(k) THEN "cancelled" ELSE @]
    /\ Withdraw(IF Unfinished(k) THEN {k} \intersect Withdrawable ELSE {})
    /\ UNCHANGED <<clock, asset, planner, worker>>

\* AssetService.update, guarded by the ETag of what the caller read, and the
\* inspection that makes an asset ready: updated_at never goes back.
UpdateAsset(a) ==
    /\ Len(asset[a]) < MaxWrites
    /\ asset' = [asset EXCEPT ![a] = Append(@, clock)]
    /\ UNCHANGED <<ledger, clock, planner, run, worker>>

-----------------------------------------------------------------------------
(* The worker.                                                             *)

ClaimNext(w) ==
    /\ worker[w].at = "idle"
    /\ \E swept \in SUBSET Exhaustible :
         \/ /\ swept # {}
            /\ Sweep(swept)
            /\ UNCHANGED worker
         \/ \E k \in Startable :
              /\ Start(w, swept, k)
              /\ worker' = [worker EXCEPT ![w] =
                   [at |-> "executing", job |-> k, attempt |-> ledger[k].attempts + 1,
                    now |-> clock, result |-> "none"]]
    /\ UNCHANGED <<clock, asset, planner, run>>

Ends(w, result) == worker' = [worker EXCEPT ![w].at = "done", ![w].result = result]
Fails(w, result) == worker' = [worker EXCEPT ![w].at = "recording", ![w].result = result]

\* A mutant: the target is not compared with the snapshot again.
AuthorizedUnchecked(k, now) ==
    /\ run[k].execution # "cancelled"
    /\ run[k].approval = "consumed" /\ run[k].state = "executing"
    /\ now <= run[k].consumed + WallTime

\* What execute revalidates in the transaction that applies the change.
Authorized(k, now) ==
    /\ run[k].execution # "cancelled"
    /\ run[k].approval = "consumed" /\ run[k].state = "executing"
    /\ now <= run[k].consumed + WallTime
    /\ TargetCurrent(k)

Apply(w) ==
    LET k == worker[w].job
        a == Target[run[k].plan]
    IN  /\ worker[w].at = "executing"
        /\ run[k].execution # "succeeded"
        /\ Authorized(k, worker[w].now)
        /\ Len(asset[a]) < MaxWrites
        /\ asset' = [asset EXCEPT ![a] = Append(@, worker[w].now)]
        /\ run' = [run EXCEPT ![k].state = "succeeded", ![k].execution = "succeeded",
                              ![k].effects = @ + 1, ![k].applied = Len(asset[a]) + 1]
        /\ Ends(w, "ok")
        /\ UNCHANGED <<ledger, clock, planner>>

\* An execution that succeeded before is not repeated, an unauthorized one is
\* refused for good, and an error of the database is worth a retry.
ExecuteNothing(w) ==
    LET k == worker[w].job
    IN  /\ worker[w].at = "executing"
        /\ \/ run[k].execution = "succeeded" /\ Ends(w, "ok")
           \/ /\ run[k].execution # "succeeded" /\ ~Authorized(k, worker[w].now)
              /\ Fails(w, "reject")
           \/ Fails(w, "retry")
        /\ UNCHANGED <<ledger, clock, asset, planner, run>>

\* A mutant: only the last attempt is final.
TerminalByAttempts(w) == worker[w].attempt >= MaxAttempts[worker[w].job]

Terminal(w) ==
    \/ worker[w].result = "reject"
    \/ worker[w].attempt >= MaxAttempts[worker[w].job]

\* recordFailure reads the execution and writes it, and then the run, in three
\* statements without a transaction.
ReadExecution(w) ==
    /\ worker[w].at = "recording"
    /\ IF run[worker[w].job].execution \in {"succeeded", "cancelled"}
       THEN Ends(w, worker[w].result)
       ELSE worker' = [worker EXCEPT ![w].at = "writing"]
    /\ UNCHANGED <<ledger, clock, asset, planner, run>>

WriteExecution(w) ==
    LET k == worker[w].job
    IN  /\ worker[w].at = "writing"
        /\ IF Terminal(w)
           THEN /\ run' = [run EXCEPT ![k].execution = "failed"]
                /\ worker' = [worker EXCEPT ![w].at = "failing"]
           ELSE /\ run' = [run EXCEPT ![k].execution = "queued"]
                /\ Ends(w, worker[w].result)
        /\ UNCHANGED <<ledger, clock, asset, planner>>

\* A mutant: the run fails whatever it has come to.
FailAnyRun(w) ==
    LET k == worker[w].job
    IN  /\ worker[w].at = "failing"
        /\ run' = [run EXCEPT ![k].state = "failed"]
        /\ Ends(w, worker[w].result)
        /\ UNCHANGED <<ledger, clock, asset, planner>>

FailRun(w) ==
    LET k == worker[w].job
    IN  /\ worker[w].at = "failing"
        /\ run' = IF run[k].state = "executing" THEN [run EXCEPT ![k].state = "failed"] ELSE run
        /\ Ends(w, worker[w].result)
        /\ UNCHANGED <<ledger, clock, asset, planner>>

\* An error of the database while the failure is recorded takes its place.
RecordingFails(w) ==
    /\ worker[w].at \in {"recording", "writing", "failing"}
    /\ Ends(w, "retry")
    /\ UNCHANGED <<ledger, clock, asset, planner, run>>

Settle(w) ==
    /\ worker[w].at = "done"
    /\ Settles(w, worker[w].job, worker[w].result)
    /\ worker' = [worker EXCEPT ![w] = IdleWorker]
    /\ UNCHANGED <<clock, asset, planner, run>>

WorkerDies(w) ==
    /\ worker[w].at # "idle"
    /\ worker' = [worker EXCEPT ![w] = IdleWorker]
    /\ UNCHANGED <<ledger, clock, asset, planner, run>>

Tick ==
    /\ clock < MaxClock
    /\ clock' = clock + 1
    /\ UNCHANGED <<ledger, asset, planner, run, worker>>

Next ==
    \/ \E c \in Calls : ReadTarget(c) \/ CreateRun(c) \/ Freeze(c) \/ PlannerDies(c)
    \/ \E k \in Runs : Decide(k) \/ Consume(k) \/ CancelRun(k)
    \/ ExpirePending
    \/ \E a \in Assets : UpdateAsset(a)
    \/ \E w \in Workers : \/ ClaimNext(w)
                          \/ Apply(w)
                          \/ ExecuteNothing(w)
                          \/ ReadExecution(w)
                          \/ WriteExecution(w)
                          \/ FailRun(w)
                          \/ RecordingFails(w)
                          \/ Settle(w)
                          \/ WorkerDies(w)
    \/ Tick

Spec == Init /\ [][Next]_vars

-----------------------------------------------------------------------------
(* Properties.                                                             *)

\* Where a run stands with its approval.
Token(row) ==
    CASE row.state = "succeeded"                                     -> "used"
      [] row.state \in {"failed", "cancelled"}                       -> "void"
      [] row.state \notin Ended /\ row.approval \in {"rejected", "expired", "cancelled"} -> "void"
      [] row.state \notin Ended /\ row.approval = "consumed"         -> "spent"
      [] row.state \notin Ended /\ row.approval = "approved"         -> "granted"
      [] row.state \notin Ended /\ row.approval = "pending"          -> "offered"
      [] row.state \notin Ended /\ row.approval = "absent"           -> "none"

Approval == INSTANCE ApprovalToken WITH
    token <- [k \in Runs |-> Token(run[k])],
    effects <- [k \in Runs |-> run[k].effects]

\* An approval is spent once and changes its target at most once, never after it
\* was refused, has expired, or its run has failed or was cancelled, whatever
\* cancellations, stale workers and late failures cross each other.
ImplementsApproval == Approval!Spec

\* The target of a change is what its approver was shown: whatever was written to
\* it between the snapshot and the change carries the very timestamp of the
\* snapshot.  (Timestamps have milliseconds, so such writes are possible.)
ReviewedOrSimultaneous ==
    \A k \in Runs : run[k].effects > 0 =>
        \A i \in (run[k].snapshot.writes + 1)..(run[k].applied - 1) :
            asset[Target[run[k].plan]][i] = run[k].snapshot.stamp

Live(k) == ledger[k].state \in {"queued", "running"}

\* A run that executes has a job that is held or will be claimed, unless the
\* job's last attempt was lost: whoever gives a job up for good has ended its run
\* first.
StuckOnlyWhenExhausted ==
    \A k \in Runs : run[k].state = "executing" =>
        Live(k) \/ ledger[k].attempts = MaxAttempts[k]

\* docs/agent-workflows.md: cancellation revokes queued and leased work.  An
\* execution that was cancelled has no job left that a worker holds or may claim.
CancellationRevokes == \A k \in Runs : run[k].execution = "cancelled" => ~Live(k)
=============================================================================

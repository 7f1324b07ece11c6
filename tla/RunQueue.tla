------------------------------ MODULE RunQueue ------------------------------
(***************************************************************************)
(* The run queue of the backend: the rows of the workflow_runs table, the  *)
(* worker loops (worker/mod.rs) that claim rows under a lease, and the     *)
(* tasks those loops spawn to execute a run under a deadline.  The table   *)
(* is shared by every server process; a worker is one process.  What a     *)
(* task does with the nodes of the workflow is the subject of Executor;    *)
(* here a task executes some nodes and then asks for one final write       *)
(* (complete or pause).                                                    *)
(*                                                                         *)
(* Time is relative.  leaseLeft is lease_expires_at - now(), resumeLeft is *)
(* max(0, resume_at - now()), a task's age is the time since its claim.    *)
(* One SQL statement is shorter than a tick.                               *)
(***************************************************************************)
EXTENDS Integers, FiniteSets

CONSTANTS
    NumRuns,        \* runs are numbered in the order of created_at
    Workflows,      \* workflow ids
    WorkflowOf,     \* the workflow_id column, [Runs -> Workflows]
    Workers,        \* server processes, each with one worker loop
    NoWorker,       \* SQL NULL in leased_by
    UseLeases,      \* WORKER_USE_LEASES
    Lease,          \* worker_lease_seconds
    Deadline,       \* run_deadline; 0 is "no deadline"
    RenewEvery,     \* lease_refresh_interval
    MaxInflight,    \* WORKER_MAX_INFLIGHT_RUNS
    MaxStall,       \* ticks a task may spend outside its timer
    Limits,         \* values of concurrency_limit users choose from
    Priorities,     \* values of queue_priority users choose from
    ReplyLoss,      \* can a connection die after a commit, before the reply?
    MaxTries,       \* PERSISTENCE_MAX_ATTEMPTS
    MaxDelay,       \* bound: longest pause of a delay node, in ticks
    MaxPauses,      \* bound: claims after which a run pauses no more
    MaxClaims,      \* bound: claims of one run
    MaxFaults       \* bound: failed statements, lost replies, panics, crashes

Runs == 1..NumRuns

ASSUME RunsAssumption == NumRuns \in Nat /\ WorkflowOf \in [Runs -> Workflows]
ASSUME WorkersAssumption == NoWorker \notin Workers
ASSUME TimesAssumption ==
    /\ Lease \in Nat \ {0} /\ Deadline \in Nat /\ MaxStall \in Nat
    /\ RenewEvery \in Nat \ {0} /\ MaxDelay \in Nat
ASSUME SwitchesAssumption == UseLeases \in BOOLEAN /\ ReplyLoss \in BOOLEAN
ASSUME LimitsAssumption ==
    /\ Limits \subseteq Nat \ {0} /\ 1 \in Limits
    /\ Priorities \subseteq Int /\ 0 \in Priorities
ASSUME BoundsAssumption ==
    /\ MaxInflight \in Nat \ {0} /\ MaxTries \in Nat \ {0}
    /\ MaxPauses \in Nat /\ MaxClaims \in Nat /\ MaxFaults \in Nat

VARIABLES
    status,      \* workflow_runs.status; "absent" before, "purged" after the row
    leasedBy,    \* workflow_runs.leased_by
    leaseLeft,   \* workflow_runs.lease_expires_at, relative to now()
    resumeLeft,  \* workflow_runs.resume_at, relative to now()
    finished,    \* workflow_runs.finished_at IS NOT NULL
    priority,    \* workflow_runs.queue_priority
    claimNo,     \* how often the row was claimed (column attempt)
    limit,       \* workflows.concurrency_limit
    loop,        \* what each worker loop does next
    snap,        \* what a claim statement in progress read
    inflight,    \* the tasks of all the loops' JoinSets
    faults       \* faults that may still happen

row == <<status, leasedBy, leaseLeft, resumeLeft, finished, priority, claimNo>>
vars == <<row, limit, loop, snap, inflight, faults>>

Final == {"succeeded", "failed", "canceled"}
Gone == {"absent", "purged"}
Statuses == {"queued", "running"} \cup Final \cup Gone
LoopSteps == {"reap", "requeue", "claim", "claiming", "stopped", "down"}

(***************************************************************************)
(* A task: "precheck" is block_run_if_runaway, "exec" is execute_run under *)
(* its timer, "finish" waits for a final write of execute_run to be        *)
(* applied and "written" for its reply; "late" and "lateWritten" are the   *)
(* same for a write outside the timer.  A task that is "done" (or          *)
(* panicked) or ended in an ExecutorError stays until the loop joins it.   *)
(***************************************************************************)
Phases == {"precheck", "exec", "finish", "written", "late", "lateWritten",
           "done", "error"}
Ops == Final \cup {"none", "pause"}

Task == [worker: Workers, run: Runs, no: Nat, phase: Phases, op: Ops,
         tries: Nat, age: Nat, since: Nat]

\* The task may still run nodes of its workflow or move its run in the queue.
Owner(t) == t.phase \in {"precheck", "exec", "finish"}
Live(t) == t.phase \notin {"done", "error"}

NoSnap == [cands |-> {}, prio |-> [r \in Runs |-> 0]]

TypeOK ==
    /\ status \in [Runs -> Statuses]
    /\ leasedBy \in [Runs -> Workers \cup {NoWorker}]
    /\ leaseLeft \in [Runs -> Int]
    /\ resumeLeft \in [Runs -> Nat]
    /\ finished \in [Runs -> BOOLEAN]
    /\ priority \in [Runs -> Int]
    /\ claimNo \in [Runs -> Nat]
    /\ limit \in [Workflows -> Nat \ {0}]
    /\ loop \in [Workers -> LoopSteps]
    /\ snap \in [Workers -> [cands: SUBSET Runs, prio: [Runs -> Int]]]
    /\ inflight \subseteq Task
    /\ faults \in Nat

Init ==
    /\ status = [r \in Runs |-> "absent"]
    /\ leasedBy = [r \in Runs |-> NoWorker]
    /\ leaseLeft = [r \in Runs |-> 0]
    /\ resumeLeft = [r \in Runs |-> 0]
    /\ finished = [r \in Runs |-> FALSE]
    /\ priority = [r \in Runs |-> 0]
    /\ claimNo = [r \in Runs |-> 0]
    /\ limit = [f \in Workflows |-> 1]
    /\ loop = [w \in Workers |-> "reap"]
    /\ snap = [w \in Workers |-> NoSnap]
    /\ inflight = {}
    /\ faults = MaxFaults

Spend(n) == faults >= n /\ faults' = faults - n

-----------------------------------------------------------------------------
(* Requests of users, through routes/workflows. *)

\* INSERT with status 'queued' and resume_at = now().
CreateRun(r) ==
    /\ status[r] = "absent"
    /\ \A q \in Runs : q < r => status[q] # "absent"
    /\ status' = [status EXCEPT ![r] = "queued"]
    /\ UNCHANGED <<leasedBy, leaseLeft, resumeLeft, finished, priority, claimNo,
                   limit, loop, snap, inflight, faults>>

CancelRuns(rs) ==
    LET hit == {r \in rs : status[r] \in {"queued", "running"}}
    IN /\ hit # {}
       /\ status' = [r \in Runs |-> IF r \in hit THEN "canceled" ELSE status[r]]
       /\ finished' = [r \in Runs |-> r \in hit \/ finished[r]]
       /\ UNCHANGED <<leasedBy, leaseLeft, resumeLeft, priority, claimNo,
                      limit, loop, snap, inflight, faults>>

CancelWorkflowRun(r) == CancelRuns({r})

CancelAllRunsForWorkflow(f) == CancelRuns({r \in Runs : WorkflowOf[r] = f})

SetRunPriority(r, p) ==
    /\ status[r] \notin Gone
    /\ priority' = [priority EXCEPT ![r] = p]
    /\ UNCHANGED <<status, leasedBy, leaseLeft, resumeLeft, finished, claimNo,
                   limit, loop, snap, inflight, faults>>

\* The route refuses a limit below 1 (and above 1 on the solo plan).
SetConcurrencyLimit(f, n) ==
    /\ n >= 1
    /\ limit' = [limit EXCEPT ![f] = n]
    /\ UNCHANGED <<row, loop, snap, inflight, faults>>

-----------------------------------------------------------------------------
(* One iteration of worker_loop: reap, purge, requeue, claim. *)

\* Mutant: tasks that are done are never joined.
ReapOnlyErrors(w) ==
    LET mine == {t \in inflight : t.worker = w}
    IN /\ loop[w] = "reap"
       /\ IF \E t \in mine : t.phase = "error"
            THEN /\ loop' = [loop EXCEPT ![w] = "stopped"]
                 /\ inflight' = inflight \ mine
            ELSE /\ loop' = [loop EXCEPT ![w] = "requeue"]
                 /\ UNCHANGED inflight
       /\ UNCHANGED <<row, limit, snap, faults>>

\* try_join_next: an ExecutorError ends the loop and drops the JoinSet.
Reap(w) ==
    LET mine == {t \in inflight : t.worker = w}
    IN /\ loop[w] = "reap"
       /\ IF \E t \in mine : t.phase = "error"
            THEN /\ loop' = [loop EXCEPT ![w] = "stopped"]
                 /\ inflight' = inflight \ mine
            ELSE /\ loop' = [loop EXCEPT ![w] = "requeue"]
                 /\ inflight' = {t \in inflight : t.worker = w => t.phase # "done"}
       /\ UNCHANGED <<row, limit, snap, faults>>

\* Deletes the finished rows of `old`, the runs created before the retention
\* period.
PurgeOldRuns(w, old) ==
    LET hit == {r \in old : status[r] \in Final}
    IN /\ loop[w] = "requeue"
       /\ hit # {}
       /\ status' = [r \in Runs |-> IF r \in hit THEN "purged" ELSE status[r]]
       /\ UNCHANGED <<leasedBy, leaseLeft, resumeLeft, finished, priority, claimNo,
                      limit, loop, snap, inflight, faults>>

\* Mutant: a lease expires one tick early.
ExpiredEarly(r) ==
    status[r] = "running" /\ leasedBy[r] # NoWorker /\ leaseLeft[r] <= 0

Expired(r) ==
    status[r] = "running" /\ leasedBy[r] # NoWorker /\ leaseLeft[r] < 0

RequeueExpiredLeases(w) ==
    /\ UseLeases
    /\ loop[w] = "requeue"
    /\ status' = [r \in Runs |-> IF Expired(r) THEN "queued" ELSE status[r]]
    /\ leasedBy' = [r \in Runs |-> IF Expired(r) THEN NoWorker ELSE leasedBy[r]]
    /\ leaseLeft' = [r \in Runs |-> IF Expired(r) THEN 0 ELSE leaseLeft[r]]
    /\ resumeLeft' = [r \in Runs |-> IF Expired(r) THEN 0 ELSE resumeLeft[r]]
    /\ loop' = [loop EXCEPT ![w] = "claim"]
    /\ UNCHANGED <<finished, priority, claimNo, limit, snap, inflight, faults>>

\* The statement fails (logged, and the loop goes on), or leases are off.
SkipRequeue(w) ==
    /\ loop[w] = "requeue"
    /\ IF UseLeases THEN Spend(1) ELSE UNCHANGED faults
    /\ loop' = [loop EXCEPT ![w] = "claim"]
    /\ UNCHANGED <<row, limit, snap, inflight>>

HasRoom(w) == Cardinality({t \in inflight : t.worker = w}) < MaxInflight

AtCapacity(w) ==
    /\ loop[w] = "claim"
    /\ ~HasRoom(w)
    /\ loop' = [loop EXCEPT ![w] = "reap"]
    /\ UNCHANGED <<row, limit, snap, inflight, faults>>

Due(r) == status[r] = "queued" /\ resumeLeft[r] = 0

Claimable(r) == Due(r) /\ claimNo[r] < MaxClaims

RunningOf(f) == {q \in Runs : WorkflowOf[q] = f /\ status[q] = "running"}

Eligible(r) == Due(r) /\ Cardinality(RunningOf(WorkflowOf[r])) < limit[WorkflowOf[r]]

\* claim_next_eligible_run reads its snapshot: under READ COMMITTED the count
\* of running rows is the one at the start of the statement.
ReadClaimSnapshot(w) ==
    /\ UseLeases
    /\ loop[w] = "claim"
    /\ HasRoom(w)
    /\ snap' = [snap EXCEPT ![w] =
                  [cands |-> {r \in Runs : Eligible(r)}, prio |-> priority]]
    /\ loop' = [loop EXCEPT ![w] = "claiming"]
    /\ UNCHANGED <<row, limit, inflight, faults>>

\* ORDER BY queue_priority DESC, created_at ASC, on the snapshot's priorities.
Before(prio, q, r) == prio[q] > prio[r] \/ (prio[q] = prio[r] /\ q < r)

\* Mutant: the row is claimed as the snapshot showed it.
LockableStale(w) == {r \in snap[w].cands : claimNo[r] < MaxClaims}

\* FOR UPDATE SKIP LOCKED takes the first candidate whose current version still
\* matches.
Lockable(w) == {r \in snap[w].cands : Claimable(r)}

FirstLockable(w, r) ==
    /\ r \in Lockable(w)
    /\ \A q \in Lockable(w) : q = r \/ Before(snap[w].prio, r, q)

NewTask(w, r) ==
    [worker |-> w, run |-> r, no |-> claimNo[r] + 1, phase |-> "precheck",
     op |-> "none", tries |-> 0, age |-> 0, since |-> 0]

Lock(w, r) ==
    /\ status' = [status EXCEPT ![r] = "running"]
    /\ leasedBy' = [leasedBy EXCEPT ![r] = w]
    /\ leaseLeft' = [leaseLeft EXCEPT ![r] = Lease]
    /\ claimNo' = [claimNo EXCEPT ![r] = @ + 1]
    /\ snap' = [snap EXCEPT ![w] = NoSnap]
    /\ loop' = [loop EXCEPT ![w] = "reap"]
    /\ UNCHANGED <<resumeLeft, finished, priority, limit>>

ClaimNextEligibleRun(w, r) ==
    /\ UseLeases
    /\ loop[w] = "claiming"
    /\ FirstLockable(w, r)
    /\ Lock(w, r)
    /\ inflight' = inflight \cup {NewTask(w, r)}
    /\ UNCHANGED faults

\* The claim commits but the loop sees an error: a leased row without a task.
ClaimReplyLost(w, r) ==
    /\ UseLeases /\ ReplyLoss
    /\ loop[w] = "claiming"
    /\ FirstLockable(w, r)
    /\ Lock(w, r)
    /\ Spend(1)
    /\ UNCHANGED inflight

\* Nothing to claim, or the statement fails: sleep, then the next iteration.
ClaimNothing(w) ==
    /\ loop[w] = "claiming"
    /\ IF Lockable(w) = {} THEN UNCHANGED faults ELSE Spend(1)
    /\ snap' = [snap EXCEPT ![w] = NoSnap]
    /\ loop' = [loop EXCEPT ![w] = "reap"]
    /\ UNCHANGED <<row, limit, inflight>>

\* claim_next_queued_run, used when leases are off: first in, first out, no
\* lease, no limit.
ClaimNextQueuedRun(w, r) ==
    /\ ~UseLeases
    /\ loop[w] = "claim"
    /\ HasRoom(w)
    /\ Claimable(r)
    /\ \A q \in Runs : Claimable(q) => r <= q
    /\ status' = [status EXCEPT ![r] = "running"]
    /\ claimNo' = [claimNo EXCEPT ![r] = @ + 1]
    /\ inflight' = inflight \cup {NewTask(w, r)}
    /\ loop' = [loop EXCEPT ![w] = "reap"]
    /\ UNCHANGED <<leasedBy, leaseLeft, resumeLeft, finished, priority, limit,
                   snap, faults>>

NoQueuedRun(w) ==
    /\ ~UseLeases
    /\ loop[w] = "claim"
    /\ HasRoom(w)
    /\ \A r \in Runs : ~Claimable(r)
    /\ loop' = [loop EXCEPT ![w] = "reap"]
    /\ UNCHANGED <<row, limit, snap, inflight, faults>>

-----------------------------------------------------------------------------
(* A task: run_with_deadline and, inside the timer, execute_run. *)

Become(t, u) == inflight' = (inflight \ {t}) \cup {u}

\* block_run_if_runaway lets the run pass; the first pop renews the lease.
StartExec(t) ==
    /\ t.phase = "precheck"
    /\ Become(t, [t EXCEPT !.phase = "exec", !.since = RenewEvery])
    /\ UNCHANGED <<row, limit, loop, snap, faults>>

\* It does not: the run is failed, outside the timer.
BlockRunaway(t) ==
    /\ t.phase = "precheck"
    /\ Become(t, [t EXCEPT !.phase = "late", !.op = "failed"])
    /\ UNCHANGED <<row, limit, loop, snap, faults>>

RenewDue(t) == t.since >= RenewEvery

\* renew_run_lease, called when due at the top of the node loop.  It matches
\* rows by run and worker, and a row that no longer matches is not an error.
RenewRunLease(t) ==
    leaseLeft' = IF RenewDue(t) /\ status[t.run] \notin Gone
                                /\ leasedBy[t.run] = t.worker
                   THEN [leaseLeft EXCEPT ![t.run] = Lease]
                   ELSE leaseLeft

\* One iteration of the node loop that goes on to execute a node (one that is
\* not due to renew changes nothing here).
NodeStep(t) ==
    /\ t.phase = "exec"
    /\ RenewDue(t)
    /\ RenewRunLease(t)
    /\ Become(t, [t EXCEPT !.since = 0])
    /\ UNCHANGED <<status, leasedBy, resumeLeft, finished, priority, claimNo,
                   limit, loop, snap, faults>>

Finish(t, op) == Become(t, [t EXCEPT !.phase = "finish", !.op = op, !.since = 0])

\* The cancellation poll of an iteration reads 'canceled'.
ObserveCancel(t) ==
    /\ t.phase = "exec"
    /\ status[t.run] = "canceled"
    /\ RenewRunLease(t)
    /\ Finish(t, "canceled")
    /\ UNCHANGED <<status, leasedBy, resumeLeft, finished, priority, claimNo,
                   limit, loop, snap, faults>>

\* Every attempt to renew fails: "Worker lost lease during execution".
RenewFails(t) ==
    /\ t.phase = "exec"
    /\ RenewDue(t)
    /\ Spend(MaxTries)
    /\ Finish(t, "canceled")
    /\ UNCHANGED <<row, limit, loop, snap>>

\* The node loop ends: no node is left, a node failed, or a delay node pauses.
EndExec(t, op) ==
    /\ t.phase = "exec"
    /\ op = "pause" => t.no <= MaxPauses
    /\ Finish(t, op)
    /\ UNCHANGED <<row, limit, loop, snap, faults>>

\* timeout() fires while execute_run, its final write or the reply to it is
\* pending: the future is dropped and the run is failed, outside the timer.
DeadlineExceeded(t) ==
    /\ Deadline > 0
    /\ t.age >= Deadline
    /\ t.phase \in {"exec", "finish", "written"}
    /\ Become(t, [t EXCEPT !.phase = "late", !.op = "failed", !.tries = 0,
                          !.since = 0])
    /\ UNCHANGED <<row, limit, loop, snap, faults>>

\* record_run_event, or insert_dead_letter, fails on every attempt.  In the
\* second case the executor still tries to mark the run failed.
PersistenceError(t) ==
    /\ t.phase = "exec"
    /\ Spend(MaxTries)
    /\ \/ UNCHANGED <<status, finished>>
       \/ /\ status[t.run] \notin Gone
          /\ status' = [status EXCEPT ![t.run] = "failed"]
          /\ finished' = [finished EXCEPT ![t.run] = TRUE]
    /\ Become(t, [t EXCEPT !.phase = "error", !.age = 0, !.since = 0])
    /\ UNCHANGED <<leasedBy, leaseLeft, resumeLeft, priority, claimNo, limit, loop, snap>>

\* The effect of the final write.  Both statements match the row by its id
\* alone, whatever its status and whoever holds the lease.
CompleteWorkflowRun(r, op) ==
    /\ status' = [status EXCEPT ![r] = IF @ \in Gone THEN @ ELSE op]
    /\ finished' = [finished EXCEPT ![r] = @ \/ status[r] \notin Gone]
    /\ UNCHANGED <<leasedBy, leaseLeft, resumeLeft>>

PauseWorkflowRun(r) ==
    IF status[r] \in Gone
      THEN UNCHANGED <<status, leasedBy, leaseLeft, resumeLeft, finished>>
      ELSE /\ status' = [status EXCEPT ![r] = "queued"]
           /\ leasedBy' = [leasedBy EXCEPT ![r] = NoWorker]
           /\ leaseLeft' = [leaseLeft EXCEPT ![r] = 0]
           /\ \E d \in 0..MaxDelay : resumeLeft' = [resumeLeft EXCEPT ![r] = d]
           /\ UNCHANGED finished

FinalWrite(t) ==
    /\ t.phase \in {"finish", "late"}
    /\ IF t.op = "pause" THEN PauseWorkflowRun(t.run)
                         ELSE CompleteWorkflowRun(t.run, t.op)
    /\ Become(t, [t EXCEPT !.phase = IF @ = "finish" THEN "written" ELSE "lateWritten"])
    /\ UNCHANGED <<priority, claimNo, limit, loop, snap, faults>>

End(t, phase) ==
    Become(t, [t EXCEPT !.phase = phase, !.op = "none", !.tries = 0, !.age = 0,
                        !.since = 0])

Reply(t) ==
    /\ t.phase \in {"written", "lateWritten"}
    /\ End(t, "done")
    /\ UNCHANGED <<row, limit, loop, snap, faults>>

\* retry_with_backoff after a failed attempt: again, or an ExecutorError.
Retry(t, phase) ==
    IF t.tries + 1 < MaxTries
      THEN Become(t, [t EXCEPT !.phase = phase, !.tries = @ + 1])
      ELSE End(t, "error")

WriteFails(t) ==
    /\ t.phase \in {"finish", "late"}
    /\ Spend(1)
    /\ Retry(t, t.phase)
    /\ UNCHANGED <<row, limit, loop, snap>>

\* The write was applied, but the executor sees an error and retries it.
WriteReplyLost(t) ==
    /\ ReplyLoss
    /\ t.phase \in {"written", "lateWritten"}
    /\ Spend(1)
    /\ Retry(t, IF t.phase = "written" THEN "finish" ELSE "late")
    /\ UNCHANGED <<row, limit, loop, snap>>

\* A panic is joined by the loop like a task that is done.
TaskPanics(t) ==
    /\ Live(t)
    /\ Spend(1)
    /\ End(t, "done")
    /\ UNCHANGED <<row, limit, loop, snap>>

-----------------------------------------------------------------------------
(* The processes and the clock. *)

Crash(w) ==
    /\ loop[w] # "down"
    /\ Spend(1)
    /\ loop' = [loop EXCEPT ![w] = "down"]
    /\ snap' = [snap EXCEPT ![w] = NoSnap]
    /\ inflight' = {t \in inflight : t.worker # w}
    /\ UNCHANGED <<row, limit>>

\* start_background_workers of a new process.
Restart(w) ==
    /\ loop[w] = "down"
    /\ loop' = [loop EXCEPT ![w] = "reap"]
    /\ UNCHANGED <<row, limit, snap, inflight, faults>>

\* Where there is a deadline a task ends within MaxStall ticks of it: the time
\* spent before the timer starts, by a late timer and by the write after it.
MayTick ==
    /\ \A w \in Workers : loop[w] # "claiming"
    /\ \A t \in inflight : Live(t) /\ Deadline > 0 => t.age < Deadline + MaxStall

Aged(t) ==
    IF Live(t)
      THEN [t EXCEPT !.age = IF Deadline > 0 THEN @ + 1 ELSE @,
                     !.since = IF t.phase = "exec" /\ @ < RenewEvery THEN @ + 1 ELSE @]
      ELSE t

Tick ==
    /\ MayTick
    /\ leaseLeft' = [r \in Runs |->
         IF leasedBy[r] # NoWorker /\ leaseLeft[r] >= 0 THEN leaseLeft[r] - 1 ELSE leaseLeft[r]]
    /\ resumeLeft' = [r \in Runs |-> IF resumeLeft[r] > 0 THEN resumeLeft[r] - 1 ELSE 0]
    /\ inflight' = {Aged(t) : t \in inflight}
    /\ UNCHANGED <<status, leasedBy, finished, priority, claimNo, limit, loop, snap, faults>>

-----------------------------------------------------------------------------
UserStep ==
    \/ \E r \in Runs : CreateRun(r)
    \/ \E r \in Runs : CancelWorkflowRun(r)
    \/ \E f \in Workflows : CancelAllRunsForWorkflow(f)
    \/ \E r \in Runs, p \in Priorities : SetRunPriority(r, p)
    \/ \E f \in Workflows, n \in Limits : SetConcurrencyLimit(f, n)

LoopStep(w) ==
    \/ Reap(w)
    \/ RequeueExpiredLeases(w)
    \/ SkipRequeue(w)
    \/ AtCapacity(w)
    \/ ReadClaimSnapshot(w)
    \/ \E r \in Runs : ClaimNextEligibleRun(w, r)
    \/ \E r \in Runs : ClaimReplyLost(w, r)
    \/ ClaimNothing(w)
    \/ \E r \in Runs : ClaimNextQueuedRun(w, r)
    \/ NoQueuedRun(w)

TaskStep(t) ==
    \/ StartExec(t)
    \/ BlockRunaway(t)
    \/ NodeStep(t)
    \/ ObserveCancel(t)
    \/ RenewFails(t)
    \/ \E op \in {"succeeded", "failed", "pause"} : EndExec(t, op)
    \/ DeadlineExceeded(t)
    \/ PersistenceError(t)
    \/ FinalWrite(t)
    \/ Reply(t)
    \/ WriteFails(t)
    \/ WriteReplyLost(t)
    \/ TaskPanics(t)

Next ==
    \/ UserStep
    \/ \E w \in Workers : LoopStep(w)
    \/ \E w \in Workers, old \in SUBSET Runs : PurgeOldRuns(w, old)
    \/ \E t \in inflight : TaskStep(t)
    \/ \E w \in Workers : Crash(w) \/ Restart(w)
    \/ Tick

Spec == Init /\ [][Next]_vars

(***************************************************************************)
(* Fairness: the loops and the tasks are scheduled by the runtime, time    *)
(* passes, a crashed process is started again.  A task leaves the node     *)
(* loop because execute_run visits a node at most once.  The fairness of   *)
(* Tick is strong only because a tick waits for a claim statement to end.  *)
(***************************************************************************)
EndTask(w, r) ==
    \E t \in inflight :
       /\ t.worker = w /\ t.run = r
       /\ \/ StartExec(t) \/ EndExec(t, "succeeded")
          \/ FinalWrite(t) \/ Reply(t)

FairSpec ==
    /\ Spec
    /\ SF_vars(Tick)
    /\ \A w \in Workers :
         /\ WF_vars(LoopStep(w))
         /\ WF_vars(Restart(w))
         /\ \A r \in Runs : WF_vars(EndTask(w, r))

-----------------------------------------------------------------------------
(* Properties. *)

\* The default of run_deadline_duration keeps the deadline below the lease; the
\* rest of the lease has to cover the time a task spends outside its timer.
Timely == Deadline > 0 /\ Deadline + MaxStall <= Lease

\* No run is executed by two tasks at once, in one process or in two, whatever
\* crashes, panics or is requeued: the claim of worker_loop is exclusive until
\* the task is past its final write.  (Holds when Timely and no reply is lost,
\* or when leases are off.)
OneExecutor ==
    \A t, u \in inflight : Owner(t) /\ Owner(u) /\ t.run = u.run => t = u

\* While a task executes a run, the row is not back in the queue, and if it is
\* still running it is leased to the task's worker and the lease has not
\* expired: requeue_expired_leases never takes a run from a task at work.
LeaseProtectsTask ==
    \A t \in inflight : Owner(t) =>
       /\ status[t.run] # "queued"
       /\ UseLeases /\ status[t.run] = "running" =>
             leasedBy[t.run] = t.worker /\ leaseLeft[t.run] >= 0

\* Every queued row is free of a lease and, with leases on, every running row
\* has one: no interleaving of claims, pauses, requeues and late writes leaves
\* a running row that requeue_expired_leases could never find again.
LeaseMatchesStatus ==
    \A r \in Runs :
       /\ status[r] = "queued" => leasedBy[r] = NoWorker
       /\ UseLeases /\ status[r] = "running" => leasedBy[r] # NoWorker

\* A canceled run is not queued or executed again.  (The code breaks this: the
\* final write of the task at work on the run ignores the cancellation.)
CancelIsNotUndone ==
    [][\A r \in Runs : status[r] = "canceled" =>
          status'[r] \notin {"queued", "running"}]_vars

\* The worker whose task is at work on run r.
Holder(r) == {t.worker : t \in {u \in inflight : Owner(u) /\ u.run = r}}

Lifecycle == INSTANCE RunLifecycle
             WITH life <- status, holder <- [r \in Runs |-> Holder(r)]

\* The queue implements RunLifecycle: whatever crashes, panics, expires or is
\* requeued, a run changes hands only through the queue and no statement of
\* worker_loop takes it from the worker that executes it.  (Holds under the
\* conditions of OneExecutor.)
ImplementsLifecycle == Lifecycle!LifeSpec

\* A workflow never has more running rows than the largest concurrency_limit
\* its owner may choose; on the solo plan, where Limits = {1}, it "runs one job
\* at a time".  (Holds with one server process.)
WithinConcurrencyLimit ==
    \A f \in Workflows : \E n \in Limits : Cardinality(RunningOf(f)) <= n

\* Every run that is created ends, however often a worker crashes or panics
\* while it holds the lease, unless persistence errors have ended every loop.
EveryRunEnds ==
    \A r \in Runs : status[r] \in {"queued", "running"} ~>
       status[r] \in Final \cup Gone \/ \A w \in Workers : loop[w] = "stopped"
=============================================================================

# DSentr: runs, what starts them, who may use what, and what the routes promise

TLA+ modules, TLC runs and TLAPS proofs for the DSentr backend: the Rust server under `src/backend/src`
and the PostgreSQL tables that all its processes share. The core is what happens to a workflow run
(admission, queue, execution); around it are modelled the other producers of runs, the tenancy
(members, billing, credentials, sessions, accounts), the calls of outside services, and the routes.

| module | what it is |
| --- | --- |
| `RunLifecycle` | what the run queue promises, without leases, clocks or retries |
| `RunQueue` | rows of `workflow_runs`, worker loops, leases, the tasks that execute runs; implements `RunLifecycle` |
| `Executor` | one run as `execute_run` walks its graph, over pauses and lost attempts |
| `Admission` | requests that start runs: runaway protection, quota ticket, idempotent insert |
| `Schedules`, `NotionPoller`, `Webhooks`, `DeadLetters` | what starts runs besides a user |
| `Membership`, `Billing`, `Accounts`, `Sessions`, `Connections`, `Workflows`, `Secrets` | who may use what |
| `ActionScripts`, `BrowseScripts`, `ServiceCalls` | calls of outside services by nodes and by the editor |
| `Egress`, `OAuthConnect` | the hosts an HTTP node may contact; the flows that connect an account |
| `Logins`, `Issues`, `RunStream`, `Visibility` | logins and reset links, support desk, event streams, routes that only read |
| `MCRunQueue`, `MCQueueModes`, `MCExecutor`, `MCTriggers`, `MCTenancy`, `MCIntegrations`, `MCRoutes` | the finite instances TLC checks |
| `RunQueueProofs`, `ExecutorProofs`, `AdmissionProofs` | theorems about the core, for all values of the constants |
| `TriggersProofs` | theorems about `Schedules`, `NotionPoller`, `Webhooks`, `DeadLetters` |
| `TenancyProofs` | theorems about `Membership`, `Accounts`, `Sessions`, `Workflows`, `Secrets` |
| `PlanAndSharingProofs` | theorems about `Billing` and `Connections` |
| `IntegrationsProofs` | theorems about `ServiceCalls` with its scripts, `Egress`, `OAuthConnect` |
| `RoutesProofs` | theorems about `Logins`, `Issues`, `RunStream`, `Visibility` |

`PROJECT.json` maps every definition to the lines it models and lists components, runs, mutants,
findings, hazards and theorems. Paths below are relative to `src/backend/src`.

## 1. Inventory

**Servers and workers.** A server process (`main.rs`) serves the HTTP routes and starts one
`worker_loop` (`worker/mod.rs`). Any number of processes may run against one database. A loop repeats:
join finished tasks, purge old runs, process due schedules, requeue expired leases, claim a run, spawn a
task for it. Almost nothing is done in a transaction of more than one statement: the database gives
single statements, and everything between two of them can interleave, fail or be cut off. Two
things are local to a process: the session cache and the mutexes of workspace connections.

| component | state | operations | hard behaviour | correct means |
| --- | --- | --- | --- | --- |
| **Run queue** (`worker/mod.rs`, `db/postgres_workflow_repository.rs`) | `workflow_runs` (status, lease, resume time, priority), `workflows.concurrency_limit`, each loop's `JoinSet` | create, claim, renew, requeue, pause, complete, cancel, purge | several processes, leases against deadlines, crashes, lost replies, a claim that is not one step | one executor per run, no run lost, limit kept, every run ends |
| **Executor** (`engine/executor.rs`, `engine/graph.rs`) | snapshot with `_resume_*` fields, node runs, dead letters; stack, visited, context | walk, branch, stop at an error, pause, resume, cancel | cycles and joins, death between two statements, what survives a pause | every reachable node once, only justified nodes, dead letter for each failed run, the walk ends |
| **Admission** (`routes/workflows/runs.rs`, `state.rs`, `db/postgres_workspace_repository.rs`) | `workspace_run_usage`, plan, unique index on idempotency keys, Stripe meter | take a ticket, report overage, insert or find the run, give back | concurrent requests, first and last row, retries | usage exact, one run per key |
| **Schedules** (`worker/mod.rs`, `utils/schedule.rs`) | `workflow_schedules` | sync on save, trigger, mark | all servers read the due rows without a lock; created, then marked | one run per due time, the schedule is the workflow's |
| **Notion polling** (`worker/notion.rs`) | state in the schedule's config | poll, save state, create runs | state saved before the runs, page budget, minute resolution | one run per row, none passed over |
| **Webhooks** (`routes/workflows/webhooks.rs`) | salt, HMAC settings, replay table | verify, record, admit | deliveries twice and at once | a signed message runs once |
| **Dead letters** (`routes/workflows/dead_letters.rs`) | `workflow_dead_letters` | list, requeue, clear | requeue in three statements | each letter becomes one run |
| **Workflow editing** (`routes/workflows/crud.rs`) | `workflows` with lock and `updated_at` | save, lock, share, delete | checks on a row read before | no save over what its author has not seen |
| **Members** (`routes/workspaces.rs`) | `workspaces`, members, invitations, shared connections | add, invite, accept, transfer, remove, leave, revoke | counts before inserts, compensations | one owner, seats within the limit, departed share nothing |
| **Billing** (`routes/stripe.rs`) | plan, pending checkout, cycle, event log | checkout, events, downgrade | events twice, late, out of order | plan follows the subscription |
| **Accounts** (`routes/auth/signup.rs`, `routes/account.rs`) | users, tokens | sign up, verify, delete | compensation of half a sign-up; Stripe before the database | all or nothing |
| **Sessions** (`session.rs`) | `user_sessions`, a cache per process | load, refresh, log out, sweep | caches against rows | a logout is final |
| **Logins** (`routes/auth`) | users, cookies, reset links | password, Google, GitHub, reset | lookup, then insert; link marked last | a callback takes over no account made meanwhile, a link works once |
| **Credentials** (`services/oauth`) | personal tokens, connections copied from them | promote, refresh, propagate, disconnect, revoke | two refreshes at once | copies keep a credential that works |
| **Connect flows** (`routes/oauth/connect.rs`) | state cookie, rows | start, callback, store, install | overlapping flows | a grant is stored, an account has one row |
| **Actions and browse routes** (`engine/actions`, `routes/slack.rs` ...) | none of their own | checks, one outside call | rights change between the checks; retries, lost answers | entitled use, what was sent is told, revoked is purged |
| **Egress** (`engine/actions/http.rs`) | operator's and workflow's lists, copies in snapshots | merge, redirect, retry | stale copies | no host outside the policy |
| **Secrets** (`routes/options`, `utils/secrets.rs`) | one JSON document per user | store, delete, list, re-encrypt | whole-document writes | a field keeps what was stored |
| **Support desk** (`routes/issues.rs`, `routes/admin/mod.rs`) | issues, messages, read marks | report, reply, open, mark | message and status, mark and fetch are two statements | nothing overlooked |
| **Streams** (`routes/workflows/sse.rs`) | what was sent | poll, send | times are those of the transaction's start | silence means no news |
| **Reading routes, console** | none | queries | rights read before the rows | shown only what one was entitled to |
| **Pure parts**: formatter, code, templating; **wiring**: mail, config, start; **front ends** | – | – | – | not modelled, see section 9 |

How they interact: a request, a due schedule, a Notion row, a webhook or a requeued letter passes
**Admission** (dead letters do not) and inserts a row with status `queued`; a worker loop of the **Run
queue** claims it, which makes the row `running` under a lease; the task hands the snapshot to the
**Executor**, whose nodes are **Actions**; it ends in one final write to the row. Members, plan and
credentials are read by Admission, Actions and every route, and changed by their own components at any
time: each module therefore contains, as actions of its environment, the changes others make to what it
reads.

The hazards of this code, each at its line, are in `PROJECT.json` under `hazards`, with the property
that covers each or the reason why none does.

**Conventions.** Every statement and outside call is a step; what the code does between two of them
without yielding belongs to the step before. A fault (a failed statement, a stopped server, a lost
reply) takes one of a bounded number. Where the code gives no guarantee, a history variable records
exactly the circumstance (a race, a failed compensation) and the property says what holds without it:
`stale`, `crowded`, `raced`, `disputed`, `lost` and the like are never read by a guard, and each is named
in the comment of its property, so that the comment is the list of what the code leaves open.

## 2. `RunLifecycle` and `RunQueue`

*State.* One function per column of `workflow_runs` the queue reads (`status`, `leasedBy`, `leaseLeft`,
`resumeLeft`, `finished`, `priority`, `claimNo` for `attempt`), the concurrency limit per workflow, the
step and the claim snapshot of each worker loop, and the set of tasks. Times are relative to `now()`:
`leaseLeft` is `lease_expires_at - now()`; `Tick` lets one unit pass. A tick does not happen inside a SQL
statement, and a live task is not left unscheduled for more than `MaxStall` ticks past its deadline.

*Actions.* `CreateRun`, `CancelWorkflowRun`, `CancelAllRunsForWorkflow`, `SetRunPriority` and
`SetConcurrencyLimit` are the routes' statements. `Reap`, `PurgeOldRuns`, `RequeueExpiredLeases`,
`SkipRequeue`, `AtCapacity`, the claim and `ClaimNothing` are the steps of one iteration of `worker_loop`.
The claim is two actions because the statement is not atomic for its reader: `ReadClaimSnapshot` is the
start of the statement, where PostgreSQL (READ COMMITTED) fixes what the subquery that counts running
rows sees, and `ClaimNextEligibleRun` is the lock of the first row that is still queued
(`FOR UPDATE SKIP LOCKED`) and the update. A task goes through `precheck` (`block_run_if_runaway`), `exec`
(`NodeStep` renews the lease when due, `ObserveCancel` polls, `EndExec` leaves the node loop), `finish`
(the final write is under way) and `written` (applied, reply pending); `DeadlineExceeded` drops whatever
of that is pending and starts the write of `failed` outside the timer. `Retry` is
`retry_with_backoff`: a statement fails, or is applied and its reply lost (`ReplyLoss`), and is tried up to
`MaxTries` times; then the task ends in an `ExecutorError`, on which `Reap` stops the loop. `Crash` and
`Restart` take a process with all its tasks. With `UseLeases = FALSE` the loop uses
`ClaimNextQueuedRun` and never requeues.

*Left out:* what happens to nodes (Executor), who may insert (Admission), the five-minute count that
decides a runaway block (a free choice here), polling intervals and sleeps.

*The promise.* `RunLifecycle` has two variables, what has become of each run and who executes it, and
says that a run is taken out of the queue by one worker, goes back only when that worker puts it there
or nobody executes it, and ends by its worker, by a cancellation or by a deadline. It also admits what
the code does and one would rather it did not: a completion or a pause may overwrite a cancellation
(`Complete`), and a deadline may turn an end into `failed` (`FailLate`). `ImplementsLifecycle` is the
refinement, with `life <- status` and the holder of a run read off the tasks at work.

| run | instance | shows |
| --- | --- | --- |
| `queue_timely` | 2 servers claiming with leases or first in, first out, 1 run, lease 2, deadline 1, 3 claims, 2 faults (630 000 states) | `OneExecutor`, `ImplementsLifecycle` |
| `queue_live` | 1 server, 1 run, 3 faults of any kind, lost replies (366 000) | `EveryRunEnds` under `FairSpec` |
| `queue_two_servers` | 2 servers, 2 runs of one workflow, limit 1 | **violates** `WithinConcurrencyLimit` |
| `queue_cancel` | 1 server, 1 run with a delay | **violates** `CancelIsNotUndone` |

*Why these bounds.* Exclusion and the cancel properties are about one row and at most two processes: a
third claimer meets the same row in the same states. Three claims let a run be claimed, paused, lost
with its server and claimed again; the lease is one tick longer than the deadline so that expiry,
deadline and stall can meet in any order. `queue_timely` (`MCQueueModes`) lets every statement of a loop be
of either setting of `WORKER_USE_LEASES`; each process reads the variable once when it starts, so this
includes every deployment, uniform or in the middle of a change. `queue_live` allows six claims, one more
than three faults and a pause can use.

*Fairness.* The loop's steps, a task's own steps and the restart of a process are weakly fair: the tokio
runtime polls what is ready, `execute_run` is finite (proved in its own module), and the deployment
restarts a dead process. `Tick` is strongly fair only because it is disabled during a claim statement,
which the loop enters again and again. No fault is fair. `EveryRunEnds` has one exception that the code
has too: when every loop has stopped on a persistence error (`worker/mod.rs:78`), nobody is left.

*Proved* (`RunQueueProofs`), for any number of runs, workflows, workers, any times and any bounds:

- `TypeCorrect`. `TypeInv` adds to `TypeOK` which operations a task may have pending (`OpOK`).
- `RunningIsLeased`: `LeaseMatchesStatus`. Inductive with one more fact, a row that does not exist has
  no lease; holds with lost replies and without any assumption on times.
- `ExecutionIsExclusive` and `LeaseOutlivesTask`, from `~ReplyLoss` and `UseLeases => Timely`
  (`Deadline > 0 /\ Deadline + MaxStall <= Lease`, which is what the default of `run_deadline_duration`,
  lease minus five seconds, is for). `OneExecutor` is not inductive: a requeue of a run at work would
  permit a second claim. The invariant `Excl` adds `Held` (the row of a task at work is not queued, and if
  it is running it is leased to the task's worker with at least `Lease - age` left) and `Young` (no live
  task is older than `Deadline + MaxStall`); together with `Timely` they keep the guard of
  `RequeueExpiredLeases` false for every task at work.

The two assumptions are needed. Without `Timely` (a deadline set beyond the lease, or 0) a requeue
overtakes a slow node, as renewal happens only between nodes. With a lost reply, `pause_run_with_retry`
writes the pause again after another worker has claimed the run.

- `QueueImplementsLifecycle`: the refinement, under the same two assumptions. Each
  action maps to one step of `RunLifecycle` or to a stutter; the steps that matter are the claim (the row
  locked is still queued, so nobody holds it) and the requeue (`Held` keeps it from a run at work).
- `LimitIsKept`: with one server and leases on, `WithinConcurrencyLimit`, which two servers violate. The
  invariant `LimitInv` adds that every limit is one of `Limits` and that, while a claim is between its count
  and its lock, the workflow of each candidate has fewer running rows than some allowed limit: in between,
  the only server claims nothing else and rows can only stop running.

*Only model-checked:* liveness.

## 3. `Executor`

*State.* The graph of the snapshot, the snapshot's underscored fields (`saved`), the status, node runs
and dead letters of the run; the locals of `execute_run` (`stack`, `visited`, `context`, the node being
awaited, `logged` for `running.is_some()`); and three history variables: the stack the attempt started
with, what each node returned in this attempt, and what nodes returned in the attempts that ended in a
pause. What a dead attempt did is not in the history: its effects are repeated by the next attempt.

*Actions.* `Begin` starts an attempt from the snapshot (`InitialStacks`, `ResumeContext`); `StartNode` and
`SkipNode` are one pop; `NodeSucceeds`, `NodePauses` and `NodeFails` are the three ways an action returns,
with the node-run write that follows and the successors `ResolveNextNodes` chooses; `ObserveCancel`,
`LoseLease` and an empty stack end the loop; `InsertDeadLetter`, `Fail`, `SavePause`, `Succeed` and
`AcknowledgeCancel` are the final writes, in the order of the code and each a step of its own.
`AttemptDies` (a crash, a panic) can happen anywhere in an attempt and `RequeueExpiredLease` makes the row
claimable again. So can `DeadlineExceeded`, after which the worker, and not the executor, marks the run as
failed (`FailLate`): it writes no dead letter and leaves the node runs as they are, which `overdue` records.
A cancel can arrive at any time.

*Abstractions.* A node's outputs are its name in `context` (labels are taken to be distinct). Action
types other than `action`, and formatters, behave alike and are one kind, `step`. The source handle of an
edge is read only at a condition, so edges are grouped by handle there and under `none` elsewhere. A delay
returns `wait` or, when its time is over, `ok`. `_trigger_context` and the egress allowlist are left out.

| run | instance | shows |
| --- | --- | --- |
| `exec` | all wirings of a trigger and two nodes of five pairs of kinds, with cycles, self loops, joins, edges into triggers and to missing nodes, with 1 fault; the wirings whose runs must end (`EndingGraphs`) with 2 faults; deadlines at any step (3.3 million states) | `AttemptIsComplete`, `EveryNodeIsJustified`, `NodeRunsAgree`, `FailedRunHasDeadLetter`, `UnbranchedRunIsComplete`; `EndingRunEnds` |
| `exec_terminal_delay` | a delay as the last node | **violates** `ResumesAfterDelay` |

`UnbranchedRunIsComplete` is `RunIsComplete` of the graphs without a delay and of those in which no branch has two successors: where a delay has
a branch beside it, the rest of the stack is dropped at the pause (`executor.rs:527`) and the run succeeds
without it. `FailedRunHasDeadLetter` and `NodeRunsAgree` except runs that a deadline has ended.

*Why these bounds.* Three nodes give every shape the walk distinguishes: a cycle with and without the
start node, a join, a node reached twice before it is popped, two handles with different targets, a
successor that does not exist. Each pair of kinds adds one behaviour (branch, stop on error, pause). A run
with a cycle through a delay pauses for ever by design, so `EndingRunEnds` says that the runs of
`EndingGraphs` end (an action and a condition in any wiring; a delay whose successor is all that is left).

*Fairness.* `Begin`, `ExecuteRun` and `RequeueExpiredLease` are weakly fair: the first and last is what
`EveryRunEnds` of RunQueue provides, and a node returns because every action has a timeout.

*Proved* (`ExecutorProofs`), for every finite set of nodes, every graph over it and any number of faults:

- `TypeCorrect`, with `NodeKnown` (there is a node while one is executed or pauses).
- `WalkVisitsOnce` and `WalkIsComplete`, from `WalkInv`: visited nodes are those that returned or are
  being executed (`VisitedIsRun`), results are possible for their kinds, and every node that is due
  (started with, or chosen by a node that returned) is visited or on the stack (`Covered`).
- `ExecutionIsJustified`, from `JustInv`. The difficulty is what survives an attempt that dies: the
  snapshot must be justified by paused attempts alone (`SavedJustified`), while stack and results may also
  use the present attempt (`WalkJustified`).
- `ContextSurvivesPauses`, from `CtxInv`: the saved context has all outputs of paused attempts, and the
  local one grows from it.

- `FailureLeavesLetter` (`FailedRunHasDeadLetter`: a run the executor itself failed for an error of a node), from
  `EndInv`: an attempt that is about to mark the run as
  failed has inserted the letter (`LetterBeforeMark`), nobody touches the row of an attempt at work but a
  cancel (`RowAtWork`), and what a run still open returned belongs to the attempt at work (`CleanStart`).
- `NodeRunsTellResults` (`NodeRunsAgree`), from `RowsInv`: without faults only the row of the node at work may
  say `running`, and every other row agrees with the last thing its node returned.
- `NothingIsDropped` (`UnbranchedRunIsComplete`): `RunIsComplete` of every graph without a delay, and of every graph
  in which no branch has two successors. The invariant `CompleteInv` treats the two separately: without a delay nothing is ever saved
  to resume; with one successor at most, what is due is the top of the stack (`DueOnTop`), so that a pause
  saves all that is due and `SavedIsResumed` carries it into the next attempt. The hypothesis
  cannot be dropped: a delay with a branch beside it drops that branch.

*Only model-checked:* liveness (`EndingRunEnds`).

## 4. `Admission`

*State.* The workspace's plan and its row of `workspace_run_usage` per billing period (present, run
count, overage count), the rows of `workflow_runs`, and for each request the step its handler is at, the
period it read and the ticket counted for it. History: the period a run was created in, the run in the
response, and the Stripe meter events.

*Actions* follow the handlers. `EnforceRunawayProtection`, `ReadPlan`, then for a workspace plan
`ConsumeQuota` and perhaps `InsertUsage`, `ReportOverage`; for a start `CheckSoloLimit` (solo plan) and
`PrepareSnapshot`; then `InsertRun` or `UniqueViolation` and `FetchExistingRun`; and `ReleaseQuota` if no
run was created. `ConsumeQuota` and `InsertUsage` are two steps because `SELECT ... FOR UPDATE` locks
nothing when there is no row: two first requests of a period both insert, and the second fails with a
unique violation. `ConsumeReplyLost`, `CreateReplyLost`, `CreateFails` and `RequestDies` are the faults. The
plan may change and the period may end at any time. `Source` says which handler a request runs; start,
rerun, webhook and schedule differ only in the steps named above and in having a key.

*Left out:* personal workflows (no quota row), the decision which of a solo user's workflows are locked,
the exact five-minute window (a block is possible whenever there are enough rows), requeued dead letters
(they take no ticket).

The run `routes` (section 7) checks `UsageIsExact`, `UsageIsSettled` and `SameKeySameRun` on a start and a
rerun with one key and a schedule; limit 1, 2 periods, both plans, 2 faults, lost replies (278 000 of its
states).

*Why these bounds.* With a limit of one run, three requests reach the states below, at and over the
limit, and give back from each; two share a key and the third keeps the row alive or lets it go. Two
periods separate a ticket's period from the present one. Requests end, so TLC does not look for deadlocks.

*Proved* (`AdmissionProofs`), for any finite set of requests, any limits, periods and faults, lost
replies included:

- `TypeCorrect`.
- `UsageCountsTickets` (`UsageIsExact`). The invariant adds `TicketPhase`: a request before its quota step has
  no ticket and one that is about to give one back has. Every step either leaves usage and tickets alone,
  takes one ticket or gives one back (`UsageSteps`); `TakeExact` and `ReleaseExact` carry the cardinalities
  over the two interesting steps, the second one also over the deletion of the row.
- `LimitIsKept` (`FreeRunsWithinLimit`), from `TypeOK` and what increment and decrement do to a row.
- `NoRunEscapesCount` (`CreatedRunsAreCounted`), strengthened by `AnswerLast`: a request that looks up the run
  of its key has no run in the table itself.

- `TicketsAreSettled` (`UsageIsSettled`). `SettleInv` adds that no ticket is out when the solo limit is checked
  and that a spent fault never comes back, which is what a handler that dies with a ticket costs.
- `KeysNameOneRun` (`SameKeySameRun`). `KeyInv` is the unique index (two kept rows with one key are one row) and
  says that a request is answered with a run of its own key.

## 5. What starts runs: `Schedules`, `NotionPoller`, `Webhooks`, `DeadLetters`

`Schedules` is one row of `workflow_schedules`. A save is `OpenWorkflow`, `UpdateWorkflow` (or
`RefuseUpdate`), `ReadSchedule`, `WriteSchedule`; a pass of a server is `ListDueSchedules`, `FindWorkflow`,
`CreateScheduledRun` or `SkipScheduledRun`, `MarkScheduleRun`. `compute_next_run` is the function of the code
over a counter. `NotionPoller` is one database and the state saved in the schedule's config: `PollDatabase`
reads the rows in descending order of time up to the page budget, `SaveSeen` stores the position, `EmitRow`
creates a run per row, oldest first; a save of the workflow (`ReadSeen`, `WriteSeen`) copies the position.
`Webhooks` is `webhook_trigger` (`LoadHook`, `CheckSignature`, `RecordSignature`, `CreateHookRun`) against
rotations of the salt, changes of the settings and of the plan, and the clock. `DeadLetters` is
`requeue_dead_letter` in its three statements, `clear_dead_letters`, and the two deletions that take letters
along by their foreign keys: of old runs (`PurgeOldRuns`) and of the workflow (`DropWorkflow`).

Run `triggers` (418 000 states). The four share no state, so `MCTriggers` lets one of them move in each
behaviour (`part`) and their state spaces add up; Schedules moves once with two servers and once with two
saves. Two of each kind of actor suffice, as every property is about one row, message or letter and a
second actor that touches it; clocks run to 2 or 3 so that a due time passes, is served and is followed
by the next. *Fairness:* the schedule pass of each server, which the loop starts every five seconds; no
save, fault or tick is fair. `NotionBound` stops at states about which the properties say nothing more and
adds rows in the order of their names.

- `OneRunPerTime`, `ScheduleFollowsWorkflow`, `DueScheduleIsServed`: a due time gets one run, the schedule
  is the workflow's, nothing stays due. Left open by the code: two servers at once, and a trigger cut off
  between creating the run and marking the schedule, run a time twice.
- `RowStartsOneRun`, `RowIsNotPassedOver`: exactly these rows may be passed over: those before the first
  poll that found any, beyond the page budget, skipped or cut off after the position was saved, and those
  of a minute with several rows.
- `SignedMessageRunsOnce`: also across changes of the window and the salt; not when the record fails.
- `LetterBecomesOneRun`: a letter leaves the table only for a run, by a clear, or with its own run or
  workflow; it is doubled only by two requests at once or a failed delete.

*Proved* (`TriggersProofs`), for any number of servers, saves, deliveries, requests, rows, letters and faults
and any page budget:

- `LettersAreKept`. `LetterInv`: an uncontested letter is handled by one request at a time, has no run before
  that request's insert, and after it is in the table only until that request deletes it.
- `MessagesRunOnce`. `ReplayInv`: from the check of a recorded message to its run, `webhook_replays` holds it
  and only the delivery that recorded it can create the run; settings may change at any step.
- `TimesRunOnce`. `OnceInv`: a time that has run will not come again, since either the trigger that created
  its run has still to mark the row, or the row has left the time behind (`LeftBehind`), or the row is gone.
  The proof needs that `compute_next_run` is later than the time it starts from (`NextRunIsLater`).
- `RowFollowsWorkflow`. `FollowInv`: a save that is alone is the only one to sync, and the row copied by each
  pass under way has the workflow's trigger, so that what the pass writes back is the workflow's too.
- `RowsRunOnce` and `RowsAreNotMissed`, from one invariant `NotionInv`. `ListInv` relates the table to the
  clock and says which minutes are crowded; `ReachedInv` says that each saved position was the time of some
  row, so that a row touched later lies beyond it or shares its minute; `PollInv` says that a poll about to
  save has all rows between its base and its result; `RunInv` and `MissInv` are the two properties with the
  rows a poll is about to emit.

*Only model-checked:* `DueScheduleIsServed` (liveness).

## 6. Who may use what: `Membership`, `Billing`, `Accounts`, `Sessions`, `Connections`, `Workflows`, `Secrets`

Each is the requests of its routes, statement by statement, with a `pc` per request, two requests at once,
and faults: `StatementFails` (the handler goes on to its compensation) differs from `CutOff` (it does not).

- `Membership`: one workspace, its members, invitations and what members share with it.
  `WorkspaceHasOwner` over role changes, transfers (`Demote`, `Promote`, `Restore`), removals and departures;
  `SeatsWithinLimit` over adding, inviting, accepting, declining and leaving; `DepartedShareNothing` over
  departures (`DeleteMember`, `PurgeConnections`, `ReAdd`) and shares. `TenancyBound` and the parts `roles`,
  `seats` and `shares` bring together the operations that interfere.
- `Billing`: checkouts, Stripe's events (delivered in any order and again until logged), the handler from
  `ResolveUser` to `RecordEvent`, the user's requests. `PlanFollowsStripe` is about quiet states. Left open:
  a declined card, overlapping checkouts, failures the code logs and passes over.
- `Accounts`: `SignupIsAllOrNothing` over two sign-ups for one address, verification, resent mails, logins and
  deletion. Left open: `CheckSeats` fails at the member limit, on another plan or by a database error, and
  each time the sign-up is answered without its compensation (`signup.rs:175`); the property says what is
  left then, an account in no workspace. `CanceledAccountIsDeleted` is the violation run `account_deletion`.
- `Sessions`: rows, a cache per server, the hourly sweep, `LoggedOutStaysOut`. Left open: caches of other servers,
  a request that read the row before the logout deleted it and writes or caches it after, a failed delete. A
  request that finds an expired entry in the cache removes it while it holds a reference into the same map
  (`session.rs:144`): it waits for itself, and so does everyone who writes that shard, until the server stops.
  `GetSession` leaves such a request in `evict` and `Blocked` keeps the writers out; the sweep usually comes first.
- `Connections`: personal tokens and their copies, with the mutex per connection and server.
  `SharedCopiesStayUsable` in the parts `locks` (refreshes of one connection), `copies` (two connections of a
  token) and `uses` (all operations). Left open: personal refreshes take no lock, mutexes are per process,
  a connection whose personal row is gone cannot store a refresh.
- `Workflows`: `SavesRespectOthers` is an action property of every store: no save over a text its author has not
  seen, none against another's lock.
- `Secrets`: `SettingsKeepTheirFields`; a stored secret is a text under layers of encryption, which a listing
  may add to.

Run `tenancy` (1 170 000 states): as in `MCTriggers` one part moves at a time. Two requests at once are what
every one of these hazards takes; a third user exists in Membership because a transfer, a removal and a
departure involve three. `InOrder` lets the second of two equal servants begin only after the first.
`TenancyBound` cuts states in which a history variable has ended what the properties say.

*Proved* (`TenancyProofs`), for any number of users, requests, hosts, sessions, invitations and faults and any
limit of members:

- `WorkspacesAreOwned`: `WorkspaceHasOwner` is inductive once every call is well formed (`GoodCall`: what its
  operation and step say about its actor, its target and the roles it read).
- `DepartedLeaveNothing`: `DepartedShareNothing` is inductive over the same types; the work is in the upsert of a
  membership and in the compensation `ReAdd`.
- `SeatsAreLimited`. Members alone are not enough: `SeatsInv` bounds the members together with the users of
  open invitations (`SeatsFit`) and says that, unless crowded, one call counts at a time (`OneCounts`), what it
  counted is still so (`CountsHold`) and leaves room for the seat it is about to take (`TakersFit`,
  `AcceptsHold`).
- `LogoutIsFinal`. `OutInv`: nobody is on the way to write the row or a cache of a session that is out, and a
  logout reaches the row with its own cache already empty.
- `SavesAreRespectful`, the action property `SavesRespectOthers`. `EditInv`: what a save saw of the row is
  still so if the version is, and before it writes it was checked against the lock it saw.
- `FieldsAreKept`. The property is inductive with the types of the jobs; the lemma it rests on is that the
  encryption a listing adds to a document changes no field that is read back (`ReencryptedCell`).
- `SignupsAreWhole`. `SignupInv`: before its user is created and after a refusal nothing of a sign-up exists;
  from its membership on its account is settled; one that is or was at the seat check has no workspace and
  no membership (`Roomless`).

*Proved* (`PlanAndSharingProofs`), for any number of checkouts, handlers, accounts, connections, servers, tasks
and faults:

- `PlanFollowsSubscription` and `BillingTyped`. `PlanFollowsStripe` says nothing while an event is under way, so
  `PlanInv` does: while no exception has occurred, at most one session is open, paid for or has events to
  handle (`OneCurrent`); what was sent of it follows its state at Stripe (`EventsOfSession`); no request stands
  against it (`RequestsWork`, `OpenSessions`); and each step of the handler of its completion or of its end
  finds what the steps before it wrote, in whatever order and however often deliveries are made
  (`HandlersWork`, `Promoting`, `Demoting`). `PlanAtRest` is what is left once the events are recorded. One lemma
  per step of the handler and of the requests shows that it keeps each of them.
- `SharedCopiesUsable`, both conjuncts with their exceptions. That no spent token is presented rests on `RefreshParts`: a refresh of a
  connection holds its mutex on its server (`Locked`), what a connection has spent it holds no more unless
  the spender is about to store what it got (`SpentOnce`), and what it got is nowhere else until then
  (`Unstored`, which rests on the numbering of credentials). That copies agree rests on `CopyParts`: while
  nothing has set them apart, no two calls overlap that clash (`NoOverlap`), what a call read or got is still
  what the row holds (`Held`), and a copy that differs from its token is on the way of a propagation (`Copied`).

Both invariants were checked with TLC before they were proved: `PlanInv` on all 417 948 states of the instance
of `tenancy`, that of `Connections` breadth-first to depth 18 (two tasks, two connections, one account, one
fault; 11.9 million states, not exhausted) and in simulation with three tasks on two servers. Of `ConnectionsTypeOK`
the proof carries what credentials depend on; the clauses for `order`, `dead`, `spent` and the number of
faults are only model-checked.

## 7. Services and routes

`ActionScripts` and `BrowseScripts` give every action node that calls a service (mail, Slack, Teams, Sheets,
Notion, Asana) and every route by which the editor lists what a connection reaches as a sequence of checks
in the order of the code. `ServiceCalls` runs a script step by step while members leave, plans change,
connections go and tokens expire or are revoked, and then makes the request: `SharedUseIsEntitled`,
`SentIsTold` (through Notion's retries and Slack's refresh), `RevokedIsPurged`. `Egress` is the HTTP node's
policy: lists, copies in snapshots, `RerunSnapshot`, merge, redirects, retries, and `EgressFollowsPolicy`
for all of them; hosts are sequences of labels, so that a wildcard entry is a suffix. In production internal
addresses are refused, but only those of IPv4: `host_str()` has brackets around an IPv6 address, which does not
parse as an address, so that branch of `is_ip_blocked` is never reached (`ParsesAsAddress`) and the property
excepts these hosts. `RevokedIsPurged` is what the code does; the Slack documents want the row kept, which the
run `slack_revoked` shows it is not. `OAuthConnect` is two overlapping
flows of one browser for every provider (`AccountIsStoredOnce`, `GrantIsStored`).

Run `integrations` (2 070 000 states): three parts. Calls start with at most one unusual circumstance, as
each check looks at one; two changes happen during a call, enough to undo what one check saw and
what the next will see. Two runs of the HTTP node, one rerun from the other, one redirect and one retry; of
the hosts (`FourHosts`) one is below another, one an internal IPv4 address and one an internal IPv6 address.

`Logins` is the callback of Google and of GitHub with the cookies both share, the password login and the
reset link. `CallbackTakesNoOther` is about the lookup and the insert of a callback: if the lookup found nobody,
the session is of the account this sign-in made (`person.maker`), not of one that came between. An account
the lookup did find has the provider's tag, no more: `handle_signup` sets the tag its caller names. `Issues` is the support desk with one user and two admins, three messages and one failed
statement. `RunStream` is the four event streams over rows whose `updated_at` is the start of the writing
transaction. `Visibility` is every route that only reads, as the queries it makes in order: a query
demands rights of the moment and draws items, and `ReadsAreEntitled` asks that for each item shown, each
group of rights its kind is guarded by was held together at some moment of the request. `list_workflows`
is modelled in full, with its plan context. The admin console believes the claims of the session.

*Proved* of the three (`IntegrationsProofs`), for any number of runs, hosts, redirects, flows, users, accounts
and rows:

- `SharedUsesAreEntitled`, `ResultsTellDeliveries`, `RevokedAreDeleted`, from one invariant `CallInv`. The scripts
  are data, so the proof begins with facts about all of them (`ScriptsFit`): only the last step of a script
  uses the token, and every script of a workspace connection checks membership, plan, home and provider
  before. `ScriptInv` says that what is left to do is the end of a script, `EntitledInv` that each right is
  still asked by the rest or was held at a moment of the call, `SentInv` that nothing is delivered before the
  last step; the outcomes of that step are then taken one by one.
- `PolicyIsFollowed`. `PermitInv` ties each run's list to the workflow's (equal unless the workflow's was set
  since the snapshot), the merged list to the run's, and what was or is about to be contacted to the merged.
  Internal IPv6 addresses are excepted, as in the property.
- `GrantsAreStored` and `AccountsAreStoredOnce`. `ConnectInv` describes each undisturbed flow at each of its steps
  (`Sound`) and says that a grant is in no row but the one its flow wrote (`CredsInv`); `SoleInv` adds to the rows the
  flows that are about to insert one.

Run `routes` (1 108 000 states): six parts, Admission among them. `VisibilityStart` and `Touched` keep to one
unusual circumstance at a time and to changes of what a later query asks for; two workspaces, two changes
during a request.

*Proved* (`RoutesProofs`), for any number of requests, links, messages, admins, rows, queries and workspaces:

- `CallbacksTakeNoOther` (`OwnInv`: the account a sign-in is about to open has its provider's tag, and is its own
  if the lookup found nobody) and `LinksWorkOnce` (`LinkInv`: an undisputed link is in one request's hands, which has not applied it before it
  sets the password and marks it after).
- `SilenceIsNoNews`. `TimesInv` gives each statement a time of its own; `ToldInv` says that a stream's mark is
  not later than the row and that at the same time it has sent what the row says, unless overtaken.
- `MessagesAreSeen` and `StatusesTellWhoIsNext`. `SeenInv`: what an admin's mark covers was shown, is recorded as
  overlooked, or is in the hands of a request that will show it. `TurnInv`: unless crossed, one request
  writes at a time, and only it may stand between the last message and the status.
- `AnswersAreEntitled`. `AskerInv`: for each item drawn or still to be drawn, each group of rights that guards
  it was held at a moment of the request or is asked by a query that comes before the item; `ScriptsGuard`
  shows this of every route's queries.

The type invariants of these modules (`TriggersTypeOK`, `TenancyTypeOK`, `IntegrationsTypeOK`, `LoginsTypeOK`
and so on) are stated with them and hold in the same state spaces; to check one, name it in the `.cfg`.
The actions of a part end, so these runs do not look for deadlocks.

## 8. What the runs found

Each is a violation run whose counterexample is the behaviour described.

1. *Concurrency limit* (`queue_two_servers`). Two servers count the running rows in the snapshots of their
   own statements; both see none and both claim.
2. *Cancel undone* (`queue_cancel`). `pause_workflow_run` and `complete_workflow_run` do not look at the
   status. A run canceled after its task's last poll is queued again by a delay node.
3. *Delay as the last node* (`exec_terminal_delay`). The saved list of next nodes is empty, and the resumed
   attempt falls back to the start node: the workflow runs again.
4. *Account deletion* (`account_deletion`). `user_login_activity` refers to `users` without a cascade, so an
   account that ever logged in with a password cannot be deleted; its subscription is canceled first.
5. *Revoked Slack connection* (`slack_revoked`). `docs/slack/workspace-first-failure-mode-behavior.md` has a
   revoked connection marked for a reconnect and its row kept; `send_slack` deletes the row.

Met while modelling and written down as the exceptions of properties or in `hazards`: a delay on a branch
drops the other branch; a retried request over the limit is metered at Stripe and not shown; a lost reply of a
pause gives a run two executors; a start whose secrets cannot be decrypted keeps its ticket; the solo
limit is counted before the insert; an orphaned Slack connection can never be installed again and a
Notion workspace connected twice is answered with an error; a declined card clears the pending session,
so the completion that follows is ignored; a sign-up by invitation whose seat check fails, at the limit or by
a database error, leaves a user without a workspace; a run that a deadline ends has no dead letter and may
have a node run that stays `running`; a session read from the cache after it has expired and before the
sweep blocks its request and the shard; internal IPv6 addresses may be contacted; any 401 counts as a revocation, and the personal row deleted then is the one updated last.

## 9. What is proved, what is only checked, what is not modelled

The theorems hold for every value of the constants that satisfies the named assumptions (`RunsAssumption`,
`TimesAssumption`, `GraphsAssumption`, `LimitsAssumption` and so on), which TLC also evaluates on every run.
They speak about the specifications; that a specification follows the code is what the map is for. Proved
are all safety properties the passing runs check; the three liveness properties are model-checked only.
`ImplementsLifecycle` and `OneExecutor` are proved under
the assumptions named in section 2; `UnbranchedRunIsComplete` leaves out the graphs named in section 3. A property with exceptions is
proved with exactly these exceptions: what the theorem adds to the run is the number of actors, rows, faults
and steps, not a stronger promise. The bounds that modules have for TLC's sake (`MaxFaults` and the
like) are constants of any value in the theorems, and the state constraints of the `MC` modules
(`TenancyBound`, `NotionBound`, `InOrder`, `Touched`) do not restrict them.

The components share no state in these modules, and each theorem is about its component's specification with
the changes that others make as its environment's actions. Type correctness is proved on the way in each, in `Connections` as far as section 6 says.

Out of the prover's reach, and left to TLC: liveness under fairness and `ENABLED` (`EveryRunEnds`, `EndingRunEnds`,
`DueScheduleIsServed`), and induction over data. No module uses a recursive operator: the walk
is an action per pop and a script an action per check, so reachability and the meaning of a script are
stated through invariants and never computed.

Not modelled: the formatter, code and templating actions (pure functions over strings and a script
engine; an outcome here); calendars and time zones of schedules; the contents of requests, answers and
mails; cryptography (a comparison or a constructor); rate limits; the start of the process and its
configuration; the test doubles; both front ends, whose requests are the inputs of the modelled
handlers. Modelled parts leave out what `PROJECT.json` says under `components`: among them the creation of
workspaces and onboarding, Stripe's HTTP client, and personal workflows in Admission.

## 10. Where to go on

1. A composition of `Admission`, `RunQueue` and `Executor` for one workflow: a rerun copies the snapshot of a
   paused run with its `_resume_*` fields, and a rerun from a failed node starts where the first run did.
2. Onboarding and the creation of workspaces, which write the same rows as `Membership` and `Billing`.

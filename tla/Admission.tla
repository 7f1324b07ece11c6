------------------------------ MODULE Admission ------------------------------
(***************************************************************************)
(* How a run of a workspace gets into the queue: a user starts or reruns a *)
(* workflow, a webhook is called or a schedule is due.  Each request goes  *)
(* through runaway protection, takes a quota ticket from                   *)
(* workspace_run_usage, inserts the row of the run and gives the ticket    *)
(* back if no run was created.  Requests run concurrently, in any number   *)
(* of server processes; one SQL transaction that holds its row lock is one *)
(* step.                                                                   *)
(***************************************************************************)
EXTENDS Integers, FiniteSets

CONSTANTS
    Requests,      \* one call of a handler each
    Source,        \* where the request comes from, [Requests -> Sources]
    KeyOf,         \* its idempotency key, [Requests -> Keys \cup {NoKey}]
    Keys,
    NoKey,         \* the request has no key
    NoRun,         \* the response names no run
    Plans,         \* the plans the workspace may have
    RunLimit,      \* workspace_monthly_run_limit
    SoloLimit,     \* SOLO_MONTHLY_RUN_LIMIT
    RunawayLimit,  \* runaway_limit_5min
    ReplyLoss,     \* can a connection die after a commit, before the reply?
    MaxPeriod,     \* bound: billing periods
    MaxFaults      \* bound: failed statements, lost replies, dropped requests

Sources == {"start", "rerun", "webhook", "schedule"}
Periods == 1..MaxPeriod

ASSUME RequestsAssumption ==
    /\ IsFiniteSet(Requests) /\ NoRun \notin Requests
    /\ Source \in [Requests -> Sources]
    /\ NoKey \notin Keys /\ KeyOf \in [Requests -> Keys \cup {NoKey}]
    /\ \A r \in Requests : Source[r] \in {"webhook", "schedule"} => KeyOf[r] = NoKey
ASSUME LimitsAssumption ==
    RunLimit \in Nat /\ SoloLimit \in Nat /\ RunawayLimit \in Nat
ASSUME SwitchesAssumption ==
    Plans \subseteq {"solo", "workspace"} /\ ReplyLoss \in BOOLEAN
ASSUME BoundsAssumption == MaxPeriod \in Nat \ {0} /\ MaxFaults \in Nat

VARIABLES
    plan,      \* workspaces.plan
    period,    \* the billing period that now() falls into
    usage,     \* workspace_run_usage, by period_start
    rows,      \* workflow_runs: the requests whose run is in the table
    born,      \* history: the period a request's run was created in, or 0
    pc,        \* what the handler of a request does next
    window,    \* local variable period_start of a request
    ticket,    \* the WorkspaceRunQuotaTicket counted for it, until given back
    answer,    \* history: the run in its response
    metered,   \* requests for which Stripe got a meter event
    faults     \* faults that may still happen

vars == <<plan, period, usage, rows, born, pc, window, ticket, answer, metered, faults>>

Row == [present: BOOLEAN, count: Nat, overage: Nat]
NoRow == [present |-> FALSE, count |-> 0, overage |-> 0]

Ticket == [period: 0..MaxPeriod, over: BOOLEAN]
NoTicket == [period |-> 0, over |-> FALSE]

Steps == {"check", "plan", "consume", "insert", "meter", "solo", "prepare",
          "create", "fetch", "release", "end"}

TypeOK ==
    /\ plan \in {"solo", "workspace"}
    /\ period \in Periods
    /\ usage \in [Periods -> Row]
    /\ rows \subseteq Requests
    /\ born \in [Requests -> 0..MaxPeriod]
    /\ pc \in [Requests -> Steps]
    /\ window \in [Requests -> Periods]
    /\ ticket \in [Requests -> Ticket]
    /\ answer \in [Requests -> Requests \cup {NoRun}]
    /\ metered \subseteq Requests
    /\ faults \in Nat

Init ==
    /\ plan \in Plans
    /\ period = 1
    /\ usage = [p \in Periods |-> NoRow]
    /\ rows = {}
    /\ born = [r \in Requests |-> 0]
    /\ pc = [r \in Requests |-> "check"]
    /\ window = [r \in Requests |-> 1]
    /\ ticket = [r \in Requests |-> NoTicket]
    /\ answer = [r \in Requests |-> NoRun]
    /\ metered = {}
    /\ faults = MaxFaults

Spend(n) == faults >= n /\ faults' = faults - n

Goto(r, step) == pc' = [pc EXCEPT ![r] = step]

-----------------------------------------------------------------------------
(* Runaway protection and the quota. *)

\* Some of the runs in the table are less than five minutes old.
EnforceRunawayProtection(r) ==
    /\ pc[r] = "check"
    /\ \/ Goto(r, "plan")
       \/ Cardinality(rows) > RunawayLimit /\ Goto(r, "end")
    /\ UNCHANGED <<plan, period, usage, rows, born, window, ticket, answer, metered, faults>>

\* Only start_workflow_run asks for more after the quota.
AfterQuota(r) == IF Source[r] = "start" THEN "prepare" ELSE "create"

\* get_plan and get_workspace_billing_cycle: a solo workspace has no quota, and
\* only start_workflow_run checks the limit of the solo plan.
ReadPlan(r) ==
    /\ pc[r] = "plan"
    /\ window' = [window EXCEPT ![r] = period]
    /\ Goto(r, IF plan = "workspace" THEN "consume"
               ELSE IF Source[r] = "start" THEN "solo" ELSE "create")
    /\ UNCHANGED <<plan, period, usage, rows, born, ticket, answer, metered, faults>>

OverLimit(next) == next > RunLimit

Increment(row) ==
    [present |-> TRUE, count |-> row.count + 1,
     overage |-> IF OverLimit(row.count + 1) THEN row.overage + 1 ELSE row.overage]

Over(r) == OverLimit(usage[window[r]].count + 1)

\* The commit of try_increment_workspace_run_quota.
CountTicket(r) ==
    /\ usage' = [usage EXCEPT ![window[r]] = Increment(@)]
    /\ ticket' = [ticket EXCEPT ![r] = [period |-> window[r], over |-> Over(r)]]

TakeTicket(r) ==
    /\ CountTicket(r)
    /\ Goto(r, IF Over(r) THEN "meter" ELSE AfterQuota(r))

\* SELECT ... FOR UPDATE locks the row up to the commit, if there is one.
ConsumeQuota(r) ==
    /\ pc[r] = "consume"
    /\ IF usage[window[r]].present
         THEN TakeTicket(r)
         ELSE Goto(r, "insert") /\ UNCHANGED <<usage, ticket>>
    /\ UNCHANGED <<plan, period, rows, born, window, answer, metered, faults>>

\* If there was none, nothing was locked: the INSERT of the first row fails if
\* another request was faster.
InsertUsage(r) ==
    /\ pc[r] = "insert"
    /\ IF usage[window[r]].present
         THEN Goto(r, "end") /\ UNCHANGED <<usage, ticket>>
         ELSE TakeTicket(r)
    /\ UNCHANGED <<plan, period, rows, born, window, answer, metered, faults>>

\* The increment commits, but the reply is lost: the handler has no ticket to
\* give back.
ConsumeReplyLost(r) ==
    /\ ReplyLoss
    /\ pc[r] \in {"consume", "insert"}
    /\ usage[window[r]].present <=> pc[r] = "consume"
    /\ Spend(1)
    /\ CountTicket(r)
    /\ Goto(r, "end")
    /\ UNCHANGED <<plan, period, rows, born, window, answer, metered>>

\* The meter event of an overage is spawned, or skipped because the event name,
\* the workspace or the customer id is not there.
ReportOverage(r) ==
    /\ pc[r] = "meter"
    /\ \/ metered' = metered \cup {r} /\ UNCHANGED faults
       \/ Spend(1) /\ UNCHANGED metered
    /\ Goto(r, AfterQuota(r))
    /\ UNCHANGED <<plan, period, usage, rows, born, window, ticket, answer>>

-----------------------------------------------------------------------------
(* The checks of start_workflow_run between quota and run. *)

RunsOf(p) == {q \in rows : born[q] = p}

CheckSoloLimit(r) ==
    /\ pc[r] = "solo"
    /\ Goto(r, IF Cardinality(RunsOf(period)) >= SoloLimit THEN "end" ELSE "prepare")
    /\ UNCHANGED <<plan, period, usage, rows, born, window, ticket, answer, metered, faults>>

\* decrypt_secret_store; if it fails the handler returns with its ticket.
PrepareSnapshot(r) ==
    /\ pc[r] = "prepare"
    /\ \/ Goto(r, "create") /\ UNCHANGED faults
       \/ Spend(1) /\ Goto(r, "end")
    /\ UNCHANGED <<plan, period, usage, rows, born, window, ticket, answer, metered>>

-----------------------------------------------------------------------------
(* create_workflow_run, and the ticket's way back. *)

\* Mutant: the unique index leaves out the key.
TwinsByRequest(r) == rows \cap {r}

\* The row in the way of the unique index on idempotency keys.
Twins(r) == {q \in rows : KeyOf[r] # NoKey /\ KeyOf[q] = KeyOf[r]}

InsertRow(r) ==
    /\ Twins(r) = {}
    /\ rows' = rows \cup {r}
    /\ born' = [born EXCEPT ![r] = period]

\* Where a request without a run of its own goes.
Undo(r) == IF ticket[r] = NoTicket THEN "end" ELSE "release"

InsertRun(r) ==
    /\ pc[r] = "create"
    /\ InsertRow(r)
    /\ answer' = [answer EXCEPT ![r] = r]
    /\ Goto(r, "end")
    /\ UNCHANGED <<plan, period, usage, window, ticket, metered, faults>>

UniqueViolation(r) ==
    /\ pc[r] = "create"
    /\ Twins(r) # {}
    /\ Goto(r, "fetch")
    /\ UNCHANGED <<plan, period, usage, rows, born, window, ticket, answer, metered, faults>>

\* Mutant: the ticket is released only if creating the run fails.
FetchKeepsTicket(r) ==
    /\ pc[r] = "fetch"
    /\ \/ /\ \E q \in Twins(r) : answer' = [answer EXCEPT ![r] = q]
          /\ Goto(r, "end")
       \/ Twins(r) = {} /\ Goto(r, Undo(r)) /\ UNCHANGED answer
    /\ UNCHANGED <<plan, period, usage, rows, born, window, ticket, metered, faults>>

\* The run of the key, which may be purged by now (an error then).
FetchExistingRun(r) ==
    /\ pc[r] = "fetch"
    /\ \/ \E q \in Twins(r) : answer' = [answer EXCEPT ![r] = q]
       \/ Twins(r) = {} /\ UNCHANGED answer
    /\ Goto(r, Undo(r))
    /\ UNCHANGED <<plan, period, usage, rows, born, window, ticket, metered, faults>>

CreateFails(r) ==
    /\ pc[r] \in {"create", "fetch"}
    /\ Spend(1)
    /\ Goto(r, Undo(r))
    /\ UNCHANGED <<plan, period, usage, rows, born, window, ticket, answer, metered>>

\* The run is inserted, but the handler sees an error and gives the ticket back.
CreateReplyLost(r) ==
    /\ ReplyLoss
    /\ pc[r] = "create"
    /\ InsertRow(r)
    /\ Spend(1)
    /\ Goto(r, Undo(r))
    /\ UNCHANGED <<plan, period, usage, window, ticket, answer, metered>>

\* Mutant: the overage is given back whatever the ticket says.
DecrementAnyOverage(row, over) ==
    LET count == row.count - 1
        overage == IF row.overage > 0 THEN row.overage - 1 ELSE 0
    IN IF count = 0 /\ overage = 0 THEN NoRow
       ELSE [present |-> TRUE, count |-> count, overage |-> overage]

\* An empty row is deleted.
Decrement(row, over) ==
    LET count == row.count - 1
        overage == IF over /\ row.overage > 0 THEN row.overage - 1 ELSE row.overage
    IN IF count = 0 /\ overage = 0 THEN NoRow
       ELSE [present |-> TRUE, count |-> count, overage |-> overage]

ReleaseQuota(r) ==
    LET p == ticket[r].period
    IN /\ pc[r] = "release"
       /\ IF usage[p].present /\ usage[p].count > 0
            THEN usage' = [usage EXCEPT ![p] = Decrement(@, ticket[r].over)]
            ELSE UNCHANGED usage
       /\ ticket' = [ticket EXCEPT ![r] = NoTicket]
       /\ Goto(r, "end")
       /\ UNCHANGED <<plan, period, rows, born, window, answer, metered, faults>>

\* A statement fails, the client disconnects and the handler's future is
\* dropped, or the process dies; an error of the release itself is ignored.
RequestDies(r) ==
    /\ pc[r] # "end"
    /\ Spend(1)
    /\ Goto(r, "end")
    /\ UNCHANGED <<plan, period, usage, rows, born, window, ticket, answer, metered>>

-----------------------------------------------------------------------------
(* The world around. *)

\* The subscription starts or ends.
ChangePlan ==
    /\ plan' \in Plans \ {plan}
    /\ UNCHANGED <<period, usage, rows, born, pc, window, ticket, answer, metered, faults>>

NextPeriod ==
    /\ period < MaxPeriod
    /\ period' = period + 1
    /\ UNCHANGED <<plan, usage, rows, born, pc, window, ticket, answer, metered, faults>>

\* The retention period is longer than a billing period.
PurgeOldRuns ==
    /\ \E old \in SUBSET {q \in rows : born[q] < period} :
         old # {} /\ rows' = rows \ old
    /\ UNCHANGED <<plan, period, usage, born, pc, window, ticket, answer, metered, faults>>

-----------------------------------------------------------------------------
Handle(r) ==
    \/ EnforceRunawayProtection(r)
    \/ ReadPlan(r)
    \/ ConsumeQuota(r) \/ InsertUsage(r) \/ ConsumeReplyLost(r)
    \/ ReportOverage(r)
    \/ CheckSoloLimit(r)
    \/ PrepareSnapshot(r)
    \/ InsertRun(r) \/ UniqueViolation(r) \/ FetchExistingRun(r)
    \/ CreateFails(r) \/ CreateReplyLost(r)
    \/ ReleaseQuota(r)
    \/ RequestDies(r)

Next ==
    \/ \E r \in Requests : Handle(r)
    \/ ChangePlan \/ NextPeriod \/ PurgeOldRuns

Spec == Init /\ [][Next]_vars

-----------------------------------------------------------------------------
(* Properties. *)

\* The requests a ticket of period p is out for, and those with one for overage.
Held(p) == {r \in Requests : ticket[r].period = p}
HeldOver(p) == {r \in Held(p) : ticket[r].over}

\* run_count and overage_count are the numbers of the tickets out, whatever
\* order they are taken and given back in, also when the row comes and goes
\* with its first and last ticket and when replies are lost.
UsageIsExact ==
    \A p \in Periods :
       /\ usage[p].count = Cardinality(Held(p))
       /\ usage[p].overage = Cardinality(HeldOver(p))
       /\ ~usage[p].present => Held(p) = {}

\* No more than RunLimit runs of a period go without being counted as overage.
FreeRunsWithinLimit ==
    \A p \in Periods : usage[p].count - usage[p].overage <= RunLimit

\* A ticket is never given back after the response named the run it paid for: no
\* run a client knows of as its own escapes the count.
CreatedRunsAreCounted ==
    \A r \in Requests : pc[r] = "release" => answer[r] # r

\* A request that ends without a run of its own has not used up quota, unless
\* something failed.
UsageIsSettled ==
    faults = MaxFaults =>
       \A r \in Requests : pc[r] = "end" /\ ticket[r] # NoTicket => born[r] > 0

\* Requests with the same idempotency key are answered with the same run, as
\* long as it is kept.
SameKeySameRun ==
    \A q, r \in Requests :
       /\ KeyOf[q] = KeyOf[r] /\ KeyOf[r] # NoKey
       /\ {answer[q], answer[r]} \subseteq rows
       => answer[q] = answer[r]
=============================================================================

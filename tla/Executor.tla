------------------------------ MODULE Executor ------------------------------
(***************************************************************************)
(* One workflow run as execute_run (engine/executor.rs) executes it: a     *)
(* depth-first walk over the graph of the snapshot with a stack of node    *)
(* ids and a set of visited ids, split into attempts.  An attempt ends     *)
(* with a final status, with a pause that writes the snapshot back for a   *)
(* later attempt, without any write when the task dies, or cut off by the  *)
(* deadline of the worker, which then marks the run failed.  RunQueue       *)
(* models which task may execute the run; here one attempt is at work at    *)
(* a time.                                                                  *)
(***************************************************************************)
EXTENDS Integers, FiniteSets, SequencesExt

CONSTANTS
    Nodes,       \* ids of the nodes of the snapshot
    Ghosts,      \* ids that edges name and no node has
    NoNode,      \* no id
    Graphs,      \* the workflow graphs a run may have
    MaxTries,    \* PERSISTENCE_MAX_ATTEMPTS
    MaxFaults    \* bound: failed statements, lost replies and dead tasks

Ids == Nodes \cup Ghosts

(***************************************************************************)
(* "step" stands for a formatter and for the action* types other than      *)
(* "action", which behave alike; "unknown" for a type nobody executes.     *)
(* The source_handle of an edge is read only if its source is a condition, *)
(* so the edges of the other nodes are kept under "none".                  *)
(***************************************************************************)
Kinds == {"trigger", "condition", "action", "step", "delay", "unknown"}
Handles == {"none", "cond-true", "cond-false"}

Graph == [kind: [Nodes -> Kinds],
          stopOnError: [Nodes -> BOOLEAN],
          out: [Nodes -> [Handles -> Seq(Ids)]]]

ASSUME NodesAssumption ==
    IsFiniteSet(Nodes) /\ Nodes \cap Ghosts = {} /\ NoNode \notin Ids
ASSUME GraphsAssumption == Graphs \subseteq Graph
ASSUME BoundsAssumption == MaxTries \in Nat \ {0} /\ MaxFaults \in Nat

VARIABLES
    graph,        \* nodes and edges of workflow_runs.snapshot
    start,        \* history: _start_from_node when the run was created
    saved,        \* the underscored fields of workflow_runs.snapshot
    status,       \* workflow_runs.status
    nodeRun,      \* workflow_node_runs.status, by node
    deadLetters,  \* rows of workflow_dead_letters for the run
    pc,           \* what the attempt does next; "idle" between attempts
    stack,        \* local variable of execute_run
    visited,      \* local variable of execute_run
    context,      \* local variable of execute_run: nodes with outputs in it
    node,         \* the node whose execution is awaited
    logged,       \* running.is_some(): its node run row was written
    origin,       \* history: the stack the attempt started with
    result,       \* history: what each node returned in this attempt
    past,         \* history: what nodes returned in the paused attempts
    overdue,      \* history: the deadline of an attempt has ended the run
    faults        \* faults that may still happen

runRow == <<graph, start, saved, status, nodeRun, deadLetters>>
local == <<stack, visited, context, node, logged>>
history == <<origin, result, past, overdue>>
vars == <<runRow, pc, local, history, faults>>

Final == {"succeeded", "failed", "canceled"}
Statuses == {"queued", "running"} \cup Final
Steps == {"idle", "loop", "exec", "dead", "fail", "cancel", "pause", "late"}
Done == {"ok", "true", "false", "wait"}
Results == Done \cup {"error"}

Saved == [start: Ids \cup {NoNode}, resumed: BOOLEAN, nodes: Seq(Ids),
          context: SUBSET Nodes]

TypeOK ==
    /\ graph \in Graph
    /\ start \in Nodes \cup {NoNode}
    /\ saved \in Saved
    /\ status \in Statuses
    /\ nodeRun \in [Nodes -> {"none", "running", "succeeded", "failed"}]
    /\ deadLetters \in Nat
    /\ pc \in Steps
    /\ stack \in Seq(Ids)
    /\ visited \subseteq Ids
    /\ context \subseteq Nodes
    /\ node \in Nodes \cup {NoNode}
    /\ logged \in BOOLEAN
    /\ origin \in Seq(Ids)
    /\ result \in [Nodes -> Results \cup {"none"}]
    /\ past \subseteq Nodes \X Results
    /\ overdue \in BOOLEAN
    /\ faults \in Nat

Triggers == {n \in Nodes : graph.kind[n] = "trigger"}

\* create_workflow_run.  The start node is a trigger: find_trigger_start, the
\* webhook's selected trigger, or find_schedule_trigger_start_node.
Init ==
    /\ graph \in Graphs
    /\ start \in Triggers \cup {NoNode}
    /\ saved = [start |-> start, resumed |-> FALSE, nodes |-> << >>, context |-> {}]
    /\ status = "queued"
    /\ nodeRun = [n \in Nodes |-> "none"]
    /\ deadLetters = 0
    /\ pc = "idle"
    /\ stack = << >>
    /\ visited = {}
    /\ context = {}
    /\ node = NoNode
    /\ logged = FALSE
    /\ origin = << >>
    /\ result = [n \in Nodes |-> "none"]
    /\ past = {}
    /\ overdue = FALSE
    /\ faults = MaxFaults

Spend(n) == faults >= n /\ faults' = faults - n

-----------------------------------------------------------------------------
(* The graph. *)

\* A node's possible outcomes.  "wait" is a delay in the future; a delay that
\* is over continues at once.
Outcomes(n) ==
    CASE graph.kind[n] = "condition" -> {"true", "false", "error"}
      [] graph.kind[n] = "delay" -> {"ok", "wait", "error"}
      [] graph.kind[n] \in {"action", "step"} -> {"ok", "error"}
      [] OTHER -> {"ok"}

\* An error ends the run unless the node says otherwise, which only the type
\* "action" may.
StopsRun(n) == graph.stopOnError[n] \/ graph.kind[n] # "action"

\* Mutant: both branches of a condition are followed.
BothBranches(n, res) ==
    IF res = "error" /\ StopsRun(n) THEN << >>
    ELSE IF graph.kind[n] # "condition" THEN graph.out[n]["none"]
    ELSE graph.out[n]["cond-true"] \o graph.out[n]["cond-false"]

\* resolve_next_nodes, and the edges an error that does not stop the run takes.
ResolveNextNodes(n, res) ==
    IF res = "error" /\ StopsRun(n) THEN << >>
    ELSE IF graph.kind[n] # "condition" THEN graph.out[n]["none"]
    ELSE graph.out[n][IF res = "true" THEN "cond-true" ELSE "cond-false"]

-----------------------------------------------------------------------------
(* The start of an attempt. *)

\* Mutant: the test of is_empty is inverted.
ResumeNowhere ==
    IF saved.resumed /\ saved.nodes = << >> THEN {saved.nodes}
    ELSE IF saved.resumed THEN {<< >>}
    ELSE IF saved.start # NoNode THEN {<<saved.start>>}
    ELSE IF Triggers # {} THEN SetToSeqs(Triggers)
    ELSE {<<n>> : n \in Nodes}

\* The nodes to resume from, else the start node, else every trigger in the
\* order of a HashMap, else some node.
InitialStacks ==
    IF saved.resumed /\ saved.nodes # << >> THEN {saved.nodes}
    ELSE IF saved.start # NoNode THEN {<<saved.start>>}
    ELSE IF saved.resumed \/ Nodes = {} THEN {<< >>}
    ELSE IF Triggers # {} THEN SetToSeqs(Triggers)
    ELSE {<<n>> : n \in Nodes}

ResumeContext == saved.context

\* A worker claims the run and execute_run sets up its local variables.
Begin ==
    /\ pc = "idle" /\ status = "queued"
    /\ status' = "running"
    /\ pc' = "loop"
    /\ stack' \in InitialStacks
    /\ origin' = stack'
    /\ visited' = {}
    /\ context' = ResumeContext
    /\ result' = [n \in Nodes |-> "none"]
    /\ UNCHANGED <<graph, start, saved, nodeRun, deadLetters, node, logged,
                   past, overdue, faults>>

\* The secrets cannot be loaded or decrypted: failed before any node runs.
RejectRun ==
    /\ pc = "idle" /\ status = "queued"
    /\ Spend(1)
    /\ status' = "failed"
    /\ UNCHANGED <<graph, start, saved, nodeRun, deadLetters, pc, local, history>>

-----------------------------------------------------------------------------
(* The node loop. *)

Pop ==
    /\ pc = "loop" /\ stack # << >>
    /\ stack' = Front(stack)

\* The cancellation poll reads 'canceled'.  It is rate limited, so an iteration
\* may also go on after a cancel.
ObserveCancel ==
    /\ Pop
    /\ status = "canceled"
    /\ pc' = "cancel"
    /\ UNCHANGED <<runRow, visited, context, node, logged, history, faults>>

\* Every attempt to renew the lease fails.
LoseLease ==
    /\ Pop
    /\ Spend(MaxTries)
    /\ pc' = "cancel"
    /\ UNCHANGED <<runRow, visited, context, node, logged, history>>

\* The id was visited in this attempt, or no node has it.
SkipNode ==
    /\ Pop
    /\ Last(stack) \in visited \cup Ghosts
    /\ visited' = visited \cup {Last(stack)}
    /\ UNCHANGED <<runRow, pc, context, node, logged, history, faults>>

\* Mutant: the node is not marked.
VisitedUnmarked(n) == visited

Visit(n) == visited \cup {n}

\* upsert_node_run with `ok` for "running.is_some()": its errors are ignored,
\* and a row may have been written even so.
UpsertNodeRun(n, s, ok) ==
    /\ \/ ok /\ UNCHANGED faults
       \/ ~ok /\ Spend(1)
    /\ \/ nodeRun' = [nodeRun EXCEPT ![n] = s]
       \/ ~ok /\ UNCHANGED nodeRun

StartNode ==
    /\ Pop
    /\ Last(stack) \in Nodes \ visited
    /\ visited' = Visit(Last(stack))
    /\ node' = Last(stack)
    /\ \E ok \in BOOLEAN :
         /\ UpsertNodeRun(Last(stack), "running", ok)
         /\ logged' = ok
    /\ pc' = "exec"
    /\ UNCHANGED <<graph, start, saved, status, deadLetters, context, history>>

\* Mutant: the second upsert is forgotten.
LogNothing(s) == UNCHANGED <<nodeRun, faults>>

\* The node run gets its final status, if its row is known.
LogResult(s) ==
    IF logged THEN \E ok \in BOOLEAN : UpsertNodeRun(node, s, ok)
              ELSE UNCHANGED <<nodeRun, faults>>

\* Mutant: the successors of a node replace what is still on the stack.
PushOnly(next) == stack' = Reverse(next)

Push(next) == stack' = stack \o Reverse(next)

\* The awaited execution returns `res`.
Returns(res) ==
    /\ pc = "exec"
    /\ res \in Outcomes(node)
    /\ result' = [result EXCEPT ![node] = res]
    /\ UNCHANGED <<graph, start, saved, status, deadLetters, visited, node,
                   logged, origin, past, overdue>>

NodeSucceeds(res) ==
    /\ res # "error" /\ res # "wait"
    /\ Returns(res)
    /\ LogResult("succeeded")
    /\ context' = context \cup {node}
    /\ Push(ResolveNextNodes(node, res))
    /\ pc' = "loop"

NodePauses ==
    /\ Returns("wait")
    /\ LogResult("succeeded")
    /\ context' = context \cup {node}
    /\ pc' = "pause"
    /\ UNCHANGED stack

NodeFails ==
    /\ Returns("error")
    /\ LogResult("failed")
    /\ IF StopsRun(node)
         THEN pc' = "dead" /\ UNCHANGED stack
         ELSE pc' = "loop" /\ Push(ResolveNextNodes(node, "error"))
    /\ UNCHANGED context

-----------------------------------------------------------------------------
(* The end of an attempt. *)

\* execute_run returns or is dropped, and its local variables with it.
DropLocals ==
    /\ stack' = << >> /\ visited' = {} /\ context' = {}
    /\ node' = NoNode /\ logged' = FALSE

EndAttempt == pc' = "idle" /\ DropLocals

CompleteWorkflowRun(s) ==
    /\ status' = s
    /\ EndAttempt
    /\ UNCHANGED <<graph, start, saved, nodeRun, deadLetters, history, faults>>

\* while let Some(node_id) = stack.pop() ends.
Succeed == pc = "loop" /\ stack = << >> /\ CompleteWorkflowRun("succeeded")

AcknowledgeCancel == pc = "cancel" /\ CompleteWorkflowRun("canceled")

Fail == pc = "fail" /\ CompleteWorkflowRun("failed")

\* Mutant: the run is marked failed first.
FailFirst ==
    /\ pc = "dead"
    /\ status' = "failed"
    /\ pc' = "fail"
    /\ UNCHANGED <<graph, start, saved, nodeRun, deadLetters, local, history, faults>>

InsertDeadLetter ==
    /\ pc = "dead"
    /\ deadLetters' = deadLetters + 1
    /\ pc' = "fail"
    /\ UNCHANGED <<graph, start, saved, status, nodeRun, local, history, faults>>

\* The row is inserted, but the reply is lost and the statement is retried.
DeadLetterReplyLost ==
    /\ pc = "dead"
    /\ Spend(1)
    /\ deadLetters' = deadLetters + 1
    /\ UNCHANGED <<graph, start, saved, status, nodeRun, pc, local, history>>

\* Every attempt fails: the run is failed without a dead letter, and the task
\* ends in an ExecutorError.
DeadLetterGivenUp ==
    /\ pc = "dead"
    /\ Spend(MaxTries)
    /\ status' = "failed"
    /\ EndAttempt
    /\ UNCHANGED <<graph, start, saved, nodeRun, deadLetters, history>>

\* resume_at has no OffsetDateTime: the run fails although the node succeeded.
PauseUnrepresentable ==
    /\ pc = "pause"
    /\ pc' = "dead"
    /\ UNCHANGED <<runRow, local, history, faults>>

AttemptLog == {<<n, result[n]>> : n \in {m \in Nodes : result[m] # "none"}}

\* pause_workflow_run with the snapshot updated.  What is left on the stack is
\* not part of it.
SavePause ==
    LET next == ResolveNextNodes(node, "wait")
    IN /\ pc = "pause"
       /\ status' = "queued"
       /\ saved' = [start |-> IF next = << >> THEN saved.start ELSE Head(next),
                    resumed |-> TRUE, nodes |-> next, context |-> context]
       /\ past' = past \cup AttemptLog
       /\ result' = [n \in Nodes |-> "none"]
       /\ EndAttempt
       /\ UNCHANGED <<graph, start, nodeRun, deadLetters, origin, overdue, faults>>

\* The deadline of the attempt has passed: run_with_deadline drops execute_run at
\* whatever it awaits.  (A deadline of zero is none.)
DeadlineExceeded ==
    /\ pc \notin {"idle", "late"}
    /\ pc' = "late"
    /\ DropLocals
    /\ UNCHANGED <<runRow, history, faults>>

\* "Worker execution deadline exceeded": the run is failed by the worker, which
\* writes no dead letter and leaves the node runs as they are.
FailLate ==
    /\ pc = "late"
    /\ status' = "failed"
    /\ overdue' = TRUE
    /\ EndAttempt
    /\ UNCHANGED <<graph, start, saved, nodeRun, deadLetters, origin, result, past, faults>>

\* The process crashes, the task panics, the worker loop that owns it stops, or
\* a final write fails for good.
AttemptDies ==
    /\ pc # "idle"
    /\ Spend(1)
    /\ EndAttempt
    /\ result' = [n \in Nodes |-> "none"]
    /\ UNCHANGED <<runRow, origin, past, overdue>>

\* requeue_expired_leases, once the lease of the dead attempt has expired.
RequeueExpiredLease ==
    /\ pc = "idle" /\ status = "running"
    /\ status' = "queued"
    /\ UNCHANGED <<graph, start, saved, nodeRun, deadLetters, pc, local, history, faults>>

CancelWorkflowRun ==
    /\ status \in {"queued", "running"}
    /\ status' = "canceled"
    /\ UNCHANGED <<graph, start, saved, nodeRun, deadLetters, pc, local, history, faults>>

-----------------------------------------------------------------------------
ExecuteRun ==
    \/ SkipNode \/ StartNode
    \/ \E res \in Results : NodeSucceeds(res)
    \/ NodePauses \/ NodeFails
    \/ InsertDeadLetter \/ Fail \/ Succeed \/ AcknowledgeCancel \/ SavePause
    \/ FailLate

Next ==
    \/ Begin \/ RejectRun
    \/ ExecuteRun
    \/ ObserveCancel \/ LoseLease
    \/ DeadLetterReplyLost \/ DeadLetterGivenUp \/ PauseUnrepresentable
    \/ DeadlineExceeded \/ AttemptDies \/ RequeueExpiredLease
    \/ CancelWorkflowRun

Spec == Init /\ [][Next]_vars

(***************************************************************************)
(* Fairness: a claimed run is executed, its nodes return (the actions have *)
(* timeouts), and RunQueue hands the run to a worker again (EveryRunEnds). *)
(***************************************************************************)
FairSpec ==
    /\ Spec
    /\ WF_vars(Begin) /\ WF_vars(ExecuteRun) /\ WF_vars(RequeueExpiredLease)

-----------------------------------------------------------------------------
(* Properties. *)

\* What nodes returned in the attempts that count: the paused ones and the
\* present one.
Log == past \cup AttemptLog

Ran(n) == \E res \in Results : <<n, res>> \in Log

\* An edge leads from m to n that m's outcome `res` takes: out of a condition,
\* one with the handle of its value.
Follows(n, m, res) ==
    /\ res = "error" => ~StopsRun(m)
    /\ \E h \in Handles :
         /\ n \in ToSet(graph.out[m][h])
         /\ graph.kind[m] # "condition" => h = "none"
         /\ graph.kind[m] = "condition" =>
               h = IF res = "true" THEN "cond-true" ELSE "cond-false"

\* No attempt executes a node twice, whatever cycles, joins or repeated edges
\* the graph has (`visited` in execute_run).
AtMostOncePerAttempt ==
    [][pc' = "exec" /\ pc # "exec" => result[node'] = "none"]_vars

\* A node is executed only as a start of the run or as a chosen successor of a
\* node that was executed: the branch of a condition that was not taken never
\* runs, also after pauses and dead attempts.
EveryNodeIsJustified ==
    \A n \in Nodes : n = node \/ Ran(n) =>
       \/ n = start
       \/ start = NoNode /\ (n \in Triggers \/ Triggers = {})
       \/ \E m \in Nodes, res \in Results : <<m, res>> \in Log /\ Follows(n, m, res)

\* When the node loop runs dry, every node it was given and every chosen
\* successor of a node it executed has been executed: the attempt that marks
\* the run succeeded leaves no reachable work undone.
AttemptIsComplete ==
    pc = "loop" /\ stack = << >> =>
       \A n \in Nodes :
          \/ n \in ToSet(origin)
          \/ \E m \in Nodes : result[m] # "none" /\ Follows(n, m, result[m])
          => result[n] # "none"

\* A run that succeeded has executed every chosen successor of every node it
\* executed, over all its attempts.  (The code breaks this: a pause drops the
\* branches still on the stack.)
RunIsComplete ==
    status = "succeeded" =>
       \A n \in Nodes :
          (\E m \in Nodes, res \in Results : <<m, res>> \in Log /\ Follows(n, m, res))
             => Ran(n)

NoDelay == \A n \in Nodes : graph.kind[n] # "delay"

OneWay == \A n \in Nodes, h \in Handles : Len(graph.out[n][h]) <= 1

\* What remains of it: a workflow without a delay, or in which no branch has two
\* successors, is complete when its run has succeeded, over all its attempts.
UnbranchedRunIsComplete == NoDelay \/ OneWay => RunIsComplete

\* "the workflow run is paused and rescheduled to resume from the next connected
\* node": the attempt after a pause starts with the nodes after the delay and no
\* other.  (The code breaks this if the delay is the last node.)
ResumesAfterDelay ==
    [][pc = "idle" /\ pc' = "loop" /\ saved.resumed =>
          ToSet(stack') = ToSet(saved.nodes)]_vars

\* The outputs of every node executed so far are in the context that the next
\* node is given, also those of nodes before a pause.
ContextIsComplete ==
    pc = "exec" =>
       \A n \in Nodes : (\E res \in Done : <<n, res>> \in Log) => n \in context

\* A failed run in which a node's error stopped an attempt is in the dead letter
\* table, whatever crash comes between its two writes.  Two ways lead past the
\* letter and are excepted: the deadline of the attempt, after which the worker
\* fails the run without one, and an INSERT that fails at every attempt.
FailedRunHasDeadLetter ==
    /\ status = "failed" /\ ~overdue
    /\ \E n \in Nodes : result[n] = "error" /\ StopsRun(n)
    /\ faults > MaxFaults - MaxTries
    => deadLetters > 0

\* Without faults the node runs of a run that has ended tell what each node
\* returned, unless a deadline has ended it: that leaves the node at work
\* "running" for ever.
NodeRunsAgree ==
    status \in {"succeeded", "failed"} /\ ~overdue /\ faults = MaxFaults =>
       \A n \in Nodes :
          /\ nodeRun[n] # "running"
          /\ result[n] = "error" => nodeRun[n] = "failed"
          /\ result[n] \in Done => nodeRun[n] = "succeeded"
          /\ nodeRun[n] # "none" => Ran(n)

\* Every run ends, also on graphs with cycles, however often its attempts die.
RunEnds == <>(status \in Final)
=============================================================================

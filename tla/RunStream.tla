----------------------------- MODULE RunStream -----------------------------
(***************************************************************************)
(* What a browser is told of a run while it watches: server-sent events of  *)
(* streams that poll the rows of the run, of its nodes and of the workflow  *)
(* and send what is newer than what they sent.  updated_at is the time at   *)
(* which the writing transaction began, so rows may be committed in another *)
(* order than their times.                                                  *)
(***************************************************************************)
EXTENDS Naturals, FiniteSets, FiniteSetsExt

CONSTANTS
    WatchedNodes,   \* nodes of the run
    MaxChangesSeen  \* bound: changes of the rows

ASSUME RunStreamAssumption ==
    /\ IsFiniteSet(WatchedNodes) /\ WatchedNodes # {} /\ MaxChangesSeen \in Nat
    /\ WatchedNodes \cap {"run", "flow"} = {}

VARIABLES
    watched,    \* the watched rows: what they say and their updated_at
    writing,    \* transactions that began and are not committed
    clock,
    told,       \* what each stream has sent last, and the time it remembers
    turn,       \* where sse_run_events is in its round
    overtaken   \* history: groups in which a commit was older than one before it

streamVars == <<watched, writing, clock, told, turn, overtaken>>

Watched == {"run", "flow"} \cup WatchedNodes
Times == 0..MaxChangesSeen
ActiveStatuses == {"queued", "running"}
RunStatuses == ActiveStatuses \cup {"succeeded", "canceled"}
Saying(w) == IF w = "run" THEN RunStatuses ELSE IF w = "flow" THEN {"first", "edited", "gone"}
             ELSE {"none", "running", "succeeded"}
Start(w) == [says |-> IF w = "run" THEN "queued" ELSE IF w = "flow" THEN "first" ELSE "none", at |-> 0]
Unsent == [sent |-> FALSE, at |-> 0]

RunStreamTypeOK ==
    /\ \A w \in Watched : watched[w].says \in Saying(w) /\ watched[w].at \in Times
    /\ \A t \in writing : t.target \in Watched /\ t.says \in Saying(t.target) /\ t.at \in Times
    /\ clock \in Times /\ turn \in {"run", "nodes"}
    /\ DOMAIN told = {"run", "nodes", "active", "global", "flow"}
    /\ overtaken \subseteq {"run", "nodes", "flow"}

RunStreamInit ==
    /\ watched = [w \in Watched |-> Start(w)]
    /\ writing = {} /\ clock = 0 /\ turn = "run" /\ overtaken = {}
    /\ told = [run |-> [mark |-> Unsent, says |-> "queued"],
               nodes |-> [mark |-> Unsent, says |-> [n \in WatchedNodes |-> "none"]],
               active |-> [mark |-> FALSE, says |-> {}],
               global |-> [mark |-> FALSE, says |-> <<FALSE, FALSE>>],
               flow |-> [mark |-> Unsent, says |-> "first"]]

----------------------------------------------------------------------------
GroupOf(w) == IF w \in WatchedNodes THEN "nodes" ELSE w
Inserted == {n \in WatchedNodes : watched[n].says # "none"}
LatestOf(g) == IF g = "nodes" THEN Max({watched[n].at : n \in Inserted} \cup {0}) ELSE watched[g].at

\* A statement on a row begins: now() is the time of this moment.  What the worker, the
\* routes and the users write is any change a row can take.
BeginWrite(w, says) ==
    /\ clock < MaxChangesSeen /\ clock' = clock + 1
    /\ says \in Saying(w) \ {"none"} /\ says # watched[w].says
    /\ writing' = writing \cup {[target |-> w, says |-> says, at |-> clock']}
    /\ UNCHANGED <<watched, told, turn, overtaken>>

\* A workflow that was deleted takes no further change.
CommitWrite(t) ==
    /\ writing' = writing \ {t}
    /\ IF watched[t.target].says = "gone"
         THEN UNCHANGED <<watched, overtaken>>
         ELSE /\ watched' = [watched EXCEPT ![t.target] = [says |-> t.says, at |-> t.at]]
              /\ overtaken' = IF t.at < LatestOf(GroupOf(t.target))
                                THEN overtaken \cup {GroupOf(t.target)} ELSE overtaken
    /\ UNCHANGED <<clock, told, turn>>

----------------------------------------------------------------------------
Newer(mark, at) == ~mark.sent \/ mark.at < at
Marked(at) == [sent |-> TRUE, at |-> at]

RunIsNewer == Newer(told.run.mark, watched["run"].at)

\* Mutant: only a further node is news.
MoreNodes == \E n \in Inserted : told.nodes.says[n] = "none"

NodesAreNewer == Inserted # {} /\ Newer(told.nodes.mark, LatestOf("nodes"))

\* sse_run_events: every 800 ms the run, then the nodes; a failed read is skipped.
PollRun ==
    /\ turn = "run" /\ turn' = "nodes"
    /\ told' = IF RunIsNewer
                 THEN [told EXCEPT !.run = [mark |-> Marked(watched["run"].at), says |-> watched["run"].says]]
                 ELSE told
    /\ UNCHANGED <<watched, writing, clock, overtaken>>

PollNodes ==
    /\ turn = "nodes" /\ turn' = "run"
    /\ told' = IF NodesAreNewer
                 THEN [told EXCEPT !.nodes = [mark |-> Marked(LatestOf("nodes")),
                                              says |-> [n \in WatchedNodes |-> watched[n].says]]]
                 ELSE told
    /\ UNCHANGED <<watched, writing, clock, overtaken>>

ReadFails ==
    /\ turn' = IF turn = "run" THEN "nodes" ELSE "run"
    /\ UNCHANGED <<watched, writing, clock, told, overtaken>>

ListActiveRuns == IF watched["run"].says \in ActiveStatuses THEN {watched["run"].says} ELSE {}

\* sse_workflow_runs compares the ids and statuses of the active runs, ...
PollActiveRuns ==
    /\ told' = IF ~told.active.mark \/ told.active.says # ListActiveRuns
                 THEN [told EXCEPT !.active = [mark |-> TRUE, says |-> ListActiveRuns]] ELSE told
    /\ UNCHANGED <<watched, writing, clock, turn, overtaken>>

\* ... sse_global_runs whether some run is running and some queued, ...
PollGlobalRuns ==
    LET now == <<"running" \in ListActiveRuns, "queued" \in ListActiveRuns>> IN
    /\ told' = IF ~told.global.mark \/ told.global.says # now
                 THEN [told EXCEPT !.global = [mark |-> TRUE, says |-> now]] ELSE told
    /\ UNCHANGED <<watched, writing, clock, turn, overtaken>>

\* ... and sse_workflow_updates the time of the workflow, which it sends at first in any
\* case; a workflow that is gone ends the stream.
FlowIsNewer == ~told.flow.mark.sent \/ watched["flow"].at > told.flow.mark.at

PollWorkflow ==
    /\ told.flow.says # "gone"
    /\ told' = IF watched["flow"].says = "gone" THEN [told EXCEPT !.flow.says = "gone"]
               ELSE IF FlowIsNewer
                 THEN [told EXCEPT !.flow = [mark |-> Marked(watched["flow"].at), says |-> watched["flow"].says]]
                 ELSE told
    /\ UNCHANGED <<watched, writing, clock, turn, overtaken>>

\* A first read that fails counts as sent: last_seen is then the time the workflow had
\* when the stream was opened.
WorkflowReadFails ==
    /\ told.flow.says # "gone" /\ told' = [told EXCEPT !.flow.mark.sent = TRUE]
    /\ UNCHANGED <<watched, writing, clock, turn, overtaken>>

RunStreamNext ==
    \/ \E w \in Watched : \E says \in Saying(w) : BeginWrite(w, says)
    \/ \E t \in writing : CommitWrite(t)
    \/ PollRun \/ PollNodes \/ ReadFails \/ PollActiveRuns \/ PollGlobalRuns \/ PollWorkflow
    \/ WorkflowReadFails

RunStreamSpec == RunStreamInit /\ [][RunStreamNext]_streamVars

----------------------------------------------------------------------------
(* A round that sends nothing withholds nothing: when neither the run nor its   *)
(* nodes nor the workflow look newer than what was sent, the browser has been   *)
(* told what the rows say.  It is not said once a transaction committed after   *)
(* one that began later: its updated_at is the older one and the comparison of  *)
(* times passes over it.                                                        *)
SilenceMeansNoNews ==
    /\ RunIsNewer \/ "run" \in overtaken \/ told.run.says = watched["run"].says
    /\ NodesAreNewer \/ "nodes" \in overtaken \/ \A n \in WatchedNodes : told.nodes.says[n] = watched[n].says
    /\ FlowIsNewer \/ "flow" \in overtaken \/ watched["flow"].says \in {told.flow.says, "gone"}
=============================================================================

----------------------------- MODULE MCExecutor -----------------------------
(* Finite instances of Executor: families of workflow graphs over three or   *)
(* four nodes.                                                               *)
EXTENDS Executor

\* A graph from the kinds and, for each node, the targets of its edges (for a
\* condition the targets of the two handles).
Only(l) == [h \in Handles |-> IF h = "none" THEN l ELSE << >>]
Branches(l, m) ==
    [h \in Handles |-> CASE h = "cond-true" -> l [] h = "cond-false" -> m [] OTHER -> << >>]

\* The lists of at most k different targets.
Targets(S, k) == UNION {SetToSeqs(T) : T \in {T \in SUBSET S : Cardinality(T) <= k}}

Outs(kind, S, k) ==
    IF kind = "condition"
      THEN {Branches(l, m) : l \in Targets(S, 1), m \in Targets(S, 1)}
      ELSE {Only(l) : l \in Targets(S, k)}

\* Every wiring, cycles and missing nodes included, of a trigger and two nodes
\* of the given kinds; the second node continues on an error.
Wirings(k2, k3, S) ==
    {[kind |-> [n \in Nodes |-> CASE n = "n1" -> "trigger" [] n = "n2" -> k2 [] n = "n3" -> k3],
      stopOnError |-> [n \in Nodes |-> n # "n2"],
      out |-> [n \in Nodes |-> CASE n = "n1" -> o1 [] n = "n2" -> o2 [] n = "n3" -> o3]]
       : o1 \in Outs("trigger", S, 2), o2 \in Outs(k2, S, 2), o3 \in Outs(k3, S, 1)}

AnyGraphs ==
    UNION {Wirings(k[1], k[2], {"n2", "n3"}) :
             k \in {<<"condition", "step">>, <<"action", "trigger">>,
                    <<"delay", "condition">>, <<"unknown", "delay">>}}
    \cup {g \in Wirings("action", "condition", {"n1", "n3", "ghost"}) :
            g.out["n1"]["none"] # << >>}

\* No edge into a trigger, no cycle through a delay, and a delay has a next
\* node: the workflows whose runs must end.
EndingGraphs ==
    {g \in Wirings("action", "condition", {"n2", "n3"}) : "n2" \in ToSet(g.out["n1"]["none"])}
    \cup {g \in Wirings("delay", "action", {"n2", "n3"}) :
            /\ g.out["n2"]["none"] = <<"n3">>
            /\ g.out["n3"]["none"] # <<"n2">>}

BothGraphs == AnyGraphs \cup EndingGraphs

\* Two faults on the graphs whose runs must end, one on the others.
FaultBound == graph \in EndingGraphs \/ faults >= MaxFaults - 1

BoundedSpec ==
    /\ Init /\ [][Next /\ FaultBound']_vars
    /\ WF_vars(Begin) /\ WF_vars(ExecuteRun) /\ WF_vars(RequeueExpiredLease)

\* Every run of a workflow that must end ends, however often its attempts die.
EndingRunEnds == graph \in EndingGraphs => RunEnds

\* A delay as the last node of the workflow.
TerminalDelay ==
    {g \in Wirings("action", "delay", {"n2", "n3"}) :
       /\ g.out["n1"]["none"] = <<"n2">>
       /\ g.out["n2"]["none"] = <<"n3">>
       /\ g.out["n3"]["none"] = << >>}
=============================================================================

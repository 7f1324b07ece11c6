--------------------------- MODULE ExecutorProofs ---------------------------
(***************************************************************************)
(* Proofs about Executor, for every set of nodes and every set of graphs.  *)
(***************************************************************************)
EXTENDS Executor, TLAPS, SequenceTheorems, FiniteSetTheorems

-----------------------------------------------------------------------------
(* Sequences and the graph. *)

\* A stack is its rest and its top (stack.pop()).
LEMMA PopLemma ==
    ASSUME NEW S, NEW s \in Seq(S), s # << >>
    PROVE  /\ Front(s) \in Seq(S)
           /\ Last(s) \in S
           /\ ToSet(s) = ToSet(Front(s)) \cup {Last(s)}
<1>1. Len(s) \in Nat /\ Len(s) > 0 /\ DOMAIN s = 1..Len(s)
  BY EmptySeq, LenProperties
<1>2. /\ Front(s) \in Seq(S) /\ Len(Front(s)) = Len(s) - 1
      /\ \A i \in 1..(Len(s) - 1) : Front(s)[i] = s[i]
  BY <1>1 DEF Front
<1>3. DOMAIN Front(s) = 1..(Len(s) - 1)
  BY <1>2
<1>4. Last(s) \in S
  BY <1>1 DEF Last
<1>5. ToSet(s) = ToSet(Front(s)) \cup {Last(s)}
  BY <1>1, <1>2, <1>3 DEF ToSet, Last
<1> QED BY <1>2, <1>4, <1>5

\* Pushing the successors of a node adds them to the stack, in whatever order.
LEMMA PushLemma ==
    ASSUME NEW S, NEW s \in Seq(S), NEW t \in Seq(S)
    PROVE  /\ s \o Reverse(t) \in Seq(S)
           /\ ToSet(s \o Reverse(t)) = ToSet(s) \cup ToSet(t)
<1>1. /\ Reverse(t) \in Seq(S) /\ Len(Reverse(t)) = Len(t)
      /\ \A i \in 1..Len(t) : Reverse(t)[i] = t[Len(t) - i + 1]
  BY DEF Reverse
<1>2. ToSet(Reverse(t)) = ToSet(t)
  <2>1. DOMAIN Reverse(t) = 1..Len(t) /\ DOMAIN t = 1..Len(t) /\ Len(t) \in Nat
    BY <1>1
  <2>2. ASSUME NEW i \in 1..Len(t) PROVE Reverse(t)[i] \in ToSet(t)
    <3>1. Len(t) - i + 1 \in 1..Len(t)
      BY <2>1
    <3> QED BY <1>1, <2>1, <3>1 DEF ToSet
  <2>3. ASSUME NEW i \in 1..Len(t) PROVE t[i] \in ToSet(Reverse(t))
    <3>1. Len(t) - i + 1 \in 1..Len(t) /\ Len(t) - (Len(t) - i + 1) + 1 = i
      BY <2>1
    <3>2. Reverse(t)[Len(t) - i + 1] = t[i]
      BY <1>1, <3>1
    <3> QED BY <2>1, <3>1, <3>2 DEF ToSet
  <2> QED BY <2>1, <2>2, <2>3 DEF ToSet
<1>3. Range(s \o Reverse(t)) = Range(s) \cup Range(Reverse(t))
  BY <1>1, RangeConcatenation
<1>4. \A q : ToSet(q) = Range(q)
  BY Zenon DEF ToSet, Range
<1>5. s \o Reverse(t) \in Seq(S)
  BY <1>1
<1> QED BY <1>2, <1>3, <1>4, <1>5, Zenon

\* resolve_next_nodes names ids of the snapshot's edges.
LEMMA ResolveType ==
    ASSUME graph \in Graph, NEW m \in Nodes, NEW res
    PROVE  ResolveNextNodes(m, res) \in Seq(Ids)
<1>1. \A h \in Handles : graph.out[m][h] \in Seq(Ids)
  BY DEF Graph
<1> QED BY <1>1, EmptySeq DEF ResolveNextNodes, Handles

\* resolve_next_nodes returns exactly the targets of the edges that the outcome
\* of the node takes.
LEMMA ResolveIsFollows ==
    ASSUME graph \in Graph, NEW m \in Nodes, NEW res \in Outcomes(m), NEW n
    PROVE  Follows(n, m, res) <=> n \in ToSet(ResolveNextNodes(m, res))
<1>1. ToSet(<< >>) = {}
  BY DEF ToSet
<1>2. graph.kind[m] \in Kinds
  BY DEF Graph
<1>3. CASE res = "error" /\ StopsRun(m)
  <2>1. ~Follows(n, m, res)
    BY <1>3 DEF Follows
  <2>2. ResolveNextNodes(m, res) = << >>
    BY <1>3 DEF ResolveNextNodes
  <2> QED BY <1>1, <2>1, <2>2
<1>4. CASE ~(res = "error" /\ StopsRun(m)) /\ graph.kind[m] = "condition"
  <2>1. res \in {"true", "false"}
    BY <1>4 DEF Outcomes, StopsRun
  <2> QED BY <1>4, <2>1 DEF Follows, ResolveNextNodes, Handles
<1>5. CASE ~(res = "error" /\ StopsRun(m)) /\ graph.kind[m] # "condition"
  BY <1>5 DEF Follows, ResolveNextNodes, Handles
<1> QED BY <1>3, <1>4, <1>5

\* The stacks an attempt may start with.
LEMMA InitialStacksType ==
    ASSUME TypeOK, NEW s \in InitialStacks
    PROVE  s \in Seq(Ids)
<1>1. saved.nodes \in Seq(Ids) /\ saved.start \in Ids \cup {NoNode}
  BY DEF TypeOK, Saved
<1>2. CASE s = saved.nodes \/ s = << >> \/ (s = <<saved.start>> /\ saved.start # NoNode)
  <2>1. CASE s = << >>
    BY <2>1, EmptySeq
  <2>2. CASE s = <<saved.start>> /\ saved.start # NoNode
    <3>1. saved.start \in Ids
      BY <1>1, <2>2
    <3> QED BY <2>2, <3>1
  <2> QED BY <1>1, <1>2, <2>1, <2>2
<1>3. CASE s \in SetToSeqs(Triggers)
  <2>1. Triggers \subseteq Ids /\ IsFiniteSet(Triggers)
    BY NodesAssumption, FS_Subset DEF Triggers, Ids
  <2>2. Cardinality(Triggers) \in Nat
    BY <2>1, FS_CardinalityType
  <2>3. s \in [1..Cardinality(Triggers) -> Ids]
    BY <1>3, <2>1 DEF SetToSeqs
  <2> QED BY <2>2, <2>3, IsASeq
<1>4. CASE \E n \in Nodes : s = <<n>>
  BY <1>4 DEF Ids
<1> QED BY <1>2, <1>3, <1>4 DEF InitialStacks

-----------------------------------------------------------------------------
(* Type correctness. *)

NodeKnown == pc \in {"exec", "pause"} => node \in Nodes

TypeInv == TypeOK /\ NodeKnown

LEMMA TypeInit == Init => TypeInv
<1> SUFFICES ASSUME Init PROVE TypeInv
  OBVIOUS
<1>1. saved \in Saved
  BY EmptySeq DEF Init, Saved, Triggers, Ids
<1>2. graph \in Graph /\ start \in Nodes \cup {NoNode} /\ faults \in Nat
  BY GraphsAssumption, BoundsAssumption DEF Init, Triggers
<1>3. logged \in BOOLEAN
  BY DEF Init
<1>4. stack \in Seq(Ids) /\ origin \in Seq(Ids)
  BY EmptySeq DEF Init
<1>5. /\ status \in Statuses /\ deadLetters \in Nat /\ pc \in Steps
      /\ nodeRun \in [Nodes -> {"none", "running", "succeeded", "failed"}]
      /\ visited \subseteq Ids /\ context \subseteq Nodes
      /\ node \in Nodes \cup {NoNode}
      /\ result \in [Nodes -> Results \cup {"none"}]
      /\ past \subseteq Nodes \X Results /\ overdue \in BOOLEAN
      /\ NodeKnown
  BY DEF Init, Statuses, Steps, NodeKnown
<1> QED BY <1>1, <1>2, <1>3, <1>4, <1>5 DEF TypeInv, TypeOK

\* A statement on the node run table keeps the type of its rows.
LEMMA UpsertType ==
    ASSUME TypeOK, NEW n \in Nodes, NEW ok \in BOOLEAN,
           NEW s \in {"running", "succeeded", "failed"}, UpsertNodeRun(n, s, ok)
    PROVE  /\ nodeRun' \in [Nodes -> {"none", "running", "succeeded", "failed"}]
           /\ faults' \in Nat
<1>1. faults' \in Nat
  BY BoundsAssumption DEF TypeOK, UpsertNodeRun, Spend
<1>2. nodeRun' \in [Nodes -> {"none", "running", "succeeded", "failed"}]
  BY DEF TypeOK, UpsertNodeRun
<1> QED BY <1>1, <1>2

\* The return of a node's execution.
LEMMA ReturnType ==
    ASSUME TypeInv, NEW res \in Results, Returns(res),
           NEW s \in {"succeeded", "failed"}, LogResult(s)
    PROVE  /\ node \in Nodes
           /\ result' \in [Nodes -> Results \cup {"none"}]
           /\ nodeRun' \in [Nodes -> {"none", "running", "succeeded", "failed"}]
           /\ faults' \in Nat
<1>1. node \in Nodes
  BY DEF TypeInv, NodeKnown, Returns
<1>2. result' \in [Nodes -> Results \cup {"none"}]
  BY <1>1 DEF TypeInv, TypeOK, Returns
<1>3. /\ nodeRun' \in [Nodes -> {"none", "running", "succeeded", "failed"}]
      /\ faults' \in Nat
  <2>1. CASE logged
    BY <1>1, <2>1, UpsertType DEF LogResult, TypeInv
  <2>2. CASE ~logged
    BY <2>2 DEF LogResult, TypeInv, TypeOK
  <2> QED BY <2>1, <2>2
<1> QED BY <1>1, <1>2, <1>3

LEMMA TypeStep == TypeInv /\ [Next]_vars => TypeInv'
<1> SUFFICES ASSUME TypeInv, [Next]_vars PROVE TypeInv'
  OBVIOUS
<1> USE DEF TypeInv
<1>1. CASE Begin
  <2>1. stack' \in Seq(Ids)
    BY <1>1, InitialStacksType DEF Begin
  <2>2. context' \subseteq Nodes
    BY <1>1 DEF Begin, ResumeContext, TypeOK, Saved
  <2> QED BY <1>1, <2>1, <2>2 DEF Begin, TypeOK, NodeKnown, Statuses, Steps
<1>2. CASE RejectRun
  BY <1>2, BoundsAssumption DEF RejectRun, Spend, TypeOK, NodeKnown, Statuses, Final, local, history
<1>3. ASSUME Pop PROVE stack' \in Seq(Ids) /\ Last(stack) \in Ids
  BY <1>3, PopLemma DEF Pop, TypeOK
<1>4. CASE SkipNode
  BY <1>3, <1>4 DEF SkipNode, Pop, TypeOK, NodeKnown, runRow, history
<1>5. CASE StartNode
  <2>1. /\ Last(stack) \in Nodes
        /\ visited' \subseteq Ids
    BY <1>5 DEF StartNode, Visit, TypeOK, Ids
  <2>2. PICK ok \in BOOLEAN : UpsertNodeRun(Last(stack), "running", ok) /\ logged' = ok
    BY <1>5 DEF StartNode
  <2>3. /\ nodeRun' \in [Nodes -> {"none", "running", "succeeded", "failed"}]
        /\ faults' \in Nat
    BY <2>1, <2>2, UpsertType
  <2>4. logged' \in BOOLEAN
    BY <2>2
  <2>5. /\ graph' \in Graph /\ start' \in Nodes \cup {NoNode} /\ saved' \in Saved
        /\ status' \in Statuses /\ deadLetters' \in Nat /\ pc' \in Steps
        /\ stack' \in Seq(Ids) /\ context' \subseteq Nodes /\ node' \in Nodes
        /\ origin' \in Seq(Ids) /\ result' \in [Nodes -> Results \cup {"none"}]
        /\ past' \subseteq Nodes \X Results /\ overdue' \in BOOLEAN
    BY <1>3, <1>5, <2>1 DEF StartNode, TypeOK, Steps, history
  <2> QED BY <2>1, <2>3, <2>4, <2>5 DEF TypeOK, NodeKnown
<1>6. ASSUME NEW res \in Results, NodeSucceeds(res) PROVE TypeInv'
  <2>1. /\ node \in Nodes /\ faults' \in Nat
        /\ result' \in [Nodes -> Results \cup {"none"}]
        /\ nodeRun' \in [Nodes -> {"none", "running", "succeeded", "failed"}]
    BY <1>6, ReturnType DEF NodeSucceeds
  <2>2. stack' \in Seq(Ids)
    BY <1>6, <2>1, ResolveType, PushLemma DEF NodeSucceeds, Push, TypeOK
  <2> QED BY <1>6, <2>1, <2>2 DEF NodeSucceeds, Returns, TypeOK, NodeKnown, Steps
<1>7. CASE NodePauses
  <2>1. /\ node \in Nodes /\ faults' \in Nat
        /\ result' \in [Nodes -> Results \cup {"none"}]
        /\ nodeRun' \in [Nodes -> {"none", "running", "succeeded", "failed"}]
    BY <1>7, ReturnType DEF NodePauses, Results, Done
  <2> QED BY <1>7, <2>1 DEF NodePauses, Returns, TypeOK, NodeKnown, Steps
<1>8. CASE NodeFails
  <2>1. /\ node \in Nodes /\ faults' \in Nat
        /\ result' \in [Nodes -> Results \cup {"none"}]
        /\ nodeRun' \in [Nodes -> {"none", "running", "succeeded", "failed"}]
    BY <1>8, ReturnType DEF NodeFails, Results, Done
  <2>2. stack' \in Seq(Ids) /\ pc' \in {"dead", "loop"}
    <3>1. CASE StopsRun(node)
      BY <1>8, <3>1 DEF NodeFails, TypeOK
    <3>2. CASE ~StopsRun(node)
      <4>1. pc' = "loop" /\ stack' = stack \o Reverse(ResolveNextNodes(node, "error"))
        BY <1>8, <3>2 DEF NodeFails, Push
      <4>2. ResolveNextNodes(node, "error") \in Seq(Ids) /\ stack \in Seq(Ids)
        BY <2>1, ResolveType DEF TypeOK
      <4> QED BY <4>1, <4>2, PushLemma
    <3> QED BY <3>1, <3>2
  <2> QED BY <1>8, <2>1, <2>2 DEF NodeFails, Returns, TypeOK, NodeKnown, Steps
<1>9. ASSUME EndAttempt
      PROVE  /\ pc' = "idle" /\ stack' \in Seq(Ids) /\ visited' \subseteq Ids
             /\ context' \subseteq Nodes /\ node' \in Nodes \cup {NoNode}
             /\ logged' \in BOOLEAN
  BY <1>9, EmptySeq DEF EndAttempt, DropLocals
<1>10. ASSUME NEW s \in Final, CompleteWorkflowRun(s) PROVE TypeInv'
  BY <1>9, <1>10 DEF CompleteWorkflowRun, TypeOK, NodeKnown, Statuses, Steps, history
<1>11. CASE Succeed \/ AcknowledgeCancel \/ Fail
  BY <1>10, <1>11 DEF Succeed, AcknowledgeCancel, Fail, Final
<1>12. CASE InsertDeadLetter
  BY <1>12 DEF InsertDeadLetter, TypeOK, NodeKnown, Steps, local, history
<1>13. CASE DeadLetterReplyLost
  BY <1>13 DEF DeadLetterReplyLost, Spend, TypeOK, NodeKnown, local, history
<1>14. CASE DeadLetterGivenUp
  BY <1>9, <1>14, BoundsAssumption
     DEF DeadLetterGivenUp, Spend, TypeOK, NodeKnown, Statuses, Final, Steps, history
<1>15. CASE PauseUnrepresentable
  BY <1>15 DEF PauseUnrepresentable, TypeOK, NodeKnown, Steps, runRow, local, history
<1>16. CASE SavePause
  <2> DEFINE next == ResolveNextNodes(node, "wait")
  <2>1. node \in Nodes /\ next \in Seq(Ids)
    BY <1>16, ResolveType DEF SavePause, TypeOK, NodeKnown
  <2>2. next # << >> => Head(next) \in Ids
    BY <2>1
  <2>3. saved' \in Saved
    <3>1. (IF next = << >> THEN saved.start ELSE Head(next)) \in Ids \cup {NoNode}
      BY <2>2 DEF TypeOK, Saved
    <3>2. context \in SUBSET Nodes
      BY DEF TypeOK
    <3>3. saved' = [start |-> IF next = << >> THEN saved.start ELSE Head(next),
                    resumed |-> TRUE, nodes |-> next, context |-> context]
      BY <1>16 DEF SavePause
    <3> HIDE DEF next
    <3> QED BY <2>1, <3>1, <3>2, <3>3 DEF Saved
  <2>4. AttemptLog \subseteq Nodes \X Results
    BY DEF AttemptLog, TypeOK
  <2>5. past' \subseteq Nodes \X Results
    BY <1>16, <2>4 DEF SavePause, TypeOK
  <2>6. result' \in [Nodes -> Results \cup {"none"}]
    BY <1>16 DEF SavePause
  <2>7. /\ graph' \in Graph /\ start' \in Nodes \cup {NoNode} /\ status' \in Statuses
        /\ nodeRun' \in [Nodes -> {"none", "running", "succeeded", "failed"}]
        /\ deadLetters' \in Nat /\ origin' \in Seq(Ids) /\ faults' \in Nat
        /\ overdue' \in BOOLEAN
    BY <1>16 DEF SavePause, TypeOK, Statuses
  <2>8. EndAttempt
    BY <1>16 DEF SavePause
  <2> QED BY <1>9, <2>3, <2>5, <2>6, <2>7, <2>8 DEF TypeOK, NodeKnown, Steps
<1>17. CASE AttemptDies
  BY <1>9, <1>17 DEF AttemptDies, Spend, TypeOK, NodeKnown, Steps, runRow
<1>18. CASE RequeueExpiredLease \/ CancelWorkflowRun
  BY <1>18 DEF RequeueExpiredLease, CancelWorkflowRun, TypeOK, NodeKnown, Statuses, Final,
               local, history
<1>22. CASE DeadlineExceeded
  BY <1>22, EmptySeq DEF DeadlineExceeded, DropLocals, TypeOK, NodeKnown, Steps, runRow, history
<1>23. CASE FailLate
  BY <1>9, <1>23 DEF FailLate, TypeOK, NodeKnown, Statuses, Final, Steps
<1>19. CASE ObserveCancel
  BY <1>3, <1>19 DEF ObserveCancel, TypeOK, NodeKnown, Steps, runRow, history
<1>20. CASE LoseLease
  BY <1>3, <1>20, BoundsAssumption DEF LoseLease, Spend, TypeOK, NodeKnown, Steps, runRow, history
<1>21. CASE UNCHANGED vars
  BY <1>21 DEF vars, runRow, local, history, TypeOK, NodeKnown
<1> QED
  BY <1>1, <1>2, <1>4, <1>5, <1>6, <1>7, <1>8, <1>11, <1>12, <1>13, <1>14, <1>15, <1>16,
     <1>17, <1>18, <1>19, <1>20, <1>21, <1>22, <1>23
     DEF Next, ExecuteRun

\* Every reachable state of the executor has its declared type, for every graph.
THEOREM TypeCorrect == Spec => []TypeOK
<1>1. TypeInv => TypeOK
  BY DEF TypeInv
<1> QED BY <1>1, TypeInit, TypeStep, PTL DEF Spec

-----------------------------------------------------------------------------
(***************************************************************************)
(* The walk.  AttemptIsComplete speaks of the end of the node loop; during *)
(* it, a node that is due is either visited or still on the stack          *)
(* (Covered), and the visited nodes are those that have returned and the   *)
(* one being executed (VisitedIsRun).                                      *)
(***************************************************************************)
ResultsPossible ==
    \A n \in Nodes : result[n] # "none" => result[n] \in Outcomes(n)

VisitedIsRun ==
    /\ pc \notin {"idle", "late"} =>
         \A n \in Nodes : n \in visited <=> result[n] # "none" \/ (pc = "exec" /\ n = node)
    /\ pc = "exec" => result[node] = "none"

DueNode(n) ==
    \/ n \in ToSet(origin)
    \/ \E m \in Nodes : result[m] # "none" /\ Follows(n, m, result[m])

Covered ==
    pc \in {"loop", "exec"} =>
       \A n \in Nodes : DueNode(n) => n \in visited \cup ToSet(stack)

WalkInv == ResultsPossible /\ VisitedIsRun /\ Covered

\* What a graph says is constant: the run's graph never changes.
LEMMA GraphFixed ==
    ASSUME graph' = graph
    PROVE  /\ \A n : Outcomes(n)' = Outcomes(n)
           /\ \A n : StopsRun(n)' = StopsRun(n)
           /\ \A n, m, res : Follows(n, m, res)' <=> Follows(n, m, res)
           /\ Triggers' = Triggers
BY DEF Outcomes, StopsRun, Follows, Triggers

\* A node returns and the walk goes on with its successors.
LEMMA WalkReturn ==
    ASSUME TypeInv, WalkInv, NEW res \in Results, Returns(res),
           Push(ResolveNextNodes(node, res)), pc' = "loop"
    PROVE  WalkInv'
<1>1. node \in Nodes /\ res \in Outcomes(node) /\ graph \in Graph
  BY DEF TypeInv, TypeOK, NodeKnown, Returns
<1>2. /\ graph' = graph /\ origin' = origin /\ visited' = visited /\ pc = "exec"
      /\ result' = [result EXCEPT ![node] = res]
      /\ result \in [Nodes -> Results \cup {"none"}]
  BY DEF Returns, TypeInv, TypeOK
<1>3. res # "none"
  BY DEF Results, Done
<1>4. ToSet(stack') = ToSet(stack) \cup ToSet(ResolveNextNodes(node, res))
  BY <1>1, ResolveType, PushLemma DEF Push, TypeInv, TypeOK
<1>5. ResultsPossible'
  BY <1>1, <1>2, GraphFixed DEF ResultsPossible, WalkInv
<1>6. VisitedIsRun'
  BY <1>1, <1>2, <1>3 DEF VisitedIsRun, WalkInv
<1>7. Covered'
  <2> SUFFICES ASSUME NEW n \in Nodes, DueNode(n)'
               PROVE  n \in visited \cup ToSet(stack')
    BY <1>2 DEF Covered
  <2>1. CASE n \in ToSet(origin')
    BY <1>2, <1>4, <2>1 DEF WalkInv, Covered, DueNode
  <2>2. ASSUME NEW m \in Nodes, (result[m] # "none" /\ Follows(n, m, result[m]))'
        PROVE  n \in visited \cup ToSet(stack')
    <3>1. CASE m = node
      <4>1. Follows(n, node, res)
        BY <1>1, <1>2, <2>2, <3>1 DEF Follows, StopsRun
      <4> QED BY <1>1, <1>4, <4>1, ResolveIsFollows
    <3>2. CASE m # node
      <4>1. result[m] # "none" /\ Follows(n, m, result[m])
        BY <1>1, <1>2, <2>2, <3>2 DEF Follows, StopsRun
      <4> QED BY <1>2, <1>4, <4>1 DEF WalkInv, Covered, DueNode
    <3> QED BY <3>1, <3>2
  <2> QED BY <2>1, <2>2 DEF DueNode
<1> QED BY <1>5, <1>6, <1>7 DEF WalkInv

\* An attempt that is over, or will execute no more nodes.
LEMMA WalkOver ==
    ASSUME TypeInv, WalkInv, graph' = graph,
           result' = result \/ result' = [n \in Nodes |-> "none"],
           pc' \in {"idle", "late"}
    PROVE  WalkInv'
<1>1. ResultsPossible'
  BY GraphFixed DEF WalkInv, ResultsPossible
<1> QED BY <1>1 DEF WalkInv, VisitedIsRun, Covered

LEMMA WalkStep == TypeInv /\ WalkInv /\ [Next]_vars => WalkInv'
<1> SUFFICES ASSUME TypeInv, WalkInv, [Next]_vars PROVE WalkInv'
  OBVIOUS
<1>1. CASE Begin
  <2>1. /\ result' = [n \in Nodes |-> "none"] /\ visited' = {} /\ pc' = "loop"
        /\ origin' = stack'
    BY <1>1 DEF Begin
  <2> QED BY <2>1 DEF WalkInv, ResultsPossible, VisitedIsRun, Covered, DueNode
<1>2. ASSUME Pop
      PROVE  /\ pc = "loop" /\ Last(stack) \in Ids
             /\ ToSet(stack) = ToSet(stack') \cup {Last(stack)}
  BY <1>2, PopLemma DEF Pop, TypeInv, TypeOK
<1>3. CASE SkipNode
  <2>1. /\ Last(stack) \in visited \cup Ghosts /\ visited' = visited \cup {Last(stack)}
        /\ pc' = "loop" /\ pc = "loop" /\ result' = result /\ origin' = origin
        /\ graph' = graph
    BY <1>3 DEF SkipNode, Pop, runRow, history
  <2>2. \A n \in Nodes : n \in visited' <=> n \in visited
    BY <2>1, NodesAssumption
  <2>3. ResultsPossible' /\ VisitedIsRun'
    BY <2>1, <2>2, GraphFixed DEF WalkInv, ResultsPossible, VisitedIsRun
  <2>4. \A n \in Nodes : DueNode(n)' => DueNode(n)
    BY <2>1, GraphFixed DEF DueNode
  <2>5. Covered'
    BY <1>2, <1>3, <2>1, <2>4 DEF WalkInv, Covered, SkipNode
  <2> QED BY <2>3, <2>5 DEF WalkInv
<1>4. CASE StartNode
  <2>1. /\ Last(stack) \in Nodes \ visited /\ visited' = visited \cup {Last(stack)}
        /\ node' = Last(stack) /\ pc' = "exec" /\ pc = "loop"
        /\ result' = result /\ origin' = origin /\ graph' = graph
    BY <1>4 DEF StartNode, Visit, Pop, history
  <2>2. ResultsPossible' /\ VisitedIsRun'
    BY <2>1, GraphFixed DEF WalkInv, ResultsPossible, VisitedIsRun
  <2>3. \A n \in Nodes : DueNode(n)' => DueNode(n)
    BY <2>1, GraphFixed DEF DueNode
  <2>4. Covered'
    BY <1>2, <1>4, <2>1, <2>3 DEF WalkInv, Covered, StartNode
  <2> QED BY <2>2, <2>4 DEF WalkInv
<1>5. ASSUME NEW res \in Results, NodeSucceeds(res) PROVE WalkInv'
  BY <1>5, WalkReturn DEF NodeSucceeds
<1>6. ASSUME NEW res \in Results, Returns(res), pc' \in {"pause", "dead"} PROVE WalkInv'
  <2>1. node \in Nodes /\ res \in Outcomes(node) /\ res # "none"
    BY <1>6 DEF TypeInv, NodeKnown, Returns, Results, Done
  <2>2. /\ graph' = graph /\ visited' = visited /\ pc = "exec"
        /\ result' = [result EXCEPT ![node] = res]
        /\ result \in [Nodes -> Results \cup {"none"}]
    BY <1>6 DEF Returns, TypeInv, TypeOK
  <2> QED BY <1>6, <2>1, <2>2, GraphFixed DEF WalkInv, ResultsPossible, VisitedIsRun, Covered
<1>7. CASE NodePauses
  BY <1>6, <1>7 DEF NodePauses, Results, Done
<1>8. CASE NodeFails
  <2>1. "error" \in Results
    BY DEF Results
  <2>2. CASE StopsRun(node)
    BY <1>6, <1>8, <2>1, <2>2 DEF NodeFails
  <2>3. CASE ~StopsRun(node)
    BY <1>8, <2>1, <2>3, WalkReturn DEF NodeFails
  <2> QED BY <2>2, <2>3
<1>9. ASSUME graph' = graph, result' = result, visited' = visited,
             pc \notin {"idle", "late", "exec"}, pc' \notin {"idle", "late", "exec", "loop"}
      PROVE  WalkInv'
  BY <1>9, GraphFixed DEF WalkInv, ResultsPossible, VisitedIsRun, Covered
<1>10. CASE InsertDeadLetter \/ DeadLetterReplyLost \/ PauseUnrepresentable
  BY <1>9, <1>10 DEF InsertDeadLetter, DeadLetterReplyLost, PauseUnrepresentable, runRow,
                     local, history
<1>11. CASE ObserveCancel \/ LoseLease
  BY <1>2, <1>9, <1>11 DEF ObserveCancel, LoseLease, runRow, history
<1>12. CASE Succeed \/ AcknowledgeCancel \/ Fail \/ DeadLetterGivenUp \/ SavePause
            \/ AttemptDies \/ DeadlineExceeded \/ FailLate
  BY <1>12, WalkOver DEF Succeed, AcknowledgeCancel, Fail, CompleteWorkflowRun,
     DeadLetterGivenUp, SavePause, AttemptDies, DeadlineExceeded, FailLate, EndAttempt, DropLocals, history, runRow
<1>13. ASSUME UNCHANGED <<graph, pc, local, history>> PROVE WalkInv'
  <2>1. /\ graph' = graph /\ pc' = pc /\ stack' = stack /\ visited' = visited
        /\ node' = node /\ origin' = origin /\ result' = result
    BY <1>13 DEF local, history
  <2>2. \A n \in Nodes : DueNode(n)' => DueNode(n)
    BY <2>1, GraphFixed DEF DueNode
  <2> QED BY <2>1, <2>2, GraphFixed DEF WalkInv, ResultsPossible, VisitedIsRun, Covered
<1>14. CASE RejectRun \/ RequeueExpiredLease \/ CancelWorkflowRun
  BY <1>13, <1>14 DEF RejectRun, RequeueExpiredLease, CancelWorkflowRun
<1>15. CASE UNCHANGED vars
  BY <1>13, <1>15 DEF vars, runRow
<1> QED
  BY <1>1, <1>3, <1>4, <1>5, <1>7, <1>8, <1>10, <1>11, <1>12, <1>14, <1>15
     DEF Next, ExecuteRun

LEMMA WalkAlways == Spec => [](TypeInv /\ WalkInv)
<1>1. Init => WalkInv
  BY DEF Init, WalkInv, ResultsPossible, VisitedIsRun, Covered
<1> QED BY <1>1, TypeInit, TypeStep, WalkStep, PTL DEF Spec

LEMMA WalkDone == TypeInv /\ WalkInv => AttemptIsComplete
<1> SUFFICES ASSUME TypeInv, WalkInv, pc = "loop", stack = << >>, NEW n \in Nodes, DueNode(n)
             PROVE  result[n] # "none"
  BY DEF AttemptIsComplete, DueNode
<1>1. ToSet(stack) = {}
  BY DEF ToSet
<1>2. n \in visited
  BY <1>1 DEF WalkInv, Covered
<1> QED BY <1>2 DEF WalkInv, VisitedIsRun

\* When the node loop of execute_run runs dry, nothing the attempt was given or
\* led to is left undone, for every graph, with cycles, joins and missing nodes.
THEOREM WalkIsComplete == Spec => []AttemptIsComplete
BY WalkDone, WalkAlways, PTL

\* No attempt executes a node twice.
THEOREM WalkVisitsOnce == Spec => AtMostOncePerAttempt
<1>1. TypeInv /\ WalkInv /\ [Next]_vars =>
        [pc' = "exec" /\ pc # "exec" => result[node'] = "none"]_vars
  <2> SUFFICES ASSUME TypeInv, WalkInv, Next, pc' = "exec", pc # "exec"
               PROVE  result[node'] = "none"
    OBVIOUS
  <2>1. StartNode
    BY DEF Next, ExecuteRun, Begin, RejectRun, SkipNode, NodeSucceeds, NodePauses, NodeFails,
           Returns, InsertDeadLetter, Fail, Succeed, AcknowledgeCancel, SavePause,
           CompleteWorkflowRun, EndAttempt, DropLocals, ObserveCancel, LoseLease, DeadLetterReplyLost,
           DeadLetterGivenUp, PauseUnrepresentable, DeadlineExceeded, FailLate, AttemptDies,
           RequeueExpiredLease, CancelWorkflowRun
  <2>2. Last(stack) \in Nodes \ visited /\ node' = Last(stack) /\ pc = "loop"
    BY <2>1 DEF StartNode, Pop
  <2> QED BY <2>2 DEF WalkInv, VisitedIsRun
<1> QED BY <1>1, WalkAlways, PTL DEF Spec, AtMostOncePerAttempt

-----------------------------------------------------------------------------
(***************************************************************************)
(* Why a node runs.  What is on the stack or has run is justified now; what *)
(* the snapshot keeps over a pause has to be justified by the paused       *)
(* attempts alone, because an attempt that dies takes its log with it.     *)
(***************************************************************************)
JustifiedBefore(n) ==
    \/ n = start
    \/ start = NoNode /\ (n \in Triggers \/ Triggers = {})
    \/ \E m \in Nodes, res \in Results : <<m, res>> \in past /\ Follows(n, m, res)

JustifiedNow(n) ==
    \/ JustifiedBefore(n)
    \/ \E m \in Nodes : result[m] # "none" /\ Follows(n, m, result[m])

SavedJustified ==
    /\ ~saved.resumed => saved.start = start
    /\ saved.start # NoNode => JustifiedBefore(saved.start)
    /\ \A n \in ToSet(saved.nodes) : JustifiedBefore(n)
    /\ \A n \in Nodes, res \in Results : <<n, res>> \in past => JustifiedBefore(n)

WalkJustified ==
    /\ \A n \in ToSet(stack) : JustifiedNow(n)
    /\ node # NoNode => JustifiedNow(node)
    /\ \A n \in Nodes : result[n] # "none" => JustifiedNow(n)

PausedAtDelay ==
    /\ pc = "pause" => result[node] = "wait"
    /\ pc = "idle" => node = NoNode

JustInv == SavedJustified /\ WalkJustified /\ PausedAtDelay

LEMMA BeforeFixed ==
    ASSUME graph' = graph, start' = start, past' = past
    PROVE  \A n : JustifiedBefore(n)' <=> JustifiedBefore(n)
<1>1. \A n, m, res : Follows(n, m, res)' <=> Follows(n, m, res)
  BY GraphFixed
<1>2. Triggers' = Triggers
  BY GraphFixed
<1> QED BY <1>1, <1>2 DEF JustifiedBefore

LEMMA NowFixed ==
    ASSUME graph' = graph, start' = start, past' = past, result' = result
    PROVE  \A n : JustifiedNow(n)' <=> JustifiedNow(n)
BY BeforeFixed, GraphFixed DEF JustifiedNow

LEMMA SavedFixed ==
    ASSUME SavedJustified, graph' = graph, start' = start, past' = past, saved' = saved
    PROVE  SavedJustified'
BY BeforeFixed DEF SavedJustified

\* Every initial stack is justified by what was saved.
LEMMA InitialStacksJustified ==
    ASSUME TypeInv, SavedJustified, NEW s \in InitialStacks, NEW n \in ToSet(s)
    PROVE  JustifiedBefore(n)
<1>1. CASE s = saved.nodes
  BY <1>1 DEF SavedJustified
<1>2. CASE s = <<saved.start>> /\ saved.start # NoNode
  <2>1. n = saved.start
    BY <1>2 DEF ToSet
  <2> QED BY <1>2, <2>1 DEF SavedJustified
<1>3. CASE s = << >>
  BY <1>3 DEF ToSet
<1>4. CASE saved.start = NoNode /\ ~saved.resumed /\ Triggers # {} /\ s \in SetToSeqs(Triggers)
  <2>1. start = NoNode
    BY <1>4 DEF SavedJustified
  <2>2. n \in Triggers
    BY <1>4 DEF SetToSeqs, ToSet
  <2> QED BY <2>1, <2>2 DEF JustifiedBefore
<1>5. CASE saved.start = NoNode /\ ~saved.resumed /\ Triggers = {}
  BY <1>5 DEF SavedJustified, JustifiedBefore
<1> QED BY <1>1, <1>2, <1>3, <1>4, <1>5 DEF InitialStacks

\* A node returns: everything justified stays so, and its successors are.
LEMMA JustReturn ==
    ASSUME TypeInv, WalkInv, JustInv, NEW res \in Results, Returns(res), saved' = saved,
           \/ stack' = stack
           \/ Push(ResolveNextNodes(node, res)),
           pc' = "pause" => res = "wait", pc' # "idle"
    PROVE  JustInv'
<1>1. node \in Nodes /\ res \in Outcomes(node) /\ graph \in Graph /\ res # "none"
  BY DEF TypeInv, TypeOK, NodeKnown, Returns, Results, Done
<1>2. /\ graph' = graph /\ start' = start /\ past' = past /\ node' = node /\ pc = "exec"
      /\ result' = [result EXCEPT ![node] = res]
      /\ result \in [Nodes -> Results \cup {"none"}]
  BY DEF Returns, TypeInv, TypeOK
<1>3. result[node] = "none"
  BY <1>2 DEF WalkInv, VisitedIsRun
<1>4. ASSUME NEW n, JustifiedNow(n) PROVE JustifiedNow(n)'
  <2>1. CASE JustifiedBefore(n)
    BY <1>2, <2>1, BeforeFixed DEF JustifiedNow
  <2>2. ASSUME NEW m \in Nodes, result[m] # "none", Follows(n, m, result[m])
        PROVE  JustifiedNow(n)'
    <3>1. result'[m] = result[m]
      BY <1>2, <1>3, <2>2
    <3>2. (result[m] # "none" /\ Follows(n, m, result[m]))'
      BY <1>2, <2>2, <3>1 DEF Follows, StopsRun
    <3> QED BY <3>2 DEF JustifiedNow
  <2> QED BY <1>4, <2>1, <2>2 DEF JustifiedNow
<1>5. ASSUME NEW n \in ToSet(ResolveNextNodes(node, res)) PROVE JustifiedNow(n)'
  <2>1. Follows(n, node, res)
    BY <1>1, ResolveIsFollows
  <2>2. (result[node] # "none" /\ Follows(n, node, result[node]))'
    BY <1>1, <1>2, <2>1 DEF Follows, StopsRun
  <2> QED BY <1>1, <1>2, <2>2 DEF JustifiedNow
<1>6. SavedJustified'
  BY <1>2, SavedFixed DEF JustInv
<1>7. \A n \in ToSet(stack') : JustifiedNow(n)'
  <2>1. ToSet(stack') \subseteq ToSet(stack) \cup ToSet(ResolveNextNodes(node, res))
    <3>1. CASE stack' = stack
      BY <3>1
    <3>2. CASE Push(ResolveNextNodes(node, res))
      BY <1>1, <3>2, ResolveType, PushLemma DEF Push, TypeInv, TypeOK
    <3> QED BY <3>1, <3>2
  <2> QED BY <1>4, <1>5, <2>1 DEF JustInv, WalkJustified
<1>8. (node # NoNode => JustifiedNow(node))'
  BY <1>2, <1>4 DEF JustInv, WalkJustified
<1>9. \A n \in Nodes : result'[n] # "none" => JustifiedNow(n)'
  <2> SUFFICES ASSUME NEW n \in Nodes, result'[n] # "none" PROVE JustifiedNow(n)
    BY <1>4
  <2>1. n = node \/ result[n] # "none"
    BY <1>2
  <2>2. node # NoNode
    BY <1>1, NodesAssumption DEF Ids
  <2> QED BY <2>1, <2>2 DEF JustInv, WalkJustified
<1>10. PausedAtDelay'
  BY <1>1, <1>2 DEF PausedAtDelay
<1> QED BY <1>6, <1>7, <1>8, <1>9, <1>10 DEF JustInv, WalkJustified

\* A pause turns the log of the attempt into something that was before.
LEMMA JustPause == ASSUME TypeInv, WalkInv, JustInv, SavePause PROVE JustInv'
<1> DEFINE next == ResolveNextNodes(node, "wait")
<1>1. node \in Nodes /\ result[node] = "wait" /\ "wait" \in Outcomes(node) /\ graph \in Graph
      /\ result \in [Nodes -> Results \cup {"none"}]
  BY DEF SavePause, TypeInv, TypeOK, NodeKnown, JustInv, PausedAtDelay, WalkInv, ResultsPossible
<1>2. /\ graph' = graph /\ start' = start /\ past' = past \cup AttemptLog
      /\ saved'.start = IF next = << >> THEN saved.start ELSE Head(next)
      /\ saved'.nodes = next
      /\ result' = [n \in Nodes |-> "none"]
  BY DEF SavePause
<1>3. saved'.resumed
  BY DEF SavePause
<1>4. ASSUME NEW n, JustifiedNow(n) PROVE JustifiedBefore(n)'
  <2>1. CASE n = start \/ (start = NoNode /\ (n \in Triggers \/ Triggers = {}))
    BY <1>2, <2>1, GraphFixed DEF JustifiedBefore
  <2>2. ASSUME NEW m \in Nodes, NEW res \in Results, <<m, res>> \in past', Follows(n, m, res)
        PROVE  JustifiedBefore(n)'
    BY <1>2, <2>2, GraphFixed DEF JustifiedBefore
  <2>3. CASE \E m \in Nodes, res \in Results : <<m, res>> \in past /\ Follows(n, m, res)
    BY <1>2, <2>2, <2>3
  <2>4. CASE \E m \in Nodes : result[m] # "none" /\ Follows(n, m, result[m])
    <3>1. PICK m \in Nodes : result[m] # "none" /\ Follows(n, m, result[m])
      BY <2>4
    <3>2. result[m] \in Results /\ <<m, result[m]>> \in AttemptLog
      BY <1>1, <3>1 DEF AttemptLog
    <3> QED BY <1>2, <2>2, <3>1, <3>2
  <2> QED BY <1>4, <2>1, <2>3, <2>4 DEF JustifiedNow, JustifiedBefore
<1>5. ASSUME NEW n, JustifiedBefore(n) PROVE JustifiedBefore(n)'
  BY <1>4, <1>5 DEF JustifiedNow
<1>6. \A n \in ToSet(next) : JustifiedBefore(n)'
  <2> SUFFICES ASSUME NEW n \in ToSet(next) PROVE JustifiedNow(n)
    BY <1>4
  <2>1. Follows(n, node, "wait")
    BY <1>1, ResolveIsFollows
  <2> QED BY <1>1, <2>1 DEF JustifiedNow
<1>7. (saved.start # NoNode => JustifiedBefore(saved.start))'
  <2>1. CASE next = << >>
    BY <1>2, <1>5, <2>1 DEF JustInv, SavedJustified
  <2>2. CASE next # << >>
    <3>1. next \in Seq(Ids)
      BY <1>1, ResolveType
    <3>2. Head(next) = next[1] /\ 1 \in DOMAIN next
      BY <2>2, <3>1, EmptySeq, LenProperties
    <3>3. Head(next) \in ToSet(next)
      BY <3>2 DEF ToSet
    <3> QED BY <1>2, <1>6, <2>2, <3>3
  <2> QED BY <2>1, <2>2
<1>8. \A n \in Nodes, res \in Results : <<n, res>> \in past' => JustifiedBefore(n)'
  <2> SUFFICES ASSUME NEW n \in Nodes, NEW res \in Results, <<n, res>> \in past'
               PROVE  JustifiedBefore(n)'
    OBVIOUS
  <2>1. CASE <<n, res>> \in past
    BY <1>5, <2>1 DEF JustInv, SavedJustified
  <2>2. CASE <<n, res>> \in AttemptLog
    BY <1>4, <2>2 DEF AttemptLog, JustInv, WalkJustified
  <2> QED BY <1>2, <2>1, <2>2
<1>9. SavedJustified'
  BY <1>2, <1>3, <1>6, <1>7, <1>8 DEF SavedJustified
<1>10. stack' = << >> /\ node' = NoNode /\ pc' = "idle"
  BY DEF SavePause, EndAttempt, DropLocals
<1>11. WalkJustified' /\ PausedAtDelay'
  BY <1>2, <1>10 DEF WalkJustified, PausedAtDelay, ToSet
<1> QED BY <1>9, <1>11 DEF JustInv

\* An attempt is over, and the snapshot is as it was.
LEMMA JustOver ==
    ASSUME JustInv, DropLocals, pc' \in {"idle", "late"}, graph' = graph, start' = start, past' = past, saved' = saved,
           result' = result \/ result' = [n \in Nodes |-> "none"]
    PROVE  JustInv'
<1>1. SavedJustified'
  BY SavedFixed DEF JustInv
<1>2. stack' = << >> /\ node' = NoNode
  BY DEF DropLocals
<1>3. \A n \in Nodes : (result[n] # "none" => JustifiedNow(n))'
  <2>1. CASE result' = result
    BY <2>1, NowFixed DEF JustInv, WalkJustified
  <2>2. CASE result' = [n \in Nodes |-> "none"]
    BY <2>2
  <2> QED BY <2>1, <2>2
<1> QED BY <1>1, <1>2, <1>3 DEF JustInv, WalkJustified, PausedAtDelay, ToSet

LEMMA JustStep == TypeInv /\ WalkInv /\ JustInv /\ [Next]_vars => JustInv'
<1> SUFFICES ASSUME TypeInv, WalkInv, JustInv, [Next]_vars PROVE JustInv'
  OBVIOUS
<1>1. CASE Begin
  <2>1. /\ graph' = graph /\ start' = start /\ past' = past /\ saved' = saved /\ node' = node
        /\ pc' = "loop" /\ result' = [n \in Nodes |-> "none"]
        /\ stack' \in InitialStacks
    BY <1>1 DEF Begin
  <2>2. SavedJustified'
    BY <2>1, SavedFixed DEF JustInv
  <2>3. ASSUME NEW n, JustifiedBefore(n) PROVE JustifiedNow(n)'
    BY <2>1, <2>3, BeforeFixed DEF JustifiedNow
  <2>4. \A n \in ToSet(stack') : JustifiedNow(n)'
    BY <2>1, <2>3, InitialStacksJustified DEF JustInv
  <2>5. node = NoNode
    BY <1>1 DEF Begin, JustInv, PausedAtDelay
  <2> QED BY <2>1, <2>2, <2>3, <2>4, <2>5 DEF JustInv, WalkJustified, PausedAtDelay
<1>2. ASSUME graph' = graph, start' = start, past' = past, saved' = saved, result' = result,
             ToSet(stack') \subseteq ToSet(stack),
             node' = node \/ node' \in ToSet(stack),
             pc' # "pause" \/ (pc' = pc /\ node' = node),
             pc' = "idle" => pc = "idle" /\ node' = node
      PROVE  JustInv'
  <2>1. SavedJustified'
    BY <1>2, SavedFixed DEF JustInv
  <2>2. WalkJustified'
    BY <1>2, NowFixed DEF JustInv, WalkJustified
  <2> QED BY <1>2, <2>1, <2>2 DEF JustInv, PausedAtDelay
<1>3. ASSUME Pop
      PROVE  /\ Last(stack) \in ToSet(stack) /\ pc = "loop"
             /\ ToSet(stack') \subseteq ToSet(stack)
  BY <1>3, PopLemma DEF Pop, TypeInv, TypeOK
<1>4. CASE SkipNode \/ ObserveCancel \/ LoseLease
  BY <1>2, <1>3, <1>4 DEF SkipNode, ObserveCancel, LoseLease, runRow, history
<1>5. CASE StartNode
  BY <1>2, <1>3, <1>5 DEF StartNode, history
<1>6. ASSUME NEW res \in Results, NodeSucceeds(res) PROVE JustInv'
  BY <1>6, JustReturn DEF NodeSucceeds, Returns
<1>7. CASE NodePauses
  BY <1>7, JustReturn DEF NodePauses, Returns, Results, Done
<1>8. CASE NodeFails
  <2>1. "error" \in Results
    BY DEF Results
  <2>2. /\ Returns("error") /\ saved' = saved /\ pc' \in {"dead", "loop"}
        /\ stack' = stack \/ Push(ResolveNextNodes(node, "error"))
    BY <1>8 DEF NodeFails, Returns
  <2> QED BY <2>1, <2>2, JustReturn
<1>9. CASE InsertDeadLetter \/ DeadLetterReplyLost \/ PauseUnrepresentable
  BY <1>2, <1>9 DEF InsertDeadLetter, DeadLetterReplyLost, PauseUnrepresentable, runRow,
                    local, history
<1>10. CASE Succeed \/ AcknowledgeCancel \/ Fail \/ DeadLetterGivenUp \/ AttemptDies
            \/ DeadlineExceeded \/ FailLate
  BY <1>10, JustOver DEF Succeed, AcknowledgeCancel, Fail, CompleteWorkflowRun,
     DeadLetterGivenUp, AttemptDies, DeadlineExceeded, FailLate, EndAttempt, history, runRow
<1>11. CASE SavePause
  BY <1>11, JustPause
<1>12. ASSUME UNCHANGED <<graph, start, saved, pc, local, history>> PROVE JustInv'
  BY <1>2, <1>12 DEF local, history
<1>13. CASE RejectRun \/ RequeueExpiredLease \/ CancelWorkflowRun
  BY <1>12, <1>13 DEF RejectRun, RequeueExpiredLease, CancelWorkflowRun
<1>14. CASE UNCHANGED vars
  BY <1>12, <1>14 DEF vars, runRow
<1> QED
  BY <1>1, <1>4, <1>5, <1>6, <1>7, <1>8, <1>9, <1>10, <1>11, <1>13, <1>14
     DEF Next, ExecuteRun

\* In every run, on every graph and however often its attempts pause or die,
\* only starts of the run and chosen successors of executed nodes are executed.
THEOREM ExecutionIsJustified == Spec => []EveryNodeIsJustified
<1>1. Init => JustInv
  <2> SUFFICES ASSUME Init PROVE JustInv
    OBVIOUS
  <2>1. saved.start = start /\ saved.nodes = << >> /\ past = {} /\ stack = << >>
        /\ node = NoNode /\ pc = "idle" /\ result = [n \in Nodes |-> "none"]
    BY DEF Init
  <2>2. ToSet(<< >>) = {}
    BY DEF ToSet
  <2> QED BY <2>1, <2>2 DEF JustInv, SavedJustified, WalkJustified, PausedAtDelay,
                            JustifiedBefore
<1>2. TypeInv /\ JustInv => EveryNodeIsJustified
  <2> SUFFICES ASSUME TypeInv, JustInv, NEW n \in Nodes, n = node \/ Ran(n)
               PROVE  \/ n = start
                      \/ start = NoNode /\ (n \in Triggers \/ Triggers = {})
                      \/ \E m \in Nodes, res \in Results :
                            <<m, res>> \in Log /\ Follows(n, m, res)
    BY DEF EveryNodeIsJustified
  <2>1. JustifiedNow(n)
    <3>1. CASE n = node
      BY <3>1, NodesAssumption DEF JustInv, WalkJustified, Ids
    <3>2. ASSUME NEW res \in Results, <<n, res>> \in Log PROVE JustifiedNow(n)
      BY <3>2 DEF Log, AttemptLog, JustInv, SavedJustified, WalkJustified, JustifiedNow
    <3> QED BY <3>1, <3>2 DEF Ran
  <2>2. ASSUME NEW m \in Nodes, result[m] # "none", Follows(n, m, result[m])
        PROVE  \E k \in Nodes, res \in Results : <<k, res>> \in Log /\ Follows(n, k, res)
    <3>1. result[m] \in Results /\ <<m, result[m]>> \in AttemptLog
      BY <2>2 DEF TypeInv, TypeOK, AttemptLog
    <3> QED BY <2>2, <3>1 DEF Log
  <2> QED BY <2>1, <2>2 DEF JustifiedNow, JustifiedBefore, Log
<1> QED BY <1>1, <1>2, WalkAlways, TypeInit, JustStep, PTL DEF Spec

-----------------------------------------------------------------------------
(* The outputs that nodes refer to. *)

PastInContext ==
    \A n \in Nodes, res \in Done : <<n, res>> \in past => n \in saved.context

ContextGrows ==
    pc \notin {"idle", "late"} =>
       /\ saved.context \subseteq context
       /\ \A n \in Nodes : result[n] \in Done => n \in context

CtxInv == PastInContext /\ ContextGrows

LEMMA CtxStep == TypeInv /\ CtxInv /\ [Next]_vars => CtxInv'
<1> SUFFICES ASSUME TypeInv, CtxInv, [Next]_vars PROVE CtxInv'
  OBVIOUS
<1>1. CASE Begin
  BY <1>1 DEF Begin, ResumeContext, CtxInv, PastInContext, ContextGrows, Done
<1>2. ASSUME saved' = saved, past' = past,
             \/ pc' \in {"idle", "late"}
             \/ pc \notin {"idle", "late"} /\ context' = context /\ result' = result
             \/ pc' = pc /\ context' = context /\ result' = result
      PROVE  CtxInv'
  BY <1>2 DEF CtxInv, PastInContext, ContextGrows
<1>3. CASE SkipNode \/ StartNode \/ ObserveCancel \/ LoseLease
  BY <1>2, <1>3 DEF SkipNode, StartNode, ObserveCancel, LoseLease, Pop, runRow, history
<1>4. ASSUME NEW res \in Results, Returns(res), context \subseteq context',
             res \in Done => node \in context'
      PROVE  CtxInv'
  <2>1. /\ node \in Nodes /\ saved' = saved /\ past' = past /\ pc = "exec"
        /\ result' = [result EXCEPT ![node] = res]
        /\ result \in [Nodes -> Results \cup {"none"}]
    BY <1>4 DEF Returns, TypeInv, TypeOK, NodeKnown
  <2> QED BY <1>4, <2>1 DEF CtxInv, PastInContext, ContextGrows
<1>5. ASSUME NEW res \in Results, NodeSucceeds(res) PROVE CtxInv'
  BY <1>4, <1>5 DEF NodeSucceeds
<1>6. CASE NodePauses
  BY <1>4, <1>6 DEF NodePauses, Results, Done
<1>7. CASE NodeFails
  BY <1>4, <1>7 DEF NodeFails, Results, Done
<1>8. CASE InsertDeadLetter \/ DeadLetterReplyLost \/ PauseUnrepresentable
  BY <1>2, <1>8 DEF InsertDeadLetter, DeadLetterReplyLost, PauseUnrepresentable, runRow,
                    local, history
<1>9. CASE Succeed \/ AcknowledgeCancel \/ Fail \/ DeadLetterGivenUp \/ AttemptDies
           \/ DeadlineExceeded \/ FailLate
  BY <1>2, <1>9 DEF Succeed, AcknowledgeCancel, Fail, CompleteWorkflowRun,
     DeadLetterGivenUp, AttemptDies, DeadlineExceeded, FailLate, EndAttempt, DropLocals, history, runRow
<1>10. CASE SavePause
  <2>1. /\ past' = past \cup AttemptLog /\ saved'.context = context /\ pc = "pause"
        /\ pc' = "idle"
    BY <1>10 DEF SavePause, EndAttempt, DropLocals
  <2>2. \A n \in Nodes, res \in Done : <<n, res>> \in past' => n \in context
    BY <2>1 DEF AttemptLog, CtxInv, PastInContext, ContextGrows
  <2> QED BY <2>1, <2>2 DEF CtxInv, PastInContext, ContextGrows
<1>11. CASE RejectRun \/ RequeueExpiredLease \/ CancelWorkflowRun \/ UNCHANGED vars
  BY <1>2, <1>11 DEF RejectRun, RequeueExpiredLease, CancelWorkflowRun, vars, runRow, local, history
<1> QED
  BY <1>1, <1>3, <1>5, <1>6, <1>7, <1>8, <1>9, <1>10, <1>11 DEF Next, ExecuteRun

\* A node is given the outputs of every node that ran before it, over pauses.
THEOREM ContextSurvivesPauses == Spec => []ContextIsComplete
<1>1. Init => CtxInv
  BY DEF Init, CtxInv, PastInContext, ContextGrows
<1>2. TypeInv /\ CtxInv => ContextIsComplete
  BY DEF CtxInv, PastInContext, ContextGrows, ContextIsComplete, Log, AttemptLog
<1> QED BY <1>1, <1>2, TypeInit, TypeStep, CtxStep, PTL DEF Spec

-----------------------------------------------------------------------------
(* How a run ends.  The dead letter is written before the row of the run is *)
(* marked failed, and nothing but the attempt at work writes that mark.     *)

RowAtWork == pc # "idle" => status \in {"running", "canceled"}

\* Nothing that a run still open returned is left from an attempt that is over.
CleanStart ==
    pc = "idle" /\ status \in {"queued", "running"} => \A n \in Nodes : result[n] = "none"

LetterBeforeMark == pc = "fail" => deadLetters > 0

FaultsLeft == faults <= MaxFaults

EndInv ==
    RowAtWork /\ CleanStart /\ LetterBeforeMark /\ FaultsLeft /\ FailedRunHasDeadLetter

LEMMA EndStep == TypeInv /\ EndInv /\ [Next]_vars => EndInv'
<1> SUFFICES ASSUME TypeInv, EndInv, [Next]_vars PROVE EndInv'
  OBVIOUS
<1> USE DEF EndInv, RowAtWork, CleanStart, LetterBeforeMark, FaultsLeft
<1>0. /\ faults \in Nat /\ MaxFaults \in Nat /\ MaxTries \in Nat \ {0}
      /\ deadLetters \in Nat
  BY BoundsAssumption DEF TypeInv, TypeOK
<1>1. CASE Begin
  BY <1>1 DEF Begin, FailedRunHasDeadLetter
<1>2. CASE RejectRun
  BY <1>0, <1>2 DEF RejectRun, Spend, local, history, FailedRunHasDeadLetter
\* A step of the attempt at work that is not its last.
<1>3. ASSUME pc # "idle", pc' # "idle", pc' # "fail", status' = status,
             faults' \in Nat, faults' <= faults
      PROVE  EndInv'
  BY <1>0, <1>3 DEF FailedRunHasDeadLetter
<1>4. ASSUME NEW n \in Nodes, NEW s, NEW ok \in BOOLEAN, UpsertNodeRun(n, s, ok)
      PROVE  faults' \in Nat /\ faults' <= faults
  BY <1>0, <1>4 DEF UpsertNodeRun, Spend
<1>5. ASSUME NEW s, LogResult(s), node \in Nodes PROVE faults' \in Nat /\ faults' <= faults
  BY <1>0, <1>4, <1>5 DEF LogResult
<1>6. CASE SkipNode \/ ObserveCancel \/ LoseLease \/ PauseUnrepresentable \/ DeadlineExceeded
  BY <1>0, <1>3, <1>6 DEF SkipNode, ObserveCancel, LoseLease, PauseUnrepresentable,
                          DeadlineExceeded, Pop, Spend, runRow
<1>7. CASE StartNode
  <2>1. /\ pc = "loop" /\ pc' = "exec" /\ status' = status
        /\ \E ok \in BOOLEAN : UpsertNodeRun(Last(stack), "running", ok)
        /\ Last(stack) \in Nodes
    BY <1>7 DEF StartNode, Pop
  <2> QED BY <1>3, <1>4, <2>1
<1>8. pc = "exec" => node \in Nodes
  BY DEF TypeInv, NodeKnown
<1>9. ASSUME NEW res \in Results, NodeSucceeds(res) PROVE EndInv'
  BY <1>3, <1>5, <1>8, <1>9 DEF NodeSucceeds, Returns
<1>10. CASE NodePauses
  BY <1>3, <1>5, <1>8, <1>10 DEF NodePauses, Returns
<1>11. CASE NodeFails
  BY <1>3, <1>5, <1>8, <1>11 DEF NodeFails, Returns
<1>12. CASE InsertDeadLetter \/ DeadLetterReplyLost
  BY <1>0, <1>12 DEF InsertDeadLetter, DeadLetterReplyLost, Spend, FailedRunHasDeadLetter
<1>13. CASE Fail
  BY <1>0, <1>13 DEF Fail, CompleteWorkflowRun, EndAttempt, DropLocals, FailedRunHasDeadLetter
<1>14. CASE DeadLetterGivenUp
  BY <1>0, <1>14 DEF DeadLetterGivenUp, EndAttempt, DropLocals, Spend, FailedRunHasDeadLetter
<1>15. CASE Succeed \/ AcknowledgeCancel
  BY <1>0, <1>15 DEF Succeed, AcknowledgeCancel, CompleteWorkflowRun, EndAttempt, DropLocals,
                     FailedRunHasDeadLetter
<1>16. CASE SavePause
  BY <1>0, <1>16 DEF SavePause, EndAttempt, DropLocals, FailedRunHasDeadLetter
<1>17. CASE AttemptDies
  BY <1>0, <1>17 DEF AttemptDies, EndAttempt, DropLocals, Spend, runRow, FailedRunHasDeadLetter
\* The deadline fails the run without a dead letter, and `overdue` tells so.
<1>20. CASE FailLate
  BY <1>0, <1>20 DEF FailLate, EndAttempt, DropLocals, FailedRunHasDeadLetter
<1>18. CASE RequeueExpiredLease \/ CancelWorkflowRun
  BY <1>0, <1>18 DEF RequeueExpiredLease, CancelWorkflowRun, history, local,
                     FailedRunHasDeadLetter
<1>19. CASE UNCHANGED vars
  BY <1>0, <1>19 DEF vars, runRow, history, FailedRunHasDeadLetter, StopsRun
<1> QED
  BY <1>1, <1>2, <1>6, <1>7, <1>9, <1>10, <1>11, <1>12, <1>13, <1>14, <1>15, <1>16,
     <1>17, <1>18, <1>19, <1>20 DEF Next, ExecuteRun

LEMMA EndAlways == Spec => [](TypeInv /\ EndInv)
<1>1. Init => EndInv
  BY BoundsAssumption DEF Init, EndInv, RowAtWork, CleanStart, LetterBeforeMark, FaultsLeft,
     FailedRunHasDeadLetter
<1> QED BY <1>1, TypeInit, TypeStep, EndStep, PTL DEF Spec

\* A failed run that a node's error stopped is in the dead letter table: dying
\* attempts, lost replies and cancels cannot separate the two writes.  It says
\* nothing of a run that a deadline has ended, which the worker fails without a
\* letter, or whose letter could not be written at any attempt.
THEOREM FailureLeavesLetter == Spec => []FailedRunHasDeadLetter
<1>1. EndInv => FailedRunHasDeadLetter
  BY DEF EndInv
<1> QED BY <1>1, EndAlways, PTL

-----------------------------------------------------------------------------
(* The node runs that a user sees.                                          *)

\* The row of node n tells what n returned, and is there only if n was executed.
RowAgrees(n) ==
    /\ nodeRun[n] # "running"
    /\ result[n] = "error" => nodeRun[n] = "failed"
    /\ result[n] \in Done => nodeRun[n] = "succeeded"
    /\ nodeRun[n] # "none" => Ran(n)

\* No statement has failed, no attempt has died and none was cut off.
Undisturbed == faults = MaxFaults /\ pc # "late" /\ ~overdue

\* Then only the row of the node at work may say "running".
RowsInv ==
    Undisturbed =>
       /\ pc = "exec" => logged /\ nodeRun[node] = "running"
       /\ \A n \in Nodes : (pc = "exec" /\ n = node) \/ RowAgrees(n)

\* A node that was executed stays so while no attempt is lost.
LEMMA RanGrows ==
    ASSUME TypeInv, NEW n \in Nodes, Ran(n), past \subseteq past',
           \A res \in Results : result[n] = res => <<n, res>> \in past' \/ result'[n] = res
    PROVE  Ran(n)'
<1>1. PICK res \in Results : <<n, res>> \in Log
  BY DEF Ran
<1>2. CASE <<n, res>> \in past
  BY <1>2 DEF Ran, Log
<1>3. CASE result[n] = res
  <2>1. res # "none"
    BY DEF Results, Done
  <2>2. <<n, res>> \in past' \/ <<n, res>> \in AttemptLog'
    BY <1>3, <2>1 DEF AttemptLog
  <2> QED BY <2>2 DEF Ran, Log
<1> QED BY <1>1, <1>2, <1>3 DEF Log, AttemptLog

\* Without a fault both upserts of a node run take place.
LEMMA UpsertDone ==
    ASSUME TypeInv, FaultsLeft, faults' = MaxFaults, NEW n \in Nodes, NEW s, NEW ok \in BOOLEAN,
           UpsertNodeRun(n, s, ok)
    PROVE  ok /\ faults = MaxFaults /\ nodeRun' = [nodeRun EXCEPT ![n] = s]
<1>1. faults \in Nat /\ MaxFaults \in Nat
  BY BoundsAssumption DEF TypeInv, TypeOK
<1>2. ~(~ok /\ Spend(1))
  BY <1>1 DEF Spend, FaultsLeft
<1>3. ok /\ UNCHANGED faults
  BY <1>2 DEF UpsertNodeRun
<1> QED BY <1>3 DEF UpsertNodeRun

\* The node at work returns.
LEMMA RowsReturn ==
    ASSUME TypeInv, FaultsLeft, RowsInv, NEW res \in Results, Returns(res), pc' # "exec",
           NEW s \in {"succeeded", "failed"}, LogResult(s),
           res = "error" => s = "failed", res \in Done => s = "succeeded"
    PROVE  RowsInv'
<1> SUFFICES ASSUME faults' = MaxFaults, ~overdue' PROVE \A n \in Nodes : RowAgrees(n)'
  BY DEF RowsInv, Undisturbed
<1>1. /\ node \in Nodes /\ pc = "exec" /\ past' = past
      /\ result' = [result EXCEPT ![node] = res]
      /\ result \in [Nodes -> Results \cup {"none"}]
      /\ nodeRun \in [Nodes -> {"none", "running", "succeeded", "failed"}]
      /\ ~overdue
  BY DEF Returns, TypeInv, TypeOK, NodeKnown
<1>2. CASE ~logged
  <2>1. faults = MaxFaults
    BY <1>2 DEF LogResult
  <2> QED BY <1>1, <1>2, <2>1 DEF RowsInv, Undisturbed
<1>3. CASE logged
  <2>1. PICK ok \in BOOLEAN : UpsertNodeRun(node, s, ok)
    BY <1>3 DEF LogResult
  <2>2. faults = MaxFaults /\ nodeRun' = [nodeRun EXCEPT ![node] = s]
    BY <1>1, <2>1, UpsertDone
  <2>3. ASSUME NEW n \in Nodes, n = node PROVE RowAgrees(n)'
    <3>1. result'[n] = res /\ nodeRun'[n] = s /\ res # "none"
      BY <1>1, <2>2, <2>3 DEF Results, Done
    <3>2. <<n, res>> \in AttemptLog'
      BY <3>1 DEF AttemptLog
    <3>3. Ran(n)'
      BY <3>2 DEF Ran, Log
    <3> QED BY <3>1, <3>3 DEF RowAgrees, Done
  <2>4. ASSUME NEW n \in Nodes, n # node PROVE RowAgrees(n)'
    <3>1. RowAgrees(n) /\ nodeRun'[n] = nodeRun[n] /\ result'[n] = result[n]
      BY <1>1, <2>2, <2>4 DEF RowsInv, Undisturbed
    <3>2. Ran(n) => Ran(n)'
      BY <1>1, <3>1, RanGrows
    <3> QED BY <3>1, <3>2 DEF RowAgrees
  <2> QED BY <2>3, <2>4
<1> QED BY <1>2, <1>3

LEMMA RowsStep == TypeInv /\ EndInv /\ RowsInv /\ [Next]_vars => RowsInv'
<1> SUFFICES ASSUME TypeInv, EndInv, RowsInv, [Next]_vars, Undisturbed' PROVE RowsInv'
  BY DEF RowsInv
<1>0. /\ faults \in Nat /\ MaxFaults \in Nat /\ MaxTries \in Nat \ {0}
      /\ FaultsLeft /\ CleanStart /\ faults' = MaxFaults
  BY BoundsAssumption DEF TypeInv, TypeOK, EndInv, Undisturbed
<1>1. ~Spend(1) /\ ~Spend(MaxTries)
  BY <1>0 DEF Spend, FaultsLeft
<1>14. ~DeadlineExceeded /\ ~FailLate
  BY DEF DeadlineExceeded, FailLate, Undisturbed
<1>15. ~AttemptDies /\ ~RejectRun
  BY <1>1 DEF AttemptDies, RejectRun
<1>16. pc # "late" /\ ~overdue
  BY <1>14, <1>15 DEF Undisturbed, Next, ExecuteRun, Begin, SkipNode, StartNode, NodeSucceeds,
     NodePauses, NodeFails, Returns, Pop, InsertDeadLetter, Fail, Succeed, AcknowledgeCancel,
     SavePause, CompleteWorkflowRun, ObserveCancel, LoseLease, DeadLetterReplyLost,
     DeadLetterGivenUp, PauseUnrepresentable, RequeueExpiredLease, CancelWorkflowRun,
     vars, history
\* A step that leaves the rows and what nodes returned as they are.
<1>2. ASSUME nodeRun' = nodeRun, faults' = faults, past' = past, pc' # "exec", pc # "exec",
             result' = result
      PROVE  RowsInv'
  <2>1. ASSUME NEW n \in Nodes PROVE RowAgrees(n)'
    <3>1. RowAgrees(n)
      BY <1>2, <1>16 DEF RowsInv, Undisturbed
    <3>2. Ran(n) => Ran(n)'
      BY <1>2, RanGrows
    <3> QED BY <1>2, <3>1, <3>2 DEF RowAgrees
  <2> QED BY <1>2, <2>1 DEF RowsInv
<1>3. CASE Begin
  <2>1. result' = result
    BY <1>0, <1>3 DEF Begin, CleanStart, TypeInv, TypeOK
  <2> QED BY <1>2, <1>3, <2>1 DEF Begin
<1>4. ~RejectRun /\ ~LoseLease /\ ~DeadLetterReplyLost /\ ~DeadLetterGivenUp /\ ~AttemptDies
  BY <1>1 DEF RejectRun, LoseLease, DeadLetterReplyLost, DeadLetterGivenUp, AttemptDies
<1>5. CASE SkipNode \/ ObserveCancel \/ PauseUnrepresentable
  BY <1>2, <1>5 DEF SkipNode, ObserveCancel, PauseUnrepresentable, Pop, runRow, history
<1>6. CASE StartNode
  <2>1. /\ pc = "loop" /\ pc' = "exec" /\ result' = result /\ past' = past
        /\ node' \in Nodes
    BY <1>6 DEF StartNode, Pop, history
  <2>2. PICK ok \in BOOLEAN : UpsertNodeRun(node', "running", ok) /\ logged' = ok
    BY <1>6 DEF StartNode
  <2>3. ok /\ faults = MaxFaults /\ nodeRun' = [nodeRun EXCEPT ![node'] = "running"]
    BY <1>0, <2>1, <2>2, UpsertDone
  <2>4. ASSUME NEW n \in Nodes, n # node' PROVE RowAgrees(n)'
    <3>1. RowAgrees(n) /\ nodeRun'[n] = nodeRun[n]
      BY <1>16, <2>1, <2>3, <2>4 DEF RowsInv, Undisturbed, TypeInv, TypeOK
    <3>2. Ran(n) => Ran(n)'
      BY <2>1, RanGrows
    <3> QED BY <2>1, <3>1, <3>2 DEF RowAgrees
  <2>5. nodeRun'[node'] = "running"
    BY <2>1, <2>3 DEF TypeInv, TypeOK
  <2> QED BY <2>1, <2>2, <2>3, <2>4, <2>5 DEF RowsInv
<1>7. ASSUME NEW res \in Results, NodeSucceeds(res) PROVE RowsInv'
  BY <1>0, <1>7, RowsReturn DEF NodeSucceeds
<1>8. CASE NodePauses
  BY <1>0, <1>8, RowsReturn DEF NodePauses, Results, Done
<1>9. CASE NodeFails
  <2>1. Returns("error") /\ LogResult("failed") /\ pc' # "exec"
    BY <1>9 DEF NodeFails
  <2> QED BY <1>0, <2>1, RowsReturn DEF Results, Done
<1>10. CASE InsertDeadLetter
  BY <1>2, <1>10 DEF InsertDeadLetter, history
<1>11. CASE Succeed \/ AcknowledgeCancel \/ Fail
  BY <1>2, <1>11 DEF Succeed, AcknowledgeCancel, Fail, CompleteWorkflowRun, EndAttempt, DropLocals, history
<1>12. CASE SavePause
  <2>1. /\ nodeRun' = nodeRun /\ faults' = faults /\ pc = "pause" /\ pc' = "idle"
        /\ past' = past \cup AttemptLog /\ result' = [n \in Nodes |-> "none"]
    BY <1>12 DEF SavePause, EndAttempt, DropLocals
  <2>2. ASSUME NEW n \in Nodes PROVE RowAgrees(n)'
    <3>1. RowAgrees(n)
      BY <1>16, <2>1 DEF RowsInv, Undisturbed
    <3>2. \A res \in Results : result[n] = res => <<n, res>> \in past'
      BY <2>1 DEF AttemptLog, Results, Done
    <3>3. Ran(n) => Ran(n)'
      BY <2>1, <3>2, RanGrows
    <3> QED BY <2>1, <3>1, <3>3 DEF RowAgrees, Done
  <2> QED BY <2>1, <2>2 DEF RowsInv
<1>13. CASE RequeueExpiredLease \/ CancelWorkflowRun \/ UNCHANGED vars
  <2>1. /\ nodeRun' = nodeRun /\ faults' = faults /\ past' = past /\ pc' = pc
        /\ result' = result /\ node' = node /\ logged' = logged
    BY <1>13 DEF RequeueExpiredLease, CancelWorkflowRun, vars, runRow, local, history
  <2>2. ASSUME NEW n \in Nodes, RowAgrees(n) PROVE RowAgrees(n)'
    <3>1. Ran(n) => Ran(n)'
      BY <2>1, RanGrows
    <3> QED BY <2>1, <2>2, <3>1 DEF RowAgrees
  <2> QED BY <1>16, <2>1, <2>2 DEF RowsInv, Undisturbed
<1> QED
  BY <1>3, <1>4, <1>5, <1>6, <1>7, <1>8, <1>9, <1>10, <1>11, <1>12, <1>13, <1>14
     DEF Next, ExecuteRun

\* Where no statement fails, no task dies and no deadline passes, the node runs of a run that has
\* ended tell what each node returned, over all pauses and repeated nodes.
THEOREM NodeRunsTellResults == Spec => []NodeRunsAgree
<1>1. Init => RowsInv
  BY DEF Init, RowsInv, RowAgrees, Done
<1>2. EndInv /\ RowsInv => NodeRunsAgree
  <2> SUFFICES ASSUME EndInv, RowsInv, status \in {"succeeded", "failed"}, ~overdue,
                      faults = MaxFaults,
                      NEW n \in Nodes
               PROVE  RowAgrees(n)
    BY DEF NodeRunsAgree, RowAgrees
  <2>1. pc = "idle"
    BY DEF EndInv, RowAtWork
  <2> QED BY <2>1 DEF RowsInv, Undisturbed
<1> QED BY <1>1, <1>2, EndAlways, RowsStep, TypeInit, PTL DEF Spec

-----------------------------------------------------------------------------
(***************************************************************************)
(* Nothing dropped.  A pause drops what is left on the stack.  In a        *)
(* workflow without a delay there is no pause; in one where no branch has  *)
(* two successors, what is left on the stack at a pause are triggers that  *)
(* were to start other walks, never a successor of an executed node:       *)
(* successors that are due are always on top (DueOnTop).                   *)
(***************************************************************************)
\* What the present attempt still owes: the nodes it was resumed with and the
\* successors of what it has executed.
Owed(n) ==
    /\ result[n] = "none"
    /\ \/ n \in ToSet(saved.nodes)
       \/ \E m \in Nodes : result[m] # "none" /\ Follows(n, m, result[m])

DueOnTop ==
    \A n \in Nodes : Owed(n) =>
       /\ pc = "loop" => stack # << >> /\ n = Last(stack)
       /\ pc = "exec" => n = node
       /\ pc = "pause" => n \in ToSet(ResolveNextNodes(node, "wait"))

RanBefore(n) == \E res \in Results : <<n, res>> \in past

\* What the paused attempts owe was saved for the next one.
PastClosed ==
    \A n \in Nodes :
       (\E m \in Nodes, res \in Results : <<m, res>> \in past /\ Follows(n, m, res))
          => RanBefore(n) \/ n \in ToSet(saved.nodes)

SavedIsResumed ==
    saved.nodes # << >> => saved.resumed /\ (pc # "idle" => origin = saved.nodes)

NeverPaused == past = {} /\ saved.nodes = << >> /\ pc # "pause"

CompleteInv ==
    /\ SavedIsResumed
    /\ NoDelay => NeverPaused
    /\ OneWay => Len(saved.nodes) <= 1 /\ DueOnTop
    /\ NoDelay \/ OneWay => PastClosed /\ RunIsComplete

LEMMA OneElement ==
    ASSUME NEW S, NEW s \in Seq(S), Len(s) <= 1, NEW n \in ToSet(s), NEW t \in Seq(S)
    PROVE  /\ s # << >> /\ n = Last(s)
           /\ t \o Reverse(s) # << >> /\ n = Last(t \o Reverse(s))
<1>1. Len(s) = 1 /\ n = s[1] /\ n \in S
  BY DEF ToSet
<1>2. Reverse(s) \in Seq(S) /\ Len(Reverse(s)) = 1 /\ Reverse(s)[1] = n
  BY <1>1 DEF Reverse
<1>3. /\ t \o Reverse(s) \in Seq(S) /\ Len(t \o Reverse(s)) = Len(t) + 1 /\ Len(t) \in Nat
      /\ (t \o Reverse(s))[Len(t) + 1] = n
  <2> SUFFICES ASSUME NEW u \in Seq(S), Len(u) = 1, u[1] = n
               PROVE  /\ t \o u \in Seq(S) /\ Len(t \o u) = Len(t) + 1 /\ Len(t) \in Nat
                      /\ (t \o u)[Len(t) + 1] = n
    BY <1>2
  <2>1. Len(t) \in Nat /\ t \o u \in Seq(S) /\ Len(t \o u) = Len(t) + Len(u)
    BY ConcatProperties, LenProperties
  <2>2. (t \o u)[Len(t) + 1] = u[Len(t) + 1 - Len(t)]
    BY <2>1, ConcatProperties
  <2> QED BY <2>1, <2>2
<1>4. t \o Reverse(s) # << >> /\ s # << >>
  BY <1>1, <1>3
<1>5. Last(t \o Reverse(s)) = n /\ Last(s) = n
  BY <1>1, <1>3 DEF Last
<1> QED BY <1>4, <1>5

\* Where no branch has two successors, resolve_next_nodes returns at most one.
LEMMA OneNext ==
    ASSUME OneWay, NEW m \in Nodes, NEW res
    PROVE  Len(ResolveNextNodes(m, res)) <= 1
<1>1. Len(<< >>) = 0
  OBVIOUS
<1> QED BY <1>1 DEF OneWay, ResolveNextNodes, Handles

LEMMA OneWayFixed ==
    ASSUME graph' = graph
    PROVE  /\ NoDelay' <=> NoDelay
           /\ OneWay' <=> OneWay
           /\ \A m, res : ResolveNextNodes(m, res)' = ResolveNextNodes(m, res)
BY DEF NoDelay, OneWay, ResolveNextNodes, StopsRun

\* The node at work returns, and what it leads to is owed next.
LEMMA OwedReturn ==
    ASSUME TypeInv, DueOnTop, NEW res \in Results, Returns(res), saved' = saved,
           NEW n \in Nodes, Owed(n)'
    PROVE  n \in ToSet(ResolveNextNodes(node, res))
<1>1. /\ node \in Nodes /\ res \in Outcomes(node) /\ graph \in Graph /\ graph' = graph
      /\ result' = [result EXCEPT ![node] = res] /\ pc = "exec" /\ node' = node
      /\ result \in [Nodes -> Results \cup {"none"}] /\ res # "none"
  BY DEF TypeInv, TypeOK, NodeKnown, Returns, Results, Done
<1>2. n # node /\ result[n] = "none" /\ ~Owed(n)
  BY <1>1 DEF Owed, DueOnTop
<1>3. PICK m \in Nodes : (result[m] # "none" /\ Follows(n, m, result[m]))'
  BY <1>2 DEF Owed
<1>4. Follows(n, m, result'[m])
  BY <1>1, <1>3, GraphFixed
<1>5. m = node
  BY <1>1, <1>2, <1>3, <1>4 DEF Owed
<1> QED BY <1>1, <1>4, <1>5, ResolveIsFollows

\* Only a delay can wait.
LEMMA DelayWaits ==
    ASSUME graph \in Graph, NEW m \in Nodes, "wait" \in Outcomes(m)
    PROVE  ~NoDelay
BY DEF Outcomes, NoDelay, Graph

LEMMA PausePaid ==
    ASSUME TypeInv, EndInv, CompleteInv, SavePause
    PROVE  CompleteInv'
<1>1. /\ pc = "pause" /\ pc' = "idle" /\ status' = "queued" /\ graph' = graph
      /\ past' = past \cup AttemptLog
      /\ saved'.nodes = ResolveNextNodes(node, "wait") /\ saved'.resumed
      /\ node \in Nodes
  BY DEF SavePause, EndAttempt, DropLocals, TypeInv, NodeKnown
<1>2. ~NoDelay /\ ~NoDelay' /\ (OneWay' <=> OneWay)
  BY <1>1, OneWayFixed DEF CompleteInv, NeverPaused
<1>3. SavedIsResumed' /\ RunIsComplete'
  BY <1>1 DEF SavedIsResumed, RunIsComplete
<1>4. ASSUME OneWay PROVE Len(saved'.nodes) <= 1 /\ DueOnTop'
  BY <1>1, <1>4, OneNext DEF DueOnTop
<1>5. ASSUME OneWay, NEW n \in Nodes, NEW m \in Nodes, NEW res \in Results,
             <<m, res>> \in past', Follows(n, m, res), ~RanBefore(n)'
      PROVE  n \in ToSet(saved'.nodes)
  <2>1. result[n] = "none" /\ ~RanBefore(n)
    <3>1. result[n] # "none" => result[n] \in Results /\ <<n, result[n]>> \in AttemptLog
      BY DEF TypeInv, TypeOK, AttemptLog
    <3> QED BY <1>1, <1>5, <3>1 DEF RanBefore
  <2>2. Owed(n)
    <3>1. CASE <<m, res>> \in past
      BY <1>5, <2>1, <3>1 DEF CompleteInv, PastClosed, Owed
    <3>2. CASE <<m, res>> \in AttemptLog
      BY <1>5, <2>1, <3>2 DEF AttemptLog, Owed
    <3> QED BY <1>1, <1>5, <3>1, <3>2
  <2> QED BY <1>1, <1>5, <2>2 DEF CompleteInv, DueOnTop
<1>6. ASSUME OneWay PROVE PastClosed'
  <2>1. \A n, m, res : Follows(n, m, res)' <=> Follows(n, m, res)
    BY <1>1, GraphFixed
  <2> QED BY <1>5, <1>6, <2>1 DEF PastClosed
<1> QED BY <1>2, <1>3, <1>4, <1>6 DEF CompleteInv

\* The node loop has run dry.
LEMMA EndPaid ==
    ASSUME TypeInv, AttemptIsComplete, CompleteInv, Succeed
    PROVE  CompleteInv'
<1>1. /\ pc = "loop" /\ stack = << >> /\ pc' = "idle" /\ graph' = graph /\ past' = past
      /\ result' = result /\ saved' = saved
  BY DEF Succeed, CompleteWorkflowRun, EndAttempt, DropLocals, history
<1>2. /\ \A n, m, res : Follows(n, m, res)' <=> Follows(n, m, res)
      /\ NoDelay' <=> NoDelay
      /\ OneWay' <=> OneWay
  BY <1>1, GraphFixed, OneWayFixed
<1>3. SavedIsResumed' /\ DueOnTop'
  BY <1>1 DEF CompleteInv, SavedIsResumed, DueOnTop
<1>4. PastClosed => PastClosed'
  BY <1>1, <1>2 DEF PastClosed, RanBefore
<1>5. ASSUME PastClosed, NEW n \in Nodes, NEW m \in Nodes, NEW res \in Results,
             <<m, res>> \in Log, Follows(n, m, res)
      PROVE  Ran(n)
  <2>1. ASSUME result[n] # "none" PROVE Ran(n)
    <3>1. result[n] \in Results /\ <<n, result[n]>> \in AttemptLog
      BY <2>1 DEF TypeInv, TypeOK, AttemptLog
    <3> QED BY <3>1 DEF Ran, Log
  <2>2. CASE <<m, res>> \in AttemptLog
    BY <1>1, <1>5, <2>1, <2>2 DEF AttemptLog, AttemptIsComplete
  <2>3. CASE <<m, res>> \in past /\ ~RanBefore(n)
    <3>1. n \in ToSet(saved.nodes)
      BY <1>5, <2>3 DEF PastClosed
    <3>2. saved.nodes # << >>
      BY <3>1 DEF ToSet
    <3>3. origin = saved.nodes
      BY <1>1, <3>2 DEF CompleteInv, SavedIsResumed
    <3> QED BY <1>1, <2>1, <3>1, <3>3 DEF AttemptIsComplete
  <2>4. CASE RanBefore(n)
    BY <2>4 DEF RanBefore, Ran, Log
  <2> QED BY <1>5, <2>2, <2>3, <2>4 DEF Log
<1>6. Log' = Log
  BY <1>1 DEF Log, AttemptLog
<1>7. PastClosed => RunIsComplete'
  BY <1>2, <1>5, <1>6 DEF RunIsComplete, Ran
<1> QED BY <1>1, <1>2, <1>3, <1>4, <1>7 DEF CompleteInv, NeverPaused

LEMMA CompleteStep ==
    TypeInv /\ WalkInv /\ EndInv /\ AttemptIsComplete /\ CompleteInv /\ [Next]_vars
        => CompleteInv'
<1> SUFFICES ASSUME TypeInv, WalkInv, EndInv, AttemptIsComplete, CompleteInv, [Next]_vars
             PROVE  CompleteInv'
  OBVIOUS
\* A step that saves nothing and does not mark the run succeeded.
<1>1. ASSUME graph' = graph, saved' = saved, past' = past, status' # "succeeded",
             NoDelay => pc' # "pause", OneWay => DueOnTop',
             pc' # "idle" => pc # "idle" /\ origin' = origin
      PROVE  CompleteInv'
  <2>1. (NoDelay' <=> NoDelay) /\ (OneWay' <=> OneWay)
    BY <1>1, OneWayFixed
  <2>2. SavedIsResumed' /\ RunIsComplete'
    BY <1>1 DEF CompleteInv, SavedIsResumed, RunIsComplete
  <2>3. \A n, m, res : Follows(n, m, res)' <=> Follows(n, m, res)
    BY <1>1, GraphFixed
  <2>4. PastClosed => PastClosed'
    BY <1>1, <2>3 DEF PastClosed, RanBefore
  <2> QED BY <1>1, <2>1, <2>2, <2>4 DEF CompleteInv, NeverPaused
<1>2. pc # "idle" => status # "succeeded"
  BY DEF EndInv, RowAtWork
<1>3. ASSUME graph' = graph, saved' = saved, result' = result
      PROVE  \A n \in Nodes : Owed(n)' => Owed(n)
  BY <1>3, GraphFixed DEF Owed
<1>4. CASE Begin
  <2>1. /\ graph' = graph /\ saved' = saved /\ past' = past /\ status' = "running"
        /\ pc' = "loop" /\ result' = [n \in Nodes |-> "none"]
        /\ stack' \in InitialStacks /\ origin' = stack'
    BY <1>4 DEF Begin
  <2>2. saved.nodes # << >> => stack' = saved.nodes
    BY <2>1 DEF CompleteInv, SavedIsResumed, InitialStacks
  <2>3. ASSUME OneWay, NEW n \in Nodes, Owed(n)' PROVE stack' # << >> /\ n = Last(stack')
    <3>1. n \in ToSet(saved.nodes)
      BY <2>1, <2>3 DEF Owed
    <3>2. saved.nodes # << >> /\ n = Last(saved.nodes)
      BY <2>3, <3>1, OneElement DEF CompleteInv, TypeInv, TypeOK, Saved
    <3> QED BY <2>2, <3>2
  <2>4. (NoDelay' <=> NoDelay) /\ (OneWay' <=> OneWay)
    BY <2>1, OneWayFixed
  <2>5. OneWay => DueOnTop'
    BY <2>1, <2>3 DEF DueOnTop
  <2>6. SavedIsResumed' /\ RunIsComplete'
    BY <2>1, <2>2 DEF CompleteInv, SavedIsResumed, RunIsComplete
  <2>7. \A n, m, res : Follows(n, m, res)' <=> Follows(n, m, res)
    BY <2>1, GraphFixed
  <2>8. PastClosed => PastClosed'
    BY <2>1, <2>7 DEF PastClosed, RanBefore
  <2> QED BY <2>1, <2>4, <2>5, <2>6, <2>8 DEF CompleteInv, NeverPaused
<1>5. CASE SkipNode
  <2>1. /\ pc = "loop" /\ stack # << >> /\ Last(stack) \in visited \cup Ghosts
        /\ UNCHANGED <<graph, saved, past, status, pc, result, origin>>
    BY <1>5 DEF SkipNode, Pop, runRow, history
  <2>2. ASSUME OneWay, NEW n \in Nodes, Owed(n)' PROVE FALSE
    <3>1. Owed(n) /\ n = Last(stack)
      BY <1>3, <2>1, <2>2 DEF CompleteInv, DueOnTop
    <3>2. n \in visited
      BY <2>1, <3>1, NodesAssumption
    <3> QED BY <2>1, <3>1, <3>2 DEF WalkInv, VisitedIsRun, Owed
  <2> QED BY <1>1, <1>2, <2>1, <2>2 DEF DueOnTop
<1>6. CASE StartNode
  <2>1. /\ pc = "loop" /\ pc' = "exec" /\ node' = Last(stack)
        /\ UNCHANGED <<graph, saved, past, status, result, origin>>
    BY <1>6 DEF StartNode, Pop, history
  <2>2. OneWay => DueOnTop'
    BY <1>3, <2>1 DEF CompleteInv, DueOnTop
  <2> QED BY <1>1, <1>2, <2>1, <2>2
\* The attempt executes no more nodes.
<1>7. CASE ObserveCancel \/ LoseLease \/ PauseUnrepresentable \/ InsertDeadLetter
           \/ DeadLetterReplyLost \/ DeadlineExceeded
  <2>1. /\ pc # "idle" /\ pc' \in {"cancel", "dead", "fail", "late"}
        /\ UNCHANGED <<graph, saved, past, status, origin>>
    BY <1>7 DEF ObserveCancel, LoseLease, PauseUnrepresentable, InsertDeadLetter,
                DeadLetterReplyLost, DeadlineExceeded, Pop, runRow, history
  <2> QED BY <1>1, <1>2, <2>1 DEF DueOnTop
<1>8. CASE AcknowledgeCancel \/ Fail \/ DeadLetterGivenUp \/ AttemptDies \/ FailLate
  <2>1. /\ pc # "idle" /\ pc' = "idle" /\ UNCHANGED <<graph, saved, past>>
        /\ status' = status \/ status' \in {"canceled", "failed"}
    BY <1>8 DEF AcknowledgeCancel, Fail, CompleteWorkflowRun, DeadLetterGivenUp, AttemptDies,
                FailLate, EndAttempt, DropLocals, runRow, history
  <2> QED BY <1>1, <1>2, <2>1 DEF DueOnTop
<1>9. ASSUME NEW res \in Results, Returns(res), saved' = saved
      PROVE  /\ pc = "exec" /\ node' = node
             /\ UNCHANGED <<graph, saved, past, status, origin>>
             /\ \A n \in Nodes : OneWay /\ Owed(n)' => n \in ToSet(ResolveNextNodes(node, res))
  <2>1. OneWay => DueOnTop
    BY DEF CompleteInv
  <2> QED BY <1>9, <2>1, OwedReturn DEF Returns
\* The node at work returns and the walk goes on.
<1>10. ASSUME NEW res \in Results, Returns(res), Push(ResolveNextNodes(node, res)), pc' = "loop"
       PROVE  CompleteInv'
  <2>1. /\ saved' = saved /\ node \in Nodes /\ graph \in Graph /\ stack \in Seq(Ids)
        /\ ResolveNextNodes(node, res) \in Seq(Ids)
    BY <1>10, ResolveType DEF Returns, TypeInv, TypeOK, NodeKnown
  <2>2. OneWay => DueOnTop'
    BY <1>9, <1>10, <2>1, OneNext, OneElement DEF DueOnTop, Push
  <2> QED BY <1>1, <1>2, <1>9, <1>10, <2>1, <2>2
<1>11. ASSUME NEW res \in Results, NodeSucceeds(res) PROVE CompleteInv'
  BY <1>10, <1>11 DEF NodeSucceeds
<1>12. CASE NodePauses
  <2>1. /\ Returns("wait") /\ saved' = saved /\ pc' = "pause" /\ "wait" \in Results
        /\ node \in Nodes /\ graph \in Graph
    BY <1>12 DEF NodePauses, Returns, TypeInv, TypeOK, NodeKnown, Results, Done
  <2>2. ~NoDelay
    BY <2>1, DelayWaits DEF Returns
  <2>3. OneWay => DueOnTop'
    <3>1. graph' = graph /\ node' = node
      BY <2>1 DEF Returns
    <3>2. ResolveNextNodes(node, "wait")' = ResolveNextNodes(node, "wait")
      BY <3>1 DEF ResolveNextNodes, StopsRun
    <3> QED BY <1>9, <2>1, <3>2 DEF DueOnTop
  <2> QED BY <1>1, <1>2, <1>9, <2>1, <2>2, <2>3
<1>13. CASE NodeFails
  <2>1. "error" \in Results /\ Returns("error") /\ saved' = saved
    BY <1>13 DEF NodeFails, Returns, Results
  <2>2. CASE StopsRun(node)
    <3>1. pc' = "dead"
      BY <1>13, <2>2 DEF NodeFails
    <3> QED BY <1>1, <1>2, <1>9, <2>1, <3>1 DEF DueOnTop
  <2>3. CASE ~StopsRun(node)
    BY <1>10, <1>13, <2>1, <2>3 DEF NodeFails
  <2> QED BY <2>2, <2>3
<1>14. CASE Succeed
  BY <1>14, EndPaid
<1>15. CASE SavePause
  BY <1>15, PausePaid
<1>16. CASE RejectRun \/ RequeueExpiredLease \/ CancelWorkflowRun
  <2>1. /\ status' # "succeeded" /\ UNCHANGED <<graph, saved, past, pc, stack, node, result, origin>>
    BY <1>16 DEF RejectRun, RequeueExpiredLease, CancelWorkflowRun, local, history
  <2>2. ResolveNextNodes(node, "wait")' = ResolveNextNodes(node, "wait")
    BY <2>1 DEF ResolveNextNodes, StopsRun
  <2>3. OneWay => DueOnTop'
    BY <1>3, <2>1, <2>2 DEF CompleteInv, DueOnTop
  <2>4. NoDelay => pc' # "pause"
    BY <2>1 DEF CompleteInv, NeverPaused
  <2> QED BY <1>1, <2>1, <2>3, <2>4
<1>17. CASE UNCHANGED vars
  <2>1. /\ UNCHANGED <<graph, saved, past, status, pc, stack, node, result, origin>>
        /\ Log' = Log
    BY <1>17 DEF vars, runRow, local, history, Log, AttemptLog
  <2>2. /\ \A n, m, res : Follows(n, m, res)' <=> Follows(n, m, res)
        /\ NoDelay' <=> NoDelay
        /\ OneWay' <=> OneWay
    BY <2>1, GraphFixed, OneWayFixed
  <2>3. ResolveNextNodes(node, "wait")' = ResolveNextNodes(node, "wait")
    BY <2>1 DEF ResolveNextNodes, StopsRun
  <2>4. DueOnTop => DueOnTop'
    BY <1>3, <2>1, <2>3 DEF DueOnTop
  <2>5. (PastClosed => PastClosed') /\ (RunIsComplete => RunIsComplete')
    BY <2>1, <2>2 DEF PastClosed, RanBefore, RunIsComplete, Ran
  <2> QED BY <2>1, <2>2, <2>4, <2>5 DEF CompleteInv, SavedIsResumed, NeverPaused
<1> QED
  BY <1>4, <1>5, <1>6, <1>7, <1>8, <1>11, <1>12, <1>13, <1>14, <1>15, <1>16, <1>17
     DEF Next, ExecuteRun

\* A workflow without a delay, or in which no branch has two successors, runs to
\* completion: a run that succeeded has executed every chosen successor of every
\* node it executed, over all its attempts.
THEOREM NothingIsDropped == Spec => []UnbranchedRunIsComplete
<1>1. Init => CompleteInv
  BY DEF Init, CompleteInv, SavedIsResumed, NeverPaused, DueOnTop, Owed, PastClosed,
         RunIsComplete, ToSet
<1>2. CompleteInv => UnbranchedRunIsComplete
  BY DEF CompleteInv, UnbranchedRunIsComplete
<1>3. TypeInv /\ WalkInv => AttemptIsComplete
  BY WalkDone
<1> QED BY <1>1, <1>2, <1>3, EndAlways, WalkAlways, CompleteStep, PTL DEF Spec
=============================================================================

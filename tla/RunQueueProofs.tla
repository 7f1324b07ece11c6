--------------------------- MODULE RunQueueProofs ---------------------------
(***************************************************************************)
(* Proofs about RunQueue, for any number of runs, workflows and workers:   *)
(* its types, exclusive execution, the limits, and that it implements      *)
(* RunLifecycle.                                                           *)
(***************************************************************************)
EXTENDS RunQueue, FiniteSetTheorems, TLAPS

\* A task that waits for a final write knows which one, and a task past its
\* deadline only ever fails its run.
OpOK ==
    \A t \in inflight :
       /\ t.phase \in {"finish", "written"} => t.op # "none"
       /\ t.phase \in {"late", "lateWritten"} => t.op = "failed"

TypeInv == TypeOK /\ OpOK

-----------------------------------------------------------------------------
(* A step of one task replaces it in the JoinSet. *)

\* What Become does to the tasks: the changed one is typed, the others stay.
LEMMA BecomeTask ==
    ASSUME NEW t \in inflight, NEW u \in Task, inflight \subseteq Task, Become(t, u)
    PROVE  /\ inflight' \subseteq Task
           /\ \A x \in inflight' : x = u \/ x \in inflight
BY DEF Become

\* Updates of a task's fields keep it a task.
LEMMA TaskUpdate ==
    ASSUME NEW t \in Task, NEW ph \in Phases, NEW o \in Ops,
           NEW n \in Nat, NEW a \in Nat, NEW s \in Nat
    PROVE  /\ [t EXCEPT !.phase = ph] \in Task
           /\ [t EXCEPT !.since = s] \in Task
           /\ [t EXCEPT !.phase = ph, !.since = s] \in Task
           /\ [t EXCEPT !.phase = ph, !.op = o] \in Task
           /\ [t EXCEPT !.phase = ph, !.op = o, !.since = s] \in Task
           /\ [t EXCEPT !.phase = ph, !.op = o, !.tries = n, !.since = s] \in Task
           /\ [t EXCEPT !.phase = ph, !.age = a, !.since = s] \in Task
           /\ [t EXCEPT !.phase = ph, !.op = o, !.tries = n, !.age = a, !.since = s] \in Task
           /\ [t EXCEPT !.phase = ph, !.tries = n] \in Task
           /\ [t EXCEPT !.age = a, !.since = s] \in Task
BY DEF Task

\* Initially the tables are empty and every loop is about to reap.
LEMMA TypeInit == Init => TypeInv
<1> SUFFICES ASSUME Init PROVE TypeInv
  OBVIOUS
<1>1. OpOK
  BY DEF Init, OpOK
<1>2. snap \in [Workers -> [cands: SUBSET Runs, prio: [Runs -> Int]]]
  BY DEF Init, NoSnap
<1>3. /\ status \in [Runs -> Statuses]
      /\ leasedBy \in [Runs -> Workers \cup {NoWorker}]
      /\ loop \in [Workers -> LoopSteps]
      /\ inflight \subseteq Task
  BY DEF Init, Statuses, Gone, LoopSteps
<1>4. finished \in [Runs -> BOOLEAN]
  BY DEF Init
<1>5. /\ leaseLeft \in [Runs -> Int] /\ resumeLeft \in [Runs -> Nat]
      /\ priority \in [Runs -> Int] /\ claimNo \in [Runs -> Nat]
      /\ limit \in [Workflows -> Nat \ {0}] /\ faults \in Nat
  BY BoundsAssumption DEF Init
<1> QED
  BY <1>1, <1>2, <1>3, <1>4, <1>5 DEF TypeInv, TypeOK

\* Requests of users keep the types.
LEMMA TypeUser ==
    ASSUME TypeInv, UserStep PROVE TypeInv'
<1> USE DEF TypeInv, TypeOK, Statuses, Final, Gone
<1>1. ASSUME NEW r \in Runs, CreateRun(r) PROVE TypeInv'
  BY <1>1 DEF CreateRun, OpOK
<1>2. ASSUME NEW rs \in SUBSET Runs, CancelRuns(rs) PROVE TypeInv'
  BY <1>2 DEF CancelRuns, OpOK
<1>3. ASSUME NEW r \in Runs, NEW p \in Priorities, SetRunPriority(r, p) PROVE TypeInv'
  BY <1>3, LimitsAssumption DEF SetRunPriority, OpOK
<1>4. ASSUME NEW f \in Workflows, NEW n \in Limits, SetConcurrencyLimit(f, n)
      PROVE TypeInv'
  BY <1>4, LimitsAssumption DEF SetConcurrencyLimit, OpOK, row
<1> QED
  BY <1>1, <1>2, <1>3, <1>4 DEF UserStep, CancelWorkflowRun, CancelAllRunsForWorkflow

\* Steps of a worker loop keep the types.
LEMMA TypeLoop ==
    ASSUME TypeInv, NEW w \in Workers,
           LoopStep(w) \/ (\E old \in SUBSET Runs : PurgeOldRuns(w, old))
    PROVE  TypeInv'
<1> USE DEF TypeInv, TypeOK
<1>1. CASE Reap(w)
  BY <1>1 DEF Reap, OpOK, row, LoopSteps
<1>2. ASSUME NEW old \in SUBSET Runs, PurgeOldRuns(w, old) PROVE TypeInv'
  BY <1>2 DEF PurgeOldRuns, OpOK, Statuses, Gone
<1>3. CASE RequeueExpiredLeases(w)
  BY <1>3 DEF RequeueExpiredLeases, OpOK, LoopSteps, Statuses
<1>4. CASE SkipRequeue(w)
  BY <1>4 DEF SkipRequeue, Spend, OpOK, row, LoopSteps
<1>5. CASE AtCapacity(w)
  BY <1>5 DEF AtCapacity, OpOK, row, LoopSteps
<1>6. CASE ReadClaimSnapshot(w)
  BY <1>6 DEF ReadClaimSnapshot, OpOK, row, LoopSteps
<1>7. ASSUME NEW r \in Runs, Lock(w, r), OpOK',
             faults' \in Nat, inflight' \subseteq Task
      PROVE  TypeInv'
  <2>1. /\ status' \in [Runs -> Statuses]
        /\ leasedBy' \in [Runs -> Workers \cup {NoWorker}]
        /\ loop' \in [Workers -> LoopSteps]
    BY <1>7 DEF Lock, Statuses, LoopSteps
  <2>2. /\ leaseLeft' \in [Runs -> Int]
        /\ claimNo' \in [Runs -> Nat]
        /\ snap' \in [Workers -> [cands: SUBSET Runs, prio: [Runs -> Int]]]
    BY <1>7, TimesAssumption DEF Lock, NoSnap
  <2> QED
    BY <1>7, <2>1, <2>2 DEF Lock
<1>8. ASSUME NEW r \in Runs PROVE NewTask(w, r) \in Task
  BY DEF NewTask, Task, Phases, Ops
<1>9. ASSUME NEW r \in Runs, inflight' = inflight \cup {NewTask(w, r)}
      PROVE  inflight' \subseteq Task /\ OpOK'
  <2>1. NewTask(w, r).phase = "precheck"
    BY DEF NewTask
  <2> QED
    BY <1>8, <1>9, <2>1 DEF OpOK
<1>10. ASSUME NEW r \in Runs, ClaimNextEligibleRun(w, r) PROVE TypeInv'
  BY <1>7, <1>9, <1>10 DEF ClaimNextEligibleRun
<1>11. ASSUME NEW r \in Runs, ClaimReplyLost(w, r) PROVE TypeInv'
  <2>1. faults' \in Nat /\ inflight' = inflight
    BY <1>11 DEF ClaimReplyLost, Spend
  <2> QED
    BY <1>7, <1>11, <2>1 DEF ClaimReplyLost, OpOK
<1>12. CASE ClaimNothing(w)
  BY <1>12 DEF ClaimNothing, Spend, OpOK, row, LoopSteps, NoSnap
<1>13. ASSUME NEW r \in Runs, ClaimNextQueuedRun(w, r) PROVE TypeInv'
  <2>1. inflight' \subseteq Task /\ OpOK'
    BY <1>9, <1>13 DEF ClaimNextQueuedRun
  <2> QED
    BY <1>13, <2>1 DEF ClaimNextQueuedRun, Statuses, LoopSteps
<1>14. CASE NoQueuedRun(w)
  BY <1>14 DEF NoQueuedRun, OpOK, row, LoopSteps
<1> QED
  BY <1>1, <1>2, <1>3, <1>4, <1>5, <1>6, <1>10, <1>11, <1>12, <1>13, <1>14 DEF LoopStep

\* Steps of a task keep the types.
LEMMA TypeTask ==
    ASSUME TypeInv, NEW t \in inflight, TaskStep(t) PROVE TypeInv'
<1> USE DEF TypeInv, TypeOK
<1>0. t \in Task /\ t.phase \in Phases /\ t.op \in Ops /\ t.run \in Runs
      /\ t.tries \in Nat /\ t.age \in Nat /\ t.since \in Nat
  BY DEF Task
<1>a. /\ 0 \in Nat /\ RenewEvery \in Nat
      /\ {"exec", "finish", "written", "late", "lateWritten", "done", "error"} \subseteq Phases
      /\ {"succeeded", "failed", "canceled", "none", "pause"} \subseteq Ops
  BY TimesAssumption DEF Phases, Ops, Final
\* Replacing t by a typed task with a well chosen operation keeps OpOK.
<1>b. ASSUME NEW u \in Task, Become(t, u),
             u.phase \in {"finish", "written"} => u.op # "none",
             u.phase \in {"late", "lateWritten"} => u.op = "failed"
      PROVE  inflight' \subseteq Task /\ OpOK'
  <2>1. inflight' \subseteq Task /\ \A x \in inflight' : x = u \/ x \in inflight
    BY <1>b, BecomeTask
  <2> QED
    BY <1>b, <2>1 DEF OpOK
<1>1. CASE StartExec(t)
  <2> DEFINE u == [t EXCEPT !.phase = "exec", !.since = RenewEvery]
  <2>1. u \in Task /\ u.phase = "exec"
    BY <1>0, <1>a, TaskUpdate DEF Task
  <2>2. inflight' \subseteq Task /\ OpOK'
    BY <1>1, <1>b, <2>1 DEF StartExec
  <2> QED
    BY <1>1, <2>2 DEF StartExec, row
<1>2. CASE BlockRunaway(t)
  <2> DEFINE u == [t EXCEPT !.phase = "late", !.op = "failed"]
  <2>1. u \in Task /\ u.phase = "late" /\ u.op = "failed"
    BY <1>0, <1>a, TaskUpdate DEF Task
  <2>2. inflight' \subseteq Task /\ OpOK'
    BY <1>2, <1>b, <2>1 DEF BlockRunaway
  <2> QED
    BY <1>2, <2>2 DEF BlockRunaway, row
<1>3. RenewRunLease(t) => leaseLeft' \in [Runs -> Int]
  BY <1>0, TimesAssumption DEF RenewRunLease
<1>4. CASE NodeStep(t)
  <2> DEFINE u == [t EXCEPT !.since = 0]
  <2>1. u \in Task /\ u.phase = t.phase
    BY <1>0, <1>a, TaskUpdate DEF Task
  <2>2. inflight' \subseteq Task /\ OpOK'
    BY <1>4, <1>b, <2>1 DEF NodeStep
  <2> QED
    BY <1>4, <1>3, <2>2 DEF NodeStep
<1>5. ASSUME NEW o \in Ops \ {"none"}, Finish(t, o)
      PROVE  inflight' \subseteq Task /\ OpOK'
  <2> DEFINE u == [t EXCEPT !.phase = "finish", !.op = o, !.since = 0]
  <2>1. u \in Task /\ u.phase = "finish" /\ u.op = o
    BY <1>0, <1>a, <1>5, TaskUpdate DEF Task
  <2> QED
    BY <1>5, <1>b, <2>1 DEF Finish
<1>6. CASE ObserveCancel(t)
  <2>1. inflight' \subseteq Task /\ OpOK'
    BY <1>5, <1>6, <1>a DEF ObserveCancel
  <2> QED
    BY <1>3, <1>6, <2>1 DEF ObserveCancel
<1>7. CASE RenewFails(t)
  <2>1. inflight' \subseteq Task /\ OpOK'
    BY <1>5, <1>7, <1>a DEF RenewFails
  <2>2. faults' \in Nat
    BY <1>7, BoundsAssumption DEF RenewFails, Spend
  <2> QED
    BY <1>7, <2>1, <2>2 DEF RenewFails, row
<1>8. ASSUME NEW o \in {"succeeded", "failed", "pause"}, EndExec(t, o) PROVE TypeInv'
  <2>1. inflight' \subseteq Task /\ OpOK'
    BY <1>5, <1>8, <1>a DEF EndExec
  <2> QED
    BY <1>8, <2>1 DEF EndExec, row
<1>9. CASE DeadlineExceeded(t)
  <2> DEFINE u == [t EXCEPT !.phase = "late", !.op = "failed", !.tries = 0, !.since = 0]
  <2>1. u \in Task /\ u.phase = "late" /\ u.op = "failed"
    BY <1>0, <1>a, TaskUpdate DEF Task
  <2>2. inflight' \subseteq Task /\ OpOK'
    BY <1>9, <1>b, <2>1 DEF DeadlineExceeded
  <2> QED
    BY <1>9, <2>2 DEF DeadlineExceeded, row
<1>10. CASE PersistenceError(t)
  <2> DEFINE u == [t EXCEPT !.phase = "error", !.age = 0, !.since = 0]
  <2>1. u \in Task /\ u.phase = "error"
    BY <1>0, <1>a, TaskUpdate DEF Task
  <2>2. inflight' \subseteq Task /\ OpOK'
    BY <1>10, <1>b, <2>1 DEF PersistenceError
  <2>3. faults' \in Nat
    BY <1>10, BoundsAssumption DEF PersistenceError, Spend
  <2>4. status' \in [Runs -> Statuses] /\ finished' \in [Runs -> BOOLEAN]
    BY <1>0, <1>10 DEF PersistenceError, Statuses, Final
  <2> QED
    BY <1>10, <2>2, <2>3, <2>4 DEF PersistenceError
<1>11. CASE FinalWrite(t)
  <2> DEFINE u == [t EXCEPT !.phase = IF @ = "finish" THEN "written" ELSE "lateWritten"]
  <2>1. /\ u \in Task /\ u.op = t.op
        /\ t.phase = "finish" => u.phase = "written"
        /\ t.phase = "late" => u.phase = "lateWritten"
    BY <1>0, <1>a, TaskUpdate DEF Task
  <2>2. inflight' \subseteq Task /\ OpOK'
    BY <1>11, <1>b, <2>1 DEF FinalWrite, OpOK
  <2>3. t.op # "none"
    BY <1>11 DEF FinalWrite, OpOK
  <2>4. CASE t.op = "pause"
    <3>1. PauseWorkflowRun(t.run)
      BY <1>11, <2>4 DEF FinalWrite
    <3>2. resumeLeft' \in [Runs -> Nat]
      BY <1>0, <3>1, TimesAssumption DEF PauseWorkflowRun
    <3>3. finished' = finished
      BY <3>1 DEF PauseWorkflowRun
    <3>4. CASE status[t.run] \in Gone
      BY <1>11, <2>2, <3>1, <3>4 DEF FinalWrite, PauseWorkflowRun
    <3>5. CASE status[t.run] \notin Gone
      <4>1. status' \in [Runs -> Statuses]
        BY <1>0, <3>1, <3>5 DEF PauseWorkflowRun, Statuses
      <4>2. leasedBy' \in [Runs -> Workers \cup {NoWorker}]
        BY <1>0, <3>1, <3>5 DEF PauseWorkflowRun
      <4>3. leaseLeft' \in [Runs -> Int]
        BY <1>0, <3>1, <3>5 DEF PauseWorkflowRun
      <4> QED
        BY <1>11, <2>2, <3>2, <3>3, <4>1, <4>2, <4>3 DEF FinalWrite
    <3> QED
      BY <3>4, <3>5
  <2>5. CASE t.op # "pause"
    <3>1. CompleteWorkflowRun(t.run, t.op) /\ t.op \in Final
      BY <1>0, <1>11, <2>3, <2>5 DEF FinalWrite, Ops
    <3>2. status' \in [Runs -> Statuses]
      BY <1>0, <3>1 DEF CompleteWorkflowRun, Statuses
    <3>3. finished' \in [Runs -> BOOLEAN]
      BY <1>0, <3>1 DEF CompleteWorkflowRun
    <3> QED
      BY <1>11, <2>2, <3>1, <3>2, <3>3 DEF FinalWrite, CompleteWorkflowRun
  <2> QED
    BY <2>4, <2>5
<1>12. ASSUME NEW ph \in {"done", "error"}, End(t, ph)
       PROVE  inflight' \subseteq Task /\ OpOK'
  <2> DEFINE u == [t EXCEPT !.phase = ph, !.op = "none", !.tries = 0, !.age = 0, !.since = 0]
  <2>1. u \in Task /\ u.phase = ph
    <3>1. ph \in Phases
      BY <1>a, <1>12
    <3>2. u \in Task
      BY <1>0, <1>a, <3>1, TaskUpdate
    <3> QED
      BY <1>0, <3>2 DEF Task
  <2> QED
    BY <1>12, <1>b, <2>1 DEF End
<1>13. ASSUME NEW ph \in {"finish", "late"}, Retry(t, ph),
              ph = "finish" => t.op # "none", ph = "late" => t.op = "failed"
       PROVE  inflight' \subseteq Task /\ OpOK'
  <2> DEFINE u == [t EXCEPT !.phase = ph, !.tries = @ + 1]
  <2>1. u \in Task /\ u.phase = ph /\ u.op = t.op
    <3>1. ph \in Phases /\ t.tries + 1 \in Nat
      BY <1>0, <1>a, <1>13
    <3>2. u \in Task
      BY <1>0, <3>1, TaskUpdate
    <3> QED
      BY <1>0, <3>2 DEF Task
  <2> QED
    BY <1>12, <1>13, <1>b, <2>1 DEF Retry
<1>14. CASE Reply(t)
  <2>1. inflight' \subseteq Task /\ OpOK'
    BY <1>12, <1>14 DEF Reply
  <2> QED
    BY <1>14, <2>1 DEF Reply, row
<1>15. CASE WriteFails(t)
  <2>1. inflight' \subseteq Task /\ OpOK'
    BY <1>13, <1>15 DEF WriteFails, OpOK
  <2>2. faults' \in Nat
    BY <1>15 DEF WriteFails, Spend
  <2> QED
    BY <1>15, <2>1, <2>2 DEF WriteFails, row
<1>16. CASE WriteReplyLost(t)
  <2>1. inflight' \subseteq Task /\ OpOK'
    BY <1>13, <1>16 DEF WriteReplyLost, OpOK
  <2>2. faults' \in Nat
    BY <1>16 DEF WriteReplyLost, Spend
  <2> QED
    BY <1>16, <2>1, <2>2 DEF WriteReplyLost, row
<1>17. CASE TaskPanics(t)
  <2>1. inflight' \subseteq Task /\ OpOK'
    BY <1>12, <1>17 DEF TaskPanics
  <2>2. faults' \in Nat
    BY <1>17 DEF TaskPanics, Spend
  <2> QED
    BY <1>17, <2>1, <2>2 DEF TaskPanics, row
<1> QED
  BY <1>1, <1>2, <1>4, <1>6, <1>7, <1>8, <1>9, <1>10, <1>11, <1>14, <1>15, <1>16, <1>17
     DEF TaskStep

\* Crashes, restarts and the clock keep the types.
LEMMA TypeProcess ==
    ASSUME TypeInv, (\E w \in Workers : Crash(w) \/ Restart(w)) \/ Tick
    PROVE  TypeInv'
<1> USE DEF TypeInv, TypeOK
<1>1. ASSUME NEW w \in Workers, Crash(w) PROVE TypeInv'
  BY <1>1 DEF Crash, Spend, OpOK, row, LoopSteps, NoSnap
<1>2. ASSUME NEW w \in Workers, Restart(w) PROVE TypeInv'
  BY <1>2 DEF Restart, OpOK, row, LoopSteps
<1>3. CASE Tick
  <2>1. ASSUME NEW t \in inflight
        PROVE  Aged(t) \in Task /\ Aged(t).phase = t.phase /\ Aged(t).op = t.op
    <3> DEFINE a == IF Deadline > 0 THEN t.age + 1 ELSE t.age
               s == IF t.phase = "exec" /\ t.since < RenewEvery THEN t.since + 1 ELSE t.since
    <3>1. t \in Task /\ a \in Nat /\ s \in Nat
      BY DEF Task
    <3>2. [t EXCEPT !.age = a, !.since = s] \in Task
      <4> HIDE DEF a, s
      <4> QED BY <3>1 DEF Task
    <3>3. Aged(t) = t \/ Aged(t) = [t EXCEPT !.age = a, !.since = s]
      BY DEF Aged
    <3> QED
      BY <3>1, <3>2, <3>3 DEF Task
  <2>2. inflight' \subseteq Task /\ OpOK'
    BY <1>3, <2>1 DEF Tick, OpOK
  <2>3. leaseLeft' \in [Runs -> Int] /\ resumeLeft' \in [Runs -> Nat]
    BY <1>3 DEF Tick
  <2> QED
    BY <1>3, <2>2, <2>3 DEF Tick
<1> QED
  BY <1>1, <1>2, <1>3

\* TypeInv is inductive.
LEMMA TypeNext == TypeInv /\ [Next]_vars => TypeInv'
<1> SUFFICES ASSUME TypeInv, [Next]_vars PROVE TypeInv'
  OBVIOUS
<1>1. CASE Next
  BY <1>1, TypeUser, TypeLoop, TypeTask, TypeProcess DEF Next
<1>2. CASE UNCHANGED vars
  BY <1>2 DEF vars, row, TypeInv, TypeOK, OpOK
<1> QED
  BY <1>1, <1>2

\* Every variable keeps its type, and a task that waits for a final write has
\* chosen one: the statuses written are those of the status column's CHECK.
THEOREM TypeCorrect == Spec => []TypeOK
<1>1. TypeInv => TypeOK
  BY DEF TypeInv
<1> QED
  BY TypeInit, TypeNext, <1>1, PTL DEF Spec

-----------------------------------------------------------------------------
(* The lease of a running row. *)

LeaseInv ==
    /\ LeaseMatchesStatus
    /\ \A r \in Runs : status[r] = "absent" => leasedBy[r] = NoWorker

\* LeaseInv is inductive relative to the types; the cases are the actions that
\* write status or leased_by.
LEMMA LeaseNext == TypeInv /\ LeaseInv /\ [Next]_vars => LeaseInv'
<1> SUFFICES ASSUME TypeInv, LeaseInv, [Next]_vars PROVE LeaseInv'
  OBVIOUS
<1> USE DEF LeaseInv, LeaseMatchesStatus, TypeInv, TypeOK
<1>0. ASSUME status' = status, leasedBy' = leasedBy PROVE LeaseInv'
  BY <1>0
<1>1. ASSUME NEW r \in Runs, CreateRun(r) PROVE LeaseInv'
  BY <1>1 DEF CreateRun
<1>2. ASSUME NEW rs \in SUBSET Runs, CancelRuns(rs) PROVE LeaseInv'
  BY <1>2 DEF CancelRuns
<1>3. ASSUME UserStep PROVE LeaseInv'
  BY <1>3, <1>0, <1>1, <1>2
     DEF UserStep, CancelWorkflowRun, CancelAllRunsForWorkflow, SetRunPriority,
         SetConcurrencyLimit, row
<1>4. ASSUME NEW w \in Workers, NEW old \in SUBSET Runs, PurgeOldRuns(w, old)
      PROVE  LeaseInv'
  BY <1>4 DEF PurgeOldRuns
<1>5. ASSUME NEW w \in Workers, LoopStep(w) PROVE LeaseInv'
  <2>1. CASE RequeueExpiredLeases(w)
    BY <2>1 DEF RequeueExpiredLeases
  <2>2. ASSUME NEW r \in Runs, Lock(w, r) PROVE LeaseInv'
    BY <2>2, WorkersAssumption DEF Lock
  <2>3. ASSUME NEW r \in Runs, ClaimNextQueuedRun(w, r) PROVE LeaseInv'
    BY <2>3 DEF ClaimNextQueuedRun
  <2> QED
    BY <1>5, <1>0, <2>1, <2>2, <2>3
       DEF LoopStep, Reap, SkipRequeue, AtCapacity, ReadClaimSnapshot, ClaimNothing,
           NoQueuedRun, ClaimNextEligibleRun, ClaimReplyLost, row
<1>6. ASSUME NEW t \in inflight, TaskStep(t) PROVE LeaseInv'
  <2>0. t.run \in Runs /\ t.op \in Ops
    BY DEF Task
  <2>1. CASE PersistenceError(t)
    BY <2>0, <2>1 DEF PersistenceError, Gone
  <2>2. CASE FinalWrite(t)
    <3>1. CASE t.op = "pause"
      BY <2>0, <2>2, <3>1 DEF FinalWrite, PauseWorkflowRun, Gone
    <3>2. CASE t.op # "pause"
      <4>1. t.op \in Final
        BY <2>0, <2>2, <3>2 DEF FinalWrite, OpOK, Ops
      <4>2. CompleteWorkflowRun(t.run, t.op)
        BY <2>2, <3>2 DEF FinalWrite
      <4> QED
        BY <2>0, <4>1, <4>2 DEF CompleteWorkflowRun, Final, Gone
    <3> QED
      BY <3>1, <3>2
  <2> QED
    BY <1>6, <1>0, <2>1, <2>2
       DEF TaskStep, StartExec, BlockRunaway, NodeStep, ObserveCancel, RenewFails,
           EndExec, DeadlineExceeded, Reply, WriteFails, WriteReplyLost, TaskPanics, row
<1>7. ASSUME NEW w \in Workers, Crash(w) \/ Restart(w) PROVE LeaseInv'
  BY <1>7, <1>0 DEF Crash, Restart, row
<1>8. CASE Tick
  BY <1>8, <1>0 DEF Tick
<1>9. CASE UNCHANGED vars
  BY <1>9, <1>0 DEF vars, row
<1> QED
  BY <1>3, <1>4, <1>5, <1>6, <1>7, <1>8, <1>9 DEF Next

\* No interleaving of claims, pauses, requeues, cancels, crashes and late writes
\* leaves a running row without the lease by which requeue_expired_leases would
\* find it, or a queued row that still has one.
THEOREM RunningIsLeased == Spec => []LeaseMatchesStatus
<1>1. Init => LeaseInv
  BY DEF Init, LeaseInv, LeaseMatchesStatus
<1>2. LeaseInv => LeaseMatchesStatus
  BY DEF LeaseInv
<1> QED
  BY TypeInit, TypeNext, <1>1, LeaseNext, <1>2, PTL DEF Spec

-----------------------------------------------------------------------------
(***************************************************************************)
(* Exclusive execution.  OneExecutor is not inductive: a requeue of the    *)
(* run of a task at work would allow a second claim.  What prevents it is  *)
(* arithmetic.  The lease of a task at work has at least Lease - age ticks *)
(* left (Held), and a task is never older than Deadline + MaxStall         *)
(* (Young), so Timely keeps the lease from expiring.                       *)
(***************************************************************************)
Held ==
    \A t \in inflight : Owner(t) =>
       /\ status[t.run] \notin {"queued", "absent"}
       /\ UseLeases /\ status[t.run] = "running" =>
             leasedBy[t.run] = t.worker /\ leaseLeft[t.run] >= Lease - t.age

Young ==
    \A t \in inflight : Live(t) /\ Deadline > 0 => t.age <= Deadline + MaxStall

Excl == OneExecutor /\ Held /\ Young

\* A step that replaces t by u and keeps, for every task still at work, the row
\* out of the queue and the lease at least as long, or newly granted.
LEMMA ExclBecome ==
    ASSUME TypeInv, Excl, NEW t \in inflight, NEW u \in Task, Become(t, u),
           leaseLeft' \in [Runs -> Int],
           u.run = t.run, u.worker = t.worker,
           Owner(u) => Owner(t) /\ u.age = t.age,
           Live(u) => Live(t) /\ u.age = t.age,
           \A x \in inflight : Owner(x) /\ (x = t => Owner(u)) =>
              /\ status'[x.run] \notin {"queued", "absent"}
              /\ status'[x.run] = "running" =>
                    /\ status[x.run] = "running"
                    /\ leasedBy'[x.run] = leasedBy[x.run]
                    /\ leaseLeft'[x.run] >= leaseLeft[x.run] \/ leaseLeft'[x.run] >= Lease
    PROVE  Excl'
<1> USE DEF TypeInv, TypeOK
<1>1. \A x \in inflight' : x = u \/ (x \in inflight /\ x # t)
  BY DEF Become
<1>2. OneExecutor'
  BY <1>1 DEF Excl, OneExecutor, Owner
<1>3. Young'
  BY <1>1 DEF Excl, Young, Live
<1>4. ASSUME NEW x \in inflight', Owner(x)
      PROVE  /\ status'[x.run] \notin {"queued", "absent"}
             /\ UseLeases /\ status'[x.run] = "running" =>
                   leasedBy'[x.run] = x.worker /\ leaseLeft'[x.run] >= Lease - x.age
  <2>1. PICK y \in inflight : /\ Owner(y) /\ (y = t => Owner(u))
                              /\ y.run = x.run /\ y.worker = x.worker /\ y.age = x.age
    BY <1>1, <1>4
  <2>2. leaseLeft[y.run] \in Int /\ leaseLeft'[y.run] \in Int /\ Lease - y.age \in Int
    BY TimesAssumption DEF Task
  <2>a. Lease \in Int /\ Lease >= Lease - y.age
    BY TimesAssumption DEF Task
  <2>3. UseLeases /\ status[y.run] = "running" =>
           leasedBy[y.run] = y.worker /\ leaseLeft[y.run] >= Lease - y.age
    BY <2>1 DEF Excl, Held
  <2> QED
    BY <2>1, <2>2, <2>a, <2>3
<1>5. Held'
  BY <1>4 DEF Held, Owner
<1> QED
  BY <1>2, <1>3, <1>5 DEF Excl

\* A step that only changes t.
LEMMA ExclQuiet ==
    ASSUME TypeInv, Excl, NEW t \in inflight, NEW u \in Task, Become(t, u),
           UNCHANGED <<status, leasedBy, leaseLeft>>,
           u.run = t.run, u.worker = t.worker,
           Owner(u) => Owner(t) /\ u.age = t.age,
           Live(u) => Live(t) /\ u.age = t.age
    PROVE  Excl'
<1>1. \A x \in inflight : Owner(x) =>
              /\ status'[x.run] \notin {"queued", "absent"}
              /\ status'[x.run] = "running" =>
                    /\ status[x.run] = "running"
                    /\ leasedBy'[x.run] = leasedBy[x.run]
                    /\ leaseLeft'[x.run] >= leaseLeft[x.run]
  BY DEF Excl, Held, TypeInv, TypeOK, Task
<1>2. leaseLeft' \in [Runs -> Int]
  BY DEF TypeInv, TypeOK
<1> QED
  BY <1>1, <1>2, ExclBecome

\* Steps of a task.
LEMMA ExclTask ==
    ASSUME TypeInv, Excl, ~ReplyLoss, NEW t \in inflight, TaskStep(t) PROVE Excl'
<1> USE DEF TypeInv, TypeOK
<1>0. t \in Task /\ t.run \in Runs /\ t.op \in Ops
  BY DEF Task
<1>a. /\ 0 \in Nat /\ RenewEvery \in Nat
      /\ {"exec", "finish", "written", "late", "lateWritten", "done", "error"} \subseteq Phases
      /\ {"succeeded", "failed", "canceled", "none", "pause"} \subseteq Ops
  BY TimesAssumption DEF Phases, Ops, Final
<1>1. CASE StartExec(t)
  <2> DEFINE u == [t EXCEPT !.phase = "exec", !.since = RenewEvery]
  <2>1. u \in Task /\ u.run = t.run /\ u.worker = t.worker /\ u.age = t.age
    BY <1>0, <1>a, TaskUpdate DEF Task
  <2> QED
    BY <1>1, <2>1, ExclQuiet DEF StartExec, row, Owner, Live
<1>2. CASE BlockRunaway(t)
  <2> DEFINE u == [t EXCEPT !.phase = "late", !.op = "failed"]
  <2>1. /\ u \in Task /\ u.run = t.run /\ u.worker = t.worker /\ u.age = t.age
        /\ u.phase = "late"
    BY <1>0, <1>a, TaskUpdate DEF Task
  <2> QED
    BY <1>2, <2>1, ExclQuiet DEF BlockRunaway, row, Owner, Live
\* A renewal grants the row a new lease; a row that lost its lease stays as it is.
<1>3. ASSUME RenewRunLease(t), UNCHANGED <<status, leasedBy>>
      PROVE  /\ leaseLeft' \in [Runs -> Int]
             /\ \A x \in inflight : Owner(x) =>
                 /\ status'[x.run] \notin {"queued", "absent"}
                 /\ status'[x.run] = "running" =>
                     /\ status[x.run] = "running"
                     /\ leasedBy'[x.run] = leasedBy[x.run]
                     /\ leaseLeft'[x.run] >= leaseLeft[x.run] \/ leaseLeft'[x.run] >= Lease
  BY <1>0, <1>3, TimesAssumption DEF RenewRunLease, Excl, Held, Task
<1>4. CASE NodeStep(t)
  <2> DEFINE u == [t EXCEPT !.since = 0]
  <2>1. /\ u \in Task /\ u.run = t.run /\ u.worker = t.worker /\ u.age = t.age
        /\ u.phase = t.phase
    BY <1>0, <1>a, TaskUpdate DEF Task
  <2>2. (Owner(u) => Owner(t)) /\ (Live(u) => Live(t))
    BY <2>1 DEF Owner, Live
  <2>3. Become(t, u) /\ RenewRunLease(t) /\ UNCHANGED <<status, leasedBy>>
    BY <1>4 DEF NodeStep
  <2> HIDE DEF u
  <2> QED
    BY <1>3, <2>1, <2>2, <2>3, ExclBecome
<1>5. ASSUME NEW o \in Ops, t.phase = "exec"
      PROVE  LET u == [t EXCEPT !.phase = "finish", !.op = o, !.since = 0]
             IN /\ u \in Task /\ u.run = t.run /\ u.worker = t.worker /\ u.age = t.age
                /\ Owner(t) /\ Live(t)
  BY <1>0, <1>a, <1>5, TaskUpdate DEF Task, Owner, Live
<1>6. CASE ObserveCancel(t)
  <2> DEFINE u == [t EXCEPT !.phase = "finish", !.op = "canceled", !.since = 0]
  <2>1. /\ u \in Task /\ u.run = t.run /\ u.worker = t.worker /\ u.age = t.age
        /\ Owner(t) /\ Live(t)
    BY <1>5, <1>6, <1>a DEF ObserveCancel
  <2>2. Become(t, u) /\ RenewRunLease(t) /\ UNCHANGED <<status, leasedBy>>
    BY <1>6 DEF ObserveCancel, Finish
  <2> HIDE DEF u
  <2> QED
    BY <1>3, <2>1, <2>2, ExclBecome
<1>7. CASE RenewFails(t) \/ \E o \in {"succeeded", "failed", "pause"} : EndExec(t, o)
  <2>1. PICK o \in Ops : Finish(t, o)
    BY <1>7, <1>a DEF RenewFails, EndExec
  <2> DEFINE u == [t EXCEPT !.phase = "finish", !.op = o, !.since = 0]
  <2>2. t.phase = "exec" /\ UNCHANGED <<status, leasedBy, leaseLeft>> /\ Become(t, u)
    BY <1>7, <2>1 DEF RenewFails, EndExec, Finish, row
  <2>3. /\ u \in Task /\ u.run = t.run /\ u.worker = t.worker /\ u.age = t.age
        /\ Owner(t) /\ Live(t)
    BY <1>5, <2>2
  <2> HIDE DEF u
  <2> QED
    BY <2>2, <2>3, ExclQuiet
<1>8. CASE DeadlineExceeded(t)
  <2> DEFINE u == [t EXCEPT !.phase = "late", !.op = "failed", !.tries = 0, !.since = 0]
  <2>1. /\ u \in Task /\ u.run = t.run /\ u.worker = t.worker /\ u.age = t.age
        /\ u.phase = "late"
    BY <1>0, <1>a, TaskUpdate DEF Task
  <2>2. ~Owner(u) /\ Live(t) /\ Become(t, u) /\ UNCHANGED <<status, leasedBy, leaseLeft>>
    BY <1>8, <2>1 DEF DeadlineExceeded, row, Owner, Live
  <2> HIDE DEF u
  <2> QED
    BY <2>1, <2>2, ExclQuiet
\* Any status but 'queued' may be written over the row of another task at work.
<1>9. ASSUME NEW s \in Final, NEW r \in Runs, UNCHANGED <<leasedBy, leaseLeft>>,
             status' = [status EXCEPT ![r] = s] \/ UNCHANGED status
      PROVE  /\ leaseLeft' \in [Runs -> Int]
             /\ \A x \in inflight : Owner(x) =>
                 /\ status'[x.run] \notin {"queued", "absent"}
                 /\ status'[x.run] = "running" =>
                     /\ status[x.run] = "running"
                     /\ leasedBy'[x.run] = leasedBy[x.run]
                     /\ leaseLeft'[x.run] >= leaseLeft[x.run] \/ leaseLeft'[x.run] >= Lease
  BY <1>9 DEF Excl, Held, Task, Final
<1>10. CASE PersistenceError(t)
  <2> DEFINE u == [t EXCEPT !.phase = "error", !.age = 0, !.since = 0]
  <2>1. u \in Task /\ u.run = t.run /\ u.worker = t.worker /\ u.phase = "error"
    BY <1>0, <1>a, TaskUpdate DEF Task
  <2>2. ~Owner(u) /\ ~Live(u) /\ Become(t, u) /\ UNCHANGED <<leasedBy, leaseLeft>>
    BY <1>10, <2>1 DEF PersistenceError, Owner, Live
  <2>3. status' = [status EXCEPT ![t.run] = "failed"] \/ UNCHANGED status
    BY <1>10 DEF PersistenceError
  <2>4. "failed" \in Final
    BY DEF Final
  <2> HIDE DEF u
  <2> QED
    BY <1>0, <1>9, <2>1, <2>2, <2>3, <2>4, ExclBecome
<1>11. CASE FinalWrite(t)
  <2> DEFINE u == [t EXCEPT !.phase = IF @ = "finish" THEN "written" ELSE "lateWritten"]
  <2>1. /\ u \in Task /\ u.run = t.run /\ u.worker = t.worker /\ u.age = t.age
        /\ u.phase \in {"written", "lateWritten"}
    BY <1>0, <1>a, TaskUpdate DEF Task
  <2>2. ~Owner(u) /\ Live(t) /\ Become(t, u)
    BY <1>11, <2>1 DEF FinalWrite, Owner, Live
  <2> HIDE DEF u
  <2>3. CASE t.op = "pause"
    <3>1. Owner(t)
      BY <1>11, <2>3 DEF FinalWrite, OpOK, Owner
    <3>2. \A x \in inflight : Owner(x) /\ x # t => x.run # t.run
      BY <3>1 DEF Excl, OneExecutor
    <3>3. PauseWorkflowRun(t.run)
      BY <1>11, <2>3 DEF FinalWrite
    <3>4. \A r \in Runs : r # t.run =>
             status'[r] = status[r] /\ leasedBy'[r] = leasedBy[r] /\ leaseLeft'[r] = leaseLeft[r]
      BY <1>0, <3>3 DEF PauseWorkflowRun
    <3>5. leaseLeft' \in [Runs -> Int]
      BY <3>3 DEF PauseWorkflowRun
    <3>6. ASSUME NEW x \in inflight, Owner(x), x # t
          PROVE  /\ status'[x.run] \notin {"queued", "absent"}
                 /\ status'[x.run] = "running" =>
                     /\ status[x.run] = "running"
                     /\ leasedBy'[x.run] = leasedBy[x.run]
                     /\ leaseLeft'[x.run] >= leaseLeft[x.run]
      BY <3>2, <3>4, <3>6 DEF Excl, Held, Task
    <3> QED
      BY <2>1, <2>2, <3>5, <3>6, ExclBecome
  <2>4. CASE t.op # "pause"
    <3>1. t.op \in Final
      BY <1>0, <1>11, <2>4 DEF FinalWrite, OpOK, Ops
    <3>2. CompleteWorkflowRun(t.run, t.op)
      BY <1>11, <2>4 DEF FinalWrite
    <3>3. status' = [status EXCEPT ![t.run] = t.op] \/ status' = status
      BY <1>0, <3>2 DEF CompleteWorkflowRun
    <3> QED
      BY <1>0, <1>9, <2>1, <2>2, <3>1, <3>2, <3>3, ExclBecome DEF CompleteWorkflowRun
  <2> QED
    BY <2>3, <2>4
<1>12. ASSUME NEW ph \in {"done", "error"}, End(t, ph), UNCHANGED <<status, leasedBy, leaseLeft>>
       PROVE  Excl'
  <2> DEFINE u == [t EXCEPT !.phase = ph, !.op = "none", !.tries = 0, !.age = 0, !.since = 0]
  <2>1. ph \in Phases
    BY <1>a, <1>12
  <2>2. u \in Task
    BY <1>0, <1>a, <2>1, TaskUpdate
  <2>3. u.run = t.run /\ u.worker = t.worker /\ u.phase = ph
    BY <1>0 DEF Task
  <2>4. ~Owner(u) /\ ~Live(u) /\ Become(t, u)
    BY <1>12, <2>3 DEF End, Owner, Live
  <2> HIDE DEF u
  <2> QED
    BY <1>12, <2>2, <2>3, <2>4, ExclQuiet
<1>13. CASE Reply(t) \/ TaskPanics(t)
  BY <1>12, <1>13 DEF Reply, TaskPanics, row
<1>14. CASE WriteFails(t)
  <2> DEFINE v == [t EXCEPT !.phase = t.phase, !.tries = @ + 1]
  <2>1. UNCHANGED <<status, leasedBy, leaseLeft>>
    BY <1>14 DEF WriteFails, row
  <2>2. CASE Become(t, v)
    <3>1. /\ v \in Task /\ v.run = t.run /\ v.worker = t.worker /\ v.age = t.age
          /\ v.phase = t.phase
      <4>1. t.tries + 1 \in Nat /\ t.phase \in Phases
        BY <1>0 DEF Task
      <4>2. v \in Task
        BY <1>0, <4>1, TaskUpdate
      <4> QED
        BY <1>0, <4>2 DEF Task
    <3>2. (Owner(v) => Owner(t)) /\ (Live(v) => Live(t))
      BY <3>1 DEF Owner, Live
    <3> HIDE DEF v
    <3> QED
      BY <2>1, <2>2, <3>1, <3>2, ExclQuiet
  <2>3. CASE End(t, "error")
    BY <1>12, <2>1, <2>3
  <2> QED
    BY <1>14, <2>2, <2>3 DEF WriteFails, Retry
<1>15. ~WriteReplyLost(t)
  BY DEF WriteReplyLost
<1> QED
  BY <1>1, <1>2, <1>4, <1>6, <1>7, <1>8, <1>10, <1>11, <1>13, <1>14, <1>15 DEF TaskStep

\* The arithmetic of the lease: the row of a task at work has not expired.
LEMMA HeldIsNotExpired ==
    ASSUME TypeInv, Excl, UseLeases, Timely, NEW t \in inflight, Owner(t)
    PROVE  ~Expired(t.run)
<1> SUFFICES ASSUME Expired(t.run) PROVE FALSE
  OBVIOUS
<1>1. status[t.run] = "running" /\ leaseLeft[t.run] < 0
  BY DEF Expired
<1>2. leaseLeft[t.run] >= Lease - t.age
  BY <1>1 DEF Excl, Held
<1>3. t.age <= Deadline + MaxStall
  BY DEF Excl, Young, Owner, Live, Timely
<1>4. leaseLeft[t.run] \in Int /\ t.age \in Nat
  BY DEF TypeInv, TypeOK, Task
<1> QED
  BY <1>1, <1>2, <1>3, <1>4, TimesAssumption DEF Timely

\* Steps of a worker loop.  Timely keeps Requeue away from tasks at work, and a
\* claim finds no task at work on a queued row.
LEMMA ExclLoop ==
    ASSUME TypeInv, Excl, UseLeases => Timely, ~ReplyLoss, NEW w \in Workers,
           LoopStep(w) \/ (\E old \in SUBSET Runs : PurgeOldRuns(w, old))
    PROVE  Excl'
<1> USE DEF TypeInv, TypeOK
<1>0. ASSUME UNCHANGED <<status, leasedBy, leaseLeft>>, inflight' \subseteq inflight
      PROVE  Excl'
  BY <1>0 DEF Excl, OneExecutor, Held, Young, Owner, Live
<1>1. ASSUME NEW old \in SUBSET Runs, PurgeOldRuns(w, old) PROVE Excl'
  BY <1>1 DEF PurgeOldRuns, Excl, OneExecutor, Held, Young, Owner, Live, Final, Task
<1>2. CASE RequeueExpiredLeases(w)
  <2>1. \A t \in inflight : Owner(t) => ~Expired(t.run)
    BY <1>2, HeldIsNotExpired DEF RequeueExpiredLeases
  <2>2. \A t \in inflight : Owner(t) =>
           /\ status'[t.run] = status[t.run] /\ leasedBy'[t.run] = leasedBy[t.run]
           /\ leaseLeft'[t.run] = leaseLeft[t.run]
    BY <1>2, <2>1 DEF RequeueExpiredLeases, Task
  <2>3. inflight' = inflight
    BY <1>2 DEF RequeueExpiredLeases
  <2> QED
    BY <2>2, <2>3 DEF Excl, OneExecutor, Held, Young, Owner, Live
\* A new task for a queued row.
<1>3. ASSUME NEW r \in Runs, status[r] = "queued",
             status' = [status EXCEPT ![r] = "running"],
             inflight' = inflight \cup {NewTask(w, r)},
             UseLeases => /\ leasedBy' = [leasedBy EXCEPT ![r] = w]
                          /\ leaseLeft' = [leaseLeft EXCEPT ![r] = Lease],
             ~UseLeases => UNCHANGED <<leasedBy, leaseLeft>>
      PROVE  Excl'
  <2> DEFINE n == NewTask(w, r)
  <2>1. n.run = r /\ n.worker = w /\ n.age = 0
    BY DEF NewTask
  <2> HIDE DEF n
  <2>2. \A t \in inflight : Owner(t) => t.run # r
    BY <1>3 DEF Excl, Held
  <2>3. OneExecutor'
    BY <1>3, <2>1, <2>2 DEF n, Excl, OneExecutor, Owner
  <2>4. Young'
    BY <1>3, <2>1, TimesAssumption DEF n, Excl, Young, Live
  <2>5. /\ status'[n.run] \notin {"queued", "absent"}
        /\ UseLeases => leasedBy'[n.run] = n.worker /\ leaseLeft'[n.run] >= Lease - n.age
    BY <1>3, <2>1, TimesAssumption
  <2>6. ASSUME NEW t \in inflight, Owner(t)
        PROVE  /\ status'[t.run] = status[t.run]
               /\ UseLeases => leasedBy'[t.run] = leasedBy[t.run]
                               /\ leaseLeft'[t.run] = leaseLeft[t.run]
    BY <1>3, <2>2, <2>6 DEF Task
  <2>7. Held'
    BY <1>3, <2>5, <2>6 DEF n, Excl, Held, Owner
  <2> QED
    BY <2>3, <2>4, <2>7 DEF Excl
<1>4. ASSUME NEW r \in Runs, ClaimNextEligibleRun(w, r) PROVE Excl'
  <2>1. status[r] = "queued"
    BY <1>4 DEF ClaimNextEligibleRun, FirstLockable, Lockable, Claimable, Due
  <2> QED
    BY <1>3, <1>4, <2>1 DEF ClaimNextEligibleRun, Lock
<1>5. ASSUME NEW r \in Runs, ClaimNextQueuedRun(w, r) PROVE Excl'
  <2>1. status[r] = "queued"
    BY <1>5 DEF ClaimNextQueuedRun, Claimable, Due
  <2> QED
    BY <1>3, <1>5, <2>1 DEF ClaimNextQueuedRun
<1>6. CASE Reap(w)
  <2>1. UNCHANGED <<status, leasedBy, leaseLeft>> /\ inflight' \subseteq inflight
    BY <1>6 DEF Reap, row
  <2> QED
    BY <1>0, <2>1
<1> QED
  BY <1>0, <1>1, <1>2, <1>4, <1>5, <1>6
     DEF LoopStep, SkipRequeue, AtCapacity, ReadClaimSnapshot, ClaimReplyLost,
         ClaimNothing, NoQueuedRun, row

\* Requests of users, crashes, restarts and the clock.
LEMMA ExclOther ==
    ASSUME TypeInv, Excl, UseLeases => Timely,
           UserStep \/ (\E w \in Workers : Crash(w) \/ Restart(w)) \/ Tick
    PROVE  Excl'
<1> USE DEF TypeInv, TypeOK
<1>0. ASSUME UNCHANGED <<status, leasedBy, leaseLeft>>, inflight' \subseteq inflight
      PROVE  Excl'
  BY <1>0 DEF Excl, OneExecutor, Held, Young, Owner, Live
<1>1. ASSUME NEW r \in Runs, CreateRun(r) PROVE Excl'
  <2>1. \A t \in inflight : Owner(t) => status'[t.run] = status[t.run]
    BY <1>1 DEF CreateRun, Excl, Held, Task
  <2> QED
    BY <1>1, <2>1 DEF CreateRun, Excl, OneExecutor, Held, Young, Owner, Live
<1>2. ASSUME NEW rs \in SUBSET Runs, CancelRuns(rs) PROVE Excl'
  BY <1>2 DEF CancelRuns, Excl, OneExecutor, Held, Young, Owner, Live, Task
<1>3. CASE UserStep
  BY <1>0, <1>1, <1>2, <1>3
     DEF UserStep, CancelWorkflowRun, CancelAllRunsForWorkflow, SetRunPriority,
         SetConcurrencyLimit, row
<1>4. ASSUME NEW w \in Workers, Crash(w) \/ Restart(w) PROVE Excl'
  <2>1. UNCHANGED <<status, leasedBy, leaseLeft>> /\ inflight' \subseteq inflight
    BY <1>4 DEF Crash, Restart, row
  <2> QED
    BY <1>0, <2>1
<1>5. CASE Tick
  <2>1. ASSUME NEW t \in inflight
        PROVE  /\ Aged(t).run = t.run /\ Aged(t).worker = t.worker /\ Aged(t).phase = t.phase
               /\ Aged(t).age = IF Live(t) /\ Deadline > 0 THEN t.age + 1 ELSE t.age
    BY DEF Aged, Task
  <2>2. \A x \in inflight' : \E t \in inflight : x = Aged(t)
    BY <1>5 DEF Tick
  <2>3. OneExecutor'
    BY <2>1, <2>2 DEF Excl, OneExecutor, Owner
  <2>4. Young'
    <3> SUFFICES ASSUME NEW t \in inflight, Live(t), Deadline > 0
                 PROVE  Aged(t).age <= Deadline + MaxStall
      BY <2>1, <2>2 DEF Young, Live
    <3>1. t.age < Deadline + MaxStall /\ t.age \in Nat
      BY <1>5 DEF Tick, MayTick, Task
    <3> QED
      BY <2>1, <3>1, TimesAssumption
  <2>5. Held'
    <3> SUFFICES ASSUME NEW t \in inflight, Owner(t)
                 PROVE  /\ status[t.run] \notin {"queued", "absent"}
                        /\ UseLeases /\ status[t.run] = "running" =>
                             /\ leasedBy[t.run] = t.worker
                             /\ leaseLeft'[t.run] >= Lease - Aged(t).age
      BY <1>5, <2>1, <2>2 DEF Tick, Held, Owner
    <3>1. /\ status[t.run] \notin {"queued", "absent"}
          /\ UseLeases /\ status[t.run] = "running" =>
               leasedBy[t.run] = t.worker /\ leaseLeft[t.run] >= Lease - t.age
      BY DEF Excl, Held
    <3>2. /\ t.run \in Runs /\ t.age \in Nat
          /\ leaseLeft[t.run] \in Int /\ leaseLeft'[t.run] \in Int
          /\ leaseLeft'[t.run] >= leaseLeft[t.run] - 1
      BY <1>5 DEF Tick, Task
    <3>3. UseLeases => Aged(t).age = t.age + 1
      BY <2>1 DEF Timely, Owner, Live
    <3> QED
      BY <3>1, <3>2, <3>3, TimesAssumption
  <2> QED
    BY <2>3, <2>4, <2>5 DEF Excl
<1> QED
  BY <1>3, <1>4, <1>5

\* Excl is inductive relative to the types.
LEMMA ExclNext ==
    ASSUME ~ReplyLoss, UseLeases => Timely
    PROVE  TypeInv /\ Excl /\ [Next]_vars => Excl'
<1> SUFFICES ASSUME TypeInv, Excl, [Next]_vars PROVE Excl'
  OBVIOUS
<1>1. CASE UNCHANGED vars
  BY <1>1 DEF vars, row, Excl, OneExecutor, Held, Young, Owner, Live
<1>2. CASE Next
  BY <1>2, ExclTask, ExclLoop, ExclOther DEF Next
<1> QED
  BY <1>1, <1>2

\* No run is executed by two tasks at once, in however many processes, whatever
\* crashes, panics, failed statements, cancels and pauses happen, provided that
\* a task ends within its lease (or leases are off) and no reply to a committed
\* statement is lost.
THEOREM ExecutionIsExclusive ==
    ASSUME ~ReplyLoss, UseLeases => Timely
    PROVE  Spec => []OneExecutor
<1>1. Init => Excl
  BY DEF Init, Excl, OneExecutor, Held, Young
<1>2. TypeInv /\ Excl /\ [Next]_vars => Excl'
  BY ExclNext
<1>3. Excl => OneExecutor
  BY DEF Excl
<1> QED
  BY TypeInit, TypeNext, <1>1, <1>2, <1>3, PTL DEF Spec

\* Under the same assumptions requeue_expired_leases never takes a run away from
\* a task at work: its row is not queued and its lease, held by the task's own
\* worker, has not run out.
THEOREM LeaseOutlivesTask ==
    ASSUME ~ReplyLoss, UseLeases => Timely
    PROVE  Spec => []LeaseProtectsTask
<1>1. Init => Excl
  BY DEF Init, Excl, OneExecutor, Held, Young
<1>2. TypeInv /\ Excl /\ [Next]_vars => Excl'
  BY ExclNext
<1>3. TypeInv /\ Excl => LeaseProtectsTask
  <2> SUFFICES ASSUME TypeInv, Excl, NEW t \in inflight, Owner(t)
               PROVE  /\ status[t.run] # "queued"
                      /\ UseLeases /\ status[t.run] = "running" =>
                            leasedBy[t.run] = t.worker /\ leaseLeft[t.run] >= 0
    BY DEF LeaseProtectsTask
  <2>1. /\ status[t.run] # "queued"
        /\ UseLeases /\ status[t.run] = "running" =>
              leasedBy[t.run] = t.worker /\ leaseLeft[t.run] >= Lease - t.age
    BY DEF Excl, Held
  <2>2. UseLeases => t.age <= Lease
    <3>1. t.age \in Nat
      BY DEF TypeInv, TypeOK, Task
    <3>2. UseLeases => t.age <= Deadline + MaxStall
      BY DEF Excl, Young, Owner, Live, Timely
    <3> QED
      BY <3>1, <3>2, TimesAssumption DEF Timely
  <2>3. leaseLeft[t.run] \in Int /\ t.age \in Nat
    BY DEF TypeInv, TypeOK, Task
  <2> QED
    BY <2>1, <2>2, <2>3, TimesAssumption
<1> QED
  BY TypeInit, TypeNext, <1>1, <1>2, <1>3, PTL DEF Spec

-----------------------------------------------------------------------------
(***************************************************************************)
(* The concurrency limit, with one server process.  The claim counts the   *)
(* running rows when it starts and locks a row later; in between rows stop *)
(* running but only another worker's claim could make one run.             *)
(***************************************************************************)
LimitInv ==
    /\ WithinConcurrencyLimit
    /\ \A f \in Workflows : limit[f] \in Limits
    /\ \A w \in Workers : loop[w] = "claiming" =>
          \A r \in snap[w].cands :
             \E n \in Limits : Cardinality(RunningOf(WorkflowOf[r])) < n

\* The running rows of a workflow are finitely many, so fewer of them count less
\* and one more counts one more.
LEMMA RunningCount ==
    ASSUME NEW S \in SUBSET Runs, NEW T \in SUBSET S, NEW r
    PROVE  /\ Cardinality(S) \in Nat /\ Cardinality(T) \in Nat
           /\ Cardinality(T) <= Cardinality(S)
           /\ Cardinality(S \cup {r}) \in Nat
           /\ Cardinality(S \cup {r}) <= Cardinality(S) + 1
<1>1. IsFiniteSet(Runs)
  BY FS_Interval, RunsAssumption DEF Runs
<1>2. IsFiniteSet(S) /\ IsFiniteSet(T)
  BY <1>1, FS_Subset
<1>3. Cardinality(T) <= Cardinality(S)
  BY <1>2, FS_Subset
<1>4. Cardinality(S) \in Nat /\ Cardinality(T) \in Nat
  BY <1>2, FS_CardinalityType
<1>5. Cardinality(S \cup {r}) = IF r \in S THEN Cardinality(S) ELSE Cardinality(S) + 1
  BY <1>2, FS_AddElement
<1> QED
  BY <1>3, <1>4, <1>5

\* A step after which no other row runs and no claim has read its snapshot that
\* had not before.
LEMMA LimitFewer ==
    ASSUME TypeInv, LimitInv, \A f \in Workflows : limit'[f] \in Limits,
           \A r \in Runs : status'[r] = "running" => status[r] = "running",
           \A w \in Workers : loop'[w] = "claiming" =>
              loop[w] = "claiming" /\ snap'[w] = snap[w]
    PROVE  LimitInv'
<1> USE DEF TypeInv, TypeOK
<1>1. ASSUME NEW f \in Workflows
      PROVE  /\ Cardinality(RunningOf(f)') \in Nat /\ Cardinality(RunningOf(f)) \in Nat
             /\ Cardinality(RunningOf(f)') <= Cardinality(RunningOf(f))
  <2>1. RunningOf(f) \in SUBSET Runs /\ RunningOf(f)' \in SUBSET RunningOf(f)
    BY DEF RunningOf
  <2> QED
    BY <2>1, RunningCount
<1>2. WithinConcurrencyLimit'
  <2> SUFFICES ASSUME NEW f \in Workflows
               PROVE  \E n \in Limits : Cardinality(RunningOf(f)') <= n
    BY DEF WithinConcurrencyLimit
  <2>1. PICK n \in Limits : Cardinality(RunningOf(f)) <= n
    BY DEF LimitInv, WithinConcurrencyLimit
  <2> QED
    BY <1>1, <2>1, LimitsAssumption
<1>3. ASSUME NEW w \in Workers, loop'[w] = "claiming", NEW r \in snap'[w].cands
      PROVE  \E n \in Limits : Cardinality(RunningOf(WorkflowOf[r])') < n
  <2>1. loop[w] = "claiming" /\ r \in snap[w].cands /\ WorkflowOf[r] \in Workflows
    BY <1>3, RunsAssumption
  <2>2. PICK n \in Limits : Cardinality(RunningOf(WorkflowOf[r])) < n
    BY <2>1 DEF LimitInv
  <2> QED
    BY <1>1, <2>1, <2>2, LimitsAssumption
<1> QED
  BY <1>2, <1>3 DEF LimitInv

\* A claim by the only worker: the row it locks was a candidate of its snapshot.
LEMMA LimitLock ==
    ASSUME TypeInv, LimitInv, NEW w \in Workers, \A v \in Workers : v = w,
           NEW r \in Runs, loop[w] = "claiming", FirstLockable(w, r), Lock(w, r)
    PROVE  LimitInv'
<1> USE DEF TypeInv, TypeOK
<1> DEFINE g == WorkflowOf[r]
<1>1. g \in Workflows /\ r \in snap[w].cands
  BY RunsAssumption DEF FirstLockable, Lockable
<1>2. PICK n \in Limits : Cardinality(RunningOf(g)) < n
  BY <1>1 DEF LimitInv
<1>3. RunningOf(g)' = RunningOf(g) \cup {r}
  BY DEF Lock, RunningOf
<1>4. Cardinality(RunningOf(g)') <= n
  <2>1. RunningOf(g) \in SUBSET Runs
    BY DEF RunningOf
  <2>2. /\ Cardinality(RunningOf(g)) \in Nat /\ Cardinality(RunningOf(g) \cup {r}) \in Nat
        /\ Cardinality(RunningOf(g) \cup {r}) <= Cardinality(RunningOf(g)) + 1
    BY <2>1, RunningCount
  <2>3. n \in Nat
    BY LimitsAssumption
  <2> QED
    BY <1>2, <1>3, <2>2, <2>3
<1>5. \A f \in Workflows : f # g => RunningOf(f)' = RunningOf(f)
  BY DEF Lock, RunningOf
<1>6. WithinConcurrencyLimit'
  <2> SUFFICES ASSUME NEW f \in Workflows
               PROVE  \E m \in Limits : Cardinality(RunningOf(f)') <= m
    BY DEF WithinConcurrencyLimit
  <2>1. CASE f = g
    BY <1>4, <2>1
  <2>2. CASE f # g
    BY <1>5, <2>2 DEF LimitInv, WithinConcurrencyLimit
  <2> QED
    BY <2>1, <2>2
<1>7. loop'[w] = "reap" /\ limit' = limit
  BY DEF Lock
<1> QED
  BY <1>6, <1>7 DEF LimitInv

\* LimitInv is inductive relative to the types; only a claim adds a running row.
LEMMA LimitNext ==
    ASSUME UseLeases, \A v, w \in Workers : v = w
    PROVE  TypeInv /\ LimitInv /\ [Next]_vars => LimitInv'
<1> SUFFICES ASSUME TypeInv, LimitInv, [Next]_vars PROVE LimitInv'
  OBVIOUS
<1> USE DEF TypeInv, TypeOK
<1>0. \A f \in Workflows : limit[f] \in Limits
  BY DEF LimitInv
<1>1. ASSUME UNCHANGED <<limit, loop, snap>>,
             \A r \in Runs : status'[r] = "running" => status[r] = "running"
      PROVE  LimitInv'
  BY <1>0, <1>1, LimitFewer
<1>2. CASE UserStep
  <2>1. ASSUME NEW f \in Workflows, NEW n \in Limits, SetConcurrencyLimit(f, n) PROVE LimitInv'
    <3>1. \A g \in Workflows : limit'[g] \in Limits
      BY <1>0, <2>1 DEF SetConcurrencyLimit
    <3> QED
      BY <2>1, <3>1, LimitFewer DEF SetConcurrencyLimit, row
  <2>2. ASSUME NEW r \in Runs, CreateRun(r) PROVE LimitInv'
    BY <1>1, <2>2 DEF CreateRun
  <2>3. ASSUME NEW rs \in SUBSET Runs, CancelRuns(rs) PROVE LimitInv'
    BY <1>1, <2>3 DEF CancelRuns
  <2>4. ASSUME NEW r \in Runs, NEW p \in Priorities, SetRunPriority(r, p) PROVE LimitInv'
    BY <1>1, <2>4 DEF SetRunPriority
  <2> QED
    BY <1>2, <2>1, <2>2, <2>3, <2>4 DEF UserStep, CancelWorkflowRun, CancelAllRunsForWorkflow
<1>3. ASSUME NEW w \in Workers, LoopStep(w) PROVE LimitInv'
  <2>1. CASE ReadClaimSnapshot(w)
    <3>1. \A r \in snap'[w].cands :
             \E n \in Limits : Cardinality(RunningOf(WorkflowOf[r])) < n
      BY <1>0, <2>1, RunsAssumption DEF ReadClaimSnapshot, Eligible
    <3>2. status' = status /\ limit' = limit /\ \A v \in Workers : v = w
      BY <2>1 DEF ReadClaimSnapshot, row
    <3>3. \A f \in Workflows : RunningOf(f)' = RunningOf(f)
      BY <3>2 DEF RunningOf
    <3>4. WithinConcurrencyLimit'
      BY <3>3 DEF LimitInv, WithinConcurrencyLimit
    <3>5. \A r \in snap'[w].cands : WorkflowOf[r] \in Workflows
      BY <2>1, RunsAssumption DEF ReadClaimSnapshot
    <3>6. ASSUME NEW v \in Workers, NEW r \in snap'[v].cands
          PROVE  \E n \in Limits : Cardinality(RunningOf(WorkflowOf[r])') < n
      BY <3>1, <3>2, <3>3, <3>5
    <3> QED
      BY <1>0, <3>2, <3>4, <3>6 DEF LimitInv
  <2>2. ASSUME NEW r \in Runs, ClaimNextEligibleRun(w, r) \/ ClaimReplyLost(w, r)
        PROVE  LimitInv'
    BY <2>2, LimitLock DEF ClaimNextEligibleRun, ClaimReplyLost
  <2>3. ASSUME NEW s \in LoopSteps \ {"claiming"}, loop' = [loop EXCEPT ![w] = s],
               limit' = limit, \A v \in Workers : v # w => snap'[v] = snap[v],
               \A r \in Runs : status'[r] = "running" => status[r] = "running"
        PROVE  LimitInv'
    BY <1>0, <2>3, LimitFewer
  <2>4. CASE Reap(w) \/ SkipRequeue(w) \/ AtCapacity(w)
    BY <2>3, <2>4 DEF Reap, SkipRequeue, AtCapacity, row, LoopSteps
  <2>5. CASE ClaimNothing(w)
    BY <2>3, <2>5 DEF ClaimNothing, row, LoopSteps
  <2>6. CASE RequeueExpiredLeases(w)
    BY <2>3, <2>6 DEF RequeueExpiredLeases, LoopSteps
  <2> QED
    BY <1>3, <2>1, <2>2, <2>4, <2>5, <2>6
       DEF LoopStep, ClaimNextQueuedRun, NoQueuedRun
<1>4. ASSUME NEW w \in Workers, NEW old \in SUBSET Runs, PurgeOldRuns(w, old)
      PROVE  LimitInv'
  BY <1>1, <1>4 DEF PurgeOldRuns
<1>5. ASSUME NEW t \in inflight, TaskStep(t) PROVE LimitInv'
  <2>1. t.run \in Runs /\ t.op \in Ops
    BY DEF Task
  <2>2. UNCHANGED <<limit, loop, snap>>
    BY <1>5 DEF TaskStep, StartExec, BlockRunaway, NodeStep, ObserveCancel, RenewFails,
           EndExec, DeadlineExceeded, PersistenceError, FinalWrite, Reply, WriteFails,
           WriteReplyLost, TaskPanics
  <2>3. CASE PersistenceError(t)
    BY <1>1, <2>1, <2>2, <2>3 DEF PersistenceError
  <2>4. CASE FinalWrite(t)
    <3>1. t.op # "running"
      BY <2>1 DEF Ops, Final
    <3>2. \A r \in Runs : status'[r] = "running" => status[r] = "running"
      BY <2>1, <2>4, <3>1 DEF FinalWrite, PauseWorkflowRun, CompleteWorkflowRun
    <3> QED
      BY <1>1, <2>2, <3>2
  <2> QED
    BY <1>5, <1>1, <2>2, <2>3, <2>4
       DEF TaskStep, StartExec, BlockRunaway, NodeStep, ObserveCancel, RenewFails,
           EndExec, DeadlineExceeded, Reply, WriteFails, WriteReplyLost, TaskPanics, row
<1>6. ASSUME NEW w \in Workers, Crash(w) \/ Restart(w) PROVE LimitInv'
  <2>1. UNCHANGED <<status, limit>>
    BY <1>6 DEF Crash, Restart, row
  <2>2. \A v \in Workers : loop'[v] = "claiming" => loop[v] = "claiming" /\ snap'[v] = snap[v]
    BY <1>6 DEF Crash, Restart
  <2> QED
    BY <1>0, <2>1, <2>2, LimitFewer
<1>7. CASE Tick
  BY <1>1, <1>7 DEF Tick
<1>8. CASE UNCHANGED vars
  BY <1>1, <1>8 DEF vars, row
<1> QED
  BY <1>2, <1>3, <1>4, <1>5, <1>6, <1>7, <1>8 DEF Next

\* With one server process and leases on, a workflow never has more running rows
\* than a concurrency_limit its owner may choose, whatever crashes, pauses and
\* changes of the limit come between a claim's count and its lock.
THEOREM LimitIsKept ==
    ASSUME UseLeases, \A v, w \in Workers : v = w
    PROVE  Spec => []WithinConcurrencyLimit
<1>1. Init => LimitInv
  <2> SUFFICES ASSUME Init PROVE LimitInv
    OBVIOUS
  <2>1. \A f \in Workflows : RunningOf(f) = {}
    BY DEF Init, RunningOf
  <2>2. \A f \in Workflows : Cardinality(RunningOf(f)) <= 1
    BY <2>1, FS_EmptySet
  <2> QED
    BY <2>2, LimitsAssumption DEF Init, LimitInv, WithinConcurrencyLimit
<1>2. TypeInv /\ LimitInv /\ [Next]_vars => LimitInv'
  BY LimitNext
<1>3. LimitInv => WithinConcurrencyLimit
  BY DEF LimitInv
<1> QED
  BY TypeInit, TypeNext, <1>1, <1>2, <1>3, PTL DEF Spec

-----------------------------------------------------------------------------
(* The run queue implements RunLifecycle.  Every step of RunQueue is a step of *)
(* the abstract specification or leaves its state alone, given the inductive   *)
(* invariant above: Excl says that a run has one task at work (so that its     *)
(* worker is a function of the state) and that neither a claim nor a requeue   *)
(* finds its row.                                                              *)

LifeStep == [Lifecycle!LifeNext]_(Lifecycle!lifeVars)

\* Nothing of the abstract state changes.
LEMMA LifeStutter ==
    ASSUME UNCHANGED status, \A r \in Runs : Holder(r)' = Holder(r)
    PROVE  LifeStep
BY DEF LifeStep, Lifecycle!lifeVars

\* Tasks that disappear release their runs.
LEMMA LifeFewer ==
    ASSUME UNCHANGED status, inflight' \subseteq inflight, OneExecutor
    PROVE  LifeStep
<1> DEFINE S == {r \in Runs : Holder(r)' = {}}
<1>1. ASSUME NEW r \in Runs, r \notin S PROVE Holder(r)' = Holder(r)
  <2>1. PICK x \in inflight' : Owner(x) /\ x.run = r
    BY <1>1 DEF Holder
  <2>2. \A y \in inflight : Owner(y) /\ y.run = r => y = x
    BY <2>1 DEF OneExecutor
  <2> QED
    BY <2>1, <2>2 DEF Holder
<1>2. Lifecycle!Release(S)
  BY <1>1 DEF Lifecycle!Release
<1> QED
  BY <1>2 DEF LifeStep, Lifecycle!LifeNext

\* Who holds a run when a task is replaced by its next state.
LEMMA HolderBecome ==
    ASSUME NEW t \in inflight, NEW u, Become(t, u), OneExecutor,
           u.run = t.run, u.worker = t.worker
    PROVE  /\ \A r \in Runs : r # t.run => Holder(r)' = Holder(r)
           /\ (Owner(u) <=> Owner(t)) => \A r \in Runs : Holder(r)' = Holder(r)
           /\ Owner(t) /\ ~Owner(u) => Holder(t.run) # {} /\ Holder(t.run)' = {}
<1>1. \A x : x \in inflight' <=> x = u \/ (x \in inflight /\ x # t)
  BY DEF Become
<1>2. ASSUME NEW r \in Runs, r # t.run PROVE Holder(r)' = Holder(r)
  BY <1>1, <1>2 DEF Holder
<1>3. ASSUME Owner(u) <=> Owner(t), NEW r \in Runs PROVE Holder(r)' = Holder(r)
  BY <1>1, <1>3 DEF Holder
<1>4. ASSUME Owner(t), ~Owner(u) PROVE Holder(t.run) # {} /\ Holder(t.run)' = {}
  <2>1. \A x \in inflight' : Owner(x) => x.run # t.run
    BY <1>1, <1>4 DEF OneExecutor
  <2> QED
    BY <1>4, <2>1 DEF Holder
<1> QED
  BY <1>2, <1>3, <1>4

\* A task that only moves on stutters, or releases its run when it is no longer
\* at work on it.
LEMMA LifeBecome ==
    ASSUME NEW t \in inflight, NEW u, Become(t, u), OneExecutor,
           u.run = t.run, u.worker = t.worker, t.run \in Runs,
           Owner(u) => Owner(t), UNCHANGED status
    PROVE  LifeStep
<1>1. CASE Owner(u) <=> Owner(t)
  BY <1>1, HolderBecome, LifeStutter
<1>2. CASE Owner(t) /\ ~Owner(u)
  <2>1. Lifecycle!Release({t.run})
    BY <1>2, HolderBecome DEF Lifecycle!Release
  <2> QED
    BY <2>1 DEF LifeStep, Lifecycle!LifeNext
<1> QED
  BY <1>1, <1>2

\* A task at work writes the end of its run, or puts it back into the queue.
LEMMA LifeComplete ==
    ASSUME NEW t \in inflight, NEW u, Become(t, u), OneExecutor,
           u.run = t.run, u.worker = t.worker, t.run \in Runs,
           Owner(t), ~Owner(u), NEW s \in Final \cup {"queued"},
           status[t.run] \notin Gone, status' = [status EXCEPT ![t.run] = s]
    PROVE  LifeStep
<1>1. Lifecycle!Complete(t.run, s)
  BY HolderBecome DEF Lifecycle!Complete, Lifecycle!NoRow, Gone
<1> QED
  BY <1>1 DEF LifeStep, Lifecycle!LifeNext, Lifecycle!Over, Final

\* A request of a user.
LEMMA LifeUser ==
    ASSUME TypeInv, UserStep PROVE LifeStep
<1> USE DEF TypeInv, TypeOK
<1>1. inflight' = inflight
  BY DEF UserStep, CreateRun, CancelWorkflowRun, CancelAllRunsForWorkflow, CancelRuns,
         SetRunPriority, SetConcurrencyLimit
<1>2. \A r \in Runs : Holder(r)' = Holder(r)
  BY <1>1 DEF Holder
<1>3. ASSUME NEW r \in Runs, CreateRun(r) PROVE LifeStep
  <2>1. Lifecycle!Enqueue(r)
    BY <1>2, <1>3 DEF CreateRun, Lifecycle!Enqueue
  <2> QED
    BY <2>1 DEF LifeStep, Lifecycle!LifeNext
<1>4. ASSUME NEW rs \in SUBSET Runs, CancelRuns(rs) PROVE LifeStep
  <2> DEFINE S == {r \in rs : status[r] \in {"queued", "running"}}
  <2>1. Lifecycle!Move(S, {"queued", "running"}, "canceled")
    BY <1>2, <1>4 DEF CancelRuns, Lifecycle!Move
  <2>2. S \in SUBSET Runs
    BY <1>4
  <2> QED
    BY <2>1, <2>2 DEF LifeStep, Lifecycle!LifeNext
<1>5. ASSUME UNCHANGED status PROVE LifeStep
  BY <1>2, <1>5, LifeStutter
<1> QED
  BY <1>3, <1>4, <1>5
     DEF UserStep, CancelWorkflowRun, CancelAllRunsForWorkflow, SetRunPriority,
         SetConcurrencyLimit, row

\* A claim takes a queued run that nobody executes.
LEMMA LifeClaim ==
    ASSUME TypeInv, Excl, NEW w \in Workers, NEW r \in Runs, status[r] = "queued",
           status' = [status EXCEPT ![r] = "running"],
           inflight' = inflight \cup {NewTask(w, r)}
    PROVE  LifeStep
<1> DEFINE n == NewTask(w, r)
<1>1. n.run = r /\ n.worker = w /\ Owner(n)
  BY DEF NewTask, Owner
<1>2. \A t \in inflight : Owner(t) => t.run # r
  BY DEF Excl, Held
<1> HIDE DEF n
<1>3. Holder(r) = {} /\ Holder(r)' = {w}
  BY <1>1, <1>2 DEF n, Holder
<1>4. \A q \in Runs : q # r => Holder(q)' = Holder(q)
  BY <1>1 DEF n, Holder
<1>5. Lifecycle!Take(r, w)
  BY <1>3, <1>4 DEF Lifecycle!Take
<1> QED
  BY <1>5 DEF LifeStep, Lifecycle!LifeNext

\* A step of a worker loop.
LEMMA LifeLoop ==
    ASSUME TypeInv, Excl, UseLeases => Timely, ~ReplyLoss, NEW w \in Workers,
           LoopStep(w) \/ (\E old \in SUBSET Runs : PurgeOldRuns(w, old))
    PROVE  LifeStep
<1> USE DEF TypeInv, TypeOK
<1>0. ASSUME UNCHANGED status, inflight' \subseteq inflight PROVE LifeStep
  BY <1>0, LifeFewer DEF Excl
<1>1. ASSUME NEW old \in SUBSET Runs, PurgeOldRuns(w, old) PROVE LifeStep
  <2> DEFINE S == {r \in old : status[r] \in Final}
  <2>1. \A r \in Runs : Holder(r)' = Holder(r)
    BY <1>1 DEF PurgeOldRuns, Holder
  <2>2. Lifecycle!Move(S, Lifecycle!Over, "purged")
    BY <1>1, <2>1 DEF PurgeOldRuns, Lifecycle!Move, Lifecycle!Over, Final
  <2> QED
    BY <2>2 DEF LifeStep, Lifecycle!LifeNext
<1>2. CASE RequeueExpiredLeases(w)
  <2> DEFINE S == {r \in Runs : Expired(r)}
  <2>1. \A r \in Runs : Holder(r)' = Holder(r)
    BY <1>2 DEF RequeueExpiredLeases, Holder
  <2>2. \A t \in inflight : Owner(t) => ~Expired(t.run)
    BY <1>2, HeldIsNotExpired DEF RequeueExpiredLeases
  <2>3. \A r \in S : Holder(r) = {} /\ status[r] = "running"
    BY <2>2 DEF Holder, Expired
  <2>4. status' = [r \in Runs |-> IF r \in S THEN "queued" ELSE status[r]]
    BY <1>2 DEF RequeueExpiredLeases
  <2> HIDE DEF S
  <2>5. Lifecycle!Move(S, {"running"}, "queued")
    BY <2>1, <2>3, <2>4 DEF Lifecycle!Move, S
  <2>6. S \in SUBSET Runs
    BY DEF S
  <2> QED
    BY <2>5, <2>6 DEF LifeStep, Lifecycle!LifeNext
<1>3. ASSUME NEW r \in Runs, ClaimNextEligibleRun(w, r) PROVE LifeStep
  <2>1. status[r] = "queued"
    BY <1>3 DEF ClaimNextEligibleRun, FirstLockable, Lockable, Claimable, Due
  <2> QED
    BY <1>3, <2>1, LifeClaim DEF ClaimNextEligibleRun, Lock
<1>4. ASSUME NEW r \in Runs, ClaimNextQueuedRun(w, r) PROVE LifeStep
  <2>1. status[r] = "queued"
    BY <1>4 DEF ClaimNextQueuedRun, Claimable, Due
  <2> QED
    BY <1>4, <2>1, LifeClaim DEF ClaimNextQueuedRun
<1>5. CASE Reap(w)
  <2>1. UNCHANGED status /\ inflight' \subseteq inflight
    BY <1>5 DEF Reap, row
  <2> QED
    BY <1>0, <2>1
<1> QED
  BY <1>0, <1>1, <1>2, <1>3, <1>4, <1>5
     DEF LoopStep, SkipRequeue, AtCapacity, ReadClaimSnapshot, ClaimReplyLost,
         ClaimNothing, NoQueuedRun, row

\* A step of a task.
LEMMA LifeTask ==
    ASSUME TypeInv, Excl, ~ReplyLoss, NEW t \in inflight, TaskStep(t) PROVE LifeStep
<1> USE DEF TypeInv, TypeOK
<1>0. t \in Task /\ t.run \in Runs /\ t.op \in Ops /\ OneExecutor
  BY DEF Task, Excl
\* The steps that only change the task.
<1>1. ASSUME NEW u, Become(t, u), u.run = t.run, u.worker = t.worker,
             Owner(u) => Owner(t), UNCHANGED status
      PROVE  LifeStep
  BY <1>0, <1>1, LifeBecome
<1>2. CASE StartExec(t)
  <2> DEFINE u == [t EXCEPT !.phase = "exec", !.since = RenewEvery]
  <2>1. u.run = t.run /\ u.worker = t.worker
    BY <1>0 DEF Task
  <2> QED
    BY <1>1, <1>2, <2>1 DEF StartExec, row, Owner
<1>3. CASE BlockRunaway(t)
  <2> DEFINE u == [t EXCEPT !.phase = "late", !.op = "failed"]
  <2>1. u.run = t.run /\ u.worker = t.worker /\ u.phase = "late"
    BY <1>0 DEF Task
  <2> QED
    BY <1>1, <1>3, <2>1 DEF BlockRunaway, row, Owner
<1>4. CASE NodeStep(t)
  <2> DEFINE u == [t EXCEPT !.since = 0]
  <2>1. u.run = t.run /\ u.worker = t.worker /\ u.phase = t.phase
    BY <1>0 DEF Task
  <2> QED
    BY <1>1, <1>4, <2>1 DEF NodeStep, Owner
<1>5. ASSUME NEW o, t.phase = "exec", Finish(t, o), UNCHANGED status PROVE LifeStep
  <2> DEFINE u == [t EXCEPT !.phase = "finish", !.op = o, !.since = 0]
  <2>1. u.run = t.run /\ u.worker = t.worker
    BY <1>0 DEF Task
  <2> QED
    BY <1>1, <1>5, <2>1 DEF Finish, Owner
<1>6. CASE ObserveCancel(t) \/ RenewFails(t)
  BY <1>5, <1>6 DEF ObserveCancel, RenewFails, row
<1>7. ASSUME NEW o \in {"succeeded", "failed", "pause"}, EndExec(t, o) PROVE LifeStep
  BY <1>5, <1>7 DEF EndExec, row
<1>8. CASE DeadlineExceeded(t)
  <2> DEFINE u == [t EXCEPT !.phase = "late", !.op = "failed", !.tries = 0, !.since = 0]
  <2>1. u.run = t.run /\ u.worker = t.worker /\ u.phase = "late"
    BY <1>0 DEF Task
  <2> QED
    BY <1>1, <1>8, <2>1 DEF DeadlineExceeded, row, Owner
<1>9. ASSUME NEW ph \in {"done", "error"}, End(t, ph), UNCHANGED status PROVE LifeStep
  <2> DEFINE u == [t EXCEPT !.phase = ph, !.op = "none", !.tries = 0, !.age = 0, !.since = 0]
  <2>1. u.run = t.run /\ u.worker = t.worker /\ u.phase = ph
    BY <1>0 DEF Task
  <2> QED
    BY <1>1, <1>9, <2>1 DEF End, Owner
<1>10. CASE Reply(t) \/ TaskPanics(t)
  BY <1>9, <1>10 DEF Reply, TaskPanics, row
<1>11. CASE WriteFails(t)
  <2> DEFINE v == [t EXCEPT !.phase = t.phase, !.tries = @ + 1]
  <2>1. v.run = t.run /\ v.worker = t.worker /\ v.phase = t.phase
    BY <1>0 DEF Task
  <2>2. UNCHANGED status /\ (Become(t, v) \/ End(t, "error"))
    BY <1>11 DEF WriteFails, Retry, row
  <2> QED
    BY <1>1, <1>9, <2>1, <2>2 DEF Owner
\* The steps that write the row.
<1>12. CASE PersistenceError(t)
  <2> DEFINE u == [t EXCEPT !.phase = "error", !.age = 0, !.since = 0]
  <2>1. u.run = t.run /\ u.worker = t.worker /\ u.phase = "error"
    BY <1>0 DEF Task
  <2>2. Become(t, u) /\ Owner(t) /\ ~Owner(u)
    BY <1>12, <2>1 DEF PersistenceError, Owner
  <2> HIDE DEF u
  <2>3. \/ UNCHANGED status
        \/ status[t.run] \notin Gone /\ status' = [status EXCEPT ![t.run] = "failed"]
    BY <1>12 DEF PersistenceError
  <2>4. "failed" \in Final \cup {"queued"}
    BY DEF Final
  <2> QED
    BY <1>0, <1>1, <2>1, <2>2, <2>3, <2>4, LifeComplete
<1>13. CASE FinalWrite(t)
  <2> DEFINE u == [t EXCEPT !.phase = IF @ = "finish" THEN "written" ELSE "lateWritten"]
             s == IF t.op = "pause" THEN "queued" ELSE t.op
  <2>1. u.run = t.run /\ u.worker = t.worker /\ ~Owner(u) /\ Become(t, u)
    BY <1>0, <1>13 DEF Task, Owner, FinalWrite
  <2> HIDE DEF u
  <2>2. CASE status[t.run] \in Gone
    <3>1. UNCHANGED status
      BY <1>0, <1>13, <2>2 DEF FinalWrite, PauseWorkflowRun, CompleteWorkflowRun
    <3> QED
      BY <1>1, <2>1, <3>1
  <2>3. CASE status[t.run] \notin Gone
    <3>1. status' = [status EXCEPT ![t.run] = s]
      BY <1>0, <1>13, <2>3 DEF FinalWrite, PauseWorkflowRun, CompleteWorkflowRun
    <3>2. s \in Final \cup {"queued"} /\ (t.phase = "late" => s = "failed")
      BY <1>0, <1>13 DEF FinalWrite, OpOK, Ops
    <3> HIDE DEF s
    <3>3. CASE t.phase = "finish"
      BY <1>0, <2>1, <2>3, <3>1, <3>2, <3>3, LifeComplete DEF Owner
    <3>4. CASE t.phase = "late"
      <4>1. \A r \in Runs : Holder(r)' = Holder(r)
        BY <1>0, <2>1, <3>4, HolderBecome DEF Owner
      <4>2. Lifecycle!FailLate(t.run)
        BY <2>3, <3>1, <3>2, <3>4, <4>1 DEF Lifecycle!FailLate, Lifecycle!NoRow, Gone
      <4> QED
        BY <1>0, <4>2 DEF LifeStep, Lifecycle!LifeNext
    <3> QED
      BY <1>13, <3>3, <3>4 DEF FinalWrite
  <2> QED
    BY <2>2, <2>3
<1>14. ~WriteReplyLost(t)
  BY DEF WriteReplyLost
<1> QED
  BY <1>2, <1>3, <1>4, <1>6, <1>7, <1>8, <1>10, <1>11, <1>12, <1>13, <1>14 DEF TaskStep

\* Every step of the queue is a step of a run's life or leaves it alone.
LEMMA LifeNextStep ==
    ASSUME ~ReplyLoss, UseLeases => Timely
    PROVE  TypeInv /\ Excl /\ [Next]_vars => LifeStep
<1> SUFFICES ASSUME TypeInv, Excl, [Next]_vars PROVE LifeStep
  OBVIOUS
<1>1. CASE UNCHANGED vars
  <2>1. \A r \in Runs : Holder(r)' = Holder(r)
    BY <1>1 DEF vars, Holder
  <2> QED
    BY <1>1, <2>1, LifeStutter DEF vars, row
<1>2. ASSUME NEW w \in Workers, Crash(w) \/ Restart(w) PROVE LifeStep
  <2>1. UNCHANGED status /\ inflight' \subseteq inflight
    BY <1>2 DEF Crash, Restart, row
  <2> QED
    BY <2>1, LifeFewer DEF Excl
<1>3. CASE Tick
  <2>1. ASSUME NEW t \in inflight
        PROVE  Aged(t).run = t.run /\ Aged(t).worker = t.worker /\ Aged(t).phase = t.phase
    BY DEF Aged, TypeInv, TypeOK, Task
  <2>2. inflight' = {Aged(t) : t \in inflight} /\ UNCHANGED status
    BY <1>3 DEF Tick
  <2>3. \A r \in Runs : Holder(r)' = Holder(r)
    BY <2>1, <2>2 DEF Holder, Owner
  <2> QED
    BY <2>2, <2>3, LifeStutter
<1> QED
  BY <1>1, <1>2, <1>3, LifeUser, LifeLoop, LifeTask DEF Next

\* The queue of worker_loop, with its leases, retries, deadlines, crashes and
\* requeues, implements the life of a run that RunLifecycle states: a run changes
\* hands only through the queue.  Assumed are what exclusive execution needs: a
\* task ends within its lease (or leases are off) and no reply is lost.
THEOREM QueueImplementsLifecycle ==
    ASSUME ~ReplyLoss, UseLeases => Timely
    PROVE  Spec => ImplementsLifecycle
<1>1. Init => Excl /\ Lifecycle!LifeInit
  BY DEF Init, Excl, OneExecutor, Held, Young, Holder, Lifecycle!LifeInit
<1>2. TypeInv /\ Excl /\ [Next]_vars => Excl'
  BY ExclNext
<1>3. TypeInv /\ Excl /\ [Next]_vars => [Lifecycle!LifeNext]_(Lifecycle!lifeVars)
  BY LifeNextStep DEF LifeStep
<1> QED
  BY TypeInit, TypeNext, <1>1, <1>2, <1>3, PTL DEF Spec, ImplementsLifecycle, Lifecycle!LifeSpec
=============================================================================

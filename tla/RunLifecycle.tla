---------------------------- MODULE RunLifecycle ----------------------------
(***************************************************************************)
(* What the run queue promises, without leases, clocks, tables or retries: *)
(* a run is executed by at most one worker at a time, which got it out of  *)
(* the queue; it goes back into the queue only when its worker puts it     *)
(* there or when nobody executes it; and it ends by its worker, by a       *)
(* cancellation or by a deadline.                                          *)
(***************************************************************************)
CONSTANTS Runs, Workers

VARIABLES
    life,     \* what has become of each run
    holder    \* who executes it, nobody or one worker

lifeVars == <<life, holder>>

Over == {"succeeded", "failed", "canceled"}
NoRow == {"absent", "purged"}

LifeInit ==
    /\ life = [r \in Runs |-> "absent"]
    /\ holder = [r \in Runs |-> {}]

Enqueue(r) ==
    /\ life[r] = "absent" /\ life' = [life EXCEPT ![r] = "queued"]
    /\ UNCHANGED holder

\* A worker takes the run out of the queue.
Take(r, w) ==
    /\ life[r] = "queued" /\ holder[r] = {}
    /\ life' = [life EXCEPT ![r] = "running"]
    /\ holder' = [holder EXCEPT ![r] = {w}]

\* The worker ends its work: the run is over or waits in the queue for its delay.
Complete(r, s) ==
    /\ holder[r] # {} /\ life[r] \notin NoRow
    /\ life' = [life EXCEPT ![r] = s]
    /\ holder' = [holder EXCEPT ![r] = {}]

\* Runs of S lose their workers: a crash, a panic, an error or a deadline.
Release(S) ==
    /\ holder' = [r \in Runs |-> IF r \in S THEN {} ELSE holder[r]]
    /\ UNCHANGED life

\* A deadline that has passed is recorded.
FailLate(r) ==
    /\ life[r] \notin NoRow /\ life' = [life EXCEPT ![r] = "failed"]
    /\ UNCHANGED holder

\* The runs of S go from one of the states in From to To; nobody executes those
\* that go back into the queue.
Move(S, From, To) ==
    /\ \A r \in S : life[r] \in From /\ (To = "queued" => holder[r] = {})
    /\ life' = [r \in Runs |-> IF r \in S THEN To ELSE life[r]]
    /\ UNCHANGED holder

LifeNext ==
    \/ \E r \in Runs : Enqueue(r) \/ FailLate(r)
    \/ \E r \in Runs, w \in Workers : Take(r, w)
    \/ \E r \in Runs, s \in Over \cup {"queued"} : Complete(r, s)
    \/ \E S \in SUBSET Runs :
         \/ Release(S)
         \/ Move(S, {"queued", "running"}, "canceled")
         \/ Move(S, {"running"}, "queued")
         \/ Move(S, Over, "purged")

LifeSpec == LifeInit /\ [][LifeNext]_lifeVars
=============================================================================

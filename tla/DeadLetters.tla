----------------------------- MODULE DeadLetters -----------------------------
(***************************************************************************)
(* The dead letters of one workflow: requeue_dead_letter reads the letter  *)
(* and the workflow, inserts a queued run and deletes the letter, each in  *)
(* a statement of its own; clear_dead_letters deletes them all.  A letter  *)
(* also goes with the run it is of and with the workflow (ON DELETE        *)
(* CASCADE, migrations/202510083_3_create_workflow_dead_letters.sql).  The *)
(* letters are those the executor left (Executor, FailedRunHasDeadLetter). *)
(***************************************************************************)
EXTENDS Integers, FiniteSets

CONSTANTS
    Letters,          \* dead letters of failed runs
    Requeues,         \* requests to requeue one
    NoLetter,         \* the request has not found its letter
    MaxLetterFaults   \* bound: failed statements and stopped servers

ASSUME DeadLettersAssumption ==
    /\ IsFiniteSet(Letters) /\ IsFiniteSet(Requeues) /\ NoLetter \notin Letters
    /\ MaxLetterFaults \in Nat

VARIABLES
    workflowKept,  \* the workflow has not been deleted
    unborn,        \* letters whose run has not failed yet
    letters,       \* the rows of workflow_dead_letters
    requeue,       \* per request, requeue_dead_letter and its letter
    requeued,      \* history: runs inserted, by letter
    cleared,       \* history: letters that clear_dead_letters deleted
    expired,       \* history: letters whose run or workflow was deleted
    contested,     \* history: letters two requests had at once, or kept by a fault
    letterFaults   \* faults that may still happen

letterVars ==
    <<workflowKept, unborn, letters, requeue, requeued, cleared, expired, contested, letterFaults>>

DeadLettersTypeOK ==
    /\ workflowKept \in BOOLEAN
    /\ unborn \subseteq Letters /\ letters \subseteq Letters
    /\ requeue \in [Requeues -> [pc: {"new", "insert", "delete", "end"},
                                 letter: Letters \cup {NoLetter}]]
    /\ requeued \in [Letters -> Nat]
    /\ cleared \subseteq Letters /\ expired \subseteq Letters /\ contested \subseteq Letters
    /\ letterFaults \in 0..MaxLetterFaults

DeadLettersInit ==
    /\ workflowKept = TRUE
    /\ unborn = Letters /\ letters = {}
    /\ requeue = [q \in Requeues |-> [pc |-> "new", letter |-> NoLetter]]
    /\ requeued = [l \in Letters |-> 0]
    /\ cleared = {} /\ expired = {} /\ contested = {}
    /\ letterFaults = MaxLetterFaults

----------------------------------------------------------------------------
\* insert_dead_letter, by the executor of a failed run.
InsertDeadLetter(l) ==
    /\ l \in unborn
    /\ unborn' = unborn \ {l}
    /\ letters' = letters \cup {l}
    /\ UNCHANGED <<workflowKept, requeue, requeued, cleared, expired, contested, letterFaults>>

\* Mutant: the letter is deleted before its run is inserted.
FindAndDeleteDeadLetter(q, l) ==
    /\ requeue[q].pc = "new" /\ l \in letters
    /\ requeue' = [requeue EXCEPT ![q] = [pc |-> "insert", letter |-> l]]
    /\ letters' = letters \ {l}
    /\ UNCHANGED <<workflowKept, unborn, requeued, cleared, expired, contested, letterFaults>>

\* SELECT of the letter, then of the workflow.
FindDeadLetter(q, l) ==
    /\ requeue[q].pc = "new" /\ l \notin unborn
    /\ requeue' = [requeue EXCEPT ![q] = [pc |-> IF l \in letters THEN "insert" ELSE "end",
                                          letter |-> l]]
    /\ contested' = IF \E p \in Requeues : requeue[p].pc \in {"insert", "delete"}
                                           /\ requeue[p].letter = l
                      THEN contested \cup {l} ELSE contested
    /\ UNCHANGED <<workflowKept, unborn, letters, requeued, cleared, expired, letterFaults>>

\* INSERT of the queued run: no quota, no idempotency key.
InsertRequeuedRun(q) ==
    /\ requeue[q].pc = "insert" /\ workflowKept
    /\ requeue' = [requeue EXCEPT ![q].pc = "delete"]
    /\ requeued' = [requeued EXCEPT ![requeue[q].letter] = @ + 1]
    /\ UNCHANGED <<workflowKept, unborn, letters, cleared, expired, contested, letterFaults>>

\* The run of a workflow that is gone cannot be inserted (workflow_id REFERENCES
\* workflows): the request ends in an error.
RefuseRequeuedRun(q) ==
    /\ requeue[q].pc = "insert" /\ ~workflowKept
    /\ requeue' = [requeue EXCEPT ![q].pc = "end"]
    /\ UNCHANGED <<workflowKept, unborn, letters, requeued, cleared, expired, contested, letterFaults>>

DeleteDeadLetter(q) ==
    /\ requeue[q].pc = "delete"
    /\ requeue' = [requeue EXCEPT ![q].pc = "end"]
    /\ letters' = letters \ {requeue[q].letter}
    /\ UNCHANGED <<workflowKept, unborn, requeued, cleared, expired, contested, letterFaults>>

ClearDeadLetters ==
    /\ letters # {}
    /\ cleared' = cleared \cup letters
    /\ letters' = {}
    /\ UNCHANGED <<workflowKept, unborn, requeue, requeued, expired, contested, letterFaults>>

\* purge_old_runs, every ten minutes: runs that have ended and are older than
\* RUN_RETENTION_DAYS, and with them their letters.  (The run of a letter that
\* is still to be written may have ended by a cancel.)
PurgeOldRuns(S) ==
    /\ S # {} /\ S \subseteq letters \cup unborn
    /\ letters' = letters \ S /\ unborn' = unborn \ S
    /\ expired' = expired \cup S
    /\ UNCHANGED <<workflowKept, requeue, requeued, cleared, contested, letterFaults>>

\* DELETE FROM workflows: the runs and the letters go with it.
DropWorkflow ==
    /\ workflowKept /\ workflowKept' = FALSE
    /\ letters' = {} /\ unborn' = {}
    /\ expired' = expired \cup letters \cup unborn
    /\ UNCHANGED <<requeue, requeued, cleared, contested, letterFaults>>

\* A statement fails or the server stops; after the insert the letter is kept.
AbortRequeue(q) ==
    /\ requeue[q].pc \in {"insert", "delete"} /\ letterFaults > 0
    /\ requeue' = [requeue EXCEPT ![q].pc = "end"]
    /\ contested' = IF requeue[q].pc = "delete" THEN contested \cup {requeue[q].letter}
                    ELSE contested
    /\ letterFaults' = letterFaults - 1
    /\ UNCHANGED <<workflowKept, unborn, letters, requeued, cleared, expired>>

DeadLettersNext ==
    \/ \E l \in Letters : InsertDeadLetter(l)
    \/ \E q \in Requeues :
         \/ \E l \in Letters : FindDeadLetter(q, l)
         \/ InsertRequeuedRun(q) \/ RefuseRequeuedRun(q)
         \/ DeleteDeadLetter(q) \/ AbortRequeue(q)
    \/ ClearDeadLetters
    \/ \E S \in SUBSET Letters : PurgeOldRuns(S)
    \/ DropWorkflow

DeadLettersSpec == DeadLettersInit /\ [][DeadLettersNext]_letterVars

----------------------------------------------------------------------------
(* Properties. *)

\* A requeue neither loses a failed run nor doubles it: wherever the request is
\* cut off, a letter has left the table only if a run was inserted for it, the
\* user cleared it, or the run it is of or the workflow was deleted, and a second
\* run is inserted only when two requests had the letter at once or one could not
\* delete it.
LetterBecomesOneRun ==
    \A l \in Letters :
        /\ l \notin unborn \cup letters => requeued[l] > 0 \/ l \in cleared \cup expired
        /\ requeued[l] > 1 => l \in contested
=============================================================================

----------------------------- MODULE MCRunQueue -----------------------------
(* Instances of RunQueue for TLC. *)
EXTENDS RunQueue, TLC

CONSTANT f1

\* Every run belongs to one workflow.
OneWorkflow == [r \in Runs |-> f1]

SymWorkers == Permutations(Workers)
=============================================================================

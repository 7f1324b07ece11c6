---------------------------- MODULE MCQueueModes ----------------------------
(* RunQueue while WORKER_USE_LEASES is being changed: processes that claim  *)
(* first in, first out and processes that claim with leases share the table *)
(* of runs.  Each statement may be of either kind, which includes every     *)
(* assignment of the setting to processes and every restart with another.   *)
(* (Only the steps of the loop depend on the setting.)                      *)
EXTENDS MCRunQueue

Leased == INSTANCE RunQueue WITH UseLeases <- TRUE

MixedNext == Next \/ \E w \in Workers : Leased!LoopStep(w)

MixedSpec == Init /\ [][MixedNext]_vars
=============================================================================

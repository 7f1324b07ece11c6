----------------------------- MODULE MCTriggers -----------------------------
(* What starts runs besides a user: Schedules, NotionPoller, Webhooks and    *)
(* DeadLetters.  They share no state, so one run checks them side by side:   *)
(* part says which of them moves, and the state spaces add up.  Schedules    *)
(* moves in two parts, one with two servers and one with two saves.          *)
EXTENDS Schedules, NotionPoller, Webhooks, DeadLetters

CONSTANTS s1, s2, v1, v2

VARIABLE part

Parts == {"servers", "saves", "notion", "webhooks", "letters"}

OneShotOrRepeat == {[start |-> 1, every |-> 0], [start |-> 0, every |-> 1]}
TwoServers == {s1, s2}
TwoSaves == {v1, v2}

SchedulesPart(p) ==
    /\ part = p /\ SchedulesNext
    /\ UNCHANGED <<part, notionVars, webhookVars, letterVars>>

TriggersInit ==
    /\ part \in Parts
    /\ SchedulesInit /\ NotionInit /\ WebhooksInit /\ DeadLettersInit
    /\ part # "webhooks" => ~hook.hmac /\ hook.window = 0

TriggersNext ==
    \/ SchedulesPart("servers") /\ save'[v2] = save[v2]
    \/ SchedulesPart("saves") /\ trigger'[s2] = trigger[s2]
    \/ part = "notion" /\ NotionNext /\ UNCHANGED <<part, scheduleVars, webhookVars, letterVars>>
    \/ part = "webhooks" /\ WebhooksNext /\ UNCHANGED <<part, scheduleVars, notionVars, letterVars>>
    \/ part = "letters" /\ DeadLettersNext /\ UNCHANGED <<part, scheduleVars, notionVars, webhookVars>>

\* The fairness of Schedules, for the servers that move in the part.
TriggersFairness ==
    /\ WF_scheduleVars(TriggerStep(s1))
    /\ WF_scheduleVars(part = "servers" /\ TriggerStep(s2))

TriggersSpec ==
    /\ TriggersInit
    /\ [][TriggersNext]_<<part, scheduleVars, notionVars, webhookVars, letterVars>>
    /\ TriggersFairness

TriggersTypeOK ==
    /\ part \in Parts
    /\ SchedulesTypeOK /\ NotionTypeOK /\ WebhooksTypeOK /\ DeadLettersTypeOK

\* The properties of NotionPoller say nothing once notionStale holds, and it
\* holds for good, so such states are not explored further.  Rows differ only in
\* their names: it is enough to add them in order.
NotionBound ==
    /\ ~notionStale
    /\ \A i \in DOMAIN table : table[i].row = Len(table) - i + 1
=============================================================================

------------------------------ MODULE Schedules ------------------------------
(***************************************************************************)
(* The schedule of one workflow: the row of workflow_schedules that a save *)
(* of the workflow writes, and the schedule pass of every server process,  *)
(* which creates a run when the row is due and writes the next time back.  *)
(* Nothing locks the row, and each statement of a save and of a pass is a  *)
(* step.  Time is a counter; schedule times and now() are its values.      *)
(***************************************************************************)
EXTENDS Integers, FiniteSets

CONSTANTS
    Servers,        \* server processes, each with one schedule pass
    Saves,          \* requests that create or update the workflow
    Configs,        \* schedule triggers: [start, every], every = 0 is no repeat
    NoConfig,       \* the workflow has no schedule trigger
    NoTime,         \* SQL NULL in a time column
    SendsVersion,   \* does the client send updated_at? (it must in a workspace)
    MaxClock,       \* bound: the last value of the clock
    MaxSchedFaults  \* bound: failed statements and stopped servers

ASSUME SchedulePartiesAssumption == IsFiniteSet(Servers) /\ IsFiniteSet(Saves)
ASSUME ScheduleConfigAssumption ==
    /\ Configs \subseteq [start: Nat, every: Nat]
    /\ NoConfig \notin Configs /\ NoTime \notin Nat
    /\ SendsVersion \in BOOLEAN
ASSUME ScheduleBoundsAssumption == MaxClock \in Nat /\ MaxSchedFaults \in Nat

VARIABLES
    clock,        \* now(), the same for the servers and the database
    workflow,     \* the row of workflows: exists, its trigger, its version
    schedule,     \* the row of workflow_schedules, deleted with the workflow
    trigger,      \* per server, trigger_schedule and its copy of the row
    save,         \* per request, the handler, its version and what it read
    fired,        \* history: runs created, by the time they were scheduled for
    cut,          \* history: times whose trigger created a run and was cut off
    stale,        \* history: a step wrote over what its handler had not seen
    synced,       \* history: the last save was followed by a sync of its own
    schedFaults   \* faults that may still happen

scheduleVars ==
    <<clock, workflow, schedule, trigger, save, fired, cut, stale, synced, schedFaults>>

Times == 0..MaxClock
NoSchedule == [exists |-> FALSE, config |-> NoConfig, next |-> NoTime,
               last |-> NoTime, enabled |-> FALSE]
IdleTrigger == [pc |-> "idle", row |-> NoSchedule]
NewSave == [pc |-> "open", version |-> 0, config |-> NoConfig,
            row |-> NoSchedule, alone |-> TRUE]
EndedSave == [NewSave EXCEPT !.pc = "done"]

ScheduleRows == [exists: BOOLEAN, config: Configs \cup {NoConfig},
                 next: Nat \cup {NoTime}, last: Times \cup {NoTime}, enabled: BOOLEAN]

SchedulesTypeOK ==
    /\ clock \in Times
    /\ workflow \in [exists: BOOLEAN, config: Configs \cup {NoConfig}, version: Nat]
    /\ schedule \in ScheduleRows
    /\ trigger \in [Servers -> [pc: {"idle", "listed", "found", "created", "skipped"},
                                row: ScheduleRows]]
    /\ save \in [Saves -> [pc: {"open", "edit", "read", "write", "done"}, version: Nat,
                           config: Configs \cup {NoConfig}, row: ScheduleRows,
                           alone: BOOLEAN]]
    /\ fired \in [Times -> Nat]
    /\ cut \subseteq Times
    /\ stale \in BOOLEAN /\ synced \in BOOLEAN
    /\ schedFaults \in 0..MaxSchedFaults

SchedulesInit ==
    /\ clock = 0
    /\ workflow = [exists |-> FALSE, config |-> NoConfig, version |-> 0]
    /\ schedule = NoSchedule
    /\ trigger = [s \in Servers |-> IdleTrigger]
    /\ save = [v \in Saves |-> NewSave]
    /\ fired = [t \in Times |-> 0]
    /\ cut = {} /\ stale = FALSE /\ synced = FALSE
    /\ schedFaults = MaxSchedFaults

----------------------------------------------------------------------------
(* Times of a schedule. *)

\* The first of base, base + every, base + 2 * every, ... that is not before t.
FirstNotBefore(base, every, t) ==
    IF base >= t THEN base ELSE base + every * ((t - base + every - 1) \div every)

\* compute_next_run; last is NoTime for None.
compute_next_run(config, last, t) ==
    IF last = NoTime
      THEN IF config.every = 0 THEN config.start
                               ELSE FirstNotBefore(config.start, config.every, t)
      ELSE IF config.every = 0 THEN NoTime
           ELSE LET candidate == last + config.every
                IN  FirstNotBefore(IF candidate < config.start THEN config.start ELSE candidate,
                                   config.every, t)

IsDue(row, t) == row.enabled /\ row.next # NoTime /\ row.next <= t

Disabled(row) == [row EXCEPT !.enabled = FALSE, !.next = NoTime]

TriggerInFlight == \E s \in Servers : trigger[s].pc # "idle"

----------------------------------------------------------------------------
(* A save: update_workflow and then sync_workflow_schedule. *)

\* The client loads the workflow, or starts a new one, and edits it.
OpenWorkflow(v) ==
    /\ save[v].pc = "open"
    /\ save' = [save EXCEPT ![v].pc = "edit", ![v].version = workflow.version]
    /\ UNCHANGED <<clock, workflow, schedule, trigger, fired, cut, stale, synced, schedFaults>>

\* Another save that has updated the workflow and not yet synced is no longer alone.
Joined(v) ==
    [w \in Saves |-> IF w # v /\ save[w].pc \in {"read", "write"}
                       THEN [save[w] EXCEPT !.alone = FALSE] ELSE save[w]]

\* create_workflow, or the compare-and-set of update_workflow.  A solo account's
\* workflow beyond the limit (locked) is refused after the UPDATE, with no sync.
UpdateWorkflow(v) ==
    /\ save[v].pc = "edit"
    /\ workflow.exists \/ workflow.version = 0
    /\ workflow.exists /\ SendsVersion => save[v].version = workflow.version
    /\ \E config \in Configs \cup {NoConfig}, locked \in BOOLEAN :
         /\ locked => workflow.exists /\ ~SendsVersion
         /\ workflow' = [exists |-> TRUE, config |-> config, version |-> workflow.version + 1]
         /\ save' = [Joined(v) EXCEPT ![v] =
                       IF locked THEN EndedSave
                       ELSE [NewSave EXCEPT !.pc = "read", !.config = config,
                               !.alone = \A w \in Saves : save[w].pc \notin {"read", "write"}]]
    /\ synced' = FALSE
    /\ UNCHANGED <<clock, schedule, trigger, fired, cut, stale, schedFaults>>

\* workflow_conflict_response, or the workflow is not there.
RefuseUpdate(v) ==
    /\ save[v].pc = "edit"
    /\ \/ ~workflow.exists /\ workflow.version > 0
       \/ workflow.exists /\ SendsVersion /\ save[v].version # workflow.version
    /\ save' = [save EXCEPT ![v] = EndedSave]
    /\ UNCHANGED <<clock, workflow, schedule, trigger, fired, cut, stale, synced, schedFaults>>

\* get_schedule_for_workflow.
ReadSchedule(v) ==
    /\ save[v].pc = "read"
    /\ save' = [save EXCEPT ![v].pc = "write", ![v].row = schedule]
    /\ UNCHANGED <<clock, workflow, schedule, trigger, fired, cut, stale, synced, schedFaults>>

\* Mutant: a workflow without a schedule trigger leaves its schedule as it is.
SyncedRowNotDisabled(v) ==
    LET config == save[v].config
        next   == IF config = NoConfig THEN NoTime
                  ELSE compute_next_run(config, save[v].row.last, clock)
    IN  IF next = NoTime THEN schedule
        ELSE [exists |-> TRUE, config |-> config, next |-> next,
              last |-> schedule.last, enabled |-> TRUE]

\* The row that sync_workflow_schedule_inner leaves: upsert_workflow_schedule
\* keeps last_run_at, disable_workflow_schedule also keeps the config.
SyncedRow(v) ==
    LET config == save[v].config
        next   == IF config = NoConfig THEN NoTime
                  ELSE compute_next_run(config, save[v].row.last, clock)
    IN  IF next = NoTime THEN Disabled(schedule)
        ELSE [exists |-> TRUE, config |-> config, next |-> next,
              last |-> schedule.last, enabled |-> TRUE]

\* The upsert of a deleted workflow breaks its foreign key; sync only logs that.
WriteSchedule(v) ==
    /\ save[v].pc = "write"
    /\ save' = [save EXCEPT ![v] = EndedSave]
    /\ schedule' = IF workflow.exists THEN SyncedRow(v) ELSE schedule
    /\ stale' = (stale \/ schedule # save[v].row \/ TriggerInFlight)
    /\ synced' = (workflow.exists /\ save[v].alone /\ ~TriggerInFlight)
    /\ UNCHANGED <<clock, workflow, trigger, fired, cut, schedFaults>>

\* A statement of the sync fails, which is logged, or the server stops.
FailSync(v) ==
    /\ save[v].pc \in {"read", "write"} /\ schedFaults > 0
    /\ save' = [save EXCEPT ![v] = EndedSave]
    /\ schedFaults' = schedFaults - 1
    /\ UNCHANGED <<clock, workflow, schedule, trigger, fired, cut, stale, synced>>

\* delete_workflow; the row of workflow_schedules goes with it.
DeleteWorkflow ==
    /\ workflow.exists
    /\ workflow' = [workflow EXCEPT !.exists = FALSE]
    /\ schedule' = NoSchedule
    /\ UNCHANGED <<clock, trigger, save, fired, cut, stale, synced, schedFaults>>

----------------------------------------------------------------------------
(* The schedule pass: process_due_schedules and trigger_schedule. *)

ListDueSchedules(s) ==
    /\ trigger[s].pc = "idle" /\ IsDue(schedule, clock)
    /\ trigger' = [trigger EXCEPT ![s] = [pc |-> "listed", row |-> schedule]]
    /\ UNCHANGED <<clock, workflow, schedule, save, fired, cut, stale, synced, schedFaults>>

\* find_workflow_by_id; the schedule of a workflow that is gone is disabled.
FindWorkflow(s) ==
    /\ trigger[s].pc = "listed"
    /\ IF workflow.exists
         THEN trigger' = [trigger EXCEPT ![s].pc = "found"] /\ UNCHANGED schedule
         ELSE trigger' = [trigger EXCEPT ![s] = IdleTrigger] /\ schedule' = Disabled(schedule)
    /\ UNCHANGED <<clock, workflow, save, fired, cut, stale, synced, schedFaults>>

\* create_workflow_run, whose insert fails when the workflow is gone.
CreateScheduledRun(s) ==
    /\ trigger[s].pc = "found"
    /\ IF workflow.exists
         THEN /\ trigger' = [trigger EXCEPT ![s].pc = "created"]
              /\ fired' = [fired EXCEPT ![trigger[s].row.next] = @ + 1]
              /\ stale' = (stale \/ schedule # trigger[s].row
                                 \/ \E u \in Servers \ {s} : trigger[u].pc # "idle")
         ELSE trigger' = [trigger EXCEPT ![s] = IdleTrigger] /\ UNCHANGED <<fired, stale>>
    /\ UNCHANGED <<clock, workflow, schedule, save, cut, synced, schedFaults>>

\* Runaway protection or the plan of the workspace stops the run.
SkipScheduledRun(s) ==
    /\ trigger[s].pc = "found"
    /\ trigger' = [trigger EXCEPT ![s].pc = "skipped"]
    /\ UNCHANGED <<clock, workflow, schedule, save, fired, cut, stale, synced, schedFaults>>

\* Mutants: the next time is computed as for a schedule that never ran; a schedule
\* without repeat is not switched off.
MarkedRowFromStart(s) ==
    LET next == compute_next_run(trigger[s].row.config, NoTime, clock)
    IN  IF schedule.exists
          THEN [schedule EXCEPT !.last = clock, !.next = next, !.enabled = next # NoTime]
          ELSE schedule

MarkedRowKept(s) ==
    LET next == compute_next_run(trigger[s].row.config, trigger[s].row.next, clock)
    IN  IF schedule.exists /\ next # NoTime
          THEN [schedule EXCEPT !.last = clock, !.next = next, !.enabled = TRUE]
          ELSE schedule

\* mark_schedule_run, by id: with a next time it also enables the row.
MarkedRow(s) ==
    LET next == compute_next_run(trigger[s].row.config, trigger[s].row.next, clock)
    IN  IF schedule.exists
          THEN [schedule EXCEPT !.last = clock, !.next = next, !.enabled = next # NoTime]
          ELSE schedule

MarkScheduleRun(s) ==
    /\ trigger[s].pc \in {"created", "skipped"}
    /\ trigger' = [trigger EXCEPT ![s] = IdleTrigger]
    /\ schedule' = MarkedRow(s)
    /\ stale' = (stale \/ schedule # trigger[s].row)
    /\ UNCHANGED <<clock, workflow, save, fired, cut, synced, schedFaults>>

\* A statement of the pass fails (in record_run_event too) or its server stops;
\* the next pass lists the schedule again.
AbortTrigger(s) ==
    /\ trigger[s].pc # "idle" /\ schedFaults > 0
    /\ trigger' = [trigger EXCEPT ![s] = IdleTrigger]
    /\ cut' = IF trigger[s].pc = "created" THEN cut \cup {trigger[s].row.next} ELSE cut
    /\ schedFaults' = schedFaults - 1
    /\ UNCHANGED <<clock, workflow, schedule, save, fired, stale, synced>>

TickClock ==
    /\ clock < MaxClock
    /\ clock' = clock + 1
    /\ UNCHANGED <<workflow, schedule, trigger, save, fired, cut, stale, synced, schedFaults>>

----------------------------------------------------------------------------
SaveStep(v) ==
    \/ OpenWorkflow(v) \/ UpdateWorkflow(v) \/ RefuseUpdate(v)
    \/ ReadSchedule(v) \/ WriteSchedule(v)

TriggerStep(s) ==
    \/ ListDueSchedules(s) \/ FindWorkflow(s)
    \/ CreateScheduledRun(s) \/ SkipScheduledRun(s) \/ MarkScheduleRun(s)

SchedulesNext ==
    \/ \E v \in Saves : SaveStep(v) \/ FailSync(v)
    \/ DeleteWorkflow
    \/ \E s \in Servers : TriggerStep(s) \/ AbortTrigger(s)
    \/ TickClock

\* A server goes on with its pass and starts another every few seconds.
SchedulesFairness == \A s \in Servers : WF_scheduleVars(TriggerStep(s))

SchedulesSpec ==
    SchedulesInit /\ [][SchedulesNext]_scheduleVars /\ SchedulesFairness

----------------------------------------------------------------------------
(* Properties. *)

\* A scheduled time gets one run.  It gets a second one only when a trigger was
\* cut off between create_workflow_run and mark_schedule_run (that time, and no
\* other), or when two servers, or a server and a save, had the schedule in
\* hand at once.
OneRunPerTime ==
    \A t \in Times : fired[t] > 1 => t \in cut \/ stale

\* After a save whose sync met no other save and no trigger in flight, and until
\* the next one, the schedule is the workflow's: what is enabled is the trigger
\* that was saved, and a repeating trigger stays enabled, whatever servers
\* trigger it, skip runs, fail or stop in the meantime.
ScheduleFollowsWorkflow ==
    synced /\ workflow.exists =>
        /\ schedule.enabled => schedule.config = workflow.config /\ workflow.config # NoConfig
        /\ workflow.config # NoConfig /\ workflow.config.every > 0 => schedule.enabled

\* A schedule that is due does not stay due: a server triggers it and moves it
\* to a later time or switches it off, or a save or a deletion does.
DueScheduleIsServed ==
    \A t \in Times :
        schedule.enabled /\ schedule.next = t /\ t <= clock
            ~> ~(schedule.enabled /\ schedule.next = t)
=============================================================================

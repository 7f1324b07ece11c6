---------------------------- MODULE NotionPoller ----------------------------
(***************************************************************************)
(* A workflow started by a Notion database: on each poll                   *)
(* trigger_notion_schedule asks Notion for the rows in descending order of *)
(* their time, takes those later than the last one seen, saves what it has *)
(* seen in the config of the schedule and then creates one run per row.    *)
(* Servers poll without a lock, and a save of the workflow copies the      *)
(* saved state into the new config.  Times have Notion's resolution of a   *)
(* minute; a row that is touched moves to the front of the list.           *)
(***************************************************************************)
EXTENDS Integers, Sequences, FiniteSets, SequencesExt

CONSTANTS
    Rows,            \* rows of the Notion database
    Pollers,         \* server processes
    NotionKind,      \* "new" rows (created_time) or "updated" (last_edited_time)
    NoRow,           \* no cursor
    RowBudget,       \* rows one poll reads: MAX_POLL_PAGES * page_size
    MaxMinute,       \* bound: the last minute
    MaxEdits,        \* bound: saves of the workflow
    MaxPollFaults    \* bound: failed statements and stopped servers

ASSUME NotionAssumption ==
    /\ IsFiniteSet(Rows) /\ IsFiniteSet(Pollers) /\ NoRow \notin Rows
    /\ NotionKind \in {"new", "updated"}
    /\ RowBudget \in Nat \ {0} /\ MaxMinute \in Nat \ {0}
    /\ MaxEdits \in Nat /\ MaxPollFaults \in Nat

VARIABLES
    minute,      \* Notion's clock
    table,       \* the rows with their times, as a query lists them
    seen,        \* config.state: the last time seen (0 is none) and the cursor
    due,         \* is next_run_at of the schedule reached?
    poll,        \* per server, trigger_notion_schedule
    edit,        \* a save of the workflow: the state it read, to be written back
    edits,       \* saves that may still happen
    emitted,     \* history: runs created, by row and time
    excused,     \* history: row versions that the poller may pass over
    crowded,     \* history: minutes in which more than one row was touched
    notionStale, \* history: a step wrote over a state it had not read
    pollFaults   \* faults that may still happen

notionVars == <<minute, table, seen, due, poll, edit, edits, emitted, excused,
                crowded, notionStale, pollFaults>>

Minutes == 1..MaxMinute
Entries == [row: Rows, time: Minutes]
SeenStates == [time: 0..MaxMinute, cursor: Rows \cup {NoRow}]
NothingSeen == [time |-> 0, cursor |-> NoRow]
IdlePoll == [pc |-> "idle", base |-> NothingSeen, result |-> NothingSeen, events |-> <<>>]
NoEdit == [pc |-> "none", base |-> NothingSeen]

NotionTypeOK ==
    /\ minute \in Minutes
    /\ table \in Seq(Entries)
    /\ seen \in SeenStates
    /\ due \in BOOLEAN
    /\ poll \in [Pollers -> [pc: {"idle", "token", "save", "emit"}, base: SeenStates,
                             result: SeenStates, events: Seq(Entries)]]
    /\ edit \in [pc: {"none", "write"}, base: SeenStates]
    /\ edits \in 0..MaxEdits
    /\ emitted \in [Entries -> Nat]
    /\ excused \subseteq Entries /\ crowded \subseteq Minutes
    /\ notionStale \in BOOLEAN
    /\ pollFaults \in 0..MaxPollFaults

NotionInit ==
    /\ minute = 1
    /\ table = <<>>
    /\ seen = NothingSeen
    /\ due = TRUE
    /\ poll = [s \in Pollers |-> IdlePoll]
    /\ edit = NoEdit /\ edits = MaxEdits
    /\ emitted = [e \in Entries |-> 0]
    /\ excused = {} /\ crowded = {} /\ notionStale = FALSE
    /\ pollFaults = MaxPollFaults

----------------------------------------------------------------------------
(* poll_database on the list that Notion returns. *)

\* The rows from the cursor on (a cursor names the row to go on with).
FromCursor(rows, cursor) ==
    LET at == SelectInSeq(rows, LAMBDA e : e.row = cursor)
    IN  IF cursor = NoRow \/ at = 0 THEN rows ELSE SubSeq(rows, at, Len(rows))

\* The rows that the poll fetches before it meets its page budget.
Fetched(rows, cursor) ==
    LET list == FromCursor(rows, cursor)
    IN  SubSeq(list, 1, IF Len(list) < RowBudget THEN Len(list) ELSE RowBudget)

\* Mutant: a row at the last time seen is taken again.
NewEventsAgain(rows, state) ==
    IF state.time = 0 THEN <<>>
    ELSE LET list == Fetched(rows, state.cursor)
             old  == SelectInSeq(list, LAMBDA e : e.time < state.time)
         IN  IF old = 0 THEN list ELSE SubSeq(list, 1, old - 1)

\* No event is made of the first rows ever seen; later, the rows before the
\* first one whose time is not after the last time seen.
NewEvents(rows, state) ==
    IF state.time = 0 THEN <<>>
    ELSE LET list == Fetched(rows, state.cursor)
             old  == SelectInSeq(list, LAMBDA e : e.time <= state.time)
         IN  IF old = 0 THEN list ELSE SubSeq(list, 1, old - 1)

\* halted_for_budget: the budget is used up, no known row was reached, and
\* there are more rows.
Halted(rows, state) ==
    LET list == FromCursor(rows, state.cursor)
    IN  /\ Len(list) > RowBudget
        /\ state.time # 0 => Len(NewEvents(rows, state)) = RowBudget

\* Mutant: the time of the poll is saved as the time of the newest row.
PolledStateNow(rows, state) ==
    [time |-> minute,
     cursor |-> IF Halted(rows, state)
                  THEN FromCursor(rows, state.cursor)[RowBudget + 1].row ELSE NoRow]

\* The newest time is saved even when the poll is halted on its way to it.
PolledState(rows, state) ==
    LET list   == Fetched(rows, state.cursor)
        events == NewEvents(rows, state)
        newest == IF state.time = 0 THEN list ELSE events
    IN  [time   |-> IF newest = <<>> THEN state.time ELSE newest[1].time,
         cursor |-> IF Halted(rows, state)
                      THEN FromCursor(rows, state.cursor)[RowBudget + 1].row ELSE NoRow]

----------------------------------------------------------------------------
(* The database, the clock and a save of the workflow. *)

\* A row is added, or for "updated" also changed; Notion lists it first.
TouchRow(r) ==
    LET at == SelectInSeq(table, LAMBDA e : e.row = r)
    IN  /\ NotionKind = "new" => at = 0
        /\ table' = <<[row |-> r, time |-> minute]>>
                      \o (IF at = 0 THEN table ELSE RemoveAt(table, at))
        /\ crowded' = IF \E i \in DOMAIN table : table[i].time = minute
                        THEN crowded \cup {minute} ELSE crowded
        /\ UNCHANGED <<minute, seen, due, poll, edit, edits, emitted, excused, notionStale, pollFaults>>

PassMinute ==
    /\ minute < MaxMinute
    /\ minute' = minute + 1
    /\ UNCHANGED <<table, seen, due, poll, edit, edits, emitted, excused, crowded, notionStale, pollFaults>>

\* The poll interval has passed.
BecomeDue ==
    /\ ~due
    /\ due' = TRUE
    /\ UNCHANGED <<minute, table, seen, poll, edit, edits, emitted, excused, crowded, notionStale, pollFaults>>

\* sync_workflow_schedule_inner reads the schedule ...
ReadSeen ==
    /\ edit.pc = "none" /\ edits > 0
    /\ edit' = [pc |-> "write", base |-> seen]
    /\ edits' = edits - 1
    /\ UNCHANGED <<minute, table, seen, due, poll, emitted, excused, crowded, notionStale, pollFaults>>

\* ... and writes the config with the state it read (merge_notion_state).  A
\* next_run_at that is reached moves to a full interval from now.
WriteSeen ==
    /\ edit.pc = "write"
    /\ seen' = edit.base
    /\ due' = FALSE
    /\ edit' = NoEdit
    /\ notionStale' = (notionStale \/ seen # edit.base \/ \E s \in Pollers : poll[s].pc # "idle")
    /\ UNCHANGED <<minute, table, poll, edits, emitted, excused, crowded, pollFaults>>

----------------------------------------------------------------------------
(* One poll: trigger_notion_schedule. *)

\* list_due_schedules and the workflow; the config is a copy from here on.
StartPoll(s) ==
    /\ poll[s].pc = "idle" /\ due
    /\ poll' = [poll EXCEPT ![s] = [IdlePoll EXCEPT !.pc = "token", !.base = seen]]
    /\ UNCHANGED <<minute, table, seen, due, edit, edits, emitted, excused, crowded, notionStale, pollFaults>>

\* No usable connection, membership or plan, or Notion fails: mark_schedule_run.
GiveUpPoll(s) ==
    /\ poll[s].pc = "token"
    /\ poll' = [poll EXCEPT ![s] = IdlePoll]
    /\ due' = FALSE
    /\ UNCHANGED <<minute, table, seen, edit, edits, emitted, excused, crowded, notionStale, pollFaults>>

\* History: the rows that are there when polling begins, and the rows that a
\* halted poll leaves between what it read and what was seen before.
PassedOver(rows, state) ==
    IF state.time = 0 THEN Range(rows)
    ELSE IF Halted(rows, state)
           THEN {e \in Range(rows) : e.time > state.time} \ Range(NewEvents(rows, state))
           ELSE {}

PollDatabase(s) ==
    /\ poll[s].pc = "token"
    /\ poll' = [poll EXCEPT ![s].pc = "save",
                            ![s].result = PolledState(table, poll[s].base),
                            ![s].events = NewEvents(table, poll[s].base)]
    /\ excused' = excused \cup PassedOver(table, poll[s].base)
    /\ UNCHANGED <<minute, table, seen, due, edit, edits, emitted, crowded, notionStale, pollFaults>>

\* upsert_workflow_schedule with the new state, before any run is created.
SaveSeen(s) ==
    /\ poll[s].pc = "save"
    /\ poll' = [poll EXCEPT ![s].pc = "emit"]
    /\ IF poll[s].result # poll[s].base
         THEN seen' = poll[s].result /\ due' = FALSE
         ELSE UNCHANGED <<seen, due>>
    /\ notionStale' = (notionStale \/ seen # poll[s].base
                         \/ \E u \in Pollers \ {s} : poll[u].pc # "idle")
    /\ UNCHANGED <<minute, table, edit, edits, emitted, excused, crowded, pollFaults>>

\* create_workflow_run for the next event.
EmitRow(s) ==
    /\ poll[s].pc = "emit" /\ poll[s].events # <<>>
    /\ emitted' = [emitted EXCEPT ![Head(poll[s].events)] = @ + 1]
    /\ poll' = [poll EXCEPT ![s].events = Tail(@)]
    /\ UNCHANGED <<minute, table, seen, due, edit, edits, excused, crowded, notionStale, pollFaults>>

\* Runaway protection, or a plan that is not a workspace plan any more.
SkipRows(s) ==
    /\ poll[s].pc = "emit" /\ poll[s].events # <<>>
    /\ excused' = excused \cup Range(poll[s].events)
    /\ poll' = [poll EXCEPT ![s].events = <<>>]
    /\ UNCHANGED <<minute, table, seen, due, edit, edits, emitted, crowded, notionStale, pollFaults>>

\* mark_schedule_run.
EndPoll(s) ==
    /\ poll[s].pc = "emit" /\ poll[s].events = <<>>
    /\ poll' = [poll EXCEPT ![s] = IdlePoll]
    /\ due' = FALSE
    /\ UNCHANGED <<minute, table, seen, edit, edits, emitted, excused, crowded, notionStale, pollFaults>>

\* A statement fails or the server stops.  Once the state is saved, the events
\* that are left go with it.
AbortPoll(s) ==
    /\ poll[s].pc # "idle" /\ pollFaults > 0
    /\ excused' = IF poll[s].pc = "emit" THEN excused \cup Range(poll[s].events) ELSE excused
    /\ poll' = [poll EXCEPT ![s] = IdlePoll]
    /\ pollFaults' = pollFaults - 1
    /\ UNCHANGED <<minute, table, seen, due, edit, edits, emitted, crowded, notionStale>>

NotionNext ==
    \/ \E r \in Rows : TouchRow(r)
    \/ PassMinute \/ BecomeDue \/ ReadSeen \/ WriteSeen
    \/ \E s \in Pollers :
         \/ StartPoll(s) \/ GiveUpPoll(s) \/ PollDatabase(s) \/ SaveSeen(s)
         \/ EmitRow(s) \/ SkipRows(s) \/ EndPoll(s) \/ AbortPoll(s)

NotionSpec == NotionInit /\ [][NotionNext]_notionVars

----------------------------------------------------------------------------
(* Properties. *)

\* No row version gets two runs, whatever fails or stops between the statements
\* of a poll, unless two polls, or a poll and a save, had the state at once.
RowStartsOneRun ==
    \A e \in Entries : emitted[e] > 1 => notionStale

\* No row is passed over for good: when no poll is in flight, a row whose time
\* the saved state has reached got its run.  Exactly these may be missing: rows
\* from before the first poll that found any, rows beyond the page budget, rows
\* whose poll was skipped or cut off after its state was saved, and rows that
\* share their minute with another one.
RowIsNotPassedOver ==
    (\A s \in Pollers : poll[s].pc = "idle") /\ ~notionStale =>
        \A i \in DOMAIN table :
            LET e == table[i]
            IN  e.time <= seen.time /\ e.time \notin crowded =>
                    emitted[e] > 0 \/ e \in excused
=============================================================================

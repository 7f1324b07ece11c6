--------------------------- MODULE TriggersProofs ---------------------------
(***************************************************************************)
(* Proofs about what starts runs besides a user: DeadLetters, Webhooks,    *)
(* Schedules and NotionPoller, each for any number of requests and servers *)
(* and any values of its bounds.                                           *)
(***************************************************************************)
EXTENDS Schedules, NotionPoller, Webhooks, DeadLetters,
        TLAPS, FiniteSetTheorems, SequenceTheorems, WellFoundedInduction

-----------------------------------------------------------------------------
(* Dead letters. *)

\* The request has read its letter and not deleted it yet.
Handling(q, l) == requeue[q].pc \in {"insert", "delete"} /\ requeue[q].letter = l

(***************************************************************************)
(* A letter that is not contested is handled by one request at a time, and *)
(* once its run is inserted that request is the only way back to the       *)
(* table: the letter is there only until it deletes it.                    *)
(***************************************************************************)
LetterInv ==
    /\ \A q \in Requeues :
         requeue[q].pc = "delete" => requeued[requeue[q].letter] > 0
    /\ \A l \in Letters :
         /\ l \in unborn => /\ l \notin letters /\ requeued[l] = 0
                            /\ \A q \in Requeues : ~Handling(q, l)
         /\ l \notin unborn \cup letters => requeued[l] > 0 \/ l \in cleared \cup expired
    /\ \A l \in Letters \ contested :
         /\ \A p, q \in Requeues : Handling(p, l) /\ Handling(q, l) => p = q
         /\ \A q \in Requeues : Handling(q, l) /\ requeue[q].pc = "insert" => requeued[l] = 0
         /\ requeued[l] > 0 /\ l \in letters => \E q \in Requeues : Handling(q, l)
         /\ requeued[l] <= 1

\* A request that goes on after its SELECT has found a letter.
LetterFound ==
    \A q \in Requeues :
       requeue[q].pc \in {"insert", "delete"} => requeue[q].letter \in Letters

LetterTypes == DeadLettersTypeOK /\ LetterFound

LEMMA LettersInit == DeadLettersInit => LetterTypes /\ LetterInv
BY DeadLettersAssumption
DEF DeadLettersInit, LetterTypes, LetterFound, DeadLettersTypeOK, LetterInv, Handling

LEMMA LettersType == LetterTypes /\ [DeadLettersNext]_letterVars => LetterTypes'
<1> SUFFICES ASSUME LetterTypes, [DeadLettersNext]_letterVars
             PROVE  LetterTypes'
  OBVIOUS
<1> USE DeadLettersAssumption DEF LetterTypes, LetterFound, DeadLettersTypeOK
<1>1. ASSUME NEW l \in Letters, InsertDeadLetter(l) PROVE LetterTypes'
  BY <1>1 DEF InsertDeadLetter
<1>2. ASSUME NEW q \in Requeues, NEW l \in Letters, FindDeadLetter(q, l)
      PROVE  LetterTypes'
  BY <1>2 DEF FindDeadLetter
<1>3. ASSUME NEW q \in Requeues, InsertRequeuedRun(q) PROVE LetterTypes'
  BY <1>3 DEF InsertRequeuedRun
<1>4. ASSUME NEW q \in Requeues, DeleteDeadLetter(q) PROVE LetterTypes'
  BY <1>4 DEF DeleteDeadLetter
<1>5. ASSUME NEW q \in Requeues, AbortRequeue(q) PROVE LetterTypes'
  <2>1. contested' \subseteq Letters
    BY <1>5 DEF AbortRequeue
  <2>2. letterFaults' \in 0..MaxLetterFaults
    BY <1>5 DEF AbortRequeue
  <2> QED BY <1>5, <2>1, <2>2 DEF AbortRequeue
<1>6. CASE ClearDeadLetters \/ UNCHANGED letterVars
  BY <1>6 DEF ClearDeadLetters, letterVars
<1>7. ASSUME NEW q \in Requeues, RefuseRequeuedRun(q) PROVE LetterTypes'
  BY <1>7 DEF RefuseRequeuedRun
<1>8. ASSUME NEW S \in SUBSET Letters, PurgeOldRuns(S) PROVE LetterTypes'
  BY <1>8 DEF PurgeOldRuns
<1>9. CASE DropWorkflow
  BY <1>9 DEF DropWorkflow
<1> QED BY <1>1, <1>2, <1>3, <1>4, <1>5, <1>6, <1>7, <1>8, <1>9 DEF DeadLettersNext

LEMMA LettersStep ==
    LetterTypes /\ LetterInv /\ [DeadLettersNext]_letterVars => LetterInv'
<1> SUFFICES ASSUME LetterTypes, LetterInv, [DeadLettersNext]_letterVars
             PROVE  LetterInv'
  OBVIOUS
<1> USE DEF LetterTypes, LetterFound, DeadLettersTypeOK
<1>1. ASSUME NEW l \in Letters, InsertDeadLetter(l) PROVE LetterInv'
  BY <1>1 DEF InsertDeadLetter, LetterInv, Handling
<1>2. ASSUME NEW q \in Requeues, NEW l \in Letters, FindDeadLetter(q, l)
      PROVE  LetterInv'
  BY <1>2 DEF FindDeadLetter, LetterInv, Handling
<1>3. ASSUME NEW q \in Requeues, InsertRequeuedRun(q) PROVE LetterInv'
  BY <1>3 DEF InsertRequeuedRun, LetterInv, Handling
<1>4. ASSUME NEW q \in Requeues, DeleteDeadLetter(q) PROVE LetterInv'
  BY <1>4 DEF DeleteDeadLetter, LetterInv, Handling
<1>5. ASSUME NEW q \in Requeues, AbortRequeue(q) PROVE LetterInv'
  BY <1>5 DEF AbortRequeue, LetterInv, Handling
<1>6. CASE ClearDeadLetters \/ UNCHANGED letterVars
  BY <1>6 DEF ClearDeadLetters, letterVars, LetterInv, Handling
<1>7. ASSUME NEW q \in Requeues, RefuseRequeuedRun(q) PROVE LetterInv'
  BY <1>7 DEF RefuseRequeuedRun, LetterInv, Handling
<1>8. ASSUME NEW S \in SUBSET Letters, PurgeOldRuns(S) PROVE LetterInv'
  BY <1>8 DEF PurgeOldRuns, LetterInv, Handling
<1>9. CASE DropWorkflow
  BY <1>9 DEF DropWorkflow, LetterInv, Handling
<1> QED BY <1>1, <1>2, <1>3, <1>4, <1>5, <1>6, <1>7, <1>8, <1>9 DEF DeadLettersNext

\* A dead letter leaves the table only for a run, by clear_dead_letters, or with
\* its run or its workflow, and gets a second run only when requests or a fault
\* come in each other's way.
THEOREM LettersAreKept == DeadLettersSpec => []LetterBecomesOneRun
<1>1. LetterTypes /\ LetterInv => LetterBecomesOneRun
  BY DEF LetterTypes, DeadLettersTypeOK, LetterInv, LetterBecomesOneRun
<1> QED BY <1>1, LettersInit, LettersType, LettersStep, PTL DEF DeadLettersSpec

-----------------------------------------------------------------------------
(* Webhooks. *)

\* The request carries a message of a sender and may still create a run.
Underway(d) == delivery[d].pc \in {"check", "record", "create"}

MessageKnown ==
    \A d \in Deliveries : Underway(d) => delivery[d].message \in Messages

HookTypes == WebhooksTypeOK /\ MessageKnown

(***************************************************************************)
(* For a message that was never accepted without a record, webhook_replays *)
(* holds it from the check on, and the delivery that made the record is    *)
(* the only one that may create the run.                                   *)
(***************************************************************************)
ReplayInv ==
    \A m \in Messages \ unchecked :
       /\ \A d \in Deliveries :
            delivery[d].pc = "create" /\ delivery[d].message = m =>
               /\ m \in replays /\ hookRuns[m] = 0
               /\ \A e \in Deliveries :
                    delivery[e].pc = "create" /\ delivery[e].message = m => e = d
       /\ hookRuns[m] > 0 => m \in replays
       /\ hookRuns[m] <= 1

LEMMA HooksInit == WebhooksInit => HookTypes /\ ReplayInv
<1> SUFFICES ASSUME WebhooksInit PROVE HookTypes /\ ReplayInv
  OBVIOUS
<1> USE WebhooksAssumption DEF WebhooksInit
<1>1. NoHook \in Hooks /\ NoSettings \in [pc: {"none", "update"}, hmac: BOOLEAN, window: Windows]
  BY DEF NoHook, NoSettings, Hooks, Salts
<1>2. hook \in Hooks /\ settings \in [pc: {"none", "update"}, hmac: BOOLEAN, window: Windows]
  BY <1>1 DEF Hooks, Salts
<1>3. delivery \in [Deliveries -> [pc: {"new", "check", "record", "create", "end"},
                                   message: Messages \cup {NoMessage}, hook: Hooks]]
  BY <1>1 DEF NewDelivery
<1>4. WebhooksTypeOK
  <2>1. hookPlan \in HookPlans
    BY DEF HookPlans
  <2>2. letter \in [Messages -> [sent: BOOLEAN, salt: Salts, ts: HookClocks]]
    BY DEF Unsent, Salts, HookClocks
  <2>3. hookClock \in HookClocks /\ hookFaults \in 0..MaxHookFaults
    BY DEF HookClocks
  <2>4. hookRuns \in [Messages -> Nat] /\ replays \subseteq Messages /\ unchecked \subseteq Messages
    OBVIOUS
  <2> QED BY <1>2, <1>3, <2>1, <2>2, <2>3, <2>4 DEF WebhooksTypeOK
<1>5. MessageKnown /\ ReplayInv
  BY DEF MessageKnown, Underway, ReplayInv, NewDelivery
<1> QED BY <1>4, <1>5 DEF HookTypes

LEMMA EndedDeliveryType ==
    /\ EndedDelivery \in [pc: {"new", "check", "record", "create", "end"},
                          message: Messages \cup {NoMessage}, hook: Hooks]
    /\ EndedDelivery.pc = "end"
<1>1. NoHook \in Hooks
  BY WebhooksAssumption DEF NoHook, Hooks, Salts
<1> QED BY <1>1 DEF EndedDelivery, NewDelivery

LEMMA HooksType == HookTypes /\ [WebhooksNext]_webhookVars => HookTypes'
<1> SUFFICES ASSUME HookTypes, [WebhooksNext]_webhookVars PROVE HookTypes'
  OBVIOUS
<1> USE WebhooksAssumption DEF HookTypes, WebhooksTypeOK, MessageKnown, Underway
<1>1. CASE RotateWebhookSalt \/ UpdateWebhookConfig \/ ChangeHookPlan \/ PassHookTime
           \/ \E hmac \in BOOLEAN, window \in Windows : CheckWebhookConfig(hmac, window)
  <2>1. NoSettings \in [pc: {"none", "update"}, hmac: BOOLEAN, window: Windows]
    BY DEF NoSettings, NoHook
  <2>2. CASE RotateWebhookSalt
    BY <2>2 DEF RotateWebhookSalt, Hooks, Salts
  <2>3. CASE UpdateWebhookConfig
    BY <2>1, <2>3 DEF UpdateWebhookConfig, Hooks
  <2>4. CASE ChangeHookPlan \/ PassHookTime
    BY <2>4 DEF ChangeHookPlan, PassHookTime, HookClocks
  <2>5. CASE \E hmac \in BOOLEAN, window \in Windows : CheckWebhookConfig(hmac, window)
    BY <2>5 DEF CheckWebhookConfig
  <2> QED BY <1>1, <2>2, <2>3, <2>4, <2>5
<1>2. ASSUME NEW m \in Messages, NEW ts \in HookClocks, SignMessage(m, ts)
      PROVE  HookTypes'
  BY <1>2 DEF SignMessage, Hooks
<1>3. ASSUME NEW d \in Deliveries, NEW m \in Messages, LoadHook(d, m)
      PROVE  HookTypes'
  BY <1>3, EndedDeliveryType DEF LoadHook
<1>4. ASSUME NEW d \in Deliveries, CheckSignature(d) PROVE HookTypes'
  BY <1>4, EndedDeliveryType DEF CheckSignature
<1>5. ASSUME NEW d \in Deliveries, RecordSignature(d) PROVE HookTypes'
  BY <1>5, EndedDeliveryType DEF RecordSignature
<1>6. ASSUME NEW d \in Deliveries, RecordFails(d) PROVE HookTypes'
  BY <1>6 DEF RecordFails
<1>7. ASSUME NEW d \in Deliveries, CreateHookRun(d) PROVE HookTypes'
  BY <1>7, EndedDeliveryType DEF CreateHookRun
<1>8. ASSUME NEW d \in Deliveries, EndWithoutRun(d) PROVE HookTypes'
  BY <1>8, EndedDeliveryType DEF EndWithoutRun
<1>9. CASE UNCHANGED webhookVars
  BY <1>9 DEF webhookVars
<1> QED BY <1>1, <1>2, <1>3, <1>4, <1>5, <1>6, <1>7, <1>8, <1>9 DEF WebhooksNext

LEMMA ReplayStep == HookTypes /\ ReplayInv /\ [WebhooksNext]_webhookVars => ReplayInv'
<1> SUFFICES ASSUME HookTypes, ReplayInv, [WebhooksNext]_webhookVars PROVE ReplayInv'
  OBVIOUS
<1> USE DEF HookTypes, WebhooksTypeOK, MessageKnown, Underway
<1>1. CASE UNCHANGED <<delivery, replays, hookRuns, unchecked>>
  BY <1>1 DEF ReplayInv
<1>2. ASSUME NEW d \in Deliveries, NEW m \in Messages, LoadHook(d, m)
      PROVE  ReplayInv'
  BY <1>2, EndedDeliveryType DEF LoadHook, ReplayInv
<1>3. ASSUME NEW d \in Deliveries, CheckSignature(d) PROVE ReplayInv'
  BY <1>3, EndedDeliveryType DEF CheckSignature, ReplayInv
<1>4. ASSUME NEW d \in Deliveries, RecordSignature(d) PROVE ReplayInv'
  BY <1>4, EndedDeliveryType DEF RecordSignature, ReplayInv
<1>5. ASSUME NEW d \in Deliveries, RecordFails(d) PROVE ReplayInv'
  BY <1>5 DEF RecordFails, ReplayInv
<1>6. ASSUME NEW d \in Deliveries, CreateHookRun(d) PROVE ReplayInv'
  BY <1>6, EndedDeliveryType DEF CreateHookRun, ReplayInv
<1>7. ASSUME NEW d \in Deliveries, EndWithoutRun(d) PROVE ReplayInv'
  BY <1>7, EndedDeliveryType DEF EndWithoutRun, ReplayInv
<1>8. CASE \/ RotateWebhookSalt \/ UpdateWebhookConfig \/ ChangeHookPlan \/ PassHookTime
           \/ \E hmac \in BOOLEAN, window \in Windows : CheckWebhookConfig(hmac, window)
           \/ \E m \in Messages, ts \in HookClocks : SignMessage(m, ts)
           \/ UNCHANGED webhookVars
  BY <1>1, <1>8 DEF RotateWebhookSalt, UpdateWebhookConfig, ChangeHookPlan,
       PassHookTime, CheckWebhookConfig, SignMessage, webhookVars
<1> QED BY <1>2, <1>3, <1>4, <1>5, <1>6, <1>7, <1>8 DEF WebhooksNext

\* A message whose signature try_record_webhook_signature could record starts at
\* most one run, however often it is delivered and whatever settings change.
THEOREM MessagesRunOnce == WebhooksSpec => []SignedMessageRunsOnce
<1>1. HookTypes /\ ReplayInv => SignedMessageRunsOnce
  BY DEF HookTypes, WebhooksTypeOK, ReplayInv, SignedMessageRunsOnce
<1> QED BY <1>1, HooksInit, HooksType, ReplayStep, PTL DEF WebhooksSpec

-----------------------------------------------------------------------------
(* Times of a schedule. *)

LEMMA RoundedUp ==
    ASSUME NEW n \in Nat, NEW every \in Nat \ {0}
    PROVE  LET k == (n + every - 1) \div every
           IN  k \in Nat /\ every * k \in Nat /\ n <= every * k /\ every * k < n + every
<1> DEFINE k == (n + every - 1) \div every
           rest == (n + every - 1) % every
<1>1. n + every - 1 = every * k + rest /\ k \in Int /\ rest \in 0..(every - 1)
  OBVIOUS
<1>2. k \in Nat
  OBVIOUS
<1> HIDE DEF k, rest
<1>3. every * k \in Nat
  BY <1>2
<1> QED BY <1>1, <1>2, <1>3 DEF k

\* Neither before the base nor before t, and less than one interval later.
LEMMA FirstNotBeforeBounds ==
    ASSUME NEW base \in Nat, NEW every \in Nat \ {0}, NEW t \in Nat
    PROVE  LET first == FirstNotBefore(base, every, t)
           IN  /\ first \in Nat /\ base <= first /\ t <= first
               /\ first = base \/ first < t + every
<1>1. CASE base >= t
  BY <1>1 DEF FirstNotBefore
<1>2. CASE base < t
  <2> DEFINE n == t - base
             k == (n + every - 1) \div every
  <2>1. n \in Nat
    BY <1>2
  <2>2. every * k \in Nat /\ n <= every * k /\ every * k < n + every
    BY <2>1, RoundedUp
  <2>3. FirstNotBefore(base, every, t) = base + every * k
    BY <1>2 DEF FirstNotBefore
  <2> HIDE DEF k
  <2> QED BY <2>2, <2>3
<1> QED BY <1>1, <1>2

\* A schedule that ran gets a later time or none, and only one without repeat
\* that ran gets none.
LEMMA NextRunIsLater ==
    ASSUME NEW config \in Configs, NEW last \in Nat \cup {NoTime}, NEW t \in Nat
    PROVE  LET next == compute_next_run(config, last, t)
           IN  /\ next \in Nat \cup {NoTime}
               /\ last \in Nat => next = NoTime \/ next > last
               /\ next = NoTime => config.every = 0 /\ last # NoTime
<1> DEFINE next == compute_next_run(config, last, t)
<1>1. config.start \in Nat /\ config.every \in Nat /\ NoTime \notin Nat
  BY ScheduleConfigAssumption
<1>2. CASE last = NoTime
  <2>1. CASE config.every = 0
    BY <1>1, <1>2, <2>1 DEF compute_next_run
  <2>2. CASE config.every # 0
    <3>1. next = FirstNotBefore(config.start, config.every, t)
      BY <1>2, <2>2 DEF compute_next_run
    <3>2. next \in Nat
      BY <3>1, <1>1, <2>2, FirstNotBeforeBounds
    <3> QED BY <1>1, <1>2, <3>2
  <2> QED BY <2>1, <2>2
<1>3. CASE last # NoTime
  <2>1. CASE config.every = 0
    BY <1>1, <1>3, <2>1 DEF compute_next_run
  <2>2. CASE config.every # 0
    <3> DEFINE candidate == last + config.every
               base == IF candidate < config.start THEN config.start ELSE candidate
    <3>1. next = FirstNotBefore(base, config.every, t)
      BY <1>3, <2>2 DEF compute_next_run
    <3>2. base \in Nat /\ base > last
      BY <1>1, <1>3, <2>2
    <3>3. next \in Nat /\ base <= next
      BY <3>1, <3>2, <1>1, <2>2, FirstNotBeforeBounds
    <3> QED BY <1>1, <3>2, <3>3
  <2> QED BY <2>1, <2>2
<1> QED BY <1>2, <1>3

-----------------------------------------------------------------------------
(* Schedules: types. *)

\* What a row with a time to run at says besides its type: it exists and has a
\* schedule trigger; a pass only takes a row that is due.
RowsMakeSense ==
    /\ schedule.exists => schedule.config \in Configs
    /\ schedule.next # NoTime => schedule.exists
    /\ schedule.last # NoTime => schedule.last <= clock
    /\ \A s \in Servers :
         trigger[s].pc # "idle" =>
            /\ trigger[s].row.exists /\ trigger[s].row.config \in Configs
            /\ trigger[s].row.next \in Times /\ trigger[s].row.next <= clock

ScheduleTypes == SchedulesTypeOK /\ RowsMakeSense

TriggerSteps == {"idle", "listed", "found", "created", "skipped"}
SaveSteps == {"open", "edit", "read", "write", "done"}
Triggers == [pc: TriggerSteps, row: ScheduleRows]
SaveRequests == [pc: SaveSteps, version: Nat, config: Configs \cup {NoConfig},
                 row: ScheduleRows, alone: BOOLEAN]

LEMMA ScheduleConstants ==
    /\ NoSchedule \in ScheduleRows
    /\ IdleTrigger \in Triggers /\ IdleTrigger.pc = "idle"
    /\ NewSave \in SaveRequests
    /\ EndedSave \in SaveRequests
    /\ EndedSave.pc = "done"
<1>1. NoSchedule \in ScheduleRows
  BY DEF NoSchedule, ScheduleRows
<1> QED BY <1>1 DEF IdleTrigger, Triggers, TriggerSteps, NewSave,
  EndedSave, SaveRequests, SaveSteps

LEMMA SchedulesInitType == SchedulesInit => ScheduleTypes
<1> SUFFICES ASSUME SchedulesInit PROVE ScheduleTypes
  OBVIOUS
<1> USE ScheduleConstants DEF SchedulesInit
<1>1. SchedulesTypeOK
  <2>1. trigger \in [Servers -> Triggers]
    OBVIOUS
  <2>2. save \in [Saves -> SaveRequests]
    OBVIOUS
  <2>3. clock \in Times /\ fired \in [Times -> Nat] /\ schedFaults \in 0..MaxSchedFaults
    BY ScheduleBoundsAssumption DEF Times
  <2> QED BY <2>1, <2>2, <2>3 DEF SchedulesTypeOK, Triggers, TriggerSteps,
       SaveRequests, SaveSteps
<1>2. RowsMakeSense
  BY DEF RowsMakeSense, NoSchedule
<1> QED BY <1>1, <1>2 DEF ScheduleTypes

\* What a save and a pass leave in workflow_schedules is a row.
LEMMA SyncedRowType ==
    ASSUME ScheduleTypes, NEW v \in Saves
    PROVE  /\ SyncedRow(v) \in ScheduleRows
           /\ SyncedRow(v).last = schedule.last
           /\ SyncedRow(v).exists => SyncedRow(v).config \in Configs
           /\ SyncedRow(v).next # NoTime => SyncedRow(v).exists
<1> DEFINE config == save[v].config
           next == IF config = NoConfig THEN NoTime
                   ELSE compute_next_run(config, save[v].row.last, clock)
<1>1. /\ schedule \in ScheduleRows /\ config \in Configs \cup {NoConfig}
      /\ save[v].row.last \in Nat \cup {NoTime} /\ clock \in Nat
      /\ schedule.exists => schedule.config \in Configs
  BY ScheduleBoundsAssumption DEF ScheduleTypes, SchedulesTypeOK, ScheduleRows, Times,
  RowsMakeSense
<1>2. next \in Nat \cup {NoTime}
  BY <1>1, NextRunIsLater
<1>3. SyncedRow(v) = IF next = NoTime THEN Disabled(schedule)
                     ELSE [exists |-> TRUE, config |-> config, next |-> next,
                           last |-> schedule.last, enabled |-> TRUE]
  BY DEF SyncedRow
<1>4. next # NoTime => config \in Configs
  BY <1>1
<1> HIDE DEF next
<1>5. CASE next = NoTime
  <2>1. SyncedRow(v) = [exists |-> schedule.exists, config |-> schedule.config,
                        next |-> NoTime, last |-> schedule.last, enabled |-> FALSE]
    BY <1>1, <1>3, <1>5 DEF Disabled, ScheduleRows
  <2> QED BY <1>1, <2>1 DEF ScheduleRows
<1>6. CASE next # NoTime
  <2>1. SyncedRow(v) = [exists |-> TRUE, config |-> config, next |-> next,
                        last |-> schedule.last, enabled |-> TRUE]
    BY <1>3, <1>6
  <2> QED BY <1>1, <1>2, <1>4, <1>6, <2>1 DEF ScheduleRows
<1> QED BY <1>5, <1>6

LEMMA MarkedRowType ==
    ASSUME ScheduleTypes, NEW s \in Servers, trigger[s].pc # "idle"
    PROVE  LET next == compute_next_run(trigger[s].row.config, trigger[s].row.next, clock)
           IN  /\ next \in Nat \cup {NoTime}
               /\ next = NoTime \/ next > trigger[s].row.next
               /\ next = NoTime => trigger[s].row.config.every = 0
               /\ MarkedRow(s) \in ScheduleRows
               /\ MarkedRow(s) =
                    IF schedule.exists
                    THEN [exists |-> TRUE, config |-> schedule.config, next |-> next,
                          last |-> clock, enabled |-> next # NoTime]
                    ELSE schedule
<1> DEFINE next == compute_next_run(trigger[s].row.config, trigger[s].row.next, clock)
<1>1. /\ schedule \in ScheduleRows /\ clock \in Times /\ clock \in Nat
      /\ trigger[s].row.config \in Configs /\ trigger[s].row.next \in Nat
  BY DEF ScheduleTypes, SchedulesTypeOK, RowsMakeSense, Times
<1>2. /\ next \in Nat \cup {NoTime}
      /\ next = NoTime \/ next > trigger[s].row.next
      /\ next = NoTime => trigger[s].row.config.every = 0
  BY <1>1, NextRunIsLater
<1>3. MarkedRow(s) = IF schedule.exists
                     THEN [schedule EXCEPT !.last = clock, !.next = next,
                                           !.enabled = next # NoTime]
                     ELSE schedule
  BY DEF MarkedRow
<1> HIDE DEF next
<1>4. /\ MarkedRow(s) =
           IF schedule.exists
           THEN [exists |-> TRUE, config |-> schedule.config, next |-> next,
                 last |-> clock, enabled |-> next # NoTime]
           ELSE schedule
  BY <1>1, <1>2, <1>3 DEF ScheduleRows
<1>5. MarkedRow(s) \in ScheduleRows
  BY <1>1, <1>2, <1>4 DEF ScheduleRows
<1> QED BY <1>2, <1>4, <1>5 DEF next

LEMMA ScheduleTypesStep ==
    ScheduleTypes /\ [SchedulesNext]_scheduleVars => ScheduleTypes'
<1> SUFFICES ASSUME ScheduleTypes, [SchedulesNext]_scheduleVars PROVE ScheduleTypes'
  OBVIOUS
<1> DEFINE WorkflowRows == [exists: BOOLEAN, config: Configs \cup {NoConfig}, version: Nat]
<1>0. /\ clock \in Times /\ workflow \in WorkflowRows /\ schedule \in ScheduleRows
      /\ trigger \in [Servers -> Triggers] /\ save \in [Saves -> SaveRequests]
      /\ fired \in [Times -> Nat] /\ cut \subseteq Times
      /\ stale \in BOOLEAN /\ synced \in BOOLEAN /\ schedFaults \in 0..MaxSchedFaults
      /\ RowsMakeSense
  BY DEF ScheduleTypes, SchedulesTypeOK, Triggers, TriggerSteps, SaveRequests, SaveSteps
<1>1. ASSUME clock' \in Times, workflow' \in WorkflowRows, schedule' \in ScheduleRows,
             trigger' \in [Servers -> Triggers], save' \in [Saves -> SaveRequests],
             fired' \in [Times -> Nat], cut' \subseteq Times, stale' \in BOOLEAN,
             synced' \in BOOLEAN, schedFaults' \in 0..MaxSchedFaults, RowsMakeSense'
      PROVE  ScheduleTypes'
  BY <1>1 DEF ScheduleTypes, SchedulesTypeOK, Triggers, TriggerSteps, SaveRequests, SaveSteps
<1>2. ASSUME NEW v \in Saves, SaveStep(v) \/ FailSync(v) PROVE ScheduleTypes'
  <2>0. UNCHANGED <<clock, schedule, trigger>> => RowsMakeSense'
    BY <1>0 DEF RowsMakeSense
  <2>1. CASE OpenWorkflow(v)
    <3>1. save' \in [Saves -> SaveRequests]
      BY ZenonT(60), <1>0, <2>1 DEF OpenWorkflow, SaveRequests, SaveSteps
    <3> QED BY <1>0, <1>1, <2>0, <2>1, <3>1 DEF OpenWorkflow
  <2>2. CASE UpdateWorkflow(v)
    <3>1. PICK config \in Configs \cup {NoConfig}, locked \in BOOLEAN :
            /\ workflow' = [exists |-> TRUE, config |-> config,
                            version |-> workflow.version + 1]
            /\ save' = [Joined(v) EXCEPT ![v] =
                          IF locked THEN EndedSave
                          ELSE [NewSave EXCEPT !.pc = "read", !.config = config,
                                  !.alone = \A w \in Saves : save[w].pc \notin {"read", "write"}]]
      BY <2>2 DEF UpdateWorkflow
    <3>2. Joined(v) \in [Saves -> SaveRequests]
      BY <1>0 DEF Joined, SaveRequests
    <3>3. \A b \in BOOLEAN :
            [NewSave EXCEPT !.pc = "read", !.config = config, !.alone = b] \in SaveRequests
      BY ScheduleConstants DEF SaveRequests, SaveSteps
    <3>4. save' \in [Saves -> SaveRequests]
      BY <3>1, <3>2, <3>3, ScheduleConstants
    <3>5. workflow' \in WorkflowRows
      BY <1>0, <3>1
    <3> QED BY <1>0, <1>1, <2>0, <2>2, <3>4, <3>5 DEF UpdateWorkflow
  <2>3. CASE RefuseUpdate(v)
    <3>1. save' \in [Saves -> SaveRequests]
      BY <1>0, <2>3, ScheduleConstants DEF RefuseUpdate
    <3> QED BY <1>0, <1>1, <2>0, <2>3, <3>1 DEF RefuseUpdate
  <2>4. CASE ReadSchedule(v)
    <3>1. save' \in [Saves -> SaveRequests]
      BY ZenonT(60), <1>0, <2>4 DEF ReadSchedule, SaveRequests, SaveSteps
    <3> QED BY <1>0, <1>1, <2>0, <2>4, <3>1 DEF ReadSchedule
  <2>5. CASE WriteSchedule(v)
    <3>1. /\ schedule' \in ScheduleRows /\ schedule'.last = schedule.last
          /\ schedule'.exists => schedule'.config \in Configs
          /\ schedule'.next # NoTime => schedule'.exists
      BY <1>0, <2>5, SyncedRowType DEF WriteSchedule, RowsMakeSense
    <3>2. save' \in [Saves -> SaveRequests]
      BY <1>0, <2>5, ScheduleConstants DEF WriteSchedule
    <3>3. stale' \in BOOLEAN /\ synced' \in BOOLEAN
      BY <2>5 DEF WriteSchedule, TriggerInFlight
    <3>4. RowsMakeSense'
      BY <1>0, <2>5, <3>1 DEF WriteSchedule, RowsMakeSense
    <3> QED BY <1>0, <1>1, <2>5, <3>1, <3>2, <3>3, <3>4 DEF WriteSchedule
  <2>6. CASE FailSync(v)
    <3>1. save' \in [Saves -> SaveRequests] /\ schedFaults' \in 0..MaxSchedFaults
      BY <1>0, <2>6, ScheduleConstants, ScheduleBoundsAssumption DEF FailSync
    <3> QED BY <1>0, <1>1, <2>0, <2>6, <3>1 DEF FailSync
  <2> QED BY <1>2, <2>1, <2>2, <2>3, <2>4, <2>5, <2>6 DEF SaveStep
<1>3. CASE DeleteWorkflow
  <2>1. workflow' \in WorkflowRows
    BY <1>0, <1>3 DEF DeleteWorkflow
  <2>2. RowsMakeSense'
    BY <1>0, <1>3 DEF DeleteWorkflow, RowsMakeSense, NoSchedule
  <2> QED BY <1>0, <1>1, <1>3, <2>1, <2>2, ScheduleConstants DEF DeleteWorkflow
<1>4. ASSUME NEW s \in Servers, TriggerStep(s) \/ AbortTrigger(s) PROVE ScheduleTypes'
  \* A step that only moves the pass on, or ends it.
  <2>0. ASSUME UNCHANGED <<clock, schedule>>, trigger' \in [Servers -> Triggers],
               \/ trigger'[s].pc = "idle"
               \/ trigger[s].pc # "idle" /\ trigger'[s].row = trigger[s].row,
               \A u \in Servers \ {s} : trigger'[u] = trigger[u]
        PROVE  RowsMakeSense'
    BY <1>0, <2>0 DEF RowsMakeSense
  <2>1. CASE ListDueSchedules(s)
    <3>1. /\ schedule.next \in Times /\ schedule.next <= clock
          /\ schedule.exists /\ schedule.config \in Configs
      BY <1>0, <2>1, ScheduleBoundsAssumption
      DEF ListDueSchedules, IsDue, ScheduleRows, Times, RowsMakeSense
    <3>2. trigger' \in [Servers -> Triggers]
      BY <1>0, <2>1 DEF ListDueSchedules, Triggers, TriggerSteps
    <3>3. RowsMakeSense'
      BY <1>0, <2>1, <3>1 DEF ListDueSchedules, RowsMakeSense
    <3> QED BY <1>0, <1>1, <2>1, <3>2, <3>3 DEF ListDueSchedules
  <2>2. CASE FindWorkflow(s)
    <3>1. trigger' \in [Servers -> Triggers]
      BY <1>0, <2>2, ScheduleConstants DEF FindWorkflow, Triggers, TriggerSteps
    <3>2. CASE workflow.exists
      <4>1. RowsMakeSense'
        BY <1>0, <2>0, <2>2, <3>1, <3>2 DEF FindWorkflow, Triggers
      <4> QED BY <1>0, <1>1, <2>2, <3>1, <3>2, <4>1 DEF FindWorkflow
    <3>3. CASE ~workflow.exists
      <4>1. /\ schedule' \in ScheduleRows
            /\ schedule'.next = NoTime /\ schedule'.last = schedule.last
            /\ schedule'.exists = schedule.exists /\ schedule'.config = schedule.config
        BY ZenonT(60), <1>0, <2>2, <3>3 DEF FindWorkflow, Disabled, ScheduleRows
      <4>2. \A u \in Servers : trigger'[u].pc # "idle" => trigger'[u] = trigger[u]
        BY <1>0, <2>2, <3>3, ScheduleConstants DEF FindWorkflow
      <4>3. RowsMakeSense'
        BY <1>0, <2>2, <4>1, <4>2 DEF FindWorkflow, RowsMakeSense
      <4> QED BY <1>0, <1>1, <2>2, <3>1, <4>1, <4>3 DEF FindWorkflow
    <3> QED BY <3>2, <3>3
  <2>3. CASE CreateScheduledRun(s)
    <3>1. trigger' \in [Servers -> Triggers]
      BY <1>0, <2>3, ScheduleConstants DEF CreateScheduledRun, Triggers, TriggerSteps
    <3>2. RowsMakeSense'
      <4>1. /\ \/ trigger'[s].pc = "idle"
               \/ trigger[s].pc # "idle" /\ trigger'[s].row = trigger[s].row
            /\ \A u \in Servers \ {s} : trigger'[u] = trigger[u]
        BY <1>0, <2>3, ScheduleConstants DEF CreateScheduledRun, Triggers
      <4> QED BY <2>0, <2>3, <3>1, <4>1 DEF CreateScheduledRun
    <3>3. fired' \in [Times -> Nat] /\ stale' \in BOOLEAN
      BY <1>0, <2>3 DEF CreateScheduledRun
    <3> QED BY <1>0, <1>1, <2>3, <3>1, <3>2, <3>3 DEF CreateScheduledRun
  <2>4. CASE SkipScheduledRun(s)
    <3>1. trigger' \in [Servers -> Triggers]
      BY <1>0, <2>4 DEF SkipScheduledRun, Triggers, TriggerSteps
    <3>2. RowsMakeSense'
      BY <1>0, <2>0, <2>4, <3>1 DEF SkipScheduledRun, Triggers
    <3> QED BY <1>0, <1>1, <2>4, <3>1, <3>2 DEF SkipScheduledRun
  <2>5. CASE MarkScheduleRun(s)
    <3>1. trigger' \in [Servers -> Triggers]
      BY <1>0, <2>5, ScheduleConstants DEF MarkScheduleRun
    <3>2. schedule' = MarkedRow(s) /\ trigger[s].pc # "idle"
      BY <2>5 DEF MarkScheduleRun
    <3>3. schedule' \in ScheduleRows
      BY <3>2, MarkedRowType
    <3>4. \/ schedule' = schedule
          \/ /\ schedule.exists /\ schedule'.exists
             /\ schedule'.config = schedule.config /\ schedule'.last = clock
      BY <3>2, MarkedRowType
    <3>5. \A u \in Servers : trigger'[u].pc # "idle" => trigger'[u] = trigger[u]
      BY <1>0, <2>5, ScheduleConstants DEF MarkScheduleRun
    <3>6. stale' \in BOOLEAN
      BY <2>5 DEF MarkScheduleRun
    <3>7. RowsMakeSense'
      BY <1>0, <2>5, <3>4, <3>5, ScheduleConfigAssumption
      DEF MarkScheduleRun, RowsMakeSense, Times
    <3> QED BY <1>0, <1>1, <2>5, <3>1, <3>3, <3>6, <3>7 DEF MarkScheduleRun
  <2>6. CASE AbortTrigger(s)
    <3>1. trigger' \in [Servers -> Triggers]
      BY <1>0, <2>6, ScheduleConstants DEF AbortTrigger
    <3>2. RowsMakeSense'
      <4>1. /\ trigger'[s].pc = "idle"
            /\ \A u \in Servers \ {s} : trigger'[u] = trigger[u]
        BY <1>0, <2>6, ScheduleConstants DEF AbortTrigger
      <4> QED BY <2>0, <2>6, <3>1, <4>1 DEF AbortTrigger
    <3>3. cut' \subseteq Times /\ schedFaults' \in 0..MaxSchedFaults
      BY <1>0, <2>6, ScheduleBoundsAssumption DEF AbortTrigger, RowsMakeSense
    <3> QED BY <1>0, <1>1, <2>6, <3>1, <3>2, <3>3 DEF AbortTrigger
  <2> QED BY <1>4, <2>1, <2>2, <2>3, <2>4, <2>5, <2>6 DEF TriggerStep
<1>5. CASE TickClock
  <2>1. clock' \in Times /\ clock <= clock' /\ clock \in Nat /\ clock' \in Nat
    BY <1>0, <1>5, ScheduleBoundsAssumption DEF TickClock, Times
  <2>2. RowsMakeSense'
    BY <1>0, <1>5, <2>1, ScheduleBoundsAssumption
    DEF TickClock, RowsMakeSense, Times, ScheduleRows
  <2> QED BY <1>0, <1>1, <1>5, <2>1, <2>2 DEF TickClock
<1>6. CASE UNCHANGED scheduleVars
  BY <1>0, <1>1, <1>6 DEF scheduleVars, RowsMakeSense
<1> QED BY <1>2, <1>3, <1>4, <1>5, <1>6 DEF SchedulesNext

-----------------------------------------------------------------------------
(* Schedules: one run per time. *)

\* The workflow was deleted: update_workflow does not bring it back.
WorkflowGone == ~workflow.exists /\ workflow.version > 0

\* The row has left time t behind: its next time is later, and so is every time
\* computed from its last run.
LeftBehind(t) ==
    /\ schedule.last # NoTime /\ schedule.last >= t
    /\ schedule.next = NoTime \/ schedule.next > t

(***************************************************************************)
(* As long as nobody wrote over what he had not seen, a time that got its  *)
(* run got one, and it will not come again: either the trigger that        *)
(* created the run has still to mark the row, or the row has left the time *)
(* behind, or the row is gone.  The time of a trigger that was cut off is  *)
(* the exception.                                                          *)
(***************************************************************************)
OnceInv ==
    /\ workflow.exists => workflow.version > 0
    /\ ~stale =>
         \A t \in Times \ cut : fired[t] > 0 =>
            /\ fired[t] = 1
            /\ \/ \E s \in Servers : trigger[s].pc = "created" /\ trigger[s].row.next = t
               \/ WorkflowGone
               \/ LeftBehind(t)

LEMMA OnceInit == SchedulesInit => OnceInv
BY DEF SchedulesInit, OnceInv

LEMMA OnceStep == ScheduleTypes /\ OnceInv /\ [SchedulesNext]_scheduleVars => OnceInv'
<1> SUFFICES ASSUME ScheduleTypes, OnceInv, [SchedulesNext]_scheduleVars PROVE OnceInv'
  OBVIOUS
<1>0. /\ clock \in Nat /\ clock \in Times /\ schedule \in ScheduleRows
      /\ trigger \in [Servers -> Triggers]
      /\ fired \in [Times -> Nat] /\ workflow.version \in Nat
      /\ stale \in BOOLEAN /\ NoTime \notin Nat
  BY ScheduleBoundsAssumption, ScheduleConfigAssumption
  DEF ScheduleTypes, SchedulesTypeOK, Triggers, TriggerSteps, Times
\* It is enough that what held of a time still holds, where no run is created.
<1>1. ASSUME stale' \/ ~stale, workflow'.exists => workflow'.version > 0,
             ~stale' => /\ fired' = fired /\ cut \subseteq cut'
                        /\ \A t \in Times \ cut' :
                             \/ \E s \in Servers : /\ trigger[s].pc = "created"
                                                   /\ trigger[s].row.next = t
                             \/ WorkflowGone
                             \/ LeftBehind(t)
                             => \/ \E s \in Servers : /\ trigger'[s].pc = "created"
                                                      /\ trigger'[s].row.next = t
                                \/ WorkflowGone'
                                \/ LeftBehind(t)'
      PROVE  OnceInv'
  BY <1>1 DEF OnceInv
<1>2. ASSUME NEW v \in Saves, SaveStep(v) \/ FailSync(v) PROVE OnceInv'
  <2>1. CASE OpenWorkflow(v) \/ RefuseUpdate(v) \/ ReadSchedule(v) \/ FailSync(v)
    BY <1>1, <2>1 DEF OpenWorkflow, RefuseUpdate, ReadSchedule, FailSync, OnceInv,
         WorkflowGone, LeftBehind
  <2>2. CASE UpdateWorkflow(v)
    <3>1. workflow'.exists /\ workflow'.version > 0 /\ ~WorkflowGone
      BY <1>0, <2>2 DEF UpdateWorkflow, WorkflowGone
    <3> QED BY <1>1, <2>2, <3>1 DEF UpdateWorkflow, LeftBehind
  <2>3. CASE WriteSchedule(v)
    <3>1. workflow' = workflow /\ stale' = (stale \/ schedule # save[v].row \/ TriggerInFlight)
      BY <2>3 DEF WriteSchedule
    <3>2. ASSUME NEW t \in Times, LeftBehind(t), schedule = save[v].row
          PROVE  LeftBehind(t)'
      <4>1. CASE ~workflow.exists
        BY <2>3, <3>2, <4>1 DEF WriteSchedule, LeftBehind
      <4>2. CASE workflow.exists
        <5> DEFINE config == save[v].config
                   next == IF config = NoConfig THEN NoTime
                           ELSE compute_next_run(config, schedule.last, clock)
        <5>1. config \in Configs \cup {NoConfig} /\ schedule.last \in Nat /\ t \in Nat
          BY <1>0, <3>2 DEF ScheduleTypes, SchedulesTypeOK, ScheduleRows, Times, LeftBehind
        <5>2. next \in Nat \cup {NoTime} /\ (next = NoTime \/ next > schedule.last)
          <6>1. CASE config = NoConfig
            BY <6>1
          <6>2. CASE config # NoConfig
            BY <1>0, <5>1, <6>2, NextRunIsLater
          <6> QED BY <6>1, <6>2
        <5>3. schedule' = IF next = NoTime THEN Disabled(schedule)
                          ELSE [exists |-> TRUE, config |-> config, next |-> next,
                                last |-> schedule.last, enabled |-> TRUE]
          BY <2>3, <3>2, <4>2 DEF WriteSchedule, SyncedRow
        <5> HIDE DEF next
        <5>4. schedule'.last = schedule.last /\ schedule'.next = next
          BY <1>0, <5>3 DEF Disabled, ScheduleRows
        <5> QED BY <3>2, <5>1, <5>2, <5>4 DEF LeftBehind
      <4> QED BY <4>1, <4>2
    <3>3. ~TriggerInFlight => \A s \in Servers : trigger[s].pc # "created"
      BY DEF TriggerInFlight
    <3> QED BY <1>1, <2>3, <3>1, <3>2, <3>3 DEF WriteSchedule, OnceInv, WorkflowGone
  <2> QED BY <1>2, <2>1, <2>2, <2>3 DEF SaveStep
<1>3. CASE DeleteWorkflow
  BY <1>0, <1>1, <1>3 DEF DeleteWorkflow, OnceInv, WorkflowGone, ScheduleTypes, SchedulesTypeOK
<1>4. ASSUME NEW s \in Servers, TriggerStep(s) \/ AbortTrigger(s) PROVE OnceInv'
  <2>1. CASE ListDueSchedules(s) \/ SkipScheduledRun(s)
    BY <1>0, <1>1, <2>1 DEF ListDueSchedules, SkipScheduledRun, OnceInv,
         WorkflowGone, LeftBehind
  <2>2. CASE FindWorkflow(s)
    <3>1. \A u \in Servers : trigger[u].pc = "created" => trigger'[u] = trigger[u]
      BY <1>0, <2>2 DEF FindWorkflow
    <3>2. \A t : LeftBehind(t) => LeftBehind(t)'
      BY <1>0, <2>2 DEF FindWorkflow, LeftBehind, Disabled, ScheduleRows
    <3> QED BY <1>1, <2>2, <3>1, <3>2 DEF FindWorkflow, OnceInv, WorkflowGone
  <2>3. CASE CreateScheduledRun(s)
    <3>1. CASE ~workflow.exists
      BY <1>0, <1>1, <2>3, <3>1 DEF CreateScheduledRun, OnceInv, WorkflowGone, LeftBehind,
           IdleTrigger
    <3>2. CASE workflow.exists
      <4> DEFINE next == trigger[s].row.next
      <4>1. /\ trigger'[s].pc = "created" /\ trigger'[s].row = trigger[s].row
            /\ \A u \in Servers \ {s} : trigger'[u] = trigger[u]
            /\ fired' = [fired EXCEPT ![next] = @ + 1]
            /\ trigger[s].pc = "found" /\ UNCHANGED <<workflow, schedule, cut>>
        BY <1>0, <2>3, <3>2 DEF CreateScheduledRun, Triggers
      <4>2. ~stale' => /\ ~stale /\ schedule = trigger[s].row
                       /\ \A u \in Servers \ {s} : trigger[u].pc = "idle"
        BY <2>3, <3>2 DEF CreateScheduledRun
      <4>3. next \in Times /\ next \in Nat /\ next # NoTime
        BY <1>0, <4>1 DEF ScheduleTypes, RowsMakeSense, Times
      <4>4. ASSUME ~stale', NEW t \in Times \ cut, fired'[t] > 0
            PROVE  /\ fired'[t] = 1
                   /\ \/ \E u \in Servers : trigger'[u].pc = "created" /\ trigger'[u].row.next = t
                      \/ WorkflowGone'
                      \/ LeftBehind(t)'
        <5>1. CASE t = next
          <6>1. ~(fired[t] > 0)
            BY <3>2, <4>1, <4>2, <4>3, <4>4, <5>1 DEF OnceInv, WorkflowGone, LeftBehind, Times
          <6>2. fired[t] = 0 /\ fired'[t] = fired[t] + 1
            BY <1>0, <4>1, <4>3, <4>4, <5>1, <6>1
          <6> QED BY <4>1, <5>1, <6>2
        <5>2. CASE t # next
          <6>1. fired'[t] = fired[t]
            BY <1>0, <4>1, <5>2
          <6> QED BY <4>1, <4>2, <4>4, <6>1 DEF OnceInv, WorkflowGone, LeftBehind
        <5> QED BY <5>1, <5>2
      <4> QED BY <4>1, <4>4 DEF OnceInv
    <3> QED BY <3>1, <3>2
  <2>4. CASE MarkScheduleRun(s)
    <3>1. /\ workflow' = workflow /\ stale' = (stale \/ schedule # trigger[s].row)
          /\ schedule' = MarkedRow(s) /\ trigger[s].pc # "idle"
          /\ UNCHANGED <<fired, cut>>
          /\ \A u \in Servers \ {s} : trigger'[u] = trigger[u]
      BY <2>4 DEF MarkScheduleRun
    <3> DEFINE next == compute_next_run(trigger[s].row.config, trigger[s].row.next, clock)
    <3>2. /\ next \in Nat \cup {NoTime}
          /\ next = NoTime \/ next > trigger[s].row.next
          /\ schedule' = IF schedule.exists
                         THEN [exists |-> TRUE, config |-> schedule.config, next |-> next,
                               last |-> clock, enabled |-> next # NoTime]
                         ELSE schedule
      BY <3>1, MarkedRowType
    <3> HIDE DEF next
    <3>3. /\ trigger[s].row.exists /\ trigger[s].row.next \in Nat
          /\ trigger[s].row.next <= clock
      BY <3>1 DEF ScheduleTypes, RowsMakeSense, Times
    <3>4. ASSUME schedule = trigger[s].row, NEW t \in Times, t <= trigger[s].row.next
          PROVE  LeftBehind(t)'
      <4>1. schedule'.last = clock /\ schedule'.next = next /\ t \in Nat
        BY <3>2, <3>3, <3>4 DEF Times
      <4> QED BY <1>0, <3>2, <3>3, <3>4, <4>1 DEF LeftBehind
    <3>5. ASSUME schedule = trigger[s].row, NEW t \in Times, LeftBehind(t)
          PROVE  LeftBehind(t)'
      <4>1. t <= trigger[s].row.next
        BY <1>0, <3>3, <3>5 DEF LeftBehind, Times
      <4> QED BY <3>4, <3>5, <4>1
    <3>6. ASSUME ~stale', NEW t \in Times,
                 \E u \in Servers : trigger[u].pc = "created" /\ trigger[u].row.next = t
          PROVE  \/ \E u \in Servers : trigger'[u].pc = "created" /\ trigger'[u].row.next = t
                 \/ LeftBehind(t)'
      <4>1. PICK u \in Servers : trigger[u].pc = "created" /\ trigger[u].row.next = t
        BY <3>6
      <4>2. CASE u = s
        <5>1. t <= trigger[s].row.next
          BY <3>3, <4>1, <4>2
        <5> QED BY <3>1, <3>4, <3>6, <5>1
      <4>3. CASE u # s
        BY <3>1, <4>1, <4>3
      <4> QED BY <4>2, <4>3
    <3>7. WorkflowGone => WorkflowGone'
      BY <3>1 DEF WorkflowGone
    <3>8. (stale' \/ ~stale) /\ (workflow'.exists => workflow'.version > 0)
      BY <1>0, <3>1 DEF OnceInv
    <3>9. ~stale' => schedule = trigger[s].row
      BY <3>1
    <3> QED BY <1>1, <3>1, <3>5, <3>6, <3>7, <3>8, <3>9
  <2>5. CASE AbortTrigger(s)
    <3>1. \A u \in Servers \ {s} : trigger'[u] = trigger[u]
      BY <2>5 DEF AbortTrigger
    <3>2. trigger[s].pc = "created" => trigger[s].row.next \in cut'
      BY <2>5 DEF AbortTrigger
    <3> QED BY <1>1, <2>5, <3>1, <3>2 DEF AbortTrigger, OnceInv, WorkflowGone, LeftBehind
  <2> QED BY <1>4, <2>1, <2>2, <2>3, <2>4, <2>5 DEF TriggerStep
<1>5. CASE TickClock \/ UNCHANGED scheduleVars
  BY <1>1, <1>5 DEF TickClock, scheduleVars, OnceInv, WorkflowGone, LeftBehind
<1> QED BY <1>2, <1>3, <1>4, <1>5 DEF SchedulesNext

\* A scheduled time gets a second run only if its trigger was cut off before
\* mark_schedule_run, or two parties had the row in hand at once: in particular
\* no save and no change of the trigger makes a time that has run come again.
THEOREM TimesRunOnce == SchedulesSpec => []OneRunPerTime
<1>1. ScheduleTypes /\ OnceInv => OneRunPerTime
  BY DEF ScheduleTypes, SchedulesTypeOK, OnceInv, OneRunPerTime
<1> QED BY <1>1, SchedulesInitType, ScheduleTypesStep, OnceInit, OnceStep, PTL
     DEF SchedulesSpec

-----------------------------------------------------------------------------
(* Schedules: the row follows the workflow. *)

\* The request has updated the workflow and not synced its schedule yet.
Syncing(v) == save[v].pc \in {"read", "write"}

(***************************************************************************)
(* A save that is still alone is the only one to sync, with the trigger    *)
(* the workflow has; after its sync nobody syncs until the next update,    *)
(* and a pass that takes the row takes the trigger of the workflow and     *)
(* finds that trigger when it marks the row, enabled or not.               *)
(***************************************************************************)
FollowInv ==
    /\ \A v \in Saves : Syncing(v) /\ save[v].alone =>
          /\ save[v].config = workflow.config
          /\ \A w \in Saves : Syncing(w) => w = v
    /\ synced =>
          /\ \A v \in Saves : ~Syncing(v)
          /\ workflow.exists => \A s \in Servers : trigger[s].pc # "idle" =>
                trigger[s].row.config = workflow.config /\ schedule.config = workflow.config
    /\ ScheduleFollowsWorkflow

LEMMA FollowInit == SchedulesInit => FollowInv
BY DEF SchedulesInit, FollowInv, Syncing, NewSave, ScheduleFollowsWorkflow

LEMMA FollowStep == ScheduleTypes /\ FollowInv /\ [SchedulesNext]_scheduleVars => FollowInv'
<1> SUFFICES ASSUME ScheduleTypes, FollowInv, [SchedulesNext]_scheduleVars PROVE FollowInv'
  OBVIOUS
<1>0. /\ clock \in Nat /\ schedule \in ScheduleRows
      /\ trigger \in [Servers -> Triggers] /\ save \in [Saves -> SaveRequests]
      /\ NoTime \notin Nat /\ NoConfig \notin Configs
      /\ \A config \in Configs : config.every \in Nat
  BY ScheduleBoundsAssumption, ScheduleConfigAssumption
  DEF ScheduleTypes, SchedulesTypeOK, Triggers, TriggerSteps, SaveRequests, SaveSteps, Times
\* A step of a save other than an update and the last one of its sync.
<1>1. ASSUME NEW v \in Saves, UNCHANGED <<workflow, schedule, trigger, synced>>,
             \A w \in Saves \ {v} : save'[w] = save[w],
             Syncing(v)' => /\ Syncing(v) /\ save'[v].config = save[v].config
                            /\ save'[v].alone = save[v].alone
      PROVE  FollowInv'
  BY <1>1 DEF FollowInv, Syncing, ScheduleFollowsWorkflow
<1>2. ASSUME NEW v \in Saves, SaveStep(v) \/ FailSync(v) PROVE FollowInv'
  <2>1. CASE OpenWorkflow(v)
    BY <1>0, <1>1, <2>1 DEF OpenWorkflow, Syncing
  <2>2. CASE UpdateWorkflow(v)
    <3> DEFINE alone == \A w \in Saves : save[w].pc \notin {"read", "write"}
    <3>1. PICK config \in Configs \cup {NoConfig}, locked \in BOOLEAN :
            /\ workflow' = [exists |-> TRUE, config |-> config,
                            version |-> workflow.version + 1]
            /\ save' = [Joined(v) EXCEPT ![v] =
                          IF locked THEN EndedSave
                          ELSE [NewSave EXCEPT !.pc = "read", !.config = config,
                                  !.alone = \A w \in Saves : save[w].pc \notin {"read", "write"}]]
      BY <2>2 DEF UpdateWorkflow
    <3>2. /\ ~synced' /\ ~Syncing(v)
      BY <2>2 DEF UpdateWorkflow, Syncing
    <3>3. /\ \A w \in Saves \ {v} :
                 /\ Syncing(w)' <=> Syncing(w)
                 /\ Syncing(w) => ~save'[w].alone
      BY <1>0, <3>1 DEF Joined, Syncing, SaveRequests
    <3>4. Syncing(v)' => save'[v].config = config /\ save'[v].alone = alone
      BY <1>0, <3>1, ScheduleConstants DEF Joined, Syncing, NewSave, EndedSave
    <3>5. alone => \A w \in Saves : ~Syncing(w)
      BY DEF Syncing
    <3> QED BY <3>1, <3>2, <3>3, <3>4, <3>5 DEF FollowInv, ScheduleFollowsWorkflow
  <2>3. CASE RefuseUpdate(v)
    BY <1>0, <1>1, <2>3, ScheduleConstants DEF RefuseUpdate, Syncing
  <2>4. CASE ReadSchedule(v)
    BY <1>0, <1>1, <2>4 DEF ReadSchedule, Syncing
  <2>5. CASE WriteSchedule(v)
    <3>1. /\ workflow' = workflow /\ trigger' = trigger /\ Syncing(v)
          /\ \A w \in Saves \ {v} : save'[w] = save[w]
          /\ ~Syncing(v)' /\ synced' = (workflow.exists /\ save[v].alone /\ ~TriggerInFlight)
      BY <1>0, <2>5, ScheduleConstants DEF WriteSchedule, Syncing
    <3>2. CASE ~synced'
      BY <3>1, <3>2 DEF FollowInv, Syncing, ScheduleFollowsWorkflow
    <3>3. CASE synced'
      <4>1. /\ workflow.exists /\ save[v].config = workflow.config
            /\ \A w \in Saves : ~Syncing(w)'
            /\ \A s \in Servers : trigger[s].pc = "idle"
        BY <3>1, <3>3 DEF FollowInv, Syncing, TriggerInFlight
      <4> DEFINE config == save[v].config
                 next == IF config = NoConfig THEN NoTime
                         ELSE compute_next_run(config, save[v].row.last, clock)
      <4>2. schedule' = IF next = NoTime THEN Disabled(schedule)
                        ELSE [exists |-> TRUE, config |-> config, next |-> next,
                              last |-> schedule.last, enabled |-> TRUE]
        BY <2>5, <4>1 DEF WriteSchedule, SyncedRow
      <4>3. config # NoConfig =>
              config \in Configs /\ (next = NoTime => config.every = 0)
        <5>1. save[v] \in SaveRequests
          BY <1>0
        <5>2. config \in Configs \cup {NoConfig} /\ save[v].row.last \in Nat \cup {NoTime}
          BY <5>1, ScheduleBoundsAssumption DEF SaveRequests, ScheduleRows, Times
        <5> QED BY <1>0, <5>2, NextRunIsLater
      <4>4. config = NoConfig => next = NoTime
        OBVIOUS
      <4> HIDE DEF config, next
      <4>5. /\ next = NoTime => ~schedule'.enabled
            /\ next # NoTime => schedule'.enabled /\ schedule'.config = config
        BY <1>0, <4>2 DEF Disabled, ScheduleRows
      <4>6. ScheduleFollowsWorkflow'
        BY <3>1, <4>1, <4>3, <4>4, <4>5 DEF ScheduleFollowsWorkflow, config
      <4> QED BY <3>1, <4>1, <4>6 DEF FollowInv
    <3> QED BY <3>2, <3>3
  <2>6. CASE FailSync(v)
    BY <1>0, <1>1, <2>6, ScheduleConstants DEF FailSync, Syncing
  <2> QED BY <1>2, <2>1, <2>2, <2>3, <2>4, <2>5, <2>6 DEF SaveStep
<1>3. CASE DeleteWorkflow
  BY <1>3 DEF DeleteWorkflow, FollowInv, Syncing, ScheduleFollowsWorkflow, ScheduleTypes,
       SchedulesTypeOK
\* A step of a pass that leaves the row alone, or only the row of a workflow
\* that is gone.
<1>4. ASSUME NEW s \in Servers, UNCHANGED <<workflow, save, synced>>,
             schedule' = schedule \/ ~workflow.exists,
             \A u \in Servers : trigger'[u].pc # "idle" =>
                trigger[u].pc # "idle" /\ trigger'[u].row = trigger[u].row
      PROVE  FollowInv'
  BY <1>4 DEF FollowInv, Syncing, ScheduleFollowsWorkflow
<1>5. ASSUME NEW s \in Servers, TriggerStep(s) \/ AbortTrigger(s) PROVE FollowInv'
  <2>1. CASE ListDueSchedules(s)
    <3>1. schedule.enabled /\ UNCHANGED <<workflow, schedule, save, synced>>
      BY <2>1 DEF ListDueSchedules, IsDue
    <3>2. /\ trigger'[s].row = schedule
          /\ \A u \in Servers \ {s} : trigger'[u] = trigger[u]
      BY <1>0, <2>1 DEF ListDueSchedules
    <3> QED BY <3>1, <3>2 DEF FollowInv, Syncing, ScheduleFollowsWorkflow
  <2>2. CASE FindWorkflow(s)
    <3>1. \A u \in Servers : trigger'[u].pc # "idle" =>
             trigger[u].pc # "idle" /\ trigger'[u].row = trigger[u].row
      BY <1>0, <2>2, ScheduleConstants DEF FindWorkflow, Triggers
    <3> QED BY <1>4, <2>2, <3>1 DEF FindWorkflow
  <2>3. CASE CreateScheduledRun(s)
    <3>1. \A u \in Servers : trigger'[u].pc # "idle" =>
             trigger[u].pc # "idle" /\ trigger'[u].row = trigger[u].row
      BY <1>0, <2>3, ScheduleConstants DEF CreateScheduledRun, Triggers
    <3> QED BY <1>4, <2>3, <3>1 DEF CreateScheduledRun
  <2>4. CASE SkipScheduledRun(s)
    BY <1>0, <1>4, <2>4 DEF SkipScheduledRun
  <2>5. CASE MarkScheduleRun(s)
    <3> DEFINE next == compute_next_run(trigger[s].row.config, trigger[s].row.next, clock)
    <3>1. /\ UNCHANGED <<workflow, save, synced>> /\ schedule' = MarkedRow(s)
          /\ trigger[s].pc # "idle"
          /\ \A u \in Servers : trigger'[u].pc # "idle" => trigger'[u] = trigger[u]
      BY <1>0, <2>5, ScheduleConstants DEF MarkScheduleRun
    <3>2. /\ next = NoTime => trigger[s].row.config.every = 0
          /\ schedule' = IF schedule.exists
                         THEN [exists |-> TRUE, config |-> schedule.config, next |-> next,
                               last |-> clock, enabled |-> next # NoTime]
                         ELSE schedule
      BY <3>1, MarkedRowType
    <3> HIDE DEF next
    <3>3. trigger[s].row.config \in Configs
      BY <3>1 DEF ScheduleTypes, RowsMakeSense
    <3>4. schedule'.config = schedule.config
      BY <3>2
    <3>5. ASSUME synced, workflow.exists
          PROVE  /\ schedule'.enabled => schedule'.config = workflow.config /\ workflow.config # NoConfig
                 /\ workflow.config # NoConfig /\ workflow.config.every > 0 => schedule'.enabled
      <4>1. /\ trigger[s].row.config = workflow.config /\ schedule.config = workflow.config
            /\ workflow.config # NoConfig
        BY <1>0, <3>1, <3>3, <3>5 DEF FollowInv
      <4>2. CASE schedule.exists
        <5>1. schedule'.enabled <=> next # NoTime
          BY <3>2, <4>2
        <5>2. workflow.config.every > 0 => next # NoTime
          BY <1>0, <3>2, <3>3, <4>1
        <5> QED BY <3>4, <4>1, <5>1, <5>2
      <4>3. CASE ~schedule.exists
        BY <3>2, <3>5, <4>1, <4>3 DEF FollowInv, ScheduleFollowsWorkflow
      <4> QED BY <4>2, <4>3
    <3> QED BY <3>1, <3>4, <3>5 DEF FollowInv, Syncing, ScheduleFollowsWorkflow
  <2>6. CASE AbortTrigger(s)
    BY <1>0, <1>4, <2>6, ScheduleConstants DEF AbortTrigger
  <2> QED BY <1>5, <2>1, <2>2, <2>3, <2>4, <2>5, <2>6 DEF TriggerStep
<1>6. CASE TickClock \/ UNCHANGED scheduleVars
  BY <1>6 DEF TickClock, scheduleVars, FollowInv, Syncing, ScheduleFollowsWorkflow
<1> QED BY <1>2, <1>3, <1>5, <1>6 DEF SchedulesNext

\* After a sync of its own the schedule is that of the workflow until the next
\* save, whatever the passes of all servers do with the row they copied.
THEOREM RowFollowsWorkflow == SchedulesSpec => []ScheduleFollowsWorkflow
<1>1. FollowInv => ScheduleFollowsWorkflow
  BY DEF FollowInv
<1> QED BY <1>1, SchedulesInitType, ScheduleTypesStep, FollowInit, FollowStep, PTL
     DEF SchedulesSpec

-----------------------------------------------------------------------------
(* NotionPoller: the list that Notion returns. *)

\* A set of numbers that is not empty has a least one.
LEMMA LeastOfSet ==
    ASSUME NEW I \in SUBSET Nat, I # {}
    PROVE  Min(I) \in I /\ \A i \in I : Min(I) <= i
<1>1. PICK x \in I : \A y \in I : ~(<<y, x>> \in OpToRel(<, Nat))
  BY NatLessThanWellFounded, WFMin
<1>2. ASSUME NEW y \in I PROVE x <= y
  <2>1. x \in Nat /\ y \in Nat /\ <<y, x>> \in Nat \X Nat
    OBVIOUS
  <2>2. ~(<<y, x>> \in {ss \in Nat \X Nat : ss[1] < ss[2]})
    BY <1>1 DEF OpToRel
  <2>3. ~(y < x)
    BY <2>1, <2>2
  <2> QED BY <2>1, <2>3
<1> QED BY <1>1, <1>2 DEF Min

\* What SelectInSeq returns: 0, or the least of the places it is asked for.
LEMMA LeastPlace ==
    ASSUME NEW n \in Nat, NEW I \in SUBSET (1..n),
           NEW at, at = IF I # {} THEN Min(I) ELSE 0
    PROVE  \/ at = 0 /\ I = {}
           \/ at \in I /\ at \in 1..n /\ \A i \in 1..(at - 1) : i \notin I
<1>1. CASE I = {}
  BY <1>1
<1>2. CASE I # {}
  <2>1. I \in SUBSET Nat
    OBVIOUS
  <2>2. at \in I /\ \A i \in I : at <= i
    BY <1>2, <2>1, LeastOfSet
  <2> QED BY <2>1, <2>2
<1> QED BY <1>1, <1>2

\* What a poll can read is the end of the list, from the cursor on.
LEMMA FromCursorIsSuffix ==
    ASSUME NEW rows \in Seq(Entries), NEW cursor,
           NEW list, list = FromCursor(rows, cursor)
    PROVE  /\ list \in Seq(Entries)
           /\ \E a \in 1..(Len(rows) + 1) :
                /\ Len(list) = Len(rows) - a + 1
                /\ \A i \in 1..Len(list) :
                     list[i] = rows[a + i - 1] /\ a + i - 1 \in 1..Len(rows)
<1>1. Len(rows) \in Nat /\ rows \in [1..Len(rows) -> Entries]
  BY LenProperties
<1> DEFINE I == {i \in 1..Len(rows) : rows[i].row = cursor}
           at == IF I # {} THEN Min(I) ELSE 0
<1>2. list = IF cursor = NoRow \/ at = 0 THEN rows ELSE SubSeq(rows, at, Len(rows))
  BY DEF FromCursor, SelectInSeq
<1> HIDE DEF at, I
<1>3. CASE list = rows
  <2>1. \A i \in 1..Len(list) : list[i] = rows[1 + i - 1] /\ 1 + i - 1 \in 1..Len(rows)
    BY <1>1, <1>3
  <2>2. 1 \in 1..(Len(rows) + 1) /\ Len(list) = Len(rows) - 1 + 1
    BY <1>1, <1>3
  <2> QED BY <1>3, <2>1, <2>2
<1>4. CASE list # rows
  <2>1. at # 0 /\ list = SubSeq(rows, at, Len(rows))
    BY <1>2, <1>4
  <2>2. at \in 1..Len(rows)
    <3>1. I \in SUBSET (1..Len(rows))
      BY DEF I
    <3> QED BY <1>1, <2>1, <3>1, LeastPlace DEF at
  <2>3. \A i \in at..Len(rows) : rows[i] \in Entries
    BY <1>1, <2>2
  <2>4. /\ SubSeq(rows, at, Len(rows)) \in Seq(Entries)
        /\ Len(SubSeq(rows, at, Len(rows))) =
             IF at <= Len(rows) THEN Len(rows) - at + 1 ELSE 0
        /\ \A i \in 1..(Len(rows) - at + 1) :
             SubSeq(rows, at, Len(rows))[i] = rows[at + i - 1]
    <3>1. at \in Int /\ Len(rows) \in Int
      BY <1>1, <2>2
    <3> QED BY <2>3, <3>1, SubSeqProperties
  <2> QED BY <1>1, <2>1, <2>2, <2>4
<1> QED BY <1>3, <1>4

\* The first n of a list.
LEMMA FirstOfList ==
    ASSUME NEW list \in Seq(Entries), NEW n \in 0..Len(list),
           NEW first, first = SubSeq(list, 1, n)
    PROVE  /\ first \in Seq(Entries) /\ Len(first) = n
           /\ \A i \in 1..n : first[i] = list[i]
<1>1. Len(list) \in Nat /\ list \in [1..Len(list) -> Entries]
  BY LenProperties
<1>2. \A i \in 1..n : list[i] \in Entries
  BY <1>1
<1>3. /\ first \in Seq(Entries) /\ Len(first) = IF 1 <= n THEN n - 1 + 1 ELSE 0
      /\ \A i \in 1..(n - 1 + 1) : first[i] = list[1 + i - 1]
  BY <1>1, <1>2, SubSeqProperties
<1> QED BY <1>1, <1>3

LEMMA FetchedIsPrefix ==
    ASSUME NEW rows \in Seq(Entries), NEW cursor,
           NEW list, list = FromCursor(rows, cursor),
           NEW fetched, fetched = Fetched(rows, cursor)
    PROVE  /\ fetched \in Seq(Entries)
           /\ Len(fetched) = IF Len(list) < RowBudget THEN Len(list) ELSE RowBudget
           /\ \A i \in 1..Len(fetched) : fetched[i] = list[i]
<1> DEFINE n == IF Len(list) < RowBudget THEN Len(list) ELSE RowBudget
<1>1. list \in Seq(Entries)
  BY FromCursorIsSuffix
<1>2. Len(list) \in Nat /\ n \in 0..Len(list)
  BY <1>1, LenProperties, NotionAssumption
<1>3. fetched = SubSeq(list, 1, n)
  BY DEF Fetched
<1> QED BY <1>1, <1>2, <1>3, FirstOfList

\* The events are the fetched rows before the first one that is not new.
LEMMA NewEventsAreNew ==
    ASSUME NEW rows \in Seq(Entries), NEW state, state.time # 0,
           NEW fetched, fetched = Fetched(rows, state.cursor),
           NEW events, events = NewEvents(rows, state)
    PROVE  /\ events \in Seq(Entries) /\ Len(events) <= Len(fetched)
           /\ \A i \in 1..Len(events) :
                events[i] = fetched[i] /\ ~(fetched[i].time <= state.time)
           /\ Len(events) < Len(fetched) => fetched[Len(events) + 1].time <= state.time
<1>1. fetched \in Seq(Entries) /\ Len(fetched) \in Nat
  BY FetchedIsPrefix, LenProperties
<1> DEFINE I == {i \in 1..Len(fetched) : fetched[i].time <= state.time}
           old == IF I # {} THEN Min(I) ELSE 0
<1>2. events = IF old = 0 THEN fetched ELSE SubSeq(fetched, 1, old - 1)
  BY DEF NewEvents, SelectInSeq
<1>3. \/ old = 0 /\ \A i \in 1..Len(fetched) : ~(fetched[i].time <= state.time)
      \/ /\ old \in 1..Len(fetched) /\ fetched[old].time <= state.time
         /\ \A i \in 1..(old - 1) : ~(fetched[i].time <= state.time)
  <2>1. I \in SUBSET (1..Len(fetched))
    OBVIOUS
  <2>2. \/ old = 0 /\ I = {}
        \/ old \in I /\ old \in 1..Len(fetched) /\ \A i \in 1..(old - 1) : i \notin I
    <3> HIDE DEF I
    <3> QED BY <1>1, <2>1, LeastPlace
  <2> HIDE DEF old
  <2> QED BY <1>1, <2>2
<1> HIDE DEF old, I
<1>4. CASE old = 0
  <2>1. events = fetched
    BY <1>2, <1>4
  <2> QED BY <1>1, <1>3, <1>4, <2>1
<1>5. CASE old # 0
  <2>1. old - 1 \in 0..Len(fetched) /\ events = SubSeq(fetched, 1, old - 1)
    BY <1>1, <1>2, <1>3, <1>5
  <2>2. /\ events \in Seq(Entries) /\ Len(events) = old - 1
        /\ \A i \in 1..(old - 1) : events[i] = fetched[i]
    BY <1>1, <2>1, FirstOfList
  <2> QED BY <1>1, <1>3, <1>5, <2>2
<1> QED BY <1>4, <1>5

\* Notion lists the rows by their time, the latest first, and each row once.
Listed(rows) ==
    \A i, j \in 1..Len(rows) : i < j =>
       rows[j].time <= rows[i].time /\ rows[i].row # rows[j].row

\* The row shares its time with another one of the list.
Crowds(rows, j) == \E i \in 1..Len(rows) : i # j /\ rows[i].time = rows[j].time

\* What a poll makes of the list: events of different row versions, all later
\* than what was seen and none later than what it saves as seen; of the rows in
\* between it passes over none but those it is excused for.
PollIsSound(rows, state, result, events) ==
    /\ result \in SeenStates /\ events \in Seq(Entries)
    /\ state.time <= result.time
    /\ result.time = state.time \/ \E i \in 1..Len(rows) : result.time = rows[i].time
    /\ \A i \in 1..Len(events) :
         state.time < events[i].time /\ events[i].time <= result.time
    /\ \A i, j \in 1..Len(events) : i # j => events[i] # events[j]
    /\ \A j \in 1..Len(rows) :
         state.time < rows[j].time /\ rows[j].time <= result.time =>
            \/ \E i \in 1..Len(events) : events[i] = rows[j]
            \/ rows[j] \in PassedOver(rows, state)
            \/ Crowds(rows, j)

\* The type of the saved state, and where its time comes from.
LEMMA PolledStateTime ==
    ASSUME NEW rows \in Seq(Entries), NEW state \in SeenStates,
           NEW fetched, fetched = Fetched(rows, state.cursor),
           NEW events, events = NewEvents(rows, state),
           NEW result, result = PolledState(rows, state)
    PROVE  /\ result.time = IF state.time = 0
                            THEN IF fetched = <<>> THEN 0 ELSE fetched[1].time
                            ELSE IF events = <<>> THEN state.time ELSE events[1].time
           /\ result.time \in 0..MaxMinute => result \in SeenStates
<1> DEFINE list == FromCursor(rows, state.cursor)
           cursor == IF Halted(rows, state) THEN list[RowBudget + 1].row ELSE NoRow
           newest == IF state.time = 0 THEN fetched ELSE events
           time == IF newest = <<>> THEN state.time ELSE newest[1].time
<1>1. result = [time |-> time, cursor |-> cursor]
  BY DEF PolledState
<1>2. list \in Seq(Entries)
  BY FromCursorIsSuffix
<1>3. cursor \in Rows \cup {NoRow}
  <2>1. CASE Halted(rows, state)
    <3>1. RowBudget + 1 \in 1..Len(list)
      BY <1>2, <2>1, NotionAssumption, LenProperties DEF Halted
    <3>2. list[RowBudget + 1] \in Entries
      BY <1>2, <3>1, LenProperties
    <3> QED BY <2>1, <3>2 DEF Entries
  <2>2. CASE ~Halted(rows, state)
    BY <2>2
  <2> QED BY <2>1, <2>2
<1> HIDE DEF cursor, list
<1>4. result.time = time
  BY <1>1
<1>5. time \in 0..MaxMinute => result \in SeenStates
  BY <1>1, <1>3 DEF SeenStates
<1> QED BY <1>4, <1>5

LEMMA TimesOfRows ==
    ASSUME NEW rows \in Seq(Entries)
    PROVE  /\ Len(rows) \in Nat /\ MaxMinute \in Nat
           /\ \A i \in 1..Len(rows) :
                rows[i] \in Entries /\ rows[i].time \in 1..MaxMinute /\ rows[i].time \in Nat
<1>1. Len(rows) \in Nat /\ MaxMinute \in Nat
  BY LenProperties, NotionAssumption
<1>2. ASSUME NEW i \in 1..Len(rows)
      PROVE  rows[i] \in Entries /\ rows[i].time \in 1..MaxMinute /\ rows[i].time \in Nat
  <2>1. rows[i] \in Entries
    BY LenProperties
  <2> QED BY <1>1, <2>1 DEF Entries, Minutes
<1> QED BY <1>1, <1>2

LEMMA FirstPollIsSound ==
    ASSUME NEW rows \in Seq(Entries), Listed(rows), NEW state \in SeenStates,
           state.time = 0,
           NEW events, events = NewEvents(rows, state),
           NEW result, result = PolledState(rows, state)
    PROVE  PollIsSound(rows, state, result, events)
<1> DEFINE fetched == Fetched(rows, state.cursor)
           list == FromCursor(rows, state.cursor)
<1>1. /\ fetched \in Seq(Entries) /\ list \in Seq(Entries)
      /\ Len(fetched) = IF Len(list) < RowBudget THEN Len(list) ELSE RowBudget
      /\ \A i \in 1..Len(fetched) : fetched[i] = list[i]
  BY FetchedIsPrefix, FromCursorIsSuffix
<1>2. PICK a \in 1..(Len(rows) + 1) :
        \A i \in 1..Len(list) : list[i] = rows[a + i - 1] /\ a + i - 1 \in 1..Len(rows)
  BY FromCursorIsSuffix
<1>3. events = <<>>
  BY DEF NewEvents
<1>4. result.time = IF fetched = <<>> THEN 0 ELSE fetched[1].time
  BY PolledStateTime
<1>5. result.time \in 0..MaxMinute => result \in SeenStates
  BY PolledStateTime
<1>6. Len(rows) \in Nat /\ rows \in [1..Len(rows) -> Entries] /\ Len(list) \in Nat
  <2> HIDE DEF list, fetched
  <2> QED BY <1>1, LenProperties
<1> HIDE DEF fetched, list
<1>7. \/ result.time = 0
      \/ \E i \in 1..Len(rows) : result.time = rows[i].time
  <2>1. CASE fetched = <<>>
    BY <1>4, <2>1
  <2>2. CASE fetched # <<>>
    <3>1. 1 \in 1..Len(fetched) /\ 1 \in 1..Len(list)
      BY <1>1, <1>6, <2>2, EmptySeq, NotionAssumption
    <3>2. result.time = rows[a + 1 - 1].time /\ a + 1 - 1 \in 1..Len(rows)
      BY <1>1, <1>2, <1>4, <2>2, <3>1
    <3> QED BY <3>2
  <2> QED BY <2>1, <2>2
<1>8. result.time \in 0..MaxMinute
  BY <1>7, TimesOfRows
<1>9. \A j \in 1..Len(rows) : rows[j] \in PassedOver(rows, state)
  BY <1>6 DEF PassedOver, Range
<1>10. events \in Seq(Entries) /\ 1..Len(events) = {}
  <2>1. events \in Seq(Entries) /\ Len(events) = 0
    BY <1>3, EmptySeq
  <2> QED BY <2>1
<1> QED BY <1>5, <1>7, <1>8, <1>9, <1>10 DEF PollIsSound

LEMMA LaterPollIsSound ==
    ASSUME NEW rows \in Seq(Entries), Listed(rows), NEW state \in SeenStates,
           state.time # 0,
           NEW events, events = NewEvents(rows, state),
           NEW result, result = PolledState(rows, state)
    PROVE  PollIsSound(rows, state, result, events)
<1> DEFINE fetched == Fetched(rows, state.cursor)
           list == FromCursor(rows, state.cursor)
<1>1. /\ fetched \in Seq(Entries) /\ list \in Seq(Entries)
      /\ Len(fetched) = IF Len(list) < RowBudget THEN Len(list) ELSE RowBudget
      /\ \A i \in 1..Len(fetched) : fetched[i] = list[i]
  BY FetchedIsPrefix, FromCursorIsSuffix
<1>2. PICK a \in 1..(Len(rows) + 1) :
        /\ Len(list) = Len(rows) - a + 1
        /\ \A i \in 1..Len(list) : list[i] = rows[a + i - 1] /\ a + i - 1 \in 1..Len(rows)
  BY FromCursorIsSuffix
<1>3. /\ events \in Seq(Entries) /\ Len(events) <= Len(fetched)
      /\ \A i \in 1..Len(events) :
           events[i] = fetched[i] /\ ~(fetched[i].time <= state.time)
      /\ Len(events) < Len(fetched) => fetched[Len(events) + 1].time <= state.time
  BY SMTT(30), NewEventsAreNew
<1>4. result.time = IF events = <<>> THEN state.time ELSE events[1].time
  BY PolledStateTime
<1>5. result.time \in 0..MaxMinute => result \in SeenStates
  BY PolledStateTime
<1>6. /\ Len(rows) \in Nat /\ rows \in [1..Len(rows) -> Entries]
      /\ Len(list) \in Nat /\ Len(fetched) \in Nat /\ Len(events) \in Nat
      /\ RowBudget \in Nat \ {0} /\ MaxMinute \in Nat
  BY <1>1, <1>3, LenProperties, NotionAssumption
<1>7. /\ state.time \in Nat /\ state.time \in 0..MaxMinute
      /\ \A i \in 1..Len(rows) : rows[i].time \in 1..MaxMinute /\ rows[i].time \in Nat
  BY <1>6, TimesOfRows DEF SeenStates
\* An event is the row at its distance from the cursor.
<1>8. ASSUME NEW i \in 1..Len(events)
      PROVE  /\ i \in 1..Len(list) /\ a + i - 1 \in 1..Len(rows)
             /\ events[i] = rows[a + i - 1] /\ events[i] = fetched[i]
             /\ state.time < events[i].time
  <2>1. i \in 1..Len(fetched) /\ i \in 1..Len(list)
    BY <1>1, <1>3, <1>6
  <2>2. events[i] = rows[a + i - 1] /\ a + i - 1 \in 1..Len(rows)
    BY <1>1, <1>2, <1>3, <2>1
  <2>3. ~(events[i].time <= state.time)
    BY <1>3
  <2>4. state.time < events[i].time
    BY <1>7, <2>2, <2>3
  <2> QED BY <1>3, <2>1, <2>2, <2>4
<1>9. /\ events = <<>> => Len(events) = 0
      /\ events # <<>> => 1 \in 1..Len(events)
  BY <1>3, <1>6, EmptySeq
<1> HIDE DEF fetched, list
<1>10. /\ state.time <= result.time /\ result.time \in 0..MaxMinute
       /\ result.time = state.time \/ \E i \in 1..Len(rows) : result.time = rows[i].time
  <2>1. CASE events = <<>>
    BY <1>4, <1>7, <2>1
  <2>2. CASE events # <<>>
    <3>1. result.time = rows[a].time /\ a \in 1..Len(rows) /\ state.time < result.time
      BY <1>4, <1>8, <1>9, <2>2
    <3> QED BY <1>7, <3>1
  <2> QED BY <2>1, <2>2
<1>11. ASSUME NEW i \in 1..Len(events)
       PROVE  events[i].time <= result.time
  <2>1. events # <<>> /\ result.time = events[1].time /\ events[1] = rows[a]
    BY <1>4, <1>6, <1>8, <1>9, <1>11
  <2>2. CASE i = 1
    <3>1. events[i].time = result.time /\ events[i] = rows[a + i - 1] /\ a + i - 1 \in 1..Len(rows)
      BY <1>8, <2>1, <2>2
    <3>2. events[i].time \in Nat
      BY <1>7, <3>1
    <3> QED BY <3>1, <3>2
  <2>3. CASE i # 1
    <3>1. /\ a \in 1..Len(rows) /\ a + i - 1 \in 1..Len(rows) /\ a < a + i - 1
          /\ events[i] = rows[a + i - 1]
      BY <1>2, <1>6, <1>8, <2>1, <2>3
    <3>2. rows[a + i - 1].time <= rows[a].time
      BY <3>1 DEF Listed
    <3> QED BY <2>1, <3>1, <3>2
  <2> QED BY <2>2, <2>3
<1>12. ASSUME NEW i \in 1..Len(events), NEW j \in 1..Len(events), i # j
       PROVE  events[i] # events[j]
  <2>1. /\ a + i - 1 \in 1..Len(rows) /\ a + j - 1 \in 1..Len(rows)
        /\ a + i - 1 < a + j - 1 \/ a + j - 1 < a + i - 1
    BY <1>2, <1>6, <1>8, <1>12
  <2>2. rows[a + i - 1].row # rows[a + j - 1].row
    BY <2>1 DEF Listed
  <2> QED BY <1>8, <2>2
<1>13. ASSUME NEW j \in 1..Len(rows),
              state.time < rows[j].time, rows[j].time <= result.time
       PROVE  \/ \E i \in 1..Len(events) : events[i] = rows[j]
              \/ rows[j] \in PassedOver(rows, state)
              \/ Crowds(rows, j)
  <2>1. /\ events # <<>> /\ 1 \in 1..Len(events)
        /\ result.time = rows[a].time /\ a \in 1..Len(rows)
    <3>1. events # <<>>
      BY <1>4, <1>7, <1>13
    <3> QED BY <1>4, <1>8, <1>9, <3>1
  \* Before the cursor: not older than the newest event, so of its time.
  <2>2. CASE j < a
    <3>1. rows[a].time <= rows[j].time
      BY <2>1, <2>2 DEF Listed
    <3>2. rows[a].time = rows[j].time /\ a # j
      BY <1>6, <1>7, <1>13, <2>1, <2>2, <3>1
    <3> QED BY <2>1, <3>2 DEF Crowds
  <2>3. CASE j >= a
    <3> DEFINE i == j - a + 1
    <3>1. i \in 1..Len(list) /\ list[i] = rows[j]
      BY <1>2, <1>6, <2>3
    \* Among the events.
    <3>2. CASE i <= Len(events)
      <4>1. i \in 1..Len(events) /\ a + i - 1 = j
        BY <1>2, <1>6, <3>1, <3>2
      <4> HIDE DEF i
      <4>2. events[i] = rows[a + i - 1]
        BY <1>8, <4>1
      <4> QED BY <4>1, <4>2
    \* Behind the first row that is not new.
    <3>3. CASE i > Len(events) /\ Len(events) < Len(fetched)
      <4> DEFINE k == Len(events) + 1
      <4>1. k \in 1..Len(fetched) /\ k \in 1..Len(list) /\ k <= i
        BY <1>1, <1>6, <3>1, <3>3
      <4>2. /\ fetched[k].time <= state.time /\ fetched[k] = rows[a + k - 1]
            /\ a + k - 1 \in 1..Len(rows)
        BY <1>1, <1>2, <1>3, <3>3, <4>1
      <4>3. a + k - 1 <= j
        BY <1>2, <1>6, <4>1
      <4>4. rows[j].time <= rows[a + k - 1].time
        <5>1. CASE a + k - 1 = j
          BY <1>7, <5>1
        <5>2. CASE a + k - 1 # j
          <6>1. a + k - 1 \in Int /\ j \in Int
            BY <4>2
          <6>2. a + k - 1 < j
            BY <4>3, <5>2, <6>1
          <6> HIDE DEF k
          <6> QED BY <4>2, <6>2 DEF Listed
        <5> QED BY <5>1, <5>2
      <4> HIDE DEF k
      <4>5. rows[j].time <= state.time
        BY <1>7, <4>2, <4>4
      <4> QED BY <1>7, <1>13, <4>5
    \* Beyond the page budget.
    <3>4. CASE i > Len(events) /\ Len(events) = Len(fetched)
      <4>1. Len(list) > RowBudget /\ Len(events) = RowBudget
        BY <1>1, <1>6, <3>1, <3>4
      <4>2. Halted(rows, state)
        BY <4>1 DEF Halted, list
      <4>3. rows[j] \in Range(rows)
        BY <1>6 DEF Range
      <4>4. CASE rows[j] \in Range(events)
        <5>1. \E h \in 1..Len(events) : events[h] = rows[j]
          BY <1>3, <4>4, LenProperties DEF Range
        <5> QED BY <5>1
      <4>5. CASE rows[j] \notin Range(events)
        BY <1>7, <1>13, <4>2, <4>3, <4>5 DEF PassedOver
      <4> QED BY <4>4, <4>5
    <3> QED BY <1>3, <1>6, <3>2, <3>3, <3>4
  <2> QED BY <1>2, <1>6, <2>2, <2>3
<1> QED BY <1>3, <1>5, <1>8, <1>10, <1>11, <1>12, <1>13 DEF PollIsSound

-----------------------------------------------------------------------------
(* NotionPoller: the poll, its saved state and its runs. *)

\* Crowded minutes are known as such, and no row is later than the clock.
ListInv ==
    /\ Listed(table)
    /\ \A i \in 1..Len(table) : table[i].time <= minute
    /\ \A i \in 1..Len(table) : Crowds(table, i) => table[i].time \in crowded

\* A time some poll has seen: a row that is touched from now on has a later one
\* or shares a minute.
Reached(time) ==
    \/ time < minute
    \/ time = minute /\ \E i \in 1..Len(table) : table[i].time = minute

\* Every time that is saved, or may still be saved, was that of a row.
ReachedInv ==
    /\ Reached(seen.time) /\ Reached(edit.base.time)
    /\ \A s \in Pollers : Reached(poll[s].base.time) /\ Reached(poll[s].result.time)

\* A poll that is about to save: its events are new to the state it read, and it
\* has all rows it passes.
Gathered(s) ==
    /\ poll[s].base.time <= poll[s].result.time
    /\ \A i \in 1..Len(poll[s].events) :
         /\ poll[s].base.time < poll[s].events[i].time
         /\ poll[s].events[i].time <= poll[s].result.time
    /\ \A j \in 1..Len(table) :
         /\ poll[s].base.time < table[j].time /\ table[j].time <= poll[s].result.time
         /\ table[j].time \notin crowded
         => \/ \E i \in 1..Len(poll[s].events) : poll[s].events[i] = table[j]
            \/ table[j] \in excused

Emits(s, e) ==
    poll[s].pc = "emit" /\ \E i \in 1..Len(poll[s].events) : poll[s].events[i] = e

PollInv ==
    \A s \in Pollers :
      /\ poll[s].pc = "save" => Gathered(s)
      /\ poll[s].pc \in {"save", "emit"} =>
           \A i, j \in 1..Len(poll[s].events) :
              i # j => poll[s].events[i] # poll[s].events[j]

\* Who has a run was seen, once; who is about to get one was seen and has none.
RunInv ==
    ~notionStale =>
      /\ \A e \in Entries : emitted[e] \in {0, 1} /\ (emitted[e] = 1 => e.time <= seen.time)
      /\ \A s \in Pollers, e \in Entries : Emits(s, e) => e.time <= seen.time /\ emitted[e] = 0
      /\ \A s, u \in Pollers : poll[s].pc = "emit" /\ poll[u].pc = "emit" => s = u

\* Who was seen, and alone in its minute, has a run, is about to get it, or is
\* excused.
MissInv ==
    ~notionStale =>
      \A j \in 1..Len(table) :
        table[j].time <= seen.time /\ table[j].time \notin crowded =>
           \/ emitted[table[j]] > 0
           \/ table[j] \in excused
           \/ \E s \in Pollers : Emits(s, table[j])

PollSteps == {"idle", "token", "save", "emit"}
Polls == [pc: PollSteps, base: SeenStates, result: SeenStates, events: Seq(Entries)]

LEMMA NotionConstants ==
    /\ NothingSeen \in SeenStates /\ NothingSeen.time = 0
    /\ 1 \in Minutes /\ MaxMinute \in Nat
    /\ <<>> \in Seq(Entries) /\ Len(<<>>) = 0
    /\ IdlePoll \in Polls /\ IdlePoll.pc = "idle"
    /\ IdlePoll.base = NothingSeen /\ IdlePoll.result = NothingSeen
    /\ IdlePoll.events = <<>>
<1>1. MaxMinute \in Nat \ {0}
  BY NotionAssumption
<1>2. NothingSeen \in SeenStates /\ NothingSeen.time = 0 /\ 1 \in Minutes /\ MaxMinute \in Nat
  BY <1>1 DEF NothingSeen, SeenStates, Minutes
<1>3. <<>> \in Seq(Entries) /\ Len(<<>>) = 0
  BY EmptySeq
<1> QED BY <1>2, <1>3 DEF IdlePoll, Polls, PollSteps

LEMMA NotionInitType == NotionInit => NotionTypeOK
<1> HAVE NotionInit
<1>1. edits \in 0..MaxEdits /\ pollFaults \in 0..MaxPollFaults
  BY NotionAssumption DEF NotionInit
<1>2. poll \in [Pollers -> Polls] /\ edit \in [pc: {"none", "write"}, base: SeenStates]
  BY NotionConstants DEF NotionInit, NoEdit
<1>3. /\ minute \in Minutes /\ table \in Seq(Entries) /\ seen \in SeenStates /\ due \in BOOLEAN
      /\ emitted \in [Entries -> Nat] /\ excused = {} /\ crowded = {} /\ notionStale = FALSE
  BY NotionConstants DEF NotionInit
<1> QED BY <1>1, <1>2, <1>3 DEF NotionTypeOK, Polls, PollSteps

\* A touched row moves to the front; the other rows keep their order.
LEMMA TouchedList ==
    ASSUME NotionTypeOK, Listed(table), NEW r \in Rows, TouchRow(r),
           NEW rows, rows = table'
    PROVE  /\ rows \in Seq(Entries) /\ Len(rows) \in Nat /\ 1 <= Len(rows)
           /\ rows[1] = [row |-> r, time |-> minute]
           /\ \E old \in [2..Len(rows) -> 1..Len(table)] :
                /\ \A j \in 2..Len(rows) : rows[j] = table[old[j]] /\ table[old[j]].row # r
                /\ \A i, j \in 2..Len(rows) : i < j => old[i] < old[j]
<1>1. Len(table) \in Nat /\ table \in [1..Len(table) -> Entries] /\ table \in Seq(Entries)
  BY LenProperties DEF NotionTypeOK
<1> DEFINE I == {i \in 1..Len(table) : table[i].row = r}
           at == IF I # {} THEN Min(I) ELSE 0
           rest == IF at = 0 THEN table ELSE RemoveAt(table, at)
           top == <<[row |-> r, time |-> minute]>>
<1>2. rows = top \o rest
  BY DEF TouchRow, SelectInSeq
<1>3. \/ at = 0 /\ \A i \in 1..Len(table) : table[i].row # r
      \/ at \in 1..Len(table) /\ table[at].row = r
  <2>1. I \in SUBSET (1..Len(table))
    OBVIOUS
  <2>2. \/ at = 0 /\ I = {}
        \/ at \in I /\ at \in 1..Len(table) /\ \A i \in 1..(at - 1) : i \notin I
    <3> HIDE DEF I
    <3> QED BY <1>1, <2>1, LeastPlace
  <2> HIDE DEF at
  <2> QED BY <2>2
<1> HIDE DEF at, I
<1>4. ASSUME at # 0, NEW i \in 1..Len(table), i # at
      PROVE  table[i].row # r
  <2>1. i < at \/ at < i
    BY <1>1, <1>3, <1>4
  <2> QED BY <1>3, <1>4, <2>1 DEF Listed
<1>5. /\ top \in Seq(Entries) /\ Len(top) = 1 /\ top[1] = [row |-> r, time |-> minute]
  <2>1. [row |-> r, time |-> minute] \in Entries
    BY DEF NotionTypeOK, Entries
  <2> QED BY <2>1
\* The rest of the list, and where each of its rows was.
<1> DEFINE place(i) == IF at = 0 \/ i < at THEN i ELSE i + 1
<1>6. /\ rest \in Seq(Entries) /\ Len(rest) = IF at = 0 THEN Len(table) ELSE Len(table) - 1
      /\ \A i \in 1..Len(rest) : rest[i] = table[place(i)]
  <2>1. CASE at = 0
    BY <1>1, <2>1
  <2>2. CASE at # 0
    <3> DEFINE before == SubSeq(table, 1, at - 1)
               behind == SubSeq(table, at + 1, Len(table))
    <3>1. at \in 1..Len(table) /\ rest = before \o behind
      BY <1>3, <2>2 DEF RemoveAt
    <3>2. /\ before \in Seq(Entries) /\ Len(before) = at - 1
          /\ \A i \in 1..(at - 1) : before[i] = table[i]
      BY <1>1, <3>1, FirstOfList
    <3>3. /\ behind \in Seq(Entries)
          /\ Len(behind) = IF at + 1 <= Len(table) THEN Len(table) - (at + 1) + 1 ELSE 0
          /\ \A i \in 1..(Len(table) - (at + 1) + 1) : behind[i] = table[at + 1 + i - 1]
      <4>1. \A i \in (at + 1)..Len(table) : table[i] \in Entries
        BY <1>1, <3>1
      <4>2. at + 1 \in Int /\ Len(table) \in Int
        BY <1>1, <3>1
      <4> QED BY <4>1, <4>2, SubSeqProperties
    <3> HIDE DEF before, behind, rest, place
    <3>4. Len(behind) = Len(table) - at
      <4>1. Len(behind) = IF at + 1 <= Len(table) THEN Len(table) - (at + 1) + 1 ELSE 0
        BY <3>3
      <4>2. at \in Int /\ Len(table) \in Int /\ at <= Len(table)
        BY <1>1, <3>1
      <4>3. CASE at + 1 <= Len(table)
        BY <4>1, <4>2, <4>3
      <4>4. CASE ~(at + 1 <= Len(table))
        BY <4>1, <4>2, <4>4
      <4> QED BY <4>3, <4>4
    <3>5. /\ rest \in Seq(Entries) /\ Len(rest) = Len(table) - 1
          /\ \A i \in 1..Len(rest) : rest[i] = IF i <= Len(before) THEN before[i] ELSE behind[i - Len(before)]
      <4>1. Len(before) + Len(behind) = Len(table) - 1
        BY <1>1, <3>1, <3>2, <3>4
      <4>2. /\ before \o behind \in Seq(Entries)
            /\ Len(before \o behind) = Len(before) + Len(behind)
            /\ \A i \in 1..(Len(before) + Len(behind)) :
                 (before \o behind)[i] = IF i <= Len(before) THEN before[i] ELSE behind[i - Len(before)]
        BY <3>2, <3>3, ConcatProperties
      <4> QED BY <3>1, <4>1, <4>2
    <3>6. ASSUME NEW i \in 1..Len(rest) PROVE rest[i] = table[place(i)]
      <4>1. CASE i <= at - 1
        BY <1>1, <3>1, <3>2, <3>5, <4>1 DEF place
      <4>2. CASE i > at - 1
        <5>1. i - (at - 1) \in 1..(Len(table) - (at + 1) + 1)
          BY <1>1, <3>1, <3>5, <4>2
        <5>2. rest[i] = table[at + 1 + (i - (at - 1)) - 1]
          <6>1. behind[i - (at - 1)] = table[at + 1 + (i - (at - 1)) - 1]
            BY <3>3, <5>1
          <6>2. ~(i <= Len(before)) /\ i - Len(before) = i - (at - 1)
            BY <3>1, <3>2, <4>2
          <6> QED BY <3>5, <6>1, <6>2
        <5>3. at + 1 + (i - (at - 1)) - 1 = i + 1
          BY <3>1
        <5> QED BY <1>1, <2>2, <3>1, <4>2, <5>2, <5>3 DEF place
      <4> QED BY <1>1, <3>1, <4>1, <4>2
    <3> QED BY <2>2, <3>5, <3>6
  <2> QED BY <2>1, <2>2
<1> HIDE DEF rest, top
<1>7. /\ rows \in Seq(Entries) /\ Len(rows) = 1 + Len(rest) /\ Len(rest) \in Nat
      /\ rows[1] = [row |-> r, time |-> minute]
      /\ \A j \in 2..Len(rows) : rows[j] = rest[j - 1]
  <2>1. Len(rest) \in Nat
    BY <1>6, LenProperties
  <2>2. /\ rows \in Seq(Entries) /\ Len(rows) = 1 + Len(rest)
        /\ \A j \in 1..(1 + Len(rest)) : rows[j] = IF j <= 1 THEN top[j] ELSE rest[j - 1]
    <3>1. /\ top \o rest \in Seq(Entries) /\ Len(top \o rest) = Len(top) + Len(rest)
          /\ \A j \in 1..(Len(top) + Len(rest)) :
               (top \o rest)[j] = IF j <= Len(top) THEN top[j] ELSE rest[j - Len(top)]
      BY <1>5, <1>6, ConcatProperties
    <3> QED BY <1>2, <1>5, <3>1
  <2> QED BY <1>5, <2>1, <2>2
<1> DEFINE old == [j \in 2..Len(rows) |-> place(j - 1)]
<1>8. ASSUME NEW j \in 2..Len(rows)
      PROVE  /\ place(j - 1) \in 1..Len(table) /\ rows[j] = table[place(j - 1)]
             /\ table[place(j - 1)].row # r
  <2>1. j - 1 \in 1..Len(rest) /\ Len(rest) = IF at = 0 THEN Len(table) ELSE Len(table) - 1
    BY <1>6, <1>7
  <2>5. place(j - 1) \in 1..Len(table)
    <3>1. Len(table) \in Nat /\ (at = 0 \/ at \in 1..Len(table))
      BY <1>1, <1>3
    <3> QED BY <2>1, <3>1
  <2>2. at # 0 => place(j - 1) # at
    BY <1>1, <1>3, <1>7
  <2>3. rows[j] = table[place(j - 1)]
    BY <1>6, <1>7, <2>1
  <2> HIDE DEF place
  <2> QED BY <1>3, <1>4, <2>2, <2>3, <2>5
<1>9. \A i, j \in 2..Len(rows) : i < j => place(i - 1) < place(j - 1)
  <2>1. at \in Nat
    BY <1>1, <1>3
  <2> QED BY <2>1
<1> HIDE DEF place
<1>10. old \in [2..Len(rows) -> 1..Len(table)] /\ \A j \in 2..Len(rows) : old[j] = place(j - 1)
  BY <1>8
<1> HIDE DEF old
<1>11. /\ \A j \in 2..Len(rows) : rows[j] = table[old[j]] /\ table[old[j]].row # r
       /\ \A i, j \in 2..Len(rows) : i < j => old[i] < old[j]
  BY <1>8, <1>9, <1>10
<1>12. Len(rows) \in Nat /\ 1 <= Len(rows)
  BY <1>7
<1> QED BY <1>7, <1>10, <1>11, <1>12

\* What the rest of the proofs needs of it: a row of the new list is an old one,
\* or has the time of the clock, in a minute that is crowded if it has another row.
LEMMA TouchedRows ==
    ASSUME NotionTypeOK, ListInv, NEW r \in Rows, TouchRow(r)
    PROVE  /\ table' \in Seq(Entries) /\ ListInv'
           /\ Len(table') \in Nat /\ 1 \in 1..Len(table') /\ table'[1].time = minute
           /\ \A j \in 1..Len(table') :
                \/ \E i \in 1..Len(table) : table'[j] = table[i]
                \/ table'[j].time = minute
           /\ crowded \subseteq crowded' /\ crowded' \subseteq Minutes
           /\ (\E i \in 1..Len(table) : table[i].time = minute) => minute \in crowded'
<1> DEFINE rows == table'
<1>1. /\ rows \in Seq(Entries) /\ Len(rows) \in Nat /\ 1 <= Len(rows)
      /\ rows[1] = [row |-> r, time |-> minute]
      /\ \E old \in [2..Len(rows) -> 1..Len(table)] :
           /\ \A j \in 2..Len(rows) : rows[j] = table[old[j]] /\ table[old[j]].row # r
           /\ \A i, j \in 2..Len(rows) : i < j => old[i] < old[j]
  BY TouchedList DEF ListInv
<1>2. PICK old \in [2..Len(rows) -> 1..Len(table)] :
        /\ \A j \in 2..Len(rows) : rows[j] = table[old[j]] /\ table[old[j]].row # r
        /\ \A i, j \in 2..Len(rows) : i < j => old[i] < old[j]
  BY <1>1
<1>3. /\ Len(table) \in Nat /\ minute \in Nat
      /\ \A i \in 1..Len(table) : table[i].time \in Nat /\ table[i].time <= minute
  BY TimesOfRows DEF NotionTypeOK, ListInv, Minutes
<1>4. /\ crowded' = IF \E i \in 1..Len(table) : table[i].time = minute
                      THEN crowded \cup {minute} ELSE crowded
      /\ minute' = minute /\ minute \in Minutes /\ crowded \subseteq Minutes
  <2>1. DOMAIN table = 1..Len(table)
    BY LenProperties DEF NotionTypeOK
  <2> QED BY <2>1 DEF TouchRow, NotionTypeOK
<1> HIDE DEF rows
<1>5. /\ rows[1].time = minute /\ rows[1].row = r
      /\ \A j \in 2..Len(rows) : old[j] \in 1..Len(table) /\ rows[j] = table[old[j]]
  BY <1>1, <1>2
<1>6. Listed(rows)
  <2> SUFFICES ASSUME NEW i \in 1..Len(rows), NEW j \in 1..Len(rows), i < j
               PROVE  rows[j].time <= rows[i].time /\ rows[i].row # rows[j].row
    BY DEF Listed
  <2>1. j \in 2..Len(rows)
    BY <1>1
  <2>2. CASE i = 1
    BY <1>2, <1>3, <1>5, <2>1, <2>2
  <2>3. CASE i # 1
    <3>1. i \in 2..Len(rows)
      BY <1>1, <2>3
    <3>2. old[i] < old[j] /\ old[i] \in 1..Len(table) /\ old[j] \in 1..Len(table)
      BY <1>2, <2>1, <3>1
    <3>3. table[old[j]].time <= table[old[i]].time /\ table[old[i]].row # table[old[j]].row
      BY <3>2 DEF ListInv, Listed
    <3> QED BY <1>5, <2>1, <3>1, <3>3
  <2> QED BY <2>2, <2>3
<1>7. \A j \in 1..Len(rows) : rows[j].time <= minute
  <2> TAKE j \in 1..Len(rows)
  <2>1. CASE j = 1
    BY <1>3, <1>5, <2>1
  <2>2. CASE j # 1
    <3>1. j \in 2..Len(rows)
      BY <1>1, <2>2
    <3> QED BY <1>3, <1>5, <3>1
  <2> QED BY <2>1, <2>2
<1>8. ASSUME NEW j \in 1..Len(rows), Crowds(rows, j)
      PROVE  rows[j].time \in crowded'
  <2>1. PICK i \in 1..Len(rows) : i # j /\ rows[i].time = rows[j].time
    BY <1>8 DEF Crowds
  <2>2. CASE i = 1
    <3>1. j \in 2..Len(rows)
      BY <1>1, <2>1, <2>2
    <3>2. table[old[j]].time = minute /\ old[j] \in 1..Len(table)
      BY <1>5, <2>1, <2>2, <3>1
    <3> QED BY <1>4, <1>5, <2>1, <2>2, <3>2
  <2>3. CASE j = 1
    <3>1. i \in 2..Len(rows)
      BY <1>1, <2>1, <2>3
    <3>2. table[old[i]].time = minute /\ old[i] \in 1..Len(table)
      BY <1>5, <2>1, <2>3, <3>1
    <3> QED BY <1>4, <1>5, <2>3, <3>2
  <2>4. CASE i # 1 /\ j # 1
    <3>1. i \in 2..Len(rows) /\ j \in 2..Len(rows)
      BY <1>1, <2>4
    <3>2. old[i] < old[j] \/ old[j] < old[i]
      <4>1. i < j \/ j < i
        BY <2>1
      <4> QED BY <1>2, <3>1, <4>1
    <3>3. /\ old[i] \in 1..Len(table) /\ old[j] \in 1..Len(table) /\ old[i] # old[j]
          /\ table[old[i]].time = table[old[j]].time
      <4>1. old[i] \in 1..Len(table) /\ old[j] \in 1..Len(table) 
        BY <1>5, <3>1
      <4>2. old[i] # old[j]
        BY <1>3, <3>2, <4>1
      <4> QED BY <1>5, <2>1, <3>1, <4>1, <4>2
    <3>4. table[old[j]].time \in crowded
      BY <3>3 DEF ListInv, Crowds
    <3> QED BY <1>4, <1>5, <3>1, <3>4
  <2> QED BY <2>2, <2>3, <2>4
<1>9. ListInv'
  BY <1>4, <1>6, <1>7, <1>8 DEF ListInv, rows
<1>10. /\ \A j \in 1..Len(rows) :
            (\E i \in 1..Len(table) : rows[j] = table[i]) \/ rows[j].time = minute
       /\ 1 \in 1..Len(rows)
  <2>1. \A j \in 1..Len(rows) : j = 1 \/ j \in 2..Len(rows)
    BY <1>1
  <2>2. 1 \in 1..Len(rows)
    BY <1>1
  <2> QED BY <1>5, <2>1, <2>2
<1>11. /\ crowded \subseteq crowded' /\ crowded' \subseteq Minutes
       /\ (\E i \in 1..Len(table) : table[i].time = minute) => minute \in crowded'
  BY <1>4
<1> QED BY <1>1, <1>5, <1>9, <1>10, <1>11 DEF rows

\* The poll of the list.
LEMMA PolledFacts ==
    ASSUME NotionTypeOK, ListInv, NEW s \in Pollers, PollDatabase(s)
    PROVE  PollIsSound(table, poll[s].base, PolledState(table, poll[s].base),
                       NewEvents(table, poll[s].base))
<1>1. table \in Seq(Entries) /\ Listed(table) /\ poll[s].base \in SeenStates
  BY DEF NotionTypeOK, ListInv
<1>2. CASE poll[s].base.time = 0
  BY <1>1, <1>2, FirstPollIsSound
<1>3. CASE poll[s].base.time # 0
  BY <1>1, <1>3, LaterPollIsSound
<1> QED BY <1>2, <1>3

LEMMA ListStep == NotionTypeOK /\ ListInv /\ [NotionNext]_notionVars => ListInv'
<1> SUFFICES ASSUME NotionTypeOK, ListInv, [NotionNext]_notionVars PROVE ListInv'
  OBVIOUS
<1>1. CASE \E r \in Rows : TouchRow(r)
  BY <1>1, TouchedRows
<1>2. CASE PassMinute
  <2>1. /\ minute' = minute + 1 /\ table' = table /\ crowded' = crowded
        /\ minute \in Nat
        /\ \A i \in 1..Len(table) : table[i].time \in Nat
    BY <1>2, TimesOfRows DEF PassMinute, NotionTypeOK, Minutes
  <2> QED BY <2>1 DEF ListInv, Crowds, Listed
<1>3. CASE UNCHANGED <<minute, table, crowded>>
  BY <1>3 DEF ListInv, Crowds, Listed
<1> QED BY <1>1, <1>2, <1>3
     DEF NotionNext, notionVars, BecomeDue, ReadSeen, WriteSeen, StartPoll, GiveUpPoll,
         PollDatabase, SaveSeen, EmitRow, SkipRows, EndPoll, AbortPoll

LEMMA NotionTypeStep == NotionTypeOK /\ ListInv /\ [NotionNext]_notionVars => NotionTypeOK'
<1> SUFFICES ASSUME NotionTypeOK, ListInv, [NotionNext]_notionVars PROVE NotionTypeOK'
  OBVIOUS
<1> DEFINE Edits == [pc: {"none", "write"}, base: SeenStates]
<1>0. /\ minute \in Minutes /\ table \in Seq(Entries) /\ seen \in SeenStates /\ due \in BOOLEAN
      /\ poll \in [Pollers -> Polls] /\ edit \in Edits /\ edits \in 0..MaxEdits
      /\ emitted \in [Entries -> Nat] /\ excused \subseteq Entries /\ crowded \subseteq Minutes
      /\ notionStale \in BOOLEAN /\ pollFaults \in 0..MaxPollFaults
  BY DEF NotionTypeOK, Polls, PollSteps
<1>1. ASSUME minute' \in Minutes, table' \in Seq(Entries), seen' \in SeenStates, due' \in BOOLEAN,
             poll' \in [Pollers -> Polls], edit' \in Edits, edits' \in 0..MaxEdits,
             emitted' \in [Entries -> Nat], excused' \subseteq Entries, crowded' \subseteq Minutes,
             notionStale' \in BOOLEAN, pollFaults' \in 0..MaxPollFaults
      PROVE  NotionTypeOK'
  BY <1>1 DEF NotionTypeOK, Polls, PollSteps
<1> HIDE DEF Edits
\* The fields of a poll, and a poll that moves.
<1>2. ASSUME NEW s \in Pollers
      PROVE  /\ poll[s] \in Polls /\ poll[s].base \in SeenStates
             /\ poll[s].events \in Seq(Entries)
             /\ \A pc \in PollSteps : [poll[s] EXCEPT !.pc = pc] \in Polls
             /\ \A es \in Seq(Entries) : [poll[s] EXCEPT !.events = es] \in Polls
             /\ Range(poll[s].events) \subseteq Entries
             /\ IdlePoll \in Polls
             /\ poll[s].result \in SeenStates
  <2>1. poll[s] \in Polls
    BY <1>0
  <2>2. Range(poll[s].events) \subseteq Entries
    BY <2>1, LenProperties DEF Polls, Range
  <2> QED BY <2>1, <2>2, NotionConstants DEF Polls
<1>3. CASE \E r \in Rows : TouchRow(r)
  <2>1. PICK r \in Rows : TouchRow(r)
    BY <1>3
  <2>2. table' \in Seq(Entries) /\ crowded' \subseteq Minutes
    BY <2>1, TouchedRows
  <2> QED BY <1>0, <1>1, <2>1, <2>2 DEF TouchRow
<1>4. CASE PassMinute
  <2>1. minute' \in Minutes
    BY <1>0, <1>4, NotionAssumption DEF PassMinute, Minutes
  <2> QED BY <1>0, <1>1, <1>4, <2>1 DEF PassMinute
<1>5. CASE BecomeDue
  BY <1>0, <1>1, <1>5 DEF BecomeDue
<1>6. CASE ReadSeen
  <2>1. edit' \in Edits /\ edits' \in 0..MaxEdits
    BY <1>0, <1>6, NotionAssumption DEF ReadSeen, Edits
  <2> QED BY <1>0, <1>1, <1>6, <2>1 DEF ReadSeen
<1>7. CASE WriteSeen
  <2>1. edit' \in Edits /\ seen' \in SeenStates /\ notionStale' \in BOOLEAN
    BY <1>0, <1>7, NotionConstants DEF WriteSeen, Edits, NoEdit
  <2> QED BY <1>0, <1>1, <1>7, <2>1 DEF WriteSeen
<1>8. ASSUME NEW s \in Pollers, StartPoll(s) PROVE NotionTypeOK'
  <2>1. [IdlePoll EXCEPT !.pc = "token", !.base = seen] \in Polls
    BY <1>0, NotionConstants DEF Polls, PollSteps
  <2>2. poll' \in [Pollers -> Polls]
    BY <1>0, <1>8, <2>1 DEF StartPoll
  <2> QED BY <1>0, <1>1, <1>8, <2>2 DEF StartPoll
<1>9. ASSUME NEW s \in Pollers, GiveUpPoll(s) PROVE NotionTypeOK'
  <2>1. poll' \in [Pollers -> Polls]
    BY <1>0, <1>2, <1>9 DEF GiveUpPoll
  <2> QED BY <1>0, <1>1, <1>9, <2>1 DEF GiveUpPoll
<1>10. ASSUME NEW s \in Pollers, PollDatabase(s) PROVE NotionTypeOK'
  <2> DEFINE result == PolledState(table, poll[s].base)
             events == NewEvents(table, poll[s].base)
             over == PassedOver(table, poll[s].base)
  <2>1. result \in SeenStates /\ events \in Seq(Entries)
    BY <1>10, PolledFacts DEF PollIsSound
  <2>2. over \subseteq Entries
    <3>1. Range(table) \subseteq Entries
      BY <1>0, LenProperties DEF Range
    <3> QED BY <3>1 DEF PassedOver
  <2>3. /\ poll' = [poll EXCEPT ![s] = [poll[s] EXCEPT !.pc = "save", !.result = result, !.events = events]]
        /\ excused' = excused \cup over
    BY <1>0, <1>10 DEF PollDatabase
  <2> HIDE DEF result, events, over
  <2>4. [poll[s] EXCEPT !.pc = "save", !.result = result, !.events = events] \in Polls
    BY <1>2, <2>1 DEF Polls, PollSteps
  <2>5. poll' \in [Pollers -> Polls] /\ excused' \subseteq Entries
    BY <1>0, <2>2, <2>3, <2>4
  <2> QED BY <1>0, <1>1, <1>10, <2>5 DEF PollDatabase
<1>11. ASSUME NEW s \in Pollers, SaveSeen(s) PROVE NotionTypeOK'
  <2>1. [poll[s] EXCEPT !.pc = "emit"] \in Polls
    BY <1>2 DEF PollSteps
  <2>2. poll' \in [Pollers -> Polls]
    BY <1>0, <1>11, <2>1 DEF SaveSeen
  <2>3. seen' \in SeenStates /\ due' \in BOOLEAN /\ notionStale' \in BOOLEAN
    BY <1>0, <1>2, <1>11 DEF SaveSeen
  <2> QED BY <1>0, <1>1, <1>11, <2>2, <2>3 DEF SaveSeen
<1>12. ASSUME NEW s \in Pollers, EmitRow(s) PROVE NotionTypeOK'
  <2>1. Head(poll[s].events) \in Entries /\ Tail(poll[s].events) \in Seq(Entries)
    BY <1>2, <1>12, HeadTailProperties DEF EmitRow
  <2>2. [poll[s] EXCEPT !.events = Tail(poll[s].events)] \in Polls
    BY <1>2, <2>1
  <2>3. poll' \in [Pollers -> Polls]
    BY <1>0, <1>12, <2>2 DEF EmitRow
  <2>4. emitted' \in [Entries -> Nat]
    BY <1>0, <1>12, <2>1 DEF EmitRow
  <2> QED BY <1>0, <1>1, <1>12, <2>3, <2>4 DEF EmitRow
<1>13. ASSUME NEW s \in Pollers, SkipRows(s) PROVE NotionTypeOK'
  <2>1. [poll[s] EXCEPT !.events = <<>>] \in Polls
    BY <1>2, NotionConstants
  <2>2. poll' \in [Pollers -> Polls] /\ excused' \subseteq Entries
    BY <1>0, <1>2, <1>13, <2>1 DEF SkipRows
  <2> QED BY <1>0, <1>1, <1>13, <2>2 DEF SkipRows
<1>14. ASSUME NEW s \in Pollers, EndPoll(s) PROVE NotionTypeOK'
  <2>1. poll' \in [Pollers -> Polls]
    BY <1>0, <1>2, <1>14 DEF EndPoll
  <2> QED BY <1>0, <1>1, <1>14, <2>1 DEF EndPoll
<1>15. ASSUME NEW s \in Pollers, AbortPoll(s) PROVE NotionTypeOK'
  <2>1. poll' \in [Pollers -> Polls] /\ excused' \subseteq Entries
    BY <1>0, <1>2, <1>15 DEF AbortPoll
  <2>2. pollFaults' \in 0..MaxPollFaults
    BY <1>0, <1>15, NotionAssumption DEF AbortPoll
  <2> QED BY <1>0, <1>1, <1>15, <2>1, <2>2 DEF AbortPoll
<1>16. CASE UNCHANGED notionVars
  BY <1>0, <1>1, <1>16 DEF notionVars
<1> QED BY <1>3, <1>4, <1>5, <1>6, <1>7, <1>8, <1>9, <1>10, <1>11, <1>12, <1>13, <1>14,
           <1>15, <1>16 DEF NotionNext

\* What was reached stays reached, and so is whatever the list has.
LEMMA ReachedStays ==
    ASSUME NotionTypeOK, ListInv, [NotionNext]_notionVars, NEW time \in Nat, Reached(time)
    PROVE  Reached(time)'
<1>1. minute \in Nat
  BY DEF NotionTypeOK, Minutes
<1>2. CASE \E r \in Rows : TouchRow(r)
  <2>1. PICK r \in Rows : TouchRow(r)
    BY <1>2
  <2>2. minute' = minute /\ 1 \in 1..Len(table') /\ table'[1].time = minute
    BY <2>1, TouchedRows DEF TouchRow
  <2> QED BY <1>1, <2>2 DEF Reached
<1>3. CASE PassMinute
  BY <1>1, <1>3 DEF PassMinute, Reached
<1>4. CASE UNCHANGED <<minute, table>>
  BY <1>4 DEF Reached
<1> QED BY <1>2, <1>3, <1>4
     DEF NotionNext, notionVars, BecomeDue, ReadSeen, WriteSeen, StartPoll, GiveUpPoll,
         PollDatabase, SaveSeen, EmitRow, SkipRows, EndPoll, AbortPoll

LEMMA ReachedInit == NotionInit => ReachedInv
  BY NotionConstants DEF NotionInit, ReachedInv, Reached, NoEdit

LEMMA ReachedStep ==
    NotionTypeOK /\ ListInv /\ ReachedInv /\ [NotionNext]_notionVars => ReachedInv'
<1> SUFFICES ASSUME NotionTypeOK, ListInv, ReachedInv, [NotionNext]_notionVars
             PROVE  ReachedInv'
  OBVIOUS
<1>1. /\ minute \in Nat /\ minute > 0 /\ seen.time \in Nat /\ edit.base.time \in Nat
      /\ poll \in [Pollers -> Polls]
      /\ \A s \in Pollers : /\ poll[s].base.time \in Nat /\ poll[s].result.time \in Nat
                            /\ poll[s].base \in SeenStates
  BY NotionAssumption DEF NotionTypeOK, Minutes, SeenStates, Polls, PollSteps
<1>2. /\ Reached(seen.time) /\ Reached(edit.base.time)
      /\ \A s \in Pollers : Reached(poll[s].base.time) /\ Reached(poll[s].result.time)
  BY DEF ReachedInv
<1>3. \A time \in Nat : Reached(time) => (time < minute' \/ (time = minute' /\ \E i \in 1..Len(table') : table'[i].time = minute'))
  BY ReachedStays DEF Reached
<1>4. Reached(0)
  BY <1>1 DEF Reached
<1> DEFINE Still(time) == time \in Nat /\ Reached(time)
<1>5. ASSUME Still(seen'.time), Still(edit'.base.time),
             \A s \in Pollers : Still(poll'[s].base.time) /\ Still(poll'[s].result.time)
      PROVE  ReachedInv'
  <2>1. \A time : Still(time) => (time < minute' \/ (time = minute' /\ \E i \in 1..Len(table') : table'[i].time = minute'))
    BY <1>3
  <2> HIDE DEF Still
  <2> QED BY <1>5, <2>1 DEF ReachedInv, Reached
<1>6. /\ Still(seen.time) /\ Still(edit.base.time) /\ Still(0)
      /\ \A s \in Pollers : Still(poll[s].base.time) /\ Still(poll[s].result.time)
  BY <1>1, <1>2, <1>4
<1> HIDE DEF Still
\* The poll of one server moves.
<1>7. ASSUME NEW s \in Pollers, NEW p, poll' = [poll EXCEPT ![s] = p],
             Still(p.base.time), Still(p.result.time), Still(seen'.time), edit' = edit
      PROVE  ReachedInv'
  BY <1>1, <1>5, <1>6, <1>7
<1>8. CASE UNCHANGED <<seen, edit, poll>>
  BY <1>5, <1>6, <1>8
<1>9. CASE ReadSeen
  BY <1>5, <1>6, <1>9 DEF ReadSeen
<1>10. CASE WriteSeen
  BY <1>5, <1>6, <1>10, NotionConstants DEF WriteSeen, NoEdit
<1>11. ASSUME NEW s \in Pollers, StartPoll(s) PROVE ReachedInv'
  <2> DEFINE p == [IdlePoll EXCEPT !.pc = "token", !.base = seen]
  <2>1. p.base = seen /\ p.result = NothingSeen
    BY DEF IdlePoll
  <2>2. poll' = [poll EXCEPT ![s] = p] /\ seen' = seen /\ edit' = edit
    BY <1>11 DEF StartPoll
  <2> HIDE DEF p
  <2> QED BY <1>6, <1>7, <2>1, <2>2, NotionConstants
<1>12. ASSUME NEW s \in Pollers, GiveUpPoll(s) \/ EndPoll(s) \/ AbortPoll(s) PROVE ReachedInv'
  <2>1. poll' = [poll EXCEPT ![s] = IdlePoll] /\ seen' = seen /\ edit' = edit
    BY <1>12 DEF GiveUpPoll, EndPoll, AbortPoll
  <2> QED BY <1>6, <1>7, <2>1, NotionConstants
<1>13. ASSUME NEW s \in Pollers, PollDatabase(s) PROVE ReachedInv'
  <2> DEFINE result == PolledState(table, poll[s].base)
             p == [poll[s] EXCEPT !.pc = "save", !.result = result,
                                  !.events = NewEvents(table, poll[s].base)]
  <2>1. /\ result \in SeenStates
        /\ result.time = poll[s].base.time \/ \E i \in 1..Len(table) : result.time = table[i].time
    BY <1>13, PolledFacts DEF PollIsSound
  <2>2. Still(result.time)
    <3>1. result.time \in Nat
      BY <2>1, NotionAssumption DEF SeenStates
    <3>2. CASE result.time = poll[s].base.time
      BY <1>6, <3>2
    <3>3. CASE \E i \in 1..Len(table) : result.time = table[i].time
      <4>1. PICK i \in 1..Len(table) : result.time = table[i].time
        BY <3>3
      <4>2. table[i].time <= minute
        BY DEF ListInv
      <4> QED BY <1>1, <3>1, <4>1, <4>2 DEF Still, Reached
    <3> QED BY <2>1, <3>2, <3>3
  <2>3. poll' = [poll EXCEPT ![s] = p] /\ seen' = seen /\ edit' = edit
    BY <1>1, <1>13 DEF PollDatabase
  <2>4. p.base = poll[s].base /\ p.result = result
    BY <1>1 DEF Polls
  <2> HIDE DEF p, result
  <2> QED BY <1>6, <1>7, <2>2, <2>3, <2>4
<1>14. ASSUME NEW s \in Pollers, SaveSeen(s) PROVE ReachedInv'
  <2> DEFINE p == [poll[s] EXCEPT !.pc = "emit"]
  <2>1. p.base = poll[s].base /\ p.result = poll[s].result
    BY <1>1 DEF Polls
  <2>2. poll' = [poll EXCEPT ![s] = p] /\ edit' = edit /\ (seen' = poll[s].result \/ seen' = seen)
    BY <1>1, <1>14 DEF SaveSeen
  <2> HIDE DEF p
  <2> QED BY <1>6, <1>7, <2>1, <2>2
<1>15. ASSUME NEW s \in Pollers, EmitRow(s) \/ SkipRows(s) PROVE ReachedInv'
  <2>1. PICK es : poll' = [poll EXCEPT ![s] = [poll[s] EXCEPT !.events = es]] /\ seen' = seen /\ edit' = edit
    BY <1>1, <1>15 DEF EmitRow, SkipRows
  <2> DEFINE p == [poll[s] EXCEPT !.events = es]
  <2>2. p.base = poll[s].base /\ p.result = poll[s].result
    BY <1>1 DEF Polls
  <2> HIDE DEF p
  <2> QED BY <1>6, <1>7, <2>1, <2>2 DEF p
<1> QED BY <1>8, <1>9, <1>10, <1>11, <1>12, <1>13, <1>14, <1>15
     DEF NotionNext, notionVars, TouchRow, PassMinute, BecomeDue

LEMMA PollInit == NotionInit => PollInv /\ RunInv /\ MissInv
<1> HAVE NotionInit
<1>1. /\ table = <<>> /\ Len(table) = 0 /\ \A e \in Entries : emitted[e] = 0
      /\ \A s \in Pollers : poll[s].pc = "idle"
  BY NotionConstants DEF NotionInit
<1> QED BY <1>1 DEF PollInv, RunInv, MissInv, Emits

\* Rows that are touched, minutes that turn out crowded and rows that are excused
\* take nothing away from what a poll has gathered.
LEMMA GatheredStays ==
    ASSUME NotionTypeOK, ListInv, ReachedInv, [NotionNext]_notionVars,
           NEW s \in Pollers, Gathered(s), poll'[s] = poll[s]
    PROVE  Gathered(s)'
<1>1. /\ poll[s].base.time \in Nat /\ poll[s].result.time \in Nat /\ minute \in Nat
      /\ Reached(poll[s].result.time)
  BY NotionAssumption DEF NotionTypeOK, SeenStates, ReachedInv, Minutes
<1>2. CASE \E r \in Rows : TouchRow(r)
  <2>1. PICK r \in Rows : TouchRow(r)
    BY <1>2
  <2>2. /\ \A j \in 1..Len(table') :
             (\E i \in 1..Len(table) : table'[j] = table[i]) \/ table'[j].time = minute
        /\ crowded \subseteq crowded'
        /\ (\E i \in 1..Len(table) : table[i].time = minute) => minute \in crowded'
    BY <2>1, TouchedRows
  <2>3. excused' = excused
    BY <2>1 DEF TouchRow
  <2>4. ASSUME NEW j \in 1..Len(table'), table'[j].time = minute,
               table'[j].time <= poll[s].result.time
        PROVE  table'[j].time \in crowded'
    BY <1>1, <2>2, <2>4 DEF Reached
  <2> QED BY <2>2, <2>3, <2>4 DEF Gathered
<1>3. CASE UNCHANGED <<table, crowded>> /\ excused \subseteq excused'
  BY <1>3 DEF Gathered
<1> QED BY <1>2, <1>3
     DEF NotionNext, notionVars, PassMinute, BecomeDue, ReadSeen, WriteSeen, StartPoll,
         GiveUpPoll, PollDatabase, SaveSeen, EmitRow, SkipRows, EndPoll, AbortPoll

LEMMA PollStep ==
    NotionTypeOK /\ ListInv /\ ReachedInv /\ PollInv /\ [NotionNext]_notionVars => PollInv'
<1> SUFFICES ASSUME NotionTypeOK, ListInv, ReachedInv, PollInv, [NotionNext]_notionVars
             PROVE  PollInv'
  OBVIOUS
<1>1. /\ poll \in [Pollers -> Polls]
      /\ \A s \in Pollers : poll[s] \in Polls /\ poll[s].events \in Seq(Entries)
  BY DEF NotionTypeOK, Polls, PollSteps
<1> DEFINE Different(es) == \A i, j \in 1..Len(es) : i # j => es[i] # es[j]
\* Only the poll that moves needs to be looked at.
<1>2. ASSUME NEW s \in Pollers, \A u \in Pollers \ {s} : poll'[u] = poll[u],
             poll'[s].pc = "save" => Gathered(s)',
             poll'[s].pc \in {"save", "emit"} => Different(poll'[s].events)
      PROVE  PollInv'
  <2> SUFFICES ASSUME NEW u \in Pollers
               PROVE  /\ poll'[u].pc = "save" => Gathered(u)'
                      /\ poll'[u].pc \in {"save", "emit"} => Different(poll'[u].events)
    BY DEF PollInv, Gathered
  <2>1. CASE u = s
    BY <1>2, <2>1
  <2>2. CASE u # s
    <3>1. /\ poll'[u] = poll[u]
          /\ poll[u].pc = "save" => Gathered(u)
          /\ poll[u].pc \in {"save", "emit"} => Different(poll[u].events)
      BY <1>2, <2>2 DEF PollInv
    <3> HIDE DEF Different
    <3> QED BY <3>1, GatheredStays
  <2> QED BY <2>1, <2>2
<1>3. CASE poll' = poll
  <2> SUFFICES ASSUME NEW u \in Pollers
               PROVE  /\ poll'[u].pc = "save" => Gathered(u)'
                      /\ poll'[u].pc \in {"save", "emit"} => Different(poll'[u].events)
    BY DEF PollInv, Gathered
  <2>1. /\ poll'[u] = poll[u]
        /\ poll[u].pc = "save" => Gathered(u)
        /\ poll[u].pc \in {"save", "emit"} => Different(poll[u].events)
    BY <1>3 DEF PollInv
  <2> HIDE DEF Different
  <2> QED BY <2>1, GatheredStays
<1> HIDE DEF Different
<1>4. ASSUME NEW s \in Pollers, StartPoll(s) PROVE PollInv'
  <2> DEFINE p == [IdlePoll EXCEPT !.pc = "token", !.base = seen]
  <2>1. p.pc = "token" /\ poll' = [poll EXCEPT ![s] = p]
    BY <1>4 DEF StartPoll, IdlePoll
  <2> HIDE DEF p
  <2> QED BY <1>1, <1>2, <2>1
<1>5. ASSUME NEW s \in Pollers, GiveUpPoll(s) \/ EndPoll(s) \/ AbortPoll(s) PROVE PollInv'
  <2>1. poll' = [poll EXCEPT ![s] = IdlePoll]
    BY <1>5 DEF GiveUpPoll, EndPoll, AbortPoll
  <2> QED BY <1>1, <1>2, <2>1, NotionConstants
<1>6. ASSUME NEW s \in Pollers, PollDatabase(s) PROVE PollInv'
  <2> DEFINE base == poll[s].base
             result == PolledState(table, poll[s].base)
             events == NewEvents(table, poll[s].base)
             p == [poll[s] EXCEPT !.pc = "save", !.result = result, !.events = events]
  <2>1. PollIsSound(table, base, result, events)
    BY <1>6, PolledFacts
  <2>2. /\ poll' = [poll EXCEPT ![s] = p] /\ table' = table /\ crowded' = crowded
        /\ excused' = excused \cup PassedOver(table, base)
    BY <1>1, <1>6 DEF PollDatabase
  <2>3. p.base = base /\ p.result = result /\ p.events = events /\ p.pc = "save"
    BY <1>1 DEF Polls
  <2> HIDE DEF p, result, events, base
  <2>4. poll'[s] = p /\ \A u \in Pollers \ {s} : poll'[u] = poll[u]
    BY <1>1, <2>2
  <2>5. \A j \in 1..Len(table) : Crowds(table, j) => table[j].time \in crowded
    BY DEF ListInv
  <2>6. Gathered(s)'
    BY <2>1, <2>2, <2>3, <2>4, <2>5 DEF PollIsSound, Gathered
  <2>7. Different(events)
    BY <2>1 DEF PollIsSound, Different
  <2> QED BY <1>2, <2>3, <2>4, <2>6, <2>7
<1>7. ASSUME NEW s \in Pollers, SaveSeen(s) PROVE PollInv'
  <2> DEFINE p == [poll[s] EXCEPT !.pc = "emit"]
  <2>1. p.pc = "emit" /\ p.events = poll[s].events
    BY <1>1 DEF Polls
  <2>2. poll' = [poll EXCEPT ![s] = p] /\ poll[s].pc = "save"
    BY <1>1, <1>7 DEF SaveSeen
  <2>3. Different(poll[s].events)
    BY <2>2 DEF PollInv, Different
  <2> HIDE DEF p
  <2> QED BY <1>1, <1>2, <2>1, <2>2, <2>3
<1>8. ASSUME NEW s \in Pollers, EmitRow(s) PROVE PollInv'
  <2> DEFINE es == poll[s].events
             p == [poll[s] EXCEPT !.events = Tail(es)]
  <2>1. p.pc = "emit" /\ p.events = Tail(es)
    BY <1>1, <1>8 DEF Polls, EmitRow
  <2>2. poll' = [poll EXCEPT ![s] = p]
    BY <1>1, <1>8 DEF EmitRow
  <2>3. /\ Len(es) \in Nat /\ Len(Tail(es)) = Len(es) - 1
        /\ \A i \in 1..Len(Tail(es)) : Tail(es)[i] = es[i + 1]
    BY <1>1, <1>8, HeadTailProperties, LenProperties DEF EmitRow
  <2>4. Different(es)
    BY <1>8 DEF PollInv, Different, EmitRow
  <2>5. Different(Tail(es))
    <3> HIDE DEF es
    <3>1. \A i \in 1..Len(Tail(es)) : i + 1 \in 1..Len(es) /\ i \in Nat
      BY <2>3
    <3> QED BY <2>3, <2>4, <3>1 DEF Different
  <2> HIDE DEF p, es
  <2> QED BY <1>1, <1>2, <2>1, <2>2, <2>5
<1>9. ASSUME NEW s \in Pollers, SkipRows(s) PROVE PollInv'
  <2> DEFINE p == [poll[s] EXCEPT !.events = <<>>]
  <2>1. p.pc = "emit" /\ p.events = <<>>
    BY <1>1, <1>9 DEF Polls, SkipRows
  <2>2. poll' = [poll EXCEPT ![s] = p]
    BY <1>1, <1>9 DEF SkipRows
  <2>3. Different(<<>>)
    <3>1. Len(<<>>) = 0
      BY NotionConstants
    <3> QED BY <3>1 DEF Different
  <2> HIDE DEF p
  <2> QED BY <1>1, <1>2, <2>1, <2>2, <2>3
<1> QED BY <1>3, <1>4, <1>5, <1>6, <1>7, <1>8, <1>9
     DEF NotionNext, notionVars, TouchRow, PassMinute, BecomeDue, ReadSeen, WriteSeen

\* A run is created for the first event; the others are left, and differ from it.
LEMMA EmittedRow ==
    ASSUME NotionTypeOK, PollInv, NEW s \in Pollers, EmitRow(s)
    PROVE  /\ Head(poll[s].events) \in Entries
           /\ Emits(s, Head(poll[s].events)) /\ poll'[s].pc = "emit"
           /\ \A e : Emits(s, e)' <=> Emits(s, e) /\ e # Head(poll[s].events)
           /\ \A u \in Pollers \ {s} : poll'[u] = poll[u]
<1> DEFINE es == poll[s].events
<1>1. poll \in [Pollers -> Polls] /\ es \in Seq(Entries)
  BY DEF NotionTypeOK, Polls, PollSteps
<1>2. /\ poll'[s].events = Tail(es) /\ poll'[s].pc = "emit" /\ poll[s].pc = "emit"
      /\ \A u \in Pollers \ {s} : poll'[u] = poll[u]
  BY <1>1 DEF EmitRow, Polls
<1>3. /\ Head(es) \in Entries /\ Len(es) \in Nat /\ Len(Tail(es)) = Len(es) - 1
      /\ \A i \in 1..Len(Tail(es)) : Tail(es)[i] = es[i + 1]
      /\ Head(es) = es[1] /\ 1 \in 1..Len(es)
  BY <1>1, HeadTailProperties, LenProperties, EmptySeq DEF EmitRow
<1>4. \A i, j \in 1..Len(es) : i # j => es[i] # es[j]
  BY <1>2 DEF PollInv
<1>5. ASSUME NEW e
      PROVE  (\E i \in 1..Len(Tail(es)) : Tail(es)[i] = e)
               <=> (\E i \in 1..Len(es) : es[i] = e) /\ e # Head(es)
  <2>1. ASSUME NEW i \in 1..Len(Tail(es)), Tail(es)[i] = e
        PROVE  (\E h \in 1..Len(es) : es[h] = e) /\ e # Head(es)
    <3>1. i + 1 \in 1..Len(es) /\ i + 1 # 1
      BY <1>3
    <3> QED BY <1>3, <1>4, <2>1, <3>1
  <2>2. ASSUME NEW i \in 1..Len(es), es[i] = e, e # Head(es)
        PROVE  \E h \in 1..Len(Tail(es)) : Tail(es)[h] = e
    <3>1. i # 1
      BY <1>3, <2>2
    <3>2. i - 1 \in 1..Len(Tail(es)) /\ (i - 1) + 1 = i
      BY <1>3, <3>1
    <3> QED BY <1>3, <2>2, <3>2
  <2> QED BY <2>1, <2>2
<1> HIDE DEF es
<1>6. Emits(s, Head(es))
  BY <1>2, <1>3 DEF Emits, es
<1>7. \A e : Emits(s, e)' <=> Emits(s, e) /\ e # Head(es)
  BY <1>2, <1>5 DEF Emits, es
<1> QED BY <1>2, <1>3, <1>6, <1>7 DEF es

LEMMA RunStep ==
    NotionTypeOK /\ ListInv /\ PollInv /\ RunInv /\ [NotionNext]_notionVars => RunInv'
<1> SUFFICES ASSUME NotionTypeOK, ListInv, PollInv, RunInv, [NotionNext]_notionVars,
                    ~notionStale'
             PROVE  RunInv'
  BY DEF RunInv
<1>1. /\ seen.time \in Nat /\ poll \in [Pollers -> Polls] /\ emitted \in [Entries -> Nat]
      /\ \A s \in Pollers : poll[s] \in Polls /\ poll[s].events \in Seq(Entries)
      /\ \A e \in Entries : e.time \in Nat
  <2>1. seen.time \in Nat
    BY NotionAssumption DEF NotionTypeOK, SeenStates
  <2>2. \A e \in Entries : e.time \in Nat
    BY NotionAssumption DEF Entries, Minutes
  <2>3. poll \in [Pollers -> Polls] /\ emitted \in [Entries -> Nat]
    BY DEF NotionTypeOK, Polls, PollSteps
  <2> QED BY <2>1, <2>2, <2>3 DEF Polls
<1>2. ~notionStale
  BY DEF NotionNext, notionVars, TouchRow, PassMinute, BecomeDue, ReadSeen, WriteSeen,
         StartPoll, GiveUpPoll, PollDatabase, SaveSeen, EmitRow, SkipRows, EndPoll, AbortPoll
<1>3. /\ \A e \in Entries : emitted[e] \in {0, 1} /\ (emitted[e] = 1 => e.time <= seen.time)
      /\ \A s \in Pollers, e \in Entries : Emits(s, e) => e.time <= seen.time /\ emitted[e] = 0
      /\ \A s, u \in Pollers : poll[s].pc = "emit" /\ poll[u].pc = "emit" => s = u
  BY <1>2 DEF RunInv
\* A step that creates no run, moves what was seen not at all, and lets no poll
\* begin to create runs.
<1>4. ASSUME UNCHANGED <<emitted, seen>>,
             \A s \in Pollers, e \in Entries : Emits(s, e)' => Emits(s, e),
             \A s \in Pollers : poll'[s].pc = "emit" => poll[s].pc = "emit"
      PROVE  RunInv'
  BY <1>3, <1>4 DEF RunInv
<1>5. ASSUME UNCHANGED <<emitted, seen, poll>> PROVE RunInv'
  BY <1>4, <1>5 DEF Emits
<1>6. ASSUME NEW s \in Pollers, NEW p, poll' = [poll EXCEPT ![s] = p], p.pc # "emit",
             UNCHANGED <<emitted, seen>>
      PROVE  RunInv'
  <2>1. \A u \in Pollers : poll'[u] = IF u = s THEN p ELSE poll[u]
    BY <1>1, <1>6
  <2> QED BY <1>4, <1>6, <2>1 DEF Emits
\* The save of a workflow writes back what is there, or the state is stale.
<1>7. CASE WriteSeen
  BY <1>2, <1>5, <1>7 DEF WriteSeen
<1>8. ASSUME NEW s \in Pollers, StartPoll(s) PROVE RunInv'
  <2> DEFINE p == [IdlePoll EXCEPT !.pc = "token", !.base = seen]
  <2>1. p.pc # "emit" /\ poll' = [poll EXCEPT ![s] = p] /\ UNCHANGED <<emitted, seen>>
    BY <1>8 DEF StartPoll, IdlePoll
  <2> HIDE DEF p
  <2> QED BY <1>6, <2>1
<1>9. ASSUME NEW s \in Pollers, GiveUpPoll(s) \/ EndPoll(s) \/ AbortPoll(s) PROVE RunInv'
  <2>1. poll' = [poll EXCEPT ![s] = IdlePoll] /\ UNCHANGED <<emitted, seen>>
    BY <1>9 DEF GiveUpPoll, EndPoll, AbortPoll
  <2> QED BY <1>6, <2>1, NotionConstants
<1>10. ASSUME NEW s \in Pollers, PollDatabase(s) PROVE RunInv'
  <2> DEFINE p == [poll[s] EXCEPT !.pc = "save", !.result = PolledState(table, poll[s].base),
                                  !.events = NewEvents(table, poll[s].base)]
  <2>1. p.pc # "emit" /\ poll' = [poll EXCEPT ![s] = p] /\ UNCHANGED <<emitted, seen>>
    BY <1>1, <1>10 DEF PollDatabase, Polls
  <2> HIDE DEF p
  <2> QED BY <1>6, <2>1
\* The poll saves what it has seen: its events are later than what was seen
\* before, so none of them has a run, and no other poll creates any.
<1>11. ASSUME NEW s \in Pollers, SaveSeen(s) PROVE RunInv'
  <2>1. /\ seen = poll[s].base /\ seen' = poll[s].result /\ emitted' = emitted
        /\ \A u \in Pollers \ {s} : poll[u].pc = "idle" /\ poll'[u] = poll[u]
        /\ poll[s].pc = "save" /\ poll'[s].pc = "emit" /\ poll'[s].events = poll[s].events
    BY <1>1, <1>11 DEF SaveSeen, Polls
  <2>2. /\ seen.time <= seen'.time /\ seen'.time \in Nat
        /\ \A i \in 1..Len(poll[s].events) :
             seen.time < poll[s].events[i].time /\ poll[s].events[i].time <= seen'.time
    <3>1. Gathered(s)
      BY <2>1 DEF PollInv
    <3>2. poll[s].result.time \in Nat
      BY <1>1, NotionAssumption DEF Polls, SeenStates
    <3> QED BY <2>1, <3>1, <3>2 DEF Gathered
  <2>3. \A e \in Entries : emitted'[e] \in {0, 1} /\ (emitted'[e] = 1 => e.time <= seen'.time)
    BY <1>1, <1>3, <2>1, <2>2
  <2>4. ASSUME NEW u \in Pollers, NEW e \in Entries, Emits(u, e)'
        PROVE  e.time <= seen'.time /\ emitted'[e] = 0
    <3>1. u = s
      BY <2>1, <2>4 DEF Emits
    <3>2. seen.time < e.time /\ e.time <= seen'.time
      BY <2>1, <2>2, <2>4, <3>1 DEF Emits
    <3>3. emitted[e] # 1
      BY <1>1, <1>3, <3>2
    <3> QED BY <1>3, <2>1, <3>2, <3>3
  <2>5. \A u, v \in Pollers : poll'[u].pc = "emit" /\ poll'[v].pc = "emit" => u = v
    BY <2>1
  <2> QED BY <2>3, <2>4, <2>5 DEF RunInv
<1>12. ASSUME NEW s \in Pollers, EmitRow(s) PROVE RunInv'
  <2> DEFINE h == Head(poll[s].events)
  <2>1. /\ h \in Entries /\ Emits(s, h) /\ poll'[s].pc = "emit" /\ poll[s].pc = "emit"
        /\ \A e : Emits(s, e)' <=> Emits(s, e) /\ e # h
        /\ \A u \in Pollers \ {s} : poll'[u] = poll[u]
    BY <1>12, EmittedRow DEF EmitRow
  <2>2. emitted' = [emitted EXCEPT ![h] = @ + 1] /\ seen' = seen
    BY <1>12 DEF EmitRow
  <2> HIDE DEF h
  <2>3. h.time <= seen.time /\ emitted[h] = 0
    BY <1>3, <2>1
  <2>4. \A e \in Entries : emitted'[e] = IF e = h THEN 1 ELSE emitted[e]
    BY <1>1, <2>1, <2>2, <2>3
  <2>5. ASSUME NEW u \in Pollers, NEW e \in Entries, Emits(u, e)'
        PROVE  Emits(u, e) /\ e # h
    <3>1. CASE u = s
      BY <2>1, <2>5, <3>1
    <3>2. CASE u # s
      <4>1. Emits(u, e) /\ poll[u].pc = "emit"
        BY <2>1, <2>5, <3>2 DEF Emits
      <4> QED BY <1>3, <2>1, <3>2, <4>1
    <3> QED BY <3>1, <3>2
  <2>6. \A u \in Pollers : poll'[u].pc = poll[u].pc
    BY <2>1
  <2> QED BY <1>3, <2>2, <2>3, <2>4, <2>5, <2>6 DEF RunInv
<1>13. ASSUME NEW s \in Pollers, SkipRows(s) PROVE RunInv'
  <2>1. /\ poll'[s].events = <<>> /\ poll[s].pc = "emit"
        /\ \A u \in Pollers \ {s} : poll'[u] = poll[u]
        /\ UNCHANGED <<emitted, seen>>
    BY <1>1, <1>13 DEF SkipRows
  <2>2. ~\E e \in Entries : Emits(s, e)'
    BY <2>1, NotionConstants DEF Emits
  <2>3. \A u \in Pollers, e \in Entries : Emits(u, e)' => Emits(u, e)
    BY <2>1, <2>2 DEF Emits
  <2> QED BY <1>4, <2>1, <2>3
<1> QED BY <1>5, <1>7, <1>8, <1>9, <1>10, <1>11, <1>12, <1>13
     DEF NotionNext, notionVars, TouchRow, PassMinute, BecomeDue, ReadSeen

LEMMA MissStep ==
    NotionTypeOK /\ ListInv /\ ReachedInv /\ PollInv /\ MissInv /\ [NotionNext]_notionVars
      => MissInv'
<1> SUFFICES ASSUME NotionTypeOK, ListInv, ReachedInv, PollInv, MissInv,
                    [NotionNext]_notionVars, ~notionStale'
             PROVE  MissInv'
  BY DEF MissInv
<1>1. /\ seen.time \in Nat /\ minute \in Nat /\ poll \in [Pollers -> Polls]
      /\ emitted \in [Entries -> Nat]
      /\ \A s \in Pollers : poll[s] \in Polls /\ poll[s].events \in Seq(Entries)
      /\ \A j \in 1..Len(table) : table[j] \in Entries /\ table[j].time \in Nat
  BY NotionAssumption, TimesOfRows DEF NotionTypeOK, SeenStates, Polls, PollSteps, Minutes
<1>2. ~notionStale
  BY DEF NotionNext, notionVars, TouchRow, PassMinute, BecomeDue, ReadSeen, WriteSeen,
         StartPoll, GiveUpPoll, PollDatabase, SaveSeen, EmitRow, SkipRows, EndPoll, AbortPoll
<1> DEFINE Served(e) == emitted[e] > 0 \/ e \in excused \/ \E s \in Pollers : Emits(s, e)
           ServedNext(e) == \/ emitted'[e] > 0 \/ e \in excused'
                            \/ \E s \in Pollers :
                                 /\ poll'[s].pc = "emit"
                                 /\ \E i \in 1..Len(poll'[s].events) : poll'[s].events[i] = e
<1>3. \A j \in 1..Len(table) :
        table[j].time <= seen.time /\ table[j].time \notin crowded => Served(table[j])
  BY <1>2 DEF MissInv
<1>4. ASSUME \A j \in 1..Len(table') :
               table'[j].time <= seen'.time /\ table'[j].time \notin crowded'
                 => ServedNext(table'[j])
      PROVE  MissInv'
  BY <1>4 DEF MissInv, Emits
<1>5. ASSUME \A e \in Entries : Served(e) => ServedNext(e), UNCHANGED <<table, seen, crowded>>
      PROVE  MissInv'
  <2> HIDE DEF Served, ServedNext
  <2> QED BY <1>1, <1>3, <1>4, <1>5
<1>6. ASSUME UNCHANGED <<emitted, excused, poll>>
      PROVE  \A e \in Entries : Served(e) => ServedNext(e)
  BY <1>6 DEF Emits
\* A poll that creates no runs moves.
<1>7. ASSUME NEW s \in Pollers, poll[s].pc # "emit", \A u \in Pollers \ {s} : poll'[u] = poll[u],
             emitted' = emitted, excused \subseteq excused'
      PROVE  \A e \in Entries : Served(e) => ServedNext(e)
  BY <1>7 DEF Emits
\* A poll leaves its events, all excused.
<1>8. ASSUME NEW s \in Pollers, poll[s].pc = "emit", \A u \in Pollers \ {s} : poll'[u] = poll[u],
             emitted' = emitted,
             \/ excused' = excused \cup Range(poll[s].events)
             \/ poll[s].events = <<>> /\ excused' = excused
      PROVE  \A e \in Entries : Served(e) => ServedNext(e)
  <2>1. ASSUME NEW e \in Entries, Emits(s, e) PROVE e \in excused'
    <3>1. poll[s].events # <<>> /\ e \in Range(poll[s].events)
      BY <1>1, <2>1, LenProperties, NotionConstants DEF Emits, Range
    <3> QED BY <1>8, <3>1
  <2> QED BY <1>8, <2>1 DEF Emits
<1>9. CASE \E r \in Rows : TouchRow(r)
  <2>1. PICK r \in Rows : TouchRow(r)
    BY <1>9
  <2>2. /\ \A j \in 1..Len(table') :
             (\E i \in 1..Len(table) : table'[j] = table[i]) \/ table'[j].time = minute
        /\ crowded \subseteq crowded'
        /\ (\E i \in 1..Len(table) : table[i].time = minute) => minute \in crowded'
    BY <2>1, TouchedRows
  <2>3. UNCHANGED <<seen, emitted, excused, poll>>
    BY <2>1 DEF TouchRow
  <2>4. \A e : Served(e) => ServedNext(e)
    BY <2>3 DEF Emits
  <2>5. ASSUME NEW j \in 1..Len(table'), table'[j].time = minute, table'[j].time <= seen.time
        PROVE  table'[j].time \in crowded'
    BY <1>1, <2>2, <2>5 DEF ReachedInv, Reached
  <2> HIDE DEF Served, ServedNext
  <2> QED BY <1>3, <1>4, <2>2, <2>3, <2>4, <2>5
<1>10. CASE UNCHANGED <<table, seen, crowded, emitted, excused, poll>>
  BY <1>5, <1>6, <1>10
<1>11. CASE WriteSeen
  BY <1>5, <1>6, <1>11 DEF WriteSeen
<1>12. ASSUME NEW s \in Pollers, StartPoll(s) \/ GiveUpPoll(s) \/ PollDatabase(s) PROVE MissInv'
  <2>1. /\ poll[s].pc # "emit" /\ \A u \in Pollers \ {s} : poll'[u] = poll[u]
        /\ emitted' = emitted /\ excused \subseteq excused' /\ UNCHANGED <<table, seen, crowded>>
    BY <1>1, <1>12 DEF StartPoll, GiveUpPoll, PollDatabase
  <2> QED BY <1>5, <1>7, <2>1
<1>13. ASSUME NEW s \in Pollers, SkipRows(s) \/ EndPoll(s) PROVE MissInv'
  <2>1. /\ poll[s].pc = "emit" /\ \A u \in Pollers \ {s} : poll'[u] = poll[u]
        /\ emitted' = emitted /\ UNCHANGED <<table, seen, crowded>>
        /\ \/ excused' = excused \cup Range(poll[s].events)
           \/ poll[s].events = <<>> /\ excused' = excused
    BY <1>1, <1>13 DEF SkipRows, EndPoll
  <2> QED BY <1>5, <1>8, <2>1
<1>14. ASSUME NEW s \in Pollers, AbortPoll(s) PROVE MissInv'
  <2>1. /\ \A u \in Pollers \ {s} : poll'[u] = poll[u]
        /\ emitted' = emitted /\ UNCHANGED <<table, seen, crowded>>
        /\ excused' = IF poll[s].pc = "emit" THEN excused \cup Range(poll[s].events) ELSE excused
    BY <1>1, <1>14 DEF AbortPoll
  <2>2. CASE poll[s].pc = "emit"
    BY <1>5, <1>8, <2>1, <2>2
  <2>3. CASE poll[s].pc # "emit"
    BY <1>5, <1>7, <2>1, <2>3
  <2> QED BY <2>2, <2>3
<1>15. ASSUME NEW s \in Pollers, EmitRow(s) PROVE MissInv'
  <2> DEFINE h == Head(poll[s].events)
  <2>1. /\ h \in Entries
        /\ \A e : Emits(s, e)' <=> Emits(s, e) /\ e # h
        /\ \A u \in Pollers \ {s} : poll'[u] = poll[u]
    BY <1>15, EmittedRow DEF EmitRow
  <2>2. emitted' = [emitted EXCEPT ![h] = @ + 1] /\ UNCHANGED <<table, seen, crowded, excused>>
    BY <1>15 DEF EmitRow
  <2> HIDE DEF h
  <2>3. \A e \in Entries : emitted'[e] = IF e = h THEN emitted[h] + 1 ELSE emitted[e]
    BY <1>1, <2>1, <2>2
  <2>4. emitted'[h] > 0 /\ \A e \in Entries : emitted[e] > 0 => emitted'[e] > 0
    BY <1>1, <2>1, <2>3
  <2>5. \A u \in Pollers \ {s}, e \in Entries : Emits(u, e) => Emits(u, e)'
    BY <2>1 DEF Emits
  <2>6. \A e \in Entries : Served(e) => ServedNext(e)
    <3>1. ASSUME NEW e \in Entries, NEW u \in Pollers, Emits(u, e) PROVE ServedNext(e)
      <4>1. CASE u = s /\ e = h
        BY <2>4, <4>1
      <4>2. CASE u # s \/ e # h
        <5>1. Emits(u, e)'
          BY <2>1, <2>5, <3>1, <4>2
        <5> QED BY <5>1 DEF Emits
      <4> QED BY <4>1, <4>2
    <3>2. \A e \in Entries : emitted[e] > 0 \/ e \in excused => ServedNext(e)
      BY <2>2, <2>4
    <3> HIDE DEF ServedNext
    <3> QED BY <3>1, <3>2
  <2> HIDE DEF Served, ServedNext
  <2> QED BY <1>5, <2>2, <2>6
\* The poll saves what it has seen: every row it passes is among its events.
<1>16. ASSUME NEW s \in Pollers, SaveSeen(s) PROVE MissInv'
  <2>1. /\ seen = poll[s].base /\ seen' = poll[s].result /\ emitted' = emitted
        /\ \A u \in Pollers \ {s} : poll[u].pc = "idle" /\ poll'[u] = poll[u]
        /\ poll[s].pc = "save" /\ poll'[s].pc = "emit" /\ poll'[s].events = poll[s].events
        /\ UNCHANGED <<table, crowded, excused>>
    BY <1>1, <1>16 DEF SaveSeen, Polls
  <2>2. \A j \in 1..Len(table) :
          /\ seen.time < table[j].time /\ table[j].time <= seen'.time
          /\ table[j].time \notin crowded
          => Emits(s, table[j])' \/ table[j] \in excused
    <3>1. Gathered(s)
      BY <2>1 DEF PollInv
    <3>2. \A e : (\E i \in 1..Len(poll[s].events) : poll[s].events[i] = e) => Emits(s, e)'
      BY <2>1 DEF Emits
    <3> QED BY <2>1, <3>1, <3>2 DEF Gathered
  <2>3. \A e \in Entries : Served(e) => ServedNext(e)
    BY <2>1 DEF Emits
  <2>4. ASSUME NEW j \in 1..Len(table), table[j].time <= seen'.time, table[j].time \notin crowded
        PROVE  ServedNext(table[j])
    <3>1. CASE table[j].time <= seen.time
      <4> HIDE DEF Served, ServedNext
      <4> QED BY <1>1, <1>3, <2>3, <2>4, <3>1
    <3>2. CASE ~(table[j].time <= seen.time)
      <4>1. seen.time < table[j].time
        BY <1>1, <3>2
      <4> QED BY <2>1, <2>2, <2>4, <4>1 DEF Emits
    <3> QED BY <3>1, <3>2
  <2> HIDE DEF ServedNext, Served
  <2> QED BY <1>4, <2>1, <2>4
<1> HIDE DEF Served, ServedNext
<1> QED BY <1>9, <1>10, <1>11, <1>12, <1>13, <1>14, <1>15, <1>16
     DEF NotionNext, notionVars, PassMinute, BecomeDue, ReadSeen

LEMMA ListInit == NotionInit => ListInv
<1> HAVE NotionInit
<1>1. table = <<>> /\ Len(table) = 0
  BY NotionConstants DEF NotionInit
<1> QED BY <1>1 DEF ListInv, Listed

NotionInv == NotionTypeOK /\ ListInv /\ ReachedInv /\ PollInv /\ RunInv /\ MissInv

LEMMA NotionInvariant == NotionSpec => []NotionInv
<1>1. NotionInit => NotionInv
  BY NotionInitType, ListInit, ReachedInit, PollInit DEF NotionInv
<1>2. NotionInv /\ [NotionNext]_notionVars => NotionInv'
  BY NotionTypeStep, ListStep, ReachedStep, PollStep, RunStep, MissStep DEF NotionInv
<1> QED BY <1>1, <1>2, PTL DEF NotionSpec

\* No row version that Notion lists gets two runs, whatever fails or stops between
\* the statements of a poll, unless two polls or a poll and a save overlap.
THEOREM RowsRunOnce == NotionSpec => []RowStartsOneRun
<1>1. NotionInv => RowStartsOneRun
  <2> SUFFICES ASSUME NotionInv, NEW e \in Entries, emitted[e] > 1 PROVE notionStale
    BY DEF RowStartsOneRun
  <2>1. ~notionStale => emitted[e] \in {0, 1}
    BY DEF NotionInv, RunInv
  <2> QED BY <2>1
<1> QED BY <1>1, NotionInvariant, PTL

\* A row whose time the saved state has reached got its run when no poll is under
\* way, except the rows that the polls are known to pass over.
THEOREM RowsAreNotMissed == NotionSpec => []RowIsNotPassedOver
<1>1. NotionInv => RowIsNotPassedOver
  <2> SUFFICES ASSUME NotionInv, \A s \in Pollers : poll[s].pc = "idle", ~notionStale,
                      NEW i \in DOMAIN table, table[i].time <= seen.time,
                      table[i].time \notin crowded
               PROVE  emitted[table[i]] > 0 \/ table[i] \in excused
    BY DEF RowIsNotPassedOver
  <2>1. i \in 1..Len(table)
    BY LenProperties DEF NotionInv, NotionTypeOK
  <2>2. \/ emitted[table[i]] > 0 \/ table[i] \in excused
        \/ \E s \in Pollers : Emits(s, table[i])
    BY <2>1 DEF NotionInv, MissInv
  <2> QED BY <2>2 DEF Emits
<1> QED BY <1>1, NotionInvariant, PTL
=============================================================================

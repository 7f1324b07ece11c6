------------------------ MODULE PlanAndSharingProofs ------------------------
(***************************************************************************)
(* The plan of a user follows the subscriptions Stripe has, and the        *)
(* workspace connections keep a credential that works, for any number of   *)
(* checkouts, handlers, requests, accounts, connections and tasks.         *)
(***************************************************************************)
EXTENDS Billing, Connections, TLAPS, FiniteSetTheorems

-----------------------------------------------------------------------------
(* Billing. *)

Handling(h, kind) == handler[h].pc # "idle" /\ handler[h].event.kind = kind

\* The steps of the webhook's handler h, but for the delivery and its record.
HandlerStep(h) ==
    \/ ResolveUser(h) \/ MatchPending(h) \/ LoadSubscription(h) \/ PromoteWorkspace(h)
    \/ PromoteUser(h) \/ SetOverageItem(h) \/ ClearPending(h) \/ SyncCycles(h)
    \/ RecordFailure(h) \/ UnlinkCustomer(h) \/ HandlerSoloUser(h) \/ HandlerSoloOwned(h)

\* Events are told apart by their kind and their session.
LEMMA EventParts ==
    /\ \A k, l, s, t : Event(k, s) = Event(l, t) <=> k = l /\ s = t
    /\ \A k, s : Event(k, s).kind = k /\ Event(k, s).session = s
    /\ \A k \in Kinds, s \in Checkouts : Event(k, s) \in Events
    /\ \A e \in Events : /\ e.kind \in Kinds /\ e.session \in Checkouts
                         /\ e = Event(e.kind, e.session)
<1>1. \A k, s : Event(k, s).kind = k /\ Event(k, s).session = s
  BY DEF Event
<1>2. \A e \in Events : /\ e.kind \in Kinds /\ e.session \in Checkouts
                        /\ e = Event(e.kind, e.session)
  BY DEF Event, Events
<1>3. \A k \in Kinds, s \in Checkouts : Event(k, s) \in Events
  BY DEF Event, Events
<1> QED
  BY <1>1, <1>2, <1>3

HandlerPcs == {"idle", "resolve", "settings", "subscription", "workspace", "user", "item", "clear",
               "sync", "fail", "unlink", "soloUser", "soloOwned", "record"}
RequestPcs == {"idle", "save", "soloOwned", "soloUser", "revertUser", "revertOwned"}
HandlerRecords == [pc: HandlerPcs, event: Events \cup {None}]
RequestRecords == [pc: RequestPcs, session: Checkouts \cup {None}]
SessionRecords == [session: {"none", "open", "paid", "expired"},
                   sub: {"none", "active", "canceling", "ended"}, customer: Checkouts \cup {None}]
WorkspaceRecords == [plan: Plans, item: Checkouts \cup {None}, cycle: Checkouts \cup {None}]

\* The types, and that a handler at work has an event.
PlanTyped ==
    /\ userPlan \in Plans /\ extra \in Plans \cup {"none"} /\ workspace \in WorkspaceRecords
    /\ customer \in Checkouts \cup {None} /\ pending \in Checkouts \cup {None}
EventsTyped == events \subseteq Events /\ logged \subseteq events
HandlersTyped ==
    /\ handler \in [Handlers -> HandlerRecords]
    /\ \A h \in Handlers : handler[h].pc # "idle" => handler[h].event \in events
BillingTypes ==
    /\ PlanTyped /\ stripe \in [Checkouts -> SessionRecords] /\ EventsTyped /\ HandlersTyped
    /\ request \in [Requests -> RequestRecords]
    /\ declined \subseteq Checkouts /\ upset \in BOOLEAN /\ billFaults \in 0..MaxBillFaults

LEMMA BillingTypesSuffice == BillingTypes => BillingTypeOK
BY DEF BillingTypes, BillingTypeOK, PlanTyped, EventsTyped, HandlersTyped, HandlerPcs, RequestPcs,
       HandlerRecords, RequestRecords, SessionRecords, WorkspaceRecords

\* Handler records, and a handler that moves on.
LEMMA HandlerMoves ==
    ASSUME HandlersTyped, NEW h \in Handlers, NEW pc \in HandlerPcs, To(h, pc)
    PROVE  /\ handler' \in [Handlers -> HandlerRecords]
           /\ handler'[h].pc = pc /\ handler'[h].event = handler[h].event
           /\ \A g \in Handlers : g # h => handler'[g] = handler[g]
           /\ \A g \in Handlers : handler'[g].event = handler[g].event
BY DEF HandlersTyped, HandlerRecords, To

\* Request records, and a request that moves on.
LEMMA RequestMoves ==
    ASSUME request \in [Requests -> RequestRecords], NEW q \in Requests, NEW pc \in RequestPcs,
           request' = [request EXCEPT ![q].pc = pc]
    PROVE  /\ request' \in [Requests -> RequestRecords]
           /\ request'[q].pc = pc /\ request'[q].session = request[q].session
           /\ \A r \in Requests : r # q => request'[r] = request[r]
BY DEF RequestRecords

\* The workspace records the steps write.
LEMMA WorkspaceWrites ==
    ASSUME workspace \in WorkspaceRecords, NEW s \in Checkouts \cup {None}, NEW p \in Plans
    PROVE  /\ [workspace EXCEPT !.plan = p] \in WorkspaceRecords
           /\ [workspace EXCEPT !.item = s] \in WorkspaceRecords
           /\ [workspace EXCEPT !.plan = "solo", !.cycle = None] \in WorkspaceRecords
           /\ Synced(s) \in WorkspaceRecords
           /\ workspace.plan \in Plans
           /\ Synced(s).plan = workspace.plan
           /\ workspace.plan = "solo" => Synced(s) = workspace
BY DEF WorkspaceRecords, Plans, Synced

\* A fault that happens leaves one fewer.
LEMMA FaultsLeft ==
    ASSUME billFaults \in 0..MaxBillFaults, billFaults > 0
    PROVE  billFaults - 1 \in 0..MaxBillFaults
BY BillingAssumption

LEMMA BillingInitType == BillingInit => BillingTypes
<1> SUFFICES ASSUME BillingInit PROVE BillingTypes
  OBVIOUS
<1>1. handler \in [Handlers -> HandlerRecords] /\ \A h \in Handlers : handler[h].pc = "idle"
  BY DEF BillingInit, Idle, HandlerRecords, HandlerPcs
<1>2. stripe \in [Checkouts -> SessionRecords] /\ request \in [Requests -> RequestRecords]
  BY DEF BillingInit, NoRequest, SessionRecords, RequestRecords, RequestPcs
<1>3. PlanTyped
  BY DEF BillingInit, PlanTyped, WorkspaceRecords, Plans
<1>4. billFaults \in 0..MaxBillFaults
  BY BillingAssumption DEF BillingInit
<1>5. EventsTyped /\ HandlersTyped /\ declined \subseteq Checkouts /\ upset \in BOOLEAN
  BY <1>1 DEF BillingInit, EventsTyped, HandlersTyped
<1> QED
  BY <1>1, <1>2, <1>3, <1>4, <1>5 DEF BillingTypes

\* A step of a handler keeps the types.
LEMMA HandlerTypeStep ==
    ASSUME BillingTypes, NEW h \in Handlers, HandlerStep(h)
    PROVE  BillingTypes'
<1> USE DEF planVars
<1>1. handler[h].pc # "idle"
  BY DEF HandlerStep, HandlerAt, ResolveUser, MatchPending, LoadSubscription, PromoteWorkspace,
         PromoteUser, SetOverageItem, ClearPending, SyncCycles, RecordFailure, UnlinkCustomer,
         HandlerSoloUser, HandlerSoloOwned
<1>2. handler[h].event \in Events /\ SessionOf(h) \in Checkouts
  BY <1>1, EventParts DEF BillingTypes, EventsTyped, HandlersTyped, SessionOf
<1>3. PICK pc \in HandlerPcs : To(h, pc)
  BY DEF HandlerStep, HandlerPcs, ResolveUser, MatchPending, LoadSubscription, PromoteWorkspace,
         PromoteUser, SetOverageItem, ClearPending, SyncCycles, RecordFailure, UnlinkCustomer,
         HandlerSoloUser, HandlerSoloOwned
<1>4. UNCHANGED <<stripe, events, logged, request, declined, upset, billFaults>>
  BY DEF HandlerStep, ResolveUser, MatchPending, LoadSubscription, PromoteWorkspace,
         PromoteUser, SetOverageItem, ClearPending, SyncCycles, RecordFailure, UnlinkCustomer,
         HandlerSoloUser, HandlerSoloOwned
<1>5. HandlersTyped'
  BY <1>1, <1>3, <1>4, HandlerMoves DEF HandlersTyped, BillingTypes
<1>6. PlanTyped'
  <2> USE DEF PlanTyped, BillingTypes, Plans
  <2>1. CASE ResolveUser(h) \/ LoadSubscription(h) \/ PromoteUser(h)
    BY <2>1 DEF ResolveUser, LoadSubscription, PromoteUser
  <2>2. CASE MatchPending(h)
    BY <2>2, <1>2 DEF MatchPending, SessionRecords
  <2>3. CASE PromoteWorkspace(h)
    BY <2>3, WorkspaceWrites DEF PromoteWorkspace
  <2>4. CASE SetOverageItem(h)
    BY <2>4, <1>2, WorkspaceWrites DEF SetOverageItem
  <2>5. CASE ClearPending(h) \/ RecordFailure(h) \/ UnlinkCustomer(h) \/ HandlerSoloUser(h)
    BY <2>5 DEF ClearPending, RecordFailure, UnlinkCustomer, HandlerSoloUser
  <2>6. CASE SyncCycles(h)
    BY <2>6, <1>2, WorkspaceWrites DEF SyncCycles
  <2>7. CASE HandlerSoloOwned(h)
    BY <2>7, WorkspaceWrites DEF HandlerSoloOwned, SoloOwned
  <2> QED
    BY <2>1, <2>2, <2>3, <2>4, <2>5, <2>6, <2>7 DEF HandlerStep
<1> QED
  BY <1>4, <1>5, <1>6 DEF BillingTypes, EventsTyped

\* Every step keeps the types.
LEMMA BillingTypeStep == BillingTypes /\ [BillingNext]_billingVars => BillingTypes'
<1> SUFFICES ASSUME BillingTypes, [BillingNext]_billingVars PROVE BillingTypes'
  OBVIOUS
<1> USE DEF planVars
<1>a. ASSUME events \subseteq events', UNCHANGED handler PROVE HandlersTyped'
  BY <1>a DEF BillingTypes, HandlersTyped
<1>b. ASSUME UNCHANGED <<handler, events, logged>> PROVE HandlersTyped' /\ EventsTyped'
  BY <1>b DEF BillingTypes, HandlersTyped, EventsTyped
<1>c. ASSUME NEW k \in Kinds, NEW s \in Checkouts, events' \subseteq events \cup {Event(k, s)} PROVE events' \subseteq Events
  BY <1>c, EventParts DEF BillingTypes, EventsTyped
<1>1. ASSUME NEW s \in Checkouts, Pay(s) \/ Expire(s) \/ Decline(s) \/ FailRenewal(s) \/ EndSubscription(s)
      PROVE  BillingTypes'
  <2>1. events \subseteq events' /\ UNCHANGED <<handler, logged, request, billFaults>>
    BY <1>1 DEF Pay, Expire, Decline, FailRenewal, EndSubscription
  <2>2. events' \subseteq Events
    BY <1>1, EventParts DEF Pay, Expire, Decline, FailRenewal, EndSubscription, BillingTypes,
                            EventsTyped, Kinds
  <2>3. stripe' \in [Checkouts -> SessionRecords]
    BY <1>1 DEF Pay, Expire, Decline, FailRenewal, EndSubscription, BillingTypes, SessionRecords
  <2>4. PlanTyped' /\ declined' \subseteq Checkouts /\ upset' \in BOOLEAN
    BY <1>1 DEF Pay, Expire, Decline, FailRenewal, EndSubscription, BillingTypes, PlanTyped
  <2> QED
    BY <2>1, <2>2, <2>3, <2>4, <1>a DEF BillingTypes, EventsTyped
<1>2. ASSUME NEW s \in Checkouts, NEW q \in Requests, StartCheckout(q, s) PROVE BillingTypes'
  <2>1. stripe' \in [Checkouts -> SessionRecords] /\ PlanTyped'
    BY <1>2 DEF StartCheckout, SessionRecords, BillingTypes, PlanTyped
  <2>2. request' \in [Requests -> RequestRecords]
    BY <1>2 DEF StartCheckout, BillingTypes, RequestRecords, RequestPcs
  <2>3. declined' \subseteq Checkouts /\ upset' \in BOOLEAN /\ UNCHANGED <<handler, events, logged, billFaults>>
    BY <1>2 DEF StartCheckout, BillingTypes
  <2> QED
    BY <2>1, <2>2, <2>3, <1>b DEF BillingTypes
<1>3. ASSUME NEW h \in Handlers, NEW e \in events, Deliver(h, e) PROVE BillingTypes'
  <2>1. HandlersTyped'
    BY <1>3 DEF Deliver, BillingTypes, HandlersTyped, EventsTyped, HandlerRecords, HandlerPcs
  <2> QED
    BY <1>3, <2>1 DEF Deliver, BillingTypes, PlanTyped, EventsTyped
<1>4. ASSUME NEW h \in Handlers, HandlerStep(h) PROVE BillingTypes'
  BY <1>4, HandlerTypeStep
<1>5. ASSUME NEW h \in Handlers, RecordEvent(h) \/ FailDelivery(h) PROVE BillingTypes'
  <2>1. HandlersTyped'
    BY <1>5 DEF RecordEvent, FailDelivery, BillingTypes, HandlersTyped, HandlerRecords, HandlerPcs, Idle
  <2>2. EventsTyped'
    BY <1>5 DEF RecordEvent, FailDelivery, HandlerAt, BillingTypes, HandlersTyped, EventsTyped
  <2>3. PlanTyped' /\ upset' \in BOOLEAN /\ billFaults' \in 0..MaxBillFaults
    BY <1>5, FaultsLeft DEF RecordEvent, FailDelivery, BillingTypes, PlanTyped
  <2> QED
    BY <1>5, <2>1, <2>2, <2>3 DEF RecordEvent, FailDelivery, BillingTypes
<1>6. ASSUME NEW h \in Handlers, SwallowFailure(h) PROVE BillingTypes'
  <2>1. handler[h].pc # "idle" /\ \E pc \in HandlerPcs : To(h, pc)
    BY <1>6 DEF SwallowFailure, HandlerPcs
  <2>2. HandlersTyped'
    BY <1>6, <2>1, HandlerMoves DEF SwallowFailure, BillingTypes, HandlersTyped
  <2>3. PlanTyped' /\ upset' \in BOOLEAN /\ billFaults' \in 0..MaxBillFaults
    BY <1>6, FaultsLeft DEF SwallowFailure, BillingTypes, PlanTyped, Plans
  <2> QED
    BY <1>6, <2>2, <2>3 DEF SwallowFailure, BillingTypes, EventsTyped
<1>7. ASSUME NEW q \in Requests, SavePending(q) \/ FailRequest(q) PROVE BillingTypes'
  <2>1. request' \in [Requests -> RequestRecords]
    BY <1>7 DEF SavePending, FailRequest, BillingTypes, RequestRecords, NoRequest, RequestPcs
  <2>2. PlanTyped' /\ upset' \in BOOLEAN /\ billFaults' \in 0..MaxBillFaults
    BY <1>7, FaultsLeft DEF SavePending, FailRequest, BillingTypes, PlanTyped, RequestRecords
  <2> QED
    BY <1>7, <2>1, <2>2, <1>b DEF SavePending, FailRequest, BillingTypes
<1>8. ASSUME NEW q \in Requests, ChangeToSolo(q) PROVE BillingTypes'
  <2>1. CASE \E s \in Checkouts :
               /\ stripe' = [stripe EXCEPT ![s].sub = "canceling"]
               /\ events' = events \cup (IF stripe[s].sub = "active" THEN {Event("updated", s)} ELSE {})
               /\ UNCHANGED <<request, upset, billFaults>>
    <3>1. PICK s \in Checkouts :
            /\ stripe' = [stripe EXCEPT ![s].sub = "canceling"]
            /\ events' = events \cup (IF stripe[s].sub = "active" THEN {Event("updated", s)} ELSE {})
            /\ UNCHANGED <<request, upset, billFaults>>
      BY <2>1
    <3>2. stripe' \in [Checkouts -> SessionRecords]
      BY <3>1 DEF BillingTypes, SessionRecords
    <3>3. events' \subseteq events \cup {Event("updated", s)} /\ events \subseteq events'
      BY <3>1
    <3> QED
      BY <1>8, <3>1, <3>2, <3>3, <1>a, <1>c DEF ChangeToSolo, BillingTypes, PlanTyped, EventsTyped, Kinds
  <2>2. CASE request' = [request EXCEPT ![q].pc = "soloOwned"] /\ UNCHANGED <<stripe, events>>
    <3>1. request' \in [Requests -> RequestRecords]
      BY <2>2, RequestMoves DEF BillingTypes, RequestPcs
    <3>2. upset' \in BOOLEAN /\ billFaults' \in 0..MaxBillFaults
      <4>1. billFaults' = billFaults \/ (billFaults > 0 /\ billFaults' = billFaults - 1)
        BY <1>8 DEF ChangeToSolo
      <4>2. upset' \in BOOLEAN
        BY <1>8 DEF ChangeToSolo, BillingTypes
      <4> QED
        BY <4>1, <4>2, FaultsLeft DEF BillingTypes
    <3> QED
      BY <1>8, <2>2, <3>1, <3>2, <1>b DEF ChangeToSolo, BillingTypes, PlanTyped
  <2> QED
    BY <1>8, <2>1, <2>2 DEF ChangeToSolo, ActiveFor
<1>9. ASSUME NEW q \in Requests, Reconcile(q) PROVE BillingTypes'
  <2>1. request' \in [Requests -> RequestRecords]
    BY <1>9, RequestMoves DEF Reconcile, BillingTypes, RequestPcs
  <2>2. upset' \in BOOLEAN /\ billFaults' \in 0..MaxBillFaults
    <3>1. billFaults' = billFaults \/ (billFaults > 0 /\ billFaults' = billFaults - 1)
      BY <1>9 DEF Reconcile
    <3>2. upset' \in BOOLEAN
      BY <1>9 DEF Reconcile, BillingTypes
    <3> QED
      BY <3>1, <3>2, FaultsLeft DEF BillingTypes
  <2>3. PlanTyped'
    BY <1>9, WorkspaceWrites DEF Reconcile, ActiveFor, BillingTypes, PlanTyped
  <2> QED
    BY <1>9, <2>1, <2>2, <2>3, <1>b DEF Reconcile, BillingTypes
<1>10. ASSUME NEW q \in Requests, RequestSoloOwned(q) PROVE BillingTypes'
  <2>1. request' \in [Requests -> RequestRecords]
    BY <1>10 DEF RequestSoloOwned, BillingTypes, RequestPcs, RequestRecords
  <2>2. PlanTyped'
    BY <1>10, WorkspaceWrites DEF RequestSoloOwned, SoloOwned, BillingTypes, PlanTyped, Plans
  <2> QED
    BY <1>10, <2>1, <2>2, <1>b DEF RequestSoloOwned, BillingTypes
<1>11. ASSUME NEW q \in Requests, RequestSoloUser(q) PROVE BillingTypes'
  <2>1. request' \in [Requests -> RequestRecords]
    BY <1>11 DEF RequestSoloUser, BillingTypes, RequestPcs, RequestRecords
  <2> QED
    BY <1>11, <2>1, <1>b DEF RequestSoloUser, BillingTypes, PlanTyped, Plans
<1>12. ASSUME NEW q \in Requests, ConvertToSolo(q) PROVE BillingTypes'
  BY <1>12, <1>b DEF ConvertToSolo, BillingTypes, PlanTyped, Plans
<1>13. ASSUME NEW q \in Requests, Resume(q) PROVE BillingTypes'
  <2>1. PICK s \in Checkouts : /\ stripe' = [stripe EXCEPT ![s].sub = "active"]
                               /\ events' = events \cup {Event("updated", s)}
                               /\ workspace' = Synced(s)
    BY <1>13 DEF Resume, ActiveFor
  <2>2. stripe' \in [Checkouts -> SessionRecords]
    BY <2>1 DEF BillingTypes, SessionRecords
  <2>3. PlanTyped'
    BY <1>13, <2>1, WorkspaceWrites DEF Resume, BillingTypes, PlanTyped
  <2> QED
    BY <1>13, <2>1, <2>2, <2>3, <1>a, <1>c DEF Resume, BillingTypes, EventsTyped, Kinds
<1>14. CASE UNCHANGED billingVars
  BY <1>14, <1>b DEF billingVars, BillingTypes, PlanTyped
<1> QED
  BY <1>1, <1>2, <1>3, <1>4, <1>5, <1>6, <1>7, <1>8, <1>9, <1>10, <1>11, <1>12, <1>13, <1>14
     DEF BillingNext, HandlerStep

-----------------------------------------------------------------------------
(* The plan follows the subscriptions.  While no fault was passed over, no     *)
(* attempt declined and no checkout met another change of the plan, one session *)
(* at a time is open, paid for or has events to handle, and each step of the    *)
(* handler of its events finds what the steps before it wrote.                  *)

Settled == ~upset /\ declined = {}

Sent(kind, s) == Event(kind, s) \in events
Logged(kind, s) == Event(kind, s) \in logged
Due(kind, s) == Sent(kind, s) /\ ~Logged(kind, s)

AllSolo == userPlan = "solo" /\ workspace.plan = "solo" /\ workspace.cycle = None
AllWorkspace == userPlan = "workspace" /\ workspace.plan = "workspace"

\* What Stripe has sent of a session follows its state there; the customer of an
\* open or living one is the user's.
EventsOfSession ==
    \A s \in Checkouts :
        /\ ~Sent("declined", s)
        /\ Sent("expired", s) => stripe[s].session = "expired"
        /\ Sent("completed", s) <=> stripe[s].session = "paid"
        /\ stripe[s].sub # "none" <=> stripe[s].session = "paid"
        /\ Sent("updated", s) => stripe[s].session = "paid"
        /\ Sent("deleted", s) <=> stripe[s].sub = "ended"
        /\ Sent("canceled", s) => stripe[s].sub = "ended"
        /\ Sent("deleted", s) \/ Sent("invoice", s) => Logged("completed", s)
        /\ stripe[s].session = "open" \/ Live(s) => customer = stripe[s].customer /\ customer # None

\* A session that may still change the plan.  There is at most one.
Current(s) == stripe[s].session = "open" \/ Live(s) \/ \E kind \in Kinds : Due(kind, s)
OneCurrent == \A s, t \in Checkouts : Current(s) /\ Current(t) => s = t

\* The steps the handler of each kind of event takes.
OnItsPath(h) ==
    LET kind == handler[h].event.kind  pc == handler[h].pc IN
    /\ kind = "completed" => pc \in {"resolve", "settings", "subscription", "workspace", "user",
                                     "item", "clear", "sync", "record"}
    /\ kind = "expired" => pc \in {"resolve", "fail", "soloUser", "soloOwned", "record"}
    /\ kind = "invoice" => pc \in {"resolve", "fail", "record"}
    /\ kind = "updated" => pc \in {"resolve", "sync", "record"}
    /\ kind = "canceled" => pc \in {"resolve", "soloUser", "soloOwned", "record"}
    /\ kind = "deleted" => pc \in {"resolve", "unlink", "soloUser", "soloOwned", "record"}

HandlersWork ==
    /\ \A h \in Handlers : handler[h].pc # "idle" => handler[h].event \notin logged /\ OnItsPath(h)
    /\ \A g, h \in Handlers : /\ handler[g].pc # "idle" /\ handler[h].pc # "idle"
                              /\ handler[g].event = handler[h].event
                              => g = h

\* A request writes the solo plan when nothing is paid for or open, and none is
\* served from a payment until its completion is handled.
RequestsWork ==
    \A q \in Requests, s \in Checkouts :
        /\ stripe[s].session = "open" /\ request[q].pc = "save" => request[q].session = s
        /\ request[q].pc \in SoloPcs => stripe[s].session # "open" /\ ~Live(s)
        /\ Due("completed", s) => request[q].pc = "idle"

\* An open session finds the solo plan, and is the pending one once it is saved.
OpenSessions ==
    \A s \in Checkouts : stripe[s].session = "open" =>
        AllSolo /\ (pending = s \/ \E q \in Requests : request[q].pc = "save")

\* The handler of a completed checkout: what its steps have written.
Promoting ==
    /\ \A s \in Checkouts : Due("completed", s) => Live(s) /\ (pending = s \/ AllWorkspace)
    /\ \A h \in Handlers : Handling(h, "completed") =>
         /\ handler[h].pc \in {"user", "item", "clear"} => workspace.plan = "workspace"
         /\ handler[h].pc \in {"item", "clear"} => userPlan = "workspace"
         /\ handler[h].pc \in {"sync", "record"} => AllWorkspace

\* The handler of a deleted subscription still finds its user, or has written
\* the solo plan, or is about to.
Demoting ==
    /\ \A s \in Checkouts : Due("deleted", s) =>
         \/ customer = stripe[s].customer \/ AllSolo
         \/ \E h \in Handlers : /\ handler[h].event = Event("deleted", s)
                                /\ handler[h].pc \in {"soloUser", "soloOwned"}
    /\ \A h \in Handlers : Handling(h, "deleted") =>
         /\ handler[h].pc = "soloOwned" => userPlan = "solo"
         /\ handler[h].pc = "record" => AllSolo

\* The plan once the events that change it are handled.
PlanAtRest ==
    /\ \A s \in Checkouts : Live(s) /\ Logged("completed", s) => AllWorkspace
    /\ (\A s \in Checkouts : ~Live(s) /\ ~Due("deleted", s)) => AllSolo

PlanParts == /\ EventsOfSession /\ OneCurrent /\ HandlersWork /\ RequestsWork /\ OpenSessions
             /\ Promoting /\ Demoting /\ PlanAtRest
PlanInv == Settled => PlanParts

\* A state that is settled after a step was so before it.
LEMMA SettledBefore == BillingTypes /\ [BillingNext]_billingVars /\ Settled' => Settled
<1> SUFFICES ASSUME BillingTypes, [BillingNext]_billingVars, Settled' PROVE Settled
  OBVIOUS
<1>1. upset => upset'
  BY DEF BillingNext, billingVars, Pay, Expire, Decline, FailRenewal, EndSubscription, StartCheckout,
         Deliver, ResolveUser, MatchPending, LoadSubscription, PromoteWorkspace, PromoteUser,
         SetOverageItem, ClearPending, SyncCycles, RecordFailure, UnlinkCustomer, HandlerSoloUser,
         HandlerSoloOwned, RecordEvent, FailDelivery, SwallowFailure, SavePending, ChangeToSolo,
         Reconcile, RequestSoloOwned, RequestSoloUser, ConvertToSolo, Resume, FailRequest
<1>2. declined \subseteq declined'
  BY DEF BillingNext, billingVars, Pay, Expire, Decline, FailRenewal, EndSubscription, StartCheckout,
         Deliver, ResolveUser, MatchPending, LoadSubscription, PromoteWorkspace, PromoteUser,
         SetOverageItem, ClearPending, SyncCycles, RecordFailure, UnlinkCustomer, HandlerSoloUser,
         HandlerSoloOwned, RecordEvent, FailDelivery, SwallowFailure, SavePending, ChangeToSolo,
         Reconcile, RequestSoloOwned, RequestSoloUser, ConvertToSolo, Resume, FailRequest
<1> QED
  BY <1>1, <1>2 DEF Settled

\* A handler at work handles an event that is due, so its session is the current one.
LEMMA AtWork ==
    ASSUME BillingTypes, HandlersWork, NEW h \in Handlers, handler[h].pc # "idle"
    PROVE  /\ SessionOf(h) \in Checkouts /\ handler[h].event.kind \in Kinds
           /\ handler[h].event = Event(handler[h].event.kind, SessionOf(h))
           /\ Due(handler[h].event.kind, SessionOf(h)) /\ Current(SessionOf(h))
           /\ OnItsPath(h)
BY EventParts DEF BillingTypes, HandlersTyped, EventsTyped, HandlersWork, SessionOf, Due, Sent,
                  Logged, Current

\* While a handler writes the solo plan, or is about to, nothing is paid for or open.
LEMMA NothingPaid ==
    ASSUME BillingTypes, EventsOfSession, OneCurrent, HandlersWork, NEW h \in Handlers,
           handler[h].pc # "idle", handler[h].event.kind \in {"expired", "canceled", "deleted"},
           NEW t \in Checkouts
    PROVE  ~Live(t) /\ stripe[t].session # "open" /\ ~Due("completed", t)
<1> DEFINE s == SessionOf(h)
<1>1. s \in Checkouts /\ Sent(handler[h].event.kind, s) /\ Current(s)
  BY AtWork DEF Due
<1>2. ~Live(s) /\ stripe[s].session # "open" /\ ~Due("completed", s)
  BY <1>1 DEF EventsOfSession, Live, Due
<1>3. "completed" \in Kinds
  BY DEF Kinds
<1> QED
  BY <1>1, <1>2, <1>3 DEF OneCurrent, Current

\* A failed renewal is of a subscription whose completion is handled.
LEMMA RenewalIsLater ==
    ASSUME BillingTypes, EventsOfSession, OneCurrent, HandlersWork, NEW h \in Handlers,
           handler[h].pc # "idle", handler[h].event.kind = "invoice", NEW t \in Checkouts
    PROVE  stripe[t].session # "open" /\ ~Due("completed", t)
<1> DEFINE s == SessionOf(h)
<1>1. s \in Checkouts /\ Sent("invoice", s) /\ Current(s)
  BY AtWork DEF Due
<1>2. stripe[s].session # "open" /\ ~Due("completed", s)
  BY <1>1, EventParts DEF EventsOfSession, Due, Logged, Sent, BillingTypes, EventsTyped
<1>3. "completed" \in Kinds
  BY DEF Kinds
<1> QED
  BY <1>1, <1>2, <1>3 DEF OneCurrent, Current

\* Nothing Stripe or the event log knows changes.
LEMMA EventsFrame ==
    ASSUME UNCHANGED <<stripe, events, logged>>
    PROVE  /\ \A k, s : (Sent(k, s)' <=> Sent(k, s)) /\ (Logged(k, s)' <=> Logged(k, s))
                        /\ (Due(k, s)' <=> Due(k, s))
           /\ \A s : (Live(s)' <=> Live(s)) /\ (Current(s)' <=> Current(s))
           /\ OneCurrent => OneCurrent'
           /\ customer' = customer /\ EventsOfSession => EventsOfSession'
           /\ (\A s \in Checkouts : stripe[s].session # "open" /\ ~Live(s)) /\ EventsOfSession => EventsOfSession'
<1>1. \A k, s : Event(k, s)' = Event(k, s)
  BY DEF Event
<1>2. \A k, s : (Sent(k, s)' <=> Sent(k, s)) /\ (Logged(k, s)' <=> Logged(k, s)) /\ (Due(k, s)' <=> Due(k, s))
  BY <1>1 DEF Sent, Logged, Due
<1>3. \A s : (Live(s)' <=> Live(s)) /\ (Current(s)' <=> Current(s))
  BY <1>2 DEF Live, Current
<1>4. OneCurrent => OneCurrent'
  BY <1>3 DEF OneCurrent
<1>5. customer' = customer /\ EventsOfSession => EventsOfSession'
  BY <1>2, <1>3 DEF EventsOfSession
<1>6. (\A s \in Checkouts : stripe[s].session # "open" /\ ~Live(s)) /\ EventsOfSession => EventsOfSession'
  BY <1>2, <1>3 DEF EventsOfSession
<1> QED
  BY <1>2, <1>3, <1>4, <1>5, <1>6

\* A handler that moves on along its path.
LEMMA PathMoves ==
    ASSUME BillingTypes, HandlersWork, NEW h \in Handlers, handler[h].pc # "idle",
           NEW pc \in HandlerPcs, pc # "idle", To(h, pc), OnItsPath(h)', UNCHANGED logged
    PROVE  HandlersWork'
<1>1. \A g \in Handlers : g # h => handler'[g] = handler[g]
  BY HandlerMoves DEF BillingTypes
<1>2. \A g \in Handlers : handler'[g].event = handler[g].event /\ (handler'[g].pc # "idle" <=> handler[g].pc # "idle")
  BY <1>1, HandlerMoves DEF BillingTypes
<1>3. \A g \in Handlers : g # h => (OnItsPath(g)' <=> OnItsPath(g))
  BY <1>1 DEF OnItsPath
<1> QED
  BY <1>2, <1>3 DEF HandlersWork

\* What the steps of a handler leave alone.
LEMMA HandlerStepFrame ==
    ASSUME BillingTypes, HandlersWork, NEW h \in Handlers, HandlerStep(h)
    PROVE  /\ handler[h].pc # "idle" /\ UNCHANGED <<stripe, events, logged, request>>
           /\ HandlersWork'
           /\ \A g \in Handlers : handler'[g].event = handler[g].event
           /\ \A g \in Handlers : g # h => handler'[g] = handler[g]
<1>1. handler[h].pc # "idle"
  BY DEF HandlerStep, HandlerAt, ResolveUser, MatchPending, LoadSubscription, PromoteWorkspace,
         PromoteUser, SetOverageItem, ClearPending, SyncCycles, RecordFailure, UnlinkCustomer,
         HandlerSoloUser, HandlerSoloOwned
<1>2. UNCHANGED <<stripe, events, logged, request>>
  BY DEF HandlerStep, ResolveUser, MatchPending, LoadSubscription, PromoteWorkspace,
         PromoteUser, SetOverageItem, ClearPending, SyncCycles, RecordFailure, UnlinkCustomer,
         HandlerSoloUser, HandlerSoloOwned
<1>3. OnItsPath(h) /\ handler[h].event.kind \in Kinds
  BY <1>1, AtWork
<1>4. \E pc \in HandlerPcs : pc # "idle" /\ To(h, pc) /\ OnItsPath(h)'
  <2>1. \A pc \in HandlerPcs : To(h, pc) =>
          /\ handler'[h].pc = pc /\ handler'[h].event = handler[h].event
    BY HandlerMoves DEF BillingTypes
  <2>2. CASE ResolveUser(h) /\ handler[h].event.kind # "declined"
    <3>1. PICK pc \in HandlerPcs : To(h, pc) /\ pc # "idle" /\ OnItsPath(h)'
      BY <1>3, <2>1, <2>2 DEF ResolveUser, HandlerPcs, OnItsPath, Kinds
    <3> QED
      BY <3>1
  <2>3. CASE ResolveUser(h) /\ handler[h].event.kind = "declined"
    <3>1. PICK pc \in HandlerPcs : To(h, pc) /\ pc # "idle"
      BY <2>3 DEF ResolveUser, HandlerPcs
    <3> QED
      BY <2>1, <2>3, <3>1 DEF OnItsPath
  <2>4. CASE MatchPending(h) \/ LoadSubscription(h) \/ PromoteWorkspace(h) \/ PromoteUser(h)
    BY <1>3, <2>1, <2>4 DEF MatchPending, LoadSubscription, PromoteWorkspace, PromoteUser, HandlerAt,
                            HandlerPcs, OnItsPath
  <2>5. CASE SetOverageItem(h) \/ ClearPending(h) \/ SyncCycles(h)
    BY <1>3, <2>1, <2>5 DEF SetOverageItem, ClearPending, SyncCycles, HandlerAt, HandlerPcs, OnItsPath
  <2>6. CASE RecordFailure(h) \/ UnlinkCustomer(h) \/ HandlerSoloUser(h) \/ HandlerSoloOwned(h)
    BY <1>3, <2>1, <2>6 DEF RecordFailure, UnlinkCustomer, HandlerSoloUser, HandlerSoloOwned,
                            HandlerAt, HandlerPcs, OnItsPath, Kinds
  <2> QED
    BY <2>2, <2>3, <2>4, <2>5, <2>6 DEF HandlerStep
<1>5. HandlersWork'
  BY <1>1, <1>2, <1>4, PathMoves
<1> QED
  BY <1>1, <1>2, <1>4, <1>5, HandlerMoves DEF BillingTypes

\* While a completion is handled its session is the only one, nothing is open,
\* nothing deleted: what the handler writes can only disturb Promoting.
LEMMA OnlyPromoting ==
    ASSUME BillingTypes, PlanParts, NEW h \in Handlers, HandlerStep(h), Handling(h, "completed")
    PROVE  OpenSessions' /\ Demoting' /\ PlanAtRest'
<1> DEFINE s == SessionOf(h)
<1>1. s \in Checkouts /\ Due("completed", s) /\ Current(s)
  BY AtWork DEF Handling, PlanParts
<1>2. Live(s) /\ stripe[s].session = "paid"
  BY <1>1 DEF PlanParts, Promoting, EventsOfSession, Due
<1>3. \A t \in Checkouts : Current(t) => t = s
  BY <1>1 DEF PlanParts, OneCurrent
<1>4. "deleted" \in Kinds
  BY DEF Kinds
<1>5. \A t \in Checkouts : ~Due("deleted", t)
  BY <1>1, <1>2, <1>3, <1>4 DEF PlanParts, EventsOfSession, Due, Current, Live
<1>6. \A t \in Checkouts : stripe[t].session # "open" /\ (Live(t) => t = s)
  BY <1>2, <1>3 DEF Current
<1>7. \A g \in Handlers : ~Handling(g, "deleted")
  BY <1>5, AtWork DEF PlanParts, Handling
<1>8. UNCHANGED <<stripe, events, logged>> /\ \A g \in Handlers : ~Handling(g, "deleted")'
  BY <1>7, HandlerStepFrame DEF PlanParts, Handling
<1>9. \A t \in Checkouts : (Due("deleted", t)' <=> Due("deleted", t)) /\ (Live(t)' <=> Live(t))
                           /\ (Logged("completed", t)' <=> Logged("completed", t))
  BY <1>8, EventsFrame
<1>10. OpenSessions'
  BY <1>6, <1>8 DEF OpenSessions
<1>11. Demoting'
  BY <1>5, <1>8, <1>9 DEF Demoting
<1>12. PlanAtRest'
  BY <1>1, <1>2, <1>6, <1>9 DEF PlanAtRest, Due
<1> QED
  BY <1>10, <1>11, <1>12

\* While nothing is open or paid for, what a handler writes can only disturb
\* Demoting and the last part of PlanAtRest.
LEMMA OnlyDemoting ==
    ASSUME BillingTypes, PlanParts, NEW h \in Handlers, HandlerStep(h),
           handler[h].event.kind \in {"expired", "canceled", "deleted"}
    PROVE  /\ EventsOfSession' /\ OpenSessions' /\ Promoting'
           /\ \A s \in Checkouts : ~Live(s)'
<1>1. handler[h].pc # "idle" /\ UNCHANGED <<stripe, events, logged>>
  BY HandlerStepFrame DEF PlanParts
<1>2. \A t \in Checkouts : ~Live(t) /\ stripe[t].session # "open" /\ ~Due("completed", t)
  BY <1>1, NothingPaid DEF PlanParts
<1>3. \A g \in Handlers : ~Handling(g, "completed")
  BY <1>2, AtWork DEF PlanParts, Handling
<1>4. \A g \in Handlers : ~Handling(g, "completed")'
  BY <1>3, HandlerStepFrame DEF PlanParts, Handling
<1>5. \A t \in Checkouts : ~Live(t)' /\ ~Due("completed", t)'
  BY <1>1, <1>2, EventsFrame
<1>6. OpenSessions' /\ Promoting'
  BY <1>1, <1>2, <1>4, <1>5 DEF OpenSessions, Promoting
<1> QED
  BY <1>1, <1>2, <1>5, <1>6, EventsFrame DEF PlanParts

\* The steps of the handler of a completed checkout.
LEMMA PromotingStep ==
    ASSUME BillingTypes, PlanParts, NEW h \in Handlers, HandlerStep(h), Handling(h, "completed")
    PROVE  EventsOfSession' /\ Promoting'
<1> DEFINE s == SessionOf(h)
<1>1. s \in Checkouts /\ Due("completed", s) /\ Current(s) /\ OnItsPath(h) /\ handler[h].event = Event("completed", s)
  BY AtWork DEF Handling, PlanParts
<1>2. Live(s) /\ (pending = s \/ AllWorkspace) /\ customer = stripe[s].customer
  BY <1>1 DEF PlanParts, Promoting, EventsOfSession
<1>3. "completed" \in Kinds
  BY DEF Kinds
<1>4. \A t \in Checkouts : Due("completed", t) => t = s
  BY <1>1, <1>3 DEF PlanParts, OneCurrent, Current
<1>5. \A g \in Handlers : Handling(g, "completed") => g = h
  <2> SUFFICES ASSUME NEW g \in Handlers, Handling(g, "completed") PROVE g = h
    OBVIOUS
  <2>1. handler[g].event = Event("completed", SessionOf(g)) /\ SessionOf(g) \in Checkouts /\ Due("completed", SessionOf(g))
    BY AtWork DEF Handling, PlanParts
  <2> QED
    BY <1>1, <1>4, <2>1 DEF PlanParts, HandlersWork, Handling
<1>6. UNCHANGED <<stripe, events, logged>>
      /\ \A g \in Handlers : handler'[g].event = handler[g].event /\ (g # h => handler'[g] = handler[g])
  BY HandlerStepFrame DEF PlanParts
<1>7. \A g \in Handlers : Handling(g, "completed")' => g = h
  BY <1>5, <1>6 DEF Handling
<1>8. \A t \in Checkouts : (Due("completed", t)' <=> Due("completed", t)) /\ (Live(t)' <=> Live(t))
  BY <1>6, EventsFrame
<1>9. \A pc \in HandlerPcs : To(h, pc) => handler'[h].pc = pc
  BY HandlerMoves DEF BillingTypes
<1>10. ASSUME UNCHANGED customer, pending' = s \/ AllWorkspace',
              handler'[h].pc \in {"user", "item", "clear"} => workspace'.plan = "workspace",
              handler'[h].pc \in {"item", "clear"} => userPlan' = "workspace",
              handler'[h].pc \in {"sync", "record"} => AllWorkspace'
       PROVE  EventsOfSession' /\ Promoting'
  <2>1. EventsOfSession'
    BY <1>6, <1>10, EventsFrame DEF PlanParts
  <2>2. Promoting'
    BY <1>2, <1>4, <1>7, <1>8, <1>10 DEF Promoting
  <2> QED
    BY <2>1, <2>2
<1>11. /\ handler[h].pc \in {"user", "item", "clear"} => workspace.plan = "workspace"
       /\ handler[h].pc \in {"item", "clear"} => userPlan = "workspace"
       /\ handler[h].pc \in {"sync", "record"} => AllWorkspace
  BY DEF PlanParts, Promoting
<1>12. handler[h].event.kind = "completed"
  BY DEF Handling
<1>13. workspace \in WorkspaceRecords /\ (workspace.plan = "solo" \/ workspace.plan = "workspace")
  BY DEF BillingTypes, PlanTyped, WorkspaceRecords, Plans
<1> USE DEF planVars, HandlerPcs, AllWorkspace, HandlerAt
<1>14. CASE ResolveUser(h)
  <2>1. To(h, "settings")
    BY <1>12, <1>14 DEF ResolveUser
  <2> QED
    BY <1>2, <1>9, <1>10, <1>14, <2>1 DEF ResolveUser
<1>15. CASE MatchPending(h)
  BY <1>2, <1>9, <1>10, <1>15 DEF MatchPending
<1>16. CASE LoadSubscription(h)
  BY <1>2, <1>9, <1>10, <1>16 DEF LoadSubscription
<1>17. CASE PromoteWorkspace(h)
  BY <1>2, <1>9, <1>10, <1>13, <1>17 DEF PromoteWorkspace, WorkspaceRecords
<1>18. CASE PromoteUser(h)
  BY <1>2, <1>9, <1>10, <1>11, <1>18 DEF PromoteUser
<1>19. CASE SetOverageItem(h)
  <2>1. workspace'.plan = workspace.plan
    BY <1>13, <1>19 DEF SetOverageItem, WorkspaceRecords
  <2> QED
    BY <1>2, <1>9, <1>10, <1>11, <1>19, <2>1 DEF SetOverageItem
<1>20. CASE ClearPending(h)
  BY <1>2, <1>9, <1>10, <1>11, <1>20 DEF ClearPending
<1>21. CASE SyncCycles(h)
  <2>1. workspace'.plan = workspace.plan
    BY <1>13, <1>21 DEF SyncCycles, Synced, WorkspaceRecords
  <2> QED
    BY <1>2, <1>9, <1>10, <1>11, <1>21, <2>1 DEF SyncCycles
<1>22. CASE RecordFailure(h) \/ UnlinkCustomer(h) \/ HandlerSoloUser(h) \/ HandlerSoloOwned(h)
  BY <1>1, <1>12, <1>22 DEF OnItsPath, RecordFailure, UnlinkCustomer, HandlerSoloUser, HandlerSoloOwned
<1> QED
  BY <1>14, <1>15, <1>16, <1>17, <1>18, <1>19, <1>20, <1>21, <1>22 DEF HandlerStep

\* The steps of a handler that ends with the solo plan.
LEMMA DemotingStep ==
    ASSUME BillingTypes, PlanParts, NEW h \in Handlers, HandlerStep(h),
           handler[h].event.kind \in {"expired", "canceled", "deleted"}
    PROVE  Demoting' /\ PlanAtRest'
<1> DEFINE s == SessionOf(h)
<1> USE DEF planVars, HandlerPcs, HandlerAt
<1>1. /\ handler[h].pc # "idle" /\ UNCHANGED <<stripe, events, logged>>
      /\ \A g \in Handlers : handler'[g].event = handler[g].event /\ (g # h => handler'[g] = handler[g])
  BY HandlerStepFrame DEF PlanParts
<1>2. s \in Checkouts /\ Current(s) /\ OnItsPath(h) /\ handler[h].event = Event(handler[h].event.kind, s)
  BY <1>1, AtWork DEF PlanParts
<1>3. \A t \in Checkouts : (Due("deleted", t)' <=> Due("deleted", t))
  BY <1>1, EventsFrame
<1>4. \A k, t : Event(k, t)' = Event(k, t)
  BY DEF Event
<1>5. \A pc \in HandlerPcs : To(h, pc) => handler'[h].pc = pc
  BY HandlerMoves DEF BillingTypes
<1>6. workspace \in WorkspaceRecords
  BY DEF BillingTypes, PlanTyped
<1>7. /\ userPlan = "solo" => userPlan' = "solo"
      /\ AllSolo => AllSolo'
  <2>1. CASE ResolveUser(h) \/ RecordFailure(h) \/ UnlinkCustomer(h) \/ HandlerSoloUser(h)
    BY <2>1 DEF ResolveUser, RecordFailure, UnlinkCustomer, HandlerSoloUser, AllSolo
  <2>2. CASE HandlerSoloOwned(h)
    BY <1>6, <2>2 DEF HandlerSoloOwned, SoloOwned, AllSolo, WorkspaceRecords
  <2>3. ASSUME ~ResolveUser(h), ~RecordFailure(h), ~UnlinkCustomer(h), ~HandlerSoloUser(h), ~HandlerSoloOwned(h)
        PROVE  FALSE
    <3>1. handler[h].pc \in {"settings", "subscription", "workspace", "user", "item", "clear", "sync"}
      BY <2>3 DEF HandlerStep, MatchPending, LoadSubscription, PromoteWorkspace, PromoteUser,
                  SetOverageItem, ClearPending, SyncCycles
    <3> QED
      BY <1>2, <3>1 DEF OnItsPath
  <2> QED
    BY <2>1, <2>2, <2>3
<1>8. \A t \in Checkouts : ~Live(t)'
  BY OnlyDemoting
<1>9. PlanAtRest'
  <2>1. ASSUME \A t \in Checkouts : ~Due("deleted", t)' PROVE AllSolo'
    <3>1. \A t \in Checkouts : ~Live(t) /\ ~Due("deleted", t)
      BY <1>1, <1>3, <2>1, NothingPaid DEF PlanParts
    <3> QED
      BY <1>7, <3>1 DEF PlanParts, PlanAtRest
  <2> QED
    BY <1>8, <2>1 DEF PlanAtRest
<1>10. CASE handler[h].event.kind # "deleted"
  <2>1. \A g \in Handlers : handler[g].event.kind = "deleted" => handler'[g] = handler[g]
    BY <1>1, <1>10
  <2>2. UNCHANGED customer
    <3>1. ~UnlinkCustomer(h) /\ ~MatchPending(h)
      BY <1>2, <1>10 DEF OnItsPath, UnlinkCustomer, MatchPending
    <3> QED
      BY <3>1 DEF HandlerStep, ResolveUser, LoadSubscription, PromoteWorkspace, PromoteUser,
         SetOverageItem, ClearPending, SyncCycles, RecordFailure, HandlerSoloUser, HandlerSoloOwned
  <2>3. \A t \in Checkouts, g \in Handlers : handler[g].event = Event("deleted", t) => handler'[g] = handler[g]
    BY <2>1, EventParts
  <2>4. ASSUME NEW t \in Checkouts, Due("deleted", t)
        PROVE  \/ customer' = stripe'[t].customer \/ AllSolo'
               \/ \E g \in Handlers : handler'[g].event = Event("deleted", t)' /\ handler'[g].pc \in {"soloUser", "soloOwned"}
    <3>1. \/ customer = stripe[t].customer \/ AllSolo
          \/ \E g \in Handlers : handler[g].event = Event("deleted", t) /\ handler[g].pc \in {"soloUser", "soloOwned"}
      BY <2>4 DEF PlanParts, Demoting
    <3> QED
      BY <1>1, <1>4, <1>7, <2>2, <2>3, <3>1
  <2>5. ASSUME NEW g \in Handlers, Handling(g, "deleted")'
        PROVE  /\ handler'[g].pc = "soloOwned" => userPlan' = "solo"
               /\ handler'[g].pc = "record" => AllSolo'
    <3>1. Handling(g, "deleted") /\ handler'[g] = handler[g]
      BY <1>1, <2>1, <2>5 DEF Handling
    <3> QED
      BY <1>7, <3>1 DEF PlanParts, Demoting
  <2> QED
    BY <1>3, <1>9, <2>4, <2>5 DEF Demoting
<1>11. CASE handler[h].event.kind = "deleted"
  <2>1. handler[h].event = Event("deleted", s) /\ Due("deleted", s) /\ "deleted" \in Kinds
    BY <1>1, <1>11, AtWork DEF PlanParts
  <2>2. \A t \in Checkouts : Due("deleted", t) => t = s
    BY <1>2, <2>1 DEF PlanParts, OneCurrent, Current
  <2>3. \A g \in Handlers : Handling(g, "deleted")' => g = h
    <3> SUFFICES ASSUME NEW g \in Handlers, Handling(g, "deleted")' PROVE g = h
      OBVIOUS
    <3>1. Handling(g, "deleted")
      BY <1>1 DEF Handling
    <3>2. handler[g].event = Event("deleted", SessionOf(g)) /\ SessionOf(g) \in Checkouts /\ Due("deleted", SessionOf(g))
      BY <3>1, AtWork DEF Handling, PlanParts
    <3> QED
      BY <1>1, <2>1, <2>2, <3>1, <3>2 DEF PlanParts, HandlersWork, Handling
  <2>4. \A g \in Handlers : handler[g].event = Event("deleted", s) /\ handler[g].pc # "idle" => g = h
    BY <1>1, <2>1 DEF PlanParts, HandlersWork
  <2>5. /\ handler[h].pc = "soloOwned" => userPlan = "solo"
        /\ handler[h].pc = "record" => AllSolo
        /\ handler[h].pc \notin {"soloUser", "soloOwned"} => customer = stripe[s].customer \/ AllSolo
    BY <1>1, <1>2, <1>11, <2>1, <2>4 DEF PlanParts, Demoting, Handling
  <2>6. ASSUME \/ customer' = stripe'[s].customer \/ AllSolo' \/ handler'[h].pc \in {"soloUser", "soloOwned"},
               handler'[h].pc = "soloOwned" => userPlan' = "solo",
               handler'[h].pc = "record" => AllSolo'
        PROVE  Demoting'
    <3>1. handler'[h].event = Event("deleted", s)
      BY <1>1, <2>1
    <3>2. \A t \in Checkouts : Due("deleted", t)' => t = s
      BY <1>3, <2>2
    <3> QED
      BY <1>4, <2>3, <2>6, <3>1, <3>2 DEF Demoting
  <2>7. CASE ResolveUser(h)
    <3>1. IF customer = stripe[s].customer THEN To(h, "unlink") ELSE To(h, "record")
      BY <1>11, <2>7 DEF ResolveUser, SessionOf
    <3> QED
      BY <1>1, <1>5, <1>7, <1>9, <2>5, <2>6, <2>7, <3>1 DEF ResolveUser
  <2>8. CASE UnlinkCustomer(h)
    BY <1>5, <1>9, <2>6, <2>8 DEF UnlinkCustomer
  <2>9. CASE HandlerSoloUser(h)
    BY <1>5, <1>9, <2>6, <2>9 DEF HandlerSoloUser
  <2>10. CASE HandlerSoloOwned(h)
    <3>1. AllSolo'
      BY <1>6, <2>5, <2>10 DEF HandlerSoloOwned, SoloOwned, AllSolo, WorkspaceRecords
    <3> QED
      BY <1>5, <1>9, <2>6, <2>10, <3>1 DEF HandlerSoloOwned
  <2>11. ASSUME ~ResolveUser(h), ~UnlinkCustomer(h), ~HandlerSoloUser(h), ~HandlerSoloOwned(h)
        PROVE  FALSE
    <3>1. handler[h].pc \in {"settings", "subscription", "workspace", "user", "item", "clear", "sync", "fail"}
      BY <2>11 DEF HandlerStep, MatchPending, LoadSubscription, PromoteWorkspace, PromoteUser,
                  SetOverageItem, ClearPending, SyncCycles, RecordFailure
    <3> QED
      BY <1>2, <1>11, <3>1 DEF OnItsPath
  <2> QED
    BY <1>9, <2>7, <2>8, <2>9, <2>10, <2>11
<1> QED
  BY <1>10, <1>11

\* The steps of the handler of a failed renewal or an update of the subscription.
LEMMA OtherHandlerStep ==
    ASSUME BillingTypes, PlanParts, NEW h \in Handlers, HandlerStep(h),
           handler[h].event.kind \in {"invoice", "updated", "declined"}
    PROVE  EventsOfSession' /\ OpenSessions' /\ Promoting' /\ Demoting' /\ PlanAtRest'
<1> DEFINE s == SessionOf(h)
<1> USE DEF planVars, HandlerPcs, HandlerAt
<1>1. /\ handler[h].pc # "idle" /\ UNCHANGED <<stripe, events, logged, request>>
      /\ \A g \in Handlers : handler'[g].event = handler[g].event /\ (g # h => handler'[g] = handler[g])
  BY HandlerStepFrame DEF PlanParts
<1>2. s \in Checkouts /\ Sent(handler[h].event.kind, s) /\ OnItsPath(h)
  BY <1>1, AtWork DEF PlanParts, Due
<1>3. handler[h].event.kind \in {"invoice", "updated"}
  BY <1>2 DEF PlanParts, EventsOfSession
<1>4. \A t \in Checkouts : /\ \A k : Due(k, t)' <=> Due(k, t)
                           /\ Live(t)' <=> Live(t)
                           /\ Logged("completed", t)' <=> Logged("completed", t)
  BY <1>1, EventsFrame
<1>5. ResolveUser(h) \/ SyncCycles(h) \/ (RecordFailure(h) /\ handler[h].event.kind = "invoice")
  BY <1>2, <1>3 DEF HandlerStep, OnItsPath, MatchPending, LoadSubscription, PromoteWorkspace, PromoteUser,
      SetOverageItem, ClearPending, RecordFailure, UnlinkCustomer, HandlerSoloUser, HandlerSoloOwned
<1>6. workspace \in WorkspaceRecords
  BY DEF BillingTypes, PlanTyped
<1>7. workspace'.plan = workspace.plan /\ UNCHANGED <<userPlan, customer>>
      /\ (workspace.plan = "solo" => workspace' = workspace)
  BY <1>5, <1>6 DEF ResolveUser, SyncCycles, RecordFailure, Synced, WorkspaceRecords
<1>8. (AllSolo => AllSolo') /\ (AllWorkspace => AllWorkspace')
  BY <1>7 DEF AllSolo, AllWorkspace
<1>9. pending' = pending \/ \A t \in Checkouts : stripe[t].session # "open" /\ ~Due("completed", t)
  <2>1. CASE RecordFailure(h) /\ handler[h].event.kind = "invoice"
    BY <1>1, <2>1, RenewalIsLater DEF PlanParts
  <2> QED
    BY <1>5, <2>1 DEF ResolveUser, SyncCycles
<1>10. \A g \in Handlers : \/ ~Handling(g, "completed") /\ ~Handling(g, "deleted")
                           \/ handler'[g] = handler[g]
  BY <1>1, <1>3 DEF Handling
<1>11. \A g \in Handlers : \A k : Handling(g, k)' => Handling(g, k)
  BY <1>1 DEF Handling
<1>12. EventsOfSession'
  BY <1>1, <1>7, EventsFrame DEF PlanParts
<1>13. OpenSessions'
  BY <1>1, <1>8, <1>9 DEF PlanParts, OpenSessions
<1>14. Promoting'
  <2>1. ASSUME NEW t \in Checkouts, Due("completed", t)' PROVE Live(t)' /\ (pending' = t \/ AllWorkspace')
    BY <1>4, <1>8, <1>9, <2>1 DEF PlanParts, Promoting
  <2>2. ASSUME NEW g \in Handlers, Handling(g, "completed")'
        PROVE  /\ handler'[g].pc \in {"user", "item", "clear"} => workspace'.plan = "workspace"
               /\ handler'[g].pc \in {"item", "clear"} => userPlan' = "workspace"
               /\ handler'[g].pc \in {"sync", "record"} => AllWorkspace'
    <3>1. Handling(g, "completed") /\ handler'[g] = handler[g]
      BY <1>10, <1>11, <2>2
    <3> QED
      BY <1>7, <1>8, <3>1 DEF PlanParts, Promoting
  <2> QED
    BY <2>1, <2>2 DEF Promoting
<1>15. Demoting'
  <2>1. ASSUME NEW t \in Checkouts, Due("deleted", t)'
        PROVE  \/ customer' = stripe'[t].customer \/ AllSolo'
               \/ \E g \in Handlers : handler'[g].event = Event("deleted", t)' /\ handler'[g].pc \in {"soloUser", "soloOwned"}
    <3>1. \/ customer = stripe[t].customer \/ AllSolo
          \/ \E g \in Handlers : handler[g].event = Event("deleted", t) /\ handler[g].pc \in {"soloUser", "soloOwned"}
      BY <1>4, <2>1 DEF PlanParts, Demoting
    <3>2. ASSUME NEW g \in Handlers, handler[g].event = Event("deleted", t) PROVE handler'[g] = handler[g]
      BY <1>1, <1>3, <3>2, EventParts
    <3>3. Event("deleted", t)' = Event("deleted", t)
      BY DEF Event
    <3> QED
      BY <1>1, <1>7, <1>8, <3>1, <3>2, <3>3
  <2>2. ASSUME NEW g \in Handlers, Handling(g, "deleted")'
        PROVE  /\ handler'[g].pc = "soloOwned" => userPlan' = "solo"
               /\ handler'[g].pc = "record" => AllSolo'
    <3>1. Handling(g, "deleted") /\ handler'[g] = handler[g]
      BY <1>10, <1>11, <2>2
    <3> QED
      BY <1>7, <1>8, <3>1 DEF PlanParts, Demoting
  <2> QED
    BY <2>1, <2>2 DEF Demoting
<1>16. PlanAtRest'
  BY <1>4, <1>8 DEF PlanParts, PlanAtRest
<1> QED
  BY <1>12, <1>13, <1>14, <1>15, <1>16

\* Every step of a handler keeps the invariant.
LEMMA HandlerPlanStep ==
    ASSUME BillingTypes, PlanParts, NEW h \in Handlers, HandlerStep(h)
    PROVE  PlanParts'
<1>1. /\ handler[h].pc # "idle" /\ UNCHANGED <<stripe, events, logged, request>> /\ HandlersWork'
  BY HandlerStepFrame DEF PlanParts
<1>2. handler[h].event.kind \in Kinds
  BY <1>1, AtWork DEF PlanParts
<1>3. OneCurrent'
  BY <1>1, EventsFrame DEF PlanParts
<1>4. RequestsWork'
  <2>1. \A t \in Checkouts : (Due("completed", t)' <=> Due("completed", t)) /\ (Live(t)' <=> Live(t))
    BY <1>1, EventsFrame
  <2> QED
    BY <1>1, <2>1 DEF PlanParts, RequestsWork
<1>5. CASE handler[h].event.kind = "completed"
  BY <1>1, <1>3, <1>4, <1>5, OnlyPromoting, PromotingStep DEF PlanParts, Handling
<1>6. CASE handler[h].event.kind \in {"expired", "canceled", "deleted"}
  BY <1>1, <1>3, <1>4, <1>6, OnlyDemoting, DemotingStep DEF PlanParts
<1>7. CASE handler[h].event.kind \in {"invoice", "updated", "declined"}
  BY <1>1, <1>3, <1>4, <1>7, OtherHandlerStep DEF PlanParts
<1> QED
  BY <1>2, <1>5, <1>6, <1>7 DEF Kinds

\* Events are logged and handlers move only as the step says.
LEMMA SameHandlers ==
    ASSUME UNCHANGED <<handler, logged>>
    PROVE  /\ HandlersWork => HandlersWork'
           /\ \A k, s : Logged(k, s)' <=> Logged(k, s)
           /\ \A h, k : Handling(h, k)' <=> Handling(h, k)
           /\ \A k, s : Event(k, s)' = Event(k, s)
<1>1. \A h : OnItsPath(h)' <=> OnItsPath(h)
  BY DEF OnItsPath
<1>2. HandlersWork => HandlersWork'
  BY <1>1 DEF HandlersWork
<1> QED
  BY <1>2 DEF Logged, Handling, Event

\* A step that leaves the plan, the customer, the pending session and what is
\* sent of a session alone, but for an update of a living subscription.
LEMMA PlanUntouched ==
    ASSUME BillingTypes, PlanParts, UNCHANGED <<handler, logged, userPlan, customer, pending>>,
           workspace'.plan = workspace.plan,
           workspace.plan = "solo" => workspace' = workspace,
           \A t \in Checkouts :
             /\ stripe'[t].session = stripe[t].session /\ stripe'[t].customer = stripe[t].customer
             /\ (Live(t)' <=> Live(t)) /\ (stripe'[t].sub = "ended" <=> stripe[t].sub = "ended")
             /\ (stripe'[t].sub = "none" <=> stripe[t].sub = "none")
             /\ \A k \in Kinds : Sent(k, t)' <=> Sent(k, t) \/ (k = "updated" /\ Sent(k, t)')
             /\ Sent("updated", t)' => Sent("updated", t) \/ Live(t)
    PROVE  /\ EventsOfSession' /\ OneCurrent' /\ HandlersWork' /\ Promoting' /\ Demoting' /\ PlanAtRest'
           /\ UNCHANGED request => RequestsWork' /\ OpenSessions'
<1>1. /\ \A t \in Checkouts : \A k \in Kinds \ {"updated"} : (Sent(k, t)' <=> Sent(k, t)) /\ (Due(k, t)' <=> Due(k, t))
      /\ \A k, t : Logged(k, t)' <=> Logged(k, t)
      /\ \A h, k : Handling(h, k)' <=> Handling(h, k)
      /\ \A k, t : Event(k, t)' = Event(k, t)
      /\ HandlersWork'
  BY SameHandlers DEF Due, PlanParts
<1>2. {"declined", "expired", "completed", "deleted", "canceled", "invoice"} \subseteq Kinds \ {"updated"}
  BY DEF Kinds
<1>3. (AllSolo => AllSolo') /\ (AllWorkspace => AllWorkspace')
  BY DEF AllSolo, AllWorkspace
<1>4. EventsOfSession'
  <2> SUFFICES ASSUME NEW s \in Checkouts
        PROVE  /\ ~Sent("declined", s)'
               /\ Sent("expired", s)' => stripe'[s].session = "expired"
               /\ Sent("completed", s)' <=> stripe'[s].session = "paid"
               /\ stripe'[s].sub # "none" <=> stripe'[s].session = "paid"
               /\ Sent("updated", s)' => stripe'[s].session = "paid"
               /\ Sent("deleted", s)' <=> stripe'[s].sub = "ended"
               /\ Sent("canceled", s)' => stripe'[s].sub = "ended"
               /\ Sent("deleted", s)' \/ Sent("invoice", s)' => Logged("completed", s)'
               /\ stripe'[s].session = "open" \/ Live(s)' => customer' = stripe'[s].customer /\ customer' # None
    BY DEF EventsOfSession
  <2>1. Live(s) => stripe[s].sub # "none"
    BY DEF Live
  <2> QED
    BY <1>1, <1>2, <2>1 DEF PlanParts, EventsOfSession
<1>5. OneCurrent'
  <2>1. \A t \in Checkouts : Current(t)' => Current(t)
    BY <1>1 DEF Current, Due
  <2> QED
    BY <2>1 DEF PlanParts, OneCurrent
<1>6. Promoting'
  BY <1>1, <1>2, <1>3 DEF PlanParts, Promoting
<1>7. Demoting'
  BY <1>1, <1>2, <1>3 DEF PlanParts, Demoting
<1>8. PlanAtRest'
  BY <1>1, <1>2, <1>3 DEF PlanParts, PlanAtRest
<1>9. UNCHANGED request => RequestsWork' /\ OpenSessions'
  BY <1>1, <1>2, <1>3 DEF PlanParts, RequestsWork, OpenSessions
<1> QED
  BY <1>1, <1>4, <1>5, <1>6, <1>7, <1>8, <1>9

\* The steps of the requests that meet no checkout.
LEMMA RequestPlanStep ==
    ASSUME BillingTypes, PlanParts, Settled', NEW q \in Requests,
           ChangeToSolo(q) \/ Reconcile(q) \/ ConvertToSolo(q) \/ Resume(q)
    PROVE  PlanParts'
<1> USE DEF planVars
<1>1. workspace \in WorkspaceRecords /\ stripe \in [Checkouts -> SessionRecords]
  BY DEF BillingTypes, PlanTyped
<1>2. \A t \in Checkouts : Live(t) /\ ~CheckoutUnderWay => AllWorkspace /\ t \in ActiveFor(customer)
  BY EventParts DEF PlanParts, EventsOfSession, PlanAtRest, Live, CheckoutUnderWay, Logged, Sent, ActiveFor
<1>3. ASSUME ~CheckoutUnderWay, \A t \in Checkouts : ~Live(t), NEW pc \in RequestPcs,
             request' = [request EXCEPT ![q].pc = pc], pc \in SoloPcs, UNCHANGED <<stripe, events, logged>>
      PROVE  RequestsWork' /\ OpenSessions'
  <2>1. \A t \in Checkouts : stripe[t].session # "open" /\ ~Due("completed", t)
    BY <1>3 DEF CheckoutUnderWay, Due, Sent, Logged
  <2>2. \A t \in Checkouts : stripe'[t].session # "open" /\ ~Due("completed", t)' /\ ~Live(t)'
    BY <1>3, <2>1, EventsFrame
  <2> QED
    BY <2>2 DEF RequestsWork, OpenSessions
<1>4. ASSUME NEW s \in Checkouts, Live(s),
             \/ stripe' = [stripe EXCEPT ![s].sub = "active"]
             \/ stripe' = [stripe EXCEPT ![s].sub = "canceling"],
             events' = events \/ events' = events \cup {Event("updated", s)}
      PROVE  \A t \in Checkouts :
             /\ stripe'[t].session = stripe[t].session /\ stripe'[t].customer = stripe[t].customer
             /\ (Live(t)' <=> Live(t)) /\ (stripe'[t].sub = "ended" <=> stripe[t].sub = "ended")
             /\ (stripe'[t].sub = "none" <=> stripe[t].sub = "none")
             /\ \A k \in Kinds : Sent(k, t)' <=> Sent(k, t) \/ (k = "updated" /\ Sent(k, t)')
             /\ Sent("updated", t)' => Sent("updated", t) \/ Live(t)
  <2>1. \A t \in Checkouts : /\ stripe'[t].session = stripe[t].session /\ stripe'[t].customer = stripe[t].customer
                             /\ t # s => stripe'[t].sub = stripe[t].sub
                             /\ stripe'[s].sub \in {"active", "canceling"}
    BY <1>1, <1>4 DEF SessionRecords
  <2>2. \A k, t : Event(k, t)' = Event(k, t)
    BY DEF Event
  <2>3. \A k, t : Sent(k, t)' => Sent(k, t) \/ (k = "updated" /\ t = s)
    BY <1>4, <2>2, EventParts DEF Sent
  <2>4. \A k, t : Sent(k, t) => Sent(k, t)'
    BY <1>4, <2>2 DEF Sent
  <2> QED
    BY <1>4, <2>1, <2>3, <2>4 DEF Live
<1>5. ASSUME UNCHANGED <<stripe, events>>
      PROVE  \A t \in Checkouts :
             /\ stripe'[t].session = stripe[t].session /\ stripe'[t].customer = stripe[t].customer
             /\ (Live(t)' <=> Live(t)) /\ (stripe'[t].sub = "ended" <=> stripe[t].sub = "ended")
             /\ (stripe'[t].sub = "none" <=> stripe[t].sub = "none")
             /\ \A k \in Kinds : Sent(k, t)' <=> Sent(k, t) \/ (k = "updated" /\ Sent(k, t)')
             /\ Sent("updated", t)' => Sent("updated", t) \/ Live(t)
  BY <1>5 DEF Live, Sent, Event
<1>6. CASE ChangeToSolo(q)
  <2>1. CASE \E s \in Checkouts :
               /\ Live(s) /\ stripe' = [stripe EXCEPT ![s].sub = "canceling"]
               /\ events' = events \cup (IF stripe[s].sub = "active" THEN {Event("updated", s)} ELSE {})
               /\ UNCHANGED request
    <3>1. PICK s \in Checkouts :
            /\ Live(s) /\ stripe' = [stripe EXCEPT ![s].sub = "canceling"]
            /\ events' = events \/ events' = events \cup {Event("updated", s)}
            /\ UNCHANGED request
      BY <2>1
    <3>2. \A t \in Checkouts :
             /\ stripe'[t].session = stripe[t].session /\ stripe'[t].customer = stripe[t].customer
             /\ (Live(t)' <=> Live(t)) /\ (stripe'[t].sub = "ended" <=> stripe[t].sub = "ended")
             /\ (stripe'[t].sub = "none" <=> stripe[t].sub = "none")
             /\ \A k \in Kinds : Sent(k, t)' <=> Sent(k, t) \/ (k = "updated" /\ Sent(k, t)')
             /\ Sent("updated", t)' => Sent("updated", t) \/ Live(t)
      BY <1>4, <3>1
    <3> QED
      BY <1>6, <3>1, <3>2, PlanUntouched DEF ChangeToSolo, PlanParts
  <2>2. CASE /\ request' = [request EXCEPT ![q].pc = "soloOwned"] /\ UNCHANGED <<stripe, events>>
             /\ upset' = (upset \/ (IF workspace.plan = "workspace" \/ extra = "workspace"
                                      THEN ActiveFor(customer) ELSE {}) # {} \/ CheckoutUnderWay)
    <3>1. ~CheckoutUnderWay /\ \A t \in Checkouts : ~Live(t)
      BY <1>2, <2>2 DEF Settled, AllWorkspace
    <3>2. RequestsWork' /\ OpenSessions'
      BY <1>3, <1>6, <2>2, <3>1 DEF ChangeToSolo, SoloPcs, RequestPcs
    <3> QED
      BY <1>5, <1>6, <2>2, <3>2, PlanUntouched DEF ChangeToSolo, PlanParts
  <2> QED
    BY <1>6, <2>1, <2>2 DEF ChangeToSolo, ActiveFor
<1>7. CASE Reconcile(q)
  <2>1. CASE \E s \in Checkouts : workspace' = Synced(s) /\ UNCHANGED request
    <3>1. workspace'.plan = workspace.plan /\ (workspace.plan = "solo" => workspace' = workspace)
      BY <1>1, <2>1 DEF Synced, WorkspaceRecords
    <3> QED
      BY <1>5, <1>7, <2>1, <3>1, PlanUntouched DEF Reconcile, PlanParts
  <2>2. CASE /\ request' = [request EXCEPT ![q].pc = "revertUser"] /\ UNCHANGED workspace
             /\ upset' = (upset \/ ActiveFor(customer) # {} \/ CheckoutUnderWay)
    <3>1. ~CheckoutUnderWay /\ \A t \in Checkouts : ~Live(t)
      BY <1>2, <2>2 DEF Settled
    <3>2. RequestsWork' /\ OpenSessions'
      BY <1>3, <1>7, <2>2, <3>1 DEF Reconcile, SoloPcs, RequestPcs
    <3> QED
      BY <1>5, <1>7, <2>2, <3>2, PlanUntouched DEF Reconcile, PlanParts
  <2> QED
    BY <1>7, <2>1, <2>2 DEF Reconcile, ActiveFor
<1>8. CASE ConvertToSolo(q)
  <2>1. userPlan' = userPlan
    BY <1>8 DEF ConvertToSolo, Settled, BillingTypes, PlanTyped, Plans
  <2> QED
    BY <1>5, <1>8, <2>1, PlanUntouched DEF ConvertToSolo, PlanParts
<1>9. CASE Resume(q)
  <2>1. PICK s \in Checkouts : /\ Live(s) /\ stripe' = [stripe EXCEPT ![s].sub = "active"]
                               /\ events' = events \cup {Event("updated", s)}
                               /\ workspace' = Synced(s)
    BY <1>9 DEF Resume, ActiveFor
  <2>2. workspace'.plan = workspace.plan /\ (workspace.plan = "solo" => workspace' = workspace)
    BY <1>1, <2>1 DEF Synced, WorkspaceRecords
  <2> QED
    BY <1>4, <1>9, <2>1, <2>2, PlanUntouched DEF Resume, PlanParts
<1> QED
  BY <1>6, <1>7, <1>8, <1>9

\* A request that writes the solo plan does so while nothing is open or paid for.
LEMMA RequestSoloStep ==
    ASSUME BillingTypes, PlanParts, NEW q \in Requests, RequestSoloOwned(q) \/ RequestSoloUser(q)
    PROVE  PlanParts'
<1> USE DEF planVars
<1>1. UNCHANGED <<stripe, events, logged, handler, customer, pending>> /\ request[q].pc \in SoloPcs
  BY DEF RequestSoloOwned, RequestSoloUser, SoloPcs
<1>2. \A t \in Checkouts : ~Live(t) /\ stripe[t].session # "open" /\ ~Due("completed", t)
  BY <1>1 DEF PlanParts, RequestsWork, SoloPcs
<1>3. \A t \in Checkouts : /\ ~Live(t)' /\ stripe'[t].session # "open" /\ ~Due("completed", t)'
                           /\ Due("deleted", t)' <=> Due("deleted", t)
  BY <1>1, <1>2, EventsFrame
<1>4. workspace \in WorkspaceRecords
  BY DEF BillingTypes, PlanTyped
<1>5. (userPlan = "solo" => userPlan' = "solo") /\ (AllSolo => AllSolo')
  BY <1>4 DEF RequestSoloOwned, RequestSoloUser, SoloOwned, AllSolo, WorkspaceRecords
<1>6. HandlersWork' /\ (\A h, k : Handling(h, k)' <=> Handling(h, k)) /\ \A k, s : Event(k, s)' = Event(k, s)
  BY <1>1, SameHandlers DEF PlanParts
<1>7. EventsOfSession' /\ OneCurrent'
  BY <1>1, EventsFrame DEF PlanParts
<1>8. RequestsWork' /\ OpenSessions'
  <2>1. \A r \in Requests : r # q => request'[r] = request[r]
    BY DEF RequestSoloOwned, RequestSoloUser, BillingTypes
  <2> QED
    BY <1>3 DEF RequestsWork, OpenSessions
<1>9. Promoting'
  <2>1. \A h \in Handlers : ~Handling(h, "completed")
    BY <1>2, AtWork DEF PlanParts, Handling
  <2> QED
    BY <1>3, <1>6, <2>1 DEF Promoting
<1>10. Demoting'
  BY <1>1, <1>3, <1>5, <1>6 DEF PlanParts, Demoting
<1>11. PlanAtRest'
  BY <1>2, <1>3, <1>5 DEF PlanParts, PlanAtRest
<1> QED
  BY <1>6, <1>7, <1>8, <1>9, <1>10, <1>11 DEF PlanParts

\* The session of a checkout is saved as the pending one.
LEMMA SavePlanStep ==
    ASSUME BillingTypes, PlanParts, NEW q \in Requests, SavePending(q)
    PROVE  PlanParts'
<1> USE DEF planVars
<1>1. /\ UNCHANGED <<stripe, events, logged, handler, customer, planVars>>
      /\ request[q].pc = "save" /\ pending' = request[q].session
      /\ request' = [request EXCEPT ![q] = NoRequest]
  BY DEF SavePending
<1>2. \A t \in Checkouts : /\ ~Due("completed", t)
                           /\ stripe[t].session = "open" => request[q].session = t
  BY <1>1 DEF PlanParts, RequestsWork
<1>3. \A k, t : (Due(k, t)' <=> Due(k, t)) /\ (Logged(k, t)' <=> Logged(k, t)) /\ (Live(t)' <=> Live(t))
  BY <1>1, EventsFrame
<1>4. HandlersWork' /\ (\A h, k : Handling(h, k)' <=> Handling(h, k)) /\ \A k, s : Event(k, s)' = Event(k, s)
  BY <1>1, SameHandlers DEF PlanParts
<1>5. EventsOfSession' /\ OneCurrent'
  BY <1>1, EventsFrame DEF PlanParts
<1>6. (AllSolo' <=> AllSolo) /\ (AllWorkspace' <=> AllWorkspace)
  BY <1>1 DEF AllSolo, AllWorkspace
<1>7. request'[q].pc = "idle" /\ \A r \in Requests : r # q => request'[r] = request[r]
  BY <1>1 DEF BillingTypes, NoRequest
<1>8. RequestsWork'
  BY <1>1, <1>3, <1>7 DEF PlanParts, RequestsWork, SoloPcs
<1>9. OpenSessions'
  BY <1>1, <1>2, <1>6 DEF PlanParts, OpenSessions
<1>10. Promoting'
  BY <1>1, <1>2, <1>3, <1>4, <1>6 DEF PlanParts, Promoting
<1>11. Demoting'
  BY <1>1, <1>3, <1>4, <1>6 DEF PlanParts, Demoting
<1>12. PlanAtRest'
  BY <1>3, <1>6 DEF PlanParts, PlanAtRest
<1> QED
  BY <1>4, <1>5, <1>8, <1>9, <1>10, <1>11, <1>12 DEF PlanParts

\* A checkout starts when nothing is open, paid for or to be handled.
LEMMA StartPlanStep ==
    ASSUME BillingTypes, PlanParts, Settled', NEW q \in Requests, NEW s \in Checkouts, StartCheckout(q, s)
    PROVE  PlanParts'
<1> USE DEF planVars
<1>1. /\ UNCHANGED <<userPlan, workspace, events, logged, handler>>
      /\ stripe[s].session = "none"
      /\ request' = [request EXCEPT ![q] = [pc |-> "save", session |-> s]]
      /\ Quiet /\ ~CheckoutUnderWay /\ \A t \in Checkouts : ~Live(t)
  BY DEF StartCheckout, Settled
<1>2. /\ \A k, t : ~Due(k, t) /\ (Sent(k, t) <=> Logged(k, t))
      /\ \A t \in Checkouts : stripe[t].session # "open"
      /\ \A h \in Handlers : handler[h].pc = "idle"
      /\ \A r \in Requests : request[r].pc = "idle"
  BY <1>1 DEF Quiet, CheckoutUnderWay, Due, Sent, Logged
<1>3. /\ stripe'[s].session = "open" /\ stripe'[s].sub = "none" /\ stripe'[s].customer = customer'
      /\ \A t \in Checkouts : t # s => stripe'[t] = stripe[t]
      /\ customer' # None
  BY BillingAssumption DEF StartCheckout, BillingTypes, SessionRecords
<1>4. \A k, t : /\ ~Due(k, t)' /\ (Sent(k, t)' <=> Sent(k, t)) /\ (Logged(k, t)' <=> Logged(k, t))
                /\ Event(k, t)' = Event(k, t)
  BY <1>1, <1>2 DEF Due, Sent, Logged, Event
<1>5. HandlersWork' /\ \A h \in Handlers : \A k : ~Handling(h, k)'
  BY <1>1, <1>2, SameHandlers DEF PlanParts, Handling
<1>6. AllSolo'
  BY <1>1, <1>2 DEF PlanParts, PlanAtRest, AllSolo
<1>7. \A t \in Checkouts : ~Live(t)' /\ (stripe'[t].session = "open" => t = s)
  BY <1>1, <1>2, <1>3 DEF Live
<1>8. EventsOfSession'
  <2>1. ASSUME NEW t \in Checkouts
        PROVE  /\ ~Sent("declined", t)'
               /\ Sent("expired", t)' => stripe'[t].session = "expired"
               /\ Sent("completed", t)' <=> stripe'[t].session = "paid"
               /\ stripe'[t].sub # "none" <=> stripe'[t].session = "paid"
               /\ Sent("updated", t)' => stripe'[t].session = "paid"
               /\ Sent("deleted", t)' <=> stripe'[t].sub = "ended"
               /\ Sent("canceled", t)' => stripe'[t].sub = "ended"
               /\ Sent("deleted", t)' \/ Sent("invoice", t)' => Logged("completed", t)'
               /\ stripe'[t].session = "open" \/ Live(t)' => customer' = stripe'[t].customer /\ customer' # None
    <3>1. CASE t = s
      BY <1>1, <1>3, <1>4, <1>7, <3>1 DEF PlanParts, EventsOfSession
    <3>2. CASE t # s
      BY <1>3, <1>4, <1>7, <3>2 DEF PlanParts, EventsOfSession
    <3> QED
      BY <3>1, <3>2
  <2> QED
    BY <2>1 DEF EventsOfSession
<1>9. OneCurrent'
  BY <1>4, <1>7 DEF OneCurrent, Current
<1>10. request'[q] = [pc |-> "save", session |-> s] /\ \A r \in Requests : r # q => request'[r] = request[r]
  BY <1>1 DEF BillingTypes
<1>11. RequestsWork'
  BY <1>2, <1>4, <1>7, <1>10 DEF RequestsWork, SoloPcs
<1>12. OpenSessions'
  BY <1>6, <1>10 DEF OpenSessions
<1>13. Promoting' /\ Demoting' /\ PlanAtRest'
  BY <1>4, <1>5, <1>6, <1>7 DEF Promoting, Demoting, PlanAtRest
<1> QED
  BY <1>5, <1>8, <1>9, <1>11, <1>12, <1>13 DEF PlanParts

\* What happens at Stripe to a session.
LEMMA StripePlanStep ==
    ASSUME BillingTypes, PlanParts, Settled', NEW s \in Checkouts,
           Pay(s) \/ Expire(s) \/ Decline(s) \/ FailRenewal(s) \/ EndSubscription(s)
    PROVE  PlanParts'
<1> USE DEF planVars
<1>1. UNCHANGED <<userPlan, workspace, customer, pending, logged, handler, request>> /\ Current(s)
  BY DEF Pay, Expire, Decline, FailRenewal, EndSubscription, Current
<1>2. stripe \in [Checkouts -> SessionRecords] /\ logged \subseteq events
  BY DEF BillingTypes, EventsTyped
<1>3. /\ HandlersWork'
      /\ \A k, t : (Logged(k, t)' <=> Logged(k, t)) /\ Event(k, t)' = Event(k, t)
      /\ \A h, k : Handling(h, k)' <=> Handling(h, k)
      /\ (AllSolo' <=> AllSolo) /\ (AllWorkspace' <=> AllWorkspace)
  BY <1>1, SameHandlers DEF PlanParts, AllSolo, AllWorkspace
<1>4. \A t \in Checkouts : t # s => ~Current(t)
  BY <1>1 DEF PlanParts, OneCurrent
<1>5. \A t \in Checkouts : t # s => stripe'[t] = stripe[t] /\ (Live(t)' <=> Live(t)) /\ (Current(t)' <=> Current(t))
                                    /\ \A k : Sent(k, t)' <=> Sent(k, t)
  <2>1. \A t \in Checkouts : t # s => stripe'[t] = stripe[t]
    BY <1>2 DEF Pay, Expire, Decline, FailRenewal, EndSubscription
  <2>2. \A k, t : t # s => (Sent(k, t)' <=> Sent(k, t))
    BY <1>3, EventParts DEF Sent, Pay, Expire, Decline, FailRenewal, EndSubscription
  <2> QED
    BY <1>3, <2>1, <2>2 DEF Live, Current, Due
<1>6. OneCurrent'
  BY <1>4, <1>5 DEF OneCurrent
<1>7. /\ \A t \in Checkouts : t # s => ~Live(t) /\ stripe[t].session # "open" /\ \A k \in Kinds : ~Due(k, t)
      /\ \A t \in Checkouts : t # s => ~Live(t)' /\ stripe'[t].session # "open" /\ \A k \in Kinds : ~Due(k, t)'
      /\ "completed" \in Kinds /\ "deleted" \in Kinds
  BY <1>4, <1>5 DEF Current, Kinds
<1>8. ASSUME /\ ~Sent("declined", s)'
             /\ Sent("expired", s)' => stripe'[s].session = "expired"
             /\ Sent("completed", s)' <=> stripe'[s].session = "paid"
             /\ stripe'[s].sub # "none" <=> stripe'[s].session = "paid"
             /\ Sent("updated", s)' => stripe'[s].session = "paid"
             /\ Sent("deleted", s)' <=> stripe'[s].sub = "ended"
             /\ Sent("canceled", s)' => stripe'[s].sub = "ended"
             /\ Sent("deleted", s)' \/ Sent("invoice", s)' => Logged("completed", s)
             /\ stripe'[s].session = "open" \/ Live(s)' => customer = stripe'[s].customer /\ customer # None
      PROVE  EventsOfSession'
  BY <1>1, <1>3, <1>5, <1>8 DEF PlanParts, EventsOfSession
<1>9. ASSUME stripe'[s].session = "open" => stripe[s].session = "open",
             Live(s)' => Live(s),
             Due("completed", s)' => Due("completed", s)
      PROVE  RequestsWork' /\ OpenSessions'
  BY <1>1, <1>3, <1>7, <1>9 DEF PlanParts, RequestsWork, OpenSessions
<1>10. ASSUME Due("completed", s)' => Live(s)' /\ (pending = s \/ AllWorkspace)
       PROVE  Promoting'
  BY <1>1, <1>3, <1>7, <1>10 DEF PlanParts, Promoting
<1>11. ASSUME Due("deleted", s)' => \/ customer = stripe'[s].customer \/ (Due("deleted", s) /\ UNCHANGED stripe)
       PROVE  Demoting'
  BY <1>1, <1>3, <1>7, <1>11 DEF PlanParts, Demoting
<1>12. ASSUME Live(s)' /\ Logged("completed", s) => AllWorkspace,
              ~Live(s)' /\ ~Due("deleted", s)' => ~Live(s) /\ ~Due("deleted", s)
       PROVE  PlanAtRest'
  BY <1>3, <1>7, <1>12 DEF PlanParts, PlanAtRest
<1>13. CASE Pay(s)
  <2>1. /\ stripe'[s].session = "paid" /\ stripe'[s].sub = "active" /\ stripe'[s].customer = stripe[s].customer
        /\ stripe[s].session = "open"
        /\ \A q \in Requests : request[q].pc = "idle"
    BY <1>2, <1>13 DEF Pay, Settled, SessionRecords
  <2>2. \A k : Sent(k, s)' <=> Sent(k, s) \/ k = "completed"
    BY <1>3, <1>13, EventParts DEF Sent, Pay
  <2>3. Live(s)' /\ ~Sent("completed", s) /\ ~Logged("completed", s) /\ pending = s /\ customer = stripe[s].customer
        /\ customer # None
    BY <1>2, <2>1 DEF PlanParts, EventsOfSession, OpenSessions, Live, Sent, Logged
  <2>4. EventsOfSession'
    BY <1>8, <2>1, <2>2, <2>3 DEF PlanParts, EventsOfSession
  <2>5. RequestsWork' /\ OpenSessions'
    BY <1>1, <1>7, <2>1 DEF RequestsWork, OpenSessions, SoloPcs
  <2>6. ~Due("deleted", s)'
    BY <2>1, <2>2 DEF PlanParts, EventsOfSession, Due
  <2> QED
    BY <1>3, <1>6, <1>10, <1>11, <1>12, <2>3, <2>4, <2>5, <2>6 DEF PlanParts
<1>14. CASE Expire(s)
  <2>1. /\ stripe'[s].session = "expired" /\ stripe'[s].sub = stripe[s].sub /\ stripe'[s].customer = stripe[s].customer
        /\ stripe[s].session = "open"
    BY <1>2, <1>14 DEF Expire, SessionRecords
  <2>2. \A k : Sent(k, s)' <=> Sent(k, s) \/ k = "expired"
    BY <1>3, <1>14, EventParts DEF Sent, Expire
  <2>3. ~Live(s) /\ ~Live(s)'
    BY <2>1 DEF PlanParts, EventsOfSession, Live
  <2>4. EventsOfSession'
    BY <1>8, <2>1, <2>2, <2>3 DEF PlanParts, EventsOfSession
  <2>5. ~Due("deleted", s)' /\ ~Due("deleted", s) /\ ~Due("completed", s)'
    BY <2>1, <2>2 DEF PlanParts, EventsOfSession, Due
  <2> QED
    BY <1>3, <1>6, <1>9, <1>10, <1>11, <1>12, <2>1, <2>3, <2>4, <2>5 DEF PlanParts
<1>15. CASE Decline(s)
  BY <1>15 DEF Decline, Settled
<1>16. CASE FailRenewal(s)
  <2>1. Live(s) /\ ~CheckoutUnderWay /\ UNCHANGED stripe
    BY <1>16 DEF FailRenewal, Settled
  <2>2. \A k : Sent(k, s)' <=> Sent(k, s) \/ k = "invoice"
    BY <1>3, <1>16, EventParts DEF Sent, FailRenewal
  <2>3. Logged("completed", s) /\ Live(s)' /\ (Due("deleted", s)' <=> Due("deleted", s))
    BY <1>3, <2>1, <2>2 DEF PlanParts, EventsOfSession, CheckoutUnderWay, Sent, Logged, Live, Due
  <2>4. EventsOfSession'
    BY <1>8, <2>1, <2>2, <2>3 DEF PlanParts, EventsOfSession
  <2>5. ~Due("completed", s)'
    BY <1>3, <2>3 DEF Due
  <2> QED
    BY <1>3, <1>6, <1>9, <1>10, <1>11, <1>12, <2>1, <2>3, <2>4, <2>5 DEF PlanParts, PlanAtRest
<1>17. CASE EndSubscription(s)
  <2>1. /\ Live(s) /\ ~CheckoutUnderWay /\ stripe'[s].sub = "ended"
        /\ stripe'[s].session = stripe[s].session /\ stripe'[s].customer = stripe[s].customer
    BY <1>2, <1>17 DEF EndSubscription, Settled, SessionRecords
  <2>2. /\ \A k : Sent(k, s) => Sent(k, s)'
        /\ \A k : Sent(k, s)' => Sent(k, s) \/ k = "deleted" \/ k = "canceled"
        /\ Sent("deleted", s)'
    BY <1>3, <1>17, EventParts DEF Sent, EndSubscription
  <2>3. Logged("completed", s) /\ ~Live(s)' /\ ~Sent("deleted", s) /\ customer = stripe[s].customer
    BY <2>1 DEF PlanParts, EventsOfSession, CheckoutUnderWay, Sent, Logged, Live
  <2>4. EventsOfSession'
    BY <1>8, <2>1, <2>2, <2>3 DEF PlanParts, EventsOfSession, Live
  <2>5. ~Due("completed", s)' /\ Due("deleted", s)'
    BY <1>2, <1>3, <2>2, <2>3 DEF Due, Sent, Logged
  <2> QED
    BY <1>3, <1>6, <1>9, <1>10, <1>11, <1>12, <2>1, <2>3, <2>4, <2>5 DEF PlanParts
<1> QED
  BY <1>13, <1>14, <1>15, <1>16, <1>17

\* A delivery begins.
LEMMA DeliverPlanStep ==
    ASSUME BillingTypes, PlanParts, NEW h \in Handlers, NEW e \in events, Deliver(h, e)
    PROVE  PlanParts'
<1> USE DEF planVars
<1>1. /\ UNCHANGED <<planVars, customer, pending, stripe, events, logged, request>>
      /\ handler[h].pc = "idle" /\ e \notin logged
      /\ \A g \in Handlers : handler[g].event # e
      /\ handler'[h].pc = "resolve" /\ handler'[h].event = e
      /\ \A g \in Handlers : g # h => handler'[g] = handler[g]
  BY DEF Deliver, BillingTypes, HandlersTyped
<1>2. EventsOfSession' /\ OneCurrent'
  BY <1>1, EventsFrame DEF PlanParts
<1>3. /\ \A k, t : (Due(k, t)' <=> Due(k, t)) /\ (Logged(k, t)' <=> Logged(k, t)) /\ (Live(t)' <=> Live(t))
      /\ \A k, t : Event(k, t)' = Event(k, t)
      /\ (AllSolo' <=> AllSolo) /\ (AllWorkspace' <=> AllWorkspace)
  BY <1>1, EventsFrame DEF AllSolo, AllWorkspace, Event
<1>4. HandlersWork'
  <2>1. OnItsPath(h)'
    BY <1>1 DEF OnItsPath
  <2>2. \A g \in Handlers : g # h => (OnItsPath(g)' <=> OnItsPath(g))
    BY <1>1 DEF OnItsPath
  <2> QED
    BY <1>1, <2>1, <2>2 DEF PlanParts, HandlersWork
<1>5. RequestsWork' /\ OpenSessions' /\ PlanAtRest'
  BY <1>1, <1>3 DEF PlanParts, RequestsWork, OpenSessions, PlanAtRest
<1>6. \A g \in Handlers : \A k : Handling(g, k)' => handler'[g].pc = "resolve" \/ (Handling(g, k) /\ handler'[g] = handler[g])
  BY <1>1 DEF Handling
<1>7. Promoting'
  BY <1>1, <1>3, <1>6 DEF PlanParts, Promoting
<1>8. Demoting'
  <2>1. ASSUME NEW t \in Checkouts, Due("deleted", t)'
        PROVE  \/ customer' = stripe'[t].customer \/ AllSolo'
               \/ \E g \in Handlers : handler'[g].event = Event("deleted", t)' /\ handler'[g].pc \in {"soloUser", "soloOwned"}
    BY <1>1, <1>3, <2>1 DEF PlanParts, Demoting
  <2> QED
    BY <1>1, <1>3, <1>6, <2>1 DEF PlanParts, Demoting
<1> QED
  BY <1>2, <1>4, <1>5, <1>7, <1>8 DEF PlanParts

\* The event is logged at the end of its handler.
LEMMA RecordPlanStep ==
    ASSUME BillingTypes, PlanParts, NEW h \in Handlers, RecordEvent(h)
    PROVE  PlanParts'
<1> USE DEF planVars
<1> DEFINE s == SessionOf(h)
           kind == handler[h].event.kind
<1>1. /\ UNCHANGED <<planVars, customer, pending, stripe, events, request>>
      /\ handler[h].pc = "record" /\ logged' = logged \cup {handler[h].event}
      /\ handler'[h].pc = "idle"
      /\ \A g \in Handlers : g # h => handler'[g] = handler[g]
  BY DEF RecordEvent, HandlerAt, Idle, BillingTypes, HandlersTyped
<1>2. s \in Checkouts /\ kind \in Kinds /\ handler[h].event = Event(kind, s) /\ Due(kind, s)
  BY <1>1, AtWork DEF PlanParts
<1>3. /\ \A k, t : Event(k, t)' = Event(k, t)
      /\ \A k, t : Sent(k, t)' <=> Sent(k, t)
      /\ \A k, t : Logged(k, t)' <=> Logged(k, t) \/ (k = kind /\ t = s)
      /\ \A k, t : Due(k, t)' <=> Due(k, t) /\ ~(k = kind /\ t = s)
      /\ \A t : Live(t)' <=> Live(t)
      /\ (AllSolo' <=> AllSolo) /\ (AllWorkspace' <=> AllWorkspace)
  <2>1. \A k, t : Event(k, t)' = Event(k, t)
    BY DEF Event
  <2>2. (\A t : Live(t)' <=> Live(t)) /\ (AllSolo' <=> AllSolo) /\ (AllWorkspace' <=> AllWorkspace)
    BY <1>1 DEF Live, AllSolo, AllWorkspace
  <2>3. \A k, t : Logged(k, t)' <=> Logged(k, t) \/ (k = kind /\ t = s)
    BY <1>1, <1>2, <2>1, EventParts DEF Logged
  <2>4. \A k, t : Sent(k, t)' <=> Sent(k, t)
    BY <1>1, <2>1 DEF Sent
  <2> QED
    BY <2>1, <2>2, <2>3, <2>4 DEF Due
<1>4. \A g \in Handlers : \A k : Handling(g, k)' => g # h /\ Handling(g, k) /\ handler'[g] = handler[g]
  BY <1>1 DEF Handling
<1>5. EventsOfSession'
  BY <1>1, <1>3 DEF PlanParts, EventsOfSession
<1>6. OneCurrent'
  <2>1. \A t \in Checkouts : Current(t)' => Current(t)
    BY <1>1, <1>3 DEF Current
  <2> QED
    BY <2>1 DEF PlanParts, OneCurrent
<1>7. HandlersWork'
  <2>1. \A g \in Handlers : g # h => (OnItsPath(g)' <=> OnItsPath(g))
    BY <1>1 DEF OnItsPath
  <2> QED
    BY <1>1, <2>1 DEF PlanParts, HandlersWork
<1>8. RequestsWork' /\ OpenSessions'
  BY <1>1, <1>3 DEF PlanParts, RequestsWork, OpenSessions
<1>9. Promoting'
  BY <1>1, <1>3, <1>4 DEF PlanParts, Promoting
<1>10. Demoting'
  <2>1. ASSUME NEW t \in Checkouts, Due("deleted", t)'
        PROVE  \/ customer' = stripe'[t].customer \/ AllSolo'
               \/ \E g \in Handlers : handler'[g].event = Event("deleted", t)' /\ handler'[g].pc \in {"soloUser", "soloOwned"}
    BY <1>1, <1>3, <2>1 DEF PlanParts, Demoting
  <2> QED
    BY <1>1, <1>3, <1>4, <2>1 DEF PlanParts, Demoting
<1>11. /\ kind = "completed" => AllWorkspace
       /\ kind = "deleted" => AllSolo
  BY <1>1 DEF PlanParts, Promoting, Demoting, Handling
<1>12. PlanAtRest'
  <2>1. ASSUME NEW t \in Checkouts, Live(t)', Logged("completed", t)' PROVE AllWorkspace'
    BY <1>3, <1>11, <2>1 DEF PlanParts, PlanAtRest
  <2>2. ASSUME \A t \in Checkouts : ~Live(t)' /\ ~Due("deleted", t)' PROVE AllSolo'
    BY <1>3, <1>11, <2>2 DEF PlanParts, PlanAtRest
  <2> QED
    BY <2>1, <2>2 DEF PlanAtRest
<1> QED
  BY <1>5, <1>6, <1>7, <1>8, <1>9, <1>10, <1>12 DEF PlanParts

\* A delivery fails.
LEMMA FailPlanStep ==
    ASSUME BillingTypes, PlanParts, Settled', NEW h \in Handlers, FailDelivery(h)
    PROVE  PlanParts'
<1> USE DEF planVars
<1>1. /\ UNCHANGED <<planVars, customer, pending, stripe, events, logged, request>>
      /\ handler[h].pc # "idle" /\ handler'[h].pc = "idle"
      /\ \A g \in Handlers : g # h => handler'[g] = handler[g]
      /\ ~(handler[h].event.kind = "deleted" /\ handler[h].pc \in SoloPcs)
  BY DEF FailDelivery, Idle, BillingTypes, HandlersTyped, Settled
<1>2. EventsOfSession' /\ OneCurrent'
  BY <1>1, EventsFrame DEF PlanParts
<1>3. /\ \A k, t : (Due(k, t)' <=> Due(k, t)) /\ (Logged(k, t)' <=> Logged(k, t)) /\ (Live(t)' <=> Live(t))
      /\ \A k, t : Event(k, t)' = Event(k, t)
      /\ (AllSolo' <=> AllSolo) /\ (AllWorkspace' <=> AllWorkspace)
  BY <1>1, EventsFrame DEF AllSolo, AllWorkspace, Event
<1>4. HandlersWork'
  <2>1. \A g \in Handlers : g # h => (OnItsPath(g)' <=> OnItsPath(g))
    BY <1>1 DEF OnItsPath
  <2> QED
    BY <1>1, <2>1 DEF PlanParts, HandlersWork
<1>5. RequestsWork' /\ OpenSessions' /\ PlanAtRest'
  BY <1>1, <1>3 DEF PlanParts, RequestsWork, OpenSessions, PlanAtRest
<1>6. \A g \in Handlers : \A k : Handling(g, k)' => Handling(g, k) /\ handler'[g] = handler[g]
  BY <1>1 DEF Handling
<1>7. Promoting'
  BY <1>1, <1>3, <1>6 DEF PlanParts, Promoting
<1>8. Demoting'
  <2>1. ASSUME NEW t \in Checkouts, Due("deleted", t)'
        PROVE  \/ customer' = stripe'[t].customer \/ AllSolo'
               \/ \E g \in Handlers : handler'[g].event = Event("deleted", t)' /\ handler'[g].pc \in {"soloUser", "soloOwned"}
    <3>1. \/ customer = stripe[t].customer \/ AllSolo
          \/ \E g \in Handlers : handler[g].event = Event("deleted", t) /\ handler[g].pc \in {"soloUser", "soloOwned"}
      BY <1>3, <2>1 DEF PlanParts, Demoting
    <3>2. \A g \in Handlers : handler[g].event = Event("deleted", t) /\ handler[g].pc \in {"soloUser", "soloOwned"} => g # h
      BY <1>1, EventParts DEF SoloPcs
    <3> QED
      BY <1>1, <1>3, <3>1, <3>2
  <2> QED
    BY <1>1, <1>3, <1>6, <2>1 DEF PlanParts, Demoting
<1> QED
  BY <1>2, <1>4, <1>5, <1>7, <1>8 DEF PlanParts

\* Every step keeps the invariant.
LEMMA PlanStep == BillingTypes /\ PlanInv /\ [BillingNext]_billingVars => PlanInv'
<1> SUFFICES ASSUME BillingTypes, PlanInv, [BillingNext]_billingVars, Settled' PROVE PlanParts'
  BY DEF PlanInv
<1>1. PlanParts
  BY SettledBefore DEF PlanInv
<1>2. ASSUME NEW s \in Checkouts, Pay(s) \/ Expire(s) \/ Decline(s) \/ FailRenewal(s) \/ EndSubscription(s)
      PROVE  PlanParts'
  BY <1>1, <1>2, StripePlanStep
<1>3. ASSUME NEW s \in Checkouts, NEW q \in Requests, StartCheckout(q, s) PROVE PlanParts'
  BY <1>1, <1>3, StartPlanStep
<1>4. ASSUME NEW h \in Handlers, NEW e \in events, Deliver(h, e) PROVE PlanParts'
  BY <1>1, <1>4, DeliverPlanStep
<1>5. ASSUME NEW h \in Handlers, HandlerStep(h) PROVE PlanParts'
  BY <1>1, <1>5, HandlerPlanStep
<1>6. ASSUME NEW h \in Handlers, RecordEvent(h) PROVE PlanParts'
  BY <1>1, <1>6, RecordPlanStep
<1>7. ASSUME NEW h \in Handlers, FailDelivery(h) PROVE PlanParts'
  BY <1>1, <1>7, FailPlanStep
<1>8. ASSUME NEW h \in Handlers, SwallowFailure(h) PROVE FALSE
  BY <1>8 DEF SwallowFailure, Settled
<1>9. ASSUME NEW q \in Requests, SavePending(q) PROVE PlanParts'
  BY <1>1, <1>9, SavePlanStep
<1>10. ASSUME NEW q \in Requests, ChangeToSolo(q) \/ Reconcile(q) \/ ConvertToSolo(q) \/ Resume(q) PROVE PlanParts'
  BY <1>1, <1>10, RequestPlanStep
<1>11. ASSUME NEW q \in Requests, RequestSoloOwned(q) \/ RequestSoloUser(q) PROVE PlanParts'
  BY <1>1, <1>11, RequestSoloStep
<1>12. ASSUME NEW q \in Requests, FailRequest(q) PROVE FALSE
  BY <1>12 DEF FailRequest, Settled
<1>13. CASE UNCHANGED billingVars
  <2>1. UNCHANGED <<userPlan, workspace, customer, pending, stripe, events, logged, handler, request>>
    BY <1>13 DEF billingVars
  <2>2. /\ EventsOfSession' /\ OneCurrent' /\ HandlersWork'
        /\ \A k, t : (Due(k, t)' <=> Due(k, t)) /\ (Logged(k, t)' <=> Logged(k, t)) /\ (Live(t)' <=> Live(t))
        /\ \A h, k : (Handling(h, k)' <=> Handling(h, k))
        /\ \A k, t : Event(k, t)' = Event(k, t)
    BY <1>1, <2>1, EventsFrame, SameHandlers DEF PlanParts
  <2>3. (AllSolo' <=> AllSolo) /\ (AllWorkspace' <=> AllWorkspace)
    BY <2>1 DEF AllSolo, AllWorkspace
  <2>4. RequestsWork' /\ OpenSessions' /\ PlanAtRest'
    BY <1>1, <2>1, <2>2, <2>3 DEF PlanParts, RequestsWork, OpenSessions, PlanAtRest
  <2>5. Promoting' /\ Demoting'
    BY <1>1, <2>1, <2>2, <2>3 DEF PlanParts, Promoting, Demoting
  <2> QED
    BY <2>2, <2>4, <2>5 DEF PlanParts
<1> QED
  BY <1>2, <1>3, <1>4, <1>5, <1>6, <1>7, <1>8, <1>9, <1>10, <1>11, <1>12, <1>13
     DEF BillingNext, HandlerStep

LEMMA PlanInitially == BillingInit => PlanInv
<1> SUFFICES ASSUME BillingInit PROVE PlanParts
  BY DEF PlanInv
<1>1. /\ \A k, s : ~Sent(k, s) /\ ~Logged(k, s) /\ ~Due(k, s)
      /\ \A s \in Checkouts : stripe[s].session = "none" /\ stripe[s].sub = "none" /\ ~Live(s)
      /\ \A h \in Handlers : handler[h].pc = "idle"
      /\ \A q \in Requests : request[q].pc = "idle"
      /\ AllSolo
  BY DEF BillingInit, Sent, Logged, Due, Live, Idle, NoRequest, AllSolo
<1>2. EventsOfSession /\ OneCurrent
  BY <1>1 DEF EventsOfSession, OneCurrent, Current
<1>3. HandlersWork /\ RequestsWork /\ OpenSessions
  BY <1>1 DEF HandlersWork, RequestsWork, OpenSessions, SoloPcs
<1>4. Promoting /\ Demoting /\ PlanAtRest
  BY <1>1 DEF Promoting, Demoting, PlanAtRest, Handling
<1> QED
  BY <1>2, <1>3, <1>4 DEF PlanParts

LEMMA PlanFollows == BillingTypes /\ PlanInv => PlanFollowsStripe
<1> SUFFICES ASSUME BillingTypes, PlanInv, Quiet, Settled
             PROVE  /\ userPlan = "workspace" <=> Subscribed
                    /\ workspace.plan = userPlan
                    /\ workspace.cycle # None => Subscribed
  BY DEF PlanFollowsStripe, Settled
<1>1. PlanParts /\ \A k, s : ~Due(k, s)
  BY DEF PlanInv, Quiet, Due, Sent, Logged
<1>2. CASE Subscribed
  <2>1. PICK s \in Checkouts : Live(s)
    BY <1>2 DEF Subscribed
  <2>2. Sent("completed", s)
    BY <1>1, <2>1 DEF PlanParts, EventsOfSession, Live
  <2> QED
    BY <1>1, <1>2, <2>1, <2>2 DEF PlanParts, PlanAtRest, Due, AllWorkspace
<1>3. CASE ~Subscribed
  BY <1>1, <1>3 DEF Subscribed, PlanParts, PlanAtRest, AllSolo
<1> QED
  BY <1>2, <1>3

\* However late, in whatever order and however often the events of Stripe are
\* delivered, and wherever a delivery fails or a server stops, the user and the
\* workspace are on the workspace plan exactly while a subscription is paid for,
\* once every event is handled and unless a failure was passed over, an attempt
\* declined or a checkout met another change of the plan.
THEOREM PlanFollowsSubscription == BillingSpec => []PlanFollowsStripe
<1>1. BillingInit => BillingTypes /\ PlanInv
  BY BillingInitType, PlanInitially
<1>2. BillingTypes /\ PlanInv /\ [BillingNext]_billingVars => (BillingTypes /\ PlanInv)'
  BY BillingTypeStep, PlanStep
<1> QED
  BY <1>1, <1>2, PlanFollows, PTL DEF BillingSpec

\* The records of the plan, of the sessions and of the handlers keep their types.
THEOREM BillingTyped == BillingSpec => []BillingTypeOK
BY BillingInitType, BillingTypeStep, BillingTypesSuffice, PTL DEF BillingSpec

-----------------------------------------------------------------------------
(* Connections. *)

TokenRecords == [row: BOOLEAN, cred: Credentials, fresh: BOOLEAN, shared: BOOLEAN]
ConnRecords == [row: {"unused", "on", "gone"}, token: Tokens \cup {NoToken}, cred: Credentials,
                fresh: BOOLEAN]
TaskRecords == [pc: TaskPcs \cup {"idle"}, op: TaskOps \cup {"none"}, token: Tokens \cup {NoToken},
                conn: Conns \cup {NoConn}, cred: Credentials, new: Credentials,
                todo: SUBSET Conns, orphaned: BOOLEAN]

\* The types of what the credentials depend on (the order of the rows does not matter).
RowsTyped == token \in [Tokens -> TokenRecords] /\ conn \in [Conns -> ConnRecords]
ConnTypes ==
    /\ rotates \in BOOLEAN /\ apart \in BOOLEAN /\ selfRefused \in BOOLEAN
    /\ RowsTyped
    /\ lock \in [OAuthServers \X Conns -> Tasks \cup {NoTask}]
    /\ task \in [Tasks -> TaskRecords]
    /\ issued \in [Tokens -> 0..MaxCredential]

\* A refresh token the provider has issued, and one or none.
Real(c) == c[1] \in Tokens /\ c[2] \in Nat /\ c[2] <= issued[c[1]]
Numbered(c) == c = NoCredential \/ Real(c)

\* What a task holds fits the step it is at.
GoodTask(r) ==
    /\ r.pc = "idle" <=> r.op = "none"
    /\ r.pc = "refresh" => r.op = "use"
    /\ r.pc \in {"store", "find", "spread"} => r.op \in {"use", "connect"}
    /\ r.pc = "insert" => r.op = "connect"
    /\ r.pc \in {"copy", "markShared"} => r.op = "promote"
    /\ r.pc \in {"lock", "load", "refreshConn", "storeConn"} => r.op = "shared"
    /\ r.pc = "drop" => r.op \in {"shared", "remove"}
    /\ r.op \in {"use", "connect", "promote", "disconnect", "revoke"} => r.token \in Tokens
    /\ r.conn = NoConn <=> r.op \in {"use", "connect", "disconnect", "revoke", "none"}
NumberedTask(r) ==
    /\ Numbered(r.cred) /\ Numbered(r.new)
    /\ r.pc \in {"refresh", "copy", "refreshConn"} => Real(r.cred)
    /\ r.op = "connect" \/ r.pc \in {"store", "find", "spread", "storeConn"} => Real(r.new)

TasksGood == \A p \in Tasks : GoodTask(task[p])
CredsNumbered ==
    /\ \A t \in Tokens : Real(token[t].cred)
    /\ \A k \in Conns : Numbered(conn[k].cred) /\ (conn[k].row # "unused" => Real(conn[k].cred))
    /\ \A p \in Tasks : NumberedTask(task[p])
    /\ \A x \in spent : Real(x[1])

\* A connection exists before anything but the share that makes it works on it.
ConnsExist ==
    /\ \A p \in Tasks : task[p].conn \in Conns =>
         /\ task[p].pc = "copy" <=> conn[task[p].conn].row = "unused"
         /\ task[p].pc = "copy" => \A q \in Tasks : task[q].conn = task[p].conn => q = p
    /\ \A x \in spent : x[3] \in Conns => conn[x[3]].row # "unused"

\* A refresh of a connection holds its mutex of its server.
LockPcs == {"load", "refreshConn", "storeConn"}
Locked == \A p \in Tasks : task[p].pc \in LockPcs => lock[<<ServerOf[p], task[p].conn>>] = p

\* What a connection has spent it holds no more, unless the task that spent it is
\* about to store what it got for it.
SpentOnce ==
    /\ ~rotates => spent = {}
    /\ \A p \in Tasks : task[p].pc = "refreshConn" => Spending(p) \notin spent
    /\ \A x \in spent : x[3] \in Conns =>
         \/ conn[x[3]].cred # x[1]
         \/ \E q \in Tasks : task[q].pc = "storeConn" /\ Spending(q) = x

\* What a refresh of a connection got is nowhere else before it is stored.
Public(c) ==
    \/ c = NoCredential
    \/ \E k \in Conns : conn[k].cred = c
    \/ \E t \in Tokens : token[t].cred = c
    \/ \E x \in spent : x[1] = c
    \/ \E q \in Tasks : task[q].cred = c
    \/ \E q \in Tasks : task[q].pc # "storeConn" /\ task[q].new = c
Unstored ==
    rotates => \A p \in Tasks : task[p].pc = "storeConn" =>
                 /\ ~Public(task[p].new)
                 /\ \A q \in Tasks : task[q].pc = "storeConn" /\ task[q].new = task[p].new => q = p

RefreshParts == /\ TasksGood /\ CredsNumbered /\ ConnsExist /\ Locked /\ SpentOnce /\ Unstored
                /\ ~selfRefused

LEMMA ConnConstants ==
    /\ NoConn \notin Conns /\ NoToken \notin Tokens /\ NoTask \notin Tasks /\ MaxCredential \in Nat
    /\ NoCredential \in Credentials /\ NoWork \in TaskRecords
    /\ GoodTask(NoWork) /\ NumberedTask(NoWork) /\ ~Real(NoCredential)
    /\ NoWork.pc = "idle" /\ NoWork.cred = NoCredential /\ NoWork.new = NoCredential
    /\ NoWork.conn = NoConn /\ NoWork.op = "none" /\ NoWork.todo = {} /\ NoWork.token = NoToken
<1>1. NoConn \notin Conns /\ NoToken \notin Tokens /\ NoTask \notin Tasks /\ MaxCredential \in Nat
  BY ConnectionsAssumption
<1>2. NoCredential \in Credentials
  BY <1>1 DEF NoCredential, Credentials
<1>3. NoWork \in TaskRecords
  BY <1>2 DEF NoWork, TaskRecords
<1>4. GoodTask(NoWork) /\ NumberedTask(NoWork) /\ ~Real(NoCredential)
  BY <1>1 DEF GoodTask, NumberedTask, NoWork, Numbered, Real, NoCredential
<1> QED
  BY <1>1, <1>2, <1>3, <1>4 DEF NoWork

\* A task that moves alone.
LEMMA TaskMoves ==
    ASSUME task \in [Tasks -> TaskRecords], NEW p \in Tasks, NEW r \in TaskRecords,
           task' = [task EXCEPT ![p] = r]
    PROVE  /\ task' \in [Tasks -> TaskRecords] /\ task'[p] = r
           /\ \A q \in Tasks : q # p => task'[q] = task[q]
OBVIOUS

\* A refresh token that is issued is a new one, and those issued before remain.
LEMMA FreshCredential ==
    ASSUME ConnTypes, NEW t \in Tokens, issued[t] < MaxCredential,
           issued' = [issued EXCEPT ![t] = @ + 1], NEW n, n = <<t, issued[t] + 1>>
    PROVE  /\ n \in Credentials /\ ~Numbered(n) /\ Real(n)'
           /\ \A c : Real(c) => Real(c)'
           /\ \A c : Numbered(c) => Numbered(c)'
           /\ issued' \in [Tokens -> 0..MaxCredential]
<1>1. /\ issued[t] \in Nat /\ issued[t] + 1 \in 0..MaxCredential
      /\ issued'[t] = issued[t] + 1 /\ \A u \in Tokens : u # t => issued'[u] = issued[u]
      /\ issued' \in [Tokens -> 0..MaxCredential]
  BY ConnConstants DEF ConnTypes
<1>2. n \in Credentials
  BY <1>1 DEF Credentials
<1>3. ~Real(n) /\ Real(n)'
  BY <1>1 DEF Real
<1>4. n # NoCredential
  BY ConnConstants DEF NoCredential
<1>5. \A c : Real(c) => Real(c)'
  BY <1>1 DEF Real, ConnTypes
<1>6. \A c : Numbered(c) => Numbered(c)'
  BY <1>5 DEF Numbered, NoCredential
<1> QED
  BY <1>1, <1>2, <1>3, <1>4, <1>5, <1>6 DEF Numbered

LEMMA SameIssued ==
    ASSUME UNCHANGED issued
    PROVE  \A c : (Real(c)' <=> Real(c)) /\ (Numbered(c)' <=> Numbered(c))
BY DEF Real, Numbered, NoCredential

\* The credentials and the keys of the rows do not change.
SameRows ==
    /\ \A t \in Tokens : token'[t].row = token[t].row /\ token'[t].cred = token[t].cred
    /\ \A k \in Conns : /\ conn'[k].row = conn[k].row /\ conn'[k].token = conn[k].token
                        /\ conn'[k].cred = conn[k].cred

\* A task that moves to r, holding what was known, changes no row.
QuietMove(p, r) ==
    /\ r \in TaskRecords /\ task' = [task EXCEPT ![p] = r]
    /\ UNCHANGED <<rotates, issued, spent, selfRefused>> /\ SameRows
    /\ RowsTyped' /\ lock' \in [OAuthServers \X Conns -> Tasks \cup {NoTask}] /\ apart' \in BOOLEAN
    /\ GoodTask(r) /\ NumberedTask(r)
    /\ r.pc # "copy" /\ (r.conn \in Conns => conn[r.conn].row # "unused")
    /\ \A q \in Tasks, x \in OAuthServers \X Conns : q # p /\ lock[x] = q => lock'[x] = q
    /\ r.pc \in LockPcs => lock'[<<ServerOf[p], r.conn>>] = p
    /\ r.pc = "refreshConn" => <<r.cred, ServerOf[p], r.conn>> \notin spent
    /\ r.pc = "storeConn" => ~rotates
    /\ task[p].pc # "storeConn" /\ Public(r.cred) /\ Public(r.new)

\* Which mutexes there are.
LEMMA LockOf ==
    ASSUME TasksGood, ConnTypes, NEW p \in Tasks, task[p].pc \in LockPcs
    PROVE  task[p].conn \in Conns /\ <<ServerOf[p], task[p].conn>> \in OAuthServers \X Conns
<1>1. task[p].conn \in Conns
  BY DEF TasksGood, GoodTask, ConnTypes, TaskRecords, LockPcs
<1> QED
  BY <1>1 DEF OAuthServers

LEMMA QuietStep ==
    ASSUME ConnTypes, RefreshParts, NEW p \in Tasks, NEW r, QuietMove(p, r)
    PROVE  ConnTypes' /\ RefreshParts'
<1>1. /\ r \in TaskRecords /\ task' \in [Tasks -> TaskRecords] /\ task'[p] = r
      /\ \A q \in Tasks : q # p => task'[q] = task[q]
  BY TaskMoves DEF QuietMove, ConnTypes
<1>2. \A c : (Real(c)' <=> Real(c)) /\ (Numbered(c)' <=> Numbered(c))
  BY SameIssued DEF QuietMove
<1>3. SameRows /\ UNCHANGED <<rotates, spent>>
  BY DEF QuietMove
<1>4. TasksGood'
  BY <1>1 DEF RefreshParts, TasksGood, QuietMove
<1>5. CredsNumbered'
  <2>1. \A q : NumberedTask(q)' <=> NumberedTask(q)
    BY <1>2 DEF NumberedTask
  <2>2. \A q \in Tasks : NumberedTask(task'[q])
    BY <1>1 DEF RefreshParts, CredsNumbered, QuietMove
  <2>3. \A q \in Tasks : NumberedTask(task[q])'
    BY <1>2, <2>2 DEF NumberedTask
  <2> QED
    BY <1>2, <1>3, <2>3 DEF RefreshParts, CredsNumbered, SameRows
<1>6. ConnsExist'
  BY <1>1, <1>3 DEF RefreshParts, ConnsExist, QuietMove, SameRows
<1>7. Locked'
  <2> SUFFICES ASSUME NEW q \in Tasks, task'[q].pc \in LockPcs
               PROVE  lock'[<<ServerOf[q], task'[q].conn>>] = q
    BY DEF Locked
  <2>1. CASE q = p
    BY <1>1, <2>1 DEF QuietMove
  <2>2. CASE q # p
    BY <1>1, <2>2, LockOf DEF QuietMove, RefreshParts, Locked
  <2> QED
    BY <2>1, <2>2
<1>8. SpentOnce'
  <2>1. \A q \in Tasks : Spending(q)' = <<task'[q].cred, ServerOf[q], task'[q].conn>>
    BY DEF Spending
  <2>2. \A q \in Tasks : task'[q].pc = "refreshConn" => Spending(q)' \notin spent
    BY <1>1, <2>1 DEF QuietMove, RefreshParts, SpentOnce, Spending
  <2>3. \A q \in Tasks : task[q].pc = "storeConn" => task'[q].pc = "storeConn" /\ Spending(q)' = Spending(q)
    BY <1>1, <2>1 DEF QuietMove, Spending
  <2> QED
    BY <1>3, <2>2, <2>3 DEF RefreshParts, SpentOnce, SameRows
<1>9. Unstored'
  <2>1. \A c : Public(c)' => Public(c)
    BY <1>1, <1>3 DEF QuietMove, Public, SameRows, NoCredential
  <2>2. ASSUME rotates, NEW q \in Tasks, task'[q].pc = "storeConn" PROVE q # p /\ task'[q] = task[q]
    BY <1>1, <2>2 DEF QuietMove
  <2> QED
    BY <1>3, <2>1, <2>2 DEF RefreshParts, Unstored
<1>10. ConnTypes' /\ ~selfRefused'
  BY <1>1 DEF QuietMove, ConnTypes, RefreshParts
<1> QED
  BY <1>4, <1>5, <1>6, <1>7, <1>8, <1>9, <1>10 DEF RefreshParts

\* A task that moves on to another step.
LEMMA RecordMoves ==
    ASSUME NEW r \in TaskRecords, NEW pc \in TaskPcs
    PROVE  /\ [r EXCEPT !.pc = pc] \in TaskRecords
           /\ [r EXCEPT !.pc = pc].pc = pc
           /\ \A f \in {"op", "token", "conn", "cred", "new", "todo", "orphaned"} :
                [r EXCEPT !.pc = pc][f] = r[f]
BY DEF TaskRecords

\* The flag of the tasks that hold the id of a deleted row.
LEMMA OrphanedTasks ==
    ASSUME NEW tasks \in [Tasks -> TaskRecords], NEW T
    PROVE  /\ Orphaned(tasks, T) \in [Tasks -> TaskRecords]
           /\ \A q \in Tasks : \A f \in {"pc", "op", "token", "conn", "cred", "new", "todo"} :
                Orphaned(tasks, T)[q][f] = tasks[q][f]
           /\ \A q \in Tasks : Orphaned(tasks, T)[q].orphaned
                                 <=> tasks[q].orphaned \/ tasks[q].token \in T
BY ZenonT(60) DEF Orphaned, TaskRecords

LEMMA DeletedRows ==
    ASSUME RowsTyped, NEW T, DeleteRows(T)
    PROVE  /\ RowsTyped'
           /\ \A t \in Tokens : /\ token'[t].cred = token[t].cred
                                /\ token'[t].row = (token[t].row /\ t \notin T)
           /\ \A k \in Conns : /\ conn'[k].row = conn[k].row /\ conn'[k].cred = conn[k].cred
                               /\ conn'[k].token = IF conn[k].token \in T THEN NoToken ELSE conn[k].token
BY ZenonT(60) DEF RowsTyped, DeleteRows, TokenRecords, ConnRecords

\* What a call that begins holds.
Begun(p, op, t, k, pc, r) ==
    /\ r \in TaskRecords /\ task' = [task EXCEPT ![p] = r] /\ task[p].pc = "idle"
    /\ r.pc = pc /\ r.op = op /\ r.token = t /\ r.conn = k /\ r.todo = {} /\ ~r.orphaned
    /\ t = NoToken => r.cred = NoCredential
    /\ t # NoToken => r.cred = token[t].cred
    /\ r.new = NoCredential

LEMMA Beginnings ==
    ASSUME ConnTypes, NEW p, NEW op \in TaskOps, NEW t \in Tokens \cup {NoToken},
           NEW k \in Conns \cup {NoConn}, NEW pc \in TaskPcs, Start(p, op, t, k, pc)
    PROVE  \E r : Begun(p, op, t, k, pc, r)
<1> DEFINE r == [NoWork EXCEPT !.op = op, !.pc = pc, !.token = t, !.conn = k,
                               !.cred = IF t = NoToken THEN NoCredential ELSE token[t].cred]
<1>1. r \in TaskRecords
  BY ConnConstants DEF ConnTypes, RowsTyped, TokenRecords, TaskRecords
<1>2. /\ r.pc = pc /\ r.op = op /\ r.token = t /\ r.conn = k /\ r.todo = {} /\ ~r.orphaned
      /\ r.cred = (IF t = NoToken THEN NoCredential ELSE token[t].cred)
      /\ r.new = NoCredential
  BY DEF NoWork
<1>3. task' = [task EXCEPT ![p] = r] /\ task[p].pc = "idle"
  BY DEF Start, Doing
<1> QED
  BY <1>1, <1>2, <1>3 DEF Begun

LEMMA ConnInitTypes == ConnectionsInit => ConnTypes
<1> SUFFICES ASSUME ConnectionsInit PROVE ConnTypes
  OBVIOUS
<1>1. \A t \in Tokens : <<t, 0>> \in Credentials
  BY ConnConstants DEF Credentials
<1>2. RowsTyped
  BY <1>1, ConnConstants DEF ConnectionsInit, RowsTyped, TokenRecords, ConnRecords
<1> QED
  <2>1. rotates \in BOOLEAN /\ apart \in BOOLEAN /\ selfRefused \in BOOLEAN
    BY DEF ConnectionsInit
  <2>2. lock \in [OAuthServers \X Conns -> Tasks \cup {NoTask}] /\ task \in [Tasks -> TaskRecords]
    BY ConnConstants DEF ConnectionsInit
  <2>3. issued \in [Tokens -> 0..MaxCredential]
    BY ConnConstants DEF ConnectionsInit
  <2> QED
    BY <1>2, <2>1, <2>2, <2>3 DEF ConnTypes

LEMMA Unlocked ==
    ASSUME ConnTypes, NEW p, Unlock(p)
    PROVE  /\ lock' \in [OAuthServers \X Conns -> Tasks \cup {NoTask}]
           /\ \A q \in Tasks, x \in OAuthServers \X Conns : q # p /\ lock[x] = q => lock'[x] = q
BY DEF ConnTypes, Unlock

\* A task that goes on with what it holds, or ends: when that is a quiet move.
LEMMA GoesOn ==
    ASSUME ConnTypes, RefreshParts, NEW p \in Tasks, NEW pc \in TaskPcs,
           Onto(p, pc), task[p].pc \notin {"storeConn", "copy"}, pc \notin {"copy", "storeConn", "refreshConn"},
           pc \in LockPcs => lock'[<<ServerOf[p], task[p].conn>>] = p,
           GoodTask([task[p] EXCEPT !.pc = pc]),
           pc = "refresh" => FALSE,
           pc \in {"store", "find", "spread"} => Real(task[p].new),
           UNCHANGED <<rotates, issued, spent, selfRefused>>, SameRows, RowsTyped',
           lock' \in [OAuthServers \X Conns -> Tasks \cup {NoTask}], apart' \in BOOLEAN,
           \A q \in Tasks, x \in OAuthServers \X Conns : q # p /\ lock[x] = q => lock'[x] = q
    PROVE  QuietMove(p, [task[p] EXCEPT !.pc = pc])
<1> DEFINE r == [task[p] EXCEPT !.pc = pc]
<1>1. /\ task[p] \in TaskRecords /\ r \in TaskRecords /\ r.pc = pc
      /\ r.op = task[p].op /\ r.token = task[p].token /\ r.conn = task[p].conn /\ r.cred = task[p].cred
      /\ r.new = task[p].new /\ r.todo = task[p].todo /\ task' = [task EXCEPT ![p] = r]
  BY RecordMoves DEF ConnTypes, Onto
<1>2. NumberedTask(r)
  BY <1>1 DEF RefreshParts, CredsNumbered, NumberedTask
<1>3. r.conn \in Conns => conn[r.conn].row # "unused"
  BY <1>1 DEF RefreshParts, ConnsExist
<1>4. Public(r.cred) /\ Public(r.new)
  BY <1>1 DEF Public
<1> QED
  BY <1>1, <1>2, <1>3, <1>4 DEF QuietMove

LEMMA Ends ==
    ASSUME ConnTypes, RefreshParts, NEW p \in Tasks,
           Finish(p), task[p].pc # "storeConn",
           UNCHANGED <<rotates, issued, spent, selfRefused>>, SameRows, RowsTyped',
           lock' \in [OAuthServers \X Conns -> Tasks \cup {NoTask}], apart' \in BOOLEAN,
           \A q \in Tasks, x \in OAuthServers \X Conns : q # p /\ lock[x] = q => lock'[x] = q
    PROVE  QuietMove(p, NoWork)
BY ConnConstants DEF QuietMove, Finish, Public, LockPcs

\* Rows that are left alone, or only touched.
LEMMA RowsAlone ==
    ASSUME ConnTypes
    PROVE  /\ UNCHANGED <<token, conn>> => SameRows /\ RowsTyped'
           /\ UNCHANGED lock => /\ lock' \in [OAuthServers \X Conns -> Tasks \cup {NoTask}]
                                /\ \A q \in Tasks, x \in OAuthServers \X Conns : lock[x] = q => lock'[x] = q
           /\ UNCHANGED apart => apart' \in BOOLEAN
           /\ \A p \in Tasks, b \in BOOLEAN : SetShared(p, b) /\ UNCHANGED conn => SameRows /\ RowsTyped'
<1>1. ASSUME NEW p \in Tasks, NEW b \in BOOLEAN, SetShared(p, b), UNCHANGED conn
      PROVE  SameRows /\ RowsTyped'
  <2>1. UNCHANGED token \/ \E t \in Tokens : token' = [token EXCEPT ![t].shared = b]
    BY <1>1 DEF SetShared, NewestRow, HoldsRow, ConnTypes, TaskRecords
  <2>2. CASE UNCHANGED token
    BY <1>1, <2>2 DEF ConnTypes, SameRows, RowsTyped
  <2>3. ASSUME NEW t \in Tokens, token' = [token EXCEPT ![t].shared = b] PROVE SameRows /\ RowsTyped'
    <3>1. [token[t] EXCEPT !.shared = b] \in TokenRecords
      BY DEF ConnTypes, RowsTyped, TokenRecords
    <3>2. token' \in [Tokens -> TokenRecords]
      BY <2>3, <3>1 DEF ConnTypes, RowsTyped
    <3>3. \A u \in Tokens : token'[u].row = token[u].row /\ token'[u].cred = token[u].cred
      BY <2>3 DEF ConnTypes, RowsTyped, TokenRecords
    <3> QED
      BY <1>1, <3>2, <3>3 DEF ConnTypes, SameRows, RowsTyped
  <2> QED
    BY <2>1, <2>2, <2>3
<1> QED
  BY <1>1 DEF ConnTypes, SameRows, RowsTyped

\* The steps of a task that change neither a row nor what the provider has issued.
LEMMA QuietSteps ==
    ASSUME ConnTypes, RefreshParts, NEW p \in Tasks,
           \/ RevokeOld(p) \/ CallApi(p) \/ FindConnections(p) \/ Spread(p) \/ MarkStale(p)
           \/ MarkShared(p) \/ CheckShared(p) \/ MarkUnshared(p) \/ LockConnection(p) \/ LoadConnection(p)
           \/ \E k \in Conns : SpreadFails(p, k)
    PROVE  \E r : QuietMove(p, r)
<1> USE DEF connHistory, atProvider, Doing
<1>0. task[p] \in TaskRecords /\ GoodTask(task[p]) /\ NumberedTask(task[p])
  BY DEF ConnTypes, RefreshParts, TasksGood, CredsNumbered
<1>1. CASE RevokeOld(p)
  <2>1. PICK pc \in {"store", "delete"} : Onto(p, pc) /\ (pc = "store" => task[p].op = "connect")
    BY <1>1 DEF RevokeOld
  <2>2. GoodTask([task[p] EXCEPT !.pc = pc]) /\ pc \in TaskPcs
    BY <1>0, <1>1, <2>1 DEF RevokeOld, GoodTask, TaskRecords, TaskPcs
  <2>3. pc = "store" => Real(task[p].new)
    BY <1>0, <2>1 DEF NumberedTask
  <2>4. SameRows /\ RowsTyped' /\ lock' \in [OAuthServers \X Conns -> Tasks \cup {NoTask}] /\ apart' \in BOOLEAN
        /\ \A q \in Tasks, x \in OAuthServers \X Conns : lock[x] = q => lock'[x] = q
    BY <1>1, RowsAlone DEF RevokeOld
  <2> QED
    BY <1>1, <2>1, <2>2, <2>3, <2>4, GoesOn DEF RevokeOld, LockPcs
<1>2. CASE CallApi(p)
  <2>1. SameRows /\ RowsTyped' /\ lock' \in [OAuthServers \X Conns -> Tasks \cup {NoTask}] /\ apart' \in BOOLEAN
        /\ \A q \in Tasks, x \in OAuthServers \X Conns : lock[x] = q => lock'[x] = q
    BY <1>2, RowsAlone DEF CallApi
  <2>2. CASE Finish(p)
    BY <1>2, <2>1, <2>2, Ends DEF CallApi
  <2>3. CASE Onto(p, "purge")
    <3>1. GoodTask([task[p] EXCEPT !.pc = "purge"]) /\ "purge" \in TaskPcs
      BY <1>0, <1>2 DEF CallApi, GoodTask, TaskRecords, TaskPcs
    <3> QED
      BY <1>2, <2>1, <2>3, <3>1, GoesOn DEF CallApi, LockPcs
  <2>4. CASE /\ task[p].op = "shared" /\ conn[task[p].conn].row = "on"
             /\ task' = [task EXCEPT ![p].pc = "drop", ![p].token = conn[task[p].conn].token, ![p].orphaned = FALSE]
    <3> DEFINE r == [task[p] EXCEPT !.pc = "drop", !.token = conn[task[p].conn].token, !.orphaned = FALSE]
    <3>1. task[p].conn \in Conns
      BY <1>0, <2>4 DEF GoodTask, TaskRecords
    <3>2. r \in TaskRecords /\ task' = [task EXCEPT ![p] = r]
      BY <1>0, <2>4, <3>1 DEF TaskRecords, ConnTypes, RowsTyped, ConnRecords, TaskPcs
    <3>3. r.pc = "drop" /\ r.op = "shared" /\ r.conn = task[p].conn /\ r.cred = task[p].cred /\ r.new = task[p].new
      BY <1>0, <2>4 DEF TaskRecords
    <3>4. GoodTask(r) /\ NumberedTask(r)
      BY <1>0, <2>4, <3>3 DEF GoodTask, NumberedTask
    <3>5. Public(r.cred) /\ Public(r.new)
      BY <1>2, <3>3 DEF Public, CallApi
    <3> QED
      BY <1>2, <2>1, <2>4, <3>2, <3>3, <3>4, <3>5 DEF QuietMove, CallApi, LockPcs
  <2> QED
    BY <1>2, <2>2, <2>3, <2>4 DEF CallApi
<1>3. CASE FindConnections(p) \/ \E k \in Conns : SpreadFails(p, k)
  <2>1. PICK K \in SUBSET Conns : task' = [task EXCEPT ![p].pc = "spread", ![p].todo = K]
    <3>1. CASE FindConnections(p)
      BY <3>1 DEF FindConnections
    <3>2. ASSUME NEW k \in Conns, SpreadFails(p, k)
          PROVE  task' = [task EXCEPT ![p].pc = "spread", ![p].todo = task[p].todo \ {k}]
      <4>1. task[p] = [task[p] EXCEPT !.pc = "spread"]
        BY <1>0, <3>2 DEF SpreadFails, TaskRecords
      <4> QED
        BY <1>0, <3>2, <4>1 DEF SpreadFails
    <3> QED
      BY <1>0, <1>3, <3>1, <3>2 DEF TaskRecords
  <2> DEFINE r == [task[p] EXCEPT !.pc = "spread", !.todo = K]
  <2>2. r \in TaskRecords /\ task' = [task EXCEPT ![p] = r]
    BY <1>0, <2>1 DEF TaskRecords, TaskPcs
  <2>3. /\ r.pc = "spread" /\ r.op = task[p].op /\ r.token = task[p].token /\ r.conn = task[p].conn
        /\ r.cred = task[p].cred /\ r.new = task[p].new
    BY <1>0 DEF TaskRecords
  <2>4. task[p].pc \in {"find", "spread"} /\ UNCHANGED <<rotates, token, conn, lock, issued, spent, selfRefused>>
        /\ (UNCHANGED apart \/ apart' = TRUE)
    BY <1>3 DEF FindConnections, SpreadFails
  <2>5. SameRows /\ RowsTyped' /\ lock' \in [OAuthServers \X Conns -> Tasks \cup {NoTask}] /\ apart' \in BOOLEAN
        /\ \A q \in Tasks, x \in OAuthServers \X Conns : lock[x] = q => lock'[x] = q
    BY <2>4, RowsAlone
  <2>6. GoodTask(r) /\ NumberedTask(r) /\ r.conn \notin Conns
    BY <1>0, <2>3, <2>4, ConnConstants DEF GoodTask, NumberedTask
  <2>7. Public(r.cred) /\ Public(r.new)
    BY <2>3, <2>4 DEF Public
  <2> QED
    BY <2>2, <2>3, <2>4, <2>5, <2>6, <2>7 DEF QuietMove, LockPcs
<1>4. CASE Spread(p)
  <2>1. SameRows /\ RowsTyped' /\ lock' \in [OAuthServers \X Conns -> Tasks \cup {NoTask}] /\ apart' \in BOOLEAN
        /\ \A q \in Tasks, x \in OAuthServers \X Conns : lock[x] = q => lock'[x] = q
    BY <1>4, RowsAlone DEF Spread
  <2>2. CASE Finish(p)
    BY <1>4, <2>1, <2>2, Ends DEF Spread
  <2>3. CASE task' = [task EXCEPT ![p].pc = "api", ![p].cred = task[p].new]
    <3> DEFINE r == [task[p] EXCEPT !.pc = "api", !.cred = task[p].new]
    <3>1. r \in TaskRecords /\ task' = [task EXCEPT ![p] = r]
      BY <1>0, <2>3 DEF TaskRecords, TaskPcs
    <3>2. /\ r.pc = "api" /\ r.op = task[p].op /\ r.token = task[p].token /\ r.conn = task[p].conn
          /\ r.cred = task[p].new /\ r.new = task[p].new
      BY <1>0 DEF TaskRecords
    <3>3. GoodTask(r) /\ NumberedTask(r) /\ r.conn \notin Conns
      BY <1>0, <1>4, <3>2, ConnConstants DEF GoodTask, NumberedTask, Spread
    <3>4. Public(r.cred) /\ Public(r.new)
      BY <1>4, <3>2 DEF Public, Spread
    <3> QED
      BY <1>4, <2>1, <3>1, <3>2, <3>3, <3>4 DEF QuietMove, LockPcs, Spread
  <2> QED
    BY <1>4, <2>2, <2>3 DEF Spread
<1>5. CASE MarkStale(p)
  <2>1. SameRows /\ RowsTyped'
    BY <1>5 DEF MarkStale, ConnTypes, SameRows, RowsTyped, ConnRecords
  <2>2. lock' \in [OAuthServers \X Conns -> Tasks \cup {NoTask}] /\ apart' \in BOOLEAN
        /\ \A q \in Tasks, x \in OAuthServers \X Conns : lock[x] = q => lock'[x] = q
    BY <1>5, RowsAlone DEF MarkStale
  <2> QED
    BY <1>5, <2>1, <2>2, Ends DEF MarkStale
<1>6. CASE MarkShared(p)
  <2>1. SameRows /\ RowsTyped' /\ lock' \in [OAuthServers \X Conns -> Tasks \cup {NoTask}] /\ apart' \in BOOLEAN
        /\ \A q \in Tasks, x \in OAuthServers \X Conns : lock[x] = q => lock'[x] = q
    BY <1>6, RowsAlone DEF MarkShared
  <2> QED
    BY <1>6, <2>1, Ends DEF MarkShared
<1>7. CASE CheckShared(p) \/ MarkUnshared(p)
  <2>1. SameRows /\ RowsTyped' /\ apart' \in BOOLEAN /\ UNCHANGED <<rotates, issued, spent, selfRefused>>
        /\ task[p].pc \in {"check", "unshare"}
    BY <1>7, RowsAlone DEF CheckShared, MarkUnshared
  <2>2. CASE Onto(p, "purge") /\ UNCHANGED lock
    <3>1. GoodTask([task[p] EXCEPT !.pc = "purge"]) /\ "purge" \in TaskPcs
      BY <1>0, <2>1 DEF GoodTask, TaskRecords, TaskPcs
    <3> QED
      BY <2>1, <2>2, <3>1, GoesOn, RowsAlone DEF LockPcs
  <2>3. CASE Onto(p, "unshare") /\ UNCHANGED lock
    <3>1. GoodTask([task[p] EXCEPT !.pc = "unshare"]) /\ "unshare" \in TaskPcs
      BY <1>0, <2>1 DEF GoodTask, TaskRecords, TaskPcs
    <3> QED
      BY <2>1, <2>3, <3>1, GoesOn, RowsAlone DEF LockPcs
  <2>4. CASE Finish(p) /\ Unlock(p)
    <3>1. /\ lock' \in [OAuthServers \X Conns -> Tasks \cup {NoTask}]
          /\ \A q \in Tasks, x \in OAuthServers \X Conns : q # p /\ lock[x] = q => lock'[x] = q
      BY <2>4, Unlocked
    <3> QED
      BY <2>1, <2>4, <3>1, Ends
  <2> QED
    BY <1>7, <2>2, <2>3, <2>4 DEF CheckShared, MarkUnshared, AfterUnshare
<1>8. CASE LockConnection(p)
  <2>1. task[p].conn \in Conns /\ <<ServerOf[p], task[p].conn>> \in OAuthServers \X Conns
    BY <1>0, <1>8 DEF LockConnection, GoodTask, TaskRecords, OAuthServers
  <2>2. /\ lock' \in [OAuthServers \X Conns -> Tasks \cup {NoTask}]
        /\ lock'[<<ServerOf[p], task[p].conn>>] = p
        /\ \A q \in Tasks, x \in OAuthServers \X Conns : q # p /\ lock[x] = q => lock'[x] = q
    BY <1>8, <2>1, ConnConstants DEF LockConnection, ConnTypes
  <2>3. SameRows /\ RowsTyped' /\ apart' \in BOOLEAN
    BY <1>8, RowsAlone DEF LockConnection
  <2>4. GoodTask([task[p] EXCEPT !.pc = "load"]) /\ "load" \in TaskPcs
    BY <1>0, <1>8 DEF LockConnection, GoodTask, TaskRecords, TaskPcs
  <2> QED
    BY <1>8, <2>2, <2>3, <2>4, GoesOn DEF LockConnection
<1>9. CASE LoadConnection(p)
  <2> DEFINE k == task[p].conn
  <2>1. task[p].pc = "load" /\ k \in Conns /\ lock[<<ServerOf[p], k>>] = p
    BY <1>9, LockOf DEF LoadConnection, LockPcs, RefreshParts, Locked
  <2>2. SameRows /\ RowsTyped' /\ apart' \in BOOLEAN /\ UNCHANGED <<rotates, issued, spent, selfRefused>>
    BY <1>9, RowsAlone DEF LoadConnection
  <2>3. CASE Finish(p) /\ Unlock(p)
    <3>1. /\ lock' \in [OAuthServers \X Conns -> Tasks \cup {NoTask}]
          /\ \A q \in Tasks, x \in OAuthServers \X Conns : q # p /\ lock[x] = q => lock'[x] = q
      BY <2>3, Unlocked
    <3> QED
      BY <2>1, <2>2, <2>3, <3>1, Ends
  <2>4. ASSUME NEW pc \in {"api", "refreshConn"}, conn[k].row = "on",
               task' = [task EXCEPT ![p].pc = pc, ![p].cred = conn[k].cred,
                                    ![p].token = conn[k].token, ![p].orphaned = FALSE],
               lock' \in [OAuthServers \X Conns -> Tasks \cup {NoTask}],
               \A q \in Tasks, x \in OAuthServers \X Conns : q # p /\ lock[x] = q => lock'[x] = q,
               pc = "refreshConn" => UNCHANGED lock
        PROVE  \E r : QuietMove(p, r)
    <3> DEFINE r == [task[p] EXCEPT !.pc = pc, !.cred = conn[k].cred, !.token = conn[k].token, !.orphaned = FALSE]
    <3>1. r \in TaskRecords /\ task' = [task EXCEPT ![p] = r]
      BY <1>0, <2>1, <2>4 DEF TaskRecords, TaskPcs, ConnTypes, RowsTyped, ConnRecords
    <3>2. r.pc = pc /\ r.op = task[p].op /\ r.conn = k /\ r.cred = conn[k].cred /\ r.new = task[p].new
      BY <1>0 DEF TaskRecords
    <3>3. GoodTask(r) /\ NumberedTask(r)
      BY <1>0, <2>1, <2>4, <3>2 DEF GoodTask, NumberedTask, RefreshParts, CredsNumbered
    <3>4. Public(r.cred) /\ Public(r.new)
      BY <2>1, <3>2 DEF Public
    <3>5. <<conn[k].cred, ServerOf[p], k>> \notin spent
      <4> SUFFICES ASSUME <<conn[k].cred, ServerOf[p], k>> \in spent PROVE FALSE
        OBVIOUS
      <4>1. PICK q \in Tasks : task[q].pc = "storeConn" /\ Spending(q) = <<conn[k].cred, ServerOf[p], k>>
        BY <2>1 DEF RefreshParts, SpentOnce
      <4>2. lock[<<ServerOf[q], task[q].conn>>] = q
        BY <4>1 DEF RefreshParts, Locked, LockPcs
      <4>3. ServerOf[q] = ServerOf[p] /\ task[q].conn = k
        BY <4>1 DEF Spending
      <4> QED
        BY <2>1, <4>1, <4>2, <4>3
    <3> QED
      BY <2>1, <2>2, <2>4, <3>1, <3>2, <3>3, <3>4, <3>5 DEF QuietMove, LockPcs
  <2>5. CASE conn[k].row = "on" /\ Unlock(p)
             /\ task' = [task EXCEPT ![p].pc = "api", ![p].cred = conn[k].cred,
                               ![p].token = conn[k].token, ![p].orphaned = FALSE]
    <3>1. /\ lock' \in [OAuthServers \X Conns -> Tasks \cup {NoTask}]
          /\ \A q \in Tasks, x \in OAuthServers \X Conns : q # p /\ lock[x] = q => lock'[x] = q
      BY <2>5, Unlocked
    <3> QED
      BY <2>4, <2>5, <3>1
  <2>6. CASE conn[k].row = "on" /\ UNCHANGED lock
             /\ task' = [task EXCEPT ![p].pc = "refreshConn", ![p].cred = conn[k].cred,
                               ![p].token = conn[k].token, ![p].orphaned = FALSE]
    BY <2>4, <2>6, RowsAlone
  <2> QED
    BY <1>9, <2>3, <2>5, <2>6 DEF LoadConnection
<1> QED
  BY <1>1, <1>2, <1>3, <1>4, <1>5, <1>6, <1>7, <1>8, <1>9

\* The calls that begin at a row there is and issue nothing.
Opening(op, t, k, pc) ==
    \/ op \in {"disconnect", "revoke"} /\ pc \in {"revokeOld", "delete"} /\ t \in Tokens /\ k = NoConn
    \/ op = "use" /\ pc \in {"api", "refresh"} /\ t \in Tokens /\ k = NoConn
    \/ op = "remove" /\ pc = "drop" /\ k \in Conns
    \/ op = "shared" /\ pc = "lock" /\ k \in Conns

LEMMA OpeningsGood ==
    ASSUME NEW op, NEW t \in Tokens \cup {NoToken}, NEW k, NEW pc, Opening(op, t, k, pc)
    PROVE  /\ k \in Conns \cup {NoConn} /\ op \in TaskOps /\ pc \in TaskPcs
           /\ pc \notin {"copy"} \cup LockPcs
           /\ \A r : r.pc = pc /\ r.op = op /\ r.token = t /\ r.conn = k => GoodTask(r)
<1>1. k \in Conns \cup {NoConn} /\ op \in TaskOps /\ pc \in TaskPcs /\ pc \notin {"copy"} \cup LockPcs
  BY DEF Opening, TaskOps, TaskPcs, LockPcs
<1>2. ASSUME NEW r, r.pc = pc, r.op = op, r.token = t, r.conn = k PROVE GoodTask(r)
  <2>1. CASE op \in {"disconnect", "revoke"} /\ pc \in {"revokeOld", "delete"} /\ t \in Tokens /\ k = NoConn
    BY <1>2, <2>1 DEF GoodTask
  <2>2. CASE op = "use" /\ pc \in {"api", "refresh"} /\ t \in Tokens /\ k = NoConn
    BY <1>2, <2>2 DEF GoodTask
  <2>3. CASE op = "remove" /\ pc = "drop" /\ k \in Conns
    BY <1>2, <2>3, ConnConstants DEF GoodTask
  <2>4. CASE op = "shared" /\ pc = "lock" /\ k \in Conns
    BY <1>2, <2>4, ConnConstants DEF GoodTask
  <2> QED
    BY <2>1, <2>2, <2>3, <2>4 DEF Opening
<1> QED
  BY <1>1, <1>2

LEMMA QuietOpening ==
    ASSUME ConnTypes, RefreshParts, NEW p \in Tasks, NEW op, NEW t \in Tokens \cup {NoToken}, NEW k,
           NEW pc, Opening(op, t, k, pc), Start(p, op, t, k, pc), UNCHANGED atProvider,
           k \in Conns => conn[k].row # "unused"
    PROVE  \E r : QuietMove(p, r)
<1>1. k \in Conns \cup {NoConn} /\ op \in TaskOps /\ pc \in TaskPcs
  BY OpeningsGood
<1>2. PICK r : Begun(p, op, t, k, pc, r)
  BY <1>1, Beginnings
<1>3. /\ UNCHANGED <<rotates, token, conn, lock, selfRefused, issued, spent>> /\ apart' \in BOOLEAN
  BY DEF Start, ConnTypes, atProvider
<1>4. SameRows /\ RowsTyped' /\ lock' \in [OAuthServers \X Conns -> Tasks \cup {NoTask}]
      /\ \A q \in Tasks, x \in OAuthServers \X Conns : lock[x] = q => lock'[x] = q
  BY <1>3, RowsAlone
<1>5. r.pc = pc /\ r.op = op /\ r.token = t /\ r.conn = k
  BY <1>2 DEF Begun
<1>6. GoodTask(r) /\ r.pc \notin {"copy"} \cup LockPcs
  BY <1>5, OpeningsGood
<1>7. Numbered(r.cred) /\ Public(r.cred) /\ Numbered(r.new) /\ Public(r.new) /\ (t \in Tokens => Real(r.cred))
  BY <1>2, ConnConstants DEF Begun, Numbered, Public, RefreshParts, CredsNumbered
<1>8. NumberedTask(r)
  <2>1. r.pc \notin {"copy", "refreshConn", "store", "find", "spread", "storeConn"} /\ r.op # "connect"
        /\ (r.pc = "refresh" => t \in Tokens)
    BY <1>5 DEF Opening
  <2> QED
    BY <1>7, <2>1 DEF NumberedTask
<1> QED
  BY <1>2, <1>3, <1>4, <1>5, <1>6, <1>7, <1>8 DEF QuietMove, Begun, LockPcs

LEMMA QuietBeginnings ==
    ASSUME ConnTypes, RefreshParts, NEW p \in Tasks,
           \/ \E t \in Tokens : BeginUse(p, t) \/ BeginDisconnect(p, t) \/ BeginRevoke(p, t)
           \/ \E k \in Conns : BeginRemove(p, k) \/ BeginShared(p, k)
    PROVE  \E r : QuietMove(p, r)
<1>1. ASSUME NEW t \in Tokens, BeginUse(p, t) PROVE \E r : QuietMove(p, r)
  <2>1. PICK pc \in {"api", "refresh"} : Start(p, "use", t, NoConn, pc) /\ UNCHANGED atProvider
    BY <1>1 DEF BeginUse
  <2>2. Opening("use", t, NoConn, pc)
    BY <2>1 DEF Opening
  <2> QED
    BY <2>1, <2>2, QuietOpening, ConnConstants
<1>2. ASSUME NEW t \in Tokens, BeginDisconnect(p, t) PROVE \E r : QuietMove(p, r)
  <2>1. Opening("disconnect", t, NoConn, "revokeOld")
    BY DEF Opening
  <2> QED
    BY <1>2, <2>1, QuietOpening, ConnConstants DEF BeginDisconnect
<1>3. ASSUME NEW t \in Tokens, BeginRevoke(p, t) PROVE \E r : QuietMove(p, r)
  <2>1. Opening("revoke", t, NoConn, "delete")
    BY DEF Opening
  <2> QED
    BY <1>3, <2>1, QuietOpening, ConnConstants DEF BeginRevoke
<1>4. ASSUME NEW k \in Conns PROVE conn[k].token \in Tokens \cup {NoToken}
  BY DEF ConnTypes, RowsTyped, ConnRecords
<1>5. ASSUME NEW k \in Conns, BeginRemove(p, k) PROVE \E r : QuietMove(p, r)
  <2>1. Opening("remove", conn[k].token, k, "drop")
    BY DEF Opening
  <2>2. Start(p, "remove", conn[k].token, k, "drop") /\ UNCHANGED atProvider /\ conn[k].row # "unused"
    BY <1>5 DEF BeginRemove
  <2> QED
    BY <1>4, <2>1, <2>2, QuietOpening
<1>6. ASSUME NEW k \in Conns, BeginShared(p, k) PROVE \E r : QuietMove(p, r)
  <2>1. Opening("shared", conn[k].token, k, "lock")
    BY DEF Opening
  <2>2. Start(p, "shared", conn[k].token, k, "lock") /\ UNCHANGED atProvider /\ conn[k].row # "unused"
    BY <1>6 DEF BeginShared
  <2> QED
    BY <1>4, <2>1, <2>2, QuietOpening
<1> QED
  BY <1>1, <1>2, <1>3, <1>5, <1>6

\* The refreshes that replace nothing, and the statements that find no row.
LEMMA QuietRefreshes ==
    ASSUME ConnTypes, RefreshParts, NEW p \in Tasks,
           \/ RefreshToken(p) /\ (rotates => ~Accepted(task[p].cred))
           \/ RefreshConnection(p) /\ (rotates => ~Accepted(task[p].cred))
           \/ StoreToken(p) /\ ~HoldsRow(p)
    PROVE  \E r : QuietMove(p, r)
<1> USE DEF connHistory, atProvider, Doing
<1>0. task[p] \in TaskRecords /\ GoodTask(task[p]) /\ NumberedTask(task[p])
  BY DEF ConnTypes, RefreshParts, TasksGood, CredsNumbered
<1>1. CASE StoreToken(p) /\ ~HoldsRow(p)
  <2>1. SameRows /\ RowsTyped' /\ lock' \in [OAuthServers \X Conns -> Tasks \cup {NoTask}] /\ apart' \in BOOLEAN
        /\ \A q \in Tasks, x \in OAuthServers \X Conns : lock[x] = q => lock'[x] = q
    BY <1>1, RowsAlone DEF StoreToken
  <2> QED
    BY <1>1, <2>1, Ends DEF StoreToken
<1>2. ASSUME RefreshToken(p) \/ RefreshConnection(p), ~Accepted(task[p].cred)
      PROVE  \E r : QuietMove(p, r)
  <2>1. PICK pc \in {"delete", "drop"} :
          /\ Onto(p, pc) /\ UNCHANGED <<rotates, issued, spent, token, conn, lock, apart>>
          /\ task[p].pc \in {"refresh", "refreshConn"} /\ pc = (IF task[p].pc = "refresh" THEN "delete" ELSE "drop")
    BY <1>2 DEF RefreshToken, RefreshConnection
  <2>2. UNCHANGED selfRefused
    <3>1. CASE RefreshToken(p)
      BY <3>1 DEF RefreshToken
    <3>2. CASE RefreshConnection(p)
      <4>1. selfRefused' = (selfRefused \/ Spending(p) \in spent) /\ task[p].pc = "refreshConn"
        BY <1>2, <3>2 DEF RefreshConnection
      <4>2. Spending(p) \notin spent
        BY <4>1 DEF RefreshParts, SpentOnce
      <4> QED
        BY <4>1, <4>2 DEF ConnTypes
    <3> QED
      BY <1>2, <3>1, <3>2
  <2>3. SameRows /\ RowsTyped' /\ lock' \in [OAuthServers \X Conns -> Tasks \cup {NoTask}] /\ apart' \in BOOLEAN
        /\ \A q \in Tasks, x \in OAuthServers \X Conns : lock[x] = q => lock'[x] = q
    BY <2>1, RowsAlone
  <2>4. GoodTask([task[p] EXCEPT !.pc = pc]) /\ pc \in TaskPcs
    BY <1>0, <2>1 DEF GoodTask, TaskRecords, TaskPcs
  <2> QED
    BY <2>1, <2>2, <2>3, <2>4, GoesOn DEF LockPcs
<1>3. ASSUME RefreshToken(p) \/ RefreshConnection(p), Accepted(task[p].cred), ~rotates
      PROVE  \E r : QuietMove(p, r)
  <2>1. PICK pc \in {"store", "storeConn"} :
          /\ task' = [task EXCEPT ![p].pc = pc, ![p].new = task[p].cred]
          /\ UNCHANGED <<rotates, issued, spent, token, conn, lock, selfRefused>>
          /\ UNCHANGED apart
          /\ task[p].pc = (IF pc = "store" THEN "refresh" ELSE "refreshConn")
    <3>1. CASE RefreshToken(p)
      BY <1>3, <3>1 DEF RefreshToken, Issue
    <3>2. CASE RefreshConnection(p)
      BY <1>3, <3>2 DEF RefreshConnection, Issue, ConnTypes
    <3> QED
      BY <1>3, <3>1, <3>2
  <2> DEFINE r == [task[p] EXCEPT !.pc = pc, !.new = task[p].cred]
  <2>2. r \in TaskRecords /\ task' = [task EXCEPT ![p] = r]
    BY <1>0, <2>1 DEF TaskRecords, TaskPcs
  <2>3. /\ r.pc = pc /\ r.op = task[p].op /\ r.token = task[p].token /\ r.conn = task[p].conn
        /\ r.cred = task[p].cred /\ r.new = task[p].cred
    BY <1>0 DEF TaskRecords
  <2>4. SameRows /\ RowsTyped' /\ lock' \in [OAuthServers \X Conns -> Tasks \cup {NoTask}] /\ apart' \in BOOLEAN
        /\ \A q \in Tasks, x \in OAuthServers \X Conns : lock[x] = q => lock'[x] = q
    BY <2>1, RowsAlone
  <2>5. GoodTask(r)
    BY <1>0, <2>1, <2>3 DEF GoodTask
  <2>6. NumberedTask(r)
    BY <1>0, <2>1, <2>3 DEF NumberedTask
  <2>7. Public(r.cred) /\ Public(r.new)
    BY <2>3 DEF Public
  <2>8. r.conn \in Conns => conn[r.conn].row # "unused"
    BY <2>1, <2>3 DEF RefreshParts, ConnsExist
  <2>9. r.pc \in LockPcs => lock'[<<ServerOf[p], r.conn>>] = p
    <3>1. CASE pc = "storeConn"
      <4>1. lock[<<ServerOf[p], task[p].conn>>] = p
        BY <2>1, <3>1 DEF RefreshParts, Locked, LockPcs
      <4> QED
        BY <2>1, <2>3, <4>1
    <3> QED
      BY <2>1, <2>3, <3>1 DEF LockPcs
  <2> QED
    BY <1>3, <2>1, <2>2, <2>3, <2>4, <2>5, <2>6, <2>7, <2>8, <2>9 DEF QuietMove
<1> QED
  BY <1>1, <1>2, <1>3

\* The other tasks keep all they hold but the flag of a deleted row.
Others(p) ==
    \A q \in Tasks : q # p =>
        /\ task'[q].pc = task[q].pc /\ task'[q].op = task[q].op /\ task'[q].token = task[q].token
        /\ task'[q].conn = task[q].conn /\ task'[q].cred = task[q].cred /\ task'[q].new = task[q].new
        /\ task'[q].todo = task[q].todo

LEMMA KeepsTasks ==
    ASSUME TasksGood, NEW p \in Tasks, Others(p), GoodTask(task'[p])
    PROVE  TasksGood'
<1> SUFFICES ASSUME NEW q \in Tasks PROVE GoodTask(task'[q])
  BY DEF TasksGood
<1>1. CASE q # p
  BY <1>1 DEF TasksGood, Others, GoodTask
<1> QED
  BY <1>1

LEMMA KeepsNumbered ==
    ASSUME CredsNumbered, NEW p \in Tasks, Others(p),
           \A c : (Real(c) => Real(c)') /\ (Numbered(c) => Numbered(c)'),
           NumberedTask(task[p])',
           \A t \in Tokens : Real(token[t].cred)',
           \A k \in Conns : Numbered(conn[k].cred)' /\ (conn'[k].row # "unused" => Real(conn[k].cred)'),
           \A x \in spent' : Real(x[1])'
    PROVE  CredsNumbered'
<1>1. ASSUME NEW q \in Tasks PROVE NumberedTask(task[q])'
  <2>1. CASE q # p
    BY <2>1 DEF CredsNumbered, Others, NumberedTask
  <2> QED
    BY <2>1
<1> QED
  BY <1>1 DEF CredsNumbered

LEMMA KeepsExist ==
    ASSUME ConnsExist, NEW p \in Tasks, Others(p),
           \A k \in Conns : conn'[k].row = "unused" <=> conn[k].row = "unused",
           task'[p].conn \in Conns => task'[p].pc # "copy" /\ conn[task'[p].conn].row # "unused",
           \A x \in spent' : x[3] \in Conns => x \in spent \/ conn[x[3]].row # "unused"
    PROVE  ConnsExist'
<1>1. ASSUME NEW q \in Tasks, task'[q].conn \in Conns
      PROVE  /\ task'[q].pc = "copy" <=> conn'[task'[q].conn].row = "unused"
             /\ task'[q].pc = "copy" => \A s \in Tasks : task'[s].conn = task'[q].conn => s = q
  <2>1. CASE q = p
    BY <1>1, <2>1
  <2>2. CASE q # p
    BY <1>1, <2>2 DEF Others, ConnsExist
  <2> QED
    BY <2>1, <2>2
<1>2. \A x \in spent' : x[3] \in Conns => conn'[x[3]].row # "unused"
  BY DEF ConnsExist
<1> QED
  BY <1>1, <1>2 DEF ConnsExist

LEMMA KeepsLocked ==
    ASSUME ConnTypes, TasksGood, Locked, NEW p \in Tasks, Others(p),
           \A q \in Tasks, x \in OAuthServers \X Conns : q # p /\ lock[x] = q => lock'[x] = q,
           task'[p].pc \in LockPcs => lock'[<<ServerOf[p], task'[p].conn>>] = p
    PROVE  Locked'
<1> SUFFICES ASSUME NEW q \in Tasks, task'[q].pc \in LockPcs
             PROVE  lock'[<<ServerOf[q], task'[q].conn>>] = q
  BY DEF Locked
<1>1. CASE q # p
  BY <1>1, LockOf DEF Others, Locked
<1> QED
  BY <1>1

LEMMA KeepsSpent ==
    ASSUME SpentOnce, Locked, NEW p \in Tasks, Others(p), UNCHANGED rotates, ~rotates => spent' = {},
           NoConn \notin Conns, TasksGood, ConnTypes,
           \A x \in spent' : \/ x \in spent \/ x[3] = NoConn
                             \/ task[p].pc \in LockPcs /\ x = Spending(p),
           task'[p].pc # "refreshConn",
           \A x \in spent' : x[3] \in Conns =>
              \/ /\ x \in spent /\ conn'[x[3]].cred = conn[x[3]].cred
                 /\ task[p].pc = "storeConn" => Spending(p) # x
              \/ conn'[x[3]].cred # x[1]
              \/ task'[p].pc = "storeConn" /\ <<task'[p].cred, ServerOf[p], task'[p].conn>> = x
    PROVE  SpentOnce'
<1>0. \A q \in Tasks : Spending(q)' = <<task'[q].cred, ServerOf[q], task'[q].conn>>
  BY DEF Spending
<1>1. \A q \in Tasks : q # p => task'[q].pc = task[q].pc /\ Spending(q)' = Spending(q)
  BY <1>0 DEF Others, Spending
<1>2. ASSUME NEW q \in Tasks, task'[q].pc = "refreshConn" PROVE Spending(q)' \notin spent'
  <2>1. q # p /\ task[q].pc = "refreshConn" /\ Spending(q)' = Spending(q) /\ Spending(q) \notin spent
    BY <1>1, <1>2 DEF SpentOnce
  <2>2. task[q].conn \in Conns /\ lock[<<ServerOf[q], task[q].conn>>] = q
    BY <2>1, LockOf DEF LockPcs, Locked
  <2>3. task[p].pc \in LockPcs => lock[<<ServerOf[p], task[p].conn>>] = p
    BY DEF Locked
  <2>4. Spending(q)[3] \in Conns /\ (task[p].pc \in LockPcs => Spending(q) # Spending(p))
    BY <2>1, <2>2, <2>3 DEF Spending
  <2> QED
    BY <2>1, <2>4
<1>3. ASSUME NEW x \in spent', x[3] \in Conns
      PROVE  conn'[x[3]].cred # x[1] \/ \E q \in Tasks : task'[q].pc = "storeConn" /\ Spending(q)' = x
  <2>1. CASE /\ x \in spent /\ conn'[x[3]].cred = conn[x[3]].cred
             /\ task[p].pc = "storeConn" => Spending(p) # x
    BY <1>1, <1>3, <2>1 DEF SpentOnce
  <2>2. CASE task'[p].pc = "storeConn" /\ <<task'[p].cred, ServerOf[p], task'[p].conn>> = x
    BY <1>0, <2>2
  <2> QED
    BY <1>3, <2>1, <2>2
<1> QED
  BY <1>2, <1>3 DEF SpentOnce

LEMMA KeepsUnstored ==
    ASSUME Unstored, CredsNumbered, NEW p \in Tasks, Others(p), UNCHANGED rotates,
           \A c : rotates /\ Public(c)' => \/ Public(c) \/ ~Numbered(c)
                                           \/ c = task[p].new /\ task[p].pc = "storeConn",
           rotates /\ task'[p].pc = "storeConn" => ~Public(task[p].new)' /\ ~Numbered(task'[p].new)
    PROVE  Unstored'
<1> SUFFICES ASSUME rotates, NEW q \in Tasks, task'[q].pc = "storeConn"
             PROVE  /\ ~Public(task[q].new)'
                    /\ \A s \in Tasks : task'[s].pc = "storeConn" /\ task'[s].new = task'[q].new => s = q
  BY DEF Unstored
<1>1. ASSUME NEW s \in Tasks, s # p, task'[s].pc = "storeConn"
      PROVE  /\ task[s].pc = "storeConn" /\ task'[s].new = task[s].new /\ Numbered(task'[s].new)
             /\ ~Public(task[s].new)
  BY <1>1 DEF Others, CredsNumbered, NumberedTask, Numbered, Unstored
<1>2. CASE q = p
  BY <1>1, <1>2
<1>3. CASE q # p
  <2>1. task[q].pc = "storeConn" /\ task'[q].new = task[q].new /\ Numbered(task'[q].new) /\ ~Public(task[q].new)
    BY <1>1, <1>3
  <2>2. \A s \in Tasks : task[s].pc = "storeConn" /\ task[s].new = task[q].new => s = q
    BY <2>1 DEF Unstored
  <2>3. ~Public(task[q].new)'
    BY <1>3, <2>1, <2>2
  <2>4. ASSUME NEW s \in Tasks, task'[s].pc = "storeConn", task'[s].new = task'[q].new PROVE s = q
    BY <1>1, <2>1, <2>2, <2>4
  <2> QED
    BY <2>3, <2>4
<1> QED
  BY <1>2, <1>3

LEMMA PublicNumbered ==
    ASSUME CredsNumbered
    PROVE  \A c : Public(c) => Numbered(c)
BY DEF CredsNumbered, Public, Numbered, NumberedTask

\* A step that is given a new refresh token, for what it spends or for a code.
IssuingMove(p, r, n, X) ==
    /\ r \in TaskRecords /\ task' = [task EXCEPT ![p] = r] /\ task[p].pc # "storeConn"
    /\ UNCHANGED <<rotates, token, conn, lock, selfRefused>> /\ apart' \in BOOLEAN
    /\ GoodTask(r) /\ r.new = n /\ Numbered(r.cred) /\ Public(r.cred)
    /\ r.pc \in {"store", "storeConn", "revokeOld", "insert"}
    /\ r.conn \in Conns => /\ r.pc = "storeConn" /\ task[p].pc = "refreshConn"
                           /\ r.conn = task[p].conn /\ r.cred = task[p].cred
                           /\ conn[r.conn].row # "unused"
    /\ r.pc = "storeConn" => r.conn \in Conns
    /\ spent' = spent \cup X
    /\ X # {} => rotates /\ Real(r.cred)
    /\ \A x \in X : x = <<r.cred, x[2], r.conn>> /\ (r.conn \in Conns => x[2] = ServerOf[p])

LEMMA IssuingStep ==
    ASSUME ConnTypes, RefreshParts, NEW p \in Tasks, NEW t \in Tokens, issued[t] < MaxCredential,
           issued' = [issued EXCEPT ![t] = @ + 1], NEW n, n = <<t, issued[t] + 1>>,
           NEW r, NEW X, IssuingMove(p, r, n, X)
    PROVE  ConnTypes' /\ RefreshParts'
<1>1. /\ r \in TaskRecords /\ task' \in [Tasks -> TaskRecords] /\ task'[p] = r
      /\ \A q \in Tasks : q # p => task'[q] = task[q]
  BY TaskMoves DEF IssuingMove, ConnTypes
<1>2. Others(p) /\ r.new = n
  BY <1>1 DEF Others, IssuingMove
<1>3. /\ n \in Credentials /\ ~Numbered(n) /\ Real(n)'
      /\ \A c : (Real(c) => Real(c)') /\ (Numbered(c) => Numbered(c)')
      /\ issued' \in [Tokens -> 0..MaxCredential]
  BY FreshCredential
<1>4. UNCHANGED <<rotates, token, conn, lock, selfRefused>>
  BY DEF IssuingMove
<1>5. TasksGood /\ CredsNumbered /\ ConnsExist /\ Locked /\ SpentOnce /\ Unstored /\ ~selfRefused
  BY DEF RefreshParts
<1>6. ConnTypes'
  BY <1>1, <1>3, <1>4 DEF ConnTypes, RowsTyped, IssuingMove
<1>7. TasksGood'
  BY <1>1, <1>2, <1>5, KeepsTasks DEF IssuingMove
<1>8. CredsNumbered'
  <2>1. NumberedTask(task[p])'
    <3>1. Numbered(task[p].cred)'
      BY <1>1, <1>3 DEF IssuingMove, Numbered, Real, NoCredential
    <3>2. Real(task[p].new)'
      BY <1>1, <1>2, <1>3 DEF Real
    <3>3. task'[p].pc \notin {"refresh", "copy", "refreshConn"}
      BY <1>1 DEF IssuingMove
    <3> QED
      BY <3>1, <3>2, <3>3 DEF NumberedTask, Numbered
  <2>2. \A x \in spent' : Real(x[1])'
    BY <1>3, <1>5 DEF IssuingMove, CredsNumbered
  <2>3. \A u \in Tokens : Real(token[u].cred)'
    BY <1>3, <1>4, <1>5 DEF CredsNumbered, Real
  <2>4. \A k \in Conns : Numbered(conn[k].cred)' /\ (conn'[k].row # "unused" => Real(conn[k].cred)')
    BY <1>3, <1>4, <1>5 DEF CredsNumbered, Real, Numbered, NoCredential
  <2> QED
    BY <1>2, <1>3, <1>5, <2>1, <2>2, <2>3, <2>4, KeepsNumbered
<1>9. ConnsExist'
  <2>1. \A x \in spent' : x[3] \in Conns => x \in spent \/ conn[x[3]].row # "unused"
    BY DEF IssuingMove
  <2>2. task'[p].conn \in Conns => task'[p].pc # "copy" /\ conn[task'[p].conn].row # "unused"
    BY <1>1 DEF IssuingMove
  <2> QED
    BY <1>2, <1>4, <1>5, <2>1, <2>2, KeepsExist
<1>10. Locked'
  <2>1. task'[p].pc \in LockPcs => lock'[<<ServerOf[p], task'[p].conn>>] = p
    BY <1>1, <1>4, <1>5 DEF IssuingMove, Locked, LockPcs
  <2> QED
    BY <1>2, <1>4, <1>5, <2>1, KeepsLocked
<1>11. SpentOnce'
  <2>1. \A x \in spent' : \/ x \in spent \/ x[3] = NoConn
                          \/ task[p].pc \in LockPcs /\ x = Spending(p)
    <3> SUFFICES ASSUME NEW x \in X PROVE x[3] = NoConn \/ (task[p].pc \in LockPcs /\ x = Spending(p))
      BY DEF IssuingMove
    <3>1. x = <<r.cred, x[2], r.conn>> /\ (r.conn \in Conns => x[2] = ServerOf[p])
      BY DEF IssuingMove
    <3>2. CASE r.conn \in Conns
      BY <3>1, <3>2 DEF IssuingMove, Spending, LockPcs
    <3>3. CASE r.conn \notin Conns
      <4>1. r.conn = NoConn
        BY <1>1, <3>3 DEF TaskRecords
      <4>2. x = <<r.cred, x[2], NoConn>>
        BY <3>1, <4>1
      <4>3. x[3] = NoConn
        BY <4>2
      <4> QED
        BY <4>3
    <3> QED
      BY <3>2, <3>3
  <2>2. \A x \in spent' : x[3] \in Conns =>
              \/ /\ x \in spent /\ conn'[x[3]].cred = conn[x[3]].cred
                 /\ task[p].pc = "storeConn" => Spending(p) # x
              \/ conn'[x[3]].cred # x[1]
              \/ task'[p].pc = "storeConn" /\ <<task'[p].cred, ServerOf[p], task'[p].conn>> = x
    <3> SUFFICES ASSUME NEW x \in spent', x[3] \in Conns, x \notin spent
                 PROVE  task'[p].pc = "storeConn" /\ <<task'[p].cred, ServerOf[p], task'[p].conn>> = x
      BY <1>4 DEF IssuingMove
    <3>1. x \in X
      BY DEF IssuingMove
    <3>2. x = <<r.cred, x[2], r.conn>> /\ (r.conn \in Conns => x[2] = ServerOf[p])
      BY <3>1 DEF IssuingMove
    <3> QED
      BY <1>1, <3>2 DEF IssuingMove
  <2>3. task'[p].pc # "refreshConn"
    BY <1>1 DEF IssuingMove
  <2>4. ~rotates => spent' = {}
    BY <1>5 DEF IssuingMove, SpentOnce
  <2> QED
    BY <1>2, <1>4, <1>5, <2>1, <2>2, <2>3, <2>4, KeepsSpent, ConnConstants
<1>12. Unstored'
  <2>1. ASSUME NEW c, Public(c)', ~Public(c) PROVE c = n /\ r.pc # "storeConn"
    <3>1. \A x \in spent' : x[1] = c => FALSE
      BY <2>1 DEF IssuingMove, Public
    <3>2. \A q \in Tasks : task'[q].cred # c
      BY <1>1, <2>1 DEF IssuingMove, Public
    <3>3. PICK q \in Tasks : task'[q].pc # "storeConn" /\ task'[q].new = c
      BY <1>4, <2>1, <3>1, <3>2 DEF Public, NoCredential
    <3> QED
      BY <1>1, <1>2, <2>1, <3>3 DEF Public
  <2>2. \A c : rotates /\ Public(c)' => \/ Public(c) \/ ~Numbered(c)
                                        \/ c = task[p].new /\ task[p].pc = "storeConn"
    BY <1>3, <2>1
  <2>3. task'[p].pc = "storeConn" => ~Public(task[p].new)' /\ ~Numbered(task'[p].new)
    <3> SUFFICES ASSUME r.pc = "storeConn" PROVE ~Public(task[p].new)' /\ ~Numbered(n)
      BY <1>1, <1>2
    <3>1. task'[p].new = n /\ ~Public(n)
      BY <1>1, <1>2, <1>3, <1>5, PublicNumbered
    <3>2. \A c : c = n => ~Public(c)'
      BY <2>1, <3>1
    <3> QED
      BY <1>3, <3>1, <3>2 DEF Public
  <2> QED
    BY <1>2, <1>4, <1>5, <2>2, <2>3, KeepsUnstored
<1> QED
  BY <1>4, <1>5, <1>6, <1>7, <1>8, <1>9, <1>10, <1>11, <1>12 DEF RefreshParts

\* The calls and the refreshes that are given a new refresh token.
LEMMA IssuingSteps ==
    ASSUME ConnTypes, RefreshParts, NEW p \in Tasks,
           \/ \E t \in Tokens : BeginConnect(p, t)
           \/ RefreshToken(p) /\ rotates /\ Accepted(task[p].cred)
           \/ RefreshConnection(p) /\ rotates /\ Accepted(task[p].cred)
    PROVE  ConnTypes' /\ RefreshParts'
<1> USE DEF connHistory, Doing
<1>0. task[p] \in TaskRecords /\ GoodTask(task[p]) /\ NumberedTask(task[p])
  BY DEF ConnTypes, RefreshParts, TasksGood, CredsNumbered
<1>1. ASSUME NEW t \in Tokens, BeginConnect(p, t) PROVE ConnTypes' /\ RefreshParts'
  <2> DEFINE n == <<t, issued[t] + 1>>
             r == [NoWork EXCEPT !.op = "connect", !.pc = IF token[t].row THEN "revokeOld" ELSE "insert",
                                 !.token = t, !.cred = token[t].cred, !.new = n]
  <2>1. /\ issued[t] < MaxCredential /\ issued' = [issued EXCEPT ![t] = @ + 1]
        /\ task' = [task EXCEPT ![p] = r] /\ task[p].pc = "idle" /\ apart' \in BOOLEAN
        /\ UNCHANGED <<rotates, token, conn, lock, spent, selfRefused>>
    BY <1>1 DEF BeginConnect, ConnTypes
  <2>2. n \in Credentials
    BY <2>1, FreshCredential
  <2>3. /\ r \in TaskRecords /\ r.op = "connect" /\ r.pc \in {"revokeOld", "insert"} /\ r.token = t
        /\ r.conn = NoConn /\ r.cred = token[t].cred /\ r.new = n
    BY <2>2 DEF NoWork, TaskRecords, TaskPcs, TaskOps, ConnTypes, RowsTyped, TokenRecords
  <2> HIDE DEF r, n
  <2>4. GoodTask(r) /\ Numbered(r.cred) /\ Public(r.cred)
    BY <2>3, ConnConstants DEF GoodTask, Public, Numbered, RefreshParts, CredsNumbered
  <2>5. IssuingMove(p, r, n, {})
    BY <2>1, <2>3, <2>4, ConnConstants DEF IssuingMove
  <2>6. n = <<t, issued[t] + 1>>
    BY DEF n
  <2> QED
    BY <2>1, <2>5, <2>6, IssuingStep
<1>2. ASSUME NEW who, NEW pc \in {"store", "storeConn"}, Issue(p, who, pc), rotates,
             task[p].pc = IF pc = "store" THEN "refresh" ELSE "refreshConn",
             pc = "storeConn" => who = ServerOf[p],
             UNCHANGED <<rotates, token, conn, lock, selfRefused>>, apart' \in BOOLEAN
      PROVE  ConnTypes' /\ RefreshParts'
  <2> DEFINE c == task[p].cred
             t == c[1]
             n == <<t, issued[t] + 1>>
             r == [task[p] EXCEPT !.pc = pc, !.new = n]
             X == {<<c, who, task[p].conn>>}
  <2>1. /\ issued[t] < MaxCredential /\ issued' = [issued EXCEPT ![t] = @ + 1]
        /\ spent' = spent \cup X
        /\ task' = [task EXCEPT ![p].pc = pc, ![p].new = n]
    BY <1>2 DEF Issue
  <2>2. Real(c) /\ t \in Tokens
    BY <1>0, <1>2 DEF NumberedTask, Real
  <2>3. n \in Credentials
    BY <2>1, <2>2, FreshCredential
  <2>4. r \in TaskRecords /\ task' = [task EXCEPT ![p] = r]
    BY <1>0, <2>1, <2>3 DEF TaskRecords, TaskPcs
  <2>5. /\ r.pc = pc /\ r.op = task[p].op /\ r.token = task[p].token /\ r.conn = task[p].conn
        /\ r.cred = c /\ r.new = n
    BY <1>0 DEF TaskRecords
  <2>6. GoodTask(r) /\ (r.conn \in Conns <=> pc = "storeConn")
    BY <1>0, <1>2, <2>5, ConnConstants DEF GoodTask, TaskRecords
  <2>7. Numbered(r.cred) /\ Public(r.cred)
    BY <2>2, <2>5 DEF Public, Numbered
  <2>8. r.conn \in Conns => conn[r.conn].row # "unused"
    BY <1>2, <2>5 DEF RefreshParts, ConnsExist
  <2>9. \A x \in X : x = <<r.cred, x[2], r.conn>> /\ x[2] = who
    BY <2>5
  <2>10. n = <<t, issued[t] + 1>> /\ Real(r.cred)
    BY <2>2, <2>5
  <2> HIDE DEF r, n, X, t, c
  <2>11. IssuingMove(p, r, n, X)
    BY <1>2, <2>1, <2>4, <2>5, <2>6, <2>7, <2>8, <2>9, <2>10 DEF IssuingMove, c
  <2> QED
    BY <2>1, <2>2, <2>10, <2>11, IssuingStep
<1>3. CASE RefreshToken(p) /\ rotates /\ Accepted(task[p].cred)
  <2>1. Issue(p, "personal", "store") /\ task[p].pc = "refresh" /\ apart' \in BOOLEAN
        /\ UNCHANGED <<rotates, token, conn, lock, selfRefused>>
    BY <1>3 DEF RefreshToken, ConnTypes
  <2> QED
    BY <1>2, <1>3, <2>1
<1>4. CASE RefreshConnection(p) /\ rotates /\ Accepted(task[p].cred)
  <2>1. Issue(p, ServerOf[p], "storeConn") /\ task[p].pc = "refreshConn" /\ apart' \in BOOLEAN
        /\ UNCHANGED <<rotates, token, conn, lock, selfRefused>>
    BY <1>4 DEF RefreshConnection, ConnTypes
  <2> QED
    BY <1>2, <1>4, <2>1
<1> QED
  BY <1>1, <1>3, <1>4

\* A step that issues nothing and writes rows: what it writes was known, or is what
\* its task got.
Known(p, c) == Public(c) \/ c = task[p].new

LEMMA WritingStep ==
    ASSUME ConnTypes, RefreshParts, NEW p \in Tasks, Others(p),
           UNCHANGED <<rotates, issued, selfRefused>>,
           GoodTask(task'[p]), NumberedTask(task'[p]), task'[p].pc \notin LockPcs,
           Known(p, task'[p].cred), Known(p, task'[p].new),
           \A t \in Tokens : Real(token'[t].cred) /\ Known(p, token'[t].cred),
           \A k \in Conns : /\ Numbered(conn'[k].cred) /\ Known(p, conn'[k].cred)
                            /\ conn'[k].row # "unused" => Real(conn'[k].cred),
           ConnsExist',
           \A q \in Tasks, x \in OAuthServers \X Conns : q # p /\ lock[x] = q => lock'[x] = q,
           \A x \in spent' : x \in spent \/ (x[3] = NoConn /\ \E y \in spent : y[1] = x[1]),
           \A x \in spent' : x[3] \in Conns =>
              \/ /\ conn'[x[3]].cred = conn[x[3]].cred
                 /\ task[p].pc = "storeConn" => Spending(p) # x
              \/ conn'[x[3]].cred # x[1]
    PROVE  RefreshParts'
<1>1. TasksGood /\ CredsNumbered /\ ConnsExist /\ Locked /\ SpentOnce /\ Unstored /\ ~selfRefused
  BY DEF RefreshParts
<1>2. \A c : (Real(c)' <=> Real(c)) /\ (Numbered(c)' <=> Numbered(c))
  BY SameIssued
<1>3. TasksGood'
  BY <1>1, KeepsTasks
<1>4. CredsNumbered'
  <2>1. NumberedTask(task[p])'
    BY <1>2 DEF NumberedTask
  <2>2. \A t \in Tokens : Real(token[t].cred)'
    BY DEF Real
  <2>3. \A k \in Conns : Numbered(conn[k].cred)' /\ (conn'[k].row # "unused" => Real(conn[k].cred)')
    BY DEF Real, Numbered, NoCredential
  <2>4. \A x \in spent' : Real(x[1])'
    BY <1>1, <1>2 DEF CredsNumbered
  <2> QED
    BY <1>1, <1>2, <2>1, <2>2, <2>3, <2>4, KeepsNumbered
<1>5. Locked'
  BY <1>1, KeepsLocked
<1>6. SpentOnce'
  <2>1. \A x \in spent' : \/ x \in spent \/ x[3] = NoConn
                          \/ task[p].pc \in LockPcs /\ x = Spending(p)
    OBVIOUS
  <2>2. \A x \in spent' : x[3] \in Conns =>
              \/ /\ x \in spent /\ conn'[x[3]].cred = conn[x[3]].cred
                 /\ task[p].pc = "storeConn" => Spending(p) # x
              \/ conn'[x[3]].cred # x[1]
              \/ task'[p].pc = "storeConn" /\ <<task'[p].cred, ServerOf[p], task'[p].conn>> = x
    BY ConnConstants
  <2>3. ~rotates => spent' = {}
    BY <1>1 DEF SpentOnce
  <2>4. task'[p].pc # "refreshConn"
    BY DEF LockPcs
  <2> QED
    BY <1>1, <2>1, <2>2, <2>3, <2>4, KeepsSpent, ConnConstants
<1>7. Unstored'
  <2>1. ASSUME NEW c, Public(c)' PROVE Public(c) \/ c = task[p].new
    <3>1. CASE \E q \in Tasks : task'[q].cred = c
      BY <3>1 DEF Others, Known, Public
    <3>2. CASE \E q \in Tasks : task'[q].pc # "storeConn" /\ task'[q].new = c
      BY <3>2 DEF Others, Known, Public
    <3>3. CASE \E x \in spent' : x[1] = c
      BY <3>3 DEF Public
    <3>4. CASE (\E k \in Conns : conn'[k].cred = c) \/ \E t \in Tokens : token'[t].cred = c
      BY <3>4 DEF Known
    <3> QED
      BY <2>1, <3>1, <3>2, <3>3, <3>4 DEF Public, NoCredential
  <2>2. \A c : rotates /\ Public(c)' => \/ Public(c) \/ ~Numbered(c)
                                        \/ c = task[p].new /\ task[p].pc = "storeConn"
    BY <2>1 DEF Public
  <2>3. task'[p].pc # "storeConn"
    BY DEF LockPcs
  <2> QED
    BY <1>1, <2>2, <2>3, KeepsUnstored
<1> QED
  BY <1>1, <1>3, <1>4, <1>5, <1>6, <1>7 DEF RefreshParts

\* What was there is known, and numbered.
LEMMA KnownRows ==
    ASSUME ConnTypes, RefreshParts, NEW p \in Tasks
    PROVE  /\ \A t \in Tokens : Real(token[t].cred) /\ Known(p, token[t].cred)
           /\ \A k \in Conns : /\ Numbered(conn[k].cred) /\ Known(p, conn[k].cred)
                               /\ conn[k].row # "unused" => Real(conn[k].cred)
           /\ Known(p, task[p].cred) /\ Known(p, task[p].new) /\ Known(p, NoCredential)
           /\ GoodTask(task[p]) /\ NumberedTask(task[p]) /\ task[p] \in TaskRecords
BY DEF RefreshParts, CredsNumbered, TasksGood, Known, Public, ConnTypes

\* What a connection or a reconnect got is written to the row of its account.
LEMMA TokenWrites ==
    ASSUME ConnTypes, RefreshParts, NEW p \in Tasks,
           (StoreToken(p) /\ HoldsRow(p)) \/ InsertToken(p)
    PROVE  ConnTypes' /\ RefreshParts'
<1> USE DEF connHistory, atProvider, Doing
<1>0. /\ \A t \in Tokens : Real(token[t].cred) /\ Known(p, token[t].cred)
      /\ \A k \in Conns : /\ Numbered(conn[k].cred) /\ Known(p, conn[k].cred)
                          /\ conn[k].row # "unused" => Real(conn[k].cred)
      /\ Known(p, task[p].cred) /\ Known(p, task[p].new) /\ Known(p, NoCredential)
      /\ GoodTask(task[p]) /\ NumberedTask(task[p]) /\ task[p] \in TaskRecords
  BY KnownRows
<1> DEFINE t == task[p].token
<1>1. PICK r, v :
        /\ task' = [task EXCEPT ![p] = r] /\ token' = [token EXCEPT ![t] = v]
        /\ r \in TaskRecords /\ v \in TokenRecords /\ v.cred = task[p].new
        /\ t \in Tokens /\ Real(task[p].new) /\ task[p].pc \in {"store", "insert"}
        /\ GoodTask(r) /\ NumberedTask(r) /\ r.pc \notin LockPcs \cup {"copy"} /\ r.conn \notin Conns
        /\ r.cred \in {task[p].cred, NoCredential} /\ r.new \in {task[p].new, NoCredential}
  <2>1. CASE StoreToken(p) /\ HoldsRow(p)
    <3> DEFINE r == [task[p] EXCEPT !.pc = "find"]
               v == [token[t] EXCEPT !.cred = task[p].new, !.fresh = TRUE]
    <3>1. t \in Tokens /\ task[p].pc = "store" /\ task[p].op \in {"use", "connect"} /\ Real(task[p].new)
          /\ task' = [task EXCEPT ![p] = r]
      BY <1>0, <2>1 DEF StoreToken, HoldsRow, TaskRecords, GoodTask, NumberedTask, Onto
    <3>2. /\ r \in TaskRecords /\ r.pc = "find" /\ r.op = task[p].op /\ r.token = t
          /\ r.conn = task[p].conn /\ r.cred = task[p].cred /\ r.new = task[p].new
      BY <1>0 DEF TaskRecords, TaskPcs
    <3>3. GoodTask(r) /\ NumberedTask(r) /\ r.conn \notin Conns /\ r.pc \notin LockPcs \cup {"copy"}
      BY <1>0, <3>1, <3>2, ConnConstants DEF GoodTask, NumberedTask, LockPcs
    <3>4. token' = [token EXCEPT ![t].cred = task[p].new, ![t].fresh = TRUE]
      BY <2>1 DEF StoreToken
    <3>5. token' = [token EXCEPT ![t] = v] /\ v \in TokenRecords /\ v.cred = task[p].new
      <4>1. token[t] \in TokenRecords /\ token \in [Tokens -> TokenRecords] /\ task[p].new \in Credentials
        BY <1>0, <3>1 DEF ConnTypes, RowsTyped, TaskRecords
      <4>2. v \in TokenRecords /\ v.cred = task[p].new
        BY <4>1 DEF TokenRecords
      <4>3. token' = [token EXCEPT ![t] = v]
        BY <3>1, <3>4, <4>1 DEF TokenRecords
      <4> QED
        BY <4>2, <4>3
    <3> QED
      BY <3>1, <3>2, <3>3, <3>5
  <2>2. CASE InsertToken(p)
    <3> DEFINE v == [row |-> TRUE, cred |-> task[p].new, fresh |-> TRUE, shared |-> FALSE]
    <3>1. t \in Tokens /\ task[p].pc = "insert" /\ Real(task[p].new) /\ task' = [task EXCEPT ![p] = NoWork]
          /\ token' = [token EXCEPT ![t] = v]
      BY <1>0, <2>2 DEF InsertToken, GoodTask, NumberedTask, Finish
    <3>2. v \in TokenRecords /\ v.cred = task[p].new
      BY <1>0 DEF TokenRecords, TaskRecords
    <3> QED
      BY <3>1, <3>2, ConnConstants DEF LockPcs
  <2> QED
    BY <2>1, <2>2
<1>2. UNCHANGED <<rotates, conn, lock, issued, spent, selfRefused, apart>>
  BY DEF StoreToken, InsertToken
<1>3. /\ task' \in [Tasks -> TaskRecords] /\ task'[p] = r
      /\ \A q \in Tasks : q # p => task'[q] = task[q]
  BY <1>1, TaskMoves DEF ConnTypes
<1>4. /\ token' \in [Tokens -> TokenRecords] /\ token'[t] = v
      /\ \A u \in Tokens : u # t => token'[u] = token[u]
  BY <1>1 DEF ConnTypes, RowsTyped
<1>5. ConnTypes'
  BY <1>2, <1>3, <1>4 DEF ConnTypes, RowsTyped
<1>6. Others(p)
  BY <1>3 DEF Others
<1>7. ConnsExist'
  <2>1. ConnsExist
    BY DEF RefreshParts
  <2> QED
    BY <1>1, <1>2, <1>3, <1>6, <2>1, KeepsExist
<1>8. \A u \in Tokens : Real(token'[u].cred) /\ Known(p, token'[u].cred)
  BY <1>0, <1>1, <1>4
<1>9. Known(p, task'[p].cred) /\ Known(p, task'[p].new) /\ GoodTask(task'[p]) /\ NumberedTask(task'[p])
      /\ task'[p].pc \notin LockPcs
  BY <1>0, <1>1, <1>3
<1>10. RefreshParts'
  BY <1>0, <1>1, <1>2, <1>6, <1>7, <1>8, <1>9, WritingStep
<1> QED
  BY <1>5, <1>10

\* The rows of accounts are deleted; their connections lose the token.
LEMMA TokenDeletes ==
    ASSUME ConnTypes, RefreshParts, NEW p \in Tasks, DeleteToken(p) \/ PurgeNewest(p)
    PROVE  ConnTypes' /\ RefreshParts'
<1> USE DEF connHistory, atProvider, Doing
<1>0. /\ \A t \in Tokens : Real(token[t].cred) /\ Known(p, token[t].cred)
      /\ \A k \in Conns : /\ Numbered(conn[k].cred) /\ Known(p, conn[k].cred)
                          /\ conn[k].row # "unused" => Real(conn[k].cred)
      /\ Known(p, task[p].cred) /\ Known(p, task[p].new) /\ Known(p, NoCredential)
      /\ GoodTask(task[p]) /\ NumberedTask(task[p]) /\ task[p] \in TaskRecords
  BY KnownRows
<1>1. PICK r, T :
        /\ r \in TaskRecords /\ task' = Orphaned([task EXCEPT ![p] = r], T) /\ DeleteRows(T)
        /\ r = NoWork \/ r = [task[p] EXCEPT !.pc = "stale"]
  <2>1. NoWork \in TaskRecords /\ [task[p] EXCEPT !.pc = "stale"] \in TaskRecords
    BY <1>0, ConnConstants DEF TaskRecords, TaskPcs
  <2>2. CASE DeleteToken(p)
    <3> DEFINE T == IF task[p].orphaned THEN {} ELSE {task[p].token}
    <3>1. /\ task' = Orphaned([task EXCEPT ![p] = IF task[p].op = "disconnect" THEN NoWork
                                                  ELSE [task[p] EXCEPT !.pc = "stale"]], T)
          /\ DeleteRows(T)
      BY <2>2 DEF DeleteToken, ConnTypes
    <3> QED
      BY <2>1, <3>1
  <2>3. CASE PurgeNewest(p)
    <3>1. task' = Orphaned([task EXCEPT ![p] = [task[p] EXCEPT !.pc = "stale"]], NewestRow)
          /\ DeleteRows(NewestRow)
      BY <2>3 DEF PurgeNewest, ConnTypes
    <3> QED
      BY <2>1, <3>1
  <2> QED
    BY <2>2, <2>3
<1>2. UNCHANGED <<rotates, lock, issued, spent, selfRefused, apart>> /\ task[p].pc \in {"delete", "purge"}
  BY DEF DeleteToken, PurgeNewest
<1> DEFINE tasks == [task EXCEPT ![p] = r]
<1>3. tasks \in [Tasks -> TaskRecords] /\ tasks[p] = r /\ \A q \in Tasks : q # p => tasks[q] = task[q]
  BY <1>1 DEF ConnTypes
<1>13. task' = Orphaned(tasks, T)
  BY <1>1
<1> HIDE DEF tasks
<1>4. /\ task' \in [Tasks -> TaskRecords]
      /\ \A q \in Tasks : \A f \in {"pc", "op", "token", "conn", "cred", "new", "todo"} : task'[q][f] = tasks[q][f]
  BY <1>3, <1>13, OrphanedTasks
<1>5. /\ task'[p].pc = r.pc /\ task'[p].op = r.op /\ task'[p].token = r.token /\ task'[p].conn = r.conn
      /\ task'[p].cred = r.cred /\ task'[p].new = r.new
  BY <1>3, <1>4
<1>6. Others(p)
  BY <1>3, <1>4 DEF Others
<1>7. /\ RowsTyped'
      /\ \A t \in Tokens : token'[t].cred = token[t].cred
      /\ \A k \in Conns : conn'[k].row = conn[k].row /\ conn'[k].cred = conn[k].cred
  BY <1>1, DeletedRows DEF ConnTypes
<1>8. /\ GoodTask(r) /\ NumberedTask(r) /\ r.pc \notin LockPcs \cup {"copy"}
      /\ Known(p, r.cred) /\ Known(p, r.new) /\ r.conn \in {NoConn, task[p].conn}
  <2>1. CASE r = NoWork
    BY <1>0, <2>1, ConnConstants DEF LockPcs
  <2>2. CASE r = [task[p] EXCEPT !.pc = "stale"]
    <3>1. /\ r.pc = "stale" /\ r.op = task[p].op /\ r.token = task[p].token
          /\ r.conn = task[p].conn /\ r.cred = task[p].cred /\ r.new = task[p].new
      BY <1>0, <2>2 DEF TaskRecords
    <3> QED
      BY <1>0, <1>2, <3>1 DEF GoodTask, NumberedTask, LockPcs
  <2> QED
    BY <1>1, <2>1, <2>2
<1>9. GoodTask(task'[p]) /\ NumberedTask(task'[p]) /\ task'[p].pc \notin LockPcs
      /\ Known(p, task'[p].cred) /\ Known(p, task'[p].new)
  BY <1>5, <1>8 DEF GoodTask, NumberedTask
<1>10. ConnsExist'
  <2>1. ConnsExist /\ \A k \in Conns : conn'[k].row = "unused" <=> conn[k].row = "unused"
    BY <1>7 DEF RefreshParts
  <2>2. task'[p].conn \in Conns => task'[p].pc # "copy" /\ conn[task'[p].conn].row # "unused"
    BY <1>2, <1>5, <1>8, <2>1, ConnConstants DEF ConnsExist
  <2> QED
    BY <1>2, <1>6, <2>1, <2>2, KeepsExist
<1>11. ConnTypes'
  BY <1>2, <1>4, <1>7 DEF ConnTypes
<1>12. RefreshParts'
  BY <1>0, <1>2, <1>6, <1>7, <1>9, <1>10, WritingStep
<1> QED
  BY <1>11, <1>12

\* The propagation reaches a connection.
LEMMA CopyWritten ==
    ASSUME ConnTypes, RefreshParts, NEW p \in Tasks, NEW k \in Conns, SpreadTo(p, k)
    PROVE  ConnTypes' /\ RefreshParts'
<1> USE DEF connHistory, Doing
<1>0. /\ \A t \in Tokens : Real(token[t].cred) /\ Known(p, token[t].cred)
      /\ \A j \in Conns : /\ Numbered(conn[j].cred) /\ Known(p, conn[j].cred)
                          /\ conn[j].row # "unused" => Real(conn[j].cred)
      /\ Known(p, task[p].cred) /\ Known(p, task[p].new) /\ Known(p, NoCredential)
      /\ GoodTask(task[p]) /\ NumberedTask(task[p]) /\ task[p] \in TaskRecords
  BY KnownRows
<1> DEFINE n == task[p].new
           r == [task[p] EXCEPT !.todo = @ \ {k}]
           X == {x \in spent : x[1] = n}
<1>1. /\ task[p].pc = "spread" /\ task' = [task EXCEPT ![p] = r] /\ Real(n) /\ n \in Credentials
      /\ task[p].op \in {"use", "connect"}
      /\ UNCHANGED <<rotates, token, order, lock, issued, selfRefused, apart>>
      /\ Retag(X)
  BY <1>0 DEF SpreadTo, NumberedTask, GoodTask, TaskRecords
<1>2. /\ r \in TaskRecords /\ r.pc = "spread" /\ r.op = task[p].op /\ r.token = task[p].token
      /\ r.conn = task[p].conn /\ r.cred = task[p].cred /\ r.new = n
  BY <1>0, <1>1 DEF TaskRecords
<1>3. /\ task' \in [Tasks -> TaskRecords] /\ task'[p] = r
      /\ \A q \in Tasks : q # p => task'[q] = task[q]
  BY <1>1, <1>2, TaskMoves DEF ConnTypes
<1>4. /\ conn' \in [Conns -> ConnRecords]
      /\ \A j \in Conns : conn'[j].row = conn[j].row /\ conn'[j].cred \in {conn[j].cred, n}
                          /\ (conn'[j].cred # conn[j].cred => conn[j].row = "on")
  <2>1. CASE conn' = conn
    BY <2>1 DEF ConnTypes, RowsTyped
  <2>2. CASE conn[k].row = "on" /\ conn' = [conn EXCEPT ![k].cred = n, ![k].fresh = TRUE]
    BY <1>1, <2>2 DEF ConnTypes, RowsTyped, ConnRecords
  <2> QED
    BY <2>1, <2>2 DEF SpreadTo
<1>5. ConnTypes'
  BY <1>1, <1>3, <1>4 DEF ConnTypes, RowsTyped
<1>6. Others(p)
  BY <1>3 DEF Others
<1>7. /\ GoodTask(r) /\ NumberedTask(r) /\ r.pc \notin LockPcs \cup {"copy"} /\ r.conn \notin Conns
  BY <1>0, <1>1, <1>2, ConnConstants DEF GoodTask, NumberedTask, LockPcs
<1>8. \A x \in spent' : \/ x \in spent /\ x[1] # n
                        \/ x[3] = NoConn /\ \E y \in spent : y[1] = x[1]
  BY <1>1 DEF Retag
<1>9. ConnsExist'
  <2>1. ConnsExist
    BY DEF RefreshParts
  <2>2. \A x \in spent' : x[3] \in Conns => x \in spent \/ conn[x[3]].row # "unused"
    BY <1>8, ConnConstants
  <2>3. task'[p].conn \notin Conns
    BY <1>3, <1>7
  <2> QED
    BY <1>4, <1>6, <2>1, <2>2, <2>3, KeepsExist
<1>10. /\ GoodTask(task'[p]) /\ NumberedTask(task'[p]) /\ task'[p].pc \notin LockPcs
       /\ Known(p, task'[p].cred) /\ Known(p, task'[p].new)
  BY <1>0, <1>2, <1>3, <1>7
<1>11. \A j \in Conns : /\ Numbered(conn'[j].cred) /\ Known(p, conn'[j].cred)
                        /\ conn'[j].row # "unused" => Real(conn'[j].cred)
  BY <1>0, <1>1, <1>4 DEF Numbered
<1>12. \A x \in spent' : x[3] \in Conns =>
              \/ /\ conn'[x[3]].cred = conn[x[3]].cred
                 /\ task[p].pc = "storeConn" => Spending(p) # x
              \/ conn'[x[3]].cred # x[1]
  BY <1>1, <1>4, <1>8, ConnConstants
<1>13. \A t \in Tokens : Real(token'[t].cred) /\ Known(p, token'[t].cred)
  BY <1>0, <1>1
<1>14. \A x \in spent' : x \in spent \/ (x[3] = NoConn /\ \E y \in spent : y[1] = x[1])
  BY <1>8
<1>15. \A q \in Tasks, x \in OAuthServers \X Conns : q # p /\ lock[x] = q => lock'[x] = q
  BY <1>1
<1>16. UNCHANGED <<rotates, issued, selfRefused>>
  BY <1>1
<1>17. RefreshParts'
  BY <1>6, <1>9, <1>10, <1>11, <1>12, <1>13, <1>14, <1>15, <1>16, WritingStep
<1> QED
  BY <1>5, <1>17

\* A connection is removed, or a task ends before it has made one.
LEMMA ConnectionDropped ==
    ASSUME ConnTypes, RefreshParts, NEW p \in Tasks, DropConnection(p)
    PROVE  ConnTypes' /\ RefreshParts'
<1> USE DEF connHistory, atProvider, Doing
<1>0. /\ \A t \in Tokens : Real(token[t].cred) /\ Known(p, token[t].cred)
      /\ \A j \in Conns : /\ Numbered(conn[j].cred) /\ Known(p, conn[j].cred)
                          /\ conn[j].row # "unused" => Real(conn[j].cred)
      /\ Known(p, task[p].cred) /\ Known(p, task[p].new) /\ Known(p, NoCredential)
      /\ GoodTask(task[p]) /\ NumberedTask(task[p]) /\ task[p] \in TaskRecords
  BY KnownRows
<1> DEFINE k == task[p].conn
           r == [task[p] EXCEPT !.pc = "check"]
<1>1. /\ task[p].pc = "drop" /\ task' = [task EXCEPT ![p] = r] /\ k \in Conns /\ conn[k].row # "unused"
      /\ conn' = [conn EXCEPT ![k].row = "gone"]
      /\ UNCHANGED <<rotates, token, lock, issued, spent, selfRefused, apart>>
  BY <1>0, ConnConstants DEF DropConnection, GoodTask, TaskRecords, Onto, RefreshParts, ConnsExist
<1>2. /\ r \in TaskRecords /\ r.pc = "check" /\ r.op = task[p].op /\ r.token = task[p].token
      /\ r.conn = k /\ r.cred = task[p].cred /\ r.new = task[p].new
  BY <1>0, <1>1 DEF TaskRecords, TaskPcs
<1>3. /\ task' \in [Tasks -> TaskRecords] /\ task'[p] = r
      /\ \A q \in Tasks : q # p => task'[q] = task[q]
  BY <1>1, <1>2, TaskMoves DEF ConnTypes
<1>4. /\ conn' \in [Conns -> ConnRecords]
      /\ \A j \in Conns : /\ conn'[j].row = "unused" <=> conn[j].row = "unused"
                          /\ conn'[j].cred = conn[j].cred
  BY <1>1, ZenonT(60) DEF ConnTypes, RowsTyped, ConnRecords
<1>5. ConnTypes'
  BY <1>1, <1>3, <1>4 DEF ConnTypes, RowsTyped
<1>6. Others(p)
  BY <1>3 DEF Others
<1>7. GoodTask(r) /\ NumberedTask(r) /\ r.pc \notin LockPcs
  BY <1>0, <1>1, <1>2 DEF GoodTask, NumberedTask, LockPcs
<1>8. ConnsExist'
  <2>1. ConnsExist
    BY DEF RefreshParts
  <2> QED
    BY <1>1, <1>2, <1>3, <1>4, <1>6, <2>1, KeepsExist
<1>9. /\ GoodTask(task'[p]) /\ NumberedTask(task'[p]) /\ task'[p].pc \notin LockPcs
      /\ Known(p, task'[p].cred) /\ Known(p, task'[p].new)
  BY <1>0, <1>2, <1>3, <1>7
<1>10. RefreshParts'
  BY <1>0, <1>1, <1>4, <1>6, <1>8, <1>9, WritingStep
<1> QED
  BY <1>5, <1>10

\* A share starts, and makes its connection.
LEMMA ShareBegins ==
    ASSUME ConnTypes, RefreshParts, NEW p \in Tasks, NEW t \in Tokens, NEW k \in Conns,
           BeginPromote(p, t, k)
    PROVE  ConnTypes' /\ RefreshParts'
<1>1. PICK r : Begun(p, "promote", t, k, "copy", r)
  <2>1. Start(p, "promote", t, k, "copy") /\ "promote" \in TaskOps /\ "copy" \in TaskPcs
    BY DEF BeginPromote, TaskOps, TaskPcs
  <2> QED
    BY <2>1, Beginnings
<1>2. /\ UNCHANGED <<rotates, token, conn, lock, issued, spent, selfRefused>> /\ apart' \in BOOLEAN
      /\ conn[k].row = "unused" /\ \A q \in Tasks : task[q].conn # k
  BY DEF BeginPromote, Start, atProvider, ConnTypes
<1>3. /\ task' \in [Tasks -> TaskRecords] /\ task'[p] = r /\ r.pc = "copy" /\ r.op = "promote"
      /\ r.token = t /\ r.conn = k /\ r.cred = token[t].cred /\ r.new = NoCredential
      /\ \A q \in Tasks : q # p => task'[q] = task[q]
  BY <1>1, TaskMoves, ConnConstants DEF ConnTypes, Begun
<1>4. Others(p)
  BY <1>3 DEF Others
<1>5. ConnTypes'
  BY <1>2, <1>3 DEF ConnTypes, RowsTyped
<1>6. ConnsExist'
  BY <1>2, <1>3 DEF RefreshParts, ConnsExist
<1>7. /\ \A u \in Tokens : Real(token[u].cred) /\ Known(p, token[u].cred)
      /\ \A j \in Conns : /\ Numbered(conn[j].cred) /\ Known(p, conn[j].cred)
                          /\ conn[j].row # "unused" => Real(conn[j].cred)
      /\ Known(p, NoCredential)
  BY KnownRows
<1>8. GoodTask(r) /\ NumberedTask(r) /\ r.pc \notin LockPcs
  BY <1>3, <1>7, ConnConstants DEF GoodTask, NumberedTask, Numbered, LockPcs
<1>9. /\ GoodTask(task'[p]) /\ NumberedTask(task'[p]) /\ task'[p].pc \notin LockPcs
      /\ Known(p, task'[p].cred) /\ Known(p, task'[p].new)
  BY <1>3, <1>7, <1>8
<1>10. task[p].pc # "storeConn"
  BY DEF BeginPromote, Start, Doing
<1>11. RefreshParts'
  BY <1>2, <1>4, <1>6, <1>7, <1>9, <1>10, WritingStep
<1> QED
  BY <1>5, <1>11

LEMMA ShareMade ==
    ASSUME ConnTypes, RefreshParts, NEW p \in Tasks, CopyToken(p)
    PROVE  ConnTypes' /\ RefreshParts'
<1> USE DEF connHistory, atProvider, Doing
<1>0. /\ \A t \in Tokens : Real(token[t].cred) /\ Known(p, token[t].cred)
      /\ \A j \in Conns : /\ Numbered(conn[j].cred) /\ Known(p, conn[j].cred)
                          /\ conn[j].row # "unused" => Real(conn[j].cred)
      /\ Known(p, task[p].cred) /\ Known(p, task[p].new) /\ Known(p, NoCredential)
      /\ GoodTask(task[p]) /\ NumberedTask(task[p]) /\ task[p] \in TaskRecords
  BY KnownRows
<1>1. /\ UNCHANGED <<rotates, token, lock, issued, spent, selfRefused, apart>> /\ task[p].pc = "copy"
      /\ task[p].op = "promote"
  BY <1>0 DEF CopyToken, GoodTask
<1>2. CASE Finish(p) /\ UNCHANGED conn
  <2>1. /\ SameRows /\ RowsTyped' /\ lock' \in [OAuthServers \X Conns -> Tasks \cup {NoTask}]
        /\ apart' \in BOOLEAN /\ \A q \in Tasks, x \in OAuthServers \X Conns : lock[x] = q => lock'[x] = q
    BY <1>1, <1>2, RowsAlone
  <2>2. QuietMove(p, NoWork)
    BY <1>1, <1>2, <2>1, Ends
  <2> QED
    BY <2>2, QuietStep
<1>3. CASE /\ conn' = [conn EXCEPT ![task[p].conn] =
                        [row |-> "on", token |-> task[p].token, cred |-> task[p].cred, fresh |-> TRUE]]
           /\ Onto(p, "markShared")
  <2> DEFINE k == task[p].conn
             r == [task[p] EXCEPT !.pc = "markShared"]
             v == [row |-> "on", token |-> task[p].token, cred |-> task[p].cred, fresh |-> TRUE]
  <2>1. /\ k \in Conns /\ conn[k].row = "unused" /\ \A q \in Tasks : task[q].conn = k => q = p
        /\ \A x \in spent : x[3] # k
    BY <1>0, <1>1, ConnConstants DEF GoodTask, TaskRecords, RefreshParts, ConnsExist
  <2>2. /\ r \in TaskRecords /\ r.pc = "markShared" /\ r.op = task[p].op /\ r.token = task[p].token
        /\ r.conn = k /\ r.cred = task[p].cred /\ r.new = task[p].new /\ task' = [task EXCEPT ![p] = r]
    BY <1>0, <1>3 DEF TaskRecords, TaskPcs, Onto
  <2>3. /\ task' \in [Tasks -> TaskRecords] /\ task'[p] = r
        /\ \A q \in Tasks : q # p => task'[q] = task[q]
    BY <2>2, TaskMoves DEF ConnTypes
  <2>4. v \in ConnRecords /\ v.row = "on" /\ v.cred = task[p].cred /\ Real(task[p].cred)
    BY <1>0, <1>1 DEF TaskRecords, ConnRecords, NumberedTask
  <2>5. /\ conn' \in [Conns -> ConnRecords] /\ conn'[k] = v
        /\ \A j \in Conns : j # k => conn'[j] = conn[j]
    BY <1>3, <2>1, <2>4 DEF ConnTypes, RowsTyped
  <2>6. ConnTypes'
    BY <1>1, <2>3, <2>5 DEF ConnTypes, RowsTyped
  <2>7. Others(p)
    BY <2>3 DEF Others
  <2>8. ConnsExist'
    <3>1. ASSUME NEW q \in Tasks, task'[q].conn \in Conns
          PROVE  /\ task'[q].pc = "copy" <=> conn'[task'[q].conn].row = "unused"
                 /\ task'[q].pc = "copy" => \A s \in Tasks : task'[s].conn = task'[q].conn => s = q
      <4>1. CASE q = p
        BY <2>2, <2>3, <2>4, <2>5, <4>1
      <4>2. CASE q # p
        <5>1. task'[q] = task[q] /\ task[q].conn # k /\ conn'[task[q].conn] = conn[task[q].conn]
          BY <2>1, <2>3, <2>5, <3>1, <4>2
        <5>2. \A s \in Tasks : task'[s].conn = task[s].conn
          BY <2>2, <2>3
        <5> QED
          BY <3>1, <5>1, <5>2 DEF RefreshParts, ConnsExist
      <4> QED
        BY <4>1, <4>2
    <3>2. \A x \in spent : x[3] \in Conns => conn'[x[3]].row # "unused"
      BY <2>1, <2>5 DEF RefreshParts, ConnsExist
    <3> QED
      BY <1>1, <3>1, <3>2 DEF ConnsExist
  <2>9. GoodTask(r) /\ NumberedTask(r) /\ r.pc \notin LockPcs
    BY <1>0, <1>1, <2>2 DEF GoodTask, NumberedTask, LockPcs
  <2>10. /\ GoodTask(task'[p]) /\ NumberedTask(task'[p]) /\ task'[p].pc \notin LockPcs
         /\ Known(p, task'[p].cred) /\ Known(p, task'[p].new)
    BY <1>0, <2>2, <2>3, <2>9
  <2>11. \A j \in Conns : /\ Numbered(conn'[j].cred) /\ Known(p, conn'[j].cred)
                          /\ conn'[j].row # "unused" => Real(conn'[j].cred)
    BY <1>0, <2>4, <2>5 DEF Numbered
  <2>12. \A x \in spent' : x[3] \in Conns =>
              \/ /\ conn'[x[3]].cred = conn[x[3]].cred
                 /\ task[p].pc = "storeConn" => Spending(p) # x
              \/ conn'[x[3]].cred # x[1]
    BY <1>1, <2>1, <2>5
  <2>13. RefreshParts'
    BY <1>0, <1>1, <2>7, <2>8, <2>10, <2>11, <2>12, WritingStep
  <2> QED
    BY <2>6, <2>13
<1> QED
  BY <1>2, <1>3 DEF CopyToken

\* What the refresh of a connection got is stored with it, or lost.
LEMMA ConnectionStored ==
    ASSUME ConnTypes, RefreshParts, NEW p \in Tasks, StoreConnection(p)
    PROVE  ConnTypes' /\ RefreshParts'
<1> USE DEF connHistory, Doing
<1>0. /\ \A t \in Tokens : Real(token[t].cred) /\ Known(p, token[t].cred)
      /\ \A j \in Conns : /\ Numbered(conn[j].cred) /\ Known(p, conn[j].cred)
                          /\ conn[j].row # "unused" => Real(conn[j].cred)
      /\ Known(p, task[p].cred) /\ Known(p, task[p].new) /\ Known(p, NoCredential)
      /\ GoodTask(task[p]) /\ NumberedTask(task[p]) /\ task[p] \in TaskRecords
  BY KnownRows
<1> DEFINE k == task[p].conn
           n == task[p].new
<1>1. /\ task[p].pc = "storeConn" /\ UNCHANGED <<rotates, token, issued, selfRefused, apart>>
      /\ k \in Conns /\ conn[k].row # "unused" /\ Real(n) /\ n \in Credentials /\ task[p].op = "shared"
  BY <1>0, ConnConstants DEF StoreConnection, GoodTask, NumberedTask, TaskRecords, RefreshParts, ConnsExist
<1>2. /\ lock' \in [OAuthServers \X Conns -> Tasks \cup {NoTask}]
      /\ \A q \in Tasks, x \in OAuthServers \X Conns : q # p /\ lock[x] = q => lock'[x] = q
  BY Unlocked DEF StoreConnection
<1>3. PICK r \in TaskRecords :
        /\ task' = [task EXCEPT ![p] = r] /\ GoodTask(r) /\ NumberedTask(r)
        /\ r.pc \in {"idle", "api"} /\ r.conn \in {NoConn, k} /\ Known(p, r.cred) /\ Known(p, r.new)
  <2>1. CASE Finish(p)
    BY <1>0, <2>1, ConnConstants DEF Finish
  <2>2. CASE task' = [task EXCEPT ![p].pc = "api", ![p].cred = n]
    <3> DEFINE r == [task[p] EXCEPT !.pc = "api", !.cred = n]
    <3>1. r \in TaskRecords /\ task' = [task EXCEPT ![p] = r]
      BY <1>0, <1>1, <2>2 DEF TaskRecords, TaskPcs
    <3>2. /\ r.pc = "api" /\ r.op = task[p].op /\ r.token = task[p].token
          /\ r.conn = k /\ r.cred = n /\ r.new = n
      BY <1>0 DEF TaskRecords
    <3>3. GoodTask(r) /\ NumberedTask(r)
      BY <1>0, <1>1, <3>2 DEF GoodTask, NumberedTask, Numbered
    <3> QED
      BY <1>0, <3>1, <3>2, <3>3
  <2> QED
    BY <2>1, <2>2 DEF StoreConnection
<1>4. /\ task' \in [Tasks -> TaskRecords] /\ task'[p] = r
      /\ \A q \in Tasks : q # p => task'[q] = task[q]
  BY <1>3, TaskMoves DEF ConnTypes
<1>5. Others(p)
  BY <1>4 DEF Others
<1>6. \/ conn' = conn /\ Retag({Spending(p)} \cap spent)
      \/ /\ conn' = [conn EXCEPT ![k].cred = n, ![k].fresh = TRUE]
         /\ UNCHANGED spent
  BY DEF StoreConnection
<1>7. /\ conn' \in [Conns -> ConnRecords]
      /\ \A j \in Conns : conn'[j].row = conn[j].row /\ conn'[j].cred \in {conn[j].cred, n}
  <2>1. CASE conn' = conn
    BY <2>1 DEF ConnTypes, RowsTyped
  <2>2. CASE conn' = [conn EXCEPT ![k].cred = n, ![k].fresh = TRUE]
    BY <1>1, <2>2, ZenonT(60) DEF ConnTypes, RowsTyped, ConnRecords
  <2> QED
    BY <1>6, <2>1, <2>2
<1>8. \A x \in spent' : x \in spent \/ (x[3] = NoConn /\ \E y \in spent : y[1] = x[1])
  BY <1>6 DEF Retag
<1>9. \A x \in spent' : x[3] \in Conns =>
              \/ /\ conn'[x[3]].cred = conn[x[3]].cred
                 /\ task[p].pc = "storeConn" => Spending(p) # x
              \/ conn'[x[3]].cred # x[1]
  <2>1. CASE conn' = conn /\ Retag({Spending(p)} \cap spent)
    BY <2>1, ConnConstants DEF Retag
  <2>2. CASE conn' = [conn EXCEPT ![k].cred = n, ![k].fresh = TRUE] /\ UNCHANGED spent
    <3>1. conn'[k].cred = n /\ \A j \in Conns : j # k => conn'[j].cred = conn[j].cred
      BY <1>1, <2>2 DEF ConnTypes, RowsTyped, ConnRecords
    <3>2. \A x \in spent : x[1] # n
      <4>1. CASE rotates
        BY <1>1, <4>1 DEF RefreshParts, Unstored, Public
      <4>2. CASE ~rotates
        BY <4>2 DEF RefreshParts, SpentOnce
      <4> QED
        BY <4>1, <4>2
    <3>3. Spending(p)[3] = k
      BY DEF Spending
    <3> QED
      BY <2>2, <3>1, <3>2, <3>3
  <2> QED
    BY <1>6, <2>1, <2>2
<1>10. ConnTypes'
  BY <1>1, <1>2, <1>4, <1>7 DEF ConnTypes, RowsTyped
<1>11. ConnsExist'
  <2>1. ConnsExist
    BY DEF RefreshParts
  <2>2. \A x \in spent' : x[3] \in Conns => x \in spent \/ conn[x[3]].row # "unused"
    BY <1>8, ConnConstants
  <2>3. task'[p].conn \in Conns => task'[p].pc # "copy" /\ conn[task'[p].conn].row # "unused"
    BY <1>1, <1>3, <1>4, ConnConstants
  <2> QED
    BY <1>5, <1>7, <2>1, <2>2, <2>3, KeepsExist
<1>12. /\ GoodTask(task'[p]) /\ NumberedTask(task'[p]) /\ task'[p].pc \notin LockPcs
       /\ Known(p, task'[p].cred) /\ Known(p, task'[p].new)
  BY <1>3, <1>4 DEF LockPcs
<1>13. \A j \in Conns : /\ Numbered(conn'[j].cred) /\ Known(p, conn'[j].cred)
                        /\ conn'[j].row # "unused" => Real(conn'[j].cred)
  BY <1>0, <1>1, <1>7 DEF Numbered
<1>14. RefreshParts'
  BY <1>0, <1>1, <1>2, <1>5, <1>8, <1>9, <1>11, <1>12, <1>13, WritingStep
<1> QED
  BY <1>10, <1>14

\* Tasks are cut off: what they had spent and not stored is lost.
LEMMA TasksLost ==
    ASSUME ConnTypes, RefreshParts, NEW P \in SUBSET Tasks, TasksCutOff(P)
    PROVE  ConnTypes' /\ RefreshParts'
<1> USE DEF Doing
<1>0. TasksGood /\ CredsNumbered /\ ConnsExist /\ Locked /\ SpentOnce /\ Unstored /\ ~selfRefused
  BY DEF RefreshParts
<1> DEFINE X == {x \in spent : \E p \in P : task[p].pc = "storeConn" /\ x = Spending(p)}
<1>1. /\ UNCHANGED <<rotates, token, conn, issued, selfRefused>> /\ apart' = TRUE /\ Retag(X)
      /\ task' = [p \in Tasks |-> IF p \in P THEN NoWork ELSE task[p]]
      /\ lock' = [x \in DOMAIN lock |-> IF lock[x] \in P THEN NoTask ELSE lock[x]]
  BY DEF TasksCutOff
<1>2. /\ \A q \in P : task'[q] = NoWork /\ q \in Tasks
      /\ \A q \in Tasks : q \notin P => task'[q] = task[q]
      /\ task' \in [Tasks -> TaskRecords]
  BY <1>1, ConnConstants DEF ConnTypes
<1>3. /\ lock' \in [OAuthServers \X Conns -> Tasks \cup {NoTask}]
      /\ \A q \in Tasks, x \in OAuthServers \X Conns : q \notin P /\ lock[x] = q => lock'[x] = q
  BY <1>1 DEF ConnTypes
<1>4. ConnTypes'
  BY <1>1, <1>2, <1>3 DEF ConnTypes, RowsTyped
<1>5. \A c : (Real(c)' <=> Real(c)) /\ (Numbered(c)' <=> Numbered(c))
  BY <1>1, SameIssued
<1>6. \A x \in spent' : \/ x \in spent /\ x \notin X
                        \/ x[3] = NoConn /\ \E y \in spent : y[1] = x[1]
  BY <1>1 DEF Retag
<1>7. \A q \in Tasks : task'[q].pc # "idle" => q \notin P /\ task'[q] = task[q]
  BY <1>2, ConnConstants
<1>8. TasksGood'
  BY <1>0, <1>2, ConnConstants DEF TasksGood
<1>9. CredsNumbered'
  <2>1. ASSUME NEW q \in Tasks PROVE NumberedTask(task[q])'
    <3>1. NumberedTask(task'[q])
      BY <1>0, <1>2, ConnConstants DEF CredsNumbered
    <3> QED
      BY <1>5, <3>1 DEF NumberedTask
  <2>2. \A x \in spent' : Real(x[1])'
    BY <1>0, <1>5, <1>6 DEF CredsNumbered
  <2> QED
    BY <1>0, <1>1, <1>5, <2>1, <2>2 DEF CredsNumbered
<1>10. ConnsExist'
  <2>1. \A q \in Tasks : task'[q].conn \in Conns => task'[q] = task[q]
    BY <1>2, ConnConstants
  <2>2. \A q, s \in Tasks : task'[s].conn = task'[q].conn /\ task'[q].conn \in Conns => task[s].conn = task[q].conn
    BY <2>1
  <2>3. \A x \in spent' : x[3] \in Conns => conn'[x[3]].row # "unused"
    BY <1>0, <1>1, <1>6, ConnConstants DEF ConnsExist
  <2> QED
    BY <1>0, <1>1, <2>1, <2>2, <2>3 DEF ConnsExist
<1>11. Locked'
  <2> SUFFICES ASSUME NEW q \in Tasks, task'[q].pc \in LockPcs
               PROVE  lock'[<<ServerOf[q], task'[q].conn>>] = q
    BY DEF Locked
  <2>1. q \notin P /\ task'[q] = task[q]
    BY <1>7 DEF LockPcs
  <2> QED
    BY <1>0, <1>3, <2>1, LockOf DEF Locked
<1>12. SpentOnce'
  <2>1. \A q \in Tasks : task'[q].pc # "idle" => Spending(q)' = Spending(q)
    BY <1>7 DEF Spending
  <2>2. ASSUME NEW q \in Tasks, task'[q].pc = "refreshConn" PROVE Spending(q)' \notin spent'
    <3>1. task[q].pc = "refreshConn" /\ task[q].conn \in Conns /\ Spending(q)' = Spending(q)
          /\ Spending(q) \notin spent
      BY <1>0, <1>7, <2>1, <2>2, LockOf DEF LockPcs, SpentOnce
    <3>2. Spending(q)[3] # NoConn
      BY <3>1, ConnConstants DEF Spending
    <3> QED
      BY <1>6, <3>1, <3>2
  <2>3. ASSUME NEW x \in spent', x[3] \in Conns
        PROVE  conn'[x[3]].cred # x[1] \/ \E q \in Tasks : task'[q].pc = "storeConn" /\ Spending(q)' = x
    <3>1. x \in spent /\ x \notin X
      BY <1>6, <2>3, ConnConstants
    <3>2. CASE conn[x[3]].cred # x[1]
      BY <1>1, <3>2
    <3>3. ASSUME NEW q \in Tasks, task[q].pc = "storeConn", Spending(q) = x
          PROVE  task'[q].pc = "storeConn" /\ Spending(q)' = x
      <4>1. q \notin P
        BY <3>1, <3>3
      <4> QED
        BY <1>2, <2>1, <3>3, <4>1
    <3> QED
      BY <1>0, <2>3, <3>1, <3>2, <3>3 DEF SpentOnce
  <2>4. ~rotates' => spent' = {}
    BY <1>0, <1>1, <1>6 DEF SpentOnce
  <2> QED
    BY <2>2, <2>3, <2>4 DEF SpentOnce
<1>13. Unstored'
  <2>1. \A c : Public(c)' => Public(c)
    BY <1>1, <1>2, <1>6, ConnConstants DEF Public, NoCredential
  <2>2. \A q \in Tasks : task'[q].pc = "storeConn" => task[q].pc = "storeConn" /\ task'[q].new = task[q].new
    BY <1>7
  <2> QED
    BY <1>0, <1>1, <2>1, <2>2 DEF Unstored
<1> QED
  BY <1>0, <1>1, <1>4, <1>8, <1>9, <1>10, <1>11, <1>12, <1>13 DEF RefreshParts

\* The steps of no task change neither a credential nor the key of a row.
LEMMA NoTaskMoves ==
    ASSUME ConnTypes, RefreshParts, RowsTyped', SameRows,
           UNCHANGED <<rotates, lock, task, issued, spent, selfRefused, apart>>
    PROVE  ConnTypes' /\ RefreshParts'
<1>1. \A c : (Real(c)' <=> Real(c)) /\ (Numbered(c)' <=> Numbered(c))
  BY SameIssued
<1>2. TasksGood' /\ Locked'
  BY DEF RefreshParts, TasksGood, Locked
<1>3. CredsNumbered'
  BY <1>1 DEF RefreshParts, CredsNumbered, SameRows, NumberedTask
<1>4. ConnsExist'
  BY DEF RefreshParts, ConnsExist, SameRows
<1>5. SpentOnce'
  BY DEF RefreshParts, SpentOnce, SameRows, Spending
<1>6. Unstored'
  <2>1. \A c : Public(c)' => Public(c)
    BY DEF Public, SameRows, NoCredential
  <2> QED
    BY <2>1 DEF RefreshParts, Unstored
<1> QED
  BY <1>2, <1>3, <1>4, <1>5, <1>6 DEF ConnTypes, RefreshParts

LEMMA RefreshInit == ConnectionsInit => RefreshParts
<1> SUFFICES ASSUME ConnectionsInit PROVE RefreshParts
  OBVIOUS
<1>1. \A t \in Tokens : Real(<<t, 0>>) /\ token[t].cred = <<t, 0>>
  BY DEF ConnectionsInit, Real
<1>2. \A p \in Tasks : task[p] = NoWork
  BY DEF ConnectionsInit
<1>3. spent = {} /\ ~selfRefused /\ \A k \in Conns : conn[k].row = "unused" /\ conn[k].cred = NoCredential
  BY DEF ConnectionsInit
<1>4. TasksGood
  BY <1>2, ConnConstants DEF TasksGood
<1>5. CredsNumbered
  BY <1>1, <1>2, <1>3, ConnConstants DEF CredsNumbered, Numbered
<1>6. ConnsExist
  BY <1>2, <1>3, ConnConstants DEF ConnsExist
<1>7. Locked /\ SpentOnce /\ Unstored
  BY <1>2, <1>3, ConnConstants DEF Locked, SpentOnce, Unstored, LockPcs
<1> QED
  BY <1>3, <1>4, <1>5, <1>6, <1>7 DEF RefreshParts

LEMMA RefreshNext ==
    ASSUME ConnTypes, RefreshParts, [ConnectionsNext]_connVars
    PROVE  ConnTypes' /\ RefreshParts'
<1>1. ASSUME NEW p \in Tasks, Begin(p) PROVE ConnTypes' /\ RefreshParts'
  <2>1. CASE \/ \E t \in Tokens : BeginUse(p, t) \/ BeginDisconnect(p, t) \/ BeginRevoke(p, t)
             \/ \E k \in Conns : BeginRemove(p, k) \/ BeginShared(p, k)
    BY <2>1, QuietBeginnings, QuietStep
  <2>2. CASE \E t \in Tokens : BeginConnect(p, t)
    BY <2>2, IssuingSteps
  <2>3. CASE \E t \in Tokens, k \in Conns : BeginPromote(p, t, k)
    BY <2>3, ShareBegins
  <2> QED
    BY <1>1, <2>1, <2>2, <2>3 DEF Begin
<1>2. ASSUME NEW p \in Tasks, TaskStep(p) PROVE ConnTypes' /\ RefreshParts'
  <2>1. CASE RefreshToken(p) \/ RefreshConnection(p)
    <3>1. CASE rotates => ~Accepted(task[p].cred)
      BY <2>1, <3>1, QuietRefreshes, QuietStep
    <3>2. CASE rotates /\ Accepted(task[p].cred)
      BY <2>1, <3>2, IssuingSteps
    <3> QED
      BY <3>1, <3>2
  <2>2. CASE \/ RevokeOld(p) \/ CallApi(p) \/ FindConnections(p) \/ Spread(p) \/ MarkStale(p)
             \/ MarkShared(p) \/ CheckShared(p) \/ MarkUnshared(p) \/ LockConnection(p) \/ LoadConnection(p)
             \/ \E k \in Conns : SpreadFails(p, k)
    <3>1. \E r : QuietMove(p, r)
      BY <2>2, QuietSteps
    <3> QED
      BY <3>1, QuietStep
  <2>3. CASE StoreToken(p) \/ InsertToken(p)
    <3>1. CASE StoreToken(p) /\ ~HoldsRow(p)
      BY <3>1, QuietRefreshes, QuietStep
    <3>2. CASE (StoreToken(p) /\ HoldsRow(p)) \/ InsertToken(p)
      BY <3>2, TokenWrites
    <3> QED
      BY <2>3, <3>1, <3>2
  <2>4. CASE \E k \in Conns : SpreadTo(p, k)
    BY <2>4, CopyWritten
  <2>5. CASE DeleteToken(p) \/ PurgeNewest(p)
    BY <2>5, TokenDeletes
  <2>6. CASE CopyToken(p)
    BY <2>6, ShareMade
  <2>7. CASE DropConnection(p)
    BY <2>7, ConnectionDropped
  <2>8. CASE StoreConnection(p)
    BY <2>8, ConnectionStored
  <2> QED
    BY <1>2, <2>1, <2>2, <2>3, <2>4, <2>5, <2>6, <2>7, <2>8 DEF TaskStep
<1>3. ASSUME NEW p \in Tasks, TaskFails(p) PROVE ConnTypes' /\ RefreshParts'
  BY <1>3, TasksLost DEF TaskFails
<1>4. ASSUME NEW s \in OAuthServers, StopServer(s) PROVE ConnTypes' /\ RefreshParts'
  BY <1>4, TasksLost DEF StopServer
<1>5. ASSUME NEW t \in Tokens, WithdrawGrant(t) \/ ExpireToken(t) PROVE ConnTypes' /\ RefreshParts'
  <2>1. UNCHANGED <<rotates, conn, lock, task, issued, spent, selfRefused, apart>>
    BY <1>5 DEF WithdrawGrant, ExpireToken, atProvider, connHistory
  <2>2. RowsTyped' /\ SameRows
    <3>1. CASE WithdrawGrant(t)
      BY <3>1, RowsAlone DEF WithdrawGrant
    <3>2. CASE ExpireToken(t)
      BY <2>1, <3>2 DEF ExpireToken, ConnTypes, RowsTyped, TokenRecords, SameRows
    <3> QED
      BY <1>5, <3>1, <3>2
  <2> QED
    BY <2>1, <2>2, NoTaskMoves
<1>6. ASSUME NEW k \in Conns, ExpireConnection(k) PROVE ConnTypes' /\ RefreshParts'
  <2>1. UNCHANGED <<rotates, token, lock, task, issued, spent, selfRefused, apart>>
    BY <1>6 DEF ExpireConnection, atProvider, connHistory
  <2>2. RowsTyped' /\ SameRows
    BY <1>6, <2>1 DEF ExpireConnection, ConnTypes, RowsTyped, ConnRecords, SameRows
  <2> QED
    BY <2>1, <2>2, NoTaskMoves
<1>7. CASE UNCHANGED connVars
  <2>1. UNCHANGED <<rotates, token, conn, lock, task, issued, spent, selfRefused, apart>>
    BY <1>7 DEF connVars
  <2> QED
    BY <2>1, RowsAlone, NoTaskMoves
<1> QED
  BY <1>1, <1>2, <1>3, <1>4, <1>5, <1>6, <1>7 DEF ConnectionsNext

----------------------------------------------------------------------------
(* While nothing has set the copies apart, a copy that differs from its token  *)
(* is about to be reached by a propagation.                                    *)

\* The keys between the rows: a connection that does not exist copies no token, a
\* copied token's row is there, and one call at a time makes the row of an account.
RowKeys ==
    /\ \A k \in Conns : conn[k].row = "unused" => conn[k].token = NoToken
    /\ \A k \in Conns : conn[k].token # NoToken => token[conn[k].token].row
    /\ \A p \in Tasks : task[p].pc = "insert" =>
         /\ ~token[task[p].token].row
         /\ \A q \in Tasks : task[q].pc = "insert" /\ task[q].token = task[p].token => q = p

\* The calls that set copies apart when they overlap.
Clash(a, b) ==
    \/ a = "connect" /\ b \in {"connect", "use", "shared", "promote"}
    \/ rotates /\ a = "use" /\ b \in {"use", "promote"}
NoOverlap == \A p, q \in Tasks : p # q => ~Clash(task[p].op, task[q].op)

\* The task that holds r is about to write its token to connection k.
Reaches(r, t, k) ==
    /\ r.token = t /\ (r.op = "connect" \/ rotates)
    /\ r.pc = "find" \/ (r.pc = "spread" /\ k \in r.todo)
Copied ==
    \A k \in Conns : conn[k].row = "on" /\ conn[k].token # NoToken =>
        \/ conn[k].cred = token[conn[k].token].cred
        \/ \E p \in Tasks : Reaches(task[p], conn[k].token, k)

\* What a task read or got is still what the row it is about holds.
HeldBy(r) ==
    /\ r.op \in {"use", "connect"} /\ r.orphaned => ~token[r.token].row
    /\ r.pc \in {"find", "spread"} => r.new = token[r.token].cred
    /\ r.pc = "copy" => r.cred = token[r.token].cred
    /\ ~rotates /\ r.pc = "refresh" => r.cred = token[r.token].cred
    /\ ~rotates /\ r.pc = "store" /\ r.op = "use" => r.new = token[r.token].cred
    /\ r.pc # "spread" => r.todo = {}
    /\ \A k \in r.todo : conn[k].token \in {r.token, NoToken} /\ conn[k].row # "unused"
    /\ r.conn \in Conns /\ conn[r.conn].row = "on" /\ conn[r.conn].token # NoToken =>
         /\ r.pc = "refreshConn" /\ ~rotates => r.cred = conn[r.conn].cred
         /\ r.pc = "storeConn" => ~rotates /\ r.new = conn[r.conn].cred
Held == \A p \in Tasks : HeldBy(task[p])

CopyParts == RowKeys /\ (~apart => NoOverlap /\ Copied /\ Held)

\* A call that overlaps none of those clashes with none.
LEMMA NoClash ==
    ASSUME NEW op, ~Overlaps(op), NEW q \in Tasks
    PROVE  ~Clash(op, task[q].op) /\ ~Clash(task[q].op, op)
<1>1. ~ /\ "connect" \in {op, task[q].op} /\ task[q].op \in {"connect", "use", "shared", "promote"}
        /\ op \in {"connect", "use", "shared", "promote"}
  BY DEF Overlaps
<1>2. ~(rotates /\ {op, task[q].op} = {"promote", "use"}) /\ ~(rotates /\ {op, task[q].op} = {"use"})
  BY DEF Overlaps
<1>3. ~(rotates /\ op = "use" /\ task[q].op = "promote") /\ ~(rotates /\ op = "promote" /\ task[q].op = "use")
      /\ ~(rotates /\ op = "use" /\ task[q].op = "use")
  BY <1>2
<1> QED
  BY <1>1, <1>3 DEF Clash

\* A task moves to r and no key or credential of a row changes.
CopyMove(p, r) ==
    /\ r \in TaskRecords /\ task' = [task EXCEPT ![p] = r]
    /\ SameRows /\ UNCHANGED rotates /\ (apart => apart')
    /\ r.pc = "insert" => /\ ~token[r.token].row
                          /\ \A q \in Tasks : q # p => ~(task[q].pc = "insert" /\ task[q].token = r.token)
    /\ ~apart' =>
         /\ \A q \in Tasks : q # p => ~Clash(r.op, task[q].op) /\ ~Clash(task[q].op, r.op)
         /\ HeldBy(r)
         /\ \A k \in Conns : conn[k].row = "on" /\ Reaches(task[p], conn[k].token, k) /\ conn[k].token # NoToken
                               => Reaches(r, conn[k].token, k)

\* The rows' part of what a task holds does not change with the rows' other columns.
LEMMA HeldSame ==
    ASSUME ConnTypes, SameRows, UNCHANGED rotates, NEW r \in TaskRecords, GoodTask(r), HeldBy(r)
    PROVE  \A s : s = r => HeldBy(s)'
<1>1. r.pc \in {"refresh", "store", "find", "spread", "copy"} \/ r.op \in {"use", "connect"} => r.token \in Tokens
  BY DEF GoodTask
<1>2. r.todo \subseteq Conns
  BY DEF TaskRecords
<1> QED
  BY <1>1, <1>2 DEF HeldBy, SameRows

LEMMA CopyMoveStep ==
    ASSUME ConnTypes, TasksGood, TasksGood', CopyParts, NEW p \in Tasks, NEW r, CopyMove(p, r)
    PROVE  CopyParts'
<1>1. /\ r \in TaskRecords /\ task' \in [Tasks -> TaskRecords] /\ task'[p] = r
      /\ \A q \in Tasks : q # p => task'[q] = task[q]
  BY TaskMoves DEF CopyMove, ConnTypes
<1>2. SameRows /\ UNCHANGED rotates /\ \A k \in Conns : conn[k].token \in Tokens \cup {NoToken}
  BY DEF CopyMove, ConnTypes, RowsTyped, ConnRecords
<1>3. \A q \in Tasks : GoodTask(task[q]) /\ GoodTask(task'[q])
  BY DEF TasksGood
<1>4. RowKeys'
  <2>1. \A k \in Conns : /\ conn'[k].row = "unused" => conn'[k].token = NoToken
                         /\ conn'[k].token # NoToken => token'[conn'[k].token].row
    BY <1>2 DEF CopyParts, RowKeys, SameRows
  <2>2. ASSUME NEW q \in Tasks, task'[q].pc = "insert"
        PROVE  /\ ~token'[task'[q].token].row
               /\ \A s \in Tasks : task'[s].pc = "insert" /\ task'[s].token = task'[q].token => s = q
    <3>1. task'[q].token \in Tokens
      BY <1>3, <2>2 DEF GoodTask
    <3>2. CASE q = p
      BY <1>1, <1>2, <2>2, <3>1, <3>2 DEF CopyMove, SameRows
    <3>3. CASE q # p
      BY <1>1, <1>2, <2>2, <3>1, <3>3 DEF CopyMove, SameRows, CopyParts, RowKeys
    <3> QED
      BY <3>2, <3>3
  <2> QED
    BY <2>1, <2>2 DEF RowKeys
<1>5. ASSUME ~apart' PROVE NoOverlap' /\ Copied' /\ Held'
  <2>1. ~apart /\ NoOverlap /\ Copied /\ Held
    BY <1>5 DEF CopyMove, CopyParts
  <2>2. NoOverlap'
    <3>1. \A a, b : Clash(a, b)' <=> Clash(a, b)
      BY <1>2 DEF Clash
    <3>2. \A q, s \in Tasks : q # s => ~Clash(task'[q].op, task'[s].op)
      BY <1>1, <1>5, <2>1 DEF CopyMove, NoOverlap
    <3> QED
      BY <1>2, <3>2 DEF NoOverlap, Clash
  <2>3. Copied'
    <3> SUFFICES ASSUME NEW k \in Conns, conn'[k].row = "on", conn'[k].token # NoToken
                 PROVE  \/ conn'[k].cred = token'[conn'[k].token].cred
                        \/ \E q \in Tasks : Reaches(task[q], conn[k].token, k)'
      BY DEF Copied
    <3>1. /\ conn[k].row = "on" /\ conn[k].token # NoToken /\ conn[k].token \in Tokens
          /\ conn'[k].token = conn[k].token /\ conn'[k].cred = conn[k].cred
          /\ token'[conn[k].token].cred = token[conn[k].token].cred
      BY <1>2 DEF SameRows
    <3>2. ASSUME NEW q \in Tasks, Reaches(task[q], conn[k].token, k) PROVE Reaches(task[q], conn[k].token, k)'
      <4>1. Reaches(task'[q], conn[k].token, k)
        BY <1>1, <1>5, <3>1, <3>2 DEF CopyMove
      <4> QED
        BY <1>2, <3>1, <4>1 DEF Reaches
    <3> QED
      BY <2>1, <3>1, <3>2 DEF Copied
  <2>4. Held'
    <3> SUFFICES ASSUME NEW q \in Tasks PROVE HeldBy(task[q])'
      BY DEF Held
    <3>1. HeldBy(task'[q])
      BY <1>1, <1>5, <2>1 DEF CopyMove, Held
    <3> QED
      BY <1>1, <1>2, <1>3, <3>1, HeldSame
  <2> QED
    BY <2>2, <2>3, <2>4
<1> QED
  BY <1>4, <1>5 DEF CopyParts

\* A task that ends, or goes on with what it holds.
LEMMA CopyEnds ==
    ASSUME ConnTypes, CopyParts, NEW p \in Tasks, Finish(p), SameRows, UNCHANGED rotates,
           apart => apart', task[p].pc # "find", task[p].pc = "spread" => task[p].todo = {}
    PROVE  CopyMove(p, NoWork)
<1>1. HeldBy(NoWork)
  BY ConnConstants DEF HeldBy
<1>2. \A q \in Tasks : ~Clash("none", task[q].op) /\ ~Clash(task[q].op, "none")
  BY DEF Clash
<1>3. \A t, k : ~Reaches(task[p], t, k)
  BY DEF Reaches
<1> QED
  BY <1>1, <1>2, <1>3, ConnConstants DEF CopyMove, Finish

LEMMA CopyGoesOn ==
    ASSUME ConnTypes, CopyParts, NEW p \in Tasks, NEW pc \in TaskPcs, Onto(p, pc), SameRows,
           UNCHANGED rotates, apart => apart', task[p].pc \notin {"find", "spread"},
           pc \notin {"insert", "find", "spread", "copy", "refresh", "refreshConn", "storeConn"},
           pc = "store" => task[p].op # "use"
    PROVE  CopyMove(p, [task[p] EXCEPT !.pc = pc])
<1> DEFINE r == [task[p] EXCEPT !.pc = pc]
<1>1. /\ task[p] \in TaskRecords /\ r \in TaskRecords /\ r.pc = pc
      /\ r.op = task[p].op /\ r.token = task[p].token /\ r.conn = task[p].conn /\ r.cred = task[p].cred
      /\ r.new = task[p].new /\ r.todo = task[p].todo /\ r.orphaned = task[p].orphaned
      /\ task' = [task EXCEPT ![p] = r]
  <2>1. task[p] \in TaskRecords
    BY DEF ConnTypes
  <2>2. /\ r \in TaskRecords /\ r.pc = pc
        /\ r.op = task[p].op /\ r.token = task[p].token /\ r.conn = task[p].conn
        /\ r.cred = task[p].cred /\ r.new = task[p].new /\ r.todo = task[p].todo
        /\ r.orphaned = task[p].orphaned
    BY <2>1 DEF TaskRecords
  <2>3. task' = [task EXCEPT ![p] = r]
    BY DEF Onto
  <2> QED
    BY <2>1, <2>2, <2>3
<1> HIDE DEF r
<1>2. ASSUME ~apart'
      PROVE  /\ \A q \in Tasks : q # p => ~Clash(r.op, task[q].op) /\ ~Clash(task[q].op, r.op)
             /\ HeldBy(r)
  <2>1. NoOverlap /\ HeldBy(task[p])
    BY <1>2 DEF CopyParts, Held
  <2> QED
    BY <1>1, <2>1 DEF NoOverlap, HeldBy
<1>3. \A t, k : ~Reaches(task[p], t, k)
  BY DEF Reaches
<1>4. CopyMove(p, r)
  BY <1>1, <1>2, <1>3 DEF CopyMove
<1> QED
  BY <1>4 DEF r

\* The calls that begin.
LEMMA CopyBegins ==
    ASSUME ConnTypes, TasksGood, CopyParts, NEW p \in Tasks, Begin(p)
    PROVE  \E r : CopyMove(p, r)
<1>1. ASSUME NEW op, NEW t \in Tokens \cup {NoToken}, NEW k \in Conns \cup {NoConn}, NEW pc \in TaskPcs,
             op \in TaskOps, Start(p, op, t, k, pc),
             pc \in {"api", "refresh", "revokeOld", "delete", "drop", "lock", "copy"},
             pc \in {"copy", "refresh"} => t \in Tokens
      PROVE  \E r : CopyMove(p, r)
  <2>1. PICK r : Begun(p, op, t, k, pc, r)
    BY <1>1, Beginnings
  <2>2. UNCHANGED <<rotates, token, conn>> /\ apart' = (apart \/ Overlaps(op))
    BY <1>1 DEF Start
  <2>3. SameRows
    BY <2>2, RowsAlone
  <2>4. HeldBy(r)
    <3>1. r.pc = pc /\ r.todo = {} /\ ~r.orphaned /\ (t \in Tokens => r.cred = token[r.token].cred)
      BY <2>1, ConnConstants DEF Begun
    <3> QED
      BY <1>1, <3>1 DEF HeldBy
  <2>5. ASSUME ~apart' PROVE \A q \in Tasks : q # p => ~Clash(r.op, task[q].op) /\ ~Clash(task[q].op, r.op)
    <3>1. ~Overlaps(op) /\ r.op = op
      BY <2>1, <2>2, <2>5 DEF Begun
    <3> QED
      BY <3>1, NoClash
  <2>6. \A u, j : ~Reaches(task[p], u, j)
    BY <2>1 DEF Begun, Reaches
  <2> QED
    BY <1>1, <2>1, <2>2, <2>3, <2>4, <2>5, <2>6 DEF CopyMove, Begun
<1>2. {"use", "shared", "disconnect", "revoke", "remove", "promote"} \subseteq TaskOps
      /\ {"api", "refresh", "revokeOld", "delete", "drop", "lock", "copy"} \subseteq TaskPcs
  BY DEF TaskOps, TaskPcs
<1>3. \A k \in Conns : conn[k].token \in Tokens \cup {NoToken}
  BY DEF ConnTypes, RowsTyped, ConnRecords
<1>4. ASSUME NEW t \in Tokens, BeginUse(p, t) PROVE \E r : CopyMove(p, r)
  <2>1. PICK pc \in {"api", "refresh"} : Start(p, "use", t, NoConn, pc)
    BY <1>4 DEF BeginUse
  <2> QED
    BY <1>1, <1>2, <2>1
<1>5. ASSUME NEW t \in Tokens, BeginDisconnect(p, t) PROVE \E r : CopyMove(p, r)
  BY <1>1, <1>2, <1>5 DEF BeginDisconnect
<1>6. ASSUME NEW t \in Tokens, BeginRevoke(p, t) PROVE \E r : CopyMove(p, r)
  BY <1>1, <1>2, <1>6 DEF BeginRevoke
<1>7. ASSUME NEW k \in Conns, BeginRemove(p, k) PROVE \E r : CopyMove(p, r)
  BY <1>1, <1>2, <1>3, <1>7 DEF BeginRemove
<1>8. ASSUME NEW k \in Conns, BeginShared(p, k) PROVE \E r : CopyMove(p, r)
  BY <1>1, <1>2, <1>3, <1>8 DEF BeginShared
<1>9. ASSUME NEW t \in Tokens, NEW k \in Conns, BeginPromote(p, t, k) PROVE \E r : CopyMove(p, r)
  BY <1>1, <1>2, <1>9 DEF BeginPromote
<1>10. ASSUME NEW t \in Tokens, BeginConnect(p, t) PROVE \E r : CopyMove(p, r)
  <2> DEFINE n == <<t, issued[t] + 1>>
             r == [NoWork EXCEPT !.op = "connect", !.pc = IF token[t].row THEN "revokeOld" ELSE "insert",
                                 !.token = t, !.cred = token[t].cred, !.new = n]
  <2>1. /\ issued[t] < MaxCredential /\ issued' = [issued EXCEPT ![t] = @ + 1]
        /\ task' = [task EXCEPT ![p] = r] /\ task[p].pc = "idle" /\ apart' = (apart \/ Overlaps("connect"))
        /\ UNCHANGED <<rotates, token, conn>> /\ \A q \in Tasks : ~(task[q].pc = "insert" /\ task[q].token = t)
    BY <1>10 DEF BeginConnect, Doing
  <2>2. n \in Credentials
    BY <2>1, FreshCredential
  <2>3. /\ r \in TaskRecords /\ r.op = "connect" /\ r.pc \in {"revokeOld", "insert"} /\ r.token = t
        /\ r.todo = {} /\ ~r.orphaned /\ (r.pc = "insert" => ~token[t].row) /\ r.conn = NoConn
    BY <2>2 DEF NoWork, TaskRecords, TaskPcs, TaskOps, ConnTypes, RowsTyped, TokenRecords
  <2> HIDE DEF r, n
  <2>4. SameRows
    BY <2>1, RowsAlone
  <2>5. HeldBy(r)
    BY <2>3, ConnConstants DEF HeldBy
  <2>6. ASSUME ~apart' PROVE \A q \in Tasks : q # p => ~Clash(r.op, task[q].op) /\ ~Clash(task[q].op, r.op)
    BY <2>1, <2>3, <2>6, NoClash
  <2>7. \A u, j : ~Reaches(task[p], u, j)
    BY <2>1 DEF Reaches
  <2> QED
    BY <2>1, <2>3, <2>4, <2>5, <2>6, <2>7 DEF CopyMove
<1> QED
  BY <1>4, <1>5, <1>6, <1>7, <1>8, <1>9, <1>10 DEF Begin

\* The steps of a task that change no key or credential of a row.
LEMMA CopyRefreshes ==
    ASSUME ConnTypes, TasksGood, CopyParts, NEW p \in Tasks, RefreshToken(p) \/ RefreshConnection(p),
           CredsNumbered
    PROVE  \E r : CopyMove(p, r)
<1> USE DEF connHistory, Doing
<1>0. task[p] \in TaskRecords /\ GoodTask(task[p]) /\ NumberedTask(task[p])
  BY DEF ConnTypes, TasksGood, CredsNumbered
<1>1. /\ UNCHANGED <<rotates, token, conn>> /\ (apart => apart')
      /\ task[p].pc \in {"refresh", "refreshConn"}
  BY DEF RefreshToken, RefreshConnection, ConnTypes
<1>2. SameRows
  BY <1>1, RowsAlone
<1>3. ASSUME NEW pc \in {"delete", "drop"}, Onto(p, pc) PROVE \E r : CopyMove(p, r)
  <2>1. pc \in TaskPcs
    BY DEF TaskPcs
  <2> QED
    BY <1>1, <1>2, <1>3, <2>1, CopyGoesOn
<1>4. ASSUME NEW pc \in {"store", "storeConn"}, NEW n \in Credentials,
             task' = [task EXCEPT ![p].pc = pc, ![p].new = n],
             pc = (IF task[p].pc = "refresh" THEN "store" ELSE "storeConn"),
             rotates \/ n = task[p].cred,
             pc = "storeConn" /\ rotates => apart'
      PROVE  \E r : CopyMove(p, r)
  <2> DEFINE r == [task[p] EXCEPT !.pc = pc, !.new = n]
  <2>1. r \in TaskRecords /\ task' = [task EXCEPT ![p] = r]
    BY <1>0, <1>4 DEF TaskRecords, TaskPcs
  <2>2. /\ r.pc = pc /\ r.op = task[p].op /\ r.token = task[p].token /\ r.conn = task[p].conn
        /\ r.cred = task[p].cred /\ r.new = n /\ r.todo = task[p].todo /\ r.orphaned = task[p].orphaned
    BY <1>0 DEF TaskRecords
  <2> HIDE DEF r
  <2>3. ASSUME ~apart'
        PROVE  /\ \A q \in Tasks : q # p => ~Clash(r.op, task[q].op) /\ ~Clash(task[q].op, r.op)
               /\ HeldBy(r)
    <3>1. NoOverlap /\ HeldBy(task[p])
      BY <1>1, <2>3 DEF CopyParts, Held
    <3>2. CASE pc = "store"
      BY <1>1, <1>4, <2>2, <3>1, <3>2 DEF NoOverlap, HeldBy
    <3>3. CASE pc = "storeConn"
      BY <1>1, <1>4, <2>2, <2>3, <3>1, <3>3 DEF NoOverlap, HeldBy
    <3> QED
      BY <3>2, <3>3
  <2>4. \A u, j : ~Reaches(task[p], u, j)
    BY <1>1 DEF Reaches
  <2> QED
    BY <1>1, <1>2, <1>4, <2>1, <2>2, <2>3, <2>4 DEF CopyMove
<1>5. ASSUME NEW who, NEW pc \in {"store", "storeConn"}, Issue(p, who, pc),
             pc = (IF task[p].pc = "refresh" THEN "store" ELSE "storeConn"),
             pc = "storeConn" /\ rotates => apart'
      PROVE  \E r : CopyMove(p, r)
  <2>1. CASE rotates
    <3> DEFINE t == task[p].cred[1]
               n == <<t, issued[t] + 1>>
    <3>1. /\ issued[t] < MaxCredential /\ issued' = [issued EXCEPT ![t] = @ + 1]
          /\ task' = [task EXCEPT ![p].pc = pc, ![p].new = n]
      BY <1>5, <2>1 DEF Issue
    <3>2. t \in Tokens
      BY <1>0, <1>1 DEF NumberedTask, Real
    <3>3. n \in Credentials
      BY <3>1, <3>2, FreshCredential
    <3> HIDE DEF n
    <3> QED
      BY <1>4, <1>5, <2>1, <3>1, <3>3
  <2>2. CASE ~rotates
    <3>1. task' = [task EXCEPT ![p].pc = pc, ![p].new = task[p].cred] /\ task[p].cred \in Credentials
      BY <1>0, <1>5, <2>2 DEF Issue, TaskRecords
    <3> QED
      BY <1>4, <1>5, <3>1
  <2> QED
    BY <2>1, <2>2
<1>6. CASE RefreshToken(p)
  BY <1>3, <1>5, <1>6 DEF RefreshToken
<1>7. CASE RefreshConnection(p)
  BY <1>3, <1>5, <1>7 DEF RefreshConnection
<1> QED
  BY <1>6, <1>7

LEMMA CopyReads ==
    ASSUME ConnTypes, TasksGood, CopyParts, NEW p \in Tasks,
           \/ RevokeOld(p) \/ CallApi(p) \/ (StoreToken(p) /\ ~HoldsRow(p)) \/ FindConnections(p) \/ Spread(p)
           \/ LockConnection(p) \/ LoadConnection(p) \/ \E k \in Conns : SpreadFails(p, k)
    PROVE  \E r : CopyMove(p, r)
<1> USE DEF connHistory, Doing
<1>0. /\ task[p] \in TaskRecords /\ GoodTask(task[p])
      /\ \A k \in Conns : conn[k].token \in Tokens \cup {NoToken} /\ conn[k].cred \in Credentials
  BY DEF ConnTypes, TasksGood, RowsTyped, ConnRecords
<1>1. UNCHANGED <<rotates, token, conn>> /\ (apart => apart')
  <2>1. CASE \E k \in Conns : SpreadFails(p, k)
    BY <2>1 DEF SpreadFails
  <2>2. CASE RevokeOld(p) \/ CallApi(p) \/ (StoreToken(p) /\ ~HoldsRow(p)) \/ FindConnections(p)
    <3>1. CASE RevokeOld(p)
      BY <3>1 DEF RevokeOld
    <3>2. CASE CallApi(p)
      BY <3>2 DEF CallApi
    <3>3. CASE StoreToken(p) /\ ~HoldsRow(p)
      BY <3>3 DEF StoreToken
    <3>4. CASE FindConnections(p)
      BY <3>4 DEF FindConnections
    <3> QED
      BY <2>2, <3>1, <3>2, <3>3, <3>4
  <2>3. CASE Spread(p)
    BY <2>3 DEF Spread
  <2>4. CASE LockConnection(p)
    BY <2>4 DEF LockConnection
  <2>5. CASE LoadConnection(p)
    <3>1. UNCHANGED <<rotates, token, conn, apart>>
      BY <2>5 DEF LoadConnection
    <3> QED
      BY <3>1
  <2> QED
    BY <2>1, <2>2, <2>3, <2>4, <2>5
<1>2. SameRows
  BY <1>1, RowsAlone
<1>3. {"store", "delete", "purge", "load"} \subseteq TaskPcs
  BY DEF TaskPcs
<1>4. ASSUME ~apart' PROVE NoOverlap /\ HeldBy(task[p]) /\ Copied
  BY <1>1, <1>4 DEF CopyParts, Held
<1>5. CASE RevokeOld(p)
  <2>1. PICK pc \in {"store", "delete"} : Onto(p, pc) /\ (pc = "store" => task[p].op = "connect")
    BY <1>5 DEF RevokeOld
  <2> QED
    BY <1>1, <1>2, <1>3, <1>5, <2>1, CopyGoesOn DEF RevokeOld
\* A connection's task that reads it again.
<1>6. ASSUME NEW pc \in {"drop", "api", "refreshConn"}, NEW c \in Credentials, task[p].pc \in {"api", "load"},
             task[p].op = "shared",
             task' = [task EXCEPT ![p].pc = pc, ![p].cred = c,
                                  ![p].token = conn[task[p].conn].token, ![p].orphaned = FALSE],
             pc = "refreshConn" => c = conn[task[p].conn].cred
      PROVE  \E r : CopyMove(p, r)
  <2> DEFINE r == [task[p] EXCEPT !.pc = pc, !.cred = c, !.token = conn[task[p].conn].token, !.orphaned = FALSE]
  <2>1. task[p].conn \in Conns
    BY <1>0, <1>6 DEF GoodTask, TaskRecords
  <2>2. r \in TaskRecords /\ task' = [task EXCEPT ![p] = r]
    BY <1>0, <1>6, <2>1 DEF TaskRecords, TaskPcs
  <2>3. /\ r.pc = pc /\ r.op = "shared" /\ r.conn = task[p].conn /\ r.cred = c /\ r.todo = task[p].todo
    BY <1>0, <1>6 DEF TaskRecords
  <2> HIDE DEF r
  <2>4. ASSUME ~apart'
        PROVE  /\ \A q \in Tasks : q # p => ~Clash(r.op, task[q].op) /\ ~Clash(task[q].op, r.op)
               /\ HeldBy(r)
    BY <1>4, <1>6, <2>3, <2>4 DEF NoOverlap, HeldBy
  <2>5. \A u, j : ~Reaches(task[p], u, j)
    BY <1>6 DEF Reaches
  <2> QED
    BY <1>1, <1>2, <1>6, <2>2, <2>3, <2>4, <2>5 DEF CopyMove
<1>7. CASE CallApi(p)
  <2>1. CASE Finish(p)
    BY <1>1, <1>2, <1>7, <2>1, CopyEnds DEF CallApi
  <2>2. CASE Onto(p, "purge")
    BY <1>1, <1>2, <1>3, <1>7, <2>2, CopyGoesOn DEF CallApi
  <2>3. CASE /\ task[p].op = "shared" /\ conn[task[p].conn].row = "on"
             /\ task' = [task EXCEPT ![p].pc = "drop", ![p].token = conn[task[p].conn].token, ![p].orphaned = FALSE]
    <3>1. task[p].pc = "api" /\ task[p].cred \in Credentials
      BY <1>0, <1>7 DEF CallApi, TaskRecords
    <3>2. task' = [task EXCEPT ![p].pc = "drop", ![p].cred = task[p].cred,
                               ![p].token = conn[task[p].conn].token, ![p].orphaned = FALSE]
      BY <1>0, <2>3 DEF TaskRecords
    <3> QED
      BY <1>6, <2>3, <3>1, <3>2
  <2> QED
    BY <1>7, <2>1, <2>2, <2>3 DEF CallApi
<1>8. CASE StoreToken(p) /\ ~HoldsRow(p)
  BY <1>1, <1>2, <1>8, CopyEnds DEF StoreToken
<1>9. CASE LockConnection(p)
  BY <1>1, <1>2, <1>3, <1>9, CopyGoesOn DEF LockConnection
<1>10. CASE LoadConnection(p)
  <2>1. CASE Finish(p)
    BY <1>1, <1>2, <1>10, <2>1, CopyEnds DEF LoadConnection
  <2>2. ASSUME NEW pc \in {"api", "refreshConn"},
               task' = [task EXCEPT ![p].pc = pc, ![p].cred = conn[task[p].conn].cred,
                                    ![p].token = conn[task[p].conn].token, ![p].orphaned = FALSE]
        PROVE  \E r : CopyMove(p, r)
    <3>1. task[p].pc = "load" /\ task[p].op = "shared"
      BY <1>0, <1>10 DEF LoadConnection, GoodTask
    <3>2. conn[task[p].conn].cred \in Credentials
      BY <1>0, <3>1 DEF GoodTask, TaskRecords
    <3> QED
      BY <1>6, <2>2, <3>1, <3>2
  <2> QED
    BY <1>10, <2>1, <2>2 DEF LoadConnection
<1>11. CASE FindConnections(p)
  <2> DEFINE K == {k \in Conns : HoldsRow(p) /\ conn[k].row = "on" /\ conn[k].token = task[p].token}
             r == [task[p] EXCEPT !.pc = "spread", !.todo = K]
  <2>1. r \in TaskRecords /\ task' = [task EXCEPT ![p] = r] /\ task[p].pc = "find"
    BY <1>0, <1>11 DEF FindConnections, TaskRecords, TaskPcs
  <2>2. /\ r.pc = "spread" /\ r.op = task[p].op /\ r.token = task[p].token /\ r.conn = task[p].conn
        /\ r.cred = task[p].cred /\ r.new = task[p].new /\ r.todo = K /\ r.orphaned = task[p].orphaned
    BY <1>0 DEF TaskRecords
  <2> HIDE DEF r
  <2>3. ASSUME ~apart'
        PROVE  /\ \A q \in Tasks : q # p => ~Clash(r.op, task[q].op) /\ ~Clash(task[q].op, r.op)
               /\ HeldBy(r)
    BY <1>4, <2>1, <2>2, <2>3 DEF NoOverlap, HeldBy
  <2>4. ASSUME ~apart', NEW k \in Conns, conn[k].row = "on", Reaches(task[p], conn[k].token, k),
               conn[k].token # NoToken
        PROVE  Reaches(r, conn[k].token, k)
    <3>1. task[p].token = conn[k].token /\ token[conn[k].token].row /\ task[p].op \in {"use", "connect"}
      BY <1>0, <2>1, <2>4 DEF Reaches, CopyParts, RowKeys, GoodTask
    <3>2. ~task[p].orphaned
      BY <1>4, <2>4, <3>1 DEF HeldBy
    <3>3. HoldsRow(p)
      BY <2>4, <3>1, <3>2 DEF HoldsRow
    <3> QED
      BY <2>2, <2>4, <3>1, <3>3 DEF Reaches
  <2> QED
    BY <1>1, <1>2, <2>1, <2>2, <2>3, <2>4 DEF CopyMove
<1>12. CASE Spread(p)
  <2>1. task[p].pc = "spread" /\ task[p].todo = {}
    BY <1>12 DEF Spread
  <2>2. CASE Finish(p)
    BY <1>1, <1>2, <2>1, <2>2, CopyEnds
  <2>3. CASE task' = [task EXCEPT ![p].pc = "api", ![p].cred = task[p].new]
    <3> DEFINE r == [task[p] EXCEPT !.pc = "api", !.cred = task[p].new]
    <3>1. r \in TaskRecords /\ task' = [task EXCEPT ![p] = r]
      BY <1>0, <2>3 DEF TaskRecords, TaskPcs
    <3>2. /\ r.pc = "api" /\ r.op = task[p].op /\ r.token = task[p].token /\ r.conn = task[p].conn
          /\ r.todo = task[p].todo /\ r.orphaned = task[p].orphaned
      BY <1>0 DEF TaskRecords
    <3> HIDE DEF r
    <3>3. ASSUME ~apart'
          PROVE  /\ \A q \in Tasks : q # p => ~Clash(r.op, task[q].op) /\ ~Clash(task[q].op, r.op)
                 /\ HeldBy(r)
      BY <1>4, <2>1, <3>2, <3>3 DEF NoOverlap, HeldBy
    <3>4. \A u, j : ~Reaches(task[p], u, j)
      BY <2>1 DEF Reaches
    <3> QED
      BY <1>1, <1>2, <3>1, <3>2, <3>3, <3>4 DEF CopyMove
  <2> QED
    BY <1>12, <2>2, <2>3 DEF Spread
<1>13. ASSUME NEW k \in Conns, SpreadFails(p, k) PROVE \E r : CopyMove(p, r)
  <2> DEFINE r == [task[p] EXCEPT !.todo = @ \ {k}]
  <2>1. r \in TaskRecords /\ task' = [task EXCEPT ![p] = r] /\ r.pc = "spread" /\ apart' = TRUE
    BY <1>0, <1>13 DEF SpreadFails, TaskRecords
  <2> QED
    BY <1>1, <1>2, <2>1 DEF CopyMove
<1> QED
  BY <1>5, <1>7, <1>8, <1>9, <1>10, <1>11, <1>12, <1>13

LEMMA CopyWorkflow ==
    ASSUME ConnTypes, TasksGood, CopyParts, NEW p \in Tasks,
           \/ MarkStale(p) \/ MarkShared(p) \/ CheckShared(p) \/ MarkUnshared(p)
           \/ (CopyToken(p) /\ ~HoldsRow(p))
    PROVE  \E r : CopyMove(p, r)
<1> USE DEF connHistory, atProvider, Doing
<1>1. UNCHANGED <<rotates, apart>> /\ task[p].pc \in {"stale", "markShared", "check", "unshare", "copy"}
  <2>1. CASE MarkStale(p) \/ MarkShared(p)
    BY <2>1 DEF MarkStale, MarkShared
  <2>2. CASE CheckShared(p) \/ MarkUnshared(p)
    BY <2>2 DEF CheckShared, MarkUnshared
  <2>3. CASE CopyToken(p)
    BY <2>3 DEF CopyToken
  <2> QED
    BY <2>1, <2>2, <2>3
<1>2. SameRows
  <2>1. CASE MarkStale(p)
    BY <2>1 DEF MarkStale, ConnTypes, SameRows, RowsTyped, ConnRecords
  <2>2. CASE MarkShared(p)
    BY <2>2, RowsAlone DEF MarkShared
  <2>3. CASE CheckShared(p)
    BY <2>3, RowsAlone DEF CheckShared
  <2>4. CASE MarkUnshared(p)
    BY <2>4, RowsAlone DEF MarkUnshared
  <2>5. CASE CopyToken(p) /\ ~HoldsRow(p)
    BY <2>5, RowsAlone DEF CopyToken
  <2> QED
    BY <2>1, <2>2, <2>3, <2>4, <2>5
<1>3. Finish(p) \/ Onto(p, "purge") \/ Onto(p, "unshare")
  BY DEF MarkStale, MarkShared, CheckShared, MarkUnshared, AfterUnshare, CopyToken
<1>4. "purge" \in TaskPcs /\ "unshare" \in TaskPcs
  BY DEF TaskPcs
<1>5. CASE Finish(p)
  BY <1>1, <1>2, <1>5, CopyEnds
<1>6. CASE Onto(p, "purge")
  BY <1>1, <1>2, <1>4, <1>6, CopyGoesOn
<1>7. CASE Onto(p, "unshare")
  BY <1>1, <1>2, <1>4, <1>7, CopyGoesOn
<1> QED
  BY <1>3, <1>5, <1>6, <1>7

\* The refresh of a connection that replaces nothing stores what was there.
LEMMA CopyStored ==
    ASSUME ConnTypes, TasksGood, TasksGood', CopyParts, ConnsExist, NEW p \in Tasks, StoreConnection(p)
    PROVE  CopyParts'
<1> USE DEF connHistory, Doing
<1>0. /\ task[p] \in TaskRecords /\ GoodTask(task[p]) /\ task[p].pc = "storeConn" /\ task[p].conn \in Conns
      /\ UNCHANGED <<rotates, token, apart>>
  BY DEF StoreConnection, ConnTypes, TasksGood, GoodTask, TaskRecords
<1>1. CASE Finish(p) /\ UNCHANGED conn
  <2>1. SameRows
    BY <1>0, <1>1, RowsAlone
  <2>2. CopyMove(p, NoWork)
    BY <1>0, <1>1, <2>1, CopyEnds
  <2> QED
    BY <2>2, CopyMoveStep
<1>2. CASE /\ conn[task[p].conn].row = "on" /\ conn[task[p].conn].token # NoToken
           /\ conn' = [conn EXCEPT ![task[p].conn].cred = task[p].new, ![task[p].conn].fresh = TRUE]
           /\ task' = [task EXCEPT ![p].pc = "api", ![p].cred = task[p].new]
  <2> DEFINE r == [task[p] EXCEPT !.pc = "api", !.cred = task[p].new]
             k == task[p].conn
  <2>1. /\ r \in TaskRecords /\ task' = [task EXCEPT ![p] = r] /\ r.pc = "api" /\ r.op = task[p].op
        /\ r.token = task[p].token /\ r.conn = k /\ r.todo = task[p].todo /\ r.orphaned = task[p].orphaned
    BY <1>0, <1>2 DEF TaskRecords, TaskPcs
  <2>2. /\ \A j \in Conns : conn'[j].row = conn[j].row /\ conn'[j].token = conn[j].token
        /\ \A j \in Conns : j # k => conn'[j].cred = conn[j].cred
        /\ conn'[k].cred = task[p].new
    BY <1>0, <1>2 DEF ConnTypes, RowsTyped, ConnRecords
  <2>3. CASE apart
    <3>1. RowKeys'
      <4>1. \A q \in Tasks : task'[q].pc = "insert" => q # p /\ task'[q] = task[q]
        BY <2>1, TaskMoves DEF ConnTypes
      <4> QED
        BY <1>0, <2>2, <4>1 DEF CopyParts, RowKeys
    <3> QED
      BY <1>0, <2>3, <3>1 DEF CopyParts
  <2>4. CASE ~apart
    <3>1. NoOverlap /\ HeldBy(task[p])
      BY <2>4 DEF CopyParts, Held
    <3>2. conn'[k].cred = conn[k].cred
      BY <1>0, <1>2, <2>2, <3>1 DEF HeldBy
    <3>3. SameRows
      BY <1>0, <2>2, <3>2 DEF SameRows
    <3>4. HeldBy(r)
      BY <1>0, <2>1, <3>1 DEF HeldBy
    <3>5. \A u, j : ~Reaches(task[p], u, j)
      BY <1>0 DEF Reaches
    <3>6. CopyMove(p, r)
      BY <1>0, <2>1, <3>1, <3>3, <3>4, <3>5 DEF CopyMove, NoOverlap
    <3> QED
      BY <3>6, CopyMoveStep
  <2> QED
    BY <2>3, <2>4
<1> QED
  BY <1>1, <1>2 DEF StoreConnection

\* A row that is written while only its writer is connecting or refreshing.
LEMMA AloneWith ==
    ASSUME NoOverlap, TasksGood, NEW p \in Tasks, task[p].op \in {"use", "connect"},
           task[p].op = "use" => rotates
    PROVE  \A q \in Tasks : q # p =>
             /\ task[q].op \notin {"use", "connect", "promote"}
             /\ task[q].pc \notin {"refresh", "store", "find", "spread", "insert", "copy"}
<1> SUFFICES ASSUME NEW q \in Tasks, q # p
             PROVE  /\ task[q].op \notin {"use", "connect", "promote"}
                    /\ task[q].pc \notin {"refresh", "store", "find", "spread", "insert", "copy"}
  OBVIOUS
<1>1. ~Clash(task[p].op, task[q].op) /\ ~Clash(task[q].op, task[p].op)
  BY DEF NoOverlap
<1>2. task[q].op \notin {"use", "connect", "promote"}
  BY <1>1 DEF Clash
<1> QED
  BY <1>2 DEF TasksGood, GoodTask

\* The row of an account is written, by its task.
LEMMA CopyTokenWritten ==
    ASSUME ConnTypes, TasksGood, TasksGood', CredsNumbered, CopyParts, NEW p \in Tasks,
           (StoreToken(p) /\ HoldsRow(p)) \/ InsertToken(p)
    PROVE  CopyParts'
<1> USE DEF connHistory, Doing
<1>0. task[p] \in TaskRecords /\ GoodTask(task[p])
  BY DEF ConnTypes, TasksGood
<1> DEFINE t == task[p].token
<1>1. /\ UNCHANGED <<rotates, conn, apart>> /\ t \in Tokens /\ task[p].pc \in {"store", "insert"}
      /\ task[p].op \in {"use", "connect"} /\ (task[p].pc = "insert" => task[p].op = "connect")
  BY <1>0 DEF StoreToken, InsertToken, GoodTask, HoldsRow, TaskRecords
<1>2. /\ \A u \in Tokens : u # t => token'[u] = token[u]
      /\ token'[t].cred = task[p].new /\ token'[t].row = TRUE
  <2>1. CASE StoreToken(p) /\ HoldsRow(p)
    BY <1>1, <2>1 DEF StoreToken, HoldsRow, ConnTypes, RowsTyped, TokenRecords
  <2>2. CASE InsertToken(p)
    BY <1>1, <2>2 DEF InsertToken, ConnTypes, RowsTyped
  <2> QED
    BY <2>1, <2>2
<1>3. PICK r \in TaskRecords :
        /\ task' = [task EXCEPT ![p] = r]
        /\ \/ task[p].pc = "insert" /\ r = NoWork
           \/ /\ task[p].pc = "store" /\ token[t].row /\ ~task[p].orphaned
              /\ r.pc = "find" /\ r.op = task[p].op /\ r.token = t /\ r.conn = task[p].conn
              /\ r.new = task[p].new /\ r.todo = task[p].todo /\ r.orphaned = task[p].orphaned
  <2>1. CASE StoreToken(p) /\ HoldsRow(p)
    <3> DEFINE r == [task[p] EXCEPT !.pc = "find"]
    <3>1. r \in TaskRecords /\ task' = [task EXCEPT ![p] = r]
      BY <1>0, <2>1 DEF StoreToken, Onto, TaskRecords, TaskPcs
    <3>2. /\ r.pc = "find" /\ r.op = task[p].op /\ r.token = t /\ r.conn = task[p].conn
          /\ r.new = task[p].new /\ r.todo = task[p].todo /\ r.orphaned = task[p].orphaned
      BY <1>0 DEF TaskRecords
    <3> QED
      BY <2>1, <3>1, <3>2 DEF StoreToken, HoldsRow
  <2>2. CASE InsertToken(p)
    BY <2>2, ConnConstants DEF InsertToken, Finish
  <2> QED
    BY <2>1, <2>2
<1>4. /\ task' \in [Tasks -> TaskRecords] /\ task'[p] = r
      /\ \A q \in Tasks : q # p => task'[q] = task[q]
  BY <1>3, TaskMoves DEF ConnTypes
<1>5. r.pc # "insert" /\ r.op \in {"none", task[p].op}
  BY <1>3, ConnConstants
<1>6. RowKeys'
  <2>1. \A u \in Tokens : token[u].row => token'[u].row
    BY <1>2
  <2>2. \A k \in Conns : conn[k].token \in Tokens \cup {NoToken}
    BY DEF ConnTypes, RowsTyped, ConnRecords
  <2>3. ASSUME NEW q \in Tasks, task'[q].pc = "insert"
        PROVE  /\ ~token'[task'[q].token].row
               /\ \A s \in Tasks : task'[s].pc = "insert" /\ task'[s].token = task'[q].token => s = q
    <3>1. q # p /\ task[q].pc = "insert" /\ task'[q].token = task[q].token /\ task[q].token \in Tokens
      BY <1>4, <1>5, <2>3 DEF TasksGood, GoodTask
    <3>2. task[q].token # t
      BY <1>3, <3>1 DEF CopyParts, RowKeys
    <3>3. \A s \in Tasks : task'[s].pc = "insert" => task[s].pc = "insert" /\ task'[s].token = task[s].token
      BY <1>4, <1>5
    <3> QED
      BY <1>2, <3>1, <3>2, <3>3 DEF CopyParts, RowKeys
  <2> QED
    BY <1>1, <2>1, <2>2, <2>3 DEF CopyParts, RowKeys
<1>7. ASSUME ~apart' PROVE NoOverlap' /\ Copied' /\ Held'
  <2>1. ~apart /\ NoOverlap /\ Copied /\ Held
    BY <1>1, <1>7 DEF CopyParts
  <2>2. NoOverlap'
    BY <1>1, <1>4, <1>5, <2>1 DEF NoOverlap, Clash
  <2>3. CASE ~rotates /\ task[p].op = "use"
    <3>1. task[p].pc = "store" /\ task[p].new = token[t].cred /\ token[t].row
      BY <1>1, <1>3, <2>1, <2>3 DEF Held, HeldBy
    <3>2. SameRows
      BY <1>1, <1>2, <3>1 DEF SameRows
    <3>3. HeldBy(r)
      <4>1. HeldBy(task[p])
        BY <2>1 DEF Held
      <4> QED
        BY <1>0, <1>1, <1>3, <2>3, <3>1, <4>1, ConnConstants DEF HeldBy, GoodTask
    <3>4. CopyMove(p, r)
      <4>1. \A u, j : ~Reaches(task[p], u, j)
        BY <3>1 DEF Reaches
      <4>2. \A q \in Tasks : q # p => ~Clash(r.op, task[q].op) /\ ~Clash(task[q].op, r.op)
        BY <1>5, <2>1 DEF NoOverlap, Clash
      <4> QED
        BY <1>1, <1>3, <1>5, <3>2, <3>3, <4>1, <4>2 DEF CopyMove
    <3> QED
      BY <1>7, <3>4, CopyMoveStep DEF CopyParts
  <2>4. CASE rotates \/ task[p].op = "connect"
    <3>1. \A q \in Tasks : q # p =>
             /\ task[q].op \notin {"use", "connect", "promote"}
             /\ task[q].pc \notin {"refresh", "store", "find", "spread", "insert", "copy"}
      BY <1>1, <2>1, <2>4, AloneWith
    <3>2. ASSUME NEW q \in Tasks, q # p PROVE HeldBy(task[q])'
      <4>1. HeldBy(task[q]) /\ task'[q] = task[q]
        BY <1>4, <2>1, <3>2 DEF Held
      <4> QED
        BY <1>1, <3>1, <3>2, <4>1 DEF HeldBy
    <3>3. HeldBy(task[p])'
      <4>1. CASE r = NoWork
        BY <1>4, <4>1, ConnConstants DEF HeldBy
      <4>2. CASE task[p].pc = "store"
        <5>1. HeldBy(task[p])
          BY <2>1 DEF Held
        <5>2. r.pc = "find" /\ ~r.orphaned /\ r.todo = {} /\ r.conn = task[p].conn /\ r.new = token'[t].cred
              /\ r.token = t
          BY <1>2, <1>3, <4>2, <5>1 DEF HeldBy
        <5> QED
          BY <1>4, <5>2 DEF HeldBy
      <4> QED
        BY <1>3, <4>1, <4>2
    <3>4. Copied'
      <4> SUFFICES ASSUME NEW k \in Conns, conn[k].row = "on", conn[k].token # NoToken
                   PROVE  \/ conn[k].cred = token'[conn[k].token].cred
                          \/ \E q \in Tasks : Reaches(task[q], conn[k].token, k)'
        BY <1>1 DEF Copied
      <4>1. conn[k].token \in Tokens /\ token[conn[k].token].row
        BY DEF ConnTypes, RowsTyped, ConnRecords, CopyParts, RowKeys
      <4>2. \A q \in Tasks : ~Reaches(task[q], conn[k].token, k)
        BY <1>1, <3>1 DEF Reaches
      <4>3. conn[k].cred = token[conn[k].token].cred
        BY <2>1, <4>2 DEF Copied
      <4>4. CASE conn[k].token # t
        BY <1>2, <4>1, <4>3, <4>4
      <4>5. CASE conn[k].token = t
        <5>1. task[p].pc = "store"
          BY <1>1, <4>1, <4>5 DEF CopyParts, RowKeys
        <5>2. r.pc = "find" /\ r.op = task[p].op /\ r.token = t
          BY <1>3, <5>1
        <5>3. Reaches(task[p], conn[k].token, k)'
          BY <1>1, <1>4, <2>4, <4>5, <5>2 DEF Reaches
        <5> QED
          BY <5>3
      <4> QED
        BY <4>4, <4>5
    <3> QED
      BY <2>2, <3>2, <3>3, <3>4 DEF Held
  <2> QED
    BY <1>1, <2>3, <2>4
<1> QED
  BY <1>6, <1>7 DEF CopyParts

\* A propagation writes a copy.
LEMMA CopySpread ==
    ASSUME ConnTypes, TasksGood, CopyParts, NEW p \in Tasks, NEW k \in Conns, SpreadTo(p, k)
    PROVE  CopyParts'
<1> USE DEF connHistory, Doing
<1>0. task[p] \in TaskRecords /\ GoodTask(task[p])
  BY DEF ConnTypes, TasksGood
<1> DEFINE n == task[p].new
           t == task[p].token
           r == [task[p] EXCEPT !.todo = @ \ {k}]
           wrote == conn[k].row = "on" /\ conn[k].token # NoToken
<1>1. /\ UNCHANGED <<rotates, token, apart>> /\ task[p].pc = "spread" /\ k \in task[p].todo
      /\ task[p].op \in {"use", "connect"} /\ t \in Tokens /\ task' = [task EXCEPT ![p] = r]
  BY <1>0 DEF SpreadTo, GoodTask
<1>2. /\ r \in TaskRecords /\ r.pc = "spread" /\ r.op = task[p].op /\ r.token = t
      /\ r.conn = task[p].conn /\ r.cred = task[p].cred /\ r.new = n /\ r.orphaned = task[p].orphaned
      /\ r.todo = task[p].todo \ {k}
  BY <1>0, <1>1 DEF TaskRecords
<1>3. /\ task' \in [Tasks -> TaskRecords] /\ task'[p] = r
      /\ \A q \in Tasks : q # p => task'[q] = task[q]
  BY <1>1, <1>2, TaskMoves DEF ConnTypes
<1> HIDE DEF r
<1>4. /\ \A j \in Conns : conn'[j].row = conn[j].row /\ conn'[j].token = conn[j].token
      /\ \A j \in Conns : j # k => conn'[j].cred = conn[j].cred
      /\ conn'[k].cred = IF wrote THEN n ELSE conn[k].cred
  <2>1. CASE wrote
    BY <2>1 DEF SpreadTo, ConnTypes, RowsTyped, ConnRecords
  <2>2. CASE ~wrote
    BY <2>2 DEF SpreadTo
  <2> QED
    BY <2>1, <2>2
<1>5. RowKeys'
  BY <1>1, <1>2, <1>3, <1>4 DEF CopyParts, RowKeys
<1>6. ASSUME ~apart' PROVE NoOverlap' /\ Copied' /\ Held'
  <2>1. ~apart /\ NoOverlap /\ Copied /\ Held
    BY <1>1, <1>6 DEF CopyParts
  <2>2. HeldBy(task[p])
    BY <2>1 DEF Held
  <2>3. wrote => conn[k].token = t /\ n = token[t].cred
    BY <1>1, <2>2 DEF HeldBy
  <2>4. NoOverlap'
    BY <1>1, <1>2, <1>3, <2>1 DEF NoOverlap, Clash
  <2>5. Copied'
    <3> SUFFICES ASSUME NEW j \in Conns, conn[j].row = "on", conn[j].token # NoToken
                 PROVE  \/ conn'[j].cred = token[conn[j].token].cred
                        \/ \E q \in Tasks : Reaches(task[q], conn[j].token, j)'
      BY <1>1, <1>4 DEF Copied
    <3>1. CASE j = k
      BY <1>4, <2>3, <3>1
    <3>2. CASE j # k
      <4>1. \A q \in Tasks : Reaches(task[q], conn[j].token, j) => Reaches(task'[q], conn[j].token, j)
        BY <1>1, <1>2, <1>3, <3>2 DEF Reaches
      <4>2. \A q \in Tasks : Reaches(task[q], conn[j].token, j) => Reaches(task[q], conn[j].token, j)'
        BY <1>1, <1>4, <4>1 DEF Reaches
      <4>3. conn'[j].cred = conn[j].cred
        BY <1>4, <3>2
      <4> QED
        BY <2>1, <4>2, <4>3 DEF Copied
    <3> QED
      BY <3>1, <3>2
  <2>6. ASSUME NEW q \in Tasks, q # p PROVE HeldBy(task[q])'
    <3>1. HeldBy(task[q]) /\ task'[q] = task[q] /\ GoodTask(task[q]) /\ task[q].todo \subseteq Conns
      BY <1>3, <2>1, <2>6 DEF Held, TasksGood, ConnTypes, TaskRecords
    <3>2. CASE task[q].conn = k /\ wrote /\ task[q].pc \in {"refreshConn", "storeConn"}
      <4>1. task[q].op = "shared"
        BY <3>1, <3>2 DEF GoodTask
      <4>2. task[p].op = "use"
        BY <1>1, <2>1, <2>6, <4>1 DEF NoOverlap, Clash
      <4>3. CASE rotates
        BY <1>1, <1>4, <3>1, <3>2, <4>3 DEF HeldBy
      <4>4. CASE ~rotates
        <5>1. \A s \in Tasks : ~Reaches(task[s], conn[k].token, k)
          <6> SUFFICES ASSUME NEW s \in Tasks, task[s].op = "connect" PROVE FALSE
            BY <4>4 DEF Reaches
          <6>1. Clash(task[s].op, task[q].op) /\ s # q
            BY <4>1 DEF Clash
          <6> QED
            BY <2>1, <6>1 DEF NoOverlap
        <5>2. conn[k].cred = token[t].cred
          BY <2>1, <2>3, <3>2, <5>1 DEF Copied
        <5>3. \A j \in Conns : conn'[j].cred = conn[j].cred
          BY <1>4, <2>3, <5>2
        <5> QED
          BY <1>1, <1>4, <3>1, <5>3 DEF HeldBy
      <4> QED
        BY <4>3, <4>4
    <3>3. CASE ~(task[q].conn = k /\ wrote /\ task[q].pc \in {"refreshConn", "storeConn"})
      BY <1>1, <1>4, <3>1, <3>3 DEF HeldBy
    <3> QED
      BY <3>2, <3>3
  <2>7. HeldBy(task[p])'
    <3>1. r.conn \notin Conns
      BY <1>0, <1>1, <1>2, ConnConstants DEF GoodTask
    <3>2. r.todo \subseteq Conns
      BY <1>2 DEF TaskRecords
    <3> QED
      BY <1>1, <1>2, <1>3, <1>4, <2>2, <3>1, <3>2 DEF HeldBy
  <2> QED
    BY <2>4, <2>5, <2>6, <2>7 DEF Held
<1> QED
  BY <1>5, <1>6 DEF CopyParts

\* Rows are deleted, and tasks that hold their ids will find none.
LEMMA CopyDeletes ==
    ASSUME ConnTypes, TasksGood, CopyParts, NEW p \in Tasks, DeleteToken(p) \/ PurgeNewest(p)
    PROVE  CopyParts'
<1> USE DEF connHistory, atProvider, Doing
<1>0. task[p] \in TaskRecords /\ GoodTask(task[p]) /\ UNCHANGED <<rotates, apart>>
      /\ task[p].pc \in {"delete", "purge"}
  BY DEF ConnTypes, TasksGood, DeleteToken, PurgeNewest
<1>1. PICK r, T :
        /\ r \in TaskRecords /\ task' = Orphaned([task EXCEPT ![p] = r], T) /\ DeleteRows(T)
        /\ r = NoWork \/ r = [task[p] EXCEPT !.pc = "stale"]
  <2>1. NoWork \in TaskRecords /\ [task[p] EXCEPT !.pc = "stale"] \in TaskRecords
    BY <1>0, ConnConstants DEF TaskRecords, TaskPcs
  <2>2. CASE DeleteToken(p)
    <3> DEFINE T == IF task[p].orphaned THEN {} ELSE {task[p].token}
    <3>1. /\ task' = Orphaned([task EXCEPT ![p] = IF task[p].op = "disconnect" THEN NoWork
                                                  ELSE [task[p] EXCEPT !.pc = "stale"]], T)
          /\ DeleteRows(T)
      BY <2>2 DEF DeleteToken, ConnTypes
    <3> QED
      BY <2>1, <3>1
  <2>3. CASE PurgeNewest(p)
    <3>1. task' = Orphaned([task EXCEPT ![p] = [task[p] EXCEPT !.pc = "stale"]], NewestRow)
          /\ DeleteRows(NewestRow)
      BY <2>3 DEF PurgeNewest, ConnTypes
    <3> QED
      BY <2>1, <3>1
  <2> QED
    BY <2>2, <2>3
<1> DEFINE tasks == [task EXCEPT ![p] = r]
<1>2. tasks \in [Tasks -> TaskRecords] /\ tasks[p] = r /\ \A q \in Tasks : q # p => tasks[q] = task[q]
  BY <1>1 DEF ConnTypes
<1>3. task' = Orphaned(tasks, T)
  BY <1>1
<1> HIDE DEF tasks
<1>4. /\ task' \in [Tasks -> TaskRecords]
      /\ \A q \in Tasks : \A f \in {"pc", "op", "token", "conn", "cred", "new", "todo"} : task'[q][f] = tasks[q][f]
      /\ \A q \in Tasks : task'[q].orphaned <=> tasks[q].orphaned \/ tasks[q].token \in T
  BY <1>2, <1>3, OrphanedTasks
<1>5. \A q \in Tasks : /\ task'[q].pc = tasks[q].pc /\ task'[q].op = tasks[q].op
                       /\ task'[q].token = tasks[q].token /\ task'[q].conn = tasks[q].conn
                       /\ task'[q].cred = tasks[q].cred /\ task'[q].new = tasks[q].new
                       /\ task'[q].todo = tasks[q].todo
  BY <1>4
<1>6. /\ \A t \in Tokens : token'[t].cred = token[t].cred /\ token'[t].row = (token[t].row /\ t \notin T)
      /\ \A k \in Conns : /\ conn'[k].row = conn[k].row /\ conn'[k].cred = conn[k].cred
                          /\ conn'[k].token = IF conn[k].token \in T THEN NoToken ELSE conn[k].token
  BY <1>1, DeletedRows DEF ConnTypes
<1>7. /\ r.pc \in {"idle", "stale"} /\ r.op \in {"none", task[p].op}
      /\ r = NoWork \/ (r.token = task[p].token /\ r.conn = task[p].conn /\ r.todo = task[p].todo
                        /\ r.orphaned = task[p].orphaned /\ r.op = task[p].op)
  BY <1>0, <1>1, ConnConstants DEF TaskRecords
<1>8. \A k \in Conns : conn[k].token \in Tokens \cup {NoToken}
  BY DEF ConnTypes, RowsTyped, ConnRecords
<1>9. RowKeys'
  <2>1. \A k \in Conns : /\ conn'[k].row = "unused" => conn'[k].token = NoToken
                         /\ conn'[k].token # NoToken => token'[conn'[k].token].row
    <3> SUFFICES ASSUME NEW k \in Conns
                 PROVE  /\ conn'[k].row = "unused" => conn'[k].token = NoToken
                        /\ conn'[k].token # NoToken => token'[conn'[k].token].row
      OBVIOUS
    <3>1. /\ conn[k].row = "unused" => conn[k].token = NoToken
          /\ conn[k].token # NoToken => token[conn[k].token].row
      BY DEF CopyParts, RowKeys
    <3>2. conn'[k].row = conn[k].row /\ conn'[k].token \in {conn[k].token, NoToken}
          /\ (conn'[k].token # NoToken => conn'[k].token = conn[k].token /\ conn[k].token \notin T)
      BY <1>6
    <3>3. conn'[k].token # NoToken => token'[conn[k].token].row = (token[conn[k].token].row /\ conn[k].token \notin T)
      BY <1>6, <1>8, <3>2
    <3> QED
      BY <3>1, <3>2, <3>3
  <2>2. \A q \in Tasks : task'[q].pc = "insert" =>
          /\ task[q].pc = "insert" /\ task'[q].token = task[q].token /\ task[q].token \in Tokens
    BY <1>2, <1>5, <1>7 DEF TasksGood, GoodTask
  <2>3. ASSUME NEW q \in Tasks, task'[q].pc = "insert"
        PROVE  /\ ~token'[task'[q].token].row
               /\ \A s \in Tasks : task'[s].pc = "insert" /\ task'[s].token = task'[q].token => s = q
    <3>1. /\ ~token[task[q].token].row
          /\ \A s \in Tasks : task[s].pc = "insert" /\ task[s].token = task[q].token => s = q
      BY <2>2, <2>3 DEF CopyParts, RowKeys
    <3>2. ~token'[task[q].token].row
      BY <1>6, <2>2, <2>3, <3>1
    <3> QED
      BY <2>2, <2>3, <3>1, <3>2
  <2> QED
    BY <2>1, <2>3 DEF RowKeys
<1>10. ASSUME ~apart' PROVE NoOverlap' /\ Copied' /\ Held'
  <2>1. ~apart /\ NoOverlap /\ Copied /\ Held
    BY <1>0, <1>10 DEF CopyParts
  <2>2. NoOverlap'
    <3>1. \A q \in Tasks : task'[q].op \in {"none", task[q].op}
      BY <1>2, <1>5, <1>7
    <3> QED
      BY <1>0, <2>1, <3>1 DEF NoOverlap, Clash
  <2>3. Copied'
    <3> SUFFICES ASSUME NEW k \in Conns, conn'[k].row = "on", conn'[k].token # NoToken
                 PROVE  \/ conn'[k].cred = token'[conn'[k].token].cred
                        \/ \E q \in Tasks : Reaches(task[q], conn[k].token, k)'
      BY DEF Copied
    <3>1. /\ conn[k].row = "on" /\ conn[k].token # NoToken /\ conn'[k].token = conn[k].token
          /\ conn[k].token \in Tokens /\ conn'[k].cred = conn[k].cred
          /\ token'[conn[k].token].cred = token[conn[k].token].cred
      BY <1>6, <1>8
    <3>2. ASSUME NEW q \in Tasks, Reaches(task[q], conn[k].token, k) PROVE Reaches(task[q], conn[k].token, k)'
      <4>1. q # p
        BY <1>0, <3>2 DEF Reaches
      <4>2. /\ task'[q].pc = task[q].pc /\ task'[q].op = task[q].op /\ task'[q].token = task[q].token
            /\ task'[q].todo = task[q].todo
        BY <1>2, <1>5, <4>1
      <4> QED
        BY <1>0, <3>1, <3>2, <4>2 DEF Reaches
    <3> QED
      BY <2>1, <3>1, <3>2 DEF Copied
  <2>4. ASSUME NEW q \in Tasks PROVE HeldBy(task[q])'
    <3>1. HeldBy(tasks[q]) /\ tasks[q] \in TaskRecords
          /\ (tasks[q].pc \in {"refresh", "store", "find", "spread", "copy"} \/ tasks[q].op \in {"use", "connect"}
                => tasks[q].token \in Tokens)
      <4>1. CASE q # p
        BY <1>2, <2>1, <4>1 DEF Held, TasksGood, GoodTask
      <4>2. CASE q = p /\ r = NoWork
        BY <1>2, <4>2, ConnConstants DEF HeldBy
      <4>3. CASE q = p /\ r # NoWork
        BY <1>0, <1>2, <1>7, <2>1, <4>3 DEF Held, HeldBy, GoodTask
      <4> QED
        BY <4>1, <4>2, <4>3
    <3>2. tasks[q].todo \subseteq Conns
      BY <3>1 DEF TaskRecords
    <3>3. tasks[q].op \in {"use", "connect"} /\ task'[q].orphaned => ~token'[tasks[q].token].row
      BY <1>4, <1>6, <3>1 DEF HeldBy
    <3> QED
      BY <1>0, <1>5, <1>6, <3>1, <3>2, <3>3 DEF HeldBy
  <2> QED
    BY <2>2, <2>3, <2>4 DEF Held
<1> QED
  BY <1>9, <1>10 DEF CopyParts

\* A connection is made with what its token holds, or removed.
LEMMA CopyMade ==
    ASSUME ConnTypes, TasksGood, CopyParts, ConnsExist, NEW p \in Tasks,
           CopyToken(p) /\ HoldsRow(p)
    PROVE  CopyParts'
<1> USE DEF connHistory, Doing
<1>0. task[p] \in TaskRecords /\ GoodTask(task[p])
  BY DEF ConnTypes, TasksGood
<1> DEFINE k == task[p].conn
           t == task[p].token
           r == [task[p] EXCEPT !.pc = "markShared"]
<1>1. /\ UNCHANGED <<rotates, token, apart>> /\ task[p].pc = "copy" /\ task[p].op = "promote"
      /\ t \in Tokens /\ token[t].row /\ k \in Conns /\ conn[k].row = "unused"
      /\ \A q \in Tasks : task[q].conn = k => q = p
      /\ task' = [task EXCEPT ![p] = r]
      /\ conn' = [conn EXCEPT ![k] = [row |-> "on", token |-> t, cred |-> task[p].cred, fresh |-> TRUE]]
  BY <1>0, ConnConstants DEF CopyToken, GoodTask, TaskRecords, HoldsRow, ConnsExist, Onto
<1>2. /\ r \in TaskRecords /\ r.pc = "markShared" /\ r.op = "promote" /\ r.token = t
      /\ r.conn = k /\ r.todo = task[p].todo
  BY <1>0, <1>1 DEF TaskRecords, TaskPcs
<1>3. /\ task' \in [Tasks -> TaskRecords] /\ task'[p] = r
      /\ \A q \in Tasks : q # p => task'[q] = task[q]
  BY <1>1, <1>2, TaskMoves DEF ConnTypes
<1> HIDE DEF r
<1>4. /\ conn'[k].row = "on" /\ conn'[k].token = t /\ conn'[k].cred = task[p].cred
      /\ \A j \in Conns : j # k => conn'[j] = conn[j]
  BY <1>1 DEF ConnTypes, RowsTyped
<1>5. RowKeys'
  <2>1. \A j \in Conns : /\ conn'[j].row = "unused" => conn'[j].token = NoToken
                         /\ conn'[j].token # NoToken => token'[conn'[j].token].row
    BY <1>1, <1>4 DEF CopyParts, RowKeys
  <2> QED
    BY <1>1, <1>2, <1>3, <2>1 DEF CopyParts, RowKeys
<1>6. ASSUME ~apart' PROVE NoOverlap' /\ Copied' /\ Held'
  <2>1. ~apart /\ NoOverlap /\ Copied /\ Held
    BY <1>1, <1>6 DEF CopyParts
  <2>2. HeldBy(task[p])
    BY <2>1 DEF Held
  <2>3. NoOverlap'
    BY <1>1, <1>2, <1>3, <2>1 DEF NoOverlap, Clash
  <2>4. Copied'
    <3> SUFFICES ASSUME NEW j \in Conns, conn'[j].row = "on", conn'[j].token # NoToken
                 PROVE  \/ conn'[j].cred = token[conn'[j].token].cred
                        \/ \E q \in Tasks : Reaches(task[q], conn[j].token, j)'
      BY <1>1 DEF Copied
    <3>1. CASE j = k
      BY <1>1, <1>4, <2>2, <3>1 DEF HeldBy
    <3>2. CASE j # k
      <4>1. \A q \in Tasks : Reaches(task[q], conn[j].token, j) => q # p
        BY <1>1 DEF Reaches
      <4>2. \A q \in Tasks : Reaches(task[q], conn[j].token, j) => Reaches(task[q], conn[j].token, j)'
        BY <1>1, <1>3, <1>4, <3>2, <4>1 DEF Reaches
      <4> QED
        BY <1>4, <2>1, <3>2, <4>2 DEF Copied
    <3> QED
      BY <3>1, <3>2
  <2>5. ASSUME NEW q \in Tasks, q # p PROVE HeldBy(task[q])'
    <3>1. HeldBy(task[q]) /\ task'[q] = task[q] /\ task[q].todo \subseteq Conns /\ task[q].conn # k
      BY <1>1, <1>3, <2>1, <2>5 DEF Held, ConnTypes, TaskRecords
    <3>2. k \notin task[q].todo
      BY <1>1, <3>1 DEF HeldBy
    <3> QED
      BY <1>1, <1>4, <3>1, <3>2 DEF HeldBy
  <2>6. HeldBy(task[p])'
    <3>1. r.todo = {}
      BY <1>1, <1>2, <2>2 DEF HeldBy
    <3> QED
      BY <1>2, <1>3, <3>1 DEF HeldBy
  <2> QED
    BY <2>3, <2>4, <2>5, <2>6 DEF Held
<1> QED
  BY <1>5, <1>6 DEF CopyParts

LEMMA CopyDropped ==
    ASSUME ConnTypes, TasksGood, CopyParts, ConnsExist, NEW p \in Tasks, DropConnection(p)
    PROVE  CopyParts'
<1> USE DEF connHistory, Doing
<1>0. task[p] \in TaskRecords /\ GoodTask(task[p])
  BY DEF ConnTypes, TasksGood
<1> DEFINE k == task[p].conn
           r == [task[p] EXCEPT !.pc = "check"]
<1>1. /\ UNCHANGED <<rotates, token, apart>> /\ task[p].pc = "drop" /\ k \in Conns
      /\ conn[k].row # "unused" /\ task[p].op \in {"shared", "remove"}
      /\ task' = [task EXCEPT ![p] = r] /\ conn' = [conn EXCEPT ![k].row = "gone"]
  BY <1>0, ConnConstants DEF DropConnection, GoodTask, TaskRecords, ConnsExist, Onto
<1>2. /\ r \in TaskRecords /\ r.pc = "check" /\ r.op = task[p].op /\ r.token = task[p].token
      /\ r.conn = k /\ r.todo = task[p].todo /\ r.orphaned = task[p].orphaned
  BY <1>0, <1>1 DEF TaskRecords, TaskPcs
<1>3. /\ task' \in [Tasks -> TaskRecords] /\ task'[p] = r
      /\ \A q \in Tasks : q # p => task'[q] = task[q]
  BY <1>1, <1>2, TaskMoves DEF ConnTypes
<1> HIDE DEF r
<1>4. /\ \A j \in Conns : conn'[j].token = conn[j].token /\ conn'[j].cred = conn[j].cred
      /\ \A j \in Conns : j # k => conn'[j].row = conn[j].row
      /\ conn'[k].row = "gone"
  BY <1>1 DEF ConnTypes, RowsTyped, ConnRecords
<1>5. RowKeys'
  <2>1. \A j \in Conns : /\ conn'[j].row = "unused" => conn'[j].token = NoToken
                         /\ conn'[j].token # NoToken => token'[conn'[j].token].row
    BY <1>1, <1>4 DEF CopyParts, RowKeys
  <2> QED
    BY <1>1, <1>2, <1>3, <2>1 DEF CopyParts, RowKeys
<1>6. ASSUME ~apart' PROVE NoOverlap' /\ Copied' /\ Held'
  <2>1. ~apart /\ NoOverlap /\ Copied /\ Held
    BY <1>1, <1>6 DEF CopyParts
  <2>2. NoOverlap'
    BY <1>1, <1>2, <1>3, <2>1 DEF NoOverlap, Clash
  <2>3. Copied'
    <3> SUFFICES ASSUME NEW j \in Conns, conn'[j].row = "on", conn[j].token # NoToken
                 PROVE  \/ conn[j].cred = token[conn[j].token].cred
                        \/ \E q \in Tasks : Reaches(task[q], conn[j].token, j)'
      BY <1>1, <1>4 DEF Copied
    <3>1. j # k /\ conn[j].row = "on"
      BY <1>4
    <3>2. \A q \in Tasks : Reaches(task[q], conn[j].token, j) => q # p
      BY <1>1 DEF Reaches
    <3>3. \A q \in Tasks : Reaches(task[q], conn[j].token, j) => Reaches(task[q], conn[j].token, j)'
      BY <1>1, <1>3, <1>4, <3>2 DEF Reaches
    <3> QED
      BY <2>1, <3>1, <3>3 DEF Copied
  <2>4. ASSUME NEW q \in Tasks PROVE HeldBy(task[q])'
    <3>1. HeldBy(task[q]) /\ task[q].todo \subseteq Conns
      BY <2>1 DEF Held, ConnTypes, TaskRecords
    <3>2. CASE q # p
      BY <1>1, <1>3, <1>4, <3>1, <3>2 DEF HeldBy
    <3>3. CASE q = p
      BY <1>1, <1>2, <1>3, <1>4, <3>1, <3>3 DEF HeldBy
    <3> QED
      BY <3>2, <3>3
  <2> QED
    BY <2>2, <2>3, <2>4 DEF Held
<1> QED
  BY <1>5, <1>6 DEF CopyParts

LEMMA CopyLost ==
    ASSUME ConnTypes, CopyParts, NEW P \in SUBSET Tasks, TasksCutOff(P)
    PROVE  CopyParts'
<1>1. /\ UNCHANGED <<token, conn>> /\ apart' = TRUE
      /\ task' = [p \in Tasks |-> IF p \in P THEN NoWork ELSE task[p]]
  BY DEF TasksCutOff
<1>2. \A q \in Tasks : task'[q].pc = "insert" => task'[q] = task[q]
  BY <1>1, ConnConstants
<1> QED
  BY <1>1, <1>2 DEF CopyParts, RowKeys

LEMMA CopyStill ==
    ASSUME ConnTypes, TasksGood, CopyParts, SameRows, UNCHANGED <<rotates, task, apart>>
    PROVE  CopyParts'
<1>1. \A k \in Conns : conn[k].token \in Tokens \cup {NoToken}
  BY DEF ConnTypes, RowsTyped, ConnRecords
<1>2. RowKeys'
  BY <1>1 DEF CopyParts, RowKeys, SameRows, TasksGood, GoodTask
<1>3. ASSUME ~apart' PROVE NoOverlap' /\ Copied' /\ Held'
  <2>1. NoOverlap /\ Copied /\ Held
    BY <1>3 DEF CopyParts
  <2>2. NoOverlap'
    BY <2>1 DEF NoOverlap, Clash
  <2>3. Copied'
    BY <1>1, <2>1 DEF Copied, Reaches, SameRows
  <2>4. ASSUME NEW q \in Tasks PROVE HeldBy(task[q])'
    <3>1. HeldBy(task[q]) /\ GoodTask(task[q]) /\ task[q] \in TaskRecords
      BY <2>1 DEF Held, TasksGood, ConnTypes
    <3> QED
      BY <3>1, HeldSame
  <2> QED
    BY <2>2, <2>3, <2>4 DEF Held
<1> QED
  BY <1>2, <1>3 DEF CopyParts

LEMMA CopyInit == ConnectionsInit => CopyParts
<1> SUFFICES ASSUME ConnectionsInit PROVE CopyParts
  OBVIOUS
<1>1. \A p \in Tasks : task[p] = NoWork
  BY DEF ConnectionsInit
<1>2. \A k \in Conns : conn[k].row = "unused" /\ conn[k].token = NoToken
  BY DEF ConnectionsInit
<1>3. RowKeys
  BY <1>1, <1>2, ConnConstants DEF RowKeys
<1>4. NoOverlap /\ Copied /\ Held
  BY <1>1, <1>2, ConnConstants DEF NoOverlap, Clash, Copied, Held, HeldBy
<1> QED
  BY <1>3, <1>4 DEF CopyParts

LEMMA CopyNext ==
    ASSUME ConnTypes, RefreshParts, TasksGood', CopyParts, [ConnectionsNext]_connVars
    PROVE  CopyParts'
<1>0. TasksGood /\ CredsNumbered /\ ConnsExist
  BY DEF RefreshParts
<1>1. ASSUME NEW p \in Tasks, Begin(p) PROVE CopyParts'
  <2>1. \E r : CopyMove(p, r)
    BY <1>0, <1>1, CopyBegins
  <2> QED
    BY <1>0, <2>1, CopyMoveStep
<1>2. ASSUME NEW p \in Tasks, TaskStep(p) PROVE CopyParts'
  <2>1. CASE RefreshToken(p) \/ RefreshConnection(p)
    <3>1. \E r : CopyMove(p, r)
      BY <1>0, <2>1, CopyRefreshes
    <3> QED
      BY <1>0, <3>1, CopyMoveStep
  <2>2. CASE \/ RevokeOld(p) \/ CallApi(p) \/ (StoreToken(p) /\ ~HoldsRow(p)) \/ FindConnections(p) \/ Spread(p)
             \/ LockConnection(p) \/ LoadConnection(p) \/ \E k \in Conns : SpreadFails(p, k)
    <3>1. \E r : CopyMove(p, r)
      BY <1>0, <2>2, CopyReads
    <3> QED
      BY <1>0, <3>1, CopyMoveStep
  <2>3. CASE \/ MarkStale(p) \/ MarkShared(p) \/ CheckShared(p) \/ MarkUnshared(p)
             \/ (CopyToken(p) /\ ~HoldsRow(p))
    <3>1. \E r : CopyMove(p, r)
      BY <1>0, <2>3, CopyWorkflow
    <3> QED
      BY <1>0, <3>1, CopyMoveStep
  <2>4. CASE (StoreToken(p) /\ HoldsRow(p)) \/ InsertToken(p)
    BY <1>0, <2>4, CopyTokenWritten
  <2>5. CASE \E k \in Conns : SpreadTo(p, k)
    BY <1>0, <2>5, CopySpread
  <2>6. CASE DeleteToken(p) \/ PurgeNewest(p)
    BY <1>0, <2>6, CopyDeletes
  <2>7. CASE CopyToken(p) /\ HoldsRow(p)
    BY <1>0, <2>7, CopyMade
  <2>8. CASE DropConnection(p)
    BY <1>0, <2>8, CopyDropped
  <2>9. CASE StoreConnection(p)
    BY <1>0, <2>9, CopyStored
  <2> QED
    BY <1>2, <2>1, <2>2, <2>3, <2>4, <2>5, <2>6, <2>7, <2>8, <2>9 DEF TaskStep
<1>3. ASSUME NEW p \in Tasks, TaskFails(p) PROVE CopyParts'
  BY <1>3, CopyLost DEF TaskFails
<1>4. ASSUME NEW s \in OAuthServers, StopServer(s) PROVE CopyParts'
  BY <1>4, CopyLost DEF StopServer
<1>5. ASSUME NEW t \in Tokens, WithdrawGrant(t) \/ ExpireToken(t) PROVE CopyParts'
  <2>1. UNCHANGED <<rotates, conn, task, apart>>
    BY <1>5 DEF WithdrawGrant, ExpireToken, atProvider, connHistory
  <2>2. SameRows
    <3>1. CASE WithdrawGrant(t)
      BY <3>1, RowsAlone DEF WithdrawGrant
    <3>2. CASE ExpireToken(t)
      BY <2>1, <3>2 DEF ExpireToken, ConnTypes, RowsTyped, TokenRecords, SameRows
    <3> QED
      BY <1>5, <3>1, <3>2
  <2> QED
    BY <1>0, <2>1, <2>2, CopyStill
<1>6. ASSUME NEW k \in Conns, ExpireConnection(k) PROVE CopyParts'
  <2>1. UNCHANGED <<rotates, token, task, apart>>
    BY <1>6 DEF ExpireConnection, atProvider, connHistory
  <2>2. SameRows
    BY <1>6, <2>1 DEF ExpireConnection, ConnTypes, RowsTyped, ConnRecords, SameRows
  <2> QED
    BY <1>0, <2>1, <2>2, CopyStill
<1>7. CASE UNCHANGED connVars
  <2>1. UNCHANGED <<rotates, token, conn, task, apart>>
    BY <1>7 DEF connVars
  <2> QED
    BY <1>0, <2>1, RowsAlone, CopyStill
<1> QED
  BY <1>1, <1>2, <1>3, <1>4, <1>5, <1>6, <1>7 DEF ConnectionsNext

\* With every task idle nothing is being propagated, so the copies hold their token's
\* credential.
LEMMA CopiesUsable == TasksGood /\ ~selfRefused /\ CopyParts => SharedCopiesStayUsable
<1> SUFFICES ASSUME TasksGood, ~selfRefused, CopyParts, ~apart, \A p \in Tasks : task[p].pc = "idle",
                    NEW k \in Conns, conn[k].row = "on", conn[k].token # NoToken
             PROVE  conn[k].cred = token[conn[k].token].cred
  BY DEF SharedCopiesStayUsable, Doing
<1>1. \A p \in Tasks : ~Reaches(task[p], conn[k].token, k)
  BY DEF Reaches
<1> QED
  BY <1>1 DEF CopyParts, Copied

\* ensure_valid_workspace_token never presents a refresh token that a refresh of the
\* same connection has spent, where what that one got could be stored and no
\* propagation wrote the spent one back: the mutex and the read under it suffice, for
\* any number of accounts, connections, servers and tasks.  And unless calls overlapped, a propagation failed or a connection rotated its own token,
\* store_authorization and refresh_record_tokens leave every workspace connection with
\* the credential of its personal token once nothing is in progress.
THEOREM SharedCopiesUsable == ConnectionsSpec => []SharedCopiesStayUsable
<1> DEFINE I == ConnTypes /\ RefreshParts /\ CopyParts
<1>1. ConnectionsInit => I
  BY ConnInitTypes, RefreshInit, CopyInit
<1>2. I /\ [ConnectionsNext]_connVars => I'
  <2> SUFFICES ASSUME I, [ConnectionsNext]_connVars PROVE I'
    OBVIOUS
  <2>1. ConnTypes' /\ RefreshParts'
    BY RefreshNext
  <2>2. TasksGood'
    BY <2>1 DEF RefreshParts
  <2>3. CopyParts'
    BY <2>2, CopyNext
  <2> QED
    BY <2>1, <2>3
<1>3. I => SharedCopiesStayUsable
  BY CopiesUsable DEF RefreshParts
<1> QED
  BY <1>1, <1>2, <1>3, PTL DEF ConnectionsSpec

=============================================================================

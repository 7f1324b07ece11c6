------------------------------- MODULE Billing -------------------------------
(***************************************************************************)
(* The plan of one user and of the workspaces the user owns, against the   *)
(* subscriptions Stripe has for the user.  Stripe's events arrive late, in *)
(* any order and more than once; the handler's statements are not in the   *)
(* transaction that logs the event.  Requests of the user interleave with  *)
(* the handlers.  A checkout session names the subscription it pays for    *)
(* and the customer that was created for it, if one was.                   *)
(***************************************************************************)
EXTENDS Integers, FiniteSets

CONSTANTS
    Checkouts,        \* checkout sessions
    None,            \* no session, subscription or customer
    Handlers,        \* deliveries being handled at once
    Requests,        \* requests of the user being served at once
    MaxBillFaults    \* bound: failed statements or calls and stopped servers

ASSUME BillingAssumption ==
    /\ IsFiniteSet(Checkouts) /\ IsFiniteSet(Handlers) /\ IsFiniteSet(Requests)
    /\ None \notin Checkouts /\ MaxBillFaults \in Nat

VARIABLES
    userPlan,     \* users.plan
    workspace,    \* the user's personal workspace: plan, overage item, billing cycle
    extra,        \* the plan of a workspace a checkout created, "none" for none
    customer,     \* users.stripe_customer_id
    pending,      \* settings.billing.pending_checkout
    stripe,       \* per session: its state, its customer and its subscription
    events,       \* events Stripe has sent
    logged,       \* the rows of the event log
    handler,      \* the webhook handlers
    request,      \* the user's requests
    declined,     \* history: sessions with a failed payment attempt
    upset,        \* history: a fault was swallowed or a checkout met other changes
    billFaults    \* faults that may still happen

billingVars == <<userPlan, workspace, extra, customer, pending, stripe, events, logged, handler,
                 request, declined, upset, billFaults>>
planVars == <<userPlan, workspace, extra>>

Plans == {"solo", "workspace"}
Kinds == {"completed", "expired", "declined", "invoice", "updated", "canceled", "deleted"}
Events == [kind: Kinds, session: Checkouts]
Idle == [pc |-> "idle", event |-> None]
NoRequest == [pc |-> "idle", session |-> None]

BillingTypeOK ==
    /\ userPlan \in Plans /\ extra \in Plans \cup {"none"}
    /\ workspace \in [plan: Plans, item: Checkouts \cup {None}, cycle: Checkouts \cup {None}]
    /\ customer \in Checkouts \cup {None} /\ pending \in Checkouts \cup {None}
    /\ stripe \in [Checkouts -> [session: {"none", "open", "paid", "expired"},
                                sub: {"none", "active", "canceling", "ended"},
                                customer: Checkouts \cup {None}]]
    /\ events \subseteq Events /\ logged \subseteq events
    /\ handler \in [Handlers -> [pc: {"idle", "resolve", "settings", "subscription", "workspace",
                                      "user", "item", "clear", "sync", "fail", "unlink", "soloUser",
                                      "soloOwned", "record"},
                                 event: Events \cup {None}]]
    /\ request \in [Requests -> [pc: {"idle", "save", "soloOwned", "soloUser", "revertUser",
                                      "revertOwned"},
                                 session: Checkouts \cup {None}]]
    /\ declined \subseteq Checkouts /\ upset \in BOOLEAN
    /\ billFaults \in 0..MaxBillFaults

BillingInit ==
    /\ userPlan = "solo" /\ extra = "none"
    /\ workspace = [plan |-> "solo", item |-> None, cycle |-> None]
    /\ customer = None /\ pending = None
    /\ stripe = [s \in Checkouts |-> [session |-> "none", sub |-> "none", customer |-> None]]
    /\ events = {} /\ logged = {}
    /\ handler = [h \in Handlers |-> Idle]
    /\ request = [q \in Requests |-> NoRequest]
    /\ declined = {} /\ upset = FALSE
    /\ billFaults = MaxBillFaults

----------------------------------------------------------------------------
Event(kind, s) == [kind |-> kind, session |-> s]
Live(s) == stripe[s].sub \in {"active", "canceling"}

\* get_active_subscription_for_customer.
ActiveFor(c) == {s \in Checkouts : c # None /\ stripe[s].customer = c /\ Live(s)}

\* Nothing is under way and every event is handled.
Quiet ==
    /\ \A h \in Handlers : handler[h].pc = "idle"
    /\ \A q \in Requests : request[q].pc = "idle"
    /\ events = logged

\* A checkout is open or its completion is not yet handled.
CheckoutUnderWay ==
    \E s \in Checkouts : stripe[s].session = "open"
                        \/ Event("completed", s) \in events \ logged
SoloPcs == {"soloOwned", "soloUser", "revertUser", "revertOwned"}

SoloOwned == /\ workspace' = [workspace EXCEPT !.plan = "solo", !.cycle = None]
             /\ extra' = IF extra = "none" THEN "none" ELSE "solo"

\* sync_owned_workspace_billing_cycles: owned workspaces on the workspace plan.
Synced(s) == IF workspace.plan = "workspace" THEN [workspace EXCEPT !.cycle = s] ELSE workspace

----------------------------------------------------------------------------
(* Stripe, as the code uses it. *)

Pay(s) ==
    /\ stripe[s].session = "open"
    /\ stripe' = [stripe EXCEPT ![s].session = "paid", ![s].sub = "active"]
    /\ events' = events \cup {Event("completed", s)}
    /\ upset' = (upset \/ \E q \in Requests : request[q].pc # "idle")
    /\ UNCHANGED <<planVars, customer, pending, logged, handler, request, declined, billFaults>>

\* checkout.session.expired, checkout.session.async_payment_failed.
Expire(s) ==
    /\ stripe[s].session = "open"
    /\ stripe' = [stripe EXCEPT ![s].session = "expired"]
    /\ events' = events \cup {Event("expired", s)}
    /\ UNCHANGED <<planVars, customer, pending, logged, handler, request, declined, upset, billFaults>>

\* payment_intent.payment_failed: an attempt fails, the session stays open.
Decline(s) ==
    /\ stripe[s].session = "open"
    /\ events' = events \cup {Event("declined", s)}
    /\ declined' = declined \cup {s}
    /\ UNCHANGED <<planVars, customer, pending, stripe, logged, handler, request, upset, billFaults>>

\* invoice.payment_failed, when a renewal fails.
FailRenewal(s) ==
    /\ Live(s)
    /\ events' = events \cup {Event("invoice", s)}
    /\ upset' = (upset \/ CheckoutUnderWay)
    /\ UNCHANGED <<planVars, customer, pending, stripe, logged, handler, request, declined,
                   billFaults>>

\* The period of a canceled subscription ends, or it is canceled at once.
EndSubscription(s) ==
    /\ Live(s)
    /\ stripe' = [stripe EXCEPT ![s].sub = "ended"]
    /\ events' = events \cup {Event("deleted", s)}
                        \cup (IF stripe[s].sub = "active" THEN {Event("canceled", s)} ELSE {})
    /\ upset' = (upset \/ CheckoutUnderWay)
    /\ UNCHANGED <<planVars, customer, pending, logged, handler, request, declined, billFaults>>

----------------------------------------------------------------------------
(* The webhook. *)

\* An event that is not logged is delivered; the advisory lock on its id keeps
\* a second delivery waiting until the first one's transaction ends.
Deliver(h, e) ==
    /\ handler[h].pc = "idle" /\ e \in events \ logged
    /\ \A g \in Handlers : handler[g].event # e
    /\ handler' = [handler EXCEPT ![h] = [pc |-> "resolve", event |-> e]]
    /\ UNCHANGED <<planVars, customer, pending, stripe, events, logged, request, declined, upset,
                   billFaults>>

To(h, pc) == handler' = [handler EXCEPT ![h].pc = pc]
HandlerAt(h, pc) == handler[h].pc = pc
SessionOf(h) == handler[h].event.session

\* The user of a checkout event is in its metadata, of others found by the
\* customer.  An event of no known user is acknowledged.
ResolveUser(h) ==
    LET e == handler[h].event
        known == e.kind \in {"completed", "expired"} \/ customer = stripe[e.session].customer
    IN  /\ HandlerAt(h, "resolve")
        /\ To(h, CASE ~known -> "record"
                   [] e.kind = "completed" -> "settings"
                   [] e.kind \in {"expired", "declined", "invoice"} -> "fail"
                   [] e.kind = "updated" -> "sync"
                   [] e.kind = "canceled" -> "soloUser"
                   [] OTHER -> "unlink")
        /\ UNCHANGED <<planVars, customer, pending, stripe, events, logged, request, declined, upset,
                       billFaults>>

\* get_user_settings: a session that is not the pending one is acknowledged;
\* the customer id of the others is stored.
MatchPending(h) ==
    LET s == SessionOf(h) IN
    /\ HandlerAt(h, "settings")
    /\ IF pending = s
         THEN To(h, "subscription") /\ customer' = stripe[s].customer
         ELSE To(h, "record") /\ UNCHANGED customer
    /\ UNCHANGED <<planVars, pending, stripe, events, logged, request, declined, upset, billFaults>>

\* get_subscription.
LoadSubscription(h) ==
    /\ HandlerAt(h, "subscription") /\ To(h, "workspace")
    /\ UNCHANGED <<planVars, customer, pending, stripe, events, logged, request, declined, upset,
                   billFaults>>

\* An owned workspace on the solo plan is promoted; without one the first is kept.
PromoteWorkspace(h) ==
    /\ HandlerAt(h, "workspace") /\ To(h, "user")
    /\ IF workspace.plan = "solo"
         THEN workspace' = [workspace EXCEPT !.plan = "workspace"] /\ UNCHANGED extra
         ELSE extra' = (IF extra = "solo" THEN "workspace" ELSE extra) /\ UNCHANGED workspace
    /\ UNCHANGED <<userPlan, customer, pending, stripe, events, logged, request, declined, upset,
                   billFaults>>

PromoteUser(h) ==
    /\ HandlerAt(h, "user") /\ To(h, "item")
    /\ userPlan' = "workspace"
    /\ UNCHANGED <<workspace, extra, customer, pending, stripe, events, logged, request, declined,
                   upset, billFaults>>

\* set_stripe_overage_item_id, only when there is none: one of an earlier
\* subscription stays.
SetOverageItem(h) ==
    /\ HandlerAt(h, "item") /\ To(h, "clear")
    /\ workspace' = [workspace EXCEPT !.item = IF @ = None THEN SessionOf(h) ELSE @]
    /\ UNCHANGED <<userPlan, extra, customer, pending, stripe, events, logged, request, declined,
                   upset, billFaults>>

\* update_user_settings with the pending checkout of the settings read before
\* set to null.
ClearPending(h) ==
    /\ HandlerAt(h, "clear") /\ To(h, "sync")
    /\ pending' = None
    /\ UNCHANGED <<planVars, customer, stripe, events, logged, request, declined, upset, billFaults>>

SyncCycles(h) ==
    /\ HandlerAt(h, "sync") /\ To(h, "record")
    /\ workspace' = Synced(SessionOf(h))
    /\ UNCHANGED <<userPlan, extra, customer, pending, stripe, events, logged, request, declined,
                   upset, billFaults>>

\* clear_pending_checkout_with_error; a failed renewal downgrades nothing.
RecordFailure(h) ==
    /\ HandlerAt(h, "fail")
    /\ pending' = None
    /\ To(h, IF handler[h].event.kind = "invoice" THEN "record" ELSE "soloUser")
    /\ UNCHANGED <<planVars, customer, stripe, events, logged, request, declined, upset, billFaults>>

\* clear_stripe_customer_id.
UnlinkCustomer(h) ==
    /\ HandlerAt(h, "unlink") /\ To(h, "soloUser")
    /\ customer' = None
    /\ UNCHANGED <<planVars, pending, stripe, events, logged, request, declined, upset, billFaults>>

HandlerSoloUser(h) ==
    /\ HandlerAt(h, "soloUser") /\ To(h, "soloOwned")
    /\ userPlan' = "solo"
    /\ UNCHANGED <<workspace, extra, customer, pending, stripe, events, logged, request, declined,
                   upset, billFaults>>

HandlerSoloOwned(h) ==
    /\ HandlerAt(h, "soloOwned") /\ To(h, "record")
    /\ SoloOwned
    /\ UNCHANGED <<userPlan, customer, pending, stripe, events, logged, request, declined, upset,
                   billFaults>>

\* record_event and the commit.
RecordEvent(h) ==
    /\ HandlerAt(h, "record")
    /\ logged' = logged \cup {handler[h].event}
    /\ handler' = [handler EXCEPT ![h] = Idle]
    /\ UNCHANGED <<planVars, customer, pending, stripe, events, request, declined, upset, billFaults>>

\* Mutant: an event whose handler fails is logged all the same.
FailAndRecord(h) ==
    /\ billFaults > 0 /\ handler[h].pc \in {"resolve", "subscription", "item", "record"}
    /\ billFaults' = billFaults - 1
    /\ logged' = logged \cup {handler[h].event}
    /\ handler' = [handler EXCEPT ![h] = Idle]
    /\ UNCHANGED <<planVars, customer, pending, stripe, events, request, declined, upset>>

\* Answered with 500 (no subscription, no overage item, no log row), or the
\* server stops: the event is not logged and Stripe sends it again.  A deletion
\* that has unlinked the customer will not find its user again.
FailDelivery(h) ==
    /\ billFaults > 0 /\ handler[h].pc # "idle"
    /\ billFaults' = billFaults - 1
    /\ handler' = [handler EXCEPT ![h] = Idle]
    /\ upset' = (upset \/ (handler[h].event.kind = "deleted" /\ handler[h].pc \in SoloPcs))
    /\ UNCHANGED <<planVars, customer, pending, stripe, events, logged, request, declined>>

\* A failure that is logged and passed over: unknown user or settings end the
\* handling with success, a write is skipped.
SwallowFailure(h) ==
    LET pc == handler[h].pc
        after == CASE pc \in {"resolve", "settings", "soloOwned", "sync"} -> "record"
                   [] pc = "workspace" -> "user" [] pc = "user" -> "item" [] pc = "clear" -> "sync"
                   [] pc = "fail" -> IF handler[h].event.kind = "invoice" THEN "record" ELSE "soloUser"
                   [] pc = "unlink" -> "soloUser" [] OTHER -> "soloOwned"
    IN  /\ billFaults > 0
        /\ pc \in {"resolve", "settings", "workspace", "user", "clear", "sync", "fail", "unlink",
                   "soloUser", "soloOwned"}
        /\ billFaults' = billFaults - 1 /\ upset' = TRUE
        /\ To(h, after)
        \* memberships unknown or the promotion failed: another workspace is created
        /\ extra' = IF pc = "workspace" THEN "workspace" ELSE extra
        /\ UNCHANGED <<userPlan, workspace, customer, pending, stripe, events, logged, request,
                       declined>>

----------------------------------------------------------------------------
(* Requests of the user. *)

\* process_plan_change to the workspace plan: the customer, then the session.
StartCheckout(q, s) ==
    LET c == IF customer = None THEN s ELSE customer IN
    /\ request[q].pc = "idle" /\ stripe[s].session = "none"
    /\ customer' = c
    /\ stripe' = [stripe EXCEPT ![s] = [session |-> "open", sub |-> "none", customer |-> c]]
    /\ request' = [request EXCEPT ![q] = [pc |-> "save", session |-> s]]
    /\ upset' = (upset \/ ~Quiet \/ CheckoutUnderWay \/ \E t \in Checkouts : Live(t))
    /\ UNCHANGED <<planVars, pending, events, logged, handler, declined, billFaults>>

SavePending(q) ==
    /\ request[q].pc = "save"
    /\ pending' = request[q].session
    /\ request' = [request EXCEPT ![q] = NoRequest]
    /\ UNCHANGED <<planVars, customer, stripe, events, logged, handler, declined, upset, billFaults>>

\* process_plan_change to solo: an active subscription is canceled at the end of
\* its period and the plan stays; a failed lookup counts as no subscription.
ChangeToSolo(q) ==
    LET subs == IF workspace.plan = "workspace" \/ extra = "workspace"
                  THEN ActiveFor(customer) ELSE {}
    IN  /\ request[q].pc = "idle"
        /\ \/ \E s \in subs :
                /\ stripe' = [stripe EXCEPT ![s].sub = "canceling"]
                /\ events' = events \cup (IF stripe[s].sub = "active" THEN {Event("updated", s)} ELSE {})
                /\ UNCHANGED <<request, upset, billFaults>>
           \/ /\ subs = {} \/ billFaults > 0
              /\ billFaults' = IF subs = {} THEN billFaults ELSE billFaults - 1
              /\ request' = [request EXCEPT ![q].pc = "soloOwned"]
              /\ upset' = (upset \/ subs # {} \/ CheckoutUnderWay)
              /\ UNCHANGED <<stripe, events>>
        /\ UNCHANGED <<planVars, customer, pending, logged, handler, declined>>

\* get_onboarding_context and resolve_plan_tier: on the workspace plan, with no
\* pending checkout and no active subscription, the plan is reverted.  Only the
\* former takes a failed lookup for no subscription.
Reconcile(q) ==
    LET subs == ActiveFor(customer) IN
    /\ request[q].pc = "idle"
    /\ \/ /\ \E s \in subs : workspace' = Synced(s)
          /\ UNCHANGED <<request, upset, billFaults>>
       \/ /\ userPlan = "workspace" /\ pending = None
          /\ subs = {} \/ billFaults > 0
          /\ billFaults' = IF subs = {} THEN billFaults ELSE billFaults - 1
          /\ request' = [request EXCEPT ![q].pc = "revertUser"]
          /\ upset' = (upset \/ subs # {} \/ CheckoutUnderWay)
          /\ UNCHANGED workspace
    /\ UNCHANGED <<userPlan, extra, customer, pending, stripe, events, logged, handler, declined>>

\* The change writes the workspaces first, the reconciliation the user.
RequestSoloOwned(q) ==
    /\ request[q].pc \in {"soloOwned", "revertOwned"}
    /\ SoloOwned
    /\ request' = [request EXCEPT ![q].pc = IF @ = "soloOwned" THEN "soloUser" ELSE "idle"]
    /\ UNCHANGED <<userPlan, customer, pending, stripe, events, logged, handler, declined, upset,
                   billFaults>>

RequestSoloUser(q) ==
    /\ request[q].pc \in {"soloUser", "revertUser"}
    /\ userPlan' = "solo"
    /\ request' = [request EXCEPT ![q].pc = IF @ = "revertUser" THEN "revertOwned" ELSE "idle"]
    /\ UNCHANGED <<workspace, extra, customer, pending, stripe, events, logged, handler, declined,
                   upset, billFaults>>

\* workspace_to_solo_execute, once the other members are gone (Membership): the
\* user's plan alone, neither the workspaces nor the subscription.
ConvertToSolo(q) ==
    /\ request[q].pc = "idle"
    /\ userPlan' = "solo"
    /\ upset' = (upset \/ userPlan = "workspace" \/ CheckoutUnderWay)
    /\ UNCHANGED <<workspace, extra, customer, pending, stripe, events, logged, handler, request,
                   declined, billFaults>>

\* resume_workspace_subscription.
Resume(q) ==
    /\ request[q].pc = "idle"
    /\ \E s \in ActiveFor(customer) :
         /\ stripe' = [stripe EXCEPT ![s].sub = "active"]
         /\ events' = events \cup {Event("updated", s)}
         /\ workspace' = Synced(s)
    /\ UNCHANGED <<userPlan, extra, customer, pending, logged, handler, request, declined, upset,
                   billFaults>>

\* The request fails or its server stops.
FailRequest(q) ==
    /\ billFaults > 0 /\ request[q].pc # "idle"
    /\ billFaults' = billFaults - 1 /\ upset' = TRUE
    /\ request' = [request EXCEPT ![q] = NoRequest]
    /\ UNCHANGED <<planVars, customer, pending, stripe, events, logged, handler, declined>>

----------------------------------------------------------------------------
BillingNext ==
    \/ \E s \in Checkouts :
         \/ Pay(s) \/ Expire(s) \/ Decline(s) \/ FailRenewal(s) \/ EndSubscription(s)
         \/ \E q \in Requests : StartCheckout(q, s)
    \/ \E h \in Handlers :
         \/ \E e \in events : Deliver(h, e)
         \/ ResolveUser(h) \/ MatchPending(h) \/ LoadSubscription(h) \/ PromoteWorkspace(h)
         \/ PromoteUser(h) \/ SetOverageItem(h) \/ ClearPending(h) \/ SyncCycles(h)
         \/ RecordFailure(h) \/ UnlinkCustomer(h) \/ HandlerSoloUser(h) \/ HandlerSoloOwned(h)
         \/ RecordEvent(h) \/ FailDelivery(h) \/ SwallowFailure(h)
    \/ \E q \in Requests :
         \/ SavePending(q) \/ ChangeToSolo(q) \/ Reconcile(q) \/ RequestSoloOwned(q)
         \/ RequestSoloUser(q) \/ ConvertToSolo(q) \/ Resume(q) \/ FailRequest(q)

BillingSpec == BillingInit /\ [][BillingNext]_billingVars

----------------------------------------------------------------------------
(* Properties. *)

Subscribed == \E s \in Checkouts : Live(s)

\* When every event is handled and nothing is under way, the user and the
\* workspace are on the workspace plan exactly while a subscription is paid for,
\* and no billing cycle outlives it: wherever a handler fails or is cut off, the
\* event is handled again to the end.  Excepted are checkouts with a failed
\* attempt, checkouts that overlap another change of the plan, and failures the
\* code passes over.
PlanFollowsStripe ==
    Quiet /\ ~upset /\ declined = {} =>
        /\ userPlan = "workspace" <=> Subscribed
        /\ workspace.plan = userPlan
        /\ workspace.cycle # None => Subscribed
=============================================================================

------------------------------ MODULE Webhooks ------------------------------
(***************************************************************************)
(* webhook_trigger and the settings it depends on.  A sender signs a       *)
(* message with the key and URL it was given and delivers it, perhaps more *)
(* than once; each delivery reads the workflow, checks the token, the plan,*)
(* the timestamp and the signature, records the signature against replays  *)
(* and creates a run.  Quota and runaway protection are in Admission: here *)
(* they are reasons for a delivery to end without a run.                   *)
(***************************************************************************)
EXTENDS Integers, FiniteSets

CONSTANTS
    Messages,        \* what senders have to say, each signed once
    Deliveries,      \* HTTP requests
    NoMessage,       \* the request has not been sent
    Windows,         \* values of hmac_replay_window_sec (clamped on the way in)
    MaxSalt,         \* bound: rotations of the salt
    MaxHookClock,    \* bound: the last value of the clock
    MaxHookFaults    \* bound: failed statements and stopped servers

ASSUME WebhooksAssumption ==
    /\ IsFiniteSet(Messages) /\ IsFiniteSet(Deliveries) /\ NoMessage \notin Messages
    /\ Windows \subseteq Nat /\ Windows # {}
    /\ MaxSalt \in Nat /\ MaxHookClock \in Nat /\ MaxHookFaults \in Nat

VARIABLES
    hook,        \* webhook_salt, require_hmac, hmac_replay_window_sec of the workflow
    hookPlan,    \* workspaces.plan
    settings,    \* a set_webhook_config request between its check and its update
    letter,      \* per message, the salt of its key and URL and its timestamp
    delivery,    \* per request, webhook_trigger and its copy of the workflow
    replays,     \* webhook_replays: the messages whose signature is recorded
    hookRuns,    \* history: runs created, by message
    unchecked,   \* history: messages accepted without a record of the signature
    hookClock,   \* now()
    hookFaults   \* faults that may still happen

webhookVars == <<hook, hookPlan, settings, letter, delivery, replays, hookRuns,
                 unchecked, hookClock, hookFaults>>

HookPlans == {"solo", "workspace"}
Salts == 0..MaxSalt
HookClocks == 0..MaxHookClock
Hooks == [salt: Salts, hmac: BOOLEAN, window: Windows]
Unsent == [sent |-> FALSE, salt |-> 0, ts |-> 0]

WebhooksTypeOK ==
    /\ hook \in Hooks
    /\ hookPlan \in HookPlans
    /\ settings \in [pc: {"none", "update"}, hmac: BOOLEAN, window: Windows]
    /\ letter \in [Messages -> [sent: BOOLEAN, salt: Salts, ts: HookClocks]]
    /\ delivery \in [Deliveries -> [pc: {"new", "check", "record", "create", "end"},
                                    message: Messages \cup {NoMessage}, hook: Hooks]]
    /\ replays \subseteq Messages
    /\ hookRuns \in [Messages -> Nat]
    /\ unchecked \subseteq Messages
    /\ hookClock \in HookClocks
    /\ hookFaults \in 0..MaxHookFaults

NoHook == [salt |-> 0, hmac |-> FALSE, window |-> CHOOSE w \in Windows : TRUE]
NewDelivery == [pc |-> "new", message |-> NoMessage, hook |-> NoHook]
EndedDelivery == [NewDelivery EXCEPT !.pc = "end"]
NoSettings == [pc |-> "none", hmac |-> FALSE, window |-> NoHook.window]

WebhooksInit ==
    /\ hook \in [salt: {0}, hmac: BOOLEAN, window: Windows]
    /\ hookPlan = "workspace"
    /\ settings = NoSettings
    /\ letter = [m \in Messages |-> Unsent]
    /\ delivery = [d \in Deliveries |-> NewDelivery]
    /\ replays = {} /\ unchecked = {}
    /\ hookRuns = [m \in Messages |-> 0]
    /\ hookClock = 0
    /\ hookFaults = MaxHookFaults

----------------------------------------------------------------------------
(* Settings. *)

\* regenerate_webhook_token and regenerate_webhook_signing_key: both rotate the
\* salt that the URL and the signing key are derived from.
RotateWebhookSalt ==
    /\ hook.salt < MaxSalt
    /\ hook' = [hook EXCEPT !.salt = @ + 1]
    /\ UNCHANGED <<hookPlan, settings, letter, delivery, replays, hookRuns, unchecked, hookClock, hookFaults>>

\* set_webhook_config checks the plan ...
CheckWebhookConfig(hmac, window) ==
    /\ settings.pc = "none"
    /\ hookPlan = "solo" => ~hmac
    /\ settings' = [pc |-> "update", hmac |-> hmac, window |-> window]
    /\ UNCHANGED <<hook, hookPlan, letter, delivery, replays, hookRuns, unchecked, hookClock, hookFaults>>

\* ... and then updates the workflow, whatever the plan is by then.
UpdateWebhookConfig ==
    /\ settings.pc = "update"
    /\ hook' = [hook EXCEPT !.hmac = settings.hmac, !.window = settings.window]
    /\ settings' = NoSettings
    /\ UNCHANGED <<hookPlan, letter, delivery, replays, hookRuns, unchecked, hookClock, hookFaults>>

\* The workspace goes to another plan (Billing).
ChangeHookPlan ==
    /\ \E p \in HookPlans \ {hookPlan} : hookPlan' = p
    /\ UNCHANGED <<hook, settings, letter, delivery, replays, hookRuns, unchecked, hookClock, hookFaults>>

PassHookTime ==
    /\ hookClock < MaxHookClock
    /\ hookClock' = hookClock + 1
    /\ UNCHANGED <<hook, hookPlan, settings, letter, delivery, replays, hookRuns, unchecked, hookFaults>>

----------------------------------------------------------------------------
(* A delivery: webhook_trigger. *)

\* The sender signs a message with the salt it knows and the time of its clock.
SignMessage(m, ts) ==
    /\ ~letter[m].sent
    /\ letter' = [letter EXCEPT ![m] = [sent |-> TRUE, salt |-> hook.salt, ts |-> ts]]
    /\ UNCHANGED <<hook, hookPlan, settings, delivery, replays, hookRuns, unchecked, hookClock, hookFaults>>

\* find_workflow_by_id_public and the token of the URL.
LoadHook(d, m) ==
    /\ delivery[d].pc = "new" /\ letter[m].sent
    /\ delivery' = [delivery EXCEPT ![d] =
                      IF letter[m].salt = hook.salt
                        THEN [pc |-> "check", message |-> m, hook |-> hook]
                        ELSE EndedDelivery]
    /\ UNCHANGED <<hook, hookPlan, settings, letter, replays, hookRuns, unchecked, hookClock, hookFaults>>

InWindow(d) ==
    LET ts == letter[delivery[d].message].ts
        window == delivery[d].hook.window
    IN  hookClock - ts <= window /\ ts - hookClock <= window

\* The plan of the workspace, the timestamp and the HMAC.  A workflow that does
\* not require signatures goes straight on.
CheckSignature(d) ==
    /\ delivery[d].pc = "check"
    /\ delivery' = [delivery EXCEPT ![d] =
                      IF ~@.hook.hmac THEN [@ EXCEPT !.pc = "create"]
                      ELSE IF hookPlan = "workspace" /\ InWindow(d)
                             THEN [@ EXCEPT !.pc = "record"] ELSE EndedDelivery]
    /\ unchecked' = IF delivery[d].hook.hmac THEN unchecked
                    ELSE unchecked \cup {delivery[d].message}
    /\ UNCHANGED <<hook, hookPlan, settings, letter, replays, hookRuns, hookClock, hookFaults>>

\* Mutant: the result of the insert is not looked at.
RecordSignatureBlindly(d) ==
    /\ delivery[d].pc = "record"
    /\ delivery' = [delivery EXCEPT ![d].pc = "create"]
    /\ replays' = replays \cup {delivery[d].message}
    /\ UNCHANGED <<hook, hookPlan, settings, letter, hookRuns, unchecked, hookClock, hookFaults>>

\* try_record_webhook_signature: an insert that does nothing on a conflict.
RecordSignature(d) ==
    LET m == delivery[d].message
    IN  /\ delivery[d].pc = "record"
        /\ delivery' = [delivery EXCEPT ![d] =
                          IF m \in replays THEN EndedDelivery ELSE [@ EXCEPT !.pc = "create"]]
        /\ replays' = replays \cup {m}
        /\ UNCHANGED <<hook, hookPlan, settings, letter, hookRuns, unchecked, hookClock, hookFaults>>

\* Only Ok(false) refuses: when the insert fails, the delivery goes on.
RecordFails(d) ==
    /\ delivery[d].pc = "record" /\ hookFaults > 0
    /\ delivery' = [delivery EXCEPT ![d].pc = "create"]
    /\ unchecked' = unchecked \cup {delivery[d].message}
    /\ hookFaults' = hookFaults - 1
    /\ UNCHANGED <<hook, hookPlan, settings, letter, replays, hookRuns, hookClock>>

CreateHookRun(d) ==
    /\ delivery[d].pc = "create"
    /\ hookRuns' = [hookRuns EXCEPT ![delivery[d].message] = @ + 1]
    /\ delivery' = [delivery EXCEPT ![d] = EndedDelivery]
    /\ UNCHANGED <<hook, hookPlan, settings, letter, replays, unchecked, hookClock, hookFaults>>

\* Runaway protection, the quota or a failed statement; the record stays.
EndWithoutRun(d) ==
    /\ delivery[d].pc \in {"check", "record", "create"}
    /\ delivery' = [delivery EXCEPT ![d] = EndedDelivery]
    /\ UNCHANGED <<hook, hookPlan, settings, letter, replays, hookRuns, unchecked, hookClock, hookFaults>>

WebhooksNext ==
    \/ RotateWebhookSalt \/ UpdateWebhookConfig \/ ChangeHookPlan \/ PassHookTime
    \/ \E hmac \in BOOLEAN, window \in Windows : CheckWebhookConfig(hmac, window)
    \/ \E m \in Messages, ts \in HookClocks : SignMessage(m, ts)
    \/ \E d \in Deliveries :
         \/ \E m \in Messages : LoadHook(d, m)
         \/ CheckSignature(d) \/ RecordSignature(d) \/ RecordFails(d)
         \/ CreateHookRun(d) \/ EndWithoutRun(d)

WebhooksSpec == WebhooksInit /\ [][WebhooksNext]_webhookVars

----------------------------------------------------------------------------
(* Properties. *)

\* A signed message starts one run however often and however concurrently it is
\* delivered, across changes of the window, the plan and the salt.  The
\* exceptions are the message for which try_record_webhook_signature failed,
\* which is let through, and one taken while signatures were not required.
SignedMessageRunsOnce ==
    \A m \in Messages : hookRuns[m] > 1 => m \in unchecked
=============================================================================

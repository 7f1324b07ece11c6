--------------------------- MODULE MCIntegrations ---------------------------
(***************************************************************************)
(* What the integrations do, part by part: calls of outside services, the   *)
(* hosts an HTTP node may contact, the flows that connect an account.  The  *)
(* parts share no state, so a behaviour is of one part and the others rest  *)
(* in a fixed state.                                                        *)
(***************************************************************************)
EXTENDS ServiceCalls, Egress, OAuthConnect

CONSTANTS f1, f2, r1, r2, r3, h1, h2

VARIABLE part

integrationVars == <<callVars, egressVars, connectVars, part>>

Api == <<"api">>
Below == <<"eu", "api">>
Inside == <<"10.0.0.1">>
Loopback == <<"[::1]">>
FourHosts == {Api, Below, Inside, Loopback}
TwoInternal == {Inside, Loopback}
OneIPv6 == {Loopback}
Patterns == {[wild |-> FALSE, name |-> Api], [wild |-> TRUE, name |-> Api], [wild |-> FALSE, name |-> Inside]}
TwoHttpRuns == {h1, h2}
TwoFlows == {f1, f2}
ThreeRows == {r1, r2, r3}

----------------------------------------------------------------------------
\* The calls start with at most one unusual circumstance; unusual forms are tried in
\* ordinary circumstances, unusual circumstances with one kind of each script, and the
\* surroundings change during the calls whose form is complete.
NormalRights == belongs = {"here"} /\ tier = [w \in Workspaces |-> IF w = "here" THEN "workspace" ELSE "solo"]
Ordinary == link = GoodLink /\ own = GoodOwn /\ ~otherTeam /\ ~cached /\ NormalRights
Representatives == {"slack", "teamsText", "sheets", "gettask", "query_database"} \cup Routes

CallsInit ==
    /\ ServiceCallsInit
    /\ otherTeam => NormalRights /\ own = GoodOwn
    /\ cached => link = GoodLink /\ own = GoodOwn
    /\ own # GoodOwn => NormalRights
    /\ link \notin {GoodLink, [GoodLink EXCEPT !.home = "there"]} => NormalRights

CallsRest ==
    /\ belongs = {"here"} /\ link = GoodLink /\ own = GoodOwn /\ otherTeam = FALSE /\ cached = FALSE
    /\ ServiceCallsInit /\ Ordinary

CallsMove ==
    /\ ServiceCallsNext
    /\ call.pc = "idle" /\ ~Ordinary => call'.gives = Asked(call'.todo) /\ call'.kind \in Representatives
    /\ changes' # changes => Asked(Script(call.kind, call.scope, call.gives)) \subseteq call.gives

----------------------------------------------------------------------------
\* The second run is made after the first, and only one has reached its node.
EgressRest ==
    /\ allowlist = {} /\ egressEnv = [allowed |-> {}, denied |-> {}, prod |-> TRUE, defaultDeny |-> TRUE]
    /\ EgressInit

EgressMove ==
    /\ EgressNext
    /\ \A r \in HttpRuns : httpRun'[r].pc \notin {"none", "queued"} =>
         \A q \in HttpRuns \ {r} : httpRun'[q].pc \in {"none", "queued"}
    /\ httpRun[h1].pc = "none" => httpRun'[h2].pc = "none"

----------------------------------------------------------------------------
\* Rows are taken in order, the second flow starts after the first, and rights that are
\* not asked for stay.
TakenInOrder == /\ row[r2].state # "free" => row[r1].state # "free"
                /\ row[r3].state # "free" => row[r2].state # "free"

ConnectsInit ==
    /\ OAuthConnectInit
    /\ row[r2].state = "free" /\ row[r3].state = "free"
    /\ right = "ok" \/ account = "paid"
    /\ \A r \in Rows : row[r].state # "free" => row[r].ident = "a"

ConnectsRest ==
    /\ provider = "google" /\ right = "none" /\ account = "solo" /\ row = [r \in Rows |-> FreeRow]
    /\ links = {} /\ signedIn = "u" /\ cookie = NoFlow /\ revoked = {} /\ flow = [f \in Flows |-> NoFlowYet]
    /\ disturbed = {} /\ raced = FALSE /\ disturbances = MaxDisturbances

ConnectsMove ==
    /\ OAuthConnectNext
    /\ TakenInOrder'
    /\ In(f1, "idle") => flow'[f2].pc = "idle"

----------------------------------------------------------------------------
IntegrationsInit ==
    \/ part = "calls" /\ CallsInit /\ EgressRest /\ ConnectsRest
    \/ part = "egress" /\ CallsRest /\ EgressInit /\ ConnectsRest
    \/ part = "connect" /\ CallsRest /\ EgressRest /\ ConnectsInit

IntegrationsNext ==
    \/ part = "calls" /\ CallsMove /\ UNCHANGED <<egressVars, connectVars, part>>
    \/ part = "egress" /\ EgressMove /\ UNCHANGED <<callVars, connectVars, part>>
    \/ part = "connect" /\ ConnectsMove /\ UNCHANGED <<callVars, egressVars, part>>

IntegrationsSpec == IntegrationsInit /\ [][IntegrationsNext]_integrationVars

(* Every value stays of its kind in all the parts: in particular no call, retry *)
(* or flow counts past its limit.                                               *)
IntegrationsTypeOK == ServiceCallsTypeOK /\ EgressTypeOK /\ OAuthConnectTypeOK
=============================================================================

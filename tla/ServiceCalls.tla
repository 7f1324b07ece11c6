---------------------------- MODULE ServiceCalls ----------------------------
(***************************************************************************)
(* A call of an outside service by an action node of a run or by a route of *)
(* the editor: the checks of its script, each a query of its own, then the  *)
(* request with the access token read on the way.  Meanwhile members leave, *)
(* plans change, connections are removed and tokens expire or are revoked.  *)
(***************************************************************************)
EXTENDS BrowseScripts, FiniteSets

CONSTANTS
    MaxNotionRetries,   \* NOTION_MAX_RETRIES
    MaxChanges          \* bound: changes of the surroundings during a call

ASSUME ServiceCallsAssumption == MaxNotionRetries \in Nat /\ MaxChanges \in Nat

VARIABLES
    belongs,   \* the workspaces the user is a member of
    tier,      \* the plan of each workspace
    link,      \* the workspace connection the call names
    own,       \* the personal connection it names, and a later one of the same provider
    otherTeam, \* whether the run's workspace has a connection to a second Slack team
    cached,    \* whether the sheets of the spreadsheet are in SHEETS_CACHE
    call,      \* the call
    posted,    \* deliveries at the service
    changes

callVars == <<belongs, tier, link, own, otherTeam, cached, call, posted, changes>>
surroundings == <<belongs, tier, link, own, otherTeam>>

Workspaces == {"here", "there"}
Scopes == {"workspace", "personal"}

----------------------------------------------------------------------------
AsanaOps ==
    [k \in UNION {DOMAIN AsanaProjects, DOMAIN AsanaTasks, DOMAIN AsanaDetails} |->
       CASE k \in DOMAIN AsanaProjects -> AsanaProjects[k]
         [] k \in DOMAIN AsanaTasks -> AsanaTasks[k]
         [] k \in DOMAIN AsanaDetails -> AsanaDetails[k]]

Hooks == {"teamsConnector", "teamsWorkflow", "googleChat"}
Mails == {"smtp", "sendgrid", "mailgun", "sesV1", "sesV2"}
Slacks == {"slack", "slackChannels"}
GraphKinds == {"teamsText", "teamsCard", "teamsInferred"}
Routes == {"slackChannels", "teamsTeams", "teamsChannels", "teamsMembers", "googleSheets",
           "googleFiles", "googleToken", "notionDatabases", "notionSchema", "asanaLists",
           "asanaUsers", "asanaTaskList", "asanaTask", "asanaStories"}
AsanaRoutes == {"asanaLists", "asanaUsers", "asanaTaskList", "asanaTask", "asanaStories"}
Kinds == {"slack", "sheets"} \cup GraphKinds \cup Hooks \cup Mails \cup Routes
           \cup DOMAIN AsanaOps \cup DOMAIN NotionOps
NotionKinds == DOMAIN NotionOps \cup {"notionDatabases", "notionSchema"}
\* Their connections are looked for by the call; hooks and mails carry their own.
ScopesOf(k) == IF k \in Hooks \cup Mails THEN {"personal"} ELSE Scopes

\* execute_action, execute_email and the routes.
Script(k, scope, gives) ==
    CASE k = "slack" -> SlackScript(scope)
      [] k = "teamsText" -> TeamsDelegated(scope, TeamsText)
      [] k = "teamsCard" -> TeamsDelegated(scope, TeamsCard)
      [] k = "teamsInferred" -> IF TeamsMethod(gives) = "delegated" THEN TeamsDelegated(scope, TeamsText)
                                                                   ELSE TeamsConnector
      [] k = "teamsConnector" -> TeamsConnector
      [] k = "teamsWorkflow" -> TeamsWorkflow
      [] k = "googleChat" -> GoogleChat
      [] k = "smtp" -> SmtpScript
      [] k = "sendgrid" -> SendGridScript
      [] k = "mailgun" -> MailgunScript
      [] k = "sesV1" -> SesParams \o SesV1
      [] k = "sesV2" -> SesParams \o SesV2
      [] k \in DOMAIN AsanaOps -> AsanaToken(scope) \o AsanaOps[k]
      [] k \in DOMAIN NotionOps -> NotionToken(scope) \o NotionOps[k]
      [] k = "sheets" -> SheetsScript(scope)
      [] k = "slackChannels" -> SlackChannels(scope)
      [] k = "teamsTeams" -> MicrosoftTeams(scope)
      [] k = "teamsChannels" -> MicrosoftChannels(scope)
      [] k = "teamsMembers" -> MicrosoftMembers(scope)
      [] k = "googleSheets" -> GoogleSheets(scope)
      [] k = "googleFiles" -> GoogleFiles(scope)
      [] k = "googleToken" -> GoogleAccessToken(scope)
      [] k = "notionDatabases" -> NotionDatabases(scope)
      [] k = "notionSchema" -> NotionSchema(scope)
      [] k = "asanaLists" -> AsanaLists(scope)
      [] k = "asanaUsers" -> AsanaUsers(scope)
      [] k = "asanaTaskList" -> AsanaTaskList(scope)
      [] k = "asanaTask" -> AsanaTaskDetails(scope)
      [] k = "asanaStories" -> AsanaStories(scope)

\* What a form can give: everything, or all but one parameter or a group of alternatives.
Asked(s) == UNION {s[i].of : i \in DOMAIN s}
FormsOf(s) ==
    {Asked(s)} \cup {Asked(s) \ {f} : f \in Asked(s)} \cup {Asked(s) \ s[i].of : i \in DOMAIN s}
Forms(k, scope) ==
    FormsOf(Script(k, scope, {"teamId", "channelId"}))
      \cup IF k = "teamsInferred" THEN FormsOf(Script(k, scope, {})) ELSE {}

----------------------------------------------------------------------------
GoodLink == [row |-> TRUE, home |-> "here", provider |-> TRUE, hook |-> "none", team |-> "T",
             token |-> "valid", sealed |-> TRUE, source |-> TRUE]
GoodOwn == [row |-> TRUE, newer |-> FALSE, provider |-> TRUE, team |-> "T", token |-> "valid"]

\* At most one thing is unusual in the connections: another workspace or provider, an
\* incoming webhook, a team missing or not the user's, a token expired or revoked,
\* fields stored without encryption, the personal token it was made from deleted.
Links == {GoodLink, [GoodLink EXCEPT !.row = FALSE], [GoodLink EXCEPT !.home = "there"],
          [GoodLink EXCEPT !.provider = FALSE], [GoodLink EXCEPT !.hook = "only"],
          [GoodLink EXCEPT !.hook = "also"], [GoodLink EXCEPT !.team = "none"],
          [GoodLink EXCEPT !.team = "U"], [GoodLink EXCEPT !.token = "old"],
          [GoodLink EXCEPT !.token = "revoked"], [GoodLink EXCEPT !.sealed = FALSE],
          [GoodLink EXCEPT !.hook = "also", !.source = FALSE]}
Owns == {GoodOwn, [GoodOwn EXCEPT !.row = FALSE], [GoodOwn EXCEPT !.newer = TRUE],
         [GoodOwn EXCEPT !.provider = FALSE], [GoodOwn EXCEPT !.team = "none"],
         [GoodOwn EXCEPT !.token = "old"], [GoodOwn EXCEPT !.token = "revoked"],
         [GoodOwn EXCEPT !.newer = TRUE, !.token = "revoked"]}

NoCall == [pc |-> "idle", kind |-> "none", scope |-> "personal", gives |-> {}, todo |-> <<>>, ws |-> "here",
           authorized |-> FALSE, cred |-> GoodLink, myTeam |-> "none", used |-> FALSE, tries |-> 0, refreshed |-> FALSE,
           unsure |-> FALSE, unpurged |-> FALSE, displaced |-> FALSE, member |-> {}, paid |-> {},
           result |-> "none"]

CallResults == {"none", "ok", "skipped", "error", "revoked"}
CallTokens == {"valid", "old", "revoked"}
SlackTeamIds == {"T", "U", "none"}

ServiceCallsTypeOK ==
    /\ belongs \subseteq Workspaces /\ tier \in [Workspaces -> {"solo", "workspace"}]
    /\ link \in [row: BOOLEAN, home: Workspaces, provider: BOOLEAN, hook: {"none", "only", "also"},
                 team: SlackTeamIds, token: CallTokens, sealed: BOOLEAN, source: BOOLEAN]
    /\ own \in [row: BOOLEAN, newer: BOOLEAN, provider: BOOLEAN, team: SlackTeamIds, token: CallTokens]
    /\ otherTeam \in BOOLEAN /\ cached \in BOOLEAN
    /\ call.pc \in {"idle", "check", "refresh", "purge", "done"} /\ call.kind \in Kinds \cup {"none"}
    /\ call.tries \in 0..MaxNotionRetries /\ call.result \in CallResults
    /\ call.member \subseteq Workspaces /\ call.paid \subseteq Workspaces
    /\ posted \in 0..2 /\ changes \in 0..MaxChanges

ServiceCallsInit ==
    /\ belongs \in {{}, {"here"}, Workspaces}
    /\ tier \in [Workspaces -> {"solo", "workspace"}]
    /\ link \in Links /\ own \in Owns /\ (link = GoodLink \/ own = GoodOwn)
    /\ otherTeam \in BOOLEAN /\ cached \in BOOLEAN
    /\ call = NoCall /\ posted = 0 /\ changes = MaxChanges

----------------------------------------------------------------------------
Paid == {w \in Workspaces : tier[w] = "workspace"}

BeginCall(k, scope, gives) ==
    /\ call' = [NoCall EXCEPT !.pc = "check", !.kind = k, !.scope = scope, !.gives = gives,
                              !.todo = Script(k, scope, gives), !.member = belongs, !.paid = Paid]
    /\ UNCHANGED <<surroundings, cached, posted, changes>>

AtStep(c) == call.pc = "check" /\ call.todo # <<>> /\ Head(call.todo).do = c
End(r) == call' = [call EXCEPT !.pc = "done", !.result = r]
Advance == call' = [call EXCEPT !.todo = Tail(@)]

\* Mutant: a paid plan is enough.
EnsureMembershipOrPlan == call.ws \in belongs \/ tier[call.ws] = "workspace"

EnsureRunMembership == call.ws \in belongs

EnsureWorkspacePlan == tier[call.ws] = "workspace"
\* ensure_workspace_plan_membership: some workspace of the user is on a paid plan.
AnyPlanMembership == belongs \cap Paid # {}

IsSlack == call.kind \in Slacks
\* The teams of the Slack connections of the run's workspace.
SlackTeams ==
    (IF otherTeam THEN {"V"} ELSE {})
      \cup (IF link.row /\ link.home = call.ws /\ link.team # "none" THEN {link.team} ELSE {})
\* A connection that has only an incoming webhook, or one and no personal token behind it.
WebhookOnly(l) == l.hook = "only" \/ (l.hook = "also" /\ ~l.source)

\* The parameters at the head of the script that are still to be looked at.
Given(c) == c.do = "need" /\ c.of \cap call.gives # {}

CheckParameters ==
    /\ AtStep("need")
    /\ \E next \in DOMAIN call.todo :
         /\ ~Given(call.todo[next]) /\ \A i \in 1..(next - 1) : Given(call.todo[i])
         /\ IF call.todo[next].do = "need" THEN End("error")
              ELSE call' = [call EXCEPT !.todo = SubSeq(@, next, Len(@))]
    /\ UNCHANGED <<surroundings, cached, posted, changes>>

\* The checks without effect, on the row copied before where there is one.
Holds(c) ==
    CASE c = "member" -> EnsureRunMembership
      [] c = "plan" -> EnsureWorkspacePlan
      [] c = "anyPlan" -> AnyPlanMembership
      [] c = "home" -> call.cred.home = call.ws
      [] c = "provider" -> call.cred.provider
      [] c = "oauth" -> call.cred.hook # "only"
      [] c = "oauthRow" -> link.row /\ ~WebhookOnly(link)
      [] c = "team" -> call.cred.team # "none"
      [] c = "ownTeam" -> call.myTeam # "none"
      [] c = "sameTeam" -> call.cred.team = call.myTeam
      [] c = "oneTeam" -> Cardinality(SlackTeams) <= 1 /\ (SlackTeams # {} => call.cred.team \in SlackTeams)
      [] c = "fewTeams" -> Cardinality(SlackTeams) <= 1

Queries == {"member", "plan", "anyPlan", "oauthRow", "ownTeam", "oneTeam", "fewTeams"}
Checks == Queries \cup {"home", "provider", "oauth", "team", "sameTeam"}

\* A check passes, or ends the call; a query may also fail.
CheckRights ==
    /\ \E c \in Checks : AtStep(c) /\ \/ Holds(c) /\ Advance
                                      \/ (~Holds(c) \/ c \in Queries) /\ End("error")
    /\ UNCHANGED <<surroundings, cached, posted, changes>>

----------------------------------------------------------------------------
(* The steps that read a connection; each may fail. *)

\* list_for_user_memberships, then the connection and provider asked for.
FindListed ==
    /\ AtStep("listed")
    /\ \/ /\ link.row /\ link.provider /\ link.home \in belongs
          /\ call' = [call EXCEPT !.todo = Tail(@), !.ws = link.home]
       \/ End("error")
    /\ UNCHANGED <<surroundings, cached, posted, changes>>

\* get_connection: a connection of the provider in a workspace of the user.
GetConnection ==
    /\ AtStep("get")
    /\ \/ /\ link.row /\ link.provider /\ link.home \in belongs /\ link.sealed
          /\ call' = [call EXCEPT !.todo = Tail(@), !.ws = link.home]
       \/ End("error")
    /\ UNCHANGED <<surroundings, cached, posted, changes>>

\* The token of the connection is the one the request will carry.
TakeToken(cred) == [call EXCEPT !.todo = Tail(@), !.authorized = TRUE, !.cred = cred]

\* ensure_valid_workspace_token: an old token is refreshed, which the row's write
\* refuses when the personal token is gone; a refused refresh deletes the connection.
EnsureValidWorkspaceToken ==
    /\ AtStep("token")
    /\ \/ link.row /\ link.sealed /\ link.token # "old" /\ call' = TakeToken(link) /\ UNCHANGED link
       \/ /\ link.row /\ link.sealed /\ link.token = "old" /\ link.source
          /\ link' = [link EXCEPT !.token = "valid"] /\ call' = TakeToken(link')
       \/ link.row /\ link.token = "revoked" /\ link' = [link EXCEPT !.row = FALSE] /\ End("error")
       \/ End("error") /\ UNCHANGED link
    /\ UNCHANGED <<belongs, tier, own, otherTeam, cached, posted, changes>>

\* The same for a Slack connection: it needs a team and is not refreshed.
SlackWorkspaceToken ==
    /\ AtStep("slackToken")
    /\ \/ link.row /\ link.sealed /\ (link.provider => link.team # "none") /\ call' = TakeToken(link)
       \/ End("error")
    /\ UNCHANGED <<surroundings, cached, posted, changes>>

\* find_by_id of the workspace connection named beside a personal one; the token
\* sent stays the personal one.
LoadLink ==
    /\ AtStep("loadLink")
    /\ \/ link.row /\ call' = TakeToken([link EXCEPT !.token = call.cred.token])
       \/ End("error")
    /\ UNCHANGED <<surroundings, cached, posted, changes>>

TakeOwn(o) ==
    [TakeToken([GoodLink EXCEPT !.provider = o.provider, !.token = o.token]) EXCEPT !.myTeam = o.team]

\* ensure_valid_access_token_for_connection; a refused refresh deletes the row.
OwnToken ==
    /\ AtStep("own")
    /\ \/ own.row /\ own.token # "old" /\ call' = TakeOwn(own) /\ UNCHANGED own
       \/ own.row /\ own.token = "old" /\ own' = [own EXCEPT !.token = "valid"] /\ call' = TakeOwn(own')
       \/ own.row /\ own.token = "revoked" /\ own' = [own EXCEPT !.row = FALSE] /\ End("error")
       \/ End("error") /\ UNCHANGED own
    /\ UNCHANGED <<belongs, tier, link, otherTeam, cached, posted, changes>>

----------------------------------------------------------------------------
(* The request and its answer. *)

\* What the service may answer; "lost" also stands for a connection that breaks
\* while the answer is read, "garbled" for a success whose body is no JSON.
Answers ==
    CASE call.authorized /\ call.cred.token = "revoked" -> {"revoked", "lost"}
      [] call.authorized /\ call.cred.token = "old" -> {"expired", "lost"}
      [] OTHER -> {"done", "garbled", "refused", "throttled", "lost"}

\* is_revocation_signal: any 401 counts.
IsRevocationSignal(a) == a \in {"revoked", "expired"}

\* How an answer is taken.  A success whose body cannot be parsed is one to a sender that
\* does not need it.
TakesAnySuccess(a) == IF a \in {"done", "garbled"} THEN "ok" ELSE "error"
ReadsBody(a) == IF a = "done" THEN "ok" ELSE "error"

\* The loop of send_slack tells an expired token apart first, and refreshes it once.
SlackVerdict(a) ==
    CASE a = "expired" -> IF call.refreshed THEN "error" ELSE "refresh"
      [] a # "expired" -> IF IsRevocationSignal(a) THEN "purge" ELSE TakesAnySuccess(a)

\* fetch_slack_channels.
SlackListVerdict(a) == IF a = "expired" /\ ~call.refreshed THEN "refresh" ELSE ReadsBody(a)

\* Teams by Graph, and the rows appended to a sheet.
TeamsVerdict(a) == IF IsRevocationSignal(a) THEN "purge" ELSE TakesAnySuccess(a)
SheetsVerdict(a) == IF IsRevocationSignal(a) THEN "purge" ELSE TakesAnySuccess(a)

\* Mutant: a request whose answer is lost is sent again.
NotionRetriesLost(a) ==
    IF a \in {"throttled", "lost"} /\ call.tries < MaxNotionRetries THEN "again" ELSE ReadsBody(a)

\* send_request of the Notion service.
NotionVerdict(a) == IF a = "throttled" /\ call.tries < MaxNotionRetries THEN "again" ELSE ReadsBody(a)

\* post_webhook_payload, the mail services, handle_response of Asana; the listings.
HookVerdict(a) == TakesAnySuccess(a)
MailVerdict(a) == TakesAnySuccess(a)
AsanaVerdict(a) == ReadsBody(a)
GraphGet(a) == ReadsBody(a)
GoogleGet(a) == ReadsBody(a)
AsanaGet(a) == ReadsBody(a)

Verdict(a) ==
    CASE call.kind = "slack" -> SlackVerdict(a)
      [] call.kind = "slackChannels" -> SlackListVerdict(a)
      [] call.kind \in GraphKinds -> IF call.authorized THEN TeamsVerdict(a) ELSE HookVerdict(a)
      [] call.kind = "sheets" -> SheetsVerdict(a)
      [] call.kind \in NotionKinds -> NotionVerdict(a)
      [] call.kind \in Hooks -> HookVerdict(a)
      [] call.kind \in Mails -> MailVerdict(a)
      [] call.kind \in DOMAIN AsanaOps -> AsanaVerdict(a)
      [] call.kind \in {"teamsTeams", "teamsChannels", "teamsMembers"} -> GraphGet(a)
      [] call.kind \in {"googleSheets", "googleFiles"} -> GoogleGet(a)
      [] call.kind \in AsanaRoutes -> AsanaGet(a)

\* One request with the token in hand; it arrives, if at all, before the answer.
Request(delivers) ==
    \E a \in Answers, arrived \in BOOLEAN :
      LET v == Verdict(a)
          sent == [call EXCEPT !.used = TRUE, !.unsure = @ \/ a = "lost" \/ (a = "garbled" /\ v = "error")]
      IN /\ arrived => delivers
         /\ a \in {"done", "garbled"} => arrived = delivers
         /\ a \notin {"done", "garbled", "lost"} => ~arrived
         /\ a = "lost" /\ arrived => call.cred.token = "valid" \/ ~call.authorized
         /\ posted' = IF arrived THEN posted + 1 ELSE posted
         /\ call' = CASE v = "again" -> [sent EXCEPT !.tries = @ + 1]
                      [] v \in {"refresh", "purge"} -> [sent EXCEPT !.pc = v]
                      [] OTHER -> [sent EXCEPT !.pc = "done", !.result = v]

SendRequest ==
    /\ AtStep("send") /\ Request(TRUE)
    /\ UNCHANGED <<surroundings, cached, changes>>

\* A listing; a success fills the cache of the sheets.
FetchPages ==
    /\ AtStep("fetch") /\ Request(FALSE)
    /\ cached' = (cached \/ (call.kind = "googleSheets" /\ call'.result = "ok"))
    /\ UNCHANGED <<surroundings, changes>>

\* refresh_slack_workspace_token, which stores the ids of the answer as they are.
RefreshSlackWorkspaceToken ==
    /\ call.pc = "refresh" /\ call.scope = "workspace"
    /\ \/ /\ link.row /\ link.sealed /\ link.source /\ link.token # "revoked"
          /\ \E plain \in BOOLEAN : link' = [link EXCEPT !.token = "valid", !.sealed = ~plain]
          /\ call' = [call EXCEPT !.pc = "check", !.refreshed = TRUE, !.cred.token = "valid"]
       \/ End("error") /\ UNCHANGED link
    /\ UNCHANGED <<belongs, tier, own, otherTeam, cached, posted, changes>>

\* refresh_access_token_for_connection: a refused refresh deletes the row.
RefreshSlackPersonalToken ==
    /\ call.pc = "refresh" /\ call.scope = "personal"
    /\ \/ /\ own.row /\ own.token # "revoked" /\ own' = [own EXCEPT !.token = "valid"]
          /\ call' = [call EXCEPT !.pc = "check", !.refreshed = TRUE, !.cred.token = "valid"]
       \/ own.row /\ own.token = "revoked" /\ own' = [own EXCEPT !.row = FALSE] /\ End("error")
       \/ End("error") /\ UNCHANGED own
    /\ UNCHANGED <<belongs, tier, link, otherTeam, cached, posted, changes>>

CheckCache ==
    /\ AtStep("cache")
    /\ IF cached THEN End("ok") ELSE Advance
    /\ UNCHANGED <<surroundings, cached, posted, changes>>

HandOutToken ==
    /\ AtStep("handOut")
    /\ call' = [call EXCEPT !.pc = "done", !.result = "ok", !.used = TRUE]
    /\ UNCHANGED <<surroundings, cached, posted, changes>>

SkipUnsupported ==
    /\ AtStep("skip") /\ End("skipped")
    /\ UNCHANGED <<surroundings, cached, posted, changes>>

\* handle_revoked_token: the row of the provider updated last.
PurgeNewestOwn == IF own.newer THEN [own EXCEPT !.newer = FALSE] ELSE [own EXCEPT !.row = FALSE]

\* Mutant: of a workspace connection only its owner's token is deleted.
PurgeOwnerOnly ==
    /\ call.pc = "purge"
    /\ own' = IF IsSlack THEN [own EXCEPT !.row = FALSE] ELSE PurgeNewestOwn
    /\ End("revoked")
    /\ UNCHANGED <<belongs, tier, link, otherTeam, cached, posted, changes>>

\* What a revocation signal makes Slack, Teams and Sheets delete.
SlackPurges(shared) == IF shared THEN {"link"} ELSE {"own"}
TeamsPurges(shared) == IF shared THEN {"link", "own"} ELSE {"own"}
SheetsPurges(shared) == IF shared THEN {"link", "own"} ELSE {"own"}

\* Slack deletes by connection, Teams and Sheets the newest token of the owner too.  A
\* deletion that fails is only logged.
PurgeRevoked ==
    /\ call.pc = "purge"
    /\ \E done \in SUBSET {"link", "own"} :
         LET shared == call.scope = "workspace"
             due == CASE IsSlack -> SlackPurges(shared) [] call.kind = "sheets" -> SheetsPurges(shared)
                      [] OTHER -> TeamsPurges(shared)
         IN /\ done \subseteq due
            /\ link' = IF "link" \in done /\ link.home = call.ws THEN [link EXCEPT !.row = FALSE] ELSE link
            /\ own' = CASE "own" \notin done -> own
                        [] "own" \in done /\ IsSlack -> [own EXCEPT !.row = FALSE]
                        [] "own" \in done /\ ~IsSlack -> PurgeNewestOwn
            /\ call' = [call EXCEPT !.pc = "done", !.result = "revoked",
                                    !.unpurged = IF shared THEN "link" \notin done ELSE done = {},
                                    !.displaced = ~shared /\ ~IsSlack /\ own.newer]
    /\ UNCHANGED <<belongs, tier, otherTeam, cached, posted, changes>>

----------------------------------------------------------------------------
(* The surroundings change while a call is in progress. *)

Change ==
    /\ call.pc \in {"check", "refresh", "purge"} /\ changes > 0 /\ changes' = changes - 1
    /\ UNCHANGED <<cached, posted, otherTeam>>

MembershipChanges(w) ==
    /\ Change
    /\ belongs' = IF w \in belongs THEN belongs \ {w} ELSE belongs \cup {w}
    /\ call' = [call EXCEPT !.member = @ \cup belongs']
    /\ UNCHANGED <<tier, link, own>>

PlanChanges(w) ==
    /\ Change
    /\ tier' = [tier EXCEPT ![w] = IF @ = "solo" THEN "workspace" ELSE "solo"]
    /\ call' = [call EXCEPT !.paid = @ \cup {v \in Workspaces : tier'[v] = "workspace"}]
    /\ UNCHANGED <<belongs, link, own>>

\* A personal token goes and leaves its workspace connection without its source.
ConnectionGoes ==
    /\ Change
    /\ \/ link.row /\ link' = [link EXCEPT !.row = FALSE] /\ UNCHANGED own
       \/ own.row /\ own' = [own EXCEPT !.row = FALSE] /\ link' = [link EXCEPT !.source = FALSE]
    /\ UNCHANGED <<belongs, tier, call>>

\* The tokens expire, or the user withdraws the grant at the service.
TokenChanges(t) ==
    /\ Change
    /\ link' = [link EXCEPT !.token = t] /\ own' = [own EXCEPT !.token = t]
    /\ call' = [call EXCEPT !.cred.token = t]
    /\ UNCHANGED <<belongs, tier>>

----------------------------------------------------------------------------
ServiceCallsNext ==
    \/ /\ call.pc = "idle"
       /\ \E k \in Kinds : \E scope \in ScopesOf(k) : \E gives \in Forms(k, scope) : BeginCall(k, scope, gives)
    \/ CheckParameters \/ CheckRights \/ FindListed \/ GetConnection
    \/ EnsureValidWorkspaceToken \/ SlackWorkspaceToken \/ LoadLink \/ OwnToken
    \/ SendRequest \/ FetchPages \/ RefreshSlackWorkspaceToken \/ RefreshSlackPersonalToken
    \/ CheckCache \/ HandOutToken \/ SkipUnsupported \/ PurgeRevoked
    \/ \E w \in Workspaces : MembershipChanges(w) \/ PlanChanges(w)
    \/ ConnectionGoes \/ \E t \in {"old", "revoked"} : TokenChanges(t)

ServiceCallsSpec == ServiceCallsInit /\ [][ServiceCallsNext]_callVars

----------------------------------------------------------------------------
Shared == call.scope = "workspace" /\ call.authorized

(* A workspace connection's token is presented to the service only for a user *)
(* who was a member of the connection's workspace, and for a node only if that *)
(* is the run's workspace, on the workspace plan, and the connection is of the *)
(* provider called: at some moment of the call, for the checks are queries of  *)
(* their own and what they saw may have changed by the time of the request.    *)
SharedUseIsEntitled ==
    call.used /\ Shared =>
      /\ call.cred.home \in call.member
      /\ call.cred.provider
      /\ call.kind \notin Routes => call.cred.home = "here" /\ "here" \in call.paid

(* The result of an action tells what happened at the service: a success       *)
(* stands for exactly one delivery and an error for none, through the retries   *)
(* of Notion and the refresh of Slack, unless an answer was lost or unreadable; *)
(* nothing is delivered twice, and a listing delivers nothing.                 *)
SentIsTold ==
    /\ posted <= 1
    /\ call.result = "ok" /\ call.kind \notin Routes /\ Fetch[1] \notin {call.todo[i] : i \in DOMAIN call.todo}
         => posted = 1
    /\ call.result \in {"error", "revoked", "skipped"} /\ ~call.unsure => posted = 0

(* A credential the service reported as revoked is not kept: when an action    *)
(* ends with that report, the connection it used is deleted, unless the        *)
(* deletion failed, or the user has a later personal connection of the same    *)
(* provider, which Teams and Sheets delete in its place.  For Slack the          *)
(* documents ask for the opposite: RevokedSlackIsKept.                          *)
RevokedIsPurged ==
    call.result = "revoked" /\ ~call.unpurged =>
      IF call.scope = "workspace" THEN link.home = call.ws => ~link.row
        ELSE ~own.row \/ call.displaced

(* "Mark the specific connection stale: - Workspace: set requiresReconnect      *)
(* and/or expires_at forced expired; preserve `slack_team_id`. - Personal:      *)
(* revoke and/or mark token stale; preserve identity metadata for debugging."   *)
(* (docs/slack/workspace-first-failure-mode-behavior.md): a call that finds a   *)
(* Slack connection revoked keeps its row, if nobody else changes anything.     *)
(* send_slack deletes it.                                                       *)
RevokedSlackIsKept ==
    call.kind = "slack" /\ call.result = "revoked" /\ changes = MaxChanges =>
      IF call.scope = "workspace" THEN link.row ELSE own.row
=============================================================================

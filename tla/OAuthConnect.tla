---------------------------- MODULE OAuthConnect ----------------------------
(***************************************************************************)
(* Connecting an account of a provider: the start route sends the browser   *)
(* to the provider with a state that a cookie also holds; the callback      *)
(* compares the two, exchanges the code for a grant, stores it in the       *)
(* personal row of that account and, for Slack and for a Notion workspace,  *)
(* in a connection of the workspace.  Flows of one browser overlap, *)
(* rights and rows change meanwhile.                                        *)
(***************************************************************************)
EXTENDS Naturals, FiniteSets

CONSTANTS
    Flows,          \* flows of the browser, each also the grant it is given
    Rows,           \* rows of user_oauth_tokens
    Idents,         \* accounts at the provider, of one Slack team
    Unknown,        \* an account whose id the provider does not tell
    First,          \* the grant stored before
    NoFlow, NoRow,
    MaxDisturbances \* bound: changes from outside and failures

ASSUME OAuthConnectAssumption ==
    /\ NoFlow \notin Flows /\ NoRow \notin Rows /\ Unknown \notin Idents /\ First \notin Flows
    /\ MaxDisturbances \in Nat

VARIABLES
    provider,      \* the provider
    right,         \* the users' right in the workspace
    account,       \* the users' own plan
    signedIn,      \* who is signed in in the browser
    cookie,        \* the state cookie of the provider
    row,           \* user_oauth_tokens of the provider
    links,         \* workspace_connections of the workspace and provider
    revoked,       \* grants revoked at the provider
    flow,
    disturbed,     \* history: flows something outside them interfered with
    raced,         \* history: two flows found no row of the same account and insert one each
    disturbances

connectVars == <<provider, right, account, signedIn, cookie, row, links, revoked, flow, disturbed,
                 raced, disturbances>>
rights == <<provider, right, account, signedIn>>
stored == <<row, links, revoked>>

People == {"u", "v"}
Providers == {"google", "microsoft", "asana", "slack", "notion"}
Grants == Flows \cup {First}
ConnectPcs == {"idle", "away", "permit", "exchange", "scopes", "match", "revoke", "store", "spread", "find",
               "write", "promote", "done"}

NoFlowYet == [pc |-> "idle", user |-> "u", scope |-> "personal", ident |-> Unknown, row |-> NoRow,
              found |-> FALSE, granted |-> FALSE, unscoped |-> FALSE, result |-> "none"]
FreeRow == [state |-> "free", user |-> "u", ident |-> Unknown, cred |-> First]
Installs == [source: Rows \cup {NoRow}, made: Rows, cred: Grants]

OAuthConnectTypeOK ==
    /\ right \in {"none", "viewer", "solo", "ok"} /\ account \in {"solo", "paid"} /\ signedIn \in People
    /\ cookie \in Flows \cup {NoFlow}
    /\ row \in [Rows -> [state: {"free", "on", "gone"}, user: People, ident: Idents \cup {Unknown}, cred: Grants]]
    /\ links \subseteq Installs /\ revoked \subseteq Grants
    /\ flow \in [Flows -> [pc: ConnectPcs, user: People, scope: {"workspace", "personal"},
                           ident: Idents \cup {Unknown}, row: Rows \cup {NoRow}, found: BOOLEAN,
                           granted: BOOLEAN, unscoped: BOOLEAN, result: {"none", "ok", "error"}]]
    /\ disturbed \subseteq Flows /\ raced \in BOOLEAN /\ disturbances \in 0..MaxDisturbances

\* An account may be connected already, alone or with a connection of the workspace,
\* which may have lost its row.
OAuthConnectInit ==
    /\ provider \in Providers
    /\ right \in {"none", "viewer", "solo", "ok"} /\ account \in {"solo", "paid"} /\ signedIn = "u"
    /\ \E r \in Rows, i \in Idents, before \in {"nothing", "row", "link", "orphan"} :
         /\ row = [s \in Rows |-> IF s # r \/ before = "nothing" THEN FreeRow
                     ELSE [FreeRow EXCEPT !.state = IF before = "orphan" THEN "gone" ELSE "on", !.ident = i]]
         /\ links = CASE before = "link" -> {[source |-> r, made |-> r, cred |-> First]}
                      [] before = "orphan" -> {[source |-> NoRow, made |-> r, cred |-> First]}
                      [] OTHER -> {}
    /\ cookie = NoFlow /\ revoked = {} /\ flow = [f \in Flows |-> NoFlowYet]
    /\ disturbed = {} /\ raced = FALSE /\ disturbances = MaxDisturbances

----------------------------------------------------------------------------
In(f, pc) == flow[f].pc = pc
Goto(f, pc) == flow' = [flow EXCEPT ![f].pc = pc]
Answer(f, r) == flow' = [flow EXCEPT ![f].pc = "done", ![f].result = r]

\* ensure_oauth_permissions: a member, no viewer, of a workspace on a paid plan, or
\* without a workspace the user's own plan.
EnsureOauthPermissions(scope) == IF scope = "workspace" THEN right = "ok" ELSE account = "paid"

\* What f wrote interferes with the flows of the same account, and for Slack with
\* those of the same team.
Interferes(f) ==
    disturbed' = disturbed \cup
      {g \in Flows \ {f} : ~In(g, "idle") /\
         (provider = "slack" \/ (flow[g].user = flow[f].user /\ flow[g].ident = flow[f].ident))}

----------------------------------------------------------------------------
\* The start routes.  Slack wants a workspace and, to authorize beside an installation,
\* one of its connections; the cookie of a provider holds the state of its last start.
GoogleStart(scope) == EnsureOauthPermissions(scope)
MicrosoftStart(scope) == EnsureOauthPermissions(scope)
AsanaStart(scope) == EnsureOauthPermissions(scope)
NotionStart(scope) == EnsureOauthPermissions(scope)
SlackStart(scope, beside) == scope = "workspace" /\ EnsureOauthPermissions(scope) /\ (beside => links # {})

ConnectStart(f, scope, beside) ==
    /\ In(f, "idle")
    /\ IF CASE provider = "google" -> GoogleStart(scope) [] provider = "microsoft" -> MicrosoftStart(scope)
            [] provider = "asana" -> AsanaStart(scope) [] provider = "notion" -> NotionStart(scope)
            [] provider = "slack" -> SlackStart(scope, beside)
         THEN /\ cookie' = f
              /\ flow' = [flow EXCEPT ![f] = [NoFlowYet EXCEPT !.pc = "away", !.scope = scope, !.user = signedIn]]
         ELSE Answer(f, "error") /\ UNCHANGED cookie
    /\ UNCHANGED <<rights, stored, disturbed, raced, disturbances>>

\* The browser comes back with the provider's error, without a code, or with a state
\* that is not the cookie's: the cookie stays.
RefuseCallback(f) ==
    /\ In(f, "away") /\ Answer(f, "error")
    /\ UNCHANGED <<rights, cookie, stored, disturbed, raced, disturbances>>

Return(f, pc) ==
    /\ In(f, "away") /\ cookie = f /\ cookie' = NoFlow
    /\ flow' = [flow EXCEPT ![f].pc = pc, ![f].user = signedIn]
    /\ UNCHANGED <<rights, stored, disturbed, raced, disturbances>>

\* The callback of Google, Microsoft and Asana looks at no rights again.
HandleCallback(f) == provider \in {"google", "microsoft", "asana"} /\ Return(f, "exchange")

SlackCallback(f) == provider = "slack" /\ Return(f, "permit")

\* Notion's state also names the user.
NotionCallback(f) ==
    /\ provider = "notion"
    /\ IF signedIn = flow[f].user THEN Return(f, "permit")
       ELSE /\ In(f, "away") /\ cookie = f /\ cookie' = NoFlow /\ Answer(f, "error")
            /\ UNCHANGED <<rights, stored, disturbed, raced, disturbances>>

\* The callbacks of Slack and Notion look at the rights again.
RecheckPermissions(f) ==
    /\ In(f, "permit")
    /\ IF EnsureOauthPermissions(flow[f].scope) THEN Goto(f, "exchange") ELSE Answer(f, "error")
    /\ UNCHANGED <<rights, cookie, stored, disturbed, raced, disturbances>>

\* What the provider's answers hold: everything, or all but one field or a group of
\* alternatives.  Each exchange says what it cannot do without.
Fields == {"access", "refresh", "expires", "expiration", "email", "principal", "verified", "id", "team",
           "botAccess", "botRefresh", "botExpires", "authTeam", "workspaceId", "ownerId", "botId"}
AnswersOf ==
    {Fields} \cup {Fields \ {x} : x \in Fields}
      \cup {Fields \ g : g \in {{"expires", "expiration"}, {"email", "principal"}, {"workspaceId", "ownerId", "botId"}}}

GoogleExchange(a) ==
    [ok |-> {"access", "refresh", "expires", "email", "verified"} \subseteq a, known |-> "id" \in a]
MicrosoftExchange(a) ==
    [ok |-> {"access", "refresh", "expires"} \subseteq a /\ a \cap {"email", "principal"} # {}, known |-> "id" \in a]
AsanaExchange(a) ==
    [ok |-> {"access", "refresh", "expires", "email"} \subseteq a, known |-> "id" \in a]

\* Slack's two tokens; auth.test tells the team of the user's.
SlackAuthTest(a) == "authTeam" \in a
SlackEmail(a) == "email" \in a
SlackExpiration(a) == a \cap {"expires", "expiration"} # {} /\ "botExpires" \in a
SlackExchange(a) ==
    [ok |-> /\ {"access", "refresh", "id", "team", "botAccess", "botRefresh"} \subseteq a
            /\ SlackEmail(a) /\ SlackAuthTest(a) /\ SlackExpiration(a),
     known |-> TRUE]

\* Notion names its workspace, or the owner, or the bot; a refresh token is optional.
NotionExchange(a) ==
    [ok |-> "access" \in a, known |-> a \cap {"workspaceId", "ownerId", "botId"} # {}]

ExchangeAuthorizationCode(a) ==
    CASE provider = "google" -> GoogleExchange(a) [] provider = "microsoft" -> MicrosoftExchange(a)
      [] provider = "asana" -> AsanaExchange(a) [] provider = "notion" -> NotionExchange(a)
      [] provider = "slack" -> SlackExchange(a)

\* The code is exchanged for a grant of account i.
ExchangeCode(f, i) ==
    /\ In(f, "exchange")
    /\ \E a \in AnswersOf :
         LET got == ExchangeAuthorizationCode(a)
             granted == [flow[f] EXCEPT !.granted = TRUE, !.ident = IF got.known THEN i ELSE Unknown]
         IN IF got.ok THEN flow' = [flow EXCEPT ![f] = [granted EXCEPT !.pc = IF provider = "slack" THEN "scopes" ELSE "match"]]
            ELSE Answer(f, "error")
    /\ UNCHANGED <<rights, cookie, stored, disturbed, raced, disturbances>>

\* validate_slack_bot_scopes: the bot must have every scope.
ValidateSlackBotScopes(f) ==
    /\ In(f, "scopes")
    /\ \/ Goto(f, "match")
       \/ flow' = [flow EXCEPT ![f].pc = "done", ![f].result = "error", ![f].unscoped = TRUE]
    /\ UNCHANGED <<rights, cookie, stored, disturbed, raced, disturbances>>

\* Mutant: a row that is shared with a workspace is taken for the workspace's.
MatchUnsharedRows(f) ==
    {r \in Rows : /\ row[r].state = "on" /\ row[r].user = flow[f].user
                  /\ flow[f].ident # Unknown /\ row[r].ident = flow[f].ident
                  /\ ~\E l \in links : l.source = r}

\* find_matching_personal_tokens: the user's rows of the account, none if its id is unknown.
MatchingRows(f) ==
    {r \in Rows : /\ row[r].state = "on" /\ row[r].user = flow[f].user
                  /\ flow[f].ident # Unknown /\ row[r].ident = flow[f].ident}

\* save_authorization_deduped: of several rows one is taken, the one updated last.
FindMatching(f) ==
    /\ In(f, "match")
    /\ \/ /\ MatchingRows(f) = {} /\ Goto(f, "store")
          /\ raced' = (raced \/ \E g \in Flows \ {f} : /\ In(g, "store") /\ flow[g].row = NoRow
                                                       /\ flow[g].user = flow[f].user
                                                       /\ flow[g].ident = flow[f].ident)
       \/ /\ \E r \in MatchingRows(f) : flow' = [flow EXCEPT ![f].pc = "revoke", ![f].row = r]
          /\ UNCHANGED raced
    /\ UNCHANGED <<rights, cookie, stored, disturbed, disturbances>>

\* revoke_provider_token: a failure is only logged, and Notion has no such call.
RevokeProviderToken(c) == IF provider = "notion" THEN {revoked} ELSE {revoked, revoked \cup {c}}

\* The stored grant is revoked at the provider before the row is written.
RevokeStored(f) ==
    /\ In(f, "revoke")
    /\ LET r == flow[f].row IN
       IF row[r].state = "on"
         THEN /\ revoked' \in RevokeProviderToken(row[r].cred)
              /\ Goto(f, "store") /\ Interferes(f)
         ELSE Answer(f, "error") /\ UNCHANGED <<revoked, disturbed>>
    /\ UNCHANGED <<rights, cookie, row, links, raced, disturbances>>

\* What follows the personal row.
AfterSave(f) ==
    CASE provider = "slack" -> [flow[f] EXCEPT !.pc = "find"]
      [] provider = "notion" /\ flow[f].scope = "workspace" -> [flow[f] EXCEPT !.pc = "promote"]
      [] OTHER -> [flow[f] EXCEPT !.pc = "done", !.result = "ok"]

\* store_authorization: the row is updated, or a new one inserted.
StoreAuthorization(f) ==
    /\ In(f, "store")
    /\ \/ \E r \in Rows : /\ flow[f].row = NoRow /\ row[r].state = "free"
                          /\ row' = [row EXCEPT ![r] = [state |-> "on", user |-> flow[f].user,
                                                        ident |-> flow[f].ident, cred |-> f]]
                          /\ flow' = [flow EXCEPT ![f] = [AfterSave(f) EXCEPT !.row = r]]
                          /\ Interferes(f)
       \/ /\ flow[f].row # NoRow /\ row[flow[f].row].state = "on"
          /\ row' = [row EXCEPT ![flow[f].row].cred = f]
          /\ flow' = [flow EXCEPT ![f] = IF provider = "slack" THEN AfterSave(f) ELSE [@ EXCEPT !.pc = "spread"]]
          /\ Interferes(f)
       \/ /\ flow[f].row # NoRow /\ row[flow[f].row].state # "on"
          /\ Answer(f, "error") /\ UNCHANGED <<row, disturbed>>
    /\ UNCHANGED <<rights, cookie, links, revoked, raced, disturbances>>

\* propagate_workspace_token_update.
SpreadGrant(f) ==
    /\ In(f, "spread")
    /\ links' = {IF l.source = flow[f].row THEN [l EXCEPT !.cred = f] ELSE l : l \in links}
    /\ flow' = [flow EXCEPT ![f] = AfterSave(f)]
    /\ Interferes(f)
    /\ UNCHANGED <<rights, cookie, row, revoked, raced, disturbances>>

\* Mutant: the connection of the team is not looked for.
FindNoInstall(f) ==
    /\ In(f, "find")
    /\ IF right = "none" THEN Answer(f, "error") ELSE Goto(f, "write")
    /\ UNCHANGED <<rights, cookie, stored, disturbed, raced, disturbances>>

\* install_slack_workspace_connection: membership, and the connection of the team.
FindInstall(f) ==
    /\ In(f, "find")
    /\ IF right = "none" THEN Answer(f, "error")
         ELSE flow' = [flow EXCEPT ![f].pc = "write", ![f].found = links # {}]
    /\ UNCHANGED <<rights, cookie, stored, disturbed, raced, disturbances>>

\* The connection found takes the grant, unless it has lost its row: that update is
\* refused.  Else one is inserted; a team has one connection in a workspace.
WriteInstall(f) ==
    /\ In(f, "write")
    /\ \/ /\ flow[f].found /\ \E l \in links : l.source # NoRow
          /\ links' = {[l EXCEPT !.cred = f] : l \in links}
          /\ Answer(f, "ok") /\ Interferes(f)
       \/ /\ ~flow[f].found /\ links = {} /\ row[flow[f].row].state = "on"
          /\ links' = {[source |-> flow[f].row, made |-> flow[f].row, cred |-> f]}
          /\ Answer(f, "ok") /\ Interferes(f)
       \/ /\ IF flow[f].found THEN \A l \in links : l.source = NoRow
             ELSE links # {} \/ row[flow[f].row].state # "on"
          /\ Answer(f, "error") /\ UNCHANGED <<links, disturbed>>
    /\ UNCHANGED <<rights, cookie, row, revoked, raced, disturbances>>

\* promote_connection_with_token of Notion's callback: a row has one connection in a
\* workspace, so a second is refused.
PromoteNotion(f) ==
    LET r == flow[f].row IN
    /\ In(f, "promote")
    /\ IF right # "none" /\ row[r].state = "on" /\ ~\E l \in links : l.made = r
         THEN /\ links' = links \cup {[source |-> r, made |-> r, cred |-> row[r].cred]}
              /\ Answer(f, "ok") /\ Interferes(f)
         ELSE Answer(f, "error") /\ UNCHANGED <<links, disturbed>>
    /\ UNCHANGED <<rights, cookie, row, revoked, raced, disturbances>>

----------------------------------------------------------------------------
(* What happens outside the flows, and failures. *)

Disturb(F) ==
    /\ disturbances > 0 /\ disturbances' = disturbances - 1
    /\ disturbed' = disturbed \cup {f \in F : ~In(f, "idle")}

RightsChange(r, a) ==
    /\ Disturb(Flows) /\ right' = r /\ account' = a /\ <<r, a>> # <<right, account>>
    /\ UNCHANGED <<provider, signedIn, cookie, stored, flow, raced>>

\* Another user signs in in the same browser.
SwitchUser ==
    /\ Disturb({}) /\ signedIn' \in People \ {signedIn}
    /\ UNCHANGED <<provider, right, account, cookie, stored, flow, raced>>

\* The row goes; its connections stay without it.
DropRow(r) ==
    /\ row[r].state = "on" /\ row' = [row EXCEPT ![r].state = "gone"]
    /\ links' = {IF l.source = r THEN [l EXCEPT !.source = NoRow] ELSE l : l \in links}

\* disconnect_connection: the grant is revoked, which may fail unnoticed, the row deleted.
DisconnectConnection(r) ==
    /\ Disturb(Flows) /\ DropRow(r)
    /\ revoked' \in RevokeProviderToken(row[r].cred)
    /\ UNCHANGED <<rights, cookie, flow, raced>>

\* revoke_connection: the provider has revoked the grant.
RevokeConnection(r) ==
    /\ Disturb(Flows) /\ DropRow(r) /\ revoked' = revoked \cup {row[r].cred}
    /\ UNCHANGED <<rights, cookie, flow, raced>>

\* remove_connection by its owner.
RemoveLink(l) ==
    /\ Disturb(Flows) /\ links' = links \ {l}
    /\ UNCHANGED <<rights, cookie, row, revoked, flow, raced>>

\* A query fails, or the server stops.
FlowFails(f) ==
    /\ flow[f].pc \notin {"idle", "away", "done"} /\ Disturb({f}) /\ Answer(f, "error")
    /\ UNCHANGED <<rights, cookie, stored, raced>>

----------------------------------------------------------------------------
OAuthConnectNext ==
    \/ \E f \in Flows :
         \/ \E scope \in {"workspace", "personal"}, beside \in BOOLEAN : ConnectStart(f, scope, beside)
         \/ RefuseCallback(f) \/ HandleCallback(f) \/ SlackCallback(f) \/ NotionCallback(f)
         \/ RecheckPermissions(f) \/ ValidateSlackBotScopes(f) \/ FindMatching(f)
         \/ \E i \in Idents : ExchangeCode(f, i)
         \/ RevokeStored(f) \/ StoreAuthorization(f) \/ SpreadGrant(f) \/ FindInstall(f) \/ WriteInstall(f) \/ PromoteNotion(f)
         \/ FlowFails(f)
    \/ \E r \in {"none", "viewer", "solo", "ok"}, a \in {"solo", "paid"} : RightsChange(r, a)
    \/ SwitchUser
    \/ \E r \in Rows : DisconnectConnection(r) \/ RevokeConnection(r)
    \/ \E l \in links : RemoveLink(l)

OAuthConnectSpec == OAuthConnectInit /\ [][OAuthConnectNext]_connectVars

----------------------------------------------------------------------------
(* However often it is connected, and whatever is shared with workspaces, an   *)
(* account of a user has one personal row, so a reconnect reaches the          *)
(* connections made from it: unless two callbacks looked for the row at once,  *)
(* which nothing prevents, or the provider does not tell the account's id.     *)
AccountIsStoredOnce ==
    ~raced => \A r, s \in Rows : /\ r # s /\ row[r].state = "on" /\ row[s].state = "on"
                                 /\ row[r].user = row[s].user /\ row[r].ident = row[s].ident
                                 => row[r].ident = Unknown

(* A flow the provider granted and nothing interfered with ends in success, and *)
(* what it was granted is stored, not revoked, in the row of the account, in    *)
(* every connection made from the row (Slack keeps its connections apart) and   *)
(* in the connection the flow installs.  Two exceptions are the code's: a Slack *)
(* connection whose row was deleted can never be installed again, and a Notion  *)
(* workspace connected once more is answered with an error; and a Slack bot     *)
(* with missing scopes is refused.                                              *)
GrantIsStored ==
    \A f \in Flows : In(f, "done") /\ flow[f].granted /\ f \notin disturbed /\ ~flow[f].unscoped =>
      LET r == flow[f].row
          kept == /\ row[r].state = "on" /\ row[r].cred = f /\ f \notin revoked
                  /\ provider # "slack" => \A l \in links : l.source = r => l.cred = f
      IN \/ flow[f].result = "ok" /\ kept /\ (provider = "slack" => \E l \in links : l.cred = f)
                                  /\ (provider = "notion" /\ flow[f].scope = "workspace" => \E l \in links : l.source = r)
         \/ /\ flow[f].result = "error" /\ kept
            /\ \/ provider = "slack" /\ \E l \in links : l.source = NoRow
               \/ provider = "notion" /\ flow[f].scope = "workspace" /\ \E l \in links : l.made = r
=============================================================================

--------------------------- MODULE ActionScripts ---------------------------
(***************************************************************************)
(* What the action nodes that call a service do before the call, in the     *)
(* order of the code: a script is a sequence of checks, each of which ends  *)
(* the action with an error where it does not hold, then the call.  A check *)
(* [do |-> "need", of |-> A] asks for one of the parameters A.              *)
(***************************************************************************)
EXTENDS Naturals, Sequences

Do(c) == [do |-> c, of |-> {}]
Need(A) == [do |-> "need", of |-> A]
\* Each of the parameters s is required.
Required(s) == [i \in DOMAIN s |-> Need({s[i]})]
\* The run belongs to a workspace.
HasWorkspace == Need({"workspace"})

Send == <<Do("send")>>
Fetch == <<Do("fetch")>>

\* resolve_connection_usage: a connection object, or the same keys beside it.
ConnectionUsage ==
    <<Need({"connection.scope", "connectionScope"}), Need({"connection.id", "connectionId"})>>

\* A workspace connection of the run's workspace and of the right provider.
SharedConnection(token) ==
    <<HasWorkspace, Do("member"), Do("plan"), Do(token), Do("home"), Do("provider")>>

----------------------------------------------------------------------------
(* Messaging. *)

\* infer_messaging_platform: named by the platform, or by what else the node says of itself.
InferPlatform == <<Need({"platform", "service", "nodeType", "label"})>>

\* execute_messaging, before Slack and Teams.
PremiumGate == InferPlatform \o <<HasWorkspace, Do("member"), Do("plan")>>

\* identity and postAsUser must agree; the connection is explicit.
SlackIdentity == <<Need({"identity", "postAsUser"}), Need({"sameIdentity"})>> \o ConnectionUsage

\* The identity is a workspace bot's; one Slack team in a workspace.
SlackBot ==
    <<Need({"identityFitsScope"}), HasWorkspace, Do("member"), Do("plan"), Do("slackToken"),
      Do("oauth"), Do("home"), Do("provider"), Do("team"), Do("oneTeam")>>

\* A personal token must be of the team of the workspace connection named with it.
SlackUser ==
    <<Need({"identityFitsScope"}), HasWorkspace, Need({"workspace_connection_id"}), Do("own"),
      Do("ownTeam"), Do("loadLink"), Do("home"), Do("provider"), Do("team"), Do("sameTeam"),
      Do("fewTeams")>>

SlackScript(scope) ==
    PremiumGate \o SlackIdentity \o (IF scope = "workspace" THEN SlackBot ELSE SlackUser)
      \o Required(<<"channel", "message">>) \o Send

\* A delivery method that is not given is inferred.
TeamsMethod(gives) ==
    IF "deliveryMethod" \in gives THEN "given"
      ELSE IF {"teamId", "channelId"} \subseteq gives THEN "delegated" ELSE "webhook"

\* sanitize_teams_params keeps the connection object only.
TeamsConnection == <<Need({"connection.scope"}), Need({"connection.id"})>>

TeamsText == Required(<<"message">>)
TeamsCard == Required(<<"cardJson", "cardObject", "adaptiveCard">>)

TeamsDelegated(scope, message) ==
    PremiumGate \o Required(<<"microsoft">>) \o TeamsConnection \o Required(<<"teamId", "channelId">>)
      \o (IF scope = "workspace" THEN SharedConnection("token") ELSE <<Do("own")>>)
      \o message \o Send

TeamsConnector == PremiumGate \o Required(<<"webhookUrl", "message", "themeColor", "httpUrl">>) \o Send

TeamsWorkflow ==
    PremiumGate \o Required(<<"webhookUrl", "workflowRawJson", "validJson">>)
      \o <<Need({"basic", "workflowHeaderName"}), Need({"basic", "workflowHeaderSecret"})>>
      \o Required(<<"httpUrl">>) \o Send

GoogleChat ==
    InferPlatform \o Required(<<"webhookUrl">>) \o <<Need({"cardJson", "message"}), Need({"hasCards", "message"})>>
      \o Required(<<"httpUrl">>) \o Send

----------------------------------------------------------------------------
(* Email: one request, with parameters of the node only. *)

Recipients == Required(<<"to", "validRecipients", "distinctRecipients">>)
SmtpScript ==
    Required(<<"smtpHost", "smtpPort", "smtpUser", "smtpPassword", "from">>) \o Recipients
      \o Required(<<"subject", "body", "tls">>) \o Send
\* A template of the service takes the place of subject and body.
Content == <<Need({"template", "subject"}), Need({"template", "body"})>>
SendGridScript == Required(<<"apiKey", "from">>) \o Recipients \o Content \o Send
MailgunScript == Required(<<"domain", "apiKey", "region", "from">>) \o Recipients \o Content \o Send
SesParams ==
    Required(<<"awsAccessKey", "awsSecretKey", "awsRegion", "sesVersion", "from">>) \o Recipients
      \o Content \o Required(<<"sesEndpoint">>)
SignAwsRequest == Required(<<"signable">>)
SesV1 == SignAwsRequest \o Send
SesV2 == SignAwsRequest \o Send

----------------------------------------------------------------------------
(* Asana, Notion and Google Sheets. *)

AsanaToken(scope) ==
    ConnectionUsage \o IF scope = "workspace" THEN SharedConnection("token") ELSE <<Do("own")>>

\* The operations on projects, subtasks and tasks.
AsanaProjects ==
    [createproject |-> Required(<<"workspaceGid", "name">>) \o Send,
     deleteproject |-> Required(<<"projectGid">>) \o Send,
     getproject    |-> Required(<<"projectGid">>) \o Fetch,
     listprojects  |-> Required(<<"workspaceGid">>) \o Fetch,
     updateproject |-> <<Need({"projectGid"}), Need({"name", "notes", "archived", "fields"})>> \o Send,
     createsubtask |-> Required(<<"parentTaskGid", "name">>) \o Send,
     listsubtasks  |-> Required(<<"parentTaskGid">>) \o Fetch]

AsanaTasks ==
    [createtask  |-> Required(<<"workspaceGid", "name">>) \o Send,
     deletetask  |-> Required(<<"taskGid">>) \o Send,
     gettask     |-> Required(<<"taskGid">>) \o Fetch,
     listtasks   |-> <<Need({"workspaceGid"}), Need({"projectGid", "tagGid", "assignee"})>> \o Fetch,
     movetask    |-> Required(<<"taskGid", "sectionGid">>) \o Send,
     searchtasks |-> Required(<<"workspaceGid", "query">>) \o Fetch,
     updatetask  |-> <<Need({"taskGid"}), Need({"name", "notes", "assignee", "due", "completed", "fields"})>>
                       \o Send]

\* Comments, projects and tags of a task, and users; another operation is skipped.
AsanaDetails ==
    [addcomment        |-> Required(<<"taskGid", "notes">>) \o Send,
     removecomment     |-> Required(<<"storyGid">>) \o Send,
     addtaskproject    |-> Required(<<"taskGid", "projectGid">>) \o Send,
     removetaskproject |-> Required(<<"taskGid", "projectGid">>) \o Send,
     addtasktag        |-> Required(<<"taskGid", "tagGid">>) \o Send,
     removetasktag     |-> Required(<<"taskGid", "tagGid">>) \o Send,
     getuser           |-> Required(<<"userGid">>) \o Fetch,
     listusers         |-> Required(<<"workspaceGid">>) \o Fetch,
     other             |-> <<Do("skip")>>]

NotionToken(scope) ==
    ConnectionUsage \o IF scope = "workspace" THEN SharedConnection("token")
                                              ELSE <<Do("own"), Do("provider")>>

\* build_properties: every value has a type and converts to it.
NotionProperties == Required(<<"typedProperties">>)
\* build_query_filter: none, or one with a property, a known operator and a value of the type.
NotionFilter == <<Need({"noFilter", "filterProperty"}), Need({"noFilter", "filterValue"})>>

NotionOps ==
    [create_database_row |-> Required(<<"databaseId">>) \o NotionProperties \o Required(<<"properties">>) \o Send,
     update_database_row |-> Required(<<"pageId">>) \o NotionProperties \o Required(<<"properties">>) \o Send,
     create_page         |-> <<Need({"parentDatabaseId", "parentPageId"})>> \o NotionProperties
                               \o <<Need({"title", "properties"})>> \o Send,
     query_database      |-> Required(<<"databaseId">>) \o NotionFilter \o Fetch]

\* execute_sheets: the parameters first, each column once.
SheetsParams ==
    Required(<<"spreadsheetId", "worksheet">>) \o ConnectionUsage
      \o Required(<<"columns", "columnNames", "distinctColumns">>)

SheetsScript(scope) ==
    SheetsParams \o (IF scope = "workspace" THEN SharedConnection("token") ELSE <<Do("own")>>) \o Send
=============================================================================

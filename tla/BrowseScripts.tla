--------------------------- MODULE BrowseScripts ---------------------------
(***************************************************************************)
(* The routes by which the editor lists what a connection can reach: Slack  *)
(* channels, Teams, spreadsheets, Notion databases, Asana objects.  Scripts *)
(* as in ActionScripts; the workspace is the connection's own.              *)
(***************************************************************************)
EXTENDS ActionScripts

\* A scope that a route does not serve.
Refused == <<Need({})>>

\* Slack list_channels and its ensure_workspace_token.
SlackChannels(scope) ==
    IF scope = "personal" THEN Refused
      ELSE Required(<<"workspace_connection_id">>)
             \o <<Do("listed"), Do("oauthRow"), Do("slackToken"), Do("home"), Do("plan"), Do("member")>>
             \o Fetch

\* determine_scope: no scope and no connection id means personal.
MicrosoftScope == <<Need({"connection_id"})>>

\* ensure_workspace_token of the Microsoft routes.
MicrosoftToken == <<Do("listed"), Do("token"), Do("home")>>

MicrosoftTeams(scope) ==
    IF scope = "personal" THEN Refused ELSE MicrosoftScope \o MicrosoftToken \o Fetch

MicrosoftChannels(scope) ==
    IF scope = "personal" THEN Refused
      ELSE MicrosoftScope \o MicrosoftToken \o Required(<<"teamId">>) \o Fetch

MicrosoftMembers(scope) ==
    IF scope = "personal" THEN <<Do("anyPlan")>> \o Refused
      ELSE MicrosoftScope \o <<Do("get"), Do("plan"), Do("member")>> \o MicrosoftToken
             \o Required(<<"teamId", "channelId">>) \o Fetch

\* determine_scope_and_token: membership only, whatever the plan.
GoogleToken(scope) ==
    Required(<<"scope", "connection_id">>)
      \o IF scope = "workspace" THEN <<Do("get"), Do("token")>> ELSE <<Do("own"), Do("provider")>>

\* The sheets of a spreadsheet are kept for 30 s, whoever asked.
GoogleSheets(scope) == GoogleToken(scope) \o Required(<<"spreadsheetId">>) \o <<Do("cache")>> \o Fetch
GoogleFiles(scope) == GoogleToken(scope) \o Fetch
\* The access token itself is the answer.
GoogleAccessToken(scope) == GoogleToken(scope) \o <<Do("handOut")>>

\* resolve_access_token of the Notion routes.
NotionRouteToken(scope) ==
    Required(<<"connectionScope", "connectionId">>)
      \o IF scope = "workspace" THEN <<Do("get"), Do("token"), Do("provider"), Do("home")>>
                                ELSE <<Do("own"), Do("provider")>>
NotionDatabases(scope) == NotionRouteToken(scope) \o Fetch
NotionSchema(scope) == NotionRouteToken(scope) \o Fetch

\* ensure_workspace_token of the Asana routes.
AsanaRouteToken == <<Do("listed"), Do("plan"), Do("member"), Do("token"), Do("home")>>
AsanaRoute(scope, needs) ==
    <<Do("anyPlan")>> \o IF scope = "personal" THEN Refused
                           ELSE Required(<<"connection_id">>) \o AsanaRouteToken \o needs \o Fetch

\* Workspaces, projects, tags, sections and teams.
AsanaLists(scope) == AsanaRoute(scope, <<>>)
AsanaUsers(scope) == AsanaRoute(scope, <<>>)
AsanaTaskList(scope) == AsanaRoute(scope, Required(<<"projectGid">>))
AsanaTaskDetails(scope) == AsanaRoute(scope, <<>>)
AsanaStories(scope) == AsanaRoute(scope, <<>>)
=============================================================================

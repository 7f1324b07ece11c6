----------------------------- MODULE Visibility -----------------------------
(***************************************************************************)
(* The routes that only read: what one user is shown of the workspaces, and *)
(* what an admin is shown in the console.  A route is the queries it makes, *)
(* in order: a query may demand rights, it draws items, and nothing ties    *)
(* one query to the next, so memberships, plans and homes change between.   *)
(* An answer without any item and a refusal are the same here.              *)
(***************************************************************************)
EXTENDS Naturals, Sequences

CONSTANTS
    Places,     \* workspaces
    NoPlace,
    MaxShifts   \* bound: changes while a request is handled

ASSUME VisibilityAssumption == NoPlace \notin Places /\ MaxShifts \in Nat

VARIABLES
    standing,     \* the user's role in each workspace
    planOf,       \* the plan of each workspace
    invitedTo,    \* the workspaces with a pending invitation for the user's address
    flowRow,      \* a workflow: whether it is the user's, and its workspace
    deletion,     \* whether the user's deletion token is fresh
    claims,       \* the session: the plan it names and whether it is an admin's
    asker,        \* the request
    shifts

visibilityVars == <<standing, planOf, invitedTo, flowRow, deletion, claims, asker, shifts>>
facts == <<standing, planOf, invitedTo, flowRow, deletion>>

Roles == {"none", "user", "admin", "owner"}  \* a viewer reads as a user does
NoAsker == [pc |-> "idle", todo |-> <<>>, place |-> NoPlace, drawn |-> {}, listed |-> {}, ids |-> {}, moments |-> {}]

----------------------------------------------------------------------------
\* The rights of the moment.
Having(name, holders) == {<<name, w>> : w \in holders}
When(name, holds) == IF holds THEN {<<name, NoPlace>>} ELSE {}

RightsNow ==
    UNION {Having("member", {w \in Places : standing[w] # "none"}),
           Having("admin", {w \in Places : standing[w] \in {"admin", "owner"}}),
           Having("owner", {w \in Places : standing[w] = "owner"}),
           Having("paid", {w \in Places : planOf[w] = "workspace"}),
           Having("invited", invitedTo),
           When("reader", flowRow.mine \/ \E w \in Places : w = flowRow.home /\ standing[w] # "none"),
           When("holder", deletion),
           When("staff", claims.admin)}

\* What an item may be shown for: each of these groups was held at one moment.
Guarded ==
    [connections |-> {{"member", "paid"}}, workspace |-> {{"member"}}, members |-> {{"member"}},
     invitations |-> {{"admin"}}, secrets |-> {{"paid"}, {"admin"}}, usage |-> {{"member"}, {"paid"}},
     team |-> {{"owner"}}, flows |-> {{"member"}}, runs |-> {{"reader"}}, pending |-> {{"invited"}},
     summary |-> {{"holder"}}, console |-> {{"staff"}}, own |-> {}]

Names(group, w) == {<<r, w>> : r \in group}

VisibilityTypeOK ==
    /\ standing \in [Places -> Roles] /\ planOf \in [Places -> {"solo", "workspace"}]
    /\ invitedTo \subseteq Places /\ deletion \in BOOLEAN /\ shifts \in 0..MaxShifts
    /\ flowRow \in [mine: BOOLEAN, home: Places \cup {NoPlace}]
    /\ asker.pc \in {"idle", "queries", "owned", "memberships", "theirs", "done"}
    /\ \A i \in asker.drawn : i[1] \in DOMAIN Guarded /\ i[2] \in Places \cup {NoPlace}

VisibilityInit ==
    /\ standing \in [Places -> Roles] /\ planOf \in [Places -> {"solo", "workspace"}]
    /\ invitedTo \in SUBSET Places /\ flowRow \in [mine: BOOLEAN, home: Places \cup {NoPlace}]
    /\ deletion \in BOOLEAN
    /\ claims \in [plan: {"solo", "workspace"} \cup Places, admin: BOOLEAN]
    /\ asker = NoAsker /\ shifts = 0

----------------------------------------------------------------------------
\* A query that demands rights and draws items; a failure of it ends the request with an
\* error unless it is made in passing.
Query(needs, draws) == <<[needs |-> needs, draws |-> draws, firm |-> TRUE]>>
InPassing(draws) == <<[needs |-> {}, draws |-> draws, firm |-> FALSE]>>
Ask(name, w) == Query({<<name, w>>}, {})
Show(item, w) == Query({}, {<<item, w>>})
Own == Show("own", NoPlace)

\* Mutant: the plan is not looked at.
EnsureOnlyMembership(w) == Ask("member", w)

\* ensure_workspace_membership: membership and plan come from one query.
EnsureWorkspaceMembership(w) == Query({<<"member", w>>, <<"paid", w>>}, {})

EnsureWorkspaceAdmin(w) == Ask("admin", w)
EnsureWorkspaceOwner(w) == Ask("owner", w)
LoadMembership(w) == Ask("member", w)
WorkspacePlan(w) == Ask("paid", w)

\* find_workflow_for_member: the owner's, or of a workspace the user is a member of.
FetchWorkflowForMember == Ask("reader", NoPlace)

\* --- connections
ListForWorkspace(w) == Show("connections", w)
ListConnections(w) == EnsureWorkspaceMembership(w) \o Own \o ListForWorkspace(w)
ListProviderConnections(w) == EnsureWorkspaceMembership(w) \o Own \o ListForWorkspace(w)

\* A personal token ends the lookup; else the connection is drawn through the memberships
\* and the membership is looked at once more.
ListForUserMemberships(w) == Query({<<"member", w>>}, {<<"connections", w>>})
GetOwnConnection == Own
GetConnectionById(w) == Own \o ListForUserMemberships(w) \o EnsureWorkspaceMembership(w)

\* --- workspaces
ListUserWorkspaces(w) == Query({<<"member", w>>}, {<<"workspace", w>>})
PendingInvitationsForEmail(w) == Query({<<"invited", w>>}, {<<"pending", w>>})
ListPendingInvites(w) == PendingInvitationsForEmail(w) \o Own
ListMembers(w) == Show("members", w)
ListWorkspaceMembers(w) == LoadMembership(w) \o ListMembers(w)
ListWorkspaceSecretOwnership(w) == WorkspacePlan(w) \o EnsureWorkspaceAdmin(w) \o Own \o Show("secrets", w)
InvitationsOf(w) == Show("invitations", w)
ListWorkspaceInvitations(w) == EnsureWorkspaceAdmin(w) \o InvitationsOf(w)
FindInvitationByToken == Own
PreviewInvitation == FindInvitationByToken \o InPassing({<<"own", NoPlace>>})
WorkspaceToSoloPreview(w) == EnsureWorkspaceOwner(w) \o Show("team", w)

\* get_plan_usage: the user's own usage, then membership and plan, then the workspace's; of a
\* workspace without the paid plan only the plan is told.
BillingCycle(w) == Show("usage", w)
RunQuota(w) == Show("usage", w)
MemberRunCounts(w) == Show("usage", w)
CountSeats(w) == Show("usage", w) \o Show("usage", w)
GetPlanUsage(w) ==
    Own \o LoadMembership(w) \o WorkspacePlan(w) \o BillingCycle(w) \o RunQuota(w) \o MemberRunCounts(w)
        \o ListMembers(w) \o CountSeats(w)
GetPlanOfWorkspace(w) == Own \o LoadMembership(w) \o Show("workspace", w)

\* --- runs and what belongs to a workflow
ListRunsPaged == Show("runs", NoPlace)
LogsOf == Show("runs", NoPlace)
GetWorkflowRunStatus == FetchWorkflowForMember \o Show("runs", NoPlace) \o Show("runs", NoPlace)
ListActiveRunsOf == FetchWorkflowForMember \o Show("runs", NoPlace)
ListOwnActiveRuns == Own
ListRunsForWorkflow == FetchWorkflowForMember \o ListRunsPaged
DownloadRunJson == FetchWorkflowForMember \o Show("runs", NoPlace) \o Show("runs", NoPlace)
ListWorkflowLogs == FetchWorkflowForMember \o LogsOf
GetEgressAllowlist == Query({<<"reader", NoPlace>>}, {<<"runs", NoPlace>>})
GetWebhookUrl == Query({<<"reader", NoPlace>>}, {<<"runs", NoPlace>>})

\* The rows of dead letters and blocked requests carry the user.
DeadLettersOfUser == Own
BlockEventsOfUser == Own
ListDeadLetters == DeadLettersOfUser
ListEgressBlockEvents == BlockEventsOfUser

\* get_account_deletion_summary: the token's context, counts and settings.  (The billing
\* cycles it stores on the way are written as Billing writes them.)
AccountDeletionContext == Ask("holder", NoPlace)
AccountDeletionCounts == Show("summary", NoPlace)
GetAccountDeletionSummary == AccountDeletionContext \o AccountDeletionCounts \o Show("summary", NoPlace)

\* --- the console: admin_gate believes the claims of the session
AdminGate == Ask("staff", NoPlace)
Console == Show("console", NoPlace)
InPassingConsole == InPassing({<<"console", NoPlace>>})
ListUsers == AdminGate \o Console \o Console
GetUser == AdminGate \o Console
ListUserConnections == AdminGate \o Console \o Console
LoginActivityForUser == Console
ListLoginActivity == AdminGate \o LoginActivityForUser
ListAllWorkspaces == AdminGate \o Console \o Console
GetWorkspace == AdminGate \o Console \o InPassingConsole \o InPassingConsole \o InPassingConsole \o InPassingConsole \o Console
ListMembersOf == AdminGate \o Console
ListWorkspaceWorkflows == AdminGate \o InPassingConsole \o InPassingConsole
ListAllWorkflows == AdminGate \o Console \o Console
GetAnyWorkflow == AdminGate \o Console \o InPassingConsole \o Console
GetWorkflowJson == AdminGate \o Console

ScriptsAt(w) ==
    {ListConnections(w), ListProviderConnections(w), GetOwnConnection, GetConnectionById(w), ListUserWorkspaces(w),
     ListPendingInvites(w), ListWorkspaceMembers(w), ListWorkspaceSecretOwnership(w), ListWorkspaceInvitations(w),
     PreviewInvitation, WorkspaceToSoloPreview(w), GetPlanUsage(w), GetPlanOfWorkspace(w), GetWorkflowRunStatus,
     ListActiveRunsOf, ListOwnActiveRuns, ListRunsForWorkflow, DownloadRunJson, ListWorkflowLogs, GetEgressAllowlist,
     GetWebhookUrl, ListDeadLetters, ListEgressBlockEvents, GetAccountDeletionSummary, ListUsers, GetUser,
     ListUserConnections, ListLoginActivity, ListAllWorkspaces, GetWorkspace, ListMembersOf, ListWorkspaceWorkflows,
     ListAllWorkflows, GetAnyWorkflow, GetWorkflowJson}

----------------------------------------------------------------------------
Refuse == asker' = [asker EXCEPT !.pc = "done", !.todo = <<>>, !.drawn = {}]

BeginRead(w, script) ==
    /\ asker.pc = "idle"
    /\ asker' = [asker EXCEPT !.pc = "queries", !.place = w, !.todo = script, !.moments = {RightsNow}]
    /\ UNCHANGED <<facts, claims, shifts>>

RunQuery ==
    /\ asker.pc = "queries" /\ asker.todo # <<>>
    /\ LET q == Head(asker.todo) IN
       IF q.needs \subseteq RightsNow
         THEN asker' = [asker EXCEPT !.todo = Tail(@), !.drawn = @ \cup q.draws]
         ELSE Refuse
    /\ UNCHANGED <<facts, claims, shifts>>

QueryFails ==
    /\ asker.pc = "queries" /\ asker.todo # <<>>
    /\ IF Head(asker.todo).firm THEN Refuse ELSE asker' = [asker EXCEPT !.todo = Tail(@)]
    /\ UNCHANGED <<facts, claims, shifts>>

AnswerRead ==
    /\ asker.pc = "queries" /\ asker.todo = <<>>
    /\ asker' = [asker EXCEPT !.pc = "done"]
    /\ UNCHANGED <<facts, claims, shifts>>

----------------------------------------------------------------------------
\* list_workflows keeps what it read: the user's workflows, the memberships, and then the
\* workflows of the workspaces these gave.  Every workflow passes the plan context.
PlanContextForUser(explicit) ==
    LET named == IF explicit # NoPlace THEN explicit ELSE IF claims.plan \in Places THEN claims.plan ELSE NoPlace IN
    IF named # NoPlace
      THEN [kind |-> IF standing[named] = "none" THEN "unknown" ELSE IF standing[named] = "owner" THEN "owned" ELSE "member",
            at |-> named]
      ELSE [kind |-> IF claims.plan = "solo" THEN "solo" ELSE "unknown", at |-> NoPlace]

CanAccessWorkspaceInContext(context, w) ==
    \/ context.kind \in {"solo", "owned"} /\ standing[w] = "owner"
    \/ context.kind \in {"owned", "member"} /\ context.at = w
    \/ context.kind = "unknown" /\ standing[w] # "none"

CanAccessWorkflowInContext(home, context) ==
    IF home \in Places THEN CanAccessWorkspaceInContext(context, home) ELSE context.kind # "member"

WorkspaceIds(context) == {w \in Places : standing[w] # "none" /\ CanAccessWorkspaceInContext(context, w)}

ListWorkflowsByUser(explicit) ==
    /\ asker.pc = "idle"
    /\ asker' = [asker EXCEPT !.pc = "memberships", !.place = explicit, !.moments = {RightsNow},
                              !.listed = IF flowRow.mine THEN {flowRow.home} ELSE {}]
    /\ UNCHANGED <<facts, claims, shifts>>

ReadMemberships ==
    LET context == PlanContextForUser(asker.place) IN
    /\ asker.pc = "memberships"
    /\ IF asker.place # NoPlace /\ context.kind \notin {"owned", "member"}
         THEN Refuse
         ELSE asker' = [asker EXCEPT !.pc = "theirs", !.ids = WorkspaceIds(context),
                !.drawn = {IF h \in Places THEN <<"flows", h>> ELSE <<"own", NoPlace>> :
                             h \in {g \in asker.listed : CanAccessWorkflowInContext(g, context)}}]
    /\ UNCHANGED <<facts, claims, shifts>>

ListWorkflowsByWorkspaceIds ==
    /\ asker.pc = "theirs"
    /\ asker' = [asker EXCEPT !.pc = "done",
                   !.drawn = @ \cup {<<"flows", w>> : w \in {v \in asker.ids : v = flowRow.home}}]
    /\ UNCHANGED <<facts, claims, shifts>>

ListingFails ==
    /\ asker.pc \in {"memberships", "theirs"} /\ Refuse
    /\ UNCHANGED <<facts, claims, shifts>>

----------------------------------------------------------------------------
\* Meanwhile others change the members, plans, invitations and the workflow's workspace.
Shift == /\ asker.pc \notin {"idle", "done"} /\ shifts < MaxShifts /\ shifts' = shifts + 1
         /\ UNCHANGED claims
         /\ asker' = [asker EXCEPT !.moments = @ \cup {RightsNow'}]

RoleShifts(w, r) ==
    /\ r # standing[w] /\ standing' = [standing EXCEPT ![w] = r]
    /\ UNCHANGED <<planOf, invitedTo, flowRow, deletion>> /\ Shift

PlanShifts(w) ==
    /\ planOf' = [planOf EXCEPT ![w] = IF @ = "solo" THEN "workspace" ELSE "solo"]
    /\ UNCHANGED <<standing, invitedTo, flowRow, deletion>> /\ Shift

InvitationShifts(w) ==
    /\ invitedTo' = IF w \in invitedTo THEN invitedTo \ {w} ELSE invitedTo \cup {w}
    /\ UNCHANGED <<standing, planOf, flowRow, deletion>> /\ Shift

HomeShifts(h) ==
    /\ h # flowRow.home /\ flowRow' = [flowRow EXCEPT !.home = h]
    /\ UNCHANGED <<standing, planOf, invitedTo, deletion>> /\ Shift

DeletionIsUsed ==
    /\ deletion /\ deletion' = FALSE
    /\ UNCHANGED <<standing, planOf, invitedTo, flowRow>> /\ Shift

VisibilityNext ==
    \/ \E w \in Places : \E script \in ScriptsAt(w) : BeginRead(w, script)
    \/ RunQuery \/ QueryFails \/ AnswerRead
    \/ \E w \in Places \cup {NoPlace} : ListWorkflowsByUser(w)
    \/ ReadMemberships \/ ListWorkflowsByWorkspaceIds \/ ListingFails
    \/ \E w \in Places : (\E r \in Roles : RoleShifts(w, r)) \/ PlanShifts(w) \/ InvitationShifts(w)
    \/ (\E h \in Places \cup {NoPlace} : HomeShifts(h)) \/ DeletionIsUsed

VisibilitySpec == VisibilityInit /\ [][VisibilityNext]_visibilityVars

----------------------------------------------------------------------------
(* Whatever an answer shows, the user had the rights it demands while the       *)
(* request was handled: each group of them at one moment, though the groups     *)
(* need not have been held together (plan and role are queries of their own),   *)
(* and though a right may be gone when the items are drawn.  For list_workflows *)
(* it says that a workflow is shown under a workspace of which the user was a   *)
(* member, even if it came into that workspace only after the user had left.    *)
ReadsAreEntitled ==
    asker.pc = "done" =>
        \A i \in asker.drawn : \A group \in Guarded[i[1]] :
            \E moment \in asker.moments : Names(group, i[2]) \subseteq moment
=============================================================================

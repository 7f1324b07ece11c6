------------------------------ MODULE MCTenancy ------------------------------
(* Who may use what: Membership, Billing, Connections, Sessions, Accounts,    *)
(* Workflows and Secrets.  They share no state, so one run checks them side   *)
(* by side: part says which of them moves, and the state spaces add up.       *)
(* Membership and Connections move in parts of their own for the operations   *)
(* that interfere.                                                            *)
EXTENDS Membership, Billing, Connections, Sessions, Accounts, Workflows, Secrets

CONSTANTS c1, c2, x1, x2, h1, h2, p1, p2, t1, k1, k2, w1, w2, a1, a2, e1, e2, j1, j2

VARIABLE part

TwoCalls == {c1, c2}
TwoCheckouts == {x1, x2}
TwoHandlers == {h1, h2}
TwoTasks == {p1, p2}
TwoConns == {k1, k2}
TwoWebRequests == {w1, w2}
TwoSignups == {a1, a2}
TwoEditRequests == {e1, e2}
TwoJobs == {j1, j2}
OneServer == [p \in TwoTasks |-> "s1"]

\* The operations that move in each part.
CallsOf(p) ==
    CASE p = "roles" -> {"role", "remove", "leave", "solo"}
      [] p = "seats" -> {"add", "invite", "accept", "decline", "leave"}
      [] p = "shares" -> {"share", "leave", "revoke"}
TasksOf(p) ==
    CASE p = "locks" -> {"promote", "shared", "use"}
      [] p = "copies" -> {"promote", "connect", "use"}
      [] p = "uses" -> {"promote", "connect", "use", "remove", "disconnect", "revoke", "shared"}

MemberParts == {"roles", "seats", "shares"}
ConnParts == {"locks", "copies", "uses"}
AccountParts == {"signups", "deletions"}
Parts == MemberParts \cup ConnParts \cup AccountParts \cup {"billing", "sessions", "editing", "settings"}

TenancyInit ==
    /\ part \in Parts
    /\ MembershipInit /\ BillingInit /\ ConnectionsInit /\ SessionsInit /\ AccountsInit
    /\ WorkflowsInit /\ SecretsInit
    /\ part \notin ConnParts => rotates /\ token[t1].row
    /\ part = "locks" => rotates
    /\ part \notin AccountParts => closed
    /\ standing[Creator] = "admin"
    /\ part # "editing" => ~flow.shared /\ \A u \in Authors \ {Creator} : standing[u] = "none"
    /\ part # "settings" => settings = [u \in Holders |-> Empty]
    /\ part \notin MemberParts => role[Founder] = "owner" /\ \A u \in Users \ {Founder} : role[u] = "none"

\* Two servants of a kind are alike: the second serves while the first is busy.
InOrder(before1, before2, after2) == before1 = "idle" /\ before2 = "idle" => after2 = "idle"

MembersMove ==
    /\ part \in MemberParts /\ MembershipNext
    /\ \A c \in Calls : call'[c].op \in CallsOf(part) \cup {"none"}
    /\ InOrder(call[c1].pc, call[c2].pc, call'[c2].pc)
    /\ part # "shares" => homes' = homes
    /\ part # "seats" => invite' = invite
    /\ UNCHANGED <<part, billingVars, connVars, sessionVars, accountVars, flowVars, settingsVars>>

ConnectionsMove ==
    /\ part \in ConnParts /\ ConnectionsNext
    /\ \A p \in Tasks : task'[p].op \in TasksOf(part) \cup {"none"}
    /\ InOrder(task[p1].pc, task[p2].pc, task'[p2].pc)
    /\ part # "copies" => conn'[k2].row = "unused"
    /\ part # "locks" => issued'[t1] <= 1
    /\ part = "locks" => dead' = {}
    /\ UNCHANGED <<part, memberVars, billingVars, sessionVars, accountVars, flowVars, settingsVars>>

AccountsMove ==
    /\ part \in AccountParts /\ AccountsNext
    /\ signup[a1].pc = "idle" => signup'[a2] = signup[a2]
    /\ part = "signups" => subscribed' = {} /\ deletion' = {}
    /\ part = "deletions" => signup'[a2] = signup[a2]
    /\ UNCHANGED <<part, memberVars, billingVars, connVars, sessionVars, flowVars, settingsVars>>

BillingMoves ==
    /\ part = "billing" /\ BillingNext
    /\ InOrder(handler[h1].pc, handler[h2].pc, handler'[h2].pc)
    /\ stripe[x1].session = "none" => stripe'[x2] = stripe[x2]
    /\ UNCHANGED <<part, memberVars, connVars, sessionVars, accountVars, flowVars, settingsVars>>

SessionsMove ==
    /\ part = "sessions" /\ SessionsNext
    /\ InOrder(web[w1].pc, web[w2].pc, web'[w2].pc)
    /\ UNCHANGED <<part, memberVars, billingVars, connVars, accountVars, flowVars, settingsVars>>

\* Of two requests one is a save: it is what the others race.
WorkflowsMove ==
    /\ part = "editing" /\ WorkflowsNext
    /\ InOrder(edit[e1].pc, edit[e2].pc, edit'[e2].pc)
    /\ "save" \in {edit'[e1].op, edit'[e2].op} \/ "none" \in {edit'[e1].op, edit'[e2].op}
    /\ standing'[Creator] = standing[Creator]
    /\ UNCHANGED <<part, memberVars, billingVars, connVars, sessionVars, accountVars, settingsVars>>

SecretsMove ==
    /\ part = "settings" /\ SecretsNext
    /\ InOrder(job[j1].pc, job[j2].pc, job'[j2].pc)
    /\ \A q \in SettingsJobs : job'[q].name \notin AutoNames
    /\ UNCHANGED <<part, memberVars, billingVars, connVars, sessionVars, accountVars, flowVars>>

TenancyNext ==
    \/ MembersMove \/ BillingMoves \/ ConnectionsMove \/ SessionsMove \/ AccountsMove
    \/ WorkflowsMove \/ SecretsMove

TenancySpec ==
    TenancyInit
    /\ [][TenancyNext]_<<part, memberVars, billingVars, connVars, sessionVars, accountVars,
                      flowVars, settingsVars>>

\* What does not move keeps its initial value: the part that moves is checked.
TenancyTypeOK ==
    /\ part \in Parts
    /\ part \in MemberParts => MembershipTypeOK
    /\ part \in ConnParts => ConnectionsTypeOK
    /\ part \in AccountParts => AccountsTypeOK
    /\ part = "billing" => BillingTypeOK
    /\ part = "sessions" => SessionsTypeOK
    /\ part = "editing" => WorkflowsTypeOK
    /\ part = "settings" => SecretsTypeOK

\* The histories hold for good, and the properties say nothing of what follows
\* them, so it is not explored.  In the seats part every member is alike.
TenancyBound ==
    /\ part = "roles" => ~overwritten /\ ~dangling
    /\ part = "seats" => /\ ~crowded /\ ~overwritten
                         /\ \A c \in Calls : call[c].role # "admin"
                         /\ \A u \in Users : role[u] # "admin"
    /\ part = "billing" => ~upset /\ declined = {}
    /\ part \in {"copies", "uses"} => ~apart
    /\ part = "sessions" => outrun = {}
    /\ part = "signups" => stranded = {}
    /\ part = "editing" => flow.exists /\ flow.updatedAt < MaxVersion
    /\ part = "settings" => lost = {} /\ writes < MaxSettingsWrites
=============================================================================

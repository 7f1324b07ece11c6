----------------------------- MODULE Membership -----------------------------
(***************************************************************************)
(* The members of one workspace on the workspace plan, its invitations and *)
(* the connections its members share with it.  A request is a sequence of  *)
(* statements, none in a common transaction, so requests interleave        *)
(* between their reads and their writes.  A statement that fails makes the *)
(* handler compensate; a server that stops does not.                       *)
(***************************************************************************)
EXTENDS Integers, FiniteSets

CONSTANTS
    Users,
    Founder,          \* the user who created the workspace
    Invites,
    Calls,            \* requests being served at once
    NoUser, NoInvite,
    MemberLimit,      \* workspace_member_limit
    MaxMemberFaults   \* bound: failed statements and stopped servers

ASSUME MembershipAssumption ==
    /\ IsFiniteSet(Users) /\ IsFiniteSet(Invites) /\ IsFiniteSet(Calls)
    /\ Founder \in Users /\ NoUser \notin Users /\ NoInvite \notin Invites
    /\ MemberLimit \in Nat \ {0} /\ MaxMemberFaults \in Nat

VARIABLES
    role,          \* workspace_members, "none" for no row
    ownerId,       \* workspaces.owner_id
    invite,        \* workspace_invitations
    shares,        \* users with a connection shared with the workspace
    homes,         \* users with a membership of another workspace
    call,          \* the requests being served
    overwritten,   \* history: an owner row was deleted or changed outside a transfer
    dangling,      \* history: a transfer was cut off or could not restore the owner
    leaked,        \* history: users whose share outlived a check or a cut removal
    crowded,       \* history: seats were counted while another call held or freed one
    memberFaults   \* faults that may still happen

memberVars == <<role, ownerId, invite, shares, homes, call, overwritten, dangling,
                leaked, crowded, memberFaults>>
historyVars == <<overwritten, dangling, leaked, crowded>>

\* Viewers and users have the same rights in these requests.
Granted == {"user", "admin"}
Roles == Granted \cup {"owner"}
Ops == {"add", "invite", "role", "remove", "leave", "revoke", "solo", "accept", "decline", "share"}
Pcs == {"list", "members", "pending", "add", "insert", "setRole", "demote", "promote", "restore",
        "delete", "purge", "provision", "readd", "mark", "share"}

NoCall == [pc |-> "idle", op |-> "none", actor |-> NoUser, target |-> NoUser, role |-> "none",
           invite |-> NoInvite, seats |-> 0, was |-> [u \in Users |-> "none"], only |-> FALSE]

CallRecords ==
    [pc: Pcs \cup {"idle"}, op: Ops \cup {"none"}, actor: Users \cup {NoUser},
     target: Users \cup {NoUser}, role: Roles \cup {"none"}, invite: Invites \cup {NoInvite},
     seats: 0..Cardinality(Users), was: [Users -> Roles \cup {"none"}], only: BOOLEAN]

MembershipTypeOK ==
    /\ role \in [Users -> Roles \cup {"none"}] /\ ownerId \in Users
    /\ invite \in [Invites -> [status: {"unsent", "pending", "accepted", "declined", "revoked"},
                               expired: BOOLEAN, user: Users \cup {NoUser},
                               role: Granted \cup {"none"}]]
    /\ shares \subseteq Users /\ homes \subseteq Users
    /\ call \in [Calls -> CallRecords]
    /\ overwritten \in BOOLEAN /\ dangling \in BOOLEAN /\ crowded \in BOOLEAN
    /\ leaked \subseteq Users
    /\ memberFaults \in 0..MaxMemberFaults

\* The workspace after its first members joined.
MembershipInit ==
    /\ role \in [Users -> Roles \cup {"none"}]
    /\ \A u \in Users : role[u] = "owner" <=> u = Founder
    /\ Cardinality({u \in Users : role[u] # "none"}) <= MemberLimit
    /\ ownerId = Founder
    /\ invite = [i \in Invites |-> [status |-> "unsent", expired |-> FALSE,
                                    user |-> NoUser, role |-> "none"]]
    /\ shares = {} /\ homes = Users
    /\ call = [c \in Calls |-> NoCall]
    /\ overwritten = FALSE /\ dangling = FALSE /\ leaked = {} /\ crowded = FALSE
    /\ memberFaults = MaxMemberFaults

----------------------------------------------------------------------------
Members == {u \in Users : role[u] # "none"}
IsAdmin(a) == role[a] \in {"owner", "admin"}

\* find_invitation_by_token and the conditions of load_active_invitation.
ActiveInvitation(i) == invite[i].status = "pending" /\ ~invite[i].expired
Pending == {i \in Invites : ActiveInvitation(i)}

\* The unique index on the owner of a workspace refuses a second owner row.
SecondOwner(u, r) == r = "owner" /\ \E v \in Users \ {u} : role[v] = "owner"

Goto(c, pc) == call' = [call EXCEPT ![c].pc = pc]
Return(c) == call' = [call EXCEPT ![c] = NoCall]
At(c, pc) == call[c].pc = pc

\* The other calls that take or give back a seat.
HoldsSeat(d) == \/ call[d].pc \in {"pending", "add", "insert", "mark", "delete", "purge", "provision",
                                    "readd"}
                \/ call[d].op = "accept"

\* The row of u is changed outside a transfer.
Overwrites(u) == overwritten' = (overwritten \/ role[u] = "owner")

----------------------------------------------------------------------------
(* A call begins: the role of its actor is read. *)

\* ensure_workspace_admin; the payload's role is not owner.
BeginAdd(c, a, u, r) ==
    /\ At(c, "idle") /\ IsAdmin(a)
    /\ call' = [call EXCEPT ![c] = [NoCall EXCEPT !.pc = "members", !.op = "add", !.actor = a,
                                                  !.target = u, !.role = r]]
    /\ UNCHANGED <<role, ownerId, invite, shares, homes, historyVars, memberFaults>>

BeginInvite(c, a, i, u, r) ==
    /\ At(c, "idle") /\ IsAdmin(a)
    /\ invite[i].status = "unsent" /\ \A d \in Calls : call[d].invite # i
    /\ call' = [call EXCEPT ![c] = [NoCall EXCEPT !.pc = "members", !.op = "invite", !.actor = a,
                                                  !.target = u, !.role = r, !.invite = i]]
    /\ UNCHANGED <<role, ownerId, invite, shares, homes, historyVars, memberFaults>>

\* update_workspace_member_role, remove_workspace_member, revoke_workspace_member;
\* workspace_to_solo_execute is for the owner alone.
BeginChange(c, op, a, u, r) ==
    /\ At(c, "idle") /\ IsAdmin(a)
    /\ \/ op = "role" /\ r \in Roles /\ (r = "owner" => role[a] = "owner")
       \/ op \in {"remove", "revoke"} /\ r = "none"
       \/ op = "solo" /\ role[a] = "owner" /\ u = a /\ r = "none"
    /\ call' = [call EXCEPT ![c] = [NoCall EXCEPT !.pc = "list", !.op = op, !.actor = a,
                                                  !.target = u, !.role = r]]
    /\ UNCHANGED <<role, ownerId, invite, shares, homes, historyVars, memberFaults>>

\* leave_workspace reads all memberships of its actor in one statement.
BeginLeave(c, a) ==
    /\ At(c, "idle") /\ role[a] \in Granted
    /\ call' = [call EXCEPT ![c] = [NoCall EXCEPT !.pc = "delete", !.op = "leave", !.actor = a,
                                        !.target = a, !.was[a] = role[a], !.only = a \notin homes]]
    /\ UNCHANGED <<role, ownerId, invite, shares, homes, historyVars, memberFaults>>

\* accept_invitation and decline_invitation: load_active_invitation, and the
\* invitation is for the actor's address.
BeginDecision(c, op, i) ==
    /\ At(c, "idle") /\ ActiveInvitation(i)
    /\ call' = [call EXCEPT ![c] = [NoCall EXCEPT !.pc = IF op = "accept" THEN "members" ELSE "mark",
                                        !.op = op, !.actor = invite[i].user,
                                        !.target = invite[i].user, !.role = invite[i].role,
                                        !.invite = i]]
    /\ UNCHANGED <<role, ownerId, invite, shares, homes, historyVars, memberFaults>>

\* promote_connection_with_token and install_slack_workspace_connection:
\* ensure_membership, then the token is loaded.
BeginShare(c, a) ==
    /\ At(c, "idle") /\ a \in Members
    /\ call' = [call EXCEPT ![c] = [NoCall EXCEPT !.pc = "share", !.op = "share", !.actor = a,
                                                  !.target = a]]
    /\ UNCHANGED <<role, ownerId, invite, shares, homes, historyVars, memberFaults>>

----------------------------------------------------------------------------
(* Seats: ensure_workspace_can_add_members counts in two statements. *)

CountMembers(c) ==
    /\ At(c, "members")
    /\ call' = [call EXCEPT ![c].pc = "pending", ![c].seats = Cardinality(Members)]
    /\ crowded' = (crowded \/ \E d \in Calls \ {c} : HoldsSeat(d))
    /\ UNCHANGED <<role, ownerId, invite, shares, homes, overwritten, dangling, leaked, memberFaults>>

\* Mutant: a pending invitation takes no seat.
CountInvitedLater(c) ==
    LET need == IF call[c].op = "accept" THEN 0 ELSE 1 IN
    /\ At(c, "pending")
    /\ IF call[c].seats + need > MemberLimit
         THEN Return(c)
         ELSE Goto(c, IF call[c].op = "invite" THEN "insert" ELSE "add")
    /\ UNCHANGED <<role, ownerId, invite, shares, homes, historyVars, memberFaults>>

\* An acceptance needs no seat of its own: its invitation has one.
CountPending(c) ==
    LET need == IF call[c].op = "accept" THEN 0 ELSE 1 IN
    /\ At(c, "pending")
    /\ IF call[c].seats + Cardinality(Pending) + need > MemberLimit
         THEN Return(c)
         ELSE Goto(c, IF call[c].op = "invite" THEN "insert" ELSE "add")
    /\ UNCHANGED <<role, ownerId, invite, shares, homes, historyVars, memberFaults>>

\* add_member is an upsert: the row of a member, the owner's too, takes the new role.
AddMember(c) ==
    /\ At(c, "add")
    /\ role' = [role EXCEPT ![call[c].target] = call[c].role]
    /\ Overwrites(call[c].target)
    /\ IF call[c].op = "accept" THEN Goto(c, "mark") ELSE Return(c)
    /\ UNCHANGED <<ownerId, invite, shares, homes, dangling, leaked, crowded, memberFaults>>

InsertInvitation(c) ==
    /\ At(c, "insert")
    /\ invite' = [invite EXCEPT ![call[c].invite] = [status |-> "pending", expired |-> FALSE,
                                     user |-> call[c].target, role |-> call[c].role]]
    /\ Return(c)
    /\ UNCHANGED <<role, ownerId, shares, homes, historyVars, memberFaults>>

\* mark_invitation_accepted and mark_invitation_declined change a pending row
\* only, and succeed when there is none.  Either may end the invitation that
\* another call is accepting.
MarkInvitation(c) ==
    LET i == call[c].invite IN
    /\ At(c, "mark")
    /\ invite' = IF invite[i].status = "pending"
                   THEN [invite EXCEPT ![i].status = IF call[c].op = "accept" THEN "accepted"
                                                     ELSE "declined"]
                   ELSE invite
    /\ crowded' = (crowded \/ \E d \in Calls \ {c} : call[d].op = "accept" /\ call[d].invite = i)
    /\ Return(c)
    /\ UNCHANGED <<role, ownerId, shares, homes, overwritten, dangling, leaked, memberFaults>>

\* revoke_workspace_invitation: the role of the actor, then one guarded statement.
RevokeInvitation(a, i) ==
    /\ IsAdmin(a) /\ invite[i].status = "pending"
    /\ invite' = [invite EXCEPT ![i].status = "revoked"]
    /\ crowded' = (crowded \/ \E c \in Calls : call[c].invite = i)
    /\ UNCHANGED <<role, ownerId, shares, homes, call, overwritten, dangling, leaked, memberFaults>>

\* Time passes: an invitation lives 1 to 60 days.
ExpireInvitation(i) ==
    /\ ActiveInvitation(i)
    /\ invite' = [invite EXCEPT ![i].expired = TRUE]
    /\ crowded' = (crowded \/ \E c \in Calls : call[c].invite = i)
    /\ UNCHANGED <<role, ownerId, shares, homes, call, overwritten, dangling, leaked, memberFaults>>

----------------------------------------------------------------------------
(* Roles and the transfer of ownership. *)

\* list_members and the conditions on the member's role.
ListForRole(c) ==
    LET k == call[c] IN
    /\ At(c, "list") /\ k.op = "role"
    /\ IF \/ k.target \notin Members \/ role[k.target] = k.role \/ role[k.target] = "owner"
          \/ k.role = "owner" /\ k.target = k.actor
         THEN Return(c)
         ELSE Goto(c, IF k.role = "owner" THEN "demote" ELSE "setRole")
    /\ UNCHANGED <<role, ownerId, invite, shares, homes, historyVars, memberFaults>>

\* set_member_role of a member; without a row it fails.
SetMemberRole(c) ==
    LET u == call[c].target IN
    /\ At(c, "setRole")
    /\ role' = IF u \in Members THEN [role EXCEPT ![u] = call[c].role] ELSE role
    /\ Overwrites(u)
    /\ Return(c)
    /\ UNCHANGED <<ownerId, invite, shares, homes, dangling, leaked, crowded, memberFaults>>

\* The transfer demotes its actor first: two owners are not allowed.
Demote(c) ==
    LET a == call[c].actor IN
    /\ At(c, "demote")
    /\ IF a \in Members
         THEN role' = [role EXCEPT ![a] = "admin"] /\ Goto(c, "promote")
         ELSE Return(c) /\ UNCHANGED role
    /\ UNCHANGED <<ownerId, invite, shares, homes, historyVars, memberFaults>>

\* set_member_role to owner, which also writes owner_id in its transaction;
\* it fails without a row or when another member is the owner.
MakeOwner(c, u, onFailure) ==
    IF u \in Members /\ ~SecondOwner(u, "owner")
      THEN /\ role' = [role EXCEPT ![u] = "owner"] /\ ownerId' = u
           /\ Return(c) /\ UNCHANGED dangling
      ELSE onFailure /\ UNCHANGED <<role, ownerId>>

\* Mutant: a promotion that fails is reported and the demotion stands.
PromoteOrGiveUp(c) ==
    /\ At(c, "promote")
    /\ MakeOwner(c, call[c].target, Return(c) /\ UNCHANGED dangling)
    /\ UNCHANGED <<invite, shares, homes, overwritten, leaked, crowded, memberFaults>>

Promote(c) ==
    /\ At(c, "promote")
    /\ MakeOwner(c, call[c].target, Goto(c, "restore") /\ UNCHANGED dangling)
    /\ UNCHANGED <<invite, shares, homes, overwritten, leaked, crowded, memberFaults>>

\* The result of the restoration is ignored.
Restore(c) ==
    /\ At(c, "restore")
    /\ MakeOwner(c, call[c].actor,
                 Return(c) /\ dangling' = (dangling \/ ~SecondOwner(call[c].actor, "owner")))
    /\ UNCHANGED <<invite, shares, homes, overwritten, leaked, crowded, memberFaults>>

----------------------------------------------------------------------------
(* Members leave. *)

\* list_members, the owner is refused; revocation then reads the memberships of
\* the member, the conversion to solo takes all members but its actor.
ListForRemoval(c) ==
    LET k == call[c]
        leavers == IF k.op = "solo" THEN Members \ {k.actor} ELSE {k.target}
    IN  /\ At(c, "list") /\ k.op \in {"remove", "revoke", "solo"}
        /\ IF leavers = {} \/ (k.op # "solo" /\ role[k.target] \in {"none", "owner"})
             THEN Return(c)
             ELSE call' = [call EXCEPT ![c].pc = "delete",
                               ![c].was = [u \in Users |-> IF u \in leavers THEN role[u] ELSE "none"],
                               ![c].only = k.op = "revoke" /\ k.target \notin homes]
        /\ UNCHANGED <<role, ownerId, invite, shares, homes, historyVars, memberFaults>>

\* remove_member, leave_workspace, revoke_member; only the last fails without a row.
DeleteMember(c, u) ==
    /\ At(c, "delete") /\ call[c].was[u] # "none"
    /\ role' = [role EXCEPT ![u] = "none"]
    /\ Overwrites(u)
    /\ IF call[c].op = "revoke" /\ u \notin Members
         THEN Return(c)
         ELSE call' = [call EXCEPT ![c].pc = "purge", ![c].target = u]
    /\ UNCHANGED <<ownerId, invite, shares, homes, dangling, leaked, crowded, memberFaults>>

\* The next member of a conversion, the solo workspace of a last membership, or
\* the answer.
AfterPurge(c) ==
    LET u == call[c].target
        rest == {v \in Users \ {u} : call[c].was[v] # "none"}
    IN  IF rest # {} THEN call' = [call EXCEPT ![c].pc = "delete", ![c].was[u] = "none"]
        ELSE IF call[c].only THEN Goto(c, "provision") ELSE Return(c)

\* purge_member_connections.
PurgeConnections(c) ==
    /\ At(c, "purge")
    /\ shares' = shares \ {call[c].target}
    /\ AfterPurge(c)
    /\ UNCHANGED <<role, ownerId, invite, homes, historyVars, memberFaults>>

\* ensure_solo_workspace_for_user.
ProvisionSolo(c) ==
    /\ At(c, "provision")
    /\ homes' = homes \cup {call[c].target}
    /\ Return(c)
    /\ UNCHANGED <<role, ownerId, invite, shares, historyVars, memberFaults>>

\* A purge or the solo workspace failed: the member is put back, as it was listed.
ReAdd(c) ==
    LET u == call[c].target IN
    /\ At(c, "readd")
    /\ IF SecondOwner(u, call[c].was[u])
         THEN leaked' = leaked \cup {u} /\ UNCHANGED <<role, overwritten>>
         ELSE /\ role' = [role EXCEPT ![u] = call[c].was[u]]
              /\ overwritten' = (overwritten \/ "owner" \in {role[u], call[c].was[u]})
              /\ UNCHANGED leaked
    /\ Return(c)
    /\ UNCHANGED <<ownerId, invite, shares, homes, dangling, crowded, memberFaults>>

\* insert_connection, on the membership read before.
InsertShare(c) ==
    /\ At(c, "share")
    /\ shares' = shares \cup {call[c].actor}
    /\ leaked' = IF call[c].actor \in Members THEN leaked ELSE leaked \cup {call[c].actor}
    /\ Return(c)
    /\ UNCHANGED <<role, ownerId, invite, homes, overwritten, dangling, crowded, memberFaults>>

\* remove_connection, by the member who shared it.
Unshare(a) ==
    /\ a \in Members /\ a \in shares
    /\ shares' = shares \ {a}
    /\ UNCHANGED <<role, ownerId, invite, homes, call, historyVars, memberFaults>>

\* The user's membership of another workspace ends.
LeaveElsewhere(u) ==
    /\ u \in homes /\ u \in Members
    /\ homes' = homes \ {u}
    /\ UNCHANGED <<role, ownerId, invite, shares, call, historyVars, memberFaults>>

----------------------------------------------------------------------------
(* Faults. *)

\* Mutant: the member stays out when the purge of its connections fails.
FailedKeepsOut(c) ==
    /\ memberFaults > 0 /\ call[c].pc # "idle"
    /\ memberFaults' = memberFaults - 1
    /\ IF At(c, "promote") THEN Goto(c, "restore") ELSE Return(c)
    /\ dangling' = (dangling \/ At(c, "restore"))
    /\ leaked' = IF At(c, "readd") THEN leaked \cup {call[c].target} ELSE leaked
    /\ UNCHANGED <<role, ownerId, invite, shares, homes, overwritten, crowded>>

\* A statement fails.  A promotion is undone and a departure too; the failure
\* of either restoration is ignored.
StatementFails(c) ==
    /\ memberFaults > 0 /\ call[c].pc # "idle"
    /\ memberFaults' = memberFaults - 1
    /\ IF At(c, "promote") THEN Goto(c, "restore")
       ELSE IF call[c].pc \in {"purge", "provision"} THEN Goto(c, "readd")
       ELSE Return(c)
    /\ dangling' = (dangling \/ At(c, "restore"))
    /\ leaked' = IF At(c, "readd") THEN leaked \cup {call[c].target} ELSE leaked
    /\ UNCHANGED <<role, ownerId, invite, shares, homes, overwritten, crowded>>

\* The server stops: its calls end where they are.
CutOff(c) ==
    /\ memberFaults > 0 /\ call[c].pc \in {"promote", "restore", "purge", "readd", "mark", "provision"}
    /\ memberFaults' = memberFaults - 1
    /\ Return(c)
    /\ dangling' = (dangling \/ call[c].pc \in {"promote", "restore"})
    /\ leaked' = IF call[c].pc \in {"purge", "readd"} THEN leaked \cup {call[c].target} ELSE leaked
    /\ UNCHANGED <<role, ownerId, invite, shares, homes, overwritten, crowded>>

----------------------------------------------------------------------------
MembershipNext ==
    \/ \E c \in Calls, a \in Users :
         \/ \E u \in Users, r \in Granted : BeginAdd(c, a, u, r)
         \/ \E u \in Users, r \in Granted, i \in Invites : BeginInvite(c, a, i, u, r)
         \/ \E u \in Users, r \in Roles \cup {"none"}, op \in {"role", "remove", "revoke", "solo"} :
              BeginChange(c, op, a, u, r)
         \/ BeginLeave(c, a) \/ BeginShare(c, a)
    \/ \E c \in Calls, i \in Invites, op \in {"accept", "decline"} : BeginDecision(c, op, i)
    \/ \E c \in Calls :
         \/ CountMembers(c) \/ CountPending(c) \/ AddMember(c) \/ InsertInvitation(c)
         \/ MarkInvitation(c)
         \/ ListForRole(c) \/ SetMemberRole(c) \/ Demote(c) \/ Promote(c) \/ Restore(c)
         \/ ListForRemoval(c) \/ PurgeConnections(c) \/ ProvisionSolo(c) \/ ReAdd(c)
         \/ InsertShare(c) \/ StatementFails(c) \/ CutOff(c)
         \/ \E u \in Users : DeleteMember(c, u)
    \/ \E a \in Users : Unshare(a) \/ LeaveElsewhere(a)
    \/ \E a \in Users, i \in Invites : RevokeInvitation(a, i)
    \/ \E i \in Invites : ExpireInvitation(i)

MembershipSpec == MembershipInit /\ [][MembershipNext]_memberVars

----------------------------------------------------------------------------
(* Properties. *)

\* However transfers of ownership, role changes and departures interleave, a
\* workspace has one owner, the one workspaces.owner_id names, except while a
\* transfer is under way, when one was cut off or could not restore its actor,
\* or when a stale check or an upsert changed the owner's row.
WorkspaceHasOwner ==
    \/ overwritten
    \/ /\ \A u \in Users : role[u] = "owner" => ownerId = u
       /\ \/ role[ownerId] = "owner" \/ dangling
          \/ \E c \in Calls : call[c].pc \in {"promote", "restore"}

\* A user who is no member shares no connection with the workspace: a departure
\* that cannot purge the connections is undone.  Excepted are departures under
\* way or cut off and a share whose membership check was stale.
DepartedShareNothing ==
    \A u \in shares \ leaked :
        u \in Members \/ \E c \in Calls : call[c].target = u /\ call[c].pc \in {"purge", "readd"}

\* The members stay within workspace_member_limit when no call counts the seats
\* while another holds or frees one and no invitation ends under its acceptance.
SeatsWithinLimit == Cardinality(Members) <= MemberLimit \/ crowded
=============================================================================

------------------------------ MODULE Workflows ------------------------------
(***************************************************************************)
(* Editing one workflow: the row of workflows with its updated_at, the     *)
(* lock of its creator, and its move into a workspace.  A request reads    *)
(* the row, then the memberships of its author, and then writes; others    *)
(* may write between these statements.                                     *)
(***************************************************************************)
EXTENDS Naturals, FiniteSets

CONSTANTS
    Authors, Creator,
    EditRequests,     \* requests being served at once
    NoAuthor,
    MaxVersion        \* bound: writes to the row

ASSUME WorkflowsAssumption ==
    /\ IsFiniteSet(Authors) /\ IsFiniteSet(EditRequests)
    /\ Creator \in Authors /\ NoAuthor \notin Authors
    /\ MaxVersion \in Nat \ {0}

VARIABLES
    flow,            \* the row; a text is named after the write that stored it
    standing,        \* role of each author in the workspace the flow may move to
    page,            \* the version each author has open in the designer, 0 for none
    edit             \* the requests being served

flowVars == <<flow, standing, page, edit>>

Versions == 1..MaxVersion
FlowRows == [exists: BOOLEAN, shared: BOOLEAN, lockedBy: {NoAuthor, Creator},
             updatedAt: Versions, text: Versions]
Standings == {"none", "viewer", "user", "admin"}      \* an owner may do what an admin may
EditOps == {"none", "save", "lock", "unlock", "delete", "limit", "options"}
UnreadFlow == [shared |-> FALSE, lockedBy |-> NoAuthor]
NoEditRequest == [pc |-> "idle", op |-> "none", by |-> NoAuthor, version |-> 0,
                  seen |-> UnreadFlow, admin |-> FALSE]

WorkflowsTypeOK ==
    /\ flow \in FlowRows
    /\ standing \in [Authors -> Standings]
    /\ page \in [Authors -> 0..MaxVersion]
    /\ edit \in [EditRequests -> [pc: {"idle", "load", "roles", "write"}, op: EditOps,
                                  by: Authors \cup {NoAuthor}, version: 0..MaxVersion,
                                  seen: [shared: BOOLEAN, lockedBy: {NoAuthor, Creator}],
                                  admin: BOOLEAN]]

WorkflowsInit ==
    /\ flow \in [exists: {TRUE}, shared: BOOLEAN, lockedBy: {NoAuthor}, updatedAt: {1}, text: {1}]
    /\ standing \in [Authors -> Standings]
    /\ page = [u \in Authors |-> 0]
    /\ edit = [e \in EditRequests |-> NoEditRequest]

----------------------------------------------------------------------------
EditAt(e, pc) == edit[e].pc = pc
EndEdit(e) == edit' = [edit EXCEPT ![e] = NoEditRequest]

\* find_workflow_for_member: the creator, or a member of the workflow's workspace.
Finds(u) == flow.exists /\ (u = Creator \/ (flow.shared /\ standing[u] # "none"))

\* can_access_workflow_in_context with the memberships just read.  Which further
\* refusals apply depends on the context the client names (EditFails).
Accessible(u, seen) == seen.shared => standing[u] # "none"

\* updated_at = now(): every write of the row gives it a version of its own.
Written(row) == [row EXCEPT !.updatedAt = flow.updatedAt + 1]
CanWrite == flow.updatedAt < MaxVersion

\* get_workflow: the author opens the designer.
GetWorkflow(u) ==
    /\ Finds(u) /\ Accessible(u, flow)
    /\ page' = [page EXCEPT ![u] = flow.updatedAt]
    /\ UNCHANGED <<flow, standing, edit>>

\* A request arrives.  A save carries the version of the page it was made on, or
\* none: the field is optional.
BeginEdit(e, u, op, version) ==
    /\ EditAt(e, "idle")
    /\ op = "save" => page[u] # 0 /\ version \in {0, page[u]}
    /\ op # "save" => version = 0
    /\ edit' = [edit EXCEPT ![e] = [NoEditRequest EXCEPT !.pc = IF op = "options" THEN "write" ELSE "load",
                                                         !.op = op, !.by = u, !.version = version]]
    /\ UNCHANGED <<flow, standing, page>>

\* The row as the request finds it.  A save of another version is a conflict, and
\* so is one without a version of a workflow that is in a workspace.  The limit
\* is set for any member, no role is asked for.
Conflicts(e) ==
    edit[e].op = "save" /\ IF edit[e].version = 0 THEN flow.shared
                                                  ELSE edit[e].version # flow.updatedAt

LoadWorkflow(e) ==
    /\ EditAt(e, "load")
    /\ IF ~Finds(edit[e].by) \/ Conflicts(e)
         THEN EndEdit(e)
         ELSE edit' = [edit EXCEPT ![e].pc = IF edit[e].op = "limit" THEN "write" ELSE "roles",
                                   ![e].seen = [shared |-> flow.shared, lockedBy |-> flow.lockedBy]]
    /\ UNCHANGED <<flow, standing, page>>

\* The memberships, and what each operation asks of the role and of the row that
\* was read before.
Permitted(e, role) ==
    LET u == edit[e].by  seen == edit[e].seen IN
    /\ Accessible(u, seen)
    /\ edit[e].op = "save" =>
         /\ ~(seen.shared /\ role = "viewer")
         /\ seen.lockedBy \in {NoAuthor, u} \/ (seen.shared /\ role = "admin")
    /\ edit[e].op = "lock" => u = Creator
    /\ edit[e].op = "unlock" =>
         /\ seen.lockedBy # NoAuthor
         /\ u = Creator \/ (seen.shared /\ role = "admin")

CheckRole(e) ==
    LET role == standing[edit[e].by] IN
    /\ EditAt(e, "roles")
    /\ IF Permitted(e, role)
         THEN edit' = [edit EXCEPT ![e].pc = "write", ![e].admin = edit[e].seen.shared /\ role = "admin"]
         ELSE EndEdit(e)
    /\ UNCHANGED <<flow, standing, page>>

\* update_workflow of the repository: compare updated_at, if the save names one.
\* The answer gives the author the new row, unless the workflow is one that the
\* solo plan locks: then it is refused after it was stored.
StoreSave(e) ==
    /\ EditAt(e, "write") /\ edit[e].op = "save" /\ CanWrite
    /\ IF flow.exists /\ edit[e].version \in {0, flow.updatedAt}
         THEN /\ flow' = [Written(flow) EXCEPT !.text = flow.updatedAt + 1]
              /\ \/ page' = [page EXCEPT ![edit[e].by] = flow.updatedAt + 1]
                 \/ ~edit[e].seen.shared /\ edit[e].by = Creator /\ UNCHANGED page
         ELSE UNCHANGED <<flow, page>>
    /\ EndEdit(e)
    /\ UNCHANGED standing

\* Mutant: the lock leaves updated_at alone.
SetLockSilently(e) ==
    /\ EditAt(e, "write") /\ edit[e].op \in {"lock", "unlock"} /\ CanWrite
    /\ flow' = IF flow.exists
                 THEN [flow EXCEPT !.lockedBy = IF edit[e].op = "lock" THEN edit[e].by ELSE NoAuthor]
                 ELSE flow
    /\ EndEdit(e)
    /\ UNCHANGED <<standing, page>>

\* set_workflow_lock, whatever the lock is by now.
SetLock(e) ==
    /\ EditAt(e, "write") /\ edit[e].op \in {"lock", "unlock"} /\ CanWrite
    /\ flow' = IF flow.exists
                 THEN [Written(flow) EXCEPT !.lockedBy = IF edit[e].op = "lock" THEN edit[e].by ELSE NoAuthor]
                 ELSE flow
    /\ EndEdit(e)
    /\ UNCHANGED <<standing, page>>

\* set_workflow_concurrency_limit of the creator's row; set_egress_allowlist and
\* update_webhook_config match the creator only.
SetOption(e) ==
    /\ EditAt(e, "write") /\ edit[e].op \in {"limit", "options"} /\ CanWrite
    /\ flow' = IF flow.exists /\ (edit[e].op = "limit" \/ edit[e].by = Creator) THEN Written(flow) ELSE flow
    /\ EndEdit(e)
    /\ UNCHANGED <<standing, page>>

\* delete_workflow matches the creator only; a member's request finds nothing.
DeleteFlow(e) ==
    /\ EditAt(e, "write") /\ edit[e].op = "delete"
    /\ flow' = IF edit[e].by = Creator THEN [flow EXCEPT !.exists = FALSE] ELSE flow
    /\ EndEdit(e)
    /\ UNCHANGED <<standing, page>>

\* A statement fails, the client's context does not include the workflow, or the
\* plan refuses its nodes: nothing was written.
EditFails(e) ==
    /\ ~EditAt(e, "idle") /\ EndEdit(e)
    /\ UNCHANGED <<flow, standing, page>>

\* set_workflow_workspace, when the creator's plan becomes a workspace plan.
ShareFlow ==
    /\ flow.exists /\ ~flow.shared /\ CanWrite
    /\ flow' = [Written(flow) EXCEPT !.shared = TRUE]
    /\ UNCHANGED <<standing, page, edit>>

\* Membership changes the role of an author.
ChangeStanding(u, role) ==
    /\ role # standing[u] /\ standing' = [standing EXCEPT ![u] = role]
    /\ UNCHANGED <<flow, page, edit>>

WorkflowsNext ==
    \/ ShareFlow
    \/ \E u \in Authors : GetWorkflow(u) \/ \E r \in Standings : ChangeStanding(u, r)
    \/ \E e \in EditRequests :
         \/ \E u \in Authors, op \in EditOps \ {"none"}, v \in 0..MaxVersion : BeginEdit(e, u, op, v)
         \/ LoadWorkflow(e) \/ CheckRole(e)
         \/ StoreSave(e) \/ SetLock(e) \/ SetOption(e) \/ DeleteFlow(e) \/ EditFails(e)

WorkflowsSpec == WorkflowsInit /\ [][WorkflowsNext]_flowVars

----------------------------------------------------------------------------
\* The save that e stores in this step, if any.
Stores(e) == EditAt(e, "write") /\ edit[e].op = "save" /\ edit'[e].pc = "idle" /\ flow'.text # flow.text

\* A save that names no version, from the time when the workflow was personal.
FromPersonalTimes(e) == edit[e].version = 0 /\ ~edit[e].seen.shared /\ edit[e].by = Creator

(* "Reload to continue editing": no save replaces a text its author has not    *)
(* seen, and none is stored while another author's lock is on the workflow,    *)
(* unless its author was an admin when the role was read.  It takes the lock,  *)
(* the share and the settings to move updated_at, as the checks of the request *)
(* are made on a row read before.  Only a save without a version that began    *)
(* before the workflow was shared escapes, and only the creator can make one.  *)
SavesRespectOthers ==
    [][\A e \in EditRequests : Stores(e) =>
         /\ (edit[e].version # 0 /\ flow.text <= edit[e].version) \/ FromPersonalTimes(e)
         /\ flow.lockedBy \in {NoAuthor, edit[e].by} \/ edit[e].admin]_flowVars
=============================================================================

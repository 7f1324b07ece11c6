---------------------------- MODULE Connections ----------------------------
(***************************************************************************)
(* OAuth credentials of one user with one provider (Google, Microsoft,     *)
(* Asana or Notion): the personal token rows, the workspace connections    *)
(* copied from them, and the calls that connect, share, refresh, use and   *)
(* purge them.  A refresh of a workspace connection holds a mutex of its   *)
(* server; a refresh of a personal token holds none.  Each database        *)
(* statement and each call of the provider is a step.                      *)
(***************************************************************************)
EXTENDS Naturals, FiniteSets, Sequences

CONSTANTS
    Tokens,          \* accounts of the user at the provider, one token row each
    Conns,           \* workspace connections
    Tasks,           \* requests and actions in progress
    ServerOf,        \* the server a task runs in
    PurgesRevoked,   \* whether actions act on a revocation signal (Google, Microsoft)
    NoConn, NoToken, NoTask,
    MaxCredential,   \* bound: refresh tokens issued for an account
    MaxConnFaults    \* bound: failed statements, lost replies and stopped servers

ASSUME ConnectionsAssumption ==
    /\ IsFiniteSet(Tokens) /\ IsFiniteSet(Conns) /\ IsFiniteSet(Tasks)
    /\ DOMAIN ServerOf = Tasks /\ PurgesRevoked \in BOOLEAN
    /\ NoConn \notin Conns /\ NoToken \notin Tokens /\ NoTask \notin Tasks
    /\ MaxCredential \in Nat /\ MaxConnFaults \in Nat

VARIABLES
    rotates,             \* whether a refresh replaces the refresh token
    token,               \* user_oauth_tokens
    order,               \* the token rows by updated_at
    conn,                \* workspace_connections
    lock,                \* connection_locks: the holder of each mutex of each server
    task,
    issued, dead, spent, \* at the provider: tokens issued, revoked, and replaced by whom
    selfRefused,         \* history: a refresh was refused what the same connection had spent
    apart,               \* history: copies were set apart by an overlap, a fault or a rotation
    connFaults

connVars == <<rotates, token, order, conn, lock, task, issued, dead, spent,
              selfRefused, apart, connFaults>>
connHistory == <<selfRefused, apart>>
atProvider == <<issued, dead, spent>>

OAuthServers == {ServerOf[p] : p \in Tasks}
Credentials == (Tokens \cup {NoToken}) \X (0..MaxCredential)
NoCredential == <<NoToken, 0>>
TaskOps == {"use", "shared", "connect", "disconnect", "revoke", "promote", "remove"}
TaskPcs == {"refresh", "store", "find", "spread", "api", "revokeOld", "delete", "stale", "insert",
            "copy", "markShared", "drop", "check", "unshare", "purge", "lock", "load",
            "refreshConn", "storeConn"}

NoWork == [pc |-> "idle", op |-> "none", token |-> NoToken, conn |-> NoConn, cred |-> NoCredential,
           new |-> NoCredential, todo |-> {}, orphaned |-> FALSE]

ConnectionsTypeOK ==
    /\ rotates \in BOOLEAN
    /\ token \in [Tokens -> [row: BOOLEAN, cred: Credentials, fresh: BOOLEAN, shared: BOOLEAN]]
    /\ Len(order) = Cardinality(Tokens) /\ {order[i] : i \in DOMAIN order} = Tokens
    /\ conn \in [Conns -> [row: {"unused", "on", "gone"}, token: Tokens \cup {NoToken},
                           cred: Credentials, fresh: BOOLEAN]]
    /\ lock \in [OAuthServers \X Conns -> Tasks \cup {NoTask}]
    /\ task \in [Tasks -> [pc: TaskPcs \cup {"idle"}, op: TaskOps \cup {"none"},
                           token: Tokens \cup {NoToken}, conn: Conns \cup {NoConn},
                           cred: Credentials, new: Credentials, todo: SUBSET Conns,
                           orphaned: BOOLEAN]]
    /\ issued \in [Tokens -> 0..MaxCredential]
    /\ dead \subseteq Credentials
    /\ spent \subseteq Credentials \X (OAuthServers \cup {"personal", "lost"}) \X (Conns \cup {NoConn})
    /\ selfRefused \in BOOLEAN /\ apart \in BOOLEAN
    /\ connFaults \in 0..MaxConnFaults

\* Any of the accounts is connected already.
ConnectionsInit ==
    /\ rotates \in BOOLEAN
    /\ \E C \in SUBSET Tokens :
         token = [t \in Tokens |-> [row |-> t \in C, cred |-> <<t, 0>>, fresh |-> TRUE,
                                    shared |-> FALSE]]
    /\ order \in {s \in [1..Cardinality(Tokens) -> Tokens] : {s[i] : i \in DOMAIN s} = Tokens}
    /\ conn = [k \in Conns |-> [row |-> "unused", token |-> NoToken, cred |-> NoCredential,
                                fresh |-> FALSE]]
    /\ lock = [x \in OAuthServers \X Conns |-> NoTask]
    /\ task = [p \in Tasks |-> NoWork]
    /\ issued = [t \in Tokens |-> 0] /\ dead = {} /\ spent = {}
    /\ selfRefused = FALSE /\ apart = FALSE
    /\ connFaults = MaxConnFaults

----------------------------------------------------------------------------
Doing(p, pc) == task[p].pc = pc
Onto(p, pc) == task' = [task EXCEPT ![p].pc = pc]
Finish(p) == task' = [task EXCEPT ![p] = NoWork]
Unlock(p) == lock' = [x \in DOMAIN lock |-> IF lock[x] = p THEN NoTask ELSE lock[x]]

\* What a refresh of its connection spends.
Spending(p) == <<task[p].cred, ServerOf[p], task[p].conn>>
\* The connection is left with, or set back to, a token it has spent.
Retag(X) == spent' = (spent \ X) \cup {<<x[1], "lost", NoConn>> : x \in X}

Replaced == {x[1] : x \in spent}
Accepted(c) == c \notin dead \cup Replaced

\* A statement sets updated_at of the row of t.
Touch(t) == order' = Append(SelectSeq(order, LAMBDA u : u # t), t)

\* The connections of the deleted rows T stay, without their token (ON DELETE SET NULL).
DeleteRows(T) ==
    /\ token' = [t \in Tokens |-> IF t \in T THEN [token[t] EXCEPT !.row = FALSE, !.shared = FALSE]
                                             ELSE token[t]]
    /\ conn' = [k \in Conns |-> IF conn[k].token \in T THEN [conn[k] EXCEPT !.token = NoToken]
                                                       ELSE conn[k]]
\* The tasks that hold the id of a deleted row: a later row of the account has another id.
Orphaned(tasks, T) ==
    [p \in Tasks |-> IF tasks[p].token \in T THEN [tasks[p] EXCEPT !.orphaned = TRUE] ELSE tasks[p]]
HoldsRow(p) == task[p].token # NoToken /\ ~task[p].orphaned /\ token[task[p].token].row

\* The user's row updated last, none or one.
NewestRow == {t \in Tokens : /\ token[t].row
                             /\ \E i \in DOMAIN order : /\ order[i] = t
                                                        /\ \A j \in (i + 1)..Len(order) : ~token[order[j]].row}

\* The overlaps after which a copy may be older than its token: a reconnect with
\* any other writer, and a share with a refresh that replaces the token.
Overlaps(op) ==
    \E q \in Tasks : LET O == {op, task[q].op} IN
        \/ "connect" \in O /\ task[q].op \in {"connect", "use", "shared", "promote"}
                           /\ op \in {"connect", "use", "shared", "promote"}
        \/ rotates /\ O = {"promote", "use"}
        \/ rotates /\ O = {"use"}

----------------------------------------------------------------------------
(* A call begins: a personal row or a connection is read. *)

Start(p, op, t, k, pc) ==
    /\ Doing(p, "idle")
    /\ task' = [task EXCEPT ![p] = [NoWork EXCEPT !.op = op, !.pc = pc, !.token = t, !.conn = k,
                                    !.cred = IF t = NoToken THEN NoCredential ELSE token[t].cred]]
    /\ apart' = (apart \/ Overlaps(op))
    /\ UNCHANGED <<rotates, token, order, conn, lock, selfRefused, connFaults>>

\* ensure_valid_access_token_for_connection by an action, a poll or the refresh
\* route: within a minute of its expiry the token is refreshed first.
BeginUse(p, t) ==
    /\ token[t].row
    /\ Start(p, "use", t, NoConn, IF token[t].fresh THEN "api" ELSE "refresh")
    /\ UNCHANGED atProvider

\* handle_callback: the code is exchanged, then a row of the same account is looked
\* for.  Two first connections of an account at once would make two rows of it.
BeginConnect(p, t) ==
    /\ Doing(p, "idle") /\ issued[t] < MaxCredential
    /\ \A q \in Tasks : ~(Doing(q, "insert") /\ task[q].token = t)
    /\ task' = [task EXCEPT ![p] = [NoWork EXCEPT
                  !.op = "connect", !.pc = IF token[t].row THEN "revokeOld" ELSE "insert",
                  !.token = t, !.cred = token[t].cred, !.new = <<t, issued[t] + 1>>]]
    /\ issued' = [issued EXCEPT ![t] = @ + 1]
    /\ apart' = (apart \/ Overlaps("connect"))
    /\ UNCHANGED <<rotates, token, order, conn, lock, dead, spent, selfRefused, connFaults>>

BeginDisconnect(p, t) ==
    token[t].row /\ Start(p, "disconnect", t, NoConn, "revokeOld") /\ UNCHANGED atProvider

\* handle_revoked_token_by_connection, from the revoke route.
BeginRevoke(p, t) ==
    token[t].row /\ Start(p, "revoke", t, NoConn, "delete") /\ UNCHANGED atProvider

BeginPromote(p, t, k) ==
    /\ token[t].row /\ conn[k].row = "unused" /\ \A q \in Tasks : task[q].conn # k
    /\ Start(p, "promote", t, k, "copy") /\ UNCHANGED atProvider

BeginRemove(p, k) ==
    conn[k].row = "on" /\ Start(p, "remove", conn[k].token, k, "drop") /\ UNCHANGED atProvider

\* ensure_valid_workspace_token by an action or a poll.
BeginShared(p, k) ==
    conn[k].row # "unused" /\ Start(p, "shared", conn[k].token, k, "lock") /\ UNCHANGED atProvider

----------------------------------------------------------------------------
(* The provider. *)

\* The new refresh token of an accepted refresh: the provider's, or the old one.
Issue(p, who, next) ==
    LET c == task[p].cred  t == c[1] IN
    IF rotates
      THEN /\ issued[t] < MaxCredential
           /\ issued' = [issued EXCEPT ![t] = @ + 1]
           /\ spent' = spent \cup {<<c, who, task[p].conn>>}
           /\ task' = [task EXCEPT ![p].pc = next, ![p].new = <<t, issued[t] + 1>>]
      ELSE /\ task' = [task EXCEPT ![p].pc = next, ![p].new = c]
           /\ UNCHANGED <<issued, spent>>

\* refresh_record_tokens; a token the provider refuses is deleted by its id.
RefreshToken(p) ==
    /\ Doing(p, "refresh")
    /\ \/ Accepted(task[p].cred) /\ Issue(p, "personal", "store")
       \/ ~Accepted(task[p].cred) /\ Onto(p, "delete") /\ UNCHANGED <<issued, spent>>
    /\ UNCHANGED <<rotates, token, order, conn, lock, dead, connHistory, connFaults>>

\* The refresh inside ensure_valid_workspace_token, with the connection's copy.
RefreshConnection(p) ==
    /\ Doing(p, "refreshConn")
    /\ \/ /\ Accepted(task[p].cred) /\ Issue(p, ServerOf[p], "storeConn")
          /\ apart' = (apart \/ rotates)
          /\ UNCHANGED selfRefused
       \/ /\ ~Accepted(task[p].cred) /\ Onto(p, "drop")
          /\ selfRefused' = (selfRefused \/ Spending(p) \in spent)
          /\ UNCHANGED <<issued, spent, apart>>
    /\ UNCHANGED <<rotates, token, order, conn, lock, dead, connFaults>>

\* revoke_existing_credentials: an error is only logged.
RevokeOld(p) ==
    /\ Doing(p, "revokeOld")
    /\ dead' \in {dead, dead \cup {task[p].cred}}
    /\ Onto(p, IF task[p].op = "connect" THEN "store" ELSE "delete")
    /\ UNCHANGED <<rotates, token, order, conn, lock, issued, spent, connHistory, connFaults>>

\* The user withdraws the grant of an account at the provider.
WithdrawGrant(t) ==
    /\ {<<t, n>> : n \in 0..issued[t]} \ dead # {}
    /\ dead' = dead \cup {<<t, n>> : n \in 0..issued[t]}
    /\ UNCHANGED <<rotates, token, order, conn, lock, task, issued, spent, connHistory, connFaults>>

\* The action's call.  On a revocation signal Google and Microsoft actions purge.
CallApi(p) ==
    /\ Doing(p, "api")
    /\ LET k == task[p].conn IN
       CASE task[p].cred \notin dead \/ ~PurgesRevoked -> Finish(p)
         [] task[p].op = "shared" /\ conn[k].row = "on" ->
              task' = [task EXCEPT ![p].pc = "drop", ![p].token = conn[k].token, ![p].orphaned = FALSE]
         [] OTHER -> Onto(p, "purge")
    /\ UNCHANGED <<rotates, token, order, conn, lock, atProvider, connHistory, connFaults>>

----------------------------------------------------------------------------
(* Statements on the personal rows. *)

\* update_token; no row is an error.
StoreToken(p) ==
    LET t == task[p].token IN
    /\ Doing(p, "store")
    /\ \/ /\ HoldsRow(p)
          /\ token' = [token EXCEPT ![t].cred = task[p].new, ![t].fresh = TRUE]
          /\ Touch(t) /\ Onto(p, "find")
       \/ ~HoldsRow(p) /\ Finish(p) /\ UNCHANGED <<token, order>>
    /\ UNCHANGED <<rotates, conn, lock, atProvider, connHistory, connFaults>>

InsertToken(p) ==
    LET t == task[p].token IN
    /\ Doing(p, "insert")
    /\ token' = [token EXCEPT ![t] = [row |-> TRUE, cred |-> task[p].new, fresh |-> TRUE,
                                      shared |-> FALSE]]
    /\ Touch(t) /\ Finish(p)
    /\ UNCHANGED <<rotates, conn, lock, atProvider, connHistory, connFaults>>

\* Mutant: only the connections whose copy has not expired are found.
FindFreshConnections(p) ==
    /\ Doing(p, "find")
    /\ LET K == {k \in Conns : HoldsRow(p) /\ conn[k].row = "on" /\ conn[k].token = task[p].token /\ conn[k].fresh} IN
       task' = [task EXCEPT ![p].pc = "spread", ![p].todo = K]
    /\ UNCHANGED <<rotates, token, order, conn, lock, atProvider, connHistory, connFaults>>

\* find_by_source_token of the propagation.
FindConnections(p) ==
    /\ Doing(p, "find")
    /\ LET K == {k \in Conns : HoldsRow(p) /\ conn[k].row = "on" /\ conn[k].token = task[p].token} IN
       task' = [task EXCEPT ![p].pc = "spread", ![p].todo = K]
    /\ UNCHANGED <<rotates, token, order, conn, lock, atProvider, connHistory, connFaults>>

\* update_tokens_for_connection; a connection that was deleted, or has lost its token,
\* is skipped with a warning.
SpreadTo(p, k) ==
    /\ Doing(p, "spread") /\ k \in task[p].todo
    /\ conn' = IF conn[k].row = "on" /\ conn[k].token # NoToken
                 THEN [conn EXCEPT ![k].cred = task[p].new, ![k].fresh = TRUE] ELSE conn
    /\ task' = [task EXCEPT ![p].todo = @ \ {k}]
    /\ Retag({x \in spent : x[1] = task[p].new})
    /\ UNCHANGED <<rotates, token, order, lock, issued, dead, connHistory, connFaults>>

Spread(p) ==
    /\ Doing(p, "spread") /\ task[p].todo = {}
    /\ IF task[p].op = "use" THEN task' = [task EXCEPT ![p].pc = "api", ![p].cred = task[p].new]
                             ELSE Finish(p)
    /\ UNCHANGED <<rotates, token, order, conn, lock, atProvider, connHistory, connFaults>>

\* delete_token_by_id.
DeleteToken(p) ==
    /\ Doing(p, "delete")
    /\ LET T == IF task[p].orphaned THEN {} ELSE {task[p].token} IN
       /\ DeleteRows(T)
       /\ task' = Orphaned([task EXCEPT ![p] = IF @.op = "disconnect" THEN NoWork
                                                ELSE [@ EXCEPT !.pc = "stale"]], T)
    /\ UNCHANGED <<rotates, order, lock, atProvider, connHistory, connFaults>>

\* delete_token of handle_revoked_token: the row of the provider updated last.
PurgeNewest(p) ==
    /\ Doing(p, "purge")
    /\ DeleteRows(NewestRow)
    /\ task' = Orphaned([task EXCEPT ![p].pc = "stale"], NewestRow)
    /\ UNCHANGED <<rotates, order, lock, atProvider, connHistory, connFaults>>

\* mark_connections_stale_for_creator: every connection of the user and provider.
MarkStale(p) ==
    /\ Doing(p, "stale")
    /\ conn' = [k \in Conns |-> [conn[k] EXCEPT !.fresh = FALSE]]
    /\ Finish(p)
    /\ UNCHANGED <<rotates, token, order, lock, atProvider, connHistory, connFaults>>

----------------------------------------------------------------------------
(* Statements on the workspace connections. *)

\* insert_connection with the token read before; its foreign key needs the row.
CopyToken(p) ==
    /\ Doing(p, "copy")
    /\ \/ /\ HoldsRow(p)
          /\ conn' = [conn EXCEPT ![task[p].conn] =
                        [row |-> "on", token |-> task[p].token, cred |-> task[p].cred, fresh |-> TRUE]]
          /\ Onto(p, "markShared")
       \/ ~HoldsRow(p) /\ Finish(p) /\ UNCHANGED conn
    /\ UNCHANGED <<rotates, token, order, lock, atProvider, connHistory, connFaults>>

\* mark_shared_by_id, or for a connection without its token mark_shared of the row of
\* the provider updated last; no row changes nothing.
SetShared(p, b) ==
    LET T == IF task[p].token = NoToken THEN NewestRow
             ELSE IF HoldsRow(p) THEN {task[p].token} ELSE {}
    IN IF T = {} THEN UNCHANGED <<token, order>>
       ELSE \E t \in T : token' = [token EXCEPT ![t].shared = b] /\ Touch(t)

MarkShared(p) ==
    /\ Doing(p, "markShared") /\ SetShared(p, TRUE) /\ Finish(p)
    /\ UNCHANGED <<rotates, conn, lock, atProvider, connHistory, connFaults>>

\* delete_connection, of remove_connection, a refused refresh or a revocation.
DropConnection(p) ==
    /\ Doing(p, "drop")
    /\ conn' = [conn EXCEPT ![task[p].conn].row = "gone"]
    /\ Onto(p, "check")
    /\ UNCHANGED <<rotates, token, order, lock, atProvider, connHistory, connFaults>>

\* A revocation signal from the API goes on to the owner's personal token.
AfterUnshare(p) ==
    IF task[p].op = "shared" /\ task[p].cred \in dead /\ PurgesRevoked /\ ~\E x \in DOMAIN lock : lock[x] = p
      THEN Onto(p, "purge") /\ UNCHANGED lock
      ELSE Finish(p) /\ Unlock(p)

\* mark_personal_token_unshared_if_unused: the other connections of the token.
CheckShared(p) ==
    /\ Doing(p, "check")
    /\ IF HoldsRow(p) /\ \E k \in Conns : conn[k].row = "on" /\ conn[k].token = task[p].token
         THEN AfterUnshare(p) ELSE Onto(p, "unshare") /\ UNCHANGED lock
    /\ UNCHANGED <<rotates, token, order, conn, atProvider, connHistory, connFaults>>

MarkUnshared(p) ==
    /\ Doing(p, "unshare") /\ SetShared(p, FALSE) /\ AfterUnshare(p)
    /\ UNCHANGED <<rotates, conn, atProvider, connHistory, connFaults>>

\* The mutex of the connection in this server.
LockConnection(p) ==
    LET x == <<ServerOf[p], task[p].conn>> IN
    /\ Doing(p, "lock") /\ lock[x] = NoTask
    /\ lock' = [lock EXCEPT ![x] = p]
    /\ Onto(p, "load")
    /\ UNCHANGED <<rotates, token, order, conn, atProvider, connHistory, connFaults>>

\* find_by_id under the mutex, which a valid token or a missing row gives up.
LoadConnection(p) ==
    LET k == task[p].conn IN
    /\ Doing(p, "load")
    /\ \/ conn[k].row = "gone" /\ Finish(p) /\ Unlock(p)
       \/ /\ conn[k].row = "on" /\ conn[k].fresh /\ Unlock(p)
          /\ task' = [task EXCEPT ![p].pc = "api", ![p].cred = conn[k].cred,
                               ![p].token = conn[k].token, ![p].orphaned = FALSE]
       \/ /\ conn[k].row = "on" /\ ~conn[k].fresh /\ UNCHANGED lock
          /\ task' = [task EXCEPT ![p].pc = "refreshConn", ![p].cred = conn[k].cred,
                                  ![p].token = conn[k].token, ![p].orphaned = FALSE]
    /\ UNCHANGED <<rotates, token, order, conn, atProvider, connHistory, connFaults>>

\* update_tokens: this connection only, not the personal row.  A connection without its
\* token is refused, and what the refresh gave is lost.
StoreConnection(p) ==
    LET k == task[p].conn IN
    /\ Doing(p, "storeConn")
    /\ \/ /\ conn[k].row = "on" /\ conn[k].token # NoToken
          /\ conn' = [conn EXCEPT ![k].cred = task[p].new, ![k].fresh = TRUE]
          /\ task' = [task EXCEPT ![p].pc = "api", ![p].cred = task[p].new]
          /\ UNCHANGED spent
       \/ /\ conn[k].row = "gone" \/ conn[k].token = NoToken
          /\ Finish(p) /\ Retag({Spending(p)} \cap spent) /\ UNCHANGED conn
    /\ Unlock(p)
    /\ UNCHANGED <<rotates, token, order, issued, dead, connHistory, connFaults>>

----------------------------------------------------------------------------
(* Time and faults. *)

ExpireToken(t) ==
    /\ token[t].row /\ token[t].fresh /\ token' = [token EXCEPT ![t].fresh = FALSE]
    /\ UNCHANGED <<rotates, order, conn, lock, task, atProvider, connHistory, connFaults>>

ExpireConnection(k) ==
    /\ conn[k].row = "on" /\ conn[k].fresh /\ conn' = [conn EXCEPT ![k].fresh = FALSE]
    /\ UNCHANGED <<rotates, token, order, lock, task, atProvider, connHistory, connFaults>>

\* What the tasks P had spent and not stored is lost when they are cut off.
TasksCutOff(P) ==
    /\ connFaults > 0 /\ connFaults' = connFaults - 1
    /\ Retag({x \in spent : \E p \in P : Doing(p, "storeConn") /\ x = Spending(p)})
    /\ task' = [p \in Tasks |-> IF p \in P THEN NoWork ELSE task[p]]
    /\ lock' = [x \in DOMAIN lock |-> IF lock[x] \in P THEN NoTask ELSE lock[x]]
    /\ apart' = TRUE
    /\ UNCHANGED <<rotates, token, order, conn, issued, dead, selfRefused>>

\* A statement or a call of the provider fails and the handler returns.
TaskFails(p) == ~Doing(p, "idle") /\ TasksCutOff({p})

StopServer(s) ==
    LET P == {p \in Tasks : ServerOf[p] = s} IN
    (\E p \in P : ~Doing(p, "idle")) /\ TasksCutOff(P)

\* A failed update of a copy only gets a warning.
SpreadFails(p, k) ==
    /\ Doing(p, "spread") /\ k \in task[p].todo
    /\ connFaults > 0 /\ connFaults' = connFaults - 1
    /\ task' = [task EXCEPT ![p].todo = @ \ {k}]
    /\ apart' = TRUE
    /\ UNCHANGED <<rotates, token, order, conn, lock, atProvider, selfRefused>>

----------------------------------------------------------------------------
Begin(p) ==
    \/ \E t \in Tokens : \/ BeginUse(p, t) \/ BeginConnect(p, t)
                         \/ BeginDisconnect(p, t) \/ BeginRevoke(p, t)
    \/ \E t \in Tokens, k \in Conns : BeginPromote(p, t, k)
    \/ \E k \in Conns : BeginRemove(p, k) \/ BeginShared(p, k)

TaskStep(p) ==
    \/ RefreshToken(p) \/ RefreshConnection(p) \/ RevokeOld(p) \/ CallApi(p)
    \/ StoreToken(p) \/ InsertToken(p) \/ FindConnections(p)
    \/ \E k \in Conns : SpreadTo(p, k) \/ SpreadFails(p, k)
    \/ Spread(p) \/ DeleteToken(p) \/ PurgeNewest(p) \/ MarkStale(p)
    \/ CopyToken(p) \/ MarkShared(p) \/ DropConnection(p) \/ CheckShared(p) \/ MarkUnshared(p)
    \/ LockConnection(p) \/ LoadConnection(p) \/ StoreConnection(p)

ConnectionsNext ==
    \/ \E p \in Tasks : Begin(p) \/ TaskStep(p) \/ TaskFails(p)
    \/ \E t \in Tokens : WithdrawGrant(t) \/ ExpireToken(t)
    \/ \E k \in Conns : ExpireConnection(k)
    \/ \E s \in OAuthServers : StopServer(s)

ConnectionsSpec == ConnectionsInit /\ [][ConnectionsNext]_connVars

----------------------------------------------------------------------------
(* A workspace connection keeps a credential that works.  First, a refresh    *)
(* token that is replaced when used is not presented twice by one connection:  *)
(* ensure_valid_workspace_token reads the row under the mutex, so a task that  *)
(* waited finds the refreshed token; were it refused, it would delete the      *)
(* connection.  (Not said where the refreshed token was never stored, as for a *)
(* connection whose personal token was deleted, or where the propagation of a  *)
(* personal refresh wrote the spent one back.)  Second, while no call is in    *)
(* progress every copy holds the credential of its token, unless calls         *)
(* overlapped that do not exclude each other, an update failed, a connection   *)
(* replaced the token by a refresh of its own, or its token row is gone:       *)
(* store_authorization and refresh_record_tokens reach every connection copied *)
(* from the row.                                                               *)
SharedCopiesStayUsable ==
    /\ ~selfRefused
    /\ ~apart /\ (\A p \in Tasks : Doing(p, "idle")) =>
         \A k \in Conns : conn[k].row = "on" /\ conn[k].token # NoToken =>
           conn[k].cred = token[conn[k].token].cred
=============================================================================

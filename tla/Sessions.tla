------------------------------ MODULE Sessions ------------------------------
(***************************************************************************)
(* Login sessions: the rows of user_sessions and the cache every server    *)
(* keeps of them.  A request is served by one server; a statement on the   *)
(* row and the change of the cache that goes with it are two steps.  The   *)
(* cache is a DashMap: its shards have a lock each, and the sessions here  *)
(* are those of one shard.                                                 *)
(***************************************************************************)
EXTENDS Naturals, FiniteSets

CONSTANTS
    SessionIds,
    Hosts,            \* server processes, each with its SESSION_CACHE
    WebRequests,      \* requests being served at once
    NoSession, NoHost,
    MaxRenewals,      \* bound: refreshes of sessions
    MaxSessionFaults  \* bound: failed statements and stopped servers

ASSUME SessionsAssumption ==
    /\ IsFiniteSet(SessionIds) /\ IsFiniteSet(Hosts) /\ IsFiniteSet(WebRequests)
    /\ NoSession \notin SessionIds /\ NoHost \notin Hosts
    /\ MaxRenewals \in Nat /\ MaxSessionFaults \in Nat

VARIABLES
    row,             \* user_sessions: no row, valid or expired
    cache,           \* SESSION_CACHE of each host
    web,             \* the requests being served
    sweep,           \* hosts whose hourly sweep is between its cache and the rows
    opened,          \* sessions that were created
    loggedOut,       \* history: sessions whose logout was answered
    outrun,          \* history: sessions that a logout could not end
    renewals, sessionFaults

sessionVars == <<row, cache, web, sweep, opened, loggedOut, outrun, renewals, sessionFaults>>

Entry == {"none", "valid", "expired"}
WebPcs == {"idle", "evict", "load", "keep", "persist", "cache", "uncache", "unrow"}
WebOps == {"none", "login", "use", "refresh", "logout", "purge"}
NoWebRequest == [pc |-> "idle", op |-> "none", session |-> NoSession, host |-> NoHost]

SessionsTypeOK ==
    /\ row \in [SessionIds -> Entry]
    /\ cache \in [Hosts -> [SessionIds -> Entry]]
    /\ web \in [WebRequests -> [pc: WebPcs, op: WebOps, session: SessionIds \cup {NoSession},
                                host: Hosts \cup {NoHost}]]
    /\ sweep \subseteq Hosts
    /\ opened \subseteq SessionIds /\ loggedOut \subseteq SessionIds /\ outrun \subseteq SessionIds
    /\ renewals \in 0..MaxRenewals /\ sessionFaults \in 0..MaxSessionFaults

SessionsInit ==
    /\ row = [s \in SessionIds |-> "none"]
    /\ cache = [h \in Hosts |-> [s \in SessionIds |-> "none"]]
    /\ web = [r \in WebRequests |-> NoWebRequest]
    /\ sweep = {} /\ opened = {} /\ loggedOut = {} /\ outrun = {}
    /\ renewals = 0 /\ sessionFaults = MaxSessionFaults

----------------------------------------------------------------------------
Serving(r, pc) == web[r].pc = pc
Proceed(r, pc) == web' = [web EXCEPT ![r].pc = pc]
Answer(r) == web' = [web EXCEPT ![r] = NoWebRequest]
Open(r, op, s, h, pc) ==
    /\ Serving(r, "idle")
    /\ web' = [web EXCEPT ![r] = [pc |-> pc, op |-> op, session |-> s, host |-> h]]

\* Nobody writes the cache of a host while a request there waits to evict an entry
\* it still holds a reference to.  Readers pass.
Blocked(h) == \E q \in WebRequests : Serving(q, "evict") /\ web[q].host = h

\* handle_login after the password was verified: create_session with a new id.
Login(r, s, h) ==
    /\ s \notin opened /\ opened' = opened \cup {s}
    /\ Open(r, "login", s, h, "persist")
    /\ UNCHANGED <<row, cache, sweep, loggedOut, outrun, renewals, sessionFaults>>

\* get_session, by require_session or handle_refresh: a valid entry of the cache
\* is the answer.  An expired one is to be evicted, but the request still holds
\* the reference it read it by, and so the lock its removal waits for: it stays
\* where it is until the server stops.
GetSession(r, s, h, op) ==
    /\ s \in opened
    /\ op = "refresh" => renewals < MaxRenewals
    /\ renewals' = renewals + (IF op = "refresh" THEN 1 ELSE 0)
    /\ \/ cache[h][s] = "valid" /\ op = "use" /\ Serving(r, "idle") /\ UNCHANGED web
       \/ cache[h][s] = "valid" /\ op = "refresh" /\ Open(r, op, s, h, "persist")
       \/ cache[h][s] = "expired" /\ Open(r, op, s, h, "evict")
       \/ cache[h][s] = "none" /\ Open(r, op, s, h, "load")
    /\ UNCHANGED <<row, cache, sweep, opened, loggedOut, outrun, sessionFaults>>

\* The SELECT of get_session; an expired row is deleted with delete_session.
LoadSession(r) ==
    /\ Serving(r, "load")
    /\ \/ row[web[r].session] = "none" /\ Answer(r)
       \/ row[web[r].session] = "expired"
          /\ web' = [web EXCEPT ![r].pc = "uncache", ![r].op = "purge"]
       \/ row[web[r].session] = "valid" /\ Proceed(r, "keep")
    /\ UNCHANGED <<row, cache, sweep, opened, loggedOut, outrun, renewals, sessionFaults>>

\* A session put into a cache after its logout emptied it outlives the logout.
PutIntoCache(r) ==
    LET s == web[r].session IN
    /\ ~Blocked(web[r].host)
    /\ cache' = [cache EXCEPT ![web[r].host][s] = "valid"]
    /\ outrun' = IF \E q \in WebRequests : Serving(q, "unrow") /\ web[q].session = s
                   THEN outrun \cup {s} ELSE outrun

KeepSession(r) ==
    /\ Serving(r, "keep") /\ PutIntoCache(r)
    /\ IF web[r].op = "use" THEN Answer(r) ELSE Proceed(r, "persist")
    /\ UNCHANGED <<row, sweep, opened, loggedOut, renewals, sessionFaults>>

\* persist_session: the upsert, then the cache.  A refresh gives an expired row
\* or a deleted one a new life.
PersistSession(r) ==
    /\ Serving(r, "persist")
    /\ row' = [row EXCEPT ![web[r].session] = "valid"]
    /\ Proceed(r, "cache")
    /\ UNCHANGED <<cache, sweep, opened, loggedOut, outrun, renewals, sessionFaults>>

CacheSession(r) ==
    /\ Serving(r, "cache") /\ PutIntoCache(r) /\ Answer(r)
    /\ UNCHANGED <<row, sweep, opened, loggedOut, renewals, sessionFaults>>

BeginLogout(r, s, h) ==
    /\ s \in opened /\ Open(r, "logout", s, h, "uncache")
    /\ UNCHANGED <<row, cache, sweep, opened, loggedOut, outrun, renewals, sessionFaults>>

\* Mutant: delete_session deletes the row first and the entry of the cache after it.
DeleteRowFirst(r) ==
    LET s == web[r].session IN
    /\ Serving(r, "uncache")
    /\ IF row[s] # "none"
         THEN row' = [row EXCEPT ![s] = "none"] /\ UNCHANGED <<cache, web, loggedOut>>
         ELSE /\ ~Blocked(web[r].host) /\ cache' = [cache EXCEPT ![web[r].host][s] = "none"]
              /\ loggedOut' = IF web[r].op = "logout" THEN loggedOut \cup {s} ELSE loggedOut
              /\ Answer(r) /\ UNCHANGED row
    /\ UNCHANGED <<sweep, opened, outrun, renewals, sessionFaults>>

\* delete_session: first the entry of this server's cache.
RemoveFromCache(r) ==
    /\ Serving(r, "uncache") /\ ~Blocked(web[r].host)
    /\ cache' = [cache EXCEPT ![web[r].host][web[r].session] = "none"]
    /\ Proceed(r, "unrow")
    /\ UNCHANGED <<row, sweep, opened, loggedOut, outrun, renewals, sessionFaults>>

\* Another server has the session cached, or a request has it and will write it.
HeldElsewhere(r) ==
    LET s == web[r].session IN
    \/ \E h \in Hosts \ {web[r].host} : cache[h][s] = "valid"
    \/ \E q \in WebRequests \ {r} : web[q].session = s /\ web[q].pc \in {"keep", "persist", "cache"}

\* Then the row.  The logout is answered as done either way.
LogoutAnswered(r, ended) ==
    LET s == web[r].session IN
    /\ loggedOut' = IF web[r].op = "logout" THEN loggedOut \cup {s} ELSE loggedOut
    /\ outrun' = IF ended THEN outrun ELSE outrun \cup {s}
    /\ Answer(r)
    /\ UNCHANGED <<cache, sweep, opened, renewals>>

DeleteRow(r) ==
    /\ Serving(r, "unrow")
    /\ row' = [row EXCEPT ![web[r].session] = "none"]
    /\ LogoutAnswered(r, ~HeldElsewhere(r))
    /\ UNCHANGED sessionFaults

DeleteRowFails(r) ==
    /\ Serving(r, "unrow") /\ sessionFaults > 0 /\ sessionFaults' = sessionFaults - 1
    /\ LogoutAnswered(r, FALSE)
    /\ UNCHANGED row

\* The other statements: the request is refused.
SessionStatementFails(r) ==
    /\ web[r].pc \in {"load", "persist"} /\ sessionFaults > 0 /\ sessionFaults' = sessionFaults - 1
    /\ Answer(r)
    /\ UNCHANGED <<row, cache, sweep, opened, loggedOut, outrun, renewals>>

----------------------------------------------------------------------------
\* The hourly sweep of a host: first what has expired in its cache, then the rows
\* of all.  A failed statement is logged, and the next sweep tries again.
SweepCache(h) ==
    /\ h \notin sweep /\ ~Blocked(h)
    /\ cache' = [cache EXCEPT ![h] = [s \in SessionIds |-> IF @[s] = "expired" THEN "none" ELSE @[s]]]
    /\ sweep' = sweep \cup {h}
    /\ UNCHANGED <<row, web, opened, loggedOut, outrun, renewals, sessionFaults>>

SweepRows(h) ==
    /\ h \in sweep /\ sweep' = sweep \ {h}
    /\ \/ /\ row' = [s \in SessionIds |-> IF row[s] = "expired" THEN "none" ELSE row[s]]
          /\ UNCHANGED sessionFaults
       \/ /\ sessionFaults > 0 /\ sessionFaults' = sessionFaults - 1
          /\ UNCHANGED row
    /\ UNCHANGED <<cache, web, opened, loggedOut, outrun, renewals>>

----------------------------------------------------------------------------
\* An entry of a cache is never valid for longer than the row.
ExpireEntry(h, s) ==
    /\ cache[h][s] = "valid" /\ cache' = [cache EXCEPT ![h][s] = "expired"]
    /\ UNCHANGED <<row, web, sweep, opened, loggedOut, outrun, renewals, sessionFaults>>

ExpireSession(s) ==
    /\ row[s] = "valid" /\ row' = [row EXCEPT ![s] = "expired"]
    /\ cache' = [h \in Hosts |-> [cache[h] EXCEPT ![s] = IF @ = "none" THEN @ ELSE "expired"]]
    /\ UNCHANGED <<web, sweep, opened, loggedOut, outrun, renewals, sessionFaults>>

RestartHost(h) ==
    /\ sessionFaults > 0 /\ sessionFaults' = sessionFaults - 1
    /\ cache' = [cache EXCEPT ![h] = [s \in SessionIds |-> "none"]]
    /\ web' = [r \in WebRequests |-> IF web[r].host = h THEN NoWebRequest ELSE web[r]]
    /\ sweep' = sweep \ {h}
    /\ UNCHANGED <<row, opened, loggedOut, outrun, renewals>>

WebStep(r) ==
    \/ LoadSession(r) \/ KeepSession(r) \/ PersistSession(r) \/ CacheSession(r)
    \/ RemoveFromCache(r) \/ DeleteRow(r) \/ DeleteRowFails(r) \/ SessionStatementFails(r)

SessionsNext ==
    \/ \E r \in WebRequests, s \in SessionIds, h \in Hosts :
         \/ Login(r, s, h) \/ BeginLogout(r, s, h)
         \/ \E op \in {"use", "refresh"} : GetSession(r, s, h, op)
    \/ \E r \in WebRequests : WebStep(r)
    \/ \E h \in Hosts, s \in SessionIds : ExpireEntry(h, s)
    \/ \E s \in SessionIds : ExpireSession(s)
    \/ \E h \in Hosts : SweepCache(h) \/ SweepRows(h) \/ RestartHost(h)

SessionsSpec == SessionsInit /\ [][SessionsNext]_sessionVars

----------------------------------------------------------------------------
(* An answered logout is final: no server has the session cached and there is *)
(* no row it could be loaded from, so no later request passes require_session *)
(* with it.  What the code does nothing about is left out: a session another   *)
(* server has cached, that a request had read before the row was deleted and   *)
(* will write or cache again, or whose row could not be deleted, does outlive   *)
(* its logout (outrun).  What is claimed is that nothing else brings one back:  *)
(* the cache is emptied before the row is deleted, so that no refresh can start *)
(* from the cache in between and write the row again, and neither expiry, the  *)
(* sweep nor a restart does.                                                    *)
LoggedOutStaysOut ==
    \A s \in loggedOut \ outrun : row[s] = "none" /\ \A h \in Hosts : cache[h][s] # "valid"
=============================================================================

---------------------------- MODULE TenancyProofs ----------------------------
(* Who may use what: proofs that the properties the runs check of Sessions,   *)
(* Workflows, Secrets, Membership, Billing, Connections and Accounts hold for *)
(* every value of the constants.  Each component has its own inductive        *)
(* invariant; they share no state.                                            *)
EXTENDS Membership, Billing, Connections, Sessions, Accounts, Workflows, Secrets, TLAPS,
        FiniteSetTheorems

-----------------------------------------------------------------------------
(* Sessions. *)

WebRecords == [pc: WebPcs, op: WebOps, session: SessionIds \cup {NoSession},
               host: Hosts \cup {NoHost}]

\* A request that is under way is about a session that was created, on a host.
Served ==
    /\ \A r \in WebRequests : web[r].pc # "idle" => web[r].session \in opened /\ web[r].host \in Hosts
    /\ loggedOut \subseteq opened

SessionTypes == SessionsTypeOK /\ Served

\* A request that is going to put the session into a cache or to write its row.
Revives(r, s) == web[r].session = s /\ web[r].pc \in {"keep", "persist", "cache"}

\* A session that is out stays out because nobody can bring it back, and the
\* server of a logout has it out of its cache before the row is deleted.
OutInv ==
    /\ \A s \in loggedOut \ outrun :
         /\ row[s] = "none"
         /\ \A h \in Hosts : cache[h][s] # "valid"
         /\ \A r \in WebRequests : ~Revives(r, s)
    /\ \A r \in WebRequests :
         web[r].pc = "unrow" /\ web[r].session \notin outrun
           => cache[web[r].host][web[r].session] # "valid"

LEMMA SessionsInitType == SessionsInit => SessionTypes /\ OutInv
<1> HAVE SessionsInit
<1>1. renewals \in 0..MaxRenewals /\ sessionFaults \in 0..MaxSessionFaults
  BY SessionsAssumption DEF SessionsInit
<1>2. \A r \in WebRequests : web[r] = NoWebRequest
  BY DEF SessionsInit
<1>3. SessionsTypeOK
  BY <1>1 DEF SessionsInit, SessionsTypeOK, NoWebRequest, Entry, WebPcs, WebOps
<1> QED BY <1>2, <1>3 DEF SessionsInit, SessionTypes, Served, OutInv, NoWebRequest

LEMMA SessionsStep == SessionTypes /\ OutInv /\ [SessionsNext]_sessionVars => SessionTypes' /\ OutInv'
<1> SUFFICES ASSUME SessionTypes, OutInv, [SessionsNext]_sessionVars
             PROVE  SessionTypes' /\ OutInv'
  OBVIOUS
<1>0. /\ row \in [SessionIds -> Entry] /\ cache \in [Hosts -> [SessionIds -> Entry]]
      /\ web \in [WebRequests -> WebRecords] /\ sweep \subseteq Hosts
      /\ opened \subseteq SessionIds /\ loggedOut \subseteq SessionIds /\ outrun \subseteq SessionIds
      /\ renewals \in 0..MaxRenewals /\ sessionFaults \in 0..MaxSessionFaults
      /\ NoWebRequest \in WebRecords /\ NoWebRequest.pc = "idle"
  BY DEF SessionTypes, SessionsTypeOK, WebRecords, NoWebRequest, WebPcs, WebOps
<1>1. ASSUME row' \in [SessionIds -> Entry], cache' \in [Hosts -> [SessionIds -> Entry]],
             web' \in [WebRequests -> WebRecords], sweep' \subseteq Hosts,
             opened' \subseteq SessionIds, loggedOut' \subseteq SessionIds,
             outrun' \subseteq SessionIds, renewals' \in 0..MaxRenewals,
             sessionFaults' \in 0..MaxSessionFaults
      PROVE  SessionsTypeOK'
  BY <1>1 DEF SessionsTypeOK, WebRecords
<1>2. \A n \in 0..MaxSessionFaults : n > 0 => n - 1 \in 0..MaxSessionFaults
  BY SessionsAssumption
<1>3. \A n \in 0..MaxRenewals : n < MaxRenewals => n + 1 \in 0..MaxRenewals /\ n + 0 \in 0..MaxRenewals
  BY SessionsAssumption
<1>4. \A n \in 0..MaxRenewals : n + 0 = n
  BY SessionsAssumption
\* A request arrives.
<1>5. ASSUME NEW r \in WebRequests, NEW s \in SessionIds, NEW h \in Hosts,
             NEW op \in WebOps, NEW pc \in WebPcs, Open(r, op, s, h, pc)
      PROVE  /\ web' \in [WebRequests -> WebRecords]
             /\ web'[r] = [pc |-> pc, op |-> op, session |-> s, host |-> h]
             /\ \A q \in WebRequests : q # r => web'[q] = web[q]
  BY <1>0, <1>5 DEF Open, WebRecords
\* A request is answered, or goes on.
<1>6. ASSUME NEW r \in WebRequests
      PROVE  /\ Answer(r) => /\ web' \in [WebRequests -> WebRecords] /\ web'[r] = NoWebRequest
                             /\ \A q \in WebRequests : q # r => web'[q] = web[q]
             /\ \A pc \in WebPcs : Proceed(r, pc) =>
                  /\ web' \in [WebRequests -> WebRecords] /\ web'[r] = [web[r] EXCEPT !.pc = pc]
                  /\ web'[r].pc = pc /\ web'[r].session = web[r].session
                  /\ web'[r].host = web[r].host /\ web'[r].op = web[r].op
                  /\ \A q \in WebRequests : q # r => web'[q] = web[q]
  <2>1. Answer(r) => /\ web' \in [WebRequests -> WebRecords] /\ web'[r] = NoWebRequest
                     /\ \A q \in WebRequests : q # r => web'[q] = web[q]
    BY <1>0 DEF Answer
  <2>2. ASSUME NEW pc \in WebPcs, Proceed(r, pc)
        PROVE  /\ web' \in [WebRequests -> WebRecords] /\ web'[r] = [web[r] EXCEPT !.pc = pc]
               /\ web'[r].pc = pc /\ web'[r].session = web[r].session
               /\ web'[r].host = web[r].host /\ web'[r].op = web[r].op
               /\ \A q \in WebRequests : q # r => web'[q] = web[q]
    <3>1. web[r] \in WebRecords
      BY <1>0
    <3> DEFINE x == [web[r] EXCEPT !.pc = pc]
    <3>2. /\ x \in WebRecords /\ x.pc = pc /\ x.session = web[r].session
          /\ x.host = web[r].host /\ x.op = web[r].op
      BY <3>1 DEF WebRecords
    <3>3. web' = [web EXCEPT ![r] = x]
      BY <1>0, <2>2 DEF Proceed
    <3> HIDE DEF x
    <3> QED BY <1>0, <3>2, <3>3 DEF x
  <2> QED BY <2>1, <2>2
<1>7. \A r \in WebRequests :
        web[r].pc # "idle" => web[r].session \in SessionIds /\ web[r].host \in Hosts
  BY <1>0 DEF SessionTypes, Served
\* A step that brings no session back keeps OutInv.
<1>21. ASSUME \A t \in SessionIds : row[t] = "none" => row'[t] = "none",
              \A g \in Hosts, t \in SessionIds :
                cache'[g][t] # "valid" \/ cache'[g][t] = cache[g][t],
              UNCHANGED <<loggedOut, outrun>>,
              \A q \in WebRequests : web'[q].pc \in {"idle", "evict", "load"} \/ web'[q] = web[q]
       PROVE  OutInv'
  <2>1. \A t \in loggedOut' \ outrun' :
          /\ row'[t] = "none" /\ \A g \in Hosts : cache'[g][t] # "valid"
          /\ \A q \in WebRequests : ~Revives(q, t)'
    <3> TAKE t \in loggedOut' \ outrun'
    <3>1. /\ t \in SessionIds /\ row[t] = "none" /\ \A g \in Hosts : cache[g][t] # "valid"
          /\ \A q \in WebRequests : ~Revives(q, t)
      BY <1>0, <1>21 DEF OutInv
    <3>2. row'[t] = "none" /\ \A g \in Hosts : cache'[g][t] # "valid"
      BY <1>21, <3>1
    <3>3. ASSUME NEW q \in WebRequests PROVE ~Revives(q, t)'
      BY <1>21, <3>1 DEF Revives
    <3> QED BY <3>2, <3>3
  <2>2. ASSUME NEW q \in WebRequests, web'[q].pc = "unrow", web'[q].session \notin outrun'
        PROVE  cache'[web'[q].host][web'[q].session] # "valid"
    <3>0. web'[q] = web[q] /\ web[q].pc = "unrow"
      BY <1>21, <2>2
    <3>1. web'[q] = web[q] /\ web[q].session \in SessionIds /\ web[q].host \in Hosts
      BY <1>7, <3>0
    <3>2. cache[web[q].host][web[q].session] # "valid"
      BY <1>21, <2>2, <3>1 DEF OutInv
    <3> QED BY <1>21, <3>1, <3>2
  <2> QED BY <2>1, <2>2 DEF OutInv
<1>8. ASSUME NEW r \in WebRequests, NEW s \in SessionIds, NEW h \in Hosts, Login(r, s, h)
      PROVE  SessionTypes' /\ OutInv'
  <2>1. Open(r, "login", s, h, "persist") /\ "login" \in WebOps /\ "persist" \in WebPcs
    BY <1>8 DEF Login, WebOps, WebPcs
  <2>2. /\ web' \in [WebRequests -> WebRecords]
        /\ web'[r] = [pc |-> "persist", op |-> "login", session |-> s, host |-> h]
        /\ \A q \in WebRequests : q # r => web'[q] = web[q]
    BY <1>5, <2>1
  <2>3. s \notin loggedOut
    BY <1>8 DEF Login, SessionTypes, Served
  <2>4. SessionTypes'
    BY <1>0, <1>1, <1>8, <2>2 DEF Login, SessionTypes, Served
  <2>5. OutInv'
    BY <1>8, <2>2, <2>3 DEF Login, OutInv, Revives
  <2> QED BY <2>4, <2>5
<1>9. ASSUME NEW r \in WebRequests, NEW s \in SessionIds, NEW h \in Hosts, BeginLogout(r, s, h)
      PROVE  SessionTypes' /\ OutInv'
  <2>1. Open(r, "logout", s, h, "uncache") /\ "logout" \in WebOps /\ "uncache" \in WebPcs
    BY <1>9 DEF BeginLogout, WebOps, WebPcs
  <2>2. /\ web' \in [WebRequests -> WebRecords]
        /\ web'[r] = [pc |-> "uncache", op |-> "logout", session |-> s, host |-> h]
        /\ \A q \in WebRequests : q # r => web'[q] = web[q]
    BY <1>5, <2>1
  <2>3. SessionTypes'
    BY <1>0, <1>1, <1>9, <2>2 DEF BeginLogout, SessionTypes, Served
  <2>4. OutInv'
    BY <1>9, <2>2 DEF BeginLogout, OutInv, Revives
  <2> QED BY <2>3, <2>4
<1>10. ASSUME NEW r \in WebRequests, NEW s \in SessionIds, NEW h \in Hosts,
              NEW op \in {"use", "refresh"}, GetSession(r, s, h, op)
       PROVE  SessionTypes' /\ OutInv'
  <2>0. /\ renewals' \in 0..MaxRenewals /\ s \in opened
        /\ UNCHANGED <<row, cache, sweep, opened, loggedOut, outrun, sessionFaults>>
    BY <1>0, <1>3, <1>4, <1>10 DEF GetSession
  <2>1. CASE cache[h][s] = "valid" /\ op = "use"
    <3>1. UNCHANGED web
      BY <1>10, <2>1 DEF GetSession
    <3>2. SessionTypes'
      BY <1>0, <1>1, <2>0, <3>1 DEF SessionTypes, Served
    <3>3. OutInv'
      BY <2>0, <3>1 DEF OutInv, Revives
    <3> QED BY <3>2, <3>3
  <2>2. CASE cache[h][s] = "valid" /\ op # "use"
    <3>1. Open(r, op, s, h, "persist") /\ op \in WebOps /\ "persist" \in WebPcs
      BY <1>10, <2>2 DEF GetSession, WebOps, WebPcs
    <3>2. /\ web' \in [WebRequests -> WebRecords]
          /\ web'[r] = [pc |-> "persist", op |-> op, session |-> s, host |-> h]
          /\ \A q \in WebRequests : q # r => web'[q] = web[q]
      BY <1>5, <3>1
    <3>3. SessionTypes'
      BY <1>0, <1>1, <2>0, <3>1, <3>2 DEF SessionTypes, Served
    <3>4. s \notin loggedOut \ outrun
      BY <2>2 DEF OutInv
    <3>5. OutInv'
      BY <2>0, <3>1, <3>2, <3>4 DEF OutInv, Revives
    <3> QED BY <3>3, <3>5
  <2>3. CASE cache[h][s] # "valid"
    <3>1. PICK pc \in {"evict", "load"} : Open(r, op, s, h, pc)
      BY <1>10, <2>3 DEF GetSession
    <3>2. op \in WebOps /\ pc \in WebPcs
      BY DEF WebOps, WebPcs
    <3>3. /\ web' \in [WebRequests -> WebRecords]
          /\ web'[r] = [pc |-> pc, op |-> op, session |-> s, host |-> h]
          /\ \A q \in WebRequests : q # r => web'[q] = web[q]
      BY <1>5, <3>1, <3>2
    <3>4. SessionTypes'
      BY <1>0, <1>1, <2>0, <3>3 DEF SessionTypes, Served
    <3>5. OutInv'
      BY <1>21, <2>0, <3>3
    <3> QED BY <3>4, <3>5
  <2> QED BY <2>1, <2>2, <2>3
<1>11. ASSUME NEW r \in WebRequests, LoadSession(r) PROVE SessionTypes' /\ OutInv'
  <2>1. /\ UNCHANGED <<row, cache, sweep, opened, loggedOut, outrun, renewals, sessionFaults>>
        /\ web[r].session \in opened /\ web[r].host \in Hosts /\ web[r].session \in SessionIds
    BY <1>0, <1>11 DEF LoadSession, Serving, SessionTypes, Served
  <2>2. /\ web' \in [WebRequests -> WebRecords]
        /\ \A q \in WebRequests : q # r => web'[q] = web[q]
        /\ \/ web'[r].pc = "idle"
           \/ /\ web'[r].session = web[r].session /\ web'[r].host = web[r].host
              /\ \/ web'[r].pc = "uncache"
                 \/ web'[r].pc = "keep" /\ row[web[r].session] = "valid"
    <3>1. CASE Answer(r)
      BY <1>0, <1>6, <3>1
    <3>2. CASE web' = [web EXCEPT ![r].pc = "uncache", ![r].op = "purge"]
      <4> DEFINE x == [web[r] EXCEPT !.pc = "uncache", !.op = "purge"]
      <4>1. web[r] \in WebRecords
        BY <1>0
      <4>2. x \in WebRecords /\ x.pc = "uncache" /\ x.session = web[r].session /\ x.host = web[r].host
        BY <4>1 DEF WebRecords, WebPcs, WebOps
      <4>3. web' = [web EXCEPT ![r] = x]
        BY <1>0, <3>2
      <4> HIDE DEF x
      <4> QED BY <1>0, <4>2, <4>3
    <3>3. CASE Proceed(r, "keep") /\ row[web[r].session] = "valid"
      <4>1. "keep" \in WebPcs
        BY DEF WebPcs
      <4> QED BY <1>6, <3>3, <4>1
    <3> QED BY <1>11, <3>1, <3>2, <3>3 DEF LoadSession
  <2>3. SessionTypes'
    BY <1>0, <1>1, <2>1, <2>2 DEF SessionTypes, Served
  <2>4. OutInv'
    BY <2>1, <2>2 DEF OutInv, Revives
  <2> QED BY <2>3, <2>4
<1>12. ASSUME NEW r \in WebRequests, KeepSession(r) \/ CacheSession(r) PROVE SessionTypes' /\ OutInv'
  <2> DEFINE s == web[r].session
             h == web[r].host
  <2>1. /\ UNCHANGED <<row, sweep, opened, loggedOut, renewals, sessionFaults>> /\ PutIntoCache(r)
        /\ web[r].pc \in {"keep", "cache"} /\ s \in SessionIds /\ h \in Hosts
        /\ s \in opened
    BY <1>0, <1>7, <1>12 DEF KeepSession, CacheSession, Serving, SessionTypes, Served
  <2>2. /\ web' \in [WebRequests -> WebRecords]
        /\ \A q \in WebRequests : q # r => web'[q] = web[q]
        /\ \/ web'[r].pc = "idle"
           \/ web'[r].pc = "persist" /\ web'[r].session = s /\ web'[r].host = h
    <3>1. "persist" \in WebPcs
      BY DEF WebPcs
    <3> QED BY <1>0, <1>6, <1>12, <3>1 DEF KeepSession, CacheSession
  <2>3. /\ cache' = [cache EXCEPT ![h][s] = "valid"]
        /\ outrun' = IF \E q \in WebRequests : web[q].pc = "unrow" /\ web[q].session = s
                       THEN outrun \cup {s} ELSE outrun
    BY <2>1 DEF PutIntoCache, Serving
  <2>4. s \notin loggedOut \ outrun
    BY <2>1 DEF OutInv, Revives
  <2> HIDE DEF s, h
  <2>5. /\ cache' \in [Hosts -> [SessionIds -> Entry]]
        /\ \A g \in Hosts, t \in SessionIds : t # s => cache'[g][t] = cache[g][t]
    BY <1>0, <2>1, <2>3 DEF Entry
  <2>6. SessionTypes'
    BY <1>0, <1>1, <2>1, <2>2, <2>3, <2>5 DEF SessionTypes, Served
  <2>7. \A t \in loggedOut' \ outrun' : t # s /\ t \in SessionIds /\ t \in loggedOut \ outrun
    BY <1>0, <2>1, <2>3, <2>4
  <2>8. \A t \in loggedOut' \ outrun' :
          /\ row'[t] = "none" /\ \A g \in Hosts : cache'[g][t] # "valid"
          /\ \A q \in WebRequests : ~Revives(q, t)'
    BY <2>1, <2>2, <2>5, <2>7 DEF OutInv, Revives
  <2>9. ASSUME NEW q \in WebRequests, web'[q].pc = "unrow", web'[q].session \notin outrun'
        PROVE  cache'[web'[q].host][web'[q].session] # "valid"
    <3>1. q # r /\ web'[q] = web[q] /\ web[q].session \in SessionIds /\ web[q].host \in Hosts
      BY <1>7, <2>2, <2>9
    <3>2. web[q].session # s /\ web[q].session \notin outrun
      BY <2>3, <2>9, <3>1
    <3> QED BY <2>5, <2>9, <3>1, <3>2 DEF OutInv
  <2> QED BY <2>6, <2>8, <2>9 DEF OutInv
<1>13. ASSUME NEW r \in WebRequests, PersistSession(r) PROVE SessionTypes' /\ OutInv'
  <2> DEFINE s == web[r].session
  <2>1. /\ UNCHANGED <<cache, sweep, opened, loggedOut, outrun, renewals, sessionFaults>>
        /\ web[r].pc = "persist" /\ s \in SessionIds /\ row' = [row EXCEPT ![s] = "valid"]
        /\ s \in opened /\ web[r].host \in Hosts /\ Proceed(r, "cache") /\ "cache" \in WebPcs
    BY <1>0, <1>7, <1>13 DEF PersistSession, Serving, SessionTypes, Served, WebPcs
  <2>2. /\ web' \in [WebRequests -> WebRecords]
        /\ \A q \in WebRequests : q # r => web'[q] = web[q]
        /\ web'[r].pc = "cache" /\ web'[r].session = s /\ web'[r].host = web[r].host
    BY <1>6, <2>1
  <2>3. s \notin loggedOut \ outrun
    BY <2>1 DEF OutInv, Revives
  <2> HIDE DEF s
  <2>4. row' \in [SessionIds -> Entry] /\ \A t \in SessionIds : t # s => row'[t] = row[t]
    BY <1>0, <2>1 DEF Entry
  <2>5. SessionTypes'
    BY <1>0, <1>1, <2>1, <2>2, <2>4 DEF SessionTypes, Served
  <2>6. OutInv'
    BY <1>0, <2>1, <2>2, <2>3, <2>4 DEF OutInv, Revives
  <2> QED BY <2>5, <2>6
<1>14. ASSUME NEW r \in WebRequests, RemoveFromCache(r) PROVE SessionTypes' /\ OutInv'
  <2> DEFINE s == web[r].session
             h == web[r].host
  <2>1. /\ UNCHANGED <<row, sweep, opened, loggedOut, outrun, renewals, sessionFaults>>
        /\ s \in SessionIds /\ h \in Hosts /\ cache' = [cache EXCEPT ![h][s] = "none"]
        /\ s \in opened /\ Proceed(r, "unrow") /\ "unrow" \in WebPcs
    BY <1>0, <1>7, <1>14 DEF RemoveFromCache, Serving, SessionTypes, Served, WebPcs
  <2>2. /\ web' \in [WebRequests -> WebRecords]
        /\ \A q \in WebRequests : q # r => web'[q] = web[q]
        /\ web'[r].pc = "unrow" /\ web'[r].session = s /\ web'[r].host = h
    BY <1>6, <2>1
  <2> HIDE DEF s, h
  <2>3. /\ cache' \in [Hosts -> [SessionIds -> Entry]] /\ cache'[h][s] # "valid"
        /\ \A g \in Hosts, t \in SessionIds :
             cache'[g][t] # "valid" \/ cache'[g][t] = cache[g][t]
    BY <1>0, <2>1 DEF Entry
  <2>4. SessionTypes'
    BY <1>0, <1>1, <2>1, <2>2, <2>3 DEF SessionTypes, Served
  <2>5. OutInv'
    <3>1. \A t \in loggedOut' \ outrun' :
            /\ row'[t] = "none" /\ \A g \in Hosts : cache'[g][t] # "valid"
            /\ \A q \in WebRequests : ~Revives(q, t)'
      BY <1>0, <2>1, <2>2, <2>3 DEF OutInv, Revives
    <3>2. ASSUME NEW q \in WebRequests, web'[q].pc = "unrow", web'[q].session \notin outrun'
          PROVE  cache'[web'[q].host][web'[q].session] # "valid"
      <4>1. CASE q = r
        BY <2>2, <2>3, <4>1
      <4>2. CASE q # r
        <5>1. web'[q] = web[q] /\ web[q].session \in SessionIds /\ web[q].host \in Hosts
          BY <1>7, <2>2, <3>2, <4>2
        <5>2. cache[web[q].host][web[q].session] # "valid"
          BY <2>1, <3>2, <5>1 DEF OutInv
        <5> QED BY <2>3, <5>1, <5>2
      <4> QED BY <4>1, <4>2
    <3> QED BY <3>1, <3>2 DEF OutInv
  <2> QED BY <2>4, <2>5
\* The logout is answered: nobody can bring the session back, or it was outrun.
<1>15. ASSUME NEW r \in WebRequests, DeleteRow(r) \/ DeleteRowFails(r)
       PROVE  SessionTypes' /\ OutInv'
  <2> DEFINE s == web[r].session
             h == web[r].host
  <2>1. /\ UNCHANGED <<cache, sweep, opened, renewals>> /\ sessionFaults' \in 0..MaxSessionFaults
        /\ s \in SessionIds /\ h \in Hosts /\ s \in opened /\ web[r].pc = "unrow"
        /\ Answer(r) /\ (loggedOut' = loggedOut \cup {s} \/ loggedOut' = loggedOut)
        /\ row' = [row EXCEPT ![s] = "none"] \/ row' = row
    BY <1>0, <1>2, <1>7, <1>15
       DEF DeleteRow, DeleteRowFails, LogoutAnswered, Serving, SessionTypes, Served
  <2>2. /\ web' \in [WebRequests -> WebRecords] /\ web'[r].pc = "idle"
        /\ \A q \in WebRequests : q # r => web'[q] = web[q]
    BY <1>0, <1>6, <2>1
  <2>3. \/ outrun' = outrun \cup {s}
        \/ /\ outrun' = outrun /\ row' = [row EXCEPT ![s] = "none"]
           /\ \A g \in Hosts : g # h => cache[g][s] # "valid"
           /\ \A q \in WebRequests : q # r => ~Revives(q, s)
    BY <1>15 DEF DeleteRow, DeleteRowFails, LogoutAnswered, HeldElsewhere, Revives
  <2>4. s \notin outrun => cache[h][s] # "valid"
    BY <2>1 DEF OutInv
  <2> HIDE DEF s, h
  <2>5. row' \in [SessionIds -> Entry] /\ \A t \in SessionIds : t # s => row'[t] = row[t]
    BY <1>0, <2>1 DEF Entry
  <2>6. SessionTypes'
    BY <1>0, <1>1, <2>1, <2>2, <2>3, <2>5 DEF SessionTypes, Served
  <2>7. ASSUME NEW t \in loggedOut' \ outrun'
        PROVE  /\ row'[t] = "none" /\ \A g \in Hosts : cache'[g][t] # "valid"
               /\ \A q \in WebRequests : ~Revives(q, t)'
    <3>1. CASE t = s
      <4>1. /\ s \notin outrun /\ row'[s] = "none"
            /\ \A g \in Hosts : cache[g][s] # "valid"
            /\ \A q \in WebRequests : q # r => ~Revives(q, s)
        BY <1>0, <2>1, <2>3, <2>4, <2>7, <3>1
      <4> QED BY <2>1, <2>2, <3>1, <4>1 DEF Revives
    <3>2. CASE t # s
      <4>1. t \in loggedOut \ outrun /\ t \in SessionIds
        BY <1>0, <2>1, <2>3, <2>7, <3>2
      <4> QED BY <2>1, <2>2, <2>5, <3>2, <4>1 DEF OutInv, Revives
    <3> QED BY <3>1, <3>2
  <2>8. ASSUME NEW q \in WebRequests, web'[q].pc = "unrow", web'[q].session \notin outrun'
        PROVE  cache'[web'[q].host][web'[q].session] # "valid"
    BY <2>1, <2>2, <2>3, <2>8 DEF OutInv
  <2> QED BY <2>6, <2>7, <2>8 DEF OutInv
<1>16. ASSUME NEW r \in WebRequests, SessionStatementFails(r) PROVE SessionTypes' /\ OutInv'
  <2>1. /\ UNCHANGED <<row, cache, sweep, opened, loggedOut, outrun, renewals>> /\ Answer(r)
        /\ sessionFaults' \in 0..MaxSessionFaults
    BY <1>0, <1>2, <1>16 DEF SessionStatementFails
  <2>2. /\ web' \in [WebRequests -> WebRecords] /\ web'[r].pc = "idle"
        /\ \A q \in WebRequests : q # r => web'[q] = web[q]
    BY <1>0, <1>6, <2>1
  <2>3. SessionTypes'
    BY <1>0, <1>1, <2>1, <2>2 DEF SessionTypes, Served
  <2> QED BY <2>1, <2>2, <2>3 DEF OutInv, Revives
<1>17. ASSUME NEW h \in Hosts, NEW s \in SessionIds, ExpireEntry(h, s) PROVE SessionTypes' /\ OutInv'
  <2>1. /\ cache' \in [Hosts -> [SessionIds -> Entry]]
        /\ \A g \in Hosts, t \in SessionIds :
             cache'[g][t] # "valid" \/ cache'[g][t] = cache[g][t]
        /\ UNCHANGED <<row, web, sweep, opened, loggedOut, outrun, renewals, sessionFaults>>
    BY <1>0, <1>17 DEF ExpireEntry, Entry
  <2>2. SessionTypes'
    BY <1>0, <1>1, <2>1 DEF SessionTypes, Served
  <2> QED BY <1>21, <2>1, <2>2
<1>18. ASSUME NEW s \in SessionIds, ExpireSession(s) PROVE SessionTypes' /\ OutInv'
  <2>1. /\ cache' \in [Hosts -> [SessionIds -> Entry]]
        /\ \A g \in Hosts, t \in SessionIds :
             cache'[g][t] # "valid" \/ cache'[g][t] = cache[g][t]
        /\ row' \in [SessionIds -> Entry]
        /\ \A t \in SessionIds : row[t] = "none" => row'[t] = "none"
        /\ UNCHANGED <<web, sweep, opened, loggedOut, outrun, renewals, sessionFaults>>
    BY <1>0, <1>18 DEF ExpireSession, Entry
  <2>2. SessionTypes'
    BY <1>0, <1>1, <2>1 DEF SessionTypes, Served
  <2> QED BY <1>21, <2>1, <2>2
<1>19. ASSUME NEW h \in Hosts, RestartHost(h) PROVE SessionTypes' /\ OutInv'
  <2>1. /\ cache' \in [Hosts -> [SessionIds -> Entry]]
        /\ \A g \in Hosts, t \in SessionIds :
             cache'[g][t] # "valid" \/ cache'[g][t] = cache[g][t]
        /\ UNCHANGED <<row, opened, loggedOut, outrun, renewals>> /\ sweep' \subseteq Hosts
        /\ web' \in [WebRequests -> WebRecords] /\ sessionFaults' \in 0..MaxSessionFaults
        /\ \A q \in WebRequests : web'[q].pc = "idle" \/ web'[q] = web[q]
    BY <1>0, <1>2, <1>19 DEF RestartHost, Entry
  <2>2. SessionTypes'
    BY <1>0, <1>1, <2>1 DEF SessionTypes, Served
  <2> QED BY <1>21, <2>1, <2>2
<1>20. CASE UNCHANGED sessionVars
  <2>1. UNCHANGED <<row, cache, web, sweep, opened, loggedOut, outrun, renewals, sessionFaults>>
    BY <1>20 DEF sessionVars
  <2>2. SessionTypes'
    BY <1>0, <1>1, <2>1 DEF SessionTypes, Served
  <2> QED BY <2>1, <2>2 DEF OutInv, Revives
<1>22. ASSUME NEW h \in Hosts, SweepCache(h) PROVE SessionTypes' /\ OutInv'
  <2>1. /\ cache' \in [Hosts -> [SessionIds -> Entry]]
        /\ \A g \in Hosts, t \in SessionIds :
             cache'[g][t] # "valid" \/ cache'[g][t] = cache[g][t]
        /\ sweep' \subseteq Hosts
        /\ UNCHANGED <<row, web, opened, loggedOut, outrun, renewals, sessionFaults>>
    BY <1>0, <1>22 DEF SweepCache, Entry
  <2>2. SessionTypes'
    BY <1>0, <1>1, <2>1 DEF SessionTypes, Served
  <2> QED BY <1>21, <2>1, <2>2
<1>23. ASSUME NEW h \in Hosts, SweepRows(h) PROVE SessionTypes' /\ OutInv'
  <2>1. /\ row' \in [SessionIds -> Entry]
        /\ \A t \in SessionIds : row[t] = "none" => row'[t] = "none"
        /\ sweep' \subseteq Hosts /\ sessionFaults' \in 0..MaxSessionFaults
        /\ UNCHANGED <<cache, web, opened, loggedOut, outrun, renewals>>
    BY <1>0, <1>2, <1>23 DEF SweepRows, Entry
  <2>2. SessionTypes'
    BY <1>0, <1>1, <2>1 DEF SessionTypes, Served
  <2> QED BY <1>21, <2>1, <2>2
<1> QED BY <1>8, <1>9, <1>10, <1>11, <1>12, <1>13, <1>14, <1>15, <1>16, <1>17, <1>18, <1>19, <1>20,
           <1>22, <1>23
     DEF SessionsNext, WebStep

\* An answered logout is final on every server: however the requests that use,
\* refresh and end a session interleave with the steps of delete_session, expiry,
\* sweeps and restarts, nothing brings a session back but another server's cache
\* or a request that had read it before its row was deleted, which do.
THEOREM LogoutIsFinal == SessionsSpec => []LoggedOutStaysOut
<1>1. OutInv => LoggedOutStaysOut
  BY DEF OutInv, LoggedOutStaysOut
<1> QED BY <1>1, SessionsInitType, SessionsStep, PTL DEF SessionsSpec

-----------------------------------------------------------------------------
(* Workflows. *)

SeenFlows == [shared: BOOLEAN, lockedBy: {NoAuthor, Creator}]
EditRecords == [pc: {"idle", "load", "roles", "write"}, op: EditOps, by: Authors \cup {NoAuthor},
                version: 0..MaxVersion, seen: SeenFlows, admin: BOOLEAN]

(***************************************************************************)
(* A save past its first read either names the version it read, so that    *)
(* what it saw of the row is still so if the version is, or it was made by *)
(* the creator while the workflow was personal.  When it is about to write *)
(* it was checked against the lock it saw.                                 *)
(***************************************************************************)
EditInv ==
    /\ flow.text <= flow.updatedAt
    /\ \A e \in EditRequests :
         edit[e].pc \in {"roles", "write"} /\ edit[e].op = "save" =>
           /\ edit[e].version = 0 => ~edit[e].seen.shared /\ edit[e].by = Creator
           /\ edit[e].version # 0 =>
                /\ edit[e].version <= flow.updatedAt
                /\ edit[e].version = flow.updatedAt => edit[e].seen.lockedBy = flow.lockedBy
                /\ edit[e].pc = "write" =>
                     edit[e].seen.lockedBy \in {NoAuthor, edit[e].by} \/ edit[e].admin
    /\ \A e \in EditRequests :
         edit[e].pc = "write" /\ edit[e].op = "lock" => edit[e].by = Creator

LEMMA WorkflowsInitType == WorkflowsInit => WorkflowsTypeOK /\ EditInv
<1> HAVE WorkflowsInit
<1>1. MaxVersion \in Nat \ {0} /\ Creator \in Authors
  BY WorkflowsAssumption
<1>2. NoEditRequest \in EditRecords /\ NoEditRequest.pc = "idle"
  BY <1>1 DEF NoEditRequest, EditRecords, EditOps, UnreadFlow, SeenFlows
<1>3. flow \in FlowRows /\ flow.text = 1 /\ flow.updatedAt = 1
  <2>1. 1 \in Versions
    BY <1>1 DEF Versions
  <2> QED BY <2>1 DEF WorkflowsInit, FlowRows
<1>4. WorkflowsTypeOK
  BY <1>1, <1>2, <1>3 DEF WorkflowsInit, WorkflowsTypeOK, EditRecords, SeenFlows
<1> QED BY <1>2, <1>3, <1>4 DEF WorkflowsInit, EditInv

\* A write of the row gives it a later version, and keeps the text or names it so.
LEMMA WrittenRow ==
    ASSUME WorkflowsTypeOK, CanWrite, NEW l \in {NoAuthor, Creator}
    PROVE  /\ Written(flow) \in FlowRows /\ Written(flow).updatedAt = flow.updatedAt + 1
           /\ Written(flow).text = flow.text /\ Written(flow).lockedBy = flow.lockedBy
           /\ [Written(flow) EXCEPT !.lockedBy = l] \in FlowRows
           /\ [Written(flow) EXCEPT !.lockedBy = l].updatedAt = flow.updatedAt + 1
           /\ [Written(flow) EXCEPT !.lockedBy = l].text = flow.text
           /\ [Written(flow) EXCEPT !.shared = TRUE] \in FlowRows
           /\ [Written(flow) EXCEPT !.shared = TRUE].updatedAt = flow.updatedAt + 1
           /\ [Written(flow) EXCEPT !.shared = TRUE].text = flow.text
           /\ [Written(flow) EXCEPT !.text = flow.updatedAt + 1] \in FlowRows
           /\ [Written(flow) EXCEPT !.text = flow.updatedAt + 1].updatedAt = flow.updatedAt + 1
           /\ [Written(flow) EXCEPT !.text = flow.updatedAt + 1].text = flow.updatedAt + 1
           /\ flow.updatedAt + 1 \in Versions /\ flow.updatedAt \in Nat /\ flow.text \in Nat
<1>1. flow.updatedAt + 1 \in Versions /\ flow.updatedAt \in Nat /\ flow.text \in Nat
  BY WorkflowsAssumption DEF WorkflowsTypeOK, CanWrite, FlowRows, Versions
<1>2. flow \in FlowRows
  BY DEF WorkflowsTypeOK
<1> QED BY <1>1, <1>2 DEF Written, FlowRows

LEMMA WorkflowsStep == WorkflowsTypeOK /\ EditInv /\ [WorkflowsNext]_flowVars => WorkflowsTypeOK' /\ EditInv'
<1> SUFFICES ASSUME WorkflowsTypeOK, EditInv, [WorkflowsNext]_flowVars
             PROVE  WorkflowsTypeOK' /\ EditInv'
  OBVIOUS
<1>0. /\ flow \in FlowRows /\ standing \in [Authors -> Standings]
      /\ page \in [Authors -> 0..MaxVersion] /\ edit \in [EditRequests -> EditRecords]
      /\ MaxVersion \in Nat \ {0}
      /\ flow.updatedAt \in Nat /\ flow.updatedAt \in 1..MaxVersion /\ flow.text \in Nat
      /\ flow.lockedBy \in {NoAuthor, Creator} /\ flow.shared \in BOOLEAN
  BY WorkflowsAssumption DEF WorkflowsTypeOK, EditRecords, SeenFlows, FlowRows, Versions
<1>1. ASSUME flow' \in FlowRows, standing' \in [Authors -> Standings],
             page' \in [Authors -> 0..MaxVersion], edit' \in [EditRequests -> EditRecords]
      PROVE  WorkflowsTypeOK'
  BY <1>1 DEF WorkflowsTypeOK, EditRecords, SeenFlows
<1>2. NoEditRequest \in EditRecords /\ NoEditRequest.pc = "idle"
  BY <1>0, WorkflowsAssumption DEF NoEditRequest, EditRecords, EditOps, UnreadFlow, SeenFlows
<1>3. ASSUME NEW e \in EditRequests
      PROVE  /\ edit[e] \in EditRecords /\ edit[e].version \in 0..MaxVersion /\ edit[e].version \in Nat
             /\ edit[e].by \in Authors \cup {NoAuthor} /\ edit[e].seen \in SeenFlows
             /\ edit[e].seen.lockedBy \in {NoAuthor, Creator}
  BY <1>0 DEF EditRecords, SeenFlows
<1> DEFINE Good(r, stored) ==
      /\ r.pc \in {"roles", "write"} /\ r.op = "save" =>
           /\ r.version = 0 => ~r.seen.shared /\ r.by = Creator
           /\ r.version # 0 =>
                /\ r.version <= stored.updatedAt
                /\ r.version = stored.updatedAt => r.seen.lockedBy = stored.lockedBy
                /\ r.pc = "write" => r.seen.lockedBy \in {NoAuthor, r.by} \/ r.admin
      /\ r.pc = "write" /\ r.op = "lock" => r.by = Creator
<1>4. ASSUME flow'.text <= flow'.updatedAt, \A e \in EditRequests : Good(edit'[e], flow')
      PROVE  EditInv'
  BY <1>4 DEF EditInv
<1>5. flow.text <= flow.updatedAt /\ \A e \in EditRequests : Good(edit[e], flow)
  BY DEF EditInv
\* The requests that do not move, when the row is as it was, written or deleted.
<1>6. ASSUME \/ flow'.updatedAt = flow.updatedAt + 1
             \/ flow'.updatedAt = flow.updatedAt /\ flow'.lockedBy = flow.lockedBy
      PROVE  \A e \in EditRequests : Good(edit[e], flow')
  <2>1. CASE flow'.updatedAt = flow.updatedAt /\ flow'.lockedBy = flow.lockedBy
    BY <1>5, <2>1
  <2>2. CASE flow'.updatedAt = flow.updatedAt + 1
    BY <1>0, <1>3, <1>5, <2>2
  <2> QED BY <1>6, <2>1, <2>2
\* Only the request that moves, and the row, need to be looked at.
<1>7. ASSUME NEW e \in EditRequests, NEW r \in EditRecords, edit' = [edit EXCEPT ![e] = r],
             \/ flow'.updatedAt = flow.updatedAt + 1
             \/ flow'.updatedAt = flow.updatedAt /\ flow'.lockedBy = flow.lockedBy,
             flow'.text <= flow'.updatedAt, Good(r, flow')
      PROVE  edit' \in [EditRequests -> EditRecords] /\ EditInv'
  <2>1. \A f \in EditRequests : Good(edit[f], flow')
    BY <1>6, <1>7
  <2>2. \A f \in EditRequests : edit'[f] = IF f = e THEN r ELSE edit[f]
    BY <1>0, <1>7
  <2>3. \A f \in EditRequests : Good(edit'[f], flow')
    <3> HIDE DEF Good
    <3> QED BY <1>7, <2>1, <2>2
  <2>4. edit' \in [EditRequests -> EditRecords]
    BY <1>0, <1>7
  <2> HIDE DEF Good
  <2> QED BY <1>4, <1>7, <2>3, <2>4
<1>8. \A stored : Good(NoEditRequest, stored)
  BY <1>2
<1> HIDE DEF Good
<1>9. ASSUME UNCHANGED edit, flow'.text <= flow'.updatedAt,
             \/ flow'.updatedAt = flow.updatedAt + 1
             \/ flow'.updatedAt = flow.updatedAt /\ flow'.lockedBy = flow.lockedBy
      PROVE  EditInv'
  BY <1>4, <1>6, <1>9
<1>10. CASE ShareFlow
  <2>1. /\ flow' \in FlowRows /\ flow'.updatedAt = flow.updatedAt + 1 /\ flow'.text = flow.text
        /\ UNCHANGED <<standing, page, edit>>
    BY <1>10, WrittenRow DEF ShareFlow
  <2>2. flow'.text <= flow'.updatedAt
    BY <1>0, <1>5, <2>1
  <2> QED BY <1>0, <1>1, <1>9, <2>1, <2>2
<1>11. ASSUME NEW u \in Authors, GetWorkflow(u) \/ \E r \in Standings : ChangeStanding(u, r)
       PROVE  WorkflowsTypeOK' /\ EditInv'
  <2>1. UNCHANGED <<flow, edit>>
    BY <1>11 DEF GetWorkflow, ChangeStanding
  <2>2. page' \in [Authors -> 0..MaxVersion] /\ standing' \in [Authors -> Standings]
    BY <1>0, <1>11 DEF GetWorkflow, ChangeStanding
  <2> QED BY <1>0, <1>1, <1>5, <1>9, <2>1, <2>2
<1>12. ASSUME NEW e \in EditRequests, NEW u \in Authors, NEW op \in EditOps \ {"none"},
              NEW v \in 0..MaxVersion, BeginEdit(e, u, op, v)
       PROVE  WorkflowsTypeOK' /\ EditInv'
  <2> DEFINE r == [NoEditRequest EXCEPT !.pc = IF op = "options" THEN "write" ELSE "load",
                                        !.op = op, !.by = u, !.version = v]
  <2>1. edit' = [edit EXCEPT ![e] = r] /\ UNCHANGED <<flow, standing, page>>
    BY <1>12 DEF BeginEdit
  <2>2. r \in EditRecords /\ r.op = op /\ (r.pc = "load" \/ op = "options")
    BY <1>2 DEF EditRecords, NoEditRequest
  <2> HIDE DEF r
  <2>3. Good(r, flow')
    BY <2>2 DEF Good
  <2> QED BY <1>0, <1>1, <1>5, <1>7, <2>1, <2>2, <2>3
\* A request that ends, whatever it did to the row.
<1>13. ASSUME NEW e \in EditRequests, EndEdit(e), flow' \in FlowRows, flow'.text <= flow'.updatedAt,
              page' \in [Authors -> 0..MaxVersion], UNCHANGED standing,
              \/ flow'.updatedAt = flow.updatedAt + 1
              \/ flow'.updatedAt = flow.updatedAt /\ flow'.lockedBy = flow.lockedBy
       PROVE  WorkflowsTypeOK' /\ EditInv'
  BY <1>0, <1>1, <1>2, <1>7, <1>8, <1>13 DEF EndEdit
<1>14. ASSUME NEW e \in EditRequests, LoadWorkflow(e) PROVE WorkflowsTypeOK' /\ EditInv'
  <2>1. UNCHANGED <<flow, standing, page>> /\ edit[e].pc = "load"
    BY <1>14 DEF LoadWorkflow, EditAt
  <2>2. CASE ~Finds(edit[e].by) \/ Conflicts(e)
    BY <1>0, <1>5, <1>13, <1>14, <2>1, <2>2 DEF LoadWorkflow
  <2>3. CASE ~(~Finds(edit[e].by) \/ Conflicts(e))
    <3> DEFINE seen == [shared |-> flow.shared, lockedBy |-> flow.lockedBy]
               pc == IF edit[e].op = "limit" THEN "write" ELSE "roles"
               r == [edit[e] EXCEPT !.pc = pc, !.seen = seen]
    <3>1. edit' = [edit EXCEPT ![e] = r]
      BY <1>0, <1>14, <2>3 DEF LoadWorkflow
    <3>2. seen \in SeenFlows /\ seen.shared = flow.shared /\ seen.lockedBy = flow.lockedBy
      BY <1>0 DEF SeenFlows
    <3>3. pc \in {"roles", "write"} /\ (edit[e].op = "save" => pc = "roles")
      OBVIOUS
    <3> HIDE DEF seen, pc
    <3>4. /\ r \in EditRecords /\ r.pc = pc /\ r.seen = seen /\ r.op = edit[e].op
          /\ r.version = edit[e].version /\ r.by = edit[e].by
      BY <1>3, <3>2, <3>3 DEF EditRecords
    <3>5. edit[e].op = "save" =>
            IF edit[e].version = 0 THEN ~flow.shared /\ edit[e].by = Creator
                                   ELSE edit[e].version = flow.updatedAt
      BY <1>0, <2>3 DEF Finds, Conflicts
    <3> HIDE DEF r
    <3>6. Good(r, flow)
      <4>1. CASE edit[e].op = "save" /\ edit[e].version = 0
        BY <3>2, <3>3, <3>4, <3>5, <4>1 DEF Good
      <4>2. CASE edit[e].op = "save" /\ edit[e].version # 0
        <5>1. edit[e].version = flow.updatedAt /\ flow.updatedAt <= flow.updatedAt
          BY <1>0, <3>5, <4>2
        <5> QED BY <3>2, <3>3, <3>4, <4>2, <5>1 DEF Good
      <4>3. CASE edit[e].op # "save"
        <5>1. edit[e].op = "lock" => pc = "roles"
          BY DEF pc
        <5> QED BY <3>4, <4>3, <5>1 DEF Good
      <4> QED BY <4>1, <4>2, <4>3
    <3> QED BY <1>0, <1>1, <1>5, <1>7, <2>1, <3>1, <3>4, <3>6
  <2> QED BY <2>2, <2>3
<1>15. ASSUME NEW e \in EditRequests, CheckRole(e) PROVE WorkflowsTypeOK' /\ EditInv'
  <2> DEFINE mine == standing[edit[e].by]
             admin == edit[e].seen.shared /\ mine = "admin"
             r == [edit[e] EXCEPT !.pc = "write", !.admin = admin]
  <2>1. UNCHANGED <<flow, standing, page>> /\ edit[e].pc = "roles"
    BY <1>15 DEF CheckRole, EditAt
  <2>2. CASE ~Permitted(e, mine)
    BY <1>0, <1>5, <1>13, <1>15, <2>1, <2>2 DEF CheckRole
  <2>3. CASE Permitted(e, mine)
    <3>1. edit' = [edit EXCEPT ![e] = r]
      BY <1>0, <1>15, <2>3 DEF CheckRole
    <3>2. /\ edit[e].op = "save" => edit[e].seen.lockedBy \in {NoAuthor, edit[e].by} \/ admin
          /\ edit[e].op = "lock" => edit[e].by = Creator
      BY <2>3 DEF Permitted
    <3>3. admin \in BOOLEAN
      BY <1>3 DEF SeenFlows
    <3> HIDE DEF admin
    <3>4. /\ r \in EditRecords /\ r.pc = "write" /\ r.admin = admin /\ r.op = edit[e].op
          /\ r.version = edit[e].version /\ r.by = edit[e].by /\ r.seen = edit[e].seen
      BY <1>3, <3>3 DEF EditRecords
    <3> HIDE DEF r
    <3>5. Good(edit[e], flow)
      BY <1>5
    <3>6. Good(r, flow)
      BY <2>1, <3>2, <3>4, <3>5 DEF Good
    <3> QED BY <1>0, <1>1, <1>5, <1>7, <2>1, <3>1, <3>4, <3>6
  <2> QED BY <2>2, <2>3
<1>16. ASSUME NEW e \in EditRequests, StoreSave(e) PROVE WorkflowsTypeOK' /\ EditInv'
  <2>1. EndEdit(e) /\ UNCHANGED standing
    BY <1>16 DEF StoreSave
  <2>2. CASE flow' = flow /\ page' = page
    BY <1>0, <1>5, <1>13, <2>1, <2>2
  <2>3. CASE flow' = [Written(flow) EXCEPT !.text = flow.updatedAt + 1]
    <3>1. /\ flow' \in FlowRows /\ flow'.updatedAt = flow.updatedAt + 1
          /\ flow'.text = flow.updatedAt + 1 /\ flow.updatedAt + 1 \in Versions
      BY <1>16, <2>3, WrittenRow DEF StoreSave
    <3>2. page' \in [Authors -> 0..MaxVersion]
      BY <1>0, <1>16, <3>1 DEF StoreSave, Versions
    <3>3. flow'.text <= flow'.updatedAt
      BY <1>0, <3>1
    <3> QED BY <1>13, <2>1, <3>1, <3>2, <3>3
  <2> QED BY <1>16, <2>2, <2>3 DEF StoreSave
<1>17. ASSUME NEW e \in EditRequests, SetLock(e) \/ SetOption(e) \/ DeleteFlow(e)
       PROVE  WorkflowsTypeOK' /\ EditInv'
  <2>1. EndEdit(e) /\ UNCHANGED <<standing, page>>
    BY <1>17 DEF SetLock, SetOption, DeleteFlow
  <2>2. /\ flow' \in FlowRows /\ flow'.text = flow.text
        /\ \/ flow'.updatedAt = flow.updatedAt + 1
           \/ flow'.updatedAt = flow.updatedAt /\ flow'.lockedBy = flow.lockedBy
    <3>1. CASE flow' = flow
      BY <1>0, <3>1
    <3>2. CASE flow' # flow /\ SetLock(e)
      <4> DEFINE l == IF edit[e].op = "lock" THEN edit[e].by ELSE NoAuthor
      <4>1. edit[e].op = "lock" => edit[e].by = Creator
        BY <3>2 DEF EditInv, SetLock, EditAt
      <4>2. l \in {NoAuthor, Creator} /\ CanWrite
        BY <3>2, <4>1 DEF SetLock
      <4>3. flow' = [Written(flow) EXCEPT !.lockedBy = l]
        BY <3>2 DEF SetLock
      <4> HIDE DEF l
      <4> QED BY <4>2, <4>3, WrittenRow
    <3>3. CASE flow' # flow /\ SetOption(e)
      BY <3>3, WrittenRow DEF SetOption
    <3>4. CASE flow' # flow /\ DeleteFlow(e)
      BY <1>0, <3>4 DEF DeleteFlow, FlowRows
    <3> QED BY <1>17, <3>1, <3>2, <3>3, <3>4
  <2>3. flow'.text <= flow'.updatedAt
    BY <1>0, <1>5, <2>2
  <2> QED BY <1>0, <1>13, <2>1, <2>2, <2>3
<1>18. ASSUME NEW e \in EditRequests, EditFails(e) PROVE WorkflowsTypeOK' /\ EditInv'
  BY <1>0, <1>5, <1>13, <1>18 DEF EditFails
<1>19. CASE UNCHANGED flowVars
  BY <1>0, <1>1, <1>5, <1>9, <1>19 DEF flowVars
<1> QED BY <1>10, <1>11, <1>12, <1>14, <1>15, <1>16, <1>17, <1>18, <1>19 DEF WorkflowsNext

\* What SavesRespectOthers says of one step.
SaveRespectsOthers ==
    \A e \in EditRequests : Stores(e) =>
      /\ (edit[e].version # 0 /\ flow.text <= edit[e].version) \/ FromPersonalTimes(e)
      /\ flow.lockedBy \in {NoAuthor, edit[e].by} \/ edit[e].admin

\* No save replaces a text its author has not seen, and none is stored against
\* another author's lock, though the lock and the role were read by statements
\* before: whatever moves them moves the version that the save compares.
THEOREM SavesAreRespectful == WorkflowsSpec => SavesRespectOthers
<1>1. WorkflowsTypeOK /\ EditInv /\ [WorkflowsNext]_flowVars => [SaveRespectsOthers]_flowVars
  <2> SUFFICES ASSUME WorkflowsTypeOK, EditInv, WorkflowsNext, NEW e \in EditRequests, Stores(e)
               PROVE  /\ (edit[e].version # 0 /\ flow.text <= edit[e].version) \/ FromPersonalTimes(e)
                      /\ flow.lockedBy \in {NoAuthor, edit[e].by} \/ edit[e].admin
    BY DEF SaveRespectsOthers
  <2>1. /\ edit \in [EditRequests -> EditRecords]
        /\ edit[e].pc = "write" /\ edit[e].op = "save" /\ edit'[e].pc = "idle" /\ flow'.text # flow.text
        /\ flow \in FlowRows
    BY DEF Stores, EditAt, WorkflowsTypeOK, EditRecords, SeenFlows
  \* Only the save of e itself changes the text and ends e.
  <2>2. flow' # flow /\ edit'[e] # edit[e]
    BY <2>1
  <2>3. CASE StoreSave(e)
    <3>1. edit[e].version \in {0, flow.updatedAt}
      BY <2>2, <2>3 DEF StoreSave
    <3>2. flow.lockedBy \in {NoAuthor, Creator} /\ flow.text \in Nat /\ flow.text <= flow.updatedAt
      BY <2>1 DEF EditInv, FlowRows, Versions
    <3>3. CASE edit[e].version = 0
      BY <2>1, <3>2, <3>3 DEF EditInv, FromPersonalTimes
    <3>4. CASE edit[e].version # 0
      BY <2>1, <3>1, <3>2, <3>4 DEF EditInv
    <3> QED BY <3>3, <3>4
  <2>4. ASSUME NEW f \in EditRequests, StoreSave(f) PROVE f = e
    BY <2>1, <2>2, <2>4 DEF StoreSave, EndEdit
  <2>5. ASSUME NEW f \in EditRequests, SetLock(f) \/ SetOption(f) \/ DeleteFlow(f) PROVE FALSE
    <3>1. f = e
      BY <2>1, <2>2, <2>5 DEF SetLock, SetOption, DeleteFlow, EndEdit
    <3> QED BY <2>1, <2>5, <3>1 DEF SetLock, SetOption, DeleteFlow
  <2>6. ~(\E f \in EditRequests : LoadWorkflow(f) \/ CheckRole(f) \/ EditFails(f)
            \/ \E u \in Authors, op \in EditOps \ {"none"}, v \in 0..MaxVersion : BeginEdit(f, u, op, v))
    BY <2>2 DEF LoadWorkflow, CheckRole, EditFails, BeginEdit
  <2>7. ~ShareFlow /\ ~\E u \in Authors : GetWorkflow(u) \/ \E r \in Standings : ChangeStanding(u, r)
    BY <2>2 DEF ShareFlow, GetWorkflow, ChangeStanding
  <2> QED BY <2>3, <2>4, <2>5, <2>6, <2>7 DEF WorkflowsNext
<1>3. WorkflowsSpec => [][SaveRespectsOthers]_flowVars
  BY <1>1, WorkflowsInitType, WorkflowsStep, PTL DEF WorkflowsSpec
<1> QED BY <1>3 DEF SavesRespectOthers, SaveRespectsOthers

-----------------------------------------------------------------------------
(* Secrets. *)

JobRecords == [pc: {"idle", "load", "write"}, op: JobOps, by: Holders \cup {NoHolder},
               name: Names \cup {NoName}, value: SecretValues \cup {NoSecret},
               at: Holders \cup {NoHolder}, todo: SUBSET Holders, all: BOOLEAN, copy: Documents]

\* A job that writes has somebody's document, and one that stores has a value.
JobMakesSense(j) ==
    /\ j.pc = "write" => j.at \in Holders
    /\ j.op \in {"upsert", "sync"} => j.value # NoSecret

SecretTypes == SecretsTypeOK /\ \A q \in SettingsJobs : JobMakesSense(job[q])

\* Writing a store back encrypts what was plaintext and decrypts nothing: every
\* secret reads as before.
LEMMA ReencryptedCell ==
    ASSUME NEW cell \in Cells
    PROVE  /\ Encrypted(Decrypted(cell)) \in Cells
           /\ Readable(Encrypted(Decrypted(cell))) = Readable(cell)
<1>1. \/ cell = NoCell
      \/ cell.text \in SecretValues /\ cell.layers \in 0..2 /\ cell = [text |-> cell.text, layers |-> cell.layers]
  BY DEF Cells, NoCell
<1>2. CASE cell = NoCell
  BY <1>2 DEF NoCell, Cells, Encrypted, Decrypted, Readable
<1>3. CASE cell # NoCell
  <2> DEFINE t == cell.text
             l == cell.layers
             d == IF l > 0 THEN l - 1 ELSE 0
  <2>1. t \in SecretValues /\ t # NoSecret /\ l \in 0..2 /\ cell = [text |-> t, layers |-> l]
    BY <1>1, <1>3, SecretsAssumption
  <2> HIDE DEF t, l
  <2>2. Decrypted(cell) = [text |-> t, layers |-> d]
    BY <2>1 DEF Decrypted
  <2>3. Encrypted(Decrypted(cell)) = [text |-> t, layers |-> d + 1]
    BY <2>1, <2>2 DEF Encrypted
  <2>4. d \in 0..1 /\ (d = 0 <=> l \in {0, 1}) /\ d + 1 \in 1..2 /\ (d + 1 > 0) /\ (d + 1) - 1 = d
    BY <2>1
  <2>5. Readable(cell) = IF d = 0 THEN t ELSE NoSecret
    BY <2>1, <2>2 DEF Readable
  <2>6. Decrypted([text |-> t, layers |-> d + 1]) = [text |-> t, layers |-> d]
    BY <2>4 DEF Decrypted
  <2>7. Readable(Encrypted(Decrypted(cell))) = IF d = 0 THEN t ELSE NoSecret
    <3> DEFINE x == [text |-> t, layers |-> d + 1]
    <3>1. x.text = t /\ Decrypted(x).layers = d
      BY <2>6
    <3> QED BY <2>3, <3>1 DEF Readable
  <2>8. Encrypted(Decrypted(cell)) \in Cells
    BY <2>1, <2>3, <2>4 DEF Cells
  <2> QED BY <2>5, <2>7, <2>8
<1> QED BY <1>2, <1>3

\* The change of a request touches the field it is about and no other.
LEMMA ChangedFields ==
    ASSUME NEW q \in SettingsJobs, job[q] \in JobRecords, JobMakesSense(job[q])
    PROVE  /\ Changed(q) \in Documents
           /\ Target(q) \in Fields \cup {NoName}
           /\ \A g \in Fields \ {Target(q)} : FieldOf(Changed(q), g) = FieldOf(job[q].copy, g)
<1> DEFINE j == job[q]
           f == Target(q)
           d == Changed(q)
           again == Reencrypted(j.copy.secrets)
<1>1. /\ j.copy \in Documents /\ j.copy.secrets \in [Names -> Cells] /\ j.copy.prefs \in BOOLEAN
      /\ j.name \in Names \cup {NoName} /\ j.value \in SecretValues \cup {NoSecret}
  BY DEF JobRecords, Documents
<1>2. f \in Fields \cup {NoName}
  <2>1. AutoName(j.copy) \in Names \cup {NoName}
    BY SecretsAssumption DEF AutoName
  <2> QED BY <1>1, <2>1 DEF Target, Fields
<1>3. /\ again \in [Names -> Cells]
      /\ \A n \in Names : Readable(again[n]) = Readable(j.copy.secrets[n])
  BY <1>1, ReencryptedCell DEF Reencrypted
<1>4. j.op \in {"upsert", "sync"} => j.value \in SecretValues
  BY <1>1 DEF JobMakesSense
\* The four shapes of the changed document.
<1>5. \/ f = NoName /\ d = [j.copy EXCEPT !.secrets = again]
      \/ f = "prefs" /\ d = [j.copy EXCEPT !.prefs = ~j.copy.prefs]
      \/ /\ f \in Names /\ f # "prefs"
         /\ \E c \in Cells : d = [j.copy EXCEPT !.secrets = [again EXCEPT ![f] = c]]
  <2>1. CASE f = NoName
    BY <1>1, <2>1, SecretsAssumption DEF Changed, Documents
  <2>2. CASE f # NoName /\ f = "prefs"
    BY <1>1, <2>2, SecretsAssumption DEF Changed, Documents
  <2>3. CASE f # NoName /\ f # "prefs" /\ j.op = "delete"
    <3>1. d = [j.copy EXCEPT !.secrets = [again EXCEPT ![f] = NoCell]]
      BY <1>1, <1>2, <2>3 DEF Changed, Documents, Fields
    <3>2. NoCell \in Cells
      BY DEF NoCell, Cells
    <3> QED BY <1>2, <2>3, <3>1, <3>2 DEF Fields
  <2>4. CASE f # NoName /\ f # "prefs" /\ j.op # "delete"
    <3>1. d = [j.copy EXCEPT !.secrets = [again EXCEPT ![f] = [text |-> j.value, layers |-> 1]]]
      BY <1>1, <1>2, <2>4 DEF Changed, Documents, Fields
    <3>2. j.op \in {"upsert", "sync"}
      BY <2>4 DEF Target
    <3>3. [text |-> j.value, layers |-> 1] \in Cells
      BY <1>4, <3>2 DEF Cells
    <3> QED BY <1>2, <2>4, <3>1, <3>3 DEF Fields
  <2> QED BY <2>1, <2>2, <2>3, <2>4
<1> HIDE DEF f, d, again
<1>6. \A n \in Fields : n # "prefs" => n \in Names
  BY DEF Fields
<1>7. CASE f = NoName /\ d = [j.copy EXCEPT !.secrets = again]
  <2>1. d \in Documents /\ d.secrets = again /\ d.prefs = j.copy.prefs
    BY <1>1, <1>3, <1>7 DEF Documents
  <2> QED BY <1>2, <1>3, <1>6, <2>1 DEF FieldOf, f, d
<1>8. CASE f = "prefs" /\ d = [j.copy EXCEPT !.prefs = ~j.copy.prefs]
  <2>1. d \in Documents /\ d.secrets = j.copy.secrets
    BY <1>1, <1>8 DEF Documents
  <2> QED BY <1>2, <1>6, <1>8, <2>1 DEF FieldOf, f, d
<1>9. CASE /\ f \in Names /\ f # "prefs"
           /\ \E c \in Cells : d = [j.copy EXCEPT !.secrets = [again EXCEPT ![f] = c]]
  <2>1. PICK c \in Cells : d = [j.copy EXCEPT !.secrets = [again EXCEPT ![f] = c]]
    BY <1>9
  <2> DEFINE store == [again EXCEPT ![f] = c]
  <2>2. store \in [Names -> Cells] /\ \A n \in Names : n # f => store[n] = again[n]
    BY <1>3
  <2> HIDE DEF store
  <2>3. d \in Documents /\ d.secrets = store /\ d.prefs = j.copy.prefs
    BY <1>1, <2>1, <2>2 DEF Documents, store
  <2> QED BY <1>2, <1>3, <1>6, <1>9, <2>2, <2>3 DEF FieldOf, f, d
<1> QED BY <1>5, <1>7, <1>8, <1>9

LEMMA SecretConstants ==
    /\ Empty \in Documents /\ NoJob \in JobRecords /\ JobMakesSense(NoJob) /\ NoJob.pc = "idle"
    /\ \A d \in Documents, f \in Fields : FieldOf(d, f) \in SecretValues \cup {NoSecret} \cup BOOLEAN
<1>1. Empty \in Documents
  BY DEF Empty, Documents, NoCell, Cells
<1>2. NoJob \in JobRecords /\ JobMakesSense(NoJob) /\ NoJob.pc = "idle"
  BY <1>1 DEF NoJob, JobRecords, JobOps, JobMakesSense
<1>3. ASSUME NEW d \in Documents, NEW f \in Fields
      PROVE  FieldOf(d, f) \in SecretValues \cup {NoSecret} \cup BOOLEAN
  <2>1. CASE f = "prefs"
    BY <2>1 DEF FieldOf, Documents
  <2>2. CASE f # "prefs"
    <3>1. d.secrets[f] \in Cells
      BY <2>2 DEF Fields, Documents
    <3>2. d.secrets[f].text \in SecretValues \cup {NoSecret}
      BY <3>1 DEF Cells
    <3> QED BY <2>2, <3>2 DEF FieldOf, Readable
  <2> QED BY <2>1, <2>2
<1> QED BY <1>1, <1>2, <1>3

LEMMA SecretsInitType == SecretsInit => SecretTypes /\ SettingsKeepTheirFields
<1> HAVE SecretsInit
<1>1. settings \in [Holders -> Documents]
  <2>1. PICK legacy \in SUBSET Holders, n \in Names \ AutoNames, v \in SecretValues :
          settings = [u \in Holders |->
                       IF u \in legacy THEN [Empty EXCEPT !.secrets[n] = [text |-> v, layers |-> 0]]
                                       ELSE Empty]
    BY DEF SecretsInit
  <2>2. [text |-> v, layers |-> 0] \in Cells /\ NoCell \in Cells
    BY DEF Cells, NoCell
  <2>3. [Empty EXCEPT !.secrets[n] = [text |-> v, layers |-> 0]] \in Documents
    BY <2>2 DEF Empty, Documents
  <2> QED BY <2>1, <2>3, SecretConstants
<1>2. /\ meant = [u \in Holders |-> [f \in Fields |-> FieldOf(settings[u], f)]]
      /\ job = [q \in SettingsJobs |-> NoJob] /\ lost = {} /\ writes = 0
  BY DEF SecretsInit
<1>3. meant \in [Holders -> [Fields -> SecretValues \cup {NoSecret} \cup BOOLEAN]]
  BY <1>1, <1>2, SecretConstants
<1>4. job \in [SettingsJobs -> JobRecords] /\ \A q \in SettingsJobs : job[q] = NoJob
  BY <1>2, SecretConstants
<1>5. SecretTypes
  BY <1>1, <1>2, <1>3, <1>4, SecretConstants, SecretsAssumption DEF SecretTypes, SecretsTypeOK, JobRecords
<1>6. SettingsKeepTheirFields
  BY <1>2 DEF SettingsKeepTheirFields
<1> QED BY <1>5, <1>6

LEMMA SecretsStep ==
    SecretTypes /\ SettingsKeepTheirFields /\ [SecretsNext]_settingsVars
      => SecretTypes' /\ SettingsKeepTheirFields'
<1> SUFFICES ASSUME SecretTypes, SettingsKeepTheirFields, [SecretsNext]_settingsVars
             PROVE  SecretTypes' /\ SettingsKeepTheirFields'
  OBVIOUS
<1> DEFINE Values == SecretValues \cup {NoSecret} \cup BOOLEAN
<1>0. /\ settings \in [Holders -> Documents] /\ job \in [SettingsJobs -> JobRecords]
      /\ meant \in [Holders -> [Fields -> Values]]
      /\ lost \subseteq Holders \X Fields /\ writes \in 0..MaxSettingsWrites
      /\ \A q \in SettingsJobs : job[q] \in JobRecords /\ JobMakesSense(job[q])
  BY DEF SecretTypes, SecretsTypeOK, JobRecords
<1>1. ASSUME settings' \in [Holders -> Documents], job' \in [SettingsJobs -> JobRecords],
             meant' \in [Holders -> [Fields -> Values]],
             lost' \subseteq Holders \X Fields, writes' \in 0..MaxSettingsWrites,
             \A q \in SettingsJobs : JobMakesSense(job'[q])
      PROVE  SecretTypes'
  BY <1>1 DEF SecretTypes, SecretsTypeOK, JobRecords, JobMakesSense
<1> HIDE DEF Values
\* A job moves, and no document.
<1>2. ASSUME NEW q \in SettingsJobs, NEW r \in JobRecords, JobMakesSense(r),
             job' = [job EXCEPT ![q] = r], UNCHANGED <<settings, meant, lost, writes>>
      PROVE  SecretTypes' /\ SettingsKeepTheirFields'
  <2>1. job' \in [SettingsJobs -> JobRecords] /\ \A p \in SettingsJobs : job'[p] = IF p = q THEN r ELSE job[p]
    BY <1>0, <1>2
  <2>2. \A p \in SettingsJobs : JobMakesSense(job'[p])
    BY <1>0, <1>2, <2>1
  <2>3. SecretTypes'
    BY <1>0, <1>1, <1>2, <2>1, <2>2
  <2>4. SettingsKeepTheirFields'
    BY <1>2 DEF SettingsKeepTheirFields
  <2> QED BY <2>3, <2>4
\* A job goes on with the next document or ends.
<1>3. ASSUME NEW q \in SettingsJobs, NEW j \in JobRecords, JobMakesSense(j), NextStep(q, j)
      PROVE  \E r \in JobRecords : JobMakesSense(r) /\ job' = [job EXCEPT ![q] = r]
  <2>1. CASE j.todo = {}
    BY <1>3, <2>1, SecretConstants DEF NextStep, EndJob
  <2>2. CASE j.todo # {}
    <3>1. [j EXCEPT !.pc = "load"] \in JobRecords /\ JobMakesSense([j EXCEPT !.pc = "load"])
      BY <1>3 DEF JobRecords, JobMakesSense
    <3> QED BY <1>3, <2>2, <3>1 DEF NextStep
  <2> QED BY <2>1, <2>2
<1>4. ASSUME NEW q \in SettingsJobs, NEW op \in JobOps \ {"none"}, NEW u \in Holders,
             NEW n \in Names \cup {NoName}, NEW v \in SecretValues \cup {NoSecret},
             NEW all \in BOOLEAN, BeginJob(q, op, u, n, v, all)
      PROVE  SecretTypes' /\ SettingsKeepTheirFields'
  <2> DEFINE todo == IF all /\ op # "upsert" THEN Holders ELSE {u}
             r == [NoJob EXCEPT !.pc = "load", !.op = op, !.by = u, !.name = n, !.value = v,
                                !.all = all, !.todo = todo]
  <2>1. job' = [job EXCEPT ![q] = r] /\ UNCHANGED <<settings, meant, lost, writes>>
        /\ (v = NoSecret) = (op \notin {"upsert", "sync"})
    BY <1>4 DEF BeginJob
  <2>2. todo \in SUBSET Holders
    OBVIOUS
  <2> HIDE DEF todo
  <2>3. r \in JobRecords /\ r.pc = "load" /\ r.op = op /\ r.value = v
    BY <2>2, SecretConstants DEF JobRecords, NoJob
  <2> HIDE DEF r
  <2>4. JobMakesSense(r)
    BY <2>1, <2>3 DEF JobMakesSense
  <2> QED BY <1>2, <2>1, <2>3, <2>4
<1>5. ASSUME NEW q \in SettingsJobs, LoadSettings(q) PROVE SecretTypes' /\ SettingsKeepTheirFields'
  <2>1. UNCHANGED <<settings, meant, lost, writes>>
    BY <1>5 DEF LoadSettings
  <2>2. \E r \in JobRecords : JobMakesSense(r) /\ job' = [job EXCEPT ![q] = r]
    <3>1. PICK u \in job[q].todo :
            LET doc == settings[u]
                j == [job[q] EXCEPT !.at = u, !.todo = @ \ {u}, !.copy = doc]
                mayDelete == u = j.by \/ j.by \in Admins
            IN IF j.op = "delete" /\ HasName(doc, j.name) /\ ~mayDelete THEN EndJob(q)
               ELSE IF Writes(q, doc) THEN job' = [job EXCEPT ![q] = [j EXCEPT !.pc = "write"]]
               ELSE NextStep(q, j)
      BY <1>5 DEF LoadSettings
    <3> DEFINE j == [job[q] EXCEPT !.at = u, !.todo = @ \ {u}, !.copy = settings[u]]
    <3>2. u \in Holders /\ settings[u] \in Documents
      BY <1>0 DEF JobRecords
    <3>3. /\ j \in JobRecords /\ JobMakesSense(j)
          /\ [j EXCEPT !.pc = "write"] \in JobRecords /\ JobMakesSense([j EXCEPT !.pc = "write"])
      BY <1>0, <3>2 DEF JobRecords, JobMakesSense
    <3>4. EndJob(q) \/ job' = [job EXCEPT ![q] = [j EXCEPT !.pc = "write"]] \/ NextStep(q, j)
      BY <3>1
    <3> HIDE DEF j
    <3>5. CASE EndJob(q)
      BY <3>5, SecretConstants DEF EndJob
    <3>6. CASE job' = [job EXCEPT ![q] = [j EXCEPT !.pc = "write"]]
      BY <3>3, <3>6
    <3>7. CASE NextStep(q, j)
      BY <1>3, <3>3, <3>7
    <3> QED BY <3>4, <3>5, <3>6, <3>7
  <2> QED BY <1>2, <2>1, <2>2
<1>6. ASSUME NEW q \in SettingsJobs, WriteSettings(q) PROVE SecretTypes' /\ SettingsKeepTheirFields'
  <2> DEFINE u == job[q].at
             f == Target(q)
             d == Changed(q)
             stale == {g \in Fields \ {f} : FieldOf(job[q].copy, g) # FieldOf(settings[u], g)}
  <2>1. /\ settings' = [settings EXCEPT ![u] = d]
        /\ meant' = IF f = NoName THEN meant ELSE [meant EXCEPT ![u][f] = FieldOf(d, f)]
        /\ lost' = {l \in lost : l # <<u, f>>} \cup {<<u, g>> : g \in stale}
        /\ NextStep(q, AfterWrite(q)) /\ writes' = writes + 1 /\ writes < MaxSettingsWrites
        /\ job[q].pc = "write"
    BY <1>6 DEF WriteSettings, JobAt
  <2>2. u \in Holders
    BY <1>0, <2>1 DEF JobMakesSense
  <2>3. /\ d \in Documents /\ f \in Fields \cup {NoName}
        /\ \A g \in Fields \ {f} : FieldOf(d, g) = FieldOf(job[q].copy, g)
    BY <1>0, ChangedFields
  <2>4. AfterWrite(q) \in JobRecords /\ JobMakesSense(AfterWrite(q))
    <3>1. CASE f = NoName
      BY <1>0, <3>1 DEF AfterWrite
    <3>2. CASE f # NoName
      <4> DEFINE todo == IF job[q].all THEN Holders ELSE {}
                 r == [job[q] EXCEPT !.op = "list", !.todo = todo]
      <4>1. todo \in SUBSET Holders
        OBVIOUS
      <4> HIDE DEF todo
      <4>2. r \in JobRecords /\ r.op = "list" /\ r.pc = job[q].pc /\ r.at = u
        BY <1>0, <4>1 DEF JobRecords, JobOps
      <4>3. AfterWrite(q) = r
        BY <3>2 DEF AfterWrite, todo
      <4> HIDE DEF r
      <4> QED BY <2>2, <4>2, <4>3 DEF JobMakesSense
    <3> QED BY <3>1, <3>2
  <2>5. PICK r \in JobRecords : JobMakesSense(r) /\ job' = [job EXCEPT ![q] = r]
    BY <1>3, <2>1, <2>4
  <2> HIDE DEF u, f, d
  <2>6. /\ job' \in [SettingsJobs -> JobRecords]
        /\ \A p \in SettingsJobs : JobMakesSense(job'[p])
    BY <1>0, <2>5
  <2>7. /\ settings' \in [Holders -> Documents] /\ settings'[u] = d
        /\ \A v \in Holders : v # u => settings'[v] = settings[v]
    BY <1>0, <2>1, <2>2, <2>3
  <2>8. /\ meant' \in [Holders -> [Fields -> Values]]
        /\ f # NoName => meant'[u][f] = FieldOf(d, f)
        /\ \A v \in Holders, g \in Fields : v # u \/ g # f => meant'[v][g] = meant[v][g]
    <3>1. CASE f = NoName
      BY <1>0, <2>1, <3>1
    <3>2. CASE f # NoName
      <4>1. f \in Fields /\ FieldOf(d, f) \in Values
        BY <2>3, <3>2, SecretConstants DEF Values
      <4>2. meant[u] \in [Fields -> Values]
        BY <1>0, <2>2
      <4>3. meant' = [meant EXCEPT ![u] = [meant[u] EXCEPT ![f] = FieldOf(d, f)]]
        BY <1>0, <2>1, <3>2
      <4>4. [meant[u] EXCEPT ![f] = FieldOf(d, f)] \in [Fields -> Values]
        BY <4>1, <4>2
      <4> QED BY <1>0, <2>2, <4>1, <4>2, <4>3, <4>4
    <3> QED BY <3>1, <3>2
  <2>9. writes' \in 0..MaxSettingsWrites /\ lost' \subseteq Holders \X Fields
    <3>1. writes' \in 0..MaxSettingsWrites
      BY <1>0, <2>1, SecretsAssumption
    <3>2. stale \subseteq Fields
      OBVIOUS
    <3> QED BY <1>0, <2>1, <2>2, <3>1, <3>2
  <2>10. SecretTypes'
    BY <1>1, <2>6, <2>7, <2>8, <2>9
  <2>11. ASSUME NEW v \in Holders, NEW g \in Fields, <<v, g>> \notin lost'
         PROVE  FieldOf(settings'[v], g) = meant'[v][g]
    <3>1. CASE v # u
      <4>1. <<v, g>> \notin lost
        BY <2>1, <2>11, <3>1
      <4> QED BY <2>7, <2>8, <3>1, <4>1 DEF SettingsKeepTheirFields
    <3>2. CASE v = u /\ g = f
      <4>1. f # NoName
        BY <3>2, SecretsAssumption DEF Fields
      <4> QED BY <2>7, <2>8, <3>2, <4>1
    <3>3. CASE v = u /\ g # f
      <4>1. <<v, g>> \notin lost /\ g \notin stale
        BY <2>1, <2>11, <3>3
      <4>2. FieldOf(d, g) = FieldOf(job[q].copy, g)
        BY <2>3, <3>3
      <4>3. FieldOf(job[q].copy, g) = FieldOf(settings[u], g)
        BY <3>3, <4>1
      <4> QED BY <2>7, <2>8, <3>3, <4>1, <4>2, <4>3 DEF SettingsKeepTheirFields
    <3> QED BY <3>1, <3>2, <3>3
  <2> QED BY <2>10, <2>11 DEF SettingsKeepTheirFields
<1>7. ASSUME NEW q \in SettingsJobs, JobFails(q) PROVE SecretTypes' /\ SettingsKeepTheirFields'
  BY <1>2, <1>7, SecretConstants DEF JobFails, EndJob
<1>8. CASE UNCHANGED settingsVars
  <2>1. UNCHANGED <<settings, job, meant, lost, writes>>
    BY <1>8 DEF settingsVars
  <2>2. SecretTypes'
    BY <1>0, <1>1, <2>1
  <2> QED BY <2>1, <2>2 DEF SettingsKeepTheirFields
<1> QED BY <1>4, <1>5, <1>6, <1>7, <1>8 DEF SecretsNext

\* Every field of every user's settings is what its last writer stored, whatever
\* number of requests rewrite the documents around it, unless a request wrote back
\* a copy it had read before the field changed.
THEOREM FieldsAreKept == SecretsSpec => []SettingsKeepTheirFields
  BY SecretsInitType, SecretsStep, PTL DEF SecretsSpec

-----------------------------------------------------------------------------
(* Membership.  What every step of a request leaves true of the request.      *)

GoodCall(k) ==
    /\ k.pc = "idle" => k = NoCall
    /\ k.pc # "idle" => k.actor \in Users /\ k.target \in Users
    /\ k.pc \in {"members", "pending"} => k.op \in {"add", "invite", "accept"}
    /\ k.pc = "add" => k.op \in {"add", "accept"}
    /\ k.pc = "insert" => k.op = "invite"
    /\ k.op = "accept" => k.pc \in {"members", "pending", "add", "mark"}
    /\ k.op \in {"add", "invite", "accept", "decline"} => k.role \in Granted
    /\ k.op \in {"invite", "accept", "decline"} => k.invite \in Invites
    /\ k.op = "role" => k.role \in Roles
    /\ k.pc = "setRole" => k.role \in Granted
    /\ k.pc \in {"purge", "provision", "readd"} => k.was[k.target] # "none"

CallInv == \A c \in Calls : GoodCall(call[c])

\* An invitation that is out is for a user, as a member and not as the owner.
AddressInv ==
    \A i \in Invites : invite[i].status = "pending" => invite[i].user \in Users /\ invite[i].role \in Granted

MemberTypes == MembershipTypeOK /\ CallInv /\ AddressInv

LEMMA IdleCall == NoCall \in CallRecords /\ GoodCall(NoCall) /\ NoCall.pc = "idle" /\ NoCall.op = "none"
<1>1. Cardinality(Users) \in Nat
  BY MembershipAssumption, FS_CardinalityType
<1> QED BY <1>1, SMT DEF NoCall, CallRecords, GoodCall, Pcs, Ops, Roles, Granted

\* A step of one call moves that call alone.
LEMMA CallMoves ==
    ASSUME MemberTypes, NEW c \in Calls
    PROVE  /\ call[c] \in CallRecords /\ GoodCall(call[c])
           /\ \A k \in CallRecords : call' = [call EXCEPT ![c] = k]
                => /\ call' \in [Calls -> CallRecords] /\ call'[c] = k
                   /\ \A d \in Calls : d # c => call'[d] = call[d]
           /\ \A k \in CallRecords : call' = [call EXCEPT ![c] = k] /\ GoodCall(k) => CallInv'
           /\ Return(c) => call' = [call EXCEPT ![c] = NoCall]
           /\ \A pc \in Pcs : Goto(c, pc) => call' = [call EXCEPT ![c] = [call[c] EXCEPT !.pc = pc]]
<1>1. call \in [Calls -> CallRecords]
  BY DEF MemberTypes, MembershipTypeOK
<1>2. call[c] \in CallRecords /\ GoodCall(call[c])
  BY <1>1 DEF MemberTypes, CallInv
<1>3. ASSUME NEW k \in CallRecords, call' = [call EXCEPT ![c] = k]
      PROVE  /\ call' \in [Calls -> CallRecords] /\ call'[c] = k
             /\ \A d \in Calls : d # c => call'[d] = call[d]
  BY <1>1, <1>3
<1>4. ASSUME NEW k \in CallRecords, call' = [call EXCEPT ![c] = k], GoodCall(k)
      PROVE  CallInv'
  <2>1. \A d \in Calls : GoodCall(call[d])
    BY DEF MemberTypes, CallInv
  <2>2. \A d \in Calls : GoodCall(call'[d])
    BY <1>3, <1>4, <2>1
  <2> QED BY <2>2 DEF CallInv
<1>5. Return(c) => call' = [call EXCEPT ![c] = NoCall]
  BY DEF Return
<1>6. ASSUME NEW pc \in Pcs, Goto(c, pc)
      PROVE  call' = [call EXCEPT ![c] = [call[c] EXCEPT !.pc = pc]]
  BY <1>1, <1>6 DEF Goto
<1> QED BY <1>2, <1>3, <1>4, <1>5, <1>6

\* A call that goes on is the same but for where it is.
LEMMA CallGoesOn ==
    ASSUME NEW k \in CallRecords, NEW pc \in Pcs
    PROVE  LET x == [k EXCEPT !.pc = pc]
           IN  /\ x \in CallRecords /\ x.pc = pc /\ x.op = k.op /\ x.actor = k.actor
               /\ x.target = k.target /\ x.role = k.role /\ x.invite = k.invite
               /\ x.seats = k.seats /\ x.was = k.was /\ x.only = k.only
BY DEF CallRecords

\* A conversion to solo goes on to its next member.
LEMMA NextLeaver ==
    ASSUME call \in [Calls -> CallRecords], NEW c \in Calls
    PROVE  [call EXCEPT ![c].pc = "delete", ![c].was[call[c].target] = "none"]
             = [call EXCEPT ![c] = [call[c] EXCEPT !.pc = "delete",
                                                   !.was = [call[c].was EXCEPT ![call[c].target] = "none"]]]
BY DEF CallRecords

LEMMA MembersFinite ==
    /\ IsFiniteSet(Users) /\ IsFiniteSet(Invites) /\ Cardinality(Users) \in Nat
    /\ \A S \in SUBSET Users : IsFiniteSet(S) /\ Cardinality(S) \in 0..Cardinality(Users)
<1>1. IsFiniteSet(Users) /\ IsFiniteSet(Invites) /\ Cardinality(Users) \in Nat
  BY MembershipAssumption, FS_CardinalityType
<1>2. \A S \in SUBSET Users : IsFiniteSet(S) /\ Cardinality(S) \in 0..Cardinality(Users)
  BY <1>1, FS_Subset, FS_CardinalityType
<1> QED BY <1>1, <1>2

LEMMA MembershipInitType == MembershipInit => MemberTypes
<1> HAVE MembershipInit
<1>1. call \in [Calls -> CallRecords] /\ CallInv
  BY IdleCall DEF MembershipInit, CallInv
<1>2. \A i \in Invites : invite[i].status = "unsent"
  BY DEF MembershipInit
<1>3. memberFaults \in 0..MaxMemberFaults /\ ownerId \in Users
  BY MembershipAssumption DEF MembershipInit
<1>4. invite \in [Invites -> [status: {"unsent", "pending", "accepted", "declined", "revoked"},
                              expired: BOOLEAN, user: Users \cup {NoUser}, role: Granted \cup {"none"}]]
  BY DEF MembershipInit
<1>5. MembershipTypeOK
  BY <1>1, <1>3, <1>4 DEF MembershipInit, MembershipTypeOK
<1> QED BY <1>1, <1>2, <1>5 DEF MemberTypes, AddressInv

InviteRecords == [status: {"unsent", "pending", "accepted", "declined", "revoked"},
                  expired: BOOLEAN, user: Users \cup {NoUser}, role: Granted \cup {"none"}]

LEMMA MembershipTypeStep == MemberTypes /\ [MembershipNext]_memberVars => MemberTypes'
<1> SUFFICES ASSUME MemberTypes, [MembershipNext]_memberVars
             PROVE  MemberTypes'
  OBVIOUS
<1>0. /\ role \in [Users -> Roles \cup {"none"}] /\ ownerId \in Users
      /\ invite \in [Invites -> InviteRecords]
      /\ shares \subseteq Users /\ homes \subseteq Users
      /\ call \in [Calls -> CallRecords]
      /\ overwritten \in BOOLEAN /\ dangling \in BOOLEAN /\ crowded \in BOOLEAN
      /\ leaked \subseteq Users /\ memberFaults \in 0..MaxMemberFaults
  BY DEF MemberTypes, MembershipTypeOK, InviteRecords
<1>1. \A n \in 0..MaxMemberFaults : n > 0 => n - 1 \in 0..MaxMemberFaults
  BY MembershipAssumption
<1>2. Granted \subseteq Roles /\ "owner" \in Roles /\ "none" \notin Roles /\ "owner" \notin Granted
  BY DEF Roles, Granted
\* What one call writes keeps the types, and the invitations stay as they are.
<1>3. ASSUME NEW c \in Calls, NEW k \in CallRecords, call' = [call EXCEPT ![c] = k], GoodCall(k),
             role' \in [Users -> Roles \cup {"none"}], ownerId' \in Users,
             shares' \subseteq Users, homes' \subseteq Users,
             overwritten' \in BOOLEAN, dangling' \in BOOLEAN, crowded' \in BOOLEAN,
             leaked' \subseteq Users, memberFaults' \in 0..MaxMemberFaults, UNCHANGED invite
      PROVE  MemberTypes'
  <2>1. call' \in [Calls -> CallRecords] /\ CallInv'
    BY <1>3, CallMoves
  <2>2. AddressInv'
    BY <1>3 DEF MemberTypes, AddressInv
  <2>3. MembershipTypeOK'
    BY <1>0, <1>3, <2>1 DEF MembershipTypeOK, InviteRecords
  <2> QED BY <2>1, <2>2, <2>3 DEF MemberTypes
\* An invitation that is written.
<1>4. ASSUME NEW i \in Invites, NEW r \in InviteRecords, invite' = [invite EXCEPT ![i] = r],
             r.status = "pending" => r.user \in Users /\ r.role \in Granted
      PROVE  invite' \in [Invites -> InviteRecords] /\ AddressInv'
  <2>1. invite' \in [Invites -> InviteRecords] /\ invite'[i] = r
        /\ \A j \in Invites : j # i => invite'[j] = invite[j]
    BY <1>0, <1>4
  <2>2. \A j \in Invites : invite'[j].status = "pending"
          => invite'[j].user \in Users /\ invite'[j].role \in Granted
    BY <1>4, <2>1 DEF MemberTypes, AddressInv
  <2> QED BY <2>1, <2>2 DEF AddressInv
<1>5. ASSUME invite' \in [Invites -> InviteRecords], AddressInv', CallInv',
             call' \in [Calls -> CallRecords], crowded' \in BOOLEAN,
             UNCHANGED <<role, ownerId, shares, homes, overwritten, dangling, leaked, memberFaults>>
      PROVE  MemberTypes'
  BY <1>0, <1>5 DEF MemberTypes, MembershipTypeOK, InviteRecords
\* A call begins.
<1>6. ASSUME NEW c \in Calls, NEW a \in Users, NEW u \in Users, NEW r \in Granted, BeginAdd(c, a, u, r)
      PROVE  MemberTypes'
  <2> DEFINE k == [NoCall EXCEPT !.pc = "members", !.op = "add", !.actor = a, !.target = u, !.role = r]
  <2>1. k \in CallRecords
    BY <1>2, IdleCall DEF CallRecords, Pcs, Ops
  <2>2. GoodCall(k)
    BY DEF GoodCall, NoCall
  <2>3. call' = [call EXCEPT ![c] = k]
    BY <1>6 DEF BeginAdd
  <2> HIDE DEF k
  <2> QED BY <1>0, <1>3, <1>6, <2>1, <2>2, <2>3 DEF BeginAdd, historyVars
<1>7. ASSUME NEW c \in Calls, NEW a \in Users, NEW u \in Users, NEW r \in Granted, NEW i \in Invites,
             BeginInvite(c, a, i, u, r)
      PROVE  MemberTypes'
  <2> DEFINE k == [NoCall EXCEPT !.pc = "members", !.op = "invite", !.actor = a, !.target = u,
                                 !.role = r, !.invite = i]
  <2>1. k \in CallRecords
    BY <1>2, IdleCall DEF CallRecords, Pcs, Ops
  <2>2. GoodCall(k)
    BY DEF GoodCall, NoCall
  <2>3. call' = [call EXCEPT ![c] = k]
    BY <1>7 DEF BeginInvite
  <2> HIDE DEF k
  <2> QED BY <1>0, <1>3, <1>7, <2>1, <2>2, <2>3 DEF BeginInvite, historyVars
<1>8. ASSUME NEW c \in Calls, NEW a \in Users, NEW u \in Users, NEW r \in Roles \cup {"none"},
             NEW op \in {"role", "remove", "revoke", "solo"}, BeginChange(c, op, a, u, r)
      PROVE  MemberTypes'
  <2> DEFINE k == [NoCall EXCEPT !.pc = "list", !.op = op, !.actor = a, !.target = u, !.role = r]
  <2>1. k \in CallRecords
    BY <1>2, IdleCall DEF CallRecords, Pcs, Ops
  <2>2. op = "role" => r \in Roles
    BY <1>2, <1>8 DEF BeginChange
  <2>3. GoodCall(k)
    BY <2>2 DEF GoodCall, NoCall
  <2>4. call' = [call EXCEPT ![c] = k]
    BY <1>8 DEF BeginChange
  <2> HIDE DEF k
  <2> QED BY <1>0, <1>3, <1>8, <2>1, <2>3, <2>4 DEF BeginChange, historyVars
<1>9. ASSUME NEW c \in Calls, NEW a \in Users, BeginLeave(c, a)
      PROVE  MemberTypes'
  <2> DEFINE w == [NoCall.was EXCEPT ![a] = role[a]]
             k == [NoCall EXCEPT !.pc = "delete", !.op = "leave", !.actor = a, !.target = a,
                                 !.was = w, !.only = a \notin homes]
  <2>1. NoCall.was \in [Users -> Roles \cup {"none"}] /\ w \in [Users -> Roles \cup {"none"}]
    BY <1>0 DEF NoCall
  <2>2. call' = [call EXCEPT ![c] = k]
    BY <1>9 DEF BeginLeave
  <2> HIDE DEF w
  <2>3. k \in CallRecords
    BY <1>2, <2>1, IdleCall DEF CallRecords, Pcs, Ops
  <2>4. GoodCall(k)
    BY DEF GoodCall, NoCall
  <2> HIDE DEF k
  <2> QED BY <1>0, <1>3, <1>9, <2>2, <2>3, <2>4 DEF BeginLeave, historyVars
<1>10. ASSUME NEW c \in Calls, NEW i \in Invites, NEW op \in {"accept", "decline"}, BeginDecision(c, op, i)
       PROVE  MemberTypes'
  <2> DEFINE pc == IF op = "accept" THEN "members" ELSE "mark"
             v == invite[i]
             k == [NoCall EXCEPT !.pc = pc, !.op = op, !.actor = v.user, !.target = v.user,
                                 !.role = v.role, !.invite = i]
  <2>1. v.user \in Users /\ v.role \in Granted
    BY <1>10 DEF BeginDecision, ActiveInvitation, MemberTypes, AddressInv
  <2>2. call' = [call EXCEPT ![c] = k]
    BY <1>10 DEF BeginDecision
  <2>3. pc \in {"members", "mark"} /\ (op = "accept" => pc = "members") /\ (op = "decline" => pc = "mark")
    OBVIOUS
  <2> HIDE DEF v, pc
  <2>4. k \in CallRecords
    BY <1>2, <2>1, <2>3, IdleCall DEF CallRecords, Pcs, Ops
  <2>5. GoodCall(k)
    BY <2>1, <2>3 DEF GoodCall, NoCall
  <2> HIDE DEF k
  <2> QED BY <1>0, <1>3, <1>10, <2>2, <2>4, <2>5 DEF BeginDecision, historyVars
<1>11. ASSUME NEW c \in Calls, NEW a \in Users, BeginShare(c, a)
       PROVE  MemberTypes'
  <2> DEFINE k == [NoCall EXCEPT !.pc = "share", !.op = "share", !.actor = a, !.target = a]
  <2>1. k \in CallRecords
    BY <1>2, IdleCall DEF CallRecords, Pcs, Ops
  <2>2. GoodCall(k)
    BY DEF GoodCall, NoCall
  <2>3. call' = [call EXCEPT ![c] = k]
    BY <1>11 DEF BeginShare
  <2> HIDE DEF k
  <2> QED BY <1>0, <1>3, <1>11, <2>1, <2>2, <2>3 DEF BeginShare, historyVars
\* A call that is under way ends, or goes on.
<1>12. ASSUME NEW c \in Calls, call' = [call EXCEPT ![c] = NoCall],
              role' \in [Users -> Roles \cup {"none"}], ownerId' \in Users,
              shares' \subseteq Users, homes' \subseteq Users,
              overwritten' \in BOOLEAN, dangling' \in BOOLEAN, crowded' \in BOOLEAN,
              leaked' \subseteq Users, memberFaults' \in 0..MaxMemberFaults, UNCHANGED invite
       PROVE  MemberTypes'
  BY <1>3, <1>12, IdleCall
<1>13. ASSUME NEW c \in Calls, NEW pc \in Pcs, Goto(c, pc), At(c, "idle") = FALSE,
              \/ call[c].pc = "pending" /\ pc = "insert" /\ call[c].op = "invite"
              \/ call[c].pc = "pending" /\ pc = "add" /\ call[c].op # "invite"
              \/ call[c].op = "accept" /\ pc = "mark"
              \/ call[c].pc = "list" /\ pc = "setRole" /\ call[c].op = "role" /\ call[c].role # "owner"
              \/ call[c].pc = "list" /\ pc = "demote" /\ call[c].op = "role"
              \/ call[c].pc \in {"demote", "promote"} /\ pc \in {"promote", "restore"}
              \/ call[c].pc \in {"purge", "provision"} /\ pc \in {"provision", "readd"},
              role' \in [Users -> Roles \cup {"none"}], ownerId' \in Users,
              shares' \subseteq Users, homes' \subseteq Users,
              overwritten' \in BOOLEAN, dangling' \in BOOLEAN, crowded' \in BOOLEAN,
              leaked' \subseteq Users, memberFaults' \in 0..MaxMemberFaults, UNCHANGED invite
       PROVE  MemberTypes'
  <2> DEFINE k == [call[c] EXCEPT !.pc = pc]
  <2>1. call[c] \in CallRecords /\ GoodCall(call[c]) /\ call' = [call EXCEPT ![c] = k]
    BY <1>13, CallMoves
  <2>2. /\ k \in CallRecords /\ k.pc = pc /\ k.op = call[c].op /\ k.actor = call[c].actor
        /\ k.target = call[c].target /\ k.role = call[c].role /\ k.invite = call[c].invite
        /\ k.was = call[c].was
    BY <2>1, CallGoesOn
  <2> HIDE DEF k
  <2>3. GoodCall(k)
    BY <1>13, <2>1, <2>2 DEF GoodCall, At, Roles
  <2> QED BY <1>3, <1>13, <2>1, <2>2, <2>3
<1>14. \A c \in Calls : call[c].pc # "idle" => call[c].actor \in Users /\ call[c].target \in Users
  BY DEF MemberTypes, CallInv, GoodCall
<1>15. \A c \in Calls : GoodCall(call[c]) /\ call[c] \in CallRecords
  BY <1>0 DEF MemberTypes, CallInv
<1>16. \A u \in Users : Overwrites(u) => overwritten' \in BOOLEAN
  BY DEF Overwrites
<1>17. \A r \in Roles \cup {"none"} : \A u \in Users \cup {NoUser} :
         [role EXCEPT ![u] = r] \in [Users -> Roles \cup {"none"}]
  BY <1>0
<1>20. ASSUME NEW c \in Calls, CountMembers(c)
       PROVE  MemberTypes'
  <2> DEFINE n == Cardinality(Members)
             k == [call[c] EXCEPT !.pc = "pending", !.seats = n]
  <2>1. n \in 0..Cardinality(Users)
    BY MembersFinite DEF Members
  <2>2. call' = [call EXCEPT ![c] = k]
    BY <1>0, <1>20 DEF CountMembers
  <2> HIDE DEF n
  <2>3. /\ k \in CallRecords /\ k.pc = "pending" /\ k.op = call[c].op /\ k.actor = call[c].actor
        /\ k.target = call[c].target /\ k.role = call[c].role /\ k.invite = call[c].invite
        /\ k.was = call[c].was
    BY <1>15, <2>1 DEF CallRecords, Pcs
  <2> HIDE DEF k
  <2>4. GoodCall(k)
    BY <1>15, <1>20, <2>3 DEF GoodCall, CountMembers, At
  <2> QED BY <1>0, <1>3, <1>20, <2>2, <2>3, <2>4 DEF CountMembers
<1>21. ASSUME NEW c \in Calls, CountPending(c)
       PROVE  MemberTypes'
  <2>1. \/ call' = [call EXCEPT ![c] = NoCall]
        \/ Goto(c, "insert") /\ call[c].op = "invite"
        \/ Goto(c, "add") /\ call[c].op # "invite"
    <3>1. CASE call[c].op = "invite"
      BY <1>21, <3>1 DEF CountPending, Return
    <3>2. CASE call[c].op # "invite"
      BY <1>21, <3>2 DEF CountPending, Return
    <3> QED BY <3>1, <3>2
  <2> QED BY <1>0, <1>12, <1>13, <1>21, <2>1 DEF CountPending, At, Pcs, historyVars
<1>22. ASSUME NEW c \in Calls, AddMember(c)
       PROVE  MemberTypes'
  <2>1. \/ call' = [call EXCEPT ![c] = NoCall]
        \/ Goto(c, "mark") /\ call[c].op = "accept"
    BY <1>22 DEF AddMember, Return
  <2>2. role' \in [Users -> Roles \cup {"none"}] /\ overwritten' \in BOOLEAN
    BY <1>15, <1>16, <1>14, <1>17, <1>22 DEF AddMember, CallRecords, At
  <2> QED BY <1>0, <1>12, <1>13, <1>22, <2>1, <2>2 DEF AddMember, At, Pcs
<1>23. ASSUME NEW c \in Calls, InsertInvitation(c)
       PROVE  MemberTypes'
  <2> DEFINE r == [status |-> "pending", expired |-> FALSE, user |-> call[c].target, role |-> call[c].role]
  <2>1. call[c].target \in Users /\ call[c].role \in Granted /\ call[c].invite \in Invites
    BY <1>15, <1>23 DEF GoodCall, InsertInvitation, At
  <2>2. r \in InviteRecords /\ r.user \in Users /\ r.role \in Granted
    BY <2>1 DEF InviteRecords
  <2>3. invite' = [invite EXCEPT ![call[c].invite] = r] /\ call' = [call EXCEPT ![c] = NoCall]
    BY <1>23 DEF InsertInvitation, Return
  <2> HIDE DEF r
  <2>4. invite' \in [Invites -> InviteRecords] /\ AddressInv'
    BY <1>4, <2>1, <2>2, <2>3
  <2>5. call' \in [Calls -> CallRecords] /\ CallInv'
    BY <2>3, IdleCall, CallMoves
  <2> QED BY <1>0, <1>5, <1>23, <2>4, <2>5 DEF InsertInvitation, historyVars
\* The status of an invitation, or its age, changes: it is not pending anew.
<1>24. ASSUME NEW i \in Invites, NEW st \in {"accepted", "declined", "revoked"},
              \/ invite' = [invite EXCEPT ![i].status = st] \/ invite' = [invite EXCEPT ![i].expired = TRUE]
       PROVE  invite' \in [Invites -> InviteRecords] /\ AddressInv'
  <2> DEFINE x == [invite[i] EXCEPT !.status = st]
             y == [invite[i] EXCEPT !.expired = TRUE]
  <2>1. invite[i] \in InviteRecords
    BY <1>0
  <2>2. x \in InviteRecords /\ x.status # "pending"
    BY <2>1 DEF InviteRecords
  <2>3. y \in InviteRecords /\ y.status = invite[i].status /\ y.user = invite[i].user
        /\ y.role = invite[i].role
    BY <2>1 DEF InviteRecords
  <2>4. invite' = [invite EXCEPT ![i] = x] \/ invite' = [invite EXCEPT ![i] = y]
    BY <1>0, <1>24
  <2>5. invite[i].status = "pending" => invite[i].user \in Users /\ invite[i].role \in Granted
    BY DEF MemberTypes, AddressInv
  <2> HIDE DEF x, y
  <2> QED BY <1>4, <2>2, <2>3, <2>4, <2>5
<1>25. ASSUME NEW c \in Calls, MarkInvitation(c)
       PROVE  MemberTypes'
  <2> DEFINE i == call[c].invite
             st == IF call[c].op = "accept" THEN "accepted" ELSE "declined"
  <2>1. call' = [call EXCEPT ![c] = NoCall] /\ crowded' \in BOOLEAN
    BY <1>25 DEF MarkInvitation, Return
  <2>2. call' \in [Calls -> CallRecords] /\ CallInv'
    BY <2>1, IdleCall, CallMoves
  <2>3. CASE invite' = invite
    <3>1. invite' \in [Invites -> InviteRecords] /\ AddressInv'
      BY <1>0, <2>3 DEF MemberTypes, AddressInv
    <3> QED BY <1>5, <1>25, <2>1, <2>2, <3>1 DEF MarkInvitation
  <2>4. CASE invite' # invite
    <3>1. invite' = [invite EXCEPT ![i].status = st] /\ i \in Invites \cup {NoInvite}
      BY <1>15, <1>25, <2>4 DEF MarkInvitation, CallRecords
    <3>2. i \in Invites
      BY <1>0, <2>4, <3>1
    <3>3. st \in {"accepted", "declined", "revoked"}
      OBVIOUS
    <3> HIDE DEF i, st
    <3>4. invite' \in [Invites -> InviteRecords] /\ AddressInv'
      BY <1>24, <3>1, <3>2, <3>3
    <3> QED BY <1>5, <1>25, <2>1, <2>2, <3>4 DEF MarkInvitation
  <2> QED BY <2>3, <2>4
<1>26. ASSUME NEW i \in Invites,
              \/ \E a \in Users : RevokeInvitation(a, i)
              \/ ExpireInvitation(i)
       PROVE  MemberTypes'
  <2>1. \/ invite' = [invite EXCEPT ![i].status = "revoked"]
        \/ invite' = [invite EXCEPT ![i].expired = TRUE]
    BY <1>26 DEF RevokeInvitation, ExpireInvitation
  <2>2. invite' \in [Invites -> InviteRecords] /\ AddressInv'
    BY <1>24, <2>1
  <2>3. /\ UNCHANGED <<role, ownerId, shares, homes, call, overwritten, dangling, leaked, memberFaults>>
        /\ crowded' \in BOOLEAN
    BY <1>26 DEF RevokeInvitation, ExpireInvitation
  <2>4. call' \in [Calls -> CallRecords] /\ CallInv'
    BY <1>0, <2>3 DEF MemberTypes, CallInv
  <2> QED BY <1>5, <2>2, <2>3, <2>4
<1>27. ASSUME NEW c \in Calls, ListForRole(c)
       PROVE  MemberTypes'
  <2>1. \/ call' = [call EXCEPT ![c] = NoCall]
        \/ Goto(c, "setRole") /\ call[c].role # "owner"
        \/ Goto(c, "demote")
    <3>1. CASE call[c].role = "owner"
      BY <1>27, <3>1 DEF ListForRole, Return
    <3>2. CASE call[c].role # "owner"
      BY <1>27, <3>2 DEF ListForRole, Return
    <3> QED BY <3>1, <3>2
  <2> QED BY <1>0, <1>12, <1>13, <1>27, <2>1 DEF ListForRole, At, Pcs, historyVars
<1>28. ASSUME NEW c \in Calls, SetMemberRole(c)
       PROVE  MemberTypes'
  <2>1. call' = [call EXCEPT ![c] = NoCall]
    BY <1>28 DEF SetMemberRole, Return
  <2>2. role' \in [Users -> Roles \cup {"none"}] /\ overwritten' \in BOOLEAN
    BY <1>0, <1>14, <1>15, <1>16, <1>17, <1>28 DEF SetMemberRole, CallRecords, At
  <2> QED BY <1>0, <1>12, <1>28, <2>1, <2>2 DEF SetMemberRole
<1>29. ASSUME NEW c \in Calls, Demote(c)
       PROVE  MemberTypes'
  <2>1. call' = [call EXCEPT ![c] = NoCall] \/ Goto(c, "promote")
    BY <1>29 DEF Demote, Return
  <2>2. role' \in [Users -> Roles \cup {"none"}]
    BY <1>0, <1>2, <1>14, <1>17, <1>29 DEF Demote, At, Granted
  <2> QED BY <1>0, <1>12, <1>13, <1>29, <2>1, <2>2 DEF Demote, At, Pcs, historyVars
<1>30. ASSUME NEW c \in Calls, Promote(c) \/ Restore(c)
       PROVE  MemberTypes'
  <2>1. call' = [call EXCEPT ![c] = NoCall] \/ (At(c, "promote") /\ Goto(c, "restore"))
    BY <1>30 DEF Promote, Restore, MakeOwner, Return
  <2>2. \/ UNCHANGED <<role, ownerId>>
        \/ \E u \in {call[c].target, call[c].actor} :
             ownerId' = u /\ u \in Members /\ role' = [role EXCEPT ![u] = "owner"]
    BY <1>30 DEF Promote, Restore, MakeOwner
  <2>3. role' \in [Users -> Roles \cup {"none"}] /\ ownerId' \in Users
    BY <1>0, <1>2, <2>2 DEF Members
  <2>4. dangling' \in BOOLEAN
    BY <1>0, <1>30 DEF Promote, Restore, MakeOwner
  <2>5. UNCHANGED <<invite, shares, homes, overwritten, leaked, crowded, memberFaults>>
    BY <1>30 DEF Promote, Restore
  <2> QED BY <1>0, <1>12, <1>13, <2>1, <2>3, <2>4, <2>5 DEF At, Pcs
\* The rows that a departure takes.
<1>31. ASSUME NEW c \in Calls, ListForRemoval(c)
       PROVE  MemberTypes'
  <2> DEFINE leavers == IF call[c].op = "solo" THEN Members \ {call[c].actor} ELSE {call[c].target}
             w == [u \in Users |-> IF u \in leavers THEN role[u] ELSE "none"]
             b == (call[c].op = "revoke" /\ call[c].target \notin homes)
             k == [call[c] EXCEPT !.pc = "delete", !.was = w, !.only = b]
  <2>1. call' = [call EXCEPT ![c] = NoCall] \/ call' = [call EXCEPT ![c] = k]
    BY <1>0, <1>31 DEF ListForRemoval, Return
  <2>2. w \in [Users -> Roles \cup {"none"}] /\ b \in BOOLEAN
    BY <1>0
  <2> HIDE DEF w, b, leavers
  <2>3. /\ k \in CallRecords /\ k.pc = "delete" /\ k.op = call[c].op /\ k.actor = call[c].actor
        /\ k.target = call[c].target /\ k.role = call[c].role /\ k.invite = call[c].invite
    BY ZenonT(60), <1>15, <2>2 DEF CallRecords, Pcs
  <2> HIDE DEF k
  <2>4. GoodCall(k)
    BY <1>15, <1>31, <2>3 DEF GoodCall, ListForRemoval, At
  <2> QED BY <1>0, <1>3, <1>12, <1>31, <2>1, <2>3, <2>4 DEF ListForRemoval, historyVars
<1>32. ASSUME NEW c \in Calls, NEW u \in Users, DeleteMember(c, u)
       PROVE  MemberTypes'
  <2> DEFINE k == [call[c] EXCEPT !.pc = "purge", !.target = u]
  <2>1. call' = [call EXCEPT ![c] = NoCall] \/ call' = [call EXCEPT ![c] = k]
    BY <1>0, <1>32 DEF DeleteMember, Return
  <2>2. /\ k \in CallRecords /\ k.pc = "purge" /\ k.op = call[c].op /\ k.actor = call[c].actor
        /\ k.target = u /\ k.role = call[c].role /\ k.invite = call[c].invite
        /\ k.was = call[c].was
    BY <1>15 DEF CallRecords, Pcs
  <2> HIDE DEF k
  <2>3. GoodCall(k)
    BY <1>15, <1>32, <2>2 DEF GoodCall, DeleteMember, At
  <2>4. role' \in [Users -> Roles \cup {"none"}] /\ overwritten' \in BOOLEAN
    BY <1>16, <1>17, <1>32 DEF DeleteMember
  <2> QED BY <1>0, <1>3, <1>12, <1>32, <2>1, <2>2, <2>3, <2>4 DEF DeleteMember
<1>33. ASSUME NEW c \in Calls, PurgeConnections(c)
       PROVE  MemberTypes'
  <2> DEFINE w == [call[c].was EXCEPT ![call[c].target] = "none"]
             k == [call[c] EXCEPT !.pc = "delete", !.was = w]
  <2>1. \/ call' = [call EXCEPT ![c] = NoCall] \/ Goto(c, "provision")
        \/ call' = [call EXCEPT ![c] = k]
    <3>1. \/ call' = [call EXCEPT ![c] = NoCall] \/ Goto(c, "provision")
          \/ call' = [call EXCEPT ![c].pc = "delete", ![c].was[call[c].target] = "none"]
      BY <1>33 DEF PurgeConnections, AfterPurge, Return
    <3>2. [call EXCEPT ![c].pc = "delete", ![c].was[call[c].target] = "none"] = [call EXCEPT ![c] = k]
      BY <1>0, NextLeaver
    <3> QED BY <3>1, <3>2
  <2>2. w \in [Users -> Roles \cup {"none"}]
    BY <1>15 DEF CallRecords
  <2> HIDE DEF w
  <2>3. /\ k \in CallRecords /\ k.pc = "delete" /\ k.op = call[c].op /\ k.actor = call[c].actor
        /\ k.target = call[c].target /\ k.role = call[c].role /\ k.invite = call[c].invite
    BY <1>15, <2>2 DEF CallRecords, Pcs
  <2> HIDE DEF k
  <2>4. GoodCall(k)
    BY <1>15, <1>33, <2>3 DEF GoodCall, PurgeConnections, At
  <2>5. shares' \subseteq Users
    BY <1>0, <1>33 DEF PurgeConnections
  <2> QED BY <1>0, <1>3, <1>12, <1>13, <1>33, <2>1, <2>3, <2>4, <2>5
          DEF PurgeConnections, historyVars, At, Pcs
<1>34. ASSUME NEW c \in Calls, ProvisionSolo(c) \/ InsertShare(c)
       PROVE  MemberTypes'
  <2>1. call' = [call EXCEPT ![c] = NoCall]
    BY <1>34 DEF ProvisionSolo, InsertShare, Return
  <2>2. call[c].target \in Users /\ call[c].actor \in Users
    BY <1>14, <1>34 DEF ProvisionSolo, InsertShare, At
  <2>3. shares' \subseteq Users /\ homes' \subseteq Users /\ leaked' \subseteq Users
    BY <1>0, <1>34, <2>2 DEF ProvisionSolo, InsertShare, historyVars
  <2>4. UNCHANGED <<role, ownerId, invite, overwritten, dangling, crowded, memberFaults>>
    BY <1>34 DEF ProvisionSolo, InsertShare, historyVars
  <2> QED BY <1>0, <1>12, <2>1, <2>3, <2>4
<1>35. ASSUME NEW c \in Calls, ReAdd(c)
       PROVE  MemberTypes'
  <2>1. call' = [call EXCEPT ![c] = NoCall]
    BY <1>35 DEF ReAdd, Return
  <2>2. call[c].target \in Users /\ call[c].was[call[c].target] \in Roles \cup {"none"}
    BY <1>14, <1>15, <1>35 DEF ReAdd, At, CallRecords
  <2>3. role' \in [Users -> Roles \cup {"none"}] /\ overwritten' \in BOOLEAN /\ leaked' \subseteq Users
    BY <1>0, <1>17, <1>35, <2>2 DEF ReAdd
  <2> QED BY <1>0, <1>12, <1>35, <2>1, <2>3 DEF ReAdd
<1>36. ASSUME NEW u \in Users, Unshare(u) \/ LeaveElsewhere(u)
       PROVE  MemberTypes'
  <2>1. shares' \subseteq Users /\ homes' \subseteq Users
    BY <1>0, <1>36 DEF Unshare, LeaveElsewhere
  <2>2. UNCHANGED <<role, ownerId, invite, call, historyVars, memberFaults>>
    BY <1>36 DEF Unshare, LeaveElsewhere
  <2> QED BY <1>0, <2>1, <2>2
          DEF MemberTypes, MembershipTypeOK, InviteRecords, CallInv, AddressInv, historyVars
<1>37. ASSUME NEW c \in Calls, StatementFails(c) \/ CutOff(c)
       PROVE  MemberTypes'
  <2>1. \/ call' = [call EXCEPT ![c] = NoCall]
        \/ call[c].pc = "promote" /\ Goto(c, "restore")
        \/ call[c].pc \in {"purge", "provision"} /\ Goto(c, "readd")
    BY <1>37 DEF StatementFails, CutOff, Return, At
  <2>2. call[c].target \in Users
    BY <1>14, <1>37 DEF StatementFails, CutOff
  <2>3. leaked' \subseteq Users /\ dangling' \in BOOLEAN /\ memberFaults' \in 0..MaxMemberFaults
    BY <1>0, <1>1, <1>37, <2>2 DEF StatementFails, CutOff
  <2>4. UNCHANGED <<role, ownerId, invite, shares, homes, overwritten, crowded>>
    BY <1>37 DEF StatementFails, CutOff
  <2> QED BY <1>0, <1>12, <1>13, <2>1, <2>3, <2>4 DEF At, Pcs
<1>38. ASSUME UNCHANGED memberVars
       PROVE  MemberTypes'
  BY <1>38 DEF memberVars, MemberTypes, MembershipTypeOK, InviteRecords, CallInv, AddressInv
<1> QED
  BY <1>6, <1>7, <1>8, <1>9, <1>10, <1>11, <1>20, <1>21, <1>22, <1>23, <1>25, <1>26, <1>27, <1>28,
     <1>29, <1>30, <1>31, <1>32, <1>33, <1>34, <1>35, <1>36, <1>37, <1>38
  DEF MembershipNext

LEMMA MembershipTyped == MembershipSpec => []MemberTypes
<1>1. MembershipInit => MemberTypes
  BY MembershipInitType
<1>2. MemberTypes /\ [MembershipNext]_memberVars => MemberTypes'
  BY MembershipTypeStep
<1> QED BY <1>1, <1>2, PTL DEF MembershipSpec

\* The steps of the call c.
CallSteps(c) ==
    \/ \E a \in Users :
         \/ \E u \in Users, r \in Granted : BeginAdd(c, a, u, r)
         \/ \E u \in Users, r \in Granted, i \in Invites : BeginInvite(c, a, i, u, r)
         \/ \E u \in Users, r \in Roles \cup {"none"}, op \in {"role", "remove", "revoke", "solo"} :
              BeginChange(c, op, a, u, r)
         \/ BeginLeave(c, a) \/ BeginShare(c, a)
    \/ \E i \in Invites, op \in {"accept", "decline"} : BeginDecision(c, op, i)
    \/ CountMembers(c) \/ CountPending(c) \/ AddMember(c) \/ InsertInvitation(c)
    \/ MarkInvitation(c)
    \/ ListForRole(c) \/ SetMemberRole(c) \/ Demote(c) \/ Promote(c) \/ Restore(c)
    \/ ListForRemoval(c) \/ PurgeConnections(c) \/ ProvisionSolo(c) \/ ReAdd(c)
    \/ InsertShare(c) \/ StatementFails(c) \/ CutOff(c)
    \/ \E u \in Users : DeleteMember(c, u)

LEMMA OneCallMoves ==
    ASSUME MemberTypes, NEW c \in Calls, CallSteps(c)
    PROVE  \A d \in Calls : d # c => call'[d] = call[d]
<1>1. CASE \/ \E a \in Users :
                \/ \E u \in Users, r \in Granted : BeginAdd(c, a, u, r)
                \/ \E u \in Users, r \in Granted, i \in Invites : BeginInvite(c, a, i, u, r)
                \/ \E u \in Users, r \in Roles \cup {"none"}, op \in {"role", "remove", "revoke", "solo"} :
                     BeginChange(c, op, a, u, r)
                \/ BeginLeave(c, a) \/ BeginShare(c, a)
           \/ \E i \in Invites, op \in {"accept", "decline"} : BeginDecision(c, op, i)
  BY ZenonT(60), <1>1 DEF MemberTypes, MembershipTypeOK, BeginAdd, BeginInvite, BeginChange, BeginLeave,
              BeginShare, BeginDecision
<1>2. Return(c) \/ (\E pc \in Pcs : Goto(c, pc)) => \A d \in Calls : d # c => call'[d] = call[d]
  BY DEF Return, Goto, MemberTypes, MembershipTypeOK
<1>3. CASE CountMembers(c) \/ PurgeConnections(c) \/ ListForRemoval(c) \/ \E u \in Users : DeleteMember(c, u)
  BY <1>2, <1>3 DEF MemberTypes, MembershipTypeOK, CountMembers, PurgeConnections, AfterPurge,
                    ListForRemoval, DeleteMember, Return, Goto
<1>4. CASE \/ CountPending(c) \/ AddMember(c) \/ InsertInvitation(c)
           \/ MarkInvitation(c)
           \/ ListForRole(c) \/ SetMemberRole(c) \/ Demote(c) \/ Promote(c) \/ Restore(c)
           \/ ProvisionSolo(c) \/ ReAdd(c)
           \/ InsertShare(c) \/ StatementFails(c) \/ CutOff(c)
  <2>1. Return(c) \/ \E pc \in Pcs : Goto(c, pc)
    <3>1. {"insert", "add", "mark", "setRole", "demote", "promote", "restore", "readd"} \subseteq Pcs
      BY DEF Pcs
    <3>2. CASE CountPending(c)
      BY <3>1, <3>2 DEF CountPending
    <3>3. CASE ListForRole(c)
      BY <3>1, <3>3 DEF ListForRole
    <3>4. CASE AddMember(c) \/ InsertInvitation(c) \/ MarkInvitation(c) \/ SetMemberRole(c) \/ Demote(c)
      BY <3>1, <3>4 DEF AddMember, InsertInvitation, MarkInvitation, SetMemberRole, Demote
    <3>5. CASE Promote(c) \/ Restore(c)
      BY <3>1, <3>5 DEF Promote, Restore, MakeOwner
    <3>6. CASE ProvisionSolo(c) \/ ReAdd(c) \/ InsertShare(c) \/ StatementFails(c) \/ CutOff(c)
      BY <3>1, <3>6 DEF ProvisionSolo, ReAdd, InsertShare, StatementFails, CutOff
    <3> QED BY <1>4, <3>2, <3>3, <3>4, <3>5, <3>6
  <2> QED BY <1>2, <2>1
<1> QED BY <1>1, <1>3, <1>4 DEF CallSteps

\* Every step is one of a call, of a member or of an invitation.
LEMMA MembershipSteps ==
    ASSUME [MembershipNext]_memberVars
    PROVE  \/ \E c \in Calls : CallSteps(c)
           \/ \E a \in Users : Unshare(a) \/ LeaveElsewhere(a)
           \/ \E i \in Invites : (\E a \in Users : RevokeInvitation(a, i)) \/ ExpireInvitation(i)
           \/ UNCHANGED memberVars
BY DEF MembershipNext, CallSteps

-----------------------------------------------------------------------------
(* Membership: the owner. *)

Transfers(d) == call[d].pc \in {"promote", "restore"}

LEMMA OwnerStep ==
    MemberTypes /\ WorkspaceHasOwner /\ [MembershipNext]_memberVars => WorkspaceHasOwner'
<1> SUFFICES ASSUME MemberTypes, WorkspaceHasOwner, [MembershipNext]_memberVars
             PROVE  WorkspaceHasOwner'
  OBVIOUS
<1>0. /\ role \in [Users -> Roles \cup {"none"}] /\ ownerId \in Users
      /\ call \in [Calls -> CallRecords]
      /\ overwritten \in BOOLEAN /\ dangling \in BOOLEAN
  BY DEF MemberTypes, MembershipTypeOK
<1>1. \/ overwritten
      \/ /\ \A u \in Users : role[u] = "owner" => ownerId = u
         /\ role[ownerId] = "owner" \/ dangling \/ \E d \in Calls : Transfers(d)
  BY DEF WorkspaceHasOwner, Transfers
<1>2. SUFFICES \/ overwritten'
               \/ /\ \A u \in Users : role'[u] = "owner" => ownerId' = u
                  /\ role'[ownerId'] = "owner" \/ dangling' \/ \E d \in Calls : Transfers(d)'
  BY DEF WorkspaceHasOwner, Transfers
\* Nobody's transfer ends and the owner is not touched.
<1>3. ASSUME \A d \in Calls : Transfers(d) => Transfers(d)' \/ dangling',
             ownerId' = ownerId, dangling => dangling', overwritten => overwritten',
             \/ overwritten'
             \/ \A u \in Users : role'[u] = role[u] \/ (role[u] # "owner" /\ role'[u] # "owner")
      PROVE  <1>2!1
  BY <1>0, <1>1, <1>3
<1>4. ASSUME NEW c \in Calls, CallSteps(c), ~Transfers(c)
      PROVE  \A d \in Calls : Transfers(d) => Transfers(d)'
  BY <1>4, OneCallMoves DEF Transfers
<1>5. Granted \subseteq Roles /\ "owner" \notin Granted /\ "admin" \in Granted
  BY DEF Roles, Granted
<1>6. \A c \in Calls : GoodCall(call[c]) /\ call[c] \in CallRecords
  BY <1>0 DEF MemberTypes, CallInv
<1>7. \A u \in Users, r \in Roles \cup {"none"} : role' = [role EXCEPT ![u] = r]
        => role'[u] = r /\ \A v \in Users : v # u => role'[v] = role[v]
  BY <1>0
<1>10. ASSUME NEW c \in Calls, CallSteps(c)
       PROVE  <1>2!1
  <2>1. CASE /\ UNCHANGED <<role, ownerId, overwritten, dangling>> /\ ~Transfers(c)
    BY <1>3, <1>4, <1>10, <2>1
  <2>2. CASE AddMember(c) \/ SetMemberRole(c)
    <3>1. ~Transfers(c) /\ call[c].target \in Users /\ call[c].role \in Granted
      BY <1>6, <2>2 DEF AddMember, SetMemberRole, At, Transfers, GoodCall
    <3>2. /\ role' = role \/ role' = [role EXCEPT ![call[c].target] = call[c].role]
          /\ overwritten' = (overwritten \/ role[call[c].target] = "owner")
          /\ UNCHANGED <<ownerId, dangling>>
      BY <2>2 DEF AddMember, SetMemberRole, Overwrites
    <3>3. overwritten' \/ \A u \in Users : role'[u] = role[u] \/ (role[u] # "owner" /\ role'[u] # "owner")
      <4> DEFINE t == call[c].target
                 r == call[c].role
      <4>1. t \in Users /\ r \in Roles \cup {"none"} /\ r # "owner"
        BY <1>5, <3>1
      <4>2. role' = role \/ role' = [role EXCEPT ![t] = r]
        BY <3>2
      <4>3. overwritten' = (overwritten \/ role[t] = "owner")
        BY <3>2
      <4> HIDE DEF t, r
      <4> QED BY <1>7, <4>1, <4>2, <4>3
    <3> QED BY <1>3, <1>4, <1>10, <3>1, <3>2, <3>3
  <2>3. ASSUME NEW u \in Users, DeleteMember(c, u)
        PROVE  <1>2!1
    <3>1. ~Transfers(c)
      BY <2>3 DEF DeleteMember, At, Transfers
    <3>2. /\ role' = [role EXCEPT ![u] = "none"]
          /\ overwritten' = (overwritten \/ role[u] = "owner")
          /\ UNCHANGED <<ownerId, dangling>>
      BY <2>3 DEF DeleteMember, Overwrites
    <3>3. overwritten' \/ \A v \in Users : role'[v] = role[v] \/ (role[v] # "owner" /\ role'[v] # "owner")
      BY <1>7, <3>2
    <3> QED BY <1>3, <1>4, <1>10, <3>1, <3>2, <3>3
  <2>4. CASE ReAdd(c)
    <3>1. /\ ~Transfers(c) /\ call[c].target \in Users
          /\ call[c].was[call[c].target] \in Roles \cup {"none"}
      BY <1>6, <2>4 DEF ReAdd, At, Transfers, GoodCall, CallRecords
    <3>2. /\ UNCHANGED <<ownerId, dangling>>
          /\ \/ UNCHANGED <<role, overwritten>>
             \/ /\ role' = [role EXCEPT ![call[c].target] = call[c].was[call[c].target]]
                /\ overwritten' = (overwritten \/ "owner" \in {role[call[c].target],
                                                               call[c].was[call[c].target]})
      BY <2>4 DEF ReAdd
    <3>3. overwritten' \/ \A v \in Users : role'[v] = role[v] \/ (role[v] # "owner" /\ role'[v] # "owner")
      <4> DEFINE t == call[c].target
                 r == call[c].was[t]
      <4>1. t \in Users /\ r \in Roles \cup {"none"}
        BY <3>1
      <4>2. \/ role' = role
            \/ role' = [role EXCEPT ![t] = r] /\ overwritten' = (overwritten \/ "owner" \in {role[t], r})
        BY <3>2
      <4> HIDE DEF t, r
      <4> QED BY <1>7, <4>1, <4>2
    <3>4. overwritten => overwritten'
      BY <3>2
    <3> QED BY <1>3, <1>4, <1>10, <3>1, <3>2, <3>3, <3>4
  <2>5. CASE Demote(c)
    <3>1. call[c].actor \in Users /\ call[c] \in CallRecords /\ ~Transfers(c)
      BY <1>6, <2>5 DEF Demote, At, GoodCall, Transfers
    <3>2. CASE UNCHANGED role
      BY <1>3, <1>4, <1>10, <2>5, <3>1, <3>2 DEF Demote, historyVars
    <3>3. CASE role' = [role EXCEPT ![call[c].actor] = "admin"] /\ Goto(c, "promote")
      <4>1. Transfers(c)'
        BY <1>0, <3>3 DEF Transfers, Goto
      <4>2. \A v \in Users : role'[v] = "owner" => role[v] = "owner"
        BY <1>5, <1>7, <3>1, <3>3
      <4> QED BY <1>1, <2>5, <4>1, <4>2 DEF Demote, historyVars
    <3> QED BY <2>5, <3>2, <3>3 DEF Demote
  <2>6. ASSUME Promote(c) \/ Restore(c)
        PROVE  <1>2!1
    <3> DEFINE u == IF Promote(c) THEN call[c].target ELSE call[c].actor
    <3>1. CASE u \in Members /\ ~SecondOwner(u, "owner")
      <4>1. role' = [role EXCEPT ![u] = "owner"] /\ ownerId' = u
        BY <2>6, <3>1 DEF Promote, Restore, MakeOwner
      <4>2. \A v \in Users \ {u} : role[v] # "owner"
        BY <3>1 DEF SecondOwner
      <4>3. u \in Users
        BY <3>1 DEF Members
      <4> HIDE DEF u
      <4>4. role'[u] = "owner" /\ \A v \in Users : v # u => role'[v] # "owner"
        BY <1>0, <4>1, <4>2, <4>3
      <4> QED BY <4>1, <4>3, <4>4
    <3>2. CASE ~(u \in Members /\ ~SecondOwner(u, "owner")) /\ At(c, "promote")
      <4>1. At(c, "promote") /\ ~At(c, "restore") /\ Promote(c)
        BY <2>6, <3>2 DEF Restore, At
      <4>2. Goto(c, "restore") /\ UNCHANGED <<role, ownerId, dangling, overwritten>>
        BY <3>2, <4>1 DEF Promote, MakeOwner
      <4>3. Transfers(c)'
        BY <1>0, <4>2 DEF Transfers, Goto
      <4> QED BY <1>1, <4>2, <4>3
    <3>3. CASE ~(u \in Members /\ ~SecondOwner(u, "owner")) /\ ~At(c, "promote")
      <4>1. u = call[c].actor /\ Restore(c)
        BY <2>6, <3>3 DEF Promote
      <4>2. /\ UNCHANGED <<role, ownerId, overwritten>>
            /\ dangling' = (dangling \/ ~SecondOwner(call[c].actor, "owner"))
        BY <3>3, <4>1 DEF Restore, MakeOwner
      <4>3. CASE SecondOwner(call[c].actor, "owner")
        <5>1. PICK v \in Users : role[v] = "owner"
          BY <4>3 DEF SecondOwner
        <5> QED BY <1>1, <4>2, <5>1
      <4>4. CASE ~SecondOwner(call[c].actor, "owner")
        BY <1>1, <4>2, <4>4
      <4> QED BY <4>3, <4>4
    <3> QED BY <3>1, <3>2, <3>3
  <2>7. CASE StatementFails(c) \/ CutOff(c)
    <3>1. UNCHANGED <<role, ownerId, overwritten>> /\ (dangling => dangling')
      BY <2>7 DEF StatementFails, CutOff
    <3>2. Transfers(c) => Transfers(c)' \/ dangling'
      <4>1. CASE At(c, "promote") /\ StatementFails(c)
        <5>1. Goto(c, "restore")
          BY <4>1 DEF StatementFails
        <5> QED BY <1>0, <5>1 DEF Goto, Transfers
      <4>2. CASE ~(At(c, "promote") /\ StatementFails(c))
        BY <2>7, <4>2 DEF StatementFails, CutOff, Transfers, At
      <4> QED BY <4>1, <4>2
    <3>3. \A d \in Calls : Transfers(d) => Transfers(d)' \/ dangling'
      BY <1>10, <3>2, OneCallMoves DEF Transfers
    <3> QED BY <1>3, <3>1, <3>3
  <2>8. CASE CountMembers(c) \/ CountPending(c) \/ InsertInvitation(c) \/ MarkInvitation(c)
    BY <2>1, <2>8 DEF CountMembers, CountPending, InsertInvitation, MarkInvitation, At, Transfers, historyVars
  <2>9. CASE ListForRole(c) \/ ListForRemoval(c) \/ PurgeConnections(c) \/ ProvisionSolo(c) \/ InsertShare(c)
    BY <2>1, <2>9 DEF ListForRole, ListForRemoval, PurgeConnections, ProvisionSolo, InsertShare, At,
                      Transfers, historyVars
  <2>10. CASE \/ \E a \in Users :
                \/ \E u \in Users, r \in Granted : BeginAdd(c, a, u, r)
                \/ \E u \in Users, r \in Granted, i \in Invites : BeginInvite(c, a, i, u, r)
                \/ \E u \in Users, r \in Roles \cup {"none"}, op \in {"role", "remove", "revoke", "solo"} :
                     BeginChange(c, op, a, u, r)
                \/ BeginLeave(c, a) \/ BeginShare(c, a)
           \/ \E i \in Invites, op \in {"accept", "decline"} : BeginDecision(c, op, i)
    <3>1. At(c, "idle") /\ UNCHANGED <<role, ownerId, historyVars>>
      BY <2>10 DEF BeginAdd, BeginInvite, BeginChange, BeginLeave, BeginShare, BeginDecision
    <3> QED BY <2>1, <3>1 DEF At, Transfers, historyVars
  <2> QED BY <1>10, <2>2, <2>3, <2>4, <2>5, <2>6, <2>7, <2>8, <2>9, <2>10 DEF CallSteps
<1>11. ASSUME \/ \E a \in Users : Unshare(a) \/ LeaveElsewhere(a)
              \/ \E i \in Invites : (\E a \in Users : RevokeInvitation(a, i)) \/ ExpireInvitation(i)
              \/ UNCHANGED memberVars
       PROVE  <1>2!1
  <2>1. UNCHANGED <<role, ownerId, overwritten, dangling, call>>
    BY <1>11 DEF Unshare, LeaveElsewhere, RevokeInvitation, ExpireInvitation, memberVars, historyVars
  <2> QED BY <1>3, <2>1 DEF Transfers
<1> QED BY <1>10, <1>11, MembershipSteps

\* A workspace has one owner, the one workspaces.owner_id names, whatever calls
\* interleave: set_member_role, remove_member, leave_workspace and the transfer
\* with its restoration.  It is inductive as it stands.
THEOREM WorkspacesAreOwned == MembershipSpec => []WorkspaceHasOwner
<1>1. MembershipInit => WorkspaceHasOwner
  BY MembershipAssumption DEF MembershipInit, WorkspaceHasOwner
<1>2. MemberTypes /\ WorkspaceHasOwner /\ [MembershipNext]_memberVars => WorkspaceHasOwner'
  BY OwnerStep
<1> QED BY <1>1, <1>2, MembershipTyped, PTL DEF MembershipSpec

-----------------------------------------------------------------------------
(* Membership: the connections of those who left. *)

Departs(d, u) == call[d].target = u /\ call[d].pc \in {"purge", "readd"}

LEMMA SharesStep ==
    MemberTypes /\ DepartedShareNothing /\ [MembershipNext]_memberVars => DepartedShareNothing'
<1> SUFFICES ASSUME MemberTypes, DepartedShareNothing, [MembershipNext]_memberVars
             PROVE  DepartedShareNothing'
  OBVIOUS
<1>0. /\ role \in [Users -> Roles \cup {"none"}] /\ shares \subseteq Users /\ leaked \subseteq Users
      /\ call \in [Calls -> CallRecords]
  BY DEF MemberTypes, MembershipTypeOK
<1>1. \A u \in Users : u \in shares /\ u \notin leaked => role[u] # "none" \/ \E d \in Calls : Departs(d, u)
  BY DEF DepartedShareNothing, Departs, Members
<1>2. SUFFICES \A u \in Users : u \in shares' /\ u \notin leaked'
                 => role'[u] # "none" \/ \E d \in Calls : Departs(d, u)'
  <2>1. shares' \subseteq Users
    BY MembershipTypeStep DEF MemberTypes, MembershipTypeOK
  <2> QED BY <2>1 DEF DepartedShareNothing, Departs, Members
\* Nobody leaves and nothing new is shared.
<1>3. ASSUME shares' \subseteq shares, leaked \subseteq leaked',
             \A u \in Users : role[u] # "none" => role'[u] # "none",
             \A d \in Calls, u \in Users :
               Departs(d, u) => Departs(d, u)' \/ u \in leaked' \/ role'[u] # "none" \/ u \notin shares'
      PROVE  <1>2!1
  BY <1>1, <1>3
<1>4. ASSUME NEW c \in Calls, CallSteps(c)
      PROVE  \A d \in Calls, u \in Users : d # c => (Departs(d, u) <=> Departs(d, u)')
  BY <1>4, OneCallMoves DEF Departs
<1>5. "none" \notin Granted /\ "none" \notin Roles
  BY DEF Roles, Granted
<1>6. \A c \in Calls : GoodCall(call[c]) /\ call[c] \in CallRecords
  BY <1>0 DEF MemberTypes, CallInv
<1>7. \A u \in Users, r \in Roles \cup {"none"} : role' = [role EXCEPT ![u] = r]
        => role'[u] = r /\ \A v \in Users : v # u => role'[v] = role[v]
  BY <1>0
\* A step of a call that is not undoing a departure.
<1>8. ASSUME NEW c \in Calls, CallSteps(c), call[c].pc \notin {"purge", "readd"}
      PROVE  \A d \in Calls, u \in Users : Departs(d, u) => Departs(d, u)'
  BY <1>4, <1>8 DEF Departs
<1>10. ASSUME NEW c \in Calls, CallSteps(c)
       PROVE  <1>2!1
  <2>1. CASE UNCHANGED <<role, shares, leaked>> /\ call[c].pc \notin {"purge", "readd"}
    BY <1>3, <1>8, <1>10, <2>1
  <2>2. CASE AddMember(c) \/ SetMemberRole(c)
    <3> DEFINE t == call[c].target
               r == call[c].role
    <3>1. t \in Users /\ r \in Granted /\ r \in Roles \cup {"none"} /\ call[c].pc \notin {"purge", "readd"}
      BY <1>6, <2>2 DEF AddMember, SetMemberRole, At, GoodCall, Roles
    <3>2. role' = role \/ role' = [role EXCEPT ![t] = r]
      BY <2>2 DEF AddMember, SetMemberRole
    <3>3. UNCHANGED <<shares, leaked>>
      BY <2>2 DEF AddMember, SetMemberRole
    <3> HIDE DEF t, r
    <3>4. \A u \in Users : role[u] # "none" => role'[u] # "none"
      BY <1>5, <1>7, <3>1, <3>2
    <3> QED BY <1>3, <1>8, <1>10, <3>1, <3>3, <3>4
  <2>3. ASSUME NEW u \in Users, DeleteMember(c, u)
        PROVE  <1>2!1
    <3>1. call[c].pc = "delete" /\ UNCHANGED <<shares, leaked>> /\ role' = [role EXCEPT ![u] = "none"]
      BY <2>3 DEF DeleteMember, At
    <3>2. \A d \in Calls, v \in Users : Departs(d, v) => Departs(d, v)'
      BY <1>8, <1>10, <3>1
    <3>3. \A v \in Users : v # u => role'[v] = role[v]
      BY <1>7, <3>1
    <3>4. role[u] = "none" \/ Departs(c, u)'
      <4>1. CASE call[c].op = "revoke" /\ u \notin Members
        BY <4>1 DEF Members
      <4>2. CASE ~(call[c].op = "revoke" /\ u \notin Members)
        <5>1. call' = [call EXCEPT ![c].pc = "purge", ![c].target = u]
          BY <2>3, <4>2 DEF DeleteMember
        <5> QED BY <1>0, <5>1 DEF Departs, CallRecords
      <4> QED BY <4>1, <4>2
    <3> QED BY <1>1, <3>1, <3>2, <3>3, <3>4
  <2>4. CASE PurgeConnections(c)
    <3>1. shares' = shares \ {call[c].target} /\ UNCHANGED <<role, leaked>>
      BY <2>4 DEF PurgeConnections, historyVars
    <3>2. \A u \in Users : Departs(c, u) => u \notin shares'
      BY <3>1 DEF Departs
    <3> QED BY <1>3, <1>4, <1>10, <3>1, <3>2
  <2>5. CASE ReAdd(c)
    <3> DEFINE t == call[c].target
               r == call[c].was[t]
    <3>1. t \in Users /\ r \in Roles \cup {"none"} /\ r # "none" /\ UNCHANGED shares
      BY <1>6, <2>5 DEF ReAdd, At, GoodCall, CallRecords
    <3>2. \/ leaked' = leaked \cup {t} /\ UNCHANGED role
          \/ role' = [role EXCEPT ![t] = r] /\ UNCHANGED leaked
      BY <2>5 DEF ReAdd
    <3>3. \A u \in Users : Departs(c, u) => u = t
      BY DEF Departs
    <3> HIDE DEF t, r
    <3>4. \A u \in Users : role[u] # "none" => role'[u] # "none"
      BY <1>7, <3>1, <3>2
    <3>5. t \in leaked' \/ role'[t] # "none"
      BY <1>7, <3>1, <3>2
    <3>6. leaked \subseteq leaked'
      BY <3>2
    <3> QED BY <1>3, <1>4, <1>10, <3>1, <3>3, <3>4, <3>5, <3>6
  <2>6. CASE InsertShare(c)
    <3> DEFINE t == call[c].actor
    <3>1. /\ shares' = shares \cup {t} /\ UNCHANGED role
          /\ leaked' = IF t \in Members THEN leaked ELSE leaked \cup {t}
          /\ call[c].pc \notin {"purge", "readd"}
      BY <2>6 DEF InsertShare, At
    <3>2. \A d \in Calls, v \in Users : Departs(d, v) => Departs(d, v)'
      BY <1>8, <1>10, <3>1
    <3> QED BY <1>1, <3>1, <3>2 DEF Members
  <2>7. CASE StatementFails(c) \/ CutOff(c)
    <3>1. UNCHANGED <<role, shares>> /\ leaked \subseteq leaked'
      BY <2>7 DEF StatementFails, CutOff
    <3>2. ASSUME NEW u \in Users, Departs(c, u)
          PROVE  Departs(c, u)' \/ u \in leaked'
      <4>1. CASE u \in leaked'
        BY <4>1
      <4>2. CASE u \notin leaked'
        <5>1. call[c].pc = "purge" /\ call[c].target = u /\ StatementFails(c)
          BY <2>7, <3>2, <4>2 DEF StatementFails, CutOff, Departs, At
        <5>2. Goto(c, "readd")
          BY <5>1 DEF StatementFails, At
        <5> QED BY <1>0, <5>1, <5>2 DEF Goto, Departs, CallRecords
      <4> QED BY <4>1, <4>2
    <3> QED BY <1>3, <1>4, <1>10, <3>1, <3>2
  <2>8. CASE Demote(c)
    <3>1. call[c].pc = "demote" /\ UNCHANGED <<shares, leaked>>
      BY <2>8 DEF Demote, At, historyVars
    <3>2. role' = role \/ role' = [role EXCEPT ![call[c].actor] = "admin"]
      BY <2>8 DEF Demote
    <3>3. "admin" \in Roles /\ call[c].actor \in Users
      BY <1>6, <3>1 DEF Roles, Granted, GoodCall
    <3>4. \A u \in Users : role[u] # "none" => role'[u] # "none"
      BY <1>7, <3>2, <3>3
    <3> QED BY <1>3, <1>8, <1>10, <3>1, <3>4
  <2>9. CASE Promote(c) \/ Restore(c)
    <3>1. call[c].pc \notin {"purge", "readd"} /\ UNCHANGED <<shares, leaked>>
      BY <2>9 DEF Promote, Restore, At
    <3>2. role' = role \/ \E u \in Members : role' = [role EXCEPT ![u] = "owner"]
      BY <2>9 DEF Promote, Restore, MakeOwner
    <3>3. \A u \in Users : role[u] # "none" => role'[u] # "none"
      BY <1>7, <3>2 DEF Members, Roles
    <3> QED BY <1>3, <1>8, <1>10, <3>1, <3>3
  <2>10. CASE CountMembers(c) \/ CountPending(c) \/ InsertInvitation(c) \/ MarkInvitation(c)
    BY <2>1, <2>10 DEF CountMembers, CountPending, InsertInvitation, MarkInvitation, At, historyVars
  <2>11. CASE ListForRole(c) \/ ListForRemoval(c) \/ ProvisionSolo(c)
    BY <2>1, <2>11 DEF ListForRole, ListForRemoval, ProvisionSolo, At, historyVars
  <2>12. CASE \/ \E a \in Users :
                \/ \E u \in Users, r \in Granted : BeginAdd(c, a, u, r)
                \/ \E u \in Users, r \in Granted, i \in Invites : BeginInvite(c, a, i, u, r)
                \/ \E u \in Users, r \in Roles \cup {"none"}, op \in {"role", "remove", "revoke", "solo"} :
                     BeginChange(c, op, a, u, r)
                \/ BeginLeave(c, a) \/ BeginShare(c, a)
           \/ \E i \in Invites, op \in {"accept", "decline"} : BeginDecision(c, op, i)
    <3>1. At(c, "idle") /\ UNCHANGED <<role, shares, historyVars>>
      BY <2>12 DEF BeginAdd, BeginInvite, BeginChange, BeginLeave, BeginShare, BeginDecision
    <3> QED BY <2>1, <3>1 DEF At, historyVars
  <2> QED BY <1>10, <2>2, <2>3, <2>4, <2>5, <2>6, <2>7, <2>8, <2>9, <2>10, <2>11, <2>12 DEF CallSteps
<1>11. ASSUME \/ \E a \in Users : Unshare(a) \/ LeaveElsewhere(a)
              \/ \E i \in Invites : (\E a \in Users : RevokeInvitation(a, i)) \/ ExpireInvitation(i)
              \/ UNCHANGED memberVars
       PROVE  <1>2!1
  <2>1. UNCHANGED <<role, leaked, call>> /\ shares' \subseteq shares
    BY <1>11 DEF Unshare, LeaveElsewhere, RevokeInvitation, ExpireInvitation, memberVars, historyVars
  <2> QED BY <1>3, <2>1 DEF Departs
<1> QED BY <1>10, <1>11, MembershipSteps

\* Who left shares nothing with the workspace, whichever of remove_member,
\* leave_workspace, revoke_member and the conversion to solo took the membership
\* and whatever fails between it and purge_member_connections.  It is inductive
\* as it stands.
THEOREM DepartedLeaveNothing == MembershipSpec => []DepartedShareNothing
<1>1. MembershipInit => DepartedShareNothing
  BY DEF MembershipInit, DepartedShareNothing
<1>2. MemberTypes /\ DepartedShareNothing /\ [MembershipNext]_memberVars => DepartedShareNothing'
  BY SharesStep
<1> QED BY <1>1, <1>2, MembershipTyped, PTL DEF MembershipSpec

-----------------------------------------------------------------------------
(* Membership: the seats.  A member who is leaving keeps a seat until nobody  *)
(* can put it back, an invitation takes one, and between the count and the    *)
(* insert of one call nobody else counts.                                     *)

Leaving(d) == call[d].pc \in {"delete", "purge", "provision", "readd"}
Returning == {u \in Users : \E d \in Calls : Leaving(d) /\ call[d].was[u] # "none"}
Kept == Members \cup Returning
Invited == {u \in Users : \E i \in Invites : ActiveInvitation(i) /\ invite[i].user = u}

Taking(d) == call[d].pc \in {"pending", "add", "insert"}
NeedsSeat(d) == call[d].pc = "insert" \/ (call[d].pc = "add" /\ call[d].op = "add")
Accepts(d) == call[d].op = "accept" /\ call[d].pc # "mark"

OneCounts == \A c, d \in Calls : Taking(c) /\ Taking(d) => c = d
SeatsFit == Cardinality(Kept \cup Invited) <= MemberLimit
CountsHold == \A c \in Calls : call[c].pc = "pending" => Cardinality(Kept) <= call[c].seats
TakersFit ==
    \A c \in Calls : NeedsSeat(c) => Cardinality(Kept \cup Invited \cup {call[c].target}) <= MemberLimit
AcceptsHold ==
    \A c \in Calls : Accepts(c) => /\ ActiveInvitation(call[c].invite)
                                   /\ invite[call[c].invite].user = call[c].target

SeatsInv == crowded \/ (OneCounts /\ SeatsFit /\ CountsHold /\ TakersFit /\ AcceptsHold)

\* The invitation that a call is going to send is not out, and it is that call's.
SendInv ==
    \A c \in Calls : call[c].op = "invite" =>
        /\ invite[call[c].invite].status = "unsent"
        /\ \A d \in Calls : d # c => call[d].invite # call[c].invite

\* A step leaves the invitation of a call as it is or gives the call up.
LEMMA SendStep == MemberTypes /\ SendInv /\ [MembershipNext]_memberVars => SendInv'
<1> SUFFICES ASSUME MemberTypes, SendInv, [MembershipNext]_memberVars
             PROVE  SendInv'
  OBVIOUS
<1>0. call \in [Calls -> CallRecords] /\ invite \in [Invites -> InviteRecords]
  BY DEF MemberTypes, MembershipTypeOK, InviteRecords
<1>1. \A c \in Calls : GoodCall(call[c]) /\ call[c] \in CallRecords
  BY <1>0 DEF MemberTypes, CallInv
<1>2. \A c \in Calls : call[c].op = "invite" => call[c].invite \in Invites
  BY <1>1 DEF GoodCall
<1>3. NoCall.op = "none" /\ NoCall.invite = NoInvite /\ NoInvite \notin Invites
  BY MembershipAssumption DEF NoCall
\* No call gets an invitation, and those to be sent stay as they are.
<1>4. ASSUME \A d \in Calls : \/ call'[d] = NoCall
                              \/ call'[d].op = call[d].op /\ call'[d].invite = call[d].invite
                              \/ call'[d].op # "invite" /\ call'[d].invite = NoInvite,
             \A d \in Calls : call'[d].op = "invite" /\ call[d].op = "invite"
               => invite'[call[d].invite].status = "unsent"
      PROVE  SendInv'
  BY <1>2, <1>3, <1>4 DEF SendInv
\* The same call, or none, and the invitations as they were.
<1>5. ASSUME UNCHANGED invite, NEW c \in Calls, CallSteps(c),
             \/ call'[c] = NoCall
             \/ call'[c].op = call[c].op /\ call'[c].invite = call[c].invite
             \/ call'[c].op # "invite" /\ call'[c].invite = NoInvite
      PROVE  SendInv'
  <2>1. \A d \in Calls : d # c => call'[d] = call[d]
    BY <1>5, OneCallMoves
  <2> QED BY <1>4, <1>5, <2>1 DEF SendInv
<1>6. ASSUME NEW c \in Calls, Return(c)
      PROVE  call'[c] = NoCall
  BY <1>0, <1>6 DEF Return
<1>7. ASSUME NEW c \in Calls, NEW pc, Goto(c, pc)
      PROVE  call'[c].op = call[c].op /\ call'[c].invite = call[c].invite
  BY <1>0, <1>7 DEF Goto, CallRecords
<1>10. ASSUME NEW c \in Calls, CallSteps(c)
       PROVE  SendInv'
  <2>1. ASSUME NEW a \in Users, NEW u \in Users, NEW r \in Granted, NEW i \in Invites,
               BeginInvite(c, a, i, u, r)
        PROVE  SendInv'
    <3>1. \A d \in Calls : d # c => call'[d] = call[d]
      BY <1>10, OneCallMoves
    <3>2. call'[c].invite = i /\ UNCHANGED invite
      BY <1>0, <2>1 DEF BeginInvite, NoCall
    <3>3. invite[i].status = "unsent" /\ \A d \in Calls : call[d].invite # i
      BY <2>1 DEF BeginInvite
    <3> QED BY <3>1, <3>2, <3>3 DEF SendInv
  <2>2. ASSUME NEW i \in Invites, NEW op \in {"accept", "decline"}, BeginDecision(c, op, i)
        PROVE  SendInv'
    <3>1. \A d \in Calls : d # c => call'[d] = call[d]
      BY <1>10, OneCallMoves
    <3>2. call'[c].invite = i /\ call'[c].op = op /\ UNCHANGED invite
      BY <1>0, <2>2 DEF BeginDecision, NoCall
    <3>3. invite[i].status # "unsent"
      BY <2>2 DEF BeginDecision, ActiveInvitation
    <3> QED BY <3>1, <3>2, <3>3 DEF SendInv
  <2>3. CASE InsertInvitation(c)
    <3>1. call[c].op = "invite" /\ call'[c] = NoCall
      BY <1>1, <1>6, <2>3 DEF InsertInvitation, At, GoodCall
    <3>2. \A i \in Invites : i # call[c].invite => invite'[i] = invite[i]
      BY <1>0, <2>3 DEF InsertInvitation
    <3>3. \A d \in Calls : d # c => call'[d] = call[d] /\ call[d].invite # call[c].invite
      BY <1>10, <3>1, OneCallMoves DEF SendInv
    <3>4. \A d \in Calls : call'[d].op = "invite" /\ call[d].op = "invite"
            => invite'[call[d].invite].status = "unsent"
      BY <1>2, <1>3, <3>1, <3>2, <3>3 DEF SendInv
    <3> QED BY <1>4, <3>1, <3>3, <3>4
  <2>4. CASE MarkInvitation(c)
    <3>1. call'[c] = NoCall
      BY <1>6, <2>4 DEF MarkInvitation
    <3>2. \A i \in Invites : invite[i].status = "unsent" => invite'[i] = invite[i]
      BY <1>0, <2>4 DEF MarkInvitation
    <3>3. \A d \in Calls : d # c => call'[d] = call[d]
      BY <1>10, OneCallMoves
    <3>4. \A d \in Calls : call'[d].op = "invite" /\ call[d].op = "invite"
            => invite'[call[d].invite].status = "unsent"
      BY <1>2, <3>2 DEF SendInv
    <3> QED BY <1>4, <3>1, <3>3, <3>4
  <2>5. ASSUME NEW a \in Users,
               \/ \E u \in Users, r \in Granted : BeginAdd(c, a, u, r)
               \/ \E u \in Users, r \in Roles \cup {"none"}, op \in {"role", "remove", "revoke", "solo"} :
                    BeginChange(c, op, a, u, r)
               \/ BeginLeave(c, a) \/ BeginShare(c, a)
        PROVE  SendInv'
    <3>1. call'[c].op # "invite" /\ call'[c].invite = NoInvite /\ UNCHANGED invite
      <4>1. CASE \E u \in Users, r \in Granted : BeginAdd(c, a, u, r)
        BY <1>0, <4>1 DEF BeginAdd, NoCall
      <4>2. CASE \E u \in Users, r \in Roles \cup {"none"}, op \in {"role", "remove", "revoke", "solo"} :
                   BeginChange(c, op, a, u, r)
        BY <1>0, <4>2 DEF BeginChange, NoCall
      <4>3. CASE BeginLeave(c, a)
        BY <1>0, <4>3 DEF BeginLeave, NoCall
      <4>4. CASE BeginShare(c, a)
        BY <1>0, <4>4 DEF BeginShare, NoCall
      <4> QED BY <2>5, <4>1, <4>2, <4>3, <4>4
    <3> QED BY <1>5, <1>10, <3>1
  <2>6. CASE CountMembers(c) \/ (\E u \in Users : DeleteMember(c, u)) \/ PurgeConnections(c) \/ ListForRemoval(c)
    <3>1. UNCHANGED invite
      BY <2>6 DEF CountMembers, DeleteMember, PurgeConnections, ListForRemoval
    <3>2. call'[c] = NoCall \/ (call'[c].op = call[c].op /\ call'[c].invite = call[c].invite)
      <4>1. CASE CountMembers(c)
        BY <1>0, <4>1 DEF CountMembers, CallRecords
      <4>2. CASE \E u \in Users : DeleteMember(c, u)
        BY <1>0, <1>6, <4>2 DEF DeleteMember, CallRecords
      <4>3. CASE PurgeConnections(c)
        BY <1>0, <1>6, <1>7, <4>3 DEF PurgeConnections, AfterPurge, CallRecords
      <4>4. CASE ListForRemoval(c)
        <5>1. ASSUME NEW w, NEW b,
                     call' = [call EXCEPT ![c].pc = "delete", ![c].was = w, ![c].only = b]
              PROVE  call'[c].op = call[c].op /\ call'[c].invite = call[c].invite
          BY <1>0, <5>1 DEF CallRecords
        <5> QED BY <1>6, <4>4, <5>1 DEF ListForRemoval
      <4> QED BY <2>6, <4>1, <4>2, <4>3, <4>4
    <3> QED BY <1>5, <1>10, <3>1, <3>2
  <2>7. CASE \/ CountPending(c) \/ AddMember(c) \/ ListForRole(c) \/ SetMemberRole(c) \/ Demote(c)
             \/ Promote(c) \/ Restore(c) \/ ProvisionSolo(c) \/ ReAdd(c) \/ InsertShare(c)
             \/ StatementFails(c) \/ CutOff(c)
    <3>1. UNCHANGED invite
      BY <2>7 DEF CountPending, AddMember, ListForRole, SetMemberRole, Demote, Promote, Restore,
                  ProvisionSolo, ReAdd, InsertShare, StatementFails, CutOff
    <3>2. Return(c) \/ \E pc \in Pcs : Goto(c, pc)
      BY <2>7 DEF CountPending, AddMember, ListForRole, SetMemberRole, Demote, Promote, Restore,
                  MakeOwner, ProvisionSolo, ReAdd, InsertShare, StatementFails, CutOff, Pcs
    <3> QED BY <1>5, <1>6, <1>7, <1>10, <3>1, <3>2
  <2> QED BY <1>10, <2>1, <2>2, <2>3, <2>4, <2>5, <2>6, <2>7 DEF CallSteps
<1>11. ASSUME NEW i \in Invites, (\E a \in Users : RevokeInvitation(a, i)) \/ ExpireInvitation(i)
       PROVE  SendInv'
  <2>1. UNCHANGED call /\ \A j \in Invites : invite[j].status = "unsent" => invite'[j] = invite[j]
    BY <1>0, <1>11 DEF RevokeInvitation, ExpireInvitation, ActiveInvitation
  <2> QED BY <1>2, <1>4, <2>1 DEF SendInv
<1>12. ASSUME (\E a \in Users : Unshare(a) \/ LeaveElsewhere(a)) \/ UNCHANGED memberVars
       PROVE  SendInv'
  <2>1. UNCHANGED <<call, invite>>
    BY <1>12 DEF Unshare, LeaveElsewhere, memberVars
  <2> QED BY <2>1 DEF SendInv
<1> QED BY <1>10, <1>11, <1>12, MembershipSteps

\* Sets of users and their sizes.
LEMMA SeatCounts ==
    /\ \A S, T \in SUBSET Users : S \subseteq T => Cardinality(S) <= Cardinality(T)
    /\ \A S \in SUBSET Users : Cardinality(S) \in Nat
    /\ \A S, T \in SUBSET Users, u \in Users :
         Cardinality(S \cup T \cup {u}) <= Cardinality(S) + Cardinality(T) + 1
<1>1. \A S \in SUBSET Users : IsFiniteSet(S) /\ Cardinality(S) \in Nat
  BY MembersFinite, FS_Subset, FS_CardinalityType
<1>2. \A S, T \in SUBSET Users : S \subseteq T => Cardinality(S) <= Cardinality(T)
  BY <1>1, FS_Subset
<1>3. ASSUME NEW S \in SUBSET Users, NEW T \in SUBSET Users, NEW u \in Users
      PROVE  Cardinality(S \cup T \cup {u}) <= Cardinality(S) + Cardinality(T) + 1
  <2> DEFINE U == S \cup T
             V == U \cup {u}
  <2>1. IsFiniteSet(S) /\ IsFiniteSet(T) /\ IsFiniteSet(U) /\ IsFiniteSet(V)
        /\ Cardinality(S) \in Nat /\ Cardinality(T) \in Nat /\ Cardinality(U) \in Nat
        /\ Cardinality(V) \in Nat /\ Cardinality(S \cap T) \in Nat
    BY <1>1
  <2>2. Cardinality(U) = Cardinality(S) + Cardinality(T) - Cardinality(S \cap T)
    BY <2>1, FS_Union
  <2>3. Cardinality(V) <= Cardinality(U) + 1
    <3>1. Cardinality(V) = IF u \in U THEN Cardinality(U) ELSE Cardinality(U) + 1
      BY <2>1, FS_AddElement
    <3> HIDE DEF U, V
    <3> QED BY <2>1, <3>1
  <2>4. Cardinality(S \cup T \cup {u}) = Cardinality(V)
    OBVIOUS
  <2>5. Cardinality(V) <= Cardinality(S) + Cardinality(T) + 1
    <3> DEFINE W == S \cap T
    <3> HIDE DEF U, V, W
    <3>1. Cardinality(W) \in Nat /\ Cardinality(U) = Cardinality(S) + Cardinality(T) - Cardinality(W)
      BY <2>1, <2>2 DEF W
    <3> QED BY <2>1, <2>3, <3>1
  <2> QED BY <2>4, <2>5
<1> QED BY <1>1, <1>2, <1>3

\* The invitations that are out invite at most as many users.
LEMMA InvitedArePending ==
    ASSUME MemberTypes
    PROVE  Cardinality(Pending) \in Nat /\ Cardinality(Invited) <= Cardinality(Pending)
<1>1. IsFiniteSet(Pending) /\ Cardinality(Pending) \in Nat
  BY MembersFinite, FS_Subset, FS_CardinalityType DEF Pending
<1> DEFINE f == [i \in Pending |-> invite[i].user]
<1>2. \A i \in Pending : invite[i].user \in Users /\ i \in Invites /\ ActiveInvitation(i)
  BY DEF Pending, ActiveInvitation, MemberTypes, AddressInv
<1>3. f \in [Pending -> Invited]
  BY <1>2 DEF Invited
<1>4. \A u \in Invited : \E i \in Pending : f[i] = u
  BY DEF Invited, Pending
<1>5. f \in Surjection(Pending, Invited)
  BY <1>3, <1>4 DEF Surjection
<1> QED BY <1>1, <1>5, FS_Surjection

LEMMA SeatsStep ==
    MemberTypes /\ MemberTypes' /\ SendInv /\ SeatsInv /\ [MembershipNext]_memberVars => SeatsInv'
<1> SUFFICES ASSUME MemberTypes, MemberTypes', SendInv, SeatsInv, [MembershipNext]_memberVars, ~crowded'
             PROVE  (OneCounts /\ SeatsFit /\ CountsHold /\ TakersFit /\ AcceptsHold)'
  BY DEF SeatsInv
<1>0. /\ role \in [Users -> Roles \cup {"none"}] /\ invite \in [Invites -> InviteRecords]
      /\ call \in [Calls -> CallRecords] /\ call' \in [Calls -> CallRecords] /\ MemberLimit \in Nat
  BY MembershipAssumption DEF MemberTypes, MembershipTypeOK, InviteRecords
<1>1. \A c \in Calls : GoodCall(call[c]) /\ call[c] \in CallRecords
  BY <1>0 DEF MemberTypes, CallInv
<1>2. "none" \notin Granted /\ "none" \notin Roles /\ Granted \subseteq Roles /\ NoCall.pc = "idle"
      /\ NoCall.op = "none" /\ NoCall.was = [u \in Users |-> "none"]
  BY DEF Roles, Granted, NoCall
<1>3. Kept \subseteq Users /\ Invited \subseteq Users /\ Kept' \subseteq Users /\ Invited' \subseteq Users
      /\ Members \subseteq Users
  BY DEF Kept, Members, Returning, Invited
<1>4. ~crowded
  <2>1. CASE \E c \in Calls : CountMembers(c) \/ MarkInvitation(c)
    BY <2>1 DEF CountMembers, MarkInvitation
  <2>2. CASE \E i \in Invites : (\E a \in Users : RevokeInvitation(a, i)) \/ ExpireInvitation(i)
    BY <2>2 DEF RevokeInvitation, ExpireInvitation
  <2>3. CASE UNCHANGED crowded
    BY <2>3
  <2>4. ASSUME NEW c \in Calls, CallSteps(c)
        PROVE  CountMembers(c) \/ MarkInvitation(c) \/ UNCHANGED crowded
    BY <2>4 DEF CallSteps, BeginAdd, BeginInvite, BeginChange, BeginLeave, BeginShare, BeginDecision,
         CountPending, AddMember, InsertInvitation, ListForRole, SetMemberRole, Demote, Promote, Restore,
         ListForRemoval, PurgeConnections, ProvisionSolo, ReAdd, InsertShare, StatementFails, CutOff,
         DeleteMember, historyVars
  <2>5. ASSUME NEW a \in Users, Unshare(a) \/ LeaveElsewhere(a)
        PROVE  UNCHANGED crowded
    BY <2>5 DEF Unshare, LeaveElsewhere, historyVars
  <2> QED BY <2>1, <2>2, <2>3, <2>4, <2>5, MembershipSteps DEF memberVars
<1>5. OneCounts /\ SeatsFit /\ CountsHold /\ TakersFit /\ AcceptsHold
  BY <1>4 DEF SeatsInv
<1>6. \A u \in Users, r \in Roles \cup {"none"} : role' = [role EXCEPT ![u] = r]
        => role'[u] = r /\ \A v \in Users : v # u => role'[v] = role[v]
  BY <1>0
\* No seat is taken, by a member or by an invitation, and no call gets nearer to one.
<1>7. ASSUME Kept' \subseteq Kept, Invited' \subseteq Invited,
             \A d \in Calls : Taking(d)' => call'[d] = call[d],
             \A d \in Calls : Accepts(d)' => /\ invite'[call'[d].invite].status = "pending"
                                             /\ ~invite'[call'[d].invite].expired
                                             /\ invite'[call'[d].invite].user = call'[d].target
      PROVE  (OneCounts /\ SeatsFit /\ CountsHold /\ TakersFit /\ AcceptsHold)'
  <2>1. OneCounts'
    BY <1>5, <1>7 DEF OneCounts, Taking
  <2>2. \A S, T \in SUBSET Users, n \in Nat : S \subseteq T /\ Cardinality(T) <= n => Cardinality(S) <= n
    BY SeatCounts
  <2>3. SeatsFit'
    BY <1>0, <1>3, <1>5, <1>7, <2>2 DEF SeatsFit
  <2>4. CountsHold'
    <3> SUFFICES ASSUME NEW c \in Calls, call'[c].pc = "pending"
                 PROVE  Cardinality(Kept') <= call'[c].seats
      BY DEF CountsHold
    <3>1. call'[c] = call[c]
      BY <1>7 DEF Taking
    <3>2. Cardinality(Kept) <= call[c].seats /\ call[c].seats \in Nat
      BY <1>1, <1>5, <3>1 DEF CountsHold, CallRecords
    <3> QED BY <1>3, <1>7, <2>2, <3>1, <3>2
  <2>5. TakersFit'
    <3> SUFFICES ASSUME NEW c \in Calls, NeedsSeat(c)'
                 PROVE  Cardinality(Kept' \cup Invited' \cup {call'[c].target}) <= MemberLimit
      BY DEF TakersFit
    <3>1. call'[c] = call[c] /\ NeedsSeat(c)
      BY <1>7 DEF Taking, NeedsSeat
    <3>2. call[c].target \in Users
      BY <1>1, <3>1 DEF GoodCall, NeedsSeat
    <3>3. Cardinality(Kept \cup Invited \cup {call[c].target}) <= MemberLimit
      BY <1>5, <3>1 DEF TakersFit
    <3> QED BY <1>0, <1>3, <1>7, <2>2, <3>1, <3>2, <3>3
  <2>6. AcceptsHold'
    BY <1>7 DEF AcceptsHold, ActiveInvitation
  <2> QED BY <2>1, <2>3, <2>4, <2>5, <2>6
<1>8. \A d \in Calls : Accepts(d) => /\ ActiveInvitation(call[d].invite)
                                     /\ invite[call[d].invite].user = call[d].target
  BY <1>5 DEF AcceptsHold
\* The members and those who may come back, after a step of one call.
<1>9. ASSUME NEW c \in Calls, CallSteps(c),
             \A u \in Users : role'[u] # "none" => u \in Kept,
             \A u \in Users : Leaving(c)' /\ call'[c].was[u] # "none" => u \in Kept
      PROVE  Kept' \subseteq Kept
  <2>1. \A d \in Calls : d # c => call'[d] = call[d]
    BY <1>9, OneCallMoves
  <2>2. \A u \in Users : (\E d \in Calls : Leaving(d)' /\ call'[d].was[u] # "none") => u \in Kept
    BY <1>9, <2>1 DEF Kept, Returning, Leaving
  <2> QED BY <1>9, <2>2 DEF Kept, Returning, Members
\* A step of one call that takes no seat and touches no invitation.
<1>10. ASSUME NEW c \in Calls, CallSteps(c), UNCHANGED invite,
              \A u \in Users : role'[u] # "none" => u \in Kept,
              \A u \in Users : Leaving(c)' /\ call'[c].was[u] # "none" => u \in Kept,
              ~Taking(c)', ~Accepts(c)'
       PROVE  (OneCounts /\ SeatsFit /\ CountsHold /\ TakersFit /\ AcceptsHold)'
  <2>1. Kept' \subseteq Kept
    BY <1>9, <1>10
  <2>2. Invited' \subseteq Invited
    BY <1>10 DEF Invited, ActiveInvitation
  <2>3. \A d \in Calls : d # c => call'[d] = call[d]
    BY <1>10, OneCallMoves
  <2>4. \A d \in Calls : Taking(d)' => call'[d] = call[d]
    BY <1>10, <2>3
  <2>5. \A d \in Calls : Accepts(d)' => /\ invite'[call'[d].invite].status = "pending"
                                        /\ ~invite'[call'[d].invite].expired
                                        /\ invite'[call'[d].invite].user = call'[d].target
    BY <1>8, <1>10, <2>3 DEF Accepts, ActiveInvitation
  <2> QED BY <1>7, <2>1, <2>2, <2>4, <2>5
<1>11. ASSUME NEW c \in Calls, Return(c)
       PROVE  call'[c] = NoCall /\ ~Taking(c)' /\ ~Accepts(c)' /\ ~Leaving(c)'
  BY <1>0, <1>2, <1>11 DEF Return, Taking, Accepts, Leaving
<1>12. ASSUME NEW c \in Calls, NEW pc \in Pcs, Goto(c, pc)
       PROVE  /\ call'[c].pc = pc /\ call'[c].op = call[c].op /\ call'[c].was = call[c].was
              /\ call'[c].target = call[c].target /\ call'[c].invite = call[c].invite
  BY <1>0, <1>12 DEF Goto, CallRecords
<1>13. \A u \in Users : role[u] # "none" => u \in Kept
  BY DEF Kept, Members
<1>14. \A c \in Calls, u \in Users : Leaving(c) /\ call[c].was[u] # "none" => u \in Kept
  BY DEF Kept, Returning
\* A step after which nobody is about to take a seat.
<1>15. ASSUME NEW X \in SUBSET Users, Cardinality(X) <= MemberLimit, Kept' \cup Invited' \subseteq X,
              \A d \in Calls : ~Taking(d)',
              \A d \in Calls : Accepts(d)' => /\ invite'[call'[d].invite].status = "pending"
                                              /\ ~invite'[call'[d].invite].expired
                                              /\ invite'[call'[d].invite].user = call'[d].target
       PROVE  (OneCounts /\ SeatsFit /\ CountsHold /\ TakersFit /\ AcceptsHold)'
  <2>1. OneCounts' /\ CountsHold' /\ TakersFit'
    BY <1>15 DEF OneCounts, CountsHold, TakersFit, NeedsSeat, Taking
  <2>2. Cardinality(Kept' \cup Invited') <= Cardinality(X)
    BY <1>15, SeatCounts
  <2>3. SeatsFit'
    BY <1>0, <1>3, <1>15, <2>2, SeatCounts DEF SeatsFit
  <2>4. AcceptsHold'
    BY <1>15 DEF AcceptsHold, ActiveInvitation
  <2> QED BY <2>1, <2>3, <2>4
<1>20. ASSUME NEW c \in Calls, CallSteps(c)
       PROVE  (OneCounts /\ SeatsFit /\ CountsHold /\ TakersFit /\ AcceptsHold)'
  <2>0. \A d \in Calls : d # c => call'[d] = call[d]
    BY <1>20, OneCallMoves
  \* The calls that begin.
  <2>1. ASSUME NEW a \in Users, NEW u \in Users,
               \/ \E r \in Granted : BeginAdd(c, a, u, r)
               \/ \E r \in Granted, i \in Invites : BeginInvite(c, a, i, u, r)
               \/ \E r \in Roles \cup {"none"}, op \in {"role", "remove", "revoke", "solo"} :
                    BeginChange(c, op, a, u, r)
               \/ BeginShare(c, a)
        PROVE  (OneCounts /\ SeatsFit /\ CountsHold /\ TakersFit /\ AcceptsHold)'
    <3>1. UNCHANGED <<invite, role>>
      BY <2>1 DEF BeginAdd, BeginInvite, BeginChange, BeginShare
    <3>2. /\ call'[c].pc \in {"members", "list", "share"}
          /\ call'[c].op \in {"add", "invite", "role", "remove", "revoke", "solo", "share"}
      <4>1. CASE \E r \in Granted : BeginAdd(c, a, u, r)
        BY <1>0, <4>1 DEF BeginAdd, NoCall
      <4>2. CASE \E r \in Granted, i \in Invites : BeginInvite(c, a, i, u, r)
        BY <1>0, <4>2 DEF BeginInvite, NoCall
      <4>3. CASE \E r \in Roles \cup {"none"}, op \in {"role", "remove", "revoke", "solo"} :
                   BeginChange(c, op, a, u, r)
        BY <1>0, <4>3 DEF BeginChange, NoCall
      <4>4. CASE BeginShare(c, a)
        BY <1>0, <4>4 DEF BeginShare, NoCall
      <4> QED BY <2>1, <4>1, <4>2, <4>3, <4>4
    <3> QED BY <1>10, <1>13, <1>20, <3>1, <3>2 DEF Taking, Accepts, Leaving
  <2>2. ASSUME NEW a \in Users, BeginLeave(c, a)
        PROVE  (OneCounts /\ SeatsFit /\ CountsHold /\ TakersFit /\ AcceptsHold)'
    <3>1. UNCHANGED <<invite, role>>
      BY <2>2 DEF BeginLeave
    <3>2. call'[c].pc = "delete" /\ call'[c].op = "leave" /\ call'[c].was = [NoCall.was EXCEPT ![a] = role[a]]
      BY <1>0, <2>2 DEF BeginLeave, NoCall
    <3>3. \A u \in Users : call'[c].was[u] # "none" => u \in Kept
      BY <1>2, <1>13, <3>2
    <3> QED BY <1>10, <1>13, <1>20, <3>1, <3>2, <3>3 DEF Taking, Accepts
  <2>3. ASSUME NEW i \in Invites, NEW op \in {"accept", "decline"}, BeginDecision(c, op, i)
        PROVE  (OneCounts /\ SeatsFit /\ CountsHold /\ TakersFit /\ AcceptsHold)'
    <3>1. UNCHANGED <<invite, role>>
      BY <2>3 DEF BeginDecision
    <3>2. /\ call'[c].pc \in {"members", "mark"} /\ call'[c].invite = i
          /\ call'[c].target = invite[i].user
      BY <1>0, <2>3 DEF BeginDecision, NoCall
    <3>3. invite[i].status = "pending" /\ ~invite[i].expired
      BY <2>3 DEF BeginDecision, ActiveInvitation
    <3>4. Kept' \subseteq Kept
      BY <1>9, <1>13, <1>20, <3>1, <3>2 DEF Leaving
    <3>5. Invited' \subseteq Invited
      BY <3>1 DEF Invited, ActiveInvitation
    <3>6. \A d \in Calls : Taking(d)' => call'[d] = call[d]
      BY <2>0, <3>2 DEF Taking
    <3>7. \A d \in Calls : Accepts(d)' => /\ invite'[call'[d].invite].status = "pending"
                                          /\ ~invite'[call'[d].invite].expired
                                          /\ invite'[call'[d].invite].user = call'[d].target
      BY <1>8, <2>0, <3>1, <3>2, <3>3 DEF Accepts, ActiveInvitation
    <3> QED BY <1>7, <3>4, <3>5, <3>6, <3>7
  \* The count: nobody else holds a seat that it does not see.
  <2>4. CASE CountMembers(c)
    <3>1. \A d \in Calls : d # c => ~HoldsSeat(d)
      BY <2>4 DEF CountMembers
    <3>2. UNCHANGED <<invite, role>> /\ call[c].pc = "members"
      BY <2>4 DEF CountMembers, At
    <3>3. /\ call'[c].pc = "pending" /\ call'[c].op = call[c].op /\ call'[c].was = call[c].was
          /\ call'[c].target = call[c].target /\ call'[c].invite = call[c].invite
          /\ call'[c].seats = Cardinality(Members)
      BY <1>0, <2>4 DEF CountMembers, CallRecords
    <3>4. \A d \in Calls : ~Leaving(d)'
      BY <2>0, <3>1, <3>3 DEF HoldsSeat, Leaving
    <3>5. Kept' = Members
      BY <3>2, <3>4 DEF Kept, Returning, Members
    <3>6. Kept' \subseteq Kept /\ Invited' \subseteq Invited
      BY <3>2, <3>5 DEF Kept, Invited, ActiveInvitation
    <3>7. \A d \in Calls : d # c => ~Taking(d)'
      BY <2>0, <3>1 DEF Taking, HoldsSeat
    <3>8. OneCounts' /\ TakersFit' /\ CountsHold'
      <4>1. Cardinality(Members) \in Nat
        BY <1>3, SeatCounts
      <4>2. \A d \in Calls : call'[d].pc = "pending" => d = c
        BY <3>7 DEF Taking
      <4>3. CountsHold'
        BY <3>3, <3>5, <4>1, <4>2 DEF CountsHold
      <4> QED BY <3>3, <3>7, <4>3 DEF OneCounts, TakersFit, NeedsSeat, Taking
    <3>9. SeatsFit'
      <4>1. Kept' \cup Invited' \subseteq Kept \cup Invited
        BY <3>6
      <4>2. Cardinality(Kept' \cup Invited') <= Cardinality(Kept \cup Invited)
        BY <1>3, <4>1, SeatCounts
      <4> QED BY <1>0, <1>3, <1>5, <4>2, SeatCounts DEF SeatsFit
    <3>10. AcceptsHold'
      BY <1>8, <2>0, <3>2, <3>3 DEF AcceptsHold, Accepts, ActiveInvitation
    <3> QED BY <3>8, <3>9, <3>10
  \* The count of the invitations: with one more the workspace is still within its limit.
  <2>5. CASE CountPending(c)
    <3>1. UNCHANGED <<invite, role>> /\ call[c].pc = "pending"
      BY <2>5 DEF CountPending, At
    <3>2. CASE Return(c)
      BY <1>10, <1>11, <1>13, <1>20, <3>1, <3>2
    <3>3. CASE ~Return(c)
      <4> DEFINE need == IF call[c].op = "accept" THEN 0 ELSE 1
      <4>1. /\ call[c].seats + Cardinality(Pending) + need <= MemberLimit
            /\ Goto(c, IF call[c].op = "invite" THEN "insert" ELSE "add")
        <5>1. ~(call[c].seats + Cardinality(Pending) + need > MemberLimit)
          BY <2>5, <3>3 DEF CountPending
        <5>2. Goto(c, IF call[c].op = "invite" THEN "insert" ELSE "add")
          BY <2>5, <5>1 DEF CountPending
        <5>3. call[c].seats \in Nat /\ Cardinality(Pending) \in Nat /\ need \in Nat
          BY <1>1, InvitedArePending, SeatCounts DEF CallRecords
        <5> HIDE DEF need
        <5> QED BY <1>0, <5>1, <5>2, <5>3
      <4>2. /\ call'[c].pc = (IF call[c].op = "invite" THEN "insert" ELSE "add")
            /\ call'[c].op = call[c].op /\ call'[c].was = call[c].was
            /\ call'[c].target = call[c].target /\ call'[c].invite = call[c].invite
        BY <1>12, <4>1 DEF Pcs
      <4>3. Kept' \subseteq Kept /\ Invited' \subseteq Invited
        BY <1>9, <1>13, <1>20, <3>1, <4>2 DEF Leaving, Invited, ActiveInvitation
      <4>4. \A d \in Calls : d # c => ~Taking(d) /\ ~Taking(d)'
        BY <1>5, <2>0, <3>1 DEF OneCounts, Taking
      <4>5. OneCounts' /\ CountsHold'
        BY <4>2, <4>4 DEF OneCounts, CountsHold, Taking
      <4>6. SeatsFit'
        <5>1. Cardinality(Kept' \cup Invited') <= Cardinality(Kept \cup Invited)
          BY <1>3, <4>3, SeatCounts
        <5> QED BY <1>0, <1>3, <1>5, <5>1, SeatCounts DEF SeatsFit
      <4>7. ASSUME NeedsSeat(c)'
            PROVE  Cardinality(Kept' \cup Invited' \cup {call[c].target}) <= MemberLimit
        <5>1. need = 1 /\ call[c].target \in Users
          BY <1>1, <3>1, <4>2, <4>7 DEF NeedsSeat, GoodCall
        <5>2. Cardinality(Kept) <= call[c].seats /\ call[c].seats \in Nat
          BY <1>1, <1>5, <3>1 DEF CountsHold, CallRecords
        <5>3. Cardinality(Invited) <= Cardinality(Pending) /\ Cardinality(Pending) \in Nat
          BY InvitedArePending
        <5>4. Cardinality(Kept \cup Invited \cup {call[c].target}) <= Cardinality(Kept) + Cardinality(Invited) + 1
          BY <1>3, <5>1, SeatCounts
        <5>5. Cardinality(Kept' \cup Invited' \cup {call[c].target})
                <= Cardinality(Kept \cup Invited \cup {call[c].target})
          BY <1>3, <4>3, <5>1, SeatCounts
        <5>6. /\ Cardinality(Kept) \in Nat /\ Cardinality(Invited) \in Nat
              /\ Cardinality(Kept \cup Invited \cup {call[c].target}) \in Nat
              /\ Cardinality(Kept' \cup Invited' \cup {call[c].target}) \in Nat
          BY <1>3, <5>1, SeatCounts
        <5>7. call[c].seats + Cardinality(Pending) + 1 <= MemberLimit
          BY <4>1, <5>1
        <5> QED BY <1>0, <5>2, <5>3, <5>4, <5>5, <5>6, <5>7
      <4>8. TakersFit'
        <5>1. \A d \in Calls : NeedsSeat(d)' => d = c
          BY <4>4 DEF NeedsSeat, Taking
        <5> QED BY <4>2, <4>7, <5>1 DEF TakersFit
      <4>9. AcceptsHold'
        BY <1>8, <2>0, <3>1, <4>2 DEF AcceptsHold, Accepts, ActiveInvitation
      <4> QED BY <4>5, <4>6, <4>8, <4>9
    <3> QED BY <3>2, <3>3
  \* The member takes the seat that was counted for it, or that of its invitation.
  <2>6. CASE AddMember(c)
    <3> DEFINE t == call[c].target
               r == call[c].role
    <3>1. /\ call[c].pc = "add" /\ t \in Users /\ r \in Granted /\ call[c].op \in {"add", "accept"}
          /\ UNCHANGED invite /\ role' = [role EXCEPT ![t] = r]
      BY <1>1, <2>6 DEF AddMember, At, GoodCall
    <3>2. \A d \in Calls : d # c => ~Taking(d)'
      BY <1>5, <2>0, <3>1 DEF OneCounts, Taking
    <3>3. /\ call'[c].pc \in {"idle", "mark"} /\ ~Leaving(c)'
          /\ call'[c].op = "accept" => call'[c].pc = "mark"
      <4>1. CASE Return(c)
        BY <1>2, <1>11, <4>1 DEF Leaving
      <4>2. CASE Goto(c, "mark")
        BY <1>12, <4>2 DEF Leaving, Pcs
      <4> QED BY <2>6, <4>1, <4>2 DEF AddMember
    <3> DEFINE X == Kept \cup Invited \cup {t}
    <3>4. Cardinality(X) <= MemberLimit /\ X \in SUBSET Users
      <4>1. X \in SUBSET Users
        BY <1>3, <3>1
      <4>2. CASE call[c].op = "add"
        BY <1>5, <3>1, <4>1, <4>2 DEF TakersFit, NeedsSeat
      <4>3. CASE call[c].op = "accept"
        <5>1. ActiveInvitation(call[c].invite) /\ invite[call[c].invite].user = t
          BY <1>8, <3>1, <4>3 DEF Accepts
        <5>2. call[c].invite \in Invites
          BY <1>1, <4>3 DEF GoodCall
        <5>3. X = Kept \cup Invited
          BY <3>1, <5>1, <5>2 DEF Invited
        <5> QED BY <1>5, <4>1, <5>3 DEF SeatsFit
      <4> QED BY <3>1, <4>2, <4>3, <4>1
    <3>5. Kept' \cup Invited' \subseteq X
      <4>1. Invited' = Invited
        BY <3>1 DEF Invited, ActiveInvitation
      <4>2. \A u \in Users : role'[u] # "none" => u = t \/ u \in Kept
        <5> HIDE DEF t, r, X
        <5> QED BY <1>2, <1>6, <1>13, <3>1
      <4>3. \A u \in Users, d \in Calls : Leaving(d)' /\ call'[d].was[u] # "none" => u \in Kept
        BY <1>14, <2>0, <3>3 DEF Leaving
      <4> HIDE DEF t, r
      <4> QED BY <4>1, <4>2, <4>3 DEF Kept, Members, Returning
    <3>6. \A d \in Calls : Accepts(d)' => /\ invite'[call'[d].invite].status = "pending"
                                          /\ ~invite'[call'[d].invite].expired
                                          /\ invite'[call'[d].invite].user = call'[d].target
      BY <1>8, <2>0, <3>1, <3>3 DEF Accepts, ActiveInvitation
    <3> HIDE DEF X
    <3> QED BY <1>15, <3>2, <3>3, <3>4, <3>5, <3>6 DEF Taking
  \* The invitation takes the seat that was counted for it.
  <2>7. CASE InsertInvitation(c)
    <3> DEFINE t == call[c].target
               i == call[c].invite
               X == Kept \cup Invited \cup {t}
    <3>1. /\ call[c].pc = "insert" /\ t \in Users /\ call[c].op = "invite" /\ i \in Invites
          /\ UNCHANGED role /\ Return(c)
      BY <1>1, <2>7 DEF InsertInvitation, At, GoodCall
    <3>2. \A d \in Calls : ~Taking(d)'
      BY <1>5, <1>11, <2>0, <3>1 DEF OneCounts, Taking
    <3>3. invite'[i].user = t /\ \A j \in Invites : j # i => invite'[j] = invite[j]
      BY <1>0, <2>7, <3>1 DEF InsertInvitation
    <3>4. Cardinality(X) <= MemberLimit /\ X \in SUBSET Users
      BY <1>3, <1>5, <3>1 DEF TakersFit, NeedsSeat
    <3>5. Kept' \subseteq Kept
      BY <1>9, <1>11, <1>13, <1>20, <3>1
    <3>6. Invited' \subseteq Invited \cup {t}
      <4> HIDE DEF t, i
      <4> QED BY <3>3 DEF Invited, ActiveInvitation
    <3>7. \A d \in Calls : Accepts(d)' => /\ invite'[call'[d].invite].status = "pending"
                                          /\ ~invite'[call'[d].invite].expired
                                          /\ invite'[call'[d].invite].user = call'[d].target
      <4>1. \A d \in Calls : d # c => call[d].invite # i
        BY <3>1 DEF SendInv
      <4>2. \A d \in Calls : Accepts(d)' => d # c /\ Accepts(d) /\ call[d].invite \in Invites
        BY <1>1, <1>11, <2>0, <3>1 DEF Accepts, GoodCall
      <4> HIDE DEF i
      <4> QED BY <1>8, <2>0, <3>3, <4>1, <4>2 DEF ActiveInvitation
    <3> HIDE DEF X
    <3>8. Kept' \cup Invited' \subseteq X
      BY <3>5, <3>6 DEF X
    <3> QED BY <1>15, <3>2, <3>4, <3>7, <3>8
  <2>8. CASE MarkInvitation(c)
    <3> DEFINE i == call[c].invite
    <3>1. UNCHANGED role /\ Return(c)
      BY <2>8 DEF MarkInvitation
    <3>2. \A d \in Calls : d # c /\ call[d].op = "accept" => call[d].invite # i
      BY <2>8 DEF MarkInvitation
    <3>3. /\ \A j \in Invites : j # i => invite'[j] = invite[j]
          /\ \A j \in Invites : invite'[j] = invite[j] \/ invite'[j].status # "pending"
      BY <1>0, <2>8 DEF MarkInvitation
    <3>4. Kept' \subseteq Kept
      BY <1>9, <1>11, <1>13, <1>20, <3>1
    <3>5. Invited' \subseteq Invited
      BY <3>3 DEF Invited, ActiveInvitation
    <3>6. \A d \in Calls : Taking(d)' => call'[d] = call[d]
      BY <1>11, <2>0, <3>1
    <3>7. \A d \in Calls : Accepts(d)' => /\ invite'[call'[d].invite].status = "pending"
                                          /\ ~invite'[call'[d].invite].expired
                                          /\ invite'[call'[d].invite].user = call'[d].target
      <4>1. \A d \in Calls : Accepts(d)' => d # c /\ Accepts(d) /\ call[d].invite \in Invites
        BY <1>1, <1>11, <2>0, <3>1 DEF Accepts, GoodCall
      <4> HIDE DEF i
      <4> QED BY <1>8, <2>0, <3>2, <3>3, <4>1 DEF ActiveInvitation, Accepts
    <3> QED BY <1>7, <3>4, <3>5, <3>6, <3>7
  \* The roles of members change.
  <2>9. CASE ListForRole(c) \/ SetMemberRole(c) \/ Demote(c) \/ Promote(c) \/ Restore(c)
    <3>1. UNCHANGED invite /\ call[c].pc \in {"list", "setRole", "demote", "promote", "restore"}
      BY <2>9 DEF ListForRole, SetMemberRole, Demote, Promote, Restore, At, historyVars
    <3>2. Return(c) \/ \E pc \in {"setRole", "demote", "promote", "restore"} : Goto(c, pc)
      BY <2>9 DEF ListForRole, SetMemberRole, Demote, Promote, Restore, MakeOwner
    <3>3. ~Taking(c)' /\ ~Leaving(c)' /\ ~Accepts(c)'
      <4>1. call[c].op # "accept"
        BY <1>1, <3>1 DEF GoodCall
      <4>2. ASSUME NEW pc \in {"setRole", "demote", "promote", "restore"}, Goto(c, pc)
            PROVE  call'[c].pc = pc /\ call'[c].op = call[c].op
        BY <1>12, <4>2 DEF Pcs
      <4> QED BY <1>11, <3>2, <4>1, <4>2 DEF Taking, Leaving, Accepts
    <3>4. role' = role \/ \E u \in Members \cup {call[c].actor}, r \in Roles : role' = [role EXCEPT ![u] = r]
                            /\ u \in Members
      <4>1. call[c].pc = "setRole" => call[c].role \in Roles
        BY <1>1, <1>2 DEF GoodCall
      <4>2. "admin" \in Roles /\ "owner" \in Roles
        BY DEF Roles, Granted
      <4> QED BY <2>9, <4>1, <4>2
              DEF ListForRole, SetMemberRole, Demote, Promote, Restore, MakeOwner, At
    <3>5. \A u \in Users : role'[u] # "none" => u \in Kept
      <4>1. CASE role' = role
        BY <1>13, <4>1
      <4>2. ASSUME NEW v \in Members, NEW r \in Roles, role' = [role EXCEPT ![v] = r]
            PROVE  \A u \in Users : role'[u] # "none" => u \in Kept
        <5>1. v \in Users /\ v \in Kept
          BY DEF Members, Kept
        <5> QED BY <1>6, <1>13, <4>2, <5>1
      <4> QED BY <3>4, <4>1, <4>2
    <3> QED BY <1>10, <1>20, <3>1, <3>3, <3>5
  \* Members leave, and those whose departure is undone come back.
  <2>10. CASE ListForRemoval(c)
    <3>1. UNCHANGED <<invite, role>> /\ call[c].pc = "list"
      BY <2>10 DEF ListForRemoval, At
    <3>2. CASE Return(c)
      BY <1>10, <1>11, <1>13, <1>20, <3>1, <3>2
    <3>3. CASE ~Return(c)
      <4> DEFINE leavers == IF call[c].op = "solo" THEN Members \ {call[c].actor} ELSE {call[c].target}
                 w == [u \in Users |-> IF u \in leavers THEN role[u] ELSE "none"]
      <4>1. PICK b : call' = [call EXCEPT ![c].pc = "delete", ![c].was = w, ![c].only = b]
        BY <2>10, <3>3 DEF ListForRemoval
      <4>2. \A u \in Users : w[u] # "none" => role[u] # "none"
        OBVIOUS
      <4> HIDE DEF w
      <4>3. call'[c].pc = "delete" /\ call'[c].was = w
        BY <1>0, <4>1 DEF CallRecords
      <4>4. ~Taking(c)' /\ ~Accepts(c)'
        <5>1. call'[c].op = call[c].op
          BY <1>0, <4>1 DEF CallRecords
        <5>2. call[c].op # "accept"
          BY <1>1, <3>1 DEF GoodCall
        <5> QED BY <4>3, <5>1, <5>2 DEF Taking, Accepts
      <4> QED BY <1>10, <1>13, <1>20, <3>1, <4>2, <4>3, <4>4
    <3> QED BY <3>2, <3>3
  <2>11. ASSUME NEW v \in Users, DeleteMember(c, v)
         PROVE  (OneCounts /\ SeatsFit /\ CountsHold /\ TakersFit /\ AcceptsHold)'
    <3>1. UNCHANGED invite /\ call[c].pc = "delete" /\ role' = [role EXCEPT ![v] = "none"]
      BY <2>11 DEF DeleteMember, At
    <3>2. \A u \in Users : role'[u] # "none" => u \in Kept
      BY <1>6, <1>13, <3>1
    <3>3. CASE Return(c)
      BY <1>10, <1>11, <1>20, <3>1, <3>2, <3>3
    <3>4. CASE ~Return(c)
      <4>1. call' = [call EXCEPT ![c].pc = "purge", ![c].target = v]
        BY <2>11, <3>4 DEF DeleteMember
      <4>2. call'[c].pc = "purge" /\ call'[c].was = call[c].was /\ call'[c].op = call[c].op
        BY <1>0, <4>1 DEF CallRecords
      <4>3. call[c].op # "accept"
        BY <1>1, <3>1 DEF GoodCall
      <4>4. \A u \in Users : call'[c].was[u] # "none" => u \in Kept
        BY <1>14, <3>1, <4>2 DEF Leaving
      <4> QED BY <1>10, <1>20, <3>1, <3>2, <4>2, <4>3, <4>4 DEF Taking, Accepts
    <3> QED BY <3>3, <3>4
  <2>12. CASE PurgeConnections(c)
    <3>1. UNCHANGED <<invite, role>> /\ call[c].pc = "purge"
      BY <2>12 DEF PurgeConnections, At
    <3>2. CASE Return(c)
      BY <1>10, <1>11, <1>13, <1>20, <3>1, <3>2
    <3>3. CASE ~Return(c)
      <4>1. /\ call'[c].pc \in {"delete", "provision"} /\ call'[c].op = call[c].op
            /\ \A u \in Users : call'[c].was[u] # "none" => call[c].was[u] # "none"
        <5>1. CASE Goto(c, "provision")
          BY <1>12, <5>1 DEF Pcs
        <5>2. CASE ~Goto(c, "provision")
          <6> DEFINE t == call[c].target
                     w == [call[c].was EXCEPT ![t] = "none"]
                     k == [call[c] EXCEPT !.pc = "delete", !.was = w]
          <6>1. call' = [call EXCEPT ![c].pc = "delete", ![c].was[t] = "none"]
            BY <2>12, <3>3, <5>2 DEF PurgeConnections, AfterPurge
          <6>2. call' = [call EXCEPT ![c] = k]
            BY <1>0, <6>1, NextLeaver
          <6>3. w \in [Users -> Roles \cup {"none"}] /\ \A u \in Users : w[u] # "none" => call[c].was[u] # "none"
            BY <1>1 DEF CallRecords
          <6> HIDE DEF w
          <6>4. k.pc = "delete" /\ k.was = w /\ k.op = call[c].op
            BY <1>1 DEF CallRecords
          <6> HIDE DEF k
          <6> QED BY <1>0, <6>2, <6>3, <6>4
        <5> QED BY <5>1, <5>2
      <4>2. call[c].op # "accept"
        BY <1>1, <3>1 DEF GoodCall
      <4>3. \A u \in Users : call'[c].was[u] # "none" => u \in Kept
        BY <1>14, <3>1, <4>1 DEF Leaving
      <4> QED BY <1>10, <1>13, <1>20, <3>1, <4>1, <4>2, <4>3 DEF Taking, Accepts
    <3> QED BY <3>2, <3>3
  <2>13. CASE ProvisionSolo(c) \/ InsertShare(c)
    <3>1. UNCHANGED <<invite, role>> /\ Return(c)
      BY <2>13 DEF ProvisionSolo, InsertShare
    <3> QED BY <1>10, <1>11, <1>13, <1>20, <3>1
  <2>14. CASE ReAdd(c)
    <3> DEFINE t == call[c].target
               r == call[c].was[t]
    <3>1. UNCHANGED invite /\ Return(c) /\ call[c].pc = "readd"
      BY <2>14 DEF ReAdd, At
    <3>2. t \in Users /\ r \in Roles \cup {"none"} /\ r # "none"
      BY <1>1, <3>1 DEF GoodCall, CallRecords
    <3>3. t \in Kept
      BY <1>14, <3>1, <3>2 DEF Leaving
    <3>4. role' = role \/ role' = [role EXCEPT ![t] = r]
      BY <2>14 DEF ReAdd
    <3> HIDE DEF t, r
    <3>5. \A u \in Users : role'[u] # "none" => u \in Kept
      BY <1>6, <1>13, <3>2, <3>3, <3>4
    <3> QED BY <1>10, <1>11, <1>20, <3>1, <3>5
  <2>15. CASE StatementFails(c) \/ CutOff(c)
    <3>1. UNCHANGED <<invite, role>>
      BY <2>15 DEF StatementFails, CutOff
    <3>2. CASE Return(c)
      BY <1>10, <1>11, <1>13, <1>20, <3>1, <3>2
    <3>3. CASE ~Return(c)
      <4>1. \/ call[c].pc = "promote" /\ Goto(c, "restore")
            \/ call[c].pc \in {"purge", "provision"} /\ Goto(c, "readd")
        BY <2>15, <3>3 DEF StatementFails, CutOff, At
      <4>2. /\ call'[c].pc \in {"restore", "readd"} /\ call'[c].was = call[c].was /\ call'[c].op = call[c].op
            /\ Leaving(c)' => Leaving(c)
        BY <1>12, <4>1 DEF Pcs, Leaving
      <4>3. call[c].op # "accept"
        BY <1>1, <4>1 DEF GoodCall
      <4>4. \A u \in Users : Leaving(c)' /\ call'[c].was[u] # "none" => u \in Kept
        BY <1>14, <4>2
      <4> QED BY <1>10, <1>13, <1>20, <3>1, <4>2, <4>3, <4>4 DEF Taking, Accepts
    <3> QED BY <3>2, <3>3
  <2> QED BY <1>20, <2>1, <2>2, <2>3, <2>4, <2>5, <2>6, <2>7, <2>8, <2>9, <2>10, <2>11, <2>12, <2>13,
             <2>14, <2>15 DEF CallSteps
\* An invitation ends, and nobody is accepting it.
<1>21. ASSUME NEW i \in Invites, (\E a \in Users : RevokeInvitation(a, i)) \/ ExpireInvitation(i)
       PROVE  (OneCounts /\ SeatsFit /\ CountsHold /\ TakersFit /\ AcceptsHold)'
  <2>1. UNCHANGED <<role, call>> /\ \A d \in Calls : call[d].invite # i
    BY <1>21 DEF RevokeInvitation, ExpireInvitation
  <2>2. /\ \A j \in Invites : j # i => invite'[j] = invite[j]
        /\ invite'[i].user = invite[i].user /\ (invite'[i].status # "pending" \/ invite'[i].expired)
    BY <1>0, <1>21 DEF RevokeInvitation, ExpireInvitation, InviteRecords
  <2>3. Kept' \subseteq Kept
    BY <2>1 DEF Kept, Members, Returning, Leaving
  <2>4. Invited' \subseteq Invited
    BY <2>2 DEF Invited, ActiveInvitation
  <2>5. \A d \in Calls : Accepts(d)' => Accepts(d) /\ call[d].invite \in Invites
    BY <1>1, <2>1 DEF Accepts, GoodCall
  <2>6. \A d \in Calls : Accepts(d)' => /\ invite'[call'[d].invite].status = "pending"
                                        /\ ~invite'[call'[d].invite].expired
                                        /\ invite'[call'[d].invite].user = call'[d].target
    BY <1>8, <2>1, <2>2, <2>5 DEF ActiveInvitation
  <2> QED BY <1>7, <2>1, <2>3, <2>4, <2>6
<1>22. ASSUME (\E a \in Users : Unshare(a) \/ LeaveElsewhere(a)) \/ UNCHANGED memberVars
       PROVE  (OneCounts /\ SeatsFit /\ CountsHold /\ TakersFit /\ AcceptsHold)'
  <2>1. UNCHANGED <<role, call, invite>>
    BY <1>22 DEF Unshare, LeaveElsewhere, memberVars
  <2>2. Kept' \subseteq Kept
    BY <2>1 DEF Kept, Members, Returning, Leaving
  <2>3. Invited' \subseteq Invited
    BY <2>1 DEF Invited, ActiveInvitation
  <2> QED BY <1>7, <1>8, <2>1, <2>2, <2>3 DEF Accepts, ActiveInvitation
<1> QED BY <1>20, <1>21, <1>22, MembershipSteps

\* The members stay within workspace_member_limit although the seats are counted
\* in two statements and taken in a third, unless a call counts while another
\* holds or frees a seat, or an invitation ends under its acceptance.
THEOREM SeatsAreLimited == MembershipSpec => []SeatsWithinLimit
<1>1. MembershipInit => SendInv /\ SeatsInv
  <2> SUFFICES ASSUME MembershipInit
               PROVE  SendInv /\ SeatsInv
    OBVIOUS
  <2>1. \A c \in Calls : call[c] = NoCall
    BY DEF MembershipInit
  <2>2. Kept = Members /\ Invited = {}
    BY <2>1 DEF MembershipInit, Kept, Returning, Leaving, Invited, ActiveInvitation, NoCall
  <2>3. SeatsFit
    BY <2>2 DEF SeatsFit, MembershipInit, Members
  <2> QED BY <2>1, <2>3 DEF SendInv, SeatsInv, OneCounts, CountsHold, TakersFit, AcceptsHold, Taking,
                            NeedsSeat, Accepts, NoCall
<1>2. /\ MemberTypes /\ SendInv /\ [MembershipNext]_memberVars => SendInv'
      /\ MemberTypes /\ MemberTypes' /\ SendInv /\ SeatsInv /\ [MembershipNext]_memberVars => SeatsInv'
  BY SendStep, SeatsStep
<1>3. MemberTypes /\ SeatsInv => SeatsWithinLimit
  <2> SUFFICES ASSUME SeatsInv, ~crowded
               PROVE  Cardinality(Members) <= MemberLimit
    BY DEF SeatsWithinLimit
  <2>1. Members \in SUBSET Users /\ Kept \cup Invited \in SUBSET Users /\ Members \subseteq Kept \cup Invited
    BY DEF Members, Kept, Returning, Invited
  <2>2. Cardinality(Members) <= Cardinality(Kept \cup Invited) /\ Cardinality(Members) \in Nat
        /\ Cardinality(Kept \cup Invited) \in Nat
    BY <2>1, SeatCounts
  <2> QED BY <2>2, MembershipAssumption DEF SeatsInv, SeatsFit
<1> QED BY <1>1, <1>2, <1>3, MembershipTyped, PTL DEF MembershipSpec

-----------------------------------------------------------------------------
(* Accounts. *)

SignupRecords == [pc: SignupPcs, choice: Choices, answer: {"none", "created", "refused", "unseated"}]
ErrandRecords == [pc: ErrandPcs, user: Signups \cup {NoAccount}, token: 0..MaxMails]

\* A request that is under way is about the account of a sign-up.
AccountTypes ==
    /\ AccountsTypeOK
    /\ \A e \in Errands : errand[e].pc # "idle" => errand[e].user \in Signups

NothingOf(i) == ~Exists(i) /\ home[i] = "none" /\ i \notin joined /\ \A t \in tokens : t[1] # i
Roomless(i) == home[i] = "none" /\ i \notin joined
Settled(i) == Exists(i) => home[i] = "owned" \/ i \in joined

\* Before its user is created and once it is refused nothing of a sign-up exists;
\* from its membership on its account is settled; until the check of the seats it
\* has no workspace.
SignupInv ==
    /\ \A i \in Signups : signup[i].answer # "none" => signup[i].pc = "done"
    /\ \A i \in Signups : i \notin stranded =>
         /\ signup[i].pc \in {"idle", "create"} \/ signup[i].answer = "refused" => NothingOf(i)
         /\ signup[i].pc \in {"accept", "decline", "token", "mail"} \/ signup[i].answer = "created"
              => Settled(i)
         /\ signup[i].pc \in {"terms", "seats"} \/ signup[i].answer = "unseated"
              => Roomless(i)
    /\ \A i, j \in Signups : Exists(i) /\ Exists(j) => i = j

LEMMA AccountsInitInv == AccountsInit => AccountTypes /\ SignupInv
<1> HAVE AccountsInit
<1>1. NoErrand \in ErrandRecords /\ accountFaults \in 0..MaxAccountFaults
  BY AccountsAssumption DEF AccountsInit, NoErrand, ErrandRecords, ErrandPcs
<1>2. \A i \in Signups : signup[i].pc = "idle" /\ signup[i].answer = "none" /\ NothingOf(i)
  BY DEF AccountsInit, NothingOf, Exists
<1>3. signup \in [Signups -> SignupRecords]
  BY DEF AccountsInit, SignupRecords, SignupPcs, Choices
<1>4. AccountsTypeOK
  BY <1>1, <1>3 DEF AccountsInit, AccountsTypeOK, SignupRecords, ErrandRecords
<1>5. \A e \in Errands : errand[e].pc = "idle"
  BY DEF AccountsInit, NoErrand
<1>6. SignupInv
  BY <1>2 DEF SignupInv, NothingOf
<1> QED BY <1>4, <1>5, <1>6 DEF AccountTypes

LEMMA AccountsStep == AccountTypes /\ SignupInv /\ [AccountsNext]_accountVars => AccountTypes' /\ SignupInv'
<1> SUFFICES ASSUME AccountTypes, SignupInv, [AccountsNext]_accountVars
             PROVE  AccountTypes' /\ SignupInv'
  OBVIOUS
<1>0. /\ account \in [Signups -> {"none", "unverified", "verified", "gone"}]
      /\ home \in [Signups -> {"none", "empty", "owned"}]
      /\ joined \subseteq Signups /\ closed \in BOOLEAN
      /\ invitation \in {"pending", "accepted", "declined"}
      /\ tokens \subseteq MailTokens /\ mailed \subseteq MailTokens
      /\ logins \subseteq Signups /\ deletion \subseteq Signups
      /\ subscribed \subseteq Signups /\ canceled \subseteq Signups
      /\ signup \in [Signups -> SignupRecords] /\ errand \in [Errands -> ErrandRecords]
      /\ stranded \subseteq Signups /\ accountFaults \in 0..MaxAccountFaults
  BY DEF AccountTypes, AccountsTypeOK, SignupRecords, ErrandRecords
<1>1. /\ \A n \in 0..MaxAccountFaults : n > 0 => n - 1 \in 0..MaxAccountFaults
      /\ 0 \in 0..MaxMails
  BY AccountsAssumption
<1>2. \A i \in Signups, n \in 0..MaxMails : <<i, n>> \in MailTokens /\ <<i, n>>[1] = i
  BY DEF MailTokens
<1>3. \A t \in MailTokens : t[1] \in Signups /\ t[2] \in 0..MaxMails
  BY DEF MailTokens
<1>4. \A e \in Errands : errand[e].pc # "idle" => errand[e].user \in Signups
  BY DEF AccountTypes
<1>5. NoErrand \in ErrandRecords /\ NoErrand.pc = "idle"
  BY <1>1 DEF NoErrand, ErrandRecords, ErrandPcs
\* The step of one sign-up.
<1>6. ASSUME NEW i \in Signups, NEW pc \in SignupPcs, SignupTo(i, pc)
      PROVE  /\ signup' \in [Signups -> SignupRecords] /\ signup'[i].pc = pc
             /\ signup'[i].answer = signup[i].answer
             /\ \A j \in Signups : j # i => signup'[j] = signup[j]
  <2> DEFINE r == [signup[i] EXCEPT !.pc = pc]
  <2>1. r \in SignupRecords /\ r.pc = pc /\ r.answer = signup[i].answer
    BY <1>0 DEF SignupRecords
  <2>2. signup' = [signup EXCEPT ![i] = r]
    BY <1>0, <1>6 DEF SignupTo
  <2> HIDE DEF r
  <2> QED BY <1>0, <2>1, <2>2
<1>7. ASSUME NEW i \in Signups, NEW a \in {"none", "created", "refused", "unseated"}, SignupEnds(i, a)
      PROVE  /\ signup' \in [Signups -> SignupRecords] /\ signup'[i].pc = "done"
             /\ signup'[i].answer = a
             /\ \A j \in Signups : j # i => signup'[j] = signup[j]
  <2> DEFINE r == [signup[i] EXCEPT !.pc = "done", !.answer = a]
  <2>1. r \in SignupRecords /\ r.pc = "done" /\ r.answer = a
    BY <1>0 DEF SignupRecords, SignupPcs
  <2>2. signup' = [signup EXCEPT ![i] = r]
    BY <1>0, <1>7 DEF SignupEnds
  <2> HIDE DEF r
  <2> QED BY <1>0, <2>1, <2>2
\* The step of another request.
<1>8. ASSUME NEW e \in Errands, NEW r \in ErrandRecords, errand' = [errand EXCEPT ![e] = r],
             r.pc # "idle" => r.user \in Signups
      PROVE  /\ errand' \in [Errands -> ErrandRecords]
             /\ \A d \in Errands : errand'[d].pc # "idle" => errand'[d].user \in Signups
  BY <1>0, <1>4, <1>8
<1>9. ASSUME NEW e \in Errands, ErrandEnds(e)
      PROVE  /\ errand' \in [Errands -> ErrandRecords]
             /\ \A d \in Errands : errand'[d].pc # "idle" => errand'[d].user \in Signups
  BY <1>5, <1>8, <1>9 DEF ErrandEnds
<1>10. ASSUME NEW e \in Errands, NEW pc \in ErrandPcs, ErrandTo(e, pc), ~ErrandAt(e, "idle")
       PROVE  /\ errand' \in [Errands -> ErrandRecords]
              /\ \A d \in Errands : errand'[d].pc # "idle" => errand'[d].user \in Signups
  <2> DEFINE r == [errand[e] EXCEPT !.pc = pc]
  <2>1. r \in ErrandRecords /\ r.user \in Signups
    BY <1>0, <1>4, <1>10 DEF ErrandRecords, ErrandAt
  <2>2. errand' = [errand EXCEPT ![e] = r]
    BY <1>0, <1>10 DEF ErrandTo
  <2> HIDE DEF r
  <2> QED BY <1>8, <2>1, <2>2
<1>11. ASSUME NEW e \in Errands, NEW pc \in ErrandPcs, NEW i \in Signups, NEW n \in 0..MaxMails,
              BeginErrand(e, pc, i, n)
       PROVE  /\ errand' \in [Errands -> ErrandRecords]
              /\ \A d \in Errands : errand'[d].pc # "idle" => errand'[d].user \in Signups
  <2> DEFINE r == [pc |-> pc, user |-> i, token |-> n]
  <2>1. r \in ErrandRecords /\ r.user \in Signups
    BY DEF ErrandRecords
  <2>2. errand' = [errand EXCEPT ![e] = r]
    BY <1>11 DEF BeginErrand
  <2> HIDE DEF r
  <2> QED BY <1>8, <2>1, <2>2
<1>12. ASSUME account' \in [Signups -> {"none", "unverified", "verified", "gone"}],
              home' \in [Signups -> {"none", "empty", "owned"}], joined' \subseteq Signups,
              closed' \in BOOLEAN, invitation' \in {"pending", "accepted", "declined"},
              tokens' \subseteq MailTokens, mailed' \subseteq MailTokens, logins' \subseteq Signups,
              deletion' \subseteq Signups, subscribed' \subseteq Signups, canceled' \subseteq Signups,
              signup' \in [Signups -> SignupRecords], errand' \in [Errands -> ErrandRecords],
              stranded' \subseteq Signups, accountFaults' \in 0..MaxAccountFaults,
              \A d \in Errands : errand'[d].pc # "idle" => errand'[d].user \in Signups
       PROVE  AccountTypes'
  BY <1>12 DEF AccountTypes, AccountsTypeOK, SignupRecords, ErrandRecords
\* Nothing comes into being, and no account loses its workspace.
<1>13. ASSUME \A j \in Signups : NothingOf(j) => NothingOf(j)',
              \A j \in Signups : Settled(j) => Settled(j)',
              \A j \in Signups : Roomless(j) => Roomless(j)',
              \A j \in Signups : Exists(j)' => Exists(j),
              UNCHANGED <<signup, stranded>>
       PROVE  SignupInv'
  <2>1. \A i \in Signups : signup'[i].answer # "none" => signup'[i].pc = "done"
    BY <1>13 DEF SignupInv
  <2>2. \A i, j \in Signups : Exists(i)' /\ Exists(j)' => i = j
    BY <1>13 DEF SignupInv
  <2>3. \A i \in Signups : i \notin stranded' =>
          /\ signup'[i].pc \in {"idle", "create"} \/ signup'[i].answer = "refused" => NothingOf(i)'
          /\ signup'[i].pc \in {"accept", "decline", "token", "mail"} \/ signup'[i].answer = "created"
               => Settled(i)'
          /\ signup'[i].pc \in {"terms", "seats"} \/ signup'[i].answer = "unseated"
               => Roomless(i)'
    BY <1>13 DEF SignupInv
  <2> QED BY <2>1, <2>2, <2>3 DEF SignupInv
<1>14. ASSUME NEW i \in Signups, \A j \in Signups : j # i => signup'[j] = signup[j],
              signup'[i].answer # "none" => signup'[i].pc = "done",
              \/ i \in stranded'
              \/ /\ signup'[i].pc \in {"idle", "create"} \/ signup'[i].answer = "refused" => NothingOf(i)'
                 /\ signup'[i].pc \in {"accept", "decline", "token", "mail"} \/ signup'[i].answer = "created"
                      => Settled(i)'
                 /\ signup'[i].pc \in {"terms", "seats"} \/ signup'[i].answer = "unseated"
                      => Roomless(i)',
              \A j \in Signups : j # i => (NothingOf(j) => NothingOf(j)')
                                       /\ (Settled(j) => Settled(j)') /\ (Roomless(j) => Roomless(j)'),
              \A j, k \in Signups : Exists(j)' /\ Exists(k)' => j = k,
              stranded \subseteq stranded'
       PROVE  SignupInv'
  <2>1. \A j \in Signups : signup'[j].answer # "none" => signup'[j].pc = "done"
    BY <1>14 DEF SignupInv
  <2>2. \A j \in Signups : j \notin stranded' =>
          /\ signup'[j].pc \in {"idle", "create"} \/ signup'[j].answer = "refused" => NothingOf(j)'
          /\ signup'[j].pc \in {"accept", "decline", "token", "mail"} \/ signup'[j].answer = "created"
               => Settled(j)'
          /\ signup'[j].pc \in {"terms", "seats"} \/ signup'[j].answer = "unseated"
               => Roomless(j)'
    BY <1>14 DEF SignupInv
  <2> QED BY <1>14, <2>1, <2>2 DEF SignupInv
<1>15. ASSUME NEW i \in Signups, DeleteUser(i)
       PROVE  /\ account' \in [Signups -> {"none", "unverified", "verified", "gone"}]
              /\ home' \in [Signups -> {"none", "empty", "owned"}] /\ joined' \subseteq Signups
              /\ tokens' \subseteq MailTokens /\ deletion' \subseteq Signups
              /\ NothingOf(i)' /\ \A j \in Signups : Exists(j)' => Exists(j)
              /\ \A j \in Signups : (NothingOf(j) => NothingOf(j)')
                                 /\ (Settled(j) => Settled(j)') /\ (Roomless(j) => Roomless(j)')
  BY <1>0, <1>15 DEF DeleteUser, NothingOf, Settled, Roomless, Exists
\* The rows that a step leaves alone.
<1>16. ASSUME UNCHANGED <<account, home, joined, tokens>>
       PROVE  \A j \in Signups : /\ NothingOf(j) => NothingOf(j)'
                                 /\ Settled(j) => Settled(j)'
                                 /\ Roomless(j) => Roomless(j)'
                                 /\ Exists(j)' => Exists(j)
  BY <1>16 DEF NothingOf, Settled, Roomless, Exists
<1>17. /\ \A i \in Signups : signup[i].answer # "none" => signup[i].pc = "done"
       /\ \A i \in Signups : i \notin stranded =>
            /\ signup[i].pc \in {"idle", "create"} \/ signup[i].answer = "refused" => NothingOf(i)
            /\ signup[i].pc \in {"accept", "decline", "token", "mail"} \/ signup[i].answer = "created"
                 => Settled(i)
            /\ signup[i].pc \in {"terms", "seats"} \/ signup[i].answer = "unseated"
                 => Roomless(i)
       /\ \A i, j \in Signups : Exists(i) /\ Exists(j) => i = j
  BY DEF SignupInv
\* handle_signup.
<1>20. ASSUME NEW i \in Signups, NEW choice \in Choices, BeginSignup(i, choice)
       PROVE  AccountTypes' /\ SignupInv'
  <2> DEFINE r == [signup[i] EXCEPT !.pc = "create", !.choice = choice]
  <2>1. r \in SignupRecords /\ r.pc = "create" /\ r.answer = signup[i].answer
    BY <1>0 DEF SignupRecords, SignupPcs
  <2>2. signup' = [signup EXCEPT ![i] = r]
    BY <1>0, <1>20 DEF BeginSignup
  <2> HIDE DEF r
  <2>3. /\ signup' \in [Signups -> SignupRecords] /\ signup'[i].pc = "create" /\ signup'[i].answer = "none"
        /\ \A j \in Signups : j # i => signup'[j] = signup[j]
    <3>1. signup[i].answer = "none"
      <4>1. signup[i].pc = "idle"
        BY <1>20 DEF BeginSignup, Signing
      <4> QED BY <1>17, <4>1
    <3> QED BY <1>0, <2>1, <2>2, <3>1
  <2>4. /\ UNCHANGED <<account, home, joined, invitation, closed, tokens, mailed, logins, deletion>>
        /\ UNCHANGED <<subscribed, canceled, errand, stranded, accountFaults>>
    BY <1>20 DEF BeginSignup, membershipRows, mailRows, deletionRows
  <2>5. i \in stranded' \/ NothingOf(i)'
    BY <1>16, <1>17, <1>20, <2>4 DEF BeginSignup, Signing
  <2>6. SignupInv'
    BY <1>14, <1>16, <1>17, <2>3, <2>4, <2>5
  <2>7. AccountTypes'
    BY <1>0, <1>4, <1>12, <2>3, <2>4
  <2> QED BY <2>6, <2>7
<1>21. ASSUME NEW i \in Signups, CreateUser(i)
       PROVE  AccountTypes' /\ SignupInv'
  <2>1. /\ UNCHANGED <<home, joined, invitation, closed, tokens, mailed, logins, deletion>>
        /\ UNCHANGED <<subscribed, canceled, errand, stranded, accountFaults>>
    BY <1>21 DEF CreateUser, membershipRows, mailRows, deletionRows
  <2>2. signup[i].pc = "create" /\ signup[i].answer = "none" /\ (i \notin stranded => NothingOf(i))
    BY <1>17, <1>21 DEF CreateUser, Signing
  <2>3. CASE EmailTaken
    <3>1. SignupEnds(i, "refused") /\ UNCHANGED account
      BY <1>21, <2>3 DEF CreateUser
    <3>2. SignupInv'
      BY <1>7, <1>14, <1>16, <1>17, <2>1, <2>2, <3>1
    <3> QED BY <1>0, <1>4, <1>7, <1>12, <2>1, <3>1, <3>2
  <2>4. CASE ~EmailTaken
    <3>1. PICK v \in {"verified", "unverified"} : account' = [account EXCEPT ![i] = v]
      BY <1>21, <2>4 DEF CreateUser
    <3>2. SignupEnds(i, "none") \/ SignupTo(i, "terms")
      BY <1>21, <2>4 DEF CreateUser
    <3>3. /\ signup' \in [Signups -> SignupRecords] /\ signup'[i].pc \in {"done", "terms"}
          /\ signup'[i].answer = "none" /\ \A j \in Signups : j # i => signup'[j] = signup[j]
      BY <1>6, <1>7, <2>2, <3>2 DEF SignupPcs
    <3>4. /\ account' \in [Signups -> {"none", "unverified", "verified", "gone"}]
          /\ \A j \in Signups : j # i => account'[j] = account[j]
      BY <1>0, <3>1
    <3>5. \A j \in Signups : ~Exists(j)
      BY <2>4 DEF EmailTaken
    <3>6. \A j \in Signups : j # i => ~Exists(j)'
      BY <3>4, <3>5 DEF Exists
    <3>7. \A j \in Signups : j # i => (NothingOf(j) => NothingOf(j)')
                                   /\ (Settled(j) => Settled(j)') /\ (Roomless(j) => Roomless(j)')
      BY <2>1, <3>6 DEF NothingOf, Settled, Roomless
    <3>8. i \in stranded' \/ Roomless(i)'
      BY <2>1, <2>2 DEF NothingOf, Roomless
    <3>9. SignupInv'
      BY <1>14, <2>1, <3>3, <3>6, <3>7, <3>8
    <3> QED BY <1>0, <1>4, <1>12, <2>1, <3>3, <3>4, <3>9
  <2> QED BY <2>3, <2>4
\* A step that writes no row of the account.
<1>22. ASSUME NEW i \in Signups, NEW pc \in SignupPcs, SignupTo(i, pc),
              pc \notin {"idle", "create", "accept", "decline", "done"}, signup[i].pc \notin {"idle", "create", "done"},
              pc \in {"token", "mail"} => signup[i].pc \in {"accept", "decline", "token", "mail"},
              pc \in {"terms", "seats"} => signup[i].pc \in {"terms", "seats"},
              UNCHANGED <<account, home, joined, closed, tokens, logins, deletion, subscribed, canceled, errand, stranded>>,
              invitation' \in {"pending", "accepted", "declined"},
              mailed' \subseteq MailTokens, accountFaults' \in 0..MaxAccountFaults
       PROVE  AccountTypes' /\ SignupInv'
  <2>1. /\ signup' \in [Signups -> SignupRecords] /\ signup'[i].pc = pc /\ signup'[i].answer = "none"
        /\ \A j \in Signups : j # i => signup'[j] = signup[j]
    BY <1>6, <1>17, <1>22
  <2>2. SignupInv'
    BY <1>14, <1>16, <1>17, <1>22, <2>1
  <2>3. AccountTypes'
    BY <1>0, <1>4, <1>12, <1>22, <2>1
  <2> QED BY <2>2, <2>3
<1>23. ASSUME NEW i \in Signups, RecordTerms(i) \/ MarkInvitationUsed(i)
       PROVE  AccountTypes' /\ SignupInv'
  <2>1. /\ UNCHANGED <<account, home, joined, closed, tokens, mailed, logins, deletion>>
        /\ UNCHANGED <<subscribed, canceled, errand, stranded>>
    BY <1>23 DEF RecordTerms, MarkInvitationUsed, membershipRows, mailRows, deletionRows
  <2>2. invitation' \in {"pending", "accepted", "declined"} /\ accountFaults' \in 0..MaxAccountFaults
    BY <1>0, <1>1, <1>23 DEF RecordTerms, MarkInvitationUsed, membershipRows
  <2>3. \/ signup[i].pc = "terms" /\ \E pc \in {"seats", "home"} : SignupTo(i, pc)
        \/ signup[i].pc \in {"accept", "decline"} /\ SignupTo(i, "token")
    BY <1>23 DEF RecordTerms, MarkInvitationUsed, Signing
  <2> QED BY <1>0, <1>22, <2>1, <2>2, <2>3 DEF SignupPcs
<1>24. ASSUME NEW i \in Signups, CreateHome(i) \/ AddOwner(i) \/ JoinWorkspace(i)
       PROVE  AccountTypes' /\ SignupInv'
  <2>1. /\ UNCHANGED <<account, invitation, closed, tokens, mailed, logins, deletion>>
        /\ UNCHANGED <<subscribed, canceled, errand, stranded, accountFaults>>
    BY <1>24 DEF CreateHome, AddOwner, JoinWorkspace, mailRows, deletionRows
  <2>2. Exists(i) /\ signup[i].pc \in {"home", "owner", "join"} /\ signup[i].answer = "none"
    BY <1>17, <1>24 DEF CreateHome, AddOwner, JoinWorkspace, Signing
  <2>3. PICK pc \in {"owner", "decline", "token", "accept"} : SignupTo(i, pc)
    BY <1>24 DEF CreateHome, AddOwner, JoinWorkspace
  <2>4. /\ signup' \in [Signups -> SignupRecords] /\ signup'[i].pc = pc /\ signup'[i].answer = "none"
        /\ \A j \in Signups : j # i => signup'[j] = signup[j]
    BY <1>6, <2>2, <2>3 DEF SignupPcs
  <2>5. /\ home' \in [Signups -> {"none", "empty", "owned"}] /\ joined' \subseteq Signups
        /\ \A j \in Signups : j # i => home'[j] = home[j] /\ (j \in joined' <=> j \in joined)
    BY <1>0, <1>24 DEF CreateHome, AddOwner, JoinWorkspace
  <2>6. pc \in {"decline", "token", "accept"} => home'[i] = "owned" \/ i \in joined'
    <3>1. CASE CreateHome(i)
      BY <1>0, <2>4, <3>1 DEF CreateHome, SignupTo
    <3>2. CASE AddOwner(i)
      BY <1>0, <3>2 DEF AddOwner
    <3>3. CASE JoinWorkspace(i)
      BY <3>3 DEF JoinWorkspace
    <3> QED BY <1>24, <3>1, <3>2, <3>3
  <2>7. /\ \A j \in Signups : Exists(j)' <=> Exists(j)
        /\ \A j \in Signups : j # i => (NothingOf(j) => NothingOf(j)')
                                    /\ (Settled(j) => Settled(j)') /\ (Roomless(j) => Roomless(j)')
    BY <2>1, <2>5 DEF NothingOf, Settled, Roomless, Exists
  <2>8. pc \in {"decline", "token", "accept"} => Settled(i)'
    BY <2>6 DEF Settled
  <2>9. SignupInv'
    BY <1>14, <1>17, <2>1, <2>4, <2>7, <2>8
  <2> QED BY <1>0, <1>4, <1>12, <2>1, <2>4, <2>5, <2>9
\* A sign-up that is over, with an answer that says nothing of its rows or truly.
<1>25. ASSUME NEW i \in Signups, NEW a \in {"none", "created", "refused", "unseated"}, SignupEnds(i, a),
              UNCHANGED <<account, home, joined, closed, tokens, logins, deletion, subscribed, canceled, errand>>,
              a = "created" => i \in stranded' \/ Settled(i), a = "refused" => i \in stranded' \/ NothingOf(i),
              a = "unseated" => i \in stranded' \/ Roomless(i),
              UNCHANGED invitation, mailed' \subseteq MailTokens, stranded \subseteq stranded',
              stranded' \subseteq Signups, accountFaults' \in 0..MaxAccountFaults
       PROVE  AccountTypes' /\ SignupInv'
  <2>1. /\ signup' \in [Signups -> SignupRecords] /\ signup'[i].pc = "done" /\ signup'[i].answer = a
        /\ \A j \in Signups : j # i => signup'[j] = signup[j]
    BY <1>7, <1>25
  <2>2. SignupInv'
    BY <1>14, <1>16, <1>17, <1>25, <2>1
  <2>3. AccountTypes'
    BY <1>0, <1>4, <1>12, <1>25, <2>1
  <2> QED BY <2>2, <2>3
<1>26. ASSUME NEW i \in Signups, CheckSeats(i)
       PROVE  AccountTypes' /\ SignupInv'
  <2>1. /\ UNCHANGED <<account, home, joined, invitation, closed, tokens, mailed, logins, deletion>>
        /\ UNCHANGED <<subscribed, canceled, errand, stranded>> /\ signup[i].pc = "seats"
        /\ accountFaults' \in 0..MaxAccountFaults
    BY <1>0, <1>1, <1>26 DEF CheckSeats, membershipRows, mailRows, deletionRows, Signing
  <2>2. i \in stranded \/ Roomless(i)
    BY <1>17, <2>1
  <2>3. CASE SignupEnds(i, "unseated")
    BY <1>0, <1>25, <2>1, <2>2, <2>3
  <2>4. CASE SignupTo(i, "join")
    BY <1>0, <1>22, <2>1, <2>4 DEF SignupPcs
  <2> QED BY <1>26, <2>3, <2>4 DEF CheckSeats
<1>27. ASSUME NEW i \in Signups, InsertVerification(i)
       PROVE  AccountTypes' /\ SignupInv'
  <2>1. /\ UNCHANGED <<account, home, joined, invitation, closed, mailed, logins, deletion>>
        /\ UNCHANGED <<subscribed, canceled, errand, stranded, accountFaults>>
    BY <1>27 DEF InsertVerification, membershipRows, deletionRows
  <2>2. signup[i].pc = "token" /\ SignupTo(i, "mail") /\ tokens' = tokens \cup {<<i, 0>>} /\ Exists(i)
    BY <1>27 DEF InsertVerification, Signing
  <2>3. /\ signup' \in [Signups -> SignupRecords] /\ signup'[i].pc = "mail" /\ signup'[i].answer = "none"
        /\ \A j \in Signups : j # i => signup'[j] = signup[j]
    BY <1>6, <1>17, <2>2 DEF SignupPcs
  <2>4. /\ tokens' \subseteq MailTokens
        /\ \A t \in tokens' : t \in tokens \/ t[1] = i
    BY <1>0, <1>1, <1>2, <2>2
  <2>5. \A j \in Signups : /\ Exists(j)' <=> Exists(j)
                           /\ j # i => (NothingOf(j) => NothingOf(j)')
                           /\ (Settled(j) => Settled(j)') /\ (Roomless(j) => Roomless(j)')
    BY <2>1, <2>4 DEF NothingOf, Settled, Roomless, Exists
  <2>6. SignupInv'
    BY <1>14, <1>17, <2>1, <2>2, <2>3, <2>5
  <2> QED BY <1>0, <1>4, <1>12, <2>1, <2>3, <2>4, <2>6
<1>28. ASSUME NEW i \in Signups, SendVerification(i)
       PROVE  AccountTypes' /\ SignupInv'
  <2>1. /\ UNCHANGED <<account, home, joined, invitation, closed, tokens, logins, deletion>>
        /\ UNCHANGED <<subscribed, canceled, errand, stranded, accountFaults>>
        /\ signup[i].pc = "mail" /\ SignupEnds(i, "created") /\ mailed' = mailed \cup {<<i, 0>>}
    BY <1>28 DEF SendVerification, membershipRows, deletionRows, Signing
  <2>2. mailed' \subseteq MailTokens
    BY <1>0, <1>1, <1>2, <2>1
  <2>3. i \in stranded \/ Settled(i)
    BY <1>17, <2>1
  <2> QED BY <1>0, <1>25, <2>1, <2>2, <2>3
<1>29. ASSUME NEW i \in Signups, SignupFails(i)
       PROVE  AccountTypes' /\ SignupInv'
  <2>1. /\ UNCHANGED <<account, home, joined, invitation, closed, tokens, logins, deletion>>
        /\ UNCHANGED <<subscribed, canceled, errand, stranded>>
    BY <1>29 DEF SignupFails, membershipRows, deletionRows
  <2>2. mailed' \subseteq MailTokens /\ accountFaults' \in 0..MaxAccountFaults
    BY <1>0, <1>1, <1>2, <1>29 DEF SignupFails
  <2>3. \/ signup[i].pc \in {"terms", "home", "owner", "join", "token", "mail"} /\ SignupTo(i, "cleanToken")
        \/ signup[i].pc = "create" /\ SignupEnds(i, "refused")
    BY <1>29 DEF SignupFails, Compensate, Signing
  <2>4. CASE signup[i].pc \in {"terms", "home", "owner", "join", "token", "mail"} /\ SignupTo(i, "cleanToken")
    BY <1>0, <1>22, <2>1, <2>2, <2>4 DEF SignupPcs
  <2>5. CASE signup[i].pc = "create" /\ SignupEnds(i, "refused")
    BY <1>0, <1>17, <1>25, <2>1, <2>2, <2>5
  <2> QED BY <2>3, <2>4, <2>5
<1>30. ASSUME NEW i \in Signups, CleanToken(i)
       PROVE  AccountTypes' /\ SignupInv'
  <2>1. /\ UNCHANGED <<account, home, joined, invitation, closed, mailed, logins, deletion>>
        /\ UNCHANGED <<subscribed, canceled, errand, stranded>>
        /\ signup[i].pc = "cleanToken" /\ SignupTo(i, "cleanUser")
    BY <1>30 DEF CleanToken, membershipRows, deletionRows, Signing
  <2>2. tokens' \subseteq tokens /\ accountFaults' \in 0..MaxAccountFaults
    BY <1>0, <1>1, <1>30 DEF CleanToken
  <2>3. /\ signup' \in [Signups -> SignupRecords] /\ signup'[i].pc = "cleanUser" /\ signup'[i].answer = "none"
        /\ \A j \in Signups : j # i => signup'[j] = signup[j]
    BY <1>6, <1>17, <2>1 DEF SignupPcs
  <2>4. \A j \in Signups : /\ Exists(j)' <=> Exists(j)
                           /\ NothingOf(j) => NothingOf(j)'
                           /\ (Settled(j) => Settled(j)') /\ (Roomless(j) => Roomless(j)')
    BY <2>1, <2>2 DEF NothingOf, Settled, Roomless, Exists
  <2>5. SignupInv'
    BY <1>14, <1>17, <2>1, <2>3, <2>4
  <2>6. tokens' \subseteq MailTokens
    BY <1>0, <2>2
  <2> QED BY <1>0, <1>4, <1>12, <2>1, <2>2, <2>3, <2>5, <2>6
<1>31. ASSUME NEW i \in Signups, CleanUser(i)
       PROVE  AccountTypes' /\ SignupInv'
  <2>1. /\ UNCHANGED <<invitation, closed, mailed, logins, subscribed, canceled, errand>>
        /\ SignupEnds(i, "refused")
    BY <1>31 DEF CleanUser
  <2>2. CASE DeleteUser(i) /\ UNCHANGED <<stranded, accountFaults>>
    <3>1. /\ signup' \in [Signups -> SignupRecords] /\ signup'[i].pc = "done" /\ signup'[i].answer = "refused"
          /\ \A j \in Signups : j # i => signup'[j] = signup[j]
      BY <1>7, <2>1
    <3>2. SignupInv'
      BY <1>14, <1>15, <1>17, <2>2, <3>1
    <3> QED BY <1>0, <1>4, <1>12, <1>15, <2>1, <2>2, <3>1, <3>2
  <2>3. CASE UNCHANGED <<account, home, joined, tokens, deletion>> /\ stranded' = stranded \cup {i}
    <3>1. accountFaults' \in 0..MaxAccountFaults
      BY <1>0, <1>1, <1>31, <2>3 DEF CleanUser, DeleteUser
    <3>2. stranded \subseteq stranded' /\ stranded' \subseteq Signups /\ i \in stranded'
      BY <1>0, <2>3
    <3>3. mailed' \subseteq MailTokens
      BY <1>0, <2>1
    <3> QED BY <1>25, <2>1, <2>3, <3>1, <3>2, <3>3
  <2> QED BY <1>31, <2>2, <2>3 DEF CleanUser
<1>32. ASSUME NEW i \in Signups, SignupCutOff(i)
       PROVE  AccountTypes' /\ SignupInv'
  <2>1. /\ UNCHANGED <<account, home, joined, invitation, closed, tokens, mailed, logins, deletion>>
        /\ UNCHANGED <<subscribed, canceled, errand>>
        /\ SignupEnds(i, "none") /\ stranded' = stranded \cup {i}
        /\ accountFaults' \in 0..MaxAccountFaults
    BY <1>0, <1>1, <1>32 DEF SignupCutOff, membershipRows, mailRows, deletionRows
  <2> QED BY <1>0, <1>25, <2>1
\* The steps that are no sign-up's.
<1>33. ASSUME UNCHANGED <<account, home, joined, invitation, tokens, signup, stranded>>,
              closed' \in BOOLEAN, mailed' \subseteq MailTokens, logins' \subseteq Signups,
              deletion' \subseteq Signups, subscribed' \subseteq Signups, canceled' \subseteq Signups,
              accountFaults' \in 0..MaxAccountFaults, errand' \in [Errands -> ErrandRecords],
              \A d \in Errands : errand'[d].pc # "idle" => errand'[d].user \in Signups
       PROVE  AccountTypes' /\ SignupInv'
  <2>1. SignupInv'
    BY <1>13, <1>16, <1>33
  <2> QED BY <1>0, <1>12, <1>33, <2>1
<1>34. ASSUME SeatsChange \/ \E i \in Signups : LogIn(i) \/ Subscribe(i) \/ RequestDeletion(i)
       PROVE  AccountTypes' /\ SignupInv'
  <2>1. /\ UNCHANGED <<account, home, joined, invitation, tokens, signup, stranded, mailed, canceled>>
        /\ UNCHANGED <<errand, accountFaults>>
    BY <1>34 DEF SeatsChange, LogIn, Subscribe, RequestDeletion, membershipRows, mailRows, deletionRows
  <2>2. closed' \in BOOLEAN /\ logins' \subseteq Signups /\ deletion' \subseteq Signups
        /\ subscribed' \subseteq Signups
    BY <1>0, <1>34 DEF SeatsChange, LogIn, Subscribe, RequestDeletion, membershipRows, deletionRows
  <2> QED BY <1>0, <1>4, <1>33, <2>1, <2>2
<1>35. ASSUME NEW e \in Errands, NEW i \in Signups, BeginResend(e, i) \/ ConfirmDeletion(e, i)
       PROVE  AccountTypes' /\ SignupInv'
  <2>1. /\ UNCHANGED <<account, home, joined, invitation, closed, tokens, mailed, logins, deletion>>
        /\ UNCHANGED <<subscribed, canceled, signup, stranded, accountFaults>>
    BY <1>35 DEF BeginResend, ConfirmDeletion, membershipRows, mailRows, deletionRows
  <2>2. \E pc \in {"dropTokens", "cancel"} : BeginErrand(e, pc, i, 0)
    BY <1>35 DEF BeginResend, ConfirmDeletion
  <2> QED BY <1>0, <1>1, <1>11, <1>33, <2>1, <2>2 DEF ErrandPcs
<1>36. ASSUME NEW e \in Errands, SendAgain(e) \/ CancelSubscription(e) \/ ErrandFails(e)
       PROVE  AccountTypes' /\ SignupInv'
  <2>1. UNCHANGED <<account, home, joined, invitation, closed, tokens, logins, deletion, signup, stranded>>
    BY <1>36 DEF SendAgain, CancelSubscription, ErrandFails, membershipRows, mailRows, deletionRows
  <2>2. /\ errand[e].pc # "idle"
        /\ ErrandEnds(e) \/ (ErrandTo(e, "finalize") /\ ~ErrandAt(e, "idle"))
    BY <1>36 DEF SendAgain, CancelSubscription, ErrandFails, ErrandAt
  <2>3. /\ errand' \in [Errands -> ErrandRecords]
        /\ \A d \in Errands : errand'[d].pc # "idle" => errand'[d].user \in Signups
    BY <1>9, <1>10, <2>2 DEF ErrandPcs
  <2>4. errand[e].user \in Signups /\ errand[e].token \in 0..MaxMails
    BY <1>0, <1>4, <2>2 DEF ErrandRecords
  <2>5. mailed' \subseteq MailTokens
    BY <1>0, <1>2, <1>36, <2>4 DEF SendAgain, CancelSubscription, ErrandFails, mailRows
  <2>6. subscribed' \subseteq Signups /\ canceled' \subseteq Signups
        /\ accountFaults' \in 0..MaxAccountFaults
    BY <1>0, <1>1, <1>36, <2>4 DEF SendAgain, CancelSubscription, ErrandFails, deletionRows
  <2> QED BY <1>0, <1>33, <2>1, <2>3, <2>5, <2>6
<1>37. ASSUME NEW e \in Errands, FinalizeDeletion(e)
       PROVE  AccountTypes' /\ SignupInv'
  <2>1. /\ UNCHANGED <<invitation, closed, mailed, logins, subscribed, canceled, signup, stranded, accountFaults>>
        /\ ErrandEnds(e) /\ errand[e].pc # "idle"
    BY <1>37 DEF FinalizeDeletion, ErrandAt
  <2>2. CASE DeleteUser(errand[e].user)
    <3>1. errand[e].user \in Signups
      BY <1>4, <2>1
    <3> DEFINE i == errand[e].user
    <3> HIDE DEF i
    <3>2. SignupInv'
      BY <1>13, <1>15, <2>1, <2>2, <3>1 DEF i
    <3> QED BY <1>0, <1>9, <1>12, <1>15, <2>1, <2>2, <3>1, <3>2 DEF i
  <2>3. CASE UNCHANGED <<account, home, joined, tokens, deletion>>
    BY <1>0, <1>9, <1>33, <2>1, <2>3
  <2> QED BY <1>37, <2>2, <2>3 DEF FinalizeDeletion
\* The steps that change the tokens or verify.
<1>38. ASSUME NEW e \in Errands, (\E t \in MailTokens : UseToken(e, t)) \/ DropTokens(e)
       PROVE  AccountTypes' /\ SignupInv'
  <2>1. /\ UNCHANGED <<account, home, joined, invitation, closed, mailed, logins, deletion>>
        /\ UNCHANGED <<subscribed, canceled, signup, stranded, accountFaults>>
    BY <1>38 DEF UseToken, DropTokens, membershipRows, deletionRows
  <2>2. tokens' \subseteq tokens
    BY <1>38 DEF UseToken, DropTokens
  <2>3. \/ ErrandTo(e, "newToken") /\ ~ErrandAt(e, "idle")
        \/ \E t \in MailTokens : BeginErrand(e, "verified", t[1], t[2])
    BY <1>38 DEF UseToken, DropTokens, ErrandAt
  <2>4. /\ errand' \in [Errands -> ErrandRecords]
        /\ \A d \in Errands : errand'[d].pc # "idle" => errand'[d].user \in Signups
    BY <1>3, <1>10, <1>11, <2>3 DEF ErrandPcs
  <2>5. \A j \in Signups : /\ Exists(j)' => Exists(j)
                           /\ NothingOf(j) => NothingOf(j)'
                           /\ (Settled(j) => Settled(j)') /\ (Roomless(j) => Roomless(j)')
    BY <2>1, <2>2 DEF NothingOf, Settled, Roomless, Exists
  <2>6. SignupInv'
    BY <1>13, <2>1, <2>5
  <2>7. tokens' \subseteq MailTokens
    BY <1>0, <2>2
  <2> QED BY <1>0, <1>12, <2>1, <2>4, <2>6, <2>7
<1>39. ASSUME NEW e \in Errands, SetVerified(e)
       PROVE  AccountTypes' /\ SignupInv'
  <2> DEFINE i == errand[e].user
  <2>1. /\ UNCHANGED <<home, joined, invitation, closed, tokens, mailed, logins, deletion>>
        /\ UNCHANGED <<subscribed, canceled, signup, stranded, accountFaults>>
        /\ ErrandEnds(e) /\ i \in Signups
    BY <1>4, <1>39 DEF SetVerified, membershipRows, mailRows, deletionRows, ErrandAt
  <2>2. account' = account \/ (Exists(i) /\ account' = [account EXCEPT ![i] = "verified"])
    BY <1>39 DEF SetVerified
  <2> HIDE DEF i
  <2>3. account' \in [Signups -> {"none", "unverified", "verified", "gone"}]
    BY <1>0, <2>1, <2>2
  <2>4. \A j \in Signups : Exists(j)' <=> Exists(j)
    BY <1>0, <2>1, <2>2 DEF Exists
  <2>5. \A j \in Signups : (NothingOf(j) => NothingOf(j)')
                        /\ (Settled(j) => Settled(j)') /\ (Roomless(j) => Roomless(j)')
    BY <2>1, <2>4 DEF NothingOf, Settled, Roomless
  <2>6. SignupInv'
    BY <1>13, <2>1, <2>4, <2>5
  <2> QED BY <1>0, <1>9, <1>12, <2>1, <2>3, <2>6
<1>40. ASSUME NEW e \in Errands, NEW n \in 0..MaxMails, NewToken(e, n)
       PROVE  AccountTypes' /\ SignupInv'
  <2> DEFINE i == errand[e].user
  <2>1. /\ UNCHANGED <<account, home, joined, invitation, closed, mailed, logins, deletion>>
        /\ UNCHANGED <<subscribed, canceled, signup, stranded, accountFaults>>
        /\ i \in Signups /\ errand[e].pc # "idle"
    BY <1>4, <1>40 DEF NewToken, membershipRows, deletionRows, ErrandAt
  <2>2. \/ Exists(i) /\ tokens' = tokens \cup {<<i, n>>}
           /\ errand' = [errand EXCEPT ![e].pc = "send", ![e].token = n]
        \/ ErrandEnds(e) /\ UNCHANGED tokens
    BY <1>40 DEF NewToken
  <2> DEFINE r == [errand[e] EXCEPT !.pc = "send", !.token = n]
  <2>3. r \in ErrandRecords /\ r.user \in Signups
    BY <1>0, <2>1 DEF ErrandRecords, ErrandPcs
  <2>4. \/ errand' = [errand EXCEPT ![e] = r] \/ ErrandEnds(e)
    BY <1>0, <2>2
  <2> HIDE DEF r
  <2>5. /\ errand' \in [Errands -> ErrandRecords]
        /\ \A d \in Errands : errand'[d].pc # "idle" => errand'[d].user \in Signups
    BY <1>8, <1>9, <2>3, <2>4
  <2> HIDE DEF i
  <2>6. tokens' \subseteq MailTokens
    BY <1>0, <1>2, <2>1, <2>2
  <2>7. \A t \in tokens' : t \in tokens \/ (t[1] = i /\ Exists(i))
    BY <2>2
  <2>8. \A j \in Signups : /\ Exists(j)' => Exists(j)
                           /\ NothingOf(j) => NothingOf(j)'
                           /\ (Settled(j) => Settled(j)') /\ (Roomless(j) => Roomless(j)')
    BY <2>1, <2>7 DEF NothingOf, Settled, Roomless, Exists
  <2>9. SignupInv'
    BY <1>13, <2>1, <2>8
  <2> QED BY <1>0, <1>12, <2>1, <2>5, <2>6, <2>9
<1>41. ASSUME UNCHANGED accountVars
       PROVE  AccountTypes' /\ SignupInv'
  BY <1>0, <1>4, <1>33, <1>41 DEF accountVars
<1> QED
  BY <1>20, <1>21, <1>23, <1>24, <1>26, <1>27, <1>28, <1>29, <1>30, <1>31, <1>32, <1>34, <1>35, <1>36,
     <1>37, <1>38, <1>39, <1>40, <1>41
  DEF AccountsNext, SignupStep, ErrandStep

\* handle_signup is all or nothing, whatever statement fails, whoever verifies,
\* logs in or deletes meanwhile: a sign-up answered as created has a workspace,
\* and of one that cleanup_user_and_token undid nothing is left.
THEOREM SignupsAreWhole == AccountsSpec => []SignupIsAllOrNothing
<1>1. AccountsInit => AccountTypes /\ SignupInv
  BY AccountsInitInv
<1>2. AccountTypes /\ SignupInv /\ [AccountsNext]_accountVars => AccountTypes' /\ SignupInv'
  BY AccountsStep
<1>3. SignupInv => SignupIsAllOrNothing
  BY DEF SignupInv, SignupIsAllOrNothing, NothingOf, Settled, Roomless
<1> QED BY <1>1, <1>2, <1>3, PTL DEF AccountsSpec
=============================================================================

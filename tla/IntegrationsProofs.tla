------------------------- MODULE IntegrationsProofs -------------------------
(***************************************************************************)
(* Proofs that what the runs check of Egress, OAuthConnect and ServiceCalls *)
(* holds for every value of the constants.                                  *)
(***************************************************************************)
EXTENDS Egress, OAuthConnect, ServiceCalls, TLAPS, FiniteSetTheorems

----------------------------------------------------------------------------
(* Egress. *)

EgressRecords == [pc: HttpPcs, list: SUBSET HostPatterns, taken: Nat, allowed: SUBSET HostPatterns,
                  rejected: BOOLEAN, host: HttpHosts \cup {NoHost}, first: HttpHosts \cup {NoHost},
                  follow: BOOLEAN, retries: Nat, attempt: Nat, hops: Nat]

EgressTypes ==
    /\ egressEnv \in [allowed: SUBSET HostPatterns, denied: SUBSET HostPatterns,
                      prod: BOOLEAN, defaultDeny: BOOLEAN]
    /\ allowlist \in SUBSET HostPatterns /\ listEdits \in Nat
    /\ httpRun \in [HttpRuns -> EgressRecords]
    /\ contacted \in [HttpRuns -> SUBSET (HttpHosts \cup {NoHost})]

\* A run's list is the workflow's unless that was set since the snapshot; the node's list is
\* merged from it; and what it contacts, now or at the next retry, these permit.
PermitInv ==
    \A r \in HttpRuns :
      LET run == httpRun[r] IN
      /\ run.pc = "none" => run.taken = 0
      /\ run.taken <= listEdits
      /\ run.pc # "none" /\ run.taken = listEdits => run.list = allowlist
      /\ run.pc \in {"none", "queued"} => contacted[r] = {}
      /\ run.pc \notin {"none", "queued"} =>
           run.allowed = MergeAdvisoryAllowlist(egressEnv.allowed, run.list).allowed
      /\ run.pc = "checking" => run.host = run.first
      /\ run.pc = "sending" => Permitted(run.host, run.allowed) /\ Permitted(run.first, run.allowed)
      /\ \A h \in contacted[r] : Permitted(h, run.allowed)

LEMMA EgressStart == EgressInit => EgressTypes /\ PermitInv
<1> SUFFICES ASSUME EgressInit
             PROVE  EgressTypes /\ PermitInv
  OBVIOUS
<1>1. NoHttpRun \in EgressRecords /\ NoHttpRun.pc = "none" /\ NoHttpRun.taken = 0
  BY DEF NoHttpRun, EgressRecords, HttpPcs
<1>2. \A r \in HttpRuns : httpRun[r] = NoHttpRun /\ contacted[r] = {}
  BY DEF EgressInit
<1> HIDE DEF NoHttpRun
<1>3. EgressTypes
  BY <1>1 DEF EgressInit, EgressTypes
<1>4. PermitInv
  BY <1>1, <1>2 DEF EgressInit, PermitInv
<1> QED BY <1>3, <1>4

LEMMA EgressStep == EgressTypes /\ PermitInv /\ [EgressNext]_egressVars => EgressTypes' /\ PermitInv'
<1> SUFFICES ASSUME EgressTypes, PermitInv, [EgressNext]_egressVars
             PROVE  EgressTypes' /\ PermitInv'
  OBVIOUS
<1> DEFINE Allowed(l) == MergeAdvisoryAllowlist(egressEnv.allowed, l).allowed
<1>0. /\ egressEnv.allowed \in SUBSET HostPatterns /\ listEdits \in Nat /\ allowlist \in SUBSET HostPatterns
      /\ \A r \in HttpRuns : httpRun[r] \in EgressRecords
  BY DEF EgressTypes
<1>1. \A l \in SUBSET HostPatterns : Allowed(l) \in SUBSET HostPatterns
  BY <1>0 DEF MergeAdvisoryAllowlist
\* A step of one run: the operator's lists and the workflow's stay.
<1>2. ASSUME NEW r \in HttpRuns, NEW t \in EgressRecords, NEW c \in SUBSET (HttpHosts \cup {NoHost}),
             httpRun' = [httpRun EXCEPT ![r] = t], contacted' = [contacted EXCEPT ![r] = c],
             UNCHANGED <<egressEnv, allowlist, listEdits>>,
             t.pc # "none", t.taken <= listEdits,
             t.taken = listEdits => t.list = allowlist,
             t.pc = "queued" => c = {},
             t.pc # "queued" => t.allowed = Allowed(t.list),
             t.pc = "checking" => t.host = t.first,
             t.pc = "sending" => Permitted(t.host, t.allowed) /\ Permitted(t.first, t.allowed),
             \A h \in c : Permitted(h, t.allowed)
      PROVE  EgressTypes' /\ PermitInv'
  <2>1. EgressTypes'
    BY <1>2 DEF EgressTypes
  <2>2. httpRun'[r] = t /\ contacted'[r] = c
        /\ \A s \in HttpRuns \ {r} : httpRun'[s] = httpRun[s] /\ contacted'[s] = contacted[s]
    BY <1>2 DEF EgressTypes
  <2>3. \A h, a : Permitted(h, a)' <=> Permitted(h, a)
    BY <1>2 DEF Permitted, IsHostBlocked, IsIpBlocked, ParsesAsAddress, IsHostAllowed, Matches
  <2>4. PermitInv'
    BY <1>2, <2>2, <2>3 DEF PermitInv
  <2> QED BY <2>1, <2>4
\* The same of a run whose list and merged list stay.
<1>3. ASSUME NEW r \in HttpRuns, httpRun[r].pc \notin {"none", "queued"}, NEW t \in EgressRecords,
             NEW c \in SUBSET (HttpHosts \cup {NoHost}),
             httpRun' = [httpRun EXCEPT ![r] = t], contacted' = [contacted EXCEPT ![r] = c],
             UNCHANGED <<egressEnv, allowlist, listEdits>>,
             t.list = httpRun[r].list, t.taken = httpRun[r].taken, t.allowed = httpRun[r].allowed,
             t.pc \notin {"none", "queued", "checking"},
             t.pc = "sending" => Permitted(t.host, t.allowed) /\ Permitted(t.first, t.allowed),
             \A h \in c : h \in contacted[r] \/ Permitted(h, t.allowed)
      PROVE  EgressTypes' /\ PermitInv'
  <2>1. /\ t.taken <= listEdits /\ (t.taken = listEdits => t.list = allowlist)
        /\ t.allowed = Allowed(t.list) /\ \A h \in contacted[r] : Permitted(h, t.allowed)
    BY <1>3 DEF PermitInv
  <2> HIDE DEF Allowed
  <2> QED BY <1>2, <1>3, <2>1
<1>4. ASSUME NEW l \in SUBSET HostPatterns, SetEgressAllowlist(l)
      PROVE  EgressTypes' /\ PermitInv'
  <2>1. listEdits' = listEdits + 1 /\ allowlist' = l /\ UNCHANGED <<egressEnv, httpRun, contacted>>
    BY <1>4 DEF SetEgressAllowlist
  <2>2. EgressTypes'
    BY <2>1 DEF EgressTypes
  <2>3. \A h, a : Permitted(h, a)' <=> Permitted(h, a)
    BY <2>1 DEF Permitted, IsHostBlocked, IsIpBlocked, ParsesAsAddress, IsHostAllowed, Matches
  <2>4. \A r \in HttpRuns : httpRun[r].taken \in Nat
    BY <1>0 DEF EgressRecords
  <2>5. \A r \in HttpRuns : httpRun[r].taken <= listEdits' /\ httpRun[r].taken # listEdits'
    BY <1>0, <2>1, <2>4 DEF PermitInv
  <2>6. PermitInv'
    BY <2>1, <2>3, <2>5 DEF PermitInv
  <2> QED BY <2>2, <2>6
<1>5. ASSUME NEW r \in HttpRuns
      PROVE  contacted = [contacted EXCEPT ![r] = contacted[r]] /\ contacted[r] \in SUBSET (HttpHosts \cup {NoHost})
  BY DEF EgressTypes
<1>6. ASSUME NEW r \in HttpRuns, NEW l \in SUBSET HostPatterns, NEW n \in Nat, httpRun[r].pc = "none",
             httpRun' = [httpRun EXCEPT ![r] = [NoHttpRun EXCEPT !.pc = "queued", !.list = l, !.taken = n]],
             UNCHANGED <<egressEnv, allowlist, listEdits, contacted>>,
             n <= listEdits, n = listEdits => l = allowlist
      PROVE  EgressTypes' /\ PermitInv'
  <2> DEFINE t == [NoHttpRun EXCEPT !.pc = "queued", !.list = l, !.taken = n]
  <2>1. t \in EgressRecords /\ t.pc = "queued" /\ t.list = l /\ t.taken = n
    BY DEF NoHttpRun, EgressRecords, HttpPcs
  <2>2. contacted[r] = {}
    BY <1>6 DEF PermitInv
  <2>3. httpRun' = [httpRun EXCEPT ![r] = t]
    BY <1>6
  <2> HIDE DEF t, Allowed
  <2> QED BY <1>2, <1>5, <1>6, <2>1, <2>2, <2>3
<1>7. ASSUME NEW r \in HttpRuns, CopyAllowlist(r)
      PROVE  EgressTypes' /\ PermitInv'
  <2>1. /\ httpRun[r].pc = "none" /\ UNCHANGED <<egressEnv, allowlist, listEdits, contacted>>
        /\ httpRun' = [httpRun EXCEPT ![r] = [NoHttpRun EXCEPT !.pc = "queued", !.list = allowlist, !.taken = listEdits]]
    BY <1>7 DEF CopyAllowlist
  <2>2. listEdits <= listEdits
    BY <1>0
  <2> QED BY <1>0, <1>6, <2>1, <2>2
<1>8. ASSUME NEW r \in HttpRuns, NEW old \in HttpRuns, RerunSnapshot(r, old)
      PROVE  EgressTypes' /\ PermitInv'
  <2>1. httpRun[old].list \in SUBSET HostPatterns /\ httpRun[old].taken \in Nat
    BY <1>0 DEF EgressRecords
  <2>2. httpRun[old].taken <= listEdits /\ (httpRun[old].taken = listEdits => httpRun[old].list = allowlist)
    BY <1>8 DEF PermitInv, RerunSnapshot
  <2> QED BY <1>6, <1>8, <2>1, <2>2 DEF RerunSnapshot
<1>9. ASSUME NEW r \in HttpRuns, NEW h \in HttpHosts, NEW retries \in Nat, NEW follow \in BOOLEAN,
             ReachHttpNode(r, h, retries, follow)
      PROVE  EgressTypes' /\ PermitInv'
  <2> DEFINE run == httpRun[r]
             merged == MergeAdvisoryAllowlist(egressEnv.allowed, run.list)
             t == [run EXCEPT !.pc = "checking", !.allowed = merged.allowed,
                              !.rejected = merged.rejected # {}, !.host = h, !.first = h,
                              !.retries = retries, !.follow = follow]
  <2>1. /\ run.pc = "queued" /\ httpRun' = [httpRun EXCEPT ![r] = t]
        /\ UNCHANGED <<egressEnv, allowlist, listEdits, contacted>>
    BY <1>9 DEF ReachHttpNode
  <2>2. run \in EgressRecords /\ merged.allowed \in SUBSET HostPatterns /\ merged.allowed = Allowed(run.list)
    BY <1>0, <1>1 DEF EgressRecords
  <2> HIDE DEF run, merged, Allowed
  <2>3. /\ t \in EgressRecords /\ t.pc = "checking" /\ t.allowed = Allowed(t.list) /\ t.host = t.first
        /\ t.taken = run.taken /\ t.list = run.list
    BY <2>2 DEF EgressRecords, HttpPcs
  <2> HIDE DEF t
  <2>4. run.taken <= listEdits /\ (run.taken = listEdits => run.list = allowlist) /\ contacted[r] = {}
    BY <2>1 DEF PermitInv, run
  <2> QED BY ZenonT(60), <1>2, <1>5, <2>1, <2>3, <2>4
<1>10. ASSUME NEW r \in HttpRuns, CheckHost(r)
       PROVE  EgressTypes' /\ PermitInv'
  <2> DEFINE run == httpRun[r]
  <2>1. run.pc = "checking" /\ UNCHANGED <<egressEnv, allowlist, listEdits, contacted>> /\ run.host = run.first
    BY <1>10 DEF CheckHost, PermitInv
  <2>2. PICK p \in {"sending", "blocked"} : /\ httpRun' = [httpRun EXCEPT ![r].pc = p]
                                            /\ p = "sending" => Permitted(run.host, run.allowed)
    BY <1>10 DEF CheckHost
  <2> DEFINE t == [run EXCEPT !.pc = p]
  <2>3. httpRun' = [httpRun EXCEPT ![r] = t]
    BY <2>2 DEF EgressTypes
  <2>4. run \in EgressRecords
    BY <1>0
  <2> HIDE DEF run
  <2>5. /\ t \in EgressRecords /\ t.pc = p /\ t.list = run.list /\ t.taken = run.taken /\ t.allowed = run.allowed
        /\ t.host = run.host /\ t.first = run.first
    BY <2>4 DEF EgressRecords, HttpPcs
  <2>6. run.pc \notin {"none", "queued"} /\ t.pc \notin {"none", "queued", "checking"}
        /\ (t.pc = "sending" => Permitted(t.host, t.allowed) /\ Permitted(t.first, t.allowed))
    BY <2>1, <2>2, <2>5
  <2> HIDE DEF t
  <2> USE DEF run
  <2> QED BY <1>3, <1>5, <2>1, <2>3, <2>5, <2>6
\* A request to the host the run was permitted.
<1>11. ASSUME NEW r \in HttpRuns, httpRun[r].pc = "sending", Contact(r),
              NEW t \in EgressRecords, httpRun' = [httpRun EXCEPT ![r] = t],
              UNCHANGED <<egressEnv, allowlist, listEdits>>,
              t.list = httpRun[r].list, t.taken = httpRun[r].taken, t.allowed = httpRun[r].allowed,
              t.pc \in {"sending", "answered", "failed"},
              t.pc = "sending" => Permitted(t.host, t.allowed) /\ t.first = httpRun[r].first
       PROVE  EgressTypes' /\ PermitInv'
  <2> DEFINE c == contacted[r] \cup {httpRun[r].host}
  <2>1. contacted' = [contacted EXCEPT ![r] = c]
    BY <1>11 DEF Contact
  <2>2. Permitted(httpRun[r].host, httpRun[r].allowed) /\ Permitted(httpRun[r].first, httpRun[r].allowed)
    BY <1>11 DEF PermitInv
  <2>3. c \in SUBSET (HttpHosts \cup {NoHost})
    BY <1>0, <1>5 DEF EgressRecords
  <2>4. \A h \in c : h \in contacted[r] \/ Permitted(h, t.allowed)
    BY <1>11, <2>2
  <2> HIDE DEF c
  <2> QED BY <1>3, <1>11, <2>1, <2>2, <2>3, <2>4
<1>12. ASSUME NEW r \in HttpRuns, HttpAnswers(r)
       PROVE  EgressTypes' /\ PermitInv'
  <2> DEFINE run == httpRun[r]
             t == [run EXCEPT !.pc = "answered"]
  <2>1. /\ run.pc = "sending" /\ Contact(r) /\ UNCHANGED <<egressEnv, allowlist, listEdits>>
        /\ httpRun' = [httpRun EXCEPT ![r] = t] /\ run \in EgressRecords
    BY <1>0, <1>12 DEF HttpAnswers, EgressTypes
  <2>2. t \in EgressRecords /\ t.pc = "answered" /\ t.list = run.list /\ t.taken = run.taken /\ t.allowed = run.allowed
    BY <2>1 DEF EgressRecords, HttpPcs
  <2> HIDE DEF t
  <2> QED BY <1>11, <2>1, <2>2
<1>13. ASSUME NEW r \in HttpRuns, NEW h \in HttpHosts, HttpRedirects(r, h)
       PROVE  EgressTypes' /\ PermitInv'
  <2> DEFINE run == httpRun[r]
             t == IF FollowsRedirect(r, h) THEN [run EXCEPT !.host = h, !.hops = run.hops + 1] ELSE [run EXCEPT !.pc = "answered"]
  <2>1. /\ run.pc = "sending" /\ Contact(r) /\ UNCHANGED <<egressEnv, allowlist, listEdits>>
        /\ httpRun' = [httpRun EXCEPT ![r] = t] /\ run \in EgressRecords
    <3>1. run.pc = "sending" /\ Contact(r) /\ UNCHANGED <<egressEnv, allowlist, listEdits>> /\ run \in EgressRecords
      BY <1>0, <1>13 DEF HttpRedirects
    <3>2. httpRun' = [httpRun EXCEPT ![r] = t]
      BY <1>13 DEF HttpRedirects
    <3> QED BY <3>1, <3>2
  <2>2. FollowsRedirect(r, h) => Permitted(h, run.allowed)
    BY DEF FollowsRedirect
  <2>3. /\ t \in EgressRecords /\ t.pc \in {"sending", "answered"} /\ t.list = run.list /\ t.taken = run.taken
        /\ t.allowed = run.allowed /\ t.first = run.first
        /\ (t.pc = "sending" => Permitted(t.host, t.allowed))
    <3> HIDE DEF run
    <3>1. CASE FollowsRedirect(r, h)
      <4>0. run.hops + 1 \in Nat
        BY <2>1 DEF EgressRecords
      <4>1. t = [run EXCEPT !.host = h, !.hops = run.hops + 1]
        BY <3>1
      <4>2. /\ t \in EgressRecords /\ t.pc = run.pc /\ t.list = run.list /\ t.taken = run.taken
            /\ t.allowed = run.allowed /\ t.first = run.first /\ t.host = h
        <5> HIDE DEF t
        <5> QED BY <2>1, <4>0, <4>1 DEF EgressRecords
      <4> QED BY <2>1, <2>2, <3>1, <4>2
    <3>2. CASE ~FollowsRedirect(r, h)
      <4>1. t = [run EXCEPT !.pc = "answered"]
        BY <3>2
      <4> QED BY <2>1, <4>1 DEF EgressRecords, HttpPcs
    <3> QED BY <3>1, <3>2
  <2> HIDE DEF t
  <2> QED BY <1>11, <2>1, <2>3
<1>14. ASSUME NEW r \in HttpRuns, HttpFails(r)
       PROVE  EgressTypes' /\ PermitInv'
  <2> DEFINE run == httpRun[r]
             next == run.attempt + 1
             t == IF next <= run.retries + 1
                    THEN [run EXCEPT !.attempt = next, !.host = run.first, !.hops = 0]
                    ELSE [run EXCEPT !.attempt = next, !.pc = "failed"]
  <2>1. /\ run.pc = "sending" /\ Contact(r) /\ UNCHANGED <<egressEnv, allowlist, listEdits>>
        /\ httpRun' = [httpRun EXCEPT ![r] = t] /\ run \in EgressRecords
    <3>1. run.pc = "sending" /\ Contact(r) /\ UNCHANGED <<egressEnv, allowlist, listEdits>> /\ run \in EgressRecords
      BY <1>0, <1>14 DEF HttpFails
    <3>2. httpRun' = [httpRun EXCEPT ![r] = t]
      BY <1>14 DEF HttpFails
    <3> QED BY <3>1, <3>2
  <2>2. Permitted(run.first, run.allowed)
    BY <2>1 DEF PermitInv
  <2>3. /\ t \in EgressRecords /\ t.pc \in {"sending", "failed"} /\ t.list = run.list /\ t.taken = run.taken
        /\ t.allowed = run.allowed /\ t.first = run.first
        /\ (t.pc = "sending" => t.host = run.first)
    <3> HIDE DEF run
    <3>0. next \in Nat
      BY <2>1 DEF EgressRecords
    <3> HIDE DEF next
    <3>1. CASE next <= run.retries + 1
      <4>1. t = [run EXCEPT !.attempt = next, !.host = run.first, !.hops = 0]
        BY <3>1
      <4> HIDE DEF t
      <4> QED BY <2>1, <3>0, <4>1 DEF EgressRecords
    <3>2. CASE ~(next <= run.retries + 1)
      <4>1. t = [run EXCEPT !.attempt = next, !.pc = "failed"]
        BY <3>2
      <4> HIDE DEF t
      <4> QED BY <2>1, <3>0, <4>1 DEF EgressRecords, HttpPcs
    <3> QED BY <3>1, <3>2
  <2> HIDE DEF t
  <2> QED BY <1>11, <2>1, <2>2, <2>3
<1>15. CASE ClearEgressBlockEvents \/ UNCHANGED egressVars
  <2>1. UNCHANGED <<egressEnv, allowlist, listEdits, httpRun, contacted>>
    BY <1>15 DEF ClearEgressBlockEvents, egressVars
  <2>2. \A h, a : Permitted(h, a)' <=> Permitted(h, a)
    BY <2>1 DEF Permitted, IsHostBlocked, IsIpBlocked, ParsesAsAddress, IsHostAllowed, Matches
  <2> QED BY <2>1, <2>2 DEF EgressTypes, PermitInv
<1>16. {{}} \cup {{p} : p \in HostPatterns} \subseteq SUBSET HostPatterns /\ 0..MaxRetries \subseteq Nat
  BY EgressAssumption
<1> QED
  BY <1>4, <1>7, <1>8, <1>9, <1>10, <1>12, <1>13, <1>14, <1>15, <1>16 DEF EgressNext

(* EgressFollowsPolicy: whatever execute_http contacts, by the request, a redirect its *)
(* policy follows or a retry, merge_advisory_allowlist and the operator's lists        *)
(* permit, for any hosts and patterns, any number of runs and reruns, redirects and    *)
(* retries, and however often the workflow's list is set.                              *)
THEOREM PolicyIsFollowed == EgressSpec => []EgressFollowsPolicy
<1>1. EgressTypes /\ PermitInv => EgressFollowsPolicy
  <2> SUFFICES ASSUME EgressTypes, PermitInv, NEW r \in HttpRuns, NEW h \in contacted[r]
               PROVE  /\ ~Matches(h, egressEnv.denied)
                      /\ egressEnv.prod => h \notin InternalHosts \ IPv6Hosts
                      /\ egressEnv.allowed # {} => Matches(h, egressEnv.allowed)
                      /\ egressEnv.allowed = {} /\ httpRun[r].taken = listEdits =>
                           Matches(h, allowlist) \/ (allowlist = {} /\ ~egressEnv.defaultDeny)
    BY DEF EgressFollowsPolicy
  <2>1. /\ Permitted(h, httpRun[r].allowed) /\ httpRun[r].pc \notin {"none", "queued"}
        /\ httpRun[r].allowed = MergeAdvisoryAllowlist(egressEnv.allowed, httpRun[r].list).allowed
        /\ httpRun[r].taken = listEdits => httpRun[r].list = allowlist
    BY DEF PermitInv
  <2>2. httpRun[r].allowed = IF egressEnv.allowed = {} THEN httpRun[r].list ELSE egressEnv.allowed
    BY <2>1 DEF MergeAdvisoryAllowlist
  <2>3. /\ ~Matches(h, egressEnv.denied) /\ (egressEnv.prod => h \notin InternalHosts \ IPv6Hosts)
        /\ (egressEnv.defaultDeny \/ httpRun[r].allowed # {}) => Matches(h, httpRun[r].allowed)
    BY <2>1 DEF Permitted, IsHostBlocked, IsIpBlocked, ParsesAsAddress, IsHostAllowed
  <2> QED BY <2>1, <2>2, <2>3
<1> QED BY <1>1, EgressStart, EgressStep, PTL DEF EgressSpec

----------------------------------------------------------------------------
(* OAuthConnect. *)

ConnectRecords == [pc: ConnectPcs, user: People, scope: {"workspace", "personal"}, ident: Idents \cup {Unknown},
                   row: Rows \cup {NoRow}, found: BOOLEAN, granted: BOOLEAN, unscoped: BOOLEAN,
                   result: {"none", "ok", "error"}]
RowRecords == [state: {"free", "on", "gone"}, user: People, ident: Idents \cup {Unknown}, cred: Grants]

ConnectTypes ==
    /\ provider \in Providers /\ signedIn \in People
    /\ row \in [Rows -> RowRecords] /\ links \in SUBSET Installs /\ revoked \in SUBSET Grants
    /\ flow \in [Flows -> ConnectRecords] /\ disturbed \in SUBSET Flows

Unmatched == {"idle", "away", "permit", "exchange", "scopes", "match"}
Unwritten == Unmatched \cup {"revoke", "store"}
Written == {"spread", "find", "write", "promote"}

\* What holds of a flow, disturbed or not: its row is one of its own account, and each step is
\* taken for the providers it is meant for.
FlowOk(t) ==
    /\ t.pc \in Unmatched => t.row = NoRow
    /\ t.pc \in {"revoke"} \cup Written => t.row # NoRow
    /\ t.row # NoRow => /\ row[t.row].state # "free" /\ row[t.row].user = t.user
                        /\ row[t.row].ident = t.ident
    /\ t.pc \in {"idle", "away", "permit", "exchange"} => ~t.granted
    /\ t.pc \in {"scopes", "find", "write"} => provider = "slack"
    /\ t.pc = "spread" => provider # "slack"
    /\ t.pc = "promote" => provider = "notion" /\ t.scope = "workspace"
    /\ t.pc \notin {"idle", "done"} /\ provider = "slack" => t.scope = "workspace"

\* What f was granted is in its row.
Saved(f, t) == t.row # NoRow /\ row[t.row].state = "on" /\ row[t.row].cred = f /\ f \notin revoked
Spread(f, t) == \A l \in links : l.source = t.row => l.cred = f

\* What holds of a flow nothing interfered with.
Sound(f, t) ==
    /\ t.pc \in {"revoke", "store"} /\ t.row # NoRow => row[t.row].state = "on"
    /\ t.pc \in Written => Saved(f, t)
    /\ t.pc = "promote" => Spread(f, t)
    /\ t.pc \in (Unwritten \cup Written) \ {"idle", "away", "permit"} /\ provider \in {"slack", "notion"}
         /\ t.scope = "workspace" => right = "ok"
    /\ t.pc = "write" => (t.found <=> links # {})
    /\ t.pc = "done" /\ t.granted /\ ~t.unscoped =>
         /\ Saved(f, t) /\ (provider # "slack" => Spread(f, t))
         /\ \/ /\ t.result = "ok" /\ (provider = "slack" => \E l \in links : l.cred = f)
               /\ provider = "notion" /\ t.scope = "workspace" => \E l \in links : l.source = t.row
            \/ /\ t.result = "error"
               /\ \/ provider = "slack" /\ \E l \in links : l.source = NoRow
                  \/ provider = "notion" /\ t.scope = "workspace" /\ \E l \in links : l.made = t.row

\* A grant is found only in the row its flow wrote, and a connection has a row that is there.
CredsInv ==
    /\ \A r \in Rows : row[r].cred \in Flows =>
         flow[row[r].cred].row = r /\ flow[row[r].cred].pc \notin Unwritten
    /\ \A f \in Flows : f \in revoked => flow[f].pc \notin Unwritten
    /\ \A l \in links : l.source # NoRow => row[l.source].state = "on"

ConnectInv ==
    /\ \A f \in Flows : FlowOk(flow[f]) /\ (f \notin disturbed => Sound(f, flow[f]))
    /\ CredsInv

LEMMA ConnectsStart == OAuthConnectInit => ConnectTypes /\ ConnectInv
<1> SUFFICES ASSUME OAuthConnectInit
             PROVE  ConnectTypes /\ ConnectInv
  OBVIOUS
<1>1. /\ NoFlowYet \in ConnectRecords /\ NoFlowYet.pc = "idle" /\ NoFlowYet.row = NoRow /\ NoFlowYet.granted = FALSE
      /\ FreeRow \in RowRecords /\ FreeRow.cred = First /\ First \notin Flows /\ NoRow \notin Rows
  BY OAuthConnectAssumption DEF NoFlowYet, FreeRow, ConnectRecords, RowRecords, ConnectPcs, People, Grants
<1>2. PICK r \in Rows, i \in Idents, before \in {"nothing", "row", "link", "orphan"} :
        /\ row = [s \in Rows |-> IF s # r \/ before = "nothing" THEN FreeRow
                    ELSE [FreeRow EXCEPT !.state = IF before = "orphan" THEN "gone" ELSE "on", !.ident = i]]
        /\ links = CASE before = "link" -> {[source |-> r, made |-> r, cred |-> First]}
                     [] before = "orphan" -> {[source |-> NoRow, made |-> r, cred |-> First]}
                     [] OTHER -> {}
  BY DEF OAuthConnectInit
<1>3. /\ flow = [f \in Flows |-> NoFlowYet] /\ provider \in Providers /\ signedIn = "u" /\ revoked = {} /\ disturbed = {}
  BY DEF OAuthConnectInit
<1> DEFINE old == [FreeRow EXCEPT !.state = IF before = "orphan" THEN "gone" ELSE "on", !.ident = i]
<1>4. old \in RowRecords /\ old.cred = First /\ (before # "orphan" => old.state = "on")
  BY <1>1 DEF RowRecords, FreeRow
<1> HIDE DEF old
<1>5. /\ row \in [Rows -> RowRecords] /\ (\A s \in Rows : row[s].cred = First)
      /\ (before = "link" => row[r].state = "on")
  <2>1. row = [s \in Rows |-> IF s # r \/ before = "nothing" THEN FreeRow ELSE old]
    BY <1>2 DEF old
  <2> HIDE DEF FreeRow
  <2> QED BY <1>1, <1>4, <2>1
<1>6. links \in SUBSET Installs /\ \A l \in links : l.source # NoRow => l.source = r /\ before = "link"
  <2>1. [source |-> r, made |-> r, cred |-> First] \in Installs /\ [source |-> NoRow, made |-> r, cred |-> First] \in Installs
    BY DEF Installs, Grants
  <2>2. CASE before = "link"
    BY <1>2, <2>1, <2>2
  <2>3. CASE before = "orphan"
    BY <1>2, <2>1, <2>3
  <2>4. CASE before \in {"nothing", "row"}
    BY <1>2, <2>4
  <2> QED BY <2>2, <2>3, <2>4
<1> HIDE DEF NoFlowYet
<1>7. ConnectTypes
  BY <1>1, <1>3, <1>5, <1>6 DEF ConnectTypes, People
<1>8. \A f \in Flows : FlowOk(flow[f]) /\ Sound(f, flow[f])
  BY <1>1, <1>3 DEF FlowOk, Sound, Unmatched, Unwritten, Written
<1>9. CredsInv
  BY <1>1, <1>3, <1>5, <1>6 DEF CredsInv
<1> QED BY <1>7, <1>8, <1>9 DEF ConnectInv

LEMMA ConnectStep == ConnectTypes /\ ConnectInv /\ [OAuthConnectNext]_connectVars => ConnectTypes' /\ ConnectInv'
<1> SUFFICES ASSUME ConnectTypes, ConnectInv, [OAuthConnectNext]_connectVars
             PROVE  ConnectTypes' /\ ConnectInv'
  OBVIOUS
<1>0. /\ \A f \in Flows : flow[f] \in ConnectRecords
      /\ \A r \in Rows : row[r] \in RowRecords
      /\ provider \in Providers /\ NoRow \notin Rows /\ First \notin Flows
  BY OAuthConnectAssumption DEF ConnectTypes
<1>1. ASSUME NEW f \in Flows
      PROVE  /\ flow[f].pc \in ConnectPcs /\ flow[f].user \in People /\ flow[f].scope \in {"workspace", "personal"}
             /\ flow[f].ident \in Idents \cup {Unknown} /\ flow[f].row \in Rows \cup {NoRow}
             /\ FlowOk(flow[f]) /\ (f \notin disturbed => Sound(f, flow[f]))
  BY <1>0 DEF ConnectRecords, ConnectInv
<1>2. ASSUME NEW f \in Flows, NEW t \in ConnectRecords, flow' = [flow EXCEPT ![f] = t]
      PROVE  /\ flow' \in [Flows -> ConnectRecords] /\ flow'[f] = t
             /\ \A g \in Flows \ {f} : flow'[g] = flow[g]
  BY <1>2 DEF ConnectTypes
<1>3. ASSUME NEW g \in Flows, NEW u, u = flow'[g]
      PROVE  (FlowOk(u)' => FlowOk(flow[g])') /\ (Sound(g, u)' => Sound(g, flow[g])')
  BY <1>3 DEF FlowOk, Sound, Saved, Spread
\* A step of one flow that writes nothing.
<1>4. ASSUME NEW f \in Flows, NEW t \in ConnectRecords, flow' = [flow EXCEPT ![f] = t],
             UNCHANGED <<rights, stored>>, disturbed \subseteq disturbed', disturbed' \subseteq Flows,
             flow[f].pc \notin Unwritten => t.pc \notin Unwritten /\ t.row = flow[f].row,
             FlowOk(t), f \notin disturbed' => Sound(f, t)
      PROVE  ConnectTypes' /\ ConnectInv'
  <2>1. ConnectTypes'
    BY <1>2, <1>4 DEF ConnectTypes, rights, stored
  <2>2. \A g, u : (FlowOk(u)' <=> FlowOk(u)) /\ (Sound(g, u)' <=> Sound(g, u))
    BY <1>4 DEF FlowOk, Sound, Saved, Spread, rights, stored
  <2>3. ASSUME NEW g \in Flows
        PROVE  FlowOk(flow[g])' /\ (g \notin disturbed' => Sound(g, flow[g])')
    <3> PICK u : u = flow'[g]
      OBVIOUS
    <3>1. FlowOk(u) /\ (g \notin disturbed' => Sound(g, u))
      BY <1>1, <1>2, <1>4
    <3>2. FlowOk(u)' /\ (g \notin disturbed' => Sound(g, u)')
      BY <2>2, <3>1
    <3> QED BY <1>3, <3>2
  <2>4. CredsInv'
    BY <1>2, <1>4 DEF CredsInv, ConnectInv, rights, stored
  <2> QED BY <2>1, <2>3, <2>4 DEF ConnectInv
\* A step of one flow that writes, to its row r and the connections made from it: the flows
\* of other accounts are left alone, and those of the same account are disturbed.
<1>5. ASSUME NEW f \in Flows, NEW t \in ConnectRecords, NEW r \in Rows, flow' = [flow EXCEPT ![f] = t],
             UNCHANGED rights, Interferes(f), row' \in [Rows -> RowRecords],
             links' \in SUBSET Installs, revoked' \in SUBSET Grants,
             row'[r].user = flow[f].user, row'[r].ident = flow[f].ident,
             row[r].state # "free" => /\ row'[r].state # "free" /\ row'[r].user = row[r].user
                                      /\ row'[r].ident = row[r].ident,
             \A s \in Rows \ {r} : row'[s] = row[s],
             provider # "slack" => \A l : l.source # r => (l \in links <=> l \in links'),
             \A l \in links : \E k \in links' : k.made = l.made,
             revoked' \subseteq revoked \cup {row[r].cred},
             FlowOk(t)', f \notin disturbed' => Sound(f, t)', CredsInv'
      PROVE  ConnectTypes' /\ ConnectInv'
  <2>1. disturbed' = disturbed \cup
          {g \in Flows \ {f} : flow[g].pc # "idle" /\
             (provider = "slack" \/ (flow[g].user = flow[f].user /\ flow[g].ident = flow[f].ident))}
    BY <1>5 DEF Interferes, In
  <2>2. ConnectTypes'
    <3>1. disturbed' \in SUBSET Flows
      BY <2>1 DEF ConnectTypes
    <3> QED BY <1>2, <1>5, <3>1 DEF ConnectTypes, rights
  <2>3. ASSUME NEW g \in Flows \ {f}, NEW u \in ConnectRecords, u = flow[g]
        PROVE  FlowOk(u)' /\ (g \notin disturbed' => Sound(g, u)')
    <3>1. /\ u.row \in Rows \cup {NoRow} /\ FlowOk(u) /\ u.user \in People
          /\ (g \notin disturbed' => Sound(g, u)) /\ provider' = provider /\ right' = right
      BY <1>1, <1>5, <2>1, <2>3 DEF rights
    <3>2. u.row # NoRow => /\ row[u.row].state # "free" /\ row[u.row].user = u.user /\ row[u.row].ident = u.ident
                           /\ row'[u.row].state # "free" /\ row'[u.row].user = u.user /\ row'[u.row].ident = u.ident
      BY <1>5, <3>1 DEF FlowOk
    <3>3. FlowOk(u)'
      BY <3>1, <3>2 DEF FlowOk
    <3>4. CASE u.pc = "idle"
      BY <3>3, <3>4 DEF Sound, Unwritten, Unmatched, Written
    <3>5. CASE u.pc # "idle" /\ g \notin disturbed'
      <4>1. provider # "slack" /\ ~(u.user = flow[f].user /\ u.ident = flow[f].ident)
        BY <2>1, <2>3, <3>5
      <4>2. u.row # r /\ (u.row # NoRow => row'[u.row] = row[u.row])
        BY <1>0, <1>5, <3>1, <3>2, <4>1
      <4>3. row[r].cred # g
        BY <2>3, <4>2 DEF ConnectInv, CredsInv
      <4>4. Saved(g, u) => Saved(g, u)'
        BY <1>5, <4>2, <4>3 DEF Saved
      <4>5. Spread(g, u) => Spread(g, u)'
        BY <1>5, <4>1, <4>2 DEF Spread
      <4>6. (\E l \in links : l.source = u.row) => (\E l \in links' : l.source = u.row)
        BY <1>5, <4>1, <4>2
      <4>7. (\E l \in links : l.made = u.row) => (\E l \in links' : l.made = u.row)
        BY <1>5
      <4>8. u.pc # "write"
        BY <3>1, <4>1 DEF FlowOk
      <4> QED BY <3>1, <3>3, <4>1, <4>2, <4>4, <4>5, <4>6, <4>7, <4>8 DEF Sound
    <3> QED BY <3>3, <3>4, <3>5
  <2>4. ASSUME NEW g \in Flows
        PROVE  FlowOk(flow[g])' /\ (g \notin disturbed' => Sound(g, flow[g])')
    <3> PICK u : u = flow'[g]
      OBVIOUS
    <3>1. CASE g = f
      <4>1. u = t
        BY <1>2, <1>5, <3>1
      <4> QED BY <1>3, <1>5, <3>1, <4>1
    <3>2. CASE g # f
      <4>1. u = flow[g] /\ u \in ConnectRecords
        BY <1>0, <1>2, <1>5, <3>2
      <4> QED BY <1>3, <2>3, <3>2, <4>1
    <3> QED BY <3>1, <3>2
  <2> QED BY <1>5, <2>2, <2>4 DEF ConnectInv
\* A change from outside disturbs every flow.
<1>6. ASSUME Disturb(Flows), UNCHANGED <<flow, provider>>, signedIn' \in People,
             row' \in [Rows -> RowRecords], links' \in SUBSET Installs, revoked' \in SUBSET Grants,
             \A s \in Rows : row[s].state # "free" => /\ row'[s].state # "free" /\ row'[s].user = row[s].user
                                                      /\ row'[s].ident = row[s].ident,
             CredsInv'
      PROVE  ConnectTypes' /\ ConnectInv'
  <2>1. disturbed' = disturbed \cup {g \in Flows : flow[g].pc # "idle"}
    BY <1>6 DEF Disturb, In
  <2>2. ConnectTypes'
    <3>1. disturbed' \in SUBSET Flows
      BY <2>1 DEF ConnectTypes
    <3> QED BY <1>6, <3>1 DEF ConnectTypes
  <2>3. ASSUME NEW g \in Flows
        PROVE  FlowOk(flow[g])' /\ (g \notin disturbed' => Sound(g, flow[g])')
    <3>1. FlowOk(flow[g]) /\ flow[g].row \in Rows \cup {NoRow} /\ flow'[g] = flow[g]
      BY <1>1, <1>6
    <3>2. FlowOk(flow[g])'
      BY <1>6, <3>1 DEF FlowOk
    <3>3. g \notin disturbed' => flow[g].pc = "idle"
      BY <2>1
    <3>4. g \notin disturbed' => Sound(g, flow[g])'
      BY <3>1, <3>3 DEF Sound, Unwritten, Unmatched, Written
    <3> QED BY <3>2, <3>4
  <2> QED BY <1>6, <2>2, <2>3 DEF ConnectInv
\* A flow ends before it was granted anything.
<1>7. ASSUME NEW f \in Flows, NEW r \in {"ok", "error"}, Answer(f, r)
      PROVE  \E t \in ConnectRecords :
               /\ flow' = [flow EXCEPT ![f] = t] /\ t.pc = "done" /\ t.result = r /\ t.user = flow[f].user
               /\ t.scope = flow[f].scope /\ t.ident = flow[f].ident /\ t.row = flow[f].row
               /\ t.granted = flow[f].granted /\ t.unscoped = flow[f].unscoped
  <2> DEFINE t == [flow[f] EXCEPT !.pc = "done", !.result = r]
  <2>1. flow' = [flow EXCEPT ![f] = t]
    BY <1>7 DEF Answer, ConnectTypes
  <2>2. /\ t \in ConnectRecords /\ t.pc = "done" /\ t.result = r /\ t.user = flow[f].user
        /\ t.scope = flow[f].scope /\ t.ident = flow[f].ident /\ t.row = flow[f].row
        /\ t.granted = flow[f].granted /\ t.unscoped = flow[f].unscoped
    BY <1>0 DEF ConnectRecords, ConnectPcs
  <2> HIDE DEF t
  <2> QED BY <2>1, <2>2
<1>8. ASSUME NEW f \in Flows, NEW p \in ConnectPcs, Goto(f, p)
      PROVE  \E t \in ConnectRecords :
               /\ flow' = [flow EXCEPT ![f] = t] /\ t.pc = p /\ t.user = flow[f].user
               /\ t.scope = flow[f].scope /\ t.ident = flow[f].ident /\ t.row = flow[f].row
               /\ t.granted = flow[f].granted /\ t.unscoped = flow[f].unscoped /\ t.found = flow[f].found
  <2> DEFINE t == [flow[f] EXCEPT !.pc = p]
  <2>1. flow' = [flow EXCEPT ![f] = t]
    BY <1>8 DEF Goto, ConnectTypes
  <2>2. /\ t \in ConnectRecords /\ t.pc = p /\ t.user = flow[f].user
        /\ t.scope = flow[f].scope /\ t.ident = flow[f].ident /\ t.row = flow[f].row
        /\ t.granted = flow[f].granted /\ t.unscoped = flow[f].unscoped /\ t.found = flow[f].found
    BY <1>0 DEF ConnectRecords
  <2> HIDE DEF t
  <2> QED BY <2>1, <2>2
<1>9. ASSUME NEW f \in Flows, flow[f].pc \in {"idle", "away", "permit", "exchange"}, Answer(f, "error"),
             UNCHANGED <<rights, stored, disturbed>>
      PROVE  ConnectTypes' /\ ConnectInv'
  <2>1. PICK t \in ConnectRecords :
          /\ flow' = [flow EXCEPT ![f] = t] /\ t.pc = "done" /\ t.user = flow[f].user /\ t.ident = flow[f].ident
          /\ t.row = flow[f].row /\ t.granted = flow[f].granted
    BY <1>7, <1>9
  <2>2. ~t.granted /\ t.row = NoRow
    BY <1>1, <1>9, <2>1 DEF FlowOk, Unmatched
  <2>3. FlowOk(t) /\ Sound(f, t)
    BY <2>1, <2>2 DEF FlowOk, Sound, Unmatched, Unwritten, Written
  <2>4. disturbed' \subseteq Flows
    BY <1>9 DEF ConnectTypes
  <2> QED BY <1>4, <1>9, <2>1, <2>3, <2>4 DEF Unwritten, Unmatched
\* A step of a flow that has no row yet.
<1>10. ASSUME NEW f \in Flows, NEW t \in ConnectRecords, flow' = [flow EXCEPT ![f] = t],
              UNCHANGED <<rights, stored, disturbed>>, flow[f].pc \in Unwritten,
              t.pc \in Unmatched, t.row = NoRow, t.pc = "scopes" => provider = "slack",
              t.pc \notin {"scopes", "match"} => ~t.granted, t.pc # "idle" /\ provider = "slack" => t.scope = "workspace",
              f \notin disturbed /\ t.pc \in {"exchange", "scopes", "match"} /\ provider \in {"slack", "notion"}
                /\ t.scope = "workspace" => right = "ok"
       PROVE  ConnectTypes' /\ ConnectInv'
  <2>1. FlowOk(t)
    BY <1>10 DEF FlowOk, Unmatched, Written
  <2>2. f \notin disturbed => Sound(f, t)
    BY <1>10 DEF Sound, Unmatched, Unwritten, Written
  <2>3. disturbed' = disturbed /\ disturbed' \subseteq Flows
    BY <1>10 DEF ConnectTypes
  <2> QED BY <1>4, <1>10, <2>1, <2>2, <2>3
<1>11. ASSUME NEW f \in Flows, NEW scope \in {"workspace", "personal"}, NEW beside \in BOOLEAN,
              ConnectStart(f, scope, beside)
       PROVE  ConnectTypes' /\ ConnectInv'
  <2>1. flow[f].pc = "idle" /\ UNCHANGED <<rights, stored, disturbed>>
    BY <1>11 DEF ConnectStart, In
  <2>2. CASE Answer(f, "error")
    BY <1>9, <2>1, <2>2
  <2>3. CASE ~Answer(f, "error")
    <3> DEFINE t == [NoFlowYet EXCEPT !.pc = "away", !.scope = scope, !.user = signedIn]
    <3>1. flow' = [flow EXCEPT ![f] = t]
      BY <1>11, <2>3 DEF ConnectStart
    <3>2. provider = "slack" => scope = "workspace"
      BY <1>11, <2>3 DEF ConnectStart, SlackStart
    <3>3. signedIn \in People
      BY DEF ConnectTypes
    <3>4. /\ t \in ConnectRecords /\ t.pc = "away" /\ t.row = NoRow /\ t.scope = scope /\ t.granted = FALSE
      BY <3>3 DEF NoFlowYet, ConnectRecords, ConnectPcs
    <3> HIDE DEF t
    <3> QED BY <1>10, <2>1, <3>1, <3>2, <3>4 DEF Unwritten, Unmatched
  <2> QED BY <2>2, <2>3
<1>12. ASSUME NEW f \in Flows, RefuseCallback(f)
       PROVE  ConnectTypes' /\ ConnectInv'
  BY <1>9, <1>12 DEF RefuseCallback, In
<1>13. ASSUME NEW f \in Flows, NEW p \in {"exchange", "permit"}, Return(f, p),
              p = "exchange" => provider \notin {"slack", "notion"}
       PROVE  ConnectTypes' /\ ConnectInv'
  <2> DEFINE t == [flow[f] EXCEPT !.pc = p, !.user = signedIn]
  <2>1. flow[f].pc = "away" /\ UNCHANGED <<rights, stored, disturbed>>
    BY <1>13 DEF Return, In
  <2>2. flow' = [flow EXCEPT ![f] = t]
    BY <1>13 DEF Return, ConnectTypes
  <2>3. signedIn \in People
    BY DEF ConnectTypes
  <2>4. /\ t \in ConnectRecords /\ t.pc = p /\ t.row = flow[f].row /\ t.scope = flow[f].scope
        /\ t.granted = flow[f].granted
    BY <1>0, <2>3 DEF ConnectRecords, ConnectPcs
  <2>5. flow[f].row = NoRow /\ ~flow[f].granted /\ (provider = "slack" => flow[f].scope = "workspace")
    BY <1>1, <2>1 DEF FlowOk, Unmatched
  <2> HIDE DEF t
  <2> QED BY <1>10, <1>13, <2>1, <2>2, <2>4, <2>5 DEF Unwritten, Unmatched
<1>14. ASSUME NEW f \in Flows, HandleCallback(f) \/ SlackCallback(f) \/ NotionCallback(f)
       PROVE  ConnectTypes' /\ ConnectInv'
  <2>1. CASE HandleCallback(f)
    BY <1>13, <2>1 DEF HandleCallback
  <2>2. CASE SlackCallback(f)
    BY <1>13, <2>2 DEF SlackCallback
  <2>3. CASE NotionCallback(f)
    <3>1. CASE Return(f, "permit")
      BY <1>13, <3>1
    <3>2. CASE ~Return(f, "permit")
      BY <1>9, <2>3, <3>2 DEF NotionCallback, In
    <3> QED BY <3>1, <3>2
  <2> QED BY <1>14, <2>1, <2>2, <2>3
<1>15. ASSUME NEW f \in Flows, RecheckPermissions(f)
       PROVE  ConnectTypes' /\ ConnectInv'
  <2>1. flow[f].pc = "permit" /\ UNCHANGED <<rights, stored, disturbed>>
    BY <1>15 DEF RecheckPermissions, In
  <2>2. CASE Answer(f, "error")
    BY <1>9, <2>1, <2>2
  <2>3. CASE Goto(f, "exchange") /\ EnsureOauthPermissions(flow[f].scope)
    <3>1. PICK t \in ConnectRecords :
            /\ flow' = [flow EXCEPT ![f] = t] /\ t.pc = "exchange" /\ t.scope = flow[f].scope
            /\ t.row = flow[f].row /\ t.granted = flow[f].granted
      BY <1>8, <2>3 DEF ConnectPcs
    <3>2. flow[f].row = NoRow /\ ~flow[f].granted /\ (provider = "slack" => flow[f].scope = "workspace")
      BY <1>1, <2>1 DEF FlowOk, Unmatched
    <3>3. flow[f].scope = "workspace" => right = "ok"
      BY <2>3 DEF EnsureOauthPermissions
    <3> QED BY <1>10, <2>1, <3>1, <3>2, <3>3 DEF Unwritten, Unmatched
  <2> QED BY <1>15, <2>2, <2>3 DEF RecheckPermissions
<1>16. ASSUME NEW f \in Flows, NEW i \in Idents, ExchangeCode(f, i)
       PROVE  ConnectTypes' /\ ConnectInv'
  <2>1. flow[f].pc = "exchange" /\ UNCHANGED <<rights, stored, disturbed>>
    BY <1>16 DEF ExchangeCode, In
  <2>2. CASE Answer(f, "error")
    BY <1>9, <2>1, <2>2
  <2>3. CASE ~Answer(f, "error")
    <3>1. PICK j \in Idents \cup {Unknown} :
            flow' = [flow EXCEPT ![f] = [[flow[f] EXCEPT !.granted = TRUE, !.ident = j]
                                           EXCEPT !.pc = IF provider = "slack" THEN "scopes" ELSE "match"]]
      BY <1>16, <2>3 DEF ExchangeCode
    <3> DEFINE p == IF provider = "slack" THEN "scopes" ELSE "match"
               t == [[flow[f] EXCEPT !.granted = TRUE, !.ident = j] EXCEPT !.pc = p]
    <3>2. p \in {"scopes", "match"} /\ (p = "scopes" => provider = "slack")
      OBVIOUS
    <3>3. flow' = [flow EXCEPT ![f] = t]
      BY <3>1
    <3> HIDE DEF p
    <3>4. t \in ConnectRecords /\ t.pc = p /\ t.row = flow[f].row /\ t.scope = flow[f].scope
      BY <1>0, <3>2 DEF ConnectRecords, ConnectPcs
    <3> HIDE DEF t
    <3>5. flow[f].row = NoRow /\ (provider = "slack" => flow[f].scope = "workspace")
      BY <1>1, <2>1 DEF FlowOk, Unmatched
    <3>6. f \notin disturbed /\ provider \in {"slack", "notion"} /\ flow[f].scope = "workspace" => right = "ok"
      BY <1>1, <2>1 DEF Sound, Unmatched, Unwritten
    <3> QED BY <1>10, <2>1, <3>2, <3>3, <3>4, <3>5, <3>6 DEF Unwritten, Unmatched
  <2> QED BY <2>2, <2>3
<1>17. ASSUME NEW f \in Flows, ValidateSlackBotScopes(f)
       PROVE  ConnectTypes' /\ ConnectInv'
  <2>1. /\ flow[f].pc = "scopes" /\ UNCHANGED <<rights, stored, disturbed>>
        /\ flow[f].row = NoRow /\ provider = "slack" /\ flow[f].scope = "workspace"
    BY <1>1, <1>17 DEF ValidateSlackBotScopes, In, FlowOk, Unmatched
  <2>2. CASE Goto(f, "match")
    <3>1. PICK t \in ConnectRecords :
            flow' = [flow EXCEPT ![f] = t] /\ t.pc = "match" /\ t.scope = flow[f].scope /\ t.row = flow[f].row
      BY <1>8, <2>2 DEF ConnectPcs
    <3>2. f \notin disturbed => right = "ok"
      BY <1>1, <2>1 DEF Sound, Unmatched, Unwritten
    <3> QED BY <1>10, <2>1, <3>1, <3>2 DEF Unwritten, Unmatched
  <2>3. CASE flow' = [flow EXCEPT ![f].pc = "done", ![f].result = "error", ![f].unscoped = TRUE]
    <3> DEFINE t == [flow[f] EXCEPT !.pc = "done", !.result = "error", !.unscoped = TRUE]
    <3>1. flow' = [flow EXCEPT ![f] = t]
      BY <2>3 DEF ConnectTypes
    <3>2. t \in ConnectRecords /\ t.pc = "done" /\ t.row = flow[f].row /\ t.unscoped
      BY <1>0 DEF ConnectRecords, ConnectPcs
    <3> HIDE DEF t
    <3>3. FlowOk(t) /\ Sound(f, t)
      BY <2>1, <3>2 DEF FlowOk, Sound, Unmatched, Unwritten, Written
    <3>4. disturbed' = disturbed /\ disturbed' \subseteq Flows
      BY <2>1 DEF ConnectTypes
    <3> QED BY <1>4, <2>1, <3>1, <3>2, <3>3, <3>4 DEF Unwritten, Unmatched
  <2> QED BY <1>17, <2>2, <2>3 DEF ValidateSlackBotScopes
<1>18. ASSUME NEW f \in Flows, FindMatching(f)
       PROVE  ConnectTypes' /\ ConnectInv'
  <2>1. /\ flow[f].pc = "match" /\ UNCHANGED <<rights, stored, disturbed>> /\ flow[f].row = NoRow
        /\ (provider = "slack" => flow[f].scope = "workspace")
    BY <1>1, <1>18 DEF FindMatching, In, FlowOk, Unmatched
  <2>2. disturbed' = disturbed /\ disturbed' \subseteq Flows
    BY <2>1 DEF ConnectTypes
  <2>3. f \notin disturbed /\ provider \in {"slack", "notion"} /\ flow[f].scope = "workspace" => right = "ok"
    BY <1>1, <2>1 DEF Sound, Unmatched, Unwritten
  <2>4. CASE Goto(f, "store")
    <3>1. PICK t \in ConnectRecords :
            flow' = [flow EXCEPT ![f] = t] /\ t.pc = "store" /\ t.scope = flow[f].scope /\ t.row = flow[f].row
      BY <1>8, <2>4 DEF ConnectPcs
    <3>2. FlowOk(t) /\ (f \notin disturbed => Sound(f, t))
      BY <2>1, <2>3, <3>1 DEF FlowOk, Sound, Unmatched, Unwritten, Written
    <3> QED BY <1>4, <2>1, <2>2, <3>1, <3>2 DEF Unwritten, Unmatched
  <2>5. ASSUME NEW r \in MatchingRows(f), flow' = [flow EXCEPT ![f].pc = "revoke", ![f].row = r]
        PROVE  ConnectTypes' /\ ConnectInv'
    <3>1. /\ r \in Rows /\ row[r].state = "on" /\ row[r].user = flow[f].user /\ row[r].ident = flow[f].ident
      BY DEF MatchingRows
    <3> DEFINE t == [flow[f] EXCEPT !.pc = "revoke", !.row = r]
    <3>2. flow' = [flow EXCEPT ![f] = t]
      BY <2>5 DEF ConnectTypes
    <3>3. /\ t \in ConnectRecords /\ t.pc = "revoke" /\ t.row = r /\ t.user = flow[f].user /\ t.ident = flow[f].ident
          /\ t.scope = flow[f].scope
      BY <1>0, <3>1 DEF ConnectRecords, ConnectPcs
    <3> HIDE DEF t
    <3>4. FlowOk(t) /\ (f \notin disturbed => Sound(f, t))
      BY <1>0, <2>1, <2>3, <3>1, <3>3 DEF FlowOk, Sound, Unmatched, Unwritten, Written
    <3> QED BY <1>4, <2>1, <2>2, <3>2, <3>3, <3>4 DEF Unwritten, Unmatched
  <2> QED BY <1>18, <2>4, <2>5 DEF FindMatching
\* A flow that was disturbed ends with an error.
<1>19. ASSUME NEW f \in Flows, flow[f].pc # "idle", Answer(f, "error"), UNCHANGED <<rights, stored>>,
              disturbed' = disturbed \/ disturbed' = disturbed \cup {f}, f \in disturbed'
       PROVE  ConnectTypes' /\ ConnectInv'
  <2>1. PICK t \in ConnectRecords :
          /\ flow' = [flow EXCEPT ![f] = t] /\ t.pc = "done" /\ t.user = flow[f].user /\ t.ident = flow[f].ident
          /\ t.row = flow[f].row
    BY <1>7, <1>19
  <2>2. FlowOk(t)
    BY <1>1, <2>1 DEF FlowOk, Unmatched, Written
  <2>3. disturbed \subseteq disturbed' /\ disturbed' \subseteq Flows
    BY <1>19 DEF ConnectTypes
  <2> QED BY <1>4, <1>19, <2>1, <2>2, <2>3 DEF Unwritten, Unmatched
<1>20. ASSUME NEW f \in Flows, flow[f].pc = "revoke"
       PROVE  /\ flow[f].row \in Rows /\ row[flow[f].row].state # "free" /\ row[flow[f].row].user = flow[f].user
              /\ row[flow[f].row].ident = flow[f].ident /\ (provider = "slack" => flow[f].scope = "workspace")
              /\ (f \notin disturbed => /\ row[flow[f].row].state = "on"
                                        /\ (provider \in {"slack", "notion"} /\ flow[f].scope = "workspace" => right = "ok"))
  BY <1>1, <1>20 DEF FlowOk, Sound, Unmatched, Unwritten
<1>21. ASSUME NEW f \in Flows, RevokeStored(f)
       PROVE  ConnectTypes' /\ ConnectInv'
  <2> PICK r : r = flow[f].row
    OBVIOUS
  <2>1. flow[f].pc = "revoke" /\ UNCHANGED rights /\ row' = row /\ links' = links
    BY <1>21 DEF RevokeStored, In
  <2>2. CASE row[r].state = "on"
    <3>1. /\ revoked' \in {revoked, revoked \cup {row[r].cred}} /\ Goto(f, "store") /\ Interferes(f)
      BY <1>21, <2>2 DEF RevokeStored, RevokeProviderToken
    <3>2. PICK t \in ConnectRecords :
            /\ flow' = [flow EXCEPT ![f] = t] /\ t.pc = "store" /\ t.scope = flow[f].scope /\ t.row = flow[f].row
            /\ t.user = flow[f].user /\ t.ident = flow[f].ident
      BY <1>8, <3>1 DEF ConnectPcs
    <3>3. r \in Rows /\ row[r].cred \in Grants /\ revoked' \in SUBSET Grants /\ revoked' \subseteq revoked \cup {row[r].cred}
      BY <1>0, <1>20, <2>1, <3>1 DEF RowRecords, ConnectTypes
    <3>4. \A c \in Flows : c \in revoked' => c # f /\ flow[c].pc \notin Unwritten
      BY <2>1, <3>3 DEF ConnectInv, CredsInv, Unwritten
    <3>5. CredsInv'
      <4>1. \A c \in Flows : c # f => flow'[c] = flow[c]
        BY <1>2, <3>2
      <4>2. \A s \in Rows : row[s].cred # f
        BY <2>1 DEF ConnectInv, CredsInv, Unwritten
      <4> QED BY <2>1, <3>4, <4>1, <4>2 DEF ConnectInv, CredsInv
    <3>6. FlowOk(t)'
      BY <1>0, <1>20, <2>1, <3>2 DEF FlowOk, rights, Unmatched, Written
    <3>7. disturbed \subseteq disturbed'
      BY <3>1 DEF Interferes
    <3>8. f \notin disturbed' => Sound(f, t)'
      BY <1>20, <2>1, <3>2, <3>7 DEF Sound, rights, Unmatched, Unwritten, Written
    <3>9. row \in [Rows -> RowRecords] /\ links \in SUBSET Installs
      BY DEF ConnectTypes
    <3> QED BY <1>5, <1>20, <2>1, <3>1, <3>2, <3>3, <3>5, <3>6, <3>8, <3>9
  <2>3. CASE row[r].state # "on"
    <3>1. Answer(f, "error") /\ UNCHANGED <<revoked, disturbed>>
      BY <1>21, <2>3 DEF RevokeStored
    <3>2. f \in disturbed'
      BY <1>20, <2>1, <2>3, <3>1
    <3> QED BY <1>19, <2>1, <3>1, <3>2 DEF stored
  <2> QED BY <2>2, <2>3
<1>22. ASSUME NEW f \in Flows
       PROVE  /\ AfterSave(f) \in ConnectRecords
              /\ provider = "slack" => AfterSave(f).pc = "find"
              /\ provider = "notion" /\ flow[f].scope = "workspace" => AfterSave(f).pc = "promote"
              /\ provider # "slack" /\ ~(provider = "notion" /\ flow[f].scope = "workspace") =>
                   AfterSave(f).pc = "done" /\ AfterSave(f).result = "ok"
              /\ AfterSave(f).user = flow[f].user /\ AfterSave(f).ident = flow[f].ident
              /\ AfterSave(f).scope = flow[f].scope /\ AfterSave(f).row = flow[f].row
  <2>1. CASE provider = "slack"
    <3>1. AfterSave(f) = [flow[f] EXCEPT !.pc = "find"]
      BY <2>1 DEF AfterSave
    <3> QED BY <1>0, <2>1, <3>1 DEF ConnectRecords, ConnectPcs
  <2>2. CASE provider = "notion" /\ flow[f].scope = "workspace"
    <3>1. AfterSave(f) = [flow[f] EXCEPT !.pc = "promote"]
      BY <2>2 DEF AfterSave
    <3> QED BY <1>0, <2>2, <3>1 DEF ConnectRecords, ConnectPcs
  <2>3. CASE provider # "slack" /\ ~(provider = "notion" /\ flow[f].scope = "workspace")
    <3>1. AfterSave(f) = [flow[f] EXCEPT !.pc = "done", !.result = "ok"]
      BY <2>3 DEF AfterSave
    <3> QED BY <1>0, <2>3, <3>1 DEF ConnectRecords, ConnectPcs
  <2> QED BY <2>1, <2>2, <2>3
\* What follows the write of the personal row.
<1>23. ASSUME NEW f \in Flows, NEW t \in ConnectRecords, UNCHANGED rights,
              t.pc = AfterSave(f).pc, t.result = AfterSave(f).result, t.user = flow[f].user,
              t.ident = flow[f].ident, t.scope = flow[f].scope, t.row # NoRow,
              row'[t.row].state = "on", row'[t.row].user = flow[f].user, row'[t.row].ident = flow[f].ident,
              provider = "slack" => flow[f].scope = "workspace"
       PROVE  /\ FlowOk(t)'
              /\ Saved(f, t)' /\ Spread(f, t)'
                   /\ (provider \in {"slack", "notion"} /\ flow[f].scope = "workspace" => right = "ok") => Sound(f, t)'
  <2>1. provider' = provider /\ right' = right
    BY <1>23 DEF rights
  <2>2. t.pc \in {"find", "promote", "done"} /\ (t.pc = "find" => provider = "slack")
        /\ (t.pc = "promote" => provider = "notion" /\ t.scope = "workspace")
    BY <1>22, <1>23
  <2>3. t.pc = "done" => /\ t.result = "ok" /\ provider # "slack" /\ ~(provider = "notion" /\ t.scope = "workspace")
    BY <1>22, <1>23
  <2>4. FlowOk(t)'
    BY <1>23, <2>1, <2>2 DEF FlowOk, Unmatched, Written
  <2>5. Saved(f, t)' /\ Spread(f, t)' /\ (provider \in {"slack", "notion"} /\ flow[f].scope = "workspace" => right = "ok")
          => Sound(f, t)'
    BY <1>23, <2>1, <2>2, <2>3 DEF Sound, Unmatched, Unwritten, Written
  <2> QED BY <2>4, <2>5
<1>24. ASSUME NEW f \in Flows, flow[f].pc = "store"
       PROVE  /\ (provider = "slack" => flow[f].scope = "workspace") /\ f \notin revoked
              /\ \A s \in Rows : row[s].cred # f
              /\ f \notin disturbed =>
                   /\ flow[f].row # NoRow => row[flow[f].row].state = "on"
                   /\ provider \in {"slack", "notion"} /\ flow[f].scope = "workspace" => right = "ok"
  <2>1. FlowOk(flow[f]) /\ (f \notin disturbed => Sound(f, flow[f])) /\ CredsInv
    BY <1>1 DEF ConnectInv
  <2> QED BY <1>24, <2>1 DEF FlowOk, Sound, Unmatched, Unwritten, CredsInv
<1>25. ASSUME NEW f \in Flows, StoreAuthorization(f)
       PROVE  ConnectTypes' /\ ConnectInv'
  <2>1. flow[f].pc = "store" /\ UNCHANGED <<rights, links, revoked>>
    BY <1>25 DEF StoreAuthorization, In
  <2>2. links \in SUBSET Installs /\ revoked \in SUBSET Grants /\ f \in Grants
        /\ provider' = provider /\ right' = right /\ links' = links /\ revoked' = revoked
    BY <2>1 DEF ConnectTypes, Grants, rights
  <2>3. ASSUME NEW r \in Rows, flow[f].row = NoRow, row[r].state = "free",
               row' = [row EXCEPT ![r] = [state |-> "on", user |-> flow[f].user, ident |-> flow[f].ident, cred |-> f]],
               flow' = [flow EXCEPT ![f] = [AfterSave(f) EXCEPT !.row = r]], Interferes(f)
        PROVE  ConnectTypes' /\ ConnectInv'
    <3> DEFINE n == [state |-> "on", user |-> flow[f].user, ident |-> flow[f].ident, cred |-> f]
               v == [AfterSave(f) EXCEPT !.row = r]
    <3>1. flow' = [flow EXCEPT ![f] = v] /\ row' = [row EXCEPT ![r] = n]
      BY <2>3
    <3>2. n \in RowRecords /\ n.state = "on" /\ n.user = flow[f].user /\ n.ident = flow[f].ident /\ n.cred = f
      BY <1>1, <2>2 DEF RowRecords
    <3>3. /\ v \in ConnectRecords /\ v.row = r /\ v.pc = AfterSave(f).pc /\ v.result = AfterSave(f).result
          /\ v.user = flow[f].user /\ v.ident = flow[f].ident /\ v.scope = flow[f].scope
      <4> HIDE DEF AfterSave
      <4> QED BY <1>22 DEF ConnectRecords
    <3> HIDE DEF n, v
    <3>t. PICK t \in ConnectRecords : /\ flow' = [flow EXCEPT ![f] = t]
                                        /\ t.row = r /\ t.pc = AfterSave(f).pc /\ t.result = AfterSave(f).result
                                        /\ t.user = flow[f].user /\ t.ident = flow[f].ident /\ t.scope = flow[f].scope
      BY <3>1, <3>3
    <3>4. row' \in [Rows -> RowRecords] /\ row'[r] = n /\ \A s \in Rows \ {r} : row'[s] = row[s]
      BY <3>1, <3>t, <3>2 DEF ConnectTypes
    <3>5. t.pc \in {"find", "promote", "done"}
      BY <1>22, <3>t
    <3>6. \A l \in links : l.source # r
      BY <1>0, <2>3 DEF ConnectInv, CredsInv
    <3>7. CredsInv'
      <4>1. flow'[f] = t /\ \A c \in Flows \ {f} : flow'[c] = flow[c]
        BY <1>2, <3>1, <3>t
      <4>2. \A s \in Rows \ {r} : row[s].cred \in Flows => row[s].cred # f
        BY <1>24, <2>1
      <4>3. t.pc \notin Unwritten
        BY <3>5 DEF Unwritten, Unmatched
      <4>4. \A l \in links : l.source # NoRow => l.source \in Rows \ {r}
        BY <2>2, <3>6 DEF Installs
      <4> QED BY <1>24, <2>1, <2>2, <3>2, <3>t, <3>4, <4>1, <4>2, <4>3, <4>4 DEF ConnectInv, CredsInv
    <3>8. /\ t.row # NoRow /\ row'[t.row].state = "on" /\ row'[t.row].user = flow[f].user
          /\ row'[t.row].ident = flow[f].ident /\ row'[t.row].cred = f
      BY <1>0, <3>2, <3>t, <3>4
    <3>9. Saved(f, t)' /\ Spread(f, t)'
      BY <1>24, <2>1, <2>2, <3>t, <3>6, <3>8 DEF Saved, Spread
    <3>10. FlowOk(t)' /\ (f \notin disturbed => Sound(f, t)')
      BY <1>23, <1>24, <2>1, <3>t, <3>8, <3>9
    <3>11. disturbed \subseteq disturbed'
      BY <2>3 DEF Interferes
    <3> QED BY <1>5, <2>1, <2>2, <2>3, <3>2, <3>t, <3>4, <3>7, <3>10, <3>11
  <2>4. ASSUME flow[f].row # NoRow, row[flow[f].row].state = "on", row' = [row EXCEPT ![flow[f].row].cred = f],
               flow' = [flow EXCEPT ![f] = IF provider = "slack" THEN AfterSave(f) ELSE [@ EXCEPT !.pc = "spread"]],
               Interferes(f)
        PROVE  ConnectTypes' /\ ConnectInv'
    <3> PICK r \in Rows : r = flow[f].row
      BY <1>1, <2>4
    <3> DEFINE n == [row[r] EXCEPT !.cred = f]
               v == IF provider = "slack" THEN AfterSave(f) ELSE [flow[f] EXCEPT !.pc = "spread"]
    <3>1. flow' = [flow EXCEPT ![f] = v] /\ row' = [row EXCEPT ![r] = n]
      BY <2>4 DEF ConnectTypes
    <3>2. /\ n \in RowRecords /\ n.state = "on" /\ n.user = flow[f].user /\ n.ident = flow[f].ident /\ n.cred = f
          /\ row[r].user = flow[f].user /\ row[r].ident = flow[f].ident
      <4>1. row[r] \in RowRecords /\ row[r].state = "on" /\ row[r].user = flow[f].user /\ row[r].ident = flow[f].ident
        BY <1>0, <1>1, <2>4 DEF FlowOk
      <4> QED BY <2>2, <4>1 DEF RowRecords
    <3>3. /\ v \in ConnectRecords /\ v.row = r
          /\ v.user = flow[f].user /\ v.ident = flow[f].ident /\ v.scope = flow[f].scope
          /\ (provider = "slack" => v.pc = AfterSave(f).pc /\ v.result = AfterSave(f).result)
          /\ (provider # "slack" => v.pc = "spread")
      <4>1. CASE provider = "slack"
        <5>1. v = AfterSave(f)
          BY <4>1
        <5> HIDE DEF v
        <5> QED BY <1>22, <4>1, <5>1
      <4>2. CASE provider # "slack"
        <5>1. v = [flow[f] EXCEPT !.pc = "spread"]
          BY <4>2
        <5> HIDE DEF v
        <5> QED BY <1>0, <4>2, <5>1 DEF ConnectRecords, ConnectPcs
      <4> QED BY <4>1, <4>2
    <3> HIDE DEF n, v
    <3>t. PICK t \in ConnectRecords : /\ flow' = [flow EXCEPT ![f] = t]
                                        /\ t.row = r /\ t.user = flow[f].user /\ t.ident = flow[f].ident
                                        /\ t.scope = flow[f].scope
                                        /\ (provider = "slack" => t.pc = AfterSave(f).pc /\ t.result = AfterSave(f).result)
                                        /\ (provider # "slack" => t.pc = "spread")
      BY <3>1, <3>3
    <3>4. row' \in [Rows -> RowRecords] /\ row'[r] = n /\ \A s \in Rows \ {r} : row'[s] = row[s]
      BY <3>1, <3>t, <3>2 DEF ConnectTypes
    <3>5. t.pc \in {"find", "spread"}
      BY <1>22, <3>t
    <3>6. CredsInv'
      <4>1. flow'[f] = t /\ \A c \in Flows \ {f} : flow'[c] = flow[c]
        BY <1>2, <3>1, <3>t
      <4>2. \A s \in Rows \ {r} : row[s].cred \in Flows => row[s].cred # f
        BY <1>24, <2>1
      <4>3. t.pc \notin Unwritten
        BY <3>5 DEF Unwritten, Unmatched
      <4>4. \A l \in links : l.source # NoRow => l.source \in Rows
        BY <2>2 DEF Installs
      <4> QED BY <1>24, <2>1, <2>2, <3>2, <3>t, <3>4, <4>1, <4>2, <4>3, <4>4 DEF ConnectInv, CredsInv
    <3>7. /\ t.row # NoRow /\ row'[t.row].state = "on" /\ row'[t.row].user = flow[f].user
          /\ row'[t.row].ident = flow[f].ident /\ row'[t.row].cred = f
      BY <1>0, <3>2, <3>t, <3>4
    <3>8. Saved(f, t)'
      BY <1>24, <2>1, <2>2, <3>t, <3>7 DEF Saved
    <3>9. FlowOk(t)' /\ (f \notin disturbed => Sound(f, t)')
      BY <1>24, <2>1, <2>2, <3>t, <3>5, <3>7, <3>8, <1>22 DEF FlowOk, Sound, Unmatched, Unwritten, Written
    <3>10. disturbed \subseteq disturbed'
      BY <2>4 DEF Interferes
    <3>11. /\ row'[r].user = flow[f].user /\ row'[r].ident = flow[f].ident /\ row'[r].state # "free"
           /\ row'[r].user = row[r].user /\ row'[r].ident = row[r].ident
      BY <3>2, <3>4
    <3> QED BY <1>5, <2>1, <2>2, <2>4, <3>t, <3>4, <3>6, <3>9, <3>10, <3>11
  <2>5. CASE flow[f].row # NoRow /\ row[flow[f].row].state # "on" /\ Answer(f, "error") /\ UNCHANGED <<row, disturbed>>
    <3>1. f \in disturbed'
      BY <1>24, <2>1, <2>5
    <3> QED BY <1>19, <2>1, <2>5, <3>1 DEF stored
  <2> QED BY <1>25, <2>3, <2>4, <2>5 DEF StoreAuthorization
\* A flow after its write, and the writes of the connections.
<1>26. ASSUME NEW f \in Flows, flow[f].pc \in Written
       PROVE  /\ flow[f].row \in Rows /\ row[flow[f].row].state # "free"
              /\ row[flow[f].row].user = flow[f].user /\ row[flow[f].row].ident = flow[f].ident
              /\ (provider = "slack" => flow[f].scope = "workspace")
              /\ (flow[f].pc \in {"find", "write"} => provider = "slack") /\ (flow[f].pc = "spread" => provider # "slack")
              /\ (flow[f].pc = "promote" => provider = "notion" /\ flow[f].scope = "workspace")
              /\ f \notin disturbed =>
                   /\ Saved(f, flow[f]) /\ (flow[f].pc = "promote" => Spread(f, flow[f]))
                   /\ (flow[f].pc = "write" => (flow[f].found <=> links # {}))
                   /\ (provider \in {"slack", "notion"} /\ flow[f].scope = "workspace" => right = "ok")
  <2>1. FlowOk(flow[f]) /\ (f \notin disturbed => Sound(f, flow[f])) /\ flow[f].row \in Rows \cup {NoRow}
        /\ flow[f].pc \notin {"idle", "away", "permit", "done"}
    BY <1>1, <1>26 DEF Written
  <2> QED BY <1>26, <2>1 DEF FlowOk, Sound
<1>27. ASSUME NEW f \in Flows, NEW t \in ConnectRecords, flow' = [flow EXCEPT ![f] = t], flow[f].pc \in Written,
              UNCHANGED <<rights, row, revoked>>, Interferes(f), links' \in SUBSET Installs,
              \A l \in links' : \/ l \in links \/ l.source = flow[f].row
                                \/ provider = "slack" /\ \E k \in links : l.source = k.source,
              \A l \in links : /\ provider # "slack" /\ l.source # flow[f].row => l \in links'
                               /\ \E k \in links' : k.made = l.made,
              \A l \in links' : l.source = flow[f].row => row[flow[f].row].state = "on",
              t.user = flow[f].user, t.ident = flow[f].ident, t.row = flow[f].row,
              t.pc \in {"promote", "done"},
              t.pc = "promote" => provider = "notion" /\ t.scope = "workspace",
              f \notin disturbed => Sound(f, t)'
       PROVE  ConnectTypes' /\ ConnectInv'
  <2> PICK r : r = flow[f].row
    OBVIOUS
  <2>1. provider' = provider /\ row' = row /\ revoked' = revoked
    BY <1>27 DEF rights
  <2>2. r \in Rows /\ row[r].state # "free" /\ row[r].user = flow[f].user /\ row[r].ident = flow[f].ident
    BY <1>26, <1>27
  <2>3. FlowOk(t)'
    BY <1>0, <1>27, <2>1, <2>2 DEF FlowOk, Unmatched, Written
  <2>4. flow'[f] = t /\ \A c \in Flows \ {f} : flow'[c] = flow[c]
    BY <1>2, <1>27
  <2>5. CredsInv'
    <3>1. t.pc \notin Unwritten
      BY <1>27 DEF Unwritten, Unmatched
    <3>2. \A c \in Flows : flow[c].pc \notin Unwritten => flow'[c].pc \notin Unwritten /\ flow'[c].row = flow[c].row
      BY <1>27, <2>4, <3>1
    <3>3. \A l \in links' : l.source # NoRow => row[l.source].state = "on"
      BY <1>27 DEF ConnectInv, CredsInv
    <3> QED BY <2>1, <3>2, <3>3 DEF ConnectInv, CredsInv
  <2>6. provider # "slack" => \A l : l.source # r => (l \in links <=> l \in links')
    BY <1>27
  <2>7. disturbed \subseteq disturbed' /\ row \in [Rows -> RowRecords] /\ revoked \in SUBSET Grants
    BY <1>27 DEF Interferes, ConnectTypes
  <2>8. UNCHANGED rights
    BY <1>27
  <2> QED BY <1>5, <1>27, <2>1, <2>2, <2>3, <2>5, <2>6, <2>7, <2>8
<1>28. ASSUME NEW f \in Flows, SpreadGrant(f)
       PROVE  ConnectTypes' /\ ConnectInv'
  <2> PICK r : r = flow[f].row
    OBVIOUS
  <2>1. /\ flow[f].pc = "spread" /\ UNCHANGED <<rights, row, revoked>> /\ Interferes(f)
        /\ links' = {IF l.source = r THEN [l EXCEPT !.cred = f] ELSE l : l \in links}
        /\ flow' = [flow EXCEPT ![f] = AfterSave(f)]
    BY <1>28 DEF SpreadGrant, In
  <2>2. flow[f].pc \in Written
    BY <2>1 DEF Written
  <2>3. ASSUME NEW l \in links
        PROVE  /\ [l EXCEPT !.cred = f] \in Installs /\ [l EXCEPT !.cred = f].source = l.source
               /\ [l EXCEPT !.cred = f].made = l.made /\ [l EXCEPT !.cred = f].cred = f
    <3>1. l \in Installs
      BY DEF ConnectTypes
    <3> QED BY <3>1 DEF Installs, Grants
  <2>4. \A l \in links' : l \in links \/ (l.source = r /\ l.cred = f /\ l \in Installs
                                          /\ \E k \in links : k.source = r)
    BY <2>1, <2>3
  <2>5. \A l \in links : (l.source # r => l \in links') /\ \E k \in links' : k.made = l.made
    BY <2>1, <2>3
  <2>6. \A l \in links' : l.source = r => l.cred = f
    BY <2>1, <2>3
  <2>7. links' \in SUBSET Installs
    BY <2>4 DEF ConnectTypes
  <2>8. \A l \in links' : l.source = r => row[r].state = "on"
    <3>1. r \in Rows
      BY <1>26, <2>2
    <3> QED BY <1>0, <2>4, <3>1 DEF ConnectInv, CredsInv
  <2>9. PICK t \in ConnectRecords : /\ t = AfterSave(f) /\ t.pc = AfterSave(f).pc /\ t.result = AfterSave(f).result
                                    /\ t.user = flow[f].user /\ t.ident = flow[f].ident /\ t.scope = flow[f].scope
                                    /\ t.row = r
    BY <1>22
  <2>10. provider # "slack" /\ r \in Rows /\ r # NoRow /\ row[r].user = flow[f].user /\ row[r].ident = flow[f].ident
         /\ (f \notin disturbed => Saved(f, flow[f])
                /\ (provider \in {"slack", "notion"} /\ flow[f].scope = "workspace" => right = "ok"))
    BY <1>0, <1>26, <2>1, <2>2
  <2>11. f \notin disturbed => Saved(f, t)' /\ Spread(f, t)' /\ row'[t.row].state = "on"
    BY <2>1, <2>6, <2>9, <2>10 DEF Saved, Spread
  <2>12. f \notin disturbed => Sound(f, t)'
    BY <1>23, <2>1, <2>9, <2>10, <2>11
  <2>13. t.pc \in {"promote", "done"} /\ (t.pc = "promote" => provider = "notion" /\ t.scope = "workspace")
    BY <1>22, <2>9, <2>10
  <2> QED BY <1>27, <2>1, <2>2, <2>4, <2>5, <2>7, <2>8, <2>9, <2>12, <2>13
<1>29. ASSUME NEW f \in Flows, FindInstall(f)
       PROVE  ConnectTypes' /\ ConnectInv'
  <2>1. flow[f].pc = "find" /\ UNCHANGED <<rights, stored, disturbed>> /\ flow[f].pc \in Written
    BY <1>29 DEF FindInstall, In, Written
  <2>2. CASE right = "none"
    <3>1. Answer(f, "error")
      BY <1>29, <2>2 DEF FindInstall
    <3>2. f \in disturbed'
      BY <1>26, <2>1, <2>2
    <3> QED BY <1>19, <2>1, <3>1, <3>2
  <2>3. CASE right # "none"
    <3> DEFINE v == [flow[f] EXCEPT !.pc = "write", !.found = links # {}]
    <3>1. flow' = [flow EXCEPT ![f] = v]
      BY <1>29, <2>3 DEF FindInstall, ConnectTypes
    <3>2. /\ v \in ConnectRecords /\ v.pc = "write" /\ (v.found <=> links # {}) /\ v.user = flow[f].user
          /\ v.ident = flow[f].ident /\ v.row = flow[f].row /\ v.scope = flow[f].scope
      BY <1>0 DEF ConnectRecords, ConnectPcs
    <3> HIDE DEF v
    <3>3. FlowOk(v)
      BY <1>0, <1>26, <2>1, <3>2 DEF FlowOk, Unmatched, Written
    <3>4. f \notin disturbed => Sound(f, v)
      BY <1>26, <2>1, <3>2 DEF Sound, Saved, Unmatched, Unwritten, Written
    <3>5. disturbed' \subseteq Flows /\ disturbed' = disturbed
      BY <2>1 DEF ConnectTypes
    <3>6. v.pc \notin Unwritten
      BY <3>2 DEF Unwritten, Unmatched
    <3> QED BY <1>4, <2>1, <3>1, <3>2, <3>3, <3>4, <3>5, <3>6
  <2> QED BY <2>2, <2>3
<1>30. ASSUME NEW f \in Flows, NEW r \in {"ok", "error"}, flow[f].pc \in Written, Answer(f, r)
       PROVE  \E t \in ConnectRecords :
                /\ flow' = [flow EXCEPT ![f] = t] /\ t.pc = "done" /\ t.result = r /\ t.user = flow[f].user
                /\ t.scope = flow[f].scope /\ t.ident = flow[f].ident /\ t.row = flow[f].row
                /\ t.pc \notin Unwritten /\ FlowOk(t)
  <2>1. PICK t \in ConnectRecords :
          /\ flow' = [flow EXCEPT ![f] = t] /\ t.pc = "done" /\ t.result = r /\ t.user = flow[f].user
          /\ t.scope = flow[f].scope /\ t.ident = flow[f].ident /\ t.row = flow[f].row
    BY <1>7, <1>30
  <2>2. t.pc \notin Unwritten /\ FlowOk(t)
    BY <1>26, <1>30, <2>1 DEF FlowOk, Unwritten, Unmatched, Written
  <2> QED BY <2>1, <2>2
<1>31. ASSUME NEW f \in Flows, WriteInstall(f)
       PROVE  ConnectTypes' /\ ConnectInv'
  <2> PICK r : r = flow[f].row
    OBVIOUS
  <2>1. flow[f].pc = "write" /\ UNCHANGED <<rights, row, revoked>> /\ flow[f].pc \in Written
        /\ provider' = provider /\ row' = row /\ revoked' = revoked /\ links \in SUBSET Installs /\ f \in Grants
    BY <1>31 DEF WriteInstall, In, Written, rights, ConnectTypes, Grants
  <2>2. provider = "slack" /\ r \in Rows
        /\ (f \notin disturbed => Saved(f, flow[f]) /\ (flow[f].found <=> links # {}))
    BY <1>26, <2>1
  <2>3. ASSUME flow[f].found, \E l \in links : l.source # NoRow, links' = {[l EXCEPT !.cred = f] : l \in links},
               Answer(f, "ok"), Interferes(f)
        PROVE  ConnectTypes' /\ ConnectInv'
    <3>1. PICK t \in ConnectRecords :
            /\ flow' = [flow EXCEPT ![f] = t] /\ t.pc = "done" /\ t.result = "ok" /\ t.user = flow[f].user
            /\ t.scope = flow[f].scope /\ t.ident = flow[f].ident /\ t.row = flow[f].row
      BY <1>30, <2>1, <2>3
    <3>2. ASSUME NEW l \in links
          PROVE  /\ [l EXCEPT !.cred = f] \in Installs /\ [l EXCEPT !.cred = f].source = l.source
                 /\ [l EXCEPT !.cred = f].made = l.made /\ [l EXCEPT !.cred = f].cred = f
      <4>1. l \in Installs
        BY <2>1
      <4> QED BY <2>1, <4>1 DEF Installs
    <3>3. ASSUME NEW l \in links'
          PROVE  l \in Installs /\ l.cred = f /\ \E k \in links : k.source = l.source
      <4> PICK k \in links : l = [k EXCEPT !.cred = f]
        BY <2>3
      <4> QED BY <3>2
    <3>0. \A l \in links : [l EXCEPT !.cred = f] \in links'
      BY <2>3
    <3>4. ASSUME NEW l \in links
          PROVE  \E k \in links' : k.made = l.made
      BY <3>0, <3>2
    <3>5. \A l \in links' : l.source = r => row[r].state = "on"
      BY <1>0, <2>2, <3>3 DEF ConnectInv, CredsInv
    <3>6. \E l \in links' : l.cred = f
      BY <2>3, <3>0, <3>3
    <3>7. f \notin disturbed => Sound(f, t)'
      BY <2>1, <2>2, <3>1, <3>6 DEF Sound, Saved, Unmatched, Unwritten, Written
    <3>8. links' \in SUBSET Installs
      BY <3>3
    <3> QED BY <1>27, <2>1, <2>2, <2>3, <3>1, <3>3, <3>4, <3>5, <3>7, <3>8
  <2>4. ASSUME links = {}, row[r].state = "on", links' = {[source |-> r, made |-> r, cred |-> f]},
               Answer(f, "ok"), Interferes(f)
        PROVE  ConnectTypes' /\ ConnectInv'
    <3>1. PICK t \in ConnectRecords :
            /\ flow' = [flow EXCEPT ![f] = t] /\ t.pc = "done" /\ t.result = "ok" /\ t.user = flow[f].user
            /\ t.scope = flow[f].scope /\ t.ident = flow[f].ident /\ t.row = flow[f].row
      BY <1>30, <2>1, <2>4
    <3>2. links' \in SUBSET Installs /\ (\E l \in links' : l.cred = f) /\ \A l \in links' : l.source = r
      BY <2>1, <2>2, <2>4 DEF Installs
    <3>3. f \notin disturbed => Sound(f, t)'
      BY <2>1, <2>2, <3>1, <3>2 DEF Sound, Saved, Unmatched, Unwritten, Written
    <3> QED BY <1>27, <2>1, <2>2, <2>4, <3>1, <3>2, <3>3
  <2>5. ASSUME IF flow[f].found THEN \A l \in links : l.source = NoRow ELSE links # {} \/ row[r].state # "on",
               Answer(f, "error"), UNCHANGED <<links, disturbed>>
        PROVE  ConnectTypes' /\ ConnectInv'
    <3>1. PICK t \in ConnectRecords :
            /\ flow' = [flow EXCEPT ![f] = t] /\ t.pc = "done" /\ t.result = "error" /\ t.row = flow[f].row
            /\ t.pc \notin Unwritten /\ FlowOk(t)
      BY <1>30, <2>1, <2>5
    <3>2. f \notin disturbed => \E l \in links : l.source = NoRow
      BY <2>2, <2>5 DEF Saved
    <3>3. f \notin disturbed => Sound(f, t)
      BY <2>2, <3>1, <3>2 DEF Sound, Saved, Unmatched, Unwritten, Written
    <3>4. disturbed' \subseteq Flows
      BY <2>5 DEF ConnectTypes
    <3> QED BY <1>4, <2>1, <2>5, <3>1, <3>3, <3>4 DEF stored
  <2> QED BY <1>31, <2>3, <2>4, <2>5 DEF WriteInstall
<1>32. ASSUME NEW f \in Flows, PromoteNotion(f)
       PROVE  ConnectTypes' /\ ConnectInv'
  <2> PICK r : r = flow[f].row
    OBVIOUS
  <2>1. flow[f].pc = "promote" /\ UNCHANGED <<rights, row, revoked>> /\ flow[f].pc \in Written
        /\ provider' = provider /\ row' = row /\ revoked' = revoked /\ links \in SUBSET Installs
    BY <1>32 DEF PromoteNotion, In, Written, rights, ConnectTypes
  <2>2. provider = "notion" /\ flow[f].scope = "workspace" /\ r \in Rows
        /\ (f \notin disturbed => Saved(f, flow[f]) /\ Spread(f, flow[f]) /\ right = "ok")
    BY <1>26, <2>1
  <2>3. ASSUME row[r].state = "on", links' = links \cup {[source |-> r, made |-> r, cred |-> row[r].cred]},
               Answer(f, "ok"), Interferes(f)
        PROVE  ConnectTypes' /\ ConnectInv'
    <3>1. PICK t \in ConnectRecords :
            /\ flow' = [flow EXCEPT ![f] = t] /\ t.pc = "done" /\ t.result = "ok" /\ t.user = flow[f].user
            /\ t.scope = flow[f].scope /\ t.ident = flow[f].ident /\ t.row = flow[f].row
      BY <1>30, <2>1, <2>3
    <3>2. row[r].cred \in Grants
      BY <1>0, <2>2 DEF RowRecords
    <3>3. links' \in SUBSET Installs /\ (\E l \in links' : l.source = r) /\ (\A l \in links' : l \in links \/ l.source = r)
          /\ (\A l \in links : l \in links')
      <4> DEFINE n == [source |-> r, made |-> r, cred |-> row[r].cred]
      <4>1. n \in Installs /\ n.source = r
        BY <2>2, <3>2 DEF Installs
      <4>2. links' = links \cup {n}
        BY <2>3
      <4> HIDE DEF n
      <4> QED BY <2>1, <4>1, <4>2
    <3>4. f \notin disturbed => \A l \in links' : l.source = r => l.cred = f
      BY <2>2, <2>3 DEF Spread, Saved
    <3>5. f \notin disturbed => Sound(f, t)'
      BY <2>1, <2>2, <3>1, <3>3, <3>4 DEF Sound, Saved, Spread, Unmatched, Unwritten, Written
    <3> QED BY <1>27, <2>1, <2>2, <2>3, <3>1, <3>3, <3>5
  <2>4. ASSUME ~(right # "none" /\ row[r].state = "on" /\ ~\E l \in links : l.made = r),
               Answer(f, "error"), UNCHANGED <<links, disturbed>>
        PROVE  ConnectTypes' /\ ConnectInv'
    <3>1. PICK t \in ConnectRecords :
            /\ flow' = [flow EXCEPT ![f] = t] /\ t.pc = "done" /\ t.result = "error" /\ t.row = flow[f].row
            /\ t.scope = flow[f].scope /\ t.pc \notin Unwritten /\ FlowOk(t)
      BY <1>30, <2>1, <2>4
    <3>2. f \notin disturbed => \E l \in links : l.made = r
      BY <2>2, <2>4 DEF Saved
    <3>3. f \notin disturbed => Sound(f, t)
      BY <2>2, <3>1, <3>2 DEF Sound, Saved, Spread, Unmatched, Unwritten, Written
    <3>4. disturbed' \subseteq Flows
      BY <2>4 DEF ConnectTypes
    <3> QED BY <1>4, <2>1, <2>4, <3>1, <3>3, <3>4 DEF stored
  <2> QED BY <1>32, <2>3, <2>4 DEF PromoteNotion
\* What happens outside the flows.
<1>33. ASSUME Disturb(Flows), UNCHANGED <<flow, provider, stored>>, signedIn' = signedIn
       PROVE  ConnectTypes' /\ ConnectInv'
  <2>1. row' = row /\ links' = links /\ revoked' = revoked /\ flow' = flow /\ provider' = provider
    BY <1>33 DEF stored
  <2>2. CredsInv'
    BY <2>1 DEF ConnectInv, CredsInv
  <2>3. signedIn' \in People /\ row' \in [Rows -> RowRecords] /\ links' \in SUBSET Installs /\ revoked' \in SUBSET Grants
    BY <1>33, <2>1 DEF ConnectTypes
  <2> QED BY <1>6, <1>33, <2>1, <2>2, <2>3
<1>34. ASSUME NEW r \in Rows, DropRow(r), Disturb(Flows), UNCHANGED <<rights, flow>>,
              revoked' \subseteq revoked \cup {row[r].cred}
       PROVE  ConnectTypes' /\ ConnectInv'
  <2>1. /\ row' = [row EXCEPT ![r].state = "gone"]
        /\ links' = {IF l.source = r THEN [l EXCEPT !.source = NoRow] ELSE l : l \in links}
        /\ UNCHANGED <<flow, provider, signedIn>>
    BY <1>34 DEF DropRow, rights
  <2>2. /\ row' \in [Rows -> RowRecords] /\ row'[r].state = "gone"
        /\ row'[r].user = row[r].user /\ row'[r].ident = row[r].ident /\ row'[r].cred = row[r].cred
        /\ \A s \in Rows \ {r} : row'[s] = row[s]
    <3> DEFINE n == [row[r] EXCEPT !.state = "gone"]
    <3>1. row' = [row EXCEPT ![r] = n]
      BY <2>1 DEF ConnectTypes
    <3>2. n \in RowRecords /\ n.state = "gone" /\ n.user = row[r].user /\ n.ident = row[r].ident /\ n.cred = row[r].cred
      BY <1>0 DEF RowRecords
    <3> HIDE DEF n
    <3> QED BY <3>1, <3>2 DEF ConnectTypes
  <2>3. ASSUME NEW l \in links'
        PROVE  l \in Installs /\ (l.source # NoRow => l.source # r /\ l \in links)
    <3> PICK k \in links : l = IF k.source = r THEN [k EXCEPT !.source = NoRow] ELSE k
      BY <2>1
    <3>1. k \in Installs
      BY DEF ConnectTypes
    <3> QED BY <3>1 DEF Installs
  <2>4. links' \in SUBSET Installs
    BY <2>3
  <2>5. revoked' \in SUBSET Grants
    BY <1>0, <1>34 DEF ConnectTypes, RowRecords
  <2>6. CredsInv'
    <3>1. \A s \in Rows : row'[s].cred = row[s].cred
      BY <2>2
    <3>2. \A f \in Flows : f \in revoked' => flow[f].pc \notin Unwritten
      BY <1>34 DEF ConnectInv, CredsInv
    <3>3. \A l \in links' : l.source # NoRow => row'[l.source].state = "on"
      <4>1. \A l \in links' : l.source # NoRow => l.source \in Rows
        BY <2>3 DEF Installs
      <4> QED BY <2>2, <2>3, <4>1 DEF ConnectInv, CredsInv
    <3>4. \A s \in Rows : row[s].cred \in Flows => flow[row[s].cred].row = s /\ flow[row[s].cred].pc \notin Unwritten
      BY DEF ConnectInv, CredsInv
    <3> QED BY <2>1, <3>1, <3>2, <3>3, <3>4 DEF CredsInv
  <2>7. signedIn' \in People
    BY <2>1 DEF ConnectTypes
  <2> QED BY <1>6, <1>34, <2>1, <2>2, <2>4, <2>5, <2>6, <2>7
<1>35. ASSUME NEW r \in Rows, DisconnectConnection(r) \/ RevokeConnection(r)
       PROVE  ConnectTypes' /\ ConnectInv'
  <2>1. /\ Disturb(Flows) /\ DropRow(r) /\ UNCHANGED <<rights, flow>>
        /\ revoked' \in {revoked, revoked \cup {row[r].cred}}
    BY <1>35 DEF DisconnectConnection, RevokeConnection, RevokeProviderToken
  <2> QED BY <1>34, <2>1
<1>36. ASSUME NEW n \in {"none", "viewer", "solo", "ok"}, NEW a \in {"solo", "paid"}, RightsChange(n, a)
       PROVE  ConnectTypes' /\ ConnectInv'
  BY <1>33, <1>36 DEF RightsChange
<1>37. ASSUME NEW l \in links, RemoveLink(l)
       PROVE  ConnectTypes' /\ ConnectInv'
  <2>1. /\ Disturb(Flows) /\ links' = links \ {l} /\ row' = row /\ revoked' = revoked /\ flow' = flow
        /\ UNCHANGED <<provider, signedIn>>
    BY <1>37 DEF RemoveLink, rights
  <2>2. CredsInv'
    BY <2>1 DEF ConnectInv, CredsInv
  <2>3. signedIn' \in People /\ row' \in [Rows -> RowRecords] /\ links' \in SUBSET Installs /\ revoked' \in SUBSET Grants
    BY <2>1 DEF ConnectTypes
  <2> QED BY <1>6, <2>1, <2>2, <2>3
<1>38. ASSUME NEW f \in Flows, FlowFails(f)
       PROVE  ConnectTypes' /\ ConnectInv'
  <2>1. flow[f].pc # "idle" /\ disturbed' = disturbed \cup {f} /\ Answer(f, "error") /\ UNCHANGED <<rights, stored>>
    BY <1>38 DEF FlowFails, Disturb, In
  <2> QED BY <1>19, <2>1
<1>39. ASSUME UNCHANGED <<provider, right, stored, flow, disturbed>>, signedIn' \in People
       PROVE  ConnectTypes' /\ ConnectInv'
  <2>1. /\ row' = row /\ links' = links /\ revoked' = revoked /\ flow' = flow /\ provider' = provider
        /\ right' = right /\ disturbed' = disturbed
    BY <1>39 DEF stored
  <2>2. ConnectTypes'
    BY <1>39, <2>1 DEF ConnectTypes
  <2>3. CredsInv'
    BY <2>1 DEF ConnectInv, CredsInv
  <2>4. ASSUME NEW g \in Flows
        PROVE  FlowOk(flow[g])' /\ (g \notin disturbed' => Sound(g, flow[g])')
    BY <1>1, <2>1 DEF FlowOk, Sound, Saved, Spread
  <2> QED BY <2>1, <2>2, <2>3, <2>4 DEF ConnectInv
<1>40. CASE SwitchUser
  <2>1. disturbed' = disturbed /\ signedIn' \in People /\ UNCHANGED <<provider, right, stored, flow>>
    BY <1>40 DEF SwitchUser, Disturb
  <2> QED BY <1>39, <2>1
<1>41. CASE UNCHANGED connectVars
  <2>1. signedIn' \in People /\ UNCHANGED <<provider, right, stored, flow, disturbed>>
    BY <1>41 DEF connectVars, stored, ConnectTypes
  <2> QED BY <1>39, <2>1
<1> QED
  BY <1>11, <1>12, <1>14, <1>15, <1>16, <1>17, <1>18, <1>21, <1>25, <1>28, <1>29, <1>31, <1>32, <1>35, <1>36, <1>37,
     <1>38, <1>40, <1>41
  DEF OAuthConnectNext

(* GrantIsStored: a grant that save_authorization_deduped stores and nothing interferes *)
(* with ends in the account's row, unrevoked, and in the connections the callback of    *)
(* its provider sees to, for any number of flows, rows and accounts and whatever        *)
(* happens to the others.                                                               *)
THEOREM GrantsAreStored == OAuthConnectSpec => []GrantIsStored
<1>1. ConnectTypes /\ ConnectInv => GrantIsStored
  <2> SUFFICES ASSUME ConnectTypes, ConnectInv, NEW f \in Flows, flow[f].pc = "done", flow[f].granted,
                      f \notin disturbed, ~flow[f].unscoped
               PROVE  LET r == flow[f].row
                          kept == /\ row[r].state = "on" /\ row[r].cred = f /\ f \notin revoked
                                  /\ provider # "slack" => \A l \in links : l.source = r => l.cred = f
                      IN \/ flow[f].result = "ok" /\ kept /\ (provider = "slack" => \E l \in links : l.cred = f)
                              /\ (provider = "notion" /\ flow[f].scope = "workspace" => \E l \in links : l.source = r)
                         \/ /\ flow[f].result = "error" /\ kept
                            /\ \/ provider = "slack" /\ \E l \in links : l.source = NoRow
                               \/ provider = "notion" /\ flow[f].scope = "workspace" /\ \E l \in links : l.made = r
    BY DEF GrantIsStored, In
  <2>1. Sound(f, flow[f])
    BY DEF ConnectInv
  <2> QED BY <2>1 DEF Sound, Saved, Spread
<1> QED BY <1>1, ConnectsStart, ConnectStep, PTL DEF OAuthConnectSpec

\* A flow about to insert a row.
Inserting(f) == flow[f].pc = "store" /\ flow[f].row = NoRow

\* Unless two flows raced, no account has two rows, a row and a flow about to insert one, or
\* two such flows.
SoleInv ==
    ~raced =>
      /\ \A r, s \in Rows : r # s /\ row[r].state = "on" /\ row[s].state = "on" /\ row[r].user = row[s].user
                            /\ row[r].ident = row[s].ident => row[r].ident = Unknown
      /\ \A f \in Flows : Inserting(f) /\ flow[f].ident # Unknown =>
           /\ \A r \in Rows : ~(row[r].state = "on" /\ row[r].user = flow[f].user /\ row[r].ident = flow[f].ident)
           /\ \A g \in Flows \ {f} : Inserting(g) => flow[g].user # flow[f].user \/ flow[g].ident # flow[f].ident

LEMMA SoleStart == OAuthConnectInit => SoleInv
<1> SUFFICES ASSUME OAuthConnectInit
             PROVE  SoleInv
  OBVIOUS
<1>1. PICK r \in Rows, i \in Idents, before \in {"nothing", "row", "link", "orphan"} :
        /\ row = [s \in Rows |-> IF s # r \/ before = "nothing" THEN FreeRow
                    ELSE [FreeRow EXCEPT !.state = IF before = "orphan" THEN "gone" ELSE "on", !.ident = i]]
        /\ links = CASE before = "link" -> {[source |-> r, made |-> r, cred |-> First]}
                     [] before = "orphan" -> {[source |-> NoRow, made |-> r, cred |-> First]}
                     [] OTHER -> {}
  BY DEF OAuthConnectInit
<1>2. \A s \in Rows : s # r => row[s].state = "free"
  BY <1>1 DEF FreeRow
<1>3. \A f \in Flows : ~Inserting(f)
  BY DEF OAuthConnectInit, Inserting, NoFlowYet
<1> QED BY <1>2, <1>3 DEF SoleInv

LEMMA SoleStep ==
    ConnectTypes /\ ConnectInv /\ SoleInv /\ [OAuthConnectNext]_connectVars => SoleInv'
<1> SUFFICES ASSUME ConnectTypes, ConnectInv, SoleInv, [OAuthConnectNext]_connectVars
             PROVE  SoleInv'
  OBVIOUS
<1>0. /\ \A f \in Flows : flow[f] \in ConnectRecords /\ FlowOk(flow[f])
      /\ \A r \in Rows : row[r] \in RowRecords
      /\ NoRow \notin Rows
  BY OAuthConnectAssumption DEF ConnectTypes, ConnectInv
\* Most steps neither add a row nor bring a flow to the insertion of one.
<1>1. ASSUME \A r \in Rows : row'[r].state = "on" =>
               row[r].state = "on" /\ row'[r].user = row[r].user /\ row'[r].ident = row[r].ident,
             \A f \in Flows : flow'[f].pc = "store" /\ flow'[f].row = NoRow =>
               Inserting(f) /\ flow'[f].user = flow[f].user /\ flow'[f].ident = flow[f].ident,
             raced => raced'
      PROVE  SoleInv'
  BY <1>1 DEF SoleInv, Inserting
<1>2. ASSUME NEW f \in Flows, NEW t, flow' = [flow EXCEPT ![f] = t], t.pc # "store" \/ t.row # NoRow
      PROVE  \A g \in Flows : flow'[g].pc = "store" /\ flow'[g].row = NoRow =>
               Inserting(g) /\ flow'[g].user = flow[g].user /\ flow'[g].ident = flow[g].ident
  BY <1>2 DEF ConnectTypes, Inserting
<1>3. ASSUME NEW f \in Flows, NEW t, flow' = [flow EXCEPT ![f] = t], t.pc # "store" \/ t.row # NoRow,
             row' = row, raced => raced'
      PROVE  SoleInv'
  BY <1>1, <1>2, <1>3
<1>4. ASSUME NEW f \in Flows, NEW r, Answer(f, r), row' = row, raced' = raced
      PROVE  SoleInv'
  <2> DEFINE t == [flow[f] EXCEPT !.pc = "done", !.result = r]
  <2>1. flow' = [flow EXCEPT ![f] = t]
    BY <1>4 DEF Answer, ConnectTypes
  <2>2. t.pc = "done"
    BY <1>0 DEF ConnectRecords
  <2> HIDE DEF t
  <2> QED BY <1>3, <1>4, <2>1, <2>2
<1>5. ASSUME NEW f \in Flows, NEW p, p # "store", Goto(f, p), row' = row, raced' = raced
      PROVE  SoleInv'
  <2> DEFINE t == [flow[f] EXCEPT !.pc = p]
  <2>1. flow' = [flow EXCEPT ![f] = t]
    BY <1>5 DEF Goto, ConnectTypes
  <2>2. t.pc = p
    BY <1>0 DEF ConnectRecords
  <2> HIDE DEF t
  <2> QED BY <1>3, <1>5, <2>1, <2>2
<1>6. ASSUME NEW f \in Flows, NEW scope, NEW beside, ConnectStart(f, scope, beside)
      PROVE  SoleInv'
  <2>1. row' = row /\ raced' = raced
    BY <1>6 DEF ConnectStart, stored
  <2>2. CASE Answer(f, "error")
    BY <1>4, <2>1, <2>2
  <2>3. CASE ~Answer(f, "error")
    <3> DEFINE t == [NoFlowYet EXCEPT !.pc = "away", !.scope = scope, !.user = signedIn]
    <3>1. flow' = [flow EXCEPT ![f] = t] /\ t.pc = "away"
      BY <1>6, <2>3 DEF ConnectStart, NoFlowYet
    <3> HIDE DEF t
    <3> QED BY <1>3, <2>1, <3>1
  <2> QED BY <2>2, <2>3
<1>7. ASSUME NEW f \in Flows, NEW p \in {"exchange", "permit"}, Return(f, p)
      PROVE  SoleInv'
  <2> DEFINE t == [flow[f] EXCEPT !.pc = p, !.user = signedIn]
  <2>1. flow' = [flow EXCEPT ![f] = t] /\ row' = row /\ raced' = raced
    BY <1>7 DEF Return, ConnectTypes, stored
  <2>2. t.pc = p
    BY <1>0 DEF ConnectRecords
  <2> HIDE DEF t
  <2> QED BY <1>3, <2>1, <2>2
<1>8. ASSUME NEW f \in Flows, RefuseCallback(f) \/ HandleCallback(f) \/ SlackCallback(f) \/ NotionCallback(f)
      PROVE  SoleInv'
  <2>1. CASE \E p \in {"exchange", "permit"} : Return(f, p)
    BY <1>7, <2>1
  <2>2. CASE Answer(f, "error") /\ row' = row /\ raced' = raced
    BY <1>4, <2>2
  <2> QED BY <1>8, <2>1, <2>2 DEF RefuseCallback, HandleCallback, SlackCallback, NotionCallback, stored
<1>9. ASSUME NEW f \in Flows, RecheckPermissions(f)
      PROVE  SoleInv'
  <2>1. row' = row /\ raced' = raced /\ (Goto(f, "exchange") \/ Answer(f, "error"))
    BY <1>9 DEF RecheckPermissions, stored
  <2> QED BY <1>4, <1>5, <2>1
<1>10. ASSUME NEW f \in Flows, NEW i \in Idents, ExchangeCode(f, i)
       PROVE  SoleInv'
  <2>1. row' = row /\ raced' = raced
    BY <1>10 DEF ExchangeCode, stored
  <2>2. CASE Answer(f, "error")
    BY <1>4, <2>1, <2>2
  <2>3. CASE ~Answer(f, "error")
    <3>1. PICK j :
            flow' = [flow EXCEPT ![f] = [[flow[f] EXCEPT !.granted = TRUE, !.ident = j]
                                           EXCEPT !.pc = IF provider = "slack" THEN "scopes" ELSE "match"]]
      BY <1>10, <2>3 DEF ExchangeCode
    <3> DEFINE t == [[flow[f] EXCEPT !.granted = TRUE, !.ident = j]
                       EXCEPT !.pc = IF provider = "slack" THEN "scopes" ELSE "match"]
    <3>2. t.pc # "store" /\ flow' = [flow EXCEPT ![f] = t]
      BY <1>0, <3>1 DEF ConnectRecords
    <3> HIDE DEF t
    <3> QED BY <1>3, <2>1, <3>2
  <2> QED BY <2>2, <2>3
<1>11. ASSUME NEW f \in Flows, ValidateSlackBotScopes(f)
       PROVE  SoleInv'
  <2>1. row' = row /\ raced' = raced
    BY <1>11 DEF ValidateSlackBotScopes, stored
  <2>2. CASE Goto(f, "match")
    BY <1>5, <2>1, <2>2
  <2>3. CASE flow' = [flow EXCEPT ![f].pc = "done", ![f].result = "error", ![f].unscoped = TRUE]
    <3> DEFINE t == [flow[f] EXCEPT !.pc = "done", !.result = "error", !.unscoped = TRUE]
    <3>1. flow' = [flow EXCEPT ![f] = t] /\ t.pc = "done"
      BY <1>0, <2>3 DEF ConnectTypes, ConnectRecords
    <3> HIDE DEF t
    <3> QED BY <1>3, <2>1, <3>1
  <2> QED BY <1>11, <2>2, <2>3 DEF ValidateSlackBotScopes
\* A flow that finds no row of its account comes to the insertion of one: it is the first,
\* or a race.
<1>12. ASSUME NEW f \in Flows, FindMatching(f)
       PROVE  SoleInv'
  <2>1. row' = row /\ flow[f].pc = "match" /\ flow[f].row = NoRow
    BY <1>0, <1>12 DEF FindMatching, stored, In, FlowOk, Unmatched
  <2>2. ASSUME NEW r \in MatchingRows(f), flow' = [flow EXCEPT ![f].pc = "revoke", ![f].row = r], raced' = raced
        PROVE  SoleInv'
    <3> DEFINE t == [flow[f] EXCEPT !.pc = "revoke", !.row = r]
    <3>1. flow' = [flow EXCEPT ![f] = t] /\ t.pc = "revoke"
      BY <1>0, <2>2 DEF ConnectTypes, ConnectRecords
    <3> HIDE DEF t
    <3> QED BY <1>3, <2>1, <2>2, <3>1
  <2>3. ASSUME MatchingRows(f) = {}, Goto(f, "store"),
               raced' = (raced \/ \E g \in Flows \ {f} : /\ In(g, "store") /\ flow[g].row = NoRow
                                                         /\ flow[g].user = flow[f].user
                                                         /\ flow[g].ident = flow[f].ident)
        PROVE  SoleInv'
    <3>1. /\ flow'[f].pc = "store" /\ flow'[f].row = NoRow /\ flow'[f].user = flow[f].user /\ flow'[f].ident = flow[f].ident
          /\ \A g \in Flows \ {f} : flow'[g] = flow[g]
      BY <1>0, <2>1, <2>3 DEF Goto, ConnectTypes, ConnectRecords
    <3>2. flow[f].ident # Unknown =>
            \A r \in Rows : ~(row[r].state = "on" /\ row[r].user = flow[f].user /\ row[r].ident = flow[f].ident)
      BY <2>3 DEF MatchingRows
    <3>3. ~raced' => /\ ~raced
                     /\ \A g \in Flows \ {f} : Inserting(g) => flow[g].user # flow[f].user \/ flow[g].ident # flow[f].ident
      BY <2>3 DEF In, Inserting
    <3>4. \A g \in Flows \ {f} : flow'[g].pc = "store" /\ flow'[g].row = NoRow <=> Inserting(g)
      BY <3>1 DEF Inserting
    <3>5. ASSUME ~raced', NEW g \in Flows, flow'[g].pc = "store", flow'[g].row = NoRow, flow'[g].ident # Unknown
          PROVE  /\ \A r \in Rows : ~(row[r].state = "on" /\ row[r].user = flow'[g].user /\ row[r].ident = flow'[g].ident)
                 /\ \A h \in Flows \ {g} : flow'[h].pc = "store" /\ flow'[h].row = NoRow =>
                      flow'[h].user # flow'[g].user \/ flow'[h].ident # flow'[g].ident
      <4>1. CASE g = f
        BY <3>1, <3>2, <3>3, <3>4, <3>5, <4>1
      <4>2. CASE g # f
        <5>1. Inserting(g) /\ flow'[g] = flow[g] /\ ~raced
          BY <3>1, <3>3, <3>4, <3>5, <4>2
        <5>2. /\ \A r \in Rows : ~(row[r].state = "on" /\ row[r].user = flow[g].user /\ row[r].ident = flow[g].ident)
              /\ \A h \in Flows \ {g} : Inserting(h) => flow[h].user # flow[g].user \/ flow[h].ident # flow[g].ident
          BY <3>5, <5>1 DEF SoleInv
        <5> QED BY <3>1, <3>3, <3>4, <3>5, <4>2, <5>1, <5>2
      <4> QED BY <4>1, <4>2
    <3> QED BY <2>1, <3>3, <3>5 DEF SoleInv, Inserting
  <2> QED BY <1>12, <2>2, <2>3 DEF FindMatching
<1>13. ASSUME NEW f \in Flows, RevokeStored(f)
       PROVE  SoleInv'
  <2>1. row' = row /\ raced' = raced /\ flow[f].pc = "revoke" /\ flow[f].row # NoRow
    BY <1>0, <1>13 DEF RevokeStored, In, FlowOk
  <2>2. CASE Answer(f, "error")
    BY <1>4, <2>1, <2>2
  <2>3. CASE Goto(f, "store")
    <3> DEFINE t == [flow[f] EXCEPT !.pc = "store"]
    <3>1. flow' = [flow EXCEPT ![f] = t] /\ t.row # NoRow
      BY <1>0, <2>1, <2>3 DEF Goto, ConnectTypes, ConnectRecords
    <3> HIDE DEF t
    <3> QED BY <1>3, <2>1, <3>1
  <2> QED BY <1>13, <2>2, <2>3 DEF RevokeStored
<1>14. ASSUME NEW f \in Flows
       PROVE  AfterSave(f).pc \in {"find", "promote", "done"} /\ [AfterSave(f) EXCEPT !.row = NoRow].pc = AfterSave(f).pc
              /\ \A r : [AfterSave(f) EXCEPT !.row = r].pc = AfterSave(f).pc
  BY <1>0 DEF AfterSave, ConnectRecords
<1>15. ASSUME NEW f \in Flows, StoreAuthorization(f)
       PROVE  SoleInv'
  <2>1. flow[f].pc = "store" /\ raced' = raced
    BY <1>15 DEF StoreAuthorization, In
  <2>2. ASSUME NEW r \in Rows, flow[f].row = NoRow, row[r].state = "free",
               row' = [row EXCEPT ![r] = [state |-> "on", user |-> flow[f].user, ident |-> flow[f].ident, cred |-> f]],
               flow' = [flow EXCEPT ![f] = [AfterSave(f) EXCEPT !.row = r]]
        PROVE  SoleInv'
    <3>1. /\ row'[r].state = "on" /\ row'[r].user = flow[f].user /\ row'[r].ident = flow[f].ident
          /\ \A s \in Rows \ {r} : row'[s] = row[s]
      BY <2>2 DEF ConnectTypes
    <3>2. flow'[f].pc # "store" /\ \A g \in Flows \ {f} : flow'[g] = flow[g]
      <4> PICK t : t = [AfterSave(f) EXCEPT !.row = r]
        OBVIOUS
      <4>1. t.pc # "store" /\ flow' = [flow EXCEPT ![f] = t]
        BY <1>14, <2>2
      <4> QED BY <4>1 DEF ConnectTypes
    <3>3. Inserting(f)
      BY <2>1, <2>2 DEF Inserting
    <3>4. ASSUME ~raced
          PROVE  /\ flow[f].ident # Unknown =>
                      /\ \A s \in Rows : ~(row[s].state = "on" /\ row[s].user = flow[f].user /\ row[s].ident = flow[f].ident)
                      /\ \A g \in Flows \ {f} : Inserting(g) => flow[g].user # flow[f].user \/ flow[g].ident # flow[f].ident
      BY <3>3, <3>4 DEF SoleInv
    <3>5. ASSUME ~raced', NEW q \in Rows, NEW s \in Rows, q # s, row'[q].state = "on", row'[s].state = "on",
                 row'[q].user = row'[s].user, row'[q].ident = row'[s].ident
          PROVE  row'[q].ident = Unknown
      <4>1. ~raced
        BY <2>1, <3>5
      <4>2. CASE q # r /\ s # r
        BY <3>1, <3>5, <4>1, <4>2 DEF SoleInv
      <4>3. CASE q = r \/ s = r
        BY <3>1, <3>4, <3>5, <4>1, <4>3
      <4> QED BY <4>2, <4>3
    <3>6. ASSUME ~raced', NEW g \in Flows, flow'[g].pc = "store", flow'[g].row = NoRow, flow'[g].ident # Unknown
          PROVE  /\ \A s \in Rows : ~(row'[s].state = "on" /\ row'[s].user = flow'[g].user /\ row'[s].ident = flow'[g].ident)
                 /\ \A h \in Flows \ {g} : flow'[h].pc = "store" /\ flow'[h].row = NoRow =>
                      flow'[h].user # flow'[g].user \/ flow'[h].ident # flow'[g].ident
      <4>1. g # f /\ flow'[g] = flow[g] /\ Inserting(g) /\ ~raced
        BY <2>1, <3>2, <3>6 DEF Inserting
      <4>2. /\ \A s \in Rows : ~(row[s].state = "on" /\ row[s].user = flow[g].user /\ row[s].ident = flow[g].ident)
            /\ \A h \in Flows \ {g} : Inserting(h) => flow[h].user # flow[g].user \/ flow[h].ident # flow[g].ident
        BY <3>6, <4>1 DEF SoleInv
      <4>3. flow[f].user # flow[g].user \/ flow[f].ident # flow[g].ident
        BY <3>3, <4>1, <4>2
      <4> QED BY <3>1, <3>2, <4>1, <4>2, <4>3 DEF Inserting
    <3> QED BY <3>5, <3>6 DEF SoleInv, Inserting
  <2>3. ASSUME flow[f].row # NoRow, row' = [row EXCEPT ![flow[f].row].cred = f],
               flow' = [flow EXCEPT ![f] = IF provider = "slack" THEN AfterSave(f) ELSE [@ EXCEPT !.pc = "spread"]]
        PROVE  SoleInv'
    <3> PICK r \in Rows : r = flow[f].row
      BY <1>0, <2>3 DEF ConnectRecords
    <3>1. \A s \in Rows : row'[s].state = row[s].state /\ row'[s].user = row[s].user /\ row'[s].ident = row[s].ident
      <4> PICK n : n = [row[r] EXCEPT !.cred = f]
        OBVIOUS
      <4>1. n.state = row[r].state /\ n.user = row[r].user /\ n.ident = row[r].ident
        BY <1>0 DEF RowRecords
      <4>2. row' = [row EXCEPT ![r] = n]
        BY <2>3 DEF ConnectTypes
      <4> QED BY <4>1, <4>2 DEF ConnectTypes
    <3> PICK t : t = IF provider = "slack" THEN AfterSave(f) ELSE [flow[f] EXCEPT !.pc = "spread"]
      OBVIOUS
    <3>2. flow' = [flow EXCEPT ![f] = t]
      BY <2>3
    <3>3. t.pc # "store"
      <4>1. [flow[f] EXCEPT !.pc = "spread"].pc = "spread"
        BY <1>0 DEF ConnectRecords
      <4> QED BY <1>14, <4>1
    <3> QED BY <1>1, <1>2, <2>1, <3>1, <3>2, <3>3
  <2>4. CASE Answer(f, "error") /\ row' = row
    BY <1>4, <2>1, <2>4
  <2> QED BY <1>15, <2>2, <2>3, <2>4 DEF StoreAuthorization
<1>16. ASSUME NEW f \in Flows, SpreadGrant(f)
       PROVE  SoleInv'
  <2> PICK t : t = AfterSave(f)
    OBVIOUS
  <2>1. flow' = [flow EXCEPT ![f] = t] /\ t.pc # "store" /\ row' = row /\ raced' = raced
    BY <1>14, <1>16 DEF SpreadGrant
  <2> QED BY <1>3, <2>1
<1>17. ASSUME NEW f \in Flows, FindInstall(f)
       PROVE  SoleInv'
  <2>1. row' = row /\ raced' = raced
    BY <1>17 DEF FindInstall, stored
  <2>2. CASE Answer(f, "error")
    BY <1>4, <2>1, <2>2
  <2>3. CASE flow' = [flow EXCEPT ![f].pc = "write", ![f].found = links # {}]
    <3> DEFINE t == [flow[f] EXCEPT !.pc = "write", !.found = links # {}]
    <3>1. flow' = [flow EXCEPT ![f] = t] /\ t.pc = "write"
      BY <1>0, <2>3 DEF ConnectTypes, ConnectRecords
    <3> HIDE DEF t
    <3> QED BY <1>3, <2>1, <3>1
  <2> QED BY <1>17, <2>2, <2>3 DEF FindInstall
<1>18. ASSUME NEW f \in Flows, WriteInstall(f) \/ PromoteNotion(f) \/ FlowFails(f)
       PROVE  SoleInv'
  <2>1. row' = row /\ raced' = raced /\ (Answer(f, "ok") \/ Answer(f, "error"))
    BY <1>18 DEF WriteInstall, PromoteNotion, FlowFails, stored
  <2> QED BY <1>4, <2>1
<1>19. ASSUME NEW r \in Rows, DisconnectConnection(r) \/ RevokeConnection(r)
       PROVE  SoleInv'
  <2>1. flow' = flow /\ raced' = raced /\ row' = [row EXCEPT ![r].state = "gone"]
    BY <1>19 DEF DisconnectConnection, RevokeConnection, DropRow
  <2>2. row'[r].state = "gone" /\ \A s \in Rows \ {r} : row'[s] = row[s]
    BY <1>0, <2>1 DEF ConnectTypes, RowRecords
  <2> QED BY <1>1, <2>1, <2>2 DEF Inserting
<1>20. ASSUME flow' = flow, row' = row, raced' = raced
       PROVE  SoleInv'
  BY <1>1, <1>20 DEF Inserting
<1>21. ASSUME \/ \E r \in {"none", "viewer", "solo", "ok"}, a \in {"solo", "paid"} : RightsChange(r, a)
              \/ SwitchUser \/ (\E l \in links : RemoveLink(l)) \/ UNCHANGED connectVars
       PROVE  SoleInv'
  <2>1. flow' = flow /\ row' = row /\ raced' = raced
    BY <1>21 DEF RightsChange, SwitchUser, RemoveLink, connectVars, stored
  <2> QED BY <1>20, <2>1
<1> QED
  BY <1>6, <1>8, <1>9, <1>10, <1>11, <1>12, <1>13, <1>15, <1>16, <1>17, <1>18, <1>19, <1>21
  DEF OAuthConnectNext

(* AccountIsStoredOnce: save_authorization_deduped keeps one row of an account whose id *)
(* the provider tells, for any number of flows, rows and accounts, as long as no two    *)
(* callbacks are between its lookup and its insertion at once.                          *)
THEOREM AccountsAreStoredOnce == OAuthConnectSpec => []AccountIsStoredOnce
<1>1. SoleInv => AccountIsStoredOnce
  BY DEF SoleInv, AccountIsStoredOnce
<1> QED BY <1>1, ConnectsStart, ConnectStep, SoleStart, SoleStep, PTL DEF OAuthConnectSpec

----------------------------------------------------------------------------
(* ServiceCalls. *)

CallPcs == {"idle", "check", "refresh", "purge", "done"}
LinkRecords == [row: BOOLEAN, home: Workspaces, provider: BOOLEAN, hook: {"none", "only", "also"},
                team: SlackTeamIds, token: CallTokens, sealed: BOOLEAN, source: BOOLEAN]
OwnRecords == [row: BOOLEAN, newer: BOOLEAN, provider: BOOLEAN, team: SlackTeamIds, token: CallTokens]

\* The form and the script of a call are of any kind.
CallRecords(gives, todo) ==
    [pc: CallPcs, kind: Kinds \cup {"none"}, scope: Scopes, gives: {gives}, todo: {todo},
     ws: Workspaces, authorized: BOOLEAN, cred: LinkRecords, myTeam: SlackTeamIds, used: BOOLEAN,
     tries: Nat, refreshed: BOOLEAN, unsure: BOOLEAN, unpurged: BOOLEAN, displaced: BOOLEAN,
     member: SUBSET Workspaces, paid: SUBSET Workspaces, result: CallResults]

CallTypes ==
    /\ belongs \in SUBSET Workspaces /\ tier \in [Workspaces -> {"solo", "workspace"}]
    /\ link \in LinkRecords /\ own \in OwnRecords
    /\ call \in CallRecords(call.gives, call.todo)
    /\ posted \in Nat

\* What one answer makes of the call.
Verdicts == {"ok", "error", "again", "refresh", "purge"}

Uses == {"send", "fetch", "handOut"}
Tokens == {"token", "slackToken"}

\* What the scripts of the nodes and of the routes consist of.
SharedNodeSteps == {"need", "member", "plan", "token", "slackToken", "oauth", "home", "provider", "team",
                    "oneTeam", "send", "fetch", "skip"}
OwnNodeSteps == {"need", "member", "plan", "own", "ownTeam", "loadLink", "home", "provider", "team",
                 "sameTeam", "fewTeams", "send", "fetch", "skip"}
SharedRouteSteps == {"need", "listed", "get", "oauthRow", "token", "slackToken", "home", "provider", "plan",
                     "member", "anyPlan", "cache", "fetch"}
OwnRouteSteps == {"need", "own", "provider", "anyPlan", "cache", "fetch"}
StepsOf(k, scope) ==
    IF k \notin Routes THEN IF scope = "workspace" THEN SharedNodeSteps ELSE OwnNodeSteps
      ELSE LET steps == IF scope = "workspace" THEN SharedRouteSteps ELSE OwnRouteSteps
           IN IF k = "googleToken" THEN (steps \ {"fetch"}) \cup {"handOut"} ELSE steps

\* The checks of a node that follow every token taken from a workspace connection.
Watches(k, scope) == IF k \notin Routes /\ scope = "workspace" THEN {"home", "provider"} ELSE {}

Good(x, D) == x.do \in D /\ (x.do = "need" \/ x = Do(x.do))
Clean(s, D) == (\E S : s \in Seq(S)) /\ \A i \in 1..Len(s) : Good(s[i], D)
Has(s, c) == \E i \in 1..Len(s) : s[i].do = c
Followed(s, G) == \A i \in 1..Len(s) : s[i].do \in Tokens => \A g \in G : \E j \in (i + 1)..Len(s) : s[j].do = g

\* The beginning and the end of a script: only its last step uses the token.
Opens(s, D, G) == Clean(s, D \ Uses) /\ Followed(s, G)
Closes(s, D, G) ==
    Clean(s, D) /\ Followed(s, G) /\ \A i \in 1..Len(s) : s[i].do \in Uses => i = Len(s)

LEMMA ScriptsConcat == ASSUME NEW p, NEW q, NEW D, NEW E, Clean(p, D), Clean(q, E)
                       PROVE  /\ p \o q \in Seq({(p \o q)[i] : i \in 1..Len(p \o q)})
                              /\ Len(p) \in Nat /\ Len(q) \in Nat /\ Len(p \o q) = Len(p) + Len(q)
                              /\ \A i \in 1..Len(p) : (p \o q)[i] = p[i]
                              /\ \A i \in 1..Len(q) : (p \o q)[Len(p) + i] = q[i]
                              /\ \A i \in 1..Len(p \o q) :
                                   i \in 1..Len(p) \/ (i - Len(p) \in 1..Len(q) /\ (p \o q)[i] = q[i - Len(p)])
<1>1. PICK S : p \in Seq(S)
  BY DEF Clean
<1>2. PICK T : q \in Seq(T)
  BY DEF Clean
<1> DEFINE U == S \cup T
<1>3. p \in Seq(U) /\ q \in Seq(U)
  BY <1>1, <1>2
<1> HIDE DEF U
<1>4. /\ p \o q \in Seq(U) /\ Len(p) \in Nat /\ Len(q) \in Nat /\ Len(p \o q) = Len(p) + Len(q)
      /\ \A i \in 1..Len(p) : (p \o q)[i] = p[i]
      /\ \A i \in 1..Len(q) : (p \o q)[Len(p) + i] = q[i]
  BY <1>3
<1>5. p \o q \in Seq({(p \o q)[i] : i \in 1..Len(p \o q)})
  <2> DEFINE r == p \o q
             V == {r[i] : i \in 1..Len(r)}
  <2>1. r \in Seq(U) /\ \A i \in 1..Len(r) : r[i] \in V
    BY <1>4
  <2> HIDE DEF r, V
  <2>2. r \in Seq(V)
    BY <2>1
  <2> QED BY <2>2 DEF r, V
<1>6. ASSUME NEW i \in 1..Len(p \o q), i \notin 1..Len(p)
      PROVE  i - Len(p) \in 1..Len(q) /\ (p \o q)[i] = q[i - Len(p)]
  BY <1>4, <1>6
<1> QED BY <1>4, <1>5, <1>6

LEMMA OpensThen == ASSUME NEW p, NEW q, NEW D, NEW G, Opens(p, D, G)
                   PROVE  /\ Opens(q, D, G) => Opens(p \o q, D, G)
                          /\ Closes(q, D, G) => Closes(p \o q, D, G)
<1> DEFINE r == p \o q
<1>1. ASSUME NEW E, Clean(q, E), D \ Uses \subseteq E, Followed(q, G)
      PROVE  Clean(r, E) /\ Followed(r, G)
  <2>1. Clean(p, D \ Uses) /\ Followed(p, G)
    BY DEF Opens
  <2>2. /\ r \in Seq({r[i] : i \in 1..Len(r)})
        /\ Len(p) \in Nat /\ Len(q) \in Nat /\ Len(r) = Len(p) + Len(q)
        /\ \A i \in 1..Len(p) : r[i] = p[i]
        /\ \A i \in 1..Len(q) : r[Len(p) + i] = q[i]
        /\ \A i \in 1..Len(r) : i \in 1..Len(p) \/ (i - Len(p) \in 1..Len(q) /\ r[i] = q[i - Len(p)])
    BY <1>1, <2>1, ScriptsConcat
  <2> HIDE DEF r
  <2>3. Clean(r, E)
    BY <1>1, <2>1, <2>2 DEF Clean, Good
  <2>4. ASSUME NEW i \in 1..Len(r), r[i].do \in Tokens, NEW g \in G
        PROVE  \E j \in (i + 1)..Len(r) : r[j].do = g
    <3>1. CASE i \in 1..Len(p)
      <4>1. PICK j \in (i + 1)..Len(p) : p[j].do = g
        BY <2>1, <2>2, <2>4, <3>1 DEF Followed
      <4>2. j \in 1..Len(p) /\ j \in (i + 1)..Len(r)
        BY <2>2, <3>1, <4>1
      <4> QED BY <2>2, <4>1, <4>2
    <3>2. CASE i \notin 1..Len(p)
      <4>1. i - Len(p) \in 1..Len(q) /\ q[i - Len(p)].do \in Tokens
        BY <2>2, <2>4, <3>2
      <4>2. PICK j \in (i - Len(p) + 1)..Len(q) : q[j].do = g
        BY <1>1, <2>4, <4>1 DEF Followed
      <4>3. j \in 1..Len(q) /\ Len(p) + j \in (i + 1)..Len(r)
        BY <2>2, <4>1, <4>2
      <4> QED BY <2>2, <4>2, <4>3
    <3> QED BY <3>1, <3>2
  <2> QED BY <2>3, <2>4 DEF Followed
<1>2. ASSUME Closes(q, D, G), NEW i \in 1..Len(r), r[i].do \in Uses
      PROVE  i = Len(r)
  <2>1. Clean(p, D \ Uses) /\ Clean(q, D)
    BY <1>2 DEF Opens, Closes
  <2>2. /\ Len(p) \in Nat /\ Len(q) \in Nat /\ Len(r) = Len(p) + Len(q)
        /\ \A k \in 1..Len(p) : r[k] = p[k]
        /\ \A k \in 1..Len(r) : k \in 1..Len(p) \/ (k - Len(p) \in 1..Len(q) /\ r[k] = q[k - Len(p)])
    BY <2>1, ScriptsConcat
  <2> HIDE DEF r
  <2>3. i \notin 1..Len(p)
    BY <1>2, <2>1, <2>2 DEF Clean, Good
  <2>4. i - Len(p) \in 1..Len(q) /\ q[i - Len(p)].do \in Uses
    BY <1>2, <2>2, <2>3
  <2>5. i - Len(p) = Len(q)
    BY <1>2, <2>4 DEF Closes
  <2> QED BY <2>2, <2>5
<1> HIDE DEF r
<1>3. Opens(q, D, G) => Opens(r, D, G)
  BY <1>1 DEF Opens
<1>4. Closes(q, D, G) => Closes(r, D, G)
  BY <1>1, <1>2 DEF Closes
<1> QED BY <1>3, <1>4 DEF r

LEMMA HarmlessOpens == ASSUME NEW s, NEW D, NEW G, Clean(s, D \ (Uses \cup Tokens))
                       PROVE  Opens(s, D, G)
BY DEF Opens, Clean, Good, Followed, Uses, Tokens

LEMMA TupleIsClean == ASSUME NEW D, NEW x1, NEW x2, NEW x3, NEW x4, NEW x5, NEW x6, Good(x1, D)
                      PROVE  /\ Clean(<<x1>>, D)
                             /\ Good(x2, D) => Clean(<<x1, x2>>, D)
                             /\ Good(x2, D) /\ Good(x3, D) => Clean(<<x1, x2, x3>>, D)
                             /\ Good(x2, D) /\ Good(x3, D) /\ Good(x4, D) => Clean(<<x1, x2, x3, x4>>, D)
                             /\ Good(x2, D) /\ Good(x3, D) /\ Good(x4, D) /\ Good(x5, D) =>
                                  Clean(<<x1, x2, x3, x4, x5>>, D)
<1>1. ASSUME Good(x1, D)
      PROVE  Clean(<<x1>>, D)
  <2>1. <<x1>> \in Seq({x1}) /\ Len(<<x1>>) = 1
    OBVIOUS
  <2>2. \A i \in 1..1 : <<x1>>[i] = x1
    OBVIOUS
  <2> QED BY <1>1, <2>1, <2>2 DEF Clean
<1>2. ASSUME Good(x1, D), Good(x2, D)
      PROVE  Clean(<<x1, x2>>, D)
  <2>1. <<x1, x2>> \in Seq({x1, x2}) /\ Len(<<x1, x2>>) = 2
    OBVIOUS
  <2>2. \A i \in 1..2 : <<x1, x2>>[i] = x1 \/ <<x1, x2>>[i] = x2
    OBVIOUS
  <2> QED BY <1>2, <2>1, <2>2 DEF Clean
<1>3. ASSUME Good(x1, D), Good(x2, D), Good(x3, D)
      PROVE  Clean(<<x1, x2, x3>>, D)
  <2>1. <<x1, x2, x3>> \in Seq({x1, x2, x3}) /\ Len(<<x1, x2, x3>>) = 3
    OBVIOUS
  <2>2. \A i \in 1..3 : <<x1, x2, x3>>[i] = x1 \/ <<x1, x2, x3>>[i] = x2 \/ <<x1, x2, x3>>[i] = x3
    OBVIOUS
  <2> QED BY <1>3, <2>1, <2>2 DEF Clean
<1>4. ASSUME Good(x1, D), Good(x2, D), Good(x3, D), Good(x4, D)
      PROVE  Clean(<<x1, x2, x3, x4>>, D)
  <2>1. <<x1, x2, x3, x4>> \in Seq({x1, x2, x3, x4}) /\ Len(<<x1, x2, x3, x4>>) = 4
    OBVIOUS
  <2>2. \A i \in 1..4 : <<x1, x2, x3, x4>>[i] = x1 \/ <<x1, x2, x3, x4>>[i] = x2 \/ <<x1, x2, x3, x4>>[i] = x3 \/ <<x1, x2, x3, x4>>[i] = x4
    OBVIOUS
  <2> QED BY <1>4, <2>1, <2>2 DEF Clean
<1>5. ASSUME Good(x1, D), Good(x2, D), Good(x3, D), Good(x4, D), Good(x5, D)
      PROVE  Clean(<<x1, x2, x3, x4, x5>>, D)
  <2>1. <<x1, x2, x3, x4, x5>> \in Seq({x1, x2, x3, x4, x5}) /\ Len(<<x1, x2, x3, x4, x5>>) = 5
    OBVIOUS
  <2>2. \A i \in 1..5 : <<x1, x2, x3, x4, x5>>[i] = x1 \/ <<x1, x2, x3, x4, x5>>[i] = x2 \/ <<x1, x2, x3, x4, x5>>[i] = x3 \/ <<x1, x2, x3, x4, x5>>[i] = x4 \/ <<x1, x2, x3, x4, x5>>[i] = x5
    OBVIOUS
  <2> QED BY <1>5, <2>1, <2>2 DEF Clean
<1> QED BY <1>1, <1>2, <1>3, <1>4, <1>5

LEMMA NeedsOpen ==
    ASSUME NEW D, NEW G, "need" \in D
    PROVE  /\ \A A : Opens(<<Need(A)>>, D, G) /\ Closes(<<Need(A)>>, D, G)
           /\ \A A, B : Opens(<<Need(A), Need(B)>>, D, G)
           /\ \A S : \A s \in Seq(S) : Opens(Required(s), D, G)
           /\ \A a, b, c, d, e :
                /\ Opens(Required(<<a>>), D, G) /\ Opens(Required(<<a, b>>), D, G)
                /\ Opens(Required(<<a, b, c>>), D, G) /\ Opens(Required(<<a, b, c, d>>), D, G)
                /\ Opens(Required(<<a, b, c, d, e>>), D, G)
<1> DEFINE E == D \ (Uses \cup Tokens)
<1>1. "need" \in E
  BY DEF Uses, Tokens
<1>2. \A A : Good(Need(A), E) /\ Good(Need(A), D)
  BY <1>1 DEF Good, Need
<1>3. \A A, B : Clean(<<Need(A)>>, E) /\ Clean(<<Need(A)>>, D) /\ Clean(<<Need(A), Need(B)>>, E)
  BY <1>2, TupleIsClean
<1>4. ASSUME NEW S, NEW s \in Seq(S)
      PROVE  Clean(Required(s), E)
  <2> DEFINE r == Required(s)
  <2> DEFINE f == [i \in 1..Len(s) |-> Need({s[i]})]
             T == {Need({a}) : a \in S}
  <2>0. r = f
    BY DEF Required
  <2>1. f \in Seq(T) /\ Len(f) = Len(s)
    <3>0. Len(s) \in Nat /\ \A i \in 1..Len(s) : s[i] \in S
      OBVIOUS
    <3>1. \A i \in 1..Len(s) : Need({s[i]}) \in T
      BY <3>0
    <3> HIDE DEF T
    <3>2. f \in [1..Len(s) -> T]
      BY <3>1
    <3> HIDE DEF f
    <3> QED BY <3>0, <3>2
  <2>2. \A i \in 1..Len(r) : r[i] = Need({s[i]})
    BY <2>0, <2>1
  <2> HIDE DEF r, f, T, E
  <2>3. Clean(r, E)
    BY <1>2, <2>0, <2>1, <2>2 DEF Clean, Good
  <2> QED BY <2>3 DEF r
<1> HIDE DEF E
<1>5. \A S : \A s \in Seq(S) : Opens(Required(s), D, G)
  BY <1>4, HarmlessOpens DEF E
<1>6. \A A, B : Opens(<<Need(A)>>, D, G) /\ Opens(<<Need(A), Need(B)>>, D, G)
  BY <1>3, HarmlessOpens DEF E
<1>7. ASSUME NEW A
      PROVE  Closes(<<Need(A)>>, D, G)
  <2>1. Len(<<Need(A)>>) = 1 /\ \A i \in 1..1 : i = 1
    OBVIOUS
  <2> QED BY <1>3, <1>6, <2>1 DEF Closes, Opens
<1>8. ASSUME NEW a, NEW b, NEW c, NEW d, NEW e
      PROVE  /\ <<a>> \in Seq({a, b, c, d, e}) /\ <<a, b>> \in Seq({a, b, c, d, e})
             /\ <<a, b, c>> \in Seq({a, b, c, d, e}) /\ <<a, b, c, d>> \in Seq({a, b, c, d, e})
             /\ <<a, b, c, d, e>> \in Seq({a, b, c, d, e})
  OBVIOUS
<1>9. \A a, b, c, d, e :
        /\ Opens(Required(<<a>>), D, G) /\ Opens(Required(<<a, b>>), D, G)
        /\ Opens(Required(<<a, b, c>>), D, G) /\ Opens(Required(<<a, b, c, d>>), D, G)
        /\ Opens(Required(<<a, b, c, d, e>>), D, G)
  BY <1>5, <1>8
<1> QED BY <1>5, <1>6, <1>7, <1>9

\* Steps that neither take nor use a token.
LEMMA StepsOpen ==
    ASSUME NEW D, NEW G, NEW c, c \in D \ (Uses \cup Tokens)
    PROVE  Opens(<<Do(c)>>, D, G) /\ Closes(<<Do(c)>>, D, G)
<1>1. Good(Do(c), D \ (Uses \cup Tokens)) /\ Good(Do(c), D)
  BY DEF Good, Do
<1>2. Clean(<<Do(c)>>, D \ (Uses \cup Tokens)) /\ Clean(<<Do(c)>>, D)
  BY <1>1, TupleIsClean
<1>3. Opens(<<Do(c)>>, D, G)
  BY <1>2, HarmlessOpens
<1> QED BY <1>2, <1>3 DEF Closes, Opens

LEMMA UsesClose ==
    ASSUME NEW D, NEW G, NEW c \in D, c \notin Tokens
    PROVE  Closes(<<Do(c)>>, D, G)
<1>1. Good(Do(c), D)
  BY DEF Good, Do
<1>2. Clean(<<Do(c)>>, D)
  BY <1>1, TupleIsClean
<1>3. <<Do(c)>>[1] = Do(c) /\ Len(<<Do(c)>>) = 1 /\ Do(c).do = c
  BY DEF Do
<1> QED BY <1>2, <1>3 DEF Closes, Followed

LEMMA HasConcat == ASSUME NEW p, NEW q, NEW D, NEW E, Clean(p, D), Clean(q, E), NEW c, Has(p, c) \/ Has(q, c)
                   PROVE  Has(p \o q, c)
<1> DEFINE r == p \o q
<1>1. /\ Len(p) \in Nat /\ Len(q) \in Nat /\ Len(r) = Len(p) + Len(q)
      /\ \A i \in 1..Len(p) : r[i] = p[i]
      /\ \A i \in 1..Len(q) : r[Len(p) + i] = q[i]
  BY ScriptsConcat
<1> HIDE DEF r
<1>2. CASE Has(p, c)
  BY <1>1, <1>2 DEF Has
<1>3. CASE Has(q, c)
  <2>1. PICK i \in 1..Len(q) : q[i].do = c
    BY <1>3 DEF Has
  <2>2. Len(p) + i \in 1..Len(r)
    BY <1>1
  <2> QED BY <1>1, <2>1, <2>2 DEF Has
<1> QED BY <1>2, <1>3 DEF r

\* What is left of a script.
LEMMA ScriptTail ==
    ASSUME NEW s, NEW D, NEW G, Closes(s, D, G), NEW n \in 1..Len(s)
    PROVE  /\ Closes(SubSeq(s, n, Len(s)), D, G) /\ Closes(Tail(s), D, G) /\ Len(s) \in Nat
           /\ \A c : Has(s, c) => \/ Has(SubSeq(s, n, Len(s)), c)
                                  \/ \E i \in 1..(n - 1) : s[i].do = c
           /\ \A c : Has(s, c) => Head(s).do = c \/ Has(Tail(s), c)
           /\ \A g \in G : Head(s).do \in Tokens => Has(Tail(s), g)
           /\ Head(s) = s[1] /\ Good(Head(s), D) /\ (Head(s).do \in Uses => Len(s) = 1)
<1>1. PICK S : s \in Seq(S)
  BY DEF Closes, Clean
<1>2. /\ Len(s) \in Nat /\ Head(s) = s[1] /\ 1 \in 1..Len(s)
      /\ \A i \in 1..Len(s) : Good(s[i], D) /\ (s[i].do \in Uses => i = Len(s))
      /\ \A i \in 1..Len(s) : s[i].do \in Tokens => \A g \in G : \E j \in (i + 1)..Len(s) : s[j].do = g
  BY <1>1 DEF Closes, Clean, Followed
<1>3. ASSUME NEW m \in 1..(Len(s) + 1), NEW t \in Seq(S), Len(t) = Len(s) - m + 1,
             \A i \in 1..Len(t) : t[i] = s[m + i - 1]
      PROVE  /\ Closes(t, D, G)
             /\ \A c : Has(s, c) => Has(t, c) \/ \E i \in 1..(m - 1) : s[i].do = c
  <2>1. \A i \in 1..Len(t) : m + i - 1 \in 1..Len(s)
    BY <1>2, <1>3
  <2>2. Clean(t, D)
    BY <1>2, <1>3, <2>1 DEF Clean
  <2>3. ASSUME NEW i \in 1..Len(t), t[i].do \in Tokens, NEW g \in G
        PROVE  \E j \in (i + 1)..Len(t) : t[j].do = g
    <3>1. PICK j \in (m + i)..Len(s) : s[j].do = g
      <4>1. m + i - 1 \in 1..Len(s) /\ s[m + i - 1].do \in Tokens
        BY <1>3, <2>1, <2>3
      <4>2. (m + i - 1) + 1 = m + i
        BY <1>2, <1>3
      <4> QED BY SMTT(30), <1>2, <4>1, <4>2
    <3>2. j - m + 1 \in (i + 1)..Len(t) /\ j - m + 1 \in 1..Len(t) /\ m + (j - m + 1) - 1 = j
      BY <1>2, <1>3
    <3> QED BY <1>3, <3>1, <3>2
  <2>4. ASSUME NEW i \in 1..Len(t), t[i].do \in Uses
        PROVE  i = Len(t)
    <3>1. m + i - 1 = Len(s)
      BY <1>2, <1>3, <2>1, <2>4
    <3> QED BY <1>2, <1>3, <3>1
  <2>5. ASSUME NEW c, NEW i \in 1..Len(s), s[i].do = c
        PROVE  Has(t, c) \/ \E k \in 1..(m - 1) : s[k].do = c
    <3>1. CASE i < m
      BY <1>2, <2>5, <3>1
    <3>2. CASE i >= m
      <4>1. i - m + 1 \in 1..Len(t) /\ m + (i - m + 1) - 1 = i
        BY <1>2, <1>3, <3>2
      <4> QED BY <1>3, <2>5, <4>1 DEF Has
    <3> QED BY <1>2, <3>1, <3>2
  <2> QED BY <2>2, <2>3, <2>4, <2>5 DEF Closes, Followed, Has
<1>4. /\ SubSeq(s, n, Len(s)) \in Seq(S) /\ Len(SubSeq(s, n, Len(s))) = Len(s) - n + 1
      /\ \A i \in 1..Len(SubSeq(s, n, Len(s))) : SubSeq(s, n, Len(s))[i] = s[n + i - 1]
  BY <1>1, <1>2
<1>5. /\ Tail(s) \in Seq(S) /\ Len(Tail(s)) = Len(s) - 1
      /\ \A i \in 1..Len(Tail(s)) : Tail(s)[i] = s[i + 1]
  <2>1. s # <<>>
    BY <1>1, <1>2
  <2> QED BY <1>1, <1>2, <2>1
<1>6. /\ Closes(SubSeq(s, n, Len(s)), D, G)
      /\ \A c : Has(s, c) => Has(SubSeq(s, n, Len(s)), c) \/ \E i \in 1..(n - 1) : s[i].do = c
  <2>1. n \in 1..(Len(s) + 1)
    BY <1>2
  <2> QED BY <1>3, <1>4, <2>1
<1>7. /\ Closes(Tail(s), D, G)
      /\ \A c : Has(s, c) => Has(Tail(s), c) \/ Head(s).do = c
  <2> DEFINE t == Tail(s)
  <2>0. t \in Seq(S) /\ Len(t) = Len(s) - 1 /\ \A i \in 1..Len(t) : t[i] = s[i + 1]
    BY <1>5
  <2> HIDE DEF t
  <2>1. /\ 2 \in 1..(Len(s) + 1) /\ Len(t) = Len(s) - 2 + 1
        /\ \A i \in 1..Len(t) : i + 1 = 2 + i - 1
    BY <1>2, <2>0
  <2>2. \A i \in 1..Len(t) : t[i] = s[2 + i - 1]
    BY <2>0, <2>1
  <2>3. /\ Closes(t, D, G)
        /\ \A c : Has(s, c) => Has(t, c) \/ \E i \in 1..(2 - 1) : s[i].do = c
    BY <1>3, <2>0, <2>1, <2>2
  <2> QED BY <1>2, <2>3 DEF t
<1>8. ASSUME NEW g \in G, Head(s).do \in Tokens
      PROVE  Has(Tail(s), g)
  <2>1. PICK j \in 2..Len(s) : s[j].do = g
    BY <1>2, <1>8
  <2> DEFINE t == Tail(s)
  <2>2. Len(t) = Len(s) - 1 /\ \A i \in 1..Len(t) : t[i] = s[i + 1]
    BY <1>5
  <2> HIDE DEF t
  <2>3. j - 1 \in 1..Len(t) /\ (j - 1) + 1 = j
    BY <1>2, <2>2
  <2>4. t[j - 1] = s[j]
    BY <2>2, <2>3
  <2> QED BY <2>1, <2>3, <2>4 DEF Has, t
<1> QED BY <1>2, <1>6, <1>7, <1>8

LEMMA SharedConnectionOpens ==
    ASSUME NEW D, NEW G, G \subseteq {"home", "provider"}, NEW token \in Tokens,
           {"need", "member", "plan", token, "home", "provider"} \subseteq D
    PROVE  /\ Opens(SharedConnection(token), D, G)
           /\ Has(SharedConnection(token), "member") /\ Has(SharedConnection(token), "plan")
<1> DEFINE s == SharedConnection(token)
           S == {HasWorkspace, Do("member"), Do("plan"), Do(token), Do("home"), Do("provider")}
<1>1. /\ s \in Seq(S) /\ Len(s) = 6 /\ s[1] = HasWorkspace /\ s[2] = Do("member") /\ s[3] = Do("plan")
      /\ s[4] = Do(token) /\ s[5] = Do("home") /\ s[6] = Do("provider")
  BY DEF SharedConnection
<1>2. \A c : Do(c).do = c
  BY DEF Do
<1>3. HasWorkspace.do = "need"
  BY DEF HasWorkspace, Need
<1> HIDE DEF s, S
<1>4. \A i \in 1..6 : i = 1 \/ i = 2 \/ i = 3 \/ i = 4 \/ i = 5 \/ i = 6
  OBVIOUS
<1>5. \A i \in 1..6 : Good(s[i], D \ Uses)
  BY <1>1, <1>2, <1>3, <1>4 DEF Good, Uses, Tokens
<1>6. \A i \in 1..6 : s[i].do \in Tokens => i = 4
  BY <1>1, <1>2, <1>3, <1>4 DEF Tokens
<1>7. 5 \in (4 + 1)..6 /\ 6 \in (4 + 1)..6 /\ 2 \in 1..6 /\ 3 \in 1..6
  OBVIOUS
<1>8. Followed(s, G)
  BY <1>1, <1>2, <1>6, <1>7 DEF Followed
<1>9. Has(s, "member") /\ Has(s, "plan")
  BY <1>1, <1>2, <1>7 DEF Has
<1> QED BY <1>1, <1>5, <1>8, <1>9 DEF Opens, Clean, s

\* The scripts of the nodes.
NodeSteps(scope) == IF scope = "workspace" THEN SharedNodeSteps ELSE OwnNodeSteps
NodeWatches(scope) == IF scope = "workspace" THEN {"home", "provider"} ELSE {}
OpensNode(s, scope) == Opens(s, NodeSteps(scope), NodeWatches(scope))
ClosesNode(s, scope) == Closes(s, NodeSteps(scope), NodeWatches(scope))
\* What a node does with a workspace connection is asked of the run's workspace.
Asks(s) == Has(s, "member") /\ Has(s, "plan")

LEMMA NodePieces ==
    ASSUME NEW scope \in Scopes
    PROVE  /\ \A p, q : OpensNode(p, scope) /\ OpensNode(q, scope) => OpensNode(p \o q, scope)
           /\ \A p, q : OpensNode(p, scope) /\ ClosesNode(q, scope) => ClosesNode(p \o q, scope)
           /\ \A p, q : OpensNode(p, scope) /\ OpensNode(q, scope) /\ (Asks(p) \/ Asks(q)) => Asks(p \o q)
           /\ \A p, q : OpensNode(p, scope) /\ ClosesNode(q, scope) /\ (Asks(p) \/ Asks(q)) => Asks(p \o q)
<1> DEFINE D == NodeSteps(scope)
           G == NodeWatches(scope)
<1>1. \A p, q : OpensNode(p, scope) /\ OpensNode(q, scope) => OpensNode(p \o q, scope)
  BY OpensThen DEF OpensNode
<1>2. \A p, q : OpensNode(p, scope) /\ ClosesNode(q, scope) => ClosesNode(p \o q, scope)
  BY OpensThen DEF OpensNode, ClosesNode
<1>3. ASSUME NEW p, NEW q, NEW E, Clean(p, D \ Uses), Clean(q, E), Asks(p) \/ Asks(q)
      PROVE  Asks(p \o q)
  <2> HIDE DEF D
  <2> QED BY <1>3, HasConcat DEF Asks
<1> QED BY <1>1, <1>2, <1>3 DEF OpensNode, ClosesNode, Opens, Closes

LEMMA NodeNeeds ==
    ASSUME NEW scope \in Scopes
    PROVE  /\ \A A : OpensNode(<<Need(A)>>, scope)
           /\ \A A, B : OpensNode(<<Need(A), Need(B)>>, scope)
           /\ \A a, b, c, d, e :
                /\ OpensNode(Required(<<a>>), scope) /\ OpensNode(Required(<<a, b>>), scope)
                /\ OpensNode(Required(<<a, b, c>>), scope) /\ OpensNode(Required(<<a, b, c, d>>), scope)
                /\ OpensNode(Required(<<a, b, c, d, e>>), scope)
           /\ ClosesNode(Send, scope) /\ ClosesNode(Fetch, scope) /\ ClosesNode(<<Do("skip")>>, scope)
<1>1. /\ "need" \in NodeSteps(scope) /\ "send" \in NodeSteps(scope) /\ "fetch" \in NodeSteps(scope)
      /\ "skip" \in NodeSteps(scope) /\ "send" \notin Tokens /\ "fetch" \notin Tokens /\ "skip" \notin Tokens
  BY DEF NodeSteps, SharedNodeSteps, OwnNodeSteps, Tokens
<1>2. ClosesNode(Send, scope) /\ ClosesNode(Fetch, scope) /\ ClosesNode(<<Do("skip")>>, scope)
  BY <1>1, UsesClose DEF ClosesNode, Send, Fetch
<1>3. /\ \A A : OpensNode(<<Need(A)>>, scope)
      /\ \A A, B : OpensNode(<<Need(A), Need(B)>>, scope)
  BY <1>1, NeedsOpen DEF OpensNode
<1>4. \A a, b, c, d, e :
        /\ OpensNode(Required(<<a>>), scope) /\ OpensNode(Required(<<a, b>>), scope)
        /\ OpensNode(Required(<<a, b, c>>), scope) /\ OpensNode(Required(<<a, b, c, d>>), scope)
        /\ OpensNode(Required(<<a, b, c, d, e>>), scope)
  BY <1>1, NeedsOpen DEF OpensNode
<1> QED BY <1>2, <1>3, <1>4

\* The token of a node that has one: a workspace connection's, or a personal one.
LEMMA NodeTokens ==
    /\ OpensNode(SharedConnection("token"), "workspace") /\ Asks(SharedConnection("token"))
    /\ OpensNode(SlackBot, "workspace") /\ Asks(SlackBot)
    /\ OpensNode(<<Do("own")>>, "personal") /\ OpensNode(<<Do("own"), Do("provider")>>, "personal")
    /\ OpensNode(SlackUser, "personal")
<1>1. OpensNode(SharedConnection("token"), "workspace") /\ Asks(SharedConnection("token"))
  <2>1. /\ {"need", "member", "plan", "token", "home", "provider"} \subseteq NodeSteps("workspace")
        /\ NodeWatches("workspace") \subseteq {"home", "provider"} /\ "token" \in Tokens
    BY DEF NodeSteps, NodeWatches, SharedNodeSteps, Tokens
  <2> QED BY <2>1, SharedConnectionOpens DEF OpensNode, Asks
<1>2. OpensNode(SlackBot, "workspace") /\ Asks(SlackBot)
  <2> DEFINE s == SlackBot
             S == {Need({"identityFitsScope"}), HasWorkspace, Do("member"), Do("plan"), Do("slackToken"),
                   Do("oauth"), Do("home"), Do("provider"), Do("team"), Do("oneTeam")}
  <2>1. s \in Seq(S) /\ Len(s) = 10
    BY DEF SlackBot
  <2>2. /\ s[1] = Need({"identityFitsScope"}) /\ s[2] = HasWorkspace /\ s[3] = Do("member")
        /\ s[4] = Do("plan") /\ s[5] = Do("slackToken") /\ s[6] = Do("oauth") /\ s[7] = Do("home")
        /\ s[8] = Do("provider") /\ s[9] = Do("team") /\ s[10] = Do("oneTeam")
    BY DEF SlackBot
  <2>3. \A c : Do(c).do = c
    BY DEF Do
  <2>4. HasWorkspace.do = "need" /\ Need({"identityFitsScope"}).do = "need"
    BY DEF HasWorkspace, Need
  <2> HIDE DEF s, S
  <2>5. \A i \in 1..10 : i = 1 \/ i = 2 \/ i = 3 \/ i = 4 \/ i = 5 \/ i = 6 \/ i = 7 \/ i = 8 \/ i = 9 \/ i = 10
    OBVIOUS
  <2>6. \A i \in 1..10 : Good(s[i], SharedNodeSteps \ Uses)
    BY <2>2, <2>3, <2>4, <2>5 DEF Good, SharedNodeSteps, Uses
  <2>7. \A i \in 1..10 : s[i].do \in Tokens => i = 5
    BY <2>2, <2>3, <2>4, <2>5 DEF Tokens
  <2>8. 7 \in (5 + 1)..10 /\ 8 \in (5 + 1)..10 /\ 3 \in 1..10 /\ 4 \in 1..10
    OBVIOUS
  <2>9. Followed(s, {"home", "provider"})
    BY <2>1, <2>2, <2>3, <2>7, <2>8 DEF Followed
  <2>10. Asks(s)
    BY <2>1, <2>2, <2>3, <2>8 DEF Has, Asks
  <2> QED BY <2>1, <2>6, <2>9, <2>10 DEF Opens, Clean, OpensNode, NodeSteps, NodeWatches, s
<1>3. \A c \in OwnNodeSteps : Good(Do(c), OwnNodeSteps)
  BY DEF Good, Do
<1>4. \A c \in OwnNodeSteps \ (Uses \cup Tokens) : Good(Do(c), OwnNodeSteps \ (Uses \cup Tokens))
  BY DEF Good, Do
<1>5. \A c \in {"own", "provider", "ownTeam", "loadLink", "home", "team", "sameTeam", "fewTeams"} :
        c \in OwnNodeSteps \ (Uses \cup Tokens)
  BY DEF OwnNodeSteps, Uses, Tokens
<1>6. \A s : Clean(s, OwnNodeSteps \ (Uses \cup Tokens)) => OpensNode(s, "personal")
  BY HarmlessOpens DEF OpensNode, NodeSteps
<1>7. OpensNode(<<Do("own")>>, "personal") /\ OpensNode(<<Do("own"), Do("provider")>>, "personal")
  BY <1>4, <1>5, <1>6, TupleIsClean
<1>8. OpensNode(SlackUser, "personal")
  <2> DEFINE E == OwnNodeSteps \ (Uses \cup Tokens)
             s == SlackUser
             S == {Need({"identityFitsScope"}), HasWorkspace, Need({"workspace_connection_id"}), Do("own"),
                   Do("ownTeam"), Do("loadLink"), Do("home"), Do("provider"), Do("team"), Do("sameTeam"),
                   Do("fewTeams")}
  <2>1. s \in Seq(S) /\ Len(s) = 11
    BY DEF SlackUser
  <2>2. "need" \in E
    BY DEF OwnNodeSteps, Uses, Tokens
  <2>3. \A A : Good(Need(A), E)
    BY <2>2 DEF Good, Need
  <2> HIDE DEF E, s
  <2>4. \A x \in S : Good(x, E)
    BY <1>4, <1>5, <2>3 DEF HasWorkspace, E
  <2> HIDE DEF S
  <2>5. s \in Seq(S)
    BY <2>1
  <2>6. \A i \in 1..Len(s) : s[i] \in S
    BY <2>5
  <2> QED BY <1>6, <2>4, <2>5, <2>6 DEF Clean, E, s
<1> QED BY <1>1, <1>2, <1>7, <1>8

LEMMA OperationsClose ==
    ASSUME NEW scope \in Scopes
    PROVE  /\ \A k \in DOMAIN AsanaOps : ClosesNode(AsanaOps[k], scope)
           /\ \A k \in DOMAIN NotionOps : ClosesNode(NotionOps[k], scope)
<1>1. ASSUME NEW p, OpensNode(p, scope)
      PROVE  ClosesNode(p \o Send, scope) /\ ClosesNode(p \o Fetch, scope)
  BY <1>1, NodePieces, NodeNeeds
<1>2. \A k \in DOMAIN AsanaProjects : ClosesNode(AsanaProjects[k], scope)
  <2>1. DOMAIN AsanaProjects = {"createproject", "deleteproject", "getproject", "listprojects",
                                "updateproject", "createsubtask", "listsubtasks"}
    BY DEF AsanaProjects
  <2>2. /\ ClosesNode(AsanaProjects["createproject"], scope) /\ ClosesNode(AsanaProjects["deleteproject"], scope)
        /\ ClosesNode(AsanaProjects["getproject"], scope) /\ ClosesNode(AsanaProjects["listprojects"], scope)
    BY <1>1, NodeNeeds DEF AsanaProjects
  <2>3. /\ ClosesNode(AsanaProjects["updateproject"], scope) /\ ClosesNode(AsanaProjects["createsubtask"], scope)
        /\ ClosesNode(AsanaProjects["listsubtasks"], scope)
    BY <1>1, NodeNeeds DEF AsanaProjects
  <2> QED BY <2>1, <2>2, <2>3
<1>3. \A k \in DOMAIN AsanaTasks : ClosesNode(AsanaTasks[k], scope)
  <2>1. DOMAIN AsanaTasks = {"createtask", "deletetask", "gettask", "listtasks", "movetask", "searchtasks",
                             "updatetask"}
    BY DEF AsanaTasks
  <2>2. /\ ClosesNode(AsanaTasks["createtask"], scope) /\ ClosesNode(AsanaTasks["deletetask"], scope)
        /\ ClosesNode(AsanaTasks["gettask"], scope) /\ ClosesNode(AsanaTasks["listtasks"], scope)
    BY <1>1, NodeNeeds DEF AsanaTasks
  <2>3. /\ ClosesNode(AsanaTasks["movetask"], scope) /\ ClosesNode(AsanaTasks["searchtasks"], scope)
        /\ ClosesNode(AsanaTasks["updatetask"], scope)
    BY <1>1, NodeNeeds DEF AsanaTasks
  <2> QED BY <2>1, <2>2, <2>3
<1>4. \A k \in DOMAIN AsanaDetails : ClosesNode(AsanaDetails[k], scope)
  <2>1. DOMAIN AsanaDetails = {"addcomment", "removecomment", "addtaskproject", "removetaskproject",
                               "addtasktag", "removetasktag", "getuser", "listusers", "other"}
    BY DEF AsanaDetails
  <2>2. /\ ClosesNode(AsanaDetails["addcomment"], scope) /\ ClosesNode(AsanaDetails["removecomment"], scope)
        /\ ClosesNode(AsanaDetails["addtaskproject"], scope)
        /\ ClosesNode(AsanaDetails["removetaskproject"], scope)
    BY <1>1, NodeNeeds DEF AsanaDetails
  <2>3. /\ ClosesNode(AsanaDetails["addtasktag"], scope) /\ ClosesNode(AsanaDetails["removetasktag"], scope)
        /\ ClosesNode(AsanaDetails["getuser"], scope) /\ ClosesNode(AsanaDetails["listusers"], scope)
    BY <1>1, NodeNeeds DEF AsanaDetails
  <2>4. ClosesNode(AsanaDetails["other"], scope)
    BY NodeNeeds DEF AsanaDetails
  <2> QED BY <2>1, <2>2, <2>3, <2>4
<1>5. \A k \in DOMAIN AsanaOps : ClosesNode(AsanaOps[k], scope)
  <2>1. SUFFICES ASSUME NEW k \in UNION {DOMAIN AsanaProjects, DOMAIN AsanaTasks, DOMAIN AsanaDetails}
                 PROVE  ClosesNode(CASE k \in DOMAIN AsanaProjects -> AsanaProjects[k]
                                     [] k \in DOMAIN AsanaTasks -> AsanaTasks[k]
                                     [] k \in DOMAIN AsanaDetails -> AsanaDetails[k], scope)
    BY DEF AsanaOps
  <2>2. DOMAIN AsanaProjects \cap DOMAIN AsanaTasks = {}
        /\ DOMAIN AsanaProjects \cap DOMAIN AsanaDetails = {} /\ DOMAIN AsanaTasks \cap DOMAIN AsanaDetails = {}
    BY DEF AsanaProjects, AsanaTasks, AsanaDetails
  <2>3. CASE k \in DOMAIN AsanaProjects
    BY <1>2, <2>2, <2>3
  <2>4. CASE k \in DOMAIN AsanaTasks
    BY <1>3, <2>2, <2>4
  <2>5. CASE k \in DOMAIN AsanaDetails
    BY <1>4, <2>2, <2>5
  <2> QED BY <2>3, <2>4, <2>5
<1>6. \A k \in DOMAIN NotionOps : ClosesNode(NotionOps[k], scope)
  <2>1. DOMAIN NotionOps = {"create_database_row", "update_database_row", "create_page", "query_database"}
    BY DEF NotionOps
  <2>2. OpensNode(NotionProperties, scope) /\ OpensNode(NotionFilter, scope)
    BY NodeNeeds DEF NotionProperties, NotionFilter
  <2> DEFINE dbRow(x) == Required(<<x>>) \o NotionProperties \o Required(<<"properties">>)
  <2>3. ASSUME NEW x
        PROVE  OpensNode(dbRow(x), scope)
    <3>1. OpensNode(Required(<<x>>) \o NotionProperties, scope)
      BY <2>2, NodePieces, NodeNeeds
    <3> QED BY <3>1, NodePieces, NodeNeeds
  <2>4. OpensNode(<<Need({"parentDatabaseId", "parentPageId"})>> \o NotionProperties
                    \o <<Need({"title", "properties"})>>, scope)
    <3>1. OpensNode(<<Need({"parentDatabaseId", "parentPageId"})>> \o NotionProperties, scope)
      BY <2>2, NodePieces, NodeNeeds
    <3> QED BY <3>1, NodePieces, NodeNeeds
  <2>5. OpensNode(Required(<<"databaseId">>) \o NotionFilter, scope)
    BY <2>2, NodePieces, NodeNeeds
  <2>6. /\ NotionOps["create_database_row"] = dbRow("databaseId") \o Send
        /\ NotionOps["update_database_row"] = dbRow("pageId") \o Send
        /\ NotionOps["create_page"] =
             (<<Need({"parentDatabaseId", "parentPageId"})>> \o NotionProperties
                \o <<Need({"title", "properties"})>>) \o Send
        /\ NotionOps["query_database"] = (Required(<<"databaseId">>) \o NotionFilter) \o Fetch
    BY DEF NotionOps
  <2> HIDE DEF dbRow
  <2>7. /\ ClosesNode(NotionOps["create_database_row"], scope)
        /\ ClosesNode(NotionOps["update_database_row"], scope)
        /\ ClosesNode(NotionOps["create_page"], scope)
        /\ ClosesNode(NotionOps["query_database"], scope)
    BY <1>1, <2>3, <2>4, <2>5, <2>6
  <2> QED BY <2>1, <2>7
<1> QED BY <1>5, <1>6

LEMMA GatesOpen ==
    ASSUME NEW scope \in Scopes
    PROVE  /\ OpensNode(PremiumGate, scope) /\ Asks(PremiumGate) /\ OpensNode(InferPlatform, scope)
           /\ OpensNode(ConnectionUsage, scope) /\ OpensNode(TeamsConnection, scope)
<1>1. OpensNode(InferPlatform, scope) /\ OpensNode(ConnectionUsage, scope) /\ OpensNode(TeamsConnection, scope)
  BY NodeNeeds DEF InferPlatform, ConnectionUsage, TeamsConnection
<1> DEFINE E == NodeSteps(scope) \ (Uses \cup Tokens)
           gate == <<HasWorkspace, Do("member"), Do("plan")>>
<1>2. "need" \in E /\ "member" \in E /\ "plan" \in E
  BY DEF NodeSteps, SharedNodeSteps, OwnNodeSteps, Uses, Tokens
<1>3. /\ Good(HasWorkspace, E) /\ Good(Do("member"), E) /\ Good(Do("plan"), E)
      /\ Do("member").do = "member" /\ Do("plan").do = "plan"
  BY <1>2 DEF Good, Do, HasWorkspace, Need
<1>4. Len(gate) = 3 /\ gate[2] = Do("member") /\ gate[3] = Do("plan")
  OBVIOUS
<1>5. Clean(gate, E)
  BY <1>3, TupleIsClean
<1> HIDE DEF E, gate
<1>6. OpensNode(gate, scope)
  BY <1>5, HarmlessOpens DEF OpensNode, E
<1>7. Asks(gate)
  <2>1. 2 \in 1..3 /\ 3 \in 1..3
    OBVIOUS
  <2> QED BY <1>3, <1>4, <2>1 DEF Asks, Has
<1>8. PremiumGate = InferPlatform \o gate
  BY DEF PremiumGate, gate
<1> QED BY <1>1, <1>6, <1>7, <1>8, NodePieces

\* A node's script, from how it takes its token on.
LEMMA TokensOpen ==
    ASSUME NEW scope \in Scopes
    PROVE  /\ OpensNode(AsanaToken(scope), scope) /\ OpensNode(NotionToken(scope), scope)
           /\ OpensNode(IF scope = "workspace" THEN SlackBot ELSE SlackUser, scope)
           /\ OpensNode(IF scope = "workspace" THEN SharedConnection("token") ELSE <<Do("own")>>, scope)
           /\ scope = "workspace" => /\ Asks(AsanaToken(scope)) /\ Asks(NotionToken(scope))
                                     /\ Asks(SlackBot) /\ Asks(SharedConnection("token"))
<1>1. scope \in {"workspace", "personal"}
  BY DEF Scopes
<1>2. /\ OpensNode(IF scope = "workspace" THEN SlackBot ELSE SlackUser, scope)
      /\ OpensNode(IF scope = "workspace" THEN SharedConnection("token") ELSE <<Do("own")>>, scope)
      /\ OpensNode(IF scope = "workspace" THEN SharedConnection("token") ELSE <<Do("own"), Do("provider")>>, scope)
      /\ Asks(SlackBot) /\ Asks(SharedConnection("token"))
  BY <1>1, NodeTokens
<1>3. OpensNode(ConnectionUsage, scope)
  BY GatesOpen
<1>4. OpensNode(AsanaToken(scope), scope) /\ OpensNode(NotionToken(scope), scope)
  BY <1>2, <1>3, NodePieces DEF AsanaToken, NotionToken
<1>5. scope = "workspace" => Asks(AsanaToken(scope)) /\ Asks(NotionToken(scope))
  BY <1>2, <1>3, NodePieces DEF AsanaToken, NotionToken
<1> QED BY <1>2, <1>4, <1>5

LEMMA MessagesClose ==
    ASSUME NEW scope \in Scopes
    PROVE  /\ ClosesNode(SlackScript(scope), scope) /\ Asks(SlackScript(scope))
           /\ \A m : OpensNode(m, scope) =>
                ClosesNode(TeamsDelegated(scope, m), scope) /\ Asks(TeamsDelegated(scope, m))
           /\ ClosesNode(TeamsConnector, scope) /\ Asks(TeamsConnector)
           /\ ClosesNode(TeamsWorkflow, scope) /\ ClosesNode(GoogleChat, scope)
           /\ OpensNode(TeamsText, scope) /\ OpensNode(TeamsCard, scope)
           /\ ClosesNode(SheetsScript(scope), scope) /\ (scope = "workspace" => Asks(SheetsScript(scope)))
<1> DEFINE slack == IF scope = "workspace" THEN SlackBot ELSE SlackUser
           token == IF scope = "workspace" THEN SharedConnection("token") ELSE <<Do("own")>>
<1>0. /\ OpensNode(PremiumGate, scope) /\ Asks(PremiumGate) /\ OpensNode(InferPlatform, scope)
      /\ OpensNode(ConnectionUsage, scope) /\ OpensNode(TeamsConnection, scope)
      /\ OpensNode(slack, scope) /\ OpensNode(token, scope)
      /\ ClosesNode(Send, scope)
  BY GatesOpen, TokensOpen, NodeNeeds
<1>1. scope = "workspace" => Asks(token)
  BY TokensOpen
<1> HIDE DEF slack, token
<1>2. ASSUME NEW a, NEW b, OpensNode(a, scope), OpensNode(b, scope)
      PROVE  OpensNode(a \o b, scope) /\ (Asks(a) \/ Asks(b) => Asks(a \o b))
  BY <1>2, NodePieces
<1>3. ASSUME NEW a, OpensNode(a, scope)
      PROVE  ClosesNode(a \o Send, scope) /\ (Asks(a) => Asks(a \o Send))
  BY <1>0, <1>3, NodePieces
<1>4. ClosesNode(SlackScript(scope), scope) /\ Asks(SlackScript(scope))
  <2>1. OpensNode(SlackIdentity, scope)
    BY <1>0, <1>2, NodeNeeds DEF SlackIdentity
  <2> DEFINE p == PremiumGate \o SlackIdentity
             q == p \o slack
             r == q \o Required(<<"channel", "message">>)
  <2>2. OpensNode(p, scope) /\ Asks(p)
    BY <1>0, <1>2, <2>1
  <2> HIDE DEF p
  <2>3. OpensNode(q, scope) /\ Asks(q)
    BY <1>0, <1>2, <2>2
  <2> HIDE DEF q
  <2>4. OpensNode(r, scope) /\ Asks(r)
    BY <1>2, <2>3, NodeNeeds
  <2>5. SlackScript(scope) = r \o Send
    BY DEF SlackScript, p, q, r, slack
  <2> HIDE DEF r
  <2> QED BY <1>3, <2>4, <2>5
<1>5. ASSUME NEW m, OpensNode(m, scope)
      PROVE  ClosesNode(TeamsDelegated(scope, m), scope) /\ Asks(TeamsDelegated(scope, m))
  <2> DEFINE p == PremiumGate \o Required(<<"microsoft">>)
             q == p \o TeamsConnection
             r == q \o Required(<<"teamId", "channelId">>)
             s == r \o token
             t == s \o m
  <2>1. OpensNode(p, scope) /\ Asks(p)
    BY <1>0, <1>2, NodeNeeds
  <2> HIDE DEF p
  <2>2. OpensNode(q, scope) /\ Asks(q)
    BY <1>0, <1>2, <2>1
  <2> HIDE DEF q
  <2>3. OpensNode(r, scope) /\ Asks(r)
    BY <1>2, <2>2, NodeNeeds
  <2> HIDE DEF r
  <2>4. OpensNode(s, scope) /\ Asks(s)
    BY <1>0, <1>2, <2>3
  <2> HIDE DEF s
  <2>5. OpensNode(t, scope) /\ Asks(t)
    BY <1>2, <1>5, <2>4
  <2>6. TeamsDelegated(scope, m) = t \o Send
    BY DEF TeamsDelegated, p, q, r, s, t, token
  <2> HIDE DEF t
  <2> QED BY <1>3, <2>5, <2>6
<1>6. ClosesNode(TeamsConnector, scope) /\ Asks(TeamsConnector)
  <2>1. OpensNode(PremiumGate \o Required(<<"webhookUrl", "message", "themeColor", "httpUrl">>), scope)
        /\ Asks(PremiumGate \o Required(<<"webhookUrl", "message", "themeColor", "httpUrl">>))
    BY <1>0, <1>2, NodeNeeds
  <2> QED BY <1>3, <2>1 DEF TeamsConnector
<1>7. ClosesNode(TeamsWorkflow, scope)
  <2> DEFINE p == PremiumGate \o Required(<<"webhookUrl", "workflowRawJson", "validJson">>)
             q == p \o <<Need({"basic", "workflowHeaderName"}), Need({"basic", "workflowHeaderSecret"})>>
             r == q \o Required(<<"httpUrl">>)
  <2>1. OpensNode(p, scope)
    BY <1>0, <1>2, NodeNeeds
  <2> HIDE DEF p
  <2>2. OpensNode(q, scope)
    BY <1>2, <2>1, NodeNeeds
  <2> HIDE DEF q
  <2>3. OpensNode(r, scope)
    BY <1>2, <2>2, NodeNeeds
  <2>4. TeamsWorkflow = r \o Send
    BY DEF TeamsWorkflow, p, q, r
  <2> HIDE DEF r
  <2> QED BY <1>3, <2>3, <2>4
<1>8. ClosesNode(GoogleChat, scope)
  <2> DEFINE p == InferPlatform \o Required(<<"webhookUrl">>)
             q == p \o <<Need({"cardJson", "message"}), Need({"hasCards", "message"})>>
             r == q \o Required(<<"httpUrl">>)
  <2>1. OpensNode(p, scope)
    BY <1>0, <1>2, NodeNeeds
  <2> HIDE DEF p
  <2>2. OpensNode(q, scope)
    BY <1>2, <2>1, NodeNeeds
  <2> HIDE DEF q
  <2>3. OpensNode(r, scope)
    BY <1>2, <2>2, NodeNeeds
  <2>4. GoogleChat = r \o Send
    BY DEF GoogleChat, p, q, r
  <2> HIDE DEF r
  <2> QED BY <1>3, <2>3, <2>4
<1>9. OpensNode(TeamsText, scope) /\ OpensNode(TeamsCard, scope)
  BY NodeNeeds DEF TeamsText, TeamsCard
<1>10. ClosesNode(SheetsScript(scope), scope) /\ (scope = "workspace" => Asks(SheetsScript(scope)))
  <2> DEFINE p == Required(<<"spreadsheetId", "worksheet">>) \o ConnectionUsage
             q == SheetsParams \o token
  <2>1. OpensNode(p, scope)
    BY <1>0, <1>2, NodeNeeds
  <2> HIDE DEF p
  <2>2. OpensNode(p \o Required(<<"columns", "columnNames", "distinctColumns">>), scope)
    BY <1>2, <2>1, NodeNeeds
  <2>3. OpensNode(SheetsParams, scope)
    BY <2>2 DEF SheetsParams, p
  <2>4. OpensNode(q, scope) /\ (scope = "workspace" => Asks(q))
    BY <1>0, <1>1, <1>2, <2>3
  <2>5. SheetsScript(scope) = q \o Send
    BY DEF SheetsScript, q, token
  <2> HIDE DEF q
  <2> QED BY <1>3, <2>4, <2>5
<1> QED BY <1>4, <1>5, <1>6, <1>7, <1>8, <1>9, <1>10

LEMMA MailsClose ==
    ASSUME NEW scope \in Scopes
    PROVE  /\ ClosesNode(SmtpScript, scope) /\ ClosesNode(SendGridScript, scope)
           /\ ClosesNode(MailgunScript, scope)
           /\ ClosesNode(SesParams \o SesV1, scope) /\ ClosesNode(SesParams \o SesV2, scope)
<1>1. ASSUME NEW a, NEW b, OpensNode(a, scope), OpensNode(b, scope)
      PROVE  OpensNode(a \o b, scope)
  BY <1>1, NodePieces
<1>2. ASSUME NEW a, OpensNode(a, scope)
      PROVE  ClosesNode(a \o Send, scope)
  BY <1>2, NodePieces, NodeNeeds
<1>3. OpensNode(Recipients, scope) /\ OpensNode(Content, scope) /\ OpensNode(SignAwsRequest, scope)
  BY NodeNeeds DEF Recipients, Content, SignAwsRequest
<1>4. ClosesNode(SmtpScript, scope)
  <2> DEFINE p == Required(<<"smtpHost", "smtpPort", "smtpUser", "smtpPassword", "from">>) \o Recipients
             q == p \o Required(<<"subject", "body", "tls">>)
  <2>1. OpensNode(p, scope)
    BY <1>1, <1>3, NodeNeeds
  <2> HIDE DEF p
  <2>2. OpensNode(q, scope)
    BY <1>1, <2>1, NodeNeeds
  <2> QED BY <1>2, <2>2 DEF SmtpScript, p
<1>5. ASSUME NEW a, OpensNode(a, scope)
      PROVE  OpensNode(a \o Recipients \o Content, scope)
  BY <1>1, <1>3, <1>5
<1>6. ClosesNode(SendGridScript, scope) /\ ClosesNode(MailgunScript, scope)
  BY <1>2, <1>5, NodeNeeds DEF SendGridScript, MailgunScript
<1>7. OpensNode(SesParams, scope)
  <2> DEFINE p == Required(<<"awsAccessKey", "awsSecretKey", "awsRegion", "sesVersion", "from">>)
                    \o Recipients \o Content
  <2>1. OpensNode(p, scope)
    BY <1>5, NodeNeeds
  <2> HIDE DEF p
  <2>2. OpensNode(p \o Required(<<"sesEndpoint">>), scope)
    BY <1>1, <2>1, NodeNeeds
  <2> QED BY <2>2 DEF SesParams, p
<1>8. ClosesNode(SesV1, scope) /\ ClosesNode(SesV2, scope)
  BY <1>2, <1>3 DEF SesV1, SesV2
<1>9. ClosesNode(SesParams \o SesV1, scope) /\ ClosesNode(SesParams \o SesV2, scope)
  BY <1>7, <1>8, NodePieces
<1> QED BY <1>4, <1>6, <1>9

\* The scripts of the routes.
OpensRoute(s, k, scope) == Opens(s, StepsOf(k, scope), {})
ClosesRoute(s, k, scope) == Closes(s, StepsOf(k, scope), {})
\* The workspace is that of a connection of the user's workspaces.
Finds(s) == Has(s, "listed") \/ Has(s, "get")

LEMMA RoutePieces ==
    ASSUME NEW k \in Routes, NEW scope \in Scopes
    PROVE  /\ \A p, q : OpensRoute(p, k, scope) /\ OpensRoute(q, k, scope) =>
                OpensRoute(p \o q, k, scope) /\ (Finds(p) \/ Finds(q) => Finds(p \o q))
           /\ \A p, q : OpensRoute(p, k, scope) /\ ClosesRoute(q, k, scope) =>
                ClosesRoute(p \o q, k, scope) /\ (Finds(p) \/ Finds(q) => Finds(p \o q))
           /\ \A A : OpensRoute(<<Need(A)>>, k, scope) /\ ClosesRoute(<<Need(A)>>, k, scope)
           /\ \A a, b : OpensRoute(Required(<<a>>), k, scope) /\ OpensRoute(Required(<<a, b>>), k, scope)
           /\ \A s : Clean(s, StepsOf(k, scope) \ Uses) => OpensRoute(s, k, scope)
           /\ k # "googleToken" => ClosesRoute(Fetch, k, scope)
           /\ k = "googleToken" => ClosesRoute(<<Do("handOut")>>, k, scope)
<1> DEFINE D == StepsOf(k, scope)
<1>1. /\ "need" \in D /\ (k # "googleToken" => "fetch" \in D) /\ (k = "googleToken" => "handOut" \in D)
      /\ "fetch" \notin Tokens /\ "handOut" \notin Tokens
  BY DEF StepsOf, SharedRouteSteps, OwnRouteSteps, Tokens
<1> HIDE DEF D
<1>2. \A p, q : OpensRoute(p, k, scope) /\ OpensRoute(q, k, scope) => OpensRoute(p \o q, k, scope)
  BY OpensThen DEF OpensRoute
<1>3. \A p, q : OpensRoute(p, k, scope) /\ ClosesRoute(q, k, scope) => ClosesRoute(p \o q, k, scope)
  BY OpensThen DEF OpensRoute, ClosesRoute
<1>4. ASSUME NEW p, NEW q, NEW E, Clean(p, D \ Uses), Clean(q, E), Finds(p) \/ Finds(q)
      PROVE  Finds(p \o q)
  BY <1>4, HasConcat DEF Finds
<1>5. /\ \A A : OpensRoute(<<Need(A)>>, k, scope) /\ ClosesRoute(<<Need(A)>>, k, scope)
      /\ \A a, b : OpensRoute(Required(<<a>>), k, scope) /\ OpensRoute(Required(<<a, b>>), k, scope)
  BY <1>1, NeedsOpen DEF OpensRoute, ClosesRoute, D
<1>6. \A s : Clean(s, D \ Uses) => OpensRoute(s, k, scope)
  BY DEF OpensRoute, Opens, Followed, D
<1>7. /\ k # "googleToken" => ClosesRoute(Fetch, k, scope)
      /\ k = "googleToken" => ClosesRoute(<<Do("handOut")>>, k, scope)
  BY <1>1, UsesClose DEF ClosesRoute, Fetch, D
<1>8. \A p, q : OpensRoute(p, k, scope) /\ OpensRoute(q, k, scope) => (Finds(p) \/ Finds(q) => Finds(p \o q))
  BY <1>4 DEF OpensRoute, Opens, D
<1>9. \A p, q : OpensRoute(p, k, scope) /\ ClosesRoute(q, k, scope) => (Finds(p) \/ Finds(q) => Finds(p \o q))
  BY <1>4 DEF OpensRoute, ClosesRoute, Opens, Closes, D
<1> QED BY <1>2, <1>3, <1>5, <1>6, <1>7, <1>8, <1>9 DEF D

\* How a route takes its token.
LEMMA RouteTokens ==
    ASSUME NEW k \in Routes
    PROVE  /\ OpensRoute(<<Do("listed"), Do("oauthRow"), Do("slackToken"), Do("home"), Do("plan"),
                           Do("member")>>, k, "workspace")
           /\ Finds(<<Do("listed"), Do("oauthRow"), Do("slackToken"), Do("home"), Do("plan"), Do("member")>>)
           /\ OpensRoute(MicrosoftToken, k, "workspace") /\ Finds(MicrosoftToken)
           /\ OpensRoute(<<Do("get"), Do("plan"), Do("member")>>, k, "workspace")
           /\ OpensRoute(<<Do("get"), Do("token")>>, k, "workspace") /\ Finds(<<Do("get"), Do("token")>>)
           /\ OpensRoute(<<Do("own"), Do("provider")>>, k, "personal")
           /\ OpensRoute(<<Do("get"), Do("token"), Do("provider"), Do("home")>>, k, "workspace")
           /\ Finds(<<Do("get"), Do("token"), Do("provider"), Do("home")>>)
           /\ OpensRoute(AsanaRouteToken, k, "workspace") /\ Finds(AsanaRouteToken)
           /\ \A scope \in Scopes : OpensRoute(<<Do("anyPlan")>>, k, scope) /\ OpensRoute(<<Do("cache")>>, k, scope)
<1> DEFINE E(scope) == StepsOf(k, scope) \ Uses
<1>1. \A c \in {"listed", "get", "oauthRow", "slackToken", "token", "home", "plan", "member", "provider"} :
        c \in E("workspace")
  BY DEF StepsOf, SharedRouteSteps, Uses
<1>2. "own" \in E("personal") /\ "provider" \in E("personal")
      /\ \A scope \in Scopes : "anyPlan" \in E(scope) /\ "cache" \in E(scope)
  BY DEF StepsOf, SharedRouteSteps, OwnRouteSteps, Uses, Scopes
<1>3. \A scope : \A s : Clean(s, E(scope)) => OpensRoute(s, k, scope)
  BY DEF OpensRoute, Opens, Followed
<1> HIDE DEF E
<1>4. \A scope : \A c \in E(scope) : Good(Do(c), E(scope))
  BY DEF Good, Do
<1>5. \A c : Do(c).do = c
  BY DEF Do
<1>6. /\ OpensRoute(MicrosoftToken, k, "workspace")
      /\ OpensRoute(<<Do("get"), Do("plan"), Do("member")>>, k, "workspace")
  BY <1>1, <1>3, <1>4, TupleIsClean DEF MicrosoftToken
<1>7. /\ OpensRoute(<<Do("get"), Do("token")>>, k, "workspace")
      /\ OpensRoute(<<Do("own"), Do("provider")>>, k, "personal")
  BY <1>1, <1>2, <1>3, <1>4, TupleIsClean
<1>8. /\ OpensRoute(<<Do("get"), Do("token"), Do("provider"), Do("home")>>, k, "workspace")
      /\ OpensRoute(AsanaRouteToken, k, "workspace")
  BY <1>1, <1>3, <1>4, TupleIsClean DEF AsanaRouteToken
<1>9. \A scope \in Scopes : OpensRoute(<<Do("anyPlan")>>, k, scope) /\ OpensRoute(<<Do("cache")>>, k, scope)
  BY <1>2, <1>3, <1>4, TupleIsClean
<1>10. ASSUME NEW s, Len(s) \in Nat, Len(s) > 0, s[1] = Do("listed") \/ s[1] = Do("get")
       PROVE  Finds(s)
  BY <1>5, <1>10 DEF Finds, Has
<1>11. Finds(MicrosoftToken) /\ Finds(AsanaRouteToken) /\ Finds(<<Do("get"), Do("token")>>)
       /\ Finds(<<Do("get"), Do("token"), Do("provider"), Do("home")>>)
  <2>1. Len(MicrosoftToken) = 3 /\ MicrosoftToken[1] = Do("listed")
    BY DEF MicrosoftToken
  <2>2. Len(AsanaRouteToken) = 5 /\ AsanaRouteToken[1] = Do("listed")
    BY DEF AsanaRouteToken
  <2> DEFINE two == <<Do("get"), Do("token")>>
             four == <<Do("get"), Do("token"), Do("provider"), Do("home")>>
  <2>3. Len(two) = 2 /\ two[1] = Do("get") /\ Len(four) = 4 /\ four[1] = Do("get")
    OBVIOUS
  <2> HIDE DEF two, four
  <2>4. Finds(two) /\ Finds(four)
    BY <1>10, <2>3
  <2>5. Finds(MicrosoftToken) /\ Finds(AsanaRouteToken)
    BY <1>10, <2>1, <2>2
  <2> QED BY <2>4, <2>5 DEF two, four
<1>12. /\ OpensRoute(<<Do("listed"), Do("oauthRow"), Do("slackToken"), Do("home"), Do("plan"), Do("member")>>,
                     k, "workspace")
       /\ Finds(<<Do("listed"), Do("oauthRow"), Do("slackToken"), Do("home"), Do("plan"), Do("member")>>)
  <2> DEFINE s == <<Do("listed"), Do("oauthRow"), Do("slackToken"), Do("home"), Do("plan"), Do("member")>>
             S == {Do("listed"), Do("oauthRow"), Do("slackToken"), Do("home"), Do("plan"), Do("member")}
  <2>1. s \in Seq(S) /\ Len(s) = 6 /\ s[1] = Do("listed")
    OBVIOUS
  <2>2. \A x \in S : Good(x, E("workspace"))
    BY <1>1, <1>4
  <2> HIDE DEF s, S
  <2>3. s \in Seq(S)
    BY <2>1
  <2>4. \A i \in 1..Len(s) : s[i] \in S
    BY <2>3
  <2>5. Clean(s, E("workspace"))
    BY <2>2, <2>3, <2>4 DEF Clean
  <2>6. Finds(s)
    BY <1>5, <2>1 DEF Finds, Has
  <2>7. OpensRoute(s, k, "workspace")
    BY <1>3, <2>5
  <2> QED BY <2>6, <2>7 DEF s
<1> QED BY <1>6, <1>7, <1>8, <1>9, <1>11, <1>12

LEMMA RoutesClose ==
    ASSUME NEW k \in Routes, NEW scope \in Scopes, NEW gives
    PROVE  /\ ClosesRoute(Script(k, scope, gives), k, scope)
           /\ scope = "workspace" => Finds(Script(k, scope, gives))
<1> DEFINE O(s) == OpensRoute(s, k, scope)
           C(s) == ClosesRoute(s, k, scope)
           W == scope = "workspace"
<1>1. /\ \A p, q : O(p) /\ O(q) => O(p \o q) /\ (Finds(p) \/ Finds(q) => Finds(p \o q))
      /\ \A p, q : O(p) /\ C(q) => C(p \o q) /\ (Finds(p) \/ Finds(q) => Finds(p \o q))
      /\ \A A : O(<<Need(A)>>) /\ C(<<Need(A)>>)
      /\ \A a, b : O(Required(<<a>>)) /\ O(Required(<<a, b>>))
      /\ k # "googleToken" => C(Fetch)
      /\ k = "googleToken" => C(<<Do("handOut")>>)
  BY RoutePieces
<1>2. C(Refused)
  BY <1>1 DEF Refused
<1>3. /\ O(<<Do("anyPlan")>>) /\ O(<<Do("cache")>>)
      /\ W => O(MicrosoftToken) /\ O(AsanaRouteToken) /\ O(<<Do("get"), Do("plan"), Do("member")>>)
      /\ Finds(MicrosoftToken) /\ Finds(AsanaRouteToken)
  BY RouteTokens
<1>4. scope = "personal" <=> ~W
  BY DEF Scopes
<1> DEFINE slack == <<Do("listed"), Do("oauthRow"), Do("slackToken"), Do("home"), Do("plan"), Do("member")>>
           google == IF scope = "workspace" THEN <<Do("get"), Do("token")>> ELSE <<Do("own"), Do("provider")>>
           notion == IF scope = "workspace" THEN <<Do("get"), Do("token"), Do("provider"), Do("home")>>
                                            ELSE <<Do("own"), Do("provider")>>
<1>5. /\ W => O(slack) /\ Finds(slack)
      /\ O(google) /\ (W => Finds(google)) /\ O(notion) /\ (W => Finds(notion))
  BY <1>4, RouteTokens
<1> HIDE DEF O, C, slack, google, notion, W
<1>6. CASE k = "slackChannels"
  <2>1. ~W => C(SlackChannels(scope))
    BY <1>2, <1>4 DEF SlackChannels
  <2>2. W => C(SlackChannels(scope)) /\ Finds(SlackChannels(scope))
    <3>1. W => SlackChannels(scope) = Required(<<"workspace_connection_id">>) \o slack \o Fetch
      BY <1>4 DEF SlackChannels, slack
    <3>2. W => O(Required(<<"workspace_connection_id">>) \o slack)
               /\ Finds(Required(<<"workspace_connection_id">>) \o slack)
      BY <1>1, <1>5
    <3> QED BY <1>1, <1>6, <3>1, <3>2
  <2>3. Script(k, scope, gives) = SlackChannels(scope)
    BY <1>6 DEF Script
  <2> QED BY <2>1, <2>2, <2>3 DEF C, W
<1> DEFINE p == MicrosoftScope \o MicrosoftToken
<1>7. W => O(p) /\ Finds(p) /\ O(MicrosoftScope)
  BY <1>1, <1>3 DEF MicrosoftScope
<1>8. CASE k = "teamsTeams"
  <2>1. MicrosoftTeams(scope) = IF scope = "personal" THEN Refused ELSE p \o Fetch
    BY DEF MicrosoftTeams
  <2> HIDE DEF p
  <2>2. C(MicrosoftTeams(scope)) /\ (W => Finds(MicrosoftTeams(scope)))
    BY <1>1, <1>2, <1>4, <1>7, <1>8, <2>1
  <2>3. Script(k, scope, gives) = MicrosoftTeams(scope)
    BY <1>8 DEF Script
  <2> QED BY <2>2, <2>3 DEF C, W
<1>9. CASE k = "teamsChannels"
  <2>1. MicrosoftChannels(scope) = IF scope = "personal" THEN Refused ELSE p \o Required(<<"teamId">>) \o Fetch
    BY DEF MicrosoftChannels
  <2> HIDE DEF p
  <2>2. W => O(p \o Required(<<"teamId">>)) /\ Finds(p \o Required(<<"teamId">>))
    BY <1>1, <1>7
  <2>3. C(MicrosoftChannels(scope)) /\ (W => Finds(MicrosoftChannels(scope)))
    BY <1>1, <1>2, <1>4, <1>9, <2>1, <2>2
  <2>4. Script(k, scope, gives) = MicrosoftChannels(scope)
    BY <1>9 DEF Script
  <2> QED BY <2>3, <2>4 DEF C, W
<1>10. CASE k = "teamsMembers"
  <2> DEFINE q == MicrosoftScope \o <<Do("get"), Do("plan"), Do("member")>>
             r == q \o MicrosoftToken
             s == r \o Required(<<"teamId", "channelId">>)
  <2>1. W => O(q)
    BY <1>1, <1>3, <1>7
  <2> HIDE DEF q
  <2>2. W => O(r) /\ Finds(r)
    BY <1>1, <1>3, <2>1
  <2> HIDE DEF r
  <2>3. W => O(s) /\ Finds(s)
    BY <1>1, <2>2
  <2>4. W => MicrosoftMembers(scope) = s \o Fetch
    BY <1>4 DEF MicrosoftMembers, q, r, s
  <2> HIDE DEF s
  <2>5. W => C(MicrosoftMembers(scope)) /\ Finds(MicrosoftMembers(scope))
    BY <1>1, <1>10, <2>3, <2>4
  <2>6. ~W => C(MicrosoftMembers(scope))
    BY <1>1, <1>2, <1>3, <1>4 DEF MicrosoftMembers
  <2>7. Script(k, scope, gives) = MicrosoftMembers(scope)
    BY <1>10 DEF Script
  <2> QED BY <2>5, <2>6, <2>7 DEF C, W
<1>11. GoogleToken(scope) = Required(<<"scope", "connection_id">>) \o google
       /\ O(GoogleToken(scope)) /\ (W => Finds(GoogleToken(scope)))
  <2>1. GoogleToken(scope) = Required(<<"scope", "connection_id">>) \o google
    BY DEF GoogleToken, google
  <2> QED BY <1>1, <1>5, <2>1
<1>12. CASE k = "googleSheets"
  <2> DEFINE q == GoogleToken(scope) \o Required(<<"spreadsheetId">>)
             r == q \o <<Do("cache")>>
  <2>1. O(q) /\ (W => Finds(q))
    BY <1>1, <1>11
  <2> HIDE DEF q
  <2>2. O(r) /\ (W => Finds(r))
    BY <1>1, <1>3, <2>1
  <2>3. Script(k, scope, gives) = r \o Fetch
    BY <1>12 DEF Script, GoogleSheets, q, r
  <2> HIDE DEF r
  <2>4. C(r \o Fetch) /\ (W => Finds(r \o Fetch))
    BY <1>1, <1>12, <2>2
  <2> QED BY <2>3, <2>4 DEF C, W
<1>13. CASE k = "googleFiles"
  <2>1. Script(k, scope, gives) = GoogleToken(scope) \o Fetch
    BY <1>13 DEF Script, GoogleFiles
  <2>2. C(GoogleToken(scope) \o Fetch) /\ (W => Finds(GoogleToken(scope) \o Fetch))
    BY <1>1, <1>11, <1>13
  <2> QED BY <2>1, <2>2 DEF C, W
<1>14. CASE k = "googleToken"
  <2>1. Script(k, scope, gives) = GoogleToken(scope) \o <<Do("handOut")>>
    BY <1>14 DEF Script, GoogleAccessToken
  <2>2. C(GoogleToken(scope) \o <<Do("handOut")>>) /\ (W => Finds(GoogleToken(scope) \o <<Do("handOut")>>))
    BY <1>1, <1>11, <1>14
  <2> QED BY <2>1, <2>2 DEF C, W
<1>15. CASE k \in {"notionDatabases", "notionSchema"}
  <2>1. NotionRouteToken(scope) = Required(<<"connectionScope", "connectionId">>) \o notion
    BY DEF NotionRouteToken, notion
  <2>2. O(NotionRouteToken(scope)) /\ (W => Finds(NotionRouteToken(scope)))
    BY <1>1, <1>5, <2>1
  <2>3. Script(k, scope, gives) = NotionRouteToken(scope) \o Fetch
    BY <1>15 DEF Script, NotionDatabases, NotionSchema
  <2>4. C(NotionRouteToken(scope) \o Fetch) /\ (W => Finds(NotionRouteToken(scope) \o Fetch))
    BY <1>1, <1>15, <2>2
  <2> QED BY <2>3, <2>4 DEF C, W
<1>16. ASSUME NEW needs, W => O(needs), k # "googleToken"
       PROVE  C(AsanaRoute(scope, needs)) /\ (W => Finds(AsanaRoute(scope, needs)))
  <2> DEFINE q == Required(<<"connection_id">>) \o AsanaRouteToken
             r == q \o needs
             s == r \o Fetch
  <2>1. W => O(q) /\ Finds(q)
    BY <1>1, <1>3
  <2> HIDE DEF q
  <2>2. W => O(r) /\ Finds(r)
    BY <1>1, <1>16, <2>1
  <2> HIDE DEF r
  <2>3. W => C(s) /\ Finds(s)
    BY <1>1, <1>16, <2>2
  <2>4. W => AsanaRoute(scope, needs) = <<Do("anyPlan")>> \o s
    BY <1>4 DEF AsanaRoute, q, r, s
  <2>5. ~W => AsanaRoute(scope, needs) = <<Do("anyPlan")>> \o Refused
    BY <1>4 DEF AsanaRoute
  <2> HIDE DEF s
  <2> QED BY <1>1, <1>2, <1>3, <2>3, <2>4, <2>5
<1>17. CASE k \in AsanaRoutes
  <2>1. O(<<>>) /\ O(Required(<<"projectGid">>))
    <3>1. <<>> \in Seq({}) /\ Len(<<>>) = 0
      OBVIOUS
    <3>2. \A D : Clean(<<>>, D)
      BY <3>1 DEF Clean
    <3> QED BY <1>1, <3>2, RoutePieces DEF O
  <2>2. k # "googleToken"
    BY <1>17 DEF AsanaRoutes
  <2>3. \/ Script(k, scope, gives) = AsanaRoute(scope, <<>>)
        \/ Script(k, scope, gives) = AsanaRoute(scope, Required(<<"projectGid">>))
    <3>1. k \in {"asanaLists", "asanaUsers"} => Script(k, scope, gives) = AsanaRoute(scope, <<>>)
      BY DEF Script, AsanaLists, AsanaUsers
    <3>2. k \in {"asanaTask", "asanaStories"} => Script(k, scope, gives) = AsanaRoute(scope, <<>>)
      BY DEF Script, AsanaTaskDetails, AsanaStories
    <3>3. k = "asanaTaskList" => Script(k, scope, gives) = AsanaRoute(scope, Required(<<"projectGid">>))
      BY DEF Script, AsanaTaskList
    <3> QED BY <1>17, <3>1, <3>2, <3>3 DEF AsanaRoutes
  <2>4. C(Script(k, scope, gives)) /\ (W => Finds(Script(k, scope, gives)))
    BY <1>16, <2>1, <2>2, <2>3
  <2> QED BY <2>4 DEF C, W
<1> QED BY <1>6, <1>8, <1>9, <1>10, <1>12, <1>13, <1>14, <1>15, <1>17 DEF Routes, AsanaRoutes

AsanaNames == {"createproject", "deleteproject", "getproject", "listprojects", "updateproject", "createsubtask",
               "listsubtasks", "createtask", "deletetask", "gettask", "listtasks", "movetask", "searchtasks",
               "updatetask", "addcomment", "removecomment", "addtaskproject", "removetaskproject",
               "addtasktag", "removetasktag", "getuser", "listusers", "other"}
NotionNames == {"create_database_row", "update_database_row", "create_page", "query_database"}

LEMMA OperationNames == DOMAIN AsanaOps = AsanaNames /\ DOMAIN NotionOps = NotionNames
<1>1. DOMAIN AsanaOps = UNION {DOMAIN AsanaProjects, DOMAIN AsanaTasks, DOMAIN AsanaDetails}
  BY DEF AsanaOps
<1>2. DOMAIN AsanaProjects = {"createproject", "deleteproject", "getproject", "listprojects",
                              "updateproject", "createsubtask", "listsubtasks"}
  BY DEF AsanaProjects
<1>3. DOMAIN AsanaTasks = {"createtask", "deletetask", "gettask", "listtasks", "movetask", "searchtasks",
                             "updatetask"}
  BY DEF AsanaTasks
<1>4. DOMAIN AsanaDetails = {"addcomment", "removecomment", "addtaskproject", "removetaskproject",
                             "addtasktag", "removetasktag", "getuser", "listusers", "other"}
  BY DEF AsanaDetails
<1>5. DOMAIN NotionOps = {"create_database_row", "update_database_row", "create_page", "query_database"}
  BY DEF NotionOps
<1> QED BY <1>1, <1>2, <1>3, <1>4, <1>5 DEF AsanaNames, NotionNames

LEMMA NodesClose ==
    ASSUME NEW k \in Kinds \ Routes, NEW scope \in ScopesOf(k), NEW gives
    PROVE  /\ ClosesNode(Script(k, scope, gives), scope)
           /\ scope = "workspace" => Asks(Script(k, scope, gives))
<1> DEFINE Fits(s) == ClosesNode(s, scope) /\ (scope = "workspace" => Asks(s))
<1>1. scope \in Scopes /\ (k \in Hooks \cup Mails => scope # "workspace")
  BY DEF ScopesOf, Scopes
<1>0. /\ DOMAIN AsanaOps = AsanaNames /\ DOMAIN NotionOps = NotionNames
  BY OperationNames
<1>2. CASE k = "slack"
  <2>1. Script(k, scope, gives) = SlackScript(scope)
    BY <1>0, <1>2 DEF Script, AsanaNames, NotionNames
  <2> QED BY <1>1, <2>1, MessagesClose
<1>3. CASE k \in GraphKinds
  <2>1. /\ Fits(TeamsDelegated(scope, TeamsText)) /\ Fits(TeamsDelegated(scope, TeamsCard))
        /\ Fits(TeamsConnector)
    BY <1>1, MessagesClose
  <2>2. \/ Script(k, scope, gives) = TeamsDelegated(scope, TeamsText)
        \/ Script(k, scope, gives) = TeamsDelegated(scope, TeamsCard)
        \/ Script(k, scope, gives) = TeamsConnector
    <3>1. k = "teamsText" => Script(k, scope, gives) = TeamsDelegated(scope, TeamsText)
      BY <1>0 DEF Script, AsanaNames, NotionNames
    <3>2. k = "teamsCard" => Script(k, scope, gives) = TeamsDelegated(scope, TeamsCard)
      BY <1>0 DEF Script, AsanaNames, NotionNames
    <3>3. k = "teamsInferred" =>
            Script(k, scope, gives) = IF TeamsMethod(gives) = "delegated" THEN TeamsDelegated(scope, TeamsText)
                                                                         ELSE TeamsConnector
      BY <1>0 DEF Script, AsanaNames, NotionNames
    <3> QED BY <1>3, <3>1, <3>2, <3>3 DEF GraphKinds
  <2> HIDE DEF Fits
  <2>3. Fits(Script(k, scope, gives))
    BY <2>1, <2>2
  <2> QED BY <2>3 DEF Fits
<1>4. CASE k \in Hooks
  <2>1. ClosesNode(TeamsConnector, scope) /\ ClosesNode(TeamsWorkflow, scope) /\ ClosesNode(GoogleChat, scope)
    BY <1>1, MessagesClose
  <2>2. /\ k = "teamsConnector" => Script(k, scope, gives) = TeamsConnector
        /\ k = "teamsWorkflow" => Script(k, scope, gives) = TeamsWorkflow
        /\ k = "googleChat" => Script(k, scope, gives) = GoogleChat
    BY <1>0 DEF Script, AsanaNames, NotionNames
  <2>3. ClosesNode(Script(k, scope, gives), scope)
    BY <1>4, <2>1, <2>2 DEF Hooks
  <2> QED BY <1>1, <1>4, <2>3
<1>5. CASE k \in Mails
  <2>1. /\ ClosesNode(SmtpScript, scope) /\ ClosesNode(SendGridScript, scope) /\ ClosesNode(MailgunScript, scope)
        /\ ClosesNode(SesParams \o SesV1, scope) /\ ClosesNode(SesParams \o SesV2, scope)
    BY <1>1, MailsClose
  <2>2. /\ k = "smtp" => Script(k, scope, gives) = SmtpScript
        /\ k = "sendgrid" => Script(k, scope, gives) = SendGridScript
        /\ k = "mailgun" => Script(k, scope, gives) = MailgunScript
    BY <1>0 DEF Script, AsanaNames, NotionNames
  <2>3. /\ k = "sesV1" => Script(k, scope, gives) = SesParams \o SesV1
        /\ k = "sesV2" => Script(k, scope, gives) = SesParams \o SesV2
    BY <1>0 DEF Script, AsanaNames, NotionNames
  <2>4. ClosesNode(Script(k, scope, gives), scope)
    BY <1>5, <2>1, <2>2, <2>3 DEF Mails
  <2> QED BY <1>1, <1>5, <2>4
<1>6. ASSUME NEW token, OpensNode(token, scope), scope = "workspace" => Asks(token),
             NEW s, ClosesNode(s, scope)
      PROVE  Fits(token \o s)
  BY <1>1, <1>6, NodePieces
<1>7. CASE k \in DOMAIN AsanaOps
  <2>1. Script(k, scope, gives) = AsanaToken(scope) \o AsanaOps[k]
    BY <1>0, <1>7 DEF Script, AsanaNames, NotionNames
  <2>2. Fits(AsanaToken(scope) \o AsanaOps[k])
    BY <1>1, <1>6, <1>7, TokensOpen, OperationsClose
  <2> QED BY <2>1, <2>2
<1>8. CASE k \in DOMAIN NotionOps
  <2>1. Script(k, scope, gives) = NotionToken(scope) \o NotionOps[k]
    BY <1>0, <1>8 DEF Script, AsanaNames, NotionNames
  <2>2. Fits(NotionToken(scope) \o NotionOps[k])
    BY <1>1, <1>6, <1>8, TokensOpen, OperationsClose
  <2> QED BY <2>1, <2>2
<1>9. CASE k = "sheets"
  BY <1>1, <1>9, MessagesClose DEF Script
<1> QED BY <1>2, <1>3, <1>4, <1>5, <1>7, <1>8, <1>9 DEF Kinds

\* Every script, by the kind of the call.
LEMMA ScriptsFit ==
    ASSUME NEW k \in Kinds, NEW scope \in ScopesOf(k), NEW gives
    PROVE  /\ Closes(Script(k, scope, gives), StepsOf(k, scope), Watches(k, scope))
           /\ scope = "workspace" => IF k \in Routes THEN Finds(Script(k, scope, gives))
                                                     ELSE Asks(Script(k, scope, gives))
<1>1. scope \in Scopes
  BY DEF ScopesOf, Scopes
<1>2. CASE k \in Routes
  <2>1. Watches(k, scope) = {}
    BY <1>2 DEF Watches
  <2> QED BY <1>1, <1>2, <2>1, RoutesClose DEF ClosesRoute
<1>3. CASE k \notin Routes
  <2>1. StepsOf(k, scope) = NodeSteps(scope) /\ Watches(k, scope) = NodeWatches(scope)
    BY <1>3 DEF StepsOf, Watches, NodeSteps, NodeWatches
  <2> QED BY <1>3, <2>1, NodesClose DEF ClosesNode
<1> QED BY <1>2, <1>3

\* The rights at every moment of the call are in what it has seen, and its script is the
\* end of one of its kind.
ScriptInv ==
    IF call.pc = "idle" THEN call.scope = "personal"
      ELSE /\ call.kind \in Kinds
           /\ Closes(call.todo, StepsOf(call.kind, call.scope), Watches(call.kind, call.scope))
           /\ belongs \subseteq call.member /\ Paid \subseteq call.paid

\* What a workspace connection's token needs is still asked by the rest of the script, or
\* was so at some moment; a call that has used the token has nothing left to ask.
EntitledInv ==
    call.scope = "workspace" =>
      /\ call.authorized => call.cred.home = link.home /\ call.cred.provider = link.provider
      /\ call.kind \in Routes => Finds(call.todo) \/ (link.home \in call.member /\ link.provider)
      /\ call.kind \notin Routes =>
           /\ call.ws = "here"
           /\ Has(call.todo, "member") \/ "here" \in call.member
           /\ Has(call.todo, "plan") \/ "here" \in call.paid
           /\ call.authorized => /\ Has(call.todo, "home") \/ link.home = "here"
                                 /\ Has(call.todo, "provider") \/ link.provider
      /\ call.used => \A c : Has(call.todo, c) => c \in Uses

\* Nothing has been delivered before the call ends.
SentInv ==
    /\ call.pc # "done" => posted = 0 /\ call.result = "none"
    /\ SentIsTold /\ RevokedIsPurged

CallInv == CallTypes /\ ScriptInv /\ EntitledInv /\ SentInv

LEMMA CallStart == ServiceCallsInit => CallInv
<1> SUFFICES ASSUME ServiceCallsInit
             PROVE  CallInv
  OBVIOUS
<1>1. GoodLink \in LinkRecords /\ GoodOwn \in OwnRecords
  BY DEF GoodLink, GoodOwn, LinkRecords, OwnRecords, Workspaces, SlackTeamIds, CallTokens
<1> HIDE DEF GoodLink, GoodOwn
<1>2. link \in LinkRecords
  <2>1. /\ [GoodLink EXCEPT !.row = FALSE] \in LinkRecords /\ [GoodLink EXCEPT !.home = "there"] \in LinkRecords
        /\ [GoodLink EXCEPT !.provider = FALSE] \in LinkRecords /\ [GoodLink EXCEPT !.hook = "only"] \in LinkRecords
    BY <1>1 DEF LinkRecords, Workspaces
  <2>2. /\ [GoodLink EXCEPT !.hook = "also"] \in LinkRecords /\ [GoodLink EXCEPT !.team = "none"] \in LinkRecords
        /\ [GoodLink EXCEPT !.team = "U"] \in LinkRecords /\ [GoodLink EXCEPT !.token = "old"] \in LinkRecords
    BY <1>1 DEF LinkRecords, SlackTeamIds, CallTokens
  <2>3. /\ [GoodLink EXCEPT !.token = "revoked"] \in LinkRecords /\ [GoodLink EXCEPT !.sealed = FALSE] \in LinkRecords
        /\ [GoodLink EXCEPT !.hook = "also", !.source = FALSE] \in LinkRecords
    BY <1>1 DEF LinkRecords, CallTokens
  <2> QED BY <1>1, <2>1, <2>2, <2>3 DEF ServiceCallsInit, Links
<1>3. own \in OwnRecords
  <2>1. /\ [GoodOwn EXCEPT !.row = FALSE] \in OwnRecords /\ [GoodOwn EXCEPT !.newer = TRUE] \in OwnRecords
        /\ [GoodOwn EXCEPT !.provider = FALSE] \in OwnRecords /\ [GoodOwn EXCEPT !.team = "none"] \in OwnRecords
    BY <1>1 DEF OwnRecords, SlackTeamIds
  <2>2. /\ [GoodOwn EXCEPT !.token = "old"] \in OwnRecords /\ [GoodOwn EXCEPT !.token = "revoked"] \in OwnRecords
        /\ [GoodOwn EXCEPT !.newer = TRUE, !.token = "revoked"] \in OwnRecords
    BY <1>1 DEF OwnRecords, CallTokens
  <2> QED BY <1>1, <2>1, <2>2 DEF ServiceCallsInit, Owns
<1>4. call = NoCall /\ posted = 0 /\ belongs \in SUBSET Workspaces /\ tier \in [Workspaces -> {"solo", "workspace"}]
  BY DEF ServiceCallsInit, Workspaces
<1>5. call \in CallRecords(call.gives, call.todo)
  BY <1>1, <1>4 DEF NoCall, CallRecords, CallPcs, Scopes, Workspaces, SlackTeamIds, CallResults
<1>6. /\ call.pc = "idle" /\ call.scope = "personal" /\ call.result = "none" /\ ~call.unsure
  BY <1>4 DEF NoCall
<1>7. CallTypes
  BY <1>2, <1>3, <1>4, <1>5 DEF CallTypes
<1>8. SentInv
  BY <1>4, <1>6 DEF SentInv, SentIsTold, RevokedIsPurged
<1> QED BY <1>6, <1>7, <1>8 DEF CallInv, ScriptInv, EntitledInv

\* The fields of a call that most steps keep.
Keeps(c, d) ==
    /\ d.kind = c.kind /\ d.scope = c.scope /\ d.member = c.member /\ d.paid = c.paid
    /\ d.unsure = c.unsure /\ d.unpurged = c.unpurged /\ d.displaced = c.displaced

\* A connection keeps its workspace and its provider.
KeepsLinks ==
    /\ link' \in LinkRecords /\ link'.home = link.home /\ link'.provider = link.provider
    /\ own' \in OwnRecords

\* The call ends without a request of its own.
LEMMA CallEnds ==
    ASSUME CallInv, call.pc \in {"check", "refresh"}, NEW r \in {"ok", "error", "skipped"},
           r = "ok" => call.kind \in Routes,
           call' = [call EXCEPT !.pc = "done", !.result = r],
           KeepsLinks, UNCHANGED <<belongs, tier, posted>>
    PROVE  CallInv'
<1>1. /\ call' \in CallRecords(call'.gives, call'.todo) /\ Keeps(call, call')
      /\ call'.pc = "done" /\ call'.result = r /\ call'.todo = call.todo /\ call'.ws = call.ws
      /\ call'.authorized = call.authorized /\ call'.cred = call.cred /\ call'.used = call.used
  BY DEF CallInv, CallTypes, CallRecords, CallPcs, CallResults, Keeps
<1>2. CallTypes'
  BY <1>1 DEF CallInv, CallTypes, KeepsLinks
<1>3. ScriptInv'
  BY <1>1 DEF CallInv, ScriptInv, Keeps, Paid
<1>4. EntitledInv'
  BY <1>1 DEF CallInv, EntitledInv, Keeps, KeepsLinks
<1>5. posted = 0
  BY DEF CallInv, SentInv
<1>6. SentInv'
  BY <1>1, <1>5 DEF SentInv, SentIsTold, RevokedIsPurged, Keeps
<1> QED BY <1>2, <1>3, <1>4, <1>6 DEF CallInv


\* The call goes on with the rest s of its script, past the steps that do p.
LEMMA CallAdvances ==
    ASSUME CallInv, call.pc = "check", NEW s, NEW p,
           Closes(s, StepsOf(call.kind, call.scope), Watches(call.kind, call.scope)),
           Has(call.todo, p), p \notin Uses, \A c : Has(call.todo, c) => Has(s, c) \/ c = p,
           p \in Tokens => \A g \in Watches(call.kind, call.scope) : Has(s, g),
           call' \in CallRecords(call'.gives, call'.todo), Keeps(call, call'), call'.pc = "check",
           call'.todo = s, call'.used = call.used, call'.result = call.result,
           KeepsLinks, UNCHANGED <<belongs, tier, posted>>,
           call.scope = "workspace" =>
             /\ call'.authorized => /\ call'.cred.home = link.home /\ call'.cred.provider = link.provider
                                    /\ call.authorized \/ p \in Tokens
             /\ p \in {"listed", "get"} => link.home \in belongs /\ link.provider
             /\ call.kind \notin Routes => call'.ws = call.ws
             /\ p = "member" => call.ws \in belongs
             /\ p = "plan" => call.ws \in Paid
             /\ p = "home" => call.cred.home = call.ws
             /\ p = "provider" => call.cred.provider
    PROVE  CallInv'
<1>1. CallTypes'
  BY DEF CallInv, CallTypes, KeepsLinks
<1>2. /\ call.kind \in Kinds /\ belongs \subseteq call.member /\ Paid \subseteq call.paid
  BY DEF CallInv, ScriptInv
<1>3. ScriptInv'
  BY <1>2 DEF ScriptInv, Keeps, Paid
<1>4. SentInv'
  BY DEF CallInv, SentInv, SentIsTold, RevokedIsPurged, Keeps
<1>5. ASSUME call.scope = "workspace"
      PROVE  EntitledInv'
  <2>1. ~call'.used
    BY <1>5 DEF CallInv, EntitledInv
  <2>2. CASE call.kind \in Routes
    <3>1. Finds(s) \/ (link.home \in call.member /\ link.provider)
      BY <1>2, <1>5, <2>2 DEF CallInv, EntitledInv, Finds
    <3> QED BY <1>5, <2>1, <2>2, <3>1 DEF EntitledInv, Keeps, KeepsLinks
  <2>3. CASE call.kind \notin Routes
    <3>1. /\ call.ws = "here"
          /\ Has(call.todo, "member") \/ "here" \in call.member
          /\ Has(call.todo, "plan") \/ "here" \in call.paid
          /\ call.authorized => /\ Has(call.todo, "home") \/ link.home = "here"
                                /\ Has(call.todo, "provider") \/ link.provider
                                /\ call.cred.home = link.home /\ call.cred.provider = link.provider
      BY <1>5, <2>3 DEF CallInv, EntitledInv
    <3>2. Has(s, "member") \/ "here" \in call.member
      BY <1>2, <1>5, <3>1
    <3>3. Has(s, "plan") \/ "here" \in call.paid
      BY <1>2, <1>5, <3>1
    <3>4. ASSUME call'.authorized
          PROVE  (Has(s, "home") \/ link.home = "here") /\ (Has(s, "provider") \/ link.provider)
      <4>1. CASE p \in Tokens
        BY <1>5, <2>3, <4>1 DEF Watches
      <4>2. CASE p \notin Tokens
        BY <1>5, <3>1, <3>4, <4>2
      <4> QED BY <4>1, <4>2
    <3> QED BY <1>5, <2>1, <2>3, <3>1, <3>2, <3>3, <3>4 DEF EntitledInv, Keeps, KeepsLinks
  <2> QED BY <2>2, <2>3
<1>6. EntitledInv'
  BY <1>5 DEF EntitledInv, Keeps
<1> QED BY <1>1, <1>3, <1>4, <1>6 DEF CallInv

\* The same, past the first step.
LEMMA StepTaken ==
    ASSUME CallInv, call.pc = "check", call.todo # <<>>, Head(call.todo).do \notin Uses
    PROVE  /\ Closes(Tail(call.todo), StepsOf(call.kind, call.scope), Watches(call.kind, call.scope))
           /\ Has(call.todo, Head(call.todo).do)
           /\ \A c : Has(call.todo, c) => Has(Tail(call.todo), c) \/ c = Head(call.todo).do
           /\ Head(call.todo).do \in Tokens =>
                \A g \in Watches(call.kind, call.scope) : Has(Tail(call.todo), g)
           /\ Head(call.todo).do \in StepsOf(call.kind, call.scope)
<1>1. Closes(call.todo, StepsOf(call.kind, call.scope), Watches(call.kind, call.scope))
  BY DEF CallInv, ScriptInv
<1>2. 1 \in 1..Len(call.todo)
  <2>1. PICK S : call.todo \in Seq(S)
    BY <1>1 DEF Closes, Clean
  <2> QED BY <2>1
<1>3. Has(call.todo, Head(call.todo).do)
  BY <1>1, <1>2, ScriptTail DEF Has
<1> DEFINE s == call.todo
           D == StepsOf(call.kind, call.scope)
           G == Watches(call.kind, call.scope)
<1>4. Closes(s, D, G) /\ 1 \in 1..Len(s)
  BY <1>1, <1>2
<1> HIDE DEF s, D, G
<1>5. /\ Closes(Tail(s), D, G) /\ \A c : Has(s, c) => Head(s).do = c \/ Has(Tail(s), c)
      /\ \A g \in G : Head(s).do \in Tokens => Has(Tail(s), g)
      /\ Good(Head(s), D)
  BY <1>4, ScriptTail
<1> QED BY <1>3, <1>5 DEF Good, s, D, G

LEMMA BeginCallSafe ==
    ASSUME CallInv, call.pc = "idle", NEW k \in Kinds, NEW scope \in ScopesOf(k), NEW gives,
           BeginCall(k, scope, gives)
    PROVE  CallInv'
<1>1. PICK cred \in LinkRecords :
        NoCall = [pc |-> "idle", kind |-> "none", scope |-> "personal", gives |-> {}, todo |-> <<>>,
                  ws |-> "here", authorized |-> FALSE, cred |-> cred, myTeam |-> "none",
                  used |-> FALSE, tries |-> 0, refreshed |-> FALSE, unsure |-> FALSE, unpurged |-> FALSE,
                  displaced |-> FALSE, member |-> {}, paid |-> {}, result |-> "none"]
  <2>1. GoodLink \in LinkRecords
    BY DEF GoodLink, LinkRecords, Workspaces, SlackTeamIds, CallTokens
  <2> QED BY <2>1 DEF NoCall
<1>2. scope \in Scopes
  BY DEF ScopesOf, Scopes
<1> DEFINE s == Script(k, scope, gives)
<1>3. /\ Closes(s, StepsOf(k, scope), Watches(k, scope))
      /\ scope = "workspace" => IF k \in Routes THEN Finds(s) ELSE Asks(s)
  BY ScriptsFit
<1>4. /\ call' = [NoCall EXCEPT !.pc = "check", !.kind = k, !.scope = scope, !.gives = gives,
                                !.todo = s, !.member = belongs, !.paid = Paid]
      /\ UNCHANGED <<belongs, tier, link, own, posted>>
  BY DEF BeginCall, surroundings
<1> HIDE DEF s, NoCall
<1>5. belongs \in SUBSET Workspaces /\ Paid \in SUBSET Workspaces /\ link \in LinkRecords /\ own \in OwnRecords
      /\ posted = 0 /\ tier \in [Workspaces -> {"solo", "workspace"}]
  BY DEF CallInv, CallTypes, SentInv, Paid
<1>6. /\ call' \in CallRecords(call'.gives, call'.todo) /\ call'.pc = "check" /\ call'.kind = k
      /\ call'.scope = scope /\ call'.todo = s /\ call'.member = belongs /\ call'.paid = Paid
      /\ call'.ws = "here" /\ ~call'.authorized /\ ~call'.used /\ call'.result = "none"
  <2>1. call' = [pc |-> "check", kind |-> k, scope |-> scope, gives |-> gives, todo |-> s,
                 ws |-> "here", authorized |-> FALSE, cred |-> cred, myTeam |-> "none",
                 used |-> FALSE, tries |-> 0, refreshed |-> FALSE, unsure |-> FALSE, unpurged |-> FALSE,
                 displaced |-> FALSE, member |-> belongs, paid |-> Paid, result |-> "none"]
    BY <1>1, <1>4
  <2>3. call' \in CallRecords(gives, s)
    BY <1>2, <1>5, <2>1 DEF CallRecords, CallPcs, Workspaces, SlackTeamIds, CallResults
  <2> QED BY <2>1, <2>3
<1>7. CallTypes'
  BY <1>4, <1>5, <1>6 DEF CallTypes
<1>8. ScriptInv'
  BY <1>3, <1>4, <1>6 DEF ScriptInv, Paid
<1>9. EntitledInv'
  BY <1>3, <1>4, <1>6 DEF EntitledInv, Asks
<1>10. SentInv'
  BY <1>4, <1>5, <1>6 DEF SentInv, SentIsTold, RevokedIsPurged
<1> QED BY <1>7, <1>8, <1>9, <1>10 DEF CallInv

LEMMA CheckParametersSafe == ASSUME CallInv, CheckParameters
                             PROVE  CallInv'
<1>1. call.pc = "check" /\ UNCHANGED <<belongs, tier, link, own, posted>>
  BY DEF CheckParameters, AtStep, surroundings
<1>2. KeepsLinks
  BY <1>1 DEF CallInv, CallTypes, KeepsLinks
<1>3. CASE End("error")
  BY <1>1, <1>2, <1>3, CallEnds DEF End
<1>4. ASSUME NEW n \in DOMAIN call.todo, \A i \in 1..(n - 1) : Given(call.todo[i]),
             call.todo[n].do # "need", call' = [call EXCEPT !.todo = SubSeq(call.todo, n, Len(call.todo))],
             call.todo # <<>>, Head(call.todo).do = "need"
      PROVE  CallInv'
  <2> DEFINE s == SubSeq(call.todo, n, Len(call.todo))
             t == call.todo
  <2>1. Closes(t, StepsOf(call.kind, call.scope), Watches(call.kind, call.scope))
    BY <1>1 DEF CallInv, ScriptInv
  <2>2. n \in 1..Len(t) /\ Head(t) = t[1]
    <3>1. PICK S : t \in Seq(S)
      BY <2>1 DEF Closes, Clean
    <3> QED BY <1>4, <3>1
  <2>3. /\ Closes(s, StepsOf(call.kind, call.scope), Watches(call.kind, call.scope))
        /\ \A c : Has(t, c) => Has(s, c) \/ c = "need"
    <3> DEFINE D == StepsOf(call.kind, call.scope)
               G == Watches(call.kind, call.scope)
    <3>1. Closes(t, D, G)
      BY <2>1
    <3> HIDE DEF t, D, G
    <3>2. /\ Closes(SubSeq(t, n, Len(t)), D, G)
          /\ \A c : Has(t, c) => Has(SubSeq(t, n, Len(t)), c) \/ \E i \in 1..(n - 1) : t[i].do = c
      BY <2>2, <3>1, ScriptTail
    <3>3. \A i \in 1..(n - 1) : t[i].do = "need"
      BY <1>4 DEF Given, t
    <3> QED BY <3>2, <3>3 DEF t, D, G
  <2>4. 1 \in 1..Len(t)
    <3>1. PICK S : t \in Seq(S)
      BY <2>1 DEF Closes, Clean
    <3> QED BY <2>2, <3>1
  <2>5. Has(t, "need") /\ "need" \notin Uses /\ "need" \notin Tokens
    BY <1>4, <2>2, <2>4 DEF Has, Uses, Tokens
  <2>6. call' = [call EXCEPT !.todo = s]
    BY <1>4
  <2> HIDE DEF s
  <2>7. /\ call' \in CallRecords(call'.gives, call'.todo) /\ Keeps(call, call') /\ call'.pc = "check"
        /\ call'.todo = s /\ call'.used = call.used /\ call'.result = call.result
        /\ call'.authorized = call.authorized /\ call'.cred = call.cred /\ call'.ws = call.ws
    BY <1>1, <2>6 DEF CallInv, CallTypes, CallRecords, Keeps
  <2>8. call.scope = "workspace" /\ call.authorized => call.cred.home = link.home /\ call.cred.provider = link.provider
    BY DEF CallInv, EntitledInv
  <2> QED BY <1>1, <1>2, <2>3, <2>5, <2>7, <2>8, CallAdvances
<1> QED BY <1>3, <1>4 DEF CheckParameters, AtStep

LEMMA CheckRightsSafe == ASSUME CallInv, CheckRights
                         PROVE  CallInv'
<1>1. call.pc = "check" /\ UNCHANGED <<belongs, tier, link, own, posted>>
  BY DEF CheckRights, AtStep, surroundings
<1>2. KeepsLinks
  BY <1>1 DEF CallInv, CallTypes, KeepsLinks
<1>3. CASE End("error")
  BY <1>1, <1>2, <1>3, CallEnds DEF End
<1>4. ASSUME NEW c \in Checks, AtStep(c), Holds(c), Advance
      PROVE  CallInv'
  <2>1. c \notin Uses /\ c \notin Tokens /\ c \notin {"listed", "get"}
    BY DEF Checks, Queries, Uses, Tokens
  <2>2. call.todo # <<>> /\ Head(call.todo).do = c
    BY <1>4 DEF AtStep
  <2> DEFINE s == Tail(call.todo)
  <2>3. /\ Closes(s, StepsOf(call.kind, call.scope), Watches(call.kind, call.scope))
        /\ Has(call.todo, c) /\ \A d : Has(call.todo, d) => Has(s, d) \/ d = c
    BY <1>1, <2>1, <2>2, StepTaken
  <2>4. call' = [call EXCEPT !.todo = s]
    BY <1>4 DEF Advance
  <2> HIDE DEF s
  <2>5. /\ call' \in CallRecords(call'.gives, call'.todo) /\ Keeps(call, call') /\ call'.pc = "check"
        /\ call'.todo = s /\ call'.used = call.used /\ call'.result = call.result
        /\ call'.authorized = call.authorized /\ call'.cred = call.cred /\ call'.ws = call.ws
    BY <1>1, <2>4 DEF CallInv, CallTypes, CallRecords, Keeps
  <2>6. call.scope = "workspace" /\ call.authorized => call.cred.home = link.home /\ call.cred.provider = link.provider
    BY DEF CallInv, EntitledInv
  <2>7. call.ws \in Workspaces
    BY DEF CallInv, CallTypes, CallRecords
  <2>8. /\ c = "member" => call.ws \in belongs
        /\ c = "plan" => call.ws \in Paid
        /\ c = "home" => call.cred.home = call.ws
        /\ c = "provider" => call.cred.provider
    BY <1>4, <2>7 DEF Holds, EnsureRunMembership, EnsureWorkspacePlan, Paid
  <2> QED BY <1>1, <1>2, <2>1, <2>3, <2>5, <2>6, <2>8, CallAdvances
<1> QED BY <1>3, <1>4 DEF CheckRights

\* Which kinds of call have a step.
LEMMA StepsByKind ==
    ASSUME NEW k, NEW scope
    PROVE  /\ "own" \in StepsOf(k, scope) \/ "loadLink" \in StepsOf(k, scope) => scope # "workspace"
           /\ "cache" \in StepsOf(k, scope) \/ "handOut" \in StepsOf(k, scope) => k \in Routes
           /\ "listed" \in StepsOf(k, scope) \/ "get" \in StepsOf(k, scope) => k \in Routes
           /\ "send" \in StepsOf(k, scope) => k \notin Routes
           /\ "fetch" \in StepsOf(k, scope) => k # "googleToken"
<1>1. "googleToken" \in Routes
  BY DEF Routes
<1>2. CASE k \notin Routes
  BY <1>1, <1>2 DEF StepsOf, SharedNodeSteps, OwnNodeSteps
<1>3. CASE k \in Routes /\ scope = "workspace"
  BY <1>3 DEF StepsOf, SharedRouteSteps
<1>4. CASE k \in Routes /\ scope # "workspace"
  BY <1>4 DEF StepsOf, OwnRouteSteps
<1> QED BY <1>2, <1>3, <1>4

LEMMA FindsSafe == ASSUME CallInv, FindListed \/ GetConnection
                   PROVE  CallInv'
<1>1. PICK p \in {"listed", "get"} :
        /\ AtStep(p) /\ UNCHANGED <<belongs, tier, link, own, posted>>
        /\ \/ /\ link.row /\ link.provider /\ link.home \in belongs
              /\ call' = [call EXCEPT !.todo = Tail(call.todo), !.ws = link.home]
           \/ End("error")
  BY DEF FindListed, GetConnection, surroundings
<1>2. call.pc = "check" /\ call.todo # <<>> /\ Head(call.todo).do = p
  BY <1>1 DEF AtStep
<1>3. KeepsLinks
  BY <1>1 DEF CallInv, CallTypes, KeepsLinks
<1>4. CASE End("error")
  BY <1>1, <1>2, <1>3, <1>4, CallEnds DEF End
<1>5. ASSUME link.provider, link.home \in belongs,
             call' = [call EXCEPT !.todo = Tail(call.todo), !.ws = link.home]
      PROVE  CallInv'
  <2> DEFINE s == Tail(call.todo)
  <2>1. p \notin Uses /\ p \notin Tokens /\ p # "member" /\ p # "plan" /\ p # "home" /\ p # "provider"
    BY DEF Uses, Tokens
  <2>2. /\ Closes(s, StepsOf(call.kind, call.scope), Watches(call.kind, call.scope))
        /\ Has(call.todo, p) /\ \A d : Has(call.todo, d) => Has(s, d) \/ d = p
        /\ p \in StepsOf(call.kind, call.scope)
    BY <1>2, <2>1, StepTaken
  <2>3. call.kind \in Routes
    BY <2>2, StepsByKind
  <2>4. call' = [call EXCEPT !.todo = s, !.ws = link.home]
    BY <1>5
  <2>5. link.home \in Workspaces
    BY DEF CallInv, CallTypes, LinkRecords
  <2> HIDE DEF s
  <2>6. /\ call' \in CallRecords(call'.gives, call'.todo) /\ Keeps(call, call') /\ call'.pc = "check"
        /\ call'.todo = s /\ call'.used = call.used /\ call'.result = call.result
        /\ call'.authorized = call.authorized /\ call'.cred = call.cred
    BY <1>2, <2>4, <2>5 DEF CallInv, CallTypes, CallRecords, Keeps
  <2>7. call.scope = "workspace" /\ call.authorized => call.cred.home = link.home /\ call.cred.provider = link.provider
    BY DEF CallInv, EntitledInv
  <2> QED BY <1>1, <1>2, <1>3, <1>5, <2>1, <2>2, <2>3, <2>6, <2>7, CallAdvances
<1> QED BY <1>1, <1>4, <1>5

\* A step that takes the token of a workspace connection, or a personal one.
LEMMA TakesToken ==
    ASSUME CallInv, NEW p \in {"token", "slackToken", "loadLink", "own"}, AtStep(p), KeepsLinks,
           UNCHANGED <<belongs, tier, posted>>, NEW cred \in LinkRecords, NEW team \in SlackTeamIds,
           p \in Tokens => cred.home = link.home /\ cred.provider = link.provider,
           call' = [call EXCEPT !.todo = Tail(call.todo), !.authorized = TRUE, !.cred = cred, !.myTeam = team]
    PROVE  CallInv'
<1>1. call.pc = "check" /\ call.todo # <<>> /\ Head(call.todo).do = p
  BY DEF AtStep
<1> DEFINE s == Tail(call.todo)
<1>2. /\ p \notin Uses /\ p # "member" /\ p # "plan" /\ p # "home" /\ p # "provider"
      /\ p \notin {"listed", "get"} /\ (p \notin Tokens => p \in {"loadLink", "own"})
  BY DEF Uses, Tokens
<1>3. /\ Closes(s, StepsOf(call.kind, call.scope), Watches(call.kind, call.scope))
      /\ Has(call.todo, p) /\ \A d : Has(call.todo, d) => Has(s, d) \/ d = p
      /\ p \in Tokens => \A g \in Watches(call.kind, call.scope) : Has(s, g)
      /\ p \in StepsOf(call.kind, call.scope)
  BY <1>1, <1>2, StepTaken
<1>4. p \notin Tokens => call.scope # "workspace"
  BY <1>2, <1>3, StepsByKind
<1>5. call' = [call EXCEPT !.todo = s, !.authorized = TRUE, !.cred = cred, !.myTeam = team]
  OBVIOUS
<1> HIDE DEF s
<1>6. /\ call' \in CallRecords(call'.gives, call'.todo) /\ Keeps(call, call') /\ call'.pc = "check"
      /\ call'.todo = s /\ call'.used = call.used /\ call'.result = call.result
      /\ call'.authorized = TRUE /\ call'.cred = cred /\ call'.ws = call.ws
  BY ZenonT(60), <1>1, <1>5 DEF CallInv, CallTypes, CallRecords, Keeps
<1> QED BY <1>1, <1>2, <1>3, <1>4, <1>6, CallAdvances

LEMMA TakeTokenIs ==
    ASSUME CallInv, NEW c \in LinkRecords
    PROVE  TakeToken(c) = [call EXCEPT !.todo = Tail(call.todo), !.authorized = TRUE, !.cred = c,
                                       !.myTeam = call.myTeam]
BY DEF CallInv, CallTypes, CallRecords, TakeToken

LEMMA WorkspaceTokensSafe == ASSUME CallInv, EnsureValidWorkspaceToken \/ SlackWorkspaceToken \/ LoadLink
                             PROVE  CallInv'
<1>1. UNCHANGED <<belongs, tier, own, posted>> /\ call.pc = "check"
  BY DEF EnsureValidWorkspaceToken, SlackWorkspaceToken, LoadLink, AtStep, surroundings
<1>2. /\ link \in LinkRecords /\ own \in OwnRecords /\ call.myTeam \in SlackTeamIds /\ call.cred \in LinkRecords
      /\ CallTokens = {"valid", "old", "revoked"}
  BY DEF CallInv, CallTypes, CallRecords, CallTokens
<1>3. /\ \A b \in BOOLEAN : [link EXCEPT !.row = b] \in LinkRecords
                            /\ [link EXCEPT !.row = b].home = link.home
                            /\ [link EXCEPT !.row = b].provider = link.provider
      /\ \A t \in CallTokens : [link EXCEPT !.token = t] \in LinkRecords
                               /\ [link EXCEPT !.token = t].home = link.home
                               /\ [link EXCEPT !.token = t].provider = link.provider
  BY <1>2 DEF LinkRecords
<1>4. ASSUME KeepsLinks, End("error")
      PROVE  CallInv'
  BY <1>1, <1>4, CallEnds DEF End
<1>5. ASSUME NEW p \in {"token", "slackToken", "loadLink"}, AtStep(p), KeepsLinks,
             NEW c \in LinkRecords, c.home = link.home, c.provider = link.provider, call' = TakeToken(c)
      PROVE  CallInv'
  BY <1>1, <1>2, <1>5, TakeTokenIs, TakesToken
<1>6. CASE EnsureValidWorkspaceToken
  <2>1. \/ call' = TakeToken(link) /\ UNCHANGED link
        \/ link' = [link EXCEPT !.token = "valid"] /\ call' = TakeToken(link')
        \/ link' = [link EXCEPT !.row = FALSE] /\ End("error")
        \/ End("error") /\ UNCHANGED link
    BY <1>6 DEF EnsureValidWorkspaceToken
  <2>2. KeepsLinks
    BY <1>1, <1>2, <1>3, <2>1 DEF KeepsLinks
  <2>3. AtStep("token") /\ link' \in LinkRecords /\ link'.home = link.home /\ link'.provider = link.provider
    BY <1>6, <2>2 DEF EnsureValidWorkspaceToken, KeepsLinks
  <2>4. CASE call' = TakeToken(link)
    BY <1>2, <1>5, <2>2, <2>3, <2>4
  <2>5. CASE call' = TakeToken(link')
    BY <1>5, <2>2, <2>3, <2>5
  <2> QED BY <1>4, <2>1, <2>2, <2>4, <2>5
<1>7. CASE SlackWorkspaceToken
  <2>1. KeepsLinks /\ AtStep("slackToken") /\ (call' = TakeToken(link) \/ End("error"))
    BY <1>2, <1>7 DEF SlackWorkspaceToken, KeepsLinks, surroundings
  <2> QED BY <1>2, <1>4, <1>5, <2>1
<1>8. CASE LoadLink
  <2> DEFINE c == [link EXCEPT !.token = call.cred.token]
  <2>1. KeepsLinks /\ AtStep("loadLink") /\ (call' = TakeToken(c) \/ End("error"))
    BY <1>2, <1>8 DEF LoadLink, KeepsLinks, surroundings
  <2>2. call.cred.token \in CallTokens
    BY <1>2 DEF LinkRecords
  <2>3. c \in LinkRecords /\ c.home = link.home /\ c.provider = link.provider
    BY <1>3, <2>2
  <2> HIDE DEF c
  <2> QED BY <1>4, <1>5, <2>1, <2>3
<1> QED BY <1>6, <1>7, <1>8

LEMMA OwnTokenSafe == ASSUME CallInv, OwnToken
                      PROVE  CallInv'
<1>1. UNCHANGED <<belongs, tier, link, posted>> /\ AtStep("own") /\ call.pc = "check"
  BY DEF OwnToken, AtStep
<1>2. link \in LinkRecords /\ own \in OwnRecords
  BY DEF CallInv, CallTypes
<1>3. \/ call' = TakeOwn(own) /\ UNCHANGED own
      \/ own' = [own EXCEPT !.token = "valid"] /\ call' = TakeOwn(own')
      \/ own' = [own EXCEPT !.row = FALSE] /\ End("error")
      \/ End("error") /\ UNCHANGED own
  BY DEF OwnToken
<1>4. own' \in OwnRecords
  BY <1>2, <1>3 DEF OwnRecords, CallTokens
<1>5. KeepsLinks
  BY <1>1, <1>2, <1>4 DEF KeepsLinks
<1>6. ASSUME NEW o \in OwnRecords, call' = TakeOwn(o)
      PROVE  CallInv'
  <2> DEFINE c == [GoodLink EXCEPT !.provider = o.provider, !.token = o.token]
  <2>1. c \in LinkRecords /\ o.team \in SlackTeamIds
    BY DEF OwnRecords, LinkRecords, GoodLink, Workspaces, SlackTeamIds, CallTokens
  <2>2. call' = [TakeToken(c) EXCEPT !.myTeam = o.team]
    BY <1>6 DEF TakeOwn
  <2> HIDE DEF c
  <2>3. TakeToken(c) = [call EXCEPT !.todo = Tail(call.todo), !.authorized = TRUE, !.cred = c,
                                    !.myTeam = call.myTeam]
    BY <2>1, TakeTokenIs
  <2>4. call' = [call EXCEPT !.todo = Tail(call.todo), !.authorized = TRUE, !.cred = c, !.myTeam = o.team]
    BY <2>2, <2>3
  <2>5. "own" \notin Tokens
    BY DEF Tokens
  <2> QED BY <1>1, <1>5, <2>1, <2>4, <2>5, TakesToken
<1>7. CASE End("error")
  BY <1>1, <1>5, <1>7, CallEnds DEF End
<1> QED BY <1>2, <1>3, <1>4, <1>6, <1>7

\* The token is used by the last step, after every check.
LEMMA UsedLast ==
    ASSUME CallInv, NEW p \in Uses, AtStep(p)
    PROVE  /\ \A c : Has(call.todo, c) => c \in Uses
           /\ p \in StepsOf(call.kind, call.scope) /\ 1 \in DOMAIN call.todo /\ call.todo[1] = Do(p)
<1> DEFINE s == call.todo
           D == StepsOf(call.kind, call.scope)
           G == Watches(call.kind, call.scope)
<1>1. Closes(s, D, G) /\ s # <<>> /\ Head(s).do = p
  BY DEF CallInv, ScriptInv, AtStep
<1> HIDE DEF D, G
<1>2. PICK S : s \in Seq(S)
  BY <1>1 DEF Closes, Clean
<1>3. 1 \in 1..Len(s) /\ DOMAIN s = 1..Len(s)
  BY <1>1, <1>2
<1> HIDE DEF s
<1>4. Head(s) = s[1] /\ Good(Head(s), D) /\ Len(s) = 1
  BY <1>1, <1>3, ScriptTail
<1>5. \A i \in 1..Len(s) : s[i] = Head(s)
  BY <1>4
<1>6. p # "need"
  BY DEF Uses
<1> QED BY <1>1, <1>3, <1>4, <1>5, <1>6 DEF Has, Good, D, s

LEMMA VerdictsTell ==
    ASSUME CallInv, call.kind \in Kinds, call.kind # "googleToken", NEW a \in Answers
    PROVE  /\ Verdict(a) \in Verdicts
           /\ Verdict(a) = "ok" => a \in {"done", "garbled"}
           /\ Verdict(a) = "error" => a # "done"
           /\ Verdict(a) \in {"again", "refresh", "purge"} => a \notin {"done", "garbled", "lost"}
<1> DEFINE Tells(v) == /\ v \in Verdicts /\ (v = "ok" => a \in {"done", "garbled"})
                       /\ v = "error" => a # "done"
                       /\ v \in {"again", "refresh", "purge"} => a \notin {"done", "garbled", "lost"}
<1>1. a \in {"revoked", "expired", "lost", "done", "garbled", "refused", "throttled"}
  BY DEF Answers
<1>2. Tells(TakesAnySuccess(a)) /\ Tells(ReadsBody(a))
  BY <1>1 DEF TakesAnySuccess, ReadsBody, Verdicts
<1>3. Tells("refresh") \/ a # "expired"
  BY <1>1 DEF Verdicts
<1>4. Tells("purge") \/ ~IsRevocationSignal(a)
  BY <1>1 DEF IsRevocationSignal, Verdicts
<1>5. Tells("again") \/ a # "throttled"
  BY <1>1 DEF Verdicts
<1>6. Tells("error") \/ a # "expired"
  BY <1>1 DEF Verdicts
<1> HIDE DEF Tells
<1>7. Tells(SlackVerdict(a))
  BY <1>2, <1>3, <1>4, <1>6 DEF SlackVerdict
<1>8. Tells(SlackListVerdict(a)) /\ Tells(TeamsVerdict(a)) /\ Tells(SheetsVerdict(a)) /\ Tells(NotionVerdict(a))
  BY <1>2, <1>3, <1>4, <1>5 DEF SlackListVerdict, TeamsVerdict, SheetsVerdict, NotionVerdict
<1>9. /\ Tells(HookVerdict(a)) /\ Tells(MailVerdict(a)) /\ Tells(AsanaVerdict(a)) /\ Tells(GraphGet(a))
      /\ Tells(GoogleGet(a)) /\ Tells(AsanaGet(a))
  BY <1>2 DEF HookVerdict, MailVerdict, AsanaVerdict, GraphGet, GoogleGet, AsanaGet
<1> DEFINE v == Verdict(a)
<1>10. \/ v = SlackVerdict(a) \/ v = SlackListVerdict(a) \/ v = TeamsVerdict(a) \/ v = HookVerdict(a)
       \/ v = SheetsVerdict(a) \/ v = NotionVerdict(a) \/ v = MailVerdict(a) \/ v = AsanaVerdict(a)
       \/ v = GraphGet(a) \/ v = GoogleGet(a) \/ v = AsanaGet(a)
  <2>1. \/ call.kind = "slack" \/ call.kind = "slackChannels" \/ call.kind \in GraphKinds
        \/ call.kind = "sheets" \/ call.kind \in NotionKinds \/ call.kind \in Hooks \/ call.kind \in Mails
        \/ call.kind \in DOMAIN AsanaOps \/ call.kind \in {"teamsTeams", "teamsChannels", "teamsMembers"}
        \/ call.kind \in {"googleSheets", "googleFiles"} \/ call.kind \in AsanaRoutes
    BY DEF Kinds, Routes, NotionKinds, AsanaRoutes
  <2>2. \/ v = SlackVerdict(a) \/ v = SlackListVerdict(a)
        \/ v = (IF call.authorized THEN TeamsVerdict(a) ELSE HookVerdict(a))
        \/ v = SheetsVerdict(a) \/ v = NotionVerdict(a) \/ v = HookVerdict(a) \/ v = MailVerdict(a)
        \/ v = AsanaVerdict(a) \/ v = GraphGet(a) \/ v = GoogleGet(a) \/ v = AsanaGet(a)
    BY <2>1, OperationNames DEF Verdict, GraphKinds, NotionKinds, Hooks, Mails, AsanaNames, NotionNames,
                                AsanaRoutes
  <2> QED BY <2>2
<1>11. Tells(v)
  BY <1>7, <1>8, <1>9, <1>10
<1> QED BY <1>11 DEF Tells

LEMMA RequestSafe ==
    ASSUME CallInv, NEW p \in {"send", "fetch"}, AtStep(p), Request(p = "send"), UNCHANGED surroundings
    PROVE  CallInv'
<1>1. /\ \A c : Has(call.todo, c) => c \in Uses
      /\ p \in StepsOf(call.kind, call.scope) /\ 1 \in DOMAIN call.todo /\ call.todo[1] = Do(p)
  BY UsedLast DEF Uses
<1>2. call.pc = "check" /\ posted = 0 /\ call.result = "none" /\ call.kind \in Kinds
  BY DEF CallInv, SentInv, ScriptInv, AtStep
<1>3. call.kind # "googleToken"
  <2>1. "googleToken" \in Routes
    BY DEF Routes
  <2> QED BY <1>1, <2>1, StepsByKind
<1>4. PICK a \in Answers, arrived \in BOOLEAN :
        LET v == Verdict(a)
            sent == [call EXCEPT !.used = TRUE,
                                 !.unsure = call.unsure \/ a = "lost" \/ (a = "garbled" /\ v = "error")]
        IN /\ a \in {"done", "garbled"} => arrived = (p = "send")
           /\ a \notin {"done", "garbled", "lost"} => ~arrived
           /\ posted' = IF arrived THEN posted + 1 ELSE posted
           /\ call' = CASE v = "again" -> [sent EXCEPT !.tries = sent.tries + 1]
                        [] v \in {"refresh", "purge"} -> [sent EXCEPT !.pc = v]
                        [] OTHER -> [sent EXCEPT !.pc = "done", !.result = v]
  BY DEF Request
<1>5. PICK v \in Verdicts :
        /\ v = Verdict(a) /\ (v = "ok" => a \in {"done", "garbled"}) /\ (v = "error" => a # "done")
        /\ v \in {"again", "refresh", "purge"} => a \notin {"done", "garbled", "lost"}
  BY <1>2, <1>3, VerdictsTell
<1> DEFINE sent == [call EXCEPT !.used = TRUE,
                                !.unsure = call.unsure \/ a = "lost" \/ (a = "garbled" /\ v = "error")]
<1>6. /\ sent \in CallRecords(call.gives, call.todo) /\ Keeps([call EXCEPT !.unsure = sent.unsure], sent)
      /\ sent.pc = "check" /\ sent.todo = call.todo /\ sent.used = TRUE /\ sent.result = "none"
      /\ sent.authorized = call.authorized /\ sent.cred = call.cred /\ sent.ws = call.ws
      /\ sent.unsure = (call.unsure \/ a = "lost" \/ (a = "garbled" /\ v = "error"))
      /\ sent.gives = call.gives /\ sent.tries \in Nat
      /\ sent.kind = call.kind /\ sent.scope = call.scope /\ sent.member = call.member /\ sent.paid = call.paid
  BY <1>2 DEF CallInv, CallTypes, CallRecords, Keeps
<1>7. call' = CASE v = "again" -> [sent EXCEPT !.tries = sent.tries + 1]
                [] v \in {"refresh", "purge"} -> [sent EXCEPT !.pc = v]
                [] OTHER -> [sent EXCEPT !.pc = "done", !.result = v]
  BY <1>4, <1>5
<1>8. UNCHANGED <<belongs, tier, link, own>>
  BY DEF surroundings
<1> HIDE DEF sent
<1>9. ASSUME call' \in CallRecords(call.gives, call.todo), call'.pc # "idle", call'.todo = call.todo,
             call'.gives = call.gives, call'.used = TRUE, call'.authorized = call.authorized,
             call'.cred = call.cred, call'.ws = call.ws, call'.kind = call.kind, call'.scope = call.scope,
             call'.member = call.member, call'.paid = call.paid, posted' \in Nat, SentInv'
      PROVE  CallInv'
  <2>1. CallTypes'
    BY <1>8, <1>9 DEF CallInv, CallTypes
  <2>2. ScriptInv'
    BY <1>2, <1>8, <1>9 DEF CallInv, ScriptInv, Paid
  <2>3. EntitledInv'
    BY <1>1, <1>8, <1>9 DEF CallInv, EntitledInv
  <2> QED BY <1>9, <2>1, <2>2, <2>3 DEF CallInv
<1>10. posted' \in {0, 1} /\ posted' \in Nat /\ (a \notin {"done", "garbled", "lost"} => posted' = 0)
       /\ (a \in {"done", "garbled"} => posted' = IF p = "send" THEN 1 ELSE 0)
  BY <1>2, <1>4
<1>11. CASE v \in {"again", "refresh", "purge"}
  <2>1. /\ call' \in CallRecords(call.gives, call.todo) /\ call'.pc \in {"check", "refresh", "purge"}
        /\ call'.todo = call.todo /\ call'.gives = call.gives /\ call'.used = TRUE
        /\ call'.authorized = call.authorized /\ call'.cred = call.cred /\ call'.ws = call.ws
        /\ call'.kind = call.kind /\ call'.scope = call.scope /\ call'.member = call.member
        /\ call'.paid = call.paid /\ call'.result = "none"
    <3>1. CASE v = "again"
      BY <1>6, <1>7, <3>1 DEF CallRecords
    <3>2. CASE v \in {"refresh", "purge"}
      <4>1. call' = [sent EXCEPT !.pc = v]
        BY <1>7, <3>2
      <4> QED BY <1>6, <3>2, <4>1 DEF CallRecords, CallPcs
    <3> QED BY <1>11, <3>1, <3>2
  <2>2. SentInv'
    BY <1>5, <1>10, <1>11, <2>1 DEF SentInv, SentIsTold, RevokedIsPurged
  <2> QED BY <1>9, <1>10, <2>1, <2>2
<1>12. CASE v \in {"ok", "error"}
  <2>1. call' = [sent EXCEPT !.pc = "done", !.result = v]
    BY <1>7, <1>12
  <2>2. /\ call' \in CallRecords(call.gives, call.todo) /\ call'.pc = "done"
        /\ call'.todo = call.todo /\ call'.gives = call.gives /\ call'.used = TRUE
        /\ call'.authorized = call.authorized /\ call'.cred = call.cred /\ call'.ws = call.ws
        /\ call'.kind = call.kind /\ call'.scope = call.scope /\ call'.member = call.member
        /\ call'.paid = call.paid /\ call'.result = v
        /\ call'.unsure = (call.unsure \/ a = "lost" \/ (a = "garbled" /\ v = "error"))
    BY <1>6, <1>12, <2>1 DEF CallRecords, CallPcs, CallResults
  <2>3. ASSUME v = "ok", Fetch[1] \notin {call.todo[i] : i \in DOMAIN call.todo}
        PROVE  posted' = 1
    <3>1. Fetch[1] = Do("fetch")
      BY DEF Fetch
    <3>2. p # "fetch"
      BY <1>1, <2>3, <3>1
    <3> QED BY <1>5, <1>10, <2>3, <3>2
  <2>4. ASSUME v = "error", ~call'.unsure
        PROVE  posted' = 0
    BY <1>5, <1>10, <2>2, <2>4
  <2>5. SentIsTold'
    BY <1>10, <1>12, <2>2, <2>3, <2>4 DEF SentIsTold
  <2>6. SentInv'
    BY <1>12, <2>2, <2>5 DEF SentInv, RevokedIsPurged
  <2> QED BY <1>9, <1>10, <2>2, <2>6
<1> QED BY <1>5, <1>11, <1>12 DEF Verdicts

LEMMA LocalStepsSafe == ASSUME CallInv, CheckCache \/ HandOutToken \/ SkipUnsupported
                        PROVE  CallInv'
<1>1. UNCHANGED <<belongs, tier, link, own, posted>> /\ call.pc = "check" /\ call.todo # <<>>
  BY DEF CheckCache, HandOutToken, SkipUnsupported, AtStep, surroundings
<1>2. KeepsLinks
  BY <1>1 DEF CallInv, CallTypes, KeepsLinks
<1>3. CASE CheckCache
  <2>1. AtStep("cache") /\ "cache" \notin Uses
    BY <1>3 DEF CheckCache, Uses
  <2>2. "cache" \in StepsOf(call.kind, call.scope)
    BY <1>1, <2>1, StepTaken DEF AtStep
  <2>3. call.kind \in Routes
    BY <2>2, StepsByKind
  <2>4. CASE End("ok")
    BY <1>1, <1>2, <2>3, <2>4, CallEnds DEF End
  <2>5. CASE Advance
    <3> DEFINE s == Tail(call.todo)
    <3>1. "cache" \notin Tokens
      BY DEF Tokens
    <3>2. /\ Closes(s, StepsOf(call.kind, call.scope), Watches(call.kind, call.scope))
          /\ Has(call.todo, "cache") /\ \A d : Has(call.todo, d) => Has(s, d) \/ d = "cache"
      BY <1>1, <2>1, StepTaken DEF AtStep
    <3>3. call' = [call EXCEPT !.todo = s]
      BY <2>5 DEF Advance
    <3> HIDE DEF s
    <3>4. /\ call' \in CallRecords(call'.gives, call'.todo) /\ Keeps(call, call') /\ call'.pc = "check"
          /\ call'.todo = s /\ call'.used = call.used /\ call'.result = call.result
          /\ call'.authorized = call.authorized /\ call'.cred = call.cred /\ call'.ws = call.ws
      BY <1>1, <3>3 DEF CallInv, CallTypes, CallRecords, Keeps
    <3>5. call.scope = "workspace" /\ call.authorized =>
            call.cred.home = link.home /\ call.cred.provider = link.provider
      BY DEF CallInv, EntitledInv
    <3> QED BY <1>1, <1>2, <2>1, <3>1, <3>2, <3>4, <3>5, CallAdvances
  <2> QED BY <1>3, <2>4, <2>5 DEF CheckCache
<1>4. CASE HandOutToken
  <2>1. AtStep("handOut") /\ "handOut" \in Uses
    BY <1>4 DEF HandOutToken, Uses
  <2>2. (\A c : Has(call.todo, c) => c \in Uses) /\ "handOut" \in StepsOf(call.kind, call.scope)
    BY <2>1, UsedLast
  <2>3. call.kind \in Routes
    BY <2>2, StepsByKind
  <2>4. call' = [call EXCEPT !.pc = "done", !.result = "ok", !.used = TRUE]
    BY <1>4 DEF HandOutToken
  <2>5. /\ call' \in CallRecords(call'.gives, call'.todo) /\ Keeps(call, call')
        /\ call'.pc = "done" /\ call'.result = "ok" /\ call'.todo = call.todo /\ call'.ws = call.ws
        /\ call'.authorized = call.authorized /\ call'.cred = call.cred
    BY <2>4 DEF CallInv, CallTypes, CallRecords, CallPcs, CallResults, Keeps
  <2>6. CallTypes'
    BY <1>1, <2>5 DEF CallInv, CallTypes
  <2>7. ScriptInv'
    BY <1>1, <2>5 DEF CallInv, ScriptInv, Keeps, Paid
  <2>8. EntitledInv'
    BY <1>1, <2>2, <2>5 DEF CallInv, EntitledInv, Keeps
  <2>9. posted = 0
    BY <1>1 DEF CallInv, SentInv
  <2>10. SentInv'
    BY <1>1, <2>3, <2>5, <2>9 DEF SentInv, SentIsTold, RevokedIsPurged, Keeps
  <2> QED BY <2>6, <2>7, <2>8, <2>10 DEF CallInv
<1>5. CASE SkipUnsupported
  BY <1>1, <1>2, <1>5, CallEnds DEF SkipUnsupported, End
<1> QED BY <1>3, <1>4, <1>5

\* The end of what is kept while the surroundings change, or the token is renewed.
LEMMA CallGoesOn ==
    ASSUME CallInv, call.pc \in {"check", "refresh", "purge"}, call'.pc \in {"check", "refresh", "purge"},
           call' \in CallRecords(call.gives, call.todo), call'.gives = call.gives, call'.todo = call.todo,
           call'.kind = call.kind, call'.scope = call.scope, call'.ws = call.ws, call'.used = call.used,
           call'.result = call.result, call'.authorized = call.authorized,
           call'.cred.home = call.cred.home, call'.cred.provider = call.cred.provider,
           call.member \subseteq call'.member, call.paid \subseteq call'.paid,
           KeepsLinks, posted' = posted, belongs' \in SUBSET Workspaces,
           tier' \in [Workspaces -> {"solo", "workspace"}], belongs' \subseteq call'.member, Paid' \subseteq call'.paid
    PROVE  CallInv'
<1>1. CallTypes'
  BY DEF CallInv, CallTypes, KeepsLinks
<1>2. ScriptInv'
  BY DEF CallInv, ScriptInv
<1>3. EntitledInv'
  BY DEF CallInv, EntitledInv, KeepsLinks
<1>4. posted = 0 /\ call.result = "none"
  BY DEF CallInv, SentInv
<1>5. SentInv'
  BY <1>4 DEF SentInv, SentIsTold, RevokedIsPurged
<1> QED BY <1>1, <1>2, <1>3, <1>5 DEF CallInv

LEMMA RefreshSafe == ASSUME CallInv, RefreshSlackWorkspaceToken \/ RefreshSlackPersonalToken
                     PROVE  CallInv'
<1>1. UNCHANGED <<belongs, tier, posted>> /\ call.pc = "refresh"
  BY DEF RefreshSlackWorkspaceToken, RefreshSlackPersonalToken
<1>2. link \in LinkRecords /\ own \in OwnRecords /\ call.cred \in LinkRecords
  BY DEF CallInv, CallTypes, CallRecords
<1>3. KeepsLinks
  <2>1. CASE RefreshSlackWorkspaceToken
    <3>1. own' = own /\ \/ \E plain \in BOOLEAN : link' = [link EXCEPT !.token = "valid", !.sealed = ~plain]
                        \/ link' = link
      BY <2>1 DEF RefreshSlackWorkspaceToken
    <3> QED BY <1>2, <3>1 DEF KeepsLinks, LinkRecords, CallTokens
  <2>2. CASE RefreshSlackPersonalToken
    <3>1. link' = link /\ \/ own' = [own EXCEPT !.token = "valid"]
                          \/ own' = [own EXCEPT !.row = FALSE] \/ own' = own
      BY <2>2 DEF RefreshSlackPersonalToken
    <3> QED BY <1>2, <3>1 DEF KeepsLinks, OwnRecords, CallTokens
  <2> QED BY <2>1, <2>2
<1>4. CASE End("error")
  BY <1>1, <1>3, <1>4, CallEnds DEF End
<1>5. ASSUME call' = [call EXCEPT !.pc = "check", !.refreshed = TRUE, !.cred.token = "valid"]
      PROVE  CallInv'
  <2>1. call' = [call EXCEPT !.pc = "check", !.refreshed = TRUE, !.cred = [call.cred EXCEPT !.token = "valid"]]
    BY <1>5
  <2> DEFINE c == [call.cred EXCEPT !.token = "valid"]
  <2>2. c \in LinkRecords /\ c.home = call.cred.home /\ c.provider = call.cred.provider
    BY <1>2 DEF LinkRecords, CallTokens
  <2> HIDE DEF c
  <2>3. /\ call' \in CallRecords(call.gives, call.todo) /\ call'.gives = call.gives /\ call'.pc = "check"
        /\ call'.todo = call.todo /\ call'.cred = c /\ call'.kind = call.kind /\ call'.scope = call.scope
        /\ call'.ws = call.ws /\ call'.used = call.used /\ call'.result = call.result
        /\ call'.authorized = call.authorized /\ call'.member = call.member /\ call'.paid = call.paid
    BY <2>1, <2>2 DEF CallInv, CallTypes, CallRecords, CallPcs, c
  <2>4. /\ belongs' \in SUBSET Workspaces /\ tier' \in [Workspaces -> {"solo", "workspace"}]
        /\ belongs' \subseteq call.member /\ Paid' \subseteq call.paid
    BY <1>1 DEF CallInv, CallTypes, ScriptInv, Paid
  <2> QED BY <1>1, <1>3, <2>2, <2>3, <2>4, CallGoesOn
<1> QED BY <1>4, <1>5 DEF RefreshSlackWorkspaceToken, RefreshSlackPersonalToken

LEMMA PurgeRevokedSafe == ASSUME CallInv, PurgeRevoked
                          PROVE  CallInv'
<1>1. call.pc = "purge" /\ UNCHANGED <<belongs, tier, posted>> /\ posted = 0 /\ call.scope \in Scopes
  BY DEF PurgeRevoked, CallInv, SentInv, CallTypes, CallRecords
<1> DEFINE shared == call.scope = "workspace"
<1>2. PICK done \in SUBSET {"link", "own"} :
        /\ link' = IF "link" \in done /\ link.home = call.ws THEN [link EXCEPT !.row = FALSE] ELSE link
        /\ own' = CASE "own" \notin done -> own
                    [] "own" \in done /\ IsSlack -> [own EXCEPT !.row = FALSE]
                    [] "own" \in done /\ ~IsSlack -> PurgeNewestOwn
        /\ call' = [call EXCEPT !.pc = "done", !.result = "revoked",
                                !.unpurged = IF shared THEN "link" \notin done ELSE done = {},
                                !.displaced = ~shared /\ ~IsSlack /\ own.newer]
        /\ ~shared => done \subseteq {"own"}
  BY DEF PurgeRevoked, SlackPurges, TeamsPurges, SheetsPurges
<1>3. link \in LinkRecords /\ own \in OwnRecords
  BY DEF CallInv, CallTypes
<1>4. link' \in LinkRecords /\ link'.home = link.home /\ link'.provider = link.provider
      /\ ("link" \in done /\ link.home = call.ws => ~link'.row)
  BY <1>2, <1>3 DEF LinkRecords
<1>5. own' \in OwnRecords /\ ("own" \in done => ~own'.row \/ (~IsSlack /\ own.newer))
  <2>1. /\ [own EXCEPT !.row = FALSE] \in OwnRecords /\ [own EXCEPT !.row = FALSE].row = FALSE
        /\ [own EXCEPT !.newer = FALSE] \in OwnRecords
    BY <1>3 DEF OwnRecords
  <2>2. PurgeNewestOwn \in OwnRecords /\ (~PurgeNewestOwn.row \/ own.newer)
    BY <2>1 DEF PurgeNewestOwn
  <2>3. CASE "own" \notin done
    BY <1>2, <1>3, <2>3
  <2>4. CASE "own" \in done /\ IsSlack
    BY <1>2, <2>1, <2>4
  <2>5. CASE "own" \in done /\ ~IsSlack
    BY <1>2, <2>2, <2>5
  <2> QED BY <2>3, <2>4, <2>5
<1>6. KeepsLinks
  BY <1>4, <1>5 DEF KeepsLinks
<1> DEFINE kept == IF shared THEN "link" \notin done ELSE done = {}
           later == ~shared /\ ~IsSlack /\ own.newer
<1>7. kept \in BOOLEAN /\ later \in BOOLEAN
  BY <1>3 DEF OwnRecords
<1>8. call' = [call EXCEPT !.pc = "done", !.result = "revoked", !.unpurged = kept, !.displaced = later]
  BY <1>2
<1> HIDE DEF kept, later
<1>9. /\ call' \in CallRecords(call'.gives, call'.todo) /\ call'.pc = "done" /\ call'.result = "revoked"
      /\ call'.todo = call.todo /\ call'.ws = call.ws /\ call'.authorized = call.authorized
      /\ call'.cred = call.cred /\ call'.used = call.used /\ call'.kind = call.kind
      /\ call'.scope = call.scope /\ call'.member = call.member /\ call'.paid = call.paid
      /\ call'.unpurged = kept /\ call'.displaced = later
  BY ZenonT(60), <1>7, <1>8 DEF CallInv, CallTypes, CallRecords, CallPcs, CallResults
<1>10. CallTypes'
  BY <1>1, <1>6, <1>9 DEF CallInv, CallTypes, KeepsLinks
<1>11. ScriptInv'
  BY <1>1, <1>9 DEF CallInv, ScriptInv, Paid
<1>12. EntitledInv'
  BY <1>4, <1>9 DEF CallInv, EntitledInv
<1>13. SentIsTold'
  BY <1>1, <1>9 DEF SentIsTold
<1>14. RevokedIsPurged'
  <2>1. CASE shared
    BY <1>4, <1>9, <2>1 DEF RevokedIsPurged, kept
  <2>2. CASE ~shared
    BY ZenonT(60), <1>2, <1>5, <1>9, <2>2 DEF RevokedIsPurged, kept, later
  <2> QED BY <2>1, <2>2
<1> QED BY <1>9, <1>10, <1>11, <1>12, <1>13, <1>14 DEF CallInv, SentInv

LEMMA ChangesSafe ==
    ASSUME CallInv,
           \/ \E w \in Workspaces : MembershipChanges(w) \/ PlanChanges(w)
           \/ ConnectionGoes \/ \E t \in {"old", "revoked"} : TokenChanges(t)
    PROVE  CallInv'
<1>1. call.pc \in {"check", "refresh", "purge"} /\ posted' = posted
  BY DEF MembershipChanges, PlanChanges, ConnectionGoes, TokenChanges, Change
<1>2. /\ link \in LinkRecords /\ own \in OwnRecords /\ call.cred \in LinkRecords
      /\ call \in CallRecords(call.gives, call.todo) /\ call.member \in SUBSET Workspaces
      /\ call.paid \in SUBSET Workspaces
      /\ belongs \in SUBSET Workspaces /\ tier \in [Workspaces -> {"solo", "workspace"}]
      /\ belongs \subseteq call.member /\ Paid \subseteq call.paid
  BY <1>1 DEF CallInv, CallTypes, CallRecords, ScriptInv
<1>3. ASSUME NEW w \in Workspaces, MembershipChanges(w)
      PROVE  CallInv'
  <2>1. /\ belongs' = IF w \in belongs THEN belongs \ {w} ELSE belongs \cup {w}
        /\ call' = [call EXCEPT !.member = call.member \cup belongs'] /\ UNCHANGED <<tier, link, own>>
    BY <1>3 DEF MembershipChanges
  <2>2. belongs' \in SUBSET Workspaces
    BY <1>2, <2>1
  <2> DEFINE m == call.member \cup belongs'
  <2>3. m \in SUBSET Workspaces /\ call.member \subseteq m /\ belongs' \subseteq m
    BY <1>2, <2>2
  <2>4. call' = [call EXCEPT !.member = m]
    BY <2>1
  <2> HIDE DEF m
  <2>5. /\ call' \in CallRecords(call.gives, call.todo) /\ call'.gives = call.gives /\ call'.pc = call.pc
        /\ call'.todo = call.todo /\ call'.cred = call.cred /\ call'.kind = call.kind /\ call'.scope = call.scope
        /\ call'.ws = call.ws /\ call'.used = call.used /\ call'.result = call.result
        /\ call'.authorized = call.authorized /\ call'.member = m /\ call'.paid = call.paid
    BY <1>2, <2>3, <2>4 DEF CallRecords
  <2>6. KeepsLinks /\ tier' \in [Workspaces -> {"solo", "workspace"}] /\ Paid' \subseteq call.paid
    BY <1>2, <2>1 DEF KeepsLinks, Paid
  <2> QED BY <1>1, <2>2, <2>3, <2>5, <2>6, CallGoesOn
<1>4. ASSUME NEW w \in Workspaces, PlanChanges(w)
      PROVE  CallInv'
  <2>1. /\ tier' = [tier EXCEPT ![w] = IF tier[w] = "solo" THEN "workspace" ELSE "solo"]
        /\ call' = [call EXCEPT !.paid = call.paid \cup Paid'] /\ UNCHANGED <<belongs, link, own>>
    BY <1>4 DEF PlanChanges, Paid
  <2>2. tier' \in [Workspaces -> {"solo", "workspace"}] /\ Paid' \in SUBSET Workspaces
    BY <1>2, <2>1 DEF Paid
  <2> DEFINE m == call.paid \cup Paid'
  <2>3. m \in SUBSET Workspaces /\ call.paid \subseteq m /\ Paid' \subseteq m
    BY <1>2, <2>2
  <2>4. call' = [call EXCEPT !.paid = m]
    BY <2>1
  <2> HIDE DEF m
  <2>5. /\ call' \in CallRecords(call.gives, call.todo) /\ call'.gives = call.gives /\ call'.pc = call.pc
        /\ call'.todo = call.todo /\ call'.cred = call.cred /\ call'.kind = call.kind /\ call'.scope = call.scope
        /\ call'.ws = call.ws /\ call'.used = call.used /\ call'.result = call.result
        /\ call'.authorized = call.authorized /\ call'.member = call.member /\ call'.paid = m
    BY <1>2, <2>3, <2>4 DEF CallRecords
  <2>6. KeepsLinks /\ belongs' \in SUBSET Workspaces /\ belongs' \subseteq call.member
    BY <1>2, <2>1 DEF KeepsLinks
  <2> QED BY <1>1, <2>2, <2>3, <2>5, <2>6, CallGoesOn
<1>5. CASE ConnectionGoes
  <2>1. /\ UNCHANGED <<belongs, tier, call>>
        /\ \/ link' = [link EXCEPT !.row = FALSE] /\ own' = own
           \/ own' = [own EXCEPT !.row = FALSE] /\ link' = [link EXCEPT !.source = FALSE]
    BY <1>5 DEF ConnectionGoes
  <2>2. KeepsLinks
    BY <1>2, <2>1 DEF KeepsLinks, LinkRecords, OwnRecords
  <2>3. /\ belongs' \in SUBSET Workspaces /\ tier' \in [Workspaces -> {"solo", "workspace"}]
        /\ belongs' \subseteq call.member /\ Paid' \subseteq call.paid
    BY <1>2, <2>1 DEF Paid
  <2> QED BY <1>1, <1>2, <2>1, <2>2, <2>3, CallGoesOn
<1>6. ASSUME NEW t \in {"old", "revoked"}, TokenChanges(t)
      PROVE  CallInv'
  <2> DEFINE c == [call.cred EXCEPT !.token = t]
  <2>1. /\ UNCHANGED <<belongs, tier>> /\ link' = [link EXCEPT !.token = t] /\ own' = [own EXCEPT !.token = t]
        /\ call' = [call EXCEPT !.cred = c]
    BY <1>6 DEF TokenChanges
  <2>2. KeepsLinks
    BY <1>2, <2>1 DEF KeepsLinks, LinkRecords, OwnRecords, CallTokens
  <2>3. c \in LinkRecords /\ c.home = call.cred.home /\ c.provider = call.cred.provider
    BY <1>2 DEF LinkRecords, CallTokens
  <2> HIDE DEF c
  <2>4. /\ call' \in CallRecords(call.gives, call.todo) /\ call'.gives = call.gives /\ call'.pc = call.pc
        /\ call'.todo = call.todo /\ call'.cred = c /\ call'.kind = call.kind /\ call'.scope = call.scope
        /\ call'.ws = call.ws /\ call'.used = call.used /\ call'.result = call.result
        /\ call'.authorized = call.authorized /\ call'.member = call.member /\ call'.paid = call.paid
    BY <1>2, <2>1, <2>3 DEF CallRecords
  <2>5. /\ belongs' \in SUBSET Workspaces /\ tier' \in [Workspaces -> {"solo", "workspace"}]
        /\ belongs' \subseteq call.member /\ Paid' \subseteq call.paid
    BY <1>2, <2>1 DEF Paid
  <2> QED BY <1>1, <2>2, <2>3, <2>4, <2>5, CallGoesOn
<1> QED BY <1>3, <1>4, <1>5, <1>6

LEMMA CallStep == CallInv /\ [ServiceCallsNext]_callVars => CallInv'
<1> SUFFICES ASSUME CallInv, [ServiceCallsNext]_callVars
             PROVE  CallInv'
  OBVIOUS
<1>1. CASE call.pc = "idle" /\ \E k \in Kinds : \E scope \in ScopesOf(k) : \E gives \in Forms(k, scope) :
             BeginCall(k, scope, gives)
  BY <1>1, BeginCallSafe
<1>2. CASE CheckParameters \/ CheckRights
  BY <1>2, CheckParametersSafe, CheckRightsSafe
<1>3. CASE FindListed \/ GetConnection
  BY <1>3, FindsSafe
<1>4. CASE EnsureValidWorkspaceToken \/ SlackWorkspaceToken \/ LoadLink \/ OwnToken
  BY <1>4, WorkspaceTokensSafe, OwnTokenSafe
<1>5. CASE SendRequest
  <2>1. AtStep("send") /\ Request("send" = "send") /\ UNCHANGED surroundings
    BY <1>5 DEF SendRequest
  <2> QED BY <2>1, RequestSafe
<1>6. CASE FetchPages
  <2>1. AtStep("fetch") /\ Request("fetch" = "send") /\ UNCHANGED surroundings
    BY <1>6 DEF FetchPages
  <2> QED BY <2>1, RequestSafe
<1>7. CASE RefreshSlackWorkspaceToken \/ RefreshSlackPersonalToken
  BY <1>7, RefreshSafe
<1>8. CASE CheckCache \/ HandOutToken \/ SkipUnsupported
  BY <1>8, LocalStepsSafe
<1>9. CASE PurgeRevoked
  BY <1>9, PurgeRevokedSafe
<1>10. CASE \/ \E w \in Workspaces : MembershipChanges(w) \/ PlanChanges(w)
            \/ ConnectionGoes \/ \E t \in {"old", "revoked"} : TokenChanges(t)
  BY <1>10, ChangesSafe
<1>11. CASE UNCHANGED callVars
  <2>1. UNCHANGED <<belongs, tier, link, own, call, posted>>
    BY <1>11 DEF callVars
  <2> QED BY <2>1 DEF CallInv, CallTypes, ScriptInv, EntitledInv, SentInv, SentIsTold, RevokedIsPurged, Paid
<1> QED BY <1>1, <1>2, <1>3, <1>4, <1>5, <1>6, <1>7, <1>8, <1>9, <1>10, <1>11 DEF ServiceCallsNext

(* The token of a workspace connection reaches the service only for a member of *)
(* its workspace, by execute_action on the plan and for the run's workspace.    *)
THEOREM SharedUsesAreEntitled == ServiceCallsSpec => []SharedUseIsEntitled
<1>1. CallInv => SharedUseIsEntitled
  <2> SUFFICES ASSUME CallInv, call.used, Shared
               PROVE  /\ call.cred.home \in call.member /\ call.cred.provider
                      /\ call.kind \notin Routes => call.cred.home = "here" /\ "here" \in call.paid
    BY DEF SharedUseIsEntitled
  <2>1. /\ call.cred.home = link.home /\ call.cred.provider = link.provider
        /\ \A c : Has(call.todo, c) => c \in Uses
    BY DEF CallInv, EntitledInv, Shared
  <2>2. /\ ~Has(call.todo, "member") /\ ~Has(call.todo, "plan") /\ ~Has(call.todo, "home")
        /\ ~Has(call.todo, "provider") /\ ~Finds(call.todo)
    BY <2>1 DEF Finds, Uses
  <2> QED BY <2>1, <2>2 DEF CallInv, EntitledInv, Shared
<1> QED BY <1>1, CallStart, CallStep, PTL DEF ServiceCallsSpec

(* The result of an action tells what was delivered, through the retries of     *)
(* send_request and the refresh in send_slack.                                  *)
THEOREM ResultsTellDeliveries == ServiceCallsSpec => []SentIsTold
<1>1. CallInv => SentIsTold
  BY DEF CallInv, SentInv
<1> QED BY <1>1, CallStart, CallStep, PTL DEF ServiceCallsSpec

(* The connection a revoked token came from is deleted by handle_revoked_token, *)
(* unless the deletion failed or a later one was deleted in its place.          *)
THEOREM RevokedAreDeleted == ServiceCallsSpec => []RevokedIsPurged
<1>1. CallInv => RevokedIsPurged
  BY DEF CallInv, SentInv
<1> QED BY <1>1, CallStart, CallStep, PTL DEF ServiceCallsSpec
=============================================================================

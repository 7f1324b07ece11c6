------------------------------- MODULE Egress -------------------------------
(***************************************************************************)
(* Which hosts the HTTP node of a run may contact.  The operator's lists of *)
(* allowed and denied hosts come from the environment; the workflow has a   *)
(* list of its own, which is copied into the snapshot of every run, and the *)
(* executor merges the two each time it takes the run up.  The merged list  *)
(* is applied to the host of the request and to every redirect.             *)
(***************************************************************************)
EXTENDS Naturals, Sequences, SequencesExt

CONSTANTS
    HttpHosts,     \* hosts, as sequences of labels
    InternalHosts, \* those that are addresses is_ip_blocked knows
    IPv6Hosts,     \* those that are IPv6 addresses
    HostPatterns,  \* entries of the lists: [wild: BOOLEAN, name: host]
    HttpRuns,      \* runs of the workflow
    MaxRedirects,  \* 9 for the redirect policy, which stops at ten URLs
    MaxRetries,    \* bound: the retries a node may ask for
    MaxListEdits   \* bound: changes of the workflow's list

ASSUME EgressAssumption == MaxRedirects \in Nat /\ MaxRetries \in Nat /\ MaxListEdits \in Nat

VARIABLES
    egressEnv,   \* ALLOWED_ and DISALLOWED_HTTP_DOMAINS, ENV, EGRESS_DEFAULT_DENY
    allowlist,   \* the workflow's egress_allowlist
    listEdits,   \* how often it was set
    httpRun,     \* the runs: snapshot list, when it was taken, and the node's call
    contacted,   \* the hosts each run has sent a request to
    blocks       \* the runs with a row in egress_block_events

egressVars == <<egressEnv, allowlist, listEdits, httpRun, contacted, blocks>>

HttpPcs == {"none", "queued", "checking", "sending", "answered", "blocked", "failed"}
NoHost == <<>>

NoHttpRun == [pc |-> "none", list |-> {}, taken |-> 0, allowed |-> {}, rejected |-> FALSE, host |-> NoHost,
              first |-> NoHost, follow |-> FALSE, retries |-> 0, attempt |-> 0, hops |-> 0]

EgressTypeOK ==
    /\ egressEnv \in [allowed: SUBSET HostPatterns, denied: SUBSET HostPatterns,
                      prod: BOOLEAN, defaultDeny: BOOLEAN]
    /\ allowlist \subseteq HostPatterns /\ listEdits \in 0..MaxListEdits
    /\ httpRun \in [HttpRuns -> [pc: HttpPcs, list: SUBSET HostPatterns, taken: 0..MaxListEdits,
                                 allowed: SUBSET HostPatterns, rejected: BOOLEAN,
                                 host: HttpHosts \cup {NoHost}, first: HttpHosts \cup {NoHost}, follow: BOOLEAN,
                                 retries: 0..MaxRetries, attempt: 0..MaxRetries + 2, hops: 0..MaxRedirects]]
    /\ contacted \in [HttpRuns -> SUBSET HttpHosts] /\ blocks \subseteq HttpRuns

EgressInit ==
    /\ egressEnv \in [allowed: {{}} \cup {{p} : p \in HostPatterns}, denied: {{}} \cup {{p} : p \in HostPatterns},
                      prod: BOOLEAN, defaultDeny: BOOLEAN]
    /\ allowlist \in {{}} \cup {{p} : p \in HostPatterns} /\ listEdits = 0
    /\ httpRun = [r \in HttpRuns |-> NoHttpRun]
    /\ contacted = [r \in HttpRuns |-> {}] /\ blocks = {}

----------------------------------------------------------------------------
\* A pattern names one host, or with "*." every host below it but not itself.
Matches(h, pats) ==
    \E p \in pats : IF p.wild THEN IsSuffix(p.name, h) /\ p.name # h ELSE p.name = h

IsHostBlocked(h) == Matches(h, egressEnv.denied)
IsIpBlocked(h) == h \in InternalHosts

\* Whether host_str() parses as an address, if it is one: an IPv6 address stands in
\* brackets there, and does not.
ParsesAsAddress(h) == h \notin IPv6Hosts

IsHostAllowed(h, pats) == Matches(h, pats)

\* Mutant: the workflow's list adds to the operator's.
MergeByUnion(env, list) == [allowed |-> env \cup list, rejected |-> {}]

\* merge_advisory_allowlist: the operator's list, where there is one, has the last word.
MergeAdvisoryAllowlist(env, list) ==
    IF env = {} THEN [allowed |-> list, rejected |-> {}]
    ELSE [allowed |-> env, rejected |-> list \ env]

\* The checks of execute_http, and those of its redirect policy.
Permitted(h, allowed) ==
    /\ ~IsHostBlocked(h)
    /\ ~(egressEnv.prod /\ ParsesAsAddress(h) /\ IsIpBlocked(h))
    /\ (egressEnv.defaultDeny \/ allowed # {}) => IsHostAllowed(h, allowed)

----------------------------------------------------------------------------
SetEgressAllowlist(l) ==
    /\ listEdits < MaxListEdits
    /\ allowlist' = l /\ listEdits' = listEdits + 1
    /\ UNCHANGED <<egressEnv, httpRun, contacted, blocks>>

\* A start, a webhook, a schedule, a Notion row or a dead letter's requeue: the run's
\* snapshot takes the list the workflow has now.
CopyAllowlist(r) ==
    /\ httpRun[r].pc = "none"
    /\ httpRun' = [httpRun EXCEPT ![r] = [NoHttpRun EXCEPT !.pc = "queued", !.list = allowlist,
                                                           !.taken = listEdits]]
    /\ UNCHANGED <<egressEnv, allowlist, listEdits, contacted, blocks>>

\* rerun_workflow_run copies the snapshot of an earlier run, list and all.
RerunSnapshot(r, old) ==
    /\ httpRun[r].pc = "none" /\ httpRun[old].pc # "none"
    /\ httpRun' = [httpRun EXCEPT ![r] = [NoHttpRun EXCEPT !.pc = "queued", !.list = httpRun[old].list,
                                                           !.taken = httpRun[old].taken]]
    /\ UNCHANGED <<egressEnv, allowlist, listEdits, contacted, blocks>>

\* execute_run merges the lists; the node names a host, its retries and whether
\* redirects are followed.
ReachHttpNode(r, h, retries, follow) ==
    /\ httpRun[r].pc = "queued"
    /\ LET merged == MergeAdvisoryAllowlist(egressEnv.allowed, httpRun[r].list)
       IN httpRun' = [httpRun EXCEPT ![r] = [@ EXCEPT !.pc = "checking", !.allowed = merged.allowed,
                                               !.rejected = merged.rejected # {}, !.host = h, !.first = h,
                                               !.retries = retries, !.follow = follow]]
    /\ UNCHANGED <<egressEnv, allowlist, listEdits, contacted, blocks>>

\* The row about a block is written at best: its failure is ignored.
CheckHost(r) ==
    /\ httpRun[r].pc = "checking"
    /\ IF Permitted(httpRun[r].host, httpRun[r].allowed)
         THEN httpRun' = [httpRun EXCEPT ![r].pc = "sending"] /\ UNCHANGED blocks
         ELSE /\ httpRun' = [httpRun EXCEPT ![r].pc = "blocked"]
              /\ blocks' \in {blocks, blocks \cup {r}}
    /\ UNCHANGED <<egressEnv, allowlist, listEdits, contacted>>

\* The redirect policy: a redirect that is not followed is the answer.
FollowsRedirect(r, h) ==
    httpRun[r].follow /\ httpRun[r].hops < MaxRedirects /\ Permitted(h, httpRun[r].allowed)

Contact(r) == contacted' = [contacted EXCEPT ![r] = @ \cup {httpRun[r].host}]

\* Any status is an answer.
HttpAnswers(r) ==
    /\ httpRun[r].pc = "sending" /\ Contact(r)
    /\ httpRun' = [httpRun EXCEPT ![r].pc = "answered"]
    /\ UNCHANGED <<egressEnv, allowlist, listEdits, blocks>>

HttpRedirects(r, h) ==
    /\ httpRun[r].pc = "sending" /\ Contact(r)
    /\ httpRun' = [httpRun EXCEPT ![r] =
                     IF FollowsRedirect(r, h) THEN [@ EXCEPT !.host = h, !.hops = httpRun[r].hops + 1]
                                              ELSE [@ EXCEPT !.pc = "answered"]]
    /\ UNCHANGED <<egressEnv, allowlist, listEdits, blocks>>

\* A transport error or the timeout: once more from the first host while
\* attempt <= retries + 1, so retries + 2 times in all.
HttpFails(r) ==
    /\ httpRun[r].pc = "sending" /\ Contact(r)
    /\ LET next == httpRun[r].attempt + 1 IN
       httpRun' = [httpRun EXCEPT ![r] =
                     IF next <= @.retries + 1
                       THEN [@ EXCEPT !.attempt = next, !.host = httpRun[r].first, !.hops = 0]
                       ELSE [@ EXCEPT !.attempt = next, !.pc = "failed"]]
    /\ UNCHANGED <<egressEnv, allowlist, listEdits, blocks>>

ClearEgressBlockEvents ==
    /\ blocks # {} /\ blocks' = {}
    /\ UNCHANGED <<egressEnv, allowlist, listEdits, httpRun, contacted>>

EgressNext ==
    \/ \E l \in {{}} \cup {{p} : p \in HostPatterns} : SetEgressAllowlist(l)
    \/ \E r \in HttpRuns :
         \/ CopyAllowlist(r) \/ CheckHost(r) \/ HttpAnswers(r) \/ HttpFails(r)
         \/ \E old \in HttpRuns : RerunSnapshot(r, old)
         \/ \E h \in HttpHosts : HttpRedirects(r, h)
         \/ /\ httpRun[r].pc = "queued"
            /\ \E h \in HttpHosts, retries \in 0..MaxRetries, follow \in BOOLEAN :
                 ReachHttpNode(r, h, retries, follow)
    \/ ClearEgressBlockEvents

EgressSpec == EgressInit /\ [][EgressNext]_egressVars

----------------------------------------------------------------------------
(* No run, by its own request, by a redirect or by a retry, contacts a host the *)
(* operator denied, an internal IPv4 address in production, or one outside the  *)
(* operator's list; without such a list, one outside the list the workflow has  *)
(* now is contacted only by a run whose snapshot, or the one it was rerun from, *)
(* is older than that list.  Nothing is said of internal IPv6 addresses: the    *)
(* branch of is_ip_blocked for them is never reached.                           *)
EgressFollowsPolicy ==
    \A r \in HttpRuns : \A h \in contacted[r] :
      /\ ~Matches(h, egressEnv.denied)
      /\ egressEnv.prod => h \notin InternalHosts \ IPv6Hosts
      /\ egressEnv.allowed # {} => Matches(h, egressEnv.allowed)
      /\ egressEnv.allowed = {} /\ httpRun[r].taken = listEdits =>
           Matches(h, allowlist) \/ (allowlist = {} /\ ~egressEnv.defaultDeny)
=============================================================================

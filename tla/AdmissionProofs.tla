--------------------------- MODULE AdmissionProofs ---------------------------
(***************************************************************************)
(* Proofs about Admission, for every finite set of requests, every limit   *)
(* and any number of periods and faults.                                   *)
(***************************************************************************)
EXTENDS Admission, TLAPS, FiniteSetTheorems

-----------------------------------------------------------------------------
(* Types. *)

\* What a request may do to its row of workspace_run_usage leaves a row.
LEMMA IncrementType ==
    ASSUME NEW row \in Row
    PROVE  Increment(row) \in Row
BY RequestsAssumption, LimitsAssumption DEF Increment, Row

LEMMA DecrementType ==
    ASSUME NEW row \in Row, NEW over \in BOOLEAN, row.count > 0
    PROVE  Decrement(row, over) \in Row
<1> DEFINE count == row.count - 1
           overage == IF over /\ row.overage > 0 THEN row.overage - 1 ELSE row.overage
<1>1. count \in Nat /\ overage \in Nat
  BY DEF Row
<1>2. CASE count = 0 /\ overage = 0
  BY <1>2 DEF Decrement, Row, NoRow
<1>3. CASE ~(count = 0 /\ overage = 0)
  BY <1>1, <1>3 DEF Decrement, Row
<1> QED BY <1>2, <1>3

LEMMA TypeInit == Init => TypeOK
BY RequestsAssumption, SwitchesAssumption, BoundsAssumption
DEF Init, TypeOK, Periods, Row, NoRow, Ticket, NoTicket, Steps

LEMMA CountTicketType ==
    ASSUME TypeOK, NEW r \in Requests, CountTicket(r)
    PROVE  /\ usage' \in [Periods -> Row]
           /\ ticket' \in [Requests -> Ticket]
<1>1. window[r] \in Periods /\ usage[window[r]] \in Row
  BY DEF TypeOK
<1>2. usage' \in [Periods -> Row]
  BY <1>1, IncrementType DEF TypeOK, CountTicket
<1>3. Over(r) \in BOOLEAN
  BY DEF Over, OverLimit
<1>4. ticket' \in [Requests -> Ticket]
  BY <1>1, <1>3 DEF TypeOK, CountTicket, Ticket, Periods
<1> QED BY <1>2, <1>4

LEMMA TakeTicketType ==
    ASSUME TypeOK, NEW r \in Requests, TakeTicket(r)
    PROVE  /\ usage' \in [Periods -> Row]
           /\ ticket' \in [Requests -> Ticket]
           /\ pc' \in [Requests -> Steps]
<1>1. pc' \in [Requests -> Steps]
  BY DEF TypeOK, TakeTicket, Goto, AfterQuota, Steps
<1> QED BY <1>1, CountTicketType DEF TakeTicket

LEMMA TypeStep == TypeOK /\ [Next]_vars => TypeOK'
<1> SUFFICES ASSUME TypeOK, [Next]_vars PROVE TypeOK'
  OBVIOUS
<1> USE DEF TypeOK
<1>0. CASE UNCHANGED vars
  BY <1>0 DEF vars
<1>1. ASSUME NEW r \in Requests, Handle(r) PROVE TypeOK'
  <2>1. CASE EnforceRunawayProtection(r)
    BY <2>1 DEF EnforceRunawayProtection, Goto, Steps
  <2>2. CASE ReadPlan(r)
    BY <2>2 DEF ReadPlan, Goto, Steps
  <2>3. CASE ConsumeQuota(r)
    <3>1. CASE usage[window[r]].present
      BY <2>3, <3>1, TakeTicketType DEF ConsumeQuota
    <3>2. CASE ~usage[window[r]].present
      BY <2>3, <3>2 DEF ConsumeQuota, Goto, Steps
    <3> QED BY <3>1, <3>2
  <2>4. CASE InsertUsage(r)
    <3>1. CASE usage[window[r]].present
      BY <2>4, <3>1 DEF InsertUsage, Goto, Steps
    <3>2. CASE ~usage[window[r]].present
      BY <2>4, <3>2, TakeTicketType DEF InsertUsage
    <3> QED BY <3>1, <3>2
  <2>5. CASE ConsumeReplyLost(r)
    <3>1. usage' \in [Periods -> Row] /\ ticket' \in [Requests -> Ticket]
      BY <2>5, CountTicketType DEF ConsumeReplyLost
    <3>2. pc' \in [Requests -> Steps] /\ faults' \in Nat
      BY <2>5 DEF ConsumeReplyLost, Goto, Steps, Spend
    <3>3. UNCHANGED <<plan, period, rows, born, window, answer, metered>>
      BY <2>5 DEF ConsumeReplyLost
    <3> QED BY <3>1, <3>2, <3>3
  <2>6. CASE ReportOverage(r)
    BY <2>6 DEF ReportOverage, Goto, Steps, AfterQuota, Spend
  <2>7. CASE CheckSoloLimit(r)
    BY <2>7 DEF CheckSoloLimit, Goto, Steps
  <2>8. CASE PrepareSnapshot(r)
    BY <2>8 DEF PrepareSnapshot, Goto, Steps, Spend
  <2>9. CASE InsertRun(r)
    BY <2>9 DEF InsertRun, InsertRow, Goto, Steps, Periods
  <2>10. CASE UniqueViolation(r)
    BY <2>10 DEF UniqueViolation, Goto, Steps
  <2>11. CASE FetchExistingRun(r)
    BY <2>11 DEF FetchExistingRun, Twins, Goto, Undo, Steps
  <2>12. CASE CreateFails(r)
    BY <2>12 DEF CreateFails, Goto, Undo, Steps, Spend
  <2>13. CASE CreateReplyLost(r)
    BY <2>13 DEF CreateReplyLost, InsertRow, Goto, Undo, Steps, Spend, Periods
  <2>14. CASE ReleaseQuota(r)
    <3> DEFINE p == ticket[r].period
    <3>1. usage' \in [Periods -> Row]
      <4>1. CASE p \in Periods /\ usage[p].present /\ usage[p].count > 0
        <5>1. Decrement(usage[p], ticket[r].over) \in Row
          BY <4>1, DecrementType DEF Ticket
        <5> QED BY <2>14, <4>1, <5>1 DEF ReleaseQuota
      <4>2. CASE p \notin Periods
        BY <2>14, <4>2 DEF ReleaseQuota
      <4>3. CASE ~(usage[p].present /\ usage[p].count > 0)
        BY <2>14, <4>3 DEF ReleaseQuota
      <4> QED BY <4>1, <4>2, <4>3
    <3>2. ticket' \in [Requests -> Ticket]
      BY <2>14, BoundsAssumption DEF ReleaseQuota, Ticket, NoTicket
    <3> QED BY <2>14, <3>1, <3>2 DEF ReleaseQuota, Goto, Steps
  <2>15. CASE RequestDies(r)
    BY <2>15 DEF RequestDies, Goto, Steps, Spend
  <2> QED BY <1>1, <2>1, <2>2, <2>3, <2>4, <2>5, <2>6, <2>7, <2>8, <2>9, <2>10,
             <2>11, <2>12, <2>13, <2>14, <2>15 DEF Handle
<1>2. CASE ChangePlan
  BY <1>2, SwitchesAssumption DEF ChangePlan
<1>3. CASE NextPeriod
  BY <1>3, BoundsAssumption DEF NextPeriod, Periods
<1>4. CASE PurgeOldRuns
  BY <1>4 DEF PurgeOldRuns
<1> QED BY <1>0, <1>1, <1>2, <1>3, <1>4 DEF Next

\* The tables and the handlers' local variables keep their types.
THEOREM TypeCorrect == Spec => []TypeOK
BY TypeInit, TypeStep, PTL DEF Spec

-----------------------------------------------------------------------------
(* Which steps of a handler have a ticket in hand. *)

\* Before the quota a request has no ticket; one that is given back was taken
\* in some period.
TicketPhase ==
    \A r \in Requests :
       /\ pc[r] \in {"check", "plan", "consume", "insert"} => ticket[r] = NoTicket
       /\ pc[r] = "release" => ticket[r] # NoTicket
       /\ ticket[r] = NoTicket \/ ticket[r].period \in Periods

TicketInv == TypeOK /\ TicketPhase

LEMMA TicketInit == Init => TicketPhase
BY DEF Init, TicketPhase

LEMMA CountTicketPhase ==
    ASSUME TicketInv, NEW r \in Requests, CountTicket(r),
           NEW step \in {"meter", "prepare", "create", "end"}, Goto(r, step)
    PROVE  TicketPhase'
<1> USE DEF TicketInv, TicketPhase
<1>1. /\ ticket'[r].period \in Periods
      /\ \A q \in Requests \ {r} : ticket'[q] = ticket[q]
  BY DEF TypeOK, CountTicket
<1> QED BY <1>1 DEF TypeOK, Goto

LEMMA TakeTicketPhase ==
    ASSUME TicketInv, NEW r \in Requests, TakeTicket(r)
    PROVE  TicketPhase'
BY CountTicketPhase DEF TakeTicket, AfterQuota

LEMMA TicketStep == TicketInv /\ [Next]_vars => TicketPhase'
<1> SUFFICES ASSUME TicketInv, [Next]_vars PROVE TicketPhase'
  OBVIOUS
<1> USE DEF TicketInv, TypeOK
<1>0. CASE UNCHANGED vars
  BY <1>0 DEF vars, TicketPhase
<1>1. ASSUME NEW r \in Requests, Handle(r) PROVE TicketPhase'
  <2>1. CASE EnforceRunawayProtection(r)
    BY <2>1 DEF EnforceRunawayProtection, Goto, TicketPhase
  <2>2. CASE ReadPlan(r)
    BY <2>2 DEF ReadPlan, Goto, TicketPhase
  <2>3. CASE ConsumeQuota(r)
    <3>1. CASE usage[window[r]].present
      BY <2>3, <3>1, TakeTicketPhase DEF ConsumeQuota
    <3>2. CASE ~usage[window[r]].present
      BY <2>3, <3>2 DEF ConsumeQuota, Goto, TicketPhase
    <3> QED BY <3>1, <3>2
  <2>4. CASE InsertUsage(r)
    <3>1. CASE usage[window[r]].present
      BY <2>4, <3>1 DEF InsertUsage, Goto, TicketPhase
    <3>2. CASE ~usage[window[r]].present
      BY <2>4, <3>2, TakeTicketPhase DEF InsertUsage
    <3> QED BY <3>1, <3>2
  <2>5. CASE ConsumeReplyLost(r)
    BY <2>5, CountTicketPhase DEF ConsumeReplyLost
  <2>6. CASE ReportOverage(r)
    BY <2>6 DEF ReportOverage, Goto, AfterQuota, TicketPhase
  <2>7. CASE CheckSoloLimit(r)
    BY <2>7 DEF CheckSoloLimit, Goto, TicketPhase
  <2>8. CASE PrepareSnapshot(r)
    BY <2>8 DEF PrepareSnapshot, Goto, TicketPhase
  <2>9. CASE InsertRun(r)
    BY <2>9 DEF InsertRun, Goto, TicketPhase
  <2>10. CASE UniqueViolation(r)
    BY <2>10 DEF UniqueViolation, Goto, TicketPhase
  <2>11. CASE FetchExistingRun(r)
    BY <2>11 DEF FetchExistingRun, Goto, Undo, TicketPhase
  <2>12. CASE CreateFails(r)
    BY <2>12 DEF CreateFails, Goto, Undo, TicketPhase
  <2>13. CASE CreateReplyLost(r)
    BY <2>13 DEF CreateReplyLost, Goto, Undo, TicketPhase
  <2>14. CASE ReleaseQuota(r)
    BY <2>14 DEF ReleaseQuota, Goto, TicketPhase
  <2>15. CASE RequestDies(r)
    BY <2>15 DEF RequestDies, Goto, TicketPhase
  <2> QED BY <1>1, <2>1, <2>2, <2>3, <2>4, <2>5, <2>6, <2>7, <2>8, <2>9, <2>10,
             <2>11, <2>12, <2>13, <2>14, <2>15 DEF Handle
<1>2. CASE ChangePlan \/ NextPeriod \/ PurgeOldRuns
  BY <1>2 DEF ChangePlan, NextPeriod, PurgeOldRuns, TicketPhase
<1> QED BY <1>0, <1>1, <1>2 DEF Next

\* All that happens to usage and tickets: a step leaves both alone, takes a
\* ticket where there was none, or gives one back.
LEMMA UsageSteps ==
    ASSUME TicketInv, [Next]_vars
    PROVE  \/ UNCHANGED <<usage, ticket>>
           \/ \E r \in Requests : ticket[r] = NoTicket /\ CountTicket(r)
           \/ \E r \in Requests : ticket[r] # NoTicket /\ ReleaseQuota(r)
<1> USE DEF TicketInv, TicketPhase
<1>1. ASSUME NEW r \in Requests, Handle(r)
      PROVE  \/ UNCHANGED <<usage, ticket>>
             \/ ticket[r] = NoTicket /\ CountTicket(r)
             \/ ticket[r] # NoTicket /\ ReleaseQuota(r)
  <2>1. CASE ConsumeQuota(r) \/ ConsumeReplyLost(r)
    BY <2>1 DEF ConsumeQuota, ConsumeReplyLost, TakeTicket
  <2>2. CASE InsertUsage(r)
    BY <2>2 DEF InsertUsage, TakeTicket
  <2>3. CASE ReleaseQuota(r)
    BY <2>3 DEF ReleaseQuota
  <2>4. CASE EnforceRunawayProtection(r) \/ ReadPlan(r) \/ ReportOverage(r)
             \/ CheckSoloLimit(r) \/ PrepareSnapshot(r) \/ InsertRun(r)
             \/ UniqueViolation(r) \/ FetchExistingRun(r) \/ CreateFails(r)
             \/ CreateReplyLost(r) \/ RequestDies(r)
    BY <2>4 DEF EnforceRunawayProtection, ReadPlan, ReportOverage, CheckSoloLimit,
                PrepareSnapshot, InsertRun, UniqueViolation, FetchExistingRun,
                CreateFails, CreateReplyLost, RequestDies
  <2> QED BY <1>1, <2>1, <2>2, <2>3, <2>4 DEF Handle
<1>2. CASE ChangePlan \/ NextPeriod \/ PurgeOldRuns \/ UNCHANGED vars
  BY <1>2 DEF ChangePlan, NextPeriod, PurgeOldRuns, vars
<1> QED BY <1>1, <1>2 DEF Next

-----------------------------------------------------------------------------
(* The accounting of the quota. *)

LEMMA HeldFinite ==
    ASSUME NEW p PROVE IsFiniteSet(Held(p)) /\ IsFiniteSet(HeldOver(p))
BY RequestsAssumption, FS_Subset DEF Held, HeldOver

\* Taking a ticket adds it to its period, and adds one to the row.
LEMMA TakeExact ==
    ASSUME TypeOK, UsageIsExact,
           NEW r \in Requests, ticket[r] = NoTicket, CountTicket(r)
    PROVE  UsageIsExact'
<1> DEFINE p == window[r]
           over == OverLimit(usage[p].count + 1)
<1>1. p \in Periods /\ usage[p] \in Row /\ over \in BOOLEAN /\ p # 0
  BY BoundsAssumption DEF TypeOK, OverLimit, Periods
<1>2. /\ usage' = [usage EXCEPT ![p] = Increment(usage[p])]
      /\ ticket' = [ticket EXCEPT ![r] = [period |-> p, over |-> over]]
  BY DEF CountTicket, Over
<1>3. /\ ticket'[r] = [period |-> p, over |-> over]
      /\ \A q \in Requests \ {r} : ticket'[q] = ticket[q]
  BY <1>2 DEF TypeOK
<1>4. \A q \in Periods : r \notin Held(q) /\ r \notin HeldOver(q)
  BY BoundsAssumption DEF Held, HeldOver, NoTicket, Periods
<1>5. ASSUME NEW q \in Periods
      PROVE  /\ usage'[q].count = Cardinality(Held(q)')
             /\ usage'[q].overage = Cardinality(HeldOver(q)')
             /\ ~usage'[q].present => Held(q)' = {}
  <2>1. /\ usage[q].count = Cardinality(Held(q))
        /\ usage[q].overage = Cardinality(HeldOver(q))
        /\ ~usage[q].present => Held(q) = {}
    BY DEF UsageIsExact
  <2>2. CASE q = p
    <3>1. Held(q)' = Held(q) \cup {r}
      BY <1>3, <2>2 DEF Held
    <3>2. HeldOver(q)' = IF over THEN HeldOver(q) \cup {r} ELSE HeldOver(q)
      BY <1>3, <1>4, <2>2 DEF HeldOver, Held
    <3>3. Cardinality(Held(q)') = Cardinality(Held(q)) + 1
      BY <3>1, <1>4, HeldFinite, FS_AddElement
    <3>4. Cardinality(HeldOver(q)') =
            IF over THEN Cardinality(HeldOver(q)) + 1 ELSE Cardinality(HeldOver(q))
      BY <3>2, <1>4, HeldFinite, FS_AddElement
    <3>5. usage'[q] = [present |-> TRUE, count |-> usage[q].count + 1,
                       overage |-> IF over THEN usage[q].overage + 1 ELSE usage[q].overage]
      BY <1>1, <1>2, <2>2 DEF TypeOK, Increment
    <3> QED BY <2>1, <3>3, <3>4, <3>5
  <2>3. CASE q # p
    <3>1. Held(q)' = Held(q) /\ HeldOver(q)' = HeldOver(q)
      BY <1>3, <1>4, <2>3 DEF HeldOver, Held
    <3>2. usage'[q] = usage[q]
      BY <1>2, <2>3 DEF TypeOK
    <3> QED BY <2>1, <3>1, <3>2
  <2> QED BY <2>2, <2>3
<1> QED BY <1>5 DEF UsageIsExact

\* Giving a ticket back takes it from its period: the row is there, its counts
\* are positive, and it is deleted only with the last ticket.
LEMMA ReleaseExact ==
    ASSUME TicketInv, UsageIsExact,
           NEW r \in Requests, ticket[r] # NoTicket, ReleaseQuota(r)
    PROVE  UsageIsExact'
<1> DEFINE p == ticket[r].period
           over == ticket[r].over
<1>1. p \in Periods /\ usage[p] \in Row /\ over \in BOOLEAN
  BY DEF TicketInv, TicketPhase, TypeOK, Ticket
<1>2. /\ usage[p].count = Cardinality(Held(p))
      /\ usage[p].overage = Cardinality(HeldOver(p))
      /\ ~usage[p].present => Held(p) = {}
  BY <1>1 DEF UsageIsExact
<1>3. r \in Held(p) /\ (r \in HeldOver(p) <=> over)
  BY DEF Held, HeldOver
<1>4. usage[p].present /\ usage[p].count > 0
  <2>1. Cardinality(Held(p)) # 0
    BY <1>3, HeldFinite, FS_EmptySet
  <2> QED BY <1>1, <1>2, <1>3, <2>1 DEF Row
<1>5. over => usage[p].overage > 0
  <2>1. over => Cardinality(HeldOver(p)) # 0
    BY <1>3, HeldFinite, FS_EmptySet
  <2> QED BY <1>1, <1>2, <2>1 DEF Row
<1>6. /\ usage' = [usage EXCEPT ![p] = Decrement(usage[p], over)]
      /\ ticket' = [ticket EXCEPT ![r] = NoTicket]
  BY <1>4 DEF ReleaseQuota
<1>7. /\ ticket'[r].period = 0 /\ 0 \notin Periods
      /\ \A q \in Requests \ {r} : ticket'[q] = ticket[q]
  BY <1>6, BoundsAssumption DEF TicketInv, TypeOK, NoTicket, Periods
<1>8. ASSUME NEW q \in Periods
      PROVE  /\ usage'[q].count = Cardinality(Held(q)')
             /\ usage'[q].overage = Cardinality(HeldOver(q)')
             /\ ~usage'[q].present => Held(q)' = {}
  <2>1. CASE q = p
    <3> DEFINE count == usage[p].count - 1
               overage == IF over THEN usage[p].overage - 1 ELSE usage[p].overage
    <3>1. Held(q)' = Held(p) \ {r} /\ HeldOver(q)' = HeldOver(p) \ {r}
      BY <1>7, <2>1 DEF HeldOver, Held
    <3>2. Cardinality(Held(q)') = count
      <4>1. Cardinality(Held(p) \ {r}) = Cardinality(Held(p)) - 1
        BY <1>3, HeldFinite, FS_RemoveElement
      <4> QED BY <3>1, <4>1, <1>2
    <3>3. Cardinality(HeldOver(q)') = overage
      <4>1. Cardinality(HeldOver(p) \ {r}) =
              IF over THEN Cardinality(HeldOver(p)) - 1 ELSE Cardinality(HeldOver(p))
        BY <1>3, HeldFinite, FS_RemoveElement
      <4> QED BY <3>1, <4>1, <1>2
    <3>4. usage'[q] = IF count = 0 /\ overage = 0 THEN NoRow
                      ELSE [present |-> TRUE, count |-> count, overage |-> overage]
      <4>1. usage'[q] = Decrement(usage[p], over)
        BY <1>6, <2>1 DEF TicketInv, TypeOK
      <4> QED BY <4>1, <1>1, <1>5 DEF Decrement
    <3> HIDE DEF count, overage
    <3>5. CASE count = 0 /\ overage = 0
      <4>1. Held(q)' = {}
        BY <3>1, <3>2, <3>5, HeldFinite, FS_RemoveElement, FS_EmptySet
      <4> QED BY <3>2, <3>3, <3>4, <3>5, <4>1 DEF NoRow
    <3>6. CASE ~(count = 0 /\ overage = 0)
      BY <3>2, <3>3, <3>4, <3>6
    <3> QED BY <3>5, <3>6
  <2>2. CASE q # p
    <3>1. Held(q)' = Held(q) /\ HeldOver(q)' = HeldOver(q)
      BY <1>7, <2>2 DEF HeldOver, Held
    <3>2. usage'[q] = usage[q]
      BY <1>6, <2>2 DEF TicketInv, TypeOK
    <3> QED BY <3>1, <3>2 DEF UsageIsExact
  <2> QED BY <2>1, <2>2
<1> QED BY <1>8 DEF UsageIsExact

LEMMA UsageInit == Init => UsageIsExact
<1> SUFFICES ASSUME Init, NEW p \in Periods
             PROVE  /\ usage[p].count = Cardinality(Held(p))
                    /\ usage[p].overage = Cardinality(HeldOver(p))
                    /\ ~usage[p].present => Held(p) = {}
  BY DEF UsageIsExact
<1>1. Held(p) = {} /\ HeldOver(p) = {}
  BY BoundsAssumption DEF Init, Held, HeldOver, NoTicket, Periods
<1> QED BY <1>1, FS_EmptySet DEF Init, NoRow

\* The two counters of workspace_run_usage are exactly the numbers of tickets
\* out, however consume and release interleave and whatever fails or is lost.
THEOREM UsageCountsTickets == Spec => []UsageIsExact
<1> DEFINE Inv == TicketInv /\ UsageIsExact
<1>1. Init => Inv
  BY TypeInit, TicketInit, UsageInit DEF TicketInv
<1>2. Inv /\ [Next]_vars => Inv'
  <2> SUFFICES ASSUME Inv, [Next]_vars PROVE Inv'
    OBVIOUS
  <2>1. TicketInv'
    BY TypeStep, TicketStep DEF TicketInv
  <2>2. CASE UNCHANGED <<usage, ticket>>
    <3>1. \A p : Held(p)' = Held(p) /\ HeldOver(p)' = HeldOver(p)
      BY <2>2 DEF Held, HeldOver
    <3> QED BY <2>1, <2>2, <3>1 DEF UsageIsExact
  <2>3. CASE \E r \in Requests : ticket[r] = NoTicket /\ CountTicket(r)
    BY <2>1, <2>3, TakeExact DEF TicketInv
  <2>4. CASE \E r \in Requests : ticket[r] # NoTicket /\ ReleaseQuota(r)
    BY <2>1, <2>4, ReleaseExact
  <2> QED BY <2>2, <2>3, <2>4, UsageSteps
<1> QED BY <1>1, <1>2, PTL DEF Spec

-----------------------------------------------------------------------------
(* The limit and the created runs. *)

\* What may happen to a row of usage, lost replies included.
LEMMA RowSteps ==
    ASSUME [Next]_vars
    PROVE  \/ UNCHANGED usage
           \/ \E p : usage' = [usage EXCEPT ![p] = Increment(@)]
           \/ \E p, over : /\ usage[p].count > 0
                            /\ usage' = [usage EXCEPT ![p] = Decrement(@, over)]
<1>1. ASSUME NEW r \in Requests, Handle(r)
      PROVE  \/ UNCHANGED usage
             \/ \E p : usage' = [usage EXCEPT ![p] = Increment(@)]
             \/ \E p, over : /\ usage[p].count > 0
                              /\ usage' = [usage EXCEPT ![p] = Decrement(@, over)]
  <2>1. CASE ConsumeQuota(r) \/ InsertUsage(r)
    BY <2>1 DEF ConsumeQuota, InsertUsage, TakeTicket, CountTicket
  <2>2. CASE ConsumeReplyLost(r)
    BY <2>2 DEF ConsumeReplyLost, CountTicket
  <2>3. CASE ReleaseQuota(r)
    BY <2>3 DEF ReleaseQuota
  <2>4. CASE EnforceRunawayProtection(r) \/ ReadPlan(r) \/ ReportOverage(r)
             \/ CheckSoloLimit(r) \/ PrepareSnapshot(r) \/ InsertRun(r)
             \/ UniqueViolation(r) \/ FetchExistingRun(r) \/ CreateFails(r)
             \/ CreateReplyLost(r) \/ RequestDies(r)
    BY <2>4 DEF EnforceRunawayProtection, ReadPlan, ReportOverage, CheckSoloLimit,
                PrepareSnapshot, InsertRun, UniqueViolation, FetchExistingRun,
                CreateFails, CreateReplyLost, RequestDies
  <2> QED BY <1>1, <2>1, <2>2, <2>3, <2>4 DEF Handle
<1>2. CASE ChangePlan \/ NextPeriod \/ PurgeOldRuns \/ UNCHANGED vars
  BY <1>2 DEF ChangePlan, NextPeriod, PurgeOldRuns, vars
<1> QED BY <1>1, <1>2 DEF Next

LEMMA IncrementWithinLimit ==
    ASSUME NEW row \in Row, row.count - row.overage <= RunLimit
    PROVE  Increment(row).count - Increment(row).overage <= RunLimit
BY LimitsAssumption DEF Increment, OverLimit, Row

LEMMA DecrementWithinLimit ==
    ASSUME NEW row \in Row, NEW over, row.count - row.overage <= RunLimit
    PROVE  Decrement(row, over).count - Decrement(row, over).overage <= RunLimit
<1> DEFINE count == row.count - 1
           overage == IF over /\ row.overage > 0 THEN row.overage - 1 ELSE row.overage
<1>1. count - overage <= RunLimit
  BY LimitsAssumption DEF Row
<1>2. CASE count = 0 /\ overage = 0
  BY <1>2, LimitsAssumption DEF Decrement, NoRow
<1>3. CASE ~(count = 0 /\ overage = 0)
  BY <1>1, <1>3 DEF Decrement
<1> QED BY <1>2, <1>3

\* A workspace never gets more than RunLimit runs of a period that are not
\* counted as overage, whatever replies, requests or statements are lost.
THEOREM LimitIsKept == Spec => []FreeRunsWithinLimit
<1> DEFINE Inv == TypeOK /\ FreeRunsWithinLimit
<1>1. Init => Inv
  <2>1. Init => FreeRunsWithinLimit
    BY LimitsAssumption DEF Init, FreeRunsWithinLimit, NoRow
  <2> QED BY <2>1, TypeInit
<1>2. Inv /\ [Next]_vars => Inv'
  <2> SUFFICES ASSUME Inv, [Next]_vars PROVE FreeRunsWithinLimit'
    BY TypeStep
  <2> SUFFICES ASSUME NEW q \in Periods
               PROVE  usage'[q].count - usage'[q].overage <= RunLimit
    BY DEF FreeRunsWithinLimit
  <2>1. usage[q] \in Row /\ usage[q].count - usage[q].overage <= RunLimit
    BY DEF TypeOK, FreeRunsWithinLimit
  <2>2. CASE UNCHANGED usage
    BY <2>1, <2>2
  <2>3. CASE \E p : usage' = [usage EXCEPT ![p] = Increment(@)]
    <3>1. usage'[q] = usage[q] \/ usage'[q] = Increment(usage[q])
      BY <2>3 DEF TypeOK
    <3> QED BY <2>1, <3>1, IncrementWithinLimit
  <2>4. CASE \E p, over : usage' = [usage EXCEPT ![p] = Decrement(@, over)]
    <3>1. PICK over : usage'[q] = usage[q] \/ usage'[q] = Decrement(usage[q], over)
      BY <2>4 DEF TypeOK
    <3> QED BY <2>1, <3>1, DecrementWithinLimit
  <2> QED BY <2>2, <2>3, <2>4, RowSteps
<1> QED BY <1>1, <1>2, PTL DEF Spec

(***************************************************************************)
(* CreatedRunsAreCounted is not inductive: it has to be known that a       *)
(* request that looks up the run of its key has no run in the table itself *)
(* (a lost reply leaves one behind, but sends the request past the lookup) *)
(* and that a request answered with its own run has ended.                 *)
(***************************************************************************)
AnswerLast ==
    \A r \in Requests :
       /\ r \in rows => pc[r] \in {"release", "end"}
       /\ answer[r] = r => pc[r] = "end"

LEMMA AnswerInit == Init => AnswerLast
BY RequestsAssumption DEF Init, AnswerLast

LEMMA AnswerStep == TypeOK /\ AnswerLast /\ [Next]_vars => AnswerLast'
<1> SUFFICES ASSUME TypeOK, AnswerLast, [Next]_vars PROVE AnswerLast'
  OBVIOUS
<1> USE DEF AnswerLast
<1>1. ASSUME NEW r \in Requests, Handle(r) PROVE AnswerLast'
  <2>1. CASE InsertRun(r)
    BY <2>1 DEF TypeOK, InsertRun, InsertRow, Goto
  <2>2. CASE CreateReplyLost(r)
    BY <2>2 DEF TypeOK, CreateReplyLost, InsertRow, Undo, Goto
  <2>3. CASE FetchExistingRun(r)
    <3>1. r \notin rows /\ answer[r] # r /\ rows' = rows
      BY <2>3 DEF FetchExistingRun
    <3>2. answer'[r] # r /\ \A q \in Requests \ {r} : answer'[q] = answer[q]
      BY <2>3, <3>1 DEF FetchExistingRun, Twins, TypeOK
    <3> QED BY <2>3, <3>1, <3>2 DEF FetchExistingRun, Goto, TypeOK
  <2>4. CASE ReleaseQuota(r)
    BY <2>4 DEF ReleaseQuota, Goto, TypeOK
  <2>5. CASE RequestDies(r)
    BY <2>5 DEF RequestDies, Goto, TypeOK
  <2>6. CASE /\ UNCHANGED <<rows, answer>>
             /\ pc[r] \notin {"release", "end"}
             /\ pc' = [pc EXCEPT ![r] = pc'[r]]
    BY <2>6 DEF TypeOK
  <2>7. CASE EnforceRunawayProtection(r) \/ ReadPlan(r) \/ ConsumeReplyLost(r)
             \/ ReportOverage(r) \/ CheckSoloLimit(r) \/ PrepareSnapshot(r)
             \/ UniqueViolation(r) \/ CreateFails(r)
    BY <2>6, <2>7 DEF EnforceRunawayProtection, ReadPlan, ConsumeReplyLost,
         ReportOverage, CheckSoloLimit, PrepareSnapshot, UniqueViolation,
         CreateFails, Goto, TypeOK
  <2>8. CASE ConsumeQuota(r) \/ InsertUsage(r)
    BY <2>6, <2>8 DEF ConsumeQuota, InsertUsage, TakeTicket, Goto, TypeOK
  <2> QED BY <1>1, <2>1, <2>2, <2>3, <2>4, <2>5, <2>7, <2>8 DEF Handle
<1>2. CASE ChangePlan \/ NextPeriod \/ PurgeOldRuns \/ UNCHANGED vars
  BY <1>2 DEF ChangePlan, NextPeriod, PurgeOldRuns, vars
<1> QED BY <1>1, <1>2 DEF Next

\* A request that gives its ticket back was not answered with a run of its own,
\* also when the reply to its INSERT was lost.
THEOREM NoRunEscapesCount == Spec => []CreatedRunsAreCounted
<1>1. AnswerLast => CreatedRunsAreCounted
  BY DEF AnswerLast, CreatedRunsAreCounted
<1> QED BY <1>1, TypeInit, TypeStep, AnswerInit, AnswerStep, PTL DEF Spec

(***************************************************************************)
(* UsageIsSettled needs to know that no ticket is out at the check of the  *)
(* solo plan, and that faults only fall: a step that spends one leaves     *)
(* less than MaxFaults for good, and a handler that dies is such a step.   *)
(***************************************************************************)
SettleInv ==
    /\ faults <= MaxFaults
    /\ \A r \in Requests : pc[r] = "solo" => ticket[r] = NoTicket
    /\ UsageIsSettled

LEMMA SettleInit == Init => SettleInv
BY BoundsAssumption DEF Init, SettleInv, UsageIsSettled

\* It is enough to look at the request that takes the step.
LEMMA SettleOne ==
    ASSUME TicketInv, SettleInv, NEW r \in Requests,
           faults' \in Nat, faults' <= faults,
           \A q \in Requests \ {r} :
              pc'[q] = pc[q] /\ ticket'[q] = ticket[q] /\ born'[q] = born[q],
           pc'[r] = "solo" => ticket'[r] = NoTicket,
           \/ faults' < faults
           \/ pc'[r] = "end" /\ ticket'[r] # NoTicket => born'[r] > 0
    PROVE  SettleInv'
<1>1. faults' <= MaxFaults /\ (faults' = MaxFaults => faults = MaxFaults)
  BY BoundsAssumption DEF TicketInv, TypeOK, SettleInv
<1>2. \A q \in Requests : pc'[q] = "solo" => ticket'[q] = NoTicket
  BY DEF SettleInv
<1>3. ASSUME faults' = MaxFaults, NEW q \in Requests,
             pc'[q] = "end", ticket'[q] # NoTicket
      PROVE  born'[q] > 0
  <2>1. CASE q = r
    BY <1>1, <1>3, <2>1 DEF TicketInv, TypeOK
  <2>2. CASE q # r
    BY <1>1, <1>3, <2>2 DEF SettleInv, UsageIsSettled
  <2> QED BY <2>1, <2>2
<1> QED BY <1>1, <1>2, <1>3 DEF SettleInv, UsageIsSettled

LEMMA SettleStep == TicketInv /\ SettleInv /\ [Next]_vars => SettleInv'
<1> SUFFICES ASSUME TicketInv, SettleInv, [Next]_vars PROVE SettleInv'
  OBVIOUS
<1> USE DEF TicketInv, TypeOK
<1>1. ASSUME NEW r \in Requests, Handle(r) PROVE SettleInv'
  <2>1. CASE ConsumeQuota(r) \/ InsertUsage(r)
    <3>1. pc'[r] # "solo" /\ UNCHANGED <<faults, born>>
      BY <2>1 DEF ConsumeQuota, InsertUsage, TakeTicket, Goto, AfterQuota
    <3>2. \A q \in Requests \ {r} : pc'[q] = pc[q] /\ ticket'[q] = ticket[q]
      BY <2>1 DEF ConsumeQuota, InsertUsage, TakeTicket, CountTicket, Goto
    <3>3. pc'[r] = "end" => ticket'[r] = NoTicket
      BY <2>1 DEF ConsumeQuota, InsertUsage, TakeTicket, Goto, AfterQuota, TicketPhase
    <3> QED BY <3>1, <3>2, <3>3, SettleOne
  <2>2. CASE ConsumeReplyLost(r)
    BY <2>2, SettleOne DEF ConsumeReplyLost, CountTicket, Goto, Spend
  <2>3. CASE EnforceRunawayProtection(r) \/ ReadPlan(r)
    BY <2>3, SettleOne DEF EnforceRunawayProtection, ReadPlan, Goto, TicketPhase
  <2>4. CASE ReportOverage(r)
    <3>1. pc'[r] \notin {"solo", "end"} /\ faults' \in Nat /\ faults' <= faults
      BY <2>4 DEF ReportOverage, Goto, AfterQuota, Spend
    <3> QED BY <2>4, <3>1, SettleOne DEF ReportOverage, Goto
  <2>5. CASE CheckSoloLimit(r)
    BY <2>5, SettleOne DEF CheckSoloLimit, Goto, SettleInv
  <2>6. CASE PrepareSnapshot(r)
    BY <2>6, SettleOne DEF PrepareSnapshot, Goto, Spend
  <2>7. CASE InsertRun(r)
    <3>1. born'[r] > 0 /\ \A q \in Requests \ {r} : born'[q] = born[q]
      BY <2>7, BoundsAssumption DEF InsertRun, InsertRow, Periods
    <3> QED BY <2>7, <3>1, SettleOne DEF InsertRun, Goto
  <2>8. CASE UniqueViolation(r)
    BY <2>8, SettleOne DEF UniqueViolation, Goto
  <2>9. CASE FetchExistingRun(r)
    <3>1. pc'[r] = Undo(r) /\ \A q \in Requests \ {r} : pc'[q] = pc[q]
      BY <2>9 DEF FetchExistingRun, Goto
    <3>2. UNCHANGED <<ticket, born, faults>>
      BY <2>9 DEF FetchExistingRun
    <3> QED BY <3>1, <3>2, SettleOne DEF Undo
  <2>10. CASE CreateFails(r) \/ RequestDies(r)
    BY <2>10, SettleOne DEF CreateFails, RequestDies, Undo, Goto, Spend
  <2>11. CASE CreateReplyLost(r)
    <3>1. \A q \in Requests \ {r} : born'[q] = born[q]
      BY <2>11 DEF CreateReplyLost, InsertRow
    <3> QED BY <2>11, <3>1, SettleOne DEF CreateReplyLost, Undo, Goto, Spend
  <2>12. CASE ReleaseQuota(r)
    BY <2>12, SettleOne DEF ReleaseQuota, Goto
  <2> QED BY <1>1, <2>1, <2>2, <2>3, <2>4, <2>5, <2>6, <2>7, <2>8, <2>9, <2>10,
             <2>11, <2>12 DEF Handle
<1>2. CASE ChangePlan \/ NextPeriod \/ PurgeOldRuns \/ UNCHANGED vars
  BY <1>2 DEF ChangePlan, NextPeriod, PurgeOldRuns, vars, SettleInv, UsageIsSettled
<1> QED BY <1>1, <1>2 DEF Next

\* A request that ends without a run of its own has given its ticket back, on
\* every path of the three handlers on which no statement fails.
THEOREM TicketsAreSettled == Spec => []UsageIsSettled
<1> DEFINE Inv == TicketInv /\ SettleInv
<1>1. Init => Inv
  BY TypeInit, TicketInit, SettleInit DEF TicketInv
<1>2. Inv /\ [Next]_vars => Inv'
  BY TypeStep, TicketStep, SettleStep DEF TicketInv
<1>3. Inv => UsageIsSettled
  BY DEF SettleInv
<1> QED BY <1>1, <1>2, <1>3, PTL DEF Spec

-----------------------------------------------------------------------------
(* Idempotency keys. *)

\* The unique index holds at most one row of a key, and a request is answered
\* with a run of its own key: its own, or the one it found in the way.
KeyInv ==
    /\ \A q, r \in rows : KeyOf[q] = KeyOf[r] /\ KeyOf[r] # NoKey => q = r
    /\ \A r \in Requests : answer[r] # NoRun => KeyOf[answer[r]] = KeyOf[r]

LEMMA KeyInit == Init => KeyInv
BY DEF Init, KeyInv

LEMMA KeyStep == TypeOK /\ KeyInv /\ [Next]_vars => KeyInv'
<1> SUFFICES ASSUME TypeOK, KeyInv, [Next]_vars PROVE KeyInv'
  OBVIOUS
<1>1. ASSUME NEW r \in Requests, InsertRow(r),
             answer' = answer \/ answer' = [answer EXCEPT ![r] = r]
      PROVE  KeyInv'
  BY <1>1 DEF InsertRow, Twins, KeyInv, TypeOK
<1>2. CASE rows' \subseteq rows /\ UNCHANGED answer
  BY <1>2 DEF KeyInv
<1>3. ASSUME NEW r \in Requests, FetchExistingRun(r) PROVE KeyInv'
  BY <1>3 DEF FetchExistingRun, Twins, KeyInv, TypeOK
<1>4. ASSUME NEW r \in Requests, Handle(r) PROVE KeyInv'
  <2>1. CASE InsertRun(r) \/ CreateReplyLost(r)
    BY <1>1, <2>1 DEF InsertRun, CreateReplyLost
  <2>2. CASE ConsumeQuota(r) \/ InsertUsage(r) \/ ConsumeReplyLost(r)
    BY <1>2, <2>2 DEF ConsumeQuota, InsertUsage, ConsumeReplyLost
  <2>3. CASE EnforceRunawayProtection(r) \/ ReadPlan(r) \/ ReportOverage(r)
             \/ CheckSoloLimit(r) \/ PrepareSnapshot(r) \/ UniqueViolation(r)
             \/ CreateFails(r) \/ ReleaseQuota(r) \/ RequestDies(r)
    BY <1>2, <2>3 DEF EnforceRunawayProtection, ReadPlan, ReportOverage,
         CheckSoloLimit, PrepareSnapshot, UniqueViolation, CreateFails,
         ReleaseQuota, RequestDies
  <2> QED BY <1>3, <1>4, <2>1, <2>2, <2>3 DEF Handle
<1>5. CASE ChangePlan \/ NextPeriod \/ PurgeOldRuns \/ UNCHANGED vars
  BY <1>2, <1>5 DEF ChangePlan, NextPeriod, PurgeOldRuns, vars
<1> QED BY <1>4, <1>5 DEF Next

\* Two requests with the same idempotency key are never answered with two runs
\* that are both kept, however their inserts, lookups and the purge interleave.
THEOREM KeysNameOneRun == Spec => []SameKeySameRun
<1>1. TypeOK /\ KeyInv => SameKeySameRun
  BY RequestsAssumption DEF TypeOK, KeyInv, SameKeySameRun
<1> QED BY <1>1, TypeInit, TypeStep, KeyInit, KeyStep, PTL DEF Spec
=============================================================================

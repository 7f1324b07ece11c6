------------------------------- MODULE Issues -------------------------------
(***************************************************************************)
(* An issue a user reports and the conversation about it with the admins:   *)
(* issue_reports and issue_report_messages.  Every statement is a step of   *)
(* its own; those whose result the code drops may fail unnoticed.           *)
(* updated_at only orders the lists and is left out.                        *)
(***************************************************************************)
EXTENDS Naturals, Sequences, FiniteSets

CONSTANTS
    UserDesk, AdminDesk,  \* requests of the user and of the admins
    MaxMessages,          \* bound: messages of the thread
    MaxLost               \* bound: failed statements

ASSUME IssuesAssumption == UserDesk \cap AdminDesk = {} /\ MaxMessages \in Nat /\ MaxLost \in Nat

VARIABLES
    report,     \* the row of issue_reports: its status, or "none"
    thread,     \* issue_report_messages in the order of created_at
    desk,       \* the requests being served
    shown,      \* history: messages an answer has shown to an admin, 0 the description
    overlooked, \* history: what was marked without being shown, or has no row
    crossed,    \* history: two replies overlapped, or a status was not written
    lost

issueVars == <<report, thread, desk, shown, overlooked, crossed, lost>>

Desks == UserDesk \cup AdminDesk
Statuses == {"open", "waiting_admin", "waiting_user"}
NoRequest == [pc |-> "idle", op |-> "none", marked |-> {}]
MessageIds == 1..MaxMessages

IssuesTypeOK ==
    /\ report \in Statuses \cup {"none"}
    /\ Len(thread) <= MaxMessages
    /\ \A i \in 1..Len(thread) :
         thread[i] \in [from: {"user", "admin"}, readByUser: BOOLEAN, readByAdmin: BOOLEAN]
    /\ desk \in [Desks -> [pc: {"idle", "first", "mark", "insert", "status", "fetch"},
                           op: {"none", "submit", "get", "reply", "read"}, marked: SUBSET MessageIds]]
    /\ shown \subseteq 0..MaxMessages /\ overlooked \subseteq 0..MaxMessages
    /\ crossed \in BOOLEAN /\ lost \in 0..MaxLost

IssuesInit ==
    /\ report = "none" /\ thread = <<>> /\ desk = [d \in Desks |-> NoRequest]
    /\ shown = {} /\ overlooked = {} /\ crossed = FALSE /\ lost = MaxLost

----------------------------------------------------------------------------
Handling(d, step) == desk[d].pc = step
DeskTo(d, step) == desk' = [desk EXCEPT ![d].pc = step]
Answered(d) == desk' = [desk EXCEPT ![d] = NoRequest]
Loses == lost > 0 /\ lost' = lost - 1
Takes(d, op, step) == Handling(d, "idle") /\ desk' = [desk EXCEPT ![d] = [NoRequest EXCEPT !.pc = step, !.op = op]]

UnreadBy(side) ==
    {i \in 1..Len(thread) : IF side = "admin" THEN thread[i].from = "user" /\ ~thread[i].readByAdmin
                                              ELSE thread[i].from = "admin" /\ ~thread[i].readByUser}
MarkRead(side, ids) ==
    thread' = [i \in 1..Len(thread) |->
                 IF i \notin ids THEN thread[i]
                 ELSE IF side = "admin" THEN [thread[i] EXCEPT !.readByAdmin = TRUE]
                                        ELSE [thread[i] EXCEPT !.readByUser = TRUE]]
InsertMessage(side) ==
    /\ Len(thread) < MaxMessages
    /\ thread' = Append(thread, [from |-> side, readByUser |-> side = "user", readByAdmin |-> side = "admin"])

\* Mutant: only the newest message.
FetchNewestMessage == IF thread = <<>> THEN {0} ELSE {Len(thread)}

\* fetch_issue_messages: the description stands in for a thread without rows.
FetchIssueMessages == IF thread = <<>> THEN {0} ELSE 1..Len(thread)

----------------------------------------------------------------------------
\* submit_issue_report: create_issue_report with the status "open", ...
SubmitIssueReport(d) ==
    /\ report = "none" /\ report' = "open"
    /\ Takes(d, "submit", "first")
    /\ UNCHANGED <<thread, shown, overlooked, crossed, lost>>

\* ... then the description as the first message, whose insert may fail unnoticed.
InsertFirstMessage(d) ==
    /\ Handling(d, "first") /\ Answered(d)
    /\ \/ InsertMessage("user") /\ UNCHANGED <<overlooked, lost>>
       \/ Loses /\ overlooked' = overlooked \cup {0} /\ UNCHANGED thread
    /\ UNCHANGED <<report, shown, crossed>>

\* get_issue_with_messages writes nothing.
UserGetsIssue(d) ==
    /\ report # "none" /\ Takes(d, "get", "fetch")
    /\ UNCHANGED <<report, thread, shown, overlooked, crossed, lost>>

UserFetches(d) ==
    /\ d \in UserDesk /\ Handling(d, "fetch") /\ Answered(d)
    /\ UNCHANGED <<report, thread, shown, overlooked, crossed, lost>>

\* mark_issue_messages_read: the messages of the admins there are at this moment.
UserMarksRead(d) ==
    /\ d \in UserDesk /\ report # "none" /\ Handling(d, "idle")
    /\ \/ MarkRead("user", UnreadBy("user")) /\ UNCHANGED lost
       \/ Loses /\ UNCHANGED thread
    /\ UNCHANGED <<report, desk, shown, overlooked, crossed>>

\* The user's reply_to_issue after its checks.
Overlapping(d) == \E e \in Desks \ {d} : desk[e].op \in {"submit", "reply"}

UserReplies(d) ==
    /\ report # "none" /\ Takes(d, "reply", "insert")
    /\ crossed' = (crossed \/ Overlapping(d))
    /\ UNCHANGED <<report, thread, shown, overlooked, lost>>

InsertReply(d, side) ==
    /\ Handling(d, "insert")
    /\ \/ InsertMessage(side) /\ DeskTo(d, "status") /\ UNCHANGED <<overlooked, lost>>
       \/ Loses /\ Answered(d) /\ UNCHANGED thread
          /\ overlooked' = overlooked \cup (desk[d].marked \ shown)
    /\ UNCHANGED <<report, shown, crossed>>

\* The status is written as far as it goes.
WriteStatus(d, status) ==
    /\ Handling(d, "status") /\ DeskTo(d, "fetch")
    /\ \/ report' = status /\ UNCHANGED <<crossed, lost>>
       \/ Loses /\ crossed' = TRUE /\ UNCHANGED report
    /\ UNCHANGED <<thread, shown, overlooked>>

UserReplyIsStored(d) == d \in UserDesk /\ InsertReply(d, "user")

\* Mutant: only an issue that is still open changes its status.
UserReplyOnlyOpens(d) == d \in UserDesk /\ WriteStatus(d, IF report = "open" THEN "waiting_admin" ELSE report)

UserReplySetsStatus(d) == d \in UserDesk /\ WriteStatus(d, "waiting_admin")

----------------------------------------------------------------------------
\* get_issue of the admins: mark_issue_read_internal, then fetch_issue_messages.
AdminGetsIssue(d) ==
    /\ report # "none" /\ Takes(d, "get", "mark")
    /\ UNCHANGED <<report, thread, shown, overlooked, crossed, lost>>

\* reply_to_issue of the admins also marks first.
AdminReplies(d) ==
    /\ report # "none" /\ Takes(d, "reply", "mark")
    /\ crossed' = (crossed \/ Overlapping(d))
    /\ UNCHANGED <<report, thread, shown, overlooked, lost>>

\* What is marked is what the user has written so far.
AdminMarks(d) ==
    /\ d \in AdminDesk /\ Handling(d, "mark")
    /\ \/ /\ MarkRead("admin", UnreadBy("admin")) /\ UNCHANGED lost
          /\ desk' = [desk EXCEPT ![d].pc = IF desk[d].op = "reply" THEN "insert" ELSE "fetch",
                                  ![d].marked = UnreadBy("admin")]
       \/ /\ Loses /\ UNCHANGED thread
          /\ DeskTo(d, IF desk[d].op = "reply" THEN "insert" ELSE "fetch")
    /\ UNCHANGED <<report, shown, overlooked, crossed>>

AdminReplyIsStored(d) == d \in AdminDesk /\ InsertReply(d, "admin")

AdminReplySetsStatus(d) == d \in AdminDesk /\ WriteStatus(d, "waiting_user")

AdminFetches(d) ==
    /\ d \in AdminDesk /\ Handling(d, "fetch") /\ Answered(d)
    /\ \/ shown' = shown \cup FetchIssueMessages /\ UNCHANGED <<overlooked, lost>>
       \/ Loses /\ overlooked' = overlooked \cup (desk[d].marked \ shown) /\ UNCHANGED shown
    /\ UNCHANGED <<report, thread, crossed>>

\* mark_issue_read shows nothing.
AdminMarksRead(d) ==
    /\ report # "none" /\ Handling(d, "idle")
    /\ MarkRead("admin", UnreadBy("admin"))
    /\ overlooked' = overlooked \cup (UnreadBy("admin") \ shown)
    /\ UNCHANGED <<report, desk, shown, crossed, lost>>

----------------------------------------------------------------------------
\* What the lists say of the issue: list_user_issues, ...
ListUserIssues ==
    [status |-> report, unread |-> Cardinality(UnreadBy("user")),
     lastSender |-> IF thread = <<>> THEN "user" ELSE thread[Len(thread)].from]

\* ... list_issues, ...
ListIssues == [status |-> report, unread |-> Cardinality(UnreadBy("admin"))]

\* ... and the list of a workspace.
FetchIssuesForWorkspace == ListIssues

UserStep(d) ==
    \/ SubmitIssueReport(d) \/ InsertFirstMessage(d) \/ UserGetsIssue(d) \/ UserFetches(d)
    \/ UserMarksRead(d) \/ UserReplies(d) \/ UserReplyIsStored(d) \/ UserReplySetsStatus(d)

AdminStep(d) ==
    \/ AdminGetsIssue(d) \/ AdminReplies(d) \/ AdminMarks(d) \/ AdminReplyIsStored(d)
    \/ AdminReplySetsStatus(d) \/ AdminFetches(d) \/ AdminMarksRead(d)

IssuesNext == (\E d \in UserDesk : UserStep(d)) \/ (\E d \in AdminDesk : AdminStep(d))

IssuesSpec == IssuesInit /\ [][IssuesNext]_issueVars

----------------------------------------------------------------------------
(* What the user wrote and no admin was shown is in the unread count of          *)
(* list_issues, or is just being shown: get_issue and reply_to_issue mark first  *)
(* and fetch after it, so that a message that arrives between is shown unread    *)
(* and never marked unseen.  It is not said of a message whose request failed    *)
(* after the mark, of mark_issue_read, or of a description without a row.        *)
NoMessageIsOverlooked ==
    LET Unseen == {i \in 1..Len(thread) : thread[i].from = "user"} \ (shown \cup overlooked)
        OnTheWay == UNION {desk[d].marked : d \in AdminDesk} IN
    Cardinality(Unseen \ OnTheWay) <= ListIssues.unread /\ FetchIssuesForWorkspace.unread = ListIssues.unread

(* While nobody is replying the status names the side whose turn it is: the one  *)
(* that did not write the last message.  It is not said once two replies         *)
(* overlapped or a status was not written: message and status are two            *)
(* statements, and the second's failure is dropped.                              *)
StatusTellsWhoIsNext ==
    (~crossed /\ (\A d \in Desks : desk[d].op # "reply" \/ desk[d].pc \in {"mark", "fetch"})) =>
        (ListUserIssues.status = "waiting_user" <=> ListUserIssues.lastSender = "admin")
=============================================================================

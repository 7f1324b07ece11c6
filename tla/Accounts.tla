------------------------------ MODULE Accounts ------------------------------
(***************************************************************************)
(* Accounts of one email address: sign-up with or without an invitation,   *)
(* the compensation of a sign-up that fails half way, verification of the  *)
(* address, and deletion.  A sign-up is a sequence of statements without a *)
(* transaction; everything else interleaves with it.  Each sign-up has the *)
(* user id it creates.                                                     *)
(***************************************************************************)
EXTENDS Naturals, FiniteSets

CONSTANTS
    Signups,          \* sign-ups, and the user ids they create
    Errands,          \* other requests being served at once
    NoAccount,
    MaxMails,         \* bound: verification mails sent again
    MaxAccountFaults  \* bound: failed statements, unsent mails and stopped servers

ASSUME AccountsAssumption ==
    /\ IsFiniteSet(Signups) /\ IsFiniteSet(Errands) /\ NoAccount \notin Signups
    /\ MaxMails \in Nat /\ MaxAccountFaults \in Nat

VARIABLES
    account,       \* users
    home,          \* the user's own workspace: none, without a member, or with its owner
    joined,        \* members of the inviting workspace
    invitation,    \* the status of the invitation of this address
    closed,        \* whether the inviting workspace is at its limit or on another plan
    tokens,        \* email_verification_tokens that are not used
    mailed,        \* verification mails that arrived
    logins,        \* user_login_activity: users with a row
    deletion,      \* account_deletion_tokens
    subscribed,    \* users with an active subscription at Stripe
    canceled,      \* history: users whose subscription a deletion canceled
    signup, errand,
    stranded,      \* history: sign-ups whose compensation did not take place
    accountFaults

accountVars == <<account, home, joined, invitation, closed, tokens, mailed, logins, deletion,
                 subscribed, canceled, signup, errand, stranded, accountFaults>>
membershipRows == <<home, joined, invitation, closed>>
mailRows == <<tokens, mailed>>
deletionRows == <<logins, deletion, subscribed, canceled>>

Choices == {"plain", "join", "decline", "oauth"}
SignupPcs == {"idle", "create", "terms", "home", "owner", "seats", "join", "accept", "decline",
              "token", "mail", "cleanToken", "cleanUser", "done"}
ErrandPcs == {"idle", "verified", "dropTokens", "newToken", "send", "cancel", "finalize"}
MailTokens == Signups \X (0..MaxMails)
NoErrand == [pc |-> "idle", user |-> NoAccount, token |-> 0]

AccountsTypeOK ==
    /\ account \in [Signups -> {"none", "unverified", "verified", "gone"}]
    /\ home \in [Signups -> {"none", "empty", "owned"}]
    /\ joined \subseteq Signups /\ closed \in BOOLEAN
    /\ invitation \in {"pending", "accepted", "declined"}
    /\ tokens \subseteq MailTokens /\ mailed \subseteq MailTokens
    /\ logins \subseteq Signups /\ deletion \subseteq Signups
    /\ subscribed \subseteq Signups /\ canceled \subseteq Signups
    /\ signup \in [Signups -> [pc: SignupPcs, choice: Choices,
                               answer: {"none", "created", "refused", "unseated"}]]
    /\ errand \in [Errands -> [pc: ErrandPcs, user: Signups \cup {NoAccount}, token: 0..MaxMails]]
    /\ stranded \subseteq Signups /\ accountFaults \in 0..MaxAccountFaults

AccountsInit ==
    /\ account = [i \in Signups |-> "none"] /\ home = [i \in Signups |-> "none"]
    /\ joined = {} /\ invitation = "pending" /\ closed \in BOOLEAN
    /\ tokens = {} /\ mailed = {}
    /\ logins = {} /\ deletion = {} /\ subscribed = {} /\ canceled = {}
    /\ signup = [i \in Signups |-> [pc |-> "idle", choice |-> "plain", answer |-> "none"]]
    /\ errand = [e \in Errands |-> NoErrand]
    /\ stranded = {} /\ accountFaults = MaxAccountFaults

----------------------------------------------------------------------------
Exists(i) == account[i] \in {"unverified", "verified"}
EmailTaken == \E i \in Signups : Exists(i)

Signing(i, pc) == signup[i].pc = pc
SignupTo(i, pc) == signup' = [signup EXCEPT ![i].pc = pc]
SignupEnds(i, answer) == signup' = [signup EXCEPT ![i].pc = "done", ![i].answer = answer]

\* DELETE FROM users: what refers to the row goes with it, except for
\* user_login_activity, which refers to it without ON DELETE CASCADE.
DeleteUser(i) ==
    /\ account' = [account EXCEPT ![i] = "gone"]
    /\ home' = [home EXCEPT ![i] = "none"]
    /\ joined' = joined \ {i}
    /\ tokens' = {t \in tokens : t[1] # i}
    /\ deletion' = deletion \ {i}

----------------------------------------------------------------------------
(* handle_signup. *)

\* The terms, the address and the invitation are checked.
BeginSignup(i, choice) ==
    /\ Signing(i, "idle") /\ ~EmailTaken
    /\ choice \in {"join", "decline"} => invitation = "pending"
    /\ signup' = [signup EXCEPT ![i].pc = "create", ![i].choice = choice]
    /\ UNCHANGED <<account, membershipRows, mailRows, deletionRows, errand, stranded, accountFaults>>

\* create_user, or create_user_with_oauth, which is all there is to a sign-up
\* with Google or GitHub; the address is unique.
CreateUser(i) ==
    LET oauth == signup[i].choice = "oauth" IN
    /\ Signing(i, "create")
    /\ IF EmailTaken
         THEN SignupEnds(i, "refused") /\ UNCHANGED account
         ELSE /\ account' = [account EXCEPT ![i] = IF oauth THEN "verified" ELSE "unverified"]
              /\ IF oauth THEN SignupEnds(i, "none") ELSE SignupTo(i, "terms")
    /\ UNCHANGED <<membershipRows, mailRows, deletionRows, errand, stranded, accountFaults>>

\* record_terms_acceptance
RecordTerms(i) ==
    /\ Signing(i, "terms") /\ Exists(i)
    /\ SignupTo(i, IF signup[i].choice = "join" THEN "seats" ELSE "home")
    /\ UNCHANGED <<account, membershipRows, mailRows, deletionRows, errand, stranded, accountFaults>>

CreateHome(i) ==
    /\ Signing(i, "home") /\ Exists(i)
    /\ home' = [home EXCEPT ![i] = "empty"]
    /\ SignupTo(i, "owner")
    /\ UNCHANGED <<account, joined, invitation, closed, mailRows, deletionRows, errand, stranded,
                   accountFaults>>

AddOwner(i) ==
    /\ Signing(i, "owner") /\ Exists(i)
    /\ home' = [home EXCEPT ![i] = "owned"]
    /\ SignupTo(i, IF signup[i].choice = "decline" THEN "decline" ELSE "token")
    /\ UNCHANGED <<account, joined, invitation, closed, mailRows, deletionRows, errand, stranded,
                   accountFaults>>

\* ensure_workspace_can_add_members: the plan, the members and the invitations of
\* the workspace.  Whatever its error, a database's too, it is the answer, and the
\* account stays as it is.
CheckSeats(i) ==
    /\ Signing(i, "seats")
    /\ \/ ~closed /\ SignupTo(i, "join") /\ UNCHANGED accountFaults
       \/ closed /\ SignupEnds(i, "unseated") /\ UNCHANGED accountFaults
       \/ /\ accountFaults > 0 /\ accountFaults' = accountFaults - 1
          /\ SignupEnds(i, "unseated")
    /\ UNCHANGED <<account, membershipRows, mailRows, deletionRows, errand, stranded>>

JoinWorkspace(i) ==
    /\ Signing(i, "join") /\ Exists(i)
    /\ joined' = joined \cup {i}
    /\ SignupTo(i, "accept")
    /\ UNCHANGED <<account, home, invitation, closed, mailRows, deletionRows, errand, stranded,
                   accountFaults>>

\* mark_invitation_accepted, mark_invitation_declined; a failure is only logged.
MarkInvitationUsed(i) ==
    /\ signup[i].pc \in {"accept", "decline"}
    /\ \/ /\ invitation' = IF invitation # "pending" THEN invitation
                           ELSE IF Signing(i, "accept") THEN "accepted" ELSE "declined"
          /\ UNCHANGED accountFaults
       \/ /\ accountFaults > 0 /\ accountFaults' = accountFaults - 1
          /\ UNCHANGED invitation
    /\ SignupTo(i, "token")
    /\ UNCHANGED <<account, home, joined, closed, mailRows, deletionRows, errand, stranded>>

InsertVerification(i) ==
    /\ Signing(i, "token") /\ Exists(i)
    /\ tokens' = tokens \cup {<<i, 0>>}
    /\ SignupTo(i, "mail")
    /\ UNCHANGED <<account, membershipRows, mailed, deletionRows, errand, stranded, accountFaults>>

SendVerification(i) ==
    /\ Signing(i, "mail")
    /\ mailed' = mailed \cup {<<i, 0>>}
    /\ SignupEnds(i, "created")
    /\ UNCHANGED <<account, membershipRows, tokens, deletionRows, errand, stranded, accountFaults>>

\* Mutant: a failed add_member of the owner is answered without the cleanup.
CleanupExceptForOwner(i) ==
    IF Signing(i, "owner") THEN SignupEnds(i, "refused") ELSE SignupTo(i, "cleanToken")

\* Every failure after create_user calls cleanup_user_and_token, but for those of
\* CheckSeats.
Compensate(i) == SignupTo(i, "cleanToken")

\* A statement fails, also because the account is gone; a mail may arrive although
\* sending it failed.
SignupFails(i) ==
    /\ \/ /\ signup[i].pc \in {"terms", "home", "owner", "join", "token"} /\ ~Exists(i)
          /\ Compensate(i) /\ UNCHANGED <<mailed, accountFaults>>
       \/ /\ accountFaults > 0 /\ accountFaults' = accountFaults - 1
          /\ \/ signup[i].pc \in {"terms", "home", "owner", "join", "token"}
                /\ Compensate(i) /\ UNCHANGED mailed
             \/ Signing(i, "create") /\ SignupEnds(i, "refused") /\ UNCHANGED mailed
             \/ Signing(i, "mail") /\ Compensate(i) /\ mailed' \in {mailed, mailed \cup {<<i, 0>>}}
    /\ UNCHANGED <<account, membershipRows, tokens, deletionRows, errand, stranded>>

\* cleanup_user_and_token: two statements whose errors are ignored.
CleanToken(i) ==
    /\ Signing(i, "cleanToken") /\ SignupTo(i, "cleanUser")
    /\ \/ tokens' = tokens \ {<<i, 0>>} /\ UNCHANGED accountFaults
       \/ /\ accountFaults > 0 /\ accountFaults' = accountFaults - 1
          /\ UNCHANGED tokens
    /\ UNCHANGED <<account, membershipRows, mailed, deletionRows, errand, stranded>>

CleanUser(i) ==
    /\ Signing(i, "cleanUser") /\ SignupEnds(i, "refused")
    /\ \/ i \notin logins /\ DeleteUser(i) /\ UNCHANGED <<stranded, accountFaults>>
       \/ /\ i \in logins /\ stranded' = stranded \cup {i}
          /\ UNCHANGED <<account, home, joined, tokens, deletion, accountFaults>>
       \/ /\ accountFaults > 0 /\ accountFaults' = accountFaults - 1
          /\ stranded' = stranded \cup {i}
          /\ UNCHANGED <<account, home, joined, tokens, deletion>>
    /\ UNCHANGED <<invitation, closed, mailed, logins, subscribed, canceled, errand>>

\* The server stops in the middle of a sign-up.
SignupCutOff(i) ==
    /\ signup[i].pc \notin {"idle", "done"}
    /\ accountFaults > 0 /\ accountFaults' = accountFaults - 1
    /\ SignupEnds(i, "none") /\ stranded' = stranded \cup {i}
    /\ UNCHANGED <<account, membershipRows, mailRows, deletionRows, errand>>

\* Others join the inviting workspace or leave it, or its plan changes.
SeatsChange ==
    /\ closed' = ~closed
    /\ UNCHANGED <<account, home, joined, invitation, mailRows, deletionRows, signup, errand, stranded,
                   accountFaults>>

----------------------------------------------------------------------------
(* Verification of the address. *)

ErrandAt(e, pc) == errand[e].pc = pc
ErrandTo(e, pc) == errand' = [errand EXCEPT ![e].pc = pc]
ErrandEnds(e) == errand' = [errand EXCEPT ![e] = NoErrand]
BeginErrand(e, pc, i, n) ==
    ErrandAt(e, "idle") /\ errand' = [errand EXCEPT ![e] = [pc |-> pc, user |-> i, token |-> n]]

\* verify_email: the token is marked used, then the user verified.
UseToken(e, t) ==
    /\ t \in mailed \cap tokens
    /\ tokens' = tokens \ {t}
    /\ BeginErrand(e, "verified", t[1], t[2])
    /\ UNCHANGED <<account, membershipRows, mailed, deletionRows, signup, stranded, accountFaults>>

SetVerified(e) ==
    LET i == errand[e].user IN
    /\ ErrandAt(e, "verified") /\ ErrandEnds(e)
    /\ account' = IF Exists(i) THEN [account EXCEPT ![i] = "verified"] ELSE account
    /\ UNCHANGED <<membershipRows, mailRows, deletionRows, signup, stranded, accountFaults>>

\* resend_verification_email
BeginResend(e, i) ==
    /\ account[i] = "unverified" /\ BeginErrand(e, "dropTokens", i, 0)
    /\ UNCHANGED <<account, membershipRows, mailRows, deletionRows, signup, stranded, accountFaults>>

DropTokens(e) ==
    /\ ErrandAt(e, "dropTokens") /\ ErrandTo(e, "newToken")
    /\ tokens' = {t \in tokens : t[1] # errand[e].user}
    /\ UNCHANGED <<account, membershipRows, mailed, deletionRows, signup, stranded, accountFaults>>

NewToken(e, n) ==
    LET i == errand[e].user IN
    /\ ErrandAt(e, "newToken")
    /\ IF Exists(i)
         THEN /\ n > 0 /\ <<i, n>> \notin mailed
              /\ \A d \in Errands : ~(errand[d].user = i /\ errand[d].token = n)
              /\ tokens' = tokens \cup {<<i, n>>}
              /\ errand' = [errand EXCEPT ![e].pc = "send", ![e].token = n]
         ELSE ErrandEnds(e) /\ UNCHANGED tokens
    /\ UNCHANGED <<account, membershipRows, mailed, deletionRows, signup, stranded, accountFaults>>

SendAgain(e) ==
    /\ ErrandAt(e, "send") /\ ErrandEnds(e)
    /\ mailed' = mailed \cup {<<errand[e].user, errand[e].token>>}
    /\ UNCHANGED <<account, membershipRows, tokens, deletionRows, signup, stranded, accountFaults>>

----------------------------------------------------------------------------
(* Use and deletion of the account. *)

\* handle_login records the login, or only warns that it could not; a login with
\* Google or GitHub records none.
LogIn(i) ==
    /\ account[i] = "verified" /\ signup[i].choice # "oauth" /\ logins' = logins \cup {i}
    /\ UNCHANGED <<account, membershipRows, mailRows, deletion, subscribed, canceled, signup, errand,
                   stranded, accountFaults>>

Subscribe(i) ==
    /\ account[i] = "verified" /\ i \notin canceled /\ subscribed' = subscribed \cup {i}
    /\ UNCHANGED <<account, membershipRows, mailRows, logins, deletion, canceled, signup, errand,
                   stranded, accountFaults>>

\* request_account_deletion replaces the user's deletion token.
RequestDeletion(i) ==
    /\ account[i] = "verified" /\ deletion' = deletion \cup {i}
    /\ UNCHANGED <<account, membershipRows, mailRows, logins, subscribed, canceled, signup, errand,
                   stranded, accountFaults>>

\* confirm_account_deletion: the token and its user are read.
ConfirmDeletion(e, i) ==
    /\ i \in deletion /\ BeginErrand(e, "cancel", i, 0)
    /\ UNCHANGED <<account, membershipRows, mailRows, deletionRows, signup, stranded, accountFaults>>

\* The subscription is canceled first; a failure of Stripe is only logged.
CancelSubscription(e) ==
    LET i == errand[e].user IN
    /\ ErrandAt(e, "cancel") /\ ErrandTo(e, "finalize")
    /\ \/ /\ subscribed' = subscribed \ {i} /\ canceled' = canceled \cup (subscribed \cap {i})
          /\ UNCHANGED accountFaults
       \/ /\ i \in subscribed /\ accountFaults > 0 /\ accountFaults' = accountFaults - 1
          /\ UNCHANGED <<subscribed, canceled>>
    /\ UNCHANGED <<account, membershipRows, mailRows, logins, deletion, signup, stranded>>

\* finalize_account_deletion: one transaction, which the rows of
\* user_login_activity make fail.
FinalizeDeletion(e) ==
    LET i == errand[e].user IN
    /\ ErrandAt(e, "finalize") /\ ErrandEnds(e)
    /\ IF i \in deletion \ logins THEN DeleteUser(i)
                                  ELSE UNCHANGED <<account, home, joined, tokens, deletion>>
    /\ UNCHANGED <<invitation, closed, mailed, logins, subscribed, canceled, signup, stranded,
                   accountFaults>>

\* A statement fails or the mail is not sent, and the request is refused.
ErrandFails(e) ==
    /\ ~ErrandAt(e, "idle") /\ ErrandEnds(e)
    /\ accountFaults > 0 /\ accountFaults' = accountFaults - 1
    /\ UNCHANGED <<account, membershipRows, mailRows, deletionRows, signup, stranded>>

----------------------------------------------------------------------------
SignupStep(i) ==
    \/ \E choice \in Choices : BeginSignup(i, choice)
    \/ CreateUser(i) \/ RecordTerms(i) \/ CreateHome(i) \/ AddOwner(i) \/ CheckSeats(i)
    \/ JoinWorkspace(i) \/ MarkInvitationUsed(i) \/ InsertVerification(i) \/ SendVerification(i)
    \/ SignupFails(i) \/ CleanToken(i) \/ CleanUser(i) \/ SignupCutOff(i)

ErrandStep(e) ==
    \/ \E t \in MailTokens : UseToken(e, t)
    \/ \E i \in Signups : BeginResend(e, i) \/ ConfirmDeletion(e, i)
    \/ \E n \in 0..MaxMails : NewToken(e, n)
    \/ SetVerified(e) \/ DropTokens(e) \/ SendAgain(e)
    \/ CancelSubscription(e) \/ FinalizeDeletion(e) \/ ErrandFails(e)

AccountsNext ==
    \/ \E i \in Signups : SignupStep(i) \/ LogIn(i) \/ Subscribe(i) \/ RequestDeletion(i)
    \/ \E e \in Errands : ErrandStep(e)
    \/ SeatsChange

AccountsSpec == AccountsInit /\ [][AccountsNext]_accountVars

----------------------------------------------------------------------------
(* A sign-up is all or nothing, whatever fails on the way and whoever verifies, *)
(* logs in or deletes meanwhile: answered as created, its account is a member   *)
(* of a workspace for as long as it exists; answered as refused, nothing of it  *)
(* is left, so that the address can sign up again; and the address never has    *)
(* two accounts.  It is not said where the compensation itself was cut off,     *)
(* failed or was refused because the user had logged in already.  A sign-up that *)
(* the check of the seats refuses compensates nothing: its account stays, and    *)
(* with it the address is taken, but it belongs to no workspace.                *)
SignupIsAllOrNothing ==
    /\ \A i \in Signups \ stranded :
         /\ signup[i].answer = "created" /\ Exists(i) => home[i] = "owned" \/ i \in joined
         /\ signup[i].answer = "refused" =>
              ~Exists(i) /\ home[i] = "none" /\ i \notin joined /\ \A t \in tokens : t[1] # i
         /\ signup[i].answer = "unseated" => home[i] = "none" /\ i \notin joined
    /\ \A i, j \in Signups : Exists(i) /\ Exists(j) => i = j

(* A deletion that cancels the subscription deletes the account: "We have       *)
(* started deleting your DSentr account and associated data. Stripe             *)
(* subscriptions have been cancelled when applicable." (account.rs)  It does    *)
(* not for a user who ever logged in with a password.                           *)
CanceledAccountIsDeleted ==
    (\A e \in Errands : ErrandAt(e, "idle")) => \A i \in canceled : ~Exists(i)
=============================================================================

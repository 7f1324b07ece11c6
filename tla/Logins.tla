------------------------------- MODULE Logins -------------------------------
(***************************************************************************)
(* The ways into the account of one e-mail address: a password, a login at *)
(* Google or GitHub, and a mailed link that sets a new password.  Logins of *)
(* one browser share its cookies; every statement is a step of its own.     *)
(***************************************************************************)
EXTENDS Naturals, FiniteSets

CONSTANTS
    SignIns,        \* logins at a provider, each with the state it was started with
    PasswordTries,  \* logins with a password
    ResetLinks,     \* links of password_resets
    Resets,         \* requests that set a password, each named by the password it sets
    FirstPassword, NoHash, NoLink, NoSignIn,
    MaxLoginFaults  \* bound: failed statements and expiries

ASSUME LoginsAssumption ==
    /\ FirstPassword \notin Resets /\ NoHash \notin Resets \cup {FirstPassword}
    /\ NoLink \notin ResetLinks /\ NoSignIn \notin SignIns /\ MaxLoginFaults \in Nat

VARIABLES
    person,        \* the row of users, with its maker as a history
    stateCookie,   \* oauth_state, which both providers use
    termsCookie,   \* whether oauth_terms_version is set
    signIn, try,
    resetLink,     \* rows of password_resets
    reset,
    sessions,      \* user_sessions, with the way they were opened
    applied,       \* history: how often a link changed the password
    disputed,      \* history: links used by two requests at once or not marked
    loginFaults

loginVars == <<person, stateCookie, termsCookie, signIn, try, resetLink, reset, sessions, applied, disputed,
               loginFaults>>
loginRows == <<person, sessions>>
cookies == <<stateCookie, termsCookie>>
resetVars == <<resetLink, reset, applied, disputed>>

IdPs == {"google", "github"}
LoginProviders == IdPs \cup {"email"}
Hashes == Resets \cup {FirstPassword, NoHash}
Nobody == [there |-> FALSE, provider |-> "email", hash |-> NoHash, verified |-> FALSE, maker |-> NoSignIn]
NoCallback == [pc |-> "idle", idp |-> "google", terms |-> FALSE, lookup |-> "none", result |-> "none"]
NoTry == [pc |-> "idle", password |-> NoHash, result |-> "none"]
NoReset == [pc |-> "idle", link |-> NoLink, result |-> "none"]
Verdicts == {"none", "in", "signup", "refused"}
Lookups == {"none", "found", "missing"}

\* person.maker: the sign-in that made the account, or NoSignIn if it came by a sign-up.
\* signIn[s].lookup: whether the callback's lookup found the account it goes on with.
Persons == [there: BOOLEAN, provider: LoginProviders, hash: Hashes, verified: BOOLEAN,
            maker: SignIns \cup {NoSignIn}]

LoginsTypeOK ==
    /\ person \in Persons
    /\ stateCookie \in SignIns \cup {NoSignIn} /\ termsCookie \in BOOLEAN
    /\ signIn \in [SignIns -> [pc: {"idle", "away", "exchange", "find", "create", "session", "done"},
                               idp: IdPs, terms: BOOLEAN, lookup: Lookups, result: Verdicts]]
    /\ try \in [PasswordTries -> [pc: {"idle", "members", "session", "activity", "done"},
                                  password: Hashes, result: Verdicts]]
    /\ resetLink \in [ResetLinks -> {"none", "fresh", "used", "expired"}]
    /\ reset \in [Resets -> [pc: {"idle", "update", "mark", "done"}, link: ResetLinks \cup {NoLink},
                             result: {"none", "ok", "refused"}]]
    /\ sessions \subseteq IdPs \cup {"password"}
    /\ applied \in [ResetLinks -> 0..Cardinality(Resets)] /\ disputed \subseteq ResetLinks
    /\ loginFaults \in 0..MaxLoginFaults

LoginsInit ==
    /\ person = Nobody /\ stateCookie = NoSignIn /\ termsCookie = FALSE
    /\ signIn = [s \in SignIns |-> NoCallback] /\ try = [t \in PasswordTries |-> NoTry]
    /\ resetLink = [l \in ResetLinks |-> "none"] /\ reset = [r \in Resets |-> NoReset]
    /\ sessions = {} /\ applied = [l \in ResetLinks |-> 0] /\ disputed = {}
    /\ loginFaults = MaxLoginFaults

LoginFault == loginFaults > 0 /\ loginFaults' = loginFaults - 1

----------------------------------------------------------------------------
At(s, step) == signIn[s].pc = step
SignInTo(s, step) == signIn' = [signIn EXCEPT ![s].pc = step]

LookedUp(s, found, step) == signIn' = [signIn EXCEPT ![s].pc = step, ![s].lookup = found]

\* redirect_to_login_with_error sets no cookie.
BackToLogin(s) ==
    /\ signIn' = [signIn EXCEPT ![s].pc = "done", ![s].result = "refused"]
    /\ UNCHANGED <<stateCookie, termsCookie, person, sessions>>

\* The browser is sent away with a fresh state; a version of the terms is kept only if
\* one was given.
StartLogin(s, idp, terms) ==
    /\ At(s, "idle")
    /\ signIn' = [signIn EXCEPT ![s].pc = "away", ![s].idp = idp]
    /\ stateCookie' = s /\ termsCookie' = (terms \/ termsCookie)
    /\ UNCHANGED <<loginRows, try, resetVars, loginFaults>>

GoogleLogin(s, terms) == StartLogin(s, "google", terms)

GithubLogin(s, terms) == StartLogin(s, "github", terms)

\* The callback is a request with the cookies of its moment: no code (the user declined)
\* and a state other than the cookie's are refused.
ReturnTo(s, idp) ==
    /\ At(s, "away") /\ signIn[s].idp = idp
    /\ \/ BackToLogin(s)
       \/ /\ stateCookie = s
          /\ signIn' = [signIn EXCEPT ![s].pc = "exchange", ![s].terms = termsCookie]
          /\ UNCHANGED <<loginRows, cookies>>
    /\ UNCHANGED <<try, resetVars, loginFaults>>

GoogleReturns(s) == ReturnTo(s, "google")

GithubReturns(s) == ReturnTo(s, "github")

\* The code, the user's data and the address; for GitHub only a verified primary one.
Identify(s, idp) ==
    /\ At(s, "exchange") /\ signIn[s].idp = idp
    /\ \/ SignInTo(s, "find") /\ UNCHANGED <<loginRows, cookies, loginFaults>>
       \/ LoginFault /\ BackToLogin(s)
    /\ UNCHANGED <<try, resetVars>>

GoogleIdentifies(s) == Identify(s, "google")

GithubIdentifies(s) == Identify(s, "github")

\* Without an account and without accepted terms the way is back to /signup; only the
\* state is cleared.
BackToSignup(s) ==
    /\ signIn' = [signIn EXCEPT ![s].pc = "done", ![s].result = "signup"]
    /\ stateCookie' = NoSignIn
    /\ UNCHANGED <<termsCookie, loginRows>>

\* find_user_by_email: an account of another provider, or of a password, is refused; one
\* with the provider's tag is taken whoever made it, a sign-up that named the provider too.
FindAccount(s, idp) ==
    /\ At(s, "find") /\ signIn[s].idp = idp
    /\ \/ /\ person.there /\ person.provider = idp
          /\ LookedUp(s, "found", "session") /\ UNCHANGED <<loginRows, cookies, loginFaults>>
       \/ person.there /\ person.provider # idp /\ BackToLogin(s) /\ UNCHANGED loginFaults
       \/ ~person.there /\ ~signIn[s].terms /\ BackToSignup(s) /\ UNCHANGED loginFaults
       \/ /\ ~person.there /\ signIn[s].terms
          /\ LookedUp(s, "missing", "create") /\ UNCHANGED <<loginRows, cookies, loginFaults>>
       \/ LoginFault /\ BackToLogin(s)
    /\ UNCHANGED <<try, resetVars>>

GoogleFinds(s) == FindAccount(s, "google")

GithubFinds(s) == FindAccount(s, "github")

MadeBy(s) ==
    [there |-> TRUE, provider |-> signIn[s].idp, hash |-> NoHash, verified |-> TRUE, maker |-> s]

\* Mutant: the account of the address is taken over as it is.
CreateOrTake(s) ==
    /\ At(s, "create")
    /\ person' = IF person.there THEN person ELSE MadeBy(s)
    /\ SignInTo(s, "session") /\ UNCHANGED <<sessions, cookies, loginFaults, try, resetVars>>

\* create_user_with_oauth: an address is unique, so an account made since is an error.
CreateUserWithOauth(s) ==
    /\ At(s, "create")
    /\ \/ /\ ~person.there /\ person' = MadeBy(s)
          /\ SignInTo(s, "session") /\ UNCHANGED <<sessions, cookies, loginFaults>>
       \/ person.there /\ BackToLogin(s) /\ UNCHANGED loginFaults
       \/ LoginFault /\ BackToLogin(s)
    /\ UNCHANGED <<try, resetVars>>

\* create_session, then both cookies are cleared.
OpenSession(s, idp) ==
    /\ At(s, "session") /\ signIn[s].idp = idp
    /\ \/ /\ sessions' = sessions \cup {idp}
          /\ signIn' = [signIn EXCEPT ![s].pc = "done", ![s].result = "in"]
          /\ stateCookie' = NoSignIn /\ termsCookie' = FALSE
          /\ UNCHANGED <<person, loginFaults>>
       \/ LoginFault /\ BackToLogin(s)
    /\ UNCHANGED <<try, resetVars>>

GoogleOpens(s) == OpenSession(s, "google")

GithubOpens(s) == OpenSession(s, "github")

\* The cookies live for ten minutes.
CookiesExpire ==
    /\ stateCookie # NoSignIn \/ termsCookie
    /\ LoginFault /\ stateCookie' = NoSignIn /\ termsCookie' = FALSE
    /\ UNCHANGED <<loginRows, signIn, try, resetVars>>

----------------------------------------------------------------------------
\* handle_signup by another browser: the provider is the caller's choice.
SignupMeanwhile(provider) ==
    /\ ~person.there
    /\ person' = [there |-> TRUE, provider |-> provider, hash |-> FirstPassword, verified |-> FALSE,
                  maker |-> NoSignIn]
    /\ UNCHANGED <<sessions, cookies, signIn, try, resetVars, loginFaults>>

VerifyMeanwhile ==
    /\ person.there /\ ~person.verified /\ person' = [person EXCEPT !.verified = TRUE]
    /\ UNCHANGED <<sessions, cookies, signIn, try, resetVars, loginFaults>>

TryTo(t, step, result) == try' = [try EXCEPT ![t].pc = step, ![t].result = result]

\* handle_login: the account is read and the password compared with its hash.  Only an
\* account of the provider "email" must be verified.
HandleLogin(t, p) ==
    /\ try[t].pc = "idle"
    /\ \/ /\ person.there
          /\ person.provider = "email" => person.verified
          /\ person.hash # NoHash /\ person.hash = p
          /\ try' = [try EXCEPT ![t] = [pc |-> "members", password |-> p, result |-> "none"]]
          /\ UNCHANGED loginFaults
       \/ /\ \/ ~person.there \/ person.hash = NoHash \/ person.hash # p
             \/ person.provider = "email" /\ ~person.verified
          /\ TryTo(t, "done", "refused") /\ UNCHANGED loginFaults
       \/ LoginFault /\ TryTo(t, "done", "refused")
    /\ UNCHANGED <<loginRows, cookies, signIn, resetVars>>

\* The memberships the answer tells are read before the session is made.
LoadMemberships(t) ==
    /\ try[t].pc = "members"
    /\ \/ TryTo(t, "session", "none") /\ UNCHANGED loginFaults
       \/ LoginFault /\ TryTo(t, "done", "refused")
    /\ UNCHANGED <<loginRows, cookies, signIn, resetVars>>

CreateLoginSession(t) ==
    /\ try[t].pc = "session"
    /\ \/ /\ sessions' = sessions \cup {"password"}
          /\ TryTo(t, "activity", "none") /\ UNCHANGED <<person, loginFaults>>
       \/ LoginFault /\ TryTo(t, "done", "refused") /\ UNCHANGED loginRows
    /\ UNCHANGED <<cookies, signIn, resetVars>>

\* The activity is recorded as far as it goes; the answer is the same.
RecordActivity(t) ==
    /\ try[t].pc = "activity"
    /\ TryTo(t, "done", "in")
    /\ UNCHANGED <<loginRows, cookies, signIn, resetVars, loginFaults>>

----------------------------------------------------------------------------
\* handle_forgot_password: a link for any account, also one of a provider.
HandleForgotPassword(l) ==
    /\ person.there /\ resetLink[l] = "none" /\ resetLink' = [resetLink EXCEPT ![l] = "fresh"]
    /\ UNCHANGED <<loginRows, cookies, signIn, try, reset, applied, disputed, loginFaults>>

ExpireLink(l) ==
    /\ resetLink[l] = "fresh" /\ LoginFault /\ resetLink' = [resetLink EXCEPT ![l] = "expired"]
    /\ UNCHANGED <<loginRows, cookies, signIn, try, reset, applied, disputed>>

\* Mutant: a used link is as good as an unused one.
VerifyOnlyExpiry(l) == resetLink[l] \in {"fresh", "used"}

VerifyPasswordResetToken(l) == resetLink[l] = "fresh"

ResetTo(r, step, result) == reset' = [reset EXCEPT ![r].pc = step, ![r].result = result]

\* handle_reset_password: the link is verified, the password set, the link marked.
BeginReset(r, l) ==
    /\ reset[r].pc = "idle" /\ resetLink[l] # "none"
    /\ reset' = [reset EXCEPT ![r] =
         IF VerifyPasswordResetToken(l) THEN [pc |-> "update", link |-> l, result |-> "none"]
                                        ELSE [pc |-> "done", link |-> l, result |-> "refused"]]
    /\ disputed' = IF \E q \in Resets : reset[q].link = l /\ reset[q].pc \in {"update", "mark"}
                     THEN disputed \cup {l} ELSE disputed
    /\ UNCHANGED <<loginRows, cookies, signIn, try, resetLink, applied, loginFaults>>

UpdateUserPassword(r) ==
    LET l == reset[r].link IN
    /\ reset[r].pc = "update"
    /\ \/ /\ person' = [person EXCEPT !.hash = r]
          /\ applied' = [applied EXCEPT ![l] = @ + 1]
          /\ ResetTo(r, "mark", "none") /\ UNCHANGED <<sessions, loginFaults>>
       \/ LoginFault /\ ResetTo(r, "done", "refused") /\ UNCHANGED <<loginRows, applied>>
    /\ UNCHANGED <<cookies, signIn, try, resetLink, disputed>>

\* A link that could not be marked can be used again.
MarkPasswordResetTokenUsed(r) ==
    LET l == reset[r].link IN
    /\ reset[r].pc = "mark"
    /\ \/ /\ resetLink' = [resetLink EXCEPT ![l] = "used"]
          /\ ResetTo(r, "done", "ok") /\ UNCHANGED <<disputed, loginFaults>>
       \/ /\ LoginFault /\ disputed' = disputed \cup {l}
          /\ ResetTo(r, "done", "refused") /\ UNCHANGED resetLink
    /\ UNCHANGED <<loginRows, cookies, signIn, try, applied>>

----------------------------------------------------------------------------
SignInStep(s) ==
    \/ \E terms \in BOOLEAN : GoogleLogin(s, terms) \/ GithubLogin(s, terms)
    \/ GoogleReturns(s) \/ GithubReturns(s) \/ GoogleIdentifies(s) \/ GithubIdentifies(s)
    \/ GoogleFinds(s) \/ GithubFinds(s) \/ CreateUserWithOauth(s) \/ GoogleOpens(s) \/ GithubOpens(s)

TryStep(t) ==
    \/ \E p \in Hashes \ {NoHash} : HandleLogin(t, p)
    \/ LoadMemberships(t) \/ CreateLoginSession(t) \/ RecordActivity(t)

ResetStep(r) ==
    \/ \E l \in ResetLinks : BeginReset(r, l)
    \/ UpdateUserPassword(r) \/ MarkPasswordResetTokenUsed(r)

LoginsNext ==
    \/ \E s \in SignIns : SignInStep(s)
    \/ \E t \in PasswordTries : TryStep(t)
    \/ \E r \in Resets : ResetStep(r)
    \/ \E l \in ResetLinks : HandleForgotPassword(l) \/ ExpireLink(l)
    \/ \E p \in LoginProviders : SignupMeanwhile(p)
    \/ VerifyMeanwhile \/ CookiesExpire

LoginsSpec == LoginsInit /\ [][LoginsNext]_loginVars

----------------------------------------------------------------------------
(* A callback never takes over an account that came between its lookup and its *)
(* insert: if the lookup found nobody and a session was opened, the account is *)
(* the one this very sign-in made, whatever another browser's callback or      *)
(* sign-up made of the address meanwhile.  An account the lookup did find has  *)
(* the provider's tag and no more is said of it: handle_signup sets the tag    *)
(* its caller names, so the account may have come by a sign-up with a password.*)
CallbackTakesNoOther ==
    /\ \A p \in sessions \cap IdPs : person.there /\ person.provider = p
    /\ \A s \in SignIns : signIn[s].result = "in" /\ signIn[s].lookup = "missing" => person.maker = s

(* A mailed link sets the password once.  It is not said of a link that two     *)
(* requests used at once, for the verification and the mark are statements of   *)
(* their own, nor of one whose mark failed after the password was set.          *)
LinkWorksOnce == \A l \in ResetLinks \ disputed : applied[l] <= 1
=============================================================================

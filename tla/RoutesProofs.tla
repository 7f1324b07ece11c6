----------------------------- MODULE RoutesProofs -----------------------------
(* What the routes do: proofs that the properties the runs check of Logins,   *)
(* Issues, RunStream and Visibility hold for every value of the constants.    *)
(* Each component has its own inductive invariant; they share no state.       *)
EXTENDS Logins, Issues, RunStream, Visibility, TLAPS, FiniteSetTheorems

-----------------------------------------------------------------------------
(* Logins. *)

SignInRecords == [pc: {"idle", "away", "exchange", "find", "create", "session", "done"},
                  idp: IdPs, terms: BOOLEAN, lookup: Lookups, result: Verdicts]
ResetRecords == [pc: {"idle", "update", "mark", "done"}, link: ResetLinks \cup {NoLink},
                 result: {"none", "ok", "refused"}]

\* The bound of LoginsTypeOK on applied is a count of the resets, which LinkInv refines.
LoginTypes ==
    /\ person \in Persons
    /\ stateCookie \in SignIns \cup {NoSignIn} /\ termsCookie \in BOOLEAN
    /\ signIn \in [SignIns -> SignInRecords]
    /\ resetLink \in [ResetLinks -> {"none", "fresh", "used", "expired"}]
    /\ reset \in [Resets -> ResetRecords]
    /\ \A r \in Resets : reset[r].pc \in {"update", "mark"} => reset[r].link \in ResetLinks
    /\ applied \in [ResetLinks -> Nat]

\* The account a sign-in is about to open has its provider's tag and, if the lookup found
\* nobody, is the one the sign-in made; and accounts stay.
OwnInv ==
    /\ \A s \in SignIns :
         /\ signIn[s].pc = "session" => person.there /\ person.provider = signIn[s].idp
         /\ signIn[s].result = "in" => signIn[s].pc = "done" /\ person.there
         /\ signIn[s].lookup = "missing" /\ (signIn[s].pc = "session" \/ signIn[s].result = "in")
            => person.maker = s
    /\ \A p \in sessions \cap IdPs : person.there /\ person.provider = p

Using(r, l) == reset[r].pc \in {"update", "mark"} /\ reset[r].link = l

\* Of the requests that use a link at once there is one, it has not applied the link before
\* it sets the password, and after that it is the one that marks it.
LinkInv ==
    \A l \in ResetLinks \ disputed :
      /\ \A q, r \in Resets : Using(q, l) /\ Using(r, l) => q = r
      /\ \A r \in Resets : Using(r, l) /\ reset[r].pc = "update" => applied[l] = 0
      /\ \/ applied[l] = 0
         \/ /\ applied[l] = 1
            /\ resetLink[l] = "used" \/ \E r \in Resets : Using(r, l) /\ reset[r].pc = "mark"

LEMMA LoginsInitInv == LoginsInit => LoginTypes /\ OwnInv /\ LinkInv
<1> SUFFICES ASSUME LoginsInit
             PROVE  LoginTypes /\ OwnInv /\ LinkInv
  OBVIOUS
<1>1. LoginTypes
  BY DEF LoginsInit, LoginTypes, Nobody, NoCallback, NoReset, SignInRecords, ResetRecords, Verdicts, IdPs,
         LoginProviders, Hashes, Lookups, Persons
<1>2. OwnInv
  BY DEF LoginsInit, OwnInv, NoCallback
<1>3. LinkInv
  BY DEF LoginsInit, LinkInv, Using, NoReset
<1> QED BY <1>1, <1>2, <1>3

\* A sign-in's steps leave the requests that set a password alone.
LEMMA SignInKeeps ==
    ASSUME LoginTypes, OwnInv, LinkInv, NEW s \in SignIns, SignInStep(s)
    PROVE  LoginTypes' /\ OwnInv' /\ LinkInv'
<1>0. /\ person \in Persons
      /\ stateCookie \in SignIns \cup {NoSignIn} /\ termsCookie \in BOOLEAN
      /\ signIn \in [SignIns -> SignInRecords]
  BY DEF LoginTypes
<1>01. signIn[s] \in SignInRecords /\ (signIn[s].result = "in" => signIn[s].pc = "done")
  BY <1>0 DEF OwnInv
<1>1. UNCHANGED resetVars
  BY DEF SignInStep, GoogleLogin, GithubLogin, StartLogin, GoogleReturns, GithubReturns, ReturnTo, GoogleIdentifies,
         GithubIdentifies, Identify, GoogleFinds, GithubFinds, FindAccount, CreateUserWithOauth, GoogleOpens,
         GithubOpens, OpenSession
<1>2. LinkInv'
  BY <1>1 DEF LinkInv, Using, resetVars
\* Only the sign-in's own record moves.
<1>3. ASSUME NEW t \in SignInRecords, signIn' = [signIn EXCEPT ![s] = t],
             person' \in Persons,
             stateCookie' \in SignIns \cup {NoSignIn}, termsCookie' \in BOOLEAN,
             person' = person \/ (~person.there /\ person'.there),
             t.pc = "session" => person'.there /\ person'.provider = t.idp,
             t.result = "in" => t.pc = "done" /\ person'.there,
             t.lookup = "missing" /\ (t.pc = "session" \/ t.result = "in") => person'.maker = s,
             sessions' = sessions \/ (\E p \in IdPs : sessions' = sessions \cup {p} /\ person.there
                                                      /\ person.provider = p)
      PROVE  LoginTypes' /\ OwnInv' /\ LinkInv'
  <2>1. LoginTypes'
    BY <1>0, <1>1, <1>3 DEF LoginTypes, resetVars
  <2>2. OwnInv'
    BY <1>0, <1>3 DEF OwnInv
  <2> QED BY <1>2, <2>1, <2>2
<1>4. ASSUME NEW idp \in IdPs, NEW terms \in BOOLEAN, StartLogin(s, idp, terms)
      PROVE  LoginTypes' /\ OwnInv' /\ LinkInv'
  <2> DEFINE t == [signIn[s] EXCEPT !.pc = "away", !.idp = idp]
  <2>1. t \in SignInRecords /\ t.pc = "away" /\ t.result # "in" /\ signIn' = [signIn EXCEPT ![s] = t]
    BY <1>0, <1>01, <1>4 DEF StartLogin, At, SignInRecords
  <2> HIDE DEF t
  <2> QED BY <1>0, <1>3, <1>4, <2>1 DEF StartLogin, loginRows
<1>5. ASSUME BackToLogin(s)
      PROVE  LoginTypes' /\ OwnInv' /\ LinkInv'
  <2> DEFINE t == [signIn[s] EXCEPT !.pc = "done", !.result = "refused"]
  <2>1. t \in SignInRecords /\ t.pc = "done" /\ t.result # "in" /\ signIn' = [signIn EXCEPT ![s] = t]
    BY <1>0, <1>5 DEF BackToLogin, SignInRecords, Verdicts
  <2> HIDE DEF t
  <2> QED BY <1>0, <1>3, <1>5, <2>1 DEF BackToLogin
<1>6. ASSUME SignInTo(s, "find"), signIn[s].pc = "exchange", UNCHANGED <<loginRows, cookies>>
      PROVE  LoginTypes' /\ OwnInv' /\ LinkInv'
  <2> DEFINE t == [signIn[s] EXCEPT !.pc = "find"]
  <2>1. t \in SignInRecords /\ t.pc = "find" /\ t.result # "in" /\ signIn' = [signIn EXCEPT ![s] = t]
    BY <1>0, <1>01, <1>6 DEF SignInTo, SignInRecords
  <2> HIDE DEF t
  <2> QED BY <1>0, <1>3, <1>6, <2>1 DEF loginRows, cookies
<1>7. ASSUME NEW idp \in IdPs, ReturnTo(s, idp)
      PROVE  LoginTypes' /\ OwnInv' /\ LinkInv'
  <2>1. CASE BackToLogin(s)
    BY <1>5, <2>1
  <2>2. CASE signIn' = [signIn EXCEPT ![s].pc = "exchange", ![s].terms = termsCookie] /\ UNCHANGED <<loginRows, cookies>>
    <3> DEFINE t == [signIn[s] EXCEPT !.pc = "exchange", !.terms = termsCookie]
    <3>1. t \in SignInRecords /\ t.pc = "exchange" /\ t.result # "in" /\ signIn' = [signIn EXCEPT ![s] = t]
      BY <1>0, <1>01, <1>7, <2>2 DEF SignInRecords, ReturnTo, At
    <3> HIDE DEF t
    <3> QED BY <1>0, <1>3, <2>2, <3>1 DEF loginRows, cookies
  <2> QED BY <1>7, <2>1, <2>2 DEF ReturnTo
<1>8. ASSUME NEW idp \in IdPs, FindAccount(s, idp)
      PROVE  LoginTypes' /\ OwnInv' /\ LinkInv'
  <2>1. CASE BackToLogin(s)
    BY <1>5, <2>1
  <2>2. CASE LookedUp(s, "missing", "create") /\ UNCHANGED <<loginRows, cookies>>
    <3> DEFINE t == [signIn[s] EXCEPT !.pc = "create", !.lookup = "missing"]
    <3>1. t \in SignInRecords /\ t.pc = "create" /\ t.result # "in" /\ signIn' = [signIn EXCEPT ![s] = t]
      BY <1>0, <1>01, <1>8, <2>2 DEF SignInRecords, LookedUp, Lookups, FindAccount, At
    <3> HIDE DEF t
    <3> QED BY <1>0, <1>3, <2>2, <3>1 DEF loginRows, cookies
  <2>3. CASE BackToSignup(s)
    <3> DEFINE t == [signIn[s] EXCEPT !.pc = "done", !.result = "signup"]
    <3>1. t \in SignInRecords /\ t.pc = "done" /\ t.result # "in" /\ signIn' = [signIn EXCEPT ![s] = t]
      BY <1>0, <2>3 DEF BackToSignup, SignInRecords, Verdicts
    <3> HIDE DEF t
    <3> QED BY <1>0, <1>3, <2>3, <3>1 DEF BackToSignup, loginRows
  <2>4. CASE person.there /\ person.provider = idp /\ LookedUp(s, "found", "session") /\ UNCHANGED <<loginRows, cookies>>
    <3> DEFINE t == [signIn[s] EXCEPT !.pc = "session", !.lookup = "found"]
    <3>0. signIn[s].idp = idp /\ signIn[s].pc = "find"
      BY <1>8 DEF FindAccount, At
    <3>1. t \in SignInRecords /\ t.idp = idp /\ t.result # "in" /\ t.lookup = "found"
          /\ signIn' = [signIn EXCEPT ![s] = t]
      BY <1>0, <1>01, <2>4, <3>0 DEF LookedUp, Lookups, SignInRecords
    <3> HIDE DEF t
    <3> QED BY <1>0, <1>3, <2>4, <3>1 DEF loginRows, cookies
  <2> QED BY <1>8, <2>1, <2>2, <2>3, <2>4 DEF FindAccount
<1>9. ASSUME CreateUserWithOauth(s)
      PROVE  LoginTypes' /\ OwnInv' /\ LinkInv'
  <2>1. CASE BackToLogin(s)
    BY <1>5, <2>1
  <2>2. CASE /\ ~person.there
             /\ person' = MadeBy(s)
             /\ SignInTo(s, "session") /\ UNCHANGED <<sessions, cookies, loginFaults>>
    <3> DEFINE t == [signIn[s] EXCEPT !.pc = "session"]
    <3>1. t \in SignInRecords /\ t.idp = signIn[s].idp /\ t.result # "in" /\ signIn' = [signIn EXCEPT ![s] = t]
      BY <1>0, <1>01, <1>9, <2>2 DEF SignInTo, SignInRecords, CreateUserWithOauth, At
    <3>2. person'.there /\ person'.provider = signIn[s].idp /\ person'.maker = s /\ person' \in Persons
      BY <1>0, <2>2 DEF SignInRecords, MadeBy, Persons, LoginProviders, Hashes
    <3> HIDE DEF t
    <3> QED BY <1>0, <1>3, <2>2, <3>1, <3>2 DEF cookies
  <2> QED BY <1>9, <2>1, <2>2 DEF CreateUserWithOauth
<1>10. ASSUME NEW idp \in IdPs, OpenSession(s, idp)
       PROVE  LoginTypes' /\ OwnInv' /\ LinkInv'
  <2>1. CASE BackToLogin(s)
    BY <1>5, <2>1
  <2>2. CASE ~BackToLogin(s)
    <3> DEFINE t == [signIn[s] EXCEPT !.pc = "done", !.result = "in"]
    <3>3. signIn' = [signIn EXCEPT ![s].pc = "done", ![s].result = "in"]
      BY <1>10, <2>2 DEF OpenSession
    <3>1. t \in SignInRecords /\ t.pc = "done" /\ t.lookup = signIn[s].lookup
          /\ signIn' = [signIn EXCEPT ![s] = t]
      BY <1>0, <3>3 DEF SignInRecords, Verdicts
    <3>2. /\ person.there /\ person.provider = idp
          /\ signIn[s].lookup = "missing" => person.maker = s
      BY <1>10 DEF OpenSession, OwnInv, At
    <3> HIDE DEF t
    <3> QED BY <1>0, <1>3, <1>10, <2>2, <3>1, <3>2 DEF OpenSession
  <2> QED BY <2>1, <2>2
<1>11. ASSUME NEW idp \in IdPs, Identify(s, idp)
       PROVE  LoginTypes' /\ OwnInv' /\ LinkInv'
  BY <1>5, <1>6, <1>11 DEF Identify, At
<1>12. "google" \in IdPs /\ "github" \in IdPs
  BY DEF IdPs
<1> QED BY <1>4, <1>7, <1>8, <1>9, <1>10, <1>11, <1>12 DEF SignInStep, GoogleLogin, GithubLogin, GoogleReturns,
           GithubReturns, GoogleIdentifies, GithubIdentifies, GoogleFinds, GithubFinds, GoogleOpens, GithubOpens

\* The requests with a link: only the request's own record moves, and only its link's rows.
LEMMA ResetKeeps ==
    ASSUME LoginTypes, OwnInv, LinkInv, NEW r \in Resets, ResetStep(r)
    PROVE  LoginTypes' /\ OwnInv' /\ LinkInv'
<1>0. /\ person \in Persons
      /\ resetLink \in [ResetLinks -> {"none", "fresh", "used", "expired"}]
      /\ reset \in [Resets -> ResetRecords] /\ applied \in [ResetLinks -> Nat]
      /\ \A q \in Resets : reset[q].pc \in {"update", "mark"} => reset[q].link \in ResetLinks
      /\ NoLink \notin ResetLinks
  BY LoginsAssumption DEF LoginTypes
<1>1. UNCHANGED <<stateCookie, termsCookie, signIn, sessions>>
      /\ person'.there = person.there /\ person'.provider = person.provider /\ person'.maker = person.maker
      /\ person' \in Persons
  BY <1>0 DEF ResetStep, BeginReset, UpdateUserPassword, MarkPasswordResetTokenUsed, loginRows, cookies, Hashes, Persons
<1>2. OwnInv'
  BY <1>1 DEF OwnInv
<1>3. ASSUME reset' \in [Resets -> ResetRecords], applied' \in [ResetLinks -> Nat],
             resetLink' \in [ResetLinks -> {"none", "fresh", "used", "expired"}],
             \A q \in Resets : q # r => reset'[q] = reset[q],
             reset'[r].pc \in {"update", "mark"} => reset'[r].link \in ResetLinks
      PROVE  LoginTypes'
  BY <1>0, <1>1, <1>3 DEF LoginTypes
<1>4. ASSUME NEW pc \in {"mark", "done"}, NEW res \in {"none", "ok", "refused"}, ResetTo(r, pc, res)
      PROVE  /\ reset' \in [Resets -> ResetRecords]
             /\ \A q \in Resets : q # r => reset'[q] = reset[q]
             /\ reset'[r].pc = pc /\ reset'[r].link = reset[r].link
  <2> DEFINE t == [reset[r] EXCEPT !.pc = pc, !.result = res]
  <2>1. reset' = [reset EXCEPT ![r] = t]
    BY <1>0, <1>4 DEF ResetTo
  <2>2. t \in ResetRecords /\ t.pc = pc /\ t.link = reset[r].link
    BY ZenonT(60), <1>0 DEF ResetRecords
  <2> HIDE DEF t
  <2> QED BY <1>0, <2>1, <2>2
\* An end before anything was set.
<1>5. ASSUME ResetTo(r, "done", "refused"), reset[r].pc = "update", UNCHANGED <<resetLink, applied, disputed>>
      PROVE  LoginTypes' /\ LinkInv'
  <2>1. LoginTypes'
    BY <1>0, <1>3, <1>4, <1>5
  <2>2. LinkInv'
    BY <1>4, <1>5 DEF LinkInv, Using
  <2> QED BY <2>1, <2>2
<1>6. ASSUME NEW l \in ResetLinks, BeginReset(r, l)
      PROVE  LoginTypes' /\ LinkInv'
  <2>1. UNCHANGED <<resetLink, applied>> /\ reset[r].pc = "idle"
    BY <1>6 DEF BeginReset
  <2>2. /\ reset' \in [Resets -> ResetRecords]
        /\ \A q \in Resets : q # r => reset'[q] = reset[q]
        /\ reset'[r].link = l
        /\ \/ reset'[r].pc = "update" /\ resetLink[l] = "fresh"
           \/ reset'[r].pc = "done"
    BY <1>0, <1>6 DEF BeginReset, ResetRecords, VerifyPasswordResetToken
  <2>3. disputed \subseteq disputed'
        /\ (l \notin disputed' => ~\E q \in Resets : Using(q, l))
    BY <1>6 DEF BeginReset, Using
  <2>4. LoginTypes'
    BY <1>0, <1>3, <2>1, <2>2
  <2>5. ASSUME NEW m \in ResetLinks, m \notin disputed'
        PROVE  /\ \A p, q \in Resets : Using(p, m)' /\ Using(q, m)' => p = q
               /\ \A q \in Resets : Using(q, m)' /\ reset'[q].pc = "update" => applied'[m] = 0
               /\ \/ applied'[m] = 0
                  \/ /\ applied'[m] = 1
                     /\ resetLink'[m] = "used" \/ \E q \in Resets : Using(q, m)' /\ reset'[q].pc = "mark"
    <3>1. m \in ResetLinks \ disputed
      BY <2>3, <2>5
    <3>2. CASE m # l
      <4>1. \A q \in Resets : (Using(q, m)' <=> Using(q, m)) /\ (Using(q, m) => reset'[q] = reset[q])
        BY <2>1, <2>2, <3>2 DEF Using
      <4> QED BY <2>1, <3>1, <4>1 DEF LinkInv
    <3>3. CASE m = l
      <4>1. \A q \in Resets : ~Using(q, m) /\ (Using(q, m)' => q = r)
        BY <2>2, <2>3, <2>5, <3>3 DEF Using
      <4>2. applied[m] = 0 \/ (applied[m] = 1 /\ resetLink[m] = "used")
        BY <3>1, <4>1 DEF LinkInv
      <4>3. Using(r, m)' /\ reset'[r].pc = "update" => applied[m] = 0
        BY <2>2, <3>3, <4>2 DEF Using
      <4> QED BY <2>1, <4>1, <4>2, <4>3
    <3> QED BY <3>2, <3>3
  <2>6. LinkInv'
    BY <2>5 DEF LinkInv
  <2> QED BY <2>4, <2>6
<1>7. ASSUME UpdateUserPassword(r)
      PROVE  LoginTypes' /\ LinkInv'
  <2>0. PICK l \in ResetLinks : l = reset[r].link
    BY <1>0, <1>7 DEF UpdateUserPassword
  <2>1. reset[r].pc = "update" /\ UNCHANGED <<resetLink, disputed>>
    BY <1>7 DEF UpdateUserPassword
  <2>2. CASE ResetTo(r, "done", "refused") /\ UNCHANGED applied
    BY <1>5, <2>1, <2>2
  <2>3. CASE applied' = [applied EXCEPT ![l] = @ + 1] /\ ResetTo(r, "mark", "none")
    <3>1. /\ reset' \in [Resets -> ResetRecords]
          /\ \A q \in Resets : q # r => reset'[q] = reset[q]
          /\ reset'[r].pc = "mark" /\ reset'[r].link = l
      BY <1>4, <2>0, <2>3
    <3>2. /\ applied' \in [ResetLinks -> Nat] /\ applied'[l] = applied[l] + 1
          /\ \A m \in ResetLinks : m # l => applied'[m] = applied[m]
      BY <1>0, <2>1, <2>3
    <3>3. LoginTypes'
      BY <1>0, <1>3, <2>1, <3>1, <3>2
    <3>4. Using(r, l) /\ \A q \in Resets, m \in ResetLinks : Using(q, m)' <=> Using(q, m)
      BY <2>0, <2>1, <3>1 DEF Using
    <3>5. \A m \in ResetLinks : m # l => ~Using(r, m)
      BY <2>0 DEF Using
    <3>6. l \notin disputed => applied'[l] = 1 /\ \A q \in Resets : Using(q, l)' => q = r
      <4> SUFFICES ASSUME l \notin disputed
                   PROVE  applied'[l] = 1 /\ \A q \in Resets : Using(q, l)' => q = r
        OBVIOUS
      <4>1. reset[r].pc = "update" /\ l \in ResetLinks \ disputed
        BY <2>1
      <4>2. applied[l] = 0 /\ \A q \in Resets : Using(q, l) => q = r
        BY <3>4, <4>1 DEF LinkInv
      <4> QED BY <2>1, <3>2, <3>4, <4>2
    <3>7. ASSUME NEW m \in ResetLinks \ disputed, m # l
          PROVE  /\ \A p, q \in Resets : Using(p, m)' /\ Using(q, m)' => p = q
                 /\ \A q \in Resets : Using(q, m)' /\ reset'[q].pc = "update" => applied'[m] = 0
                 /\ \/ applied'[m] = 0
                    \/ /\ applied'[m] = 1
                       /\ resetLink'[m] = "used" \/ \E q \in Resets : Using(q, m)' /\ reset'[q].pc = "mark"
      BY <2>1, <3>1, <3>2, <3>4, <3>5, <3>7 DEF LinkInv
    <3>8. ASSUME l \notin disputed
          PROVE  /\ \A p, q \in Resets : Using(p, l)' /\ Using(q, l)' => p = q
                 /\ \A q \in Resets : Using(q, l)' /\ reset'[q].pc = "update" => applied'[l] = 0
                 /\ applied'[l] = 1 /\ \E q \in Resets : Using(q, l)' /\ reset'[q].pc = "mark"
      <4>1. Using(r, l)'
        BY <2>1, <3>4
      <4>2. \A q \in Resets : Using(q, l)' => q = r
        BY <3>6, <3>8
      <4> QED BY <3>1, <3>6, <3>8, <4>1, <4>2
    <3>9. LinkInv'
      <4> SUFFICES ASSUME NEW m \in ResetLinks, m \notin disputed'
                   PROVE  /\ \A p, q \in Resets : Using(p, m)' /\ Using(q, m)' => p = q
                          /\ \A q \in Resets : Using(q, m)' /\ reset'[q].pc = "update" => applied'[m] = 0
                          /\ \/ applied'[m] = 0
                             \/ /\ applied'[m] = 1
                                /\ resetLink'[m] = "used" \/ \E q \in Resets : Using(q, m)' /\ reset'[q].pc = "mark"
        BY DEF LinkInv
      <4>1. m \in ResetLinks \ disputed
        BY <2>1
      <4>2. CASE m = l
        BY <3>8, <4>1, <4>2
      <4>3. CASE m # l
        BY <3>7, <4>1, <4>3
      <4> QED BY <4>2, <4>3
    <3> QED BY <3>3, <3>9
  <2> QED BY <1>7, <2>0, <2>2, <2>3 DEF UpdateUserPassword
<1>8. ASSUME MarkPasswordResetTokenUsed(r)
      PROVE  LoginTypes' /\ LinkInv'
  <2> DEFINE l == reset[r].link
  <2>1. reset[r].pc = "mark" /\ UNCHANGED applied /\ l \in ResetLinks
    BY <1>0, <1>8 DEF MarkPasswordResetTokenUsed
  <2>2. \E res \in {"none", "ok", "refused"} : ResetTo(r, "done", res)
    BY <1>8 DEF MarkPasswordResetTokenUsed
  <2>3. /\ reset' \in [Resets -> ResetRecords]
        /\ \A q \in Resets : q # r => reset'[q] = reset[q]
        /\ reset'[r].pc = "done"
    BY <1>4, <2>2
  <2>4. \/ resetLink' = [resetLink EXCEPT ![l] = "used"] /\ UNCHANGED disputed
        \/ UNCHANGED resetLink /\ disputed' = disputed \cup {l}
    BY <1>8 DEF MarkPasswordResetTokenUsed
  <2> HIDE DEF l
  <2>5. /\ resetLink' \in [ResetLinks -> {"none", "fresh", "used", "expired"}]
        /\ \A m \in ResetLinks : m # l => resetLink'[m] = resetLink[m]
        /\ l \in disputed' \/ resetLink'[l] = "used"
        /\ disputed \subseteq disputed'
    BY <1>0, <2>1, <2>4
  <2>6. LoginTypes'
    BY <1>0, <1>3, <2>1, <2>3, <2>5
  <2>7. \A q \in Resets, m \in ResetLinks : (Using(q, m)' => Using(q, m) /\ reset'[q] = reset[q])
                                            /\ (Using(q, m) /\ m # l => Using(q, m)')
    BY <2>1, <2>3 DEF Using, l
  <2>8. ASSUME NEW m \in ResetLinks \ disputed'
        PROVE  /\ \A p, q \in Resets : Using(p, m)' /\ Using(q, m)' => p = q
               /\ \A q \in Resets : Using(q, m)' /\ reset'[q].pc = "update" => applied'[m] = 0
               /\ \/ applied'[m] = 0
                  \/ /\ applied'[m] = 1
                     /\ resetLink'[m] = "used" \/ \E q \in Resets : Using(q, m)' /\ reset'[q].pc = "mark"
    BY <2>1, <2>5, <2>7, <2>8 DEF LinkInv
  <2>9. LinkInv'
    BY <2>8 DEF LinkInv
  <2> QED BY <2>6, <2>9
<1> QED BY <1>2, <1>6, <1>7, <1>8 DEF ResetStep

LEMMA LoginsStep ==
    LoginTypes /\ OwnInv /\ LinkInv /\ [LoginsNext]_loginVars => LoginTypes' /\ OwnInv' /\ LinkInv'
<1> SUFFICES ASSUME LoginTypes, OwnInv, LinkInv, [LoginsNext]_loginVars
             PROVE  LoginTypes' /\ OwnInv' /\ LinkInv'
  OBVIOUS
<1>0. /\ person \in Persons
      /\ resetLink \in [ResetLinks -> {"none", "fresh", "used", "expired"}]
  BY DEF LoginTypes
\* Steps that touch no request and no link: the accounts only come or are verified.
<1>1. ASSUME UNCHANGED <<signIn, resetLink, reset, applied, disputed>>,
             person' \in Persons,
             person.there => person'.there /\ person'.provider = person.provider /\ person'.maker = person.maker,
             sessions' \cap IdPs = sessions \cap IdPs,
             stateCookie' \in SignIns \cup {NoSignIn}, termsCookie' \in BOOLEAN
      PROVE  LoginTypes' /\ OwnInv' /\ LinkInv'
  <2>1. LoginTypes'
    BY <1>1 DEF LoginTypes
  <2>2. OwnInv'
    BY <1>1 DEF OwnInv
  <2>3. LinkInv'
    BY <1>1 DEF LinkInv, Using
  <2> QED BY <2>1, <2>2, <2>3
<1>2. UNCHANGED <<stateCookie, termsCookie>> => stateCookie' \in SignIns \cup {NoSignIn} /\ termsCookie' \in BOOLEAN
  BY DEF LoginTypes
<1>3. ASSUME NEW t \in PasswordTries, TryStep(t)
      PROVE  LoginTypes' /\ OwnInv' /\ LinkInv'
  <2>1. /\ UNCHANGED <<signIn, resetLink, reset, applied, disputed, person, stateCookie, termsCookie>>
        /\ sessions' = sessions \/ sessions' = sessions \cup {"password"}
    BY <1>3 DEF TryStep, HandleLogin, LoadMemberships, CreateLoginSession, RecordActivity, loginRows, cookies, resetVars
  <2>2. sessions' \cap IdPs = sessions \cap IdPs
    BY <2>1 DEF IdPs
  <2> QED BY <1>0, <1>1, <1>2, <2>1, <2>2
<1>4. ASSUME NEW l \in ResetLinks, HandleForgotPassword(l) \/ ExpireLink(l)
      PROVE  LoginTypes' /\ OwnInv' /\ LinkInv'
  <2>1. /\ UNCHANGED <<signIn, reset, applied, disputed, person, sessions, stateCookie, termsCookie>>
        /\ resetLink[l] \in {"none", "fresh"}
        /\ resetLink' = [resetLink EXCEPT ![l] = "fresh"] \/ resetLink' = [resetLink EXCEPT ![l] = "expired"]
    BY <1>4 DEF HandleForgotPassword, ExpireLink, loginRows, cookies
  <2>2. /\ resetLink' \in [ResetLinks -> {"none", "fresh", "used", "expired"}]
        /\ \A m \in ResetLinks : resetLink[m] = "used" => resetLink'[m] = "used"
    BY <1>0, <2>1
  <2>3. LoginTypes' /\ OwnInv'
    BY <2>1, <2>2 DEF LoginTypes, OwnInv
  <2>4. LinkInv'
    BY <2>1, <2>2 DEF LinkInv, Using
  <2> QED BY <2>3, <2>4
<1>5. ASSUME NEW p \in LoginProviders, SignupMeanwhile(p)
      PROVE  LoginTypes' /\ OwnInv' /\ LinkInv'
  BY <1>0, <1>1, <1>2, <1>5 DEF SignupMeanwhile, cookies, resetVars, Hashes, Persons
<1>6. CASE VerifyMeanwhile
  BY <1>0, <1>1, <1>2, <1>6 DEF VerifyMeanwhile, cookies, resetVars, Persons
<1>7. CASE CookiesExpire
  BY <1>0, <1>1, <1>7 DEF CookiesExpire, loginRows, resetVars
<1>8. CASE UNCHANGED loginVars
  BY <1>0, <1>1, <1>2, <1>8 DEF loginVars
<1> QED BY <1>3, <1>4, <1>5, <1>6, <1>7, <1>8, SignInKeeps, ResetKeeps DEF LoginsNext

\* FindAccount and CreateUserWithOauth: a callback whose lookup found nobody opens a session
\* of the account it made itself, never of one another browser made between the two; what
\* its lookup found has the provider's tag.
THEOREM CallbacksTakeNoOther == LoginsSpec => []CallbackTakesNoOther
<1>1. OwnInv => CallbackTakesNoOther
  BY DEF OwnInv, CallbackTakesNoOther
<1> QED BY <1>1, LoginsInitInv, LoginsStep, PTL DEF LoginsSpec

\* UpdateUserPassword: a mailed link sets the password once, unless two requests used it
\* at once or it could not be marked.
THEOREM LinksWorkOnce == LoginsSpec => []LinkWorksOnce
<1>1. LinkInv => LinkWorksOnce
  BY DEF LinkInv, LinkWorksOnce
<1> QED BY <1>1, LoginsInitInv, LoginsStep, PTL DEF LoginsSpec

-----------------------------------------------------------------------------
(* The streams of a run.  A row's time is that of the statement that wrote    *)
(* it, and no two statements began at the same time: unless a commit was      *)
(* overtaken, a stream that knows the time of a row knows what it says.       *)

Says == RunStatuses \cup {"first", "edited", "gone", "none"}
Marks == [sent: BOOLEAN, at: Nat]

StreamTypes ==
    /\ watched \in [Watched -> [says: Says, at: Nat]]
    /\ \A w \in Watched : watched[w].says \in Saying(w)
    /\ writing \subseteq [target: Watched, says: Says \ {"none"}, at: Nat]
    /\ \A t \in writing : t.says \in Saying(t.target)
    /\ clock \in Nat
    /\ told \in [run: [mark: Marks, says: Says], nodes: [mark: Marks, says: [WatchedNodes -> Says]],
                 active: [mark: BOOLEAN, says: SUBSET ActiveStatuses],
                 global: [mark: BOOLEAN, says: BOOLEAN \X BOOLEAN], flow: [mark: Marks, says: Says]]

\* Every statement has a time of its own, and a row has that of the statement that wrote it.
TimesInv ==
    /\ \A w \in Watched : watched[w].at <= clock
    /\ \A t \in writing : t.at \in 1..clock
    /\ \A t, u \in writing : t.at = u.at => t = u
    /\ \A t \in writing, w \in Watched : t.at # watched[w].at

\* What a stream has sent is not newer than the row, and what it sent with the row's time
\* is what the row says.
KnowsRow(mark, says, w) ==
    mark.sent => mark.at <= watched[w].at /\ (mark.at = watched[w].at => says = watched[w].says)

KnowsNodes ==
    told.nodes.mark.sent =>
      /\ told.nodes.mark.at <= LatestOf("nodes")
      /\ told.nodes.mark.at = LatestOf("nodes") => \A n \in WatchedNodes : told.nodes.says[n] = watched[n].says

\* WorkflowReadFails counts a read that failed as sent, with the time and the text the
\* workflow had when the stream was opened.
ToldInv ==
    /\ "run" \in overtaken \/ KnowsRow(told.run.mark, told.run.says, "run")
    /\ "nodes" \in overtaken \/ KnowsNodes
    /\ told.nodes.mark.sent => Inserted # {}
    /\ ~told.nodes.mark.sent => \A n \in WatchedNodes : told.nodes.says[n] = "none"
    /\ \/ "flow" \in overtaken
       \/ KnowsRow(told.flow.mark, told.flow.says, "flow")
       \/ watched["flow"].says = "gone"
    /\ told.flow.says = "gone" => watched["flow"].says = "gone"
    /\ ~told.flow.mark.sent => told.flow.mark.at = 0 /\ told.flow.says \in {"first", "gone"}
    /\ watched["flow"].at = 0 => watched["flow"].says = "first"

\* A finite set of numbers has a largest one.
LEMMA LargestExists ==
    ASSUME NEW S \in SUBSET Nat, IsFiniteSet(S), S # {}
    PROVE  Max(S) \in S /\ \A y \in S : y <= Max(S)
<1> DEFINE Above(x) == {y \in S : y > x}
           R == StrictSubsetOrdering(S)
           T == {Above(x) : x \in S}
<1>1. IsWellFoundedOn(R, SUBSET S)
  BY FS_StrictSubsetOrderingWellFounded, FS_FiniteSubsetsOfFinite
<1>2. T \subseteq SUBSET S /\ T # {}
  OBVIOUS
<1>3. \E t \in T : \A u \in T : ~(<<u, t>> \in R)
  <2> HIDE DEF T, R
  <2> QED BY <1>1, <1>2, WFMin
<1>4. PICK x \in S : \A u \in T : ~(<<u, Above(x)>> \in R)
  BY <1>3
<1>5. ASSUME NEW y \in S, y > x
      PROVE  FALSE
  <2>0. \A z \in S : z \in Nat /\ x \in Nat /\ y \in Nat
    OBVIOUS
  <2>1. Above(y) \subseteq Above(x) /\ y \in Above(x) /\ y \notin Above(y)
    <3>1. \A z \in S : z > y => z > x
      BY <1>5, <2>0
    <3>2. ~(y > y)
      BY <2>0
    <3> QED BY <1>5, <3>1, <3>2
  <2>2. <<Above(y), Above(x)>> \in R
    BY <2>1 DEF StrictSubsetOrdering
  <2> QED BY <1>4, <2>2
<1>6. \A y \in S : x >= y
  <2> SUFFICES ASSUME NEW y \in S, ~(x >= y)
               PROVE  FALSE
    OBVIOUS
  <2>1. x \in Nat /\ y \in Nat
    OBVIOUS
  <2>2. y > x
    BY <2>1
  <2> QED BY <1>5, <2>2
<1> QED BY <1>6 DEF Max

LEMMA LatestOfTimes ==
    ASSUME NEW f \in [Watched -> [says: Says, at: Nat]], NEW I \in SUBSET WatchedNodes
    PROVE  LET m == Max({f[n].at : n \in I} \cup {0})
           IN  m \in Nat /\ (\A n \in I : f[n].at <= m) /\ (m = 0 \/ \E n \in I : f[n].at = m)
<1> DEFINE J == {f[n].at : n \in I}
           S == J \cup {0}
<1>1. S \in SUBSET Nat /\ S # {}
  BY DEF Watched
<1>2. IsFiniteSet(I)
  BY RunStreamAssumption, FS_Subset
<1>3. [n \in I |-> f[n].at] \in Surjection(I, J)
  BY DEF Surjection
<1>4. IsFiniteSet(J)
  <2> HIDE DEF J
  <2> QED BY <1>2, <1>3, FS_Surjection
<1>5. IsFiniteSet(S)
  BY <1>4, FS_AddElement
<1>6. Max(S) \in S /\ \A y \in S : y <= Max(S)
  <2> HIDE DEF S
  <2> QED BY <1>1, <1>5, LargestExists
<1> QED BY <1>1, <1>6

LEMMA LatestIsLargest ==
    ASSUME StreamTypes
    PROVE  /\ LatestOf("nodes") \in Nat
           /\ \A n \in Inserted : watched[n].at <= LatestOf("nodes")
           /\ LatestOf("nodes") = 0 \/ \E n \in Inserted : watched[n].at = LatestOf("nodes")
<1>1. watched \in [Watched -> [says: Says, at: Nat]] /\ Inserted \in SUBSET WatchedNodes
  BY DEF StreamTypes, Inserted
<1>2. LatestOf("nodes") = Max({watched[n].at : n \in Inserted} \cup {0})
  BY DEF LatestOf
<1> QED BY <1>1, <1>2, LatestOfTimes

LEMMA StreamInitInv == RunStreamInit => StreamTypes /\ TimesInv /\ ToldInv
<1> SUFFICES ASSUME RunStreamInit
             PROVE  StreamTypes /\ TimesInv /\ ToldInv
  OBVIOUS
<1>1. \A w \in Watched : watched[w] = Start(w) /\ Start(w).says \in Saying(w) /\ Start(w).at = 0
  BY DEF RunStreamInit, Start, Saying, RunStatuses, ActiveStatuses
<1>2. \A w \in Watched : Saying(w) \subseteq Says
  BY DEF Saying, Says, RunStatuses, ActiveStatuses
<1>3. watched \in [Watched -> [says: Says, at: Nat]]
  BY <1>1, <1>2 DEF RunStreamInit, Start
<1>4. told.flow = [mark |-> Unsent, says |-> "first"] /\ told.run = [mark |-> Unsent, says |-> "queued"]
      /\ told.nodes = [mark |-> Unsent, says |-> [n \in WatchedNodes |-> "none"]]
      /\ told.active = [mark |-> FALSE, says |-> {}] /\ told.global = [mark |-> FALSE, says |-> <<FALSE, FALSE>>]
  BY DEF RunStreamInit
<1>5. told \in [run: [mark: Marks, says: Says], nodes: [mark: Marks, says: [WatchedNodes -> Says]],
                active: [mark: BOOLEAN, says: SUBSET ActiveStatuses],
                global: [mark: BOOLEAN, says: BOOLEAN \X BOOLEAN], flow: [mark: Marks, says: Says]]
  BY DEF RunStreamInit, Unsent, Marks, Says, RunStatuses, ActiveStatuses
<1>6. StreamTypes
  BY <1>1, <1>3, <1>5 DEF RunStreamInit, StreamTypes
<1>7. TimesInv
  BY <1>1 DEF RunStreamInit, TimesInv
<1>8. "flow" \in Watched /\ Start("flow").says = "first"
  BY DEF Watched, Start
<1>9. ToldInv
  BY <1>1, <1>4, <1>8 DEF ToldInv, KnowsRow, KnowsNodes, Unsent
<1> QED BY <1>6, <1>7, <1>9

LEMMA StreamStep ==
    StreamTypes /\ TimesInv /\ ToldInv /\ [RunStreamNext]_streamVars => StreamTypes' /\ TimesInv' /\ ToldInv'
<1> SUFFICES ASSUME StreamTypes, TimesInv, ToldInv, [RunStreamNext]_streamVars
             PROVE  StreamTypes' /\ TimesInv' /\ ToldInv'
  OBVIOUS
<1>0. /\ watched \in [Watched -> [says: Says, at: Nat]]
      /\ \A w \in Watched : watched[w].says \in Saying(w)
      /\ writing \subseteq [target: Watched, says: Says \ {"none"}, at: Nat]
      /\ clock \in Nat
      /\ told \in [run: [mark: Marks, says: Says], nodes: [mark: Marks, says: [WatchedNodes -> Says]],
                   active: [mark: BOOLEAN, says: SUBSET ActiveStatuses],
                   global: [mark: BOOLEAN, says: BOOLEAN \X BOOLEAN], flow: [mark: Marks, says: Says]]
      /\ "run" \in Watched /\ "flow" \in Watched /\ WatchedNodes \subseteq Watched
      /\ "run" \notin WatchedNodes /\ "flow" \notin WatchedNodes
  BY RunStreamAssumption DEF StreamTypes, Watched
<1>1. \A w \in Watched : Saying(w) \subseteq Says
  BY DEF Saying, Says, RunStatuses, ActiveStatuses
\* A poll changes what was told and nothing else.
<1>2. ASSUME UNCHANGED <<watched, writing, clock, overtaken>>
      PROVE  /\ TimesInv' /\ Inserted' = Inserted /\ LatestOf("nodes")' = LatestOf("nodes")
             /\ told' \in [run: [mark: Marks, says: Says], nodes: [mark: Marks, says: [WatchedNodes -> Says]],
                           active: [mark: BOOLEAN, says: SUBSET ActiveStatuses],
                           global: [mark: BOOLEAN, says: BOOLEAN \X BOOLEAN], flow: [mark: Marks, says: Says]]
                  => StreamTypes'
  BY <1>2 DEF StreamTypes, TimesInv, Inserted, LatestOf
<1>3. ASSUME UNCHANGED <<watched, writing, clock, overtaken>>, StreamTypes',
             told'.run = told.run, told'.nodes = told.nodes, told'.flow = told.flow
      PROVE  ToldInv'
  BY <1>2, <1>3 DEF ToldInv, KnowsRow, KnowsNodes
<1>4. ASSUME UNCHANGED <<watched, writing, clock, overtaken, told>>
      PROVE  StreamTypes' /\ TimesInv' /\ ToldInv'
  BY <1>0, <1>2, <1>3, <1>4
<1>5. CASE PollRun
  <2>1. UNCHANGED <<watched, writing, clock, overtaken>>
    BY <1>5 DEF PollRun
  <2>2. CASE UNCHANGED told
    BY <1>4, <2>1, <2>2
  <2>3. CASE told' = [told EXCEPT !.run = [mark |-> Marked(watched["run"].at), says |-> watched["run"].says]]
    <3>1. /\ told'.run = [mark |-> Marked(watched["run"].at), says |-> watched["run"].says]
          /\ told'.nodes = told.nodes /\ told'.flow = told.flow
          /\ told'.active = told.active /\ told'.global = told.global
      BY <1>0, <2>3
    <3>2. StreamTypes'
      BY <1>0, <1>2, <2>1, <2>3 DEF Marks, Marked
    <3>3. KnowsRow(told'.run.mark, told'.run.says, "run")
      BY <1>0, <3>1 DEF KnowsRow, Marked
    <3>4. ToldInv'
      BY <1>2, <2>1, <3>1, <3>3 DEF ToldInv, KnowsRow, KnowsNodes
    <3> QED BY <1>2, <2>1, <3>2, <3>4
  <2> QED BY <1>5, <2>2, <2>3 DEF PollRun
<1>6. CASE PollNodes
  <2>1. UNCHANGED <<watched, writing, clock, overtaken>>
    BY <1>6 DEF PollNodes
  <2>2. CASE UNCHANGED told
    BY <1>4, <2>1, <2>2
  <2>3. CASE /\ Inserted # {}
             /\ told' = [told EXCEPT !.nodes = [mark |-> Marked(LatestOf("nodes")),
                                                says |-> [n \in WatchedNodes |-> watched[n].says]]]
    <3>1. /\ told'.nodes = [mark |-> Marked(LatestOf("nodes")), says |-> [n \in WatchedNodes |-> watched[n].says]]
          /\ told'.run = told.run /\ told'.flow = told.flow
          /\ told'.active = told.active /\ told'.global = told.global
      BY <1>0, <2>3
    <3>2. [n \in WatchedNodes |-> watched[n].says] \in [WatchedNodes -> Says]
          /\ Marked(LatestOf("nodes")) \in Marks
      BY <1>0, LatestIsLargest DEF Marks, Marked
    <3>3. StreamTypes'
      BY <1>0, <1>2, <2>1, <2>3, <3>2
    <3>4. KnowsNodes'
      BY <1>0, <1>2, <2>1, <3>1, LatestIsLargest DEF KnowsNodes, Marked
    <3>5. told'.nodes.mark.sent = TRUE
      BY <3>1 DEF Marked
    <3>6. ToldInv'
      BY <1>2, <2>1, <2>3, <3>1, <3>4, <3>5 DEF ToldInv, KnowsRow
    <3> QED BY <1>2, <2>1, <3>3, <3>6
  <2> QED BY <1>6, <2>2, <2>3 DEF PollNodes, NodesAreNewer
<1>7. CASE ReadFails
  BY <1>4, <1>7 DEF ReadFails
<1>8. CASE PollActiveRuns
  <2>1. UNCHANGED <<watched, writing, clock, overtaken>>
    BY <1>8 DEF PollActiveRuns
  <2>2. CASE UNCHANGED told
    BY <1>4, <2>1, <2>2
  <2>3. CASE told' = [told EXCEPT !.active = [mark |-> TRUE, says |-> ListActiveRuns]]
    <3>1. ListActiveRuns \in SUBSET ActiveStatuses
      BY DEF ListActiveRuns
    <3>2. told'.run = told.run /\ told'.nodes = told.nodes /\ told'.flow = told.flow
      BY <1>0, <2>3
    <3>3. StreamTypes'
      BY <1>0, <1>2, <2>1, <2>3, <3>1
    <3> QED BY <1>2, <1>3, <2>1, <3>2, <3>3
  <2> QED BY <1>8, <2>2, <2>3 DEF PollActiveRuns
<1>9. CASE PollGlobalRuns
  <2> DEFINE now == <<"running" \in ListActiveRuns, "queued" \in ListActiveRuns>>
  <2>1. UNCHANGED <<watched, writing, clock, overtaken>>
    BY <1>9 DEF PollGlobalRuns
  <2>2. CASE UNCHANGED told
    BY <1>4, <2>1, <2>2
  <2>3. CASE told' = [told EXCEPT !.global = [mark |-> TRUE, says |-> now]]
    <3>1. now \in BOOLEAN \X BOOLEAN
      <4> DEFINE p == "running" \in ListActiveRuns
                 q == "queued" \in ListActiveRuns
      <4>1. p \in BOOLEAN /\ q \in BOOLEAN
        OBVIOUS
      <4> HIDE DEF p, q
      <4>2. <<p, q>> \in BOOLEAN \X BOOLEAN
        BY <4>1
      <4> QED BY <4>2 DEF p, q
    <3> HIDE DEF now
    <3>2. told'.run = told.run /\ told'.nodes = told.nodes /\ told'.flow = told.flow
      BY <1>0, <2>3
    <3>3. StreamTypes'
      BY <1>0, <1>2, <2>1, <2>3, <3>1
    <3> QED BY <1>2, <1>3, <2>1, <3>2, <3>3
  <2> QED BY <1>9, <2>2, <2>3 DEF PollGlobalRuns
\* The stream of the workflow: every step of it keeps what ToldInv says of the workflow.
<1>10. ASSUME UNCHANGED <<watched, writing, clock, overtaken>>, NEW f \in [mark: Marks, says: Says],
              told' = [told EXCEPT !.flow = f],
              "flow" \in overtaken \/ KnowsRow(f.mark, f.says, "flow") \/ watched["flow"].says = "gone",
              f.says = "gone" => watched["flow"].says = "gone",
              ~f.mark.sent => f.mark.at = 0 /\ f.says \in {"first", "gone"}
       PROVE  StreamTypes' /\ TimesInv' /\ ToldInv'
  <2>1. told'.run = told.run /\ told'.nodes = told.nodes /\ told'.flow = f
    BY <1>0, <1>10
  <2>2. StreamTypes'
    BY <1>0, <1>2, <1>10
  <2>3. ToldInv'
    BY <1>2, <1>10, <2>1 DEF ToldInv, KnowsRow, KnowsNodes
  <2> QED BY <1>2, <1>10, <2>2, <2>3
<1>11. CASE PollWorkflow
  <2>1. UNCHANGED <<watched, writing, clock, overtaken>> /\ told.flow.says # "gone"
    BY <1>11 DEF PollWorkflow
  <2>2. CASE UNCHANGED told
    BY <1>4, <2>1, <2>2
  <2>3. CASE watched["flow"].says = "gone" /\ told' = [told EXCEPT !.flow.says = "gone"]
    <3> DEFINE f == [told.flow EXCEPT !.says = "gone"]
    <3>1. f \in [mark: Marks, says: Says] /\ f.says = "gone" /\ f.mark = told.flow.mark
          /\ told' = [told EXCEPT !.flow = f]
      BY <1>0, <2>3 DEF Says
    <3> HIDE DEF f
    <3>2. ~f.mark.sent => f.mark.at = 0
      BY <3>1 DEF ToldInv
    <3> QED BY <1>10, <2>1, <2>3, <3>1, <3>2
  <2>4. CASE told' = [told EXCEPT !.flow = [mark |-> Marked(watched["flow"].at), says |-> watched["flow"].says]]
    <3> DEFINE f == [mark |-> Marked(watched["flow"].at), says |-> watched["flow"].says]
    <3>1. f \in [mark: Marks, says: Says] /\ f.says = watched["flow"].says /\ f.mark.sent = TRUE
          /\ KnowsRow(f.mark, f.says, "flow")
      BY <1>0 DEF Marks, Marked, KnowsRow
    <3>2. told' = [told EXCEPT !.flow = f]
      BY <2>4
    <3> HIDE DEF f
    <3> QED BY <1>10, <2>1, <3>1, <3>2
  <2> QED BY <1>11, <2>2, <2>3, <2>4 DEF PollWorkflow
<1>12. CASE WorkflowReadFails
  <2> DEFINE f == [told.flow EXCEPT !.mark.sent = TRUE]
  <2>1. UNCHANGED <<watched, writing, clock, overtaken>> /\ told.flow.says # "gone"
    BY <1>12 DEF WorkflowReadFails
  <2>2. told' = [told EXCEPT !.flow = f] /\ f \in [mark: Marks, says: Says] /\ f.says = told.flow.says
        /\ f.mark.at = told.flow.mark.at /\ f.mark.sent = TRUE
    BY <1>0, <1>12 DEF WorkflowReadFails, Marks
  <2> HIDE DEF f
  <2>3. CASE told.flow.mark.sent
    BY <1>10, <2>1, <2>2, <2>3 DEF ToldInv, KnowsRow
  <2>4. CASE ~told.flow.mark.sent
    <3>1. f.mark.at = 0 /\ f.says = "first"
      BY <2>1, <2>2, <2>4 DEF ToldInv
    <3>2. KnowsRow(f.mark, f.says, "flow")
      BY <1>0, <3>1 DEF KnowsRow, ToldInv
    <3> QED BY <1>10, <2>1, <2>2, <3>1, <3>2
  <2> QED BY <2>3, <2>4
\* A statement begins with a time of its own.
<1>13. ASSUME NEW w \in Watched, NEW says \in Saying(w), BeginWrite(w, says)
       PROVE  StreamTypes' /\ TimesInv' /\ ToldInv'
  <2> DEFINE t == [target |-> w, says |-> says, at |-> clock + 1]
  <2>1. /\ UNCHANGED <<watched, told, overtaken>> /\ clock' = clock + 1
        /\ writing' = writing \cup {t} /\ says # "none"
    BY <1>13 DEF BeginWrite
  <2>2. t \in [target: Watched, says: Says \ {"none"}, at: Nat] /\ t.says \in Saying(t.target) /\ t.at = clock + 1
    BY <1>0, <1>1, <2>1
  <2> HIDE DEF t
  <2>3. StreamTypes'
    BY <1>0, <2>1, <2>2 DEF StreamTypes
  <2>4. \A u \in writing : u.at # t.at /\ u.at \in 1..clock'
    BY <1>0, <2>1, <2>2 DEF TimesInv
  <2>5. \A v \in Watched : watched[v].at # t.at /\ watched[v].at <= clock'
    BY <1>0, <2>1, <2>2 DEF TimesInv
  <2>6. t.at \in 1..clock'
    BY <1>0, <2>1, <2>2
  <2>7. TimesInv'
    BY <2>1, <2>4, <2>5, <2>6 DEF TimesInv
  <2>8. ToldInv'
    BY <2>1 DEF ToldInv, KnowsRow, KnowsNodes, Inserted, LatestOf
  <2> QED BY <2>3, <2>7, <2>8
<1>14. ASSUME NEW t \in writing, CommitWrite(t)
       PROVE  StreamTypes' /\ TimesInv' /\ ToldInv'
  <2>1. UNCHANGED <<clock, told>> /\ writing' = writing \ {t}
    BY <1>14 DEF CommitWrite
  <2>2. CASE UNCHANGED <<watched, overtaken>>
    <3>1. StreamTypes' /\ TimesInv'
      BY <2>1, <2>2 DEF StreamTypes, TimesInv
    <3>2. ToldInv'
      BY <2>1, <2>2 DEF ToldInv, KnowsRow, KnowsNodes, Inserted, LatestOf
    <3> QED BY <3>1, <3>2
  <2>3. CASE watched[t.target].says # "gone"
    <3>1. PICK w \in Watched : w = t.target
      BY <1>0
    <3>2. t.says \in Saying(w) \ {"none"} /\ t.says \in Says /\ t.at \in Nat /\ t.at >= 1
      BY <1>0, <1>1, <3>1 DEF StreamTypes, TimesInv
    <3>3. /\ watched' \in [Watched -> [says: Says, at: Nat]]
          /\ watched'[w].says = t.says /\ watched'[w].at = t.at
          /\ \A v \in Watched : v # w => watched'[v] = watched[v]
      BY <1>0, <1>14, <2>3, <3>1, <3>2 DEF CommitWrite
    <3>4. overtaken \subseteq overtaken' /\ (GroupOf(w) \in overtaken' \/ ~(t.at < LatestOf(GroupOf(w))))
      BY <1>14, <2>3, <3>1 DEF CommitWrite
    <3>5. StreamTypes'
      BY <1>0, <2>1, <3>2, <3>3 DEF StreamTypes
    <3>6. TimesInv'
      BY <2>1, <3>3 DEF TimesInv
    <3>7. t.at # watched[w].at
      BY DEF TimesInv
    \* A row whose group was not overtaken is newer than what was told of it.
    <3>8. ASSUME w \in {"run", "flow"}
          PROVE  w \in overtaken' \/ watched[w].at < t.at
      <4>1. GroupOf(w) = w /\ LatestOf(w) = watched[w].at
        BY <1>0, <3>8 DEF GroupOf, LatestOf
      <4>2. watched[w].at \in Nat
        BY <1>0
      <4>3. w \in overtaken' \/ ~(t.at < watched[w].at)
        BY <3>4, <4>1
      <4> QED BY <3>2, <3>7, <4>2, <4>3
    <3>9. "run" \in overtaken' \/ KnowsRow(told.run.mark, told.run.says, "run")'
      <4>1. CASE w = "run"
        BY <1>0, <2>1, <3>2, <3>3, <3>4, <3>8, <4>1 DEF ToldInv, KnowsRow, Marks
      <4>2. CASE w # "run"
        BY <1>0, <2>1, <3>3, <3>4, <4>2 DEF ToldInv, KnowsRow
      <4> QED BY <4>1, <4>2
    <3>10. "flow" \in overtaken' \/ KnowsRow(told.flow.mark, told.flow.says, "flow")' \/ watched'["flow"].says = "gone"
      <4>1. CASE w = "flow"
        BY <1>0, <2>1, <2>3, <3>1, <3>2, <3>3, <3>4, <3>8, <4>1 DEF ToldInv, KnowsRow, Marks
      <4>2. CASE w # "flow"
        BY <1>0, <2>1, <3>3, <3>4, <4>2 DEF ToldInv, KnowsRow
      <4> QED BY <4>1, <4>2
    <3>11. /\ told'.flow.says = "gone" => watched'["flow"].says = "gone"
           /\ ~told'.flow.mark.sent => told'.flow.mark.at = 0 /\ told'.flow.says \in {"first", "gone"}
           /\ watched'["flow"].at = 0 => watched'["flow"].says = "first"
      BY <1>0, <2>1, <2>3, <3>1, <3>2, <3>3 DEF ToldInv
    <3>12. Inserted \subseteq Inserted'
      BY <1>0, <3>2, <3>3 DEF Inserted
    <3>13. "nodes" \in overtaken' \/ KnowsNodes'
      <4>1. CASE w \notin WatchedNodes
        <5>1. \A n \in WatchedNodes : watched'[n] = watched[n]
          BY <1>0, <3>3, <4>1
        <5>2. Inserted' = Inserted
          BY <5>1 DEF Inserted
        <5>3. LatestOf("nodes")' = LatestOf("nodes")
          BY <5>1, <5>2 DEF LatestOf, Inserted
        <5> QED BY <2>1, <3>4, <5>1, <5>3 DEF ToldInv, KnowsNodes
      <4>2. CASE w \in WatchedNodes /\ "nodes" \notin overtaken'
        <5>1. GroupOf(w) = "nodes" /\ ~(t.at < LatestOf("nodes"))
          BY <3>4, <4>2 DEF GroupOf
        <5>2. LatestOf("nodes") \in Nat /\ (LatestOf("nodes") = 0 \/ \E n \in Inserted : watched[n].at = LatestOf("nodes"))
          BY LatestIsLargest
        <5>3. t.at # LatestOf("nodes")
          BY <1>0, <3>2, <5>2 DEF TimesInv, Inserted
        <5>4. w \in Inserted'
          BY <3>2, <3>3, <4>2 DEF Inserted
        <5>5. LatestOf("nodes")' \in Nat /\ \A n \in Inserted' : watched'[n].at <= LatestOf("nodes")'
          <6>1. Inserted' \in SUBSET WatchedNodes
            BY DEF Inserted
          <6>2. LatestOf("nodes")' = Max({watched'[n].at : n \in Inserted'} \cup {0})
            BY DEF LatestOf
          <6> QED BY <3>3, <6>1, <6>2, LatestOfTimes
        <5>6. LatestOf("nodes")' > LatestOf("nodes")
          BY <3>2, <3>3, <5>1, <5>2, <5>3, <5>4, <5>5
        <5> QED BY <1>0, <2>1, <3>4, <4>2, <5>2, <5>5, <5>6 DEF ToldInv, KnowsNodes, Marks
      <4> QED BY <4>1, <4>2
    <3>14. ToldInv'
      BY <2>1, <3>9, <3>10, <3>11, <3>12, <3>13 DEF ToldInv
    <3> QED BY <3>5, <3>6, <3>14
  <2> QED BY <1>14, <2>2, <2>3 DEF CommitWrite
<1>15. CASE UNCHANGED streamVars
  BY <1>4, <1>15 DEF streamVars
<1> QED BY <1>5, <1>6, <1>7, <1>8, <1>9, <1>11, <1>12, <1>13, <1>14, <1>15 DEF RunStreamNext

\* The streams of a run: a round that sends nothing withholds nothing, unless a commit was
\* overtaken by one of a later statement.
THEOREM SilenceIsNoNews == RunStreamSpec => []SilenceMeansNoNews
<1>1. StreamTypes /\ ToldInv => SilenceMeansNoNews
  <2> SUFFICES ASSUME StreamTypes, ToldInv
               PROVE  SilenceMeansNoNews
    OBVIOUS
  <2>0. /\ watched \in [Watched -> [says: Says, at: Nat]]
        /\ told \in [run: [mark: Marks, says: Says], nodes: [mark: Marks, says: [WatchedNodes -> Says]],
                     active: [mark: BOOLEAN, says: SUBSET ActiveStatuses],
                     global: [mark: BOOLEAN, says: BOOLEAN \X BOOLEAN], flow: [mark: Marks, says: Says]]
        /\ "run" \in Watched /\ "flow" \in Watched
    BY DEF StreamTypes, Watched
  <2>1. RunIsNewer \/ "run" \in overtaken \/ told.run.says = watched["run"].says
    BY <2>0 DEF ToldInv, RunIsNewer, Newer, KnowsRow, Marks
  <2>2. NodesAreNewer \/ "nodes" \in overtaken \/ \A n \in WatchedNodes : told.nodes.says[n] = watched[n].says
    <3>1. CASE told.nodes.mark.sent
      <4>1. LatestOf("nodes") \in Nat /\ told.nodes.mark.at \in Nat
        BY <2>0, LatestIsLargest DEF Marks
      <4>2. NodesAreNewer \/ ~(told.nodes.mark.at < LatestOf("nodes"))
        BY <3>1 DEF ToldInv, NodesAreNewer, Newer
      <4>3. "nodes" \in overtaken \/ KnowsNodes
        BY DEF ToldInv
      <4> QED BY <3>1, <4>1, <4>2, <4>3 DEF KnowsNodes
    <3>2. CASE ~told.nodes.mark.sent
      BY <3>2 DEF ToldInv, NodesAreNewer, Newer, Inserted
    <3> QED BY <3>1, <3>2
  <2>3. FlowIsNewer \/ "flow" \in overtaken \/ watched["flow"].says \in {told.flow.says, "gone"}
    BY SMTT(30), <2>0 DEF ToldInv, FlowIsNewer, KnowsRow, Marks
  <2> QED BY <2>1, <2>2, <2>3 DEF SilenceMeansNoNews
<1> QED BY <1>1, StreamInitInv, StreamStep, PTL DEF RunStreamSpec

-----------------------------------------------------------------------------
(* The support desk. *)

Messages == [from: {"user", "admin"}, readByUser: BOOLEAN, readByAdmin: BOOLEAN]
RequestRecords == [pc: {"idle", "first", "mark", "insert", "status", "fetch"},
                   op: {"none", "submit", "get", "reply", "read"}, marked: SUBSET Nat]

IssueTypes ==
    /\ report \in Statuses \cup {"none"} /\ thread \in Seq(Messages)
    /\ desk \in [Desks -> RequestRecords] /\ crossed \in BOOLEAN
    /\ \A d \in Desks : /\ desk[d].pc = "idle" => desk[d] = NoRequest
                        /\ desk[d].pc = "first" => desk[d].op = "submit"
                        /\ desk[d].pc \in {"insert", "status"} => desk[d].op = "reply"
                        /\ desk[d].pc = "mark" \/ d \in UserDesk => desk[d].marked = {}

\* What an admin's mark covers has been shown, is recorded as overlooked or is in the hands
\* of a request that will show it.
SeenInv ==
    \A i \in 1..Len(thread) :
      thread[i].from = "user" /\ thread[i].readByAdmin =>
        i \in shown \cup overlooked \/ \E d \in Desks : i \in desk[d].marked

Writes(d) == desk[d].op \in {"submit", "reply"}
LastIsAdmin == thread # <<>> /\ thread[Len(thread)].from = "admin"
Turn == report = "waiting_user" <=> LastIsAdmin

\* One request writes at a time; between its message and its status the last message is its.
TurnInv ==
    /\ report = "none" => thread = <<>> /\ \A d \in Desks : desk[d] = NoRequest
    /\ ~crossed =>
         /\ \A d, e \in Desks : Writes(d) /\ Writes(e) => d = e
         /\ \A d \in Desks : desk[d].pc = "first" => report = "open"
         /\ \A d \in Desks : desk[d].pc = "status" => (d \in AdminDesk <=> LastIsAdmin)
         /\ (\A d \in Desks : desk[d].pc # "status") => Turn

\* MarkRead changes no message but its marks.
LEMMA MarksOnly ==
    ASSUME IssueTypes, NEW side \in {"admin", "user"}, MarkRead(side, UnreadBy(side))
    PROVE  /\ thread' \in Seq(Messages) /\ Len(thread') = Len(thread)
           /\ \A i \in 1..Len(thread) : thread'[i].from = thread[i].from
           /\ \A i \in 1..Len(thread) : thread'[i].readByAdmin =>
                thread[i].readByAdmin \/ (side = "admin" /\ i \in UnreadBy("admin"))
           /\ LastIsAdmin' <=> LastIsAdmin
<1> DEFINE n == Len(thread)
           ids == UnreadBy(side)
           m(i) == IF i \notin ids THEN thread[i]
                   ELSE IF side = "admin" THEN [thread[i] EXCEPT !.readByAdmin = TRUE]
                                          ELSE [thread[i] EXCEPT !.readByUser = TRUE]
<1>1. n \in Nat /\ \A i \in 1..n : thread[i] \in Messages
  BY DEF IssueTypes
<1>2. \A i \in 1..n : /\ m(i) \in Messages /\ m(i).from = thread[i].from
                      /\ m(i).readByAdmin => thread[i].readByAdmin \/ (side = "admin" /\ i \in ids)
  BY <1>1 DEF Messages
<1>3. thread' = [i \in 1..n |-> m(i)]
  BY DEF MarkRead
<1> HIDE DEF m
<1>4. thread' \in [1..n -> Messages]
  BY <1>2, <1>3
<1>5. thread' \in Seq(Messages) /\ Len(thread') = n
  BY <1>1, <1>4
<1>6. \A i \in 1..n : thread'[i] = m(i)
  BY <1>3
<1>7. thread' = <<>> <=> thread = <<>>
  BY <1>5 DEF IssueTypes
<1>8. thread # <<>> => n \in 1..n
  BY <1>1 DEF IssueTypes
<1>9. LastIsAdmin' <=> LastIsAdmin
  BY <1>2, <1>5, <1>6, <1>7, <1>8 DEF LastIsAdmin
<1> QED BY <1>2, <1>5, <1>6, <1>9

\* InsertMessage puts one message at the end.
LEMMA InsertsOne ==
    ASSUME IssueTypes, NEW side \in {"admin", "user"}, InsertMessage(side)
    PROVE  /\ thread' \in Seq(Messages) /\ Len(thread') = Len(thread) + 1
           /\ \A i \in 1..Len(thread) : thread'[i] = thread[i]
           /\ thread'[Len(thread) + 1].from = side /\ thread'[Len(thread) + 1].readByAdmin = (side = "admin")
           /\ LastIsAdmin' <=> side = "admin"
<1> DEFINE x == [from |-> side, readByUser |-> side = "user", readByAdmin |-> side = "admin"]
<1>1. x \in Messages /\ x.from = side /\ x.readByAdmin = (side = "admin")
  BY DEF Messages
<1>2. thread' = Append(thread, x) /\ thread \in Seq(Messages)
  BY DEF InsertMessage, IssueTypes
<1> HIDE DEF x
<1>3. /\ thread' \in Seq(Messages) /\ Len(thread') = Len(thread) + 1 /\ thread' # <<>>
      /\ \A i \in 1..Len(thread) : thread'[i] = thread[i]
      /\ thread'[Len(thread) + 1] = x
  BY <1>1, <1>2
<1>4. LastIsAdmin' <=> side = "admin"
  BY <1>1, <1>3 DEF LastIsAdmin
<1> QED BY <1>1, <1>3, <1>4

LEMMA IssuesInitInv == IssuesInit => IssueTypes /\ SeenInv /\ TurnInv
<1> SUFFICES ASSUME IssuesInit
             PROVE  IssueTypes /\ SeenInv /\ TurnInv
  OBVIOUS
<1>1. IssueTypes
  <2>1. \A d \in Desks : desk[d] = NoRequest
    BY DEF IssuesInit
  <2>2. NoRequest \in RequestRecords /\ NoRequest.pc = "idle" /\ NoRequest.marked = {}
    BY DEF NoRequest, RequestRecords
  <2>3. thread = <<>> /\ report \in Statuses \cup {"none"} /\ crossed \in BOOLEAN
    BY DEF IssuesInit
  <2>5. thread \in Seq(Messages)
    BY <2>3
  <2>4. desk \in [Desks -> RequestRecords]
    BY <2>2 DEF IssuesInit
  <2> QED BY <2>1, <2>2, <2>3, <2>4, <2>5 DEF IssueTypes
<1>2. SeenInv
  BY DEF IssuesInit, SeenInv
<1>3. TurnInv
  BY DEF IssuesInit, TurnInv, NoRequest, Writes, Turn, LastIsAdmin
<1> QED BY <1>1, <1>2, <1>3

\* Only the record of the request that steps changes.
LEMMA DeskMoves ==
    ASSUME IssueTypes, NEW d \in Desks, NEW t \in RequestRecords, desk' = [desk EXCEPT ![d] = t],
           report' \in Statuses \cup {"none"}, thread' \in Seq(Messages), crossed' \in BOOLEAN,
           t.pc = "idle" => t = NoRequest, t.pc = "first" => t.op = "submit",
           t.pc \in {"insert", "status"} => t.op = "reply", t.pc = "mark" \/ d \in UserDesk => t.marked = {}
    PROVE  IssueTypes' /\ desk'[d] = t /\ \A e \in Desks \ {d} : desk'[e] = desk[e]
BY DEF IssueTypes

LEMMA IssuesStep ==
    IssueTypes /\ SeenInv /\ TurnInv /\ [IssuesNext]_issueVars => IssueTypes' /\ SeenInv' /\ TurnInv'
<1> SUFFICES ASSUME IssueTypes, SeenInv, TurnInv, [IssuesNext]_issueVars
             PROVE  IssueTypes' /\ SeenInv' /\ TurnInv'
  OBVIOUS
<1>0. /\ report \in Statuses \cup {"none"} /\ thread \in Seq(Messages)
      /\ desk \in [Desks -> RequestRecords] /\ crossed \in BOOLEAN
      /\ \A d \in Desks : desk[d].pc = "idle" => desk[d] = NoRequest
      /\ NoRequest \in RequestRecords /\ NoRequest.pc = "idle" /\ NoRequest.op = "none" /\ NoRequest.marked = {}
      /\ UserDesk \subseteq Desks /\ AdminDesk \subseteq Desks /\ UserDesk \cap AdminDesk = {}
  BY IssuesAssumption DEF IssueTypes, NoRequest, RequestRecords, Desks
<1>1. UNCHANGED thread => (LastIsAdmin' <=> LastIsAdmin)
  BY DEF LastIsAdmin
<1>2. Len(thread) \in Nat /\ (thread = <<>> => ~LastIsAdmin)
  BY <1>0 DEF LastIsAdmin
\* A request is taken: it has marked nothing.
<1>3. ASSUME NEW d \in Desks, NEW op \in {"submit", "get", "reply"}, NEW pc \in {"first", "fetch", "insert", "mark"},
             Takes(d, op, pc), pc = "first" => op = "submit", pc = "insert" => op = "reply",
             UNCHANGED <<thread, shown, overlooked>>,
             report' \in Statuses \cup {"none"}, crossed' \in BOOLEAN
      PROVE  /\ IssueTypes' /\ SeenInv'
             /\ desk[d] = NoRequest /\ desk'[d].op = op /\ desk'[d].pc = pc
             /\ \A e \in Desks \ {d} : desk'[e] = desk[e]
  <2> DEFINE t == [NoRequest EXCEPT !.pc = pc, !.op = op]
  <2>1. /\ t \in RequestRecords /\ t.pc = pc /\ t.op = op /\ t.marked = {}
    BY <1>0 DEF NoRequest, RequestRecords
  <2>2. desk' = [desk EXCEPT ![d] = t] /\ desk[d] = NoRequest
    BY <1>0, <1>3 DEF Takes, Handling
  <2> HIDE DEF t
  <2>3. IssueTypes' /\ desk'[d] = t /\ \A e \in Desks \ {d} : desk'[e] = desk[e]
    BY <1>0, <1>3, <2>1, <2>2, DeskMoves
  <2>4. \A e \in Desks, i \in Nat : i \in desk[e].marked => i \in desk'[e].marked
    BY <1>0, <2>2, <2>3
  <2>5. SeenInv'
    BY <1>2, <1>3, <2>4 DEF SeenInv
  <2> QED BY <2>1, <2>2, <2>3, <2>5
\* ... and a reply is crossed if another request writes.
<1>4. ASSUME NEW d \in Desks, NEW op \in {"get", "reply"}, NEW pc \in {"fetch", "insert", "mark"},
             Takes(d, op, pc), pc = "insert" => op = "reply", report # "none",
             UNCHANGED <<report, thread, shown, overlooked>>,
             IF op = "reply" THEN crossed' = (crossed \/ Overlapping(d)) ELSE UNCHANGED crossed
      PROVE  IssueTypes' /\ SeenInv' /\ TurnInv'
  <2>1. crossed' \in BOOLEAN
    BY <1>0, <1>4
  <2>2. /\ IssueTypes' /\ SeenInv'
        /\ desk[d] = NoRequest /\ desk'[d].op = op /\ desk'[d].pc = pc
        /\ \A e \in Desks \ {d} : desk'[e] = desk[e]
    BY <1>0, <1>3, <1>4, <2>1
  <2>3. ~crossed' => ~crossed /\ \A e \in Desks \ {d} : op = "reply" => ~Writes(e)
    BY <1>0, <1>4 DEF Overlapping, Writes
  <2>4. ~crossed' => \A e, f \in Desks : Writes(e)' /\ Writes(f)' => e = f
    BY <2>2, <2>3 DEF TurnInv, Writes
  <2>5. \A e \in Desks : /\ desk'[e].pc = "first" => desk[e].pc = "first"
                         /\ desk'[e].pc = "status" <=> desk[e].pc = "status"
    BY <1>0, <2>2
  <2>6. Turn' <=> Turn
    BY <1>1, <1>4 DEF Turn
  <2>7. TurnInv'
    BY <1>1, <1>4, <2>3, <2>4, <2>5, <2>6 DEF TurnInv
  <2> QED BY <2>2, <2>7
\* A request ends, with what it marked in sight.
<1>5. ASSUME NEW d \in Desks, Answered(d)
      PROVE  /\ desk' = [desk EXCEPT ![d] = NoRequest] /\ desk'[d] = NoRequest
             /\ \A e \in Desks \ {d} : desk'[e] = desk[e]
             /\ (report' \in Statuses \cup {"none"} /\ thread' \in Seq(Messages) /\ crossed' \in BOOLEAN) => IssueTypes'
  BY <1>0, <1>5, DeskMoves DEF Answered
<1>6. ASSUME NEW d \in Desks, Answered(d), UNCHANGED <<report, thread, crossed>>,
             shown \subseteq shown', overlooked \subseteq overlooked',
             \A i \in 1..Len(thread) : i \in desk[d].marked => i \in shown' \cup overlooked',
             desk[d].pc # "status", report # "none"
      PROVE  IssueTypes' /\ SeenInv' /\ TurnInv'
  <2>1. IssueTypes'
    BY <1>0, <1>5, <1>6
  <2>2. SeenInv'
    BY <1>2, <1>5, <1>6 DEF SeenInv
  <2>3. \A e \in Desks : /\ desk'[e].pc = "first" => desk[e].pc = "first"
                         /\ desk'[e].pc = "status" <=> desk[e].pc = "status"
                         /\ Writes(e)' => Writes(e)
    BY <1>0, <1>5, <1>6 DEF Writes
  <2>4. TurnInv'
    BY <1>1, <1>6, <2>3 DEF TurnInv, Turn
  <2> QED BY <2>1, <2>2, <2>4
\* A message that arrives is not marked.
<1>7. ASSUME NEW side \in {"admin", "user"}, InsertMessage(side), shown \subseteq shown', overlooked \subseteq overlooked',
             \A e \in Desks : desk[e].marked \subseteq desk'[e].marked
      PROVE  SeenInv'
  <2>1. /\ Len(thread') = Len(thread) + 1
        /\ \A i \in 1..Len(thread) : thread'[i] = thread[i]
        /\ thread'[Len(thread) + 1].from = side /\ thread'[Len(thread) + 1].readByAdmin = (side = "admin")
    BY <1>7, InsertsOne
  <2>2. \A i \in 1..Len(thread') : i \in 1..Len(thread) \/ i = Len(thread) + 1
    BY <1>2, <2>1
  <2> QED BY <1>7, <2>1, <2>2 DEF SeenInv
<1>8. ASSUME NEW d \in Desks, report = "none"
      PROVE  desk[d].pc = "idle" /\ thread = <<>> /\ ~Writes(d)
  BY <1>0, <1>8 DEF TurnInv, Writes
<1>9. ASSUME NEW d \in Desks, SubmitIssueReport(d)
      PROVE  IssueTypes' /\ SeenInv' /\ TurnInv'
  <2>1. report = "none" /\ report' = "open" /\ UNCHANGED <<thread, crossed, shown, overlooked>>
    BY <1>9 DEF SubmitIssueReport
  <2>2. Takes(d, "submit", "first")
    BY <1>9 DEF SubmitIssueReport
  <2>3. /\ IssueTypes' /\ SeenInv'
        /\ desk'[d].op = "submit" /\ desk'[d].pc = "first"
        /\ \A e \in Desks \ {d} : desk'[e] = desk[e]
    BY <1>0, <1>3, <2>1, <2>2 DEF Statuses
  <2>4. \A e, f \in Desks : Writes(e)' /\ Writes(f)' => e = f
    BY <1>8, <2>1, <2>3 DEF Writes
  <2>5. \A e \in Desks : desk'[e].pc # "status"
    BY <1>8, <2>1, <2>3
  <2>6. Turn'
    BY <1>1, <1>2, <1>8, <1>9, <2>1 DEF Turn
  <2>7. TurnInv'
    BY <2>1, <2>4, <2>5, <2>6 DEF TurnInv
  <2> QED BY <2>3, <2>7
<1>10. ASSUME NEW d \in UserDesk, InsertFirstMessage(d)
       PROVE  IssueTypes' /\ SeenInv' /\ TurnInv'
  <2>1. desk[d].pc = "first" /\ Answered(d) /\ UNCHANGED <<report, shown, crossed>> /\ d \in Desks /\ report # "none"
    BY <1>0, <1>8, <1>10 DEF InsertFirstMessage, Handling
  <2>2. desk[d].marked = {} /\ desk[d].op = "submit"
    BY <1>0, <2>1 DEF IssueTypes
  <2>3. CASE UNCHANGED thread /\ overlooked' = overlooked \cup {0}
    BY <1>6, <2>1, <2>2, <2>3
  <2>4. CASE InsertMessage("user") /\ UNCHANGED overlooked
    <3>1. thread' \in Seq(Messages) /\ ~LastIsAdmin'
      BY <2>4, InsertsOne
    <3>2. IssueTypes'
      BY <1>0, <1>5, <2>1, <3>1
    <3>3. SeenInv'
      BY <1>0, <1>5, <1>7, <2>1, <2>2, <2>4
    <3>4. \A e \in Desks : /\ desk'[e].pc = "first" => desk[e].pc = "first"
                           /\ desk'[e].pc = "status" => desk[e].pc = "status" /\ e # d
                           /\ Writes(e)' => Writes(e)
      BY <1>0, <1>5, <2>1 DEF Writes
    <3>5. ~crossed => \A e \in Desks : desk[e].pc = "status" => e = d
      BY <2>1, <2>2 DEF TurnInv, IssueTypes, Writes
    <3>6. ~crossed => report = "open"
      BY <2>1 DEF TurnInv
    <3>7. ~crossed => Turn'
      BY <2>1, <3>1, <3>6 DEF Turn
    <3>8. TurnInv'
      BY <2>1, <3>4, <3>5, <3>7 DEF TurnInv
    <3> QED BY <3>2, <3>3, <3>8
  <2> QED BY <1>10, <2>3, <2>4 DEF InsertFirstMessage
<1>11. ASSUME NEW d \in UserDesk, UserFetches(d)
       PROVE  IssueTypes' /\ SeenInv' /\ TurnInv'
  <2>1. Answered(d) /\ desk[d].pc = "fetch" /\ UNCHANGED <<report, thread, shown, overlooked, crossed>> /\ d \in Desks
        /\ report # "none"
    BY <1>0, <1>8, <1>11 DEF UserFetches, Handling
  <2>2. desk[d].marked = {}
    BY <1>0 DEF IssueTypes
  <2> QED BY <1>6, <2>1, <2>2
\* A mark of either side: the texts stay, and what the admins' mark covers is recorded.
<1>12. ASSUME NEW side \in {"admin", "user"}, MarkRead(side, UnreadBy(side)), UNCHANGED <<report, crossed>>,
              shown \subseteq shown', overlooked \subseteq overlooked', IssueTypes',
              \A e \in Desks : desk[e].marked \subseteq desk'[e].marked,
              side = "admin" => \A i \in UnreadBy("admin") : i \in shown' \cup overlooked'
                                                             \/ \E e \in Desks : i \in desk'[e].marked,
              \A e \in Desks : /\ desk'[e].op = desk[e].op
                               /\ desk'[e].pc = "first" <=> desk[e].pc = "first"
                               /\ desk'[e].pc = "status" <=> desk[e].pc = "status",
              report # "none"
       PROVE  SeenInv' /\ TurnInv'
  <2>1. /\ Len(thread') = Len(thread)
        /\ \A i \in 1..Len(thread) : thread'[i].from = thread[i].from
        /\ \A i \in 1..Len(thread) : thread'[i].readByAdmin =>
             thread[i].readByAdmin \/ (side = "admin" /\ i \in UnreadBy("admin"))
        /\ LastIsAdmin' <=> LastIsAdmin
    BY <1>12, MarksOnly
  <2>2. SeenInv'
    BY <1>12, <2>1 DEF SeenInv
  <2>3. \A e \in Desks : Writes(e)' <=> Writes(e)
    BY <1>12 DEF Writes
  <2>4. TurnInv'
    BY <1>12, <2>1, <2>3 DEF TurnInv, Turn
  <2> QED BY <2>2, <2>4
<1>13. ASSUME UNCHANGED <<report, thread, desk, crossed, shown, overlooked>>
       PROVE  IssueTypes' /\ SeenInv' /\ TurnInv'
  BY <1>1, <1>13 DEF IssueTypes, SeenInv, TurnInv, Turn, Writes
<1>14. ASSUME NEW d \in UserDesk, UserMarksRead(d)
       PROVE  IssueTypes' /\ SeenInv' /\ TurnInv'
  <2>1. UNCHANGED <<report, desk, shown, overlooked, crossed>> /\ report # "none"
    BY <1>14 DEF UserMarksRead
  <2>2. CASE UNCHANGED thread
    BY <1>13, <2>1, <2>2
  <2>3. CASE MarkRead("user", UnreadBy("user"))
    <3>1. thread' \in Seq(Messages)
      BY <2>3, MarksOnly
    <3>2. IssueTypes'
      BY <2>1, <3>1 DEF IssueTypes
    <3> QED BY <1>12, <2>1, <2>3, <3>2
  <2> QED BY <1>14, <2>2, <2>3 DEF UserMarksRead
<1>15. ASSUME NEW d \in AdminDesk, AdminMarksRead(d)
       PROVE  IssueTypes' /\ SeenInv' /\ TurnInv'
  <2>1. UNCHANGED <<report, desk, shown, crossed>> /\ report # "none" /\ MarkRead("admin", UnreadBy("admin"))
        /\ overlooked' = overlooked \cup (UnreadBy("admin") \ shown)
    BY <1>15 DEF AdminMarksRead
  <2>2. thread' \in Seq(Messages)
    BY <2>1, MarksOnly
  <2>3. IssueTypes'
    BY <2>1, <2>2 DEF IssueTypes
  <2> QED BY <1>12, <2>1, <2>3
<1>16. ASSUME NEW d \in AdminDesk, AdminMarks(d)
       PROVE  IssueTypes' /\ SeenInv' /\ TurnInv'
  <2> DEFINE pc == IF desk[d].op = "reply" THEN "insert" ELSE "fetch"
  <2>1. /\ UNCHANGED <<report, shown, overlooked, crossed>> /\ d \in Desks /\ d \notin UserDesk /\ report # "none"
        /\ desk[d].pc = "mark" /\ desk[d] \in RequestRecords /\ desk[d].marked = {}
    BY <1>0, <1>8, <1>16 DEF AdminMarks, Handling, IssueTypes
  <2>2. UnreadBy("admin") \subseteq Nat
    BY DEF UnreadBy
  <2>3. CASE /\ MarkRead("admin", UnreadBy("admin"))
             /\ desk' = [desk EXCEPT ![d].pc = pc, ![d].marked = UnreadBy("admin")]
    <3> DEFINE t == [desk[d] EXCEPT !.pc = pc, !.marked = UnreadBy("admin")]
    <3>1. /\ t \in RequestRecords /\ t.op = desk[d].op /\ t.marked = UnreadBy("admin")
          /\ t.pc \in {"insert", "fetch"} /\ (t.pc = "insert" => t.op = "reply")
      BY <2>1, <2>2 DEF RequestRecords
    <3>2. desk' = [desk EXCEPT ![d] = t]
      BY <1>0, <2>1, <2>3
    <3>3. thread' \in Seq(Messages)
      BY <2>3, MarksOnly
    <3> HIDE DEF t
    <3>4. IssueTypes' /\ desk'[d] = t /\ \A e \in Desks \ {d} : desk'[e] = desk[e]
      BY <1>0, <2>1, <3>1, <3>2, <3>3, DeskMoves
    <3>5. \A e \in Desks : /\ desk'[e].op = desk[e].op
                           /\ desk'[e].pc = "first" <=> desk[e].pc = "first"
                           /\ desk'[e].pc = "status" <=> desk[e].pc = "status"
                           /\ desk[e].marked \subseteq desk'[e].marked
      BY <2>1, <3>1, <3>4
    <3>6. \A i \in UnreadBy("admin") : i \in desk'[d].marked
      BY <3>1, <3>4
    <3> QED BY <1>12, <2>1, <2>3, <3>4, <3>5, <3>6
  <2>4. CASE UNCHANGED thread /\ DeskTo(d, pc)
    <3> DEFINE t == [desk[d] EXCEPT !.pc = pc]
    <3>1. /\ t \in RequestRecords /\ t.op = desk[d].op /\ t.marked = {}
          /\ t.pc \in {"insert", "fetch"} /\ (t.pc = "insert" => t.op = "reply")
      BY <2>1 DEF RequestRecords
    <3>2. desk' = [desk EXCEPT ![d] = t]
      BY <1>0, <2>1, <2>4 DEF DeskTo
    <3> HIDE DEF t
    <3>3. IssueTypes' /\ desk'[d] = t /\ \A e \in Desks \ {d} : desk'[e] = desk[e]
      BY <1>0, <2>1, <2>4, <3>1, <3>2, DeskMoves
    <3>4. \A e \in Desks : /\ Writes(e)' <=> Writes(e)
                           /\ desk'[e].pc = "first" <=> desk[e].pc = "first"
                           /\ desk'[e].pc = "status" <=> desk[e].pc = "status"
                           /\ desk[e].marked \subseteq desk'[e].marked
      BY <2>1, <3>1, <3>3 DEF Writes
    <3>5. SeenInv'
      BY <2>1, <2>4, <3>4 DEF SeenInv
    <3>6. TurnInv'
      BY <1>1, <2>1, <2>4, <3>4 DEF TurnInv, Turn
    <3> QED BY <3>3, <3>5, <3>6
  <2> QED BY <1>16, <2>3, <2>4 DEF AdminMarks
<1>17. ASSUME NEW d \in AdminDesk, AdminFetches(d)
       PROVE  IssueTypes' /\ SeenInv' /\ TurnInv'
  <2>1. Answered(d) /\ desk[d].pc = "fetch" /\ UNCHANGED <<report, thread, crossed>> /\ d \in Desks /\ report # "none"
    BY <1>0, <1>8, <1>17 DEF AdminFetches, Handling
  <2>2. \A i \in 1..Len(thread) : i \in FetchIssueMessages
    BY <1>0 DEF FetchIssueMessages
  <2>3. /\ shown \subseteq shown' /\ overlooked \subseteq overlooked'
        /\ \A i \in 1..Len(thread) : i \in desk[d].marked => i \in shown' \cup overlooked'
    BY <1>17, <2>2 DEF AdminFetches
  <2> QED BY <1>6, <2>1, <2>3
\* A reply: the writer's message, or none.
<1>18. ASSUME NEW d \in Desks, NEW side \in {"admin", "user"}, InsertReply(d, side),
              side = "admin" <=> d \in AdminDesk
       PROVE  IssueTypes' /\ SeenInv' /\ TurnInv'
  <2>1. /\ desk[d].pc = "insert" /\ UNCHANGED <<report, shown, crossed>> /\ report # "none"
        /\ desk[d].op = "reply" /\ desk[d] \in RequestRecords
        /\ d \in UserDesk => desk[d].marked = {}
    BY <1>0, <1>8, <1>18 DEF InsertReply, Handling, IssueTypes
  <2>2. CASE Answered(d) /\ UNCHANGED thread /\ overlooked' = overlooked \cup (desk[d].marked \ shown)
    BY <1>6, <2>1, <2>2
  <2>3. CASE InsertMessage(side) /\ DeskTo(d, "status") /\ UNCHANGED overlooked
    <3> DEFINE t == [desk[d] EXCEPT !.pc = "status"]
    <3>1. t \in RequestRecords /\ t.op = "reply" /\ t.marked = desk[d].marked /\ t.pc = "status"
      BY <2>1 DEF RequestRecords
    <3>2. desk' = [desk EXCEPT ![d] = t]
      BY <1>0, <2>1, <2>3 DEF DeskTo
    <3>3. thread' \in Seq(Messages) /\ (LastIsAdmin' <=> side = "admin")
      BY <2>3, InsertsOne
    <3> HIDE DEF t
    <3>4. IssueTypes' /\ desk'[d] = t /\ \A e \in Desks \ {d} : desk'[e] = desk[e]
      BY <1>0, <2>1, <3>1, <3>2, <3>3, DeskMoves
    <3>5. \A e \in Desks : desk[e].marked \subseteq desk'[e].marked
      BY <3>1, <3>4
    <3>6. SeenInv'
      BY <1>7, <2>1, <2>3, <3>5
    <3>7. \A e \in Desks : /\ Writes(e)' <=> Writes(e)
                           /\ desk'[e].pc = "first" => desk[e].pc = "first"
                           /\ desk'[e].pc = "status" => desk[e].pc = "status" \/ e = d
      BY <2>1, <3>1, <3>4 DEF Writes
    <3>8. ~crossed => \A e \in Desks : desk[e].pc = "status" => e = d
      BY <2>1 DEF TurnInv, IssueTypes, Writes
    <3>9. desk'[d].pc = "status"
      BY <3>1, <3>4
    <3>10. TurnInv'
      BY <1>18, <2>1, <3>3, <3>7, <3>8, <3>9 DEF TurnInv
    <3> QED BY <3>4, <3>6, <3>10
  <2> QED BY <1>18, <2>2, <2>3 DEF InsertReply
<1>19. ASSUME NEW d \in Desks, NEW status \in {"waiting_user", "waiting_admin"}, WriteStatus(d, status),
              status = "waiting_user" <=> d \in AdminDesk
       PROVE  IssueTypes' /\ SeenInv' /\ TurnInv'
  <2>1. /\ desk[d].pc = "status" /\ UNCHANGED <<thread, shown, overlooked>> /\ report # "none"
        /\ desk[d].op = "reply" /\ desk[d] \in RequestRecords
        /\ d \in UserDesk => desk[d].marked = {}
    BY <1>0, <1>8, <1>19 DEF WriteStatus, Handling, IssueTypes
  <2> DEFINE t == [desk[d] EXCEPT !.pc = "fetch"]
  <2>2. t \in RequestRecords /\ t.op = "reply" /\ t.marked = desk[d].marked /\ t.pc = "fetch"
    BY <2>1 DEF RequestRecords
  <2>3. desk' = [desk EXCEPT ![d] = t]
    BY <1>0, <1>19, <2>1 DEF DeskTo, WriteStatus
  <2>4. \/ report' = status /\ UNCHANGED crossed
        \/ crossed' = TRUE /\ UNCHANGED report
    BY <1>19 DEF WriteStatus
  <2>5. report' \in Statuses /\ crossed' \in BOOLEAN
    BY <1>0, <2>1, <2>4 DEF Statuses
  <2> HIDE DEF t
  <2>6. IssueTypes' /\ desk'[d] = t /\ \A e \in Desks \ {d} : desk'[e] = desk[e]
    BY <1>0, <2>1, <2>2, <2>3, <2>5, DeskMoves
  <2>7. SeenInv'
    <3>1. \A e \in Desks : desk[e].marked = desk'[e].marked
      BY <2>2, <2>6
    <3> QED BY <2>1, <3>1 DEF SeenInv
  <2>8. CASE crossed'
    BY <2>5, <2>6, <2>7, <2>8 DEF TurnInv, Statuses
  <2>9. CASE ~crossed' /\ report' = status /\ UNCHANGED crossed
    <3>1. \A e \in Desks : /\ Writes(e)' <=> Writes(e)
                           /\ desk'[e].pc = "first" => desk[e].pc = "first"
                           /\ desk'[e].pc = "status" => desk[e].pc = "status" /\ e # d
      BY <2>1, <2>2, <2>6 DEF Writes
    <3>2. \A e \in Desks : desk[e].pc \in {"status", "first"} => e = d
      BY <2>1, <2>9 DEF TurnInv, IssueTypes, Writes
    <3>3. LastIsAdmin' <=> d \in AdminDesk
      BY <1>1, <2>1, <2>9 DEF TurnInv
    <3>4. Turn'
      BY <1>19, <2>9, <3>3 DEF Turn
    <3>5. \A e \in Desks : desk'[e].pc # "status" /\ desk'[e].pc # "first"
      BY <2>2, <2>6, <3>1, <3>2
    <3>6. TurnInv'
      BY <2>5, <2>9, <3>1, <3>4, <3>5 DEF TurnInv, Statuses
    <3> QED BY <2>6, <2>7, <3>6
  <2> QED BY <2>4, <2>8, <2>9
<1>20. ASSUME NEW d \in UserDesk, UserStep(d)
       PROVE  IssueTypes' /\ SeenInv' /\ TurnInv'
  <2>1. d \in Desks /\ d \notin AdminDesk
    BY <1>0
  <2>2. UserGetsIssue(d) \/ UserReplies(d) => IssueTypes' /\ SeenInv' /\ TurnInv'
    BY <1>4, <2>1 DEF UserGetsIssue, UserReplies
  <2>3. UserReplyIsStored(d) \/ UserReplySetsStatus(d) => IssueTypes' /\ SeenInv' /\ TurnInv'
    BY <1>18, <1>19, <2>1 DEF UserReplyIsStored, UserReplySetsStatus
  <2> QED BY <1>9, <1>10, <1>11, <1>14, <1>20, <2>1, <2>2, <2>3 DEF UserStep
<1>21. ASSUME NEW d \in AdminDesk, AdminStep(d)
       PROVE  IssueTypes' /\ SeenInv' /\ TurnInv'
  <2>1. d \in Desks
    BY <1>0
  <2>2. AdminGetsIssue(d) \/ AdminReplies(d) => IssueTypes' /\ SeenInv' /\ TurnInv'
    BY <1>4, <2>1 DEF AdminGetsIssue, AdminReplies
  <2>3. AdminReplyIsStored(d) \/ AdminReplySetsStatus(d) => IssueTypes' /\ SeenInv' /\ TurnInv'
    BY <1>18, <1>19, <2>1 DEF AdminReplyIsStored, AdminReplySetsStatus
  <2> QED BY <1>15, <1>16, <1>17, <1>21, <2>2, <2>3 DEF AdminStep
<1>22. CASE UNCHANGED issueVars
  BY <1>13, <1>22 DEF issueVars
<1> QED BY <1>20, <1>21, <1>22 DEF IssuesNext

\* get_issue and reply_to_issue of the admins mark before they fetch: what the user wrote
\* and no admin was shown is in the unread count, or an admin is just being shown it.
THEOREM MessagesAreSeen == IssuesSpec => []NoMessageIsOverlooked
<1>1. IssueTypes /\ SeenInv => NoMessageIsOverlooked
  <2> SUFFICES ASSUME IssueTypes, SeenInv
               PROVE  NoMessageIsOverlooked
    OBVIOUS
  <2> DEFINE Unseen == {i \in 1..Len(thread) : thread[i].from = "user"} \ (shown \cup overlooked)
             OnTheWay == UNION {desk[d].marked : d \in AdminDesk}
  <2>1. \A d \in Desks : d \in AdminDesk \/ desk[d].marked = {}
    BY DEF IssueTypes, Desks
  <2>2. Unseen \ OnTheWay \subseteq UnreadBy("admin")
    BY <2>1 DEF SeenInv, UnreadBy
  <2>3. IsFiniteSet(1..Len(thread)) /\ UnreadBy("admin") \subseteq 1..Len(thread)
    BY FS_Interval DEF IssueTypes, UnreadBy
  <2>4. IsFiniteSet(UnreadBy("admin"))
    BY <2>3, FS_Subset
  <2> HIDE DEF Unseen, OnTheWay
  <2>5. Cardinality(Unseen \ OnTheWay) <= Cardinality(UnreadBy("admin"))
    BY <2>2, <2>4, FS_Subset
  <2> QED BY <2>5 DEF NoMessageIsOverlooked, ListIssues, FetchIssuesForWorkspace, Unseen, OnTheWay
<1> QED BY <1>1, IssuesInitInv, IssuesStep, PTL DEF IssuesSpec

\* Message and status of a reply are two statements: while nobody is between them the status
\* names the side that did not write the last message.
THEOREM StatusesTellWhoIsNext == IssuesSpec => []StatusTellsWhoIsNext
<1>1. IssueTypes /\ TurnInv => StatusTellsWhoIsNext
  <2> SUFFICES ASSUME IssueTypes, TurnInv, ~crossed,
                      \A d \in Desks : desk[d].op # "reply" \/ desk[d].pc \in {"mark", "fetch"}
               PROVE  ListUserIssues.status = "waiting_user" <=> ListUserIssues.lastSender = "admin"
    BY DEF StatusTellsWhoIsNext
  <2>1. \A d \in Desks : desk[d].pc # "status"
    BY DEF IssueTypes
  <2>2. Turn
    BY <2>1 DEF TurnInv
  <2> QED BY <2>2 DEF Turn, LastIsAdmin, ListUserIssues
<1> QED BY <1>1, IssuesInitInv, IssuesStep, PTL DEF IssuesSpec

-----------------------------------------------------------------------------
(* The routes that only read.  Every script of queries demands, in some query *)
(* of its own, each group of rights its items are guarded by, and a request   *)
(* remembers the rights of every moment it lives through.                     *)

Words == {"member", "paid", "admin", "owner", "invited", "reader", "holder", "staff", "connections", "workspace",
          "members", "invitations", "secrets", "usage", "team", "flows", "runs", "pending", "summary", "console", "own"}
Spots == Places \cup {NoPlace}
Queries == {q \in [needs: SUBSET (Words \X Spots), draws: SUBSET (Words \X Spots), firm: BOOLEAN] :
              q.firm \/ q.needs = {}}

\* What a script may show, and a set of rights it demands at once.
Shows(s, D) == s \in Seq(Queries) /\ \A k \in 1..Len(s) : s[k].draws \subseteq D
Demands(s, n) == \E k \in 1..Len(s) : n \subseteq s[k].needs

Guards(s) ==
    /\ s \in Seq(Queries)
    /\ \A k \in 1..Len(s) : \A i \in s[k].draws : \A group \in Guarded[i[1]] : Demands(s, Names(group, i[2]))

LEMMA OneQuery ==
    ASSUME NEW n \in SUBSET (Words \X Spots), NEW d \in SUBSET (Words \X Spots), NEW D, d \subseteq D
    PROVE  Shows(Query(n, d), D) /\ Demands(Query(n, d), n) /\ Shows(InPassing(d), D)
<1> DEFINE q == [needs |-> n, draws |-> d, firm |-> TRUE]
           p == [needs |-> {}, draws |-> d, firm |-> FALSE]
<1>1. q \in Queries /\ q.draws = d /\ q.needs = n /\ p \in Queries /\ p.draws = d
  BY DEF Queries
<1> HIDE DEF q, p
<1>2. Shows(<<q>>, D) /\ Demands(<<q>>, n) /\ Shows(<<p>>, D)
  BY <1>1 DEF Shows, Demands
<1> QED BY <1>2 DEF Query, InPassing, q, p

LEMMA Joined ==
    \A D, s, t : Shows(s, D) /\ Shows(t, D) =>
      Shows(s \o t, D) /\ \A n : Demands(s, n) \/ Demands(t, n) => Demands(s \o t, n)
<1> SUFFICES ASSUME NEW D, NEW s, NEW t, Shows(s, D), Shows(t, D)
             PROVE  Shows(s \o t, D) /\ \A n : Demands(s, n) \/ Demands(t, n) => Demands(s \o t, n)
  OBVIOUS
<1>1. /\ s \in Seq(Queries) /\ t \in Seq(Queries)
      /\ s \o t \in Seq(Queries) /\ Len(s \o t) = Len(s) + Len(t) /\ Len(s) \in Nat /\ Len(t) \in Nat
  BY DEF Shows
<1>2. \A k \in 1..Len(s) : (s \o t)[k] = s[k] /\ k \in 1..Len(s \o t)
  BY <1>1
<1>3. \A k \in 1..Len(t) : (s \o t)[k + Len(s)] = t[k] /\ k + Len(s) \in 1..Len(s \o t)
  BY <1>1
<1>4. ASSUME NEW k \in 1..Len(s \o t)
      PROVE  k \in 1..Len(s) \/ (k - Len(s) \in 1..Len(t) /\ (s \o t)[k] = t[k - Len(s)])
  BY <1>1
<1>5. Shows(s \o t, D)
  BY <1>1, <1>2, <1>4 DEF Shows
<1>6. \A n : Demands(s, n) \/ Demands(t, n) => Demands(s \o t, n)
  BY <1>2, <1>3 DEF Demands
<1> QED BY <1>5, <1>6

\* A script that demands two sets of rights guards what each of its items needs.
LEMMA GuardsBy ==
    ASSUME NEW s, NEW D, NEW n, NEW m, Shows(s, D), Demands(s, n), Demands(s, m),
           \A i \in D : \A group \in Guarded[i[1]] : Names(group, i[2]) \subseteq n \/ Names(group, i[2]) \subseteq m
    PROVE  Guards(s)
BY DEF Guards, Shows, Demands

LEMMA ScriptsGuard == ASSUME NEW w \in Places PROVE \A s \in ScriptsAt(w) : Guards(s)
<1> DEFINE own == <<"own", NoPlace>>
           R == SUBSET (Words \X Spots)
<1>0. \A n \in R, d \in R : \A D : d \subseteq D =>
        Shows(Query(n, d), D) /\ Demands(Query(n, d), n) /\ Shows(InPassing(d), D)
  BY OneQuery
<1>1. ASSUME NEW name \in Words, NEW v \in Spots
      PROVE  {<<name, v>>} \in R
  <2>1. <<name, v>> \in Words \X Spots
    OBVIOUS
  <2> QED BY <2>1
<1>2. w \in Spots /\ NoPlace \in Spots /\ {} \in R
      /\ "member" \in Words /\ "paid" \in Words /\ "admin" \in Words /\ "owner" \in Words /\ "invited" \in Words
      /\ "reader" \in Words /\ "holder" \in Words /\ "staff" \in Words /\ "connections" \in Words
      /\ "workspace" \in Words /\ "members" \in Words /\ "invitations" \in Words /\ "secrets" \in Words
      /\ "usage" \in Words /\ "team" \in Words /\ "runs" \in Words /\ "pending" \in Words
      /\ "summary" \in Words /\ "console" \in Words /\ "own" \in Words
  BY DEF Spots, Words
<1>3. \A D : Shows(Query({<<"member", w>>, <<"paid", w>>}, {}), D)
             /\ Demands(Query({<<"member", w>>, <<"paid", w>>}, {}), {<<"member", w>>, <<"paid", w>>})
  <2>1. {<<"member", w>>, <<"paid", w>>} \in R
    <3>1. <<"member", w>> \in Words \X Spots /\ <<"paid", w>> \in Words \X Spots
      BY <1>2
    <3> QED BY <3>1
  <2> QED BY <1>0, <1>2, <2>1
<1>4. \A name \in Words, v \in Spots : \A D : Shows(Ask(name, v), D) /\ Demands(Ask(name, v), {<<name, v>>})
  BY <1>0, <1>1, <1>2 DEF Ask
<1>5. \A name \in Words, v \in Spots : \A D : <<name, v>> \in D => Shows(Show(name, v), D)
  BY <1>0, <1>1, <1>2 DEF Show
<1>6. \A D : own \in D => Shows(Own, D) /\ Shows(InPassing({own}), D)
  <2>1. \A D : own \in D => Shows(Own, D)
    BY <1>2, <1>5 DEF Own
  <2>2. {own} \in R
    BY <1>1, <1>2
  <2>3. \A D : own \in D => {own} \subseteq D
    OBVIOUS
  <2> QED BY <1>0, <1>2, <2>1, <2>2, <2>3
<1>7. Guarded["own"] = {} /\ Guarded["connections"] = {{"member", "paid"}} /\ Guarded["workspace"] = {{"member"}}
      /\ Guarded["members"] = {{"member"}} /\ Guarded["invitations"] = {{"admin"}}
      /\ Guarded["secrets"] = {{"paid"}, {"admin"}} /\ Guarded["usage"] = {{"member"}, {"paid"}}
      /\ Guarded["team"] = {{"owner"}} /\ Guarded["runs"] = {{"reader"}} /\ Guarded["pending"] = {{"invited"}}
      /\ Guarded["summary"] = {{"holder"}} /\ Guarded["console"] = {{"staff"}}
  BY DEF Guarded
\* For each kind of script: what it may show, and the rights it demands.
<1>8. ASSUME NEW s \in {ListConnections(w), ListProviderConnections(w), GetConnectionById(w)}
      PROVE  Guards(s)
  <2> DEFINE D == {own, <<"connections", w>>}
             n == {<<"member", w>>, <<"paid", w>>}
             x == EnsureWorkspaceMembership(w)
             l == ListForWorkspace(w)
             u == ListForUserMemberships(w)
  <2>1. own \in D /\ <<"connections", w>> \in D
    OBVIOUS
  <2>2. Shows(u, D)
    <3>1. {<<"connections", w>>} \in R /\ {<<"member", w>>} \in R /\ {<<"connections", w>>} \subseteq D
      BY <1>1, <1>2
    <3> QED BY <1>0, <3>1 DEF ListForUserMemberships
  <2>3. \A i \in D : \A group \in Guarded[i[1]] : Names(group, i[2]) \subseteq n
    BY <1>7 DEF Names
  <2> HIDE DEF D
  <2>4. Shows(x, D) /\ Demands(x, n)
    BY <1>3 DEF EnsureWorkspaceMembership
  <2>5. Shows(Own, D) /\ Shows(l, D)
    BY <1>2, <1>5, <1>6, <2>1 DEF ListForWorkspace
  <2> HIDE DEF n, x, l, u
  <2>6. Shows(x \o Own, D) /\ Demands(x \o Own, n) /\ Shows(Own \o u, D)
    BY <2>2, <2>4, <2>5, Joined
  <2>7. Shows((x \o Own) \o l, D) /\ Demands((x \o Own) \o l, n)
    BY <2>5, <2>6, Joined
  <2>8. Shows((Own \o u) \o x, D) /\ Demands((Own \o u) \o x, n)
    BY <2>4, <2>6, Joined
  <2>9. s \in {(x \o Own) \o l, (Own \o u) \o x}
    BY <1>8 DEF ListConnections, ListProviderConnections, GetConnectionById, x, l, u
  <2>10. \A t : Shows(t, D) /\ Demands(t, n) => Guards(t)
    BY <2>3, GuardsBy
  <2> QED BY <2>7, <2>8, <2>9, <2>10
<1>9. ASSUME NEW s \in {ListUserWorkspaces(w), ListWorkspaceMembers(w), GetPlanOfWorkspace(w)}
      PROVE  Guards(s)
  <2> DEFINE D == {own, <<"workspace", w>>, <<"members", w>>}
             n == {<<"member", w>>}
             x == LoadMembership(w)
             l == ListMembers(w)
             v == Show("workspace", w)
             u == ListUserWorkspaces(w)
  <2>1. own \in D /\ <<"workspace", w>> \in D /\ <<"members", w>> \in D
    OBVIOUS
  <2>2. Shows(u, D) /\ Demands(u, n)
    <3>1. {<<"workspace", w>>} \in R /\ n \in R /\ {<<"workspace", w>>} \subseteq D
      BY <1>1, <1>2
    <3> QED BY <1>0, <3>1 DEF ListUserWorkspaces
  <2>3. \A i \in D : \A group \in Guarded[i[1]] : Names(group, i[2]) \subseteq n
    BY <1>7 DEF Names
  <2> HIDE DEF D
  <2>4. Shows(x, D) /\ Demands(x, n)
    BY <1>2, <1>4 DEF LoadMembership
  <2>5. Shows(Own, D) /\ Shows(l, D) /\ Shows(v, D)
    BY <1>2, <1>5, <1>6, <2>1 DEF ListMembers
  <2> HIDE DEF n, x, l, v, u
  <2>6. Shows(x \o l, D) /\ Demands(x \o l, n) /\ Shows(Own \o x, D) /\ Demands(Own \o x, n)
    BY <2>4, <2>5, Joined
  <2>7. Shows((Own \o x) \o v, D) /\ Demands((Own \o x) \o v, n)
    BY <2>5, <2>6, Joined
  <2>8. s \in {u, x \o l, (Own \o x) \o v}
    BY <1>9 DEF ListWorkspaceMembers, GetPlanOfWorkspace, x, l, v, u
  <2>9. \A t : Shows(t, D) /\ Demands(t, n) => Guards(t)
    BY <2>3, GuardsBy
  <2> QED BY <2>2, <2>6, <2>7, <2>8, <2>9
<1>10. Guards(ListPendingInvites(w))
  <2> DEFINE D == {own, <<"pending", w>>}
             n == {<<"invited", w>>}
             P == PendingInvitationsForEmail(w)
  <2>1. Shows(Own, D)
    BY <1>6
  <2>2. Shows(P, D) /\ Demands(P, n)
    <3>1. {<<"pending", w>>} \in R /\ n \in R /\ {<<"pending", w>>} \subseteq D
      BY <1>1, <1>2
    <3> QED BY <1>0, <3>1 DEF PendingInvitationsForEmail
  <2>3. \A i \in D : \A group \in Guarded[i[1]] : Names(group, i[2]) \subseteq n
    BY <1>7 DEF Names
  <2> HIDE DEF D, n, P
  <2>4. Shows(P \o Own, D) /\ Demands(P \o Own, n)
    BY <2>1, <2>2, Joined
  <2> QED BY <2>3, <2>4, GuardsBy DEF ListPendingInvites, P
<1>11. Guards(ListWorkspaceInvitations(w))
  <2> DEFINE D == {<<"invitations", w>>}
             n == {<<"admin", w>>}
  <2>1. Shows(EnsureWorkspaceAdmin(w), D) /\ Demands(EnsureWorkspaceAdmin(w), n) /\ Shows(InvitationsOf(w), D)
    BY <1>2, <1>4, <1>5 DEF EnsureWorkspaceAdmin, InvitationsOf
  <2>2. \A i \in D : \A group \in Guarded[i[1]] : Names(group, i[2]) \subseteq n
    BY <1>7 DEF Names
  <2> HIDE DEF D, n
  <2>3. Shows(ListWorkspaceInvitations(w), D) /\ Demands(ListWorkspaceInvitations(w), n)
    BY <2>1, Joined DEF ListWorkspaceInvitations
  <2> QED BY <2>2, <2>3, GuardsBy
<1>12. Guards(ListWorkspaceSecretOwnership(w))
  <2> DEFINE D == {own, <<"secrets", w>>}
             n == {<<"paid", w>>}
             m == {<<"admin", w>>}
             x == WorkspacePlan(w)
             y == EnsureWorkspaceAdmin(w)
             z == Show("secrets", w)
  <2>0. own \in D /\ <<"secrets", w>> \in D
    OBVIOUS
  <2>2. \A i \in D : \A group \in Guarded[i[1]] : Names(group, i[2]) \subseteq n \/ Names(group, i[2]) \subseteq m
    BY <1>7 DEF Names
  <2> HIDE DEF D
  <2>1. Shows(x, D) /\ Demands(x, n) /\ Shows(y, D) /\ Demands(y, m) /\ Shows(Own, D) /\ Shows(z, D)
    BY <1>2, <1>4, <1>5, <1>6, <2>0 DEF WorkspacePlan, EnsureWorkspaceAdmin
  <2> HIDE DEF n, m, x, y, z
  <2>3. Shows(x \o y, D) /\ Demands(x \o y, n) /\ Demands(x \o y, m)
    BY <2>1, Joined
  <2>4. Shows(x \o y \o Own, D) /\ Demands(x \o y \o Own, n) /\ Demands(x \o y \o Own, m)
    BY <2>1, <2>3, Joined
  <2>5. Shows(x \o y \o Own \o z, D) /\ Demands(x \o y \o Own \o z, n) /\ Demands(x \o y \o Own \o z, m)
    BY <2>1, <2>4, Joined
  <2> QED BY <2>2, <2>5, GuardsBy DEF ListWorkspaceSecretOwnership, x, y, z
<1>13. Guards(WorkspaceToSoloPreview(w))
  <2> DEFINE D == {<<"team", w>>}
             n == {<<"owner", w>>}
  <2>1. Shows(EnsureWorkspaceOwner(w), D) /\ Demands(EnsureWorkspaceOwner(w), n) /\ Shows(Show("team", w), D)
    BY <1>2, <1>4, <1>5 DEF EnsureWorkspaceOwner
  <2>2. \A i \in D : \A group \in Guarded[i[1]] : Names(group, i[2]) \subseteq n
    BY <1>7 DEF Names
  <2> HIDE DEF D, n
  <2>3. Shows(WorkspaceToSoloPreview(w), D) /\ Demands(WorkspaceToSoloPreview(w), n)
    BY <2>1, Joined DEF WorkspaceToSoloPreview
  <2> QED BY <2>2, <2>3, GuardsBy
\* The usage: membership and plan are queries of their own, before what they guard.
<1>14. Guards(GetPlanUsage(w))
  <2> DEFINE D == {own, <<"usage", w>>, <<"members", w>>}
             n == {<<"member", w>>}
             m == {<<"paid", w>>}
             x == LoadMembership(w)
             y == WorkspacePlan(w)
             z == Show("usage", w)
             l == ListMembers(w)
  <2>0. own \in D /\ <<"usage", w>> \in D /\ <<"members", w>> \in D
    OBVIOUS
  <2>2. \A i \in D : \A group \in Guarded[i[1]] : Names(group, i[2]) \subseteq n \/ Names(group, i[2]) \subseteq m
    BY <1>7 DEF Names
  <2> DEFINE s1 == Own \o x
             s2 == s1 \o y
             s3 == s2 \o z
             s4 == s3 \o z
             s5 == s4 \o z
             s6 == s5 \o l
             c == z \o z
  <2> HIDE DEF D
  <2>1. /\ Shows(x, D) /\ Demands(x, n) /\ Shows(y, D) /\ Demands(y, m) /\ Shows(Own, D) /\ Shows(z, D)
        /\ Shows(l, D)
    BY <1>2, <1>4, <1>5, <1>6, <2>0 DEF LoadMembership, WorkspacePlan, ListMembers
  <2> HIDE DEF n, m, x, y, z, l
  <2>3. Shows(s1, D) /\ Demands(s1, n)
    BY <2>1, Joined
  <2> HIDE DEF s1
  <2>4. Shows(s2, D) /\ Demands(s2, n) /\ Demands(s2, m)
    BY <2>1, <2>3, Joined
  <2> HIDE DEF s2
  <2>5. Shows(s3, D) /\ Demands(s3, n) /\ Demands(s3, m)
    BY <2>1, <2>4, Joined
  <2> HIDE DEF s3
  <2>6. Shows(s4, D) /\ Demands(s4, n) /\ Demands(s4, m)
    BY <2>1, <2>5, Joined
  <2> HIDE DEF s4
  <2>7. Shows(s5, D) /\ Demands(s5, n) /\ Demands(s5, m)
    BY <2>1, <2>6, Joined
  <2> HIDE DEF s5
  <2>8. Shows(s6, D) /\ Demands(s6, n) /\ Demands(s6, m)
    BY <2>1, <2>7, Joined
  <2>9. Shows(c, D)
    BY <2>1, Joined
  <2> HIDE DEF s6, c
  <2>10. Shows(s6 \o c, D) /\ Demands(s6 \o c, n) /\ Demands(s6 \o c, m)
    BY <2>8, <2>9, Joined
  <2>11. GetPlanUsage(w) = s6 \o c
    BY DEF GetPlanUsage, BillingCycle, RunQuota, MemberRunCounts, CountSeats, s1, s2, s3, s4, s5, s6, c, x, y, z, l
  <2> QED BY <2>2, <2>10, <2>11, GuardsBy
\* The items of no workspace: those of a workflow, of a deletion, of the console.
<1>15. ASSUME NEW item \in Words, NEW right \in Words, Guarded[item] = {{right}}
       PROVE  LET D == {own, <<item, NoPlace>>}
                  n == {<<right, NoPlace>>}
              IN  /\ \A s : Shows(s, D) /\ Demands(s, n) => Guards(s)
                  /\ Shows(Ask(right, NoPlace), D) /\ Demands(Ask(right, NoPlace), n)
                  /\ Shows(Show(item, NoPlace), D) /\ Shows(Own, D) /\ Shows(InPassing({<<item, NoPlace>>}), D)
                  /\ Shows(Query({<<right, NoPlace>>}, {<<item, NoPlace>>}), D)
                  /\ Demands(Query({<<right, NoPlace>>}, {<<item, NoPlace>>}), n)
  <2> DEFINE D == {own, <<item, NoPlace>>}
             n == {<<right, NoPlace>>}
  <2>1. \A i \in D : \A group \in Guarded[i[1]] : Names(group, i[2]) \subseteq n
    BY <1>7, <1>15 DEF Names
  <2>2. {<<item, NoPlace>>} \in R /\ n \in R /\ {<<item, NoPlace>>} \subseteq D
    BY <1>1, <1>2
  <2>3. Shows(Ask(right, NoPlace), D) /\ Demands(Ask(right, NoPlace), n) /\ Shows(Show(item, NoPlace), D)
        /\ Shows(Own, D)
    <3>1. own \in D /\ <<item, NoPlace>> \in D
      OBVIOUS
    <3> HIDE DEF D
    <3> QED BY <1>2, <1>4, <1>5, <1>6, <3>1
  <2>4. Shows(InPassing({<<item, NoPlace>>}), D) /\ Shows(Query(n, {<<item, NoPlace>>}), D)
        /\ Demands(Query(n, {<<item, NoPlace>>}), n)
    BY <1>0, <2>2
  <2>5. ASSUME NEW s, Shows(s, D), Demands(s, n)
        PROVE  Guards(s)
    <3> HIDE DEF D, n
    <3> QED BY <2>1, <2>5, GuardsBy
  <2> QED BY <2>3, <2>4, <2>5
<1>16. ASSUME NEW s \in {ListOwnActiveRuns, ListDeadLetters, ListEgressBlockEvents, GetOwnConnection, PreviewInvitation}
       PROVE  Guards(s)
  <2> DEFINE D == {own}
             p == InPassing({own})
  <2>1. Shows(Own, D) /\ Shows(p, D)
    BY <1>6
  <2>2. \A i \in D : Guarded[i[1]] = {}
    BY <1>7
  <2> HIDE DEF D, p
  <2>3. Shows(Own \o p, D)
    BY <2>1, Joined
  <2>4. s \in {Own, Own \o p}
    BY <1>16 DEF ListOwnActiveRuns, ListDeadLetters, ListEgressBlockEvents, DeadLettersOfUser, BlockEventsOfUser,
                 GetOwnConnection, PreviewInvitation, FindInvitationByToken, p
  <2> QED BY <2>1, <2>2, <2>3, <2>4 DEF Guards, Shows
<1>17. ASSUME NEW s \in {GetWorkflowRunStatus, ListActiveRunsOf, ListRunsForWorkflow, DownloadRunJson, ListWorkflowLogs,
                         GetEgressAllowlist, GetWebhookUrl}
       PROVE  Guards(s)
  <2> DEFINE D == {own, <<"runs", NoPlace>>}
             n == {<<"reader", NoPlace>>}
             x == FetchWorkflowForMember
             l == Show("runs", NoPlace)
             q == Query({<<"reader", NoPlace>>}, {<<"runs", NoPlace>>})
  <2>1. /\ \A t : Shows(t, D) /\ Demands(t, n) => Guards(t)
        /\ Shows(x, D) /\ Demands(x, n) /\ Shows(l, D) /\ Shows(q, D) /\ Demands(q, n)
    BY <1>2, <1>7, <1>15 DEF FetchWorkflowForMember
  <2> HIDE DEF D, n, x, l, q
  <2>2. Shows(x \o l, D) /\ Demands(x \o l, n)
    BY <2>1, Joined
  <2>3. Shows((x \o l) \o l, D) /\ Demands((x \o l) \o l, n)
    BY <2>1, <2>2, Joined
  <2>4. s \in {q, x \o l, (x \o l) \o l}
    BY <1>17 DEF GetWorkflowRunStatus, ListActiveRunsOf, ListRunsForWorkflow, DownloadRunJson, ListWorkflowLogs,
                 GetEgressAllowlist, GetWebhookUrl, ListRunsPaged, LogsOf, x, l, q
  <2> QED BY <2>1, <2>2, <2>3, <2>4
<1>18. Guards(GetAccountDeletionSummary)
  <2> DEFINE D == {own, <<"summary", NoPlace>>}
             n == {<<"holder", NoPlace>>}
             x == AccountDeletionContext
             l == Show("summary", NoPlace)
  <2>1. /\ \A t : Shows(t, D) /\ Demands(t, n) => Guards(t)
        /\ Shows(x, D) /\ Demands(x, n) /\ Shows(l, D)
    BY <1>2, <1>7, <1>15 DEF AccountDeletionContext
  <2> HIDE DEF D, n, x, l
  <2>2. Shows(x \o l, D) /\ Demands(x \o l, n)
    BY <2>1, Joined
  <2>3. Shows((x \o l) \o l, D) /\ Demands((x \o l) \o l, n)
    BY <2>1, <2>2, Joined
  <2> QED BY <2>1, <2>3 DEF GetAccountDeletionSummary, AccountDeletionCounts, x, l
<1>19. ASSUME NEW s \in {ListUsers, GetUser, ListUserConnections, ListLoginActivity, ListAllWorkspaces, GetWorkspace,
                         ListMembersOf, ListWorkspaceWorkflows, ListAllWorkflows, GetAnyWorkflow, GetWorkflowJson}
       PROVE  Guards(s)
  <2> DEFINE D == {own, <<"console", NoPlace>>}
             n == {<<"staff", NoPlace>>}
             x == AdminGate
             l == Console
             p == InPassingConsole
  <2>1. /\ \A t : Shows(t, D) /\ Demands(t, n) => Guards(t)
        /\ Shows(x, D) /\ Demands(x, n) /\ Shows(l, D) /\ Shows(p, D)
    BY <1>2, <1>7, <1>15 DEF AdminGate, Console, InPassingConsole
  <2> DEFINE F == {t \in Seq(Queries) : Shows(t, D) /\ Demands(t, n)}
  <2> HIDE DEF D, n
  <2>2. x \in F
    BY <2>1 DEF Shows
  <2>3. \A t \in F : t \o l \in F /\ t \o p \in F
    <3> HIDE DEF x, l, p
    <3> SUFFICES ASSUME NEW t \in F
                 PROVE  t \o l \in F /\ t \o p \in F
      OBVIOUS
    <3>1. Shows(t \o l, D) /\ Demands(t \o l, n) /\ Shows(t \o p, D) /\ Demands(t \o p, n)
      BY <2>1, Joined
    <3> QED BY <3>1 DEF Shows
  <2>4. \A t \in F : Guards(t)
    BY <2>1
  <2> HIDE DEF F, x, l, p
  <2>5. x \o l \in F /\ x \o p \in F
    BY <2>2, <2>3
  <2>6. x \o l \o l \in F /\ x \o l \o p \in F /\ x \o p \o p \in F
    BY <2>3, <2>5
  <2>7. x \o l \o p \o l \in F /\ x \o l \o p \o p \in F
    BY <2>3, <2>6
  <2>8. x \o l \o p \o p \o p \in F
    BY <2>3, <2>7
  <2>9. x \o l \o p \o p \o p \o p \in F
    BY <2>3, <2>8
  <2>10. x \o l \o p \o p \o p \o p \o l \in F
    BY <2>3, <2>9
  <2>11. s \in {x \o l, x \o l \o l, x \o p \o p, x \o l \o p \o l, x \o l \o p \o p \o p \o p \o l}
    BY <1>19 DEF ListUsers, GetUser, ListUserConnections, ListLoginActivity, ListAllWorkspaces, GetWorkspace,
                 ListMembersOf, ListWorkspaceWorkflows, ListAllWorkflows, GetAnyWorkflow, GetWorkflowJson,
                 LoginActivityForUser, x, l, p
  <2> QED BY <2>4, <2>5, <2>6, <2>7, <2>10, <2>11
<1> QED BY <1>8, <1>9, <1>10, <1>11, <1>12, <1>13, <1>14, <1>16, <1>17, <1>18, <1>19 DEF ScriptsAt

AskerRecords == [pc: {"idle", "queries", "owned", "memberships", "theirs", "done"}, todo: Seq(Queries),
                 place: Spots, drawn: SUBSET (Words \X Spots), listed: SUBSET Spots, ids: SUBSET Places,
                 moments: SUBSET SUBSET (Words \X Spots)]

VisibilityTypes ==
    /\ standing \in [Places -> Roles] /\ invitedTo \subseteq Places
    /\ flowRow \in [mine: BOOLEAN, home: Spots]
    /\ asker \in AskerRecords

\* What was shown is covered by a moment; what is drawn or may yet be, by that or by a query
\* still to come.
Held(i) == \A group \in Guarded[i[1]] : \E moment \in asker.moments : Names(group, i[2]) \subseteq moment
HeldOrAsked(i) ==
    \A group \in Guarded[i[1]] : \/ \E moment \in asker.moments : Names(group, i[2]) \subseteq moment
                                 \/ Demands(asker.todo, Names(group, i[2]))

AskerInv ==
    /\ asker.pc \notin {"idle", "done"} => RightsNow \in asker.moments
    /\ asker.pc = "queries" =>
         /\ \A i \in asker.drawn : HeldOrAsked(i)
         /\ \A k \in 1..Len(asker.todo) : \A i \in asker.todo[k].draws : HeldOrAsked(i)
    /\ asker.pc \in {"idle", "memberships"} => asker.drawn = {}
    /\ asker.pc \in {"theirs", "done"} => \A i \in asker.drawn : Held(i)
    /\ asker.pc = "theirs" => \A w \in asker.ids : Held(<<"flows", w>>)

LEMMA NowIsTyped ==
    VisibilityTypes => /\ RightsNow \in SUBSET (Words \X Spots)
                       /\ \A w \in Places : standing[w] # "none" => <<"member", w>> \in RightsNow
<1> SUFFICES ASSUME VisibilityTypes
             PROVE  /\ RightsNow \in SUBSET (Words \X Spots)
                    /\ \A w \in Places : standing[w] # "none" => <<"member", w>> \in RightsNow
  OBVIOUS
<1>1. ASSUME NEW name \in Words, NEW H \in SUBSET Places
      PROVE  Having(name, H) \subseteq Words \X Spots
  BY DEF Having, Spots
<1>2. ASSUME NEW name \in Words, NEW b
      PROVE  When(name, b) \subseteq Words \X Spots
  BY DEF When, Spots
<1>3. invitedTo \subseteq Places
  BY DEF VisibilityTypes
<1>4. "member" \in Words /\ "paid" \in Words /\ "admin" \in Words /\ "owner" \in Words /\ "invited" \in Words
      /\ "reader" \in Words /\ "holder" \in Words /\ "staff" \in Words
  BY DEF Words
<1>5. ASSUME NEW x \in RightsNow
      PROVE  \/ \E name \in {"member", "admin", "owner", "paid", "invited"}, H \in SUBSET Places : x \in Having(name, H)
             \/ \E name \in {"reader", "holder", "staff"} : x = <<name, NoPlace>>
  BY <1>3 DEF RightsNow, When
<1>6. \A name \in {"reader", "holder", "staff"} : <<name, NoPlace>> \in Words \X Spots
  BY <1>4 DEF Spots
<1>7. RightsNow \in SUBSET (Words \X Spots)
  BY <1>1, <1>4, <1>5, <1>6
<1>8. \A w \in Places : standing[w] # "none" => <<"member", w>> \in RightsNow
  BY DEF RightsNow, Having
<1> QED BY <1>7, <1>8

LEMMA VisibilityStep ==
    VisibilityTypes /\ AskerInv /\ [VisibilityNext]_visibilityVars => VisibilityTypes' /\ AskerInv'
<1> SUFFICES ASSUME VisibilityTypes, AskerInv, [VisibilityNext]_visibilityVars
             PROVE  VisibilityTypes' /\ AskerInv'
  OBVIOUS
<1>0. /\ standing \in [Places -> Roles] /\ invitedTo \subseteq Places /\ flowRow \in [mine: BOOLEAN, home: Spots]
      /\ asker \in AskerRecords /\ NoPlace \notin Places
      /\ RightsNow \in SUBSET (Words \X Spots)
      /\ \A w \in Places : standing[w] # "none" => <<"member", w>> \in RightsNow
  BY NowIsTyped, VisibilityAssumption DEF VisibilityTypes
<1>1. asker.todo \in Seq(Queries) /\ asker.drawn \subseteq Words \X Spots
      /\ asker.moments \in SUBSET SUBSET (Words \X Spots)
  BY <1>0 DEF AskerRecords
\* The steps of the request leave the facts alone.
<1>2. ASSUME UNCHANGED <<facts, claims>>, asker' \in AskerRecords
      PROVE  VisibilityTypes' /\ RightsNow' = RightsNow
  BY <1>0, <1>2 DEF VisibilityTypes, facts, RightsNow
<1>3. ASSUME NEW s \in Seq(Queries)
      PROVE  /\ s # <<>> => /\ Head(s) \in Queries /\ Tail(s) \in Seq(Queries)
                            /\ Len(s) \in Nat /\ 1 \in 1..Len(s) /\ Head(s) = s[1]
                            /\ \A k \in 1..Len(Tail(s)) : k + 1 \in 1..Len(s) /\ Tail(s)[k] = s[k + 1]
                            /\ \A k \in 1..Len(s) : k = 1 \/ (k - 1 \in 1..Len(Tail(s)) /\ Tail(s)[k - 1] = s[k])
             /\ s # <<>> => \A n : Demands(s, n) => n \subseteq Head(s).needs \/ Demands(Tail(s), n)
  <2>1. s # <<>> => /\ Head(s) \in Queries /\ Tail(s) \in Seq(Queries)
                    /\ Len(s) \in Nat /\ 1 \in 1..Len(s) /\ Head(s) = s[1]
                    /\ \A k \in 1..Len(Tail(s)) : k + 1 \in 1..Len(s) /\ Tail(s)[k] = s[k + 1]
                    /\ \A k \in 1..Len(s) : k = 1 \/ (k - 1 \in 1..Len(Tail(s)) /\ Tail(s)[k - 1] = s[k])
    BY <1>3
  <2> QED BY <2>1 DEF Demands
<1>4. ASSUME Refuse, UNCHANGED <<facts, claims>>
      PROVE  VisibilityTypes' /\ AskerInv'
  <2>1. asker' \in AskerRecords /\ asker'.pc = "done" /\ asker'.drawn = {}
    <3>1. <<>> \in Seq(Queries)
      OBVIOUS
    <3> QED BY <1>0, <1>4, <3>1 DEF Refuse, AskerRecords
  <2>2. AskerInv'
    BY <2>1 DEF AskerInv
  <2> QED BY <1>2, <1>4, <2>1, <2>2
<1>5. ASSUME NEW w \in Places, NEW script \in ScriptsAt(w), BeginRead(w, script)
      PROVE  VisibilityTypes' /\ AskerInv'
  <2>1. Guards(script) /\ w \in Spots
    BY ScriptsGuard DEF Spots
  <2>2. /\ asker' = [asker EXCEPT !.pc = "queries", !.place = w, !.todo = script, !.moments = {RightsNow}]
        /\ UNCHANGED <<facts, claims>>
    BY <1>5 DEF BeginRead
  <2>3. /\ asker' \in AskerRecords /\ asker'.pc = "queries" /\ asker'.todo = script
        /\ asker'.moments = {RightsNow} /\ asker'.drawn = asker.drawn
    BY <1>0, <2>1, <2>2 DEF AskerRecords, Guards
  <2>4. asker.drawn = {}
    BY <1>5 DEF BeginRead, AskerInv
  <2>5. \A k \in 1..Len(script) : \A i \in script[k].draws : HeldOrAsked(i)'
    BY <2>1, <2>3 DEF Guards, HeldOrAsked
  <2>6. AskerInv'
    BY <1>2, <2>2, <2>3, <2>4, <2>5 DEF AskerInv
  <2> QED BY <1>2, <2>2, <2>3, <2>6
\* A query that is done: what it demanded is held now, and now is a moment of the request.
<1>6. ASSUME asker.pc = "queries", asker.todo # <<>>, NEW d \in SUBSET (Words \X Spots),
             asker' = [asker EXCEPT !.todo = Tail(asker.todo), !.drawn = d], UNCHANGED <<facts, claims>>,
             Head(asker.todo).needs \subseteq RightsNow,
             \A i \in d : i \in asker.drawn \/ i \in Head(asker.todo).draws
      PROVE  VisibilityTypes' /\ AskerInv'
  <2> DEFINE s == asker.todo
  <2>1. /\ Tail(s) \in Seq(Queries) /\ 1 \in 1..Len(s) /\ Head(s) = s[1]
        /\ \A k \in 1..Len(Tail(s)) : k + 1 \in 1..Len(s) /\ Tail(s)[k] = s[k + 1]
        /\ \A n : Demands(s, n) => n \subseteq Head(s).needs \/ Demands(Tail(s), n)
    BY <1>1, <1>3, <1>6
  <2>2. /\ asker' \in AskerRecords /\ asker'.pc = "queries" /\ asker'.todo = Tail(s)
        /\ asker'.moments = asker.moments /\ asker'.drawn = d
    BY <1>0, <1>6, <2>1 DEF AskerRecords
  <2>3. RightsNow \in asker.moments
    BY <1>6 DEF AskerInv
  <2>4. ASSUME NEW i, HeldOrAsked(i)
        PROVE  HeldOrAsked(i)'
    <3> SUFFICES ASSUME NEW group \in Guarded[i[1]]
                 PROVE  \/ \E moment \in asker.moments : Names(group, i[2]) \subseteq moment
                        \/ Demands(Tail(s), Names(group, i[2]))
      BY <2>2 DEF HeldOrAsked
    <3>1. \/ \E moment \in asker.moments : Names(group, i[2]) \subseteq moment
          \/ Demands(s, Names(group, i[2]))
      BY <2>4 DEF HeldOrAsked
    <3>2. CASE Names(group, i[2]) \subseteq Head(s).needs
      BY <1>6, <2>3, <3>2
    <3> QED BY <2>1, <3>1, <3>2
  <2>5. \A i \in d : HeldOrAsked(i)
    BY <1>6, <2>1 DEF AskerInv
  <2>6. \A k \in 1..Len(Tail(s)) : \A i \in Tail(s)[k].draws : HeldOrAsked(i)
    BY <1>6, <2>1 DEF AskerInv
  <2>7. \A i \in d : HeldOrAsked(i)'
    BY <2>4, <2>5
  <2>8. \A k \in 1..Len(Tail(s)) : \A i \in Tail(s)[k].draws : HeldOrAsked(i)'
    BY <2>4, <2>6
  <2> HIDE DEF s
  <2>9. AskerInv'
    BY <1>2, <1>6, <2>2, <2>3, <2>7, <2>8 DEF AskerInv
  <2> QED BY <1>2, <1>6, <2>2, <2>9
<1>7. CASE RunQuery
  <2> DEFINE q == Head(asker.todo)
  <2>1. asker.pc = "queries" /\ asker.todo # <<>> /\ UNCHANGED <<facts, claims>>
    BY <1>7 DEF RunQuery
  <2>2. CASE Refuse
    BY <1>4, <2>1, <2>2
  <2>3. CASE q.needs \subseteq RightsNow /\ asker' = [asker EXCEPT !.todo = Tail(@), !.drawn = @ \cup q.draws]
    <3>1. q \in Queries /\ q.draws \subseteq Words \X Spots
      BY <1>1, <1>3, <2>1 DEF Queries
    <3> QED BY <1>1, <1>6, <2>1, <2>3, <3>1
  <2> QED BY <1>7, <2>2, <2>3 DEF RunQuery
<1>8. CASE QueryFails
  <2> DEFINE q == Head(asker.todo)
  <2>1. asker.pc = "queries" /\ asker.todo # <<>> /\ UNCHANGED <<facts, claims>>
    BY <1>8 DEF QueryFails
  <2>2. CASE Refuse
    BY <1>4, <2>1, <2>2
  <2>3. CASE ~q.firm /\ asker' = [asker EXCEPT !.todo = Tail(@)]
    <3>1. q.needs = {}
      BY <1>1, <1>3, <2>1, <2>3 DEF Queries
    <3>2. asker' = [asker EXCEPT !.todo = Tail(asker.todo), !.drawn = asker.drawn]
      BY <1>0, <2>3 DEF AskerRecords
    <3> QED BY <1>1, <1>6, <2>1, <3>1, <3>2
  <2> QED BY <1>8, <2>2, <2>3 DEF QueryFails
<1>9. CASE AnswerRead
  <2>1. asker.pc = "queries" /\ asker.todo = <<>> /\ UNCHANGED <<facts, claims>>
    BY <1>9 DEF AnswerRead
  <2>2. asker' \in AskerRecords /\ asker'.pc = "done" /\ asker'.drawn = asker.drawn /\ asker'.moments = asker.moments
    BY <1>0, <1>9 DEF AnswerRead, AskerRecords
  <2>3. \A n : ~Demands(asker.todo, n)
    BY <2>1 DEF Demands
  <2>4. \A i \in asker'.drawn : Held(i)'
    BY <2>1, <2>2, <2>3 DEF AskerInv, HeldOrAsked, Held
  <2>5. AskerInv'
    BY <2>2, <2>4 DEF AskerInv
  <2> QED BY <1>2, <2>1, <2>2, <2>5
<1>10. ASSUME NEW w \in Spots, ListWorkflowsByUser(w)
       PROVE  VisibilityTypes' /\ AskerInv'
  <2>1. asker' \in AskerRecords /\ asker'.pc = "memberships" /\ asker'.drawn = asker.drawn
        /\ asker'.moments = {RightsNow} /\ UNCHANGED <<facts, claims>> /\ asker.pc = "idle"
    BY <1>0, <1>10 DEF ListWorkflowsByUser, AskerRecords
  <2>2. AskerInv'
    BY <1>2, <2>1 DEF AskerInv
  <2> QED BY <1>2, <2>1, <2>2
\* A workspace of which the user is a member now is one the request may show.
<1>11. ASSUME NEW w \in Places, standing[w] # "none", RightsNow \in asker.moments
       PROVE  Held(<<"flows", w>>)
  <2>1. Guarded["flows"] = {{"member"}}
    BY DEF Guarded
  <2>2. Names({"member"}, w) \subseteq RightsNow
    BY <1>0, <1>11 DEF Names
  <2> QED BY <1>11, <2>1, <2>2 DEF Held
<1>12. CASE ReadMemberships
  <2> DEFINE context == PlanContextForUser(asker.place)
             drawn == {IF h \in Places THEN <<"flows", h>> ELSE <<"own", NoPlace>> :
                         h \in {g \in asker.listed : CanAccessWorkflowInContext(g, context)}}
  <2>1. asker.pc = "memberships" /\ UNCHANGED <<facts, claims>> /\ RightsNow \in asker.moments
    BY <1>12 DEF ReadMemberships, AskerInv
  <2>2. CASE Refuse
    BY <1>4, <2>1, <2>2
  <2>3. CASE asker' = [asker EXCEPT !.pc = "theirs", !.ids = WorkspaceIds(context), !.drawn = drawn]
    <3>1. \A h \in Places : CanAccessWorkspaceInContext(context, h) => standing[h] # "none"
      BY <1>0 DEF PlanContextForUser, CanAccessWorkspaceInContext
    <3>2. \A h \in asker.listed : h \in Places /\ CanAccessWorkflowInContext(h, context) => standing[h] # "none"
      BY <3>1 DEF CanAccessWorkflowInContext
    <3>3. "flows" \in Words /\ "own" \in Words /\ NoPlace \in Spots /\ Places \subseteq Spots
      BY DEF Words, Spots
    <3> HIDE DEF context
    <3>4. drawn \subseteq Words \X Spots
      BY <3>3
    <3>5. \A i \in drawn : i = <<"own", NoPlace>> \/ \E h \in Places : standing[h] # "none" /\ i = <<"flows", h>>
      BY <3>2
    <3>6. Held(<<"own", NoPlace>>)
      BY DEF Held, Guarded
    <3>7. \A i \in drawn : Held(i)
      BY <1>11, <2>1, <3>5, <3>6
    <3>8. WorkspaceIds(context) \subseteq Places /\ \A w \in WorkspaceIds(context) : Held(<<"flows", w>>)
      BY <1>11, <2>1 DEF WorkspaceIds
    <3> HIDE DEF drawn
    <3>9. /\ asker' \in AskerRecords /\ asker'.pc = "theirs" /\ asker'.drawn = drawn
          /\ asker'.ids = WorkspaceIds(context) /\ asker'.moments = asker.moments
      BY <1>0, <2>3, <3>4, <3>8 DEF AskerRecords
    <3>10. \A i : Held(i)' <=> Held(i)
      BY <3>9 DEF Held
    <3>11. AskerInv'
      BY <1>2, <2>1, <3>7, <3>8, <3>9, <3>10 DEF AskerInv
    <3> QED BY <1>2, <2>1, <3>9, <3>11
  <2> QED BY <1>12, <2>2, <2>3 DEF ReadMemberships
<1>13. CASE ListWorkflowsByWorkspaceIds
  <2> DEFINE more == {<<"flows", w>> : w \in {v \in asker.ids : v = flowRow.home}}
  <2>1. asker.pc = "theirs" /\ UNCHANGED <<facts, claims>> /\ asker' = [asker EXCEPT !.pc = "done", !.drawn = @ \cup more]
    BY <1>13 DEF ListWorkflowsByWorkspaceIds
  <2>2. asker.ids \subseteq Places /\ \A i \in more : Held(i)
    BY <1>0, <2>1 DEF AskerInv, AskerRecords
  <2>3. more \subseteq Words \X Spots
    <3>1. "flows" \in Words /\ Places \subseteq Spots
      BY DEF Words, Spots
    <3> QED BY <2>2, <3>1
  <2> HIDE DEF more
  <2>4. asker' \in AskerRecords /\ asker'.pc = "done" /\ asker'.drawn = asker.drawn \cup more
        /\ asker'.moments = asker.moments
    BY <1>0, <1>1, <2>1, <2>3 DEF AskerRecords
  <2>5. \A i : Held(i)' <=> Held(i)
    BY <2>4 DEF Held
  <2>6. AskerInv'
    BY <2>1, <2>2, <2>4, <2>5 DEF AskerInv
  <2> QED BY <1>2, <2>1, <2>4, <2>6
<1>14. CASE ListingFails
  BY <1>4, <1>14 DEF ListingFails
\* A change from outside gives the request a moment more.
<1>15. ASSUME Shift, standing' \in [Places -> Roles], invitedTo' \subseteq Places,
              flowRow' \in [mine: BOOLEAN, home: Spots]
       PROVE  VisibilityTypes' /\ AskerInv'
  <2>1. /\ asker' = [asker EXCEPT !.moments = @ \cup {RightsNow'}] /\ asker.pc \notin {"idle", "done"}
    BY <1>15 DEF Shift
  <2>2. RightsNow' \in SUBSET (Words \X Spots)
    <3>1. ASSUME NEW x \in RightsNow'
          PROVE  \/ \E name \in {"member", "admin", "owner", "paid", "invited"}, H \in SUBSET Places : x \in Having(name, H)
                 \/ \E name \in {"reader", "holder", "staff"} : x = <<name, NoPlace>>
      BY <1>15 DEF RightsNow, When
    <3>2. ASSUME NEW name \in {"member", "admin", "owner", "paid", "invited"}, NEW H \in SUBSET Places
          PROVE  Having(name, H) \subseteq Words \X Spots
      BY DEF Having, Words, Spots
    <3>3. \A name \in {"reader", "holder", "staff"} : <<name, NoPlace>> \in Words \X Spots
      BY DEF Words, Spots
    <3> QED BY <3>1, <3>2, <3>3
  <2> DEFINE m == asker.moments \cup {RightsNow'}
  <2>3. /\ asker' \in AskerRecords /\ RightsNow' \in asker'.moments
        /\ asker.moments \subseteq asker'.moments /\ asker'.pc = asker.pc /\ asker'.todo = asker.todo
        /\ asker'.drawn = asker.drawn /\ asker'.ids = asker.ids
    <3> PICK now : now = RightsNow'
      OBVIOUS
    <3>1. asker' = [asker EXCEPT !.moments = @ \cup {now}] /\ now \in SUBSET (Words \X Spots)
      BY <2>1, <2>2
    <3>2. /\ asker' \in AskerRecords /\ now \in asker'.moments
          /\ asker.moments \subseteq asker'.moments /\ asker'.pc = asker.pc /\ asker'.todo = asker.todo
          /\ asker'.drawn = asker.drawn /\ asker'.ids = asker.ids
      BY <1>0, <3>1 DEF AskerRecords
    <3> QED BY <3>2
  <2>4. \A i : (Held(i) => Held(i)') /\ (HeldOrAsked(i) => HeldOrAsked(i)')
    BY <2>3 DEF Held, HeldOrAsked
  <2>5. AskerInv'
    BY <2>1, <2>3, <2>4 DEF AskerInv
  <2> QED BY <1>15, <2>3, <2>5 DEF VisibilityTypes
<1>16. ASSUME NEW w \in Places, NEW r \in Roles, RoleShifts(w, r)
       PROVE  VisibilityTypes' /\ AskerInv'
  BY <1>0, <1>15, <1>16 DEF RoleShifts
<1>17. ASSUME NEW w \in Places, PlanShifts(w)
       PROVE  VisibilityTypes' /\ AskerInv'
  BY <1>0, <1>15, <1>17 DEF PlanShifts
<1>18. ASSUME NEW w \in Places, InvitationShifts(w)
       PROVE  VisibilityTypes' /\ AskerInv'
  BY <1>0, <1>15, <1>18 DEF InvitationShifts
<1>19. ASSUME NEW h \in Spots, HomeShifts(h)
       PROVE  VisibilityTypes' /\ AskerInv'
  BY <1>0, <1>15, <1>19 DEF HomeShifts
<1>20. CASE DeletionIsUsed
  BY <1>0, <1>15, <1>20 DEF DeletionIsUsed
<1>21. CASE UNCHANGED visibilityVars
  <2>1. UNCHANGED <<facts, claims, asker>>
    BY <1>21 DEF visibilityVars, facts
  <2>2. \A i : (Held(i)' <=> Held(i)) /\ (HeldOrAsked(i)' <=> HeldOrAsked(i))
    BY <2>1 DEF Held, HeldOrAsked
  <2>3. AskerInv'
    BY <1>0, <1>2, <2>1, <2>2 DEF AskerInv
  <2> QED BY <1>0, <1>2, <2>1, <2>3
<1> QED
  BY <1>5, <1>7, <1>8, <1>9, <1>10, <1>12, <1>13, <1>14, <1>16, <1>17, <1>18, <1>19, <1>20, <1>21
  DEF VisibilityNext, Spots

LEMMA VisibilityStart == VisibilityInit => VisibilityTypes /\ AskerInv
<1> SUFFICES ASSUME VisibilityInit
             PROVE  VisibilityTypes /\ AskerInv
  OBVIOUS
<1>1. <<>> \in Seq(Queries) /\ NoPlace \in Spots
  BY DEF Spots
<1>2. asker = NoAsker
  BY DEF VisibilityInit
<1>3. asker \in AskerRecords /\ asker.pc = "idle" /\ asker.drawn = {}
  BY <1>1, <1>2 DEF NoAsker, AskerRecords
<1> QED BY <1>3 DEF VisibilityInit, VisibilityTypes, AskerInv, Spots

(* ReadsAreEntitled: what a reading route answers with, ensure_workspace_membership,  *)
(* find_workflow_for_member, admin_gate and their like have demanded rights for, and  *)
(* these were the user's at a moment of the request, for any number of workspaces and *)
(* whatever is changed, and however often, while the request is handled.              *)
THEOREM AnswersAreEntitled == VisibilitySpec => []ReadsAreEntitled
<1>1. AskerInv => ReadsAreEntitled
  BY DEF AskerInv, ReadsAreEntitled, Held
<1> QED BY <1>1, VisibilityStart, VisibilityStep, PTL DEF VisibilitySpec
=============================================================================

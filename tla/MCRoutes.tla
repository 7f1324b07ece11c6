------------------------------ MODULE MCRoutes ------------------------------
(***************************************************************************)
(* What the routes do, part by part: the requests that create a run, the    *)
(* logins, the support desk, the streams that tell a browser of a run, and  *)
(* the routes that only read.  The parts share no state, so a behaviour is  *)
(* of one part and the others rest in a fixed state.                        *)
(***************************************************************************)
EXTENDS Admission, Logins, Issues, RunStream, Visibility, TLC

CONSTANTS r1, r2, r3, k, p1, p2, a1, a2

VARIABLE part

routeVars == <<vars, loginVars, issueVars, streamVars, visibilityVars, part>>

\* A start and a rerun that share a key, and a schedule.
Mixed == r1 :> "start" @@ r2 :> "rerun" @@ r3 :> "schedule"
SharedKey == r1 :> k @@ r2 :> k @@ r3 :> NoKey
BothPlans == {"solo", "workspace"}
Three == {r1, r2, r3}
OneKey == {k}
TwoPlaces == {p1, p2}
TwoAdmins == {a1, a2}

----------------------------------------------------------------------------
\* The providers' logins race a sign-up, the passwords' links race each other.
ProvidersMove == LoginsNext /\ UNCHANGED <<try, resetVars>>

PasswordsMove == LoginsNext /\ UNCHANGED <<signIn, cookies>>

----------------------------------------------------------------------------
\* The second admin only looks.
IssuesMove == IssuesNext /\ desk'[a2].op # "reply"

----------------------------------------------------------------------------
\* The workspaces are alike, so a request is about the first; one unusual circumstance
\* at a time; and what no further query of the request asks for does not change.
LoneFlow == [mine |-> TRUE, home |-> NoPlace]

VisibilityStart ==
    /\ invitedTo \in {{}, {p1}}
    /\ planOf \in [TwoPlaces -> {"solo", "workspace"}] /\ planOf[p2] = "workspace"
    /\ standing \in [TwoPlaces -> Roles] /\ standing[p2] \in {"none", "owner"}
    /\ VisibilityInit
    /\ claims.plan \in {"solo", "workspace", p1}
    /\ claims.plan # "workspace" => planOf[p1] = "workspace" /\ ~claims.admin /\ ~deletion /\ invitedTo = {}
    /\ claims.admin => ~deletion /\ invitedTo = {}
    /\ deletion => invitedTo = {}

VisibilityRest ==
    /\ standing = [w \in Places |-> "none"] /\ planOf = [w \in Places |-> "solo"] /\ invitedTo = {}
    /\ flowRow = LoneFlow /\ deletion = FALSE /\ claims = [plan |-> "solo", admin |-> FALSE]
    /\ VisibilityInit

Asks(todo, r) == \E i \in 1..Len(todo) : \E n \in todo[i].needs : n[1] = r
AsksFor(r) == Asks(asker.todo, r)

Touched ==
    IF asker.pc # "queries" THEN standing' # standing \/ flowRow' # flowRow
    ELSE \/ standing' # standing /\ (AsksFor("reader") \/ standing'[p2] = standing[p2])
            /\ (AsksFor("member") \/ AsksFor("admin") \/ AsksFor("owner") \/ AsksFor("reader"))
         \/ planOf' # planOf /\ AsksFor("paid")
         \/ flowRow' # flowRow /\ AsksFor("reader")
         \/ invitedTo' # invitedTo /\ AsksFor("invited")
         \/ deletion' # deletion /\ AsksFor("holder")

VisibilityMove ==
    /\ VisibilityNext
    /\ asker'.place # p2 /\ invitedTo' \subseteq {p1} /\ planOf'[p2] = planOf[p2]
    /\ asker.pc = "idle" /\ claims.plan # "workspace" => asker'.pc = "memberships"
    /\ asker.pc = "idle" /\ asker'.pc = "queries" => flowRow = LoneFlow \/ Asks(asker'.todo, "reader")
    /\ shifts' # shifts => Touched

----------------------------------------------------------------------------
RoutesInit ==
    /\ LoginsInit /\ IssuesInit /\ RunStreamInit
    /\ \/ part = "starts" /\ Init /\ VisibilityRest
       \/ part = "reads" /\ plan = "solo" /\ Init /\ VisibilityStart
       \/ part \in {"providers", "passwords", "issues", "stream"} /\ plan = "solo" /\ Init /\ VisibilityRest

RoutesNext ==
    /\ \/ part = "starts" /\ Next /\ UNCHANGED <<loginVars, issueVars, streamVars, visibilityVars>>
       \/ part = "providers" /\ ProvidersMove /\ UNCHANGED <<vars, issueVars, streamVars, visibilityVars>>
       \/ part = "passwords" /\ PasswordsMove /\ UNCHANGED <<vars, issueVars, streamVars, visibilityVars>>
       \/ part = "issues" /\ IssuesMove /\ UNCHANGED <<vars, loginVars, streamVars, visibilityVars>>
       \/ part = "stream" /\ RunStreamNext /\ UNCHANGED <<vars, loginVars, issueVars, visibilityVars>>
       \/ part = "reads" /\ VisibilityMove /\ UNCHANGED <<vars, loginVars, issueVars, streamVars>>
    /\ UNCHANGED part

RoutesSpec == RoutesInit /\ [][RoutesNext]_routeVars
=============================================================================

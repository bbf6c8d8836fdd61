------------------------------- MODULE Session -------------------------------
(***************************************************************************)
(* Who is signed in, as the browser tab sees it (frontend/src/state/auth,  *)
(* components/layout/LoginControl.tsx): the session cookie, the cached     *)
(* answer of GET /api/auth/me, and the calls that sign in and out.         *)
(*                                                                         *)
(* The session is the signed cookie itself, so a request carries the       *)
(* account whose cookie it was sent with.  `online` is what the browser    *)
(* tells react-query, which pauses whatever is to be sent while it is      *)
(* FALSE; a request under way may then still be answered, or fail.         *)
(***************************************************************************)
EXTENDS Naturals, FiniteSets

CONSTANTS Accounts,   \* those Google knows and the demo account
          Guest,      \* the demo account
          Nobody,     \* no session
          Unknown,    \* the me query has no data
          MaxTurns    \* bound: sign-ins, sign-outs, expiries and outages

ASSUME SessionAssumption ==
  /\ Guest \in Accounts
  /\ Nobody \notin Accounts
  /\ Unknown \notin Accounts \cup {Nobody}
  /\ MaxTurns \in Nat

Sessions == Accounts \cup {Nobody}

VARIABLES cookie,    \* the account of the session cookie
          known,     \* the page has been told of the call that made this cookie
          me,        \* data of the me query
          meAsk,     \* the GET /me under way
          calls,     \* sign-ins and sign-outs under way
          budget,    \* turns that may still come
          online

sessionVars == <<cookie, known, me, meAsk, calls, budget, online>>

NotAsked == [state |-> "none", as |-> Nobody]

Asked(u) == [state |-> "sent", as |-> u]

Paused == [state |-> "paused", as |-> Nobody]

SessionInit ==
  /\ cookie \in Sessions
  /\ known = TRUE
  /\ me = Unknown
  /\ meAsk = Asked(cookie)
  /\ calls = {}
  /\ budget = MaxTurns
  /\ online = TRUE

(* isLoading, isAuthenticated of useAuth; the branches of LoginControl.    *)
(* A paused request does not count as loading.                             *)
IsLoading == me = Unknown /\ meAsk.state = "sent"
IsAuthenticated == me \in Accounts
SignedOut == ~IsLoading /\ ~IsAuthenticated

(***************************************************************************)
(* The me query.  It never goes stale once it has data; without data, on   *)
(* an error, it is asked again when the window gets the focus or the       *)
(* network back.                                                           *)
(***************************************************************************)
AskMe ==
  /\ me = Unknown /\ meAsk.state = "none"
  /\ meAsk' = IF online THEN Asked(cookie) ELSE Paused
  /\ UNCHANGED <<cookie, known, me, calls, budget, online>>

MeGoesOn ==
  /\ online /\ meAsk.state = "paused"
  /\ meAsk' = Asked(cookie)
  /\ UNCHANGED <<cookie, known, me, calls, budget, online>>

(* fetchSessionUser makes a 401 the answer Nobody.                         *)
MeAnswered ==
  /\ meAsk.state = "sent"
  /\ me' = meAsk.as
  /\ meAsk' = NotAsked
  /\ UNCHANGED <<cookie, known, calls, budget, online>>

MeFailed ==
  /\ meAsk.state = "sent"
  /\ meAsk' = NotAsked
  /\ UNCHANGED <<cookie, known, me, calls, budget, online>>

(***************************************************************************)
(* Sign-in and sign-out.  Nothing cancels One Tap once it is prompted, so  *)
(* a Google credential may come whoever is signed in by then.  The buttons *)
(* are those of the branch of LoginControl on the page.  A call is served  *)
(* when its Set-Cookie has come; its onSuccess runs when the rest has.     *)
(***************************************************************************)
Turn == budget > 0 /\ budget' = budget - 1

Call(u) ==
  /\ Turn
  /\ calls' = calls \cup {[id |-> budget, to |-> u, latest |-> FALSE,
                           state |-> IF online THEN "sent" ELSE "paused"]}
  /\ UNCHANGED <<cookie, known, me, meAsk, online>>

Login(u) == u # Guest /\ Call(u)

LoginAsGuest == SignedOut /\ Call(Guest)

Logout == IsAuthenticated /\ Call(Nobody)

CallGoesOn(c) ==
  /\ online /\ c.state = "paused"
  /\ calls' = (calls \ {c}) \cup {[c EXCEPT !.state = "sent"]}
  /\ UNCHANGED <<cookie, known, me, meAsk, budget, online>>

Superseded(cs) == {[c EXCEPT !.latest = FALSE] : c \in cs}

SetCookie(c) ==
  /\ c.state = "sent"
  /\ cookie' = c.to
  /\ known' = FALSE
  /\ calls' = Superseded(calls \ {c}) \cup {[c EXCEPT !.state = "served", !.latest = TRUE]}
  /\ UNCHANGED <<me, meAsk, budget, online>>

(* seedSession and the onSuccess of logoutMutation, as far as the me query *)
(* goes.  A me request that is under way is not cancelled.                 *)
SessionSet(c) ==
  /\ c.state = "served"
  /\ calls' = calls \ {c}
  /\ known' = (known \/ c.latest)
  /\ me' = c.to
  /\ UNCHANGED <<cookie, meAsk, budget, online>>

(* Refused, or lost on the way there or, its cookie set, on the way back.  *)
CallFailed(c) ==
  /\ c.state # "paused"
  /\ calls' = calls \ {c}
  /\ UNCHANGED <<cookie, known, me, meAsk, budget, online>>

(* The cookie and the signature in it live as long as max_age says.        *)
Expire ==
  /\ cookie \in Accounts
  /\ Turn
  /\ cookie' = Nobody
  /\ known' = FALSE
  /\ calls' = Superseded(calls)
  /\ UNCHANGED <<me, meAsk, online>>

GoOffline ==
  /\ online
  /\ Turn
  /\ online' = FALSE
  /\ UNCHANGED <<cookie, known, me, meAsk, calls>>

GoOnline ==
  /\ ~online
  /\ online' = TRUE
  /\ UNCHANGED <<cookie, known, me, meAsk, calls, budget>>

Quietly ==      \* the steps that leave the page's account as it is
  \/ AskMe \/ MeGoesOn \/ MeFailed
  \/ LoginAsGuest \/ Logout
  \/ \E c \in calls : CallGoesOn(c) \/ SetCookie(c) \/ CallFailed(c)
  \/ Expire \/ GoOffline \/ GoOnline

SessionNext ==
  \/ Quietly \/ MeAnswered
  \/ \E u \in Accounts : Login(u)
  \/ \E c \in calls : SessionSet(c)

SessionSpec == SessionInit /\ [][SessionNext]_sessionVars

(***************************************************************************)
(* What holds.                                                             *)
(***************************************************************************)
CallOf == [id : 1 .. MaxTurns, to : Sessions, latest : BOOLEAN,
           state : {"paused", "sent", "served"}]

SessionTypeOK ==
  /\ cookie \in Sessions
  /\ known \in BOOLEAN
  /\ me \in Sessions \cup {Unknown}
  /\ meAsk \in [state : {"none", "sent", "paused"}, as : Sessions]
  /\ calls \subseteq CallOf
  /\ budget \in 0 .. MaxTurns
  /\ online \in BOOLEAN
==============================================================================

--------------------------- MODULE SessionProofs -----------------------------
(***************************************************************************)
(* Theorems of Session and of SignIn, the widget beside it, for any number *)
(* of accounts, sign-ins, sign-outs and outages.                           *)
(***************************************************************************)
EXTENDS SignIn, TLAPS

LEMMA SessionTypeInit == SessionInit => SessionTypeOK
BY SessionAssumption DEF SessionInit, SessionTypeOK, Sessions, Asked

(* A later Set-Cookie marks the earlier calls, and leaves them calls.      *)
LEMMA SupersededType ==
  ASSUME NEW cs \in SUBSET CallOf
  PROVE  Superseded(cs) \in SUBSET CallOf
BY DEF Superseded, CallOf

LEMMA BudgetType ==
  ASSUME budget \in 0 .. MaxTurns, Turn
  PROVE  budget \in 1 .. MaxTurns /\ budget' \in 0 .. MaxTurns
BY SessionAssumption DEF Turn

LEMMA CallType ==
  ASSUME SessionTypeOK, NEW u \in Sessions, Call(u)
  PROVE  SessionTypeOK'
<1>1. budget \in 1 .. MaxTurns /\ budget' \in 0 .. MaxTurns
  BY BudgetType DEF Call, SessionTypeOK
<1>2. calls' \subseteq CallOf
  <2>1. calls \subseteq CallOf
    BY DEF SessionTypeOK
  <2>2. \A s \in {"sent", "paused"} :
          [id |-> budget, to |-> u, latest |-> FALSE, state |-> s] \in CallOf
    BY <1>1 DEF CallOf
  <2>3. QED
    BY <2>1, <2>2 DEF Call
<1>3. QED
  BY <1>1, <1>2 DEF Call, SessionTypeOK

(* A call that goes on, is served, answered or fails.                      *)
LEMMA CallGoesType ==
  ASSUME SessionTypeOK, NEW c \in calls,
         CallGoesOn(c) \/ SetCookie(c) \/ SessionSet(c) \/ CallFailed(c)
  PROVE  SessionTypeOK'
<1>1. c \in CallOf /\ c.to \in Sessions
  BY DEF SessionTypeOK, CallOf
<1>2. CASE CallGoesOn(c)
  BY <1>1, <1>2 DEF CallGoesOn, SessionTypeOK, CallOf
<1>3. CASE SetCookie(c)
  <2>1. Superseded(calls \ {c}) \in SUBSET CallOf
    BY SupersededType DEF SessionTypeOK
  <2>2. [c EXCEPT !.state = "served", !.latest = TRUE] \in CallOf
    BY <1>1 DEF CallOf
  <2>3. QED
    BY <1>1, <1>3, <2>1, <2>2 DEF SetCookie, SessionTypeOK
<1>4. CASE SessionSet(c)
  BY <1>1, <1>4 DEF SessionSet, SessionTypeOK, CallOf
<1>5. CASE CallFailed(c)
  BY <1>5 DEF CallFailed, SessionTypeOK
<1>6. QED
  BY <1>2, <1>3, <1>4, <1>5

LEMMA SessionTypeNext ==
  ASSUME SessionTypeOK, [SessionNext]_sessionVars
  PROVE  SessionTypeOK'
<1> USE SessionAssumption DEF SessionTypeOK
<1>1. CASE AskMe \/ MeGoesOn \/ MeFailed
  BY <1>1 DEF AskMe, MeGoesOn, MeFailed, Asked, Paused, NotAsked, Sessions
<1>2. CASE MeAnswered
  BY <1>2 DEF MeAnswered, NotAsked, Sessions
<1>3. CASE LoginAsGuest \/ Logout \/ \E u \in Accounts : Login(u)
  BY <1>3, CallType DEF LoginAsGuest, Logout, Login, Sessions
<1>4. CASE \E c \in calls : CallGoesOn(c) \/ SetCookie(c) \/ SessionSet(c) \/ CallFailed(c)
  BY <1>4, CallGoesType
<1>5. CASE Expire
  BY <1>5, SupersededType, BudgetType DEF Expire, Sessions
<1>6. CASE GoOffline \/ GoOnline
  BY <1>6, BudgetType DEF GoOffline, GoOnline
<1>7. CASE UNCHANGED sessionVars
  BY <1>7 DEF sessionVars
<1>8. QED
  BY <1>1, <1>2, <1>3, <1>4, <1>5, <1>6, <1>7 DEF SessionNext, Quietly

(* Whatever sign-ins, sign-outs, expiries and outages overlap, every       *)
(* variable of the session has its type (useAuth.ts).                      *)
THEOREM SessionTypeCorrect == SessionSpec => []SessionTypeOK
<1>1. QED
  BY SessionTypeInit, SessionTypeNext, PTL DEF SessionSpec

(***************************************************************************)
(* The widget.  What the page knows of the script follows the hook run     *)
(* that waits for it.                                                      *)
(***************************************************************************)
WidgetTypeOK ==
  /\ script \in {"absent", "loading", "loaded", "failed"}
  /\ waiter \in {"none", "live", "cancelled"}
  /\ ready \in BOOLEAN

Awaited ==
  /\ script = "loading" => waiter \in {"live", "cancelled"}
  /\ waiter = "live" => script = "loading"
  /\ ready => script = "loaded"
  /\ script = "loaded" /\ ~ready => waiter = "cancelled"

WidgetInv == WidgetTypeOK /\ Awaited /\ PaintedWhenReady

LEMMA HookKeeps ==
  ASSUME WidgetTypeOK, Awaited, RunHook \/ CancelHook
  PROVE  WidgetTypeOK' /\ Awaited'
<1> USE DEF WidgetTypeOK, Awaited
<1>1. CASE CancelHook
  BY <1>1 DEF CancelHook
<1>2. CASE RunHook /\ script = "absent"
  BY <1>2 DEF RunHook
<1>3. CASE RunHook /\ script = "loaded"
  BY <1>3 DEF RunHook
<1>4. CASE RunHook /\ script \in {"loading", "failed"}
  BY <1>4 DEF RunHook
<1>5. QED
  BY <1>1, <1>2, <1>3, <1>4

LEMMA RenderKeeps ==
  ASSUME WidgetInv, Render
  PROVE  WidgetInv'
<1>1. WidgetTypeOK' /\ Awaited'
  <2>1. CASE SignedOut = drawn.out
    BY <2>1 DEF WidgetInv, Render, WidgetTypeOK, Awaited
  <2>2. CASE SignedOut # drawn.out
    BY <2>2, HookKeeps DEF WidgetInv, Render
  <2>3. QED
    BY <2>1, <2>2
<1>2. PaintedWhenReady'
  <2>1. drawn' = [out |-> SignedOut, ready |-> ready] /\ (ready /\ SignedOut => painted')
    BY DEF Render
  <2>2. QED
    BY <2>1 DEF PaintedWhenReady
<1>3. QED
  BY <1>1, <1>2 DEF WidgetInv

LEMMA WidgetNext ==
  ASSUME WidgetInv, [SignInNext]_signInVars
  PROVE  WidgetInv'
<1>1. CASE UNCHANGED widgetVars
  BY <1>1 DEF WidgetInv, WidgetTypeOK, Awaited, PaintedWhenReady, widgetVars
<1>2. CASE CrossBreakpoint
  BY <1>2 DEF CrossBreakpoint, WidgetInv, WidgetTypeOK, Awaited, PaintedWhenReady
<1>3. CASE ScriptLoaded
  BY <1>3 DEF ScriptLoaded, WidgetInv, WidgetTypeOK, Awaited, PaintedWhenReady
<1>4. CASE ScriptFailed
  BY <1>4 DEF ScriptFailed, WidgetInv, WidgetTypeOK, Awaited, PaintedWhenReady
<1>5. QED
  BY <1>1, <1>2, <1>3, <1>4, RenderKeeps DEF SignInNext, signInVars

LEMMA WidgetAlways == SignInSpec => []WidgetInv
<1>1. ASSUME SignInInit
      PROVE  WidgetInv
  <2>1. WidgetTypeOK /\ Awaited
    BY <1>1, Zenon DEF SignInInit, WidgetTypeOK, Awaited
  <2>2. ~drawn.out
    BY <1>1 DEF SignInInit
  <2>3. QED
    BY <2>1, <2>2 DEF WidgetInv, PaintedWhenReady
<1>2. QED
  BY <1>1, WidgetNext, PTL DEF SignInSpec

(* Google's button is painted whenever its host is mounted and the script  *)
(* is there: after every sign-out, and on both sides of the breakpoint.    *)
THEOREM ButtonIsPainted == SignInSpec => []PaintedWhenReady
<1>1. WidgetInv => PaintedWhenReady
  BY DEF WidgetInv
<1>2. QED
  BY <1>1, WidgetAlways, PTL

(* A signed-out visitor lacks Google's button for one cause only: the hook *)
(* run that waited for the script was cancelled while it loaded.           *)
THEOREM MissingButtonExplained == SignInSpec => []UnpaintedExplained
<1>1. WidgetInv => UnpaintedExplained
  <2>1. SUFFICES ASSUME WidgetInv, Rendered, SignedOut, script = "loaded", ~painted
                 PROVE  waiter = "cancelled"
    BY DEF UnpaintedExplained
  <2>2. drawn.out = SignedOut /\ drawn.ready = ready
    BY <2>1 DEF Rendered
  <2>3. ~ready
    BY <2>1, <2>2 DEF WidgetInv, PaintedWhenReady
  <2>4. QED
    BY <2>1, <2>3 DEF WidgetInv, Awaited
<1>2. QED
  BY <1>1, WidgetAlways, PTL
==============================================================================

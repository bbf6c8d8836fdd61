------------------------------- MODULE SignIn --------------------------------
(***************************************************************************)
(* The widget that offers to sign in (LoginControl.tsx, useGoogleOneTap.ts,*)
(* googleIdentity.ts): Google's script, the hook that waits for it, and    *)
(* the button that Google paints into a node React has mounted.            *)
(***************************************************************************)
EXTENDS Session

VARIABLES script,    \* Google's script: absent, loading, loaded, failed
          waiter,    \* the hook run that put it on the page: none, live, cancelled
          ready,     \* the hook's `ready`
          drawn,     \* what LoginControl last rendered: signed out? ready?
          painted    \* Google's button is in the host node on the page

widgetVars == <<script, waiter, ready, drawn, painted>>
signInVars == <<sessionVars, widgetVars>>

SignInInit ==
  /\ SessionInit
  /\ script = "absent"
  /\ waiter = "none"
  /\ ready = FALSE
  /\ drawn = [out |-> FALSE, ready |-> FALSE]
  /\ painted = FALSE

(***************************************************************************)
(* The widget: a render of LoginControl, with the ref callback that paints *)
(* Google's button and the effect of useGoogleOneTap.                      *)
(***************************************************************************)

(* The effect's init: loadGoogleScript resolves at once when it finds the  *)
(* script's tag, loaded or not, and puts it there otherwise.               *)
RunHook ==
  CASE script = "absent"  -> script' = "loading" /\ waiter' = "live" /\ ready' = ready
    [] script = "loaded"  -> ready' = TRUE /\ UNCHANGED <<script, waiter>>
    [] OTHER              -> UNCHANGED <<script, waiter, ready>>

CancelHook ==
  /\ waiter' = IF waiter = "live" THEN "cancelled" ELSE waiter
  /\ UNCHANGED <<script, ready>>

(* Mutant: an effect paints the button when `ready` changes. *)
RenderOnReady ==
  /\ drawn # [out |-> SignedOut, ready |-> ready]
  /\ drawn' = [out |-> SignedOut, ready |-> ready]
  /\ painted' = (SignedOut /\ (ready # drawn.ready \/ (drawn.out /\ painted)))
  /\ IF SignedOut = drawn.out THEN UNCHANGED <<script, waiter, ready>>
     ELSE IF SignedOut THEN RunHook ELSE CancelHook
  /\ UNCHANGED sessionVars

(* The host node is there while signed out.  Its callback runs when it is  *)
(* mounted and when `ready` changes.                                       *)
Render ==
  /\ drawn # [out |-> SignedOut, ready |-> ready]
  /\ drawn' = [out |-> SignedOut, ready |-> ready]
  /\ painted' = (SignedOut /\ (ready \/ (drawn.out /\ painted)))
  /\ IF SignedOut = drawn.out THEN UNCHANGED <<script, waiter, ready>>
     ELSE IF SignedOut THEN RunHook ELSE CancelHook
  /\ UNCHANGED sessionVars

(* The window may be resized at any time.  Crossing the breakpoint mounts  *)
(* the other variant, a host of its own.                                   *)
CrossBreakpoint ==
  /\ painted' = (drawn.out /\ drawn.ready)
  /\ UNCHANGED <<sessionVars, script, waiter, ready, drawn>>

(* Mutant: the page is not told that the script is there. *)
ScriptLoadedSilently ==
  /\ script = "loading"
  /\ script' = "loaded"
  /\ waiter' = IF waiter = "live" THEN "none" ELSE waiter
  /\ UNCHANGED <<sessionVars, ready, drawn, painted>>

ScriptLoaded ==
  /\ script = "loading"
  /\ script' = "loaded"
  /\ ready' = (waiter = "live")
  /\ waiter' = IF waiter = "live" THEN "none" ELSE waiter
  /\ UNCHANGED <<sessionVars, drawn, painted>>

ScriptFailed ==
  /\ script = "loading"
  /\ script' = "failed"
  /\ waiter' = "none"
  /\ UNCHANGED <<sessionVars, ready, drawn, painted>>

(* A Google credential comes from One Tap or from the button: neither is   *)
(* there before the script is.                                             *)
SignInNext ==
  \/ Quietly /\ UNCHANGED widgetVars
  \/ MeAnswered /\ UNCHANGED widgetVars
  \/ \E u \in Accounts : ready /\ Login(u) /\ UNCHANGED widgetVars
  \/ \E c \in calls : SessionSet(c) /\ UNCHANGED widgetVars
  \/ Render \/ CrossBreakpoint \/ ScriptLoaded \/ ScriptFailed

SignInSpec == SignInInit /\ [][SignInNext]_signInVars

(***************************************************************************)
(* What holds.                                                             *)
(***************************************************************************)

(* Google's button is painted whenever the host node is there and the      *)
(* script is: after every sign-out, on both sides of the breakpoint        *)
(* (LoginControl.tsx: "the post-logout 'no Google button' bug").           *)
PaintedWhenReady == drawn.out /\ drawn.ready => painted

Rendered == drawn = [out |-> SignedOut, ready |-> ready]

(* Once the script is there, a signed-out visitor lacks Google's button    *)
(* for one cause only: the hook run that put the script on the page was    *)
(* cancelled while it loaded, and the run after it took the tag for the    *)
(* script.                                                                 *)
UnpaintedExplained ==
  Rendered /\ SignedOut /\ script = "loaded" /\ ~painted => waiter = "cancelled"
==============================================================================

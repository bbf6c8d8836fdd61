------------------------------ MODULE MCBrowser ------------------------------
(***************************************************************************)
(* Instances of the components of a browser tab for TLC: what the pages    *)
(* show of a Link (LinkViews), the sign-in widget (SignIn), which shares   *)
(* the session with them, and the page that makes Links (Generator).  Each *)
(* is explored with the others in their initial states; of the session only*)
(* LinkViews and SignIn depend.                                            *)
(***************************************************************************)
EXTENDS LinkViews, SignIn, Generator

CONSTANT MaxSpent    \* bound: turns of the session and edits in a behaviour

Spent == (MaxTurns - budget) + (MaxEdits - clicks)

ViewsAtRest == route = "other" /\ clicks = MaxEdits /\ query = [k \in Keys |-> NoQuery]
WidgetAtRest == script = "absent" /\ ~drawn.out
GeneratorAtRest == page = Fresh /\ create = [n \in Creates |-> Unsubmitted]

tabVars == <<allVars, widgetVars, generatorVars>>

BrowserInit ==
  /\ ViewsInit /\ SignInInit /\ GeneratorInit
  /\ default = Plain

ViewsStep ==
  /\ WidgetAtRest /\ GeneratorAtRest
  /\ ViewsNext
  /\ Spent' <= MaxSpent
  /\ UNCHANGED <<widgetVars, generatorVars>>

WidgetStep ==
  /\ ViewsAtRest /\ GeneratorAtRest
  /\ SignInNext
  /\ UNCHANGED <<viewVars, generatorVars>>

GeneratorStep ==
  /\ ViewsAtRest /\ WidgetAtRest
  /\ cookie = Nobody /\ meAsk = Asked(Nobody) /\ me = Unknown /\ budget = MaxTurns /\ online
  /\ GeneratorNext
  /\ UNCHANGED <<allVars, widgetVars>>

BrowserSpec == BrowserInit /\ [][ViewsStep \/ WidgetStep \/ GeneratorStep]_tabVars

(* The views alone, with the fairness of the network. *)
ViewsAlone == BrowserInit /\ [][ViewsStep]_tabVars /\ Fairness
==============================================================================

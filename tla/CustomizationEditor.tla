------------------------- MODULE CustomizationEditor -------------------------
(***************************************************************************)
(* The panel of LinkDetail.tsx in which an owner restyles a Link, in one   *)
(* or more browser tabs, with the backend of module Customization.         *)
(*                                                                         *)
(* A PUT without a logo clears the logo, so the panel fetches the logo     *)
(* there is when it opens and sends it again with the save.  The fetch is  *)
(* not cancelled by anything: its answer comes whenever it comes.          *)
(***************************************************************************)
EXTENDS Customization

CONSTANTS Editors,    \* tabs that show the Link
          Default,    \* DEFAULT_STYLE
          MaxFetches  \* bound: logo fetches under way at the same time

Fetches == 1 .. MaxFetches

Panel == [open : BOOLEAN, style : Styles, logo : Logos \cup {Null},
          seed : Saves \cup {Null}, aware : BOOLEAN]

ClickOfSave == [by : Editors \cup {Null}, form : Picture, picture : Picture \cup {Null},
                reason : {Null, "none", "aware", "waiting"}, seed : Saves \cup {Null}]

Fetch == [by : Editors \cup {Null}, pc : {"unused", "asked", "answered"},
          logo : Logos \cup {Null}]

ASSUME EditorAssumption ==
  /\ Default \in Styles
  /\ MaxFetches \in Nat
  /\ Null \notin Editors \cup ClickOfSave

VARIABLES
  cached,   \* tab -> the save whose row its query cache holds, or Null
  panel,    \* tab -> its edit state
  pending,  \* tab -> the mutation whose outcome isSaving tells, or Null
  click,    \* save -> what its click captured, or Null
  fetch     \* logo fetches: who asked, how far, what came

clientVars == <<cached, panel, pending, click, fetch>>

vars == <<serverVars, clientVars>>

(***************************************************************************)
(* The edit state and two facts for the properties: the row the panel was  *)
(* seeded from, and whether its user knows what becomes of the logo, by    *)
(* having chosen or removed one or by the warning that it could not be     *)
(* loaded.  What a closed panel holds is reset before anyone reads it.     *)
(***************************************************************************)
Closed == [open |-> FALSE, style |-> Default, logo |-> Null, seed |-> Null, aware |-> FALSE]

NoFetch == [by |-> Null, pc |-> "unused", logo |-> Null]

Undrawn(p) == click[p] # Null /\ click[p].by # Null /\ click[p].picture = Null

(* Bound: once every save is clicked and drawn, nobody edits any more, and *)
(* the row is not fetched again for a panel that will not be opened.       *)
Editing == \E p \in Saves : click[p] = Null \/ Undrawn(p)

Enabled(e) == panel[e].open /\ pending[e] = Null

Outstanding(e) == {f \in Fetches : fetch[f].by = e}

(* useCustomization: the query is refetched on mount, on focus, after a    *)
(* save, at any time; a 404 leaves the data undefined.                     *)
Refresh(e) ==
  /\ Editing
  /\ cached' = [cached EXCEPT ![e] = IF row = Null THEN @ ELSE row.image]
  /\ UNCHANGED <<serverVars, panel, pending, click, fetch>>

(***************************************************************************)
(* openCustomizationEdit: the panel starts from what the query holds at    *)
(* the moment, or from the defaults.                                       *)
(***************************************************************************)
Seeded(e) ==
  [Closed EXCEPT !.open = TRUE, !.seed = cached[e],
                 !.style = IF cached[e] = Null THEN Default ELSE save[cached[e]].style]

HasLogo(p) == p # Null /\ save[p].logo # Null

Open(e) ==
  /\ Editing
  /\ ~panel[e].open
  /\ panel' = [panel EXCEPT ![e] = Seeded(e)]
  /\ IF HasLogo(cached[e])
       THEN \E f \in Fetches :
              /\ fetch[f].pc = "unused"
              /\ \A g \in Fetches : g < f => fetch[g].pc # "unused"
              /\ fetch' = [fetch EXCEPT ![f] = [NoFetch EXCEPT !.by = e, !.pc = "asked"]]
       ELSE UNCHANGED fetch
  /\ UNCHANGED <<serverVars, cached, pending, click>>

(* GET /logo is answered; Null is a 404 or a lost connection. *)
AnswerLogo(f, logo) ==
  /\ fetch[f].pc = "asked"
  /\ logo \in {LogoServed, Null}
  /\ fetch' = [fetch EXCEPT ![f].pc = "answered", ![f].logo = logo]
  /\ UNCHANGED <<serverVars, cached, panel, pending, click>>

Received(f) ==
  /\ fetch[f].pc = "answered"
  /\ fetch' = [fetch EXCEPT ![f] = NoFetch]

IfOpen(e, form) == IF panel[e].open THEN form ELSE Closed

(* handleEditLogoAccepted, whatever the user has done since, in a panel    *)
(* that may have been closed and opened again.                             *)
LogoArrives(f) ==
  /\ Received(f)
  /\ fetch[f].logo # Null
  /\ LET e == fetch[f].by
     IN panel' = [panel EXCEPT ![e] = IfOpen(e, [@ EXCEPT !.logo = fetch[f].logo])]
  /\ UNCHANGED <<serverVars, cached, pending, click>>

(* Mutant: a failed fetch is swallowed. *)
LogoIsLostSilently(f) ==
  /\ Received(f)
  /\ fetch[f].logo = Null
  /\ UNCHANGED <<serverVars, cached, panel, pending, click>>

LogoIsLost(f) ==
  /\ Received(f)
  /\ fetch[f].logo = Null
  /\ LET e == fetch[f].by
     IN panel' = [panel EXCEPT ![e] = IfOpen(e, [@ EXCEPT !.aware = TRUE])]
  /\ UNCHANGED <<serverVars, cached, pending, click>>

(***************************************************************************)
(* The controls, disabled while a save is pending.  A file the drop zone   *)
(* refuses changes a message only.                                         *)
(***************************************************************************)
Restyle(e, style) ==
  /\ Editing
  /\ Enabled(e)
  /\ panel' = [panel EXCEPT ![e].style = style]
  /\ UNCHANGED <<serverVars, cached, pending, click, fetch>>

ChooseLogo(e, logo) ==
  /\ Editing
  /\ Enabled(e)
  /\ panel[e].logo = Null
  /\ panel' = [panel EXCEPT ![e] = [@ EXCEPT !.logo = logo, !.aware = TRUE]]
  /\ UNCHANGED <<serverVars, cached, pending, click, fetch>>

RemoveLogo(e) ==
  /\ Editing
  /\ Enabled(e)
  /\ panel[e].logo # Null
  /\ panel' = [panel EXCEPT ![e] = [@ EXCEPT !.logo = Null, !.aware = TRUE]]
  /\ UNCHANGED <<serverVars, cached, pending, click, fetch>>

(***************************************************************************)
(* saveCustomizationEdit.  The click captures the edit state; the image is *)
(* then taken from the live preview, which is drawn some time later and    *)
(* follows the controls.  Until the PUT starts nothing is disabled, not    *)
(* even the button.                                                        *)
(***************************************************************************)
Preview(form) == [style |-> form.style, logo |-> form.logo]

(* Why a save may carry no logo, as far as its panel knows. *)
Reason(e) ==
  IF panel[e].logo # Null THEN Null
  ELSE IF panel[e].aware THEN "aware"
  ELSE IF Outstanding(e) # {} THEN "waiting" ELSE "none"

Click(e, p) ==
  /\ Enabled(e)
  /\ click[p] = Null
  /\ \A q \in Saves : q < p => click[q] # Null
  /\ click' = [click EXCEPT ![p] = [by |-> e, form |-> Preview(panel[e]), picture |-> Null,
                                    reason |-> Reason(e),
                                    seed |-> IF Reason(e) \in {"none", "waiting"} THEN panel[e].seed ELSE Null]]
  /\ UNCHANGED <<serverVars, cached, panel, pending, fetch>>

DrawnAs(p) == [click[p] EXCEPT !.picture = Preview(panel[click[p].by])]

Draw(p) ==
  /\ Undrawn(p)
  /\ click' = [click EXCEPT ![p] = DrawnAs(p)]
  /\ UNCHANGED <<serverVars, cached, panel, pending, fetch>>

Closing(p) == [click EXCEPT ![p].by = Null]

(* toBlob fails: a toast, and nothing is sent. *)
DrawFails(p) ==
  /\ Undrawn(p)
  /\ click' = Closing(p)
  /\ UNCHANGED <<serverVars, cached, panel, pending, fetch>>

(* A closed panel's preview changes no more. *)
Close(e, clicks) ==
  /\ panel' = [panel EXCEPT ![e] = Closed]
  /\ click' = [p \in Saves |-> IF Undrawn(p) /\ click[p].by = e THEN DrawnAs(p) ELSE clicks[p]]

Cancel(e) ==
  /\ Enabled(e)
  /\ Close(e, click)
  /\ UNCHANGED <<serverVars, cached, pending, fetch>>

SendForm(p, form) ==
  /\ click[p] # Null
  /\ click[p].picture # Null
  /\ Submit(p, form.style, click[p].picture, form.logo)
  /\ pending' = [pending EXCEPT ![click[p].by] = p]
  /\ UNCHANGED <<cached, panel, click, fetch>>

(* Mutant: the recipe is read from the panel after the preview is drawn. *)
SendLate(p) == SendForm(p, panel[click[p].by])

Send(p) == SendForm(p, click[p].form)

(* The mutation settles.  isSaving speaks of the last one only. *)
Answered(p, pcs) ==
  /\ save[p].pc \in pcs
  /\ click[p].by # Null
  /\ pending' = [e \in Editors |-> IF pending[e] = p THEN Null ELSE pending[e]]

Saved(p) ==
  /\ Answered(p, {"saved"})
  /\ Close(click[p].by, Closing(p))
  /\ UNCHANGED <<serverVars, cached, fetch>>

(* An error status, or an answer that was lost on its way. *)
SaveFails(p) ==
  /\ Answered(p, {"saved", "failed"})
  /\ click' = Closing(p)
  /\ UNCHANGED <<serverVars, cached, panel, fetch>>

Init ==
  /\ ServerInit
  /\ cached = [e \in Editors |-> Null]
  /\ panel = [e \in Editors |-> Closed]
  /\ pending = [e \in Editors |-> Null]
  /\ click = [p \in Saves |-> Null]
  /\ fetch = [f \in Fetches |-> NoFetch]

Server == ServerStep /\ UNCHANGED clientVars

Edit(e) ==
  \/ Refresh(e) \/ Open(e) \/ RemoveLogo(e) \/ Cancel(e)
  \/ \E style \in Styles : Restyle(e, style)
  \/ \E logo \in Logos : ChooseLogo(e, logo)
  \/ \E p \in Saves : Click(e, p)

Deliver(f) ==
  \/ \E logo \in Logos \cup {Null} : AnswerLogo(f, logo)
  \/ LogoArrives(f)
  \/ LogoIsLost(f)

Settle(p) == Draw(p) \/ DrawFails(p) \/ Send(p) \/ Saved(p) \/ SaveFails(p)

Next ==
  \/ Server
  \/ \E e \in Editors : Edit(e)
  \/ \E f \in Fetches : Deliver(f)
  \/ \E p \in Saves : Settle(p)

Spec == Init /\ [][Next]_vars

(***************************************************************************)
(* Properties.                                                             *)
(***************************************************************************)
(* Every variable has its type; what a tab has cached was saved once. *)
TypeOK ==
  /\ ServerTypeOK
  /\ cached \in [Editors -> Saves \cup {Null}]
  /\ \A e \in Editors : cached[e] # Null => composites[cached[e]] # Null
  /\ panel \in [Editors -> Panel]
  /\ pending \in [Editors -> Saves \cup {Null}]
  /\ click \in [Saves -> ClickOfSave \cup {Null}]
  /\ fetch \in [Fetches -> Fetch]

(* The public image shows the style of the recipe and the logo the owner   *)
(* is served, whichever saves of whichever tabs overlapped, failed half-way *)
(* or were cut off by a crash.  Only a panel that changed between a click  *)
(* and the drawing of its image can tell them apart.                       *)
WhatYouSeeIsSaved ==
  row # Null =>
    LET c == click[row.image] IN
    \/ ImageServed = [style |-> row.style, logo |-> LogoServed]
    \/ c.picture # c.form

(* When a save clears a logo, either its user chose so or was warned, or   *)
(* the save was clicked while the logo was still being fetched, or the     *)
(* panel was seeded from another row than the one it replaced (none yet    *)
(* loaded, or one that another tab has replaced).  Nothing else loses one. *)
LogoLossExplained ==
  [][row # Null /\ row.logo # Null /\ row'.logo = Null =>
       LET c == click[row'.image]
       IN c.reason = "none" => c.seed # row.image]_vars

(* LinkDetail.tsx: "editing only the colours/dot-style does NOT silently   *)
(* destroy it".                                                            *)
KeptLogoSurvives ==
  [][row # Null /\ row.logo # Null /\ row'.logo = Null =>
       LET c == click[row'.image]
       IN c.reason \in {"none", "waiting"} => c.seed # row.image]_vars
==============================================================================

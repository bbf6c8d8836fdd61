------------------------------ MODULE Generator ------------------------------
(***************************************************************************)
(* The page that makes a Link (frontend/src/pages/Generator.tsx): a form,  *)
(* a look that the user changes, a live preview of it, and what becomes of *)
(* all three while requests are under way.                                 *)
(*                                                                         *)
(* A create is numbered by its submission, and the Link it mints has its   *)
(* number.  The callbacks given to mutate() run only for the mutation the  *)
(* page holds: not after a reset, nor when the page was left.  What they   *)
(* start goes on whatever happens to the page: the composite is taken from *)
(* the canvas of the preview when it is drawn, and uploaded.               *)
(***************************************************************************)
EXTENDS Naturals

CONSTANTS Styles,
          Plain,      \* DEFAULT_STYLE
          Logos,
          None,
          MaxLinks    \* bound: submissions in a behaviour

Look == [style : Styles, logo : Logos \cup {None}]

ASSUME GeneratorAssumption ==
  /\ Plain \in Styles
  /\ None \notin Styles \cup Logos \cup Look
  /\ MaxLinks \in Nat

Creates == 1 .. MaxLinks

NoLink == 0           \* the preview then encodes a placeholder

Picture == [link : Creates \cup {NoLink}, look : Look]

NoRow == [look |-> None, image |-> None]

VARIABLES
  page,      \* on the page or not, the Link it shows, the look it shows
  pending,   \* the create whose mutation it holds, or NoLink
  default,   \* localStorage: the style of a new page
  create,    \* submission -> how far it has come, its look, its picture
  stored     \* the backend: Link -> the look and the picture saved, or NoRow

generatorVars == <<page, pending, default, create, stored>>

Unsubmitted == [pc |-> "unsent", look |-> None, picture |-> None, disturbed |-> FALSE]

Fresh == [here |-> TRUE, shown |-> NoLink, look |-> [style |-> default, logo |-> None]]

GeneratorInit ==
  /\ default \in Styles
  /\ page = Fresh
  /\ pending = NoLink
  /\ create = [n \in Creates |-> Unsubmitted]
  /\ stored = [n \in Creates |-> NoRow]

At(n, pcs) == create[n].pc \in pcs

(* The preview follows the Link and the look on the page.                  *)
Canvas == [link |-> page.shown, look |-> page.look]

(* What is drawn later differs from what the answer has started.           *)
Disturb(creates) ==
  [n \in Creates |-> IF creates[n].pc = "drawing"
                       THEN [creates[n] EXCEPT !.disturbed = TRUE] ELSE creates[n]]

(***************************************************************************)
(* The look.  Every control is disabled while a create is pending.         *)
(***************************************************************************)
Busy == pending # NoLink

Editable == page.here /\ ~Busy

(* handleStyleChange.  A style is stored for the next new page, or for the *)
(* Link shown, where nobody reads it; setItem throws when localStorage is  *)
(* full or blocked, after the page has its style.                          *)
Restyle(style) ==
  /\ Editable
  /\ page' = [page EXCEPT !.look.style = style]
  /\ \/ page.shown = NoLink /\ default' = style
     \/ UNCHANGED default
  /\ create' = Disturb(create)
  /\ UNCHANGED <<pending, stored>>

ChangeLogo(logo) ==
  /\ Editable
  /\ page' = [page EXCEPT !.look.logo = logo]
  /\ create' = Disturb(create)
  /\ UNCHANGED <<pending, default, stored>>

(* The drop zone is there while there is no logo; a refused file changes   *)
(* nothing but a message.                                                  *)
ChooseLogo(logo) == page.look.logo = None /\ ChangeLogo(logo)

RemoveLogo == page.look.logo # None /\ ChangeLogo(None)

(***************************************************************************)
(* The form.                                                               *)
(***************************************************************************)
Create(n) ==
  /\ Editable
  /\ At(n, {"unsent"})
  /\ \A m \in Creates : m < n => ~At(m, {"unsent"})
  /\ create' = [create EXCEPT ![n].pc = "sent", ![n].look = page.look]
  /\ pending' = n
  /\ UNCHANGED <<page, default, stored>>

(* handleReset.  It is offered while a Link is shown, a create pending or  *)
(* not.  The logo stays.                                                   *)
Reset ==
  /\ page.here /\ page.shown # NoLink
  /\ page' = [page EXCEPT !.shown = NoLink, !.look.style = default]
  /\ pending' = NoLink
  /\ create' = Disturb(create)
  /\ UNCHANGED <<default, stored>>

(* What is being drawn for a page that is left is what it last showed.     *)
Drawn(creates) ==
  [n \in Creates |-> IF creates[n].pc = "drawing"
                       THEN [creates[n] EXCEPT !.pc = "saving", !.picture = Canvas]
                       ELSE creates[n]]

Leave ==
  /\ page.here
  /\ page' = [page EXCEPT !.here = FALSE]
  /\ pending' = NoLink
  /\ create' = Drawn(create)
  /\ UNCHANGED <<default, stored>>

Return ==
  /\ ~page.here
  /\ page' = Fresh
  /\ UNCHANGED <<pending, default, create, stored>>

(***************************************************************************)
(* The answer to a create.                                                 *)
(***************************************************************************)
Mint(n) ==
  /\ At(n, {"sent"})
  /\ create' = [create EXCEPT ![n].pc = "minted"]
  /\ UNCHANGED <<page, pending, default, stored>>

Customized(look) == look.style # Plain \/ look.logo # None

(* Mutant: the callback of whichever create is answered runs. *)
HeardAlways(n) == page.here

Heard(n) == page.here /\ pending = n

(* onCreateSuccess up to its first await.                                  *)
AnnounceThen(n, pc) ==
  /\ Heard(n)
  /\ At(n, {"minted"})
  /\ page' = [page EXCEPT !.shown = n]
  /\ pending' = NoLink
  /\ create' = [Disturb(create) EXCEPT ![n].pc = pc]
  /\ UNCHANGED <<default, stored>>

Announce(n) ==
  AnnounceThen(n, IF Customized(create[n].look) THEN "drawing" ELSE "plain")

(* setItem throws, and with it all that was to follow, for nobody to hear. *)
AnnounceThrows(n) == AnnounceThen(n, "dropped")

Over(n, pc) == create' = [create EXCEPT ![n] = [Unsubmitted EXCEPT !.pc = pc]]

(* Mutant: an error does not end the waiting. *)
CreateFailsBusy(n) ==
  /\ Heard(n)
  /\ At(n, {"sent", "minted"})
  /\ Over(n, "failed")
  /\ UNCHANGED <<page, pending, default, stored>>

(* onCreateError, for a refusal, or a request or an answer that is lost.   *)
CreateFails(n) ==
  /\ Heard(n)
  /\ At(n, {"sent", "minted"})
  /\ pending' = NoLink
  /\ Over(n, "failed")
  /\ UNCHANGED <<page, default, stored>>

(* Nobody is told of a create that the page has let go.                    *)
Unheard(n) ==
  /\ ~Heard(n)
  /\ At(n, {"sent", "minted"})
  /\ Over(n, "unheard")
  /\ UNCHANGED <<page, pending, default, stored>>

(***************************************************************************)
(* The composite.                                                          *)
(***************************************************************************)
Draw(n) ==
  /\ At(n, {"drawing"})
  /\ create' = [create EXCEPT ![n].pc = "saving", ![n].picture = Canvas]
  /\ UNCHANGED <<page, pending, default, stored>>

(* Mutant: the look is read from the page after the drawing. *)
SaveLate(n) ==
  /\ At(n, {"saving"})
  /\ stored' = [stored EXCEPT ![n] = [look |-> page.look, image |-> create[n].picture]]
  /\ create' = [create EXCEPT ![n].pc = "stored", ![n].picture = None]
  /\ UNCHANGED <<page, pending, default>>

(* saveCustomization: the look of the submission with the picture drawn.   *)
Save(n) ==
  /\ At(n, {"saving"})
  /\ stored' = [stored EXCEPT ![n] = [look |-> create[n].look, image |-> create[n].picture]]
  /\ create' = [create EXCEPT ![n].pc = "stored", ![n].picture = None]
  /\ UNCHANGED <<page, pending, default>>

Saved(n) ==
  /\ At(n, {"stored"})
  /\ create' = [create EXCEPT ![n].pc = "saved"]
  /\ UNCHANGED <<page, pending, default, stored>>

(* The drawing, the PUT or its answer fails: a toast, wherever the user is.*)
SaveFails(n) ==
  /\ At(n, {"drawing", "saving", "stored"})
  /\ create' = [create EXCEPT ![n].pc = "told", ![n].picture = None]
  /\ UNCHANGED <<page, pending, default, stored>>

GeneratorNext ==
  \/ \E style \in Styles : Restyle(style)
  \/ \E logo \in Logos : ChooseLogo(logo)
  \/ RemoveLogo \/ Reset \/ Leave \/ Return
  \/ \E n \in Creates :
       \/ Create(n) \/ Mint(n) \/ Announce(n) \/ AnnounceThrows(n)
       \/ CreateFails(n) \/ Unheard(n)
       \/ Draw(n) \/ Save(n) \/ Saved(n) \/ SaveFails(n)

GeneratorSpec == GeneratorInit /\ [][GeneratorNext]_generatorVars

(***************************************************************************)
(* What holds.                                                             *)
(***************************************************************************)
Stages == {"unsent", "sent", "minted", "failed", "unheard", "plain", "dropped",
           "drawing", "saving", "stored", "saved", "told"}

(* Every variable has its type, and the pending create is under way: the   *)
(* page is never disabled for a request that is over.                      *)
GeneratorTypeOK ==
  /\ page \in [here : BOOLEAN, shown : Creates \cup {NoLink}, look : Look]
  /\ pending \in Creates \cup {NoLink}
  /\ default \in Styles
  /\ create \in [Creates -> [pc : Stages, look : Look \cup {None},
                             picture : Picture \cup {None}, disturbed : BOOLEAN]]
  /\ stored \in [Creates -> [look : Look \cup {None}, image : Picture \cup {None}]]
  /\ \A n \in Creates : create[n].look = None <=> At(n, {"unsent", "failed", "unheard"})
  /\ pending # NoLink => At(pending, {"sent", "minted"}) /\ page.here

(* The server keeps a Link under the look it was submitted with, and a     *)
(* picture of that look that leads to that Link.  Only a page that was     *)
(* restyled, reset or used again while the picture was being drawn can     *)
(* make it another one.                                                    *)
SavedAsSubmitted ==
  \A n \in Creates : stored[n] # NoRow =>
    /\ stored[n].look = create[n].look
    /\ stored[n].image = [link |-> n, look |-> create[n].look] \/ create[n].disturbed

(* The page shows the newest Link of those it has announced: an answer     *)
(* that comes after the user has moved on never puts an older one back.    *)
NewestIsShown ==
  page.shown # NoLink =>
    \A n \in Creates :
      n > page.shown => At(n, {"unsent", "sent", "minted", "failed", "unheard"})

(* ADR 0011: a customized QR is to "come back exactly as they made it".    *)
(* Once the create of the Link on the page is over, the backend has the    *)
(* look that the page shows, or a toast told that saving it failed.        *)
LookComesBack ==
  LET n == page.shown IN
  page.here /\ n # NoLink /\ At(n, {"plain", "dropped", "saved"})
    => IF stored[n] = NoRow THEN ~Customized(page.look) ELSE stored[n].look = page.look
==============================================================================

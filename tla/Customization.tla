---------------------------- MODULE Customization ----------------------------
(***************************************************************************)
(* The customization of one Link as the backend keeps it: one row of       *)
(* link_customizations and, in object storage, a composite and possibly a  *)
(* logo for every save.                                                    *)
(*                                                                         *)
(* put_customization is a coroutine.  It lets others run while it awaits   *)
(* the uploaded bytes; from there to its return it keeps the event loop,   *)
(* so that saves interleave only at the awaits.  Readers are plain         *)
(* functions on threads and see every single write.                        *)
(*                                                                         *)
(* A save makes fresh keys (uuid4), so its number stands for its keys.  It *)
(* does not look at the Link's state: a deleted Link can be customized.    *)
(***************************************************************************)
EXTENDS Naturals, FiniteSets

CONSTANTS Styles,    \* style recipes
          Logos,     \* contents of an uploaded logo
          MaxSaves,  \* bound: saves ever submitted
          Faults,    \* which faults may happen: "crash", "storage", "database"
          Null

Saves == 1 .. MaxSaves

(* What a composite shows. *)
Picture == [style : Styles, logo : Logos \cup {Null}]

Row == [style : Styles, image : Saves, logo : Saves \cup {Null}]

ASSUME CustomizationAssumption ==
  /\ MaxSaves \in Nat
  /\ Faults \subseteq {"crash", "storage", "database"}
  /\ Null \notin Styles \cup Logos \cup Nat \cup Picture \cup Row

VARIABLES
  row,         \* the Link's row of link_customizations, or Null
  composites,  \* storage: the composite a save wrote, or Null
  logos,       \* storage: the logo a save wrote, or Null
  save         \* what each PUT carries and how far it has come

storage == <<composites, logos>>

serverVars == <<row, composites, logos, save>>

Unsent == [pc |-> "unsent", style |-> Null, image |-> Null, logo |-> Null]

SaveAt(p, pc) == save[p].pc = pc

(* From the first write to the answer a save keeps the event loop. *)
LoopIsFree == \A p \in Saves : save[p].pc \notin {"logo", "row"}

(***************************************************************************)
(* The request is in, its caller is the owner, its style is an object.     *)
(***************************************************************************)
Submit(p, style, image, logo) ==
  /\ SaveAt(p, "unsent")
  /\ save' = [save EXCEPT ![p] = [pc |-> "reading", style |-> style,
                                  image |-> image, logo |-> logo]]
  /\ UNCHANGED <<row, storage>>

(* No session any more, or bytes that are too many or no image: 4xx. *)
Refuse(p) ==
  /\ SaveAt(p, "reading")
  /\ save' = [save EXCEPT ![p].pc = "failed"]
  /\ UNCHANGED <<row, storage>>

(***************************************************************************)
(* The bytes are read: the composite and then the logo go to storage, each *)
(* under a key of its own, and the row is written last.                    *)
(***************************************************************************)
(* Mutant: a failed upload is swallowed. *)
StoreCompositeUnchecked(p) ==
  /\ SaveAt(p, "reading")
  /\ LoopIsFree
  /\ composites' \in {composites, [composites EXCEPT ![p] = save[p].image]}
  /\ save' = [save EXCEPT ![p].pc = IF save[p].logo = Null THEN "row" ELSE "logo"]
  /\ UNCHANGED <<row, logos>>

StoreComposite(p) ==
  /\ SaveAt(p, "reading")
  /\ LoopIsFree
  /\ composites' = [composites EXCEPT ![p] = save[p].image]
  /\ save' = [save EXCEPT ![p].pc = IF save[p].logo = Null THEN "row" ELSE "logo"]
  /\ UNCHANGED <<row, logos>>

StoreLogo(p) ==
  /\ SaveAt(p, "logo")
  /\ logos' = [logos EXCEPT ![p] = save[p].logo]
  /\ save' = [save EXCEPT ![p].pc = "row"]
  /\ UNCHANGED <<row, composites>>

RowOf(p) == [style |-> save[p].style, image |-> p,
             logo |-> IF save[p].logo = Null THEN Null ELSE p]

(* Mutant: a save without a logo keeps the old one. *)
UpsertKeepsLogo(p) ==
  /\ SaveAt(p, "row")
  /\ row' = IF row # Null /\ save[p].logo = Null THEN [RowOf(p) EXCEPT !.logo = row.logo]
                                                 ELSE RowOf(p)
  /\ save' = [save EXCEPT ![p].pc = "saved"]
  /\ UNCHANGED storage

(* upsert_customization replaces every column; no logo means none. *)
Upsert(p) ==
  /\ SaveAt(p, "row")
  /\ row' = RowOf(p)
  /\ save' = [save EXCEPT ![p].pc = "saved"]
  /\ UNCHANGED storage

(***************************************************************************)
(* Faults.  Nothing is undone: objects already stored stay behind.         *)
(***************************************************************************)
StorageFails(p) ==
  /\ "storage" \in Faults
  /\ SaveAt(p, "logo") \/ (SaveAt(p, "reading") /\ LoopIsFree)
  /\ save' = [save EXCEPT ![p].pc = "failed"]
  /\ UNCHANGED <<row, storage>>

DatabaseFails(p) ==
  /\ "database" \in Faults
  /\ SaveAt(p, "row")
  /\ save' = [save EXCEPT ![p].pc = "failed"]
  /\ UNCHANGED <<row, storage>>

(* The commit is done, its acknowledgement or the refresh is not. *)
UpsertUnacknowledged(p) ==
  /\ "database" \in Faults
  /\ SaveAt(p, "row")
  /\ row' = RowOf(p)
  /\ save' = [save EXCEPT ![p].pc = "failed"]
  /\ UNCHANGED storage

ServerCrash ==
  /\ "crash" \in Faults
  /\ save' = [p \in Saves |-> IF save[p].pc \in {"reading", "logo", "row"}
                                THEN [save[p] EXCEPT !.pc = "failed"] ELSE save[p]]
  /\ UNCHANGED <<row, storage>>

ServerInit ==
  /\ row = Null
  /\ composites = [p \in Saves |-> Null]
  /\ logos = [p \in Saves |-> Null]
  /\ save = [p \in Saves |-> Unsent]

Progress(p) == StoreComposite(p) \/ StoreLogo(p) \/ Upsert(p)

ServerFault ==
  \/ \E p \in Saves : StorageFails(p) \/ DatabaseFails(p) \/ UpsertUnacknowledged(p)
  \/ ServerCrash

ServerStep == (\E p \in Saves : Progress(p) \/ Refuse(p)) \/ ServerFault

ServerNext ==
  \/ \E p \in Saves, style \in Styles, image \in Picture, logo \in Logos \cup {Null} :
       Submit(p, style, image, logo)
  \/ ServerStep

ServerSpec == ServerInit /\ [][ServerNext]_serverVars

(***************************************************************************)
(* What the readers answer.                                                *)
(***************************************************************************)

(* GET /image: the composite of the row, and the plain code for a Link     *)
(* without one or when the object is gone.                                 *)
ImageServed ==
  IF row # Null /\ composites[row.image] # Null THEN composites[row.image] ELSE Null

(* GET /logo: 404 without a row, without a logo, or without its object. *)
LogoServed == IF row # Null /\ row.logo # Null THEN logos[row.logo] ELSE Null

(***************************************************************************)
(* Properties.                                                             *)
(***************************************************************************)
SaveRequest ==
  [pc : {"unsent", "reading", "logo", "row", "saved", "failed"},
   style : Styles \cup {Null}, image : Picture \cup {Null}, logo : Logos \cup {Null}]

ServerTypeOK ==
  /\ row \in Row \cup {Null}
  /\ composites \in [Saves -> Picture \cup {Null}]
  /\ logos \in [Saves -> Logos \cup {Null}]
  /\ save \in [Saves -> SaveRequest]
  /\ \A p \in Saves : save[p].pc # "unsent" => save[p].style \in Styles /\ save[p].image \in Picture

(* The row, the composite it names and the logo it names come from one and *)
(* the same save, and are all there: whatever fails, crashes or runs at    *)
(* the same time, readers are never sent to an object that was not stored, *)
(* nor given the logo of one save with the composite of another.           *)
RowIsOneSave ==
  row # Null =>
    LET p == row.image IN
    /\ row = RowOf(p)
    /\ ImageServed = save[p].image
    /\ LogoServed = save[p].logo
==============================================================================

------------------------- MODULE CustomizationProofs -------------------------
(***************************************************************************)
(* Proofs about Customization and CustomizationEditor, for any number of   *)
(* tabs, saves and fetches and whatever faults happen.                     *)
(***************************************************************************)
EXTENDS CustomizationEditor, TLAPS

(***************************************************************************)
(* The inductive invariant.  A save that has come far enough has stored    *)
(* what it carries, a row is the row of a save that has come to its end,   *)
(* and what a save carries is what its click captured and drew.            *)
(***************************************************************************)
SavesTyped == save \in [Saves -> SaveRequest]

SentWhole(p) == save[p].pc # "unsent" => save[p].style \in Styles /\ save[p].image \in Picture

StoredSoFar(p) ==
  /\ composites[p] # Null => save[p].pc # "unsent"
  /\ save[p].pc \in {"logo", "row"} => composites[p] = save[p].image
  /\ save[p].pc = "row" /\ save[p].logo # Null => logos[p] = save[p].logo

RowOfSave(p) ==
  /\ p \in Saves
  /\ row = RowOf(p)
  /\ save[p].pc \in {"saved", "failed"}
  /\ composites[p] = save[p].image
  /\ save[p].logo # Null => logos[p] = save[p].logo

ServerInv ==
  /\ SavesTyped
  /\ composites \in [Saves -> Picture \cup {Null}]
  /\ logos \in [Saves -> Logos \cup {Null}]
  /\ \A p \in Saves : SentWhole(p) /\ StoredSoFar(p)
  /\ row # Null => \E p \in Saves : RowOfSave(p)

(***************************************************************************)
(* Every server step keeps it.                                             *)
(***************************************************************************)
LEMMA InitServer == ASSUME ServerInit PROVE ServerInv
BY DEF ServerInit, ServerInv, SavesTyped, SaveRequest, Unsent, SentWhole, StoredSoFar

(* The image of a save that was sent is a picture, hence not Null. *)
LEMMA SubmitKeeps ==
  ASSUME ServerInv,
         NEW p \in Saves, NEW style \in Styles, NEW image \in Picture, NEW logo \in Logos \cup {Null},
         Submit(p, style, image, logo)
  PROVE  ServerInv'
<1> USE DEF ServerInv, Submit, SaveAt, storage
<1>1. SavesTyped'
  BY DEF SavesTyped, SaveRequest
<1>2. \A q \in Saves : SentWhole(q)' /\ StoredSoFar(q)'
  BY DEF SentWhole, StoredSoFar, SavesTyped, SaveRequest
<1>3. ASSUME NEW q \in Saves, RowOfSave(q) PROVE RowOfSave(q)'
  BY <1>3 DEF RowOfSave, RowOf, SavesTyped, SaveRequest
<1>4. QED BY <1>1, <1>2, <1>3

(* A save that only changes its pc, and only towards "failed". *)
LEMMA FailKeeps ==
  ASSUME ServerInv, NEW p \in Saves,
         save[p].pc \in {"reading", "logo", "row"},
         save' = [save EXCEPT ![p].pc = "failed"],
         UNCHANGED <<row, storage>>
  PROVE  ServerInv'
<1> USE DEF ServerInv, storage
<1>1. SavesTyped'
  BY DEF SavesTyped, SaveRequest
<1>2. \A q \in Saves : SentWhole(q)' /\ StoredSoFar(q)'
  BY DEF SentWhole, StoredSoFar, SavesTyped, SaveRequest
<1>3. ASSUME NEW q \in Saves, RowOfSave(q) PROVE RowOfSave(q)'
  BY <1>3 DEF RowOfSave, RowOf, SavesTyped, SaveRequest
<1>4. QED BY <1>1, <1>2, <1>3

LEMMA StoreCompositeKeeps ==
  ASSUME ServerInv, NEW p \in Saves, StoreComposite(p) PROVE ServerInv'
<1> USE DEF ServerInv, StoreComposite, SaveAt
<1>1. SavesTyped'
  BY DEF SavesTyped, SaveRequest
<1>2. composites' \in [Saves -> Picture \cup {Null}]
  BY DEF SentWhole
<1>3. \A q \in Saves : SentWhole(q)' /\ StoredSoFar(q)'
  BY DEF SentWhole, StoredSoFar, SavesTyped, SaveRequest
<1>4. ASSUME NEW q \in Saves, RowOfSave(q) PROVE RowOfSave(q)'
  BY <1>4 DEF RowOfSave, RowOf, SavesTyped, SaveRequest
<1>5. QED BY <1>1, <1>2, <1>3, <1>4

LEMMA StoreLogoKeeps ==
  ASSUME ServerInv, NEW p \in Saves, StoreLogo(p) PROVE ServerInv'
<1> USE DEF ServerInv, StoreLogo, SaveAt
<1>1. SavesTyped'
  BY DEF SavesTyped, SaveRequest
<1>2. logos' \in [Saves -> Logos \cup {Null}]
  BY DEF SavesTyped, SaveRequest
<1>3. \A q \in Saves : SentWhole(q)' /\ StoredSoFar(q)'
  BY DEF SentWhole, StoredSoFar, SavesTyped, SaveRequest
<1>4. ASSUME NEW q \in Saves, RowOfSave(q) PROVE RowOfSave(q)'
  BY <1>4 DEF RowOfSave, RowOf, SavesTyped, SaveRequest
<1>5. QED BY <1>1, <1>2, <1>3, <1>4

(* The row is written, acknowledged or not. *)
LEMMA UpsertKeeps ==
  ASSUME ServerInv, NEW p \in Saves, SaveAt(p, "row"), row' = RowOf(p),
         NEW pc \in {"saved", "failed"},
         save' = [save EXCEPT ![p].pc = pc],
         UNCHANGED storage
  PROVE  ServerInv'
<1> USE DEF ServerInv, SaveAt, storage
<1>1. SavesTyped'
  BY DEF SavesTyped, SaveRequest
<1>2. \A q \in Saves : SentWhole(q)' /\ StoredSoFar(q)'
  BY DEF SentWhole, StoredSoFar, SavesTyped, SaveRequest
<1>3. RowOfSave(p)'
  BY DEF RowOfSave, RowOf, StoredSoFar, SavesTyped, SaveRequest
<1>4. QED BY <1>1, <1>2, <1>3

LEMMA CrashKeeps ==
  ASSUME ServerInv, ServerCrash PROVE ServerInv'
<1> USE DEF ServerInv, ServerCrash, storage
<1>1. SavesTyped'
  <2>1. \A q \in Saves : save[q] \in SaveRequest
    BY DEF SavesTyped
  <2>2. \A q \in Saves : [save[q] EXCEPT !.pc = "failed"] \in SaveRequest
    BY <2>1 DEF SaveRequest
  <2>3. QED BY <2>1, <2>2 DEF SavesTyped
<1>2. \A q \in Saves : SentWhole(q)' /\ StoredSoFar(q)'
  BY DEF SentWhole, StoredSoFar, SavesTyped, SaveRequest
<1>3. ASSUME NEW q \in Saves, RowOfSave(q) PROVE RowOfSave(q)'
  BY <1>3 DEF RowOfSave, RowOf, SavesTyped, SaveRequest
<1>4. QED BY <1>1, <1>2, <1>3

LEMMA ServerStepKeeps ==
  ASSUME ServerInv, ServerStep PROVE ServerInv'
<1>1. ASSUME NEW p \in Saves, Refuse(p) \/ StorageFails(p) \/ DatabaseFails(p) PROVE ServerInv'
  <2>1. save[p].pc \in {"reading", "logo", "row"}
    BY <1>1 DEF Refuse, StorageFails, DatabaseFails, SaveAt
  <2>2. save' = [save EXCEPT ![p].pc = "failed"] /\ UNCHANGED <<row, storage>>
    BY <1>1 DEF Refuse, StorageFails, DatabaseFails
  <2>3. QED BY <2>1, <2>2, FailKeeps
<1>2. ASSUME NEW p \in Saves, Upsert(p) PROVE ServerInv'
  BY <1>2, UpsertKeeps DEF Upsert
<1>3. ASSUME NEW p \in Saves, UpsertUnacknowledged(p) PROVE ServerInv'
  BY <1>3, UpsertKeeps DEF UpsertUnacknowledged
<1>4. QED
  BY <1>1, <1>2, <1>3, StoreCompositeKeeps, StoreLogoKeeps, CrashKeeps
  DEF ServerStep, ServerFault, Progress

LEMMA ServerStutters ==
  ASSUME ServerInv, UNCHANGED serverVars PROVE ServerInv'
BY DEF ServerInv, serverVars, storage, SavesTyped, SentWhole, StoredSoFar, RowOfSave, RowOf

(***************************************************************************)
(* The row and its objects, from the invariant.                            *)
(***************************************************************************)
LEMMA RowIsServed ==
  ASSUME ServerInv PROVE RowIsOneSave
<1> SUFFICES ASSUME row # Null
             PROVE  LET p == row.image IN
                    /\ row = RowOf(p)
                    /\ ImageServed = save[p].image
                    /\ LogoServed = save[p].logo
  BY DEF RowIsOneSave
<1>1. PICK p \in Saves : RowOfSave(p)
  BY DEF ServerInv
<1>2. row.image = p /\ row.logo = IF save[p].logo = Null THEN Null ELSE p
  BY <1>1 DEF RowOfSave, RowOf
<1>3. save[p].image # Null
  BY <1>1, CustomizationAssumption DEF ServerInv, RowOfSave, SentWhole
<1>4. p # Null
  BY CustomizationAssumption DEF Saves
<1>5. ImageServed = save[p].image
  BY <1>1, <1>2, <1>3 DEF ImageServed, RowOfSave
<1>6. LogoServed = save[p].logo
  BY <1>1, <1>2, <1>4 DEF LogoServed, RowOfSave
<1>7. QED BY <1>1, <1>2, <1>5, <1>6 DEF RowOfSave

(***************************************************************************)
(* What a save carries is what its click captured and drew: neither is     *)
(* changed by anything once the image is drawn.                            *)
(***************************************************************************)
ClientTyped ==
  /\ cached \in [Editors -> Saves \cup {Null}]
  /\ panel \in [Editors -> Panel]
  /\ pending \in [Editors -> Saves \cup {Null}]
  /\ click \in [Saves -> ClickOfSave \cup {Null}]
  /\ fetch \in [Fetches -> Fetch]

(* A click whose image is yet to be drawn has not sent its save. *)
CarriesClick(p) ==
  save[p].pc # "unsent" =>
    /\ click[p] # Null
    /\ save[p].style = click[p].form.style
    /\ save[p].logo = click[p].form.logo
    /\ save[p].image = click[p].picture
    /\ click[p].picture # Null

CachedIsStored == \A e \in Editors : cached[e] # Null => composites[cached[e]] # Null

ClientInv ==
  /\ ClientTyped
  /\ CachedIsStored
  /\ \A p \in Saves : CarriesClick(p)

IInv == ServerInv /\ ClientInv

LEMMA InitClient == ASSUME Init PROVE ClientInv
BY EditorAssumption, CustomizationAssumption
DEF Init, ServerInit, ClientInv, ClientTyped, CachedIsStored, CarriesClick, Undrawn, Unsent,
    Closed, NoFetch, Panel, Fetch

(* No server step takes anything away that a client relies on. *)
LEMMA ServerKeepsClient ==
  ASSUME IInv, ServerStep, UNCHANGED clientVars PROVE ClientInv'
<1> USE DEF IInv, ClientInv, clientVars
<1>1. ClientTyped' BY DEF ClientTyped
<1>2. ASSUME NEW p \in Saves PROVE /\ save'[p].pc # "unsent" => save[p].pc # "unsent"
                                   /\ save'[p].style = save[p].style
                                   /\ save'[p].logo = save[p].logo
                                   /\ save'[p].image = save[p].image
  BY DEF ServerStep, ServerFault, Progress, Refuse, StorageFails, DatabaseFails,
         UpsertUnacknowledged, ServerCrash, StoreComposite, StoreLogo, Upsert, SaveAt,
         ServerInv, SavesTyped, SaveRequest
<1>3. ASSUME NEW p \in Saves PROVE CarriesClick(p)'
  BY <1>2, <1>3 DEF CarriesClick, Undrawn
<1>4. \A p \in Saves : composites[p] # Null => composites'[p] # Null
  <2>1. ASSUME NEW p \in Saves, StoreComposite(p) PROVE composites'[p] # Null
    BY <2>1, CustomizationAssumption DEF StoreComposite, SaveAt, ServerInv, SentWhole
  <2>2. QED
    BY <2>1 DEF ServerStep, ServerFault, Progress, Refuse, StorageFails, DatabaseFails,
         UpsertUnacknowledged, ServerCrash, StoreComposite, StoreLogo, Upsert, storage, ServerInv
<1>5. CachedIsStored' BY <1>4 DEF CachedIsStored, ClientTyped
<1>6. QED BY <1>1, <1>3, <1>5

(***************************************************************************)
(* The steps of the browser.                                               *)
(***************************************************************************)
LEMMA RowNamesItsSave ==
  ASSUME ServerInv, row # Null PROVE row.image \in Saves /\ composites[row.image] # Null
<1>1. PICK p \in Saves : RowOfSave(p) BY DEF ServerInv
<1>2. row.image = p BY <1>1 DEF RowOfSave, RowOf
<1>3. QED BY <1>1, <1>2, CustomizationAssumption DEF RowOfSave, ServerInv, SentWhole

(* The panel changes, or the cache, or a fetch; no click does. *)
LEMMA PanelKeeps ==
  ASSUME ClientInv, ClientTyped', UNCHANGED <<serverVars, cached, click>> PROVE ClientInv'
BY DEF ClientInv, serverVars, storage, CachedIsStored, CarriesClick, Undrawn

LEMMA EditKeeps ==
  ASSUME IInv, NEW e \in Editors,
         \/ Open(e) \/ RemoveLogo(e)
         \/ \E style \in Styles : Restyle(e, style)
         \/ \E logo \in Logos : ChooseLogo(e, logo)
  PROVE  ClientInv'
<1> USE DEF IInv, ClientInv, ClientTyped
<1>1. CASE Open(e)
  <2>1. cached[e] # Null => save[cached[e]].style \in Styles
    BY DEF ServerInv, CachedIsStored, SentWhole, StoredSoFar
  <2>2. Seeded(e) \in Panel
    BY <2>1, EditorAssumption DEF Seeded, Closed, Panel
  <2>3. panel' \in [Editors -> Panel]
    BY <1>1, <2>2 DEF Open
  <2>4. [NoFetch EXCEPT !.by = e, !.pc = "asked"] \in Fetch
    BY DEF NoFetch, Fetch
  <2>5. fetch' \in [Fetches -> Fetch]
    BY <1>1, <2>4 DEF Open
  <2>6. QED BY <1>1, <2>3, <2>5, PanelKeeps DEF Open
<1>2. CASE RemoveLogo(e)
  <2>1. [panel[e] EXCEPT !.logo = Null, !.aware = TRUE] \in Panel BY DEF Panel
  <2>2. QED BY <1>2, <2>1, PanelKeeps DEF RemoveLogo
<1>3. CASE \E style \in Styles : Restyle(e, style)
  <2>1. \A style \in Styles : [panel[e] EXCEPT !.style = style] \in Panel BY DEF Panel
  <2>2. QED BY <1>3, <2>1, PanelKeeps DEF Restyle
<1>4. CASE \E logo \in Logos : ChooseLogo(e, logo)
  <2>1. \A logo \in Logos : [panel[e] EXCEPT !.logo = logo, !.aware = TRUE] \in Panel BY DEF Panel
  <2>2. QED BY <1>4, <2>1, PanelKeeps DEF ChooseLogo
<1>5. QED BY <1>1, <1>2, <1>3, <1>4

LEMMA RefreshKeeps ==
  ASSUME IInv, NEW e \in Editors, Refresh(e) PROVE ClientInv'
<1> USE DEF IInv, ClientInv, Refresh, serverVars, storage
<1>1. ClientTyped' BY RowNamesItsSave DEF ClientTyped
<1>2. CachedIsStored' BY RowNamesItsSave DEF ClientTyped, CachedIsStored
<1>3. \A p \in Saves : CarriesClick(p)' BY DEF CarriesClick, Undrawn
<1>4. QED BY <1>1, <1>2, <1>3

LEMMA DeliverKeeps ==
  ASSUME IInv, NEW f \in Fetches, Deliver(f) PROVE ClientInv'
<1> USE DEF IInv, ClientInv, ClientTyped
<1> DEFINE e == fetch[f].by
<1>1. Closed \in Panel BY EditorAssumption DEF Closed, Panel
<1>2. NoFetch \in Fetch BY DEF NoFetch, Fetch
<1>3. CASE \E logo \in Logos \cup {Null} : AnswerLogo(f, logo)
  <2>1. \A logo \in Logos \cup {Null} : [fetch[f] EXCEPT !.pc = "answered", !.logo = logo] \in Fetch
    BY DEF Fetch
  <2>2. QED BY <1>3, <2>1, PanelKeeps DEF AnswerLogo
<1>4. CASE LogoArrives(f)
  <2>1. e \in Editors => [panel[e] EXCEPT !.logo = fetch[f].logo] \in Panel BY DEF Panel, Fetch
  <2>2. panel' \in [Editors -> Panel] BY <1>1, <1>4, <2>1 DEF LogoArrives, IfOpen
  <2>3. fetch' \in [Fetches -> Fetch] BY <1>2, <1>4 DEF LogoArrives, Received
  <2>4. QED BY <1>4, <2>2, <2>3, PanelKeeps DEF LogoArrives
<1>5. CASE LogoIsLost(f)
  <2>1. e \in Editors => [panel[e] EXCEPT !.aware = TRUE] \in Panel BY ZenonT(40) DEF Panel, Fetch
  <2>2. panel' \in [Editors -> Panel] BY <1>1, <1>5, <2>1 DEF LogoIsLost, IfOpen
  <2>3. fetch' \in [Fetches -> Fetch] BY <1>2, <1>5 DEF LogoIsLost, Received
  <2>4. QED BY <1>5, <2>2, <2>3, PanelKeeps DEF LogoIsLost
<1>6. QED BY <1>3, <1>4, <1>5 DEF Deliver

LEMMA ClickKeeps ==
  ASSUME IInv, NEW e \in Editors, NEW p \in Saves, Click(e, p) PROVE ClientInv'
<1> USE DEF IInv, ClientInv, Click, serverVars, storage
<1>1. click'[p] \in ClickOfSave /\ click'[p].by = e /\ click'[p] # Null
  BY EditorAssumption DEF ClientTyped, ClickOfSave, Preview, Picture, Panel, Reason
<1>2. ClientTyped' BY <1>1 DEF ClientTyped
<1>3. ASSUME NEW q \in Saves PROVE CarriesClick(q)'
  BY <1>1, EditorAssumption DEF CarriesClick, Undrawn, ClientTyped
<1>4. QED BY <1>2, <1>3 DEF CachedIsStored

(* Drawing an undrawn click, which was not sent, leaves the rest alone. *)
LEMMA DrawnIsWhole ==
  ASSUME IInv, NEW p \in Saves, Undrawn(p)
  PROVE  /\ DrawnAs(p) \in ClickOfSave
         /\ DrawnAs(p).picture # Null
         /\ save[p].pc = "unsent"
<1>1. click[p] \in ClickOfSave /\ click[p].by \in Editors
  BY DEF IInv, ClientInv, ClientTyped, CarriesClick, Undrawn, ClickOfSave
<1>2. Preview(panel[click[p].by]) \in Picture
  BY <1>1 DEF IInv, ClientInv, ClientTyped, Preview, Panel, Picture
<1>3. DrawnAs(p) \in ClickOfSave /\ DrawnAs(p).picture = Preview(panel[click[p].by])
  BY <1>1, <1>2 DEF DrawnAs, ClickOfSave
<1>4. save[p].pc = "unsent"
  BY DEF IInv, ClientInv, CarriesClick, Undrawn
<1>5. QED BY <1>2, <1>3, <1>4, CustomizationAssumption

LEMMA DrawKeeps ==
  ASSUME IInv, NEW p \in Saves, Draw(p) PROVE ClientInv'
<1> USE DEF IInv, ClientInv, Draw, serverVars, storage
<1>1. ClientTyped' BY DrawnIsWhole DEF ClientTyped
<1>2. ASSUME NEW q \in Saves PROVE CarriesClick(q)'
  <2>1. click'[q] = IF q = p THEN DrawnAs(p) ELSE click[q] BY DEF ClientTyped
  <2>2. QED BY <2>1, DrawnIsWhole DEF CarriesClick, Undrawn
<1>3. QED BY <1>1, <1>2 DEF CachedIsStored

LEMMA DrawFailsKeeps ==
  ASSUME IInv, NEW p \in Saves, DrawFails(p) PROVE ClientInv'
<1> USE DEF IInv, ClientInv, DrawFails, Closing, serverVars, storage
<1>1. click[p] \in ClickOfSave /\ save[p].pc = "unsent"
  BY DEF ClientTyped, CarriesClick, Undrawn
<1>2. [click[p] EXCEPT !.by = Null] \in ClickOfSave
  BY <1>1 DEF ClickOfSave
<1>3. ClientTyped' BY <1>2 DEF ClientTyped
<1>4. ASSUME NEW q \in Saves PROVE CarriesClick(q)'
  <2>1. q # p => click'[q] = click[q] BY DEF ClientTyped
  <2>2. QED BY <1>1, <2>1 DEF CarriesClick
<1>5. QED BY <1>3, <1>4 DEF CachedIsStored

(* Closing draws what is undrawn; the clicks given to it differ from the   *)
(* present ones in who is still waiting for an answer.                     *)
LEMMA CloseKeeps ==
  ASSUME IInv, NEW e, NEW clicks, clicks \in [Saves -> ClickOfSave \cup {Null}],
         \A p \in Saves : \/ clicks[p] = click[p]
                          \/ /\ save[p].pc # "unsent"
                             /\ clicks[p] \in ClickOfSave
                             /\ clicks[p].form = click[p].form
                             /\ clicks[p].picture = click[p].picture,
         Close(e, clicks),
         pending' \in [Editors -> Saves \cup {Null}],
         UNCHANGED <<serverVars, cached, fetch>>
  PROVE  ClientInv'
<1> USE DEF IInv, ClientInv, Close, serverVars, storage
<1>1. Closed \in Panel BY EditorAssumption DEF Closed, Panel
<1>2. click' \in [Saves -> ClickOfSave \cup {Null}] BY DrawnIsWhole
<1>3. ClientTyped' BY <1>1, <1>2 DEF ClientTyped
<1>4. ASSUME NEW p \in Saves PROVE CarriesClick(p)'
  <2>1. CASE Undrawn(p) /\ click[p].by = e
    BY <2>1, DrawnIsWhole DEF CarriesClick, Undrawn
  <2>2. CASE ~(Undrawn(p) /\ click[p].by = e) /\ clicks[p] = click[p]
    BY <2>2 DEF CarriesClick, Undrawn
  <2>3. CASE ~(Undrawn(p) /\ click[p].by = e) /\ clicks[p] # click[p]
    BY <2>3, EditorAssumption DEF CarriesClick, Undrawn
  <2>4. QED BY <2>1, <2>2, <2>3
<1>5. QED BY <1>3, <1>4 DEF CachedIsStored

LEMMA CancelKeeps ==
  ASSUME IInv, NEW e \in Editors, Cancel(e) PROVE ClientInv'
BY CloseKeeps DEF Cancel, IInv, ClientInv, ClientTyped

(* An answer changes only who waits for it, of a save that was sent. *)
LEMMA ClosingIsWhole ==
  ASSUME IInv, NEW p \in Saves, Answered(p, {"saved", "failed"})
  PROVE  /\ Closing(p) \in [Saves -> ClickOfSave \cup {Null}]
         /\ \A q \in Saves : \/ Closing(p)[q] = click[q]
                              \/ /\ save[q].pc # "unsent"
                                 /\ Closing(p)[q] \in ClickOfSave
                                 /\ Closing(p)[q].form = click[q].form
                                 /\ Closing(p)[q].picture = click[q].picture
         /\ pending' \in [Editors -> Saves \cup {Null}]
<1> USE DEF IInv, ClientInv, ClientTyped
<1>1. save[p].pc # "unsent" BY DEF Answered
<1>2. click[p] \in ClickOfSave BY <1>1 DEF CarriesClick
<1>3. [click[p] EXCEPT !.by = Null] \in ClickOfSave BY <1>2 DEF ClickOfSave
<1>4. /\ [click[p] EXCEPT !.by = Null].form = click[p].form
      /\ [click[p] EXCEPT !.by = Null].picture = click[p].picture
  BY <1>2 DEF ClickOfSave
<1>5. \A q \in Saves : Closing(p)[q] = IF q = p THEN [click[p] EXCEPT !.by = Null] ELSE click[q]
  BY DEF Closing
<1>6. Closing(p) \in [Saves -> ClickOfSave \cup {Null}] BY <1>3 DEF Closing
<1>7. pending' \in [Editors -> Saves \cup {Null}] BY DEF Answered
<1>8. QED BY <1>1, <1>3, <1>4, <1>5, <1>6, <1>7

LEMMA SavedKeeps ==
  ASSUME IInv, NEW p \in Saves, Saved(p) PROVE ClientInv'
<1>1. Answered(p, {"saved", "failed"}) BY DEF Saved, Answered
<1>2. QED BY <1>1, ClosingIsWhole, CloseKeeps DEF Saved

LEMMA SaveFailsKeeps ==
  ASSUME IInv, NEW p \in Saves, SaveFails(p) PROVE ClientInv'
<1> USE DEF IInv, ClientInv, SaveFails, serverVars, storage
<1>1. ClientTyped' BY ClosingIsWhole DEF ClientTyped
<1>2. ASSUME NEW q \in Saves PROVE CarriesClick(q)'
  BY ClosingIsWhole, EditorAssumption DEF CarriesClick, Undrawn
<1>3. QED BY <1>1, <1>2 DEF CachedIsStored

(* The save carries off what its click captured. *)
LEMMA SendKeeps ==
  ASSUME IInv, NEW p \in Saves, Send(p) PROVE IInv'
<1> USE DEF Send, SendForm
<1>1. click[p] \in ClickOfSave /\ click[p].picture \in Picture
  BY DEF IInv, ClientInv, ClientTyped, ClickOfSave
<1>2. ServerInv'
  BY <1>1, SubmitKeeps DEF IInv, ClickOfSave, Picture
<1>3. ClientTyped'
  BY <1>1 DEF IInv, ClientInv, ClientTyped, ClickOfSave
<1>4. ASSUME NEW q \in Saves PROVE CarriesClick(q)'
  BY <1>1 DEF IInv, ClientInv, ServerInv, SavesTyped, SaveRequest, CarriesClick, Undrawn, Submit, SaveAt
<1>5. CachedIsStored' BY DEF IInv, ClientInv, CachedIsStored, Submit, storage
<1>6. QED BY <1>2, <1>3, <1>4, <1>5 DEF IInv, ClientInv

(***************************************************************************)
(* The invariant holds.                                                    *)
(***************************************************************************)
LEMMA NextKeeps ==
  ASSUME IInv, [Next]_vars PROVE IInv'
<1>1. CASE Server
  BY <1>1, ServerStepKeeps, ServerKeepsClient DEF Server, IInv
<1>2. CASE \E e \in Editors : Edit(e)
  <2>1. PICK e \in Editors : Edit(e) BY <1>2
  <2>2. UNCHANGED serverVars
    BY <2>1 DEF Edit, Refresh, Open, RemoveLogo, Cancel, Restyle, ChooseLogo, Click
  <2>3. ClientInv'
    BY <2>1, EditKeeps, RefreshKeeps, ClickKeeps, CancelKeeps DEF Edit
  <2>4. QED BY <2>2, <2>3, ServerStutters DEF IInv
<1>3. CASE \E f \in Fetches : Deliver(f)
  <2>1. PICK f \in Fetches : Deliver(f) BY <1>3
  <2>2. UNCHANGED serverVars
    BY <2>1 DEF Deliver, AnswerLogo, LogoArrives, LogoIsLost
  <2>3. QED BY <2>1, <2>2, DeliverKeeps, ServerStutters DEF IInv
<1>4. CASE \E p \in Saves : Settle(p)
  <2>1. PICK p \in Saves : Settle(p) BY <1>4
  <2>2. CASE Send(p) BY <2>2, SendKeeps
  <2>3. CASE Draw(p) \/ DrawFails(p) \/ Saved(p) \/ SaveFails(p)
    <3>1. UNCHANGED serverVars BY <2>3 DEF Draw, DrawFails, Saved, SaveFails
    <3>2. QED BY <2>3, <3>1, DrawKeeps, DrawFailsKeeps, SavedKeeps, SaveFailsKeeps, ServerStutters DEF IInv
  <2>4. QED BY <2>1, <2>2, <2>3 DEF Settle
<1>5. CASE UNCHANGED vars
  <2>1. UNCHANGED serverVars /\ UNCHANGED clientVars BY <1>5 DEF vars
  <2>2. ServerInv' BY <2>1, ServerStutters DEF IInv
  <2>3. ClientInv'
    BY <2>1 DEF IInv, ClientInv, ClientTyped, CachedIsStored, CarriesClick, Undrawn,
                clientVars, serverVars, storage
  <2>4. QED BY <2>2, <2>3 DEF IInv
<1>6. QED BY <1>1, <1>2, <1>3, <1>4, <1>5 DEF Next

THEOREM Invariant == Spec => []IInv
<1>1. Init => IInv BY InitServer, InitClient DEF Init, IInv
<1>2. IInv /\ [Next]_vars => IInv' BY NextKeeps
<1>3. QED BY <1>1, <1>2, PTL DEF Spec

(* Every variable of the panel and of the backend keeps its type, and what *)
(* a tab has cached was stored.                                            *)
THEOREM TypeCorrect == Spec => []TypeOK
<1>1. IInv => TypeOK
  <2>1. ASSUME ServerInv PROVE row \in Row \cup {Null}
    BY <2>1 DEF ServerInv, RowOfSave, RowOf, Row, SentWhole
  <2>2. QED
    BY <2>1 DEF IInv, ServerInv, SavesTyped, SentWhole, ClientInv, ClientTyped, CachedIsStored,
                TypeOK, ServerTypeOK
<1>2. QED BY <1>1, Invariant, PTL

(* The row always names one save whole: its composite and its logo are in  *)
(* storage, whatever fails in between and whoever saves at the same time.  *)
THEOREM RowsAreWhole == Spec => []RowIsOneSave
<1>1. IInv => RowIsOneSave BY RowIsServed DEF IInv
<1>2. QED BY <1>1, Invariant, PTL

(* The public image, the recipe and the owner's logo agree, unless the     *)
(* panel changed between the click and the drawing.                        *)
THEOREM SavedAsSeen == Spec => []WhatYouSeeIsSaved
<1>1. ASSUME IInv, row # Null, click[row.image].picture = click[row.image].form
      PROVE  ImageServed = [style |-> row.style, logo |-> LogoServed]
  <2>1. PICK p \in Saves : RowOfSave(p) BY <1>1 DEF IInv, ServerInv
  <2>2. row.image = p /\ row.style = save[p].style BY <2>1 DEF RowOfSave, RowOf
  <2>3. /\ click[p] \in ClickOfSave
        /\ save[p].style = click[p].form.style
        /\ save[p].logo = click[p].form.logo
        /\ save[p].image = click[p].picture
    BY <1>1, <2>1 DEF IInv, ClientInv, ClientTyped, CarriesClick, RowOfSave
  <2>4. ImageServed = save[p].image /\ LogoServed = save[p].logo
    BY <1>1, <2>2, RowIsServed DEF IInv, RowIsOneSave
  <2>5. click[p].form = [style |-> click[p].form.style, logo |-> click[p].form.logo]
    BY <2>3 DEF ClickOfSave, Picture
  <2>6. QED BY <1>1, <2>2, <2>3, <2>4, <2>5
<1>2. IInv => WhatYouSeeIsSaved BY <1>1 DEF WhatYouSeeIsSaved
<1>3. QED BY <1>2, Invariant, PTL
(***************************************************************************)
(* What becomes of the logo.  A panel that was seeded with one either has  *)
(* one, or its user decided or was warned, or a fetch is still to come     *)
(* back: there is no state in which the logo is missing and nobody knows.  *)
(***************************************************************************)
WasSent(s) == s # Null => save[s].pc # "unsent"

Minded(e) ==
  panel[e].open /\ HasLogo(panel[e].seed)
    => panel[e].logo # Null \/ panel[e].aware \/ Outstanding(e) # {}

Excused(p) ==
  click[p] # Null /\ click[p].form.logo = Null /\ click[p].reason = "none"
    => WasSent(click[p].seed) /\ ~HasLogo(click[p].seed)

LogosMinded ==
  /\ \A f \in Fetches : fetch[f].pc = "unused" => fetch[f].by = Null
  /\ \A e \in Editors : WasSent(panel[e].seed) /\ Minded(e)
  /\ \A p \in Saves : Excused(p)

(* A save that was sent stays sent, with the logo it was sent with. *)
LEMMA SentStays ==
  ASSUME IInv, [Next]_vars, NEW p \in Saves, save[p].pc # "unsent"
  PROVE  save'[p].pc # "unsent" /\ save'[p].logo = save[p].logo
<1>1. CASE ServerStep
  BY <1>1 DEF ServerStep, ServerFault, Progress, Refuse, StorageFails, DatabaseFails,
       UpsertUnacknowledged, ServerCrash, StoreComposite, StoreLogo, Upsert, SaveAt,
       IInv, ServerInv, SavesTyped, SaveRequest
<1>2. ASSUME NEW q \in Saves, Send(q)
      PROVE  save'[p].pc # "unsent" /\ save'[p].logo = save[p].logo
  BY <1>2 DEF Send, SendForm, Submit, SaveAt, IInv, ServerInv, SavesTyped
<1>3. CASE save' = save
  BY <1>3
<1>4. QED BY <1>1, <1>2, <1>3
  DEF Next, Server, Edit, Refresh, Open, RemoveLogo, Cancel, Restyle, ChooseLogo, Click,
      Deliver, AnswerLogo, LogoArrives, LogoIsLost, Settle, Draw, DrawFails, Saved, SaveFails,
      vars, serverVars

(* So does what its row has to show. *)
LEMMA SeedStays ==
  ASSUME IInv, [Next]_vars, NEW s \in Saves \cup {Null}, WasSent(s)
  PROVE  WasSent(s)' /\ (HasLogo(s)' <=> HasLogo(s))
BY SentStays DEF WasSent, HasLogo

(* What a step can make of a panel. *)
SameLogo(e) ==
  /\ panel'[e].open = panel[e].open /\ panel'[e].seed = panel[e].seed
  /\ panel'[e].logo = panel[e].logo /\ panel'[e].aware = panel[e].aware
  /\ Outstanding(e) \subseteq Outstanding(e)'

Told(e) ==
  /\ panel'[e].open = panel[e].open /\ panel'[e].seed = panel[e].seed
  /\ panel'[e].logo # Null \/ panel'[e].aware

Opened(e) ==
  /\ panel'[e].seed = cached[e]
  /\ HasLogo(cached[e]) => Outstanding(e)' # {}

Shut(e) == panel'[e] = Closed

LEMMA PanelCases ==
  ASSUME IInv, LogosMinded, [Next]_vars, NEW e \in Editors
  PROVE  SameLogo(e) \/ Told(e) \/ Opened(e) \/ Shut(e)
<1> USE DEF IInv, ClientInv, ClientTyped
<1>1. panel[e] \in Panel
  OBVIOUS
<1>2. ASSUME NEW o \in Editors, Open(o) PROVE SameLogo(e) \/ Opened(e)
  <2>1. Outstanding(e) \subseteq Outstanding(e)'
    BY <1>2, EditorAssumption DEF Open, Outstanding, LogosMinded
  <2>2. CASE o = e
    <3>1. panel'[e].seed = cached[e]
      BY <1>2, <2>2 DEF Open, Seeded, Closed
    <3>2. HasLogo(cached[e]) => Outstanding(e)' # {}
      <4>1. SUFFICES ASSUME HasLogo(cached[e]) PROVE \E f \in Fetches : fetch'[f].by = e
        BY DEF Outstanding
      <4>2. PICK f \in Fetches :
              fetch' = [fetch EXCEPT ![f] = [NoFetch EXCEPT !.by = e, !.pc = "asked"]]
        BY <1>2, <2>2, <4>1 DEF Open
      <4>3. fetch'[f] = [NoFetch EXCEPT !.by = e, !.pc = "asked"]
        BY <4>2
      <4>4. QED BY <4>3 DEF NoFetch
    <3>3. QED BY <3>1, <3>2 DEF Opened
  <2>3. CASE o # e
    BY <1>2, <2>1, <2>3 DEF Open, SameLogo
  <2>4. QED BY <2>2, <2>3
<1>3. ASSUME NEW o \in Editors, RemoveLogo(o) \/ \E logo \in Logos : ChooseLogo(o, logo)
      PROVE  SameLogo(e) \/ Told(e)
  <2>1. CASE o = e
    <3>1. PICK logo \in Logos \cup {Null} :
            panel' = [panel EXCEPT ![e] = [@ EXCEPT !.logo = logo, !.aware = TRUE]]
      BY <1>3, <2>1 DEF RemoveLogo, ChooseLogo
    <3>2. panel'[e] = [panel[e] EXCEPT !.logo = logo, !.aware = TRUE]
      BY <3>1
    <3>3. panel'[e].aware
      BY <1>1, <3>2 DEF Panel
    <3>4. QED BY <1>1, <3>2, <3>3 DEF Told, Panel
  <2>2. CASE o # e
    BY <1>3, <2>2 DEF RemoveLogo, ChooseLogo, SameLogo, Outstanding
  <2>3. QED BY <2>1, <2>2
<1>4. ASSUME NEW o \in Editors, NEW style \in Styles, Restyle(o, style) PROVE SameLogo(e)
  BY <1>1, <1>4 DEF Restyle, SameLogo, Outstanding, Panel
<1>5. ASSUME NEW o, NEW clicks, Close(o, clicks), fetch' = fetch PROVE SameLogo(e) \/ Shut(e)
  BY <1>5 DEF Close, SameLogo, Shut, Outstanding
<1>6. ASSUME NEW f \in Fetches, NEW logo \in Logos \cup {Null}, AnswerLogo(f, logo)
      PROVE  SameLogo(e)
  BY <1>6 DEF AnswerLogo, SameLogo, Outstanding, Fetch
<1>7. ASSUME NEW f \in Fetches, LogoArrives(f) \/ LogoIsLost(f)
      PROVE  SameLogo(e) \/ Told(e) \/ Shut(e)
  <2>1. CASE fetch[f].by # e
    <3>1. panel'[e] = panel[e]
      BY <1>7, <2>1 DEF LogoArrives, LogoIsLost
    <3>2. Outstanding(e) \subseteq Outstanding(e)'
      BY <1>7, <2>1 DEF LogoArrives, LogoIsLost, Received, Outstanding
    <3>3. QED BY <3>1, <3>2 DEF SameLogo
  <2>2. CASE fetch[f].by = e /\ panel[e].open
    <3>1. \/ fetch[f].logo # Null /\ panel'[e] = [panel[e] EXCEPT !.logo = fetch[f].logo]
          \/ panel'[e] = [panel[e] EXCEPT !.aware = TRUE]
      BY <1>7, <2>2 DEF LogoArrives, LogoIsLost, IfOpen
    <3>2. QED BY <1>1, <3>1 DEF Told, Panel
  <2>3. CASE fetch[f].by = e /\ ~panel[e].open
    BY <1>7, <2>3 DEF LogoArrives, LogoIsLost, IfOpen, Shut
  <2>4. QED BY <2>1, <2>2, <2>3
<1>8. UNCHANGED <<panel, fetch>> => SameLogo(e)
  BY DEF SameLogo, Outstanding
<1>9. QED BY <1>2, <1>3, <1>4, <1>5, <1>6, <1>7, <1>8
  DEF Next, Server, Edit, Refresh, Cancel, Click, Deliver, Settle, Draw, DrawFails, Send, SendForm,
      Saved, SaveFails, vars, clientVars

LEMMA MindedStep ==
  ASSUME IInv, LogosMinded, [Next]_vars, NEW e \in Editors
  PROVE  WasSent(panel[e].seed)' /\ Minded(e)'
<1>0. /\ panel[e].seed \in Saves \cup {Null} /\ cached[e] \in Saves \cup {Null}
      /\ WasSent(panel[e].seed) /\ WasSent(cached[e]) /\ Minded(e)
  BY DEF IInv, ClientInv, ClientTyped, CachedIsStored, ServerInv, StoredSoFar, Panel, WasSent,
         LogosMinded
<1>1. CASE Shut(e)
  BY <1>1 DEF Shut, Closed, WasSent, Minded
<1>2. CASE Opened(e)
  BY <1>0, <1>2, SeedStays DEF Opened, WasSent, HasLogo, Minded
<1>3. CASE SameLogo(e) \/ Told(e)
  <2>1. panel'[e].seed = panel[e].seed /\ panel'[e].open = panel[e].open
    BY <1>3 DEF SameLogo, Told
  <2>2. WasSent(panel[e].seed)' /\ (HasLogo(panel[e].seed)' <=> HasLogo(panel[e].seed))
    BY <1>0, <2>1, SeedStays DEF WasSent, HasLogo
  <2>3. QED BY <1>0, <1>3, <2>1, <2>2 DEF SameLogo, Told, Minded
<1>4. QED BY <1>1, <1>2, <1>3, PanelCases

(* A click is excused by the panel it was made in; later only its image    *)
(* and who waits for it change.                                            *)
LEMMA ExcusedStep ==
  ASSUME IInv, LogosMinded, [Next]_vars, NEW p \in Saves
  PROVE  Excused(p)'
<1> USE DEF IInv, ClientInv, ClientTyped
<1>1. ASSUME NEW e \in Editors, Click(e, p) PROVE Excused(p)'
  <2>1. SUFFICES ASSUME click'[p].form.logo = Null, click'[p].reason = "none"
                 PROVE  WasSent(click[p].seed)' /\ ~HasLogo(click[p].seed)'
    BY DEF Excused
  <2>2. click'[p].reason = Reason(e) /\ (Reason(e) = "none" => click'[p].seed = panel[e].seed)
    BY <1>1 DEF Click
  <2>3. panel[e].logo = Null
    BY <1>1, <2>1 DEF Click, Preview
  <2>4. ~panel[e].aware /\ Outstanding(e) = {}
    BY <2>1, <2>2, <2>3 DEF Reason
  <2>5. panel[e].open /\ panel[e].seed \in Saves \cup {Null}
    BY <1>1 DEF Click, Enabled, Panel
  <2>6. WasSent(panel[e].seed) /\ ~HasLogo(panel[e].seed)
    BY <2>3, <2>4, <2>5 DEF LogosMinded, Minded
  <2>7. click'[p].seed = panel[e].seed /\ save' = save
    BY <1>1, <2>1, <2>2 DEF Click, serverVars
  <2>8. QED BY <2>6, <2>7 DEF WasSent, HasLogo
<1>2. CASE click'[p] # Null => /\ click[p] # Null /\ click'[p].form = click[p].form
                               /\ click'[p].reason = click[p].reason
                               /\ click'[p].seed = click[p].seed
  <2>1. click[p] # Null => click[p].seed \in Saves \cup {Null}
    BY DEF ClickOfSave
  <2>2. QED BY <1>2, <2>1, SeedStays DEF LogosMinded, Excused, WasSent, HasLogo
<1>3. Undrawn(p) => /\ DrawnAs(p).form = click[p].form /\ DrawnAs(p).reason = click[p].reason
                    /\ DrawnAs(p).seed = click[p].seed
  BY DEF Undrawn, DrawnAs, ClickOfSave
<1>4. ASSUME NEW q \in Saves, Draw(q) PROVE Excused(p)'
  <2>1. click'[p] = IF q = p THEN DrawnAs(p) ELSE click[p]
    BY <1>4 DEF Draw
  <2>2. QED BY <1>2, <1>3, <1>4, <2>1 DEF Draw, Undrawn
<1>5. ASSUME NEW e \in Editors, Cancel(e) PROVE Excused(p)'
  <2>1. click'[p] = IF Undrawn(p) /\ click[p].by = e THEN DrawnAs(p) ELSE click[p]
    BY <1>5 DEF Cancel, Close
  <2>2. QED BY <1>2, <1>3, <2>1 DEF Undrawn
<1>6. ASSUME NEW q \in Saves, Saved(q) \/ SaveFails(q) PROVE Excused(p)'
  <2>1. save[q].pc # "unsent"
    BY <1>6 DEF Saved, SaveFails, Answered
  <2>2. click[q] \in ClickOfSave
    BY <2>1 DEF CarriesClick
  <2>3. /\ Closing(q)[p].form = click[p].form /\ Closing(q)[p].reason = click[p].reason
        /\ Closing(q)[p].seed = click[p].seed /\ (q # p => Closing(q)[p] = click[p])
    BY <2>2 DEF Closing, ClickOfSave
  <2>4. click'[p] = Closing(q)[p] \/ (Undrawn(p) /\ click'[p] = DrawnAs(p))
    BY <1>6 DEF Saved, SaveFails, Close
  <2>5. click[p] # Null \/ q # p
    BY <2>2, EditorAssumption
  <2>6. QED BY <1>2, <1>3, <2>3, <2>4, <2>5 DEF Undrawn
<1>7. ASSUME NEW q \in Saves, DrawFails(q) PROVE Excused(p)'
  <2>1. click[q] \in ClickOfSave
    BY <1>7 DEF DrawFails, Undrawn
  <2>2. click'[p] = IF q = p THEN [click[p] EXCEPT !.by = Null] ELSE click[p]
    BY <1>7 DEF DrawFails, Closing
  <2>3. QED BY <1>2, <1>7, <2>1, <2>2 DEF DrawFails, Undrawn, ClickOfSave
<1>8. CASE \E e \in Editors, q \in Saves : Click(e, q)
  BY <1>1, <1>2, <1>8 DEF Click
<1>9. CASE click' = click
  BY <1>2, <1>9
<1>10. QED BY <1>4, <1>5, <1>6, <1>7, <1>8, <1>9
  DEF Next, Server, Edit, Refresh, Open, RemoveLogo, Restyle, ChooseLogo, Deliver, AnswerLogo,
      LogoArrives, LogoIsLost, Settle, Send, SendForm, vars, clientVars

LEMMA FetchesNamed ==
  ASSUME IInv, LogosMinded, [Next]_vars, NEW f \in Fetches, fetch'[f].pc = "unused"
  PROVE  fetch'[f].by = Null
<1>1. fetch \in [Fetches -> Fetch] /\ \A g \in Fetches : fetch[g].pc = "unused" => fetch[g].by = Null
  BY DEF IInv, ClientInv, ClientTyped, LogosMinded
<1>2. ASSUME NEW e \in Editors, Open(e) PROVE fetch'[f].by = Null
  BY <1>1, <1>2 DEF Open, NoFetch
<1>3. ASSUME NEW g \in Fetches, Deliver(g) PROVE fetch'[f].by = Null
  BY <1>1, <1>3 DEF Deliver, AnswerLogo, LogoArrives, LogoIsLost, Received, NoFetch, Fetch
<1>4. CASE fetch' = fetch
  BY <1>1, <1>4
<1>5. QED BY <1>2, <1>3, <1>4
  DEF Next, Server, Edit, Refresh, RemoveLogo, Cancel, Restyle, ChooseLogo, Click, Settle, Draw,
      DrawFails,
      Send, SendForm, Saved, SaveFails, vars, clientVars

(* The step that replaces the row is the end of one save. *)
LEMMA WhoReplacesTheRow ==
  ASSUME IInv, [Next]_vars, row' # row
  PROVE  \E p \in Saves : /\ row' = RowOf(p)
                          /\ save[p].pc = "row"
BY DEF Next, Server, ServerStep, ServerFault, Progress, Refuse, StorageFails, DatabaseFails,
       UpsertUnacknowledged, ServerCrash, StoreComposite, StoreLogo, Upsert, SaveAt, storage,
       Edit, Refresh, Open, RemoveLogo, Cancel, Restyle, ChooseLogo, Click,
       Deliver, AnswerLogo, LogoArrives, LogoIsLost, Settle, Draw, DrawFails, Send, SendForm, Submit,
       Saved, SaveFails, vars, serverVars, clientVars

LEMMA LossIsExplained ==
  ASSUME IInv, LogosMinded, [Next]_vars, row # Null, row.logo # Null, row'.logo = Null,
         click[row'.image].reason = "none"
  PROVE  click[row'.image].seed # row.image
<1>1. PICK p \in Saves : row' = RowOf(p) /\ save[p].pc = "row"
  BY WhoReplacesTheRow
<1>2. p # Null
  BY CustomizationAssumption DEF Saves
<1>3. row'.image = p /\ save[p].logo = Null
  BY <1>1, <1>2 DEF RowOf
<1>4. click[p] # Null /\ click[p].form.logo = Null
  BY <1>1, <1>3 DEF IInv, ClientInv, CarriesClick
<1>5. ~HasLogo(click[p].seed)
  BY <1>1, <1>3, <1>4 DEF LogosMinded, Excused
<1>6. PICK s \in Saves : RowOfSave(s)
  BY DEF IInv, ServerInv
<1>7. row.image = s /\ save[s].logo # Null /\ s # Null
  BY <1>6, CustomizationAssumption DEF RowOfSave, RowOf, Saves
<1>8. HasLogo(row.image)
  BY <1>7 DEF HasLogo
<1>9. QED BY <1>1, <1>3, <1>5, <1>8

(* No save clears a logo behind its user's back, except one clicked before *)
(* the fetched logo was there or from a panel seeded with another row.     *)
THEOREM LogoLossIsExplained == Spec => LogoLossExplained
<1>1. Init => LogosMinded
  BY DEF Init, LogosMinded, Closed, NoFetch, WasSent, Minded, Excused
<1>2. IInv /\ LogosMinded /\ [Next]_vars => LogosMinded'
  BY MindedStep, ExcusedStep, FetchesNamed DEF LogosMinded
<1>3. IInv /\ LogosMinded /\ [Next]_vars
        => [row # Null /\ row.logo # Null /\ row'.logo = Null =>
              LET c == click[row'.image]
              IN c.reason = "none" => c.seed # row.image]_vars
  BY LossIsExplained
<1>4. QED BY <1>1, <1>2, <1>3, Invariant, PTL DEF Spec, LogoLossExplained
==============================================================================

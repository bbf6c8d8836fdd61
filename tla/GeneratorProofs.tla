--------------------------- MODULE GeneratorProofs ---------------------------
(***************************************************************************)
(* Theorems of Generator, for any styles, logos and number of Links.       *)
(*                                                                         *)
(* None of the properties is inductive.  What is preserved says, stage by  *)
(* stage, what a create still has in common with the page: a pending one   *)
(* its look, one that is being drawn the canvas - unless it was disturbed. *)
(***************************************************************************)
EXTENDS Generator, TLAPS

USE GeneratorAssumption

(* The submissions are made in the order of their numbers, and the page    *)
(* holds the last.                                                         *)
Submissions ==
  /\ \A m, n \in Creates : m < n /\ At(m, {"unsent"}) => At(n, {"unsent"})
  /\ pending # NoLink => /\ page.look = create[pending].look
                         /\ \A n \in Creates : pending < n => At(n, {"unsent"})

(* What a create shares with the page while it is drawn, and with its      *)
(* picture afterwards.                                                     *)
Drawing ==
  \A n \in Creates : ~create[n].disturbed =>
    /\ At(n, {"drawing"}) => /\ page.here /\ page.shown = n
                             /\ page.look = create[n].look
    /\ At(n, {"saving"}) => create[n].picture = [link |-> n, look |-> create[n].look]

(* When the server may have something of a create.                         *)
Storing ==
  \A n \in Creates :
    stored[n] # NoRow => At(n, {"stored", "saved", "told"})

Inv ==
  /\ GeneratorTypeOK /\ Submissions /\ Drawing /\ Storing
  /\ SavedAsSubmitted /\ NewestIsShown

(***************************************************************************)
(* Disturb changes nothing but the mark.                                   *)
(***************************************************************************)
Row == [pc : Stages, look : Look \cup {None}, picture : Picture \cup {None}, disturbed : BOOLEAN]

LEMMA DisturbMarks ==
  ASSUME create \in [Creates -> Row], NEW n \in Creates
  PROVE  /\ Disturb(create) \in [Creates -> Row]
         /\ Disturb(create)[n].pc = create[n].pc
         /\ Disturb(create)[n].look = create[n].look
         /\ Disturb(create)[n].picture = create[n].picture
         /\ create[n].disturbed => Disturb(create)[n].disturbed
         /\ create[n].pc = "drawing" => Disturb(create)[n].disturbed
<1>1. create[n] \in Row
  OBVIOUS
<1>2. \A m \in Creates : Disturb(create)[m] = IF create[m].pc = "drawing"
        THEN [create[m] EXCEPT !.disturbed = TRUE] ELSE create[m]
  BY DEF Disturb
<1>3. \A m \in Creates : Disturb(create)[m] \in Row
  BY <1>2 DEF Row
<1>4. QED
  BY <1>1, <1>2, <1>3 DEF Disturb, Row

LEMMA Initially == GeneratorInit => Inv
<1>1. SUFFICES ASSUME GeneratorInit
               PROVE  Inv
  OBVIOUS
<1> USE <1>1 DEF GeneratorInit, Unsubmitted, Fresh, NoLink, At
<1>2. GeneratorTypeOK
  BY DEF GeneratorTypeOK, Stages, Look, NoRow
<1>3. Submissions /\ Drawing /\ Storing
  BY DEF Submissions, Drawing, Storing
<1>4. SavedAsSubmitted /\ NewestIsShown
  BY DEF SavedAsSubmitted, NewestIsShown
<1>5. QED
  BY <1>2, <1>3, <1>4 DEF Inv

(***************************************************************************)
(* Steps that change the look on the page disturb what is being drawn.     *)
(***************************************************************************)
LEMMA DisturbStep ==
  ASSUME Inv, create' = Disturb(create), UNCHANGED stored
  PROVE  /\ create' \in [Creates -> Row]
         /\ \A n \in Creates : create'[n].pc = create[n].pc /\ create'[n].look = create[n].look
         /\ Drawing' /\ Storing' /\ SavedAsSubmitted'
<1>1. create \in [Creates -> Row]
  BY DEF Inv, GeneratorTypeOK, Row
<1>2. \A n \in Creates : /\ create'[n].pc = create[n].pc
                         /\ create'[n].look = create[n].look
                         /\ create'[n].picture = create[n].picture
                         /\ create[n].disturbed => create'[n].disturbed
                         /\ create[n].pc = "drawing" => create'[n].disturbed
  BY <1>1, DisturbMarks
<1>3. create' \in [Creates -> Row]
  <2>1. CASE Creates = {}
    BY <2>1 DEF Disturb
  <2>2. CASE Creates # {}
    BY <1>1, <2>2, DisturbMarks
  <2>3. QED
    BY <2>1, <2>2
<1>4. Drawing'
  BY <1>2 DEF Inv, Drawing, At
<1>5. Storing'
  BY <1>2 DEF Inv, Storing, At
<1>6. SavedAsSubmitted'
  BY <1>2 DEF Inv, SavedAsSubmitted
<1>7. QED
  BY <1>2, <1>3, <1>4, <1>5, <1>6

(***************************************************************************)
(* The look and the form.                                                  *)
(***************************************************************************)
LEMMA RestyleKeeps ==
  ASSUME Inv, NEW style \in Styles, Restyle(style)
  PROVE  Inv'
<1> USE DEF Inv, Restyle, Editable, Busy, NoLink
<1>1. GeneratorTypeOK'
  <2>1. page' \in [here : BOOLEAN, shown : Creates \cup {NoLink}, look : Look]
    BY DEF GeneratorTypeOK, Look
  <2>2. pending' \in Creates \cup {NoLink} /\ default' \in Styles
    BY DEF GeneratorTypeOK, Look
  <2>3. create' \in [Creates -> Row]
    BY DisturbStep
  <2>4. stored' \in [Creates -> [look : Look \cup {None}, image : Picture \cup {None}]]
    BY DEF GeneratorTypeOK
  <2>5. \A m \in Creates : create'[m].look = None <=> create'[m].pc \in {"unsent", "failed", "unheard"}
    BY DisturbStep DEF GeneratorTypeOK, At
  <2>6. pending' # NoLink => create'[pending'].pc \in {"sent", "minted"} /\ page'.here
    BY DisturbStep DEF GeneratorTypeOK, At
  <2>7. QED
    BY <2>1, <2>2, <2>3, <2>4, <2>5, <2>6 DEF GeneratorTypeOK, Row, At
<1>2. Submissions'
  BY DisturbStep DEF Submissions, At
<1>3. Drawing'
  BY DisturbStep
<1>4. Storing'
  BY DisturbStep
<1>5. SavedAsSubmitted'
  BY DisturbStep
<1>6. NewestIsShown'
  BY DisturbStep DEF NewestIsShown, At
<1>7. QED
  BY <1>1, <1>2, <1>3, <1>4, <1>5, <1>6

LEMMA ChangeLogoKeeps ==
  ASSUME Inv, NEW logo \in Logos \cup {None}, ChangeLogo(logo)
  PROVE  Inv'
<1> USE DEF Inv, ChangeLogo, Editable, Busy, NoLink
<1>1. GeneratorTypeOK'
  BY DisturbStep DEF GeneratorTypeOK, Row, Look, At
<1>2. Submissions'
  BY DisturbStep DEF Submissions, At
<1>3. Drawing'
  BY DisturbStep
<1>4. Storing'
  BY DisturbStep
<1>5. SavedAsSubmitted'
  BY DisturbStep
<1>6. NewestIsShown'
  BY DisturbStep DEF NewestIsShown, At
<1>7. QED
  BY <1>1, <1>2, <1>3, <1>4, <1>5, <1>6

LEMMA ResetKeeps ==
  ASSUME Inv, Reset
  PROVE  Inv'
<1> USE DEF Inv, Reset, NoLink
<1>1. GeneratorTypeOK'
  BY DisturbStep DEF GeneratorTypeOK, Row, Look, At
<1>2. Submissions'
  BY DisturbStep DEF Submissions, At
<1>3. Drawing'
  BY DisturbStep
<1>4. Storing'
  BY DisturbStep
<1>5. SavedAsSubmitted'
  BY DisturbStep
<1>6. NewestIsShown'
  BY DisturbStep DEF NewestIsShown, At
<1>7. QED
  BY <1>1, <1>2, <1>3, <1>4, <1>5, <1>6

LEMMA CreateKeeps ==
  ASSUME Inv, NEW n \in Creates, Create(n)
  PROVE  Inv'
<1> USE DEF Inv, Create, Editable, Busy, NoLink, At
<1>1. GeneratorTypeOK'
  BY DEF GeneratorTypeOK, Stages
<1>2. Submissions'
  BY DEF GeneratorTypeOK, Submissions, At
<1>3. Drawing'
  BY DEF GeneratorTypeOK, Drawing, At
<1>4. Storing'
  BY DEF GeneratorTypeOK, Storing, At
<1>5. SavedAsSubmitted'
  BY DEF GeneratorTypeOK, Storing, SavedAsSubmitted, At
<1>6. NewestIsShown'
  BY DEF GeneratorTypeOK, NewestIsShown, At
<1>7. QED
  BY <1>1, <1>2, <1>3, <1>4, <1>5, <1>6

(* What is being drawn becomes a picture of the page.                      *)
LEMMA DrawnPoints ==
  ASSUME create \in [Creates -> Row], Canvas \in Picture, NEW n \in Creates
  PROVE  /\ Drawn(create)[n] \in Row
         /\ Drawn(create)[n].pc = (IF create[n].pc = "drawing" THEN "saving" ELSE create[n].pc)
         /\ Drawn(create)[n].look = create[n].look
         /\ Drawn(create)[n].disturbed = create[n].disturbed
         /\ Drawn(create)[n].picture = (IF create[n].pc = "drawing" THEN Canvas ELSE create[n].picture)
<1>1. create[n] \in Row
  OBVIOUS
<1>2. Drawn(create)[n] = IF create[n].pc = "drawing"
                           THEN [create[n] EXCEPT !.pc = "saving", !.picture = Canvas]
                           ELSE create[n]
  BY DEF Drawn, At
<1>3. QED
  BY <1>1, <1>2 DEF Row, Stages

LEMMA LeaveKeeps ==
  ASSUME Inv, Leave
  PROVE  Inv'
<1> USE DEF Inv, Leave, NoLink, At
<1>0. \A n \in Creates :
        /\ create'[n] \in Row
        /\ create'[n].pc = (IF create[n].pc = "drawing" THEN "saving" ELSE create[n].pc)
        /\ create'[n].look = create[n].look
        /\ create'[n].disturbed = create[n].disturbed
        /\ create'[n].picture = (IF create[n].pc = "drawing" THEN Canvas ELSE create[n].picture)
  <2>1. create \in [Creates -> Row] /\ Canvas \in Picture
    BY DEF GeneratorTypeOK, Row, Canvas, Picture
  <2>2. QED
    BY <2>1, DrawnPoints
<1>1. GeneratorTypeOK'
  <2>1. page' \in [here : BOOLEAN, shown : Creates \cup {NoLink}, look : Look]
    BY DEF GeneratorTypeOK
  <2>2. create' \in [Creates -> Row]
    BY <1>0 DEF Drawn
  <2>3. \A n \in Creates : create'[n].look = None <=> create'[n].pc \in {"unsent", "failed", "unheard"}
    BY <1>0 DEF GeneratorTypeOK
  <2>4. QED
    BY <2>1, <2>2, <2>3 DEF GeneratorTypeOK, Row
<1>2. Submissions'
  BY <1>0 DEF Submissions
<1>3. Drawing'
  BY <1>0 DEF Drawing, Canvas
<1>4. Storing'
  BY <1>0 DEF Storing
<1>5. SavedAsSubmitted'
  BY <1>0 DEF SavedAsSubmitted
<1>6. NewestIsShown'
  BY <1>0 DEF GeneratorTypeOK, NewestIsShown
<1>7. QED
  BY <1>1, <1>2, <1>3, <1>4, <1>5, <1>6

LEMMA ReturnKeeps ==
  ASSUME Inv, Return
  PROVE  Inv'
<1> USE DEF Inv, Return, Fresh, NoLink, At
<1>1. GeneratorTypeOK'
  <2>1. page' \in [here : BOOLEAN, shown : Creates \cup {NoLink}, look : Look]
    BY DEF GeneratorTypeOK, Look
  <2>2. pending' \in Creates \cup {NoLink} /\ default' \in Styles
    BY DEF GeneratorTypeOK, Look
  <2>3. create' \in [Creates -> Row]
    BY DEF GeneratorTypeOK, Row
  <2>4. stored' \in [Creates -> [look : Look \cup {None}, image : Picture \cup {None}]]
    BY DEF GeneratorTypeOK
  <2>5. \A m \in Creates : create'[m].look = None <=> create'[m].pc \in {"unsent", "failed", "unheard"}
    BY DEF GeneratorTypeOK, At
  <2>6. pending' # NoLink => create'[pending'].pc \in {"sent", "minted"} /\ page'.here
    BY DEF GeneratorTypeOK, At
  <2>7. QED
    BY <2>1, <2>2, <2>3, <2>4, <2>5, <2>6 DEF GeneratorTypeOK, Row, At
<1>2. Submissions'
  BY DEF GeneratorTypeOK, Submissions, At
<1>3. Drawing'
  BY DEF GeneratorTypeOK, Drawing, At
<1>4. Storing'
  BY DEF GeneratorTypeOK, Storing, At
<1>5. SavedAsSubmitted'
  BY DEF GeneratorTypeOK, Storing, SavedAsSubmitted, At
<1>6. NewestIsShown'
  BY DEF GeneratorTypeOK, NewestIsShown, At
<1>7. QED
  BY <1>1, <1>2, <1>3, <1>4, <1>5, <1>6

LEMMA MintKeeps ==
  ASSUME Inv, NEW n \in Creates, Mint(n)
  PROVE  Inv'
<1> USE DEF Inv, Mint, NoLink, At
<1>1. GeneratorTypeOK'
  <2>1. page' \in [here : BOOLEAN, shown : Creates \cup {NoLink}, look : Look]
    BY DEF GeneratorTypeOK, Look
  <2>2. pending' \in Creates \cup {NoLink} /\ default' \in Styles
    BY DEF GeneratorTypeOK, Look
  <2>3. create' \in [Creates -> Row]
    <3>1. create \in [Creates -> Row]
      BY DEF GeneratorTypeOK, Row
    <3>2. create'[n] \in Row
      BY <3>1 DEF Row, Stages
    <3>3. QED
      BY <3>1, <3>2
  <2>4. stored' \in [Creates -> [look : Look \cup {None}, image : Picture \cup {None}]]
    BY DEF GeneratorTypeOK
  <2>5. \A m \in Creates : create'[m].look = None <=> create'[m].pc \in {"unsent", "failed", "unheard"}
    BY DEF GeneratorTypeOK, At
  <2>6. pending' # NoLink => create'[pending'].pc \in {"sent", "minted"} /\ page'.here
    BY DEF GeneratorTypeOK, At
  <2>7. QED
    BY <2>1, <2>2, <2>3, <2>4, <2>5, <2>6 DEF GeneratorTypeOK, Row, At
<1>2. Submissions'
  BY DEF GeneratorTypeOK, Submissions, At
<1>3. Drawing'
  BY DEF GeneratorTypeOK, Drawing, At
<1>4. Storing'
  BY DEF GeneratorTypeOK, Storing, At
<1>5. SavedAsSubmitted'
  BY DEF GeneratorTypeOK, Storing, SavedAsSubmitted, At
<1>6. NewestIsShown'
  BY DEF GeneratorTypeOK, NewestIsShown, At
<1>7. QED
  BY <1>1, <1>2, <1>3, <1>4, <1>5, <1>6

(* Whatever the callback comes to.                                         *)
LEMMA AnnounceKeeps ==
  ASSUME Inv, NEW n \in Creates, NEW pc \in {"drawing", "plain", "dropped"}, AnnounceThen(n, pc)
  PROVE  Inv'
<1> USE DEF Inv, NoLink, At
<1>0. /\ page.here /\ pending = n /\ create[n].pc = "minted"
      /\ page' = [page EXCEPT !.shown = n]
      /\ pending' = NoLink
      /\ UNCHANGED <<default, stored>>
  BY DEF AnnounceThen, Heard
<1>a. create[n].look \in Look /\ page.look = create[n].look
  <2>1. create[n].look \in Look \cup {None} /\ create[n].look # None
    BY <1>0 DEF GeneratorTypeOK
  <2>2. page.look = create[n].look
    BY <1>0 DEF Submissions, Creates
  <2>3. QED
    BY <2>1, <2>2
<1>b. \A m \in Creates :
        /\ create'[m] \in Row
        /\ m # n => create'[m].pc = create[m].pc
        /\ create'[m].look = create[m].look
        /\ create'[m].picture = create[m].picture
        /\ create[m].disturbed => create'[m].disturbed
        /\ create[m].pc = "drawing" => create'[m].disturbed
  <2>1. create \in [Creates -> Row]
    BY DEF GeneratorTypeOK, Row
  <2>2. Disturb(create) \in [Creates -> Row]
    BY <2>1, DisturbMarks
  <2>3. \A m \in Creates : m # n => create'[m] = Disturb(create)[m]
    BY <2>2 DEF AnnounceThen
  <2>4. /\ create'[n] \in Row
        /\ create'[n].look = Disturb(create)[n].look
        /\ create'[n].picture = Disturb(create)[n].picture
        /\ create'[n].disturbed = Disturb(create)[n].disturbed
    BY <2>2 DEF AnnounceThen, Row, Stages
  <2>5. QED
    BY <1>0, <2>1, <2>2, <2>3, <2>4, DisturbMarks
<1>c. create'[n].pc = pc
  BY DisturbMarks DEF GeneratorTypeOK, Row, AnnounceThen
<1>1. GeneratorTypeOK'
  <2>1. page' \in [here : BOOLEAN, shown : Creates \cup {NoLink}, look : Look]
    BY <1>0 DEF GeneratorTypeOK
  <2>2. create' \in [Creates -> Row]
    BY <1>b DEF AnnounceThen, Disturb
  <2>3. \A m \in Creates : create'[m].look = None <=> create'[m].pc \in {"unsent", "failed", "unheard"}
    BY <1>0, <1>a, <1>b, <1>c DEF GeneratorTypeOK
  <2>4. QED
    BY <1>0, <2>1, <2>2, <2>3 DEF GeneratorTypeOK, Row
<1>2. Submissions'
  BY <1>0, <1>b, <1>c DEF Submissions
<1>3. Drawing'
  BY <1>0, <1>a, <1>b, <1>c DEF GeneratorTypeOK, Drawing
<1>4. Storing'
  BY <1>0, <1>b, <1>c DEF Storing
<1>5. SavedAsSubmitted'
  BY <1>0, <1>b DEF SavedAsSubmitted
<1>6. NewestIsShown'
  BY <1>0, <1>b DEF GeneratorTypeOK, Submissions, NewestIsShown
<1>7. QED
  BY <1>1, <1>2, <1>3, <1>4, <1>5, <1>6

LEMMA CreateFailsKeeps ==
  ASSUME Inv, NEW n \in Creates, CreateFails(n)
  PROVE  Inv'
<1> USE DEF Inv, CreateFails, Heard, Over, Unsubmitted, NoLink, At
<1>1. GeneratorTypeOK'
  BY DEF GeneratorTypeOK, Stages
<1>2. Submissions'
  BY DEF GeneratorTypeOK, Submissions, At
<1>3. Drawing'
  BY DEF GeneratorTypeOK, Drawing, At
<1>4. Storing'
  BY DEF GeneratorTypeOK, Storing, At
<1>5. SavedAsSubmitted'
  BY DEF GeneratorTypeOK, Storing, SavedAsSubmitted, At
<1>6. NewestIsShown'
  BY DEF GeneratorTypeOK, NewestIsShown, At
<1>7. QED
  BY <1>1, <1>2, <1>3, <1>4, <1>5, <1>6

LEMMA UnheardKeeps ==
  ASSUME Inv, NEW n \in Creates, Unheard(n)
  PROVE  Inv'
<1> USE DEF Inv, Unheard, Heard, Over, Unsubmitted, NoLink, At
<1>1. GeneratorTypeOK'
  BY DEF GeneratorTypeOK, Stages
<1>2. Submissions'
  BY DEF GeneratorTypeOK, Submissions, At
<1>3. Drawing'
  BY DEF GeneratorTypeOK, Drawing, At
<1>4. Storing'
  BY DEF GeneratorTypeOK, Storing, At
<1>5. SavedAsSubmitted'
  BY DEF GeneratorTypeOK, Storing, SavedAsSubmitted, At
<1>6. NewestIsShown'
  BY DEF GeneratorTypeOK, NewestIsShown, At
<1>7. QED
  BY <1>1, <1>2, <1>3, <1>4, <1>5, <1>6

LEMMA DrawKeeps ==
  ASSUME Inv, NEW n \in Creates, Draw(n)
  PROVE  Inv'
<1> USE DEF Inv, Draw, Canvas, NoLink, At
<1>1. GeneratorTypeOK'
  <2>1. page' \in [here : BOOLEAN, shown : Creates \cup {NoLink}, look : Look]
    BY DEF GeneratorTypeOK, Look
  <2>2. pending' \in Creates \cup {NoLink} /\ default' \in Styles
    BY DEF GeneratorTypeOK, Look
  <2>3. create' \in [Creates -> Row]
    <3>1. create \in [Creates -> Row] /\ Canvas \in Picture
      BY DEF GeneratorTypeOK, Row, Picture
    <3>2. create'[n] \in Row
      BY <3>1 DEF Row, Stages
    <3>3. QED
      BY <3>1, <3>2
  <2>4. stored' \in [Creates -> [look : Look \cup {None}, image : Picture \cup {None}]]
    BY DEF GeneratorTypeOK
  <2>5. \A m \in Creates : create'[m].look = None <=> create'[m].pc \in {"unsent", "failed", "unheard"}
    BY DEF GeneratorTypeOK, At
  <2>6. pending' # NoLink => create'[pending'].pc \in {"sent", "minted"} /\ page'.here
    BY DEF GeneratorTypeOK, At
  <2>7. QED
    BY <2>1, <2>2, <2>3, <2>4, <2>5, <2>6 DEF GeneratorTypeOK, Row, At
<1>2. Submissions'
  BY DEF GeneratorTypeOK, Submissions, At
<1>3. Drawing'
  BY DEF GeneratorTypeOK, Drawing, At
<1>4. Storing'
  BY DEF GeneratorTypeOK, Storing, At
<1>5. SavedAsSubmitted'
  BY DEF GeneratorTypeOK, Storing, SavedAsSubmitted, At
<1>6. NewestIsShown'
  BY DEF GeneratorTypeOK, NewestIsShown, At
<1>7. QED
  BY <1>1, <1>2, <1>3, <1>4, <1>5, <1>6

LEMMA SaveKeeps ==
  ASSUME Inv, NEW n \in Creates, Save(n)
  PROVE  Inv'
<1> USE DEF Inv, Save, NoLink, At
<1>1. GeneratorTypeOK'
  <2>1. page' \in [here : BOOLEAN, shown : Creates \cup {NoLink}, look : Look]
    BY DEF GeneratorTypeOK, Look
  <2>2. pending' \in Creates \cup {NoLink} /\ default' \in Styles
    BY DEF GeneratorTypeOK, Look
  <2>3. create' \in [Creates -> Row]
    <3>1. create \in [Creates -> Row]
      BY DEF GeneratorTypeOK, Row
    <3>2. create'[n] \in Row
      BY <3>1 DEF Row, Stages
    <3>3. QED
      BY <3>1, <3>2
  <2>4. stored' \in [Creates -> [look : Look \cup {None}, image : Picture \cup {None}]]
    BY DEF GeneratorTypeOK, Row
  <2>5. \A m \in Creates : create'[m].look = None <=> create'[m].pc \in {"unsent", "failed", "unheard"}
    BY DEF GeneratorTypeOK, At
  <2>6. pending' # NoLink => create'[pending'].pc \in {"sent", "minted"} /\ page'.here
    BY DEF GeneratorTypeOK, At
  <2>7. QED
    BY <2>1, <2>2, <2>3, <2>4, <2>5, <2>6 DEF GeneratorTypeOK, Row, At
<1>2. Submissions'
  BY DEF GeneratorTypeOK, Submissions, At
<1>3. Drawing'
  BY DEF GeneratorTypeOK, Drawing, At
<1>4. Storing'
  <2>1. stored'[n].look = create[n].look /\ create[n].look # None
    BY DEF GeneratorTypeOK
  <2>2. stored'[n] # NoRow
    BY <2>1 DEF NoRow
  <2>3. QED
    BY <2>2 DEF GeneratorTypeOK, Storing
<1>5. SavedAsSubmitted'
  <2>1. /\ stored'[n].look = create'[n].look
        /\ stored'[n].image = create[n].picture
        /\ create'[n].look = create[n].look
        /\ create'[n].disturbed = create[n].disturbed
    BY DEF GeneratorTypeOK
  <2>2. create[n].picture = [link |-> n, look |-> create[n].look] \/ create[n].disturbed
    BY DEF Drawing
  <2>3. \A m \in Creates : m # n => stored'[m] = stored[m] /\ create'[m] = create[m]
    BY DEF GeneratorTypeOK
  <2> HIDE DEF Save, NoLink, At
  <2>4. SUFFICES ASSUME NEW m \in Creates, stored'[m] # NoRow
                 PROVE  /\ stored'[m].look = create'[m].look
                        /\ \/ stored'[m].image = [link |-> m, look |-> create'[m].look]
                           \/ create'[m].disturbed
    BY DEF SavedAsSubmitted
  <2>5. CASE m = n
    BY <2>1, <2>2, <2>5
  <2>6. CASE m # n
    BY <2>3, <2>4, <2>6 DEF SavedAsSubmitted
  <2>7. QED
    BY <2>5, <2>6
<1>6. NewestIsShown'
  BY DEF GeneratorTypeOK, NewestIsShown, At
<1>7. QED
  BY <1>1, <1>2, <1>3, <1>4, <1>5, <1>6

LEMMA SavedKeeps ==
  ASSUME Inv, NEW n \in Creates, Saved(n)
  PROVE  Inv'
<1> USE DEF Inv, Saved, NoLink, At
<1>1. GeneratorTypeOK'
  <2>1. page' \in [here : BOOLEAN, shown : Creates \cup {NoLink}, look : Look]
    BY DEF GeneratorTypeOK, Look
  <2>2. pending' \in Creates \cup {NoLink} /\ default' \in Styles
    BY DEF GeneratorTypeOK, Look
  <2>3. create' \in [Creates -> Row]
    <3>1. create \in [Creates -> Row]
      BY DEF GeneratorTypeOK, Row
    <3>2. create'[n] \in Row
      BY <3>1 DEF Row, Stages
    <3>3. QED
      BY <3>1, <3>2
  <2>4. stored' \in [Creates -> [look : Look \cup {None}, image : Picture \cup {None}]]
    BY DEF GeneratorTypeOK
  <2>5. \A m \in Creates : create'[m].look = None <=> create'[m].pc \in {"unsent", "failed", "unheard"}
    BY DEF GeneratorTypeOK, At
  <2>6. pending' # NoLink => create'[pending'].pc \in {"sent", "minted"} /\ page'.here
    BY DEF GeneratorTypeOK, At
  <2>7. QED
    BY <2>1, <2>2, <2>3, <2>4, <2>5, <2>6 DEF GeneratorTypeOK, Row, At
<1>2. Submissions'
  BY DEF GeneratorTypeOK, Submissions, At
<1>3. Drawing'
  BY DEF GeneratorTypeOK, Drawing, At
<1>4. Storing'
  BY DEF GeneratorTypeOK, Storing, At
<1>5. SavedAsSubmitted'
  BY DEF GeneratorTypeOK, Storing, SavedAsSubmitted, At
<1>6. NewestIsShown'
  BY DEF GeneratorTypeOK, NewestIsShown, At
<1>7. QED
  BY <1>1, <1>2, <1>3, <1>4, <1>5, <1>6

LEMMA SaveFailsKeeps ==
  ASSUME Inv, NEW n \in Creates, SaveFails(n)
  PROVE  Inv'
<1> USE DEF Inv, SaveFails, NoLink, At
<1>1. GeneratorTypeOK'
  <2>1. page' \in [here : BOOLEAN, shown : Creates \cup {NoLink}, look : Look]
    BY DEF GeneratorTypeOK, Look
  <2>2. pending' \in Creates \cup {NoLink} /\ default' \in Styles
    BY DEF GeneratorTypeOK, Look
  <2>3. create' \in [Creates -> Row]
    <3>1. create \in [Creates -> Row]
      BY DEF GeneratorTypeOK, Row
    <3>2. create'[n] \in Row
      BY <3>1 DEF Row, Stages
    <3>3. QED
      BY <3>1, <3>2
  <2>4. stored' \in [Creates -> [look : Look \cup {None}, image : Picture \cup {None}]]
    BY DEF GeneratorTypeOK
  <2>5. \A m \in Creates : create'[m].look = None <=> create'[m].pc \in {"unsent", "failed", "unheard"}
    BY DEF GeneratorTypeOK, At
  <2>6. pending' # NoLink => create'[pending'].pc \in {"sent", "minted"} /\ page'.here
    BY DEF GeneratorTypeOK, At
  <2>7. QED
    BY <2>1, <2>2, <2>3, <2>4, <2>5, <2>6 DEF GeneratorTypeOK, Row, At
<1>2. Submissions'
  BY DEF GeneratorTypeOK, Submissions, At
<1>3. Drawing'
  BY DEF GeneratorTypeOK, Drawing, At
<1>4. Storing'
  BY DEF GeneratorTypeOK, Storing, At
<1>5. SavedAsSubmitted'
  BY DEF GeneratorTypeOK, Storing, SavedAsSubmitted, At
<1>6. NewestIsShown'
  BY DEF GeneratorTypeOK, NewestIsShown, At
<1>7. QED
  BY <1>1, <1>2, <1>3, <1>4, <1>5, <1>6

LEMMA StepKeeps ==
  ASSUME Inv, [GeneratorNext]_generatorVars
  PROVE  Inv'
<1>1. CASE UNCHANGED generatorVars
  <2> USE <1>1 DEF generatorVars, Inv, At
  <2>1. GeneratorTypeOK' /\ Submissions'
    BY DEF GeneratorTypeOK, Submissions
  <2>2. Drawing' /\ Storing'
    BY DEF Drawing, Storing
  <2>3. SavedAsSubmitted' /\ NewestIsShown'
    BY DEF SavedAsSubmitted, NewestIsShown
  <2>4. QED
    BY <2>1, <2>2, <2>3
<1>2. ASSUME NEW style \in Styles, Restyle(style)
      PROVE  Inv'
  BY <1>2, RestyleKeeps
<1>3. ASSUME NEW logo \in Logos, ChooseLogo(logo)
      PROVE  Inv'
  BY <1>3, ChangeLogoKeeps DEF ChooseLogo
<1>4. CASE RemoveLogo
  BY <1>4, ChangeLogoKeeps DEF RemoveLogo
<1>5. CASE Reset \/ Leave \/ Return
  BY <1>5, ResetKeeps, LeaveKeeps, ReturnKeeps
<1>6. ASSUME NEW n \in Creates,
             \/ Create(n) \/ Mint(n) \/ Announce(n) \/ AnnounceThrows(n)
             \/ CreateFails(n) \/ Unheard(n)
      PROVE  Inv'
  <2>1. CASE Announce(n) \/ AnnounceThrows(n)
    BY <2>1, AnnounceKeeps DEF Announce, AnnounceThrows
  <2>2. QED
    BY <1>6, <2>1, CreateKeeps, MintKeeps, CreateFailsKeeps, UnheardKeeps
<1>7. ASSUME NEW n \in Creates, Draw(n) \/ Save(n) \/ Saved(n) \/ SaveFails(n)
      PROVE  Inv'
  BY <1>7, DrawKeeps, SaveKeeps, SavedKeeps, SaveFailsKeeps
<1>8. QED
  BY <1>1, <1>2, <1>3, <1>4, <1>5, <1>6, <1>7 DEF GeneratorNext

LEMMA InvAlways == GeneratorSpec => []Inv
<1>1. QED
  BY Initially, StepKeeps, PTL DEF GeneratorSpec

(***************************************************************************)
(* The theorems.                                                           *)
(***************************************************************************)

(* Every variable has its type, and the controls are disabled only while a *)
(* create of this page is under way (Generator.tsx, isPending).            *)
THEOREM NotLeftDisabled == GeneratorSpec => []GeneratorTypeOK
<1>1. Inv => GeneratorTypeOK
  BY DEF Inv
<1>2. QED
  BY <1>1, InvAlways, PTL

(* What onCreateSuccess saves is the look that was submitted, with a       *)
(* picture of it that leads to its Link, unless the page moved on first.   *)
THEOREM SavesWhatWasSubmitted == GeneratorSpec => []SavedAsSubmitted
<1>1. Inv => SavedAsSubmitted
  BY DEF Inv
<1>2. QED
  BY <1>1, InvAlways, PTL

(* No answer puts an older Link on the page than one it has announced: the *)
(* page hears only the create it holds.                                    *)
THEOREM ShowsTheNewest == GeneratorSpec => []NewestIsShown
<1>1. Inv => NewestIsShown
  BY DEF Inv
<1>2. QED
  BY <1>1, InvAlways, PTL
==============================================================================

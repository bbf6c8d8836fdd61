---------------------------- MODULE LinkRegistry ----------------------------
(***************************************************************************)
(* What the backend promises of table links, each operation one atomic     *)
(* step: a token is minted once and its row is never replaced or removed,  *)
(* only a writable account edits or retires a row, and nothing undoes a    *)
(* retirement.                                                             *)
(*                                                                         *)
(* A retirement may move the instant of an earlier one: that is all the    *)
(* code ensures when two DELETEs overlap.                                  *)
(***************************************************************************)
EXTENDS LinkState

CONSTANT Tokens

VARIABLE registry    \* token -> its row, or Null when it was never minted

Writable(t) ==
  /\ registry[t] # Null
  /\ registry[t].owner \in Users \ Demo

Only(t) == \A other \in Tokens \ {t} : registry'[other] = registry[other]

Init ==
  /\ DOMAIN registry = Tokens
  /\ \A t \in Tokens : registry[t] = Null \/ registry[t] \in Link

Mint(t) ==
  /\ registry[t] = Null
  /\ registry'[t] \in Link
  /\ registry'[t].owner \in Users \ Demo
  /\ registry'[t].deleted = Null
  /\ Only(t)

Edit(t) ==
  /\ Writable(t)
  /\ registry'[t] \in Link
  /\ registry'[t].owner = registry[t].owner
  /\ registry'[t].deleted = registry[t].deleted
  /\ Only(t)

Retire(t) ==
  /\ Writable(t)
  /\ registry'[t] \in Link
  /\ registry'[t].deleted # Null
  /\ registry'[t] = [registry[t] EXCEPT !.deleted = registry'[t].deleted]
  /\ Only(t)

Next ==
  /\ DOMAIN registry' = Tokens
  /\ \E t \in Tokens : Mint(t) \/ Edit(t) \/ Retire(t)

Spec == Init /\ [][Next]_registry
=============================================================================

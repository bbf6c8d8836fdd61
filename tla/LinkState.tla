------------------------------ MODULE LinkState ------------------------------
(***************************************************************************)
(* The Link as the backend's modules share it: the columns of a row, the   *)
(* snapshot the redirect cache keeps, and the pure functions that derive a *)
(* state, authorize a caller and write a change back.                      *)
(*                                                                         *)
(* None of Python and NULL of the database are both Null.  An instant is a *)
(* natural number.  Label, created_at and updated_at take part in no       *)
(* decision and are left out.                                              *)
(***************************************************************************)
EXTENDS Naturals

CONSTANTS Urls,     \* normalised destinations
          Users,    \* accounts, the read-only demo account among them
          Demo,     \* the accounts with is_demo set
          Null

OptionalInstant == Nat \cup {Null}

(***************************************************************************)
(* A row of table links.  A legacy row has no owner.                       *)
(***************************************************************************)
Link == [owner : Users \cup {Null}, url : Urls,
         expires : OptionalInstant, deleted : OptionalInstant]

(***************************************************************************)
(* What link_cache.py keeps of a row: "the three fields needed to derive   *)
(* redirect state".                                                        *)
(***************************************************************************)
LinkSnapshot == [url : Urls, expires : OptionalInstant, deleted : OptionalInstant]

ASSUME LinkStateAssumption ==
  /\ Demo \subseteq Users
  /\ Null \notin Users \cup Urls \cup Nat
  /\ Null \notin Link \cup LinkSnapshot

SnapshotOf(link) ==
  [url |-> link.url, expires |-> link.expires, deleted |-> link.deleted]

(***************************************************************************)
(* derive_state takes a row or a snapshot; deletion outranks expiry.       *)
(***************************************************************************)
DeriveState(link, now) ==
  CASE link.deleted # Null -> "deleted"
    [] link.deleted = Null /\ link.expires # Null /\ link.expires <= now -> "expired"
    [] OTHER -> "active"

IsRedirectable(state) == state = "active"

IsPatchable(state) == state # "deleted"

(* Mutant: forbid_if_demo forgotten. *)
MayMutateAnyOwner(link, user) == link.owner # Null /\ link.owner = user

(***************************************************************************)
(* authorize_owner followed by forbid_if_demo, as every mutating handler   *)
(* of an existing Link calls them.                                         *)
(***************************************************************************)
MayMutate(link, user) ==
  /\ link.owner # Null
  /\ link.owner = user
  /\ user \notin Demo

(* Mutant: the UPDATE writes every column of the session's object. *)
FlushAllColumns(row, loaded, dirty) == dirty

(***************************************************************************)
(* The UPDATE a session flushes: it names only the columns whose value in  *)
(* the session's object differs from the value that was loaded, so what    *)
(* another transaction committed to the other columns survives.            *)
(***************************************************************************)
Flush(row, loaded, dirty) ==
  [row EXCEPT !.url     = IF dirty.url     # loaded.url     THEN dirty.url     ELSE @,
              !.expires = IF dirty.expires # loaded.expires THEN dirty.expires ELSE @,
              !.deleted = IF dirty.deleted # loaded.deleted THEN dirty.deleted ELSE @]
==============================================================================

---------------------------- MODULE MCLinkService ----------------------------
(***************************************************************************)
(* Instances of LinkService for TLC.                                       *)
(***************************************************************************)
EXTENDS LinkService

CONSTANTS alice, guest, home, shop

Row(owner, url) == [owner |-> owner, url |-> url, expires |-> Null, deleted |-> Null]

(* One active Link of an ordinary account. *)
OneOwned == {Row(alice, home)}

(* What a database may hold before the service starts: an owned Link, one  *)
(* that the demo seed made, an ownerless one from before there were        *)
(* accounts, and one that is already deleted.                              *)
Legacy == {Row(alice, home), Row(guest, home), Row(Null, home),
           [Row(alice, home) EXCEPT !.deleted = 0]}

NeverExpires == {Null}

(* With the clock at 0 a Link is made, or patched, active or expired.      *)
AtOnceOrNever == {Null, 0}

==============================================================================

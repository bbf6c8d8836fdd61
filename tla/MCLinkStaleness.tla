--------------------------- MODULE MCLinkStaleness ---------------------------
(***************************************************************************)
(* An instance of LinkStaleness for TLC.                                   *)
(***************************************************************************)
EXTENDS LinkStaleness, TLC

CONSTANTS alice, home,
          Crowd    \* bound: workers that are busy at once after the first tick

OneOwned == {[owner |-> alice, url |-> home, expires |-> Null, deleted |-> Null]}

(* With the clock at 0 a Link is made, or patched, active or expired.      *)
AtOnceOrNever == {Null, 0}

(* All workers race and Links expire while time stands still; Crowd        *)
(* workers race over Links that do not expire when it passes.              *)
Never(x) == x # Null => x.expires = Null

Crowded ==
  now' > 0 =>
    /\ Cardinality({w \in Workers : Busy(w)'}) <= Crowd
    /\ \A t \in Tokens : Never(links'[t])
    /\ \A w \in Workers : Never(thread'[w].link)

CrowdSpec == TimedInit /\ [][TimedNext /\ Crowded]_timedVars

WorkerSymmetry == Permutations(Workers)
==============================================================================

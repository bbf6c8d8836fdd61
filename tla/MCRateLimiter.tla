---------------------------- MODULE MCRateLimiter ----------------------------
(***************************************************************************)
(* Instances of RateLimiter for TLC: periods of a few seconds that divide  *)
(* unevenly by the limits.                                                 *)
(***************************************************************************)
EXTENDS RateLimiter

BothWindows == {1, 2}

TwoAndTwo == <<2, 2>>         \* limits

ThreeAndFour == <<3, 4>>      \* periods

OneAndOne == <<1, 1>>

TwoAndSix == <<2, 6>>
==============================================================================

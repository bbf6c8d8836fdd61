---------------------------- MODULE MCQuotaWindow ----------------------------
(***************************************************************************)
(* An instance of QuotaWindow for TLC.                                     *)
(***************************************************************************)
EXTENDS QuotaWindow

BothWindows == {1, 2}

TwoAndThree == <<2, 3>>

ThreeAndSeven == <<3, 7>>
==============================================================================

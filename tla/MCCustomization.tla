--------------------------- MODULE MCCustomization ---------------------------
(***************************************************************************)
(* CustomizationEditor for TLC.  One tab can already overlap saves (two    *)
(* clicks while a preview is drawn) and hold stale rows.                   *)
(***************************************************************************)
EXTENDS CustomizationEditor
==============================================================================

--------------------------- MODULE MCEditHistory ---------------------------
(* EditHistory with three documents, two edit targets and a short history. *)
EXTENDS EditHistory
=============================================================================

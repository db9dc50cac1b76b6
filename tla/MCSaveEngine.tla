---------------------------- MODULE MCSaveEngine ----------------------------
(* SaveEngine as it is; each configuration says what may happen in its run. *)
EXTENDS SaveEngine
=============================================================================

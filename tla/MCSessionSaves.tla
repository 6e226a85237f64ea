--------------------------- MODULE MCSessionSaves ---------------------------
(* One or two sessions and the work of two runs. *)
EXTENDS SessionSaves
=============================================================================

--------------------------- MODULE MCOfflineAlert ---------------------------
(* OfflineAlert on small instances. *)
EXTENDS OfflineAlert
=============================================================================

------------------------- MODULE MC_ServerLifecycle -------------------------
(* ServerLifecycle has no constants; every configuration is enumerated in  *)
(* its Init.                                                                *)
EXTENDS ServerLifecycle
=============================================================================

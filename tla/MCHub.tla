-------------------------------- MODULE MCHub --------------------------------
(* Hub on small instances. *)
EXTENDS Hub
=============================================================================

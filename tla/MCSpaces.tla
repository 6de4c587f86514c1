------------------------------ MODULE MCSpaces -------------------------------
(* Spaces on small instances. *)
EXTENDS Spaces
=============================================================================

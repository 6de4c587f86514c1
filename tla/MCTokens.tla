------------------------------- MODULE MCTokens ------------------------------
(* Tokens on small instances. *)
EXTENDS Tokens
=============================================================================

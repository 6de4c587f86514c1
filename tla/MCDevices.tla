------------------------------ MODULE MCDevices ------------------------------
(* Devices on small instances. *)
EXTENDS Devices
=============================================================================

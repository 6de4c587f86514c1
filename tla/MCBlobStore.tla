----------------------------- MODULE MCBlobStore -----------------------------
(* BlobStore on small instances. *)
EXTENDS BlobStore
=============================================================================

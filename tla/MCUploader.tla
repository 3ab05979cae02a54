----------------------------- MODULE MCUploader -----------------------------
(* Uploader on small instances.                                            *)
EXTENDS Uploader
=============================================================================

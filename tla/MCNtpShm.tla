------------------------------ MODULE MCNtpShm ------------------------------
(* NtpShm on small instances.                                              *)
EXTENDS NtpShm
=============================================================================

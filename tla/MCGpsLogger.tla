---------------------------- MODULE MCGpsLogger -----------------------------
(* GpsLogger on small instances: two heap addresses, few seconds.          *)
EXTENDS GpsLogger, TLC

\* Addresses are only compared and allocated, so they are interchangeable.
CopySymmetry == Permutations(Copies)
=============================================================================

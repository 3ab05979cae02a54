--------------------------- MODULE MCModemLocate ----------------------------
(* ModemLocate with a few unsolicited lines.                               *)
EXTENDS ModemLocate
=============================================================================

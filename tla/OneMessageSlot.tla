--------------------------- MODULE OneMessageSlot ---------------------------
(***************************************************************************)
(* What the hand-over between gpslogger's two threads promises: a slot for *)
(* one message.  A message is put into an empty slot, used at most once,   *)
(* to say which second begins now, and then removed; messages come in the  *)
(* order of their seconds.                                                 *)
(***************************************************************************)
EXTENDS Naturals

VARIABLES
  slot, \* "empty", "full" or "used"
  msg,  \* the second of the message in the slot, 0 when it is empty
  out   \* the last time told

vars == <<slot, msg, out>>

Init == slot = "empty" /\ msg = 0 /\ out = 0

Put ==
  /\ slot = "empty" /\ slot' = "full"
  /\ msg' \in Nat \ {0} /\ msg' >= out /\ UNCHANGED out

\* The time goes nowhere when there is no one to tell.
Use ==
  /\ slot = "full" /\ slot' = "used"
  /\ out' \in {out, msg + 1} /\ UNCHANGED msg

Remove ==
  /\ slot = "used" /\ slot' = "empty"
  /\ msg' = 0 /\ UNCHANGED out

Next == Put \/ Use \/ Remove

Spec == Init /\ [][Next]_vars
=============================================================================

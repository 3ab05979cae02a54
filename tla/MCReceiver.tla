----------------------------- MODULE MCReceiver -----------------------------
(* Receiver with short messages and a short queue.  The instants are the   *)
(* boundaries of the clock, of a week and of a day.                        *)
EXTENDS Receiver

Sundays == {978825600 + Week * i : i \in {0, 1, 52, 1000, 1931}}
MCInstants ==
  {0, 315532799, 946684800, 978307199, 978307200, 2147483647}
    \cup UNION {{s - 1, s, s + 1, s + Day - 1, s + 3 * Day} : s \in Sundays}
=============================================================================

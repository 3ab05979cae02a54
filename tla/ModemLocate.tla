---------------------------- MODULE ModemLocate -----------------------------
(***************************************************************************)
(* ATLocHandler::GrabNetworkLocation over the serial port of celluploader, *)
(* and the modem at the other end.  Four commands are written one after    *)
(* the other, and after each one line is read for its echo and one for its *)
(* result; an OK to the last lets the location through, in a line after an *)
(* empty one.                                                              *)
(*                                                                         *)
(* The modem answers in order and in its own time; it may put unsolicited  *)
(* lines between its answers, and the port may be hung up between any two  *)
(* lines.  A line is told apart by what it is and by the command it is of. *)
(***************************************************************************)
EXTENDS Tokens

CONSTANTS
  MaxFields,     \* bounds the number of fields in the modem's location
  MaxUnsolicited \* bounds the unsolicited results
ASSUME BoundAssumption == MaxFields \in Nat /\ MaxUnsolicited \in Nat

VARIABLES
  at,          \* where the process is, or how it ended
  cmd,         \* the command it is at
  port,        \* m_fd is open
  buffer,      \* the line in outBuffer
  answer,      \* the fields of the location read
  context,     \* the context pointer into them
  field,       \* the field it is about to read
  got,         \* the field each coordinate was read from, 0 for none
  stored,      \* what addLocation was given
  hungUp,      \* the modem is gone
  toSend,      \* lines the modem has still to send
  wire,        \* lines sent and not yet read
  unsolicited  \* how often it has sent an unsolicited result

parseVars == <<answer, context, field, got, stored>>
modemVars == <<hungUp, toSend, wire, unsolicited>>
vars == <<at, cmd, port, buffer, parseVars, modemVars>>

Ended == {"location", "zeroes", "undefined", "crashed", "unset"}
Steps == {"open", "attach", "write", "echo", "result", "blank", "answer", "fields"}
Line(what, of) == [what |-> what, of |-> of]
Lines == [what : {"echo", "result", "OK", "ERROR", "blank", "location", "unsolicited", "cleared"}, of : 0..4]
Coordinates == [latitude : 0..MaxFields, longitude : 0..MaxFields]
Nowhere == [latitude |-> 0, longitude |-> 0]

TypeOK ==
  /\ at \in Steps \cup Ended /\ cmd \in 1..4 /\ port \in BOOLEAN
  /\ buffer \in Lines
  /\ answer \in Texts(MaxFields) /\ context \in 0..MaxFields /\ field \in 1..5
  /\ got \in Coordinates /\ stored \in Coordinates
  /\ hungUp \in BOOLEAN /\ toSend \in Seq(Lines) /\ wire \in Seq(Lines)
  /\ unsolicited \in 0..MaxUnsolicited

Init ==
  /\ at = "open" /\ cmd = 1 /\ port = FALSE
  /\ buffer = Line("cleared", 0)
  /\ answer = <<>> /\ context = Null /\ field = 1 /\ got = Nowhere /\ stored = Nowhere
  /\ hungUp = FALSE /\ toSend = <<>> /\ wire = <<>> /\ unsolicited = 0

-----------------------------------------------------------------------------
(* ATLocHandler::Setup.                                                    *)

OpenPort ==
  /\ at = "open"
  /\ \/ ~hungUp /\ at' = "attach" /\ port' = TRUE
     \/ at' = "unset" /\ UNCHANGED port
  /\ UNCHANGED <<cmd, buffer, parseVars, modemVars>>

\* Without the segment Shutdown closes the port again.
AttachSegment ==
  /\ at = "attach"
  /\ \/ at' = "write" /\ UNCHANGED port
     \/ at' = "unset" /\ port' = FALSE
  /\ UNCHANGED <<cmd, buffer, parseVars, modemVars>>

-----------------------------------------------------------------------------
(* The dialogue.                                                           *)

\* write() fails once the port is hung up.  (The third command is written with the length
\* of the second, so bytes of the stack follow it; the modem may take what comes next
\* for an error.)
WriteCommand ==
  /\ at = "write"
  /\ IF hungUp
       THEN at' = "zeroes" /\ UNCHANGED toSend
       ELSE at' = "echo" /\ toSend' = toSend \o <<Line("echo", cmd), Line("result", cmd)>>
  /\ UNCHANGED <<cmd, port, buffer, parseVars, hungUp, wire, unsolicited>>

\* ReadLine blocks until there is a line.  On a port hung up it reads nothing and leaves
\* what was in the buffer, with a zero written one past its end, or it fails.
ReadLine(kept, next, failed) ==
  \/ /\ wire # <<>>
     /\ buffer' = Head(wire) /\ wire' = Tail(wire) /\ at' = next
  \/ /\ wire = <<>> /\ hungUp
     /\ buffer' = kept /\ at' \in {next, failed, "crashed"}
     /\ UNCHANGED wire

\* Mutated: *outBuffer = 0 left out.
NotCleared == buffer
Cleared == Line("cleared", 0)

\* The line is not looked at, nor whether there was one.
\* Mutated: the echo is not read.
EchoNotRead ==
  /\ at = "echo" /\ at' = "result"
  /\ UNCHANGED <<cmd, port, buffer, parseVars, modemVars>>

ReadEcho ==
  /\ at = "echo" /\ ReadLine(Cleared, "result", "result")
  /\ UNCHANGED <<cmd, port, parseVars, hungUp, toSend, unsolicited>>

\* Only the last result is compared, and when it is not OK the function has no return.
\* Mutated: any result will do.
AnyResult(line) == TRUE
IsOk(line) == line.what = "OK"
AfterResult(line) ==
  IF cmd < 4 THEN "write" ELSE IF IsOk(line) THEN "blank" ELSE "undefined"

ReadResult ==
  /\ at = "result"
  /\ ReadLine(buffer, AfterResult(buffer'), "zeroes")
  /\ cmd' = IF at' = "write" THEN cmd + 1 ELSE cmd
  /\ UNCHANGED <<port, parseVars, hungUp, toSend, unsolicited>>

ReadBlank ==
  /\ at = "blank" /\ ReadLine(Cleared, "answer", "zeroes")
  /\ UNCHANGED <<cmd, port, parseVars, hungUp, toSend, unsolicited>>

\* A line that is not +UULOC: with a text after it leaves the zeroes.
ReadAnswer ==
  /\ at = "answer"
  /\ answer' \in IF wire # <<>> /\ Head(wire).what = "location" THEN Texts(MaxFields) ELSE {<<>>}
  /\ ReadLine(buffer, IF answer' = <<>> THEN "zeroes" ELSE "fields", "zeroes")
  /\ context' = IF answer' = <<>> THEN Null ELSE 1
  /\ UNCHANGED <<cmd, port, field, got, stored, hungUp, toSend, unsolicited>>

-----------------------------------------------------------------------------
(* The fields: date, time, latitude, longitude, altitude.                  *)

\* Mutated: as if the date were not there.
OneEarlier(f, t) ==
  [latitude  |-> IF f = 2 THEN t ELSE got.latitude,
   longitude |-> IF f = 3 THEN t ELSE got.longitude]
Assigned(f, t) ==
  [latitude  |-> IF f = 3 THEN t ELSE got.latitude,
   longitude |-> IF f = 4 THEN t ELSE got.longitude]

\* A token is taken first and the delimiter looked for after it, where the next field is;
\* a token that was the last leaves a null context to look through.
ReadField ==
  /\ at = "fields" /\ field < 5
  /\ \E t \in 0..Len(answer) : LET next == ContextAfter(answer, t) IN
       /\ IsToken(answer, context, t)
       /\ IF next = Null
            THEN at' = "crashed" /\ UNCHANGED <<context, field, got>>
            ELSE /\ field' = field + 1 /\ at' = at
                 /\ IF DelimiterAhead(answer, next)
                      THEN context' = next + 1 /\ got' = got
                      ELSE context' = next /\ got' = Assigned(field, t)
  /\ UNCHANGED <<cmd, port, buffer, answer, stored, modemVars>>

\* The altitude must be there; then the location is stored and returned.
ReadAltitude ==
  /\ at = "fields" /\ field = 5
  /\ \E t \in 0..Len(answer) :
       /\ IsToken(answer, context, t)
       /\ at' = IF t = Null THEN "crashed" ELSE "location"
  /\ stored' = IF at' = "location" THEN got ELSE stored
  /\ UNCHANGED <<cmd, port, buffer, answer, context, field, got, modemVars>>

-----------------------------------------------------------------------------
(* The modem.                                                              *)

\* The next line: a result is OK or ERROR, and the location follows the OK to the last.
ModemSends ==
  /\ ~hungUp /\ toSend # <<>>
  /\ LET line == Head(toSend) IN
       IF line.what = "result"
         THEN \E verdict \in {"OK", "ERROR"} :
                /\ wire' = Append(wire, Line(verdict, line.of))
                /\ toSend' = IF verdict = "OK" /\ line.of = 4
                               THEN Tail(toSend) \o <<Line("blank", 4), Line("location", 4)>>
                               ELSE Tail(toSend)
         ELSE wire' = Append(wire, line) /\ toSend' = Tail(toSend)
  /\ UNCHANGED <<at, cmd, port, buffer, parseVars, hungUp, unsolicited>>

\* An unsolicited result is an empty line and one that starts with a plus.
ModemInterrupts ==
  /\ ~hungUp /\ port /\ unsolicited < MaxUnsolicited
  /\ wire' = wire \o <<Line("blank", 0), Line("unsolicited", 0)>>
  /\ unsolicited' = unsolicited + 1
  /\ UNCHANGED <<at, cmd, port, buffer, parseVars, hungUp, toSend>>

HangUp ==
  /\ ~hungUp /\ hungUp' = TRUE
  /\ UNCHANGED <<at, cmd, port, buffer, parseVars, toSend, wire, unsolicited>>

-----------------------------------------------------------------------------
Process ==
  \/ OpenPort \/ AttachSegment \/ WriteCommand \/ ReadEcho \/ ReadResult \/ ReadBlank
  \/ ReadAnswer \/ ReadField \/ ReadAltitude

Next == Process \/ ModemSends \/ ModemInterrupts \/ HangUp

Spec == Init /\ [][Next]_vars

\* The process runs, and the modem sends what it owes unless the port is hung up.
FairSpec == Spec /\ WF_vars(Process) /\ WF_vars(ModemSends)

-----------------------------------------------------------------------------
(* Properties.                                                             *)

\* Without unsolicited lines every line read is the one the code takes it for: the echo
\* and the result of the command just written, then the empty line and the location
\* (ATLocHandler.cpp:63-68, 112-119, 131-143).
InStep ==
  unsolicited = 0 /\ wire # <<>> =>
    /\ at = "echo" => Head(wire) = Line("echo", cmd)
    /\ at = "result" => Head(wire) \in {Line("OK", cmd), Line("ERROR", cmd)}
    /\ at = "blank" => Head(wire) = Line("blank", 4)
    /\ at = "answer" => Head(wire) = Line("location", 4)

\* The OK that lets the code wait for a location is the modem's to AT+ULOC, wherever the
\* port was hung up: no line left in the buffer from an earlier command passes for it
\* (ATLocHandler.cpp:113, 128).
OkIsForLocate == unsolicited = 0 /\ at = "blank" => buffer = Line("OK", 4)

\* What is stored for gpslogger is the latitude and the longitude of the answer when it
\* gives all of its fields (ATLocHandler.cpp:154, 172-217); the code looks for an empty
\* field one delimiter too late to say more.
CoordinatesInPlace ==
  at = "location" /\ Len(answer) >= 5 /\ (\A i \in 1..5 : answer[i]) =>
    stored = [latitude |-> 3, longitude |-> 4]

\* The process never waits for a line that nobody is going to send, although read() has no
\* time limit: while it reads, with however many unsolicited lines taken for answers, a line
\* is there or owed, unless the port is hung up (ATLocHandler.cpp:63-68, 112-143).
LineIsOwed ==
  at \in {"echo", "result", "blank", "answer"} /\ wire = <<>> => hungUp \/ toSend # <<>>

\* GrabNetworkLocation comes to an end with whatever the modem answers and wherever it is
\* cut off: it never waits for a line that the modem does not owe, although read() has no
\* time limit (ATLocHandler.cpp:118-149).
Ends == <>(at \in Ended)
=============================================================================

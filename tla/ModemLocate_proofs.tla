-------------------------- MODULE ModemLocate_proofs --------------------------
(***************************************************************************)
(* Proofs about ModemLocate, for answers of any length and any number of   *)
(* unsolicited results.                                                    *)
(***************************************************************************)
EXTENDS ModemLocate, SequenceTheorems, TLAPS

-----------------------------------------------------------------------------
(* What the modem owes.                                                    *)

Echo(c) == Line("echo", c)
Ok == Line("OK", 4)
Blank == Line("blank", 4)
Location == Line("location", 4)

\* The lines sent, and those still to be sent, when the process is about to read the
\* location, the empty line, a result, and an echo; each is the one after it with a line
\* in front.
AtAnswer ==
  \/ wire = <<>> /\ toSend = <<Location>>
  \/ wire = <<Location>> /\ toSend = <<>>

AtBlank ==
  \/ wire = <<>> /\ toSend = <<Blank, Location>>
  \/ wire = <<Blank>> /\ toSend = <<Location>>
  \/ wire = <<Blank, Location>> /\ toSend = <<>>

AtResult ==
  \/ wire = <<>> /\ toSend = <<Line("result", cmd)>>
  \/ wire = <<Line("ERROR", cmd)>> /\ toSend = <<>>
  \/ cmd < 4 /\ wire = <<Line("OK", cmd)>> /\ toSend = <<>>
  \/ cmd = 4 /\ wire = <<Ok>> /\ toSend = <<Blank, Location>>
  \/ cmd = 4 /\ wire = <<Ok, Blank>> /\ toSend = <<Location>>
  \/ cmd = 4 /\ wire = <<Ok, Blank, Location>> /\ toSend = <<>>

AtEcho ==
  \/ wire = <<>> /\ toSend = <<Echo(cmd), Line("result", cmd)>>
  \/ wire = <<Echo(cmd)>> /\ toSend = <<Line("result", cmd)>>
  \/ wire = <<Echo(cmd), Line("ERROR", cmd)>> /\ toSend = <<>>
  \/ cmd < 4 /\ wire = <<Echo(cmd), Line("OK", cmd)>> /\ toSend = <<>>
  \/ cmd = 4 /\ wire = <<Echo(cmd), Ok>> /\ toSend = <<Blank, Location>>
  \/ cmd = 4 /\ wire = <<Echo(cmd), Ok, Blank>> /\ toSend = <<Location>>
  \/ cmd = 4 /\ wire = <<Echo(cmd), Ok, Blank, Location>> /\ toSend = <<>>

\* Nothing more will come.
Dead == hungUp /\ wire = <<>>

WireInv ==
  unsolicited = 0 =>
    /\ at \in {"open", "attach", "write"} => wire = <<>> /\ (toSend = <<>> \/ hungUp)
    /\ at = "echo" => AtEcho
    /\ at = "result" => AtResult \/ Dead
    /\ at = "blank" => AtBlank \/ Dead
    /\ at = "answer" => AtAnswer \/ Dead

\* No OK is left in the buffer where a result is read.
BufferInv ==
  unsolicited = 0 =>
    /\ at = "result" => buffer \in {Echo(cmd), Line("cleared", 0)}
    /\ at = "blank" => cmd = 4 /\ buffer = Ok

\* With all fields there, each is read at its place.
AllGiven == Len(answer) >= 5 /\ \A i \in 1..5 : answer[i]

FieldInv ==
  /\ at \in Steps \ {"fields"} => field = 1 /\ got = Nowhere
  /\ at = "fields" => context <= Len(answer)
  /\ at = "fields" /\ AllGiven =>
       /\ context = field
       /\ got = [latitude |-> IF field > 3 THEN 3 ELSE 0, longitude |-> IF field > 4 THEN 4 ELSE 0]

ModemInv == TypeOK /\ WireInv /\ BufferInv /\ FieldInv /\ CoordinatesInPlace

-----------------------------------------------------------------------------
(* Short sequences.                                                        *)

LEMMA Tails ==
  ASSUME NEW a, NEW b, NEW c, NEW d
  PROVE  /\ Tail(<<a>>) = <<>> /\ Tail(<<a, b>>) = <<b>>
         /\ Tail(<<a, b, c>>) = <<b, c>> /\ Tail(<<a, b, c, d>>) = <<b, c, d>>
OBVIOUS

LEMMA Heads ==
  ASSUME NEW a, NEW b, NEW c, NEW d
  PROVE  /\ Head(<<a>>) = a /\ Head(<<a, b>>) = a
         /\ Head(<<a, b, c>>) = a /\ Head(<<a, b, c, d>>) = a
OBVIOUS

LEMMA Appends ==
  ASSUME NEW a, NEW b, NEW c
  PROVE  /\ Append(<<>>, a) = <<a>> /\ Append(<<a>>, b) = <<a, b>>
         /\ Append(<<a, b>>, c) = <<a, b, c>>
         /\ <<>> \o <<a, b>> = <<a, b>>
<1>1. Append(<<>>, a) = <<a>>
  OBVIOUS
<1>2. Append(<<a>>, b) = <<a, b>>
  <2> DEFINE S == {a, b, c}
  <2>1. <<a>> \in Seq(S) /\ <<a, b>> \in Seq(S) /\ Len(<<a>>) = 1 /\ Len(<<a, b>>) = 2
    OBVIOUS
  <2>2. Append(<<a>>, b) \in Seq(S) /\ Len(Append(<<a>>, b)) = 2
    BY <2>1, AppendProperties
  <2>3. \A i \in 1..2 : Append(<<a>>, b)[i] = <<a, b>>[i]
    BY <2>1, AppendProperties
  <2> QED
    BY <2>1, <2>2, <2>3, SeqEqual
<1>3. Append(<<a, b>>, c) = <<a, b, c>>
  <2> DEFINE S == {a, b, c}
  <2>1. <<a, b>> \in Seq(S) /\ <<a, b, c>> \in Seq(S) /\ Len(<<a, b>>) = 2 /\ Len(<<a, b, c>>) = 3
    OBVIOUS
  <2>2. Append(<<a, b>>, c) \in Seq(S) /\ Len(Append(<<a, b>>, c)) = 3
    BY <2>1, AppendProperties
  <2>3. \A i \in 1..3 : Append(<<a, b>>, c)[i] = <<a, b, c>>[i]
    BY <2>1, AppendProperties
  <2> QED
    BY <2>1, <2>2, <2>3, SeqEqual
<1>4. <<>> \o <<a, b>> = <<a, b>>
  OBVIOUS
<1> QED
  BY <1>1, <1>2, <1>3, <1>4

LEMMA AppendFourth ==
  ASSUME NEW a, NEW b, NEW c, NEW d
  PROVE  Append(<<a, b, c>>, d) = <<a, b, c, d>>
<1> DEFINE S == {a, b, c, d}
<1>1. <<a, b, c>> \in Seq(S) /\ <<a, b, c, d>> \in Seq(S) /\ Len(<<a, b, c>>) = 3 /\ Len(<<a, b, c, d>>) = 4
  OBVIOUS
<1>2. Append(<<a, b, c>>, d) \in Seq(S) /\ Len(Append(<<a, b, c>>, d)) = 4
  BY <1>1, AppendProperties
<1>3. \A i \in 1..4 : Append(<<a, b, c>>, d)[i] = <<a, b, c, d>>[i]
  BY <1>1, AppendProperties
<1> QED
  BY <1>1, <1>2, <1>3, SeqEqual

LEMMA Nonempty ==
  ASSUME NEW a, NEW b, NEW c, NEW d
  PROVE  <<a>> # <<>> /\ <<a, b>> # <<>> /\ <<a, b, c>> # <<>> /\ <<a, b, c, d>> # <<>>
OBVIOUS

\* A text has a length, and a field is empty or not.
LEMMA TextLen ==
  ASSUME NEW n \in Nat, NEW filled \in Texts(n)
  PROVE  /\ Len(filled) \in 0..n /\ filled \in [1..Len(filled) -> BOOLEAN]
         /\ filled # <<>> => Len(filled) > 0
<1>1. PICK k \in 0..n : filled \in [1..k -> BOOLEAN]
  BY DEF Texts
<1>2. Len(filled) = k
  BY <1>1
<1>3. k = 0 => filled = <<>>
  BY <1>1
<1> QED
  BY <1>1, <1>2, <1>3

\* Line by line: what a line is tells it apart.
LEMMA LineIs ==
  ASSUME NEW what, NEW of
  PROVE  Line(what, of).what = what /\ Line(what, of).of = of
BY DEF Line

LEMMA LineType ==
  ASSUME NEW of \in 0..4,
         NEW what \in {"echo", "result", "OK", "ERROR", "blank", "location", "unsolicited", "cleared"}
  PROVE  Line(what, of) \in Lines
BY DEF Line, Lines

-----------------------------------------------------------------------------
LEMMA InitModem == Init => ModemInv
<1> SUFFICES ASSUME Init PROVE ModemInv
  OBVIOUS
<1> USE DEF Init
<1>1. answer \in Texts(MaxFields)
  <2>1. <<>> \in [1..0 -> BOOLEAN]
    OBVIOUS
  <2> QED
    BY <2>1, BoundAssumption DEF Texts
<1>2. TypeOK
  <2>1. buffer \in Lines
    BY DEF Lines, Line
  <2>2. got \in Coordinates /\ stored \in Coordinates
    BY BoundAssumption DEF Coordinates, Nowhere
  <2>3. toSend \in Seq(Lines) /\ wire \in Seq(Lines)
    OBVIOUS
  <2>4. at \in Steps /\ context \in 0..MaxFields /\ unsolicited \in 0..MaxUnsolicited
    BY BoundAssumption DEF Steps, Null
  <2>5. cmd \in 1..4 /\ field \in 1..5
    OBVIOUS
  <2>6. port \in BOOLEAN /\ hungUp \in BOOLEAN
    BY Zenon
  <2> QED
    BY <1>1, <2>1, <2>2, <2>3, <2>4, <2>5, <2>6 DEF TypeOK
<1>3. WireInv /\ BufferInv
  BY DEF WireInv, BufferInv
<1>4. FieldInv /\ CoordinatesInPlace
  BY DEF FieldInv, CoordinatesInPlace
<1> QED
  BY <1>2, <1>3, <1>4 DEF ModemInv

-----------------------------------------------------------------------------
(* The process.                                                            *)

LEMMA StartStep ==
  ASSUME ModemInv, OpenPort \/ AttachSegment
  PROVE  ModemInv'
<1> USE DEF ModemInv
<1>1. /\ at \in {"open", "attach"} /\ at' \in {"attach", "write", "unset"}
      /\ UNCHANGED <<cmd, buffer, parseVars, modemVars>>
  BY DEF OpenPort, AttachSegment
<1>2. port' \in BOOLEAN
  BY Zenon DEF OpenPort, AttachSegment, TypeOK
<1> USE <1>1 DEF parseVars, modemVars
<1>3. TypeOK'
  BY <1>2 DEF TypeOK, Steps, Ended
<1>4. WireInv' /\ BufferInv'
  BY DEF WireInv, BufferInv
<1>5. FieldInv' /\ CoordinatesInPlace'
  BY DEF FieldInv, CoordinatesInPlace, Steps
<1> QED
  BY <1>3, <1>4, <1>5

LEMMA WriteStep ==
  ASSUME ModemInv, WriteCommand
  PROVE  ModemInv'
<1> USE DEF ModemInv
<1>1. /\ at = "write" /\ at' \in {"echo", "zeroes"}
      /\ UNCHANGED <<cmd, port, buffer, answer, context, field, got, stored>>
      /\ UNCHANGED <<hungUp, wire, unsolicited>>
  BY DEF WriteCommand, parseVars
<1>2. at' = "echo" =>
        ~hungUp /\ toSend' = toSend \o <<Line("echo", cmd), Line("result", cmd)>>
  BY DEF WriteCommand
<1>3. at' = "zeroes" => toSend' = toSend
  BY DEF WriteCommand
<1>4. toSend' \in Seq(Lines)
  <2>1. Line("echo", cmd) \in Lines /\ Line("result", cmd) \in Lines
    BY DEF Lines, Line, TypeOK
  <2>2. <<Line("echo", cmd), Line("result", cmd)>> \in Seq(Lines)
    BY <2>1
  <2>3. toSend \in Seq(Lines)
    BY DEF TypeOK
  <2> QED
    BY <1>1, <1>2, <1>3, <2>2, <2>3, ConcatProperties
<1>5. TypeOK'
  BY <1>1, <1>4 DEF TypeOK, Steps, Ended
<1>6. WireInv'
  <2> SUFFICES ASSUME unsolicited = 0, at' = "echo" PROVE AtEcho'
    BY <1>1 DEF WireInv
  <2>1. wire = <<>> /\ toSend = <<>>
    BY <1>1, <1>2 DEF WireInv
  <2>2. toSend' = <<Echo(cmd), Line("result", cmd)>>
    BY <1>2, <2>1, Appends DEF Echo
  <2> QED
    BY <1>1, <2>1, <2>2 DEF AtEcho, Echo
<1>7. BufferInv' /\ FieldInv' /\ CoordinatesInPlace'
  BY <1>1 DEF BufferInv, FieldInv, CoordinatesInPlace, Steps
<1> QED
  BY <1>5, <1>6, <1>7

\* A line read is a line, and those after it stay.
LEMMA ReadTypes ==
  ASSUME TypeOK, wire # <<>>
  PROVE  Head(wire) \in Lines /\ Tail(wire) \in Seq(Lines)
<1>1. wire \in Seq(Lines)
  BY DEF TypeOK
<1> QED
  BY <1>1, HeadTailProperties

LEMMA EchoStep ==
  ASSUME ModemInv, ReadEcho
  PROVE  ModemInv'
<1> USE DEF ModemInv
<1>1. /\ at = "echo" /\ at' \in {"result", "crashed"}
      /\ UNCHANGED <<cmd, port, answer, context, field, got, stored>>
      /\ UNCHANGED <<hungUp, toSend, unsolicited>>
      /\ \/ wire # <<>> /\ buffer' = Head(wire) /\ wire' = Tail(wire)
         \/ wire = <<>> /\ hungUp /\ buffer' = Line("cleared", 0) /\ wire' = wire
  BY DEF ReadEcho, ReadLine, Cleared, parseVars
<1>2. TypeOK'
  <2>1. Line("cleared", 0) \in Lines
    BY LineType
  <2>2. wire' \in Seq(Lines) /\ buffer' \in Lines
    BY <1>1, <2>1, ReadTypes DEF TypeOK
  <2> QED
    BY <1>1, <2>2 DEF TypeOK, Steps, Ended
<1>3. ASSUME unsolicited = 0, wire # <<>>
      PROVE  AtResult' /\ buffer' = Echo(cmd)
  <2>1. AtEcho /\ cmd' = cmd /\ toSend' = toSend /\ buffer' = Head(wire) /\ wire' = Tail(wire)
    BY <1>1, <1>3 DEF WireInv
  <2>2. buffer' = Echo(cmd)
    BY <1>3, <2>1, Heads DEF AtEcho
  <2>3. CASE wire = <<Echo(cmd)>> /\ toSend = <<Line("result", cmd)>>
    <3>1. wire' = <<>>
      BY <2>1, <2>3, Tails
    <3> QED
      BY <2>1, <2>2, <2>3, <3>1 DEF AtResult
  <2>4. CASE wire = <<Echo(cmd), Line("ERROR", cmd)>> /\ toSend = <<>>
    <3>1. wire' = <<Line("ERROR", cmd)>>
      BY <2>1, <2>4, Tails
    <3> QED
      BY <2>1, <2>2, <2>4, <3>1 DEF AtResult
  <2>5. CASE cmd < 4 /\ wire = <<Echo(cmd), Line("OK", cmd)>> /\ toSend = <<>>
    <3>1. wire' = <<Line("OK", cmd)>>
      BY <2>1, <2>5, Tails
    <3> QED
      BY <2>1, <2>2, <2>5, <3>1 DEF AtResult
  <2>6. CASE cmd = 4 /\ wire = <<Echo(cmd), Ok>> /\ toSend = <<Blank, Location>>
    <3>1. wire' = <<Ok>>
      BY <2>1, <2>6, Tails
    <3> QED
      BY <2>1, <2>2, <2>6, <3>1 DEF AtResult
  <2>7. CASE cmd = 4 /\ wire = <<Echo(cmd), Ok, Blank>> /\ toSend = <<Location>>
    <3>1. wire' = <<Ok, Blank>>
      BY <2>1, <2>7, Tails
    <3> QED
      BY <2>1, <2>2, <2>7, <3>1 DEF AtResult
  <2>8. CASE cmd = 4 /\ wire = <<Echo(cmd), Ok, Blank, Location>> /\ toSend = <<>>
    <3>1. wire' = <<Ok, Blank, Location>>
      BY <2>1, <2>8, Tails
    <3> QED
      BY <2>1, <2>2, <2>8, <3>1 DEF AtResult
  <2> QED
    BY <1>3, <2>1, <2>2, <2>3, <2>4, <2>5, <2>6, <2>7, <2>8 DEF AtEcho
<1>4. WireInv' /\ BufferInv'
  BY <1>1, <1>3 DEF WireInv, BufferInv, Dead, Echo
<1>5. FieldInv' /\ CoordinatesInPlace'
  BY <1>1 DEF FieldInv, CoordinatesInPlace, Steps
<1> QED
  BY <1>2, <1>4, <1>5

LEMMA ResultStep ==
  ASSUME ModemInv, ReadResult
  PROVE  ModemInv'
<1> USE DEF ModemInv
<1>1. /\ at = "result" /\ UNCHANGED <<port, answer, context, field, got, stored>>
      /\ UNCHANGED <<hungUp, toSend, unsolicited>>
      /\ cmd' = IF at' = "write" THEN cmd + 1 ELSE cmd
      /\ \/ wire # <<>> /\ buffer' = Head(wire) /\ wire' = Tail(wire) /\ at' = AfterResult(buffer')
         \/ /\ wire = <<>> /\ hungUp /\ buffer' = buffer /\ wire' = wire
            /\ at' \in {AfterResult(buffer'), "zeroes", "crashed"}
  BY DEF ReadResult, ReadLine, parseVars
<1>2. /\ at' \in {"write", "blank", "undefined", "zeroes", "crashed"}
      /\ at' = "write" => cmd < 4
      /\ at' = "blank" => ~(cmd < 4) /\ IsOk(buffer')
  BY <1>1 DEF AfterResult
<1>3. TypeOK'
  <2>1. wire' \in Seq(Lines) /\ buffer' \in Lines
    BY <1>1, ReadTypes DEF TypeOK
  <2>2. cmd' \in 1..4
    BY <1>1, <1>2 DEF TypeOK
  <2> QED
    BY <1>1, <1>2, <2>1, <2>2 DEF TypeOK, Steps, Ended
<1>4. ASSUME unsolicited = 0, wire = <<>>
      PROVE  at' # "blank"
  <2>1. buffer \in {Echo(cmd), Line("cleared", 0)} /\ buffer' = buffer
    BY <1>1, <1>4 DEF BufferInv
  <2>2. ~IsOk(buffer')
    BY <2>1 DEF IsOk, Echo, Line
  <2> QED
    BY <1>2, <2>2
<1>5. ASSUME unsolicited = 0, wire # <<>>
      PROVE  /\ cmd < 4 => wire' = <<>> /\ toSend' = <<>>
             /\ IsOk(buffer') /\ cmd = 4 => AtBlank' /\ buffer' = Ok
  <2>1. AtResult /\ toSend' = toSend /\ buffer' = Head(wire) /\ wire' = Tail(wire)
    BY <1>1, <1>5 DEF WireInv, Dead
  <2>2. cmd < 4 => wire' = <<>> /\ toSend' = <<>>
    BY <1>5, <2>1, Tails DEF AtResult
  <2>3. wire = <<Line("ERROR", cmd)>> => ~IsOk(buffer')
    BY <2>1, Heads, LineIs DEF IsOk
  <2>4. IsOk(buffer') /\ cmd = 4 => buffer' = Ok
    BY <1>5, <2>1, <2>3, Heads DEF AtResult
  <2>5. IsOk(buffer') /\ cmd = 4 => AtBlank'
    <3> SUFFICES ASSUME IsOk(buffer'), cmd = 4 PROVE AtBlank'
      OBVIOUS
    <3>1. CASE wire = <<Ok>> /\ toSend = <<Blank, Location>>
      BY <2>1, <3>1, Tails DEF AtBlank
    <3>2. CASE wire = <<Ok, Blank>> /\ toSend = <<Location>>
      BY <2>1, <3>2, Tails DEF AtBlank
    <3>3. CASE wire = <<Ok, Blank, Location>> /\ toSend = <<>>
      BY <2>1, <3>3, Tails DEF AtBlank
    <3> QED
      BY <1>5, <2>1, <2>3, <3>1, <3>2, <3>3 DEF AtResult
  <2> QED
    BY <2>2, <2>4, <2>5
<1>6. cmd \in 1..4
  BY DEF TypeOK
<1>7. WireInv'
  BY <1>1, <1>2, <1>4, <1>5, <1>6 DEF WireInv, Dead
<1>8. BufferInv'
  BY <1>1, <1>2, <1>4, <1>5, <1>6 DEF BufferInv
<1>9. FieldInv' /\ CoordinatesInPlace'
  BY <1>1, <1>2 DEF FieldInv, CoordinatesInPlace, Steps
<1> QED
  BY <1>3, <1>7, <1>8, <1>9

LEMMA BlankStep ==
  ASSUME ModemInv, ReadBlank
  PROVE  ModemInv'
<1> USE DEF ModemInv
<1>1. /\ at = "blank" /\ at' \in {"answer", "zeroes", "crashed"}
      /\ UNCHANGED <<cmd, port, answer, context, field, got, stored>>
      /\ UNCHANGED <<hungUp, toSend, unsolicited>>
      /\ \/ wire # <<>> /\ buffer' = Head(wire) /\ wire' = Tail(wire)
         \/ wire = <<>> /\ hungUp /\ buffer' = Line("cleared", 0) /\ wire' = wire
  BY DEF ReadBlank, ReadLine, Cleared, parseVars
<1>2. TypeOK'
  <2>1. Line("cleared", 0) \in Lines
    BY LineType
  <2>2. wire' \in Seq(Lines) /\ buffer' \in Lines
    BY <1>1, <2>1, ReadTypes DEF TypeOK
  <2> QED
    BY <1>1, <2>2 DEF TypeOK, Steps, Ended
<1>3. ASSUME unsolicited = 0, wire # <<>>
      PROVE  AtAnswer'
  <2>1. AtBlank /\ toSend' = toSend /\ wire' = Tail(wire)
    BY <1>1, <1>3 DEF WireInv, Dead
  <2>2. CASE wire = <<Blank>> /\ toSend = <<Location>>
    BY <2>1, <2>2, Tails DEF AtAnswer
  <2>3. CASE wire = <<Blank, Location>> /\ toSend = <<>>
    BY <2>1, <2>3, Tails DEF AtAnswer
  <2> QED
    BY <1>3, <2>1, <2>2, <2>3 DEF AtBlank
<1>4. WireInv' /\ BufferInv'
  BY <1>1, <1>3 DEF WireInv, BufferInv, Dead
<1>5. FieldInv' /\ CoordinatesInPlace'
  BY <1>1 DEF FieldInv, CoordinatesInPlace, Steps
<1> QED
  BY <1>2, <1>4, <1>5

LEMMA AnswerStep ==
  ASSUME ModemInv, ReadAnswer
  PROVE  ModemInv'
<1> USE DEF ModemInv
<1>1. /\ at = "answer" /\ at' \in {"fields", "zeroes", "crashed"}
      /\ at' = "fields" => answer' # <<>>
      /\ context' = IF answer' = <<>> THEN 0 ELSE 1
      /\ UNCHANGED <<cmd, port, field, got, stored, hungUp, toSend, unsolicited>>
      /\ \/ wire # <<>> /\ buffer' = Head(wire) /\ wire' = Tail(wire)
         \/ wire = <<>> /\ buffer' = buffer /\ wire' = wire
  BY DEF ReadAnswer, ReadLine, Null
<1>2. answer' \in Texts(MaxFields)
  <2>1. <<>> \in [1..0 -> BOOLEAN]
    OBVIOUS
  <2>2. <<>> \in Texts(MaxFields)
    BY <2>1, BoundAssumption DEF Texts
  <2> QED
    BY <2>2 DEF ReadAnswer
<1>3. /\ Len(answer') \in 0..MaxFields
      /\ answer' # <<>> => Len(answer') > 0
  BY <1>2, TextLen, BoundAssumption
<1>4. TypeOK'
  <2>1. wire' \in Seq(Lines) /\ buffer' \in Lines
    BY <1>1, ReadTypes DEF TypeOK
  <2>2. context' \in 0..MaxFields
    BY <1>1, <1>3, BoundAssumption
  <2> QED
    BY <1>1, <1>2, <2>1, <2>2 DEF TypeOK, Steps, Ended
<1>5. WireInv' /\ BufferInv'
  BY <1>1 DEF WireInv, BufferInv
<1>6. field = 1 /\ got = Nowhere
  BY <1>1 DEF FieldInv, Steps
<1>7. FieldInv' /\ CoordinatesInPlace'
  BY <1>1, <1>3, <1>6 DEF FieldInv, CoordinatesInPlace, Steps, Nowhere
<1> QED
  BY <1>4, <1>5, <1>7

-----------------------------------------------------------------------------
(* The fields.                                                             *)

LEMMA FieldStep ==
  ASSUME ModemInv, ReadField
  PROVE  ModemInv'
<1> USE DEF ModemInv
<1>1. /\ at = "fields" /\ field < 5 /\ field \in 1..5 /\ got \in Coordinates
      /\ UNCHANGED <<cmd, port, buffer, answer, stored>>
      /\ UNCHANGED <<hungUp, toSend, wire, unsolicited>>
  BY DEF ReadField, modemVars, TypeOK
<1>2. answer \in Texts(MaxFields) /\ context \in 0..MaxFields /\ context <= Len(answer)
  BY <1>1 DEF TypeOK, FieldInv
<1>3. Len(answer) \in 0..MaxFields /\ MaxFields \in Nat
  BY <1>2, TextLen, BoundAssumption
<1>4. PICK t \in 0..Len(answer) :
        /\ IsToken(answer, context, t)
        /\ \/ /\ ContextAfter(answer, t) = Null
              /\ at' = "crashed" /\ UNCHANGED <<context, field, got>>
           \/ /\ ContextAfter(answer, t) # Null
              /\ field' = field + 1 /\ at' = at
              /\ \/ /\ DelimiterAhead(answer, ContextAfter(answer, t))
                    /\ context' = ContextAfter(answer, t) + 1 /\ got' = got
                 \/ /\ ~DelimiterAhead(answer, ContextAfter(answer, t))
                    /\ context' = ContextAfter(answer, t) /\ got' = Assigned(field, t)
  BY DEF ReadField
<1>5. ContextAfter(answer, t) \in 0..Len(answer)
  BY <1>3 DEF ContextAfter, Null
<1>6. context' \in 0..Len(answer)
  BY <1>2, <1>3, <1>4, <1>5 DEF DelimiterAhead
<1>7. Assigned(field, t) \in Coordinates
  <2>1. got.latitude \in 0..MaxFields /\ got.longitude \in 0..MaxFields
    BY <1>1 DEF Coordinates
  <2> QED
    BY <1>3, <2>1 DEF Assigned, Coordinates
<1>8. TypeOK'
  BY <1>1, <1>3, <1>4, <1>6, <1>7 DEF TypeOK, Steps, Ended
<1>9. WireInv' /\ BufferInv'
  BY <1>1, <1>4 DEF WireInv, BufferInv
<1>10. FieldInv'
  <2>1. CASE at' = "crashed"
    BY <2>1 DEF FieldInv, Steps
  <2>2. CASE at' = "fields"
    <3>1. context' <= Len(answer')
      BY <1>1, <1>3, <1>6
    <3> SUFFICES ASSUME AllGiven
                 PROVE  /\ context' = field'
                        /\ got' = [latitude |-> IF field' > 3 THEN 3 ELSE 0,
                                   longitude |-> IF field' > 4 THEN 4 ELSE 0]
      BY <1>1, <2>2, <3>1 DEF FieldInv, Steps, AllGiven
    <3>2. /\ Len(answer) >= 5 /\ \A i \in 1..5 : answer[i]
          /\ context = field
          /\ got = [latitude |-> IF field > 3 THEN 3 ELSE 0, longitude |-> IF field > 4 THEN 4 ELSE 0]
      BY <1>1 DEF AllGiven, FieldInv
    <3>3. answer[field] /\ answer[field + 1]
      BY <1>1, <3>2
    <3>4. t = field
      BY <1>1, <1>3, <1>4, <3>2, <3>3 DEF IsToken, Null
    <3>5. ContextAfter(answer, t) = field + 1
      BY <1>1, <1>3, <3>2, <3>4 DEF ContextAfter, Null
    <3>6. ~DelimiterAhead(answer, field + 1)
      BY <3>3 DEF DelimiterAhead
    <3>7. context' = field + 1 /\ field' = field + 1 /\ got' = Assigned(field, field)
      BY <1>4, <2>2, <3>4, <3>5, <3>6
    <3>8. Assigned(field, field) = [latitude |-> IF field + 1 > 3 THEN 3 ELSE 0,
                                    longitude |-> IF field + 1 > 4 THEN 4 ELSE 0]
      BY <1>1, <3>2 DEF Assigned
    <3> QED
      BY <3>7, <3>8
  <2> QED
    BY <1>1, <1>4, <2>1, <2>2
<1>11. CoordinatesInPlace'
  BY <1>1, <1>4 DEF CoordinatesInPlace
<1> QED
  BY <1>8, <1>9, <1>10, <1>11

LEMMA AltitudeStep ==
  ASSUME ModemInv, ReadAltitude
  PROVE  ModemInv'
<1> USE DEF ModemInv
<1>1. /\ at = "fields" /\ field = 5 /\ at' \in {"crashed", "location"}
      /\ stored' = IF at' = "location" THEN got ELSE stored
      /\ UNCHANGED <<cmd, port, buffer, answer, context, field, got>>
      /\ UNCHANGED <<hungUp, toSend, wire, unsolicited>>
  BY DEF ReadAltitude, modemVars
<1>2. TypeOK'
  BY <1>1 DEF TypeOK, Steps, Ended
<1>3. WireInv' /\ BufferInv' /\ FieldInv'
  BY <1>1 DEF WireInv, BufferInv, FieldInv, Steps
<1>4. CoordinatesInPlace'
  BY <1>1 DEF FieldInv, CoordinatesInPlace, AllGiven
<1> QED
  BY <1>2, <1>3, <1>4

-----------------------------------------------------------------------------
(* The modem.                                                              *)

LEMMA SendStep ==
  ASSUME ModemInv, ModemSends
  PROVE  ModemInv'
<1> USE DEF ModemInv
<1>1. /\ ~hungUp /\ toSend # <<>>
      /\ UNCHANGED <<at, cmd, port, buffer, answer, context, field, got, stored, hungUp, unsolicited>>
  BY DEF ModemSends, parseVars
<1>2. /\ toSend \in Seq(Lines) /\ wire \in Seq(Lines)
      /\ Head(toSend) \in Lines /\ Tail(toSend) \in Seq(Lines)
  BY <1>1, HeadTailProperties DEF TypeOK
<1>3. \/ /\ Head(toSend).what = "result"
         /\ \E verdict \in {"OK", "ERROR"} :
              /\ wire' = Append(wire, Line(verdict, Head(toSend).of))
              /\ toSend' = IF verdict = "OK" /\ Head(toSend).of = 4
                             THEN Tail(toSend) \o <<Blank, Location>> ELSE Tail(toSend)
      \/ /\ Head(toSend).what # "result"
         /\ wire' = Append(wire, Head(toSend)) /\ toSend' = Tail(toSend)
  BY DEF ModemSends, Blank, Location
<1>4. TypeOK'
  <2>1. <<Blank, Location>> \in Seq(Lines)
    BY DEF Blank, Location, Line, Lines
  <2>2. Head(toSend).of \in 0..4
    BY <1>2 DEF Lines
  <2>3. Line("OK", Head(toSend).of) \in Lines /\ Line("ERROR", Head(toSend).of) \in Lines
    BY <2>2, LineType
  <2>4. wire' \in Seq(Lines)
    <3>1. \A line \in Lines : Append(wire, line) \in Seq(Lines)
      BY <1>2, AppendProperties
    <3> QED
      BY <1>2, <1>3, <2>3, <3>1
  <2>5. Tail(toSend) \o <<Blank, Location>> \in Seq(Lines)
    BY <1>2, <2>1, ConcatProperties
  <2>6. toSend' \in Seq(Lines)
    BY <1>2, <1>3, <2>5
  <2> QED
    BY <1>1, <2>4, <2>6 DEF TypeOK
<1>5. ASSUME NEW what \in {"echo", "blank", "location"}, NEW of, toSend # <<>>,
             Head(toSend) = Line(what, of)
      PROVE  wire' = Append(wire, Line(what, of)) /\ toSend' = Tail(toSend)
  BY <1>3, <1>5, LineIs
<1>6. ASSUME cmd \in 1..4, Head(toSend) = Line("result", cmd), Tail(toSend) = <<>>
      PROVE  \/ wire' = Append(wire, Line("ERROR", cmd)) /\ toSend' = <<>>
             \/ cmd < 4 /\ wire' = Append(wire, Line("OK", cmd)) /\ toSend' = <<>>
             \/ cmd = 4 /\ wire' = Append(wire, Ok) /\ toSend' = <<Blank, Location>>
  <2>1. Head(toSend).what = "result" /\ Head(toSend).of = cmd
    BY <1>6, LineIs
  <2>2. PICK verdict \in {"OK", "ERROR"} :
          /\ wire' = Append(wire, Line(verdict, cmd))
          /\ toSend' = IF verdict = "OK" /\ cmd = 4
                         THEN Tail(toSend) \o <<Blank, Location>> ELSE Tail(toSend)
    BY <1>3, <2>1
  <2>3. Tail(toSend) \o <<Blank, Location>> = <<Blank, Location>>
    BY <1>6, Appends
  <2>4. cmd = 4 \/ cmd < 4
    BY <1>6
  <2> QED
    BY <1>6, <2>2, <2>3, <2>4 DEF Ok
<1>7. cmd \in 1..4 /\ cmd' = cmd
  BY <1>1 DEF TypeOK
<1>8. ASSUME AtAnswer PROVE AtAnswer'
  <2>1. wire = <<>> /\ toSend = <<Location>>
    BY <1>1, <1>8 DEF AtAnswer
  <2>2. wire' = Append(<<>>, Location) /\ toSend' = <<>>
    BY <1>5, <2>1, Heads, Tails, Nonempty DEF Location
  <2> QED
    BY <2>2, Appends DEF AtAnswer
<1>9. ASSUME AtBlank PROVE AtBlank'
  <2>1. CASE wire = <<>> /\ toSend = <<Blank, Location>>
    <3>1. wire' = Append(<<>>, Blank) /\ toSend' = <<Location>>
      BY <1>5, <2>1, Heads, Tails, Nonempty DEF Blank
    <3> QED
      BY <3>1, Appends DEF AtBlank
  <2>2. CASE wire = <<Blank>> /\ toSend = <<Location>>
    <3>1. wire' = Append(<<Blank>>, Location) /\ toSend' = <<>>
      BY <1>5, <2>2, Heads, Tails, Nonempty DEF Location
    <3> QED
      BY <3>1, Appends DEF AtBlank
  <2> QED
    BY <1>1, <1>9, <2>1, <2>2 DEF AtBlank
<1>10. ASSUME AtResult PROVE AtResult'
  <2>1. CASE wire = <<>> /\ toSend = <<Line("result", cmd)>>
    <3>1. Head(toSend) = Line("result", cmd) /\ Tail(toSend) = <<>>
      BY <2>1, Heads, Tails
    <3>2. \/ wire' = <<Line("ERROR", cmd)>> /\ toSend' = <<>>
          \/ cmd < 4 /\ wire' = <<Line("OK", cmd)>> /\ toSend' = <<>>
          \/ cmd = 4 /\ wire' = <<Ok>> /\ toSend' = <<Blank, Location>>
      BY <1>6, <1>7, <2>1, <3>1, Appends
    <3> QED
      BY <1>7, <3>2 DEF AtResult
  <2>2. CASE cmd = 4 /\ wire = <<Ok>> /\ toSend = <<Blank, Location>>
    <3>1. wire' = Append(<<Ok>>, Blank) /\ toSend' = <<Location>>
      BY <1>5, <2>2, Heads, Tails, Nonempty DEF Blank
    <3> QED
      BY <1>7, <2>2, <3>1, Appends DEF AtResult
  <2>3. CASE cmd = 4 /\ wire = <<Ok, Blank>> /\ toSend = <<Location>>
    <3>1. wire' = Append(<<Ok, Blank>>, Location) /\ toSend' = <<>>
      BY <1>5, <2>3, Heads, Tails, Nonempty DEF Location
    <3>2. wire' = <<Ok, Blank, Location>>
      BY <3>1, Appends
    <3> QED
      BY <1>7, <2>3, <3>1, <3>2 DEF AtResult
  <2> QED
    BY <1>1, <1>10, <2>1, <2>2, <2>3 DEF AtResult
<1>11. ASSUME AtEcho PROVE AtEcho'
  <2>1. CASE wire = <<>> /\ toSend = <<Echo(cmd), Line("result", cmd)>>
    <3>1. wire' = Append(<<>>, Echo(cmd)) /\ toSend' = <<Line("result", cmd)>>
      BY <1>5, <2>1, Heads, Tails, Nonempty DEF Echo
    <3> QED
      BY <1>7, <3>1, Appends DEF AtEcho
  <2>2. CASE wire = <<Echo(cmd)>> /\ toSend = <<Line("result", cmd)>>
    <3>1. Head(toSend) = Line("result", cmd) /\ Tail(toSend) = <<>>
      BY <2>2, Heads, Tails
    <3>2. \/ wire' = <<Echo(cmd), Line("ERROR", cmd)>> /\ toSend' = <<>>
          \/ cmd < 4 /\ wire' = <<Echo(cmd), Line("OK", cmd)>> /\ toSend' = <<>>
          \/ cmd = 4 /\ wire' = <<Echo(cmd), Ok>> /\ toSend' = <<Blank, Location>>
      BY <1>6, <1>7, <2>2, <3>1, Appends
    <3> QED
      BY <1>7, <3>2 DEF AtEcho
  <2>3. CASE cmd = 4 /\ wire = <<Echo(cmd), Ok>> /\ toSend = <<Blank, Location>>
    <3>1. wire' = Append(<<Echo(cmd), Ok>>, Blank) /\ toSend' = <<Location>>
      BY <1>5, <2>3, Heads, Tails, Nonempty DEF Blank
    <3>2. wire' = <<Echo(cmd), Ok, Blank>>
      BY <3>1, Appends
    <3> QED
      BY <1>7, <2>3, <3>1, <3>2 DEF AtEcho
  <2>4. CASE cmd = 4 /\ wire = <<Echo(cmd), Ok, Blank>> /\ toSend = <<Location>>
    <3>1. wire' = Append(<<Echo(cmd), Ok, Blank>>, Location) /\ toSend' = <<>>
      BY <1>5, <2>4, Heads, Tails, Nonempty DEF Location
    <3>2. wire' = <<Echo(cmd), Ok, Blank, Location>>
      BY <3>1, AppendFourth
    <3> QED
      BY <1>7, <2>4, <3>1, <3>2 DEF AtEcho
  <2> QED
    BY <1>1, <1>11, <2>1, <2>2, <2>3, <2>4 DEF AtEcho
<1>12. WireInv'
  <2>1. unsolicited = 0 => at \notin {"open", "attach", "write"}
    BY <1>1 DEF WireInv
  <2> QED
    BY <1>1, <1>8, <1>9, <1>10, <1>11, <2>1 DEF WireInv, Dead
<1>13. BufferInv' /\ FieldInv' /\ CoordinatesInPlace'
  BY <1>1 DEF BufferInv, FieldInv, CoordinatesInPlace, AllGiven
<1> QED
  BY <1>4, <1>12, <1>13

LEMMA InterruptStep ==
  ASSUME ModemInv, ModemInterrupts
  PROVE  ModemInv'
<1> USE DEF ModemInv
<1>1. /\ unsolicited < MaxUnsolicited /\ unsolicited' = unsolicited + 1
      /\ wire' = wire \o <<Line("blank", 0), Line("unsolicited", 0)>>
      /\ UNCHANGED <<at, cmd, port, buffer, answer, context, field, got, stored, hungUp, toSend>>
  BY DEF ModemInterrupts, parseVars
<1>2. unsolicited \in 0..MaxUnsolicited /\ MaxUnsolicited \in Nat
  BY BoundAssumption DEF TypeOK
<1>3. wire' \in Seq(Lines)
  <2>1. <<Line("blank", 0), Line("unsolicited", 0)>> \in Seq(Lines)
    BY DEF Line, Lines
  <2>2. wire \in Seq(Lines)
    BY DEF TypeOK
  <2> QED
    BY <1>1, <2>1, <2>2, ConcatProperties
<1>4. TypeOK'
  BY <1>1, <1>2, <1>3 DEF TypeOK
<1>5. WireInv' /\ BufferInv'
  BY <1>1, <1>2 DEF WireInv, BufferInv
<1>6. FieldInv' /\ CoordinatesInPlace'
  BY <1>1 DEF FieldInv, CoordinatesInPlace, AllGiven
<1> QED
  BY <1>4, <1>5, <1>6

LEMMA HangUpStep ==
  ASSUME ModemInv, HangUp
  PROVE  ModemInv'
<1> USE DEF ModemInv
<1>1. /\ hungUp' = TRUE
      /\ UNCHANGED <<at, cmd, port, buffer, answer, context, field, got, stored>>
      /\ UNCHANGED <<toSend, wire, unsolicited>>
  BY DEF HangUp, parseVars
<1>2. TypeOK'
  BY <1>1 DEF TypeOK
<1>3. WireInv'
  BY <1>1 DEF WireInv, Dead, AtEcho, AtResult, AtBlank, AtAnswer
<1>4. BufferInv' /\ FieldInv' /\ CoordinatesInPlace'
  BY <1>1 DEF BufferInv, FieldInv, CoordinatesInPlace, AllGiven
<1> QED
  BY <1>2, <1>3, <1>4

-----------------------------------------------------------------------------
LEMMA StepModem ==
  ASSUME ModemInv, [Next]_vars
  PROVE  ModemInv'
<1>1. CASE OpenPort \/ AttachSegment
  BY <1>1, StartStep
<1>2. CASE WriteCommand
  BY <1>2, WriteStep
<1>3. CASE ReadEcho
  BY <1>3, EchoStep
<1>4. CASE ReadResult
  BY <1>4, ResultStep
<1>5. CASE ReadBlank
  BY <1>5, BlankStep
<1>6. CASE ReadAnswer
  BY <1>6, AnswerStep
<1>7. CASE ReadField
  BY <1>7, FieldStep
<1>8. CASE ReadAltitude
  BY <1>8, AltitudeStep
<1>9. CASE ModemSends
  BY <1>9, SendStep
<1>10. CASE ModemInterrupts
  BY <1>10, InterruptStep
<1>11. CASE HangUp
  BY <1>11, HangUpStep
<1>12. CASE UNCHANGED vars
  BY <1>12 DEF vars, parseVars, modemVars, ModemInv, TypeOK, WireInv, BufferInv, FieldInv,
     CoordinatesInPlace, AllGiven, Dead, AtEcho, AtResult, AtBlank, AtAnswer
<1> QED
  BY <1>1, <1>2, <1>3, <1>4, <1>5, <1>6, <1>7, <1>8, <1>9, <1>10, <1>11, <1>12 DEF Next, Process

\* The invariant says what is to be read next.
LEMMA ModemInStep == ASSUME ModemInv PROVE InStep
<1> SUFFICES ASSUME unsolicited = 0, wire # <<>>
             PROVE  /\ at = "echo" => Head(wire) = Line("echo", cmd)
                    /\ at = "result" => Head(wire) \in {Line("OK", cmd), Line("ERROR", cmd)}
                    /\ at = "blank" => Head(wire) = Line("blank", 4)
                    /\ at = "answer" => Head(wire) = Line("location", 4)
  BY DEF InStep
<1>1. WireInv
  BY DEF ModemInv
<1>2. at = "echo" => Head(wire) = Line("echo", cmd)
  BY <1>1, Heads DEF WireInv, AtEcho, Echo
<1>3. at = "result" => Head(wire) \in {Line("OK", cmd), Line("ERROR", cmd)}
  BY <1>1, Heads DEF WireInv, AtResult, Dead, Ok
<1>4. at = "blank" => Head(wire) = Line("blank", 4)
  BY <1>1, Heads DEF WireInv, AtBlank, Dead, Blank
<1>5. at = "answer" => Head(wire) = Line("location", 4)
  BY <1>1, Heads DEF WireInv, AtAnswer, Dead, Location
<1> QED
  BY <1>2, <1>3, <1>4, <1>5

-----------------------------------------------------------------------------
(* With unsolicited lines: how many are to come, whatever they are.        *)

\* How many lines are to come at each place beyond the two of every unsolicited result.
Due == IF at = "echo" THEN 2 ELSE IF at = "result" THEN 1 ELSE IF at = "answer" THEN -1 ELSE 0

\* For each command the process reads the two lines it is owed, so the two of an unsolicited
\* result are never used up before the last: there an OK of an earlier command may be
\* believed and two lines read that no OK to the last has promised, and those two remain.
CountInv ==
  ~hungUp /\ at \in Steps \ {"fields"} => Len(wire) + Len(toSend) >= 2 * unsolicited + Due

LEMMA Counts ==
  ASSUME ModemInv
  PROVE  Len(wire) \in Nat /\ Len(toSend) \in Nat /\ unsolicited \in Nat
<1>1. wire \in Seq(Lines) /\ toSend \in Seq(Lines) /\ unsolicited \in Nat
  BY BoundAssumption DEF ModemInv, TypeOK
<1> QED
  BY <1>1, LenProperties

\* The process takes one line at a time, and none where there is none.
LEMMA TakesOne ==
  ASSUME ModemInv, NEW kept, NEW next, NEW failed, ReadLine(kept, next, failed), ~hungUp
  PROVE  wire # <<>> /\ at' = next /\ buffer' = Head(wire) /\ Len(wire') = Len(wire) - 1
<1>1. wire \in Seq(Lines) /\ wire # <<>> /\ wire' = Tail(wire) /\ at' = next /\ buffer' = Head(wire)
  BY DEF ModemInv, TypeOK, ReadLine
<1> QED
  BY <1>1, HeadTailProperties

LEMMA CountProcess ==
  ASSUME ModemInv, CountInv, Process
  PROVE  CountInv'
<1> SUFFICES ASSUME ~hungUp', at' \in Steps \ {"fields"}
             PROVE  Len(wire') + Len(toSend') >= 2 * unsolicited' + Due'
  BY DEF CountInv
<1> USE Counts
<1>1. CASE OpenPort \/ AttachSegment
  BY <1>1 DEF OpenPort, AttachSegment, modemVars, CountInv, Due, Steps
<1>2. CASE WriteCommand
  <2>1. /\ at = "write" /\ ~hungUp /\ at' = "echo"
        /\ toSend' = toSend \o <<Line("echo", cmd), Line("result", cmd)>>
        /\ UNCHANGED <<wire, unsolicited>>
    BY <1>2 DEF WriteCommand, Steps
  <2>2. Len(toSend') = Len(toSend) + 2
    <3>1. toSend \in Seq(Lines) /\ cmd \in 0..4
      BY DEF ModemInv, TypeOK
    <3>2. <<Line("echo", cmd), Line("result", cmd)>> \in Seq(Lines)
      BY <3>1, LineType
    <3>3. Len(<<Line("echo", cmd), Line("result", cmd)>>) = 2
      OBVIOUS
    <3> QED
      BY <2>1, <3>1, <3>2, <3>3, ConcatProperties
  <2> QED
    BY <2>1, <2>2 DEF CountInv, Due, Steps
<1>3. CASE ReadEcho
  <2>1. at = "echo" /\ ~hungUp /\ UNCHANGED <<toSend, unsolicited>>
    BY <1>3 DEF ReadEcho
  <2>2. at' = "result" /\ Len(wire') = Len(wire) - 1
    BY <1>3, <2>1, TakesOne DEF ReadEcho
  <2> QED
    BY <2>1, <2>2 DEF CountInv, Due, Steps
<1>4. CASE ReadResult
  <2>1. at = "result" /\ ~hungUp /\ UNCHANGED <<toSend, unsolicited>>
    BY <1>4 DEF ReadResult
  <2>2. at' = AfterResult(buffer') /\ Len(wire') = Len(wire) - 1
    BY <1>4, <2>1, TakesOne DEF ReadResult
  <2>3. at' \in {"write", "blank"}
    BY <2>2 DEF AfterResult, Steps
  <2> QED
    BY <2>1, <2>2, <2>3 DEF CountInv, Due, Steps
<1>5. CASE ReadBlank
  <2>1. at = "blank" /\ ~hungUp /\ UNCHANGED <<toSend, unsolicited>>
    BY <1>5 DEF ReadBlank
  <2>2. at' = "answer" /\ Len(wire') = Len(wire) - 1
    BY <1>5, <2>1, TakesOne DEF ReadBlank
  <2> QED
    BY <2>1, <2>2 DEF CountInv, Due, Steps
<1>6. CASE ReadAnswer
  <2>1. at' \in {"zeroes", "fields", "crashed"}
    BY <1>6 DEF ReadAnswer, ReadLine
  <2> QED
    BY <2>1 DEF Steps
<1>7. CASE ReadField \/ ReadAltitude
  <2>1. at' \in {"fields", "crashed", "location"}
    BY <1>7 DEF ReadField, ReadAltitude
  <2> QED
    BY <2>1 DEF Steps
<1> QED
  BY <1>1, <1>2, <1>3, <1>4, <1>5, <1>6, <1>7 DEF Process

LEMMA CountModem ==
  ASSUME ModemInv, CountInv, ModemSends \/ ModemInterrupts
  PROVE  CountInv'
<1> USE Counts
<1>1. wire \in Seq(Lines) /\ toSend \in Seq(Lines)
  BY DEF ModemInv, TypeOK
<1>2. UNCHANGED <<at, hungUp>>
  BY DEF ModemSends, ModemInterrupts
<1>3. CASE ModemSends
  <2>1. toSend # <<>> /\ unsolicited' = unsolicited
    BY <1>3 DEF ModemSends
  <2>2. /\ Tail(toSend) \in Seq(Lines) /\ Len(Tail(toSend)) = Len(toSend) - 1
        /\ Head(toSend) \in Lines
    BY <1>1, <2>1, HeadTailProperties
  <2>3. Head(toSend).of \in 0..4
    BY <2>2 DEF Lines
  <2>4. \E line \in Lines : wire' = Append(wire, line)
    <3>1. \A verdict \in {"OK", "ERROR"} : Line(verdict, Head(toSend).of) \in Lines
      BY <2>3, LineType
    <3> QED
      BY <1>3, <2>2, <3>1 DEF ModemSends
  <2>5. Len(wire') = Len(wire) + 1
    BY <1>1, <2>4, AppendProperties
  <2>6. Len(toSend') >= Len(toSend) - 1
    <3>1. <<Blank, Location>> \in Seq(Lines) /\ Len(<<Blank, Location>>) = 2
      BY DEF Blank, Location, Line, Lines
    <3>2. Len(Tail(toSend) \o <<Blank, Location>>) = Len(toSend) + 1
      BY <2>2, <3>1, ConcatProperties
    <3>3. toSend' \in {Tail(toSend), Tail(toSend) \o <<Blank, Location>>}
      BY <1>3 DEF ModemSends, Blank, Location
    <3> QED
      BY <2>2, <3>2, <3>3
  <2>7. Len(toSend') \in Nat
    <3>1. toSend' \in {Tail(toSend), Tail(toSend) \o <<Blank, Location>>}
      BY <1>3 DEF ModemSends, Blank, Location
    <3>2. <<Blank, Location>> \in Seq(Lines)
      BY DEF Blank, Location, Line, Lines
    <3> QED
      BY <2>2, <3>1, <3>2, ConcatProperties, LenProperties
  <2> QED
    BY <1>2, <2>1, <2>5, <2>6, <2>7 DEF CountInv, Due
<1>4. CASE ModemInterrupts
  <2>1. /\ unsolicited' = unsolicited + 1 /\ toSend' = toSend
        /\ wire' = wire \o <<Line("blank", 0), Line("unsolicited", 0)>>
    BY <1>4 DEF ModemInterrupts
  <2>2. Len(wire') = Len(wire) + 2
    <3>1. /\ <<Line("blank", 0), Line("unsolicited", 0)>> \in Seq(Lines)
          /\ Len(<<Line("blank", 0), Line("unsolicited", 0)>>) = 2
      BY DEF Line, Lines
    <3> QED
      BY <1>1, <2>1, <3>1, ConcatProperties
  <2> QED
    BY <1>2, <2>1, <2>2 DEF CountInv, Due
<1> QED
  BY <1>3, <1>4

LEMMA CountStep ==
  ASSUME ModemInv, CountInv, [Next]_vars
  PROVE  CountInv'
<1>1. CASE HangUp
  BY <1>1 DEF HangUp, CountInv
<1>2. CASE UNCHANGED vars
  BY <1>2 DEF vars, modemVars, CountInv, Due
<1> QED
  BY <1>1, <1>2, CountProcess, CountModem DEF Next

\* In step the line owed is the one meant; out of step there are more than enough.
LEMMA SomeLineIsOwed == ASSUME ModemInv, CountInv PROVE LineIsOwed
<1> SUFFICES ASSUME at \in {"echo", "result", "blank", "answer"}, wire = <<>>, ~hungUp
             PROVE  toSend # <<>>
  BY DEF LineIsOwed
<1>1. CASE unsolicited = 0
  BY <1>1, Nonempty DEF ModemInv, WireInv, Dead, AtEcho, AtResult, AtBlank, AtAnswer
<1>2. CASE unsolicited > 0
  <2>1. Len(wire) = 0
    OBVIOUS
  <2>2. Len(toSend) > 0
    BY <1>2, <2>1, Counts DEF CountInv, Due, Steps
  <2> QED
    BY <2>2
<1> QED
  BY <1>1, <1>2, Counts

-----------------------------------------------------------------------------
(* The theorems.                                                           *)

\* The variables of the dialogue and of the parser keep their types.
THEOREM TypeCorrect == Spec => []TypeOK
<1>1. ModemInv => TypeOK
  BY DEF ModemInv
<1> QED
  BY <1>1, InitModem, StepModem, PTL DEF Spec

\* Without unsolicited results every line read is the one the code takes it for.
THEOREM InStepCorrect == Spec => []InStep
BY InitModem, StepModem, ModemInStep, PTL DEF Spec

\* The OK believed is the one to AT+ULOC.
THEOREM OkIsForLocateCorrect == Spec => []OkIsForLocate
<1>1. ModemInv => OkIsForLocate
  BY DEF ModemInv, BufferInv, OkIsForLocate, Ok
<1> QED
  BY <1>1, InitModem, StepModem, PTL DEF Spec

\* An answer with all its fields gives its latitude and its longitude.
THEOREM CoordinatesInPlaceCorrect == Spec => []CoordinatesInPlace
<1>1. ModemInv => CoordinatesInPlace
  BY DEF ModemInv
<1> QED
  BY <1>1, InitModem, StepModem, PTL DEF Spec

\* The process never waits for a line that nobody is going to send, with any number of
\* unsolicited results: the half of Ends that needs no fairness.
THEOREM LineIsOwedCorrect == Spec => []LineIsOwed
<1>1. Init => CountInv
  BY DEF Init, CountInv, Due
<1> QED
  BY <1>1, InitModem, StepModem, CountStep, SomeLineIsOwed, PTL DEF Spec
=============================================================================

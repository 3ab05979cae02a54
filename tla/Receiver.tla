------------------------------ MODULE Receiver ------------------------------
(***************************************************************************)
(* The serial line between gpslogger and the GPS receiver: the input that  *)
(* gathers while gpslogger starts, the aiding message and the two polls it *)
(* writes, and the main loop's search for the messages in what it reads    *)
(* (gpslogger/main.cpp:150-230, 336-354, gpslogger/ublox).                 *)
(*                                                                         *)
(* The receiver sends sentences of its own accord and one UBX answer for   *)
(* each poll.  A byte is told apart by its part in its message and by the  *)
(* number of that message; bytes of one part that are read in one go are   *)
(* one.  What is inside an answer may have any value, so out of its place  *)
(* it may pass for any other byte.                                         *)
(***************************************************************************)
EXTENDS Integers, Sequences

CONSTANTS
  QueueSize,      \* bytes the kernel keeps for a reader that does not come (4096)
  BufferSize,     \* sizeof(msgbuf) (128)
  TextLengths,    \* lengths of a sentence between the dollar and its end
  IniLength,      \* length of an AID-INI answer after its header (50)
  EphLengths,     \* the same of AID-EPH, without and with an ephemeris (10, 106)
  Instants,       \* what time() may return
  MaxMessages     \* bound: messages sent

ASSUME SizeAssumption ==
  /\ QueueSize \in Nat /\ BufferSize \in Nat /\ MaxMessages \in Nat
  /\ TextLengths \subseteq Nat /\ EphLengths \subseteq Nat /\ IniLength \in Nat
  /\ \A n \in TextLengths : n + 2 < BufferSize
  /\ \A n \in EphLengths \cup {IniLength} : n > 0 /\ n + 4 <= BufferSize
ASSUME InstantsAssumption == Instants \subseteq Nat

VARIABLES
  at,       \* where the main thread is
  aid,      \* the aiding message composed
  polls,    \* polls not answered yet
  queue,    \* bytes received and not read
  sending,  \* bytes of the present message still to be sent
  message,  \* its number
  msgbuf,   \* what was read of a message
  need,     \* bytes of it still to be read
  last,     \* number of the message the last byte read was of
  parsed,   \* messages that came out of the search whole
  lost,     \* messages that lost a byte
  answers,  \* messages that are answers
  astray    \* an answer lost a byte, or its first byte was read inside a sentence

lineVars  == <<queue, sending, message, answers>>
frameVars == <<msgbuf, need>>
startVars == <<aid, polls>>
vars == <<at, startVars, lineVars, frameVars, last, parsed, lost, astray>>

Ids == {"ini", "eph"}
Parts == {"$", "text", "CR", "LF", "B5", "62", "id", "length", "payload"}
Lengths == EphLengths \cup {IniLength}
Byte(part, k) == [is |-> part, of |-> k, id |-> "none", n |-> 0]
Bytes == [is : Parts, of : 1..MaxMessages, id : {"none"} \cup Ids, n : {0} \cup Lengths]

Flags == {"PositionValid", "TimeValid", "UseLLA", "AltitudeInvalid", "TimeInUTC"}
NoAid == [position |-> "none", dated |-> FALSE, week |-> 0, second |-> 0, flags |-> {}, now |-> 0]

Starting == {"flush", "modem", "aid", "send", "pollIni", "pollEph"}
Looking  == {"first", "nmea", "sync", "header", "payload"}

TypeOK ==
  /\ at \in Starting \cup Looking \cup {"sentence", "ubx", "crashed"}
  /\ aid.position \in {"none", "degrees"} /\ aid.dated \in BOOLEAN /\ aid.flags \subseteq Flags
  /\ aid.now \in Instants \cup {0} /\ aid.week \in Nat /\ aid.second \in Nat
  /\ polls \in Seq(Ids)
  /\ queue \in Seq(Bytes) /\ Len(queue) <= QueueSize
  /\ sending \in Seq(Bytes) /\ message \in 0..MaxMessages
  /\ msgbuf \in Seq(Bytes) /\ need \in 0..(BufferSize + 1) /\ last \in 0..MaxMessages
  /\ parsed \in SUBSET (1..MaxMessages) /\ lost \in SUBSET (1..MaxMessages)
  /\ answers \in SUBSET (1..MaxMessages) /\ astray \in BOOLEAN

Init ==
  /\ at = "flush" /\ aid = NoAid /\ polls = <<>>
  /\ queue = <<>> /\ sending = <<>> /\ message = 0 /\ answers = {}
  /\ msgbuf = <<>> /\ need = 0
  /\ last = 0 /\ parsed = {} /\ lost = {} /\ astray = FALSE

-----------------------------------------------------------------------------
(* The start.  Nothing is read until it is over.                           *)

FlushPort ==
  /\ at = "flush" /\ at' = "modem"
  /\ queue' = <<>>
  /\ lost' = lost \cup {queue[i].of : i \in 1..Len(queue)}
  /\ UNCHANGED <<startVars, sending, message, answers, frameVars, last, parsed, astray>>

\* Up to sixty seconds.
WaitForModem ==
  /\ at = "modem" /\ at' = "aid"
  /\ UNCHANGED <<startVars, lineVars, frameVars, last, parsed, lost, astray>>

Day  == 86400
Week == 7 * Day

\* Mutated: with the leap day of the first year.
NewYear80Later == 315532800 + 6 * Day
NewYear80 == 315532800

\* tm_wday and the time of day of gmtime; 1 January 1970 was a Thursday.
WeekTime(now) == ((now \div Day + 4) % 7) * Day + (now % Day)

\* The epoch of GPS is the first Sunday of 1980, five days after the one subtracted here;
\* the division makes up for them.
WeekNumber(now) == (now - NewYear80 - WeekTime(now)) \div Week

\* tm_year > 100: the clock has been set, and the arithmetic does not wrap.
Dated(now) == now >= 978307200

\* flags starts empty and is only and-ed.
LocationFlags(flags) == flags \cap ({"UseLLA"} \cap {"AltitudeInvalid"})
TimeFlags(flags) == flags \cap {"TimeValid"}

\* The coordinates are whole degrees, as float is converted to int32_t.
AidIni(now, located) ==
  [position |-> IF located THEN "degrees" ELSE "none",
   dated    |-> Dated(now),
   week     |-> IF Dated(now) THEN WeekNumber(now) ELSE 0,
   second   |-> IF Dated(now) THEN WeekTime(now) ELSE 0,
   flags    |-> LET flags == IF located THEN LocationFlags({}) ELSE {}
                IN IF Dated(now) THEN TimeFlags(flags) ELSE flags,
   now      |-> now]

ComposeAid ==
  /\ at = "aid" /\ at' = "send"
  /\ \E now \in Instants, located \in BOOLEAN : aid' = AidIni(now, located)
  /\ UNCHANGED <<polls, lineVars, frameVars, last, parsed, lost, astray>>

SendAidIni ==
  /\ at = "send" /\ at' = "pollIni"
  /\ aid' = NoAid
  /\ UNCHANGED <<polls, lineVars, frameVars, last, parsed, lost, astray>>

PollMessage ==
  /\ \/ at = "pollIni" /\ at' = "pollEph" /\ polls' = Append(polls, "ini")
     \/ at = "pollEph" /\ at' = "first" /\ polls' = Append(polls, "eph")
  /\ UNCHANGED <<aid, lineVars, frameVars, last, parsed, lost, astray>>

-----------------------------------------------------------------------------
(* The main loop, byte by byte.                                            *)

\* What a byte may be taken for.
Values(b) == IF b.is = "payload" THEN {"$", "B5", "62", "CR", "LF", "text"} ELSE {b.is}

Read(b) ==
  /\ queue # <<>> /\ b = Head(queue)
  /\ queue' = Tail(queue) /\ last' = b.of
  /\ astray' = (astray \/ (b.is = "B5" /\ at # "first"))
  /\ UNCHANGED <<startVars, sending, message, answers, parsed, lost>>

\* Anything but the start of a message is passed over.
ReadFirst ==
  /\ at = "first"
  /\ \E b \in {queue[i] : i \in 1..Len(queue)} : \E v \in Values(b) :
       /\ Read(b)
       /\ at' = CASE v = "$" -> "nmea" [] v = "B5" -> "sync" [] OTHER -> "first"
       /\ msgbuf' = IF at' = "first" THEN <<>> ELSE <<b>>
  /\ UNCHANGED need

\* A sentence ends at a carriage return, which is cut off and leaves the line feed to be
\* passed over, at a line feed, or one byte before the end of the buffer.
ReadSentence ==
  /\ at = "nmea"
  /\ \E b \in {queue[i] : i \in 1..Len(queue)} : \E v \in Values(b) :
       /\ Read(b)
       /\ msgbuf' = IF v = "CR" THEN msgbuf ELSE Append(msgbuf, b)
       /\ at' = IF v \in {"CR", "LF"} \/ Len(msgbuf') = BufferSize - 1 THEN "sentence" ELSE "nmea"
  /\ UNCHANGED need

\* Not a UBX message after all: the byte is gone, though it may be the start of a sentence.
ReadSync ==
  /\ at = "sync"
  /\ \E b \in {queue[i] : i \in 1..Len(queue)} : \E v \in Values(b) :
       /\ Read(b)
       /\ IF v = "62" THEN at' = "header" /\ msgbuf' = Append(msgbuf, b)
                      ELSE at' = "first" /\ msgbuf' = <<>>
  /\ UNCHANGED need

\* Mutated: the checksum is not counted; the header is counted again.
PayloadOnly(n) == n - 1
HeaderToo(n) == n + 1
ToRead(n) == n

\* Out of place the length may be anything; one more than the buffer stands for all that
\* do not fit.
ReadHeader ==
  /\ at = "header"
  /\ \E b \in {queue[i] : i \in 1..Len(queue)} :
       /\ Read(b)
       /\ msgbuf' = Append(msgbuf, b)
       /\ IF Len(msgbuf) < 3
            THEN UNCHANGED <<at, need>>
            ELSE /\ at' = "payload"
                 /\ need' \in IF b.is = "length" THEN {ToRead(b.n)} ELSE 1..(BufferSize + 1)

ReadPayload ==
  /\ at = "payload"
  /\ \E b \in {queue[i] : i \in 1..Len(queue)} : Read(b) /\ msgbuf' = Append(msgbuf, b)
  /\ need' = need - 1
  /\ at' = IF need' = 0 THEN "ubx" ELSE "payload"

\* All the bytes of one message, from its first.
Whole == msgbuf[1].is \in {"$", "B5"} /\ msgbuf[1].of \notin lost
         /\ \A i \in 1..Len(msgbuf) : msgbuf[i].of = msgbuf[1].of

Done ==
  /\ at' \in {"first", "crashed"}
  /\ msgbuf' = <<>> /\ need' = 0
  /\ parsed' = IF Whole THEN parsed \cup {msgbuf[1].of} ELSE parsed
  /\ UNCHANGED <<startVars, lineVars, last, lost, astray>>

ParseMessage == at = "sentence" /\ Done /\ at' = "first"

\* An AID-INI that is long enough goes to m_callbackAidIni, which the constructor leaves
\* as it finds it and nobody sets: null, or an address that is not a function's.
HasCallback == msgbuf[3].id = "ini" /\ msgbuf[4].n >= IniLength

ParseUbloxMessage == at = "ubx" /\ Done /\ (at' = "crashed" => HasCallback)

-----------------------------------------------------------------------------
(* The receiver, and the kernel's queue: a byte that finds it full is lost. *)

Sentence(k, n) ==
  <<Byte("$", k)>> \o [i \in 1..n |-> Byte("text", k)] \o <<Byte("CR", k), Byte("LF", k)>>
Answer(k, id, n) ==
  <<Byte("B5", k), Byte("62", k), [Byte("id", k) EXCEPT !.id = id],
    [Byte("length", k) EXCEPT !.n = n]>> \o [i \in 1..n |-> Byte("payload", k)]

BeginMessage ==
  /\ sending = <<>> /\ message < MaxMessages
  /\ message' = message + 1
  /\ \/ /\ \E n \in TextLengths : sending' = Sentence(message', n)
        /\ UNCHANGED <<polls, answers>>
     \/ /\ polls # <<>> /\ polls' = Tail(polls)
        /\ \E n \in IF Head(polls) = "ini" THEN {IniLength} ELSE EphLengths :
             sending' = Answer(message', Head(polls), n)
        /\ answers' = answers \cup {message'}
  /\ UNCHANGED <<at, aid, queue, frameVars, last, parsed, lost, astray>>

SendByte ==
  /\ sending # <<>> /\ sending' = Tail(sending)
  /\ IF Len(queue) < QueueSize
       THEN queue' = Append(queue, Head(sending)) /\ UNCHANGED <<lost, astray>>
       ELSE /\ lost' = lost \cup {Head(sending).of} /\ UNCHANGED queue
            /\ astray' = (astray \/ Head(sending).of \in answers)
  /\ UNCHANGED <<at, startVars, message, answers, frameVars, last, parsed>>

-----------------------------------------------------------------------------
MainStep ==
  \/ FlushPort \/ WaitForModem \/ ComposeAid \/ SendAidIni \/ PollMessage
  \/ ReadFirst \/ ReadSentence \/ ReadSync \/ ReadHeader \/ ReadPayload
  \/ ParseMessage \/ ParseUbloxMessage

Next == MainStep \/ BeginMessage \/ SendByte

Spec == Init /\ [][Next]_vars

-----------------------------------------------------------------------------
(* Properties.                                                             *)

\* The search gets into step and stays there (main.cpp:223-350).  Reading starts in the
\* middle of what a full queue left; still every answer that is whole is parsed, and every
\* sentence unless it or the message before it lost a byte: the damage takes no more than
\* one whole sentence with it.  No answer may have been cut or taken for part of a
\* sentence, or bytes from its inside may lead the search anywhere.
Recovers ==
  ~astray =>
    \A k \in 1..(last - 1) : k \notin lost /\ (k \in answers \/ k - 1 \notin lost) => k \in parsed

\* What is read fits msgbuf, for any message the receiver sends and any part of it left
\* (main.cpp:240-241, 343-345), again as long as the answers come through.
WithinBuffer == ~astray => Len(msgbuf) <= BufferSize

\* The time in the aiding message is the true one, in weeks and seconds since the epoch
\* of GPS (main.cpp:177-179, 191-197), and what the flags tell the receiver to rely on is
\* in the receiver's units: whole degrees are not, nor is UTC unless flagged
\* (ublox_structures.h:50-61, 92-98).  The code flags nothing.
GpsEpoch == 315964800
AidRight ==
  /\ aid.dated => aid.week * Week + aid.second = aid.now - GpsEpoch
  /\ "PositionValid" \in aid.flags => aid.position # "degrees"
  /\ "TimeValid" \in aid.flags => "TimeInUTC" \in aid.flags
=============================================================================

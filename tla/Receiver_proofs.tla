--------------------------- MODULE Receiver_proofs ---------------------------
(***************************************************************************)
(* Proofs about Receiver, for queues, buffers and messages of any length.  *)
(***************************************************************************)
EXTENDS Receiver, SequenceTheorems, TLAPS

-----------------------------------------------------------------------------
(* The bytes to come.                                                      *)

\* What the search will read of the messages sent, if no more is lost.
Ahead == queue \o sending

AnswerParts == {"B5", "62", "id", "length", "payload"}

\* What message k may be, one of the answers a or a sentence.
Messages(k, a) ==
  IF k \in a THEN {Answer(k, id, n) : id \in Ids, n \in Lengths}
             ELSE {Sentence(k, n) : n \in TextLengths}

\* Of message k, which is m, the bytes that come at all come in s, the first of them, read
\* or not, in the place after o; then come later messages only.
Laid(s, o, k, m) ==
  /\ \A j \in 1..Len(m) : o + j >= 1 => o + j <= Len(s) /\ s[o + j] = m[j]
  /\ \A i \in 1..Len(s) : i > o + Len(m) => s[i].of > k

\* Place i holds the first byte that is left of a message, the byte before s being of l.
Before(s, l, i) == IF i = 1 THEN l ELSE s[i - 1].of
Begins(s, l, i) == Before(s, l, i) < s[i].of

\* With t messages sent, a of them answers, and h of them damaged: they come in order, ...
Ordered(s, l, t) ==
  /\ l <= t
  /\ \A i \in 1..Len(s) : l <= s[i].of /\ s[i].of <= t
  /\ \A i, j \in 1..Len(s) : i <= j => s[i].of <= s[j].of
\* ... answers have their own kinds of bytes, ...
Sorted(s, a) ==
  \A i \in 1..Len(s) :
    /\ s[i].is \in AnswerParts <=> s[i].of \in a
    /\ s[i].is = "length" => s[i].n \in Lengths
\* ... what starts a message is its first byte, ...
Starts(s, l) == \A i \in 1..Len(s) : s[i].is \in {"$", "B5"} => Begins(s, l, i)
\* ... and one that is not damaged comes, from its first byte, ...
Framed(s, l, h, a) ==
  \A i \in 1..Len(s) : Begins(s, l, i) /\ s[i].of \notin h =>
    \E m \in Messages(s[i].of, a) : Laid(s, i - 1, s[i].of, m)
\* ... and does come.
Complete(s, l, t, h) ==
  \A k \in 1..t : k > l /\ k \notin h => \E i \in 1..Len(s) : s[i].of = k

StreamOK(s, l, t, h, a) ==
  Ordered(s, l, t) /\ Sorted(s, a) /\ Starts(s, l) /\ Framed(s, l, h, a) /\ Complete(s, l, t, h)

StreamInv == StreamOK(Ahead, last, message, lost, answers)

-----------------------------------------------------------------------------
(* The place of the search.                                                *)

\* What Recovers expects of message k.
Good(k) == k \notin lost /\ (k \in answers \/ k - 1 \notin lost)

\* No more comes of the message being read; all that was kept is of message k.
Passed == \A i \in 1..Len(Ahead) : Ahead[i].of > last
AllOf(k) == \A i \in 1..Len(msgbuf) : msgbuf[i].of = k

AtFirst ==
  /\ last \in answers => Passed
  /\ last > 0 /\ Good(last) => last \in parsed

\* r bytes of the sentence were read, its end was not.
AtNmea ==
  /\ last > 0 /\ last \notin answers /\ msgbuf[1].is = "$" /\ Len(msgbuf) < BufferSize - 1
  /\ last \notin lost =>
       \E n \in TextLengths : \E r \in 1..(n + 1) :
         /\ Laid(Ahead, -r, last, Sentence(last, n))
         /\ last - 1 \notin lost => r = Len(msgbuf) /\ AllOf(last)

AtSentence ==
  /\ last > 0 /\ last \notin answers /\ msgbuf[1].is = "$" /\ Len(msgbuf) < BufferSize
  /\ Good(last) => AllOf(last)

InAnswer ==
  /\ last \in answers /\ msgbuf[1].is = "B5" /\ AllOf(last)
  /\ \E id \in Ids, n \in Lengths :
       /\ Laid(Ahead, -Len(msgbuf), last, Answer(last, id, n))
       /\ at = "sync" => Len(msgbuf) = 1
       /\ at = "header" => Len(msgbuf) \in {2, 3}
       /\ at = "payload" => Len(msgbuf) >= 4 /\ Len(msgbuf) + need = n + 4

AtUbx ==
  /\ last \in answers /\ msgbuf[1].is = "B5" /\ AllOf(last)
  /\ Passed /\ Len(msgbuf) <= BufferSize

PlaceInv ==
  ~astray =>
    /\ answers \cap lost = {}
    /\ at = "first" => AtFirst
    /\ at = "nmea" => AtNmea
    /\ at = "sentence" => AtSentence
    /\ at \in {"sync", "header", "payload"} => InAnswer
    /\ at = "ubx" => AtUbx

\* What holds on any way of the search.
FrameInv ==
  /\ at \in Starting => last = 0
  /\ at \in Starting \cup {"first", "crashed"} => msgbuf = <<>>
  /\ at \in {"nmea", "sync", "header", "payload", "sentence", "ubx"} => msgbuf # <<>>
  /\ at = "payload" <=> need > 0
  /\ at \in Starting \ {"pollEph"} => polls = <<>> /\ answers = {}
  /\ lost \subseteq 1..message /\ answers \subseteq 1..message

LineInv == TypeOK /\ FrameInv /\ StreamInv /\ PlaceInv /\ Recovers

-----------------------------------------------------------------------------
(* What the receiver sends.                                                *)

LEMMA SentenceParts ==
  ASSUME NEW k \in 1..MaxMessages, NEW n \in Nat
  PROVE  /\ Sentence(k, n) \in Seq(Bytes) /\ Len(Sentence(k, n)) = n + 3
         /\ Sentence(k, n)[1] = Byte("$", k)
         /\ \A j \in 2..(n + 1) : Sentence(k, n)[j] = Byte("text", k)
         /\ Sentence(k, n)[n + 2] = Byte("CR", k) /\ Sentence(k, n)[n + 3] = Byte("LF", k)
<1> DEFINE d == <<Byte("$", k)>>
           x == [i \in 1..n |-> Byte("text", k)]
           e == <<Byte("CR", k), Byte("LF", k)>>
<1>1. ASSUME NEW p \in Parts PROVE Byte(p, k) \in Bytes
  BY <1>1 DEF Byte, Bytes
<1>2. Byte("$", k) \in Bytes /\ Byte("text", k) \in Bytes /\ Byte("CR", k) \in Bytes /\ Byte("LF", k) \in Bytes
  BY <1>1 DEF Parts
<1>3. d \in Seq(Bytes) /\ Len(d) = 1 /\ d[1] = Byte("$", k)
  BY <1>2
<1>4. x \in Seq(Bytes) /\ Len(x) = n /\ \A i \in 1..n : x[i] = Byte("text", k)
  BY <1>2
<1>5. e \in Seq(Bytes) /\ Len(e) = 2 /\ e[1] = Byte("CR", k) /\ e[2] = Byte("LF", k)
  BY <1>2
<1>6. Sentence(k, n) = (d \o x) \o e
  BY DEF Sentence
<1> HIDE DEF d, x, e
<1>7. /\ d \o x \in Seq(Bytes) /\ Len(d \o x) = n + 1 /\ (d \o x)[1] = Byte("$", k)
      /\ \A j \in 2..(n + 1) : (d \o x)[j] = Byte("text", k)
  BY <1>3, <1>4, ConcatProperties
<1> DEFINE y == d \o x
           z == y \o e
<1>8. y \in Seq(Bytes) /\ Len(y) = n + 1
  BY <1>7
<1> HIDE DEF y
<1>9. /\ z \in Seq(Bytes) /\ Len(z) = n + 3
      /\ \A i \in 1..(n + 3) : z[i] = IF i <= n + 1 THEN y[i] ELSE e[i - (n + 1)]
  <2>1. /\ z \in Seq(Bytes) /\ Len(z) = Len(y) + Len(e)
        /\ \A i \in 1..(Len(y) + Len(e)) : z[i] = IF i <= Len(y) THEN y[i] ELSE e[i - Len(y)]
    BY <1>5, <1>8, ConcatProperties, Zenon
  <2>2. Len(y) + Len(e) = n + 3
    BY <1>5, <1>8
  <2> QED
    BY <1>8, <2>1, <2>2, Zenon
<1>10. 1 \in 1..(n + 3) /\ n + 2 \in 1..(n + 3) /\ n + 3 \in 1..(n + 3) /\ 2..(n + 1) \subseteq 1..(n + 3)
  OBVIOUS
<1>11. z[1] = y[1] /\ (\A j \in 2..(n + 1) : z[j] = y[j]) /\ z[n + 2] = e[1] /\ z[n + 3] = e[2]
  BY <1>9, <1>10
<1>12. Sentence(k, n) = z
  BY <1>6 DEF y
<1>13. y[1] = Byte("$", k) /\ \A j \in 2..(n + 1) : y[j] = Byte("text", k)
  BY <1>7 DEF y
<1> HIDE DEF z
<1> QED
  BY <1>5, <1>9, <1>11, <1>12, <1>13

LEMMA AnswerMade ==
  ASSUME NEW k \in 1..MaxMessages, NEW id \in Ids, NEW n \in Lengths
  PROVE  /\ Answer(k, id, n) \in Seq(Bytes) /\ Len(Answer(k, id, n)) = n + 4
         /\ Answer(k, id, n)[1].is = "B5" /\ Answer(k, id, n)[2].is = "62"
         /\ Answer(k, id, n)[3].is = "id" /\ Answer(k, id, n)[4].is = "length"
         /\ Answer(k, id, n)[4].n = n
         /\ \A j \in 5..(n + 4) : Answer(k, id, n)[j].is = "payload"
         /\ \A j \in 1..(n + 4) : Answer(k, id, n)[j].of = k
<1> DEFINE i3 == [Byte("id", k) EXCEPT !.id = id]
           i4 == [Byte("length", k) EXCEPT !.n = n]
           h == <<Byte("B5", k), Byte("62", k), i3, i4>>
           x == [i \in 1..n |-> Byte("payload", k)]
<1>1. n \in Nat
  BY SizeAssumption DEF Lengths
<1>2. /\ Byte("B5", k) \in Bytes /\ Byte("B5", k).is = "B5" /\ Byte("B5", k).of = k
      /\ Byte("62", k) \in Bytes /\ Byte("62", k).is = "62" /\ Byte("62", k).of = k
      /\ Byte("payload", k) \in Bytes /\ Byte("payload", k).is = "payload" /\ Byte("payload", k).of = k
      /\ i3 \in Bytes /\ i3.is = "id" /\ i3.of = k
      /\ i4 \in Bytes /\ i4.is = "length" /\ i4.of = k /\ i4.n = n
  BY DEF Byte, Bytes, Parts, Ids
<1>3. h \in Seq(Bytes) /\ Len(h) = 4 /\ h[1] = Byte("B5", k) /\ h[2] = Byte("62", k) /\ h[3] = i3 /\ h[4] = i4
  <2> HIDE DEF i3, i4
  <2> QED
    BY <1>2
<1>4. x \in Seq(Bytes) /\ Len(x) = n /\ \A i \in 1..n : x[i] = Byte("payload", k)
  BY <1>1, <1>2
<1>5. Answer(k, id, n) = h \o x
  BY DEF Answer
<1> HIDE DEF i3, i4, h, x
<1> DEFINE z == h \o x
<1>6. /\ z \in Seq(Bytes) /\ Len(z) = n + 4
      /\ \A i \in 1..(n + 4) : z[i] = IF i <= 4 THEN h[i] ELSE x[i - 4]
  <2>1. /\ z \in Seq(Bytes) /\ Len(z) = Len(h) + Len(x)
        /\ \A i \in 1..(Len(h) + Len(x)) : z[i] = IF i <= Len(h) THEN h[i] ELSE x[i - Len(h)]
    BY <1>3, <1>4, ConcatProperties, Zenon
  <2>2. Len(h) + Len(x) = n + 4
    BY <1>1, <1>3, <1>4
  <2> QED
    BY <1>3, <2>1, <2>2, Zenon
<1> HIDE DEF z
<1>7. z[1] = h[1] /\ z[2] = h[2] /\ z[3] = h[3] /\ z[4] = h[4]
  BY <1>1, <1>6
<1>8. \A j \in 5..(n + 4) : z[j] = Byte("payload", k)
  BY <1>1, <1>4, <1>6
<1>9. \A j \in 1..(n + 4) : z[j].of = k
  BY <1>1, <1>2, <1>3, <1>7, <1>8
<1> QED
  BY <1>1, <1>2, <1>3, <1>5, <1>6, <1>7, <1>8, <1>9 DEF z
\* What is common to the two.
LEMMA MessageMade ==
  ASSUME NEW k \in 1..MaxMessages, NEW a, NEW m \in Messages(k, a)
  PROVE  /\ m \in Seq(Bytes) /\ Len(m) >= 1
         /\ \A j \in 1..Len(m) :
              /\ m[j].of = k
              /\ m[j].is \in {"$", "B5"} <=> j = 1
              /\ m[j].is \in AnswerParts <=> k \in a
              /\ m[j].is = "length" => m[j].n \in Lengths
<1>1. CASE k \in a
  <2>1. PICK id \in Ids, n \in Lengths : m = Answer(k, id, n)
    BY <1>1 DEF Messages
  <2>2. n \in Nat
    BY SizeAssumption DEF Lengths
  <2>3. \A j \in 1..(n + 4) : j = 1 \/ j = 2 \/ j = 3 \/ j = 4 \/ j \in 5..(n + 4)
    BY <2>2
  <2>4. m \in Seq(Bytes) /\ Len(m) = n + 4
    BY <2>1, AnswerMade
  <2>5. \A j \in 1..(n + 4) : m[j].of = k
    BY <2>1, AnswerMade
  <2>6. /\ m[1].is = "B5" /\ m[2].is = "62" /\ m[3].is = "id" /\ m[4].is = "length" /\ m[4].n = n
        /\ \A j \in 5..(n + 4) : m[j].is = "payload"
    BY <2>1, AnswerMade
  <2>7. \A j \in 1..(n + 4) : m[j].is \in AnswerParts
    BY <2>3, <2>6 DEF AnswerParts
  <2>8. \A j \in 1..(n + 4) : m[j].is \in {"$", "B5"} <=> j = 1
    BY <2>2, <2>3, <2>6
  <2>9. \A j \in 1..(n + 4) : m[j].is = "length" => m[j].n \in Lengths
    BY <2>3, <2>6
  <2> QED
    BY <1>1, <2>2, <2>4, <2>5, <2>7, <2>8, <2>9
<1>2. CASE k \notin a
  <2>1. PICK n \in TextLengths : m = Sentence(k, n)
    BY <1>2 DEF Messages
  <2>2. n \in Nat
    BY SizeAssumption
  <2>3. \A j \in 1..(n + 3) : j = 1 \/ j \in 2..(n + 1) \/ j = n + 2 \/ j = n + 3
    BY <2>2
  <2>4. m \in Seq(Bytes) /\ Len(m) = n + 3
    BY <2>1, <2>2, SentenceParts
  <2>5. /\ m[1] = Byte("$", k) /\ (\A j \in 2..(n + 1) : m[j] = Byte("text", k))
        /\ m[n + 2] = Byte("CR", k) /\ m[n + 3] = Byte("LF", k)
    BY <2>1, <2>2, SentenceParts
  <2>6. \A p : Byte(p, k).is = p /\ Byte(p, k).of = k
    BY DEF Byte
  <2>7. \A j \in 1..(n + 3) : m[j].of = k
    BY <2>3, <2>5, <2>6
  <2>8. m[1].is = "$" /\ \A j \in 1..(n + 3) : j # 1 => m[j].is \in {"text", "CR", "LF"}
    BY <2>3, <2>5, <2>6
  <2>9. \A j \in 1..(n + 3) :
          m[j].is \notin AnswerParts /\ m[j].is # "length" /\ (m[j].is \in {"$", "B5"} <=> j = 1)
    BY <2>8 DEF AnswerParts
  <2> QED
    BY <1>2, <2>2, <2>4, <2>7, <2>9
<1> QED
  BY <1>1, <1>2

-----------------------------------------------------------------------------
(* What becomes of the bytes to come.                                      *)

LEMMA ByteOf ==
  ASSUME NEW s \in Seq(Bytes), NEW i \in 1..Len(s)
  PROVE  s[i] \in Bytes /\ s[i].of \in 1..MaxMessages
<1>1. s[i] \in Bytes
  BY ElementOfSeq
<1> QED
  BY <1>1 DEF Bytes

\* A message stays as it is laid when the byte before its rest is read.
LEMMA LaidTail ==
  ASSUME NEW s \in Seq(Bytes), s # <<>>, NEW o \in Int, NEW k, NEW m \in Seq(Bytes), Laid(s, o, k, m)
  PROVE  Laid(Tail(s), o - 1, k, m)
<1>1. Len(s) \in Nat /\ Len(s) >= 1 /\ Len(m) \in Nat
  OBVIOUS
<1>2. Len(Tail(s)) = Len(s) - 1 /\ \A i \in 1..(Len(s) - 1) : Tail(s)[i] = s[i + 1]
  BY HeadTailProperties
<1>3. ASSUME NEW j \in 1..Len(m), (o - 1) + j >= 1
      PROVE  (o - 1) + j <= Len(Tail(s)) /\ Tail(s)[(o - 1) + j] = m[j]
  <2>1. o + j <= Len(s) /\ s[o + j] = m[j]
    BY <1>1, <1>3 DEF Laid
  <2>2. (o - 1) + j \in 1..(Len(s) - 1) /\ ((o - 1) + j) + 1 = o + j
    BY <1>1, <1>3, <2>1
  <2> QED
    BY <1>1, <1>2, <2>1, <2>2
<1>4. ASSUME NEW i \in 1..Len(Tail(s)), i > (o - 1) + Len(m) PROVE Tail(s)[i].of > k
  <2>1. i + 1 \in 1..Len(s) /\ i + 1 > o + Len(m)
    BY <1>1, <1>2, <1>4
  <2> QED
    BY <1>2, <1>4, <2>1 DEF Laid
<1> QED
  BY <1>3, <1>4 DEF Laid

\* One byte is read.
LEMMA ReadStream ==
  ASSUME NEW s \in Seq(Bytes), s # <<>>, NEW l \in Nat, NEW t \in Nat, NEW h, NEW a, t <= MaxMessages,
         StreamOK(s, l, t, h, a)
  PROVE  StreamOK(Tail(s), s[1].of, t, h, a)
<1> USE DEF StreamOK
<1> DEFINE u == Tail(s)
<1>1. Len(s) \in Nat /\ Len(s) >= 1
  OBVIOUS
<1>2. u \in Seq(Bytes) /\ Len(u) = Len(s) - 1 /\ \A i \in 1..Len(u) : i + 1 \in 1..Len(s) /\ u[i] = s[i + 1]
  BY <1>1, HeadTailProperties
<1>3. \A i \in 1..Len(s) : s[i].of \in Nat
  BY ByteOf
<1>4. \A i \in 1..Len(u) : Before(u, s[1].of, i) = Before(s, l, i + 1)
  <2> TAKE i \in 1..Len(u)
  <2>1. CASE i = 1
    BY <2>1 DEF Before
  <2>2. CASE i # 1
    <3>1. i - 1 \in 1..Len(u) /\ u[i - 1] = s[(i - 1) + 1] /\ (i - 1) + 1 = i /\ (i + 1) - 1 = i /\ i + 1 # 1
      BY <1>1, <1>2, <2>2
    <3> QED
      BY <2>2, <3>1 DEF Before
  <2> QED
    BY <2>1, <2>2
<1> HIDE DEF u
<1>5. \A i \in 1..Len(u) : Begins(u, s[1].of, i) <=> Begins(s, l, i + 1)
  BY <1>2, <1>4 DEF Begins
<1>6. Ordered(u, s[1].of, t)
  <2>1. 1 \in 1..Len(s) /\ \A i \in 1..Len(s) : s[1].of <= s[i].of /\ s[i].of <= t
    BY <1>1 DEF Ordered
  <2>2. \A i, j \in 1..Len(u) : i <= j => i + 1 <= j + 1
    BY <1>1, <1>2
  <2>3. \A i, j \in 1..Len(u) : i <= j => u[i].of <= u[j].of
    BY <1>2, <2>2 DEF Ordered
  <2> QED
    BY <1>2, <2>1, <2>3 DEF Ordered
<1>7. Sorted(u, a)
  BY <1>2 DEF Sorted
<1>8. Starts(u, s[1].of)
  BY <1>2, <1>5 DEF Starts
<1>9. Framed(u, s[1].of, h, a)
  <2> SUFFICES ASSUME NEW i \in 1..Len(u), Begins(u, s[1].of, i), u[i].of \notin h
               PROVE  \E m \in Messages(u[i].of, a) : Laid(u, i - 1, u[i].of, m)
    BY DEF Framed
  <2>1. i + 1 \in 1..Len(s) /\ u[i] = s[i + 1] /\ (i + 1) - 1 \in Int /\ ((i + 1) - 1) - 1 = i - 1
    BY <1>2
  <2>2. PICK m \in Messages(u[i].of, a) : Laid(s, (i + 1) - 1, u[i].of, m)
    BY <1>5, <2>1 DEF Framed
  <2>3. m \in Seq(Bytes)
    BY <1>2, ByteOf, MessageMade
  <2> QED
    BY <2>1, <2>2, <2>3, LaidTail DEF u
<1>10. Complete(u, s[1].of, t, h)
  <2> SUFFICES ASSUME NEW k \in 1..t, k > s[1].of, k \notin h PROVE \E i \in 1..Len(u) : u[i].of = k
    BY DEF Complete
  <2>1. k > l
    BY <1>1, <1>3 DEF Ordered
  <2>2. PICK i \in 1..Len(s) : s[i].of = k
    BY <2>1 DEF Complete
  <2>3. i # 1
    BY <1>3, <2>2
  <2>4. i - 1 \in 1..Len(u) /\ (i - 1) + 1 = i
    BY <1>1, <1>2, <2>3
  <2> QED
    BY <1>2, <2>2, <2>4
<1> QED
  BY <1>6, <1>7, <1>8, <1>9, <1>10 DEF u
\* One byte is lost, after the rest of a message ...
LEMMA LaidDropAfter ==
  ASSUME NEW s \in Seq(Bytes), NEW u \in Seq(Bytes), NEW p \in 1..Len(s), Len(u) = Len(s) - 1,
         \A i \in 1..Len(u) : u[i] = IF i < p THEN s[i] ELSE s[i + 1],
         NEW o \in Int, o + 1 < p, NEW k, s[p].of # k,
         NEW m \in Seq(Bytes), \A j \in 1..Len(m) : m[j].of = k,
         Laid(s, o, k, m)
  PROVE  Laid(u, o, k, m)
<1>1. Len(s) \in Nat /\ Len(s) >= 1 /\ Len(m) \in Nat /\ Len(u) \in Nat
  OBVIOUS
<1>2. \A j \in 1..Len(m) : o + j >= 1 => o + j <= Len(s) /\ s[o + j] = m[j]
  BY DEF Laid
<1>3. o + Len(m) < p
  <2>1. SUFFICES ASSUME o + Len(m) >= p PROVE FALSE
    BY <1>1
  <2>2. p - o \in 1..Len(m) /\ o + (p - o) = p /\ p >= 1
    BY <1>1, <2>1
  <2>3. s[p] = m[p - o]
    BY <1>2, <2>2
  <2> QED
    BY <2>2, <2>3
<1>4. ASSUME NEW j \in 1..Len(m), o + j >= 1 PROVE o + j <= Len(u) /\ u[o + j] = m[j]
  <2>1. o + j \in 1..Len(u) /\ o + j < p
    BY <1>1, <1>3, <1>4
  <2> QED
    BY <1>2, <1>4, <2>1
<1>5. ASSUME NEW q \in 1..Len(u), q > o + Len(m) PROVE u[q].of > k
  <2>1. /\ q \in 1..Len(s) /\ q + 1 \in 1..Len(s)
        /\ q + 1 > o + Len(m)
    BY <1>1, <1>5
  <2>2. s[q].of > k /\ s[q + 1].of > k
    BY <1>5, <2>1 DEF Laid
  <2> QED
    BY <2>2
<1> QED
  BY <1>4, <1>5 DEF Laid

\* ... or anywhere else.
LEMMA LaidDrop ==
  ASSUME NEW s \in Seq(Bytes), NEW u \in Seq(Bytes), NEW p \in 1..Len(s), Len(u) = Len(s) - 1,
         \A i \in 1..Len(u) : u[i] = IF i < p THEN s[i] ELSE s[i + 1],
         NEW i \in 1..Len(u), NEW k, s[p].of # k,
         NEW m \in Seq(Bytes), \A j \in 1..Len(m) : m[j].of = k,
         Laid(s, (IF i < p THEN i ELSE i + 1) - 1, k, m)
  PROVE  Laid(u, i - 1, k, m)
<1>1. Len(s) \in Nat /\ Len(s) >= 1 /\ Len(m) \in Nat /\ Len(u) \in Nat
  OBVIOUS
<1>2. CASE i < p
  <2>1. Laid(s, i - 1, k, m) /\ i - 1 \in Int /\ (i - 1) + 1 < p
    BY <1>2
  <2> QED
    BY <2>1, LaidDropAfter
<1>3. CASE i >= p
  <2>1. Laid(s, i, k, m)
    <3>1. ~(i < p) /\ (i + 1) - 1 = i
      BY <1>1, <1>3
    <3> QED
      BY <3>1
  <2>2. \A j \in 1..Len(m) : i + j <= Len(s) /\ s[i + j] = m[j]
    BY <1>1, <2>1 DEF Laid
  <2>3. ASSUME NEW j \in 1..Len(m) PROVE (i - 1) + j <= Len(u) /\ u[(i - 1) + j] = m[j]
    <3>1. i + j <= Len(s) /\ s[i + j] = m[j]
      BY <2>2
    <3>2. (i - 1) + j \in 1..Len(u) /\ (i - 1) + j >= p /\ ((i - 1) + j) + 1 = i + j
      BY <1>1, <1>3, <3>1
    <3>3. \A q \in 1..Len(u) : q >= p => q <= Len(u) /\ u[q] = s[q + 1]
      BY <1>1
    <3>4. (i - 1) + j <= Len(u) /\ u[(i - 1) + j] = s[((i - 1) + j) + 1]
      BY <3>2, <3>3, Zenon
    <3> QED
      BY <3>1, <3>2, <3>4
  <2>4. ASSUME NEW q \in 1..Len(u), q > (i - 1) + Len(m) PROVE u[q].of > k
    <3>1. q + 1 \in 1..Len(s) /\ q + 1 > i + Len(m) /\ ~(q < p)
      BY <1>1, <1>3, <2>4
    <3>2. s[q + 1].of > k
      BY <2>1, <3>1 DEF Laid
    <3> QED
      BY <3>1, <3>2
  <2> QED
    BY <2>3, <2>4 DEF Laid
<1> QED
  BY <1>1, <1>2, <1>3

LEMMA DropStream ==
  ASSUME NEW s \in Seq(Bytes), NEW u \in Seq(Bytes), NEW p \in 1..Len(s), Len(u) = Len(s) - 1,
         \A i \in 1..Len(u) : u[i] = IF i < p THEN s[i] ELSE s[i + 1],
         NEW l \in Nat, NEW t \in Nat, NEW h, NEW a, t <= MaxMessages, StreamOK(s, l, t, h, a)
  PROVE  StreamOK(u, l, t, h \cup {s[p].of}, a)
<1> USE DEF StreamOK
<1> DEFINE F(i) == IF i < p THEN i ELSE i + 1
           g == h \cup {s[p].of}
<1>1. Len(s) \in Nat /\ Len(s) >= 1 /\ Len(u) \in Nat
  OBVIOUS
<1>2. \A i \in 1..Len(u) : F(i) \in 1..Len(s) /\ u[i] = s[F(i)]
  BY <1>1
<1>3. /\ \A i \in 1..Len(s) : s[i].of \in Nat
      /\ \A i \in 1..Len(u) : u[i].of \in Nat
  <2>1. \A i \in 1..Len(s) : s[i].of \in Nat
    BY ByteOf
  <2>2. \A i \in 1..Len(u) : u[i].of \in Nat
    BY ByteOf
  <2> QED
    BY <2>1, <2>2
<1>4. \A i, j \in 1..Len(u) : i <= j => F(i) <= F(j)
  BY <1>1
<1>5. \A i \in 1..Len(u) : i # p => Before(u, l, i) = Before(s, l, F(i))
  <2> TAKE i \in 1..Len(u)
  <2> HAVE i # p
  <2>1. CASE i = 1
    BY <2>1 DEF Before
  <2>2. CASE i # 1
    <3>1. i - 1 \in 1..Len(u) /\ F(i) # 1 /\ F(i - 1) = F(i) - 1
      BY <1>1, <2>2
    <3>2. u[i - 1] = s[F(i) - 1]
      BY <1>2, <3>1
    <3> QED
      BY <2>2, <3>1, <3>2 DEF Before
  <2> QED
    BY <2>1, <2>2
<1>6. p \in 1..Len(u) => /\ Before(s, l, F(p)) = s[p].of /\ s[p].of <= u[p].of
                         /\ Before(u, l, p) <= s[p].of
  <2> HAVE p \in 1..Len(u)
  <2>1. F(p) = p + 1 /\ p + 1 \in 1..Len(s) /\ (p + 1) - 1 = p /\ p + 1 # 1
    BY <1>1
  <2>2. u[p] = s[p + 1] /\ s[p].of <= s[p + 1].of
    BY <1>1, <1>2, <2>1 DEF Ordered
  <2>3. CASE p = 1
    BY <1>1, <2>1, <2>2, <2>3 DEF Before, Ordered
  <2>4. CASE p # 1
    <3>1. p - 1 \in 1..Len(u) /\ u[p - 1] = s[p - 1] /\ p - 1 \in 1..Len(s)
      BY <1>1, <2>4
    <3>2. s[p - 1].of <= s[p].of
      BY <1>1, <3>1 DEF Ordered
    <3> QED
      BY <2>1, <2>2, <2>4, <3>1, <3>2 DEF Before
  <2> QED
    BY <2>3, <2>4
<1>7. \A i \in 1..Len(u) : Before(u, l, i) \in Nat
  <2> TAKE i \in 1..Len(u)
  <2>1. i # 1 => i - 1 \in 1..Len(u)
    BY <1>1
  <2> QED
    BY <1>3, <2>1 DEF Before
<1> HIDE DEF F
<1>8. \A i \in 1..Len(u) : Begins(s, l, F(i)) => Begins(u, l, i)
  <2> TAKE i \in 1..Len(u)
  <2>1. CASE i # p
    BY <1>2, <1>5, <2>1 DEF Begins
  <2>2. CASE i = p
    BY <1>2, <1>3, <1>6, <1>7, <2>2 DEF Begins
  <2> QED
    BY <2>1, <2>2
<1>9. \A i \in 1..Len(u) : Begins(u, l, i) /\ u[i].of # s[p].of => Begins(s, l, F(i))
  <2> TAKE i \in 1..Len(u)
  <2>1. CASE i # p
    BY <1>2, <1>5, <2>1 DEF Begins
  <2>2. CASE i = p
    BY <1>2, <1>3, <1>6, <2>2 DEF Begins
  <2> QED
    BY <2>1, <2>2
<1>10. Ordered(u, l, t)
  <2>1. \A i \in 1..Len(u) : l <= u[i].of /\ u[i].of <= t
    BY <1>2 DEF Ordered
  <2>2. \A i, j \in 1..Len(u) : i <= j => u[i].of <= u[j].of
    BY <1>2, <1>4 DEF Ordered
  <2> QED
    BY <2>1, <2>2 DEF Ordered
<1>11. Sorted(u, a)
  BY <1>2 DEF Sorted
<1>12. Starts(u, l)
  BY <1>2, <1>8 DEF Starts
<1>13. Framed(u, l, g, a)
  <2> SUFFICES ASSUME NEW i \in 1..Len(u), Begins(u, l, i), u[i].of \notin g
               PROVE  \E m \in Messages(u[i].of, a) : Laid(u, i - 1, u[i].of, m)
    BY DEF Framed
  <2>1. Begins(s, l, F(i)) /\ F(i) \in 1..Len(s) /\ s[F(i)] = u[i] /\ u[i].of \notin h /\ s[p].of # u[i].of
    BY <1>2, <1>9
  <2>2. PICK m \in Messages(u[i].of, a) : Laid(s, F(i) - 1, u[i].of, m)
    BY <2>1 DEF Framed
  <2>3. m \in Seq(Bytes) /\ \A j \in 1..Len(m) : m[j].of = u[i].of
    BY ByteOf, MessageMade
  <2>4. Laid(u, i - 1, u[i].of, m)
    BY <2>1, <2>2, <2>3, LaidDrop DEF F
  <2> QED
    BY <2>4
<1>14. Complete(u, l, t, g)
  <2> SUFFICES ASSUME NEW k \in 1..t, k > l, k \notin g PROVE \E i \in 1..Len(u) : u[i].of = k
    BY DEF Complete
  <2>1. PICK i \in 1..Len(s) : s[i].of = k
    BY DEF Complete
  <2>2. i # p
    BY <2>1
  <2>3. CASE i < p
    <3>1. i \in 1..Len(u) /\ u[i] = s[i]
      BY <1>1, <2>3
    <3> QED
      BY <2>1, <3>1
  <2>4. CASE i > p
    <3>1. i - 1 \in 1..Len(u) /\ ~(i - 1 < p) /\ (i - 1) + 1 = i
      BY <1>1, <2>4
    <3>2. u[i - 1] = s[i]
      BY <3>1
    <3> QED
      BY <2>1, <3>1, <3>2
  <2> QED
    BY <2>2, <2>3, <2>4
<1> QED
  BY <1>10, <1>11, <1>12, <1>13, <1>14
\* What is queued is lost.
LEMMA FlushStream ==
  ASSUME NEW s \in Seq(Bytes), NEW u \in Seq(Bytes), NEW p \in 0..Len(s), Len(u) = Len(s) - p,
         \A i \in 1..Len(u) : u[i] = s[i + p],
         NEW l \in Nat, NEW t \in Nat, NEW h, NEW a, t <= MaxMessages, StreamOK(s, l, t, h, a)
  PROVE  StreamOK(u, l, t, h \cup {s[i].of : i \in 1..p}, a)
<1> USE DEF StreamOK
<1> DEFINE g == h \cup {s[i].of : i \in 1..p}
<1>1. Len(s) \in Nat /\ Len(u) \in Nat
  OBVIOUS
<1>2. \A i \in 1..Len(u) : i + p \in 1..Len(s) /\ u[i] = s[i + p]
  BY <1>1
<1>3. \A i \in 1..Len(s) : s[i].of \in Nat
  BY ByteOf
<1>4. \A i \in 1..Len(u) : i # 1 => Before(u, l, i) = Before(s, l, i + p)
  <2> TAKE i \in 1..Len(u)
  <2> HAVE i # 1
  <2>1. i - 1 \in 1..Len(u) /\ i + p # 1 /\ (i - 1) + p = (i + p) - 1
    BY <1>1
  <2>2. u[i - 1] = s[(i + p) - 1]
    BY <1>2, <2>1
  <2> QED
    BY <2>1, <2>2 DEF Before
<1>5. 1 \in 1..Len(u) => Before(s, l, 1 + p) \in Nat /\ l <= Before(s, l, 1 + p)
                         /\ (u[1].of \notin g => Before(s, l, 1 + p) < u[1].of \/ Before(u, l, 1) = Before(s, l, 1 + p))
  <2> HAVE 1 \in 1..Len(u)
  <2>1. CASE p = 0
    BY <2>1 DEF Before
  <2>2. CASE p # 0
    <3>1. 1 + p # 1 /\ (1 + p) - 1 = p /\ p \in 1..Len(s) /\ 1 + p \in 1..Len(s) /\ u[1] = s[1 + p] /\ p \in 1..p
      BY <1>1, <1>2, <2>2
    <3>2. l <= s[p].of /\ s[p].of <= u[1].of /\ s[p].of \in g
      BY <3>1 DEF Ordered
    <3>3. Before(s, l, 1 + p) = s[p].of
      BY <3>1 DEF Before
    <3> QED
      BY <1>3, <3>1, <3>2, <3>3
  <2> QED
    BY <2>1, <2>2
<1>6. \A i \in 1..Len(u) : Begins(s, l, i + p) => Begins(u, l, i)
  <2> TAKE i \in 1..Len(u)
  <2>1. CASE i = 1
    <3>1. Before(u, l, 1) = l
      BY DEF Before
    <3>2. u[1] = s[1 + p] /\ u[1].of \in Nat
      BY <1>2, <1>3, <2>1
    <3> QED
      BY <1>5, <2>1, <3>1, <3>2 DEF Begins
  <2>2. CASE i # 1
    BY <1>2, <1>4, <2>2 DEF Begins
  <2> QED
    BY <2>1, <2>2
<1>7. \A i \in 1..Len(u) : Begins(u, l, i) /\ u[i].of \notin g => Begins(s, l, i + p)
  <2> TAKE i \in 1..Len(u)
  <2>1. CASE i = 1
    BY <1>2, <1>5, <2>1 DEF Begins
  <2>2. CASE i # 1
    BY <1>2, <1>4, <2>2 DEF Begins
  <2> QED
    BY <2>1, <2>2
<1>8. Ordered(u, l, t)
  <2>1. \A i, j \in 1..Len(u) : i <= j => i + p <= j + p
    BY <1>1
  <2>2. \A i, j \in 1..Len(u) : i <= j => u[i].of <= u[j].of
    BY <1>2, <2>1 DEF Ordered
  <2>3. \A i \in 1..Len(u) : l <= u[i].of /\ u[i].of <= t
    BY <1>2 DEF Ordered
  <2> QED
    BY <2>2, <2>3 DEF Ordered
<1>9. Sorted(u, a)
  BY <1>2 DEF Sorted
<1>10. Starts(u, l)
  BY <1>2, <1>6 DEF Starts
<1>11. Framed(u, l, g, a)
  <2> SUFFICES ASSUME NEW i \in 1..Len(u), Begins(u, l, i), u[i].of \notin g
               PROVE  \E m \in Messages(u[i].of, a) : Laid(u, i - 1, u[i].of, m)
    BY DEF Framed
  <2> DEFINE k == u[i].of
             o == (i + p) - 1
  <2>1. i + p \in 1..Len(s) /\ s[i + p] = u[i] /\ Begins(s, l, i + p) /\ k \notin h
    BY <1>2, <1>7
  <2>2. PICK m \in Messages(k, a) : Laid(s, o, k, m)
    BY <2>1 DEF Framed
  <2>3. m \in Seq(Bytes) /\ Len(m) \in Nat
    <3>1. k \in 1..MaxMessages
      BY <2>1, ByteOf
    <3>2. m \in Seq(Bytes)
      BY <3>1, MessageMade
    <3> QED
      BY <3>2
  <2> HIDE DEF k
  <2>4. ASSUME NEW j \in 1..Len(m) PROVE (i - 1) + j <= Len(u) /\ u[(i - 1) + j] = m[j]
    <3>1. o + j <= Len(s) /\ s[o + j] = m[j]
      BY <1>1, <2>2, <2>3 DEF Laid
    <3>2. (i - 1) + j \in 1..Len(u) /\ ((i - 1) + j) + p = o + j
      BY <1>1, <2>3, <3>1
    <3>3. u[(i - 1) + j] = s[o + j]
      BY <1>2, <3>2
    <3> QED
      BY <3>1, <3>2, <3>3
  <2>5. ASSUME NEW q \in 1..Len(u), q > (i - 1) + Len(m) PROVE u[q].of > k
    <3>1. q + p \in 1..Len(s) /\ q + p > o + Len(m)
      BY <1>1, <2>3, <2>5
    <3> QED
      BY <1>2, <2>2, <3>1 DEF Laid
  <2> QED
    BY <2>4, <2>5 DEF Laid, k
<1>12. Complete(u, l, t, g)
  <2> SUFFICES ASSUME NEW k \in 1..t, k > l, k \notin g PROVE \E i \in 1..Len(u) : u[i].of = k
    BY DEF Complete
  <2>1. PICK i \in 1..Len(s) : s[i].of = k
    BY DEF Complete
  <2>2. i \notin 1..p
    BY <2>1
  <2>3. i - p \in 1..Len(u) /\ (i - p) + p = i
    BY <1>1, <2>2
  <2> QED
    BY <1>2, <2>1, <2>3
<1> QED
  BY <1>8, <1>9, <1>10, <1>11, <1>12

\* Bytes of a later message are added.
LEMMA LaidMore ==
  ASSUME NEW s \in Seq(Bytes), NEW u \in Seq(Bytes), Len(s) <= Len(u), \A i \in 1..Len(s) : u[i] = s[i],
         NEW o \in Int, NEW k, \A i \in 1..Len(u) : i > Len(s) => u[i].of > k,
         NEW m \in Seq(Bytes), Laid(s, o, k, m)
  PROVE  Laid(u, o, k, m)
<1>1. Len(s) \in Nat /\ Len(m) \in Nat /\ Len(u) \in Nat
  OBVIOUS
<1>2. ASSUME NEW j \in 1..Len(m), o + j >= 1 PROVE o + j <= Len(u) /\ u[o + j] = m[j]
  <2>1. o + j <= Len(s) /\ s[o + j] = m[j]
    BY <1>2 DEF Laid
  <2>2. o + j \in 1..Len(s)
    BY <1>1, <1>2, <2>1
  <2> QED
    BY <1>1, <2>1, <2>2
<1>3. ASSUME NEW q \in 1..Len(u), q > o + Len(m) PROVE u[q].of > k
  <2>1. CASE q <= Len(s)
    <3>1. q \in 1..Len(s)
      BY <1>1, <2>1
    <3> QED
      BY <1>3, <3>1 DEF Laid
  <2>2. CASE q > Len(s)
    BY <2>2
  <2> QED
    BY <1>1, <2>1, <2>2
<1> QED
  BY <1>2, <1>3 DEF Laid

\* One more message is begun, an answer or not.
LEMMA BeginStream ==
  ASSUME NEW s \in Seq(Bytes), NEW l \in Nat, NEW t \in Nat, NEW h, NEW a \in SUBSET (1..t), t + 1 <= MaxMessages,
         NEW b, b = a \/ b = a \cup {t + 1}, NEW m \in Messages(t + 1, b), StreamOK(s, l, t, h, a)
  PROVE  StreamOK(s \o m, l, t + 1, h, b)
<1> USE DEF StreamOK
<1> DEFINE u == s \o m
           z == Len(s)
<1>1. /\ m \in Seq(Bytes) /\ Len(m) >= 1
      /\ \A j \in 1..Len(m) :
           /\ m[j].of = t + 1
           /\ m[j].is \in {"$", "B5"} <=> j = 1
           /\ m[j].is \in AnswerParts <=> t + 1 \in b
           /\ m[j].is = "length" => m[j].n \in Lengths
  <2>1. t + 1 \in 1..MaxMessages
    BY SizeAssumption
  <2> QED
    BY <2>1, MessageMade
<1>2. z \in Nat /\ Len(m) \in Nat
  BY <1>1
<1>3. /\ u \in Seq(Bytes) /\ Len(u) = z + Len(m)
      /\ \A i \in 1..(z + Len(m)) : u[i] = IF i <= z THEN s[i] ELSE m[i - z]
  <2>1. m \in Seq(Bytes)
    BY <1>1
  <2> QED
    BY <2>1, ConcatProperties, Zenon
<1> HIDE DEF u
<1>4. \A i \in 1..z : i \in 1..Len(u) /\ u[i] = s[i] /\ s[i].of \in Nat /\ s[i].of <= t
  <2> TAKE i \in 1..z
  <2>1. i \in 1..(z + Len(m)) /\ i <= z
    BY <1>2
  <2>2. s[i].of \in Nat
    BY ByteOf
  <2> QED
    BY <1>3, <2>1, <2>2 DEF Ordered
<1> HIDE DEF z
<1>5. \A j \in 1..Len(m) : z + j \in 1..Len(u) /\ u[z + j] = m[j]
  <2> TAKE j \in 1..Len(m)
  <2>1. z + j \in 1..(z + Len(m)) /\ ~(z + j <= z) /\ (z + j) - z = j
    BY <1>2
  <2> QED
    BY <1>3, <2>1
<1>6. \A i \in 1..Len(u) : i \in 1..z \/ (i - z \in 1..Len(m) /\ z + (i - z) = i)
  BY <1>2, <1>3
<1>7. \A i \in 1..Len(u) : i \notin 1..z => u[i].of = t + 1
  <2> TAKE i \in 1..Len(u)
  <2> HAVE i \notin 1..z
  <2>1. i - z \in 1..Len(m) /\ u[i] = m[i - z]
    BY <1>5, <1>6
  <2> QED
    BY <1>1, <2>1
<1>8. \A i \in 1..z : Before(u, l, i) = Before(s, l, i)
  <2> TAKE i \in 1..z
  <2>1. i # 1 => i - 1 \in 1..z
    BY <1>2
  <2> QED
    BY <1>4, <2>1 DEF Before
<1>9. \A i \in 1..z : Begins(u, l, i) <=> Begins(s, l, i)
  BY <1>4, <1>8 DEF Begins
<1>10. l <= t
  BY DEF Ordered
<1>11. Begins(u, l, z + 1)
  <2>1. u[z + 1].of = t + 1
    BY <1>1, <1>2, <1>5
  <2>2. CASE z = 0
    BY <1>10, <2>1, <2>2 DEF Begins, Before
  <2>3. CASE z # 0
    <3>1. z \in 1..z /\ z + 1 # 1 /\ (z + 1) - 1 = z
      BY <1>2, <2>3
    <3> QED
      BY <1>4, <2>1, <3>1 DEF Begins, Before
  <2> QED
    BY <2>2, <2>3
<1>12. \A i \in 1..Len(u) : i \notin 1..z /\ Begins(u, l, i) => i = z + 1
  <2> TAKE i \in 1..Len(u)
  <2> HAVE i \notin 1..z /\ Begins(u, l, i)
  <2>1. SUFFICES ASSUME i # z + 1 PROVE FALSE
    OBVIOUS
  <2>2. i # 1 /\ i - 1 \in 1..Len(u) /\ i - 1 \notin 1..z
    BY <1>2, <1>3, <2>1
  <2>3. u[i].of = t + 1 /\ u[i - 1].of = t + 1
    BY <1>7, <2>2
  <2> QED
    BY <2>2, <2>3 DEF Begins, Before
<1>13. Ordered(u, l, t + 1)
  <2>1. \A i \in 1..z : l <= u[i].of
    BY <1>4 DEF Ordered, z
  <2>2. \A i \in 1..Len(u) : l <= u[i].of /\ u[i].of <= t + 1
    BY <1>4, <1>7, <1>10, <2>1
  <2>3. ASSUME NEW i \in 1..Len(u), NEW j \in 1..Len(u), i <= j PROVE u[i].of <= u[j].of
    <3>1. CASE j \notin 1..z
      BY <1>7, <2>2, <3>1
    <3>2. CASE j \in 1..z
      <4>1. i \in 1..z
        BY <1>2, <2>3, <3>2
      <4> QED
        BY <1>4, <2>3, <3>2, <4>1 DEF Ordered, z
    <3> QED
      BY <3>1, <3>2
  <2> QED
    BY <1>10, <2>2, <2>3 DEF Ordered
<1>14. Sorted(u, b)
  <2> SUFFICES ASSUME NEW i \in 1..Len(u)
               PROVE  /\ u[i].is \in AnswerParts <=> u[i].of \in b
                      /\ u[i].is = "length" => u[i].n \in Lengths
    BY DEF Sorted
  <2>1. CASE i \in 1..z
    <3>1. u[i].of \in b <=> u[i].of \in a
      BY <1>4, <2>1
    <3> QED
      BY <1>4, <2>1, <3>1 DEF Sorted, z
  <2>2. CASE i \notin 1..z
    <3>1. i - z \in 1..Len(m) /\ u[i] = m[i - z]
      BY <1>5, <1>6, <2>2
    <3> QED
      BY <1>1, <3>1
  <2> QED
    BY <2>1, <2>2
<1>15. Starts(u, l)
  <2> SUFFICES ASSUME NEW i \in 1..Len(u), u[i].is \in {"$", "B5"} PROVE Begins(u, l, i)
    BY DEF Starts
  <2>1. CASE i \in 1..z
    BY <1>4, <1>9, <2>1 DEF Starts, z
  <2>2. CASE i \notin 1..z
    <3>1. i - z \in 1..Len(m) /\ u[i] = m[i - z] /\ z + (i - z) = i
      BY <1>5, <1>6, <2>2
    <3>2. i - z = 1
      BY <1>1, <3>1
    <3> QED
      BY <1>11, <3>1, <3>2
  <2> QED
    BY <2>1, <2>2
<1>16. Framed(u, l, h, b)
  <2> SUFFICES ASSUME NEW i \in 1..Len(u), Begins(u, l, i), u[i].of \notin h
               PROVE  \E x \in Messages(u[i].of, b) : Laid(u, i - 1, u[i].of, x)
    BY DEF Framed
  <2>1. CASE i \in 1..z
    <3> DEFINE k == u[i].of
    <3>1. u[i] = s[i] /\ Begins(s, l, i) /\ k \in 1..MaxMessages /\ k <= t
      BY <1>3, <1>4, <1>9, <2>1, ByteOf
    <3>2. PICK x \in Messages(k, a) : Laid(s, i - 1, k, x)
      BY <2>1, <3>1 DEF Framed, z
    <3>3. x \in Messages(k, b)
      BY <3>1, <3>2 DEF Messages
    <3>4. x \in Seq(Bytes)
      BY <3>1, MessageMade
    <3> HIDE DEF k
    <3>5. /\ Len(s) <= Len(u) /\ \A q \in 1..Len(s) : u[q] = s[q]
          /\ \A q \in 1..Len(u) : q > Len(s) => u[q].of > k
      <4>1. Len(s) <= Len(u) /\ \A q \in 1..Len(s) : u[q] = s[q]
        BY <1>2, <1>3, <1>4 DEF z
      <4>2. ASSUME NEW q \in 1..Len(u), q > Len(s) PROVE u[q].of > k
        <5>1. q \notin 1..z
          BY <4>2 DEF z
        <5>2. u[q].of = t + 1 /\ k \in Nat
          BY <1>7, <3>1, <5>1
        <5> QED
          BY <3>1, <5>2
      <4> QED
        BY <4>1, <4>2
    <3>6. i - 1 \in Int
      BY <1>2, <2>1
    <3>7. Laid(u, i - 1, k, x)
      BY <1>3, <3>2, <3>4, <3>5, <3>6, LaidMore
    <3> QED
      BY <3>3, <3>7 DEF k
  <2>2. CASE i \notin 1..z
    <3>1. i = z + 1 /\ i - 1 = z /\ u[i].of = t + 1
      BY <1>2, <1>7, <1>12, <2>2
    <3>2. \A j \in 1..Len(m) : z + j <= Len(u) /\ u[z + j] = m[j]
      BY <1>2, <1>3, <1>5
    <3>3. \A q \in 1..Len(u) : ~(q > z + Len(m))
      BY <1>2, <1>3
    <3>4. Laid(u, z, t + 1, m)
      BY <3>2, <3>3 DEF Laid
    <3> QED
      BY <3>1, <3>4
  <2> QED
    BY <2>1, <2>2
<1>17. Complete(u, l, t + 1, h)
  <2> SUFFICES ASSUME NEW k \in 1..(t + 1), k > l, k \notin h PROVE \E i \in 1..Len(u) : u[i].of = k
    BY DEF Complete
  <2>1. CASE k = t + 1
    <3>1. 1 \in 1..Len(m)
      BY <1>1, <1>2
    <3> QED
      BY <1>1, <1>5, <2>1, <3>1
  <2>2. CASE k # t + 1
    <3>1. k \in 1..t
      BY <2>2
    <3>2. PICK i \in 1..z : s[i].of = k
      BY <3>1 DEF Complete, z
    <3> QED
      BY <1>4, <3>2
  <2> QED
    BY <2>1, <2>2
<1> QED
  BY <1>13, <1>14, <1>15, <1>16, <1>17 DEF u
-----------------------------------------------------------------------------
(* The steps that change them.                                             *)

LEMMA AheadIs ==
  ASSUME TypeOK
  PROVE  /\ Ahead \in Seq(Bytes) /\ Len(Ahead) = Len(queue) + Len(sending)
         /\ \A i \in 1..(Len(queue) + Len(sending)) :
              Ahead[i] = IF i <= Len(queue) THEN queue[i] ELSE sending[i - Len(queue)]
<1>1. queue \in Seq(Bytes) /\ sending \in Seq(Bytes)
  BY DEF TypeOK
<1> QED
  BY <1>1, ConcatProperties, Zenon DEF Ahead

LEMMA AheadRead ==
  ASSUME TypeOK, queue # <<>>, queue' = Tail(queue), sending' = sending
  PROVE  Ahead # <<>> /\ Ahead[1] = Head(queue) /\ Ahead' = Tail(Ahead)
<1>1. queue \in Seq(Bytes) /\ sending \in Seq(Bytes)
  BY DEF TypeOK
<1>2. Len(queue) \in Nat /\ Len(queue) >= 1 /\ Len(sending) \in Nat /\ Head(queue) = queue[1]
  BY <1>1
<1>3. Ahead # <<>> /\ Len(Ahead) >= 1 /\ Ahead[1] = queue[1]
  BY <1>2, AheadIs
<1>4. /\ Tail(Ahead) \in Seq(Bytes) /\ Len(Tail(Ahead)) = (Len(queue) + Len(sending)) - 1
      /\ \A i \in 1..((Len(queue) + Len(sending)) - 1) : Tail(Ahead)[i] = Ahead[i + 1]
  BY <1>2, <1>3, AheadIs, HeadTailProperties
<1>5. /\ Tail(queue) \in Seq(Bytes) /\ Len(Tail(queue)) = Len(queue) - 1
      /\ \A i \in 1..(Len(queue) - 1) : Tail(queue)[i] = queue[i + 1]
  BY <1>1, <1>2, HeadTailProperties
<1> DEFINE u == Tail(queue) \o sending
<1>6. /\ u \in Seq(Bytes) /\ Len(u) = Len(Tail(queue)) + Len(sending)
      /\ \A i \in 1..(Len(Tail(queue)) + Len(sending)) :
           u[i] = IF i <= Len(Tail(queue)) THEN Tail(queue)[i] ELSE sending[i - Len(Tail(queue))]
  BY <1>1, <1>5, ConcatProperties, Zenon
<1> HIDE DEF u
<1>7. Len(u) = (Len(queue) + Len(sending)) - 1
  BY <1>2, <1>5, <1>6
<1>8. ASSUME NEW i \in 1..Len(u) PROVE u[i] = Tail(Ahead)[i]
  <2>1. i + 1 \in 1..(Len(queue) + Len(sending)) /\ i \in 1..((Len(queue) + Len(sending)) - 1)
    BY <1>2, <1>7
  <2>2. Tail(Ahead)[i] = IF i + 1 <= Len(queue) THEN queue[i + 1] ELSE sending[(i + 1) - Len(queue)]
    BY <1>4, <2>1, AheadIs
  <2>3. u[i] = IF i <= Len(queue) - 1 THEN Tail(queue)[i] ELSE sending[i - (Len(queue) - 1)]
    BY <1>2, <1>5, <1>6, <1>7
  <2>4. CASE i <= Len(queue) - 1
    <3>1. i \in 1..(Len(queue) - 1) /\ i + 1 <= Len(queue)
      BY <1>2, <2>4
    <3> QED
      BY <1>5, <2>2, <2>3, <2>4, <3>1
  <2>5. CASE ~(i <= Len(queue) - 1)
    <3>1. ~(i + 1 <= Len(queue)) /\ (i + 1) - Len(queue) = i - (Len(queue) - 1)
      BY <1>2, <2>5
    <3> QED
      BY <2>2, <2>3, <2>5, <3>1
  <2> QED
    BY <2>4, <2>5
<1>9. u = Tail(Ahead)
  BY <1>4, <1>6, <1>7, <1>8, SeqEqual
<1> QED
  BY <1>2, <1>3, <1>9 DEF Ahead, u

LEMMA AheadSend ==
  ASSUME TypeOK, sending # <<>>, queue' = Append(queue, Head(sending)), sending' = Tail(sending)
  PROVE  Ahead' = Ahead
<1>1. queue \in Seq(Bytes) /\ sending \in Seq(Bytes)
  BY DEF TypeOK
<1>2. Head(sending) \in Bytes /\ Tail(sending) \in Seq(Bytes) /\ <<Head(sending)>> \in Seq(Bytes)
  BY <1>1, HeadTailProperties
<1>3. sending = <<Head(sending)>> \o Tail(sending)
  BY <1>1, HeadTailProperties
<1>4. Append(queue, Head(sending)) = queue \o <<Head(sending)>>
  BY <1>1, <1>2, AppendIsConcat
<1>5. (queue \o <<Head(sending)>>) \o Tail(sending) = queue \o (<<Head(sending)>> \o Tail(sending))
  BY <1>1, <1>2, ConcatAssociative
<1> QED
  BY <1>3, <1>4, <1>5 DEF Ahead

LEMMA AheadDrop ==
  ASSUME TypeOK, sending # <<>>, queue' = queue, sending' = Tail(sending)
  PROVE  /\ Len(queue) + 1 \in 1..Len(Ahead) /\ Ahead[Len(queue) + 1] = Head(sending)
         /\ Ahead' \in Seq(Bytes) /\ Len(Ahead') = Len(Ahead) - 1
         /\ \A i \in 1..Len(Ahead') : Ahead'[i] = IF i < Len(queue) + 1 THEN Ahead[i] ELSE Ahead[i + 1]
<1>1. queue \in Seq(Bytes) /\ sending \in Seq(Bytes)
  BY DEF TypeOK
<1>2. Len(queue) \in Nat /\ Len(sending) \in Nat /\ Len(sending) >= 1 /\ Head(sending) = sending[1]
  BY <1>1
<1>3. /\ Tail(sending) \in Seq(Bytes) /\ Len(Tail(sending)) = Len(sending) - 1
      /\ \A i \in 1..(Len(sending) - 1) : Tail(sending)[i] = sending[i + 1]
  BY <1>1, <1>2, HeadTailProperties
<1> DEFINE u == queue \o Tail(sending)
<1>4. /\ u \in Seq(Bytes) /\ Len(u) = Len(queue) + Len(Tail(sending))
      /\ \A i \in 1..(Len(queue) + Len(Tail(sending))) :
           u[i] = IF i <= Len(queue) THEN queue[i] ELSE Tail(sending)[i - Len(queue)]
  BY <1>1, <1>3, ConcatProperties, Zenon
<1>5. Ahead' = u
  BY DEF Ahead
<1> HIDE DEF u
<1>6. /\ Len(Ahead) = Len(queue) + Len(sending) /\ Len(u) = Len(Ahead) - 1
      /\ Len(u) = (Len(queue) + Len(sending)) - 1
      /\ Len(queue) + 1 \in 1..Len(Ahead)
      /\ Ahead[Len(queue) + 1] = Head(sending)
  <2>1. Len(Ahead) = Len(queue) + Len(sending)
    BY AheadIs
  <2>2. Len(queue) + 1 \in 1..(Len(queue) + Len(sending)) /\ ~(Len(queue) + 1 <= Len(queue))
        /\ (Len(queue) + 1) - Len(queue) = 1
    BY <1>2
  <2>3. Ahead[Len(queue) + 1] = sending[1]
    BY <2>2, AheadIs
  <2> QED
    BY <1>2, <1>3, <1>4, <2>1, <2>2, <2>3
<1>7. ASSUME NEW i \in 1..Len(u) PROVE u[i] = IF i < Len(queue) + 1 THEN Ahead[i] ELSE Ahead[i + 1]
  <2>1. i \in 1..(Len(queue) + Len(sending)) /\ i + 1 \in 1..(Len(queue) + Len(sending))
    BY <1>2, <1>6
  <2>2. u[i] = IF i <= Len(queue) THEN queue[i] ELSE Tail(sending)[i - Len(queue)]
    BY <1>4
  <2>3. CASE i <= Len(queue)
    <3>1. i < Len(queue) + 1 /\ Ahead[i] = queue[i]
      BY <1>2, <2>1, <2>3, AheadIs
    <3> QED
      BY <2>2, <2>3, <3>1
  <2>4. CASE ~(i <= Len(queue))
    <3>1. ~(i < Len(queue) + 1) /\ ~(i + 1 <= Len(queue)) /\ i - Len(queue) \in 1..(Len(sending) - 1)
          /\ (i - Len(queue)) + 1 = (i + 1) - Len(queue)
      BY <1>2, <1>6, <2>4
    <3>2. Ahead[i + 1] = sending[(i + 1) - Len(queue)]
      BY <2>1, <3>1, AheadIs
    <3>3. Tail(sending)[i - Len(queue)] = sending[(i + 1) - Len(queue)]
      BY <1>3, <3>1
    <3> QED
      BY <2>2, <2>4, <3>1, <3>2, <3>3
  <2> QED
    BY <2>3, <2>4
<1> QED
  BY <1>4, <1>5, <1>6, <1>7
-----------------------------------------------------------------------------
(* The aiding message.                                                     *)

\* Weeks and seconds since the epoch of GPS make up the time since.
LEMMA WeeksAndSeconds ==
  ASSUME NEW now \in Nat, Dated(now)
  PROVE  /\ WeekNumber(now) \in Nat /\ WeekTime(now) \in Nat
         /\ WeekNumber(now) * Week + WeekTime(now) = now - GpsEpoch
<1> DEFINE d == now \div 86400
           r == now % 86400
           q == (d + 4) \div 7
           w == (d + 4) % 7
<1>1. now = 86400 * d + r /\ d \in Nat /\ r \in Nat /\ r < 86400
  <2>1. r = now - 86400 * d
    BY SMT
  <2>2. r >= 0 /\ r < 86400
    BY SMT
  <2>3. d \in Nat /\ r \in Int
    BY SMT
  <2> HIDE DEF d, r
  <2> QED
    BY <2>1, <2>2, <2>3, SMT
<1> HIDE DEF d, r
<1>2. d + 4 = 7 * q + w /\ q \in Nat /\ w \in Nat /\ w < 7
  <2>1. w = (d + 4) - 7 * q
    BY <1>1, SMT
  <2>2. w >= 0 /\ w < 7
    BY <1>1, SMT
  <2>3. q \in Nat /\ w \in Int
    BY <1>1, SMT
  <2> HIDE DEF q, w
  <2> QED
    BY <1>1, <2>1, <2>2, <2>3, SMT
<1>3. WeekTime(now) = w * 86400 + r
  BY SMT DEF WeekTime, Day, d, r
<1> HIDE DEF q, w
<1>4. now - 315532800 - WeekTime(now) = 604800 * (q - 523) + 432000
  BY <1>1, <1>2, <1>3, SMT
<1>5. WeekNumber(now) = (604800 * (q - 523) + 432000) \div 604800
  BY <1>4, SMT DEF WeekNumber, NewYear80, Week, Day
<1>6. WeekNumber(now) = q - 523
  BY <1>2, <1>5, SMT
<1>7. q - 523 >= 0
  BY <1>1, <1>2, SMT DEF Dated
<1>8. (q - 523) * 604800 + (w * 86400 + r) = now - 315964800
  BY <1>1, <1>2, SMT
<1>9. WeekTime(now) \in Nat
  BY <1>1, <1>2, <1>3, SMT
<1> QED
  BY <1>2, <1>3, <1>6, <1>7, <1>8, <1>9, SMT DEF GpsEpoch, Week, Day

AidTyped ==
  /\ aid.position \in {"none", "degrees"} /\ aid.dated \in BOOLEAN /\ aid.flags \subseteq Flags
  /\ aid.now \in Instants \cup {0} /\ aid.week \in Nat /\ aid.second \in Nat

LEMMA ComposedAid ==
  ASSUME NEW now \in Instants, NEW located \in BOOLEAN, aid' = AidIni(now, located)
  PROVE  AidTyped' /\ AidRight'
<1>1. now \in Nat
  BY InstantsAssumption
<1>2. /\ aid'.position \in {"none", "degrees"} /\ aid'.dated = Dated(now) /\ aid'.now = now
      /\ aid'.week = (IF Dated(now) THEN WeekNumber(now) ELSE 0)
      /\ aid'.second = (IF Dated(now) THEN WeekTime(now) ELSE 0)
      /\ aid'.flags = {}
  BY DEF AidIni, LocationFlags, TimeFlags
<1>3. Dated(now) \in BOOLEAN
  BY <1>1 DEF Dated
<1>4. aid'.week \in Nat /\ aid'.second \in Nat
  BY <1>1, <1>2, WeeksAndSeconds
<1>5. aid'.dated => aid'.week * Week + aid'.second = aid'.now - GpsEpoch
  BY <1>1, <1>2, WeeksAndSeconds
<1> QED
  BY <1>2, <1>3, <1>4, <1>5 DEF AidTyped, AidRight

LEMMA NoAidRight ==
  ASSUME aid' = NoAid PROVE AidTyped' /\ AidRight'
BY DEF NoAid, AidTyped, AidRight

-----------------------------------------------------------------------------
(* Types, and what holds wherever the search is.                           *)

LEMMA LengthsFit ==
  ASSUME NEW n \in Lengths PROVE n \in Nat /\ n > 0 /\ n + 4 <= BufferSize /\ BufferSize \in Nat
BY SizeAssumption DEF Lengths

LEMMA StartTypes ==
  ASSUME LineInv, FlushPort \/ WaitForModem \/ ComposeAid \/ SendAidIni \/ PollMessage
  PROVE  TypeOK' /\ FrameInv'
<1> USE DEF LineInv
<1>1. CASE FlushPort
  <2>1. /\ at' = "modem" /\ queue' = <<>> /\ lost' = lost \cup {queue[i].of : i \in 1..Len(queue)}
        /\ UNCHANGED <<aid, polls, sending, message, answers, msgbuf, need, last, parsed, astray>>
    BY <1>1 DEF FlushPort, startVars, frameVars
  <2>2. \A i \in 1..Len(queue) : queue[i].of \in 1..MaxMessages /\ queue[i].of <= message
    <3> TAKE i \in 1..Len(queue)
    <3>1. queue \in Seq(Bytes) /\ sending \in Seq(Bytes)
      BY DEF TypeOK
    <3>2. i \in 1..(Len(queue) + Len(sending)) /\ i <= Len(queue)
      BY <3>1
    <3>3. i \in 1..Len(Ahead) /\ Ahead[i] = queue[i]
      BY <3>2, AheadIs
    <3>4. Ahead[i].of <= message
      BY <3>3 DEF StreamInv, StreamOK, Ordered
    <3> QED
      BY <3>1, <3>3, <3>4, ByteOf
  <2>3. TypeOK'
    <3>1. queue' \in Seq(Bytes) /\ Len(queue') <= QueueSize
      BY <2>1, SizeAssumption
    <3>2. lost' \in SUBSET (1..MaxMessages)
      BY <2>1, <2>2 DEF TypeOK
    <3> QED
      BY <2>1, <3>1, <3>2 DEF TypeOK, Starting
  <2>4. FrameInv'
    <3>1. lost' \subseteq 1..message
      <4>1. message \in Nat /\ lost \subseteq 1..message
        BY DEF TypeOK, FrameInv
      <4>2. \A i \in 1..Len(queue) : queue[i].of \in 1..message
        BY <2>2, <4>1
      <4> QED
        BY <2>1, <4>1, <4>2
    <3> QED
      BY <1>1, <2>1, <3>1 DEF FrameInv, Starting, FlushPort
  <2> QED
    BY <2>3, <2>4
<1>2. CASE WaitForModem
  <2>1. TypeOK'
    BY <1>2 DEF WaitForModem, TypeOK, Starting, startVars, lineVars, frameVars
  <2>2. FrameInv'
    BY <1>2 DEF WaitForModem, FrameInv, Starting, startVars, lineVars, frameVars
  <2> QED
    BY <2>1, <2>2
<1>3. CASE ComposeAid \/ SendAidIni
  <2>1. AidTyped'
    BY <1>3, ComposedAid, NoAidRight DEF ComposeAid, SendAidIni
  <2>2. (at = "aid" /\ at' = "send") \/ (at = "send" /\ at' = "pollIni")
    BY <1>3, Zenon DEF ComposeAid, SendAidIni
  <2>3. UNCHANGED <<polls, lineVars, frameVars, last, parsed, lost, astray>>
    BY <1>3 DEF ComposeAid, SendAidIni
  <2>4. TypeOK'
    BY <2>1, <2>2, <2>3 DEF TypeOK, AidTyped, Starting, lineVars, frameVars
  <2>5. FrameInv'
    BY <2>2, <2>3 DEF FrameInv, Starting, lineVars, frameVars
  <2> QED
    BY <2>4, <2>5
<1>4. CASE PollMessage
  <2>1. polls' \in Seq(Ids)
    <3>1. polls \in Seq(Ids) /\ "ini" \in Ids /\ "eph" \in Ids
      BY DEF TypeOK, Ids
    <3>2. polls' = Append(polls, "ini") \/ polls' = Append(polls, "eph")
      BY <1>4, Zenon DEF PollMessage
    <3> QED
      BY <3>1, <3>2, AppendProperties
  <2>2. (at = "pollIni" /\ at' = "pollEph") \/ (at = "pollEph" /\ at' = "first")
    BY <1>4, Zenon DEF PollMessage
  <2>3. UNCHANGED <<aid, lineVars, frameVars, last, parsed, lost, astray>>
    BY <1>4 DEF PollMessage
  <2>4. TypeOK'
    BY <2>1, <2>2, <2>3 DEF TypeOK, Starting, Looking, lineVars, frameVars
  <2>5. FrameInv'
    BY <2>2, <2>3 DEF FrameInv, Starting, lineVars, frameVars
  <2> QED
    BY <2>4, <2>5
<1> QED
  BY <1>1, <1>2, <1>3, <1>4

\* The byte read is the first of those to come.
LEMMA ReadOne ==
  ASSUME LineInv, NEW b, Read(b)
  PROVE  /\ Ahead \in Seq(Bytes) /\ Ahead # <<>> /\ 1 \in 1..Len(Ahead) /\ Ahead[1] = b /\ Ahead' = Tail(Ahead)
         /\ b \in Bytes /\ b.of \in 1..MaxMessages /\ last' = b.of /\ last <= b.of /\ b.of <= message
         /\ queue' \in Seq(Bytes) /\ Len(queue') <= QueueSize
         /\ astray' = (astray \/ (b.is = "B5" /\ at # "first"))
         /\ UNCHANGED <<aid, polls, sending, message, answers, parsed, lost>>
         /\ StreamInv'
<1> USE DEF LineInv
<1>1. /\ queue # <<>> /\ b = Head(queue) /\ queue' = Tail(queue) /\ last' = b.of
      /\ astray' = (astray \/ (b.is = "B5" /\ at # "first"))
      /\ UNCHANGED <<aid, polls, sending, message, answers, parsed, lost>>
  BY DEF Read, startVars
<1>2. Ahead \in Seq(Bytes) /\ Ahead # <<>> /\ Ahead[1] = b /\ Ahead' = Tail(Ahead)
  BY <1>1, AheadIs, AheadRead
<1>3. 1 \in 1..Len(Ahead)
  BY <1>2
<1>4. b \in Bytes /\ b.of \in 1..MaxMessages
  BY <1>2, <1>3, ByteOf
<1>5. last <= b.of /\ b.of <= message
  BY <1>2, <1>3 DEF StreamInv, StreamOK, Ordered
<1>6. queue' \in Seq(Bytes) /\ Len(queue') <= QueueSize
  <2>1. queue \in Seq(Bytes) /\ Len(queue) <= QueueSize /\ Len(queue) \in Nat
    BY DEF TypeOK
  <2>2. queue' \in Seq(Bytes) /\ Len(queue') = Len(queue) - 1
    BY <1>1, <2>1, HeadTailProperties
  <2> QED
    BY <2>1, <2>2, SizeAssumption
<1>7. StreamInv'
  <2>1. last \in Nat /\ message \in Nat /\ message <= MaxMessages
    BY SizeAssumption DEF TypeOK
  <2>2. StreamOK(Tail(Ahead), Ahead[1].of, message, lost, answers)
    BY <1>2, <2>1, ReadStream DEF StreamInv
  <2>3. StreamOK(Ahead', last', message', lost', answers')
    BY <1>1, <1>2, <2>2
  <2> QED
    BY <2>3 DEF StreamInv
<1> QED
  BY <1>1, <1>2, <1>3, <1>4, <1>5, <1>6, <1>7
\* A length read is one that the receiver sends.
LEMMA LengthRead ==
  ASSUME LineInv, NEW b, Read(b), b.is = "length" PROVE b.n \in Lengths
<1>1. 1 \in 1..Len(Ahead) /\ Ahead[1] = b
  BY ReadOne
<1> QED
  BY <1>1 DEF LineInv, StreamInv, StreamOK, Sorted

\* One byte more in the buffer.
LEMMA AppendMore ==
  ASSUME NEW s \in Seq(Bytes), NEW b \in Bytes
  PROVE  /\ Append(s, b) \in Seq(Bytes) /\ Append(s, b) # <<>> /\ Len(Append(s, b)) = Len(s) + 1
         /\ \A i \in 1..(Len(s) + 1) : Append(s, b)[i] = IF i <= Len(s) THEN s[i] ELSE b
<1>1. /\ Append(s, b) \in Seq(Bytes) /\ Len(Append(s, b)) = Len(s) + 1 /\ Len(s) \in Nat
      /\ \A i \in 1..Len(s) : Append(s, b)[i] = s[i]
      /\ Append(s, b)[Len(s) + 1] = b
  BY AppendProperties
<1>2. \A i \in 1..(Len(s) + 1) : i <= Len(s) => i \in 1..Len(s)
  BY <1>1
<1>3. \A i \in 1..(Len(s) + 1) : ~(i <= Len(s)) => i = Len(s) + 1
  BY <1>1
<1>4. Append(s, b) # <<>>
  BY <1>1
<1> QED
  BY <1>1, <1>2, <1>3, <1>4

LEMMA ReadTypes ==
  ASSUME LineInv, ReadFirst \/ ReadSentence \/ ReadSync \/ ReadHeader \/ ReadPayload
  PROVE  TypeOK' /\ FrameInv'
<1> USE DEF LineInv
<1>1. PICK b : Read(b)
  BY DEF ReadFirst, ReadSentence, ReadSync, ReadHeader, ReadPayload
<1>2. msgbuf \in Seq(Bytes) /\ b \in Bytes
  BY <1>1, ReadOne DEF TypeOK
<1>3. astray' \in BOOLEAN
  <2>1. astray \in BOOLEAN /\ astray' = (astray \/ (b.is = "B5" /\ at # "first"))
    BY <1>1, ReadOne DEF TypeOK
  <2> QED
    BY <2>1, Zenon
<1>4. /\ at' \in Looking \cup {"sentence", "ubx"} /\ msgbuf' \in Seq(Bytes) /\ need' \in 0..(BufferSize + 1)
      /\ at' = "first" => msgbuf' = <<>>
      /\ at' # "first" => msgbuf' # <<>>
      /\ at' = "payload" <=> need' > 0
      /\ at \in Looking
  <2>1. CASE ReadFirst
    <3>1. PICK c : /\ Read(c) /\ at' \in {"nmea", "sync", "first"}
                   /\ msgbuf' = IF at' = "first" THEN <<>> ELSE <<c>>
      BY <2>1 DEF ReadFirst
    <3>2. c \in Bytes
      BY <3>1, ReadOne
    <3>3. at = "first" /\ need' = need
      BY <2>1 DEF ReadFirst
    <3> QED
      BY <3>1, <3>2, <3>3 DEF TypeOK, FrameInv, Looking
  <2>2. CASE ReadSentence
    <3>1. PICK c : /\ Read(c) /\ at' \in {"sentence", "nmea"}
                   /\ msgbuf' = msgbuf \/ msgbuf' = Append(msgbuf, c)
      BY <2>2 DEF ReadSentence
    <3>2. c \in Bytes
      BY <3>1, ReadOne
    <3>3. at = "nmea" /\ need' = need /\ msgbuf # <<>>
      BY <2>2 DEF ReadSentence, FrameInv
    <3>4. Append(msgbuf, c) \in Seq(Bytes) /\ Append(msgbuf, c) # <<>>
      BY <1>2, <3>2, AppendMore
    <3> QED
      BY <1>2, <3>1, <3>3, <3>4 DEF TypeOK, FrameInv, Looking
  <2>3. CASE ReadSync
    <3>1. PICK c : /\ Read(c)
                   /\ \/ (at' = "header" /\ msgbuf' = Append(msgbuf, c))
                      \/ (at' = "first" /\ msgbuf' = <<>>)
      BY <2>3 DEF ReadSync
    <3>2. c \in Bytes
      BY <3>1, ReadOne
    <3>3. at = "sync" /\ need' = need
      BY <2>3 DEF ReadSync
    <3>4. Append(msgbuf, c) \in Seq(Bytes) /\ Append(msgbuf, c) # <<>>
      BY <1>2, <3>2, AppendMore
    <3>5. need = 0 /\ need' \in 0..(BufferSize + 1)
      BY <3>3 DEF TypeOK, FrameInv
    <3>6. CASE at' = "header"
      BY <3>1, <3>3, <3>4, <3>5, <3>6 DEF Looking
    <3>7. CASE at' = "first"
      BY <3>1, <3>3, <3>5, <3>7 DEF Looking
    <3> QED
      BY <3>1, <3>6, <3>7
  <2>4. CASE ReadHeader
    <3>1. PICK c : /\ Read(c) /\ msgbuf' = Append(msgbuf, c)
                   /\ IF Len(msgbuf) < 3 THEN UNCHANGED <<at, need>>
                      ELSE /\ at' = "payload"
                           /\ need' \in IF c.is = "length" THEN {ToRead(c.n)} ELSE 1..(BufferSize + 1)
      BY <2>4 DEF ReadHeader
    <3>2. c \in Bytes
      BY <3>1, ReadOne
    <3>3. at = "header"
      BY <2>4 DEF ReadHeader
    <3>4. Append(msgbuf, c) \in Seq(Bytes) /\ Append(msgbuf, c) # <<>>
      BY <1>2, <3>2, AppendMore
    <3>5. CASE Len(msgbuf) < 3
      BY <3>1, <3>3, <3>4, <3>5 DEF TypeOK, FrameInv, Looking
    <3>6. CASE ~(Len(msgbuf) < 3)
      <4>1. need' \in 1..(BufferSize + 1)
        <5>1. CASE c.is = "length"
          BY <3>1, <3>6, <5>1, LengthRead, LengthsFit DEF ToRead
        <5>2. CASE c.is # "length"
          BY <3>1, <3>6, <5>2
        <5> QED
          BY <5>1, <5>2
      <4> QED
        BY <3>1, <3>3, <3>4, <3>6, <4>1, SizeAssumption DEF Looking
    <3> QED
      BY <3>5, <3>6
  <2>5. CASE ReadPayload
    <3>1. PICK c : Read(c) /\ msgbuf' = Append(msgbuf, c)
      BY <2>5 DEF ReadPayload
    <3>2. c \in Bytes
      BY <3>1, ReadOne
    <3>3. at = "payload" /\ need' = need - 1 /\ at' = IF need' = 0 THEN "ubx" ELSE "payload"
      BY <2>5 DEF ReadPayload
    <3>4. Append(msgbuf, c) \in Seq(Bytes) /\ Append(msgbuf, c) # <<>>
      BY <1>2, <3>2, AppendMore
    <3>5. need \in 0..(BufferSize + 1) /\ need > 0
      BY <3>3 DEF TypeOK, FrameInv
    <3> QED
      BY <3>1, <3>3, <3>4, <3>5, SizeAssumption DEF Looking
  <2> QED
    BY <2>1, <2>2, <2>3, <2>4, <2>5
<1>5. TypeOK'
  <2>1. /\ last' \in 0..MaxMessages /\ queue' \in Seq(Bytes) /\ Len(queue') <= QueueSize
        /\ UNCHANGED <<aid, polls, sending, message, answers, parsed, lost>>
    BY <1>1, ReadOne
  <2> QED
    BY <1>3, <1>4, <2>1 DEF TypeOK
<1>6. FrameInv'
  <2>1. UNCHANGED <<aid, polls, sending, message, answers, parsed, lost>>
    BY <1>1, ReadOne
  <2> QED
    BY <1>4, <2>1 DEF FrameInv, Looking, Starting
<1> QED
  BY <1>5, <1>6

LEMMA DoneTypes ==
  ASSUME LineInv, ParseMessage \/ ParseUbloxMessage
  PROVE  TypeOK' /\ FrameInv'
<1> USE DEF LineInv
<1>1. at \in {"sentence", "ubx"} /\ Done
  BY DEF ParseMessage, ParseUbloxMessage
<1>2. /\ at' \in {"first", "crashed"} /\ msgbuf' = <<>> /\ need' = 0
      /\ parsed' = IF Whole THEN parsed \cup {msgbuf[1].of} ELSE parsed
      /\ UNCHANGED <<aid, polls, queue, sending, message, answers, last, lost, astray>>
  BY <1>1 DEF Done, startVars, lineVars
<1>3. msgbuf[1].of \in 1..MaxMessages
  <2>1. msgbuf \in Seq(Bytes) /\ msgbuf # <<>>
    BY <1>1 DEF TypeOK, FrameInv
  <2>2. 1 \in 1..Len(msgbuf)
    BY <2>1
  <2> QED
    BY <2>1, <2>2, ByteOf
<1>4. parsed' \in SUBSET (1..MaxMessages)
  BY <1>2, <1>3 DEF TypeOK
<1>5. TypeOK'
  BY <1>2, <1>4, SizeAssumption DEF TypeOK, Looking
<1>6. FrameInv'
  BY <1>2 DEF FrameInv, Starting
<1> QED
  BY <1>5, <1>6

\* What BeginMessage sends.
LEMMA MessageBegun ==
  ASSUME LineInv, BeginMessage
  PROVE  /\ sending = <<>> /\ message' = message + 1 /\ message' \in 1..MaxMessages
         /\ answers' = answers \/ answers' = answers \cup {message'}
         /\ sending' \in Messages(message', answers') /\ sending' \in Seq(Bytes)
         /\ polls' \in Seq(Ids)
         /\ polls = <<>> => polls' = <<>> /\ answers' = answers
         /\ UNCHANGED <<at, aid, queue, msgbuf, need, last, parsed, lost, astray>>
<1> USE DEF LineInv
<1>1. /\ sending = <<>> /\ message < MaxMessages /\ message' = message + 1
      /\ UNCHANGED <<at, aid, queue, msgbuf, need, last, parsed, lost, astray>>
  BY DEF BeginMessage, frameVars
<1>2. message \in Nat /\ message' \in 1..MaxMessages /\ message' \notin answers /\ polls \in Seq(Ids)
  <2>1. message \in Nat /\ answers \subseteq 1..message /\ polls \in Seq(Ids)
    BY DEF TypeOK, FrameInv
  <2> QED
    BY <1>1, <2>1, SizeAssumption
<1>3. CASE (\E n \in TextLengths : sending' = Sentence(message', n)) /\ UNCHANGED <<polls, answers>>
  <2>1. sending' \in Messages(message', answers')
    BY <1>2, <1>3 DEF Messages
  <2> QED
    BY <1>1, <1>2, <1>3, <2>1, MessageMade
<1>4. CASE /\ polls # <<>> /\ polls' = Tail(polls)
           /\ \E n \in IF Head(polls) = "ini" THEN {IniLength} ELSE EphLengths :
                sending' = Answer(message', Head(polls), n)
           /\ answers' = answers \cup {message'}
  <2>1. Head(polls) \in Ids /\ polls' \in Seq(Ids)
    BY <1>2, <1>4, HeadTailProperties
  <2>2. PICK n \in Lengths : sending' = Answer(message', Head(polls), n)
    BY <1>4 DEF Lengths
  <2>3. sending' \in Messages(message', answers')
    BY <1>4, <2>1, <2>2 DEF Messages
  <2> QED
    BY <1>1, <1>2, <1>4, <2>1, <2>3, MessageMade
<1> QED
  BY <1>3, <1>4 DEF BeginMessage

LEMMA SenderTypes ==
  ASSUME LineInv, BeginMessage \/ SendByte
  PROVE  TypeOK' /\ FrameInv'
<1> USE DEF LineInv
<1>1. CASE BeginMessage
  <2>1. /\ sending = <<>> /\ message' = message + 1 /\ message' \in 1..MaxMessages
        /\ answers' = answers \/ answers' = answers \cup {message'}
        /\ sending' \in Seq(Bytes) /\ polls' \in Seq(Ids)
        /\ polls = <<>> => polls' = <<>> /\ answers' = answers
        /\ UNCHANGED <<at, aid, queue, msgbuf, need, last, parsed, lost, astray>>
    BY <1>1, MessageBegun
  <2>2. message \in Nat /\ lost \subseteq 1..message /\ answers \subseteq 1..message
    BY DEF TypeOK, FrameInv
  <2>3. /\ lost' \subseteq 1..message' /\ answers' \subseteq 1..message'
        /\ answers' \in SUBSET (1..MaxMessages)
    <3>1. message' \in 1..message' /\ \A x \in 1..message : x \in 1..message'
      BY <2>1, <2>2
    <3>2. \A x \in 1..message' : x \in 1..MaxMessages
      BY <2>1, SizeAssumption
    <3> QED
      BY <2>1, <2>2, <3>1, <3>2
  <2>4. TypeOK'
    BY <2>1, <2>3 DEF TypeOK
  <2>5. FrameInv'
    BY <2>1, <2>3 DEF FrameInv
  <2> QED
    BY <2>4, <2>5
<1>2. CASE SendByte
  <2>1. /\ sending # <<>> /\ sending' = Tail(sending)
        /\ UNCHANGED <<at, aid, polls, message, answers, msgbuf, need, last, parsed>>
    BY <1>2 DEF SendByte, startVars, frameVars
  <2>2. sending \in Seq(Bytes) /\ queue \in Seq(Bytes) /\ Head(sending) \in Bytes /\ sending' \in Seq(Bytes)
    BY <2>1, HeadTailProperties DEF TypeOK
  <2>3. CASE /\ Len(queue) < QueueSize /\ queue' = Append(queue, Head(sending)) /\ UNCHANGED <<lost, astray>>
    <3>1. queue' \in Seq(Bytes) /\ Len(queue') <= QueueSize
      BY <2>2, <2>3, SizeAssumption
    <3>2. TypeOK'
      BY <2>1, <2>2, <2>3, <3>1 DEF TypeOK
    <3>3. FrameInv'
      BY <2>1, <2>3 DEF FrameInv
    <3> QED
      BY <3>2, <3>3
  <2>4. CASE /\ lost' = lost \cup {Head(sending).of} /\ UNCHANGED queue
             /\ astray' = (astray \/ Head(sending).of \in answers)
    <3>1. Head(sending).of \in 1..message /\ Head(sending).of \in 1..MaxMessages
      <4>1. Len(queue) + 1 \in 1..Len(Ahead) /\ Ahead[Len(queue) + 1] = Head(sending)
        BY <2>1, <2>4, AheadDrop
      <4>2. Head(sending).of <= message
        BY <4>1 DEF StreamInv, StreamOK, Ordered
      <4>3. Head(sending).of \in 1..MaxMessages
        BY <2>2 DEF Bytes
      <4> QED
        BY <4>2, <4>3 DEF TypeOK
    <3>2. astray' \in BOOLEAN
      <4>1. astray \in BOOLEAN
        BY DEF TypeOK
      <4> QED
        BY <2>4, <4>1, Zenon
    <3>3. TypeOK'
      BY <2>1, <2>2, <2>4, <3>1, <3>2 DEF TypeOK
    <3>4. FrameInv'
      BY <2>1, <2>4, <3>1 DEF FrameInv
    <3> QED
      BY <3>3, <3>4
  <2> QED
    BY <1>2, <2>3, <2>4 DEF SendByte
<1> QED
  BY <1>1, <1>2
-----------------------------------------------------------------------------
(* The start, and how the search keeps in step.                            *)

\* Steps that touch neither the line nor the search.
LEMMA StartStep ==
  ASSUME LineInv, FlushPort \/ WaitForModem \/ ComposeAid \/ SendAidIni \/ PollMessage
  PROVE  LineInv'
<1> USE DEF LineInv
<1>1. /\ at \in Starting /\ at' \in Starting \cup {"first"}
      /\ UNCHANGED <<sending, message, answers, last, parsed, astray>>
  BY DEF FlushPort, WaitForModem, ComposeAid, SendAidIni, PollMessage, Starting, lineVars
<1>2. last = 0 /\ 0 \notin answers /\ last' = 0 /\ 0 \notin answers'
  BY <1>1 DEF FrameInv
<1>3. Recovers'
  BY <1>2 DEF Recovers
<1>4. PlaceInv'
  <2>1. ~astray => answers' \cap lost' = {}
    <3>1. CASE FlushPort
      BY <3>1 DEF FlushPort, FrameInv, Starting
    <3>2. CASE WaitForModem \/ ComposeAid \/ SendAidIni \/ PollMessage
      BY <3>2 DEF WaitForModem, ComposeAid, SendAidIni, PollMessage, lineVars, PlaceInv
    <3> QED
      BY <3>1, <3>2
  <2>2. AtFirst'
    BY <1>2 DEF AtFirst
  <2> QED
    BY <1>1, <2>1, <2>2 DEF PlaceInv, Starting
<1>5. StreamInv'
  <2>1. CASE FlushPort
    <3>1. queue' = <<>> /\ lost' = lost \cup {queue[i].of : i \in 1..Len(queue)}
      BY <2>1 DEF FlushPort
    <3>2. queue \in Seq(Bytes) /\ sending \in Seq(Bytes) /\ message \in Nat /\ message <= MaxMessages
      BY SizeAssumption DEF TypeOK
    <3>3. Ahead' = sending
      BY <1>1, <3>1, <3>2, ConcatEmptySeq DEF Ahead
    <3>4. /\ Len(queue) \in 0..Len(Ahead) /\ Len(sending) = Len(Ahead) - Len(queue)
          /\ \A i \in 1..Len(sending) : sending[i] = Ahead[i + Len(queue)]
      <4>1. Len(queue) \in Nat /\ Len(sending) \in Nat
        BY <3>2
      <4>2. ASSUME NEW i \in 1..Len(sending) PROVE sending[i] = Ahead[i + Len(queue)]
        <5>1. /\ i + Len(queue) \in 1..(Len(queue) + Len(sending)) /\ ~(i + Len(queue) <= Len(queue))
              /\ (i + Len(queue)) - Len(queue) = i
          BY <4>1
        <5> QED
          BY <5>1, AheadIs
      <4> QED
        BY <4>1, <4>2, AheadIs
    <3>5. {queue[i].of : i \in 1..Len(queue)} = {Ahead[i].of : i \in 1..Len(queue)}
      <4>1. ASSUME NEW i \in 1..Len(queue) PROVE Ahead[i] = queue[i]
        <5>1. i \in 1..(Len(queue) + Len(sending)) /\ i <= Len(queue)
          BY <3>2
        <5> QED
          BY <5>1, AheadIs
      <4> QED
        BY <4>1, Zenon
    <3>6. StreamOK(sending, last, message, lost \cup {Ahead[i].of : i \in 1..Len(queue)}, answers)
      <4>1. Ahead \in Seq(Bytes) /\ last \in Nat
        BY AheadIs DEF TypeOK
      <4> QED
        BY <3>2, <3>4, <4>1, FlushStream DEF StreamInv
    <3>7. StreamOK(Ahead', last', message', lost', answers')
      BY <1>1, <1>2, <3>1, <3>3, <3>5, <3>6
    <3> QED
      BY <3>7 DEF StreamInv
  <2>2. CASE WaitForModem \/ ComposeAid \/ SendAidIni \/ PollMessage
    <3>1. UNCHANGED <<queue, sending, last, message, lost, answers>>
      BY <2>2 DEF WaitForModem, ComposeAid, SendAidIni, PollMessage, lineVars
    <3>2. Ahead' = Ahead
      BY <3>1 DEF Ahead
    <3>3. StreamOK(Ahead', last', message', lost', answers')
      BY <3>1, <3>2 DEF StreamInv
    <3> QED
      BY <3>3 DEF StreamInv
  <2> QED
    BY <2>1, <2>2
<1> QED
  BY <1>3, <1>4, <1>5, StartTypes

\* What is laid out stays so as the search goes on.
LEMMA ReadLaid ==
  ASSUME LineInv, NEW b, Read(b), NEW o \in Int, NEW k, NEW m \in Seq(Bytes), Laid(Ahead, o, k, m)
  PROVE  Laid(Ahead', o - 1, k, m)
BY ReadOne, LaidTail

\* A byte of a later message that is whole is its first.
LEMMA NextBegins ==
  ASSUME LineInv, NEW b, Read(b), b.of > last, b.of \notin lost
  PROVE  \E m \in Messages(b.of, answers) :
           m \in Seq(Bytes) /\ Len(m) >= 1 /\ Laid(Ahead, 0, b.of, m) /\ m[1] = b /\ b.is \in {"$", "B5"}
<1>1. 1 \in 1..Len(Ahead) /\ Ahead[1] = b /\ b.of \in 1..MaxMessages
  BY ReadOne
<1>2. Begins(Ahead, last, 1)
  BY <1>1 DEF Begins, Before
<1>3. PICK m \in Messages(b.of, answers) : Laid(Ahead, 1 - 1, b.of, m)
  BY <1>1, <1>2 DEF LineInv, StreamInv, StreamOK, Framed
<1>4. m \in Seq(Bytes) /\ Len(m) >= 1 /\ 1 \in 1..Len(m) /\ m[1].is \in {"$", "B5"}
  <2>1. m \in Seq(Bytes) /\ Len(m) >= 1 /\ \A j \in 1..Len(m) : m[j].is \in {"$", "B5"} <=> j = 1
    BY <1>1, MessageMade
  <2>2. 1 \in 1..Len(m)
    BY <2>1
  <2> QED
    BY <2>1, <2>2
<1>5. Laid(Ahead, 0, b.of, m)
  BY <1>3
<1>6. Ahead[0 + 1] = m[1]
  BY <1>4, <1>5 DEF Laid
<1> QED
  BY <1>1, <1>4, <1>5, <1>6

LEMMA StartIsNew ==
  ASSUME LineInv, NEW b, Read(b), b.is \in {"$", "B5"} PROVE b.of > last
<1>1. 1 \in 1..Len(Ahead) /\ Ahead[1] = b /\ b.of \in 1..MaxMessages
  BY ReadOne
<1>2. last < b.of
  BY <1>1 DEF LineInv, StreamInv, StreamOK, Starts, Begins, Before
<1> QED
  BY <1>1, <1>2 DEF LineInv, TypeOK

\* Messages that are passed over were damaged.
LEMMA SkippedLost ==
  ASSUME LineInv, NEW b, Read(b), NEW k \in Nat, last < k, k < b.of PROVE k \in lost
<1>1. 1 \in 1..Len(Ahead) /\ Ahead[1] = b /\ b.of \in 1..MaxMessages /\ b.of <= message /\ Ahead \in Seq(Bytes)
  BY ReadOne
<1>2. SUFFICES ASSUME k \notin lost PROVE FALSE
  OBVIOUS
<1>3. k \in 1..message
  BY <1>1 DEF LineInv, TypeOK
<1>4. PICK i \in 1..Len(Ahead) : Ahead[i].of = k
  BY <1>2, <1>3 DEF LineInv, StreamInv, StreamOK, Complete
<1>5. 1 <= i
  BY <1>1
<1>6. b.of <= k
  BY <1>1, <1>4, <1>5 DEF LineInv, StreamInv, StreamOK, Ordered
<1> QED
  BY <1>1, <1>6

\* The message before has been parsed when a byte of the next is read.
LEMMA CaughtUp ==
  ASSUME LineInv, NEW b, Read(b), b.of > last /\ last > 0 /\ Good(last) => last \in parsed
  PROVE  Recovers'
<1>1. /\ last' = b.of /\ b.of \in 1..MaxMessages /\ last \in 0..MaxMessages
      /\ UNCHANGED <<answers, parsed, lost>> /\ (~astray' => ~astray)
  <2>1. astray \in BOOLEAN /\ astray' = (astray \/ (b.is = "B5" /\ at # "first"))
    BY ReadOne DEF LineInv, TypeOK
  <2>2. ~astray' => ~astray
    BY <2>1, Zenon
  <2> QED
    BY <2>2, ReadOne DEF LineInv, TypeOK
<1>2. SUFFICES ASSUME ~astray, NEW k \in 1..(b.of - 1), Good(k) PROVE k \in parsed
  BY <1>1 DEF Recovers, Good
<1>3. CASE k < last
  <2>1. k \in 1..(last - 1)
    BY <1>1, <1>3
  <2> QED
    BY <1>2, <2>1 DEF LineInv, Recovers, Good
<1>4. CASE k = last
  BY <1>1, <1>2, <1>4
<1>5. CASE last < k
  <2>1. k \in Nat /\ k < b.of
    BY <1>1
  <2>2. k \in lost
    BY <1>5, <2>1, SkippedLost
  <2> QED
    BY <1>2, <2>2 DEF Good
<1> QED
  BY <1>1, <1>3, <1>4, <1>5

\* Outside an answer a byte is what it seems.
LEMMA SentenceByte ==
  ASSUME LineInv, NEW b, Read(b), b.of \notin answers
  PROVE  b.is \in {"$", "text", "CR", "LF"} /\ Values(b) = {b.is}
<1>1. 1 \in 1..Len(Ahead) /\ Ahead[1] = b /\ b \in Bytes
  BY ReadOne
<1>2. b.is \notin AnswerParts
  BY <1>1 DEF LineInv, StreamInv, StreamOK, Sorted
<1>3. b.is \in Parts
  BY <1>1 DEF Bytes
<1> QED
  BY <1>2, <1>3 DEF AnswerParts, Parts, Values

\* An answer of which nothing was read yet begins.
LEMMA AnswerBegins ==
  ASSUME LineInv, NEW b, Read(b), b.of \in answers, b.of > last, b.of \notin lost
  PROVE  /\ b.is = "B5" /\ Values(b) = {"B5"}
         /\ \E id \in Ids, n \in Lengths : Laid(Ahead', -1, b.of, Answer(b.of, id, n))
<1>1. PICK m \in Messages(b.of, answers) :
        m \in Seq(Bytes) /\ Len(m) >= 1 /\ Laid(Ahead, 0, b.of, m) /\ m[1] = b
  BY NextBegins
<1>2. PICK id \in Ids, n \in Lengths : m = Answer(b.of, id, n)
  BY <1>1 DEF Messages
<1>3. b.of \in 1..MaxMessages
  BY ReadOne
<1>4. b.is = "B5"
  BY <1>1, <1>2, <1>3, AnswerMade
<1>5. Laid(Ahead', -1, b.of, m)
  <2>1. Laid(Ahead', 0 - 1, b.of, m)
    BY <1>1, ReadLaid
  <2>2. 0 - 1 = -1
    OBVIOUS
  <2> QED
    BY <2>1, <2>2
<1> QED
  BY <1>2, <1>4, <1>5 DEF Values

\* So does a sentence.
LEMMA SentenceBegins ==
  ASSUME LineInv, NEW b, Read(b), b.of \notin answers, b.of > last, b.of \notin lost
  PROVE  /\ b.is = "$"
         /\ \E n \in TextLengths : Laid(Ahead', -1, b.of, Sentence(b.of, n))
<1>1. PICK m \in Messages(b.of, answers) :
        m \in Seq(Bytes) /\ Len(m) >= 1 /\ Laid(Ahead, 0, b.of, m) /\ m[1] = b
  BY NextBegins
<1>2. PICK n \in TextLengths : m = Sentence(b.of, n)
  BY <1>1 DEF Messages
<1>3. b.of \in 1..MaxMessages /\ n \in Nat
  BY ReadOne, SizeAssumption
<1>4. b = Byte("$", b.of)
  <2>1. Sentence(b.of, n)[1] = Byte("$", b.of)
    BY <1>3, SentenceParts
  <2> QED
    BY <1>1, <1>2, <2>1
<1>5. b.is = "$"
  BY <1>4 DEF Byte
<1>6. Laid(Ahead', -1, b.of, m)
  <2>1. Laid(Ahead', 0 - 1, b.of, m)
    BY <1>1, ReadLaid
  <2>2. 0 - 1 = -1
    OBVIOUS
  <2> QED
    BY <2>1, <2>2
<1> QED
  BY <1>2, <1>5, <1>6
-----------------------------------------------------------------------------
(* The search reads on.                                                    *)

\* At the first byte.
LEMMA FirstStep ==
  ASSUME LineInv, ReadFirst
  PROVE  PlaceInv' /\ Recovers'
<1> USE DEF LineInv
<1>1. PICK b : /\ Read(b)
               /\ \E v \in Values(b) :
                    /\ at' = CASE v = "$" -> "nmea" [] v = "B5" -> "sync" [] OTHER -> "first"
                    /\ msgbuf' = IF at' = "first" THEN <<>> ELSE <<b>>
  BY DEF ReadFirst
<1>2. /\ at = "first" /\ last' = b.of /\ b.of \in 1..MaxMessages /\ last \in 0..MaxMessages /\ last <= b.of
      /\ 1 \in 1..Len(Ahead) /\ Ahead[1] = b /\ b \in Bytes
      /\ UNCHANGED <<answers, parsed, lost, message>>
  BY <1>1, ReadOne DEF ReadFirst, TypeOK
<1>3. ~astray' => ~astray
  <2>1. astray' = (astray \/ (b.is = "B5" /\ at # "first"))
    BY <1>1, ReadOne
  <2> QED
    BY <2>1, Zenon
<1>4. Recovers'
  <2>1. CASE astray
    BY <1>3, <2>1 DEF Recovers
  <2>2. CASE ~astray
    <3>1. last > 0 /\ Good(last) => last \in parsed
      BY <1>2, <2>2 DEF PlaceInv, AtFirst
    <3> QED
      BY <1>1, <3>1, CaughtUp
  <2> QED
    BY <2>1, <2>2
<1>5. PlaceInv'
  <2>1. SUFFICES ASSUME ~astray
                 PROVE  /\ answers' \cap lost' = {}
                        /\ at' = "first" => AtFirst'
                        /\ at' = "nmea" => AtNmea'
                        /\ at' \in {"first", "nmea", "sync"}
                        /\ at' = "sync" => InAnswer'
    BY <1>3 DEF PlaceInv
  <2>2. answers \cap lost = {} /\ AtFirst
    BY <1>2, <2>1 DEF PlaceInv
  <2>3. CASE b.of \in answers
    <3>1. b.of > last /\ b.of \notin lost
      BY <1>2, <2>2, <2>3 DEF AtFirst, Passed
    <3>2. PICK id \in Ids, n \in Lengths : Laid(Ahead', -1, b.of, Answer(b.of, id, n))
      BY <1>1, <2>3, <3>1, AnswerBegins
    <3>3. b.is = "B5" /\ Values(b) = {"B5"}
      BY <1>1, <2>3, <3>1, AnswerBegins
    <3>4. at' = "sync" /\ msgbuf' = <<b>>
      BY <1>1, <3>3
    <3>5. Len(msgbuf') = 1 /\ msgbuf'[1] = b
      BY <3>4
    <3>6. Laid(Ahead', -Len(msgbuf'), last', Answer(last', id, n))
      BY <1>2, <3>2, <3>5
    <3>7. InAnswer'
      BY <1>2, <2>3, <3>3, <3>4, <3>5, <3>6 DEF InAnswer, AllOf
    <3> QED
      BY <1>2, <2>2, <3>4, <3>7
  <2>4. CASE b.of \notin answers
    <3>1. b.is \in {"$", "text", "CR", "LF"} /\ Values(b) = {b.is}
      BY <1>1, <2>4, SentenceByte
    <3>2. CASE b.is = "$"
      <4>1. at' = "nmea" /\ msgbuf' = <<b>>
        BY <1>1, <3>1, <3>2
      <4>2. Len(msgbuf') = 1 /\ msgbuf'[1] = b
        BY <4>1
      <4>3. b.of > last
        BY <1>1, <3>2, StartIsNew
      <4>4. 1 < BufferSize - 1
        BY SizeAssumption
      <4>5. b.of \notin lost => \E n \in TextLengths : \E r \in 1..(n + 1) :
              /\ Laid(Ahead', -r, last', Sentence(last', n))
              /\ last' - 1 \notin lost' => r = Len(msgbuf') /\ AllOf(last)'
        <5> HAVE b.of \notin lost
        <5>1. PICK n \in TextLengths : Laid(Ahead', -1, b.of, Sentence(b.of, n))
          BY <1>1, <2>4, <4>3, SentenceBegins
        <5>2. 1 \in 1..(n + 1)
          BY SizeAssumption
        <5>3. AllOf(last)'
          BY <1>2, <4>2 DEF AllOf
        <5> QED
          BY <1>2, <4>2, <5>1, <5>2, <5>3
      <4>6. AtNmea'
        BY <1>2, <2>4, <3>2, <4>2, <4>4, <4>5 DEF AtNmea, AllOf
      <4> QED
        BY <1>2, <2>2, <4>1, <4>6
    <3>3. CASE b.is # "$"
      <4>1. at' = "first"
        BY <1>1, <3>1, <3>3
      <4>2. last' > 0 /\ Good(last)' => last' \in parsed'
        <5>1. CASE b.of = last
          BY <1>2, <2>2, <5>1 DEF AtFirst, Good
        <5>2. CASE b.of # last
          <6>1. b.of > last
            BY <1>2, <5>2
          <6>2. b.of \in lost
            BY <1>1, <2>4, <3>3, <6>1, SentenceBegins
          <6> QED
            BY <1>2, <6>2 DEF Good
        <5> QED
          BY <5>1, <5>2
      <4>3. AtFirst'
        BY <1>2, <2>4, <4>2 DEF AtFirst
      <4> QED
        BY <1>2, <2>2, <4>1, <4>3
    <3> QED
      BY <3>2, <3>3
  <2> QED
    BY <2>3, <2>4
<1> QED
  BY <1>4, <1>5

\* Inside a sentence.
LEMMA SentenceStep ==
  ASSUME LineInv, ReadSentence
  PROVE  PlaceInv' /\ Recovers'
<1> USE DEF LineInv
<1>1. PICK b : /\ Read(b)
               /\ \E v \in Values(b) :
                    /\ msgbuf' = IF v = "CR" THEN msgbuf ELSE Append(msgbuf, b)
                    /\ at' = IF v \in {"CR", "LF"} \/ Len(msgbuf') = BufferSize - 1 THEN "sentence" ELSE "nmea"
  BY DEF ReadSentence
<1>2. /\ at = "nmea" /\ last' = b.of /\ b.of \in 1..MaxMessages /\ last \in 0..MaxMessages /\ last <= b.of
      /\ 1 \in 1..Len(Ahead) /\ Ahead[1] = b /\ b \in Bytes
      /\ UNCHANGED <<answers, parsed, lost, message>>
  BY <1>1, ReadOne DEF ReadSentence, TypeOK
<1>3. ~astray' => ~astray /\ b.is # "B5"
  <2>1. astray' = (astray \/ (b.is = "B5" /\ at # "first"))
    BY <1>1, ReadOne
  <2> QED
    BY <1>2, <2>1, Zenon
<1>4. SUFFICES ASSUME ~astray, b.is # "B5"
               PROVE  /\ answers' \cap lost' = {}
                      /\ at' = "nmea" => AtNmea'
                      /\ at' = "sentence" => AtSentence'
                      /\ at' \in {"nmea", "sentence"}
                      /\ Recovers'
  BY <1>3 DEF PlaceInv, Recovers
<1>5. answers \cap lost = {} /\ AtNmea
  BY <1>2, <1>4 DEF PlaceInv
<1>6. b.of \notin answers
  <2>1. SUFFICES ASSUME b.of \in answers PROVE FALSE
    OBVIOUS
  <2>2. b.of > last /\ b.of \notin lost
    BY <1>2, <1>5, <2>1 DEF AtNmea
  <2> QED
    BY <1>1, <1>4, <2>1, <2>2, AnswerBegins
<1>7. b.is \in {"$", "text", "CR", "LF"} /\ Values(b) = {b.is}
  BY <1>1, <1>6, SentenceByte
<1>8. /\ msgbuf' = IF b.is = "CR" THEN msgbuf ELSE Append(msgbuf, b)
      /\ at' = IF b.is \in {"CR", "LF"} \/ Len(msgbuf') = BufferSize - 1 THEN "sentence" ELSE "nmea"
  BY <1>1, <1>7
<1>9. /\ msgbuf \in Seq(Bytes) /\ Len(msgbuf) \in Nat /\ Len(msgbuf) >= 1 /\ Append(msgbuf, b)[1] = msgbuf[1]
      /\ Len(Append(msgbuf, b)) = Len(msgbuf) + 1
      /\ \A i \in 1..(Len(msgbuf) + 1) : Append(msgbuf, b)[i] = IF i <= Len(msgbuf) THEN msgbuf[i] ELSE b
  <2>1. msgbuf \in Seq(Bytes) /\ msgbuf # <<>>
    BY <1>2 DEF TypeOK, FrameInv
  <2>2. Len(msgbuf) \in Nat /\ Len(msgbuf) >= 1
    BY <2>1
  <2>3. 1 \in 1..(Len(msgbuf) + 1) /\ 1 <= Len(msgbuf)
    BY <2>2
  <2> QED
    BY <1>2, <2>1, <2>2, <2>3, AppendMore
<1>10. /\ msgbuf'[1].is = "$" /\ Len(msgbuf') < BufferSize
       /\ at' = "nmea" => Len(msgbuf') < BufferSize - 1
  <2>1. msgbuf[1].is = "$" /\ Len(msgbuf) < BufferSize - 1 /\ BufferSize \in Nat
    BY <1>5, SizeAssumption DEF AtNmea
  <2>2. CASE b.is = "CR"
    BY <1>8, <1>9, <2>1, <2>2
  <2>3. CASE b.is # "CR"
    <3>1. Len(msgbuf') = Len(msgbuf) + 1 /\ msgbuf'[1] = msgbuf[1]
      BY <1>8, <1>9, <2>3
    <3> QED
      BY <1>8, <1>9, <2>1, <3>1
  <2> QED
    BY <2>2, <2>3
<1>11. CASE last \notin lost
  <2>1. PICK n \in TextLengths : \E r \in 1..(n + 1) :
          /\ Laid(Ahead, -r, last, Sentence(last, n))
          /\ last - 1 \notin lost => r = Len(msgbuf) /\ AllOf(last)
    BY <1>5, <1>11 DEF AtNmea
  <2>2. PICK r \in 1..(n + 1) :
          /\ Laid(Ahead, -r, last, Sentence(last, n))
          /\ last - 1 \notin lost => r = Len(msgbuf) /\ AllOf(last)
    BY <2>1
  <2>3. n \in Nat /\ n + 2 < BufferSize /\ last \in 1..MaxMessages
    BY <1>2, <1>5, SizeAssumption DEF AtNmea
  <2>4. Sentence(last, n) \in Seq(Bytes) /\ Len(Sentence(last, n)) = n + 3
    BY <2>3, SentenceParts
  <2>5. r + 1 \in 1..Len(Sentence(last, n)) /\ -r + (r + 1) = 1 /\ -r \in Int /\ -r - 1 = -(r + 1)
    BY <2>3, <2>4
  <2>6. b = Sentence(last, n)[r + 1]
    BY <1>2, <2>2, <2>5 DEF Laid
  <2>7. Laid(Ahead', -(r + 1), last, Sentence(last, n))
    <3>1. Laid(Ahead', -r - 1, last, Sentence(last, n))
      BY <1>1, <2>2, <2>4, <2>5, ReadLaid
    <3> QED
      BY <2>5, <3>1
  <2>8. b.of = last /\ b.is = IF r <= n THEN "text" ELSE "CR"
    <3>1. CASE r <= n
      <4>1. r + 1 \in 2..(n + 1)
        BY <2>3, <3>1
      <4>2. b = Byte("text", last)
        BY <2>3, <2>6, <4>1, SentenceParts
      <4> QED
        BY <3>1, <4>2 DEF Byte
    <3>2. CASE ~(r <= n)
      <4>1. r + 1 = n + 2
        BY <2>3, <3>2
      <4>2. b = Byte("CR", last)
        BY <2>3, <2>6, <4>1, SentenceParts
      <4> QED
        BY <3>2, <4>2 DEF Byte
    <3> QED
      BY <3>1, <3>2
  <2>9. Recovers'
    BY <1>1, <2>3, <2>8, CaughtUp
  <2>10. CASE r <= n
    <3>1. /\ b.is = "text" /\ msgbuf' = Append(msgbuf, b) /\ Len(msgbuf') = Len(msgbuf) + 1
          /\ \A i \in 1..(Len(msgbuf) + 1) : msgbuf'[i] = IF i <= Len(msgbuf) THEN msgbuf[i] ELSE b
      BY <1>8, <1>9, <2>8, <2>10
    <3>2. last - 1 \notin lost => r + 1 = Len(msgbuf') /\ AllOf(last)'
      <4> HAVE last - 1 \notin lost
      <4>1. r = Len(msgbuf) /\ \A i \in 1..Len(msgbuf) : msgbuf[i].of = last
        BY <2>2 DEF AllOf
      <4>2. \A i \in 1..(Len(msgbuf) + 1) : i <= Len(msgbuf) => i \in 1..Len(msgbuf)
        BY <1>9
      <4>3. \A i \in 1..(Len(msgbuf) + 1) : msgbuf'[i].of = last
        BY <2>8, <3>1, <4>1, <4>2
      <4> QED
        BY <1>2, <2>8, <3>1, <4>1, <4>3 DEF AllOf
    <3>3. r + 1 \in 1..(n + 1)
      BY <2>3, <2>10
    <3>4. at' = "nmea" => AtNmea'
      BY <1>2, <1>5, <1>6, <1>10, <2>3, <2>7, <2>8, <3>2, <3>3 DEF AtNmea, AllOf
    <3>5. at' = "sentence" => last - 1 \in lost
      <4>1. SUFFICES ASSUME at' = "sentence", last - 1 \notin lost PROVE FALSE
        OBVIOUS
      <4>2. Len(msgbuf') = BufferSize - 1
        BY <1>8, <3>1, <4>1
      <4> QED
        BY <2>3, <3>2, <3>3, <4>1, <4>2, SizeAssumption
    <3>6. at' = "sentence" => AtSentence'
      BY <1>2, <1>6, <1>10, <2>8, <3>5 DEF AtSentence, Good
    <3> QED
      BY <1>2, <1>5, <1>8, <2>9, <3>4, <3>6
  <2>11. CASE ~(r <= n)
    <3>1. b.is = "CR" /\ msgbuf' = msgbuf /\ at' = "sentence"
      BY <1>8, <2>8, <2>11
    <3>2. Good(last)' => AllOf(last)'
      BY <1>2, <1>6, <2>2, <2>8, <3>1 DEF Good, AllOf
    <3>3. AtSentence'
      BY <1>2, <1>6, <1>10, <3>2 DEF AtSentence
    <3> QED
      BY <1>2, <1>5, <2>9, <3>1, <3>3
  <2> QED
    BY <2>10, <2>11
<1>12. CASE last \in lost
  <2>1. Recovers'
    BY <1>1, <1>12, CaughtUp DEF Good
  <2>2. ~Good(last)'
    <3>1. CASE b.of = last
      BY <1>2, <1>12, <3>1 DEF Good
    <3>2. CASE b.of # last
      <4>1. b.of - 1 \in lost
        <5>1. CASE b.of - 1 = last
          BY <1>12, <5>1
        <5>2. CASE b.of - 1 # last
          <6>1. b.of - 1 \in Nat /\ last < b.of - 1 /\ b.of - 1 < b.of
            BY <1>2, <3>2, <5>2
          <6> QED
            BY <1>1, <6>1, SkippedLost
        <5> QED
          BY <5>1, <5>2
      <4> QED
        BY <1>2, <1>6, <4>1 DEF Good
    <3> QED
      BY <3>1, <3>2
  <2>3. AtSentence'
    BY <1>2, <1>6, <1>10, <2>2 DEF AtSentence
  <2>4. at' = "nmea" => AtNmea'
    <3>1. b.of \notin lost => \E n \in TextLengths : Laid(Ahead', -1, b.of, Sentence(b.of, n))
      <4> HAVE b.of \notin lost
      <4>1. b.of > last
        BY <1>2, <1>12
      <4> QED
        BY <1>1, <1>6, <4>1, SentenceBegins
    <3>2. b.of \notin lost => last' - 1 \in lost'
      BY <1>2, <1>6, <2>2 DEF Good
    <3>3. \A n \in TextLengths : 1 \in 1..(n + 1)
      BY SizeAssumption
    <3>4. last' \notin lost' =>
            \E n \in TextLengths : \E r \in 1..(n + 1) :
              /\ Laid(Ahead', -r, last', Sentence(last', n))
              /\ last' - 1 \notin lost' => r = Len(msgbuf') /\ AllOf(last)'
      BY <1>2, <3>1, <3>2, <3>3
    <3> QED
      BY <1>2, <1>6, <1>10, <3>4 DEF AtNmea, AllOf
  <2> QED
    BY <1>2, <1>5, <1>8, <2>1, <2>3, <2>4
<1> QED
  BY <1>11, <1>12
\* Inside an answer the next byte is the next of it.
LEMMA AnswerGoesOn ==
  ASSUME LineInv, ~astray, at \in {"sync", "header", "payload"}, NEW b, Read(b),
         msgbuf' = Append(msgbuf, b), ~(at' = "sync")
  PROVE  /\ last \in answers /\ last \in 1..MaxMessages /\ b.of = last /\ Recovers'
         /\ msgbuf'[1].is = "B5" /\ AllOf(last)' /\ Len(msgbuf') = Len(msgbuf) + 1
         /\ \E id \in Ids, n \in Lengths :
              /\ b = Answer(last, id, n)[Len(msgbuf')] /\ Len(msgbuf') <= n + 4
              /\ Laid(Ahead', -Len(msgbuf'), last, Answer(last, id, n))
              /\ at = "payload" => Len(msgbuf) >= 4 /\ Len(msgbuf) + need = n + 4
<1> USE DEF LineInv
<1>1. InAnswer
  BY DEF PlaceInv
<1>2. /\ last' = b.of /\ b.of \in 1..MaxMessages /\ last \in 0..MaxMessages /\ last <= b.of
      /\ 1 \in 1..Len(Ahead) /\ Ahead[1] = b /\ b \in Bytes
      /\ UNCHANGED <<answers, parsed, lost, message>>
  BY ReadOne DEF TypeOK
<1>3. last \in answers /\ last \in 1..MaxMessages
  BY <1>1 DEF InAnswer, TypeOK
<1>4. /\ msgbuf \in Seq(Bytes) /\ Len(msgbuf) \in Nat /\ Len(msgbuf) >= 1
      /\ Len(msgbuf') = Len(msgbuf) + 1
      /\ \A i \in 1..(Len(msgbuf) + 1) : msgbuf'[i] = IF i <= Len(msgbuf) THEN msgbuf[i] ELSE b
  <2>1. msgbuf \in Seq(Bytes) /\ msgbuf # <<>>
    BY DEF TypeOK, FrameInv
  <2>2. Len(msgbuf) \in Nat /\ Len(msgbuf) >= 1
    BY <2>1
  <2> QED
    BY <1>2, <2>1, <2>2, AppendMore
<1>5. PICK id \in Ids, n \in Lengths :
        /\ Laid(Ahead, -Len(msgbuf), last, Answer(last, id, n))
        /\ at = "sync" => Len(msgbuf) = 1
        /\ at = "header" => Len(msgbuf) \in {2, 3}
        /\ at = "payload" => Len(msgbuf) >= 4 /\ Len(msgbuf) + need = n + 4
  BY <1>1 DEF InAnswer
<1>6. Answer(last, id, n) \in Seq(Bytes) /\ Len(Answer(last, id, n)) = n + 4 /\ n \in Nat /\ n > 0
  BY <1>3, AnswerMade, LengthsFit
<1>7. Len(msgbuf') \in 1..(n + 4)
  <2>1. at = "payload" => need > 0 /\ need \in Nat
    BY DEF FrameInv, TypeOK
  <2>2. Len(msgbuf) < n + 4
    BY <1>4, <1>5, <1>6, <2>1
  <2> QED
    BY <1>4, <1>6, <2>2
<1>8. -Len(msgbuf) \in Int /\ -Len(msgbuf) + Len(msgbuf') = 1 /\ -Len(msgbuf) - 1 = -Len(msgbuf')
  BY <1>4
<1>9. b = Answer(last, id, n)[Len(msgbuf')]
  BY <1>2, <1>5, <1>6, <1>7, <1>8 DEF Laid
<1>10. b.of = last
  BY <1>3, <1>7, <1>9, AnswerMade
<1>11. Laid(Ahead', -Len(msgbuf'), last, Answer(last, id, n))
  <2>1. Laid(Ahead', -Len(msgbuf) - 1, last, Answer(last, id, n))
    BY <1>5, <1>6, <1>8, ReadLaid
  <2> QED
    BY <1>8, <2>1
<1>12. msgbuf'[1].is = "B5"
  <2>1. 1 \in 1..(Len(msgbuf) + 1) /\ 1 <= Len(msgbuf)
    BY <1>4
  <2> QED
    BY <1>1, <1>4, <2>1 DEF InAnswer
<1>13. AllOf(last)'
  <2>1. \A i \in 1..(Len(msgbuf) + 1) : i <= Len(msgbuf) => i \in 1..Len(msgbuf)
    BY <1>4
  <2>2. \A i \in 1..(Len(msgbuf) + 1) : msgbuf'[i].of = last
    BY <1>1, <1>4, <1>10, <2>1 DEF InAnswer, AllOf
  <2> QED
    BY <1>2, <1>4, <1>10, <2>2 DEF AllOf
<1>14. Recovers'
  BY <1>3, <1>10, CaughtUp
<1>15. Len(msgbuf') <= n + 4
  BY <1>6, <1>7
<1> QED
  BY <1>3, <1>4, <1>5, <1>9, <1>10, <1>11, <1>12, <1>13, <1>14, <1>15

LEMMA AnswerStep ==
  ASSUME LineInv, ReadSync \/ ReadHeader \/ ReadPayload
  PROVE  PlaceInv' /\ Recovers'
<1> USE DEF LineInv
<1>1. CASE astray'
  BY <1>1 DEF PlaceInv, Recovers
<1>2. CASE ~astray'
  <2>1. PICK b : Read(b) /\ (at # "sync" => msgbuf' = Append(msgbuf, b))
                 /\ (at = "sync" => \E v \in Values(b) :
                       IF v = "62" THEN at' = "header" /\ msgbuf' = Append(msgbuf, b)
                                   ELSE at' = "first" /\ msgbuf' = <<>>)
    BY DEF ReadSync, ReadHeader, ReadPayload
  <2>2. ~astray
    <3>1. astray' = (astray \/ (b.is = "B5" /\ at # "first"))
      BY <2>1, ReadOne
    <3> QED
      BY <1>2, <3>1, Zenon
  <2>3. at \in {"sync", "header", "payload"}
    BY DEF ReadSync, ReadHeader, ReadPayload
  <2>4. InAnswer /\ answers \cap lost = {}
    BY <2>2, <2>3 DEF PlaceInv
  <2>5. UNCHANGED <<answers, lost>> /\ last' = b.of
    BY <2>1, ReadOne
  <2>6. msgbuf' = Append(msgbuf, b) /\ (at = "sync" => at' = "header")
    <3>1. CASE at # "sync"
      BY <2>1, <3>1
    <3>2. CASE at = "sync"
      <4>1. PICK id \in Ids, n \in Lengths : Laid(Ahead, -Len(msgbuf), last, Answer(last, id, n)) /\ Len(msgbuf) = 1
        BY <2>4, <3>2 DEF InAnswer
      <4>2. last \in 1..MaxMessages /\ n \in Nat
        BY <2>4, LengthsFit DEF InAnswer, TypeOK
      <4>3. 2 \in 1..Len(Answer(last, id, n)) /\ -Len(msgbuf) + 2 = 1
        BY <4>1, <4>2, AnswerMade
      <4>4. Ahead[1] = Answer(last, id, n)[2]
        BY <4>1, <4>3 DEF Laid
      <4>5. b.is = "62"
        BY <2>1, <4>2, <4>4, ReadOne, AnswerMade
      <4>6. Values(b) = {"62"}
        BY <4>5 DEF Values
      <4> QED
        BY <2>1, <3>2, <4>6
    <3> QED
      BY <3>1, <3>2
  <2>7. at' \in {"header", "payload", "ubx"}
    BY <2>3, <2>6 DEF ReadSync, ReadHeader, ReadPayload
  <2>8. /\ last \in answers /\ last \in 1..MaxMessages /\ b.of = last /\ Recovers'
        /\ msgbuf'[1].is = "B5" /\ AllOf(last)' /\ Len(msgbuf') = Len(msgbuf) + 1
    BY <2>1, <2>2, <2>3, <2>6, <2>7, AnswerGoesOn
  <2>9. PICK id \in Ids, n \in Lengths :
              /\ b = Answer(last, id, n)[Len(msgbuf')] /\ Len(msgbuf') <= n + 4
              /\ Laid(Ahead', -Len(msgbuf'), last, Answer(last, id, n))
              /\ at = "payload" => Len(msgbuf) >= 4 /\ Len(msgbuf) + need = n + 4
    BY <2>1, <2>2, <2>3, <2>6, <2>7, AnswerGoesOn
  <2>10. Len(msgbuf) \in Nat /\ n \in Nat /\ n > 0 /\ n + 4 <= BufferSize /\ BufferSize \in Nat
    BY LengthsFit DEF TypeOK
  <2>11. CASE at' \in {"header", "payload"}
    <3>1. /\ at' = "header" => Len(msgbuf') \in {2, 3}
          /\ at' = "payload" => Len(msgbuf') >= 4 /\ Len(msgbuf') + need' = n + 4
      <4>1. CASE at = "sync"
        <5>1. Len(msgbuf) = 1
          BY <2>4, <4>1 DEF InAnswer
        <5> QED
          BY <2>6, <2>8, <4>1, <5>1
      <4>2. CASE at = "header"
        <5>1. Len(msgbuf) \in {2, 3}
          BY <2>4, <4>2 DEF InAnswer
        <5>2. PICK c : /\ Read(c)
                       /\ IF Len(msgbuf) < 3 THEN UNCHANGED <<at, need>>
                          ELSE /\ at' = "payload"
                               /\ need' \in IF c.is = "length" THEN {ToRead(c.n)} ELSE 1..(BufferSize + 1)
          BY <4>2 DEF ReadHeader, ReadSync, ReadPayload
        <5>3. c = b
          BY <2>1, <5>2, ReadOne
        <5>4. CASE Len(msgbuf) = 2
          BY <2>8, <4>2, <5>2, <5>4
        <5>5. CASE Len(msgbuf) = 3
          <6>1. b.is = "length" /\ b.n = n
            BY <2>8, <2>9, <5>5, AnswerMade
          <6>2. need' = n /\ at' = "payload"
            BY <5>2, <5>3, <5>5, <6>1 DEF ToRead
          <6> QED
            BY <2>8, <2>10, <5>5, <6>2
        <5> QED
          BY <5>1, <5>4, <5>5
      <4>3. CASE at = "payload"
        <5>1. need' = need - 1 /\ at' = IF need' = 0 THEN "ubx" ELSE "payload"
          BY <4>3 DEF ReadHeader, ReadSync, ReadPayload
        <5>2. need \in Nat
          BY DEF TypeOK
        <5> QED
          BY <2>8, <2>9, <2>10, <4>3, <5>1, <5>2
      <4> QED
        BY <2>3, <4>1, <4>2, <4>3
    <3>2. InAnswer'
      BY <2>5, <2>8, <2>9, <2>11, <3>1 DEF InAnswer, AllOf
    <3> QED
      BY <2>4, <2>5, <2>8, <2>11, <3>2 DEF PlaceInv
  <2>12. CASE at' = "ubx"
    <3>1. at = "payload" /\ need' = need - 1 /\ need' = 0
      <4>1. at = "payload"
        BY <2>3, <2>6, <2>12 DEF ReadHeader, ReadSync, ReadPayload
      <4> QED
        BY <2>12, <4>1 DEF ReadHeader, ReadSync, ReadPayload
    <3>2. need \in Nat
      BY DEF TypeOK
    <3>3. Len(msgbuf') = n + 4
      BY <2>8, <2>9, <2>10, <3>1, <3>2
    <3>4. Passed'
      <4>1. Len(Answer(last, id, n)) = n + 4
        BY <2>8, AnswerMade
      <4>2. -Len(msgbuf') + (n + 4) = 0
        BY <2>10, <3>3
      <4>3. \A i \in 1..Len(Ahead') : Ahead'[i].of > last
        BY <2>9, <4>1, <4>2 DEF Laid
      <4> QED
        BY <2>5, <2>8, <4>3 DEF Passed
    <3>5. Len(msgbuf') <= BufferSize
      BY <2>10, <3>3
    <3>6. AtUbx'
      BY <2>5, <2>8, <3>4, <3>5 DEF AtUbx, AllOf
    <3> QED
      BY <2>4, <2>5, <2>8, <2>12, <3>6 DEF PlaceInv
  <2> QED
    BY <2>7, <2>11, <2>12
<1> QED
  BY <1>1, <1>2

LEMMA ReadStep ==
  ASSUME LineInv, ReadFirst \/ ReadSentence \/ ReadSync \/ ReadHeader \/ ReadPayload
  PROVE  LineInv'
<1>1. PICK b : Read(b)
  BY DEF ReadFirst, ReadSentence, ReadSync, ReadHeader, ReadPayload
<1>2. StreamInv'
  BY <1>1, ReadOne
<1>3. PlaceInv' /\ Recovers'
  BY FirstStep, SentenceStep, AnswerStep
<1> QED
  BY <1>2, <1>3, ReadTypes DEF LineInv

\* What was found is parsed.
LEMMA DoneStep ==
  ASSUME LineInv, ParseMessage \/ ParseUbloxMessage
  PROVE  LineInv'
<1> USE DEF LineInv
<1>1. at \in {"sentence", "ubx"} /\ Done
  BY DEF ParseMessage, ParseUbloxMessage
<1>2. /\ at' \in {"first", "crashed"}
      /\ parsed' = IF Whole THEN parsed \cup {msgbuf[1].of} ELSE parsed
      /\ UNCHANGED <<queue, sending, message, answers, last, lost, astray>>
  BY <1>1 DEF Done, lineVars
<1>3. StreamInv'
  <2>1. Ahead' = Ahead
    BY <1>2 DEF Ahead
  <2>2. StreamOK(Ahead', last', message', lost', answers')
    BY <1>2, <2>1 DEF StreamInv
  <2> QED
    BY <2>2 DEF StreamInv
<1>4. Recovers'
  <2>1. parsed \subseteq parsed'
    BY <1>2
  <2> QED
    BY <1>2, <2>1 DEF Recovers
<1>5. PlaceInv'
  <2>1. SUFFICES ASSUME ~astray, at' = "first" PROVE answers' \cap lost' = {} /\ AtFirst'
    BY <1>2 DEF PlaceInv
  <2>2. answers \cap lost = {} /\ (at = "sentence" => AtSentence) /\ (at = "ubx" => AtUbx)
    BY <2>1 DEF PlaceInv
  <2>3. 1 \in 1..Len(msgbuf)
    <3>1. msgbuf \in Seq(Bytes) /\ msgbuf # <<>>
      BY <1>1 DEF TypeOK, FrameInv
    <3> QED
      BY <3>1
  <2>4. Good(last) => last \in parsed'
    <3> HAVE Good(last)
    <3>1. AllOf(last) /\ msgbuf[1].is \in {"$", "B5"}
      BY <1>1, <2>2 DEF AtSentence, AtUbx
    <3>2. msgbuf[1].of = last
      BY <2>3, <3>1 DEF AllOf
    <3>3. Whole
      BY <3>1, <3>2 DEF Whole, AllOf, Good
    <3> QED
      BY <1>2, <3>2, <3>3
  <2>5. last \in answers => Passed'
    <3> HAVE last \in answers
    <3>1. Passed
      BY <1>1, <2>2 DEF AtSentence, AtUbx
    <3> QED
      BY <1>2, <3>1 DEF Passed, Ahead
  <2> QED
    BY <1>2, <2>2, <2>4, <2>5 DEF AtFirst, Good
<1> QED
  BY <1>3, <1>4, <1>5, DoneTypes

-----------------------------------------------------------------------------
(* The receiver.                                                           *)

\* The invariant is about the bytes to come, wherever they are.
LEMMA SameLine ==
  ASSUME LineInv, Ahead' = Ahead, UNCHANGED <<at, msgbuf, need, last, parsed, lost, astray, message, answers>>
  PROVE  StreamInv' /\ PlaceInv' /\ Recovers'
<1> USE DEF LineInv
<1>1. StreamInv'
  <2>1. StreamOK(Ahead', last', message', lost', answers')
    BY DEF StreamInv
  <2> QED
    BY <2>1 DEF StreamInv
<1>2. Passed' = Passed /\ (\A k : AllOf(k)' = AllOf(k) /\ Good(k)' = Good(k))
  BY DEF Passed, AllOf, Good
<1>3. PlaceInv'
  <2>1. AtFirst' = AtFirst /\ AtSentence' = AtSentence
    BY DEF AtFirst, AtSentence, Passed, AllOf, Good
  <2>2. AtUbx' = AtUbx
    BY DEF AtUbx, Passed, AllOf
  <2>3. AtNmea' = AtNmea
    BY DEF AtNmea, AllOf
  <2>4. InAnswer' = InAnswer
    BY DEF InAnswer, AllOf
  <2> QED
    BY <2>1, <2>2, <2>3, <2>4, Zenon DEF PlaceInv
<1>4. Recovers'
  BY DEF Recovers
<1> QED
  BY <1>1, <1>3, <1>4

\* A message is begun: it comes after all the others.
LEMMA BeginStep ==
  ASSUME LineInv, BeginMessage
  PROVE  LineInv'
<1> USE DEF LineInv
<1>1. /\ sending = <<>> /\ message' = message + 1 /\ message' \in 1..MaxMessages
      /\ answers' = answers \/ answers' = answers \cup {message'}
      /\ sending' \in Messages(message', answers') /\ sending' \in Seq(Bytes)
      /\ UNCHANGED <<at, queue, msgbuf, need, last, parsed, lost, astray>>
  BY MessageBegun
<1>2. /\ message \in Nat /\ last \in Nat /\ last <= message /\ MaxMessages \in Nat
      /\ answers \in SUBSET (1..message) /\ lost \in SUBSET (1..message) /\ queue \in Seq(Bytes)
  BY SizeAssumption DEF TypeOK, FrameInv, StreamInv, StreamOK, Ordered
<1>3. Ahead \in Seq(Bytes) /\ Ahead' = Ahead \o sending'
  <2>1. Ahead = queue
    BY <1>1, <1>2, ConcatEmptySeq DEF Ahead
  <2>2. Ahead' = queue' \o sending'
    BY DEF Ahead
  <2> QED
    BY <1>1, <1>2, <2>1, <2>2
<1>4. StreamInv'
  <2>1. StreamOK(Ahead \o sending', last, message + 1, lost, answers')
    <3>1. StreamOK(Ahead, last, message, lost, answers)
      BY DEF StreamInv
    <3>2. answers' = answers \/ answers' = answers \cup {message + 1}
      BY <1>1
    <3>3. sending' \in Messages(message + 1, answers') /\ message + 1 <= MaxMessages
      BY <1>1, <1>2
    <3> QED
      BY <1>2, <1>3, <3>1, <3>2, <3>3, BeginStream
  <2>2. StreamOK(Ahead', last', message', lost', answers')
    BY <1>1, <1>3, <2>1
  <2> QED
    BY <2>2 DEF StreamInv
<1>5. /\ Ahead' \in Seq(Bytes) /\ Len(Ahead) <= Len(Ahead')
      /\ \A i \in 1..Len(Ahead) : i \in 1..Len(Ahead') /\ Ahead'[i] = Ahead[i]
      /\ \A i \in 1..Len(Ahead') : i > Len(Ahead) => Ahead'[i].of > last
  <2>1. /\ Ahead' \in Seq(Bytes) /\ Len(Ahead') = Len(Ahead) + Len(sending')
        /\ \A i \in 1..(Len(Ahead) + Len(sending')) :
             Ahead'[i] = IF i <= Len(Ahead) THEN Ahead[i] ELSE sending'[i - Len(Ahead)]
    BY <1>1, <1>3, ConcatProperties, Zenon
  <2>2. Len(Ahead) \in Nat /\ Len(sending') \in Nat
    BY <1>1, <1>3
  <2>3. \A j \in 1..Len(sending') : sending'[j].of = message'
    BY <1>1, MessageMade
  <2>4. ASSUME NEW i \in 1..Len(Ahead'), i > Len(Ahead) PROVE Ahead'[i].of > last
    <3>1. i - Len(Ahead) \in 1..Len(sending') /\ Ahead'[i] = sending'[i - Len(Ahead)]
      BY <2>1, <2>2, <2>4
    <3> QED
      BY <1>1, <1>2, <2>3, <3>1
  <2> QED
    BY <2>1, <2>2, <2>4
<1>6. ASSUME NEW o \in Int, NEW m \in Seq(Bytes), Laid(Ahead, o, last, m) PROVE Laid(Ahead', o, last, m)
  BY <1>3, <1>5, <1>6, LaidMore
<1>7. \A k \in 0..message : (k \in answers' <=> k \in answers) /\ (Good(k)' <=> Good(k))
  <2>1. \A k \in 0..message : k # message'
    BY <1>1, <1>2
  <2> QED
    BY <1>1, <2>1 DEF Good
<1>8. /\ last \in 0..message /\ last' = last
      /\ last \in answers' <=> last \in answers
      /\ Good(last)' <=> Good(last)
      /\ AllOf(last)' <=> AllOf(last)
      /\ Passed => Passed'
  <2>1. last \in 0..message
    BY <1>2
  <2>2. Passed => Passed'
    <3> SUFFICES ASSUME Passed, NEW i \in 1..Len(Ahead') PROVE Ahead'[i].of > last
      BY <1>1 DEF Passed
    <3>1. CASE i \in 1..Len(Ahead)
      BY <1>5, <3>1 DEF Passed
    <3>2. CASE i \notin 1..Len(Ahead)
      <4>1. i > Len(Ahead)
        BY <1>3, <1>5, <3>2
      <4> QED
        BY <1>5, <4>1
    <3> QED
      BY <3>1, <3>2
  <2> QED
    BY <1>1, <1>7, <2>1, <2>2 DEF AllOf, Good
<1>9. Recovers'
  <2> SUFFICES ASSUME ~astray, NEW k \in 1..(last - 1), Good(k)' PROVE k \in parsed
    BY <1>1 DEF Recovers, Good
  <2>1. k \in 0..message
    BY <1>2
  <2> QED
    BY <1>7, <2>1 DEF Recovers, Good
<1>10. PlaceInv'
  <2>1. SUFFICES ASSUME ~astray
                 PROVE  /\ answers' \cap lost = {}
                        /\ at = "first" => AtFirst'
                        /\ at = "nmea" => AtNmea'
                        /\ at = "sentence" => AtSentence'
                        /\ at \in {"sync", "header", "payload"} => InAnswer'
                        /\ at = "ubx" => AtUbx'
    BY <1>1 DEF PlaceInv
  <2>2. answers' \cap lost = {}
    <3>1. answers \cap lost = {} /\ message' \notin lost
      BY <1>1, <1>2, <2>1 DEF PlaceInv
    <3> QED
      BY <1>1, <3>1
  <2>3. at = "first" => AtFirst'
    BY <1>1, <1>8, <2>1 DEF PlaceInv, AtFirst, Good
  <2>4. ASSUME at = "nmea" PROVE AtNmea'
    <3>1. AtNmea
      BY <2>1, <2>4 DEF PlaceInv
    <3>2. ASSUME last \notin lost
          PROVE  \E n \in TextLengths : \E r \in 1..(n + 1) :
                   /\ Laid(Ahead', -r, last, Sentence(last, n))
                   /\ last - 1 \notin lost => r = Len(msgbuf) /\ AllOf(last)
      <4>0. PICK n \in TextLengths : \E r \in 1..(n + 1) :
              /\ Laid(Ahead, -r, last, Sentence(last, n))
              /\ last - 1 \notin lost => r = Len(msgbuf) /\ AllOf(last)
        BY <3>1, <3>2 DEF AtNmea
      <4>1. PICK r \in 1..(n + 1) :
              /\ Laid(Ahead, -r, last, Sentence(last, n))
              /\ last - 1 \notin lost => r = Len(msgbuf) /\ AllOf(last)
        BY <4>0
      <4>2. n \in Nat /\ last \in 1..MaxMessages
        BY <3>1, SizeAssumption DEF AtNmea, TypeOK
      <4>3. Sentence(last, n) \in Seq(Bytes) /\ -r \in Int
        BY <4>2, SentenceParts
      <4>4. Laid(Ahead', -r, last, Sentence(last, n))
        BY <1>6, <4>1, <4>3
      <4> QED
        BY <4>1, <4>4
    <3> QED
      BY <1>1, <1>8, <3>1, <3>2 DEF AtNmea, AllOf
  <2>5. at = "sentence" => AtSentence'
    BY <1>1, <1>8, <2>1 DEF PlaceInv, AtSentence, Good, AllOf
  <2>6. ASSUME at \in {"sync", "header", "payload"} PROVE InAnswer'
    <3>1. InAnswer
      BY <2>1, <2>6 DEF PlaceInv
    <3>2. PICK id \in Ids, n \in Lengths :
            /\ Laid(Ahead, -Len(msgbuf), last, Answer(last, id, n))
            /\ at = "sync" => Len(msgbuf) = 1
            /\ at = "header" => Len(msgbuf) \in {2, 3}
            /\ at = "payload" => Len(msgbuf) >= 4 /\ Len(msgbuf) + need = n + 4
      BY <3>1 DEF InAnswer
    <3>3. Answer(last, id, n) \in Seq(Bytes) /\ -Len(msgbuf) \in Int
      <4>1. last \in 1..MaxMessages /\ msgbuf \in Seq(Bytes)
        BY <3>1 DEF InAnswer, TypeOK
      <4> QED
        BY <4>1, AnswerMade
    <3>4. Laid(Ahead', -Len(msgbuf), last, Answer(last, id, n))
      BY <1>6, <3>2, <3>3
    <3> QED
      BY <1>1, <1>8, <3>1, <3>2, <3>4 DEF InAnswer, AllOf
  <2>7. at = "ubx" => AtUbx'
    BY <1>1, <1>8, <2>1 DEF PlaceInv, AtUbx, AllOf, Passed
  <2> QED
    BY <2>2, <2>3, <2>4, <2>5, <2>6, <2>7
<1> QED
  BY <1>4, <1>9, <1>10, SenderTypes

\* A byte comes, and finds the queue full: its message may still be read in its place.
LEMMA LoseStep ==
  ASSUME LineInv, SendByte, Len(queue) >= QueueSize
  PROVE  LineInv'
<1> USE DEF LineInv
<1> DEFINE d == Head(sending)
           p == Len(queue) + 1
<1>1. /\ sending # <<>> /\ sending' = Tail(sending) /\ queue' = queue
      /\ lost' = lost \cup {d.of} /\ astray' = (astray \/ d.of \in answers)
      /\ UNCHANGED <<at, message, answers, msgbuf, need, last, parsed>>
  <2>1. ~(Len(queue) < QueueSize)
    BY SizeAssumption DEF TypeOK
  <2> QED
    BY <2>1 DEF SendByte, frameVars
<1>2. /\ p \in 1..Len(Ahead) /\ Ahead[p] = d
      /\ Ahead' \in Seq(Bytes) /\ Len(Ahead') = Len(Ahead) - 1
      /\ \A i \in 1..Len(Ahead') : Ahead'[i] = IF i < p THEN Ahead[i] ELSE Ahead[i + 1]
  BY <1>1, AheadDrop
<1> HIDE DEF d, p
<1>3. /\ message \in Nat /\ last \in Nat /\ message <= MaxMessages /\ Ahead \in Seq(Bytes) /\ msgbuf \in Seq(Bytes)
  BY SizeAssumption, AheadIs DEF TypeOK
<1>4. StreamInv'
  <2>1. StreamOK(Ahead', last, message, lost \cup {Ahead[p].of}, answers)
    BY <1>2, <1>3, DropStream DEF StreamInv
  <2>2. StreamOK(Ahead', last', message', lost', answers')
    BY <1>1, <1>2, <2>1
  <2> QED
    BY <2>2 DEF StreamInv
<1>5. ASSUME NEW k PROVE Good(k)' => Good(k)
  BY <1>1 DEF Good
<1>6. Recovers'
  BY <1>1 DEF Recovers
<1>7. Passed => Passed'
  <2> SUFFICES ASSUME Passed, NEW i \in 1..Len(Ahead') PROVE Ahead'[i].of > last
    BY <1>1 DEF Passed
  <2>1. i \in 1..Len(Ahead) /\ i + 1 \in 1..Len(Ahead)
    BY <1>2, <1>3
  <2> QED
    BY <1>2, <2>1 DEF Passed
<1>8. ASSUME last > 0, d.of # last, NEW o \in Int, o <= -1, NEW m \in Messages(last, answers), Laid(Ahead, o, last, m)
      PROVE  Laid(Ahead', o, last, m)
  <2>1. last \in 1..MaxMessages
    BY <1>8 DEF TypeOK
  <2>2. m \in Seq(Bytes) /\ \A j \in 1..Len(m) : m[j].of = last
    BY <2>1, <1>8, MessageMade
  <2>3. o + 1 < p
    BY <1>2, <1>8
  <2> QED
    BY <1>2, <1>3, <1>8, <2>2, <2>3, LaidDropAfter
<1>9. PlaceInv'
  <2>1. SUFFICES ASSUME ~astray, d.of \notin answers
                 PROVE  /\ answers \cap lost' = {}
                        /\ at = "first" => AtFirst'
                        /\ at = "nmea" => AtNmea'
                        /\ at = "sentence" => AtSentence'
                        /\ at \in {"sync", "header", "payload"} => InAnswer'
                        /\ at = "ubx" => AtUbx'
    BY <1>1 DEF PlaceInv
  <2>2. answers \cap lost' = {}
    BY <1>1, <2>1 DEF PlaceInv
  <2>3. at = "first" => AtFirst'
    BY <1>1, <1>5, <1>7, <2>1 DEF PlaceInv, AtFirst, Good
  <2>4. ASSUME at = "nmea" PROVE AtNmea'
    <3>1. AtNmea
      BY <2>1, <2>4 DEF PlaceInv
    <3>2. ASSUME last \notin lost'
          PROVE  \E n \in TextLengths : \E r \in 1..(n + 1) :
                   /\ Laid(Ahead', -r, last, Sentence(last, n))
                   /\ last - 1 \notin lost' => r = Len(msgbuf) /\ AllOf(last)
      <4>1. PICK n \in TextLengths : \E r \in 1..(n + 1) :
              /\ Laid(Ahead, -r, last, Sentence(last, n))
              /\ last - 1 \notin lost => r = Len(msgbuf) /\ AllOf(last)
        BY <1>1, <3>1, <3>2 DEF AtNmea
      <4>2. PICK r \in 1..(n + 1) :
              /\ Laid(Ahead, -r, last, Sentence(last, n))
              /\ last - 1 \notin lost => r = Len(msgbuf) /\ AllOf(last)
        BY <4>1
      <4>3. n \in Nat /\ -r \in Int /\ -r <= -1 /\ last > 0 /\ d.of # last
        BY <1>1, <3>1, <3>2, SizeAssumption DEF AtNmea
      <4>4. Sentence(last, n) \in Messages(last, answers)
        BY <3>1 DEF AtNmea, Messages
      <4>5. Laid(Ahead', -r, last, Sentence(last, n))
        BY <1>8, <4>2, <4>3, <4>4
      <4> QED
        BY <1>1, <4>2, <4>5
    <3> QED
      BY <1>1, <3>1, <3>2 DEF AtNmea, AllOf
  <2>5. at = "sentence" => AtSentence'
    BY <1>1, <1>5, <2>1 DEF PlaceInv, AtSentence, Good, AllOf
  <2>6. ASSUME at \in {"sync", "header", "payload"} PROVE InAnswer'
    <3>1. InAnswer
      BY <2>1, <2>6 DEF PlaceInv
    <3>2. PICK id \in Ids, n \in Lengths :
            /\ Laid(Ahead, -Len(msgbuf), last, Answer(last, id, n))
            /\ at = "sync" => Len(msgbuf) = 1
            /\ at = "header" => Len(msgbuf) \in {2, 3}
            /\ at = "payload" => Len(msgbuf) >= 4 /\ Len(msgbuf) + need = n + 4
      BY <3>1 DEF InAnswer
    <3>3. -Len(msgbuf) \in Int /\ -Len(msgbuf) <= -1
      <4>1. msgbuf # <<>>
        BY <2>6 DEF FrameInv
      <4> QED
        BY <1>3, <4>1
    <3>4. last > 0 /\ d.of # last
      BY <2>1, <3>1 DEF InAnswer, TypeOK
    <3>5. Answer(last, id, n) \in Messages(last, answers)
      BY <3>1 DEF InAnswer, Messages
    <3>6. Laid(Ahead', -Len(msgbuf), last, Answer(last, id, n))
      BY <1>8, <3>2, <3>3, <3>4, <3>5
    <3> QED
      BY <1>1, <3>1, <3>2, <3>6 DEF InAnswer, AllOf
  <2>7. at = "ubx" => AtUbx'
    BY <1>1, <1>7, <2>1 DEF PlaceInv, AtUbx, AllOf
  <2> QED
    BY <2>2, <2>3, <2>4, <2>5, <2>6, <2>7
<1> QED
  BY <1>4, <1>6, <1>9, SenderTypes

LEMMA SenderStep ==
  ASSUME LineInv, BeginMessage \/ SendByte
  PROVE  LineInv'
<1>1. CASE BeginMessage
  BY <1>1, BeginStep
<1>2. CASE SendByte /\ Len(queue) < QueueSize
  <2>1. /\ sending # <<>> /\ queue' = Append(queue, Head(sending)) /\ sending' = Tail(sending)
        /\ UNCHANGED <<at, msgbuf, need, last, parsed, lost, astray, message, answers>>
    BY <1>2 DEF SendByte, frameVars
  <2>2. Ahead' = Ahead
    BY <2>1, AheadSend DEF LineInv
  <2> QED
    BY <2>1, <2>2, SameLine, SenderTypes DEF LineInv
<1>3. CASE SendByte /\ ~(Len(queue) < QueueSize)
  <2>1. Len(queue) >= QueueSize
    BY <1>3, SizeAssumption DEF LineInv, TypeOK
  <2> QED
    BY <1>3, <2>1, LoseStep
<1> QED
  BY <1>1, <1>2, <1>3

-----------------------------------------------------------------------------
(* The theorems.                                                           *)

LEMMA InitLine == Init => LineInv
<1> SUFFICES ASSUME Init PROVE LineInv
  OBVIOUS
<1> USE DEF Init
<1>1. TypeOK
  <2>1. <<>> \in Seq(Bytes) /\ Len(<<>>) = 0 /\ <<>> \in Seq(Ids)
    OBVIOUS
  <2>2. queue \in Seq(Bytes) /\ Len(queue) <= QueueSize /\ sending \in Seq(Bytes) /\ msgbuf \in Seq(Bytes)
        /\ polls \in Seq(Ids)
    BY <2>1, SizeAssumption
  <2>3. message \in 0..MaxMessages /\ need \in 0..(BufferSize + 1) /\ last \in 0..MaxMessages
    BY SizeAssumption
  <2>4. /\ aid.position \in {"none", "degrees"} /\ aid.dated \in BOOLEAN /\ aid.flags \subseteq Flags
        /\ aid.now \in Instants \cup {0} /\ aid.week \in Nat /\ aid.second \in Nat
    BY DEF NoAid
  <2>5. at \in Starting \cup Looking \cup {"sentence", "ubx", "crashed"} /\ astray \in BOOLEAN
    BY DEF Starting
  <2>6. parsed \in SUBSET (1..MaxMessages) /\ lost \in SUBSET (1..MaxMessages) /\ answers \in SUBSET (1..MaxMessages)
    OBVIOUS
  <2> QED
    BY <2>2, <2>3, <2>4, <2>5, <2>6 DEF TypeOK
<1>2. FrameInv
  BY DEF FrameInv, Starting
<1>3. Ahead = <<>> /\ Len(Ahead) = 0
  BY DEF Ahead
<1>4. StreamInv
  <2>1. \A i \in 1..Len(Ahead) : FALSE
    BY <1>3
  <2>2. Ordered(Ahead, 0, 0)
    BY <2>1 DEF Ordered
  <2>3. Sorted(Ahead, {}) /\ Starts(Ahead, 0) /\ Framed(Ahead, 0, {}, {})
    BY <2>1 DEF Sorted, Starts, Framed
  <2>4. Complete(Ahead, 0, 0, {})
    BY DEF Complete
  <2> QED
    BY <2>2, <2>3, <2>4 DEF StreamInv, StreamOK
<1>5. PlaceInv
  BY DEF PlaceInv
<1>6. Recovers
  BY DEF Recovers
<1> QED
  BY <1>1, <1>2, <1>4, <1>5, <1>6 DEF LineInv

LEMMA NextLine == LineInv /\ [Next]_vars => LineInv'
<1> SUFFICES ASSUME LineInv, [Next]_vars PROVE LineInv'
  OBVIOUS
<1>1. CASE FlushPort \/ WaitForModem \/ ComposeAid \/ SendAidIni \/ PollMessage
  BY <1>1, StartStep
<1>2. CASE ReadFirst \/ ReadSentence \/ ReadSync \/ ReadHeader \/ ReadPayload
  BY <1>2, ReadStep
<1>3. CASE ParseMessage \/ ParseUbloxMessage
  BY <1>3, DoneStep
<1>4. CASE BeginMessage \/ SendByte
  BY <1>4, SenderStep
<1>5. CASE UNCHANGED vars
  <2>1. UNCHANGED <<at, aid, polls, queue, sending, message, answers, msgbuf, need, last, parsed, lost, astray>>
    BY <1>5 DEF vars, startVars, lineVars, frameVars
  <2>2. TypeOK' /\ FrameInv'
    BY <2>1 DEF LineInv, TypeOK, FrameInv
  <2>3. Ahead' = Ahead
    BY <2>1 DEF Ahead
  <2> QED
    BY <2>1, <2>2, <2>3, SameLine DEF LineInv
<1> QED
  BY <1>1, <1>2, <1>3, <1>4, <1>5 DEF Next, MainStep

THEOREM LineCorrect == Spec => []LineInv
BY InitLine, NextLine, PTL DEF Spec

\* The state keeps its type: in particular the queue never holds more than the kernel
\* keeps, and no more of a message is waited for than its header says (main.cpp:245-350).
THEOREM TypeCorrect == Spec => []TypeOK
<1>1. LineInv => TypeOK
  BY DEF LineInv
<1> QED
  BY <1>1, LineCorrect, PTL

\* The search gets into step and stays there (main.cpp:223-350): whatever the queue lost,
\* for as long as no answer lost a byte or began inside a sentence, every answer that is
\* whole is parsed, and every sentence that is, but one that comes after a loss.
THEOREM RecoversCorrect == Spec => []Recovers
<1>1. LineInv => Recovers
  BY DEF LineInv
<1> QED
  BY <1>1, LineCorrect, PTL

\* What is kept of a message fits msgbuf (main.cpp:240-241, 343-345): a sentence because
\* the loop counts, an answer because its length is read in its place.
THEOREM WithinBufferCorrect == Spec => []WithinBuffer
<1>1. ASSUME LineInv PROVE WithinBuffer
  <2> SUFFICES ASSUME ~astray PROVE Len(msgbuf) <= BufferSize
    BY DEF WithinBuffer
  <2> USE <1>1 DEF LineInv
  <2>1. Len(msgbuf) \in Nat /\ BufferSize \in Nat
    BY SizeAssumption DEF TypeOK
  <2>2. CASE at \in Starting \cup {"first", "crashed"}
    <3>1. msgbuf = <<>>
      BY <2>2 DEF FrameInv
    <3> QED
      BY <2>1, <3>1
  <2>3. CASE at = "nmea"
    BY <2>1, <2>3 DEF PlaceInv, AtNmea
  <2>4. CASE at = "sentence"
    BY <2>1, <2>4 DEF PlaceInv, AtSentence
  <2>5. CASE at \in {"sync", "header", "payload"}
    <3>1. InAnswer
      BY <2>5 DEF PlaceInv
    <3>2. PICK id \in Ids, n \in Lengths :
            /\ at = "sync" => Len(msgbuf) = 1
            /\ at = "header" => Len(msgbuf) \in {2, 3}
            /\ at = "payload" => Len(msgbuf) >= 4 /\ Len(msgbuf) + need = n + 4
      BY <3>1 DEF InAnswer
    <3>3. n \in Nat /\ n > 0 /\ n + 4 <= BufferSize /\ need \in Nat
      BY LengthsFit DEF TypeOK
    <3>4. Len(msgbuf) = 1 \/ Len(msgbuf) \in {2, 3} \/ Len(msgbuf) + need = n + 4
      BY <2>5, <3>2, Zenon
    <3>5. Len(msgbuf) <= n + 4
      <4> DEFINE r == Len(msgbuf)
      <4>1. r \in Nat /\ n \in Nat /\ need \in Nat /\ (r = 1 \/ r = 2 \/ r = 3 \/ r + need = n + 4)
        BY <2>1, <3>3, <3>4
      <4> HIDE DEF r
      <4>2. r <= n + 4
        BY <4>1
      <4> QED
        BY <4>2 DEF r
    <3> QED
      BY <2>1, <3>3, <3>5
  <2>6. CASE at = "ubx"
    BY <2>6 DEF PlaceInv, AtUbx
  <2> QED
    BY <2>2, <2>3, <2>4, <2>5, <2>6 DEF TypeOK, Looking
<1> QED
  BY <1>1, LineCorrect, PTL

\* The time in the aiding message is the true one for every clock, and no flag tells the
\* receiver to rely on what is not in its units (main.cpp:170-200).
THEOREM AidRightCorrect == Spec => []AidRight
<1>1. Init => AidRight
  BY DEF Init, NoAid, AidRight
<1>2. ASSUME AidRight, [Next]_vars PROVE AidRight'
  <2>1. CASE ComposeAid
    BY <2>1, ComposedAid DEF ComposeAid
  <2>2. CASE SendAidIni
    BY <2>2, NoAidRight DEF SendAidIni
  <2>3. CASE ~(ComposeAid \/ SendAidIni)
    <3>1. aid' = aid
      BY <1>2, <2>3 DEF Next, MainStep, FlushPort, WaitForModem, PollMessage, ReadFirst, ReadSentence,
           ReadSync, ReadHeader, ReadPayload, Read, ParseMessage, ParseUbloxMessage, Done, BeginMessage,
           SendByte, vars, startVars
    <3> QED
      BY <1>2, <3>1 DEF AidRight
  <2> QED
    BY <2>1, <2>2, <2>3
<1> QED
  BY <1>1, <1>2, PTL DEF Spec
=============================================================================

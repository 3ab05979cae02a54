------------------------------- MODULE NtpShm -------------------------------
(***************************************************************************)
(* ntpd's shared-memory segment (gpslogger/NtpUpdater.cpp): gpslogger's    *)
(* SetTime stores a clock reading into it, and ntpd, which is external,    *)
(* polls it in mode 1: it looks at valid, loads count, copies the reading, *)
(* loads count again, and drops the copy when the count has moved.         *)
(*                                                                         *)
(* Only count and valid are volatile.  In source order the stores come as  *)
(* written; otherwise the others may be moved across them.  A reading is   *)
(* numbered by the call that made it; GpsLogger's FedOnce is why the calls *)
(* come with increasing times.  Fields equal in all calls are left out.    *)
(***************************************************************************)
EXTENDS Naturals

CONSTANTS SourceOrder, \* the stores of SetTime reach memory as written
          MaxSample    \* bound: calls of SetTime

ASSUME OrderAssumption == SourceOrder \in BOOLEAN
ASSUME BoundAssumption == MaxSample \in Nat

VARIABLES
  shm,     \* the segment: its control fields and the reading
  sample,  \* the last call of SetTime
  pending, \* stores of that call still to come
  open,    \* a reading was begun and not finished, by a dead writer perhaps
  ntpd,    \* where ntpd is in its poll
  counted, \* the mode and the count ntpd loaded first
  copied,  \* its copy of the reading
  toRead,  \* fields it has still to copy
  inside,  \* a reading was unfinished when ntpd loaded the count
  accepted \* the last reading ntpd took

writerVars == <<sample, pending, open>>
ntpdVars == <<ntpd, counted, copied, toRead, inside, accepted>>
vars == <<shm, writerVars, ntpdVars>>

Samples  == 0 .. MaxSample
Fields   == {"clock", "receiveSec", "receiveUSec"}
Readings == [Fields -> Samples]
Stores   == {"invalid", "mode", "begin", "end", "valid"} \cup Fields

TypeOK ==
  /\ shm \in [valid : BOOLEAN, mode : {0, 1}, count : Nat, reading : Readings]
  /\ sample \in Samples /\ pending \in SUBSET Stores /\ open \in BOOLEAN
  /\ ntpd \in {"poll", "count", "copy", "clear"}
  /\ counted \in [mode : {0, 1}, count : Nat]
  /\ copied \in Readings /\ toRead \in SUBSET Fields /\ inside \in BOOLEAN
  /\ accepted \in [reading : Readings, inside : BOOLEAN]

Blank == [f \in Fields |-> 0]

\* ntpd or gpslogger creates the segment, zeroed; the count may be left by an earlier run.
Init ==
  /\ shm \in [valid : {FALSE}, mode : {0, 1}, count : {0, 1}, reading : {Blank}]
  /\ sample = 0 /\ pending = {} /\ open = FALSE
  /\ ntpd = "poll" /\ counted = [mode |-> 0, count |-> 0] /\ copied = Blank /\ toRead = {}
  /\ inside = FALSE /\ accepted = [reading |-> Blank, inside |-> FALSE]

-----------------------------------------------------------------------------
(* gpslogger: SetTime, store by store.                                     *)

BeginSet ==
  /\ pending = {} /\ sample < MaxSample
  /\ sample' = sample + 1 /\ pending' = Stores
  /\ UNCHANGED <<shm, open, ntpdVars>>

\* Mutated: both increments before the reading; valid raised before the second.
BothFirst == [invalid |-> 1, mode |-> 2, begin |-> 3, end |-> 4,
              clock |-> 5, receiveSec |-> 6, receiveUSec |-> 7, valid |-> 8]
ValidEarly == [invalid |-> 1, mode |-> 2, begin |-> 3, clock |-> 4, valid |-> 5,
               receiveSec |-> 6, receiveUSec |-> 7, end |-> 8]
Position == [invalid |-> 1, mode |-> 2, begin |-> 3,
             clock |-> 4, receiveSec |-> 5, receiveUSec |-> 6, end |-> 7, valid |-> 8]

Volatile == {"invalid", "begin", "end", "valid"}

MayStore(x) ==
  /\ x \in pending
  /\ \A y \in pending : SourceOrder \/ {x, y} \subseteq Volatile => Position[x] <= Position[y]

Incremented == shm.count + 1

Store(x) ==
  /\ MayStore(x)
  /\ pending' = pending \ {x}
  /\ shm' = [valid   |-> IF x = "invalid" THEN FALSE ELSE x = "valid" \/ shm.valid,
             mode    |-> IF x = "mode" THEN 1 ELSE shm.mode,
             count   |-> IF x \in {"begin", "end"} THEN Incremented ELSE shm.count,
             reading |-> IF x \in Fields THEN [shm.reading EXCEPT ![x] = sample] ELSE shm.reading]
  /\ open' = IF x = "begin" THEN TRUE ELSE x # "end" /\ open
  /\ UNCHANGED <<sample, ntpdVars>>

\* gpslogger is killed or crashes; started again it calls SetTime afresh.
WriterDies ==
  /\ pending # {} /\ pending' = {}
  /\ UNCHANGED <<shm, sample, open, ntpdVars>>

-----------------------------------------------------------------------------
(* ntpd's poll.                                                            *)

LookAtValid ==
  /\ ntpd = "poll" /\ shm.valid /\ ntpd' = "count"
  /\ UNCHANGED <<shm, writerVars, counted, copied, toRead, inside, accepted>>

LoadCount ==
  /\ ntpd = "count" /\ ntpd' = "copy"
  /\ counted' = [mode |-> shm.mode, count |-> shm.count]
  /\ toRead' = Fields /\ inside' = open
  /\ UNCHANGED <<shm, writerVars, copied, accepted>>

CopyField(f) ==
  /\ ntpd = "copy" /\ f \in toRead
  /\ copied' = [copied EXCEPT ![f] = shm.reading[f]]
  /\ toRead' = toRead \ {f}
  /\ UNCHANGED <<shm, writerVars, ntpd, counted, inside, accepted>>

Unmoved == counted.mode = 1 => shm.count = counted.count

TakeOrDrop ==
  /\ ntpd = "copy" /\ toRead = {} /\ ntpd' = "clear"
  /\ accepted' = IF Unmoved THEN [reading |-> copied, inside |-> inside] ELSE accepted
  /\ UNCHANGED <<shm, writerVars, counted, copied, toRead, inside>>

ClearValid ==
  /\ ntpd = "clear" /\ ntpd' = "poll"
  /\ shm' = [shm EXCEPT !.valid = FALSE]
  /\ UNCHANGED <<writerVars, counted, copied, toRead, inside, accepted>>

WriterStep == BeginSet \/ (\E x \in Stores : Store(x)) \/ WriterDies
NtpdStep == LookAtValid \/ LoadCount \/ (\E f \in Fields : CopyField(f)) \/ TakeOrDrop \/ ClearValid
Next == WriterStep \/ NtpdStep
Spec == Init /\ [][Next]_vars

-----------------------------------------------------------------------------
Whole(reading) == \A f \in Fields : reading[f] = reading["clock"]

\* valid covers only a finished reading, to be read with the counts (NtpUpdater.cpp:69-82):
\* a gpslogger that dies inside SetTime leaves valid down until a later call is complete.
ReadyIsWhole ==
  SourceOrder /\ shm.valid => shm.mode = 1 /\ ~open /\ Whole(shm.reading) /\ shm.reading["clock"] # 0

\* The two increments (NtpUpdater.cpp:72, 80) let ntpd drop every copy that SetTime ran
\* into: a reading it takes is of one call, unless one was unfinished already when it
\* loaded the count, having found valid up just before.
TakenIsWhole == SourceOrder /\ ~accepted.inside => Whole(accepted.reading)
=============================================================================

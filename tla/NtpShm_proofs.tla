---------------------------- MODULE NtpShm_proofs ----------------------------
(***************************************************************************)
(* Proofs about NtpShm, for any number of readings.                        *)
(***************************************************************************)
EXTENDS NtpShm, TLAPS

\* In source order the stores still to come are the last ones, what has been stored is
\* there to see, and a reading is open from the first increment to the second.
ProgressInv ==
  /\ \A x \in pending : \A y \in Stores : Position[x] <= Position[y] => y \in pending
  /\ pending # {} => sample # 0
  /\ pending # {} => \A f \in Fields \ pending : shm.reading[f] = sample
  /\ pending # {} /\ "mode" \notin pending => shm.mode = 1
  /\ pending # {} /\ "begin" \notin pending => (open <=> "end" \in pending)

\* valid is up only before the first store and after the last, and covers a whole reading.
FlagInv ==
  /\ ~open => Whole(shm.reading)
  /\ shm.valid => /\ pending = {} \/ "invalid" \in pending
                  /\ ~open /\ shm.mode = 1 /\ shm.reading["clock"] # 0

\* While the count is the one ntpd loaded, its copy is of the reading that is there.
CopyInv ==
  /\ ntpd # "poll" => shm.mode = 1
  /\ ntpd = "copy" => counted.mode = 1 /\ counted.count <= shm.count
  /\ ntpd = "copy" /\ ~inside /\ counted.count = shm.count =>
       ~open /\ \A f \in Fields \ toRead : copied[f] = shm.reading[f]
  /\ TakenIsWhole

NtpInv == TypeOK /\ (SourceOrder => ProgressInv /\ FlagInv /\ CopyInv)

USE DEF Stores, Fields

LEMMA InitNtp == Init => NtpInv
<1> SUFFICES ASSUME Init PROVE NtpInv
  OBVIOUS
<1> USE BoundAssumption DEF Init, Blank, Samples, Readings
<1>1. open \in BOOLEAN /\ inside \in BOOLEAN
  BY Zenon
<1>2. {FALSE} \subseteq BOOLEAN /\ {0, 1} \subseteq Nat /\ Blank \in Readings
  OBVIOUS
<1>3. shm \in [valid : BOOLEAN, mode : {0, 1}, count : Nat, reading : Readings]
  BY <1>2
<1>4. accepted \in [reading : Readings, inside : BOOLEAN]
  BY <1>2, Zenon
<1>5. /\ copied \in Readings /\ sample \in Samples /\ counted \in [mode : {0, 1}, count : Nat]
  OBVIOUS
<1>6. pending \in SUBSET Stores /\ toRead \in SUBSET Fields
      /\ ntpd \in {"poll", "count", "copy", "clear"}
  OBVIOUS
<1>7. TypeOK
  BY <1>1, <1>3, <1>4, <1>5, <1>6 DEF TypeOK
<1>8. ProgressInv /\ FlagInv /\ CopyInv
  BY DEF ProgressInv, FlagInv, CopyInv, Whole, TakenIsWhole
<1> QED
  BY <1>7, <1>8 DEF NtpInv

\* What one store does to the segment.
LEMMA StoreEffect ==
  ASSUME TypeOK, NEW x \in Stores, Store(x)
  PROVE  /\ shm' \in [valid : BOOLEAN, mode : {0, 1}, count : Nat, reading : Readings]
         /\ open' \in BOOLEAN
         /\ x \in pending /\ pending' = pending \ {x}
         /\ SourceOrder => \A y \in pending : Position[x] <= Position[y]
         /\ x = "invalid" => ~shm'.valid
         /\ x \notin {"invalid", "valid"} => shm'.valid = shm.valid
         /\ shm'.mode = IF x = "mode" THEN 1 ELSE shm.mode
         /\ shm'.count = IF x \in {"begin", "end"} THEN shm.count + 1 ELSE shm.count
         /\ \A f \in Fields : shm'.reading[f] = IF x = f THEN sample ELSE shm.reading[f]
         /\ x = "begin" => open'
         /\ x = "end" => ~open'
         /\ x \notin {"begin", "end"} => open' = open
         /\ UNCHANGED <<sample, ntpdVars>>
<1> DEFINE up == IF x = "invalid" THEN FALSE ELSE x = "valid" \/ shm.valid
           mode == IF x = "mode" THEN 1 ELSE shm.mode
           count == IF x \in {"begin", "end"} THEN shm.count + 1 ELSE shm.count
           reading == IF x \in Fields THEN [shm.reading EXCEPT ![x] = sample] ELSE shm.reading
<1>1. /\ x \in pending /\ pending' = pending \ {x} /\ UNCHANGED <<sample, ntpdVars>>
      /\ SourceOrder => \A y \in pending : Position[x] <= Position[y]
  BY DEF Store, MayStore
<1>2. shm' = [valid |-> up, mode |-> mode, count |-> count, reading |-> reading]
  BY DEF Store, Incremented
<1>3. up \in BOOLEAN
  BY Zenon DEF TypeOK
<1>4. /\ x = "invalid" => ~up
      /\ x \notin {"invalid", "valid"} => up = shm.valid
  BY DEF TypeOK
<1>5. mode \in {0, 1} /\ count \in Nat
  BY DEF TypeOK
<1>6. /\ reading \in Readings
      /\ \A f \in Fields : reading[f] = IF x = f THEN sample ELSE shm.reading[f]
  BY DEF TypeOK, Readings
<1>7. open' = IF x = "begin" THEN TRUE ELSE x # "end" /\ open
  BY Zenon DEF Store
<1>8. /\ open' \in BOOLEAN
      /\ x = "begin" => open'
      /\ x = "end" => ~open'
      /\ x \notin {"begin", "end"} => open' = open
  BY <1>7 DEF TypeOK
<1> HIDE DEF up, reading, Stores, Fields
<1>9. /\ shm' \in [valid : BOOLEAN, mode : {0, 1}, count : Nat, reading : Readings]
      /\ shm'.valid = up /\ shm'.mode = mode /\ shm'.count = count /\ shm'.reading = reading
  BY <1>2, <1>3, <1>5, <1>6
<1> QED
  BY <1>1, <1>4, <1>6, <1>8, <1>9

LEMMA StepNtp == NtpInv /\ [Next]_vars => NtpInv'
<1> SUFFICES ASSUME NtpInv, [Next]_vars PROVE NtpInv'
  OBVIOUS
<1> USE DEF NtpInv
<1>1. CASE BeginSet
  <2>1. /\ sample' \in Samples /\ sample' # 0 /\ pending' = Stores
        /\ UNCHANGED <<shm, open, ntpdVars>>
    BY <1>1, BoundAssumption DEF BeginSet, TypeOK, Samples
  <2>2. TypeOK'
    BY <2>1 DEF TypeOK, ntpdVars
  <2>3. SourceOrder => ProgressInv' /\ FlagInv' /\ CopyInv'
    BY <2>1 DEF ProgressInv, FlagInv, CopyInv, Whole, TakenIsWhole, ntpdVars
  <2> QED
    BY <2>2, <2>3
<1>2. CASE \E x \in Stores : Store(x)
  <2> SUFFICES ASSUME NEW x \in Stores, Store(x) PROVE NtpInv'
    BY <1>2
  <2>1. /\ shm' \in [valid : BOOLEAN, mode : {0, 1}, count : Nat, reading : Readings]
        /\ open' \in BOOLEAN
        /\ x \in pending /\ pending' = pending \ {x}
        /\ SourceOrder => \A y \in pending : Position[x] <= Position[y]
        /\ x = "invalid" => ~shm'.valid
        /\ x \notin {"invalid", "valid"} => shm'.valid = shm.valid
        /\ shm'.mode = IF x = "mode" THEN 1 ELSE shm.mode
        /\ shm'.count = IF x \in {"begin", "end"} THEN shm.count + 1 ELSE shm.count
        /\ \A f \in Fields : shm'.reading[f] = IF x = f THEN sample ELSE shm.reading[f]
        /\ x = "begin" => open'
        /\ x = "end" => ~open'
        /\ x \notin {"begin", "end"} => open' = open
        /\ UNCHANGED <<sample, ntpdVars>>
    BY StoreEffect
  <2>2. TypeOK'
    BY <2>1 DEF TypeOK, ntpdVars
  <2> SUFFICES ASSUME SourceOrder PROVE ProgressInv' /\ FlagInv' /\ CopyInv'
    BY <2>2
  <2>3. ProgressInv'
    BY <2>1 DEF ProgressInv, Position, TypeOK
  <2>4. FlagInv'
    BY <2>1 DEF ProgressInv, FlagInv, Position, Whole, TypeOK
  <2>5. x \in Fields => open
    BY <2>1 DEF ProgressInv, Position
  <2>6. CopyInv'
    BY <2>1, <2>5 DEF CopyInv, TakenIsWhole, ntpdVars, TypeOK
  <2> QED
    BY <2>3, <2>4, <2>6
<1>3. CASE WriterDies
  <2>1. TypeOK'
    BY <1>3 DEF WriterDies, TypeOK, ntpdVars
  <2>2. SourceOrder => ProgressInv' /\ FlagInv' /\ CopyInv'
    BY <1>3 DEF WriterDies, ProgressInv, FlagInv, CopyInv, Whole, TakenIsWhole, ntpdVars
  <2> QED
    BY <2>1, <2>2
<1>4. CASE NtpdStep
  <2>1. UNCHANGED writerVars
    BY <1>4 DEF NtpdStep, LookAtValid, LoadCount, CopyField, TakeOrDrop, ClearValid
  <2>2. CASE LookAtValid
    BY <2>1, <2>2 DEF LookAtValid, writerVars, TypeOK, ProgressInv, FlagInv, CopyInv, Whole, TakenIsWhole
  <2>3. CASE LoadCount
    <3>1. inside' = open
      BY <2>3, Zenon DEF LoadCount
    <3>2. /\ UNCHANGED <<shm, copied, accepted>> /\ ntpd = "count" /\ ntpd' = "copy"
          /\ counted' = [mode |-> shm.mode, count |-> shm.count] /\ toRead' = Fields
      BY <2>3 DEF LoadCount
    <3>3. TypeOK'
      BY <2>1, <3>1, <3>2 DEF writerVars, TypeOK
    <3>4. SourceOrder => ProgressInv' /\ FlagInv' /\ CopyInv'
      BY <2>1, <3>1, <3>2 DEF writerVars, TypeOK, ProgressInv, FlagInv, CopyInv, Whole, TakenIsWhole
    <3> QED
      BY <3>3, <3>4
  <2>4. CASE \E f \in Fields : CopyField(f)
    <3> SUFFICES ASSUME NEW f \in Fields, CopyField(f) PROVE NtpInv'
      BY <2>4
    <3>1. /\ copied' \in Readings /\ toRead' = toRead \ {f} /\ ntpd = "copy"
          /\ \A g \in Fields : copied'[g] = IF g = f THEN shm.reading[f] ELSE copied[g]
          /\ UNCHANGED <<shm, ntpd, counted, inside, accepted>>
      BY DEF CopyField, TypeOK, Readings
    <3>2. TypeOK'
      BY <2>1, <3>1 DEF writerVars, TypeOK
    <3>3. SourceOrder => ProgressInv' /\ FlagInv' /\ CopyInv'
      BY <2>1, <3>1 DEF writerVars, TypeOK, ProgressInv, FlagInv, CopyInv, Whole, TakenIsWhole
    <3> QED
      BY <3>2, <3>3
  <2>5. CASE TakeOrDrop
    <3>1. /\ UNCHANGED <<shm, counted, copied, toRead, inside>>
          /\ ntpd = "copy" /\ toRead = {} /\ ntpd' = "clear"
          /\ accepted' = IF Unmoved THEN [reading |-> copied, inside |-> inside] ELSE accepted
      BY <2>5 DEF TakeOrDrop
    <3>2. TypeOK'
      BY <2>1, <3>1 DEF writerVars, TypeOK
    <3>3. SourceOrder => ProgressInv' /\ FlagInv'
      BY <2>1, <3>1 DEF writerVars, ProgressInv, FlagInv, Whole
    <3>4. SourceOrder /\ Unmoved /\ ~inside => Whole(copied)
      BY <3>1 DEF Unmoved, CopyInv, FlagInv, Whole
    <3>5. SourceOrder => TakenIsWhole'
      BY <3>1, <3>4 DEF CopyInv, TakenIsWhole, Whole, TypeOK
    <3>6. SourceOrder => CopyInv'
      BY <3>1, <3>5 DEF CopyInv
    <3> QED
      BY <3>2, <3>3, <3>6
  <2>6. CASE ClearValid
    <3>1. /\ shm' = [shm EXCEPT !.valid = FALSE] /\ ntpd' = "poll"
          /\ UNCHANGED <<counted, copied, toRead, inside, accepted>>
      BY <2>6 DEF ClearValid
    <3>2. shm' \in [valid : BOOLEAN, mode : {0, 1}, count : Nat, reading : Readings]
          /\ ~shm'.valid /\ shm'.mode = shm.mode /\ shm'.reading = shm.reading
      BY <3>1 DEF TypeOK
    <3>3. TypeOK'
      BY <2>1, <3>1, <3>2 DEF writerVars, TypeOK
    <3>4. SourceOrder => ProgressInv' /\ FlagInv' /\ CopyInv'
      BY <2>1, <3>1, <3>2 DEF writerVars, ProgressInv, FlagInv, CopyInv, Whole, TakenIsWhole
    <3> QED
      BY <3>3, <3>4
  <2> QED
    BY <1>4, <2>2, <2>3, <2>4, <2>5, <2>6 DEF NtpdStep
<1>5. CASE UNCHANGED vars
  BY <1>5 DEF vars, writerVars, ntpdVars, TypeOK, ProgressInv, FlagInv, CopyInv, Whole, TakenIsWhole
<1> QED
  BY <1>1, <1>2, <1>3, <1>4, <1>5 DEF Next, WriterStep

\* ntpd's segment keeps its type, in whatever order the stores are made.
THEOREM TypeCorrect == Spec => []TypeOK
<1>1. NtpInv => TypeOK
  BY DEF NtpInv
<1> QED
  BY <1>1, InitNtp, StepNtp, PTL DEF Spec

\* A raised valid flag covers a finished reading only, also after gpslogger died.
THEOREM ReadyIsWholeCorrect == Spec => []ReadyIsWhole
<1>1. NtpInv => ReadyIsWhole
  BY DEF NtpInv, FlagInv, ReadyIsWhole
<1> QED
  BY <1>1, InitNtp, StepNtp, PTL DEF Spec

\* ntpd takes no mixture of two readings that the counts could have told it of.
THEOREM TakenIsWholeCorrect == Spec => []TakenIsWhole
<1>1. NtpInv => TakenIsWhole
  BY DEF NtpInv, CopyInv, TakenIsWhole
<1> QED
  BY <1>1, InitNtp, StepNtp, PTL DEF Spec
=============================================================================

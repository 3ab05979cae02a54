------------------------- MODULE LocationShm_proofs -------------------------
(***************************************************************************)
(* Proofs about LocationShm, for any number of samples and seconds and for *)
(* both orders of the stores.                                              *)
(***************************************************************************)
EXTENDS LocationShm, TLAPS

\* What has been stored of the call in progress is its sample, and in source order the
\* stores still to come are the last ones.
ProgressInv ==
  /\ pending # {} => sample # 0
  /\ pending # {} => \A f \in Fields \ pending : shm[f] = sample
  /\ stamp # 0 /\ pending # {} => pending \subseteq AfterTime
  /\ SourceOrder => \A x \in pending : \A y \in Stores :
                      Position[x] <= Position[y] => y \in pending

\* The flag is up only before the first store and after the last.
FlagInv ==
  /\ shm.valid /\ SourceOrder => pending = {} \/ "invalid" \in pending
  /\ shm.valid /\ SourceOrder =>
       \A f \in Fields : shm[f] = shm.latitude /\ shm[f] # 0
  /\ shm.valid /\ pending = {} /\ ~died =>
       \A f \in Fields : shm[f] = shm.latitude /\ shm[f] # 0

ShmInv == ShmTypeOK /\ ProgressInv /\ FlagInv

USE DEF Stores, BeforeTime, AfterTime, Fields

LEMMA InitShm == ShmInit => ShmInv
<1> SUFFICES ASSUME ShmInit PROVE ShmInv
  OBVIOUS
<1>1. shm \in Segments
  BY BoundAssumption DEF ShmInit, Segments, Samples, Clocks
<1>2. locked \in BOOLEAN /\ died \in BOOLEAN
  BY Zenon DEF ShmInit
<1>3. ShmTypeOK
  BY <1>1, <1>2, BoundAssumption DEF ShmInit, ShmTypeOK, Samples, Clocks
<1>4. ProgressInv /\ FlagInv
  BY DEF ShmInit, ProgressInv, FlagInv
<1> QED
  BY <1>3, <1>4 DEF ShmInv

\* What one store does to the segment.
LEMMA StoreEffect ==
  ASSUME ShmTypeOK, NEW x \in Stores, Store(x)
  PROVE  /\ shm' \in Segments
         /\ x \in pending /\ pending' = pending \ {x}
         /\ x \in AfterTime => stamp # 0
         /\ SourceOrder => \A y \in pending : Position[x] <= Position[y]
         /\ shm'.valid = IF x = "invalid" THEN FALSE ELSE IF x = "valid" THEN TRUE ELSE shm.valid
         /\ x # "lastUpdated" => shm'.lastUpdated = shm.lastUpdated
         /\ \A f \in Fields : shm'[f] = IF x = f THEN sample ELSE shm[f]
         /\ UNCHANGED <<sample, stamp, locked, died>>
<1> USE DEF ShmTypeOK, Segments, Store, MayStore
<1>1. CASE x = "invalid"
  BY <1>1
<1>2. CASE x = "valid"
  BY <1>2
<1>3. CASE x = "lastUpdated"
  BY <1>3
<1>4. CASE x = "latitude"
  BY <1>4
<1>5. CASE x = "longitude"
  BY <1>5
<1>6. CASE x = "speed"
  BY <1>6
<1> QED
  BY <1>1, <1>2, <1>3, <1>4, <1>5, <1>6

LEMMA StepShm == ShmInv /\ [ShmNext]_writerVars => ShmInv'
<1> SUFFICES ASSUME ShmInv, [ShmNext]_writerVars PROVE ShmInv'
  OBVIOUS
<1> USE DEF ShmInv, ShmTypeOK, ProgressInv, FlagInv
<1>1. CASE BeginAdd
  <2>1. died' \in BOOLEAN
    BY <1>1, Zenon DEF BeginAdd
  <2>2. sample' \in Samples /\ sample' # 0 /\ stamp' \in Clocks
    BY <1>1, BoundAssumption DEF BeginAdd, Samples, Clocks
  <2>3. pending' = Stores /\ stamp' = 0 /\ UNCHANGED <<shm, locked>>
    BY <1>1 DEF BeginAdd, AllStores
  <2>4. ShmTypeOK'
    BY <2>1, <2>2, <2>3
  <2>5. ProgressInv' /\ FlagInv'
    BY <1>1, <2>2, <2>3 DEF BeginAdd
  <2> QED
    BY <2>4, <2>5
<1>2. CASE CallTime
  BY <1>2 DEF CallTime, TimeOrdered, Clock
<1>3. CASE \E x \in Stores : Store(x)
  <2> SUFFICES ASSUME NEW x \in Stores, Store(x) PROVE ShmInv'
    BY <1>3
  <2>1. /\ shm' \in Segments
        /\ x \in pending /\ pending' = pending \ {x}
        /\ x \in AfterTime => stamp # 0
        /\ SourceOrder => \A y \in pending : Position[x] <= Position[y]
        /\ shm'.valid = IF x = "invalid" THEN FALSE ELSE IF x = "valid" THEN TRUE ELSE shm.valid
        /\ \A f \in Fields : shm'[f] = IF x = f THEN sample ELSE shm[f]
        /\ UNCHANGED <<sample, stamp, locked, died>>
    BY StoreEffect
  <2>2. ShmTypeOK'
    BY <2>1
  <2>3. ProgressInv'
    BY <2>1 DEF Position
  <2>4. FlagInv'
    BY <2>1 DEF Position
  <2> QED
    BY <2>2, <2>3, <2>4
<1>4. CASE WriterDies
  BY <1>4 DEF WriterDies
<1>5. CASE ChangeLock
  BY <1>5 DEF ChangeLock
<1>6. CASE UNCHANGED writerVars
  BY <1>6 DEF writerVars
<1> QED
  BY <1>1, <1>2, <1>3, <1>4, <1>5, <1>6 DEF ShmNext, WriterStep

\* The segment keeps its type.
THEOREM ShmTypeCorrect == ShmSpec => []ShmTypeOK
<1>1. ShmInv => ShmTypeOK
  BY DEF ShmInv
<1> QED
  BY <1>1, InitShm, StepShm, PTL DEF ShmSpec

\* A raised valid flag never covers a mixture of two positions.
THEOREM WholeWhenValidCorrect == ShmSpec => []WholeWhenValid
<1>1. ShmInv => WholeWhenValid
  BY DEF ShmInv, ProgressInv, FlagInv, WholeWhenValid
<1> QED
  BY <1>1, InitShm, StepShm, PTL DEF ShmSpec

\* A new time is never seen before the data it stands for.
THEOREM StampNotAheadCorrect == ShmSpec => StampNotAhead
<1>1. ShmInv /\ [ShmNext]_writerVars =>
        [shm'.lastUpdated # shm.lastUpdated => \A f \in Fields : shm[f] = sample]_writerVars
  <2> SUFFICES ASSUME ShmInv, [ShmNext]_writerVars, shm'.lastUpdated # shm.lastUpdated
               PROVE  \A f \in Fields : shm[f] = sample
    OBVIOUS
  <2>1. PICK x \in Stores : Store(x)
    BY DEF ShmNext, WriterStep, BeginAdd, CallTime, WriterDies, ChangeLock, writerVars
  <2>2. x = "lastUpdated" /\ x \in pending /\ stamp # 0
    BY <2>1, StoreEffect DEF ShmInv
  <2> QED
    BY <2>2 DEF ShmInv, ProgressInv
<1> QED
  BY <1>1, InitShm, StepShm, PTL DEF ShmSpec, StampNotAhead
=============================================================================

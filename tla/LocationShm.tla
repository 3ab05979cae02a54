----------------------------- MODULE LocationShm -----------------------------
(***************************************************************************)
(* The shared-memory segment through which gpslogger passes the car's      *)
(* position to celluploader (shared/locationshm.cpp), and its one writer,  *)
(* addLocation.  The segment belongs to neither process: it survives both, *)
(* and nothing ever sets valid back to 0 but the next addLocation.         *)
(*                                                                         *)
(* Of the fields only valid is volatile.  In source order the stores come  *)
(* one by one as written; otherwise the compiler may permute them, except  *)
(* across the call to time() and except the two stores to valid.           *)
(*                                                                         *)
(* A position is a sample, numbered in the order of the calls; a field     *)
(* holds the number of the sample that stored it last, 0 for none.         *)
(***************************************************************************)
EXTENDS Naturals

CONSTANTS SourceOrder, \* the stores of addLocation reach memory as written
          MaxSample,   \* bound: calls of addLocation
          MaxClock     \* bound: seconds of time()

ASSUME OrderAssumption == SourceOrder \in BOOLEAN
ASSUME BoundAssumption == MaxSample \in Nat /\ MaxClock \in Nat \ {0}

VARIABLES
  shm,     \* the segment
  sample,  \* the last sample addLocation was called with
  pending, \* stores of that call still to come
  stamp,   \* what time() returned in that call, 0 before it is called
  locked,  \* the receiver has a fix, so sentences reach addLocation
  died     \* the writer died between two stores of that call

writerVars == <<shm, sample, pending, stamp, locked, died>>

Samples == 0 .. MaxSample
Clocks  == 0 .. MaxClock
Segments == [valid : BOOLEAN, latitude : Samples, longitude : Samples, speed : Samples,
             lastUpdated : Clocks]

BeforeTime == {"invalid", "latitude", "longitude", "speed"}
AfterTime  == {"lastUpdated", "valid"}
Stores == BeforeTime \cup AfterTime

ShmTypeOK ==
  /\ shm \in Segments /\ sample \in Samples /\ pending \in SUBSET Stores
  /\ stamp \in Clocks
  /\ locked \in BOOLEAN /\ died \in BOOLEAN

\* shmget creates the segment filled with zeroes.
ShmInit ==
  /\ shm = [valid |-> FALSE, latitude |-> 0, longitude |-> 0, speed |-> 0, lastUpdated |-> 0]
  /\ sample = 0 /\ pending = {} /\ stamp = 0
  /\ locked = FALSE /\ died = FALSE

\* Mutated: valid is not cleared first; the speed is forgotten.
NotInvalidated == Stores \ {"invalid"}
SpeedForgotten == Stores \ {"speed"}
AllStores == Stores

\* gpslogger handles a sentence with a fix.
BeginAdd ==
  /\ pending = {} /\ locked /\ sample < MaxSample
  /\ sample' = sample + 1
  /\ pending' = AllStores /\ stamp' = 0 /\ died' = FALSE
  /\ UNCHANGED <<shm, locked>>

TimeOrdered == pending = AfterTime

\* time() may be behind an earlier call: ntpd or an operator sets the clock back.
\* Mutated: milliseconds are stored.
Milliseconds == {1000 * c : c \in Clocks \ {0}}
Clock == Clocks \ {0}

CallTime ==
  /\ TimeOrdered /\ stamp = 0
  /\ stamp' \in Clock
  /\ UNCHANGED <<shm, sample, pending, locked, died>>

Position == [invalid |-> 1, latitude |-> 2, longitude |-> 3, speed |-> 4,
             lastUpdated |-> 5, valid |-> 6]

MayStore(x) ==
  /\ x \in pending
  /\ x \in AfterTime => stamp # 0
  /\ SourceOrder => \A y \in pending : Position[x] <= Position[y]

Store(x) ==
  /\ MayStore(x)
  /\ pending' = pending \ {x}
  /\ shm' = CASE x = "invalid"     -> [shm EXCEPT !.valid = FALSE]
              [] x = "valid"       -> [shm EXCEPT !.valid = TRUE]
              [] x = "lastUpdated" -> [shm EXCEPT !.lastUpdated = stamp]
              [] OTHER             -> [shm EXCEPT ![x] = sample]
  /\ UNCHANGED <<sample, stamp, locked, died>>

\* gpslogger is killed or crashes; started again it calls addLocation afresh.
WriterDies ==
  /\ pending # {} /\ pending' = {} /\ died' = TRUE
  /\ UNCHANGED <<shm, sample, stamp, locked>>

\* Sentences come with a fix, or without one; the one leaves the segment alone.
ChangeLock ==
  /\ locked' = ~locked
  /\ UNCHANGED <<shm, sample, pending, stamp, died>>

WriterStep == BeginAdd \/ CallTime \/ (\E x \in Stores : Store(x)) \/ WriterDies
ShmNext == WriterStep \/ ChangeLock
ShmSpec == ShmInit /\ [][ShmNext]_writerVars

-----------------------------------------------------------------------------
Fields == {"latitude", "longitude", "speed"}

\* valid never covers a mixture (locationshm.cpp:32-39): while it is up, with no call in
\* progress or in source order, all fields are of one sample, and the last one stamped.
\* A writer that died half way leaves it down; out of order, it may leave anything.
WholeWhenValid ==
  shm.valid /\ (SourceOrder \/ (pending = {} /\ ~died)) =>
    \A f \in Fields : shm[f] = shm.latitude /\ shm[f] # 0

\* lastUpdated never runs ahead of the data (locationshm.cpp:34-37): when the reader
\* sees a new time, the fields it will read next were all stored before it.
StampNotAhead ==
  [][shm'.lastUpdated # shm.lastUpdated =>
       \A f \in Fields : shm[f] = sample]_writerVars
=============================================================================

-------------------------- MODULE GpsLogger_proofs --------------------------
(***************************************************************************)
(* Proofs about GpsLogger, for every set of addresses, every bound and     *)
(* every order of the slot's plain accesses.                               *)
(***************************************************************************)
EXTENDS GpsLogger, SequenceTheorems, TLAPS

\* The stores still to come are exactly those a hand-over in progress has left.
PublishInv ==
  /\ main = "publish" <=> unstored # {}
  /\ main \in {"msgfree", "copy"} => rmcMsg = NULL
  /\ main \in {"validfree", "copy"} => ~msgValid
  /\ "msg" \in unstored => rmcMsg = NULL
  /\ "valid" \in unstored => ~msgValid
  /\ "msg" \in unstored /\ "valid" \notin unstored => msgValid
  /\ {"msg", "valid"} \cap unstored # {} => live = {copy}

\* Who owns the copy: it is the only address ever allocated, the slot points to it or
\* to nothing, and it is freed only between DeleteMsg and ClearMsg.
OwnerInv ==
  /\ live \subseteq {copy}
  /\ rmcMsg \in {NULL, copy}
  /\ "msg" \notin unstored /\ rmcMsg = NULL => live = {} /\ ~msgValid /\ "valid" \notin unstored
  /\ "msg" \notin unstored /\ rmcMsg # NULL /\ pps # "null" => live = {copy}
  /\ ~msgValid /\ rmcMsg # NULL /\ "valid" \notin unstored => pps \in {"delete", "null"}

\* What the PPS thread knows of the slot at each of its steps.
DrainInv ==
  /\ pps = "valid" => msgValid
  /\ pps = "msg" => loaded = rmcMsg /\ rmcMsg # NULL
  /\ pps \in {"use", "clear"} => loaded = rmcMsg /\ rmcMsg # NULL /\ msgValid
  /\ pps = "delete" => loaded = rmcMsg /\ rmcMsg # NULL /\ ~msgValid /\ "valid" \notin unstored
  /\ pps = "null" => rmcMsg # NULL /\ live = {} /\ ~msgValid /\ "valid" \notin unstored

\* When the PPS thread and the singletons exist.
LifeInv ==
  /\ main \in StartUp => pps = "none" /\ ppsThreadId = "zero"
  /\ ppsThreadId = "thread" <=> pps # "none"
  /\ pps \notin {"none", "ended"} => main \notin {"ntp", "serial", "done"}
  /\ main \notin {"port", "done"} => serial
  /\ pps \in {"clear", "delete", "null"} => ntp # "none"

HandoffInv == PublishInv /\ OwnerInv /\ DrainInv /\ LifeInv

\* Every sentence with a fix is of a second that has begun.
SentenceInv ==
  /\ due => second # 0
  /\ \A i \in 1 .. Len(uart) : uart[i].kind = "fix" => uart[i].sec # 0
  /\ main \in {"locate", "copy", "publish"} \cup CheckSlot => rmc # 0

\* In source order the flag is up only while the message is complete; and unless it was
\* delayed, its second is the present one until the pulse, the last one after it.
FeedInv ==
  /\ "content" \in unstored => "msg" \in unstored
  /\ "msg" \in unstored => "valid" \in unstored
  /\ main = "publish" /\ "content" \notin unstored => content[copy] = rmc
  /\ msgValid => unstored = {} /\ content[copy] # 0
  /\ msgValid /\ ~disturbed /\ pps \in {"woken", "valid", "use"} => second = content[copy] + 1
  /\ msgValid /\ ~disturbed /\ pps \in {"none", "loop", "waiting", "ended"} => second = content[copy]
  /\ pps # "msg"
  /\ fed.clean => fed.clock = fed.at

TimeInv == SentenceInv /\ (SourceOrder => FeedInv)

\* Sentences with a fix are read in the order of their seconds, each once.
ReadOrderInv ==
  /\ due => rmc < second
  /\ rmc <= second
  /\ \A i \in 1 .. Len(uart) : uart[i].kind = "fix" =>
       /\ rmc < uart[i].sec /\ uart[i].sec <= second
       /\ due => uart[i].sec < second
       /\ \A j \in 1 .. i - 1 : uart[j].kind = "fix" => uart[j].sec < uart[i].sec

\* The location segment is at least as new as every copy.
LocatedInv ==
  /\ \A c \in Copies : content[c] <= segment
  /\ segment <= rmc
  /\ main \in CheckSlot \cup {"copy", "publish"} => segment = rmc

\* The time fed is not later than the message in the slot, nor that than the one in hand.
FedOrderInv ==
  /\ fed.clock <= rmc + 1
  /\ main \in {"locate", "copy", "publish"} \cup CheckSlot => fed.clock <= rmc
  /\ main \in {"locate", "copy"} \cup CheckSlot /\ msgValid => content[copy] < rmc
  /\ msgValid => content[copy] <= rmc
  /\ msgValid /\ pps # "clear" => fed.clock <= content[copy]

OrderInv == ReadOrderInv /\ LocatedInv /\ (SourceOrder => FedOrderInv)

-----------------------------------------------------------------------------
(* Types.                                                                  *)

USE DEF MainAt, StartUp, CheckSlot, ShutDown, Ended, PpsAt, Draining

LEMMA InitTyped == Init => TypeOK
<1> SUFFICES ASSUME Init PROVE TypeOK
  OBVIOUS
<1>1. /\ isRunning \in BOOLEAN /\ msgValid \in BOOLEAN /\ serial \in BOOLEAN
      /\ modemValid \in BOOLEAN /\ due \in BOOLEAN /\ disturbed \in BOOLEAN
  BY Zenon DEF Init
<1>2. uart \in Seq(Sentences)
  BY EmptySeq DEF Init
<1>3. fed \in [n : Nat, clock : Nat, at : Times, clean : BOOLEAN]
  BY BoundAssumption DEF Init, Times
<1> QED
  BY <1>1, <1>2, <1>3, CopiesAssumption, BoundAssumption DEF Init, TypeOK, Times

LEMMA StepTyped == TypeOK /\ DrainInv /\ [Next]_vars => TypeOK'
<1> SUFFICES ASSUME TypeOK, DrainInv, [Next]_vars PROVE TypeOK'
  OBVIOUS
<1> USE CopiesAssumption, BoundAssumption DEF TypeOK, slotVars, lifeVars, gpsVars
<1>1. CASE OpenPort
  BY <1>1 DEF OpenPort
<1>2. CASE OpenPPSPort
  BY <1>2 DEF OpenPPSPort
<1>3. CASE AttachSegment
  BY <1>3 DEF AttachSegment
<1>4. CASE OpenLogFile
  BY <1>4 DEF OpenLogFile
<1>5. CASE FlushPort
  BY <1>5 DEF FlushPort
<1>6. CASE PollModem
  BY <1>6 DEF PollModem, KeepPolling
<1>7. CASE SendAid
  BY <1>7 DEF SendAid
<1>8. CASE SpawnPpsThread
  BY <1>8 DEF SpawnPpsThread
<1>9. CASE TestRunning
  BY <1>9 DEF TestRunning, Running
<1>10. CASE ReadSentence
  <2>1. Head(uart) \in Sentences /\ Tail(uart) \in Seq(Sentences)
    BY <1>10, HeadTailProperties DEF ReadSentence
  <2>2. Head(uart).sec \in Times
    BY <2>1 DEF Sentences
  <2> QED
    BY <1>10, <2>1, <2>2 DEF ReadSentence, WithFix
<1>11. CASE Locate
  BY <1>11 DEF Locate, Times
<1>12. CASE LoadSlotMsg
  BY <1>12 DEF LoadSlotMsg, MsgSet
<1>13. CASE LoadSlotValid
  BY <1>13 DEF LoadSlotValid
<1>14. CASE AllocateCopy
  BY <1>14 DEF AllocateCopy
<1>15. CASE Publish
  <2> SUFFICES ASSUME NEW x \in {"content", "msg", "valid"}, PublishStore(x)
               PROVE  TypeOK'
    BY <1>15 DEF Publish
  <2>1. msgValid' \in BOOLEAN /\ disturbed' \in BOOLEAN
    BY Zenon DEF PublishStore
  <2>2. content' \in [Copies -> Times]
    BY DEF PublishStore
  <2>3. rmcMsg' \in Copies \cup {NULL} /\ main' \in MainAt
    BY DEF PublishStore
  <2>4. unstored' \in SUBSET {"content", "msg", "valid"}
    BY DEF PublishStore
  <2>5. UNCHANGED <<pps, rmc, segment, ntp, fed, live, copy, loaded, lifeVars, gpsVars>>
    BY DEF PublishStore
  <2> QED
    BY <2>1, <2>2, <2>3, <2>4, <2>5
<1>16. CASE WriteLog
  BY <1>16 DEF WriteLog
<1>17. CASE CloseFile
  BY <1>17 DEF CloseFile
<1>18. CASE JoinPpsThread
  BY <1>18 DEF JoinPpsThread, Joined
<1>19. CASE CleanupNtpUpdater
  BY <1>19 DEF CleanupNtpUpdater
<1>20. CASE CleanupSerialHandler
  <2>1. serial' \in BOOLEAN
    BY <1>20, Zenon DEF CleanupSerialHandler
  <2> QED
    BY <1>20, <2>1 DEF CleanupSerialHandler
<1>21. CASE PpsTest
  BY <1>21 DEF PpsTest, Running
<1>22. CASE PpsTimeout
  BY <1>22 DEF PpsTimeout
<1>23. CASE PpsLoadValid
  BY <1>23 DEF PpsLoadValid
<1>24. CASE PpsLoadMsg
  BY <1>24 DEF PpsLoadMsg
<1>25. CASE FeedNtp
  <2>1. (~disturbed) \in BOOLEAN
    OBVIOUS
  <2>2. loaded \in Copies
    BY <1>25 DEF FeedNtp, DrainInv
  <2>3. TimeAtPulse(loaded) \in Nat
    BY <2>2 DEF TimeAtPulse, Times
  <2> QED
    BY <1>25, <2>1, <2>3 DEF FeedNtp, AfterFeed
<1>26. CASE ClearValid
  <2>1. msgValid' \in BOOLEAN
    BY <1>26, Zenon DEF ClearValid
  <2> QED
    BY <1>26, <2>1 DEF ClearValid
<1>27. CASE DeleteMsg
  BY <1>27 DEF DeleteMsg
<1>28. CASE ClearMsg
  <2>1. disturbed' \in BOOLEAN
    BY <1>28, Zenon DEF ClearMsg
  <2> QED
    BY <1>28, <2>1 DEF ClearMsg
<1>29. CASE \E wake \in BOOLEAN : NewSecond(wake)
  BY <1>29 DEF NewSecond, Times
<1>30. CASE Report
  <2>1. PICK kind \in {"fix", "nofix", "other"} :
             uart' = Append(uart, [kind |-> kind, sec |-> second])
    BY <1>30 DEF Report
  <2>2. uart' \in Seq(Sentences)
    BY <2>1, AppendProperties DEF Sentences
  <2>3. due' \in BOOLEAN
    BY <1>30, Zenon DEF Report
  <2> QED
    BY <1>30, <2>2, <2>3 DEF Report
<1>31. CASE ModemLocated
  BY <1>31 DEF ModemLocated
<1>32. CASE Terminate
  <2>1. isRunning' \in BOOLEAN
    BY <1>32, Zenon DEF Terminate
  <2> QED
    BY <1>32, <2>1 DEF Terminate
<1>33. CASE UNCHANGED vars
  BY <1>33 DEF vars
<1> QED
  BY <1>1, <1>2, <1>3, <1>4, <1>5, <1>6, <1>7, <1>8, <1>9, <1>10, <1>11, <1>12, <1>13, <1>14, <1>15, <1>16, <1>17, <1>18, <1>19, <1>20, <1>21, <1>22, <1>23, <1>24, <1>25, <1>26, <1>27, <1>28, <1>29, <1>30, <1>31, <1>32, <1>33
     DEF Next, MainStep, PpsStep, Environment

-----------------------------------------------------------------------------
(* The hand-over.                                                          *)

LEMMA InitHandoff == Init => HandoffInv
  BY CopiesAssumption DEF Init, HandoffInv, PublishInv, OwnerInv, DrainInv, LifeInv

LEMMA StepHandoff == TypeOK /\ HandoffInv /\ [Next]_vars => HandoffInv'
<1> SUFFICES ASSUME TypeOK, HandoffInv, [Next]_vars PROVE HandoffInv'
  OBVIOUS
<1> USE CopiesAssumption DEF TypeOK, HandoffInv, PublishInv, OwnerInv, DrainInv, LifeInv,
                            slotVars, lifeVars
<1>1. CASE OpenPort
  BY <1>1 DEF OpenPort
<1>2. CASE OpenPPSPort
  BY <1>2 DEF OpenPPSPort
<1>3. CASE AttachSegment
  BY <1>3 DEF AttachSegment
<1>4. CASE OpenLogFile
  BY <1>4 DEF OpenLogFile
<1>5. CASE FlushPort
  BY <1>5 DEF FlushPort
<1>6. CASE PollModem
  BY <1>6 DEF PollModem, KeepPolling
<1>7. CASE SendAid
  BY <1>7 DEF SendAid
<1>8. CASE SpawnPpsThread
  BY <1>8 DEF SpawnPpsThread
<1>9. CASE TestRunning
  BY <1>9 DEF TestRunning
<1>10. CASE ReadSentence
  BY <1>10 DEF ReadSentence, WithFix
<1>11. CASE Locate
  BY <1>11 DEF Locate
<1>12. CASE LoadSlotMsg
  BY <1>12 DEF LoadSlotMsg, MsgSet
<1>13. CASE LoadSlotValid
  BY <1>13 DEF LoadSlotValid
<1>14. CASE AllocateCopy
  BY <1>14 DEF AllocateCopy
<1>15. CASE Publish
  <2> SUFFICES ASSUME NEW x \in {"content", "msg", "valid"}, PublishStore(x)
               PROVE  HandoffInv'
    BY <1>15 DEF Publish
  <2>1. /\ main = "publish" /\ x \in unstored /\ unstored' = unstored \ {x}
        /\ rmcMsg' = IF x = "msg" THEN copy ELSE rmcMsg
        /\ msgValid' = IF x = "valid" THEN TRUE ELSE msgValid
        /\ main' = IF unstored' = {} THEN "log" ELSE main
        /\ UNCHANGED <<pps, ntp, live, copy, loaded, lifeVars>>
    BY DEF PublishStore, NextStore
  <2>2. PublishInv'
    BY <2>1
  <2>3. OwnerInv'
    BY <2>1
  <2>4. DrainInv'
    BY <2>1
  <2>5. LifeInv'
    BY <2>1
  <2> QED
    BY <2>2, <2>3, <2>4, <2>5
<1>16. CASE WriteLog
  BY <1>16 DEF WriteLog
<1>17. CASE CloseFile
  BY <1>17 DEF CloseFile
<1>18. CASE JoinPpsThread
  BY <1>18 DEF JoinPpsThread, Joined
<1>19. CASE CleanupNtpUpdater
  BY <1>19 DEF CleanupNtpUpdater
<1>20. CASE CleanupSerialHandler
  BY <1>20 DEF CleanupSerialHandler
<1>21. CASE PpsTest
  BY <1>21 DEF PpsTest
<1>22. CASE PpsTimeout
  BY <1>22 DEF PpsTimeout
<1>23. CASE PpsLoadValid
  BY <1>23 DEF PpsLoadValid
<1>24. CASE PpsLoadMsg
  BY <1>24 DEF PpsLoadMsg
<1>25. CASE FeedNtp
  BY <1>25 DEF FeedNtp, AfterFeed
<1>26. CASE ClearValid
  BY <1>26 DEF ClearValid
<1>27. CASE DeleteMsg
  BY <1>27 DEF DeleteMsg
<1>28. CASE ClearMsg
  BY <1>28 DEF ClearMsg
<1>29. CASE \E wake \in BOOLEAN : NewSecond(wake)
  BY <1>29 DEF NewSecond
<1>30. CASE Report
  BY <1>30 DEF Report
<1>31. CASE ModemLocated
  BY <1>31 DEF ModemLocated
<1>32. CASE Terminate
  BY <1>32 DEF Terminate
<1>33. CASE UNCHANGED vars
  BY <1>33 DEF vars
<1> QED
  BY <1>1, <1>2, <1>3, <1>4, <1>5, <1>6, <1>7, <1>8, <1>9, <1>10, <1>11, <1>12, <1>13, <1>14, <1>15, <1>16, <1>17, <1>18, <1>19, <1>20, <1>21, <1>22, <1>23, <1>24, <1>25, <1>26, <1>27, <1>28, <1>29, <1>30, <1>31, <1>32, <1>33
     DEF Next, MainStep, PpsStep, Environment

\* Every variable keeps its type (GpsLogger!TypeOK).
THEOREM TypeCorrect == Spec => []TypeOK
<1>1. TypeOK /\ HandoffInv /\ [Next]_vars => (TypeOK /\ HandoffInv)'
  BY StepTyped, StepHandoff DEF HandoffInv
<1> QED
  BY <1>1, InitTyped, InitHandoff, PTL DEF Spec

\* Who owns the slot and its message at each pair of places of the threads
\* (main.cpp:82-90, 267-271): what the hand-over's properties follow from.
THEOREM HandoffInvariant == Spec => []HandoffInv
<1>1. TypeOK /\ HandoffInv /\ [Next]_vars => (TypeOK /\ HandoffInv)'
  BY StepTyped, StepHandoff DEF HandoffInv
<1> QED
  BY <1>1, InitTyped, InitHandoff, PTL DEF Spec

\* The hand-over of a message between the threads is safe whatever order the build
\* gives its plain loads and stores (main.cpp:82-90, 267-271).
THEOREM HandoffCorrect == Spec => []HandoffSafe
<1>1. TypeOK /\ HandoffInv => HandoffSafe
  BY CopiesAssumption DEF TypeOK, HandoffInv, PublishInv, OwnerInv, DrainInv, HandoffSafe
<1> QED
  BY <1>1, TypeCorrect, HandoffInvariant, PTL

-----------------------------------------------------------------------------
(* The time.                                                               *)

LEMMA InitTime == Init => TimeInv
  BY DEF Init, TimeInv, SentenceInv, FeedInv

LEMMA StepSentence == TypeOK /\ SentenceInv /\ [Next]_vars => SentenceInv'
<1> SUFFICES ASSUME TypeOK, SentenceInv, [Next]_vars PROVE SentenceInv'
  OBVIOUS
<1> USE DEF TypeOK, SentenceInv, gpsVars
<1>1. CASE OpenPort
  BY <1>1 DEF OpenPort
<1>2. CASE OpenPPSPort
  BY <1>2 DEF OpenPPSPort
<1>3. CASE AttachSegment
  BY <1>3 DEF AttachSegment
<1>4. CASE OpenLogFile
  BY <1>4 DEF OpenLogFile
<1>5. CASE FlushPort
  BY <1>5, EmptySeq DEF FlushPort
<1>6. CASE PollModem
  BY <1>6 DEF PollModem
<1>7. CASE SendAid
  BY <1>7 DEF SendAid
<1>8. CASE SpawnPpsThread
  BY <1>8 DEF SpawnPpsThread
<1>9. CASE TestRunning
  BY <1>9 DEF TestRunning
<1>10. CASE ReadSentence
  <2>1. /\ Head(uart) = uart[1] /\ Len(uart) \in Nat \ {0}
        /\ Len(uart') = Len(uart) - 1
        /\ \A i \in 1 .. Len(uart') : uart'[i] = uart[i + 1]
    BY <1>10, HeadTailProperties, EmptySeq DEF ReadSentence
  <2>2. \A i \in 1 .. Len(uart') : uart'[i].kind = "fix" => uart'[i].sec # 0
    BY <2>1
  <2>3. Head(uart).kind = "fix" => Head(uart).sec # 0
    BY <2>1
  <2> QED
    BY <1>10, <2>2, <2>3 DEF ReadSentence, WithFix
<1>11. CASE Locate
  BY <1>11 DEF Locate
<1>12. CASE LoadSlotMsg
  BY <1>12 DEF LoadSlotMsg, MsgSet
<1>13. CASE LoadSlotValid
  BY <1>13 DEF LoadSlotValid
<1>14. CASE AllocateCopy
  BY <1>14 DEF AllocateCopy
<1>15. CASE Publish
  BY <1>15 DEF Publish, PublishStore
<1>16. CASE WriteLog
  BY <1>16 DEF WriteLog
<1>17. CASE CloseFile
  BY <1>17 DEF CloseFile
<1>18. CASE JoinPpsThread
  BY <1>18 DEF JoinPpsThread
<1>19. CASE CleanupNtpUpdater
  BY <1>19 DEF CleanupNtpUpdater
<1>20. CASE CleanupSerialHandler
  BY <1>20 DEF CleanupSerialHandler
<1>21. CASE PpsTest
  BY <1>21 DEF PpsTest
<1>22. CASE PpsTimeout
  BY <1>22 DEF PpsTimeout
<1>23. CASE PpsLoadValid
  BY <1>23 DEF PpsLoadValid
<1>24. CASE PpsLoadMsg
  BY <1>24 DEF PpsLoadMsg
<1>25. CASE FeedNtp
  BY <1>25 DEF FeedNtp
<1>26. CASE ClearValid
  BY <1>26 DEF ClearValid
<1>27. CASE DeleteMsg
  BY <1>27 DEF DeleteMsg
<1>28. CASE ClearMsg
  BY <1>28 DEF ClearMsg
<1>29. CASE \E wake \in BOOLEAN : NewSecond(wake)
  BY <1>29 DEF NewSecond, Times
<1>30. CASE Report
  <2>1. PICK kind \in {"fix", "nofix", "other"} :
          /\ uart' = Append(uart, [kind |-> kind, sec |-> second])
          /\ kind = "fix" => due
    BY <1>30 DEF Report
  <2>2. /\ Len(uart) \in Nat /\ Len(uart') = Len(uart) + 1
        /\ \A i \in 1 .. Len(uart) : uart'[i] = uart[i]
        /\ uart'[Len(uart) + 1] = [kind |-> kind, sec |-> second]
    BY <2>1, AppendProperties, LenProperties DEF Sentences
  <2>3. \A i \in 1 .. Len(uart') : uart'[i].kind = "fix" => uart'[i].sec # 0
    BY <2>1, <2>2
  <2> QED
    BY <1>30, <2>3 DEF Report
<1>31. CASE ModemLocated
  BY <1>31 DEF ModemLocated
<1>32. CASE Terminate
  BY <1>32 DEF Terminate
<1>33. CASE UNCHANGED vars
  BY <1>33 DEF vars
<1> QED
  BY <1>1, <1>2, <1>3, <1>4, <1>5, <1>6, <1>7, <1>8, <1>9, <1>10, <1>11, <1>12, <1>13, <1>14, <1>15, <1>16, <1>17, <1>18, <1>19, <1>20, <1>21, <1>22, <1>23, <1>24, <1>25, <1>26, <1>27, <1>28, <1>29, <1>30, <1>31, <1>32, <1>33
     DEF Next, MainStep, PpsStep, Environment

LEMMA StepFeed == TypeOK /\ HandoffInv /\ TimeInv /\ SourceOrder /\ [Next]_vars => FeedInv'
<1> SUFFICES ASSUME TypeOK, HandoffInv, SentenceInv, FeedInv, SourceOrder, [Next]_vars
             PROVE  FeedInv'
  BY DEF TimeInv
<1> USE CopiesAssumption DEF TypeOK, SentenceInv, HandoffInv, PublishInv, OwnerInv, DrainInv,
                            LifeInv, FeedInv, slotVars, gpsVars
<1>1. CASE OpenPort
  BY <1>1 DEF OpenPort
<1>2. CASE OpenPPSPort
  BY <1>2 DEF OpenPPSPort
<1>3. CASE AttachSegment
  BY <1>3 DEF AttachSegment
<1>4. CASE OpenLogFile
  BY <1>4 DEF OpenLogFile
<1>5. CASE FlushPort
  BY <1>5 DEF FlushPort
<1>6. CASE PollModem
  BY <1>6 DEF PollModem
<1>7. CASE SendAid
  BY <1>7 DEF SendAid
<1>8. CASE SpawnPpsThread
  BY <1>8 DEF SpawnPpsThread
<1>9. CASE TestRunning
  BY <1>9 DEF TestRunning
<1>10. CASE ReadSentence
  BY <1>10 DEF ReadSentence, WithFix
<1>11. CASE Locate
  BY <1>11 DEF Locate
<1>12. CASE LoadSlotMsg
  BY <1>12 DEF LoadSlotMsg, MsgSet
<1>13. CASE LoadSlotValid
  BY <1>13 DEF LoadSlotValid
<1>14. CASE AllocateCopy
  BY <1>14 DEF AllocateCopy
<1>15. CASE Publish
  <2> SUFFICES ASSUME NEW x \in {"content", "msg", "valid"}, PublishStore(x)
               PROVE  FeedInv'
    BY <1>15 DEF Publish
  <2>1. /\ main = "publish" /\ x \in unstored /\ unstored' = unstored \ {x}
        /\ \A y \in unstored : StoreOrder[x] <= StoreOrder[y]
        /\ content' = IF x = "content" THEN [content EXCEPT ![copy] = rmc] ELSE content
        /\ msgValid' = IF x = "valid" THEN TRUE ELSE msgValid
        /\ disturbed' = (disturbed \/ (x = "valid" /\ Late))
        /\ UNCHANGED <<pps, copy, rmc, second, fed>>
    BY DEF PublishStore, NextStore
  <2>2. CASE x = "content"
    BY <2>1, <2>2
  <2>3. CASE x = "msg"
    BY <2>1, <2>3 DEF StoreOrder
  <2>4. CASE x = "valid"
    <3>1. unstored' = {}
      BY <2>1, <2>4 DEF StoreOrder
    <3>2. content[copy] = rmc /\ content' = content /\ ~msgValid
      BY <2>1, <2>4, <3>1
    <3> QED
      BY <2>1, <2>4, <3>1, <3>2 DEF Late
  <2> QED
    BY <2>2, <2>3, <2>4
<1>16. CASE WriteLog
  BY <1>16 DEF WriteLog
<1>17. CASE CloseFile
  BY <1>17 DEF CloseFile
<1>18. CASE JoinPpsThread
  BY <1>18 DEF JoinPpsThread
<1>19. CASE CleanupNtpUpdater
  BY <1>19 DEF CleanupNtpUpdater
<1>20. CASE CleanupSerialHandler
  BY <1>20 DEF CleanupSerialHandler
<1>21. CASE PpsTest
  BY <1>21 DEF PpsTest
<1>22. CASE PpsTimeout
  BY <1>22 DEF PpsTimeout
<1>23. CASE PpsLoadValid
  BY <1>23 DEF PpsLoadValid
<1>24. CASE PpsLoadMsg
  BY <1>24 DEF PpsLoadMsg
<1>25. CASE FeedNtp
  BY <1>25 DEF FeedNtp, AfterFeed, TimeAtPulse
<1>26. CASE ClearValid
  BY <1>26 DEF ClearValid
<1>27. CASE DeleteMsg
  BY <1>27 DEF DeleteMsg
<1>28. CASE ClearMsg
  BY <1>28 DEF ClearMsg
<1>29. CASE \E wake \in BOOLEAN : NewSecond(wake)
  BY <1>29 DEF NewSecond, Times
<1>30. CASE Report
  BY <1>30 DEF Report
<1>31. CASE ModemLocated
  BY <1>31 DEF ModemLocated
<1>32. CASE Terminate
  BY <1>32 DEF Terminate
<1>33. CASE UNCHANGED vars
  BY <1>33 DEF vars
<1> QED
  BY <1>1, <1>2, <1>3, <1>4, <1>5, <1>6, <1>7, <1>8, <1>9, <1>10, <1>11, <1>12, <1>13, <1>14, <1>15, <1>16, <1>17, <1>18, <1>19, <1>20, <1>21, <1>22, <1>23, <1>24, <1>25, <1>26, <1>27, <1>28, <1>29, <1>30, <1>31, <1>32, <1>33
     DEF Next, MainStep, PpsStep, Environment

\* What the sentences, the slot and the last time fed hold against the true second
\* (main.cpp:80-90, 250-271).
THEOREM TimeInvariant == Spec => [](TypeOK /\ HandoffInv /\ TimeInv)
<1>1. TypeOK /\ HandoffInv /\ TimeInv /\ [Next]_vars => (TypeOK /\ HandoffInv /\ TimeInv)'
  <2>1. TypeOK /\ HandoffInv /\ TimeInv /\ [Next]_vars => TypeOK' /\ HandoffInv' /\ SentenceInv'
    BY StepTyped, StepHandoff, StepSentence DEF HandoffInv, TimeInv
  <2>2. CASE SourceOrder
    BY <2>1, <2>2, StepFeed DEF TimeInv
  <2>3. CASE ~SourceOrder
    BY <2>1, <2>3 DEF TimeInv
  <2> QED
    BY <2>2, <2>3
<1> QED
  BY <1>1, InitTyped, InitHandoff, InitTime, PTL DEF Spec

\* In source order only finished messages are fed and no store lands in freed memory.
THEOREM WholeMessageCorrect == Spec => []WholeMessage
<1>1. TypeOK /\ HandoffInv /\ TimeInv => WholeMessage
  BY CopiesAssumption DEF TypeOK, HandoffInv, PublishInv, OwnerInv, DrainInv, TimeInv, FeedInv,
                          WholeMessage
<1> QED
  BY <1>1, TimeInvariant, PTL

\* The time fed is the true one unless a named disturbance happened.
THEOREM FeedRightCorrect == Spec => []FeedRight
<1>1. TimeInv => FeedRight
  BY DEF TimeInv, FeedInv, FeedRight
<1> QED
  BY <1>1, TimeInvariant, PTL

\* The singletons the PPS thread uses outlive it, and it does not outlive main.
THEOREM OutlivesPpsThreadCorrect == Spec => []OutlivesPpsThread
<1>1. TypeOK /\ HandoffInv => OutlivesPpsThread
  BY DEF TypeOK, HandoffInv, LifeInv, OutlivesPpsThread
<1> QED
  BY <1>1, HandoffInvariant, TypeCorrect, PTL

-----------------------------------------------------------------------------
(* The order of seconds.                                                   *)

LEMMA InitOrder == Init => OrderInv
  BY DEF Init, OrderInv, ReadOrderInv, LocatedInv, FedOrderInv, Times

LEMMA SentenceSeconds == TypeOK => \A i \in 1 .. Len(uart) : uart[i].sec \in Nat
<1> SUFFICES ASSUME TypeOK, NEW i \in 1 .. Len(uart) PROVE uart[i].sec \in Nat
  OBVIOUS
<1>1. uart[i] \in Sentences
  BY ElementOfSeq DEF TypeOK
<1> QED
  BY <1>1 DEF Sentences, Times

LEMMA StepReadOrder == TypeOK /\ ReadOrderInv /\ [Next]_vars => ReadOrderInv'
<1> SUFFICES ASSUME TypeOK, ReadOrderInv, [Next]_vars PROVE ReadOrderInv'
  OBVIOUS
<1> USE DEF TypeOK, ReadOrderInv, gpsVars, Times
<1>1. CASE OpenPort
  BY <1>1 DEF OpenPort
<1>2. CASE OpenPPSPort
  BY <1>2 DEF OpenPPSPort
<1>3. CASE AttachSegment
  BY <1>3 DEF AttachSegment
<1>4. CASE OpenLogFile
  BY <1>4 DEF OpenLogFile
<1>5. CASE FlushPort
  BY <1>5, EmptySeq DEF FlushPort
<1>6. CASE PollModem
  BY <1>6 DEF PollModem
<1>7. CASE SendAid
  BY <1>7 DEF SendAid
<1>8. CASE SpawnPpsThread
  BY <1>8 DEF SpawnPpsThread
<1>9. CASE TestRunning
  BY <1>9 DEF TestRunning
<1>10. CASE ReadSentence
  <2>1. /\ Head(uart) = uart[1] /\ Len(uart) \in Nat \ {0}
        /\ Len(uart') = Len(uart) - 1
        /\ \A i \in 1 .. Len(uart') : uart'[i] = uart[i + 1]
    BY <1>10, HeadTailProperties, EmptySeq DEF ReadSentence
  <2>2. \A i \in 1 .. Len(uart) : uart[i].sec \in Nat
    BY SentenceSeconds
  <2>3. /\ UNCHANGED <<second, due>>
        /\ rmc' = IF Head(uart).kind = "fix" THEN Head(uart).sec ELSE rmc
    BY <1>10 DEF ReadSentence
  <2>4. ASSUME NEW i \in 1 .. Len(uart'), uart'[i].kind = "fix"
        PROVE  /\ rmc' < uart'[i].sec /\ uart'[i].sec <= second'
               /\ due' => uart'[i].sec < second'
               /\ \A j \in 1 .. i - 1 : uart'[j].kind = "fix" => uart'[j].sec < uart'[i].sec
    <3>1. i + 1 \in 1 .. Len(uart) /\ 1 \in 1 .. (i + 1) - 1
      BY <2>1
    <3>2. rmc' < uart'[i].sec
      BY <2>1, <2>2, <2>3, <2>4, <3>1
    <3>3. uart'[i].sec <= second' /\ (due' => uart'[i].sec < second')
      BY <2>1, <2>3, <2>4, <3>1
    <3>4. ASSUME NEW j \in 1 .. i - 1, uart'[j].kind = "fix"
          PROVE  uart'[j].sec < uart'[i].sec
      <4>1. j + 1 \in 1 .. (i + 1) - 1 /\ j \in 1 .. Len(uart')
        BY <2>1
      <4> QED
        BY <2>1, <2>4, <3>1, <3>4, <4>1
    <3> QED
      BY <3>2, <3>3, <3>4
  <2> QED
    BY <2>1, <2>3, <2>4
<1>11. CASE Locate
  BY <1>11 DEF Locate
<1>12. CASE LoadSlotMsg
  BY <1>12 DEF LoadSlotMsg, MsgSet
<1>13. CASE LoadSlotValid
  BY <1>13 DEF LoadSlotValid
<1>14. CASE AllocateCopy
  BY <1>14 DEF AllocateCopy
<1>15. CASE Publish
  BY <1>15 DEF Publish, PublishStore
<1>16. CASE WriteLog
  BY <1>16 DEF WriteLog
<1>17. CASE CloseFile
  BY <1>17 DEF CloseFile
<1>18. CASE JoinPpsThread
  BY <1>18 DEF JoinPpsThread
<1>19. CASE CleanupNtpUpdater
  BY <1>19 DEF CleanupNtpUpdater
<1>20. CASE CleanupSerialHandler
  BY <1>20 DEF CleanupSerialHandler
<1>21. CASE PpsTest
  BY <1>21 DEF PpsTest
<1>22. CASE PpsTimeout
  BY <1>22 DEF PpsTimeout
<1>23. CASE PpsLoadValid
  BY <1>23 DEF PpsLoadValid
<1>24. CASE PpsLoadMsg
  BY <1>24 DEF PpsLoadMsg
<1>25. CASE FeedNtp
  BY <1>25 DEF FeedNtp
<1>26. CASE ClearValid
  BY <1>26 DEF ClearValid
<1>27. CASE DeleteMsg
  BY <1>27 DEF DeleteMsg
<1>28. CASE ClearMsg
  BY <1>28 DEF ClearMsg
<1>29. CASE \E wake \in BOOLEAN : NewSecond(wake)
  <2>1. \A i \in 1 .. Len(uart) : uart[i].sec \in Nat
    BY SentenceSeconds
  <2>2. second' = second + 1 /\ uart' = uart /\ rmc' = rmc
    BY <1>29 DEF NewSecond
  <2>3. ASSUME NEW i \in 1 .. Len(uart'), uart'[i].kind = "fix"
        PROVE  /\ rmc' < uart'[i].sec /\ uart'[i].sec < second'
               /\ \A j \in 1 .. i - 1 : uart'[j].kind = "fix" => uart'[j].sec < uart'[i].sec
    BY <2>1, <2>2, <2>3
  <2>4. rmc' < second'
    BY <2>2
  <2> QED
    BY <2>1, <2>2, <2>3, <2>4
<1>30. CASE Report
  <2>1. PICK kind \in {"fix", "nofix", "other"} :
          /\ uart' = Append(uart, [kind |-> kind, sec |-> second])
          /\ kind = "fix" => due /\ ~due'
          /\ due' => due
          /\ UNCHANGED <<rmc, second>>
    BY <1>30 DEF Report
  <2>2. /\ Len(uart) \in Nat /\ Len(uart') = Len(uart) + 1
        /\ \A i \in 1 .. Len(uart) : uart'[i] = uart[i]
        /\ uart'[Len(uart) + 1] = [kind |-> kind, sec |-> second]
    BY <2>1, AppendProperties, LenProperties DEF Sentences
  <2>3. ASSUME NEW i \in 1 .. Len(uart'), uart'[i].kind = "fix"
        PROVE  /\ rmc' < uart'[i].sec /\ uart'[i].sec <= second'
               /\ due' => uart'[i].sec < second'
               /\ \A j \in 1 .. i - 1 : uart'[j].kind = "fix" => uart'[j].sec < uart'[i].sec
    <3>1. CASE i = Len(uart) + 1
      BY <2>1, <2>2, <2>3, <3>1
    <3>2. CASE i \in 1 .. Len(uart)
      BY <2>1, <2>2, <2>3, <3>2
    <3> QED
      BY <2>2, <3>1, <3>2
  <2> QED
    BY <2>1, <2>3
<1>31. CASE ModemLocated
  BY <1>31 DEF ModemLocated
<1>32. CASE Terminate
  BY <1>32 DEF Terminate
<1>33. CASE UNCHANGED vars
  BY <1>33 DEF vars
<1> QED
  BY <1>1, <1>2, <1>3, <1>4, <1>5, <1>6, <1>7, <1>8, <1>9, <1>10, <1>11, <1>12, <1>13, <1>14, <1>15, <1>16, <1>17, <1>18, <1>19, <1>20, <1>21, <1>22, <1>23, <1>24, <1>25, <1>26, <1>27, <1>28, <1>29, <1>30, <1>31, <1>32, <1>33
     DEF Next, MainStep, PpsStep, Environment

\* The sentence taken in hand is newer than the one before.
LEMMA ReadAdvances ==
  ASSUME TypeOK, ReadOrderInv, ReadSentence
  PROVE  \/ main' \in {"loop", "crashed"} /\ rmc' = rmc
         \/ main' = "locate" /\ rmc' \in Nat /\ rmc < rmc'
<1>1. Head(uart) = uart[1] /\ 1 \in 1 .. Len(uart)
  BY HeadTailProperties, EmptySeq DEF TypeOK, ReadSentence
<1>2. uart[1].sec \in Nat
  BY <1>1, SentenceSeconds
<1> QED
  BY <1>1, <1>2 DEF ReadSentence, ReadOrderInv, WithFix

LEMMA StepLocated == TypeOK /\ ReadOrderInv /\ LocatedInv /\ [Next]_vars => LocatedInv'
<1> SUFFICES ASSUME TypeOK, ReadOrderInv, LocatedInv, [Next]_vars PROVE LocatedInv'
  OBVIOUS
<1> USE DEF TypeOK, LocatedInv, slotVars, Times
<1>1. CASE OpenPort
  BY <1>1 DEF OpenPort
<1>2. CASE OpenPPSPort
  BY <1>2 DEF OpenPPSPort
<1>3. CASE AttachSegment
  BY <1>3 DEF AttachSegment
<1>4. CASE OpenLogFile
  BY <1>4 DEF OpenLogFile
<1>5. CASE FlushPort
  BY <1>5 DEF FlushPort
<1>6. CASE PollModem
  BY <1>6 DEF PollModem
<1>7. CASE SendAid
  BY <1>7 DEF SendAid
<1>8. CASE SpawnPpsThread
  BY <1>8 DEF SpawnPpsThread
<1>9. CASE TestRunning
  BY <1>9 DEF TestRunning
<1>10. CASE ReadSentence
  BY <1>10, ReadAdvances DEF ReadSentence
<1>11. CASE Locate
  BY <1>11 DEF Locate
<1>12. CASE LoadSlotMsg
  BY <1>12 DEF LoadSlotMsg, MsgSet
<1>13. CASE LoadSlotValid
  BY <1>13 DEF LoadSlotValid
<1>14. CASE AllocateCopy
  BY <1>14 DEF AllocateCopy
<1>15. CASE Publish
  BY <1>15 DEF Publish, PublishStore
<1>16. CASE WriteLog
  BY <1>16 DEF WriteLog
<1>17. CASE CloseFile
  BY <1>17 DEF CloseFile
<1>18. CASE JoinPpsThread
  BY <1>18 DEF JoinPpsThread
<1>19. CASE CleanupNtpUpdater
  BY <1>19 DEF CleanupNtpUpdater
<1>20. CASE CleanupSerialHandler
  BY <1>20 DEF CleanupSerialHandler
<1>21. CASE PpsTest
  BY <1>21 DEF PpsTest
<1>22. CASE PpsTimeout
  BY <1>22 DEF PpsTimeout
<1>23. CASE PpsLoadValid
  BY <1>23 DEF PpsLoadValid
<1>24. CASE PpsLoadMsg
  BY <1>24 DEF PpsLoadMsg
<1>25. CASE FeedNtp
  BY <1>25 DEF FeedNtp
<1>26. CASE ClearValid
  BY <1>26 DEF ClearValid
<1>27. CASE DeleteMsg
  BY <1>27 DEF DeleteMsg
<1>28. CASE ClearMsg
  BY <1>28 DEF ClearMsg
<1>29. CASE \E wake \in BOOLEAN : NewSecond(wake)
  BY <1>29 DEF NewSecond
<1>30. CASE Report
  BY <1>30 DEF Report
<1>31. CASE ModemLocated
  BY <1>31 DEF ModemLocated
<1>32. CASE Terminate
  BY <1>32 DEF Terminate
<1>33. CASE UNCHANGED vars
  BY <1>33 DEF vars
<1> QED
  BY <1>1, <1>2, <1>3, <1>4, <1>5, <1>6, <1>7, <1>8, <1>9, <1>10, <1>11, <1>12, <1>13, <1>14, <1>15, <1>16, <1>17, <1>18, <1>19, <1>20, <1>21, <1>22, <1>23, <1>24, <1>25, <1>26, <1>27, <1>28, <1>29, <1>30, <1>31, <1>32, <1>33
     DEF Next, MainStep, PpsStep, Environment

LEMMA StepFedOrder ==
  TypeOK /\ HandoffInv /\ TimeInv /\ ReadOrderInv /\ FedOrderInv /\ SourceOrder /\ [Next]_vars
    => FedOrderInv'
<1> SUFFICES ASSUME TypeOK, HandoffInv, FeedInv, ReadOrderInv, FedOrderInv, SourceOrder,
                    [Next]_vars
             PROVE  FedOrderInv'
  BY DEF TimeInv
<1> USE CopiesAssumption DEF TypeOK, HandoffInv, PublishInv, OwnerInv, DrainInv, LifeInv,
                            FedOrderInv, slotVars, Times
<1>1. CASE OpenPort
  BY <1>1 DEF OpenPort
<1>2. CASE OpenPPSPort
  BY <1>2 DEF OpenPPSPort
<1>3. CASE AttachSegment
  BY <1>3 DEF AttachSegment
<1>4. CASE OpenLogFile
  BY <1>4 DEF OpenLogFile
<1>5. CASE FlushPort
  BY <1>5 DEF FlushPort
<1>6. CASE PollModem
  BY <1>6 DEF PollModem
<1>7. CASE SendAid
  BY <1>7 DEF SendAid
<1>8. CASE SpawnPpsThread
  BY <1>8 DEF SpawnPpsThread
<1>9. CASE TestRunning
  BY <1>9 DEF TestRunning
<1>10. CASE ReadSentence
  BY <1>10, ReadAdvances DEF ReadSentence
<1>11. CASE Locate
  BY <1>11 DEF Locate
<1>12. CASE LoadSlotMsg
  BY <1>12 DEF LoadSlotMsg, MsgSet
<1>13. CASE LoadSlotValid
  BY <1>13 DEF LoadSlotValid
<1>14. CASE AllocateCopy
  BY <1>14 DEF AllocateCopy
<1>15. CASE Publish
  <2> SUFFICES ASSUME NEW x \in {"content", "msg", "valid"}, PublishStore(x)
               PROVE  FedOrderInv'
    BY <1>15 DEF Publish
  <2>1. /\ main = "publish" /\ x \in unstored /\ unstored' = unstored \ {x}
        /\ \A y \in unstored : StoreOrder[x] <= StoreOrder[y]
        /\ content' = IF x = "content" THEN [content EXCEPT ![copy] = rmc] ELSE content
        /\ msgValid' = IF x = "valid" THEN TRUE ELSE msgValid
        /\ UNCHANGED <<pps, copy, rmc, fed>>
    BY DEF PublishStore, NextStore
  <2>2. main' \in {"publish", "log"}
    BY DEF PublishStore
  <2>3. CASE x = "valid"
    <3>1. content[copy] = rmc /\ content' = content
      BY <2>1, <2>3 DEF StoreOrder, FeedInv
    <3> QED
      BY <2>1, <2>2, <2>3, <3>1
  <2>4. CASE x # "valid"
    <3>1. ~msgValid
      BY <2>1, <2>4 DEF FeedInv
    <3> QED
      BY <2>1, <2>2, <2>4, <3>1
  <2> QED
    BY <2>3, <2>4
<1>16. CASE WriteLog
  BY <1>16 DEF WriteLog
<1>17. CASE CloseFile
  BY <1>17 DEF CloseFile
<1>18. CASE JoinPpsThread
  BY <1>18 DEF JoinPpsThread
<1>19. CASE CleanupNtpUpdater
  BY <1>19 DEF CleanupNtpUpdater
<1>20. CASE CleanupSerialHandler
  BY <1>20 DEF CleanupSerialHandler
<1>21. CASE PpsTest
  BY <1>21 DEF PpsTest
<1>22. CASE PpsTimeout
  BY <1>22 DEF PpsTimeout
<1>23. CASE PpsLoadValid
  BY <1>23 DEF PpsLoadValid
<1>24. CASE PpsLoadMsg
  BY <1>24 DEF PpsLoadMsg
<1>25. CASE FeedNtp
  <2>1. loaded = copy /\ copy \in Copies /\ msgValid /\ main # "publish"
    BY <1>25 DEF FeedNtp, FeedInv
  <2>2. content[copy] \in Nat /\ fed.clock \in Nat /\ rmc \in Nat
    BY <2>1
  <2>3. fed'.clock = content[copy] + 1 \/ fed' = fed
    BY <1>25, <2>1 DEF FeedNtp, TimeAtPulse
  <2>4. pps' = "clear" /\ UNCHANGED <<main, rmc, slotVars>>
    BY <1>25 DEF FeedNtp, AfterFeed
  <2> QED
    BY <2>1, <2>2, <2>3, <2>4
<1>26. CASE ClearValid
  BY <1>26 DEF ClearValid
<1>27. CASE DeleteMsg
  BY <1>27 DEF DeleteMsg
<1>28. CASE ClearMsg
  BY <1>28 DEF ClearMsg
<1>29. CASE \E wake \in BOOLEAN : NewSecond(wake)
  BY <1>29 DEF NewSecond
<1>30. CASE Report
  BY <1>30 DEF Report
<1>31. CASE ModemLocated
  BY <1>31 DEF ModemLocated
<1>32. CASE Terminate
  BY <1>32 DEF Terminate
<1>33. CASE UNCHANGED vars
  BY <1>33 DEF vars
<1> QED
  BY <1>1, <1>2, <1>3, <1>4, <1>5, <1>6, <1>7, <1>8, <1>9, <1>10, <1>11, <1>12, <1>13, <1>14, <1>15, <1>16, <1>17, <1>18, <1>19, <1>20, <1>21, <1>22, <1>23, <1>24, <1>25, <1>26, <1>27, <1>28, <1>29, <1>30, <1>31, <1>32, <1>33
     DEF Next, MainStep, PpsStep, Environment

\* The sentences waiting, in hand and fed are in the order of their seconds
\* (main.cpp:225-271).
THEOREM OrderInvariant == Spec => [](TypeOK /\ HandoffInv /\ TimeInv /\ OrderInv)
<1>1. TypeOK /\ HandoffInv /\ TimeInv /\ OrderInv /\ [Next]_vars => OrderInv'
  <2>1. CASE SourceOrder
    BY <2>1, StepReadOrder, StepLocated, StepFedOrder DEF OrderInv
  <2>2. CASE ~SourceOrder
    BY <2>2, StepReadOrder, StepLocated DEF OrderInv
  <2> QED
    BY <2>1, <2>2
<1> QED
  BY <1>1, InitOrder, TimeInvariant, PTL DEF Spec

\* Only one action gives ntpd a time.
LEMMA OnlyFeedNtp == [Next]_vars /\ fed' # fed => FeedNtp
  BY DEF Next, MainStep, PpsStep, Environment, vars, slotVars, lifeVars, gpsVars,
         OpenPort, OpenPPSPort, AttachSegment, OpenLogFile, FlushPort, PollModem, SendAid,
         SpawnPpsThread, TestRunning, ReadSentence, Locate, LoadSlotMsg, LoadSlotValid,
         AllocateCopy, Publish, PublishStore, WriteLog, CloseFile, JoinPpsThread,
         CleanupNtpUpdater, CleanupSerialHandler, PpsTest, PpsTimeout, PpsLoadValid,
         PpsLoadMsg, ClearValid, DeleteMsg, ClearMsg, NewSecond, Report, ModemLocated,
         Terminate

\* The time fed never goes back and no message is fed twice.
THEOREM FedOnceCorrect == Spec => FedOnce
<1>1. TypeOK /\ HandoffInv /\ TimeInv /\ OrderInv /\ [Next]_vars
        => [fed' # fed /\ SourceOrder => fed'.clock > fed.clock]_vars
  <2> SUFFICES ASSUME TypeOK, HandoffInv, OrderInv, [Next]_vars, fed' # fed, SourceOrder
               PROVE  fed'.clock > fed.clock
    OBVIOUS
  <2>1. FeedNtp
    BY OnlyFeedNtp
  <2>2. loaded = copy /\ msgValid /\ content[copy] \in Nat /\ fed.clock \in Nat
    BY <2>1 DEF FeedNtp, HandoffInv, OwnerInv, DrainInv, TypeOK, Times
  <2> QED
    BY <2>1, <2>2 DEF FeedNtp, TimeAtPulse, OrderInv, FedOrderInv
<1> QED
  BY <1>1, OrderInvariant, PTL DEF Spec, FedOnce

\* ntpd never gets a time whose position is not in the location segment yet.
THEOREM LocatedFirstCorrect == Spec => LocatedFirst
<1>1. TypeOK /\ HandoffInv /\ OrderInv /\ [Next]_vars => [fed' # fed => fed'.clock <= segment + 1]_vars
  <2> SUFFICES ASSUME TypeOK, HandoffInv, OrderInv, [Next]_vars, fed' # fed
               PROVE  fed'.clock <= segment + 1
    OBVIOUS
  <2>1. FeedNtp
    BY OnlyFeedNtp
  <2>2. loaded \in Copies /\ content[loaded] \in Nat /\ segment \in Nat
    BY <2>1 DEF FeedNtp, HandoffInv, DrainInv, TypeOK, Times
  <2> QED
    BY <2>1, <2>2 DEF FeedNtp, TimeAtPulse, OrderInv, LocatedInv
<1> QED
  BY <1>1, OrderInvariant, PTL DEF Spec, LocatedFirst

-----------------------------------------------------------------------------
(* The refinement.                                                         *)

LEMMA StepSlot ==
  ASSUME TypeOK, HandoffInv, TimeInv, OrderInv, SourceOrder, [Next]_vars
  PROVE  [Slot!Next]_(Slot!vars)
<1>1. FeedInv /\ FedOrderInv
  BY DEF TimeInv, OrderInv
<1> USE <1>1, CopiesAssumption
    DEF SlotState, SlotMsg, Slot!vars, HandoffInv, PublishInv, OwnerInv, DrainInv, LifeInv, FeedInv,
        slotVars
<1>2. CASE OpenPort
  BY <1>2 DEF OpenPort
<1>3. CASE OpenPPSPort
  BY <1>3 DEF OpenPPSPort
<1>4. CASE AttachSegment
  BY <1>4 DEF AttachSegment
<1>5. CASE OpenLogFile
  BY <1>5 DEF OpenLogFile
<1>6. CASE FlushPort
  BY <1>6 DEF FlushPort
<1>7. CASE PollModem
  BY <1>7 DEF PollModem
<1>8. CASE SendAid
  BY <1>8 DEF SendAid
<1>9. CASE SpawnPpsThread
  BY <1>9 DEF SpawnPpsThread
<1>10. CASE TestRunning
  BY <1>10 DEF TestRunning
<1>11. CASE ReadSentence
  BY <1>11 DEF ReadSentence
<1>12. CASE Locate
  BY <1>12 DEF Locate
<1>13. CASE LoadSlotMsg
  BY <1>13 DEF LoadSlotMsg, MsgSet
<1>14. CASE LoadSlotValid
  BY <1>14 DEF LoadSlotValid
<1>15. CASE AllocateCopy
  BY <1>15 DEF AllocateCopy
<1>16. CASE Publish
  <2> SUFFICES ASSUME NEW x \in {"content", "msg", "valid"}, PublishStore(x)
               PROVE  [Slot!Next]_(Slot!vars)
    BY <1>16 DEF Publish
  <2>1. /\ main = "publish" /\ x \in unstored /\ unstored' = unstored \ {x}
        /\ \A y \in unstored : StoreOrder[x] <= StoreOrder[y]
        /\ content' = IF x = "content" THEN [content EXCEPT ![copy] = rmc] ELSE content
        /\ rmcMsg' = IF x = "msg" THEN copy ELSE rmcMsg
        /\ msgValid' = IF x = "valid" THEN TRUE ELSE msgValid
        /\ UNCHANGED <<pps, copy, fed>>
    BY DEF PublishStore, NextStore
  <2>2. "valid" \in unstored
    BY <2>1
  <2>3. SlotState = "empty" /\ SlotMsg = 0
    BY <2>2
  <2>4. CASE x = "valid"
    <3>1. content[copy] = rmc /\ content' = content /\ rmcMsg' = rmcMsg /\ rmcMsg # NULL
      BY <2>1, <2>4 DEF StoreOrder
    <3>2. SlotState' = "full" /\ SlotMsg' = rmc
      BY <2>1, <2>2, <2>4, <3>1
    <3>3. rmc \in Nat \ {0} /\ rmc >= fed.clock
      BY <2>1 DEF TypeOK, Times, TimeInv, SentenceInv, FedOrderInv
    <3> QED
      BY <2>1, <2>3, <3>2, <3>3 DEF Slot!Next, Slot!Put
  <2>5. CASE x # "valid"
    <3>1. SlotState' = "empty" /\ SlotMsg' = 0
      BY <2>1, <2>2, <2>5
    <3> QED
      BY <2>1, <2>3, <3>1
  <2> QED
    BY <2>4, <2>5
<1>17. CASE WriteLog
  BY <1>17 DEF WriteLog
<1>18. CASE CloseFile
  BY <1>18 DEF CloseFile
<1>19. CASE JoinPpsThread
  BY <1>19 DEF JoinPpsThread
<1>20. CASE CleanupNtpUpdater
  BY <1>20 DEF CleanupNtpUpdater
<1>21. CASE CleanupSerialHandler
  BY <1>21 DEF CleanupSerialHandler
<1>22. CASE PpsTest
  BY <1>22 DEF PpsTest
<1>23. CASE PpsTimeout
  BY <1>23 DEF PpsTimeout
<1>24. CASE PpsLoadValid
  BY <1>24 DEF PpsLoadValid
<1>25. CASE PpsLoadMsg
  BY <1>25 DEF PpsLoadMsg
<1>26. CASE FeedNtp
  <2>1. loaded = copy /\ copy \in Copies /\ msgValid /\ rmcMsg # NULL /\ content[copy] \in Nat
    BY <1>26 DEF FeedNtp, TypeOK, Times
  <2>2. fed'.clock = content[copy] + 1 \/ fed' = fed
    BY <1>26, <2>1 DEF FeedNtp, TimeAtPulse
  <2>3. pps = "use" /\ pps' = "clear" /\ UNCHANGED slotVars
    BY <1>26 DEF FeedNtp, AfterFeed
  <2> QED
    BY <2>1, <2>2, <2>3 DEF Slot!Next, Slot!Use
<1>27. CASE ClearValid
  BY <1>27 DEF ClearValid
<1>28. CASE DeleteMsg
  BY <1>28 DEF DeleteMsg
<1>29. CASE ClearMsg
  BY <1>29 DEF ClearMsg, Slot!Next, Slot!Remove
<1>30. CASE \E wake \in BOOLEAN : NewSecond(wake)
  BY <1>30 DEF NewSecond
<1>31. CASE Report
  BY <1>31 DEF Report
<1>32. CASE ModemLocated
  BY <1>32 DEF ModemLocated
<1>33. CASE Terminate
  BY <1>33 DEF Terminate
<1>34. CASE UNCHANGED vars
  BY <1>34 DEF vars
<1> QED
  BY <1>2, <1>3, <1>4, <1>5, <1>6, <1>7, <1>8, <1>9, <1>10, <1>11, <1>12, <1>13, <1>14, <1>15, <1>16, <1>17, <1>18, <1>19, <1>20, <1>21, <1>22, <1>23, <1>24, <1>25, <1>26, <1>27, <1>28, <1>29, <1>30, <1>31, <1>32, <1>33, <1>34
     DEF Next, MainStep, PpsStep, Environment

\* In source order the loads and stores of the two threads implement OneMessageSlot.
THEOREM ImplementsSlotCorrect == ASSUME SourceOrder PROVE Spec => ImplementsSlot
<1>1. Init => Slot!Init
  BY CopiesAssumption DEF Init, Slot!Init, SlotState, SlotMsg
<1>2. TypeOK /\ HandoffInv /\ TimeInv /\ OrderInv /\ [Next]_vars => [Slot!Next]_(Slot!vars)
  BY StepSlot
<1> QED
  BY <1>1, <1>2, OrderInvariant, PTL DEF Spec, Slot!Spec, ImplementsSlot

-----------------------------------------------------------------------------
(* After the signal.                                                       *)

LEMMA MainRanks ==
  /\ MainRank["port"] = 13 /\ MainRank["ppsport"] = 12 /\ MainRank["shm"] = 11
  /\ MainRank["logfile"] = 10 /\ MainRank["flush"] = 9 /\ MainRank["modem"] = 8
  /\ MainRank["aid"] = 7 /\ MainRank["spawn"] = 6 /\ MainRank["reading"] = 14
  /\ MainRank["locate"] = 13 /\ MainRank["slot"] = 12 /\ MainRank["msgfree"] = 11
  /\ MainRank["validfree"] = 11 /\ MainRank["copy"] = 10 /\ MainRank["publish"] = 6
  /\ MainRank["log"] = 6 /\ MainRank["loop"] = 5 /\ MainRank["exit"] = 4
  /\ MainRank["join"] = 3 /\ MainRank["ntp"] = 2 /\ MainRank["serial"] = 1
  /\ MainRank["done"] = 0 /\ MainRank["crashed"] = 0
BY DEF MainRank

LEMMA PpsRanks ==
  /\ PpsRank["none"] = 9 /\ PpsRank["waiting"] = 8 /\ PpsRank["woken"] = 7
  /\ PpsRank["valid"] = 6 /\ PpsRank["msg"] = 6 /\ PpsRank["use"] = 5 /\ PpsRank["clear"] = 4
  /\ PpsRank["delete"] = 3 /\ PpsRank["null"] = 2 /\ PpsRank["loop"] = 1 /\ PpsRank["ended"] = 0
BY DEF PpsRank

\* Each store of a hand-over is one step less.
LEMMA StoreIsNearer ==
  ASSUME TypeOK, NEW x \in {"content", "msg", "valid"}, PublishStore(x)
  PROVE  MainLeft' < MainLeft
<1> DEFINE stores == StoreLeft("content") + StoreLeft("msg") + StoreLeft("valid")
<1>1. /\ main = "publish" /\ x \in unstored /\ unstored' = unstored \ {x}
      /\ main' \in {"publish", "log"}
  BY DEF PublishStore, NextStore
<1>2. StoreLeft(x) = 1 /\ StoreLeft(x)' = 0
  BY <1>1 DEF StoreLeft
<1>3. \A y \in {"content", "msg", "valid"} : y # x => StoreLeft(y)' = StoreLeft(y)
  BY <1>1 DEF StoreLeft
<1>4. \A y \in {"content", "msg", "valid"} : StoreLeft(y) \in 0..1 /\ StoreLeft(y)' \in 0..1
  BY DEF StoreLeft
<1>5. stores' = stores - 1 /\ stores \in Nat /\ stores' \in Nat
  <2>1. CASE x = "content"
    BY <1>2, <1>3, <1>4, <2>1
  <2>2. CASE x = "msg"
    BY <1>2, <1>3, <1>4, <2>2
  <2>3. CASE x = "valid"
    BY <1>2, <1>3, <1>4, <2>3
  <2> QED
    BY <2>1, <2>2, <2>3
<1>6. MainLeft = 6 + stores
  BY <1>1, <1>5, MainRanks DEF MainLeft
<1>7. MainLeft' <= 6 + stores'
  BY <1>1, <1>5, MainRanks DEF MainLeft
<1> HIDE DEF stores
<1>8. MainLeft' \in Int
  BY <1>1, <1>4, MainRanks DEF MainLeft
<1> QED
  BY <1>5, <1>6, <1>7, <1>8

LEMMA MainIsNearer ==
  ASSUME TypeOK, HandoffInv, ~isRunning, MainStep
  PROVE  /\ ~isRunning' /\ MainLeft' < MainLeft
         /\ pps' # pps => PpsLeft' < PpsLeft
<1> USE DEF lifeVars, slotVars
<1>1. ~isRunning'
  BY DEF MainStep, OpenPort, OpenPPSPort, AttachSegment, OpenLogFile, FlushPort, PollModem, SendAid,
         SpawnPpsThread, TestRunning, ReadSentence, Locate, LoadSlotMsg, LoadSlotValid,
         AllocateCopy, Publish, PublishStore, WriteLog, CloseFile, JoinPpsThread,
         CleanupNtpUpdater, CleanupSerialHandler
<1>2. waited \in Nat /\ MaxWait \in Nat /\ waited <= MaxWait
  BY BoundAssumption DEF TypeOK
<1>3. CASE OpenPort \/ OpenPPSPort \/ AttachSegment \/ OpenLogFile \/ FlushPort
  <2>1. UNCHANGED <<pps, waited, unstored>>
    BY <1>3 DEF OpenPort, OpenPPSPort, AttachSegment, OpenLogFile, FlushPort
  <2>2. CASE main = "port" /\ main' \in {"ppsport", "exit"}
    BY <1>1, <1>2, <2>1, <2>2, MainRanks DEF MainLeft
  <2>3. CASE main = "ppsport" /\ main' \in {"shm", "exit"}
    BY <1>1, <1>2, <2>1, <2>3, MainRanks DEF MainLeft
  <2>4. CASE main = "shm" /\ main' \in {"logfile", "exit"}
    BY <1>1, <1>2, <2>1, <2>4, MainRanks DEF MainLeft
  <2>5. CASE main = "logfile" /\ main' = "flush"
    BY <1>1, <1>2, <2>1, <2>5, MainRanks DEF MainLeft
  <2>6. CASE main = "flush" /\ main' \in {"modem", "aid"}
    BY <1>1, <1>2, <2>1, <2>6, MainRanks DEF MainLeft
  <2> QED
    BY <1>3, <2>2, <2>3, <2>4, <2>5, <2>6
       DEF OpenPort, OpenPPSPort, AttachSegment, OpenLogFile, FlushPort
<1>4. CASE PollModem
  BY <1>1, <1>2, <1>4, MainRanks DEF PollModem, KeepPolling, MainLeft
<1>5. CASE SendAid
  BY <1>1, <1>2, <1>5, MainRanks DEF SendAid, MainLeft
<1>6. CASE SpawnPpsThread
  <2>1. pps = "none"
    BY <1>6 DEF SpawnPpsThread, HandoffInv, LifeInv
  <2>2. /\ main = "spawn" /\ UNCHANGED <<waited, unstored>>
        /\ (main' = "loop" /\ pps' = "loop") \/ (main' = "exit" /\ pps' = pps)
    BY <1>6 DEF SpawnPpsThread
  <2> QED
    BY <1>1, <1>2, <2>1, <2>2, MainRanks, PpsRanks DEF MainLeft, PpsLeft
<1>7. CASE TestRunning
  BY <1>1, <1>7, MainRanks DEF TestRunning, Running, MainLeft
<1>8. CASE ReadSentence
  <2>1. main = "reading" /\ pps' = pps /\ main' \in {"locate", "loop", "crashed"}
    <3>1. CASE Head(uart).kind = "fix"
      BY <1>8, <3>1 DEF ReadSentence, WithFix
    <3>2. CASE Head(uart).kind = "nofix"
      BY <1>8, <3>2 DEF ReadSentence
    <3>3. CASE Head(uart).kind \notin {"fix", "nofix"}
      BY <1>8, <3>3 DEF ReadSentence
    <3> QED
      BY <3>1, <3>2, <3>3
  <2> QED
    BY <1>1, <2>1, MainRanks DEF MainLeft
<1>9. CASE Locate \/ LoadSlotMsg \/ LoadSlotValid
  BY <1>1, <1>9, MainRanks DEF Locate, LoadSlotMsg, LoadSlotValid, MainLeft
<1>10. CASE AllocateCopy
  <2>1. main = "copy" /\ main' = "publish" /\ unstored' = {"content", "msg", "valid"} /\ pps' = pps
    BY <1>10 DEF AllocateCopy
  <2> QED
    BY <1>1, <2>1, MainRanks DEF MainLeft, StoreLeft
<1>11. CASE Publish
  <2>1. PICK x \in {"content", "msg", "valid"} : PublishStore(x)
    BY <1>11 DEF Publish
  <2> QED
    BY <1>1, <2>1, StoreIsNearer DEF PublishStore
<1>12. CASE WriteLog \/ CloseFile
  BY <1>1, <1>12, MainRanks DEF WriteLog, CloseFile, MainLeft
<1>13. CASE JoinPpsThread \/ CleanupNtpUpdater \/ CleanupSerialHandler
  BY <1>1, <1>13, MainRanks DEF JoinPpsThread, CleanupNtpUpdater, CleanupSerialHandler, MainLeft
<1> QED
  BY <1>3, <1>4, <1>5, <1>6, <1>7, <1>8, <1>9, <1>10, <1>11, <1>12, <1>13 DEF MainStep

LEMMA PpsIsNearer ==
  ASSUME TypeOK, ~isRunning, PpsStep
  PROVE  UNCHANGED <<isRunning, main, waited, unstored>> /\ PpsLeft' < PpsLeft
<1> USE DEF lifeVars, slotVars
<1>1. CASE PpsTest
  BY <1>1, PpsRanks DEF PpsTest, Running, PpsLeft
<1>2. CASE PpsTimeout \/ PpsLoadValid \/ PpsLoadMsg
  BY <1>2, PpsRanks DEF PpsTimeout, PpsLoadValid, PpsLoadMsg, PpsLeft
<1>3. CASE FeedNtp
  BY <1>3, PpsRanks DEF FeedNtp, AfterFeed, PpsLeft
<1>4. CASE ClearValid \/ DeleteMsg \/ ClearMsg
  BY <1>4, PpsRanks DEF ClearValid, DeleteMsg, ClearMsg, PpsLeft
<1> QED
  BY <1>1, <1>2, <1>3, <1>4 DEF PpsStep

\* After SIGTERM every step brings the thread that takes it nearer to its end, whatever the
\* other does and however often a pulse comes: the half of Terminates without fairness.
THEOREM ShutdownAdvancesCorrect == Spec => ShutdownAdvances
<1> DEFINE Advance ==
      ~isRunning =>
        /\ ~isRunning'
        /\ <<main, waited, unstored>>' # <<main, waited, unstored>> => MainLeft' < MainLeft
        /\ pps' # pps => PpsLeft' < PpsLeft
<1>1. TypeOK /\ HandoffInv /\ [Next]_vars => [Advance]_vars
  <2> SUFFICES ASSUME TypeOK, HandoffInv, Next, ~isRunning PROVE Advance
    OBVIOUS
  <2>1. CASE MainStep
    BY <2>1, MainIsNearer
  <2>2. CASE PpsStep
    BY <2>2, PpsIsNearer
  <2>3. CASE \E wake \in BOOLEAN : NewSecond(wake)
    BY <2>3, PpsRanks DEF NewSecond, PpsLeft, lifeVars, slotVars
  <2>4. CASE Report \/ ModemLocated \/ Terminate
    BY <2>4 DEF Report, ModemLocated, Terminate, lifeVars, slotVars
  <2> QED
    BY <2>1, <2>2, <2>3, <2>4 DEF Next, Environment
<1> QED
  BY <1>1, TypeCorrect, HandoffInvariant, PTL DEF Spec, ShutdownAdvances
=============================================================================

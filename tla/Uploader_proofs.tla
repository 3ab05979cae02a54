--------------------------- MODULE Uploader_proofs ---------------------------
(***************************************************************************)
(* Proofs about Uploader beside the writer of the segment, for any number  *)
(* of samples and seconds.  The part of the invariant about the segment is *)
(* the one LocationShm_proofs shows.                                       *)
(***************************************************************************)
EXTENDS Uploader, LocationShm_proofs

\* Every field holds a sample already begun; in source order the latitude is stored first.
SampleInv ==
  /\ \A f \in Fields : shm[f] <= sample
  /\ SourceOrder => shm.longitude <= shm.latitude

\* A device key is read only by a process that attached the segment.
MappedInv ==
  /\ up \in {"setup", "locate", "ppp", "config"} \/ deviceKey => attached
  /\ up = "send" => deviceKey

\* The coordinates cached are never newer than the segment's, those reported never newer
\* than the cached ones, and nothing is reported before the modem is asked.
ReportInv ==
  /\ \A c \in {"longitude", "latitude"} : report[c] <= cached[c] /\ cached[c] <= shm[c]
  /\ up \in {"attach", "setup", "locate"} => report.longitude = 0 /\ report.latitude = 0

\* The copy under way lies between the sample found valid and the latitude there now.
CopyInv ==
  /\ toCopy # {} <=> up = "copy"
  /\ SourceOrder /\ up = "copy" =>
       /\ "latitude" \in toCopy
       /\ checked # 0 /\ checked <= shm.longitude /\ checked <= shm.latitude
       /\ "longitude" \notin toCopy =>
            checked <= cached.longitude /\ cached.longitude <= shm.latitude
  /\ LatitudeNotOlder
  /\ WholeUnlessOverlapped

UploaderInv == /\ TypeOK /\ ShmInv /\ SampleInv
               /\ SocketClosed /\ MappedInv /\ ReportInv /\ CopyInv

USE DEF Stores, BeforeTime, AfterTime, Fields

LEMMA InitUploader == Init => UploaderInv
<1> SUFFICES ASSUME Init PROVE UploaderInv
  OBVIOUS
<1>1. ShmInv /\ ShmInit
  BY InitShm DEF Init
<1>2. /\ isRunning \in BOOLEAN /\ attached \in BOOLEAN /\ deviceKey \in BOOLEAN
      /\ ppp \in BOOLEAN /\ sock \in BOOLEAN /\ overlap \in BOOLEAN
  BY Zenon DEF Init
<1>3. /\ up = "attach" /\ ret = "first" /\ ~sock /\ ~deviceKey /\ toCopy = {}
      /\ cached = [longitude |-> 0, latitude |-> 0] /\ last = 0 /\ checked = 0
      /\ report = [from |-> "none", longitude |-> 0, latitude |-> 0, speed |-> 0]
  BY DEF Init
<1>4. TypeOK
  BY <1>1, <1>2, <1>3, BoundAssumption DEF TypeOK, ShmInv, Steps, Returns, Samples, Clocks
<1>5. SampleInv
  BY <1>1 DEF ShmInit, SampleInv
<1>6. SocketClosed /\ MappedInv /\ ReportInv
  BY <1>1, <1>3 DEF ShmInit, SocketClosed, MappedInv, ReportInv
<1>7. CopyInv
  BY <1>3 DEF CopyInv, LatitudeNotOlder, WholeUnlessOverlapped
<1> QED
  BY <1>1, <1>4, <1>5, <1>6, <1>7 DEF UploaderInv

\* The writer's steps keep SampleInv, and no field goes back to an older sample.
LEMMA SamplesAdvance ==
  ASSUME ShmInv, SampleInv, ShmNext
  PROVE  SampleInv' /\ \A f \in Fields : shm'[f] >= shm[f]
<1> USE DEF ShmInv, ShmTypeOK, SampleInv, Segments, Samples
<1>1. CASE \E x \in Stores : Store(x)
  <2>1. PICK x \in Stores : Store(x)
    BY <1>1
  <2>2. /\ x \in pending /\ sample' = sample
        /\ SourceOrder => \A y \in pending : Position[x] <= Position[y]
        /\ \A f \in Fields : shm'[f] = IF x = f THEN sample ELSE shm[f]
    BY <2>1, StoreEffect
  <2>3. sample \in Nat /\ \A f \in Fields : shm[f] \in Nat
    BY BoundAssumption
  <2>4. \A f \in Fields : shm'[f] <= sample /\ shm'[f] >= shm[f]
    BY <2>2, <2>3
  <2>5. SourceOrder => shm'.longitude <= shm'.latitude
    BY <2>2, <2>3 DEF Position, ProgressInv
  <2> QED
    BY <2>2, <2>4, <2>5
<1>2. CASE BeginAdd
  BY <1>2, BoundAssumption DEF BeginAdd
<1>3. CASE CallTime \/ WriterDies \/ ChangeLock
  BY <1>3, BoundAssumption DEF CallTime, WriterDies, ChangeLock
<1> QED
  BY <1>1, <1>2, <1>3 DEF ShmNext, WriterStep

LEMMA WriterUploader ==
  ASSUME UploaderInv, ShmNext, UNCHANGED upVars
  PROVE  UploaderInv'
<1>1. ShmInv'
  BY StepShm DEF UploaderInv
<1>2. SampleInv' /\ \A f \in Fields : shm'[f] >= shm[f]
  BY SamplesAdvance DEF UploaderInv
<1>3. /\ UNCHANGED <<up, ret, sock, report, isRunning, attached, deviceKey, ppp>>
      /\ UNCHANGED <<cached, toCopy, last, checked, overlap>>
  BY DEF upVars, procVars, copyVars
<1>4. /\ shm.longitude \in Nat /\ shm'.longitude \in Nat /\ shm'.longitude >= shm.longitude
      /\ shm.latitude \in Nat /\ shm'.latitude \in Nat /\ shm'.latitude >= shm.latitude
  BY <1>1, <1>2, BoundAssumption
     DEF UploaderInv, ShmInv, ShmTypeOK, Segments, Samples, Fields
<1>5. /\ cached.longitude \in Nat /\ cached.latitude \in Nat /\ checked \in Nat
  BY BoundAssumption DEF UploaderInv, TypeOK, Samples
<1>6. TypeOK'
  BY <1>1, <1>3 DEF UploaderInv, TypeOK, ShmInv
<1>7. SocketClosed' /\ MappedInv'
  BY <1>3 DEF UploaderInv, SocketClosed, MappedInv
<1>8. ReportInv'
  <2>1. ReportInv
    BY DEF UploaderInv
  <2> QED
    BY <1>3, <1>4, <1>5, <2>1 DEF ReportInv
<1>9. CopyInv'
  <2>1. CopyInv
    BY DEF UploaderInv
  <2>2. LatitudeNotOlder' /\ WholeUnlessOverlapped'
    BY <1>3, <2>1 DEF CopyInv, LatitudeNotOlder, WholeUnlessOverlapped, Uploading
  <2> QED
    BY <1>3, <1>4, <1>5, <2>1, <2>2 DEF CopyInv
<1> QED
  BY <1>1, <1>2, <1>6, <1>7, <1>8, <1>9 DEF UploaderInv

\* The steps of the process, the signal and the link; they leave the segment alone.
ProcessStep == UploaderStep \/ Terminate \/ PppUp \/ PppDown

LEMMA LeavesSegment == ProcessStep => UNCHANGED writerVars
BY DEF ProcessStep, UploaderStep, AttachShm, SetupModem, GrabNetworkLocation, WaitForPPP,
       ReadConfig, WaitForInitialFix, CheckTime, CheckValid, Copy, RememberTime, Connect,
       Send, Disconnect, Exited, KillPppd, Terminate, PppUp, PppDown

\* The process's variables keep their types.
LEMMA ProcessType ==
  ASSUME UploaderInv, ProcessStep
  PROVE  TypeOK'
<1> USE DEF UploaderInv, TypeOK, Steps, Returns, procVars, copyVars
<1>1. ShmTypeOK'
  BY LeavesSegment DEF writerVars, ShmTypeOK
<1>2. CASE AttachShm
  <2>1. attached' \in BOOLEAN
    BY <1>2, Zenon DEF AttachShm
  <2> QED
    BY <1>1, <1>2, <2>1 DEF AttachShm, GivesUp
<1>3. CASE SetupModem \/ WaitForPPP \/ WaitForInitialFix \/ CheckTime
  BY <1>1, <1>3 DEF SetupModem, WaitForPPP, WaitForInitialFix, CheckTime
<1>4. CASE GrabNetworkLocation
  BY <1>1, <1>4, BoundAssumption DEF GrabNetworkLocation, Samples
<1>5. CASE ReadConfig
  <2>1. deviceKey' \in BOOLEAN
    BY <1>5, Zenon DEF ReadConfig
  <2> QED
    BY <1>1, <1>5, <2>1 DEF ReadConfig
<1>6. CASE CheckValid
  <2>1. checked' \in Samples
    BY <1>6 DEF CheckValid, ShmTypeOK, Segments
  <2> QED
    BY <1>1, <1>6, <2>1 DEF CheckValid
<1>7. CASE \E c \in {"longitude", "latitude"} : Copy(c)
  <2>1. PICK c \in {"longitude", "latitude"} : Copy(c)
    BY <1>7
  <2>2. cached' \in [longitude : Samples, latitude : Samples]
    BY <2>1 DEF Copy, ShmTypeOK, Segments
  <2>3. overlap' \in BOOLEAN
    BY <2>1, Zenon DEF Copy
  <2>4. up' \in Steps /\ ret' \in Returns /\ toCopy' \in SUBSET {"longitude", "latitude"}
    BY <2>1 DEF Copy
  <2> QED
    BY <1>1, <2>1, <2>2, <2>3, <2>4 DEF Copy
<1>8. CASE RememberTime
  <2>1. last' \in Clocks
    BY <1>8 DEF RememberTime, ShmTypeOK, Segments
  <2> QED
    BY <1>1, <1>8, <2>1 DEF RememberTime
<1>9. CASE Connect
  <2>1. sock' \in BOOLEAN
    BY <1>9, Zenon DEF Connect
  <2>2. up' \in Steps
    BY <1>9 DEF Connect, ReturnTo
  <2> QED
    BY <1>1, <1>9, <2>1, <2>2 DEF Connect
<1>10. CASE Send
  <2>1. report' \in [from : {"none"} \cup Returns, longitude : Samples, latitude : Samples,
                     speed : Samples]
    BY <1>10 DEF Send, Sent, ShmTypeOK, Segments
  <2> QED
    BY <1>1, <1>10, <2>1 DEF Send
<1>11. CASE Disconnect
  <2>1. sock' \in BOOLEAN
    BY <1>11, Zenon DEF Disconnect, Closed
  <2>2. up' \in Steps
    BY <1>11 DEF Disconnect, ReturnTo
  <2> QED
    BY <1>1, <1>11, <2>1, <2>2 DEF Disconnect
<1>12. CASE Exited
  BY <1>1, <1>12 DEF Exited
<1>13. CASE KillPppd \/ PppUp \/ PppDown
  <2>1. ppp' \in BOOLEAN
    BY <1>13, Zenon DEF KillPppd, PppUp, PppDown
  <2>2. /\ UNCHANGED <<ret, sock, report, isRunning, attached, deviceKey, copyVars>>
        /\ up' \in {up, "done"}
    BY <1>13 DEF KillPppd, PppUp, PppDown
  <2> QED
    BY <1>1, <2>1, <2>2
<1>14. CASE Terminate
  <2>1. isRunning' \in BOOLEAN
    BY <1>14, Zenon DEF Terminate
  <2> QED
    BY <1>1, <1>14, <2>1 DEF Terminate
<1> QED
  BY <1>2, <1>3, <1>4, <1>5, <1>6, <1>7, <1>8, <1>9, <1>10, <1>11, <1>12, <1>13, <1>14
     DEF ProcessStep, UploaderStep

\* A report ends with its socket closed, and is made only with a segment attached.
LEMMA ProcessSocket ==
  ASSUME UploaderInv, ProcessStep
  PROVE  SocketClosed' /\ MappedInv'
<1> USE DEF SocketClosed, MappedInv, procVars, copyVars
<1>1. SocketClosed /\ MappedInv
  BY DEF UploaderInv
<1>2. CASE AttachShm \/ SetupModem \/ GrabNetworkLocation \/ WaitForPPP
  BY <1>1, <1>2 DEF AttachShm, GivesUp, SetupModem, GrabNetworkLocation, WaitForPPP
<1>3. CASE ReadConfig
  BY <1>1, <1>3 DEF ReadConfig
<1>4. CASE WaitForInitialFix \/ CheckTime \/ CheckValid \/ RememberTime \/ Exited
  BY <1>1, <1>4 DEF WaitForInitialFix, CheckTime, CheckValid, RememberTime, Exited
<1>5. CASE \E c \in {"longitude", "latitude"} : Copy(c)
  BY <1>1, <1>5 DEF Copy
<1>6. CASE Connect
  BY <1>1, <1>6 DEF Connect, ReturnTo
<1>7. CASE Send
  BY <1>1, <1>7 DEF Send
<1>8. CASE Disconnect
  BY <1>1, <1>8 DEF Disconnect, Closed, ReturnTo
<1>9. CASE KillPppd \/ Terminate \/ PppUp \/ PppDown
  BY <1>1, <1>9 DEF KillPppd, Terminate, PppUp, PppDown
<1> QED
  BY <1>2, <1>3, <1>4, <1>5, <1>6, <1>7, <1>8, <1>9 DEF ProcessStep, UploaderStep

\* Coordinates pass from the segment to the cache to the report, each time newer ones.
LEMMA ProcessReport ==
  ASSUME UploaderInv, ProcessStep
  PROVE  ReportInv' /\ (report' # report =>
                         /\ report'.longitude >= report.longitude
                         /\ report'.latitude >= report.latitude)
<1> USE DEF ReportInv, procVars, copyVars
<1>1. ReportInv /\ shm' = shm
  BY LeavesSegment DEF UploaderInv, writerVars
<1>2. /\ shm.longitude \in Nat /\ shm.latitude \in Nat
      /\ cached \in [longitude : Samples, latitude : Samples]
      /\ cached.longitude \in Nat /\ cached.latitude \in Nat
      /\ report.longitude \in Nat /\ report.latitude \in Nat
  BY BoundAssumption DEF UploaderInv, TypeOK, ShmTypeOK, Segments, Samples
<1>3. CASE AttachShm \/ SetupModem \/ WaitForPPP \/ ReadConfig
  BY <1>1, <1>3 DEF AttachShm, GivesUp, SetupModem, WaitForPPP, ReadConfig
<1>4. CASE GrabNetworkLocation
  BY <1>1, <1>2, <1>4 DEF GrabNetworkLocation
<1>5. CASE WaitForInitialFix \/ CheckTime \/ CheckValid \/ RememberTime \/ Exited
  BY <1>1, <1>5 DEF WaitForInitialFix, CheckTime, CheckValid, RememberTime, Exited
<1>6. CASE \E c \in {"longitude", "latitude"} : Copy(c)
  <2>1. PICK c \in {"longitude", "latitude"} : Copy(c)
    BY <1>6
  <2>2. /\ report' = report /\ up = "copy" /\ up' \in {"copy", "upload"}
        /\ \A d \in {"longitude", "latitude"} : cached'[d] = IF d = c THEN shm[c] ELSE cached[d]
    BY <2>1, <1>2 DEF Copy
  <2> QED
    BY <1>1, <1>2, <2>2
<1>7. CASE Connect \/ Disconnect
  BY <1>1, <1>7 DEF Connect, Disconnect, ReturnTo
<1>8. CASE Send
  BY <1>1, <1>2, <1>8 DEF Send, Sent
<1>9. CASE KillPppd \/ Terminate \/ PppUp \/ PppDown
  BY <1>1, <1>9 DEF KillPppd, Terminate, PppUp, PppDown
<1> QED
  BY <1>3, <1>4, <1>5, <1>6, <1>7, <1>8, <1>9 DEF ProcessStep, UploaderStep

\* What the loop copied is the sample it found valid, unless the writer ran into the copy.
LEMMA ProcessCopy ==
  ASSUME UploaderInv, ProcessStep
  PROVE  CopyInv'
<1> USE DEF CopyInv, LatitudeNotOlder, WholeUnlessOverlapped, Uploading, procVars, copyVars
<1>1. CopyInv /\ shm' = shm
  BY LeavesSegment DEF UploaderInv, writerVars
<1>2. /\ shm.longitude \in Nat /\ shm.latitude \in Nat /\ checked \in Nat
      /\ cached \in [longitude : Samples, latitude : Samples]
      /\ cached.longitude \in Nat /\ cached.latitude \in Nat
      /\ toCopy \in SUBSET {"longitude", "latitude"}
  BY BoundAssumption DEF UploaderInv, TypeOK, ShmTypeOK, Segments, Samples
<1>3. CASE AttachShm \/ SetupModem \/ WaitForPPP \/ WaitForInitialFix \/ CheckTime
  BY <1>1, <1>3 DEF AttachShm, GivesUp, SetupModem, WaitForPPP, WaitForInitialFix, CheckTime
<1>4. CASE GrabNetworkLocation
  BY <1>1, <1>4 DEF GrabNetworkLocation
<1>5. CASE ReadConfig \/ RememberTime \/ Exited
  BY <1>1, <1>5 DEF ReadConfig, RememberTime, Exited
<1>6. CASE CheckValid
  <2>1. SourceOrder /\ shm.valid => shm.longitude = shm.latitude /\ shm.latitude # 0
    BY DEF UploaderInv, ShmInv, FlagInv
  <2> QED
    BY <1>1, <1>2, <1>6, <2>1 DEF CheckValid, SeesValid
<1>7. CASE \E c \in {"longitude", "latitude"} : Copy(c)
  <2>1. PICK c \in {"longitude", "latitude"} : Copy(c)
    BY <1>7
  <2>2. SourceOrder => shm.longitude <= shm.latitude
    BY DEF UploaderInv, SampleInv
  <2>3. /\ up = "copy" /\ c \in toCopy /\ toCopy' = toCopy \ {c} /\ checked' = checked
        /\ SourceOrder /\ "longitude" \in toCopy => c = "longitude"
        /\ cached'.longitude = IF c = "longitude" THEN shm.longitude ELSE cached.longitude
        /\ cached'.latitude = IF c = "latitude" THEN shm.latitude ELSE cached.latitude
        /\ toCopy' = {} => up' = "upload"
        /\ toCopy' # {} => up' = up
        /\ toCopy' = {} /\ ~overlap' => shm.latitude = checked
    BY <2>1, <1>2 DEF Copy, CopiedFirst
  <2>4. CASE c = "longitude"
    BY <1>1, <1>2, <2>2, <2>3, <2>4
  <2>5. CASE c = "latitude"
    BY <1>1, <1>2, <2>2, <2>3, <2>5
  <2> QED
    BY <2>4, <2>5
<1>8. CASE Connect \/ Disconnect
  BY <1>1, <1>8 DEF Connect, Disconnect, ReturnTo
<1>9. CASE Send
  BY <1>1, <1>9 DEF Send
<1>10. CASE KillPppd \/ Terminate \/ PppUp \/ PppDown
  BY <1>1, <1>10 DEF KillPppd, Terminate, PppUp, PppDown
<1> QED
  BY <1>3, <1>4, <1>5, <1>6, <1>7, <1>8, <1>9, <1>10 DEF ProcessStep, UploaderStep

LEMMA StepUploader == UploaderInv /\ [Next]_vars => UploaderInv'
<1> SUFFICES ASSUME UploaderInv, [Next]_vars PROVE UploaderInv'
  OBVIOUS
<1>1. CASE ProcessStep
  <2>1. UNCHANGED writerVars
    BY <1>1, LeavesSegment
  <2>2. ShmInv' /\ SampleInv'
    BY <2>1, StepShm DEF UploaderInv, writerVars, SampleInv
  <2> QED
    BY <1>1, <2>2, ProcessType, ProcessSocket, ProcessReport, ProcessCopy DEF UploaderInv
<1>2. CASE ShmNext /\ UNCHANGED upVars
  BY <1>2, WriterUploader
<1>3. CASE UNCHANGED vars
  <2>1. UNCHANGED writerVars /\ UNCHANGED upVars
    BY <1>3 DEF vars
  <2>2. ShmInv' /\ SampleInv'
    BY <2>1, StepShm DEF UploaderInv, writerVars, SampleInv
  <2>3. TypeOK' /\ SocketClosed' /\ MappedInv' /\ ReportInv' /\ CopyInv'
    BY <2>1, <2>2
       DEF UploaderInv, upVars, procVars, copyVars, writerVars, TypeOK, ShmInv, SocketClosed,
           MappedInv, ReportInv, CopyInv, LatitudeNotOlder, WholeUnlessOverlapped
  <2> QED
    BY <2>2, <2>3 DEF UploaderInv
<1> QED
  BY <1>1, <1>2, <1>3 DEF Next, ProcessStep

\* Every variable of the uploader and of the segment beside it keeps its type.
THEOREM TypeCorrect == Spec => []TypeOK
<1>1. UploaderInv => TypeOK
  BY DEF UploaderInv
<1> QED
  BY <1>1, InitUploader, StepUploader, PTL DEF Spec

\* uploadData always finds the socket closed, whatever failed before.
THEOREM SocketClosedCorrect == Spec => []SocketClosed
<1>1. UploaderInv => SocketClosed
  BY DEF UploaderInv
<1> QED
  BY <1>1, InitUploader, StepUploader, PTL DEF Spec

\* The speed is never read through a null pointer, also on the early exits.
THEOREM SegmentMappedCorrect == Spec => []SegmentMapped
<1>1. UploaderInv => SegmentMapped
  BY DEF UploaderInv, MappedInv, SegmentMapped
<1> QED
  BY <1>1, InitUploader, StepUploader, PTL DEF Spec

\* A torn copy has the newer latitude, never the newer longitude.
THEOREM LatitudeNotOlderCorrect == Spec => []LatitudeNotOlder
<1>1. UploaderInv => LatitudeNotOlder
  BY DEF UploaderInv, CopyInv
<1> QED
  BY <1>1, InitUploader, StepUploader, PTL DEF Spec

\* The loop uploads one whole sample unless the writer cleared valid during the copy.
THEOREM WholeUnlessOverlappedCorrect == Spec => []WholeUnlessOverlapped
<1>1. UploaderInv => WholeUnlessOverlapped
  BY DEF UploaderInv, CopyInv
<1> QED
  BY <1>1, InitUploader, StepUploader, PTL DEF Spec

\* The server never sees a position older than one reported before.
THEOREM ReportsAdvanceCorrect == Spec => ReportsAdvance
<1>1. UploaderInv /\ [Next]_vars =>
        [report' # report =>
           /\ report'.longitude >= report.longitude
           /\ report'.latitude >= report.latitude]_vars
  <2> SUFFICES ASSUME UploaderInv, Next, report' # report
               PROVE  /\ report'.longitude >= report.longitude
                      /\ report'.latitude >= report.latitude
    BY DEF vars, upVars
  <2>1. ProcessStep
    BY DEF Next, ProcessStep, upVars
  <2> QED
    BY <2>1, ProcessReport
<1> QED
  BY <1>1, InitUploader, StepUploader, PTL DEF Spec, ReportsAdvance

-----------------------------------------------------------------------------
(* After the signal.                                                       *)

LEMMA Ranks ==
  /\ Rank["attach"] = 15 /\ Rank["setup"] = 14 /\ Rank["locate"] = 13 /\ Rank["ppp"] = 12
  /\ Rank["config"] = 11 /\ Rank["fixwait"] = 7 /\ Rank["checkValid"] = 13 /\ Rank["copy"] = 10
  /\ Rank["after"] = 7 /\ Rank["loop"] = 6 /\ Rank["exit"] = 5 /\ Rank["upload"] = 3
  /\ Rank["send"] = 2 /\ Rank["disconnect"] = 1 /\ Rank["kill"] = 1 /\ Rank["done"] = 0
  /\ Rank["crashed"] = 0
BY DEF Rank

\* An upload in progress has the place it returns to still before it.
LEMMA ReturnIsNearer ==
  ASSUME TypeOK, up \in {"upload", "disconnect"}, up' = ReturnTo
  PROVE  StepsLeft' < StepsLeft
<1>1. ret \in {"first", "loop", "exit"}
  BY DEF TypeOK, Returns
<1>2. StepsLeft >= 1 + IF ret = "exit" THEN 1 ELSE 7
  BY Ranks DEF StepsLeft
<1>3. CASE ret = "first"
  <2>1. up' = "fixwait"
    BY <1>3 DEF ReturnTo
  <2> QED
    BY <1>2, <1>3, <2>1, Ranks DEF StepsLeft
<1>4. CASE ret = "loop"
  <2>1. up' = "after"
    BY <1>4 DEF ReturnTo
  <2> QED
    BY <1>2, <1>4, <2>1, Ranks DEF StepsLeft
<1>5. CASE ret = "exit"
  <2>1. up' = "kill"
    BY <1>5 DEF ReturnTo
  <2> QED
    BY <1>2, <1>5, <2>1, Ranks DEF StepsLeft
<1> QED
  BY <1>1, <1>3, <1>4, <1>5

LEMMA CopyIsNearer ==
  ASSUME TypeOK, NEW c \in {"longitude", "latitude"}, Copy(c)
  PROVE  StepsLeft' < StepsLeft
<1>1. /\ up = "copy" /\ c \in toCopy /\ toCopy' = toCopy \ {c}
      /\ IF toCopy' = {} THEN up' = "upload" /\ ret' = "loop" ELSE up' = up
  BY DEF Copy
<1>2. CopyLeft(c) = 1 /\ CopyLeft(c)' = 0
  BY <1>1 DEF CopyLeft
<1>3. \A d \in {"longitude", "latitude"} : d # c => CopyLeft(d)' = CopyLeft(d) /\ CopyLeft(d) \in 0..1
  BY <1>1 DEF CopyLeft
<1>4. CopyLeft("longitude")' + CopyLeft("latitude")' = CopyLeft("longitude") + CopyLeft("latitude") - 1
  <2>1. CASE c = "longitude"
    BY <1>2, <1>3, <2>1
  <2>2. CASE c = "latitude"
    BY <1>2, <1>3, <2>2
  <2> QED
    BY <2>1, <2>2
<1>5. CopyLeft("longitude") \in 0..1 /\ CopyLeft("latitude") \in 0..1
      /\ CopyLeft("longitude")' \in 0..1 /\ CopyLeft("latitude")' \in 0..1
  BY DEF CopyLeft
<1>6. StepsLeft = 10 + CopyLeft("longitude") + CopyLeft("latitude")
  BY <1>1, <1>5, Ranks DEF StepsLeft
<1>7. CASE up' = "copy"
  <2>1. StepsLeft' = 10 + CopyLeft("longitude")' + CopyLeft("latitude")'
    BY <1>5, <1>7, Ranks DEF StepsLeft
  <2> QED
    BY <1>4, <1>5, <1>6, <2>1
<1>8. CASE up' = "upload" /\ ret' = "loop"
  <2>1. StepsLeft' = 10
    BY <1>8, Ranks DEF StepsLeft
  <2>2. CopyLeft("longitude") + CopyLeft("latitude") >= 1
    BY <1>4, <1>5
  <2> QED
    BY <1>5, <1>6, <2>1, <2>2
<1> QED
  BY <1>1, <1>7, <1>8

LEMMA StepIsNearer ==
  ASSUME TypeOK, ~isRunning, UploaderStep
  PROVE  ~isRunning' /\ StepsLeft' < StepsLeft
<1>1. ~isRunning'
  BY DEF UploaderStep, AttachShm, SetupModem, GrabNetworkLocation, WaitForPPP, ReadConfig,
         WaitForInitialFix, CheckTime, CheckValid, Copy, RememberTime, Connect, Send, Disconnect,
         Exited, KillPppd, procVars
<1>2. CASE AttachShm \/ SetupModem \/ GrabNetworkLocation \/ WaitForPPP
  BY <1>1, <1>2, Ranks DEF AttachShm, GivesUp, SetupModem, GrabNetworkLocation, WaitForPPP, StepsLeft
<1>3. CASE ReadConfig
  BY <1>1, <1>3, Ranks DEF ReadConfig, StepsLeft
<1>4. CASE WaitForInitialFix \/ CheckTime
  BY <1>1, <1>4, Ranks DEF WaitForInitialFix, CheckTime, Running, StepsLeft
<1>5. CASE CheckValid
  BY <1>1, <1>5, Ranks DEF CheckValid, StepsLeft, CopyLeft
<1>6. CASE \E c \in {"longitude", "latitude"} : Copy(c)
  BY <1>1, <1>6, CopyIsNearer
<1>7. CASE RememberTime \/ Exited \/ KillPppd
  BY <1>1, <1>7, Ranks DEF RememberTime, Exited, KillPppd, StepsLeft
<1>8. CASE Connect
  <2>1. CASE up' = ReturnTo
    BY <1>1, <1>8, <2>1, ReturnIsNearer DEF Connect
  <2>2. CASE up = "upload" /\ up' \in {"send", "disconnect"} /\ ret' = ret
    BY <1>1, <2>2, Ranks DEF StepsLeft
  <2> QED
    BY <1>8, <2>1, <2>2 DEF Connect
<1>9. CASE Send
  BY <1>1, <1>9, Ranks DEF Send, StepsLeft
<1>10. CASE Disconnect
  BY <1>1, <1>10, ReturnIsNearer DEF Disconnect
<1> QED
  BY <1>1, <1>2, <1>3, <1>4, <1>5, <1>6, <1>7, <1>8, <1>9, <1>10 DEF UploaderStep

\* After SIGTERM every step of the process brings it nearer to its end, from any place and
\* whatever the network does: the half of Terminates that needs no fairness.
THEOREM ShutdownAdvancesCorrect == Spec => ShutdownAdvances
<1>1. TypeOK /\ [Next]_vars =>
        [~isRunning =>
           ~isRunning' /\ (<<up, toCopy>>' # <<up, toCopy>> => StepsLeft' < StepsLeft)]_vars
  <2> SUFFICES ASSUME TypeOK, Next, ~isRunning
               PROVE  ~isRunning' /\ (<<up, toCopy>>' # <<up, toCopy>> => StepsLeft' < StepsLeft)
    BY DEF vars, upVars, procVars, copyVars
  <2>1. CASE UploaderStep
    BY <2>1, StepIsNearer
  <2>2. CASE Terminate \/ PppUp \/ PppDown
    BY <2>2 DEF Terminate, PppUp, PppDown, copyVars
  <2>3. CASE ShmNext /\ UNCHANGED upVars
    BY <2>3 DEF upVars, procVars, copyVars
  <2> QED
    BY <2>1, <2>2, <2>3 DEF Next
<1> QED
  BY <1>1, TypeCorrect, PTL DEF Spec, ShutdownAdvances
=============================================================================

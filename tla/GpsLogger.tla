------------------------------ MODULE GpsLogger ------------------------------
(***************************************************************************)
(* The gpslogger process (gpslogger/main.cpp): the main thread, which      *)
(* reads NMEA sentences off the serial port, and the PPS thread, which     *)
(* waits for the GPS time pulse and hands the last sentence's time to ntpd.*)
(* They share a one-message slot, g_rmcMsg guarded by g_rmcMessageValid,   *)
(* and no lock.  Each load and each store of the slot is a step.           *)
(*                                                                         *)
(* A heap address is a member of Copies; free addresses are reused.  Of a  *)
(* message only the second of its timestamp is kept.  SourceOrder says     *)
(* whether the build keeps the slot's plain loads and stores in source     *)
(* order with the volatile flag: C++ does not promise it, because neither  *)
(* the pointer nor the message is volatile or atomic.                      *)
(***************************************************************************)
EXTENDS Naturals, Sequences

CONSTANTS Copies,      \* addresses operator new can return for a GprmcMessage
          NULL,        \* the null pointer
          SourceOrder, \* plain accesses of the slot stay in source order
          MaxWait,     \* polls of the modem's segment (60 in the source)
          MaxSecond,   \* bound: seconds that pass
          MaxBacklog   \* bound: sentences waiting in the serial port

ASSUME CopiesAssumption == Copies # {} /\ NULL \notin Copies
ASSUME OrderAssumption  == SourceOrder \in BOOLEAN
ASSUME BoundAssumption  == MaxWait \in Nat /\ MaxSecond \in Nat /\ MaxBacklog \in Nat

VARIABLES
  main,        \* where the main thread is
  pps,         \* where the PPS thread is
  isRunning,   \* g_isRunning
  ppsThreadId, \* g_ppsThread: "zero", "thread", or "garbage" after a failed create
  rmcMsg,      \* g_rmcMsg
  msgValid,    \* g_rmcMessageValid
  live,        \* addresses allocated and not yet freed
  content,     \* the second each address holds
  rmc,         \* second of the sentence the main thread is handling
  copy,        \* the copy the main thread made last
  unstored,    \* stores of that hand-over still to reach memory
  loaded,      \* the PPS thread's register copy of g_rmcMsg
  segment,     \* second of the last position added to the location segment
  file,        \* m_outFile of the FileWriter, "none" when there is no writer
  serial,      \* the SerialHandler singleton exists
  ntp,         \* the NtpUpdater singleton: absent, or with or without its segment
  modemValid,  \* valid of the modem's location segment
  waited,      \* waitTime
  second,      \* true time
  due,         \* the receiver has not yet reported this second
  uart,        \* sentences received and not yet read
  fed,         \* the last time given to ntpd
  disturbed    \* the slot's message was delayed past the pulse it belongs to

slotVars == <<rmcMsg, msgValid, live, content, copy, unstored, loaded>>
lifeVars == <<isRunning, ppsThreadId, file, serial, modemValid, waited>>
gpsVars  == <<second, due, uart>>
vars == <<main, pps, rmc, segment, ntp, fed, disturbed, slotVars, lifeVars, gpsVars>>

Times == 0 .. MaxSecond
Sentences == [kind : {"fix", "nofix", "other"}, sec : Times]

StartUp == {"port", "ppsport", "shm", "logfile", "flush", "modem", "aid", "spawn"}
CheckSlot == {"slot", "msgfree", "validfree"}
ShutDown == {"exit", "join", "ntp", "serial"}
Ended == {"done", "crashed"}
MainAt == StartUp \cup {"loop", "reading", "locate"} \cup CheckSlot
            \cup {"copy", "publish", "log"} \cup ShutDown \cup Ended
\* The PPS thread holds the slot's message from the passed test to the last store.
Draining == {"use", "clear", "delete", "null"}
PpsAt == {"none", "loop", "waiting", "woken", "valid", "msg"} \cup Draining \cup {"ended"}

TypeOK ==
  /\ main \in MainAt /\ pps \in PpsAt
  /\ isRunning \in BOOLEAN /\ ppsThreadId \in {"zero", "thread", "garbage"}
  /\ rmcMsg \in Copies \cup {NULL} /\ loaded \in Copies \cup {NULL}
  /\ msgValid \in BOOLEAN
  /\ live \in SUBSET Copies /\ copy \in Copies
  /\ content \in [Copies -> Times] /\ rmc \in Times /\ segment \in Times
  /\ unstored \in SUBSET {"content", "msg", "valid"}
  /\ file \in {"none", "open", "null", "wild"}
  /\ serial \in BOOLEAN /\ ntp \in {"none", "linked", "unlinked"}
  /\ modemValid \in BOOLEAN /\ waited \in 0 .. MaxWait
  /\ second \in Times /\ due \in BOOLEAN /\ uart \in Seq(Sentences)
  /\ fed \in [n : Nat, clock : Nat, at : Times, clean : BOOLEAN]
  /\ disturbed \in BOOLEAN

Init ==
  /\ main = "port" /\ pps = "none" /\ isRunning = TRUE /\ ppsThreadId = "zero"
  /\ rmcMsg = NULL /\ msgValid = FALSE /\ loaded = NULL
  /\ live = {} /\ copy \in Copies /\ content = [c \in Copies |-> 0]
  /\ unstored = {} /\ rmc = 0 /\ segment = 0
  /\ file = "none" /\ serial = FALSE /\ ntp = "none"
  /\ modemValid \in BOOLEAN /\ waited = 0
  /\ second = 0 /\ due = FALSE /\ uart = <<>>
  /\ fed = [n |-> 0, clock |-> 0, at |-> 0, clean |-> TRUE] /\ disturbed = FALSE

-----------------------------------------------------------------------------
(* Start-up of the main thread, up to the creation of the PPS thread.      *)

OpenPort ==
  /\ main = "port" /\ main' \in {"ppsport", "exit"}
  /\ serial' = TRUE
  /\ UNCHANGED <<pps, rmc, segment, ntp, fed, disturbed, slotVars, gpsVars,
                 isRunning, ppsThreadId, file, modemValid, waited>>

\* The PPS device, then the location segment: either may be refused.
OpenPPSPort ==
  /\ main = "ppsport" /\ main' \in {"shm", "exit"}
  /\ UNCHANGED <<pps, rmc, segment, ntp, fed, disturbed, slotVars, lifeVars, gpsVars>>

AttachSegment ==
  /\ main = "shm" /\ main' \in {"logfile", "exit"}
  /\ UNCHANGED <<pps, rmc, segment, ntp, fed, disturbed, slotVars, lifeVars, gpsVars>>

\* When fopen fails m_outFile keeps whatever the new object's memory held.
OpenLogFile ==
  /\ main = "logfile" /\ main' = "flush"
  /\ file' \in {"open", "null", "wild"}
  /\ UNCHANGED <<pps, rmc, segment, ntp, fed, disturbed, slotVars, gpsVars,
                 isRunning, ppsThreadId, serial, modemValid, waited>>

\* FlushPort; then the modem's segment, skipped when it cannot be attached.
FlushPort ==
  /\ main = "flush" /\ main' \in {"modem", "aid"}
  /\ uart' = <<>>
  /\ UNCHANGED <<pps, rmc, segment, ntp, fed, disturbed, slotVars, lifeVars, second, due>>

\* Mutated: one poll too many.
KeepPollingLonger == ~modemValid /\ waited <= MaxWait
KeepPolling == ~modemValid /\ waited < MaxWait

PollModem ==
  /\ main = "modem"
  /\ \/ KeepPolling /\ waited' = waited + 1 /\ main' = main
     \/ ~KeepPolling /\ main' = "aid" /\ UNCHANGED waited
  /\ UNCHANGED <<pps, rmc, segment, ntp, fed, disturbed, slotVars, gpsVars,
                 isRunning, ppsThreadId, file, serial, modemValid>>

\* SendAidIni and the two polls only write to the receiver.
SendAid ==
  /\ main = "aid" /\ main' = "spawn"
  /\ UNCHANGED <<pps, rmc, segment, ntp, fed, disturbed, slotVars, lifeVars, gpsVars>>

\* A pthread_create that fails may have stored a thread id already.
SpawnPpsThread ==
  /\ main = "spawn"
  /\ \/ main' = "loop" /\ pps' = "loop" /\ ppsThreadId' = "thread"
     \/ main' = "exit" /\ pps' = pps /\ ppsThreadId' \in {"zero", "garbage"}
  /\ UNCHANGED <<rmc, segment, ntp, fed, disturbed, slotVars, gpsVars,
                 isRunning, file, serial, modemValid, waited>>

-----------------------------------------------------------------------------
(* The main loop: read a sentence, publish its position, offer its time.   *)

\* Mutated: the flag is loaded once, as the compiler may do for a plain bool that no
\* call could change.
RunningOnEntry == TRUE
Running == isRunning

TestRunning ==
  /\ main = "loop"
  /\ main' = IF Running THEN "reading" ELSE "exit"
  /\ UNCHANGED <<pps, rmc, segment, ntp, fed, disturbed, slotVars, lifeVars, gpsVars>>

\* Mutated: the time is offered and the position is not added.
SkipLocation == "slot"
WithFix == "locate"

\* ReadPort blocks while nothing arrives.  Only an RMC sentence with a fix does more; but
\* an "other" may be the answer to SendAid's poll, whose callback nobody has set (module
\* Receiver), and the call the end of the process.
ReadSentence ==
  /\ main = "reading" /\ uart # <<>>
  /\ uart' = Tail(uart)
  /\ CASE Head(uart).kind = "fix"   -> main' = WithFix /\ rmc' = Head(uart).sec
       [] Head(uart).kind = "nofix" -> main' = "loop" /\ rmc' = rmc
       [] OTHER                     -> main' \in {"loop", "crashed"} /\ rmc' = rmc
  /\ UNCHANGED <<pps, segment, ntp, fed, disturbed, slotVars, lifeVars, second, due>>

\* addLocation (its stores one by one are module LocationShm's subject).
Locate ==
  /\ main = "locate" /\ main' = "slot"
  /\ segment' = rmc
  /\ UNCHANGED <<pps, rmc, ntp, fed, disturbed, slotVars, lifeVars, gpsVars>>

\* Mutated: only the flag is tested.
MsgIgnored == FALSE
MsgSet == rmcMsg # NULL

\* if ((!g_rmcMsg) && (!g_rmcMessageValid)): two loads, the pointer's first in the source.
LoadSlotMsg ==
  /\ \/ main \in {"slot", "validfree"} /\ MsgSet /\ main' = "log"
     \/ main = "slot" /\ ~MsgSet /\ main' = "msgfree"
     \/ main = "validfree" /\ ~MsgSet /\ main' = "copy"
  /\ UNCHANGED <<pps, rmc, segment, ntp, fed, disturbed, slotVars, lifeVars, gpsVars>>

LoadSlotValid ==
  /\ \/ main = "msgfree" /\ main' = IF msgValid THEN "log" ELSE "copy"
     \/ main = "slot" /\ ~SourceOrder /\ main' = IF msgValid THEN "log" ELSE "validfree"
  /\ UNCHANGED <<pps, rmc, segment, ntp, fed, disturbed, slotVars, lifeVars, gpsVars>>

\* new GprmcMessage(*rmcMsg): the address, with the stores of the hand-over to come.
AllocateCopy ==
  /\ main = "copy" /\ main' = "publish"
  /\ copy' \in Copies \ live
  /\ live' = live \cup {copy'}
  /\ unstored' = {"content", "msg", "valid"}
  /\ UNCHANGED <<pps, rmc, segment, ntp, fed, disturbed, rmcMsg, msgValid, content, loaded,
                 lifeVars, gpsVars>>

\* Mutated: the flag is raised before the copy is made.
FlagFirst == [content |-> 2, msg |-> 3, valid |-> 1]
StoreOrder == [content |-> 1, msg |-> 2, valid |-> 3]
NextStore(x) ==
  x \in unstored /\ (SourceOrder => \A y \in unstored : StoreOrder[x] <= StoreOrder[y])

\* The message is late if its second is over or the thread woken in it is not done.
Late == rmc # second \/ pps \in {"woken", "valid", "msg"}

PublishStore(x) ==
  /\ main = "publish" /\ NextStore(x)
  /\ unstored' = unstored \ {x}
  /\ content'  = IF x = "content" THEN [content EXCEPT ![copy] = rmc] ELSE content
  /\ rmcMsg'   = IF x = "msg" THEN copy ELSE rmcMsg
  /\ msgValid' = IF x = "valid" THEN TRUE ELSE msgValid
  /\ main' = IF unstored' = {} THEN "log" ELSE main
  /\ disturbed' = (disturbed \/ (x = "valid" /\ Late))
  /\ UNCHANGED <<pps, rmc, segment, ntp, fed, live, copy, loaded, lifeVars, gpsVars>>

Publish == \E x \in {"content", "msg", "valid"} : PublishStore(x)

\* WriteLine: fwrite through a wild FILE pointer may bring the process down.
WriteLog ==
  /\ main = "log"
  /\ main' \in IF file = "wild" THEN {"loop", "crashed"} ELSE {"loop"}
  /\ UNCHANGED <<pps, rmc, segment, ntp, fed, disturbed, slotVars, lifeVars, gpsVars>>

-----------------------------------------------------------------------------
(* exited(), the atexit handler of every return from main.                 *)

CloseFile ==
  /\ main = "exit"
  /\ main' \in IF file = "wild" THEN {"join", "crashed"} ELSE {"join"}
  /\ file' = "none"
  /\ UNCHANGED <<pps, rmc, segment, ntp, fed, disturbed, slotVars, gpsVars,
                 isRunning, ppsThreadId, serial, modemValid, waited>>

\* Mutated: exited() does not wait for the thread.
NotJoined == TRUE
Joined == ppsThreadId = "thread" => pps = "ended"

JoinPpsThread ==
  /\ main = "join" /\ Joined
  /\ main' \in IF ppsThreadId = "garbage" THEN {"ntp", "crashed"} ELSE {"ntp"}
  /\ UNCHANGED <<pps, rmc, segment, ntp, fed, disturbed, slotVars, lifeVars, gpsVars>>

CleanupNtpUpdater ==
  /\ main = "ntp" /\ main' = "serial"
  /\ ntp' = "none"
  /\ UNCHANGED <<pps, rmc, segment, fed, disturbed, slotVars, lifeVars, gpsVars>>

CleanupSerialHandler ==
  /\ main = "serial" /\ main' = "done"
  /\ serial' = FALSE
  /\ UNCHANGED <<pps, rmc, segment, ntp, fed, disturbed, slotVars, gpsVars,
                 isRunning, ppsThreadId, file, modemValid, waited>>

-----------------------------------------------------------------------------
(* The PPS thread.                                                         *)

PpsMoves == main # "crashed" \* a crash takes the whole process down

\* while (g_isRunning), then into WaitForPPS; pthread_exit when it is false.
PpsTest ==
  /\ PpsMoves /\ pps = "loop"
  /\ pps' = IF Running THEN "waiting" ELSE "ended"
  /\ UNCHANGED <<main, rmc, segment, ntp, fed, disturbed, slotVars, lifeVars, gpsVars>>

\* time_pps_fetch gives up after one second, or when a signal interrupts it.
PpsTimeout ==
  /\ PpsMoves /\ pps = "waiting" /\ pps' = "loop"
  /\ UNCHANGED <<main, rmc, segment, ntp, fed, disturbed, slotVars, lifeVars, gpsVars>>

\* if ((g_rmcMessageValid) && (g_rmcMsg)): the pointer is loaded into a register.
PpsLoadValid ==
  /\ PpsMoves
  /\ \/ pps = "woken" /\ pps' = IF msgValid THEN "valid" ELSE "loop"
     \/ pps = "msg" /\ pps' = IF msgValid THEN "use" ELSE "loop"
  /\ UNCHANGED <<main, rmc, segment, ntp, fed, disturbed, slotVars, lifeVars, gpsVars>>

PpsLoadMsg ==
  /\ PpsMoves
  /\ loaded' = rmcMsg
  /\ \/ pps = "valid" /\ pps' = IF rmcMsg # NULL THEN "use" ELSE "loop"
     \/ pps = "woken" /\ ~SourceOrder /\ pps' = IF rmcMsg # NULL THEN "msg" ELSE "loop"
  /\ UNCHANGED <<main, rmc, segment, ntp, fed, disturbed, lifeVars, gpsVars,
                 rmcMsg, msgValid, live, content, copy, unstored>>

\* Mutated: the sentence's own second, without ++dectime.
SecondOf(c) == content[c]
TimeAtPulse(c) == content[c] + 1

\* Mutated: the message stays in the slot.
KeepMessage == "loop"
AfterFeed == "clear"

\* SetNTPTime: the message's second plus one is the time now (the image has no time zone,
\* so mktime's local time is UTC).  The first call makes the NtpUpdater, whose constructor
\* may fail to attach ntpd's segment.
FeedNtp ==
  /\ PpsMoves /\ pps = "use" /\ pps' = AfterFeed
  /\ ntp' \in IF ntp = "none" THEN {"linked", "unlinked"} ELSE {ntp}
  /\ fed' = IF ntp' = "linked"
              THEN [n |-> fed.n + 1, clock |-> TimeAtPulse(loaded),
                    at |-> second, clean |-> ~disturbed]
              ELSE fed
  /\ UNCHANGED <<main, rmc, segment, disturbed, slotVars, lifeVars, gpsVars>>

ClearValid ==
  /\ PpsMoves /\ pps = "clear" /\ pps' = "delete"
  /\ msgValid' = FALSE
  /\ UNCHANGED <<main, rmc, segment, ntp, fed, disturbed, lifeVars, gpsVars,
                 rmcMsg, live, content, copy, unstored, loaded>>

DeleteMsg ==
  /\ PpsMoves /\ pps = "delete" /\ pps' = "null"
  /\ live' = live \ {rmcMsg}
  /\ UNCHANGED <<main, rmc, segment, ntp, fed, disturbed, lifeVars, gpsVars,
                 rmcMsg, msgValid, content, copy, unstored, loaded>>

ClearMsg ==
  /\ PpsMoves /\ pps = "null" /\ pps' = "loop"
  /\ rmcMsg' = NULL /\ disturbed' = FALSE
  /\ UNCHANGED <<main, rmc, segment, ntp, fed, lifeVars, gpsVars,
                 msgValid, live, content, copy, unstored, loaded>>

-----------------------------------------------------------------------------
(* The receiver, the modem's locator and the signal.                       *)

\* The pulse of a new second wakes the thread only if it is waiting at that moment,
\* and the receiver may leave it out.
NewSecond(wake) ==
  /\ second < MaxSecond
  /\ wake => pps = "waiting" /\ PpsMoves
  /\ second' = second + 1 /\ due' = TRUE
  /\ pps' = IF wake THEN "woken" ELSE pps
  /\ disturbed' = (disturbed \/ (msgValid /\ ~wake))
  /\ UNCHANGED <<main, rmc, segment, ntp, fed, slotVars, lifeVars, uart>>

\* One RMC sentence a second, with or without a fix; any number of other messages.
Report ==
  /\ Len(uart) < MaxBacklog
  /\ \/ /\ due /\ due' = FALSE
        /\ \E kind \in {"fix", "nofix"} : uart' = Append(uart, [kind |-> kind, sec |-> second])
     \/ /\ uart' = Append(uart, [kind |-> "other", sec |-> second]) /\ UNCHANGED due
  /\ UNCHANGED <<main, pps, rmc, segment, ntp, fed, disturbed, slotVars, lifeVars, second>>

ModemLocated ==
  /\ ~modemValid /\ modemValid' = TRUE
  /\ UNCHANGED <<main, pps, rmc, segment, ntp, fed, disturbed, slotVars, gpsVars,
                 isRunning, ppsThreadId, file, serial, waited>>

\* sig_handler, once installed.
Terminate ==
  /\ main \notin Ended /\ isRunning /\ isRunning' = FALSE
  /\ UNCHANGED <<main, pps, rmc, segment, ntp, fed, disturbed, slotVars, gpsVars,
                 ppsThreadId, file, serial, modemValid, waited>>

-----------------------------------------------------------------------------
MainStep ==
  \/ OpenPort \/ OpenPPSPort \/ AttachSegment \/ OpenLogFile \/ FlushPort
  \/ PollModem \/ SendAid \/ SpawnPpsThread
  \/ TestRunning \/ ReadSentence \/ Locate
  \/ LoadSlotMsg \/ LoadSlotValid \/ AllocateCopy \/ Publish \/ WriteLog
  \/ CloseFile \/ JoinPpsThread \/ CleanupNtpUpdater \/ CleanupSerialHandler

PpsStep ==
  \/ PpsTest \/ PpsTimeout \/ PpsLoadValid \/ PpsLoadMsg
  \/ FeedNtp \/ ClearValid \/ DeleteMsg \/ ClearMsg

Environment ==
  (\E wake \in BOOLEAN : NewSecond(wake)) \/ Report \/ ModemLocated \/ Terminate

Next == MainStep \/ PpsStep \/ Environment

Spec == Init /\ [][Next]_vars

\* Both threads get the processor, the PPS wait times out, and the receiver keeps
\* sending something: the main thread blocks in read() until it does.
FairSpec == Spec /\ WF_vars(MainStep) /\ WF_vars(PpsStep) /\ WF_vars(Report)

-----------------------------------------------------------------------------
(* Properties.                                                             *)

\* The hand-over without a lock (main.cpp:82-90, 267-271): the PPS thread reads and
\* frees only a message that is allocated, the address it read first is still the one
\* it frees, and the main thread never makes a second copy while one is out, so none
\* leaks.  Whatever order the plain accesses take.
HandoffSafe ==
  /\ pps = "use" => loaded \in live
  /\ pps \in {"clear", "delete"} => rmcMsg \in live /\ rmcMsg = loaded
  /\ main = "copy" => live = {}
  /\ \A c, d \in live : c = d

\* What is fed is a finished message, and no store of a hand-over lands in freed
\* memory (main.cpp:269): only if the build keeps the source order.
WholeMessage ==
  SourceOrder =>
    /\ pps = "use" => unstored = {} /\ content[loaded] # 0
    /\ "content" \in unstored => copy \in live /\ ~msgValid

\* exited() frees the singletons only after the PPS thread is gone (main.cpp:32-43),
\* on every path into it: the thread always finds the SerialHandler it waits on, and
\* no thread outlives main.
OutlivesPpsThread ==
  /\ pps \notin {"none", "ended"} => serial /\ main \notin {"ntp", "serial", "done"}
  /\ pps \in Draining \ {"use"} => ntp # "none"

\* The time fed is the true time when it is fed (NtpUpdater.cpp:43-45), unless a
\* second began that the PPS thread slept or worked through while a message waited,
\* or the message itself came late.
FeedRight == SourceOrder /\ fed.clean => fed.clock = fed.at

\* No message is fed twice and the time fed never goes back (main.cpp:80-90).
FedOnce == [][fed' # fed /\ SourceOrder => fed'.clock > fed.clock]_vars

\* ntpd never gets a time from a fix that is not yet in the location segment:
\* the position of a message is added before its time is offered (main.cpp:262-270).
LocatedFirst == [][fed' # fed => fed'.clock <= segment + 1]_vars

\* SIGTERM ends the process: the main loop sees it, the PPS thread leaves its wait, and
\* exited() joins it, from any point of the start-up or the loop.
Terminates == ~isRunning ~> main \in Ended

\* The steps a thread has before it when the process is to end: so many polls in the
\* start-up, and at the hand-over so many stores.
MainRank == [port |-> 13, ppsport |-> 12, shm |-> 11, logfile |-> 10, flush |-> 9, modem |-> 8,
             aid |-> 7, spawn |-> 6, reading |-> 14, locate |-> 13, slot |-> 12, msgfree |-> 11,
             validfree |-> 11, copy |-> 10, publish |-> 6, log |-> 6, loop |-> 5,
             exit |-> 4, join |-> 3, ntp |-> 2, serial |-> 1, done |-> 0, crashed |-> 0]
PpsRank == [none |-> 9, waiting |-> 8, woken |-> 7, valid |-> 6, msg |-> 6, use |-> 5,
            clear |-> 4, delete |-> 3, null |-> 2, loop |-> 1, ended |-> 0]

StoreLeft(x) == IF x \in unstored THEN 1 ELSE 0
MainLeft == MainRank[main]
              + (IF main \in StartUp THEN MaxWait - waited ELSE 0)
              + (IF main = "publish" THEN StoreLeft("content") + StoreLeft("msg") + StoreLeft("valid") ELSE 0)
PpsLeft == PpsRank[pps]

\* After SIGTERM no thread goes round again: from wherever the signal finds it, every step
\* brings each thread nearer to its end, whatever the other does and however often a pulse
\* comes (main.cpp:32-43, 52, 78, 225).  Only what they wait for has no limit.
ShutdownAdvances ==
  [][~isRunning =>
       /\ ~isRunning'
       /\ <<main, waited, unstored>>' # <<main, waited, unstored>> => MainLeft' < MainLeft
       /\ pps' # pps => PpsLeft' < PpsLeft]_vars

\* The slot as the promise sees it: full from the last store to the call that uses it,
\* used until the pointer is null again.
SlotState == IF pps \in {"clear", "delete", "null"} THEN "used"
             ELSE IF msgValid /\ rmcMsg # NULL THEN "full" ELSE "empty"

SlotMsg == IF SlotState = "empty" THEN 0 ELSE content[copy]

Slot == INSTANCE OneMessageSlot WITH slot <- SlotState, msg <- SlotMsg, out <- fed.clock

\* The two threads' loads and stores, in source order, implement a one-message slot.
ImplementsSlot == Slot!Spec
===========================================================================

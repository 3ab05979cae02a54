------------------------------ MODULE Uploader ------------------------------
(***************************************************************************)
(* The celluploader process (celluploader/main.cpp) beside the writer of   *)
(* the location segment.  After a start-up that may fail at several places *)
(* it polls the segment, copies a changed position out of it load by load, *)
(* uploads it over PPP and sleeps; on every exit it uploads once more.     *)
(*                                                                         *)
(* A coordinate is the number of the sample it came from; 0 is the modem's *)
(* location or none.  uploadData is a subroutine: ret says where it        *)
(* returns to.  The network decides freely what connects and arrives.      *)
(***************************************************************************)
EXTENDS LocationShm

VARIABLES
  up,        \* where the process is
  ret,       \* where uploadData returns to
  isRunning, \* g_isRunning
  attached,  \* g_gpsLocationShm is not null
  deviceKey, \* g_deviceKey is not empty
  ppp,       \* ppp0 is up
  sock,      \* m_sock is open
  cached,    \* g_longitude and g_latitude
  toCopy,    \* which of them is still to be copied
  last,      \* g_lastLocationTime
  checked,   \* the latitude there when valid was found set
  overlap,   \* valid was cleared again before the copy was complete
  report     \* the last message composed

procVars == <<isRunning, attached, deviceKey, ppp>>
copyVars == <<cached, toCopy, last, checked, overlap>>
upVars   == <<up, ret, sock, report, procVars, copyVars>>
vars     == <<writerVars, upVars>>

Steps == {"attach", "setup", "locate", "ppp", "config", "fixwait", "loop", "checkValid", "copy",
          "after", "upload", "send", "disconnect", "exit", "kill", "done", "crashed"}
Returns == {"first", "loop", "exit"}
Ended == {"done", "crashed"}

TypeOK ==
  /\ ShmTypeOK
  /\ up \in Steps /\ ret \in Returns
  /\ isRunning \in BOOLEAN /\ attached \in BOOLEAN /\ deviceKey \in BOOLEAN
  /\ ppp \in BOOLEAN /\ sock \in BOOLEAN
  /\ cached \in [longitude : Samples, latitude : Samples]
  /\ toCopy \in SUBSET {"longitude", "latitude"}
  /\ last \in Clocks /\ checked \in Samples /\ overlap \in BOOLEAN
  /\ report \in [from : {"none"} \cup Returns, longitude : Samples, latitude : Samples,
                 speed : Samples]

Init ==
  /\ ShmInit
  /\ up = "attach" /\ ret = "first" /\ isRunning = TRUE
  /\ attached = FALSE /\ deviceKey = FALSE /\ ppp = FALSE /\ sock = FALSE
  /\ cached = [longitude |-> 0, latitude |-> 0] /\ toCopy = {}
  /\ last = 0 /\ checked = 0 /\ overlap = FALSE
  /\ report = [from |-> "none", longitude |-> 0, latitude |-> 0, speed |-> 0]

-----------------------------------------------------------------------------
(* Start-up.  Every return from main runs exited().                        *)

\* Mutated: a failure to attach is logged and passed over.
GoesOn == "setup"
GivesUp == "exit"

AttachShm ==
  /\ up = "attach"
  /\ \/ up' = "setup" /\ attached' = TRUE
     \/ up' = GivesUp /\ UNCHANGED attached
  /\ UNCHANGED <<writerVars, ret, sock, report, copyVars, isRunning, deviceKey, ppp>>

SetupModem ==
  /\ up = "setup" /\ up' \in {"locate", "exit"}
  /\ UNCHANGED <<writerVars, ret, sock, report, copyVars, procVars>>

\* GrabNetworkLocation: the modem's location or zeroes.  When the modem does not answer
\* OK the function ends without a return, and anything may follow.
GrabNetworkLocation ==
  /\ up = "locate" /\ up' \in {"ppp", "crashed"}
  /\ cached' = [longitude |-> 0, latitude |-> 0]
  /\ UNCHANGED <<writerVars, ret, sock, report, procVars, toCopy, last, checked, overlap>>

CheckForPPPConnection == ppp

\* Polled every second; g_isRunning is not consulted.
WaitForPPP ==
  /\ up = "ppp" /\ CheckForPPPConnection /\ up' = "config"
  /\ UNCHANGED <<writerVars, ret, sock, report, procVars, copyVars>>

\* The interval only lengthens sleeps; without a device key there is nothing to do.
ReadConfig ==
  /\ up = "config"
  /\ \/ deviceKey' = TRUE /\ up' = "upload" /\ ret' = "first"
     \/ up' = "exit" /\ UNCHANGED <<deviceKey, ret>>
  /\ UNCHANGED <<writerVars, sock, report, copyVars, isRunning, attached, ppp>>

\* Mutated: the loops do not notice the signal.
SignalMissed == TRUE
Running == isRunning

WaitForInitialFix ==
  /\ up = "fixwait" /\ (Running => shm.valid)
  /\ up' = "loop"
  /\ UNCHANGED <<writerVars, ret, sock, report, procVars, copyVars>>

-----------------------------------------------------------------------------
(* The main loop.                                                          *)

\* Mutated: only a later time counts, which a clock set back does not give.
ChangedLater == shm.lastUpdated > last
Changed == shm.lastUpdated # last

\* When the time is the one remembered, sleep a second and come back.
CheckTime ==
  /\ up = "loop"
  /\ up' = IF ~Running THEN "exit"
           ELSE IF Changed THEN "checkValid" ELSE "loop"
  /\ UNCHANGED <<writerVars, ret, sock, report, procVars, copyVars>>

\* Mutated: valid is not looked at.
ValidIgnored == TRUE
SeesValid == shm.valid

CheckValid ==
  /\ up = "checkValid"
  /\ IF SeesValid
       THEN up' = "copy" /\ checked' = shm.latitude /\ toCopy' = {"longitude", "latitude"}
       ELSE up' = "loop" /\ UNCHANGED <<checked, toCopy>>
  /\ UNCHANGED <<writerVars, ret, sock, report, procVars, cached, last, overlap>>

\* Mutated: latitude first.
LatitudeFirst == "latitude"
CopiedFirst == "longitude"

Copy(c) ==
  /\ up = "copy" /\ c \in toCopy
  /\ SourceOrder /\ CopiedFirst \in toCopy => c = CopiedFirst
  /\ cached' = [cached EXCEPT ![c] = shm[c]]
  /\ toCopy' = toCopy \ {c}
  /\ IF toCopy' = {}
       THEN up' = "upload" /\ ret' = "loop" /\ overlap' = ~(shm.valid /\ shm.latitude = checked)
       ELSE UNCHANGED <<up, ret, overlap>>
  /\ UNCHANGED <<writerVars, sock, report, procVars, last, checked>>

\* After the upload the time is read again; then sleep(reportingInterval).
RememberTime ==
  /\ up = "after" /\ up' = "loop"
  /\ last' = shm.lastUpdated
  /\ UNCHANGED <<writerVars, ret, sock, report, procVars, cached, toCopy, checked, overlap>>

-----------------------------------------------------------------------------
(* uploadData and exited().                                                *)

ReturnTo == CASE ret = "first" -> "fixwait" [] ret = "loop" -> "after" [] OTHER -> "kill"

\* No device key: return at once.  Else Connect, which fails when a socket is open, on a
\* failed look-up, or on a refused connection, and then leaves no socket.
Connect ==
  /\ up = "upload"
  /\ \/ ~deviceKey /\ up' = ReturnTo /\ UNCHANGED sock
     \/ deviceKey /\ ~sock /\ up' = "send" /\ sock' = TRUE
     \/ deviceKey /\ up' = "disconnect" /\ UNCHANGED sock
  /\ UNCHANGED <<writerVars, ret, report, procVars, copyVars>>

\* Mutated: on exit the modem's location is sent.
ModemOnExit(c) == IF ret = "exit" THEN 0 ELSE cached[c]
Sent(c) == cached[c]

\* The message takes its speed from the segment now; send may lose it unnoticed.
Send ==
  /\ up = "send" /\ up' = "disconnect"
  /\ report' = [from |-> ret, longitude |-> Sent("longitude"), latitude |-> Sent("latitude"),
                speed |-> shm.speed]
  /\ UNCHANGED <<writerVars, ret, sock, procVars, copyVars>>

\* Mutated: the socket is left open.
LeftOpen == sock
Closed == FALSE

Disconnect ==
  /\ up = "disconnect" /\ up' = ReturnTo
  /\ sock' = Closed
  /\ UNCHANGED <<writerVars, ret, report, procVars, copyVars>>

Exited ==
  /\ up = "exit" /\ up' = "upload" /\ ret' = "exit"
  /\ UNCHANGED <<writerVars, sock, report, procVars, copyVars>>

KillPppd ==
  /\ up = "kill" /\ up' = "done" /\ ppp' = FALSE
  /\ UNCHANGED <<writerVars, ret, sock, report, copyVars, isRunning, attached, deviceKey>>

-----------------------------------------------------------------------------
UploaderStep ==
  \/ AttachShm \/ SetupModem \/ GrabNetworkLocation \/ WaitForPPP \/ ReadConfig
  \/ WaitForInitialFix \/ CheckTime \/ CheckValid \/ (\E c \in {"longitude", "latitude"} : Copy(c))
  \/ RememberTime \/ Connect \/ Send \/ Disconnect \/ Exited \/ KillPppd

\* sig_handler, once installed.
Terminate ==
  /\ up \notin Ended /\ isRunning /\ isRunning' = FALSE
  /\ UNCHANGED <<writerVars, up, ret, sock, report, copyVars, attached, deviceKey, ppp>>

\* pppd, once started, brings the link up, or it goes down.
PppUp ==
  /\ up \notin {"attach", "setup", "locate"} \cup Ended /\ ~ppp /\ ppp' = TRUE
  /\ UNCHANGED <<writerVars, up, ret, sock, report, copyVars, isRunning, attached, deviceKey>>

PppDown ==
  /\ ppp /\ ppp' = FALSE
  /\ UNCHANGED <<writerVars, up, ret, sock, report, copyVars, isRunning, attached, deviceKey>>

Next == UploaderStep \/ Terminate \/ PppUp \/ PppDown \/ (ShmNext /\ UNCHANGED upVars)

Spec == Init /\ [][Next]_vars

\* The process gets the processor and its network calls return.
FairSpec == Spec /\ WF_vars(UploaderStep)

\* And the link comes up, often enough for the poll to see it.
PppSpec == FairSpec /\ WF_vars(PppUp) /\ SF_vars(WaitForPPP)

-----------------------------------------------------------------------------
(* Properties.                                                             *)

Uploading == {"upload", "send", "disconnect", "after"}

\* Every upload finds the socket closed, from whichever place it is called.  Connect refuses
\* an open one, and that report would be lost (SocketHandler.cpp:23-27, main.cpp:181-192).
SocketClosed == up \notin {"send", "disconnect"} => ~sock

\* uploadData reads the speed through g_gpsLocationShm, also on the exits taken before
\* the segment is attached (main.cpp:24, 73-78, 184).
SegmentMapped == up = "send" => attached

\* Reading longitude first while the writer stores latitude first, the copy can only be
\* torn one way: its latitude is of the same sample as its longitude or of a later one
\* (main.cpp:138-139, locationshm.cpp:34-35).
LatitudeNotOlder == SourceOrder /\ toCopy = {} => cached.longitude <= cached.latitude

\* What the main loop uploads is one whole position, unless addLocation cleared valid
\* between the test of valid and the end of the copy (main.cpp:134-139).
WholeUnlessOverlapped ==
  SourceOrder /\ ret = "loop" /\ up \in Uploading /\ ~overlap =>
    cached.longitude = checked /\ cached.latitude = checked /\ checked # 0

\* Reports never go back: neither the loop, nor the upload on exit, nor a writer that
\* died and started again makes the server see an older position after a newer one.
ReportsAdvance ==
  [][report' # report =>
       /\ report'.longitude >= report.longitude
       /\ report'.latitude >= report.latitude]_vars

\* The steps the process has before it when it is to end; uploadData takes three more than
\* the place it returns to.
Rank == [attach |-> 15, setup |-> 14, locate |-> 13, ppp |-> 12, config |-> 11, fixwait |-> 7,
         checkValid |-> 13, copy |-> 10, after |-> 7, loop |-> 6, exit |-> 5,
         upload |-> 3, send |-> 2, disconnect |-> 1, kill |-> 1, done |-> 0, crashed |-> 0]
CopyLeft(c) == IF c \in toCopy THEN 1 ELSE 0
StepsLeft ==
  Rank[up]
    + (IF up \in {"upload", "send", "disconnect"} THEN IF ret = "exit" THEN 1 ELSE 7 ELSE 0)
    + (IF up = "copy" THEN CopyLeft("longitude") + CopyLeft("latitude") ELSE 0)

\* After SIGTERM the process goes straight to its end: wherever the signal finds it, also
\* inside an upload of the loop, every step brings it nearer, with the upload on exit still
\* to come (main.cpp:21-35, 132, 159).  Only its wait for the link has no limit.
ShutdownAdvances ==
  [][~isRunning => ~isRunning' /\ (<<up, toCopy>>' # <<up, toCopy>> => StepsLeft' < StepsLeft)]_vars

\* SIGTERM ends the process with its exit upload and pppd stopped (main.cpp:21-35),
\* provided the link comes up.
Terminates == ~isRunning ~> up \in Ended

\* A valid position whose time is not the one remembered is handed to uploadData, itself or
\* a later one in its place, while the process runs and once valid stays up (main.cpp:132-
\* 152).  Not so when a later position comes with the very time remembered, as it may when
\* the clock was set back.  A position stamped within the second of the last one is not
\* covered (UnchangedMeansUploaded), and whether the upload succeeds is not either: one
\* that fails to connect or is lost is not repeated.
CatchesUp ==
  <>[]shm.valid =>
    \A n \in Samples \ {0} :
      up = "loop" /\ shm.valid /\ shm.latitude = n /\ shm.lastUpdated # last ~>
        \/ up = "upload" /\ ret = "loop" /\ cached.latitude >= n
        \/ shm.lastUpdated = last \/ ~isRunning \/ up \in Ended

-----------------------------------------------------------------------------
(* What comments and scripts say, and the code does not do.                *)

\* main.cpp:148, "The data hasn't changed, keep trying every second until it has": when
\* the loop takes the data for unchanged, it is what was uploaded.
UnchangedMeansUploaded ==
  up = "loop" /\ shm.valid /\ shm.lastUpdated = last /\ ~overlap => shm.latitude = cached.latitude

\* shutdown.sh:18, "Shutdown Realtime reporting (and report current location)": the
\* report on exit carries the location the segment holds then.
ExitReportsCurrent ==
  [][report' # report /\ ret = "exit" /\ shm.valid => report'.latitude = shm.latitude]_vars
=============================================================================

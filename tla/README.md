# PiCarTracking in TLA+

A verification project for the car tracker in `src/`: a Raspberry Pi that reads a GPS
receiver, disciplines ntpd with it, and reports the car's position over a cellular modem.
It holds TLA+ models of the parts that run beside each other, TLC runs on small instances,
and TLAPS proofs for every value of the constants.

## 1. The system

| Component | State it keeps | Operations | Modelled by |
|---|---|---|---|
| **gpslogger, two threads** (`gpslogger/main.cpp`, `FileWriter.*`) | `g_isRunning`, `g_rmcMsg` and `g_rmcMessageValid` (a one-message slot), `g_ppsThread`, `g_fileWriter`, the singletons | start-up, main loop over NMEA sentences, PPS loop, `sig_handler`, `exited()` | `GpsLogger`, `OneMessageSlot` |
| **gpslogger ports** (`gpslogger/SerialHandler.*`) | two descriptors, a PPS handle, the kernel's input queue | open, flush, read byte by byte, wait for a pulse | `Receiver`; blocking, pulse and life of the object in `GpsLogger`; terminal settings not |
| **ntpd segment** (`gpslogger/NtpUpdater.*`) | `shmTime`: mode, count, valid and a reading | `SetNTPTime`, `SetTime`; read by ntpd, which is not in this repository | `NtpShm` |
| **location segment** (`shared/locationshm.*`) | `shmLocation`: valid, latitude, longitude, speed, lastUpdated; it outlives both processes | `addLocation`; loads by the readers | `LocationShm` |
| **celluploader** (`celluploader/main.cpp`, `SocketHandler.*`) | `g_isRunning`, the cached coordinates, `g_lastLocationTime`, the device key, the socket | start-up, wait for PPP, wait for a fix, report loop, `uploadData`, `exited()` | `Uploader` |
| **modem dialogue** (`celluploader/ATLocHandler.*`, `SerialHandler.*`) | port, modem location segment | four AT commands and the parsing of the answer | `ModemLocate`; its outcomes in `Uploader` |
| **NMEA parser** (`gpslogger/NmeaParser.*`, `nmea/`) | none between sentences | checksum, tokens, fields | `NmeaParser` |
| **ublox protocol** (`gpslogger/ublox/`, and its use in `gpslogger/main.cpp`) | a buffer of 128 bytes, a callback | the aiding message, two polls, the framing and parsing of the answers | `Receiver` |
| **configuration file** (`shared/config.*`) | an open file and its position | `openFile`, `ReadItem`, `ReadItemInt` | `Config`; the outcome in `Uploader` |
| **helpers** (`shared/strutils.*`, `gpsutils.*`) | tokeniser contexts | comparison, tokenising, unit conversion | `Tokens`, and the comparison in `Config`; not the copying and the floating point |
| **logger** (`shared/Logger.*`) | a log file | `Write` | no: nothing reads what it keeps |
| **scripts of a power cycle** (`skel/etc/init.d`, `inittab`, `skel/opt/upspico/shutdown.sh`) | the running processes, the place of init and of `shutdown.sh` | start, stop, restart, the orderly shutdown | `PowerCycle` |
| **scripts of the flash** (`skel/picar/sbin`, `S11loadconf`, `S50sshd`) | the flash partition, its mount, the files in memory | load at boot, two scripts that save | `Flash` |
| **UPS monitor, buildroot, kernel configuration** | | | no: empty submodules and data |

How they interact:

* The receiver sends sentences to the main thread of gpslogger and a pulse at the start of
  each second to its PPS thread. The main thread copies a sentence into the slot; the PPS
  thread, woken by the pulse, gives its time to ntpd and frees it. No lock is taken.
* gpslogger writes the location segment, celluploader polls it. Two processes share five
  plain fields, one of them volatile.
* celluploader writes a second segment of the same layout with the modem's location, for
  which gpslogger waits up to a minute at its start.
* At boot init loads the saved files from flash, makes the host keys and starts both programs;
  the UPS monitor runs from the first boot script on.
* When the UPS asks for it, `shutdown.sh` sends SIGTERM to gpslogger, waits until it is gone, does
  the same with celluploader, and has init run down; init saves ntpd's drift and kills the rest.

What is hard in it: the unlocked hand-over between the threads, with a compiler free to move
the plain accesses; the reads of both segments while they are written; a writer that dies
half way through; a pulse that times out or comes while its thread is busy; failures at each
step of the start-up, all of which run `exited()`; signals while a process blocks; flags and
coordinates that outlive what they describe; input that overflows and is cut anywhere while
nobody reads it; scripts that overlap, and power that may go between any two of their steps. `PROJECT.json` lists each hazard at its line
with the properties meant for it.

## 2. The modules

`Module_proofs` EXTENDS the module and TLAPS and holds its theorems; `Parsers_proofs` holds those
on `NmeaParser` and `Config`, and `Scripts_proofs` those on `PowerCycle` and `Flash`. `MCModule`
EXTENDS the module for TLC.

### GpsLogger

`main` and `pps` are the two program counters. Start-up has one action per thing that can
fail (`OpenPort`, `OpenPPSPort`, `AttachSegment`, `OpenLogFile`, ... `SpawnPpsThread`), each
with its way into `exited()`, whose four steps are `CloseFile`, `JoinPpsThread`,
`CleanupNtpUpdater` and `CleanupSerialHandler`. In the loops every load and store of the slot
is an action: `LoadSlotMsg`, `LoadSlotValid`, `AllocateCopy`, `PublishStore` in the main
thread; `PpsLoadValid`, `PpsLoadMsg`, `FeedNtp`, `ClearValid`, `DeleteMsg`, `ClearMsg` in the
other.

A message is the second it was sent in. `content` says what an address holds, `live` which
addresses are allocated, and freed addresses are reused. `loaded` is the pointer the PPS
thread read in its test; using it while testing again for the `delete` is as close to the
code as a compiler may get. `unstored` holds the three stores of a hand-over (the copied
message, the pointer, the flag) that have not reached memory.

`SourceOrder` is the question of whether the build keeps the plain accesses in source order
with the volatile ones. With FALSE the two loads of each test and the three stores come in
any order. The Pi Zero has one core, so the compiler is the only one to reorder.

The receiver sends one RMC sentence a second, with or without a fix, and any number of
others (`Report`); the pulse (`NewSecond`) wakes the PPS thread only if it waits then.
A UBX answer among the others may end the process, by way of a callback nobody sets.
`disturbed` remembers whether the message in the slot came late or was passed over by a
pulse; `fed` is the last time given to ntpd and whether its message was undisturbed.

When the log directory is missing the file pointer keeps the memory's old content
(`FileWriter.cpp:18`); with a wild pointer every write and the close may end the process.

### OneMessageSlot

What the hand-over promises: put into an empty slot, use at most once, remove; messages come
in the order of their seconds. `GpsLogger` implements it under `ImplementsSlot`; the slot
counts as full from the last of the three stores, as used from the call to `SetNTPTime`, and
as empty when the pointer is null again.

### LocationShm

The segment and `addLocation`, one action `Store(x)` for each store and one for the call to
`time()`. A position is the number of its call, and a field holds the number of the call that
stored it. Out of source order the stores are permuted, but not across `time()`, an opaque
call, nor the two volatile ones with each other. `time()` returns any second, also one before an
earlier answer: ntpd steps the clock. `WriterDies` is a killed gpslogger: the
stores to come never do, and the next run starts afresh on the same segment.

### NtpShm

The same for `SetTime` and ntpd's segment, with the reader: ntpd looks at `valid`, loads mode
and count, copies the reading, and takes the copy if the count has not moved. The reader is
external; it is modelled from the fields and the mode that `SetTime` writes for it. `open`
remembers that a reading was begun and not finished. The count may start odd, left by a run
that died.

### Uploader

Extends `LocationShm` by the celluploader process beside the writer. Every load of the
segment is a step: `CheckTime` and `CheckValid` are the two halves of the test,
`Copy(c)` the loads of longitude and latitude, `RememberTime` the load after the upload, and
`Send` loads the speed. `uploadData` is a subroutine of three steps called from three places
(`ret`). Connecting may fail, sending may lose the message. `GrabNetworkLocation` has three
outcomes in the code: coordinates, zeroes, or no return statement at all
(`ATLocHandler.cpp:226`); the last leads to `crashed`. Coordinates from the modem are
sample 0.

### Tokens, NmeaParser

`Tokens` is the tokeniser of `strutils.c` as both parsers use it. A text is the sequence of the
fields between its delimiters, and a field is only told apart by whether it is empty, because
that is all the tokeniser goes by: `safe_strtok` runs over empty fields, so its callers look at
`*context` first. A context is the number of the field it points at, 0 for the null pointer
that is left after the last.

`NmeaParser` takes one sentence of any shape through `CheckSum`, `Dispatch`, `CountTokens` and
then a step per member, `SkipMember` or `TakeMember`, or `FollowNull` when a null context is
looked through, which is the end of the process. The two messages differ in the count they
ask for, the number of members and the one member read without a test, the fix of RMC. `got`
is the field each member was read from.

### ModemLocate

`ATLocHandler` over the serial port of celluploader, with the modem at the other end, which is
external: it echoes a command and answers OK or ERROR in its own time, follows the OK to
`AT+ULOC` with an empty line and the location, may put an unsolicited result anywhere, and may
go away between two lines. `wire` holds the lines sent and not read. On a port that is hung up
`read()` returns 0, which `ReadLine` does not take for an end: it leaves the old line in the
buffer and writes one past it, so the model keeps the line, or crashes. A line cut in the
middle is left out. Where the last result is not OK, the function has no return statement
(`undefined`).

### Receiver

The line between gpslogger and the GPS receiver, one byte at a time. `FlushPort`, `WaitForModem`,
`ComposeAid`, `SendAidIni` and `PollMessage` are the start, in which nothing is read;
`ReadFirst`, `ReadSentence`, `ReadSync`, `ReadHeader`, `ReadPayload`, `ParseMessage` and
`ParseUbloxMessage` are the parts of the main loop. The receiver (`BeginMessage`, `SendByte`, external)
sends sentences and one answer per poll into a queue that loses what does not fit.

A byte is told apart by its part in its message and by the message's number. The inside of an answer may
look like anything (`Values`): where the search is out of step, it may go wherever such a byte
leads. `astray` remembers that this can have happened, because an answer lost a byte or its first byte
was read inside a sentence. A length read out of place is any number, one more than the buffer
standing for all larger ones. The comparison of a plain `char` with 0xB5 (`main.cpp:330`) works as
intended on the Pi, where `char` is unsigned. `aid` holds the aiding message: week, second, flags, and
whether it has a position, which is in whole degrees.

### Config

The two searches of the configuration file. The file is what `fgets` makes of it: pieces of at
most 31 characters, of which a longer line gives several. A piece has a first word (a key, a beginning
of one, a comment, something else) and a second (a number, a text, none). `place` is the position in the
open file, which both searches share and `rewind` resets. A value is the number of the piece it came from.

### PowerCycle

`sys` is where init is (the early boot scripts, `S51gpslogger`, `S52celluploader`, up, running down),
`script` where `shutdown.sh` is. Each program is started as a process that forks and exits (`daemonise`):
`parent` is that process, and `proc` how far its child, the program proper, has come: fresh and without
a handler, waiting for the link (celluploader only), running. The start script waits for the parent
only (`Started`). The kill in the background is two steps of
its own, `Lookup`, which finds the processes by name, and `SendKill`, which signals those of them that still
exist; both may come before or after the script's next test, and between them a parent may fork and
exit. An operator may
restart either program at any time; `S51gpslogger` stops by a name that gpslogger does not run under, so
its stop has no effect. `late` remembers the programs of which a process was begun, by a start or by
the fork of one under way, when the look-up of the kill meant for it had been made. How the programs end is what `Terminates` of `GpsLogger` and `Uploader` says; here it
is the one step `Exit`.

### Flash

The files in memory (`ram`), in the page cache of the partition (`cache`) and what a power cut would
leave of it (`disk`), each file by its version. `MakeKey` is `S50sshd`, which saves a new key,
`SaveDrift` init's first action at the end, `SaveConfig` an operator's `saveconfig`; each saving script goes
through `Mount`, `CopyFile`, `Sync` and `Unmount`. There is one mount place and no lock: a second
mount fails, and its script unmounts all the same; copies to the unmounted place go into memory and
are lost, unnoticed. `PlaceOf` says where `cpmkdir` puts a file. A copy is one step, so no script
unmounts while the other has a file of the partition open. What a script takes for saved is kept by `Account`:
`stored` is the version of each file last copied, wherever it went; `pending` are the files whose script
has not come to its end; `missed` those whose last copy went into memory.

## 3. The runs

| Run | Instance | Question |
|---|---|---|
| `gpslogger` | 2 addresses, 4 seconds, backlog 1, one poll of the modem | The hand-over, the refinement of `OneMessageSlot`, and that SIGTERM ends the process, every step after it a step to the end, in source order |
| `gpslogger_reordered` | backlog 2, `SourceOrder` FALSE | What holds whatever the compiler does: `HandoffSafe` |
| `ntp` | 4 readings | What the two increments of the count protect |
| `uploader` | 3 samples, 2 seconds | What `valid` covers in source order, what a copy can be, what is reported, socket and segment on every failure path; termination and progress with a link that comes up; that every step after SIGTERM leads to the end |
| `parsers` | all sentences of up to 14 fields; all files of up to 3 pieces | Which field each member gets, and when a null context is followed; which settings are found |
| `modem` | 6 fields, 2 unsolicited results | That the dialogue stays in step, believes no old line, never waits for a line that nobody owes, and ends |
| `receiver` | a queue of 4 bytes, a buffer of 6, 4 messages of 4 to 6 bytes | That the search for messages gets into step after any overflow and fits its buffer; what the aiding message says |
| `powercycle` | two programs of two processes, one change to each file | That every shutdown is orderly, waits only for a program that was told, and ends, unless a process was begun too late; and that every boot finds what reached the flash |
| `uploader_lost`, `_exit`, `_sigterm`, `flash_done` | 2 samples; one change to each file | Violations: see section 6 |

Bounds. A second address is one more than a correct hand-over ever has allocated, so a leak
or a double copy would show. The slot holds one message and a thread passes over it at most
once a pulse, so four seconds allow a message to be fed, a following one to be missed, late
or disturbed, and a third after it. The number of polls of the modem (60 in the code) does not
matter beyond one, since a poll changes nothing else. The segments remember one position and a
reader one copy: three samples give an old, a present and a next one, and a fourth reading is
added for ntpd because a dying writer uses one up. Fourteen fields are those of a GGA sentence,
the longer of the two, with its empty last one. The modem's location has six; one unsolicited
result puts the dialogue a whole command out of step, and a second one a command further. A
queue of four bytes overflows within any message and leaves any part of one at its end, two
messages of it may be cut and two more follow in which the search must be in step; the buffer of six
is the longest message, as near to the 128 of the code as its 114 bytes of an ephemeris. Three pieces let a key
come first, second, or after a line it must be told from. A file that is changed once has an old and a new
version, and a power cut leaves one of them or a part. Every
bound is a constant in a guard and the proofs hold for all of its values.

`parsers` and `powercycle` hold two modules each that have no state in common; a behaviour of the
instance runs one of them.

Deadlock is not checked: every process here may end, the bounded clock of the receiver runs out, and a main
thread in `read()` waits for a receiver that has nothing left to say.

Fairness. `GpsLogger!FairSpec` has weak fairness of each thread (the kernel schedules both
and the pulse wait returns after a second) and of `Report`: the main thread blocks in
`read()`, which a signal restarts, so it sees `g_isRunning` only at the next sentence; a
receiver that falls silent stops the shutdown, and this assumption is named for that.
`Uploader!FairSpec` has weak fairness of the process; `sleep` returns and so do the network
calls, which have the kernel's time-outs; so does `system()` on pppd, and `GrabNetworkLocation`
as long as the modem answers. `ModemLocate!FairSpec` assumes the latter of the modem and no
more: that it sends what it owes unless it is gone. `PppSpec` adds that the link comes up often enough
for the one-second poll to meet it, which is what the loop at `celluploader/main.cpp:102`
needs and cannot bring about; `uploader_sigterm` shows what happens without. `PowerCycle!CycleFairness`
has weak fairness of init and its scripts, of both steps of the background kills, of the parent's exit, of a program's start, of its end
once told, which is what the other two specifications show, and of the link, without which
celluploader would not look at the signal. Nothing is assumed of the operator, of the UPS or of
crashes. `Receiver`, `Config` and `Flash` have no liveness property.

## 4. What the properties say

* `HandoffSafe`: the PPS thread uses and frees only an allocated message, the address it
  tested is the one it frees, and no message leaks. It needs no order of the accesses: each
  thread tests both flag and pointer before it acts, and each clears or sets both after.
* `WholeMessage`: in source order what is fed is finished, and no store of the copy lands in
  freed memory. It is false with `SourceOrder` FALSE, when the flag may be set before the
  message is written; the code relies on the compiler here.
* `OutlivesPpsThread`: `exited()` frees the singletons after the PPS thread is gone, on every
  path, also those on which it was never created.
* `FeedRight`: the time fed is the true one unless the message was disturbed, in the sense
  above. A missed pulse is enough: the code has no other guard against a stale message. The property
  excepts the disturbed message and shows that nothing else can spoil the time.
* `FedOnce`, `LocatedFirst`: times fed increase, and never overtake the position.
* `WholeWhenValid`, `StampNotAhead`: `valid` never covers a mixture; a new time stamp is never
  seen before its data. The run checks them in source order. The proofs hold for any order the
  compiler may choose: the second owing to the call to `time()`, the first then only between calls.
* `ReadyIsWhole`, `TakenIsWhole`: ntpd's `valid` covers finished readings only, also after a
  crash, and ntpd drops any copy `SetTime` ran into, unless it loaded the count in the middle
  of a call whose start came just after it had looked at `valid`.
* `LatitudeNotOlder`, `WholeUnlessOverlapped`: the only tear celluploader can upload is a
  longitude with the latitude of a later sample, and only if `addLocation` ran into the copy.
* `ReportsAdvance`: no report carries an older coordinate than one before it, over all three
  callers of `uploadData` and deaths of the writer.
* `SocketClosed`, `SegmentMapped`: the failure paths leave the socket closed, where an open one would
  cost the next report, and the null
  segment pointer is never followed although `exited()` uploads on every exit.
* `Aligned`: with any fields empty, each member of an NMEA message comes from its own field.
  The fix must be there; without it every later member is read one field or more too far.
* `NullOnlyWithoutFix`, `FixNotFromMode`: the count of tokens keeps `Parse` from running out of
  fields when the fix is there; and when it is not, an accepted message still never has the mode,
  which begins with an 'A' too, for its fix.
* `InStep`: without unsolicited lines every line read from the modem is the one meant. With
  them it is not, and a good answer can end in the missing return.
* `OkIsForLocate`: after a hang-up at any line, no line left in the buffer passes for the OK.
* `CoordinatesInPlace`: an answer with all its fields gives latitude and longitude, not their
  neighbours; one with an empty field does not, since the code looks for the delimiter after the
  token and not before it.
* `Recovers`: however the start cut the input, every whole answer is parsed, and every whole
  sentence but the one right after a damaged message. It excepts the cases in which `astray` is set:
  there is no checksum test and no limit on the length, so an answer that is cut can lead the search
  anywhere.
* `WithinBuffer`: what the search stores fits `msgbuf`, with the same exception.
* `AidRight`: week and second of the aiding message are right at every boundary of the clock, although
  the epoch subtracted is five days early, because the division by a week makes up for them; and
  nothing in the wrong unit is flagged as valid, because no flag is ever set.
* `ReadsAsWritten`: in a file with no overlong line and no beginning of a key for a word, both
  searches find what a reader would, in any order of the lines.
* `CatchesUp`: with the link and a valid segment, a position with a time other than the one remembered
  is handed to `uploadData`, itself or a later one in its place. Excepted are a position that comes with
  the very time remembered (a clock set back, or the same second: `uploader_lost`) and what the network
  does then: a failed connection is not repeated.
* `OrderlyEnd`: init runs down only when both programs have ended in their own time, whatever the
  boot scripts and an operator were doing. Left out is a program of which a process was begun after
  `shutdown.sh` had looked up whom to kill; the other program is not left out with it. The race of `pidof` with the
  fork is such a case: the parent is found, the child is not.
* `PowersOff`: once the UPS has asked, the power goes off: no wait is for a program never told to stop,
  with the same exception for either program.
* `Restored`: the host key, the configuration and the drift are, at every boot, as a script that came to
  its end last copied them to the flash, after overlapping saves and power cuts. Left out is a file whose
  last copy was made after the other script had unmounted `/mnt`: that one is lost though the script
  reports it done, and `flash_done` of section 6 shows it. `/etc/passwd`, `/etc/shadow` and the
  operator's authorized keys are left out too: `saveconfig` saves them under names no boot looks at.
* `Ends`, `Terminates`: liveness, as above.
* `ShutdownAdvances` (of `GpsLogger` and of `Uploader`), `LineIsOwed`, `WaitsForTold`: what of the liveness
  properties does not need fairness, in a form that can be proved. After SIGTERM each step of a thread
  or process takes it nearer to its end, by a rank that counts the steps left; the dialogue, in step or
  out of it, waits only while a line is there or owed; `shutdown.sh` waits only for a program that
  has the signal, or is about to get it. What is left to fairness is that the steps happen.

## 5. What is proved

All theorems are for every value of the constants, from the named assumptions of the modules
(`CopiesAssumption`, `OrderAssumption`, `BoundAssumption`, `FieldsAssumption`, `PiecesAssumption`,
`SizeAssumption`, `InstantsAssumption`, `VersionAssumption`); `ImplementsSlotCorrect` and the theorems whose property says so take
`SourceOrder`, all others hold for either value of it.

Every type invariant of the modules is a theorem. TLC checks them too for `GpsLogger` and `Uploader` (with
`LocationShm`); for the other modules the runs are kept for what the types do not say.

* `GpsLogger_proofs` (TypeOK, all six safety properties, the two action properties except
  where they need fairness, and the refinement). The safety properties are not inductive:
  that the main thread may copy depends on what the other had loaded. `HandoffInv` adds who owns
  the slot at each pair of program counters: `Publish` (what `unstored` says of the slot while
  the main thread is at its stores), `Owner` (there is at most one message and the slot points
  to it), `Drain` (what the PPS thread holds from its test to the last store), `Life` (which
  of the singletons exist). `TimeInv` adds what a sentence, the slot and the
  serial port can hold against the true second, and `OrderInv` that the sentences waiting,
  handled and fed are in order. The refinement then follows step by step: the last
  `PublishStore` is a Put, `FeedNtp` a Use, `ClearMsg` a Remove, all else stutters.
* `LocationShm_proofs`: `ProgressInv` says that stores already made hold the present sample and
  those to come are a suffix; `FlagInv` where in the sequence `valid` can be up.
* `NtpShm_proofs`: the same two parts, and `CopyInv`: while the count is the one ntpd loaded,
  no reading is open and the copied fields are the segment's.
* `Uploader_proofs`: builds on the invariant of `LocationShm_proofs`, which the process's steps leave
  alone. `SampleInv`: no field is of a later call than the present and the longitude never
  ahead of the latitude; `ReportInv`: reported <= cached <= segment for each coordinate; `CopyInv`:
  the sample found valid <= the copied longitude <= the latitude there now, which squeezes the
  copy to one sample when the latitude has not moved; `MappedInv`: a device key implies an
  attached segment.
* `Parsers_proofs`. For sentences of any length, from `FieldsAssumption`: lemmas on the
  tokeniser (`NumTokExact`, `TokenHere`, `TokenAhead`), then `StepInv`: in step the context is at
  the field of the member to be read, and what was read is in place; `CountInv`: there are more
  fields than members; `FixInv`: a fix from beyond the eleventh field leaves a context that lasts
  for one more member at the most. For configuration files of any length: `SearchInv`, that none of
  the pieces before the place the search has come to names the key, and that what the first
  search found is not touched by the second.
* `Receiver_proofs`, for queues, buffers and messages of any length and any instants of the clock.
  `LineInv` ties the bytes still to come to the place of the search. `StreamInv`: the bytes in the
  queue and of the message being sent are in the order of their messages, a byte that can start a
  message is the first of its own, and a message that lost nothing lies there whole. `PlaceInv`: unless `astray`,
  the search at each of its places is inside the message it has the start of, with exactly the
  bytes it stored taken from it (`AtNmea`, `AtSentence`, `InAnswer`, `AtUbx`), or between two
  messages with every good one before it parsed (`AtFirst`). `FrameInv`: what holds astray too. TLC
  checked this invariant on the instance of the run before it was proved. `Recovers` is one of its
  parts; `WithinBuffer` follows from it, and `AidRight` needs only the arithmetic of the epoch.
* `ModemLocate_proofs`, for answers of any length and any number of unsolicited results: `WireInv`
  lists the lines sent and still to be sent at each place of the dialogue as long as nothing
  unsolicited came; the process at its echo, result, empty line and location differs by one line
  read from the place before. `BufferInv`: no OK is left in the buffer where a result is read, so
  none is believed after a hang-up. `FieldInv`: in an answer with all fields the context is at the field to be
  read. `CountInv` is for the unsolicited lines: at least two lines more than owed are there for each,
  less those an OK believed too early has taken, so that `LineIsOwed` holds out of step too.
* `Scripts_proofs`: `ScriptInv`, that where `shutdown.sh` has come says of which program no process is
  left; `WaitsForTold` is inductive by itself, program by program (`Awaited`): a signal tells every
  process it finds, and one it does not find was begun late. For `Flash`, for any number of versions, `SavedInv`: `StoredInv` (a
  file neither pending nor missed is, as stored, both in the cache and on the disk, so a power cut cannot
  lose it), `CopiedInv` (what a running script copied and nobody finished since is, unless missed, in the
  cache, so its umount brings it to the disk) and `BootInv` (while
  keys are made, nothing but `savetoflash` runs and what it copied is in use).

`ShutdownAdvances` is proved action by action from the type invariant, in `GpsLogger` also from
`LifeInv` (no PPS thread exists before it is made): ranks of places, added to the stores, copies
or polls still to come, go down at each step.

Only model-checked: the liveness properties, `Terminates`, `CatchesUp`, `Ends` and `PowersOff`, since
fairness and ENABLED are out of this prover's reach (their safety halves are proved as said above); and the
violations of section 6.

## 6. Where code and comments part

Each of these is a run that TLC finds violated.

* `uploader_lost`: the comment at line 148 takes an equal time stamp for unchanged data; the
  stamp remembered at line 142 is loaded after the upload and counts whole seconds, so a
  newer position can pass for uploaded.
* `uploader_exit`: `shutdown.sh:18` wants the current location reported on shutdown;
  `exited()` reports the coordinates cached at the last report.
* `uploader_sigterm`: `shutdown.sh:20` waits for celluploader to exit; without a link the
  signal is not looked at.
* `flash_done`: `saveconfig` says it saves the configuration to the flash (line 4) and ends with "Done."
  (line 23). While it runs, `savetoflash` (init's, at the end) finds `/mnt` taken, copies nothing and
  unmounts it all the same (line 11); what `saveconfig` copies after that lands in memory.

Four more are in the models without a run of their own. The loop at `celluploader/main.cpp:136-139`
tests `valid` once before two separate loads (`WholeUnlessOverlapped` says what may come of it). The wait at line 162
ends on a position left from before the fix was lost. The answer to gpslogger's own poll for
AID-INI goes to a callback nobody sets (`HasCallback`). The port of gpslogger is flushed before the wait
for the modem (`gpslogger/main.cpp:149-167`), so the sentences that gather in that wait are handled as if
they were new; `FeedRight` counts them as late.

## 7. Abstractions and what is not modelled

Floating-point coordinates, text formats, logging and terminal settings are left out, and the fork of
`daemonise` is in `PowerCycle` only; a position or a message is told apart only by when it was made. The
conversion of a sentence's date to seconds is taken as right: the image
sets no time zone, so neither `mktime`'s local time nor the unset `tm_isdst` matters.
`cleanupShmLocation` and the destructors of celluploader's singletons are never called.

In the scripts: init looks at a request to power off when the boot scripts are done; the UPS
asks once per power cycle; the flash device is present and its file system survives a cut, though a file
being written may not; the root file system starts from the image at each boot. `reload`
sends a signal that neither program handles. The contents of `ntp.conf`, the PPP scripts and
`sshd_config` are data for other programs.

Not modelled: the logger, whose file nothing reads; the unit conversions of `gpsutils.c`, which are
floating-point; `str_cpy` and `hex_to_byte`, pure functions with no property of their own; the
terminal and PPS settings; the UPS monitor and buildroot, empty submodules; the kernel
configuration, data for another build.

## 8. Plan

Done, in this order: the two threads and their promise, the location segment, the uploader,
ntpd's segment, the NMEA parser, the modem's dialogue and theorems on each of these; the receiver's line
and the aiding message; the configuration file and the scripts, with their theorems; the theorems on
the receiver's line; the safety halves of the liveness properties, with their theorems. To come:
`PowerCycle` with `GpsLogger` and `Uploader` in the place of `Exit`, by refinement of their
termination rather than by product, which is too large for TLC.

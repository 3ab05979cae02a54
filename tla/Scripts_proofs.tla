--------------------------- MODULE Scripts_proofs ---------------------------
(* Theorems on the scripts: PowerCycle, which has no constants, and Flash,  *)
(* for any number of changes to the files.                                  *)
EXTENDS PowerCycle, Flash, TLAPS

-----------------------------------------------------------------------------
(* PowerCycle.                                                             *)

\* What a signal, a start and the end of a process do to the variables' types.
LEMMA SignalType ==
  ASSUME CycleTypeOK, NEW p \in Programs, NEW found \in SUBSET Processes, Signal(p, found)
  PROVE  /\ parent' \in [Programs -> {"none", "forking", "leaving"}]
         /\ proc' \in [Programs -> {"gone", "fresh", "link", "running"}]
         /\ told' \subseteq Programs
BY DEF CycleTypeOK, Signal

LEMMA StartType ==
  ASSUME CycleTypeOK, NEW p \in Programs, Start(p)
  PROVE  /\ parent' \in [Programs -> {"none", "forking", "leaving"}]
         /\ late' \subseteq Programs
BY DEF CycleTypeOK, Start, LateIf

LEMMA DropType ==
  ASSUME CycleTypeOK, NEW p \in Programs, DropPids(p)
  PROVE  hit' \in [Programs -> SUBSET Processes]
BY DEF CycleTypeOK, DropPids

\* The variables of the power cycle keep their types (skel/etc/init.d).
THEOREM CycleTypeCorrect == CycleSpec => []CycleTypeOK
<1>1. CycleInit => CycleTypeOK
  BY DEF CycleInit, CycleTypeOK, AllAre
<1>2. CycleTypeOK /\ [CycleNext]_cycleVars => CycleTypeOK'
  <2> SUFFICES ASSUME CycleTypeOK, [CycleNext]_cycleVars PROVE CycleTypeOK'
    OBVIOUS
  <2> USE DEF procVars
  <2>1. "gps" \in Programs /\ "cell" \in Programs
    BY DEF Programs
  <2>2. \A p \in Programs : Exists(p) \in SUBSET Processes
    BY DEF Exists
  <2>3. CASE EarlyScripts \/ Started \/ Poweroff \/ RequestShutdown \/ WaitGps \/ WaitCell
    BY <2>3 DEF EarlyScripts, Started, Poweroff, RequestShutdown, WaitGps, WaitCell, CycleTypeOK
  <2>4. CASE S51gpslogger \/ RestartGpslogger
    <3>1. Start("gps") /\ UNCHANGED <<script, kills, hit, proc, told, restart>>
      BY <2>4 DEF S51gpslogger, RestartGpslogger
    <3>2. sys' \in {sys, "S51run", "S52"}
      BY <2>4 DEF S51gpslogger, RestartGpslogger
    <3> QED
      BY <2>1, <3>1, <3>2, StartType DEF CycleTypeOK
  <2>5. CASE S52celluploader \/ StartCelluploader
    <3>1. Start("cell") /\ UNCHANGED <<script, kills, hit, proc, told>> /\ restart' \in BOOLEAN
      BY <2>5 DEF S52celluploader, StartCelluploader, CycleTypeOK
    <3>2. sys' \in {sys, "S52run", "up"}
      BY <2>5 DEF S52celluploader, StartCelluploader
    <3> QED
      BY <2>1, <3>1, <3>2, StartType DEF CycleTypeOK
  <2>6. CASE StopScripts \/ StopCelluploader
    <3>1. /\ Signal("cell", Exists("cell")) /\ DropPids("cell")
          /\ UNCHANGED <<script, kills, late>>
          /\ sys' \in {sys, "killall"} /\ restart' \in BOOLEAN
      BY <2>6 DEF StopScripts, StopCelluploader, Stop, CycleTypeOK
    <3> QED
      BY <2>1, <2>2, <3>1, SignalType, DropType DEF CycleTypeOK
  <2>7. CASE KillAll \/ PowerCut
    <3>1. SwitchOff
      BY <2>7 DEF KillAll, PowerCut
    <3>2. hit' \in [Programs -> SUBSET Processes]
      BY <3>1, {} \in SUBSET Processes DEF SwitchOff, AllAre
    <3> QED
      BY <3>1, <3>2 DEF SwitchOff, AllAre, CycleTypeOK
  <2>8. CASE PowerOn \/ LinkUp
    BY <2>8 DEF PowerOn, LinkUp, CycleTypeOK
  <2>9. ASSUME NEW p \in Programs, Lookup(p) PROVE CycleTypeOK'
    BY <2>2, <2>9 DEF Lookup, Found, CycleTypeOK
  <2>10. ASSUME NEW p \in Programs, SendKill(p) PROVE CycleTypeOK'
    <3>1. hit[p] \in SUBSET Processes
      BY DEF CycleTypeOK
    <3>2. Signal(p, hit[p])
      BY <2>10 DEF SendKill
    <3>3. kills' \in [Programs -> {"none", "lookup", "send"}] /\ hit' \in [Programs -> SUBSET Processes]
      BY <2>10 DEF SendKill, CycleTypeOK
    <3> QED
      BY <2>10, <3>1, <3>2, <3>3, SignalType DEF SendKill, CycleTypeOK
  <2>11. ASSUME NEW p \in Programs, Fork(p) PROVE CycleTypeOK'
    BY <2>11 DEF Fork, LateIf, CycleTypeOK
  <2>12. ASSUME NEW p \in Programs, ParentExit(p) PROVE CycleTypeOK'
    BY <2>12, DropType DEF ParentExit, CycleTypeOK
  <2>13. ASSUME NEW p \in Programs, Ready(p) PROVE CycleTypeOK'
    BY <2>13 DEF Ready, CycleTypeOK
  <2>14. ASSUME NEW p \in Programs, Exit(p) \/ Fail(p) PROVE CycleTypeOK'
    BY <2>14, DropType DEF Exit, Fail, End, CycleTypeOK
  <2>15. CASE UNCHANGED cycleVars
    BY <2>15 DEF cycleVars, CycleTypeOK
  <2> QED
    BY <2>3, <2>4, <2>5, <2>6, <2>7, <2>8, <2>9, <2>10, <2>11, <2>12, <2>13, <2>14, <2>15
       DEF CycleNext, InitStep, Operator
<1> QED
  BY <1>1, <1>2, PTL DEF CycleSpec

\* No process of p exists.
NoneOf(p) == parent[p] = "none" /\ proc[p] = "gone"

LEMMA NoneExists == ASSUME NEW p PROVE Exists(p) = {} <=> NoneOf(p)
BY DEF Exists, Processes, NoneOf

\* How far shutdown.sh has come says who is gone, unless one was begun late.
ScriptInv ==
  /\ script \in {"waitcell", "poweroff"} => "gps" \in late \/ NoneOf("gps")
  /\ script = "poweroff" => "cell" \in late \/ NoneOf("cell")
  /\ sys \in {"rcK", "killall"} => script = "poweroff"

\* Nothing but a start begins a process of a program that has none.
LEMMA NoneStays ==
  ASSUME CycleTypeOK, ScriptInv, UNCHANGED script, late \subseteq late',
         \A p \in Programs : NoneOf(p) => p \in late' \/ NoneOf(p)',
         sys' \in {"rcK", "killall"} => sys \in {"rcK", "killall"} \/ script = "poweroff"
  PROVE  ScriptInv'
BY DEF ScriptInv, Programs

LEMMA ScriptStepInv ==
  CycleTypeOK /\ ScriptInv /\ [CycleNext]_cycleVars => ScriptInv'
<1> SUFFICES ASSUME CycleTypeOK, ScriptInv, [CycleNext]_cycleVars PROVE ScriptInv'
  OBVIOUS
<1> USE DEF procVars
<1>0. ASSUME NEW p \in Programs, UNCHANGED script, LateIf(p),
             \A q \in Programs : q # p => (NoneOf(q) => NoneOf(q)'),
             sys' \in {"rcK", "killall"} => sys \in {"rcK", "killall"}
      PROVE  ScriptInv'
  BY <1>0 DEF LateIf, InTime, WaitFor, ScriptInv, Programs
<1>1. ASSUME NEW p \in Programs, Start(p), UNCHANGED <<script, proc>>,
             sys' \in {"rcK", "killall"} => sys \in {"rcK", "killall"}
      PROVE  ScriptInv'
  <2>1. CASE Exists(p) = {}
    <3>1. LateIf(p) /\ \A q \in Programs : q # p => (NoneOf(q) => NoneOf(q)')
      BY <1>1, <2>1 DEF Start, NoneOf, CycleTypeOK
    <3> QED
      BY <1>0, <1>1, <3>1
  <2>2. CASE Exists(p) # {}
    BY <1>1, <2>2, NoneStays DEF Start, NoneOf
  <2> QED
    BY <2>1, <2>2
<1>2. CASE S51gpslogger \/ RestartGpslogger
  BY <1>1, <1>2 DEF S51gpslogger, RestartGpslogger, Programs
<1>3. CASE S52celluploader \/ StartCelluploader
  BY <1>1, <1>3 DEF S52celluploader, StartCelluploader, Programs
<1>4. CASE EarlyScripts \/ Started \/ Poweroff
  BY <1>4, NoneStays DEF EarlyScripts, Started, Poweroff, NoneOf
<1>5. CASE KillAll \/ PowerCut
  BY <1>5, NoneStays DEF KillAll, PowerCut, SwitchOff, AllAre, NoneOf
<1>6. CASE PowerOn \/ RequestShutdown
  BY <1>6 DEF PowerOn, RequestShutdown, ScriptInv
<1>7. CASE WaitGps \/ WaitCell
  BY <1>7, NoneExists DEF WaitGps, WaitCell, Gone, ScriptInv, NoneOf
<1>8. ASSUME NEW p \in Programs, NEW found, Signal(p, found), UNCHANGED <<script, late>>,
             sys' \in {"rcK", "killall"} => sys \in {"rcK", "killall"}
      PROVE  ScriptInv'
  <2>1. \A q \in Programs : NoneOf(q) => NoneOf(q)'
    BY <1>8 DEF Signal, NoneOf, CycleTypeOK
  <2> QED
    BY <1>8, <2>1, NoneStays
<1>9. CASE StopScripts \/ StopCelluploader
  BY <1>8, <1>9 DEF StopScripts, StopCelluploader, Stop, Programs
<1>10. ASSUME NEW p \in Programs, SendKill(p) PROVE ScriptInv'
  BY <1>8, <1>10 DEF SendKill
<1>11. ASSUME NEW p \in Programs, Fork(p) PROVE ScriptInv'
  <2>1. \A q \in Programs : q # p => (NoneOf(q) => NoneOf(q)')
    BY <1>11 DEF Fork, NoneOf, CycleTypeOK
  <2> QED
    BY <1>0, <1>11, <2>1 DEF Fork
<1>12. ASSUME NEW p \in Programs, Lookup(p) PROVE ScriptInv'
  BY <1>12, NoneStays DEF Lookup, NoneOf
<1>13. CASE LinkUp \/ \E p \in Programs : ParentExit(p) \/ Ready(p) \/ Exit(p) \/ Fail(p)
  <2>1. UNCHANGED <<sys, script, late>>
    BY <1>13 DEF LinkUp, ParentExit, Ready, Exit, Fail, End
  <2>2. \A q \in Programs : NoneOf(q) => NoneOf(q)'
    BY <1>13 DEF LinkUp, ParentExit, Ready, Exit, Fail, End, NoneOf, CycleTypeOK
  <2> QED
    BY <2>1, <2>2, NoneStays
<1>14. CASE UNCHANGED cycleVars
  BY <1>14, NoneStays DEF cycleVars, NoneOf
<1> QED
  BY <1>2, <1>3, <1>4, <1>5, <1>6, <1>7, <1>9, <1>10, <1>11, <1>12, <1>13, <1>14
     DEF CycleNext, InitStep, Operator

\* init runs down only when both programs have ended by themselves, unless a process of one
\* was begun after shutdown.sh had looked up whom to kill (shutdown.sh:6-31).
THEOREM OrderlyEndCorrect == CycleSpec => []OrderlyEnd
<1>1. CycleInit => ScriptInv
  BY DEF CycleInit, ScriptInv
<1>2. ScriptInv => OrderlyEnd
  BY NoneExists DEF ScriptInv, OrderlyEnd, Programs
<1> QED
  BY <1>1, <1>2, ScriptStepInv, CycleTypeCorrect, PTL DEF CycleSpec

\* Of one program: the look-up is to come, or the signal is on its way or has been noted.
Awaited(p) == script = WaitFor[p] => kills[p] = "lookup" \/ Reached(p)

\* What happens to another program leaves this one as it is.
LEMMA OtherKeeps ==
  ASSUME NEW p, Awaited(p), UNCHANGED script,
         kills'[p] = kills[p], hit'[p] = hit[p], parent'[p] = parent[p], proc'[p] = proc[p],
         p \in told => p \in told'
  PROVE  Awaited(p)'
BY DEF Awaited, Reached, Exists

\* A signal ends the processes that have no handler yet and is noted by the one that has.
LEMMA SignalTells ==
  ASSUME CycleTypeOK, NEW p \in Programs, Signal(p, hit[p]),
         kills[p] = "send", Awaited(p), UNCHANGED script
  PROVE  Awaited(p)'
<1> SUFFICES ASSUME script = WaitFor[p], NEW x \in Exists(p)'
             PROVE  x = "child" /\ p \in told' /\ proc'[p] \in {"link", "running"}
  BY DEF Awaited, Reached
<1> QED
  BY DEF Awaited, Reached, Signal, Exists, Processes, CycleTypeOK

LEMMA StopTells ==
  ASSUME CycleTypeOK, NEW p \in Programs, Signal(p, Exists(p))
  PROVE  Awaited(p)'
BY DEF Awaited, Reached, Signal, Exists, Processes, CycleTypeOK

\* A process begun late makes its program late; one begun in time will be looked up.
LEMMA BegunAwaited ==
  ASSUME NEW p \in Programs, LateIf(p), UNCHANGED <<script, kills>>, p \notin late'
  PROVE  Awaited(p)'
BY DEF LateIf, InTime, WaitFor, Awaited, Programs

\* The end of a process, with its pid dropped.
LEMMA EndKeeps ==
  ASSUME CycleTypeOK, NEW p \in Programs, Awaited(p), UNCHANGED <<script, kills>>, DropPids(p),
         Exists(p)' \subseteq Exists(p), proc'[p] \in {proc[p], "gone"},
         proc'[p] # "gone" => (p \in told => p \in told')
  PROVE  Awaited(p)'
<1> SUFFICES ASSUME script = WaitFor[p], kills[p] # "lookup", NEW x \in Exists(p)'
             PROVE  \/ kills[p] = "send" /\ x \in hit'[p]
                    \/ x = "child" /\ p \in told' /\ proc'[p] \in {"link", "running"}
  BY DEF Awaited, Reached
<1>1. hit'[p] = hit[p] \cap Exists(p)'
  BY DEF DropPids, CycleTypeOK
<1>2. x = "child" => proc'[p] # "gone"
  BY DEF Exists
<1> QED
  BY <1>1, <1>2 DEF Awaited, Reached

LEMMA WaitsStep ==
  CycleTypeOK /\ WaitsForTold /\ [CycleNext]_cycleVars => WaitsForTold'
<1> SUFFICES ASSUME CycleTypeOK, WaitsForTold, [CycleNext]_cycleVars,
                    NEW q \in Programs, q \notin late'
             PROVE  Awaited(q)'
  BY DEF WaitsForTold, Awaited
<1> USE DEF procVars
<1>0. ASSUME late \subseteq late' PROVE Awaited(q)
  BY <1>0 DEF WaitsForTold, Awaited
<1>1. CASE EarlyScripts \/ Started \/ Poweroff
  BY <1>1, <1>0, OtherKeeps DEF EarlyScripts, Started, Poweroff
<1>2. CASE KillAll \/ PowerCut
  BY <1>2 DEF KillAll, PowerCut, SwitchOff, AllAre, Awaited, Reached, Exists, Processes
<1>3. CASE PowerOn
  BY <1>3 DEF PowerOn, Awaited, WaitFor, Programs
<1>4. ASSUME NEW p \in Programs, Start(p), UNCHANGED <<script, kills, hit, proc, told>>
      PROVE  Awaited(q)'
  <2>1. late \subseteq late'
    BY <1>4 DEF Start, LateIf
  <2>2. CASE p = q /\ Exists(p) = {}
    BY <1>4, <2>2, BegunAwaited DEF Start
  <2>3. CASE p # q \/ Exists(p) # {}
    BY <1>0, <1>4, <2>1, <2>3, OtherKeeps DEF Start, CycleTypeOK
  <2> QED
    BY <2>2, <2>3
<1>5. CASE S51gpslogger \/ RestartGpslogger
  BY <1>4, <1>5 DEF S51gpslogger, RestartGpslogger, Programs
<1>6. CASE S52celluploader \/ StartCelluploader
  BY <1>4, <1>6 DEF S52celluploader, StartCelluploader, Programs
<1>7. CASE StopScripts \/ StopCelluploader
  <2>1. /\ Signal("cell", Exists("cell")) /\ DropPids("cell")
        /\ UNCHANGED <<script, kills, late>> /\ "cell" \in Programs
    BY <1>7 DEF StopScripts, StopCelluploader, Stop, Programs
  <2>2. CASE q = "cell"
    BY <2>1, <2>2, StopTells
  <2>3. CASE q # "cell"
    BY <1>0, <2>1, <2>3, OtherKeeps DEF Signal, DropPids, CycleTypeOK
  <2> QED
    BY <2>2, <2>3
<1>8. CASE RequestShutdown
  BY <1>8 DEF RequestShutdown, Awaited, WaitFor, Programs, CycleTypeOK
<1>9. CASE WaitGps \/ WaitCell
  BY <1>9 DEF WaitGps, WaitCell, Awaited, WaitFor, Programs, CycleTypeOK
<1>10. CASE LinkUp
  BY <1>0, <1>10 DEF LinkUp, Awaited, Reached, Exists, Processes, CycleTypeOK
<1>11. ASSUME NEW p \in Programs, Lookup(p) PROVE Awaited(q)'
  <2>1. CASE p = q
    BY <1>11, <2>1 DEF Lookup, Found, Awaited, Reached, Exists, CycleTypeOK
  <2>2. CASE p # q
    BY <1>0, <1>11, <2>2, OtherKeeps DEF Lookup, CycleTypeOK
  <2> QED
    BY <2>1, <2>2
<1>12. ASSUME NEW p \in Programs, SendKill(p) PROVE Awaited(q)'
  <2>1. CASE p = q
    BY <1>0, <1>12, <2>1, SignalTells DEF SendKill
  <2>2. CASE p # q
    BY <1>0, <1>12, <2>2, OtherKeeps DEF SendKill, Signal, CycleTypeOK
  <2> QED
    BY <2>1, <2>2
<1>13. ASSUME NEW p \in Programs, Fork(p) PROVE Awaited(q)'
  <2>1. late \subseteq late'
    BY <1>13 DEF Fork, LateIf
  <2>2. CASE p = q
    BY <1>13, <2>2, BegunAwaited DEF Fork
  <2>3. CASE p # q
    BY <1>0, <1>13, <2>1, <2>3, OtherKeeps DEF Fork, CycleTypeOK
  <2> QED
    BY <2>2, <2>3
<1>14. ASSUME NEW p \in Programs, ParentExit(p) PROVE Awaited(q)'
  <2>1. CASE p = q
    BY <1>0, <1>14, <2>1, EndKeeps DEF ParentExit, Exists, CycleTypeOK
  <2>2. CASE p # q
    BY <1>0, <1>14, <2>2, OtherKeeps DEF ParentExit, DropPids, CycleTypeOK
  <2> QED
    BY <2>1, <2>2
<1>15. ASSUME NEW p \in Programs, Exit(p) \/ Fail(p) PROVE Awaited(q)'
  <2>1. End(p)
    BY <1>15 DEF Exit, Fail
  <2>2. CASE p = q
    BY <1>0, <2>1, <2>2, EndKeeps DEF End, Exists, CycleTypeOK
  <2>3. CASE p # q
    BY <1>0, <2>1, <2>3, OtherKeeps DEF End, DropPids, CycleTypeOK
  <2> QED
    BY <2>2, <2>3
<1>16. ASSUME NEW p \in Programs, Ready(p) PROVE Awaited(q)'
  BY <1>0, <1>16 DEF Ready, Awaited, Reached, Exists, Processes, CycleTypeOK
<1>17. CASE UNCHANGED cycleVars
  BY <1>0, <1>17, OtherKeeps DEF cycleVars
<1> QED
  BY <1>1, <1>2, <1>3, <1>5, <1>6, <1>7, <1>8, <1>9, <1>10, <1>11, <1>12, <1>13, <1>14, <1>15,
     <1>16, <1>17 DEF CycleNext, InitStep, Operator

\* shutdown.sh waits for no program that was not told to stop, or is about to be, unless a
\* process of it was begun too late (shutdown.sh:9-27): the half of PowersOff that needs
\* no fairness.
THEOREM WaitsForToldCorrect == CycleSpec => []WaitsForTold
<1>1. CycleInit => WaitsForTold
  BY DEF CycleInit, WaitsForTold, WaitFor, Programs
<1> QED
  BY <1>1, WaitsStep, CycleTypeCorrect, PTL DEF CycleSpec

-----------------------------------------------------------------------------
(* Flash.                                                                  *)

Contents == Versions \cup {None, Torn}
Saving == [at : {"idle", "mount", "copy", "sync", "umount"}, todo : Seq(Files),
           copied : SUBSET Files]

LEMMA HeadTail ==
  ASSUME NEW todo \in Seq(Files), todo # <<>>
  PROVE  Head(todo) \in Files /\ Tail(todo) \in Seq(Files)
OBVIOUS

LEMMA SavingType ==
  /\ Idle \in Saving /\ [Idle EXCEPT !.at = "sync"] \in Saving
  /\ Run(<<"key">>) \in Saving /\ Run(<<"drift">>) \in Saving
  /\ Run(<<"conf", "drift", "passwd">>) \in Saving
<1>1. <<>> \in Seq(Files) /\ <<"key">> \in Seq(Files) /\ <<"drift">> \in Seq(Files)
      /\ <<"conf", "drift", "passwd">> \in Seq(Files)
  BY DEF Files
<1> QED
  BY <1>1 DEF Idle, Run, Saving

LEMMA ImageType == Image \in [Files -> Contents]
BY VersionAssumption DEF Image, Contents, Versions

Rest == /\ stage \in {"load", "sshd", "up", "down"} /\ mounted \in BOOLEAN
        /\ ram \in [Files -> Contents]
        /\ cache \in [InPlace -> Contents] /\ disk \in [InPlace -> Contents]
        /\ stored \in [InPlace -> Contents]
        /\ pending \subseteq InPlace /\ missed \subseteq InPlace

LEMMA TypeParts == FlashTypeOK <=> Rest /\ save \in [Scripts -> Saving]
BY DEF FlashTypeOK, Rest, Saving, Contents

LEMMA SaveTypeStep ==
  ASSUME save \in [Scripts -> Saving], FlashNext
  PROVE  save' \in [Scripts -> Saving]
<1>1. CASE LoadFromFlash \/ \E f \in InPlace : Edit(f)
  BY <1>1 DEF LoadFromFlash, Edit
<1>2. CASE MakeKey \/ SaveConfig \/ SaveDrift
  BY <1>2, SavingType DEF MakeKey, SaveConfig, SaveDrift
<1>3. CASE Halt \/ CutPower
  BY <1>3, SavingType DEF Halt, CutPower, PowerOffAndOn
<1>4. ASSUME NEW s \in Scripts, Mount(s) PROVE save' \in [Scripts -> Saving]
  <2>1. [save[s] EXCEPT !.at = "copy"] \in Saving
    BY DEF Saving
  <2> QED
    BY <1>4, <2>1, SavingType DEF Mount
<1>5. ASSUME NEW s \in Scripts, CopyFile(s) PROVE save' \in [Scripts -> Saving]
  <2>1. save[s].todo \in Seq(Files) /\ save[s].todo # <<>>
    BY <1>5 DEF CopyFile, Saving
  <2>2. Head(save[s].todo) \in Files /\ Tail(save[s].todo) \in Seq(Files)
    BY <2>1, HeadTail
  <2> DEFINE c == save[s].copied \cup {Head(save[s].todo)}
  <2>3. save' = [save EXCEPT ![s] = [save[s] EXCEPT !.todo = Tail(save[s].todo), !.copied = c]]
    BY <1>5 DEF CopyFile
  <2>4. c \in SUBSET Files
    BY <2>2 DEF Saving
  <2> HIDE DEF c
  <2>5. [save[s] EXCEPT !.todo = Tail(save[s].todo), !.copied = c] \in Saving
    BY <2>2, <2>4 DEF Saving
  <2> QED
    BY <2>3, <2>5
<1>6. ASSUME NEW s \in Scripts, Sync(s) \/ Unmount(s) PROVE save' \in [Scripts -> Saving]
  <2>1. [save[s] EXCEPT !.at = "umount"] \in Saving
    BY DEF Saving
  <2> QED
    BY <1>6, <2>1, SavingType DEF Sync, Unmount
<1> QED
  BY <1>1, <1>2, <1>3, <1>4, <1>5, <1>6 DEF FlashNext

LEMMA RestTypeStep ==
  ASSUME Rest, save \in [Scripts -> Saving], FlashNext
  PROVE  Rest'
<1> USE DEF Rest, storeVars
<1>1. CASE LoadFromFlash
  BY <1>1 DEF LoadFromFlash, InPlace
<1>2. CASE MakeKey
  BY <1>2 DEF MakeKey, Contents
<1>3. CASE SaveConfig \/ SaveDrift
  BY <1>3 DEF SaveConfig, SaveDrift
<1>4. CASE Halt \/ CutPower
  <2>1. disk' \in [InPlace -> Contents]
    BY <1>4 DEF Halt, CutPower, Contents
  <2> QED
    BY <1>4, <2>1, ImageType DEF Halt, CutPower, PowerOffAndOn
<1>5. ASSUME NEW s \in Scripts, Mount(s) PROVE Rest'
  BY <1>5 DEF Mount
<1>6. ASSUME NEW s \in Scripts, CopyFile(s) PROVE Rest'
  <2>1. save[s].todo \in Seq(Files) /\ save[s].todo # <<>>
    BY <1>6 DEF CopyFile, Saving
  <2>2. Head(save[s].todo) \in Files
    BY <2>1, HeadTail
  <2>3. cache' \in [InPlace -> Contents]
    BY <1>6, <2>2 DEF CopyFile
  <2> QED
    BY <1>6, <2>2, <2>3 DEF CopyFile, Account, InPlace
<1>7. ASSUME NEW s \in Scripts, Sync(s) PROVE Rest'
  BY <1>7 DEF Sync
<1>8. ASSUME NEW s \in Scripts, Unmount(s) PROVE Rest'
  BY <1>8 DEF Unmount
<1>9. ASSUME NEW f \in InPlace, Edit(f) PROVE Rest'
  <2>1. ram[f] \in Contents /\ ram[f] < MaxVersion
    BY <1>9 DEF Edit, InPlace
  <2>2. (IF ram[f] < 0 THEN 0 ELSE ram[f] + 1) \in Contents
    BY <2>1, VersionAssumption DEF Contents, Versions, None, Torn
  <2> QED
    BY <1>9, <2>2 DEF Edit
<1> QED
  BY <1>1, <1>2, <1>3, <1>4, <1>5, <1>6, <1>7, <1>8, <1>9 DEF FlashNext

\* The variables of the saved files keep their types (skel/picar/sbin).
THEOREM FlashTypeCorrect == FlashSpec => []FlashTypeOK
<1>1. FlashInit => FlashTypeOK
  <2>1. ASSUME FlashInit PROVE Rest /\ save \in [Scripts -> Saving]
    BY <2>1, ImageType, SavingType DEF FlashInit, Rest, Contents
  <2> QED
    BY <2>1, TypeParts
<1>2. FlashTypeOK /\ [FlashNext]_flashVars => FlashTypeOK'
  <2> SUFFICES ASSUME FlashTypeOK, [FlashNext]_flashVars PROVE FlashTypeOK'
    OBVIOUS
  <2>1. ASSUME FlashNext PROVE (Rest /\ save \in [Scripts -> Saving])'
    BY <2>1, TypeParts, RestTypeStep, SaveTypeStep
  <2>2. CASE FlashNext
    BY <2>1, <2>2, TypeParts, PTL
  <2>3. CASE UNCHANGED flashVars
    BY <2>3 DEF flashVars, storeVars, FlashTypeOK
  <2> QED
    BY <2>2, <2>3
<1> QED
  BY <1>1, <1>2, PTL DEF FlashSpec

-----------------------------------------------------------------------------
IsStored(f) == stored[f] # None /\ f \notin pending \cup missed

\* What is stored is on the disk, whatever has been done to it since in the cache or on
\* the way to another place, and the boot takes it from there.
StoredInv ==
  /\ \A f \in InPlace : IsStored(f) => cache[f] = stored[f] /\ disk[f] = stored[f]
  /\ stage = "sshd" => \A f \in InPlace : IsStored(f) => ram[f] = stored[f]

\* What a script has copied is in the cache, unless its last copy went into memory.
CopiedInv ==
  \A s \in Scripts : \A f \in (save[s].copied \cap InPlace) \ missed : cache[f] = stored[f]

\* While sshd starts only savetoflash runs, and what it has copied is in use.
BootInv ==
  /\ stage = "load" => \A s \in Scripts : save[s] = Idle
  /\ stage = "sshd" => save["saveconfig"] = Idle
  /\ stage = "sshd" => \A f \in save["savetoflash"].copied \cap InPlace : stored[f] = ram[f]

SavedInv == StoredInv /\ CopiedInv /\ BootInv

LEMMA InPlaceIsKept == ASSUME NEW f \in InPlace PROVE f \in Files /\ PlaceOf(f) = f
BY DEF InPlace, PlaceOf, Files

LEMMA CopyStep ==
  ASSUME Rest, save \in [Scripts -> Saving], SavedInv, NEW s \in Scripts, CopyFile(s)
  PROVE  SavedInv'
<1> DEFINE f == Head(save[s].todo)
<1>1. /\ f \in Files /\ UNCHANGED <<stage, ram, disk, mounted>>
      /\ Account(f) /\ save[s] # Idle
      /\ cache' = [p \in InPlace |-> IF mounted /\ p = PlaceOf(f) THEN ram[f] ELSE cache[p]]
  <2>1. save[s].todo \in Seq(Files) /\ save[s].todo # <<>>
    BY DEF CopyFile, Saving
  <2> QED
    BY <2>1, HeadTail DEF CopyFile, Idle
<1>2. save'[s].copied = save[s].copied \cup {f}
  BY DEF CopyFile, Saving
<1>3. \A t \in Scripts : t # s => save'[t] = save[t]
  BY DEF CopyFile
<1> HIDE DEF f
<1>4. ASSUME NEW g \in InPlace, g # f
      PROVE  /\ cache'[g] = cache[g] /\ stored'[g] = stored[g]
             /\ g \in pending' <=> g \in pending
             /\ g \in missed' <=> g \in missed
  <2>1. PlaceOf(f) # g
    BY <1>4, <1>1 DEF PlaceOf, InPlace, Files
  <2> QED
    BY <1>1, <1>4, <2>1 DEF Rest, Account, storeVars
<1>5. ASSUME f \in InPlace
      PROVE  /\ stored'[f] = ram[f] /\ f \in pending'
             /\ f \notin missed' => cache'[f] = ram[f]
  BY <1>1, <1>5, InPlaceIsKept DEF Rest, Account
<1>6. StoredInv'
  BY <1>1, <1>4, <1>5 DEF SavedInv, StoredInv, IsStored
<1>7. CopiedInv'
  BY <1>2, <1>3, <1>4, <1>5 DEF SavedInv, CopiedInv
<1>8. BootInv'
  <2>1. stage' = "sshd" => s = "savetoflash"
    BY <1>1 DEF SavedInv, BootInv, Scripts
  <2> QED
    BY <1>1, <1>2, <1>3, <1>4, <1>5, <2>1 DEF SavedInv, BootInv, Scripts
<1> QED
  BY <1>6, <1>7, <1>8 DEF SavedInv

LEMMA UnmountStep ==
  ASSUME Rest, save \in [Scripts -> Saving], SavedInv, NEW s \in Scripts, Unmount(s)
  PROVE  SavedInv'
<1>1. /\ disk' = cache /\ UNCHANGED <<stage, ram, cache, stored, missed>>
      /\ save' = [save EXCEPT ![s] = Idle] /\ save[s] # Idle
      /\ pending' = pending \ save[s].copied
  BY DEF Unmount, Idle
<1>2. stage = "sshd" => s = "savetoflash"
  BY <1>1 DEF SavedInv, BootInv, Scripts
<1>3. ASSUME NEW f \in InPlace, IsStored(f)'
      PROVE  /\ cache'[f] = stored'[f] /\ disk'[f] = stored'[f]
             /\ stage' = "sshd" => ram'[f] = stored'[f]
  <2>1. CASE f \in save[s].copied
    BY <1>1, <1>2, <1>3, <2>1 DEF SavedInv, CopiedInv, BootInv, IsStored
  <2>2. CASE f \notin save[s].copied
    BY <1>1, <1>3, <2>2 DEF SavedInv, StoredInv, IsStored
  <2> QED
    BY <2>1, <2>2
<1>4. CopiedInv' /\ BootInv'
  BY <1>1, <1>2 DEF SavedInv, CopiedInv, BootInv, Scripts, Idle
<1> QED
  BY <1>3, <1>4 DEF SavedInv, StoredInv

LEMMA BootStep ==
  ASSUME Rest, save \in [Scripts -> Saving], SavedInv, LoadFromFlash \/ MakeKey
  PROVE  SavedInv'
<1>1. CASE LoadFromFlash
  <2>1. /\ stage = "load" /\ UNCHANGED <<cache, disk, save, storeVars>>
        /\ \A f \in InPlace : ram'[f] = IF disk[f] = None THEN ram[f] ELSE disk[f]
    BY <1>1, InPlaceIsKept DEF LoadFromFlash
  <2>2. StoredInv' /\ CopiedInv'
    BY <2>1 DEF SavedInv, StoredInv, CopiedInv, IsStored, storeVars
  <2>3. BootInv'
    BY <1>1, <2>1 DEF SavedInv, BootInv, LoadFromFlash, Idle, Scripts
  <2> QED
    BY <2>2, <2>3 DEF SavedInv
<1>2. CASE MakeKey
  <2>1. /\ stage = "sshd" /\ save["savetoflash"] = Idle
        /\ UNCHANGED <<cache, disk, storeVars>>
    BY <1>2 DEF MakeKey
  <2>2. CASE UNCHANGED <<ram, save>>
    BY <1>2, <2>1, <2>2
       DEF SavedInv, StoredInv, CopiedInv, BootInv, IsStored, MakeKey, Idle, storeVars
  <2>3. CASE /\ ram["key"] = None /\ UNCHANGED stage
             /\ \A f \in Files : f # "key" => ram'[f] = ram[f]
             /\ save' = [save EXCEPT !["savetoflash"] = Run(<<"key">>)]
    <3>1. ~IsStored("key")
      BY <2>1, <2>3 DEF SavedInv, StoredInv, IsStored, InPlace, Files
    <3>2. StoredInv'
      BY <2>1, <2>3, <3>1, InPlaceIsKept DEF SavedInv, StoredInv, IsStored, storeVars
    <3>3. CopiedInv' /\ BootInv'
      BY <2>1, <2>3 DEF SavedInv, CopiedInv, BootInv, Scripts, Run, storeVars
    <3> QED
      BY <3>2, <3>3 DEF SavedInv
  <2> QED
    BY <1>2, <2>2, <2>3 DEF MakeKey, Rest
<1> QED
  BY <1>1, <1>2

LEMMA PowerStep ==
  ASSUME Rest, save \in [Scripts -> Saving], SavedInv, Halt \/ CutPower
  PROVE  SavedInv'
<1>1. /\ stage' = "load" /\ cache' = disk' /\ UNCHANGED storeVars
      /\ save' = [s \in Scripts |-> Idle]
  BY DEF Halt, CutPower, PowerOffAndOn
<1>2. ASSUME NEW f \in InPlace, cache[f] = disk[f]
      PROVE  disk'[f] = disk[f]
  BY <1>2 DEF Halt, CutPower
<1>3. StoredInv'
  BY <1>1, <1>2 DEF SavedInv, StoredInv, IsStored, storeVars
<1>4. CopiedInv' /\ BootInv'
  BY <1>1 DEF CopiedInv, BootInv, Idle
<1> QED
  BY <1>3, <1>4 DEF SavedInv

LEMMA SavedStep ==
  ASSUME Rest, save \in [Scripts -> Saving], SavedInv, [FlashNext]_flashVars
  PROVE  SavedInv'
<1> USE DEF SavedInv, StoredInv, CopiedInv, BootInv, IsStored, storeVars
<1>1. CASE SaveConfig \/ SaveDrift
  BY <1>1 DEF SaveConfig, SaveDrift, Run, Scripts
<1>2. ASSUME NEW s \in Scripts, Mount(s) PROVE SavedInv'
  <2>1. /\ UNCHANGED <<stage, ram, cache, disk, storeVars>> /\ save[s] # Idle
        /\ \A t \in Scripts : t # s => save'[t] = save[t]
    BY <1>2 DEF Mount, Idle
  <2>2. save'[s].copied \subseteq save[s].copied
    BY <1>2 DEF Mount, Idle, Saving
  <2> QED
    BY <2>1, <2>2 DEF Scripts
<1>3. ASSUME NEW s \in Scripts, Sync(s) PROVE SavedInv'
  <2>1. /\ UNCHANGED <<stage, ram, cache, storeVars>> /\ disk' = cache /\ save[s] # Idle
        /\ \A t \in Scripts : t # s => save'[t] = save[t]
    BY <1>3 DEF Sync, Idle
  <2>2. save'[s].copied = save[s].copied
    BY <1>3 DEF Sync, Saving
  <2> QED
    BY <2>1, <2>2 DEF Scripts
<1>4. ASSUME NEW f \in InPlace, Edit(f) PROVE SavedInv'
  BY <1>4 DEF Edit
<1>5. CASE UNCHANGED flashVars
  BY <1>5 DEF flashVars
<1> QED
  BY <1>1, <1>2, <1>3, <1>4, <1>5, CopyStep, UnmountStep, BootStep, PowerStep DEF FlashNext

\* A file whose last copy reached the mounted flash, by a script that has come to its end
\* since, is in use after the next boot (saveconfig, savetoflash, loadfromflash,
\* S50sshd:44): for any overlap of the two scripts and any power cut.  Nothing is said of a
\* file whose last copy was made after the other script's umount; that one is lost.
THEOREM RestoredCorrect == FlashSpec => []Restored
<1>1. FlashInit => SavedInv
  BY InPlaceIsKept DEF FlashInit, SavedInv, StoredInv, CopiedInv, BootInv, IsStored, Idle
<1>2. FlashTypeOK => Rest /\ save \in [Scripts -> Saving]
  BY TypeParts
<1>3. FlashTypeOK /\ SavedInv /\ [FlashNext]_flashVars => SavedInv'
  BY <1>2, SavedStep
<1>4. SavedInv => Restored
  BY DEF SavedInv, StoredInv, Restored, IsStored
<1> QED
  BY <1>1, <1>3, <1>4, FlashTypeCorrect, PTL DEF FlashSpec
=============================================================================

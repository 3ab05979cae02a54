----------------------------- MODULE PowerCycle -----------------------------
(***************************************************************************)
(* From power on to power off: init's boot scripts, the two programs they  *)
(* start, an operator who restarts them, and upspico/shutdown.sh, which    *)
(* the UPS monitor starts when the car is switched off, at any time from   *)
(* the first boot script on (skel/etc/init.d, skel/etc/inittab).           *)
(*                                                                         *)
(* Of the programs only their way to the end is kept: modules GpsLogger    *)
(* and Uploader show how they get there.  Each is started as a process     *)
(* that forks and exits; the child is the program.  shutdown.sh sends each *)
(* kill in the background, so its look-up of the processes and the signal  *)
(* may come after the test the script makes next.  busybox init looks at   *)
(* poweroff when the boot scripts are done.                                *)
(***************************************************************************)
VARIABLES
  sys,     \* where init is
  script,  \* where shutdown.sh is
  kills,   \* where its background kill of each program is
  hit,     \* the processes that kill has found and that still exist
  parent,  \* the process each program was started as
  proc,    \* what its child, the program proper, is doing
  told,    \* programs whose handler has seen SIGTERM
  restart, \* an operator's S52celluploader restart is between stop and start
  late     \* programs with a process begun too late for the kill meant for them

procVars == <<hit, parent, proc, told>>
cycleVars == <<sys, script, kills, procVars, restart, late>>

Programs == {"gps", "cell"}
Processes == {"parent", "child"}

CycleTypeOK ==
  /\ sys \in {"early", "S51", "S51run", "S52", "S52run", "up", "rcK", "killall", "off"}
  /\ script \in {"idle", "waitgps", "waitcell", "poweroff"}
  /\ kills \in [Programs -> {"none", "lookup", "send"}]
  /\ hit \in [Programs -> SUBSET Processes]
  /\ parent \in [Programs -> {"none", "forking", "leaving"}]
  /\ proc \in [Programs -> {"gone", "fresh", "link", "running"}]
  /\ told \subseteq Programs /\ late \subseteq Programs /\ restart \in BOOLEAN

AllAre(what) == [p \in Programs |-> what]

CycleInit ==
  /\ sys = "early" /\ script = "idle" /\ kills = AllAre("none") /\ hit = AllAre({})
  /\ parent = AllAre("none") /\ proc = AllAre("gone") /\ told = {}
  /\ restart = FALSE /\ late = {}

-----------------------------------------------------------------------------
(* The programs.                                                           *)

Exists(p) == {x \in Processes : IF x = "parent" THEN parent[p] # "none" ELSE proc[p] # "gone"}

\* A pid found before belongs to nobody once its process is gone.
DropPids(p) == hit' = [hit EXCEPT ![p] = @ \cap Exists(p)']

\* SIGTERM to some processes of p: noted by the handler, or the end of one without.
Signal(p, found) ==
  /\ parent' = [parent EXCEPT ![p] = IF "parent" \in found THEN "none" ELSE @]
  /\ proc' = [proc EXCEPT ![p] = IF "child" \in found /\ @ = "fresh" THEN "gone" ELSE @]
  /\ told' = told \cup {q \in {p} : "child" \in found /\ proc[p] \in {"link", "running"}}

WaitFor == [gps |-> "waitgps", cell |-> "waitcell"]

\* The look-up of shutdown.sh's kill is still to come.
InTime(p) ==
  \/ script = "idle" \/ (script = "waitgps" /\ p = "cell")
  \/ script = WaitFor[p] /\ kills[p] = "lookup"

LateIf(p) == late' = late \cup {q \in {p} : ~InTime(p)}

\* start-stop-daemon -S does nothing when the program runs.
Start(p) ==
  IF Exists(p) = {}
    THEN parent' = [parent EXCEPT ![p] = "forking"] /\ LateIf(p)
    ELSE UNCHANGED <<parent, late>>

\* daemonise: the child is another process, which a look-up before has not found.
Fork(p) ==
  /\ parent[p] = "forking"
  /\ parent' = [parent EXCEPT ![p] = "leaving"]
  /\ proc' = [proc EXCEPT ![p] = "fresh"] /\ LateIf(p)
  /\ UNCHANGED <<sys, script, kills, hit, told, restart>>

\* Its exit in the parent, after a fork that succeeded or failed.
ParentExit(p) ==
  /\ parent[p] # "none" /\ parent' = [parent EXCEPT ![p] = "none"]
  /\ UNCHANGED <<sys, script, kills, proc, told, restart, late>>
  /\ DropPids(p)

\* The signal handlers are installed; celluploader goes on to wait for the link.
Ready(p) ==
  /\ proc[p] = "fresh"
  /\ proc' = [proc EXCEPT ![p] = IF p = "cell" THEN "link" ELSE "running"]
  /\ UNCHANGED <<sys, script, kills, hit, parent, told, restart, late>>

LinkUp ==
  /\ proc["cell"] = "link" /\ proc' = [proc EXCEPT !["cell"] = "running"]
  /\ UNCHANGED <<sys, script, kills, hit, parent, told, restart, late>>

End(p) ==
  /\ proc' = [proc EXCEPT ![p] = "gone"] /\ told' = told \ {p}
  /\ UNCHANGED <<sys, script, kills, parent, restart, late>>
  /\ DropPids(p)

\* The start-up fails, or the program crashes.
Fail(p) == proc[p] # "gone" /\ End(p)

\* What Terminates says of each of them.
Exit(p) == p \in told /\ proc[p] = "running" /\ End(p)

-----------------------------------------------------------------------------
(* The boot scripts, and those of the end.                                 *)

\* S10upspico, S11loadconf, S50sshd (module Flash).
EarlyScripts ==
  /\ sys = "early" /\ sys' = "S51"
  /\ UNCHANGED <<script, kills, procVars, restart, late>>

\* start-stop-daemon becomes the process it starts, so the script waits for the parent.
S51gpslogger ==
  /\ sys = "S51" /\ Start("gps")
  /\ sys' = IF Exists("gps") = {} THEN "S51run" ELSE "S52"
  /\ UNCHANGED <<script, kills, hit, proc, told, restart>>

S52celluploader ==
  /\ sys = "S52" /\ Start("cell")
  /\ sys' = IF Exists("cell") = {} THEN "S52run" ELSE "up"
  /\ UNCHANGED <<script, kills, hit, proc, told, restart>>

Started ==
  /\ \/ sys = "S51run" /\ parent["gps"] = "none" /\ sys' = "S52"
     \/ sys = "S52run" /\ parent["cell"] = "none" /\ sys' = "up"
  /\ UNCHANGED <<script, kills, procVars, restart, late>>

Poweroff ==
  /\ sys = "up" /\ script = "poweroff" /\ sys' = "rcK"
  /\ UNCHANGED <<script, kills, procVars, restart, late>>

\* S52celluploader stop finds every process of the program.
Stop == Signal("cell", Exists("cell")) /\ DropPids("cell")

\* rcK runs every script with stop.  S51gpslogger looks for /picar/bin/gpslogger, which
\* is not the name of the program.
StopScripts ==
  /\ sys = "rcK" /\ sys' = "killall" /\ Stop
  /\ UNCHANGED <<script, kills, restart, late>>

\* No process is left.
SwitchOff ==
  /\ sys' = "off" /\ kills' = AllAre("none") /\ hit' = AllAre({})
  /\ parent' = AllAre("none") /\ proc' = AllAre("gone") /\ told' = {} /\ restart' = FALSE
  /\ UNCHANGED <<script, late>>

KillAll == sys = "killall" /\ SwitchOff

PowerOn ==
  /\ sys = "off" /\ sys' = "early" /\ script' = "idle" /\ late' = {}
  /\ UNCHANGED <<kills, procVars, restart>>

\* The battery of the UPS is empty, or it was unplugged.
PowerCut == sys # "off" /\ SwitchOff

-----------------------------------------------------------------------------
(* The operator: sshd is up from S51 on.                                   *)

LoggedIn == sys \in {"S51", "S51run", "S52", "S52run", "up"}

\* Of gpslogger the stop has no effect.
RestartGpslogger ==
  /\ LoggedIn /\ Start("gps")
  /\ UNCHANGED <<sys, script, kills, hit, proc, told, restart>>

\* stop does not wait for the end of the program.
StopCelluploader ==
  /\ LoggedIn /\ ~restart /\ restart' = TRUE /\ Stop
  /\ UNCHANGED <<sys, script, kills, late>>

StartCelluploader ==
  /\ restart /\ restart' = FALSE /\ Start("cell")
  /\ UNCHANGED <<sys, script, kills, hit, proc, told>>

-----------------------------------------------------------------------------
(* shutdown.sh.                                                            *)

RequestShutdown ==
  /\ sys # "off" /\ script = "idle"
  /\ script' = "waitgps" /\ kills' = [kills EXCEPT !["gps"] = "lookup"]
  /\ UNCHANGED <<sys, procVars, restart, late>>

\* `pidof ...`: the processes found by the name it looks up.
\* Mutated: as S51gpslogger has it.
FoundWithoutBin(p) == IF p = "gps" THEN {} ELSE Exists(p)
Found(p) == Exists(p)

Lookup(p) ==
  /\ kills[p] = "lookup" /\ kills' = [kills EXCEPT ![p] = "send"]
  /\ hit' = [hit EXCEPT ![p] = Found(p)]
  /\ UNCHANGED <<sys, script, parent, proc, told, restart, late>>

SendKill(p) ==
  /\ kills[p] = "send" /\ kills' = [kills EXCEPT ![p] = "none"]
  /\ Signal(p, hit[p]) /\ hit' = [hit EXCEPT ![p] = {}]
  /\ UNCHANGED <<sys, script, restart, late>>

\* What ps shows.
\* Mutated: the second loop looks for the first program.
GpsOnly(p) == Exists("gps") = {}
Gone(p) == Exists(p) = {}

WaitGps ==
  /\ script = "waitgps" /\ sys # "off" /\ Gone("gps")
  /\ script' = "waitcell" /\ kills' = [kills EXCEPT !["cell"] = "lookup"]
  /\ UNCHANGED <<sys, procVars, restart, late>>

WaitCell ==
  /\ script = "waitcell" /\ sys # "off" /\ Gone("cell")
  /\ script' = "poweroff"
  /\ UNCHANGED <<sys, kills, procVars, restart, late>>

-----------------------------------------------------------------------------
InitStep ==
  \/ EarlyScripts \/ S51gpslogger \/ S52celluploader \/ Started
  \/ Poweroff \/ StopScripts \/ KillAll
Operator == RestartGpslogger \/ StopCelluploader \/ StartCelluploader

CycleNext ==
  \/ InitStep \/ Operator \/ RequestShutdown \/ WaitGps \/ WaitCell \/ PowerOn \/ PowerCut \/ LinkUp
  \/ \E p \in Programs : \/ Lookup(p) \/ SendKill(p) \/ Fork(p) \/ ParentExit(p)
                         \/ Ready(p) \/ Exit(p) \/ Fail(p)

CycleSpec == CycleInit /\ [][CycleNext]_cycleVars

\* Every script and process goes on, a program told to stop stops, and the link comes up.
CycleFairness ==
  /\ WF_cycleVars(InitStep) /\ WF_cycleVars(WaitGps) /\ WF_cycleVars(WaitCell)
  /\ WF_cycleVars(LinkUp)
  /\ \A p \in Programs : /\ WF_cycleVars(Lookup(p)) /\ WF_cycleVars(SendKill(p))
                         /\ WF_cycleVars(ParentExit(p))
                         /\ WF_cycleVars(Ready(p)) /\ WF_cycleVars(Exit(p))

-----------------------------------------------------------------------------
(* Properties.                                                             *)

\* When init runs down, both programs have ended in their own time (shutdown.sh:6-31),
\* whatever the boot scripts and an operator were doing.  Left out is one with a process
\* begun after shutdown.sh looked up whom to kill, by a start or by the fork in a start
\* under way: that one is killed unasked.
OrderlyEnd ==
  sys \in {"rcK", "killall"} => \A p \in Programs \ late : Exists(p) = {}

\* Every process of p that exists will be, or has been, told to stop.
Reached(p) ==
  \A x \in Exists(p) : \/ kills[p] = "send" /\ x \in hit[p]
                       \/ x = "child" /\ p \in told /\ proc[p] \in {"link", "running"}

\* What shutdown.sh waits for will come (shutdown.sh:9-27): the look-up meant for the
\* program is still to come, or each of its processes is about to get the signal, or its own
\* handler has seen it.  None is left that was not yet running, or was killed before it
\* could note the signal.  Left out is again a program with a process begun too late.
WaitsForTold ==
  \A p \in Programs \ late : script = WaitFor[p] => kills[p] = "lookup" \/ Reached(p)

\* Once shutdown.sh runs the power goes off (shutdown.sh:9-31), and no wait of it is for
\* a program that was not told to stop, unless a process of one was begun too late.
PowersOff == script # "idle" ~> sys = "off" \/ late # {}
=============================================================================

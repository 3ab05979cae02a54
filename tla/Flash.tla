------------------------------- MODULE Flash -------------------------------
(***************************************************************************)
(* The files that outlive a power cycle (skel/picar/sbin, S11loadconf,     *)
(* S50sshd, inittab).  The root file system is in memory and starts from   *)
(* the image at each boot; loadfromflash copies over it what the flash     *)
(* partition holds, and two scripts save to it: savetoflash, run by        *)
(* S50sshd for a new host key and by init at the end for ntpd's drift,     *)
(* and saveconfig, run by an operator.                                     *)
(*                                                                         *)
(* Both mount, copy, sync and unmount the same place without a lock.  A    *)
(* second mount is refused while the first stands, but the script that was *)
(* refused unmounts all the same.  Of a file its version is kept.  What    *)
(* is copied is in the page cache; a power cut leaves the old, the new or  *)
(* a part of it.                                                           *)
(***************************************************************************)
EXTENDS Integers, Sequences

CONSTANT MaxVersion \* bounds how often a file is changed
ASSUME VersionAssumption == MaxVersion \in Nat \ {0}

VARIABLES
  stage,   \* where the power cycle is
  ram,     \* version of each file in use
  cache,   \* what the mounted partition shows at each place a boot looks at
  disk,    \* what it would show after a power cut
  mounted, \* the partition is mounted on /mnt
  save,    \* each saving script: where it is, what it has to copy and has copied
  stored,  \* version of each file that a script last copied to /mnt, by its own account
  pending, \* files copied by no script that has come to its end since
  missed   \* files whose last copy went into memory

storeVars == <<stored, pending, missed>>
flashVars == <<stage, ram, cache, disk, mounted, save, storeVars>>

None == -1 \* no such file
Torn == -2 \* a part of a file
Versions == 0..MaxVersion

\* The host key, /picar/etc/picar.conf, ntpd's drift and /etc/passwd, which stands for
\* /etc/shadow and /root/.ssh/authorized_keys too.
Files == {"key", "conf", "drift", "passwd"}
InPlace == Files \ {"passwd"} \* saved where loadfromflash takes them from
Scripts == {"savetoflash", "saveconfig"}

\* Version 0 is the image's; it has no host key.
Image == [f \in Files |-> IF f = "key" THEN None ELSE 0]

Idle == [at |-> "idle", todo |-> <<>>, copied |-> {}]
Run(todo) == [at |-> "mount", todo |-> todo, copied |-> {}]

FlashTypeOK ==
  /\ stage \in {"load", "sshd", "up", "down"}
  /\ ram \in [Files -> Versions \cup {None, Torn}]
  /\ cache \in [InPlace -> Versions \cup {None, Torn}]
  /\ disk \in [InPlace -> Versions \cup {None, Torn}]
  /\ mounted \in BOOLEAN
  /\ save \in [Scripts -> [at : {"idle", "mount", "copy", "sync", "umount"},
                           todo : Seq(Files), copied : SUBSET Files]]
  /\ stored \in [InPlace -> Versions \cup {None, Torn}]
  /\ pending \subseteq InPlace /\ missed \subseteq InPlace

FlashInit ==
  /\ stage = "load" /\ ram = Image
  /\ cache = [p \in InPlace |-> None] /\ disk = cache /\ mounted = FALSE
  /\ save = [s \in Scripts |-> Idle]
  /\ stored = [f \in InPlace |-> None] /\ pending = {} /\ missed = {}

-----------------------------------------------------------------------------
(* The boot.                                                               *)

\* cp -Rf $MNT/* /
LoadFromFlash ==
  /\ stage = "load" /\ stage' = "sshd"
  /\ ram' = [f \in Files |-> IF f \in InPlace /\ disk[f] # None THEN disk[f] ELSE ram[f]]
  /\ UNCHANGED <<cache, disk, mounted, save, storeVars>>

\* [ ! -f key ]: a torn one is there too.  A new key is never the old one.
MakeKey ==
  /\ stage = "sshd" /\ save["savetoflash"] = Idle
  /\ IF ram["key"] = None /\ \E v \in Versions : v > stored["key"]
       THEN /\ \E v \in Versions : v > stored["key"] /\ ram' = [ram EXCEPT !["key"] = v]
            /\ save' = [save EXCEPT !["savetoflash"] = Run(<<"key">>)]
            /\ UNCHANGED stage
       ELSE stage' = "up" /\ UNCHANGED <<ram, save>>
  /\ UNCHANGED <<cache, disk, mounted, storeVars>>

-----------------------------------------------------------------------------
(* The saving scripts, step by step.                                       *)

\* cpmkdir copies into the directory of its second argument: only /picar/etc and what
\* savetoflash is given go where loadfromflash takes them from.
\* Mutated: the configuration is saved like the keys, under conf.
UnderConf(f) == IF f \in {"passwd", "conf"} THEN "elsewhere" ELSE f
PlaceOf(f) == IF f = "passwd" THEN "elsewhere" ELSE f

SaveConfig ==
  /\ stage = "up" \/ (stage = "down" /\ save["savetoflash"] # Idle)
  /\ save["saveconfig"] = Idle
  /\ save' = [save EXCEPT !["saveconfig"] = Run(<<"conf", "drift", "passwd">>)]
  /\ UNCHANGED <<stage, ram, cache, disk, mounted, storeVars>>

Mount(s) ==
  /\ save[s].at = "mount" /\ mounted' = TRUE
  /\ save' = [save EXCEPT ![s] = IF mounted THEN [Idle EXCEPT !.at = "sync"]
                                            ELSE [@ EXCEPT !.at = "copy"]]
  /\ UNCHANGED <<stage, ram, cache, disk, storeVars>>

\* What the script takes for saved.
Account(f) ==
  IF f \in InPlace
    THEN /\ stored' = [stored EXCEPT ![f] = ram[f]] /\ pending' = pending \cup {f}
         /\ missed' = IF mounted THEN missed \ {f} ELSE missed \cup {f}
    ELSE UNCHANGED storeVars

\* On a /mnt the other script has unmounted the copy goes into memory, and nobody notices.
CopyFile(s) ==
  /\ save[s].at = "copy" /\ save[s].todo # <<>>
  /\ LET f == Head(save[s].todo) IN
       /\ save' = [save EXCEPT ![s] = [@ EXCEPT !.todo = Tail(save[s].todo),
                                               !.copied = save[s].copied \cup {f}]]
       /\ cache' = [p \in InPlace |-> IF mounted /\ p = PlaceOf(f) THEN ram[f] ELSE cache[p]]
       /\ Account(f)
  /\ UNCHANGED <<stage, ram, disk, mounted>>

Sync(s) ==
  /\ \/ save[s].at = "copy" /\ save[s].todo = <<>>
     \/ save[s].at = "sync"
  /\ save' = [save EXCEPT ![s].at = "umount"]
  /\ disk' = cache
  /\ UNCHANGED <<stage, ram, cache, mounted, storeVars>>

Unmount(s) ==
  /\ save[s].at = "umount"
  /\ save' = [save EXCEPT ![s] = Idle]
  /\ mounted' = FALSE /\ disk' = cache
  /\ pending' = pending \ save[s].copied
  /\ UNCHANGED <<stage, ram, cache, stored, missed>>

-----------------------------------------------------------------------------
(* Changes, and the end.                                                   *)

\* An operator, or ntpd for its drift.  No boot finds a change of the accounts, so there
\* is none.
Edit(f) ==
  /\ stage = "up" /\ f # "key" /\ ram[f] < MaxVersion
  /\ ram' = [ram EXCEPT ![f] = IF @ < 0 THEN 0 ELSE @ + 1]
  /\ UNCHANGED <<stage, cache, disk, mounted, save, storeVars>>

\* init's first shutdown action.
SaveDrift ==
  /\ stage = "up" /\ stage' = "down"
  /\ save' = [save EXCEPT !["savetoflash"] = Run(<<"drift">>)]
  /\ UNCHANGED <<ram, cache, disk, mounted, storeVars>>

\* The power is off, what is on the disk stays, and the next boot begins.
PowerOffAndOn ==
  /\ stage' = "load" /\ ram' = Image /\ cache' = disk'
  /\ mounted' = FALSE /\ save' = [s \in Scripts |-> Idle]
  /\ UNCHANGED storeVars

\* The others: all processes are killed and what is mounted is unmounted.
Halt ==
  /\ stage = "down" /\ save["savetoflash"] = Idle
  /\ disk' = cache
  /\ PowerOffAndOn

CutPower ==
  /\ \E left \in [{p \in InPlace : cache[p] # disk[p]} -> {"old", "new", "part"}] :
       disk' = [p \in InPlace |->
                  IF p \notin DOMAIN left \/ left[p] = "old" THEN disk[p]
                  ELSE IF left[p] = "new" THEN cache[p] ELSE Torn]
  /\ PowerOffAndOn

FlashNext ==
  \/ LoadFromFlash \/ MakeKey \/ SaveConfig \/ SaveDrift \/ Halt \/ CutPower
  \/ (\E s \in Scripts : Mount(s) \/ CopyFile(s) \/ Sync(s) \/ Unmount(s))
  \/ \E f \in InPlace : Edit(f)

FlashSpec == FlashInit /\ [][FlashNext]_flashVars

-----------------------------------------------------------------------------
(* Properties.                                                             *)

\* The next boot finds in its place what a script that came to its end last copied to the
\* flash, for any overlap of the two and with power cuts between any two steps (S50sshd:44,
\* saveconfig, loadfromflash).  Left out, in missed, is a file whose last copy was made
\* after the other script had unmounted /mnt: that one is lost, see DoneIsRestored.  The
\* accounts and the operator's key are saved where no boot looks for them.
Restored ==
  stage = "sshd" =>
    \A f \in InPlace : stored[f] # None /\ f \notin pending \cup missed => ram[f] = stored[f]

\* What saveconfig:23 says with "Done.", and line 4 of what it does: the configuration it
\* copied is in the flash, for the next boot to load.
DoneIsRestored ==
  stage = "sshd" =>
    (stored["conf"] # None /\ "conf" \notin pending => ram["conf"] = stored["conf"])
=============================================================================

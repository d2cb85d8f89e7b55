---------------------------- MODULE UpdaterApply -----------------------------
(***************************************************************************)
(* go2rtc-updater replaces the executable of the Windows service go2rtc:   *)
(* internal/updater/runner.go, apply_windows.go and                        *)
(* run_from_go2rtc_windows.go. The scheduled check and the manual one are  *)
(* separate processes.                                                     *)
(* The releases, the service manager, the disk and power failures are      *)
(* external. Versions are numbers: 1 is installed first.                   *)
(***************************************************************************)
EXTENDS Integers, FiniteSets

CONSTANTS
    Updaters,       \* processes of go2rtc-updater
    MaxVersion,     \* the last release
    Troubles        \* the sets of calls that may fail in a behaviour

FaultKinds == {"download", "stop", "wait", "rename", "copy", "restore", "start", "crash"}

ASSUME VersionAssumption == MaxVersion \in Nat \ {0}
ASSUME TroublesAssumption == Troubles \subseteq SUBSET FaultKinds

None == 0           \* no such file
Partial == -1       \* a file that was not written to the end
Versions == 1..MaxVersion
Files == Versions \cup {None, Partial}

VARIABLES
    latest,     \* the latest release
    svc,        \* the service: running, stopping or stopped
    run,        \* the version it runs, or ran last
    target,     \* go2rtc.exe
    bak,        \* go2rtc.exe.bak
    tmp,        \* each process's go2rtc-update-*.exe
    pc,         \* each process's place
    new,        \* CheckResult.Latest
    status,     \* State in updater-status.json
    faults,     \* the calls that may fail; a fact of the machine, like:
    slow        \* a service that was told to stop may take its time

disk == <<target, bak>>
service == <<latest, svc, run>>
moves == <<latest, svc, run, target, bak, tmp, pc, new, status>>
machine == <<faults, slow>>
vars == <<moves, machine>>

TypeOK ==
    /\ latest \in Versions /\ run \in Versions
    /\ svc \in {"running", "stopping", "stopped"}
    /\ target \in Files /\ bak \in Files
    /\ tmp \in [Updaters -> Files]
    /\ pc \in [Updaters -> {"idle", "download", "clean", "stop", "wait", "backup",
                             "open", "copy", "restore", "restart", "start"}]
    /\ new \in [Updaters -> Versions]
    /\ status \in {"none", "current", "available", "error", "applying", "updated"}
    /\ faults \in SUBSET FaultKinds /\ slow \in BOOLEAN

Init ==
    /\ latest = 1 /\ svc = "running" /\ run = 1
    /\ target = 1 /\ bak = None
    /\ tmp = [u \in Updaters |-> None]
    /\ pc = [u \in Updaters |-> "idle"]
    /\ new = [u \in Updaters |-> 1]
    /\ status = "none"
    /\ faults \in Troubles /\ slow \in BOOLEAN

Goes(u, from, to) == pc[u] = from /\ pc' = [pc EXCEPT ![u] = to]

-----------------------------------------------------------------------------
(* Releases, the service manager, power.                                   *)

(* A release appears, or is withdrawn.                                     *)
Release ==
    /\ latest' \in Versions \ {latest}
    /\ UNCHANGED <<svc, run, disk, tmp, pc, new, status>>

Stops ==
    /\ svc = "stopping" /\ svc' = "stopped"
    /\ UNCHANGED <<latest, run, disk, tmp, pc, new, status>>

(* The machine restarts: the services with it, if there is a whole program. *)
Crash ==
    /\ "crash" \in faults
    /\ IF target \in Versions
       THEN svc' = "running" /\ run' = target
       ELSE svc' = "stopped" /\ UNCHANGED run
    /\ pc' = [u \in Updaters |-> "idle"]
    /\ UNCHANGED <<latest, disk, tmp, new, status>>

-----------------------------------------------------------------------------
(* Runner.Check and the download.                                          *)

(* fetchRunningVersion asks the API of the service: when that does not run, *)
(* the check fails.                                                        *)
CheckFails(u) ==
    /\ pc[u] = "idle"
    /\ svc # "running" \/ "download" \in faults
    /\ status' = "error"
    /\ UNCHANGED <<service, disk, tmp, pc, new>>

(* Mutant: any other version is needed.                                     *)
NeedsMutant == latest # run

Needs == latest > run

CheckCurrent(u) ==
    /\ pc[u] = "idle" /\ svc # "stopped" /\ ~Needs
    /\ status' = "current"
    /\ UNCHANGED <<service, disk, tmp, pc, new>>

CheckNeeds(u) ==
    /\ svc # "stopped" /\ Needs
    /\ Goes(u, "idle", "download")
    /\ new' = [new EXCEPT ![u] = latest]
    /\ status' = "available"
    /\ UNCHANGED <<service, disk, tmp>>

DownloadFails(u) ==
    /\ "download" \in faults
    /\ Goes(u, "download", "idle")
    /\ UNCHANGED <<service, disk, tmp, new, status>>

Download(u) ==
    /\ Goes(u, "download", "clean")
    /\ tmp' = [tmp EXCEPT ![u] = new[u]]
    /\ status' = "applying"
    /\ UNCHANGED <<service, disk, new>>

-----------------------------------------------------------------------------
(* ApplyWindows.                                                           *)

(* Apply returns the error of ApplyWindows.                                *)
Fails(u, from) ==
    /\ Goes(u, from, "idle")
    /\ tmp' = [tmp EXCEPT ![u] = None]
    /\ status' = "error"
    /\ UNCHANGED <<service, new>>

RemoveBackup(u) ==
    /\ Goes(u, "clean", "stop")
    /\ bak' = None
    /\ UNCHANGED <<service, target, tmp, new, status>>

StopFails(u) ==
    /\ "stop" \in faults
    /\ Fails(u, "stop")
    /\ UNCHANGED disk

(* A service that does not run is as good as stopped (1062).               *)
ScStop(u) ==
    /\ Goes(u, "stop", "wait")
    /\ svc' = IF svc # "stopped" /\ slow THEN "stopping" ELSE "stopped"
    /\ UNCHANGED <<latest, run, disk, tmp, new, status>>

(* "still running after 90s"                                               *)
WaitFails(u) ==
    /\ svc = "running" \/ "wait" \in faults
    /\ Fails(u, "wait")
    /\ UNCHANGED disk

(* What waitServiceStopped waits for: a state that is not RUNNING.         *)
MayReplace == svc # "running"

WaitStopped(u) ==
    /\ MayReplace
    /\ Goes(u, "wait", "backup")
    /\ UNCHANGED <<service, disk, tmp, new, status>>

RenameFails(u) ==
    /\ "rename" \in faults /\ target # None
    /\ Fails(u, "backup")
    /\ UNCHANGED disk

(* Mutant: the old program is not kept.                                    *)
KeptMutant == None

(* What is left as the backup: the program, if there is one.               *)
Kept == IF target = None THEN bak ELSE target

Backup(u) ==
    /\ Goes(u, "backup", "open")
    /\ bak' = Kept
    /\ target' = None
    /\ UNCHANGED <<service, tmp, new, status>>

(* copyFile creates the program ...                                        *)
CopyOpens(u) ==
    /\ Goes(u, "open", "copy")
    /\ target' = Partial
    /\ UNCHANGED <<service, bak, tmp, new, status>>

CopyFails(u) ==
    /\ "copy" \in faults
    /\ Goes(u, "copy", "restore")
    /\ UNCHANGED <<service, disk, tmp, new, status>>

(* ... and writes it.                                                      *)
CopyEnds(u) ==
    /\ Goes(u, "copy", "start")
    /\ target' = tmp[u]
    /\ UNCHANGED <<service, bak, tmp, new, status>>

(* The old program back in its place, unless there is none.                *)
Restored == IF bak = None THEN target ELSE bak

Restore(u) ==
    /\ Goes(u, "restore", "restart")
    /\ target' = Restored
    /\ bak' = None
    /\ UNCHANGED <<service, tmp, new, status>>

(* Nobody looks whether that worked.                                       *)
RestoreFails(u) ==
    /\ "restore" \in faults
    /\ Goes(u, "restore", "restart")
    /\ UNCHANGED <<service, disk, tmp, new, status>>

(* sc start: a service that still stops counts as running (1056).          *)
ScStart ==
    IF svc = "stopped" /\ target \in Versions
    THEN svc' = "running" /\ run' = target
    ELSE UNCHANGED <<svc, run>>

StartCanFail == "start" \in faults \/ (svc = "stopped" /\ target \notin Versions)

(* Mutant: after a failed copy the service is not started again.            *)
RestartMutant(u) == Fails(u, "restart") /\ UNCHANGED disk

(* After a failed copy the result of sc start does not matter.             *)
Restart(u) ==
    /\ Goes(u, "restart", "idle")
    /\ tmp' = [tmp EXCEPT ![u] = None]
    /\ status' = "error"
    /\ \/ ScStart
       \/ "start" \in faults /\ UNCHANGED <<svc, run>>
    /\ UNCHANGED <<latest, disk, new>>

StartFails(u) ==
    /\ StartCanFail
    /\ Fails(u, "start")
    /\ UNCHANGED disk

Start(u) ==
    /\ svc = "stopped" => target \in Versions
    /\ Goes(u, "start", "idle")
    /\ ScStart
    /\ tmp' = [tmp EXCEPT ![u] = None]
    /\ status' = "updated"
    /\ UNCHANGED <<latest, disk, new>>

Check(u) == CheckFails(u) \/ CheckCurrent(u) \/ CheckNeeds(u)

ApplyWindows(u) ==
    \/ RemoveBackup(u) \/ StopFails(u) \/ ScStop(u) \/ WaitFails(u) \/ WaitStopped(u)
    \/ RenameFails(u) \/ Backup(u) \/ CopyOpens(u) \/ CopyFails(u) \/ CopyEnds(u)
    \/ Restore(u) \/ RestoreFails(u) \/ Restart(u) \/ StartFails(u) \/ Start(u)

Apply(u) == DownloadFails(u) \/ Download(u) \/ ApplyWindows(u)

Moves ==
    \/ \E u \in Updaters : Check(u) \/ Apply(u)
    \/ Release \/ Stops \/ Crash

Next == Moves /\ UNCHANGED machine

Spec == Init /\ [][Next]_vars

(* A process that has begun goes on, and a service that stops gets there.  *)
FairSpec ==
    /\ Spec
    /\ \A u \in Updaters : WF_moves(Apply(u))
    /\ WF_moves(Stops)

-----------------------------------------------------------------------------
(* Properties.                                                             *)

(* The way back may fail while the service, told to stop, still answers.   *)
NoWayBack == slow /\ {"copy", "restore"} \subseteq faults

(* At every moment, also after a crash in the middle, there is a whole     *)
(* program on the disk: in its place or as the backup. Except where        *)
(* another update may begin after NoWayBack: it removes the backup first.  *)
SomeProgram == ~NoWayBack => target \in Versions \/ bak \in Versions

(* An update never ends with an older program than the one that ran.       *)
NoDowngrade == [][run' >= run]_vars

(* "updates go2rtc.exe while the main go2rtc service is stopped".          *)
WhileStopped == [][target' # target => svc = "stopped"]_vars

(* The calls after whose failure ApplyWindows does not leave the service   *)
(* down.                                                                   *)
Harmless == {"download", "stop", "copy"}

(* Between the stop of the service and its start.                          *)
Replacing == {"wait", "backup", "open", "copy", "restore", "restart", "start"}

(* On a machine that stops a service at once, the service is down only     *)
(* during an update, whatever fails of the calls that may.                 *)
DownMeanwhile ==
    faults \subseteq Harmless /\ ~slow /\ svc # "running" => \E u \in Updaters : pc[u] \in Replacing

(* What was stopped for an update runs again, updated or restored, on a    *)
(* machine that stops a service at once.                                   *)
RunsAgain == (faults \subseteq Harmless /\ ~slow) => []<>(svc = "running")
=============================================================================

-------------------------- MODULE UpdaterApplyProofs --------------------------
(***************************************************************************)
(* A single updater process, any number of releases, any faults and        *)
(* crashes: there is always a whole program on the disk, and updates only  *)
(* go forward; and without the faults that leave it down, the service is   *)
(* down only during an update.                                             *)
(***************************************************************************)
EXTENDS UpdaterApply, TLAPS

Newer(f) == f \in Versions => f >= run

(* Where the program is while process u is at each place, and how new it    *)
(* is: until the rename it is target, until the copy is made or undone it   *)
(* is the backup, and then it is target again; or it stays the backup, and  *)
(* the service is down, unless there was no way back while it still stops.  *)
Whole(u) ==
    /\ Newer(target)
    /\ svc = "stopping" => slow
    /\ pc[u] = "idle" /\ ~NoWayBack => /\ target \in Versions \/ bak \in Versions
                                       /\ svc # "stopped" => target \in Versions
    /\ pc[u] \in {"download", "clean", "stop", "wait", "backup"} /\ ~NoWayBack => target \in Versions
    /\ pc[u] \in {"stop", "wait", "backup"} => bak = None
    /\ pc[u] \in {"open", "copy", "restore", "restart"} => Newer(bak)
    /\ pc[u] \in {"open", "copy", "restore"} => target \notin Versions /\ (NoWayBack \/ bak \in Versions)
    /\ pc[u] = "restart" /\ ~NoWayBack =>
            \/ target \in Versions
            \/ svc = "stopped" /\ bak \in Versions /\ "restore" \in faults
    /\ pc[u] = "restore" => "copy" \in faults
    /\ pc[u] # "idle" /\ pc[u] # "restart" => new[u] > run
    /\ pc[u] \in {"clean", "stop", "wait", "backup", "open", "copy"} => tmp[u] = new[u]
    /\ pc[u] = "start" => target = new[u]
    /\ pc[u] \in {"backup", "open", "copy", "restore"} => svc # "running"

IInv == TypeOK /\ \A u \in Updaters : Whole(u)

(* The types and the places of the program hold at first and are kept by    *)
(* every step of a process that is alone.                                   *)
LEMMA Inductive ==
    ASSUME NEW p, Updaters = {p}
    PROVE  /\ Init => IInv
           /\ IInv /\ [Next]_vars => IInv'
<1> USE VersionAssumption DEF Versions, Files, None, Partial, IInv, TypeOK, Whole, Newer, NoWayBack
<1>1. Init => IInv
  BY TroublesAssumption DEF Init
<1>2. ASSUME IInv, [Next]_vars PROVE IInv'
  <2> USE <1>2
  <2>0. faults' \in SUBSET FaultKinds /\ slow' \in BOOLEAN /\ faults' = faults /\ slow' = slow
    BY DEF Next, machine, vars
  <2> USE <2>0 DEF Goes, disk, service
  <2>1. CASE Release
    BY <2>1 DEF Release
  <2>2. CASE Stops
    BY <2>2 DEF Stops
  <2>3. CASE Crash
    BY <2>3 DEF Crash
  <2>4. CASE Check(p)
    BY <2>4 DEF Check, CheckFails, CheckCurrent, CheckNeeds, Needs
  <2>5. CASE DownloadFails(p)
    BY <2>5 DEF DownloadFails
  <2>6. CASE Download(p)
    BY <2>6 DEF Download
  <2>7. CASE RemoveBackup(p) \/ StopFails(p) \/ WaitFails(p) \/ WaitStopped(p) \/ RenameFails(p)
    BY <2>7 DEF RemoveBackup, StopFails, WaitFails, WaitStopped, MayReplace, RenameFails, Fails
  <2>8. CASE ScStop(p)
    BY <2>8 DEF ScStop
  <2>9. CASE Backup(p)
    BY <2>9 DEF Backup, Kept
  <2>10. CASE CopyOpens(p) \/ CopyFails(p)
    BY <2>10 DEF CopyOpens, CopyFails
  <2>11. CASE CopyEnds(p)
    BY <2>11 DEF CopyEnds
  <2>12. CASE Restore(p) \/ RestoreFails(p)
    BY <2>12 DEF Restore, Restored, RestoreFails
  <2>13. CASE Restart(p)
    BY <2>13 DEF Restart, ScStart
  <2>14. CASE StartFails(p)
    BY <2>14 DEF StartFails, Fails
  <2>15. CASE Start(p)
    BY <2>15 DEF Start, ScStart
  <2>16. CASE UNCHANGED vars
    BY <2>16 DEF vars, moves
  <2>17. QED
    BY <2>1, <2>2, <2>3, <2>4, <2>5, <2>6, <2>7, <2>8, <2>9, <2>10, <2>11, <2>12, <2>13,
       <2>14, <2>15, <2>16 DEF Next, Moves, Apply, ApplyWindows
<1>3. QED
  BY <1>1, <1>2

LEMMA Invariance == ASSUME NEW p, Updaters = {p} PROVE Spec => []IInv
<1>1. Init => IInv
  BY Inductive
<1>2. IInv /\ [Next]_vars => IInv'
  BY Inductive
<1>3. QED
  BY <1>1, <1>2, PTL DEF Spec

(* ApplyWindows: whatever fails and wherever a crash comes, go2rtc.exe or   *)
(* its backup is a whole program, unless the way back may fail while the    *)
(* service still stops.                                                     *)
THEOREM ProgramStays == ASSUME NEW p, Updaters = {p} PROVE Spec => []SomeProgram
<1>1. IInv => SomeProgram
  <2> SUFFICES ASSUME IInv PROVE SomeProgram
    OBVIOUS
  <2>1. pc[p] \in {"idle", "download", "clean", "stop", "wait", "backup",
                   "open", "copy", "restore", "restart", "start"}
    BY DEF IInv, TypeOK
  <2>2. new[p] \in Versions
    BY DEF IInv, TypeOK
  <2>3. QED
    BY <2>1, <2>2 DEF IInv, Whole, SomeProgram
<1>2. Spec => []IInv
  BY Invariance
<1>3. QED
  BY <1>1, <1>2, PTL

(* Runner.Check and Apply: the service never comes back older than it was.  *)
THEOREM OnlyForward == ASSUME NEW p, Updaters = {p} PROVE Spec => NoDowngrade
<1>1. ASSUME IInv, [Next]_vars PROVE [run' >= run]_vars
  <2> SUFFICES ASSUME Next PROVE run' >= run
    BY <1>1
  <2> USE <1>1, VersionAssumption
  <2> USE DEF IInv, TypeOK, Whole, Newer, Versions, disk, service, Goes
  <2>1. CASE Crash
    BY <2>1 DEF Crash, Files
  <2>2. CASE Restart(p)
    BY <2>2 DEF Restart, ScStart
  <2>3. CASE Start(p)
    BY <2>3 DEF Start, ScStart
  <2>4. CASE run' = run
    BY <2>4
  <2>5. QED
    BY <2>1, <2>2, <2>3, <2>4 DEF Next, Moves, Check, CheckFails, CheckCurrent, CheckNeeds, Apply,
       DownloadFails, Download, ApplyWindows, RemoveBackup, StopFails, ScStop, WaitFails,
       WaitStopped, RenameFails, Backup, CopyOpens, CopyFails, CopyEnds, Restore, RestoreFails, StartFails,
       Fails, Release, Stops
<1>2. Spec => []IInv
  BY Invariance
<1>3. QED
  BY <1>1, <1>2, PTL DEF Spec, NoDowngrade

(* ApplyWindows and its way back after a failed copy: a service that was    *)
(* stopped for an update is down no longer than the update lasts, unless    *)
(* it takes its time or a call fails that leaves it down.                   *)
THEOREM DownNoLonger == ASSUME NEW p, Updaters = {p} PROVE Spec => []DownMeanwhile
<1> DEFINE Meanwhile ==
        faults \subseteq Harmless /\ ~slow =>
            svc # "stopping" /\ (svc = "running" \/ pc[p] \in Replacing)
<1>1. Init => Meanwhile
  BY DEF Init
<1>2. ASSUME IInv, Meanwhile, [Next]_vars PROVE Meanwhile'
  <2> SUFFICES ASSUME faults' \subseteq Harmless, ~slow' PROVE Meanwhile'
    OBVIOUS
  <2>1. /\ faults' = faults /\ slow' = slow
        /\ svc # "stopping" /\ (svc = "running" \/ pc[p] \in Replacing)
    BY <1>2 DEF Next, machine, vars
  <2>2. {"rename", "wait", "restore", "start", "crash"} \cap faults = {}
    BY <2>1 DEF Harmless
  <2>3. /\ pc \in [Updaters -> {"idle", "download", "clean", "stop", "wait", "backup",
                                "open", "copy", "restore", "restart", "start"}]
        /\ new[p] \in Versions /\ svc \in {"running", "stopping", "stopped"}
        /\ pc[p] = "start" => target = new[p]
        /\ pc[p] \in {"backup", "restart"} => target \in Versions
    BY <1>2, <2>1, <2>2 DEF IInv, TypeOK, Whole, NoWayBack
  <2> USE <2>1, <2>2, <2>3 DEF Goes, service, disk, Replacing
  <2>4. CASE Release \/ Stops \/ Crash \/ Check(p) \/ DownloadFails(p) \/ Download(p)
    BY <2>4 DEF Release, Stops, Crash, Check, CheckFails, CheckCurrent, CheckNeeds, DownloadFails, Download
  <2>5. CASE RemoveBackup(p) \/ StopFails(p) \/ ScStop(p)
    BY <2>5 DEF RemoveBackup, StopFails, ScStop, Fails
  <2>6. CASE WaitFails(p) \/ WaitStopped(p) \/ RenameFails(p) \/ StartFails(p)
    <3>1. ~RenameFails(p) /\ ~StartFails(p)
      BY DEF RenameFails, StartFails, StartCanFail, Fails
    <3>2. CASE WaitFails(p)
      BY <3>2 DEF WaitFails, Fails
    <3>3. CASE WaitStopped(p)
      BY <3>3 DEF WaitStopped
    <3>4. QED
      BY <2>6, <3>1, <3>2, <3>3
  <2>7. CASE Backup(p) \/ CopyOpens(p) \/ CopyFails(p) \/ CopyEnds(p) \/ Restore(p) \/ RestoreFails(p)
    BY <2>7 DEF Backup, CopyOpens, CopyFails, CopyEnds, Restore, RestoreFails
  <2>8. CASE Restart(p) \/ Start(p)
    BY <2>8 DEF Restart, Start, ScStart
  <2>9. CASE UNCHANGED vars
    BY <2>9 DEF vars, moves
  <2>10. QED
    BY <1>2, <2>4, <2>5, <2>6, <2>7, <2>8, <2>9 DEF Next, Moves, Apply, ApplyWindows
<1>3. Meanwhile => DownMeanwhile
  BY DEF DownMeanwhile
<1>4. Spec => []IInv
  BY Invariance
<1>5. QED
  BY <1>1, <1>2, <1>3, <1>4, PTL DEF Spec
=============================================================================

-------------------------------- MODULE PidFile --------------------------------
(***************************************************************************)
(* The guard against a second LinkCode on the same directory: the PID file *)
(* bin/.linkcode.pid is checked when an instance starts and written only   *)
(* after the whole start-up, when the control bot and every worker bot are *)
(* connected (cmd/linkcode/main.go).  Nothing locks it, and make.ps1,      *)
(* which stops and starts instances, writes and removes it from outside.   *)
(*                                                                         *)
(* The file system and the process table are shared by all.  An instance   *)
(* is named by its PID; a PID is used again once its process has gone, by  *)
(* another instance or by another program.  One make.ps1 works at a time.  *)
(***************************************************************************)
EXTENDS Naturals, FiniteSets

CONSTANTS
  Pid,        \* PIDs an instance may get
  NoFile,     \* there is no PID file
  Corrupt,    \* the file holds no number: not written yet, or not in UTF-8
  MaxStarts   \* bound on the starts

ScriptLabel == {"idle", "unlink", "clean", "launch"}

ASSUME PidConstants ==
  /\ NoFile \notin Pid /\ Corrupt \notin Pid /\ NoFile # Corrupt
  /\ Pid \cap ScriptLabel = {}
  /\ MaxStarts \in Nat

VARIABLES
  file,       \* what the PID file holds
  pc,         \* where the instance is; "off": no such process
  starts,     \* starts so far
  script,     \* make.ps1: its place, or the instance it has launched in the background
  cause,      \* history: what has happened that the guard does not withstand
  refused     \* history: PIDs told that LinkCode is running though no other instance was there

vars == <<file, pc, starts, script, cause, refused>>

Label == {"off", "read", "remove", "startup", "write", "running", "release"}

\* What may let a second instance in:
SecondCauses == {
  "overlap",      \* an instance started while another one was on its way in or out
  "unwritten",    \* a PID file could not be written, which is only logged
  "unseen",       \* signal 0 did not reach a running instance
  "removed",      \* make.ps1 removed the file with an instance running
  "overwritten"}  \* make.ps1 wrote something else over the PID of a running one

\* What may leave the PID of a process that has gone:
LeftCauses == {
  "killed",       \* an instance ended without its shutdown after it had written
  "restart",      \* it ended by /restart
  "early",        \* make.ps1 wrote the PID of an instance that was not running yet
  "unremoved"}    \* a shutdown could not remove the file, which is not even logged

TypeOK ==
  /\ file \in Pid \cup {NoFile, Corrupt}
  /\ pc \in [Pid -> Label]
  /\ starts \in 0..MaxStarts
  /\ script \in ScriptLabel \cup Pid
  /\ cause \subseteq SecondCauses \cup LeftCauses
  /\ refused \subseteq Pid

Init ==
  /\ file = NoFile
  /\ pc = [p \in Pid |-> "off"]
  /\ starts = 0
  /\ script = "idle"
  /\ cause = {} /\ refused = {}

Exists(p) == pc[p] # "off"
StartingUp(p) == pc[p] \in {"read", "remove", "startup", "write"}
Running(p) == pc[p] \in {"running", "release"}

Goto(p, label) == pc' = [pc EXCEPT ![p] = label]

Because(what, happened) == cause' = IF happened THEN cause \cup {what} ELSE cause

\* The process that make.ps1 launched keeps its PID until make.ps1 lets go of it.
Start(p) ==
  /\ ~ Exists(p) /\ script # p
  /\ starts < MaxStarts
  /\ starts' = starts + 1
  /\ Because("overlap", \E q \in Pid : StartingUp(q) \/ pc[q] = "release")
  /\ Goto(p, "read")
  /\ UNCHANGED <<file, refused>>

StartByHand(p) == Start(p) /\ UNCHANGED script

-----------------------------------------------------------------------------
(* acquirePidFile.                                                          *)

NoPidFile(p) ==
  /\ pc[p] = "read" /\ file = NoFile
  /\ Goto(p, "startup")
  /\ UNCHANGED <<file, starts, script, cause, refused>>

\* The file is there but cannot be read, or the directory forbids it.
Unreadable(p) ==
  /\ pc[p] = "read"
  /\ Goto(p, "off")
  /\ UNCHANGED <<file, starts, script, cause, refused>>

RefusedIfAlone(p) ==
  refused' = IF \E q \in Pid \ {p} : Exists(q) THEN refused ELSE refused \cup {p}

AlreadyRunning_Releases(p) ==
  /\ pc[p] = "read" /\ file \in Pid
  /\ Goto(p, "off")
  /\ RefusedIfAlone(p)
  /\ file' = NoFile
  /\ UNCHANGED <<starts, script, cause>>

\* Signal 0 reaches a process of the PID that was read: an instance, the reader itself, or
\* another program that has this PID by now.
AlreadyRunning(p) ==
  /\ pc[p] = "read" /\ file \in Pid
  /\ Goto(p, "off")
  /\ RefusedIfAlone(p)
  /\ UNCHANGED <<file, starts, script, cause>>

\* The file holds no number, or signal 0 fails: the process has gone, or it is another
\* user's, or the system is Windows, where signal 0 fails for every process.
Stale(p) ==
  /\ pc[p] = "read" /\ file # NoFile
  /\ Because("unseen", file \in Pid /\ Running(file))
  /\ Goto(p, "remove")
  /\ UNCHANGED <<file, starts, script, refused>>

\* Whatever the file holds by now; nobody looks whether it could be removed.
RemoveStale(p) ==
  /\ pc[p] = "remove"
  /\ file' \in {file, NoFile}
  /\ Goto(p, "startup")
  /\ UNCHANGED <<starts, script, cause, refused>>

-----------------------------------------------------------------------------
(* main after the check, and /restart.                                      *)

\* Configuration, database, migrations, bots: log.Fatalf leaves the file as it is.
StartupFails(p) ==
  /\ pc[p] = "startup"
  /\ Goto(p, "off")
  /\ UNCHANGED <<file, starts, script, cause, refused>>

\* writePidFile opens the file, which empties it, ...
OpenPidFile(p) ==
  /\ pc[p] = "startup"
  /\ file' = Corrupt
  /\ Goto(p, "write")
  /\ UNCHANGED <<starts, script, cause, refused>>

\* Getppid in place of Getpid: 0 stands for a process that is no instance.
WritePid_Parent(p) ==
  /\ pc[p] = "write"
  /\ file' = 0
  /\ Goto(p, "running")
  /\ UNCHANGED <<starts, script, cause, refused>>

\* ... and writes the PID, which is lost when the name was removed in between.
WritePid(p) ==
  /\ pc[p] = "write"
  /\ file' = IF file = NoFile THEN NoFile ELSE p
  /\ Goto(p, "running")
  /\ UNCHANGED <<starts, script, cause, refused>>

\* The error of writePidFile is a warning.
WriteFails(p) ==
  /\ pc[p] \in {"startup", "write"}
  /\ Because("unwritten", TRUE)
  /\ Goto(p, "running")
  /\ UNCHANGED <<file, starts, script, refused>>

\* SIGINT or SIGTERM: CloseAll, then releasePidFile, whoever the file belongs to.
Shutdown(p) ==
  /\ pc[p] = "running"
  /\ Goto(p, "release")
  /\ UNCHANGED <<file, starts, script, cause, refused>>

ReleasePidFile_Keeps(p) ==
  /\ pc[p] = "release"
  /\ Goto(p, "off")
  /\ UNCHANGED <<file, starts, script, cause, refused>>

ReleasePidFile(p) ==
  /\ pc[p] = "release"
  /\ file' \in {file, NoFile}
  /\ Because("unremoved", file' # NoFile)
  /\ Goto(p, "off")
  /\ UNCHANGED <<starts, script, refused>>

\* /restart ends the program by os.Exit, without releasePidFile, from the moment the control
\* bot is connected.  The make.ps1 that it detaches is one of those that may begin any time.
RestartCommand(p) ==
  /\ pc[p] \in {"startup", "write", "running", "release"}
  /\ Because("restart", Running(p))
  /\ Goto(p, "off")
  /\ UNCHANGED <<file, starts, script, refused>>

\* Killed, or a panic; before signal.Notify any signal is one.
Crash(p) ==
  /\ Exists(p)
  /\ Because("killed", Running(p))
  /\ Goto(p, "off")
  /\ UNCHANGED <<file, starts, script, refused>>

-----------------------------------------------------------------------------
(* make.ps1.                                                                *)

\* Invoke-Stop kills by the file and by name; what cannot be killed is passed over.
ScriptKills ==
  /\ script = "idle" /\ script' = "unlink"
  /\ \E gone \in SUBSET {p \in Pid : Exists(p)} :
       /\ Because("killed", \E p \in gone : Running(p))
       /\ pc' = [p \in Pid |-> IF p \in gone THEN "off" ELSE pc[p]]
  /\ UNCHANGED <<file, starts, refused>>

\* Remove-Item at the end of stop, in clean and in status, whose failure is passed over, and
\* at the beginning of start, whose failure ends the script.
ScriptUnlinks ==
  /\ file' \in {file, NoFile}
  /\ \/ script = "idle" /\ script' = "idle"
     \/ script = "unlink" /\ script' \in {"idle", "clean"}
     \/ script = "clean" /\ script' = IF file' = NoFile THEN "launch" ELSE "idle"
  /\ Because("removed", file' # file /\ \E p \in Pid : Running(p) \/ pc[p] = "write")
  /\ UNCHANGED <<pc, starts, refused>>

\* In the foreground make.ps1 has nothing more to do; with -daemon it waits three seconds.
ScriptLaunches(p) ==
  /\ script = "launch"
  /\ Start(p)
  /\ script' \in {"idle", p}

\* It then writes the PID unless the instance has exited, or had a moment before.  Windows
\* PowerShell, which /restart calls, writes it in UTF-16: to strconv.Atoi that is no number.
ScriptWrites(p) ==
  /\ script = p /\ script' = "idle"
  /\ file' \in {p, Corrupt} \cup (IF Exists(p) THEN {} ELSE {file})
  /\ cause' = cause
       \cup (IF file' # file /\ \E q \in Pid : Running(q) /\ file' # q
               THEN {"overwritten"} ELSE {})
       \cup (IF file' = p /\ ~ Running(p) THEN {"early"} ELSE {})
  /\ UNCHANGED <<pc, starts, refused>>

Next ==
  \/ \E p \in Pid :
       \/ StartByHand(p)
       \/ NoPidFile(p) \/ Unreadable(p) \/ AlreadyRunning(p) \/ Stale(p) \/ RemoveStale(p)
       \/ StartupFails(p) \/ OpenPidFile(p) \/ WritePid(p) \/ WriteFails(p)
       \/ Shutdown(p) \/ ReleasePidFile(p) \/ RestartCommand(p) \/ Crash(p)
       \/ ScriptLaunches(p) \/ ScriptWrites(p)
  \/ ScriptKills \/ ScriptUnlinks

Spec == Init /\ [][Next]_vars

-----------------------------------------------------------------------------
(* Properties.                                                              *)

\* Two instances run at once only for one of five causes: one was started while another was
\* on its way in or out, a PID file could not be written, signal 0 did not reach a running
\* instance, or make.ps1 removed the file of a running one or wrote something else over it.
\* Crashes, /restart, stale and corrupt files, files that cannot be removed and failed
\* start-ups, alone or together, never let a second one in (main.go:41-80, 86-89,
\* make.ps1:73-165).
TwoOnlyForCause ==
  Cardinality({p \in Pid : Running(p)}) > 1 => cause \cap SecondCauses # {}

\* What the argument for it rests on, as long as none of the causes is there: one instance
\* starts up at a time, the file it has opened is there until its PID is in it, and a
\* running instance owns the file, so the others are not past their check.
OwnsFile ==
  cause \cap SecondCauses # {} \/
    /\ \A p, q \in Pid : StartingUp(p) /\ StartingUp(q) => p = q
    /\ \A p \in Pid : pc[p] = "write" => file # NoFile
    /\ \A p \in Pid : Running(p) =>
         file = p /\ \A q \in Pid \ {p} : pc[q] \in {"off", "read"}

\* An instance is told that LinkCode is running with no other one there only if one was killed
\* or ended by /restart after it wrote its PID, if make.ps1 wrote the PID of one that was not
\* running, or if a shutdown could not remove the file: however starts, failed start-ups and
\* shutdowns race, a file they leave never does that (main.go:60-71, 214-217, 247-261,
\* controller.go:618, make.ps1:157).
RefusedOnlyForCause == refused # {} => cause \cap LeftCauses # {}

\* What it rests on: the PID in the file is that of a running instance.
FileIsRunning ==
  cause \cap LeftCauses # {} \/ ((file \in Pid => Running(file)) /\ refused = {})

-----------------------------------------------------------------------------
(* What comments promise.                                                   *)

\* main.go:86: "Prevent duplicate instances."  (That a PID file may fail to be written is
\* said at main.go:247 and set aside here.)
OneInstance ==
  Cardinality({p \in Pid : Running(p)}) > 1 => "unwritten" \in cause

\* main.go:40: if the PID file is stale (the process no longer exists), it is cleaned up
\* and the start goes on.
StaleNeverRefuses == refused = {}
=============================================================================

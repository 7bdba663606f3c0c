----------------------------- MODULE PidFileProofs -----------------------------
(* What PidFile guarantees for any number of PIDs and of starts.            *)
EXTENDS PidFile, FiniteSetTheorems, TLAPS

\* A step of one instance, or of make.ps1 with one it has launched; the other steps are those
\* of make.ps1 alone.
PidStep ==
  \E p \in Pid :
    \/ StartByHand(p)
    \/ NoPidFile(p) \/ Unreadable(p) \/ AlreadyRunning(p) \/ Stale(p) \/ RemoveStale(p)
    \/ StartupFails(p) \/ OpenPidFile(p) \/ WritePid(p) \/ WriteFails(p)
    \/ Shutdown(p) \/ ReleasePidFile(p) \/ RestartCommand(p) \/ Crash(p)
    \/ ScriptLaunches(p) \/ ScriptWrites(p)

LEMMA StepCases == ASSUME Next PROVE PidStep \/ ScriptKills \/ ScriptUnlinks
  BY DEF Next, PidStep

\* The causes and the labels are what their names say.
LEMMA Causes ==
  /\ {"overlap", "unwritten", "unseen", "removed", "overwritten"} \subseteq SecondCauses
  /\ {"killed", "restart", "early", "unremoved"} \subseteq LeftCauses
  BY DEF SecondCauses, LeftCauses

\* Causes are only added.
LEMMA CausesStay == ASSUME [Next]_vars PROVE cause \subseteq cause'
<1>1. CASE UNCHANGED vars
  BY <1>1 DEF vars
<1>2. CASE PidStep
  BY <1>2 DEF PidStep, StartByHand, Start, NoPidFile, Unreadable, AlreadyRunning, Stale,
     RemoveStale, StartupFails, OpenPidFile, WritePid, WriteFails, Shutdown, ReleasePidFile,
     RestartCommand, Crash, ScriptLaunches, ScriptWrites, Because
<1>3. CASE ScriptKills \/ ScriptUnlinks
  BY <1>3 DEF ScriptKills, ScriptUnlinks, Because
<1> QED
  BY <1>1, <1>2, <1>3, StepCases

\* Every step keeps every variable in its type (main.go:41-89, 246-262, make.ps1:73-204).
LEMMA TypeStep == ASSUME TypeOK, [Next]_vars PROVE TypeOK'
<1> USE Causes, PidConstants DEF TypeOK, Because, Goto, Label
<1>1. CASE UNCHANGED vars
  BY <1>1 DEF vars
<1>2. CASE PidStep
  <2>1. PICK p \in Pid :
          \/ StartByHand(p) \/ NoPidFile(p) \/ Unreadable(p) \/ AlreadyRunning(p) \/ Stale(p)
          \/ RemoveStale(p) \/ StartupFails(p) \/ OpenPidFile(p) \/ WritePid(p) \/ WriteFails(p)
          \/ Shutdown(p) \/ ReleasePidFile(p) \/ RestartCommand(p) \/ Crash(p)
          \/ ScriptLaunches(p) \/ ScriptWrites(p)
    BY <1>2 DEF PidStep
  <2>2. CASE StartByHand(p)
    BY <2>2 DEF StartByHand, Start
  <2>3. CASE NoPidFile(p)
    BY <2>3 DEF NoPidFile
  <2>4. CASE Unreadable(p)
    BY <2>4 DEF Unreadable
  <2>5. CASE AlreadyRunning(p)
    BY <2>5 DEF AlreadyRunning, RefusedIfAlone
  <2>6. CASE Stale(p)
    BY <2>6 DEF Stale
  <2>7. CASE RemoveStale(p)
    BY <2>7 DEF RemoveStale
  <2>8. CASE StartupFails(p)
    BY <2>8 DEF StartupFails
  <2>9. CASE OpenPidFile(p)
    BY <2>9 DEF OpenPidFile
  <2>10. CASE WritePid(p)
    BY <2>10 DEF WritePid
  <2>11. CASE WriteFails(p)
    BY <2>11 DEF WriteFails
  <2>12. CASE Shutdown(p)
    BY <2>12 DEF Shutdown
  <2>13. CASE ReleasePidFile(p)
    BY <2>13 DEF ReleasePidFile
  <2>14. CASE RestartCommand(p)
    BY <2>14 DEF RestartCommand
  <2>15. CASE Crash(p)
    BY <2>15 DEF Crash
  <2>16. CASE ScriptLaunches(p)
    BY <2>16 DEF ScriptLaunches, Start, ScriptLabel
  <2>17. CASE ScriptWrites(p)
    BY <2>17 DEF ScriptWrites, ScriptLabel
  <2> QED
    BY <2>1, <2>2, <2>3, <2>4, <2>5, <2>6, <2>7, <2>8, <2>9, <2>10, <2>11, <2>12, <2>13, <2>14,
       <2>15, <2>16, <2>17
<1>3. CASE ScriptKills
  BY <1>3 DEF ScriptKills, ScriptLabel
<1>4. CASE ScriptUnlinks
  BY <1>4 DEF ScriptUnlinks, ScriptLabel
<1> QED
  BY <1>1, <1>2, <1>3, <1>4, StepCases

\* Every variable has its type in every reachable state (main.go:41-89, 246-262,
\* make.ps1:73-204).
THEOREM TypeCorrect == Spec => []TypeOK
<1>1. ASSUME Init PROVE TypeOK
  <2>1. starts \in 0..MaxStarts /\ file \in Pid \cup {NoFile, Corrupt}
    BY <1>1, PidConstants DEF Init
  <2>2. pc \in [Pid -> Label] /\ script \in ScriptLabel
    BY <1>1 DEF Init, Label, ScriptLabel
  <2>3. cause = {} /\ refused = {}
    BY <1>1 DEF Init
  <2> QED
    BY <2>1, <2>2, <2>3 DEF TypeOK
<1> QED
  BY <1>1, TypeStep, PTL DEF Spec

\* Every step keeps the file with the one instance that may run, unless it adds one of the
\* causes (main.go:41-89, 246-262, make.ps1:73-204).
LEMMA OwnsFileStep == ASSUME TypeOK, OwnsFile, [Next]_vars PROVE OwnsFile'
<1>1. CASE UNCHANGED vars
  BY <1>1 DEF vars, OwnsFile, StartingUp, Running
<1> SUFFICES ASSUME Next, cause' \cap SecondCauses = {} PROVE OwnsFile'
  BY <1>1 DEF OwnsFile
<1>a. /\ \A p, q \in Pid : StartingUp(p) /\ StartingUp(q) => p = q
      /\ \A p \in Pid : pc[p] = "write" => file # NoFile
      /\ \A p \in Pid : Running(p) =>
           file = p /\ \A q \in Pid \ {p} : pc[q] \in {"off", "read"}
  BY CausesStay DEF OwnsFile
<1>b. /\ "overlap" \notin cause' /\ "unwritten" \notin cause' /\ "unseen" \notin cause'
      /\ "removed" \notin cause' /\ "overwritten" \notin cause'
  BY Causes
<1> USE <1>a, <1>b, PidConstants DEF TypeOK, StartingUp, Running, Goto, Because
<1> SUFFICES /\ \A p, q \in Pid : StartingUp(p)' /\ StartingUp(q)' => p = q
             /\ \A p \in Pid : pc'[p] = "write" => file' # NoFile
             /\ \A p \in Pid : Running(p)' =>
                  file' = p /\ \A q \in Pid \ {p} : pc'[q] \in {"off", "read"}
  BY DEF OwnsFile
<1>2. CASE PidStep
  <2>1. PICK p \in Pid :
          \/ StartByHand(p) \/ NoPidFile(p) \/ Unreadable(p) \/ AlreadyRunning(p) \/ Stale(p)
          \/ RemoveStale(p) \/ StartupFails(p) \/ OpenPidFile(p) \/ WritePid(p) \/ WriteFails(p)
          \/ Shutdown(p) \/ ReleasePidFile(p) \/ RestartCommand(p) \/ Crash(p)
          \/ ScriptLaunches(p) \/ ScriptWrites(p)
    BY <1>2 DEF PidStep
  <2>2. CASE StartByHand(p)
    <3>1. \A q \in Pid : ~ StartingUp(q) /\ pc[q] # "release"
      BY <2>2 DEF StartByHand, Start
    <3>2. pc[p] = "off" /\ pc' = [pc EXCEPT ![p] = "read"] /\ file' = file
      BY <2>2 DEF StartByHand, Start, Exists
    <3> QED
      BY <3>1, <3>2
  <2>3. CASE NoPidFile(p)
    BY <2>3 DEF NoPidFile
  <2>4. CASE Unreadable(p)
    BY <2>4 DEF Unreadable
  <2>5. CASE AlreadyRunning(p)
    BY <2>5 DEF AlreadyRunning
  <2>6. CASE Stale(p)
    <3>1. \A q \in Pid : ~ Running(q)
      BY <2>6 DEF Stale
    <3> QED
      BY <2>6, <3>1 DEF Stale
  <2>7. CASE RemoveStale(p)
    BY <2>7 DEF RemoveStale
  <2>8. CASE StartupFails(p)
    BY <2>8 DEF StartupFails
  <2>9. CASE OpenPidFile(p)
    BY <2>9 DEF OpenPidFile
  <2>10. CASE WritePid(p)
    <3>1. file # NoFile /\ \A q \in Pid \ {p} : pc[q] = "off"
      BY <2>10 DEF WritePid, Label
    <3>2. file' = p /\ pc' = [pc EXCEPT ![p] = "running"]
      BY <2>10, <3>1 DEF WritePid
    <3>3. pc'[p] = "running" /\ \A q \in Pid \ {p} : pc'[q] = "off"
      BY <3>1, <3>2
    <3> QED
      BY <3>2, <3>3
  <2>11. CASE WriteFails(p)
    BY <2>11 DEF WriteFails
  <2>12. CASE Shutdown(p)
    BY <2>12 DEF Shutdown
  <2>13. CASE ReleasePidFile(p)
    BY <2>13 DEF ReleasePidFile
  <2>14. CASE RestartCommand(p)
    BY <2>14 DEF RestartCommand
  <2>15. CASE Crash(p)
    BY <2>15 DEF Crash
  <2>16. CASE ScriptLaunches(p)
    <3>1. \A q \in Pid : ~ StartingUp(q) /\ pc[q] # "release"
      BY <2>16 DEF ScriptLaunches, Start
    <3>2. pc[p] = "off" /\ pc' = [pc EXCEPT ![p] = "read"] /\ file' = file
      BY <2>16 DEF ScriptLaunches, Start, Exists
    <3> QED
      BY <3>1, <3>2
  <2>17. CASE ScriptWrites(p)
    <3>1. file' # NoFile \/ file' = file
      BY <2>17 DEF ScriptWrites
    <3>2. \A q \in Pid : Running(q) => file' = q
      BY <2>17 DEF ScriptWrites
    <3> QED
      BY <2>17, <3>1, <3>2 DEF ScriptWrites
  <2> QED
    BY <2>1, <2>2, <2>3, <2>4, <2>5, <2>6, <2>7, <2>8, <2>9, <2>10, <2>11, <2>12, <2>13, <2>14,
       <2>15, <2>16, <2>17
<1>3. CASE ScriptKills
  <2>1. PICK gone \in SUBSET {p \in Pid : Exists(p)} :
          pc' = [p \in Pid |-> IF p \in gone THEN "off" ELSE pc[p]]
    BY <1>3 DEF ScriptKills
  <2>2. file' = file /\ \A p \in Pid : pc'[p] = "off" \/ pc'[p] = pc[p]
    BY <1>3, <2>1 DEF ScriptKills
  <2> QED
    BY <2>2
<1>4. CASE ScriptUnlinks
  BY <1>4 DEF ScriptUnlinks
<1> QED
  BY <1>2, <1>3, <1>4, StepCases

\* An instance that owns the file runs alone (main.go:41-72).
LEMMA OwnerIsAlone == ASSUME OwnsFile PROVE TwoOnlyForCause
<1> DEFINE S == {p \in Pid : Running(p)}
<1>1. SUFFICES ASSUME cause \cap SecondCauses = {} PROVE ~ Cardinality(S) > 1
  BY DEF TwoOnlyForCause
<1>2. \A p, q \in S : p = q
  BY <1>1 DEF OwnsFile, Running
<1>3. CASE S = {}
  BY <1>3, FS_EmptySet
<1>4. CASE S # {}
  <2>1. PICK p : S = {p}
    BY <1>2, <1>4
  <2>2. Cardinality(S) = 1
    BY <2>1, FS_Singleton
  <2> QED
    BY <2>2
<1> QED
  BY <1>3, <1>4

\* Two instances of LinkCode run at once only for one of the five causes, for any number of
\* PIDs and starts (main.go:41-89, 246-262, make.ps1:73-204).
THEOREM TwoInstancesOnlyForCause == Spec => []TwoOnlyForCause
<1>1. Init => OwnsFile
  BY DEF Init, OwnsFile, StartingUp, Running
<1>2. Spec => []OwnsFile
  BY <1>1, TypeCorrect, OwnsFileStep, PTL DEF Spec
<1> QED
  BY <1>2, OwnerIsAlone, PTL

\* Every step keeps the PID in the file to running instances, unless it adds one of the causes
\* (main.go:41-89, 246-262, controller.go:618, make.ps1:73-204).
LEMMA FileIsRunningStep == ASSUME TypeOK, FileIsRunning, [Next]_vars PROVE FileIsRunning'
<1>1. CASE UNCHANGED vars
  BY <1>1 DEF vars, FileIsRunning, Running
<1> SUFFICES ASSUME Next, cause' \cap LeftCauses = {} PROVE FileIsRunning'
  BY <1>1 DEF FileIsRunning
<1>a. (file \in Pid => Running(file)) /\ refused = {}
  BY CausesStay DEF FileIsRunning
<1>b. /\ "killed" \notin cause' /\ "restart" \notin cause' /\ "early" \notin cause'
      /\ "unremoved" \notin cause'
  BY Causes
<1> USE <1>a, <1>b, PidConstants DEF TypeOK, Running, Goto, Because
<1> SUFFICES (file' \in Pid => pc'[file'] \in {"running", "release"}) /\ refused' = {}
  BY DEF FileIsRunning
<1>2. CASE PidStep
  <2>1. PICK p \in Pid :
          \/ StartByHand(p) \/ NoPidFile(p) \/ Unreadable(p) \/ AlreadyRunning(p) \/ Stale(p)
          \/ RemoveStale(p) \/ StartupFails(p) \/ OpenPidFile(p) \/ WritePid(p) \/ WriteFails(p)
          \/ Shutdown(p) \/ ReleasePidFile(p) \/ RestartCommand(p) \/ Crash(p)
          \/ ScriptLaunches(p) \/ ScriptWrites(p)
    BY <1>2 DEF PidStep
  <2>2. CASE StartByHand(p)
    BY <2>2 DEF StartByHand, Start, Exists
  <2>3. CASE NoPidFile(p)
    BY <2>3 DEF NoPidFile
  <2>4. CASE Unreadable(p)
    BY <2>4 DEF Unreadable
  <2>5. CASE AlreadyRunning(p)
    BY <2>5 DEF AlreadyRunning, RefusedIfAlone, Exists
  <2>6. CASE Stale(p)
    BY <2>6 DEF Stale
  <2>7. CASE RemoveStale(p)
    BY <2>7 DEF RemoveStale
  <2>8. CASE StartupFails(p)
    BY <2>8 DEF StartupFails
  <2>9. CASE OpenPidFile(p)
    BY <2>9 DEF OpenPidFile
  <2>10. CASE WritePid(p)
    BY <2>10 DEF WritePid
  <2>11. CASE WriteFails(p)
    BY <2>11 DEF WriteFails
  <2>12. CASE Shutdown(p)
    BY <2>12 DEF Shutdown
  <2>13. CASE ReleasePidFile(p)
    BY <2>13 DEF ReleasePidFile
  <2>14. CASE RestartCommand(p)
    BY <2>14 DEF RestartCommand
  <2>15. CASE Crash(p)
    BY <2>15 DEF Crash, Exists
  <2>16. CASE ScriptLaunches(p)
    BY <2>16 DEF ScriptLaunches, Start, Exists
  <2>17. CASE ScriptWrites(p)
    BY <2>17 DEF ScriptWrites
  <2> QED
    BY <2>1, <2>2, <2>3, <2>4, <2>5, <2>6, <2>7, <2>8, <2>9, <2>10, <2>11, <2>12, <2>13, <2>14,
       <2>15, <2>16, <2>17
<1>3. CASE ScriptKills
  <2>1. PICK gone \in SUBSET {p \in Pid : Exists(p)} :
          /\ ~ \E p \in gone : Running(p)
          /\ pc' = [p \in Pid |-> IF p \in gone THEN "off" ELSE pc[p]]
    BY <1>3 DEF ScriptKills
  <2>2. file' = file /\ refused' = refused /\ \A p \in Pid : Running(p) => pc'[p] = pc[p]
    BY <1>3, <2>1 DEF ScriptKills
  <2> QED
    BY <2>2
<1>4. CASE ScriptUnlinks
  BY <1>4 DEF ScriptUnlinks
<1> QED
  BY <1>2, <1>3, <1>4, StepCases

\* An instance is refused with no other one there only for one of the four causes, for any
\* number of PIDs and starts (main.go:60-71, 247-261, controller.go:618, make.ps1:157).
THEOREM RefusedAloneOnlyForCause == Spec => []RefusedOnlyForCause
<1>1. Init => FileIsRunning
  BY PidConstants DEF Init, FileIsRunning
<1>2. Spec => []FileIsRunning
  BY <1>1, TypeCorrect, FileIsRunningStep, PTL DEF Spec
<1>3. FileIsRunning => RefusedOnlyForCause
  BY DEF FileIsRunning, RefusedOnlyForCause
<1> QED
  BY <1>2, <1>3, PTL
=============================================================================

----------------------------- MODULE AgentRunner -----------------------------
(***************************************************************************)
(* The Claude Code runner (internal/agent/claude/runner.go) and the life   *)
(* of the processes it launches (internal/procman/procman.go).             *)
(*                                                                         *)
(* Every public operation of Runner holds Runner.mu from its first read to *)
(* its last write, and the process operations hold Process.mu, so one call *)
(* is one action.  What interleaves is the calls of the router's           *)
(* goroutines, waitForExit of every process, and the forwarding goroutine  *)
(* that Session.Send starts, which deletes the map entry of its SESSION    *)
(* when its own process is gone.                                           *)
(***************************************************************************)
EXTENDS FiniteSets

CONSTANTS
  Session,   \* LinkCode session identifiers, the keys of Runner.sessions
  Process,   \* the processes that may ever be launched; each is used once
  None       \* "no process", "no session"

ASSUME RunnerConstants == None \notin Process /\ None \notin Session

VARIABLES
  sessions,  \* Runner.sessions: the registered process of a session, or None
  owner,     \* claude.Session.id: the session a process was launched for
  alive,     \* Process.alive
  stage,     \* how far the child and waitForExit have come
  forward,   \* the goroutine of Session.Send
  killed,    \* the process was killed by Process.Stop
  stop,      \* progress of Session.Stop: "no", "removing", "returned"
  diedAt     \* Process.diedAt is not the zero time

rvars == <<sessions, owner, alive, stage, forward, killed, stop, diedAt>>

(***************************************************************************)
(* "unborn"  not launched yet                                              *)
(* "running" the child runs                                                *)
(* "exited"  cmd.Wait and both readers have returned                       *)
(* "reaped"  waitForExit has set alive to false                            *)
(* "closed"  waitForExit has closed the output channel                     *)
(***************************************************************************)
Stage == {"unborn", "running", "exited", "reaped", "closed"}

(***************************************************************************)
(* "none"       nothing was sent                                           *)
(* "forwarding" the goroutine copies the output                            *)
(* "done"       it has removed the session and closed the wrapped channel  *)
(***************************************************************************)
Forward == {"none", "forwarding", "done"}

TypeOK ==
  /\ sessions \in [Session -> Process \cup {None}]
  /\ owner \in [Process -> Session \cup {None}]
  /\ alive \in [Process -> BOOLEAN]
  /\ stage \in [Process -> Stage]
  /\ forward \in [Process -> Forward]
  /\ killed \in [Process -> BOOLEAN]
  /\ stop \in [Process -> {"no", "removing", "returned"}]
  /\ diedAt \in [Process -> BOOLEAN]
  /\ \A p \in Process :
       /\ owner[p] = None <=> stage[p] = "unborn"
       /\ stage[p] = "unborn" => ~ alive[p] /\ ~ killed[p] /\ forward[p] = "none"

RunnerInit ==
  /\ sessions = [s \in Session |-> None]
  /\ owner = [p \in Process |-> None]
  /\ alive = [p \in Process |-> FALSE]
  /\ stage = [p \in Process |-> "unborn"]
  /\ forward = [p \in Process |-> "none"]
  /\ killed = [p \in Process |-> FALSE]
  /\ stop = [p \in Process |-> "no"]
  /\ diedAt = [p \in Process |-> FALSE]

-----------------------------------------------------------------------------
(* Runner.Start, Runner.Resume, Runner.Interrupt.                          *)

\* The map holds a process for the session and that process is alive.
Busy(s) == sessions[s] # None /\ alive[sessions[s]]

\* Start and Resume find a live process: they return ErrBusy.
LaunchBusy(s) ==
  /\ Busy(s)
  /\ UNCHANGED rvars

Launch_NoIdentifier(s, p) ==
  /\ ~ Busy(s)
  /\ stage[p] = "unborn"
  /\ sessions' = [sessions EXCEPT ![s] = p]
  /\ alive' = [alive EXCEPT ![p] = TRUE]
  /\ stage' = [stage EXCEPT ![p] = "running"]
  /\ UNCHANGED <<owner, forward, killed, stop, diedAt>>

(***************************************************************************)
(* Start and Resume succeed: a dead entry is deleted and the new process   *)
(* registered.  The five-second delay for a process that died recently     *)
(* sleeps under Runner.mu and changes nothing; it needs a diedAt, which no *)
(* code sets.                                                              *)
(***************************************************************************)
Launch(s, p) ==
  /\ ~ Busy(s)
  /\ stage[p] = "unborn"
  /\ sessions' = [sessions EXCEPT ![s] = p]
  /\ owner' = [owner EXCEPT ![p] = s]
  /\ alive' = [alive EXCEPT ![p] = TRUE]
  /\ stage' = [stage EXCEPT ![p] = "running"]
  /\ UNCHANGED <<forward, killed, stop, diedAt>>

\* procman.Start fails, after the dead entry has been deleted.
LaunchFail(s) ==
  /\ ~ Busy(s)
  /\ sessions' = [sessions EXCEPT ![s] = None]
  /\ UNCHANGED <<owner, alive, stage, forward, killed, stop, diedAt>>

\* Process.Stop on a live process: alive becomes false, the context is cancelled.
Kill(p) ==
  /\ killed' = [killed EXCEPT ![p] = TRUE]
  /\ alive' = [alive EXCEPT ![p] = FALSE]

Interrupt_NoKill(s) ==
  /\ Busy(s)
  /\ sessions' = [sessions EXCEPT ![s] = None]
  /\ UNCHANGED <<owner, alive, stage, forward, killed, stop, diedAt>>

(***************************************************************************)
(* Interrupt finds a live process.  IsAlive and Stop lock Process.mu       *)
(* separately; when waitForExit gets in between, Stop does nothing and the *)
(* result is that of Interrupt followed by Reap, except for "killed" of a  *)
(* process that is gone.                                                   *)
(***************************************************************************)
Interrupt(s) ==
  /\ Busy(s)
  /\ Kill(sessions[s])
  /\ sessions' = [sessions EXCEPT ![s] = None]
  /\ UNCHANGED <<owner, stage, forward, stop, diedAt>>

\* Interrupt finds nothing to kill and returns false; a dead entry stays.
InterruptNone(s) ==
  /\ ~ Busy(s)
  /\ UNCHANGED rvars

-----------------------------------------------------------------------------
(* claude.Session: Send and Stop.                                          *)

\* The input is written, stdin closed, and the forwarding goroutine started.
Send(p) ==
  /\ alive[p]
  /\ forward[p] = "none"
  /\ forward' = [forward EXCEPT ![p] = "forwarding"]
  /\ UNCHANGED <<sessions, owner, alive, stage, killed, stop, diedAt>>

\* The process is not alive, the child has exited, or stdin is closed already.
SendFail(p) ==
  /\ stage[p] # "unborn"
  /\ ~ alive[p] \/ stage[p] # "running" \/ forward[p] # "none"
  /\ UNCHANGED rvars

\* Session.Stop, first statement: removeSession, by session identifier.
StopRemove(p) ==
  /\ stage[p] # "unborn"
  /\ stop[p] # "removing"
  /\ sessions' = [sessions EXCEPT ![owner[p]] = None]
  /\ stop' = [stop EXCEPT ![p] = "removing"]
  /\ UNCHANGED <<owner, alive, stage, forward, killed, diedAt>>

\* Session.Stop, second statement: Process.Stop, a no-op on a dead process.
StopKill(p) ==
  /\ stop[p] = "removing"
  /\ stop' = [stop EXCEPT ![p] = "returned"]
  /\ IF alive[p] THEN Kill(p) ELSE UNCHANGED <<alive, killed>>
  /\ UNCHANGED <<sessions, owner, stage, forward, diedAt>>

-----------------------------------------------------------------------------
(* The goroutines of a process.                                            *)

\* The child ends, by itself or killed; cmd.Wait and the readers return.
ChildExit(p) ==
  /\ stage[p] = "running"
  /\ stage' = [stage EXCEPT ![p] = "exited"]
  /\ UNCHANGED <<sessions, owner, alive, forward, killed, stop, diedAt>>

\* The locked section of waitForExit.
Reap(p) ==
  /\ stage[p] = "exited"
  /\ stage' = [stage EXCEPT ![p] = "reaped"]
  /\ alive' = [alive EXCEPT ![p] = FALSE]
  /\ UNCHANGED <<sessions, owner, forward, killed, stop, diedAt>>

CloseOutput_BeforeReap(p) ==
  /\ stage[p] = "exited"
  /\ stage' = [stage EXCEPT ![p] = "closed"]
  /\ UNCHANGED <<sessions, owner, alive, forward, killed, stop, diedAt>>

\* waitForExit closes the output channel.
CloseOutput(p) ==
  /\ stage[p] = "reaped"
  /\ stage' = [stage EXCEPT ![p] = "closed"]
  /\ UNCHANGED <<sessions, owner, alive, forward, killed, stop, diedAt>>

(***************************************************************************)
(* The forwarding goroutine has seen the output channel closed: IsAlive is *)
(* false by then, so it removes the SESSION's entry, whatever process that *)
(* entry names, and closes the wrapped channel.                            *)
(***************************************************************************)
AutoRemove(p) ==
  /\ stage[p] = "closed"
  /\ forward[p] = "forwarding"
  /\ forward' = [forward EXCEPT ![p] = "done"]
  /\ sessions' = IF alive[p] THEN sessions
                               ELSE [sessions EXCEPT ![owner[p]] = None]
  /\ UNCHANGED <<owner, alive, stage, killed, stop, diedAt>>

-----------------------------------------------------------------------------
ProcessStep(p) ==
  \/ ChildExit(p)
  \/ Reap(p)
  \/ CloseOutput(p)
  \/ AutoRemove(p)

RunnerNext ==
  \/ \E s \in Session :
       \/ LaunchBusy(s)
       \/ LaunchFail(s)
       \/ Interrupt(s)
       \/ InterruptNone(s)
       \/ \E p \in Process : Launch(s, p)
  \/ \E p \in Process :
       \/ Send(p)
       \/ SendFail(p)
       \/ StopRemove(p)
       \/ StopKill(p)
       \/ ProcessStep(p)

RunnerSpec == RunnerInit /\ [][RunnerNext]_rvars

-----------------------------------------------------------------------------
(* Safety.                                                                 *)

\* An entry of Runner.sessions names a process launched for that very session
\* (runner.go:65, 101): /stop and ErrBusy never reach another agent's process.
MapConsistent ==
  \A s \in Session : sessions[s] # None => owner[sessions[s]] = s

\* A process that Interrupt or Session.Stop killed, and one whose forwarding goroutine
\* has ended, is never again what the map names (runner.go:117-118, 149-154, 161-162): the
\* goroutine's test of IsAlive comes after waitForExit cleared "alive", so no dead entry
\* of a finished turn stays.
GoneUnregistered ==
  \A p \in Process, s \in Session : killed[p] \/ forward[p] = "done" => sessions[s] # p

\* Once its output channel is closed a process is dead for good, and the
\* forwarding goroutine ends only after that: the IsAlive test at runner.go:152
\* is never true, so no finished process stays in the map because of it.
ClosedIsDead ==
  \A p \in Process :
    /\ alive[p] => stage[p] \in {"running", "exited"}
    /\ forward[p] = "done" => stage[p] = "closed"

\* A live process that /stop and ErrBusy cannot find any more was lost through a
\* removal by SESSION identifier (runner.go:123-127): its own Session.Stop, or the
\* forwarding goroutine or Session.Stop of ANOTHER process of its session.
LostOnlyByRemoveSession ==
  \A p \in Process :
    (alive[p] /\ sessions[owner[p]] # p) =>
      \/ stop[p] # "no"
      \/ \E q \in Process \ {p} :
           owner[q] = owner[p] /\ (forward[q] = "done" \/ stop[q] # "no")

-----------------------------------------------------------------------------
(* What the comments promise.                                              *)

\* agent.go:10: Start and Resume return ErrBusy while the previous process is still
\* running, so a session never has two live processes.
OneLiveProcessPerSession ==
  \A p, q \in Process :
    alive[p] /\ alive[q] /\ owner[p] = owner[q] => p = q

\* procman.go:47: diedAt is set in waitForExit, so a reaped process has one, and the
\* rapid restart protection of runner.go:46-53 can see it.
DeathIsDated == \A p \in Process : stage[p] = "closed" => diedAt[p]
=============================================================================

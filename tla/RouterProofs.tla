---------------------------- MODULE RouterProofs ----------------------------
(***************************************************************************)
(* The runner and the router, for any messages, commands, sessions and     *)
(* processes.  In three parts:                                             *)
(*                                                                         *)
(* the runner alone, whoever calls it;                                     *)
(*                                                                         *)
(* the router: its type invariant, that it uses the runner as module       *)
(* AgentRunner says (so that every theorem about the runner holds under    *)
(* the router), and that conversations stay in their sessions;             *)
(*                                                                         *)
(* messages: none is run twice or lost, and the router implements          *)
(* TurnQueue.                                                              *)
(***************************************************************************)
EXTENDS Router, FiniteSetTheorems, TLAPS

(***************************************************************************)
(* The runner.  Each theorem is an induction over RunnerNext.  The later   *)
(* ones use the earlier ones as lemmas on both sides of a step.  The       *)
(* obligations are about which entry of a function a step changes; a step  *)
(* of process p is "local": it leaves every other process alone.           *)
(***************************************************************************)

\* What a step of the runner is, with the nested disjunctions of RunnerNext and
\* ProcessStep flattened.
LEMMA RunnerStepCases ==
  ASSUME [RunnerNext]_rvars
  PROVE  \/ UNCHANGED rvars
         \/ \E s \in Session : LaunchFail(s) \/ Interrupt(s)
         \/ \E s \in Session, p \in Process : Launch(s, p)
         \/ \E p \in Process : \/ Send(p) \/ StopRemove(p) \/ StopKill(p)
                               \/ ChildExit(p) \/ Reap(p) \/ CloseOutput(p) \/ AutoRemove(p)
  BY DEF RunnerNext, ProcessStep, LaunchBusy, InterruptNone, SendFail

\* Type correctness: every variable keeps its type, and a process that has not been
\* launched has no owner, no goroutine and is neither alive nor killed.
THEOREM RunnerTypeCorrect == RunnerSpec => []TypeOK
<1>1. RunnerInit => TypeOK
  BY RunnerConstants DEF RunnerInit, TypeOK, Stage, Forward
<1>2. TypeOK /\ [RunnerNext]_rvars => TypeOK'
  <2> SUFFICES ASSUME TypeOK, [RunnerNext]_rvars PROVE TypeOK'
    OBVIOUS
  <2> USE RunnerConstants DEF TypeOK, Stage, Forward
  <2>1. CASE UNCHANGED rvars
    BY <2>1 DEF rvars
  <2>2. ASSUME NEW s \in Session, LaunchFail(s) PROVE TypeOK'
    BY <2>2 DEF LaunchFail
  <2>3. ASSUME NEW s \in Session, Interrupt(s) PROVE TypeOK'
    BY <2>3 DEF Interrupt, Kill, Busy
  <2>4. ASSUME NEW s \in Session, NEW p \in Process, Launch(s, p) PROVE TypeOK'
    BY <2>4 DEF Launch
  <2>5. ASSUME NEW p \in Process, Send(p) PROVE TypeOK'
    BY <2>5 DEF Send
  <2>6. ASSUME NEW p \in Process, StopRemove(p) PROVE TypeOK'
    BY <2>6 DEF StopRemove
  <2>7. ASSUME NEW p \in Process, StopKill(p) PROVE TypeOK'
    <3>1. CASE alive[p]
      <4>1. stage[p] # "unborn"
        BY <3>1
      <4>2. stop' \in [Process -> {"no", "removing", "returned"}]
        BY <2>7 DEF StopKill
      <4>3. killed' \in [Process -> BOOLEAN] /\ alive' \in [Process -> BOOLEAN]
        BY <2>7, <3>1 DEF StopKill, Kill
      <4>4. \A q \in Process : q # p => killed'[q] = killed[q] /\ alive'[q] = alive[q]
        BY <2>7, <3>1 DEF StopKill, Kill
      <4>5. UNCHANGED <<sessions, owner, stage, forward, diedAt>>
        BY <2>7 DEF StopKill
      <4>6. QED
        BY <4>1, <4>2, <4>3, <4>4, <4>5
    <3>2. CASE ~ alive[p]
      BY <2>7, <3>2 DEF StopKill
    <3>3. QED
      BY <3>1, <3>2
  <2>8. ASSUME NEW p \in Process, ChildExit(p) PROVE TypeOK'
    BY <2>8 DEF ChildExit
  <2>9. ASSUME NEW p \in Process, Reap(p) PROVE TypeOK'
    BY <2>9 DEF Reap
  <2>10. ASSUME NEW p \in Process, CloseOutput(p) PROVE TypeOK'
    BY <2>10 DEF CloseOutput
  <2>11. ASSUME NEW p \in Process, AutoRemove(p) PROVE TypeOK'
    BY <2>11 DEF AutoRemove
  <2>12. QED
    BY RunnerStepCases, <2>1, <2>2, <2>3, <2>4, <2>5, <2>6, <2>7, <2>8, <2>9, <2>10, <2>11
<1>3. QED
  BY <1>1, <1>2, PTL DEF RunnerSpec
-----------------------------------------------------------------------------
\* waitForExit closes the output of a dead process only, and the forwarding
\* goroutine ends after that.
LEMMA ClosedIsDeadStep == TypeOK /\ ClosedIsDead /\ [RunnerNext]_rvars => ClosedIsDead'
<1> SUFFICES ASSUME TypeOK, ClosedIsDead, [RunnerNext]_rvars PROVE ClosedIsDead'
  OBVIOUS
<1> USE DEF TypeOK, ClosedIsDead, Stage, Forward
<1>1. CASE UNCHANGED rvars
  BY <1>1 DEF rvars
<1>2. ASSUME NEW s \in Session, LaunchFail(s) PROVE ClosedIsDead'
  BY <1>2 DEF LaunchFail
<1>3. ASSUME NEW s \in Session, Interrupt(s) PROVE ClosedIsDead'
  BY <1>3, RunnerConstants DEF Interrupt, Kill, Busy
<1>4. ASSUME NEW s \in Session, NEW p \in Process, Launch(s, p) PROVE ClosedIsDead'
  BY <1>4 DEF Launch
<1>5. ASSUME NEW p \in Process, Send(p) PROVE ClosedIsDead'
  BY <1>5 DEF Send
<1>6. ASSUME NEW p \in Process, StopRemove(p) PROVE ClosedIsDead'
  BY <1>6 DEF StopRemove
<1>7. ASSUME NEW p \in Process, StopKill(p) PROVE ClosedIsDead'
  <2>1. CASE alive[p]
    BY <1>7, <2>1 DEF StopKill, Kill
  <2>2. CASE ~ alive[p]
    BY <1>7, <2>2 DEF StopKill
  <2>3. QED
    BY <2>1, <2>2
<1>8. ASSUME NEW p \in Process, ChildExit(p) PROVE ClosedIsDead'
  BY <1>8 DEF ChildExit
<1>9. ASSUME NEW p \in Process, Reap(p) PROVE ClosedIsDead'
  BY <1>9 DEF Reap
<1>10. ASSUME NEW p \in Process, CloseOutput(p) PROVE ClosedIsDead'
  BY <1>10 DEF CloseOutput
<1>11. ASSUME NEW p \in Process, AutoRemove(p) PROVE ClosedIsDead'
  BY <1>11 DEF AutoRemove
<1>12. QED
  BY RunnerStepCases, <1>1, <1>2, <1>3, <1>4, <1>5, <1>6, <1>7, <1>8, <1>9, <1>10, <1>11

\* A process whose output channel is closed is dead, and no forwarding goroutine ends
\* before its process's channel is closed.
THEOREM ClosedOutputIsDead == RunnerSpec => []ClosedIsDead
<1>1. RunnerInit => ClosedIsDead
  BY DEF RunnerInit, ClosedIsDead
<1>2. QED
  BY <1>1, ClosedIsDeadStep, RunnerTypeCorrect, PTL DEF RunnerSpec

-----------------------------------------------------------------------------
(***************************************************************************)
(* The map.  GoneUnregistered is not inductive: Session.Stop kills a       *)
(* process it removed from the map a while ago, so the invariant also says *)
(* that a process on which Session.Stop was called is not registered, and  *)
(* that needs MapConsistent (only the owner's entry can name it) and that  *)
(* a process is launched once.  The forwarding goroutine removes the entry *)
(* only of a process that is dead by then: ClosedIsDead.                   *)
(***************************************************************************)
StoppedUnregistered ==
  \A p \in Process : stop[p] # "no" =>
    stage[p] # "unborn" /\ \A s \in Session : sessions[s] # p

MapInv == MapConsistent /\ GoneUnregistered /\ StoppedUnregistered

\* Every step keeps all three parts of the map's invariant (runner.go:38-127).
LEMMA MapInvStep == TypeOK /\ ClosedIsDead /\ MapInv /\ [RunnerNext]_rvars => MapInv'
<1> SUFFICES ASSUME TypeOK, ClosedIsDead, MapInv, [RunnerNext]_rvars PROVE MapInv'
  OBVIOUS
<1> USE RunnerConstants DEF TypeOK, MapInv, MapConsistent, GoneUnregistered,
                            StoppedUnregistered
<1>1. CASE UNCHANGED rvars
  BY <1>1 DEF rvars
<1>2. ASSUME NEW s \in Session, LaunchFail(s) PROVE MapInv'
  BY <1>2 DEF LaunchFail
<1>3. ASSUME NEW s \in Session, Interrupt(s) PROVE MapInv'
  <2>1. sessions[s] \in Process /\ owner[sessions[s]] = s
    BY <1>3 DEF Interrupt, Busy
  <2>2. \A t \in Session \ {s} : sessions[t] # sessions[s]
    BY <2>1
  <2>3. QED
    BY <1>3, <2>1, <2>2 DEF Interrupt, Kill, Stage
<1>4. ASSUME NEW s \in Session, NEW p \in Process, Launch(s, p) PROVE MapInv'
  <2>1. owner[p] = None /\ ~ killed[p] /\ stop[p] = "no" /\ forward[p] = "none"
    BY <1>4 DEF Launch
  <2>2. \A t \in Session : sessions[t] # p
    BY <2>1
  <2>3. QED
    BY <1>4, <2>1, <2>2 DEF Launch, Stage
<1>5. ASSUME NEW p \in Process, Send(p) PROVE MapInv'
  BY <1>5 DEF Send
<1>6. ASSUME NEW p \in Process, StopRemove(p) PROVE MapInv'
  <2>1. owner[p] \in Session
    BY <1>6 DEF StopRemove
  <2>2. \A t \in Session : sessions'[t] # p
    BY <1>6, <2>1 DEF StopRemove
  <2>3. QED
    BY <1>6, <2>1, <2>2 DEF StopRemove
<1>7. ASSUME NEW p \in Process, StopKill(p) PROVE MapInv'
  <2>1. \A t \in Session : sessions[t] # p
    BY <1>7 DEF StopKill
  <2>2. CASE alive[p]
    BY <1>7, <2>1, <2>2 DEF StopKill, Kill
  <2>3. CASE ~ alive[p]
    BY <1>7, <2>1, <2>3 DEF StopKill
  <2>4. QED
    BY <2>2, <2>3
<1>8. ASSUME NEW p \in Process, ChildExit(p) PROVE MapInv'
  BY <1>8 DEF ChildExit
<1>9. ASSUME NEW p \in Process, Reap(p) PROVE MapInv'
  BY <1>9 DEF Reap
<1>10. ASSUME NEW p \in Process, CloseOutput(p) PROVE MapInv'
  BY <1>10 DEF CloseOutput
<1>11. ASSUME NEW p \in Process, AutoRemove(p) PROVE MapInv'
  <2>1. ~ alive[p] /\ owner[p] \in Session
    BY <1>11 DEF AutoRemove, ClosedIsDead
  <2>2. sessions' = [sessions EXCEPT ![owner[p]] = None]
    BY <1>11, <2>1 DEF AutoRemove
  <2>3. \A t \in Session : sessions'[t] # p
    BY <2>1, <2>2
  <2>4. QED
    BY <1>11, <2>2, <2>3 DEF AutoRemove
<1>12. QED
  BY RunnerStepCases, <1>1, <1>2, <1>3, <1>4, <1>5, <1>6, <1>7, <1>8, <1>9, <1>10, <1>11

\* The map's invariant holds in every reachable state (runner.go:38-127, 160-163).
LEMMA MapInvHolds == RunnerSpec => []MapInv
<1>1. RunnerInit => MapInv
  BY RunnerConstants DEF RunnerInit, MapInv, MapConsistent, GoneUnregistered,
                         StoppedUnregistered
<1>2. QED
  BY <1>1, MapInvStep, RunnerTypeCorrect, ClosedOutputIsDead, PTL DEF RunnerSpec

\* The map's entry of a session names a process launched for that session, whatever
\* interleaving of launches, interrupts, stops and forwarding goroutines happened.
THEOREM MapIsConsistent == RunnerSpec => []MapConsistent
<1>1. MapInv => MapConsistent
  BY DEF MapInv
<1>2. QED
  BY <1>1, MapInvHolds, PTL

\* A process that was killed, or whose turn has been forwarded to its end, is in the map
\* no more.
THEOREM GoneIsUnregistered == RunnerSpec => []GoneUnregistered
<1>1. MapInv => GoneUnregistered
  BY DEF MapInv
<1>2. QED
  BY <1>1, MapInvHolds, PTL

-----------------------------------------------------------------------------
(***************************************************************************)
(* How a live process is lost.  The step lemma uses the three invariants   *)
(* above: a launch or a failed launch overwrites a dead entry only, an     *)
(* interrupt takes the entry of the process it kills, and every other      *)
(* removal is by session and leaves its author behind as the witness.      *)
(***************************************************************************)
Remover(q) == forward[q] = "done" \/ stop[q] # "no"

\* A step that loses a live process leaves its author behind (runner.go:123-127, 150-154).
LEMMA LostStep ==
  TypeOK /\ MapInv /\ ClosedIsDead /\ LostOnlyByRemoveSession /\ [RunnerNext]_rvars
    => LostOnlyByRemoveSession'
<1> SUFFICES ASSUME TypeOK, MapInv, ClosedIsDead, LostOnlyByRemoveSession,
                    [RunnerNext]_rvars,
                    NEW p \in Process, alive'[p], sessions'[owner'[p]] # p
             PROVE  \/ stop'[p] # "no"
                    \/ \E q \in Process \ {p} : owner'[q] = owner'[p] /\ Remover(q)'
  BY DEF LostOnlyByRemoveSession, Remover
<1> USE RunnerConstants DEF TypeOK, Remover
<1> DEFINE Lost == /\ alive[p] /\ sessions[owner[p]] # p
                   /\ \A q \in Process \ {p} : Remover(q) =>
                        Remover(q)' /\ owner'[q] = owner[q] /\ owner'[p] = owner[p]
                   /\ stop[p] # "no" => stop'[p] # "no"
           Goal == \/ stop'[p] # "no"
                   \/ \E q \in Process \ {p} : owner'[q] = owner'[p] /\ Remover(q)'
<1>0. Lost => Goal
  BY DEF LostOnlyByRemoveSession
<1>1. CASE UNCHANGED rvars
  BY <1>0, <1>1 DEF rvars
<1>2. ASSUME NEW s \in Session, LaunchFail(s) PROVE Goal
  BY <1>0, <1>2 DEF LaunchFail, Busy
<1>3. ASSUME NEW s \in Session, Interrupt(s) PROVE Goal
  BY <1>0, <1>3 DEF Interrupt, Kill, Busy
<1>4. ASSUME NEW s \in Session, NEW n \in Process, Launch(s, n) PROVE Goal
  <2>1. \A q \in Process : Remover(q) => q # n
    BY <1>4 DEF Launch, MapInv, StoppedUnregistered
  <2>2. p # n
    BY <1>4 DEF Launch
  <2>3. Lost
    BY <1>4, <2>1, <2>2 DEF Launch, Busy
  <2>4. QED
    BY <1>0, <2>3
<1>5. ASSUME NEW q \in Process, Send(q) PROVE Goal
  BY <1>0, <1>5 DEF Send
<1>6. ASSUME NEW q \in Process, StopRemove(q) PROVE Goal
  <2>1. stop'[q] # "no" /\ owner' = owner
    BY <1>6 DEF StopRemove
  <2>2. CASE owner[q] = owner[p]
    BY <2>1, <2>2
  <2>3. CASE owner[q] # owner[p]
    BY <1>0, <1>6, <2>3 DEF StopRemove
  <2>4. QED
    BY <2>2, <2>3
<1>7. ASSUME NEW q \in Process, StopKill(q) PROVE Goal
  <2>1. CASE alive[q]
    BY <1>0, <1>7, <2>1 DEF StopKill, Kill
  <2>2. CASE ~ alive[q]
    BY <1>0, <1>7, <2>2 DEF StopKill
  <2>3. QED
    BY <2>1, <2>2
<1>8. ASSUME NEW q \in Process, ChildExit(q) PROVE Goal
  BY <1>0, <1>8 DEF ChildExit
<1>9. ASSUME NEW q \in Process, Reap(q) PROVE Goal
  BY <1>0, <1>9 DEF Reap
<1>10. ASSUME NEW q \in Process, CloseOutput(q) PROVE Goal
  BY <1>0, <1>10 DEF CloseOutput
<1>11. ASSUME NEW q \in Process, AutoRemove(q) PROVE Goal
  <2>1. Remover(q)' /\ owner' = owner /\ alive' = alive
    BY <1>11 DEF AutoRemove
  <2>2. q # p
    BY <1>11, <2>1 DEF AutoRemove, ClosedIsDead
  <2>3. CASE owner[q] = owner[p]
    BY <2>1, <2>2, <2>3
  <2>4. CASE owner[q] # owner[p]
    BY <1>0, <1>11, <2>4 DEF AutoRemove
  <2>5. QED
    BY <2>3, <2>4
<1>12. QED
  BY RunnerStepCases, <1>1, <1>2, <1>3, <1>4, <1>5, <1>6, <1>7, <1>8, <1>9, <1>10, <1>11

\* A live process that the map has lost was lost to a removal by session identifier
\* made for another process of its session, or to its own Session.Stop.
THEOREM LostByRemoveSession == RunnerSpec => []LostOnlyByRemoveSession
<1>1. RunnerInit => LostOnlyByRemoveSession
  BY DEF RunnerInit, LostOnlyByRemoveSession
<1>2. QED
  BY <1>1, LostStep, RunnerTypeCorrect, MapInvHolds, ClosedOutputIsDead, PTL DEF RunnerSpec

-----------------------------------------------------------------------------
(***************************************************************************)
(* One process per session, as agent.go:10 has it.  The code does not keep *)
(* this promise; it would if removeSession never took the entry of a live  *)
(* process, which is what comparing the entry with the caller's own dead   *)
(* process would give.  Every other step keeps a live process registered.  *)
(***************************************************************************)

\* What is missing at runner.go:123-127: no removal by session finds a live process.
RemovesInTime == \A p \in Process : AutoRemove(p) \/ StopRemove(p) => ~ Busy(owner[p])

LiveIsRegistered == \A p \in Process : alive[p] => sessions[owner[p]] = p

\* A launch finds no live process registered, so by the invariant none is alive for its
\* session; an interrupt kills what it takes out of the map (runner.go:38-127, 150-163).
LEMMA LiveIsRegisteredStep ==
  TypeOK /\ LiveIsRegistered /\ [RunnerNext]_rvars /\ [RemovesInTime]_rvars
    => LiveIsRegistered'
<1> SUFFICES ASSUME TypeOK, LiveIsRegistered, [RunnerNext]_rvars,
                    [RemovesInTime]_rvars
             PROVE LiveIsRegistered'
  OBVIOUS
<1> USE RunnerConstants DEF TypeOK, LiveIsRegistered
<1>1. CASE UNCHANGED rvars
  BY <1>1 DEF rvars
<1>2. ASSUME NEW s \in Session, LaunchFail(s) PROVE LiveIsRegistered'
  BY <1>2 DEF LaunchFail, Busy
<1>3. ASSUME NEW s \in Session, Interrupt(s) PROVE LiveIsRegistered'
  BY <1>3 DEF Interrupt, Kill, Busy
<1>4. ASSUME NEW s \in Session, NEW p \in Process, Launch(s, p) PROVE LiveIsRegistered'
  BY <1>4 DEF Launch, Busy
<1>5. ASSUME NEW p \in Process, Send(p) PROVE LiveIsRegistered'
  BY <1>5 DEF Send
<1>6. ASSUME NEW p \in Process, StopRemove(p), ~ UNCHANGED rvars PROVE LiveIsRegistered'
  <2>1. ~ Busy(owner[p])
    BY <1>6 DEF RemovesInTime
  <2>2. QED
    BY <1>6, <2>1 DEF StopRemove, Busy
<1>7. ASSUME NEW p \in Process, StopKill(p) PROVE LiveIsRegistered'
  <2>1. CASE alive[p]
    BY <1>7, <2>1 DEF StopKill, Kill
  <2>2. CASE ~ alive[p]
    BY <1>7, <2>2 DEF StopKill
  <2>3. QED
    BY <2>1, <2>2
<1>8. ASSUME NEW p \in Process, ChildExit(p) PROVE LiveIsRegistered'
  BY <1>8 DEF ChildExit
<1>9. ASSUME NEW p \in Process, Reap(p) PROVE LiveIsRegistered'
  BY <1>9 DEF Reap
<1>10. ASSUME NEW p \in Process, CloseOutput(p) PROVE LiveIsRegistered'
  BY <1>10 DEF CloseOutput
<1>11. ASSUME NEW p \in Process, AutoRemove(p), ~ UNCHANGED rvars PROVE LiveIsRegistered'
  <2>1. ~ Busy(owner[p])
    BY <1>11 DEF RemovesInTime
  <2>2. QED
    BY <1>11, <2>1 DEF AutoRemove, Busy
<1>12. QED
  BY RunnerStepCases, <1>1, <1>2, <1>3, <1>4, <1>5, <1>6, <1>7, <1>8, <1>9, <1>10, <1>11

\* ErrBusy keeps a session to one live process in every behaviour in which no removal by
\* session identifier comes late: the removal is the promise's only hole (agent.go:10).
THEOREM OneProcessUnlessLate ==
  RunnerSpec /\ [][RemovesInTime]_rvars => []OneLiveProcessPerSession
<1>1. RunnerInit => LiveIsRegistered
  BY DEF RunnerInit, LiveIsRegistered
<1>2. RunnerSpec /\ [][RemovesInTime]_rvars => []LiveIsRegistered
  BY <1>1, LiveIsRegisteredStep, RunnerTypeCorrect, PTL DEF RunnerSpec
<1>3. LiveIsRegistered => OneLiveProcessPerSession
  BY DEF LiveIsRegistered, OneLiveProcessPerSession
<1>4. QED
  BY <1>2, <1>3, PTL

-----------------------------------------------------------------------------
(* The router.                                                              *)

\* Where a goroutine that holds an agent session may be.
Holding == {"persist", "build", "send", "stream"}

(***************************************************************************)
(* HandlerTypeOK is not inductive: a step stores what it finds in the      *)
(* locals of its goroutine.  FrameOK says that they are assigned whenever  *)
(* they are used.                                                          *)
(***************************************************************************)
FrameOK ==
  \A h \in Handler :
    /\ pc[h] \notin {"idle", "end"} => frame[h].id \in created
    /\ h \in Msg /\ pc[h] \notin {"idle", "end"} => frame[h].msg \in Msg
    /\ pc[h] \in Holding => frame[h].proc \in Process

HandlerInv == HandlerTypeOK /\ FrameOK

\* The locals of a goroutine keep their type when one of them is assigned.
LEMMA FrameUpdate ==
  ASSUME NEW f \in Frame
  PROVE  /\ \A s \in Session : [f EXCEPT !.id = s] \in Frame
         /\ \A p \in Process : [f EXCEPT !.proc = p] \in Frame
         /\ \A m \in Msg : [f EXCEPT !.msg = m, !.proc = None] \in Frame
  BY DEF Frame

\* Every step of every goroutine keeps the types and assigns locals before their use.
LEMMA HandlerInvStep == HandlerInv /\ [Next]_vars => HandlerInv'
<1> SUFFICES ASSUME HandlerInv, [Next]_vars PROVE HandlerInv'
  OBVIOUS
<1> USE RouterConstants, RunnerConstants
    DEF HandlerInv, HandlerTypeOK, FrameOK, Holding, Frame, Label, Outcome, Handler,
        NoFrame, At, Goto, dbVars, memVars, histVars
<1>1. ASSUME NEW h \in Handler, HandleWorkerMessage(h) PROVE HandlerInv'
  BY <1>1 DEF HandleWorkerMessage, Snapshot
<1>2. ASSUME NEW h \in Handler, SessionNotFound(h) PROVE HandlerInv'
  BY <1>2 DEF SessionNotFound, Return, Settle
<1>3. ASSUME NEW h \in Msg, ChannelDown(h) PROVE HandlerInv'
  BY <1>3 DEF ChannelDown, Return, Settle
<1>4. ASSUME NEW h \in Msg, NEW p \in Process, AgentLaunched(h, p) PROVE HandlerInv'
  <2>1. frame[h].id \in created /\ frame[h].msg \in Msg /\ Conversation(h, p) \in Process
    BY <1>4 DEF AgentLaunched, Conversation
  <2>2. conv' \in [Process -> Process \cup {None}]
    BY <1>4, <2>1 DEF AgentLaunched
  <2>3. /\ frame' = [frame EXCEPT ![h].proc = p] /\ pc' = [pc EXCEPT ![h] = "persist"]
        /\ UNCHANGED <<dbVars, memVars, input, outcome>>
    BY <1>4 DEF AgentLaunched
  <2>4. frame' \in [Handler -> Frame]
    <3>1. [frame[h] EXCEPT !.proc = p] \in Frame
      BY FrameUpdate
    <3>2. QED
      BY <2>3, <3>1
  <2>5. HandlerTypeOK'
    BY <2>2, <2>3, <2>4
  <2>6. FrameOK'
    BY <2>1, <2>3
  <2>7. QED
    BY <2>5, <2>6
<1>5. ASSUME NEW h \in Msg, AgentBusy(h) PROVE HandlerInv'
  BY <1>5 DEF AgentBusy
<1>6. ASSUME NEW h \in Msg, AgentFailed(h) PROVE HandlerInv'
  BY <1>6 DEF AgentFailed, Return, Settle
<1>7. ASSUME NEW h \in Msg, Persist(h) PROVE HandlerInv'
  <2>1. At(h, "persist") /\ frame[h].id \in created /\ frame[h].proc \in Process
    BY <1>7 DEF Persist
  <2>2. claude' \in [Session -> Process \cup {None}] /\ waked' \subseteq created
    <3>1. CASE frame[h].claude = None
      BY <1>7, <2>1, <3>1 DEF Persist
    <3>2. CASE frame[h].claude # None
      BY <1>7, <2>1, <3>2 DEF Persist
    <3>3. QED
      BY <3>1, <3>2
  <2>3. /\ pc' = [pc EXCEPT ![h] = "build"]
        /\ UNCHANGED <<bound, created, memVars, frame, histVars>>
    BY <1>7 DEF Persist
  <2>4. HandlerTypeOK'
    BY <2>2, <2>3
  <2>5. FrameOK'
    BY <2>1, <2>3
  <2>6. QED
    BY <2>4, <2>5
<1>8. ASSUME NEW h \in Handler, StatementFails(h) PROVE HandlerInv'
  BY <1>8 DEF StatementFails
<1>9. ASSUME NEW h \in Msg, BuildUserInput(h) PROVE HandlerInv'
  BY <1>9 DEF BuildUserInput
<1>10. ASSUME NEW h \in Msg, SendToAgent(h) PROVE HandlerInv'
  BY <1>10 DEF SendToAgent
<1>11. ASSUME NEW h \in Msg, SendToAgentFails(h) PROVE HandlerInv'
  BY <1>11 DEF SendToAgentFails, Return, Settle
<1>12. ASSUME NEW h \in Msg, StreamError(h) PROVE HandlerInv'
  BY <1>12 DEF StreamError, Settle
<1>13. ASSUME NEW h \in Msg, StreamFinal(h) PROVE HandlerInv'
  BY <1>13 DEF StreamFinal
<1>14. ASSUME NEW h \in Msg, StreamClosed(h) PROVE HandlerInv'
  BY <1>14 DEF StreamClosed
<1>15. ASSUME NEW h \in Msg, Finish(h) PROVE HandlerInv'
  <2>1. PICK next \in {"ask", "drain"} : pc' = [pc EXCEPT ![h] = next]
    BY <1>15 DEF Finish
  <2>2. outcome' \in [Msg -> Outcome]
    BY <1>15 DEF Finish, Settle
  <2>3. /\ interrupted' = interrupted \ {frame[h].id} /\ At(h, "finish")
        /\ UNCHANGED <<dbVars, queue, question, frame, conv, input>>
    BY <1>15 DEF Finish
  <2>4. HandlerTypeOK'
    BY <2>1, <2>2, <2>3
  <2>5. FrameOK'
    BY <2>1, <2>3
  <2>6. QED
    BY <2>4, <2>5
<1>16. ASSUME NEW h \in Msg, AskQuestion(h) PROVE HandlerInv'
  BY <1>16 DEF AskQuestion
<1>17. ASSUME NEW h \in Msg, EnqueueMessage(h) PROVE HandlerInv'
  BY <1>17 DEF EnqueueMessage, Return
<1>18. ASSUME NEW h \in Msg, DrainEmpty(h) PROVE HandlerInv'
  BY <1>18 DEF DrainEmpty, Return
<1>19. ASSUME NEW h \in Msg, DrainNext(h) PROVE HandlerInv'
  <2> DEFINE s == frame[h].id
  <2>1. s \in Session /\ s \in created /\ queue[s] \in Seq(Msg) /\ queue[s] # <<>>
    BY <1>19 DEF DrainNext
  <2>2. Head(queue[s]) \in Msg /\ Tail(queue[s]) \in Seq(Msg)
    BY <2>1
  <2>3. queue' = [queue EXCEPT ![s] = Tail(queue[s])]
    BY <1>19, <2>1 DEF DrainNext
  <2>4. queue' \in [Session -> Seq(Msg)]
    BY <2>2, <2>3
  <2>5. /\ frame' = [frame EXCEPT ![h].msg = Head(queue[s]), ![h].proc = None]
        /\ pc' = [pc EXCEPT ![h] = "launch"]
        /\ question' = question \ {s}
        /\ UNCHANGED <<dbVars, interrupted, histVars>>
    BY <1>19 DEF DrainNext
  <2> HIDE DEF s
  <2>6. frame' \in [Handler -> Frame]
    <3>1. [frame[h] EXCEPT !.msg = Head(queue[s]), !.proc = None] \in Frame
      BY <2>2, FrameUpdate
    <3>2. frame' = [frame EXCEPT ![h] =
                      [frame[h] EXCEPT !.msg = Head(queue[s]), !.proc = None]]
      BY <2>5
    <3>3. QED
      BY <3>1, <3>2
  <2>7. FrameOK'
    <3>1. frame'[h].id = s /\ frame'[h].msg = Head(queue[s]) /\ pc'[h] = "launch"
      BY <2>5 DEF s
    <3>2. \A g \in Handler \ {h} : frame'[g] = frame[g] /\ pc'[g] = pc[g]
      BY <2>5
    <3>3. created' = created
      BY <2>5
    <3>4. QED
      BY <2>1, <2>2, <3>1, <3>2, <3>3
  <2>8. QED
    BY <2>4, <2>5, <2>6, <2>7
<1>20. ASSUME NEW h \in StopCmd, StopInterrupts(h) PROVE HandlerInv'
  BY <1>20 DEF StopInterrupts
<1>21. ASSUME NEW h \in StopCmd, StopFindsNothing(h) PROVE HandlerInv'
  BY <1>21 DEF StopFindsNothing, Return
<1>22. ASSUME NEW h \in StopCmd, StopSetsFlag(h) PROVE HandlerInv'
  BY <1>22 DEF StopSetsFlag, Return
<1>23. ASSUME NEW h \in NewCmd, NewInterrupts(h) PROVE HandlerInv'
  BY <1>23 DEF NewInterrupts
<1>24. ASSUME NEW h \in NewCmd, NewClearsFlag(h) PROVE HandlerInv'
  BY <1>24 DEF NewClearsFlag
<1>25. ASSUME NEW h \in NewCmd, NewReleases(h) PROVE HandlerInv'
  BY <1>25 DEF NewReleases
<1>26. ASSUME NEW h \in NewCmd, NewMarksSleeped(h) PROVE HandlerInv'
  BY <1>26 DEF NewMarksSleeped
<1>27. ASSUME NEW h \in NewCmd, NewCleans(h) PROVE HandlerInv'
  <2> DEFINE s == frame[h].id
  <2>1. s \in created /\ s \in Session
    BY <1>27 DEF NewCleans
  <2>2. /\ queue' = [queue EXCEPT ![s] = <<>>] /\ pc' = [pc EXCEPT ![h] = "create"]
        /\ interrupted' = interrupted \ {s} /\ question' = question \ {s}
        /\ UNCHANGED <<dbVars, frame, conv, input>>
    BY <1>27 DEF NewCleans
  <2>3. outcome' \in [Msg -> Outcome]
    <3>1. outcome' = [m \in Msg |-> IF m \in ToSet(queue[s]) THEN "dropped" ELSE outcome[m]]
      BY <1>27 DEF NewCleans
    <3>2. QED
      BY <3>1
  <2>4. queue' \in [Session -> Seq(Msg)]
    <3>1. <<>> \in Seq(Msg)
      OBVIOUS
    <3>2. QED
      BY <2>2, <3>1
  <2> HIDE DEF s
  <2>5. QED
    BY <1>27, <2>1, <2>2, <2>3, <2>4 DEF NewCleans
<1>28. ASSUME NEW h \in NewCmd, NewCreates(h) PROVE HandlerInv'
  <2>1. PICK n \in Session \ created :
           /\ created' = created \cup {n} /\ waked' = waked \cup {n}
           /\ frame' = [frame EXCEPT ![h].id = n]
    BY <1>28 DEF NewCreates
  <2>2. /\ pc' = [pc EXCEPT ![h] = "bind"] /\ At(h, "create")
        /\ UNCHANGED <<bound, claude, memVars, histVars>>
    BY <1>28 DEF NewCreates
  <2>3. HandlerTypeOK'
    <3>1. frame' \in [Handler -> Frame]
      <4>1. [frame[h] EXCEPT !.id = n] \in Frame
        BY <2>1, FrameUpdate
      <4>2. QED
        BY <2>1, <4>1
    <3>2. QED
      BY <2>1, <2>2, <3>1
  <2>4. FrameOK'
    BY <2>1, <2>2
  <2>5. QED
    BY <2>3, <2>4
<1>29. ASSUME NEW h \in NewCmd, NewBinds(h) PROVE HandlerInv'
  BY <1>29 DEF NewBinds, Return
<1>30. ASSUME NEW h \in NewCmd, NewFails(h) PROVE HandlerInv'
  BY <1>30 DEF NewFails, Return
<1>31. ASSUME NEW p \in Process, ProcessMoves(p) PROVE HandlerInv'
  BY <1>31 DEF ProcessMoves
<1>32. CASE UNCHANGED vars
  BY <1>32 DEF vars
<1>33. QED
  BY <1>1, <1>2, <1>3, <1>4, <1>5, <1>6, <1>7, <1>8, <1>9, <1>10, <1>11, <1>12,
     <1>13, <1>14, <1>15, <1>16, <1>17, <1>18, <1>19, <1>20, <1>21, <1>22,
     <1>23, <1>24, <1>25, <1>26, <1>27, <1>28, <1>29, <1>30, <1>31, <1>32 DEF
     Next, MsgStep, AgentOutput, StopStep, NewStep
-----------------------------------------------------------------------------
(***************************************************************************)
(* The router uses the runner as its specification says.  In every state   *)
(* of a goroutine that calls the runner its session and its process are    *)
(* those of a frame that holds them, so each call is a step of RunnerNext. *)
(***************************************************************************)
\* Each step of the router is a step of the runner or leaves the runner alone.
LEMMA RunnerStep == HandlerInv /\ [Next]_vars => [RunnerNext]_rvars
<1> SUFFICES ASSUME HandlerInv, [Next]_vars PROVE [RunnerNext]_rvars
  OBVIOUS
<1>1. ASSUME NEW h \in Handler, At(h, "launch") \/ At(h, "interrupt") PROVE frame[h].id \in Session
  BY <1>1 DEF HandlerInv, HandlerTypeOK, FrameOK, At
<1>2. ASSUME NEW h \in Handler, At(h, "send") PROVE frame[h].proc \in Process
  BY <1>2 DEF HandlerInv, FrameOK, Holding, At
<1>3. ASSUME NEW h \in Msg, MsgStep(h) PROVE [RunnerNext]_rvars
  <2>1. ASSUME NEW p \in Process, AgentLaunched(h, p) PROVE [RunnerNext]_rvars
    BY <1>1, <2>1 DEF AgentLaunched, RunnerNext, Handler
  <2>2. CASE AgentBusy(h)
    BY <1>1, <2>2 DEF AgentBusy, RunnerNext, Handler
  <2>3. CASE AgentFailed(h)
    BY <1>1, <2>3 DEF AgentFailed, RunnerNext, Handler
  <2>4. CASE SendToAgent(h)
    BY <1>2, <2>4 DEF SendToAgent, RunnerNext, Handler
  <2>5. CASE SendToAgentFails(h)
    BY <1>2, <2>5 DEF SendToAgentFails, RunnerNext, Handler
  <2>6. CASE \/ ChannelDown(h) \/ Persist(h) \/ StatementFails(h) \/ BuildUserInput(h)
             \/ StreamClosed(h) \/ Finish(h) \/ AskQuestion(h)
             \/ EnqueueMessage(h) \/ DrainEmpty(h) \/ DrainNext(h)
    BY <2>6 DEF ChannelDown, Persist, StatementFails, BuildUserInput, StreamClosed, Finish,
                AskQuestion, EnqueueMessage, DrainEmpty, DrainNext
  <2>7. QED
    BY <1>3, <2>1, <2>2, <2>3, <2>4, <2>5, <2>6 DEF MsgStep
<1>4. ASSUME NEW h \in StopCmd, StopStep(h) PROVE [RunnerNext]_rvars
  BY <1>1, <1>4 DEF StopStep, StopInterrupts, StopFindsNothing, StopSetsFlag, RunnerNext, Handler
<1>5. ASSUME NEW h \in NewCmd, NewStep(h) PROVE [RunnerNext]_rvars
  <2>1. CASE NewInterrupts(h)
    BY <1>1, <2>1 DEF NewInterrupts, RunnerNext, Handler
  <2>2. CASE ~ NewInterrupts(h)
    BY <1>5, <2>2 DEF NewStep, NewClearsFlag, NewReleases, NewMarksSleeped, NewCleans,
                      NewCreates, NewBinds, NewFails, StatementFails
  <2>3. QED
    BY <2>1, <2>2
<1>6. ASSUME NEW h \in Msg, AgentOutput(h) PROVE [RunnerNext]_rvars
  BY <1>6 DEF AgentOutput, StreamError, StreamFinal
<1>7. ASSUME NEW h \in Handler, HandleWorkerMessage(h) \/ SessionNotFound(h)
      PROVE  [RunnerNext]_rvars
  BY <1>7 DEF HandleWorkerMessage, SessionNotFound
<1>8. ASSUME NEW p \in Process, ProcessMoves(p) PROVE [RunnerNext]_rvars
  BY <1>8 DEF ProcessMoves, RunnerNext
<1>9. CASE UNCHANGED vars
  BY <1>9 DEF vars
<1>10. QED
  BY <1>3, <1>4, <1>5, <1>6, <1>7, <1>8, <1>9 DEF Next

\* The types and the use of locals hold in every reachable state.
LEMMA HandlerInvHolds == Spec => []HandlerInv
<1>1. Init => HandlerInv
  BY RouterConstants, RunnerConstants
     DEF Init, HandlerInv, HandlerTypeOK, FrameOK, Holding, Frame, Label, Outcome, NoFrame, Handler
<1>2. QED
  BY <1>1, HandlerInvStep, PTL DEF Spec

\* The router with all its goroutines implements the runner's specification: whatever
\* the order of turns, /stop and /new, the runner only ever does what its own code does
\* (handler.go:144, 162, 405-416, 467; runner.go:38-121).
THEOREM ImplementsRunner == Spec => RunnerSpec
<1>1. Init => RunnerInit
  BY DEF Init
<1>2. QED
  BY <1>1, RunnerStep, HandlerInvHolds, PTL DEF Spec, RunnerSpec

\* Type correctness of the router and of the runner under it, for any messages,
\* commands, sessions and processes.
THEOREM RouterTypeCorrect == Spec => []RouterTypeOK
<1>1. HandlerInv => HandlerTypeOK
  BY DEF HandlerInv
<1>2. QED
  BY <1>1, HandlerInvHolds, ImplementsRunner, RunnerTypeCorrect, PTL DEF RouterTypeOK

\* The runner's map stays right under the router: /stop and ErrBusy reach only the
\* session's own process, a killed process is never registered, a finished one never
\* alive, and a live one is lost only through a removal by session identifier.
THEOREM RunnerSafeUnderRouter ==
  Spec => [](MapConsistent /\ GoneUnregistered /\ ClosedIsDead /\ LostOnlyByRemoveSession)
  BY ImplementsRunner, MapIsConsistent, GoneIsUnregistered, ClosedOutputIsDead,
     LostByRemoveSession, PTL
-----------------------------------------------------------------------------
(***************************************************************************)
(* Conversations.  ConversationStaysInSession is not inductive: what a     *)
(* goroutine stores comes from its locals, taken long before.  ConvInv     *)
(* adds that the conversation and the process in the locals of a message's *)
(* goroutine belong to the session in those locals; a drain keeps that     *)
(* session, and a process, once launched, keeps its owner.                 *)
(***************************************************************************)
SnapshotOK ==
  \A h \in Msg : pc[h] \notin {"idle", "end"} =>
    /\ frame[h].claude # None => owner[frame[h].claude] = frame[h].id
    /\ pc[h] \in Holding => owner[frame[h].proc] = frame[h].id

ConvInv ==
  /\ ConversationStaysInSession
  /\ \A p \in Process : conv[p] # None => owner[p] # None
  /\ SnapshotOK

\* A process keeps the session it was launched for.
LEMMA OwnerKept ==
  ASSUME TypeOK, [RunnerNext]_rvars
  PROVE  \A p \in Process : owner[p] # None => owner'[p] = owner[p]
<1>1. ASSUME NEW s \in Session, NEW q \in Process, Launch(s, q)
      PROVE  \A p \in Process : owner[p] # None => owner'[p] = owner[p]
  BY <1>1 DEF Launch, TypeOK
<1>2. QED
  BY RunnerStepCases, <1>1 DEF LaunchFail, Interrupt, Send, StopRemove, StopKill, ChildExit, Reap,
                         CloseOutput, AutoRemove, rvars

\* Every step keeps conversations, stored or in locals, in their session.
LEMMA ConvInvStep == HandlerInv /\ TypeOK /\ ConvInv /\ [Next]_vars => ConvInv'
<1> SUFFICES ASSUME HandlerInv, TypeOK, ConvInv, [Next]_vars PROVE ConvInv'
  OBVIOUS
<1>1. \A p \in Process : owner[p] # None => owner'[p] = owner[p]
  BY OwnerKept, RunnerStep
<1>2. /\ conv \in [Process -> Process \cup {None}] /\ claude \in [Session -> Process \cup {None}]
      /\ frame \in [Handler -> Frame] /\ pc \in [Handler -> Label]
      /\ owner \in [Process -> Session \cup {None}]
      /\ bound \subseteq Session /\ Msg \subseteq Handler
      /\ None \notin Process /\ None \notin Session
  BY RunnerConstants DEF HandlerInv, HandlerTypeOK, TypeOK, Handler
<1>3. \A h \in Handler :
        /\ frame[h].claude \in Process \cup {None}
        /\ pc[h] \notin {"idle", "end"} => frame[h].id \in Session
        /\ pc[h] \in Holding => frame[h].proc \in Process
  BY <1>2 DEF HandlerInv, HandlerTypeOK, FrameOK, Frame
\* A step that leaves conversations and the locals of messages alone.
<1>4. ASSUME UNCHANGED <<conv, claude>>,
             \A h \in Msg : \/ pc'[h] \in {"idle", "end"}
                            \/ /\ frame'[h] = frame[h] /\ pc[h] \notin {"idle", "end"}
                               /\ pc'[h] \in Holding => pc[h] \in Holding
      PROVE  ConvInv'
  <2>1. ConversationStaysInSession'
    BY <1>1, <1>2, <1>4 DEF ConvInv, ConversationStaysInSession
  <2>2. \A p \in Process : conv'[p] # None => owner'[p] # None
    BY <1>1, <1>4 DEF ConvInv
  <2>3. SnapshotOK'
    BY <1>1, <1>2, <1>3, <1>4 DEF ConvInv, SnapshotOK
  <2>4. QED
    BY <2>1, <2>2, <2>3 DEF ConvInv
<1>5. ASSUME NEW h \in Msg, NEW p \in Process, AgentLaunched(h, p) PROVE ConvInv'
  <2> DEFINE s == frame[h].id
             c == Conversation(h, p)
  <2>1. /\ s \in Session /\ owner[p] = None
        /\ owner' = [owner EXCEPT ![p] = s]
        /\ conv' = [conv EXCEPT ![p] = c] /\ claude' = claude
        /\ frame' = [frame EXCEPT ![h].proc = p] /\ pc' = [pc EXCEPT ![h] = "persist"]
        /\ pc[h] = "launch"
    BY <1>2, <1>3, <1>5 DEF AgentLaunched, Launch, TypeOK, At, Goto, dbVars
  <2>2. c \in Process /\ owner'[c] = s
    BY <1>1, <1>2, <1>3, <2>1 DEF Conversation, ConvInv, SnapshotOK
  <2> HIDE DEF s, c
  <2>3. ConversationStaysInSession'
    BY <1>1, <1>2, <2>1, <2>2 DEF ConvInv, ConversationStaysInSession
  <2>4. \A q \in Process : conv'[q] # None => owner'[q] # None
    BY <1>1, <1>2, <2>1, <2>2 DEF ConvInv
  <2>5. SnapshotOK'
    BY <1>1, <1>2, <1>3, <2>1 DEF ConvInv, SnapshotOK, s
  <2>6. QED
    BY <2>3, <2>4, <2>5 DEF ConvInv
<1>6. ASSUME NEW h \in Msg, Persist(h) PROVE ConvInv'
  <2>1. /\ pc[h] = "persist" /\ pc' = [pc EXCEPT ![h] = "build"]
        /\ UNCHANGED <<owner, frame, conv>>
        /\ claude' = claude \/ claude' = [claude EXCEPT ![frame[h].id] = frame[h].proc]
    BY <1>6 DEF Persist, At, Goto, rvars, histVars
  <2>2. frame[h].proc \in Process /\ owner[frame[h].proc] = frame[h].id
    BY <1>2, <1>3, <2>1 DEF ConvInv, SnapshotOK, Holding
  <2>3. QED
    BY <1>2, <2>1, <2>2 DEF ConvInv, ConversationStaysInSession, SnapshotOK, Holding
<1>7. ASSUME NEW h \in Handler, HandleWorkerMessage(h) PROVE ConvInv'
  <2>1. PICK s \in bound :
          /\ frame' = [frame EXCEPT ![h] = Snapshot(s, h)]
          /\ pc' = [pc EXCEPT ![h] = CASE h \in Msg -> "launch"
                                       [] h \in NewCmd /\ s \notin waked -> "release"
                                       [] OTHER -> "interrupt"]
    BY <1>7 DEF HandleWorkerMessage, Goto
  <2>2. UNCHANGED <<owner, conv, claude>>
    BY <1>7 DEF HandleWorkerMessage, rvars, dbVars, histVars
  <2>3. frame'[h].id = s /\ frame'[h].claude = claude[s] /\ pc'[h] \notin Holding
    BY <1>2, <2>1 DEF Snapshot, Holding
  <2>4. SnapshotOK'
    <3>1. \A g \in Handler \ {h} : frame'[g] = frame[g] /\ pc'[g] = pc[g]
      BY <1>2, <2>1
    <3>2. QED
      BY <1>2, <2>1, <2>2, <2>3, <3>1 DEF ConvInv, ConversationStaysInSession, SnapshotOK
  <2>5. QED
    BY <2>2, <2>4 DEF ConvInv, ConversationStaysInSession
<1>8. ASSUME NEW h \in Msg, DrainNext(h) PROVE ConvInv'
  <2>1. /\ pc[h] = "drain" /\ pc' = [pc EXCEPT ![h] = "launch"]
        /\ frame'[h].id = frame[h].id /\ frame'[h].claude = frame[h].claude
        /\ \A g \in Handler \ {h} : frame'[g] = frame[g]
        /\ UNCHANGED <<owner, conv, claude>>
    BY <1>2, <1>8 DEF DrainNext, At, Goto, rvars, dbVars, histVars, Frame
  <2>2. SnapshotOK'
    BY <1>2, <2>1 DEF ConvInv, SnapshotOK, Holding
  <2>3. QED
    BY <2>1, <2>2 DEF ConvInv, ConversationStaysInSession
<1>9. ASSUME NEW h \in Msg,
             \/ ChannelDown(h) \/ AgentBusy(h) \/ AgentFailed(h) \/ StatementFails(h)
             \/ BuildUserInput(h) \/ SendToAgent(h) \/ SendToAgentFails(h) \/ StreamClosed(h)
             \/ Finish(h) \/ AskQuestion(h) \/ EnqueueMessage(h) \/ DrainEmpty(h)
             \/ StreamError(h) \/ StreamFinal(h)
      PROVE ConvInv'
  BY <1>2, <1>4, <1>9
     DEF ChannelDown, AgentBusy, AgentFailed, StatementFails, BuildUserInput, SendToAgent,
         SendToAgentFails, StreamClosed, Finish, AskQuestion, EnqueueMessage, DrainEmpty,
         StreamError, StreamFinal, At, Goto, Return, Holding, dbVars, memVars, histVars
<1>10. ASSUME NEW h \in Handler \ Msg, SessionNotFound(h) \/ StopStep(h) \/ NewStep(h)
       PROVE  ConvInv'
  BY <1>2, <1>4, <1>10
     DEF SessionNotFound, StopStep, StopInterrupts, StopFindsNothing, StopSetsFlag, NewStep,
         NewInterrupts, NewClearsFlag, NewReleases, NewMarksSleeped, NewCleans, NewCreates,
         NewBinds, NewFails, StatementFails, At, Goto, Return, Holding, dbVars, memVars, histVars
<1>11. ASSUME NEW h \in Msg, SessionNotFound(h) PROVE ConvInv'
  BY <1>2, <1>4, <1>11 DEF SessionNotFound, Goto, Return, dbVars
<1>12. ASSUME NEW p \in Process, ProcessMoves(p) PROVE ConvInv'
  BY <1>4, <1>12 DEF ProcessMoves, dbVars, histVars, Holding
<1>13. CASE UNCHANGED vars
  BY <1>4, <1>13 DEF vars, dbVars, histVars
<1>14. QED
  <2>1. ASSUME NEW h \in Msg, MsgStep(h) \/ AgentOutput(h) PROVE ConvInv'
    BY <1>5, <1>6, <1>8, <1>9, <2>1 DEF MsgStep, AgentOutput
  <2>2. ASSUME NEW h \in Handler, HandleWorkerMessage(h) \/ SessionNotFound(h) PROVE ConvInv'
    BY <1>7, <1>10, <1>11, <2>2
  <2>3. ASSUME NEW h \in StopCmd \cup NewCmd, StopStep(h) \/ NewStep(h) PROVE ConvInv'
    BY <1>10, <2>3, RouterConstants DEF Handler
  <2>4. QED
    BY <1>12, <1>13, <2>1, <2>2, <2>3 DEF Next

\* Conversations are never mixed up: for any number of goroutines with stale snapshots,
\* drains and /new, no process resumes, and no session stores, the conversation of
\* another session (handler.go:405-443, 738, 751, 793).
THEOREM ConversationStays == Spec => []ConversationStaysInSession
<1>1. Init => ConvInv
  BY RouterConstants
     DEF Init, ConvInv, ConversationStaysInSession, SnapshotOK, Handler
<1>2. HandlerInv /\ TypeOK /\ ConvInv /\ [Next]_vars => ConvInv'
  BY ConvInvStep
<1>3. Spec => []TypeOK
  BY ImplementsRunner, RunnerTypeCorrect, PTL
<1>4. ConvInv => ConversationStaysInSession
  BY DEF ConvInv
<1>5. QED
  BY <1>1, <1>2, <1>3, <1>4, HandlerInvHolds, PTL DEF Spec

-----------------------------------------------------------------------------
(***************************************************************************)
(* Messages.  The proofs do not go through the thirty actions of the       *)
(* router one by one.  StepKinds shows once that a step is of one of eight *)
(* kinds, named for what it does to messages; the invariant and the        *)
(* refinement are then proved kind by kind.                                *)
(***************************************************************************)

\* Where a goroutine is while the message it has is not settled yet, and where it is
\* once that message has been given to the agent.
InHand == Label \ {"idle", "end", "ask", "drain"}
Given == {"stream", "finish"}

OthersStay(h) == \A g \in Msg \ {h} : pc'[g] = pc[g] /\ frame'[g].msg = frame[g].msg

\* The goroutine goes on with the message it has, or, the turn over, to its end.
GoesOn(h) ==
  \/ pc'[h] = pc[h] /\ frame'[h].msg = frame[h].msg
  \/ /\ pc[h] \in InHand /\ pc'[h] \in InHand /\ frame'[h].msg = frame[h].msg
     /\ pc[h] \in Given => pc'[h] \in Given
  \/ pc[h] = "ask" /\ pc'[h] = "drain" /\ frame'[h].msg = frame[h].msg
  \/ pc[h] = "drain" /\ pc'[h] = "end" /\ frame'[h].msg = None

Quiet == UNCHANGED <<queue, outcome, input>> /\ \A h \in Msg : GoesOn(h)

\* The message comes in, or there is no session for it.
Arrives(h) ==
  /\ pc[h] = "idle" /\ pc'[h] = "launch" /\ frame'[h].msg = h
  /\ OthersStay(h) /\ UNCHANGED <<queue, outcome, input>>

Refused(h) ==
  /\ pc[h] = "idle" /\ pc'[h] = "end" /\ frame'[h].msg = None
  /\ outcome' = [outcome EXCEPT ![h] = "refused"]
  /\ OthersStay(h) /\ UNCHANGED <<queue, input>>

\* The message in hand is settled; "refused" is only said before it is given away.
Settles(h, how) ==
  /\ pc[h] \in InHand
  /\ how = "refused" => pc[h] \notin Given
  /\ \/ pc'[h] = "end" /\ frame'[h].msg = None
     \/ pc'[h] \in {"ask", "drain"} /\ frame'[h].msg = frame[h].msg
  /\ outcome' = [outcome EXCEPT ![frame[h].msg] = how]
  /\ OthersStay(h) /\ UNCHANGED <<queue, input>>

\* The message in hand is given to the process p.
Sends(h, p) ==
  /\ pc[h] = "send" /\ pc'[h] = "stream" /\ frame'[h].msg = frame[h].msg
  /\ input' = [input EXCEPT ![p] = frame[h].msg]
  /\ OthersStay(h) /\ UNCHANGED <<queue, outcome>>

\* The message in hand is put at the end of the queue of s.
Queues(h, s) ==
  /\ pc[h] = "enqueue" /\ pc'[h] = "end" /\ frame'[h].msg = None
  /\ queue' = [queue EXCEPT ![s] = Append(queue[s], frame[h].msg)]
  /\ OthersStay(h) /\ UNCHANGED <<outcome, input>>

\* The turn over, the head of the queue of s is taken in hand.
Takes(h, s) ==
  /\ pc[h] = "drain" /\ pc'[h] = "launch" /\ queue[s] # <<>>
  /\ frame'[h].msg = Head(queue[s])
  /\ queue' = [queue EXCEPT ![s] = Tail(queue[s])]
  /\ OthersStay(h) /\ UNCHANGED <<outcome, input>>

\* /new drops the queue of s.
Clears(s) ==
  /\ queue' = [queue EXCEPT ![s] = <<>>]
  /\ outcome' = [m \in Msg |-> IF m \in ToSet(queue[s]) THEN "dropped" ELSE outcome[m]]
  /\ \A h \in Msg : pc'[h] = pc[h] /\ frame'[h].msg = frame[h].msg
  /\ UNCHANGED input

SettledHow == {"refused", "interrupted", "ended"}

\* Every step of the router is of one of these kinds.
LEMMA StepKinds ==
  ASSUME HandlerInv, [Next]_vars
  PROVE  \/ Quiet
         \/ \E h \in Msg : Arrives(h) \/ Refused(h)
         \/ \E h \in Msg, how \in SettledHow : Settles(h, how)
         \/ \E h \in Msg, p \in Process : Sends(h, p)
         \/ \E h \in Msg, s \in Session : Queues(h, s) \/ Takes(h, s)
         \/ \E s \in Session : Clears(s)
<1> DEFINE Goal == \/ Quiet
                   \/ \E h \in Msg : Arrives(h) \/ Refused(h)
                   \/ \E h \in Msg, how \in SettledHow : Settles(h, how)
                   \/ \E h \in Msg, p \in Process : Sends(h, p)
                   \/ \E h \in Msg, s \in Session : Queues(h, s) \/ Takes(h, s)
                   \/ \E s \in Session : Clears(s)
<1> SUFFICES Goal
  OBVIOUS
<1>1. /\ pc \in [Handler -> Label] /\ frame \in [Handler -> Frame] /\ Msg \subseteq Handler
      /\ created \subseteq Session
  BY DEF HandlerInv, HandlerTypeOK, Handler
<1>2. \A h \in Msg : pc[h] \notin {"idle", "end"} => frame[h].id \in Session
  BY <1>1 DEF HandlerInv, FrameOK
<1>3. \A h \in Msg : pc[h] = "send" => frame[h].proc \in Process
  BY <1>1 DEF HandlerInv, FrameOK, Holding
<1>4. ASSUME NEW h \in Msg, HandleWorkerMessage(h) PROVE Arrives(h)
  <2>1. PICK s \in bound :
          frame' = [frame EXCEPT ![h] = Snapshot(s, h)] /\ pc' = [pc EXCEPT ![h] = "launch"]
    BY <1>4, RouterConstants DEF HandleWorkerMessage, Goto
  <2>2. frame'[h].msg = h
    BY <1>1, <2>1 DEF Snapshot
  <2>3. QED
    BY <1>1, <1>4, <2>1, <2>2
       DEF Arrives, OthersStay, HandleWorkerMessage, At, memVars, histVars
<1>5. ASSUME NEW h \in Msg, SessionNotFound(h) PROVE Refused(h)
  BY <1>1, <1>5 DEF SessionNotFound, Refused, OthersStay, Settle, Return, Goto, NoFrame, At, memVars
<1>6. ASSUME NEW h \in Msg, ChannelDown(h) \/ AgentFailed(h) \/ SendToAgentFails(h)
      PROVE  Settles(h, "refused")
  BY <1>1, <1>6 DEF ChannelDown, AgentFailed, SendToAgentFails, Settles, OthersStay, Settle,
                    Return, Goto, NoFrame, At, memVars, InHand, Given, Label
<1>7. ASSUME NEW h \in Msg, StreamError(h) PROVE Settles(h, "ended")
  BY <1>1, <1>7 DEF StreamError, Settles, OthersStay, Settle, Goto, At, memVars, InHand, Label
<1>8. ASSUME NEW h \in Msg, Finish(h) PROVE \E how \in SettledHow : Settles(h, how)
  <2>1. \E next \in {"ask", "drain"} : pc' = [pc EXCEPT ![h] = next]
    BY <1>8 DEF Finish, Goto
  <2>2. \E how \in {"interrupted", "ended"} : outcome' = [outcome EXCEPT ![frame[h].msg] = how]
    BY <1>8 DEF Finish, Settle
  <2>3. QED
    BY <1>1, <1>8, <2>1, <2>2 DEF Finish, Settles, OthersStay, SettledHow, At, InHand, Label
<1>9. ASSUME NEW h \in Msg, SendToAgent(h) PROVE \E p \in Process : Sends(h, p)
  BY <1>1, <1>3, <1>9 DEF SendToAgent, Sends, OthersStay, Goto, At, memVars
<1>10. ASSUME NEW h \in Msg, EnqueueMessage(h) PROVE \E s \in Session : Queues(h, s)
  BY <1>1, <1>2, <1>10
     DEF EnqueueMessage, Queues, OthersStay, Return, Goto, NoFrame, At, histVars
<1>11. ASSUME NEW h \in Msg, DrainNext(h) PROVE \E s \in Session : Takes(h, s)
  <2>1. frame'[h].msg = Head(queue[frame[h].id])
    BY <1>1, <1>11 DEF DrainNext, Frame
  <2>2. \A g \in Msg \ {h} : pc'[g] = pc[g] /\ frame'[g] = frame[g]
    BY <1>1, <1>11 DEF DrainNext, Goto
  <2>3. /\ pc[h] = "drain" /\ pc'[h] = "launch" /\ queue[frame[h].id] # <<>>
        /\ UNCHANGED <<outcome, input>>
    BY <1>1, <1>11 DEF DrainNext, Goto, At, histVars
  <2>4. queue' = [queue EXCEPT ![frame[h].id] = Tail(queue[frame[h].id])]
    BY <1>11 DEF DrainNext
  <2>5. QED
    BY <1>2, <2>1, <2>2, <2>3, <2>4 DEF Takes, OthersStay
<1>12. ASSUME NEW h \in Msg,
              \/ \E p \in Process : AgentLaunched(h, p)
              \/ AgentBusy(h) \/ Persist(h) \/ StatementFails(h) \/ BuildUserInput(h)
              \/ StreamClosed(h) \/ StreamFinal(h) \/ AskQuestion(h) \/ DrainEmpty(h)
       PROVE  Quiet
  <2>1. ASSUME NEW p \in Process, AgentLaunched(h, p) PROVE Quiet
    BY <1>1, <2>1 DEF AgentLaunched, Quiet, GoesOn, Goto, At, memVars, Given, InHand, Label, Frame
  <2>2. CASE ~ \E p \in Process : AgentLaunched(h, p)
    BY <1>1, <1>12, <2>2
       DEF AgentBusy, Persist, StatementFails, BuildUserInput, StreamClosed, StreamFinal,
           AskQuestion, DrainEmpty, Quiet, GoesOn, Goto, At, Return, NoFrame, memVars, histVars,
           Given, InHand, Label
  <2>3. QED
    BY <2>1, <2>2
<1>13. ASSUME NEW h \in NewCmd, NewCleans(h) PROVE \E s \in Session : Clears(s)
  <2>1. frame[h].id \in Session /\ h \notin Msg /\ h \in Handler
    BY <1>1, <1>13, RouterConstants DEF NewCleans, At, HandlerInv, FrameOK, Handler
  <2>2. Clears(frame[h].id)
    BY <1>1, <1>13, <2>1 DEF NewCleans, Clears, Goto
  <2>3. QED
    BY <2>1, <2>2
<1>14. ASSUME NEW h \in Handler \ Msg,
              \/ HandleWorkerMessage(h) \/ SessionNotFound(h) \/ StopStep(h)
              \/ NewStep(h) /\ ~ NewCleans(h)
       PROVE  Quiet
  <2>1. UNCHANGED <<queue, outcome, input>>
    BY <1>14
       DEF HandleWorkerMessage, SessionNotFound, StopStep, StopInterrupts, StopFindsNothing,
           StopSetsFlag, NewStep, NewInterrupts, NewClearsFlag, NewReleases, NewMarksSleeped,
           NewCreates, NewBinds, NewFails, StatementFails, memVars, histVars
  <2>2. \A g \in Msg : pc'[g] = pc[g] /\ frame'[g] = frame[g]
    BY <1>1, <1>14
       DEF HandleWorkerMessage, SessionNotFound, StopStep, StopInterrupts, StopFindsNothing,
           StopSetsFlag, NewStep, NewInterrupts, NewClearsFlag, NewReleases, NewMarksSleeped,
           NewCreates, NewBinds, NewFails, StatementFails, Goto, Return
  <2>3. QED
    BY <2>1, <2>2 DEF Quiet, GoesOn
<1>15. ASSUME NEW p \in Process, ProcessMoves(p) PROVE Quiet
  BY <1>15 DEF ProcessMoves, Quiet, GoesOn, memVars, histVars
<1>16. CASE UNCHANGED vars
  BY <1>16 DEF vars, Quiet, GoesOn, memVars, histVars
<1>17. QED
  <2>1. ASSUME NEW h \in Msg, MsgStep(h) \/ AgentOutput(h) PROVE Goal
    BY <1>6, <1>7, <1>8, <1>9, <1>10, <1>11, <1>12, <2>1 DEF MsgStep, AgentOutput, SettledHow
  <2>2. ASSUME NEW h \in Handler, HandleWorkerMessage(h) \/ SessionNotFound(h) PROVE Goal
    BY <1>4, <1>5, <1>14, <2>2
  <2>3. ASSUME NEW h \in StopCmd, StopStep(h) PROVE Goal
    BY <1>14, <2>3, RouterConstants DEF Handler
  <2>4. ASSUME NEW h \in NewCmd, NewStep(h) PROVE Goal
    BY <1>13, <1>14, <2>4, RouterConstants DEF Handler
  <2>5. QED
    BY <1>15, <1>16, <2>1, <2>2, <2>3, <2>4 DEF Next
-----------------------------------------------------------------------------
(***************************************************************************)
(* RunAtMostOnce is not inductive: it needs that the message about to be   *)
(* sent was never sent, hence that a message is in ONE place and that only *)
(* a goroutine past Send has a message that was sent.  The four other      *)
(* parts say so: a message that has not come in is nowhere, one in hand is *)
(* in one goroutine's hands and not in a queue, one that waits was never   *)
(* sent, and it waits at one position.                                     *)
(***************************************************************************)
Waits(m) == \E s \in Session : Contains(queue[s], m)
Sent(m) == \E p \in Process : input[p] = m
Held(h, m) == pc[h] \in InHand /\ frame[h].msg = m

IdleIsNowhere ==
  \A m \in Msg : pc[m] = "idle" =>
    outcome[m] = "none" /\ ~ Waits(m) /\ ~ Sent(m) /\ \A h \in Msg : ~ Held(h, m)

HeldIsOnlyHeld ==
  \A h, m \in Msg : Held(h, m) =>
    /\ outcome[m] = "none" /\ ~ Waits(m)
    /\ pc[h] \notin Given => ~ Sent(m)
    /\ \A g \in Msg : Held(g, m) => g = h

WaitingIsUnsent == \A m \in Msg : Waits(m) => outcome[m] = "none" /\ ~ Sent(m)

OnePosition ==
  \A s, t \in Session : \A i \in 1..Len(queue[s]), j \in 1..Len(queue[t]) :
    queue[s][i] = queue[t][j] => s = t /\ i = j

PlaceInv ==
  IdleIsNowhere /\ HeldIsOnlyHeld /\ WaitingIsUnsent /\ OnePosition /\ RunAtMostOnce

-----------------------------------------------------------------------------
(* Who waits after a step that changes a queue.                             *)

\* A message queued waits, the others as before.
LEMMA WaitsAfterQueues ==
  ASSUME queue \in [Session -> Seq(Msg)], NEW h \in Msg, NEW s \in Session, Queues(h, s),
         NEW m \in Msg, m = frame[h].msg
  PROVE  Waits(m)' /\ \A n \in Msg \ {m} : Waits(n)' = Waits(n)
<1>1. /\ queue[s] \in Seq(Msg) /\ queue'[s] = Append(queue[s], m)
      /\ \A t \in Session \ {s} : queue'[t] = queue[t]
  BY DEF Queues
<1>2. \A n \in Msg : Contains(queue[s], n)' <=> Contains(queue[s], n) \/ n = m
  <2>1. /\ Len(queue'[s]) = Len(queue[s]) + 1 /\ Len(queue[s]) \in Nat
        /\ \A i \in 1..Len(queue[s]) : queue'[s][i] = queue[s][i]
        /\ queue'[s][Len(queue[s]) + 1] = m
    BY <1>1
  <2>2. \A i \in 1..Len(queue'[s]) : i \in 1..Len(queue[s]) \/ i = Len(queue[s]) + 1
    BY <2>1
  <2>3. /\ 1..Len(queue[s]) \subseteq 1..Len(queue'[s])
        /\ Len(queue[s]) + 1 \in 1..Len(queue'[s])
    BY <2>1
  <2>4. QED
    BY <2>1, <2>2, <2>3 DEF Contains
<1>3. \A n \in Msg, t \in Session \ {s} : Contains(queue[t], n)' = Contains(queue[t], n)
  BY <1>1 DEF Contains
<1>4. QED
  BY <1>2, <1>3 DEF Waits

\* The message taken waited, and the others wait as before.
LEMMA WaitsAfterTakes ==
  ASSUME queue \in [Session -> Seq(Msg)], NEW h \in Msg, NEW s \in Session, Takes(h, s),
         NEW m \in Msg, m = Head(queue[s])
  PROVE  Waits(m) /\ \A n \in Msg \ {m} : Waits(n)' = Waits(n)
<1>1. /\ queue[s] \in Seq(Msg) /\ queue[s] # <<>> /\ queue'[s] = Tail(queue[s])
      /\ \A t \in Session \ {s} : queue'[t] = queue[t]
  BY DEF Takes
<1>2. /\ m = queue[s][1] /\ Len(queue[s]) \in Nat \ {0}
      /\ Len(Tail(queue[s])) = Len(queue[s]) - 1
      /\ \A i \in 1..Len(queue[s]) - 1 : Tail(queue[s])[i] = queue[s][i + 1]
  BY <1>1
<1>3. ASSUME NEW n \in Msg \ {m}
      PROVE  Contains(queue[s], n)' <=> Contains(queue[s], n)
  <2>1. ASSUME NEW i \in 1..Len(queue[s]), queue[s][i] = n PROVE Contains(queue[s], n)'
    <3>1. i - 1 \in 1..Len(queue[s]) - 1 /\ (i - 1) + 1 = i
      BY <1>2, <2>1
    <3>2. Tail(queue[s])[i - 1] = queue[s][(i - 1) + 1]
      BY <1>2, <3>1
    <3>3. QED
      BY <1>1, <1>2, <2>1, <3>1, <3>2 DEF Contains
  <2>2. ASSUME NEW i \in 1..Len(queue[s]) - 1, Tail(queue[s])[i] = n
        PROVE  Contains(queue[s], n)
    <3>1. i + 1 \in 1..Len(queue[s])
      BY <1>2
    <3>2. QED
      BY <1>2, <2>2, <3>1 DEF Contains
  <2>3. QED
    BY <1>1, <1>2, <2>1, <2>2 DEF Contains
<1>4. \A n \in Msg, t \in Session \ {s} : Contains(queue[t], n)' = Contains(queue[t], n)
  BY <1>1 DEF Contains
<1>5. QED
  BY <1>2, <1>3, <1>4 DEF Waits, Contains

\* A message that is not in the queue cleared waits as before.
LEMMA WaitsAfterClears ==
  ASSUME queue \in [Session -> Seq(Msg)], NEW s \in Session, Clears(s)
  PROVE  \A m \in Msg : /\ m \in ToSet(queue[s]) <=> Contains(queue[s], m)
                        /\ m \notin ToSet(queue[s]) => Waits(m)' = Waits(m)
<1>1. queue[s] \in Seq(Msg) /\ DOMAIN queue[s] = 1..Len(queue[s])
  OBVIOUS
<1>2. \A m \in Msg : m \in ToSet(queue[s]) <=> Contains(queue[s], m)
  BY <1>1 DEF ToSet, Contains
<1>3. queue'[s] = <<>> /\ \A t \in Session \ {s} : queue'[t] = queue[t]
  BY DEF Clears
<1>4. \A m \in Msg : /\ ~ Contains(queue[s], m)'
                     /\ \A t \in Session \ {s} : Contains(queue[t], m)' = Contains(queue[t], m)
  BY <1>3 DEF Contains
<1>5. QED
  BY <1>2, <1>4 DEF Waits

-----------------------------------------------------------------------------
\* Every kind of step keeps every message in one place.
LEMMA PlaceInvStep == HandlerInv /\ PlaceInv /\ [Next]_vars => PlaceInv'
<1> SUFFICES ASSUME HandlerInv, PlaceInv, [Next]_vars PROVE PlaceInv'
  OBVIOUS
<1> DEFINE Typed == /\ pc \in [Handler -> Label] /\ Msg \subseteq Handler
                    /\ queue \in [Session -> Seq(Msg)]
                    /\ input \in [Process -> Msg \cup {None}]
                    /\ outcome \in [Msg -> Outcome]
                    /\ None \notin Msg
<1>1. Typed
  BY RouterConstants DEF HandlerInv, HandlerTypeOK, Handler
<1>2. \A h \in Msg : pc[h] \in InHand => frame[h].msg \in Msg
  BY <1>1 DEF HandlerInv, FrameOK, InHand
<1>3. CASE Quiet
  <2>1. \A m \in Msg : Waits(m)' = Waits(m) /\ Sent(m)' = Sent(m)
    BY <1>3 DEF Quiet, Waits, Sent
  <2>2. \A h, m \in Msg : Held(h, m)' => Held(h, m) /\ (pc[h] \in Given => pc'[h] \in Given)
    BY <1>3 DEF Quiet, GoesOn, Held, InHand, Given, Label
  <2>3. \A h \in Msg : pc'[h] = "idle" => pc[h] = "idle"
    BY <1>3 DEF Quiet, GoesOn, InHand
  <2>4. outcome' = outcome /\ queue' = queue /\ input' = input
    BY <1>3 DEF Quiet
  <2>5. IdleIsNowhere' /\ HeldIsOnlyHeld' /\ WaitingIsUnsent'
    BY <2>1, <2>2, <2>3, <2>4
       DEF PlaceInv, IdleIsNowhere, HeldIsOnlyHeld, WaitingIsUnsent
  <2>6. OnePosition' /\ RunAtMostOnce'
    BY <2>4 DEF PlaceInv, OnePosition, RunAtMostOnce
  <2>7. QED
    BY <2>5, <2>6 DEF PlaceInv
<1>4. ASSUME NEW h \in Msg, Arrives(h) PROVE PlaceInv'
  <2>1. \A m \in Msg : Waits(m)' = Waits(m) /\ Sent(m)' = Sent(m)
    BY <1>4 DEF Arrives, Waits, Sent
  <2>2. \A g, m \in Msg : Held(g, m)' <=> (IF g = h THEN m = h ELSE Held(g, m))
    BY <1>4 DEF Arrives, OthersStay, Held, InHand, Label
  <2>3. \A g \in Msg : g # h => pc'[g] = pc[g]
    BY <1>4 DEF Arrives, OthersStay
  <2>4. /\ outcome' = outcome /\ queue' = queue /\ input' = input
        /\ pc[h] = "idle" /\ pc'[h] = "launch"
    BY <1>4 DEF Arrives
  <2>5. IdleIsNowhere' /\ HeldIsOnlyHeld' /\ WaitingIsUnsent'
    BY <2>1, <2>2, <2>3, <2>4
       DEF PlaceInv, IdleIsNowhere, HeldIsOnlyHeld, WaitingIsUnsent, Given
  <2>6. OnePosition' /\ RunAtMostOnce'
    BY <2>4 DEF PlaceInv, OnePosition, RunAtMostOnce
  <2>7. QED
    BY <2>5, <2>6 DEF PlaceInv
<1>5. ASSUME NEW h \in Msg, NEW m \in Msg, NEW how \in SettledHow,
             outcome' = [outcome EXCEPT ![m] = how], UNCHANGED <<queue, input>>,
             ~ Waits(m), how = "refused" => ~ Sent(m), pc'[h] # "idle", pc'[m] # "idle",
             \A g \in Msg \ {h} : pc'[g] = pc[g] /\ frame'[g].msg = frame[g].msg,
             \A g \in Msg : ~ Held(g, m)', \A n \in Msg : ~ Held(h, n)'
      PROVE  PlaceInv'
  <2>1. \A n \in Msg : Waits(n)' = Waits(n) /\ Sent(n)' = Sent(n)
    BY <1>5 DEF Waits, Sent
  <2>2. \A n \in Msg : n # m => outcome'[n] = outcome[n]
    BY <1>1, <1>5
  <2>3. \A g, n \in Msg : Held(g, n)' => g # h /\ n # m /\ Held(g, n) /\ pc'[g] = pc[g]
    BY <1>5 DEF Held
  <2>4. IdleIsNowhere' /\ HeldIsOnlyHeld' /\ WaitingIsUnsent'
    BY <1>5, <2>1, <2>2, <2>3 DEF PlaceInv, IdleIsNowhere, HeldIsOnlyHeld, WaitingIsUnsent
  <2>5. OnePosition'
    BY <1>5 DEF PlaceInv, OnePosition
  <2>6. RunAtMostOnce'
    BY <1>1, <1>5, <2>2 DEF PlaceInv, RunAtMostOnce, Sent, SettledHow
  <2>7. QED
    BY <2>4, <2>5, <2>6 DEF PlaceInv
<1>6. ASSUME NEW h \in Msg, Refused(h) PROVE PlaceInv'
  <2>1. \A g \in Msg : ~ Held(g, h)'
    BY <1>6 DEF Refused, OthersStay, Held, InHand, PlaceInv, IdleIsNowhere
  <2>2. QED
    BY <1>5, <1>6, <2>1
       DEF Refused, OthersStay, PlaceInv, IdleIsNowhere, SettledHow, Held, InHand
<1>7. ASSUME NEW h \in Msg, NEW how \in SettledHow, Settles(h, how) PROVE PlaceInv'
  <2>1. PICK m \in Msg : m = frame[h].msg /\ Held(h, m)
    BY <1>2, <1>7 DEF Settles, Held
  <2>2. /\ ~ Waits(m) /\ (pc[h] \notin Given => ~ Sent(m)) /\ pc[m] # "idle"
        /\ \A g \in Msg : Held(g, m) => g = h
    BY <2>1 DEF PlaceInv, HeldIsOnlyHeld, IdleIsNowhere
  <2>3. pc'[h] \in {"end", "ask", "drain"} /\ \A n \in Msg : ~ Held(h, n)'
    BY <1>7 DEF Settles, Held, InHand
  <2>4. \A g \in Msg : ~ Held(g, m)'
    BY <1>7, <2>2, <2>3 DEF Settles, OthersStay, Held
  <2>5. pc'[m] # "idle"
    BY <1>7, <2>1, <2>2, <2>3 DEF Settles, OthersStay
  <2>6. QED
    BY <1>5, <1>7, <2>1, <2>2, <2>3, <2>4, <2>5 DEF Settles, OthersStay
<1>8. ASSUME NEW h \in Msg, NEW p \in Process, Sends(h, p) PROVE PlaceInv'
  <2> DEFINE m == frame[h].msg
  <2>1. m \in Msg /\ Held(h, m) /\ pc[h] \notin Given
    BY <1>2, <1>8 DEF Sends, Held, InHand, Label, Given
  <2>2. /\ outcome[m] = "none" /\ ~ Waits(m) /\ ~ Sent(m) /\ pc[m] # "idle"
        /\ \A g \in Msg : Held(g, m) => g = h
    BY <2>1 DEF PlaceInv, HeldIsOnlyHeld, IdleIsNowhere
  <2>3. /\ input' = [input EXCEPT ![p] = m] /\ UNCHANGED <<queue, outcome>>
        /\ pc'[h] = "stream" /\ frame'[h].msg = m /\ pc[h] = "send"
        /\ \A g \in Msg \ {h} : pc'[g] = pc[g] /\ frame'[g].msg = frame[g].msg
    BY <1>8 DEF Sends, OthersStay
  <2> HIDE DEF m
  <2>4. \A n \in Msg : Waits(n)' = Waits(n) /\ (Sent(n)' => Sent(n) \/ n = m)
    BY <1>1, <2>3 DEF Waits, Sent
  <2>5. \A g, n \in Msg : Held(g, n)' => Held(g, n)
    BY <2>1, <2>3 DEF Held
  <2>6. IdleIsNowhere'
    BY <2>1, <2>2, <2>3, <2>4, <2>5 DEF PlaceInv, IdleIsNowhere
  <2>7. HeldIsOnlyHeld'
    BY <2>1, <2>2, <2>3, <2>4, <2>5 DEF PlaceInv, HeldIsOnlyHeld, Given
  <2>8. WaitingIsUnsent'
    BY <2>1, <2>2, <2>3, <2>4 DEF PlaceInv, WaitingIsUnsent
  <2>9. OnePosition'
    BY <2>3 DEF PlaceInv, OnePosition
  <2>10. RunAtMostOnce'
    BY <1>1, <2>1, <2>2, <2>3 DEF PlaceInv, RunAtMostOnce, Sent
  <2>11. QED
    BY <2>6, <2>7, <2>8, <2>9, <2>10 DEF PlaceInv
<1>9. ASSUME NEW h \in Msg, NEW s \in Session, Queues(h, s) PROVE PlaceInv'
  <2> DEFINE m == frame[h].msg
  <2>1. m \in Msg /\ Held(h, m) /\ pc[h] \notin Given
    BY <1>2, <1>9 DEF Queues, Held, InHand, Label, Given
  <2>2. /\ outcome[m] = "none" /\ ~ Waits(m) /\ ~ Sent(m) /\ pc[m] # "idle"
        /\ \A g \in Msg : Held(g, m) => g = h
    BY <2>1 DEF PlaceInv, HeldIsOnlyHeld, IdleIsNowhere
  <2>3. /\ queue' = [queue EXCEPT ![s] = Append(queue[s], m)] /\ UNCHANGED <<outcome, input>>
        /\ pc'[h] = "end"
        /\ \A g \in Msg \ {h} : pc'[g] = pc[g] /\ frame'[g].msg = frame[g].msg
    BY <1>9 DEF Queues, OthersStay
  <2> HIDE DEF m
  <2>4. /\ queue[s] \in Seq(Msg) /\ queue'[s] = Append(queue[s], m)
        /\ \A t \in Session \ {s} : queue'[t] = queue[t]
    BY <1>1, <2>3
  <2>5. /\ Len(queue'[s]) = Len(queue[s]) + 1
        /\ \A i \in 1..Len(queue[s]) : queue'[s][i] = queue[s][i]
        /\ queue'[s][Len(queue[s]) + 1] = m
    BY <2>1, <2>4
  <2>6. \A n \in Msg : (Waits(n)' => Waits(n) \/ n = m) /\ Sent(n)' = Sent(n)
    BY <2>3, <2>4, <2>5 DEF Waits, Contains, Sent
  <2>7. \A g, n \in Msg : Held(g, n)' => Held(g, n) /\ g # h /\ pc'[g] = pc[g] /\ n # m
    BY <2>2, <2>3 DEF Held, InHand
  <2>8. IdleIsNowhere'
    BY <2>1, <2>2, <2>3, <2>6, <2>7 DEF PlaceInv, IdleIsNowhere
  <2>9. HeldIsOnlyHeld'
    BY <2>3, <2>6, <2>7 DEF PlaceInv, HeldIsOnlyHeld
  <2>10. WaitingIsUnsent'
    BY <2>2, <2>3, <2>6 DEF PlaceInv, WaitingIsUnsent
  <2>11. OnePosition'
    <3>1. \A t \in Session : \A i \in 1..Len(queue[t]) : queue[t][i] # m
      BY <2>2 DEF Waits, Contains
    <3>2. SUFFICES ASSUME NEW a \in Session, NEW b \in Session,
                          NEW i \in 1..Len(queue'[a]), NEW j \in 1..Len(queue'[b]),
                          queue'[a][i] = queue'[b][j]
                   PROVE  a = b /\ i = j
      BY DEF OnePosition
    <3>3. \A c \in Session : \A k \in 1..Len(queue'[c]) :
            IF c = s /\ k = Len(queue[s]) + 1
              THEN queue'[c][k] = m
              ELSE k \in 1..Len(queue[c]) /\ queue'[c][k] = queue[c][k]
      <4>1. Len(queue[s]) \in Nat
        BY <2>4
      <4>2. \A k \in 1..Len(queue'[s]) : k # Len(queue[s]) + 1 => k \in 1..Len(queue[s])
        BY <2>5, <4>1
      <4>3. QED
        BY <2>4, <2>5, <4>1, <4>2
    <3>4. CASE a = s /\ i = Len(queue[s]) + 1
      <4>1. queue'[a][i] = m
        BY <3>3, <3>4
      <4>2. queue'[b][j] = m
        BY <3>2, <4>1
      <4>3. b = s /\ j = Len(queue[s]) + 1
        BY <3>1, <3>3, <4>2
      <4>4. QED
        BY <3>4, <4>3
    <3>5. CASE ~ (a = s /\ i = Len(queue[s]) + 1)
      <4>1. i \in 1..Len(queue[a]) /\ queue'[a][i] = queue[a][i]
        BY <3>3, <3>5
      <4>2. queue'[b][j] # m
        BY <3>1, <3>2, <4>1
      <4>3. j \in 1..Len(queue[b]) /\ queue'[b][j] = queue[b][j]
        BY <3>3, <4>2
      <4>4. queue[a][i] = queue[b][j]
        BY <3>2, <4>1, <4>3
      <4>5. QED
        BY <4>1, <4>3, <4>4 DEF PlaceInv, OnePosition
    <3>6. QED
      BY <3>4, <3>5
  <2>12. RunAtMostOnce'
    BY <2>3 DEF PlaceInv, RunAtMostOnce
  <2>13. QED
    BY <2>8, <2>9, <2>10, <2>11, <2>12 DEF PlaceInv
<1>10. ASSUME NEW h \in Msg, NEW s \in Session, Takes(h, s) PROVE PlaceInv'
  <2> DEFINE m == Head(queue[s])
  <2>1. queue[s] \in Seq(Msg) /\ queue[s] # <<>>
    BY <1>1, <1>10 DEF Takes
  <2>2. /\ m \in Msg /\ m = queue[s][1] /\ Len(queue[s]) \in Nat \ {0}
        /\ Len(Tail(queue[s])) = Len(queue[s]) - 1
        /\ \A i \in 1..Len(queue[s]) - 1 : Tail(queue[s])[i] = queue[s][i + 1]
    BY <2>1
  <2>3. /\ queue'[s] = Tail(queue[s]) /\ \A t \in Session \ {s} : queue'[t] = queue[t]
        /\ UNCHANGED <<outcome, input>>
        /\ pc[h] = "drain" /\ pc'[h] = "launch" /\ frame'[h].msg = m
        /\ \A g \in Msg \ {h} : pc'[g] = pc[g] /\ frame'[g].msg = frame[g].msg
    BY <1>1, <1>10 DEF Takes, OthersStay
  <2>4. Waits(m)
    BY <2>2 DEF Waits, Contains
  <2> HIDE DEF m
  <2>5. \A n \in Msg : (Waits(n)' => Waits(n) /\ n # m) /\ Sent(n)' = Sent(n)
    <3>1. ASSUME NEW t \in Session, NEW i \in 1..Len(queue'[t])
          PROVE  \E j \in 1..Len(queue[t]) : queue[t][j] = queue'[t][i] /\ queue'[t][i] # m
      <4>1. CASE t = s
        <5>0. i \in 1..Len(queue[s]) - 1
          BY <2>2, <2>3, <4>1
        <5>1. i + 1 \in 1..Len(queue[s]) /\ queue'[s][i] = queue[s][i + 1] /\ i + 1 # 1
          BY <2>2, <2>3, <5>0
        <5>2. 1 \in 1..Len(queue[s])
          BY <2>2
        <5>3. QED
          BY <2>2, <4>1, <5>1, <5>2 DEF PlaceInv, OnePosition
      <4>2. CASE t # s
        BY <1>1, <2>2, <2>3, <3>1, <4>2 DEF PlaceInv, OnePosition
      <4>3. QED
        BY <4>1, <4>2
    <3>2. QED
      BY <2>3, <3>1 DEF Waits, Contains, Sent
  <2>6. /\ outcome[m] = "none" /\ ~ Sent(m) /\ pc[m] # "idle"
        /\ \A g \in Msg : ~ Held(g, m)
    BY <2>2, <2>4 DEF PlaceInv, WaitingIsUnsent, HeldIsOnlyHeld, IdleIsNowhere
  <2>7. \A g, n \in Msg : Held(g, n)' => IF g = h THEN n = m ELSE Held(g, n)
    BY <2>3 DEF Held
  <2>8. IdleIsNowhere'
    BY <2>2, <2>3, <2>5, <2>6, <2>7 DEF PlaceInv, IdleIsNowhere
  <2>9. HeldIsOnlyHeld'
    BY <2>2, <2>3, <2>5, <2>6, <2>7 DEF PlaceInv, HeldIsOnlyHeld
  <2>10. WaitingIsUnsent'
    BY <2>3, <2>5 DEF PlaceInv, WaitingIsUnsent
  <2>11. OnePosition'
    <3>1. \A i \in 1..Len(queue'[s]) :
            i \in Nat /\ i + 1 \in 1..Len(queue[s]) /\ queue'[s][i] = queue[s][i + 1]
      <4>1. Len(queue'[s]) = Len(queue[s]) - 1
        BY <2>2, <2>3
      <4>2. QED
        BY <2>2, <2>3, <4>1
    <3>2. SUFFICES ASSUME NEW a \in Session, NEW b \in Session,
                          NEW i \in 1..Len(queue'[a]), NEW j \in 1..Len(queue'[b]),
                          queue'[a][i] = queue'[b][j]
                   PROVE  a = b /\ i = j
      BY DEF OnePosition
    <3>3. \A c \in Session \ {s} : queue'[c] = queue[c]
      BY <2>3
    <3>4. CASE a = s /\ b = s
      <4>1. /\ i \in Nat /\ i + 1 \in 1..Len(queue[s]) /\ queue'[s][i] = queue[s][i + 1]
            /\ j \in Nat /\ j + 1 \in 1..Len(queue[s]) /\ queue'[s][j] = queue[s][j + 1]
        BY <3>1, <3>4
      <4>2. queue[s][i + 1] = queue[s][j + 1]
        BY <3>2, <3>4, <4>1
      <4>3. i + 1 = j + 1
        BY <4>1, <4>2 DEF PlaceInv, OnePosition
      <4>4. QED
        BY <3>4, <4>1, <4>3
    <3>5. CASE a # s /\ b = s
      <4>1. j + 1 \in 1..Len(queue[s]) /\ queue'[s][j] = queue[s][j + 1]
        BY <3>1, <3>5
      <4>2. i \in 1..Len(queue[a]) /\ queue'[a][i] = queue[a][i]
        BY <3>3, <3>5
      <4>3. queue[a][i] = queue[s][j + 1]
        BY <3>2, <3>5, <4>1, <4>2
      <4>4. QED
        BY <3>5, <4>1, <4>2, <4>3 DEF PlaceInv, OnePosition
    <3>6. CASE a = s /\ b # s
      <4>1. i + 1 \in 1..Len(queue[s]) /\ queue'[s][i] = queue[s][i + 1]
        BY <3>1, <3>6
      <4>2. j \in 1..Len(queue[b]) /\ queue'[b][j] = queue[b][j]
        BY <3>3, <3>6
      <4>3. queue[b][j] = queue[s][i + 1]
        BY <3>2, <3>6, <4>1, <4>2
      <4>4. QED
        BY <3>6, <4>1, <4>2, <4>3 DEF PlaceInv, OnePosition
    <3>7. CASE a # s /\ b # s
      BY <3>2, <3>3, <3>7 DEF PlaceInv, OnePosition
    <3>8. QED
      BY <3>4, <3>5, <3>6, <3>7
  <2>12. RunAtMostOnce'
    BY <2>3 DEF PlaceInv, RunAtMostOnce
  <2>13. QED
    BY <2>8, <2>9, <2>10, <2>11, <2>12 DEF PlaceInv
<1>11. ASSUME NEW s \in Session, Clears(s) PROVE PlaceInv'
  <2>1. /\ queue'[s] = <<>> /\ \A t \in Session \ {s} : queue'[t] = queue[t]
        /\ input' = input
        /\ \A h \in Msg : pc'[h] = pc[h] /\ frame'[h].msg = frame[h].msg
    BY <1>1, <1>11 DEF Clears
  <2>2. \A m \in Msg : IF Contains(queue[s], m) THEN outcome'[m] = "dropped"
                                                ELSE outcome'[m] = outcome[m]
    <3>1. \A m \in Msg : m \in ToSet(queue[s]) <=> Contains(queue[s], m)
      <4>1. queue[s] \in Seq(Msg) /\ DOMAIN queue[s] = 1..Len(queue[s])
        BY <1>1
      <4>2. QED
        BY <4>1 DEF ToSet, Contains
    <3>2. QED
      BY <1>1, <1>11, <3>1 DEF Clears
  <2>3. \A m \in Msg : /\ Waits(m)' => Waits(m) /\ ~ Contains(queue[s], m)
                       /\ Sent(m)' = Sent(m)
                       /\ Contains(queue[s], m) => Waits(m)
    BY <2>1 DEF PlaceInv, OnePosition, Waits, Contains, Sent
  <2>4. \A h, m \in Msg : Held(h, m)' = Held(h, m)
    BY <2>1 DEF Held
  <2>5. IdleIsNowhere' /\ HeldIsOnlyHeld' /\ WaitingIsUnsent'
    BY <2>1, <2>2, <2>3, <2>4 DEF PlaceInv, IdleIsNowhere, HeldIsOnlyHeld, WaitingIsUnsent
  <2>6. OnePosition'
    BY <2>1 DEF PlaceInv, OnePosition
  <2>7. RunAtMostOnce'
    BY <1>1, <2>1, <2>2, <2>3 DEF PlaceInv, RunAtMostOnce, WaitingIsUnsent, Sent
  <2>8. QED
    BY <2>5, <2>6, <2>7 DEF PlaceInv
<1>12. QED
  BY StepKinds, <1>3, <1>4, <1>6, <1>7, <1>8, <1>9, <1>10, <1>11
\* Every message is in one place in every reachable state.
LEMMA PlaceInvHolds == Spec => []PlaceInv
<1>1. Init => PlaceInv
  <2>1. Init => /\ \A h \in Msg : pc[h] = "idle"
                /\ \A m \in Msg : outcome[m] = "none"
                /\ \A s \in Session : queue[s] = <<>>
                /\ \A p \in Process : input[p] = None
    BY DEF Init, Handler
  <2>2. QED
    BY <2>1, RouterConstants
       DEF PlaceInv, IdleIsNowhere, HeldIsOnlyHeld, WaitingIsUnsent, OnePosition, RunAtMostOnce,
           Waits, Sent, Held, Contains, InHand, Handler
<1>2. QED
  BY <1>1, PlaceInvStep, HandlerInvHolds, PTL DEF Spec

\* No message is run twice: whatever the order of turns, drains, refusals and /new, a
\* message reaches one agent process at most, and one that the user was told was refused
\* or that /new dropped reaches none (handler.go:467, 760-797, 179-186).
THEOREM MessagesRunAtMostOnce == Spec => []RunAtMostOnce
<1>1. PlaceInv => RunAtMostOnce
  BY DEF PlaceInv
<1>2. QED
  BY <1>1, PlaceInvHolds, PTL

-----------------------------------------------------------------------------
(***************************************************************************)
(* Conserved counts: PlaceInv bounds each number by one and two of them    *)
(* from being one at once.  What is left is that no message is nowhere.    *)
(***************************************************************************)
NoneIsLost ==
  /\ \A h \in Msg : pc[h] \in {"idle", "end"} => frame[h].msg = None
  /\ \A m \in Msg : pc[m] # "idle" /\ outcome[m] = "none" =>
       Waits(m) \/ \E h \in Msg : Held(h, m)

\* Every kind of step that takes a message from a place puts it in another.
LEMMA NoneIsLostStep == HandlerInv /\ NoneIsLost /\ [Next]_vars => NoneIsLost'
<1> SUFFICES ASSUME HandlerInv, NoneIsLost, [Next]_vars PROVE NoneIsLost'
  OBVIOUS
<1>1. /\ queue \in [Session -> Seq(Msg)] /\ outcome \in [Msg -> Outcome]
      /\ pc \in [Handler -> Label] /\ Msg \subseteq Handler
  BY DEF HandlerInv, HandlerTypeOK, Handler
<1>2. \A h \in Msg : pc[h] \in InHand => frame[h].msg \in Msg
  BY <1>1 DEF HandlerInv, FrameOK, InHand
<1>3. CASE Quiet
  <2>1. \A m \in Msg : Waits(m)' = Waits(m) /\ outcome'[m] = outcome[m]
    BY <1>3 DEF Quiet, Waits
  <2>2. \A h, m \in Msg : Held(h, m) => Held(h, m)'
    BY <1>3 DEF Quiet, GoesOn, Held, InHand
  <2>3. \A h \in Msg : /\ pc'[h] = "idle" <=> pc[h] = "idle"
                       /\ pc'[h] \in {"idle", "end"} =>
                            frame'[h].msg = None \/ (pc'[h] = pc[h] /\ frame'[h].msg = frame[h].msg)
    BY <1>3 DEF Quiet, GoesOn, InHand
  <2>4. QED
    BY <2>1, <2>2, <2>3 DEF NoneIsLost
<1>4. ASSUME NEW h \in Msg, Arrives(h) \/ Refused(h) PROVE NoneIsLost'
  <2>1. \A g \in Msg \ {h} : pc'[g] = pc[g] /\ frame'[g].msg = frame[g].msg
    BY <1>4 DEF Arrives, Refused, OthersStay
  <2>2. \A m \in Msg : /\ Waits(m)' = Waits(m) /\ ~ Held(h, m)
                       /\ m # h => outcome'[m] = outcome[m]
    BY <1>1, <1>4 DEF Arrives, Refused, Waits, Held, InHand
  <2>3. Held(h, h)' \/ outcome'[h] # "none"
    BY <1>1, <1>4 DEF Arrives, Refused, Held, InHand, Label
  <2>4. pc'[h] \in {"idle", "end"} => frame'[h].msg = None
    BY <1>4 DEF Arrives, Refused
  <2>5. QED
    BY <2>1, <2>2, <2>3, <2>4 DEF NoneIsLost, Held
<1>5. ASSUME NEW h \in Msg, NEW how \in SettledHow, Settles(h, how) PROVE NoneIsLost'
  <2>1. \A g \in Msg \ {h} : pc'[g] = pc[g] /\ frame'[g].msg = frame[g].msg
    BY <1>5 DEF Settles, OthersStay
  <2>2. frame[h].msg \in Msg /\ how # "none" /\ pc[h] # "idle" /\ pc'[h] # "idle"
    BY <1>2, <1>5 DEF Settles, SettledHow, InHand
  <2>3. \A m \in Msg : /\ Waits(m)' = Waits(m)
                       /\ outcome'[m] = IF m = frame[h].msg THEN how ELSE outcome[m]
    BY <1>1, <1>5, <2>2 DEF Settles, Waits
  <2>4. pc'[h] = "end" => frame'[h].msg = None
    BY <1>5 DEF Settles
  <2>5. QED
    BY <2>1, <2>2, <2>3, <2>4 DEF NoneIsLost, Held
<1>6. ASSUME NEW h \in Msg, NEW p \in Process, Sends(h, p) PROVE NoneIsLost'
  <2>1. \A m, g \in Msg : Waits(m)' = Waits(m) /\ Held(g, m)' = Held(g, m)
    BY <1>6 DEF Sends, OthersStay, Waits, Held, InHand, Label
  <2>2. QED
    BY <1>6, <2>1 DEF NoneIsLost, Sends, OthersStay
<1>7. ASSUME NEW h \in Msg, NEW s \in Session, Queues(h, s) PROVE NoneIsLost'
  <2>1. PICK m \in Msg : m = frame[h].msg
    BY <1>2, <1>7 DEF Queues, InHand, Label
  <2>2. Waits(m)' /\ \A n \in Msg \ {m} : Waits(n)' = Waits(n)
    BY <1>1, <1>7, <2>1, WaitsAfterQueues
  <2>3. \A g, n \in Msg : n # m /\ Held(g, n) => Held(g, n)'
    BY <1>7, <2>1 DEF Queues, OthersStay, Held
  <2>4. QED
    BY <1>7, <2>2, <2>3 DEF NoneIsLost, Queues, OthersStay
<1>8. ASSUME NEW h \in Msg, NEW s \in Session, Takes(h, s) PROVE NoneIsLost'
  <2>1. PICK m \in Msg : m = Head(queue[s])
    <3>1. queue[s] \in Seq(Msg) /\ queue[s] # <<>>
      BY <1>1, <1>8 DEF Takes
    <3>2. QED
      BY <3>1
  <2>2. Held(h, m)' /\ \A n \in Msg \ {m} : Waits(n)' = Waits(n)
    BY <1>1, <1>8, <2>1, WaitsAfterTakes DEF Takes, Held, InHand, Label
  <2>3. \A g, n \in Msg : Held(g, n) => Held(g, n)'
    BY <1>8 DEF Takes, OthersStay, Held, InHand
  <2>4. QED
    BY <1>8, <2>2, <2>3 DEF NoneIsLost, Takes, OthersStay
<1>9. ASSUME NEW s \in Session, Clears(s) PROVE NoneIsLost'
  <2>1. \A m \in Msg : IF m \in ToSet(queue[s]) THEN outcome'[m] = "dropped"
                       ELSE outcome'[m] = outcome[m] /\ Waits(m)' = Waits(m)
    BY <1>1, <1>9, WaitsAfterClears DEF Clears
  <2>2. \A g, m \in Msg : Held(g, m)' = Held(g, m)
    BY <1>9 DEF Clears, Held
  <2>3. QED
    BY <1>9, <2>1, <2>2 DEF NoneIsLost, Clears
<1>10. QED
  BY StepKinds, <1>3, <1>4, <1>5, <1>6, <1>7, <1>8, <1>9

\* Read as numbers, the invariants are Conserved.
LEMMA PlacesAreCounted == HandlerInv /\ PlaceInv /\ NoneIsLost => Conserved
<1> SUFFICES ASSUME HandlerInv, PlaceInv, NoneIsLost, NEW m \in Msg
             PROVE  Cardinality(Holders(m)) + Cardinality(Places(m))
                      + (IF outcome[m] = "none" THEN 0 ELSE 1) = (IF At(m, "idle") THEN 0 ELSE 1)
  BY DEF Conserved
<1>1. queue \in [Session -> Seq(Msg)] /\ pc \in [Handler -> Label] /\ Msg \subseteq Handler
  BY DEF HandlerInv, HandlerTypeOK, Handler
<1>2. Holders(m) = {h \in Msg : Held(h, m)}
  BY <1>1, RouterConstants DEF Holders, Held, InHand, NoneIsLost, Handler
<1>3. \A x : x \in Places(m) <=>
        \E s \in Session : \E i \in 1..Len(queue[s]) : queue[s][i] = m /\ x = <<s, i>>
  <2>1. \A s \in Session : DOMAIN queue[s] = 1..Len(queue[s])
    BY <1>1
  <2>2. QED
    BY <2>1 DEF Places
<1>4. Places(m) = {} <=> ~ Waits(m)
  BY <1>3 DEF Waits, Contains
<1>5. CASE \E h \in Msg : Held(h, m)
  <2>1. PICK h \in Msg : Held(h, m)
    BY <1>5
  <2>2. Holders(m) = {h} /\ Places(m) = {} /\ outcome[m] = "none" /\ ~ At(m, "idle")
    BY <1>2, <1>4, <2>1 DEF PlaceInv, HeldIsOnlyHeld, IdleIsNowhere, At
  <2>3. Cardinality(Holders(m)) = 1 /\ Cardinality(Places(m)) = 0
    BY <2>2, FS_Singleton, FS_EmptySet
  <2>4. QED
    BY <2>2, <2>3
<1>6. CASE Waits(m)
  <2>1. PICK s \in Session : \E i \in 1..Len(queue[s]) : queue[s][i] = m
    BY <1>6 DEF Waits, Contains
  <2>2. PICK i \in 1..Len(queue[s]) : queue[s][i] = m
    BY <2>1
  <2>3. Places(m) = {<<s, i>>}
    BY <1>3, <2>2 DEF PlaceInv, OnePosition
  <2>4. Holders(m) = {} /\ outcome[m] = "none" /\ ~ At(m, "idle")
    BY <1>2, <1>6 DEF PlaceInv, HeldIsOnlyHeld, IdleIsNowhere, WaitingIsUnsent, At
  <2>5. Cardinality(Holders(m)) = 0 /\ Cardinality(Places(m)) = 1
    BY <2>3, <2>4, FS_Singleton, FS_EmptySet
  <2>6. QED
    BY <2>4, <2>5
<1>7. CASE ~ Waits(m) /\ ~ \E h \in Msg : Held(h, m)
  <2>1. Holders(m) = {} /\ Places(m) = {}
    BY <1>2, <1>4, <1>7
  <2>2. outcome[m] = "none" <=> At(m, "idle")
    BY <1>7 DEF NoneIsLost, PlaceInv, IdleIsNowhere, At
  <2>3. Cardinality(Holders(m)) = 0 /\ Cardinality(Places(m)) = 0
    BY <2>1, FS_EmptySet
  <2>4. QED
    BY <2>2, <2>3
<1>8. QED
  BY <1>5, <1>6, <1>7

\* No message is lost silently or doubled: for any number of messages and goroutines, a
\* message that came in is in one goroutine's hands, at one position of one queue, or
\* settled (handler.go:760-797, 179-186).
THEOREM MessagesAreConserved == Spec => []Conserved
<1>1. Init => NoneIsLost
  BY DEF Init, NoneIsLost, NoFrame, Handler
<1>2. QED
  BY <1>1, NoneIsLostStep, PlacesAreCounted, HandlerInvHolds, PlaceInvHolds, PTL DEF Spec

-----------------------------------------------------------------------------
\* What the router's state is mapped to in TurnQueue, with "line <- queue".
Statuses == [m \in Msg |-> StatusOf(m)]

\* Which status a message has is read off the place it is in.
LEMMA StatusCases ==
  ASSUME PlaceInv, NEW m \in Msg
  PROVE  /\ pc[m] = "idle" => StatusOf(m) = "new"
         /\ \A h \in Msg : Held(h, m) => StatusOf(m) = "active"
         /\ Waits(m) => StatusOf(m) = "waiting"
<1> USE DEF PlaceInv, StatusOf, At, Waits
<1>1. pc[m] = "idle" => StatusOf(m) = "new"
  BY DEF IdleIsNowhere
<1>2. ASSUME NEW h \in Msg, Held(h, m) PROVE StatusOf(m) = "active"
  BY <1>2 DEF HeldIsOnlyHeld, IdleIsNowhere
<1>3. Waits(m) => StatusOf(m) = "waiting"
  BY DEF WaitingIsUnsent, IdleIsNowhere
<1>4. QED
  BY <1>1, <1>2, <1>3

\* A message that a step leaves where it is keeps its status.
LEMMA StatusKept ==
  ASSUME NEW m \in Msg, outcome'[m] = outcome[m], Waits(m)' = Waits(m),
         pc'[m] = "idle" <=> pc[m] = "idle"
  PROVE  StatusOf(m)' = StatusOf(m)
  BY DEF StatusOf, At, Waits

\* Every kind of step is an action of TurnQueue or leaves its variables alone.
LEMMA TurnQueueStep ==
  HandlerInv /\ PlaceInv /\ PlaceInv' /\ [Next]_vars => [TQ!TQNext]_(TQ!tqVars)
<1> SUFFICES ASSUME HandlerInv, PlaceInv, PlaceInv', [Next]_vars
             PROVE  TQ!TQNext \/ UNCHANGED TQ!tqVars
  OBVIOUS
<1>1. /\ queue \in [Session -> Seq(Msg)] /\ outcome \in [Msg -> Outcome]
      /\ pc \in [Handler -> Label] /\ Msg \subseteq Handler
  BY DEF HandlerInv, HandlerTypeOK, Handler
<1>2. \A h \in Msg : pc[h] \in InHand => frame[h].msg \in Msg
  BY <1>1 DEF HandlerInv, FrameOK, InHand
<1>3. CASE Quiet
  <2>1. \A m \in Msg : pc'[m] = "idle" <=> pc[m] = "idle"
    BY <1>3 DEF Quiet, GoesOn, InHand
  <2>2. \A m \in Msg : StatusOf(m)' = StatusOf(m)
    BY <1>3, <2>1, StatusKept DEF Quiet, Waits
  <2>3. QED
    BY <1>3, <2>2 DEF Quiet, TQ!tqVars
<1>4. ASSUME NEW m \in Msg, NEW from, NEW to,
             StatusOf(m) = from, StatusOf(m)' = to,
             \A n \in Msg \ {m} : StatusOf(n)' = StatusOf(n)
      PROVE  TQ!Moves(m, from, to)
  BY <1>4 DEF TQ!Moves
<1>5. ASSUME NEW h \in Msg, Arrives(h) PROVE TQ!Arrive(h)
  <2>1. Held(h, h)' /\ pc[h] = "idle"
    BY <1>5 DEF Arrives, Held, InHand, Label
  <2>2. StatusOf(h) = "new" /\ StatusOf(h)' = "active"
    BY <2>1 DEF StatusOf, At, PlaceInv, IdleIsNowhere, HeldIsOnlyHeld, Waits
  <2>3. \A n \in Msg \ {h} : StatusOf(n)' = StatusOf(n)
    BY <1>5, StatusKept DEF Arrives, OthersStay, Waits
  <2>4. QED
    BY <1>4, <1>5, <2>2, <2>3 DEF Arrives, TQ!Arrive
<1>6. ASSUME NEW h \in Msg, Refused(h) PROVE TQ!Refuse(h)
  <2>1. StatusOf(h) = "new" /\ StatusOf(h)' = "settled"
    BY <1>1, <1>6 DEF Refused, StatusOf, At, PlaceInv, IdleIsNowhere
  <2>2. \A n \in Msg \ {h} : StatusOf(n)' = StatusOf(n)
    BY <1>1, <1>6, StatusKept DEF Refused, OthersStay, Waits
  <2>3. QED
    BY <1>4, <1>6, <2>1, <2>2 DEF Refused, TQ!Refuse
<1>7. ASSUME NEW h \in Msg, NEW how \in SettledHow, Settles(h, how)
      PROVE  \E m \in Msg : TQ!SettleOne(m)
  <2>1. PICK m \in Msg : m = frame[h].msg /\ Held(h, m)
    BY <1>2, <1>7 DEF Settles, Held
  <2>2. StatusOf(m) = "active"
    BY <2>1, StatusCases
  <2>3. StatusOf(m)' = "settled"
    BY <1>1, <1>7, <2>1 DEF Settles, StatusOf, SettledHow
  <2>4. \A n \in Msg \ {m} : StatusOf(n)' = StatusOf(n)
    <3>1. \A n \in Msg : pc'[n] = "idle" <=> pc[n] = "idle"
      BY <1>7 DEF Settles, OthersStay, InHand
    <3>2. QED
      BY <1>1, <1>7, <2>1, <3>1, StatusKept DEF Settles, Waits
  <2>5. QED
    BY <1>4, <1>7, <2>2, <2>3, <2>4 DEF Settles, TQ!SettleOne
<1>8. ASSUME NEW h \in Msg, NEW p \in Process, Sends(h, p) PROVE UNCHANGED TQ!tqVars
  <2>1. \A m \in Msg : pc'[m] = "idle" <=> pc[m] = "idle"
    BY <1>8 DEF Sends, OthersStay
  <2>2. \A m \in Msg : StatusOf(m)' = StatusOf(m)
    BY <1>8, <2>1, StatusKept DEF Sends, Waits
  <2>3. QED
    BY <1>8, <2>2 DEF Sends, TQ!tqVars
<1>9. ASSUME NEW h \in Msg, NEW s \in Session, Queues(h, s)
      PROVE  \E m \in Msg : TQ!Wait(m, s)
  <2>1. PICK m \in Msg : m = frame[h].msg /\ Held(h, m)
    BY <1>2, <1>9 DEF Queues, Held, InHand, Label
  <2>3. Waits(m)' /\ \A n \in Msg \ {m} : Waits(n)' = Waits(n)
    BY <1>1, <1>9, <2>1, WaitsAfterQueues
  <2>4. \A n \in Msg : pc'[n] = "idle" <=> pc[n] = "idle"
    BY <1>9 DEF Queues, OthersStay
  <2>5. StatusOf(m) = "active"
    BY <2>1, StatusCases
  <2>6. StatusOf(m)' = "waiting"
    BY <2>3 DEF StatusOf, At, PlaceInv, IdleIsNowhere, WaitingIsUnsent, Waits
  <2>7. \A n \in Msg \ {m} : StatusOf(n)' = StatusOf(n)
    BY <1>9, <2>3, <2>4, StatusKept DEF Queues
  <2>8. QED
    BY <1>4, <1>9, <2>1, <2>5, <2>6, <2>7 DEF Queues, TQ!Wait
<1>10. ASSUME NEW h \in Msg, NEW s \in Session, Takes(h, s) PROVE TQ!Take(s)
  <2>1. queue[s] \in Seq(Msg) /\ queue[s] # <<>>
    BY <1>1, <1>10 DEF Takes
  <2>2. PICK m \in Msg : m = Head(queue[s])
    BY <2>1
  <2>3. Waits(m) /\ \A n \in Msg \ {m} : Waits(n)' = Waits(n)
    BY <1>1, <1>10, <2>2, WaitsAfterTakes
  <2>5. Held(h, m)'
    BY <1>10, <2>2 DEF Takes, Held, InHand, Label
  <2>7. \A n \in Msg : pc'[n] = "idle" <=> pc[n] = "idle"
    BY <1>10 DEF Takes, OthersStay
  <2>8. StatusOf(m) = "waiting"
    BY <2>3, StatusCases
  <2>9. StatusOf(m)' = "active"
    BY <2>5 DEF StatusOf, At, PlaceInv, IdleIsNowhere, HeldIsOnlyHeld, Waits
  <2>10. \A n \in Msg \ {m} : StatusOf(n)' = StatusOf(n)
    BY <1>10, <2>3, <2>7, StatusKept DEF Takes
  <2>11. QED
    BY <1>4, <1>10, <2>1, <2>2, <2>8, <2>9, <2>10 DEF Takes, TQ!Take
<1>11. ASSUME NEW s \in Session, Clears(s) PROVE TQ!Clear(s)
  <2>1. \A m \in Msg : /\ m \in ToSet(queue[s]) <=> Contains(queue[s], m)
                       /\ m \notin ToSet(queue[s]) => Waits(m)' = Waits(m)
    BY <1>1, <1>11, WaitsAfterClears
  <2>3. \A m \in Msg : pc'[m] = pc[m]
    BY <1>11 DEF Clears
  <2>4. ASSUME NEW m \in Msg
        PROVE  StatusOf(m)' = IF m \in ToSet(queue[s]) THEN "settled" ELSE StatusOf(m)
    <3>1. CASE m \in ToSet(queue[s])
      BY <1>11, <3>1 DEF Clears, StatusOf
    <3>2. CASE m \notin ToSet(queue[s])
      <4>1. outcome'[m] = outcome[m]
        BY <1>1, <1>11, <3>2 DEF Clears
      <4>2. Waits(m)' = Waits(m)
        BY <2>1, <3>2
      <4>3. QED
        BY <2>3, <3>2, <4>1, <4>2, StatusKept
    <3>3. QED
      BY <3>1, <3>2
  <2>5. Statuses' = [m \in Msg |-> IF m \in ToSet(queue[s]) THEN "settled" ELSE Statuses[m]]
    BY <2>4 DEF Statuses
  <2>6. queue' = [queue EXCEPT ![s] = <<>>]
    BY <1>11 DEF Clears
  <2>7. QED
    BY <2>5, <2>6 DEF Statuses, TQ!Clear, ToSet, TQ!ToSet
<1>12. QED
  BY StepKinds, <1>3, <1>5, <1>6, <1>7, <1>8, <1>9, <1>10, <1>11 DEF TQ!TQNext

\* For any number of messages, commands, sessions and processes the router implements
\* TurnQueue: messages wait in order, only the head of a line gets a turn, each message
\* is settled once, and only /new settles messages that wait.
THEOREM RouterImplementsTurnQueue == Spec => ImplementsTurnQueue
<1>1. Init => TQ!TQInit
  BY DEF Init, TQ!TQInit, StatusOf, At, Handler
<1>2. QED
  BY <1>1, TurnQueueStep, HandlerInvHolds, PlaceInvHolds, PTL
     DEF Spec, ImplementsTurnQueue, TQ!TQSpec
=============================================================================

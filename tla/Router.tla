------------------------------- MODULE Router -------------------------------
(***************************************************************************)
(* The message router (internal/router/router.go, handler.go) over the     *)
(* runner of module AgentRunner, for one bot.                              *)
(*                                                                         *)
(* The channel starts a goroutine for every incoming message               *)
(* (wecom.go:673), so a message IS a goroutine here: it looks up the       *)
(* session of the bot once, keeps that snapshot to its end, and goes       *)
(* through handleLLM, handleStop or handleNew.  One action is one section  *)
(* under Router.mu, one database statement or one call of the runner; what *)
(* runs between two of them is interleaved with every other goroutine.     *)
(* thinkingStartedAt, which only feeds the displayed duration, the history *)
(* rows, last_active_at and the wording of replies are left out.           *)
(***************************************************************************)
EXTENDS AgentRunner, Sequences, SequencesExt

CONSTANTS
  Msg,         \* text messages for the agent
  StopCmd,     \* "/stop" messages
  NewCmd,      \* "/new" messages
  FirstSession \* the session the bot is bound to at start

Handler == Msg \cup StopCmd \cup NewCmd

ASSUME RouterConstants ==
  /\ FirstSession \in Session
  /\ None \notin Handler
  /\ Msg \cap StopCmd = {} /\ Msg \cap NewCmd = {} /\ StopCmd \cap NewCmd = {}

VARIABLES
  \* database
  bound,        \* sessions whose bound_bot_id is the bot
  created,      \* rows of the sessions table
  waked,        \* sessions whose process_status is waked
  claude,       \* claude_session_id, named by the process that began the conversation
  \* Router, under Router.mu
  queue,        \* pendingMessages
  interrupted,  \* interruptedSessions
  question,     \* pendingQuestions: a question of the agent awaits its answer
  \* goroutines
  pc,           \* where a goroutine is
  frame,        \* its local variables
  \* history
  conv,         \* the conversation a process continues
  input,        \* the message a process was sent
  outcome       \* how a message ended for the user

dbVars == <<bound, created, waked, claude>>
memVars == <<queue, interrupted, question>>
histVars == <<conv, input, outcome>>
vars == <<rvars, dbVars, memVars, pc, frame, histVars>>

Label == {"idle", "launch", "persist", "build", "send", "stream", "finish", "ask",
          "drain", "enqueue", "interrupt", "flag", "clearflag", "release", "sleep",
          "clean", "create", "bind", "end"}

(***************************************************************************)
(* The locals: the session that was looked up and the conversation it had  *)
(* then, the message in hand (not the goroutine's own after a drain) and   *)
(* the agent session it holds.                                             *)
(***************************************************************************)
Frame == [id : Session \cup {None}, claude : Process \cup {None},
          msg : Msg \cup {None}, proc : Process \cup {None}]

NoFrame == [id |-> None, claude |-> None, msg |-> None, proc |-> None]

(***************************************************************************)
(* How a message ended for the user: refused with a reply before the agent *)
(* saw it, dropped by /new, reported as interrupted, or ended by any other *)
(* last frame (an answer, an error, "no response"), which differ in words. *)
(***************************************************************************)
Outcome == {"none", "refused", "dropped", "interrupted", "ended"}

HandlerTypeOK ==
  /\ bound \subseteq created /\ created \subseteq Session /\ waked \subseteq created
  /\ claude \in [Session -> Process \cup {None}]
  /\ queue \in [Session -> Seq(Msg)]
  /\ interrupted \subseteq created /\ question \subseteq created
  /\ pc \in [Handler -> Label]
  /\ frame \in [Handler -> Frame]
  /\ conv \in [Process -> Process \cup {None}]
  /\ input \in [Process -> Msg \cup {None}]
  /\ outcome \in [Msg -> Outcome]

RouterTypeOK == TypeOK /\ HandlerTypeOK

Init ==
  /\ RunnerInit
  /\ bound = {FirstSession} /\ created = {FirstSession} /\ waked = {FirstSession}
  /\ claude = [s \in Session |-> None]
  /\ queue = [s \in Session |-> <<>>]
  /\ interrupted = {} /\ question = {}
  /\ pc = [h \in Handler |-> "idle"]
  /\ frame = [h \in Handler |-> NoFrame]
  /\ conv = [p \in Process |-> None]
  /\ input = [p \in Process |-> None]
  /\ outcome = [m \in Msg |-> "none"]

At(h, label) == pc[h] = label
Goto(h, label) == pc' = [pc EXCEPT ![h] = label]

\* The goroutine ends and its locals with it.
Return(h) == Goto(h, "end") /\ frame' = [frame EXCEPT ![h] = NoFrame]

Settle(m, how) == outcome' = [outcome EXCEPT ![m] = how]

-----------------------------------------------------------------------------
(* HandleWorkerMessage: every message begins with the session lookup.      *)

Snapshot(s, h) == [id |-> s, claude |-> claude[s],
                   msg |-> IF h \in Msg THEN h ELSE None, proc |-> None]

HandleWorkerMessage(h) ==
  /\ At(h, "idle")
  /\ \E s \in bound :
       /\ frame' = [frame EXCEPT ![h] = Snapshot(s, h)]
       /\ Goto(h, CASE h \in Msg -> "launch"
                    [] h \in NewCmd /\ s \notin waked -> "release"
                    [] OTHER -> "interrupt")
  /\ UNCHANGED <<rvars, dbVars, memVars, histVars>>

\* No session is bound to the bot, or the query fails: a reply, and that is all.
SessionNotFound(h) ==
  /\ At(h, "idle")
  /\ Return(h)
  /\ IF h \in Msg THEN Settle(h, "refused") ELSE UNCHANGED outcome
  /\ UNCHANGED <<rvars, dbVars, memVars, conv, input>>

-----------------------------------------------------------------------------
(* handleLLM.                                                              *)

(***************************************************************************)
(* The bot's channel is not connected: a reply, and handleLLM returns      *)
(* without draining the queue.  When it is connected the goroutine goes on *)
(* to the runner with what the check told it, which nobody locks.          *)
(***************************************************************************)
ChannelDown(h) ==
  /\ At(h, "launch")
  /\ Return(h)
  /\ Settle(frame[h].msg, "refused")
  /\ UNCHANGED <<rvars, dbVars, memVars, conv, input>>

\* Resume continues the conversation of the snapshot, Start begins a new one.
Conversation(h, p) == IF frame[h].claude = None THEN p ELSE frame[h].claude

\* getOrCreateAgentSession: Start or Resume gives a process.
AgentLaunched(h, p) ==
  /\ At(h, "launch")
  /\ Goto(h, "persist")
  /\ Launch(frame[h].id, p)
  /\ frame' = [frame EXCEPT ![h].proc = p]
  /\ conv' = [conv EXCEPT ![p] = Conversation(h, p)]
  /\ UNCHANGED <<dbVars, memVars, input, outcome>>

\* getOrCreateAgentSession: ErrBusy.
AgentBusy(h) ==
  /\ At(h, "launch")
  /\ Goto(h, "enqueue")
  /\ LaunchBusy(frame[h].id)
  /\ UNCHANGED <<dbVars, memVars, frame, histVars>>

\* getOrCreateAgentSession: any other error; the queue is not drained.
AgentFailed(h) ==
  /\ At(h, "launch")
  /\ Return(h)
  /\ LaunchFail(frame[h].id)
  /\ Settle(frame[h].msg, "refused")
  /\ UNCHANGED <<dbVars, memVars, conv, input>>

Persist_BoundSession(h) ==
  /\ At(h, "persist")
  /\ Goto(h, "build")
  /\ \E s \in bound :
       IF frame[h].claude = None
         THEN claude' = [claude EXCEPT ![s] = frame[h].proc] /\ waked' = waked
         ELSE waked' = waked \cup {s} /\ claude' = claude
  /\ UNCHANGED <<rvars, bound, created, memVars, frame, histVars>>

\* After Start the conversation is stored, after Resume the session is marked
\* waked; the snapshot in the goroutine's hands is not updated.
Persist(h) ==
  /\ At(h, "persist")
  /\ Goto(h, "build")
  /\ IF frame[h].claude = None
       THEN claude' = [claude EXCEPT ![frame[h].id] = frame[h].proc] /\ waked' = waked
       ELSE waked' = waked \cup {frame[h].id} /\ claude' = claude
  /\ UNCHANGED <<rvars, bound, created, memVars, frame, histVars>>

\* The statement fails, which is logged at most: after a launch, or in handleNew.
StatementFails(h) ==
  /\ \/ At(h, "persist") /\ Goto(h, "build")
     \/ At(h, "release") /\ Goto(h, "sleep")
     \/ At(h, "sleep") /\ Goto(h, "clean")
  /\ UNCHANGED <<rvars, dbVars, memVars, frame, histVars>>

\* buildUserInput: a pending question is consumed, this message is its answer.
BuildUserInput(h) ==
  /\ At(h, "build")
  /\ Goto(h, "send")
  /\ question' = question \ {frame[h].id}
  /\ UNCHANGED <<rvars, dbVars, queue, interrupted, frame, histVars>>

SendToAgent(h) ==
  /\ At(h, "send")
  /\ Goto(h, "stream")
  /\ Send(frame[h].proc)
  /\ input' = [input EXCEPT ![frame[h].proc] = frame[h].msg]
  /\ UNCHANGED <<dbVars, memVars, frame, conv, outcome>>

SendToAgentFails_Requeued(h) ==
  /\ At(h, "send")
  /\ Return(h)
  /\ SendFail(frame[h].proc)
  /\ Settle(frame[h].msg, "refused")
  /\ queue' = [queue EXCEPT ![frame[h].id] = Append(@, frame[h].msg)]
  /\ UNCHANGED <<dbVars, interrupted, question, conv, input>>

\* The process died between launch and Send; the queue is not drained.
SendToAgentFails(h) ==
  /\ At(h, "send")
  /\ Return(h)
  /\ SendFail(frame[h].proc)
  /\ Settle(frame[h].msg, "refused")
  /\ UNCHANGED <<dbVars, memVars, conv, input>>

-----------------------------------------------------------------------------
(* streamToUser.  Chunks wait in a buffered channel, so they may be read    *)
(* long after the process that wrote them has gone; text, thinking and tool *)
(* chunks only make frames, timeouts only warn, and neither ends the turn.  *)

\* An error chunk ends the turn at once: the interrupted flag is not looked at.
StreamError(h) ==
  /\ At(h, "stream")
  /\ Goto(h, "drain")
  /\ Settle(frame[h].msg, "ended")
  /\ UNCHANGED <<rvars, dbVars, memVars, frame, conv, input>>

\* The result chunk ends the turn; the process may live on for a while.
StreamFinal(h) ==
  /\ At(h, "stream")
  /\ Goto(h, "finish")
  /\ UNCHANGED <<rvars, dbVars, memVars, frame, histVars>>

\* The wrapped channel is closed.
StreamClosed(h) ==
  /\ At(h, "stream")
  /\ forward[frame[h].proc] = "done"
  /\ Goto(h, "finish")
  /\ UNCHANGED <<rvars, dbVars, memVars, frame, histVars>>

Finish_InterruptedReturns(h) ==
  /\ At(h, "finish")
  /\ interrupted' = interrupted \ {frame[h].id}
  /\ IF frame[h].id \in interrupted
       THEN Return(h) /\ Settle(frame[h].msg, "interrupted")
       ELSE /\ \E next \in {"ask", "drain"} : Goto(h, next)
            /\ Settle(frame[h].msg, "ended")
            /\ UNCHANGED frame
  /\ UNCHANGED <<rvars, dbVars, queue, question, conv, input>>

(***************************************************************************)
(* The section after "done:": the flag is read and deleted; unless it was  *)
(* set, the reply is sent, and the agent may have asked a question.        *)
(***************************************************************************)
Finish(h) ==
  /\ At(h, "finish")
  /\ interrupted' = interrupted \ {frame[h].id}
  /\ IF frame[h].id \in interrupted
       THEN Goto(h, "drain") /\ Settle(frame[h].msg, "interrupted")
       ELSE /\ \E next \in {"ask", "drain"} : Goto(h, next)
            /\ Settle(frame[h].msg, "ended")
  /\ UNCHANGED <<rvars, dbVars, queue, question, frame, conv, input>>

\* The question of the turn becomes pending and its menu is sent.
AskQuestion(h) ==
  /\ At(h, "ask")
  /\ Goto(h, "drain")
  /\ question' = question \cup {frame[h].id}
  /\ UNCHANGED <<rvars, dbVars, queue, interrupted, frame, histVars>>

-----------------------------------------------------------------------------
(* enqueueMessage and drainPendingMessages.                                 *)

EnqueueMessage(h) ==
  /\ At(h, "enqueue")
  /\ Return(h)
  /\ queue' = [queue EXCEPT ![frame[h].id] = Append(@, frame[h].msg)]
  /\ UNCHANGED <<rvars, dbVars, interrupted, question, histVars>>

\* 300 ms after the turn the queue is empty: the goroutine ends.
DrainEmpty(h) ==
  /\ At(h, "drain")
  /\ queue[frame[h].id] = <<>>
  /\ Return(h)
  /\ UNCHANGED <<rvars, dbVars, memVars, histVars>>

DrainNext_NotRemoved(h) ==
  /\ At(h, "drain")
  /\ queue[frame[h].id] # <<>>
  /\ Goto(h, "launch")
  /\ frame' = [frame EXCEPT ![h].msg = Head(queue[frame[h].id]), ![h].proc = None]
  /\ question' = question \ {frame[h].id}
  /\ UNCHANGED <<rvars, dbVars, queue, interrupted, histVars>>

\* handleLLM again, with the head of the queue and the SAME session snapshot.
DrainNext(h) ==
  /\ At(h, "drain")
  /\ queue[frame[h].id] # <<>>
  /\ Goto(h, "launch")
  /\ frame' = [frame EXCEPT ![h].msg = Head(queue[frame[h].id]), ![h].proc = None]
  /\ queue' = [queue EXCEPT ![frame[h].id] = Tail(@)]
  /\ question' = question \ {frame[h].id}
  /\ UNCHANGED <<rvars, dbVars, interrupted, histVars>>

-----------------------------------------------------------------------------
(* handleStop.                                                              *)

StopInterrupts(h) ==
  /\ At(h, "interrupt")
  /\ Goto(h, "flag")
  /\ Interrupt(frame[h].id)
  /\ UNCHANGED <<dbVars, memVars, frame, histVars>>

StopFindsNothing(h) ==
  /\ At(h, "interrupt")
  /\ Return(h)
  /\ InterruptNone(frame[h].id)
  /\ UNCHANGED <<dbVars, memVars, histVars>>

\* The flag is set in a second section, after the process has been killed.
StopSetsFlag(h) ==
  /\ At(h, "flag")
  /\ Return(h)
  /\ interrupted' = interrupted \cup {frame[h].id}
  /\ UNCHANGED <<rvars, dbVars, queue, question, histVars>>

-----------------------------------------------------------------------------
(* handleNew.                                                               *)

NewInterrupts(h) ==
  /\ At(h, "interrupt")
  /\ Goto(h, "clearflag")
  /\ Interrupt(frame[h].id) \/ InterruptNone(frame[h].id)
  /\ UNCHANGED <<dbVars, memVars, frame, histVars>>

NewClearsFlag(h) ==
  /\ At(h, "clearflag")
  /\ Goto(h, "release")
  /\ interrupted' = interrupted \ {frame[h].id}
  /\ UNCHANGED <<rvars, dbVars, queue, question, frame, histVars>>

\* ReleaseBot clears the binding of every session bound to the bot.
NewReleases(h) ==
  /\ At(h, "release")
  /\ Goto(h, "sleep")
  /\ bound' = {}
  /\ UNCHANGED <<rvars, created, waked, claude, memVars, frame, histVars>>

NewMarksSleeped(h) ==
  /\ At(h, "sleep")
  /\ Goto(h, "clean")
  /\ waked' = waked \ {frame[h].id}
  /\ UNCHANGED <<rvars, bound, created, claude, memVars, frame, histVars>>

\* The old session's entries of Router's maps are deleted, its queue with them.
NewCleans(h) ==
  LET s == frame[h].id IN
  /\ At(h, "clean")
  /\ Goto(h, "create")
  /\ queue' = [queue EXCEPT ![s] = <<>>]
  /\ interrupted' = interrupted \ {s}
  /\ question' = question \ {s}
  /\ outcome' = [m \in Msg |-> IF m \in ToSet(queue[s]) THEN "dropped" ELSE outcome[m]]
  /\ UNCHANGED <<rvars, dbVars, frame, conv, input>>

NewCreates_NotInserted(h) ==
  /\ At(h, "create")
  /\ Goto(h, "bind")
  /\ \E n \in Session \ created :
       /\ waked' = waked \cup {n}
       /\ frame' = [frame EXCEPT ![h].id = n]
  /\ UNCHANGED <<rvars, bound, created, claude, memVars, histVars>>

\* Create inserts the new row, waked, with no conversation; the new session's
\* identifier is what the rest of handleNew works on.
NewCreates(h) ==
  /\ At(h, "create")
  /\ Goto(h, "bind")
  /\ \E n \in Session \ created :
       /\ created' = created \cup {n}
       /\ waked' = waked \cup {n}
       /\ frame' = [frame EXCEPT ![h].id = n]
  /\ UNCHANGED <<rvars, bound, claude, memVars, histVars>>

NewBinds(h) ==
  /\ At(h, "bind")
  /\ Return(h)
  /\ bound' = bound \cup {frame[h].id}
  /\ UNCHANGED <<rvars, created, waked, claude, memVars, histVars>>

\* Create or the binding fails: handleNew replies and returns, the bot unbound.
NewFails(h) ==
  /\ At(h, "create") \/ At(h, "bind")
  /\ Return(h)
  /\ UNCHANGED <<rvars, dbVars, memVars, histVars>>

-----------------------------------------------------------------------------
\* What a goroutine does by itself, once its message has come in.
MsgStep(h) ==
  \/ ChannelDown(h)
  \/ \E p \in Process : AgentLaunched(h, p)
  \/ AgentBusy(h) \/ AgentFailed(h)
  \/ Persist(h) \/ StatementFails(h) \/ BuildUserInput(h)
  \/ SendToAgent(h) \/ SendToAgentFails(h)
  \/ StreamClosed(h) \/ Finish(h) \/ AskQuestion(h)
  \/ EnqueueMessage(h) \/ DrainEmpty(h) \/ DrainNext(h)

\* What the agent's output does to a turn.
AgentOutput(h) == StreamError(h) \/ StreamFinal(h)

StopStep(h) == StopInterrupts(h) \/ StopFindsNothing(h) \/ StopSetsFlag(h)

NewStep(h) ==
  \/ NewInterrupts(h) \/ NewClearsFlag(h) \/ NewReleases(h) \/ NewMarksSleeped(h)
  \/ NewCleans(h) \/ NewCreates(h) \/ NewBinds(h) \/ NewFails(h) \/ StatementFails(h)

\* A child exits, or a goroutine of a process moves.
ProcessMoves(p) == ProcessStep(p) /\ UNCHANGED <<dbVars, memVars, pc, frame, histVars>>

Next ==
  \/ \E h \in Handler : HandleWorkerMessage(h) \/ SessionNotFound(h)
  \/ \E h \in Msg : MsgStep(h) \/ AgentOutput(h)
  \/ \E h \in StopCmd : StopStep(h)
  \/ \E h \in NewCmd : NewStep(h)
  \/ \E p \in Process : ProcessMoves(p)

(***************************************************************************)
(* Goroutines are scheduled, and so are those of a process; a killed child *)
(* exits (exec.CommandContext sends SIGKILL).  A child that nobody kills   *)
(* need not end, and need not write.                                       *)
(***************************************************************************)
Fairness ==
  /\ \A h \in Msg : WF_vars(MsgStep(h))
  /\ \A h \in StopCmd : WF_vars(StopStep(h))
  /\ \A h \in NewCmd : WF_vars(NewStep(h))
  /\ \A p \in Process : WF_vars((killed[p] \/ stage[p] # "running") /\ ProcessMoves(p))

Spec == Init /\ [][Next]_vars /\ Fairness

-----------------------------------------------------------------------------
(* Safety.                                                                  *)

\* The goroutines that have message m in hand and have not settled it yet.
Holders(m) ==
  {h \in Msg : frame[h].msg = m /\ pc[h] \notin {"drain", "ask"}}

\* The places of m in the queues.
Places(m) ==
  UNION {{<<s, i>> : i \in {j \in DOMAIN queue[s] : queue[s][j] = m}} : s \in Session}

\* A message that came in is in one place only: in the hands of one goroutine, at
\* one position of one queue, or settled.  No race between enqueueMessage, the drains and
\* /stop loses it silently or doubles it; nor does one with /new, which the run of this
\* property has not, but the theorem MessagesAreConserved (handler.go:760-797, 179-186).
Conserved ==
  \A m \in Msg :
    Cardinality(Holders(m)) + Cardinality(Places(m))
      + (IF outcome[m] = "none" THEN 0 ELSE 1) = (IF At(m, "idle") THEN 0 ELSE 1)

\* A message is given to one agent process only, and one that was refused or that
\* /new dropped to none: the user never pays for it twice (handler.go:467, 793).
RunAtMostOnce ==
  \A p \in Process : input[p] # None =>
    /\ outcome[input[p]] \notin {"refused", "dropped"}
    /\ \A q \in Process : input[q] = input[p] => q = p

\* A conversation belongs to one session for ever: a goroutine with a stale snapshot
\* (handler.go:738, 751), racing /new, never resumes or stores another session's.
ConversationStaysInSession ==
  /\ \A p \in Process : conv[p] # None => owner[conv[p]] = owner[p]
  /\ \A s \in Session : claude[s] # None => owner[claude[s]] = s

-----------------------------------------------------------------------------
(* The router implements TurnQueue.                                         *)

StatusOf(m) ==
  IF outcome[m] # "none" THEN "settled"
  ELSE IF At(m, "idle") THEN "new"
  ELSE IF \E s \in Session : Contains(queue[s], m) THEN "waiting" ELSE "active"

TQ == INSTANCE TurnQueue WITH status <- [m \in Msg |-> StatusOf(m)], line <- queue

\* Seen as statuses and lines, every step of every goroutine is a step of TurnQueue:
\* a settled message is never taken up again, only the head of a queue gets a turn,
\* and only /new settles messages that wait (handler.go:760-797, 179-186).
ImplementsTurnQueue == TQ!TQSpec

-----------------------------------------------------------------------------
(* Liveness.                                                                *)

HeadIs(s, m) == queue[s] # <<>> /\ Head(queue[s]) = m

\* After /stop the turn it killed ends and the message at the head of the queue gets
\* its turn (or /new drops it): the goroutine of the killed turn reaches the drain
\* whatever the rest of the router does (handler.go:587, 626-636, 475-476).  This is what
\* the code does; README.md:187 says otherwise: see StopSkipsQueue below.
StopAdvancesQueue ==
  \A h \in Msg : \A m \in Msg \ {h}, s \in Session :
    (At(h, "stream") /\ killed[frame[h].proc] /\ frame[h].id = s /\ HeadIs(s, m))
      ~> ~ HeadIs(s, m)

-----------------------------------------------------------------------------
(* What the documentation promises.                                         *)

\* README.md:184-186: a message sent while the agent thinks is not lost, queued
\* messages are processed after the current turn: when every goroutine has ended, no
\* message waits in a queue.
QueueDrained ==
  (\A h \in Handler : pc[h] \in {"idle", "end"}) => \A s \in Session : queue[s] = <<>>

\* README.md:187: /stop is to "interrupt and skip the queue", so a turn that was killed is
\* followed by none of the messages that wait.
StopSkipsQueue ==
  [][\A h \in Msg : At(h, "drain") /\ pc'[h] = "launch" => ~ killed[frame[h].proc]]_vars

\* router.go:74: a session is in interruptedSessions when its process was /stop'd, so
\* a reply says "interrupted" only of a turn whose process was killed.
InterruptedWasStopped ==
  \A p \in Process :
    input[p] # None /\ outcome[input[p]] = "interrupted" => killed[p]

\* runner.go:36: Start is for a session with no prior session to resume, so all
\* processes of a LinkCode session continue one conversation.
OneConversationPerSession ==
  \A p, q \in Process : owner[p] # None /\ owner[p] = owner[q] => conv[p] = conv[q]
=============================================================================

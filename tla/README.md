# LinkCode in TLA+

LinkCode lets a user talk to Claude Code processes through WeCom bots. One program holds a
WebSocket to the *control bot* (menus, creation of agents) and one to every *worker bot*; each
worker bot is bound to one session, and every message to it becomes a turn of a `claude`
process that is launched for that turn and exits after it. There is little algorithm and much
concurrency in this: a goroutine per incoming message, three per process, one per forwarded
output, two per WebSocket and one per callback, against five mutexes and a database without
transactions. These modules model that concurrency, the failures the code handles, and the
restarts of the program.

Paths below are relative to `src/`; a bare file name is the file of the component at hand.

## 1. Inventory

| Component | State | Operations | Talks to | Hard |
|---|---|---|---|---|
| Agent runner `internal/agent/claude/runner.go` | `Runner.sessions`: session id → handle | Start, Resume, Interrupt; handle: Send, Stop; removeSession | router calls it; it launches processes | entry removed by session id from a goroutine of an older process |
| Process `internal/procman/procman.go` | alive, diedAt, output channel (256), pipes | Start, Send, Stop; readOutput, readStderr, waitForExit | runner; the child through pipes | reaping races reading, full channel drops, close after send |
| Router `internal/router/router.go`, `handler.go` | pendingMessages, interruptedSessions | HandleWorkerMessage: turn, /stop, /new | session manager, pool, runner, gateway | goroutine per message with a stale session snapshot, queue drained only by turns |
| Intake, same files | pendingFragments, pendingImageChoices, pendingQuestions | texts "to be continued", numbers that pick or answer, /img | agent (input), queue, /new | four maps read one after the other by overlapping messages |
| Accounting, same files, `internal/pricing/pricing.go` | sessionUsage, column total_cost | end of a turn, SetCost, /new | store | sum read after the mutex is released, first record from a stale total, NaN |
| Turn delivery `handler.go: streamToUser` | broken flag, cache, ticker, ten-minute timer | one loop per turn | channel | late rejection of frames, several ways a turn ends |
| WeCom channel `internal/channel/wecom/wecom.go` | conn, connected, ctx, done; pendingAcks, uploadResps, streamErrReqID | Connect, Close, readLoop, reconnect; sendReply, sendProactive, sendCmdWait, dispatchAck | gateway (callbacks), router (messages) | Close races a redial, answers in any order, late or twice |
| Gateway `internal/gateway/gateway.go` | workerChans: bot → channel and shown state | Open, Reopen, CloseAll, status | controller, main, router; channels call back | mutex held across a network round trip, unlock gap in Reopen, callbacks by bot |
| Pool, sessions, store `internal/botpool`, `internal/session`, `internal/store` | tables bots, sessions, messages, settings | Add, BindBot, ReleaseBot, InsertSession, updates of a row | controller, router, main | binding stored twice, two statements each, no transaction |
| Controller `internal/controller/controller.go` | userStates: menu, fields of a new agent, list | HandleMessage and the dialogues; /list with reconnection; /addbot; /restart, which exits and leaves the PID file | pool, sessions, gateway, make.ps1 | overlapping messages share a state that is written without its lock |
| Start and stop `cmd/linkcode/main.go`, `make.ps1` | bin/.linkcode.pid | check, start-up, reconnection of bots, shutdown; make.ps1: kill, remove the file, launch, write the file | everything | check and write of the file far apart, a file written by two programs, signal 0 as the test of life |
| Status manager, admin, configs, crypto, styler, browser | none that others depend on | | | not modelled, see section 8 |

What makes each part right, in one line each: the runner never confuses the processes of two
sessions and never keeps one that was killed or has been forwarded to its end; a process closes
its output once, after the last send, and where a line can be lost is named; a message is in one
place, runs at most once, in the conversation of its own session, and the queue moves on after
/stop; a word of the user is used once, as what it was meant for; the stored cost of a session is
what its turns cost; an answer whose stream was found broken goes out as a message of its own; a
lost connection comes back or is given up, and no socket leaks; answers of the server find their
waiter; one running channel per bot, and no deadlock around it; a session is never bound to
another agent's bot; the dialogue creates complete agents, and another /list shows what is
connected; a second instance, or a refusal of the only one, needs one of a few named causes.

## 2. The modules

| Module | Models | One action is |
|---|---|---|
| `AgentRunner` | runner.go over the life of processes | one call under `Runner.mu`, or one step of waitForExit or of the forwarding goroutine |
| `Router` (EXTENDS AgentRunner) | router.go, handler.go for one bot | one section under `Router.mu`, one statement, or one call of the runner |
| `TurnQueue` | abstract: what the router promises about messages | a change of a message's status |
| `Accounting` | sessionUsage, the price of a turn and total_cost | the section of the result chunk, the read of the sum, or its statement |
| `Intake` (EXTENDS Accounting) | HandleWorkerMessage and the maps that remember something between messages | one section under `Router.mu`, one statement, or a restart |
| `OutputPipe` | the goroutines and channels between one child and its turn | one receive, send, read or locked section |
| `StreamDelivery` | streamToUser, sendStreamReply, sendReply, the 846608 slot | one branch of the select loop, or one frame |
| `WecomChannel` | connection life of wecom.go | one section under `connMu`; Close and the end of readLoop split at their test of `done` |
| `Gateway` (EXTENDS WecomChannel) | gateway.go for one worker bot | one step under `Gateway.mu`, which is a lock held over several actions |
| `WecomSend` | waiters and answers of wecom.go | one section under `connMu`, `ackMu`, `uploadMu` or `streamErrMu` |
| `BotBinding` | bindings in the database under creation, /new, restart | one SQL statement |
| `ControlMenu` | the dialogues of the control bot for one user | one locked section, or one access to the unlocked fields |
| `PidFile` | main.go's guard against a second instance, /restart, and make.ps1 around them | one file system call, or one step of make.ps1 |
| `RouterProofs` | theorems of `AgentRunner`, and of `Router` over it: the runner under the router, conversations, messages | |
| `OutputProofs` | theorems of `OutputPipe` and of `StreamDelivery` | |
| `GatewayProofs` | theorems of `WecomChannel`, and of `Gateway` over it | |
| `IntakeProofs` | theorems of `Intake` and of `Accounting` under it | |
| other `…Proofs` | theorems of the module named | |
| `MC…` | TLC instances: symmetry sets and remarks on the bounds | |

State and code correspond by name wherever TLA+ allows it (`sessions`, `alive`, `interrupted`,
`pendingAcks` as `pending`, `streamErr`, …). `pc` with `frame`, `local` or `turn` is the place
and the local variables of a goroutine. Variables marked *history* in a module exist only for
its properties; no guard reads them. `PROJECT.json` maps each definition to its lines.

The composition: `Router` runs every action of the runner through the runner's own definitions,
so the runner's invariants are checked under the calls the router really makes, and proved for
any caller. `Gateway` does the same with `WecomChannel`, and `Intake` with `Accounting`: every
step of the costs is one of `Accounting`, by a turn that `Intake` has under way. `Router` and
`Intake` are two views of the same functions: `Router` has what conversations, processes and
/stop depend on and takes texts as they are; `Intake` has what a text may be, and takes the
answers of the runner and of the channel as they come (a launch may be busy, fail or succeed). `Router` implements `TurnQueue` under
the mapping `status <- StatusOf`, `line <- queue`: a message is *new* until it comes in,
*waiting* while it is in a queue, *settled* when the user has its outcome, *active* otherwise.

Main choices of abstraction:

- `Router`: a message is a goroutine and a model value. The session looked up at the start
  (`GetByPlatformBotID`) is a snapshot kept in `frame`, as in the code, also through drains. A
  conversation is named by the process that began it. Failures are actions of their own: no
  channel, a launch that fails, a process that dies before `Send`, any statement.
- `Intake`: a message is a model value; what its text is (a listing, a number, a text to be
  continued, a question's answer) is chosen where the code looks at it. A number that does not
  pick one of the listed images takes the way of any other text. Finished goroutines have no
  local variables. A restart ends all goroutines and empties all maps.
- `Accounting`: costs are natural numbers in a unit small enough; `Unknown` stands for NaN, which
  the column cannot hold (`Storable`). `unsure` collects the sessions for which the code itself
  gives up exactness: a turn without a price, a failed statement, two turns between the sum and
  its row at once, a restart there, a /new during a turn.
- `AgentRunner`: `IsAlive` and `Stop` inside `Interrupt` are one action (the comment there says
  why). `Session.Stop` has no caller under `src`; it is part of `RunnerNext`, so the proofs cover it, but
  the router never takes it.
- `OutputPipe`: chunk contents are line numbers, the last line is the result. The pipe's
  buffer is `written` minus `filled`, and `cmd.Wait` closes both pipes. Any line may be longer than
  a scanner's buffer (`LineTooLong`), also one that the child is still writing: this ends the reader
  with the pipes open, the child runs on, and only readOutput reports it.
- `WecomSend`: the server answers a request it has received any number of times up to a bound.
- `StreamDelivery`: contents are what they tell the user (spinner, text, answer, …). The turn sees
  of a frame only whether it was written; what became of it is history: `missed` (rejected with a
  code that nobody keeps, or lost), and of the message sent in place of an answer `unanswered` (refused,
  or no acknowledgement in time, which streamToUser ignores). That the server answers a frame of an
  expired stream with 846608 is taken from the comments of wecom.go.
- `BotBinding`: each statement of `BindBot` and `ReleaseBot` is an action; `/new` and creation
  share the binding steps, as they share `BindToSession`.
- `ControlMenu`: an append to the shared list is a load and a store.
- `PidFile`: an instance is named by its PID, which another one may get later. Signal 0 may fail
  for any process, as it does on Windows and for another user's, and may reach a program that has the PID
  of an instance that has gone. make.ps1 is modelled by what it does to the file and to instances, one
  make.ps1 at a time; the one that /restart detaches may, like any other, begin at any time.

## 3. The runs

Every constant is in the `.cfg` of the run. All runs say `CHECK_DEADLOCK FALSE`: goroutines end, every
module bounds its requests, and a program in which all of them have ended has no next step.

| Run | Instance | Shows |
|---|---|---|
| `router` | 2 messages, 1 /new, 2 sessions, 3 processes, symmetric | the types and the runner's four invariants under the router; `RunAtMostOnce`; `ConversationStaysInSession`; refinement of `TurnQueue` |
| `router_after_stop` | 2 messages, 1 /stop, 1 session, 2 processes | `Conserved`; liveness: after /stop the head of the queue is taken |
| `router_stranded` | 2 messages, 1 session, 2 processes | a violation: see section 6 |
| `output_pipe` | 4 lines, 2 diagnostics, any of them too long, capacities 1 and 2 | no send on a closed channel; order; no line lost but by a full channel, a Stop, or with an error chunk in its place; a stopped process closes its output and ends its turn |
| `bot_binding` | 2 bots, 4 rows, 2 creations, 2 /new, 1 restart | `NeverAnothersBot` whatever fails; `BoundWhenUndisturbed` |
| `gateway` | 2 channels, 2 requests, 1 socket each, no redial that succeeds | `RegisteredIsRunning`, and every request returns |
| `wecom_channel` | 1 channel, 3 sockets, 2 attempts | no leaked socket, no dial over a connection, notices started in turn but for a redial that a Close did not stop, repair or give-up |
| `wecom_send` | 1 proactive message, 1 upload of 2 commands, 1 stream, 3 answers | ack delivery never blocks, no waiter left behind, success has its body, and leaves none but a late one |
| `stream_delivery` | 1 turn, 1 text chunk, 2 warnings | a broken stream is found out and answered by a message; an answer is lost only where nobody looks at what became of it |
| `control_menu` | 6 messages, 2 at a time, 1 event | no empty agent; a reconnection marks the agent chosen unless the list was made anew; the list shows a lost agent as connected only if it fell since |
| `pid_file` | 3 PIDs, 4 starts | two instances only for one of five causes; an instance alone is refused only for one of four |
| `intake` | 3 messages, 1 /new, 2 sessions, 1 restart, 2 usages, symmetric | every word is in one place; answers are meant as such; what /new cleaned stays clean; the stored cost is exact but for named cases, and a record only grows |

Why the bounds are enough to be interesting:

- Two sessions and a /new are the least for a stale snapshot; three processes let an old one
  outlive its successor. One waiting message is enough for stranding (`router_stranded`); two are the
  least for an order, and the order of a line of any length is proved.
- Three messages in `intake` are a fragment and what it is joined to, with one more between them;
  a turn that asks, one that waited and one that answers; a listing, a question and a number. One
  of the two usages reports more cached tokens than input tokens, the other has no price.
- Capacity 1 for the output makes drops common; 256 in the code only makes them rare.
- Three sockets are a connection, its replacement and a third one that would show a leak;
  `MaxAttempts` 2 instead of 10 reaches the limit. In `gateway` one socket per channel is
  enough, because its properties do not look at sockets; redials are explored in `wecom_channel`.
- Two commands of an upload are the least for one to follow another's success; three answers
  allow a duplicate for one request and a late one for another.
- Six messages take one user through the whole dialogue (`/start`, 1, name, BotID, Secret, 1) with
  any other split over two goroutines; every longer dialogue repeats these steps.
  One event is enough for a list that is overtaken. That a choice made before a /list marks a wrong
  agent (`relisted` in `Mark`, counted in `fell`) as one that is down takes two events, which is beyond the
  run's five minutes; the theorem covers it.
- Four starts over three PIDs let the PID of a killed instance be used again by another one while a
  third runs. Each of the nine causes is needed: with one left out of `SecondCauses` or `LeftCauses` the
  run finds a violation.

`StateBound` constraints are not used: bounds are guards, named in the header of each module.

## 4. Fairness

Weak fairness of a goroutine's own steps is the Go scheduler: a goroutine that can run will.
Nothing is assumed of the user, of the child (unless it was killed: `exec.CommandContext` sends
SIGKILL), of the agent's output, or of the network.

- `Router`: each message's goroutine, and the goroutines of a process once its child has
  exited or was killed. That an agent's turn ends is *not* assumed.
- `OutputPipe`: the two readers, waitForExit, the forwarding goroutine, the turn.
- `WecomChannel`: readLoop (its read has a deadline of 90 s, its dial a timeout) and a Close
  that has begun.
- `Gateway`: strong fairness for steps that need `Gateway.mu`, which others take and release in
  between. Go's mutex hands over to a waiter after 1 ms, so no waiter starves. The status query
  `CheckStatus` may repeat for ever without blocking them.
- `StreamDelivery`: the ticker, the end of a turn, and the server's answer to a frame.

## 5. What is proved

TLAPS proves these for every value of the constants, from the named assumptions in the modules
(`RunnerConstants`, `RouterConstants`, `PipeConstants`, `DeliveryConstants`, `PidConstants`,
`BindingConstants`, `SendConstants`, `ChannelConstants`, `GatewayConstants`, `MenuConstants`,
`AccountingConstants`, `IntakeConstants`), which say that `None` and the other markers are not
members of the sets, that sets of different things do not overlap, that bounds are natural
numbers, and that prices and token counts are.

| Theorem | Statement |
|---|---|
| `RouterProofs!RunnerTypeCorrect` | `RunnerSpec => []TypeOK` |
| `RouterProofs!MapIsConsistent` | `RunnerSpec => []MapConsistent` |
| `RouterProofs!GoneIsUnregistered` | `RunnerSpec => []GoneUnregistered` |
| `RouterProofs!ClosedOutputIsDead` | `RunnerSpec => []ClosedIsDead` |
| `RouterProofs!LostByRemoveSession` | `RunnerSpec => []LostOnlyByRemoveSession` |
| `RouterProofs!OneProcessUnlessLate` | `RunnerSpec /\ [][RemovesInTime]_rvars => []OneLiveProcessPerSession` |
| `RouterProofs!RouterTypeCorrect` | `Spec => []RouterTypeOK` |
| `RouterProofs!ImplementsRunner` | `Spec => RunnerSpec` |
| `RouterProofs!RunnerSafeUnderRouter` | the four runner invariants, of `Router`'s `Spec` |
| `RouterProofs!ConversationStays` | `Spec => []ConversationStaysInSession` |
| `RouterProofs!MessagesRunAtMostOnce` | `Spec => []RunAtMostOnce` |
| `RouterProofs!MessagesAreConserved` | `Spec => []Conserved` |
| `RouterProofs!RouterImplementsTurnQueue` | `Spec => ImplementsTurnQueue` |
| `OutputProofs!PipeTypeCorrect` | `Spec => []TypeOK` |
| `OutputProofs!NoSendAfterClose` | `Spec => []NoSendOnClosed` |
| `OutputProofs!LinesInOrder` | `Spec => []InOrder` |
| `OutputProofs!EveryLossAccounted` | `Spec => []LossAccounted` |
| `OutputProofs!DeliveryTypeCorrect` | `DeliverySpec => []DeliveryTypeOK` |
| `OutputProofs!NoticedAnswersArePushed` | `DeliverySpec => []NoticedIsPushed` |
| `OutputProofs!AnswersLostOnlyUnnoticed` | `DeliverySpec => []LostOnlyUnnoticed` |
| `BotBindingProofs!TypeCorrect` | `Spec => []TypeOK` |
| `BotBindingProofs!SessionsStayWithTheirBot` | `Spec => []NeverAnothersBot` |
| `BotBindingProofs!SidesAgree` | `Spec => []BoundWhenUndisturbed` |
| `WecomSendProofs!TypeCorrect` | `SendSpec => []TypeOK` |
| `WecomSendProofs!NoWaiterLeftBehind` | `SendSpec => []PendingIsWaiting` |
| `WecomSendProofs!NoDeliveryBlocks` | `SendSpec => []DeliveryNeverBlocks` |
| `WecomSendProofs!SuccessFindsBody` | `SendSpec => []SuccessHasBody` |
| `WecomSendProofs!SuccessLeavesNoBody` | `SendSpec => []LeftBodyIsLate` |
| `GatewayProofs!ChannelTypes` | `ChannelSpec => []TypeOK` |
| `GatewayProofs!NoSocketLeaks` | `ChannelSpec => []NoLeakedSocket` |
| `GatewayProofs!DialsFromNothing` | `ChannelSpec => []ReconnectsFromNothing` |
| `GatewayProofs!CallbacksAlternate` | `ChannelSpec => NoticesAlternate` |
| `GatewayProofs!GatewayTypeCorrect` | `Spec => []GatewayTypeOK` |
| `GatewayProofs!RegisteredRuns` | `Spec => []RegisteredIsRunning` |
| `GatewayProofs!ChannelsUnderGateway` | `NoLeakedSocket` and `ReconnectsFromNothing`, of `Gateway`'s `Spec` |
| `PidFileProofs!TypeCorrect` | `Spec => []TypeOK` |
| `PidFileProofs!TwoInstancesOnlyForCause` | `Spec => []TwoOnlyForCause` |
| `PidFileProofs!RefusedAloneOnlyForCause` | `Spec => []RefusedOnlyForCause` |
| `ControlMenuProofs!MenuTypeCorrect` | `Spec => []TypeOK` |
| `ControlMenuProofs!ShownIsUpOrFell` | `Spec => []ShownLostOnlyIfItFell` |
| `ControlMenuProofs!FieldsComplete` | `PlainQuotes => (Spec => []NoEmptyAgent)` |
| `ControlMenuProofs!ChosenIsMarked` | `Spec => []MarkedWasChosen` |
| `IntakeProofs!IntakeTypeCorrect` | `Spec => []IntakeTypeOK` |
| `IntakeProofs!WordsInOnePlace` | `Spec => []EachWordOnce` |
| `IntakeProofs!AnswersAreMeant` | `Spec => []AnswersMeantAsSuch` |
| `IntakeProofs!CleanedForGood` | `Spec => []NothingLeftBehind` |
| `IntakeProofs!SumsAreStored` | `Spec => []StoredIsExact` |
| `IntakeProofs!CostsAdd` | `Spec => CostOnlyGrows` |

The arguments:

- *Runner.* A lemma flattens a step into its cases once. Type correctness includes that an
  unlaunched process has no owner; with it, an entry of the map can only be written by `Launch`,
  which also sets the owner (`MapConsistent`), and a process that is launched was never killed,
  so `Interrupt`'s removal is final; that the forwarding goroutine finds `alive` cleared, and so removes
  its entry, is `ClosedIsDead`. Together they give `GoneUnregistered`. The
  loss theorem needs them: an entry is overwritten only when its process is dead, so a live
  process can leave the map only through a removal by another process of its session.
  `OneProcessUnlessLate` is the converse: agent.go:10's promise, which `Spec` does not keep, holds in
  every behaviour in which no removal by session identifier finds a live process. Its invariant
  is that a live process is the one its session's entry names. So a `removeSession` that left a
  live entry alone would repair the promise, and nothing else has to change.
- *Router over runner.* `HandlerInv` says that locals have their types and that a goroutine's
  session, message and process are assigned wherever it uses them. With it each action that
  calls the runner is a step of `RunnerNext`, so the runner's theorems hold under the router.
- *Conversations.* What a goroutine stores comes from locals taken long before. `ConvInv` adds
  that the conversation and the process in a message's locals belong to the session in those
  locals: a drain keeps that session, and a process keeps its owner (`OwnerKept`).
- *Messages.* `StepKinds` reduces the thirty actions to eight kinds of what a step does to
  messages. `PlaceInv` says that a message that has not come in is nowhere, one in hand is in one
  goroutine's hands only, one that waits was never sent and has one position, and only a
  goroutine past Send holds a message that was sent: this gives `RunAtMostOnce`. With
  `NoneIsLost` (a message that came in and is not settled is in hand or waits) it gives
  `Conserved`, and the refinement, whose mapping reads a message's status off its place.
- *Output.* `NoSendOnClosed` is not inductive; `Joined` follows waitForExit from its join: past
  it both readers are done and the process dead, and the channel is closed exactly at its end.
  `LineInv` adds to `InOrder` that the lines read so far are those that
  arrived, are under way through the two channels, or were dropped. `Ends`
  follows the reader, the forwarder and the turn: a reader that ended has nothing more to take, or
  failed, and then it pushes the error chunk unless the process was stopped; the turn that saw the channel
  closed has nothing behind it. This gives `LossAccounted`.
- *Binding.* A binding is written from what a goroutine took with it two statements earlier.
  `LocalOK` says that its session was made for its bot: `NeverAnothersBot` follows. For
  `BoundWhenUndisturbed`, `BetweenStatements` says what the two columns hold after each statement of
  a goroutine that works on a bot alone, and that nobody else does unless the bot is excused.
- *Answers.* `ServedOnce`: an entry leaves `pendingAcks` by the failed write, the timeout or an
  answer, and only the last sends an ack, once, on a channel of capacity one that is empty. `BodyInv`: the
  body is stored before the waiter is looked up, so who is woken with success finds it; a body
  that comes after that belongs to an answer which is late or comes again.
- *Channel.* `NoLeakedSocket` and `ReconnectsFromNothing` need each other, and `ChanOK` joins them:
  an open socket is the connection; between the read error and the dial there is none. It also
  counts the closings of `done`, one for each of the two goroutines that may close it.
- *Gateway.* Every step is a step of the channels, because the request that connects or closes
  has the channel of the entry in its hands. `EntryOK` says of the request that holds the mutex
  which channels run at that point; when nobody holds it, this is `RegisteredIsRunning`.
- *PID file.* `TwoOnlyForCause` is not inductive; `OwnsFile` says that, as long as none of the five
  causes is there, one instance starts up at a time, the file that it has opened is there until its PID is
  in it, and a running instance owns the file. `FileIsRunning` says that, as long as none of the other
  four is there, a PID in the file is that of a running instance and nobody was refused alone.
- *Delivery.* `TurnOK` follows a turn to its end: the broken flag says exactly that a refresh has
  failed, nothing counts as the answer before the last message, and at the end an answer was pushed and
  acknowledged, was pushed in vain, had no connection, or, if no refresh had failed, is in the bubble, in
  a stream that expired, or in a frame that was missed.
- *Menus.* `MenuInv` adds to the types what a goroutine's locals hold where they are used. For
  `ShownIsUpOrFell`, an item shown as connected, in the list or in the copies that a goroutine has of it, is
  of a channel that is up or has fallen since the last /list that nobody overlapped: that /list forgets what fell
  only where no other copy of the list is under way (`MakesAlone`). For `FieldsComplete`, `FieldsInv` says which
  fields the menu has asked for already and that none of them is empty, in the shared state and wherever
  a goroutine has taken a copy; `PlainQuotes` is needed, because a quote of a later prompt sets
  the menu without asking (section 6). For `ChosenIsMarked`, `ChosenInv` ties the index in a
  goroutine's hands to the list it was chosen from, which others may extend but not replace unnoticed.
- *Words.* `ControlInv` gives every place its local variables (whoever is handled has a session,
  whoever has words in hand has some). `WordInv` says of each message that it is in at most one
  goroutine's hands, at most one place of the fragments and one of the queues, in no two of
  these, and that it ended once otherwise; the sum of `EachWordOnce` counts these places.
- *Questions.* `TurnInv`: two goroutines never have the same turn, and a turn in progress is
  that of a message which has ended, so no turn begins twice. A question is of a turn that is
  over, which stays over: it is asked once, and pending in one session. What waited when it was
  asked still waits as long as it is pending (`QuestionOK`), because the drain deletes
  both in one section; a message in hand waits nowhere, so it is not one of these.
- */new.* `CleanInv`: no message has a released session that was cleaned with nothing under
  way, and none can find it, since released sessions are bound no more.
- *Costs.* `RecordInv`: a record is of one session, and of a turn that was counted, so that a
  turn that ends makes a record nobody has. `SumOK` says, unless the session is *unsure*, that at most
  one of its turns is on its way from the record to the row, that the record, the sum it read, and,
  without a record, every total a goroutine saw equal what the turns have cost.

What the proofs found: `NothingLeftBehind` was first stated of every session that a /new has
released, once all goroutines are done with it. This holds for one /new and is false for two that overlap:
`ReleaseBot` takes the bot from whatever session has it, which may be a newer one than the /new
looked up (handler.go:156-186), and this one is never cleaned. It is now stated of the
sessions that were released and then cleaned.

Every safety property of every passing run, invariant or property of steps, is proved, and so
is the one refinement (`NoEmptyAgent` with `PlainQuotes`, which the run's instance has too). Only
model-checked: liveness (`StopAdvancesQueue`, `StoppedCloses`, `StoppedTurnEnds`, `RequestsEnd`,
`LostIsRepairedOrGivenUp`, `ExpiredIsNoticed`), because fairness and ENABLED are out of TLAPS's
reach. Type correctness that is proved is in no run, but for those of `router` and `pid_file`. The
invariants of `IntakeProofs`, `ControlMenuProofs` and of the delivery were checked by TLC on small
instances before they were proved. No module uses a RECURSIVE operator. Induction over data cannot be done with the
installed provers: `InOrder` and `LossAccounted` are therefore stated over positions of the channels
and not over filtered sequences.

## 6. Where the code and its documentation disagree

`router_stranded` is a run. The others are definitions in the section "what the comments promise" of
their module; each is violated when it is added to the `.cfg` named, with the change given.

| Promise | Definition | Says | Does | To see it |
|---|---|---|---|---|
| README.md:184-186 | `Router!QueueDrained` | queued messages are processed after the current turn | a turn that is refused, or whose launch or send fails, returns without draining | run `router_stranded` |
| README.md:187 | `Router!StopSkipsQueue` | /stop interrupts and skips the queue | it interrupts, and the next message of the queue is taken (`StopAdvancesQueue`) | `MCRouterAfterStop.cfg`, as a PROPERTY |
| router.go:74 | `Router!InterruptedWasStopped` | the flag belongs to a stopped process | set after the kill, it may label the next turn | `MCRouterAfterStop.cfg` |
| runner.go:36 | `Router!OneConversationPerSession` | Start is for a session with nothing to resume | a stale snapshot starts a second conversation | `MCRouterAfterStop.cfg` |
| agent.go:10 | `AgentRunner!OneLiveProcessPerSession` | ErrBusy while the previous process runs | removal by session id hides a live process | `MCRouterStranded.cfg`, 3 messages and processes |
| procman.go:47 | `AgentRunner!DeathIsDated` | diedAt is set in waitForExit | it is never set | `MCRouterAfterStop.cfg` |
| procman.go:339 | `OutputPipe!AllConsumedBeforeClose` | all output is consumed | `cmd.Wait` closes the pipes first | `MCOutputPipe.cfg` |
| procman_test.go:943 | `OutputPipe!NothingDropped` | large outputs without drops | a full channel drops | `MCOutputPipe.cfg` |
| runner.go:136 | `OutputPipe!AutoRemoved` | the session is removed when the process exits | the forwarder may block for ever | `MCOutputPipe.cfg` |
| README.md:38 | `BotBinding!OneSessionPerBot` | one bot per session | two /new at once bind two | `MCBotBinding.cfg` |
| botpool.go:1-3 | `BotBinding!BotAlwaysBound` | always bound | a failure or restart leaves it idle | `MCBotBinding.cfg` |
| gateway.go:128-130 | `Gateway!OneConnectionPerBot` | reopen closes the old connection | a redial outlives Close | `MCGateway.cfg`, 2 sockets, 1 attempt |
| wecom.go:155 | `WecomChannel!ClosedIsNotConnected` | Close closes | a redial in progress connects again | `MCWecomChannel.cfg` |
| wecom.go:622-624 | `WecomChannel!DoneClosedOnce` | done is closed once | test and close race Close's | `MCWecomChannel.cfg` |
| wecom.go:83 | `WecomSend!OnlyUploadBodiesKept` | bodies of uploads | bodies of every answer | `MCWecomSend.cfg` |
| wecom.go:87-89 | `WecomSend!ExpiredIsRemembered` | the next frame fails fast | one slot for all streams | `MCWecomSend.cfg`, 2 streams |
| router.go:55-56 | `StreamDelivery!RefusedIsResent` | resent on failure | the last frame's failure is ignored | `MCStreamDelivery.cfg` |
| controller.go:541 | `ControlMenu!MarksReconnected` | reconnects that agent | the list may have changed under the index | `MCControlMenu.cfg` |
| controller.go:540 | `ControlMenu!DisconnectedIsReconnected` | a number reconnects a disconnected agent | the remembered status decides; another /list puts it right (`ShownLostOnlyIfItFell`) | `MCControlMenu.cfg`, a first bot |
| controller.go:622 | `ControlMenu!QuoteLeadsToItsMenu` | the quote determines the menu | one prompt is not recognised, others overtake | `Quoted = {"workdir"}` |
| controller.go:393 | `ControlMenu!OfferIsKept` | "reply 1 to create one" | the menu is left, 1 shows the main menu | `MCControlMenu.cfg` |
| router.go:119-120 | `Accounting!KnownIsNumber` | the cost is unknown for a model without a price | after a priced model NaN counts as known | `MCIntake.cfg` |
| router.go:82 | `Intake!ImagesForgotten` | a listing waits for a number | /new leaves the listing of the old session | `MCIntake.cfg` |
| router.go:350 | `Intake!NumberAnswersQuestion` | a number answers the agent's question | a listing takes the number | `MCIntake.cfg` |
| main.go:86 | `PidFile!OneInstance` | prevents duplicates | check and write race; signal 0 fails on Windows and for another user's process; make.ps1 removes the file | `MCPidFile.cfg` |
| main.go:40 | `PidFile!StaleNeverRefuses` | a stale file is cleaned up | its PID may be in use again, also after /restart | `MCPidFile.cfg` |

With a later prompt in `Quoted` `NoEmptyAgent` fails as well: quoting the last one jumps to the end
of the dialogue with no field entered. `PlainQuotes` (main menu, first prompt, work directory, list) excludes these.

## 7. Plan

Done in this order, by importance: runner and router, output, queue refinement, binding,
connection, gateway, sending, delivery, menus, PID file, intake and accounting; then the proofs
of section 5. To come:

1. *Refresh schedule*: frames within a minute under text chunks that reset the ticker.

## 8. Not modelled

- Parsing of the agent's JSON, environment report, ANSI stripping, wording of replies, box
  styles, menus' texts: pure data, nothing depends on their form except `detectMenuStage`.
- `StatusManager` (`internal/router/status.go`): logs only. Admin panel: reads only.
- Floating-point rounding of costs. Configuration, encryption, migrations: one start-up step.
- `SendImage` beyond its commands, the search for image files, script execution (`/cmd`), the text
  of `/workdir` (in `Intake` it is a message whose words go to the agent).
- `HandleWorkerEvent`: one greeting, no state.
- Data races on the unsynchronised reads of `Process.sessionID` and `Router` fields beyond the
  ones in `ControlMenu`: the values read are those of one assignment, before or after.
- `CloseWorkerChannel` and `PrepareClose`: nothing calls them.

------------------------------- MODULE Intake -------------------------------
(***************************************************************************)
(* What becomes of the words a user says to a worker bot, before and while *)
(* they are a turn: HandleWorkerMessage and the four maps of the router    *)
(* that remember something of a session between messages (router.go,       *)
(* handler.go): pendingFragments, pendingImageChoices, pendingQuestions    *)
(* and pendingMessages; and sessionUsage, in module Accounting.            *)
(*                                                                         *)
(* A message is a goroutine; what its text is matters where the code looks *)
(* at it, and is chosen there.  The answers of the runner and of the       *)
(* channel are free: module Router has what they depend on, conversations  *)
(* and /stop.  A restart of the program may come at any time.              *)
(***************************************************************************)
EXTENDS Accounting, FiniteSets, Sequences, SequencesExt

CONSTANTS
  NewCmd,       \* "/new" messages
  FirstSession, \* the session the bot is bound to at start
  MaxRestarts   \* bound on the restarts of the program

Handler == Msg \cup NewCmd

ASSUME IntakeConstants ==
  /\ FirstSession \in Session /\ None \notin Session
  /\ Msg \cap NewCmd = {} /\ MaxRestarts \in Nat

VARIABLES
  bound,    \* sessions whose bound_bot_id is the bot
  frags,    \* pendingFragments
  images,   \* pendingImageChoices, named by the "/img" that listed them
  question, \* pendingQuestions, with what waited in the queue when it was asked
  queue,    \* pendingMessages: each is the sequence of messages joined in it
  pc,       \* where a goroutine is
  frame,    \* its local variables
  restarts, \* restarts so far
  ends,     \* history: how often a message ended
  picked,   \* history: how often a listing was picked from
  answered, \* history: how often a question was answered
  unmeant,  \* history: messages that answered a question asked while they waited
  released, \* history: sessions a /new has taken the bot from
  cleaned   \* history: released sessions that /new cleaned with no message under way

mapVars == <<frags, images, question, queue>>
histVars == <<ends, picked, answered, unmeant, released, cleaned>>
ivars == <<bound, mapVars, pc, frame, restarts, histVars>>
vars == <<avars, ivars>>

Label == {"idle", "list", "choose", "collect", "launch", "send", "stream", "read", "store",
          "finish", "drain", "release", "clean", "bind", "end"}

\* The session and its total as looked up, and the messages joined in the one in hand.
Frame == [id : Session \cup {None}, base : Nat, parts : Seq(Msg)]
NoFrame == [id |-> None, base |-> 0, parts |-> <<>>]

Question == [by : Msg, waiting : SUBSET Msg]

IntakeTypeOK ==
  /\ AccountingTypeOK
  /\ bound \subseteq Session
  /\ frags \in [Session -> Seq(Msg)]
  /\ images \in [Session -> Msg \cup {None}]
  /\ \A s \in Session : question[s] = None \/ question[s] \in Question
  /\ queue \in [Session -> Seq(Seq(Msg))]
  /\ pc \in [Handler -> Label]
  /\ frame \in [Handler -> Frame]
  /\ restarts \in 0..MaxRestarts
  /\ ends \in [Msg -> Nat] /\ picked \in [Msg -> Nat] /\ answered \in [Msg -> Nat]
  /\ unmeant \subseteq Msg
  /\ released \subseteq Session /\ cleaned \subseteq Session

Init ==
  /\ AccountingInit
  /\ bound = {FirstSession}
  /\ frags = [s \in Session |-> <<>>] /\ images = [s \in Session |-> None]
  /\ question = [s \in Session |-> None] /\ queue = [s \in Session |-> <<>>]
  /\ pc = [h \in Handler |-> "idle"] /\ frame = [h \in Handler |-> NoFrame]
  /\ restarts = 0
  /\ ends = [m \in Msg |-> 0] /\ picked = ends /\ answered = ends
  /\ unmeant = {} /\ released = {} /\ cleaned = {}

At(h, label) == pc[h] = label
Goto(h, label) == pc' = [pc EXCEPT ![h] = label]
Return(h) == Goto(h, "end") /\ frame' = [frame EXCEPT ![h] = NoFrame]

SessionOf(h) == frame[h].id
Parts(h) == frame[h].parts
\* The turn of the message in hand is named by its last part.
TurnOf(h) == Last(Parts(h))

Settle(ms) == ends' = [m \in Msg |-> IF m \in ms THEN ends[m] + 1 ELSE ends[m]]

-----------------------------------------------------------------------------
(* HandleWorkerMessage and handleCommand.                                   *)

\* The session is looked up: an "/img", a "/workdir" or a text.
HandleWorkerMessage(m) ==
  /\ At(m, "idle")
  /\ \E s \in bound, next \in {"list", "launch", "choose"} :
       /\ frame' = [frame EXCEPT ![m] = [id |-> s, base |-> stored[s], parts |-> <<m>>]]
       /\ Goto(m, next)
  /\ UNCHANGED <<avars, bound, mapVars, restarts, histVars>>

\* A reply and nothing else: no session, a voice message, any other command, an "/img"
\* that sends its image at once, finds none or has no connection.
OnlyReplies(m) ==
  /\ At(m, "idle") \/ At(m, "list")
  /\ Return(m)
  /\ Settle({m})
  /\ UNCHANGED <<avars, bound, mapVars, restarts, picked, answered, unmeant, released, cleaned>>

\* handleSendImage: several images match; the listing replaces an earlier one.
ListImages(m) ==
  /\ At(m, "list")
  /\ Return(m)
  /\ images' = [images EXCEPT ![SessionOf(m)] = m]
  /\ Settle({m})
  /\ UNCHANGED <<avars, bound, frags, question, queue, restarts, picked, answered, unmeant,
                 released, cleaned>>

PicksImage_Keeps(m) ==
  LET s == SessionOf(m) IN
  /\ At(m, "choose") /\ images[s] # None
  /\ Return(m)
  /\ Settle({m}) /\ picked' = [picked EXCEPT ![images[s]] = @ + 1]
  /\ UNCHANGED <<avars, bound, mapVars, restarts, answered, unmeant, released, cleaned>>

\* consumeImageChoice: a number while images are listed picks one and is used up, even
\* if the channel is down by then ...
PicksImage(m) ==
  LET s == SessionOf(m) IN
  /\ At(m, "choose") /\ images[s] # None
  /\ Return(m)
  /\ images' = [images EXCEPT ![s] = None]
  /\ Settle({m}) /\ picked' = [picked EXCEPT ![images[s]] = @ + 1]
  /\ UNCHANGED <<avars, bound, frags, question, queue, restarts, answered, unmeant, released,
                 cleaned>>

\* ... any other text forgets the listing and goes on.
PicksNothing(m) ==
  /\ At(m, "choose")
  /\ Goto(m, "collect")
  /\ images' = [images EXCEPT ![SessionOf(m)] = None]
  /\ UNCHANGED <<avars, bound, frags, question, queue, frame, restarts, histVars>>

\* collectFragments: a text that ends in "to be continued" is kept ...
KeepFragment(m) ==
  /\ At(m, "collect")
  /\ Return(m)
  /\ frags' = [frags EXCEPT ![SessionOf(m)] = Append(@, m)]
  /\ UNCHANGED <<avars, bound, images, question, queue, restarts, histVars>>

JoinFragments_Keeps(m) ==
  /\ At(m, "collect")
  /\ Goto(m, "launch")
  /\ frame' = [frame EXCEPT ![m].parts = Append(frags[SessionOf(m)], m)]
  /\ UNCHANGED <<avars, bound, mapVars, restarts, histVars>>

\* ... any other takes what was kept with it.
JoinFragments(m) ==
  /\ At(m, "collect")
  /\ Goto(m, "launch")
  /\ frame' = [frame EXCEPT ![m].parts = Append(frags[SessionOf(m)], m)]
  /\ frags' = [frags EXCEPT ![SessionOf(m)] = <<>>]
  /\ UNCHANGED <<avars, bound, images, question, queue, restarts, histVars>>

-----------------------------------------------------------------------------
(* handleLLM, as far as it touches these maps.                              *)

\* No connection, the launch fails or the input cannot be sent: a reply, and all that
\* was joined is gone with the message.
Refused(h) ==
  /\ At(h, "launch") \/ At(h, "send")
  /\ Return(h)
  /\ Settle(ToSet(Parts(h)))
  /\ UNCHANGED <<avars, bound, mapVars, restarts, picked, answered, unmeant, released, cleaned>>

\* The agent is busy.
EnqueueMessage(h) ==
  /\ At(h, "launch")
  /\ Return(h)
  /\ queue' = [queue EXCEPT ![SessionOf(h)] = Append(@, Parts(h))]
  /\ UNCHANGED <<avars, bound, frags, images, question, restarts, histVars>>

Answer(q, m) ==
  IF q = None THEN UNCHANGED <<answered, unmeant>>
  ELSE /\ answered' = [answered EXCEPT ![q.by] = @ + 1]
       /\ unmeant' = IF m \in q.waiting THEN unmeant \cup {m} ELSE unmeant

\* The message in hand becomes the answer of a pending question, used up by this even
\* if the input cannot be sent.
BuildUserInput(h) ==
  /\ At(h, "launch")
  /\ Goto(h, "send")
  /\ Answer(question[SessionOf(h)], TurnOf(h))
  /\ question' = [question EXCEPT ![SessionOf(h)] = None]
  /\ UNCHANGED <<avars, bound, frags, images, queue, frame, restarts, ends, picked, released,
                 cleaned>>

SendToAgent(h) ==
  /\ At(h, "send")
  /\ Goto(h, "stream")
  /\ Settle(ToSet(Parts(h)))
  /\ UNCHANGED <<avars, bound, mapVars, frame, restarts, picked, answered, unmeant, released,
                 cleaned>>

\* The turn ends with a result that has token counts ...
EndsCounted(h) ==
  /\ At(h, "stream")
  /\ \E u \in Usage : AddUsage(TurnOf(h), SessionOf(h), frame[h].base, u)
  /\ Goto(h, "read")
  /\ UNCHANGED <<bound, mapVars, frame, restarts, histVars>>

\* ... or in any other way.
EndsUncounted(h) ==
  /\ At(h, "stream")
  /\ Goto(h, "finish")
  /\ UNCHANGED <<avars, bound, mapVars, frame, restarts, histVars>>

ReadsCost(h) ==
  /\ At(h, "read")
  /\ Goto(h, "store")
  /\ ReadCost(TurnOf(h))
  /\ UNCHANGED <<bound, mapVars, frame, restarts, histVars>>

StoresCost(h) ==
  /\ At(h, "store")
  /\ Goto(h, "finish")
  /\ SetCost(TurnOf(h), SessionOf(h)) \/ SetCostFails(TurnOf(h), SessionOf(h))
  /\ UNCHANGED <<bound, mapVars, frame, restarts, histVars>>

Waiting(s) == UNION {ToSet(queue[s][i]) : i \in DOMAIN queue[s]}

\* The turn was answered and the agent asks something; a question of a turn that was
\* stopped or failed is not asked.
AskQuestion(h) ==
  LET s == SessionOf(h) IN
  /\ At(h, "finish")
  /\ Goto(h, "drain")
  /\ question' = [question EXCEPT ![s] = [by |-> TurnOf(h), waiting |-> Waiting(s)]]
  /\ UNCHANGED <<avars, bound, frags, images, queue, frame, restarts, histVars>>

NothingQueued(h) ==
  /\ At(h, "finish") \/ At(h, "drain")
  /\ queue[SessionOf(h)] = <<>>
  /\ Return(h)
  /\ UNCHANGED <<avars, bound, mapVars, restarts, histVars>>

DrainNext_KeepsQuestion(h) ==
  LET s == SessionOf(h) IN
  /\ At(h, "finish") \/ At(h, "drain")
  /\ queue[s] # <<>>
  /\ Goto(h, "launch")
  /\ frame' = [frame EXCEPT ![h].parts = Head(queue[s])]
  /\ queue' = [queue EXCEPT ![s] = Tail(@)]
  /\ UNCHANGED <<avars, bound, frags, images, question, restarts, histVars>>

\* The next message of the queue, with the snapshot of the last one; it was not said
\* as an answer, so the question is deleted in the same section.
DrainNext(h) ==
  LET s == SessionOf(h) IN
  /\ At(h, "finish") \/ At(h, "drain")
  /\ queue[s] # <<>>
  /\ Goto(h, "launch")
  /\ frame' = [frame EXCEPT ![h].parts = Head(queue[s])]
  /\ question' = [question EXCEPT ![s] = None]
  /\ queue' = [queue EXCEPT ![s] = Tail(@)]
  /\ UNCHANGED <<avars, bound, frags, images, restarts, histVars>>

-----------------------------------------------------------------------------
(* handleNew.                                                               *)

NewLooksUp(h) ==
  /\ At(h, "idle")
  /\ \E s \in bound : frame' = [frame EXCEPT ![h].id = s]
  /\ Goto(h, "release")
  /\ UNCHANGED <<avars, bound, mapVars, restarts, histVars>>

NewReleases_Later(h) ==
  /\ At(h, "release")
  /\ Goto(h, "clean")
  /\ released' = released \cup {SessionOf(h)}
  /\ UNCHANGED <<avars, bound, mapVars, frame, restarts, ends, picked, answered, unmeant,
                 cleaned>>

\* The statement may fail, which is only logged.
NewReleases(h) ==
  /\ At(h, "release")
  /\ Goto(h, "clean")
  /\ \/ bound' = {} /\ released' = released \cup bound
     \/ UNCHANGED <<bound, released>>
  /\ UNCHANGED <<avars, mapVars, frame, restarts, ends, picked, answered, unmeant,
                 cleaned>>

UnderWay(s) == {m \in Msg : SessionOf(m) = s}

\* The listing of images is the one map that is not cleaned.
NewCleans(h) ==
  LET s == SessionOf(h) IN
  /\ At(h, "clean")
  /\ Goto(h, "bind")
  /\ frags' = [frags EXCEPT ![s] = <<>>]
  /\ question' = [question EXCEPT ![s] = None]
  /\ queue' = [queue EXCEPT ![s] = <<>>]
  /\ Forget(s, UnderWay(s) # {})
  /\ cleaned' = IF s \in released /\ UnderWay(s) = {} THEN cleaned \cup {s} ELSE cleaned
  /\ Settle(ToSet(frags[s]) \cup Waiting(s))
  /\ UNCHANGED <<bound, images, frame, restarts, picked, answered, unmeant,
                 released>>

\* The new session; or its row or the binding fails and the bot stays unbound.
NewBinds(h) ==
  /\ At(h, "bind")
  /\ Return(h)
  /\ \/ \E n \in Session \ (bound \cup released) : bound' = bound \cup {n}
     \/ UNCHANGED bound
  /\ UNCHANGED <<avars, mapVars, restarts, histVars>>

-----------------------------------------------------------------------------
\* The program ends at any moment and starts again: only the database remains.
Restart ==
  /\ restarts < MaxRestarts /\ restarts' = restarts + 1
  /\ pc' = [h \in Handler |-> IF pc[h] = "idle" THEN "idle" ELSE "end"]
  /\ frame' = [h \in Handler |-> NoFrame]
  /\ frags' = [s \in Session |-> <<>>] /\ images' = [s \in Session |-> None]
  /\ question' = [s \in Session |-> None] /\ queue' = [s \in Session |-> <<>>]
  /\ ForgetAll({SessionOf(h) : h \in {g \in Msg : pc[g] \in {"read", "store"}}})
  /\ Settle({m \in Msg : pc[m] # "idle" /\ ends[m] = 0})
  /\ UNCHANGED <<bound, picked, answered, unmeant, released, cleaned>>

MsgStep(h) ==
  \/ HandleWorkerMessage(h) \/ OnlyReplies(h) \/ ListImages(h)
  \/ PicksImage(h) \/ PicksNothing(h) \/ KeepFragment(h) \/ JoinFragments(h)
  \/ Refused(h) \/ EnqueueMessage(h) \/ BuildUserInput(h) \/ SendToAgent(h)
  \/ EndsCounted(h) \/ EndsUncounted(h) \/ ReadsCost(h) \/ StoresCost(h)
  \/ AskQuestion(h) \/ NothingQueued(h) \/ DrainNext(h)

NewStep(h) == NewLooksUp(h) \/ NewReleases(h) \/ NewCleans(h) \/ NewBinds(h)

Next ==
  \/ \E h \in Msg : MsgStep(h)
  \/ \E h \in NewCmd : NewStep(h)
  \/ Restart

Spec == Init /\ [][Next]_vars

-----------------------------------------------------------------------------
(* Properties.                                                              *)

InHand(m) ==
  {h \in Msg : Contains(Parts(h), m)
     /\ pc[h] \in {"list", "choose", "collect", "launch", "send"}}
Kept(m) == UNION {{s} \X {i \in DOMAIN frags[s] : frags[s][i] = m} : s \in Session}
InQueue(m) ==
  UNION {{s} \X {i \in DOMAIN queue[s] : Contains(queue[s][i], m)} : s \in Session}

\* Whatever a user said is in one place: in one goroutine's hands, kept for later, in one
\* message of a queue, or ended in one way.  A number that picks an image does not answer
\* a question too; no fragment is joined twice or forgotten when messages of a session,
\* /new and a restart interleave (router.go:242-258, handler.go:338-360, 760-797, 179-186).
EachWordOnce ==
  \A m \in Msg :
    Cardinality(InHand(m)) + Cardinality(Kept(m)) + Cardinality(InQueue(m))
      + ends[m] = (IF At(m, "idle") THEN 0 ELSE 1)

\* A listing of images is picked from at most once, and a question of the agent answered at
\* most once, however many messages of the session are handled at the same time; and no
\* message that waited in the queue when a question was asked answers it: it was said
\* without knowing the question (handler.go:339-351, 481-484, 667-670, 788-791).
AnswersMeantAsSuch ==
  /\ \A m \in Msg : picked[m] <= 1 /\ answered[m] <= 1
  /\ unmeant = {}

\* Once a /new that has taken the bot from a session cleans up with no message of it under
\* way, the router remembers nothing of it ever after: the release comes first, so that no
\* message can find the session any more (handler.go:168, 179-186).
NothingLeftBehind ==
  \A s \in cleaned :
    frags[s] = <<>> /\ queue[s] = <<>> /\ question[s] = None /\ usage[s] = None

\* The stored cost of a session is what its turns have cost, across queued turns with old
\* snapshots and restarts, unless a turn had no price, a statement failed, two turns were
\* between their sum and its row at once, a restart came there, or /new came upon a turn
\* (handler.go:566-584, 185; README.md:193-194).
StoredIsExact ==
  \A s \in Session \ unsure :
    (\A h \in Msg : SessionOf(h) = s => pc[h] \notin {"read", "store"})
      => stored[s] = total[s]

-----------------------------------------------------------------------------
(* What the comments promise.                                               *)

\* router.go:350: a number answers the question of the agent; but a listing of images, shown
\* before or after it, takes the number.
NumberAnswersQuestion ==
  [][\A m \in Msg, s \in Session :
       picked'[m] > picked[m] /\ images[s] = m => question[s] = None]_vars

\* router.go:82: the listing awaits a number; after /new there is nobody to pick from it.
ImagesForgotten == \A s \in released : (\A h \in Handler : SessionOf(h) # s) => images[s] = None
=============================================================================

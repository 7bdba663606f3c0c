---------------------------- MODULE IntakeProofs ----------------------------
(***************************************************************************)
(* What becomes of the words of a user and of the cost of a session, for   *)
(* any number of messages, /new commands, sessions and restarts.           *)
(*                                                                         *)
(* The invariants are proved one after the other, each with the help of    *)
(* those before it: where the goroutines are (ControlInv), where the words *)
(* are (WordInv), which turns run (TurnInv); then what depends on them.    *)
(***************************************************************************)
EXTENDS Intake, SequenceTheorems, FiniteSetTheorems, TLAPS

HandLabel == {"list", "choose", "collect", "launch", "send"}
TurnLabel == {"stream", "read", "store", "finish"}

(***************************************************************************)
(* A message or a /new that is handled has a session; a message has words  *)
(* in hand until its turn ends, only its own until it takes what was kept. *)
(***************************************************************************)
FrameOK(h) ==
  /\ pc[h] \in {"idle", "end"} => frame[h] = NoFrame
  /\ pc[h] \notin {"idle", "end"} => SessionOf(h) \in Session

ControlTypeOK ==
  /\ bound \subseteq Session
  /\ frags \in [Session -> Seq(Msg)]
  /\ images \in [Session -> Msg \cup {None}]
  /\ queue \in [Session -> Seq(Seq(Msg))]
  /\ pc \in [Handler -> Label] /\ frame \in [Handler -> Frame]
  /\ restarts \in 0..MaxRestarts
  /\ released \subseteq Session /\ cleaned \subseteq Session

ControlInv ==
  /\ ControlTypeOK
  /\ \A h \in Handler : FrameOK(h)
  /\ \A m \in Msg :
       /\ pc[m] \notin {"release", "clean", "bind"}
       /\ pc[m] \in HandLabel \cup TurnLabel => Parts(m) # <<>>
       /\ pc[m] \in {"list", "choose", "collect"} => Parts(m) = <<m>>
  /\ \A h \in NewCmd : pc[h] \in {"idle", "release", "clean", "bind", "end"}
  /\ \A s \in Session : \A i \in DOMAIN queue[s] : queue[s][i] # <<>>

(***************************************************************************)
(* The places where a message can be.  It is in at most one of them, in    *)
(* none before it is handled and in one from then on.                      *)
(***************************************************************************)
Hand(h, m) == pc[h] \in HandLabel /\ m \in ToSet(Parts(h))
KeptAt(s, i, m) == i \in DOMAIN frags[s] /\ frags[s][i] = m
QueuedAt(s, i, m) == i \in DOMAIN queue[s] /\ m \in ToSet(queue[s][i])

InHands(m) == \E h \in Msg : Hand(h, m)
IsKept(m) == \E s \in Session, i \in Nat : KeptAt(s, i, m)
IsQueued(m) == \E s \in Session, i \in Nat : QueuedAt(s, i, m)
Ended(m) == ends[m] # 0

Apart(m) ==
  /\ InHands(m) => ~ IsKept(m) /\ ~ IsQueued(m) /\ ~ Ended(m)
  /\ IsKept(m) => ~ IsQueued(m) /\ ~ Ended(m)
  /\ IsQueued(m) => ~ Ended(m)
  /\ \A h, g \in Msg : Hand(h, m) /\ Hand(g, m) => h = g
  /\ \A s, t \in Session, i, j \in Nat : KeptAt(s, i, m) /\ KeptAt(t, j, m) => s = t /\ i = j
  /\ \A s, t \in Session, i, j \in Nat :
       QueuedAt(s, i, m) /\ QueuedAt(t, j, m) => s = t /\ i = j

Somewhere(m) == InHands(m) \/ IsKept(m) \/ IsQueued(m) \/ Ended(m)

WordOK(m) == ends[m] <= 1 /\ Apart(m) /\ (pc[m] = "idle" <=> ~ Somewhere(m))

WordInv == ends \in [Msg -> Nat] /\ \A m \in Msg : WordOK(m)

(***************************************************************************)
(* A turn runs once: it is named by a message that has ended, no other     *)
(* goroutine has the same one, and no turn starts again.                   *)
(***************************************************************************)
InTurn(h) == pc[h] \in TurnLabel

TurnInv ==
  /\ \A h \in Msg : InTurn(h) => Ended(TurnOf(h))
  /\ \A h, g \in Msg : InTurn(h) /\ InTurn(g) /\ TurnOf(h) = TurnOf(g) => h = g

\* The turn has run.
Over(t) == Ended(t) /\ \A h \in Msg : InTurn(h) => TurnOf(h) # t

(***************************************************************************)
(* A listing of images is of a message that lists no more; a question is   *)
(* of a turn that is over, and what waited when it was asked still waits.  *)
(***************************************************************************)
Picked(m) == picked[m] # 0
Listed(m) == \E s \in Session : images[s] = m

ImageInv ==
  /\ picked \in [Msg -> Nat]
  /\ \A m \in Msg :
       /\ picked[m] <= 1
       /\ Listed(m) => ~ Picked(m)
       /\ Listed(m) \/ Picked(m) => pc[m] \notin {"idle", "list"}
  /\ \A s, t \in Session : images[s] = images[t] /\ images[s] # None => s = t

QuestionOK(s) ==
  /\ question[s] \in Question
  /\ Over(question[s].by) /\ answered[question[s].by] = 0
  /\ question[s].waiting \subseteq Waiting(s)

QuestionInv ==
  /\ question \in [Session -> Question \cup {None}]
  /\ answered \in [Msg -> Nat]
  /\ \A m \in Msg : answered[m] <= 1 /\ (answered[m] # 0 => Over(m))
  /\ \A s \in Session : question[s] # None => QuestionOK(s)
  /\ \A s, t \in Session :
       question[s] # None /\ question[t] # None /\ question[s].by = question[t].by => s = t
  /\ unmeant = {}

(***************************************************************************)
(* What /new has left: no message can find the session again.              *)
(***************************************************************************)
CleanInv ==
  /\ bound \cap released = {} /\ cleaned \subseteq released
  /\ \A s \in cleaned : \A h \in Msg : SessionOf(h) # s
  /\ NothingLeftBehind

(***************************************************************************)
(* The records: each is of one session and of a turn that has been counted *)
(* already, and a turn that stores its sum holds one.                      *)
(***************************************************************************)
Counted(t) == Ended(t) /\ \A h \in Msg : pc[h] = "stream" => TurnOf(h) # t
Stores(h) == pc[h] \in {"read", "store"}

RecordInv ==
  /\ AccountingTypeOK
  /\ \A s \in Session : usage[s] # None => Counted(usage[s])
  /\ \A s, t \in Session : usage[s] = usage[t] /\ usage[s] # None => s = t
  /\ \A h \in Msg : Stores(h) => holds[TurnOf(h)] # None

(***************************************************************************)
(* The sums of a session: its record has what its turns have cost, and so  *)
(* has the total that a first turn would start from; at most one turn is   *)
(* on its way from the record to the row.                                  *)
(***************************************************************************)
SumOK(s) ==
  /\ \A h \in Msg : SessionOf(h) = s /\ Stores(h) =>
       usage[s] # None /\ holds[TurnOf(h)] = usage[s]
  /\ \A h, g \in Msg :
       SessionOf(h) = s /\ Stores(h) /\ SessionOf(g) = s /\ Stores(g) => h = g
  /\ usage[s] # None => acc[usage[s]] = total[s]
  /\ usage[s] = None => \A h \in Msg : SessionOf(h) = s => frame[h].base = total[s]
  /\ \A h \in Msg : SessionOf(h) = s /\ pc[h] = "store" => due[TurnOf(h)] = total[s]
  /\ (\A h \in Msg : SessionOf(h) = s => ~ Stores(h)) => stored[s] = total[s]

SumInv == \A s \in Session \ unsure : SumOK(s)

-----------------------------------------------------------------------------
(* Where the goroutines are.                                               *)

\* A goroutine may be at this place with this frame.
GoroutineOK(h, label, f) ==
  /\ label \in Label /\ f \in Frame
  /\ label \in {"idle", "end"} => f = NoFrame
  /\ label \notin {"idle", "end"} => f.id \in Session
  /\ h \in Msg =>
       /\ label \notin {"release", "clean", "bind"}
       /\ label \in HandLabel \cup TurnLabel => f.parts # <<>>
       /\ label \in {"list", "choose", "collect"} => f.parts = <<h>>
  /\ h \in NewCmd => label \in {"idle", "release", "clean", "bind", "end"}

MapsOK ==
  /\ bound' \subseteq Session
  /\ frags' \in [Session -> Seq(Msg)] /\ images' \in [Session -> Msg \cup {None}]
  /\ queue' \in [Session -> Seq(Seq(Msg))]
  /\ \A s \in Session : \A i \in DOMAIN queue'[s] : queue'[s][i] # <<>>
  /\ restarts' \in 0..MaxRestarts
  /\ released' \subseteq Session /\ cleaned' \subseteq Session

Moves(h, label, f) ==
  /\ GoroutineOK(h, label, f)
  /\ pc' = [pc EXCEPT ![h] = label] /\ frame' = [frame EXCEPT ![h] = f]

LEMMA MapsStay ==
  ASSUME ControlInv, UNCHANGED <<bound, frags, images, queue, restarts, released, cleaned>>
  PROVE  MapsOK
  BY DEF ControlInv, ControlTypeOK, MapsOK

LEMMA GoroutinesOK ==
  ASSUME ControlInv, NEW h \in Handler
  PROVE  GoroutineOK(h, pc[h], frame[h])
  BY DEF ControlInv, ControlTypeOK, FrameOK, GoroutineOK, SessionOf, Parts

LEMMA ControlOne ==
  ASSUME ControlInv, NEW h \in Handler, NEW label, NEW f, Moves(h, label, f), MapsOK
  PROVE  ControlInv'
<1>1. ControlTypeOK'
  BY DEF ControlInv, ControlTypeOK, MapsOK, Moves, GoroutineOK
<1>2. /\ pc'[h] = label /\ frame'[h] = f
      /\ \A g \in Handler \ {h} : pc'[g] = pc[g] /\ frame'[g] = frame[g]
  BY DEF Moves, ControlInv, ControlTypeOK
<1>3. \A g \in Handler : GoroutineOK(g, pc'[g], frame'[g])
  BY <1>2, GoroutinesOK DEF Moves
<1> HIDE DEF Moves
<1>4. \A g \in Handler : FrameOK(g)'
  BY <1>3 DEF GoroutineOK, FrameOK, SessionOf
<1>5. Msg \subseteq Handler /\ NewCmd \subseteq Handler
  BY DEF Handler
<1> QED
  BY <1>1, <1>3, <1>4, <1>5 DEF MapsOK, ControlInv, GoroutineOK, Parts

LEMMA NoFrameOK == NoFrame \in Frame /\ \A h \in Msg : GoroutineOK(h, "end", NoFrame)
<1>1. <<>> \in Seq(Msg)
  BY EmptySeq
<1>2. NoFrame \in Frame
  BY <1>1 DEF NoFrame, Frame
<1> QED
  BY <1>2, IntakeConstants DEF GoroutineOK, Label, HandLabel, TurnLabel

\* The words in hand and the frames they are in.
LEMMA FrameFacts ==
  ASSUME ControlInv, NEW m \in Msg
  PROVE  /\ m \in Handler /\ m \notin NewCmd /\ <<m>> \in Seq(Msg) /\ <<m>> # <<>>
         /\ frame[m] \in Frame /\ Parts(m) \in Seq(Msg)
         /\ pc[m] \notin {"idle", "end"} => SessionOf(m) \in Session
         /\ \A p \in Seq(Msg) : /\ [frame[m] EXCEPT !.parts = p] \in Frame
                                /\ [frame[m] EXCEPT !.parts = p].parts = p
                                /\ [frame[m] EXCEPT !.parts = p].id = SessionOf(m)
<1>1. m \in Handler /\ m \notin NewCmd
  BY IntakeConstants DEF Handler
<1>2. <<m>> \in Seq(Msg) /\ <<m>> # <<>>
  OBVIOUS
<1>3. frame[m] \in Frame
  BY <1>1 DEF ControlInv, ControlTypeOK
<1>4. pc[m] \notin {"idle", "end"} => SessionOf(m) \in Session
  BY <1>1 DEF ControlInv, FrameOK
<1> QED
  BY <1>1, <1>2, <1>3, <1>4 DEF Frame, Parts, SessionOf

\* A message that is handled or kept.
LEMMA ControlReturns ==
  ASSUME ControlInv, NEW m \in Msg, Return(m), MapsOK
  PROVE  ControlInv'
<1>1. Moves(m, "end", NoFrame)
  BY NoFrameOK DEF Moves, Return, Goto
<1> QED
  BY <1>1, ControlOne DEF Handler

\* A message that goes on with the frame it has.
LEMMA ControlGoesOn ==
  ASSUME ControlInv, NEW m \in Msg, NEW label \in Label, Goto(m, label), frame' = frame, MapsOK,
         label \notin {"idle", "end", "release", "clean", "bind"}, SessionOf(m) \in Session,
         label \in HandLabel \cup TurnLabel => Parts(m) # <<>>,
         label \in {"list", "choose", "collect"} => Parts(m) = <<m>>
  PROVE  ControlInv'
<1>1. GoroutineOK(m, label, frame[m])
  BY FrameFacts DEF GoroutineOK, SessionOf, Parts
<1>2. frame' = [frame EXCEPT ![m] = frame[m]]
  BY DEF ControlInv, ControlTypeOK
<1>3. Moves(m, label, frame[m])
  BY <1>1, <1>2 DEF Moves, Goto
<1> QED
  BY <1>3, ControlOne DEF Handler

LEMMA ControlReplies ==
  ASSUME ControlInv, NEW m \in Msg,
         \/ OnlyReplies(m) \/ ListImages(m) \/ PicksImage(m) \/ KeepFragment(m) \/ Refused(m)
         \/ EnqueueMessage(m) \/ NothingQueued(m)
  PROVE  ControlInv'
<1>1. Return(m)
  BY DEF OnlyReplies, ListImages, PicksImage, KeepFragment, Refused, EnqueueMessage,
     NothingQueued
<1>2. CASE OnlyReplies(m) \/ Refused(m) \/ NothingQueued(m)
  BY <1>1, <1>2, MapsStay, ControlReturns DEF OnlyReplies, Refused, NothingQueued, mapVars,
     histVars
<1>3. CASE ListImages(m) \/ PicksImage(m)
  <2>1. images' \in [Session -> Msg \cup {None}]
    BY <1>3 DEF ListImages, PicksImage, ControlInv, ControlTypeOK
  <2>2. MapsOK
    BY <1>3, <2>1 DEF ListImages, PicksImage, MapsOK, ControlInv, ControlTypeOK
  <2> QED
    BY <1>1, <2>2, ControlReturns
<1>4. CASE KeepFragment(m)
  <2>1. SessionOf(m) \in Session /\ frags[SessionOf(m)] \in Seq(Msg)
    BY <1>4, FrameFacts DEF KeepFragment, At, ControlInv, ControlTypeOK
  <2>2. Append(frags[SessionOf(m)], m) \in Seq(Msg)
    BY <2>1, AppendProperties
  <2>3. MapsOK
    BY <1>4, <2>2 DEF KeepFragment, MapsOK, ControlInv, ControlTypeOK, histVars
  <2> QED
    BY <1>1, <2>3, ControlReturns
<1>5. CASE EnqueueMessage(m)
  <2> DEFINE s == SessionOf(m)
             q == Append(queue[s], Parts(m))
  <2>1. /\ s \in Session /\ queue[s] \in Seq(Seq(Msg))
        /\ Parts(m) \in Seq(Msg) /\ Parts(m) # <<>>
    BY <1>5, FrameFacts
       DEF EnqueueMessage, At, ControlInv, ControlTypeOK, HandLabel
  <2>2. /\ q \in Seq(Seq(Msg))
        /\ \A i \in DOMAIN q : q[i] # <<>>
    <3>1. /\ q \in Seq(Seq(Msg)) /\ DOMAIN q = 1..(Len(queue[s]) + 1)
          /\ DOMAIN queue[s] = 1..Len(queue[s]) /\ Len(queue[s]) \in Nat
          /\ \A i \in 1..Len(queue[s]) : q[i] = queue[s][i]
          /\ q[Len(queue[s]) + 1] = Parts(m)
      BY <2>1, AppendProperties, LenProperties
    <3>2. \A i \in DOMAIN queue[s] : queue[s][i] # <<>>
      BY <2>1 DEF ControlInv
    <3> QED
      BY <2>1, <3>1, <3>2
  <2>3. queue' = [queue EXCEPT ![s] = q]
    BY <1>5 DEF EnqueueMessage
  <2> HIDE DEF q, s
  <2>4. MapsOK
    BY <1>5, <2>2, <2>3 DEF EnqueueMessage, MapsOK, ControlInv, ControlTypeOK, histVars
  <2> QED
    BY <1>1, <2>4, ControlReturns
<1> QED
  BY <1>2, <1>3, <1>4, <1>5

LEMMA ControlGoes ==
  ASSUME ControlInv, NEW m \in Msg,
         \/ PicksNothing(m) \/ BuildUserInput(m) \/ SendToAgent(m) \/ EndsCounted(m)
         \/ EndsUncounted(m) \/ ReadsCost(m) \/ StoresCost(m) \/ AskQuestion(m)
  PROVE  ControlInv'
<1>1. /\ pc[m] \in {"choose", "launch", "send", "stream", "read", "store", "finish"}
      /\ pc[m] = "choose" <=> PicksNothing(m)
  BY DEF PicksNothing, BuildUserInput, SendToAgent, EndsCounted, EndsUncounted, ReadsCost,
     StoresCost, AskQuestion, At
<1>2. SessionOf(m) \in Session /\ Parts(m) # <<>> /\ (PicksNothing(m) => Parts(m) = <<m>>)
  BY <1>1, FrameFacts DEF ControlInv, HandLabel, TurnLabel
<1>3. MapsOK
  <2>1. CASE PicksNothing(m)
    <3>1. images' \in [Session -> Msg \cup {None}]
      BY <2>1 DEF PicksNothing, ControlInv, ControlTypeOK
    <3> QED
      BY <2>1, <3>1 DEF PicksNothing, MapsOK, ControlInv, ControlTypeOK, histVars
  <2>2. CASE ~ PicksNothing(m)
    <3>1. UNCHANGED <<bound, frags, images, queue, restarts, released, cleaned>>
      BY <2>2 DEF BuildUserInput, SendToAgent, EndsCounted,
         EndsUncounted, ReadsCost, StoresCost, AskQuestion, mapVars, histVars
    <3> QED
      BY <3>1, MapsStay
  <2> QED
    BY <2>1, <2>2
<1>4. frame' = frame
  BY DEF PicksNothing, BuildUserInput, SendToAgent, EndsCounted, EndsUncounted, ReadsCost,
     StoresCost, AskQuestion
<1>5. CASE PicksNothing(m)
  BY <1>2, <1>3, <1>4, <1>5, ControlGoesOn DEF PicksNothing, Label
<1>6. CASE ~ PicksNothing(m)
  <2>1. \/ Goto(m, "send") \/ Goto(m, "stream") \/ Goto(m, "read") \/ Goto(m, "store")
        \/ Goto(m, "finish") \/ Goto(m, "drain")
    BY <1>6 DEF BuildUserInput, SendToAgent, EndsCounted, EndsUncounted, ReadsCost,
       StoresCost, AskQuestion
  <2> QED
    BY <1>2, <1>3, <1>4, <2>1, ControlGoesOn DEF Label
<1> QED
  BY <1>5, <1>6

\* The first and the rest of the queue of a session.
LEMMA QueueHead ==
  ASSUME ControlInv, NEW s \in Session, queue[s] # <<>>
  PROVE  /\ Len(queue[s]) \in Nat /\ Len(queue[s]) > 0 /\ DOMAIN queue[s] = 1..Len(queue[s])
         /\ Head(queue[s]) = queue[s][1]
         /\ Head(queue[s]) \in Seq(Msg) /\ Head(queue[s]) # <<>>
         /\ Tail(queue[s]) \in Seq(Seq(Msg)) /\ DOMAIN Tail(queue[s]) = 1..(Len(queue[s]) - 1)
         /\ \A i \in 1..(Len(queue[s]) - 1) : Tail(queue[s])[i] = queue[s][i + 1]
<1> DEFINE q == queue[s]
<1>1. q \in Seq(Seq(Msg)) /\ q # <<>>
  BY DEF ControlInv, ControlTypeOK
<1>2. \A i \in DOMAIN q : q[i] # <<>>
  BY DEF ControlInv
<1> HIDE DEF q
<1>3. /\ Len(q) \in Nat /\ Len(q) > 0 /\ DOMAIN q = 1..Len(q)
  BY <1>1, LenProperties, EmptySeq
<1>4. /\ Head(q) \in Seq(Msg) /\ Head(q) = q[1] /\ Tail(q) \in Seq(Seq(Msg))
      /\ Len(Tail(q)) = Len(q) - 1
      /\ \A i \in 1..Len(Tail(q)) : Tail(q)[i] = q[i + 1]
  BY <1>1, HeadTailProperties
<1>5. DOMAIN Tail(q) = 1..Len(Tail(q))
  BY <1>4, LenProperties
<1>6. Head(q) # <<>>
  BY <1>2, <1>3, <1>4
<1> QED
  BY <1>3, <1>4, <1>5, <1>6 DEF q

LEMMA ControlTakes ==
  ASSUME ControlInv, AccountingTypeOK, NEW m \in Msg,
         HandleWorkerMessage(m) \/ JoinFragments(m) \/ DrainNext(m)
  PROVE  ControlInv'
<1>1. CASE HandleWorkerMessage(m)
  <2>1. PICK s \in bound, next \in {"list", "launch", "choose"} :
          /\ frame' = [frame EXCEPT ![m] = [id |-> s, base |-> stored[s], parts |-> <<m>>]]
          /\ Goto(m, next)
    BY <1>1 DEF HandleWorkerMessage
  <2> DEFINE f == [id |-> s, base |-> stored[s], parts |-> <<m>>]
  <2>2. s \in Session
    BY DEF ControlInv, ControlTypeOK
  <2>3. stored[s] \in Nat
    BY <2>2 DEF AccountingTypeOK
  <2>4. f \in Frame
    BY <2>2, <2>3 DEF Frame
  <2>5. GoroutineOK(m, next, f)
    BY <2>2, <2>4, FrameFacts DEF GoroutineOK, Label
  <2>6. Moves(m, next, f)
    BY <2>1, <2>5 DEF Moves, Goto
  <2>7. MapsOK
    BY <1>1, MapsStay DEF HandleWorkerMessage, mapVars, histVars
  <2> QED
    BY <2>6, <2>7, ControlOne DEF Handler
<1>2. CASE JoinFragments(m)
  <2> DEFINE p == Append(frags[SessionOf(m)], m)
             f == [frame[m] EXCEPT !.parts = p]
  <2>1. SessionOf(m) \in Session /\ frags[SessionOf(m)] \in Seq(Msg)
    BY <1>2, FrameFacts DEF JoinFragments, At, ControlInv, ControlTypeOK
  <2>2. p \in Seq(Msg) /\ p # <<>>
    BY <2>1, AppendProperties
  <2> HIDE DEF p
  <2>3. f \in Frame /\ f.parts = p /\ f.id = SessionOf(m)
    BY <2>2, FrameFacts
  <2>4. GoroutineOK(m, "launch", f)
    BY <2>1, <2>2, <2>3, FrameFacts DEF GoroutineOK, Label
  <2>5. Moves(m, "launch", f)
    BY <1>2, <2>4 DEF JoinFragments, Moves, Goto, p, ControlInv, ControlTypeOK
  <2>6. MapsOK
    <3>1. frags' = [frags EXCEPT ![SessionOf(m)] = <<>>] /\ <<>> \in Seq(Msg)
      BY <1>2, EmptySeq DEF JoinFragments
    <3>2. frags' \in [Session -> Seq(Msg)]
      BY <3>1 DEF ControlInv, ControlTypeOK
    <3> QED
      BY <1>2, <3>2 DEF JoinFragments, MapsOK, ControlInv, ControlTypeOK, histVars
  <2> QED
    BY <2>5, <2>6, ControlOne DEF Handler
<1>3. CASE DrainNext(m)
  <2> DEFINE s == SessionOf(m)
             p == Head(queue[s])
             f == [frame[m] EXCEPT !.parts = p]
  <2>1. s \in Session /\ queue[s] # <<>>
    BY <1>3, FrameFacts DEF DrainNext, At
  <2>2. p \in Seq(Msg) /\ p # <<>>
    BY <2>1, QueueHead
  <2> HIDE DEF p
  <2>3. f \in Frame /\ f.parts = p /\ f.id = SessionOf(m)
    BY <2>2, FrameFacts
  <2>4. GoroutineOK(m, "launch", f)
    BY <2>1, <2>2, <2>3, FrameFacts DEF GoroutineOK, Label
  <2>5. Moves(m, "launch", f)
    BY <1>3, <2>4 DEF DrainNext, Moves, Goto, p, ControlInv, ControlTypeOK
  <2>6. MapsOK
    <3>1. queue' = [queue EXCEPT ![s] = Tail(queue[s])]
      BY <1>3 DEF DrainNext
    <3> HIDE DEF s
    <3>2. /\ Tail(queue[s]) \in Seq(Seq(Msg))
          /\ DOMAIN Tail(queue[s]) = 1..(Len(queue[s]) - 1)
          /\ DOMAIN queue[s] = 1..Len(queue[s]) /\ Len(queue[s]) \in Nat
          /\ \A i \in 1..(Len(queue[s]) - 1) : Tail(queue[s])[i] = queue[s][i + 1]
      BY <2>1, QueueHead
    <3>3. \A i \in DOMAIN queue[s] : queue[s][i] # <<>>
      BY <2>1 DEF ControlInv
    <3>4. ASSUME NEW i \in DOMAIN Tail(queue[s]) PROVE Tail(queue[s])[i] # <<>>
      <4>1. i \in 1..(Len(queue[s]) - 1)
        BY <3>2
      <4>2. i + 1 \in DOMAIN queue[s] /\ Tail(queue[s])[i] = queue[s][i + 1]
        BY <3>2, <4>1
      <4> QED
        BY <3>3, <4>2
    <3>5. /\ queue' \in [Session -> Seq(Seq(Msg))]
          /\ \A t \in Session : \A i \in DOMAIN queue'[t] : queue'[t][i] # <<>>
      BY <2>1, <3>1, <3>2, <3>4 DEF ControlInv, ControlTypeOK
    <3> QED
      BY <1>3, <3>5 DEF DrainNext, MapsOK, ControlInv, ControlTypeOK, histVars
  <2> QED
    BY <2>5, <2>6, ControlOne DEF Handler
<1> QED
  BY <1>1, <1>2, <1>3

\* handleNew.
LEMMA ControlNew == ASSUME ControlInv, NEW h \in NewCmd, NewStep(h) PROVE ControlInv'
<1>1. h \in Handler /\ h \notin Msg /\ frame[h] \in Frame
  BY IntakeConstants DEF Handler, ControlInv, ControlTypeOK
<1>2. pc[h] \in {"release", "clean", "bind"} => SessionOf(h) \in Session
  BY <1>1 DEF ControlInv, FrameOK
<1>3. ASSUME NEW label \in {"clean", "bind"}, Goto(h, label), frame' = frame,
             SessionOf(h) \in Session, MapsOK
      PROVE  ControlInv'
  <2>1. GoroutineOK(h, label, frame[h])
    BY <1>1, <1>3 DEF GoroutineOK, SessionOf, Label
  <2>2. Moves(h, label, frame[h])
    BY <1>3, <2>1 DEF Moves, Goto, ControlInv, ControlTypeOK
  <2> QED
    BY <1>1, <1>3, <2>2, ControlOne
<1>4. CASE NewLooksUp(h)
  <2>1. PICK s \in bound : frame' = [frame EXCEPT ![h].id = s]
    BY <1>4 DEF NewLooksUp
  <2> DEFINE f == [frame[h] EXCEPT !.id = s]
  <2>2. f \in Frame /\ f.id \in Session
    BY <1>1 DEF Frame, ControlInv, ControlTypeOK
  <2>3. GoroutineOK(h, "release", f)
    BY <1>1, <2>2 DEF GoroutineOK, Label
  <2>4. Moves(h, "release", f)
    BY <1>4, <2>1, <2>3 DEF NewLooksUp, Moves, Goto, ControlInv, ControlTypeOK
  <2>5. MapsOK
    BY <1>4, MapsStay DEF NewLooksUp, mapVars, histVars
  <2> QED
    BY <1>1, <2>4, <2>5, ControlOne
<1>5. CASE NewReleases(h)
  <2>1. MapsOK
    BY <1>5 DEF NewReleases, MapsOK, ControlInv, ControlTypeOK, mapVars
  <2> QED
    BY <1>2, <1>3, <1>5, <2>1 DEF NewReleases, At
<1>6. CASE NewCleans(h)
  <2> DEFINE s == SessionOf(h)
  <2>1. s \in Session
    BY <1>2, <1>6 DEF NewCleans, At
  <2>2. <<>> \in Seq(Msg) /\ <<>> \in Seq(Seq(Msg)) /\ DOMAIN <<>> = {}
    BY EmptySeq
  <2>3. frags' = [frags EXCEPT ![s] = <<>>] /\ queue' = [queue EXCEPT ![s] = <<>>]
    BY <1>6 DEF NewCleans
  <2>a. cleaned' \subseteq Session
    BY <1>6, <2>1 DEF NewCleans, ControlInv, ControlTypeOK
  <2> HIDE DEF s
  <2>4. MapsOK
    <3>1. frags' \in [Session -> Seq(Msg)] /\ queue' \in [Session -> Seq(Seq(Msg))]
      BY <2>1, <2>2, <2>3 DEF ControlInv, ControlTypeOK
    <3>2. \A t \in Session : \A i \in DOMAIN queue'[t] : queue'[t][i] # <<>>
      BY <2>1, <2>2, <2>3 DEF ControlInv, ControlTypeOK
    <3> QED
      BY <1>6, <2>a, <3>1, <3>2 DEF NewCleans, MapsOK, ControlInv, ControlTypeOK
  <2> QED
    BY <1>2, <1>3, <1>6, <2>4 DEF NewCleans, At
<1>7. CASE NewBinds(h)
  <2>1. bound' \subseteq Session
    BY <1>7 DEF NewBinds, ControlInv, ControlTypeOK
  <2>2. MapsOK
    BY <1>7, <2>1 DEF NewBinds, MapsOK, ControlInv, ControlTypeOK, mapVars, histVars
  <2>3. GoroutineOK(h, "end", NoFrame)
    BY <1>1, NoFrameOK DEF GoroutineOK, Label, NoFrame
  <2>4. Moves(h, "end", NoFrame)
    BY <1>7, <2>3 DEF NewBinds, Return, Moves, Goto
  <2> QED
    BY <1>1, <2>2, <2>4, ControlOne
<1> QED
  BY <1>4, <1>5, <1>6, <1>7 DEF NewStep

LEMMA ControlRestart == ASSUME ControlInv, Restart PROVE ControlInv'
<1>1. <<>> \in Seq(Msg) /\ <<>> \in Seq(Seq(Msg)) /\ DOMAIN <<>> = {}
  BY EmptySeq
<1>2. restarts' \in 0..MaxRestarts
  <2>1. restarts' = restarts + 1 /\ restarts < MaxRestarts
    BY DEF Restart
  <2>2. restarts \in 0..MaxRestarts /\ MaxRestarts \in Nat
    BY IntakeConstants DEF ControlInv, ControlTypeOK
  <2> QED
    BY <2>1, <2>2
<1>3. /\ frags' = [s \in Session |-> <<>>] /\ queue' = [s \in Session |-> <<>>]
      /\ images' = [s \in Session |-> None] /\ UNCHANGED <<bound, released, cleaned>>
      /\ frame' = [h \in Handler |-> NoFrame]
      /\ pc' = [h \in Handler |-> IF pc[h] = "idle" THEN "idle" ELSE "end"]
  BY DEF Restart
<1>4. ControlTypeOK'
  BY <1>1, <1>2, <1>3, NoFrameOK DEF ControlInv, ControlTypeOK, Label
<1>5. \A h \in Handler : pc'[h] \in {"idle", "end"} /\ frame'[h] = NoFrame
  BY <1>3
<1>6. \A h \in Handler : FrameOK(h)'
  BY <1>5 DEF FrameOK
<1>7. \A s \in Session : \A i \in DOMAIN queue'[s] : queue'[s][i] # <<>>
  BY <1>1, <1>3
<1>8. Msg \subseteq Handler /\ NewCmd \subseteq Handler
  BY DEF Handler
<1> QED
  BY <1>4, <1>5, <1>6, <1>7, <1>8 DEF ControlInv, HandLabel, TurnLabel

LEMMA ControlStep ==
  ASSUME ControlInv, AccountingTypeOK, [Next]_vars PROVE ControlInv'
<1>1. CASE UNCHANGED vars
  BY <1>1 DEF vars, ivars, mapVars, histVars, ControlInv, ControlTypeOK, FrameOK, SessionOf, Parts
<1>2. ASSUME NEW m \in Msg, MsgStep(m) PROVE ControlInv'
  BY <1>2, ControlReplies, ControlGoes, ControlTakes DEF MsgStep
<1> QED
  BY <1>1, <1>2, ControlNew, ControlRestart DEF Next

LEMMA ControlStart == ASSUME Init PROVE ControlInv
<1>1. <<>> \in Seq(Msg) /\ <<>> \in Seq(Seq(Msg)) /\ DOMAIN <<>> = {}
  BY EmptySeq
<1>2. ControlTypeOK
  BY <1>1, NoFrameOK, IntakeConstants DEF Init, ControlTypeOK, Label
<1>3. \A h \in Handler : pc[h] = "idle" /\ FrameOK(h)
  BY DEF Init, FrameOK
<1>4. \A s \in Session : \A i \in DOMAIN queue[s] : queue[s][i] # <<>>
  BY <1>1 DEF Init
<1>5. Msg \subseteq Handler /\ NewCmd \subseteq Handler
  BY DEF Handler
<1> QED
  BY <1>2, <1>3, <1>4, <1>5 DEF ControlInv, HandLabel, TurnLabel

-----------------------------------------------------------------------------
(* Where the words are.                                                    *)

SameHands(m) == \A h \in Msg : Hand(h, m)' <=> Hand(h, m)
SameKept(m) == \A s \in Session, i \in Nat : KeptAt(s, i, m)' <=> KeptAt(s, i, m)
SameQueued(m) == \A s \in Session, i \in Nat : QueuedAt(s, i, m)' <=> QueuedAt(s, i, m)
SameIdle(m) == pc'[m] = "idle" <=> pc[m] = "idle"

LEMMA WordStays ==
  ASSUME NEW m \in Msg, WordOK(m), SameHands(m), SameKept(m), SameQueued(m), SameIdle(m),
         ends'[m] = ends[m]
  PROVE  WordOK(m)'
<1>1. /\ InHands(m)' <=> InHands(m)
      /\ IsKept(m)' <=> IsKept(m)
      /\ IsQueued(m)' <=> IsQueued(m)
      /\ Ended(m)' <=> Ended(m)
  BY DEF SameHands, SameKept, SameQueued, InHands, IsKept, IsQueued, Ended
<1>2. Apart(m)'
  BY <1>1 DEF WordOK, Apart, SameHands, SameKept, SameQueued
<1> QED
  BY <1>1, <1>2 DEF WordOK, Somewhere, SameIdle

\* A message that has ended, and one that has come to a place.
LEMMA WordEnds ==
  ASSUME NEW m \in Msg, ends'[m] = 1, pc'[m] # "idle",
         ~ InHands(m)', ~ IsKept(m)', ~ IsQueued(m)'
  PROVE  WordOK(m)'
  BY DEF WordOK, Apart, Somewhere, Ended, InHands, IsKept, IsQueued

LEMMA WordInHand ==
  ASSUME NEW m \in Msg, ends'[m] = 0, pc'[m] # "idle", ~ IsKept(m)', ~ IsQueued(m)',
         NEW h \in Msg, \A g \in Msg : Hand(g, m)' <=> g = h
  PROVE  WordOK(m)'
  BY DEF WordOK, Apart, Somewhere, Ended, InHands, IsKept, IsQueued

LEMMA WordKept ==
  ASSUME NEW m \in Msg, ends'[m] = 0, pc'[m] # "idle", ~ InHands(m)', ~ IsQueued(m)',
         NEW s \in Session, NEW i \in Nat,
         \A t \in Session, j \in Nat : KeptAt(t, j, m)' <=> t = s /\ j = i
  PROVE  WordOK(m)'
  BY DEF WordOK, Apart, Somewhere, Ended, InHands, IsKept, IsQueued

LEMMA WordQueued ==
  ASSUME NEW m \in Msg, ends'[m] = 0, pc'[m] # "idle", ~ InHands(m)', ~ IsKept(m)',
         NEW s \in Session, NEW i \in Nat,
         \A t \in Session, j \in Nat : QueuedAt(t, j, m)' <=> t = s /\ j = i
  PROVE  WordOK(m)'
  BY DEF WordOK, Apart, Somewhere, Ended, InHands, IsKept, IsQueued

\* A message in a place is in no other.
LEMMA WordFacts ==
  ASSUME WordInv, NEW m \in Msg
  PROVE  /\ WordOK(m) /\ ends[m] \in {0, 1}
         /\ pc[m] = "idle" => ends[m] = 0
         /\ InHands(m) \/ IsKept(m) \/ IsQueued(m) => ends[m] = 0 /\ pc[m] # "idle"
         /\ InHands(m) => ~ IsKept(m) /\ ~ IsQueued(m)
         /\ IsKept(m) => ~ InHands(m) /\ ~ IsQueued(m)
         /\ IsQueued(m) => ~ InHands(m) /\ ~ IsKept(m)
         /\ pc[m] = "idle" => ~ InHands(m) /\ ~ IsKept(m) /\ ~ IsQueued(m)
         /\ \A h, g \in Msg : Hand(h, m) /\ Hand(g, m) => h = g
<1>1. ends[m] \in Nat /\ ends[m] <= 1
  BY DEF WordInv, WordOK
<1>2. ends[m] \in {0, 1}
  BY <1>1
<1> QED
  BY <1>2 DEF WordInv, WordOK, Apart, Somewhere, Ended

\* A step of one goroutine leaves what others have in hand.
StepOf(h) ==
  /\ pc' = [pc EXCEPT ![h] = pc'[h]]
  /\ frame' = [frame EXCEPT ![h] = frame'[h]]

LEMMA OtherHands ==
  ASSUME ControlInv, NEW h \in Msg, StepOf(h)
  PROVE  /\ \A g \in Msg \ {h} : pc'[g] = pc[g] /\ frame'[g] = frame[g]
         /\ \A g \in Msg \ {h}, m \in Msg : Hand(g, m)' <=> Hand(g, m)
<1>1. \A g \in Msg \ {h} : pc'[g] = pc[g] /\ frame'[g] = frame[g]
  BY DEF StepOf, ControlInv, ControlTypeOK, Handler
<1> QED
  BY <1>1 DEF Hand, Parts

LEMMA SameMaps ==
  ASSUME UNCHANGED <<frags, queue>>
  PROVE  \A m \in Msg :
           /\ SameKept(m) /\ SameQueued(m)
           /\ IsKept(m)' <=> IsKept(m)
           /\ IsQueued(m)' <=> IsQueued(m)
  BY DEF SameKept, SameQueued, KeptAt, QueuedAt, IsKept, IsQueued

\* Steps that move no word: the goroutine keeps in hand what it had, or had nothing.
LEMMA WordQuiet ==
  ASSUME ControlInv, WordInv, NEW h \in Msg, StepOf(h), UNCHANGED <<frags, queue, ends>>,
         pc[h] # "idle", pc'[h] # "idle", \A m \in Msg : Hand(h, m)' <=> Hand(h, m)
  PROVE  WordInv'
<1>1. ASSUME NEW m \in Msg PROVE WordOK(m)'
  <2>1. SameHands(m)
    BY OtherHands DEF SameHands
  <2>2. SameIdle(m)
    BY OtherHands DEF SameIdle
  <2> QED
    BY <2>1, <2>2, SameMaps, WordStays DEF WordInv
<1> QED
  BY <1>1 DEF WordInv

\* Steps in which the words in hand end.
LEMMA WordSettled ==
  ASSUME ControlInv, WordInv, NEW h \in Msg, StepOf(h), UNCHANGED <<frags, queue>>,
         NEW X, Settle(X), pc'[h] \notin HandLabel \cup {"idle"},
         \A m \in Msg : Hand(h, m) => m \in X,
         \A m \in Msg : m \in X => Hand(h, m) \/ (m = h /\ pc[h] = "idle"),
         pc[h] = "idle" => h \in X
  PROVE  WordInv'
<1>1. ends' = [m \in Msg |-> IF m \in X THEN ends[m] + 1 ELSE ends[m]]
  BY DEF Settle
<1>2. ends' \in [Msg -> Nat]
  BY <1>1 DEF WordInv
<1>3. \A m \in Msg : ~ Hand(h, m)'
  BY DEF Hand
<1>4. ASSUME NEW m \in Msg PROVE WordOK(m)'
  <2>1. CASE m \in X
    <3>1. /\ ends[m] = 0 /\ ~ IsKept(m) /\ ~ IsQueued(m)
          /\ \A g \in Msg \ {h} : ~ Hand(g, m)
      <4>1. CASE Hand(h, m)
        BY <4>1, WordFacts DEF InHands
      <4>2. CASE m = h /\ pc[h] = "idle"
        BY <4>2, WordFacts DEF InHands
      <4> QED
        BY <2>1, <4>1, <4>2
    <3>2. ends'[m] = 1
      BY <1>1, <2>1, <3>1
    <3>3. ~ InHands(m)'
      BY <1>3, <3>1, OtherHands DEF InHands
    <3>4. pc'[m] # "idle"
      <4>1. CASE m = h
        BY <4>1
      <4>2. CASE m # h
        <5>1. Hand(h, m)
          BY <2>1, <4>2
        <5>2. pc[m] # "idle"
          BY <5>1, WordFacts DEF InHands
        <5> QED
          BY <4>2, <5>2, OtherHands
      <4> QED
        BY <4>1, <4>2
    <3> QED
      BY <3>1, <3>2, <3>3, <3>4, SameMaps, WordEnds
  <2>2. CASE m \notin X
    <3>1. SameHands(m)
      BY <1>3, <2>2, OtherHands DEF SameHands
    <3>2. SameIdle(m)
      BY <2>2, OtherHands DEF SameIdle
    <3> QED
      BY <1>1, <2>2, <3>1, <3>2, SameMaps, WordStays DEF WordInv
  <2> QED
    BY <2>1, <2>2
<1> QED
  BY <1>2, <1>4 DEF WordInv

\* A step of a message changes where it is and its own frame.
LEMMA MsgMoves == ASSUME ControlInv, NEW m \in Msg, MsgStep(m) PROVE StepOf(m)
<1>1. m \in Handler
  BY DEF Handler
<1>2. pc \in [Handler -> Label] /\ frame \in [Handler -> Frame]
  BY DEF ControlInv, ControlTypeOK
<1>3. \E label : pc' = [pc EXCEPT ![m] = label]
  BY DEF MsgStep, HandleWorkerMessage, OnlyReplies, ListImages, PicksImage, PicksNothing,
     KeepFragment, JoinFragments, Refused, EnqueueMessage, BuildUserInput, SendToAgent,
     EndsCounted, EndsUncounted, ReadsCost, StoresCost, AskQuestion, NothingQueued, DrainNext,
     Return, Goto
<1>4. \/ frame' = frame
      \/ \E f : frame' = [frame EXCEPT ![m] = f]
      \/ \E p : frame' = [frame EXCEPT ![m].parts = p]
  BY DEF MsgStep, HandleWorkerMessage, OnlyReplies, ListImages, PicksImage, PicksNothing,
     KeepFragment, JoinFragments, Refused, EnqueueMessage, BuildUserInput, SendToAgent,
     EndsCounted, EndsUncounted, ReadsCost, StoresCost, AskQuestion, NothingQueued, DrainNext,
     Return
<1>5. pc' = [pc EXCEPT ![m] = pc'[m]]
  BY <1>1, <1>2, <1>3
<1>6. frame' = [frame EXCEPT ![m] = frame'[m]]
  BY <1>1, <1>2, <1>4
<1> QED
  BY <1>5, <1>6 DEF StepOf

LEMMA WordQuietSteps ==
  ASSUME ControlInv, WordInv, NEW h \in Msg,
         \/ PicksNothing(h) \/ BuildUserInput(h) \/ EndsCounted(h) \/ EndsUncounted(h)
         \/ ReadsCost(h) \/ StoresCost(h) \/ AskQuestion(h) \/ NothingQueued(h)
  PROVE  WordInv'
<1>1. StepOf(h) /\ h \in Handler
  BY MsgMoves DEF MsgStep, Handler
<1>2. UNCHANGED <<frags, queue, ends>>
  BY DEF PicksNothing, BuildUserInput, EndsCounted, EndsUncounted, ReadsCost, StoresCost,
     AskQuestion, NothingQueued, mapVars, histVars
<1>3. \/ pc[h] = "choose" /\ pc'[h] = "collect" /\ frame' = frame
      \/ pc[h] = "launch" /\ pc'[h] = "send" /\ frame' = frame
      \/ pc[h] \in {"stream", "read", "store", "finish", "drain"}
           /\ pc'[h] \in {"read", "store", "finish", "drain", "end"}
  BY <1>1 DEF PicksNothing, BuildUserInput, EndsCounted, EndsUncounted, ReadsCost, StoresCost,
     AskQuestion, NothingQueued, At, Goto, Return, ControlInv, ControlTypeOK
<1>4. \A m \in Msg : Hand(h, m)' <=> Hand(h, m)
  BY <1>3 DEF Hand, HandLabel, Parts
<1> QED
  BY <1>1, <1>2, <1>3, <1>4, WordQuiet

\* What one message in hand has: itself.
LEMMA OneInHand ==
  ASSUME NEW h \in Msg, Parts(h) = <<h>>, pc[h] \in HandLabel
  PROVE  \A m \in Msg : Hand(h, m) <=> m = h
  BY DEF Hand, ToSet

LEMMA WordEndSteps ==
  ASSUME ControlInv, WordInv, NEW h \in Msg,
         OnlyReplies(h) \/ ListImages(h) \/ PicksImage(h) \/ Refused(h) \/ SendToAgent(h)
  PROVE  WordInv'
<1>1. StepOf(h) /\ h \in Handler
  BY MsgMoves DEF MsgStep, Handler
<1>2. UNCHANGED <<frags, queue>>
  BY DEF OnlyReplies, ListImages, PicksImage, Refused, SendToAgent, mapVars
<1>3. pc'[h] \in {"end", "stream"}
  BY <1>1 DEF OnlyReplies, ListImages, PicksImage, Refused, SendToAgent, Goto, Return,
     ControlInv, ControlTypeOK
<1>4. CASE OnlyReplies(h) \/ ListImages(h) \/ PicksImage(h)
  <2>1. Settle({h}) /\ pc[h] \in {"idle", "list", "choose"}
    BY <1>4 DEF OnlyReplies, ListImages, PicksImage, At
  <2>2. pc[h] # "idle" => \A m \in Msg : Hand(h, m) <=> m = h
    BY <2>1, OneInHand DEF ControlInv, HandLabel
  <2>3. pc[h] = "idle" => \A m \in Msg : ~ Hand(h, m)
    BY DEF Hand, HandLabel
  <2> QED
    BY <1>1, <1>2, <1>3, <2>1, <2>2, <2>3, WordSettled DEF HandLabel
<1>5. CASE Refused(h) \/ SendToAgent(h)
  <2>1. Settle(ToSet(Parts(h))) /\ pc[h] \in {"launch", "send"}
    BY <1>5 DEF Refused, SendToAgent, At
  <2>2. \A m \in Msg : Hand(h, m) <=> m \in ToSet(Parts(h))
    BY <2>1 DEF Hand, HandLabel
  <2> QED
    BY <1>1, <1>2, <1>3, <2>1, <2>2, WordSettled DEF HandLabel
<1> QED
  BY <1>4, <1>5

LEMMA WordComes ==
  ASSUME ControlInv, WordInv, NEW h \in Msg, HandleWorkerMessage(h) PROVE WordInv'
<1>1. StepOf(h) /\ h \in Handler
  BY MsgMoves DEF MsgStep, Handler
<1>2. /\ UNCHANGED <<frags, queue, ends>> /\ pc[h] = "idle"
      /\ pc'[h] \in {"list", "launch", "choose"} /\ frame'[h].parts = <<h>>
  BY <1>1 DEF HandleWorkerMessage, mapVars, histVars, At, Goto, ControlInv, ControlTypeOK
<1>3. \A m \in Msg : Hand(h, m)' <=> m = h
  BY <1>2 DEF Hand, HandLabel, Parts, ToSet
<1>4. \A m \in Msg : ~ Hand(h, m)
  BY <1>2 DEF Hand, HandLabel
<1>5. ASSUME NEW m \in Msg PROVE WordOK(m)'
  <2>1. CASE m = h
    <3>1. /\ ends[m] = 0 /\ ~ IsKept(m) /\ ~ IsQueued(m)
          /\ \A g \in Msg : ~ Hand(g, m)
      BY <1>2, <2>1, WordFacts DEF InHands
    <3>2. \A g \in Msg : Hand(g, m)' <=> g = h
      BY <1>3, <2>1, <3>1, OtherHands, <1>1
    <3>3. pc'[m] # "idle" /\ ends'[m] = 0
      BY <1>2, <2>1, <3>1
    <3> QED
      BY <1>2, <3>1, <3>2, <3>3, SameMaps, WordInHand
  <2>2. CASE m # h
    <3>1. SameHands(m) /\ SameIdle(m)
      BY <1>1, <1>3, <1>4, <2>2, OtherHands DEF SameHands, SameIdle
    <3> QED
      BY <1>2, <2>2, <3>1, SameMaps, WordStays DEF WordInv
  <2> QED
    BY <2>1, <2>2
<1> QED
  BY <1>2, <1>5 DEF WordInv

\* What is appended to what was kept.
LEMMA AppendedPart ==
  ASSUME NEW S, NEW q \in Seq(S), NEW m \in S
  PROVE  /\ Append(q, m) \in Seq(S) /\ Append(q, m) # <<>>
         /\ DOMAIN q = 1..Len(q) /\ DOMAIN Append(q, m) = 1..(Len(q) + 1) /\ Len(q) \in Nat
         /\ \A i \in 1..Len(q) : Append(q, m)[i] = q[i]
         /\ Append(q, m)[Len(q) + 1] = m
         /\ \A x : x \in ToSet(Append(q, m)) <=> x \in ToSet(q) \/ x = m
<1>1. /\ Append(q, m) \in Seq(S) /\ Append(q, m) # <<>>
      /\ DOMAIN q = 1..Len(q) /\ DOMAIN Append(q, m) = 1..(Len(q) + 1) /\ Len(q) \in Nat
      /\ \A i \in 1..Len(q) : Append(q, m)[i] = q[i]
      /\ Append(q, m)[Len(q) + 1] = m
  BY AppendProperties, LenProperties
<1>2. \A x : x \in ToSet(Append(q, m)) <=> x \in ToSet(q) \/ x = m
  BY <1>1 DEF ToSet
<1> QED
  BY <1>1, <1>2

LEMMA WordIsKept ==
  ASSUME ControlInv, WordInv, NEW h \in Msg, KeepFragment(h) PROVE WordInv'
<1>1. StepOf(h) /\ h \in Handler
  BY MsgMoves DEF MsgStep, Handler
<1>a. pc[h] = "collect" /\ SessionOf(h) \in Session
  BY FrameFacts DEF KeepFragment, At
<1>b. PICK s \in Session : s = SessionOf(h)
  BY <1>a
<1>c. PICK q \in Seq(Msg) : q = frags[s]
  BY DEF ControlInv, ControlTypeOK
<1>2. /\ UNCHANGED <<queue, ends>> /\ pc'[h] = "end"
      /\ frags' = [frags EXCEPT ![s] = Append(q, h)]
  BY <1>1, <1>b, <1>c DEF KeepFragment, histVars, Goto, Return, ControlInv, ControlTypeOK
<1>4. \A m \in Msg : ~ Hand(h, m)'
  BY <1>2 DEF Hand, HandLabel
<1>5. \A m \in Msg : Hand(h, m) <=> m = h
  BY <1>a, OneInHand DEF ControlInv, HandLabel
<1>6. frags'[s] = Append(q, h) /\ \A t \in Session \ {s} : frags'[t] = frags[t]
  BY <1>2 DEF ControlInv, ControlTypeOK
<1>7. \A m \in Msg : SameQueued(m) /\ (IsQueued(m)' <=> IsQueued(m))
  BY <1>2 DEF SameQueued, QueuedAt, IsQueued
<1>8. \A t \in Session, i \in Nat, m \in Msg :
        KeptAt(t, i, m)' <=> \/ KeptAt(t, i, m)
                             \/ t = s /\ i = Len(q) + 1 /\ m = h
  <2>1. ASSUME NEW i \in Nat, NEW m \in Msg
        PROVE  KeptAt(s, i, m)' <=> KeptAt(s, i, m) \/ (i = Len(q) + 1 /\ m = h)
    <3>1. /\ DOMAIN frags'[s] = 1..(Len(q) + 1) /\ DOMAIN frags[s] = 1..Len(q)
          /\ Len(q) \in Nat /\ frags'[s][Len(q) + 1] = h
          /\ \A j \in 1..Len(q) : frags'[s][j] = frags[s][j]
      BY <1>c, <1>6, AppendedPart
    <3>2. /\ KeptAt(s, i, m)' <=> i \in 1..(Len(q) + 1) /\ frags'[s][i] = m
          /\ KeptAt(s, i, m) <=> i \in 1..Len(q) /\ frags[s][i] = m
      <4>1. DOMAIN frags'[s] = 1..(Len(q) + 1) /\ DOMAIN frags[s] = 1..Len(q)
        BY <3>1
      <4> QED
        BY <4>1 DEF KeptAt
    <3>3. CASE i = Len(q) + 1
      <4>1. i \in 1..(Len(q) + 1) /\ i \notin 1..Len(q)
        BY <3>1, <3>3
      <4> QED
        BY <3>1, <3>2, <3>3, <4>1
    <3>4. CASE i # Len(q) + 1
      <4>1. i \in 1..(Len(q) + 1) <=> i \in 1..Len(q)
        BY <3>1, <3>4
      <4> QED
        BY <3>1, <3>2, <3>4, <4>1
    <3> QED
      BY <3>3, <3>4
  <2>2. ASSUME NEW t \in Session \ {s}, NEW i \in Nat, NEW m \in Msg
        PROVE  KeptAt(t, i, m)' <=> KeptAt(t, i, m)
    BY <1>6 DEF KeptAt
  <2>3. ASSUME NEW t \in Session, NEW i \in Nat, NEW m \in Msg
        PROVE  KeptAt(t, i, m)' <=> \/ KeptAt(t, i, m)
                                    \/ t = s /\ i = Len(q) + 1 /\ m = h
    <3>1. CASE t = s
      BY <2>1, <3>1
    <3>2. CASE t # s
      BY <2>2, <3>2
    <3> QED
      BY <3>1, <3>2
  <2> QED
    BY <2>3
<1>9. ASSUME NEW m \in Msg PROVE WordOK(m)'
  <2>1. CASE m = h
    <3>1. /\ ends[m] = 0 /\ ~ IsKept(m) /\ ~ IsQueued(m)
          /\ \A g \in Msg \ {h} : ~ Hand(g, m)
      BY <1>5, <2>1, WordFacts DEF InHands
    <3>2. ~ InHands(m)' /\ ~ IsQueued(m)' /\ ends'[m] = 0 /\ pc'[m] # "idle"
      BY <1>1, <1>2, <1>4, <1>7, <2>1, <3>1, OtherHands DEF InHands
    <3>3. \A t \in Session, i \in Nat : KeptAt(t, i, m)' <=> t = s /\ i = Len(q) + 1
      BY <1>8, <2>1, <3>1 DEF IsKept
    <3>4. Len(q) + 1 \in Nat
      BY LenProperties
    <3> QED
      BY <3>2, <3>3, <3>4, WordKept
  <2>2. CASE m # h
    <3>1. SameHands(m) /\ SameIdle(m)
      BY <1>1, <1>4, <1>5, <2>2, OtherHands DEF SameHands, SameIdle
    <3>2. SameKept(m)
      BY <1>8, <2>2 DEF SameKept
    <3> QED
      BY <1>2, <1>7, <2>2, <3>1, <3>2, WordStays DEF WordInv
  <2> QED
    BY <2>1, <2>2
<1> QED
  BY <1>2, <1>9 DEF WordInv

LEMMA WordsJoin ==
  ASSUME ControlInv, WordInv, NEW h \in Msg, JoinFragments(h) PROVE WordInv'
<1>1. StepOf(h) /\ h \in Handler
  BY MsgMoves DEF MsgStep, Handler
<1> DEFINE s == SessionOf(h)
           q == frags[s]
<1>2. /\ UNCHANGED <<queue, ends>> /\ pc[h] = "collect" /\ pc'[h] = "launch"
      /\ frags' = [frags EXCEPT ![s] = <<>>]
      /\ frame' = [frame EXCEPT ![h].parts = Append(q, h)]
  BY <1>1 DEF JoinFragments, histVars, At, Goto, ControlInv, ControlTypeOK
<1>3. s \in Session /\ q \in Seq(Msg)
  BY <1>2, FrameFacts DEF ControlInv, ControlTypeOK
<1>4. frame'[h].parts = Append(q, h)
  BY <1>1, <1>2 DEF ControlInv, ControlTypeOK, Frame
<1>5. \A m \in Msg : Hand(h, m) <=> m = h
  BY <1>2, OneInHand DEF ControlInv, HandLabel
<1>6. \A m \in Msg : SameQueued(m) /\ (IsQueued(m)' <=> IsQueued(m))
  BY <1>2 DEF SameQueued, QueuedAt, IsQueued
<1>7. frags'[s] = <<>> /\ \A t \in Session \ {s} : frags'[t] = frags[t]
  BY <1>2, <1>3 DEF ControlInv, ControlTypeOK
<1> HIDE DEF s
<1>8. \A m \in Msg : Hand(h, m)' <=> m \in ToSet(q) \/ m = h
  <2>1. \A m : m \in ToSet(Append(q, h)) <=> m \in ToSet(q) \/ m = h
    BY <1>3, AppendedPart
  <2>2. \A m \in Msg : Hand(h, m)' <=> m \in ToSet(Append(q, h))
    BY <1>2, <1>4 DEF Hand, HandLabel, Parts
  <2> QED
    BY <2>1, <2>2
<1>9. \A t \in Session, i \in Nat, m \in Msg :
        KeptAt(t, i, m)' <=> KeptAt(t, i, m) /\ t # s
  BY <1>7 DEF KeptAt
<1>10. \A m \in Msg : m \in ToSet(q) <=> \E i \in Nat : KeptAt(s, i, m)
  <2>1. DOMAIN q \subseteq Nat
    BY <1>3, LenProperties
  <2> QED
    BY <2>1 DEF KeptAt, ToSet
<1> HIDE DEF q
<1>11. ASSUME NEW m \in Msg PROVE WordOK(m)'
  <2>1. CASE m = h \/ m \in ToSet(q)
    <3>1. Hand(h, m) \/ IsKept(m)
      BY <1>3, <1>5, <1>10, <2>1 DEF IsKept
    <3>2. ends[m] = 0 /\ ~ IsQueued(m) /\ pc[m] # "idle" /\ \A g \in Msg \ {h} : ~ Hand(g, m)
      BY <3>1, WordFacts DEF InHands
    <3>3. \A t \in Session, i \in Nat : KeptAt(t, i, m) => t = s
      <4>1. CASE m = h
        BY <1>5, <4>1, WordFacts DEF InHands, IsKept
      <4>2. CASE m \in ToSet(q)
        BY <1>3, <1>10, <4>2 DEF WordInv, WordOK, Apart
      <4> QED
        BY <2>1, <4>1, <4>2
    <3>4. ~ IsKept(m)'
      BY <1>9, <3>3 DEF IsKept
    <3>5. \A g \in Msg : Hand(g, m)' <=> g = h
      BY <1>1, <1>8, <2>1, <3>2, OtherHands
    <3>6. pc'[m] # "idle"
      BY <1>1, <1>2, <3>2, OtherHands
    <3> QED
      BY <1>2, <1>6, <3>2, <3>4, <3>5, <3>6, WordInHand
  <2>2. CASE m # h /\ m \notin ToSet(q)
    <3>1. SameHands(m) /\ SameIdle(m)
      BY <1>1, <1>5, <1>8, <2>2, OtherHands DEF SameHands, SameIdle
    <3>2. SameKept(m)
      BY <1>9, <1>10, <2>2 DEF SameKept
    <3> QED
      BY <1>2, <1>6, <3>1, <3>2, WordStays DEF WordInv
  <2> QED
    BY <2>1, <2>2
<1> QED
  BY <1>2, <1>11 DEF WordInv

LEMMA WordsQueued ==
  ASSUME ControlInv, WordInv, NEW h \in Msg, EnqueueMessage(h) PROVE WordInv'
<1>1. StepOf(h) /\ h \in Handler
  BY MsgMoves DEF MsgStep, Handler
<1>a. pc[h] = "launch" /\ SessionOf(h) \in Session
  BY FrameFacts DEF EnqueueMessage, At
<1>b. PICK s \in Session : s = SessionOf(h)
  BY <1>a
<1>c. PICK q \in Seq(Seq(Msg)) : q = queue[s]
  BY DEF ControlInv, ControlTypeOK
<1>d. PICK p \in Seq(Msg) : p = Parts(h)
  BY FrameFacts
<1>2. /\ UNCHANGED <<frags, ends>> /\ pc'[h] = "end"
      /\ queue' = [queue EXCEPT ![s] = Append(q, p)]
  BY <1>1, <1>b, <1>c, <1>d
     DEF EnqueueMessage, histVars, Goto, Return, ControlInv, ControlTypeOK
<1>4. \A m \in Msg : ~ Hand(h, m)'
  BY <1>2 DEF Hand, HandLabel
<1>5. \A m \in Msg : Hand(h, m) <=> m \in ToSet(p)
  BY <1>a, <1>d DEF Hand, HandLabel
<1>6. queue'[s] = Append(q, p) /\ \A t \in Session \ {s} : queue'[t] = queue[t]
  BY <1>2 DEF ControlInv, ControlTypeOK
<1>7. \A m \in Msg : SameKept(m) /\ (IsKept(m)' <=> IsKept(m))
  BY <1>2 DEF SameKept, KeptAt, IsKept
<1>8. \A t \in Session, i \in Nat, m \in Msg :
        QueuedAt(t, i, m)' <=> \/ QueuedAt(t, i, m)
                               \/ t = s /\ i = Len(q) + 1 /\ m \in ToSet(p)
  <2>1. ASSUME NEW i \in Nat, NEW m \in Msg
        PROVE  QueuedAt(s, i, m)' <=> QueuedAt(s, i, m) \/ (i = Len(q) + 1 /\ m \in ToSet(p))
    <3>1. /\ DOMAIN queue'[s] = 1..(Len(q) + 1) /\ DOMAIN queue[s] = 1..Len(q)
          /\ Len(q) \in Nat /\ queue'[s][Len(q) + 1] = p
          /\ \A j \in 1..Len(q) : queue'[s][j] = queue[s][j]
      BY <1>c, <1>6, AppendedPart
    <3>2. /\ QueuedAt(s, i, m)' <=> i \in 1..(Len(q) + 1) /\ m \in ToSet(queue'[s][i])
          /\ QueuedAt(s, i, m) <=> i \in 1..Len(q) /\ m \in ToSet(queue[s][i])
      BY <3>1 DEF QueuedAt, ToSet
    <3>3. CASE i = Len(q) + 1
      <4>1. i \in 1..(Len(q) + 1) /\ i \notin 1..Len(q)
        BY <3>1, <3>3
      <4> QED
        BY <3>1, <3>2, <3>3, <4>1
    <3>4. CASE i # Len(q) + 1
      <4>1. i \in 1..(Len(q) + 1) <=> i \in 1..Len(q)
        BY <3>1, <3>4
      <4> QED
        BY <3>1, <3>2, <3>4, <4>1
    <3> QED
      BY <3>3, <3>4
  <2>2. ASSUME NEW t \in Session \ {s}, NEW i \in Nat, NEW m \in Msg
        PROVE  QueuedAt(t, i, m)' <=> QueuedAt(t, i, m)
    BY <1>6 DEF QueuedAt, ToSet
  <2>3. ASSUME NEW t \in Session, NEW i \in Nat, NEW m \in Msg
        PROVE  QueuedAt(t, i, m)' <=> \/ QueuedAt(t, i, m)
                                      \/ t = s /\ i = Len(q) + 1 /\ m \in ToSet(p)
    <3>1. CASE t = s
      BY <2>1, <3>1
    <3>2. CASE t # s
      BY <2>2, <3>2
    <3> QED
      BY <3>1, <3>2
  <2> QED
    BY <2>3
<1>9. ASSUME NEW m \in Msg PROVE WordOK(m)'
  <2>1. CASE m \in ToSet(p)
    <3>1. /\ ends[m] = 0 /\ ~ IsKept(m) /\ ~ IsQueued(m) /\ pc[m] # "idle"
          /\ \A g \in Msg \ {h} : ~ Hand(g, m)
      BY <1>5, <2>1, WordFacts DEF InHands
    <3>2. ~ InHands(m)'
      BY <1>1, <1>4, <3>1, OtherHands DEF InHands
    <3>3. ~ IsKept(m)' /\ ends'[m] = 0 /\ pc'[m] # "idle"
      BY <1>1, <1>2, <1>7, <2>1, <3>1, OtherHands
    <3>4. \A t \in Session, i \in Nat : QueuedAt(t, i, m)' <=> t = s /\ i = Len(q) + 1
      BY <1>8, <2>1, <3>1 DEF IsQueued
    <3>5. Len(q) + 1 \in Nat
      BY LenProperties
    <3> QED
      BY <3>2, <3>3, <3>4, <3>5, WordQueued
  <2>2. CASE m \notin ToSet(p)
    <3>1. SameHands(m) /\ SameIdle(m)
      BY <1>1, <1>2, <1>4, <1>5, <1>a, <2>2, OtherHands DEF SameHands, SameIdle
    <3>2. SameQueued(m)
      BY <1>8, <2>2 DEF SameQueued
    <3> QED
      BY <1>2, <1>7, <2>2, <3>1, <3>2, WordStays DEF WordInv
  <2> QED
    BY <2>1, <2>2
<1> QED
  BY <1>2, <1>9 DEF WordInv

\* A message that waits in a queue whose first one is taken.
LEMMA WordShifts ==
  ASSUME NEW m \in Msg, WordOK(m), SameHands(m), SameKept(m), SameIdle(m), ends'[m] = ends[m],
         NEW s \in Session, ~ QueuedAt(s, 1, m), ~ QueuedAt(s, 0, m),
         ~ QueuedAt(s, 0, m)',
         \A t \in Session \ {s}, i \in Nat : QueuedAt(t, i, m)' <=> QueuedAt(t, i, m),
         \A i \in Nat \ {0} : QueuedAt(s, i, m)' <=> QueuedAt(s, i + 1, m)
  PROVE  WordOK(m)'
<1>1. InHands(m)' <=> InHands(m)
  BY DEF SameHands, InHands
<1>2. IsKept(m)' <=> IsKept(m)
  BY DEF SameKept, IsKept
<1>3. ASSUME IsQueued(m)' PROVE IsQueued(m)
  <2>1. PICK t \in Session, i \in Nat : QueuedAt(t, i, m)'
    BY <1>3 DEF IsQueued
  <2>2. CASE t = s
    <3>1. i # 0 /\ QueuedAt(s, i + 1, m)
      BY <2>1, <2>2
    <3> QED
      BY <3>1 DEF IsQueued
  <2>3. CASE t # s
    BY <2>1, <2>3 DEF IsQueued
  <2> QED
    BY <2>2, <2>3
<1>4. ASSUME IsQueued(m) PROVE IsQueued(m)'
  <2>1. PICK t \in Session, i \in Nat : QueuedAt(t, i, m)
    BY <1>4 DEF IsQueued
  <2>2. CASE t = s
    <3>1. i # 0 /\ i # 1
      BY <2>1, <2>2
    <3>2. i - 1 \in Nat \ {0} /\ (i - 1) + 1 = i
      BY <3>1
    <3>3. QueuedAt(s, i - 1, m)'
      BY <2>1, <2>2, <3>2
    <3> QED
      BY <3>2, <3>3 DEF IsQueued
  <2>3. CASE t # s
    BY <2>1, <2>3 DEF IsQueued
  <2> QED
    BY <2>2, <2>3
<1>5. Ended(m)' <=> Ended(m)
  BY DEF Ended
<1>6. ASSUME NEW t \in Session, NEW u \in Session, NEW i \in Nat, NEW j \in Nat,
             QueuedAt(t, i, m)', QueuedAt(u, j, m)'
      PROVE  t = u /\ i = j
  <2>1. \A x, y \in Session, k, l \in Nat :
          QueuedAt(x, k, m) /\ QueuedAt(y, l, m) => x = y /\ k = l
    BY DEF WordOK, Apart
  <2>2. CASE t = s /\ u = s
    <3>1. i # 0 /\ j # 0 /\ QueuedAt(s, i + 1, m) /\ QueuedAt(s, j + 1, m)
      BY <1>6, <2>2
    <3>2. i + 1 = j + 1
      BY <2>1, <3>1
    <3> QED
      BY <2>2, <3>2
  <2>3. CASE t = s /\ u # s
    <3>1. i # 0 /\ QueuedAt(s, i + 1, m) /\ QueuedAt(u, j, m)
      BY <1>6, <2>3
    <3> QED
      BY <2>1, <2>3, <3>1
  <2>4. CASE t # s /\ u = s
    <3>1. j # 0 /\ QueuedAt(t, i, m) /\ QueuedAt(s, j + 1, m)
      BY <1>6, <2>4
    <3> QED
      BY <2>1, <2>4, <3>1
  <2>5. CASE t # s /\ u # s
    BY <1>6, <2>1, <2>5
  <2> QED
    BY <2>2, <2>3, <2>4, <2>5
<1>7. Apart(m)'
  BY <1>1, <1>2, <1>3, <1>4, <1>5, <1>6 DEF WordOK, Apart, SameHands, SameKept
<1> QED
  BY <1>1, <1>2, <1>3, <1>4, <1>5, <1>7 DEF WordOK, Somewhere, SameIdle

LEMMA WordsDrained ==
  ASSUME ControlInv, WordInv, NEW h \in Msg, DrainNext(h) PROVE WordInv'
<1>1. StepOf(h) /\ h \in Handler
  BY MsgMoves DEF MsgStep, Handler
<1>a. pc[h] \in {"finish", "drain"} /\ SessionOf(h) \in Session
  BY FrameFacts DEF DrainNext, At
<1>b. PICK s \in Session : s = SessionOf(h)
  BY <1>a
<1>c. queue[s] # <<>>
  BY <1>b DEF DrainNext
<1>d. PICK p \in Seq(Msg) : p = Head(queue[s])
  BY <1>c, QueueHead
<1>2. /\ UNCHANGED <<frags, ends>> /\ pc'[h] = "launch"
      /\ frame' = [frame EXCEPT ![h].parts = p]
      /\ queue' = [queue EXCEPT ![s] = Tail(queue[s])]
  BY <1>1, <1>b, <1>d DEF DrainNext, histVars, Goto, ControlInv, ControlTypeOK
<1>3. frame'[h].parts = p
  BY <1>1, <1>2 DEF ControlInv, ControlTypeOK, Frame
<1>4. \A m \in Msg : Hand(h, m)' <=> m \in ToSet(p)
  BY <1>2, <1>3 DEF Hand, HandLabel, Parts
<1>5. \A m \in Msg : ~ Hand(h, m)
  BY <1>a DEF Hand, HandLabel
<1>6. queue'[s] = Tail(queue[s]) /\ \A t \in Session \ {s} : queue'[t] = queue[t]
  BY <1>2 DEF ControlInv, ControlTypeOK
<1>7. \A m \in Msg : SameKept(m) /\ (IsKept(m)' <=> IsKept(m))
  BY <1>2 DEF SameKept, KeptAt, IsKept
<1>e. PICK n \in Nat : n = Len(queue[s])
  BY <1>c, QueueHead
<1>8. /\ n > 0 /\ DOMAIN queue[s] = 1..n /\ DOMAIN queue'[s] = 1..(n - 1)
      /\ queue[s][1] = p /\ \A i \in 1..(n - 1) : queue'[s][i] = queue[s][i + 1]
  BY <1>c, <1>d, <1>e, <1>6, QueueHead
<1>9. ASSUME NEW m \in Msg
      PROVE  /\ QueuedAt(s, 1, m) <=> m \in ToSet(p)
             /\ ~ QueuedAt(s, 0, m) /\ ~ QueuedAt(s, 0, m)'
             /\ \A t \in Session \ {s}, i \in Nat : QueuedAt(t, i, m)' <=> QueuedAt(t, i, m)
             /\ \A i \in Nat \ {0} : QueuedAt(s, i, m)' <=> QueuedAt(s, i + 1, m)
  <2>1. 1 \in 1..n /\ 0 \notin 1..n /\ 0 \notin 1..(n - 1)
    BY <1>8
  <2>2. QueuedAt(s, 1, m) <=> m \in ToSet(p)
    BY <1>8, <2>1 DEF QueuedAt
  <2>3. ~ QueuedAt(s, 0, m) /\ ~ QueuedAt(s, 0, m)'
    BY <1>8, <2>1 DEF QueuedAt
  <2>4. \A t \in Session \ {s}, i \in Nat : QueuedAt(t, i, m)' <=> QueuedAt(t, i, m)
    BY <1>6 DEF QueuedAt, ToSet
  <2>5. ASSUME NEW i \in Nat \ {0} PROVE QueuedAt(s, i, m)' <=> QueuedAt(s, i + 1, m)
    <3>1. i \in 1..(n - 1) <=> i + 1 \in 1..n
      BY <1>8
    <3> QED
      BY <1>8, <3>1 DEF QueuedAt, ToSet
  <2> QED
    BY <2>2, <2>3, <2>4, <2>5
<1>10. ASSUME NEW m \in Msg PROVE WordOK(m)'
  <2>1. CASE m \in ToSet(p)
    <3>1. QueuedAt(s, 1, m)
      BY <1>9, <2>1
    <3>2. /\ ends[m] = 0 /\ ~ IsKept(m) /\ pc[m] # "idle"
          /\ \A g \in Msg : ~ Hand(g, m)
      BY <3>1, WordFacts DEF InHands, IsQueued
    <3>3. \A t \in Session, i \in Nat : QueuedAt(t, i, m) => t = s /\ i = 1
      BY <3>1 DEF WordInv, WordOK, Apart
    <3>4. ASSUME IsQueued(m)' PROVE FALSE
      <4>1. PICK t \in Session, i \in Nat : QueuedAt(t, i, m)'
        BY <3>4 DEF IsQueued
      <4>2. CASE t = s
        <5>1. i # 0 /\ QueuedAt(s, i + 1, m)
          BY <1>9, <4>1, <4>2
        <5>2. i + 1 = 1
          BY <3>3, <5>1
        <5> QED
          BY <5>1, <5>2
      <4>3. CASE t # s
        BY <1>9, <3>3, <4>1, <4>3
      <4> QED
        BY <4>2, <4>3
    <3>5. \A g \in Msg : Hand(g, m)' <=> g = h
      BY <1>1, <1>4, <2>1, <3>2, OtherHands
    <3>6. ~ IsKept(m)' /\ ends'[m] = 0 /\ pc'[m] # "idle"
      BY <1>1, <1>2, <1>7, <3>2, OtherHands
    <3> QED
      BY <3>4, <3>5, <3>6, WordInHand
  <2>2. CASE m \notin ToSet(p)
    <3>1. SameHands(m) /\ SameIdle(m)
      BY <1>1, <1>2, <1>4, <1>5, <1>a, <2>2, OtherHands DEF SameHands, SameIdle
    <3>2. SameKept(m) /\ WordOK(m) /\ ends'[m] = ends[m]
      BY <1>2, <1>7 DEF WordInv
    <3> QED
      BY <1>9, <2>2, <3>1, <3>2, WordShifts
  <2> QED
    BY <2>1, <2>2
<1> QED
  BY <1>2, <1>10 DEF WordInv

\* A /new moves no goroutine of a message.
LEMMA NewMoves ==
  ASSUME ControlInv, NEW h \in NewCmd, NewStep(h)
  PROVE  \A m \in Msg : pc'[m] = pc[m] /\ frame'[m] = frame[m]
<1>1. h \in Handler /\ \A m \in Msg : m \in Handler /\ m # h
  BY IntakeConstants DEF Handler
<1>2. pc \in [Handler -> Label] /\ frame \in [Handler -> Frame]
  BY DEF ControlInv, ControlTypeOK
<1>3. \E label : pc' = [pc EXCEPT ![h] = label]
  BY DEF NewStep, NewLooksUp, NewReleases, NewCleans, NewBinds, Return, Goto
<1>4. \/ frame' = frame
      \/ \E f : frame' = [frame EXCEPT ![h] = f]
      \/ \E s : frame' = [frame EXCEPT ![h].id = s]
  BY DEF NewStep, NewLooksUp, NewReleases, NewCleans, NewBinds, Return
<1> QED
  BY <1>1, <1>2, <1>3, <1>4

LEMMA WordCleaned ==
  ASSUME ControlInv, WordInv, NEW h \in NewCmd, NewCleans(h) PROVE WordInv'
<1>1. \A m \in Msg : pc'[m] = pc[m] /\ frame'[m] = frame[m]
  BY NewMoves DEF NewStep
<1>a. SessionOf(h) \in Session
  BY IntakeConstants DEF NewCleans, At, ControlInv, FrameOK, Handler
<1>b. PICK s \in Session : s = SessionOf(h)
  BY <1>a
<1>2. /\ frags' = [frags EXCEPT ![s] = <<>>] /\ queue' = [queue EXCEPT ![s] = <<>>]
      /\ Settle(ToSet(frags[s]) \cup Waiting(s))
  BY <1>b DEF NewCleans
<1>3. /\ frags'[s] = <<>> /\ \A t \in Session \ {s} : frags'[t] = frags[t]
      /\ queue'[s] = <<>> /\ \A t \in Session \ {s} : queue'[t] = queue[t]
  BY <1>2 DEF ControlInv, ControlTypeOK
<1>4. DOMAIN frags[s] \subseteq Nat /\ DOMAIN queue[s] \subseteq Nat
  BY LenProperties DEF ControlInv, ControlTypeOK
<1>5. PICK X : X = ToSet(frags[s]) \cup Waiting(s)
  OBVIOUS
<1>6. \A m \in Msg : m \in X <=> \/ \E i \in Nat : KeptAt(s, i, m)
                                 \/ \E i \in Nat : QueuedAt(s, i, m)
  BY <1>4, <1>5 DEF KeptAt, QueuedAt, Waiting, ToSet
<1>7. \A m \in Msg, t \in Session, i \in Nat :
        /\ KeptAt(t, i, m)' <=> t # s /\ KeptAt(t, i, m)
        /\ QueuedAt(t, i, m)' <=> t # s /\ QueuedAt(t, i, m)
  BY <1>3 DEF KeptAt, QueuedAt, ToSet
<1>8. ends' = [m \in Msg |-> IF m \in X THEN ends[m] + 1 ELSE ends[m]]
  BY <1>2, <1>5 DEF Settle
<1>9. ends' \in [Msg -> Nat]
  BY <1>8 DEF WordInv
<1>10. \A m \in Msg : SameHands(m) /\ SameIdle(m) /\ (InHands(m)' <=> InHands(m))
  BY <1>1 DEF SameHands, SameIdle, InHands, Hand, Parts
<1>11. ASSUME NEW m \in Msg PROVE WordOK(m)'
  <2>1. CASE m \in X
    <3>1. IsKept(m) \/ IsQueued(m)
      BY <1>6, <2>1 DEF IsKept, IsQueued
    <3>2. ends[m] = 0 /\ ~ InHands(m) /\ pc[m] # "idle"
      BY <3>1, WordFacts
    <3>3. ends'[m] = 1 /\ pc'[m] # "idle" /\ ~ InHands(m)'
      BY <1>1, <1>8, <1>10, <2>1, <3>2
    <3>4. CASE \E i \in Nat : KeptAt(s, i, m)
      <4>1. \A t \in Session, i \in Nat : KeptAt(t, i, m) => t = s
        BY <3>4 DEF WordInv, WordOK, Apart
      <4>2. ~ IsQueued(m)
        BY <3>4, WordFacts DEF IsKept
      <4>3. ~ IsKept(m)' /\ ~ IsQueued(m)'
        BY <1>7, <4>1, <4>2 DEF IsKept, IsQueued
      <4> QED
        BY <3>3, <4>3, WordEnds
    <3>5. CASE \E i \in Nat : QueuedAt(s, i, m)
      <4>1. \A t \in Session, i \in Nat : QueuedAt(t, i, m) => t = s
        BY <3>5 DEF WordInv, WordOK, Apart
      <4>2. ~ IsKept(m)
        BY <3>5, WordFacts DEF IsQueued
      <4>3. ~ IsKept(m)' /\ ~ IsQueued(m)'
        BY <1>7, <4>1, <4>2 DEF IsKept, IsQueued
      <4> QED
        BY <3>3, <4>3, WordEnds
    <3> QED
      BY <1>6, <2>1, <3>4, <3>5
  <2>2. CASE m \notin X
    <3>1. SameKept(m) /\ SameQueued(m)
      BY <1>6, <1>7, <2>2 DEF SameKept, SameQueued
    <3> QED
      BY <1>8, <1>10, <2>2, <3>1, WordStays DEF WordInv
  <2> QED
    BY <2>1, <2>2
<1> QED
  BY <1>9, <1>11 DEF WordInv

LEMMA WordRestart == ASSUME ControlInv, WordInv, Restart PROVE WordInv'
<1>1. /\ \A m \in Msg : pc'[m] = IF pc[m] = "idle" THEN "idle" ELSE "end"
      /\ \A s \in Session : frags'[s] = <<>> /\ queue'[s] = <<>>
      /\ ends' = [m \in Msg |-> IF pc[m] # "idle" /\ ends[m] = 0 THEN ends[m] + 1 ELSE ends[m]]
  BY DEF Restart, Settle, Handler
<1>2. ends' \in [Msg -> Nat]
  BY <1>1 DEF WordInv
<1>3. \A m \in Msg : ~ InHands(m)' /\ ~ IsKept(m)' /\ ~ IsQueued(m)'
  BY <1>1 DEF InHands, Hand, HandLabel, IsKept, KeptAt, IsQueued, QueuedAt
<1>4. ASSUME NEW m \in Msg PROVE WordOK(m)'
  <2>1. CASE pc[m] = "idle"
    <3>1. ends'[m] = 0 /\ pc'[m] = "idle"
      BY <1>1, <2>1, WordFacts
    <3> QED
      BY <1>3, <3>1 DEF WordOK, Apart, Somewhere, Ended, InHands, IsKept, IsQueued
  <2>2. CASE pc[m] # "idle"
    <3>1. ends'[m] = 1 /\ pc'[m] # "idle"
      BY <1>1, <2>2, WordFacts
    <3> QED
      BY <1>3, <3>1, WordEnds
  <2> QED
    BY <2>1, <2>2
<1> QED
  BY <1>2, <1>4 DEF WordInv

LEMMA WordStep == ASSUME ControlInv, WordInv, [Next]_vars PROVE WordInv'
<1>1. ASSUME \A m \in Msg : pc'[m] = pc[m] /\ frame'[m] = frame[m], UNCHANGED <<frags, queue, ends>>
      PROVE  WordInv'
  <2>1. ASSUME NEW m \in Msg PROVE WordOK(m)'
    <3>1. SameHands(m) /\ SameIdle(m)
      BY <1>1 DEF SameHands, SameIdle, Hand, Parts
    <3> QED
      BY <1>1, <3>1, SameMaps, WordStays DEF WordInv
  <2> QED
    BY <1>1, <2>1 DEF WordInv
<1>2. CASE UNCHANGED vars
  BY <1>1, <1>2 DEF vars, ivars, mapVars, histVars
<1>3. ASSUME NEW m \in Msg, MsgStep(m) PROVE WordInv'
  BY <1>3, WordQuietSteps, WordEndSteps, WordComes, WordIsKept, WordsJoin, WordsQueued,
     WordsDrained DEF MsgStep
<1>4. ASSUME NEW h \in NewCmd, NewStep(h) PROVE WordInv'
  <2>1. CASE NewCleans(h)
    BY <2>1, WordCleaned
  <2>2. CASE NewLooksUp(h) \/ NewReleases(h) \/ NewBinds(h)
    <3>1. UNCHANGED <<frags, queue, ends>>
      BY <2>2 DEF NewLooksUp, NewReleases, NewBinds, mapVars, histVars
    <3> QED
      BY <1>1, <1>4, <3>1, NewMoves
  <2> QED
    BY <1>4, <2>1, <2>2 DEF NewStep
<1> QED
  BY <1>2, <1>3, <1>4, WordRestart DEF Next

LEMMA WordStart == ASSUME Init PROVE WordInv
<1>1. /\ \A m \in Msg : pc[m] = "idle" /\ ends[m] = 0
      /\ \A s \in Session : frags[s] = <<>> /\ queue[s] = <<>>
  BY DEF Init, Handler
<1>2. \A m \in Msg : ~ InHands(m) /\ ~ IsKept(m) /\ ~ IsQueued(m)
  BY <1>1 DEF InHands, Hand, HandLabel, IsKept, KeptAt, IsQueued, QueuedAt
<1>3. \A m \in Msg : WordOK(m)
  BY <1>1, <1>2 DEF WordOK, Apart, Somewhere, Ended, InHands, IsKept, IsQueued
<1>4. ends \in [Msg -> Nat]
  BY DEF Init
<1> QED
  BY <1>3, <1>4 DEF WordInv

-----------------------------------------------------------------------------
(* Which turns run.                                                        *)

\* What has ended stays ended.
LEMMA EndsGrow ==
  ASSUME WordInv, [Next]_vars
  PROVE  \A m \in Msg : Ended(m) => Ended(m)'
<1>1. ASSUME NEW X, Settle(X) PROVE \A m \in Msg : Ended(m) => Ended(m)'
  BY <1>1 DEF Settle, WordInv, Ended
<1>2. CASE ends' = ends
  BY <1>2 DEF Ended
<1>3. ends' = ends \/ \E X : Settle(X)
  <2>1. ASSUME NEW m \in Msg, MsgStep(m) PROVE ends' = ends \/ \E X : Settle(X)
    BY <2>1 DEF MsgStep, HandleWorkerMessage, OnlyReplies, ListImages, PicksImage, PicksNothing,
       KeepFragment, JoinFragments, Refused, EnqueueMessage, BuildUserInput, SendToAgent,
       EndsCounted, EndsUncounted, ReadsCost, StoresCost, AskQuestion, NothingQueued, DrainNext,
       histVars
  <2>2. ASSUME NEW h \in NewCmd, NewStep(h) PROVE ends' = ends \/ \E X : Settle(X)
    BY <2>2 DEF NewStep, NewLooksUp, NewReleases, NewCleans, NewBinds, histVars
  <2>3. CASE Restart
    BY <2>3 DEF Restart
  <2>4. CASE UNCHANGED vars
    BY <2>4 DEF vars, ivars, histVars
  <2> QED
    BY <2>1, <2>2, <2>3, <2>4 DEF Next
<1> QED
  BY <1>1, <1>2, <1>3

GoesOnTurning(h) ==
  InTurn(h)' => /\ InTurn(h) /\ Parts(h)' = Parts(h)
                /\ pc'[h] = "stream" => pc[h] = "stream"

\* A turn that runs is the one that ran before, or it begins and had not ended.
LEMMA TurnsStep ==
  ASSUME ControlInv, WordInv, [Next]_vars
  PROVE  \/ \A h \in Msg : GoesOnTurning(h)
         \/ \E g \in Msg :
              /\ TurnOf(g) \in Msg /\ ~ Ended(TurnOf(g)) /\ Ended(TurnOf(g))'
              /\ UNCHANGED frame
              /\ \A h \in Msg \ {g} : GoesOnTurning(h)
<1>1. CASE \A m \in Msg : pc'[m] = pc[m] /\ frame'[m] = frame[m]
  BY <1>1 DEF GoesOnTurning, InTurn, Parts
<1>2. ASSUME NEW m \in Msg, MsgStep(m), ~ SendToAgent(m)
      PROVE  \A h \in Msg : GoesOnTurning(h)
  <2>1. StepOf(m) /\ m \in Handler
    BY <1>2, MsgMoves DEF Handler
  <2>2. /\ pc'[m] \in TurnLabel => pc[m] \in TurnLabel /\ frame' = frame
        /\ pc'[m] # "stream"
    BY <1>2, <2>1 DEF MsgStep, HandleWorkerMessage, OnlyReplies, ListImages, PicksImage,
       PicksNothing, KeepFragment, JoinFragments, Refused, EnqueueMessage, BuildUserInput,
       EndsCounted, EndsUncounted, ReadsCost, StoresCost, AskQuestion, NothingQueued, DrainNext,
       Goto, Return, At, TurnLabel, ControlInv, ControlTypeOK
  <2> QED
    BY <2>1, <2>2, OtherHands DEF GoesOnTurning, InTurn, Parts
<1>3. ASSUME NEW g \in Msg, SendToAgent(g)
      PROVE  /\ TurnOf(g) \in Msg /\ ~ Ended(TurnOf(g)) /\ Ended(TurnOf(g))'
             /\ UNCHANGED frame
             /\ \A h \in Msg \ {g} : GoesOnTurning(h)
  <2>1. StepOf(g) /\ frame' = frame /\ pc[g] = "send" /\ Settle(ToSet(Parts(g)))
    BY <1>3, MsgMoves DEF MsgStep, SendToAgent, At
  <2>2. Parts(g) \in Seq(Msg) /\ Parts(g) # <<>>
    BY <2>1, FrameFacts DEF ControlInv, HandLabel
  <2>3. TurnOf(g) \in Msg /\ TurnOf(g) \in ToSet(Parts(g))
    <3>1. /\ Len(Parts(g)) \in DOMAIN Parts(g) /\ DOMAIN Parts(g) = 1..Len(Parts(g))
      BY <2>2, LenProperties, EmptySeq
    <3> QED
      BY <2>2, <3>1, ElementOfSeq DEF TurnOf, Last, ToSet
  <2>4. Hand(g, TurnOf(g))
    BY <2>1, <2>3 DEF Hand, HandLabel
  <2>5. ends[TurnOf(g)] = 0
    BY <2>3, <2>4, WordFacts DEF InHands
  <2>6. ~ Ended(TurnOf(g)) /\ Ended(TurnOf(g))'
    BY <2>1, <2>3, <2>5 DEF Settle, Ended, TurnOf, Parts
  <2> QED
    BY <2>1, <2>3, <2>6, OtherHands DEF GoesOnTurning, InTurn, Parts
<1>4. CASE Restart
  <2>1. \A h \in Msg : ~ InTurn(h)'
    BY <1>4 DEF Restart, InTurn, TurnLabel, Handler
  <2> QED
    BY <2>1 DEF GoesOnTurning
<1>5. CASE UNCHANGED vars
  BY <1>1, <1>5 DEF vars, ivars
<1> QED
  BY <1>1, <1>2, <1>3, <1>4, <1>5, NewMoves DEF Next

LEMMA TurnIsMsg ==
  ASSUME ControlInv, NEW h \in Msg, InTurn(h)
  PROVE  TurnOf(h) \in Msg /\ SessionOf(h) \in Session /\ frame[h] \in Frame
<1>1. Parts(h) \in Seq(Msg) /\ Parts(h) # <<>>
  BY FrameFacts DEF InTurn, ControlInv
<1>2. Len(Parts(h)) \in 1..Len(Parts(h))
  BY <1>1, LenProperties, EmptySeq
<1>3. SessionOf(h) \in Session /\ frame[h] \in Frame
  BY FrameFacts DEF InTurn, TurnLabel
<1> QED
  BY <1>1, <1>2, <1>3, ElementOfSeq DEF TurnOf, Last

LEMMA TurnStep == ASSUME ControlInv, WordInv, TurnInv, [Next]_vars PROVE TurnInv'
<1>1. \A m \in Msg : Ended(m) => Ended(m)'
  BY EndsGrow
<1>2. \A h \in Msg : InTurn(h) => TurnOf(h) \in Msg
  BY TurnIsMsg
<1>3. \A h \in Msg : GoesOnTurning(h) /\ InTurn(h)' => InTurn(h) /\ TurnOf(h)' = TurnOf(h)
  BY DEF GoesOnTurning, TurnOf
<1>4. CASE \A h \in Msg : GoesOnTurning(h)
  <2>1. \A h \in Msg : InTurn(h)' => InTurn(h) /\ TurnOf(h)' = TurnOf(h)
    BY <1>3, <1>4
  <2> QED
    BY <1>1, <1>2, <2>1 DEF TurnInv, Ended
<1>5. ASSUME NEW g \in Msg,
             TurnOf(g) \in Msg, ~ Ended(TurnOf(g)), Ended(TurnOf(g))', UNCHANGED frame,
             \A h \in Msg \ {g} : GoesOnTurning(h)
      PROVE  TurnInv'
  <2>1. \A h \in Msg : TurnOf(h)' = TurnOf(h)
    BY <1>5 DEF TurnOf, Parts
  <2>2. \A h \in Msg \ {g} : InTurn(h)' => InTurn(h) /\ Ended(TurnOf(h)) /\ TurnOf(h) # TurnOf(g)
    BY <1>3, <1>5 DEF TurnInv
  <2> QED
    BY <1>1, <1>2, <1>5, <2>1, <2>2 DEF TurnInv, Ended
<1> QED
  BY <1>4, <1>5, TurnsStep

\* What is over stays over, and what was counted stays so.
LEMMA OverStays ==
  ASSUME ControlInv, WordInv, [Next]_vars
  PROVE  \A t \in Msg : (Over(t) => Over(t)') /\ (Counted(t) => Counted(t)')
<1>1. \A m \in Msg : Ended(m) => Ended(m)'
  BY EndsGrow
<1>2. \A h \in Msg : GoesOnTurning(h) =>
        /\ InTurn(h)' => InTurn(h) /\ TurnOf(h)' = TurnOf(h)
        /\ pc'[h] = "stream" => pc[h] = "stream" /\ TurnOf(h)' = TurnOf(h)
  BY DEF GoesOnTurning, TurnOf, InTurn, TurnLabel
<1>3. CASE \A h \in Msg : GoesOnTurning(h)
  BY <1>1, <1>2, <1>3 DEF Over, Counted
<1>4. ASSUME NEW g \in Msg, ~ Ended(TurnOf(g)), UNCHANGED frame,
             \A h \in Msg \ {g} : GoesOnTurning(h)
      PROVE  \A t \in Msg : (Over(t) => Over(t)') /\ (Counted(t) => Counted(t)')
  <2>1. TurnOf(g)' = TurnOf(g)
    BY <1>4 DEF TurnOf, Parts
  <2>2. \A t \in Msg : Ended(t) => TurnOf(g) # t
    BY <1>4
  <2> QED
    BY <1>1, <1>2, <1>4, <2>1, <2>2 DEF Over, Counted
<1> QED
  BY <1>3, <1>4, TurnsStep

-----------------------------------------------------------------------------
(* The records.                                                            *)

\* The price of a turn is a number, or unknown when the model has none.
LEMMA CostType ==
  ASSUME NEW name, NEW u \in Usage
  PROVE  CostOf(name, u) \in Cost
<1>1. u.in \in Nat /\ u.cached \in Nat /\ u.out \in Nat
  BY AccountingConstants
<1>2. CASE name \notin DOMAIN Price
  BY <1>2 DEF CostOf, Cost
<1>3. CASE name \in DOMAIN Price
  <2>1. Price[name].hit \in Nat /\ Price[name].miss \in Nat /\ Price[name].out \in Nat
    BY <1>3, AccountingConstants
  <2>2. \A a, b \in Nat : a * b \in Nat
    OBVIOUS
  <2> DEFINE hits == IF u.cached > u.in THEN u.in ELSE u.cached
  <2>3. hits \in Nat /\ u.in - hits \in Nat
    BY <1>1
  <2> HIDE DEF hits
  <2>4. Price[name].hit * hits + Price[name].miss * (u.in - hits) + Price[name].out * u.out \in Nat
    <3>1. /\ Price[name].hit * hits \in Nat
          /\ Price[name].miss * (u.in - hits) \in Nat
          /\ Price[name].out * u.out \in Nat
      BY <1>1, <2>1, <2>2, <2>3
    <3>2. \A a, b, c \in Nat : a + b + c \in Nat
      OBVIOUS
    <3> QED
      BY <3>1, <3>2
  <2> QED
    BY <1>3, <2>4 DEF CostOf, Cost, hits
<1> QED
  BY <1>2, <1>3

LEMMA PlusType ==
  ASSUME NEW a \in Cost, NEW b \in Cost
  PROVE  /\ Plus(a, b) \in Cost
         /\ Plus(a, b) # a => a # Unknown /\ (Plus(a, b) = Unknown \/ Plus(a, b) > a)
         /\ a # Unknown /\ b # Unknown => Plus(a, b) = a + b
<1>1. Unknown \notin Nat
  BY AccountingConstants
<1> QED
  BY <1>1 DEF Plus, Cost

\* Steps that leave the records alone move no turn to where its sum is read or stored.
LEMMA AvarsStep ==
  ASSUME ControlInv, [Next]_vars
  PROVE  \/ \E h \in Msg : EndsCounted(h) \/ ReadsCost(h) \/ StoresCost(h)
         \/ \E h \in NewCmd : NewCleans(h)
         \/ Restart
         \/ /\ UNCHANGED avars
            /\ \A h \in Msg : Stores(h) \/ Stores(h)' =>
                 Stores(h) /\ pc'[h] = pc[h] /\ frame'[h] = frame[h]
<1>1. ASSUME NEW m \in Msg, MsgStep(m), ~ (EndsCounted(m) \/ ReadsCost(m) \/ StoresCost(m))
      PROVE  /\ UNCHANGED avars
             /\ \A h \in Msg : Stores(h) \/ Stores(h)' =>
                  Stores(h) /\ pc'[h] = pc[h] /\ frame'[h] = frame[h]
  <2>1. UNCHANGED avars
    BY <1>1 DEF MsgStep, HandleWorkerMessage, OnlyReplies, ListImages, PicksImage, PicksNothing,
       KeepFragment, JoinFragments, Refused, EnqueueMessage, BuildUserInput, SendToAgent,
       EndsUncounted, AskQuestion, NothingQueued, DrainNext
  <2>2. m \in Handler
    BY DEF Handler
  <2>3. pc[m] \notin {"read", "store"} /\ pc'[m] \notin {"read", "store"}
    BY <1>1, <2>2 DEF MsgStep, HandleWorkerMessage, OnlyReplies, ListImages, PicksImage,
       PicksNothing, KeepFragment, JoinFragments, Refused, EnqueueMessage, BuildUserInput,
       SendToAgent, EndsUncounted, AskQuestion, NothingQueued, DrainNext, At, Goto, Return,
       ControlInv, ControlTypeOK
  <2>4. \A h \in Msg \ {m} : pc'[h] = pc[h] /\ frame'[h] = frame[h]
    BY <1>1, MsgMoves, OtherHands
  <2> QED
    BY <2>1, <2>3, <2>4 DEF Stores
<1>2. ASSUME NEW h \in NewCmd, NewStep(h), ~ NewCleans(h)
      PROVE  UNCHANGED avars /\ \A m \in Msg : pc'[m] = pc[m] /\ frame'[m] = frame[m]
  BY <1>2, NewMoves DEF NewStep, NewLooksUp, NewReleases, NewBinds
<1>3. CASE UNCHANGED vars
  BY <1>3 DEF vars, ivars, Stores
<1> QED
  BY <1>1, <1>2, <1>3 DEF Next, Stores

\* What a counted turn does to the records.
LEMMA CountedTurn ==
  ASSUME ControlInv, TurnInv, RecordInv, NEW h \in Msg, EndsCounted(h),
         NEW t \in Msg, t = TurnOf(h), NEW s \in Session, s = SessionOf(h)
  PROVE  \E r \in Msg, c \in Cost :
           /\ r = IF usage[s] = None THEN t ELSE usage[s]
           /\ pc[h] = "stream" /\ pc'[h] = "read" /\ frame' = frame
           /\ \A g \in Msg \ {h} : pc'[g] = pc[g] /\ (InTurn(g) => TurnOf(g) # t)
           /\ UNCHANGED <<stored, due>>
           /\ usage' = [usage EXCEPT ![s] = r]
           /\ model' = [model EXCEPT ![r] = model'[r]] /\ model'[r] \in Model \cup {None}
           /\ acc' = [acc EXCEPT ![r] = acc'[r]]
           /\ acc'[r] = Plus(IF usage[s] = None THEN frame[h].base ELSE acc[r], c)
           /\ holds' = [holds EXCEPT ![t] = r]
           /\ total' = [total EXCEPT ![s] = IF c = Unknown THEN total[s] ELSE total[s] + c]
           /\ unsure' = IF c = Unknown \/ \E o \in Msg : holds[o] # None /\ holds[o] = usage[s]
                          THEN unsure \cup {s} ELSE unsure
<1>1. /\ pc[h] = "stream" /\ frame' = frame /\ pc' = [pc EXCEPT ![h] = "read"]
      /\ \E u \in Usage : AddUsage(t, s, frame[h].base, u)
  BY DEF EndsCounted, At, Goto
<1>2. h \in Handler /\ \A g \in Msg : g \in Handler
  BY DEF Handler
<1>3. pc'[h] = "read" /\ \A g \in Msg \ {h} : pc'[g] = pc[g]
  BY <1>1, <1>2 DEF ControlInv, ControlTypeOK
<1>4. \A g \in Msg \ {h} : InTurn(g) => TurnOf(g) # t
  BY <1>1 DEF TurnInv, InTurn, TurnLabel
<1>5. PICK u \in Usage : AddUsage(t, s, frame[h].base, u)
  BY <1>1
<1>6. PICK name \in Model \cup {None} : name = ModelOf(t, s, u)
  BY AccountingConstants DEF ModelOf, RecordInv, AccountingTypeOK
<1>7. PICK c \in Cost : c = CostOf(name, u)
  BY CostType
<1>8. PICK r \in Msg : r = IF usage[s] = None THEN t ELSE usage[s]
  BY DEF RecordInv, AccountingTypeOK
<1>9. /\ UNCHANGED <<stored, due>>
      /\ usage' = [usage EXCEPT ![s] = r] /\ model' = [model EXCEPT ![r] = name]
      /\ acc' = [acc EXCEPT ![r] = Plus(IF usage[s] = None THEN frame[h].base ELSE acc[r], c)]
      /\ holds' = [holds EXCEPT ![t] = r]
      /\ total' = [total EXCEPT ![s] = IF c = Unknown THEN total[s] ELSE total[s] + c]
      /\ unsure' = IF c = Unknown \/ \E o \in Msg : holds[o] # None /\ holds[o] = usage[s]
                     THEN unsure \cup {s} ELSE unsure
  BY <1>5, <1>6, <1>7, <1>8 DEF AddUsage, Charge, RecordOf
<1>10. /\ model' = [model EXCEPT ![r] = model'[r]] /\ model'[r] \in Model \cup {None}
       /\ acc' = [acc EXCEPT ![r] = acc'[r]]
       /\ acc'[r] = Plus(IF usage[s] = None THEN frame[h].base ELSE acc[r], c)
  BY <1>9 DEF RecordInv, AccountingTypeOK
<1> WITNESS r \in Msg, c \in Cost
<1> QED
  BY <1>1, <1>3, <1>4, <1>8, <1>9, <1>10

LEMMA RecordCounts ==
  ASSUME ControlInv, WordInv, TurnInv, RecordInv, [Next]_vars, NEW h \in Msg, EndsCounted(h)
  PROVE  RecordInv'
<1>1. InTurn(h) /\ TurnOf(h) \in Msg /\ SessionOf(h) \in Session /\ frame[h].base \in Nat
  BY TurnIsMsg DEF EndsCounted, At, InTurn, TurnLabel, Frame
<1>2. PICK t \in Msg, s \in Session : t = TurnOf(h) /\ s = SessionOf(h)
  BY <1>1
<1>3. PICK r \in Msg, c \in Cost :
        /\ r = IF usage[s] = None THEN t ELSE usage[s]
        /\ pc[h] = "stream" /\ pc'[h] = "read" /\ frame' = frame
        /\ \A g \in Msg \ {h} : pc'[g] = pc[g] /\ (InTurn(g) => TurnOf(g) # t)
        /\ UNCHANGED <<stored, due>>
        /\ usage' = [usage EXCEPT ![s] = r]
        /\ model' = [model EXCEPT ![r] = model'[r]] /\ model'[r] \in Model \cup {None}
        /\ acc' = [acc EXCEPT ![r] = acc'[r]]
        /\ acc'[r] = Plus(IF usage[s] = None THEN frame[h].base ELSE acc[r], c)
        /\ holds' = [holds EXCEPT ![t] = r]
        /\ total' = [total EXCEPT ![s] = IF c = Unknown THEN total[s] ELSE total[s] + c]
        /\ unsure' = IF c = Unknown \/ \E o \in Msg : holds[o] # None /\ holds[o] = usage[s]
                       THEN unsure \cup {s} ELSE unsure
  BY <1>2, CountedTurn
<1>4. None \notin Msg
  BY AccountingConstants
<1>5. acc'[r] \in Cost
  <2>1. (IF usage[s] = None THEN frame[h].base ELSE acc[r]) \in Cost
    BY <1>1 DEF RecordInv, AccountingTypeOK, Cost
  <2> QED
    BY <1>3, <2>1, PlusType
<1>6. total' \in [Session -> Nat]
  <2>1. total[s] \in Nat /\ (c # Unknown => c \in Nat)
    BY DEF RecordInv, AccountingTypeOK, Cost
  <2>2. (IF c = Unknown THEN total[s] ELSE total[s] + c) \in Nat
    BY <2>1
  <2> QED
    BY <1>3, <2>2 DEF RecordInv, AccountingTypeOK
<1>7. AccountingTypeOK'
  BY <1>3, <1>5, <1>6 DEF RecordInv, AccountingTypeOK
<1>8. \A g \in Msg : TurnOf(g)' = TurnOf(g)
  BY <1>3 DEF TurnOf, Parts
<1>9. ~ Counted(t) /\ Counted(t)'
  <2>1. ~ Counted(t)
    BY <1>2, <1>3 DEF Counted
  <2>2. Ended(t)'
    BY <1>1, <1>2, EndsGrow DEF TurnInv
  <2>3. \A g \in Msg : pc'[g] = "stream" => TurnOf(g) # t
    BY <1>3 DEF InTurn, TurnLabel
  <2> QED
    BY <1>8, <2>1, <2>2, <2>3 DEF Counted
<1>10. \A x \in Msg : Counted(x) => Counted(x)'
  BY OverStays
<1>11. usage'[s] = r /\ \A x \in Session \ {s} : usage'[x] = usage[x]
  BY <1>3 DEF RecordInv, AccountingTypeOK
<1>12. \A x \in Session : usage[x] # None => usage[x] \in Msg
  BY DEF RecordInv, AccountingTypeOK
<1>13. ASSUME NEW x \in Session, usage'[x] # None PROVE Counted(usage[x])'
  <2>1. CASE usage'[x] = t
    BY <1>9, <2>1 DEF Counted, Ended
  <2>2. CASE usage'[x] # t
    <3>1. usage'[x] = usage[x]
      BY <1>3, <1>11, <2>2
    <3>2. Counted(usage[x])
      BY <1>13, <3>1 DEF RecordInv
    <3>3. PICK y \in Msg : y = usage[x]
      BY <1>12, <1>13, <3>1
    <3>4. Counted(y)'
      BY <1>10, <3>2, <3>3
    <3> QED
      BY <3>1, <3>3, <3>4 DEF Counted, Ended
  <2> QED
    BY <2>1, <2>2
<1>14. ASSUME NEW x \in Session, usage[x] # None PROVE usage[x] # t
  BY <1>9, <1>14 DEF RecordInv
<1>15. \A x, y \in Session : usage'[x] = usage'[y] /\ usage'[x] # None => x = y
  BY <1>3, <1>4, <1>11, <1>14 DEF RecordInv
<1>16. ASSUME NEW g \in Msg, Stores(g)' PROVE holds'[TurnOf(g)] # None
  <2>1. CASE g = h
    BY <1>2, <1>3, <1>4, <2>1 DEF RecordInv, AccountingTypeOK
  <2>2. CASE g # h
    <3>1. Stores(g) /\ InTurn(g) /\ TurnOf(g) # t
      BY <1>3, <1>16, <2>2 DEF Stores, InTurn, TurnLabel
    <3>2. TurnOf(g) \in Msg /\ holds[TurnOf(g)] # None
      BY <3>1, TurnIsMsg DEF RecordInv
    <3> QED
      BY <1>3, <3>1, <3>2 DEF RecordInv, AccountingTypeOK
  <2> QED
    BY <2>1, <2>2
<1> QED
  BY <1>7, <1>8, <1>13, <1>15, <1>16 DEF RecordInv

\* What the steps after it do: the sum is read, and stored or not.
LEMMA StoringTurn ==
  ASSUME ControlInv, TurnInv, RecordInv, NEW h \in Msg, ReadsCost(h) \/ StoresCost(h),
         NEW t \in Msg, t = TurnOf(h), NEW s \in Session, s = SessionOf(h)
  PROVE  /\ Stores(h) /\ frame' = frame /\ UNCHANGED <<usage, acc, model, total>>
         /\ \A g \in Msg \ {h} : pc'[g] = pc[g] /\ (InTurn(g) => TurnOf(g) # t)
         /\ holds[t] \in Msg
         /\ \/ /\ pc[h] = "read" /\ pc'[h] = "store" /\ UNCHANGED <<stored, holds, unsure>>
               /\ due' = [due EXCEPT ![t] = acc[holds[t]]]
            \/ /\ pc[h] = "store" /\ pc'[h] = "finish"
               /\ holds' = [holds EXCEPT ![t] = None] /\ due' = [due EXCEPT ![t] = 0]
               /\ \/ \E c \in Storable(due[t]) : stored' = [stored EXCEPT ![s] = c]
                       /\ unsure' = unsure
                  \/ stored' = stored /\ unsure' = unsure \cup {s}
<1>1. h \in Handler /\ \A g \in Msg : g \in Handler
  BY DEF Handler
<1>2. /\ pc[h] \in {"read", "store"} /\ frame' = frame
      /\ pc' = [pc EXCEPT ![h] = IF pc[h] = "read" THEN "store" ELSE "finish"]
      /\ UNCHANGED <<usage, acc, model, total>>
  BY DEF ReadsCost, StoresCost, ReadCost, SetCost, SetCostFails, At, Goto
<1>3. /\ \A g \in Msg \ {h} : pc'[g] = pc[g] /\ (InTurn(g) => TurnOf(g) # t)
      /\ pc'[h] = IF pc[h] = "read" THEN "store" ELSE "finish"
  BY <1>1, <1>2 DEF TurnInv, InTurn, TurnLabel, ControlInv, ControlTypeOK
<1>4. Stores(h) /\ holds[t] \in Msg
  BY <1>2 DEF Stores, RecordInv, AccountingTypeOK
<1>5. CASE ReadsCost(h)
  <2>1. /\ pc[h] = "read" /\ UNCHANGED <<stored, holds, unsure>>
        /\ due' = [due EXCEPT ![t] = acc[holds[t]]]
    BY <1>5 DEF ReadsCost, ReadCost, At
  <2> QED
    BY <1>2, <1>3, <1>4, <2>1
<1>6. CASE StoresCost(h)
  <2>1. /\ pc[h] = "store"
        /\ holds' = [holds EXCEPT ![t] = None] /\ due' = [due EXCEPT ![t] = 0]
        /\ \/ \E c \in Storable(due[t]) : stored' = [stored EXCEPT ![s] = c]
                /\ unsure' = unsure
           \/ stored' = stored /\ unsure' = unsure \cup {s}
    BY <1>6 DEF StoresCost, SetCost, SetCostFails, At
  <2> QED
    BY <1>2, <1>3, <1>4, <2>1
<1> QED
  BY <1>5, <1>6

LEMMA RecordStores ==
  ASSUME ControlInv, WordInv, TurnInv, RecordInv, [Next]_vars,
         NEW h \in Msg, ReadsCost(h) \/ StoresCost(h)
  PROVE  RecordInv'
<1>1. InTurn(h) /\ TurnOf(h) \in Msg /\ SessionOf(h) \in Session
  BY TurnIsMsg DEF ReadsCost, StoresCost, At, InTurn, TurnLabel
<1>2. PICK t \in Msg, s \in Session : t = TurnOf(h) /\ s = SessionOf(h)
  BY <1>1
<1>3. /\ Stores(h) /\ frame' = frame /\ UNCHANGED <<usage, acc, model, total>>
      /\ \A g \in Msg \ {h} : pc'[g] = pc[g] /\ (InTurn(g) => TurnOf(g) # t)
      /\ holds[t] \in Msg
      /\ \/ /\ pc[h] = "read" /\ pc'[h] = "store" /\ UNCHANGED <<stored, holds, unsure>>
            /\ due' = [due EXCEPT ![t] = acc[holds[t]]]
         \/ /\ pc[h] = "store" /\ pc'[h] = "finish"
            /\ holds' = [holds EXCEPT ![t] = None] /\ due' = [due EXCEPT ![t] = 0]
            /\ \/ \E c \in Storable(due[t]) : stored' = [stored EXCEPT ![s] = c]
                    /\ unsure' = unsure
               \/ stored' = stored /\ unsure' = unsure \cup {s}
  BY <1>2, StoringTurn
<1>4. None \notin Msg
  BY AccountingConstants
<1>5. stored' \in [Session -> Nat] /\ unsure' \subseteq Session
  <2>1. \A c \in Storable(due[t]) : c \in Nat
    BY DEF Storable, RecordInv, AccountingTypeOK, Cost
  <2>2. \/ stored' = stored
        \/ \E c \in Nat : stored' = [stored EXCEPT ![s] = c]
    BY <1>3, <2>1
  <2> QED
    BY <1>3, <2>2 DEF RecordInv, AccountingTypeOK
<1>6. due' \in [Msg -> Cost] /\ holds' \in [Msg -> Msg \cup {None}]
  <2>1. acc[holds[t]] \in Cost /\ 0 \in Cost
    BY <1>3 DEF RecordInv, AccountingTypeOK, Cost
  <2>2. \/ due' = [due EXCEPT ![t] = acc[holds[t]]] /\ holds' = holds
        \/ due' = [due EXCEPT ![t] = 0] /\ holds' = [holds EXCEPT ![t] = None]
    BY <1>3
  <2> QED
    BY <2>1, <2>2 DEF RecordInv, AccountingTypeOK
<1>7. AccountingTypeOK'
  BY <1>3, <1>5, <1>6 DEF RecordInv, AccountingTypeOK
<1>8. \A g \in Msg : TurnOf(g)' = TurnOf(g)
  BY <1>3 DEF TurnOf, Parts
<1>9. \A x \in Msg : Counted(x) => Counted(x)'
  BY OverStays
<1>10. ASSUME NEW x \in Session, usage'[x] # None PROVE Counted(usage[x])'
  <2>1. PICK y \in Msg : y = usage[x]
    BY <1>3, <1>10 DEF RecordInv, AccountingTypeOK
  <2>2. Counted(y)'
    BY <1>3, <1>9, <1>10, <2>1 DEF RecordInv
  <2> QED
    BY <1>3, <2>1, <2>2 DEF Counted, Ended
<1>11. ASSUME NEW g \in Msg, Stores(g)' PROVE holds'[TurnOf(g)] # None
  <2>1. CASE g = h
    <3>1. holds' = holds
      BY <1>3, <1>11, <2>1 DEF Stores
    <3> QED
      BY <1>2, <1>3, <1>4, <2>1, <3>1
  <2>2. CASE g # h
    <3>1. Stores(g) /\ InTurn(g) /\ TurnOf(g) # t
      BY <1>3, <1>11, <2>2 DEF Stores, InTurn, TurnLabel
    <3>2. TurnOf(g) \in Msg /\ holds[TurnOf(g)] # None
      BY <3>1, TurnIsMsg DEF RecordInv
    <3>3. holds' = holds \/ holds' = [holds EXCEPT ![t] = None]
      BY <1>3
    <3> QED
      BY <3>1, <3>2, <3>3 DEF RecordInv, AccountingTypeOK
  <2> QED
    BY <2>1, <2>2
<1> QED
  BY <1>3, <1>7, <1>8, <1>10, <1>11 DEF RecordInv

\* Records that are forgotten, and those that stay.
LEMMA RecordForgets ==
  ASSUME ControlInv, WordInv, TurnInv, RecordInv, [Next]_vars, AccountingTypeOK',
         \A x \in Session : usage'[x] = None \/ usage'[x] = usage[x],
         \/ \A g \in Msg : ~ Stores(g)'
         \/ holds' = holds
            /\ \A g \in Msg : Stores(g)' => Stores(g) /\ pc'[g] = pc[g] /\ frame'[g] = frame[g]
  PROVE  RecordInv'
<1>1. \A x \in Msg : Counted(x) => Counted(x)'
  BY OverStays
<1>2. ASSUME NEW x \in Session, usage'[x] # None PROVE Counted(usage[x])'
  <2>1. PICK y \in Msg : y = usage[x]
    BY <1>2 DEF RecordInv, AccountingTypeOK
  <2>2. Counted(y)'
    BY <1>1, <1>2, <2>1 DEF RecordInv
  <2> QED
    BY <1>2, <2>1, <2>2 DEF Counted, Ended
<1>3. \A g \in Msg : frame'[g] = frame[g] => TurnOf(g)' = TurnOf(g)
  BY DEF TurnOf, Parts
<1>4. ASSUME NEW g \in Msg, Stores(g)' PROVE holds'[TurnOf(g)'] # None
  BY <1>3, <1>4 DEF RecordInv
<1>5. \A x, y \in Session : usage'[x] = usage'[y] /\ usage'[x] # None => x = y
  BY DEF RecordInv
<1> QED
  BY <1>2, <1>4, <1>5 DEF RecordInv

LEMMA RecordStep ==
  ASSUME ControlInv, WordInv, TurnInv, RecordInv, [Next]_vars PROVE RecordInv'
<1>1. ASSUME NEW h \in Msg, EndsCounted(h) \/ ReadsCost(h) \/ StoresCost(h) PROVE RecordInv'
  BY <1>1, RecordCounts, RecordStores
<1>2. ASSUME NEW h \in NewCmd, NewCleans(h) PROVE RecordInv'
  <2>1. SessionOf(h) \in Session
    BY <1>2, IntakeConstants DEF NewCleans, At, ControlInv, FrameOK, Handler
  <2>2. \A g \in Msg : pc'[g] = pc[g] /\ frame'[g] = frame[g]
    BY <1>2, NewMoves DEF NewStep
  <2>3. /\ usage' = [usage EXCEPT ![SessionOf(h)] = None]
        /\ unsure' \subseteq unsure \cup {SessionOf(h)}
        /\ UNCHANGED <<stored, acc, model, holds, due, total>>
    BY <1>2 DEF NewCleans, Forget
  <2>4. AccountingTypeOK'
    BY <2>1, <2>3 DEF RecordInv, AccountingTypeOK
  <2>5. \A x \in Session : usage'[x] = None \/ usage'[x] = usage[x]
    BY <2>1, <2>3 DEF RecordInv, AccountingTypeOK
  <2>6. \A g \in Msg : Stores(g)' => Stores(g)
    BY <2>2 DEF Stores
  <2> QED
    BY <2>2, <2>3, <2>4, <2>5, <2>6, RecordForgets
<1>3. CASE Restart
  <2>1. /\ usage' = [s \in Session |-> None] /\ holds' = [m \in Msg |-> None]
        /\ due' = [m \in Msg |-> 0] /\ UNCHANGED <<stored, acc, model, total>>
        /\ unsure' = unsure \cup {SessionOf(h) : h \in {g \in Msg : pc[g] \in {"read", "store"}}}
    BY <1>3 DEF Restart, ForgetAll
  <2>2. \A h \in Msg : pc[h] \in {"read", "store"} => SessionOf(h) \in Session
    BY FrameFacts
  <2>3. AccountingTypeOK'
    BY <2>1, <2>2 DEF RecordInv, AccountingTypeOK, Cost
  <2>4. \A g \in Msg : ~ Stores(g)'
    BY <1>3 DEF Restart, Stores, Handler
  <2> QED
    BY <2>1, <2>3, <2>4, RecordForgets
<1>4. ASSUME UNCHANGED avars,
             \A h \in Msg : Stores(h)' => Stores(h) /\ pc'[h] = pc[h] /\ frame'[h] = frame[h]
      PROVE  RecordInv'
  <2>1. AccountingTypeOK'
    BY <1>4 DEF avars, RecordInv, AccountingTypeOK
  <2> QED
    BY <1>4, <2>1, RecordForgets DEF avars
<1> QED
  BY <1>1, <1>2, <1>3, <1>4, AvarsStep

-----------------------------------------------------------------------------
(* The words, the turns and the records together.                          *)

BaseInv == ControlInv /\ WordInv /\ TurnInv /\ RecordInv

LEMMA BaseStart == ASSUME Init PROVE BaseInv
<1>1. \A h \in Msg : pc[h] = "idle"
  BY DEF Init, Handler
<1>2. TurnInv
  BY <1>1 DEF TurnInv, InTurn, TurnLabel
<1>3. AccountingTypeOK
  BY DEF Init, AccountingInit, AccountingTypeOK, Cost
<1>4. RecordInv
  BY <1>1, <1>3 DEF RecordInv, Init, AccountingInit, Stores
<1> QED
  BY <1>2, <1>4, ControlStart, WordStart DEF BaseInv

LEMMA BaseStep == ASSUME BaseInv, [Next]_vars PROVE BaseInv'
  BY ControlStep, WordStep, TurnStep, RecordStep DEF BaseInv, RecordInv

LEMMA BaseAlways == Spec => []BaseInv
  BY BaseStart, BaseStep, PTL DEF Spec

-----------------------------------------------------------------------------
(* Every word is in one place.                                             *)

LEMMA CountOne ==
  ASSUME NEW S
  PROVE  /\ (\A x : x \notin S) => Cardinality(S) = 0
         /\ \A x : (\A y : y \in S <=> y = x) => Cardinality(S) = 1
<1>1. ASSUME \A x : x \notin S PROVE Cardinality(S) = 0
  <2>1. S = {}
    BY <1>1
  <2> QED
    BY <2>1, FS_EmptySet
<1>2. ASSUME NEW x, \A y : y \in S <=> y = x PROVE Cardinality(S) = 1
  <2>1. S = {x}
    BY <1>2
  <2> QED
    BY <2>1, FS_Singleton
<1> QED
  BY <1>1, <1>2

LEMMA CountHands ==
  ASSUME ControlInv, WordInv, NEW m \in Msg
  PROVE  Cardinality(InHand(m)) = IF InHands(m) THEN 1 ELSE 0
<1>1. ASSUME NEW h \in Msg PROVE h \in InHand(m) <=> Hand(h, m)
  <2>1. DOMAIN Parts(h) = 1..Len(Parts(h))
    BY FrameFacts, LenProperties
  <2>2. Contains(Parts(h), m) <=> m \in ToSet(Parts(h))
    BY <2>1 DEF Contains, ToSet
  <2> QED
    BY <2>2 DEF InHand, Hand, HandLabel
<1>2. InHand(m) \subseteq Msg
  BY DEF InHand
<1>3. CASE InHands(m)
  <2>1. PICK h \in Msg : Hand(h, m)
    BY <1>3 DEF InHands
  <2>2. \A g : g \in InHand(m) <=> g = h
    BY <1>1, <1>2, <2>1, WordFacts
  <2> QED
    BY <1>3, <2>2, CountOne
<1>4. CASE ~ InHands(m)
  <2>1. \A g : g \notin InHand(m)
    BY <1>1, <1>2, <1>4 DEF InHands
  <2> QED
    BY <1>4, <2>1, CountOne
<1> QED
  BY <1>3, <1>4

LEMMA CountKept ==
  ASSUME ControlInv, WordInv, NEW m \in Msg
  PROVE  Cardinality(Kept(m)) = IF IsKept(m) THEN 1 ELSE 0
<1>1. ASSUME NEW s \in Session PROVE DOMAIN frags[s] \subseteq Nat
  <2>1. frags[s] \in Seq(Msg)
    BY DEF ControlInv, ControlTypeOK
  <2>2. DOMAIN frags[s] = 1..Len(frags[s]) /\ Len(frags[s]) \in Nat
    BY <2>1, LenProperties
  <2> QED
    BY <2>2
<1>2. \A x : x \in Kept(m) <=> \E s \in Session, i \in Nat : x = <<s, i>> /\ KeptAt(s, i, m)
  BY <1>1 DEF Kept, KeptAt
<1>3. CASE IsKept(m)
  <2>1. PICK s \in Session, i \in Nat : KeptAt(s, i, m)
    BY <1>3 DEF IsKept
  <2>2. \A t \in Session, j \in Nat : KeptAt(t, j, m) => t = s /\ j = i
    BY <2>1 DEF WordInv, WordOK, Apart
  <2>3. PICK k : k = <<s, i>>
    OBVIOUS
  <2>4. \A x : x \in Kept(m) <=> x = k
    BY <1>2, <2>1, <2>2, <2>3
  <2>5. Cardinality(Kept(m)) = 1
    BY <2>4, CountOne
  <2> QED
    BY <1>3, <2>5
<1>4. CASE ~ IsKept(m)
  <2>1. \A x : x \notin Kept(m)
    BY <1>2, <1>4 DEF IsKept
  <2> QED
    BY <1>4, <2>1, CountOne
<1> QED
  BY <1>3, <1>4

LEMMA CountQueued ==
  ASSUME ControlInv, WordInv, NEW m \in Msg
  PROVE  Cardinality(InQueue(m)) = IF IsQueued(m) THEN 1 ELSE 0
<1>1. ASSUME NEW s \in Session, NEW i
      PROVE  i \in {j \in DOMAIN queue[s] : Contains(queue[s][j], m)}
               <=> i \in Nat /\ QueuedAt(s, i, m)
  <2>1. queue[s] \in Seq(Seq(Msg)) /\ DOMAIN queue[s] = 1..Len(queue[s])
    BY LenProperties DEF ControlInv, ControlTypeOK
  <2>2. ASSUME i \in DOMAIN queue[s] PROVE Contains(queue[s][i], m) <=> m \in ToSet(queue[s][i])
    <3>1. queue[s][i] \in Seq(Msg)
      BY <2>1, <2>2, ElementOfSeq
    <3>2. DOMAIN queue[s][i] = 1..Len(queue[s][i])
      BY <3>1, LenProperties
    <3> QED
      BY <3>2 DEF Contains, ToSet
  <2> QED
    BY <2>1, <2>2 DEF QueuedAt
<1>2. \A x : x \in InQueue(m) <=> \E s \in Session, i \in Nat : x = <<s, i>> /\ QueuedAt(s, i, m)
  BY <1>1 DEF InQueue
<1>3. CASE IsQueued(m)
  <2>1. PICK s \in Session, i \in Nat : QueuedAt(s, i, m)
    BY <1>3 DEF IsQueued
  <2>2. \A t \in Session, j \in Nat : QueuedAt(t, j, m) => t = s /\ j = i
    BY <2>1 DEF WordInv, WordOK, Apart
  <2>3. PICK k : k = <<s, i>>
    OBVIOUS
  <2>4. \A x : x \in InQueue(m) <=> x = k
    BY <1>2, <2>1, <2>2, <2>3
  <2>5. Cardinality(InQueue(m)) = 1
    BY <2>4, CountOne
  <2> QED
    BY <1>3, <2>5
<1>4. CASE ~ IsQueued(m)
  <2>1. \A x : x \notin InQueue(m)
    BY <1>2, <1>4 DEF IsQueued
  <2> QED
    BY <1>4, <2>1, CountOne
<1> QED
  BY <1>3, <1>4

\* Whatever a user said is in one place, however messages of a session, /new and restarts
\* interleave (router.go:242-258, handler.go:338-360, 760-797, 179-186).
THEOREM WordsInOnePlace == Spec => []EachWordOnce
<1>1. ASSUME BaseInv PROVE EachWordOnce
  <2>1. ASSUME NEW m \in Msg
        PROVE  Cardinality(InHand(m)) + Cardinality(Kept(m)) + Cardinality(InQueue(m)) + ends[m]
                 = IF At(m, "idle") THEN 0 ELSE 1
    <3>1. /\ Cardinality(InHand(m)) = IF InHands(m) THEN 1 ELSE 0
          /\ Cardinality(Kept(m)) = IF IsKept(m) THEN 1 ELSE 0
          /\ Cardinality(InQueue(m)) = IF IsQueued(m) THEN 1 ELSE 0
      BY <1>1, CountHands, CountKept, CountQueued DEF BaseInv
    <3>2. /\ ends[m] \in {0, 1}
          /\ pc[m] = "idle" <=> ~ (InHands(m) \/ IsKept(m) \/ IsQueued(m) \/ ends[m] # 0)
      BY <1>1, WordFacts DEF BaseInv, WordOK, Somewhere, Ended
    <3>3. /\ InHands(m) => ~ IsKept(m) /\ ~ IsQueued(m) /\ ends[m] = 0
          /\ IsKept(m) => ~ IsQueued(m) /\ ends[m] = 0
          /\ IsQueued(m) => ends[m] = 0
      BY <1>1, WordFacts DEF BaseInv
    <3> QED
      BY <3>1, <3>2, <3>3 DEF At
  <2> QED
    BY <2>1 DEF EachWordOnce
<1> QED
  BY <1>1, BaseAlways, PTL

-----------------------------------------------------------------------------
(* Listings of images.                                                     *)

LEMMA ImageStep ==
  ASSUME ControlInv, ImageInv, [Next]_vars PROVE ImageInv'
<1>1. None \notin Msg /\ images \in [Session -> Msg \cup {None}] /\ pc \in [Handler -> Label]
  BY AccountingConstants DEF ControlInv, ControlTypeOK
\* A step that lists nothing and picks nothing, after which no message is where it lists.
<1>2. ASSUME \A s \in Session : images'[s] \in {images[s], None}, picked' = picked,
             \A m \in Msg : pc'[m] \in {"idle", "list"} => pc[m] \in {"idle", "list"}
      PROVE  ImageInv'
  <2>1. \A m \in Msg : Listed(m)' => Listed(m)
    BY <1>1, <1>2 DEF Listed
  <2> QED
    BY <1>1, <1>2, <2>1 DEF ImageInv, Picked
<1>3. ASSUME NEW m \in Msg, MsgStep(m) PROVE ImageInv'
  <2>1. StepOf(m) /\ m \in Handler
    BY <1>3, MsgMoves DEF Handler
  <2>2. \A h \in Msg \ {m} : pc'[h] = pc[h]
    BY <2>1, OtherHands
  <2>3. CASE ListImages(m)
    <3>1. /\ pc[m] = "list" /\ pc'[m] = "end" /\ picked' = picked
          /\ images' = [images EXCEPT ![SessionOf(m)] = m]
      BY <2>1, <2>3 DEF ListImages, At, Return, Goto, ControlInv, ControlTypeOK
    <3>2. ~ Listed(m) /\ ~ Picked(m)
      BY <3>1 DEF ImageInv
    <3>3. \A x \in Msg : Listed(x)' => Listed(x) \/ x = m
      BY <1>1, <3>1 DEF Listed
    <3>4. \A s, t \in Session : images'[s] = images'[t] /\ images'[s] # None => s = t
      BY <1>1, <3>1, <3>2 DEF ImageInv, Listed
    <3> QED
      BY <2>2, <3>1, <3>2, <3>3, <3>4 DEF ImageInv, Picked
  <2>4. CASE PicksImage(m)
    <3>1. SessionOf(m) \in Session
      BY <2>4, FrameFacts DEF PicksImage, At
    <3>2. PICK s \in Session : s = SessionOf(m)
      BY <3>1
    <3>3. /\ images[s] # None /\ images' = [images EXCEPT ![s] = None]
          /\ picked' = [picked EXCEPT ![images[s]] = @ + 1] /\ pc'[m] = "end"
      BY <2>1, <2>4, <3>2 DEF PicksImage, Return, Goto, ControlInv, ControlTypeOK
    <3>4. PICK l \in Msg : l = images[s]
      BY <1>1, <3>3
    <3>5. /\ Listed(l) /\ picked[l] = 0 /\ pc[l] \notin {"idle", "list"}
      BY <3>4 DEF Listed, ImageInv, Picked
    <3>6. picked' = [picked EXCEPT ![l] = 1]
      BY <3>3, <3>4, <3>5 DEF ImageInv
    <3>7. \A x \in Msg : Listed(x)' => Listed(x) /\ x # l
      BY <1>1, <3>3, <3>4 DEF Listed, ImageInv
    <3>8. \A s1, t \in Session : images'[s1] = images'[t] /\ images'[s1] # None => s1 = t
      BY <1>1, <3>3 DEF ImageInv
    <3>9. pc'[l] \notin {"idle", "list"}
      BY <2>2, <3>3, <3>5
    <3> QED
      BY <2>2, <3>3, <3>5, <3>6, <3>7, <3>8, <3>9 DEF ImageInv, Picked
  <2>5. CASE ~ ListImages(m) /\ ~ PicksImage(m)
    <3>1. picked' = picked /\ \A s \in Session : images'[s] \in {images[s], None}
      BY <1>1, <1>3, <2>5 DEF MsgStep, HandleWorkerMessage, OnlyReplies, PicksNothing,
         KeepFragment, JoinFragments, Refused, EnqueueMessage, BuildUserInput, SendToAgent,
         EndsCounted, EndsUncounted, ReadsCost, StoresCost, AskQuestion, NothingQueued, DrainNext,
         mapVars, histVars
    <3>2. pc'[m] \in {"idle", "list"} => pc[m] \in {"idle", "list"}
      BY <1>3, <2>1, <2>5 DEF MsgStep, HandleWorkerMessage, OnlyReplies, PicksNothing,
         KeepFragment, JoinFragments, Refused, EnqueueMessage, BuildUserInput, SendToAgent,
         EndsCounted, EndsUncounted, ReadsCost, StoresCost, AskQuestion, NothingQueued, DrainNext,
         At, Return, Goto, ControlInv, ControlTypeOK
    <3> QED
      BY <1>2, <2>2, <3>1, <3>2
  <2> QED
    BY <2>3, <2>4, <2>5
<1>4. ASSUME NEW h \in NewCmd, NewStep(h) PROVE ImageInv'
  <2>1. picked' = picked /\ images' = images
    BY <1>4 DEF NewStep, NewLooksUp, NewReleases, NewCleans, NewBinds, mapVars, histVars
  <2> QED
    BY <1>2, <1>4, <2>1, NewMoves
<1>5. CASE Restart
  <2>1. picked' = picked /\ \A s \in Session : images'[s] = None
    BY <1>5 DEF Restart
  <2>2. \A m \in Msg : pc'[m] \in {"idle", "list"} => pc[m] \in {"idle", "list"}
    BY <1>5 DEF Restart, Handler
  <2> QED
    BY <1>2, <2>1, <2>2
<1>6. CASE UNCHANGED vars
  BY <1>2, <1>6 DEF vars, ivars, mapVars, histVars
<1> QED
  BY <1>3, <1>4, <1>5, <1>6 DEF Next

LEMMA ImageStart == ASSUME Init PROVE ImageInv
<1>1. None \notin Msg
  BY AccountingConstants
<1> QED
  BY <1>1 DEF Init, ImageInv, Picked, Listed

-----------------------------------------------------------------------------
(* Questions.                                                              *)

\* What waits in a queue.
LEMMA WaitingFacts ==
  ASSUME NEW s
  PROVE  \A m : m \in Waiting(s) <=> \E i \in DOMAIN queue[s] : m \in ToSet(queue[s][i])
  BY DEF Waiting

LEMMA WaitingKept ==
  ASSUME NEW s, queue'[s] = queue[s]
  PROVE  Waiting(s)' = Waiting(s)
  BY DEF Waiting

\* A message that is queued leaves in the queue what waits there.
LEMMA WaitingGrows ==
  ASSUME ControlInv, NEW s \in Session, NEW p \in Seq(Msg),
         queue' = [queue EXCEPT ![s] = Append(queue[s], p)]
  PROVE  \A t \in Session : Waiting(t) \subseteq Waiting(t)'
<1>1. queue[s] \in Seq(Seq(Msg)) /\ queue'[s] = Append(queue[s], p)
      /\ \A t \in Session \ {s} : queue'[t] = queue[t]
  BY DEF ControlInv, ControlTypeOK
<1>2. /\ DOMAIN queue[s] \subseteq DOMAIN queue'[s]
      /\ \A i \in DOMAIN queue[s] : queue'[s][i] = queue[s][i]
  <2>1. /\ Append(queue[s], p) \in Seq(Seq(Msg))
        /\ Len(Append(queue[s], p)) = Len(queue[s]) + 1 /\ Len(queue[s]) \in Nat
        /\ \A i \in 1..Len(queue[s]) : Append(queue[s], p)[i] = queue[s][i]
    BY <1>1, AppendProperties, LenProperties
  <2>2. /\ DOMAIN queue[s] = 1..Len(queue[s])
        /\ DOMAIN Append(queue[s], p) = 1..(Len(queue[s]) + 1)
    BY <1>1, <2>1, LenProperties
  <2> QED
    BY <1>1, <2>1, <2>2
<1>3. Waiting(s) \subseteq Waiting(s)'
  BY <1>2 DEF Waiting
<1> QED
  BY <1>1, <1>3, WaitingKept

\* Steps that ask nothing and answer nothing, and drain no queue whose question they leave.
LEMMA QuestionQuiet ==
  ASSUME BaseInv, QuestionInv, [Next]_vars, UNCHANGED <<answered, unmeant>>,
         question' \in [Session -> Question \cup {None}],
         \A s \in Session : question'[s] # None =>
           question'[s] = question[s] /\ Waiting(s) \subseteq Waiting(s)'
  PROVE  QuestionInv'
<1>1. \A t \in Msg : Over(t) => Over(t)'
  BY OverStays DEF BaseInv
<1>2. ASSUME NEW s \in Session, question'[s] # None PROVE QuestionOK(s)'
  <2>1. QuestionOK(s) /\ question'[s] = question[s] /\ Waiting(s) \subseteq Waiting(s)'
    BY <1>2 DEF QuestionInv
  <2>2. PICK t \in Msg : t = question[s].by
    BY <2>1 DEF QuestionOK, Question
  <2>3. Over(t)'
    BY <1>1, <2>1, <2>2 DEF QuestionOK
  <2>4. Over(question[s].by)'
    BY <2>1, <2>2, <2>3 DEF Over, Ended
  <2> QED
    BY <2>1, <2>4 DEF QuestionOK
<1>3. \A m \in Msg : answered'[m] <= 1 /\ (answered'[m] # 0 => Over(m)')
  BY <1>1 DEF QuestionInv
<1> QED
  BY <1>2, <1>3 DEF QuestionInv

LEMMA QuestionAsked ==
  ASSUME BaseInv, QuestionInv, [Next]_vars, NEW h \in Msg, AskQuestion(h)
  PROVE  QuestionInv'
<1>1. InTurn(h) /\ ControlInv /\ TurnInv /\ StepOf(h)
  BY MsgMoves DEF AskQuestion, At, InTurn, TurnLabel, BaseInv, MsgStep
<1>2. PICK t \in Msg, s \in Session : t = TurnOf(h) /\ s = SessionOf(h)
  BY <1>1, TurnIsMsg
<1>3. /\ question' = [question EXCEPT ![s] = [by |-> t, waiting |-> Waiting(s)]]
      /\ UNCHANGED <<queue, frame, answered, unmeant>>
  BY <1>2 DEF AskQuestion, histVars
<1>4. pc'[h] = "drain" /\ \A g \in Msg \ {h} : pc'[g] = pc[g]
  BY <1>1, OtherHands DEF AskQuestion, Goto, ControlInv, ControlTypeOK, Handler
<1>5. /\ ~ Over(t) /\ answered[t] = 0 /\ Over(t)'
  <2>1. ~ Over(t)
    BY <1>1, <1>2 DEF Over
  <2>2. Ended(t)'
    BY <1>1, <1>2, EndsGrow DEF TurnInv, BaseInv
  <2>3. \A g \in Msg : InTurn(g)' => TurnOf(g)' # t
    BY <1>1, <1>2, <1>3, <1>4 DEF TurnInv, InTurn, TurnLabel, TurnOf, Parts
  <2> QED
    BY <2>1, <2>2, <2>3 DEF Over, QuestionInv
<1>6. PICK q \in Question : q = [by |-> t, waiting |-> Waiting(s)]
  <2>1. Waiting(s) \subseteq Msg
    <3>1. queue[s] \in Seq(Seq(Msg)) /\ DOMAIN queue[s] = 1..Len(queue[s])
      BY <1>1, LenProperties DEF ControlInv, ControlTypeOK
    <3>2. \A i \in DOMAIN queue[s] : queue[s][i] \in Seq(Msg)
      BY <3>1, ElementOfSeq
    <3>3. ASSUME NEW i \in DOMAIN queue[s] PROVE ToSet(queue[s][i]) \subseteq Msg
      <4>1. queue[s][i] \in Seq(Msg)
        BY <3>2
      <4>2. DOMAIN queue[s][i] = 1..Len(queue[s][i])
        BY <4>1, LenProperties
      <4> QED
        BY <4>1, <4>2, ElementOfSeq DEF ToSet
    <3> QED
      BY <3>3, WaitingFacts
  <2> QED
    BY <2>1 DEF Question
<1>7. /\ question' \in [Session -> Question \cup {None}] /\ question'[s] = q
      /\ \A x \in Session \ {s} : question'[x] = question[x]
  BY <1>3, <1>6 DEF QuestionInv
<1>8. \A x \in Msg : Over(x) => Over(x)'
  BY OverStays DEF BaseInv
<1>9. q.by = t /\ q.waiting = Waiting(s)
  BY <1>6
<1>10. \A x \in Session : Waiting(x)' = Waiting(x)
  BY <1>3, WaitingKept
<1>11. QuestionOK(s)'
  <2>1. Over(q.by)'
    BY <1>5, <1>9 DEF Over, Ended
  <2>2. Over(question[s].by)'
    BY <1>7, <2>1 DEF Over, Ended
  <2>3. answered'[q.by] = 0
    BY <1>3, <1>5, <1>9
  <2> QED
    BY <1>7, <1>9, <1>10, <2>2, <2>3 DEF QuestionOK
<1>12. ASSUME NEW x \in Session \ {s}, question'[x] # None PROVE QuestionOK(x)' /\ question[x].by # t
  <2>1. QuestionOK(x) /\ question'[x] = question[x]
    BY <1>7, <1>12 DEF QuestionInv
  <2>2. PICK y \in Msg : y = question[x].by
    BY <2>1 DEF QuestionOK, Question
  <2>3. Over(y)' /\ y # t
    BY <1>5, <1>8, <2>1, <2>2 DEF QuestionOK
  <2>4. Over(question[x].by)'
    BY <2>1, <2>2, <2>3 DEF Over, Ended
  <2> QED
    BY <1>3, <1>10, <2>1, <2>2, <2>3, <2>4 DEF QuestionOK
<1>13. \A m \in Msg : answered'[m] <= 1 /\ (answered'[m] # 0 => Over(m)')
  BY <1>3, <1>8 DEF QuestionInv
<1>14. \A x, y \in Session :
         question'[x] # None /\ question'[y] # None /\ question'[x].by = question'[y].by => x = y
  BY <1>7, <1>9, <1>12 DEF QuestionInv
<1> QED
  BY <1>3, <1>7, <1>11, <1>12, <1>13, <1>14 DEF QuestionInv

\* The message in hand waits no more, so it did not wait when the question was asked.
LEMMA QuestionAnswered ==
  ASSUME BaseInv, QuestionInv, [Next]_vars, NEW h \in Msg, BuildUserInput(h)
  PROVE  QuestionInv'
<1>1. pc[h] = "launch" /\ ControlInv /\ WordInv
  BY DEF BuildUserInput, At, BaseInv
<1>2. Parts(h) \in Seq(Msg) /\ Parts(h) # <<>> /\ SessionOf(h) \in Session
  BY <1>1, FrameFacts DEF ControlInv, HandLabel
<1>3. PICK s \in Session, t \in Msg : s = SessionOf(h) /\ t = TurnOf(h) /\ t \in ToSet(Parts(h))
  <2>1. Len(Parts(h)) \in DOMAIN Parts(h) /\ DOMAIN Parts(h) = 1..Len(Parts(h))
    BY <1>2, LenProperties, EmptySeq
  <2> QED
    BY <1>2, <2>1, ElementOfSeq DEF TurnOf, Last, ToSet
<1>4. /\ question' = [question EXCEPT ![s] = None] /\ queue' = queue
      /\ Answer(question[s], t)
  BY <1>3 DEF BuildUserInput
<1>5. t \notin Waiting(s)
  <2>1. ~ IsQueued(t)
    BY <1>1, <1>3, WordFacts DEF Hand, HandLabel, InHands
  <2>2. DOMAIN queue[s] \subseteq Nat
    <3>1. queue[s] \in Seq(Seq(Msg))
      BY <1>1 DEF ControlInv, ControlTypeOK
    <3>2. DOMAIN queue[s] = 1..Len(queue[s]) /\ Len(queue[s]) \in Nat
      BY <3>1, LenProperties
    <3> QED
      BY <3>2
  <2> QED
    BY <2>1, <2>2, WaitingFacts DEF IsQueued, QueuedAt
<1>6. /\ question' \in [Session -> Question \cup {None}] /\ question'[s] = None
      /\ \A x \in Session \ {s} : question'[x] = question[x]
  BY <1>4 DEF QuestionInv
<1>7. \A x \in Session : Waiting(x)' = Waiting(x)
  BY <1>4, WaitingKept
<1>8. CASE question[s] = None
  <2>1. UNCHANGED <<answered, unmeant>>
    BY <1>4, <1>8 DEF Answer
  <2> QED
    BY <1>6, <1>7, <2>1, QuestionQuiet
<1>9. CASE question[s] # None
  <2>1. QuestionOK(s)
    BY <1>9 DEF QuestionInv
  <2>2. PICK b \in Msg : b = question[s].by
    BY <2>1 DEF QuestionOK, Question
  <2>3. answered[b] = 0 /\ Over(b) /\ t \notin question[s].waiting
    BY <1>5, <2>1, <2>2 DEF QuestionOK
  <2>4. answered' = [answered EXCEPT ![b] = 1] /\ unmeant' = unmeant
    BY <1>4, <1>9, <2>2, <2>3 DEF Answer
  <2>5. \A x \in Msg : Over(x) => Over(x)'
    BY OverStays DEF BaseInv
  <2>6. ASSUME NEW x \in Session, question'[x] # None PROVE QuestionOK(x)'
    <3>1. x # s /\ QuestionOK(x) /\ question'[x] = question[x]
      BY <1>6, <2>6 DEF QuestionInv
    <3>2. PICK y \in Msg : y = question[x].by
      BY <3>1 DEF QuestionOK, Question
    <3>3. Over(y)' /\ y # b
      BY <1>9, <2>2, <2>5, <2>6, <3>1, <3>2 DEF QuestionOK, QuestionInv
    <3>4. Over(question[x].by)'
      BY <3>1, <3>2, <3>3 DEF Over, Ended
    <3>5. answered'[question'[x].by] = 0
      BY <2>4, <3>1, <3>2, <3>3 DEF QuestionOK, QuestionInv
    <3> QED
      BY <1>7, <3>1, <3>4, <3>5 DEF QuestionOK
  <2>7. /\ answered' \in [Msg -> Nat]
        /\ \A m \in Msg : answered'[m] <= 1 /\ (answered'[m] # 0 => Over(m)')
    BY <2>3, <2>4, <2>5 DEF QuestionInv
  <2>8. \A x, y \in Session :
          question'[x] # None /\ question'[y] # None /\ question'[x].by = question'[y].by => x = y
    BY <1>6 DEF QuestionInv
  <2> QED
    BY <1>6, <2>4, <2>6, <2>7, <2>8 DEF QuestionInv
<1> QED
  BY <1>8, <1>9

LEMMA QuestionStep ==
  ASSUME BaseInv, QuestionInv, [Next]_vars PROVE QuestionInv'
<1> ControlInv
  BY DEF BaseInv
<1>1. ASSUME UNCHANGED <<question, queue, answered, unmeant>> PROVE QuestionInv'
  BY <1>1, WaitingKept, QuestionQuiet DEF QuestionInv
\* A step after which no question of s is pending; the other queues are as they were.
<1>2. ASSUME NEW s \in Session, UNCHANGED <<answered, unmeant>>,
             question' = [question EXCEPT ![s] = None],
             \A t \in Session \ {s} : queue'[t] = queue[t]
      PROVE  QuestionInv'
  <2>1. /\ question' \in [Session -> Question \cup {None}] /\ question'[s] = None
        /\ \A t \in Session \ {s} : question'[t] = question[t]
    BY <1>2 DEF QuestionInv
  <2> QED
    BY <1>2, <2>1, WaitingKept, QuestionQuiet
<1>3. ASSUME NEW m \in Msg, MsgStep(m) PROVE QuestionInv'
  <2>1. CASE AskQuestion(m) \/ BuildUserInput(m)
    BY <2>1, QuestionAsked, QuestionAnswered
  <2>2. CASE EnqueueMessage(m)
    <3>1. SessionOf(m) \in Session /\ Parts(m) \in Seq(Msg)
      BY <2>2, FrameFacts DEF EnqueueMessage, At
    <3>2. PICK s \in Session, p \in Seq(Msg) : s = SessionOf(m) /\ p = Parts(m)
      BY <3>1
    <3>3. /\ queue' = [queue EXCEPT ![s] = Append(queue[s], p)]
          /\ UNCHANGED <<question, answered, unmeant>>
      BY <2>2, <3>2 DEF EnqueueMessage, histVars
    <3>4. \A t \in Session : Waiting(t) \subseteq Waiting(t)'
      BY <3>3, WaitingGrows
    <3> QED
      BY <3>3, <3>4, QuestionQuiet DEF QuestionInv
  <2>3. CASE DrainNext(m)
    <3>1. SessionOf(m) \in Session
      BY <2>3, FrameFacts DEF DrainNext, At
    <3>2. PICK s \in Session : s = SessionOf(m)
      BY <3>1
    <3>3. /\ question' = [question EXCEPT ![s] = None] /\ UNCHANGED <<answered, unmeant>>
          /\ \A t \in Session \ {s} : queue'[t] = queue[t]
      BY <2>3, <3>2 DEF DrainNext, histVars, ControlInv, ControlTypeOK
    <3> QED
      BY <1>2, <3>3
  <2>4. CASE ~ (AskQuestion(m) \/ BuildUserInput(m) \/ EnqueueMessage(m) \/ DrainNext(m))
    <3>1. UNCHANGED <<question, queue, answered, unmeant>>
      BY <1>3, <2>4 DEF MsgStep, HandleWorkerMessage, OnlyReplies, ListImages, PicksImage,
         PicksNothing, KeepFragment, JoinFragments, Refused, SendToAgent, EndsCounted,
         EndsUncounted, ReadsCost, StoresCost, NothingQueued, mapVars, histVars
    <3> QED
      BY <1>1, <3>1
  <2> QED
    BY <2>1, <2>2, <2>3, <2>4
<1>4. ASSUME NEW h \in NewCmd, NewStep(h) PROVE QuestionInv'
  <2>1. CASE NewCleans(h)
    <3>1. SessionOf(h) \in Session
      BY <2>1, IntakeConstants DEF NewCleans, At, ControlInv, FrameOK, Handler
    <3>2. PICK s \in Session : s = SessionOf(h)
      BY <3>1
    <3>3. /\ question' = [question EXCEPT ![s] = None] /\ UNCHANGED <<answered, unmeant>>
          /\ \A t \in Session \ {s} : queue'[t] = queue[t]
      BY <2>1, <3>2 DEF NewCleans, ControlInv, ControlTypeOK
    <3> QED
      BY <1>2, <3>3
  <2>2. CASE ~ NewCleans(h)
    <3>1. UNCHANGED <<question, queue, answered, unmeant>>
      BY <1>4, <2>2 DEF NewStep, NewLooksUp, NewReleases, NewBinds, mapVars, histVars
    <3> QED
      BY <1>1, <3>1
  <2> QED
    BY <2>1, <2>2
<1>5. CASE Restart
  <2>1. UNCHANGED <<answered, unmeant>> /\ question' = [s \in Session |-> None]
    BY <1>5 DEF Restart
  <2>2. /\ question' \in [Session -> Question \cup {None}]
        /\ \A s \in Session : question'[s] = None
    BY <2>1
  <2> QED
    BY <2>1, <2>2, QuestionQuiet
<1>6. CASE UNCHANGED vars
  BY <1>1, <1>6 DEF vars, ivars, mapVars, histVars
<1> QED
  BY <1>3, <1>4, <1>5, <1>6 DEF Next

LEMMA QuestionStart == ASSUME Init PROVE QuestionInv
  BY DEF Init, QuestionInv

-----------------------------------------------------------------------------
(* What /new has left.                                                     *)

\* The session of a message: found when it comes, kept until it is done.
SessionStays(m) ==
  \/ frame'[m] = NoFrame
  \/ frame'[m].id = frame[m].id /\ frame'[m].base = frame[m].base
  \/ frame'[m].id \in bound /\ frame'[m].base = stored[frame'[m].id]

LEMMA MsgSession ==
  ASSUME ControlInv, NEW m \in Msg, MsgStep(m)
  PROVE  SessionStays(m)
<1>1. frame \in [Handler -> Frame] /\ m \in Handler
  BY DEF ControlInv, ControlTypeOK, Handler
<1>2. CASE HandleWorkerMessage(m)
  BY <1>1, <1>2 DEF HandleWorkerMessage, SessionStays
<1>3. CASE ~ HandleWorkerMessage(m)
  <2>1. \/ frame' = frame
        \/ frame' = [frame EXCEPT ![m] = NoFrame]
        \/ \E p : frame' = [frame EXCEPT ![m].parts = p]
    BY <1>3 DEF MsgStep, OnlyReplies, ListImages, PicksImage, PicksNothing, KeepFragment,
       JoinFragments, Refused, EnqueueMessage, BuildUserInput, SendToAgent, EndsCounted,
       EndsUncounted, ReadsCost, StoresCost, AskQuestion, NothingQueued, DrainNext, Return
  <2> QED
    BY <1>1, <2>1 DEF SessionStays, Frame
<1> QED
  BY <1>2, <1>3

\* A message touches what is remembered of its own session only.
LEMMA OtherSessions ==
  ASSUME BaseInv, QuestionInv, NEW m \in Msg, MsgStep(m), NEW s \in Session, s # SessionOf(m)
  PROVE  /\ frags'[s] = frags[s] /\ queue'[s] = queue[s] /\ question'[s] = question[s]
         /\ usage'[s] = usage[s]
<1>1. /\ frags \in [Session -> Seq(Msg)] /\ queue \in [Session -> Seq(Seq(Msg))]
      /\ question \in [Session -> Question \cup {None}]
      /\ usage \in [Session -> Msg \cup {None}]
  BY DEF BaseInv, ControlInv, ControlTypeOK, QuestionInv, RecordInv, AccountingTypeOK
<1>2. \/ frags' = frags
      \/ \E x : frags' = [frags EXCEPT ![SessionOf(m)] = x]
  BY DEF MsgStep, HandleWorkerMessage, OnlyReplies, ListImages, PicksImage, PicksNothing,
     KeepFragment, JoinFragments, Refused, EnqueueMessage, BuildUserInput, SendToAgent,
     EndsCounted, EndsUncounted, ReadsCost, StoresCost, AskQuestion, NothingQueued, DrainNext,
     mapVars
<1>3. \/ queue' = queue
      \/ \E x : queue' = [queue EXCEPT ![SessionOf(m)] = x]
  BY DEF MsgStep, HandleWorkerMessage, OnlyReplies, ListImages, PicksImage, PicksNothing,
     KeepFragment, JoinFragments, Refused, EnqueueMessage, BuildUserInput, SendToAgent,
     EndsCounted, EndsUncounted, ReadsCost, StoresCost, AskQuestion, NothingQueued, DrainNext,
     mapVars
<1>4. \/ question' = question
      \/ \E x : question' = [question EXCEPT ![SessionOf(m)] = x]
  BY DEF MsgStep, HandleWorkerMessage, OnlyReplies, ListImages, PicksImage, PicksNothing,
     KeepFragment, JoinFragments, Refused, EnqueueMessage, BuildUserInput, SendToAgent,
     EndsCounted, EndsUncounted, ReadsCost, StoresCost, AskQuestion, NothingQueued, DrainNext,
     mapVars
<1>5. \/ usage' = usage
      \/ \E x : usage' = [usage EXCEPT ![SessionOf(m)] = x]
  BY DEF MsgStep, HandleWorkerMessage, OnlyReplies, ListImages, PicksImage, PicksNothing,
     KeepFragment, JoinFragments, Refused, EnqueueMessage, BuildUserInput, SendToAgent,
     EndsCounted, EndsUncounted, ReadsCost, StoresCost, AskQuestion, NothingQueued, DrainNext,
     avars, AddUsage, ReadCost, SetCost, SetCostFails
<1> QED
  BY <1>1, <1>2, <1>3, <1>4, <1>5

LEMMA CleanStep ==
  ASSUME BaseInv, QuestionInv, CleanInv, [Next]_vars PROVE CleanInv'
<1> ControlInv /\ AccountingTypeOK
  BY DEF BaseInv, RecordInv
<1>1. None \notin Session /\ NoFrame.id = None /\ cleaned \subseteq Session
  BY IntakeConstants DEF NoFrame, ControlInv, ControlTypeOK
<1>2. ASSUME NEW m \in Msg, MsgStep(m) PROVE CleanInv'
  <2>1. UNCHANGED <<bound, released, cleaned>>
    BY <1>2 DEF MsgStep, HandleWorkerMessage, OnlyReplies, ListImages, PicksImage, PicksNothing,
       KeepFragment, JoinFragments, Refused, EnqueueMessage, BuildUserInput, SendToAgent,
       EndsCounted, EndsUncounted, ReadsCost, StoresCost, AskQuestion, NothingQueued, DrainNext,
       histVars
  <2>2. ASSUME NEW s \in cleaned PROVE \A h \in Msg : SessionOf(h)' # s
    <3>1. \A h \in Msg \ {m} : SessionOf(h)' # s
      BY <1>2, <2>2, MsgMoves, OtherHands DEF CleanInv, SessionOf
    <3>2. SessionOf(m)' # s
      BY <1>1, <1>2, <2>2, MsgSession DEF CleanInv, SessionOf, SessionStays
    <3> QED
      BY <3>1, <3>2
  <2>3. ASSUME NEW s \in cleaned
        PROVE  /\ frags'[s] = <<>> /\ queue'[s] = <<>>
               /\ question'[s] = None /\ usage'[s] = None
    <3>1. s \in Session /\ s # SessionOf(m)
      BY <1>1, <2>3 DEF CleanInv
    <3> QED
      BY <1>2, <2>3, <3>1, OtherSessions DEF CleanInv, NothingLeftBehind
  <2> QED
    BY <2>1, <2>2, <2>3 DEF CleanInv, NothingLeftBehind
<1>3. ASSUME NEW h \in NewCmd, NewStep(h) PROVE CleanInv'
  <2>1. \A m \in Msg : SessionOf(m)' = SessionOf(m)
    BY <1>3, NewMoves DEF SessionOf
  <2>2. CASE NewCleans(h)
    <3>1. SessionOf(h) \in Session
      BY <2>2, IntakeConstants DEF NewCleans, At, ControlInv, FrameOK, Handler
    <3>2. PICK s \in Session : s = SessionOf(h)
      BY <3>1
    <3>3. /\ frags' = [frags EXCEPT ![s] = <<>>] /\ question' = [question EXCEPT ![s] = None]
          /\ queue' = [queue EXCEPT ![s] = <<>>] /\ usage' = [usage EXCEPT ![s] = None]
          /\ cleaned' = IF s \in released /\ UnderWay(s) = {} THEN cleaned \cup {s} ELSE cleaned
          /\ UNCHANGED <<bound, released>>
      BY <2>2, <3>2 DEF NewCleans, Forget
    <3>4. \A x \in cleaned' : x \in cleaned \/ (x = s /\ s \in released /\ UnderWay(s) = {})
      BY <3>3
    <3>5. ASSUME NEW x \in Session, x \in cleaned \/ x = s
          PROVE  /\ frags'[x] = <<>> /\ queue'[x] = <<>>
                 /\ question'[x] = None /\ usage'[x] = None
      BY <3>3, <3>5 DEF CleanInv, NothingLeftBehind, ControlInv, ControlTypeOK, QuestionInv,
         AccountingTypeOK
    <3>6. \A x \in cleaned' : \A m \in Msg : SessionOf(m)' # x
      BY <2>1, <3>4 DEF CleanInv, UnderWay
    <3>7. cleaned' \subseteq released'
      BY <3>3, <3>4 DEF CleanInv
    <3> QED
      BY <1>1, <3>3, <3>4, <3>5, <3>6, <3>7 DEF CleanInv, NothingLeftBehind
  <2>3. CASE ~ NewCleans(h)
    <3>1. UNCHANGED <<frags, queue, question, usage, cleaned>>
      BY <1>3, <2>3 DEF NewStep, NewLooksUp, NewReleases, NewBinds, mapVars, histVars, avars
    <3>2. bound' \cap released' = {} /\ released \subseteq released'
      BY <1>3, <2>3 DEF NewStep, NewLooksUp, NewReleases, NewBinds, histVars, CleanInv
    <3> QED
      BY <2>1, <3>1, <3>2 DEF CleanInv, NothingLeftBehind
  <2> QED
    BY <2>2, <2>3
<1>4. CASE Restart
  <2>1. /\ \A s \in Session : /\ frags'[s] = <<>> /\ queue'[s] = <<>>
                              /\ question'[s] = None /\ usage'[s] = None
        /\ UNCHANGED <<bound, released, cleaned>>
    BY <1>4 DEF Restart, ForgetAll
  <2>2. \A m \in Msg : SessionOf(m)' = None
    BY <1>1, <1>4 DEF Restart, SessionOf, Handler
  <2> QED
    BY <1>1, <2>1, <2>2 DEF CleanInv, NothingLeftBehind
<1>5. CASE UNCHANGED vars
  BY <1>5 DEF vars, ivars, avars, mapVars, histVars, CleanInv, NothingLeftBehind, SessionOf
<1> QED
  BY <1>2, <1>3, <1>4, <1>5 DEF Next

LEMMA CleanStart == ASSUME Init PROVE CleanInv
  BY DEF Init, CleanInv, NothingLeftBehind

-----------------------------------------------------------------------------
(* What a session has cost.                                                *)

\* A session nothing happens to: its record, its row and the turns that store stay.
LEMMA SumStays ==
  ASSUME NEW s \in Session, SumOK(s),
         usage'[s] = usage[s], stored'[s] = stored[s], total'[s] = total[s],
         usage[s] # None => acc'[usage[s]] = acc[usage[s]],
         \A h \in Msg : SessionOf(h)' = s =>
           SessionOf(h) = s /\ (usage[s] = None => frame'[h].base = frame[h].base),
         \A h \in Msg : SessionOf(h) = s /\ Stores(h) => SessionOf(h)' = s /\ Stores(h)',
         \A h \in Msg : SessionOf(h)' = s /\ Stores(h)' =>
           /\ Stores(h) /\ TurnOf(h)' = TurnOf(h) /\ holds'[TurnOf(h)] = holds[TurnOf(h)]
           /\ pc'[h] = pc[h] /\ due'[TurnOf(h)] = due[TurnOf(h)]
  PROVE  SumOK(s)'
<1>1. \A h \in Msg : SessionOf(h)' = s /\ Stores(h)' =>
        usage'[s] # None /\ holds'[TurnOf(h)'] = usage'[s]
  BY DEF SumOK
<1>2. \A h, g \in Msg :
        SessionOf(h)' = s /\ Stores(h)' /\ SessionOf(g)' = s /\ Stores(g)' => h = g
  BY DEF SumOK
<1>3. usage'[s] # None => acc'[usage'[s]] = total'[s]
  BY DEF SumOK
<1>4. usage'[s] = None => \A h \in Msg : SessionOf(h)' = s => frame'[h].base = total'[s]
  BY DEF SumOK
<1>5. \A h \in Msg : SessionOf(h)' = s /\ pc'[h] = "store" => due'[TurnOf(h)'] = total'[s]
  BY DEF SumOK, Stores
<1>6. (\A h \in Msg : SessionOf(h)' = s => ~ Stores(h)') => stored'[s] = total'[s]
  BY DEF SumOK
<1> QED
  BY <1>1, <1>2, <1>3, <1>4, <1>5, <1>6 DEF SumOK

LEMMA SumCounts ==
  ASSUME BaseInv, SumInv, [Next]_vars, NEW h \in Msg, EndsCounted(h)
  PROVE  SumInv'
<1> ControlInv /\ WordInv /\ TurnInv /\ RecordInv /\ AccountingTypeOK
  BY DEF BaseInv, RecordInv
<1>1. InTurn(h) /\ TurnOf(h) \in Msg /\ SessionOf(h) \in Session /\ frame[h].base \in Nat
  BY TurnIsMsg DEF EndsCounted, At, InTurn, TurnLabel, Frame
<1>2. PICK t \in Msg, s \in Session : t = TurnOf(h) /\ s = SessionOf(h)
  BY <1>1
<1>3. PICK r \in Msg, c \in Cost :
        /\ r = IF usage[s] = None THEN t ELSE usage[s]
        /\ pc[h] = "stream" /\ pc'[h] = "read" /\ frame' = frame
        /\ \A g \in Msg \ {h} : pc'[g] = pc[g] /\ (InTurn(g) => TurnOf(g) # t)
        /\ UNCHANGED <<stored, due>>
        /\ usage' = [usage EXCEPT ![s] = r]
        /\ model' = [model EXCEPT ![r] = model'[r]] /\ model'[r] \in Model \cup {None}
        /\ acc' = [acc EXCEPT ![r] = acc'[r]]
        /\ acc'[r] = Plus(IF usage[s] = None THEN frame[h].base ELSE acc[r], c)
        /\ holds' = [holds EXCEPT ![t] = r]
        /\ total' = [total EXCEPT ![s] = IF c = Unknown THEN total[s] ELSE total[s] + c]
        /\ unsure' = IF c = Unknown \/ \E o \in Msg : holds[o] # None /\ holds[o] = usage[s]
                       THEN unsure \cup {s} ELSE unsure
  BY <1>2, CountedTurn
<1>4. None \notin Msg /\ Unknown \notin Nat
  BY AccountingConstants
<1>5. \A g \in Msg : TurnOf(g)' = TurnOf(g) /\ SessionOf(g)' = SessionOf(g)
  BY <1>3 DEF TurnOf, Parts, SessionOf
<1>6. \A g \in Msg \ {h} : Stores(g)' <=> Stores(g)
  BY <1>3 DEF Stores
<1>7. ~ Stores(h) /\ Stores(h)' /\ pc'[h] = "read"
  BY <1>3 DEF Stores
<1>8. /\ usage'[s] = r /\ \A x \in Session \ {s} : usage'[x] = usage[x]
      /\ total'[s] = (IF c = Unknown THEN total[s] ELSE total[s] + c)
      /\ \A x \in Session \ {s} : total'[x] = total[x]
      /\ holds'[t] = r /\ \A x \in Msg \ {t} : holds'[x] = holds[x]
      /\ \A x \in Msg \ {r} : acc'[x] = acc[x]
  BY <1>3 DEF AccountingTypeOK
<1>9. ASSUME NEW x \in Session \ {s}, x \notin unsure' PROVE SumOK(x)'
  <2>1. SumOK(x)
    BY <1>3, <1>9 DEF SumInv
  <2>2. usage[x] # None => usage[x] \in Msg /\ usage[x] # r
    <3>1. usage[x] # None => usage[x] # t
      BY <1>2, <1>3 DEF RecordInv, Counted
    <3> QED
      BY <1>3, <3>1 DEF RecordInv, AccountingTypeOK
  <2>3. \A g \in Msg : SessionOf(g) = x => g # h
    BY <1>2
  <2>4. \A g \in Msg : g # h /\ Stores(g) => TurnOf(g) \in Msg /\ TurnOf(g) # t
    BY <1>3, TurnIsMsg DEF Stores, InTurn, TurnLabel
  <2>5. \A g \in Msg : SessionOf(g)' = x /\ Stores(g)' =>
           /\ Stores(g) /\ TurnOf(g)' = TurnOf(g) /\ holds'[TurnOf(g)] = holds[TurnOf(g)]
           /\ pc'[g] = pc[g] /\ due'[TurnOf(g)] = due[TurnOf(g)]
    BY <1>3, <1>5, <1>6, <1>8, <2>3, <2>4
  <2>6. \A g \in Msg : SessionOf(g) = x /\ Stores(g) => SessionOf(g)' = x /\ Stores(g)'
    BY <1>5, <1>6, <2>3
  <2>7. \A g \in Msg : SessionOf(g)' = x =>
          SessionOf(g) = x /\ (usage[x] = None => frame'[g].base = frame[g].base)
    BY <1>3, <1>5
  <2>8. usage'[x] = usage[x] /\ stored'[x] = stored[x] /\ total'[x] = total[x]
    BY <1>3, <1>8
  <2>9. usage[x] # None => acc'[usage[x]] = acc[usage[x]]
    BY <1>8, <2>2
  <2> QED
    BY <2>1, <2>5, <2>6, <2>7, <2>8, <2>9, SumStays
<1>10. ASSUME s \notin unsure' PROVE SumOK(s)'
  <2>1. /\ SumOK(s) /\ c # Unknown
        /\ \A o \in Msg : ~ (holds[o] # None /\ holds[o] = usage[s])
    BY <1>3, <1>10 DEF SumInv
  <2>2. ASSUME NEW g \in Msg, SessionOf(g) = s PROVE ~ Stores(g)
    <3>1. Stores(g) => TurnOf(g) \in Msg
      BY TurnIsMsg DEF Stores, InTurn, TurnLabel
    <3> QED
      BY <2>1, <2>2, <3>1 DEF SumOK
  <2>3. \A g \in Msg : SessionOf(g)' = s /\ Stores(g)' => g = h
    BY <1>5, <1>6, <2>2
  <2>4. acc'[r] = total'[s]
    <3>1. c \in Nat /\ total[s] \in Nat
      BY <2>1 DEF Cost, AccountingTypeOK
    <3>2. (IF usage[s] = None THEN frame[h].base ELSE acc[r]) = total[s]
      BY <1>2, <1>3, <2>1 DEF SumOK
    <3>3. Plus(total[s], c) = total[s] + c
      BY <1>4, <3>1 DEF Plus
    <3> QED
      BY <1>3, <1>8, <2>1, <3>2, <3>3
  <2>5. SessionOf(h)' = s /\ Stores(h)' /\ TurnOf(h)' = t
    BY <1>2, <1>5, <1>7
  <2>6. \A g \in Msg : SessionOf(g)' = s /\ Stores(g)' =>
          usage'[s] # None /\ holds'[TurnOf(g)'] = usage'[s]
    BY <1>4, <1>8, <2>3, <2>5
  <2>7. usage'[s] # None /\ acc'[usage'[s]] = total'[s]
    BY <1>4, <1>8, <2>4
  <2>8. \A g \in Msg : SessionOf(g)' = s => pc'[g] # "store"
    BY <1>7, <2>3 DEF Stores
  <2> QED
    BY <2>3, <2>5, <2>6, <2>7, <2>8 DEF SumOK
<1> QED
  BY <1>9, <1>10 DEF SumInv

LEMMA SumStores ==
  ASSUME BaseInv, SumInv, NEW h \in Msg, ReadsCost(h) \/ StoresCost(h)
  PROVE  SumInv'
<1> ControlInv /\ TurnInv /\ RecordInv /\ AccountingTypeOK
  BY DEF BaseInv, RecordInv
<1>1. InTurn(h) /\ TurnOf(h) \in Msg /\ SessionOf(h) \in Session
  BY TurnIsMsg DEF ReadsCost, StoresCost, At, InTurn, TurnLabel
<1>2. PICK t \in Msg, s \in Session : t = TurnOf(h) /\ s = SessionOf(h)
  BY <1>1
<1>3. /\ Stores(h) /\ frame' = frame /\ UNCHANGED <<usage, acc, model, total>>
      /\ \A g \in Msg \ {h} : pc'[g] = pc[g] /\ (InTurn(g) => TurnOf(g) # t)
      /\ holds[t] \in Msg
      /\ \/ /\ pc[h] = "read" /\ pc'[h] = "store" /\ UNCHANGED <<stored, holds, unsure>>
            /\ due' = [due EXCEPT ![t] = acc[holds[t]]]
         \/ /\ pc[h] = "store" /\ pc'[h] = "finish"
            /\ holds' = [holds EXCEPT ![t] = None] /\ due' = [due EXCEPT ![t] = 0]
            /\ \/ \E c \in Storable(due[t]) : stored' = [stored EXCEPT ![s] = c]
                    /\ unsure' = unsure
               \/ stored' = stored /\ unsure' = unsure \cup {s}
  BY <1>2, StoringTurn
<1>4. \A g \in Msg : TurnOf(g)' = TurnOf(g) /\ SessionOf(g)' = SessionOf(g)
  BY <1>3 DEF TurnOf, Parts, SessionOf
<1>5. \A g \in Msg \ {h} : Stores(g)' <=> Stores(g)
  BY <1>3 DEF Stores
<1>6. unsure \subseteq unsure'
  BY <1>3
<1>7. ASSUME NEW x \in Session \ {s}, x \notin unsure' PROVE SumOK(x)'
  <2>1. SumOK(x)
    BY <1>6, <1>7 DEF SumInv
  <2>2. \A g \in Msg : SessionOf(g) = x => g # h
    BY <1>2
  <2>3. \A g \in Msg : g # h /\ Stores(g) => TurnOf(g) \in Msg /\ TurnOf(g) # t
    BY <1>3, TurnIsMsg DEF Stores, InTurn, TurnLabel
  <2>4. \A y \in Msg \ {t} : holds'[y] = holds[y] /\ due'[y] = due[y]
    BY <1>3 DEF AccountingTypeOK
  <2>5. stored'[x] = stored[x]
    BY <1>3 DEF AccountingTypeOK
  <2>6. \A g \in Msg : SessionOf(g)' = x /\ Stores(g)' =>
           /\ Stores(g) /\ TurnOf(g)' = TurnOf(g) /\ holds'[TurnOf(g)] = holds[TurnOf(g)]
           /\ pc'[g] = pc[g] /\ due'[TurnOf(g)] = due[TurnOf(g)]
    BY <1>3, <1>4, <1>5, <2>2, <2>3, <2>4
  <2>7. \A g \in Msg : SessionOf(g) = x /\ Stores(g) => SessionOf(g)' = x /\ Stores(g)'
    BY <1>4, <1>5, <2>2
  <2>8. \A g \in Msg : SessionOf(g)' = x =>
          SessionOf(g) = x /\ (usage[x] = None => frame'[g].base = frame[g].base)
    BY <1>3, <1>4
  <2>9. usage'[x] = usage[x] /\ total'[x] = total[x]
        /\ (usage[x] # None => acc'[usage[x]] = acc[usage[x]])
    BY <1>3
  <2> QED
    BY <2>1, <2>5, <2>6, <2>7, <2>8, <2>9, SumStays
<1>8. ASSUME s \notin unsure' PROVE SumOK(s)'
  <2>1. SumOK(s)
    BY <1>6, <1>8 DEF SumInv
  <2>2. usage[s] # None /\ holds[t] = usage[s] /\ acc[usage[s]] = total[s]
    BY <1>2, <1>3, <2>1 DEF SumOK
  <2>3. \A g \in Msg : SessionOf(g)' = s /\ Stores(g)' => g = h
    BY <1>2, <1>3, <1>4, <1>5, <2>1 DEF SumOK
  <2>4. SessionOf(h)' = s /\ TurnOf(h)' = t
    BY <1>2, <1>4
  <2>5. CASE pc[h] = "read"
    <3>1. pc'[h] = "store" /\ holds' = holds /\ due'[t] = total[s]
      BY <1>3, <2>2, <2>5 DEF AccountingTypeOK
    <3>2. Stores(h)'
      BY <3>1 DEF Stores
    <3>3. \A g \in Msg : SessionOf(g)' = s /\ Stores(g)' =>
            usage'[s] # None /\ holds'[TurnOf(g)'] = usage'[s]
      BY <1>3, <2>2, <2>3, <2>4, <3>1
    <3>4. usage'[s] # None /\ acc'[usage'[s]] = total'[s]
      BY <1>3, <2>2
    <3>5. \A g \in Msg : SessionOf(g)' = s /\ pc'[g] = "store" => due'[TurnOf(g)'] = total'[s]
      BY <1>3, <2>3, <2>4, <3>1 DEF Stores
    <3> QED
      BY <2>3, <2>4, <3>2, <3>3, <3>4, <3>5 DEF SumOK
  <2>6. CASE pc[h] = "store"
    <3>1. due[t] = total[s] /\ total[s] \in Nat /\ Unknown \notin Nat
      BY <1>2, <2>1, <2>6, AccountingConstants DEF SumOK, AccountingTypeOK
    <3>2. stored'[s] = total[s] /\ pc'[h] = "finish"
      BY <1>3, <1>8, <2>6, <3>1 DEF Storable, AccountingTypeOK
    <3>3. \A g \in Msg : SessionOf(g)' = s => ~ Stores(g)'
      BY <2>3, <3>2 DEF Stores
    <3>4. \A g \in Msg : SessionOf(g)' = s => pc'[g] # "store"
      BY <3>3 DEF Stores
    <3>5. usage'[s] # None /\ acc'[usage'[s]] = total'[s] /\ stored'[s] = total'[s]
      BY <1>3, <2>2, <3>2
    <3> QED
      BY <3>3, <3>4, <3>5 DEF SumOK
  <2> QED
    BY <1>3, <2>5, <2>6
<1> QED
  BY <1>7, <1>8 DEF SumInv

\* A session that no turn is under way to store, and whose record is gone.
LEMMA SumForgets ==
  ASSUME NEW s \in Session, usage'[s] = None, stored'[s] = total'[s],
         \A h \in Msg : SessionOf(h)' # s
  PROVE  SumOK(s)'
  BY DEF SumOK

LEMMA SumStep ==
  ASSUME BaseInv, SumInv, [Next]_vars PROVE SumInv'
<1> ControlInv /\ RecordInv /\ AccountingTypeOK
  BY DEF BaseInv, RecordInv
<1>1. None \notin Session /\ NoFrame.id = None /\ bound \subseteq Session
  BY IntakeConstants DEF NoFrame, ControlInv, ControlTypeOK
<1>2. ASSUME NEW h \in Msg, EndsCounted(h) \/ ReadsCost(h) \/ StoresCost(h) PROVE SumInv'
  BY <1>2, SumCounts, SumStores
<1>3. ASSUME NEW h \in NewCmd, NewCleans(h) PROVE SumInv'
  <2>1. SessionOf(h) \in Session
    BY <1>3, IntakeConstants DEF NewCleans, At, ControlInv, FrameOK, Handler
  <2>2. PICK s \in Session : s = SessionOf(h)
    BY <2>1
  <2>3. \A g \in Msg : pc'[g] = pc[g] /\ frame'[g] = frame[g]
    BY <1>3, NewMoves DEF NewStep
  <2>4. /\ usage' = [usage EXCEPT ![s] = None]
        /\ unsure' = IF UnderWay(s) # {} THEN unsure \cup {s} ELSE unsure
        /\ UNCHANGED <<stored, acc, model, holds, due, total>>
    BY <1>3, <2>2 DEF NewCleans, Forget
  <2>5. usage'[s] = None /\ \A x \in Session \ {s} : usage'[x] = usage[x]
    BY <2>4 DEF AccountingTypeOK
  <2>6. \A g \in Msg : /\ TurnOf(g)' = TurnOf(g) /\ SessionOf(g)' = SessionOf(g)
                       /\ Stores(g)' <=> Stores(g)
    BY <2>3 DEF TurnOf, Parts, SessionOf, Stores
  <2>7. ASSUME NEW x \in Session \ {s}, x \notin unsure' PROVE SumOK(x)'
    <3>1. SumOK(x)
      BY <2>4, <2>7 DEF SumInv
    <3> QED
      BY <2>3, <2>4, <2>5, <2>6, <3>1, SumStays
  <2>8. ASSUME s \notin unsure' PROVE SumOK(s)'
    <3>1. SumOK(s) /\ \A g \in Msg : SessionOf(g) # s
      BY <2>4, <2>8 DEF SumInv, UnderWay
    <3>2. stored'[s] = total'[s]
      BY <2>4, <3>1 DEF SumOK
    <3> QED
      BY <2>5, <2>6, <3>1, <3>2, SumForgets
  <2> QED
    BY <2>7, <2>8 DEF SumInv
<1>4. CASE Restart
  <2>1. /\ \A s \in Session : usage'[s] = None
        /\ unsure' = unsure \cup {SessionOf(h) : h \in {g \in Msg : pc[g] \in {"read", "store"}}}
        /\ UNCHANGED <<stored, total>>
    BY <1>4 DEF Restart, ForgetAll
  <2>2. \A m \in Msg : SessionOf(m)' = None
    BY <1>1, <1>4 DEF Restart, SessionOf, Handler
  <2>3. ASSUME NEW s \in Session, s \notin unsure' PROVE SumOK(s)'
    <3>1. SumOK(s) /\ \A h \in Msg : SessionOf(h) = s => ~ Stores(h)
      BY <2>1, <2>3 DEF SumInv, Stores
    <3>2. stored'[s] = total'[s]
      BY <2>1, <3>1 DEF SumOK
    <3> QED
      BY <1>1, <2>1, <2>2, <3>2, SumForgets
  <2> QED
    BY <2>3 DEF SumInv
<1>5. ASSUME UNCHANGED avars,
             \A h \in Msg : Stores(h) \/ Stores(h)' =>
               Stores(h) /\ pc'[h] = pc[h] /\ frame'[h] = frame[h]
      PROVE  SumInv'
  <2>1. \A m \in Msg : SessionStays(m)
    <3>1. ASSUME NEW g \in Msg, MsgStep(g) PROVE \A m \in Msg : SessionStays(m)
      BY <3>1, MsgSession, MsgMoves, OtherHands DEF SessionStays
    <3>2. ASSUME NEW g \in NewCmd, NewStep(g) PROVE \A m \in Msg : SessionStays(m)
      BY <3>2, NewMoves DEF SessionStays
    <3>3. CASE Restart
      BY <3>3 DEF Restart, SessionStays, Handler
    <3>4. CASE UNCHANGED vars
      BY <3>4 DEF vars, ivars, SessionStays
    <3> QED
      BY <3>1, <3>2, <3>3, <3>4 DEF Next
  <2>2. ASSUME NEW s \in Session, s \notin unsure' PROVE SumOK(s)'
    <3>1. SumOK(s) /\ UNCHANGED <<stored, usage, acc, holds, due, total>>
      BY <1>5, <2>2 DEF SumInv, avars
    <3>2. \A h \in Msg : Stores(h) \/ Stores(h)' =>
            /\ Stores(h) /\ Stores(h)' /\ TurnOf(h)' = TurnOf(h) /\ SessionOf(h)' = SessionOf(h)
            /\ pc'[h] = pc[h]
      BY <1>5 DEF Stores, TurnOf, Parts, SessionOf
    <3>3. ASSUME usage[s] = None, NEW h \in Msg, SessionOf(h)' = s
          PROVE  frame'[h].base = total[s]
      <4>1. CASE frame'[h].id = frame[h].id /\ frame'[h].base = frame[h].base
        BY <3>1, <3>3, <4>1 DEF SumOK, SessionOf
      <4>2. CASE frame'[h].base = stored[frame'[h].id]
        <5>1. \A g \in Msg : SessionOf(g) = s => ~ Stores(g)
          BY <3>1, <3>3 DEF SumOK
        <5> QED
          BY <3>1, <3>3, <4>2, <5>1 DEF SumOK, SessionOf
      <4> QED
        BY <1>1, <2>1, <3>3, <4>1, <4>2 DEF SessionStays, SessionOf
    <3>4. \A h \in Msg : SessionOf(h)' = s /\ Stores(h)' =>
            usage[s] # None /\ holds[TurnOf(h)'] = usage[s]
      BY <3>1, <3>2 DEF SumOK
    <3>5. \A h, g \in Msg :
            SessionOf(h)' = s /\ Stores(h)' /\ SessionOf(g)' = s /\ Stores(g)' => h = g
      BY <3>1, <3>2 DEF SumOK
    <3>6. \A h \in Msg : SessionOf(h)' = s /\ pc'[h] = "store" => due[TurnOf(h)'] = total[s]
      BY <3>1, <3>2 DEF SumOK, Stores
    <3>7. (\A h \in Msg : SessionOf(h)' = s => ~ Stores(h)') => stored[s] = total[s]
      BY <3>1, <3>2 DEF SumOK
    <3> QED
      BY <3>1, <3>3, <3>4, <3>5, <3>6, <3>7 DEF SumOK
  <2> QED
    BY <2>2 DEF SumInv
<1> QED
  BY <1>2, <1>3, <1>4, <1>5, AvarsStep

LEMMA SumStart == ASSUME Init PROVE SumInv
<1>1. \A h \in Msg : pc[h] = "idle" /\ frame[h] = NoFrame
  BY DEF Init, Handler
<1>2. \A h \in Msg, s \in Session : SessionOf(h) # s
  BY <1>1, IntakeConstants DEF SessionOf, NoFrame
<1> QED
  BY <1>2 DEF SumInv, SumOK, Init, AccountingInit

\* A record that a session has is only added to.
LEMMA GrowsStep ==
  ASSUME BaseInv, [Next]_vars
  PROVE  \A r \in Msg : acc'[r] # acc[r] /\ (\E s \in Session : usage[s] = r)
           => acc[r] # Unknown /\ (acc'[r] = Unknown \/ acc'[r] > acc[r])
<1> ControlInv /\ TurnInv /\ RecordInv /\ AccountingTypeOK
  BY DEF BaseInv, RecordInv
<1>1. ASSUME NEW h \in Msg, EndsCounted(h),
             NEW x \in Msg, acc'[x] # acc[x], NEW y \in Session, usage[y] = x
      PROVE  acc[x] # Unknown /\ (acc'[x] = Unknown \/ acc'[x] > acc[x])
  <2>1. TurnOf(h) \in Msg /\ SessionOf(h) \in Session
    BY <1>1, TurnIsMsg DEF EndsCounted, At, InTurn, TurnLabel
  <2>2. PICK t \in Msg, s \in Session : t = TurnOf(h) /\ s = SessionOf(h)
    BY <2>1
  <2>3. PICK r \in Msg, c \in Cost :
          /\ r = IF usage[s] = None THEN t ELSE usage[s]
          /\ pc[h] = "stream"
          /\ acc' = [acc EXCEPT ![r] = acc'[r]]
          /\ acc'[r] = Plus(IF usage[s] = None THEN frame[h].base ELSE acc[r], c)
    BY <1>1, <2>2, CountedTurn
  <2>4. x = r
    BY <1>1, <2>3 DEF AccountingTypeOK
  <2>5. usage[y] # t
    BY <1>1, <2>2, <2>3, AccountingConstants DEF RecordInv, Counted
  <2>6. acc'[x] = Plus(acc[x], c) /\ acc[x] \in Cost
    BY <1>1, <2>3, <2>4, <2>5 DEF AccountingTypeOK
  <2> QED
    BY <1>1, <2>6, PlusType
<1>2. CASE acc' = acc
  BY <1>2
<1>3. ASSUME NEW h \in Msg, ReadsCost(h) \/ StoresCost(h) PROVE acc' = acc
  BY <1>3 DEF ReadsCost, StoresCost, ReadCost, SetCost, SetCostFails
<1>4. ASSUME NEW h \in NewCmd, NewCleans(h) PROVE acc' = acc
  BY <1>4 DEF NewCleans, Forget
<1>5. CASE Restart
  BY <1>2, <1>5 DEF Restart, ForgetAll
<1> QED
  BY <1>1, <1>2, <1>3, <1>4, <1>5, AvarsStep DEF avars

-----------------------------------------------------------------------------
(* The results.                                                            *)

IntakeInv == BaseInv /\ ImageInv /\ QuestionInv /\ CleanInv /\ SumInv

LEMMA IntakeAlways == Spec => []IntakeInv
<1>1. Init => IntakeInv
  BY BaseStart, ImageStart, QuestionStart, CleanStart, SumStart DEF IntakeInv
<1>2. IntakeInv /\ [Next]_vars => IntakeInv'
  BY BaseStep, ImageStep, QuestionStep, CleanStep, SumStep DEF IntakeInv, BaseInv
<1> QED
  BY <1>1, <1>2, PTL DEF Spec

\* The maps of the router, the goroutines and the records keep their types
\* (router.go:77-120).
THEOREM IntakeTypeCorrect == Spec => []IntakeTypeOK
<1>1. IntakeInv => IntakeTypeOK
  BY DEF IntakeInv, BaseInv, ControlInv, ControlTypeOK, WordInv, RecordInv, ImageInv,
     QuestionInv, IntakeTypeOK
<1> QED
  BY <1>1, IntakeAlways, PTL

\* A listing is picked from once, a question answered once, and not by a message that
\* waited when it was asked (handler.go:339-351, 481-484, 667-670, 788-791).
THEOREM AnswersAreMeant == Spec => []AnswersMeantAsSuch
<1>1. IntakeInv => AnswersMeantAsSuch
  BY DEF IntakeInv, ImageInv, QuestionInv, AnswersMeantAsSuch
<1> QED
  BY <1>1, IntakeAlways, PTL

\* What /new has cleaned with no message under way stays clean (handler.go:168, 179-186).
THEOREM CleanedForGood == Spec => []NothingLeftBehind
<1>1. IntakeInv => NothingLeftBehind
  BY DEF IntakeInv, CleanInv
<1> QED
  BY <1>1, IntakeAlways, PTL

\* The row of a session is what its turns have cost, unless something came between a record
\* and its row (handler.go:566-584, 185).
THEOREM SumsAreStored == Spec => []StoredIsExact
<1>1. IntakeInv => StoredIsExact
  BY DEF IntakeInv, SumInv, SumOK, Stores, StoredIsExact
<1> QED
  BY <1>1, IntakeAlways, PTL

\* A turn adds to the record of its session, and an unknown sum stays unknown
\* (pricing.go:45-61, handler.go:575-583).
THEOREM CostsAdd == Spec => CostOnlyGrows
<1>1. IntakeInv /\ [Next]_vars =>
        [\A r \in Msg : (acc'[r] # acc[r] /\ \E s \in Session : usage[s] = r)
           => acc[r] # Unknown /\ (acc'[r] = Unknown \/ acc'[r] > acc[r])]_avars
  BY GrowsStep DEF IntakeInv
<1> QED
  BY <1>1, IntakeAlways, PTL DEF Spec, CostOnlyGrows
=============================================================================

---------------------------- MODULE OutputProofs ----------------------------
(***************************************************************************)
(* The way of an agent's output to the user, both halves of it: through    *)
(* the goroutines and channels between the child and its turn              *)
(* (OutputPipe), for any number of lines and any capacities; and from the  *)
(* turn to the chat (StreamDelivery), for any number of turns on a channel *)
(* and any number of chunks and warnings.                                  *)
(***************************************************************************)
EXTENDS OutputPipe, StreamDelivery, SequenceTheorems, TLAPS

(***************************************************************************)
(* From the child to the turn.  NoSendOnClosed is not inductive: that      *)
(* closing comes after both readers have ended is decided two steps        *)
(* earlier, when waitForExit gets past its join, so the invariant follows  *)
(* waitForExit from there.                                                 *)
(***************************************************************************)

\* waitForExit past its join: both readers have ended and the process is dead; the
\* channel is closed exactly when it has done its last step (procman.go:338-354).
Joined ==
  /\ closed <=> waiter = "done"
  /\ waiter \in {"close", "done"} => ReadersDone /\ ~ alive

\* The actions that leave what Joined speaks of alone.
LEMMA JoinedUntouched ==
  ASSUME Joined, UNCHANGED <<outReader, errReader, waiter, alive, closed>>
  PROVE  Joined'
  BY DEF Joined, ReadersDone

\* No step of the child, of a reader, of waitForExit, of Stop or of the forwarding
\* goroutine breaks the order join, mark dead, close (procman.go:331-355).
LEMMA JoinedStep == ASSUME Joined, [Next]_vars PROVE Joined'
<1>1. CASE UNCHANGED vars
  BY <1>1, JoinedUntouched DEF vars, readVars
<1>2. CASE ChildWrites
  BY <1>2, JoinedUntouched DEF ChildWrites, readVars
<1>3. CASE ChildExits
  BY <1>3, JoinedUntouched DEF ChildExits, readVars
<1>4. CASE Stop
  BY <1>4 DEF Stop, readVars, Joined, ReadersDone
<1>5. CASE ScannerFills \/ ReadLine
  BY <1>5, JoinedUntouched DEF ScannerFills, ReadLine
<1>6. CASE ReadEnds \/ ReportReadError
  BY <1>6 DEF ReadEnds, ReportReadError, Joined, ReadersDone
<1>7. CASE ReadErrLine
  BY <1>7, JoinedUntouched DEF ReadErrLine
<1>8. CASE ReadErrEnds
  BY <1>8 DEF ReadErrEnds, Joined, ReadersDone
<1>9. CASE WaitReturns
  BY <1>9 DEF WaitReturns, readVars, Joined, ReadersDone
<1>10. CASE MarkDead
  BY <1>10 DEF MarkDead, readVars, Joined, ReadersDone
<1>11. CASE CloseOutput
  BY <1>11 DEF CloseOutput, readVars, Joined, ReadersDone
<1>12. CASE Forwarder
  BY <1>12, JoinedUntouched
     DEF Forwarder, ForwardReceives, ForwardSends, ForwardEnds, readVars
<1>13. CASE Receiver
  BY <1>13, JoinedUntouched DEF Receiver, TurnReads, TurnSeesClose, readVars
<1> QED
  BY <1>1, <1>2, <1>3, <1>4, <1>5, <1>6, <1>7, <1>8, <1>9, <1>10, <1>11, <1>12, <1>13
     DEF Next, Reader, ErrReader, Waiter

\* Nobody sends on Process.output after it is closed, which would panic the program: for
\* any number of lines and any capacities both readers have ended by then and
\* waitForExit itself is done (procman.go:280-329, 331-355).
THEOREM NoSendAfterClose == Spec => []NoSendOnClosed
<1>1. Init => Joined
  BY DEF Init, Joined
<1>2. Joined => NoSendOnClosed
  BY DEF Joined, NoSendOnClosed, ReadersDone
<1> QED
  BY <1>1, <1>2, JoinedStep, PTL DEF Spec

-----------------------------------------------------------------------------
\* The steps of Next, one by one.
LEMMA StepCases ==
  ASSUME Next
  PROVE  \/ ChildWrites \/ ChildExits \/ Stop
         \/ ScannerFills \/ ReadLine \/ ReadEnds \/ ReportReadError
         \/ ReadErrLine \/ ReadErrEnds \/ WaitReturns \/ MarkDead \/ CloseOutput
         \/ ForwardReceives \/ ForwardSends \/ ForwardEnds \/ TurnReads \/ TurnSeesClose
  BY DEF Next, Reader, ErrReader, Waiter, Forwarder, Receiver

\* A push keeps the channel within its capacity (procman.go:286-289).
LEMMA PushType ==
  ASSUME NEW c \in Chunk, output \in Seq(Chunk), Len(output) <= OutputCap,
         dropped \in SUBSET Chunk, Push(c)
  PROVE  /\ output' \in Seq(Chunk) /\ Len(output') <= OutputCap
         /\ dropped' \in SUBSET Chunk
<1>1. CASE Len(output) < OutputCap
  <2>1. output' = Append(output, c) /\ dropped' = dropped
    BY <1>1 DEF Push
  <2> QED
    BY <1>1, <2>1, PipeConstants
<1>2. CASE ~ (Len(output) < OutputCap)
  BY <1>2 DEF Push
<1> QED
  BY <1>1, <1>2

\* The chunks of the model are chunks.
LEMMA Chunks ==
  /\ ErrorChunk \subseteq Chunk /\ Lines \in Chunk /\ Lines \notin ErrorChunk
  /\ 1..Lines \subseteq Chunk /\ (1..Lines) \cap ErrorChunk = {}
  BY PipeConstants DEF Chunk, ErrorChunk, StderrChunk, ReadErrorChunk, ExitErrorChunk

LEMMA ChunkSeqs ==
  /\ \A s, t, u \in Seq(Chunk) : (s \o t) \o u = s \o (t \o u)
  /\ \A s, t \in Seq(Chunk) : s \o t \in Seq(Chunk) /\ Len(s \o t) = Len(s) + Len(t)
<1>1. \A s, t, u \in Seq(Chunk) : (s \o t) \o u = s \o (t \o u)
  BY ConcatAssociative
<1>2. \A s, t \in Seq(Chunk) : s \o t \in Seq(Chunk) /\ Len(s \o t) = Len(s) + Len(t)
  BY ConcatProperties
<1> QED
  BY <1>1, <1>2

\* The types of the counters and labels, and those of what the channels hold.
CounterTypes ==
  /\ child \in {"running", "ok", "failed"}
  /\ written \in 0..Lines /\ errWritten \in 0..ErrLines
  /\ pipesOpen \in BOOLEAN
  /\ filled \in 0..written /\ lineRead \in 0..filled /\ errRead \in 0..errWritten
  /\ outReader \in {"reading", "failed", "done"}
  /\ errReader \in {"reading", "done"}
  /\ waiter \in {"wait", "join", "close", "done"}
  /\ alive \in BOOLEAN /\ killed \in BOOLEAN /\ closed \in BOOLEAN

ChannelTypes ==
  /\ output \in Seq(Chunk) /\ Len(output) <= OutputCap
  /\ dropped \in SUBSET Chunk
  /\ forward \in {"receive", "send", "done"}
  /\ held \in Seq(Chunk) /\ Len(held) = (IF forward = "send" THEN 1 ELSE 0)
  /\ wrapped \in Seq(Chunk) /\ Len(wrapped) <= WrappedCap
  /\ turn \in {"reading", "left", "closed"}
  /\ got \in Seq(Chunk)

LEMMA Types == TypeOK <=> CounterTypes /\ ChannelTypes
  BY DEF TypeOK, CounterTypes, ChannelTypes

\* A chunk is pushed, or nothing is sent at all; the forwarding goroutine and the turn wait.
LEMMA PushedTypes ==
  ASSUME ChannelTypes, UNCHANGED <<fwdVars, turnVars>>,
         (\E c \in Chunk : Push(c)) \/ UNCHANGED outVars
  PROVE  ChannelTypes'
<1>1. output' \in Seq(Chunk) /\ Len(output') <= OutputCap /\ dropped' \in SUBSET Chunk
  <2>1. CASE UNCHANGED outVars
    BY <2>1 DEF outVars, ChannelTypes
  <2>2. CASE \E c \in Chunk : Push(c)
    BY <2>2, PushType DEF ChannelTypes
  <2> QED
    BY <2>1, <2>2
<1>2. forward' = forward /\ held' = held /\ wrapped' = wrapped /\ turn' = turn /\ got' = got
  BY DEF fwdVars, turnVars
<1> QED
  BY <1>1, <1>2 DEF ChannelTypes

\* A chunk is handed on, or one who hands chunks on stops.
LEMMA HandedTypes ==
  ASSUME ChannelTypes,
         ForwardReceives \/ ForwardSends \/ ForwardEnds \/ TurnReads \/ TurnSeesClose
  PROVE  ChannelTypes'
<1> USE PipeConstants DEF ChannelTypes, fwdVars, turnVars
<1>1. CASE ForwardReceives
  <2>1. Head(output) \in Chunk /\ Tail(output) \in Seq(Chunk) /\ Len(Tail(output)) <= OutputCap
    BY <1>1, HeadTailProperties, LenProperties DEF ForwardReceives
  <2> QED
    BY <1>1, <2>1 DEF ForwardReceives
<1>2. CASE ForwardSends
  <2>1. wrapped \o held \in Seq(Chunk) /\ Len(wrapped \o held) <= WrappedCap
    <3>1. Len(held) = 1 /\ Len(wrapped) < WrappedCap /\ held \in Seq(Chunk)
            /\ wrapped \in Seq(Chunk) /\ Len(wrapped) \in Nat
      BY <1>2, LenProperties DEF ForwardSends
    <3>2. wrapped \o held \in Seq(Chunk) /\ Len(wrapped \o held) = Len(wrapped) + 1
      BY <3>1, ChunkSeqs
    <3> QED
      BY <3>1, <3>2
  <2>2. <<>> \in Seq(Chunk) /\ Len(<<>>) = 0
    BY EmptySeq
  <2>3. wrapped' = wrapped \o held /\ held' = <<>> /\ forward' = "receive"
          /\ output' = output /\ dropped' = dropped /\ turn' = turn /\ got' = got
    BY <1>2 DEF ForwardSends, outVars
  <2> QED
    BY <2>1, <2>2, <2>3
<1>3. CASE ForwardEnds
  BY <1>3 DEF ForwardEnds, outVars
<1>4. CASE TurnReads
  <2>1. Head(wrapped) \in Chunk /\ Tail(wrapped) \in Seq(Chunk)
          /\ Len(Tail(wrapped)) <= WrappedCap
    BY <1>4, HeadTailProperties, LenProperties DEF TurnReads
  <2>2. Append(got, Head(wrapped)) \in Seq(Chunk)
    BY <2>1
  <2>3. wrapped' = Tail(wrapped) /\ got' = Append(got, Head(wrapped))
          /\ turn' \in {"reading", "left", "closed"}
          /\ output' = output /\ dropped' = dropped /\ forward' = forward /\ held' = held
    BY <1>4 DEF TurnReads, outVars
  <2> QED
    BY <2>1, <2>2, <2>3
<1>5. CASE TurnSeesClose
  BY <1>5 DEF TurnSeesClose, outVars
<1> QED
  BY <1>1, <1>2, <1>3, <1>4, <1>5

\* Every step keeps every variable in its type (procman.go:180-355, runner.go:117-141).
LEMMA PipeTypeStep == ASSUME TypeOK, [Next]_vars PROVE TypeOK'
<1> USE PipeConstants DEF childVars, readVars
<1>t. CounterTypes /\ ChannelTypes
  BY Types
<1> SUFFICES CounterTypes' /\ ChannelTypes'
  BY Zenon DEF TypeOK, CounterTypes, ChannelTypes
<1>1. CASE UNCHANGED vars
  <2>1. CounterTypes'
    BY <1>1, <1>t DEF vars, CounterTypes
  <2>2. UNCHANGED <<outVars, fwdVars, turnVars>>
    BY <1>1 DEF vars
  <2> QED
    BY <1>t, <2>1, <2>2, PushedTypes
<1>2. CASE \/ ChildWrites \/ ChildExits \/ Stop \/ ScannerFills \/ ReadEnds \/ ReadErrEnds
           \/ WaitReturns \/ CloseOutput
  <2>1. UNCHANGED <<outVars, fwdVars, turnVars>>
    BY <1>2 DEF ChildWrites, ChildExits, Stop, ScannerFills, ReadEnds, ReadErrEnds, WaitReturns,
                CloseOutput
  <2>2. CounterTypes'
    <3> USE <1>t DEF CounterTypes
    <3>1. CASE ChildWrites
      BY <3>1 DEF ChildWrites
    <3>2. CASE ChildExits
      BY <3>2 DEF ChildExits
    <3>3. CASE Stop
      BY <3>3 DEF Stop
    <3>4. CASE ScannerFills
      BY <3>4 DEF ScannerFills
    <3>5. CASE ReadEnds \/ ReadErrEnds
      BY <3>5 DEF ReadEnds, ReadErrEnds
    <3>6. CASE WaitReturns
      BY <3>6 DEF WaitReturns
    <3>7. CASE CloseOutput
      BY <3>7 DEF CloseOutput
    <3> QED
      BY <1>2, <3>1, <3>2, <3>3, <3>4, <3>5, <3>6, <3>7
  <2> QED
    BY <2>1, <2>2, <1>t, PushedTypes
<1>3. CASE ReadLine \/ ReportReadError \/ ReadErrLine \/ MarkDead
  <2>1. UNCHANGED <<fwdVars, turnVars>>
    BY <1>3 DEF ReadLine, ReportReadError, ReadErrLine, MarkDead
  <2>2. (\E c \in Chunk : Push(c)) \/ UNCHANGED outVars
    <3>1. CASE ReadLine
      <4>1. lineRead' \in Chunk /\ Push(lineRead')
        BY <3>1, <1>t DEF ReadLine, Chunk, CounterTypes
      <4> QED
        BY <4>1
    <3>2. CASE ReportReadError \/ ReadErrLine \/ MarkDead
      BY <3>2, Chunks DEF ReportReadError, ReadErrLine, MarkDead, ErrorChunk
    <3> QED
      BY <1>3, <3>1, <3>2
  <2>3. CounterTypes'
    <3> USE <1>t DEF CounterTypes
    <3>1. CASE ReadLine
      BY <3>1 DEF ReadLine
    <3>2. CASE ReportReadError
      BY <3>2 DEF ReportReadError
    <3>3. CASE ReadErrLine
      BY <3>3 DEF ReadErrLine
    <3>4. CASE MarkDead
      BY <3>4 DEF MarkDead
    <3> QED
      BY <1>3, <3>1, <3>2, <3>3, <3>4
  <2> QED
    BY <2>1, <2>2, <2>3, <1>t, PushedTypes
<1>4. CASE ForwardReceives \/ ForwardSends \/ ForwardEnds \/ TurnReads \/ TurnSeesClose
  <2>1. CounterTypes'
    BY <1>4, <1>t
       DEF ForwardReceives, ForwardSends, ForwardEnds, TurnReads, TurnSeesClose, CounterTypes
  <2> QED
    BY <1>4, <1>t, <2>1, HandedTypes
<1> QED
  BY <1>1, <1>2, <1>3, <1>4, StepCases

\* Every variable has its type in every reachable state: no channel holds more than its
\* capacity, and the forwarding goroutine holds a chunk exactly while it sends.
THEOREM PipeTypeCorrect == Spec => []TypeOK
<1>1. Init => TypeOK
  <2>1. <<>> \in Seq(Chunk) /\ Len(<<>>) = 0
    BY EmptySeq
  <2>2. ASSUME Init
        PROVE  /\ output \in Seq(Chunk) /\ Len(output) <= OutputCap
               /\ held \in Seq(Chunk) /\ Len(held) = (IF forward = "send" THEN 1 ELSE 0)
               /\ wrapped \in Seq(Chunk) /\ Len(wrapped) <= WrappedCap
               /\ got \in Seq(Chunk)
    BY <2>1, <2>2, PipeConstants DEF Init
  <2>3. ASSUME Init
        PROVE  /\ written \in 0..Lines /\ errWritten \in 0..ErrLines /\ filled \in 0..written
               /\ lineRead \in 0..filled /\ errRead \in 0..errWritten
               /\ dropped \in SUBSET Chunk
    BY <2>3, PipeConstants DEF Init
  <2>4. ASSUME Init
        PROVE  /\ child = "running" /\ pipesOpen \in BOOLEAN /\ outReader = "reading"
               /\ errReader = "reading" /\ waiter = "wait" /\ alive \in BOOLEAN
               /\ killed \in BOOLEAN /\ closed \in BOOLEAN /\ forward = "receive"
               /\ turn = "reading"
    BY <2>4 DEF Init
  <2> QED
    BY <2>2, <2>3, <2>4 DEF TypeOK
<1> QED
  BY <1>1, PipeTypeStep, PTL DEF Spec

-----------------------------------------------------------------------------
(* Sequences.                                                               *)

LEMMA ToSetConcat ==
  ASSUME NEW S, NEW s \in Seq(S), NEW t \in Seq(S)
  PROVE  ToSet(s \o t) = ToSet(s) \cup ToSet(t)
<1>1. /\ Len(s) \in Nat /\ Len(t) \in Nat /\ DOMAIN s = 1..Len(s) /\ DOMAIN t = 1..Len(t)
      /\ s \o t \in Seq(S) /\ DOMAIN (s \o t) = 1..(Len(s) + Len(t))
      /\ \A i \in 1..(Len(s) + Len(t)) :
           (s \o t)[i] = IF i <= Len(s) THEN s[i] ELSE t[i - Len(s)]
  BY LenProperties, ConcatProperties
<1>2. ASSUME NEW x \in ToSet(s \o t) PROVE x \in ToSet(s) \cup ToSet(t)
  <2>1. PICK i \in 1..(Len(s) + Len(t)) : x = (s \o t)[i]
    BY <1>1 DEF ToSet
  <2>2. CASE i <= Len(s)
    BY <1>1, <2>1, <2>2 DEF ToSet
  <2>3. CASE i > Len(s)
    <3>1. i - Len(s) \in DOMAIN t /\ x = t[i - Len(s)]
      BY <1>1, <2>1, <2>3
    <3> QED
      BY <3>1 DEF ToSet
  <2> QED
    BY <1>1, <2>1, <2>2, <2>3
<1>3. ASSUME NEW x \in ToSet(s) PROVE x \in ToSet(s \o t)
  <2>1. PICK i \in 1..Len(s) : x = s[i]
    BY <1>1 DEF ToSet
  <2>2. i \in DOMAIN (s \o t) /\ (s \o t)[i] = x
    BY <1>1, <2>1
  <2> QED
    BY <2>2 DEF ToSet
<1>4. ASSUME NEW x \in ToSet(t) PROVE x \in ToSet(s \o t)
  <2>1. PICK i \in 1..Len(t) : x = t[i]
    BY <1>1 DEF ToSet
  <2>2. Len(s) + i \in DOMAIN (s \o t) /\ (s \o t)[Len(s) + i] = x
    BY <1>1, <2>1
  <2> QED
    BY <2>2 DEF ToSet
<1> QED
  BY <1>2, <1>3, <1>4

LEMMA ToSetSmall == \A x : ToSet(<<x>>) = {x} /\ ToSet(<<>>) = {}
  BY DEF ToSet

LEMMA HeadFirst ==
  ASSUME NEW S, NEW s \in Seq(S), s # <<>>
  PROVE  <<Head(s)>> \o Tail(s) = s
<1>1. /\ Head(s) \in S /\ Tail(s) \in Seq(S) /\ Len(Tail(s)) = Len(s) - 1 /\ Len(s) \in Nat \ {0}
      /\ \A i \in 1..Len(Tail(s)) : Tail(s)[i] = s[i + 1]
  BY HeadTailProperties, EmptySeq
<1>2. <<Head(s)>> \in Seq(S) /\ Len(<<Head(s)>>) = 1 /\ <<Head(s)>>[1] = s[1]
  BY <1>1
<1>3. /\ <<Head(s)>> \o Tail(s) \in Seq(S) /\ Len(<<Head(s)>> \o Tail(s)) = Len(s)
      /\ \A i \in 1..Len(s) : (<<Head(s)>> \o Tail(s))[i] =
                                IF i <= 1 THEN <<Head(s)>>[i] ELSE Tail(s)[i - 1]
  BY <1>1, <1>2, ConcatProperties
<1>4. \A i \in 1..Len(s) : (<<Head(s)>> \o Tail(s))[i] = s[i]
  <2> SUFFICES ASSUME NEW i \in 1..Len(s) PROVE (<<Head(s)>> \o Tail(s))[i] = s[i]
    OBVIOUS
  <2>1. CASE i = 1
    BY <1>1, <1>2, <1>3, <2>1
  <2>2. CASE i # 1
    <3>1. i - 1 \in 1..Len(Tail(s)) /\ ~ (i <= 1)
      BY <1>1, <2>2
    <3>2. Tail(s)[i - 1] = s[(i - 1) + 1]
      BY <1>1, <3>1
    <3> QED
      BY <1>1, <1>3, <3>1, <3>2
  <2> QED
    BY <2>1, <2>2
<1> QED
  BY <1>3, <1>4, SeqEqual

-----------------------------------------------------------------------------
(* Order and loss.                                                          *)

LEMMA FlightType == ASSUME TypeOK PROVE InFlight \in Seq(Chunk)
  BY ConcatProperties DEF TypeOK, InFlight

LEMMA HoldsNothing == ASSUME TypeOK, forward # "send" PROVE held = <<>>
  BY EmptySeq DEF TypeOK

\* Whoever hands a chunk on leaves the line of chunks as it is (runner.go:123-134).
LEMMA HandedOn ==
  ASSUME TypeOK, ForwardReceives \/ ForwardSends \/ TurnReads
  PROVE  InFlight' = InFlight
<1>t. /\ got \in Seq(Chunk) /\ wrapped \in Seq(Chunk) /\ held \in Seq(Chunk)
      /\ output \in Seq(Chunk)
  BY DEF TypeOK
<1>1. CASE ForwardReceives
  <2>1. output \in Seq(Chunk) /\ output # <<>> /\ held = <<>> /\ got \o wrapped \in Seq(Chunk)
    BY <1>1, <1>t, HoldsNothing, ChunkSeqs DEF ForwardReceives
  <2>2. <<Head(output)>> \in Seq(Chunk) /\ Tail(output) \in Seq(Chunk)
    BY <2>1, HeadTailProperties
  <2>3. InFlight' = ((got \o wrapped) \o <<Head(output)>>) \o Tail(output)
    BY <1>1 DEF ForwardReceives, InFlight, turnVars
  <2>4. @ = (got \o wrapped) \o (<<Head(output)>> \o Tail(output))
    BY <2>1, <2>2, ConcatAssociative
  <2>5. @ = (got \o wrapped) \o output
    BY <2>1, HeadFirst
  <2>6. @ = ((got \o wrapped) \o held) \o output
    BY <2>1, ConcatEmptySeq
  <2> QED
    BY <2>3, <2>4, <2>5, <2>6 DEF InFlight
<1>2. CASE ForwardSends
  <2>1. InFlight' = ((got \o (wrapped \o held)) \o <<>>) \o output
    BY <1>2 DEF ForwardSends, InFlight, turnVars, outVars
  <2>2. got \o (wrapped \o held) \in Seq(Chunk)
    BY <1>t, ChunkSeqs
  <2>3. (got \o (wrapped \o held)) \o <<>> = got \o (wrapped \o held)
    BY <2>2, ConcatEmptySeq
  <2>4. (got \o wrapped) \o held = got \o (wrapped \o held)
    BY <1>t, ConcatAssociative
  <2> QED
    BY <2>1, <2>3, <2>4 DEF InFlight
<1>3. CASE TurnReads
  <2>1. wrapped # <<>> /\ UNCHANGED <<held, output>>
    BY <1>3 DEF TurnReads, outVars
  <2>2. Head(wrapped) \in Chunk /\ <<Head(wrapped)>> \in Seq(Chunk) /\ Tail(wrapped) \in Seq(Chunk)
    BY <1>t, <2>1, HeadTailProperties
  <2>3. got' = got \o <<Head(wrapped)>> /\ wrapped' = Tail(wrapped)
    BY <1>3, <1>t, <2>2, AppendIsConcat DEF TurnReads
  <2>4. got' \o wrapped' = got \o (<<Head(wrapped)>> \o Tail(wrapped))
    <3>1. (got \o <<Head(wrapped)>>) \o Tail(wrapped)
            = got \o (<<Head(wrapped)>> \o Tail(wrapped))
      <4>1. /\ got \in Seq(Chunk)
            /\ <<Head(wrapped)>> \in Seq(Chunk)
            /\ Tail(wrapped) \in Seq(Chunk)
        BY <1>t, <2>2
      <4> QED
        BY <4>1, ConcatAssociative
    <3> QED
      BY <2>3, <3>1
  <2>5. got' \o wrapped' = got \o wrapped
    BY <1>t, <2>1, <2>4, HeadFirst
  <2> QED
    BY <2>1, <2>5 DEF InFlight
<1> QED
  BY <1>1, <1>2, <1>3

\* A chunk that is pushed comes last, or is dropped (procman.go:286-289).
LEMMA PushedLast ==
  ASSUME TypeOK, NEW c \in Chunk, Push(c), UNCHANGED <<fwdVars, turnVars>>
  PROVE  \/ InFlight' = InFlight \o <<c>> /\ dropped' = dropped
         \/ InFlight' = InFlight /\ dropped' = dropped \cup {c}
<1> USE DEF TypeOK, fwdVars, turnVars
<1>1. CASE Len(output) < OutputCap
  <2>1. output' = output \o <<c>> /\ dropped' = dropped
    BY <1>1, AppendIsConcat DEF Push
  <2>2. (got \o wrapped) \o held \in Seq(Chunk) /\ <<c>> \in Seq(Chunk)
    BY ConcatProperties
  <2>3. ((got \o wrapped) \o held) \o (output \o <<c>>)
          = (((got \o wrapped) \o held) \o output) \o <<c>>
    BY <2>2, ConcatAssociative
  <2> QED
    BY <2>1, <2>3 DEF InFlight
<1>2. CASE ~ (Len(output) < OutputCap)
  BY <1>2 DEF Push, InFlight
<1> QED
  BY <1>1, <1>2

\* What is on its way is in order, and every line that was read is there or was dropped.
LineInv == InOrder /\ (ToSet(InFlight) \cup dropped) \ ErrorChunk = 1..lineRead

LEMMA LinesUntouched ==
  ASSUME LineInv, InFlight' = InFlight, UNCHANGED <<dropped, lineRead>>
  PROVE  LineInv'
  BY DEF LineInv, InOrder

\* An error chunk or the next line is pushed (procman.go:286-304).
LEMMA LinesPushed ==
  ASSUME TypeOK, LineInv, NEW c \in Chunk, Push(c), UNCHANGED <<fwdVars, turnVars>>,
         \/ c \in ErrorChunk /\ lineRead' = lineRead
         \/ c = lineRead + 1 /\ lineRead' = c /\ c \notin ErrorChunk
  PROVE  LineInv'
<1>1. InFlight \in Seq(Chunk) /\ <<c>> \in Seq(Chunk) /\ lineRead \in Nat
  BY FlightType DEF TypeOK
<1>2. {c} \cup (1..lineRead) = 1..lineRead' \/ c \in ErrorChunk
  BY <1>1
<1>3. CASE InFlight' = InFlight /\ dropped' = dropped \cup {c}
  <2>1. InOrder'
    BY <1>3 DEF LineInv, InOrder
  <2>2. (ToSet(InFlight') \cup dropped') \ ErrorChunk = 1..lineRead'
    BY <1>2, <1>3 DEF LineInv
  <2> QED
    BY <2>1, <2>2 DEF LineInv
<1>4. CASE InFlight' = InFlight \o <<c>> /\ dropped' = dropped
  <2>1. ToSet(InFlight') = ToSet(InFlight) \cup {c}
    <3>a. \A s, t \in Seq(Chunk) : ToSet(s \o t) = ToSet(s) \cup ToSet(t)
      BY ToSetConcat
    <3>1. ToSet(InFlight \o <<c>>) = ToSet(InFlight) \cup ToSet(<<c>>)
      BY <1>1, <3>a
    <3>2. ToSet(<<c>>) = {c}
      BY ToSetSmall
    <3> QED
      BY <1>4, <3>1, <3>2
  <2>2. (ToSet(InFlight') \cup dropped') \ ErrorChunk = 1..lineRead'
    BY <1>2, <1>4, <2>1 DEF LineInv
  <2>3. /\ Len(InFlight) \in Nat /\ DOMAIN InFlight = 1..Len(InFlight)
        /\ Len(<<c>>) = 1 /\ <<c>>[1] = c
    BY <1>1, LenProperties
  <2>4. /\ DOMAIN InFlight' = 1..(Len(InFlight) + 1)
        /\ \A i \in 1..Len(InFlight) : InFlight'[i] = InFlight[i]
        /\ InFlight'[Len(InFlight) + 1] = c
    BY <1>1, <1>4, <2>3, ConcatProperties, LenProperties
  <2>5. ASSUME NEW i \in DOMAIN InFlight', NEW j \in DOMAIN InFlight', i < j,
               {InFlight'[i], InFlight'[j]} \cap ErrorChunk = {}
        PROVE  InFlight'[i] < InFlight'[j]
    <3>1. i \in DOMAIN InFlight
      BY <2>3, <2>4, <2>5
    <3>2. CASE j \in DOMAIN InFlight
      BY <2>3, <2>4, <2>5, <3>1, <3>2 DEF LineInv, InOrder
    <3>3. CASE j \notin DOMAIN InFlight
      <4>1. InFlight'[j] = c /\ c \notin ErrorChunk
        BY <2>3, <2>4, <2>5, <3>3
      <4>2. InFlight'[i] \in ToSet(InFlight) \ ErrorChunk
        BY <2>3, <2>4, <2>5, <3>1 DEF ToSet
      <4>3. InFlight'[i] \in 1..lineRead
        BY <4>2 DEF LineInv
      <4> QED
        BY <1>1, <4>1, <4>3
    <3> QED
      BY <3>2, <3>3
  <2> QED
    BY <2>2, <2>5 DEF LineInv, InOrder
<1> QED
  BY <1>3, <1>4, PushedLast

\* Every step keeps the order and the account of the lines (procman.go:280-355).
LEMMA LinesStep == ASSUME TypeOK, LineInv, [Next]_vars PROVE LineInv'
<1> USE DEF readVars, outVars, fwdVars, turnVars
<1>1. CASE UNCHANGED vars
  BY <1>1, LinesUntouched DEF vars, InFlight
<1>2. CASE \/ ChildWrites \/ ChildExits \/ Stop \/ ScannerFills \/ ReadEnds \/ ReadErrEnds
           \/ WaitReturns \/ CloseOutput \/ ForwardEnds \/ TurnSeesClose
  <2>1. UNCHANGED <<got, wrapped, held, output, dropped, lineRead>>
    BY <1>2 DEF ChildWrites, ChildExits, Stop, ScannerFills, ReadEnds, ReadErrEnds, WaitReturns,
                CloseOutput, ForwardEnds, TurnSeesClose
  <2> QED
    BY <2>1, LinesUntouched DEF InFlight
<1>3. CASE ForwardReceives \/ ForwardSends \/ TurnReads
  <2>1. UNCHANGED <<dropped, lineRead>>
    BY <1>3 DEF ForwardReceives, ForwardSends, TurnReads
  <2> QED
    BY <1>3, <2>1, HandedOn, LinesUntouched
<1>4. CASE ReadLine
  <2>1. lineRead' = lineRead + 1 /\ Push(lineRead') /\ UNCHANGED <<fwdVars, turnVars>>
    BY <1>4 DEF ReadLine
  <2>2. lineRead' \in 1..Lines
    BY <1>4, PipeConstants DEF ReadLine, TypeOK
  <2> QED
    BY <2>1, <2>2, LinesPushed, Chunks
<1>5. CASE ReportReadError \/ ReadErrLine \/ MarkDead
  <2>1. UNCHANGED <<lineRead, fwdVars, turnVars>>
    BY <1>5 DEF ReportReadError, ReadErrLine, MarkDead
  <2>2. (\E c \in ErrorChunk : Push(c)) \/ UNCHANGED outVars
    BY <1>5 DEF ReportReadError, ReadErrLine, MarkDead, ErrorChunk
  <2>3. CASE \E c \in ErrorChunk : Push(c)
    BY <2>1, <2>3, LinesPushed, Chunks
  <2>4. CASE UNCHANGED outVars
    BY <2>1, <2>4, LinesUntouched DEF InFlight
  <2> QED
    BY <2>2, <2>3, <2>4
<1> QED
  BY <1>1, <1>2, <1>3, <1>4, <1>5, StepCases

\* The chunks that were ever pushed.
Pushed == ToSet(InFlight) \cup dropped

LEMMA PushedIsThere ==
  ASSUME TypeOK, NEW c \in Chunk, Push(c), UNCHANGED <<fwdVars, turnVars>>
  PROVE  Pushed' = Pushed \cup {c}
<1>1. CASE InFlight' = InFlight \o <<c>> /\ dropped' = dropped
  <2>1. InFlight \in Seq(Chunk) /\ <<c>> \in Seq(Chunk)
    BY FlightType
  <2>2. \A s, t \in Seq(Chunk) : ToSet(s \o t) = ToSet(s) \cup ToSet(t)
    BY ToSetConcat
  <2>3. ToSet(InFlight \o <<c>>) = ToSet(InFlight) \cup ToSet(<<c>>)
    BY <2>1, <2>2
  <2>4. ToSet(<<c>>) = {c}
    BY ToSetSmall
  <2> QED
    BY <1>1, <2>3, <2>4 DEF Pushed
<1>2. CASE InFlight' = InFlight /\ dropped' = dropped \cup {c}
  BY <1>2 DEF Pushed
<1> QED
  BY <1>1, <1>2, PushedLast

\* What was pushed once is in flight, with the turn or dropped ever after.
LEMMA PushedStays == ASSUME TypeOK, [Next]_vars PROVE Pushed \subseteq Pushed'
<1>1. CASE \/ UNCHANGED vars
           \/ ChildWrites \/ ChildExits \/ Stop \/ ScannerFills \/ ReadEnds \/ ReadErrEnds
           \/ WaitReturns \/ CloseOutput \/ ForwardEnds \/ TurnSeesClose
  <2>1. UNCHANGED <<got, wrapped, held, output, dropped>>
    BY <1>1 DEF vars, ChildWrites, ChildExits, Stop, ScannerFills, ReadEnds, ReadErrEnds,
                WaitReturns, CloseOutput, ForwardEnds, TurnSeesClose, outVars, fwdVars, turnVars
  <2> QED
    BY <2>1 DEF Pushed, InFlight
<1>2. CASE ForwardReceives \/ ForwardSends \/ TurnReads
  <2>1. dropped' = dropped
    BY <1>2 DEF ForwardReceives, ForwardSends, TurnReads, outVars
  <2> QED
    BY <1>2, <2>1, HandedOn DEF Pushed
<1>3. CASE ReadLine
  <2>1. lineRead' \in Chunk
    BY <1>3, PipeConstants DEF ReadLine, TypeOK, Chunk
  <2> QED
    BY <1>3, <2>1, PushedIsThere DEF ReadLine
<1>4. CASE ReportReadError \/ ReadErrLine \/ MarkDead
  <2>1. (\E c \in Chunk : Push(c)) \/ UNCHANGED outVars
    BY <1>4, Chunks DEF ReportReadError, ReadErrLine, MarkDead, ErrorChunk
  <2>2. UNCHANGED <<fwdVars, turnVars>>
    BY <1>4 DEF ReportReadError, ReadErrLine, MarkDead
  <2>3. CASE UNCHANGED outVars
    BY <2>2, <2>3 DEF Pushed, InFlight, outVars, fwdVars, turnVars
  <2> QED
    BY <2>1, <2>2, <2>3, PushedIsThere
<1> QED
  BY <1>1, <1>2, <1>3, <1>4, StepCases

\* The ends, in their order: readOutput ends with every line of a child that has exited, or
\* reports why not unless the process was stopped, and only waitForExit, after it, and Stop
\* make the process dead; the forwarding goroutine ends with the channel closed and empty;
\* the turn sees the end with nothing left for it (procman.go:280-355, runner.go:123-141).
ReaderEnd ==
  outReader = "done" =>
    (child # "running" /\ lineRead = written) \/ ReadErrorChunk \in Pushed \/ killed

LateEnds ==
  /\ ~ alive => killed \/ waiter \in {"close", "done"}
  /\ forward = "done" => closed /\ output = <<>>
  /\ turn = "closed" => wrapped = <<>> /\ forward = "done"

Ends == ReaderEnd /\ LateEnds

LEMMA ReaderEndStep ==
  ASSUME TypeOK, Joined, Ends, [Next]_vars
  PROVE  ReaderEnd'
<1>1. CASE ReadErrorChunk \in Pushed
  BY <1>1, PushedStays DEF ReaderEnd
<1>2. CASE killed
  <2>1. killed'
    BY <1>2, StepCases
       DEF vars, ChildWrites, ChildExits, Stop, ScannerFills, ReadLine, ReadEnds,
           ReportReadError, ReadErrLine, ReadErrEnds, WaitReturns, MarkDead, CloseOutput,
           ForwardReceives, ForwardSends, ForwardEnds, TurnReads, TurnSeesClose
  <2> QED
    BY <2>1 DEF ReaderEnd
<1>3. CASE ReadErrorChunk \notin Pushed /\ ~ killed
  <2> USE <1>3 DEF TypeOK, Ends, ReaderEnd
  <2>1. CASE ReadEnds
    BY <2>1 DEF ReadEnds, childVars
  <2>2. CASE ReportReadError
    <3>1. waiter \notin {"close", "done"}
      BY <2>2 DEF ReportReadError, Joined, ReadersDone
    <3>2. alive
      BY <3>1 DEF LateEnds
    <3>3. ReadErrorChunk \in Chunk /\ Push(ReadErrorChunk) /\ UNCHANGED <<fwdVars, turnVars>>
      BY <2>2, <3>2, Chunks DEF ReportReadError, ErrorChunk
    <3>4. ReadErrorChunk \in Pushed'
      BY <3>3, PushedIsThere
    <3> QED
      BY <3>4
  <2>3. CASE ChildWrites \/ ChildExits \/ Stop
    BY <2>3 DEF ChildWrites, ChildExits, Stop, childVars, readVars
  <2>4. CASE ScannerFills \/ ReadLine
    BY <2>4 DEF ScannerFills, ReadLine
  <2>5. CASE \/ UNCHANGED vars \/ ReadErrLine \/ ReadErrEnds \/ WaitReturns \/ MarkDead
             \/ CloseOutput \/ ForwardReceives \/ ForwardSends \/ ForwardEnds \/ TurnReads
             \/ TurnSeesClose
    <3>1. UNCHANGED <<outReader, child, lineRead, written>>
      BY <2>5 DEF vars, ReadErrLine, ReadErrEnds, WaitReturns, MarkDead, CloseOutput,
         ForwardReceives, ForwardSends, ForwardEnds, TurnReads, TurnSeesClose, childVars,
         readVars
    <3> QED
      BY <3>1
  <2> QED
    BY <2>1, <2>2, <2>3, <2>4, <2>5, StepCases
<1> QED
  BY <1>1, <1>2, <1>3

LEMMA LateEndsStep == ASSUME TypeOK, Joined, LateEnds, [Next]_vars PROVE LateEnds'
<1> USE DEF TypeOK, Joined, ReadersDone, LateEnds, childVars, readVars, outVars, fwdVars,
            turnVars
<1>1. CASE UNCHANGED vars
  BY <1>1 DEF vars
<1>2. CASE ChildWrites \/ ChildExits \/ Stop
  BY <1>2 DEF ChildWrites, ChildExits, Stop
<1>3. CASE ScannerFills \/ ReadEnds \/ ReadErrEnds
  BY <1>3 DEF ScannerFills, ReadEnds, ReadErrEnds
<1>4. CASE ReadLine
  <2>1. ~ closed /\ outReader = "reading"
    BY <1>4 DEF ReadLine
  <2> QED
    BY <1>4, <2>1 DEF ReadLine
<1>5. CASE ReportReadError \/ ReadErrLine \/ MarkDead
  <2>1. ~ closed
    BY <1>5 DEF ReportReadError, ReadErrLine, MarkDead
  <2> QED
    BY <1>5, <2>1 DEF ReportReadError, ReadErrLine, MarkDead
<1>6. CASE WaitReturns \/ CloseOutput
  BY <1>6 DEF WaitReturns, CloseOutput
<1>7. CASE ForwardReceives \/ ForwardSends \/ ForwardEnds
  BY <1>7 DEF ForwardReceives, ForwardSends, ForwardEnds
<1>8. CASE TurnReads \/ TurnSeesClose
  BY <1>8 DEF TurnReads, TurnSeesClose
<1> QED
  BY <1>1, <1>2, <1>3, <1>4, <1>5, <1>6, <1>7, <1>8, StepCases

LEMMA EndsStep == ASSUME TypeOK, Joined, Ends, [Next]_vars PROVE Ends'
  BY ReaderEndStep, LateEndsStep DEF Ends

\* At the start nothing has been read.
LEMMA PipeStart == ASSUME Init PROVE Joined /\ LineInv /\ Ends
<1>1. InFlight = <<>>
  <2>1. got = <<>> /\ wrapped = <<>> /\ held = <<>> /\ output = <<>>
    BY DEF Init
  <2>2. <<>> \in Seq(Chunk)
    BY EmptySeq
  <2>3. <<>> \o <<>> = <<>>
    BY <2>2, ConcatEmptySeq
  <2> QED
    BY <2>1, <2>3 DEF InFlight
<1>2. DOMAIN InFlight = {} /\ ToSet(InFlight) = {}
  BY <1>1, ToSetSmall
<1>3. dropped = {} /\ 1..lineRead = {}
  BY DEF Init
<1>4. LineInv
  BY <1>2, <1>3 DEF LineInv, InOrder
<1>5. Joined /\ Ends
  BY DEF Init, Joined, Ends, ReaderEnd, LateEnds
<1> QED
  BY <1>4, <1>5

\* All three invariants hold in every reachable state.
LEMMA PipeAlways == Spec => [](Joined /\ LineInv /\ Ends)
  BY PipeStart, PipeTypeCorrect, JoinedStep, LinesStep, EndsStep, PTL DEF Spec

\* The turn reads the lines of stdout in the order in which they were written, for any
\* number of lines and any capacities (procman.go:280-329, runner.go:123-134).
THEOREM LinesInOrder == Spec => []InOrder
<1>1. LineInv => InOrder
  BY DEF LineInv
<1> QED
  BY <1>1, PipeAlways, PTL

\* Every line that was read is with the turn, on its way, or was dropped by a full channel,
\* and when readOutput has left lines unread it has pushed an error or the process was
\* stopped, for any number of lines and any capacities (procman.go:280-304, 331-355).
THEOREM EveryLossAccounted == Spec => []LossAccounted
<1>1. TypeOK /\ LineInv /\ Ends => LossAccounted
  <2> SUFFICES ASSUME TypeOK, LineInv, Ends PROVE LossAccounted
    OBVIOUS
  <2>1. ASSUME turn = "closed" PROVE 1..lineRead \subseteq ToSet(got) \cup dropped
    <3>1. wrapped = <<>> /\ held = <<>> /\ output = <<>> /\ got \in Seq(Chunk)
      BY <2>1, HoldsNothing DEF Ends, LateEnds, TypeOK
    <3>2. InFlight = got
      BY <3>1, ConcatEmptySeq DEF InFlight
    <3> QED
      BY <3>2 DEF LineInv
  <2> QED
    BY <2>1 DEF LossAccounted, LineInv, Ends, ReaderEnd, Pushed
<1> QED
  BY <1>1, PipeTypeCorrect, PipeAlways, PTL

-----------------------------------------------------------------------------
(* From the turn to the chat.                                               *)

\* Every step keeps the types.  That streamErr and rejects name expired streams only
\* is part of them.
LEMMA FrameTypes ==
  ASSUME NEW t \in Turn, NEW what \in Shown, DeliveryTypeOK,
         FrameWritten(t, what) \/ FrameRefused(t)
  PROVE  /\ link' \in BOOLEAN
         /\ expired' = expired /\ rejects' \subseteq expired
         /\ streamErr' \in expired \cup {None}
         /\ bubble' \in [Turn -> Shown] /\ missed' \subseteq Turn
         /\ \A u \in Turn \ {t} : bubble'[u] = bubble[u] /\ (u \in missed' <=> u \in missed)
  BY DEF DeliveryTypeOK, FrameWritten, FrameRefused

\* What a finish frame does.
LEMMA LastFrameTypes ==
  ASSUME NEW t \in Turn, NEW what \in Shown, DeliveryTypeOK, LastFrame(t, what),
         stopped' \subseteq Turn
  PROVE  DeliveryTypeOK'
<1>1. FrameWritten(t, what) \/ FrameRefused(t)
  BY DEF LastFrame
<1>2. /\ last' \in [Turn -> Shown]
      /\ pc' \in [Turn -> {"new", "loop", "done", "again", "end"}]
      /\ refused' \subseteq Turn /\ unlinked' \subseteq Turn
      /\ UNCHANGED <<local, chunks, pushed, noticed, unanswered>>
  BY DEF LastFrame, DeliveryTypeOK, Goto
<1> QED
  BY <1>1, <1>2, FrameTypes DEF DeliveryTypeOK

\* What a refresh does.
LEMMA RefreshTypes ==
  ASSUME NEW t \in Turn, NEW what \in Shown, NEW seen \in Local, DeliveryTypeOK,
         Refresh(t, what, seen)
  PROVE  /\ local' \in [Turn -> Local]
         /\ \E b \in {seen.broken, TRUE} : local' = [local EXCEPT ![t] = [seen EXCEPT !.broken = b]]
         /\ FrameWritten(t, what) \/ FrameRefused(t)
         /\ noticed' \subseteq Turn
<1>1. CASE FrameWritten(t, what) /\ local' = [local EXCEPT ![t] = seen] /\ UNCHANGED noticed
  <2>1. seen = [seen EXCEPT !.broken = seen.broken]
    BY DEF Local
  <2> QED
    BY <1>1, <2>1 DEF DeliveryTypeOK
<1>2. CASE /\ FrameRefused(t) /\ noticed' = noticed \cup {t}
           /\ local' = [local EXCEPT ![t] = [seen EXCEPT !.broken = TRUE]]
  <2>1. [seen EXCEPT !.broken = TRUE] \in Local
    BY DEF Local
  <2> QED
    BY <1>2, <2>1 DEF DeliveryTypeOK
<1> QED
  BY <1>1, <1>2 DEF Refresh

LEMMA DeliveryTypeStep ==
  ASSUME DeliveryTypeOK, [DeliveryNext]_dvars
  PROVE  DeliveryTypeOK'
<1> USE DEF At, Goto, seenVars, netVars
<1>1. ASSUME NEW t \in Turn, Begin(t) PROVE DeliveryTypeOK'
  <2>1. local[t] \in Local /\ "spinner" \in Shown /\ Refresh(t, "spinner", local[t])
    BY <1>1 DEF Begin, DeliveryTypeOK, Shown
  <2>2. PICK b \in {local[t].broken, TRUE} :
          local' = [local EXCEPT ![t] = [local[t] EXCEPT !.broken = b]]
    BY <2>1, RefreshTypes
  <2>3. \A u \in Turn : local'[u].text \/ local'[u].full => local'[u].had
    BY <2>2 DEF DeliveryTypeOK, Local
  <2>4. /\ pc' \in [Turn -> {"new", "loop", "done", "again", "end"}]
        /\ UNCHANGED <<stopped, chunks, pushed, last, refused, unlinked, unanswered>>
    BY <1>1 DEF Begin, DeliveryTypeOK
  <2> QED
    BY <2>1, <2>3, <2>4, RefreshTypes, FrameTypes DEF DeliveryTypeOK
<1>2. ASSUME NEW t \in Turn, ChunkText(t) PROVE DeliveryTypeOK'
  <2> DEFINE seen == [local[t] EXCEPT !.had = TRUE, !.text = TRUE]
  <2>1. seen \in Local /\ "text" \in Shown /\ Refresh(t, "text", seen)
    BY <1>2 DEF ChunkText, DeliveryTypeOK, Shown, Local
  <2>a. seen.had
    BY DEF DeliveryTypeOK, Local
  <2> HIDE DEF seen
  <2>2. PICK b \in {seen.broken, TRUE} : local' = [local EXCEPT ![t] = [seen EXCEPT !.broken = b]]
    BY <2>1, RefreshTypes
  <2>3. \A u \in Turn : local'[u].text \/ local'[u].full => local'[u].had
    BY <2>a, <2>1, <2>2 DEF DeliveryTypeOK, Local
  <2>4. /\ chunks' \in [Turn -> [text : 0..MaxChunks, warn : 0..MaxTimeouts]]
        /\ UNCHANGED <<stopped, pc, pushed, last, refused, unlinked, unanswered>>
    BY <1>2, DeliveryConstants DEF ChunkText, DeliveryTypeOK
  <2> QED
    BY <2>1, <2>3, <2>4, RefreshTypes, FrameTypes DEF DeliveryTypeOK
<1>3. ASSUME NEW t \in Turn, Ticker(t) PROVE DeliveryTypeOK'
  <2>1. PICK what \in Shown : Refresh(t, what, local[t])
    BY <1>3 DEF Ticker, Shown
  <2>a. local[t] \in Local
    BY DEF DeliveryTypeOK
  <2>2. PICK b \in {local[t].broken, TRUE} :
          local' = [local EXCEPT ![t] = [local[t] EXCEPT !.broken = b]]
    BY <2>1, <2>a, RefreshTypes
  <2>3. \A u \in Turn : local'[u].text \/ local'[u].full => local'[u].had
    BY <2>2 DEF DeliveryTypeOK, Local
  <2>4. UNCHANGED <<stopped, pc, chunks, pushed, last, refused, unlinked, unanswered>>
    BY <1>3 DEF Ticker
  <2> QED
    BY <2>1, <2>a, <2>3, <2>4, RefreshTypes, FrameTypes DEF DeliveryTypeOK
<1>4. ASSUME NEW t \in Turn, ChunkFinal(t) PROVE DeliveryTypeOK'
  <2>1. PICK answer \in BOOLEAN : local' = [local EXCEPT ![t].had = TRUE, ![t].full = answer]
    BY <1>4 DEF ChunkFinal
  <2>2. /\ [local[t] EXCEPT !.had = TRUE, !.full = answer] \in Local
        /\ local' = [local EXCEPT ![t] = [local[t] EXCEPT !.had = TRUE, !.full = answer]]
    BY <2>1 DEF DeliveryTypeOK, Local
  <2>3. local' \in [Turn -> Local]
    BY <2>2 DEF DeliveryTypeOK
  <2>4. \A u \in Turn : local'[u].text \/ local'[u].full => local'[u].had
    BY <2>2 DEF DeliveryTypeOK, Local
  <2> QED
    BY <1>4, <2>3, <2>4 DEF ChunkFinal, DeliveryTypeOK
<1>5. ASSUME NEW t \in Turn, Timeout(t) PROVE DeliveryTypeOK'
  <2>1. FrameWritten(t, "warning") \/ FrameRefused(t)
    BY <1>5 DEF Timeout
  <2>2. /\ chunks' \in [Turn -> [text : 0..MaxChunks, warn : 0..MaxTimeouts]]
        /\ UNCHANGED <<stopped, pc, local, pushed, noticed, last, refused, unlinked, unanswered>>
    BY <1>5, DeliveryConstants DEF Timeout, DeliveryTypeOK
  <2>3. "warning" \in Shown
    BY DEF Shown
  <2> QED
    BY <2>1, <2>2, <2>3, FrameTypes DEF DeliveryTypeOK
<1>6. ASSUME NEW t \in Turn, DoneStopped(t) PROVE DeliveryTypeOK'
  <2>1. FrameWritten(t, "stopped") \/ FrameRefused(t)
    BY <1>6 DEF DoneStopped
  <2>2. "stopped" \in Shown
    BY DEF Shown
  <2>3. /\ pc' \in [Turn -> {"new", "loop", "done", "again", "end"}]
        /\ last' \in [Turn -> Shown] /\ stopped' \subseteq Turn
        /\ UNCHANGED <<local, chunks, pushed, noticed, refused, unlinked, unanswered>>
    BY <1>6, <2>2 DEF DoneStopped, DeliveryTypeOK
  <2> QED
    BY <2>1, <2>2, <2>3, FrameTypes DEF DeliveryTypeOK
<1>7. ASSUME NEW t \in Turn,
             \/ ChunkError(t) \/ StoppedAgain(t) \/ DoneNoContent(t) \/ DoneByFrame(t)
      PROVE  DeliveryTypeOK'
  <2>1. /\ \E what \in Shown : LastFrame(t, what)
        /\ stopped' = stopped
    BY <1>7 DEF ChunkError, StoppedAgain, DoneNoContent, DoneByFrame, Shown
  <2> QED
    BY <2>1, LastFrameTypes DEF DeliveryTypeOK
<1>8. ASSUME NEW t \in Turn, DoneByPush(t) PROVE DeliveryTypeOK'
  <2>1. /\ link' \in BOOLEAN /\ pushed' \subseteq Turn /\ unlinked' \subseteq Turn
        /\ unanswered' \subseteq pushed'
    BY <1>8 DEF DoneByPush, PushAnswer, DeliveryTypeOK
  <2>2. /\ pc' \in [Turn -> {"new", "loop", "done", "again", "end"}] /\ last' \in [Turn -> Shown]
        /\ UNCHANGED <<expired, rejects, streamErr, stopped, local, chunks, bubble, noticed,
                       refused, missed>>
    BY <1>8 DEF DoneByPush, DeliveryTypeOK, Shown
  <2> QED
    BY <2>1, <2>2 DEF DeliveryTypeOK
<1>9. ASSUME NEW t \in Turn, OutputClosed(t) \/ StopCommand(t) \/ Expires(t) \/ Rejected(t)
      PROVE  DeliveryTypeOK'
  BY <1>9 DEF OutputClosed, StopCommand, Expires, Rejected, DeliveryTypeOK
<1>10. CASE Relinked \/ UNCHANGED dvars
  BY <1>10 DEF Relinked, DeliveryTypeOK, dvars
<1> QED
  BY <1>1, <1>2, <1>3, <1>4, <1>5, <1>6, <1>7, <1>8, <1>9, <1>10
     DEF DeliveryNext, Agent, Done

\* Type correctness of the delivery, for any number of turns on a channel: in particular
\* only a stream that has expired is ever in the slot of the channel (wecom.go:465-474).
THEOREM DeliveryTypeCorrect == DeliverySpec => []DeliveryTypeOK
<1>1. DeliveryInit => DeliveryTypeOK
  BY DeliveryConstants DEF DeliveryInit, DeliveryTypeOK, Local, Shown
<1> QED
  BY <1>1, DeliveryTypeStep, PTL DEF DeliverySpec

(***************************************************************************)
(* NoticedIsPushed and LostOnlyUnnoticed speak of turns that have ended.   *)
(* TurnOK follows a turn until then: "broken" is exactly that a refresh    *)
(* was seen to fail, nothing is sent last before the end, and a turn that  *)
(* repeats its last frame was stopped.                                     *)
(***************************************************************************)
TurnOK(t) ==
  /\ t \in noticed <=> local[t].broken
  /\ pc[t] \in {"new", "loop", "done"} => last[t] = "nothing"
  /\ pc[t] = "again" => last[t] = "stopped"
  /\ pc[t] = "end" /\ last[t] = "answer" /\ HasAnswer(t) =>
       \/ t \in pushed \/ t \in unlinked
       \/ t \notin noticed /\ (bubble[t] = "answer" \/ t \in expired \cup missed)

TurnsOK == \A t \in Turn : TurnOK(t)

\* A step that leaves a turn alone, but for what only grows, keeps TurnOK of it.
Leaves(t) ==
  /\ UNCHANGED <<pc[t], local[t], last[t], bubble[t]>>
  /\ t \in noticed' <=> t \in noticed
  /\ t \in pushed => t \in pushed'
  /\ t \in unlinked => t \in unlinked'
  /\ t \in missed <=> t \in missed'
  /\ t \in expired => t \in expired'

LEMMA LeftAlone == ASSUME NEW t \in Turn, TurnOK(t), Leaves(t) PROVE TurnOK(t)'
  BY DEF TurnOK, Leaves, HasAnswer

\* A refresh, or a warning, in the loop leaves the other turns alone and keeps TurnOK.
LEMMA RefreshKeeps ==
  ASSUME DeliveryTypeOK, TurnsOK, NEW t \in Turn, NEW what \in Shown, NEW seen \in Local,
         Refresh(t, what, seen), seen.broken = local[t].broken,
         pc[t] \in {"new", "loop"}, pc' \in {pc, [pc EXCEPT ![t] = "loop"]},
         UNCHANGED <<pushed, last, unlinked>>
  PROVE  TurnsOK'
<1>1. PICK b \in BOOLEAN :
        /\ local'[t].broken = b
        /\ \A u \in Turn \ {t} : local'[u] = local[u]
        /\ noticed' = IF b THEN noticed \cup {t} ELSE noticed
        /\ ~ b => t \notin noticed
  <2>1. CASE FrameWritten(t, what) /\ local' = [local EXCEPT ![t] = seen] /\ UNCHANGED noticed
    <3>1. /\ noticed' = IF seen.broken THEN noticed \cup {t} ELSE noticed
          /\ ~ seen.broken => t \notin noticed
      BY <2>1 DEF TurnsOK, TurnOK
    <3>2. local'[t].broken = seen.broken /\ seen.broken \in BOOLEAN
      BY <2>1 DEF DeliveryTypeOK, Local
    <3>3. \A u \in Turn \ {t} : local'[u] = local[u]
      BY <2>1 DEF DeliveryTypeOK
    <3> QED
      BY <3>1, <3>2, <3>3
  <2>2. CASE /\ FrameRefused(t) /\ noticed' = noticed \cup {t}
             /\ local' = [local EXCEPT ![t] = [seen EXCEPT !.broken = TRUE]]
    <3>1. local'[t].broken = TRUE /\ \A u \in Turn \ {t} : local'[u] = local[u]
      BY <2>2 DEF DeliveryTypeOK, Local
    <3> QED
      BY <2>2, <3>1
  <2> QED
    BY <2>1, <2>2 DEF Refresh
<1>2. FrameWritten(t, what) \/ FrameRefused(t)
  BY RefreshTypes
<1>3. ASSUME NEW u \in Turn \ {t} PROVE TurnOK(u)'
  <2>1. Leaves(u)
    BY <1>1, <1>2, FrameTypes DEF Leaves, DeliveryTypeOK
  <2> QED
    BY <2>1, LeftAlone DEF TurnsOK
<1>4. TurnOK(t)'
  <2>1. local'[t].broken = b /\ b \in BOOLEAN
    BY <1>1 DEF DeliveryTypeOK, Local
  <2>2. t \in noticed' <=> b
    BY <1>1, <2>1 DEF TurnsOK, TurnOK
  <2>3. pc'[t] \in {"new", "loop"} /\ last'[t] = "nothing"
    BY DEF DeliveryTypeOK, TurnsOK, TurnOK
  <2> QED
    BY <2>1, <2>2, <2>3 DEF TurnOK
<1> QED
  BY <1>3, <1>4 DEF TurnsOK

\* A last frame ends the turn: with an answer it has shown it, was written in vain, or found
\* no connection, unless a refresh was seen to fail before.
LEMMA LastFrameKeeps ==
  ASSUME DeliveryTypeOK, TurnsOK, NEW t \in Turn, NEW what \in Shown, LastFrame(t, what),
         what = "answer" => t \notin noticed
  PROVE  TurnsOK'
<1>1. FrameWritten(t, what) \/ FrameRefused(t)
  BY DEF LastFrame
<1>2. ASSUME NEW u \in Turn \ {t} PROVE TurnOK(u)'
  <2>1. Leaves(u)
    BY <1>1, FrameTypes DEF LastFrame, Goto, Leaves, DeliveryTypeOK
  <2> QED
    BY <2>1, LeftAlone DEF TurnsOK
<1>3. TurnOK(t)'
  <2>1. /\ pc'[t] = "end" /\ last'[t] = what /\ UNCHANGED <<local, pushed, noticed, unanswered>>
        /\ expired' = expired
    BY <1>1, FrameTypes DEF LastFrame, Goto, DeliveryTypeOK
  <2>2. t \in unlinked' \/ t \in expired \cup missed' \/ bubble'[t] = what
    <3>1. CASE FrameWritten(t, what)
      BY <3>1 DEF FrameWritten, DeliveryTypeOK
    <3>2. CASE FrameRefused(t) /\ unlinked' = IF link /\ link' THEN unlinked ELSE unlinked \cup {t}
      BY <3>2, DeliveryConstants DEF FrameRefused, DeliveryTypeOK
    <3> QED
      BY <3>1, <3>2 DEF LastFrame
  <2> QED
    BY <2>1, <2>2 DEF TurnOK, TurnsOK
<1> QED
  BY <1>2, <1>3 DEF TurnsOK

LEMMA TurnsStep == ASSUME DeliveryTypeOK, TurnsOK, [DeliveryNext]_dvars PROVE TurnsOK'
<1>1. ASSUME NEW t \in Turn, Begin(t) PROVE TurnsOK'
  <2>1. /\ local[t] \in Local /\ "spinner" \in Shown /\ Refresh(t, "spinner", local[t])
        /\ pc[t] = "new" /\ pc' = [pc EXCEPT ![t] = "loop"]
        /\ UNCHANGED <<pushed, last, unlinked>>
    BY <1>1 DEF Begin, At, Goto, DeliveryTypeOK, Shown
  <2> QED
    BY <2>1, RefreshKeeps
<1>2. ASSUME NEW t \in Turn, ChunkText(t) PROVE TurnsOK'
  <2> DEFINE seen == [local[t] EXCEPT !.had = TRUE, !.text = TRUE]
  <2>1. /\ seen \in Local /\ "text" \in Shown /\ Refresh(t, "text", seen)
        /\ seen.broken = local[t].broken
        /\ pc[t] = "loop" /\ pc' = pc /\ UNCHANGED <<pushed, last, unlinked>>
    BY <1>2 DEF ChunkText, At, DeliveryTypeOK, Shown, Local
  <2> HIDE DEF seen
  <2> QED
    BY <2>1, RefreshKeeps
<1>3. ASSUME NEW t \in Turn, Ticker(t) PROVE TurnsOK'
  <2>1. PICK what \in Shown : Refresh(t, what, local[t])
    BY <1>3 DEF Ticker, Shown
  <2>2. /\ local[t] \in Local /\ pc[t] = "loop" /\ pc' = pc
        /\ UNCHANGED <<pushed, last, unlinked>>
    BY <1>3 DEF Ticker, At, DeliveryTypeOK
  <2> QED
    BY <2>1, <2>2, RefreshKeeps
<1>4. ASSUME NEW t \in Turn, ChunkFinal(t) PROVE TurnsOK'
  <2>1. PICK answer \in BOOLEAN : local' = [local EXCEPT ![t].had = TRUE, ![t].full = answer]
    BY <1>4 DEF ChunkFinal
  <2>2. /\ local'[t].broken = local[t].broken
        /\ \A u \in Turn \ {t} : local'[u] = local[u] /\ pc'[u] = pc[u]
        /\ pc[t] = "loop" /\ pc'[t] = "done"
        /\ UNCHANGED <<netVars, seenVars>>
    BY <1>4, <2>1 DEF ChunkFinal, At, Goto, DeliveryTypeOK, Local
  <2> QED
    BY <2>2 DEF TurnsOK, TurnOK, HasAnswer, netVars, seenVars
<1>5. ASSUME NEW t \in Turn, Timeout(t) PROVE TurnsOK'
  <2>1. FrameWritten(t, "warning") \/ FrameRefused(t)
    BY <1>5 DEF Timeout
  <2>2. "warning" \in Shown /\ pc[t] = "loop"
    BY <1>5 DEF Shown, Timeout, At
  <2>3. /\ UNCHANGED <<pc, local, pushed, noticed, last, unlinked, expired>>
        /\ \A u \in Turn \ {t} : bubble'[u] = bubble[u] /\ (u \in missed' <=> u \in missed)
    BY <1>5, <2>1, <2>2, FrameTypes DEF Timeout
  <2> QED
    BY <2>2, <2>3 DEF TurnsOK, TurnOK, HasAnswer
<1>6. ASSUME NEW t \in Turn, DoneStopped(t) PROVE TurnsOK'
  <2>1. (FrameWritten(t, "stopped") \/ FrameRefused(t)) /\ "stopped" \in Shown
    BY <1>6 DEF DoneStopped, Shown
  <2>2. /\ pc'[t] \in {"end", "again"} /\ last'[t] = "stopped"
        /\ \A u \in Turn \ {t} : pc'[u] = pc[u] /\ last'[u] = last[u] /\ bubble'[u] = bubble[u]
                                 /\ (u \in missed' <=> u \in missed)
        /\ UNCHANGED <<local, pushed, noticed, unlinked, expired>>
    BY <1>6, <2>1, FrameTypes DEF DoneStopped, Goto, DeliveryTypeOK
  <2> QED
    BY <2>2 DEF TurnsOK, TurnOK, HasAnswer
<1>7. ASSUME NEW t \in Turn,
             \/ ChunkError(t) \/ StoppedAgain(t) \/ DoneNoContent(t) \/ DoneByFrame(t)
      PROVE  TurnsOK'
  <2>1. PICK what \in Shown : LastFrame(t, what) /\ (what = "answer" => t \notin noticed)
    BY <1>7 DEF ChunkError, StoppedAgain, DoneNoContent, DoneByFrame, Shown, TurnsOK, TurnOK
  <2> QED
    BY <2>1, LastFrameKeeps
<1>8. ASSUME NEW t \in Turn, DoneByPush(t) PROVE TurnsOK'
  <2>1. /\ pc'[t] = "end" /\ HasAnswer(t) => t \in pushed' \cup unlinked'
        /\ \A u \in Turn \ {t} : pc'[u] = pc[u] /\ last'[u] = last[u]
        /\ pushed \subseteq pushed' /\ unlinked \subseteq unlinked'
        /\ UNCHANGED <<local, bubble, noticed, expired, missed>>
    BY <1>8 DEF DoneByPush, PushAnswer, HasAnswer, Goto, DeliveryTypeOK
  <2>2. last'[t] = "answer" /\ pc'[t] = "end"
    BY <1>8 DEF DoneByPush, Goto, DeliveryTypeOK
  <2> QED
    BY <2>1, <2>2 DEF TurnsOK, TurnOK, HasAnswer
<1>9. ASSUME NEW t \in Turn, OutputClosed(t) PROVE TurnsOK'
  BY <1>9 DEF OutputClosed, At, Goto, TurnsOK, TurnOK, HasAnswer, netVars, seenVars,
     DeliveryTypeOK
<1>10. CASE \/ \E t \in Turn : StopCommand(t) \/ Expires(t) \/ Rejected(t)
            \/ Relinked \/ UNCHANGED dvars
  <2>1. UNCHANGED <<pc, local, seenVars>> /\ expired \subseteq expired'
    BY <1>10 DEF StopCommand, Expires, Rejected, Relinked, dvars, netVars
  <2> QED
    BY <2>1 DEF TurnsOK, TurnOK, HasAnswer, seenVars
<1> QED
  BY <1>1, <1>2, <1>3, <1>4, <1>5, <1>6, <1>7, <1>8, <1>9, <1>10
     DEF DeliveryNext, Agent, Done

LEMMA TurnsAlwaysOK == DeliverySpec => [](DeliveryTypeOK /\ TurnsOK)
<1>1. DeliveryInit => TurnsOK
  BY DEF DeliveryInit, TurnsOK, TurnOK
<1> QED
  BY <1>1, DeliveryTypeCorrect, TurnsStep, PTL DEF DeliverySpec

\* Once a refresh was seen to fail, the answer is sent as a message, for any number of turns
\* that share the slot of the channel (handler.go:554, 619, 653-666).
THEOREM NoticedAnswersArePushed == DeliverySpec => []NoticedIsPushed
<1>1. DeliveryTypeOK /\ TurnsOK => NoticedIsPushed
  BY DEF NoticedIsPushed, TurnsOK, TurnOK, DeliveryTypeOK
<1> QED
  BY <1>1, TurnsAlwaysOK, PTL

\* An answer is lost only for want of a connection, by a message that was refused or not
\* acknowledged in time, or by a finish frame on a stream of which no refresh has failed, which
\* expired or was missed; for any number of turns (handler.go:653-676, wecom.go:285-293).
THEOREM AnswersLostOnlyUnnoticed == DeliverySpec => []LostOnlyUnnoticed
<1>1. TurnsOK => LostOnlyUnnoticed
  BY DEF LostOnlyUnnoticed, TurnsOK, TurnOK, At
<1> QED
  BY <1>1, TurnsAlwaysOK, PTL
=============================================================================

----------------------------- MODULE OutputPipe -----------------------------
(***************************************************************************)
(* The path of one process's output to the turn that reads it              *)
(* (internal/procman/procman.go, Session.Send of runner.go, the receiving  *)
(* side of router.streamToUser):                                           *)
(*                                                                         *)
(*   child -> stdout pipe -> readOutput -\                                 *)
(*   child -> stderr pipe -> readStderr --> output -> forward -> wrapped   *)
(*                           waitForExit -/                       -> turn  *)
(*                                                                         *)
(* The model begins when the input has been sent.  A stdout line is its    *)
(* number; the last one is the result line.  The chunks after it are the   *)
(* errors that the reading side makes up.  Any line may be longer than the *)
(* scanners' buffer of 10 MB.                                              *)
(***************************************************************************)
EXTENDS Integers, Sequences, SequencesExt

CONSTANTS
  Lines,       \* stdout lines the child would write
  ErrLines,    \* stderr lines the child would write
  OutputCap,   \* capacity of Process.output (256 in the code)
  WrappedCap   \* capacity of the wrapped channel (256 in the code)

ASSUME PipeConstants ==
  /\ Lines \in Nat \ {0} /\ ErrLines \in Nat
  /\ OutputCap \in Nat \ {0} /\ WrappedCap \in Nat \ {0}

StderrChunk == Lines + 1     \* "[stderr] ..."
ReadErrorChunk == Lines + 2  \* "procman: read stdout: ..."
ExitErrorChunk == Lines + 3  \* "process exited: ..."

Chunk == 1..(Lines + 3)
ErrorChunk == {StderrChunk, ReadErrorChunk, ExitErrorChunk}

VARIABLES
  child,         \* "running", or how it ended: "ok", "failed"
  written,       \* stdout lines the child has written
  errWritten,    \* stderr lines the child has written
  pipesOpen,     \* cmd.Wait has not closed the parent's ends of the pipes
  filled,        \* stdout lines that have reached readOutput's scanner
  lineRead,      \* stdout lines that readOutput has turned into chunks
  errRead,       \* stderr lines that readStderr has turned into chunks
  outReader,     \* readOutput: "reading", "failed" (a read error), "done"
  errReader,     \* readStderr: "reading", "done"
  waiter,        \* waitForExit: "wait", "join", "close", "done"
  alive,         \* Process.alive
  killed,        \* Process.cancel was called
  output,        \* the buffer of Process.output
  closed,        \* Process.output is closed
  dropped,       \* history: chunks thrown away because output was full
  forward,       \* the goroutine of Session.Send: "receive", "send", "done"
  held,          \* the chunk it holds between its receive and its send
  wrapped,       \* the buffer of the wrapped channel
  turn,          \* streamToUser: "reading", "left" after an error or the result, "closed"
  got            \* history: the chunks it has read

childVars == <<child, written, errWritten>>
readVars == <<filled, lineRead, errRead, outReader, errReader>>
outVars == <<output, dropped>>
fwdVars == <<forward, held, wrapped>>
turnVars == <<turn, got>>
vars == <<childVars, pipesOpen, readVars, waiter, alive, killed, outVars, closed,
          fwdVars, turnVars>>

TypeOK ==
  /\ child \in {"running", "ok", "failed"}
  /\ written \in 0..Lines /\ errWritten \in 0..ErrLines
  /\ pipesOpen \in BOOLEAN
  /\ filled \in 0..written /\ lineRead \in 0..filled /\ errRead \in 0..errWritten
  /\ outReader \in {"reading", "failed", "done"}
  /\ errReader \in {"reading", "done"}
  /\ waiter \in {"wait", "join", "close", "done"}
  /\ alive \in BOOLEAN /\ killed \in BOOLEAN /\ closed \in BOOLEAN
  /\ output \in Seq(Chunk) /\ Len(output) <= OutputCap
  /\ dropped \in SUBSET Chunk
  /\ forward \in {"receive", "send", "done"}
  /\ held \in Seq(Chunk) /\ Len(held) = (IF forward = "send" THEN 1 ELSE 0)
  /\ wrapped \in Seq(Chunk) /\ Len(wrapped) <= WrappedCap
  /\ turn \in {"reading", "left", "closed"}
  /\ got \in Seq(Chunk)

Init ==
  /\ child = "running" /\ written = 0 /\ errWritten = 0
  /\ pipesOpen = TRUE
  /\ filled = 0 /\ lineRead = 0 /\ errRead = 0
  /\ outReader = "reading" /\ errReader = "reading"
  /\ waiter = "wait"
  /\ alive = TRUE /\ killed = FALSE
  /\ output = <<>> /\ closed = FALSE /\ dropped = {}
  /\ forward = "receive" /\ held = <<>> /\ wrapped = <<>>
  /\ turn = "reading" /\ got = <<>>

-----------------------------------------------------------------------------
(* The child.                                                               *)

ChildWrites ==
  /\ child = "running"
  /\ \/ written < Lines /\ written' = written + 1 /\ UNCHANGED errWritten
     \/ errWritten < ErrLines /\ errWritten' = errWritten + 1 /\ UNCHANGED written
  /\ UNCHANGED <<child, pipesOpen, readVars, waiter, alive, killed, outVars, closed,
                 fwdVars, turnVars>>

\* It ends by itself, well or not, or because it was killed.
ChildExits ==
  /\ child = "running"
  /\ child' \in IF killed THEN {"failed"} ELSE {"ok", "failed"}
  /\ UNCHANGED <<written, errWritten, pipesOpen, readVars, waiter, alive, killed,
                 outVars, closed, fwdVars, turnVars>>

-----------------------------------------------------------------------------
(* readOutput, readStderr, waitForExit, Stop.                               *)

Push_Waits(c) ==
  /\ Len(output) < OutputCap
  /\ output' = Append(output, c) /\ dropped' = dropped

\* select with a default case: a full channel drops the chunk.
Push(c) ==
  IF Len(output) < OutputCap
    THEN output' = Append(output, c) /\ dropped' = dropped
    ELSE output' = output /\ dropped' = dropped \cup {c}

\* The scanner reads everything the pipe holds.
ScannerFills ==
  /\ outReader = "reading" /\ pipesOpen
  /\ filled = lineRead /\ filled < written
  /\ filled' = written
  /\ UNCHANGED <<childVars, pipesOpen, lineRead, errRead, outReader, errReader, waiter,
                 alive, killed, outVars, closed, fwdVars, turnVars>>

ReadLine_InGoroutine ==
  /\ outReader = "reading" /\ lineRead < filled
  /\ lineRead' = lineRead + 1
  /\ \E n \in 1..filled \ (ToSet(got \o wrapped \o held \o output) \cup dropped) : Push(n)
  /\ UNCHANGED <<childVars, pipesOpen, filled, errRead, outReader, errReader, waiter,
                 alive, killed, closed, fwdVars, turnVars>>

\* readOutput: the next line of the scanner becomes a chunk.
ReadLine ==
  /\ outReader = "reading" /\ lineRead < filled
  /\ lineRead' = lineRead + 1
  /\ Push(lineRead')
  /\ UNCHANGED <<childVars, pipesOpen, filled, errRead, outReader, errReader, waiter,
                 alive, killed, closed, fwdVars, turnVars>>

\* The next line is longer than the scanner's buffer, which is full before its end.
LineTooLong(done, count, max) == pipesOpen /\ (done < count \/ (child = "running" /\ count < max))

\* readOutput: the end of the pipe, or a read error: Wait has closed the pipe, or a line is
\* too long, with the child running and the pipe open.
ReadEnds ==
  /\ outReader = "reading" /\ lineRead = filled
  /\ \/ pipesOpen /\ child # "running" /\ filled = written /\ outReader' = "done"
     \/ ~ pipesOpen /\ outReader' = "failed"
     \/ LineTooLong(filled, written, Lines) /\ outReader' = "failed"
  /\ UNCHANGED <<childVars, pipesOpen, filled, lineRead, errRead, errReader, waiter,
                 alive, killed, outVars, closed, fwdVars, turnVars>>

\* readOutput's last section, under Process.mu, after a read error.
ReportReadError ==
  /\ outReader = "failed"
  /\ outReader' = "done"
  /\ IF alive THEN Push(ReadErrorChunk) ELSE UNCHANGED outVars
  /\ UNCHANGED <<childVars, pipesOpen, filled, lineRead, errRead, errReader, waiter,
                 alive, killed, closed, fwdVars, turnVars>>

\* readStderr: a line that is not a filtered diagnostic becomes an error chunk.
ReadErrLine ==
  /\ errReader = "reading" /\ pipesOpen /\ errRead < errWritten
  /\ errRead' = errRead + 1
  /\ Push(StderrChunk)
  /\ UNCHANGED <<childVars, pipesOpen, filled, lineRead, outReader, errReader, waiter,
                 alive, killed, closed, fwdVars, turnVars>>

\* readStderr reports no error, whatever ends it.
ReadErrEnds ==
  /\ errReader = "reading"
  /\ \/ ~ pipesOpen
     \/ child # "running" /\ errRead = errWritten
     \/ LineTooLong(errRead, errWritten, ErrLines)
  /\ errReader' = "done"
  /\ UNCHANGED <<childVars, pipesOpen, filled, lineRead, errRead, outReader, waiter,
                 alive, killed, outVars, closed, fwdVars, turnVars>>

(***************************************************************************)
(* cmd.Wait returns when the child has exited, and closes the parent's     *)
(* ends of both pipes: what they still hold is gone.                       *)
(***************************************************************************)
WaitReturns ==
  /\ waiter = "wait" /\ child # "running"
  /\ waiter' = "join"
  /\ pipesOpen' = FALSE
  /\ UNCHANGED <<childVars, readVars, alive, killed, outVars, closed, fwdVars, turnVars>>

ReadersDone_NotJoined == TRUE

ReadersDone == outReader = "done" /\ errReader = "done"

MarkDead_OnlyWhenAlive ==
  /\ waiter = "join" /\ ReadersDone /\ alive
  /\ waiter' = "close"
  /\ IF child = "failed" THEN Push(ExitErrorChunk) ELSE UNCHANGED outVars
  /\ alive' = FALSE
  /\ UNCHANGED <<childVars, pipesOpen, readVars, killed, closed, fwdVars, turnVars>>

\* waitForExit, under Process.mu once both readers are done.
MarkDead ==
  /\ waiter = "join" /\ ReadersDone
  /\ waiter' = "close"
  /\ IF alive /\ child = "failed" THEN Push(ExitErrorChunk) ELSE UNCHANGED outVars
  /\ alive' = FALSE
  /\ UNCHANGED <<childVars, pipesOpen, readVars, killed, closed, fwdVars, turnVars>>

CloseOutput ==
  /\ waiter = "close"
  /\ waiter' = "done"
  /\ closed' = TRUE
  /\ UNCHANGED <<childVars, pipesOpen, readVars, alive, killed, outVars, fwdVars, turnVars>>

\* Process.Stop on a live process.
Stop ==
  /\ alive
  /\ alive' = FALSE
  /\ killed' = TRUE
  /\ UNCHANGED <<childVars, pipesOpen, readVars, waiter, outVars, closed, fwdVars, turnVars>>

-----------------------------------------------------------------------------
(* The forwarding goroutine and the turn.                                   *)

ForwardReceives ==
  /\ forward = "receive" /\ output # <<>>
  /\ held' = <<Head(output)>>
  /\ output' = Tail(output)
  /\ forward' = "send"
  /\ UNCHANGED <<childVars, pipesOpen, readVars, waiter, alive, killed, closed, dropped,
                 wrapped, turnVars>>

\* A blocking send: with nobody reading, a full wrapped channel holds it for ever.
ForwardSends ==
  /\ forward = "send" /\ Len(wrapped) < WrappedCap
  /\ wrapped' = wrapped \o held
  /\ held' = <<>>
  /\ forward' = "receive"
  /\ UNCHANGED <<childVars, pipesOpen, readVars, waiter, alive, killed, outVars, closed,
                 turnVars>>

ForwardEnds_WhenDead ==
  /\ forward = "receive" /\ ~ alive
  /\ forward' = "done"
  /\ UNCHANGED <<childVars, pipesOpen, readVars, waiter, alive, killed, outVars, closed,
                 held, wrapped, turnVars>>

\* The channel is closed and drained: the session is removed, wrapped is closed.
ForwardEnds ==
  /\ forward = "receive" /\ closed /\ output = <<>>
  /\ forward' = "done"
  /\ UNCHANGED <<childVars, pipesOpen, readVars, waiter, alive, killed, outVars, closed,
                 held, wrapped, turnVars>>

\* streamToUser leaves its loop at the first error and at the result.
TurnReads ==
  /\ turn = "reading" /\ wrapped # <<>>
  /\ got' = Append(got, Head(wrapped))
  /\ wrapped' = Tail(wrapped)
  /\ turn' = IF Head(wrapped) \in ErrorChunk \cup {Lines} THEN "left" ELSE "reading"
  /\ UNCHANGED <<childVars, pipesOpen, readVars, waiter, alive, killed, outVars, closed,
                 forward, held>>

TurnSeesClose ==
  /\ turn = "reading" /\ wrapped = <<>> /\ forward = "done"
  /\ turn' = "closed"
  /\ UNCHANGED <<childVars, pipesOpen, readVars, waiter, alive, killed, outVars, closed,
                 fwdVars, got>>

-----------------------------------------------------------------------------
Reader == ScannerFills \/ ReadLine \/ ReadEnds \/ ReportReadError
ErrReader == ReadErrLine \/ ReadErrEnds
Waiter == WaitReturns \/ MarkDead \/ CloseOutput
Forwarder == ForwardReceives \/ ForwardSends \/ ForwardEnds
Receiver == TurnReads \/ TurnSeesClose

Next ==
  \/ ChildWrites \/ ChildExits \/ Stop
  \/ Reader \/ ErrReader \/ Waiter \/ Forwarder \/ Receiver

(***************************************************************************)
(* Every goroutine is scheduled and a killed child exits; a child that is  *)
(* not killed need do nothing.                                             *)
(***************************************************************************)
Fairness ==
  /\ WF_vars(Reader) /\ WF_vars(ErrReader) /\ WF_vars(Waiter)
  /\ WF_vars(Forwarder) /\ WF_vars(Receiver)
  /\ WF_vars(killed /\ ChildExits)

Spec == Init /\ [][Next]_vars /\ Fairness

-----------------------------------------------------------------------------
(* Safety.                                                                  *)

\* When output is closed nobody can send on it any more: both readers have ended and
\* waitForExit was the closer (procman.go:338-354).  A send would panic the program.
NoSendOnClosed ==
  closed => outReader = "done" /\ errReader = "done" /\ waiter = "done" /\ ~ alive

\* All chunks that are on their way, oldest first.
InFlight == got \o wrapped \o held \o output

\* Chunks may be dropped but never overtake one another: through two channels and
\* three goroutines the turn reads stdout lines in the order they were written.
InOrder ==
  \A i, j \in DOMAIN InFlight :
    i < j /\ {InFlight[i], InFlight[j]} \cap ErrorChunk = {} => InFlight[i] < InFlight[j]

\* A line that readOutput took is in one of the channels, with the turn, or dropped
\* because output was full, and when a turn has seen the channel closed it has read every
\* line but those.  Lines that readOutput never takes (Wait closed the pipe, or one was too
\* long) are not lost silently: when it has ended it has taken every line of a child that
\* will write no more, or it has pushed an error chunk (dropped if output was full for it
\* too), or the process was stopped (procman.go:282-304, 338).
LossAccounted ==
  /\ (ToSet(InFlight) \cup dropped) \ ErrorChunk = 1..lineRead
  /\ turn = "closed" => 1..lineRead \subseteq ToSet(got) \cup dropped
  /\ outReader = "done" =>
       \/ child # "running" /\ lineRead = written
       \/ ReadErrorChunk \in ToSet(InFlight) \cup dropped
       \/ killed

-----------------------------------------------------------------------------
(* Liveness.                                                                *)

\* After Stop the output channel is closed whether or not anybody reads it: readers
\* never wait for the channel, so waitForExit always gets past its join
\* (procman.go:286-289, 338-354).
StoppedCloses == killed ~> closed

\* A turn whose process was stopped comes to its end.
StoppedTurnEnds == killed ~> (turn # "reading")

-----------------------------------------------------------------------------
(* What comments and tests promise.                                         *)

\* procman.go:339: all stdout and stderr is consumed before the channel is closed.
AllConsumedBeforeClose == closed => lineRead = written /\ errRead = errWritten

\* procman_test.go:943-945: large outputs are handled without dropping chunks.
NothingDropped == dropped = {}

\* runner.go:136-138: when the process exits, the session is removed from the map.
AutoRemoved == closed ~> (forward = "done")
=============================================================================

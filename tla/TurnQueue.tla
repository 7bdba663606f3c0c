------------------------------ MODULE TurnQueue ------------------------------
(***************************************************************************)
(* What the router promises about messages, without processes, goroutines  *)
(* or snapshots: a message comes in, may wait in the line of its session,  *)
(* is taken from the HEAD of that line only, and is settled exactly once.  *)
(* Waiting messages are settled without a turn only all together, by /new. *)
(***************************************************************************)
EXTENDS Sequences, SequencesExt

CONSTANTS Msg, Session

VARIABLES
  status,  \* how far each message has come
  line     \* the messages waiting in each session, oldest first

tqVars == <<status, line>>

Status == {"new", "active", "waiting", "settled"}

TQInit ==
  /\ status = [m \in Msg |-> "new"]
  /\ line = [s \in Session |-> <<>>]

Moves(m, from, to) == status[m] = from /\ status' = [status EXCEPT ![m] = to]

\* The message reaches a session, or is refused because there is none.
Arrive(m) == Moves(m, "new", "active") /\ UNCHANGED line
Refuse(m) == Moves(m, "new", "settled") /\ UNCHANGED line

\* The agent is busy.
Wait(m, s) ==
  /\ Moves(m, "active", "waiting")
  /\ line' = [line EXCEPT ![s] = Append(@, m)]

\* A turn of the session has ended.
Take(s) ==
  /\ line[s] # <<>>
  /\ Moves(Head(line[s]), "waiting", "active")
  /\ line' = [line EXCEPT ![s] = Tail(@)]

SettleOne(m) == Moves(m, "active", "settled") /\ UNCHANGED line

\* /new ends the session: its line is emptied.
Clear(s) ==
  /\ line' = [line EXCEPT ![s] = <<>>]
  /\ status' = [m \in Msg |-> IF m \in ToSet(line[s]) THEN "settled" ELSE status[m]]

TQNext ==
  \/ \E s \in Session : Clear(s) \/ Take(s)
  \/ \E m \in Msg : Arrive(m) \/ Refuse(m) \/ SettleOne(m) \/ \E s \in Session : Wait(m, s)

TQSpec == TQInit /\ [][TQNext]_tqVars
=============================================================================

---------------------------- MODULE WecomChannel ----------------------------
(***************************************************************************)
(* The life of a bot's WebSocket (internal/channel/wecom/wecom.go): the    *)
(* goroutine readLoop, which alone dials again, every other goroutine that *)
(* writes on the connection (replies, acks, heartbeatLoop), Close, and the *)
(* callbacks that tell the gateway about the connection.                   *)
(*                                                                         *)
(* connMu makes one action of each locked section.  It is held while Close *)
(* closes "done", which readLoop also closes, without it: these two are    *)
(* split into the test and the close.  Authentication is part of dialing.  *)
(* A socket whose peer is gone or silent is "broken": the read deadline    *)
(* turns silence into a read error.                                        *)
(***************************************************************************)
EXTENDS Integers, FiniteSets

CONSTANTS
  Chan,         \* Channel objects; each is connected once
  MaxSocket,    \* bound on the sockets a channel may obtain
  MaxAttempts   \* maxReconnectAttempts (10 in the code)

ASSUME ChannelConstants == MaxSocket \in Nat \ {0} /\ MaxAttempts \in Nat

VARIABLES
  stage,      \* "new", "opened" (Connect returned nil), "failed"
  socket,     \* state of every socket of a channel
  conn,       \* Channel.conn: the number of a socket, or 0 for nil
  connected,  \* Channel.connected
  cancelled,  \* Channel.ctx is done
  done,       \* how often Channel.done was closed; the second time panics
  reader,     \* where readLoop is
  mine,       \* readLoop's local conn
  attempt,    \* readLoop's local attempt
  tries,      \* the argument of reconnect
  closer,     \* where Close is
  notices,    \* callbacks started and not delivered yet
  told        \* what the callback started last says: history

cvars == <<stage, socket, conn, connected, cancelled, done, reader, mine, attempt, tries,
           closer, notices, told>>

Socket == 1..MaxSocket
SocketState == {"none", "sound", "broken", "shut"}
ReaderLabel == {"none", "top", "load", "read", "failed", "wait", "dial", "exit",
                "closing", "gone"}
CloserLabel == {"no", "cancelled", "closing", "closed"}

TypeOK ==
  /\ stage \in [Chan -> {"new", "opened", "failed"}]
  /\ socket \in [Chan -> [Socket -> SocketState]]
  /\ conn \in [Chan -> 0..MaxSocket]
  /\ connected \in [Chan -> BOOLEAN] /\ cancelled \in [Chan -> BOOLEAN]
  /\ done \in [Chan -> 0..2]
  /\ reader \in [Chan -> ReaderLabel]
  /\ mine \in [Chan -> 0..MaxSocket]
  /\ attempt \in [Chan -> 0..(MaxAttempts + 2)]
  /\ tries \in [Chan -> 0..(MaxAttempts + 1)]
  /\ closer \in [Chan -> CloserLabel]
  /\ notices \in [Chan -> [BOOLEAN -> Nat]]
  /\ told \in [Chan -> BOOLEAN]

ChannelInit ==
  /\ stage = [c \in Chan |-> "new"]
  /\ socket = [c \in Chan |-> [n \in Socket |-> "none"]]
  /\ conn = [c \in Chan |-> 0]
  /\ connected = [c \in Chan |-> FALSE] /\ cancelled = [c \in Chan |-> FALSE]
  /\ done = [c \in Chan |-> 0]
  /\ reader = [c \in Chan |-> "none"]
  /\ mine = [c \in Chan |-> 0]
  /\ attempt = [c \in Chan |-> 0] /\ tries = [c \in Chan |-> 0]
  /\ closer = [c \in Chan |-> "no"]
  /\ notices = [c \in Chan |-> [up \in BOOLEAN |-> 0]]
  /\ told = [c \in Chan |-> FALSE]

\* Nobody holds connMu between two actions but Close.
MuFree(c) == closer[c] # "closing"

ReaderAt(c, label) == reader[c] = label
ReaderGoto(c, label) == reader' = [reader EXCEPT ![c] = label]

\* go c.connChangeHandler(up)
Notify(c, up) ==
  /\ notices' = [notices EXCEPT ![c][up] = @ + 1]
  /\ told' = [told EXCEPT ![c] = up]

-----------------------------------------------------------------------------
(* connect, markBrokenLocked.                                               *)

\* A new socket is subscribed and becomes the connection.
Dialed(c) ==
  /\ \E n \in Socket :
       /\ socket[c][n] = "none" /\ \A k \in 1..(n - 1) : socket[c][k] # "none"
       /\ socket' = [socket EXCEPT ![c][n] = "sound"]
       /\ conn' = [conn EXCEPT ![c] = n]
  /\ connected' = [connected EXCEPT ![c] = TRUE]
  /\ Notify(c, TRUE)

Drop_KeepsConn(c) ==
  /\ socket' = IF conn[c] = 0 THEN socket ELSE [socket EXCEPT ![c][conn[c]] = "shut"]
  /\ conn' = conn
  /\ connected' = [connected EXCEPT ![c] = FALSE]

\* The connection, if there is one, is closed and forgotten.
Drop(c) ==
  /\ socket' = IF conn[c] = 0 THEN socket ELSE [socket EXCEPT ![c][conn[c]] = "shut"]
  /\ conn' = [conn EXCEPT ![c] = 0]
  /\ connected' = [connected EXCEPT ![c] = FALSE]

DropAndNotify_Always(c) == Drop(c) /\ Notify(c, FALSE)

\* The callback is started only when the channel was connected.
DropAndNotify(c) ==
  /\ Drop(c)
  /\ IF connected[c] THEN Notify(c, FALSE) ELSE UNCHANGED <<notices, told>>

-----------------------------------------------------------------------------
(* Connect, the writers, the network.                                       *)

ConnectOK(c) ==
  /\ stage[c] = "new"
  /\ stage' = [stage EXCEPT ![c] = "opened"]
  /\ Dialed(c)
  /\ ReaderGoto(c, "top")
  /\ UNCHANGED <<cancelled, done, mine, attempt, tries, closer>>

ConnectFails(c) ==
  /\ stage[c] = "new"
  /\ stage' = [stage EXCEPT ![c] = "failed"]
  /\ UNCHANGED <<socket, conn, connected, cancelled, done, reader, mine, attempt, tries,
                 closer, notices, told>>

\* sendReply, sendProactive, sendCmdWait, sendImageReply or sendPing finds the
\* connection broken; a write that gets through changes nothing here.
WriteFails(c) ==
  /\ MuFree(c) /\ connected[c] /\ conn[c] # 0
  /\ socket[c][conn[c]] = "broken"
  /\ DropAndNotify(c)
  /\ UNCHANGED <<stage, cancelled, done, reader, mine, attempt, tries, closer>>

Breaks(c) ==
  /\ \E n \in Socket :
       /\ socket[c][n] = "sound"
       /\ socket' = [socket EXCEPT ![c][n] = "broken"]
  /\ UNCHANGED <<stage, conn, connected, cancelled, done, reader, mine, attempt, tries,
                 closer, notices, told>>

-----------------------------------------------------------------------------
(* readLoop.                                                                *)

ReaderTop(c) ==
  /\ ReaderAt(c, "top")
  /\ ReaderGoto(c, IF cancelled[c] THEN "exit" ELSE "load")
  /\ UNCHANGED <<stage, socket, conn, connected, cancelled, done, mine, attempt, tries,
                 closer, notices, told>>

ReaderLoads_NilSpins(c) ==
  /\ ReaderAt(c, "load") /\ MuFree(c)
  /\ mine' = [mine EXCEPT ![c] = conn[c]]
  /\ ReaderGoto(c, IF conn[c] # 0 THEN "read" ELSE "top")
  /\ UNCHANGED <<stage, socket, conn, connected, cancelled, done, attempt, tries, closer,
                 notices, told>>

\* A writer has dropped the connection, or there is one to read from.
ReaderLoads(c) ==
  /\ ReaderAt(c, "load") /\ MuFree(c)
  /\ IF conn[c] # 0
       THEN /\ mine' = [mine EXCEPT ![c] = conn[c]]
            /\ ReaderGoto(c, "read")
            /\ UNCHANGED <<attempt, tries>>
       ELSE /\ tries' = [tries EXCEPT ![c] = attempt[c]]
            /\ attempt' = [attempt EXCEPT ![c] = 0]
            /\ ReaderGoto(c, "wait")
            /\ UNCHANGED mine
  /\ UNCHANGED <<stage, socket, conn, connected, cancelled, done, closer, notices, told>>

\* A message is read and handed to a goroutine of its own.
ReadOK(c) ==
  /\ ReaderAt(c, "read")
  /\ socket[c][mine[c]] = "sound"
  /\ attempt' = [attempt EXCEPT ![c] = 0]
  /\ ReaderGoto(c, "top")
  /\ UNCHANGED <<stage, socket, conn, connected, cancelled, done, mine, tries, closer,
                 notices, told>>

ReadError(c) ==
  /\ ReaderAt(c, "read")
  /\ socket[c][mine[c]] \in {"broken", "shut"}
  /\ ReaderGoto(c, "failed")
  /\ UNCHANGED <<stage, socket, conn, connected, cancelled, done, mine, attempt, tries,
                 closer, notices, told>>

\* The locked section after a read error; then reconnect(attempt), and attempt++.
ReaderDrops(c) ==
  /\ ReaderAt(c, "failed") /\ MuFree(c)
  /\ DropAndNotify(c)
  /\ tries' = [tries EXCEPT ![c] = attempt[c]]
  /\ attempt' = [attempt EXCEPT ![c] = @ + 1]
  /\ ReaderGoto(c, "wait")
  /\ UNCHANGED <<stage, cancelled, done, mine, closer>>

-----------------------------------------------------------------------------
(* reconnect, and the end of readLoop.                                      *)

GivesUp(c) ==
  /\ ReaderAt(c, "wait")
  /\ tries[c] > MaxAttempts \/ cancelled[c]
  /\ ReaderGoto(c, "exit")
  /\ UNCHANGED <<stage, socket, conn, connected, cancelled, done, mine, attempt, tries,
                 closer, notices, told>>

(***************************************************************************)
(* The delay is over.  When the context is done as well, select takes      *)
(* either case; that needs a delay of zero, or a timer that fired first,   *)
(* which is a cancellation after this action.                              *)
(***************************************************************************)
DelayOver(c) ==
  /\ ReaderAt(c, "wait")
  /\ tries[c] <= MaxAttempts
  /\ cancelled[c] => tries[c] = 0
  /\ ReaderGoto(c, "dial")
  /\ UNCHANGED <<stage, socket, conn, connected, cancelled, done, mine, attempt, tries,
                 closer, notices, told>>

\* connect does not look at the context again.
RedialOK(c) ==
  /\ ReaderAt(c, "dial") /\ MuFree(c)
  /\ Dialed(c)
  /\ ReaderGoto(c, "top")
  /\ UNCHANGED <<stage, cancelled, done, mine, attempt, tries, closer>>

RedialFails(c) ==
  /\ ReaderAt(c, "dial") /\ MuFree(c)
  /\ tries' = [tries EXCEPT ![c] = @ + 1]
  /\ ReaderGoto(c, "wait")
  /\ UNCHANGED <<stage, socket, conn, connected, cancelled, done, mine, attempt, closer,
                 notices, told>>

\* The deferred function: done is tested, and closed in a second step.
ReaderExits(c) ==
  \/ /\ ReaderAt(c, "exit")
     /\ ReaderGoto(c, IF done[c] = 0 THEN "closing" ELSE "gone")
     /\ UNCHANGED <<stage, socket, conn, connected, cancelled, done, mine, attempt, tries,
                    closer, notices, told>>
  \/ /\ ReaderAt(c, "closing")
     /\ ReaderGoto(c, "gone")
     /\ done' = [done EXCEPT ![c] = @ + 1]
     /\ UNCHANGED <<stage, socket, conn, connected, cancelled, mine, attempt, tries, closer,
                    notices, told>>

-----------------------------------------------------------------------------
(* Close.  It tells nobody.                                                 *)

CloseCancels(c) ==
  /\ stage[c] = "opened" /\ closer[c] = "no"
  /\ cancelled' = [cancelled EXCEPT ![c] = TRUE]
  /\ closer' = [closer EXCEPT ![c] = "cancelled"]
  /\ UNCHANGED <<stage, socket, conn, connected, done, reader, mine, attempt, tries,
                 notices, told>>

CloseDrops_Forgets(c) ==
  /\ closer[c] = "cancelled"
  /\ conn' = [conn EXCEPT ![c] = 0]
  /\ connected' = [connected EXCEPT ![c] = FALSE]
  /\ closer' = [closer EXCEPT ![c] = IF done[c] = 0 THEN "closing" ELSE "closed"]
  /\ UNCHANGED <<stage, socket, cancelled, done, reader, mine, attempt, tries, notices, told>>

CloseDrops(c) ==
  /\ closer[c] = "cancelled"
  /\ Drop(c)
  /\ closer' = [closer EXCEPT ![c] = IF done[c] = 0 THEN "closing" ELSE "closed"]
  /\ UNCHANGED <<stage, cancelled, done, reader, mine, attempt, tries, notices, told>>

CloseEnds(c) ==
  /\ closer[c] = "closing"
  /\ done' = [done EXCEPT ![c] = @ + 1]
  /\ closer' = [closer EXCEPT ![c] = "closed"]
  /\ UNCHANGED <<stage, socket, conn, connected, cancelled, reader, mine, attempt, tries,
                 notices, told>>

-----------------------------------------------------------------------------
Reader(c) ==
  \/ ReaderTop(c) \/ ReaderLoads(c) \/ ReadError(c) \/ ReaderDrops(c)
  \/ GivesUp(c) \/ DelayOver(c) \/ RedialOK(c) \/ RedialFails(c) \/ ReaderExits(c)

Close(c) == CloseCancels(c) \/ CloseDrops(c) \/ CloseEnds(c)

Delivered(c, up) ==
  /\ notices[c][up] > 0
  /\ notices' = [notices EXCEPT ![c][up] = @ - 1]
  /\ UNCHANGED <<stage, socket, conn, connected, cancelled, done, reader, mine, attempt,
                 tries, closer, told>>

\* What nobody has to ask for.
Environment(c) == WriteFails(c) \/ Breaks(c) \/ ReadOK(c)

ChannelNext ==
  \E c \in Chan :
    \/ ConnectOK(c) \/ ConnectFails(c)
    \/ Environment(c) \/ Reader(c) \/ Close(c)
    \/ \E up \in BOOLEAN : Delivered(c, up)

\* readLoop is scheduled, a read error is noticed (read deadline), a dial ends (its
\* timeouts), and a Close that began goes on.
ChannelFairness ==
  \A c \in Chan :
    /\ WF_cvars(Reader(c))
    /\ WF_cvars(CloseDrops(c) \/ CloseEnds(c))

ChannelSpec == ChannelInit /\ [][ChannelNext]_cvars /\ ChannelFairness

-----------------------------------------------------------------------------
(* Safety.                                                                  *)

Open(c) == {n \in Socket : socket[c][n] \in {"sound", "broken"}}

\* A socket that is open is Channel.conn: whoever drops the connection closes it, and
\* readLoop never dials over one (wecom.go:132-134, 604-607, 645-650, 545).
NoLeakedSocket == \A c \in Chan : Open(c) \subseteq {conn[c]}

\* While readLoop waits to reconnect or dials, there is no connection: no writer and no
\* Close brings one back, and none is overwritten (wecom.go:641-657).
ReconnectsFromNothing ==
  \A c \in Chan : reader[c] \in {"wait", "dial"} => conn[c] = 0 /\ ~ connected[c]

\* Whichever of the reader and the writers changes "connected" starts one callback that
\* says so, and it says the opposite of the one started before it, beginning with
\* "connected".  The one exception is the silent Close: it changes "connected" without a
\* callback, so a redial that Close did not stop tells "connected" twice in a row
\* (wecom.go:155-190, 609-613, 650-655).  This is the order in which the callbacks are
\* started; being goroutines, they may still overtake one another.
NoticesAlternate ==
  [][\A c \in Chan :
       /\ \A up \in BOOLEAN : notices'[c][up] > notices[c][up] =>
            /\ connected[c] # up /\ connected'[c] = up
            /\ told[c] # up \/ (up /\ closer[c] = "closed")
       /\ connected'[c] # connected[c] =>
            \/ notices'[c][connected'[c]] = notices[c][connected'[c]] + 1
            \/ closer[c] = "cancelled" /\ closer'[c] # "cancelled"]_cvars

-----------------------------------------------------------------------------
(* Liveness.                                                                *)

\* A connection that is lost is noticed, however it was lost, and readLoop either gets a
\* new one or gives up for good (wecom.go:629-671, 678-700).
LostIsRepairedOrGivenUp ==
  \A c \in Chan :
    (stage[c] = "opened" /\ (conn[c] = 0 \/ socket[c][conn[c]] = "broken"))
      ~> (reader[c] = "gone" \/ (conn[c] # 0 /\ socket[c][conn[c]] = "sound"))

-----------------------------------------------------------------------------
(* What the comments promise.                                               *)

\* wecom.go:155: Close closes the WebSocket connection; channel.go:88: IsConnected tells
\* whether the connection is currently active.  So a closed channel is not connected.
ClosedIsNotConnected == \A c \in Chan : closer[c] = "closed" => ~ connected[c]

\* wecom.go:622-624: done is not closed when it is closed already.
DoneClosedOnce == \A c \in Chan : done[c] <= 1
=============================================================================

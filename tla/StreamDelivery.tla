---------------------------- MODULE StreamDelivery ----------------------------
(***************************************************************************)
(* How the output of an agent reaches the user: router.streamToUser with   *)
(* sendStreamReply, over the sending side of a bot's channel (sendReply,   *)
(* markBrokenLocked and the first section of dispatchAck in wecom.go).     *)
(*                                                                         *)
(* A turn updates one chat bubble by stream frames.  The server may stop   *)
(* accepting frames of a stream ("expired"); its rejection arrives after   *)
(* the frame was written, is kept in ONE slot of the channel, and makes    *)
(* the next frame of that stream fail.  The turn then marks the stream     *)
(* broken and sends the answer as a message of its own at the end.  Any    *)
(* other rejection of a frame is kept nowhere, and the answer to the       *)
(* message of its own is waited for and then ignored.                      *)
(* Contents are reduced to what they are for; the price, the queue mark    *)
(* and the clock of a frame, the "done" notification and the history rows  *)
(* are left out, and a question of the agent is in module Router.          *)
(***************************************************************************)
EXTENDS Integers, FiniteSets

CONSTANTS
  Turn,        \* turns on one channel, by the request they answer
  None,
  MaxChunks,   \* bound on the text chunks of a turn
  MaxTimeouts  \* bound on the ten-minute warnings of a turn

ASSUME DeliveryConstants ==
  /\ None \notin Turn
  /\ MaxChunks \in Nat /\ MaxTimeouts \in Nat

VARIABLES
  link,       \* Channel.connected
  expired,    \* streams the server does not accept any more
  rejects,    \* rejected frames whose answer is under way
  streamErr,  \* streamErrReqID
  stopped,    \* interruptedSessions
  pc,         \* where a turn is
  local,      \* its local variables
  chunks,     \* chunks and warnings it has seen
  bubble,     \* what the chat bubble of the turn shows
  pushed,     \* turns whose answer was written as a message of its own
  noticed,    \* history: a frame failed whose failure streamToUser looks at
  last,       \* history: what the last message of a turn was to tell the user
  refused,    \* history: it was refused although the channel was connected
  unlinked,   \* history: there was no connection for it
  missed,     \* history: the last frame written was rejected otherwise, or lost on its way
  unanswered  \* history: the server refused the message, or did not acknowledge it in time

netVars == <<link, expired, rejects, streamErr>>
seenVars == <<bubble, pushed, noticed, last, refused, unlinked, missed, unanswered>>
dvars == <<netVars, stopped, pc, local, chunks, seenVars>>

Local == [broken : BOOLEAN, had : BOOLEAN, text : BOOLEAN, full : BOOLEAN]

Shown == {"nothing", "spinner", "text", "warning", "answer", "error", "stopped",
          "no response"}

DeliveryTypeOK ==
  /\ link \in BOOLEAN
  /\ expired \subseteq Turn /\ rejects \subseteq expired
  /\ streamErr \in expired \cup {None}
  /\ stopped \subseteq Turn
  /\ pc \in [Turn -> {"new", "loop", "done", "again", "end"}]
  /\ local \in [Turn -> Local]
  /\ chunks \in [Turn -> [text : 0..MaxChunks, warn : 0..MaxTimeouts]]
  /\ bubble \in [Turn -> Shown]
  /\ pushed \subseteq Turn /\ noticed \subseteq Turn
  /\ last \in [Turn -> Shown]
  /\ refused \subseteq Turn /\ unlinked \subseteq Turn
  /\ missed \subseteq Turn /\ unanswered \subseteq pushed
  /\ \A t \in Turn : local[t].text \/ local[t].full => local[t].had

DeliveryInit ==
  /\ link = TRUE /\ expired = {} /\ rejects = {} /\ streamErr = None
  /\ stopped = {}
  /\ pc = [t \in Turn |-> "new"]
  /\ local = [t \in Turn |-> [broken |-> FALSE, had |-> FALSE, text |-> FALSE, full |-> FALSE]]
  /\ chunks = [t \in Turn |-> [text |-> 0, warn |-> 0]]
  /\ bubble = [t \in Turn |-> "nothing"]
  /\ last = [t \in Turn |-> "nothing"]
  /\ pushed = {} /\ noticed = {} /\ refused = {} /\ unlinked = {}
  /\ missed = {} /\ unanswered = {}

At(t, label) == pc[t] = label
Goto(t, label) == pc' = [pc EXCEPT ![t] = label]

-----------------------------------------------------------------------------
(* One frame: sendStreamReply and Channel.sendReply.                        *)

\* Written, which is all that the turn sees.  A stream that has expired shows nothing new and
\* is rejected later; any other frame is shown, or it is missed: the server rejects it with
\* a code that dispatchAck does not keep, or it is lost with its connection.
FrameWritten(t, what) ==
  /\ link /\ streamErr # t
  /\ \/ t \in expired /\ rejects' = rejects \cup {t} /\ UNCHANGED <<bubble, missed>>
     \/ /\ t \notin expired /\ rejects' = rejects
        /\ \/ bubble' = [bubble EXCEPT ![t] = what] /\ missed' = missed \ {t}
           \/ bubble' = bubble /\ missed' = missed \cup {t}
  /\ UNCHANGED <<link, expired, streamErr>>

\* No connection, or the rejection of an earlier frame, which is forgotten by this,
\* or a write error, which drops the connection.
FrameRefused(t) ==
  /\ \/ ~ link /\ UNCHANGED <<link, streamErr>>
     \/ link /\ streamErr = t /\ streamErr' = None /\ UNCHANGED link
     \/ link /\ streamErr # t /\ link' = FALSE /\ UNCHANGED streamErr
  /\ UNCHANGED <<expired, rejects, bubble, missed>>

\* A frame whose failure marks the stream as broken.
Refresh_ClearsBroken(t, what, seen) ==
  \/ /\ FrameWritten(t, what)
     /\ local' = [local EXCEPT ![t] = [seen EXCEPT !.broken = FALSE]]
     /\ UNCHANGED noticed
  \/ /\ FrameRefused(t)
     /\ local' = [local EXCEPT ![t] = [seen EXCEPT !.broken = TRUE]]
     /\ noticed' = noticed \cup {t}

Refresh(t, what, seen) ==
  \/ /\ FrameWritten(t, what)
     /\ local' = [local EXCEPT ![t] = seen]
     /\ UNCHANGED noticed
  \/ /\ FrameRefused(t)
     /\ local' = [local EXCEPT ![t] = [seen EXCEPT !.broken = TRUE]]
     /\ noticed' = noticed \cup {t}

\* A finish frame whose failure nobody looks at.
LastFrame(t, what) ==
  /\ \/ FrameWritten(t, what) /\ UNCHANGED <<refused, unlinked>>
     \/ /\ FrameRefused(t)
        /\ refused' = IF link /\ link' THEN refused \cup {t} ELSE refused
        /\ unlinked' = IF link /\ link' THEN unlinked ELSE unlinked \cup {t}
  /\ last' = [last EXCEPT ![t] = what]
  /\ Goto(t, "end")
  /\ UNCHANGED <<local, chunks, pushed, noticed, unanswered>>

-----------------------------------------------------------------------------
(* The loop.                                                                *)

Begin(t) ==
  /\ At(t, "new")
  /\ Refresh(t, "spinner", local[t])
  /\ Goto(t, "loop")
  /\ UNCHANGED <<stopped, chunks, pushed, last, refused, unlinked,
                 unanswered>>

\* A text chunk is shown at once, on a broken stream too.
ChunkText(t) ==
  /\ At(t, "loop")
  /\ chunks[t].text < MaxChunks
  /\ chunks' = [chunks EXCEPT ![t].text = @ + 1]
  /\ Refresh(t, "text", [local[t] EXCEPT !.had = TRUE, !.text = TRUE])
  /\ UNCHANGED <<stopped, pc, pushed, last, refused, unlinked,
                 unanswered>>

\* The result, which may be empty, leaves the loop.
ChunkFinal(t) ==
  /\ At(t, "loop")
  /\ \E answer \in BOOLEAN :
       local' = [local EXCEPT ![t].had = TRUE, ![t].full = answer]
  /\ Goto(t, "done")
  /\ UNCHANGED <<netVars, stopped, chunks, seenVars>>

ChunkError(t) ==
  /\ At(t, "loop")
  /\ LastFrame(t, "error")
  /\ UNCHANGED stopped

OutputClosed(t) ==
  /\ At(t, "loop")
  /\ Goto(t, "done")
  /\ UNCHANGED <<netVars, stopped, local, chunks, seenVars>>

\* The ticker keeps the bubble alive, and finds out that the stream has expired.
Ticker(t) ==
  /\ At(t, "loop") /\ ~ local[t].broken
  /\ Refresh(t, IF local[t].text THEN "text" ELSE "spinner", local[t])
  /\ UNCHANGED <<stopped, pc, chunks, pushed, last, refused, unlinked,
                 unanswered>>

\* The ten-minute warning: nobody looks at its failure, which eats the rejection.
Timeout(t) ==
  /\ At(t, "loop") /\ ~ local[t].broken
  /\ chunks[t].warn < MaxTimeouts
  /\ chunks' = [chunks EXCEPT ![t].warn = @ + 1]
  /\ FrameWritten(t, "warning") \/ FrameRefused(t)
  /\ UNCHANGED <<stopped, pc, local, pushed, noticed, last, refused, unlinked, unanswered>>

-----------------------------------------------------------------------------
(* The section after "done:".                                               *)

HasAnswer(t) == local[t].text \/ local[t].full

\* The flag of /stop wins over whatever was received; a failing frame is repeated
\* as a plain reply to the same request.
DoneStopped(t) ==
  /\ At(t, "done") /\ t \in stopped
  /\ stopped' = stopped \ {t}
  /\ \/ FrameWritten(t, "stopped") /\ Goto(t, "end")
     \/ FrameRefused(t) /\ Goto(t, "again")
  /\ last' = [last EXCEPT ![t] = "stopped"]
  /\ UNCHANGED <<local, chunks, pushed, noticed, refused, unlinked, unanswered>>

StoppedAgain(t) ==
  /\ At(t, "again")
  /\ LastFrame(t, "stopped")
  /\ UNCHANGED stopped

DoneNoContent(t) ==
  /\ At(t, "done") /\ t \notin stopped
  /\ ~ local[t].had
  /\ LastFrame(t, "no response")
  /\ UNCHANGED stopped

DoneByFrame(t) ==
  /\ At(t, "done") /\ t \notin stopped
  /\ local[t].had /\ ~ local[t].broken
  /\ LastFrame(t, "answer")
  /\ UNCHANGED stopped

\* SendMessage: no connection or a write error; or it is written, and SendMessage waits for
\* the acknowledgement and returns a refusal or a timeout, which streamToUser ignores.
PushAnswer(t) ==
  \/ /\ link /\ pushed' = pushed \cup {t}
     /\ unanswered' \in {unanswered, unanswered \cup {t}}
     /\ UNCHANGED <<link, unlinked>>
  \/ link' = FALSE /\ unlinked' = unlinked \cup {t} /\ UNCHANGED <<pushed, unanswered>>

DoneByPush_TextOnly(t) ==
  /\ At(t, "done") /\ t \notin stopped
  /\ local[t].had /\ local[t].broken
  /\ Goto(t, "end")
  /\ last' = [last EXCEPT ![t] = "answer"]
  /\ IF local[t].text
       THEN PushAnswer(t)
       ELSE UNCHANGED <<link, pushed, unlinked, unanswered>>
  /\ UNCHANGED <<expired, rejects, streamErr, stopped, local, chunks, bubble, noticed, refused,
                 missed>>

\* The stream is broken: the answer, if there is one, goes out as a message.
DoneByPush(t) ==
  /\ At(t, "done") /\ t \notin stopped
  /\ local[t].had /\ local[t].broken
  /\ Goto(t, "end")
  /\ last' = [last EXCEPT ![t] = "answer"]
  /\ IF HasAnswer(t)
       THEN PushAnswer(t)
       ELSE UNCHANGED <<link, pushed, unlinked, unanswered>>
  /\ UNCHANGED <<expired, rejects, streamErr, stopped, local, chunks, bubble, noticed, refused,
                 missed>>

-----------------------------------------------------------------------------
(* /stop, the network and the server.                                       *)

StopCommand(t) ==
  /\ At(t, "loop") /\ t \notin stopped
  /\ stopped' = stopped \cup {t}
  /\ UNCHANGED <<netVars, pc, local, chunks, seenVars>>

\* readLoop drops the connection after a read error, or has dialled anew.
Relinked ==
  /\ link' = ~ link
  /\ UNCHANGED <<expired, rejects, streamErr, stopped, pc, local, chunks, seenVars>>

Expires(t) ==
  /\ t \notin expired
  /\ expired' = expired \cup {t}
  /\ UNCHANGED <<link, rejects, streamErr, stopped, pc, local, chunks, seenVars>>

Rejected_Ignored(t) ==
  /\ t \in rejects
  /\ rejects' = rejects \ {t}
  /\ UNCHANGED <<link, expired, streamErr, stopped, pc, local, chunks, seenVars>>

\* dispatchAck with error 846608: the slot holds the last rejected stream only.
Rejected(t) ==
  /\ t \in rejects
  /\ rejects' = rejects \ {t}
  /\ streamErr' = t
  /\ UNCHANGED <<link, expired, stopped, pc, local, chunks, seenVars>>

-----------------------------------------------------------------------------
Agent(t) == ChunkText(t) \/ ChunkFinal(t) \/ ChunkError(t) \/ OutputClosed(t)
Done(t) ==
  DoneStopped(t) \/ StoppedAgain(t) \/ DoneNoContent(t) \/ DoneByFrame(t) \/ DoneByPush(t)

DeliveryNext ==
  \/ \E t \in Turn :
       \/ Begin(t) \/ Agent(t) \/ Ticker(t) \/ Timeout(t) \/ Done(t) \/ StopCommand(t)
       \/ Expires(t) \/ Rejected(t)
  \/ Relinked

\* The ticker fires and the server answers every frame; the agent need do nothing.
DeliveryFairness ==
  \A t \in Turn : WF_dvars(Begin(t)) /\ WF_dvars(Ticker(t)) /\ WF_dvars(Done(t))
                    /\ WF_dvars(Rejected(t))

DeliverySpec == DeliveryInit /\ [][DeliveryNext]_dvars /\ DeliveryFairness

-----------------------------------------------------------------------------
(* Properties.                                                              *)

\* Once any refresh of a turn has failed, its answer is written as a message of its own,
\* unless there is no connection at that moment or the turn ended by an error or /stop:
\* frames that get through afterwards do not bring the stream back (handler.go:554, 619,
\* 653-666).
NoticedIsPushed ==
  \A t \in noticed : last[t] = "answer" /\ HasAnswer(t) => t \in pushed \cup unlinked

\* An answer that the agent gave is shown, in the bubble or as a message, unless nobody looks
\* at what became of it: there is no connection at that moment; the message was refused or not
\* acknowledged in time; or no refresh has failed, so that a finish frame is sent, which is
\* written in vain or refused on an expired stream, or is rejected for another reason or lost
\* on its way.  With a refresh that failed, an expired stream loses no answer by itself
\* (handler.go:653-676, wecom.go:285-293, 465-495).
LostOnlyUnnoticed ==
  \A t \in Turn :
    At(t, "end") /\ last[t] = "answer" /\ HasAnswer(t) =>
      \/ t \in pushed \ unanswered \/ bubble[t] = "answer"
      \/ t \in unlinked \cup unanswered
      \/ t \in (expired \cup missed) \ noticed

\* A stream that has expired is found out while its turn waits for the agent: the
\* ticker writes, is rejected, and its next frame fails, although a warning may eat
\* the rejection (handler.go:602-622, wecom.go:197-205).  With two expired
\* streams on one channel it does not hold: each keeps overwriting the other's slot.
ExpiredIsNoticed ==
  \A t \in Turn :
    (At(t, "loop") /\ t \in expired) ~> (local[t].broken \/ ~ At(t, "loop"))

-----------------------------------------------------------------------------
(* What the comments promise.                                               *)

\* router.go:55-56: on stream failure the content can be resent as a regular message, so
\* an answer whose last frame is refused by a connected channel is sent as a message.
RefusedIsResent ==
  \A t \in refused : last[t] = "answer" /\ HasAnswer(t) => t \in pushed
=============================================================================

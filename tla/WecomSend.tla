------------------------------ MODULE WecomSend ------------------------------
(***************************************************************************)
(* Sending on a bot's WebSocket and matching the answers of the server     *)
(* (internal/channel/wecom/wecom.go): proactive messages, which wait for   *)
(* an ack; the commands of an image upload, which wait for a response      *)
(* body; and frames of a stream reply, which wait for nothing, but whose   *)
(* late rejection (error 846608) makes the next frame fail.                *)
(*                                                                         *)
(* Every frame read from the socket is dispatched in a goroutine of its    *)
(* own, so answers overtake one another, and the locks of dispatchAck      *)
(* (streamErrMu, uploadMu, ackMu) are taken one after the other.  Whether  *)
(* the socket is up is one variable; WecomChannel has its life.            *)
(***************************************************************************)
EXTENDS Integers, Sequences, FiniteSets

CONSTANTS
  Proactive,  \* callers of sendProactive
  Upload,     \* callers of SendImage
  Stream,     \* request identifiers of incoming messages, for stream replies
  Cmds,       \* commands of one upload: init, the chunks, finish
  MaxAcks,    \* bound on the answers the server gives to one request
  MaxAnswers, \* bound on the answers it gives in all
  None

ASSUME SendConstants ==
  Cmds \in Nat \ {0} /\ MaxAcks \in Nat \ {0} /\ MaxAnswers \in Nat

\* Request identifiers: nextReqID gives every command its own.
SendReq(p) == <<"send", p>>
UploadReq(u, i) == <<"upload", u, i>>
StreamReq(s) == <<"stream", s>>

SendReqs == {SendReq(p) : p \in Proactive}
UploadReqs == {UploadReq(u, i) : u \in Upload, i \in 1..Cmds}
StreamReqs == {StreamReq(s) : s \in Stream}
Req == SendReqs \cup UploadReqs \cup StreamReqs

\* The k-th answer to a request.
Frame == Req \X (1..MaxAcks)
ReqOf(f) == f[1]

VARIABLES
  connected,   \* Channel.connected
  awaiting,    \* requests the server has received on the present connection
  pending,     \* pendingAcks
  ackCh,       \* the channel of capacity 1 that a waiter receives from
  resps,       \* requests with a body in uploadResps
  streamErr,   \* streamErrReqID
  frame,       \* where the goroutine of an answer is
  code,        \* what the answer says
  caller,      \* where the sender of a request is
  result,      \* what it returned
  expired      \* history: streams with a dispatched 846608 and no frame since

netVars == <<connected, awaiting>>
ackVars == <<pending, ackCh>>
frameVars == <<frame, code>>
callVars == <<caller, result>>
svars == <<netVars, ackVars, resps, streamErr, frameVars, callVars, expired>>

Waiters == SendReqs \cup UploadReqs

TypeOK ==
  /\ connected \in BOOLEAN
  /\ awaiting \subseteq Req /\ pending \subseteq Waiters /\ resps \subseteq Req
  /\ ackCh \in [Waiters -> {<<>>, <<"ok">>, <<"error">>}]
  /\ streamErr \in Req \cup {None}
  /\ frame \in [Frame -> {"none", "expired", "store", "lookup", "deliver", "end"}]
  /\ code \in [Frame -> {"none", "ok", "error", "expired"}]
  /\ caller \in [Waiters -> {"idle", "waiting", "unregister", "timeout", "fetch", "end"}]
  /\ result \in [Waiters -> {"none", "ok", "ok without body", "failed"}]
  /\ expired \subseteq StreamReqs
  /\ \A r \in Waiters : caller[r] = "end" <=> result[r] # "none"

SendInit ==
  /\ connected = TRUE /\ awaiting = {}
  /\ pending = {} /\ ackCh = [r \in Waiters |-> <<>>]
  /\ resps = {} /\ streamErr = None
  /\ frame = [f \in Frame |-> "none"] /\ code = [f \in Frame |-> "none"]
  /\ caller = [r \in Waiters |-> "idle"] /\ result = [r \in Waiters |-> "none"]
  /\ expired = {}

CallerAt(r, label) == caller[r] = label
CallerGoto(r, label) == caller' = [caller EXCEPT ![r] = label]
Returns(r, what) ==
  CallerGoto(r, "end") /\ result' = [result EXCEPT ![r] = what]

-----------------------------------------------------------------------------
(* The connection.  Answers to what was sent before it broke do not come.   *)

Breaks == connected' = FALSE /\ awaiting' = {}

Lost ==
  /\ connected /\ Breaks
  /\ UNCHANGED <<ackVars, resps, streamErr, frameVars, callVars, expired>>

Reconnected ==
  /\ ~ connected /\ connected' = TRUE
  /\ UNCHANGED <<awaiting, ackVars, resps, streamErr, frameVars, callVars, expired>>

-----------------------------------------------------------------------------
(* sendProactive and sendCmdWait.                                           *)

\* The commands of an upload are sent one by one, each after the success of the last.
MaySend(r) ==
  /\ CallerAt(r, "idle")
  /\ \A u \in Upload, i \in 2..Cmds :
       r = UploadReq(u, i) => result[UploadReq(u, i - 1)] = "ok"

SendWhenDown(r) ==
  /\ MaySend(r) /\ ~ connected
  /\ Returns(r, "failed")
  /\ UNCHANGED <<netVars, ackVars, resps, streamErr, frameVars, expired>>

\* The waiter is registered before the request is written, all under connMu.
Sends(r) ==
  /\ MaySend(r) /\ connected
  /\ pending' = pending \cup {r}
  /\ awaiting' = awaiting \cup {r}
  /\ CallerGoto(r, "waiting")
  /\ UNCHANGED <<connected, ackCh, resps, streamErr, frameVars, result, expired>>

SendBreaks(r) ==
  /\ MaySend(r) /\ connected
  /\ pending' = pending \cup {r}
  /\ Breaks
  /\ CallerGoto(r, "unregister")
  /\ UNCHANGED <<ackCh, resps, streamErr, frameVars, result, expired>>

Unregisters_NotAfterTimeout(r) ==
  /\ CallerAt(r, "unregister") \/ CallerAt(r, "timeout")
  /\ pending' = IF CallerAt(r, "timeout") THEN pending ELSE pending \ {r}
  /\ Returns(r, "failed")
  /\ UNCHANGED <<netVars, ackCh, resps, streamErr, frameVars, expired>>

\* After a failed write and after a timeout the waiter is taken out under ackMu.
Unregisters(r) ==
  /\ CallerAt(r, "unregister") \/ CallerAt(r, "timeout")
  /\ pending' = pending \ {r}
  /\ Returns(r, "failed")
  /\ UNCHANGED <<netVars, ackCh, resps, streamErr, frameVars, expired>>

\* ackTimeout; when the ack is there as well, select takes either.
TimesOut(r) ==
  /\ CallerAt(r, "waiting")
  /\ CallerGoto(r, "timeout")
  /\ UNCHANGED <<netVars, ackVars, resps, streamErr, frameVars, result, expired>>

\* An error ends the call; so does success, but an upload has its body to fetch.
ReceivesAck(r) ==
  /\ CallerAt(r, "waiting") /\ ackCh[r] # <<>>
  /\ ackCh' = [ackCh EXCEPT ![r] = <<>>]
  /\ IF Head(ackCh[r]) = "error" THEN Returns(r, "failed")
     ELSE IF r \in UploadReqs THEN CallerGoto(r, "fetch") /\ UNCHANGED result
     ELSE Returns(r, "ok")
  /\ UNCHANGED <<netVars, pending, resps, streamErr, frameVars, expired>>

FetchesBody_Keeps(r) ==
  /\ CallerAt(r, "fetch")
  /\ Returns(r, IF r \in resps THEN "ok" ELSE "ok without body")
  /\ UNCHANGED <<netVars, ackVars, resps, streamErr, frameVars, expired>>

\* The body is read and deleted; a missing entry reads as an empty body, which
\* uploadMedia rejects for the first and the last command and ignores for a chunk.
FetchesBody(r) ==
  /\ CallerAt(r, "fetch")
  /\ Returns(r, IF r \in resps THEN "ok" ELSE "ok without body")
  /\ resps' = resps \ {r}
  /\ UNCHANGED <<netVars, ackVars, streamErr, frameVars, expired>>

-----------------------------------------------------------------------------
(* sendReply.                                                               *)

\* The stream is known to be expired: this frame fails fast, the next will not.
ReplyFailsFast(s) ==
  /\ connected /\ streamErr = StreamReq(s)
  /\ streamErr' = None
  /\ expired' = expired \ {StreamReq(s)}
  /\ UNCHANGED <<netVars, ackVars, resps, frameVars, callVars>>

ReplyWritten(s) ==
  /\ connected /\ streamErr # StreamReq(s)
  /\ awaiting' = awaiting \cup {StreamReq(s)}
  /\ expired' = expired \ {StreamReq(s)}
  /\ UNCHANGED <<connected, ackVars, resps, streamErr, frameVars, callVars>>

ReplyBreaks(s) ==
  /\ connected /\ streamErr # StreamReq(s)
  /\ Breaks
  /\ expired' = expired \ {StreamReq(s)}
  /\ UNCHANGED <<ackVars, resps, streamErr, frameVars, callVars>>

-----------------------------------------------------------------------------
(* The server, and dispatchAck.                                             *)

\* An answer is read from the socket.  Only a frame of a stream can be expired.
Answers(f) ==
  /\ connected /\ ReqOf(f) \in awaiting
  /\ Cardinality({g \in Frame : frame[g] # "none"}) < MaxAnswers
  /\ frame[f] = "none" /\ \A k \in 1..(f[2] - 1) : frame[<<ReqOf(f), k>>] # "none"
  /\ \E c \in {"ok", "error"} \cup (IF ReqOf(f) \in StreamReqs THEN {"expired"} ELSE {}) :
       code' = [code EXCEPT ![f] = c]
  /\ frame' = [frame EXCEPT ![f] = "expired"]
  /\ UNCHANGED <<netVars, ackVars, resps, streamErr, callVars, expired>>

FrameGoto(f, from, to) == frame[f] = from /\ frame' = [frame EXCEPT ![f] = to]

DispatchExpired(f) ==
  /\ FrameGoto(f, "expired", "store")
  /\ IF code[f] = "expired"
       THEN streamErr' = ReqOf(f) /\ expired' = expired \cup {ReqOf(f)}
       ELSE UNCHANGED <<streamErr, expired>>
  /\ UNCHANGED <<netVars, ackVars, resps, code, callVars>>

\* The body of EVERY answer is stored.
DispatchStores(f) ==
  /\ FrameGoto(f, "store", "lookup")
  /\ resps' = resps \cup {ReqOf(f)}
  /\ UNCHANGED <<netVars, ackVars, streamErr, code, callVars, expired>>

DispatchFinds_KeepsWaiter(f) ==
  /\ FrameGoto(f, "lookup", "deliver")
  /\ ReqOf(f) \in pending
  /\ UNCHANGED <<netVars, ackVars, resps, streamErr, code, callVars, expired>>

\* The waiter is taken out of pendingAcks by the first answer that finds it.
DispatchFinds(f) ==
  /\ FrameGoto(f, "lookup", "deliver")
  /\ ReqOf(f) \in pending
  /\ pending' = pending \ {ReqOf(f)}
  /\ UNCHANGED <<netVars, ackCh, resps, streamErr, code, callVars, expired>>

DispatchFindsNobody_Cleans(f) ==
  /\ FrameGoto(f, "lookup", "end")
  /\ ReqOf(f) \notin pending
  /\ resps' = resps \ {ReqOf(f)}
  /\ UNCHANGED <<netVars, ackVars, streamErr, code, callVars, expired>>

DispatchFindsNobody(f) ==
  /\ FrameGoto(f, "lookup", "end")
  /\ ReqOf(f) \notin pending
  /\ UNCHANGED <<netVars, ackVars, resps, streamErr, code, callVars, expired>>

\* A send on a channel of capacity 1.
DispatchDelivers(f) ==
  /\ FrameGoto(f, "deliver", "end")
  /\ ackCh[ReqOf(f)] = <<>>
  /\ ackCh' = [ackCh EXCEPT ![ReqOf(f)] = <<IF code[f] = "ok" THEN "ok" ELSE "error">>]
  /\ UNCHANGED <<netVars, pending, resps, streamErr, code, callVars, expired>>

-----------------------------------------------------------------------------
CallerStep(r) ==
  \/ Unregisters(r) \/ TimesOut(r) \/ ReceivesAck(r) \/ FetchesBody(r)

CallerBegins(r) == SendWhenDown(r) \/ Sends(r) \/ SendBreaks(r)

SendReply(s) == ReplyFailsFast(s) \/ ReplyWritten(s) \/ ReplyBreaks(s)

Dispatch(f) ==
  \/ DispatchExpired(f) \/ DispatchStores(f) \/ DispatchFinds(f) \/ DispatchFindsNobody(f)
  \/ DispatchDelivers(f)

Network == Lost \/ Reconnected \/ \E f \in Frame : Answers(f)

SendNext ==
  \/ Network
  \/ \E r \in Waiters : CallerBegins(r) \/ CallerStep(r)
  \/ \E s \in Stream : SendReply(s)
  \/ \E f \in Frame : Dispatch(f)

SendSpec == SendInit /\ [][SendNext]_svars

-----------------------------------------------------------------------------
(* Properties.                                                              *)

\* A goroutine that delivers an ack never blocks on the channel of its waiter, even if
\* the waiter timed out or the server answers twice: no goroutine is leaked, and no ack
\* is left for a later call (wecom.go:266, 416, 482-494).
DeliveryNeverBlocks ==
  \A f \in Frame : frame[f] = "deliver" =>
    /\ ackCh[ReqOf(f)] = <<>>
    /\ \A g \in Frame : ReqOf(g) = ReqOf(f) /\ frame[g] = "deliver" => g = f

\* Nobody stays in pendingAcks whose caller has returned, whatever the order of failed
\* write, timeout and answer (wecom.go:272-291, 425-446): the map does not grow.
PendingIsWaiting ==
  \A r \in pending : caller[r] \in {"waiting", "unregister", "timeout"}

\* A command that succeeded finds its body: it is stored before the waiter is woken,
\* under another lock, and a second answer does not take it away (wecom.go:475-494, 435-440).
SuccessHasBody == \A r \in UploadReqs : result[r] # "ok without body"

\* The body of an upload's command stays in the map only if the command failed or was
\* answered more than once: whatever else arrives, a successful upload leaves nothing
\* behind (wecom.go:435-440, 475-480).
LeftBodyIsLate ==
  \A r \in UploadReqs \cap resps :
    CallerAt(r, "end") => result[r] = "failed" \/ Cardinality({f \in Frame :
                             ReqOf(f) = r /\ frame[f] # "none"}) > 1

-----------------------------------------------------------------------------
(* What the comments promise.                                               *)

\* wecom.go:83: uploadResps stores the response bodies for media upload commands.
OnlyUploadBodiesKept == resps \subseteq UploadReqs

\* wecom.go:87-89: after error 846608 the next sendReply of that stream fails fast, so
\* that the router can fall back: the error is remembered until then.
ExpiredIsRemembered == \A r \in expired : streamErr = r
=============================================================================

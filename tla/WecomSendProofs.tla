---------------------------- MODULE WecomSendProofs ----------------------------
(***************************************************************************)
(* What WecomSend guarantees for any number of callers, commands of an     *)
(* upload, streams and answers.                                            *)
(*                                                                         *)
(* The argument follows one request: its waiter is in pendingAcks from the *)
(* write on, until ONE of three takes it out (failed write, timeout, an    *)
(* answer); only the last gives it an ack, and after its body was stored.  *)
(***************************************************************************)
EXTENDS WecomSend, FiniteSetTheorems, TLAPS

\* The request of an answer is a request; all kinds of requests are.
LEMMA Requests ==
  /\ \A f \in Frame : ReqOf(f) \in Req
  /\ UploadReqs \subseteq Waiters /\ Waiters \subseteq Req /\ StreamReqs \subseteq Req
  /\ \A s \in Stream : StreamReq(s) \in StreamReqs
  BY DEF Frame, ReqOf, Req, Waiters, StreamReqs

\* Only a frame of a stream can be answered with "expired".
ExpiredIsStream == \A f \in Frame : code[f] = "expired" => ReqOf(f) \in StreamReqs

Delivers(f, r) == ReqOf(f) = r /\ frame[f] = "deliver"

\* A waiter is served once: who waits has no ack and none on its way, and at most one is on
\* its way to anybody (wecom.go:482-494).
ServedOnce ==
  /\ \A f \in Frame : frame[f] = "deliver" =>
       /\ ReqOf(f) \in Waiters /\ ackCh[ReqOf(f)] = <<>>
       /\ caller[ReqOf(f)] # "idle" /\ ReqOf(f) \notin pending
       /\ \A g \in Frame : Delivers(g, ReqOf(f)) => g = f
  /\ \A r \in Waiters : ackCh[r] # <<>> => caller[r] # "idle" /\ r \notin pending
  /\ PendingIsWaiting

\* The steps of SendNext, one by one.
LEMMA StepCases ==
  ASSUME SendNext
  PROVE  \/ Lost \/ Reconnected
         \/ \E r \in Waiters :
              \/ SendWhenDown(r) \/ Sends(r) \/ SendBreaks(r)
              \/ Unregisters(r) \/ TimesOut(r) \/ ReceivesAck(r) \/ FetchesBody(r)
         \/ \E s \in Stream : ReplyFailsFast(s) \/ ReplyWritten(s) \/ ReplyBreaks(s)
         \/ \E f \in Frame :
              \/ Answers(f) \/ DispatchExpired(f) \/ DispatchStores(f) \/ DispatchFinds(f)
              \/ DispatchFindsNobody(f) \/ DispatchDelivers(f)
  BY DEF SendNext, Network, CallerBegins, CallerStep, SendReply, Dispatch

\* Every step keeps the types (wecom.go:240-300, 405-500).
LEMMA TypeStep ==
  ASSUME TypeOK, ExpiredIsStream, ServedOnce, [SendNext]_svars
  PROVE  TypeOK' /\ ExpiredIsStream'
<1> USE Requests DEF ExpiredIsStream, netVars, ackVars, frameVars, callVars
<1> USE DEF TypeOK
<1>1. CASE UNCHANGED svars
  BY <1>1 DEF svars
<1>2. CASE Lost \/ Reconnected
  BY <1>2 DEF Lost, Reconnected, Breaks
<1>3. ASSUME NEW r \in Waiters, SendWhenDown(r) \/ Sends(r) \/ SendBreaks(r)
      PROVE  TypeOK' /\ ExpiredIsStream'
  <2> USE DEF MaySend, CallerAt, CallerGoto
  <2>1. CASE SendWhenDown(r)
    BY <2>1 DEF SendWhenDown, Returns
  <2>2. CASE Sends(r)
    BY <2>2 DEF Sends
  <2>3. CASE SendBreaks(r)
    BY <2>3 DEF SendBreaks, Breaks
  <2> QED
    BY <1>3, <2>1, <2>2, <2>3
<1>4. ASSUME NEW r \in Waiters, Unregisters(r) \/ TimesOut(r) \/ FetchesBody(r)
      PROVE  TypeOK' /\ ExpiredIsStream'
  <2> USE DEF CallerAt, CallerGoto
  <2>1. CASE Unregisters(r)
    BY <2>1 DEF Unregisters, Returns
  <2>2. CASE TimesOut(r)
    BY <2>2 DEF TimesOut
  <2>3. CASE FetchesBody(r)
    BY <2>3 DEF FetchesBody, Returns
  <2> QED
    BY <1>4, <2>1, <2>2, <2>3
<1>5. ASSUME NEW r \in Waiters, ReceivesAck(r) PROVE TypeOK' /\ ExpiredIsStream'
  <2>1. ackCh' = [ackCh EXCEPT ![r] = <<>>]
    BY <1>5 DEF ReceivesAck
  <2>2. ackCh' \in [Waiters -> {<<>>, <<"ok">>, <<"error">>}]
    BY <2>1
  <2>a. /\ caller[r] = "waiting"
        /\ \/ caller' = [caller EXCEPT ![r] = "fetch"] /\ result' = result
           \/ caller' = [caller EXCEPT ![r] = "end"]
                /\ \E w \in {"ok", "failed"} : result' = [result EXCEPT ![r] = w]
    BY <1>5 DEF ReceivesAck, CallerAt, CallerGoto, Returns
  <2>3. caller' \in [Waiters -> {"idle", "waiting", "unregister", "timeout", "fetch", "end"}]
          /\ result' \in [Waiters -> {"none", "ok", "ok without body", "failed"}]
    <3>1. CASE caller' = [caller EXCEPT ![r] = "fetch"] /\ result' = result
      BY <3>1
    <3>2. CASE caller' = [caller EXCEPT ![r] = "end"]
                 /\ \E w \in {"ok", "failed"} : result' = [result EXCEPT ![r] = w]
      <4>1. PICK w \in {"ok", "failed"} : result' = [result EXCEPT ![r] = w]
        BY <3>2
      <4>2. result' \in [Waiters -> {"none", "ok", "ok without body", "failed"}]
        BY <4>1
      <4>3. caller' \in [Waiters ->
                {"idle", "waiting", "unregister", "timeout", "fetch", "end"}]
        BY <3>2
      <4> QED
        BY <4>2, <4>3
    <3> QED
      BY <2>a, <3>1, <3>2
  <2>4. \A q \in Waiters : caller'[q] = "end" <=> result'[q] # "none"
    BY <2>a
  <2>5. UNCHANGED <<netVars, pending, resps, streamErr, frameVars, expired>>
    BY <1>5 DEF ReceivesAck
  <2> QED
    BY <2>2, <2>3, <2>4, <2>5
<1>6. ASSUME NEW s \in Stream, ReplyFailsFast(s) \/ ReplyWritten(s) \/ ReplyBreaks(s)
      PROVE  TypeOK' /\ ExpiredIsStream'
  BY <1>6 DEF ReplyFailsFast, ReplyWritten, ReplyBreaks, Breaks
<1>7. ASSUME NEW f \in Frame, Answers(f) PROVE TypeOK' /\ ExpiredIsStream'
  BY <1>7 DEF Answers
<1>8. ASSUME NEW f \in Frame, DispatchExpired(f) \/ DispatchStores(f)
      PROVE  TypeOK' /\ ExpiredIsStream'
  <2>1. /\ frame' \in [Frame -> {"none", "expired", "store", "lookup", "deliver", "end"}]
        /\ UNCHANGED <<netVars, ackVars, code, callVars>>
    BY <1>8 DEF DispatchExpired, DispatchStores, FrameGoto
  <2>2. streamErr' \in Req \cup {None} /\ expired' \subseteq StreamReqs /\ resps' \subseteq Req
    BY <1>8 DEF DispatchExpired, DispatchStores
  <2> QED
    BY <2>1, <2>2
<1>9. ASSUME NEW f \in Frame, DispatchFinds(f) \/ DispatchFindsNobody(f)
      PROVE  TypeOK' /\ ExpiredIsStream'
  <2>1. /\ pending' \subseteq Waiters
        /\ frame' \in [Frame -> {"none", "expired", "store", "lookup", "deliver", "end"}]
    BY <1>9 DEF DispatchFinds, DispatchFindsNobody, FrameGoto
  <2>2. UNCHANGED <<netVars, ackCh, resps, streamErr, code, callVars, expired>>
    BY <1>9 DEF DispatchFinds, DispatchFindsNobody
  <2> QED
    BY <2>1, <2>2
<1>10. ASSUME NEW f \in Frame, DispatchDelivers(f) PROVE TypeOK' /\ ExpiredIsStream'
  <2>1. PICK a \in {"ok", "error"} : ackCh' = [ackCh EXCEPT ![ReqOf(f)] = <<a>>]
    BY <1>10 DEF DispatchDelivers
  <2>2. ackCh' \in [Waiters -> {<<>>, <<"ok">>, <<"error">>}]
    BY <2>1
  <2>3. frame' \in [Frame -> {"none", "expired", "store", "lookup", "deliver", "end"}]
    BY <1>10 DEF DispatchDelivers, FrameGoto
  <2>4. UNCHANGED <<netVars, pending, resps, streamErr, code, callVars, expired>>
    BY <1>10 DEF DispatchDelivers
  <2> QED
    BY <2>2, <2>3, <2>4
<1> QED
  <2>1. CASE SendNext
    BY <2>1, <1>2, <1>3, <1>4, <1>5, <1>6, <1>7, <1>8, <1>9, <1>10, StepCases, Zenon
  <2> QED
    BY <1>1, <2>1

\* Every step serves a waiter at most once (wecom.go:266-291, 416-446, 482-494).
LEMMA ServedStep ==
  ASSUME TypeOK, ServedOnce, [SendNext]_svars
  PROVE  ServedOnce'
<1>a. /\ frame \in [Frame -> {"none", "expired", "store", "lookup", "deliver", "end"}]
      /\ caller \in [Waiters -> {"idle", "waiting", "unregister", "timeout", "fetch", "end"}]
      /\ ackCh = [r \in Waiters |-> ackCh[r]] /\ pending \subseteq Waiters
  BY DEF TypeOK
<1> USE <1>a DEF ServedOnce, Delivers, PendingIsWaiting, netVars, ackVars, frameVars, callVars
<1>1. CASE UNCHANGED svars
  BY <1>1 DEF svars
<1>2. CASE Lost \/ Reconnected
  BY <1>2 DEF Lost, Reconnected
<1>3. ASSUME NEW r \in Waiters, SendWhenDown(r) PROVE ServedOnce'
  BY <1>3 DEF SendWhenDown, MaySend, CallerAt, CallerGoto, Returns
<1>4. ASSUME NEW r \in Waiters, Sends(r) \/ SendBreaks(r) PROVE ServedOnce'
  <2>1. CASE Sends(r)
    BY <2>1 DEF Sends, MaySend, CallerAt, CallerGoto
  <2>2. CASE SendBreaks(r)
    BY <2>2 DEF SendBreaks, MaySend, CallerAt, CallerGoto
  <2> QED
    BY <1>4, <2>1, <2>2
<1>5. ASSUME NEW r \in Waiters, Unregisters(r) PROVE ServedOnce'
  BY <1>5 DEF Unregisters, CallerAt, CallerGoto, Returns
<1>6. ASSUME NEW r \in Waiters, TimesOut(r) \/ FetchesBody(r) PROVE ServedOnce'
  BY <1>6 DEF TimesOut, FetchesBody, CallerAt, CallerGoto, Returns
<1>7. ASSUME NEW r \in Waiters, ReceivesAck(r) PROVE ServedOnce'
  <2>1. /\ ackCh[r] # <<>> /\ ackCh' = [ackCh EXCEPT ![r] = <<>>]
        /\ UNCHANGED <<pending, frame>>
    BY <1>7 DEF ReceivesAck
  <2>2. \/ caller' = [caller EXCEPT ![r] = "end"]
        \/ caller' = [caller EXCEPT ![r] = "fetch"]
    BY <1>7 DEF ReceivesAck, CallerGoto, Returns
  <2>3. r \notin pending
    BY <2>1
  <2> QED
    BY <2>1, <2>2, <2>3
<1>8. ASSUME NEW s \in Stream, ReplyFailsFast(s) \/ ReplyWritten(s) \/ ReplyBreaks(s)
      PROVE  ServedOnce'
  BY <1>8 DEF ReplyFailsFast, ReplyWritten, ReplyBreaks
<1>9. ASSUME NEW f \in Frame, Answers(f) \/ DispatchExpired(f) \/ DispatchStores(f)
      PROVE  ServedOnce'
  BY <1>9 DEF Answers, DispatchExpired, DispatchStores, FrameGoto
<1>10. ASSUME NEW f \in Frame, DispatchFinds(f) PROVE ServedOnce'
  BY <1>10 DEF DispatchFinds, FrameGoto
<1>11. ASSUME NEW f \in Frame, DispatchFindsNobody(f) PROVE ServedOnce'
  BY <1>11 DEF DispatchFindsNobody, FrameGoto
<1>12. ASSUME NEW f \in Frame, DispatchDelivers(f) PROVE ServedOnce'
  BY <1>12 DEF DispatchDelivers, FrameGoto
<1> QED
  <2>1. CASE SendNext
    BY <2>1, <1>2, <1>3, <1>4, <1>5, <1>6, <1>7, <1>8, <1>9, <1>10, <1>11, <1>12, StepCases,
       Zenon
  <2> QED
    BY <1>1, <2>1

\* At the start nothing is sent.
LEMMA Start == ASSUME SendInit PROVE TypeOK /\ ExpiredIsStream /\ ServedOnce
<1>1. TypeOK
  BY DEF SendInit, TypeOK
<1>2. ExpiredIsStream /\ ServedOnce
  BY DEF SendInit, ExpiredIsStream, ServedOnce, PendingIsWaiting
<1> QED
  BY <1>1, <1>2

\* Every variable has its type in every reachable state; a caller that returned has a result.
THEOREM TypeCorrect == SendSpec => []TypeOK
  BY Start, TypeStep, ServedStep, PTL DEF SendSpec

\* Nobody stays in pendingAcks whose caller has returned, for any number of callers and
\* answers (wecom.go:272-291, 425-446).
THEOREM NoWaiterLeftBehind == SendSpec => []PendingIsWaiting
<1>1. ServedOnce => PendingIsWaiting
  BY DEF ServedOnce
<1> QED
  BY <1>1, Start, TypeStep, ServedStep, PTL DEF SendSpec

\* No goroutine that delivers an ack blocks, for any number of callers, and of answers to
\* the same request (wecom.go:266, 416, 482-494).
THEOREM NoDeliveryBlocks == SendSpec => []DeliveryNeverBlocks
<1>1. ServedOnce => DeliveryNeverBlocks
  BY DEF ServedOnce, DeliveryNeverBlocks, Delivers
<1> QED
  BY <1>1, Start, TypeStep, ServedStep, PTL DEF SendSpec
-----------------------------------------------------------------------------
\* The body of an upload's command is there from before its waiter is woken until the caller
\* takes it (wecom.go:435-440, 475-494).
BodyFirst ==
  \A r \in UploadReqs : caller[r] # "end" /\ r \notin resps =>
    /\ \A f \in Frame : ReqOf(f) = r => frame[f] \notin {"lookup", "deliver"}
    /\ ackCh[r] = <<>> /\ caller[r] # "fetch"

\* A command that succeeded was answered, and its body is gone unless it was answered again.
Answered(f, r) == ReqOf(f) = r /\ frame[f] # "none"
Delivered(f, r) == ReqOf(f) = r /\ frame[f] = "end"

TakenOrAgain ==
  \A r \in UploadReqs :
    /\ (ackCh[r] # <<>> \/ caller[r] = "fetch" \/ result[r] = "ok")
         => \E f \in Frame : Delivered(f, r)
    /\ (result[r] = "ok" /\ r \in resps)
         => \E f, g \in Frame : f # g /\ Answered(f, r) /\ Answered(g, r)

BodyInv == BodyFirst /\ SuccessHasBody /\ TakenOrAgain

\* Steps that change nothing of what BodyInv speaks of, or only let answers get on.
LEMMA BodyUntouched ==
  ASSUME BodyInv, UNCHANGED <<ackCh, caller, result, resps>>,
         \A f \in Frame : \/ frame'[f] = frame[f]
                          \/ frame'[f] \notin {"none", "lookup", "deliver"} /\ frame[f] # "end"
                          \/ frame'[f] = "deliver" /\ frame[f] = "lookup"
  PROVE  BodyInv'
<1>1. BodyFirst' /\ SuccessHasBody'
  BY DEF BodyInv, BodyFirst, SuccessHasBody
<1>2. \A f \in Frame, r \in UploadReqs : Delivered(f, r) => Delivered(f, r)'
  BY DEF Delivered
<1>3. \A f \in Frame, r \in UploadReqs : Answered(f, r) => Answered(f, r)'
  BY DEF Answered
<1>4. TakenOrAgain'
  BY <1>2, <1>3 DEF BodyInv, TakenOrAgain
<1> QED
  BY <1>1, <1>4 DEF BodyInv

\* A step of the caller of q leaves what BodyInv says of other requests alone.
LEMMA BodyOfOthers ==
  ASSUME BodyInv, NEW q \in Waiters, UNCHANGED frame,
         \A r \in UploadReqs \ {q} :
           /\ ackCh'[r] = ackCh[r] /\ caller'[r] = caller[r] /\ result'[r] = result[r]
           /\ r \in resps' <=> r \in resps,
         q \in UploadReqs /\ result'[q] # "ok without body" =>
           /\ ackCh'[q] # <<>> => ackCh[q] # <<>>
           /\ caller'[q] = "fetch" \/ result'[q] = "ok" =>
                ackCh[q] # <<>> \/ caller[q] = "fetch" \/ result[q] = "ok"
           /\ caller'[q] # "end" => caller[q] # "end" /\ (q \in resps' <=> q \in resps)
           /\ caller'[q] = "fetch" => ackCh[q] # <<>> \/ caller[q] = "fetch"
           /\ result'[q] = "ok" => q \notin resps' ,
         q \in UploadReqs => result'[q] # "ok without body"
  PROVE  BodyInv'
<1>1. BodyFirst'
  BY DEF BodyInv, BodyFirst
<1>2. SuccessHasBody'
  BY DEF BodyInv, SuccessHasBody
<1>3. \A f \in Frame, r \in UploadReqs :
        (Delivered(f, r)' <=> Delivered(f, r)) /\ (Answered(f, r)' <=> Answered(f, r))
  BY DEF Delivered, Answered
<1>4. TakenOrAgain'
  BY <1>3 DEF BodyInv, TakenOrAgain
<1> QED
  BY <1>1, <1>2, <1>4 DEF BodyInv

\* Every step stores a body before it wakes the waiter, and takes it with success
\* (wecom.go:405-446, 475-494).
LEMMA BodyStep ==
  ASSUME TypeOK, ServedOnce, BodyInv, [SendNext]_svars
  PROVE  BodyInv'
<1> USE DEF TypeOK, netVars, ackVars, frameVars, callVars
<1>1. CASE UNCHANGED svars
  BY <1>1, BodyUntouched DEF svars
<1>2. CASE Lost \/ Reconnected
  BY <1>2, BodyUntouched DEF Lost, Reconnected
<1>3. ASSUME NEW r \in Waiters, SendWhenDown(r) \/ Sends(r) \/ SendBreaks(r) \/ Unregisters(r)
                                  \/ TimesOut(r)
      PROVE  BodyInv'
  <2>1. /\ UNCHANGED <<ackCh, resps, frame>>
        /\ caller[r] \in {"idle", "waiting", "unregister", "timeout"}
    BY <1>3 DEF SendWhenDown, Sends, SendBreaks, Unregisters, TimesOut, MaySend, CallerAt
  <2>2. \A q \in UploadReqs \ {r} : caller'[q] = caller[q] /\ result'[q] = result[q]
    BY <1>3, Requests DEF SendWhenDown, Sends, SendBreaks, Unregisters, TimesOut, CallerGoto,
                          Returns
  <2>3. /\ caller'[r] # "fetch" /\ result'[r] \in {"none", "failed"}
        /\ caller[r] # "end"
    BY <1>3, <2>1 DEF SendWhenDown, Sends, SendBreaks, Unregisters, TimesOut, CallerGoto, Returns
  <2> QED
    BY <2>1, <2>2, <2>3, BodyOfOthers
<1>4. ASSUME NEW r \in Waiters, ReceivesAck(r) PROVE BodyInv'
  <2>1. /\ ackCh' = [ackCh EXCEPT ![r] = <<>>] /\ UNCHANGED <<resps, frame>>
        /\ ackCh[r] # <<>> /\ caller[r] = "waiting" /\ result[r] = "none"
    BY <1>4 DEF ReceivesAck, CallerAt
  <2>2. \A q \in UploadReqs \ {r} : caller'[q] = caller[q] /\ result'[q] = result[q]
    BY <1>4, Requests DEF ReceivesAck, CallerGoto, Returns
  <2>3. r \in UploadReqs => result'[r] \in {"none", "failed"}
    BY <1>4, <2>1 DEF ReceivesAck, CallerGoto, Returns
  <2> QED
    BY <2>1, <2>2, <2>3, BodyOfOthers, Requests
<1>5. ASSUME NEW r \in Waiters, FetchesBody(r) PROVE BodyInv'
  <2>1. /\ UNCHANGED <<ackCh, frame>> /\ resps' = resps \ {r}
        /\ caller[r] = "fetch" /\ caller'[r] = "end"
    BY <1>5 DEF FetchesBody, CallerAt, CallerGoto, Returns
  <2>2. \A q \in UploadReqs \ {r} : caller'[q] = caller[q] /\ result'[q] = result[q]
    BY <1>5, Requests DEF FetchesBody, CallerGoto, Returns
  <2>3. r \in UploadReqs => result'[r] = "ok"
    <3>1. r \in UploadReqs => r \in resps
      BY <2>1 DEF BodyInv, BodyFirst
    <3> QED
      BY <1>5, <3>1 DEF FetchesBody, Returns
  <2> QED
    BY <2>1, <2>2, <2>3, BodyOfOthers
<1>6. ASSUME NEW s \in Stream, ReplyFailsFast(s) \/ ReplyWritten(s) \/ ReplyBreaks(s)
      PROVE  BodyInv'
  BY <1>6, BodyUntouched DEF ReplyFailsFast, ReplyWritten, ReplyBreaks
<1>7. ASSUME NEW f \in Frame,
             Answers(f) \/ DispatchExpired(f) \/ DispatchFinds(f) \/ DispatchFindsNobody(f)
      PROVE  BodyInv'
  <2>1. UNCHANGED <<ackCh, caller, result, resps>>
    BY <1>7 DEF Answers, DispatchExpired, DispatchFinds, DispatchFindsNobody
  <2>2. \A g \in Frame \ {f} : frame'[g] = frame[g]
    BY <1>7 DEF Answers, DispatchExpired, DispatchFinds, DispatchFindsNobody, FrameGoto
  <2>3. \/ frame'[f] \notin {"none", "lookup", "deliver"} /\ frame[f] # "end"
        \/ frame'[f] = "deliver" /\ frame[f] = "lookup"
    BY <1>7 DEF Answers, DispatchExpired, DispatchFinds, DispatchFindsNobody, FrameGoto
  <2> QED
    BY <2>1, <2>2, <2>3, BodyUntouched
<1>8. ASSUME NEW f \in Frame, DispatchStores(f) PROVE BodyInv'
  <2>1. /\ frame[f] = "store" /\ frame' = [frame EXCEPT ![f] = "lookup"]
        /\ resps' = resps \cup {ReqOf(f)} /\ UNCHANGED <<ackCh, caller, result>>
    BY <1>8 DEF DispatchStores, FrameGoto
  <2>2. BodyFirst' /\ SuccessHasBody'
    BY <2>1 DEF BodyInv, BodyFirst, SuccessHasBody
  <2>3. \A g \in Frame, r \in UploadReqs :
          (Delivered(g, r) => Delivered(g, r)' /\ g # f) /\ (Answered(g, r) => Answered(g, r)')
    BY <2>1 DEF Delivered, Answered
  <2>4. ASSUME NEW r \in UploadReqs, result'[r] = "ok", r \in resps'
        PROVE  \E g, h \in Frame : g # h /\ Answered(g, r)' /\ Answered(h, r)'
    <3>1. CASE r \in resps
      BY <3>1, <2>1, <2>3, <2>4 DEF BodyInv, TakenOrAgain
    <3>2. CASE r \notin resps
      <4>1. ReqOf(f) = r
        BY <3>2, <2>1, <2>4
      <4>2. PICK g \in Frame : Delivered(g, r)
        BY <2>1, <2>4 DEF BodyInv, TakenOrAgain
      <4>3. g # f /\ Answered(g, r)'
        BY <4>2, <2>3, <2>1 DEF Delivered, Answered
      <4>4. Answered(f, r)'
        BY <4>1, <2>1 DEF Answered
      <4> QED
        BY <4>3, <4>4
    <3> QED
      BY <3>1, <3>2
  <2>5. TakenOrAgain'
    BY <2>1, <2>3, <2>4 DEF BodyInv, TakenOrAgain
  <2> QED
    BY <2>2, <2>5 DEF BodyInv
<1>9. ASSUME NEW f \in Frame, DispatchDelivers(f) PROVE BodyInv'
  <2>1. /\ frame[f] = "deliver" /\ frame' = [frame EXCEPT ![f] = "end"]
        /\ UNCHANGED <<resps, caller, result>>
        /\ \A r \in Waiters \ {ReqOf(f)} : ackCh'[r] = ackCh[r]
    BY <1>9 DEF DispatchDelivers, FrameGoto
  <2>2. BodyFirst'
    <3>1. \A r \in UploadReqs : caller[r] # "end" /\ r \notin resps => r # ReqOf(f)
      BY <2>1 DEF BodyInv, BodyFirst
    <3> QED
      BY <2>1, <3>1, Requests DEF BodyInv, BodyFirst
  <2>3. SuccessHasBody'
    BY <2>1 DEF BodyInv, SuccessHasBody
  <2>4. \A g \in Frame, r \in UploadReqs :
          (Delivered(g, r) => Delivered(g, r)') /\ (Answered(g, r) => Answered(g, r)')
    BY <2>1 DEF Delivered, Answered
  <2>5. Delivered(f, ReqOf(f))'
    BY <2>1 DEF Delivered
  <2>6. TakenOrAgain'
    BY <2>1, <2>4, <2>5, Requests DEF BodyInv, TakenOrAgain
  <2> QED
    BY <2>2, <2>3, <2>6 DEF BodyInv
<1> QED
  <2>1. CASE SendNext
    BY <2>1, <1>2, <1>3, <1>4, <1>5, <1>6, <1>7, <1>8, <1>9, StepCases, Zenon
  <2> QED
    BY <1>1, <2>1

\* BodyInv holds in every reachable state.
LEMMA BodyAlways == SendSpec => []BodyInv
<1>1. SendInit => BodyInv
  <2> SUFFICES ASSUME SendInit PROVE BodyInv
    OBVIOUS
  <2>1. \A r \in UploadReqs : ackCh[r] = <<>> /\ caller[r] = "idle" /\ result[r] = "none"
    BY Requests DEF SendInit
  <2>2. \A f \in Frame : frame[f] = "none"
    BY DEF SendInit
  <2> QED
    BY <2>1, <2>2 DEF BodyInv, BodyFirst, SuccessHasBody, TakenOrAgain
<1> QED
  BY <1>1, Start, TypeStep, ServedStep, BodyStep, PTL DEF SendSpec

\* A command that succeeded finds its body, for any number of uploads, of commands and of
\* answers in any order (wecom.go:475-494, 435-440).
THEOREM SuccessFindsBody == SendSpec => []SuccessHasBody
<1>1. BodyInv => SuccessHasBody
  BY DEF BodyInv
<1> QED
  BY <1>1, BodyAlways, PTL

\* A set of answers with two different members has more than one.
LEMMA TwoAnswers ==
  ASSUME NEW r \in Req, NEW f \in Frame, NEW g \in Frame, f # g, Answered(f, r), Answered(g, r)
  PROVE  Cardinality({h \in Frame : ReqOf(h) = r /\ frame[h] # "none"}) > 1
<1> DEFINE S == {h \in Frame : ReqOf(h) = r /\ frame[h] # "none"}
<1>1. IsFiniteSet({r} \X (1..MaxAcks))
  <2>1. IsFiniteSet(1..MaxAcks)
    BY SendConstants, FS_Interval
  <2>2. IsFiniteSet({r})
    BY FS_Singleton
  <2> QED
    BY <2>1, <2>2, FS_Product
<1>2. S \subseteq {r} \X (1..MaxAcks)
  BY DEF Frame, ReqOf
<1>3. IsFiniteSet(S)
  BY <1>1, <1>2, FS_Subset
<1>4. {f, g} \subseteq S
  BY DEF Answered
<1>5. Cardinality({f, g}) = 2
  <2>1. Cardinality({f}) = 1 /\ IsFiniteSet({f})
    BY FS_Singleton
  <2>2. Cardinality({f} \cup {g}) = 2
    BY <2>1, FS_AddElement
  <2>3. {f} \cup {g} = {f, g}
    OBVIOUS
  <2> QED
    BY <2>2, <2>3
<1>6. Cardinality({f, g}) <= Cardinality(S)
  BY <1>3, <1>4, FS_Subset
<1>7. Cardinality(S) \in Nat
  BY <1>3, FS_CardinalityType
<1> QED
  BY <1>5, <1>6, <1>7

\* A successful command leaves no body in the map, unless the server answered it again, for
\* any number of uploads and of answers in any order (wecom.go:435-440, 475-480).
THEOREM SuccessLeavesNoBody == SendSpec => []LeftBodyIsLate
<1>1. TypeOK /\ BodyInv => LeftBodyIsLate
  <2> SUFFICES ASSUME TypeOK, BodyInv, NEW r \in UploadReqs, r \in resps, caller[r] = "end",
                      result[r] # "failed"
               PROVE  Cardinality({f \in Frame : ReqOf(f) = r /\ frame[f] # "none"}) > 1
    BY DEF LeftBodyIsLate, CallerAt
  <2>1. result[r] = "ok"
    BY Requests DEF TypeOK, BodyInv, SuccessHasBody
  <2>2. PICK f, g \in Frame : f # g /\ Answered(f, r) /\ Answered(g, r)
    BY <2>1 DEF BodyInv, TakenOrAgain
  <2> QED
    BY <2>2, TwoAnswers, Requests
<1> QED
  BY <1>1, TypeCorrect, BodyAlways, PTL
=============================================================================

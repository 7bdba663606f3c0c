----------------------------- MODULE GatewayProofs -----------------------------
(***************************************************************************)
(* What the connection of a bot (WecomChannel) and the gateway over it     *)
(* guarantee for any number of channels, sockets, attempts and requests.   *)
(*                                                                         *)
(* NoLeakedSocket and ReconnectsFromNothing need each other: no dial comes *)
(* over an open socket because readLoop dials from nothing, and it starts  *)
(* from nothing because whoever drops a connection closes its socket.      *)
(***************************************************************************)
EXTENDS Gateway, FiniteSetTheorems, TLAPS

\* What holds of one channel between any two steps of its goroutines (wecom.go:155-190,
\* 590-710).
ChanOK(c) ==
  /\ \A n \in Socket : socket[c][n] \in {"sound", "broken"} => n = conn[c]
  /\ connected[c] => conn[c] # 0
  /\ reader[c] \in {"wait", "dial"} => conn[c] = 0 /\ attempt[c] <= tries[c] + 1
  /\ reader[c] = "dial" => tries[c] <= MaxAttempts
  /\ reader[c] \in {"top", "load", "read", "failed"} => attempt[c] <= MaxAttempts + 1
  /\ stage[c] = "new" => conn[c] = 0 /\ reader[c] = "none" /\ attempt[c] = 0
  /\ stage[c] # "opened" => closer[c] = "no"
  /\ done[c] + (IF reader[c] = "gone" THEN 0 ELSE 1) + (IF closer[c] = "closed" THEN 0 ELSE 1)
       <= 2

ChannelsOK == \A c \in Chan : ChanOK(c)

\* The steps of ChannelNext, one by one.
ChannelStep(c) ==
  \/ ConnectOK(c) \/ ConnectFails(c) \/ WriteFails(c) \/ Breaks(c) \/ ReadOK(c)
  \/ ReaderTop(c) \/ ReaderLoads(c) \/ ReadError(c) \/ ReaderDrops(c) \/ GivesUp(c)
  \/ DelayOver(c) \/ RedialOK(c) \/ RedialFails(c) \/ ReaderExits(c)
  \/ CloseCancels(c) \/ CloseDrops(c) \/ CloseEnds(c)
  \/ \E up \in BOOLEAN : Delivered(c, up)

LEMMA ChannelCases == ChannelNext <=> \E c \in Chan : ChannelStep(c)
  BY DEF ChannelNext, ChannelStep, Environment, Reader, Close

LEMMA NestedExcept ==
  ASSUME NEW A, NEW B, NEW C, NEW f \in [A -> [B -> C]], NEW a \in A, NEW b \in B, NEW v \in C
  PROVE  [f EXCEPT ![a][b] = v] \in [A -> [B -> C]]
  OBVIOUS

\* A callback is started, or not.
LEMMA NoticesType ==
  ASSUME TypeOK, NEW c \in Chan, NEW up \in BOOLEAN,
         Notify(c, up) \/ UNCHANGED <<notices, told>>
  PROVE  notices' \in [Chan -> [BOOLEAN -> Nat]] /\ told' \in [Chan -> BOOLEAN]
<1>1. notices \in [Chan -> [BOOLEAN -> Nat]]
  BY DEF TypeOK
<1>2. CASE UNCHANGED <<notices, told>>
  BY <1>1, <1>2 DEF TypeOK
<1>3. CASE Notify(c, up)
  <2>t. told' \in [Chan -> BOOLEAN]
    BY <1>3, Zenon DEF Notify, TypeOK
  <2>1. notices' = [notices EXCEPT ![c][up] = notices[c][up] + 1]
    BY <1>3 DEF Notify
  <2>2. notices[c][up] + 1 \in Nat
    <3>1. notices[c][up] \in Nat
      BY <1>1, Zenon
    <3> QED
      BY <3>1
  <2> QED
    BY <1>1, <2>t, <2>1, <2>2, NestedExcept, Zenon
<1> QED
  BY <1>2, <1>3

\* Dialing opens a socket nobody had and makes it the connection (wecom.go:195-240).
LEMMA DialedType ==
  ASSUME TypeOK, NEW c \in Chan, Dialed(c), conn[c] = 0, ChanOK(c)
  PROVE  /\ socket' \in [Chan -> [Socket -> SocketState]] /\ conn' \in [Chan -> 0..MaxSocket]
         /\ connected' \in [Chan -> BOOLEAN] /\ notices' \in [Chan -> [BOOLEAN -> Nat]]
         /\ told' \in [Chan -> BOOLEAN]
         /\ conn'[c] # 0 /\ connected'[c]
         /\ \A n \in Socket : socket'[c][n] \in {"sound", "broken"} => n = conn'[c]
         /\ \A d \in Chan \ {c} : socket'[d] = socket[d] /\ conn'[d] = conn[d]
                                    /\ connected'[d] = connected[d]
<1> USE ChannelConstants DEF TypeOK, Socket, SocketState
<1>1. PICK n \in Socket : socket' = [socket EXCEPT ![c][n] = "sound"]
                            /\ conn' = [conn EXCEPT ![c] = n]
  BY DEF Dialed
<1>2. connected' = [connected EXCEPT ![c] = TRUE]
        /\ Notify(c, TRUE)
  BY DEF Dialed
<1>3. notices' \in [Chan -> [BOOLEAN -> Nat]] /\ told' \in [Chan -> BOOLEAN]
  BY <1>2, NoticesType
<1>4. \A k \in Socket : socket[c][k] \notin {"sound", "broken"}
  BY DEF ChanOK
<1>5. /\ socket' \in [Chan -> [Socket -> SocketState]] /\ conn' \in [Chan -> 0..MaxSocket]
      /\ conn'[c] = n /\ n # 0
      /\ \A d \in Chan \ {c} : socket'[d] = socket[d] /\ conn'[d] = conn[d]
  BY <1>1
<1>6. \A k \in Socket : socket'[c][k] \in {"sound", "broken"} => k = n
  BY <1>1, <1>4
<1>7. /\ connected' \in [Chan -> BOOLEAN] /\ connected'[c]
      /\ \A d \in Chan \ {c} : connected'[d] = connected[d]
  BY <1>2, Zenon
<1> QED
  BY <1>3, <1>5, <1>6, <1>7, Zenon

\* Dropping closes the connection's socket and forgets it (wecom.go:132-134, 604-613).
LEMMA DropType ==
  ASSUME TypeOK, NEW c \in Chan, Drop(c), ChanOK(c)
  PROVE  /\ socket' \in [Chan -> [Socket -> SocketState]] /\ conn' \in [Chan -> 0..MaxSocket]
         /\ connected' \in [Chan -> BOOLEAN]
         /\ conn'[c] = 0 /\ ~ connected'[c]
         /\ \A n \in Socket : socket'[c][n] \notin {"sound", "broken"}
         /\ \A d \in Chan \ {c} : socket'[d] = socket[d] /\ conn'[d] = conn[d]
                                    /\ connected'[d] = connected[d]
<1> USE ChannelConstants DEF TypeOK, Socket, SocketState
<1>1. conn' = [conn EXCEPT ![c] = 0] /\ connected' = [connected EXCEPT ![c] = FALSE]
  BY DEF Drop
<1>2. CASE conn[c] = 0
  <2>1. socket' = socket
    BY <1>2 DEF Drop
  <2> QED
    BY <1>1, <1>2, <2>1 DEF ChanOK
<1>3. CASE conn[c] # 0
  <2>1. socket' = [socket EXCEPT ![c][conn[c]] = "shut"] /\ conn[c] \in Socket
    BY <1>3 DEF Drop
  <2> QED
    BY <1>1, <2>1 DEF ChanOK
<1> QED
  BY <1>2, <1>3

\* A step of one channel leaves what holds of the others.
LEMMA OtherChannel ==
  ASSUME NEW d \in Chan, ChanOK(d), stage'[d] = stage[d], socket'[d] = socket[d],
         conn'[d] = conn[d], connected'[d] = connected[d], done'[d] = done[d],
         reader'[d] = reader[d], attempt'[d] = attempt[d], tries'[d] = tries[d],
         closer'[d] = closer[d]
  PROVE  ChanOK(d)'
  BY DEF ChanOK

\* Every step keeps types and channels in order (wecom.go:155-190, 590-710).
LEMMA ChannelKeeps ==
  ASSUME TypeOK, ChannelsOK, [ChannelNext]_cvars PROVE TypeOK' /\ ChannelsOK'
<1> USE ChannelConstants
<1>1. CASE UNCHANGED cvars
  BY <1>1 DEF cvars, TypeOK, ChannelsOK, ChanOK
<1>2. ASSUME NEW c \in Chan, ChannelStep(c) PROVE TypeOK' /\ ChannelsOK'
  <2>a. ChanOK(c)
    BY DEF ChannelsOK
  <2> SUFFICES TypeOK' /\ ChanOK(c)' /\ \A d \in Chan \ {c} : ChanOK(d)'
    BY DEF ChannelsOK
  <2>1. CASE ConnectOK(c)
    <3>1. stage[c] = "new" /\ Dialed(c) /\ conn[c] = 0 /\ closer[c] = "no" /\ attempt[c] = 0
            /\ reader[c] = "none"
      BY <2>1, <2>a DEF ConnectOK, ChanOK
    <3>2. /\ stage' = [stage EXCEPT ![c] = "opened"] /\ reader' = [reader EXCEPT ![c] = "top"]
          /\ UNCHANGED <<cancelled, done, mine, attempt, tries, closer>>
      BY <2>1 DEF ConnectOK, ReaderGoto
    <3>3. TypeOK'
      BY <3>1, <3>2, <2>a, DialedType DEF TypeOK, ReaderLabel
    <3>4. ChanOK(c)'
      <4>1. /\ stage'[c] = "opened" /\ reader'[c] = "top" /\ attempt'[c] = 0
            /\ done'[c] = done[c] /\ closer'[c] = "no"
        BY <3>1, <3>2 DEF TypeOK
      <4>2. /\ conn'[c] # 0
            /\ \A n \in Socket : socket'[c][n] \in {"sound", "broken"} => n = conn'[c]
        BY <3>1, <2>a, DialedType
      <4>3. done[c] + 1 + 1 <= 2
        BY <3>1, <2>a DEF ChanOK
      <4> QED
        BY <4>1, <4>2, <4>3 DEF ChanOK
    <3>5. \A d \in Chan \ {c} : ChanOK(d)'
      BY <3>1, <3>2, <2>a, DialedType, OtherChannel DEF TypeOK, ChannelsOK
    <3> QED
      BY <3>3, <3>4, <3>5
  <2>2. CASE RedialOK(c)
    <3>1. reader[c] = "dial" /\ Dialed(c) /\ conn[c] = 0 /\ attempt[c] <= MaxAttempts + 1
            /\ stage[c] # "new"
      BY <2>2, <2>a DEF RedialOK, ReaderAt, ChanOK, TypeOK
    <3>2. /\ reader' = [reader EXCEPT ![c] = "top"]
          /\ UNCHANGED <<stage, cancelled, done, mine, attempt, tries, closer>>
      BY <2>2 DEF RedialOK, ReaderGoto
    <3>3. TypeOK'
      BY <3>1, <3>2, <2>a, DialedType DEF TypeOK, ReaderLabel
    <3>4. ChanOK(c)'
      BY <3>1, <3>2, <2>a, DialedType DEF TypeOK, ChanOK
    <3>5. \A d \in Chan \ {c} : ChanOK(d)'
      BY <3>1, <3>2, <2>a, DialedType, OtherChannel DEF TypeOK, ChannelsOK
    <3> QED
      BY <3>3, <3>4, <3>5
  <2>3. CASE WriteFails(c) \/ CloseDrops(c) \/ ReaderDrops(c)
    <3>1. /\ Drop(c)
          /\ notices' \in [Chan -> [BOOLEAN -> Nat]] /\ told' \in [Chan -> BOOLEAN]
      BY <2>3, NoticesType DEF WriteFails, CloseDrops, ReaderDrops, DropAndNotify, TypeOK
    <3>2. \/ UNCHANGED <<stage, cancelled, done, reader, mine, attempt, tries, closer>>
          \/ /\ closer[c] = "cancelled"
             /\ closer' = [closer EXCEPT ![c] = IF done[c] = 0 THEN "closing" ELSE "closed"]
             /\ UNCHANGED <<stage, cancelled, done, reader, mine, attempt, tries>>
          \/ /\ reader[c] = "failed" /\ reader' = [reader EXCEPT ![c] = "wait"]
             /\ tries' = [tries EXCEPT ![c] = attempt[c]]
             /\ attempt' = [attempt EXCEPT ![c] = @ + 1]
             /\ UNCHANGED <<stage, cancelled, done, mine, closer>>
      BY <2>3 DEF WriteFails, CloseDrops, ReaderDrops, ReaderAt, ReaderGoto
    <3>3. TypeOK'
      <4>1. socket' \in [Chan -> [Socket -> SocketState]] /\ conn' \in [Chan -> 0..MaxSocket]
              /\ connected' \in [Chan -> BOOLEAN]
        BY <3>1, <2>a, DropType
      <4>2. /\ attempt' \in [Chan -> 0..(MaxAttempts + 2)]
            /\ tries' \in [Chan -> 0..(MaxAttempts + 1)]
            /\ closer' \in [Chan -> CloserLabel] /\ reader' \in [Chan -> ReaderLabel]
        <5>1. CASE UNCHANGED <<reader, attempt, tries, closer>>
          BY <5>1 DEF TypeOK
        <5>2. CASE /\ closer' = [closer EXCEPT ![c] = IF done[c] = 0 THEN "closing" ELSE "closed"]
                   /\ UNCHANGED <<reader, attempt, tries>>
          BY <5>2 DEF TypeOK, CloserLabel
        <5>3. CASE /\ reader[c] = "failed" /\ reader' = [reader EXCEPT ![c] = "wait"]
                   /\ tries' = [tries EXCEPT ![c] = attempt[c]]
                   /\ attempt' = [attempt EXCEPT ![c] = @ + 1]
                   /\ UNCHANGED closer
          <6>1. attempt[c] \in 0..(MaxAttempts + 1) /\ attempt[c] + 1 \in 0..(MaxAttempts + 2)
            BY <5>3, <2>a DEF ChanOK, TypeOK
          <6> QED
            BY <5>3, <6>1 DEF TypeOK, ReaderLabel
        <5> QED
          BY <3>2, <5>1, <5>2, <5>3
      <4>3. UNCHANGED <<stage, cancelled, done, mine>>
        BY <3>2
      <4> QED
        BY <3>1, <4>1, <4>2, <4>3 DEF TypeOK
    <3>4. ChanOK(c)'
      BY <3>1, <3>2, <2>a, DropType DEF TypeOK, ChanOK
    <3>5. \A d \in Chan \ {c} : ChanOK(d)'
      BY <3>1, <3>2, <2>a, DropType, OtherChannel DEF TypeOK, ChannelsOK
    <3> QED
      BY <3>3, <3>4, <3>5
  <2>4. CASE Breaks(c)
    <3>1. PICK n \in Socket : socket[c][n] = "sound"
                                /\ socket' = [socket EXCEPT ![c][n] = "broken"]
      BY <2>4 DEF Breaks
    <3>2. UNCHANGED <<stage, conn, connected, cancelled, done, reader, mine, attempt, tries,
                      closer, notices, told>>
      BY <2>4 DEF Breaks
    <3> QED
      BY <3>1, <3>2, <2>a, OtherChannel DEF TypeOK, SocketState, ChanOK, ChannelsOK
  <2>5. CASE \E up \in BOOLEAN : Delivered(c, up)
    <3>1. PICK up \in BOOLEAN : Delivered(c, up)
      BY <2>5
    <3>2. notices' \in [Chan -> [BOOLEAN -> Nat]] /\ told' \in [Chan -> BOOLEAN]
      BY <3>1 DEF Delivered, TypeOK
    <3> QED
      BY <3>1, <3>2 DEF Delivered, TypeOK, ChanOK, ChannelsOK
  <2>6. CASE \/ ConnectFails(c) \/ ReadOK(c) \/ ReaderTop(c) \/ ReaderLoads(c) \/ ReadError(c)
             \/ GivesUp(c) \/ DelayOver(c) \/ RedialFails(c) \/ ReaderExits(c)
             \/ CloseCancels(c) \/ CloseEnds(c)
    <3>1. UNCHANGED <<socket, conn, connected, notices, told>>
      BY <2>6 DEF ConnectFails, ReadOK, ReaderTop, ReaderLoads, ReadError, GivesUp, DelayOver,
                  RedialFails, ReaderExits, CloseCancels, CloseEnds
    <3>2. TypeOK' /\ ChanOK(c)' /\ \A d \in Chan \ {c} : ChanOK(d)'
      <4>o. \A d \in Chan \ {c} : ChanOK(d)'
        <5>1. ASSUME NEW d \in Chan \ {c} PROVE ChanOK(d)'
          <6>1. /\ socket'[d] = socket[d] /\ conn'[d] = conn[d] /\ connected'[d] = connected[d]
                /\ stage'[d] = stage[d] /\ reader'[d] = reader[d] /\ attempt'[d] = attempt[d]
                /\ tries'[d] = tries[d] /\ closer'[d] = closer[d] /\ done'[d] = done[d]
            BY <2>6, <3>1
               DEF ConnectFails, ReadOK, ReaderTop, ReaderLoads, ReadError, GivesUp, DelayOver,
                   RedialFails, ReaderExits, CloseCancels, CloseEnds, ReaderGoto, TypeOK
          <6>2. ChanOK(d)
            BY DEF ChannelsOK
          <6> QED
            BY <6>1, <6>2, OtherChannel
        <5> QED
          BY <5>1
      <4>u. socket' = socket /\ conn' = conn /\ connected' = connected /\ notices' = notices
            /\ told' = told
        BY <3>1
      <4> USE <4>u, <4>o DEF ReaderAt, ReaderGoto
      <4>1. CASE ConnectFails(c)
        BY <4>1, <2>a DEF ConnectFails, TypeOK, ChanOK
      <4>2. CASE ReadOK(c)
        BY <4>2, <2>a DEF ReadOK, TypeOK, ChanOK, ReaderLabel
      <4>3. CASE ReaderTop(c)
        BY <4>3, <2>a DEF ReaderTop, TypeOK, ChanOK, ReaderLabel
      <4>4. CASE ReaderLoads(c)
        <5>1. CASE conn[c] # 0
          <6>1. /\ reader[c] = "load" /\ reader' = [reader EXCEPT ![c] = "read"]
                /\ mine' = [mine EXCEPT ![c] = conn[c]]
                /\ UNCHANGED <<stage, cancelled, done, attempt, tries, closer>>
            BY <4>4, <5>1 DEF ReaderLoads
          <6> QED
            BY <6>1, <2>a DEF TypeOK, ChanOK, ReaderLabel
        <5>2. CASE conn[c] = 0
          <6>1. /\ reader[c] = "load" /\ reader' = [reader EXCEPT ![c] = "wait"]
                /\ tries' = [tries EXCEPT ![c] = attempt[c]]
                /\ attempt' = [attempt EXCEPT ![c] = 0]
                /\ UNCHANGED <<stage, cancelled, done, mine, closer>>
            BY <4>4, <5>2 DEF ReaderLoads
          <6>2. attempt[c] \in 0..(MaxAttempts + 1)
            BY <6>1, <2>a DEF ChanOK, TypeOK
          <6>3. TypeOK'
            BY <6>1, <6>2 DEF TypeOK, ReaderLabel
          <6>4. ChanOK(c)'
            <7>1. /\ reader'[c] = "wait" /\ attempt'[c] = 0 /\ tries'[c] \in Nat
                  /\ stage'[c] = stage[c] /\ stage[c] # "new" /\ closer'[c] = closer[c]
                  /\ done'[c] = done[c]
              BY <6>1, <6>2, <2>a DEF TypeOK, ChanOK
            <7> QED
              BY <7>1, <5>2, <6>1, <2>a DEF ChanOK
          <6> QED
            BY <6>3, <6>4
        <5> QED
          BY <5>1, <5>2
      <4>5. CASE ReadError(c)
        BY <4>5, <2>a DEF ReadError, TypeOK, ChanOK, ReaderLabel
      <4>6. CASE GivesUp(c)
        BY <4>6, <2>a DEF GivesUp, TypeOK, ChanOK, ReaderLabel
      <4>7. CASE DelayOver(c)
        BY <4>7, <2>a DEF DelayOver, TypeOK, ChanOK, ReaderLabel
      <4>8. CASE RedialFails(c)
        BY <4>8, <2>a DEF RedialFails, TypeOK, ChanOK, ReaderLabel
      <4>9. CASE ReaderExits(c)
        <5>1. CASE /\ reader[c] = "exit"
                   /\ reader' = [reader EXCEPT ![c] = IF done[c] = 0 THEN "closing" ELSE "gone"]
                   /\ UNCHANGED <<cancelled, mine, done, closer, stage, attempt, tries>>
          BY <5>1, <2>a DEF TypeOK, ChanOK, ReaderLabel
        <5>2. CASE /\ reader[c] = "closing" /\ reader' = [reader EXCEPT ![c] = "gone"]
                   /\ done' = [done EXCEPT ![c] = @ + 1]
                   /\ UNCHANGED <<cancelled, mine, closer, stage, attempt, tries>>
          <6>1. done[c] \in 0..2 /\ done[c] + 1 + (IF closer[c] = "closed" THEN 0 ELSE 1) <= 2
            BY <5>2, <2>a DEF TypeOK, ChanOK
          <6>2. done[c] + 1 \in 0..2
            BY <6>1
          <6>3. TypeOK'
            BY <5>2, <6>2 DEF TypeOK, ReaderLabel
          <6>4. reader'[c] = "gone" /\ done'[c] = done[c] + 1
            BY <5>2 DEF TypeOK
          <6>5. ChanOK(c)'
            BY <5>2, <6>1, <6>4, <2>a DEF ChanOK
          <6> QED
            BY <6>3, <6>5
        <5> QED
          BY <4>9, <5>1, <5>2 DEF ReaderExits
      <4>10. CASE CloseCancels(c)
        BY <4>10, <2>a DEF CloseCancels, TypeOK, ChanOK, CloserLabel
      <4>11. CASE CloseEnds(c)
        <5>1. /\ closer[c] = "closing" /\ closer' = [closer EXCEPT ![c] = "closed"]
              /\ done' = [done EXCEPT ![c] = @ + 1]
              /\ UNCHANGED <<stage, cancelled, reader, mine, attempt, tries>>
          BY <4>11 DEF CloseEnds
        <5>2. done[c] \in 0..2 /\ done[c] + 1 + (IF reader[c] = "gone" THEN 0 ELSE 1) <= 2
          BY <5>1, <2>a DEF TypeOK, ChanOK
        <5>3. done[c] + 1 \in 0..2
          BY <5>2
        <5>4. TypeOK'
          BY <5>1, <5>3 DEF TypeOK, CloserLabel
        <5>5. closer'[c] = "closed" /\ done'[c] = done[c] + 1
          BY <5>1 DEF TypeOK
        <5>6. ChanOK(c)'
          BY <5>1, <5>2, <5>5, <2>a DEF ChanOK
        <5> QED
          BY <5>4, <5>6
      <4> QED
        BY <2>6, <4>1, <4>2, <4>3, <4>4, <4>5, <4>6, <4>7, <4>8, <4>9, <4>10, <4>11
    <3> QED
      BY <3>2
  <2> QED
    BY <1>2, <2>1, <2>2, <2>3, <2>4, <2>5, <2>6 DEF ChannelStep
<1> QED
  BY <1>1, <1>2, ChannelCases

-----------------------------------------------------------------------------
(* One channel by itself.                                                   *)

LEMMA ChannelStarts == ChannelInit => TypeOK /\ ChannelsOK
<1> SUFFICES ASSUME ChannelInit PROVE TypeOK /\ ChannelsOK
  OBVIOUS
<1> USE ChannelConstants DEF ChannelInit
<1>1. notices \in [Chan -> [BOOLEAN -> Nat]]
  BY Zenon
<1>2. TypeOK
  BY <1>1 DEF TypeOK, SocketState, ReaderLabel, CloserLabel
<1>3. ChannelsOK
  BY DEF ChannelsOK, ChanOK
<1> QED
  BY <1>2, <1>3

LEMMA ChannelSafe == ChannelSpec => [](TypeOK /\ ChannelsOK)
<1>1. TypeOK /\ ChannelsOK /\ [ChannelNext]_cvars => (TypeOK /\ ChannelsOK)'
  BY ChannelKeeps
<1> QED
  BY <1>1, ChannelStarts, PTL DEF ChannelSpec

LEMMA ChannelMeans == TypeOK /\ ChannelsOK => NoLeakedSocket /\ ReconnectsFromNothing
  BY DEF TypeOK, ChannelsOK, ChanOK, NoLeakedSocket, ReconnectsFromNothing, Open

\* Every variable of a channel keeps to its type; in particular done is closed at most
\* twice, and attempt stays below maxReconnectAttempts + 2 (wecom.go:618-700).
THEOREM ChannelTypes == ChannelSpec => []TypeOK
  BY ChannelSafe, PTL

\* The socket that is open is Channel.conn (wecom.go:132-134, 604-607, 645-650).
THEOREM NoSocketLeaks == ChannelSpec => []NoLeakedSocket
  BY ChannelSafe, ChannelMeans, PTL

\* readLoop dials from nothing (wecom.go:641-657).
THEOREM DialsFromNothing == ChannelSpec => []ReconnectsFromNothing
  BY ChannelSafe, ChannelMeans, PTL

\* What a step says about the callbacks of one channel.
Alternates(d) ==
  /\ \A up \in BOOLEAN : notices'[d][up] > notices[d][up] =>
       /\ connected[d] # up /\ connected'[d] = up
       /\ told[d] # up \/ (up /\ closer[d] = "closed")
  /\ connected'[d] # connected[d] =>
       \/ notices'[d][connected'[d]] = notices[d][connected'[d]] + 1
       \/ closer[d] = "cancelled" /\ closer'[d] # "cancelled"

\* The callback started last tells how the connection is, unless a Close without a callback
\* has dropped it (wecom.go:155-190).
ToldRight ==
  \A d \in Chan : told[d] # connected[d] => told[d] /\ closer[d] \in {"closing", "closed"}

LEMMA ToldKeeps ==
  ASSUME TypeOK, ChannelsOK, ToldRight, NEW c \in Chan, ChannelStep(c)
  PROVE  ToldRight'
<1>c. connected \in [Chan -> BOOLEAN] /\ told \in [Chan -> BOOLEAN]
        /\ closer \in [Chan -> CloserLabel]
  BY DEF TypeOK
<1>1. CASE ConnectOK(c) \/ RedialOK(c)
  <2>1. /\ connected' = [connected EXCEPT ![c] = TRUE] /\ told' = [told EXCEPT ![c] = TRUE]
        /\ closer' = closer
    BY <1>1 DEF ConnectOK, RedialOK, Dialed, Notify
  <2> QED
    BY <1>c, <2>1 DEF ToldRight
<1>2. CASE WriteFails(c) \/ ReaderDrops(c)
  <2>1. DropAndNotify(c) /\ closer' = closer
    BY <1>2 DEF WriteFails, ReaderDrops
  <2>2. connected' = [connected EXCEPT ![c] = FALSE]
    BY <2>1 DEF DropAndNotify, Drop
  <2>3. CASE connected[c]
    <3>1. told' = [told EXCEPT ![c] = FALSE]
      BY <2>1, <2>3 DEF DropAndNotify, Notify
    <3> QED
      BY <1>c, <2>1, <2>2, <3>1 DEF ToldRight
  <2>4. CASE ~ connected[c]
    <3>1. told' = told
      BY <2>1, <2>4 DEF DropAndNotify
    <3> QED
      BY <1>c, <2>1, <2>2, <2>4, <3>1 DEF ToldRight
  <2> QED
    BY <2>3, <2>4
<1>3. CASE CloseDrops(c)
  <2>1. /\ connected' = [connected EXCEPT ![c] = FALSE] /\ told' = told
        /\ closer' = [closer EXCEPT ![c] = IF done[c] = 0 THEN "closing" ELSE "closed"]
    BY <1>3 DEF CloseDrops, Drop
  <2>2. closer'[c] \in {"closing", "closed"}
    BY <1>c, <2>1
  <2> QED
    BY <1>c, <2>1, <2>2 DEF ToldRight
<1>4. CASE CloseCancels(c) \/ CloseEnds(c)
  <2>1. /\ connected' = connected /\ told' = told
        /\ \/ closer[c] = "no" /\ closer' = [closer EXCEPT ![c] = "cancelled"]
           \/ closer[c] = "closing" /\ closer' = [closer EXCEPT ![c] = "closed"]
    BY <1>4 DEF CloseCancels, CloseEnds
  <2> QED
    BY <1>c, <2>1 DEF ToldRight
<1>5. CASE UNCHANGED <<connected, told, closer>>
  BY <1>5 DEF ToldRight
<1> QED
  BY <1>1, <1>2, <1>3, <1>4, <1>5
     DEF ChannelStep, ConnectFails, Breaks, ReadOK, ReaderTop, ReaderLoads, ReadError, GivesUp,
         DelayOver, RedialFails, ReaderExits, Delivered

LEMMA ToldAlways == ChannelSpec => []ToldRight
<1>1. ChannelInit => ToldRight
  BY DEF ChannelInit, ToldRight
<1>2. TypeOK /\ ChannelsOK /\ ToldRight /\ [ChannelNext]_cvars => ToldRight'
  <2>1. CASE UNCHANGED cvars
    BY <2>1 DEF cvars, ToldRight
  <2> QED
    BY <2>1, ToldKeeps, ChannelCases
<1> QED
  BY <1>1, <1>2, ChannelSafe, PTL DEF ChannelSpec

\* A callback that starts counts one more of its kind, and nothing else.
LEMMA NotifyCounts ==
  ASSUME TypeOK, NEW c \in Chan, NEW up \in BOOLEAN, Notify(c, up)
  PROVE  /\ notices'[c][up] = notices[c][up] + 1
         /\ \A v \in BOOLEAN : v # up => notices'[c][v] = notices[c][v]
         /\ \A d \in Chan : d # c => notices'[d] = notices[d]
<1>1. notices \in [Chan -> [BOOLEAN -> Nat]]
  BY DEF TypeOK
<1>2. notices' = [notices EXCEPT ![c] = [notices[c] EXCEPT ![up] = notices[c][up] + 1]]
  BY DEF Notify
<1>3. notices[c] \in [BOOLEAN -> Nat]
  BY <1>1, Zenon
<1>4. notices'[c] = [notices[c] EXCEPT ![up] = notices[c][up] + 1]
        /\ \A d \in Chan : d # c => notices'[d] = notices[d]
  BY <1>1, <1>2, Zenon
<1>5. notices'[c][up] = notices[c][up] + 1
  BY <1>3, <1>4, Zenon
<1>6. \A v \in BOOLEAN : v # up => notices'[c][v] = notices[c][v]
  BY <1>3, <1>4, Zenon
<1> QED
  BY <1>4, <1>5, <1>6, Zenon

LEMMA CountsAreNumbers ==
  ASSUME TypeOK, NEW c \in Chan, NEW up \in BOOLEAN PROVE notices[c][up] \in Nat
<1>1. notices \in [Chan -> [BOOLEAN -> Nat]]
  BY DEF TypeOK
<1>2. notices[c] \in [BOOLEAN -> Nat]
  BY <1>1, Zenon
<1> QED
  BY <1>2, Zenon

LEMMA NoMore ==
  ASSUME TypeOK, NEW c \in Chan, NEW up \in BOOLEAN, notices'[c][up] = notices[c][up]
  PROVE  ~ (notices'[c][up] > notices[c][up])
<1>1. notices[c][up] \in Nat
  BY CountsAreNumbers
<1> QED
  BY <1>1

\* Connecting, losing the connection and anything else, as the callbacks see it.
LEMMA StepAlternates ==
  ASSUME TypeOK, ChannelsOK, ToldRight, NEW c \in Chan, ChannelStep(c)
  PROVE  \A d \in Chan : Alternates(d)
<1>t. TRUE \in BOOLEAN /\ FALSE \in BOOLEAN
  OBVIOUS
<1>c. connected \in [Chan -> BOOLEAN]
  BY DEF TypeOK
<1>same. ASSUME NEW d \in Chan, notices'[d] = notices[d], connected'[d] = connected[d]
         PROVE  Alternates(d)
  <2>1. \A up \in BOOLEAN : ~ (notices'[d][up] > notices[d][up])
    BY <1>same, NoMore, Zenon
  <2> QED
    BY <2>1, <1>same, Zenon DEF Alternates
<1>1. ASSUME Dialed(c), conn[c] = 0, closer[c] # "closing" PROVE \A d \in Chan : Alternates(d)
  <2>1. ~ connected[c] /\ connected[c] = FALSE
    BY <1>1, <1>c DEF ChannelsOK, ChanOK
  <2>0. told[c] # TRUE \/ closer[c] = "closed"
    BY <1>1, <2>1 DEF ToldRight
  <2>2. Notify(c, TRUE) /\ connected' = [connected EXCEPT ![c] = TRUE]
    BY <1>1 DEF Dialed
  <2>3. /\ notices'[c][TRUE] = notices[c][TRUE] + 1 /\ notices'[c][FALSE] = notices[c][FALSE]
        /\ \A d \in Chan : d # c => notices'[d] = notices[d]
    BY <2>2, <1>t, NotifyCounts
  <2>4. connected'[c] = TRUE /\ \A d \in Chan : d # c => connected'[d] = connected[d]
    BY <2>2, <1>c, Zenon
  <2>5. ~ (notices'[c][FALSE] > notices[c][FALSE])
    BY <2>3, <1>t, NoMore, Zenon
  <2>6. notices'[c][connected'[c]] = notices[c][connected'[c]] + 1
    BY <2>3, <2>4, Zenon
  <2>8. \A up \in BOOLEAN : notices'[c][up] > notices[c][up] => up = TRUE
    BY <2>5
  <2>7. Alternates(c)
    BY <2>0, <2>1, <2>4, <2>8, <2>6, Zenon DEF Alternates
  <2> QED
    BY <2>3, <2>4, <2>7, <1>same, Zenon
<1>2. ASSUME DropAndNotify(c) PROVE \A d \in Chan : Alternates(d)
  <2>1. connected' = [connected EXCEPT ![c] = FALSE]
    BY <1>2 DEF DropAndNotify, Drop
  <2>2. connected'[c] = FALSE /\ \A d \in Chan : d # c => connected'[d] = connected[d]
    BY <2>1, <1>c, Zenon
  <2>3. CASE connected[c]
    <3>1. Notify(c, FALSE)
      BY <1>2, <2>3 DEF DropAndNotify
    <3>2. /\ notices'[c][FALSE] = notices[c][FALSE] + 1 /\ notices'[c][TRUE] = notices[c][TRUE]
          /\ \A d \in Chan : d # c => notices'[d] = notices[d]
      BY <3>1, <1>t, NotifyCounts
    <3>3. ~ (notices'[c][TRUE] > notices[c][TRUE])
      BY <3>2, <1>t, NoMore, Zenon
    <3>4. notices'[c][connected'[c]] = notices[c][connected'[c]] + 1
      BY <2>2, <3>2, Zenon
    <3>5. connected[c] # FALSE /\ told[c] # FALSE
      BY <2>3, <1>c DEF ToldRight
    <3>7. \A up \in BOOLEAN : notices'[c][up] > notices[c][up] => up = FALSE
      BY <3>3
    <3>6. Alternates(c)
      BY <2>2, <3>4, <3>5, <3>7, Zenon DEF Alternates
    <3> QED
      BY <2>2, <3>2, <3>6, <1>same, Zenon
  <2>4. CASE ~ connected[c]
    <3>1. notices' = notices
      BY <1>2, <2>4 DEF DropAndNotify
    <3>2. connected[c] = FALSE
      BY <2>4, <1>c, Zenon
    <3>3. \A d \in Chan : connected'[d] = connected[d]
      BY <2>2, <3>2
    <3> QED
      BY <3>1, <3>3, <1>same
  <2> QED
    BY <2>3, <2>4
<1>3. ASSUME NEW up \in BOOLEAN, Delivered(c, up) PROVE \A d \in Chan : Alternates(d)
  <2>1. connected' = connected
          /\ notices' = [notices EXCEPT ![c] = [notices[c] EXCEPT ![up] = notices[c][up] - 1]]
    BY <1>3 DEF Delivered
  <2>2. notices \in [Chan -> [BOOLEAN -> Nat]]
    BY DEF TypeOK
  <2>3. notices'[c] = [notices[c] EXCEPT ![up] = notices[c][up] - 1]
          /\ \A d \in Chan : d # c => notices'[d] = notices[d]
    BY <2>1, <2>2, Zenon
  <2>4. notices[c] \in [BOOLEAN -> Nat]
    BY <2>2, Zenon
  <2>5. \A v \in BOOLEAN : notices'[c][v] = IF v = up THEN notices[c][up] - 1 ELSE notices[c][v]
    BY <2>3, <2>4, Zenon
  <2>6. ~ (notices'[c][TRUE] > notices[c][TRUE]) /\ ~ (notices'[c][FALSE] > notices[c][FALSE])
    <3>1. ASSUME NEW v \in BOOLEAN PROVE ~ (notices'[c][v] > notices[c][v])
      <4>1. notices[c][v] \in Nat
        BY CountsAreNumbers
      <4>2. CASE v = up
        <5>1. notices'[c][v] = notices[c][v] - 1
          BY <2>5, <4>2
        <5> QED
          BY <4>1, <5>1
      <4>3. CASE v # up
        <5>1. notices'[c][v] = notices[c][v]
          BY <2>5, <4>3
        <5> QED
          BY <4>1, <5>1
      <4> QED
        BY <4>2, <4>3
    <3> QED
      BY <3>1, <1>t
  <2>7. Alternates(c)
    <3>1. \A v \in BOOLEAN : ~ (notices'[c][v] > notices[c][v])
      BY <2>6
    <3> QED
      BY <2>1, <3>1 DEF Alternates
  <2> QED
    BY <2>1, <2>3, <2>7, <1>same
<1>4. CASE ConnectOK(c) \/ RedialOK(c)
  <2>1. Dialed(c) /\ conn[c] = 0 /\ closer[c] # "closing"
    BY <1>4 DEF ConnectOK, RedialOK, ReaderAt, ChannelsOK, ChanOK, MuFree
  <2> QED
    BY <2>1, <1>1
<1>5. CASE WriteFails(c) \/ ReaderDrops(c)
  <2>1. DropAndNotify(c)
    BY <1>5 DEF WriteFails, ReaderDrops
  <2> QED
    BY <2>1, <1>2
<1>6. CASE CloseDrops(c)
  <2>1. /\ notices' = notices /\ connected' = [connected EXCEPT ![c] = FALSE]
        /\ closer' = [closer EXCEPT ![c] = IF done[c] = 0 THEN "closing" ELSE "closed"]
    BY <1>6 DEF CloseDrops, Drop
  <2>2. closer[c] = "cancelled" /\ closer'[c] # "cancelled"
    BY <1>6, <2>1 DEF CloseDrops, TypeOK
  <2>3. \A up \in BOOLEAN : ~ (notices'[c][up] > notices[c][up])
    BY <2>1, NoMore, Zenon
  <2>5. Alternates(c)
    BY <2>2, <2>3, Zenon DEF Alternates
  <2>4. \A d \in Chan : d # c => connected'[d] = connected[d]
    BY <2>1, <1>c, Zenon
  <2> QED
    BY <2>1, <2>4, <2>5, <1>same, Zenon
<1>7. CASE UNCHANGED <<connected, notices, told>>
  BY <1>7, <1>same
<1> QED
  BY <1>3, <1>4, <1>5, <1>6, <1>7
     DEF ChannelStep, ConnectFails, Breaks, ReadOK, ReaderTop, ReaderLoads, ReadError, GivesUp,
         DelayOver, RedialFails, ReaderExits, CloseCancels, CloseEnds

\* Whoever notices that the connection is lost, one callback tells of it; the callbacks
\* started say "connected" and "lost" in turn, but for a redial that overlaps a Close
\* (wecom.go:155-190, 609-613, 650-655).
THEOREM CallbacksAlternate == ChannelSpec => NoticesAlternate
<1>1. TypeOK /\ ChannelsOK /\ ToldRight /\ [ChannelNext]_cvars
        => [\A c \in Chan : Alternates(c)]_cvars
  BY StepAlternates, ChannelCases
<1>2. [\A c \in Chan : Alternates(c)]_cvars
        => [\A c \in Chan :
              /\ \A up \in BOOLEAN : notices'[c][up] > notices[c][up] =>
                   /\ connected[c] # up /\ connected'[c] = up
                   /\ told[c] # up \/ (up /\ closer[c] = "closed")
              /\ connected'[c] # connected[c] =>
                   \/ notices'[c][connected'[c]] = notices[c][connected'[c]] + 1
                   \/ closer[c] = "cancelled" /\ closer'[c] # "cancelled"]_cvars
  BY DEF Alternates
<1> QED
  BY <1>1, <1>2, ChannelSafe, ToldAlways, PTL DEF ChannelSpec, NoticesAlternate

-----------------------------------------------------------------------------
(* The gateway over its channels.                                           *)

\* The channels that were connected and that nobody closes.
Running == {c \in Chan : stage[c] = "opened" /\ closer[c] = "no"}

GatewayTypes ==
  /\ entry \in Chan \cup {None} /\ shown \in BOOLEAN
  /\ pc \in [Request -> Label]
  /\ chan \in [Request -> [c : Chan \cup {None}, next : {"open", "end"}]]

\* Gateway.mu is a mutex, and between the steps of who holds it the entry runs or is being
\* connected or closed (gateway.go:73-138).
OneHolder == \A q, r \in Request : pc[q] \in Locked /\ pc[r] \in Locked => q = r

EntryOK ==
  /\ GMuFree => Running = {entry} \ {None}
  /\ \A r \in Request :
       /\ pc[r] \in Locked => entry = chan[r].c /\ entry \in Chan
       /\ pc[r] = "connecting" => stage[entry] = "new" /\ Running = {}
       /\ pc[r] = "connected" => Running = {entry}
       /\ pc[r] = "closing" => closer[entry] # "no" /\ Running = {}

GatewayOK == GatewayTypes /\ OneHolder /\ EntryOK

\* Every step of the gateway is one of its channels, or none of theirs.
LEMMA GatewayMovesChannels ==
  ASSUME GatewayTypes, EntryOK, [Next]_vars PROVE [ChannelNext]_cvars
<1>1. CASE UNCHANGED cvars
  BY <1>1
<1>2. ASSUME NEW r \in Request, Connected(r) \/ NotConnected(r) \/ CloseGoesOn(r)
      PROVE  ChannelNext
  <2>1. chan[r].c \in Chan
    BY <1>2 DEF EntryOK, Connected, NotConnected, CloseGoesOn, At, Locked
  <2> QED
    BY <1>2, <2>1 DEF Connected, NotConnected, CloseGoesOn, ChannelNext, Close
<1>3. ASSUME NEW r \in Request, CloseBegins(r) PROVE ChannelNext
  <2>1. entry \in Chan
    BY <1>3 DEF CloseBegins, GatewayTypes
  <2> QED
    BY <1>3, <2>1 DEF CloseBegins, ChannelNext, Close
<1>4. ASSUME NEW c \in Chan, ChannelRuns(c) \/ Callback(c) PROVE ChannelNext
  BY <1>4 DEF ChannelRuns, Callback, UpdateConnState, ChannelNext
<1> QED
  BY <1>1, <1>2, <1>3, <1>4
     DEF Next, vars, RequestStep, Call, OpenExisting, OpenNew, OpenReturns, CloseNothing,
         CloseReturns, CheckStatus

\* A step that leaves the life of the channels and the requests alone, leaves the rest.
LEMMA StillOK ==
  ASSUME GatewayOK, UNCHANGED <<stage, closer, entry, pc, chan>>, shown' \in BOOLEAN
  PROVE  GatewayOK'
<1>1. Running' = Running
  BY DEF Running
<1> QED
  BY <1>1 DEF GatewayOK, GatewayTypes, OneHolder, EntryOK, GMuFree

\* A request that takes or keeps the mutex is the only one that holds it.
LEMMA StillOneHolder ==
  ASSUME GatewayTypes, OneHolder, NEW r \in Request, NEW l \in Label, Goto(r, l),
         GMuFree \/ pc[r] \in Locked
  PROVE  OneHolder' /\ \A q \in Request : q # r => pc'[q] = pc[q] /\ pc'[q] \notin Locked
<1>1. \A q \in Request : q # r => pc'[q] = pc[q] /\ pc[q] \notin Locked
  BY DEF GatewayTypes, Goto, GMuFree, OneHolder
<1> QED
  BY <1>1 DEF OneHolder

\* One step of a request keeps the registration in order.
LEMMA RequestKeeps ==
  ASSUME TypeOK, ChannelsOK, GatewayOK, NEW r \in Request, Call(r) \/ RequestStep(r)
  PROVE  GatewayOK'
<1> USE DEF GatewayOK, At, Locked, GMuFree
<1>l. {"idle", "open", "reopen", "shutdown", "end", "closing", "connecting", "connected"}
        = Label
  BY DEF Label
<1>r. ASSUME stage' = stage, closer' = closer PROVE Running' = Running
  BY <1>r DEF Running
<1>1. CASE Call(r) \/ OpenExisting(r) \/ CloseNothing(r)
  <2>1. PICK l \in Label \ Locked : pc' = [pc EXCEPT ![r] = l]
    BY <1>1, <1>l DEF Call, OpenExisting, CloseNothing, After, Goto
  <2>2. pc[r] \notin Locked /\ UNCHANGED <<cvars, entry, shown, chan>>
    BY <1>1 DEF Call, OpenExisting, CloseNothing
  <2>3. Running' = Running
    BY <2>2, <1>r DEF cvars
  <2>4. \A q \in Request : (pc'[q] \in Locked <=> pc[q] \in Locked)
                             /\ (pc'[q] \in Locked => pc'[q] = pc[q])
    BY <2>1, <2>2 DEF GatewayTypes
  <2>5. GatewayTypes'
    BY <2>1, <2>2 DEF GatewayTypes
  <2>6. OneHolder'
    BY <2>4 DEF OneHolder
  <2>7. stage' = stage /\ closer' = closer /\ entry' = entry /\ chan' = chan
    BY <2>2 DEF cvars
  <2>8. EntryOK'
    BY <2>3, <2>4, <2>7 DEF EntryOK
  <2> QED
    BY <2>5, <2>6, <2>8
<1>2. CASE OpenNew(r)
  <2>1. PICK c \in Chan : /\ stage[c] = "new" /\ entry' = c
                          /\ chan' = [chan EXCEPT ![r] = [c |-> c, next |-> "end"]]
    BY <1>2 DEF OpenNew
  <2>2. /\ entry = None /\ GMuFree /\ shown' = FALSE /\ Goto(r, "connecting")
        /\ stage' = stage /\ closer' = closer
    BY <1>2 DEF OpenNew, cvars
  <2>3. Running' = {}
    BY <2>2, <1>r DEF EntryOK
  <2>4. OneHolder' /\ \A q \in Request : q # r => pc'[q] \notin Locked
    BY <2>2, <1>l, StillOneHolder
  <2>5. GatewayTypes'
    BY <2>1, <2>2, <1>l DEF GatewayTypes, Goto
  <2>6. pc'[r] = "connecting" /\ chan'[r].c = c
    BY <2>1, <2>2 DEF GatewayTypes, Goto
  <2>7. EntryOK'
    BY <2>1, <2>2, <2>3, <2>4, <2>6 DEF EntryOK
  <2> QED
    BY <2>4, <2>5, <2>7
<1>3. CASE Connected(r)
  <2>1. /\ pc[r] = "connecting" /\ Goto(r, "connected") /\ UNCHANGED <<entry, shown, chan>>
        /\ entry = chan[r].c /\ entry \in Chan /\ Running = {}
    BY <1>3 DEF Connected, EntryOK
  <2>2. stage' = [stage EXCEPT ![entry] = "opened"] /\ closer' = closer /\ stage[entry] = "new"
    BY <1>3, <2>1 DEF Connected, ConnectOK
  <2>3. closer[entry] = "no"
    BY <2>1, <2>2 DEF ChannelsOK, ChanOK
  <2>4. Running' = {entry}
    BY <2>1, <2>2, <2>3 DEF Running, TypeOK
  <2>5. OneHolder' /\ \A q \in Request : q # r => pc'[q] \notin Locked
    BY <2>1, <1>l, StillOneHolder
  <2>6. GatewayTypes' /\ pc'[r] = "connected"
    BY <2>1, <1>l DEF GatewayTypes, Goto
  <2>7. EntryOK'
    BY <2>1, <2>4, <2>5, <2>6 DEF EntryOK
  <2> QED
    BY <2>5, <2>6, <2>7
<1>4. CASE NotConnected(r)
  <2>1. /\ pc[r] = "connecting" /\ Goto(r, "end") /\ UNCHANGED <<shown, chan>>
        /\ entry = chan[r].c /\ entry \in Chan /\ Running = {} /\ entry' = None
    BY <1>4 DEF NotConnected, EntryOK
  <2>2. stage' = [stage EXCEPT ![entry] = "failed"] /\ closer' = closer
    BY <1>4, <2>1 DEF NotConnected, ConnectFails
  <2>3. Running' = {}
    BY <2>1, <2>2 DEF Running, TypeOK
  <2>4. OneHolder' /\ \A q \in Request : q # r => pc'[q] \notin Locked
    BY <2>1, <1>l, StillOneHolder
  <2>5. GatewayTypes' /\ pc'[r] = "end"
    BY <2>1, <1>l DEF GatewayTypes, Goto
  <2>6. EntryOK'
    BY <2>1, <2>3, <2>4, <2>5 DEF EntryOK
  <2> QED
    BY <2>4, <2>5, <2>6
<1>5. CASE OpenReturns(r)
  <2>1. /\ pc[r] = "connected" /\ Goto(r, "end") /\ UNCHANGED <<entry, shown, chan>>
        /\ stage' = stage /\ closer' = closer
        /\ entry \in Chan /\ Running = {entry}
    BY <1>5 DEF OpenReturns, EntryOK, cvars
  <2>2. OneHolder' /\ \A q \in Request : q # r => pc'[q] \notin Locked
    BY <2>1, <1>l, StillOneHolder
  <2>3. GatewayTypes' /\ pc'[r] = "end"
    BY <2>1, <1>l DEF GatewayTypes, Goto
  <2>4. Running' = {entry} /\ entry # None
    BY <2>1, <1>r, GatewayConstants
  <2>5. EntryOK'
    BY <2>1, <2>2, <2>3, <2>4 DEF EntryOK
  <2> QED
    BY <2>2, <2>3, <2>5
<1>6. CASE CloseBegins(r)
  <2>1. /\ GMuFree /\ entry # None /\ Goto(r, "closing") /\ UNCHANGED <<entry, shown>>
        /\ chan' = [chan EXCEPT ![r] = [c |-> entry, next |-> After(r)]]
        /\ closer' = [closer EXCEPT ![entry] = "cancelled"] /\ stage' = stage
        /\ After(r) \in {"open", "end"}
    BY <1>6 DEF CloseBegins, CloseCancels, After
  <2>2. entry \in Chan /\ Running = {entry}
    BY <2>1 DEF GatewayTypes, EntryOK
  <2>3. closer'[entry] = "cancelled" /\ \A c \in Chan : c # entry => closer'[c] = closer[c]
    BY <2>1, <2>2 DEF TypeOK
  <2>4. Running' = {}
    BY <2>1, <2>2, <2>3 DEF Running
  <2>5. OneHolder' /\ \A q \in Request : q # r => pc'[q] \notin Locked
    BY <2>1, <1>l, StillOneHolder
  <2>6. GatewayTypes' /\ pc'[r] = "closing" /\ chan'[r].c = entry
    BY <2>1, <2>2, <1>l DEF GatewayTypes, Goto
  <2>7. EntryOK'
    BY <2>1, <2>2, <2>3, <2>4, <2>5, <2>6 DEF EntryOK
  <2> QED
    BY <2>5, <2>6, <2>7
<1>7. CASE CloseGoesOn(r)
  <2>1. /\ pc[r] = "closing" /\ UNCHANGED gvars
        /\ entry = chan[r].c /\ entry \in Chan /\ Running = {}
    BY <1>7 DEF CloseGoesOn, EntryOK
  <2>2. PICK l \in {"closing", "closed"} : closer' = [closer EXCEPT ![entry] = l]
    BY <1>7, <2>1 DEF CloseGoesOn, CloseDrops, CloseEnds
  <2>3. stage' = stage
    BY <1>7 DEF CloseGoesOn, CloseDrops, CloseEnds
  <2>4. Running' = {} /\ closer'[entry] # "no"
    BY <2>1, <2>2, <2>3 DEF Running, TypeOK
  <2>5. entry' = entry /\ shown' = shown /\ pc' = pc /\ chan' = chan
    BY <2>1 DEF gvars
  <2>6. \A q \in Request : pc[q] \in Locked => q = r
    BY <2>1 DEF OneHolder
  <2>7. GatewayTypes' /\ OneHolder'
    BY <2>5 DEF GatewayTypes, OneHolder
  <2>8. EntryOK'
    BY <2>1, <2>4, <2>5, <2>6 DEF EntryOK
  <2> QED
    BY <2>7, <2>8
<1>8. CASE CloseReturns(r)
  <2>1. /\ pc[r] = "closing" /\ Goto(r, chan[r].next) /\ UNCHANGED <<shown, chan>>
        /\ stage' = stage /\ closer' = closer /\ entry' = None /\ Running = {}
    BY <1>8 DEF CloseReturns, EntryOK, cvars
  <2>2. chan[r].next \in {"open", "end"}
    BY DEF GatewayTypes
  <2>3. OneHolder' /\ \A q \in Request : q # r => pc'[q] \notin Locked
    BY <2>1, <2>2, <1>l, StillOneHolder
  <2>4. GatewayTypes' /\ pc'[r] \notin Locked
    BY <2>1, <2>2, <1>l DEF GatewayTypes, Goto
  <2>5. Running' = {}
    BY <2>1, <1>r
  <2>6. EntryOK'
    BY <2>1, <2>3, <2>4, <2>5 DEF EntryOK
  <2> QED
    BY <2>3, <2>4, <2>6
<1> QED
  BY <1>1, <1>2, <1>3, <1>4, <1>5, <1>6, <1>7, <1>8 DEF RequestStep

LEMMA GatewayKeeps ==
  ASSUME TypeOK, ChannelsOK, GatewayOK, [Next]_vars PROVE GatewayOK'
<1>1. CASE UNCHANGED vars
  BY <1>1, StillOK DEF vars, cvars, gvars, GatewayOK, GatewayTypes
<1>2. ASSUME NEW r \in Request, Call(r) \/ RequestStep(r) PROVE GatewayOK'
  BY <1>2, RequestKeeps
<1>3. ASSUME NEW c \in Chan, ChannelRuns(c) PROVE GatewayOK'
  <2>1. UNCHANGED <<stage, closer>>
    BY <1>3 DEF ChannelRuns, Environment, Reader, WriteFails, Breaks, ReadOK, ReaderTop,
                ReaderLoads, ReadError, ReaderDrops, GivesUp, DelayOver, RedialOK, RedialFails,
                ReaderExits
  <2> QED
    BY <1>3, <2>1, StillOK DEF ChannelRuns, gvars, GatewayOK, GatewayTypes
<1>4. ASSUME NEW c \in Chan, Callback(c) PROVE GatewayOK'
  BY <1>4, StillOK DEF Callback, UpdateConnState, Delivered, GatewayOK, GatewayTypes
<1>5. CASE CheckStatus
  <2>1. entry \in Chan /\ shown' = connected[entry]
    BY <1>5 DEF CheckStatus, GatewayOK, GatewayTypes
  <2>2. shown' \in BOOLEAN
    BY <2>1, Zenon DEF TypeOK
  <2> QED
    BY <1>5, <2>2, StillOK DEF CheckStatus, cvars
<1> QED
  BY <1>1, <1>2, <1>3, <1>4, <1>5 DEF Next

LEMMA GatewayStarts == Init => GatewayOK
<1> SUFFICES ASSUME Init PROVE GatewayOK
  OBVIOUS
<1>1. \A r \in Request : pc[r] \notin Locked
  BY DEF Init, Locked
<1>2. \A c \in Chan : stage[c] = "new"
  BY DEF Init, ChannelInit
<1>3. Running = {} /\ {entry} \ {None} = {}
  BY <1>2 DEF Running, Init
<1>4. pc \in [Request -> Label]
  BY DEF Init, Label
<1>5. chan \in [Request -> [c : Chan \cup {None}, next : {"open", "end"}]]
  BY DEF Init
<1>6. GatewayTypes
  BY <1>4, <1>5 DEF Init, GatewayTypes
<1> QED
  BY <1>1, <1>3, <1>6 DEF GatewayOK, OneHolder, EntryOK, Locked

LEMMA GatewaySafe == Spec => [](TypeOK /\ ChannelsOK /\ GatewayOK)
<1>1. Init => TypeOK /\ ChannelsOK /\ GatewayOK
  BY GatewayStarts, ChannelStarts DEF Init
<1>2. TypeOK /\ ChannelsOK /\ GatewayOK /\ [Next]_vars => (TypeOK /\ ChannelsOK /\ GatewayOK)'
  BY GatewayKeeps, GatewayMovesChannels, ChannelKeeps DEF GatewayOK
<1> QED
  BY <1>1, <1>2, PTL DEF Spec

\* The gateway keeps to its types, and one request at most holds its mutex
\* (gateway.go:73-138).
THEOREM GatewayTypeCorrect == Spec => []GatewayTypeOK
<1>1. TypeOK /\ GatewayOK => GatewayTypeOK
  <2> SUFFICES ASSUME TypeOK, GatewayOK
               PROVE  Cardinality({r \in Request : pc[r] \in Locked}) <= 1
    BY DEF GatewayOK, GatewayTypes, GatewayTypeOK
  <2>1. CASE \A r \in Request : pc[r] \notin Locked
    <3>1. {r \in Request : pc[r] \in Locked} = {}
      BY <2>1
    <3> QED
      BY <3>1, FS_EmptySet
  <2>2. CASE \E r \in Request : pc[r] \in Locked
    <3>1. PICK r \in Request : pc[r] \in Locked
      BY <2>2
    <3>2. {q \in Request : pc[q] \in Locked} = {r}
      BY <3>1 DEF GatewayOK, OneHolder
    <3>3. Cardinality({r}) = 1
      BY FS_Singleton
    <3>4. Cardinality({q \in Request : pc[q] \in Locked}) = 1
      BY <3>2, <3>3, Zenon
    <3> QED
      BY <3>4
  <2> QED
    BY <2>1, <2>2
<1> QED
  BY <1>1, GatewaySafe, PTL

\* Racing opens, reopens and shutdowns neither connect a bot twice nor register a channel
\* that is not running, for any number of requests (gateway.go:77-107, 132-138).
THEOREM RegisteredRuns == Spec => []RegisteredIsRunning
<1>1. GatewayOK => RegisteredIsRunning
  BY DEF GatewayOK, EntryOK, RegisteredIsRunning, Running
<1> QED
  BY <1>1, GatewaySafe, PTL

\* Under the gateway too, a channel leaks no socket and dials from nothing.
THEOREM ChannelsUnderGateway == Spec => [](NoLeakedSocket /\ ReconnectsFromNothing)
  BY GatewaySafe, ChannelMeans, PTL
=============================================================================

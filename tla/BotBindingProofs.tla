--------------------------- MODULE BotBindingProofs ---------------------------
(***************************************************************************)
(* What BotBinding guarantees for any number of bots, sessions, requests   *)
(* and restarts.                                                           *)
(*                                                                         *)
(* NeverAnothersBot is not inductive: a binding is written from what a     *)
(* goroutine took with it two statements earlier, so the invariant says of *)
(* every goroutine on its way that its session was made for its bot.       *)
(***************************************************************************)
EXTENDS BotBinding, TLAPS

\* A goroutine that works on a bot has one, which is in the table unless it is about to be
\* added; and the session it binds is a row made for that bot (bots.go:112-127).
LocalOK ==
  \A h \in Handler :
    /\ BotAt(h) \in Bot <=> pc[h] \notin {"idle", "end"}
    /\ pc[h] \notin {"idle", "end", "add"} => botStatus[BotAt(h)] # "absent"
    /\ pc[h] \in {"bind1", "bind2"} => local[h].id \in rows /\ madeFor[local[h].id] = BotAt(h)

\* The steps of Next, one by one.
LEMMA StepCases ==
  ASSUME Next
  PROVE  \/ \E h \in Handler :
              \/ CreateRequest(h) \/ AddBot(h) \/ AddBotDuplicate(h)
              \/ OpenChannel(h) \/ OpenChannelFails(h) \/ UndoRelease(h)
              \/ NewRequest(h) \/ NewReleases(h) \/ NewReleaseFails(h)
              \/ CreateSession(h) \/ BindFirst(h) \/ BindSecond(h) \/ BindFails(h)
              \/ ReleaseSessions(h, "undo1", "undo2")
              \/ ReleaseSessions(h, "release1", "release2")
         \/ Restart
         \/ \E b \in Bot : Reconnect(b) \/ Reopen(b)
  BY DEF Next, CreatorStep, NewStep, BindStep, Handler

\* Every step keeps the types and what the goroutines hold (bots.go:112-141,
\* controller.go, handler.go:158-214).
LEMMA TypeStep == ASSUME TypeOK, LocalOK, [Next]_vars PROVE TypeOK' /\ LocalOK'
<1> USE BindingConstants
<1>1. CASE UNCHANGED vars
  BY <1>1 DEF vars, dbVars, TypeOK, LocalOK, BotAt
<1>2. ASSUME NEW h \in Handler, CreateRequest(h) PROVE TypeOK' /\ LocalOK'
  BY <1>2 DEF CreateRequest, dbVars, At, Goto, TypeOK, LocalOK, BotAt, Label
<1>3. ASSUME NEW h \in Handler, AddBot(h) PROVE TypeOK' /\ LocalOK'
  BY <1>3 DEF AddBot, At, Goto, TypeOK, LocalOK, BotAt, Label
<1>4. ASSUME NEW h \in Handler,
             AddBotDuplicate(h) \/ OpenChannel(h) \/ BindFails(h)
      PROVE  TypeOK' /\ LocalOK'
  <2>1. /\ UNCHANGED <<dbVars, todo, crashes, madeFor>>
        /\ Return(h)
    BY <1>4 DEF AddBotDuplicate, OpenChannel, BindFails
  <2>2. open' \subseteq Bot /\ excused' \subseteq Bot
    BY <1>4 DEF AddBotDuplicate, OpenChannel, BindFails, At, Excuse, TypeOK, LocalOK
  <2> QED
    BY <2>1, <2>2 DEF dbVars, Goto, Return, NoLocal, TypeOK, LocalOK, BotAt, Label
<1>5. ASSUME NEW h \in Handler, OpenChannelFails(h) \/ NewReleaseFails(h)
      PROVE  TypeOK' /\ LocalOK'
  BY <1>5 DEF OpenChannelFails, NewReleaseFails, dbVars, At, Goto, Excuse, TypeOK, LocalOK,
              BotAt, Label
<1>6. ASSUME NEW h \in Handler, NewReleases(h) PROVE TypeOK' /\ LocalOK'
  BY <1>6 DEF NewReleases, ReleaseBot, At, Goto, TypeOK, LocalOK, BotAt, Label
<1>7. ASSUME NEW h \in Handler, UndoRelease(h) PROVE TypeOK' /\ LocalOK'
  BY <1>7 DEF UndoRelease, ReleaseBot, At, Goto, Return, NoLocal, Excuse, TypeOK, LocalOK,
              BotAt, Label
<1>8. ASSUME NEW h \in Handler, NewRequest(h) PROVE TypeOK' /\ LocalOK'
  BY <1>8 DEF NewRequest, dbVars, At, Goto, TypeOK, LocalOK, BotAt, Label
<1>9. ASSUME NEW h \in Handler, CreateSession(h) PROVE TypeOK' /\ LocalOK'
  BY <1>9 DEF CreateSession, At, Goto, TypeOK, LocalOK, BotAt, Label
<1>10. ASSUME NEW h \in Handler, BindFirst(h) PROVE TypeOK' /\ LocalOK'
  <2>a. BotAt(h) \in Bot /\ local[h].id \in rows
    BY <1>10 DEF BindFirst, At, LocalOK
  <2>b. /\ botStatus' \in [Bot -> {"absent", "idle", "bound"}]
        /\ botSession' \in [Bot -> rows \cup {None}]
        /\ \A b \in Bot : (botSession'[b] # None) <=> (botStatus'[b] = "bound")
        /\ \A b \in Bot : botStatus[b] # "absent" => botStatus'[b] # "absent"
    BY <1>10, <2>a DEF BindFirst, BindBot, TypeOK
  <2>c. /\ pc' \in [Handler -> Label]
        /\ UNCHANGED <<rows, botOf, open, todo, crashes, local, madeFor, excused>>
    BY <1>10 DEF BindFirst, Goto, TypeOK, Label
  <2>1. TypeOK'
    BY <2>b, <2>c DEF TypeOK
  <2>2. LocalOK'
    BY <1>10 DEF BindFirst, BindBot, At, Goto, TypeOK, LocalOK, BotAt, Label
  <2> QED
    BY <2>1, <2>2
<1>11. ASSUME NEW h \in Handler, BindSecond(h) PROVE TypeOK' /\ LocalOK'
  <2>1. BotAt(h) \in Bot /\ botStatus[BotAt(h)] # "absent" /\ local[h].id \in rows
    BY <1>11 DEF BindSecond, At, LocalOK
  <2>2. botOf' = [botOf EXCEPT ![local[h].id] = BotAt(h)]
          /\ UNCHANGED <<botStatus, botSession, rows, open, todo, crashes, madeFor, excused>>
    BY <1>11 DEF BindSecond
  <2>3. CASE Goto(h, "open") /\ UNCHANGED local
    BY <2>1, <2>2, <2>3 DEF Goto, TypeOK, LocalOK, BotAt, Label
  <2>4. CASE Return(h)
    BY <2>1, <2>2, <2>4 DEF Goto, Return, NoLocal, TypeOK, LocalOK, BotAt, Label
  <2> QED
    BY <1>11, <2>3, <2>4 DEF BindSecond
<1>12. ASSUME NEW h \in Handler,
              \/ ReleaseSessions(h, "undo1", "undo2")
              \/ ReleaseSessions(h, "release1", "release2")
       PROVE  TypeOK' /\ LocalOK'
  BY <1>12 DEF ReleaseSessions, Unbound, At, Goto, TypeOK, LocalOK, BotAt, Label
<1>13. ASSUME Restart PROVE TypeOK' /\ LocalOK'
  BY <1>13 DEF Restart, dbVars, At, NoLocal, TypeOK, LocalOK, BotAt, Label
<1>14. ASSUME NEW b \in Bot, Reconnect(b) \/ Reopen(b) PROVE TypeOK' /\ LocalOK'
  BY <1>14 DEF Reconnect, Reopen, dbVars, TypeOK, LocalOK, BotAt
<1> QED
  <2>1. CASE Next
    BY <2>1, <1>2, <1>3, <1>4, <1>5, <1>6, <1>7, <1>8, <1>9, <1>10, <1>11, <1>12, <1>13, <1>14,
       StepCases, Zenon
  <2> QED
    BY <1>1, <2>1

\* At the start there is nothing in the tables and nobody at work.
LEMMA TypeStart == ASSUME Init PROVE TypeOK /\ LocalOK
<1> USE BindingConstants DEF Init, NoLocal
<1>1. pc \in [Handler -> Label] /\ crashes \in 0..MaxCrash
  BY DEF Label
<1>2. /\ botStatus \in [Bot -> {"absent", "idle", "bound"}]
      /\ botSession \in [Bot -> rows \cup {None}]
      /\ botOf \in [Session -> Bot \cup {None}]
      /\ local \in [Handler -> [bot : Bot \cup {None}, id : Session \cup {None}]]
      /\ madeFor \in [Session -> Bot \cup {None}]
  OBVIOUS
<1>3. /\ \A b \in Bot : botSession[b] = None /\ botStatus[b] = "absent"
      /\ \A s \in Session : botOf[s] = None
  OBVIOUS
<1>4. LocalOK
  BY DEF LocalOK, BotAt
<1> QED
  BY <1>1, <1>2, <1>3, <1>4 DEF TypeOK

\* Every variable has its type, and the two columns of a bot's row agree with its status, in
\* every reachable state (store/bots.go:112-141).
THEOREM TypeCorrect == Spec => []TypeOK
  BY TypeStart, TypeStep, PTL DEF Spec

\* No statement binds a session to another bot than the one it was made for
\* (bots.go:112-127, sessions.go:75-86).
LEMMA NeverStep ==
  ASSUME TypeOK, LocalOK, NeverAnothersBot, [Next]_vars PROVE NeverAnothersBot'
<1> USE BindingConstants DEF TypeOK, NeverAnothersBot
<1>1. CASE UNCHANGED <<botSession, botOf, madeFor>>
  BY <1>1
<1>2. ASSUME NEW h \in Handler, AddBot(h) PROVE UNCHANGED <<botSession, botOf, madeFor>>
  BY <1>2 DEF AddBot
<1>3. ASSUME NEW h \in Handler, NewReleases(h) \/ UndoRelease(h) PROVE NeverAnothersBot'
  BY <1>3 DEF NewReleases, UndoRelease, ReleaseBot
<1>4. ASSUME NEW h \in Handler, CreateSession(h) PROVE NeverAnothersBot'
  BY <1>4 DEF CreateSession
<1>5. ASSUME NEW h \in Handler, BindFirst(h) PROVE NeverAnothersBot'
  BY <1>5 DEF BindFirst, BindBot, LocalOK, At, BotAt
<1>6. ASSUME NEW h \in Handler, BindSecond(h) PROVE NeverAnothersBot'
  BY <1>6 DEF BindSecond, LocalOK, At, BotAt
<1>7. ASSUME NEW h \in Handler,
             \/ ReleaseSessions(h, "undo1", "undo2")
             \/ ReleaseSessions(h, "release1", "release2")
      PROVE  NeverAnothersBot'
  BY <1>7 DEF ReleaseSessions, Unbound
<1>8. ASSUME NEW h \in Handler,
             \/ CreateRequest(h) \/ AddBotDuplicate(h) \/ OpenChannel(h) \/ OpenChannelFails(h)
             \/ NewRequest(h) \/ NewReleaseFails(h) \/ BindFails(h)
      PROVE  UNCHANGED <<botSession, botOf, madeFor>>
  BY <1>8 DEF CreateRequest, AddBotDuplicate, OpenChannel, OpenChannelFails, NewRequest,
              NewReleaseFails, BindFails, dbVars
<1>9. ASSUME Restart \/ \E b \in Bot : Reconnect(b) \/ Reopen(b)
      PROVE  UNCHANGED <<botSession, botOf, madeFor>>
  BY <1>9 DEF Restart, Reconnect, Reopen, dbVars
<1>10. ASSUME UNCHANGED vars PROVE UNCHANGED <<botSession, botOf, madeFor>>
  BY <1>10 DEF vars, dbVars
<1> QED
  BY <1>1, <1>2, <1>3, <1>4, <1>5, <1>6, <1>7, <1>8, <1>9, <1>10, StepCases

\* Whatever fails or races, a session is bound to no other bot than the one it was made
\* for, for any number of bots, sessions, requests and restarts (bots.go:112-127).
THEOREM SessionsStayWithTheirBot == Spec => []NeverAnothersBot
<1>1. Init => NeverAnothersBot
  BY DEF Init, NeverAnothersBot
<1> QED
  BY <1>1, TypeStart, TypeStep, NeverStep, PTL DEF Spec
-----------------------------------------------------------------------------
\* Both sides of a bot's binding are there and agree; no session has the bot.
Both(b) == botStatus[b] = "bound" /\ \A s \in Session : botOf[s] = b <=> s = botSession[b]
NoSession(b) == \A s \in Session : botOf[s] # b

\* A goroutine past the check of the request.
Past(h, b) == BotAt(h) = b /\ pc[h] # "add"

\* What the tables hold of a bot between any two statements of the one goroutine that works
\* on it (bots.go:112-141).
Between(b) ==
  /\ \A g, h \in Handler : Past(g, b) /\ Past(h, b) => g = h
  /\ botStatus[b] # "absent" /\ (\A h \in Handler : ~ Past(h, b)) => Both(b)
  /\ \A h \in Handler : Past(h, b) =>
       /\ pc[h] \in {"release1", "open", "undo1"} => Both(b)
       /\ pc[h] \in {"release2", "bind2", "undo2"} => botStatus[b] = "bound" /\ NoSession(b)
       /\ pc[h] \in {"create", "bind1"} => botStatus[b] = "idle" /\ NoSession(b)
       /\ pc[h] = "bind2" => botSession[b] = local[h].id

BetweenStatements == \A b \in Bot \ excused : Between(b)

\* A step of a goroutine that is not past its request at b, and changes nothing of b.
LEMMA OtherBot ==
  ASSUME NEW b \in Bot, Between(b), NEW h \in Handler,
         \A g \in Handler \ {h} : pc'[g] = pc[g] /\ local'[g] = local[g],
         ~ Past(h, b), ~ Past(h, b)',
         botStatus'[b] = botStatus[b], botSession'[b] = botSession[b],
         \A s \in Session : botOf'[s] = b <=> botOf[s] = b
  PROVE  Between(b)'
<1>1. \A g \in Handler : Past(g, b)' <=> Past(g, b)
  BY DEF Past, BotAt
<1>2. \A g \in Handler : Past(g, b) => pc'[g] = pc[g] /\ local'[g].id = local[g].id
  OBVIOUS
<1>3. Both(b) <=> Both(b)'
  BY DEF Both
<1>4. NoSession(b) <=> NoSession(b)'
  BY DEF NoSession
<1> QED
  BY <1>1, <1>2, <1>3, <1>4 DEF Between

\* The one goroutine past its request at b goes on, to a place that fits the tables.
LEMMA SameBot ==
  ASSUME NEW b \in Bot, NEW h \in Handler, Past(h, b)',
         \A g \in Handler \ {h} : ~ Past(g, b)',
         pc'[h] \in {"release1", "open", "undo1"} => Both(b)',
         pc'[h] \in {"release2", "bind2", "undo2"} => botStatus'[b] = "bound" /\ NoSession(b)',
         pc'[h] \in {"create", "bind1"} => botStatus'[b] = "idle" /\ NoSession(b)',
         pc'[h] = "bind2" => botSession'[b] = local'[h].id
  PROVE  Between(b)'
  BY DEF Between

\* The one goroutine past its request at b returns and leaves both sides in agreement.
LEMMA NobodyLeft ==
  ASSUME NEW b \in Bot, \A g \in Handler : ~ Past(g, b)', Both(b)'
  PROVE  Between(b)'
  BY DEF Between

\* A bot that no statement failed for and on which goroutines worked one after the other has
\* what its goroutine's place says, after every statement (bots.go:112-141).
LEMMA BetweenStep ==
  ASSUME TypeOK, LocalOK, NeverAnothersBot, BetweenStatements, [Next]_vars
  PROVE  BetweenStatements'
<1> USE BindingConstants
<1> SUFFICES ASSUME NEW b \in Bot, b \notin excused' PROVE Between(b)'
  BY DEF BetweenStatements
<1>a. b \notin excused
  BY StepCases DEF vars, CreateRequest, AddBot, AddBotDuplicate, OpenChannel, OpenChannelFails,
     UndoRelease, NewRequest, NewReleases, NewReleaseFails, CreateSession, BindFirst, BindSecond,
     BindFails, ReleaseSessions, Restart, Reconnect, Reopen, Excuse
<1>b. Between(b)
  BY <1>a DEF BetweenStatements
<1>c. \A g, h \in Handler : Past(g, b) /\ Past(h, b) => g = h
  BY <1>b DEF Between
<1>1. CASE UNCHANGED vars
  BY <1>1, <1>b DEF vars, dbVars, Between, Past, Both, NoSession, BotAt
<1>2. ASSUME NEW h \in Handler,
             CreateRequest(h) \/ AddBotDuplicate(h)
      PROVE  Between(b)'
  <2>1. \A g \in Handler \ {h} : pc'[g] = pc[g] /\ local'[g] = local[g]
    BY <1>2 DEF CreateRequest, AddBotDuplicate, Goto, Return, TypeOK
  <2>2. ~ Past(h, b) /\ ~ Past(h, b)'
    BY <1>2 DEF CreateRequest, AddBotDuplicate, At, Goto, Return, Past, BotAt, NoLocal, TypeOK,
                LocalOK
  <2>3. UNCHANGED dbVars
    BY <1>2 DEF CreateRequest, AddBotDuplicate
  <2> QED
    BY <1>b, <2>1, <2>2, <2>3, OtherBot DEF dbVars
<1>3. ASSUME NEW h \in Handler, AddBot(h) PROVE Between(b)'
  <2>1. /\ \A g \in Handler \ {h} : pc'[g] = pc[g] /\ local'[g] = local[g]
        /\ pc[h] = "add" /\ pc'[h] = "create" /\ local'[h] = local[h]
        /\ UNCHANGED <<botSession, botOf>>
    BY <1>3 DEF AddBot, At, Goto, TypeOK
  <2>2. CASE b # BotAt(h)
    BY <1>3, <1>b, <2>1, <2>2, OtherBot DEF AddBot, Past, BotAt, TypeOK
  <2>3. CASE b = BotAt(h)
    <3>1. botStatus[b] = "absent" /\ botStatus'[b] = "idle"
      BY <1>3, <2>3 DEF AddBot, TypeOK
    <3>2. \A g \in Handler : ~ Past(g, b)
      BY <3>1, <2>3 DEF Past, LocalOK, BotAt
    <3>3. NoSession(b)'
      BY <3>1, <2>1 DEF NoSession, TypeOK
    <3>4. Past(h, b)' /\ \A g \in Handler \ {h} : ~ Past(g, b)'
      BY <3>2, <2>1, <2>3 DEF Past, BotAt
    <3> QED
      BY <3>1, <3>3, <3>4, <2>1, SameBot
  <2> QED
    BY <2>2, <2>3
<1>4. ASSUME NEW h \in Handler, UndoRelease(h) \/ NewReleaseFails(h) \/ BindFails(h)
      PROVE  Between(b)'
  <2>1. b # BotAt(h)
    BY <1>4 DEF UndoRelease, NewReleaseFails, BindFails, Excuse
  <2>2. \A g \in Handler \ {h} : pc'[g] = pc[g] /\ local'[g] = local[g]
    BY <1>4 DEF UndoRelease, NewReleaseFails, BindFails, Goto, Return, TypeOK
  <2>3. ~ Past(h, b) /\ ~ Past(h, b)'
    BY <1>4, <2>1 DEF UndoRelease, NewReleaseFails, BindFails, Goto, Return, Past, BotAt, NoLocal,
                      TypeOK
  <2>4. botStatus'[b] = botStatus[b] /\ botSession'[b] = botSession[b] /\ UNCHANGED botOf
    BY <1>4, <2>1 DEF UndoRelease, NewReleaseFails, BindFails, ReleaseBot, dbVars, TypeOK
  <2> QED
    BY <1>b, <2>2, <2>3, <2>4, OtherBot
<1>5. ASSUME NEW h \in Handler, OpenChannel(h) \/ OpenChannelFails(h) PROVE Between(b)'
  <2>1. /\ \A g \in Handler \ {h} : pc'[g] = pc[g] /\ local'[g] = local[g]
        /\ UNCHANGED dbVars /\ pc[h] = "open"
    BY <1>5 DEF OpenChannel, OpenChannelFails, At, Goto, Return, TypeOK
  <2>2. CASE b # BotAt(h)
    <3>1. ~ Past(h, b) /\ ~ Past(h, b)'
      BY <1>5, <2>2 DEF OpenChannel, OpenChannelFails, Goto, Return, Past, BotAt, NoLocal, TypeOK
    <3> QED
      BY <1>b, <2>1, <3>1, OtherBot DEF dbVars
  <2>3. CASE b = BotAt(h)
    <3>1. Past(h, b) /\ \A g \in Handler \ {h} : ~ Past(g, b)
      BY <1>c, <2>1, <2>3 DEF Past, BotAt
    <3>2. Both(b)'
      BY <1>b, <2>1, <3>1 DEF Between, Both, dbVars
    <3>3. \A g \in Handler \ {h} : ~ Past(g, b)'
      BY <2>1, <3>1 DEF Past, BotAt
    <3>4. CASE OpenChannel(h)
      <4>1. ~ Past(h, b)'
        BY <3>4 DEF OpenChannel, Return, Goto, Past, BotAt, NoLocal, TypeOK
      <4> QED
        BY <3>2, <3>3, <4>1, NobodyLeft
    <3>5. CASE OpenChannelFails(h)
      <4>1. pc'[h] = "undo1" /\ Past(h, b)'
        BY <3>5, <2>3 DEF OpenChannelFails, Goto, Past, BotAt, TypeOK
      <4> QED
        BY <3>2, <3>3, <4>1, SameBot
    <3> QED
      BY <1>5, <3>4, <3>5
  <2> QED
    BY <2>2, <2>3
<1>6. ASSUME NEW h \in Handler, NewRequest(h) PROVE Between(b)'
  <2>1. PICK s \in rows :
          /\ local' = [local EXCEPT ![h] = [bot |-> botOf[s], id |-> s]]
          /\ excused' = IF Working(botOf[s]) = {} THEN excused ELSE excused \cup {botOf[s]}
          /\ botOf[s] \in open
    BY <1>6 DEF NewRequest
  <2>2. /\ \A g \in Handler \ {h} : pc'[g] = pc[g] /\ local'[g] = local[g]
        /\ pc[h] = "idle" /\ pc'[h] = "release1" /\ UNCHANGED dbVars
        /\ BotAt(h)' = botOf[s] /\ botOf[s] \in Bot /\ s \in Session
    BY <1>6, <2>1 DEF NewRequest, At, Goto, TypeOK, BotAt
  <2>3. ~ Past(h, b)
    BY <2>2 DEF Past, LocalOK
  <2>4. CASE b # botOf[s]
    BY <1>b, <2>2, <2>3, <2>4, OtherBot DEF Past, dbVars
  <2>5. CASE b = botOf[s]
    <3>1. \A g \in Handler : BotAt(g) # b
      BY <2>1, <2>5 DEF Working
    <3>2. Past(h, b)' /\ \A g \in Handler \ {h} : ~ Past(g, b)'
      BY <2>2, <2>5, <3>1 DEF Past, BotAt
    <3>3. Both(b)
      BY <1>b, <2>2, <2>5, <3>1 DEF Between, Past, TypeOK
    <3> QED
      BY <2>2, <3>2, <3>3, SameBot DEF Both, dbVars
  <2> QED
    BY <2>4, <2>5
<1>7. ASSUME NEW h \in Handler,
             \/ NewReleases(h) \/ CreateSession(h) \/ BindFirst(h) \/ BindSecond(h)
             \/ ReleaseSessions(h, "undo1", "undo2")
             \/ ReleaseSessions(h, "release1", "release2")
      PROVE  Between(b)'
  <2>1. \A g \in Handler \ {h} : pc'[g] = pc[g] /\ local'[g] = local[g]
    BY <1>7 DEF NewReleases, CreateSession, BindFirst, BindSecond, ReleaseSessions, Goto, Return,
                TypeOK
  <2>2. BotAt(h) \in Bot /\ pc[h] \notin {"idle", "end", "add"}
    BY <1>7 DEF NewReleases, CreateSession, BindFirst, BindSecond, ReleaseSessions, At, LocalOK
  <2>3. CASE b # BotAt(h)
    <3>1. ~ Past(h, b) /\ ~ Past(h, b)'
      BY <1>7, <2>3 DEF NewReleases, CreateSession, BindFirst, BindSecond, ReleaseSessions, Goto,
                        Return, NoLocal, Past, BotAt, TypeOK
    <3>2. botStatus'[b] = botStatus[b] /\ botSession'[b] = botSession[b]
      BY <1>7, <2>2, <2>3 DEF NewReleases, ReleaseBot, CreateSession, BindFirst, BindBot,
                              BindSecond, ReleaseSessions, TypeOK
    <3>3. \A s \in Session : botOf'[s] = b <=> botOf[s] = b
      <4>1. CASE BindSecond(h)
        <5>1. local[h].id \in rows /\ madeFor[local[h].id] = BotAt(h)
          BY <4>1 DEF BindSecond, At, LocalOK
        <5>2. local[h].id \in Session /\ botOf[local[h].id] # b
          BY <5>1, <2>3 DEF NeverAnothersBot, TypeOK
        <5> QED
          BY <4>1, <5>2, <2>3 DEF BindSecond, TypeOK
      <4>2. CASE ~ BindSecond(h)
        BY <1>7, <4>2, <2>3 DEF NewReleases, CreateSession, BindFirst, ReleaseSessions, Unbound
      <4> QED
        BY <4>1, <4>2
    <3> QED
      BY <1>b, <2>1, <3>1, <3>2, <3>3, OtherBot
  <2>4. CASE b = BotAt(h)
    <3>1. Past(h, b) /\ \A g \in Handler \ {h} : ~ Past(g, b)
      BY <1>c, <2>2, <2>4 DEF Past
    <3>2. \A g \in Handler \ {h} : ~ Past(g, b)'
      BY <2>1, <3>1 DEF Past, BotAt
    <3>3. CASE NewReleases(h)
      <4>1. /\ pc[h] = "release2" /\ pc'[h] = "create" /\ Past(h, b)' /\ botOf' = botOf
            /\ botStatus'[b] = "idle"
        BY <3>3, <2>4 DEF NewReleases, ReleaseBot, At, Goto, Past, BotAt, TypeOK
      <4> QED
        BY <1>b, <3>1, <3>2, <4>1, SameBot DEF Between, NoSession
    <3>4. CASE CreateSession(h)
      <4>1. /\ pc[h] = "create" /\ pc'[h] = "bind1" /\ botOf' = botOf /\ botStatus' = botStatus
        BY <3>4 DEF CreateSession, At, Goto, TypeOK
      <4>2. Past(h, b)'
        BY <3>4, <4>1, <2>4 DEF CreateSession, Past, BotAt, TypeOK
      <4> QED
        BY <1>b, <3>1, <3>2, <4>1, <4>2, SameBot DEF Between, NoSession
    <3>5. CASE BindFirst(h)
      <4>1. pc[h] = "bind1" /\ pc'[h] = "bind2" /\ botOf' = botOf /\ local' = local
        BY <3>5 DEF BindFirst, At, Goto, TypeOK
      <4>2. botStatus[b] = "idle" /\ NoSession(b)
        BY <1>b, <3>1, <4>1 DEF Between
      <4>3. botStatus'[b] = "bound" /\ botSession'[b] = local'[h].id
        BY <3>5, <4>1, <4>2, <2>4 DEF BindFirst, BindBot, TypeOK
      <4>4. Past(h, b)'
        BY <4>1, <2>4 DEF Past, BotAt
      <4> QED
        BY <3>2, <4>1, <4>2, <4>3, <4>4, SameBot DEF NoSession
    <3>6. CASE BindSecond(h)
      <4>1. /\ botStatus[b] = "bound" /\ NoSession(b) /\ botSession[b] = local[h].id
            /\ local[h].id \in Session
        BY <1>b, <3>1, <3>6 DEF Between, BindSecond, At, LocalOK, TypeOK
      <4>2. Both(b)'
        BY <3>6, <4>1, <2>4 DEF BindSecond, Both, NoSession, TypeOK
      <4>3. CASE h \in Creator
        BY <3>2, <3>6, <4>2, <4>3, <2>4, SameBot DEF BindSecond, Goto, Past, BotAt, TypeOK
      <4>4. CASE h \notin Creator
        <5>1. ~ Past(h, b)'
          BY <3>6, <4>4 DEF BindSecond, Return, Goto, Past, BotAt, NoLocal, TypeOK
        <5> QED
          BY <3>2, <4>2, <5>1, NobodyLeft
      <4> QED
        BY <4>3, <4>4
    <3>7. CASE \/ ReleaseSessions(h, "undo1", "undo2")
               \/ ReleaseSessions(h, "release1", "release2")
      <4>1. /\ pc[h] \in {"undo1", "release1"} /\ pc'[h] \in {"undo2", "release2"}
            /\ Past(h, b)' /\ botStatus' = botStatus
        BY <3>7, <2>4 DEF ReleaseSessions, At, Goto, Past, BotAt, TypeOK
      <4>2. NoSession(b)'
        BY <3>7, <2>4 DEF ReleaseSessions, Unbound, NoSession
      <4>3. botStatus[b] = "bound"
        BY <1>b, <3>1, <4>1 DEF Between, Both
      <4> QED
        BY <3>2, <4>1, <4>2, <4>3, SameBot
    <3> QED
      BY <1>7, <3>3, <3>4, <3>5, <3>6, <3>7
  <2> QED
    BY <2>3, <2>4
<1>8. ASSUME Restart PROVE Between(b)'
  <2>1. \A g \in Handler : ~ Past(g, b) /\ ~ Past(g, b)'
    BY <1>8 DEF Restart, Working, Past, BotAt, NoLocal
  <2>2. UNCHANGED dbVars
    BY <1>8 DEF Restart
  <2>3. Both(b) <=> Both(b)'
    BY <2>2 DEF Both, dbVars
  <2> QED
    BY <1>b, <2>1, <2>2, <2>3 DEF Between, dbVars
<1>9. ASSUME NEW c \in Bot, Reconnect(c) \/ Reopen(c) PROVE Between(b)'
  <2>1. UNCHANGED <<dbVars, pc, local>>
    BY <1>9 DEF Reconnect, Reopen
  <2> QED
    BY <1>b, <2>1 DEF dbVars, Between, Past, Both, NoSession, BotAt
<1> QED
  <2>1. CASE Next
    BY <2>1, <1>2, <1>3, <1>4, <1>5, <1>6, <1>7, <1>8, <1>9, StepCases, Zenon
  <2> QED
    BY <1>1, <2>1

\* The two sides of a binding agree whenever nobody is working on the bot, for every bot for
\* which no statement failed, no restart came in the middle and no two goroutines worked at
\* once, for any number of bots, sessions and requests (bots.go:112-141).
THEOREM SidesAgree == Spec => []BoundWhenUndisturbed
<1>1. Init => BetweenStatements
  <2> SUFFICES ASSUME Init, NEW b \in Bot PROVE Between(b)
    BY DEF BetweenStatements
  <2>1. botStatus[b] = "absent" /\ \A h \in Handler : ~ Past(h, b)
    BY BindingConstants DEF Init, Past, NoLocal, BotAt
  <2> QED
    BY <2>1 DEF Between
<1>2. Spec => [](TypeOK /\ BetweenStatements)
  BY <1>1, TypeStart, TypeStep, SessionsStayWithTheirBot, NeverStep, BetweenStep, PTL DEF Spec
<1>3. TypeOK /\ BetweenStatements => BoundWhenUndisturbed
  <2> SUFFICES ASSUME TypeOK, BetweenStatements, NEW b \in Bot \ excused,
                      botStatus[b] # "absent", Working(b) = {}
               PROVE  botStatus[b] = "bound" /\ SessionsOf(b) = {botSession[b]}
    BY DEF BoundWhenUndisturbed
  <2>1. Both(b)
    BY DEF BetweenStatements, Between, Past, Working
  <2>2. botSession[b] \in Session
    BY <2>1, BindingConstants DEF Both, TypeOK
  <2> QED
    BY <2>1, <2>2 DEF Both, SessionsOf
<1> QED
  BY <1>2, <1>3, PTL
=============================================================================

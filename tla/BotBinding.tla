----------------------------- MODULE BotBinding -----------------------------
(***************************************************************************)
(* Which bot belongs to which session, in the database                     *)
(* (internal/store/bots.go, store/sessions.go, botpool, session), under    *)
(* the goroutines that change it: the creation of an agent by the          *)
(* controller, "/new" in the router, and the restart of the program.       *)
(*                                                                         *)
(* The binding is stored twice, bots.bound_session_id and                  *)
(* sessions.bound_bot_id, and BindBot and ReleaseBot write the two sides   *)
(* in two statements without a transaction.  One action is one statement.  *)
(* The excused set is history: a bot enters it when a statement fails, the *)
(* program dies in the middle, or two goroutines work on the bot at once.  *)
(***************************************************************************)
EXTENDS Integers, FiniteSets

CONSTANTS
  Bot,      \* platform bot identifiers
  Session,  \* session rows that may be inserted
  Creator,  \* requests to create an agent (menu or "/addbot")
  NewCmd,   \* "/new" messages
  None,
  MaxCrash  \* bound on the restarts of the program

Handler == Creator \cup NewCmd

ASSUME BindingConstants ==
  /\ None \notin Bot /\ None \notin Session
  /\ Creator \cap NewCmd = {}
  /\ MaxCrash \in Nat

VARIABLES
  botStatus,   \* bots.status, or "absent" when there is no row
  botSession,  \* bots.bound_session_id
  rows,        \* rows of the sessions table
  botOf,       \* sessions.bound_bot_id
  open,        \* bots with a worker channel in the gateway
  todo,        \* bots the start-up loop still has to reconnect
  crashes,     \* how often the program has been restarted
  pc,          \* where a goroutine is
  local,       \* the bot and the session a goroutine works on
  madeFor,     \* history: the bot for which a session row was inserted
  excused      \* history: bots for which no promise is left

dbVars == <<botStatus, botSession, rows, botOf>>
vars == <<dbVars, open, todo, crashes, pc, local, madeFor, excused>>

Label == {"idle", "add", "release1", "release2", "create", "bind1", "bind2", "open",
          "undo1", "undo2", "end"}

TypeOK ==
  /\ botStatus \in [Bot -> {"absent", "idle", "bound"}]
  /\ botSession \in [Bot -> rows \cup {None}]
  /\ rows \subseteq Session
  /\ botOf \in [Session -> Bot \cup {None}]
  /\ open \subseteq Bot /\ todo \subseteq Bot
  /\ crashes \in 0..MaxCrash
  /\ pc \in [Handler -> Label]
  /\ local \in [Handler -> [bot : Bot \cup {None}, id : Session \cup {None}]]
  /\ madeFor \in [Session -> Bot \cup {None}]
  /\ excused \subseteq Bot
  /\ \A b \in Bot : (botSession[b] # None) <=> (botStatus[b] = "bound")
  /\ \A s \in Session : botOf[s] # None => s \in rows /\ botStatus[botOf[s]] # "absent"

NoLocal == [bot |-> None, id |-> None]

Init ==
  /\ botStatus = [b \in Bot |-> "absent"]
  /\ botSession = [b \in Bot |-> None]
  /\ rows = {}
  /\ botOf = [s \in Session |-> None]
  /\ open = {} /\ todo = {}
  /\ crashes = 0
  /\ pc = [h \in Handler |-> "idle"]
  /\ local = [h \in Handler |-> NoLocal]
  /\ madeFor = [s \in Session |-> None]
  /\ excused = {}

At(h, label) == pc[h] = label
Goto(h, label) == pc' = [pc EXCEPT ![h] = label]
Return(h) == Goto(h, "end") /\ local' = [local EXCEPT ![h] = NoLocal]
BotAt(h) == local[h].bot

\* The goroutines that are working on bot b.
Working(b) == {h \in Handler : BotAt(h) = b}

Excuse(b) == excused' = excused \cup {b}

-----------------------------------------------------------------------------
(* The controller creates an agent.                                         *)

CreateRequest(c) ==
  /\ At(c, "idle")
  /\ \E b \in Bot : local' = [local EXCEPT ![c].bot = b]
  /\ Goto(c, "add")
  /\ UNCHANGED <<dbVars, open, todo, crashes, madeFor, excused>>

\* Pool.Add inserts the bot, idle; bot_id is unique.
AddBot(c) ==
  /\ At(c, "add")
  /\ botStatus[BotAt(c)] = "absent"
  /\ botStatus' = [botStatus EXCEPT ![BotAt(c)] = "idle"]
  /\ Goto(c, "create")
  /\ UNCHANGED <<botSession, rows, botOf, open, todo, crashes, local, madeFor, excused>>

AddBotDuplicate(c) ==
  /\ At(c, "add")
  /\ botStatus[BotAt(c)] # "absent"
  /\ Return(c)
  /\ UNCHANGED <<dbVars, open, todo, crashes, madeFor, excused>>

-----------------------------------------------------------------------------
(* "/new" on an open worker channel: the session is looked up, then the     *)
(* bot is released.  A failing release is logged and handleNew goes on.     *)

NewRequest(h) ==
  /\ At(h, "idle")
  /\ \E s \in rows :
       /\ botOf[s] \in open
       /\ local' = [local EXCEPT ![h] = [bot |-> botOf[s], id |-> s]]
       /\ excused' = IF Working(botOf[s]) = {} THEN excused ELSE excused \cup {botOf[s]}
  /\ Goto(h, "release1")
  /\ UNCHANGED <<dbVars, open, todo, crashes, madeFor>>

Unbound_None(b) == botOf

Unbound(b) == [s \in Session |-> IF botOf[s] = b THEN None ELSE botOf[s]]

\* ReleaseBot, first statement: sessions bound to the bot lose it.
ReleaseSessions(h, from, to) ==
  /\ At(h, from)
  /\ botOf' = Unbound(BotAt(h))
  /\ Goto(h, to)
  /\ UNCHANGED <<botStatus, botSession, rows, open, todo, crashes, local, madeFor, excused>>

\* ReleaseBot, second statement: the bot is idle.
ReleaseBot(h) ==
  /\ botStatus' = [botStatus EXCEPT ![BotAt(h)] = "idle"]
  /\ botSession' = [botSession EXCEPT ![BotAt(h)] = None]

NewReleases(h) ==
  /\ At(h, "release2")
  /\ ReleaseBot(h)
  /\ Goto(h, "create")
  /\ UNCHANGED <<rows, botOf, open, todo, crashes, local, madeFor, excused>>

\* One of the two statements fails; what comes next is the same.
NewReleaseFails(h) ==
  /\ \/ At(h, "release1") /\ Goto(h, "release2")
     \/ At(h, "release2") /\ Goto(h, "create")
  /\ Excuse(BotAt(h))
  /\ UNCHANGED <<dbVars, open, todo, crashes, local, madeFor>>

-----------------------------------------------------------------------------
(* Both then create a session and bind the bot to it.                       *)

\* Manager.Create inserts a row bound to nothing.
CreateSession(h) ==
  /\ At(h, "create")
  /\ \E s \in Session \ rows :
       /\ rows' = rows \cup {s}
       /\ madeFor' = [madeFor EXCEPT ![s] = BotAt(h)]
       /\ local' = [local EXCEPT ![h].id = s]
  /\ Goto(h, "bind1")
  /\ UNCHANGED <<botStatus, botSession, botOf, open, todo, crashes, excused>>

\* BindBot, first statement: only an idle bot is updated, which nobody checks.
BindBot(h) ==
  IF botStatus[BotAt(h)] = "idle"
    THEN /\ botStatus' = [botStatus EXCEPT ![BotAt(h)] = "bound"]
         /\ botSession' = [botSession EXCEPT ![BotAt(h)] = local[h].id]
    ELSE UNCHANGED <<botStatus, botSession>>

BindFirst(h) ==
  /\ At(h, "bind1")
  /\ BindBot(h)
  /\ Goto(h, "bind2")
  /\ UNCHANGED <<rows, botOf, open, todo, crashes, local, madeFor, excused>>

BindSecond_AllRows(h) ==
  /\ At(h, "bind2")
  /\ botOf' = [s \in Session |-> IF s \in rows THEN BotAt(h) ELSE None]
  /\ IF h \in Creator THEN Goto(h, "open") /\ UNCHANGED local ELSE Return(h)
  /\ UNCHANGED <<botStatus, botSession, rows, open, todo, crashes, madeFor, excused>>

\* BindBot, second statement: the session gets the bot whatever the first one did.
BindSecond(h) ==
  /\ At(h, "bind2")
  /\ botOf' = [botOf EXCEPT ![local[h].id] = BotAt(h)]
  /\ IF h \in Creator THEN Goto(h, "open") /\ UNCHANGED local ELSE Return(h)
  /\ UNCHANGED <<botStatus, botSession, rows, open, todo, crashes, madeFor, excused>>

\* Create or a statement of BindBot fails: a reply, and the goroutine returns.
BindFails(h) ==
  /\ At(h, "create") \/ At(h, "bind1") \/ At(h, "bind2")
  /\ Return(h)
  /\ Excuse(BotAt(h))
  /\ UNCHANGED <<dbVars, open, todo, crashes, madeFor>>

\* The controller opens the worker channel.
OpenChannel(c) ==
  /\ At(c, "open")
  /\ open' = open \cup {BotAt(c)}
  /\ Return(c)
  /\ UNCHANGED <<dbVars, todo, crashes, madeFor, excused>>

\* It cannot, unless it is open already: the bot is released again.
OpenChannelFails(c) ==
  /\ At(c, "open")
  /\ BotAt(c) \notin open
  /\ Goto(c, "undo1")
  /\ UNCHANGED <<dbVars, open, todo, crashes, local, madeFor, excused>>

UndoRelease(c) ==
  /\ At(c, "undo2")
  /\ ReleaseBot(c)
  /\ Return(c)
  /\ Excuse(BotAt(c))
  /\ UNCHANGED <<rows, botOf, open, todo, crashes, madeFor>>

-----------------------------------------------------------------------------
(* The program stops, by "restart" or by a crash, and starts again.         *)

Restart ==
  /\ crashes < MaxCrash
  /\ crashes' = crashes + 1
  /\ pc' = [h \in Handler |-> IF At(h, "idle") THEN "idle" ELSE "end"]
  /\ local' = [h \in Handler |-> NoLocal]
  /\ open' = {}
  /\ todo' = {botOf[s] : s \in rows} \ {None}
  /\ excused' = excused \cup {b \in Bot : Working(b) # {}}
  /\ UNCHANGED <<dbVars, madeFor>>

\* main reconnects the bots of all sessions that have one; a failure is skipped.
Reconnect(b) ==
  /\ b \in todo
  /\ todo' = todo \ {b}
  /\ open' \in {open, open \cup {b}}
  /\ UNCHANGED <<dbVars, crashes, pc, local, madeFor, excused>>

\* The controller's list reopens the channel of an agent it finds disconnected.
Reopen(b) ==
  /\ \E s \in rows : botOf[s] = b
  /\ open' \in {open \ {b}, open \cup {b}}
  /\ open' # open
  /\ UNCHANGED <<dbVars, todo, crashes, pc, local, madeFor, excused>>

-----------------------------------------------------------------------------
CreatorStep(c) ==
  \/ AddBot(c) \/ AddBotDuplicate(c)
  \/ OpenChannel(c) \/ OpenChannelFails(c)
  \/ ReleaseSessions(c, "undo1", "undo2") \/ UndoRelease(c)

NewStep(h) ==
  ReleaseSessions(h, "release1", "release2") \/ NewReleases(h) \/ NewReleaseFails(h)

BindStep(h) == CreateSession(h) \/ BindFirst(h) \/ BindSecond(h) \/ BindFails(h)

Next ==
  \/ \E c \in Creator : CreateRequest(c) \/ CreatorStep(c)
  \/ \E h \in NewCmd : NewRequest(h) \/ NewStep(h)
  \/ \E h \in Handler : BindStep(h)
  \/ Restart
  \/ \E b \in Bot : Reconnect(b) \/ Reopen(b)

Spec == Init /\ [][Next]_vars

-----------------------------------------------------------------------------
(* Properties.                                                              *)

SessionsOf(b) == {s \in Session : botOf[s] = b}

\* Whatever fails or races, a session is bound to no other bot than the one it was
\* made for, on either side of the double bookkeeping: a message to a bot never
\* reaches the session of another agent (bots.go:112-127, sessions.go:75-86).
NeverAnothersBot ==
  /\ \A s \in Session : botOf[s] # None => madeFor[s] = botOf[s]
  /\ \A b \in Bot : botSession[b] # None => madeFor[botSession[b]] = b

\* The two sides agree, and there is one session, for every bot on which goroutines
\* worked one at a time and without failures, whenever none is working on it: the
\* statements without a transaction need nothing but that (bots.go:112-141).
BoundWhenUndisturbed ==
  \A b \in Bot \ excused :
    botStatus[b] # "absent" /\ Working(b) = {} =>
      /\ botStatus[b] = "bound"
      /\ SessionsOf(b) = {botSession[b]}

-----------------------------------------------------------------------------
(* What the documentation promises.                                         *)

\* README.md:38: one bot per session; no two sessions are bound to the same bot.
OneSessionPerBot ==
  \A s, t \in Session : botOf[s] # None /\ botOf[s] = botOf[t] => s = t

\* botpool.go:1-3: each bot is always bound to a session; here, whenever no
\* goroutine is working on the bot.
BotAlwaysBound ==
  \A b \in Bot : botStatus[b] # "absent" /\ Working(b) = {} => botStatus[b] = "bound"
=============================================================================

------------------------------ MODULE ControlMenu ------------------------------
(***************************************************************************)
(* The menus of the control bot (internal/controller/controller.go) for    *)
(* one user.                                                               *)
(*                                                                         *)
(* Every message is handled by a goroutine of its own, and all of them     *)
(* share one userState: the menu, the fields of the agent being created    *)
(* and the list shown last.  Only the map of states and the menu are       *)
(* written under Controller.mu; the fields and the list are written        *)
(* without any lock through the pointer that getState returned.  A worker  *)
(* here is a goroutine, used again for later messages.                     *)
(*                                                                         *)
(* A bot is named by its BotID.  What binding and connecting do when they  *)
(* fail is in BotBinding; here they succeed or leave the bot unbound.      *)
(***************************************************************************)
EXTENDS Integers, Sequences, SequencesExt, FiniteSets

CONSTANTS
  Worker,       \* messages that are handled at the same time
  MaxMessages,  \* bound on the messages
  MaxEvents,    \* bound on what happens to bots meanwhile
  Text,         \* what a message may say: "/start", "/list", "/addbot", digits, words
  Quoted,       \* the prompts that a message may quote
  FirstBots     \* bots that exist and are bound at start

Field == {"name", "id", "secret"}
Menu == {"none", "main", "name", "id", "secret", "type", "workdir", "list"}
Command == {"/start", "/list", "/addbot"}
Word == Text \ Command
Entry == Text \cup {""}

ASSUME MenuConstants ==
  /\ MaxMessages \in Nat /\ MaxEvents \in Nat
  /\ Quoted \subseteq Menu \ {"none"}
  /\ FirstBots \cap {"", "0"} = {} /\ IsFiniteSet(FirstBots)

VARIABLES
  menu,      \* userState.state
  tmp,       \* userState.tmpAgentName, tmpBotID, tmpSecret
  list,      \* userState.listSessions
  bots,      \* rows added to the bots table: the fields they were created with
  bound,     \* BotIDs that a session is bound to
  up,        \* BotIDs whose channel is connected
  count,     \* messages so far
  events,    \* what happened to bots so far
  pc,        \* where a worker is
  local,     \* its local variables
  offered,   \* history: the last reply was "no agent, reply 1 to create one"
  refusedDown, \* history: a reconnection was refused though the channel was down
  relisted,    \* history: workers under whose choice the list has been made anew
  fell         \* history: BotIDs that lost their channel since the list was made

stateVars == <<menu, tmp, list>>
worldVars == <<bots, bound, up>>
bounds == <<count, events>>
histVars == <<offered, refusedDown, relisted, fell>>
vars == <<stateVars, worldVars, bounds, pc, local, histVars>>

Item == [bot : Entry \cup FirstBots, connected : BOOLEAN]

NoItem == [bot |-> "", connected |-> FALSE]
NoFields == [f \in Field |-> ""]
NoLocal == [text |-> "", prompt |-> "none", offered |-> FALSE, stage |-> "none",
            fields |-> NoFields, rest |-> <<>>, up |-> {}, seen |-> <<>>,
            idx |-> 0, item |-> NoItem]

Label == {"idle", "dispatch", "act", "next", "take", "add", "bind", "query", "status",
          "reset", "load", "store", "shown", "reopen", "mark"}

BotIDs == FirstBots \cup {bots[i].id : i \in DOMAIN bots}

TypeOK ==
  /\ menu \in Menu
  /\ tmp \in [Field -> Entry]
  /\ list \in Seq(Item)
  /\ bots \in Seq([Field -> Entry])
  /\ bound \subseteq BotIDs /\ up \subseteq BotIDs
  /\ count \in 0..MaxMessages /\ events \in 0..MaxEvents
  /\ pc \in [Worker -> Label]
  /\ offered \in BOOLEAN /\ refusedDown \in BOOLEAN /\ relisted \subseteq Worker
  /\ fell \subseteq BotIDs
  /\ \A w \in Worker : pc[w] = "mark" => local[w].idx > 0

Init ==
  /\ menu = "none"
  /\ tmp = NoFields
  /\ list = <<>>
  /\ bots = <<>> /\ bound = FirstBots /\ up \in SUBSET FirstBots
  /\ count = 0 /\ events = 0
  /\ pc = [w \in Worker |-> "idle"]
  /\ local = [w \in Worker |-> NoLocal]
  /\ offered = FALSE /\ refusedDown = FALSE /\ relisted = {} /\ fell = {}

At(w, label) == pc[w] = label
Goto(w, label) == pc' = [pc EXCEPT ![w] = label]
Return(w) == Goto(w, "idle") /\ local' = [local EXCEPT ![w] = NoLocal]

-----------------------------------------------------------------------------
(* HandleMessage.                                                           *)

\* The menu a quoted prompt leads to.  The prompt of the working directory does not
\* contain what detectMenuStage looks for.
DetectMenuStage(prompt) == IF prompt = "workdir" THEN "none" ELSE prompt

Receive(w, text, prompt) ==
  /\ At(w, "idle")
  /\ count < MaxMessages
  /\ count' = count + 1
  /\ local' = [local EXCEPT ![w].text = text, ![w].prompt = prompt, ![w].offered = offered]
  /\ offered' = FALSE
  /\ menu' = IF DetectMenuStage(prompt) = "none" THEN menu ELSE DetectMenuStage(prompt)
  /\ Goto(w, "dispatch")
  /\ UNCHANGED <<tmp, list, worldVars, events, refusedDown, relisted, fell>>

\* Commands go first, whatever the menu; else the menu is read, and acted on later.
\* The three words after "/addbot" are not empty; only the BotID matters, so they agree.
Dispatch(w) ==
  /\ At(w, "dispatch")
  /\ CASE local[w].text = "/start"  -> menu' = "main" /\ Return(w)
       [] local[w].text = "/list"   -> menu' = menu /\ Goto(w, "query") /\ UNCHANGED local
       [] local[w].text = "/addbot" ->
            /\ menu' = "none"
            /\ \E word \in Word \ {""} :
                 local' = [local EXCEPT ![w].fields = [f \in Field |-> word]]
            /\ Goto(w, "add")
       [] OTHER -> /\ menu' = menu
                   /\ local' = [local EXCEPT ![w].stage = menu]
                   /\ Goto(w, "act")
  /\ UNCHANGED <<tmp, list, worldVars, bounds, histVars>>

-----------------------------------------------------------------------------
(* The menu and the creation of an agent.                                   *)

Acts(w, stages) == At(w, "act") /\ local[w].stage \in stages

MainMenuChoice(w) ==
  /\ Acts(w, {"main"})
  /\ IF local[w].text = "2"
       THEN menu' = menu /\ Goto(w, "query") /\ UNCHANGED local
       ELSE /\ menu' = CASE local[w].text = "1" -> "name"
                         [] local[w].text = "3" -> "workdir"
                         [] OTHER -> menu
            /\ Return(w)
  /\ UNCHANGED <<tmp, list, worldVars, bounds, histVars>>

\* "0" leaves a dialogue, and no dialogue shows the main menu.  An empty path does too.
BackToMain(w) ==
  /\ \/ Acts(w, {"none"})
     \/ Acts(w, {"name", "id", "secret", "type", "workdir", "list"}) /\ local[w].text = "0"
     \/ Acts(w, {"workdir"}) /\ local[w].text = ""
  /\ menu' = "main"
  /\ Return(w)
  /\ UNCHANGED <<tmp, list, worldVars, bounds, histVars>>

\* A prompt is repeated: nothing was entered, or no type, or the path only was saved.
Repeats(w) ==
  /\ \/ Acts(w, Field) /\ local[w].text = ""
     \/ Acts(w, {"type"}) /\ local[w].text \notin {"0", "1"}
     \/ Acts(w, {"workdir"}) /\ local[w].text \notin {"0", ""}
  /\ Return(w)
  /\ UNCHANGED <<stateVars, worldVars, bounds, histVars>>

\* handleCreateAgentName, BotID, Secret: the field first, the next menu in a second step.
EnterField_Any(w) ==
  /\ Acts(w, Field) /\ local[w].text # "0"
  /\ tmp' = [tmp EXCEPT ![local[w].stage] = local[w].text]
  /\ Goto(w, "next")
  /\ UNCHANGED <<menu, list, worldVars, bounds, local, histVars>>

EnterField(w) ==
  /\ Acts(w, Field) /\ local[w].text \notin {"0", ""}
  /\ tmp' = [tmp EXCEPT ![local[w].stage] = local[w].text]
  /\ Goto(w, "next")
  /\ UNCHANGED <<menu, list, worldVars, bounds, local, histVars>>

NextField(w) ==
  /\ At(w, "next")
  /\ menu' = CASE local[w].stage = "name" -> "id"
               [] local[w].stage = "id" -> "secret"
               [] OTHER -> "type"
  /\ Return(w)
  /\ UNCHANGED <<tmp, list, worldVars, bounds, histVars>>

\* handleCreateAgentType reads the fields and then leaves the menu.
TakeFields(w) ==
  /\ Acts(w, {"type"}) /\ local[w].text = "1"
  /\ local' = [local EXCEPT ![w].fields = tmp]
  /\ Goto(w, "take")
  /\ UNCHANGED <<stateVars, worldVars, bounds, histVars>>

LeaveMenu(w) ==
  /\ At(w, "take")
  /\ menu' = "none"
  /\ Goto(w, "add")
  /\ UNCHANGED <<tmp, list, worldVars, bounds, local, histVars>>

\* bot_id is a unique key.
Unused(w) == local[w].fields.id \notin BotIDs

AddBot(w) ==
  /\ At(w, "add")
  /\ IF Unused(w)
       THEN /\ bots' = Append(bots, local[w].fields)
            /\ Goto(w, "bind") /\ UNCHANGED local
       ELSE Return(w) /\ UNCHANGED bots
  /\ UNCHANGED <<stateVars, bound, up, bounds, histVars>>

BindAndOpen(w) ==
  /\ At(w, "bind")
  /\ \/ bound' = bound \cup {local[w].fields.id} /\ up' = up \cup {local[w].fields.id}
     \/ UNCHANGED <<bound, up>>
  /\ Return(w)
  /\ UNCHANGED <<stateVars, bots, bounds, histVars>>

-----------------------------------------------------------------------------
(* handleList.                                                              *)

\* The bots that have a session, by the last activity of the sessions: in any order.
Orders(s) == {o \in [1..Cardinality(s) -> s] : \A i, j \in DOMAIN o : o[i] = o[j] => i = j}

\* The sessions cannot be read: an error reply.
ListFails(w) ==
  /\ At(w, "query")
  /\ Return(w)
  /\ UNCHANGED <<stateVars, worldVars, bounds, histVars>>

ListQuery(w) ==
  /\ At(w, "query")
  /\ IF bound = {}
       THEN menu' = "none" /\ offered' = TRUE /\ Return(w)
       ELSE /\ \E o \in Orders(bound) : local' = [local EXCEPT ![w].rest = o]
            /\ Goto(w, "status") /\ UNCHANGED <<menu, offered>>
  /\ UNCHANGED <<tmp, list, worldVars, bounds, refusedDown, relisted, fell>>

ListStatuses(w) ==
  /\ At(w, "status")
  /\ local' = [local EXCEPT ![w].up = up]
  /\ Goto(w, "reset")
  /\ UNCHANGED <<stateVars, worldVars, bounds, histVars>>

Relists == relisted' = relisted \cup {v \in Worker : pc[v] \in {"reopen", "mark"}}

\* Nobody else is writing the list or waiting to mark an item of it.
MakesAlone(w) ==
  \A v \in Worker \ {w} : pc[v] \notin {"reset", "load", "store", "reopen", "mark"}

ListReset(w) ==
  /\ At(w, "reset")
  /\ list' = <<>>
  /\ Relists
  /\ fell' = IF MakesAlone(w) THEN local[w].up \ up ELSE fell
  /\ Goto(w, "load")
  /\ UNCHANGED <<menu, tmp, worldVars, bounds, local, offered, refusedDown>>

\* An append without a lock is a load and a store.
ListLoad(w) ==
  /\ At(w, "load")
  /\ IF local[w].rest = <<>>
       THEN Goto(w, "shown") /\ UNCHANGED local
       ELSE local' = [local EXCEPT ![w].seen = list] /\ Goto(w, "store")
  /\ UNCHANGED <<stateVars, worldVars, bounds, histVars>>

ListStore(w) ==
  LET bot == Head(local[w].rest) IN
  /\ At(w, "store")
  /\ list' = Append(local[w].seen, [bot |-> bot, connected |-> bot \in local[w].up])
  /\ local' = [local EXCEPT ![w].rest = Tail(@), ![w].seen = <<>>]
  /\ Relists
  /\ Goto(w, "load")
  /\ UNCHANGED <<menu, tmp, worldVars, bounds, offered, refusedDown, fell>>

ListShown(w) ==
  /\ At(w, "shown")
  /\ menu' = "list"
  /\ Return(w)
  /\ UNCHANGED <<tmp, list, worldVars, bounds, histVars>>

-----------------------------------------------------------------------------
(* handleListChoice.                                                        *)

Index(text) == CASE text = "1" -> 1 [] text = "2" -> 2 [] text = "3" -> 3 [] OTHER -> 0

\* Not a number of the list, or an item that was connected when the list was made.
ChoiceRefused(w) ==
  LET i == Index(local[w].text) IN
  /\ Acts(w, {"list"}) /\ local[w].text # "0"
  /\ i \in DOMAIN list => list[i].connected
  /\ refusedDown' = (refusedDown \/ (i \in DOMAIN list /\ list[i].bot \notin up))
  /\ Return(w)
  /\ UNCHANGED <<stateVars, worldVars, bounds, offered, relisted, fell>>

ChoiceTaken_FromZero(w) ==
  LET i == Index(local[w].text) IN
  /\ Acts(w, {"list"})
  /\ i \in DOMAIN list /\ ~ list[i].connected
  /\ local' = [local EXCEPT ![w].idx = i - 1, ![w].item = list[i]]
  /\ relisted' = relisted \ {w}
  /\ Goto(w, "reopen")
  /\ UNCHANGED <<stateVars, worldVars, bounds, offered, refusedDown, fell>>

ChoiceTaken(w) ==
  LET i == Index(local[w].text) IN
  /\ Acts(w, {"list"})
  /\ i \in DOMAIN list /\ ~ list[i].connected
  /\ local' = [local EXCEPT ![w].idx = i, ![w].item = list[i]]
  /\ relisted' = relisted \ {w}
  /\ Goto(w, "reopen")
  /\ UNCHANGED <<stateVars, worldVars, bounds, offered, refusedDown, fell>>

\* The channels that this step takes down.
Loses == fell' = fell \cup (up \ up')

Reopen_MarksFailure(w) ==
  /\ At(w, "reopen")
  /\ up' \in {up, up \cup {local[w].item.bot}, up \ {local[w].item.bot}} /\ Loses
  /\ Goto(w, "mark")
  /\ UNCHANGED <<local, stateVars, bots, bound, bounds, offered, refusedDown, relisted>>

\* The channel is closed and opened again, or is not, or the bot cannot be read.
Reopen(w) ==
  /\ At(w, "reopen")
  /\ \/ up' = up \cup {local[w].item.bot} /\ Goto(w, "mark") /\ UNCHANGED local
     \/ up' \in {up, up \ {local[w].item.bot}} /\ Return(w)
  /\ Loses
  /\ UNCHANGED <<stateVars, bots, bound, bounds, offered, refusedDown, relisted>>

\* The list is indexed again; out of range is a panic, which main recovers from.
Mark(w) ==
  /\ At(w, "mark")
  /\ IF local[w].idx \in DOMAIN list
       THEN list' = [list EXCEPT ![local[w].idx].connected = TRUE] /\ Goto(w, "shown")
                /\ UNCHANGED local
       ELSE list' = list /\ Return(w)
  /\ fell' = IF w \in relisted /\ local[w].idx \in DOMAIN list
               THEN fell \cup {list[local[w].idx].bot} ELSE fell
  /\ UNCHANGED <<menu, tmp, worldVars, bounds, offered, refusedDown, relisted>>

-----------------------------------------------------------------------------
\* A channel breaks or comes back by itself; "/new" unbinds a bot and binds it again.
World(b) ==
  /\ events < MaxEvents /\ events' = events + 1
  /\ \/ up' \in {up \cup {b}, up \ {b}} /\ up' # up /\ bound' = bound
     \/ bound' \in {bound \cup {b}, bound \ {b}} /\ bound' # bound /\ up' = up
  /\ Loses
  /\ UNCHANGED <<stateVars, bots, count, pc, local, offered, refusedDown, relisted>>

Handles(w) ==
  \/ Dispatch(w) \/ MainMenuChoice(w) \/ BackToMain(w) \/ Repeats(w)
  \/ EnterField(w) \/ NextField(w) \/ TakeFields(w) \/ LeaveMenu(w) \/ AddBot(w)
  \/ BindAndOpen(w)
  \/ ListFails(w) \/ ListQuery(w) \/ ListStatuses(w) \/ ListReset(w) \/ ListLoad(w) \/ ListStore(w)
  \/ ListShown(w)
  \/ ChoiceRefused(w) \/ ChoiceTaken(w) \/ Reopen(w) \/ Mark(w)

Next ==
  \/ \E w \in Worker, text \in Text, prompt \in Quoted \cup {"none"} : Receive(w, text, prompt)
  \/ \E w \in Worker : Handles(w)
  \/ \E b \in BotIDs : World(b)

Spec == Init /\ [][Next]_vars

-----------------------------------------------------------------------------
(* Properties.                                                              *)

\* As long as no prompt is quoted, no agent is created with an empty name, BotID or
\* Secret, however the messages of an impatient user overlap: every field is set before
\* the menu moves on (controller.go:185-187, 206-207, 226-227).
NoEmptyAgent ==
  \A i \in DOMAIN bots : \A f \in Field : bots[i][f] # ""

\* The list refuses to reconnect an agent whose channel is down (DisconnectedIsReconnected
\* below) for one reason only: the channel was lost after the list was made, so another
\* /list puts it right.  Statuses read by a /list that overlaps another, items lost or kept
\* by the unlocked append and reconnections that fail never show a lost agent as connected.
\* "fell" counts from the last /list that nobody overlapped, and counts an agent that a
\* choice made before a /list has marked by mistake (controller.go:399-443, 558-578).
ShownLostOnlyIfItFell ==
  \A i \in DOMAIN list : list[i].connected /\ list[i].bot \notin up => list[i].bot \in fell

\* The item that is marked as reconnected after the network round trip is the agent that
\* was chosen, unless a /list has written the list in between: reconnections of others,
\* creations and menus do not move it (controller.go:552-579).
MarkedWasChosen ==
  \A w \in Worker \ relisted : At(w, "mark") =>
    local[w].idx \in DOMAIN list /\ list[local[w].idx].bot = local[w].item.bot

-----------------------------------------------------------------------------
(* What comments and messages promise.                                      *)

\* controller.go:541: handleListChoice reconnects "that agent", so the item it marks as
\* reconnected after the network round trip is the one that was chosen.
MarksReconnected ==
  \A w \in Worker : At(w, "mark") =>
    local[w].idx \in DOMAIN list /\ list[local[w].idx].bot = local[w].item.bot

\* controller.go:540-541: a number triggers a reconnection if the agent is disconnected.
DisconnectedIsReconnected == ~ refusedDown

\* controller.go:622: the quoted text determines which menu the user is replying to.
QuoteLeadsToItsMenu ==
  \A w \in Worker : At(w, "dispatch") /\ local[w].prompt # "none" => menu = local[w].prompt

\* controller.go:393: "no agent yet, reply 1 to create one".
OfferIsKept ==
  \A w \in Worker :
    At(w, "act") /\ local[w].offered /\ local[w].text = "1" => local[w].stage = "main"
=============================================================================

-------------------------- MODULE ControlMenuProofs --------------------------
(***************************************************************************)
(* The menus of the control bot, for any number of messages handled at the *)
(* same time, any texts and any bots.                                      *)
(*                                                                         *)
(* A step is of one worker: MovesOne reduces what it does to the local     *)
(* variables of all to what it does to its own.                            *)
(***************************************************************************)
EXTENDS ControlMenu, SequenceTheorems, FiniteSetTheorems, TLAPS

KnownItem == [bot : BotIDs, connected : BOOLEAN]

Locals == [text : Entry, prompt : Menu, offered : BOOLEAN, stage : Menu,
           fields : [Field -> Entry], rest : Seq(BotIDs), up : SUBSET BotIDs,
           seen : Seq(KnownItem), idx : Nat, item : Item]

(***************************************************************************)
(* What a worker has in its locals when it uses them: the rest of a list   *)
(* that it stores an item of, a BotID that was added before it is bound,   *)
(* and a chosen item.                                                      *)
(***************************************************************************)
LocalOK(w) ==
  /\ pc[w] = "store" => local[w].rest # <<>>
  /\ pc[w] = "bind" => local[w].fields.id \in BotIDs
  /\ pc[w] \in {"reopen", "mark"} => local[w].idx > 0 /\ local[w].item.bot \in BotIDs

MenuInv ==
  /\ TypeOK
  /\ list \in Seq(KnownItem) /\ IsFiniteSet(bound)
  /\ local \in [Worker -> Locals]
  /\ \A w \in Worker : LocalOK(w)

LEMMA Known ==
  ASSUME TypeOK
  PROVE  BotIDs \subseteq Entry \cup FirstBots /\ KnownItem \subseteq Item
<1>1. \A i \in DOMAIN bots : bots[i].id \in Entry
  <2> SUFFICES ASSUME NEW i \in DOMAIN bots PROVE bots[i].id \in Entry
    OBVIOUS
  <2>1. bots[i] \in [Field -> Entry]
    BY LenProperties, ElementOfSeq DEF TypeOK
  <2> QED
    BY <2>1 DEF Field
<1> QED
  BY <1>1 DEF BotIDs, KnownItem, Item

\* The locals keep their type when one of them is assigned.
LEMMA LocalUpdate ==
  ASSUME NEW l \in Locals
  PROVE  /\ \A s \in Menu : [l EXCEPT !.stage = s] \in Locals
         /\ \A f \in [Field -> Entry] : [l EXCEPT !.fields = f] \in Locals
         /\ \A r \in Seq(BotIDs) : [l EXCEPT !.rest = r] \in Locals
         /\ \A u \in SUBSET BotIDs : [l EXCEPT !.up = u] \in Locals
         /\ \A q \in Seq(KnownItem) : [l EXCEPT !.seen = q] \in Locals
         /\ \A r \in Seq(BotIDs), q \in Seq(KnownItem) :
              [l EXCEPT !.rest = r, !.seen = q] \in Locals
         /\ \A i \in Nat, x \in Item : [l EXCEPT !.idx = i, !.item = x] \in Locals
         /\ \A t \in Entry, p \in Menu, o \in BOOLEAN :
              [l EXCEPT !.text = t, !.prompt = p, !.offered = o] \in Locals
  BY DEF Locals

LEMMA NoLocalType == NoLocal \in Locals
<1>1. <<>> \in Seq(BotIDs) /\ <<>> \in Seq(KnownItem)
  BY EmptySeq
<1>2. NoFields \in [Field -> Entry] /\ NoItem \in Item
  BY DEF NoFields, NoItem, Item, Entry
<1> QED
  BY <1>1, <1>2 DEF NoLocal, Locals, Menu, Entry

\* A step of one worker that adds no bot.
Moves(w, l, label) ==
  /\ l \in Locals /\ label \in Label
  /\ local' = [local EXCEPT ![w] = l] /\ pc' = [pc EXCEPT ![w] = label] /\ bots' = bots
  /\ label = "store" => l.rest # <<>>
  /\ label = "bind" => l.fields.id \in BotIDs
  /\ label \in {"reopen", "mark"} => l.idx > 0 /\ l.item.bot \in BotIDs

SharedOK ==
  /\ menu' \in Menu /\ tmp' \in [Field -> Entry] /\ list' \in Seq(KnownItem)
  /\ bound' \subseteq BotIDs /\ IsFiniteSet(bound') /\ up' \subseteq BotIDs
  /\ count' \in 0..MaxMessages /\ events' \in 0..MaxEvents
  /\ offered' \in BOOLEAN /\ refusedDown' \in BOOLEAN /\ relisted' \subseteq Worker
  /\ fell' \subseteq BotIDs

LEMMA MovesOne ==
  ASSUME MenuInv, NEW w \in Worker, NEW l, NEW label, Moves(w, l, label), SharedOK
  PROVE  MenuInv'
<1> USE DEF Moves
<1>1. BotIDs' = BotIDs
  BY DEF BotIDs
<1>2. KnownItem' = KnownItem
  BY <1>1 DEF KnownItem
<1>3. Locals' = Locals
  BY <1>1, <1>2 DEF Locals
<1>4. local' \in [Worker -> Locals'] /\ pc' \in [Worker -> Label]
  BY <1>3 DEF MenuInv, TypeOK
<1>5. ASSUME NEW v \in Worker PROVE LocalOK(v)'
  <2>1. CASE v = w
    BY <1>1, <2>1 DEF LocalOK, MenuInv, TypeOK
  <2>2. CASE v # w
    BY <1>1, <2>2 DEF LocalOK, MenuInv, TypeOK
  <2> QED
    BY <2>1, <2>2
<1>6. list' \in Seq(Item)
  BY Known, SeqMonotonic DEF MenuInv, SharedOK
<1>7. TypeOK'
  BY <1>1, <1>4, <1>5, <1>6 DEF TypeOK, MenuInv, SharedOK, LocalOK
<1> QED
  BY <1>2, <1>4, <1>5, <1>7 DEF MenuInv, SharedOK

\* A worker whose message is handled.
LEMMA Returns ==
  ASSUME MenuInv, NEW w \in Worker, Return(w), bots' = bots, SharedOK
  PROVE  MenuInv'
<1>1. Moves(w, NoLocal, "idle")
  BY NoLocalType DEF Moves, Return, Goto, Label
<1> QED
  BY <1>1, MovesOne

\* A worker that goes on with the locals it has.
LEMMA GoesOn ==
  ASSUME MenuInv, NEW w \in Worker, NEW label \in Label, Goto(w, label),
         UNCHANGED <<local, bots>>, label \notin {"store", "bind", "reopen", "mark"}, SharedOK
  PROVE  MenuInv'
<1>1. Moves(w, local[w], label)
  BY DEF Moves, Goto, MenuInv
<1> QED
  BY <1>1, MovesOne

LEMMA SharedStays ==
  ASSUME MenuInv
  PROVE  /\ UNCHANGED <<stateVars, bound, up, bounds, histVars>> => SharedOK
         /\ menu' \in Menu /\ UNCHANGED <<tmp, list, bound, up, bounds, histVars>> => SharedOK
  BY DEF MenuInv, TypeOK, SharedOK, stateVars, bounds, histVars

\* HandleMessage.
LEMMA DispatchType == ASSUME MenuInv, NEW w \in Worker, Dispatch(w) PROVE MenuInv'
<1>1. menu' \in Menu /\ UNCHANGED <<tmp, list, worldVars, bounds, histVars>>
  BY DEF Dispatch, MenuInv, TypeOK, Menu
<1>2. SharedOK /\ bots' = bots
  BY <1>1, SharedStays DEF worldVars
<1>3. CASE Return(w)
  BY <1>2, <1>3, Returns
<1>4. CASE Goto(w, "query") /\ UNCHANGED local
  BY <1>2, <1>4, GoesOn DEF Label
<1>5. CASE /\ Goto(w, "add")
           /\ \E word \in Word \ {""} :
                local' = [local EXCEPT ![w].fields = [f \in Field |-> word]]
  <2>1. PICK word \in Word \ {""} : local' = [local EXCEPT ![w].fields = [f \in Field |-> word]]
    BY <1>5
  <2>2. [f \in Field |-> word] \in [Field -> Entry]
    BY DEF Word, Entry
  <2> DEFINE l == [local[w] EXCEPT !.fields = [f \in Field |-> word]]
  <2>3. l \in Locals
    BY <2>2, LocalUpdate DEF MenuInv
  <2>4. Moves(w, l, "add")
    BY <1>2, <1>5, <2>1, <2>3 DEF Moves, Goto, Label, MenuInv
  <2> QED
    BY <1>2, <2>4, MovesOne
<1>6. CASE local' = [local EXCEPT ![w].stage = menu] /\ Goto(w, "act")
  <2> DEFINE l == [local[w] EXCEPT !.stage = menu]
  <2>1. l \in Locals
    BY LocalUpdate DEF MenuInv, TypeOK
  <2>2. Moves(w, l, "act")
    BY <1>2, <1>6, <2>1 DEF Moves, Goto, Label, MenuInv
  <2> QED
    BY <1>2, <2>2, MovesOne
<1> QED
  BY <1>3, <1>4, <1>5, <1>6 DEF Dispatch

LEMMA ReceiveType ==
  ASSUME MenuInv, NEW w \in Worker, NEW text \in Text, NEW prompt \in Quoted \cup {"none"},
         Receive(w, text, prompt)
  PROVE  MenuInv'
<1>1. prompt \in Menu /\ text \in Entry /\ offered \in BOOLEAN
  BY MenuConstants DEF Menu, Entry, MenuInv, TypeOK
<1>a. menu' \in Menu
  BY <1>1 DEF Receive, DetectMenuStage, MenuInv, TypeOK
<1>b. count' \in 0..MaxMessages
  <2>1. count' = count + 1 /\ count < MaxMessages
    BY DEF Receive
  <2>2. count \in 0..MaxMessages /\ MaxMessages \in Nat
    BY MenuConstants DEF MenuInv, TypeOK
  <2> QED
    BY <2>1, <2>2
<1>2. SharedOK
  BY <1>a, <1>b DEF Receive, SharedOK, MenuInv, TypeOK, worldVars
<1> DEFINE l == [local[w] EXCEPT !.text = text, !.prompt = prompt, !.offered = offered]
<1>3. l \in Locals
  BY <1>1, LocalUpdate DEF MenuInv
<1>4. Moves(w, l, "dispatch")
  BY <1>3 DEF Receive, Moves, Goto, Label, MenuInv, worldVars
<1> QED
  BY <1>2, <1>4, MovesOne

\* The steps of the dialogues that only move the menu.
LEMMA MenuType ==
  ASSUME MenuInv, NEW w \in Worker,
         \/ MainMenuChoice(w) \/ BackToMain(w) \/ Repeats(w) \/ NextField(w) \/ LeaveMenu(w)
  PROVE  MenuInv'
<1>1. menu' \in Menu /\ UNCHANGED <<tmp, list, worldVars, bounds, histVars>>
  BY DEF MainMenuChoice, BackToMain, Repeats, NextField, LeaveMenu, MenuInv, TypeOK, Menu,
     stateVars
<1>2. SharedOK /\ bots' = bots
  BY <1>1, SharedStays DEF worldVars
<1>3. \/ Return(w)
      \/ Goto(w, "query") /\ UNCHANGED local
      \/ Goto(w, "add") /\ UNCHANGED local
  BY DEF MainMenuChoice, BackToMain, Repeats, NextField, LeaveMenu
<1> QED
  BY <1>2, <1>3, Returns, GoesOn DEF Label

LEMMA FieldType == ASSUME MenuInv, NEW w \in Worker, EnterField(w) PROVE MenuInv'
<1>1. local[w].text \in Entry
  BY DEF MenuInv, Locals
<1>2. tmp' \in [Field -> Entry]
  BY <1>1 DEF EnterField, MenuInv, TypeOK
<1>3. SharedOK
  BY <1>2 DEF EnterField, SharedOK, MenuInv, TypeOK, worldVars, bounds, histVars
<1> QED
  BY <1>3, GoesOn DEF EnterField, Label, worldVars

LEMMA TakeType == ASSUME MenuInv, NEW w \in Worker, TakeFields(w) PROVE MenuInv'
<1> DEFINE l == [local[w] EXCEPT !.fields = tmp]
<1>1. l \in Locals
  BY LocalUpdate DEF MenuInv, TypeOK
<1>2. Moves(w, l, "take")
  BY <1>1 DEF TakeFields, Moves, Goto, Label, MenuInv, worldVars
<1>3. SharedOK
  BY SharedStays DEF TakeFields, worldVars
<1> QED
  BY <1>2, <1>3, MovesOne

LEMMA BindType == ASSUME MenuInv, NEW w \in Worker, BindAndOpen(w) PROVE MenuInv'
<1>1. local[w].fields.id \in BotIDs
  BY DEF BindAndOpen, At, MenuInv, LocalOK
<1>2. bound' \subseteq BotIDs /\ IsFiniteSet(bound') /\ up' \subseteq BotIDs
  <2>1. /\ bound' = bound \/ bound' = bound \cup {local[w].fields.id}
        /\ up' = up \/ up' = up \cup {local[w].fields.id}
    BY DEF BindAndOpen
  <2>2. IsFiniteSet(bound \cup {local[w].fields.id})
    BY FS_AddElement DEF MenuInv
  <2> QED
    BY <1>1, <2>1, <2>2 DEF MenuInv, TypeOK
<1>3. SharedOK
  BY <1>2 DEF BindAndOpen, SharedOK, MenuInv, TypeOK, stateVars, bounds, histVars
<1> QED
  BY <1>3, Returns DEF BindAndOpen

\* AddBot adds to the bots, so what was known stays known.
LEMMA AddType == ASSUME MenuInv, NEW w \in Worker, AddBot(w) PROVE MenuInv'
<1>1. CASE ~ Unused(w)
  <2>1. Return(w) /\ bots' = bots /\ SharedOK
    BY <1>1, SharedStays DEF AddBot
  <2> QED
    BY <2>1, Returns
<1>2. CASE Unused(w)
  <2>1. /\ bots' = Append(bots, local[w].fields) /\ Goto(w, "bind")
        /\ UNCHANGED <<local, stateVars, bound, up, bounds, histVars>>
    BY <1>2 DEF AddBot
  <2>2. local[w].fields \in [Field -> Entry]
    BY DEF MenuInv, Locals
  <2>3. bots' \in Seq([Field -> Entry])
    BY <2>1, <2>2, AppendProperties DEF MenuInv, TypeOK
  <2>4. BotIDs' = BotIDs \cup {local[w].fields.id}
    <3>1. /\ DOMAIN bots = 1..Len(bots) /\ DOMAIN bots' = 1..(Len(bots) + 1)
          /\ Len(bots) \in Nat
          /\ \A i \in 1..Len(bots) : bots'[i] = bots[i]
          /\ bots'[Len(bots) + 1] = local[w].fields
      BY <2>1, <2>2, <2>3, AppendProperties, LenProperties DEF MenuInv, TypeOK
    <3> QED
      BY <3>1 DEF BotIDs
  <2>5. KnownItem \subseteq KnownItem'
    BY <2>4 DEF KnownItem
  <2>6. Locals \subseteq Locals'
    <3>1. \A r \in Seq(BotIDs) : r \in Seq(BotIDs')
      BY <2>4, SeqMonotonic
    <3>2. \A r \in Seq(KnownItem) : r \in Seq(KnownItem')
      BY <2>5, SeqMonotonic
    <3> QED
      BY <2>4, <3>1, <3>2 DEF Locals
  <2>7. local' \in [Worker -> Locals'] /\ pc' \in [Worker -> Label]
    BY <2>1, <2>6 DEF MenuInv, TypeOK, Goto, Label
  <2>8. \A v \in Worker : LocalOK(v)'
    BY <2>1, <2>4 DEF MenuInv, TypeOK, LocalOK, Goto
  <2>9. list' \in Seq(KnownItem') /\ IsFiniteSet(bound')
    BY <2>1, <2>5, SeqMonotonic DEF MenuInv, stateVars
  <2>10. TypeOK'
    BY <2>1, <2>3, <2>4, <2>7, <2>8
       DEF TypeOK, MenuInv, LocalOK, stateVars, bounds, histVars
  <2> QED
    BY <2>7, <2>8, <2>9, <2>10 DEF MenuInv
<1> QED
  BY <1>1, <1>2

\* handleList: what it stores are bots that are bound when it starts.
LEMMA OrderType ==
  ASSUME NEW s, IsFiniteSet(s), NEW o \in Orders(s)
  PROVE  o \in Seq(s) /\ (s # {} => o # <<>>)
<1>1. Cardinality(s) \in Nat
  BY FS_CardinalityType
<1>2. o \in [1..Cardinality(s) -> s]
  BY DEF Orders
<1>3. o \in Seq(s)
  BY <1>1, <1>2, SeqDef
<1>4. ASSUME s # {} PROVE o # <<>>
  <2>1. Cardinality(s) # 0
    BY <1>4, FS_EmptySet
  <2>2. DOMAIN o # {}
    BY <1>1, <1>2, <2>1
  <2> QED
    BY <2>2
<1> QED
  BY <1>3, <1>4

LEMMA ListType ==
  ASSUME MenuInv, NEW w \in Worker,
         ListFails(w) \/ ListQuery(w) \/ ListStatuses(w) \/ ListShown(w)
  PROVE  MenuInv'
<1>1. CASE ListFails(w)
  BY <1>1, SharedStays, Returns DEF ListFails, worldVars
<1>2. CASE ListQuery(w)
  <2>1. SharedOK /\ bots' = bots
    BY <1>2 DEF ListQuery, SharedOK, MenuInv, TypeOK, worldVars, bounds, Menu
  <2>2. CASE bound = {}
    BY <1>2, <2>1, <2>2, Returns DEF ListQuery
  <2>3. CASE bound # {}
    <3>1. PICK o \in Orders(bound) : local' = [local EXCEPT ![w].rest = o]
      BY <1>2, <2>3 DEF ListQuery
    <3>2. o \in Seq(BotIDs)
      BY OrderType, SeqMonotonic DEF MenuInv, TypeOK
    <3> DEFINE l == [local[w] EXCEPT !.rest = o]
    <3>3. l \in Locals
      BY <3>2, LocalUpdate DEF MenuInv
    <3>4. Moves(w, l, "status")
      BY <1>2, <2>1, <2>3, <3>1, <3>3 DEF ListQuery, Moves, Goto, Label, MenuInv
    <3> QED
      BY <2>1, <3>4, MovesOne
  <2> QED
    BY <2>2, <2>3
<1>3. CASE ListStatuses(w)
  <2>1. SharedOK /\ bots' = bots
    BY <1>3, SharedStays DEF ListStatuses, worldVars
  <2> DEFINE l == [local[w] EXCEPT !.up = up]
  <2>2. l \in Locals
    BY LocalUpdate DEF MenuInv, TypeOK
  <2>3. Moves(w, l, "reset")
    BY <1>3, <2>1, <2>2 DEF ListStatuses, Moves, Goto, Label, MenuInv
  <2> QED
    BY <2>1, <2>3, MovesOne
<1>4. CASE ListShown(w)
  <2>1. SharedOK /\ bots' = bots
    BY <1>4, SharedStays DEF ListShown, worldVars, Menu
  <2> QED
    BY <1>4, <2>1, Returns DEF ListShown
<1> QED
  BY <1>1, <1>2, <1>3, <1>4

\* The list is made item by item.
LEMMA ListItemType ==
  ASSUME MenuInv, NEW w \in Worker, ListReset(w) \/ ListLoad(w) \/ ListStore(w)
  PROVE  MenuInv'
<1>1. CASE ListReset(w)
  <2>1. list' \in Seq(KnownItem) /\ relisted' \subseteq Worker
    BY <1>1, EmptySeq DEF ListReset, Relists, MenuInv, TypeOK
  <2>3. fell' \subseteq BotIDs
    BY <1>1 DEF ListReset, MenuInv, TypeOK, Locals
  <2>2. SharedOK
    BY <1>1, <2>1, <2>3 DEF ListReset, SharedOK, MenuInv, TypeOK, worldVars, bounds
  <2> QED
    BY <1>1, <2>2, GoesOn DEF ListReset, worldVars, Label
<1>2. CASE ListLoad(w)
  <2>1. SharedOK /\ bots' = bots
    BY <1>2, SharedStays DEF ListLoad, worldVars
  <2>2. CASE local[w].rest = <<>>
    BY <1>2, <2>1, <2>2, GoesOn DEF ListLoad, Label
  <2>3. CASE local[w].rest # <<>>
    <3> DEFINE l == [local[w] EXCEPT !.seen = list]
    <3>1. l \in Locals
      BY LocalUpdate DEF MenuInv
    <3>a. l.rest = local[w].rest
      BY DEF MenuInv, Locals
    <3>2. Moves(w, l, "store")
      BY <1>2, <2>1, <2>3, <3>1, <3>a DEF ListLoad, Moves, Goto, Label, MenuInv
    <3> QED
      BY <2>1, <3>2, MovesOne
  <2> QED
    BY <2>2, <2>3
<1>3. CASE ListStore(w)
  <2>1. /\ local[w].rest \in Seq(BotIDs) /\ local[w].rest # <<>>
        /\ local[w].seen \in Seq(KnownItem)
    BY <1>3 DEF ListStore, At, MenuInv, LocalOK, Locals
  <2>2. Head(local[w].rest) \in BotIDs /\ Tail(local[w].rest) \in Seq(BotIDs)
    BY <2>1, HeadTailProperties
  <2> DEFINE item == [bot |-> Head(local[w].rest),
                      connected |-> Head(local[w].rest) \in local[w].up]
             l == [local[w] EXCEPT !.rest = Tail(local[w].rest), !.seen = <<>>]
  <2>3. item \in KnownItem
    BY <2>2 DEF KnownItem
  <2>4. list' \in Seq(KnownItem)
    <3>1. list' = Append(local[w].seen, item)
      BY <1>3 DEF ListStore
    <3> HIDE DEF item
    <3> QED
      BY <2>1, <2>3, <3>1, AppendProperties
  <2>5. SharedOK
    BY <1>3, <2>4 DEF ListStore, Relists, SharedOK, MenuInv, TypeOK, worldVars, bounds
  <2>6. l \in Locals
    BY <2>2, EmptySeq, LocalUpdate DEF MenuInv
  <2>7. Moves(w, l, "load")
    BY <1>3, <2>6 DEF ListStore, Moves, Goto, Label, MenuInv, worldVars
  <2> QED
    BY <2>5, <2>7, MovesOne
<1> QED
  BY <1>1, <1>2, <1>3

\* handleListChoice.
LEMMA ChoiceType ==
  ASSUME MenuInv, NEW w \in Worker, ChoiceRefused(w) \/ ChoiceTaken(w) PROVE MenuInv'
<1>1. CASE ChoiceRefused(w)
  <2>1. refusedDown' \in BOOLEAN
    BY <1>1 DEF ChoiceRefused, MenuInv, TypeOK
  <2>2. SharedOK
    BY <1>1, <2>1 DEF ChoiceRefused, SharedOK, MenuInv, TypeOK, stateVars, worldVars, bounds
  <2> QED
    BY <1>1, <2>2, Returns DEF ChoiceRefused, worldVars
<1>2. CASE ChoiceTaken(w)
  <2> DEFINE i == Index(local[w].text)
             l == [local[w] EXCEPT !.idx = i, !.item = list[i]]
  <2>1. i \in DOMAIN list /\ i \in Nat
    BY <1>2 DEF ChoiceTaken, Index
  <2>2. list[i] \in KnownItem /\ i > 0
    <3>1. i \in 1..Len(list) /\ Len(list) \in Nat
      BY <2>1, LenProperties DEF MenuInv
    <3> HIDE DEF i
    <3> QED
      BY <3>1, ElementOfSeq DEF MenuInv
  <2>3. list[i] \in Item /\ list[i].bot \in BotIDs
    BY <2>2, Known DEF MenuInv, KnownItem
  <2>4. l \in Locals
    BY <2>1, <2>3, LocalUpdate DEF MenuInv
  <2>5. l.idx = i /\ l.item = list[i]
    BY DEF MenuInv, Locals
  <2>6. local' = [local EXCEPT ![w] = l] /\ pc' = [pc EXCEPT ![w] = "reopen"] /\ bots' = bots
    BY <1>2 DEF ChoiceTaken, Goto, MenuInv, worldVars
  <2>7. SharedOK
    BY <1>2 DEF ChoiceTaken, SharedOK, MenuInv, TypeOK, stateVars, worldVars, bounds
  <2> HIDE DEF l, i
  <2>8. Moves(w, l, "reopen")
    BY <2>2, <2>3, <2>4, <2>5, <2>6 DEF Moves, Label
  <2> QED
    BY <2>7, <2>8, MovesOne
<1> QED
  BY <1>1, <1>2

LEMMA ReopenType == ASSUME MenuInv, NEW w \in Worker, Reopen(w) PROVE MenuInv'
<1>1. local[w].item.bot \in BotIDs /\ local[w].idx > 0
  BY DEF Reopen, At, MenuInv, LocalOK
<1>2. up' \subseteq BotIDs /\ fell' \subseteq BotIDs
  BY <1>1 DEF Reopen, Loses, MenuInv, TypeOK
<1>3. SharedOK /\ bots' = bots
  BY <1>2 DEF Reopen, SharedOK, MenuInv, TypeOK, stateVars, bounds, histVars
<1>4. CASE Return(w)
  BY <1>3, <1>4, Returns
<1>5. CASE Goto(w, "mark") /\ UNCHANGED local
  <2>1. Moves(w, local[w], "mark")
    BY <1>1, <1>3, <1>5 DEF Moves, Goto, Label, MenuInv
  <2> QED
    BY <1>3, <2>1, MovesOne
<1> QED
  BY <1>4, <1>5 DEF Reopen

\* Marking an item changes nothing but whether it is connected.
LEMMA Marked ==
  ASSUME MenuInv, NEW i \in DOMAIN list, list' = [list EXCEPT ![i].connected = TRUE]
  PROVE  /\ list' \in Seq(KnownItem) /\ DOMAIN list' = DOMAIN list
         /\ \A j \in DOMAIN list : list'[j].bot = list[j].bot
<1> DEFINE item == [list[i] EXCEPT !.connected = TRUE]
<1>1. /\ list \in Seq(KnownItem) /\ DOMAIN list = 1..Len(list)
      /\ \A j \in 1..Len(list) : list[j] \in KnownItem
  BY LenProperties, ElementOfSeq DEF MenuInv
<1>2. item \in KnownItem /\ item.bot = list[i].bot
  BY <1>1 DEF KnownItem
<1>3. list' = [list EXCEPT ![i] = item]
  BY <1>1
<1> HIDE DEF item
<1>a. i \in 1..Len(list)
  BY <1>1
<1>4. list' \in Seq(KnownItem) /\ Len(list') = Len(list)
  <2>1. list[i] \in KnownItem /\ Len([list EXCEPT ![i] = item]) = Len(list)
    BY <1>1, <1>2, <1>a, ExceptSeq
  <2>2. [list EXCEPT ![i] = item] \in Seq(KnownItem)
    BY <1>1, <1>2, <1>a, ExceptSeq
  <2> QED
    BY <1>3, <2>1, <2>2
<1>b. \A j \in 1..Len(list) : list'[j] = IF j = i THEN item ELSE list[j]
  BY <1>1, <1>3
<1>5. DOMAIN list' = 1..Len(list')
  BY <1>4, LenProperties
<1> QED
  BY <1>1, <1>2, <1>4, <1>b, <1>5

LEMMA MarkType == ASSUME MenuInv, NEW w \in Worker, Mark(w) PROVE MenuInv'
<1>1. list' \in Seq(KnownItem)
  BY Marked DEF Mark, MenuInv
<1>a. fell' \subseteq BotIDs
  <2>1. CASE local[w].idx \in DOMAIN list
    <3>1. list[local[w].idx] \in KnownItem
      BY <2>1, LenProperties, ElementOfSeq DEF MenuInv
    <3>2. list[local[w].idx].bot \in BotIDs
      BY <3>1 DEF KnownItem
    <3> QED
      BY <3>2 DEF Mark, MenuInv, TypeOK
  <2> QED
    BY <2>1 DEF Mark, MenuInv, TypeOK
<1>2. SharedOK /\ bots' = bots
  BY <1>1, <1>a DEF Mark, SharedOK, MenuInv, TypeOK, worldVars, bounds, histVars
<1>3. CASE Goto(w, "shown") /\ UNCHANGED local
  BY <1>2, <1>3, GoesOn DEF Label
<1>4. CASE Return(w)
  BY <1>2, <1>4, Returns
<1> QED
  BY <1>3, <1>4 DEF Mark

LEMMA WorldType == ASSUME MenuInv, NEW b \in BotIDs, World(b) PROVE MenuInv'
<1>1. IsFiniteSet(bound \cup {b}) /\ IsFiniteSet(bound \ {b})
  BY FS_AddElement, FS_RemoveElement DEF MenuInv
<1>2. /\ bound' \subseteq BotIDs /\ IsFiniteSet(bound') /\ up' \subseteq BotIDs
      /\ fell' \subseteq BotIDs
      /\ UNCHANGED <<menu, tmp, list, bots, count, pc, local, offered, refusedDown, relisted>>
  BY <1>1 DEF World, Loses, MenuInv, TypeOK, stateVars
<1>3. events' \in 0..MaxEvents
  <2>1. events' = events + 1 /\ events < MaxEvents
    BY DEF World
  <2>2. events \in 0..MaxEvents /\ MaxEvents \in Nat
    BY MenuConstants DEF MenuInv, TypeOK
  <2> QED
    BY <2>1, <2>2
<1>4. BotIDs' = BotIDs
  BY <1>2 DEF BotIDs
<1>5. KnownItem' = KnownItem /\ Locals' = Locals
  BY <1>4 DEF KnownItem, Locals
<1>6. TypeOK'
  BY <1>2, <1>3, <1>4 DEF MenuInv, TypeOK
<1> QED
  BY <1>2, <1>4, <1>5, <1>6 DEF MenuInv, LocalOK

LEMMA MenuStep == ASSUME MenuInv, [Next]_vars PROVE MenuInv'
<1>1. CASE UNCHANGED vars
  <2>1. BotIDs' = BotIDs /\ UNCHANGED <<stateVars, worldVars, bounds, pc, local, histVars>>
    BY <1>1 DEF vars, BotIDs, worldVars
  <2>2. KnownItem' = KnownItem /\ Locals' = Locals
    BY <2>1 DEF KnownItem, Locals
  <2> QED
    BY <2>1, <2>2 DEF MenuInv, TypeOK, LocalOK, stateVars, worldVars, bounds, histVars
<1>2. ASSUME NEW w \in Worker, Handles(w) PROVE MenuInv'
  BY <1>2, DispatchType, MenuType, FieldType, TakeType, AddType, BindType, ListType,
     ListItemType, ChoiceType, ReopenType, MarkType DEF Handles
<1> QED
  BY <1>1, <1>2, ReceiveType, WorldType DEF Next

LEMMA MenuStart == ASSUME Init PROVE MenuInv
<1>1. BotIDs = FirstBots /\ IsFiniteSet(bound)
  <2>1. DOMAIN bots = {}
    BY DEF Init
  <2>2. BotIDs = FirstBots
    BY <2>1 DEF BotIDs
  <2> QED
    BY <2>2, MenuConstants DEF Init
<1>2. list \in Seq(KnownItem) /\ list \in Seq(Item) /\ bots \in Seq([Field -> Entry])
  BY EmptySeq DEF Init
<1>3. local \in [Worker -> Locals] /\ \A w \in Worker : LocalOK(w)
  BY NoLocalType DEF Init, LocalOK
<1>4. tmp \in [Field -> Entry] /\ menu \in Menu
  BY DEF Init, NoFields, Entry, Menu
<1>5. count \in 0..MaxMessages /\ events \in 0..MaxEvents
  <2>1. MaxMessages \in Nat /\ MaxEvents \in Nat
    BY MenuConstants
  <2>2. count = 0 /\ events = 0
    BY DEF Init
  <2> QED
    BY <2>1, <2>2
<1>6. pc \in [Worker -> Label] /\ \A w \in Worker : pc[w] = "idle"
  BY DEF Init, Label
<1>7. bound \subseteq BotIDs /\ up \subseteq BotIDs /\ offered \in BOOLEAN
      /\ refusedDown \in BOOLEAN /\ relisted \subseteq Worker /\ fell \subseteq BotIDs
  BY <1>1 DEF Init
<1>8. TypeOK
  BY <1>2, <1>4, <1>5, <1>6, <1>7 DEF TypeOK
<1> QED
  BY <1>1, <1>2, <1>3, <1>8 DEF MenuInv

\* Type correctness: whatever overlaps, what is listed, bound or connected is a bot that
\* was added, and the worker that marks an item has chosen one (controller.go:552-579).
THEOREM MenuTypeCorrect == Spec => [](TypeOK /\ list \in Seq(KnownItem))
<1>1. MenuInv => TypeOK /\ list \in Seq(KnownItem)
  BY DEF MenuInv
<1> QED
  BY <1>1, MenuStart, MenuStep, PTL DEF Spec

LEMMA MenuAlways == Spec => []MenuInv
  BY MenuStart, MenuStep, PTL DEF Spec

-----------------------------------------------------------------------------
(* What is added to the bots.                                              *)

Adds(w) ==
  /\ pc[w] = "add" /\ Unused(w) /\ bots' = Append(bots, local[w].fields)

\* The bots after one was added.
LEMMA Added ==
  ASSUME MenuInv, NEW w \in Worker, Adds(w)
  PROVE  /\ DOMAIN bots = 1..Len(bots) /\ DOMAIN bots' = 1..(Len(bots) + 1)
         /\ Len(bots) \in Nat
         /\ \A i \in 1..Len(bots) : bots'[i] = bots[i]
         /\ bots'[Len(bots) + 1] = local[w].fields
<1>1. bots \in Seq([Field -> Entry]) /\ local[w].fields \in [Field -> Entry]
  BY DEF MenuInv, TypeOK, Locals
<1>2. /\ Append(bots, local[w].fields) \in Seq([Field -> Entry])
      /\ Len(Append(bots, local[w].fields)) = Len(bots) + 1
      /\ \A i \in 1..Len(bots) : Append(bots, local[w].fields)[i] = bots[i]
      /\ Append(bots, local[w].fields)[Len(bots) + 1] = local[w].fields
  BY <1>1, AppendProperties
<1> QED
  BY <1>1, <1>2, LenProperties DEF Adds

-----------------------------------------------------------------------------
(* The fields of an agent.                                                 *)

\* The fields that a dialogue has asked for when it is at a menu.
AskedBefore(stage) ==
  CASE stage = "id" -> {"name"}
    [] stage = "secret" -> {"name", "id"}
    [] stage = "type" -> Field
    [] OTHER -> {}

\* What a worker relies on: the fields before the menu it acts on, the field it has
\* just entered, all fields once it has taken them.
FieldsOK(w) ==
  /\ pc[w] \in {"act", "next"} => \A f \in AskedBefore(local[w].stage) : tmp[f] # ""
  /\ pc[w] = "next" => local[w].stage \in Field /\ tmp[local[w].stage] # ""
  /\ pc[w] \in {"take", "add", "bind"} => \A f \in Field : local[w].fields[f] # ""

FieldsInv ==
  /\ \A f \in AskedBefore(menu) : tmp[f] # ""
  /\ \A w \in Worker : FieldsOK(w)
  /\ NoEmptyAgent

\* The prompts that do not take a user past a field that was not asked for.
PlainQuotes == Quoted \subseteq {"main", "name", "workdir", "list"}

\* A field that was entered stays entered.
FieldsKept == \A f \in Field : tmp[f] # "" => tmp'[f] # ""

LEMMA AskedAreFields == \A stage \in Menu : AskedBefore(stage) \subseteq Field
  BY DEF AskedBefore, Field, Menu

\* A step of one worker, as far as the fields are concerned.
LEMMA FieldsOne ==
  ASSUME MenuInv, FieldsInv, NEW w \in Worker, bots' = bots, FieldsKept,
         \A v \in Worker \ {w} : local'[v] = local[v] /\ pc'[v] = pc[v],
         FieldsOK(w)', \A f \in AskedBefore(menu') : tmp'[f] # ""
  PROVE  FieldsInv'
<1>1. ASSUME NEW v \in Worker PROVE FieldsOK(v)'
  <2>1. CASE v = w
    BY <2>1
  <2>2. CASE v # w
    <3>1. local'[v] = local[v] /\ pc'[v] = pc[v] /\ FieldsOK(v)
      BY <2>2 DEF FieldsInv
    <3>2. AskedBefore(local[v].stage) \subseteq Field
      BY AskedAreFields DEF MenuInv, Locals
    <3> QED
      BY <3>1, <3>2 DEF FieldsOK, FieldsKept
  <2> QED
    BY <2>1, <2>2
<1>2. NoEmptyAgent'
  BY DEF NoEmptyAgent, FieldsInv
<1> QED
  BY <1>1, <1>2 DEF FieldsInv

\* A step that leaves the worker where it relies on no field.
LEMMA FieldsUnused ==
  ASSUME MenuInv, FieldsInv, NEW w \in Worker, bots' = bots, tmp' = tmp,
         NEW label \in Label \ {"act", "next", "take", "add", "bind"}, Goto(w, label),
         NEW l, local' = [local EXCEPT ![w] = l],
         \A f \in AskedBefore(menu') : tmp[f] # ""
  PROVE  FieldsInv'
<1>1. \A v \in Worker \ {w} : local'[v] = local[v] /\ pc'[v] = pc[v]
  BY DEF Goto, MenuInv, TypeOK
<1>2. FieldsOK(w)'
  BY DEF Goto, FieldsOK, MenuInv, TypeOK
<1> QED
  BY <1>1, <1>2, FieldsOne DEF FieldsKept

LEMMA FieldsMenus ==
  ASSUME MenuInv, FieldsInv, NEW w \in Worker,
         \/ MainMenuChoice(w) \/ BackToMain(w) \/ Repeats(w) \/ NextField(w) \/ LeaveMenu(w)
  PROVE  FieldsInv'
<1>1. bots' = bots /\ tmp' = tmp
  BY DEF MainMenuChoice, BackToMain, Repeats, NextField, LeaveMenu, worldVars, stateVars
<1>2. \A f \in AskedBefore(menu') : tmp[f] # ""
  <2>1. CASE MainMenuChoice(w) \/ BackToMain(w) \/ Repeats(w) \/ LeaveMenu(w)
    <3>1. menu' = menu \/ menu' \in {"main", "name", "workdir", "none"}
      BY <2>1 DEF MainMenuChoice, BackToMain, Repeats, LeaveMenu, stateVars
    <3> QED
      BY <3>1 DEF AskedBefore, FieldsInv
  <2>2. CASE NextField(w)
    <3>1. /\ local[w].stage \in Field /\ tmp[local[w].stage] # ""
          /\ \A f \in AskedBefore(local[w].stage) : tmp[f] # ""
      BY <2>2 DEF NextField, At, FieldsInv, FieldsOK
    <3>2. \/ local[w].stage = "name" /\ menu' = "id"
          \/ local[w].stage = "id" /\ menu' = "secret"
          \/ local[w].stage = "secret" /\ menu' = "type"
      BY <2>2, <3>1 DEF NextField, Field
    <3> QED
      BY <3>1, <3>2 DEF AskedBefore, Field
  <2> QED
    BY <2>1, <2>2
<1>3. CASE Return(w)
  BY <1>1, <1>2, <1>3, FieldsUnused DEF Return, Label
<1>4. CASE Goto(w, "query") /\ UNCHANGED local
  <2>1. local' = [local EXCEPT ![w] = local[w]]
    BY <1>4 DEF MenuInv
  <2> QED
    BY <1>1, <1>2, <1>4, <2>1, FieldsUnused DEF Label
<1>5. CASE LeaveMenu(w)
  <2>1. local' = local /\ pc[w] = "take" /\ pc' = [pc EXCEPT ![w] = "add"]
    BY <1>5 DEF LeaveMenu, At, Goto
  <2>2. FieldsOK(w)'
    BY <2>1 DEF FieldsInv, FieldsOK, MenuInv, TypeOK
  <2>3. \A v \in Worker \ {w} : local'[v] = local[v] /\ pc'[v] = pc[v]
    BY <2>1 DEF MenuInv, TypeOK
  <2> QED
    BY <1>1, <1>2, <2>2, <2>3, FieldsOne DEF FieldsKept
<1> QED
  BY <1>3, <1>4, <1>5 DEF MainMenuChoice, BackToMain, Repeats, NextField

LEMMA FieldsDispatch ==
  ASSUME MenuInv, FieldsInv, NEW w \in Worker, Dispatch(w) PROVE FieldsInv'
<1>1. bots' = bots /\ tmp' = tmp /\ FieldsKept
  BY DEF Dispatch, worldVars, FieldsKept
<1>2. \A f \in AskedBefore(menu') : tmp[f] # ""
  <2>1. menu' = menu \/ menu' \in {"main", "none"}
    BY DEF Dispatch
  <2> QED
    BY <2>1 DEF AskedBefore, FieldsInv
<1>3. CASE Return(w)
  BY <1>1, <1>2, <1>3, FieldsUnused DEF Return, Label
<1>4. CASE Goto(w, "query") /\ UNCHANGED local
  <2>1. local' = [local EXCEPT ![w] = local[w]]
    BY <1>4 DEF MenuInv
  <2> QED
    BY <1>1, <1>2, <1>4, <2>1, FieldsUnused DEF Label
<1>5. CASE /\ Goto(w, "add")
           /\ \E word \in Word \ {""} :
                local' = [local EXCEPT ![w].fields = [f \in Field |-> word]]
  <2>1. PICK word \in Word \ {""} : local' = [local EXCEPT ![w].fields = [f \in Field |-> word]]
    BY <1>5
  <2>2. local'[w].fields = [f \in Field |-> word] /\ pc'[w] = "add"
    <3> DEFINE fields == [f \in Field |-> word]
    <3>1. local' = [local EXCEPT ![w].fields = fields]
      BY <2>1
    <3>2. pc'[w] = "add"
      BY <1>5 DEF Goto, MenuInv, TypeOK
    <3> HIDE DEF fields
    <3>3. local'[w].fields = fields
      BY <3>1 DEF MenuInv, Locals
    <3> QED
      BY <3>2, <3>3 DEF fields
  <2>3. FieldsOK(w)'
    BY <2>2 DEF FieldsOK
  <2>4. \A v \in Worker \ {w} : local'[v] = local[v] /\ pc'[v] = pc[v]
    BY <1>5, <2>1 DEF Goto, MenuInv, TypeOK
  <2> QED
    BY <1>1, <1>2, <2>3, <2>4, FieldsOne
<1>6. CASE menu' = menu /\ local' = [local EXCEPT ![w].stage = menu] /\ Goto(w, "act")
  <2>1. local'[w].stage = menu /\ pc'[w] = "act"
    BY <1>6 DEF Goto, MenuInv, TypeOK, Locals
  <2>2. FieldsOK(w)'
    BY <1>1, <2>1 DEF FieldsOK, FieldsInv
  <2>3. \A v \in Worker \ {w} : local'[v] = local[v] /\ pc'[v] = pc[v]
    BY <1>6 DEF Goto, MenuInv, TypeOK
  <2> QED
    BY <1>1, <1>2, <2>2, <2>3, FieldsOne
<1> QED
  BY <1>3, <1>4, <1>5, <1>6 DEF Dispatch

\* A quoted prompt leads back to the name, or out of the dialogue.
LEMMA FieldsReceive ==
  ASSUME MenuInv, FieldsInv, PlainQuotes, NEW w \in Worker, NEW text \in Text,
         NEW prompt \in Quoted \cup {"none"}, Receive(w, text, prompt)
  PROVE  FieldsInv'
<1>1. menu' = menu \/ menu' \in {"main", "name", "workdir", "list"}
  BY DEF PlainQuotes, Receive, DetectMenuStage
<1>2. \A f \in AskedBefore(menu') : tmp[f] # ""
  BY <1>1 DEF AskedBefore, FieldsInv
<1>3. bots' = bots /\ tmp' = tmp /\ Goto(w, "dispatch")
      /\ local' = [local EXCEPT ![w] =
           [local[w] EXCEPT !.text = text, !.prompt = prompt, !.offered = offered]]
  BY DEF Receive, worldVars, MenuInv
<1> QED
  BY <1>2, <1>3, FieldsUnused DEF Label

LEMMA FieldsEntered ==
  ASSUME MenuInv, FieldsInv, NEW w \in Worker, EnterField(w) \/ TakeFields(w)
  PROVE  FieldsInv'
<1>1. CASE EnterField(w)
  <2>1. /\ local[w].stage \in Field /\ local[w].text # "" /\ pc[w] = "act"
        /\ tmp' = [tmp EXCEPT ![local[w].stage] = local[w].text]
        /\ pc' = [pc EXCEPT ![w] = "next"] /\ local' = local /\ menu' = menu /\ bots' = bots
    BY <1>1 DEF EnterField, Acts, At, Goto, worldVars
  <2>2. FieldsKept /\ tmp'[local[w].stage] # ""
    BY <2>1 DEF FieldsKept, MenuInv, TypeOK
  <2>3. \A stage \in Menu : AskedBefore(stage) \subseteq Field
    BY AskedAreFields
  <2>4. \A f \in AskedBefore(menu') : tmp'[f] # ""
    BY <2>1, <2>2, <2>3 DEF FieldsKept, FieldsInv, MenuInv, TypeOK
  <2>5. FieldsOK(w)'
    BY <2>1, <2>2, <2>3 DEF FieldsOK, FieldsKept, FieldsInv, MenuInv, TypeOK, Locals
  <2>6. \A v \in Worker \ {w} : local'[v] = local[v] /\ pc'[v] = pc[v]
    BY <2>1 DEF MenuInv, TypeOK
  <2> QED
    BY <2>1, <2>2, <2>4, <2>5, <2>6, FieldsOne
<1>2. CASE TakeFields(w)
  <2>1. /\ local[w].stage = "type" /\ pc[w] = "act"
        /\ local' = [local EXCEPT ![w].fields = tmp]
        /\ pc' = [pc EXCEPT ![w] = "take"] /\ UNCHANGED <<tmp, menu, bots>>
    BY <1>2 DEF TakeFields, Acts, At, Goto, stateVars, worldVars
  <2>2. \A f \in Field : tmp[f] # ""
    BY <2>1 DEF FieldsInv, FieldsOK, AskedBefore
  <2>3. local'[w].fields = tmp /\ pc'[w] = "take"
    BY <2>1 DEF MenuInv, TypeOK, Locals
  <2>4. FieldsOK(w)'
    BY <2>2, <2>3 DEF FieldsOK
  <2>5. \A v \in Worker \ {w} : local'[v] = local[v] /\ pc'[v] = pc[v]
    BY <2>1 DEF MenuInv, TypeOK
  <2> QED
    BY <2>1, <2>4, <2>5, FieldsOne DEF FieldsInv, FieldsKept
<1> QED
  BY <1>1, <1>2

LEMMA FieldsAdd ==
  ASSUME MenuInv, FieldsInv, NEW w \in Worker, AddBot(w) \/ BindAndOpen(w) PROVE FieldsInv'
<1>1. menu' = menu /\ tmp' = tmp
  BY DEF AddBot, BindAndOpen, stateVars
<1>2. CASE Return(w) /\ bots' = bots
  BY <1>1, <1>2, FieldsUnused DEF Return, Label, FieldsInv
<1>3. CASE Adds(w) /\ Goto(w, "bind") /\ local' = local
  <2>1. \A f \in Field : local[w].fields[f] # ""
    BY <1>3 DEF Adds, FieldsInv, FieldsOK
  <2>2. NoEmptyAgent'
    <3> DEFINE n == Len(bots)
    <3>1. /\ DOMAIN bots = 1..n /\ DOMAIN bots' = 1..(n + 1) /\ n \in Nat
          /\ \A i \in 1..n : bots'[i] = bots[i]
          /\ bots'[n + 1] = local[w].fields
      BY <1>3, Added
    <3> HIDE DEF n
    <3>2. ASSUME NEW i \in 1..(n + 1), NEW f \in Field PROVE bots'[i][f] # ""
      <4>1. i \in 1..n \/ i = n + 1
        BY <3>1
      <4> QED
        BY <2>1, <3>1, <4>1 DEF FieldsInv, NoEmptyAgent
    <3> QED
      BY <3>1, <3>2 DEF NoEmptyAgent
  <2>3. \A v \in Worker : FieldsOK(v)'
    BY <1>1, <1>3, <2>1 DEF Goto, FieldsOK, FieldsInv, MenuInv, TypeOK
  <2> QED
    BY <1>1, <2>2, <2>3 DEF FieldsInv
<1> QED
  BY <1>2, <1>3 DEF AddBot, BindAndOpen, Adds, At

LEMMA FieldsLists ==
  ASSUME MenuInv, FieldsInv, NEW w \in Worker,
         \/ ListFails(w) \/ ListQuery(w) \/ ListStatuses(w) \/ ListReset(w) \/ ListLoad(w)
         \/ ListStore(w) \/ ListShown(w)
         \/ ChoiceRefused(w) \/ ChoiceTaken(w) \/ Reopen(w) \/ Mark(w)
  PROVE  FieldsInv'
<1>1. bots' = bots /\ tmp' = tmp /\ menu' \in {menu, "none", "list"}
  BY DEF ListFails, ListQuery, ListStatuses, ListReset, ListLoad, ListStore, ListShown,
     ChoiceRefused, ChoiceTaken, Reopen, Mark, stateVars, worldVars
<1>2. \A f \in AskedBefore(menu') : tmp[f] # ""
  BY <1>1 DEF AskedBefore, FieldsInv
<1>3. \E label \in Label \ {"act", "next", "take", "add", "bind"} : Goto(w, label)
  BY DEF ListFails, ListQuery, ListStatuses, ListReset, ListLoad, ListStore, ListShown,
     ChoiceRefused, ChoiceTaken, Reopen, Mark, Return, Label
<1>4. local' = [local EXCEPT ![w] = local'[w]]
  BY DEF ListFails, ListQuery, ListStatuses, ListReset, ListLoad, ListStore, ListShown,
     ChoiceRefused, ChoiceTaken, Reopen, Mark, Return, MenuInv
<1> QED
  BY <1>1, <1>2, <1>3, <1>4, FieldsUnused

LEMMA FieldsStep ==
  ASSUME MenuInv, FieldsInv, PlainQuotes, [Next]_vars PROVE FieldsInv'
<1>1. CASE UNCHANGED vars
  BY <1>1 DEF vars, stateVars, worldVars, FieldsInv, FieldsOK, NoEmptyAgent
<1>2. ASSUME NEW w \in Worker, Handles(w) PROVE FieldsInv'
  BY <1>2, FieldsDispatch, FieldsMenus, FieldsEntered, FieldsAdd, FieldsLists DEF Handles
<1>3. ASSUME NEW b \in BotIDs, World(b) PROVE FieldsInv'
  BY <1>3 DEF World, stateVars, FieldsInv, FieldsOK, NoEmptyAgent
<1> QED
  BY <1>1, <1>2, <1>3, FieldsReceive DEF Next

\* No agent has an empty name, BotID or Secret, as long as no prompt is quoted that skips
\* a field (controller.go:185-187, 206-207, 226-227).
THEOREM FieldsComplete == PlainQuotes => (Spec => []NoEmptyAgent)
<1>1. Init => FieldsInv
  <2> SUFFICES ASSUME Init PROVE FieldsInv
    OBVIOUS
  <2>1. DOMAIN bots = {}
    BY DEF Init
  <2>2. NoEmptyAgent
    BY <2>1 DEF NoEmptyAgent
  <2>3. \A w \in Worker : FieldsOK(w)
    BY DEF Init, FieldsOK
  <2>4. AskedBefore(menu) = {}
    BY DEF Init, AskedBefore
  <2> QED
    BY <2>2, <2>3, <2>4 DEF FieldsInv
<1>2. FieldsInv => NoEmptyAgent
  BY DEF FieldsInv
<1> SUFFICES ASSUME PlainQuotes PROVE Spec => []NoEmptyAgent
  OBVIOUS
<1>3. PlainQuotes /\ MenuInv /\ FieldsInv /\ [Next]_vars => FieldsInv'
  BY FieldsStep
<1> QED
  BY <1>1, <1>2, <1>3, MenuAlways, PTL DEF Spec

-----------------------------------------------------------------------------
(* What was chosen is what is marked.                                      *)

\* From the choice on, the item that was chosen is where it was in the list, unless the
\* list has been made anew.
ChosenInv ==
  \A w \in Worker \ relisted : pc[w] \in {"reopen", "mark"} =>
    local[w].idx \in DOMAIN list /\ list[local[w].idx].bot = local[w].item.bot

\* A step that makes no list and chooses nothing.
LEMMA ChosenStays ==
  ASSUME MenuInv, ChosenInv, DOMAIN list \subseteq DOMAIN list', relisted' = relisted,
         \A i \in DOMAIN list : list'[i].bot = list[i].bot,
         \A v \in Worker : \/ local'[v] = local[v] /\ pc'[v] = pc[v]
                           \/ local'[v].idx = local[v].idx /\ local'[v].item = local[v].item
                              /\ pc[v] = "reopen" /\ pc'[v] = "mark"
                           \/ pc'[v] \notin {"reopen", "mark"}
  PROVE  ChosenInv'
  BY DEF ChosenInv

LEMMA ChosenStep == ASSUME MenuInv, ChosenInv, [Next]_vars PROVE ChosenInv'
<1>1. CASE UNCHANGED vars
  BY <1>1 DEF vars, stateVars, histVars, ChosenInv
<1>2. ASSUME NEW b \in BotIDs, World(b) PROVE ChosenInv'
  BY <1>2 DEF World, stateVars, histVars, ChosenInv
<1>3. ASSUME NEW w \in Worker, NEW text \in Text, NEW prompt \in Quoted \cup {"none"},
             Receive(w, text, prompt)
      PROVE  ChosenInv'
  <2>1. list' = list /\ relisted' = relisted
    BY <1>3 DEF Receive
  <2>2. /\ pc'[w] = "dispatch"
        /\ \A v \in Worker \ {w} : local'[v] = local[v] /\ pc'[v] = pc[v]
    BY <1>3 DEF Receive, Goto, MenuInv, TypeOK
  <2> QED
    BY <2>1, <2>2, ChosenStays
<1>4. ASSUME NEW w \in Worker, Handles(w) PROVE ChosenInv'
  <2>1. \A v \in Worker \ {w} : local'[v] = local[v] /\ pc'[v] = pc[v]
    BY <1>4 DEF Handles, Dispatch, MainMenuChoice, BackToMain, Repeats, EnterField, NextField,
       TakeFields, LeaveMenu, AddBot, BindAndOpen, ListFails, ListQuery, ListStatuses,
       ListReset, ListLoad, ListStore, ListShown, ChoiceRefused, ChoiceTaken, Reopen, Mark,
       Goto, Return, MenuInv, TypeOK
  <2>2. CASE ListReset(w) \/ ListStore(w)
    <3>1. relisted' = relisted \cup {v \in Worker : pc[v] \in {"reopen", "mark"}}
      BY <2>2 DEF ListReset, ListStore, Relists
    <3>2. pc'[w] = "load"
      BY <2>2 DEF ListReset, ListStore, Goto, MenuInv, TypeOK
    <3> QED
      BY <2>1, <3>1, <3>2 DEF ChosenInv
  <2>3. CASE ChoiceTaken(w)
    <3> DEFINE i == Index(local[w].text)
    <3>1. /\ i \in DOMAIN list /\ list' = list /\ relisted' = relisted \ {w}
          /\ local' = [local EXCEPT ![w].idx = i, ![w].item = list[i]]
      BY <2>3 DEF ChoiceTaken, stateVars
    <3> HIDE DEF i
    <3>2. local'[w].idx = i /\ local'[w].item = list[i]
      BY <3>1 DEF MenuInv, Locals
    <3>3. ASSUME NEW v \in Worker \ relisted', pc'[v] \in {"reopen", "mark"}
          PROVE  /\ local'[v].idx \in DOMAIN list
                 /\ list[local'[v].idx].bot = local'[v].item.bot
      <4>1. CASE v = w
        BY <3>1, <3>2, <4>1
      <4>2. CASE v # w
        BY <2>1, <3>1, <3>3, <4>2 DEF ChosenInv
      <4> QED
        BY <4>1, <4>2
    <3> QED
      BY <3>1, <3>3 DEF ChosenInv
  <2>4. CASE Mark(w)
    <3>1. DOMAIN list' = DOMAIN list /\ \A i \in DOMAIN list : list'[i].bot = list[i].bot
      BY <2>4, Marked DEF Mark
    <3>2. relisted' = relisted /\ pc'[w] \notin {"reopen", "mark"}
      BY <2>4 DEF Mark, histVars, Goto, Return, MenuInv, TypeOK
    <3> QED
      BY <2>1, <3>1, <3>2, ChosenStays
  <2>5. CASE Reopen(w)
    <3>1. list' = list /\ relisted' = relisted /\ pc[w] = "reopen"
      BY <2>5 DEF Reopen, stateVars, histVars, At
    <3>2. (local' = local /\ pc'[w] = "mark") \/ pc'[w] = "idle"
      BY <2>5 DEF Reopen, Goto, Return, MenuInv, TypeOK
    <3> QED
      BY <2>1, <3>1, <3>2, ChosenStays
  <2>6. CASE \/ Dispatch(w) \/ MainMenuChoice(w) \/ BackToMain(w) \/ Repeats(w)
             \/ EnterField(w) \/ NextField(w) \/ TakeFields(w) \/ LeaveMenu(w) \/ AddBot(w)
             \/ BindAndOpen(w) \/ ListFails(w) \/ ListQuery(w) \/ ListStatuses(w)
             \/ ListLoad(w) \/ ListShown(w) \/ ChoiceRefused(w)
    <3>1. list' = list /\ relisted' = relisted
      BY <2>6 DEF Dispatch, MainMenuChoice, BackToMain, Repeats, EnterField, NextField,
         TakeFields, LeaveMenu, AddBot, BindAndOpen, ListFails, ListQuery, ListStatuses,
         ListLoad, ListShown, ChoiceRefused, stateVars, histVars
    <3>2. pc'[w] \notin {"reopen", "mark"}
      BY <2>6 DEF Dispatch, MainMenuChoice, BackToMain, Repeats, EnterField, NextField,
         TakeFields, LeaveMenu, AddBot, BindAndOpen, ListFails, ListQuery, ListStatuses,
         ListLoad, ListShown, ChoiceRefused, Goto, Return, MenuInv, TypeOK
    <3> QED
      BY <2>1, <3>1, <3>2, ChosenStays
  <2> QED
    BY <1>4, <2>2, <2>3, <2>4, <2>5, <2>6 DEF Handles
<1> QED
  BY <1>1, <1>2, <1>3, <1>4 DEF Next

\* The item marked as reconnected is the agent that was chosen, unless a /list has written
\* the list in between (controller.go:552-579).
THEOREM ChosenIsMarked == Spec => []MarkedWasChosen
<1>1. Init => ChosenInv
  BY DEF Init, ChosenInv
<1>2. ChosenInv => MarkedWasChosen
  BY DEF ChosenInv, MarkedWasChosen, At
<1> QED
  BY <1>1, <1>2, ChosenStep, MenuAlways, PTL DEF Spec

-----------------------------------------------------------------------------
(* What is shown as connected.                                             *)

\* The BotIDs that are connected, or were lost since the list was made.
Excused == up \cup fell

Shows(items) == \A i \in DOMAIN items : items[i].connected => items[i].bot \in Excused

\* What a /list and a reconnection carry over their steps.
CarriesOK(w) ==
  /\ pc[w] \in {"reset", "load", "store"} => local[w].up \subseteq Excused
  /\ pc[w] = "store" => Shows(local[w].seen)
  /\ pc[w] = "mark" /\ w \notin relisted => local[w].item.bot \in Excused

ShownInv == Shows(list) /\ \A w \in Worker : CarriesOK(w)

\* A step that loses nobody from what is excused, and shows nothing new.
LEMMA ShownOne ==
  ASSUME MenuInv, ShownInv, NEW w \in Worker, Excused \subseteq Excused',
         \A v \in Worker \ {w} : local'[v] = local[v] /\ pc'[v] = pc[v],
         relisted \ {w} \subseteq relisted', Shows(list)', CarriesOK(w)'
  PROVE  ShownInv'
<1>1. ASSUME NEW v \in Worker \ {w} PROVE CarriesOK(v)'
  BY <1>1 DEF ShownInv, CarriesOK, Shows
<1> QED
  BY <1>1 DEF ShownInv

\* What is lost is excused.
LEMMA LostIsExcused == ASSUME Loses PROVE Excused \subseteq Excused'
  BY DEF Loses, Excused

\* A worker that carries nothing.
LEMMA CarriesNothing ==
  ASSUME NEW w \in Worker, pc[w] \notin {"reset", "load", "store", "mark"} PROVE CarriesOK(w)
  BY DEF CarriesOK

LEMMA ShownLists ==
  ASSUME MenuInv, ShownInv, NEW w \in Worker,
         ListStatuses(w) \/ ListReset(w) \/ ListLoad(w) \/ ListStore(w)
  PROVE  ShownInv'
<1>0. \A v \in Worker \ {w} : local'[v] = local[v] /\ pc'[v] = pc[v]
  BY DEF ListStatuses, ListReset, ListLoad, ListStore, Goto, MenuInv, TypeOK
<1>1. CASE ListStatuses(w)
  <2>1. /\ list' = list /\ up' = up /\ fell' = fell /\ relisted' = relisted
        /\ local'[w].up = up /\ pc'[w] = "reset"
    BY <1>1 DEF ListStatuses, Goto, stateVars, worldVars, histVars, MenuInv, TypeOK, Locals
  <2>2. CarriesOK(w)' /\ Shows(list)' /\ Excused' = Excused
    BY <2>1 DEF CarriesOK, Excused, ShownInv, Shows
  <2> QED
    BY <1>0, <2>1, <2>2, ShownOne
<1>2. CASE ListReset(w)
  <2>1. /\ list' = <<>> /\ up' = up /\ local' = local /\ pc[w] = "reset" /\ pc'[w] = "load"
        /\ fell' = IF MakesAlone(w) THEN local[w].up \ up ELSE fell
        /\ relisted' = relisted \cup {v \in Worker : pc[v] \in {"reopen", "mark"}}
    BY <1>2 DEF ListReset, Relists, At, Goto, worldVars, MenuInv, TypeOK
  <2>2. Shows(list)'
    BY <2>1 DEF Shows
  <2>3. CASE MakesAlone(w)
    <3>1. ASSUME NEW v \in Worker \ {w} PROVE CarriesOK(v)'
      BY <1>0, <2>3 DEF CarriesOK, MakesAlone
    <3>2. CarriesOK(w)'
      BY <2>1, <2>3 DEF CarriesOK, Excused
    <3> QED
      BY <2>2, <3>1, <3>2 DEF ShownInv
  <2>4. CASE ~ MakesAlone(w)
    <3>1. Excused' = Excused
      BY <2>1, <2>4 DEF Excused
    <3>2. CarriesOK(w)'
      BY <2>1, <3>1 DEF CarriesOK, ShownInv
    <3> QED
      BY <1>0, <2>1, <2>2, <3>1, <3>2, ShownOne
  <2> QED
    BY <2>3, <2>4
<1>3. CASE ListLoad(w)
  <2>1. /\ list' = list /\ up' = up /\ fell' = fell /\ relisted' = relisted /\ pc[w] = "load"
        /\ \/ pc'[w] = "shown" /\ local' = local
           \/ /\ pc'[w] = "store"
              /\ local'[w].seen = list /\ local'[w].up = local[w].up
    BY <1>3 DEF ListLoad, At, Goto, stateVars, worldVars, histVars, MenuInv, TypeOK, Locals
  <2>2. Shows(list)' /\ Excused' = Excused
    BY <2>1 DEF Excused, ShownInv, Shows
  <2>3. CarriesOK(w)'
    BY <2>1, <2>2 DEF CarriesOK, ShownInv, Shows
  <2> QED
    BY <1>0, <2>1, <2>2, <2>3, ShownOne
<1>4. CASE ListStore(w)
  <2> DEFINE bot == Head(local[w].rest)
             item == [bot |-> bot, connected |-> bot \in local[w].up]
  <2>1. /\ list' = Append(local[w].seen, item) /\ up' = up /\ fell' = fell
        /\ pc[w] = "store" /\ pc'[w] = "load" /\ local'[w].up = local[w].up
        /\ relisted' = relisted \cup {v \in Worker : pc[v] \in {"reopen", "mark"}}
    BY <1>4 DEF ListStore, Relists, At, Goto, worldVars, MenuInv, TypeOK, Locals
  <2>2. Excused' = Excused /\ local[w].up \subseteq Excused /\ Shows(local[w].seen)
    BY <2>1 DEF Excused, ShownInv, CarriesOK
  <2>3. item.connected => item.bot \in Excused
    BY <2>2
  <2>4. local[w].seen \in Seq(KnownItem) /\ item \in KnownItem
    <3>1. /\ local[w].rest \in Seq(BotIDs) /\ local[w].rest # <<>>
          /\ local[w].seen \in Seq(KnownItem)
      BY <2>1 DEF MenuInv, LocalOK, Locals
    <3>2. Head(local[w].rest) \in BotIDs
      BY <3>1, HeadTailProperties
    <3> QED
      BY <3>1, <3>2 DEF KnownItem
  <2> HIDE DEF item
  <2>5. Shows(list)'
    <3> DEFINE n == Len(local[w].seen)
    <3>1. /\ DOMAIN local[w].seen = 1..n /\ n \in Nat
          /\ DOMAIN list' = 1..(n + 1) /\ list'[n + 1] = item
          /\ \A i \in 1..n : list'[i] = local[w].seen[i]
      BY <2>1, <2>4, AppendProperties, LenProperties
    <3> HIDE DEF n
    <3>2. ASSUME NEW i \in DOMAIN list', list'[i].connected PROVE list'[i].bot \in Excused'
      <4>1. i \in 1..n \/ i = n + 1
        BY <3>1
      <4> QED
        BY <2>2, <2>3, <3>1, <3>2, <4>1 DEF Shows
    <3> QED
      BY <2>2, <3>2 DEF Shows
  <2>6. CarriesOK(w)'
    BY <2>1, <2>2 DEF CarriesOK
  <2> QED
    BY <1>0, <2>1, <2>2, <2>5, <2>6, ShownOne
<1> QED
  BY <1>1, <1>2, <1>3, <1>4

LEMMA ShownMark ==
  ASSUME MenuInv, ShownInv, ChosenInv, NEW w \in Worker, Reopen(w) \/ Mark(w)
  PROVE  ShownInv'
<1>0. \A v \in Worker \ {w} : local'[v] = local[v] /\ pc'[v] = pc[v]
  BY DEF Reopen, Mark, Goto, Return, MenuInv, TypeOK
<1>1. CASE Reopen(w)
  <2>1. list' = list /\ relisted' = relisted /\ Excused \subseteq Excused'
    BY <1>1, LostIsExcused DEF Reopen, stateVars
  <2>2. Shows(list)'
    BY <2>1 DEF ShownInv, Shows
  <2>3. CarriesOK(w)'
    <3>1. \/ pc'[w] = "mark" /\ local' = local /\ local[w].item.bot \in up'
          \/ pc'[w] = "idle"
      BY <1>1 DEF Reopen, Goto, Return, MenuInv, TypeOK
    <3> QED
      BY <3>1 DEF CarriesOK, Excused
  <2> QED
    BY <1>0, <2>1, <2>2, <2>3, ShownOne
<1>2. CASE Mark(w)
  <2> DEFINE i == local[w].idx
  <2>1. /\ up' = up /\ relisted' = relisted /\ pc[w] = "mark" /\ pc'[w] \in {"shown", "idle"}
        /\ fell' = IF w \in relisted /\ i \in DOMAIN list
                     THEN fell \cup {list[i].bot} ELSE fell
    BY <1>2 DEF Mark, At, Goto, Return, worldVars, MenuInv, TypeOK
  <2>2. Excused \subseteq Excused'
    BY <2>1 DEF Excused
  <2>3. CarriesOK(w)'
    BY <2>1 DEF CarriesOK
  <2>4. CASE i \in DOMAIN list
    <3>1. list' = [list EXCEPT ![i].connected = TRUE]
      BY <1>2, <2>4 DEF Mark
    <3>2. /\ DOMAIN list' = DOMAIN list
          /\ \A j \in DOMAIN list : list'[j].bot = list[j].bot
      BY <2>4, <3>1, Marked
    <3>3. \A j \in DOMAIN list : j # i => list'[j] = list[j]
      BY <3>1
    <3>4. list[i].bot \in Excused'
      <4>1. CASE w \in relisted
        BY <2>1, <2>4, <4>1 DEF Excused
      <4>2. CASE w \notin relisted
        <5>1. list[i].bot = local[w].item.bot /\ local[w].item.bot \in Excused
          BY <2>1, <4>2 DEF ChosenInv, ShownInv, CarriesOK
        <5> QED
          BY <2>2, <5>1
      <4> QED
        BY <4>1, <4>2
    <3>5. ASSUME NEW j \in DOMAIN list', list'[j].connected PROVE list'[j].bot \in Excused'
      <4>1. CASE j = i
        BY <2>4, <3>2, <3>4, <4>1
      <4>2. CASE j # i
        BY <2>2, <3>2, <3>3, <3>5, <4>2 DEF ShownInv, Shows
      <4> QED
        BY <4>1, <4>2
    <3>6. Shows(list)'
      BY <3>5 DEF Shows
    <3> QED
      BY <1>0, <2>1, <2>2, <2>3, <3>6, ShownOne
  <2>5. CASE i \notin DOMAIN list
    <3>1. list' = list
      BY <1>2, <2>5 DEF Mark
    <3>2. Shows(list)'
      BY <2>2, <3>1 DEF ShownInv, Shows
    <3> QED
      BY <1>0, <2>1, <2>2, <2>3, <3>2, ShownOne
  <2> QED
    BY <2>4, <2>5
<1> QED
  BY <1>1, <1>2

LEMMA ShownStep ==
  ASSUME MenuInv, ShownInv, ChosenInv, [Next]_vars PROVE ShownInv'
<1>1. CASE UNCHANGED vars
  BY <1>1 DEF vars, stateVars, worldVars, histVars, ShownInv, Shows, CarriesOK, Excused
<1>2. ASSUME NEW b \in BotIDs, World(b) PROVE ShownInv'
  <2>1. /\ list' = list /\ relisted' = relisted /\ pc' = pc /\ local' = local
        /\ Excused \subseteq Excused'
    BY <1>2, LostIsExcused DEF World, stateVars
  <2> QED
    BY <2>1 DEF ShownInv, Shows, CarriesOK
<1>3. ASSUME NEW w \in Worker, NEW text \in Text, NEW prompt \in Quoted \cup {"none"},
             Receive(w, text, prompt)
      PROVE  ShownInv'
  <2>1. list' = list /\ relisted' = relisted /\ Excused' = Excused
    BY <1>3 DEF Receive, worldVars, Excused
  <2>2. /\ pc'[w] = "dispatch"
        /\ \A v \in Worker \ {w} : local'[v] = local[v] /\ pc'[v] = pc[v]
    BY <1>3 DEF Receive, Goto, MenuInv, TypeOK
  <2>3. CarriesOK(w)' /\ Shows(list)'
    BY <2>1, <2>2 DEF CarriesOK, ShownInv, Shows
  <2> QED
    BY <2>1, <2>2, <2>3, ShownOne
<1>4. ASSUME NEW w \in Worker,
             \/ Dispatch(w) \/ MainMenuChoice(w) \/ BackToMain(w) \/ Repeats(w)
             \/ EnterField(w) \/ NextField(w) \/ TakeFields(w) \/ LeaveMenu(w) \/ AddBot(w)
             \/ BindAndOpen(w) \/ ListFails(w) \/ ListQuery(w) \/ ListShown(w)
             \/ ChoiceRefused(w) \/ ChoiceTaken(w)
      PROVE  ShownInv'
  <2>1. list' = list /\ fell' = fell /\ up \subseteq up' /\ relisted \ {w} \subseteq relisted'
    BY <1>4 DEF Dispatch, MainMenuChoice, BackToMain, Repeats, EnterField, NextField,
       TakeFields, LeaveMenu, AddBot, BindAndOpen, ListFails, ListQuery, ListShown,
       ChoiceRefused, ChoiceTaken, stateVars, worldVars, histVars
  <2>2. pc'[w] \notin {"reset", "load", "store", "mark"}
    BY <1>4 DEF Dispatch, MainMenuChoice, BackToMain, Repeats, EnterField, NextField,
       TakeFields, LeaveMenu, AddBot, BindAndOpen, ListFails, ListQuery, ListShown,
       ChoiceRefused, ChoiceTaken, Goto, Return, MenuInv, TypeOK
  <2>3. \A v \in Worker \ {w} : local'[v] = local[v] /\ pc'[v] = pc[v]
    BY <1>4 DEF Dispatch, MainMenuChoice, BackToMain, Repeats, EnterField, NextField,
       TakeFields, LeaveMenu, AddBot, BindAndOpen, ListFails, ListQuery, ListShown,
       ChoiceRefused, ChoiceTaken, Goto, Return, MenuInv, TypeOK
  <2>4. Excused \subseteq Excused'
    BY <2>1 DEF Excused
  <2>5. CarriesOK(w)' /\ Shows(list)'
    BY <2>1, <2>2, <2>4 DEF CarriesOK, ShownInv, Shows
  <2> QED
    BY <2>1, <2>3, <2>4, <2>5, ShownOne
<1> QED
  BY <1>1, <1>2, <1>3, <1>4, ShownLists, ShownMark DEF Next, Handles

\* An agent that the list shows as connected is connected, unless its channel was lost
\* since the list was made or a choice made before a /list has marked it: whatever
\* overlaps, and for any number of bots (controller.go:399-443, 558-578).
THEOREM ShownIsUpOrFell == Spec => []ShownLostOnlyIfItFell
<1>1. Init => ShownInv /\ ChosenInv
  BY DEF Init, ShownInv, ChosenInv, Shows, CarriesOK
<1>2. ShownInv => ShownLostOnlyIfItFell
  BY DEF ShownInv, Shows, Excused, ShownLostOnlyIfItFell
<1>3. MenuInv /\ ShownInv /\ ChosenInv /\ [Next]_vars => (ShownInv /\ ChosenInv)'
  BY ShownStep, ChosenStep
<1> QED
  BY <1>1, <1>2, <1>3, MenuAlways, PTL DEF Spec
=============================================================================

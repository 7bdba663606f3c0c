------------------------------ MODULE Gateway ------------------------------
(***************************************************************************)
(* The gateway (internal/gateway/gateway.go) for one worker bot, over the  *)
(* channels of module WecomChannel.  A request is a goroutine that calls   *)
(* OpenWorkerChannel (start-up, creation of an agent), ReopenWorkerChannel *)
(* (the list of the controller) or CloseAll (shutdown).                    *)
(*                                                                         *)
(* Gateway.mu is held from the first to the last step of an open,          *)
(* including Connect and its network round trips, and of a close; reopen   *)
(* is a close followed by an open, with the mutex free in between.  The    *)
(* callbacks of the channels take the mutex too, in goroutines of their    *)
(* own, in any order, and name the bot, not the channel.                   *)
(***************************************************************************)
EXTENDS WecomChannel

CONSTANTS
  Request,
  None

ASSUME GatewayConstants == None \notin Chan

VARIABLES
  entry,   \* workerChans[bot]: the channel of the entry, or None
  shown,   \* connState.connected of the entry
  pc,      \* where a request is
  chan     \* the channel a request is closing or connecting

gvars == <<entry, shown, pc, chan>>
vars == <<cvars, gvars>>

\* A request at one of these holds Gateway.mu.
Locked == {"closing", "connecting", "connected"}

Label == {"idle", "open", "reopen", "shutdown", "end"} \cup Locked

GatewayTypeOK ==
  /\ TypeOK
  /\ entry \in Chan \cup {None}
  /\ shown \in BOOLEAN
  /\ pc \in [Request -> Label]
  /\ chan \in [Request -> [c : Chan \cup {None}, next : {"open", "end"}]]
  /\ Cardinality({r \in Request : pc[r] \in Locked}) <= 1

Init ==
  /\ ChannelInit
  /\ entry = None /\ shown = FALSE
  /\ pc = [r \in Request |-> "idle"]
  /\ chan = [r \in Request |-> [c |-> None, next |-> "end"]]

At(r, label) == pc[r] = label
Goto(r, label) == pc' = [pc EXCEPT ![r] = label]

GMuFree == \A r \in Request : pc[r] \notin Locked

Call(r) ==
  /\ At(r, "idle")
  /\ \E op \in {"open", "reopen", "shutdown"} : Goto(r, op)
  /\ UNCHANGED <<cvars, entry, shown, chan>>

-----------------------------------------------------------------------------
(* OpenWorkerChannel.                                                       *)

OpenExisting(r) ==
  /\ At(r, "open") /\ GMuFree
  /\ entry # None
  /\ Goto(r, "end")
  /\ UNCHANGED <<cvars, entry, shown, chan>>

OpenNew_Unchecked(r) ==
  /\ At(r, "open") /\ GMuFree
  /\ \E c \in Chan :
       /\ stage[c] = "new"
       /\ entry' = c
       /\ chan' = [chan EXCEPT ![r] = [c |-> c, next |-> "end"]]
  /\ shown' = FALSE
  /\ Goto(r, "connecting")
  /\ UNCHANGED cvars

\* The entry is made before Connect, so that the callback finds it.
OpenNew(r) ==
  /\ At(r, "open") /\ GMuFree
  /\ entry = None
  /\ \E c \in Chan :
       /\ stage[c] = "new"
       /\ entry' = c
       /\ chan' = [chan EXCEPT ![r] = [c |-> c, next |-> "end"]]
  /\ shown' = FALSE
  /\ Goto(r, "connecting")
  /\ UNCHANGED cvars

Connected(r) ==
  /\ At(r, "connecting")
  /\ ConnectOK(chan[r].c)
  /\ Goto(r, "connected")
  /\ UNCHANGED <<entry, shown, chan>>

NotConnected(r) ==
  /\ At(r, "connecting")
  /\ ConnectFails(chan[r].c)
  /\ entry' = None
  /\ Goto(r, "end")
  /\ UNCHANGED <<shown, chan>>

OpenReturns_AfterCallback(r) ==
  /\ At(r, "connected")
  /\ notices[chan[r].c][TRUE] = 0
  /\ Goto(r, "end")
  /\ UNCHANGED <<cvars, entry, shown, chan>>

\* Connect has returned: the mutex is released without waiting for the callback.
OpenReturns(r) ==
  /\ At(r, "connected")
  /\ Goto(r, "end")
  /\ UNCHANGED <<cvars, entry, shown, chan>>

-----------------------------------------------------------------------------
(* ReopenWorkerChannel and CloseAll: Channel.Close in the locked section,   *)
(* then the entry is deleted.  Reopen continues with an open.               *)

After(r) == IF At(r, "reopen") THEN "open" ELSE "end"

CloseNothing(r) ==
  /\ At(r, "reopen") \/ At(r, "shutdown")
  /\ GMuFree /\ entry = None
  /\ Goto(r, After(r))
  /\ UNCHANGED <<cvars, entry, shown, chan>>

CloseBegins(r) ==
  /\ At(r, "reopen") \/ At(r, "shutdown")
  /\ GMuFree /\ entry # None
  /\ CloseCancels(entry)
  /\ chan' = [chan EXCEPT ![r] = [c |-> entry, next |-> After(r)]]
  /\ Goto(r, "closing")
  /\ UNCHANGED <<entry, shown>>

CloseGoesOn(r) ==
  /\ At(r, "closing")
  /\ CloseDrops(chan[r].c) \/ CloseEnds(chan[r].c)
  /\ UNCHANGED gvars

CloseReturns(r) ==
  /\ At(r, "closing")
  /\ closer[chan[r].c] = "closed"
  /\ entry' = None
  /\ Goto(r, chan[r].next)
  /\ UNCHANGED <<cvars, shown, chan>>

-----------------------------------------------------------------------------
(* The callbacks and the status.                                            *)

\* updateConnState, by bot: the entry may be that of a later channel.
UpdateConnState(c, up) ==
  /\ GMuFree
  /\ Delivered(c, up)
  /\ shown' = IF entry = None THEN shown ELSE up
  /\ UNCHANGED <<entry, pc, chan>>

\* GetWorkerConnStatus and GetAllWorkerStatuses check against the live channel.
CheckStatus ==
  /\ GMuFree /\ entry # None /\ MuFree(entry)
  /\ shown' = connected[entry]
  /\ UNCHANGED <<cvars, entry, pc, chan>>

-----------------------------------------------------------------------------
RequestStep(r) ==
  \/ OpenExisting(r) \/ OpenNew(r) \/ Connected(r) \/ NotConnected(r) \/ OpenReturns(r)
  \/ CloseNothing(r) \/ CloseBegins(r) \/ CloseGoesOn(r) \/ CloseReturns(r)

Callback(c) == \E up \in BOOLEAN : UpdateConnState(c, up)

ChannelRuns(c) == (Environment(c) \/ Reader(c)) /\ UNCHANGED gvars

Next ==
  \/ \E r \in Request : Call(r) \/ RequestStep(r)
  \/ \E c \in Chan : ChannelRuns(c) \/ Callback(c)
  \/ CheckStatus

\* Goroutines are scheduled; a mutex is given to a goroutine that waits for it.
Fairness ==
  /\ \A r \in Request : SF_vars(RequestStep(r))
  /\ \A c \in Chan : WF_vars(Reader(c) /\ UNCHANGED gvars) /\ SF_vars(Callback(c))

Spec == Init /\ [][Next]_vars /\ Fairness

-----------------------------------------------------------------------------
(* Properties.                                                              *)

\* Whenever the mutex is free, the channels that were connected and not closed are the
\* registered one, or none: racing opens, reopens and shutdowns neither connect a bot
\* twice nor register a channel that is not running (gateway.go:77-107, 132-138).
RegisteredIsRunning ==
  GMuFree => {c \in Chan : stage[c] = "opened" /\ closer[c] = "no"} = {entry} \ {None}

\* Every request returns, although the mutex is held across Connect and Close, which take
\* connMu, while the goroutines under connMu start callbacks that take the mutex
\* (gateway.go:73-112, 98-103, wecom.go:610-613).
RequestsEnd ==
  \A r \in Request : (pc[r] # "idle") ~> (pc[r] = "end")

-----------------------------------------------------------------------------
(* What the comments promise.                                               *)

\* gateway.go:128-130: reopen closes the existing channel and opens a new one, so once a
\* new channel has connected the old one of the bot has no connection any more.
OneConnectionPerBot ==
  \A c, d \in Chan : connected[c] /\ connected[d] => c = d
=============================================================================

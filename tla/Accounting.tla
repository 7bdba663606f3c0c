----------------------------- MODULE Accounting -----------------------------
(***************************************************************************)
(* What a session has cost: sessionUsage of the router (router.go,         *)
(* handler.go) over the price list (internal/pricing/pricing.go) and the   *)
(* column total_cost of the sessions table.                                *)
(*                                                                         *)
(* The router keeps one record per session.  A turn that ends with token   *)
(* counts adds to it under Router.mu; the sum is READ and STORED after the *)
(* mutex is released, so two turns of a session may store out of order.    *)
(* The first turn of a session since the program started makes the record, *)
(* from the total that its goroutine saw when it looked the session up.    *)
(* A turn, and a record, is named by the message it answers.  Costs are in *)
(* units that make them natural numbers; NaN is Unknown.                   *)
(***************************************************************************)
EXTENDS Integers

CONSTANTS
  Session,
  Msg,
  Model,    \* names of models, with a price or not
  Price,    \* the price list: [hit, miss, out] per token of the priced ones
  Usage,    \* token counts with which a turn may end: [model, in, cached, out]
  Unknown,  \* NaN
  None      \* no record, no model name

Cost == Nat \cup {Unknown}

ASSUME AccountingConstants ==
  /\ Unknown \notin Nat /\ None \notin Msg \cup Model
  /\ DOMAIN Price \subseteq Model
  /\ \A m \in DOMAIN Price : Price[m] \in [hit : Nat, miss : Nat, out : Nat]
  /\ Usage \subseteq [model : Model \cup {None}, in : Nat, cached : Nat, out : Nat]

VARIABLES
  stored,  \* sessions.total_cost
  usage,   \* sessionUsage: the record of a session
  acc,     \* accCost of a record
  model,   \* model of a record: the last one named
  holds,   \* the record a turn has added to and whose sum it has not stored yet
  due,     \* the sum it has read from it
  total,   \* history: what the turns of a session with a price have cost
  unsure   \* history: sessions for which something came between record and row

avars == <<stored, usage, acc, model, holds, due, total, unsure>>

AccountingTypeOK ==
  /\ stored \in [Session -> Nat]
  /\ usage \in [Session -> Msg \cup {None}]
  /\ acc \in [Msg -> Cost]
  /\ model \in [Msg -> Model \cup {None}]
  /\ holds \in [Msg -> Msg \cup {None}]
  /\ due \in [Msg -> Cost]
  /\ total \in [Session -> Nat]
  /\ unsure \subseteq Session

AccountingInit ==
  /\ stored = [s \in Session |-> 0]
  /\ usage = [s \in Session |-> None]
  /\ acc = [m \in Msg |-> 0]
  /\ model = [m \in Msg |-> None]
  /\ holds = [m \in Msg |-> None]
  /\ due = [m \in Msg |-> 0]
  /\ total = [s \in Session |-> 0]
  /\ unsure = {}

-----------------------------------------------------------------------------
(* The price of a turn.                                                     *)

CostOf_NoClamp(name, u) ==
  IF name \notin DOMAIN Price THEN Unknown
  ELSE Price[name].hit * u.cached + Price[name].miss * (u.in - u.cached)
         + Price[name].out * u.out

\* calculator.Cost: no price, no number; more cached tokens than input tokens count
\* as input tokens.
CostOf(name, u) ==
  LET hits == IF u.cached > u.in THEN u.in ELSE u.cached IN
  IF name \notin DOMAIN Price THEN Unknown
  ELSE Price[name].hit * hits + Price[name].miss * (u.in - hits) + Price[name].out * u.out

Plus(a, b) == IF a = Unknown \/ b = Unknown THEN Unknown ELSE a + b

-----------------------------------------------------------------------------
(* The steps of a turn t of session s, whose goroutine saw the total base.  *)

RecordOf(t, s) == IF usage[s] = None THEN t ELSE usage[s]

\* A turn that names no model is charged at the price of the last one named.
ModelOf(t, s, u) ==
  IF u.model # None THEN u.model
  ELSE IF usage[s] = None THEN None ELSE model[usage[s]]

Charge(t, s, u) ==
  LET cost == CostOf(ModelOf(t, s, u), u) IN
  /\ total' = [total EXCEPT ![s] = IF cost = Unknown THEN @ ELSE @ + cost]
  /\ unsure' = IF cost = Unknown \/ \E o \in Msg : holds[o] # None /\ holds[o] = usage[s]
                 THEN unsure \cup {s} ELSE unsure

AddUsage_FromSnapshot(t, s, base, u) ==
  LET r == RecordOf(t, s) IN
  /\ u.in > 0
  /\ usage' = [usage EXCEPT ![s] = r]
  /\ model' = [model EXCEPT ![r] = ModelOf(t, s, u)]
  /\ acc' = [acc EXCEPT ![r] = Plus(base, CostOf(ModelOf(t, s, u), u))]
  /\ holds' = [holds EXCEPT ![t] = r]
  /\ Charge(t, s, u)
  /\ UNCHANGED <<stored, due>>

\* The section of the result chunk; a turn without input tokens is not counted.
AddUsage(t, s, base, u) ==
  LET r == RecordOf(t, s) IN
  /\ u.in > 0
  /\ usage' = [usage EXCEPT ![s] = r]
  /\ model' = [model EXCEPT ![r] = ModelOf(t, s, u)]
  /\ acc' = [acc EXCEPT ![r] = Plus(IF usage[s] = None THEN base ELSE @,
                                    CostOf(ModelOf(t, s, u), u))]
  /\ holds' = [holds EXCEPT ![t] = r]
  /\ Charge(t, s, u)
  /\ UNCHANGED <<stored, due>>

\* The argument of SetCost, read without the mutex: it may hold later turns as well.
ReadCost(t) ==
  /\ due' = [due EXCEPT ![t] = acc[holds[t]]]
  /\ UNCHANGED <<stored, usage, acc, model, holds, total, unsure>>

\* The column cannot hold NaN: the statement fails, or a server that is not strict
\* stores 0.
Storable(c) == IF c = Unknown THEN {0} ELSE {c}

SetCost(t, s) ==
  /\ \E c \in Storable(due[t]) : stored' = [stored EXCEPT ![s] = c]
  /\ holds' = [holds EXCEPT ![t] = None] /\ due' = [due EXCEPT ![t] = 0]
  /\ UNCHANGED <<usage, acc, model, total, unsure>>

\* The error of the statement is ignored.
SetCostFails(t, s) ==
  /\ holds' = [holds EXCEPT ![t] = None] /\ due' = [due EXCEPT ![t] = 0]
  /\ unsure' = unsure \cup {s}
  /\ UNCHANGED <<stored, usage, acc, model, total>>

\* /new deletes the record; open says whether a goroutine of the session is under way.
Forget(s, open) ==
  /\ usage' = [usage EXCEPT ![s] = None]
  /\ unsure' = IF open THEN unsure \cup {s} ELSE unsure
  /\ UNCHANGED <<stored, acc, model, holds, due, total>>

\* The program ends, and with it all records; open are the sessions with a turn that
\* has not stored its sum.
ForgetAll(open) ==
  /\ usage' = [s \in Session |-> None]
  /\ holds' = [m \in Msg |-> None] /\ due' = [m \in Msg |-> 0]
  /\ unsure' = unsure \cup open
  /\ UNCHANGED <<stored, acc, model, total>>

-----------------------------------------------------------------------------
(* Properties.                                                              *)

\* No turn lowers what a session has cost, whatever the counts the agent reports, and
\* a sum that became unknown never passes for a number again (pricing.go:45-61,
\* handler.go:575-583).
CostOnlyGrows ==
  [][\A r \in Msg : (acc'[r] # acc[r] /\ \E s \in Session : usage[s] = r)
       => acc[r] # Unknown /\ (acc'[r] = Unknown \/ acc'[r] > acc[r])]_avars

-----------------------------------------------------------------------------
(* What the comments promise.                                               *)

\* router.go:119-120: the cost is known only when it can be shown as a number.
KnownIsNumber ==
  \A s \in Session :
    usage[s] # None /\ model[usage[s]] \in DOMAIN Price => acc[usage[s]] # Unknown
=============================================================================

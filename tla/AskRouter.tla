----------------------------- MODULE AskRouter ------------------------------
(***************************************************************************)
(* Routing a question to an intent (src/os_system_agent/ask/router.py):    *)
(* commands and keywords without a model, then the model rungs, free ones  *)
(* first, the paid ones under a daily cap kept in a ledger that every turn *)
(* shares.                                                                 *)
(*                                                                         *)
(* Turns run side by side.  A turn compares the ledger with the cap, calls *)
(* the model, and charges the ledger when the call is over; the provider   *)
(* bills the call whatever becomes of the turn.                            *)
(***************************************************************************)
EXTENDS Integers, Sequences, FiniteSets, FiniteSetsExt, Functions

CONSTANTS
  Turns,      \* turns that may be routed at the same time
  Rungs,      \* the model rungs: tier and worst case of a call, in cents
  Cap,        \* daily_cap_usd, in cents
  HasClient,  \* a model client was injected
  MaxBilled   \* bound: the day ends for the models once so much was billed

Rung == [free : BOOLEAN, max : Nat]

\* What load_models_config accepts: paid rungs come last, and they alone cost.
ASSUME RouterAssumption ==
  /\ IsFiniteSet(Turns) /\ Turns # {}
  /\ Rungs \in Seq(Rung)
  /\ \A i \in DOMAIN Rungs : Rungs[i].free <=> Rungs[i].max = 0
  /\ \A i, j \in DOMAIN Rungs : i < j /\ Rungs[j].free => Rungs[i].free
  /\ Cap \in Nat \ {0}
  /\ HasClient \in BOOLEAN
  /\ MaxBilled \in Nat

VARIABLES
  ledger,    \* what the ledger says was spent today
  pc,        \* where each turn is
  rung,      \* the model rung each turn is at
  blocked,   \* blocked_by_budget of each turn
  reply,     \* what the model call of each turn came to
  decision,  \* the Decision each turn returned last
  \* What follows is observed by the properties only.
  billed,    \* what the provider billed
  lost       \* what it billed without the turn living to charge it

local == <<pc, rung, blocked, reply, decision>>
vars == <<ledger, local, billed, lost>>

-----------------------------------------------------------------------------
(* Decisions.                                                              *)

\* A model's answer: within the enum or not, nothing, not even a ModelReply, or
\* an exception.
Answers == {"valid", "rejected", "nothing", "malformed", "raised"}

\* _charge knows neither from the other.
Unpriced == {"nothing", "raised"}

NoReply == [answer |-> "none", bill |-> 0]

\* rung is 0 where no model rung decided.
Decisions == {"none", "routed", "refused", "exception"}

NoDecision == [kind |-> "none", rung |-> 0, degraded |-> FALSE]

Goto(t, step) == pc' = [pc EXCEPT ![t] = step]

\* The turn returns d to the operator, or fails in the operator's face.
Return(t, d) ==
  /\ Goto(t, "idle")
  /\ decision' = [decision EXCEPT ![t] = d]
  /\ rung' = [rung EXCEPT ![t] = 1]
  /\ blocked' = [blocked EXCEPT ![t] = FALSE]
  /\ reply' = [reply EXCEPT ![t] = NoReply]

Refuse(t) == Return(t, [NoDecision EXCEPT !.kind = "refused"])

Raise(t) == Return(t, [NoDecision EXCEPT !.kind = "exception"])

\* continue: the next rung.
NextRung(t) ==
  /\ Goto(t, "looking")
  /\ rung' = [rung EXCEPT ![t] = @ + 1]
  /\ reply' = [reply EXCEPT ![t] = NoReply]

-----------------------------------------------------------------------------
(* A turn.                                                                 *)

\* route: a command or one keyword match decides without a model, an unknown
\* command or an empty question is refused, the rest goes down the rungs.
Route(t) ==
  /\ pc[t] = "idle"
  /\ \/ Return(t, [NoDecision EXCEPT !.kind = "routed"])
     \/ Refuse(t)
     \/ /\ billed <= MaxBilled
        /\ Goto(t, "looking")
        /\ decision' = [decision EXCEPT ![t] = NoDecision]
        /\ UNCHANGED <<rung, blocked, reply>>
  /\ UNCHANGED <<ledger, billed, lost>>

\* A bug: the call to come is not part of what is compared with the cap.
WithinCapOnceMore(t) == ledger < Cap

\* The worst case of the call, on top of what the ledger says now.
WithinCap(t) == ledger + Rungs[rung[t]].max <= Cap

\* A paid rung the cap forbids, or whose spend cannot be read, is skipped.
SkipRung(t) ==
  /\ pc[t] = "looking"
  /\ rung[t] \in DOMAIN Rungs
  /\ ~Rungs[rung[t]].free
  /\ blocked' = [blocked EXCEPT ![t] = TRUE]
  /\ NextRung(t)
  /\ UNCHANGED <<ledger, decision, billed, lost>>

\* The call goes out.
Call(t) ==
  /\ pc[t] = "looking"
  /\ rung[t] \in DOMAIN Rungs
  /\ Rungs[rung[t]].free \/ WithinCap(t)
  /\ HasClient
  /\ Goto(t, "calling")
  /\ UNCHANGED <<ledger, rung, blocked, reply, decision, billed, lost>>

\* No rung is left, or there is nobody to call: the question is refused.
Exhausted(t) ==
  /\ pc[t] = "looking"
  /\ rung[t] \notin DOMAIN Rungs \/ ~HasClient
  /\ Refuse(t)
  /\ UNCHANGED <<ledger, billed, lost>>

\* The call is over, and the provider has billed its worst case at most.
Classified(t) ==
  /\ pc[t] = "calling"
  /\ \E answer \in Answers, bill \in 0 .. Rungs[rung[t]].max :
       /\ reply' = [reply EXCEPT ![t] = [answer |-> answer, bill |-> bill]]
       /\ billed' = billed + bill
  /\ Goto(t, "charging")
  /\ UNCHANGED <<ledger, rung, blocked, decision, lost>>

\* A bug: a call that raised is not charged.
CostOnlyWhenAnswered(t) == IF reply[t].answer \in Unpriced THEN 0 ELSE reply[t].bill

\* _charge: the bill by its tokens, the worst case when there is no reply.
Cost(t) == IF reply[t].answer \in Unpriced THEN Rungs[rung[t]].max ELSE reply[t].bill

\* A bug: what the rung could not settle is asked of the same rung again.
SettleSameRung(t) ==
  IF reply[t].answer = "valid"
    THEN Return(t, [kind |-> "routed", rung |-> rung[t], degraded |-> blocked[t]])
    ELSE /\ Goto(t, "looking")
         /\ reply' = [reply EXCEPT ![t] = NoReply]
         /\ UNCHANGED <<rung, blocked, decision>>

\* A valid reply decides; a rejected one, or an exception, leaves it to the next
\* rung; nothing has no intent to log.
Settle(t) ==
  CASE reply[t].answer = "valid" ->
         Return(t, [kind |-> "routed", rung |-> rung[t], degraded |-> blocked[t]])
    [] reply[t].answer = "nothing" -> Raise(t)
    [] OTHER -> NextRung(t) /\ UNCHANGED <<blocked, decision>>

Charge(t) ==
  /\ pc[t] = "charging"
  /\ reply[t].answer # "malformed"
  /\ ledger' = ledger + Cost(t)
  /\ Settle(t)
  /\ UNCHANGED <<billed, lost>>

\* _charge fails before it has charged anything: it reads the tokens of what
\* is not a ModelReply, or the ledger cannot be written.  Nobody catches it.
ChargeFails(t) ==
  /\ pc[t] = "charging"
  /\ reply[t].answer = "malformed" \/ Cost(t) > 0
  /\ lost' = lost + reply[t].bill
  /\ Raise(t)
  /\ UNCHANGED <<ledger, billed>>

\* The process dies with the turn.
Crash(t) ==
  /\ pc[t] # "idle"
  /\ lost' = lost + reply[t].bill
  /\ Return(t, NoDecision)
  /\ UNCHANGED <<ledger, billed>>

Init ==
  /\ ledger = 0
  /\ pc = [t \in Turns |-> "idle"]
  /\ rung = [t \in Turns |-> 1]
  /\ blocked = [t \in Turns |-> FALSE]
  /\ reply = [t \in Turns |-> NoReply]
  /\ decision = [t \in Turns |-> NoDecision]
  /\ billed = 0
  /\ lost = 0

\* What the code of a turn does once it has been asked.
Proceed(t) ==
  SkipRung(t) \/ Call(t) \/ Exhausted(t) \/ Classified(t) \/ Charge(t) \/ ChargeFails(t)

Next == \E t \in Turns : Route(t) \/ Proceed(t) \/ Crash(t)

Spec == Init /\ [][Next]_vars

\* A turn that was asked runs, and the model client returns or raises.
FairSpec == Spec /\ \A t \in Turns : WF_vars(Proceed(t))

-----------------------------------------------------------------------------
(* Properties.                                                             *)

\* The types of the ledger, of the turns and of their decisions.
TypeOK ==
  /\ {ledger, billed, lost} \subseteq Nat
  /\ pc \in [Turns -> {"idle", "looking", "calling", "charging"}]
  /\ rung \in [Turns -> 1 .. Len(Rungs) + 1]
  /\ blocked \in [Turns -> BOOLEAN]
  /\ reply \in [Turns -> [answer : Answers \cup {"none"}, bill : Nat]]
  /\ decision \in [Turns -> [kind : Decisions, rung : 0 .. Len(Rungs), degraded : BOOLEAN]]

\* What each turn may still add to the ledger.
WorstCase ==
  [t \in Turns |-> IF pc[t] \in {"calling", "charging"} THEN Rungs[rung[t]].max ELSE 0]
Pending == SumFunctionOnSet(WorstCase, Turns)
Dearest == Max({0} \cup {Rungs[i].max : i \in DOMAIN Rungs})

\* The ledger passes the cap by one worst case for every other turn at most,
\* the calls under way included; a turn that is alone never passes it.
OverspendBounded == ledger + Pending <= Cap + (Cardinality(Turns) - 1) * Dearest

\* What the provider has billed each turn that has not charged it yet.
Bills == [t \in Turns |-> reply[t].bill]

\* Whatever the provider billed has been charged, is about to be, or was lost
\* with its turn: a call that raised is never cheaper in the ledger than it was.
NothingForgotten ==
  billed <= ledger + lost + SumFunctionOnSet(Bills, Turns)

\* Every question gets its decision: no turn runs down the rungs for ever.
EveryTurnEnds == \A t \in Turns : pc[t] # "idle" ~> pc[t] = "idle"

\* The cap is a hard cap in dollars (the module's docstring).
CapHolds == ledger <= Cap

\* A degraded decision is the work of a free rung (the comment of degraded).
DegradedMeansFree ==
  \A t \in Turns : decision[t].degraded => Rungs[decision[t].rung].free

\* Nothing a model does fells the turn (the comment in _route_models).
NeverRaises == \A t \in Turns : decision[t].kind # "exception"

=============================================================================

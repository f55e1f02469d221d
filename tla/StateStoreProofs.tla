-------------------------- MODULE StateStoreProofs --------------------------
(***************************************************************************)
(* Theorems about StateStore, for every number of processes, intents,      *)
(* jobs, days and caps, and ledgers and incident tables of any length.     *)
(*                                                                         *)
(* All of them rest on one fact (Alone): the process inside BEGIN          *)
(* IMMEDIATE is the only one there, and the database it read is still the  *)
(* committed one.  So every change of the database is one request applied  *)
(* to the committed database (Serial), and what remains is what the        *)
(* requests preserve.                                                      *)
(***************************************************************************)
EXTENDS StateStore, TLAPS

USE StoreAssumption

-----------------------------------------------------------------------------
(* Types.                                                                  *)

LEMMA DatabaseFields ==
  ASSUME NEW d \in Database
  PROVE  /\ d.ledger \in Seq(Row)
         /\ d.incidents \in Seq(Incident)
         /\ d.spent \in [Days -> Nat]
         /\ d = [ledger |-> d.ledger, incidents |-> d.incidents, spent |-> d.spent]
  BY DEF Database

LEMMA EmptyType == EmptyDatabase \in Database
<1>1. <<>> \in Seq(Row) /\ <<>> \in Seq(Incident)
  OBVIOUS
<1>2. [day \in Days |-> 0] \in [Days -> Nat]
  OBVIOUS
<1>3. QED
  BY <1>1, <1>2 DEF EmptyDatabase, Database

LEMMA AppendRowType ==
  ASSUME NEW ledger \in Seq(Row), NEW intent \in Intents,
         NEW status \in {"attempted"} \cup Outcomes, NEW ref_seq \in Nat
  PROVE  /\ AppendRow(ledger, intent, status, ref_seq) \in Seq(Row)
         /\ Len(AppendRow(ledger, intent, status, ref_seq)) = Len(ledger) + 1
         /\ \A i \in 1 .. Len(ledger) : AppendRow(ledger, intent, status, ref_seq)[i] = ledger[i]
<1> DEFINE prev == Head_hash(ledger)
           payload == [seq |-> Len(ledger) + 1, intent |-> intent,
                       status |-> status, ref_seq |-> ref_seq]
           row == [payload |-> payload, prev_hash |-> prev,
                   row_hash |-> chain_hash(payload, prev)]
<1>1. prev \in Seq(Payload)
  <2>1. CASE ledger = <<>>
    BY <2>1 DEF Head_hash, GENESIS_HASH
  <2>2. CASE ledger # <<>>
    <3>1. ledger[Len(ledger)] \in Row
      BY <2>2
    <3>2. QED
      BY <2>2, <3>1 DEF Head_hash, Row
  <2>3. QED
    BY <2>1, <2>2
<1>2. payload \in Payload
  BY DEF Payload
<1>3. chain_hash(payload, prev) \in Seq(Payload)
  BY <1>1, <1>2 DEF chain_hash
<1>4. row \in Row
  BY <1>1, <1>2, <1>3 DEF Row
<1>5. AppendRow(ledger, intent, status, ref_seq) = Append(ledger, row)
  BY DEF AppendRow
<1> HIDE DEF row
<1>6. QED
  BY <1>4, <1>5

\* Each request makes a database of a database.
LEMMA AttemptType ==
  ASSUME NEW d \in Database, NEW r \in Requests, r.op = "attempt"
  PROVE  /\ record_attempt(d, r) = [d EXCEPT !.ledger = AppendRow(d.ledger, r.intent, "attempted", 0)]
         /\ r.intent \in Intents
         /\ record_attempt(d, r) \in Database
<1>1. r.intent \in Intents
  BY DEF Requests
<1>2. AppendRow(d.ledger, r.intent, "attempted", 0) \in Seq(Row)
  BY <1>1, DatabaseFields, AppendRowType
<1>3. QED
  BY <1>1, <1>2 DEF record_attempt, Database

LEMMA OutcomeType ==
  ASSUME NEW d \in Database, NEW r \in Requests, r.op = "outcome", MayResolve(d, r)
  PROVE  /\ record_outcome(d, r) =
              [d EXCEPT !.ledger = AppendRow(d.ledger, d.ledger[r.seq].payload.intent, r.status, r.seq)]
         /\ r.seq \in 1 .. Len(d.ledger)
         /\ d.ledger[r.seq].payload.intent \in Intents
         /\ r.status \in Outcomes
         /\ record_outcome(d, r) \in Database
<1>1. r.seq \in Nat /\ r.status \in Outcomes
  BY DEF Requests
<1>2. r.seq \in 1 .. Len(d.ledger)
  BY DatabaseFields DEF MayResolve, IsUnresolved, IsAttempt
<1>3. d.ledger[r.seq] \in Row
  BY <1>2, DatabaseFields
<1>4. d.ledger[r.seq].payload.intent \in Intents
  BY <1>3 DEF Row, Payload
<1>5. AppendRow(d.ledger, d.ledger[r.seq].payload.intent, r.status, r.seq) \in Seq(Row)
  BY <1>1, <1>4, DatabaseFields, AppendRowType
<1>6. QED
  BY <1>1, <1>2, <1>4, <1>5 DEF record_outcome, Database

LEMMA OpenType ==
  ASSUME NEW d \in Database, NEW r \in Requests, r.op = "open"
  PROVE  /\ r.job \in Jobs /\ r.ts \in Nat
         /\ open_incident(d, r) \in Database
<1>1. r.job \in Jobs /\ r.ts \in Nat
  BY DEF Requests
<1>2. [job |-> r.job, opened_at |-> r.ts, closed_at |-> {}] \in Incident
  BY <1>1 DEF Incident
<1> DEFINE fresh == [job |-> r.job, opened_at |-> r.ts, closed_at |-> {}]
<1> HIDE DEF fresh
<1>3. Append(d.incidents, fresh) \in Seq(Incident)
  BY <1>2, DatabaseFields DEF fresh
<1>4. [d EXCEPT !.incidents = Append(@, fresh)] \in Database
  BY <1>3 DEF Database
<1>5. QED
  BY <1>1, <1>4 DEF open_incident, fresh

LEMMA CloseType ==
  ASSUME NEW d \in Database, NEW r \in Requests, r.op = "close"
  PROVE  /\ r.job \in Jobs /\ r.ts \in Nat
         /\ close_incident(d, r) \in Database
<1>1. r.job \in Jobs /\ r.ts \in Nat
  BY DEF Requests
<1> DEFINE closed == [i \in DOMAIN d.incidents |->
                        IF i \in OpenAt(d, r.job)
                          THEN [d.incidents[i] EXCEPT !.closed_at = {r.ts}]
                          ELSE d.incidents[i]]
<1>2. DOMAIN d.incidents = 1 .. Len(d.incidents) /\ Len(d.incidents) \in Nat
  BY DatabaseFields
<1>3. ASSUME NEW i \in DOMAIN d.incidents
      PROVE  closed[i] \in Incident
  <2>1. d.incidents[i] \in Incident
    BY <1>2, DatabaseFields
  <2>2. [d.incidents[i] EXCEPT !.closed_at = {r.ts}] \in Incident
    BY <1>1, <2>1 DEF Incident
  <2>3. QED
    BY <2>1, <2>2
<1>4. closed \in [1 .. Len(d.incidents) -> Incident]
  BY <1>2, <1>3
<1>5. closed \in Seq(Incident)
  BY <1>2, <1>4
<1> HIDE DEF closed
<1>6. [d EXCEPT !.incidents = closed] \in Database
  BY <1>5 DEF Database
<1>7. QED
  BY <1>1, <1>6 DEF close_incident, closed

LEMMA ReserveType ==
  ASSUME NEW d \in Database, NEW r \in Requests, r.op = "reserve"
  PROVE  /\ r.day \in Days /\ r.cap \in Caps /\ r.estimate \in Estimates
         /\ reserve_budget(d, r) \in Database
<1>1. r.day \in Days /\ r.cap \in Caps /\ r.estimate \in Estimates
  BY DEF Requests
<1>2. [d.spent EXCEPT ![r.day] = @ + r.estimate] \in [Days -> Nat]
  BY <1>1, DatabaseFields
<1>3. QED
  BY <1>1, <1>2 DEF reserve_budget, Database

LEMMA ApplyType ==
  ASSUME NEW d \in Database, NEW r \in Requests, Accepts(d, r)
  PROVE  Apply(d, r) \in Database
<1>1. CASE r.op = "attempt"
  BY <1>1, AttemptType DEF Apply
<1>2. CASE r.op = "outcome"
  BY <1>2, OutcomeType DEF Apply, Accepts
<1>3. CASE r.op = "open"
  BY <1>3, OpenType DEF Apply
<1>4. CASE r.op = "close"
  BY <1>4, CloseType DEF Apply
<1>5. CASE r.op = "reserve"
  BY <1>5, ReserveType DEF Apply
<1>6. QED
  BY <1>1, <1>2, <1>3, <1>4, <1>5 DEF Requests

LEMMA TypeInit == Init => TypeOK
  BY EmptyType DEF Init, TypeOK, NoRequest

\* A process that waits, writes or calls has a request of its own.
Asking == \A p \in Procs : pc[p] # "idle" => request[p] \in Requests

LEMMA OfferedType ==
  ASSUME TypeOK, NEW r \in Offered
  PROVE  r \in Requests
<1>1. DOMAIN db.ledger = 1 .. Len(db.ledger)
  BY DatabaseFields DEF TypeOK
<1>2. DOMAIN db.ledger \subseteq Nat
  BY <1>1
<1>3. now \in Nat
  BY DEF TypeOK
<1>4. QED
  BY <1>2, <1>3 DEF Offered, Requests

LEMMA AskingNext ==
  ASSUME TypeOK, Asking, [Next]_vars
  PROVE  Asking'
<1> USE DEF TypeOK, Asking, Goto
<1>1. CASE Tick \/ UNCHANGED vars
  BY <1>1 DEF Tick, vars
<1>2. ASSUME NEW p \in Procs, Ask(p)
      PROVE  Asking'
  BY <1>2, OfferedType DEF Ask
<1>3. ASSUME NEW p \in Procs, Begin(p)
      PROVE  Asking'
  BY <1>3 DEF Begin
<1>4. ASSUME NEW p \in Procs, Busy(p) \/ Rollback(p) \/ Crash(p)
      PROVE  Asking'
  BY <1>4 DEF Busy, Rollback, Crash, Return
<1>5. ASSUME NEW p \in Procs, Commit(p)
      PROVE  Asking'
  BY <1>5 DEF Commit, Return
<1>6. ASSUME NEW p \in Procs, Answer(p)
      PROVE  Asking'
  <2>1. ASSUME NEW outcome \in Outcomes
        PROVE  [op |-> "outcome", seq |-> attempt[p], status |-> outcome] \in Requests
    BY DEF Requests
  <2>2. request'[p] \in Requests
    BY <1>6, <2>1 DEF Answer
  <2>3. \A q \in Procs : q # p => request'[q] = request[q] /\ pc'[q] = pc[q]
    BY <1>6 DEF Answer
  <2>4. QED
    BY <2>2, <2>3
<1>7. QED
  BY <1>1, <1>2, <1>3, <1>4, <1>5, <1>6 DEF Next

LEMMA ReturnType ==
  ASSUME TypeOK, NEW p \in Procs, Return(p)
  PROVE  /\ pc' \in [Procs -> {"idle", "waiting", "writing", "calling"}]
         /\ request' \in [Procs -> Requests \cup {NoRequest}]
         /\ attempt' \in [Procs -> Nat]
  BY DEF TypeOK, Return, Goto

LEMMA ResolvingType ==
  ASSUME TypeOK, NEW p \in Procs
  PROVE  Resolving(p) \subseteq Nat \ {0} /\ {attempt[p]} \ {0} \subseteq Nat \ {0}
  BY DEF TypeOK, Resolving

LEMMA TypeNext ==
  ASSUME TypeOK, Asking, [Next]_vars
  PROVE  TypeOK'
<1>1. CASE Tick \/ UNCHANGED vars
  <2>1. now' \in Nat
    BY <1>1 DEF Tick, vars, TypeOK
  <2>2. UNCHANGED <<db, writer, view, pc, request, attempt, died, unrecorded>>
    BY <1>1 DEF Tick, vars, observed
  <2>3. QED
    BY <2>1, <2>2 DEF TypeOK
<1>2. ASSUME NEW p \in Procs, Ask(p)
      PROVE  TypeOK'
  BY <1>2, OfferedType DEF Ask, Goto, observed, TypeOK
<1>3. ASSUME NEW p \in Procs, Begin(p)
      PROVE  TypeOK'
  BY <1>3 DEF Begin, Goto, observed, TypeOK
<1>4. ASSUME NEW p \in Procs, Busy(p)
      PROVE  TypeOK'
  BY <1>4, ReturnType, ResolvingType DEF Busy, TypeOK
<1>5. ASSUME NEW p \in Procs, Commit(p)
      PROVE  TypeOK'
  <2>1. request[p] \in Requests
    BY <1>5 DEF Asking, Commit
  <2>2. view[p] \in Database
    BY DEF TypeOK
  <2>3. db' \in Database
    BY <1>5, <2>1, <2>2, ApplyType DEF Commit
  <2>4. view' \in [Procs -> Database]
    BY <1>5, EmptyType DEF Commit, TypeOK
  <2>5. Len(db'.ledger) \in Nat
    BY <2>3, DatabaseFields
  <2>6. /\ pc' \in [Procs -> {"idle", "waiting", "writing", "calling"}]
        /\ request' \in [Procs -> Requests \cup {NoRequest}]
        /\ attempt' \in [Procs -> Nat]
    <3>1. CASE Return(p)
      BY <3>1, ReturnType
    <3>2. CASE ~Return(p)
      BY <1>5, <3>2, <2>5 DEF Commit, Goto, TypeOK
    <3>3. QED
      BY <3>1, <3>2
  <2>7. QED
    BY <1>5, <2>3, <2>4, <2>6 DEF Commit, observed, TypeOK
<1>6. ASSUME NEW p \in Procs, Rollback(p)
      PROVE  TypeOK'
  BY <1>6, ReturnType, ResolvingType, EmptyType DEF Rollback, TypeOK
<1>7. ASSUME NEW p \in Procs, Answer(p)
      PROVE  TypeOK'
  <2>1. ASSUME NEW outcome \in Outcomes
        PROVE  [op |-> "outcome", seq |-> attempt[p], status |-> outcome] \in Requests
    BY DEF Requests, TypeOK
  <2>2. request' \in [Procs -> Requests \cup {NoRequest}]
    BY <1>7, <2>1 DEF Answer, TypeOK
  <2>3. QED
    BY <1>7, <2>2 DEF Answer, Goto, observed, TypeOK
<1>8. ASSUME NEW p \in Procs, Crash(p)
      PROVE  TypeOK'
  BY <1>8, ReturnType, ResolvingType, EmptyType DEF Crash, TypeOK
<1>9. QED
  BY <1>1, <1>2, <1>3, <1>4, <1>5, <1>6, <1>7, <1>8 DEF Next

LEMMA TypeInvariant == Spec => [](TypeOK /\ Asking)
<1>1. Init => TypeOK /\ Asking
  BY TypeInit DEF Init, Asking
<1>2. TypeOK /\ Asking /\ [Next]_vars => TypeOK' /\ Asking'
  BY TypeNext, AskingNext
<1>3. QED
  BY <1>1, <1>2, PTL DEF Spec

\* Every table keeps its type whatever is asked of the store: a row is never
\* written with a field its readers cannot read.
THEOREM TypeCorrect == Spec => []TypeOK
  BY TypeInvariant, PTL

-----------------------------------------------------------------------------
(* Serial writers.                                                         *)

\* The process inside BEGIN IMMEDIATE is alone there, and what it has read is
\* still what the database holds.
Alone == \A p \in Procs : pc[p] = "writing" => writer = {p} /\ view[p] = db

LEMMA AloneNext ==
  ASSUME TypeOK, Alone, [Next]_vars
  PROVE  Alone'
<1> USE DEF TypeOK, Alone, Goto
<1>1. CASE Tick \/ UNCHANGED vars
  BY <1>1 DEF Tick, vars
<1>2. ASSUME NEW p \in Procs, Ask(p) \/ Answer(p)
      PROVE  Alone'
  BY <1>2 DEF Ask, Answer
<1>3. ASSUME NEW p \in Procs, Begin(p)
      PROVE  Alone'
  BY <1>3 DEF Begin
<1>4. ASSUME NEW p \in Procs, Busy(p)
      PROVE  Alone'
  BY <1>4 DEF Busy, Return
<1>5. ASSUME NEW p \in Procs, Commit(p) \/ Rollback(p) \/ Crash(p)
      PROVE  Alone'
  <2>1. pc'[p] # "writing" /\ \A q \in Procs : q # p => pc'[q] = pc[q]
    <3>1. pc' = [pc EXCEPT ![p] = "idle"] \/ pc' = [pc EXCEPT ![p] = "calling"]
      BY <1>5 DEF Commit, Rollback, Crash, Return
    <3>2. QED
      BY <3>1
  <2>2. \A q \in Procs : q # p => view'[q] = view[q]
    BY <1>5 DEF Commit, Rollback, Crash
  <2>3. ASSUME NEW q \in Procs, q # p, pc[q] = "writing"
        PROVE  writer' = writer /\ db' = db
    <3>1. writer = {q} /\ pc[p] # "writing"
      BY <2>3
    <3>2. Crash(p)
      BY <1>5, <3>1 DEF Commit, Rollback
    <3>3. writer' = writer \ {p} /\ db' = db
      BY <3>2 DEF Crash
    <3>4. QED
      BY <2>3, <3>1, <3>3
  <2>4. QED
    BY <2>1, <2>2, <2>3
<1>6. QED
  BY <1>1, <1>2, <1>3, <1>4, <1>5 DEF Next

LEMMA AloneInvariant == Spec => []Alone
<1>1. Init => Alone
  BY DEF Init, Alone
<1>2. TypeOK /\ Alone /\ [Next]_vars => Alone'
  BY AloneNext
<1>3. QED
  BY <1>1, <1>2, TypeCorrect, PTL DEF Spec

\* One request, applied to the committed database.
Write(r) == Accepts(db, r) /\ db' = Apply(db, r)

LEMMA WriteStep ==
  ASSUME Asking, Alone, [Next]_vars, db' # db
  PROVE  \E p \in Procs : pc[p] = "writing" /\ request[p] \in Requests /\ Write(request[p])
<1>1. PICK p \in Procs : Commit(p)
  BY DEF Next, Tick, vars, Ask, Begin, Busy, Rollback, Answer, Crash
<1>2. view[p] = db /\ request[p] \in Requests
  BY <1>1 DEF Commit, Alone, Asking
<1>3. QED
  BY <1>1, <1>2 DEF Commit, Write

\* No writer works on a head, a spend or an incident that another writer has
\* changed since it read it: BEGIN IMMEDIATE makes the requests serial.
THEOREM WritersAreSerial == Spec => Serial
<1>1. Asking /\ Alone /\ [Next]_vars =>
        [\E p \in Procs : /\ pc[p] = "writing"
                          /\ Accepts(db, request[p])
                          /\ db' = Apply(db, request[p])]_db
  BY WriteStep DEF Write
<1>2. QED
  BY <1>1, TypeInvariant, AloneInvariant, PTL DEF Spec, Serial

-----------------------------------------------------------------------------
(* The ledger.                                                             *)

\* The row that AppendRow adds.
LEMMA AppendedRow ==
  ASSUME NEW ledger \in Seq(Row), NEW intent \in Intents,
         NEW status \in {"attempted"} \cup Outcomes, NEW ref_seq \in Nat,
         NEW new, new = AppendRow(ledger, intent, status, ref_seq)
  PROVE  /\ new[Len(ledger) + 1].payload.seq = Len(ledger) + 1
         /\ new[Len(ledger) + 1].payload.intent = intent
         /\ new[Len(ledger) + 1].payload.status = status
         /\ new[Len(ledger) + 1].payload.ref_seq = ref_seq
         /\ new[Len(ledger) + 1].prev_hash = Head_hash(ledger)
         /\ new[Len(ledger) + 1].row_hash =
              chain_hash(new[Len(ledger) + 1].payload, new[Len(ledger) + 1].prev_hash)
<1> DEFINE payload == [seq |-> Len(ledger) + 1, intent |-> intent,
                       status |-> status, ref_seq |-> ref_seq]
           row == [payload |-> payload, prev_hash |-> Head_hash(ledger),
                   row_hash |-> chain_hash(payload, Head_hash(ledger))]
<1>1. new = Append(ledger, row)
  BY DEF AppendRow
<1>2. row.payload = payload /\ row.prev_hash = Head_hash(ledger)
      /\ row.row_hash = chain_hash(payload, Head_hash(ledger))
  OBVIOUS
<1>3. /\ payload.seq = Len(ledger) + 1 /\ payload.intent = intent
      /\ payload.status = status /\ payload.ref_seq = ref_seq
  OBVIOUS
<1> HIDE DEF payload, row
<1>4. new[Len(ledger) + 1] = row
  BY <1>1
<1>5. QED
  BY <1>2, <1>3, <1>4

LEMMA AttemptRow ==
  ASSUME NEW ledger \in Seq(Row), NEW intent \in Intents
  PROVE  LET new == AppendRow(ledger, intent, "attempted", 0)
         IN  /\ Len(new) = Len(ledger) + 1
             /\ new[Len(ledger) + 1].payload.intent = intent
             /\ new[Len(ledger) + 1].payload.status = "attempted"
<1> DEFINE new == AppendRow(ledger, intent, "attempted", 0)
<1>1. Len(new) = Len(ledger) + 1
  BY AppendRowType
<1>2. /\ new[Len(ledger) + 1].payload.intent = intent
      /\ new[Len(ledger) + 1].payload.status = "attempted"
  BY AppendedRow
<1>3. QED
  BY <1>1, <1>2

LEMMA OutcomeRow ==
  ASSUME NEW ledger \in Seq(Row), NEW intent \in Intents, NEW status \in Outcomes, NEW seq \in Nat
  PROVE  /\ Len(AppendRow(ledger, intent, status, seq)) = Len(ledger) + 1
         /\ AppendRow(ledger, intent, status, seq)[Len(ledger) + 1].payload.status = status
         /\ Len(ledger) + 1 \in OutcomesOf(AppendRow(ledger, intent, status, seq), seq)
<1> DEFINE new == AppendRow(ledger, intent, status, seq)
<1> DEFINE listed == {"attempted"} \cup Outcomes
<1>1. status \in listed
  OBVIOUS
<1>2. new \in Seq(Row) /\ Len(new) = Len(ledger) + 1
  BY <1>1, AppendRowType
<1> HIDE DEF new
<1>3. /\ new[Len(ledger) + 1].payload.ref_seq = seq
      /\ new[Len(ledger) + 1].payload.status = status
  <2>1. new = AppendRow(ledger, intent, status, seq)
    BY DEF new
  <2>2. QED
    BY <1>1, <2>1, AppendedRow
<1>4. Len(ledger) + 1 \in DOMAIN new
  BY <1>2
<1>5. Len(ledger) + 1 \in OutcomesOf(new, seq)
  BY <1>3, <1>4 DEF OutcomesOf
<1>6. QED
  BY <1>2, <1>3, <1>5 DEF new

\* What a step may add to the ledger.
AddsAttempt ==
  \E intent \in Intents : db'.ledger = AppendRow(db.ledger, intent, "attempted", 0)

AddsOutcome ==
  \E seq \in 1 .. Len(db.ledger), status \in Outcomes :
    /\ IsUnresolved(db.ledger, seq)
    /\ db.ledger[seq].payload.intent \in Intents
    /\ db'.ledger = AppendRow(db.ledger, db.ledger[seq].payload.intent, status, seq)

LEMMA LedgerStep ==
  ASSUME TypeOK, Asking, Alone, [Next]_vars
  PROVE  db'.ledger = db.ledger \/ AddsAttempt \/ AddsOutcome
<1>1. CASE db' = db
  BY <1>1
<1>2. CASE db' # db
  <2>1. PICK r \in Requests : Write(r)
    BY <1>2, WriteStep
  <2>2. db \in Database
    BY DEF TypeOK
  <2>3. CASE r.op = "attempt"
    <3>1. /\ db' = [db EXCEPT !.ledger = AppendRow(db.ledger, r.intent, "attempted", 0)]
          /\ r.intent \in Intents
      BY <2>1, <2>2, <2>3, AttemptType DEF Write, Apply
    <3>2. db'.ledger = AppendRow(db.ledger, r.intent, "attempted", 0)
      BY <2>2, <3>1 DEF Database
    <3>3. QED
      BY <3>1, <3>2 DEF AddsAttempt
  <2>4. CASE r.op = "outcome"
    <3>1. MayResolve(db, r) /\ db' = record_outcome(db, r)
      BY <2>1, <2>4 DEF Write, Accepts, Apply
    <3>2. /\ db' = [db EXCEPT !.ledger =
                      AppendRow(db.ledger, db.ledger[r.seq].payload.intent, r.status, r.seq)]
          /\ r.seq \in 1 .. Len(db.ledger) /\ r.status \in Outcomes
          /\ db.ledger[r.seq].payload.intent \in Intents
      BY <2>2, <2>4, <3>1, OutcomeType
    <3>3. db'.ledger = AppendRow(db.ledger, db.ledger[r.seq].payload.intent, r.status, r.seq)
      BY <2>2, <3>2 DEF Database
    <3>4. QED
      BY <3>1, <3>2, <3>3 DEF AddsOutcome, MayResolve
  <2>5. CASE r.op = "open"
    BY <2>1, <2>2, <2>5 DEF Write, Apply, open_incident, Database
  <2>6. CASE r.op = "close"
    BY <2>1, <2>2, <2>6 DEF Write, Apply, close_incident, Database
  <2>7. CASE r.op = "reserve"
    BY <2>1, <2>2, <2>7 DEF Write, Apply, reserve_budget, Database
  <2>8. QED
    BY <2>3, <2>4, <2>5, <2>6, <2>7 DEF Requests
<1>3. QED
  BY <1>1, <1>2

\* Either way one row is added behind the others.
LEMMA LedgerGrows ==
  ASSUME TypeOK, Asking, Alone, [Next]_vars, db'.ledger # db.ledger
  PROVE  \E intent \in Intents, status \in {"attempted"} \cup Outcomes, ref_seq \in Nat :
           /\ db'.ledger = AppendRow(db.ledger, intent, status, ref_seq)
           /\ \/ status = "attempted" /\ ref_seq = 0
              \/ /\ status \in Outcomes
                 /\ ref_seq \in 1 .. Len(db.ledger)
                 /\ IsUnresolved(db.ledger, ref_seq)
                 /\ db.ledger[ref_seq].payload.intent = intent
<1>1. CASE AddsAttempt
  BY <1>1 DEF AddsAttempt
<1>2. CASE AddsOutcome
  <2>1. PICK seq \in 1 .. Len(db.ledger), status \in Outcomes :
          /\ IsUnresolved(db.ledger, seq)
          /\ db.ledger[seq].payload.intent \in Intents
          /\ db'.ledger = AppendRow(db.ledger, db.ledger[seq].payload.intent, status, seq)
    BY <1>2 DEF AddsOutcome
  <2>2. seq \in Nat
    OBVIOUS
  <2>3. QED
    BY <2>1, <2>2
<1>3. QED
  BY <1>1, <1>2, LedgerStep

LEMMA LedgerType ==
  ASSUME TypeOK
  PROVE  /\ db.ledger \in Seq(Row)
         /\ Len(db.ledger) \in Nat
         /\ DOMAIN db.ledger = 1 .. Len(db.ledger)
  BY DatabaseFields DEF TypeOK

LEMMA AppendOnlyNext ==
  ASSUME TypeOK, Asking, Alone, [Next]_vars
  PROVE  /\ Len(db.ledger) <= Len(db'.ledger)
         /\ \A i \in DOMAIN db.ledger : db'.ledger[i] = db.ledger[i]
<1>1. CASE db'.ledger = db.ledger
  BY <1>1, LedgerType
<1>2. CASE db'.ledger # db.ledger
  <2>1. PICK intent \in Intents, status \in {"attempted"} \cup Outcomes, ref_seq \in Nat :
          db'.ledger = AppendRow(db.ledger, intent, status, ref_seq)
    BY <1>2, LedgerGrows
  <2>2. Len(db'.ledger) = Len(db.ledger) + 1
        /\ \A i \in 1 .. Len(db.ledger) : db'.ledger[i] = db.ledger[i]
    BY <2>1, LedgerType, AppendRowType
  <2>3. QED
    BY <2>2, LedgerType
<1>3. QED
  BY <1>1, <1>2

\* No request of any process changes or removes a row of the audit ledger.
THEOREM LedgerIsAppendOnly == Spec => AppendOnly
<1>1. TypeOK /\ Asking /\ Alone /\ [Next]_vars =>
        [/\ Len(db.ledger) <= Len(db'.ledger)
         /\ \A i \in DOMAIN db.ledger : db'.ledger[i] = db.ledger[i]]_db
  BY AppendOnlyNext
<1>2. QED
  BY <1>1, TypeInvariant, AloneInvariant, PTL DEF Spec, AppendOnly

LEMMA ChainNext ==
  ASSUME TypeOK, Asking, Alone, [Next]_vars, ChainVerifies
  PROVE  ChainVerifies'
<1>1. CASE db'.ledger = db.ledger
  BY <1>1 DEF ChainVerifies
<1>2. CASE db'.ledger # db.ledger
  <2> DEFINE len == Len(db.ledger)
  <2>1. PICK intent \in Intents, status \in {"attempted"} \cup Outcomes, ref_seq \in Nat :
          db'.ledger = AppendRow(db.ledger, intent, status, ref_seq)
    BY <1>2, LedgerGrows
  <2>2. /\ db'.ledger \in Seq(Row)
        /\ Len(db'.ledger) = len + 1
        /\ \A i \in 1 .. len : db'.ledger[i] = db.ledger[i]
    <3>1. db.ledger \in Seq(Row) /\ len \in Nat
      BY LedgerType
    <3>2. /\ AppendRow(db.ledger, intent, status, ref_seq) \in Seq(Row)
          /\ Len(AppendRow(db.ledger, intent, status, ref_seq)) = len + 1
          /\ \A i \in 1 .. len : AppendRow(db.ledger, intent, status, ref_seq)[i] = db.ledger[i]
      BY <3>1, AppendRowType
    <3>3. QED
      BY <2>1, <3>2
  <2>3. ASSUME NEW i \in 1 .. len
        PROVE  /\ db'.ledger[i].payload.seq = i
               /\ db'.ledger[i].prev_hash = IF i = 1 THEN GENESIS_HASH ELSE db'.ledger[i - 1].row_hash
               /\ db'.ledger[i].row_hash = chain_hash(db'.ledger[i].payload, db'.ledger[i].prev_hash)
    <3>1. /\ db.ledger[i].payload.seq = i
          /\ db.ledger[i].prev_hash = IF i = 1 THEN GENESIS_HASH ELSE db.ledger[i - 1].row_hash
          /\ db.ledger[i].row_hash = chain_hash(db.ledger[i].payload, db.ledger[i].prev_hash)
      BY LedgerType DEF ChainVerifies, verify_chain
    <3>2. i # 1 => i - 1 \in 1 .. len
      BY LedgerType
    <3>3. i # 1 => db'.ledger[i - 1] = db.ledger[i - 1]
      BY <2>2, <3>2
    <3>4. QED
      BY <2>2, <3>1, <3>3
  <2>4. /\ db'.ledger[len + 1].payload.seq = len + 1
        /\ db'.ledger[len + 1].prev_hash = Head_hash(db.ledger)
        /\ db'.ledger[len + 1].row_hash =
             chain_hash(db'.ledger[len + 1].payload, db'.ledger[len + 1].prev_hash)
    <3>1. db.ledger \in Seq(Row)
      BY LedgerType
    <3>2. QED
      BY <2>1, <3>1, AppendedRow
  <2>5. Head_hash(db.ledger) =
          IF len + 1 = 1 THEN GENESIS_HASH ELSE db'.ledger[len + 1 - 1].row_hash
    <3>1. CASE db.ledger = <<>>
      BY <3>1 DEF Head_hash
    <3>2. CASE db.ledger # <<>>
      <4>1. len # 0 /\ len \in Nat
        BY <3>2, LedgerType
      <4>2. len \in 1 .. len /\ len + 1 - 1 = len /\ len + 1 # 1
        BY <4>1
      <4>3. db'.ledger[len] = db.ledger[len]
        BY <2>2, <4>2
      <4>4. QED
        BY <3>2, <4>2, <4>3 DEF Head_hash
    <3>3. QED
      BY <3>1, <3>2
  <2>6. DOMAIN db'.ledger = 1 .. len + 1
    BY <2>2
  <2>7. len + 1 \in 1 .. len + 1 /\ \A i \in 1 .. len + 1 : i \in 1 .. len \/ i = len + 1
    BY LedgerType
  <2>8. ASSUME NEW i \in 1 .. len + 1
        PROVE  /\ db'.ledger[i].payload.seq = i
               /\ db'.ledger[i].prev_hash = IF i = 1 THEN GENESIS_HASH ELSE db'.ledger[i - 1].row_hash
               /\ db'.ledger[i].row_hash = chain_hash(db'.ledger[i].payload, db'.ledger[i].prev_hash)
    <3>1. CASE i \in 1 .. len
      BY <2>3, <3>1
    <3>2. CASE i = len + 1
      BY <2>4, <2>5, <3>2
    <3>3. QED
      BY <2>7, <3>1, <3>2
  <2>9. QED
    BY <2>6, <2>8 DEF ChainVerifies, verify_chain
<1>3. QED
  BY <1>1, <1>2

\* However writers interleave, fail and die, the ledger they leave passes
\* verify_chain: no fork and no gap.
THEOREM LedgerVerifies == Spec => []ChainVerifies
<1>1. Init => ChainVerifies
  BY DEF Init, EmptyDatabase, ChainVerifies, verify_chain
<1>2. TypeOK /\ Asking /\ Alone /\ ChainVerifies /\ [Next]_vars => ChainVerifies'
  BY ChainNext
<1>3. QED
  BY <1>1, <1>2, TypeInvariant, AloneInvariant, PTL DEF Spec

LEMMA OneOutcomeNext ==
  ASSUME TypeOK, Asking, Alone, [Next]_vars, OneOutcome
  PROVE  OneOutcome'
<1>1. CASE db'.ledger = db.ledger
  BY <1>1 DEF OneOutcome, IsAttempt, OutcomesOf
<1>2. CASE db'.ledger # db.ledger
  <2> DEFINE len == Len(db.ledger)
             old(i) == db.ledger[i].payload
             new(i) == db'.ledger[i].payload
  <2>1. PICK intent \in Intents, status \in {"attempted"} \cup Outcomes, ref_seq \in Nat :
           /\ db'.ledger = AppendRow(db.ledger, intent, status, ref_seq)
           /\ \/ status = "attempted" /\ ref_seq = 0
              \/ /\ status \in Outcomes
                 /\ ref_seq \in 1 .. Len(db.ledger)
                 /\ IsUnresolved(db.ledger, ref_seq)
                 /\ db.ledger[ref_seq].payload.intent = intent
    BY <1>2, LedgerGrows
  <2>2. /\ DOMAIN db.ledger = 1 .. len
        /\ DOMAIN db'.ledger = 1 .. len + 1
        /\ len \in Nat
        /\ \A i \in 1 .. len : new(i) = old(i)
    <3>1. db.ledger \in Seq(Row) /\ DOMAIN db.ledger = 1 .. len /\ len \in Nat
      BY LedgerType
    <3>2. /\ AppendRow(db.ledger, intent, status, ref_seq) \in Seq(Row)
          /\ Len(AppendRow(db.ledger, intent, status, ref_seq)) = len + 1
          /\ \A i \in 1 .. len : AppendRow(db.ledger, intent, status, ref_seq)[i] = db.ledger[i]
      BY <3>1, AppendRowType
    <3>3. /\ db'.ledger \in Seq(Row)
          /\ Len(db'.ledger) = len + 1
          /\ \A i \in 1 .. len : db'.ledger[i] = db.ledger[i]
      BY <2>1, <3>2
    <3>4. QED
      BY <3>1, <3>3
  <2>3. /\ new(len + 1).intent = intent
        /\ new(len + 1).status = status
        /\ new(len + 1).ref_seq = ref_seq
    <3>1. db.ledger \in Seq(Row)
      BY LedgerType
    <3>2. db'.ledger = AppendRow(db.ledger, intent, status, ref_seq)
      BY <2>1
    <3>3. QED
      BY <3>1, <3>2, AppendedRow
  <2>4. \A i \in 1 .. len : old(i).status # "attempted" =>
          /\ old(i).ref_seq \in 1 .. i - 1
          /\ old(old(i).ref_seq).status = "attempted"
          /\ old(old(i).ref_seq).intent = old(i).intent
          /\ \A j \in 1 .. len : old(j).ref_seq = old(i).ref_seq => j = i
    <3>1. SUFFICES ASSUME NEW i \in 1 .. len, old(i).status # "attempted"
                   PROVE  /\ old(i).ref_seq \in 1 .. i - 1
                          /\ old(old(i).ref_seq).status = "attempted"
                          /\ old(old(i).ref_seq).intent = old(i).intent
                          /\ \A j \in 1 .. len : old(j).ref_seq = old(i).ref_seq => j = i
      OBVIOUS
    <3>2. /\ old(i).ref_seq \in 1 .. i - 1
          /\ IsAttempt(db.ledger, old(i).ref_seq)
          /\ old(old(i).ref_seq).intent = old(i).intent
          /\ OutcomesOf(db.ledger, old(i).ref_seq) = {i}
      BY <2>2, <3>1 DEF OneOutcome
    <3>3. \A j \in 1 .. len : old(j).ref_seq = old(i).ref_seq => j = i
      BY <2>2, <3>2 DEF OutcomesOf
    <3>4. QED
      BY <3>2, <3>3 DEF IsAttempt
  <2>5. status # "attempted" =>
          /\ ref_seq \in 1 .. len
          /\ old(ref_seq).status = "attempted"
          /\ old(ref_seq).intent = intent
          /\ \A j \in 1 .. len : old(j).ref_seq # ref_seq
    BY <2>1, <2>2 DEF IsUnresolved, IsAttempt, OutcomesOf, Outcomes
  <2>6. status = "attempted" => ref_seq = 0
    BY <2>1 DEF Outcomes
  <2> HIDE DEF old, new
  <2>7. ASSUME NEW i \in 1 .. len + 1, new(i).status # "attempted"
        PROVE  /\ new(i).ref_seq \in 1 .. i - 1
               /\ new(i).ref_seq \in 1 .. len + 1
               /\ new(new(i).ref_seq).status = "attempted"
               /\ new(new(i).ref_seq).intent = new(i).intent
               /\ \A j \in 1 .. len + 1 : new(j).ref_seq = new(i).ref_seq <=> j = i
    <3>1. CASE i \in 1 .. len
      <4>1. new(i) = old(i)
        BY <2>2, <3>1
      <4>2. old(i).ref_seq \in 1 .. len
        BY <2>2, <2>4, <2>7, <3>1, <4>1
      <4>3. new(old(i).ref_seq) = old(old(i).ref_seq)
        BY <2>2, <4>2
      <4>4. \A j \in 1 .. len : new(j).ref_seq = new(i).ref_seq => j = i
        BY <2>2, <2>4, <2>7, <3>1, <4>1
      <4>5. new(len + 1).ref_seq # new(i).ref_seq
        BY <2>2, <2>3, <2>5, <2>6, <3>1, <4>1, <4>2
      <4>6. /\ old(i).ref_seq \in 1 .. i - 1
            /\ old(old(i).ref_seq).status = "attempted"
            /\ old(old(i).ref_seq).intent = old(i).intent
        BY <2>4, <2>7, <3>1, <4>1
      <4>7. \A j \in 1 .. len + 1 : new(j).ref_seq = new(i).ref_seq <=> j = i
        BY <2>2, <3>1, <4>4, <4>5
      <4>8. QED
        BY <2>2, <4>1, <4>2, <4>3, <4>6, <4>7
    <3>2. CASE i = len + 1
      BY <2>2, <2>3, <2>5, <2>7, <3>2
    <3>3. QED
      BY <2>2, <3>1, <3>2
  <2>8. ASSUME NEW i \in DOMAIN db'.ledger, new(i).status # "attempted"
        PROVE  OutcomesOf(db'.ledger, new(i).ref_seq) = {i}
    BY <2>2, <2>7, <2>8 DEF OutcomesOf, new
  <2>9. ASSUME NEW i \in DOMAIN db'.ledger, new(i).status # "attempted"
        PROVE  IsAttempt(db'.ledger, new(i).ref_seq)
    BY <2>2, <2>7, <2>9 DEF IsAttempt, new
  <2>10. QED
    BY <2>2, <2>7, <2>8, <2>9 DEF OneOutcome, new
<1>3. QED
  BY <1>1, <1>2

\* Every outcome belongs to one attempt before it, about the same intent, and
\* no attempt has two outcomes, whoever records them.
THEOREM EveryQueryHasOneOutcome == Spec => []OneOutcome
<1>1. Init => OneOutcome
  BY DEF Init, EmptyDatabase, OneOutcome
<1>2. TypeOK /\ Asking /\ Alone /\ OneOutcome /\ [Next]_vars => OneOutcome'
  BY OneOutcomeNext
<1>3. QED
  BY <1>1, <1>2, TypeInvariant, AloneInvariant, PTL DEF Spec

-----------------------------------------------------------------------------
(* The budget and the incidents.                                           *)

LEMMA WithinCapNext ==
  ASSUME TypeOK, Asking, Alone, [Next]_vars, WithinCap
  PROVE  WithinCap'
<1>1. CASE db' = db
  BY <1>1 DEF WithinCap
<1>2. CASE db' # db
  <2>1. PICK r \in Requests : Write(r)
    BY <1>2, WriteStep
  <2>2. db \in Database
    BY DEF TypeOK
  <2>3. CASE r.op # "reserve"
    <3>1. db'.spent = db.spent
      BY <2>1, <2>2, <2>3 DEF Write, Apply, Database, Requests, record_attempt,
         record_outcome, open_incident, close_incident
    <3>2. QED
      BY <3>1 DEF WithinCap
  <2>4. CASE r.op = "reserve"
    <3>1. /\ r.day \in Days /\ r.cap \in Caps
          /\ db' = reserve_budget(db, r)
          /\ db.spent[r.day] + r.estimate <= r.cap
      BY <2>1, <2>2, <2>4, ReserveType DEF Write, Apply, Accepts, MayReserve
    <3>2. db'.spent = [db.spent EXCEPT ![r.day] = @ + r.estimate]
      BY <2>2, <3>1 DEF reserve_budget, Database
    <3>3. db.spent \in [Days -> Nat]
      BY <2>2, DatabaseFields
    <3>4. ASSUME NEW day \in Days, db'.spent[day] > 0
          PROVE  \E cap \in Caps : db'.spent[day] <= cap
      <4>1. CASE day = r.day
        BY <3>1, <3>2, <3>3, <4>1
      <4>2. CASE day # r.day
        BY <3>2, <3>3, <3>4, <4>2 DEF WithinCap
      <4>3. QED
        BY <4>1, <4>2
    <3>5. QED
      BY <3>4 DEF WithinCap
  <2>5. QED
    BY <2>3, <2>4
<1>3. QED
  BY <1>1, <1>2

\* Callers that reserve at the same time never spend, between them, more than
\* the highest cap any of them passed.
THEOREM BudgetWithinCap == Spec => []WithinCap
<1>1. Init => WithinCap
  BY DEF Init, EmptyDatabase, WithinCap
<1>2. TypeOK /\ Asking /\ Alone /\ WithinCap /\ [Next]_vars => WithinCap'
  BY WithinCapNext
<1>3. QED
  BY <1>1, <1>2, TypeInvariant, AloneInvariant, PTL DEF Spec

\* The incident that a run or an operator opens.
Opened(job, ts) == [job |-> job, opened_at |-> ts, closed_at |-> {}]

\* What a step may do to the incidents: add an open one of a job that has none,
\* or close the open ones of a job.
AddsIncident ==
  \E job \in Jobs, ts \in Nat :
    /\ OpenAt(db, job) = {}
    /\ db'.incidents = Append(db.incidents, Opened(job, ts))

ClosesIncidents ==
  \E job \in Jobs, ts \in Nat :
    db'.incidents = [i \in DOMAIN db.incidents |->
                       IF i \in OpenAt(db, job)
                         THEN [db.incidents[i] EXCEPT !.closed_at = {ts}]
                         ELSE db.incidents[i]]

LEMMA IncidentStep ==
  ASSUME TypeOK, Asking, Alone, [Next]_vars
  PROVE  db'.incidents = db.incidents \/ AddsIncident \/ ClosesIncidents
<1>1. CASE db' = db
  BY <1>1
<1>2. CASE db' # db
  <2>1. PICK r \in Requests : Write(r)
    BY <1>2, WriteStep
  <2>2. db \in Database
    BY DEF TypeOK
  <2>3. CASE r.op = "open"
    <3>1. r.job \in Jobs /\ r.ts \in Nat /\ db' = open_incident(db, r)
      BY <2>1, <2>2, <2>3, OpenType DEF Write, Apply
    <3>2. CASE OpenAt(db, r.job) # {}
      BY <3>1, <3>2 DEF open_incident
    <3>3. CASE OpenAt(db, r.job) = {}
      <4>1. db' = [db EXCEPT !.incidents = Append(@, Opened(r.job, r.ts))]
        BY <3>1, <3>3 DEF open_incident, Opened
      <4>2. db'.incidents = Append(db.incidents, Opened(r.job, r.ts))
        BY <2>2, <4>1 DEF Database
      <4>3. QED
        BY <3>1, <3>3, <4>2 DEF AddsIncident
    <3>4. QED
      BY <3>2, <3>3
  <2>4. CASE r.op = "close"
    <3>1. r.job \in Jobs /\ r.ts \in Nat /\ db' = close_incident(db, r)
      BY <2>1, <2>2, <2>4, CloseType DEF Write, Apply
    <3>2. db'.incidents = [i \in DOMAIN db.incidents |->
                             IF i \in OpenAt(db, r.job)
                               THEN [db.incidents[i] EXCEPT !.closed_at = {r.ts}]
                               ELSE db.incidents[i]]
      BY <2>2, <3>1 DEF close_incident, Database
    <3>3. QED
      BY <3>1, <3>2 DEF ClosesIncidents
  <2>5. CASE r.op \notin {"open", "close"}
    BY <2>1, <2>2, <2>5 DEF Write, Apply, Database, Requests, record_attempt,
       record_outcome, reserve_budget
  <2>6. QED
    BY <2>3, <2>4, <2>5
<1>3. QED
  BY <1>1, <1>2

LEMMA IncidentsType ==
  ASSUME TypeOK
  PROVE  /\ db.incidents \in Seq(Incident)
         /\ Len(db.incidents) \in Nat
         /\ DOMAIN db.incidents = 1 .. Len(db.incidents)
         /\ \A i \in DOMAIN db.incidents : db.incidents[i] \in Incident
  BY DatabaseFields DEF TypeOK

LEMMA OpenedFields ==
  ASSUME NEW job \in Jobs, NEW ts \in Nat
  PROVE  /\ Opened(job, ts).job = job
         /\ Opened(job, ts).opened_at = ts
         /\ IsOpen(Opened(job, ts))
  BY DEF Opened, IsOpen

LEMMA ClosedFields ==
  ASSUME NEW incident \in Incident, NEW ts,
         NEW new, new = [incident EXCEPT !.closed_at = {ts}]
  PROVE  /\ new.job = incident.job
         /\ new.opened_at = incident.opened_at
         /\ ~IsOpen(new)
  BY DEF Incident, IsOpen

\* The three ways, incident by incident.
LEMMA IncidentsAfter ==
  ASSUME TypeOK, Asking, Alone, [Next]_vars
  PROVE  /\ \A i \in DOMAIN db.incidents :
              /\ i \in DOMAIN db'.incidents
              /\ db'.incidents[i].job = db.incidents[i].job
              /\ db'.incidents[i].opened_at = db.incidents[i].opened_at
              /\ IsOpen(db'.incidents[i]) => IsOpen(db.incidents[i])
              /\ ~IsOpen(db.incidents[i]) => db'.incidents[i] = db.incidents[i]
         /\ \A i \in DOMAIN db'.incidents :
              i \in DOMAIN db.incidents \/
                /\ i = Len(db.incidents) + 1
                /\ OpenAt(db, db'.incidents[i].job) = {}
<1>1. CASE db'.incidents = db.incidents
  BY <1>1
<1>2. CASE AddsIncident
  <2>1. PICK job \in Jobs, ts \in Nat :
          /\ OpenAt(db, job) = {}
          /\ db'.incidents = Append(db.incidents, Opened(job, ts))
    BY <1>2 DEF AddsIncident
  <2>2. DOMAIN db'.incidents = 1 .. Len(db.incidents) + 1
    BY <2>1, IncidentsType
  <2>3. \A i \in 1 .. Len(db.incidents) : db'.incidents[i] = db.incidents[i]
    BY <2>1, IncidentsType
  <2>4. db'.incidents[Len(db.incidents) + 1] = Opened(job, ts)
    BY <2>1, IncidentsType
  <2>5. QED
    BY <2>1, <2>2, <2>3, <2>4, IncidentsType, OpenedFields
<1>3. CASE ClosesIncidents
  <2>1. PICK job \in Jobs, ts \in Nat :
          db'.incidents = [i \in DOMAIN db.incidents |->
                             IF i \in OpenAt(db, job)
                               THEN [db.incidents[i] EXCEPT !.closed_at = {ts}]
                               ELSE db.incidents[i]]
    BY <1>3 DEF ClosesIncidents
  <2>2. DOMAIN db'.incidents = DOMAIN db.incidents
    BY <2>1
  <2>3. ASSUME NEW i \in DOMAIN db.incidents
        PROVE  /\ db'.incidents[i].job = db.incidents[i].job
               /\ db'.incidents[i].opened_at = db.incidents[i].opened_at
               /\ IsOpen(db'.incidents[i]) => IsOpen(db.incidents[i])
               /\ ~IsOpen(db.incidents[i]) => db'.incidents[i] = db.incidents[i]
    <3>1. CASE i \in OpenAt(db, job)
      <4>1. db'.incidents[i] = [db.incidents[i] EXCEPT !.closed_at = {ts}]
        BY <2>1, <3>1
      <4>2. IsOpen(db.incidents[i])
        BY <3>1 DEF OpenAt
      <4>3. db.incidents[i] \in Incident
        BY IncidentsType
      <4>4. QED
        BY <4>1, <4>2, <4>3, ClosedFields
    <3>2. CASE i \notin OpenAt(db, job)
      BY <2>1, <3>2
    <3>3. QED
      BY <3>1, <3>2
  <2>4. QED
    BY <2>2, <2>3
<1>4. QED
  BY <1>1, <1>2, <1>3, IncidentStep

LEMMA OneOpenNext ==
  ASSUME TypeOK, Asking, Alone, [Next]_vars, OneOpenIncident
  PROVE  OneOpenIncident'
<1>1. SUFFICES ASSUME NEW i \in DOMAIN db'.incidents, NEW j \in DOMAIN db'.incidents,
                      IsOpen(db'.incidents[i]), IsOpen(db'.incidents[j]),
                      db'.incidents[i].job = db'.incidents[j].job
               PROVE  i = j
  BY DEF OneOpenIncident
<1>2. CASE i \in DOMAIN db.incidents /\ j \in DOMAIN db.incidents
  BY <1>1, <1>2, IncidentsAfter DEF OneOpenIncident
<1>3. CASE i \notin DOMAIN db.incidents /\ j \notin DOMAIN db.incidents
  BY <1>1, <1>3, IncidentsAfter
<1>4. ASSUME NEW k \in DOMAIN db.incidents, NEW l \in DOMAIN db'.incidents,
             l \notin DOMAIN db.incidents, IsOpen(db'.incidents[k]),
             db'.incidents[k].job = db'.incidents[l].job
      PROVE  FALSE
  <2>1. IsOpen(db.incidents[k]) /\ db.incidents[k].job = db'.incidents[l].job
    BY <1>4, IncidentsAfter
  <2>2. k \in OpenAt(db, db'.incidents[l].job)
    BY <2>1 DEF OpenAt
  <2>3. QED
    BY <1>4, <2>2, IncidentsAfter
<1>5. QED
  BY <1>1, <1>2, <1>3, <1>4

\* A job never has two open incidents, though the alert run and a person may
\* open one at the same time.
THEOREM OneIncidentPerJob == Spec => []OneOpenIncident
<1>1. Init => OneOpenIncident
  BY DEF Init, EmptyDatabase, OneOpenIncident
<1>2. TypeOK /\ Asking /\ Alone /\ OneOpenIncident /\ [Next]_vars => OneOpenIncident'
  BY OneOpenNext
<1>3. QED
  BY <1>1, <1>2, TypeInvariant, AloneInvariant, PTL DEF Spec

\* The start of an incident never moves, and a closed incident never changes.
THEOREM IncidentHistoryIsKept == Spec => HistoryKept
<1>1. TypeOK /\ Asking /\ Alone /\ [Next]_vars =>
        [\A i \in DOMAIN db.incidents :
           /\ i \in DOMAIN db'.incidents
           /\ db'.incidents[i].opened_at = db.incidents[i].opened_at
           /\ ~IsOpen(db.incidents[i]) => db'.incidents[i] = db.incidents[i]]_db
  BY IncidentsAfter
<1>2. QED
  BY <1>1, TypeInvariant, AloneInvariant, PTL DEF Spec, HistoryKept

-----------------------------------------------------------------------------
(* The audited call.                                                       *)

\* A process that calls has the attempt it recorded in the ledger.
Recorded(p) ==
  /\ attempt[p] \in 1 .. Len(db.ledger)
  /\ db.ledger[attempt[p]].payload.status = "attempted"
  /\ db.ledger[attempt[p]].payload.intent = request[p].intent

LEMMA RecordedNext ==
  ASSUME TypeOK, Asking, Alone, [Next]_vars,
         \A p \in Procs : pc[p] = "calling" => Recorded(p)
  PROVE  \A p \in Procs : pc'[p] = "calling" => Recorded(p)'
<1>1. SUFFICES ASSUME NEW p \in Procs, pc'[p] = "calling"
               PROVE  Recorded(p)'
  OBVIOUS
<1>2. CASE Commit(p)
  <2>1. view[p] = db /\ request[p] \in Requests /\ db \in Database
    BY <1>2 DEF Commit, Alone, Asking, TypeOK
  <2>2. request[p].op = "attempt"
    BY <1>1, <1>2 DEF Commit, Return, Goto, TypeOK
  <2>3. /\ db' = [db EXCEPT !.ledger = AppendRow(db.ledger, request[p].intent, "attempted", 0)]
        /\ request[p].intent \in Intents
    BY <1>2, <2>1, <2>2, AttemptType DEF Commit, Apply
  <2>4. db'.ledger = AppendRow(db.ledger, request[p].intent, "attempted", 0)
    BY <2>1, <2>3 DEF Database
  <2>5. db.ledger \in Seq(Row) /\ Len(db.ledger) \in Nat
    BY LedgerType
  <2> DEFINE grown == AppendRow(db.ledger, request[p].intent, "attempted", 0)
  <2>6. /\ Len(grown) = Len(db.ledger) + 1
        /\ grown[Len(db.ledger) + 1].payload.intent = request[p].intent
        /\ grown[Len(db.ledger) + 1].payload.status = "attempted"
    <3>1. request[p].intent \in Intents
      BY <2>3
    <3>2. QED
      BY <2>5, <3>1, AttemptRow
  <2>7. db'.ledger = grown
    BY <2>4
  <2> HIDE DEF grown
  <2>8. attempt'[p] = Len(db'.ledger) /\ request'[p] = request[p]
    BY <1>2, <2>2 DEF Commit, TypeOK
  <2>9. QED
    BY <2>5, <2>6, <2>7, <2>8 DEF Recorded
<1>3. CASE ~Commit(p)
  <2>1. pc[p] = "calling" /\ attempt'[p] = attempt[p] /\ request'[p] = request[p]
    <3>1. CASE Tick \/ UNCHANGED vars
      BY <1>1, <3>1 DEF Tick, vars
    <3>2. ASSUME NEW q \in Procs, Ask(q) \/ Begin(q) \/ Answer(q)
          PROVE  pc[p] = "calling" /\ attempt'[p] = attempt[p] /\ request'[p] = request[p]
      <4>1. pc'[q] # "calling" /\ attempt' = attempt
        BY <3>2 DEF Ask, Begin, Answer, Goto, TypeOK
      <4>2. p # q
        BY <1>1, <4>1
      <4>3. QED
        BY <1>1, <3>2, <4>1, <4>2 DEF Ask, Begin, Answer, Goto, TypeOK
    <3>3. ASSUME NEW q \in Procs, Return(q)
          PROVE  pc[p] = "calling" /\ attempt'[p] = attempt[p] /\ request'[p] = request[p]
      BY <1>1, <3>3 DEF Return, Goto, TypeOK
    <3>4. ASSUME NEW q \in Procs, Commit(q), q # p
          PROVE  pc[p] = "calling" /\ attempt'[p] = attempt[p] /\ request'[p] = request[p]
      <4>1. CASE Return(q)
        BY <3>3, <4>1
      <4>2. CASE ~Return(q)
        BY <1>1, <3>4, <4>2 DEF Commit, Goto, TypeOK
      <4>3. QED
        BY <4>1, <4>2
    <3>5. QED
      BY <1>3, <3>1, <3>2, <3>3, <3>4 DEF Next, Busy, Rollback, Crash
  <2>2. Recorded(p)
    BY <2>1
  <2>3. QED
    BY <2>1, <2>2, AppendOnlyNext, LedgerType DEF Recorded
<1>4. QED
  BY <1>2, <1>3

\* Nothing is asked of the outside world before the attempt to ask it is on
\* disk, whoever else writes, fails or dies meanwhile.
THEOREM CallsAreRecordedFirst == Spec => []AttemptBeforeCall
<1> DEFINE AllRecorded == \A p \in Procs : pc[p] = "calling" => Recorded(p)
<1>1. Init => AllRecorded
  BY DEF Init
<1>2. TypeOK /\ Asking /\ Alone /\ AllRecorded /\ [Next]_vars => AllRecorded'
  BY RecordedNext
<1>3. TypeOK /\ AllRecorded => AttemptBeforeCall
  BY LedgerType DEF AttemptBeforeCall, Recorded, IsAttempt
<1> HIDE DEF AllRecorded
<1>4. QED
  BY <1>1, <1>2, <1>3, TypeInvariant, AloneInvariant, PTL DEF Spec

-----------------------------------------------------------------------------
(* The ledger implements the query log.                                    *)

\* What reconstruct_queries makes of one attempt.
StatusOf(ledger, seq) ==
  IF OutcomesOf(ledger, seq) = {}
    THEN "attempted"
    ELSE ledger[CHOOSE i \in OutcomesOf(ledger, seq) : TRUE].payload.status

QueryOf(ledger, seq) ==
  [intent |-> ledger[seq].payload.intent, status |-> StatusOf(ledger, seq)]

LEMMA Reconstructed ==
  ASSUME NEW ledger
  PROVE  /\ DOMAIN reconstruct_queries(ledger) = {s \in DOMAIN ledger : IsAttempt(ledger, s)}
         /\ reconstruct_queries(ledger) =
              [s \in {t \in DOMAIN ledger : IsAttempt(ledger, t)} |-> QueryOf(ledger, s)]
  BY DEF reconstruct_queries, QueryOf, StatusOf

LEMMA StatusWithout ==
  ASSUME NEW ledger, NEW seq, OutcomesOf(ledger, seq) = {}
  PROVE  StatusOf(ledger, seq) = "attempted"
  BY DEF StatusOf

LEMMA StatusWith ==
  ASSUME NEW ledger, NEW seq, NEW i, OutcomesOf(ledger, seq) = {i}
  PROVE  StatusOf(ledger, seq) = ledger[i].payload.status
<1>1. (CHOOSE j \in {i} : TRUE) = i
  OBVIOUS
<1>2. QED
  BY <1>1 DEF StatusOf

\* Rows of attempts refer to nothing.
AttemptsReferToNothing ==
  \A i \in DOMAIN db.ledger :
    db.ledger[i].payload.status = "attempted" => db.ledger[i].payload.ref_seq = 0

\* The old rows of a ledger that grew, and its new one.
LEMMA GrownLedger ==
  ASSUME TypeOK, Asking, Alone, [Next]_vars, db'.ledger # db.ledger
  PROVE  LET len == Len(db.ledger)
             row == db'.ledger[len + 1].payload
         IN  /\ len \in Nat
             /\ DOMAIN db.ledger = 1 .. len
             /\ DOMAIN db'.ledger = 1 .. len + 1
             /\ \A i \in 1 .. len : db'.ledger[i] = db.ledger[i]
             /\ row.intent \in Intents
             /\ \/ row.status = "attempted" /\ row.ref_seq = 0
                \/ /\ row.status \in Outcomes
                   /\ row.ref_seq \in 1 .. len
                   /\ IsUnresolved(db.ledger, row.ref_seq)
                   /\ db.ledger[row.ref_seq].payload.intent = row.intent
<1> DEFINE len == Len(db.ledger)
<1>1. PICK intent \in Intents, status \in {"attempted"} \cup Outcomes, ref_seq \in Nat :
         /\ db'.ledger = AppendRow(db.ledger, intent, status, ref_seq)
         /\ \/ status = "attempted" /\ ref_seq = 0
            \/ /\ status \in Outcomes
               /\ ref_seq \in 1 .. len
               /\ IsUnresolved(db.ledger, ref_seq)
               /\ db.ledger[ref_seq].payload.intent = intent
  BY LedgerGrows
<1>2. db.ledger \in Seq(Row) /\ DOMAIN db.ledger = 1 .. len /\ len \in Nat
  BY LedgerType
<1> DEFINE grown == AppendRow(db.ledger, intent, status, ref_seq)
<1>3. /\ grown \in Seq(Row)
      /\ Len(grown) = len + 1
      /\ \A i \in 1 .. len : grown[i] = db.ledger[i]
  BY <1>2, AppendRowType
<1>4. DOMAIN grown = 1 .. len + 1
  BY <1>2, <1>3
<1>5. /\ grown[len + 1].payload.intent = intent
      /\ grown[len + 1].payload.status = status
      /\ grown[len + 1].payload.ref_seq = ref_seq
  BY <1>2, AppendedRow
<1> HIDE DEF grown
<1>6. db'.ledger = grown
  BY <1>1 DEF grown
<1>7. QED
  BY <1>1, <1>2, <1>3, <1>4, <1>5, <1>6

LEMMA AttemptsReferNext ==
  ASSUME TypeOK, Asking, Alone, [Next]_vars, AttemptsReferToNothing
  PROVE  AttemptsReferToNothing'
<1>1. CASE db'.ledger = db.ledger
  BY <1>1 DEF AttemptsReferToNothing
<1>2. CASE db'.ledger # db.ledger
  <2> DEFINE len == Len(db.ledger)
             row == db'.ledger[len + 1].payload
  <2>1. /\ DOMAIN db.ledger = 1 .. len /\ DOMAIN db'.ledger = 1 .. len + 1 /\ len \in Nat
        /\ \A i \in 1 .. len : db'.ledger[i] = db.ledger[i]
        /\ row.status = "attempted" => row.ref_seq = 0
    BY <1>2, GrownLedger DEF Outcomes
  <2>2. SUFFICES ASSUME NEW i \in 1 .. len + 1, db'.ledger[i].payload.status = "attempted"
                 PROVE  db'.ledger[i].payload.ref_seq = 0
    BY <2>1 DEF AttemptsReferToNothing
  <2>3. CASE i = len + 1
    BY <2>1, <2>2, <2>3
  <2>4. CASE i \in 1 .. len
    BY <2>1, <2>2, <2>4 DEF AttemptsReferToNothing
  <2>5. QED
    BY <2>1, <2>2, <2>3, <2>4
<1>3. QED
  BY <1>1, <1>2

\* A query has no outcome row or one.
LEMMA OutcomesOfQuery ==
  ASSUME TypeOK, OneOutcome, AttemptsReferToNothing, NEW seq \in Nat \ {0}
  PROVE  \/ OutcomesOf(db.ledger, seq) = {}
         \/ \E i \in DOMAIN db.ledger : OutcomesOf(db.ledger, seq) = {i}
<1>1. ASSUME NEW i \in DOMAIN db.ledger, db.ledger[i].payload.ref_seq = seq
      PROVE  OutcomesOf(db.ledger, seq) = {i}
  BY <1>1 DEF OneOutcome, AttemptsReferToNothing
<1>2. QED
  BY <1>1 DEF OutcomesOf

\* What a new row leaves of the other queries.
LEMMA OtherQueries ==
  ASSUME TypeOK, Asking, Alone, [Next]_vars, db'.ledger # db.ledger,
         OneOutcome, AttemptsReferToNothing,
         NEW seq \in 1 .. Len(db.ledger), IsAttempt(db.ledger, seq),
         db'.ledger[Len(db.ledger) + 1].payload.ref_seq # seq
  PROVE  QueryOf(db'.ledger, seq) = QueryOf(db.ledger, seq)
<1>1. /\ DOMAIN db.ledger = 1 .. Len(db.ledger)
      /\ DOMAIN db'.ledger = 1 .. Len(db.ledger) + 1
      /\ Len(db.ledger) \in Nat
      /\ \A i \in 1 .. Len(db.ledger) : db'.ledger[i] = db.ledger[i]
  BY GrownLedger
<1>2. OutcomesOf(db'.ledger, seq) = OutcomesOf(db.ledger, seq)
  BY <1>1 DEF OutcomesOf
<1>3. CASE OutcomesOf(db.ledger, seq) = {}
  BY <1>1, <1>2, <1>3, StatusWithout DEF QueryOf
<1>4. ASSUME NEW i \in DOMAIN db.ledger, OutcomesOf(db.ledger, seq) = {i}
      PROVE  QueryOf(db'.ledger, seq) = QueryOf(db.ledger, seq)
  <2>1. db'.ledger[i] = db.ledger[i]
    BY <1>1
  <2>2. StatusOf(db.ledger, seq) = db.ledger[i].payload.status
    BY <1>4, StatusWith
  <2>3. StatusOf(db'.ledger, seq) = db'.ledger[i].payload.status
    BY <1>2, <1>4, StatusWith
  <2>4. QED
    BY <1>1, <2>1, <2>2, <2>3 DEF QueryOf
<1>5. seq \in Nat \ {0}
  BY <1>1
<1>6. QED
  BY <1>3, <1>4, <1>5, OutcomesOfQuery

\* A new attempt is an Attempt of the log.
LEMMA AttemptImplements ==
  ASSUME TypeOK, Asking, Alone, [Next]_vars, db'.ledger # db.ledger,
         OneOutcome, AttemptsReferToNothing,
         db'.ledger[Len(db.ledger) + 1].payload.status = "attempted"
  PROVE  Log!Attempt
<1> DEFINE len == Len(db.ledger)
           old == reconstruct_queries(db.ledger)
           new == reconstruct_queries(db'.ledger)
           seq == len + 1
           intent == db'.ledger[seq].payload.intent
           query == [intent |-> intent, status |-> "attempted"]
<1>1. /\ len \in Nat
      /\ DOMAIN db.ledger = 1 .. len
      /\ DOMAIN db'.ledger = 1 .. len + 1
      /\ \A i \in 1 .. len : db'.ledger[i] = db.ledger[i]
      /\ intent \in Intents
      /\ db'.ledger[seq].payload.ref_seq = 0
  BY GrownLedger DEF Outcomes
<1>2. DOMAIN old = {s \in 1 .. len : IsAttempt(db.ledger, s)}
  BY <1>1, Reconstructed
<1>3. DOMAIN new = DOMAIN old \cup {seq}
  <2>1. DOMAIN new = {s \in 1 .. len + 1 : IsAttempt(db'.ledger, s)}
    BY <1>1, Reconstructed
  <2>2. IsAttempt(db'.ledger, seq)
    BY <1>1 DEF IsAttempt
  <2>3. \A s \in 1 .. len : IsAttempt(db'.ledger, s) <=> IsAttempt(db.ledger, s)
    BY <1>1 DEF IsAttempt
  <2>4. \A s : s \in 1 .. len + 1 <=> s \in 1 .. len \/ s = seq
    BY <1>1
  <2>5. QED
    BY <1>2, <2>1, <2>2, <2>3, <2>4
<1>4. seq \notin DOMAIN old /\ \A s \in DOMAIN old : s < seq
  BY <1>1, <1>2
<1>5. QueryOf(db'.ledger, seq) = query
  <2>1. ASSUME NEW i \in DOMAIN db'.ledger, db'.ledger[i].payload.ref_seq = seq
        PROVE  FALSE
    <3>1. i \in 1 .. len
      BY <1>1, <2>1
    <3>2. db.ledger[i].payload.ref_seq = seq
      BY <1>1, <2>1, <3>1
    <3>3. db.ledger[i].payload.ref_seq \in 1 .. i - 1
      BY <1>1, <3>1, <3>2 DEF OneOutcome, AttemptsReferToNothing
    <3>4. QED
      BY <1>1, <3>1, <3>2, <3>3
  <2>2. OutcomesOf(db'.ledger, seq) = {}
    BY <2>1 DEF OutcomesOf
  <2>3. QED
    BY <2>2, StatusWithout DEF QueryOf
<1>6. new = [s \in DOMAIN old \cup {seq} |-> IF s = seq THEN query ELSE old[s]]
  <2>1. new = [s \in DOMAIN new |-> QueryOf(db'.ledger, s)]
    BY Reconstructed
  <2>2. ASSUME NEW s \in DOMAIN old
        PROVE  QueryOf(db'.ledger, s) = old[s]
    <3>1. s \in 1 .. len /\ IsAttempt(db.ledger, s)
      BY <1>2
    <3>2. db'.ledger[len + 1].payload.ref_seq # s
      BY <1>1, <3>1
    <3>3. QueryOf(db'.ledger, s) = QueryOf(db.ledger, s)
      BY <3>1, <3>2, OtherQueries
    <3>4. old[s] = QueryOf(db.ledger, s)
      BY Reconstructed
    <3>5. QED
      BY <3>3, <3>4
  <2> HIDE DEF old, new, seq, query
  <2>3. QED
    BY <1>3, <1>4, <1>5, <2>1, <2>2
<1>7. query = [intent |-> intent, status |-> "attempted"] /\ intent \in Intents
  BY <1>1
<1>8. old = reconstruct_queries(db.ledger) /\ new = reconstruct_queries(db.ledger)'
  OBVIOUS
<1> HIDE DEF old, new, seq, query, intent
<1>9. QED
  BY <1>3, <1>4, <1>6, <1>7, <1>8 DEF Log!Attempt, Log!Record

\* A new outcome is a Resolve of the log.
LEMMA OutcomeImplements ==
  ASSUME TypeOK, Asking, Alone, [Next]_vars, db'.ledger # db.ledger,
         OneOutcome, AttemptsReferToNothing,
         db'.ledger[Len(db.ledger) + 1].payload.status \in Outcomes
  PROVE  Log!Resolve
<1> DEFINE len == Len(db.ledger)
           old == reconstruct_queries(db.ledger)
           new == reconstruct_queries(db'.ledger)
           seq == db'.ledger[len + 1].payload.ref_seq
           outcome == db'.ledger[len + 1].payload.status
           query == [old[seq] EXCEPT !.status = outcome]
<1>1. /\ len \in Nat
      /\ DOMAIN db.ledger = 1 .. len
      /\ DOMAIN db'.ledger = 1 .. len + 1
      /\ \A i \in 1 .. len : db'.ledger[i] = db.ledger[i]
      /\ seq \in 1 .. len
      /\ IsUnresolved(db.ledger, seq)
  BY GrownLedger DEF Outcomes
<1>2. DOMAIN old = {s \in 1 .. len : IsAttempt(db.ledger, s)}
  BY <1>1, Reconstructed
<1>3. DOMAIN new = DOMAIN old
  <2>1. DOMAIN new = {s \in 1 .. len + 1 : IsAttempt(db'.ledger, s)}
    BY <1>1, Reconstructed
  <2>2. ~IsAttempt(db'.ledger, len + 1)
    BY DEF IsAttempt, Outcomes
  <2>3. \A s \in 1 .. len : IsAttempt(db'.ledger, s) <=> IsAttempt(db.ledger, s)
    BY <1>1 DEF IsAttempt
  <2>4. \A s : s \in 1 .. len + 1 <=> s \in 1 .. len \/ s = len + 1
    BY <1>1
  <2>5. QED
    BY <1>2, <2>1, <2>2, <2>3, <2>4
<1>4. seq \in DOMAIN old
  BY <1>1, <1>2 DEF IsUnresolved
<1>5. old[seq] = [intent |-> db.ledger[seq].payload.intent, status |-> "attempted"]
  <2>1. StatusOf(db.ledger, seq) = "attempted"
    BY <1>1, StatusWithout DEF IsUnresolved
  <2>2. old[seq] = QueryOf(db.ledger, seq)
    <3> HIDE DEF seq
    <3>1. QED
      BY <1>4, Reconstructed
  <2>3. QED
    BY <2>1, <2>2 DEF QueryOf
<1>6. QueryOf(db'.ledger, seq) = query
  <2>1. \A i \in 1 .. len : db'.ledger[i].payload.ref_seq # seq
    BY <1>1 DEF IsUnresolved, OutcomesOf
  <2>2. OutcomesOf(db'.ledger, seq) = {len + 1}
    BY <1>1, <2>1 DEF OutcomesOf
  <2>3. StatusOf(db'.ledger, seq) = outcome
    BY <2>2, StatusWith
  <2>4. db'.ledger[seq] = db.ledger[seq]
    BY <1>1
  <2>5. QueryOf(db'.ledger, seq) =
          [intent |-> db.ledger[seq].payload.intent, status |-> outcome]
    BY <2>3, <2>4 DEF QueryOf
  <2> HIDE DEF seq, outcome, old
  <2>6. QED
    BY <1>5, <2>5
<1>7. new = [s \in DOMAIN old \cup {seq} |-> IF s = seq THEN query ELSE old[s]]
  <2>1. new = [s \in DOMAIN new |-> QueryOf(db'.ledger, s)]
    BY Reconstructed
  <2>2. ASSUME NEW s \in DOMAIN old, s # seq
        PROVE  QueryOf(db'.ledger, s) = old[s]
    <3>1. s \in 1 .. len /\ IsAttempt(db.ledger, s)
      BY <1>2
    <3>2. QueryOf(db'.ledger, s) = QueryOf(db.ledger, s)
      BY <2>2, <3>1, OtherQueries
    <3>3. old[s] = QueryOf(db.ledger, s)
      BY Reconstructed
    <3>4. QED
      BY <3>2, <3>3
  <2>3. DOMAIN old \cup {seq} = DOMAIN old
    BY <1>4
  <2> HIDE DEF old, new, seq, query
  <2>4. QED
    BY <1>3, <1>6, <2>1, <2>2, <2>3
<1>8. old[seq].status = "attempted" /\ query = [old[seq] EXCEPT !.status = outcome]
  BY <1>5
<1>9. old = reconstruct_queries(db.ledger) /\ new = reconstruct_queries(db.ledger)'
  OBVIOUS
<1>10. outcome \in Log!Outcomes
  BY DEF Outcomes, Log!Outcomes
<1> HIDE DEF old, new, seq, query, outcome
<1>11. QED
  BY <1>4, <1>7, <1>8, <1>9, <1>10 DEF Log!Resolve, Log!Record

\* The ledger, read as its readers read it, is the query log it promises to be:
\* every query enters it before it is sent, keeps its place and its intent, and
\* is resolved once at most.
THEOREM LedgerImplementsQueryLog == Spec => ImplementsQueryLog
<1> DEFINE Inv == TypeOK /\ Asking /\ Alone /\ OneOutcome /\ AttemptsReferToNothing
<1>1. Spec => []AttemptsReferToNothing
  <2>1. Init => AttemptsReferToNothing
    BY DEF Init, EmptyDatabase, AttemptsReferToNothing
  <2>2. TypeOK /\ Asking /\ Alone /\ AttemptsReferToNothing /\ [Next]_vars => AttemptsReferToNothing'
    BY AttemptsReferNext
  <2>3. QED
    BY <2>1, <2>2, TypeInvariant, AloneInvariant, PTL DEF Spec
<1>2. Init => Log!Init
  <2>1. Init => DOMAIN db.ledger = {}
    BY DEF Init, EmptyDatabase
  <2>2. QED
    BY <2>1, Reconstructed DEF Log!Init
<1>3. Inv /\ [Next]_vars => [Log!Next]_(reconstruct_queries(db.ledger))
  <2>1. ASSUME Inv, [Next]_vars, db'.ledger = db.ledger
        PROVE  UNCHANGED reconstruct_queries(db.ledger)
    BY <2>1
  <2>2. ASSUME Inv, [Next]_vars, db'.ledger # db.ledger
        PROVE  Log!Next
    <3>1. \/ db'.ledger[Len(db.ledger) + 1].payload.status = "attempted"
          \/ db'.ledger[Len(db.ledger) + 1].payload.status \in Outcomes
      BY <2>2, GrownLedger
    <3>2. QED
      BY <2>2, <3>1, AttemptImplements, OutcomeImplements DEF Log!Next
  <2>3. QED
    BY <2>1, <2>2
<1>4. QED
  BY <1>1, <1>2, <1>3, TypeInvariant, AloneInvariant, EveryQueryHasOneOutcome, PTL
     DEF Spec, ImplementsQueryLog, Log!Spec

-----------------------------------------------------------------------------
(* Attempts without outcome.                                               *)

\* A process that made an attempt is calling, or asks for its outcome to be
\* recorded.
Holds(p) ==
  attempt[p] # 0 =>
    \/ pc[p] = "calling"
    \/ /\ pc[p] \in {"waiting", "writing"}
       /\ request[p].op = "outcome"
       /\ request[p].seq = attempt[p]

LEMMA HoldsNext ==
  ASSUME TypeOK, [Next]_vars, \A p \in Procs : Holds(p)
  PROVE  \A p \in Procs : Holds(p)'
<1>1. SUFFICES ASSUME NEW p \in Procs
               PROVE  Holds(p)'
  OBVIOUS
<1> USE DEF Holds, TypeOK, Goto
<1>2. CASE Tick \/ UNCHANGED vars
  BY <1>2 DEF Tick, vars
<1>3. ASSUME NEW q \in Procs, Return(q)
      PROVE  Holds(p)'
  BY <1>3 DEF Return
<1>4. ASSUME NEW q \in Procs, Ask(q) \/ Begin(q)
      PROVE  Holds(p)'
  BY <1>4 DEF Ask, Begin
<1>5. ASSUME NEW q \in Procs, Commit(q), ~Return(q)
      PROVE  Holds(p)'
  <2>1. CASE p = q
    <3>1. pc'[p] = "calling"
      BY <1>5, <2>1 DEF Commit
    <3>2. QED
      BY <3>1
  <2>2. CASE p # q
    BY <1>5, <2>2 DEF Commit
  <2>3. QED
    BY <2>1, <2>2
<1>6. ASSUME NEW q \in Procs, Answer(q)
      PROVE  Holds(p)'
  <2>1. PICK outcome \in Outcomes :
          request' = [request EXCEPT ![q] =
                        [op |-> "outcome", seq |-> attempt[q], status |-> outcome]]
    BY <1>6 DEF Answer
  <2>2. request'[q].op = "outcome" /\ request'[q].seq = attempt[q]
    BY <2>1
  <2>3. \A r \in Procs : r # q => request'[r] = request[r] /\ pc'[r] = pc[r]
    BY <1>6, <2>1 DEF Answer
  <2>4. attempt' = attempt /\ pc'[q] = "waiting"
    BY <1>6 DEF Answer
  <2>5. QED
    BY <2>2, <2>3, <2>4
<1>7. QED
  BY <1>2, <1>3, <1>4, <1>5, <1>6 DEF Next, Busy, Rollback, Crash

\* A row of the ledger that grew is unresolved only if it was before, or is new.
LEMMA UnresolvedBefore ==
  ASSUME TypeOK, Asking, Alone, [Next]_vars, NEW seq, IsUnresolved(db'.ledger, seq)
  PROVE  \/ IsUnresolved(db.ledger, seq)
         \/ db'.ledger # db.ledger /\ seq = Len(db'.ledger)
<1>1. CASE db'.ledger = db.ledger
  BY <1>1
<1>2. CASE db'.ledger # db.ledger
  <2>1. /\ DOMAIN db.ledger = 1 .. Len(db.ledger)
        /\ DOMAIN db'.ledger = 1 .. Len(db.ledger) + 1
        /\ Len(db.ledger) \in Nat
        /\ \A i \in 1 .. Len(db.ledger) : db'.ledger[i] = db.ledger[i]
    BY <1>2, GrownLedger
  <2>2. Len(db'.ledger) = Len(db.ledger) + 1
    <3>1. PICK intent \in Intents, status \in {"attempted"} \cup Outcomes, ref_seq \in Nat :
            db'.ledger = AppendRow(db.ledger, intent, status, ref_seq)
      BY <1>2, LedgerGrows
    <3>2. db.ledger \in Seq(Row)
      BY LedgerType
    <3>3. Len(AppendRow(db.ledger, intent, status, ref_seq)) = Len(db.ledger) + 1
      BY <3>2, AppendRowType
    <3>4. QED
      BY <3>1, <3>3
  <2>3. CASE seq \in 1 .. Len(db.ledger)
    <3>1. IsAttempt(db.ledger, seq)
      BY <2>1, <2>3 DEF IsUnresolved, IsAttempt
    <3>2. OutcomesOf(db.ledger, seq) \subseteq OutcomesOf(db'.ledger, seq)
      BY <2>1 DEF OutcomesOf
    <3>3. QED
      BY <3>1, <3>2 DEF IsUnresolved
  <2>4. CASE seq \notin 1 .. Len(db.ledger)
    BY <1>2, <2>1, <2>2, <2>4 DEF IsUnresolved, IsAttempt
  <2>5. QED
    BY <2>3, <2>4
<1>3. QED
  BY <1>1, <1>2

\* The process that commits an outcome for its own attempt resolves it.
LEMMA CommitResolves ==
  ASSUME TypeOK, Asking, Alone, NEW p \in Procs, Commit(p), request[p].op = "outcome"
  PROVE  ~IsUnresolved(db'.ledger, request[p].seq)
<1>1. view[p] = db /\ request[p] \in Requests /\ db \in Database
  BY DEF Commit, Alone, Asking, TypeOK
<1>2. MayResolve(db, request[p]) /\ db' = record_outcome(db, request[p])
  BY <1>1 DEF Commit, Accepts, Apply
<1>3. /\ db' = [db EXCEPT !.ledger = AppendRow(db.ledger, db.ledger[request[p].seq].payload.intent,
                                               request[p].status, request[p].seq)]
      /\ request[p].seq \in 1 .. Len(db.ledger)
      /\ db.ledger[request[p].seq].payload.intent \in Intents
      /\ request[p].status \in Outcomes
  BY <1>1, <1>2, OutcomeType
<1> DEFINE intent == db.ledger[request[p].seq].payload.intent
           grown == AppendRow(db.ledger, intent, request[p].status, request[p].seq)
<1>4. db'.ledger = grown
  BY <1>1, <1>3 DEF Database
<1>5. db.ledger \in Seq(Row) /\ Len(db.ledger) \in Nat
  BY LedgerType
<1>6. Len(db.ledger) + 1 \in OutcomesOf(grown, request[p].seq)
  <2> DEFINE seq == request[p].seq
             status == request[p].status
  <2>1. seq \in Nat /\ intent \in Intents /\ status \in Outcomes
    BY <1>3
  <2> HIDE DEF intent, seq, status
  <2>2. Len(db.ledger) + 1 \in OutcomesOf(AppendRow(db.ledger, intent, status, seq), seq)
    BY <1>5, <2>1, OutcomeRow
  <2>3. QED
    BY <2>2 DEF seq, status
<1> HIDE DEF grown
<1>7. QED
  BY <1>4, <1>6 DEF IsUnresolved

\* Why an attempt without outcome has none.
Explained(seq) ==
  \/ seq \in died \cup unrecorded
  \/ \E p \in Procs : attempt[p] = seq /\ pc[p] # "idle"

LEMMA ExplainedNext ==
  ASSUME TypeOK, Asking, Alone, [Next]_vars, \A p \in Procs : Holds(p),
         NEW seq \in Nat \ {0}, Explained(seq), IsUnresolved(db'.ledger, seq)
  PROVE  Explained(seq)'
<1> USE DEF Explained, TypeOK, Goto
<1>1. CASE Tick \/ UNCHANGED vars
  BY <1>1 DEF Tick, vars, observed
<1>2. ASSUME NEW p \in Procs, Ask(p)
      PROVE  Explained(seq)'
  BY <1>2 DEF Ask, observed
<1>3. ASSUME NEW p \in Procs, Begin(p) \/ Answer(p)
      PROVE  Explained(seq)'
  BY <1>3 DEF Begin, Answer, observed
<1>4. ASSUME NEW p \in Procs, Return(p), UNCHANGED died, unrecorded' = unrecorded \cup Resolving(p),
             pc[p] \in {"waiting", "writing"}
      PROVE  Explained(seq)'
  <2>1. CASE attempt[p] = seq
    <3>1. request[p].op = "outcome"
      BY <1>4, <2>1 DEF Holds
    <3>2. seq \in Resolving(p)
      BY <2>1, <3>1 DEF Resolving
    <3>3. QED
      BY <1>4, <3>2
  <2>2. CASE attempt[p] # seq
    BY <1>4, <2>2 DEF Return
  <2>3. QED
    BY <2>1, <2>2
<1>5. ASSUME NEW p \in Procs, Crash(p)
      PROVE  Explained(seq)'
  <2>1. CASE attempt[p] = seq
    BY <1>5, <2>1 DEF Crash
  <2>2. CASE attempt[p] # seq
    BY <1>5, <2>2 DEF Crash, Return
  <2>3. QED
    BY <2>1, <2>2
<1>6. ASSUME NEW p \in Procs, Commit(p)
      PROVE  Explained(seq)'
  <2>1. UNCHANGED <<died, unrecorded>>
    BY <1>6 DEF Commit, observed
  <2>2. CASE attempt[p] = seq
    <3>1. pc[p] = "writing" /\ request[p].op = "outcome" /\ request[p].seq = seq
      BY <1>6, <2>2 DEF Commit, Holds
    <3>2. ~IsUnresolved(db'.ledger, seq)
      BY <1>6, <3>1, CommitResolves
    <3>3. QED
      BY <3>2
  <2>3. CASE attempt[p] # seq
    <3>1. \A q \in Procs : q # p => attempt'[q] = attempt[q] /\ pc'[q] = pc[q]
      BY <1>6 DEF Commit, Return
    <3>2. QED
      BY <2>1, <2>3, <3>1
  <2>4. QED
    BY <2>2, <2>3
<1>7. QED
  BY <1>1, <1>2, <1>3, <1>4, <1>5, <1>6 DEF Next, Busy, Rollback

\* The attempt that enters the ledger belongs to the process that recorded it.
LEMMA NewAttemptHeld ==
  ASSUME TypeOK, Asking, Alone, [Next]_vars, db'.ledger # db.ledger,
         NEW new, new = Len(db'.ledger), IsUnresolved(db'.ledger, new)
  PROVE  Explained(new)'
<1>1. PICK p \in Procs : Commit(p)
  BY DEF Next, Tick, vars, Ask, Begin, Busy, Rollback, Answer, Crash
<1>2. view[p] = db /\ request[p] \in Requests /\ db \in Database
  BY <1>1 DEF Commit, Alone, Asking, TypeOK
<1>3. CASE request[p].op = "attempt"
  <2>1. attempt'[p] = new /\ pc'[p] = "calling"
    BY <1>1, <1>3 DEF Commit, Goto, TypeOK
  <2>2. QED
    BY <2>1 DEF Explained
<1>4. CASE request[p].op = "outcome"
  <2>1. MayResolve(db, request[p]) /\ db' = record_outcome(db, request[p])
    BY <1>1, <1>2, <1>4 DEF Commit, Accepts, Apply
  <2>2. /\ db' = [db EXCEPT !.ledger = AppendRow(db.ledger, db.ledger[request[p].seq].payload.intent,
                                                 request[p].status, request[p].seq)]
        /\ request[p].seq \in 1 .. Len(db.ledger)
        /\ db.ledger[request[p].seq].payload.intent \in Intents
        /\ request[p].status \in Outcomes
    BY <1>2, <1>4, <2>1, OutcomeType
  <2> DEFINE intent == db.ledger[request[p].seq].payload.intent
             grown == AppendRow(db.ledger, intent, request[p].status, request[p].seq)
  <2>3. db'.ledger = grown
    BY <1>2, <2>2 DEF Database
  <2>4. Len(grown) = Len(db.ledger) + 1 /\ grown[Len(db.ledger) + 1].payload.status \in Outcomes
    <3> DEFINE seq == request[p].seq
               status == request[p].status
    <3>1. /\ seq \in Nat /\ intent \in Intents /\ status \in Outcomes
          /\ db.ledger \in Seq(Row)
      BY <2>2, LedgerType
    <3> HIDE DEF intent, seq, status
    <3>2. /\ Len(AppendRow(db.ledger, intent, status, seq)) = Len(db.ledger) + 1
          /\ AppendRow(db.ledger, intent, status, seq)[Len(db.ledger) + 1].payload.status = status
      BY <3>1, OutcomeRow
    <3>3. QED
      BY <3>1, <3>2 DEF seq, status
  <2> HIDE DEF grown
  <2>5. ~IsAttempt(db'.ledger, new)
    BY <2>3, <2>4 DEF IsAttempt, Outcomes
  <2>6. QED
    BY <2>5 DEF IsUnresolved
<1>5. CASE request[p].op \notin {"attempt", "outcome"}
  BY <1>1, <1>2, <1>5 DEF Commit, Apply, Database, Requests, open_incident,
     close_incident, reserve_budget
<1>6. QED
  BY <1>3, <1>4, <1>5

\* An attempt without outcome is a call under way, or one whose process died,
\* or one whose outcome the store could not take: there is no fourth way to
\* leave a query open.
THEOREM EveryOpenQueryIsExplained == Spec => []UnresolvedExplained
<1> DEFINE AllHold == \A p \in Procs : Holds(p)
<1>1. Init => AllHold /\ UnresolvedExplained
  BY DEF Init, EmptyDatabase, Holds, UnresolvedExplained
<1>2. TypeOK /\ AllHold /\ [Next]_vars => AllHold'
  BY HoldsNext
<1>3. TypeOK /\ Asking /\ Alone /\ AllHold /\ UnresolvedExplained /\ [Next]_vars => UnresolvedExplained'
  <2>1. SUFFICES ASSUME TypeOK, Asking, Alone, AllHold, UnresolvedExplained, [Next]_vars,
                        NEW seq \in DOMAIN db'.ledger, IsUnresolved(db'.ledger, seq)
                 PROVE  Explained(seq)'
    BY DEF UnresolvedExplained, Explained
  <2>2. CASE IsUnresolved(db.ledger, seq)
    <3>1. seq \in DOMAIN db.ledger
      BY <2>2 DEF IsUnresolved, IsAttempt
    <3>2. seq \in Nat \ {0}
      BY <2>1, <3>1, LedgerType
    <3>3. Explained(seq)
      BY <2>1, <2>2, <3>1 DEF UnresolvedExplained, Explained
    <3>4. QED
      BY <2>1, <3>2, <3>3, ExplainedNext
  <2>3. CASE db'.ledger # db.ledger /\ seq = Len(db'.ledger)
    BY <2>1, <2>3, NewAttemptHeld
  <2>4. QED
    BY <2>1, <2>2, <2>3, UnresolvedBefore
<1> HIDE DEF AllHold
<1>4. QED
  BY <1>1, <1>2, <1>3, TypeInvariant, AloneInvariant, PTL DEF Spec
=============================================================================

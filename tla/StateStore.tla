----------------------------- MODULE StateStore -----------------------------
(***************************************************************************)
(* The agent's persistent memory (src/os_system_agent/state/store.py and   *)
(* schema.sql): incidents, the daily model budget and the audit ledger in  *)
(* one SQLite database that several processes write.                       *)
(*                                                                         *)
(* A writer first builds its request, timestamp included, then opens a     *)
(* BEGIN IMMEDIATE transaction, reads the committed database (its view),   *)
(* and installs the database its request makes of that view, or rolls back.*)
(* audited_call is two such requests with the call between them.           *)
(*                                                                         *)
(* A row's hash is modelled by what a collision-free hash tells apart: the *)
(* sequence of everything hashed so far.                                   *)
(***************************************************************************)
EXTENDS Integers, Sequences

CONSTANTS
  Procs,         \* processes with a connection of their own
  Intents,       \* what an audited query may be about
  Jobs,          \* (empresa, job_id) pairs an incident may be about
  Days,          \* business days of the model budget
  Caps,          \* daily caps callers may pass, in cents
  Estimates,     \* costs callers may reserve, in cents
  MaxRows,       \* bound: rows of the ledger
  MaxIncidents,  \* bound: rows of the incident table
  MaxTime        \* bound: the clock stops here

ASSUME StoreAssumption ==
  /\ Caps \subseteq Nat
  /\ Estimates \subseteq Nat
  /\ MaxRows \in Nat
  /\ MaxIncidents \in Nat
  /\ MaxTime \in Nat

VARIABLES
  now,         \* the wall clock
  db,          \* the committed database
  writer,      \* {} or the process inside BEGIN IMMEDIATE
  view,        \* the database as that process read it
  pc,          \* idle, waiting for the write lock, writing, or calling
  request,     \* what each process asks of the store
  attempt,     \* the attempt of each process's audited call, 0 for none
  \* What follows is observed by the properties only.
  died,        \* attempts whose process died before their outcome was written
  unrecorded   \* attempts whose outcome could not be written

observed == <<died, unrecorded>>
vars == <<now, db, writer, view, pc, request, attempt, observed>>

-----------------------------------------------------------------------------
(* Rows and requests.                                                      *)

Outcomes == {"success", "failure"}

\* What the hash of a ledger row covers.  ref_seq is 0 where the code has NULL.
Payload == [seq : Nat, intent : Intents, status : {"attempted"} \cup Outcomes, ref_seq : Nat]

Row == [payload : Payload, prev_hash : Seq(Payload), row_hash : Seq(Payload)]

\* closed_at is {} where the code has NULL.
Incident == [job : Jobs, opened_at : Nat, closed_at : SUBSET Nat]

Database == [ledger : Seq(Row), incidents : Seq(Incident), spent : [Days -> Nat]]

\* A new file, the schema applied.
EmptyDatabase == [ledger |-> <<>>, incidents |-> <<>>, spent |-> [day \in Days |-> 0]]

Requests ==
       [op : {"attempt"}, intent : Intents]
  \cup [op : {"outcome"}, seq : Nat, status : Outcomes]
  \cup [op : {"open", "close"}, job : Jobs, ts : Nat]
  \cup [op : {"reserve"}, day : Days, cap : Caps, estimate : Estimates]

NoRequest == [op |-> "none"]

IsOpen(incident) == incident.closed_at = {}

-----------------------------------------------------------------------------
(* The ledger.                                                             *)

GENESIS_HASH == <<>>

chain_hash(payload, prev_hash) == Append(prev_hash, payload)

\* A bug: every row is chained to the first one's predecessor.
Head_hashConstant(ledger) == GENESIS_HASH

Head_hash(ledger) ==
  IF ledger = <<>> THEN GENESIS_HASH ELSE ledger[Len(ledger)].row_hash

\* _append_ledger: one row chained to the last one.
AppendRow(ledger, intent, status, ref_seq) ==
  LET prev == Head_hash(ledger)
      payload == [seq |-> Len(ledger) + 1, intent |-> intent,
                  status |-> status, ref_seq |-> ref_seq]
  IN  Append(ledger, [payload |-> payload, prev_hash |-> prev,
                      row_hash |-> chain_hash(payload, prev)])

IsAttempt(ledger, seq) ==
  seq \in DOMAIN ledger /\ ledger[seq].payload.status = "attempted"

\* The rows that hold the outcome of attempt seq.
OutcomesOf(ledger, seq) == {i \in DOMAIN ledger : ledger[i].payload.ref_seq = seq}

IsUnresolved(ledger, seq) == IsAttempt(ledger, seq) /\ OutcomesOf(ledger, seq) = {}

\* verify_chain: no gap, every row chained to the row before it, every hash right.
verify_chain(ledger) ==
  \A i \in DOMAIN ledger :
    LET row == ledger[i]
    IN  /\ row.payload.seq = i
        /\ row.prev_hash = IF i = 1 THEN GENESIS_HASH ELSE ledger[i - 1].row_hash
        /\ row.row_hash = chain_hash(row.payload, row.prev_hash)

\* reconstruct_queries: every attempt joined to its outcome, by sequence number.
reconstruct_queries(ledger) ==
  [seq \in {s \in DOMAIN ledger : IsAttempt(ledger, s)} |->
     [intent |-> ledger[seq].payload.intent,
      status |-> IF OutcomesOf(ledger, seq) = {}
                   THEN "attempted"
                   ELSE ledger[CHOOSE i \in OutcomesOf(ledger, seq) : TRUE].payload.status]]

-----------------------------------------------------------------------------
(* What each request makes of the database, and when it is refused.        *)

record_attempt(d, r) ==
  [d EXCEPT !.ledger = AppendRow(@, r.intent, "attempted", 0)]

\* record_outcome refuses what is not an attempt, and a second outcome.
MayResolve(d, r) == IsUnresolved(d.ledger, r.seq)

record_outcome(d, r) ==
  [d EXCEPT !.ledger = AppendRow(@, d.ledger[r.seq].payload.intent, r.status, r.seq)]

OpenAt(d, job) == {i \in DOMAIN d.incidents : d.incidents[i].job = job /\ IsOpen(d.incidents[i])}

\* A bug: the insertion does not look for an open incident.
open_incidentAlways(d, r) ==
  [d EXCEPT !.incidents = Append(@, [job |-> r.job, opened_at |-> r.ts, closed_at |-> {}])]

\* open_incident leaves an incident that is already open as it is.
open_incident(d, r) ==
  IF OpenAt(d, r.job) # {}
    THEN d
    ELSE [d EXCEPT !.incidents =
            Append(@, [job |-> r.job, opened_at |-> r.ts, closed_at |-> {}])]

close_incident(d, r) ==
  [d EXCEPT !.incidents =
     [i \in DOMAIN @ |-> IF i \in OpenAt(d, r.job)
                           THEN [@[i] EXCEPT !.closed_at = {r.ts}] ELSE @[i]]]

\* A bug: the call to come is not part of what is compared with the cap.
MayReserveOnceMore(d, r) == d.spent[r.day] < r.cap

\* reserve_budget raises BudgetExhausted instead of spending beyond the cap.
MayReserve(d, r) == d.spent[r.day] + r.estimate <= r.cap

reserve_budget(d, r) == [d EXCEPT !.spent[r.day] = @ + r.estimate]

Accepts(d, r) ==
  CASE r.op = "outcome" -> MayResolve(d, r)
    [] r.op = "reserve" -> MayReserve(d, r)
    [] OTHER -> TRUE

Apply(d, r) ==
  CASE r.op = "attempt" -> record_attempt(d, r)
    [] r.op = "outcome" -> record_outcome(d, r)
    [] r.op = "open"    -> open_incident(d, r)
    [] r.op = "close"   -> close_incident(d, r)
    [] r.op = "reserve" -> reserve_budget(d, r)

-----------------------------------------------------------------------------
(* The processes.                                                          *)

Goto(p, step) == pc' = [pc EXCEPT ![p] = step]

\* Requests a caller may make now, the bounds of the tables permitting.
Offered ==
       [op : {"attempt"}, intent : Intents]
  \cup [op : {"outcome"}, seq : DOMAIN db.ledger, status : Outcomes]
  \cup [op : {"open", "close"}, job : Jobs, ts : {now}]
  \cup [op : {"reserve"}, day : Days, cap : Caps, estimate : Estimates]

\* A process calls a writer of the store.  The request, its timestamp included,
\* is complete before the transaction begins.  An attempt is the first half of
\* audited_call; an outcome may be recorded by anyone who knows the attempt.
Ask(p) ==
  /\ pc[p] = "idle"
  /\ \E r \in Offered : request' = [request EXCEPT ![p] = r]
  /\ Goto(p, "waiting")
  /\ UNCHANGED <<now, db, writer, view, attempt, observed>>

\* A bug: a deferred transaction reads before it has the write lock.
BeginDeferred(p) ==
  /\ pc[p] = "waiting"
  /\ writer' = {p}
  /\ view' = [view EXCEPT ![p] = db]
  /\ Goto(p, "writing")
  /\ UNCHANGED <<now, db, request, attempt, observed>>

\* BEGIN IMMEDIATE, and the reads of the transaction.
Begin(p) ==
  /\ pc[p] = "waiting"
  /\ writer = {}
  /\ writer' = {p}
  /\ view' = [view EXCEPT ![p] = db]
  /\ Goto(p, "writing")
  /\ UNCHANGED <<now, db, request, attempt, observed>>

\* The attempt whose outcome process p is about to record for its own call.
Resolving(p) == IF request[p].op = "outcome" THEN {attempt[p]} \ {0} ELSE {}

Return(p) ==
  /\ Goto(p, "idle")
  /\ request' = [request EXCEPT ![p] = NoRequest]
  /\ attempt' = [attempt EXCEPT ![p] = 0]

\* BUSY_TIMEOUT_SECONDS go by behind another writer: the error reaches the
\* caller, who does not make the call, or has made it and cannot say so.
Busy(p) ==
  /\ pc[p] = "waiting"
  /\ writer # {}
  /\ Return(p)
  /\ unrecorded' = unrecorded \cup Resolving(p)
  /\ UNCHANGED <<now, db, writer, view, died>>

\* COMMIT.  After the attempt of an audited call comes the call itself.
Commit(p) ==
  /\ pc[p] = "writing"
  /\ Accepts(view[p], request[p])
  /\ db' = Apply(view[p], request[p])
  /\ Len(db'.ledger) <= MaxRows /\ Len(db'.incidents) <= MaxIncidents
  /\ writer' = {}
  /\ view' = [view EXCEPT ![p] = EmptyDatabase]
  /\ IF request[p].op = "attempt"
       THEN /\ Goto(p, "calling")
            /\ attempt' = [attempt EXCEPT ![p] = Len(db'.ledger)]
            /\ UNCHANGED request
       ELSE Return(p)
  /\ UNCHANGED <<now, observed>>

\* ROLLBACK: the store refuses the request, or the engine fails the write.
Rollback(p) ==
  /\ pc[p] = "writing"
  /\ writer' = {}
  /\ view' = [view EXCEPT ![p] = EmptyDatabase]
  /\ Return(p)
  /\ unrecorded' = unrecorded \cup Resolving(p)
  /\ UNCHANGED <<now, db, died>>

\* A bug: only a call that returns is given an outcome.
AnswerSuccess(p) ==
  /\ pc[p] = "calling"
  /\ \/ /\ request' = [request EXCEPT ![p] =
                         [op |-> "outcome", seq |-> attempt[p], status |-> "success"]]
        /\ Goto(p, "waiting")
        /\ UNCHANGED attempt
     \/ Return(p)
  /\ UNCHANGED <<now, db, writer, view, observed>>

\* The body of audited_call returns or raises: its outcome is to be recorded.
Answer(p) ==
  /\ pc[p] = "calling"
  /\ \E outcome \in Outcomes :
        request' = [request EXCEPT ![p] =
                      [op |-> "outcome", seq |-> attempt[p], status |-> outcome]]
  /\ Goto(p, "waiting")
  /\ UNCHANGED <<now, db, writer, view, attempt, observed>>

\* The process dies; SQLite drops its transaction.
Crash(p) ==
  /\ pc[p] # "idle"
  /\ writer' = writer \ {p}
  /\ view' = [view EXCEPT ![p] = EmptyDatabase]
  /\ Return(p)
  /\ died' = died \cup ({attempt[p]} \ {0})
  /\ UNCHANGED <<now, db, unrecorded>>

Tick ==
  /\ now < MaxTime
  /\ now' = now + 1
  /\ UNCHANGED <<db, writer, view, pc, request, attempt, observed>>

Init ==
  /\ now = 0
  /\ db = EmptyDatabase
  /\ writer = {}
  /\ view = [p \in Procs |-> EmptyDatabase]
  /\ pc = [p \in Procs |-> "idle"]
  /\ request = [p \in Procs |-> NoRequest]
  /\ attempt = [p \in Procs |-> 0]
  /\ died = {}
  /\ unrecorded = {}

Next ==
  \/ Tick
  \/ \E p \in Procs :
       \/ Ask(p) \/ Begin(p) \/ Busy(p) \/ Commit(p) \/ Rollback(p)
       \/ Answer(p) \/ Crash(p)

Spec == Init /\ [][Next]_vars

-----------------------------------------------------------------------------
(* Properties.                                                             *)

\* The types of the tables, of the transactions and of the requests.
TypeOK ==
  /\ now \in Nat
  /\ db \in Database
  /\ writer \subseteq Procs
  /\ view \in [Procs -> Database]
  /\ pc \in [Procs -> {"idle", "waiting", "writing", "calling"}]
  /\ request \in [Procs -> Requests \cup {NoRequest}]
  /\ attempt \in [Procs -> Nat]
  /\ died \subseteq Nat \ {0}
  /\ unrecorded \subseteq Nat \ {0}

\* Every change of the database is one request applied to all of the database
\* that was there: no writer works on a head, a spend or an incident that
\* another one has changed meanwhile (the reason of BEGIN IMMEDIATE).
Serial ==
  [][\E p \in Procs : /\ pc[p] = "writing"
                      /\ Accepts(db, request[p])
                      /\ db' = Apply(db, request[p])]_db

\* The ledger the program writes always passes its own verification.
ChainVerifies == verify_chain(db.ledger)

\* An outcome row refers to an attempt before it, about the same intent, and
\* no attempt has two: one history for every query.
OneOutcome ==
  \A i \in DOMAIN db.ledger :
    LET row == db.ledger[i].payload
    IN  row.status # "attempted" =>
          /\ row.ref_seq \in 1 .. i - 1
          /\ IsAttempt(db.ledger, row.ref_seq)
          /\ db.ledger[row.ref_seq].payload.intent = row.intent
          /\ OutcomesOf(db.ledger, row.ref_seq) = {i}

\* While a call is under way, its attempt is on disk and says what it asks.
AttemptBeforeCall ==
  \A p \in Procs : pc[p] = "calling" =>
    /\ IsAttempt(db.ledger, attempt[p])
    /\ db.ledger[attempt[p]].payload.intent = request[p].intent

\* An attempt without outcome is a call under way, or one whose process died,
\* or one whose outcome the store could not take.
UnresolvedExplained ==
  \A seq \in DOMAIN db.ledger :
    IsUnresolved(db.ledger, seq) =>
      \/ seq \in died \cup unrecorded
      \/ \E p \in Procs : attempt[p] = seq /\ pc[p] # "idle"

\* No day is charged beyond the highest cap any caller passed.
WithinCap == \A day \in Days : db.spent[day] > 0 => \E cap \in Caps : db.spent[day] <= cap

\* A job has one open incident at most.
OneOpenIncident ==
  \A i, j \in DOMAIN db.incidents :
    /\ IsOpen(db.incidents[i]) /\ IsOpen(db.incidents[j])
    /\ db.incidents[i].job = db.incidents[j].job
    => i = j

\* Ledger rows are never changed nor removed.
AppendOnly ==
  [][/\ Len(db.ledger) <= Len(db'.ledger)
     /\ \A i \in DOMAIN db.ledger : db'.ledger[i] = db.ledger[i]]_db

\* "Broken since" never restarts, and the history of a closed incident is final.
HistoryKept ==
  [][\A i \in DOMAIN db.incidents :
       /\ i \in DOMAIN db'.incidents
       /\ db'.incidents[i].opened_at = db.incidents[i].opened_at
       /\ ~IsOpen(db.incidents[i]) => db'.incidents[i] = db.incidents[i]]_db

\* The ledger, read through reconstruct_queries, is the log it promises to be.
Log == INSTANCE QueryLog WITH queries <- reconstruct_queries(db.ledger)

ImplementsQueryLog == Log!Spec

\* What schema.sql says of an attempt without outcome: the call died mid-flight.
UnresolvedDied ==
  \A seq \in DOMAIN db.ledger :
    IsUnresolved(db.ledger, seq) =>
      \/ seq \in died
      \/ \E p \in Procs : attempt[p] = seq /\ pc[p] # "idle"

=============================================================================

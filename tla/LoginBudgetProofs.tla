------------------------- MODULE LoginBudgetProofs -------------------------
(***************************************************************************)
(* Theorems about LoginBudget, for every number of processes, every limit, *)
(* window and staleness, and any number of crashes.                        *)
(*                                                                         *)
(* The argument for each is the same.  Until a live process is robbed of   *)
(* its lock file, being in the guard and owning the lock file go together  *)
(* (Owned), so at most one process is in the guard and nobody else touches *)
(* the budget file between its read and its write.                         *)
(***************************************************************************)
EXTENDS LoginBudget, TLAPS

USE BudgetAssumption

-----------------------------------------------------------------------------
(* Types.                                                                  *)

LEMMA TypeInit == Init => TypeOK
<1> SUFFICES ASSUME Init
             PROVE  TypeOK
  OBVIOUS
<1>1. budgetFile \in BudgetFile
  BY DEF Init, BudgetFile, Window, EmptyWindow
<1>2. pc \in [Procs -> Steps] /\ draft \in [Procs -> Window]
  BY DEF Init, Steps, Window, EmptyWindow
<1>3. lockFile = {} /\ portalFails \in Seq(Nat)
  BY DEF Init
<1>4. QED
  BY <1>1, <1>2, <1>3 DEF Init, TypeOK

LEMMA SnapshotType == TypeOK => Snapshot \in Window
  BY DEF TypeOK, Snapshot, FreshWindow, BudgetFile, Window

LEMMA CountedType ==
  \A w \in Window : [w EXCEPT !.failures = @ + 1] \in Window
  BY DEF Window

LEMMA TypeNext == TypeOK /\ [Next]_vars => TypeOK'
<1> SUFFICES ASSUME TypeOK, [Next]_vars
             PROVE  TypeOK'
  OBVIOUS
<1> USE DEF TypeOK, LockFile, BudgetFile, Window, Steps, GuardSteps, Goto, files,
            ghosts, EmptyWindow
<1>1. CASE Tick
  BY <1>1 DEF Tick
<1>2. ASSUME NEW p \in Procs, Crash(p)
      PROVE  TypeOK'
  <2>1. portalFails' = portalFails \/ portalFails' = Append(portalFails, now)
    BY <1>2 DEF Crash
  <2>2. Append(portalFails, now) \in Seq(Nat)
    OBVIOUS
  <2>3. portalFails' \in Seq(Nat)
    BY <2>1, <2>2
  <2>4. QED
    BY <1>2, <2>3 DEF Crash
<1>3. ASSUME NEW p \in Procs, Run(p)
      PROVE  TypeOK'
  <2>1. CASE TryCreate(p)
    <3>1. NewLock(p) \in SUBSET LockFile /\ \A f, g \in NewLock(p) : f = g
      BY DEF NewLock
    <3>2. lockFile' = lockFile \/ lockFile' = NewLock(p)
      BY <2>1 DEF TryCreate
    <3>3. pc' \in [Procs -> Steps]
      BY <2>1 DEF TryCreate
    <3>4. QED
      BY <2>1, <3>1, <3>2, <3>3 DEF TryCreate
  <2>2. CASE ExamineLock(p)
    BY <2>2 DEF ExamineLock
  <2>3. CASE UnlinkStale(p)
    BY <2>3 DEF UnlinkStale, Robs
  <2>4. CASE RecreateLock(p)
    <3>1. NewLock(p) \in SUBSET LockFile /\ \A f, g \in NewLock(p) : f = g
      BY DEF NewLock
    <3>2. lockFile' = lockFile \/ lockFile' = NewLock(p)
      BY <2>4 DEF RecreateLock
    <3>3. pc' \in [Procs -> Steps]
      BY <2>4 DEF RecreateLock
    <3>4. QED
      BY <2>4, <3>1, <3>2, <3>3 DEF RecreateLock
  <2>5. CASE Preflight(p)
    BY <2>5 DEF Preflight
  <2>6. CASE ReadBudget(p)
    <3>1. [Snapshot EXCEPT !.failures = @ + 1] \in Window
      BY SnapshotType, CountedType
    <3>2. draft' \in [Procs -> Window]
      BY <2>6, <3>1 DEF ReadBudget
    <3>3. pc' \in [Procs -> Steps]
      BY <2>6 DEF ReadBudget
    <3>4. QED
      BY <2>6, <3>2, <3>3 DEF ReadBudget
  <2>7. CASE WriteReservation(p)
    BY <2>7 DEF WriteReservation, Written
  <2>8. CASE SendLogin(p)
    BY <2>8 DEF SendLogin
  <2>9. CASE LoginRejected(p)
    BY <2>9 DEF LoginRejected
  <2>10. CASE LoginRateLimited(p)
    BY <2>10 DEF LoginRateLimited
  <2>11. CASE RecordRateLimited(p)
    BY <2>11 DEF RecordRateLimited, Written
  <2>12. CASE LoginAccepted(p)
    BY <2>12 DEF LoginAccepted
  <2>13. CASE RecordSuccess(p)
    BY <2>13 DEF RecordSuccess, Written, FreshWindow
  <2>14. CASE WriteFails(p)
    BY <2>14 DEF WriteFails
  <2>15. CASE Release(p)
    BY <2>15 DEF Release, Robs
  <2>16. QED
    BY <1>3, <2>1, <2>2, <2>3, <2>4, <2>5, <2>6, <2>7, <2>8, <2>9, <2>10, <2>11,
       <2>12, <2>13, <2>14, <2>15 DEF Run
<1>4. CASE UNCHANGED vars
  BY <1>4 DEF vars
<1>5. QED
  BY <1>1, <1>2, <1>3, <1>4 DEF Next

\* Every variable keeps its type: the files always hold what the code can read.
THEOREM TypeCorrect == Spec => []TypeOK
  BY TypeInit, TypeNext, PTL DEF Spec

-----------------------------------------------------------------------------
(* Single flight.                                                          *)

\* The lock file is one, so two processes that own it are the same.
LEMMA OwnerIsAlone == TypeOK /\ Owned => MutualExclusion
  BY DEF TypeOK, LockFile, Owned, MutualExclusion

\* Every step of process p but the six that reach the portal or the budget
\* file: it moves p, away from the steps that hold or use a reservation.
Quiet(p) ==
  /\ UNCHANGED <<now, budgetFile, portalFails, spent, limitedAt>>
  /\ \A q \in Procs : q # p => draft'[q] = draft[q]
  /\ \E step \in Steps \ {"drafted", "reserved", "sent", "accepted"} :
        Goto(p, step) /\ (step = "limited" => pc[p] = "sent")

\* The portal fails the login of p, which may or may not live to see it.
Failed(p) ==
  /\ pc[p] = "sent"
  /\ portalFails' = Append(portalFails, now)
  /\ UNCHANGED <<now, budgetFile, spent, limitedAt>>
  /\ \A q \in Procs : q # p => draft'[q] = draft[q]
  /\ \E step \in {"idle", "leaving"} : Goto(p, step)

\* The steps that the proofs below tell apart.
LEMMA StepKinds ==
  ASSUME TypeOK, NEW p \in Procs, Run(p) \/ Crash(p)
  PROVE  \/ Quiet(p) \/ Failed(p) \/ ReadBudget(p) \/ WriteReservation(p)
         \/ SendLogin(p) \/ RecordRateLimited(p) \/ LoginAccepted(p) \/ RecordSuccess(p)
<1> USE DEF Quiet, files, ghosts, Steps, GuardSteps
<1>1. CASE TryCreate(p)
  BY <1>1 DEF TryCreate
<1>2. CASE ExamineLock(p)
  BY <1>2 DEF ExamineLock
<1>3. CASE UnlinkStale(p)
  BY <1>3 DEF UnlinkStale
<1>4. CASE RecreateLock(p)
  BY <1>4 DEF RecreateLock
<1>5. CASE Preflight(p)
  BY <1>5 DEF Preflight
<1>6. CASE LoginRateLimited(p)
  BY <1>6 DEF LoginRateLimited
<1>7. CASE WriteFails(p)
  BY <1>7 DEF WriteFails, TypeOK
<1>8. CASE Release(p)
  BY <1>8 DEF Release
<1>9. CASE LoginRejected(p)
  BY <1>9 DEF LoginRejected, Failed
<1>10. CASE Crash(p)
  BY <1>10 DEF Crash, Failed, TypeOK
<1>11. QED
  BY <1>1, <1>2, <1>3, <1>4, <1>5, <1>6, <1>7, <1>8, <1>9, <1>10 DEF Run

\* While nobody is robbed, the owner of the lock file stays in the guard.
LEMMA OwnedNext ==
  ASSUME TypeOK, Owned, ~robbed', [Next]_vars
  PROVE  Owned'
<1> USE DEF Owned, InGuard, GuardSteps, Goto, files, ghosts
<1>1. CASE Tick \/ UNCHANGED vars
  BY <1>1 DEF Tick, vars
<1>2. ASSUME NEW p \in Procs, Crash(p)
      PROVE  Owned'
  BY <1>2 DEF Crash, TypeOK
<1>3. ASSUME NEW p \in Procs, Run(p)
      PROVE  Owned'
  <2>1. CASE TryCreate(p) \/ RecreateLock(p)
    <3>1. CASE lockFile = {} /\ lockFile' = NewLock(p)
      <4>1. \A q \in Procs : InGuard(q)' => q = p
        BY <2>1, <3>1 DEF TryCreate, RecreateLock, TypeOK
      <4>2. \A f \in NewLock(p) : f.owner = p
        BY DEF NewLock
      <4>3. NewLock(p) # {}
        BY DEF NewLock
      <4>4. QED
        BY <3>1, <4>1, <4>2, <4>3
    <3>2. CASE lockFile' = lockFile /\ \A q \in Procs : InGuard(q)' => InGuard(q)
      BY <3>2
    <3>3. QED
      BY <2>1, <3>1, <3>2 DEF TryCreate, RecreateLock, TypeOK
  <2>2. CASE UnlinkStale(p) \/ Release(p)
    <3>1. /\ ~Robs(p)
          /\ ~InGuard(p)'
          /\ \A q \in Procs : q # p => (InGuard(q)' <=> InGuard(q))
      BY <2>2 DEF UnlinkStale, Release, TypeOK
    <3>2. \A q \in Procs : q # p => ~InGuard(q)
      BY <3>1 DEF Robs
    <3>3. QED
      BY <3>1, <3>2
  <2>3. CASE \/ ExamineLock(p) \/ Preflight(p) \/ ReadBudget(p) \/ WriteReservation(p)
             \/ SendLogin(p) \/ LoginRejected(p) \/ LoginRateLimited(p)
             \/ RecordRateLimited(p) \/ LoginAccepted(p) \/ RecordSuccess(p) \/ WriteFails(p)
    <3>1. lockFile' = lockFile /\ \A q \in Procs : InGuard(q)' => InGuard(q)
      BY <2>3 DEF ExamineLock, Preflight, ReadBudget, WriteReservation, SendLogin,
                  LoginRejected, LoginRateLimited, RecordRateLimited, LoginAccepted,
                  RecordSuccess, WriteFails, TypeOK
    <3>2. QED
      BY <3>1
  <2>4. QED
    BY <1>3, <2>1, <2>2, <2>3 DEF Run
<1>4. QED
  BY <1>1, <1>2, <1>3 DEF Next

LEMMA RobbedForEver ==
  ASSUME TypeOK, [Next]_vars, robbed
  PROVE  robbed'
<1>1. CASE Tick \/ UNCHANGED vars
  BY <1>1 DEF Tick, vars, ghosts
<1>2. ASSUME NEW p \in Procs, Crash(p)
      PROVE  robbed'
  BY <1>2 DEF Crash
<1>3. ASSUME NEW p \in Procs, Run(p)
      PROVE  robbed'
  BY <1>3 DEF Run, TryCreate, ExamineLock, UnlinkStale, RecreateLock, Preflight,
       ReadBudget, WriteReservation, SendLogin, LoginRejected, LoginRateLimited,
       RecordRateLimited, LoginAccepted, RecordSuccess, WriteFails, Release, ghosts
<1>4. QED
  BY <1>1, <1>2, <1>3 DEF Next

\* Single flight: as long as no live process has lost its lock file to another
\* one, at most one process is in login_guard, crashes and reclaims included.
THEOREM SingleFlight == Spec => []ExclusiveUnlessRobbed
<1> DEFINE Inv == robbed \/ Owned
<1>1. Init => Inv
  BY DEF Init, Owned, InGuard, GuardSteps
<1>2. TypeOK /\ Inv /\ [Next]_vars => Inv'
  BY OwnedNext, RobbedForEver
<1>3. TypeOK /\ Inv => ExclusiveUnlessRobbed
  BY OwnerIsAlone DEF ExclusiveUnlessRobbed
<1>4. QED
  BY <1>1, <1>2, <1>3, TypeCorrect, PTL DEF Spec

-----------------------------------------------------------------------------
(* The budget.                                                             *)

\* The part of IInv about the budget file.
Safe ==
  /\ ~robbed
  /\ NoWindowNoLogin
  /\ DraftFollowsFile
  /\ FailuresByWindow
  /\ LimitOnDisk
  /\ NotInTheFuture
  /\ AcceptedIsLast
  /\ Accounted
  /\ SlidingBound

USE DEF Window, BudgetFile

\* A step that moves no process into the steps that hold or use a reservation.
LEMMA QuietSafe ==
  ASSUME TypeOK, Safe, ~robbed', NEW p \in Procs, Quiet(p)
  PROVE  Safe'
<1> USE DEF Safe, Quiet, Goto
<1>1. \A q \in Procs : pc[q]' \in {"drafted", "reserved", "sent", "accepted"} =>
                          q # p /\ pc[q]' = pc[q] /\ draft'[q] = draft[q]
  BY DEF TypeOK
<1>2. \A q \in Procs : pc[q]' = "limited" => pc[q] \in {"sent", "limited"}
  BY DEF TypeOK
<1>3. NoWindowNoLogin'
  BY <1>1, <1>2 DEF NoWindowNoLogin
<1>4. DraftFollowsFile'
  BY <1>1 DEF DraftFollowsFile
<1>5. FailuresByWindow'
  BY <1>1 DEF FailuresByWindow, SplitAt
<1>6. LimitOnDisk'
  BY <1>1, <1>2 DEF LimitOnDisk, Written
<1>7. NotInTheFuture'
  BY DEF NotInTheFuture
<1>8. Accounted'
  BY <1>1 DEF Accounted
<1>9. SlidingBound'
  BY DEF SlidingBound
<1>10. AcceptedIsLast'
  BY <1>1 DEF AcceptedIsLast
<1>11. QED
  BY <1>3, <1>4, <1>5, <1>6, <1>7, <1>8, <1>9, <1>10

\* Time only makes windows and marks older.
LEMMA TickSafe ==
  ASSUME TypeOK, Safe, Tick
  PROVE  Safe'
<1> USE DEF Safe, Tick, files, ghosts
<1>1. NoWindowNoLogin'
  BY DEF NoWindowNoLogin
<1>2. DraftFollowsFile'
  BY DEF DraftFollowsFile, TypeOK
<1>3. FailuresByWindow'
  BY DEF FailuresByWindow, SplitAt
<1>4. LimitOnDisk'
  BY DEF LimitOnDisk, Written, TypeOK
<1>5. NotInTheFuture'
  BY DEF NotInTheFuture, TypeOK
<1>6. Accounted'
  BY DEF Accounted
<1>7. SlidingBound'
  BY DEF SlidingBound
<1>8. AcceptedIsLast'
  BY DEF AcceptedIsLast
<1>9. QED
  BY <1>1, <1>2, <1>3, <1>4, <1>5, <1>6, <1>7, <1>8

\* In the guard, p is the only one to hold or use a reservation.
LEMMA OthersIdle ==
  ASSUME TypeOK, MutualExclusion, NEW p \in Procs, InGuard(p), NEW q \in Procs, q # p
  PROVE  pc[q] \notin {"drafted", "reserved", "sent", "accepted", "limited"}
  BY DEF MutualExclusion, InGuard, GuardSteps

LEMMA SnapshotCases ==
  ASSUME TypeOK
  PROVE  \/ Snapshot = budgetFile.window
         \/ /\ Snapshot = FreshWindow
            /\ \/ budgetFile.state = "missing"
               \/ budgetFile.window.started + WINDOW <= now
  BY DEF TypeOK, Snapshot

\* A draft is taken from the file as it is now.
LEMMA ReadBudgetSafe ==
  ASSUME TypeOK, MutualExclusion, Safe, ~robbed', NEW p \in Procs, ReadBudget(p)
  PROVE  Safe'
<1> USE DEF Safe
<1>1. \A q \in Procs : q # p =>
        /\ pc[q] \notin {"drafted", "reserved", "sent", "accepted", "limited"}
        /\ pc'[q] = pc[q]
  BY OthersIdle DEF ReadBudget, Goto, InGuard, GuardSteps, TypeOK
<1>2. /\ UNCHANGED <<now, budgetFile, portalFails, spent, limitedAt>>
      /\ pc[p] = "healthy"
      /\ pc'[p] \in {"leaving", "drafted"}
  BY DEF ReadBudget, Goto, files, ghosts, TypeOK
<1>3. ASSUME pc'[p] = "drafted"
      PROVE  /\ budgetFile.state # "corrupt"
             /\ Snapshot.failures < MAX
             /\ draft'[p].started = Snapshot.started
             /\ draft'[p].failures = Snapshot.failures + 1
  <2>1. /\ budgetFile.state # "corrupt"
        /\ ~Exhausted(Snapshot)
        /\ draft' = [draft EXCEPT ![p] = [Snapshot EXCEPT !.failures = @ + 1]]
    BY <1>3 DEF ReadBudget, Goto, TypeOK
  <2>2. Snapshot \in Window
    BY SnapshotType
  <2>3. QED
    BY <2>1, <2>2 DEF Exhausted, TypeOK
<1>4. NoWindowNoLogin'
  BY <1>1, <1>2 DEF NoWindowNoLogin
<1>5. DraftFollowsFile'
  <2>1. CASE pc'[p] = "leaving"
    BY <1>1, <1>2, <2>1 DEF DraftFollowsFile
  <2>2. CASE pc'[p] = "drafted" /\ Snapshot = budgetFile.window
    <3>1. /\ draft'[p].started = budgetFile.window.started
          /\ draft'[p].failures = budgetFile.window.failures + 1
          /\ draft'[p].failures <= MAX
          /\ draft'[p].started <= now
      BY <1>3, <2>2 DEF NotInTheFuture, TypeOK
    <3>2. QED
      BY <1>1, <1>2, <3>1 DEF DraftFollowsFile
  <2>3. CASE /\ pc'[p] = "drafted"
             /\ Snapshot = FreshWindow
             /\ \/ budgetFile.state = "missing"
                \/ budgetFile.window.started + WINDOW <= now
    <3>1. draft'[p].started = now /\ draft'[p].failures = 1
      BY <1>3, <2>3 DEF FreshWindow
    <3>2. QED
      BY <1>1, <1>2, <2>3, <3>1, SMTT(30) DEF DraftFollowsFile, NotInTheFuture, TypeOK
  <2>4. QED
    BY <1>2, <2>1, <2>2, <2>3, SnapshotCases
<1>6. FailuresByWindow'
  BY <1>1, <1>2 DEF FailuresByWindow, SplitAt
<1>7. LimitOnDisk'
  <2>1. \A t \in limitedAt : pc'[p] = "drafted" => now - t >= WINDOW
    <3>1. SUFFICES ASSUME NEW t \in limitedAt, pc'[p] = "drafted", ~(now - t >= WINDOW)
                   PROVE  FALSE
      OBVIOUS
    <3>2. budgetFile = Written([started |-> t, failures |-> MAX])
      BY <3>1 DEF LimitOnDisk
    <3>3. Snapshot.failures = MAX
      BY <3>1, <3>2, SnapshotCases DEF Written, TypeOK
    <3>4. QED
      BY <1>3, <3>1, <3>3
  <2>2. QED
    BY <1>1, <1>2, <2>1 DEF LimitOnDisk, Written
<1>8. NotInTheFuture'
  BY <1>2 DEF NotInTheFuture
<1>9. Accounted'
  BY <1>1, <1>2 DEF Accounted
<1>10. SlidingBound'
  BY <1>2 DEF SlidingBound
<1>11. AcceptedIsLast'
  BY <1>1, <1>2 DEF AcceptedIsLast
<1>12. QED
  BY <1>4, <1>5, <1>6, <1>7, <1>8, <1>9, <1>10, <1>11

\* The draft written is still the continuation of the file.
LEMMA WriteReservationSafe ==
  ASSUME TypeOK, MutualExclusion, Safe, ~robbed', NEW p \in Procs, WriteReservation(p)
  PROVE  Safe'
<1> USE DEF Safe
<1>1. \A q \in Procs : q # p =>
        /\ pc[q] \notin {"drafted", "reserved", "sent", "accepted", "limited"}
        /\ pc'[q] = pc[q]
  BY OthersIdle DEF WriteReservation, Goto, InGuard, GuardSteps, TypeOK
<1>2. /\ UNCHANGED <<now, portalFails, limitedAt>>
      /\ pc[p] = "drafted"
      /\ pc'[p] = "reserved"
      /\ budgetFile'.state = "valid"
      /\ budgetFile'.window = draft[p]
      /\ spent' = IF draft[p].failures = 1 THEN 0 ELSE spent
  BY DEF WriteReservation, Written, Goto, files, ghosts, TypeOK
<1>3. /\ draft[p].failures <= MAX
      /\ draft[p].started <= now
      /\ \/ /\ draft[p].started = budgetFile.window.started
            /\ draft[p].failures = budgetFile.window.failures + 1
         \/ /\ draft[p].failures = 1
            /\ \/ budgetFile.state = "missing"
               \/ budgetFile.window.started + WINDOW <= draft[p].started
            /\ \A k \in 1 .. Len(portalFails) : portalFails[k] <= draft[p].started
  BY <1>2 DEF DraftFollowsFile
<1>4. NoWindowNoLogin'
  BY <1>2 DEF NoWindowNoLogin
<1>5. DraftFollowsFile'
  BY <1>1, <1>2 DEF DraftFollowsFile
<1>6. FailuresByWindow'
  <2> DEFINE n == Len(portalFails)
  <2>1. PICK a \in 0 .. n, b \in 0 .. n : SplitAt(a, b)
    BY DEF FailuresByWindow, SplitAt
  <2>2. n \in Nat /\ draft[p] \in Window /\ budgetFile.window \in Window
    BY DEF TypeOK
  <2>3. CASE /\ draft[p].started = budgetFile.window.started
             /\ draft[p].failures = budgetFile.window.failures + 1
    <3>1. SplitAt(a, b)'
      BY <1>2, <2>1, <2>2, <2>3 DEF SplitAt
    <3>2. QED
      BY <1>2, <3>1 DEF FailuresByWindow, SplitAt
  <2>4. CASE /\ draft[p].failures = 1
             /\ \/ budgetFile.state = "missing"
                \/ budgetFile.window.started + WINDOW <= draft[p].started
             /\ \A k \in 1 .. n : portalFails[k] <= draft[p].started
    <3>1. n - b <= MAX
      BY <2>1, <2>2 DEF SplitAt, Accounted
    <3>2. \A k \in 1 .. b : portalFails[k] + WINDOW <= draft[p].started
      BY <2>1, <2>2, <2>4, SMTT(30) DEF SplitAt, NoWindowNoLogin, TypeOK
    <3>3. SplitAt(b, n)'
      BY <1>2, <2>2, <2>4, <3>1, <3>2 DEF SplitAt
    <3>4. QED
      BY <1>2, <2>2, <3>3 DEF FailuresByWindow
  <2>5. QED
    BY <1>3, <2>3, <2>4
<1>7. LimitOnDisk'
  BY <1>1, <1>2 DEF LimitOnDisk
<1>8. NotInTheFuture'
  BY <1>2, <1>3 DEF NotInTheFuture
<1>9. Accounted'
  BY <1>1, <1>2, <1>3 DEF Accounted, TypeOK
<1>10. SlidingBound'
  BY <1>2 DEF SlidingBound
<1>11. AcceptedIsLast'
  BY <1>1, <1>2 DEF AcceptedIsLast
<1>12. QED
  BY <1>4, <1>5, <1>6, <1>7, <1>8, <1>9, <1>10, <1>11

\* A login sent was counted when its reservation was written.
LEMMA SendLoginSafe ==
  ASSUME TypeOK, MutualExclusion, Safe, ~robbed', NEW p \in Procs, SendLogin(p)
  PROVE  Safe'
<1> USE DEF Safe, SendLogin, Goto, files, ghosts
<1>1. \A q \in Procs : q # p =>
        /\ pc[q] \notin {"drafted", "reserved", "sent", "accepted", "limited"}
        /\ pc'[q] = pc[q]
  BY OthersIdle DEF InGuard, GuardSteps, TypeOK
<1>2. NoWindowNoLogin'
  BY <1>1 DEF NoWindowNoLogin, TypeOK
<1>3. DraftFollowsFile'
  BY <1>1 DEF DraftFollowsFile, TypeOK
<1>4. FailuresByWindow'
  BY <1>1 DEF FailuresByWindow, SplitAt, TypeOK
<1>5. LimitOnDisk'
  BY <1>1 DEF LimitOnDisk, Written, TypeOK
<1>6. NotInTheFuture'
  BY DEF NotInTheFuture, TypeOK
<1>7. Accounted'
  BY <1>1 DEF Accounted, TypeOK
<1>8. SlidingBound'
  BY DEF SlidingBound
<1>9. AcceptedIsLast'
  BY <1>1 DEF AcceptedIsLast, TypeOK
<1>10. QED
  BY <1>2, <1>3, <1>4, <1>5, <1>6, <1>7, <1>8, <1>9

\* A failed login was counted before it was sent.
LEMMA FailedSafe ==
  ASSUME TypeOK, MutualExclusion, Safe, ~robbed', NEW p \in Procs, Failed(p)
  PROVE  Safe'
<1> USE DEF Safe
<1> DEFINE n == Len(portalFails)
<1>1. \A q \in Procs :
        pc'[q] \notin {"drafted", "reserved", "sent", "accepted", "limited"}
  BY OthersIdle DEF Failed, Goto, InGuard, GuardSteps, TypeOK
<1>2. UNCHANGED <<now, budgetFile, spent, limitedAt>> /\ pc[p] = "sent"
  BY DEF Failed
<1>3. /\ n \in Nat
      /\ Len(portalFails') = n + 1
      /\ \A k \in 1 .. n : portalFails'[k] = portalFails[k]
      /\ portalFails'[n + 1] = now
      /\ \A k \in 1 .. n : portalFails[k] \in Nat
  BY DEF Failed, TypeOK
<1>4. PICK a \in 0 .. n, b \in 0 .. n : SplitAt(a, b)
  BY DEF FailuresByWindow
<1>5. n + 1 - b <= budgetFile.window.failures
  BY <1>2, <1>4 DEF SplitAt
<1>6. NoWindowNoLogin'
  BY <1>2 DEF NoWindowNoLogin
<1>7. DraftFollowsFile' /\ AcceptedIsLast'
  BY <1>1 DEF DraftFollowsFile, AcceptedIsLast
<1>8. FailuresByWindow'
  <2>1. SplitAt(a, b)'
    <3>1. \A k \in 1 .. a : portalFails'[k] + WINDOW <= budgetFile'.window.started
      BY <1>2, <1>3, <1>4 DEF SplitAt
    <3>2. \A k \in 1 .. b : portalFails'[k] <= budgetFile'.window.started
      BY <1>2, <1>3, <1>4, SMTT(30) DEF SplitAt
    <3>3. Len(portalFails') - b <= budgetFile'.window.failures
      BY <1>2, <1>3, <1>5
    <3>4. b - a <= MAX
      BY <1>4 DEF SplitAt
    <3>5. QED
      BY <1>1, <3>1, <3>2, <3>3, <3>4 DEF SplitAt
  <2>2. a \in 0 .. Len(portalFails') /\ b \in 0 .. Len(portalFails')
    BY <1>3
  <2>3. QED
    BY <2>1, <2>2 DEF FailuresByWindow
<1>9. LimitOnDisk'
  BY <1>1, <1>2 DEF LimitOnDisk, Written
<1>10. NotInTheFuture'
  <2>1. \A k \in 1 .. n + 1 : portalFails'[k] <= now
    BY <1>3, SMTT(30) DEF NotInTheFuture, TypeOK
  <2>2. QED
    BY <1>2, <1>3, <2>1 DEF NotInTheFuture
<1>11. Accounted'
  BY <1>1, <1>2 DEF Accounted
<1>12. SlidingBound'
  <2>1. SUFFICES ASSUME NEW k \in 1 .. n + 1 - 2 * MAX
                 PROVE  portalFails'[k + 2 * MAX] - portalFails'[k] >= WINDOW
    BY <1>3 DEF SlidingBound
  <2>2. CASE k + 2 * MAX <= n
    BY <1>3, <2>2 DEF SlidingBound
  <2>3. CASE k + 2 * MAX = n + 1
    <3>1. budgetFile.window.failures <= MAX /\ budgetFile.window.failures \in Nat
      BY <1>2 DEF Accounted, TypeOK
    <3>2. k \in 1 .. a
      BY <1>3, <1>4, <1>5, <2>3, <3>1 DEF SplitAt
    <3>3. portalFails[k] + WINDOW <= budgetFile.window.started
      BY <1>4, <3>2 DEF SplitAt
    <3>4. budgetFile.window.started <= now /\ budgetFile.window.started \in Nat /\ now \in Nat
      BY DEF NotInTheFuture, TypeOK
    <3>5. portalFails'[k + 2 * MAX] = now /\ portalFails'[k] = portalFails[k]
      BY <1>3, <2>3, <3>2
    <3>6. portalFails[k] \in Nat
      BY <1>3, <3>2
    <3>7. QED
      BY <3>3, <3>4, <3>5, <3>6, SMTT(30)
  <2>4. QED
    BY <1>3, <2>2, <2>3
<1>13. QED
  BY <1>6, <1>7, <1>8, <1>9, <1>10, <1>11, <1>12 DEF Failed

\* A 429 marks the window that starts now as spent.
LEMMA RecordRateLimitedSafe ==
  ASSUME TypeOK, MutualExclusion, Safe, ~robbed', NEW p \in Procs, RecordRateLimited(p)
  PROVE  Safe'
<1> USE DEF Safe, RecordRateLimited, Goto, files, ghosts, Written
<1>1. \A q \in Procs : q # p =>
        /\ pc[q] \notin {"drafted", "reserved", "sent", "accepted", "limited"}
        /\ pc'[q] = pc[q]
  BY OthersIdle DEF InGuard, GuardSteps, TypeOK
<1>2. NoWindowNoLogin'
  BY <1>1 DEF NoWindowNoLogin, TypeOK
<1>3. DraftFollowsFile'
  BY <1>1 DEF DraftFollowsFile, TypeOK
<1>4. FailuresByWindow'
  <2>1. PICK a \in 0 .. Len(portalFails), b \in 0 .. Len(portalFails) : SplitAt(a, b)
    BY DEF FailuresByWindow
  <2>2. /\ UNCHANGED <<now, portalFails>>
        /\ budgetFile'.window.started = now
        /\ budgetFile'.window.failures = MAX
        /\ \A q \in Procs : pc'[q] \notin {"reserved", "sent"}
    BY <1>1 DEF TypeOK
  <2>3. /\ Len(portalFails) \in Nat /\ now \in Nat /\ WINDOW \in Nat /\ MAX \in Nat
        /\ budgetFile.window.started \in Nat /\ budgetFile.window.failures \in Nat
        /\ \A k \in 1 .. Len(portalFails) : portalFails[k] \in Nat
    BY BudgetAssumption DEF TypeOK, Window
  <2>4. budgetFile.window.started <= now /\ budgetFile.window.failures <= MAX
    BY DEF NotInTheFuture, Accounted
  <2> HIDE DEF Safe, RecordRateLimited
  <2>5. /\ \A k \in 1 .. a : portalFails[k] + WINDOW <= now
        /\ \A k \in 1 .. b : portalFails[k] <= now
        /\ Len(portalFails) - b <= MAX
    <3>1. /\ \A k \in 1 .. a : portalFails[k] + WINDOW <= budgetFile.window.started
          /\ \A k \in 1 .. b : portalFails[k] <= budgetFile.window.started
          /\ Len(portalFails) - b <= budgetFile.window.failures
      BY <2>1 DEF SplitAt
    <3>2. Len(portalFails) - b <= MAX
      BY <3>1, <2>1, <2>3, <2>4
    <3>3. ASSUME NEW k \in 1 .. a PROVE portalFails[k] + WINDOW <= now
      <4>1. k \in 1 .. Len(portalFails) /\ portalFails[k] + WINDOW <= budgetFile.window.started
        BY <3>1, <2>1, <2>3
      <4>2. QED
        BY <4>1, <2>3, <2>4
    <3>4. ASSUME NEW k \in 1 .. b PROVE portalFails[k] <= now
      <4>1. k \in 1 .. Len(portalFails) /\ portalFails[k] <= budgetFile.window.started
        BY <3>1, <2>1, <2>3
      <4>2. QED
        BY <4>1, <2>3, <2>4
    <3>5. QED
      BY <3>2, <3>3, <3>4
  <2>6. SplitAt(a, b)'
    BY <2>1, <2>2, <2>5 DEF SplitAt
  <2>7. QED
    BY <2>1, <2>2, <2>6 DEF FailuresByWindow
<1>5. LimitOnDisk'
  BY <1>1 DEF LimitOnDisk, Written, TypeOK
<1>6. NotInTheFuture'
  BY DEF NotInTheFuture, TypeOK
<1>7. Accounted'
  BY <1>1 DEF Accounted, TypeOK
<1>8. SlidingBound'
  BY DEF SlidingBound
<1>9. AcceptedIsLast'
  BY <1>1 DEF AcceptedIsLast, TypeOK
<1>10. QED
  BY <1>2, <1>3, <1>4, <1>5, <1>6, <1>7, <1>8, <1>9

\* A success starts the history of failures again.
LEMMA LoginAcceptedSafe ==
  ASSUME TypeOK, MutualExclusion, Safe, ~robbed', NEW p \in Procs, LoginAccepted(p)
  PROVE  Safe'
<1> USE DEF Safe, LoginAccepted, Goto, files, ghosts
<1>1. \A q \in Procs : q # p =>
        /\ pc[q] \notin {"drafted", "reserved", "sent", "accepted", "limited"}
        /\ pc'[q] = pc[q]
  BY OthersIdle DEF InGuard, GuardSteps, TypeOK
<1>2. NoWindowNoLogin'
  BY <1>1 DEF NoWindowNoLogin, TypeOK
<1>3. DraftFollowsFile'
  BY <1>1 DEF DraftFollowsFile, TypeOK
<1>4. FailuresByWindow'
  BY <1>1 DEF FailuresByWindow, SplitAt, TypeOK
<1>5. LimitOnDisk'
  BY <1>1 DEF LimitOnDisk, Written, TypeOK
<1>6. NotInTheFuture'
  BY DEF NotInTheFuture, TypeOK
<1>7. Accounted'
  BY <1>1 DEF Accounted, TypeOK
<1>8. SlidingBound'
  BY DEF SlidingBound
<1>9. AcceptedIsLast'
  BY <1>1 DEF AcceptedIsLast, TypeOK
<1>10. QED
  BY <1>2, <1>3, <1>4, <1>5, <1>6, <1>7, <1>8, <1>9

\* A success opens a window with nothing counted.
LEMMA RecordSuccessSafe ==
  ASSUME TypeOK, MutualExclusion, Safe, ~robbed', NEW p \in Procs, RecordSuccess(p)
  PROVE  Safe'
<1> USE DEF Safe, RecordSuccess, Goto, files, ghosts, Written, FreshWindow
<1>1. \A q \in Procs : q # p =>
        /\ pc[q] \notin {"drafted", "reserved", "sent", "accepted", "limited"}
        /\ pc'[q] = pc[q]
  BY OthersIdle DEF InGuard, GuardSteps, TypeOK
<1>2. NoWindowNoLogin'
  BY <1>1 DEF NoWindowNoLogin, TypeOK
<1>3. DraftFollowsFile'
  BY <1>1 DEF DraftFollowsFile, TypeOK
<1>4. FailuresByWindow'
  <2>1. /\ Len(portalFails') = 0
        /\ budgetFile'.window.failures = 0
        /\ \A q \in Procs : pc'[q] \notin {"reserved", "sent"}
    BY <1>1 DEF AcceptedIsLast, TypeOK
  <2>2. SplitAt(0, 0)'
    BY <2>1 DEF SplitAt
  <2>3. QED
    BY <2>1, <2>2 DEF FailuresByWindow
<1>5. LimitOnDisk'
  BY <1>1 DEF LimitOnDisk, Written, TypeOK
<1>6. NotInTheFuture'
  BY DEF NotInTheFuture, TypeOK
<1>7. Accounted'
  BY <1>1 DEF Accounted, TypeOK
<1>8. SlidingBound'
  BY DEF SlidingBound
<1>9. AcceptedIsLast'
  BY <1>1 DEF AcceptedIsLast, TypeOK
<1>10. QED
  BY <1>2, <1>3, <1>4, <1>5, <1>6, <1>7, <1>8, <1>9

LEMMA IInvInit == Init => IInv
<1> SUFFICES ASSUME Init
             PROVE  IInv
  OBVIOUS
<1>1. TypeOK
  BY TypeInit
<1>2. /\ \A p \in Procs : pc[p] = "idle"
      /\ budgetFile.window = EmptyWindow
      /\ portalFails = <<>> /\ Len(portalFails) = 0
      /\ spent = 0 /\ limitedAt = {} /\ now = 0
  BY DEF Init
<1>3. Owned /\ NoWindowNoLogin /\ DraftFollowsFile /\ LimitOnDisk /\ AcceptedIsLast
  BY <1>2 DEF Owned, InGuard, GuardSteps, NoWindowNoLogin, DraftFollowsFile, LimitOnDisk,
              AcceptedIsLast
<1>4. NotInTheFuture /\ Accounted /\ SlidingBound
  BY <1>2 DEF NotInTheFuture, Accounted, SlidingBound, EmptyWindow
<1>5. SplitAt(0, 0)
  BY <1>2 DEF SplitAt, EmptyWindow
<1>6. FailuresByWindow
  BY <1>2, <1>5 DEF FailuresByWindow
<1>7. QED
  BY <1>1, <1>3, <1>4, <1>6 DEF IInv

LEMMA IInvNext == IInv /\ [Next]_vars => IInv'
<1> SUFFICES ASSUME IInv, [Next]_vars
             PROVE  IInv'
  OBVIOUS
<1>1. TypeOK /\ TypeOK'
  BY TypeNext DEF IInv
<1>2. CASE robbed'
  BY <1>1, <1>2 DEF IInv
<1>3. CASE ~robbed'
  <2>1. ~robbed
    BY <1>1, <1>3, RobbedForEver
  <2>2. Owned /\ Safe
    BY <2>1 DEF IInv, Safe
  <2>3. Owned' /\ MutualExclusion
    BY <1>1, <1>3, <2>2, OwnedNext, OwnerIsAlone
  <2>4. Safe'
    <3>1. CASE UNCHANGED vars
      BY <2>2, <3>1 DEF vars, files, ghosts, Safe, NoWindowNoLogin, DraftFollowsFile,
            FailuresByWindow, SplitAt, LimitOnDisk, NotInTheFuture, AcceptedIsLast,
            Accounted, SlidingBound, Written
    <3>2. CASE Tick
      BY <1>1, <2>2, <3>2, TickSafe
    <3>3. ASSUME NEW p \in Procs, Run(p) \/ Crash(p)
          PROVE  Safe'
      BY <1>1, <1>3, <2>2, <2>3, <3>3, StepKinds, QuietSafe, FailedSafe, ReadBudgetSafe,
         WriteReservationSafe, SendLoginSafe, RecordRateLimitedSafe, LoginAcceptedSafe,
         RecordSuccessSafe
    <3>4. QED
      BY <3>1, <3>2, <3>3 DEF Next
  <2>5. QED
    BY <1>1, <2>3, <2>4 DEF IInv, Safe
<1>4. QED
  BY <1>2, <1>3

\* The inductive invariant holds in every reachable state.
THEOREM InductiveInvariant == Spec => []IInv
  BY IInvInit, IInvNext, PTL DEF Spec

\* Counted before sent: until a live process is robbed of its lock, the file
\* counts every login sent in its window, and never more than MAX.
THEOREM CountedBeforeSent == Spec => []Accounted
<1>1. IInv => Accounted
  BY DEF IInv, Accounted
<1>2. QED
  BY <1>1, InductiveInvariant, PTL

\* Whatever the timing, 2 * MAX + 1 consecutive failures span a WINDOW: the
\* shared address never takes more than 2 * MAX of them from the agent in one.
THEOREM BoundedFailures == Spec => []SlidingBound
<1>1. IInv => SlidingBound
  BY DEF IInv, SlidingBound
<1>2. QED
  BY <1>1, InductiveInvariant, PTL

\* No login follows a recorded 429 until a WINDOW has passed.
THEOREM BacksOffAfter429 == Spec => []RateLimitRespected
<1>1. IInv => RateLimitRespected
  BY DEF IInv, LimitOnDisk, RateLimitRespected
<1>2. QED
  BY <1>1, InductiveInvariant, PTL

=============================================================================

---------------------------- MODULE LoginBudget ----------------------------
(***************************************************************************)
(* The portal login budget and its single-flight lock                      *)
(* (src/os_system_agent/portal/budget.py).                                 *)
(*                                                                         *)
(* Every agent process that wants to log in to the portal runs             *)
(* login_guard: it takes an O_EXCL lock file, asks the portal whether it   *)
(* is healthy, counts one attempt in the budget file and only then sends   *)
(* the login.  The two files are the only state that survives a crash and  *)
(* the only state the processes share.  A lock file older than             *)
(* LOCK_STALE_SECONDS is taken for the leftover of a dead process and      *)
(* reclaimed, in three separate system calls.                              *)
(*                                                                         *)
(* Time is a natural number of ticks read by every process (the processes  *)
(* run on one host).  The budget file and the lock file carry the tick at  *)
(* which their window or their modification time was set.                  *)
(***************************************************************************)
EXTENDS Integers, Sequences

CONSTANTS
  Procs,       \* agent processes that may log in
  MAX,         \* MAX_LOGIN_FAILURES_PER_WINDOW
  WINDOW,      \* LOGIN_FAILURE_WINDOW, in ticks
  STALE,       \* LOCK_STALE_SECONDS, in ticks
  Timely,      \* TRUE: no live process keeps the lock until it looks stale
  MaxTime,     \* bound: the clock stops here
  MaxCrashes   \* bound: processes that die in the middle of login_guard

ASSUME BudgetAssumption ==
  /\ MAX \in Nat \ {0}
  /\ WINDOW \in Nat \ {0}
  /\ STALE \in Nat \ {0}
  /\ Timely \in BOOLEAN
  /\ MaxTime \in Nat
  /\ MaxCrashes \in Nat

VARIABLES
  now,         \* the wall clock of the host
  lockFile,    \* {} or the one lock file: who created it and when
  budgetFile,  \* the counter on disk: missing, corrupt, or a window and its count
  pc,          \* where each process stands in login_guard
  draft,       \* the state each process is about to write to the budget file
  crashes,     \* how many processes have died so far
  \* What follows is observed by the properties only.
  portalFails, \* times at which the portal failed an agent login, since the last success
  spent,       \* logins sent and not known to have succeeded in the file's window
  limitedAt,   \* {} or the time of the last recorded 429
  robbed       \* TRUE once a live process has lost its lock file to another one

files == <<lockFile, budgetFile>>
ghosts == <<portalFails, spent, limitedAt, robbed>>
vars == <<now, files, pc, draft, crashes, ghosts>>

-----------------------------------------------------------------------------
(* States of the files and of the processes.                               *)

Window == [started : Nat, failures : Nat]

LockFile == [owner : Procs, mtime : Nat]

\* The steps of a process that is past lock() and before its finally clause.
GuardSteps == {"locked", "healthy", "drafted", "reserved", "sent",
               "accepted", "limited", "leaving"}

Steps == {"idle", "exists", "stale", "unlinked"} \cup GuardSteps

InGuard(p) == pc[p] \in GuardSteps

FreshWindow == [started |-> now, failures |-> 0]

\* What stands in draft outside reserve(), and for a file that has no window.
EmptyWindow == [started |-> 0, failures |-> 0]

\* snapshot(): a missing file and an expired window both read as a new window.
Snapshot ==
  IF \/ budgetFile.state = "missing"
     \/ now - budgetFile.window.started >= WINDOW
    THEN FreshWindow
    ELSE budgetFile.window

\* A bug: one attempt too many.
ExhaustedOffByOne(window) == window.failures > MAX

Exhausted(window) == window.failures >= MAX

Written(window) == [state |-> "valid", window |-> window]

BudgetFile == [state : {"missing", "corrupt", "valid"}, window : Window]

Goto(p, step) == pc' = [pc EXCEPT ![p] = step]

-----------------------------------------------------------------------------
(* lock(): acquiring and reclaiming the lock file.                         *)

NewLock(p) == {[owner |-> p, mtime |-> now]}

\* A bug: open(O_CREAT) without O_EXCL.
TryCreateShared(p) ==
  /\ pc[p] = "idle"
  /\ lockFile' = NewLock(p)
  /\ Goto(p, "locked")
  /\ UNCHANGED <<now, budgetFile, draft, crashes, ghosts>>

\* The first open(O_CREAT | O_EXCL) of _acquire.
TryCreate(p) ==
  /\ pc[p] = "idle"
  /\ IF lockFile = {}
       THEN lockFile' = NewLock(p) /\ Goto(p, "locked")
       ELSE UNCHANGED lockFile /\ Goto(p, "exists")
  /\ UNCHANGED <<now, budgetFile, draft, crashes, ghosts>>

\* A bug: whatever its age, a lock file is somebody's.
ExamineLockNeverStale(p) ==
  /\ pc[p] = "exists"
  /\ Goto(p, "idle")
  /\ UNCHANGED <<now, files, draft, crashes, ghosts>>

\* _lock_age_seconds and its test: a file that vanished counts as fresh.
ExamineLock(p) ==
  /\ pc[p] = "exists"
  /\ IF \E f \in lockFile : now - f.mtime >= STALE
       THEN Goto(p, "stale")
       ELSE Goto(p, "idle")
  /\ UNCHANGED <<now, files, draft, crashes, ghosts>>

\* A live process other than p owns the lock file that p is about to unlink.
Robs(p) == \E f \in lockFile : f.owner # p /\ InGuard(f.owner)

\* The unlink goes by path: it removes whatever lock file is there by now.
UnlinkStale(p) ==
  /\ pc[p] = "stale"
  /\ lockFile' = {}
  /\ Goto(p, "unlinked")
  /\ robbed' = (robbed \/ Robs(p))
  /\ UNCHANGED <<now, budgetFile, draft, crashes, portalFails, spent, limitedAt>>

\* The second open(O_CREAT | O_EXCL): losing it is LoginLockedError.
RecreateLock(p) ==
  /\ pc[p] = "unlinked"
  /\ IF lockFile = {}
       THEN lockFile' = NewLock(p) /\ Goto(p, "locked")
       ELSE UNCHANGED lockFile /\ Goto(p, "idle")
  /\ UNCHANGED <<now, budgetFile, draft, crashes, ghosts>>

\* The finally clause of lock(), which also unlinks by path.
Release(p) ==
  /\ pc[p] = "leaving"
  /\ lockFile' = {}
  /\ Goto(p, "idle")
  /\ robbed' = (robbed \/ Robs(p))
  /\ UNCHANGED <<now, budgetFile, draft, crashes, portalFails, spent, limitedAt>>

-----------------------------------------------------------------------------
(* login_guard: preflight, reservation, the login itself, its outcome.     *)

\* GET /api/health: when it is not ok the login is skipped at no cost.
Preflight(p) ==
  /\ pc[p] = "locked"
  /\ \E healthy \in BOOLEAN : Goto(p, IF healthy THEN "healthy" ELSE "leaving")
  /\ UNCHANGED <<now, files, draft, crashes, ghosts>>

\* reserve() up to its write: it refuses on a file it cannot read
\* (BudgetStateError) and on a spent window (LoginBudgetExhaustedError).
ReadBudget(p) ==
  /\ pc[p] = "healthy"
  /\ IF budgetFile.state = "corrupt" \/ Exhausted(Snapshot)
       THEN Goto(p, "leaving") /\ UNCHANGED draft
       ELSE /\ draft' = [draft EXCEPT ![p] = [Snapshot EXCEPT !.failures = @ + 1]]
            /\ Goto(p, "drafted")
  /\ UNCHANGED <<now, files, crashes, ghosts>>

\* The atomic replace that ends reserve().
WriteReservation(p) ==
  /\ pc[p] = "drafted"
  /\ budgetFile' = Written(draft[p])
  /\ spent' = IF draft[p].failures = 1 THEN 0 ELSE spent
  /\ draft' = [draft EXCEPT ![p] = EmptyWindow]
  /\ Goto(p, "reserved")
  /\ UNCHANGED <<now, lockFile, crashes, portalFails, limitedAt, robbed>>

\* The body of the with statement sends the login request.
SendLogin(p) ==
  /\ pc[p] = "reserved"
  /\ spent' = spent + 1
  /\ Goto(p, "sent")
  /\ UNCHANGED <<now, files, draft, crashes, portalFails, limitedAt, robbed>>

\* The portal fails the login: the body raises and the attempt stays counted.
LoginRejected(p) ==
  /\ pc[p] = "sent"
  /\ portalFails' = Append(portalFails, now)
  /\ Goto(p, "leaving")
  /\ UNCHANGED <<now, files, draft, crashes, spent, limitedAt, robbed>>

\* The portal answers 429 before looking at the credentials.
LoginRateLimited(p) ==
  /\ pc[p] = "sent"
  /\ Goto(p, "limited")
  /\ UNCHANGED <<now, files, draft, crashes, ghosts>>

\* A bug: the 429 spends what is left of the window, not a window from now.
RecordRateLimitedShort(p) ==
  /\ pc[p] = "limited"
  /\ budgetFile' = Written([budgetFile.window EXCEPT !.failures = MAX])
  /\ spent' = 0
  /\ limitedAt' = {now}
  /\ Goto(p, "leaving")
  /\ UNCHANGED <<now, lockFile, draft, crashes, portalFails, robbed>>

\* record_rate_limited(): the whole window, starting now, is spent.
RecordRateLimited(p) ==
  /\ pc[p] = "limited"
  /\ budgetFile' = Written([started |-> now, failures |-> MAX])
  /\ spent' = 0
  /\ limitedAt' = {now}
  /\ Goto(p, "leaving")
  /\ UNCHANGED <<now, lockFile, draft, crashes, portalFails, robbed>>

\* The portal opens a session.
LoginAccepted(p) ==
  /\ pc[p] = "sent"
  /\ portalFails' = <<>>
  /\ Goto(p, "accepted")
  /\ UNCHANGED <<now, files, draft, crashes, spent, limitedAt, robbed>>

\* record_success(): a new window with nothing counted.
RecordSuccess(p) ==
  /\ pc[p] = "accepted"
  /\ budgetFile' = Written(FreshWindow)
  /\ spent' = 0
  /\ Goto(p, "leaving")
  /\ UNCHANGED <<now, lockFile, draft, crashes, portalFails, limitedAt, robbed>>

\* _write fails (no space, no permission): the exception leaves the guard.
WriteFails(p) ==
  /\ pc[p] \in {"drafted", "accepted", "limited"}
  /\ draft' = [draft EXCEPT ![p] = EmptyWindow]
  /\ Goto(p, "leaving")
  /\ UNCHANGED <<now, files, crashes, ghosts>>

-----------------------------------------------------------------------------
(* The environment.                                                        *)

\* A process dies.  Its files stay; a login in flight may still have failed.
Crash(p) ==
  /\ crashes < MaxCrashes
  /\ pc[p] # "idle"
  /\ crashes' = crashes + 1
  /\ Goto(p, "idle")
  /\ \/ UNCHANGED portalFails
     \/ pc[p] = "sent" /\ portalFails' = Append(portalFails, now)
  /\ draft' = [draft EXCEPT ![p] = EmptyWindow]
  /\ UNCHANGED <<now, files, spent, limitedAt, robbed>>

\* With Timely, the clock waits for a live owner whose lock is about to expire:
\* budget.py assumes a login takes far less than LOCK_STALE_SECONDS.
Tick ==
  /\ now < MaxTime
  /\ Timely => \A f \in lockFile : InGuard(f.owner) => now + 1 - f.mtime < STALE
  /\ now' = now + 1
  /\ UNCHANGED <<files, pc, draft, crashes, ghosts>>

Init ==
  /\ now = 0
  /\ lockFile = {}
  /\ \E s \in {"missing", "corrupt"} : budgetFile = [state |-> s, window |-> EmptyWindow]
  /\ pc = [p \in Procs |-> "idle"]
  /\ draft = [p \in Procs |-> EmptyWindow]
  /\ crashes = 0
  /\ portalFails = <<>>
  /\ spent = 0
  /\ limitedAt = {}
  /\ robbed = FALSE

\* One step of a running agent process.
Run(p) ==
  \/ TryCreate(p) \/ ExamineLock(p) \/ UnlinkStale(p) \/ RecreateLock(p)
  \/ Preflight(p) \/ ReadBudget(p) \/ WriteReservation(p) \/ SendLogin(p)
  \/ LoginRejected(p) \/ LoginRateLimited(p) \/ RecordRateLimited(p)
  \/ LoginAccepted(p) \/ RecordSuccess(p) \/ WriteFails(p) \/ Release(p)

Next == Tick \/ \E p \in Procs : Run(p) \/ Crash(p)

Spec == Init /\ [][Next]_vars

\* Time passes, and an agent process that was started runs: timers start it
\* again and again, every network call in it has a timeout, and the only way
\* to stop in the middle is to crash.
Fairness == WF_vars(Tick) /\ \A p \in Procs : WF_vars(Run(p))

FairSpec == Spec /\ Fairness

-----------------------------------------------------------------------------
(* Properties.                                                             *)

\* The types of the two files, of the processes and of the observations.
TypeOK ==
  /\ now \in Nat
  /\ lockFile \in SUBSET LockFile
  /\ \A f, g \in lockFile : f = g
  /\ budgetFile \in BudgetFile
  /\ pc \in [Procs -> Steps]
  /\ draft \in [Procs -> Window]
  /\ crashes \in Nat
  /\ portalFails \in Seq(Nat)
  /\ spent \in Nat
  /\ limitedAt \in SUBSET Nat
  /\ robbed \in BOOLEAN

\* At most one process is between lock() and its finally clause: no two agent
\* processes log in at once (budget.py, property 3 of the module docstring).
MutualExclusion ==
  \A p, q \in Procs : InGuard(p) /\ InGuard(q) => p = q

\* As long as no live process has had its lock file unlinked by another one,
\* logins are single flight, crashes and reclaims of dead locks included.
ExclusiveUnlessRobbed == robbed \/ MutualExclusion

\* The counter on disk is never behind the logins sent in its window, whatever
\* process crashed or failed to write: the attempt is on disk before the
\* request leaves, and a reserved login not sent yet is counted too.
Accounted ==
  robbed \/ \A p \in Procs :
    /\ pc[p] = "reserved" => spent + 1 <= budgetFile.window.failures
    /\ pc[p] = "sent" => spent >= 1
    /\ spent <= budgetFile.window.failures
    /\ budgetFile.window.failures <= MAX

\* Between two successes, any 2 * MAX + 1 failed logins in a row take at least
\* one WINDOW: what the shared IP can suffer whatever the agent does.
SlidingBound ==
  robbed \/ \A k \in 1 .. Len(portalFails) - 2 * MAX :
              portalFails[k + 2 * MAX] - portalFails[k] >= WINDOW

\* After a recorded 429 nobody holds a reservation, nor sends a login, until a
\* WINDOW has passed: a process cannot act on a budget it read before the 429.
RateLimitRespected ==
  robbed \/ \A t \in limitedAt, p \in Procs :
              pc[p] \in {"drafted", "reserved", "sent"} => now - t >= WINDOW

-----------------------------------------------------------------------------
(* The inductive invariant behind the properties above.                    *)

\* Until a live process is robbed, a process in the guard owns the lock file.
Owned == \A p \in Procs : InGuard(p) => \E f \in lockFile : f.owner = p

\* A file without a window belongs to an agent that never reached the portal.
NoWindowNoLogin ==
  budgetFile.state # "valid" =>
    /\ budgetFile.window = EmptyWindow
    /\ portalFails = <<>>
    /\ spent = 0
    /\ \A p \in Procs : pc[p] \notin {"reserved", "sent", "accepted", "limited"}

\* A draft counts one more attempt in the window on disk, or the first one in
\* a window that follows it.
DraftFollowsFile ==
  \A p \in Procs : pc[p] = "drafted" =>
    /\ draft[p].failures <= MAX
    /\ draft[p].started <= now
    /\ \/ /\ draft[p].started = budgetFile.window.started
          /\ draft[p].failures = budgetFile.window.failures + 1
       \/ /\ draft[p].failures = 1
          /\ \/ budgetFile.state = "missing"
             \/ budgetFile.window.started + WINDOW <= draft[p].started
          /\ \A k \in 1 .. Len(portalFails) : portalFails[k] <= draft[p].started

\* The failures divide into those older than the previous window (1 .. a),
\* those of the previous window (a + 1 .. b), at most MAX of them, and those of
\* the window on disk, which are all counted there.
SplitAt(a, b) ==
  /\ b - a <= MAX
  /\ \A k \in 1 .. a : portalFails[k] + WINDOW <= budgetFile.window.started
  /\ \A k \in 1 .. b : portalFails[k] <= budgetFile.window.started
  /\ Len(portalFails) - b <= budgetFile.window.failures
  /\ \A p \in Procs : pc[p] \in {"reserved", "sent"} =>
        Len(portalFails) - b + 1 <= budgetFile.window.failures

FailuresByWindow == \E a, b \in 0 .. Len(portalFails) : SplitAt(a, b)

\* While a recorded 429 is younger than WINDOW its mark is still on disk.
LimitOnDisk ==
  \A t \in limitedAt :
    /\ \/ now - t >= WINDOW
       \/ budgetFile = Written([started |-> t, failures |-> MAX])
    /\ \A p \in Procs :
          pc[p] \in {"drafted", "reserved", "sent", "accepted", "limited"} =>
            now - t >= WINDOW

NotInTheFuture ==
  /\ budgetFile.window.started <= now
  /\ \A k \in 1 .. Len(portalFails) : portalFails[k] <= now

\* The portal has just opened a session, and nobody has failed a login since.
AcceptedIsLast == \A p \in Procs : pc[p] = "accepted" => portalFails = <<>>

\* Types, and everything above until a live process is robbed of its lock.
IInv ==
  /\ TypeOK
  /\ \/ robbed
     \/ /\ Owned
        /\ NoWindowNoLogin
        /\ DraftFollowsFile
        /\ FailuresByWindow
        /\ LimitOnDisk
        /\ NotInTheFuture
        /\ AcceptedIsLast
        /\ Accounted
        /\ SlidingBound

-----------------------------------------------------------------------------
(* What the documents promise, and liveness.                               *)

\* What plan 006 section 2.1 promises: two failed logins per 15 minutes, so
\* that eight of the ten the portal allows are left for people.
FailuresPerWindow ==
  \A k \in 1 .. Len(portalFails) - MAX :
    portalFails[k + MAX] - portalFails[k] >= WINDOW

\* A lock file whose owner is no longer in the guard.
Abandoned(f) == ~InGuard(f.owner)

\* A crash does not wedge the agent: an abandoned lock old enough to become
\* stale before the clock stops is eventually removed.
CrashDoesNotWedge ==
  (\E f \in lockFile : Abandoned(f) /\ f.mtime + STALE <= MaxTime)
    ~> ~(\E f \in lockFile : Abandoned(f))

=============================================================================

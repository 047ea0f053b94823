-------------------------------- MODULE Limits --------------------------------
(***************************************************************************)
(* What holds back password guessing for one account, against one clock:   *)
(* the fixed-window counters of auth/rate_limit.rs that every login passes *)
(* first, the lockout in the users row that auth/service.rs counts after   *)
(* it has verified a password, and the two clean-ups that delete counters  *)
(* whose time is over: one a request runs now and then, and the pass of    *)
(* maintenance.rs, a transaction under an advisory lock that two replicas  *)
(* compete for.                                                            *)
(*                                                                         *)
(* Every statement is one action, and between two of them other requests,  *)
(* the clean-ups and the clock go on.  A counter is named by its window,   *)
(* windows are numbered, and 0 stands for a row that is not there.         *)
(***************************************************************************)
EXTENDS Naturals, FiniteSets

CONSTANTS
    Request, Replica, None,
    Limit, Window,          \* the policy of login_identity
    MaxAttempts, LockTime,  \* MAX_LOGIN_ATTEMPTS, LOGIN_LOCK_MINUTES
    Stall,                  \* how old a request gets: the timeout layer
    BatchSize, MaxBatches,  \* BATCH_SIZE, MAX_BATCHES_PER_CATEGORY
    MaxTime, MaxFaults      \* bounds: the clock, passes that fail

ASSUME NoneAssumption == None \notin Replica
ASSUME PolicyAssumption ==
    /\ {Limit, Window, MaxAttempts, LockTime, BatchSize, MaxBatches} \subseteq Nat \ {0}
    /\ {MaxTime, MaxFaults} \subseteq Nat
\* Thirty seconds against windows of a minute and more.
ASSUME TimeoutAssumption == Stall \in Nat /\ Stall < Window

VARIABLES
    clock,
    bucket,    \* rate_limit_buckets: the committed count of each window
    user,      \* failed_login_attempts and locked_until
    req,       \* each request: how far it has come, when it read the clock, the
               \* count its upsert returned, the users row it read
    holder,    \* the replica that has the advisory lock
    pass,      \* its transaction: when it began, deleted rows, batches
    faults,    \* passes that failed
    admitted,  \* history: how many requests each window let through
    fails, locks,  \* history: failures counted, and locks they set, since a success
                   \* or a new password
    early      \* history: those still verifying what they read before the last lock

maintenance == <<holder, pass, faults>>
history == <<admitted, fails, locks, early>>
vars == <<clock, bucket, user, req, maintenance, history>>

-----------------------------------------------------------------------------
(* Counters and windows *)

WindowOf(time) == time \div Window
Windows == 0 .. WindowOf(MaxTime)

\* A mutant: the length of the window is left out.
ExpiresAtStart(w) == w * Window
\* expires_at is two windows after the start.
ExpiresAt(w) == (w + 2) * Window

Expired(now) == {w \in Windows : bucket[w] # 0 /\ ExpiresAt(w) < now}

Without(W) == [w \in Windows |-> IF w \in W THEN 0 ELSE bucket[w]]

NoPass == [began |-> 0, doomed |-> {}, batches |-> 0, done |-> FALSE]

-----------------------------------------------------------------------------
(* Requests: logins, or a request that gives the account a new password *)

NoUser == [attempts |-> 0, locked |-> 0]
Waiting == [pc |-> "idle", start |-> 0, count |-> 0, seen |-> NoUser]
Answered == [Waiting EXCEPT !.pc = "answered"]

Leave(r) == early' = early \ {r}

Running(r) == req[r].pc \in {"count", "counted", "verify"}

\* The handler reads the clock, which tells its window.
Arrive(r) ==
    /\ req[r].pc = "idle"
    /\ req' = [req EXCEPT ![r].pc = "count", ![r].start = clock]
    /\ UNCHANGED <<clock, bucket, user, maintenance, history>>

\* The upsert.  It waits while maintenance has deleted the row.
Count(r) ==
    LET w == WindowOf(req[r].start) IN
    /\ req[r].pc = "count"
    /\ w \notin pass.doomed
    /\ bucket' = [bucket EXCEPT ![w] = @ + 1]
    /\ req' = [req EXCEPT ![r].pc = "counted", ![r].count = bucket[w] + 1]
    /\ UNCHANGED <<clock, user, maintenance, history>>

\* maybe_cleanup, in one request of many; then the verdict, and if it is good
\* the users row is read and the password is verified.
Enforce(r) ==
    LET admit == req[r].count <= Limit IN
    /\ req[r].pc = "counted"
    /\ \/ UNCHANGED bucket
       \/ Expired(clock) \cap pass.doomed = {} /\ bucket' = Without(Expired(clock))
    /\ req' = [req EXCEPT ![r] = IF admit THEN [@ EXCEPT !.pc = "verify", !.seen = user]
                                 ELSE Answered]
    /\ admitted' = [admitted EXCEPT ![WindowOf(req[r].start)] =
                       IF admit THEN @ + 1 ELSE @]
    /\ UNCHANGED <<clock, user, maintenance, fails, locks, early>>

\* A mutant: the failure is added to the attempts that were read.
FailedFromRead(row, read) ==
    IF read.attempts + 1 >= MaxAttempts THEN [attempts |-> 0, locked |-> clock + LockTime]
    ELSE [row EXCEPT !.attempts = read.attempts + 1]
\* A mutant: one failure too late.
FailedOnceMore(row, read) ==
    IF row.attempts + 1 > MaxAttempts THEN [attempts |-> 0, locked |-> clock + LockTime]
    ELSE [row EXCEPT !.attempts = @ + 1]
\* record_failed_login: the row as it is now, one failure later.
Failed(row, read) ==
    IF row.attempts + 1 >= MaxAttempts THEN [attempts |-> 0, locked |-> clock + LockTime]
    ELSE [row EXCEPT !.attempts = @ + 1]

\* The password was wrong.
Fail(r) ==
    LET locking == user.attempts + 1 >= MaxAttempts IN
    /\ req[r].pc = "verify"
    /\ user' = Failed(user, req[r].seen)
    /\ req' = [req EXCEPT ![r] = Answered]
    /\ fails' = fails + 1
    /\ locks' = IF locking THEN locks + 1 ELSE locks
    /\ early' = IF locking THEN {q \in Request : req[q].pc = "verify"} \ {r} ELSE early \ {r}
    /\ UNCHANGED <<clock, bucket, maintenance, admitted>>

\* A mutant: the attempts are looked at, which the lock has set back to 0.
LockedByAttempts(r) == req[r].seen.attempts >= MaxAttempts
\* The row that was read says it is locked still.
Locked(r) == req[r].seen.locked > clock

\* The password was right, but the account is locked.
RefuseLocked(r) ==
    /\ req[r].pc = "verify" /\ Locked(r)
    /\ req' = [req EXCEPT ![r] = Answered]
    /\ Leave(r)
    /\ UNCHANGED <<clock, bucket, user, maintenance, admitted, fails, locks>>

\* The password was right: attempts and lock are cleared, by the id alone.
Succeed(r) ==
    /\ req[r].pc = "verify" /\ ~Locked(r)
    /\ user' = NoUser
    /\ req' = [req EXCEPT ![r] = Answered]
    /\ fails' = 0 /\ locks' = 0
    /\ Leave(r)
    /\ UNCHANGED <<clock, bucket, maintenance, admitted>>

\* The password is changed or reset: attempts and lock are cleared with it.
NewPassword(r) ==
    /\ req[r].pc = "idle"
    /\ req' = [req EXCEPT ![r] = Answered]
    /\ user' = NoUser
    /\ fails' = 0 /\ locks' = 0
    /\ UNCHANGED <<clock, bucket, maintenance, admitted, early>>

\* The timeout layer, a client that hangs up, a failed statement.
Cancel(r) ==
    /\ Running(r)
    /\ req' = [req EXCEPT ![r] = Answered]
    /\ Leave(r)
    /\ UNCHANGED <<clock, bucket, user, maintenance, admitted, fails, locks>>

-----------------------------------------------------------------------------
(* Maintenance *)

\* pg_try_advisory_xact_lock: the replica that does not get it skips its pass.
TryLock(p) ==
    /\ holder = None
    /\ holder' = p
    /\ pass' = [NoPass EXCEPT !.began = clock]
    /\ UNCHANGED <<clock, bucket, user, req, faults, history>>

\* The oldest expired rows, at most BatchSize.  now() is when the transaction
\* began, and a batch that is not full is the last.
DeleteBatch(p) ==
    LET left == Expired(pass.began) \ pass.doomed
        oldest == {w \in left : Cardinality({v \in left : v < w}) < BatchSize}
    IN
    /\ holder = p /\ ~pass.done
    /\ pass' = [pass EXCEPT
                  !.doomed = @ \cup oldest, !.batches = @ + 1,
                  !.done = Cardinality(oldest) < BatchSize \/ pass.batches + 1 = MaxBatches]
    /\ UNCHANGED <<clock, bucket, user, req, holder, faults, history>>

\* A mutant: a pass that leaves a backlog counts as failed.
CommitIfFinished(p) ==
    /\ holder = p /\ pass.done
    /\ bucket' = IF Expired(pass.began) \subseteq pass.doomed THEN Without(pass.doomed)
                 ELSE bucket
    /\ holder' = None /\ pass' = NoPass
    /\ UNCHANGED <<clock, user, req, faults, history>>
CommitPass(p) ==
    /\ holder = p /\ pass.done
    /\ bucket' = Without(pass.doomed)
    /\ holder' = None /\ pass' = NoPass
    /\ UNCHANGED <<clock, user, req, faults, history>>

\* An error or a stop rolls everything back and frees the lock.
FailPass(p) ==
    /\ holder = p /\ faults < MaxFaults
    /\ faults' = faults + 1
    /\ holder' = None /\ pass' = NoPass
    /\ UNCHANGED <<clock, bucket, user, req, history>>

-----------------------------------------------------------------------------
\* Time passes, but no request gets older than the timeout.
Advance ==
    /\ clock < MaxTime
    /\ \A r \in Request : Running(r) => clock - req[r].start < Stall
    /\ clock' = clock + 1
    /\ UNCHANGED <<bucket, user, req, maintenance, history>>

Init ==
    /\ clock = 0
    /\ bucket = [w \in Windows |-> 0]
    /\ user = NoUser
    /\ req = [r \in Request |-> Waiting]
    /\ holder = None /\ pass = NoPass /\ faults = 0
    /\ admitted = [w \in Windows |-> 0]
    /\ fails = 0 /\ locks = 0 /\ early = {}

Maintain(p) == TryLock(p) \/ DeleteBatch(p) \/ CommitPass(p)

Next ==
    \/ \E r \in Request :
          \/ Arrive(r) \/ Count(r) \/ Enforce(r)
          \/ Fail(r) \/ RefuseLocked(r) \/ Succeed(r) \/ NewPassword(r) \/ Cancel(r)
    \/ \E p \in Replica : Maintain(p) \/ FailPass(p)
    \/ Advance

Spec == Init /\ [][Next]_vars

\* Each replica's interval timer keeps starting passes, and a pass goes on to
\* its end; nothing is assumed of requests.
FairSpec == Spec /\ WF_vars(\E p \in Replica : Maintain(p))

-----------------------------------------------------------------------------
(* Properties *)

UserRow == [attempts : Nat, locked : Nat]
RequestState == [pc : {"idle", "count", "counted", "verify", "answered"},
                 start : 0 .. MaxTime, count : Nat, seen : UserRow]
PassState == [began : 0 .. MaxTime, doomed : SUBSET Windows,
              batches : 0 .. MaxBatches, done : BOOLEAN]

\* Every variable has its type; an account is not one failure past its lock.
TypeOK ==
    /\ clock \in 0 .. MaxTime
    /\ bucket \in [Windows -> Nat]
    /\ user \in UserRow /\ user.attempts < MaxAttempts
    /\ req \in [Request -> RequestState]
    /\ holder \in Replica \cup {None}
    /\ pass \in PassState
    /\ faults \in 0 .. MaxFaults
    /\ admitted \in [Windows -> Nat]
    /\ fails \in Nat /\ locks \in Nat
    /\ early \subseteq Request

\* No window admits more logins than its limit: no counter is deleted, by
\* either clean-up, while a request of its window may still come to count.
WindowLimit == \A w \in Windows : admitted[w] <= Limit

\* No failure is lost, however they overlap: since the last success or new
\* password each one is among the attempts in the row or was used up by a lock.
EveryFailureCounted == fails = user.attempts + MaxAttempts * locks

\* A lock is lifted before its time only by a new password or by a login that
\* had read the row before the lock was set; it is never shortened otherwise.
LockHolds ==
    [][user.locked > clock /\ user'.locked < user.locked
       => \E r \in Request :
             /\ req[r].pc = "idle" \/ (req[r].pc = "verify" /\ r \in early)
             /\ req'[r].pc = "answered"]_vars

\* What has expired is deleted although a pass is bounded, its transaction may
\* fail and the other replica may have the lock.
ExpiredGoes == \A w \in Windows : (w \in Expired(clock)) ~> (bucket[w] = 0)

-----------------------------------------------------------------------------
(* The inductive invariant *)

\* A request in flight was counted by a clock that is not far behind.
TimeInv ==
    /\ \A r \in Request : Running(r) => req[r].start <= clock /\ clock <= req[r].start + Stall
    /\ pass.began <= clock
    /\ pass.done \/ pass.batches < MaxBatches

\* Those whose count is good and who have not been let through yet.
Holding(w) ==
    {r \in Request : req[r].pc = "counted" /\ req[r].count <= Limit /\ WindowOf(req[r].start) = w}
Granted(w) == admitted[w] + Cardinality(Holding(w))

\* A counter is never behind what was granted, until its time is over.
GrantInv ==
    \A w \in Windows :
        /\ IsFiniteSet(Holding(w))
        /\ Granted(w) <= Limit
        /\ clock <= ExpiresAt(w) => Granted(w) <= bucket[w]

DoomedInv == \A w \in pass.doomed : ExpiresAt(w) < clock

\* Who has not read the row before the last lock has read that lock.
LockInv ==
    /\ user.locked <= clock + LockTime
    /\ \A r \in Request :
          req[r].pc = "verify" /\ r \notin early => user.locked <= req[r].seen.locked

IInv == TimeInv /\ GrantInv /\ DoomedInv /\ LockInv /\ EveryFailureCounted
=============================================================================

------------------------------- MODULE Sessions -------------------------------
(***************************************************************************)
(* The session life cycle of one account, at the grain of single SQL       *)
(* statements.  Every request of apps/backend/src/auth that creates, uses  *)
(* or ends a session is a transaction made of several statements, run      *)
(* under PostgreSQL's READ COMMITTED: a statement sees what is committed   *)
(* when it starts, an UPDATE or DELETE waits for a row another open        *)
(* transaction has written and then looks at the row again, and a foreign  *)
(* key check takes a shared lock on the users row that only its deletion   *)
(* conflicts with.                                                         *)
(*                                                                         *)
(* A request creates at most one session, so a session is named by the     *)
(* request that created it.  A request refused before its first write      *)
(* changes nothing, and is not a step of the model.                        *)
(***************************************************************************)
EXTENDS Naturals, FiniteSets

CONSTANTS
    Request,    \* the requests of a behaviour; each runs one operation
    Password,   \* the passwords the account may have
    Operation,  \* the operations the requests may run
    None        \* no request (nobody holds the lock, nothing presented), no password

\* Those that end one session, their target.
Enders == {"refresh", "logout", "revoke"}
\* Those that end all of the account's sessions, or all but one.
BulkOperations == {"revoke_others", "change", "reset"}
Operations == {"register", "login", "passkey", "refresh", "logout", "revoke",
               "revoke_others", "change", "reset", "delete"}

ASSUME OperationAssumption == Operation \subseteq Operations
ASSUME NoneAssumption == None \notin Request

VARIABLES
    user,      \* the committed users row
    sess,      \* the committed sessions rows
    userlock,  \* the transaction that has written the users row
    draft,     \* the users row as that transaction has written it
    keyshare,  \* transactions with a foreign-key lock on the users row
    rowlock,   \* for each session, the transaction that is ending it
    op, pc,    \* the operation each request runs, and how far it has come
    target,    \* the session it acts on: rotates, ends or spares
    seen,      \* the users row it works with (UserRecord), read earlier
    rows       \* sessions its current UPDATE has still to visit

db == <<user, sess>>
locks == <<userlock, draft, keyshare, rowlock>>
locals == <<op, target, seen, rows>>
vars == <<user, sess, userlock, draft, keyshare, rowlock,
          op, pc, target, seen, rows>>

-----------------------------------------------------------------------------
(* Rows *)

UserState == {"absent", "present", "deleted"}
UserRow == [state : UserState, ver : Nat, pw : Password \cup {None}]
SessionRow == [state : {"none", "live", "expired", "revoked"}, ver : Nat]

NoUser == [state |-> "absent", ver |-> 0, pw |-> None]
\* A mutant: the account is only marked disabled.
DisabledUser == [state |-> "disabled", ver |-> 0, pw |-> None]

DeletedUser == [state |-> "deleted", ver |-> 0, pw |-> None]
NoSession == [state |-> "none", ver |-> 0]

\* WHERE revoked_at IS NULL: an expired row still satisfies it.
Unrevoked(s) == sess[s].state \in {"live", "expired"}
InState(s, v) == [state |-> v, ver |-> sess[s].ver]
Exists(s) == sess[s].state # "none"

\* What authenticated_user and me ask of an access token.
Accepted(s) ==
    /\ user.state = "present"
    /\ sess[s].state = "live"
    /\ sess[s].ver = user.ver

-----------------------------------------------------------------------------
(* Locks *)

Running == {r \in Request : pc[r] \notin {"idle", "ok", "failed"}}

UserRowFree(r) == userlock \in {None, r}
SessionFree(r, s) == rowlock[s] \in {None, r}

\* A mutant: foreign key checks conflict with every writer of the users row.
AnyWriter == {userlock} \ {None}

\* The transaction that deletes the users row, as a set of at most one.
Deleter == {q \in {userlock} \ {None} : draft.state = "deleted"}
KeyShareFree(r) == Deleter \subseteq {r}

\* The users row as the statements of r see it.
UserSeenBy(r) == IF userlock = r THEN draft ELSE user

-----------------------------------------------------------------------------
(* How a transaction ends *)

\* A mutant: the transaction is left open on its connection, and keeps the
\* session rows it has locked.
ReleaseButRows(r) ==
    /\ userlock' = IF userlock = r THEN None ELSE userlock
    /\ draft' = IF userlock = r THEN NoUser ELSE draft
    /\ keyshare' = keyshare \ {r}
    /\ UNCHANGED rowlock

Release(r) ==
    /\ userlock' = IF userlock = r THEN None ELSE userlock
    /\ draft' = IF userlock = r THEN NoUser ELSE draft
    /\ keyshare' = keyshare \ {r}
    /\ rowlock' = [s \in Request |-> IF rowlock[s] = r THEN None
                                                       ELSE rowlock[s]]

End(r, outcome) ==
    /\ pc' = [pc EXCEPT ![r] = outcome]
    /\ rows' = [rows EXCEPT ![r] = {}]
    /\ Release(r)
    /\ UNCHANGED <<op, target>>

Rollback(r) ==
    /\ End(r, "failed")
    /\ seen' = [seen EXCEPT ![r] = NoUser]
    /\ UNCHANGED db

\* The operations that call create_session.
Creators == {"register", "login", "passkey", "refresh", "change"}

\* One transaction's writes become visible together.  "ok" is a committed
\* transaction, whether or not its answer still reaches the client.
Commit(r) ==
    /\ pc[r] = "commit"
    /\ user' = UserSeenBy(r)
    /\ sess' = [s \in Request |->
                  IF r \in Deleter THEN NoSession
                  ELSE IF s = r /\ op[r] \in Creators
                       THEN [state |-> "live", ver |-> seen[r].ver]
                  ELSE IF rowlock[s] = r
                       THEN InState(s, "revoked")
                  ELSE sess[s]]
    /\ End(r, "ok")
    /\ seen' = [seen EXCEPT ![r] = NoUser]

-----------------------------------------------------------------------------
(* Statements the operations share *)

Begin(r, o, s, next) ==
    /\ pc[r] = "idle"
    /\ o \in Operation
    /\ op' = [op EXCEPT ![r] = o]
    /\ target' = [target EXCEPT ![r] = s]
    /\ pc' = [pc EXCEPT ![r] = next]

\* Where a request goes when its UPDATE sessions has no row left to visit.
AfterRows(r, left) ==
    IF left # {} THEN "rows"
    ELSE IF op[r] = "delete" THEN "commit" ELSE "insert"

\* UPDATE sessions over all of the account's rows: the statement's snapshot.
\* Sessions other transactions commit from here on are not in it.
BulkSnapshot(r) ==
    /\ pc[r] = "bulk"
    /\ LET visible == {s \in Request : Unrevoked(s)}
           found == IF op[r] = "revoke_others" THEN visible \ {target[r]}
                                               ELSE visible
       IN /\ rows' = [rows EXCEPT ![r] = found]
          /\ pc' = [pc EXCEPT ![r] = AfterRows(r, found)]
    /\ UNCHANGED <<db, locks, op, target, seen>>

\* The UPDATE (or the cascade of a DELETE) reaches row s, once nobody else
\* has it, and finds it still unrevoked.
LockRow(r, s) ==
    /\ pc[r] = "rows"
    /\ s \in rows[r]
    /\ SessionFree(r, s)
    /\ Unrevoked(s)
    /\ rowlock' = [rowlock EXCEPT ![s] = r]
    /\ rows' = [rows EXCEPT ![r] = @ \ {s}]
    /\ pc' = [pc EXCEPT ![r] = AfterRows(r, rows[r] \ {s})]
    /\ UNCHANGED <<db, userlock, draft, keyshare, op, target, seen>>

\* A mutant: nobody counts the rows changed.
PassRow(r, s) ==
    /\ pc[r] = "rows"
    /\ s \in rows[r]
    /\ SessionFree(r, s)
    /\ ~Unrevoked(s)
    /\ rows' = [rows EXCEPT ![r] = @ \ {s}]
    /\ pc' = [pc EXCEPT ![r] = AfterRows(r, rows[r] \ {s})]
    /\ UNCHANGED <<db, locks, op, target, seen>>

\* It finds the row ended meanwhile.  Only refresh and revoke count the rows
\* they changed, and give up when there is none.
MissRow(r, s) ==
    /\ pc[r] = "rows"
    /\ s \in rows[r]
    /\ SessionFree(r, s)
    /\ ~Unrevoked(s)
    /\ \/ /\ op[r] \in {"refresh", "revoke"}
          /\ Rollback(r)
       \/ /\ op[r] \notin {"refresh", "revoke"}
          /\ rows' = [rows EXCEPT ![r] = @ \ {s}]
          /\ pc' = [pc EXCEPT ![r] = AfterRows(r, rows[r] \ {s})]
          /\ UNCHANGED <<db, locks, op, target, seen>>

\* A mutant: sessions and audit events do not reference users.
InsertUnreferenced(r) ==
    /\ pc[r] = "insert"
    /\ pc' = [pc EXCEPT ![r] = IF op[r] = "delete" THEN "delete" ELSE "commit"]
    /\ UNCHANGED <<db, userlock, draft, keyshare, rowlock, locals>>

\* The transaction's INSERTs: the session it creates, if it creates one, and
\* its audit event, both checked against the users row they refer to.
Insert(r) ==
    /\ pc[r] = "insert"
    /\ KeyShareFree(r)
    /\ \/ /\ UserSeenBy(r).state = "present"
          /\ keyshare' = keyshare \cup {r}
          /\ pc' = [pc EXCEPT ![r] = IF op[r] = "delete" THEN "delete"
                                                         ELSE "commit"]
          /\ UNCHANGED <<db, userlock, draft, rowlock, locals>>
       \/ /\ UserSeenBy(r).state # "present"
          /\ Rollback(r)

-----------------------------------------------------------------------------
(* Operations *)

\* INSERT INTO users: the unique email_normalized index makes it wait for
\* another insertion of the same address, and refuses a committed one.
Register(r) ==
    /\ user.state = "absent"
    /\ UserRowFree(r)
    /\ Begin(r, "register", None, "insert")
    /\ \E p \in Password :
          LET row == [state |-> "present", ver |-> 1, pw |-> p]
          IN /\ draft' = row
             /\ seen' = [seen EXCEPT ![r] = row]
    /\ userlock' = r
    /\ UNCHANGED <<db, keyshare, rowlock, rows>>

\* login reads the users row outside any transaction and verifies the
\* password against what it read (only a valid one goes on).
LoginRead(r) ==
    /\ user.state = "present"
    /\ Begin(r, "login", None, "touch")
    /\ seen' = [seen EXCEPT ![r] = user]
    /\ UNCHANGED <<db, locks, rows>>

\* login's transaction starts by resetting the failure counters, WHERE id.
LoginTouch(r) ==
    /\ pc[r] = "touch"
    /\ UserRowFree(r)
    /\ pc' = [pc EXCEPT ![r] = "insert"]
    /\ \/ /\ user.state = "present"
          /\ userlock' = r
          /\ draft' = user
       \/ /\ user.state # "present"
          /\ UNCHANGED <<userlock, draft>>
    /\ UNCHANGED <<db, keyshare, rowlock, locals>>

\* finish_passkey_login and login_with_backup_code: load_user, which takes
\* no lock, then create_session.
SecondFactorRead(r) ==
    /\ user.state = "present"
    /\ Begin(r, "passkey", None, "insert")
    /\ seen' = [seen EXCEPT ![r] = user]
    /\ UNCHANGED <<db, locks, rows>>

\* refresh reads the session joined with its user; cookie and CSRF token
\* belong to the same session.
RefreshRead(r, s) ==
    /\ sess[s].state = "live"
    /\ user.state = "present"
    /\ Begin(r, "refresh", s, "rows")
    /\ seen' = [seen EXCEPT ![r] = user]
    /\ rows' = [rows EXCEPT ![r] = {s}]
    /\ UNCHANGED <<db, locks>>

\* logout's UPDATE finds the row by its token, expired or not.
Logout(r, s) ==
    /\ Unrevoked(s)
    /\ SessionFree(r, s)
    /\ Begin(r, "logout", s, "insert")
    /\ rowlock' = [rowlock EXCEPT ![s] = r]
    /\ UNCHANGED <<db, userlock, draft, keyshare, seen, rows>>

\* revoke_session: one other session, by its id.
RevokeOne(r, s, t) ==
    /\ Accepted(s)
    /\ Exists(t) /\ t # s
    /\ Begin(r, "revoke", t, "rows")
    /\ rows' = [rows EXCEPT ![r] = {t}]
    /\ UNCHANGED <<db, locks, seen>>

RevokeOthers(r, s) ==
    /\ Accepted(s)
    /\ Begin(r, "revoke_others", s, "bulk")
    /\ UNCHANGED <<db, locks, seen, rows>>

\* change_password authenticates, verifies the current password against the
\* row it read and hashes the new one, all before its transaction.
ChangeRead(r, s) ==
    /\ Accepted(s)
    /\ Begin(r, "change", None, "change")
    /\ seen' = [seen EXCEPT ![r] = user]
    /\ UNCHANGED <<db, locks, rows>>

\* A mutant: the password changes, token_version does not.
SameVersion(r, p) ==
    LET row == [state |-> "present", ver |-> user.ver, pw |-> p]
    IN /\ userlock' = r
       /\ draft' = row
       /\ seen' = [seen EXCEPT ![r] = row]

NewCredentials(r, p) ==
    LET row == [state |-> "present", ver |-> user.ver + 1, pw |-> p]
    IN /\ userlock' = r
       /\ draft' = row
       /\ seen' = [seen EXCEPT ![r] = row]

\* A mutant: UPDATE users ... WHERE id, adding one to whatever version is there.
ChangeUserById(r) ==
    /\ pc[r] = "change"
    /\ UserRowFree(r)
    /\ \/ /\ user.state = "present"
          /\ \E p \in Password \ {seen[r].pw} : NewCredentials(r, p)
          /\ pc' = [pc EXCEPT ![r] = "bulk"]
          /\ UNCHANGED <<db, keyshare, rowlock, op, target, rows>>
       \/ user.state # "present" /\ Rollback(r)

\* A mutant: the same, writing back one more than the version it read.
ChangeUserFromRead(r) ==
    /\ pc[r] = "change"
    /\ UserRowFree(r)
    /\ \/ /\ user.state = "present"
          /\ \E p \in Password \ {seen[r].pw} :
                LET row == [state |-> "present", ver |-> seen[r].ver + 1, pw |-> p]
                IN draft' = row /\ seen' = [seen EXCEPT ![r] = row]
          /\ userlock' = r
          /\ pc' = [pc EXCEPT ![r] = "bulk"]
          /\ UNCHANGED <<db, keyshare, rowlock, op, target, rows>>
       \/ user.state # "present" /\ Rollback(r)

\* UPDATE users ... WHERE id AND token_version: the version it read.
ChangeUser(r) ==
    /\ pc[r] = "change"
    /\ UserRowFree(r)
    /\ \/ /\ user.state = "present" /\ user.ver = seen[r].ver
          /\ \E p \in Password \ {seen[r].pw} : NewCredentials(r, p)
          /\ pc' = [pc EXCEPT ![r] = "bulk"]
          /\ UNCHANGED <<db, keyshare, rowlock, op, target, rows>>
       \/ /\ ~(user.state = "present" /\ user.ver = seen[r].ver)
          /\ Rollback(r)

\* confirm_password_reset, from its UPDATE users on (AccountTokens has the
\* token it consumed before): unconditional but for the account's status.
ResetUser(r) ==
    /\ user.state = "present"
    /\ UserRowFree(r)
    /\ Begin(r, "reset", None, "bulk")
    /\ \E p \in Password : NewCredentials(r, p)
    /\ UNCHANGED <<db, keyshare, rowlock, rows>>

\* delete_account: password verified against the row read here.  Its audit
\* event is inserted before the account is deleted.
DeleteRead(r, s) ==
    /\ Accepted(s)
    /\ Begin(r, "delete", None, "insert")
    /\ UNCHANGED <<db, locks, seen, rows>>

\* DELETE FROM users needs the row to itself; the cascade then visits every
\* session.
DeleteUser(r) ==
    /\ pc[r] = "delete"
    /\ UserRowFree(r)
    /\ keyshare \subseteq {r}
    /\ LET found == {s \in Request : Exists(s)}
       IN /\ userlock' = r
          /\ draft' = DeletedUser
          /\ rows' = [rows EXCEPT ![r] = found]
          /\ pc' = [pc EXCEPT ![r] = AfterRows(r, found)]
    /\ UNCHANGED <<db, keyshare, rowlock, op, target, seen>>

-----------------------------------------------------------------------------
(* What the environment does *)

\* expires_at or idle_expires_at passes.
Expire(s) ==
    /\ sess[s].state = "live"
    /\ sess' = [sess EXCEPT ![s] = InState(s, "expired")]
    /\ UNCHANGED <<user, locks, locals, pc>>

\* The 30-second TimeoutLayer drops the handler, a statement fails or the
\* process stops: the transaction is rolled back.
Cancel(r) == r \in Running /\ Rollback(r)

\* The requests whose end r is waiting for.
WaitsFor(r) ==
    CASE pc[r] \in {"touch", "change"} -> {userlock} \ {r, None}
      [] pc[r] = "insert" -> Deleter \ {r}
      [] pc[r] = "delete" -> ({userlock} \cup keyshare) \ {r, None}
      [] pc[r] = "rows" -> IF \E s \in rows[r] : SessionFree(r, s)
                           THEN {} ELSE {rowlock[s] : s \in rows[r]}
      [] OTHER -> {}

Deadlocked(D) == D # {} /\ \A r \in D : WaitsFor(r) \cap D # {}

\* PostgreSQL aborts a member of a wait cycle after deadlock_timeout.
DeadlockVictim(r) ==
    /\ r \in Running
    /\ \E D \in SUBSET Running : r \in D /\ Deadlocked(D)
    /\ Rollback(r)

-----------------------------------------------------------------------------

Start(r) ==
    \/ Register(r) \/ LoginRead(r) \/ SecondFactorRead(r) \/ ResetUser(r)
    \/ \E s \in Request :
          \/ RefreshRead(r, s) \/ Logout(r, s) \/ RevokeOthers(r, s)
          \/ ChangeRead(r, s) \/ DeleteRead(r, s)
          \/ \E t \in Request : RevokeOne(r, s, t)

Continue(r) ==
    \/ LoginTouch(r) \/ ChangeUser(r) \/ BulkSnapshot(r)
    \/ \E s \in Request : LockRow(r, s) \/ MissRow(r, s)
    \/ Insert(r) \/ DeleteUser(r) \/ Commit(r)

Init ==
    /\ user = NoUser
    /\ sess = [s \in Request |-> NoSession]
    /\ userlock = None
    /\ draft = NoUser
    /\ keyshare = {}
    /\ rowlock = [s \in Request |-> None]
    /\ op = [r \in Request |-> "none"]
    /\ pc = [r \in Request |-> "idle"]
    /\ target = [r \in Request |-> None]
    /\ seen = [r \in Request |-> NoUser]
    /\ rows = [r \in Request |-> {}]

Next ==
    \/ \E r \in Request :
          Start(r) \/ Continue(r) \/ Cancel(r) \/ DeadlockVictim(r)
    \/ \E s \in Request : Expire(s)

Spec == Init /\ [][Next]_vars

\* A request that can take its next statement does, and PostgreSQL breaks
\* every wait cycle.  Nothing is assumed of Start, Cancel and Expire.
Fairness == \A r \in Request : WF_vars(Continue(r)) /\ WF_vars(DeadlockVictim(r))
FairSpec == Spec /\ Fairness

-----------------------------------------------------------------------------
(* Properties *)

PC == {"idle", "touch", "insert", "rows", "bulk", "change",
       "delete", "commit", "ok", "failed"}

\* Every variable has its type.
TypeOK ==
    /\ user \in UserRow
    /\ sess \in [Request -> SessionRow]
    /\ userlock \in Request \cup {None}
    /\ draft \in UserRow
    /\ keyshare \subseteq Request
    /\ rowlock \in [Request -> Request \cup {None}]
    /\ op \in [Request -> Operations \cup {"none"}]
    /\ pc \in [Request -> PC]
    /\ target \in [Request -> Request \cup {None}]
    /\ seen \in [Request -> UserRow]
    /\ rows \in [Request -> SUBSET Request]

\* A session ends once: of all the requests that rotate it, log it out or
\* revoke it by its id, however they overlap, at most one is answered as done.
\* So refresh is single-use, and a session that was logged out or revoked has
\* no successor.
SessionEndsOnce ==
    \A r, q \in Request :
        /\ {op[r], op[q]} \subseteq Enders
        /\ pc[r] = "ok" /\ pc[q] = "ok"
        /\ target[r] = target[q]
        => r = q

\* Deleting the account takes every session with it, the ones being created
\* by concurrent requests included.
NoOrphanSession ==
    user.state = "deleted" => \A s \in Request : ~Exists(s)

\* No lost credential update: token_version counts every password change and
\* reset that was answered as done.
EveryChangeCounted ==
    user.state = "present" =>
        user.ver = 1 + Cardinality({r \in Request :
                          op[r] \in {"change", "reset"} /\ pc[r] = "ok"})

\* A password change replaces exactly the password it verified, however long
\* ago it read it.
ChangeReplacesVerified ==
    [][\A r \in Request :
          pc[r] = "change" /\ pc'[r] = "bulk" => seen[r].pw = user.pw]_vars

\* Lock order: requests only wait for each other in a circle when one of them
\* deletes the account, or two of them walk over several sessions.
LockOrder ==
    \A D \in SUBSET Running : Deadlocked(D) =>
        \/ \E r \in D : op[r] = "delete"
        \/ \E r, q \in D : r # q /\ {op[r], op[q]} \subseteq BulkOperations

\* The inductive invariant behind the theorems of SessionsProofs, in parts.

\* Only transactions that are still open hold locks; each session is named
\* after a request that committed it; a request starts from nothing.
LocksOfRunning ==
    /\ userlock \in Running \cup {None}
    /\ \A s \in Request : rowlock[s] \in Running \cup {None}
    /\ keyshare \subseteq Running
    /\ \A r \in Request : Exists(r) => pc[r] = "ok" /\ op[r] \in Creators
    /\ \A r \in Request :
          \/ pc[r] \in {"commit", "delete"}
          \/ pc[r] = "rows" /\ op[r] = "delete"
          => r \in keyshare

\* What the open transaction that wrote the users row has made of it.
DraftInv ==
    \A r \in Request : userlock = r =>
        \/ /\ op[r] = "register" /\ user.state = "absent"
           /\ draft.state = "present" /\ draft.ver = 1 /\ seen[r] = draft
        \/ op[r] = "login" /\ user.state = "present" /\ draft = user
        \/ /\ op[r] \in {"change", "reset"} /\ user.state = "present"
           /\ draft.state = "present" /\ draft.ver = user.ver + 1
           /\ seen[r] = draft
        \/ /\ op[r] = "delete" /\ user.state = "present"
           /\ draft = DeletedUser /\ pc[r] \in {"rows", "commit"}

\* Where an operation is determines what it holds.
StageInv ==
    \A r \in Request :
        /\ pc[r] \in {"rows", "commit"} /\ op[r] = "delete" => userlock = r
        /\ pc[r] \in {"bulk", "rows", "insert", "commit"}
              /\ op[r] \in {"register", "change", "reset"} => userlock = r
        /\ pc[r] = "touch" => op[r] = "login"
        /\ pc[r] = "change" => op[r] = "change" /\ userlock # r
        /\ pc[r] = "delete" => op[r] = "delete"
        /\ pc[r] = "bulk" => op[r] \in BulkOperations
        /\ pc[r] = "rows" =>
              op[r] \in {"refresh", "revoke", "delete"} \cup BulkOperations
        /\ r \in Running => op[r] \in Operations

\* A foreign-key lock keeps the account from being deleted.
KeyShareInv ==
    /\ \A r \in keyshare : user.state = "present" \/ userlock = r
    /\ \A d \in Deleter : keyshare \subseteq {d}

\* A row lock means the row is still unrevoked; each operation locks the rows
\* it acts on and no others.
RowLockInv ==
    \A s, r \in Request : rowlock[s] = r =>
        /\ Unrevoked(s)
        /\ op[r] \in Enders \cup BulkOperations \cup {"delete"}
        /\ op[r] \in Enders => s = target[r]

\* While an account is being deleted its unrevoked sessions are the cascade's:
\* locked by it, or still to be visited.
CascadeInv ==
    \A r, s \in Request :
        op[r] = "delete" /\ pc[r] \in {"rows", "commit"} /\ Unrevoked(s)
        => rowlock[s] = r \/ (pc[r] = "rows" /\ s \in rows[r])

\* From its rotation or revocation to its end a request holds its target,
\* and once it is answered the target has ended.
TargetInv ==
    \A r \in Request :
        /\ pc[r] # "idle" /\ op[r] \in Enders =>
              target[r] \in Request /\ pc[target[r]] = "ok"
        /\ pc[r] = "rows" /\ op[r] \in Enders => rows[r] = {target[r]}
        /\ pc[r] \in {"insert", "commit"} /\ op[r] \in Enders =>
              rowlock[target[r]] = r
        /\ pc[r] = "ok" /\ op[r] \in Enders => ~Unrevoked(target[r])

\* No request works with a version the account has not reached, and one that
\* is changing the password knows the password of the version it read.
SeenInv ==
    \A r \in Running : op[r] \in {"login", "passkey", "refresh"} \/ pc[r] = "change" =>
        /\ user.state # "absent"
        /\ user.state = "present" => seen[r].ver <= user.ver
        /\ /\ pc[r] = "change" /\ user.state = "present"
           /\ seen[r].ver = user.ver
           => seen[r].pw = user.pw

IInv ==
    /\ LocksOfRunning /\ DraftInv /\ StageInv /\ KeyShareInv
    /\ RowLockInv /\ CascadeInv /\ TargetInv /\ SeenInv /\ NoOrphanSession

\* Every request that was started is answered.
EveryRequestAnswered ==
    \A r \in Request : pc[r] # "idle" ~> pc[r] \in {"ok", "failed"}

\* The requests, statement by statement, implement the ledger in which each
\* successful request is one step.
Ledger == INSTANCE SessionLedger WITH
    Session <- Request,
    account <- user.state,
    version <- user.ver,
    state <- [s \in Request |-> sess[s].state],
    issued <- [s \in Request |-> sess[s].ver],
    parent <- [s \in Request |-> IF op[s] = "refresh" /\ pc[s] = "ok"
                                 THEN target[s] ELSE None]

ImplementsLedger == Ledger!Spec

\* docs/authentication.md: a password change or reset revokes all sessions, so
\* a refresh never turns a session issued before one into a session issued
\* after it.
RefreshStaysInVersion ==
    \A r \in Request :
        op[r] = "refresh" /\ sess[r].state = "live" /\ Exists(target[r])
        => sess[r].ver = sess[target[r]].ver
=============================================================================

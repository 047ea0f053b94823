--------------------------- MODULE SessionsProofs ---------------------------
(***************************************************************************)
(* Proofs about Sessions, for any number of requests and passwords.        *)
(*                                                                         *)
(* IInv is inductive (IInvInit, IInvStep).  From it follow that every      *)
(* session ends once, that a deleted account leaves no session, that every *)
(* password change is counted and replaces the password it verified, which *)
(* circles of waiting requests there are, and that the statements of       *)
(* Sessions implement the one-step requests of SessionLedger.              *)
(***************************************************************************)
EXTENDS Sessions, FiniteSetTheorems, TLAPS

(* Type correctness: every variable of Sessions keeps its type, whatever   *)
(* statements of the handlers in apps/backend/src/auth interleave.         *)
THEOREM TypeCorrect == Spec => []TypeOK
<1>1. Init => TypeOK
  BY DEF Init, TypeOK, UserRow, SessionRow, NoUser, NoSession, UserState, PC
<1>2. TypeOK /\ [Next]_vars => TypeOK'
  <2> SUFFICES ASSUME TypeOK, [Next]_vars PROVE TypeOK'
    OBVIOUS
  <2> USE OperationAssumption, NoneAssumption
      DEF TypeOK, PC, db, locks, locals, Begin, Operations, Running
  <2>u. NoUser \in UserRow /\ DeletedUser \in UserRow /\ NoSession \in SessionRow
    BY DEF UserRow, SessionRow, UserState, NoUser, DeletedUser, NoSession
  <2>0. ASSUME NEW r \in Request, Rollback(r) PROVE TypeOK'
    BY <2>u, <2>0 DEF Rollback, End, Release
  <2>c. ASSUME NEW r \in Request, NEW p \in Password, NewCredentials(r, p)
        PROVE  /\ userlock' \in Request
               /\ draft' \in UserRow
               /\ seen' \in [Request -> UserRow]
    BY <2>c DEF NewCredentials, UserRow, UserState
  <2>1. ASSUME NEW r \in Request, Register(r) PROVE TypeOK'
    BY <2>1 DEF Register, UserRow, UserState
  <2>2. ASSUME NEW r \in Request, LoginRead(r) PROVE TypeOK'
    BY <2>2 DEF LoginRead
  <2>3. ASSUME NEW r \in Request, SecondFactorRead(r) PROVE TypeOK'
    BY <2>3 DEF SecondFactorRead
  <2>4. ASSUME NEW r \in Request, ResetUser(r) PROVE TypeOK'
    BY <2>c, <2>4 DEF ResetUser
  <2>5. ASSUME NEW r \in Request, NEW s \in Request, RefreshRead(r, s) PROVE TypeOK'
    BY <2>5 DEF RefreshRead
  <2>6. ASSUME NEW r \in Request, NEW s \in Request, Logout(r, s) PROVE TypeOK'
    BY <2>6 DEF Logout
  <2>7. ASSUME NEW r \in Request, NEW s \in Request, RevokeOthers(r, s) PROVE TypeOK'
    BY <2>7 DEF RevokeOthers
  <2>8. ASSUME NEW r \in Request, NEW s \in Request, ChangeRead(r, s) PROVE TypeOK'
    BY <2>8 DEF ChangeRead
  <2>9. ASSUME NEW r \in Request, NEW s \in Request, DeleteRead(r, s) PROVE TypeOK'
    BY <2>9 DEF DeleteRead
  <2>10. ASSUME NEW r \in Request, NEW s \in Request, NEW t \in Request,
                RevokeOne(r, s, t) PROVE TypeOK'
    BY <2>10 DEF RevokeOne
  <2>11. ASSUME NEW r \in Request, LoginTouch(r) PROVE TypeOK'
    BY <2>11 DEF LoginTouch
  <2>12. ASSUME NEW r \in Request, ChangeUser(r) PROVE TypeOK'
    BY <2>0, <2>c, <2>12 DEF ChangeUser
  <2>13. ASSUME NEW r \in Request, BulkSnapshot(r) PROVE TypeOK'
    BY <2>13 DEF BulkSnapshot, AfterRows
  <2>14. ASSUME NEW r \in Request, NEW s \in Request, LockRow(r, s) PROVE TypeOK'
    BY <2>14 DEF LockRow, AfterRows
  <2>15. ASSUME NEW r \in Request, NEW s \in Request, MissRow(r, s) PROVE TypeOK'
    <3>1. CASE op[r] \in {"refresh", "revoke"}
      BY <2>0, <2>15, <3>1 DEF MissRow
    <3>2. CASE op[r] \notin {"refresh", "revoke"}
      BY <2>15, <3>2 DEF MissRow, AfterRows
    <3>. QED
      BY <3>1, <3>2
  <2>16. ASSUME NEW r \in Request, Insert(r) PROVE TypeOK'
    BY <2>0, <2>16 DEF Insert
  <2>17. ASSUME NEW r \in Request, DeleteUser(r) PROVE TypeOK'
    BY <2>u, <2>17 DEF DeleteUser, AfterRows
  <2>18. ASSUME NEW r \in Request, Commit(r) PROVE TypeOK'
    <3>1. user' \in UserRow
      BY <2>18 DEF Commit, UserSeenBy
    <3>2. sess' \in [Request -> SessionRow]
      <4>1. seen[r].ver \in Nat
        BY DEF UserRow
      <4>2. \A s \in Request : InState(s, "revoked") \in SessionRow
        BY DEF InState, SessionRow
      <4>. QED
        BY <2>u, <2>18, <4>1, <4>2 DEF Commit, SessionRow
    <3>3. UNCHANGED op /\ UNCHANGED target /\ rows' \in [Request -> SUBSET Request]
          /\ pc' \in [Request -> PC] /\ seen' \in [Request -> UserRow]
      BY <2>u, <2>18 DEF Commit, End
    <3>4. userlock' \in Request \cup {None} /\ draft' \in UserRow
          /\ keyshare' \subseteq Request
          /\ rowlock' \in [Request -> Request \cup {None}]
      BY <2>u, <2>18 DEF Commit, End, Release
    <3>. QED
      BY <3>1, <3>2, <3>3, <3>4
  <2>19. ASSUME NEW s \in Request, Expire(s) PROVE TypeOK'
    BY <2>19 DEF Expire, InState, SessionRow
  <2>20. CASE UNCHANGED vars
    BY <2>20 DEF vars
  <2>. QED
    BY <2>0, <2>1, <2>2, <2>3, <2>4, <2>5, <2>6, <2>7, <2>8, <2>9, <2>10, <2>11, <2>12,
       <2>13, <2>14, <2>15, <2>16, <2>17, <2>18, <2>19, <2>20
       DEF Next, Start, Continue, Cancel, DeadlockVictim
<1>. QED
  BY <1>1, <1>2, PTL DEF Spec

-----------------------------------------------------------------------------
(* The inductive invariant *)

(* IInv holds before the account exists.                                   *)
LEMMA IInvInit == Init => IInv
<1> USE NoneAssumption
<1>. SUFFICES ASSUME Init PROVE IInv
  OBVIOUS
<1>1. Running = {} /\ Deleter = {} /\ \A s \in Request : ~Exists(s) /\ ~Unrevoked(s)
  BY DEF Init, Running, Deleter, Exists, Unrevoked, NoSession
<1>. QED
  BY <1>1 DEF Init, IInv, LocksOfRunning, DraftInv, StageInv, KeyShareInv,
     RowLockInv, CascadeInv, TargetInv, SeenInv, NoOrphanSession, NoUser

\* A request that leaves the rows for what comes next keeps StageInv.
LEMMA StageLeft ==
    ASSUME StageInv, NEW r \in Request, UNCHANGED <<op, userlock>>, pc[r] = "rows",
           op[r] \notin {"refresh", "revoke"},
           op[r] = "delete" => pc'[r] \in {"rows", "commit"},
           op[r] # "delete" => pc'[r] \in {"rows", "insert"},
           \A q \in Request \ {r} : pc'[q] = pc[q]
    PROVE  StageInv'
<1>. DEFINE StageOf(q) ==
       /\ pc[q] \in {"rows", "commit"} /\ op[q] = "delete" => userlock = q
       /\ pc[q] \in {"bulk", "rows", "insert", "commit"}
             /\ op[q] \in {"register", "change", "reset"} => userlock = q
       /\ pc[q] = "touch" => op[q] = "login"
       /\ pc[q] = "change" => op[q] = "change" /\ userlock # q
       /\ pc[q] = "delete" => op[q] = "delete"
       /\ pc[q] = "bulk" => op[q] \in BulkOperations
       /\ pc[q] = "rows" =>
             op[q] \in {"refresh", "revoke", "delete"} \cup BulkOperations
       /\ q \in Running => op[q] \in Operations
<1>1. \A q \in Request : StageOf(q)
  BY DEF StageInv
<1>2. ASSUME NEW q \in Request, q # r PROVE StageOf(q)'
  <2>1. pc'[q] = pc[q] /\ op'[q] = op[q] /\ userlock' = userlock
    BY <1>2
  <2>2. (q \in Running)' <=> q \in Running
    BY <2>1 DEF Running
  <2>. QED
    BY <1>1, <2>1, <2>2
<1>3. StageOf(r)'
  <2>1. op'[r] = op[r] /\ userlock' = userlock /\ pc'[r] \in {"rows", "commit", "insert"}
    OBVIOUS
  <2>2. op[r] \in {"delete"} \cup BulkOperations
    BY <1>1
  <2>3. op[r] \in Operations
    BY <2>2 DEF Operations, BulkOperations
  <2>4. op[r] \in {"delete", "register", "change", "reset"} => userlock = r
    BY <1>1
  <2>5. pc'[r] = "commit" => op[r] = "delete"
    BY <2>1
  <2>. QED
    BY <2>1, <2>2, <2>3, <2>4, <2>5
<1>4. \A q \in Request : StageOf(q)'
  <2>. HIDE DEF StageOf
  <2>. QED
    BY <1>2, <1>3
<1>. QED
  BY <1>4 DEF StageInv

(* Every statement of every request, and every rollback and expiry, keeps  *)
(* IInv: one step per action.                                              *)
LEMMA IInvStep == TypeOK /\ IInv /\ [Next]_vars => IInv'
<1> SUFFICES ASSUME TypeOK, IInv PROVE [Next]_vars => IInv'
  OBVIOUS
<1> USE NoneAssumption
    DEF TypeOK, PC, IInv, LocksOfRunning, DraftInv, StageInv, KeyShareInv,
        RowLockInv, CascadeInv, TargetInv, SeenInv, NoOrphanSession,
        db, locks, locals, Running, Exists, Unrevoked, Creators, Enders,
        BulkOperations, Operations, UserRow, SessionRow, NoSession, NoUser,
        DeletedUser, Deleter
<1>0. ASSUME NEW r \in Running, Rollback(r) PROVE IInv'
  BY <1>0 DEF Rollback, End, Release
<1>1. ASSUME NEW r \in Request, Register(r) PROVE IInv'
  BY <1>1 DEF Register, UserRowFree, Begin
<1>2. ASSUME NEW r \in Request, LoginRead(r) PROVE IInv'
  BY <1>2 DEF LoginRead, Begin
<1>3. ASSUME NEW r \in Request, SecondFactorRead(r) PROVE IInv'
  BY <1>3 DEF SecondFactorRead, Begin
<1>4. ASSUME NEW r \in Request, ResetUser(r) PROVE IInv'
  BY <1>4 DEF ResetUser, Begin, NewCredentials, UserRowFree
<1>5. ASSUME NEW r \in Request, NEW s \in Request, RefreshRead(r, s) PROVE IInv'
  BY <1>5 DEF RefreshRead, Begin
<1>6. ASSUME NEW r \in Request, NEW s \in Request, Logout(r, s) PROVE IInv'
  BY <1>6 DEF Logout, Begin, SessionFree
<1>7. ASSUME NEW r \in Request, NEW s \in Request, RevokeOthers(r, s) PROVE IInv'
  BY <1>7 DEF RevokeOthers, Begin, Accepted
<1>8. ASSUME NEW r \in Request, NEW s \in Request, ChangeRead(r, s) PROVE IInv'
  BY <1>8 DEF ChangeRead, Begin, Accepted
<1>9. ASSUME NEW r \in Request, NEW s \in Request, DeleteRead(r, s) PROVE IInv'
  BY <1>9 DEF DeleteRead, Begin, Accepted
<1>10. ASSUME NEW r \in Request, NEW s \in Request, NEW t \in Request, RevokeOne(r, s, t) PROVE IInv'
  BY <1>10 DEF RevokeOne, Begin, Accepted
<1>11. ASSUME NEW r \in Request, LoginTouch(r) PROVE IInv'
  BY <1>11 DEF LoginTouch, UserRowFree
<1>12. ASSUME NEW r \in Request, ChangeUser(r) PROVE IInv'
  <2>1. CASE user.state = "present" /\ user.ver = seen[r].ver
    <3>1. LocksOfRunning' BY <1>12, <2>1 DEF ChangeUser, UserRowFree, NewCredentials
    <3>2. DraftInv' BY <1>12, <2>1 DEF ChangeUser, UserRowFree, NewCredentials
    <3>3. StageInv' BY <1>12, <2>1 DEF ChangeUser, UserRowFree, NewCredentials
    <3>4. KeyShareInv' BY <1>12, <2>1 DEF ChangeUser, UserRowFree, NewCredentials
    <3>5. RowLockInv' BY <1>12, <2>1 DEF ChangeUser, UserRowFree, NewCredentials
    <3>6. TargetInv' BY <1>12, <2>1 DEF ChangeUser, UserRowFree, NewCredentials
    <3>7. SeenInv' BY SMTT(60), <1>12, <2>1 DEF ChangeUser, UserRowFree, NewCredentials
    <3>8. NoOrphanSession' BY <1>12, <2>1 DEF ChangeUser, UserRowFree, NewCredentials
    <3>9. CascadeInv' BY <1>12, <2>1 DEF ChangeUser, UserRowFree, NewCredentials
    <3>. QED BY <3>1, <3>2, <3>3, <3>4, <3>5, <3>6, <3>7, <3>8, <3>9
  <2>2. CASE ~(user.state = "present" /\ user.ver = seen[r].ver)
    BY <1>12, <2>2, <1>0 DEF ChangeUser
  <2>. QED BY <2>1, <2>2
<1>13. ASSUME NEW r \in Request, BulkSnapshot(r) PROVE IInv'
  BY <1>13 DEF BulkSnapshot, AfterRows
<1>14. ASSUME NEW r \in Request, NEW s \in Request, LockRow(r, s) PROVE IInv'
  <2>1. LocksOfRunning'
    BY <1>14 DEF LockRow, AfterRows
  <2>2. RowLockInv'
    BY <1>14 DEF LockRow, AfterRows
  <2>3. DraftInv' /\ StageInv' /\ KeyShareInv' /\ TargetInv' /\ SeenInv' /\ NoOrphanSession' /\ CascadeInv'
    BY <1>14 DEF LockRow, AfterRows, SessionFree
  <2>. QED BY <2>1, <2>2, <2>3
<1>15. ASSUME NEW r \in Request, NEW s \in Request, MissRow(r, s) PROVE IInv'
  <2>1. CASE op[r] \in {"refresh", "revoke"}
    BY <1>15, <2>1, <1>0 DEF MissRow
  <2>2. CASE op[r] \notin {"refresh", "revoke"}
    <3>1. LocksOfRunning'
      BY <1>15, <2>2 DEF MissRow, AfterRows
    <3>2. DraftInv'
      BY <1>15, <2>2 DEF MissRow, AfterRows
    <3>3. StageInv'
      <4>1. UNCHANGED <<op, userlock>> /\ pc[r] = "rows"
        BY <1>15, <2>2 DEF MissRow
      <4>2. /\ op[r] = "delete" => pc'[r] \in {"rows", "commit"}
            /\ op[r] # "delete" => pc'[r] \in {"rows", "insert"}
            /\ \A q \in Request \ {r} : pc'[q] = pc[q]
        BY <1>15, <2>2 DEF MissRow, AfterRows
      <4>. QED
        BY <2>2, <4>1, <4>2, StageLeft
    <3>4. KeyShareInv'
      BY <1>15, <2>2 DEF MissRow, AfterRows
    <3>5. RowLockInv'
      BY <1>15, <2>2 DEF MissRow, AfterRows
    <3>6. CascadeInv'
      BY <1>15, <2>2 DEF MissRow, AfterRows
    <3>7. TargetInv'
      BY <1>15, <2>2 DEF MissRow, AfterRows
    <3>8. SeenInv'
      BY <1>15, <2>2 DEF MissRow, AfterRows
    <3>9. NoOrphanSession'
      BY <1>15, <2>2 DEF MissRow, AfterRows
    <3>. QED BY <3>1, <3>2, <3>3, <3>4, <3>5, <3>6, <3>7, <3>8, <3>9
  <2>. QED BY <2>1, <2>2
<1>16. ASSUME NEW r \in Request, Insert(r) PROVE IInv'
  <2>1. CASE UserSeenBy(r).state = "present"
    <3>1. LocksOfRunning'
      BY <1>16, <2>1 DEF Insert, KeyShareFree, UserSeenBy
    <3>2. DraftInv'
      BY <1>16, <2>1 DEF Insert, KeyShareFree, UserSeenBy
    <3>3. StageInv'
      <4>1. UNCHANGED <<op, userlock>> /\ pc[r] = "insert"
        BY <1>16, <2>1 DEF Insert
      <4>2. /\ op[r] = "delete" => pc'[r] = "delete"
            /\ op[r] # "delete" => pc'[r] = "commit"
            /\ \A q \in Request \ {r} : pc'[q] = pc[q]
        BY <1>16, <2>1 DEF Insert
      <4>. QED
        BY <4>1, <4>2 DEF StageInv
    <3>4. KeyShareInv'
      BY <1>16, <2>1 DEF Insert, KeyShareFree, UserSeenBy
    <3>5. RowLockInv'
      BY <1>16, <2>1 DEF Insert, KeyShareFree, UserSeenBy
    <3>6. CascadeInv'
      BY <1>16, <2>1 DEF Insert, KeyShareFree, UserSeenBy
    <3>7. TargetInv'
      <4>1. pc' = [pc EXCEPT ![r] = IF op[r] = "delete" THEN "delete" ELSE "commit"]
        BY <1>16, <2>1 DEF Insert
      <4>2. UNCHANGED <<op, target, rows, rowlock, sess>> /\ pc[r] = "insert"
        BY <1>16, <2>1 DEF Insert
      <4>3. pc'[r] \in {"commit", "delete"} /\ \A q \in Request \ {r} : pc'[q] = pc[q]
        BY <4>1
      <4>. QED
        BY <4>2, <4>3
    <3>8. SeenInv'
      BY <1>16, <2>1 DEF Insert, KeyShareFree, UserSeenBy
    <3>9. NoOrphanSession'
      BY <1>16, <2>1 DEF Insert, KeyShareFree, UserSeenBy
    <3>. QED BY <3>1, <3>2, <3>3, <3>4, <3>5, <3>6, <3>7, <3>8, <3>9
  <2>2. CASE UserSeenBy(r).state # "present"
    BY <1>16, <2>2, <1>0 DEF Insert
  <2>. QED BY <2>1, <2>2
<1>17. ASSUME NEW r \in Request, DeleteUser(r) PROVE IInv'
  <2>1. LocksOfRunning'
    BY <1>17 DEF DeleteUser, AfterRows
  <2>2. DraftInv'
    BY <1>17 DEF DeleteUser, AfterRows, UserRowFree
  <2>3. StageInv' /\ KeyShareInv' /\ TargetInv' /\ SeenInv' /\ NoOrphanSession' /\ CascadeInv' /\ RowLockInv'
    BY <1>17 DEF DeleteUser, AfterRows, UserRowFree
  <2>. QED BY <2>1, <2>2, <2>3
<1>18. ASSUME NEW r \in Request, Commit(r) PROVE IInv'
  <2>1. LocksOfRunning'
    <3>1. /\ userlock' \in Running' \cup {None}
          /\ keyshare' \subseteq Running'
      BY <1>18 DEF Commit, End, Release
    <3>2. \A s \in Request : rowlock'[s] \in Running' \cup {None}
      BY <1>18 DEF Commit, End, Release
    <3>3. \A s \in Request : Exists(s)' => pc'[s] = "ok" /\ op'[s] \in Creators
      BY <1>18 DEF Commit, End, InState
    <3>5. (userlock \in Running \cup {None})'
      BY <3>1
    <3>6. (\A s \in Request : rowlock[s] \in Running \cup {None})'
      BY <3>2
    <3>7. (keyshare \subseteq Running)'
      BY <3>1
    <3>8. (\A q \in Request : Exists(q) => pc[q] = "ok" /\ op[q] \in Creators)'
      BY <3>3
    <3>9. (\A q \in Request :
          \/ pc[q] \in {"commit", "delete"}
          \/ pc[q] = "rows" /\ op[q] = "delete"
          => q \in keyshare)'
      BY <1>18 DEF Commit, End, Release
    <3>. QED
      BY ONLY <3>5, <3>6, <3>7, <3>8, <3>9, Zenon DEF LocksOfRunning
  <2>2. RowLockInv'
    BY <1>18 DEF Commit, End, Release, UserSeenBy, InState
  <2>3. StageInv' /\ KeyShareInv' /\ TargetInv' /\ SeenInv' /\ NoOrphanSession' /\ CascadeInv' /\ DraftInv'
    BY <1>18 DEF Commit, End, Release, UserSeenBy, InState
  <2>. QED BY <2>1, <2>2, <2>3
<1>19. ASSUME NEW s \in Request, Expire(s) PROVE IInv'
  BY <1>19 DEF Expire, InState
<1>20. CASE UNCHANGED vars
  BY <1>20 DEF vars
<1>. QED
  BY <1>0, <1>1, <1>2, <1>3, <1>4, <1>5, <1>6, <1>7, <1>8, <1>9, <1>10,
     <1>11, <1>12, <1>13, <1>14, <1>15, <1>16, <1>17, <1>18, <1>19, <1>20
     DEF Next, Start, Continue, Cancel, DeadlockVictim

(* The inductive invariant holds of every behaviour of Sessions.           *)
THEOREM Inductive == Spec => []IInv
<1>1. Spec => []TypeOK
  BY TypeCorrect
<1>. QED
  BY <1>1, IInvInit, IInvStep, PTL DEF Spec

(* Deleting an account (delete_account, lifecycle.rs) leaves none of its   *)
(* sessions, not even one a concurrent request was creating.               *)
THEOREM NoOrphans == Spec => []NoOrphanSession
<1>1. IInv => NoOrphanSession
  BY DEF IInv
<1>. QED
  BY <1>1, Inductive, PTL

-----------------------------------------------------------------------------
(* Only a commit or an expiry changes what is committed *)

(* Every other step leaves the rows alone, answers nobody as done, and     *)
(* keeps what an answered request did.                                     *)
Silent(r) ==
    /\ UNCHANGED <<user, sess>>
    /\ pc[r] # "ok" /\ pc'[r] # "ok"
    /\ \A q \in Request \ {r} :
          pc'[q] = pc[q] /\ op'[q] = op[q] /\ target'[q] = target[q]

LEMMA Quiet ==
  ASSUME TypeOK, NEW r \in Request,
         \/ Start(r) \/ LoginTouch(r) \/ ChangeUser(r) \/ BulkSnapshot(r)
         \/ \E s \in Request : LockRow(r, s) \/ MissRow(r, s)
         \/ Insert(r) \/ DeleteUser(r) \/ Cancel(r) \/ DeadlockVictim(r)
  PROVE  Silent(r)
<1> USE DEF TypeOK, PC, db, locals, Begin, Silent
<1>1. ASSUME Rollback(r), pc[r] # "ok" PROVE Silent(r)
  BY <1>1 DEF Rollback, End
<1>2. CASE Start(r)
  BY <1>2 DEF Start, Register, LoginRead, SecondFactorRead, ResetUser, RefreshRead,
     Logout, RevokeOthers, ChangeRead, DeleteRead, RevokeOne
<1>3. CASE LoginTouch(r)
  BY <1>3 DEF LoginTouch
<1>4. CASE ChangeUser(r)
  BY <1>1, <1>4 DEF ChangeUser
<1>5. CASE BulkSnapshot(r)
  BY <1>5 DEF BulkSnapshot, AfterRows
<1>6. ASSUME NEW s \in Request, LockRow(r, s) PROVE Silent(r)
  BY <1>6 DEF LockRow, AfterRows
<1>7. ASSUME NEW s \in Request, MissRow(r, s) PROVE Silent(r)
  BY <1>1, <1>7 DEF MissRow, AfterRows
<1>8. CASE Insert(r)
  BY <1>1, <1>8 DEF Insert
<1>9. CASE DeleteUser(r)
  BY <1>9 DEF DeleteUser, AfterRows
<1>10. CASE Cancel(r) \/ DeadlockVictim(r)
  BY <1>1, <1>10 DEF Cancel, DeadlockVictim, Running
<1>. QED
  BY <1>2, <1>3, <1>4, <1>5, <1>6, <1>7, <1>8, <1>9, <1>10

-----------------------------------------------------------------------------
(* Each session ends once *)

(* However refreshes, logouts and revocations of a session overlap, one of *)
(* them at most is answered as done: while a request that ends a session   *)
(* may still commit it holds the row, unrevoked (RowLockInv), and the      *)
(* target of one already answered is revoked (TargetInv).                  *)
THEOREM SingleUse == Spec => []SessionEndsOnce
<1>1. Init => SessionEndsOnce
  BY DEF Init, SessionEndsOnce
<1>2. TypeOK /\ IInv /\ SessionEndsOnce /\ [Next]_vars => SessionEndsOnce'
  <2>. SUFFICES ASSUME TypeOK, IInv, SessionEndsOnce, [Next]_vars
                PROVE  SessionEndsOnce'
    OBVIOUS
  <2>1. ASSUME NEW r \in Request, Silent(r) PROVE SessionEndsOnce'
    BY <2>1 DEF SessionEndsOnce, Silent, TypeOK
  <2>2. ASSUME NEW r \in Request, Commit(r) PROVE SessionEndsOnce'
    <3>1. UNCHANGED <<op, target>> /\ \A q \in Request \ {r} : pc'[q] = pc[q]
      BY <2>2 DEF Commit, End, TypeOK
    <3>2. op[r] \in Enders => target[r] \in Request /\ Unrevoked(target[r])
      BY <2>2 DEF Commit, IInv, TargetInv, RowLockInv
    <3>3. \A q \in Request : pc[q] = "ok" /\ op[q] \in Enders => ~Unrevoked(target[q])
      BY DEF IInv, TargetInv
    <3>. QED
      BY <3>1, <3>2, <3>3 DEF SessionEndsOnce
  <2>3. ASSUME NEW s \in Request, Expire(s) PROVE SessionEndsOnce'
    BY <2>3 DEF Expire, locals, SessionEndsOnce
  <2>4. CASE UNCHANGED vars
    BY <2>4 DEF vars, SessionEndsOnce
  <2>. QED
    BY <2>1, <2>2, <2>3, <2>4, Quiet DEF Next, Continue
<1>. QED
  BY <1>1, <1>2, TypeCorrect, Inductive, PTL DEF Spec

-----------------------------------------------------------------------------
(* No change is lost *)

\* The changes and resets that were answered as done.
Changed == {r \in Request : op[r] \in {"change", "reset"} /\ pc[r] = "ok"}

\* There are only as many as the version says, and none before the account.
CountInv ==
    /\ IsFiniteSet(Changed)
    /\ user.state = "absent" => Changed = {}
    /\ EveryChangeCounted

(* change_password and reset_password raise token_version in the row they   *)
(* have locked: each one that commits raises it by one, and none commits    *)
(* over another (DraftInv).                                                *)
THEOREM ChangesCounted == Spec => []EveryChangeCounted
<1>1. Init => CountInv
  <2> SUFFICES ASSUME Init PROVE CountInv
    OBVIOUS
  <2>1. Changed = {} /\ user.state = "absent"
    BY DEF Init, Changed, NoUser
  <2>. QED
    BY <2>1, FS_EmptySet DEF CountInv, EveryChangeCounted
<1>2. TypeOK /\ IInv /\ CountInv /\ [Next]_vars => CountInv'
  <2> SUFFICES ASSUME TypeOK, IInv, CountInv, [Next]_vars PROVE CountInv'
    OBVIOUS
  <2>0. /\ IsFiniteSet(Changed) /\ Cardinality(Changed) \in Nat
        /\ user.state = "present" => user.ver = 1 + Cardinality(Changed)
    BY FS_CardinalityType DEF CountInv, EveryChangeCounted, Changed
  <2>1. ASSUME Changed' = Changed, user' = user \/ user'.state = "deleted" PROVE CountInv'
    BY <2>0, <2>1 DEF CountInv, EveryChangeCounted, Changed
  <2>2. ASSUME NEW r \in Request, Silent(r) PROVE CountInv'
    BY <2>1, <2>2 DEF Silent, Changed
  <2>3. ASSUME NEW r \in Request, Commit(r) PROVE CountInv'
    <3>1. /\ pc[r] = "commit" /\ pc'[r] = "ok" /\ UNCHANGED op
          /\ \A q \in Request \ {r} : pc'[q] = pc[q]
          /\ user' = UserSeenBy(r)
      BY <2>3 DEF Commit, End, TypeOK, locals
    <3>2. CASE op[r] \in {"change", "reset"}
      <4>1. userlock = r
        BY <3>1, <3>2 DEF IInv, StageInv
      <4>2. user.state = "present" /\ user'.state = "present" /\ user'.ver = user.ver + 1
        BY <3>1, <3>2, <4>1 DEF IInv, DraftInv, UserSeenBy
      <4>3. Changed' = Changed \cup {r} /\ r \notin Changed
        BY <3>1, <3>2 DEF Changed
      <4>4. /\ IsFiniteSet(Changed')
            /\ Cardinality(Changed') = Cardinality(Changed) + 1
        BY <2>0, <4>3, FS_AddElement
      <4>. QED
        BY <2>0, <4>2, <4>4 DEF CountInv, EveryChangeCounted, Changed
    <3>3. CASE op[r] \notin {"change", "reset"}
      <4>1. Changed' = Changed
        BY <3>1, <3>3 DEF Changed
      <4>2. CASE userlock = r /\ op[r] = "register"
        <5>1. Changed = {} /\ user'.ver = 1 /\ user'.state = "present"
          BY <3>1, <4>2 DEF IInv, DraftInv, UserSeenBy, CountInv
        <5>. QED
          BY <2>0, <4>1, <5>1, FS_EmptySet DEF CountInv, EveryChangeCounted, Changed
      <4>3. CASE ~(userlock = r /\ op[r] = "register")
        BY <2>1, <3>1, <3>3, <4>1, <4>3 DEF IInv, DraftInv, UserSeenBy, DeletedUser
      <4>. QED
        BY <4>2, <4>3
    <3>. QED
      BY <3>2, <3>3
  <2>4. ASSUME NEW s \in Request, Expire(s) PROVE CountInv'
    BY <2>1, <2>4 DEF Expire, locals, Changed
  <2>5. CASE UNCHANGED vars
    BY <2>1, <2>5 DEF vars, locals, db, Changed
  <2>. QED
    BY <2>2, <2>3, <2>4, <2>5, Quiet DEF Next, Continue
<1>3. CountInv => EveryChangeCounted
  BY DEF CountInv
<1>. QED
  BY <1>1, <1>2, <1>3, TypeCorrect, Inductive, PTL DEF Spec

-----------------------------------------------------------------------------
(* Lock order *)

(* In a circle of waiting requests without a deletion, whoever is waited   *)
(* for walks over the sessions: the others take no second lock.            *)
LEMMA BlockerIsBulk ==
    ASSUME TypeOK, IInv, NEW D \in SUBSET Running, Deadlocked(D),
           \A x \in D : op[x] # "delete",
           NEW r \in D, NEW q \in WaitsFor(r) \cap D
    PROVE  op[q] \in BulkOperations /\ q # r
<1>1. r \in Request /\ q \in Request /\ q \in D /\ op[q] # "delete" /\ WaitsFor(q) # {}
  BY DEF Deadlocked, Running
<1>2. Deleter \cap D = {}
  BY NoneAssumption DEF Deleter, IInv, DraftInv, DeletedUser, TypeOK
<1>3. pc[r] # "delete" /\ pc[q] # "delete"
  BY <1>1 DEF IInv, StageInv
<1>4. pc[q] \in {"touch", "change", "rows"}
  <2>1. WaitsFor(q) \cap D # {}
    BY DEF Deadlocked
  <2>. QED
    BY <1>2, <1>3, <2>1 DEF WaitsFor
<1>5. CASE pc[r] \in {"touch", "change"}
  <2>1. userlock = q /\ q # r
    BY <1>5 DEF WaitsFor
  <2>2. pc[q] \notin {"touch", "change"}
    BY <1>1, <2>1 DEF WaitsFor
  <2>3. op[q] \in {"register", "login", "change", "reset"}
    BY <1>1, <2>1 DEF IInv, DraftInv
  <2>. QED
    BY <1>1, <1>4, <2>1, <2>2, <2>3 DEF IInv, StageInv, BulkOperations, Enders
<1>6. CASE pc[r] = "rows"
  <2>1. PICK s \in rows[r] : rowlock[s] = q /\ q # r
    BY <1>6 DEF WaitsFor, SessionFree
  <2>2. s \in Request
    BY <1>1, <2>1 DEF TypeOK
  <2>3. op[q] \in Enders \cup BulkOperations /\ (op[q] \in Enders => s = target[q])
    BY <1>1, <2>1, <2>2 DEF IInv, RowLockInv
  <2>4. CASE op[q] \in Enders
    <3>1. pc[q] = "rows"
      BY <1>1, <1>4, <2>4 DEF IInv, StageInv, Enders
    <3>2. rows[q] = {s}
      BY <1>1, <2>3, <2>4, <3>1 DEF IInv, TargetInv
    <3>3. SessionFree(q, s)
      BY <2>1 DEF SessionFree
    <3>. QED
      BY <1>1, <3>1, <3>2, <3>3 DEF WaitsFor
  <2>. QED
    BY <2>1, <2>3, <2>4
<1>7. CASE pc[r] \notin {"touch", "change", "rows"}
  BY <1>2, <1>3, <1>7 DEF WaitsFor
<1>. QED
  BY <1>5, <1>6, <1>7

(* The handlers of service.rs and lifecycle.rs wait for each other in a    *)
(* circle only behind a deletion or two statements over several sessions.  *)
THEOREM CirclesNeedBulk == Spec => []LockOrder
<1>1. TypeOK /\ IInv => LockOrder
  <2> SUFFICES ASSUME TypeOK, IInv, NEW D \in SUBSET Running, Deadlocked(D),
                      \A x \in D : op[x] # "delete"
               PROVE  \E r, q \in D : r # q /\ {op[r], op[q]} \subseteq BulkOperations
    BY DEF LockOrder
  <2>1. \A x \in D : \E y \in D : y \in WaitsFor(x)
    BY DEF Deadlocked
  <2>2. PICK x \in D : TRUE
    BY DEF Deadlocked
  <2>3. PICK r \in D : r \in WaitsFor(x)
    BY <2>1
  <2>4. PICK q \in D : q \in WaitsFor(r)
    BY <2>1
  <2>. QED
    BY <2>3, <2>4, BlockerIsBulk
<1>. QED
  BY <1>1, TypeCorrect, Inductive, PTL

-----------------------------------------------------------------------------
(* A password change replaces the password it verified *)

(* change_password (lifecycle.rs) verifies a password it read before its   *)
(* transaction; the version check of its UPDATE makes that password the    *)
(* one in the row it replaces.                                             *)
THEOREM ChangeVerified == Spec => ChangeReplacesVerified
<1>1. TypeOK /\ IInv /\ [Next]_vars =>
        [\A r \in Request :
            pc[r] = "change" /\ pc'[r] = "bulk" => seen[r].pw = user.pw]_vars
  <2>. SUFFICES ASSUME TypeOK, IInv, [Next]_vars, NEW r \in Request,
                       pc[r] = "change", pc'[r] = "bulk"
                PROVE  seen[r].pw = user.pw
    BY DEF vars
  <2>0. ASSUME NEW q \in Request \ {r}, Silent(q) PROVE FALSE
    BY <2>0 DEF Silent
  <2>1. ASSUME NEW q \in Request, Commit(q) PROVE FALSE
    BY <2>1 DEF Commit, End, TypeOK
  <2>2. ASSUME NEW s \in Request, Expire(s) PROVE FALSE
    BY <2>2 DEF Expire
  <2>3. pc # pc'
    OBVIOUS
  <2>4. Rollback(r) => FALSE
    BY DEF Rollback, End, TypeOK
  <2>5. Start(r) \/ Continue(r) \/ Cancel(r) \/ DeadlockVictim(r)
    BY <2>0, <2>1, <2>2, <2>3, Quiet DEF Next, Continue, vars
  <2>6. ChangeUser(r)
    BY <2>1, <2>4, <2>5 DEF Start, Continue, Cancel, DeadlockVictim, Register, LoginRead,
       SecondFactorRead, ResetUser, RefreshRead, Logout, RevokeOthers, ChangeRead,
       DeleteRead, RevokeOne, Begin, LoginTouch, BulkSnapshot, LockRow, MissRow,
       Insert, DeleteUser
  <2>7. user.state = "present" /\ user.ver = seen[r].ver
    BY <2>4, <2>6 DEF ChangeUser
  <2>. QED
    BY <2>7 DEF IInv, SeenInv, Running
<1>. QED
  BY <1>1, TypeCorrect, Inductive, PTL DEF Spec, ChangeReplacesVerified

-----------------------------------------------------------------------------
(* The statements implement the ledger *)

(* The ledger's view of the sessions rows and of who refreshed whom.       *)
States == [s \in Request |-> sess[s].state]
Issued == [s \in Request |-> sess[s].ver]
Parents == [s \in Request |-> IF op[s] = "refresh" /\ pc[s] = "ok"
                              THEN target[s] ELSE None]
View == <<user.state, user.ver, States, Issued, Parents>>

(* What a commit does to the rows, in the ledger's terms: the sessions the *)
(* transaction has locked end, and the one it creates begins.              *)
LEMMA CommitView ==
  ASSUME TypeOK, IInv, NEW r \in Request, Commit(r)
  PROVE  /\ op[r] # "delete" =>
              /\ States' = [s \in Request |->
                              IF s = r /\ op[r] \in Creators THEN "live"
                              ELSE IF rowlock[s] = r THEN "revoked"
                              ELSE States[s]]
              /\ Issued' = [s \in Request |->
                              IF s = r /\ op[r] \in Creators THEN seen[r].ver
                              ELSE Issued[s]]
         /\ Parents' = [s \in Request |->
                          IF s = r /\ op[r] = "refresh" THEN target[r]
                          ELSE Parents[s]]
         /\ op[r] \in Operations /\ pc[r] = "commit" /\ pc[r] # "ok"
         /\ States[r] = "none"
         /\ rowlock[r] # r
<1> USE DEF TypeOK
<1>1. /\ op[r] \in Operations /\ pc[r] = "commit" /\ ~Exists(r)
      /\ \A s \in Request : rowlock[s] = r => Unrevoked(s)
      /\ r \in keyshare /\ r \in Running
  BY DEF Commit, IInv, StageInv, LocksOfRunning, Running, RowLockInv
<1>2. UNCHANGED <<op, target>> /\ pc' = [pc EXCEPT ![r] = "ok"]
  BY DEF Commit, End
<1>3. op[r] # "delete" => r \notin Deleter
  BY DEF Commit, IInv, DraftInv, Deleter
<1>4. op[r] # "delete" =>
        /\ States' = [s \in Request |->
                        IF s = r /\ op[r] \in Creators THEN "live"
                        ELSE IF rowlock[s] = r THEN "revoked"
                        ELSE States[s]]
        /\ Issued' = [s \in Request |->
                        IF s = r /\ op[r] \in Creators THEN seen[r].ver
                        ELSE Issued[s]]
  BY <1>3 DEF Commit, States, Issued, InState
<1>5. Parents' = [s \in Request |->
                    IF s = r /\ op[r] = "refresh" THEN target[r] ELSE Parents[s]]
  BY <1>1, <1>2 DEF Parents
<1>. QED
  BY <1>1, <1>3, <1>4, <1>5 DEF States, Exists, Unrevoked

(* Each commit is the one step of the ledger its operation promises.       *)
LEMMA CommitStep ==
  ASSUME TypeOK, IInv, NEW r \in Request, Commit(r) PROVE Ledger!Next
<1> DEFINE S == {s \in Request : rowlock[s] = r}
<1> USE DEF TypeOK, Operations
<1>0. /\ r \in keyshare /\ r \in Running /\ op[r] \in Operations
      /\ seen[r].ver \in Nat /\ user.ver \in Nat
      /\ S \in SUBSET Request /\ r \notin S
      /\ S \subseteq Ledger!Open(Request)
  BY CommitView DEF Commit, IInv, LocksOfRunning, RowLockInv, Unrevoked, Running,
     UserRow, Ledger!Open
<1>v. /\ op[r] \in {"logout", "revoke", "revoke_others", "reset"} =>
           /\ States' = [s \in Request |-> IF s \in S THEN "revoked" ELSE States[s]]
           /\ Issued' = Issued
      /\ op[r] \in {"login", "passkey", "register", "refresh", "change"} =>
           /\ States' = [s \in Request |-> IF s = r THEN "live"
                                           ELSE IF s \in S THEN "revoked"
                                           ELSE States[s]]
           /\ Issued' = [Issued EXCEPT ![r] = seen[r].ver]
      /\ op[r] # "refresh" => Parents' = Parents
      /\ op[r] = "refresh" => Parents' = [Parents EXCEPT ![r] = target[r]]
      /\ States[r] = "none"
  <2>1. /\ Issued = [s \in Request |-> Issued[s]]
        /\ Parents = [s \in Request |-> Parents[s]]
    BY DEF Issued, Parents
  <2>2. \A s \in Request : s \in S <=> rowlock[s] = r
    OBVIOUS
  <2>3. op[r] # "refresh" => Parents' = Parents
    BY <2>1, CommitView
  <2>4. op[r] = "refresh" => Parents' = [Parents EXCEPT ![r] = target[r]]
    BY <2>1, CommitView
  <2> HIDE DEF S
  <2>5. op[r] \in {"logout", "revoke", "revoke_others", "reset"} =>
           /\ States' = [s \in Request |-> IF s \in S THEN "revoked" ELSE States[s]]
           /\ Issued' = Issued
    BY <2>1, <2>2, CommitView DEF Creators
  <2>6. op[r] \in {"login", "passkey", "register", "refresh", "change"} =>
           /\ States' = [s \in Request |-> IF s = r THEN "live"
                                           ELSE IF s \in S THEN "revoked"
                                           ELSE States[s]]
           /\ Issued' = [Issued EXCEPT ![r] = seen[r].ver]
    BY <2>1, <2>2, CommitView DEF Creators
  <2>. QED
    BY <2>3, <2>4, <2>5, <2>6, CommitView
<1> HIDE DEF S
<1>p. PICK T \in SUBSET Request : T = S
  BY <1>0
<1>1. CASE op[r] = "delete"
  <2>1. user.state = "present" /\ user' = DeletedUser
    BY <1>1 DEF Commit, UserSeenBy, IInv, StageInv, DraftInv
  <2>2. r \in Deleter
    BY <1>1, NoneAssumption DEF Commit, IInv, StageInv, DraftInv, Deleter, DeletedUser
  <2>3. \A s \in Request : sess'[s] = NoSession
    BY <2>2 DEF Commit
  <2>4. Ledger!Close
    BY <1>1, <1>v, <2>1, <2>3 DEF Ledger!Close, DeletedUser, NoSession, Parents
  <2>. QED
    BY <2>4 DEF Ledger!Next
<1>2. CASE op[r] = "register"
  <2>1. /\ user.state = "absent" /\ user'.state = "present" /\ user'.ver = 1
        /\ seen[r].ver = 1 /\ S = {}
    BY <1>2 DEF Commit, UserSeenBy, IInv, StageInv, DraftInv, RowLockInv, S, Enders,
       BulkOperations
  <2>2. Ledger!SignUp(r)
    BY <1>2, <1>v, <2>1 DEF Ledger!SignUp, Ledger!Entry, States, Issued, Parents
  <2>. QED
    BY <2>2 DEF Ledger!Next
<1>3. CASE op[r] \in {"login", "passkey"}
  <2>1. user.state = "present" /\ user' = user /\ S = {} /\ seen[r].ver <= user.ver
    BY <1>0, <1>3 DEF Commit, UserSeenBy, IInv, KeyShareInv, DraftInv, RowLockInv,
       SeenInv, S, Enders, BulkOperations
  <2>2. Ledger!SignIn(r, seen[r].ver)
    BY <1>3, <1>v, <2>1 DEF Ledger!SignIn, Ledger!Entry, States, Issued, Parents
  <2>3. seen[r].ver \in 0 .. user.ver
    BY <1>0, <2>1
  <2>. QED
    BY <2>2, <2>3 DEF Ledger!Next
<1>4. CASE op[r] = "refresh"
  <2>1. user.state = "present" /\ user' = user /\ seen[r].ver <= user.ver
    BY <1>0, <1>4 DEF Commit, UserSeenBy, IInv, KeyShareInv, DraftInv, SeenInv
  <2>2. S = {target[r]} /\ target[r] \in Request
    BY <1>4 DEF Commit, IInv, RowLockInv, TargetInv, S, Enders
  <2>3. PICK p \in Request, v \in 0 .. user.ver : p = target[r] /\ v = seen[r].ver
    BY <1>0, <2>1, <2>2
  <2>4. Ledger!Rotate(p, r, v)
    BY <1>0, <1>4, <1>v, <2>1, <2>2, <2>3
       DEF Ledger!Rotate, Ledger!Entry, States, Issued, Parents
  <2>. QED
    BY <2>4 DEF Ledger!Next
<1>5. CASE op[r] \in {"logout", "revoke", "revoke_others"}
  <2>1. user' = user
    BY <1>5 DEF Commit, UserSeenBy, IInv, DraftInv
  <2>2. Ledger!EndSessions(T)
    BY <1>0, <1>5, <1>v, <1>p, <2>1 DEF Ledger!EndSessions, States, Issued, Parents
  <2>. QED
    BY <2>2 DEF Ledger!Next
<1>6. CASE op[r] \in {"change", "reset"}
  <2>1. /\ user.state = "present" /\ user'.state = "present"
        /\ user'.ver = user.ver + 1 /\ seen[r].ver = user.ver + 1
    BY <1>6 DEF Commit, UserSeenBy, IInv, StageInv, DraftInv
  <2>2. CASE op[r] = "change"
    <3>1. Ledger!ChangePassword(T, r)
      BY <1>0, <1>v, <1>p, <2>1, <2>2
         DEF Ledger!ChangePassword, Ledger!Entry, States, Issued, Parents
    <3>. QED
      BY <3>1 DEF Ledger!Next
  <2>3. CASE op[r] = "reset"
    <3>1. Ledger!ResetPassword(T)
      BY <1>0, <1>v, <1>p, <2>1, <2>3 DEF Ledger!ResetPassword, States, Issued, Parents
    <3>. QED
      BY <3>1 DEF Ledger!Next
  <2>. QED
    BY <1>6, <2>2, <2>3
<1>. QED
  BY <1>0, <1>1, <1>2, <1>3, <1>4, <1>5, <1>6

(* Refinement: what the handlers do in several statements each, however    *)
(* they interleave, fail and deadlock, is what SessionLedger does in one   *)
(* step per request answered as done.                                      *)
THEOREM Refinement == Spec => ImplementsLedger
<1>1. Init => Ledger!Init
  BY DEF Init, Ledger!Init, NoUser, NoSession
<1>2. TypeOK /\ IInv /\ [Next]_vars => [Ledger!Next]_(Ledger!vars)
  <2>. SUFFICES ASSUME TypeOK, IInv, [Next]_vars
                PROVE  Ledger!Next \/ UNCHANGED View
    BY DEF Ledger!vars, View, States, Issued, Parents
  <2>1. ASSUME NEW r \in Request, Silent(r) PROVE UNCHANGED View
    BY <2>1 DEF Silent, View, States, Issued, Parents
  <2>2. ASSUME NEW s \in Request, Expire(s) PROVE Ledger!Next
    <3>1. Ledger!Expire(s)
      BY <2>2 DEF Expire, InState, Ledger!Expire, locals, TypeOK
    <3>. QED
      BY <3>1 DEF Ledger!Next
  <2>3. CASE UNCHANGED vars
    BY <2>3 DEF vars, View, States, Issued, Parents
  <2>. QED
    BY <2>1, <2>2, <2>3, Quiet, CommitStep DEF Next, Continue
<1>. QED
  BY <1>1, <1>2, TypeCorrect, Inductive, PTL DEF Spec, ImplementsLedger, Ledger!Spec
=============================================================================

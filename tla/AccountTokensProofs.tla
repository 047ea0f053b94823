------------------------- MODULE AccountTokensProofs -------------------------
(***************************************************************************)
(* Proofs about AccountTokens, for any number of requests: IInv is         *)
(* inductive, and from it an account has one unused link of each purpose,  *)
(* a link works once, a password reset leaves no other reset link, and a   *)
(* circle of waiting requests has an ask and a confirmation in it.         *)
(***************************************************************************)
EXTENDS AccountTokens, TLAPS

(* Type correctness: every variable of AccountTokens keeps its type.       *)
THEOREM TypeCorrect == Spec => []TypeOK
<1>1. Init => TypeOK
  BY ZenonT(60) DEF Init, TypeOK, PC
<1>2. TypeOK /\ [Next]_vars => TypeOK'
  <2> SUFFICES ASSUME TypeOK PROVE [Next]_vars => TypeOK'
    OBVIOUS
  <2> USE PurposeAssumption DEF TypeOK, PC, locks, locals, Begin, Rollback, End, Purposes
  <2>1. ASSUME NEW r \in Request, NEW k \in Purpose, Ask(r, k) PROVE TypeOK'
    BY <2>1 DEF Ask
  <2>2. ASSUME NEW r \in Request, NEW t \in Request, Validate(r, t) PROVE TypeOK'
    BY <2>2 DEF Validate
  <2>3. ASSUME NEW r \in Request, Consume(r) PROVE TypeOK'
    BY <2>3 DEF Consume
  <2>4. ASSUME NEW r \in Request, LockUser(r) PROVE TypeOK'
    BY <2>4 DEF LockUser
  <2>5. ASSUME NEW r \in Request, Sweep(r) PROVE TypeOK'
    BY <2>5 DEF Sweep, AfterRows
  <2>6. ASSUME NEW r \in Request, NEW t \in Request, SweepRow(r, t) PROVE TypeOK'
    BY <2>6 DEF SweepRow, AfterRows
  <2>7. ASSUME NEW r \in Request, Commit(r) PROVE TypeOK'
    BY <2>7 DEF Commit
  <2>8. ASSUME NEW r \in Request, Rollback(r) PROVE TypeOK'
    BY <2>8
  <2>9. ASSUME NEW t \in Request, Expire(t) \/ Prune(t) PROVE TypeOK'
    BY <2>9 DEF Expire, Prune
  <2>10. CASE UNCHANGED vars
    BY <2>10 DEF vars
  <2>. QED
    BY <2>1, <2>2, <2>3, <2>4, <2>5, <2>6, <2>7, <2>8, <2>9, <2>10
       DEF Next, Start, Continue, Cancel, DeadlockVictim
<1>. QED
  BY <1>1, <1>2, PTL DEF Spec

-----------------------------------------------------------------------------
(* The inductive invariant *)

(* IInv holds before any link is asked for.                                *)
LEMMA IInvInit == Init => IInv
BY NoneAssumption DEF Init, IInv, LocksOfRunning, TokenInv, ConfirmInv, SweepInv, OneLink,
   Running, Exists, Unconsumed, Doomed

(* Every statement, rollback, expiry and clean-up keeps IInv.              *)
LEMMA IInvStep == TypeOK /\ IInv /\ [Next]_vars => IInv'
<1> SUFFICES ASSUME TypeOK, IInv PROVE [Next]_vars => IInv'
  OBVIOUS
<1> USE NoneAssumption
    DEF TypeOK, PC, IInv, LocksOfRunning, TokenInv, ConfirmInv, SweepInv, OneLink,
        locks, locals, Running, Exists, Unconsumed, Doomed
<1>1. ASSUME NEW r \in Request, NEW k \in Purpose, Ask(r, k) PROVE IInv'
  BY <1>1 DEF Ask, Begin
<1>2. ASSUME NEW r \in Request, NEW t \in Request, Validate(r, t) PROVE IInv'
  BY <1>2 DEF Validate, Begin
<1>3. ASSUME NEW r \in Running, Rollback(r) PROVE IInv'
  BY <1>3 DEF Rollback, End
<1>4. ASSUME NEW r \in Request, Consume(r) PROVE IInv'
  BY <1>3, <1>4 DEF Consume, TokenFree
<1>5. ASSUME NEW r \in Request, LockUser(r) PROVE IInv'
  BY <1>5 DEF LockUser, UserFree
<1>6. ASSUME NEW r \in Request, Sweep(r) PROVE IInv'
  BY <1>6 DEF Sweep, AfterRows
<1>7. ASSUME NEW r \in Request, NEW t \in Request, SweepRow(r, t) PROVE IInv'
  BY <1>7 DEF SweepRow, AfterRows, TokenFree
<1>8. ASSUME NEW r \in Request, Commit(r) PROVE IInv'
  BY <1>8 DEF Commit, End
<1>9. ASSUME NEW t \in Request, Expire(t) \/ Prune(t) PROVE IInv'
  BY <1>9 DEF Expire, Prune
<1>10. CASE UNCHANGED vars
  BY <1>10 DEF vars
<1>. QED
  BY <1>1, <1>2, <1>3, <1>4, <1>5, <1>6, <1>7, <1>8, <1>9, <1>10
     DEF Next, Start, Continue, Cancel, DeadlockVictim

(* The inductive invariant holds of every behaviour of AccountTokens.      *)
THEOREM Inductive == Spec => []IInv
<1>1. Spec => []TypeOK
  BY TypeCorrect
<1>. QED
  BY <1>1, IInvInit, IInvStep, PTL DEF Spec

(* queue_token (email.rs) locks the account before it deletes the unused   *)
(* tokens of its purpose, so two of them never both survive.               *)
THEOREM OneLinkEach == Spec => []OneLink
<1>1. IInv => OneLink
  BY DEF IInv
<1>. QED
  BY <1>1, Inductive, PTL

-----------------------------------------------------------------------------
(* A link works once *)

(* The conditional UPDATE account_tokens of recovery.rs lets one           *)
(* confirmation of a token commit, however many validated it before.       *)
THEOREM SingleUse == Spec => []UsedOnce
<1>1. Init => UsedOnce
  BY DEF Init, UsedOnce
<1>2. TypeOK /\ IInv /\ UsedOnce /\ [Next]_vars => UsedOnce'
  <2>. SUFFICES ASSUME TypeOK, IInv, UsedOnce PROVE [Next]_vars => UsedOnce'
    OBVIOUS
  <2> USE DEF TypeOK, PC, UsedOnce, locks, locals
  <2>1. ASSUME NEW r \in Request, Commit(r) PROVE UsedOnce'
    <3>1. UNCHANGED <<op, target>> /\ \A q \in Request \ {r} : pc'[q] = pc[q]
      BY <2>1 DEF Commit, End
    <3>2. op[r] = "confirm" => target[r] \in Request /\ Unconsumed(target[r])
      BY <2>1 DEF Commit, IInv, ConfirmInv
    <3>3. \A q \in Request :
             pc[q] = "ok" /\ op[q] = "confirm" => ~Unconsumed(target[q])
      BY DEF IInv, ConfirmInv, Unconsumed
    <3>. QED
      BY <3>1, <3>2, <3>3
  <2>2. ASSUME NEW r \in Request, Start(r) PROVE UsedOnce'
    BY <2>2 DEF Start, Ask, Validate, Begin
  <2>3. ASSUME NEW r \in Running, Rollback(r) PROVE UsedOnce'
    BY <2>3 DEF Rollback, End, Running
  <2>4. ASSUME NEW r \in Request, Consume(r) \/ LockUser(r) \/ Sweep(r) PROVE UsedOnce'
    BY <2>3, <2>4 DEF Consume, LockUser, Sweep, AfterRows, Running
  <2>5. ASSUME NEW r \in Request, NEW t \in Request, SweepRow(r, t) PROVE UsedOnce'
    BY <2>5 DEF SweepRow, AfterRows
  <2>6. ASSUME NEW t \in Request, Expire(t) \/ Prune(t) PROVE UsedOnce'
    BY <2>6 DEF Expire, Prune
  <2>7. CASE UNCHANGED vars
    BY <2>7 DEF vars
  <2>. QED
    BY <2>1, <2>2, <2>3, <2>4, <2>5, <2>6, <2>7
       DEF Next, Continue, Cancel, DeadlockVictim
<1>. QED
  BY <1>1, <1>2, TypeCorrect, Inductive, PTL DEF Spec

-----------------------------------------------------------------------------
(* A reset closes the other reset links *)

(* confirm_password_reset deletes the other reset tokens while it holds    *)
(* the users row, which whoever is asking for one needs too.               *)
THEOREM ResetCloses == Spec => ResetClosesLinks
<1>1. TypeOK /\ IInv /\ [Next]_vars =>
        [\A r \in Request :
            /\ pc[r] # "ok" /\ pc'[r] = "ok"
            /\ op[r] = "confirm" /\ purpose[r] = "reset_password"
            => \A t \in Request :
                  Exists(t)' /\ purpose[t] = "reset_password" => t = target[r]]_vars
  <2>. SUFFICES ASSUME TypeOK, IInv, [Next]_vars, NEW r \in Request, NEW t \in Request,
                       pc[r] # "ok", pc'[r] = "ok",
                       op[r] = "confirm", purpose[r] = "reset_password",
                       Exists(t)', purpose[t] = "reset_password"
                PROVE  t = target[r]
    OBVIOUS
  <2> USE DEF TypeOK, locks, locals
  <2>1. Commit(r)
    BY DEF Next, Start, Continue, Cancel, DeadlockVictim, Ask, Validate, Begin, Consume,
       LockUser, Sweep, SweepRow, AfterRows, Rollback, End, Expire, Prune, Commit, vars
  <2>2. Doomed(r, t) => tokenlock[t] = r
    BY <2>1 DEF Commit, IInv, SweepInv
  <2>3. t # target[r] /\ tokenlock[t] = r => ~Exists(t)'
    BY <2>1 DEF Commit, Exists, Unconsumed
  <2>4. tokenlock[t] # r => token'[t] = token[t]
    BY <2>1 DEF Commit
  <2>. QED
    BY <2>2, <2>3, <2>4 DEF Doomed, Exists, Unconsumed
<1>. QED
  BY <1>1, TypeCorrect, Inductive, PTL DEF Spec, ResetClosesLinks

-----------------------------------------------------------------------------
(* Lock order *)

\* Who holds the users row is past waiting for it; who waits for it holds at
\* most its own token; a DELETE visits rows of its purpose, never its own.
WaitInv ==
    /\ \A r \in Request : userlock = r => pc[r] \in {"sweep", "rows", "commit"}
    /\ \A r, t \in Request : tokenlock[t] = r =>
          \/ pc[r] \in {"rows", "commit"}
          \/ op[r] = "confirm" /\ t = target[r] /\ pc[r] \in {"user", "sweep"}
    /\ \A r \in Request : pc[r] = "consume" => op[r] = "confirm"
    /\ \A r \in Request : op[r] = "confirm" =>
          /\ target[r] \in Request /\ pc[target[r]] = "ok"
          /\ purpose[target[r]] = purpose[r]
    /\ \A r \in Request : \A t \in rows[r] :
          /\ pc[r] = "rows" /\ pc[t] = "ok" /\ purpose[t] = purpose[r]
          /\ op[r] = "confirm" => t # target[r]

LEMMA WaitInvariant == Spec => []WaitInv
<1>1. Init => WaitInv
  BY NoneAssumption DEF Init, WaitInv
<1>2. TypeOK /\ IInv /\ WaitInv /\ [Next]_vars => WaitInv'
  <2> SUFFICES ASSUME TypeOK, IInv, WaitInv PROVE [Next]_vars => WaitInv'
    OBVIOUS
  <2> USE NoneAssumption DEF TypeOK, PC, WaitInv, locks, locals
  <2>1. ASSUME NEW r \in Request, NEW k \in Purpose, Ask(r, k) PROVE WaitInv'
    BY <2>1 DEF Ask, Begin
  <2>2. ASSUME NEW r \in Request, NEW t \in Request, Validate(r, t) PROVE WaitInv'
    BY <2>2 DEF Validate, Begin, IInv, TokenInv
  <2>3. ASSUME NEW r \in Running, Rollback(r) PROVE WaitInv'
    <3>1. /\ pc[r] # "ok" /\ pc'[r] = "failed" /\ \A q \in Request \ {r} : pc'[q] = pc[q]
          /\ UNCHANGED <<op, purpose, target>>
          /\ rows'[r] = {} /\ \A q \in Request \ {r} : rows'[q] = rows[q]
      BY <2>3 DEF Rollback, End, Running
    <3>2. /\ userlock' # r /\ (userlock' # None => userlock' = userlock)
          /\ \A t \in Request : tokenlock'[t] # r /\ (tokenlock'[t] # None => tokenlock'[t] = tokenlock[t])
      BY <2>3 DEF Rollback, End, Running
    <3>. QED
      BY <3>1, <3>2
  <2>4. ASSUME NEW r \in Request, Consume(r) PROVE WaitInv'
    BY <2>3, <2>4 DEF Consume, Running, IInv, TokenInv
  <2>5. ASSUME NEW r \in Request, LockUser(r) PROVE WaitInv'
    BY <2>5 DEF LockUser
  <2>6. ASSUME NEW r \in Request, Sweep(r) PROVE WaitInv'
    BY <2>6 DEF Sweep, AfterRows, Doomed, Exists, Unconsumed, IInv, TokenInv
  <2>7. ASSUME NEW r \in Request, NEW t \in Request, SweepRow(r, t) PROVE WaitInv'
    BY <2>7 DEF SweepRow, AfterRows
  <2>8. ASSUME NEW r \in Request, Commit(r) PROVE WaitInv'
    BY <2>8 DEF Commit, End
  <2>9. ASSUME NEW t \in Request, Expire(t) \/ Prune(t) PROVE WaitInv'
    BY <2>9 DEF Expire, Prune
  <2>10. CASE UNCHANGED vars
    BY <2>10 DEF vars
  <2>. QED
    BY <2>1, <2>2, <2>3, <2>4, <2>5, <2>6, <2>7, <2>8, <2>9, <2>10
       DEF Next, Start, Continue, Cancel, DeadlockVictim
<1>. QED
  BY <1>1, <1>2, TypeCorrect, Inductive, PTL DEF Spec

(* queue_token locks the account and then its tokens, a confirmation its   *)
(* token and then the account: a circle of waiting requests has one of     *)
(* each, and the first waits for the link that the second confirms.        *)
THEOREM CirclesNeedBoth == Spec => []DeadlockNeedsBoth
<1>1. TypeOK /\ IInv /\ WaitInv => DeadlockNeedsBoth
  <2> SUFFICES ASSUME TypeOK, IInv, WaitInv, NEW D \in SUBSET Running, Deadlocked(D)
               PROVE  \E a, c \in D : /\ op[a] = "ask" /\ op[c] = "confirm"
                                      /\ purpose[a] = purpose[c]
                                      /\ target[c] \in rows[a]
    BY DEF DeadlockNeedsBoth
  <2>1. \A x \in D : /\ x \in Request /\ pc[x] \in {"user", "consume", "rows"}
                     /\ \E y \in D : y \in WaitsFor(x)
    BY DEF Deadlocked, WaitsFor, Running
  \* Who waits for the users row waits for a request that is in its DELETE.
  <2>2. ASSUME NEW x \in D, pc[x] = "user" PROVE \E a \in D : pc[a] = "rows"
    BY <2>1, <2>2 DEF WaitsFor, WaitInv
  \* Who waits for a token waits for a confirmation that waits for the users
  \* row, or for such a DELETE.
  <2>3. ASSUME NEW x \in D, pc[x] = "consume" PROVE \E a \in D : pc[a] = "rows"
    <3>1. PICK y \in D : y = tokenlock[target[x]]
      BY <2>1, <2>3 DEF WaitsFor
    <3>2. op[x] = "confirm" => target[x] \in Request
      BY <2>1 DEF WaitInv
    <3>3. op[x] = "confirm"
      BY <2>1, <2>3 DEF WaitInv
    <3>4. pc[y] \in {"user", "rows"}
      BY <2>1, <3>1, <3>2, <3>3 DEF WaitInv
    <3>. QED
      BY <2>2, <3>4
  <2>4. PICK a \in D : pc[a] = "rows"
    <3>1. PICK x \in D : TRUE
      BY DEF Deadlocked
    <3>. QED
      BY <2>1, <2>2, <2>3, <3>1
  <2>5. userlock = a
    BY <2>1, <2>4 DEF IInv, LocksOfRunning
  <2>6. PICK c \in D, t \in rows[a] : tokenlock[t] = c /\ c # a
    BY <2>1, <2>4 DEF WaitsFor, TokenFree
  <2>7. t \in Request /\ purpose[t] = purpose[a] /\ (op[a] = "confirm" => t # target[a])
    BY <2>1, <2>6 DEF TypeOK, WaitInv
  <2>8. pc[c] # "rows"
    BY <2>1, <2>5, <2>6 DEF IInv, LocksOfRunning
  <2>9. pc[c] = "user" /\ op[c] = "confirm" /\ t = target[c] /\ purpose[c] = purpose[a]
    BY <2>1, <2>6, <2>7, <2>8 DEF WaitInv
  <2>10. Unconsumed(t)
    BY <2>1, <2>9 DEF IInv, ConfirmInv
  <2>11. op[a] # "confirm"
    <3>1. op[a] = "confirm" => target[a] \in Request /\ Unconsumed(target[a])
      BY <2>1, <2>4 DEF IInv, ConfirmInv
    <3>2. op[a] = "confirm" => purpose[target[a]] = purpose[a]
      BY <2>1 DEF WaitInv
    <3>. QED
      BY <2>7, <2>10, <3>1, <3>2 DEF IInv, OneLink
  <2>12. op[a] = "ask"
    BY <2>1, <2>4, <2>11 DEF IInv, TokenInv
  <2>. QED
    BY <2>6, <2>9, <2>12
<1>. QED
  BY <1>1, TypeCorrect, Inductive, WaitInvariant, PTL
=============================================================================

------------------------------- MODULE MfaProofs -------------------------------
(***************************************************************************)
(* Proofs about Mfa, for any number of requests and any rows the account   *)
(* has at the start: IInv is inductive, and from it a ceremony and a code  *)
(* admit one login, and a code is unused until its login commits; locks    *)
(* circle only around a removal or two requests that empty tables; and as  *)
(* long as no two changes overlap but registrations, MFA is required just  *)
(* when there is a passkey, and there is one batch of codes at most.       *)
(***************************************************************************)
EXTENDS Mfa, FiniteSetTheorems, SequenceTheorems, TLAPS

(* Types, without the tables that are still to be emptied.                 *)
LEMMA TypeInit == Init => TypeOK
<1> SUFFICES ASSUME Init PROVE TypeOK
  OBVIOUS
<1>1. PICK K \in SUBSET Earlier, B \in {{}} \cup {{e} : e \in Earlier},
           kind \in [Earlier -> {"none", "registration", "authentication"}] :
        /\ K = {} => B = {} /\ \A e \in Earlier : kind[e] # "authentication"
        /\ mfa = (K # {})
        /\ row = [t \in Tables |-> [i \in Id |->
                     CASE t = "credential" /\ i \in K -> "present"
                       [] t = "code" /\ i \in B -> "unused"
                       [] t = "ceremony" /\ i \in Earlier -> kind[i]
                       [] OTHER -> "none"]]
        /\ allows = [i \in Id |-> IF i \in Earlier /\ kind[i] = "authentication" THEN K ELSE {}]
  BY Zenon DEF Init
<1>2. /\ row \in [Tables -> [Id -> RowState]]
      /\ \A i \in Id : /\ row["credential"][i] \in {"none", "present", "gone"}
                       /\ row["code"][i] \in {"none", "unused", "used", "gone"}
                       /\ row["ceremony"][i] \in {"none", "registration", "authentication", "gone"}
  BY <1>1 DEF RowState, Tables, Id
<1>3. <<>> \in Seq(Tables)
  OBVIOUS
<1>4. todo \in [Request -> Seq(Tables)]
  BY <1>3 DEF Init
<1>5. allows \in [Id -> SUBSET Id]
  BY <1>1 DEF Id
<1>6. lock \in [Tables -> [Id -> Request \cup {None}]]
  BY DEF Init
<1>. QED
  BY <1>1, <1>2, <1>4, <1>5, <1>6 DEF Init, TypeOK, PC

\* What a request's own variables hold is not in question in any step.
LEMMA EndTypes ==
    ASSUME TypeOK, NEW r \in Request, NEW outcome \in {"ok", "failed"}, End(r, outcome)
    PROVE  /\ pc' \in [Request -> PC] /\ rows' \in [Request -> SUBSET Id]
           /\ todo' \in [Request -> Seq(Tables)] /\ first' \in [Request -> BOOLEAN]
           /\ userlock' \in Request \cup {None}
           /\ lock' \in [Tables -> [Id -> Request \cup {None}]]
           /\ UNCHANGED <<op, on, item, mixed>>
BY DEF TypeOK, End, PC

LEMMA BeginTypes ==
    ASSUME TypeOK, NEW r \in Request, NEW o, NEW c \in Id \cup {None}, NEW i \in Id \cup {None},
           NEW next \in PC, Begin(r, o, c, i, next)
    PROVE  /\ op' \in [Request -> Operations \cup {"none"}] /\ pc' \in [Request -> PC]
           /\ on' \in [Request -> Id \cup {None}] /\ item' \in [Request -> Id \cup {None}]
           /\ mixed' \in BOOLEAN
BY OperationAssumption DEF TypeOK, Begin

LEMMA RowTypes ==
    ASSUME TypeOK, NEW t \in Tables, NEW i \in Id, NEW v \in RowState,
           t = "credential" => v \in {"none", "present", "gone"},
           t = "code" => v \in {"none", "unused", "used", "gone"},
           t = "ceremony" => v \in {"none", "registration", "authentication", "gone"},
           row' = [row EXCEPT ![t][i] = v]
    PROVE  /\ row' \in [Tables -> [Id -> RowState]]
           /\ \A j \in Id : /\ row'["credential"][j] \in {"none", "present", "gone"}
                            /\ row'["code"][j] \in {"none", "unused", "used", "gone"}
                            /\ row'["ceremony"][j] \in {"none", "registration", "authentication", "gone"}
BY DEF TypeOK, Tables

LEMMA OnwardTypes ==
    ASSUME TypeOK, NEW r \in Request, todo[r] # <<>>, NEW left \in SUBSET Id, Onward(r, left)
    PROVE  /\ rows' \in [Request -> SUBSET Id] /\ pc' \in [Request -> PC]
           /\ todo' \in [Request -> Seq(Tables)]
<1>1. todo[r] \in Seq(Tables) /\ Tail(todo[r]) \in Seq(Tables)
  BY DEF TypeOK
<1>2. rows' \in [Request -> SUBSET Id]
  BY DEF TypeOK, Onward
<1>3. todo' = todo \/ todo' = [todo EXCEPT ![r] = Tail(todo[r])]
  BY DEF Onward
<1>4. \E stage \in PC : pc' = [pc EXCEPT ![r] = stage]
  BY DEF Onward, PC
<1>5. todo' \in [Request -> Seq(Tables)]
  BY <1>1, <1>3 DEF TypeOK
<1>6. pc' \in [Request -> PC]
  BY <1>4 DEF TypeOK
<1>. QED
  BY <1>2, <1>5, <1>6

LEMMA LockTypes ==
    ASSUME TypeOK, NEW r \in Request, NEW t \in Tables, NEW i \in Id, Lock(r, t, i)
    PROVE  lock' \in [Tables -> [Id -> Request \cup {None}]]
BY DEF TypeOK, Lock

LEMMA TailNonEmpty == ASSUME NEW s \in Seq(Tables), Len(s) > 1 PROVE Tail(s) # <<>>
<1>1. Len(Tail(s)) = Len(s) - 1
  OBVIOUS
<1>2. Len(s) \in Nat
  BY LenProperties
<1>3. \A m, n : n \in Nat /\ n > 1 /\ m = n - 1 => m # 0
  OBVIOUS
<1>4. Len(Tail(s)) # 0
  BY <1>1, <1>2, <1>3, Zenon
<1>. QED
  BY <1>4, EmptySeq

LEMMA HeadInTables == ASSUME NEW s \in Seq(Tables), s # <<>> PROVE Head(s) \in Tables
OBVIOUS

(* The tables a change has still to empty.                                 *)
LEMMA Orders ==
    /\ Head(<<"code">>) = "code" /\ Len(<<"code">>) = 1
    /\ Head(<<"ceremony">>) = "ceremony" /\ Len(<<"ceremony">>) = 1
    /\ Head(<<"code", "ceremony">>) = "code" /\ Len(<<"code", "ceremony">>) = 2
    /\ Tail(<<"code", "ceremony">>) = <<"ceremony">>
    /\ Head(<<"credential", "code">>) = "credential" /\ Len(<<"credential", "code">>) = 2
    /\ Tail(<<"credential", "code">>) = <<"code">>
    /\ Head(<<"ceremony", "credential", "code">>) = "ceremony"
    /\ Len(<<"ceremony", "credential", "code">>) = 3
    /\ Tail(<<"ceremony", "credential", "code">>) = <<"credential", "code">>
OBVIOUS

LEMMA Different ==
    /\ <<"code">> # <<"credential", "code">> /\ <<"code">> # <<"ceremony", "credential", "code">>
    /\ <<"credential", "code">> # <<"ceremony", "credential", "code">>
    /\ <<"ceremony">> # <<"code", "ceremony">>
OBVIOUS

LEMMA TypeStep == TypeOK /\ StageInv /\ [Next]_vars => TypeOK'
<1> SUFFICES ASSUME TypeOK, StageInv PROVE [Next]_vars => TypeOK'
  OBVIOUS
<1> USE DEF locks, locals
<1>0. \A s \in {"ok", "failed", "user", "sweep", "row", "read", "count", "passkeys",
                "challenge", "touch", "commit", "rows", "idle"} : s \in PC
  BY DEF PC
<1>1. ASSUME NEW r \in Request, Rollback(r) PROVE TypeOK'
  BY <1>1, EndTypes DEF TypeOK, Rollback
<1>2. ASSUME NEW r \in Request, Touch(r) PROVE TypeOK'
  BY <1>2, EndTypes DEF TypeOK, Touch
<1>3. ASSUME NEW r \in Request, Commit(r) PROVE TypeOK'
  <2>1. /\ row' \in [Tables -> [Id -> RowState]]
        /\ \A j \in Id : /\ row'["credential"][j] \in {"none", "present", "gone"}
                         /\ row'["code"][j] \in {"none", "unused", "used", "gone"}
                         /\ row'["ceremony"][j] \in {"none", "registration", "authentication", "gone"}
    <3> DEFINE at(t, i) == IF i = r /\ t \in Inserted(r)
                           THEN IF t = "code" THEN "unused" ELSE "present"
                           ELSE IF lock[t][i] = r THEN Left(r, t, i) ELSE row[t][i]
    <3>1. row' = [t \in Tables |-> [i \in Id |-> at(t, i)]]
      BY <1>3 DEF Commit
    <3>2. Inserted(r) \subseteq {"credential", "code"}
      BY DEF Inserted
    <3>3. \A t \in Tables, i \in Id :
            Left(r, t, i) \in {row[t][i], "gone"} \/ (t = "code" /\ Left(r, t, i) = "used")
      BY DEF Left
    <3>4. \A t \in Tables, i \in Id : at(t, i) \in RowState
      BY <3>2, <3>3 DEF TypeOK, RowState, Tables
    <3>5. \A i \in Id : /\ at("credential", i) \in {"none", "present", "gone"}
                        /\ at("code", i) \in {"none", "unused", "used", "gone"}
                        /\ at("ceremony", i) \in {"none", "registration", "authentication", "gone"}
      BY <3>2, <3>3 DEF TypeOK, Tables
    <3> HIDE DEF at
    <3>. QED
      BY <3>1, <3>4, <3>5 DEF Tables
  <2>2. mfa' \in BOOLEAN
    BY <1>3 DEF Commit, TypeOK
  <2>. QED
    BY <1>3, <2>1, <2>2, EndTypes DEF TypeOK, Commit
<1>4. ASSUME NEW r \in Request, StartRegistration(r) PROVE TypeOK'
  BY <1>0, <1>4, BeginTypes, RowTypes DEF TypeOK, StartRegistration, Id, Tables, RowState
<1>5. ASSUME NEW r \in Request, LoginRead(r) PROVE TypeOK'
  BY <1>0, <1>5, BeginTypes DEF TypeOK, LoginRead
<1>6. ASSUME NEW r \in Request, Regenerate(r) \/ Disable(r) PROVE TypeOK'
  <2>1. <<"code">> \in Seq(Tables) /\ <<"ceremony", "credential", "code">> \in Seq(Tables)
    BY DEF Tables
  <2>2. todo' \in [Request -> Seq(Tables)]
    BY <1>6, <2>1 DEF Regenerate, Disable, TypeOK
  <2>. QED
    BY <1>0, <1>6, <2>2, BeginTypes DEF TypeOK, Regenerate, Disable
<1>7. ASSUME NEW r \in Request, NEW c \in Id, FinishRegistration(r, c) PROVE TypeOK'
  BY <1>0, <1>7, BeginTypes, RowTypes
     DEF TypeOK, FinishRegistration, RegistrationOrder, Tables, RowState
<1>8. ASSUME NEW r \in Request, NEW k \in Id, Remove(r, k) PROVE TypeOK'
  BY <1>0, <1>8, BeginTypes DEF TypeOK, Remove, Lock
<1>9. ASSUME NEW r \in Request, NEW c \in Id, NEW k \in Id, PasskeyLogin(r, c, k) PROVE TypeOK'
  BY <1>0, <1>9, BeginTypes, RowTypes DEF TypeOK, PasskeyLogin, Tables, RowState
<1>10. ASSUME NEW r \in Request, NEW c \in Id, NEW b \in Id, BackupLogin(r, c, b) PROVE TypeOK'
  BY <1>0, <1>10, BeginTypes DEF TypeOK, BackupLogin, Lock
<1>11. ASSUME NEW r \in Request, LockUser(r) PROVE TypeOK'
  BY <1>0, <1>11 DEF TypeOK, LockUser, RegistrationOrder
<1>12. ASSUME NEW r \in Request, Sweep(r) PROVE TypeOK'
  <2>1. todo[r] # <<>>
    BY <1>12 DEF Sweep, StageInv
  <2>2. PICK left \in SUBSET Id : Onward(r, left)
    BY <1>12 DEF Sweep
  <2>. QED
    BY <1>12, <2>1, <2>2, OnwardTypes DEF TypeOK, Sweep
<1>13. ASSUME NEW r \in Request, NEW i \in Id, SweepRow(r, i) PROVE TypeOK'
  <2>1. todo[r] # <<>>
    BY <1>13 DEF SweepRow, StageInv
  <2>2. rows[r] \ {i} \in SUBSET Id /\ Onward(r, rows[r] \ {i})
    BY <1>13 DEF SweepRow, TypeOK
  <2>3. lock' \in [Tables -> [Id -> Request \cup {None}]]
    <3>1. todo[r] \in Seq(Tables) /\ Head(todo[r]) \in Tables
      BY <2>1 DEF TypeOK
    <3>2. UNCHANGED lock \/ Lock(r, Head(todo[r]), i)
      BY <1>13 DEF SweepRow
    <3>. QED
      BY <3>1, <3>2, LockTypes DEF TypeOK
  <2>. QED
    BY <1>13, <2>1, <2>2, <2>3, OnwardTypes DEF TypeOK, SweepRow
<1>14. ASSUME NEW r \in Request, CountRegistered(r) PROVE TypeOK'
  BY <1>0, <1>14 DEF TypeOK, CountRegistered, RegistrationOrder
<1>15. ASSUME NEW r \in Request, ReadPasskeys(r) PROVE TypeOK'
  <2>1. CASE Rollback(r)
    BY <1>1, <2>1
  <2>2. CASE ~Rollback(r)
    <3>1. Passkeys \in SUBSET Id
      BY DEF Passkeys
    <3>2. allows' = [allows EXCEPT ![r] = Passkeys] /\ pc' = [pc EXCEPT ![r] = "challenge"]
          /\ UNCHANGED <<mfa, row, locks, locals, mixed>>
      BY <1>15, <2>2 DEF ReadPasskeys
    <3>. QED
      BY <1>0, <3>1, <3>2 DEF TypeOK
  <2>. QED
    BY <2>1, <2>2
<1>16. ASSUME NEW r \in Request, Challenge(r) PROVE TypeOK'
  BY <1>0, <1>16, RowTypes DEF TypeOK, Challenge, Id, Tables, RowState
<1>17. ASSUME NEW r \in Request, ReadPasskey(r) \/ UpdatePasskey(r) \/ UseCode(r) PROVE TypeOK'
  <2>1. CASE Rollback(r)
    BY <1>1, <2>1
  <2>2. CASE ~Rollback(r)
    <3>1. \/ pc' = [pc EXCEPT ![r] = "row"]
          \/ pc' = [pc EXCEPT ![r] = "commit"]
      BY <1>17, <2>2 DEF ReadPasskey, UpdatePasskey, UseCode
    <3>2. UNCHANGED <<mfa, row, allows, userlock, locals, mixed>>
      BY <1>17, <2>2 DEF ReadPasskey, UpdatePasskey, UseCode
    <3>3. \/ UNCHANGED lock
          \/ item[r] \in Passkeys /\ Lock(r, "credential", item[r])
          \/ row["code"][item[r]] = "unused" /\ Lock(r, "code", item[r])
      BY <1>17, <2>2 DEF ReadPasskey, UpdatePasskey, UseCode
    <3>4. lock' \in [Tables -> [Id -> Request \cup {None}]]
      <4>1. CASE item[r] \in Id
        BY <3>3, <4>1, LockTypes DEF TypeOK, Tables
      <4>2. CASE item[r] \notin Id
        <5>1. \A t \in Tables : [lock[t] EXCEPT ![item[r]] = r] = lock[t]
          BY <4>2 DEF TypeOK
        <5>2. \A t \in Tables : [lock EXCEPT ![t] = lock[t]] = lock
          BY DEF TypeOK
        <5>3. lock' = lock
          BY <3>3, <5>1, <5>2 DEF Lock, Tables
        <5>. QED
          BY <5>3 DEF TypeOK
      <4>. QED
        BY <4>1, <4>2
    <3>. QED
      BY ZenonT(60), <1>0, <3>1, <3>2, <3>4 DEF TypeOK
  <2>. QED
    BY <2>1, <2>2
<1>18. ASSUME NEW r \in Request, CountLeft(r) PROVE TypeOK'
  <2>1. <<"code", "ceremony">> \in Seq(Tables)
    BY DEF Tables
  <2>2. todo' = todo \/ todo' = [todo EXCEPT ![r] = <<"code", "ceremony">>]
    BY <1>18 DEF CountLeft
  <2>3. todo' \in [Request -> Seq(Tables)]
    BY <2>1, <2>2 DEF TypeOK
  <2>4. pc' = [pc EXCEPT ![r] = "sweep"] \/ pc' = [pc EXCEPT ![r] = "commit"]
    BY <1>18 DEF CountLeft
  <2>. QED
    BY ZenonT(60), <1>0, <1>18, <2>3, <2>4 DEF TypeOK, CountLeft
<1>19. ASSUME NEW c \in Id, Expire(c) PROVE TypeOK'
  BY <1>19, RowTypes DEF TypeOK, Expire, Tables, RowState
<1>20. CASE UNCHANGED vars
  BY <1>20 DEF vars, TypeOK
<1>. QED
  BY <1>1, <1>2, <1>3, <1>4, <1>5, <1>6, <1>7, <1>8, <1>9, <1>10, <1>11, <1>12, <1>13,
     <1>14, <1>15, <1>16, <1>17, <1>18, <1>19, <1>20
     DEF Next, Start, Continue, Cancel, DeadlockVictim

-----------------------------------------------------------------------------
(* The inductive invariant *)

LEMMA IInvInit == Init => IInv
<1> SUFFICES ASSUME Init PROVE IInv
  OBVIOUS
<1> USE NoneAssumption, EarlierAssumption
<1>1. \A i \in Request : row["credential"][i] = "none" /\ row["code"][i] = "none"
                         /\ row["ceremony"][i] = "none"
  BY DEF Init, Tables, Id
<1>2. /\ userlock = None /\ \A t \in Tables, i \in Id : lock[t][i] = None
      /\ \A r \in Request : op[r] = "none" /\ pc[r] = "idle"
  BY DEF Init
<1>3. LocksOfRunning /\ NameInv
  BY <1>1, <1>2 DEF LocksOfRunning, NameInv
<1>4. StageInv /\ CeremonyInv /\ OnceInv
  BY <1>2 DEF StageInv, CeremonyInv, OnceInv, Presenting, Id
<1>. QED
  BY <1>3, <1>4 DEF IInv

LEMMA IInvStep == TypeOK /\ IInv /\ [Next]_vars => IInv'
<1> SUFFICES ASSUME TypeOK, LocksOfRunning, NameInv, StageInv, CeremonyInv, OnceInv
             PROVE  [Next]_vars => IInv'
  BY DEF IInv
<1> USE NoneAssumption DEF locks, locals
<1>t. /\ row \in [Tables -> [Id -> RowState]] /\ lock \in [Tables -> [Id -> Request \cup {None}]]
      /\ op \in [Request -> Operations \cup {"none"}] /\ pc \in [Request -> PC]
      /\ on \in [Request -> Id \cup {None}] /\ item \in [Request -> Id \cup {None}]
      /\ todo \in [Request -> Seq(Tables)]
      /\ Request \subseteq Id /\ "credential" \in Tables /\ "code" \in Tables
      /\ "ceremony" \in Tables /\ None \notin Id
  BY DEF TypeOK, Id, Tables
<1>1. ASSUME NEW r \in Running, Rollback(r) PROVE IInv'
  <2>1. /\ r \in Request /\ pc[r] \notin {"idle", "ok", "failed"} /\ pc'[r] = "failed"
        /\ UNCHANGED <<op, on, item>>
        /\ \A q \in Request \ {r} : pc'[q] = pc[q] /\ todo'[q] = todo[q]
    BY <1>t, <1>1 DEF Rollback, End, Running
  <2>2. /\ UNCHANGED row
        /\ userlock' = IF userlock = r THEN None ELSE userlock
        /\ \A t \in Tables, i \in Id : lock'[t][i] = IF lock[t][i] = r THEN None ELSE lock[t][i]
    BY <1>t, <1>1 DEF Rollback, End, Running
  <2>3. LocksOfRunning'
    BY <1>t, <2>1, <2>2 DEF LocksOfRunning, Running, InTable
  <2>4. NameInv'
    BY <1>t, <2>1, <2>2 DEF NameInv, StageInv
  <2>5. StageInv'
    BY <1>t, <2>1, <2>2 DEF StageInv, Changes
  <2>6. CeremonyInv'
    BY <1>t, <2>1, <2>2 DEF CeremonyInv
  <2>7. OnceInv'
    BY <2>1 DEF OnceInv, Presenting
  <2>. QED
    BY <2>3, <2>4, <2>5, <2>6, <2>7 DEF IInv
<1>2. ASSUME NEW r \in Request, Touch(r) PROVE IInv'
  <2>1. /\ pc[r] = "touch" /\ pc'[r] = "ok"
        /\ UNCHANGED <<op, on, item>>
        /\ \A q \in Request \ {r} : pc'[q] = pc[q] /\ todo'[q] = todo[q]
    BY <1>t, <1>2 DEF Touch, End
  <2>2. /\ UNCHANGED row
        /\ userlock' = IF userlock = r THEN None ELSE userlock
        /\ \A t \in Tables, i \in Id : lock'[t][i] = IF lock[t][i] = r THEN None ELSE lock[t][i]
    BY <1>t, <1>2 DEF Touch, End
  <2>3. LocksOfRunning'
    BY <1>t, <2>1, <2>2 DEF LocksOfRunning, Running, InTable
  <2>4. NameInv'
    BY <1>t, <2>1, <2>2 DEF NameInv, StageInv
  <2>5. StageInv'
    BY <1>t, <2>1, <2>2 DEF StageInv, Changes
  <2>6. CeremonyInv'
    BY <1>t, <2>1, <2>2 DEF CeremonyInv, StageInv
  <2>7. OnceInv'
    BY <2>1 DEF OnceInv, Presenting, StageInv
  <2>. QED
    BY <2>3, <2>4, <2>5, <2>6, <2>7 DEF IInv
<1>3. ASSUME NEW r \in Request, Commit(r) PROVE IInv'
  <2>1. /\ pc[r] = "commit" /\ pc'[r] = "ok" /\ UNCHANGED <<op, on, item>>
        /\ \A q \in Request \ {r} : pc'[q] = pc[q] /\ todo'[q] = todo[q]
    BY <1>t, <1>3 DEF Commit, End
  <2>2. /\ userlock' = IF userlock = r THEN None ELSE userlock
        /\ \A t \in Tables, i \in Id : lock'[t][i] = IF lock[t][i] = r THEN None ELSE lock[t][i]
    BY <1>t, <1>3 DEF Commit, End
  <2>3. \A t \in Tables, i \in Id :
           row'[t][i] = IF i = r /\ t \in Inserted(r)
                        THEN IF t = "code" THEN "unused" ELSE "present"
                        ELSE IF lock[t][i] = r THEN Left(r, t, i) ELSE row[t][i]
    BY <1>3 DEF Commit
  <2>4. Inserted(r) \subseteq {"credential", "code"} /\ row["credential"][r] = "none" /\ row["code"][r] = "none"
    BY <2>1 DEF Inserted, NameInv
  <2>5. \A t \in Tables, i \in Id : InTable(t, i) /\ lock[t][i] # r => row'[t][i] = row[t][i]
    BY <1>t, <2>3, <2>4 DEF InTable
  <2>6. \A i \in Id : row["ceremony"][i] \in {"none", "gone"} => row'["ceremony"][i] = row["ceremony"][i]
    <3>1. \A i \in Id : row["ceremony"][i] \in {"none", "gone"} => lock["ceremony"][i] # r
      BY <1>t DEF LocksOfRunning, InTable
    <3>. QED
      BY <1>t, <2>3, <2>4, <3>1
  <2>7. \A i \in Id : row["code"][i] \in {"used", "gone"} => row'["code"][i] \in {"used", "gone"}
    BY <1>t, <2>3, <2>4 DEF Left
  <2>8. op[r] = "backup" => row'["ceremony"][on[r]] = "gone" /\ row'["code"][item[r]] = "used"
    <3>1. op[r] = "backup" => /\ on[r] \in Id /\ item[r] \in Id /\ Inserted(r) = {}
                              /\ lock["ceremony"][on[r]] = r /\ lock["code"][item[r]] = r
      BY <2>1 DEF CeremonyInv, Inserted
    <3>. QED
      BY <1>t, <2>3, <3>1 DEF Left
  <2>9. LocksOfRunning'
    BY <1>t, <2>1, <2>2, <2>5 DEF LocksOfRunning, Running, InTable
  <2>10. NameInv'
    <3>1. \A q \in Request \ {r} : /\ row["credential"][q] = "none" => row'["credential"][q] = "none"
                                   /\ row["code"][q] = "none" => row'["code"][q] = "none"
      <4>1. \A t \in Tables, q \in Request : row[t][q] = "none" => lock[t][q] # r
        BY <1>t DEF LocksOfRunning, InTable
      <4>. QED
        BY <1>t, <2>3, <4>1
    <3>2. \A q \in Request : row["ceremony"][q] = "none" => row'["ceremony"][q] = "none"
      BY <1>t, <2>6
    <3>3. \A q \in Request : row'["ceremony"][q] # "none" =>
             op'[q] \in {"start", "login"} /\ pc'[q] \notin {"idle", "passkeys", "challenge"}
      BY <2>1, <3>2 DEF NameInv
    <3>4. \A q \in Request : row'["credential"][q] # "none" \/ row'["code"][q] # "none" => pc'[q] = "ok"
      BY <2>1, <3>1 DEF NameInv
    <3>. QED
      BY <3>3, <3>4 DEF NameInv
  <2>11. StageInv'
    BY <1>t, <2>1, <2>2 DEF StageInv, Changes
  <2>12. CeremonyInv'
    <3> SUFFICES ASSUME NEW q \in Request
                 PROVE  /\ op'[q] = "passkey" => /\ on'[q] \in Id /\ item'[q] \in Id
                                                 /\ row'["ceremony"][on'[q]] = "gone"
                        /\ op'[q] = "backup" =>
                              /\ on'[q] \in Id /\ item'[q] \in Id
                              /\ pc'[q] \in {"row", "commit"} =>
                                    lock'["ceremony"][on'[q]] = q /\ row'["ceremony"][on'[q]] = "authentication"
                              /\ pc'[q] = "commit" =>
                                    lock'["code"][item'[q]] = q /\ row'["code"][item'[q]] = "unused"
                              /\ pc'[q] = "ok" => /\ row'["ceremony"][on'[q]] = "gone"
                                                 /\ row'["code"][item'[q]] \in {"used", "gone"}
      BY DEF CeremonyInv
    <3>1. op[q] = "passkey" => on[q] \in Id /\ item[q] \in Id /\ row'["ceremony"][on[q]] = "gone"
      BY <2>6 DEF CeremonyInv
    <3>2. CASE q = r
      BY <2>1, <2>8, <3>1, <3>2 DEF CeremonyInv
    <3>3. CASE q # r /\ op[q] = "backup"
      <4>1. /\ pc[q] \in {"row", "commit"} =>
                 lock["ceremony"][on[q]] = q /\ row["ceremony"][on[q]] = "authentication"
            /\ pc[q] = "commit" => lock["code"][item[q]] = q /\ row["code"][item[q]] = "unused"
            /\ pc[q] = "ok" => row["ceremony"][on[q]] = "gone" /\ row["code"][item[q]] \in {"used", "gone"}
            /\ on[q] \in Id /\ item[q] \in Id /\ pc'[q] = pc[q]
        BY <2>1, <3>3 DEF CeremonyInv
      <4>2. pc[q] \in {"row", "commit"} =>
               lock'["ceremony"][on[q]] = q /\ row'["ceremony"][on[q]] = "authentication"
        <5> SUFFICES ASSUME pc[q] \in {"row", "commit"}
                     PROVE  lock'["ceremony"][on[q]] = q /\ row'["ceremony"][on[q]] = "authentication"
          OBVIOUS
        <5>1. InTable("ceremony", on[q]) /\ lock["ceremony"][on[q]] = q /\ q # r
          BY <3>3, <4>1 DEF InTable
        <5>. QED
          BY <1>t, <2>2, <2>5, <4>1, <5>1
      <4>3. pc[q] = "commit" => lock'["code"][item[q]] = q /\ row'["code"][item[q]] = "unused"
        <5> SUFFICES ASSUME pc[q] = "commit"
                     PROVE  lock'["code"][item[q]] = q /\ row'["code"][item[q]] = "unused"
          OBVIOUS
        <5>1. InTable("code", item[q]) /\ lock["code"][item[q]] = q /\ q # r
          BY <3>3, <4>1 DEF InTable
        <5>. QED
          BY <1>t, <2>2, <2>5, <4>1, <5>1
      <4>4. pc[q] = "ok" => row'["ceremony"][on[q]] = "gone" /\ row'["code"][item[q]] \in {"used", "gone"}
        BY <2>6, <2>7, <4>1
      <4>. QED
        BY <2>1, <3>3, <4>1, <4>2, <4>3, <4>4
    <3>. QED
      BY <2>1, <3>1, <3>2, <3>3
  <2>13. OnceInv'
    BY <2>1 DEF OnceInv, Presenting
  <2>. QED
    BY <2>9, <2>10, <2>11, <2>12, <2>13 DEF IInv
<1>4. ASSUME NEW r \in Request, StartRegistration(r) PROVE IInv'
  <2>1. /\ pc[r] = "idle" /\ pc'[r] = "ok" /\ op'[r] = "start"
        /\ \A q \in Request \ {r} : op'[q] = op[q] /\ pc'[q] = pc[q] /\ on'[q] = on[q] /\ item'[q] = item[q] /\ todo'[q] = todo[q]
    BY <1>t, <1>4 DEF StartRegistration, Begin
  <2>2. /\ UNCHANGED <<userlock, lock>>
        /\ row' = [row EXCEPT !["ceremony"][r] = "registration"]
    BY <1>t, <1>4 DEF StartRegistration, Begin
  <2>3. LocksOfRunning'
    BY <1>t, <2>1, <2>2 DEF LocksOfRunning, Running, InTable
  <2>4. NameInv'
    BY <1>t, <2>1, <2>2 DEF NameInv, StageInv
  <2>5. StageInv'
    BY <1>t, <2>1, <2>2 DEF StageInv, Changes
  <2>6. CeremonyInv'
    BY <1>t, <2>1, <2>2 DEF CeremonyInv, NameInv, StageInv
  <2>7. OnceInv'
    BY <2>1 DEF OnceInv, Presenting
  <2>. QED
    BY <2>3, <2>4, <2>5, <2>6, <2>7 DEF IInv
<1>5. ASSUME NEW r \in Request, LoginRead(r) PROVE IInv'
  <2>1. /\ pc[r] = "idle" /\ pc'[r] \in {"passkeys", "touch"} /\ op'[r] = "login"
        /\ \A q \in Request \ {r} : op'[q] = op[q] /\ pc'[q] = pc[q] /\ on'[q] = on[q] /\ item'[q] = item[q] /\ todo'[q] = todo[q]
    BY <1>t, <1>5 DEF LoginRead, Begin
  <2>2. /\ UNCHANGED <<row, userlock, lock>>
    BY <1>t, <1>5 DEF LoginRead, Begin
  <2>3. LocksOfRunning'
    BY <1>t, <2>1, <2>2 DEF LocksOfRunning, Running, InTable
  <2>4. NameInv'
    BY <1>t, <2>1, <2>2 DEF NameInv, StageInv
  <2>5. StageInv'
    BY <1>t, <2>1, <2>2 DEF StageInv, Changes
  <2>6. CeremonyInv'
    BY <1>t, <2>1, <2>2 DEF CeremonyInv
  <2>7. OnceInv'
    BY <2>1 DEF OnceInv, Presenting
  <2>. QED
    BY <2>3, <2>4, <2>5, <2>6, <2>7 DEF IInv
<1>6. ASSUME NEW r \in Request, Regenerate(r) \/ Disable(r) PROVE IInv'
  <2>0. /\ <<"code">> # <<>> /\ <<"ceremony", "credential", "code">> # <<>>
        /\ todo'[r] \in {<<"code">>, <<"ceremony", "credential", "code">>}
    BY <1>t, <1>6 DEF Regenerate, Disable
  <2>1. /\ pc[r] = "idle" /\ pc'[r] = "sweep" /\ op'[r] \in {"regenerate", "disable"}
        /\ todo'[r] # <<>>
        /\ \A q \in Request \ {r} : op'[q] = op[q] /\ pc'[q] = pc[q] /\ on'[q] = on[q] /\ item'[q] = item[q] /\ todo'[q] = todo[q]
    BY <1>t, <1>6, <2>0 DEF Regenerate, Disable, Begin
  <2>2. /\ UNCHANGED <<row, userlock, lock>>
    BY <1>t, <1>6, <2>0 DEF Regenerate, Disable, Begin
  <2>3. LocksOfRunning'
    BY <1>t, <2>1, <2>2 DEF LocksOfRunning, Running, InTable
  <2>4. NameInv'
    BY <1>t, <2>1, <2>2 DEF NameInv, StageInv
  <2>5. StageInv'
    BY <1>t, <2>1, <2>2 DEF StageInv, Changes
  <2>6. CeremonyInv'
    BY <1>t, <2>1, <2>2 DEF CeremonyInv
  <2>7. OnceInv'
    BY <2>1 DEF OnceInv, Presenting
  <2>. QED
    BY <2>3, <2>4, <2>5, <2>6, <2>7 DEF IInv
<1>7. ASSUME NEW r \in Request, NEW c \in Id, FinishRegistration(r, c) PROVE IInv'
  <2>1. /\ pc[r] = "idle" /\ pc'[r] = "user" /\ op'[r] = "register"
        /\ \A q \in Request \ {r} : op'[q] = op[q] /\ pc'[q] = pc[q] /\ on'[q] = on[q] /\ item'[q] = item[q] /\ todo'[q] = todo[q]
    BY <1>t, <1>7 DEF FinishRegistration, RegistrationOrder, RowFree, Begin
  <2>2. /\ UNCHANGED <<userlock, lock>>
        /\ row["ceremony"][c] = "registration" /\ lock["ceremony"][c] \in {None, r}
        /\ row' = [row EXCEPT !["ceremony"][c] = "gone"]
    BY <1>t, <1>7 DEF FinishRegistration, RegistrationOrder, RowFree, Begin
  <2>3. LocksOfRunning'
    BY <1>t, <2>1, <2>2 DEF LocksOfRunning, Running, InTable
  <2>4. NameInv'
    BY <1>t, <2>1, <2>2 DEF NameInv, StageInv
  <2>5. StageInv'
    BY <1>t, <2>1, <2>2 DEF StageInv, Changes
  <2>6. CeremonyInv'
    BY SMTT(60), <1>t, <2>1, <2>2 DEF CeremonyInv
  <2>7. OnceInv'
    BY <2>1 DEF OnceInv, Presenting
  <2>. QED
    BY <2>3, <2>4, <2>5, <2>6, <2>7 DEF IInv
<1>8. ASSUME NEW r \in Request, NEW k \in Id, Remove(r, k) PROVE IInv'
  <2>1. /\ pc[r] = "idle" /\ pc'[r] = "count" /\ op'[r] = "remove"
        /\ \A q \in Request \ {r} : op'[q] = op[q] /\ pc'[q] = pc[q] /\ on'[q] = on[q] /\ item'[q] = item[q] /\ todo'[q] = todo[q]
    BY <1>t, <1>8 DEF Remove, Passkeys, RowFree, Lock, Begin
  <2>2. /\ UNCHANGED <<userlock, row>>
        /\ InTable("credential", k) /\ lock["credential"][k] \in {None, r}
        /\ lock' = [lock EXCEPT !["credential"][k] = r]
    BY <1>t, <1>8 DEF Remove, Passkeys, RowFree, Lock, Begin
  <2>3. LocksOfRunning'
    BY <1>t, <2>1, <2>2 DEF LocksOfRunning, Running, InTable
  <2>4. NameInv'
    BY <1>t, <2>1, <2>2 DEF NameInv, StageInv
  <2>5. StageInv'
    BY <1>t, <2>1, <2>2 DEF StageInv, Changes
  <2>6. CeremonyInv'
    BY <1>t, <2>1, <2>2 DEF CeremonyInv
  <2>7. OnceInv'
    BY <2>1 DEF OnceInv, Presenting
  <2>. QED
    BY <2>3, <2>4, <2>5, <2>6, <2>7 DEF IInv
<1>9. ASSUME NEW r \in Request, NEW c \in Id, NEW k \in Id, PasskeyLogin(r, c, k) PROVE IInv'
  <2>1. /\ pc[r] = "idle" /\ pc'[r] = "read" /\ op'[r] = "passkey" /\ on'[r] = c /\ item'[r] = k
        /\ \A q \in Request \ {r} : op'[q] = op[q] /\ pc'[q] = pc[q] /\ on'[q] = on[q] /\ item'[q] = item[q] /\ todo'[q] = todo[q]
    BY <1>t, <1>9 DEF PasskeyLogin, RowFree, Begin
  <2>2. /\ row["ceremony"][c] = "authentication" /\ lock["ceremony"][c] \in {None, r}
        /\ row' = [row EXCEPT !["ceremony"][c] = "gone"] /\ UNCHANGED <<userlock, lock>>
    BY <1>t, <1>9 DEF PasskeyLogin, RowFree, Begin
  <2>3. /\ \A q \in Request \ {r} : Presenting(q) => on[q] # c
        /\ \A t \in Tables, i \in Id : lock[t][i] # r
    <3>1. \A t \in Tables, i \in Id : lock[t][i] # r
      BY <1>t, <2>1 DEF LocksOfRunning, Running
    <3>2. \A q \in Request \ {r} : op[q] = "backup" /\ pc[q] # "failed" => pc[q] \in {"row", "commit", "ok"}
      BY <1>t DEF StageInv, PC
    <3>3. \A q \in Request \ {r} : op[q] = "passkey" => on[q] # c
      BY <2>2 DEF CeremonyInv
    <3>4. \A q \in Request \ {r} : op[q] = "backup" /\ pc[q] # "failed" => on[q] # c
      BY ZenonT(60), <1>t, <2>2, <3>2 DEF CeremonyInv
    <3>. QED
      BY <3>1, <3>3, <3>4 DEF Presenting
  <2>4. LocksOfRunning'
    BY <1>t, <2>1, <2>2, <2>3 DEF LocksOfRunning, Running, InTable
  <2>5. NameInv'
    BY <1>t, <2>1, <2>2, <2>3 DEF NameInv, StageInv
  <2>6. StageInv'
    <3>1. /\ \A t \in Tables, i \in Id : lock'[t][i] = lock[t][i] /\ lock[t][i] # r
          /\ userlock' = userlock /\ userlock # r
      BY <2>1, <2>2, <2>3 DEF StageInv
    <3>2. op[r] = "none"
      BY <2>1 DEF StageInv
    <3>. QED
      BY <2>1, <3>1, <3>2 DEF StageInv
  <2>7. CeremonyInv'
    <3>1. row'["ceremony"][c] = "gone" /\ \A i \in Id \ {c} : row'["ceremony"][i] = row["ceremony"][i]
      BY <1>t, <2>2
    <3>2. \A i \in Id : row'["code"][i] = row["code"][i]
      BY <1>t, <2>2
    <3>3. UNCHANGED lock
      BY <2>2
    <3>4. \A q \in Request \ {r} : op[q] = "backup" /\ pc[q] \in {"row", "commit", "ok"} => on[q] # c
      BY <2>3 DEF Presenting
    <3>. QED
      BY <2>1, <3>1, <3>2, <3>3, <3>4 DEF CeremonyInv
  <2>8. OnceInv'
    BY <2>1, <2>3 DEF OnceInv, Presenting
  <2>. QED
    BY <2>4, <2>5, <2>6, <2>7, <2>8 DEF IInv
<1>10. ASSUME NEW r \in Request, NEW c \in Id, NEW b \in Id, BackupLogin(r, c, b) PROVE IInv'
  <2>1. /\ pc[r] = "idle" /\ pc'[r] = "row" /\ op'[r] = "backup" /\ on'[r] = c /\ item'[r] = b
        /\ \A q \in Request \ {r} : op'[q] = op[q] /\ pc'[q] = pc[q] /\ on'[q] = on[q] /\ item'[q] = item[q] /\ todo'[q] = todo[q]
    BY <1>t, <1>10 DEF BackupLogin, RowFree, Lock, Begin
  <2>2. /\ row["ceremony"][c] = "authentication" /\ lock["ceremony"][c] \in {None, r}
        /\ lock' = [lock EXCEPT !["ceremony"][c] = r] /\ UNCHANGED <<userlock, row>>
    BY <1>t, <1>10 DEF BackupLogin, RowFree, Lock, Begin
  <2>3. /\ \A q \in Request \ {r} : Presenting(q) => on[q] # c
        /\ \A t \in Tables, i \in Id : lock[t][i] # r
    <3>1. \A t \in Tables, i \in Id : lock[t][i] # r
      BY <1>t, <2>1 DEF LocksOfRunning, Running
    <3>2. \A q \in Request \ {r} : op[q] = "backup" /\ pc[q] # "failed" => pc[q] \in {"row", "commit", "ok"}
      BY <1>t DEF StageInv, PC
    <3>3. \A q \in Request \ {r} : op[q] = "passkey" => on[q] # c
      BY <2>2 DEF CeremonyInv
    <3>4. \A q \in Request \ {r} : op[q] = "backup" /\ pc[q] # "failed" => on[q] # c
      BY ZenonT(60), <1>t, <2>2, <3>2 DEF CeremonyInv
    <3>. QED
      BY <3>1, <3>3, <3>4 DEF Presenting
  <2>4. LocksOfRunning'
    BY <1>t, <2>1, <2>2, <2>3 DEF LocksOfRunning, Running, InTable
  <2>5. NameInv'
    BY <1>t, <2>1, <2>2, <2>3 DEF NameInv, StageInv
  <2>6. StageInv'
    BY <1>t, <2>1, <2>2, <2>3 DEF StageInv, Changes
  <2>7. CeremonyInv'
    BY <1>t, <2>1, <2>2, <2>3 DEF CeremonyInv, Presenting, StageInv
  <2>8. OnceInv'
    BY <2>1, <2>3 DEF OnceInv, Presenting
  <2>. QED
    BY <2>4, <2>5, <2>6, <2>7, <2>8 DEF IInv
<1>11. ASSUME NEW r \in Request, LockUser(r) PROVE IInv'
  <2>1. /\ pc[r] = "user" /\ pc'[r] \in {"count", "commit"} /\ (pc'[r] = "count" => op[r] = "register")
        /\ op[r] # "backup" /\ op[r] # "passkey"
        /\ UNCHANGED <<op, on, item, todo>>
        /\ \A q \in Request \ {r} : pc'[q] = pc[q]
    BY <1>t, <1>11 DEF LockUser, RegistrationOrder, StageInv
  <2>2. /\ userlock' = r /\ UNCHANGED <<row, lock>>
    BY <1>t, <1>11 DEF LockUser, RegistrationOrder, StageInv
  <2>3. LocksOfRunning'
    BY <1>t, <2>1, <2>2 DEF LocksOfRunning, Running, InTable
  <2>4. NameInv'
    BY <1>t, <2>1, <2>2 DEF NameInv, StageInv
  <2>5. StageInv'
    BY <1>t, <2>1, <2>2 DEF StageInv, Changes
  <2>6. CeremonyInv'
    BY <1>t, <2>1, <2>2 DEF CeremonyInv
  <2>7. OnceInv'
    BY <2>1 DEF OnceInv, Presenting
  <2>. QED
    BY <2>3, <2>4, <2>5, <2>6, <2>7 DEF IInv
<1>12. ASSUME NEW r \in Request, Sweep(r) PROVE IInv'
  <2>0. Len(todo[r]) > 1 => Tail(todo[r]) # <<>>
    BY <1>t, <1>12, TailNonEmpty DEF StageInv
  <2>1. /\ pc[r] = "sweep" /\ op[r] \in {"regenerate", "remove", "disable"}
        /\ UNCHANGED <<op, on, item>>
        /\ \/ pc'[r] = "rows" /\ todo'[r] = todo[r]
           \/ pc'[r] = "sweep" /\ todo'[r] # <<>>
           \/ pc'[r] = "commit" /\ op[r] = "regenerate"
           \/ pc'[r] = "user" /\ op[r] # "regenerate"
        /\ \A q \in Request \ {r} : pc'[q] = pc[q] /\ todo'[q] = todo[q]
    BY <1>t, <1>12, <2>0 DEF Sweep, Onward, StageInv
  <2>2. /\ UNCHANGED <<row, userlock, lock>>
    BY <1>t, <1>12, <2>0 DEF Sweep, Onward, StageInv
  <2>3. LocksOfRunning'
    BY <1>t, <2>1, <2>2 DEF LocksOfRunning, Running, InTable
  <2>4. NameInv'
    BY <1>t, <2>1, <2>2 DEF NameInv, StageInv
  <2>5. StageInv'
    BY <1>t, <2>1, <2>2 DEF StageInv, Changes
  <2>6. CeremonyInv'
    BY <1>t, <2>1, <2>2 DEF CeremonyInv
  <2>7. OnceInv'
    BY <2>1 DEF OnceInv, Presenting
  <2>. QED
    BY <2>3, <2>4, <2>5, <2>6, <2>7 DEF IInv
<1>13. ASSUME NEW r \in Request, NEW i \in Id, SweepRow(r, i) PROVE IInv'
  <2>0. /\ Len(todo[r]) > 1 => Tail(todo[r]) # <<>>
        /\ Head(todo[r]) \in Tables
    BY <1>t, <1>13, TailNonEmpty, HeadInTables DEF SweepRow, StageInv
  <2>1. /\ pc[r] = "rows" /\ op[r] \in {"regenerate", "remove", "disable"}
        /\ UNCHANGED <<op, on, item>>
        /\ \/ pc'[r] = "rows" /\ todo'[r] = todo[r]
           \/ pc'[r] = "sweep" /\ todo'[r] # <<>>
           \/ pc'[r] = "commit" /\ op[r] = "regenerate"
           \/ pc'[r] = "user" /\ op[r] # "regenerate"
        /\ \A q \in Request \ {r} : pc'[q] = pc[q] /\ todo'[q] = todo[q]
    BY <1>t, <1>13, <2>0 DEF SweepRow, Onward, Lock, RowFree, StageInv
  <2>2. /\ UNCHANGED <<row, userlock>>
        /\ \/ UNCHANGED lock
           \/ \E t \in Tables : /\ lock[t][i] \in {None, r} /\ InTable(t, i)
                              /\ lock' = [lock EXCEPT ![t][i] = r]
    BY <1>t, <1>13, <2>0 DEF SweepRow, Onward, Lock, RowFree, StageInv
  <2>a. \A t \in Tables, j \in Id :
           lock'[t][j] = lock[t][j] \/ (lock[t][j] = None /\ lock'[t][j] = r /\ InTable(t, j))
    <3>1. CASE UNCHANGED lock
      BY <3>1
    <3>2. CASE ~UNCHANGED lock
      <4>1. PICK u \in Tables : /\ lock[u][i] \in {None, r} /\ InTable(u, i)
                                /\ lock' = [lock EXCEPT ![u][i] = r]
        BY <2>2, <3>2
      <4>2. \A t \in Tables, j \in Id :
               lock'[t][j] = IF t = u /\ j = i THEN r ELSE lock[t][j]
        BY <1>t, <4>1
      <4>. QED
        BY <4>1, <4>2
    <3>. QED
      BY <3>1, <3>2
  <2>3. LocksOfRunning'
    <3>1. \A t \in Tables, j \in Id : InTable(t, j)' = InTable(t, j)
      BY <2>2 DEF InTable
    <3>2. Running' = Running /\ r \in Running /\ UNCHANGED userlock
      <4>1. \A q \in Request : pc[q] \notin {"idle", "ok", "failed"} <=> pc'[q] \notin {"idle", "ok", "failed"}
        BY <2>1
      <4>. QED
        BY <2>1, <2>2, <4>1 DEF Running
    <3>3. \A t \in Tables, j \in Id : lock'[t][j] \in Running \cup {None} /\ (lock'[t][j] # None => InTable(t, j))
      BY <2>a, <3>2 DEF LocksOfRunning
    <3>. QED
      BY <3>1, <3>2, <3>3 DEF LocksOfRunning
  <2>4. NameInv'
    BY <1>t, <2>1, <2>2 DEF NameInv, StageInv
  <2>5. StageInv'
    BY <1>t, <2>1, <2>2 DEF StageInv, Changes
  <2>6. CeremonyInv'
    <3>1. \A t \in Tables, j \in Id, q \in Request : lock[t][j] = q => lock'[t][j] = q
      BY <1>t, <2>a
    <3>. QED
      BY <1>t, <2>1, <2>2, <3>1 DEF CeremonyInv
  <2>7. OnceInv'
    BY <2>1 DEF OnceInv, Presenting
  <2>. QED
    BY <2>3, <2>4, <2>5, <2>6, <2>7 DEF IInv
<1>14. ASSUME NEW r \in Request, CountRegistered(r) PROVE IInv'
  <2>1. /\ pc[r] = "count" /\ op[r] = "register" /\ pc'[r] = "commit"
        /\ UNCHANGED <<op, on, item, todo>>
        /\ \A q \in Request \ {r} : pc'[q] = pc[q]
    BY <1>t, <1>14 DEF CountRegistered, RegistrationOrder
  <2>2. /\ UNCHANGED <<row, userlock, lock>>
    BY <1>t, <1>14 DEF CountRegistered, RegistrationOrder
  <2>3. LocksOfRunning'
    BY <1>t, <2>1, <2>2 DEF LocksOfRunning, Running, InTable
  <2>4. NameInv'
    BY <1>t, <2>1, <2>2 DEF NameInv, StageInv
  <2>5. StageInv'
    BY <1>t, <2>1, <2>2 DEF StageInv, Changes
  <2>6. CeremonyInv'
    BY <1>t, <2>1, <2>2 DEF CeremonyInv
  <2>7. OnceInv'
    BY <2>1 DEF OnceInv, Presenting
  <2>. QED
    BY <2>3, <2>4, <2>5, <2>6, <2>7 DEF IInv
<1>15. ASSUME NEW r \in Request, ReadPasskeys(r) PROVE IInv'
  <2>1. CASE Rollback(r)
    BY <1>1, <1>15, <2>1 DEF ReadPasskeys, Running
  <2>2. CASE ~Rollback(r)
    <3>1. /\ pc[r] = "passkeys" /\ pc'[r] = "challenge"
          /\ UNCHANGED <<op, on, item, todo>>
          /\ \A q \in Request \ {r} : pc'[q] = pc[q]
      BY <1>t, <1>15, <2>2 DEF ReadPasskeys
    <3>2. /\ UNCHANGED <<row, userlock, lock>>
      BY <1>t, <1>15, <2>2 DEF ReadPasskeys
    <3>3. LocksOfRunning'
      BY <1>t, <3>1, <3>2 DEF LocksOfRunning, Running, InTable
    <3>4. NameInv'
      BY <1>t, <3>1, <3>2 DEF NameInv, StageInv
    <3>5. StageInv'
      BY <1>t, <3>1, <3>2 DEF StageInv, Changes
    <3>6. CeremonyInv'
      BY <1>t, <3>1, <3>2 DEF CeremonyInv
    <3>7. OnceInv'
      BY <3>1 DEF OnceInv, Presenting
    <3>. QED
      BY <3>3, <3>4, <3>5, <3>6, <3>7 DEF IInv
  <2>. QED
    BY <2>1, <2>2
<1>16. ASSUME NEW r \in Request, Challenge(r) PROVE IInv'
  <2>1. /\ pc[r] = "challenge" /\ pc'[r] = "touch" /\ op[r] = "login"
        /\ UNCHANGED <<op, on, item, todo>>
        /\ \A q \in Request \ {r} : pc'[q] = pc[q]
    BY <1>t, <1>16 DEF Challenge, StageInv
  <2>2. /\ row' = [row EXCEPT !["ceremony"][r] = "authentication"]
        /\ UNCHANGED <<userlock, lock>>
    BY <1>t, <1>16 DEF Challenge, StageInv
  <2>3. LocksOfRunning'
    BY <1>t, <2>1, <2>2 DEF LocksOfRunning, Running, InTable
  <2>4. NameInv'
    BY <1>t, <2>1, <2>2 DEF NameInv, StageInv
  <2>5. StageInv'
    BY <1>t, <2>1, <2>2 DEF StageInv, Changes
  <2>6. CeremonyInv'
    BY <1>t, <2>1, <2>2 DEF CeremonyInv, NameInv
  <2>7. OnceInv'
    BY <2>1 DEF OnceInv, Presenting
  <2>. QED
    BY <2>3, <2>4, <2>5, <2>6, <2>7 DEF IInv
<1>17. ASSUME NEW r \in Request, ReadPasskey(r) PROVE IInv'
  <2>1. CASE Rollback(r)
    BY <1>1, <1>17, <2>1 DEF ReadPasskey, Running
  <2>2. CASE ~Rollback(r)
    <3>1. /\ pc[r] = "read" /\ pc'[r] = "row" /\ op[r] = "passkey"
          /\ UNCHANGED <<op, on, item, todo>>
          /\ \A q \in Request \ {r} : pc'[q] = pc[q]
      BY <1>t, <1>17, <2>2 DEF ReadPasskey, StageInv
    <3>2. /\ UNCHANGED <<row, userlock, lock>>
      BY <1>t, <1>17, <2>2 DEF ReadPasskey, StageInv
    <3>3. LocksOfRunning'
      BY <1>t, <3>1, <3>2 DEF LocksOfRunning, Running, InTable
    <3>4. NameInv'
      BY <1>t, <3>1, <3>2 DEF NameInv, StageInv
    <3>5. StageInv'
      BY <1>t, <3>1, <3>2 DEF StageInv, Changes
    <3>6. CeremonyInv'
      BY <1>t, <3>1, <3>2 DEF CeremonyInv
    <3>7. OnceInv'
      BY <3>1 DEF OnceInv, Presenting
    <3>. QED
      BY <3>3, <3>4, <3>5, <3>6, <3>7 DEF IInv
  <2>. QED
    BY <2>1, <2>2
<1>18. ASSUME NEW r \in Request, UpdatePasskey(r) PROVE IInv'
  <2>1. /\ pc[r] = "row" /\ op[r] = "passkey" /\ pc'[r] = "commit"
        /\ UNCHANGED <<op, on, item, todo>>
        /\ \A q \in Request \ {r} : pc'[q] = pc[q]
    BY <1>t, <1>18 DEF UpdatePasskey, Lock, RowFree, Passkeys
  <2>2. /\ \/ UNCHANGED lock
           \/ \E k \in Id : /\ InTable("credential", k) /\ lock["credential"][k] \in {None, r}
                          /\ lock' = [lock EXCEPT !["credential"][k] = r]
        /\ UNCHANGED <<row, userlock>>
    BY <1>t, <1>18 DEF UpdatePasskey, Lock, RowFree, Passkeys
  <2>a. \A t \in Tables, i \in Id :
           lock'[t][i] = lock[t][i] \/ (lock[t][i] = None /\ lock'[t][i] = r /\ InTable(t, i))
    <3>1. CASE UNCHANGED lock
      BY <3>1
    <3>2. CASE ~UNCHANGED lock
      <4>1. PICK k \in Id : /\ InTable("credential", k) /\ lock["credential"][k] \in {None, r}
                            /\ lock' = [lock EXCEPT !["credential"][k] = r]
        BY <2>2, <3>2
      <4>2. \A t \in Tables, i \in Id :
               lock'[t][i] = IF t = "credential" /\ i = k THEN r ELSE lock[t][i]
        BY <1>t, <4>1
      <4>. QED
        BY <4>1, <4>2
    <3>. QED
      BY <3>1, <3>2
  <2>3. LocksOfRunning'
    <3>1. \A t \in Tables, i \in Id : InTable(t, i)' = InTable(t, i)
      BY <2>2 DEF InTable
    <3>2. Running' = Running /\ r \in Running /\ UNCHANGED userlock
      <4>1. \A q \in Request : pc[q] \notin {"idle", "ok", "failed"} <=> pc'[q] \notin {"idle", "ok", "failed"}
        BY <2>1
      <4>. QED
        BY <2>1, <2>2, <4>1 DEF Running
    <3>3. \A t \in Tables, i \in Id : lock'[t][i] \in Running \cup {None} /\ (lock'[t][i] # None => InTable(t, i))
      BY <2>a, <3>2 DEF LocksOfRunning
    <3>. QED
      BY <3>1, <3>2, <3>3 DEF LocksOfRunning
  <2>4. NameInv'
    BY <1>t, <2>1, <2>2 DEF NameInv, StageInv
  <2>5. StageInv'
    BY <1>t, <2>1, <2>2 DEF StageInv, Changes
  <2>6. CeremonyInv'
    <3>1. \A t \in Tables, i \in Id, q \in Request : lock[t][i] = q => lock'[t][i] = q
      BY <1>t, <2>a
    <3>2. \A q \in Request : op[q] = "backup" => q # r /\ pc'[q] = pc[q]
      BY <2>1
    <3>. QED
      <4>1. \A q \in Request : op[q] = "backup" /\ pc'[q] \in {"row", "commit"} =>
               lock'["ceremony"][on[q]] = q
        <5>1. \A q \in Request : op[q] = "backup" /\ pc[q] \in {"row", "commit"} =>
                 on[q] \in Id /\ lock["ceremony"][on[q]] = q
          BY DEF CeremonyInv
        <5>2. \A i \in Id, q \in Request : lock["ceremony"][i] = q => lock'["ceremony"][i] = q
          BY <1>t, <3>1
        <5>. QED
          BY <3>2, <5>1, <5>2
      <4>2. \A q \in Request : op[q] = "backup" /\ pc'[q] = "commit" => lock'["code"][item[q]] = q
        <5>1. \A q \in Request : op[q] = "backup" /\ pc[q] \in {"commit"} =>
                 item[q] \in Id /\ lock["code"][item[q]] = q
          BY DEF CeremonyInv
        <5>2. \A i \in Id, q \in Request : lock["code"][i] = q => lock'["code"][i] = q
          BY <1>t, <3>1
        <5>. QED
          BY <3>2, <5>1, <5>2
      <4>. QED
        BY <2>1, <2>2, <3>2, <4>1, <4>2 DEF CeremonyInv
  <2>7. OnceInv'
    BY <2>1 DEF OnceInv, Presenting
  <2>. QED
    BY <2>3, <2>4, <2>5, <2>6, <2>7 DEF IInv
<1>19. ASSUME NEW r \in Request, UseCode(r) PROVE IInv'
  <2>1. CASE Rollback(r)
    BY <1>1, <1>19, <2>1 DEF UseCode, Running
  <2>2. CASE ~Rollback(r)
    <3>1. /\ pc[r] = "row" /\ op[r] = "backup" /\ pc'[r] = "commit" /\ item[r] \in Id
          /\ UNCHANGED <<op, on, item, todo>>
          /\ \A q \in Request \ {r} : pc'[q] = pc[q]
      BY <1>t, <1>19, <2>2 DEF UseCode, Lock, RowFree, CeremonyInv
    <3>2. /\ lock["code"][item[r]] \in {None, r} /\ row["code"][item[r]] = "unused"
          /\ lock' = [lock EXCEPT !["code"][item[r]] = r]
          /\ UNCHANGED <<row, userlock>>
      BY <1>t, <1>19, <2>2 DEF UseCode, Lock, RowFree, CeremonyInv
    <3>3. \A q \in Request \ {r} : op[q] = "backup" /\ pc[q] \in {"commit", "ok"} => item[q] # item[r]
      <4>1. r # None /\ \A q \in Request : q # None
        BY <1>t
      <4>. QED
        BY <3>1, <3>2, <4>1 DEF CeremonyInv
    <3>4. LocksOfRunning'
      BY <1>t, <3>1, <3>2, <3>3 DEF LocksOfRunning, Running, InTable
    <3>5. NameInv'
      BY <1>t, <3>1, <3>2, <3>3 DEF NameInv, StageInv
    <3>6. StageInv'
      BY <1>t, <3>1, <3>2, <3>3 DEF StageInv, Changes
    <3>7. CeremonyInv'
      BY <1>t, <3>1, <3>2, <3>3 DEF CeremonyInv
    <3>8. OnceInv'
      BY <3>1, <3>3 DEF OnceInv, Presenting
    <3>. QED
      BY <3>4, <3>5, <3>6, <3>7, <3>8 DEF IInv
  <2>. QED
    BY <2>1, <2>2
<1>20. ASSUME NEW r \in Request, CountLeft(r) PROVE IInv'
  <2>0. /\ <<"code", "ceremony">> # <<>>
        /\ pc'[r] = "sweep" => todo'[r] = <<"code", "ceremony">>
    BY <1>t, <1>20 DEF CountLeft
  <2>1. /\ pc[r] = "count" /\ op[r] = "remove" /\ pc'[r] \in {"sweep", "commit"}
        /\ pc'[r] = "sweep" => todo'[r] # <<>>
        /\ UNCHANGED <<op, on, item>>
        /\ \A q \in Request \ {r} : pc'[q] = pc[q] /\ todo'[q] = todo[q]
    BY <1>t, <1>20, <2>0 DEF CountLeft
  <2>2. /\ UNCHANGED <<row, userlock, lock>>
    BY <1>t, <1>20, <2>0 DEF CountLeft
  <2>3. LocksOfRunning'
    BY <1>t, <2>1, <2>2 DEF LocksOfRunning, Running, InTable
  <2>4. NameInv'
    BY <1>t, <2>1, <2>2 DEF NameInv, StageInv
  <2>5. StageInv'
    BY <1>t, <2>1, <2>2 DEF StageInv, Changes
  <2>6. CeremonyInv'
    BY <1>t, <2>1, <2>2 DEF CeremonyInv
  <2>7. OnceInv'
    BY <2>1 DEF OnceInv, Presenting
  <2>. QED
    BY <2>3, <2>4, <2>5, <2>6, <2>7 DEF IInv
<1>21. ASSUME NEW c \in Id, Expire(c) PROVE IInv'
  <2>1. /\ UNCHANGED pc
        /\ UNCHANGED <<op, on, item, todo>>
    BY <1>t, <1>21 DEF Expire
  <2>2. /\ lock["ceremony"][c] = None /\ InTable("ceremony", c)
        /\ row' = [row EXCEPT !["ceremony"][c] = "gone"]
        /\ UNCHANGED <<userlock, lock>>
    BY <1>t, <1>21 DEF Expire
  <2>3. LocksOfRunning'
    BY <1>t, <2>1, <2>2 DEF LocksOfRunning, Running, InTable
  <2>4. NameInv'
    BY <1>t, <2>1, <2>2 DEF NameInv, StageInv, InTable
  <2>5. StageInv'
    BY <1>t, <2>1, <2>2 DEF StageInv, Changes
  <2>6. CeremonyInv'
    BY <1>t, <2>1, <2>2 DEF CeremonyInv
  <2>7. OnceInv'
    BY <2>1 DEF OnceInv, Presenting
  <2>. QED
    BY <2>3, <2>4, <2>5, <2>6, <2>7 DEF IInv
<1>22. CASE UNCHANGED vars
  BY <1>22 DEF vars, IInv, LocksOfRunning, Running, InTable, NameInv, StageInv, CeremonyInv, OnceInv,
               Presenting
<1>. QED
  BY <1>1, <1>2, <1>3, <1>4, <1>5, <1>6, <1>7, <1>8, <1>9, <1>10, <1>11, <1>12, <1>13,
     <1>14, <1>15, <1>16, <1>17, <1>18, <1>19, <1>20, <1>21, <1>22
     DEF Next, Start, Continue, Cancel, DeadlockVictim

-----------------------------------------------------------------------------
(* Theorems *)

\* The types and the parts of IInv hold in every behaviour.
THEOREM Inductive == Spec => [](TypeOK /\ IInv)
<1>1. Init => TypeOK /\ IInv
  BY TypeInit, IInvInit
<1>2. TypeOK /\ IInv /\ [Next]_vars => (TypeOK /\ IInv)'
  BY TypeStep, IInvStep DEF IInv
<1>. QED
  BY <1>1, <1>2, PTL DEF Spec

\* Every variable keeps its type through all statements and all failures.
THEOREM TypeCorrect == Spec => []TypeOK
BY Inductive, PTL

\* However many logins of passkey.rs overlap, a ceremony and a code admit one.
THEOREM OnceOnly == Spec => []SecondFactorOnce
<1>1. IInv => SecondFactorOnce
  <2> SUFFICES ASSUME OnceInv, NEW r \in Request, NEW q \in Request,
                      op[r] \in {"passkey", "backup"}, op[q] \in {"passkey", "backup"},
                      pc[r] = "ok", pc[q] = "ok",
                      \/ on[r] = on[q]
                      \/ op[r] = "backup" /\ op[q] = "backup" /\ item[r] = item[q]
               PROVE  r = q
    BY DEF IInv, SecondFactorOnce
  <2>1. Presenting(r) /\ Presenting(q)
    BY DEF Presenting
  <2>. QED
    BY <2>1 DEF OnceInv
<1>. QED
  BY <1>1, Inductive, PTL

\* A login by code commits while its code is still unused and its ceremony
\* still open, whatever regenerates, removes or expires them meanwhile.
THEOREM CodeGood == Spec => CodeGoodUntilCommit
<1> DEFINE Good == \A r \in Request :
              pc[r] # "ok" /\ pc'[r] = "ok" /\ op[r] = "backup"
              => /\ row["code"][item[r]] = "unused"
                 /\ row["ceremony"][on[r]] = "authentication"
<1>1. TypeOK /\ IInv /\ [Next]_vars => [Good]_vars
  <2> SUFFICES ASSUME TypeOK, IInv, [Next]_vars, NEW r \in Request,
                      pc[r] # "ok", pc'[r] = "ok", op[r] = "backup"
               PROVE  /\ row["code"][item[r]] = "unused"
                      /\ row["ceremony"][on[r]] = "authentication"
    OBVIOUS
  <2> USE DEF locks, locals
  <2>1. pc \in [Request -> PC]
    BY DEF TypeOK
  <2>2. pc[r] \notin {"idle", "touch"}
    BY DEF IInv, StageInv
  <2>3. \A q \in Request : \A outcome : End(q, outcome) => q = r /\ outcome = "ok"
    BY <2>1 DEF End
  <2>4. Commit(r)
    <3>1. \A q \in Request : ~Rollback(q)
      BY <2>3 DEF Rollback
    <3>2. \A q \in Request : Start(q) => FALSE
      <4>1. \A q \in Request : \A o, c, i, next : Begin(q, o, c, i, next) => FALSE
        BY <2>1, <2>2 DEF Begin
      <4>. QED
        BY <4>1 DEF Start, StartRegistration, LoginRead, Regenerate, Disable, FinishRegistration,
                    Remove, PasskeyLogin, BackupLogin
    <3>3. \A q \in Request : Touch(q) => FALSE
      BY <2>2, <2>3 DEF Touch
    <3>4. \A q \in Request : \A left : ~Onward(q, left)
      BY <2>1 DEF Onward
    <3>5. \A q \in Request : Continue(q) => Commit(q)
      BY <2>1, <3>1, <3>3, <3>4
         DEF Continue, LockUser, Sweep, CountRegistered, ReadPasskeys, Challenge, ReadPasskey,
             UpdatePasskey, UseCode, CountLeft, SweepRow, RegistrationOrder
    <3>6. \A q \in Request : Commit(q) => q = r
      BY <2>3 DEF Commit
    <3>7. \A c \in Id : ~Expire(c)
      BY DEF Expire
    <3>8. ~UNCHANGED vars
      BY DEF vars
    <3>. QED
      BY <3>1, <3>2, <3>5, <3>6, <3>7, <3>8 DEF Next, Cancel, DeadlockVictim
  <2>5. pc[r] = "commit"
    BY <2>4 DEF Commit
  <2>. QED
    BY <2>5 DEF IInv, CeremonyInv
<1>. QED
  BY <1>1, Inductive, PTL DEF Spec, CodeGoodUntilCommit

-----------------------------------------------------------------------------
(* The lock order: WaitInv, what a request may hold while it waits, is     *)
(* inductive beside IInv, and a circle of waiting requests needs a removal *)
(* of a passkey or two requests that empty tables.                         *)

LEMMA WaitInit == Init => WaitInv
<1> SUFFICES ASSUME Init, NEW r \in Request PROVE WaitOf(r)
  BY DEF WaitInv
<1>1. userlock = None /\ pc[r] = "idle" /\ op[r] = "none"
      /\ \A t \in Tables, i \in Id : lock[t][i] = None
  BY DEF Init
<1>. QED
  BY <1>1, NoneAssumption DEF WaitOf, Id

\* A request that does not step keeps what WaitOf says of it, if it gets no
\* lock either.
LEMMA WaitKept ==
    ASSUME NEW q, WaitOf(q), op'[q] = op[q], pc'[q] = pc[q], todo'[q] = todo[q],
           userlock' = q => userlock = q,
           \A t \in Tables, i \in Id : lock'[t][i] = q => lock[t][i] = q
    PROVE  WaitOf(q)'
BY DEF WaitOf

\* It does so however another request ends, begins or goes on.
LEMMA WaitAfterEnd ==
    ASSUME TypeOK, WaitInv, NEW r \in Request, NEW outcome \in {"ok", "failed"},
           End(r, outcome)
    PROVE  WaitInv'
<1> SUFFICES ASSUME NEW q \in Request PROVE WaitOf(q)'
  BY DEF WaitInv
<1> USE NoneAssumption DEF Id
<1>1. /\ op' = op /\ pc'[r] = outcome
      /\ q # r => pc'[q] = pc[q] /\ todo'[q] = todo[q]
      /\ userlock' = IF userlock = r THEN None ELSE userlock
      /\ \A t \in Tables, i \in Id : lock'[t][i] = IF lock[t][i] = r THEN None ELSE lock[t][i]
  BY DEF End, TypeOK
<1>2. CASE q = r
  BY <1>1, <1>2 DEF WaitOf
<1>3. CASE q # r
  <2>1. WaitOf(q)
    BY DEF WaitInv
  <2>2. userlock' = q => userlock = q
    BY <1>1
  <2>3. \A t \in Tables, i \in Id : lock'[t][i] = q => lock[t][i] = q
    BY <1>1
  <2>. QED
    BY <1>1, <1>3, <2>1, <2>2, <2>3, WaitKept
<1>. QED
  BY <1>2, <1>3

LEMMA LockOne ==
    ASSUME TypeOK, NEW r \in Request, NEW t \in Tables, NEW i, Lock(r, t, i)
    PROVE  \A u \in Tables, j \in Id :
              lock'[u][j] = IF u = t /\ j = i THEN r ELSE lock[u][j]
BY DEF TypeOK, Lock

LEMMA WaitStep == TypeOK /\ IInv /\ WaitInv /\ [Next]_vars => WaitInv'
<1> SUFFICES ASSUME TypeOK, LocksOfRunning, StageInv, WaitInv
             PROVE  [Next]_vars => WaitInv'
  BY DEF IInv
<1> USE NoneAssumption DEF locks, locals
<1>t. /\ lock \in [Tables -> [Id -> Request \cup {None}]]
      /\ op \in [Request -> Operations \cup {"none"}] /\ pc \in [Request -> PC]
      /\ todo \in [Request -> Seq(Tables)]
      /\ Request \subseteq Id /\ "credential" \in Tables /\ "code" \in Tables
      /\ "ceremony" \in Tables /\ None \notin Request
  BY DEF TypeOK, Id, Tables
<1>k. ASSUME NEW r \in Request, WaitOf(r)',
             \A q \in Request \ {r} : /\ op'[q] = op[q] /\ pc'[q] = pc[q] /\ todo'[q] = todo[q]
                                      /\ userlock' = q => userlock = q
                                      /\ \A t \in Tables, i \in Id : lock'[t][i] = q => lock[t][i] = q
      PROVE  WaitInv'
  <2>1. ASSUME NEW q \in Request \ {r} PROVE WaitOf(q)'
    <3>1. WaitOf(q)
      BY DEF WaitInv
    <3>. QED
      BY <1>k, <3>1, WaitKept
  <2>. QED
    BY <1>k, <2>1 DEF WaitInv
<1>1. ASSUME NEW r \in Request, Rollback(r) PROVE WaitInv'
  BY <1>1, WaitAfterEnd DEF Rollback
<1>2. ASSUME NEW r \in Request, Touch(r) PROVE WaitInv'
  BY <1>2, WaitAfterEnd DEF Touch
<1>3. ASSUME NEW r \in Request, Commit(r) PROVE WaitInv'
  BY <1>3, WaitAfterEnd DEF Commit
\* A request that begins holds nothing but what its first statement locks.
<1>n. ASSUME NEW r \in Request, pc[r] = "idle"
      PROVE  userlock # r /\ \A t \in Tables, i \in Id : lock[t][i] # r
  BY <1>n, <1>t DEF LocksOfRunning, Running
<1>b. ASSUME NEW r \in Request, NEW o, NEW c, NEW i, NEW next, Begin(r, o, c, i, next)
      PROVE  /\ pc[r] = "idle" /\ op'[r] = o /\ pc'[r] = next
             /\ \A q \in Request \ {r} : op'[q] = op[q] /\ pc'[q] = pc[q]
  BY <1>b, <1>t DEF Begin
<1>4. ASSUME NEW r \in Request, StartRegistration(r) PROVE WaitInv'
  <2>1. /\ pc[r] = "idle" /\ op'[r] = "start" /\ pc'[r] = "ok"
        /\ \A q \in Request \ {r} : op'[q] = op[q] /\ pc'[q] = pc[q]
    BY <1>4, <1>b DEF StartRegistration
  <2>2. UNCHANGED <<todo, userlock, lock>>
    BY <1>4 DEF StartRegistration
  <2>. QED
    BY <1>k, <1>n, <2>1, <2>2 DEF WaitOf
<1>5. ASSUME NEW r \in Request, LoginRead(r) PROVE WaitInv'
  <2>1. /\ pc[r] = "idle" /\ op'[r] = "login" /\ pc'[r] \in {"passkeys", "touch"}
        /\ \A q \in Request \ {r} : op'[q] = op[q] /\ pc'[q] = pc[q]
    BY <1>5, <1>b DEF LoginRead
  <2>2. UNCHANGED <<todo, userlock, lock>>
    BY <1>5 DEF LoginRead
  <2>. QED
    BY <1>k, <1>n, <2>1, <2>2 DEF WaitOf
<1>6. ASSUME NEW r \in Request, Regenerate(r) PROVE WaitInv'
  <2>1. /\ pc[r] = "idle" /\ op'[r] = "regenerate" /\ pc'[r] = "sweep"
        /\ \A q \in Request \ {r} : op'[q] = op[q] /\ pc'[q] = pc[q]
    BY <1>6, <1>b DEF Regenerate
  <2>2. UNCHANGED <<userlock, lock>> /\ todo'[r] = <<"code">>
        /\ \A q \in Request \ {r} : todo'[q] = todo[q]
    BY <1>6, <1>t DEF Regenerate
  <2>. QED
    BY <1>k, <1>n, <2>1, <2>2 DEF WaitOf
<1>7. ASSUME NEW r \in Request, Disable(r) PROVE WaitInv'
  <2>1. /\ pc[r] = "idle" /\ op'[r] = "disable" /\ pc'[r] = "sweep"
        /\ \A q \in Request \ {r} : op'[q] = op[q] /\ pc'[q] = pc[q]
    BY <1>7, <1>b DEF Disable
  <2>2. UNCHANGED <<userlock, lock>> /\ todo'[r] = <<"ceremony", "credential", "code">>
        /\ \A q \in Request \ {r} : todo'[q] = todo[q]
    BY <1>7, <1>t DEF Disable
  <2>3. WaitOf(r)'
    BY <1>n, <2>1, <2>2 DEF WaitOf
  <2>. QED
    BY <1>k, <2>1, <2>2, <2>3
<1>8. ASSUME NEW r \in Request, NEW c \in Id, FinishRegistration(r, c) PROVE WaitInv'
  <2>1. /\ pc[r] = "idle" /\ op'[r] = "register" /\ pc'[r] = "user"
        /\ \A q \in Request \ {r} : op'[q] = op[q] /\ pc'[q] = pc[q]
    BY <1>8, <1>b DEF FinishRegistration, RegistrationOrder
  <2>2. UNCHANGED <<todo, userlock, lock>>
    BY <1>8 DEF FinishRegistration
  <2>. QED
    BY <1>k, <1>n, <2>1, <2>2 DEF WaitOf
<1>9. ASSUME NEW r \in Request, NEW k \in Id, Remove(r, k) PROVE WaitInv'
  <2>1. /\ pc[r] = "idle" /\ op'[r] = "remove" /\ pc'[r] = "count"
        /\ \A q \in Request \ {r} : op'[q] = op[q] /\ pc'[q] = pc[q]
    BY <1>9, <1>b DEF Remove
  <2>2. UNCHANGED <<todo, userlock>> /\ Lock(r, "credential", k)
    BY <1>9 DEF Remove
  <2>3. \A t \in Tables, i \in Id : lock'[t][i] = lock[t][i] \/ lock'[t][i] = r
    BY <1>t, <2>2 DEF Lock
  <2>. QED
    BY <1>k, <1>n, <2>1, <2>2, <2>3 DEF WaitOf
<1>10. ASSUME NEW r \in Request, NEW c \in Id, NEW k \in Id, PasskeyLogin(r, c, k) PROVE WaitInv'
  <2>1. /\ pc[r] = "idle" /\ op'[r] = "passkey" /\ pc'[r] = "read"
        /\ \A q \in Request \ {r} : op'[q] = op[q] /\ pc'[q] = pc[q]
    BY <1>10, <1>b DEF PasskeyLogin
  <2>2. UNCHANGED <<todo, userlock, lock>>
    BY <1>10 DEF PasskeyLogin
  <2>. QED
    BY <1>k, <1>n, <2>1, <2>2 DEF WaitOf
<1>11. ASSUME NEW r \in Request, NEW c \in Id, NEW b \in Id, BackupLogin(r, c, b) PROVE WaitInv'
  <2>1. /\ pc[r] = "idle" /\ op'[r] = "backup" /\ pc'[r] = "row"
        /\ \A q \in Request \ {r} : op'[q] = op[q] /\ pc'[q] = pc[q]
    BY <1>11, <1>b DEF BackupLogin
  <2>2. UNCHANGED <<todo, userlock>> /\ Lock(r, "ceremony", c)
    BY <1>11 DEF BackupLogin
  <2>3. \A t \in Tables, i \in Id :
            lock'[t][i] = lock[t][i] \/ (t = "ceremony" /\ lock'[t][i] = r)
    BY <1>t, <2>2, LockOne
  <2>4. userlock' # r /\ \A t \in Tables, i \in Id : lock'[t][i] = r => t = "ceremony"
    BY <1>n, <2>1, <2>2, <2>3
  <2>5. WaitOf(r)'
    BY <2>1, <2>4 DEF WaitOf
  <2>. QED
    BY <1>k, <2>1, <2>2, <2>3, <2>5
<1>12. ASSUME NEW r \in Request, LockUser(r) PROVE WaitInv'
  <2>1. /\ op[r] \in {"register", "remove", "disable"} /\ pc[r] = "user"
        /\ pc'[r] = IF op[r] = "register" THEN "count" ELSE "commit"
        /\ userlock' = r /\ UNCHANGED <<op, todo, lock>>
        /\ \A q \in Request \ {r} : pc'[q] = pc[q]
    BY <1>12, <1>t DEF LockUser, RegistrationOrder, StageInv
  <2>2. WaitOf(r)
    BY DEF WaitInv
  <2>3. WaitOf(r)'
    BY <2>1, <2>2 DEF WaitOf
  <2>. QED
    BY <1>k, <2>1, <2>3
\* Going on with the next table.
<1>o. ASSUME NEW r \in Request, pc[r] \in {"sweep", "rows"}, NEW left, Onward(r, left)
      PROVE  /\ op[r] \in {"regenerate", "remove", "disable"}
             /\ op[r] \in {"regenerate", "disable"} /\ pc'[r] \in {"sweep", "rows"} =>
                   \/ todo'[r] = todo[r]
                   \/ /\ op[r] = "disable" /\ todo'[r] = Tail(todo[r])
                      /\ todo[r] \in {<<"ceremony", "credential", "code">>, <<"credential", "code">>}
             /\ pc'[r] \in {"sweep", "rows", "commit", "user"}
             /\ \A q \in Request \ {r} : pc'[q] = pc[q] /\ todo'[q] = todo[q]
  <2>1. WaitOf(r) /\ op[r] \in {"regenerate", "remove", "disable"}
    BY <1>o DEF WaitInv, StageInv
  <2>2. \A q \in Request \ {r} : pc'[q] = pc[q] /\ todo'[q] = todo[q]
    BY <1>o, <1>t DEF Onward
  <2>3. CASE left # {}
    BY <1>o, <1>t, <2>1, <2>2, <2>3 DEF Onward
  <2>4. CASE left = {}
    <3>1. /\ todo'[r] = Tail(todo[r])
          /\ pc'[r] = CASE Len(todo[r]) > 1 -> "sweep"
                        [] op[r] = "regenerate" -> "commit"
                        [] OTHER -> "user"
      BY <1>o, <1>t, <2>4 DEF Onward
    <3>2. op[r] = "regenerate" => todo[r] = <<"code">>
      BY <1>o, <2>1 DEF WaitOf
    <3>3. op[r] = "disable" => todo[r] \in {<<"ceremony", "credential", "code">>,
                                           <<"credential", "code">>, <<"code">>}
      BY <1>o, <2>1 DEF WaitOf
    <3>4. todo[r] = <<"code">> => ~(Len(todo[r]) > 1)
      OBVIOUS
    <3>. QED
      BY <2>1, <2>2, <3>1, <3>2, <3>3, <3>4
  <2>. QED
    BY <2>3, <2>4
<1>13. ASSUME NEW r \in Request, NEW left, pc[r] \in {"sweep", "rows"}, Onward(r, left),
              UNCHANGED <<op, userlock>>,
              \A t \in Tables, i \in Id : lock'[t][i] = lock[t][i]
                                       \/ (t = Head(todo[r]) /\ lock'[t][i] = r)
       PROVE  WaitInv'
  <2>1. /\ op[r] \in {"regenerate", "remove", "disable"}
        /\ op[r] \in {"regenerate", "disable"} /\ pc'[r] \in {"sweep", "rows"} =>
              \/ todo'[r] = todo[r]
              \/ /\ op[r] = "disable" /\ todo'[r] = Tail(todo[r])
                 /\ todo[r] \in {<<"ceremony", "credential", "code">>, <<"credential", "code">>}
        /\ pc'[r] \in {"sweep", "rows", "commit", "user"}
        /\ \A q \in Request \ {r} : pc'[q] = pc[q] /\ todo'[q] = todo[q]
    BY <1>13, <1>o
  <2>2. WaitOf(r)
    BY DEF WaitInv
  <2>3. userlock = r => op[r] = "remove"
    BY <1>13, <2>1, <2>2 DEF WaitOf, StageInv
  <2>4. CASE op[r] = "remove"
    BY <1>13, <1>k, <2>1, <2>4 DEF WaitOf
  <2>5. CASE op[r] # "remove" /\ pc'[r] \notin {"sweep", "rows"}
    <3>1. WaitOf(r)'
      BY <1>13, <2>1, <2>3, <2>5 DEF WaitOf
    <3>. QED
      BY <1>13, <1>k, <2>1, <3>1
  <2>6. CASE op[r] # "remove" /\ pc'[r] \in {"sweep", "rows"}
    <3>1. CASE todo'[r] = todo[r]
      <4>1. todo[r] = <<"ceremony", "credential", "code">> => Head(todo[r]) = "ceremony"
        BY Orders
      <4>2. WaitOf(r)'
        BY <1>13, <2>1, <2>2, <2>3, <2>6, <3>1, <4>1 DEF WaitOf
      <4>. QED
        BY <1>13, <1>k, <2>1, <4>2
    <3>2. CASE /\ op[r] = "disable" /\ todo'[r] = Tail(todo[r])
               /\ todo[r] \in {<<"ceremony", "credential", "code">>, <<"credential", "code">>}
      <4>1. todo'[r] \in {<<"credential", "code">>, <<"code">>}
        BY <3>2, Orders
      <4>2. todo'[r] # <<"ceremony", "credential", "code">>
        BY <4>1, Different
      <4>3. WaitOf(r)'
        BY <1>13, <2>1, <2>3, <3>2, <4>1, <4>2 DEF WaitOf
      <4>. QED
        BY <1>13, <1>k, <2>1, <4>3
    <3>. QED
      BY <2>1, <2>6, <3>1, <3>2
  <2>. QED
    BY <2>4, <2>5, <2>6
<1>14. ASSUME NEW r \in Request, Sweep(r) PROVE WaitInv'
  <2>1. pc[r] = "sweep" /\ UNCHANGED <<op, userlock, lock>>
    BY <1>14 DEF Sweep
  <2>2. PICK left : Onward(r, left)
    BY <1>14 DEF Sweep
  <2>. QED
    BY <1>13, <2>1, <2>2
<1>15. ASSUME NEW r \in Request, NEW i \in Id, SweepRow(r, i) PROVE WaitInv'
  <2>1. pc[r] = "rows" /\ UNCHANGED <<op, userlock>> /\ Onward(r, rows[r] \ {i})
    BY <1>15 DEF SweepRow
  <2>2. UNCHANGED lock \/ Lock(r, Head(todo[r]), i)
    BY <1>15 DEF SweepRow
  <2>3. todo[r] # <<>> /\ Head(todo[r]) \in Tables
    BY <1>t, <2>1, HeadInTables DEF StageInv
  <2>4. \A t \in Tables, j \in Id : lock'[t][j] = lock[t][j]
                                 \/ (t = Head(todo[r]) /\ lock'[t][j] = r)
    <3>1. CASE UNCHANGED lock
      BY <3>1
    <3>2. CASE Lock(r, Head(todo[r]), i)
      BY <2>3, <3>2, LockOne
    <3>. QED
      BY <2>2, <3>1, <3>2
  <2>. QED
    BY <1>13, <2>1, <2>4
<1>16. ASSUME NEW r \in Request, CountRegistered(r) PROVE WaitInv'
  <2>1. /\ op[r] = "register" /\ pc'[r] = "commit" /\ UNCHANGED <<op, todo, userlock, lock>>
        /\ \A q \in Request \ {r} : pc'[q] = pc[q]
    BY <1>16, <1>t DEF CountRegistered, RegistrationOrder
  <2>2. WaitOf(r)
    BY DEF WaitInv
  <2>3. WaitOf(r)'
    BY <2>1, <2>2 DEF WaitOf
  <2>. QED
    BY <1>k, <2>1, <2>3
<1>17. ASSUME NEW r \in Request, ReadPasskeys(r) \/ Challenge(r) PROVE WaitInv'
  <2>1. CASE Rollback(r)
    BY <1>1, <2>1
  <2>2. CASE ~Rollback(r)
    <3>1. /\ op[r] = "login" /\ pc'[r] \in {"challenge", "touch"}
          /\ UNCHANGED <<op, todo, userlock, lock>>
          /\ \A q \in Request \ {r} : pc'[q] = pc[q]
      BY <1>17, <1>t, <2>2 DEF ReadPasskeys, Challenge, StageInv
    <3>2. WaitOf(r)
      BY DEF WaitInv
    <3>3. WaitOf(r)'
      BY <3>1, <3>2 DEF WaitOf
    <3>. QED
      BY <1>k, <3>1, <3>3
  <2>. QED
    BY <2>1, <2>2
<1>18. ASSUME NEW r \in Request, ReadPasskey(r) PROVE WaitInv'
  <2>1. CASE Rollback(r)
    BY <1>1, <2>1
  <2>2. CASE ~Rollback(r)
    <3>1. /\ op[r] = "passkey" /\ pc[r] = "read" /\ pc'[r] = "row"
          /\ UNCHANGED <<op, todo, userlock, lock>>
          /\ \A q \in Request \ {r} : pc'[q] = pc[q]
      BY <1>18, <1>t, <2>2 DEF ReadPasskey, StageInv
    <3>2. WaitOf(r)
      BY DEF WaitInv
    <3>3. \A t \in Tables, i \in Id : lock[t][i] # r
      BY <3>1, <3>2 DEF WaitOf
    <3>4. WaitOf(r)'
      BY <3>1, <3>3 DEF WaitOf
    <3>. QED
      BY <1>k, <3>1, <3>4
  <2>. QED
    BY <2>1, <2>2
<1>19. ASSUME NEW r \in Request, UpdatePasskey(r) \/ UseCode(r) PROVE WaitInv'
  <2>1. CASE Rollback(r)
    BY <1>1, <2>1
  <2>2. CASE ~Rollback(r)
    <3>1. /\ op[r] \in {"passkey", "backup"} /\ pc'[r] = "commit"
          /\ UNCHANGED <<op, todo, userlock>>
          /\ \A q \in Request \ {r} : pc'[q] = pc[q]
      BY <1>19, <1>t, <2>2 DEF UpdatePasskey, UseCode
    <3>2. \/ UNCHANGED lock
          \/ Lock(r, "credential", item[r])
          \/ Lock(r, "code", item[r])
      BY <1>19, <2>2 DEF UpdatePasskey, UseCode
    <3>3. \A t \in Tables, i \in Id : lock'[t][i] = lock[t][i] \/ lock'[t][i] = r
      BY <1>t, <3>2, LockOne
    <3>4. WaitOf(r)'
      BY <3>1 DEF WaitOf
    <3>. QED
      BY <1>k, <3>1, <3>3, <3>4
  <2>. QED
    BY <2>1, <2>2
<1>20. ASSUME NEW r \in Request, CountLeft(r) PROVE WaitInv'
  <2>1. /\ op[r] = "remove" /\ UNCHANGED <<op, userlock, lock>>
        /\ \A q \in Request \ {r} : pc'[q] = pc[q] /\ todo'[q] = todo[q]
    BY <1>20, <1>t DEF CountLeft
  <2>2. WaitOf(r)'
    BY <2>1 DEF WaitOf
  <2>. QED
    BY <1>k, <2>1, <2>2
<1>21. ASSUME NEW c \in Id, Expire(c) PROVE WaitInv'
  <2>1. UNCHANGED <<op, pc, todo, userlock, lock>>
    BY <1>21 DEF Expire
  <2>. QED
    BY <2>1 DEF WaitInv, WaitOf
<1>22. CASE UNCHANGED vars
  BY <1>22 DEF vars, WaitInv, WaitOf
<1>. QED
  BY <1>1, <1>2, <1>3, <1>4, <1>5, <1>6, <1>7, <1>8, <1>9, <1>10, <1>11, <1>12, <1>14,
     <1>15, <1>16, <1>17, <1>18, <1>19, <1>20, <1>21, <1>22
     DEF Next, Start, Continue, Cancel, DeadlockVictim

\* WaitInv holds beside IInv, whatever the requests are.
THEOREM WaitInductive == Spec => []WaitInv
<1>1. Init => WaitInv
  BY WaitInit
<1>2. TypeOK /\ IInv /\ WaitInv /\ [Next]_vars => WaitInv'
  BY WaitStep
<1>3. Spec => []TypeOK
  BY TypeCorrect
<1>4. Spec => []IInv
  BY Inductive, PTL
<1>. QED
  BY <1>1, <1>2, <1>3, <1>4, PTL DEF Spec

-----------------------------------------------------------------------------
(* Circles of waiting requests                                             *)

\* In a circle without a removal nobody waits for the users row: whoever has
\* written it has nothing left to wait for.
LEMMA NoneWaitsForUser ==
    ASSUME TypeOK, IInv, WaitInv, NEW D \in SUBSET Running, Deadlocked(D),
           \A r \in D : op[r] # "remove", NEW x \in D
    PROVE  pc[x] \notin {"user", "touch"}
<1> SUFFICES ASSUME pc[x] \in {"user", "touch"} PROVE FALSE
  OBVIOUS
<1>1. WaitsFor(x) = {userlock} \ {x, None} /\ WaitsFor(x) \cap D # {}
  BY DEF WaitsFor, Deadlocked
<1>2. PICK y \in D : userlock = y
  BY <1>1
<1>3. y \in Request
  BY DEF Running
<1>4. op[y] \in {"register", "disable"}
  BY <1>2, <1>3 DEF IInv, StageInv
<1>5. pc[y] \in {"count", "commit"}
  BY <1>2, <1>3, <1>4 DEF WaitInv, WaitOf
<1>6. WaitsFor(y) = {}
  BY <1>5 DEF WaitsFor
<1>. QED
  BY <1>6 DEF Deadlocked

\* So everybody in it waits for a row, and for one that empties tables.
LEMMA WaitsForSweeper ==
    ASSUME TypeOK, IInv, WaitInv, NEW D \in SUBSET Running, Deadlocked(D),
           \A r \in D : op[r] # "remove", NEW x \in D
    PROVE  \/ pc[x] = "rows" /\ op[x] \in {"regenerate", "disable"}
           \/ /\ pc[x] = "row"
              /\ \E y \in D : /\ pc[y] = "rows" /\ op[y] \in {"regenerate", "disable"}
                             /\ \E t \in {"credential", "code"}, i \in Id : lock[t][i] = y
<1> USE NoneAssumption
<1>t. /\ lock \in [Tables -> [Id -> Request \cup {None}]]
      /\ "credential" \in Tables /\ "code" \in Tables /\ D \subseteq Request
      /\ item \in [Request -> Id \cup {None}]
  BY DEF TypeOK, Tables, Running
<1>w. \A y \in D : WaitsFor(y) # {}
  BY DEF Deadlocked
<1>s. \A y \in D : pc[y] \in {"row", "rows"}
  <2>1. ASSUME NEW y \in D PROVE pc[y] \in {"row", "rows"}
    BY <1>w, NoneWaitsForUser DEF WaitsFor
  <2>. QED
    BY <2>1
<1>r. \A y \in D : pc[y] = "rows" => op[y] \in {"regenerate", "disable"}
  BY <1>t DEF IInv, StageInv
<1>1. CASE pc[x] = "rows"
  BY <1>1, <1>r
<1>2. CASE pc[x] = "row"
  <2> DEFINE t == IF op[x] = "backup" THEN "code" ELSE "credential"
  <2>1. WaitsFor(x) = {lock[t][item[x]]} \ {x, None}
    BY <1>2 DEF WaitsFor
  <2>2. PICK y \in D : y = lock[t][item[x]] /\ y # None
    BY <2>1 DEF Deadlocked
  <2>3. item[x] \in Id
    BY <1>2, <1>t, <2>2 DEF IInv, CeremonyInv, StageInv
  <2>4. t \in Tables /\ t \in {"credential", "code"}
    BY <1>t
  <2>5. /\ op[y] \in {"passkey", "backup", "regenerate", "disable"}
        /\ op[y] = "passkey" => pc[y] = "commit"
        /\ op[y] = "backup" /\ t = "code" => pc[y] = "commit"
    BY <1>t, <2>2, <2>3, <2>4 DEF WaitInv, WaitOf
  <2>6. op[y] = "backup" => t # "credential"
    BY <1>t, <2>2, <2>3, <2>4 DEF IInv, StageInv
  <2>7. op[y] \in {"regenerate", "disable"}
    BY <1>s, <2>4, <2>5, <2>6
  <2>8. pc[y] = "rows"
    BY <1>s, <1>t, <2>7 DEF IInv, StageInv
  <2>. QED
    BY <1>2, <2>2, <2>3, <2>4, <2>7, <2>8
<1>. QED
  BY <1>1, <1>2, <1>s

\* The one that empties tables waits for a login by code to give back a
\* ceremony, before it has locked anything that login waits for.
LEMMA NoCircle ==
    ASSUME TypeOK, IInv, WaitInv, NEW D \in SUBSET Running, Deadlocked(D),
           \A r \in D : op[r] # "remove",
           \A r, q \in D : {op[r], op[q]} \subseteq {"disable", "regenerate"} => r = q
    PROVE  FALSE
<1> USE NoneAssumption
<1>t. /\ lock \in [Tables -> [Id -> Request \cup {None}]] /\ rows \in [Request -> SUBSET Id]
      /\ todo \in [Request -> Seq(Tables)]
      /\ "credential" \in Tables /\ "code" \in Tables /\ D \subseteq Request
  BY DEF TypeOK, Tables, Running
<1>1. PICK s \in D : pc[s] = "rows" /\ op[s] \in {"regenerate", "disable"}
  <2>1. PICK x \in D : TRUE
    BY DEF Deadlocked
  <2>. QED
    BY <2>1, WaitsForSweeper
<1>2. \A x \in D : x # s =>
        /\ pc[x] = "row"
        /\ \E t \in {"credential", "code"}, i \in Id : lock[t][i] = s
  <2> SUFFICES ASSUME NEW x \in D, x # s
               PROVE  /\ pc[x] = "row"
                      /\ \E t \in {"credential", "code"}, i \in Id : lock[t][i] = s
    OBVIOUS
  <2>1. ASSUME NEW y \in D, op[y] \in {"regenerate", "disable"} PROVE y = s
    BY <1>1, <2>1
  <2>. QED
    BY <2>1, WaitsForSweeper
<1>3. todo[s] # <<>> /\ Head(todo[s]) \in Tables
  <2>1. todo[s] # <<>>
    BY <1>1, <1>t DEF IInv, StageInv
  <2>. QED
    BY <1>t, <2>1, HeadInTables
<1>4. /\ WaitsFor(s) = {lock[Head(todo[s])][i] : i \in rows[s]}
      /\ \A i \in rows[s] : ~RowFree(s, Head(todo[s]), i)
  <2>1. WaitsFor(s) = IF \E i \in rows[s] : RowFree(s, Head(todo[s]), i) THEN {}
                      ELSE {lock[Head(todo[s])][i] : i \in rows[s]}
    BY <1>1 DEF WaitsFor
  <2>2. WaitsFor(s) # {}
    BY DEF Deadlocked
  <2>. QED
    BY <2>1, <2>2
<1>5. PICK y \in D, i \in rows[s] : y = lock[Head(todo[s])][i]
  BY <1>4 DEF Deadlocked
<1>6. i \in Id /\ y # s
  BY <1>t, <1>4, <1>5 DEF RowFree
<1>7. pc[y] = "row" /\ \E t \in {"credential", "code"}, j \in Id : lock[t][j] = s
  BY <1>2, <1>6
<1>8. op[y] \in {"passkey", "backup"}
  BY <1>7, <1>t DEF IInv, StageInv
<1>9. Head(todo[s]) # "code" /\ Head(todo[s]) # "credential"
  <2>1. /\ op[y] = "passkey" => pc[y] = "commit"
        /\ op[y] = "backup" /\ Head(todo[s]) = "code" => pc[y] = "commit"
    BY <1>t, <1>3, <1>5, <1>6 DEF WaitInv, WaitOf
  <2>2. op[y] = "backup" => Head(todo[s]) # "credential"
    BY <1>t, <1>3, <1>5, <1>6 DEF IInv, StageInv
  <2>. QED
    BY <1>7, <1>8, <2>1, <2>2
<1>10. /\ op[s] = "regenerate" => todo[s] = <<"code">>
       /\ op[s] = "disable" =>
             todo[s] \in {<<"ceremony", "credential", "code">>, <<"credential", "code">>, <<"code">>}
  BY <1>1, <1>t DEF WaitInv, WaitOf
<1>11. op[s] = "disable" /\ todo[s] = <<"ceremony", "credential", "code">>
  BY <1>1, <1>9, <1>10, Orders
<1>12. \A t \in Tables, j \in Id : lock[t][j] = s => t = "ceremony"
  BY <1>1, <1>t, <1>11 DEF WaitInv, WaitOf
<1>. QED
  BY <1>7, <1>12, <1>t

\* A circle of waiting requests needs a removal, or two requests that empty
\* tables: passkey.rs and auth.rs lock everything else in one order.
THEOREM CirclesNeedTwo == Spec => []LockOrder
<1>1. TypeOK /\ IInv /\ WaitInv => LockOrder
  <2> SUFFICES ASSUME TypeOK, IInv, WaitInv, NEW D \in SUBSET Running, Deadlocked(D),
                      ~\E r \in D : op[r] = "remove",
                      ~\E r, q \in D : r # q /\ {op[r], op[q]} \subseteq {"disable", "regenerate"}
               PROVE  FALSE
    BY DEF LockOrder
  <2>. QED
    BY NoCircle
<1>2. Spec => []TypeOK
  BY TypeCorrect
<1>3. Spec => []IInv
  BY Inductive, PTL
<1>4. Spec => []WaitInv
  BY WaitInductive
<1>. QED
  BY <1>1, <1>2, <1>3, <1>4, PTL

-----------------------------------------------------------------------------
(* Consistency: AloneInv is inductive given TypeOK and IInv.               *)

LEMMA AloneInit == Init => AloneInv
<1> SUFFICES ASSUME Init PROVE AloneInv
  OBVIOUS
<1>1. PICK K \in SUBSET Earlier, B \in {{}} \cup {{e} : e \in Earlier},
           kind \in [Earlier -> {"none", "registration", "authentication"}] :
        /\ K = {} => B = {} /\ \A e \in Earlier : kind[e] # "authentication"
        /\ mfa = (K # {})
        /\ row = [t \in Tables |-> [i \in Id |->
                     CASE t = "credential" /\ i \in K -> "present"
                       [] t = "code" /\ i \in B -> "unused"
                       [] t = "ceremony" /\ i \in Earlier -> kind[i]
                       [] OTHER -> "none"]]
        /\ allows = [i \in Id |-> IF i \in Earlier /\ kind[i] = "authentication" THEN K ELSE {}]
  BY Zenon DEF Init
<1>2. \A i \in Id : /\ row["credential"][i] = IF i \in K THEN "present" ELSE "none"
                    /\ row["code"][i] = IF i \in B THEN "unused" ELSE "none"
  BY <1>1 DEF Tables
<1>3. K \subseteq Id /\ B \subseteq Id /\ \A a, b \in B : a = b
  BY DEF Id
<1>4. Passkeys = K
  BY <1>2, <1>3 DEF Passkeys, InTable
<1>5. UnusedCodes = B
  BY <1>2, <1>3 DEF UnusedCodes
<1>6. Running = {}
  BY DEF Init, Running
<1>. QED
  BY <1>1, <1>3, <1>4, <1>5, <1>6 DEF AloneInv, OnlyRegistrations

\* What a step of r leaves as it was for the others, and what it must do itself.
LEMMA OthersKeep ==
    ASSUME TypeOK, AloneInv, ~mixed, NEW r,
           UNCHANGED mfa,
           \A i \in Id : row'["credential"][i] = row["credential"][i],
           \A i \in Id : InTable("code", i)' <=> InTable("code", i),
           \A i \in Id : row'["code"][i] = "unused" => row["code"][i] = "unused",
           \A q \in Request \ {r} :
              /\ op'[q] = op[q] /\ pc'[q] = pc[q] /\ item'[q] = item[q]
              /\ todo'[q] = todo[q] /\ rows'[q] = rows[q] /\ first'[q] = first[q]
              /\ userlock' = q <=> userlock = q
              /\ \A t \in Tables, i \in Id : lock'[t][i] = q <=> lock[t][i] = q,
           r \in Request /\ r \in Running' /\ op'[r] \in Changes =>
              /\ ProgressOf(r)' /\ HoldsOf(r)'
              /\ \A q \in Running \ {r} : op[q] \in Changes => op[q] = "register" /\ op'[r] = "register"
    PROVE  AloneInv'
<1>1. Passkeys' = Passkeys
  BY DEF Passkeys, InTable
<1>2. UnusedCodes' \subseteq UnusedCodes
  BY DEF UnusedCodes
<1>3. \A q \in Request \ {r} : q \in Running' <=> q \in Running
  BY DEF Running
<1>4. ASSUME NEW q \in Running, q # r PROVE ProgressOf(q)' /\ HoldsOf(q)'
  <2>1. q \in Request \ {r} /\ ProgressOf(q) /\ HoldsOf(q)
    BY <1>4 DEF Running, AloneInv
  <2>2. /\ op'[q] = op[q] /\ pc'[q] = pc[q] /\ item'[q] = item[q]
        /\ todo'[q] = todo[q] /\ rows'[q] = rows[q] /\ first'[q] = first[q]
        /\ userlock' = q <=> userlock = q
        /\ \A i \in Id : lock'["credential"][i] = q <=> lock["credential"][i] = q
        /\ \A i \in Id : lock'["code"][i] = q <=> lock["code"][i] = q
    BY <2>1 DEF Tables
  <2>3. \A i \in Id : /\ InTable("credential", i)' <=> InTable("credential", i)
                      /\ InTable("code", i)' <=> InTable("code", i)
    BY DEF InTable
  <2>4. HoldsOf(q)'
    BY <2>1, <2>2 DEF HoldsOf
  <2>5. CASE op[q] = "register"
    BY <1>1, <2>1, <2>2, <2>4, <2>5 DEF ProgressOf
  <2>6. CASE op[q] = "regenerate"
    BY <1>1, <2>1, <2>2, <2>3, <2>4, <2>6 DEF ProgressOf, Emptied
  <2>7. CASE op[q] = "remove"
    BY <1>1, <2>1, <2>2, <2>3, <2>4, <2>7 DEF ProgressOf, Emptied
  <2>8. CASE op[q] = "disable"
    BY <1>1, <2>1, <2>2, <2>3, <2>4, <2>8 DEF ProgressOf, Emptied
  <2>9. CASE op[q] \notin {"register", "regenerate", "remove", "disable"}
    BY <2>2, <2>4, <2>9 DEF ProgressOf
  <2>. QED
    BY <2>5, <2>6, <2>7, <2>8, <2>9
<1>5. OnlyRegistrations'
  BY <1>3 DEF OnlyRegistrations, AloneInv, Running
<1>6. \A q \in Running' : ProgressOf(q)' /\ HoldsOf(q)'
  <2>1. op'[r] \notin Changes => ProgressOf(r)' /\ HoldsOf(r)'
    BY DEF ProgressOf, HoldsOf, Changes
  <2>2. r \in Running' => r \in Request
    BY DEF Running
  <2>. QED
    BY <1>3, <1>4, <2>1, <2>2 DEF Running
<1>. QED
  BY <1>1, <1>2, <1>5, <1>6 DEF AloneInv

LEMMA MixedStays == [Next]_vars /\ mixed => mixed'
<1> SUFFICES ASSUME [Next]_vars, mixed PROVE mixed'
  OBVIOUS
<1> USE DEF locks, locals
<1>1. \A r, out : End(r, out) => mixed'
  BY DEF End
<1>2. \A r, o, c, i, next : Begin(r, o, c, i, next) => mixed'
  BY DEF Begin
<1>3. \A r \in Request : Start(r) => mixed'
  BY <1>2 DEF Start, StartRegistration, LoginRead, Regenerate, Disable, FinishRegistration, Remove,
              PasskeyLogin, BackupLogin
<1>4. \A r \in Request : Continue(r) => mixed'
  BY <1>1 DEF Continue, LockUser, Sweep, CountRegistered, ReadPasskeys, Challenge, Touch, ReadPasskey,
              UpdatePasskey, UseCode, CountLeft, SweepRow, Commit, Rollback
<1>5. \A c \in Id : Expire(c) => mixed'
  BY DEF Expire
<1>. QED
  BY <1>1, <1>3, <1>4, <1>5 DEF Next, Cancel, DeadlockVictim, Rollback, vars

LEMMA QuietSteps ==
    ASSUME TypeOK, IInv, AloneInv, ~mixed, ~mixed'
    PROVE  /\ \A r \in Request : \/ Rollback(r) \/ Touch(r) \/ StartRegistration(r) \/ LoginRead(r)
                                 \/ ReadPasskeys(r) \/ Challenge(r) \/ ReadPasskey(r)
                                 \/ UpdatePasskey(r) \/ UseCode(r)
                                 \/ \E i, j \in Id : PasskeyLogin(r, i, j) \/ BackupLogin(r, i, j)
                                 => AloneInv'
           /\ \A c \in Id : Expire(c) => AloneInv'
           /\ UNCHANGED vars => AloneInv'
<1> USE NoneAssumption DEF locks, locals
<1>t. /\ row \in [Tables -> [Id -> RowState]] /\ lock \in [Tables -> [Id -> Request \cup {None}]]
      /\ op \in [Request -> Operations \cup {"none"}] /\ pc \in [Request -> PC]
      /\ on \in [Request -> Id \cup {None}] /\ item \in [Request -> Id \cup {None}]
      /\ todo \in [Request -> Seq(Tables)] /\ rows \in [Request -> SUBSET Id]
      /\ first \in [Request -> BOOLEAN] /\ userlock \in Request \cup {None}
      /\ Request \subseteq Id /\ "credential" \in Tables /\ "code" \in Tables
      /\ "ceremony" \in Tables /\ None \notin Id
  BY DEF TypeOK, Id, Tables
<1>1. ASSUME NEW r \in Request, Rollback(r) PROVE AloneInv'
  <2>1. \A q \in Request \ {r} :
           /\ op'[q] = op[q] /\ pc'[q] = pc[q] /\ item'[q] = item[q]
           /\ todo'[q] = todo[q] /\ rows'[q] = rows[q] /\ first'[q] = first[q]
    BY <1>t, <1>1 DEF Rollback, End
  <2>2. \A q \in Request \ {r} : userlock' = q <=> userlock = q
    BY <1>t, <1>1 DEF Rollback, End
  <2>3. \A t \in Tables, i \in Id : \A q \in Request \ {r} : lock'[t][i] = q <=> lock[t][i] = q
    BY <1>t, <1>1 DEF Rollback, End
  <2>4. \A i \in Id : row'["credential"][i] = row["credential"][i] /\ row'["code"][i] = row["code"][i]
    BY <1>t, <1>1 DEF Rollback, End
  <2>5. UNCHANGED mfa
    BY <1>1 DEF Rollback, End
  <2>6. ~(r \in Running' /\ op'[r] \in Changes)
    BY <1>t, <1>1 DEF Rollback, End, Running, Changes
  <2>7. \A i \in Id : InTable("code", i)' <=> InTable("code", i)
    BY <2>4 DEF InTable
  <2>. QED
    BY <2>1, <2>2, <2>3, <2>4, <2>5, <2>6, <2>7, OthersKeep
<1>2. ASSUME NEW r \in Request, Touch(r) PROVE AloneInv'
  <2>1. \A q \in Request \ {r} :
           /\ op'[q] = op[q] /\ pc'[q] = pc[q] /\ item'[q] = item[q]
           /\ todo'[q] = todo[q] /\ rows'[q] = rows[q] /\ first'[q] = first[q]
    BY <1>t, <1>2 DEF Touch, End
  <2>2. \A q \in Request \ {r} : userlock' = q <=> userlock = q
    BY <1>t, <1>2 DEF Touch, End
  <2>3. \A t \in Tables, i \in Id : \A q \in Request \ {r} : lock'[t][i] = q <=> lock[t][i] = q
    BY <1>t, <1>2 DEF Touch, End
  <2>4. \A i \in Id : row'["credential"][i] = row["credential"][i] /\ row'["code"][i] = row["code"][i]
    BY <1>t, <1>2 DEF Touch, End
  <2>5. UNCHANGED mfa
    BY <1>2 DEF Touch, End
  <2>6. ~(r \in Running' /\ op'[r] \in Changes)
    BY <1>t, <1>2 DEF Touch, End, Running, Changes
  <2>7. \A i \in Id : InTable("code", i)' <=> InTable("code", i)
    BY <2>4 DEF InTable
  <2>. QED
    BY <2>1, <2>2, <2>3, <2>4, <2>5, <2>6, <2>7, OthersKeep
<1>3. ASSUME NEW r \in Request, StartRegistration(r) \/ LoginRead(r) PROVE AloneInv'
  <2>1. \A q \in Request \ {r} :
           /\ op'[q] = op[q] /\ pc'[q] = pc[q] /\ item'[q] = item[q]
           /\ todo'[q] = todo[q] /\ rows'[q] = rows[q] /\ first'[q] = first[q]
    BY <1>t, <1>3 DEF StartRegistration, LoginRead, Begin
  <2>2. \A q \in Request \ {r} : userlock' = q <=> userlock = q
    BY <1>t, <1>3 DEF StartRegistration, LoginRead, Begin
  <2>3. \A t \in Tables, i \in Id : \A q \in Request \ {r} : lock'[t][i] = q <=> lock[t][i] = q
    BY <1>t, <1>3 DEF StartRegistration, LoginRead, Begin
  <2>4. \A i \in Id : row'["credential"][i] = row["credential"][i] /\ row'["code"][i] = row["code"][i]
    BY <1>t, <1>3 DEF StartRegistration, LoginRead, Begin
  <2>5. UNCHANGED mfa
    BY <1>3 DEF StartRegistration, LoginRead, Begin
  <2>6. ~(r \in Running' /\ op'[r] \in Changes)
    BY <1>t, <1>3 DEF StartRegistration, LoginRead, Begin, Running, Changes
  <2>7. \A i \in Id : InTable("code", i)' <=> InTable("code", i)
    BY <2>4 DEF InTable
  <2>. QED
    BY <2>1, <2>2, <2>3, <2>4, <2>5, <2>6, <2>7, OthersKeep
<1>4. ASSUME NEW r \in Request, NEW c \in Id, NEW k \in Id, PasskeyLogin(r, c, k) PROVE AloneInv'
  <2>1. \A q \in Request \ {r} :
           /\ op'[q] = op[q] /\ pc'[q] = pc[q] /\ item'[q] = item[q]
           /\ todo'[q] = todo[q] /\ rows'[q] = rows[q] /\ first'[q] = first[q]
    BY <1>t, <1>4 DEF PasskeyLogin, Begin
  <2>2. \A q \in Request \ {r} : userlock' = q <=> userlock = q
    BY <1>t, <1>4 DEF PasskeyLogin, Begin
  <2>3. \A t \in Tables, i \in Id : \A q \in Request \ {r} : lock'[t][i] = q <=> lock[t][i] = q
    BY <1>t, <1>4 DEF PasskeyLogin, Begin
  <2>4. \A i \in Id : row'["credential"][i] = row["credential"][i] /\ row'["code"][i] = row["code"][i]
    BY <1>t, <1>4 DEF PasskeyLogin, Begin
  <2>5. UNCHANGED mfa
    BY <1>4 DEF PasskeyLogin, Begin
  <2>6. ~(r \in Running' /\ op'[r] \in Changes)
    BY <1>t, <1>4 DEF PasskeyLogin, Begin, Running, Changes
  <2>7. \A i \in Id : InTable("code", i)' <=> InTable("code", i)
    BY <2>4 DEF InTable
  <2>. QED
    BY <2>1, <2>2, <2>3, <2>4, <2>5, <2>6, <2>7, OthersKeep
<1>5. ASSUME NEW r \in Request, NEW c \in Id, NEW b \in Id, BackupLogin(r, c, b) PROVE AloneInv'
  <2>1. \A q \in Request \ {r} :
           /\ op'[q] = op[q] /\ pc'[q] = pc[q] /\ item'[q] = item[q]
           /\ todo'[q] = todo[q] /\ rows'[q] = rows[q] /\ first'[q] = first[q]
    BY <1>t, <1>5 DEF BackupLogin, Begin, Lock, RowFree
  <2>2. \A q \in Request \ {r} : userlock' = q <=> userlock = q
    BY <1>t, <1>5 DEF BackupLogin, Begin, Lock, RowFree
  <2>3. \A t \in Tables, i \in Id : \A q \in Request \ {r} : lock'[t][i] = q <=> lock[t][i] = q
    BY <1>t, <1>5 DEF BackupLogin, Begin, Lock, RowFree
  <2>4. \A i \in Id : row'["credential"][i] = row["credential"][i] /\ row'["code"][i] = row["code"][i]
    BY <1>t, <1>5 DEF BackupLogin, Begin, Lock, RowFree
  <2>5. UNCHANGED mfa
    BY <1>5 DEF BackupLogin, Begin, Lock, RowFree
  <2>6. ~(r \in Running' /\ op'[r] \in Changes)
    BY <1>t, <1>5 DEF BackupLogin, Begin, Lock, RowFree, Running, Changes
  <2>7. \A i \in Id : InTable("code", i)' <=> InTable("code", i)
    BY <2>4 DEF InTable
  <2>. QED
    BY <2>1, <2>2, <2>3, <2>4, <2>5, <2>6, <2>7, OthersKeep
<1>6. ASSUME NEW r \in Request, ReadPasskeys(r), ~Rollback(r) PROVE AloneInv'
  <2>1. \A q \in Request \ {r} :
           /\ op'[q] = op[q] /\ pc'[q] = pc[q] /\ item'[q] = item[q]
           /\ todo'[q] = todo[q] /\ rows'[q] = rows[q] /\ first'[q] = first[q]
    BY <1>t, <1>6 DEF ReadPasskeys
  <2>2. \A q \in Request \ {r} : userlock' = q <=> userlock = q
    BY <1>t, <1>6 DEF ReadPasskeys
  <2>3. \A t \in Tables, i \in Id : \A q \in Request \ {r} : lock'[t][i] = q <=> lock[t][i] = q
    BY <1>t, <1>6 DEF ReadPasskeys
  <2>4. \A i \in Id : row'["credential"][i] = row["credential"][i] /\ row'["code"][i] = row["code"][i]
    BY <1>t, <1>6 DEF ReadPasskeys
  <2>5. UNCHANGED mfa
    BY <1>6 DEF ReadPasskeys
  <2>6. ~(r \in Running' /\ op'[r] \in Changes)
    BY <1>t, <1>6 DEF ReadPasskeys, Running, Changes, IInv, StageInv
  <2>7. \A i \in Id : InTable("code", i)' <=> InTable("code", i)
    BY <2>4 DEF InTable
  <2>. QED
    BY <2>1, <2>2, <2>3, <2>4, <2>5, <2>6, <2>7, OthersKeep
<1>7. ASSUME NEW r \in Request, Challenge(r) PROVE AloneInv'
  <2>1. \A q \in Request \ {r} :
           /\ op'[q] = op[q] /\ pc'[q] = pc[q] /\ item'[q] = item[q]
           /\ todo'[q] = todo[q] /\ rows'[q] = rows[q] /\ first'[q] = first[q]
    BY <1>t, <1>7 DEF Challenge
  <2>2. \A q \in Request \ {r} : userlock' = q <=> userlock = q
    BY <1>t, <1>7 DEF Challenge
  <2>3. \A t \in Tables, i \in Id : \A q \in Request \ {r} : lock'[t][i] = q <=> lock[t][i] = q
    BY <1>t, <1>7 DEF Challenge
  <2>4. \A i \in Id : row'["credential"][i] = row["credential"][i] /\ row'["code"][i] = row["code"][i]
    BY <1>t, <1>7 DEF Challenge
  <2>5. UNCHANGED mfa
    BY <1>7 DEF Challenge
  <2>6. ~(r \in Running' /\ op'[r] \in Changes)
    BY <1>t, <1>7 DEF Challenge, Running, Changes, IInv, StageInv
  <2>7. \A i \in Id : InTable("code", i)' <=> InTable("code", i)
    BY <2>4 DEF InTable
  <2>. QED
    BY <2>1, <2>2, <2>3, <2>4, <2>5, <2>6, <2>7, OthersKeep
<1>8. ASSUME NEW r \in Request, ReadPasskey(r), ~Rollback(r) PROVE AloneInv'
  <2>1. \A q \in Request \ {r} :
           /\ op'[q] = op[q] /\ pc'[q] = pc[q] /\ item'[q] = item[q]
           /\ todo'[q] = todo[q] /\ rows'[q] = rows[q] /\ first'[q] = first[q]
    BY <1>t, <1>8 DEF ReadPasskey
  <2>2. \A q \in Request \ {r} : userlock' = q <=> userlock = q
    BY <1>t, <1>8 DEF ReadPasskey
  <2>3. \A t \in Tables, i \in Id : \A q \in Request \ {r} : lock'[t][i] = q <=> lock[t][i] = q
    BY <1>t, <1>8 DEF ReadPasskey
  <2>4. \A i \in Id : row'["credential"][i] = row["credential"][i] /\ row'["code"][i] = row["code"][i]
    BY <1>t, <1>8 DEF ReadPasskey
  <2>5. UNCHANGED mfa
    BY <1>8 DEF ReadPasskey
  <2>6. ~(r \in Running' /\ op'[r] \in Changes)
    BY <1>t, <1>8 DEF ReadPasskey, Running, Changes, IInv, StageInv
  <2>7. \A i \in Id : InTable("code", i)' <=> InTable("code", i)
    BY <2>4 DEF InTable
  <2>. QED
    BY <2>1, <2>2, <2>3, <2>4, <2>5, <2>6, <2>7, OthersKeep
<1>9. ASSUME NEW r \in Request, UpdatePasskey(r) PROVE AloneInv'
  <2>1. \A q \in Request \ {r} :
           /\ op'[q] = op[q] /\ pc'[q] = pc[q] /\ item'[q] = item[q]
           /\ todo'[q] = todo[q] /\ rows'[q] = rows[q] /\ first'[q] = first[q]
    BY <1>t, <1>9 DEF UpdatePasskey, Lock, RowFree, Passkeys
  <2>2. \A q \in Request \ {r} : userlock' = q <=> userlock = q
    BY <1>t, <1>9 DEF UpdatePasskey, Lock, RowFree, Passkeys
  <2>3. \A t \in Tables, i \in Id : \A q \in Request \ {r} : lock'[t][i] = q <=> lock[t][i] = q
    <3>1. CASE UNCHANGED lock
      BY <3>1
    <3>2. CASE ~UNCHANGED lock
      <4>1. /\ item[r] \in Id /\ lock["credential"][item[r]] \in {None, r}
            /\ lock' = [lock EXCEPT !["credential"][item[r]] = r]
        BY <1>9, <3>2 DEF UpdatePasskey, Lock, RowFree, Passkeys
      <4>2. \A t \in Tables, i \in Id :
               lock'[t][i] = IF t = "credential" /\ i = item[r] THEN r ELSE lock[t][i]
        BY <1>t, <4>1
      <4>. QED
        BY <1>t, <4>1, <4>2
    <3>. QED
      BY <3>1, <3>2
  <2>4. \A i \in Id : row'["credential"][i] = row["credential"][i] /\ row'["code"][i] = row["code"][i]
    BY <1>t, <1>9 DEF UpdatePasskey, Lock, RowFree, Passkeys
  <2>5. UNCHANGED mfa
    BY <1>9 DEF UpdatePasskey, Lock, RowFree, Passkeys
  <2>6. ~(r \in Running' /\ op'[r] \in Changes)
    BY <1>t, <1>9 DEF UpdatePasskey, Lock, RowFree, Passkeys, Running, Changes
  <2>7. \A i \in Id : InTable("code", i)' <=> InTable("code", i)
    BY <2>4 DEF InTable
  <2>. QED
    BY <2>1, <2>2, <2>3, <2>4, <2>5, <2>6, <2>7, OthersKeep
<1>10. ASSUME NEW r \in Request, UseCode(r), ~Rollback(r) PROVE AloneInv'
  <2>1. \A q \in Request \ {r} :
           /\ op'[q] = op[q] /\ pc'[q] = pc[q] /\ item'[q] = item[q]
           /\ todo'[q] = todo[q] /\ rows'[q] = rows[q] /\ first'[q] = first[q]
    BY <1>t, <1>10 DEF UseCode, Lock, RowFree
  <2>2. \A q \in Request \ {r} : userlock' = q <=> userlock = q
    BY <1>t, <1>10 DEF UseCode, Lock, RowFree
  <2>3. \A t \in Tables, i \in Id : \A q \in Request \ {r} : lock'[t][i] = q <=> lock[t][i] = q
    <3>1. /\ lock["code"][item[r]] \in {None, r}
          /\ lock' = [lock EXCEPT !["code"][item[r]] = r]
      BY <1>10 DEF UseCode, Lock, RowFree
    <3>2. item[r] \in Id
      BY <1>10 DEF UseCode, IInv, CeremonyInv
    <3>3. \A t \in Tables, i \in Id :
             lock'[t][i] = IF t = "code" /\ i = item[r] THEN r ELSE lock[t][i]
      BY <1>t, <3>1, <3>2
    <3>. QED
      BY <1>t, <3>1, <3>3
  <2>4. \A i \in Id : row'["credential"][i] = row["credential"][i] /\ row'["code"][i] = row["code"][i]
    BY <1>t, <1>10 DEF UseCode, Lock, RowFree
  <2>5. UNCHANGED mfa
    BY <1>10 DEF UseCode, Lock, RowFree
  <2>6. ~(r \in Running' /\ op'[r] \in Changes)
    BY <1>t, <1>10 DEF UseCode, Lock, RowFree, Running, Changes
  <2>7. \A i \in Id : InTable("code", i)' <=> InTable("code", i)
    BY <2>4 DEF InTable
  <2>. QED
    BY <2>1, <2>2, <2>3, <2>4, <2>5, <2>6, <2>7, OthersKeep
<1>11. ASSUME NEW c \in Id, Expire(c) PROVE AloneInv'
  <2>1. /\ UNCHANGED <<mfa, userlock, lock, op, pc, item, todo, rows, first>>
        /\ \A q \in Request : q # None
    BY <1>t, <1>11 DEF Expire
  <2>2. \A i \in Id : row'["credential"][i] = row["credential"][i] /\ row'["code"][i] = row["code"][i]
    BY <1>t, <1>11 DEF Expire
  <2>3. \A i \in Id : InTable("code", i)' <=> InTable("code", i)
    BY <2>2 DEF InTable
  <2>4. None \notin Request
    BY <2>1
  <2>. QED
    BY <2>1, <2>2, <2>3, <2>4, OthersKeep
<1>12. CASE UNCHANGED vars
  <2>1. /\ UNCHANGED <<mfa, row, userlock, lock, op, pc, item, todo, rows, first, mixed>>
        /\ \A q \in Request : q # None
    BY <1>t, <1>12 DEF vars
  <2>2. \A i \in Id : InTable("code", i)' <=> InTable("code", i)
    BY <2>1 DEF InTable
  <2>3. None \notin Request
    BY <2>1
  <2>. QED
    BY <2>1, <2>2, <2>3, OthersKeep
<1>. QED
  BY <1>1, <1>2, <1>3, <1>4, <1>5, <1>6, <1>7, <1>8, <1>9, <1>10, <1>11, <1>12

\* A change begins with nothing, and alone or among registrations.
LEMMA BeginChanges ==
    ASSUME TypeOK, IInv, AloneInv, ~mixed, ~mixed', NEW r \in Request
    PROVE  /\ \A i \in Id : FinishRegistration(r, i) \/ Remove(r, i) => AloneInv'
           /\ Regenerate(r) \/ Disable(r) => AloneInv'
<1> USE NoneAssumption DEF locks, locals
<1>t. /\ row \in [Tables -> [Id -> RowState]] /\ lock \in [Tables -> [Id -> Request \cup {None}]]
      /\ op \in [Request -> Operations \cup {"none"}] /\ pc \in [Request -> PC]
      /\ on \in [Request -> Id \cup {None}] /\ item \in [Request -> Id \cup {None}]
      /\ todo \in [Request -> Seq(Tables)] /\ rows \in [Request -> SUBSET Id]
      /\ first \in [Request -> BOOLEAN] /\ userlock \in Request \cup {None}
      /\ Request \subseteq Id /\ "credential" \in Tables /\ "code" \in Tables
      /\ "ceremony" \in Tables /\ None \notin Id
  BY DEF TypeOK, Id, Tables
<1>1. ASSUME NEW c \in Id, FinishRegistration(r, c) PROVE AloneInv'
  <2>1. \A q \in Request \ {r} :
           /\ op'[q] = op[q] /\ pc'[q] = pc[q] /\ item'[q] = item[q]
           /\ todo'[q] = todo[q] /\ rows'[q] = rows[q] /\ first'[q] = first[q]
    BY <1>t, <1>1 DEF FinishRegistration, RegistrationOrder, Begin
  <2>2. \A q \in Request \ {r} : userlock' = q <=> userlock = q
    BY <1>t, <1>1 DEF FinishRegistration, RegistrationOrder, Begin
  <2>3. \A t \in Tables, i \in Id : \A q \in Request \ {r} : lock'[t][i] = q <=> lock[t][i] = q
    BY <1>t, <1>1 DEF FinishRegistration, RegistrationOrder, Begin
  <2>4. \A i \in Id : row'["credential"][i] = row["credential"][i] /\ row'["code"][i] = row["code"][i]
    BY <1>t, <1>1 DEF FinishRegistration, RegistrationOrder, Begin
  <2>5. UNCHANGED mfa
    BY <1>1 DEF FinishRegistration, RegistrationOrder, Begin
  <2>6. \A i \in Id : InTable("code", i)' <=> InTable("code", i)
    BY <2>4 DEF InTable
  <2>7. Passkeys' = Passkeys
    BY <2>4 DEF Passkeys, InTable
  <2>8. \A q \in Running \ {r} : op[q] \in Changes => op[q] = "register" /\ op'[r] = "register"
    BY <1>t, <1>1 DEF FinishRegistration, RegistrationOrder, Begin, Changes
  <2>a. userlock # r /\ \A t \in Tables, i \in Id : lock[t][i] # r
    BY <1>t, <1>1 DEF FinishRegistration, RegistrationOrder, Begin, IInv, LocksOfRunning, Running
  <2>b. op'[r] = "register" /\ pc'[r] = "user" /\ UNCHANGED lock
    BY <1>t, <1>1 DEF FinishRegistration, RegistrationOrder, Begin
  <2>9. ProgressOf(r)'
    BY <1>t, <2>7, <2>a, <2>b DEF ProgressOf
  <2>10. HoldsOf(r)'
    BY <1>t, <2>a, <2>b DEF HoldsOf
  <2>. QED
    BY <2>1, <2>2, <2>3, <2>4, <2>5, <2>6, <2>8, <2>9, <2>10, OthersKeep
<1>2. ASSUME Regenerate(r) PROVE AloneInv'
  <2>1. \A q \in Request \ {r} :
           /\ op'[q] = op[q] /\ pc'[q] = pc[q] /\ item'[q] = item[q]
           /\ todo'[q] = todo[q] /\ rows'[q] = rows[q] /\ first'[q] = first[q]
    BY <1>t, <1>2 DEF Regenerate, Begin
  <2>2. \A q \in Request \ {r} : userlock' = q <=> userlock = q
    BY <1>t, <1>2 DEF Regenerate, Begin
  <2>3. \A t \in Tables, i \in Id : \A q \in Request \ {r} : lock'[t][i] = q <=> lock[t][i] = q
    BY <1>t, <1>2 DEF Regenerate, Begin
  <2>4. \A i \in Id : row'["credential"][i] = row["credential"][i] /\ row'["code"][i] = row["code"][i]
    BY <1>t, <1>2 DEF Regenerate, Begin
  <2>5. UNCHANGED mfa
    BY <1>2 DEF Regenerate, Begin
  <2>6. \A i \in Id : InTable("code", i)' <=> InTable("code", i)
    BY <2>4 DEF InTable
  <2>7. Passkeys' = Passkeys
    BY <2>4 DEF Passkeys, InTable
  <2>8. \A q \in Running \ {r} : op[q] \in Changes => op[q] = "register" /\ op'[r] = "register"
    BY <1>t, <1>2 DEF Regenerate, Begin, Changes
  <2>a. userlock # r /\ \A t \in Tables, i \in Id : lock[t][i] # r
    BY <1>t, <1>2 DEF Regenerate, Begin, IInv, LocksOfRunning, Running
  <2>b. /\ op'[r] = "regenerate" /\ pc'[r] = "sweep" /\ UNCHANGED lock
        /\ todo'[r] = <<"code">> /\ Passkeys # {}
    BY <1>t, <1>2 DEF Regenerate, Begin
  <2>9. ProgressOf(r)'
    BY <1>t, <2>7, <2>a, <2>b DEF ProgressOf
  <2>10. HoldsOf(r)'
    BY <1>t, <2>a, <2>b DEF HoldsOf
  <2>. QED
    BY <2>1, <2>2, <2>3, <2>4, <2>5, <2>6, <2>8, <2>9, <2>10, OthersKeep
<1>3. ASSUME Disable(r) PROVE AloneInv'
  <2>1. \A q \in Request \ {r} :
           /\ op'[q] = op[q] /\ pc'[q] = pc[q] /\ item'[q] = item[q]
           /\ todo'[q] = todo[q] /\ rows'[q] = rows[q] /\ first'[q] = first[q]
    BY <1>t, <1>3 DEF Disable, Begin
  <2>2. \A q \in Request \ {r} : userlock' = q <=> userlock = q
    BY <1>t, <1>3 DEF Disable, Begin
  <2>3. \A t \in Tables, i \in Id : \A q \in Request \ {r} : lock'[t][i] = q <=> lock[t][i] = q
    BY <1>t, <1>3 DEF Disable, Begin
  <2>4. \A i \in Id : row'["credential"][i] = row["credential"][i] /\ row'["code"][i] = row["code"][i]
    BY <1>t, <1>3 DEF Disable, Begin
  <2>5. UNCHANGED mfa
    BY <1>3 DEF Disable, Begin
  <2>6. \A i \in Id : InTable("code", i)' <=> InTable("code", i)
    BY <2>4 DEF InTable
  <2>7. Passkeys' = Passkeys
    BY <2>4 DEF Passkeys, InTable
  <2>8. \A q \in Running \ {r} : op[q] \in Changes => op[q] = "register" /\ op'[r] = "register"
    BY <1>t, <1>3 DEF Disable, Begin, Changes
  <2>a. userlock # r /\ \A t \in Tables, i \in Id : lock[t][i] # r
    BY <1>t, <1>3 DEF Disable, Begin, IInv, LocksOfRunning, Running
  <2>b. /\ op'[r] = "disable" /\ pc'[r] = "sweep" /\ UNCHANGED <<userlock, lock>>
        /\ todo'[r] = <<"ceremony", "credential", "code">>
    BY <1>t, <1>3 DEF Disable, Begin
  <2>9. ProgressOf(r)'
    BY <1>t, <2>7, <2>a, <2>b, Different DEF ProgressOf
  <2>10. HoldsOf(r)'
    BY <1>t, <2>a, <2>b DEF HoldsOf
  <2>. QED
    BY <2>1, <2>2, <2>3, <2>4, <2>5, <2>6, <2>8, <2>9, <2>10, OthersKeep
<1>4. ASSUME NEW k \in Id, Remove(r, k) PROVE AloneInv'
  <2>1. \A q \in Request \ {r} :
           /\ op'[q] = op[q] /\ pc'[q] = pc[q] /\ item'[q] = item[q]
           /\ todo'[q] = todo[q] /\ rows'[q] = rows[q] /\ first'[q] = first[q]
    BY <1>t, <1>4 DEF Remove, Begin
  <2>2. \A q \in Request \ {r} : userlock' = q <=> userlock = q
    BY <1>t, <1>4 DEF Remove, Begin
  <2>3. \A t \in Tables, i \in Id : \A q \in Request \ {r} : lock'[t][i] = q <=> lock[t][i] = q
    <3>1. /\ lock["credential"][k] \in {None, r} /\ lock' = [lock EXCEPT !["credential"][k] = r]
      BY <1>4 DEF Remove, RowFree, Lock
    <3>2. \A t \in Tables, i \in Id :
             lock'[t][i] = IF t = "credential" /\ i = k THEN r ELSE lock[t][i]
      BY <1>t, <3>1
    <3>. QED
      BY <1>t, <3>1, <3>2
  <2>4. \A i \in Id : row'["credential"][i] = row["credential"][i] /\ row'["code"][i] = row["code"][i]
    BY <1>t, <1>4 DEF Remove, Begin
  <2>5. UNCHANGED mfa
    BY <1>4 DEF Remove, Begin
  <2>6. \A i \in Id : InTable("code", i)' <=> InTable("code", i)
    BY <2>4 DEF InTable
  <2>7. Passkeys' = Passkeys
    BY <2>4 DEF Passkeys, InTable
  <2>8. \A q \in Running \ {r} : op[q] \in Changes => op[q] = "register" /\ op'[r] = "register"
    BY <1>t, <1>4 DEF Remove, Begin, Changes
  <2>a. userlock # r /\ \A t \in Tables, i \in Id : lock[t][i] # r
    BY <1>t, <1>4 DEF Remove, Begin, IInv, LocksOfRunning, Running
  <2>b. /\ op'[r] = "remove" /\ pc'[r] = "count" /\ item'[r] = k /\ UNCHANGED userlock
        /\ lock' = [lock EXCEPT !["credential"][k] = r]
    BY <1>t, <1>4 DEF Remove, Begin, Lock
  <2>c. \A t \in Tables, i \in Id :
           lock'[t][i] = IF t = "credential" /\ i = k THEN r ELSE lock[t][i]
    BY <1>t, <2>b
  <2>9. ProgressOf(r)'
    BY <1>t, <2>7, <2>a, <2>b, <2>c DEF ProgressOf
  <2>10. HoldsOf(r)'
    BY <1>t, <2>a, <2>b, <2>c DEF HoldsOf
  <2>. QED
    BY <2>1, <2>2, <2>3, <2>4, <2>5, <2>6, <2>8, <2>9, <2>10, OthersKeep
<1>. QED
  BY <1>1, <1>2, <1>3, <1>4

\* The statements of a change that only look at the rows.
LEMMA CountSteps ==
    ASSUME TypeOK, IInv, AloneInv, ~mixed, NEW r \in Request
    PROVE  LockUser(r) \/ CountRegistered(r) \/ CountLeft(r) => AloneInv'
<1> USE NoneAssumption DEF locks, locals
<1>t. /\ row \in [Tables -> [Id -> RowState]] /\ lock \in [Tables -> [Id -> Request \cup {None}]]
      /\ op \in [Request -> Operations \cup {"none"}] /\ pc \in [Request -> PC]
      /\ on \in [Request -> Id \cup {None}] /\ item \in [Request -> Id \cup {None}]
      /\ todo \in [Request -> Seq(Tables)] /\ rows \in [Request -> SUBSET Id]
      /\ first \in [Request -> BOOLEAN] /\ userlock \in Request \cup {None}
      /\ Request \subseteq Id /\ "credential" \in Tables /\ "code" \in Tables
      /\ "ceremony" \in Tables /\ None \notin Id
  BY DEF TypeOK, Id, Tables
<1>1. ASSUME LockUser(r) PROVE AloneInv'
  <2>1. \A q \in Request \ {r} :
           /\ op'[q] = op[q] /\ pc'[q] = pc[q] /\ item'[q] = item[q]
           /\ todo'[q] = todo[q] /\ rows'[q] = rows[q] /\ first'[q] = first[q]
    BY <1>t, <1>1 DEF LockUser, RegistrationOrder, UserFree
  <2>2. \A q \in Request \ {r} : userlock' = q <=> userlock = q
    BY <1>t, <1>1 DEF LockUser, RegistrationOrder, UserFree
  <2>3. \A t \in Tables, i \in Id : \A q \in Request \ {r} : lock'[t][i] = q <=> lock[t][i] = q
    BY <1>t, <1>1 DEF LockUser, RegistrationOrder, UserFree
  <2>4. \A i \in Id : row'["credential"][i] = row["credential"][i] /\ row'["code"][i] = row["code"][i]
    BY <1>t, <1>1 DEF LockUser, RegistrationOrder, UserFree
  <2>5. UNCHANGED mfa
    BY <1>1 DEF LockUser, RegistrationOrder, UserFree
  <2>6. \A i \in Id : InTable("code", i)' <=> InTable("code", i)
    BY <2>4 DEF InTable
  <2>7. Passkeys' = Passkeys
    BY <2>4 DEF Passkeys, InTable
  <2>a. r \in Running /\ pc[r] = "user"
    BY <1>1 DEF LockUser, RegistrationOrder, UserFree, Running
  <2>b. ProgressOf(r) /\ HoldsOf(r)
    BY <2>a DEF AloneInv
  <2>c. op[r] \in Changes /\ UNCHANGED <<op, item>>
    BY <1>1 DEF LockUser, RegistrationOrder, UserFree, Changes, IInv, StageInv
  <2>8. \A q \in Running \ {r} : op[q] \in Changes => op[q] = "register" /\ op'[r] = "register"
    BY <2>a, <2>c DEF AloneInv, OnlyRegistrations
  <2>d. /\ UNCHANGED <<lock, rows, todo, first>> /\ userlock' = r
        /\ pc'[r] = IF op[r] = "register" THEN "count" ELSE "commit"
    BY <1>t, <1>1 DEF LockUser, RegistrationOrder, UserFree
  <2>e. \A i \in Id : InTable("credential", i)' <=> InTable("credential", i)
    BY <2>4 DEF InTable
  <2>9. ProgressOf(r)'
    <3>1. CASE op[r] = "register"
      BY <1>t, <2>6, <2>7, <2>a, <2>b, <2>c, <2>d, <2>e, <3>1 DEF ProgressOf, Emptied
    <3>2. CASE op[r] = "remove"
      BY <1>t, <2>6, <2>7, <2>a, <2>b, <2>c, <2>d, <2>e, <3>2 DEF ProgressOf, Emptied
    <3>3. CASE op[r] = "disable"
      BY <1>t, <2>6, <2>7, <2>a, <2>b, <2>c, <2>d, <2>e, <3>3 DEF ProgressOf, Emptied
    <3>. QED
      BY <1>1, <3>1, <3>2, <3>3 DEF LockUser, RegistrationOrder, UserFree, IInv, StageInv
  <2>10. HoldsOf(r)'
    BY <2>b, <2>c, <2>d DEF HoldsOf
  <2>. QED
    BY <2>1, <2>2, <2>3, <2>4, <2>5, <2>6, <2>8, <2>9, <2>10, OthersKeep
<1>2. ASSUME CountRegistered(r) PROVE AloneInv'
  <2>1. \A q \in Request \ {r} :
           /\ op'[q] = op[q] /\ pc'[q] = pc[q] /\ item'[q] = item[q]
           /\ todo'[q] = todo[q] /\ rows'[q] = rows[q] /\ first'[q] = first[q]
    BY <1>t, <1>2 DEF CountRegistered, RegistrationOrder
  <2>2. \A q \in Request \ {r} : userlock' = q <=> userlock = q
    BY <1>t, <1>2 DEF CountRegistered, RegistrationOrder
  <2>3. \A t \in Tables, i \in Id : \A q \in Request \ {r} : lock'[t][i] = q <=> lock[t][i] = q
    BY <1>t, <1>2 DEF CountRegistered, RegistrationOrder
  <2>4. \A i \in Id : row'["credential"][i] = row["credential"][i] /\ row'["code"][i] = row["code"][i]
    BY <1>t, <1>2 DEF CountRegistered, RegistrationOrder
  <2>5. UNCHANGED mfa
    BY <1>2 DEF CountRegistered, RegistrationOrder
  <2>6. \A i \in Id : InTable("code", i)' <=> InTable("code", i)
    BY <2>4 DEF InTable
  <2>7. Passkeys' = Passkeys
    BY <2>4 DEF Passkeys, InTable
  <2>a. r \in Running /\ pc[r] = "count"
    BY <1>2 DEF CountRegistered, RegistrationOrder, Running
  <2>b. ProgressOf(r) /\ HoldsOf(r)
    BY <2>a DEF AloneInv
  <2>c. op[r] \in Changes /\ UNCHANGED <<op, item>>
    BY <1>2 DEF CountRegistered, RegistrationOrder, Changes, IInv, StageInv
  <2>8. \A q \in Running \ {r} : op[q] \in Changes => op[q] = "register" /\ op'[r] = "register"
    BY <2>a, <2>c DEF AloneInv, OnlyRegistrations
  <2>d. /\ UNCHANGED <<lock, rows, todo, userlock>> /\ op[r] = "register"
        /\ pc'[r] = "commit" /\ (first'[r] <=> Passkeys = {})
    BY <1>t, <1>2 DEF CountRegistered, RegistrationOrder
  <2>e. \A i \in Id : InTable("credential", i)' <=> InTable("credential", i)
    BY <2>4 DEF InTable
  <2>9. ProgressOf(r)'
    <3>1. CASE op[r] = "register"
      BY <1>t, <2>6, <2>7, <2>a, <2>b, <2>c, <2>d, <2>e, <3>1 DEF ProgressOf, Emptied
    <3>. QED
      BY <1>2, <3>1 DEF CountRegistered, RegistrationOrder, IInv, StageInv
  <2>10. HoldsOf(r)'
    BY <2>b, <2>c, <2>d DEF HoldsOf
  <2>. QED
    BY <2>1, <2>2, <2>3, <2>4, <2>5, <2>6, <2>8, <2>9, <2>10, OthersKeep
<1>3. ASSUME CountLeft(r) PROVE AloneInv'
  <2>1. \A q \in Request \ {r} :
           /\ op'[q] = op[q] /\ pc'[q] = pc[q] /\ item'[q] = item[q]
           /\ todo'[q] = todo[q] /\ rows'[q] = rows[q] /\ first'[q] = first[q]
    BY <1>t, <1>3 DEF CountLeft
  <2>2. \A q \in Request \ {r} : userlock' = q <=> userlock = q
    BY <1>t, <1>3 DEF CountLeft
  <2>3. \A t \in Tables, i \in Id : \A q \in Request \ {r} : lock'[t][i] = q <=> lock[t][i] = q
    BY <1>t, <1>3 DEF CountLeft
  <2>4. \A i \in Id : row'["credential"][i] = row["credential"][i] /\ row'["code"][i] = row["code"][i]
    BY <1>t, <1>3 DEF CountLeft
  <2>5. UNCHANGED mfa
    BY <1>3 DEF CountLeft
  <2>6. \A i \in Id : InTable("code", i)' <=> InTable("code", i)
    BY <2>4 DEF InTable
  <2>7. Passkeys' = Passkeys
    BY <2>4 DEF Passkeys, InTable
  <2>a. r \in Running /\ pc[r] = "count"
    BY <1>3 DEF CountLeft, Running
  <2>b. ProgressOf(r) /\ HoldsOf(r)
    BY <2>a DEF AloneInv
  <2>c. op[r] \in Changes /\ UNCHANGED <<op, item>>
    BY <1>3 DEF CountLeft, Changes, IInv, StageInv
  <2>8. \A q \in Running \ {r} : op[q] \in Changes => op[q] = "register" /\ op'[r] = "register"
    BY <2>a, <2>c DEF AloneInv, OnlyRegistrations
  <2>d. /\ UNCHANGED <<lock, rows, userlock>> /\ op[r] = "remove"
        /\ \/ Passkeys = {item[r]} /\ todo'[r] = <<"code", "ceremony">> /\ pc'[r] = "sweep"
           \/ Passkeys # {item[r]} /\ todo'[r] = todo[r] /\ pc'[r] = "commit"
    BY <1>t, <1>3 DEF CountLeft
  <2>e. \A i \in Id : InTable("credential", i)' <=> InTable("credential", i)
    BY <2>4 DEF InTable
  <2>9. ProgressOf(r)'
    <3>1. CASE op[r] = "remove"
      BY <1>t, <2>6, <2>7, <2>a, <2>b, <2>c, <2>d, <2>e, <3>1, Different DEF ProgressOf, Emptied
    <3>. QED
      BY <1>3, <3>1 DEF CountLeft, IInv, StageInv
  <2>10. HoldsOf(r)'
    BY <2>b, <2>c, <2>d DEF HoldsOf
  <2>. QED
    BY <2>1, <2>2, <2>3, <2>4, <2>5, <2>6, <2>8, <2>9, <2>10, OthersKeep
<1>. QED
  BY <1>1, <1>2, <1>3

\* A step of a DELETE, which locks rows of its table and goes on.
LEMMA OnwardKeeps ==
    ASSUME TypeOK, IInv, AloneInv, ~mixed, NEW r \in Request, pc[r] \in {"sweep", "rows"},
           NEW left \in SUBSET Id, Onward(r, left),
           UNCHANGED <<mfa, row, userlock, op, item, first>>,
           \A t \in Tables, i \in Id : \A q \in Request \ {r} : lock'[t][i] = q <=> lock[t][i] = q,
           \A t \in Tables, i \in Id : lock[t][i] = r => lock'[t][i] = r,
           \A t \in Tables, i \in Id : lock'[t][i] = r => lock[t][i] = r \/ t = Head(todo[r]),
           Head(todo[r]) # "ceremony" =>
              \A i \in Id : InTable(Head(todo[r]), i) => lock'[Head(todo[r])][i] = r \/ i \in left
    PROVE  AloneInv'
<1> USE NoneAssumption DEF locks, locals
<1>t. /\ row \in [Tables -> [Id -> RowState]] /\ lock \in [Tables -> [Id -> Request \cup {None}]]
      /\ op \in [Request -> Operations \cup {"none"}] /\ pc \in [Request -> PC]
      /\ on \in [Request -> Id \cup {None}] /\ item \in [Request -> Id \cup {None}]
      /\ todo \in [Request -> Seq(Tables)] /\ rows \in [Request -> SUBSET Id]
      /\ first \in [Request -> BOOLEAN] /\ userlock \in Request \cup {None}
      /\ Request \subseteq Id /\ "credential" \in Tables /\ "code" \in Tables
      /\ "ceremony" \in Tables /\ None \notin Id
  BY DEF TypeOK, Id, Tables
<1>1. r \in Running /\ op[r] \in {"regenerate", "remove", "disable"}
  BY DEF Running, IInv, StageInv
<1>2. ProgressOf(r) /\ HoldsOf(r)
  BY <1>1 DEF AloneInv
<1>3. \A q \in Running \ {r} : op[q] \in Changes => op[q] = "register" /\ op'[r] = "register"
  BY <1>1 DEF AloneInv, OnlyRegistrations, Changes
<1>4. \A q \in Request \ {r} :
         /\ op'[q] = op[q] /\ pc'[q] = pc[q] /\ item'[q] = item[q]
         /\ todo'[q] = todo[q] /\ rows'[q] = rows[q] /\ first'[q] = first[q]
  BY <1>t DEF Onward
<1>5. rows'[r] = left
  BY <1>t DEF Onward
<1>6. left # {} => pc'[r] = "rows" /\ todo'[r] = todo[r]
  BY <1>t DEF Onward
<1>7. left = {} => /\ todo'[r] = Tail(todo[r])
                   /\ pc'[r] = CASE Len(todo[r]) > 1 -> "sweep"
                                 [] op[r] = "regenerate" -> "commit"
                                 [] OTHER -> "user"
  BY <1>t DEF Onward
<1>8. /\ \A i \in Id : InTable("code", i)' <=> InTable("code", i)
      /\ \A i \in Id : InTable("credential", i)' <=> InTable("credential", i)
  BY DEF InTable
<1>9. Passkeys' = Passkeys
  BY DEF Passkeys, InTable
<1>10. HoldsOf(r)'
  <2>1. op[r] = "remove" => Head(todo[r]) # "credential"
    BY <1>2, Orders DEF ProgressOf
  <2>2. op[r] = "regenerate" => Head(todo[r]) # "credential"
    BY <1>2, Orders DEF ProgressOf
  <2>. QED
    BY <1>t, <1>1, <1>2, <2>1, <2>2 DEF HoldsOf
<1>11. ProgressOf(r)'
  <2>1. CASE op[r] = "regenerate"
    <3>1. todo[r] = <<"code">>
      BY <1>2, <2>1 DEF ProgressOf
    <3>2. left # {} => pc'[r] = "rows" /\ todo'[r] = <<"code">> /\ rows'[r] = left
      BY <1>5, <1>6, <3>1
    <3>3. left = {} => pc'[r] = "commit"
      BY <1>7, <2>1, <3>1, Orders
    <3>4. \A i \in Id : InTable("code", i) => lock'["code"][i] = r \/ i \in left
      BY <3>1, Orders
    <3>. QED
      BY <1>2, <1>8, <1>9, <2>1, <3>2, <3>3, <3>4 DEF ProgressOf, Emptied
  <2>2. CASE op[r] = "remove"
    <3>a. item[r] \in Id /\ lock'["credential"][item[r]] = r /\ Passkeys = {item[r]}
      BY <1>t, <1>2, <2>2 DEF ProgressOf
    <3>1. CASE todo[r] = <<"code", "ceremony">>
      <4>1. left # {} => pc'[r] = "rows" /\ todo'[r] = <<"code", "ceremony">> /\ rows'[r] = left
        BY <1>5, <1>6, <3>1
      <4>2. left = {} => pc'[r] = "sweep" /\ todo'[r] = <<"ceremony">>
        BY <1>7, <2>2, <3>1, Orders
      <4>3. \A i \in Id : InTable("code", i) => lock'["code"][i] = r \/ i \in left
        BY <3>1, Orders
      <4>4. userlock = r => Emptied(r, "code", {})
        BY <1>2, <2>2 DEF ProgressOf
      <4>. QED
        BY <1>t, <1>8, <1>9, <2>2, <3>a, <4>1, <4>2, <4>3, <4>4, Different DEF ProgressOf, Emptied
    <3>2. CASE todo[r] = <<"ceremony">>
      <4>1. left # {} => pc'[r] = "rows" /\ todo'[r] = <<"ceremony">>
        BY <1>6, <3>2
      <4>2. left = {} => pc'[r] = "user"
        BY <1>7, <2>2, <3>2, Orders
      <4>3. \A i \in Id : InTable("code", i) => lock'["code"][i] = r
        BY <1>t, <1>2, <2>2, <3>2 DEF ProgressOf, Emptied
      <4>. QED
        BY <1>8, <1>9, <2>2, <3>a, <4>1, <4>2, <4>3, Different DEF ProgressOf, Emptied
    <3>. QED
      BY <1>2, <2>2, <3>1, <3>2 DEF ProgressOf
  <2>3. CASE op[r] = "disable"
    <3>1. CASE todo[r] = <<"ceremony", "credential", "code">>
      <4>1. left # {} => pc'[r] = "rows" /\ todo'[r] = <<"ceremony", "credential", "code">>
        BY <1>6, <3>1
      <4>2. left = {} => pc'[r] = "sweep" /\ todo'[r] = <<"credential", "code">>
        BY <1>7, <2>3, <3>1, Orders
      <4>. QED
        BY <2>3, <4>1, <4>2, Different DEF ProgressOf
    <3>2. CASE todo[r] = <<"credential", "code">>
      <4>1. left # {} => pc'[r] = "rows" /\ todo'[r] = <<"credential", "code">> /\ rows'[r] = left
        BY <1>5, <1>6, <3>2
      <4>2. left = {} => pc'[r] = "sweep" /\ todo'[r] = <<"code">>
        BY <1>7, <2>3, <3>2, Orders
      <4>3. \A i \in Id : InTable("credential", i) => lock'["credential"][i] = r \/ i \in left
        BY <3>2, Orders
      <4>. QED
        BY <1>8, <2>3, <4>1, <4>2, <4>3, Different DEF ProgressOf, Emptied
    <3>3. CASE todo[r] = <<"code">>
      <4>1. left # {} => pc'[r] = "rows" /\ todo'[r] = <<"code">> /\ rows'[r] = left
        BY <1>5, <1>6, <3>3
      <4>2. left = {} => pc'[r] = "user"
        BY <1>7, <2>3, <3>3, Orders
      <4>3. \A i \in Id : InTable("code", i) => lock'["code"][i] = r \/ i \in left
        BY <3>3, Orders
      <4>4. \A i \in Id : InTable("credential", i) => lock'["credential"][i] = r
        BY <1>t, <1>2, <2>3, <3>3 DEF ProgressOf, Emptied
      <4>. QED
        BY <1>8, <2>3, <4>1, <4>2, <4>3, <4>4, Different DEF ProgressOf, Emptied
    <3>. QED
      BY <1>2, <2>3, <3>1, <3>2, <3>3 DEF ProgressOf
  <2>. QED
    BY <1>1, <2>1, <2>2, <2>3
<1>. QED
  BY <1>3, <1>4, <1>8, <1>10, <1>11, OthersKeep

LEMMA SweepSteps ==
    ASSUME TypeOK, IInv, AloneInv, ~mixed, NEW r \in Request
    PROVE  /\ Sweep(r) => AloneInv'
           /\ \A i \in Id : SweepRow(r, i) => AloneInv'
<1> USE NoneAssumption DEF locks, locals
<1>t. /\ row \in [Tables -> [Id -> RowState]] /\ lock \in [Tables -> [Id -> Request \cup {None}]]
      /\ op \in [Request -> Operations \cup {"none"}] /\ pc \in [Request -> PC]
      /\ on \in [Request -> Id \cup {None}] /\ item \in [Request -> Id \cup {None}]
      /\ todo \in [Request -> Seq(Tables)] /\ rows \in [Request -> SUBSET Id]
      /\ first \in [Request -> BOOLEAN] /\ userlock \in Request \cup {None}
      /\ Request \subseteq Id /\ "credential" \in Tables /\ "code" \in Tables
      /\ "ceremony" \in Tables /\ None \notin Id
  BY DEF TypeOK, Id, Tables
<1>0. pc[r] \in {"sweep", "rows"} => todo[r] # <<>> /\ Head(todo[r]) \in Tables
  BY <1>t, HeadInTables DEF IInv, StageInv
<1>1. ASSUME Sweep(r) PROVE AloneInv'
  <2> DEFINE left == {i \in Id : InTable(Head(todo[r]), i) /\ lock[Head(todo[r])][i] # r}
  <2>1. /\ pc[r] = "sweep" /\ Onward(r, left)
        /\ UNCHANGED <<mfa, row, userlock, lock, op, item, first>>
    BY <1>1 DEF Sweep
  <2>2. left \in SUBSET Id
    OBVIOUS
  <2>3. \A i \in Id : InTable(Head(todo[r]), i) => lock'[Head(todo[r])][i] = r \/ i \in left
    BY <2>1
  <2> HIDE DEF left
  <2>. QED
    BY <2>1, <2>2, <2>3, OnwardKeeps
<1>2. ASSUME NEW i \in Id, SweepRow(r, i) PROVE AloneInv'
  <2> DEFINE t == Head(todo[r])
  <2>1. /\ pc[r] = "rows" /\ i \in rows[r] /\ Onward(r, rows[r] \ {i})
        /\ UNCHANGED <<mfa, row, userlock, op, item, first>>
        /\ lock[t][i] \in {None, r} /\ t \in Tables
        /\ lock' = IF InTable(t, i) THEN [lock EXCEPT ![t][i] = r] ELSE lock
    BY <1>0, <1>2 DEF SweepRow, RowFree, Lock
  <2>2. \A u \in Tables, j \in Id :
           lock'[u][j] = IF u = t /\ j = i /\ InTable(t, i) THEN r ELSE lock[u][j]
    BY <1>t, <2>1
  <2>3. t # "ceremony" => \A j \in Id : InTable(t, j) => lock[t][j] = r \/ j \in rows[r]
    <3>1. ProgressOf(r) /\ op[r] \in {"regenerate", "remove", "disable"}
      BY <2>1 DEF AloneInv, Running, IInv, StageInv
    <3>2. CASE op[r] = "regenerate"
      BY <2>1, <3>1, <3>2, Orders DEF ProgressOf, Emptied
    <3>3. CASE op[r] = "remove"
      BY <2>1, <3>1, <3>3, Orders DEF ProgressOf, Emptied
    <3>4. CASE op[r] = "disable"
      BY <2>1, <3>1, <3>4, Orders DEF ProgressOf, Emptied
    <3>. QED
      BY <3>1, <3>2, <3>3, <3>4
  <2>4. t # "ceremony" => \A j \in Id : InTable(t, j) => lock'[t][j] = r \/ j \in rows[r] \ {i}
    BY <2>1, <2>2, <2>3
  <2>5. rows[r] \ {i} \in SUBSET Id
    BY <1>t
  <2>6. /\ \A u \in Tables, j \in Id : \A q \in Request \ {r} : lock'[u][j] = q <=> lock[u][j] = q
        /\ \A u \in Tables, j \in Id : lock[u][j] = r => lock'[u][j] = r
        /\ \A u \in Tables, j \in Id : lock'[u][j] = r => lock[u][j] = r \/ u = t
    BY <1>t, <2>1, <2>2
  <2>. QED
    BY <2>1, <2>4, <2>5, <2>6, OnwardKeeps
<1>. QED
  BY <1>1, <1>2

LEMMA CommitSteps ==
    ASSUME TypeOK, IInv, AloneInv, ~mixed, NEW r \in Request, Commit(r)
    PROVE  AloneInv'
<1> USE NoneAssumption DEF locks, locals
<1>t. /\ row \in [Tables -> [Id -> RowState]] /\ lock \in [Tables -> [Id -> Request \cup {None}]]
      /\ op \in [Request -> Operations \cup {"none"}] /\ pc \in [Request -> PC]
      /\ on \in [Request -> Id \cup {None}] /\ item \in [Request -> Id \cup {None}]
      /\ todo \in [Request -> Seq(Tables)] /\ rows \in [Request -> SUBSET Id]
      /\ first \in [Request -> BOOLEAN] /\ userlock \in Request \cup {None}
      /\ Request \subseteq Id /\ "credential" \in Tables /\ "code" \in Tables
      /\ "ceremony" \in Tables /\ None \notin Id
  BY DEF TypeOK, Id, Tables
<1>1. /\ pc[r] = "commit" /\ pc'[r] = "ok" /\ UNCHANGED <<op, item, mixed>>
      /\ \A q \in Request \ {r} : pc'[q] = pc[q] /\ todo'[q] = todo[q] /\ rows'[q] = rows[q] /\ first'[q] = first[q]
  BY <1>t DEF Commit, End
<1>2. /\ userlock' = IF userlock = r THEN None ELSE userlock
      /\ \A t \in Tables, i \in Id : lock'[t][i] = IF lock[t][i] = r THEN None ELSE lock[t][i]
  BY <1>t DEF Commit, End
<1>3. \A t \in Tables, i \in Id :
         row'[t][i] = IF i = r /\ t \in Inserted(r)
                      THEN IF t = "code" THEN "unused" ELSE "present"
                      ELSE IF lock[t][i] = r THEN Left(r, t, i) ELSE row[t][i]
  BY DEF Commit
<1>4. mfa' = IF userlock = r THEN op[r] = "register" ELSE mfa
  BY DEF Commit
<1>5. r \in Running /\ r \notin Running' /\ ProgressOf(r) /\ HoldsOf(r)
  BY <1>1 DEF Running, AloneInv
<1>6. op[r] \in {"passkey", "backup", "register", "regenerate", "remove", "disable"}
  BY <1>1 DEF IInv, StageInv, Changes
<1>7. /\ mfa <=> Passkeys # {}
      /\ UnusedCodes # {} => mfa
      /\ \A a, b \in UnusedCodes : a = b
  BY DEF AloneInv
<1>8. \A t \in Tables, i \in Id : lock[t][i] = r => InTable(t, i)
  BY <1>t DEF IInv, LocksOfRunning
<1>9. CASE op[r] \in {"passkey", "backup"}
  <2>1. Inserted(r) = {}
    BY <1>9 DEF Inserted
  <2>2. \A i \in Id : lock["credential"][i] = r => op[r] = "passkey"
    <3>1. \A t \in Tables, i \in Id : lock[t][i] = r /\ op[r] = "backup" => t \in {"ceremony", "code"}
      BY DEF IInv, StageInv
    <3>. QED
      BY <1>t, <1>9, <3>1
  <2>3. \A i \in Id : row'["credential"][i] = row["credential"][i]
    BY <1>t, <1>3, <2>1, <2>2 DEF Left
  <2>4. \A i \in Id : /\ row'["code"][i] = "unused" => row["code"][i] = "unused"
                      /\ InTable("code", i)' <=> InTable("code", i)
    BY <1>t, <1>3, <1>8, <1>9, <2>1 DEF InTable, Left
  <2>5. UNCHANGED mfa
    BY <1>4, <1>9 DEF IInv, StageInv
  <2>6. \A q \in Request \ {r} :
           /\ op'[q] = op[q] /\ pc'[q] = pc[q] /\ item'[q] = item[q]
           /\ todo'[q] = todo[q] /\ rows'[q] = rows[q] /\ first'[q] = first[q]
           /\ userlock' = q <=> userlock = q
           /\ \A t \in Tables, i \in Id : lock'[t][i] = q <=> lock[t][i] = q
    BY <1>t, <1>1, <1>2
  <2>. QED
    BY <1>5, <2>3, <2>4, <2>5, <2>6, OthersKeep
<1>10. CASE op[r] \in Changes
  <2>1. \A q \in Running' : /\ q \in Running /\ q \in Request \ {r}
                            /\ op[q] \in Changes => op[q] = "register" /\ op[r] = "register"
    BY <1>1, <1>5, <1>10 DEF Running, AloneInv, OnlyRegistrations
  <2>2. OnlyRegistrations'
    BY <1>1, <2>1 DEF OnlyRegistrations, AloneInv
  <2>3. ASSUME NEW q \in Running' PROVE ProgressOf(q)' /\ HoldsOf(q)'
    <3>1. CASE op[q] \in Changes
      <4>1. op[q] = "register" /\ op[r] = "register" /\ ProgressOf(q) /\ HoldsOf(q) /\ userlock = r /\ q # r
        BY <1>1, <1>5, <2>1, <3>1 DEF AloneInv, ProgressOf
      <4>2. pc'[q] \notin {"count", "commit"} /\ op'[q] = "register"
        BY <1>1, <2>1, <4>1 DEF ProgressOf
      <4>3. \A i \in Id : lock'["credential"][i] # q
        BY <1>t, <1>2, <2>1, <4>1 DEF HoldsOf
      <4>. QED
        BY <4>2, <4>3 DEF ProgressOf, HoldsOf
    <3>2. CASE op[q] \notin Changes
      BY <1>1, <3>2 DEF ProgressOf, HoldsOf, Changes
    <3>. QED
      BY <3>1, <3>2
  <2>4. /\ (mfa <=> Passkeys # {})'
        /\ (UnusedCodes # {} => mfa)'
        /\ (\A a, b \in UnusedCodes : a = b)'
    <3>1. CASE op[r] = "register"
      <4>1. userlock = r /\ (first[r] <=> Passkeys = {}) /\ \A i \in Id : lock["credential"][i] # r
        BY <1>1, <1>5, <3>1 DEF ProgressOf, HoldsOf
      <4>2. mfa'
        BY <1>4, <3>1, <4>1
      <4>3. "credential" \in Inserted(r) /\ ("code" \in Inserted(r) => first[r])
        BY <3>1 DEF Inserted
      <4>4. r \in Passkeys'
        <5>1. row'["credential"][r] = "present"
          BY <1>t, <1>3, <4>3
        <5>. QED
          BY <1>t, <5>1 DEF Passkeys, InTable
      <4>5. \A i \in Id : row'["code"][i] = "unused" => row["code"][i] = "unused" \/ (i = r /\ first[r])
        BY <1>t, <1>3, <3>1, <4>3 DEF Left
      <4>6. first[r] => UnusedCodes = {}
        BY <1>7, <4>1
      <4>7. \A a, b \in UnusedCodes' : a = b
        BY <1>7, <4>5, <4>6 DEF UnusedCodes
      <4>. QED
        BY <4>2, <4>4, <4>7
    <3>2. CASE op[r] = "regenerate"
      <4>1. Passkeys # {} /\ Emptied(r, "code", {}) /\ \A i \in Id : lock["credential"][i] # r
        BY <1>1, <1>5, <3>2 DEF ProgressOf, HoldsOf
      <4>2. UNCHANGED mfa
        BY <1>4, <3>2 DEF IInv, StageInv
      <4>3. Inserted(r) = {"code"}
        BY <3>2 DEF Inserted
      <4>4. Passkeys' = Passkeys
        <5>1. \A i \in Id : row'["credential"][i] = row["credential"][i]
          BY <1>t, <1>3, <4>1, <4>3
        <5>. QED
          BY <5>1 DEF Passkeys, InTable
      <4>5. \A i \in Id : row["code"][i] = "unused" => lock["code"][i] = r
        BY <4>1 DEF Emptied, InTable
      <4>6. \A i \in Id : row'["code"][i] = "unused" => i = r
        BY <1>t, <1>3, <3>2, <4>3, <4>5 DEF Left
      <4>. QED
        BY <1>7, <4>1, <4>2, <4>4, <4>6 DEF UnusedCodes
    <3>3. CASE op[r] = "remove" /\ userlock = r
      <4>1. /\ Passkeys = {item[r]} /\ Emptied(r, "code", {})
            /\ item[r] \in Id /\ lock["credential"][item[r]] = r
        BY <1>1, <1>5, <3>3 DEF ProgressOf
      <4>2. ~mfa' /\ Inserted(r) = {}
        BY <1>4, <3>3 DEF Inserted
      <4>3. \A i \in Id : ~InTable("credential", i)'
        <5>1. \A i \in Id : InTable("credential", i) => i = item[r]
          BY <4>1 DEF Passkeys
        <5>2. row'["credential"][item[r]] = "gone"
          BY <1>t, <1>3, <3>3, <4>1, <4>2 DEF Left
        <5>3. \A i \in Id : i # item[r] => row["credential"][i] \in {"none", "gone"} /\ lock["credential"][i] # r
          BY <1>t, <1>8, <5>1 DEF InTable
        <5>. QED
          BY <1>t, <1>3, <4>2, <5>2, <5>3 DEF InTable
      <4>4. \A i \in Id : row'["code"][i] # "unused"
        BY ZenonT(60), <1>t, <1>3, <3>3, <4>1, <4>2 DEF Left, Emptied, InTable
      <4>. QED
        BY <4>2, <4>3, <4>4 DEF Passkeys, UnusedCodes
    <3>4. CASE op[r] = "remove" /\ userlock # r
      <4>1. /\ Passkeys # {item[r]} /\ item[r] \in Id /\ lock["credential"][item[r]] = r
            /\ \A i \in Id : lock["credential"][i] = r => i = item[r]
        BY <1>1, <1>5, <3>4 DEF ProgressOf, HoldsOf
      <4>2. UNCHANGED mfa /\ Inserted(r) = {}
        BY <1>4, <3>4 DEF Inserted
      <4>3. item[r] \in Passkeys
        BY <1>t, <1>8, <4>1 DEF Passkeys
      <4>4. PICK k \in Passkeys : k # item[r]
        BY <4>1, <4>3
      <4>5. k \in Id /\ row'["credential"][k] = row["credential"][k]
        BY <1>t, <1>3, <4>1, <4>2, <4>4 DEF Passkeys
      <4>6. k \in Passkeys'
        BY <4>4, <4>5 DEF Passkeys, InTable
      <4>7. UnusedCodes' \subseteq UnusedCodes
        BY <1>t, <1>3, <3>4, <4>2 DEF UnusedCodes, Left
      <4>. QED
        BY <1>7, <4>2, <4>3, <4>6, <4>7
    <3>5. CASE op[r] = "disable"
      <4>1. userlock = r /\ Emptied(r, "credential", {}) /\ Emptied(r, "code", {})
        BY <1>1, <1>5, <3>5 DEF ProgressOf
      <4>2. ~mfa' /\ Inserted(r) = {}
        BY <1>4, <3>5, <4>1 DEF Inserted
      <4>3. \A i \in Id : ~InTable("credential", i)'
        BY <1>t, <1>3, <3>5, <4>1, <4>2 DEF Left, Emptied, InTable
      <4>4. \A i \in Id : row'["code"][i] # "unused"
        BY ZenonT(60), <1>t, <1>3, <3>5, <4>1, <4>2 DEF Left, Emptied, InTable
      <4>. QED
        BY <4>2, <4>3, <4>4 DEF Passkeys, UnusedCodes
    <3>. QED
      BY <1>10, <3>1, <3>2, <3>3, <3>4, <3>5 DEF Changes
  <2>. QED
    BY <2>2, <2>3, <2>4 DEF AloneInv
<1>. QED
  BY <1>6, <1>9, <1>10 DEF Changes

LEMMA AloneStep == TypeOK /\ IInv /\ AloneInv /\ [Next]_vars => AloneInv'
<1> SUFFICES ASSUME TypeOK, IInv, AloneInv, [Next]_vars, ~mixed' PROVE AloneInv'
  BY DEF AloneInv
<1>1. ~mixed
  BY MixedStays
<1>. QED
  BY <1>1, QuietSteps, BeginChanges, CountSteps, SweepSteps, CommitSteps
     DEF Next, Start, Continue, Cancel, DeadlockVictim

-----------------------------------------------------------------------------
(* Theorems *)

\* Together with the types and locks, AloneInv holds in every behaviour.
THEOREM AloneInductive == Spec => []AloneInv
<1>1. TypeOK /\ IInv /\ AloneInv /\ [Next]_vars => AloneInv'
  BY AloneStep
<1>. QED
  BY <1>1, AloneInit, Inductive, PTL DEF Spec

\* However many logins and registrations of passkey.rs overlap, and wherever
\* they fail, MFA is required just when the account has a passkey and there is
\* one batch of codes, until a removal, a regeneration or a disabling overlaps
\* another change.
THEOREM ConsistentAlone == Spec => []ConsistentUnlessMixed
<1>1. AloneInv => ConsistentUnlessMixed
  <2> SUFFICES ASSUME AloneInv, ~mixed PROVE Consistent
    BY DEF ConsistentUnlessMixed
  <2>1. /\ mfa <=> Passkeys # {}
        /\ UnusedCodes # {} => mfa
        /\ \A a, b \in UnusedCodes : a = b
    BY DEF AloneInv
  <2>2. Cardinality(UnusedCodes) <= 1
    <3>1. CASE UnusedCodes = {}
      BY <3>1, FS_EmptySet
    <3>2. CASE UnusedCodes # {}
      <4>1. PICK b \in UnusedCodes : TRUE
        BY <3>2
      <4>2. UnusedCodes = {b}
        BY <2>1, <4>1
      <4>. QED
        <5>1. Cardinality({b}) = 1
          BY FS_Singleton
        <5>. QED
          BY <4>2, <5>1
    <3>. QED
      BY <3>1, <3>2
  <2>. QED
    BY <2>1, <2>2 DEF Consistent
<1>. QED
  BY <1>1, AloneInductive, PTL
================================================================================

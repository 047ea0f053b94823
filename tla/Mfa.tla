--------------------------------- MODULE Mfa ---------------------------------
(***************************************************************************)
(* The second factor of one account: passkeys, backup codes and the        *)
(* WebAuthn ceremonies that register or use them (auth/passkey.rs), with   *)
(* the users column mfa_required that makes login ask for it.  Requests    *)
(* run statement by statement under READ COMMITTED (see Sessions).  The    *)
(* account is there throughout, and its owner knows the password.          *)
(*                                                                         *)
(* A row is named by the request that inserted it; Earlier names the ones  *)
(* there from the start.  A batch of ten backup codes is represented by    *)
(* one of them.  A WebAuthn response that does not verify ends its request *)
(* like any other failure.                                                 *)
(***************************************************************************)
EXTENDS Naturals, Sequences, FiniteSets

CONSTANTS
    Request,    \* the requests of a behaviour
    Earlier,    \* names of the rows the account has at the start
    Operation,  \* the operations the requests may run
    None        \* no request, no row

Operations == {"start", "register", "login", "passkey", "backup",
               "regenerate", "remove", "disable"}
\* Those that change what the second factor is.
Changes == {"register", "regenerate", "remove", "disable"}
Tables == {"credential", "code", "ceremony"}
Id == Request \cup Earlier

ASSUME OperationAssumption == Operation \subseteq Operations
ASSUME EarlierAssumption == Earlier \cap Request = {}
ASSUME NoneAssumption == None \notin Id

VARIABLES
    mfa,        \* the committed mfa_required
    row,        \* for each table, the committed state of each row
    allows,     \* the passkeys an authentication ceremony asks for
    userlock,   \* the transaction that has written the users row
    lock,       \* for each table and row, the transaction that has locked it
    op, pc,
    on,         \* the ceremony a request finishes
    item,       \* the passkey or code it names
    first,      \* it registers the account's first passkey
    todo,       \* tables it has still to empty, the current one first
    rows,       \* rows its current DELETE has still to visit
    mixed       \* two changes overlapped that were not both registrations

locks == <<userlock, lock>>
locals == <<op, on, item, first, todo, rows>>
vars == <<mfa, row, allows, userlock, lock, op, pc, on, item, first, todo, rows, mixed>>

-----------------------------------------------------------------------------

InTable(t, i) == row[t][i] \notin {"none", "gone"}
Passkeys == {k \in Id : InTable("credential", k)}
Running == {r \in Request : pc[r] \notin {"idle", "ok", "failed"}}

UserFree(r) == userlock \in {None, r}
RowFree(r, t, i) == lock[t][i] \in {None, r}
Lock(r, t, i) == lock' = [lock EXCEPT ![t][i] = r]

End(r, outcome) ==
    /\ pc' = [pc EXCEPT ![r] = outcome]
    /\ rows' = [rows EXCEPT ![r] = {}]
    /\ todo' = [todo EXCEPT ![r] = <<>>]
    /\ first' = [first EXCEPT ![r] = FALSE]
    /\ userlock' = IF userlock = r THEN None ELSE userlock
    /\ lock' = [t \in Tables |-> [i \in Id |-> IF lock[t][i] = r THEN None
                                                                 ELSE lock[t][i]]]
    /\ UNCHANGED <<op, on, item, mixed>>

Rollback(r) == End(r, "failed") /\ UNCHANGED <<mfa, row, allows>>

\* A mutant: a ceremony finished with a code is marked, not deleted.
LeftMarked(r, t, i) ==
    CASE op[r] = "passkey" -> row[t][i]
      [] op[r] = "backup" -> "used"
      [] OTHER -> "gone"

\* What a row that request r has locked is once r commits.
Left(r, t, i) ==
    CASE op[r] = "passkey" -> row[t][i]
      [] op[r] = "backup" /\ t = "code" -> "used"
      [] OTHER -> "gone"

\* The rows request r inserts.
Inserted(r) ==
    CASE op[r] = "register" /\ first[r] -> {"credential", "code"}
      [] op[r] = "register" /\ ~first[r] -> {"credential"}
      [] op[r] = "regenerate" -> {"code"}
      [] OTHER -> {}

Commit(r) ==
    /\ pc[r] = "commit"
    /\ mfa' = IF userlock = r THEN op[r] = "register" ELSE mfa
    /\ row' = [t \in Tables |-> [i \in Id |->
                 IF i = r /\ t \in Inserted(r)
                 THEN IF t = "code" THEN "unused" ELSE "present"
                 ELSE IF lock[t][i] = r THEN Left(r, t, i) ELSE row[t][i]]]
    /\ End(r, "ok")
    /\ UNCHANGED allows

Begin(r, o, c, i, next) ==
    /\ pc[r] = "idle"
    /\ o \in Operation
    /\ op' = [op EXCEPT ![r] = o]
    /\ on' = [on EXCEPT ![r] = c]
    /\ item' = [item EXCEPT ![r] = i]
    /\ pc' = [pc EXCEPT ![r] = next]
    /\ mixed' = (mixed \/ (o \in Changes /\ \E q \in Running :
                              op[q] \in Changes /\ {o, op[q]} # {"register"}))

-----------------------------------------------------------------------------
(* Statements the operations share *)

\* A mutant: the passkeys are counted before the users row is written.
CountFirst == [ceremony |-> "count", count |-> "user", user |-> "commit"]

\* What follows each of a registration's stages.
RegistrationOrder == [ceremony |-> "user", user |-> "count", count |-> "commit"]

\* UPDATE users SET mfa_required.
LockUser(r) ==
    /\ pc[r] = "user"
    /\ UserFree(r)
    /\ userlock' = r
    /\ pc' = [pc EXCEPT ![r] = IF op[r] = "register" THEN RegistrationOrder.user
                                                         ELSE "commit"]
    /\ UNCHANGED <<mfa, row, allows, lock, locals, mixed>>

\* Goes on with the next table, or past the last one.
Onward(r, left) ==
    /\ rows' = [rows EXCEPT ![r] = left]
    /\ IF left # {} THEN pc' = [pc EXCEPT ![r] = "rows"] /\ UNCHANGED todo
       ELSE /\ todo' = [todo EXCEPT ![r] = Tail(@)]
            /\ pc' = [pc EXCEPT ![r] = CASE Len(todo[r]) > 1 -> "sweep"
                                         [] op[r] = "regenerate" -> "commit"
                                         [] OTHER -> "user"]

\* DELETE ... WHERE user_id: its snapshot ...
Sweep(r) ==
    /\ pc[r] = "sweep"
    /\ LET t == Head(todo[r])
       IN Onward(r, {i \in Id : InTable(t, i) /\ lock[t][i] # r})
    /\ UNCHANGED <<mfa, row, allows, locks, op, on, item, first, mixed>>

\* ... and each row of it, once nobody else has it.
SweepRow(r, i) ==
    /\ pc[r] = "rows"
    /\ i \in rows[r]
    /\ LET t == Head(todo[r])
       IN /\ RowFree(r, t, i)
          /\ IF InTable(t, i) THEN Lock(r, t, i) ELSE UNCHANGED lock
    /\ Onward(r, rows[r] \ {i})
    /\ UNCHANGED <<mfa, row, allows, userlock, op, on, item, first, mixed>>

-----------------------------------------------------------------------------
(* Registration *)

\* start_passkey_registration inserts its ceremony, and that is all.
StartRegistration(r) ==
    /\ Begin(r, "start", None, None, "ok")
    /\ row' = [row EXCEPT !["ceremony"][r] = "registration"]
    /\ UNCHANGED <<mfa, allows, locks, first, todo, rows>>

\* finish_passkey_registration: the ceremony is deleted by itself, before the
\* response is verified and the transaction that inserts the passkey begins.
FinishRegistration(r, c) ==
    /\ row["ceremony"][c] = "registration"
    /\ RowFree(r, "ceremony", c)
    /\ Begin(r, "register", c, None, RegistrationOrder.ceremony)
    /\ row' = [row EXCEPT !["ceremony"][c] = "gone"]
    /\ UNCHANGED <<mfa, allows, locks, first, todo, rows>>

\* Only now, with the users row locked, are the account's passkeys counted.
CountRegistered(r) ==
    /\ pc[r] = "count" /\ op[r] = "register"
    /\ first' = [first EXCEPT ![r] = Passkeys = {}]
    /\ pc' = [pc EXCEPT ![r] = RegistrationOrder.count]
    /\ UNCHANGED <<mfa, row, allows, locks, op, on, item, todo, rows, mixed>>

-----------------------------------------------------------------------------
(* Login *)

\* login: the password was right.
LoginRead(r) ==
    /\ Begin(r, "login", None, None, IF mfa THEN "passkeys" ELSE "touch")
    /\ UNCHANGED <<mfa, row, allows, locks, first, todo, rows>>

\* start_passkey_authentication reads the passkeys, and refuses when there
\* is none ...
ReadPasskeys(r) ==
    /\ pc[r] = "passkeys"
    /\ \/ /\ Passkeys # {}
          /\ allows' = [allows EXCEPT ![r] = Passkeys]
          /\ pc' = [pc EXCEPT ![r] = "challenge"]
          /\ UNCHANGED <<mfa, row, locks, locals, mixed>>
       \/ Passkeys = {} /\ Rollback(r)

\* ... then inserts the ceremony.
Challenge(r) ==
    /\ pc[r] = "challenge"
    /\ row' = [row EXCEPT !["ceremony"][r] = "authentication"]
    /\ pc' = [pc EXCEPT ![r] = "touch"]
    /\ UNCHANGED <<mfa, allows, locks, locals, mixed>>

\* The failure counters are reset, and without MFA the session is created.
Touch(r) ==
    /\ pc[r] = "touch"
    /\ UserFree(r)
    /\ End(r, "ok")
    /\ UNCHANGED <<mfa, row, allows>>

-----------------------------------------------------------------------------
(* The second factor *)

\* finish_passkey_login: the ceremony goes first, whatever comes of it.
PasskeyLogin(r, c, k) ==
    /\ row["ceremony"][c] = "authentication"
    /\ RowFree(r, "ceremony", c)
    /\ k \in allows[c]
    /\ Begin(r, "passkey", c, k, "read")
    /\ row' = [row EXCEPT !["ceremony"][c] = "gone"]
    /\ UNCHANGED <<mfa, allows, locks, first, todo, rows>>

ReadPasskey(r) ==
    /\ pc[r] = "read"
    /\ \/ /\ item[r] \in Passkeys
          /\ pc' = [pc EXCEPT ![r] = "row"]
          /\ UNCHANGED <<mfa, row, allows, locks, locals, mixed>>
       \/ item[r] \notin Passkeys /\ Rollback(r)

\* UPDATE webauthn_credentials WHERE id: how many rows it changed is not
\* looked at.
UpdatePasskey(r) ==
    /\ pc[r] = "row" /\ op[r] = "passkey"
    /\ RowFree(r, "credential", item[r])
    /\ IF item[r] \in Passkeys THEN Lock(r, "credential", item[r]) ELSE UNCHANGED lock
    /\ pc' = [pc EXCEPT ![r] = "commit"]
    /\ UNCHANGED <<mfa, row, allows, userlock, locals, mixed>>

\* A mutant: SELECT without FOR UPDATE.
ReadCeremony(r, c, b) ==
    /\ row["ceremony"][c] = "authentication"
    /\ InTable("code", b)
    /\ Begin(r, "backup", c, b, "row")
    /\ UNCHANGED <<mfa, row, allows, locks, first, todo, rows>>

\* login_with_backup_code: SELECT the ceremony FOR UPDATE.
BackupLogin(r, c, b) ==
    /\ row["ceremony"][c] = "authentication"
    /\ RowFree(r, "ceremony", c)
    /\ InTable("code", b)
    /\ Begin(r, "backup", c, b, "row")
    /\ Lock(r, "ceremony", c)
    /\ UNCHANGED <<mfa, row, allows, userlock, first, todo, rows>>

\* A mutant: the code is looked up, and marked with the rest.
ReadCode(r) ==
    /\ pc[r] = "row" /\ op[r] = "backup"
    /\ \/ /\ row["code"][item[r]] = "unused"
          /\ pc' = [pc EXCEPT ![r] = "commit"]
          /\ UNCHANGED <<mfa, row, allows, locks, locals, mixed>>
       \/ row["code"][item[r]] # "unused" /\ Rollback(r)

\* UPDATE backup_codes ... WHERE used_at IS NULL, then DELETE the ceremony.
UseCode(r) ==
    /\ pc[r] = "row" /\ op[r] = "backup"
    /\ RowFree(r, "code", item[r])
    /\ \/ /\ row["code"][item[r]] = "unused"
          /\ Lock(r, "code", item[r])
          /\ pc' = [pc EXCEPT ![r] = "commit"]
          /\ UNCHANGED <<mfa, row, allows, userlock, locals, mixed>>
       \/ row["code"][item[r]] # "unused" /\ Rollback(r)

-----------------------------------------------------------------------------
(* Changing it *)

\* regenerate_backup_codes counts the passkeys before its transaction.
Regenerate(r) ==
    /\ Passkeys # {}
    /\ Begin(r, "regenerate", None, None, "sweep")
    /\ todo' = [todo EXCEPT ![r] = <<"code">>]
    /\ UNCHANGED <<mfa, row, allows, locks, first, rows>>

\* remove_passkey deletes one ...
Remove(r, k) ==
    /\ k \in Passkeys
    /\ RowFree(r, "credential", k)
    /\ Begin(r, "remove", None, k, "count")
    /\ Lock(r, "credential", k)
    /\ UNCHANGED <<mfa, row, allows, userlock, first, todo, rows>>

\* ... and, when it sees no other, the rest of MFA with it.
CountLeft(r) ==
    /\ pc[r] = "count" /\ op[r] = "remove"
    /\ \/ /\ Passkeys = {item[r]}
          /\ todo' = [todo EXCEPT ![r] = <<"code", "ceremony">>]
          /\ pc' = [pc EXCEPT ![r] = "sweep"]
       \/ /\ Passkeys # {item[r]}
          /\ pc' = [pc EXCEPT ![r] = "commit"]
          /\ UNCHANGED todo
    /\ UNCHANGED <<mfa, row, allows, locks, op, on, item, first, rows, mixed>>

\* A mutant: the codes go first.
DisableCodesFirst(r) ==
    /\ Begin(r, "disable", None, None, "sweep")
    /\ todo' = [todo EXCEPT ![r] = <<"code", "ceremony", "credential">>]
    /\ UNCHANGED <<mfa, row, allows, locks, first, rows>>

\* disable_mfa deletes everything, then turns MFA off.
Disable(r) ==
    /\ Begin(r, "disable", None, None, "sweep")
    /\ todo' = [todo EXCEPT ![r] = <<"ceremony", "credential", "code">>]
    /\ UNCHANGED <<mfa, row, allows, locks, first, rows>>

-----------------------------------------------------------------------------
(* The environment *)

\* A ceremony is good for five minutes; clean-up skips locked rows.
Expire(c) ==
    /\ InTable("ceremony", c)
    /\ lock["ceremony"][c] = None
    /\ row' = [row EXCEPT !["ceremony"][c] = "gone"]
    /\ UNCHANGED <<mfa, allows, locks, locals, pc, mixed>>

\* A timeout, a response that does not verify, a failed statement or a stop.
Cancel(r) == r \in Running /\ Rollback(r)

WaitsFor(r) ==
    CASE pc[r] \in {"user", "touch"} -> {userlock} \ {r, None}
      [] pc[r] = "row" ->
            {lock[IF op[r] = "backup" THEN "code" ELSE "credential"][item[r]]} \ {r, None}
      [] pc[r] = "rows" ->
            LET t == Head(todo[r])
            IN IF \E i \in rows[r] : RowFree(r, t, i) THEN {}
               ELSE {lock[t][i] : i \in rows[r]}
      [] OTHER -> {}

Deadlocked(D) == D # {} /\ \A r \in D : WaitsFor(r) \cap D # {}

\* PostgreSQL aborts a member of a wait cycle.
DeadlockVictim(r) ==
    /\ r \in Running
    /\ \E D \in SUBSET Running : r \in D /\ Deadlocked(D)
    /\ Rollback(r)

-----------------------------------------------------------------------------

Start(r) ==
    \/ StartRegistration(r) \/ LoginRead(r) \/ Regenerate(r) \/ Disable(r)
    \/ \E i \in Id :
          \/ FinishRegistration(r, i) \/ Remove(r, i)
          \/ \E j \in Id : PasskeyLogin(r, i, j) \/ BackupLogin(r, i, j)

Continue(r) ==
    \/ LockUser(r) \/ Sweep(r) \/ CountRegistered(r)
    \/ ReadPasskeys(r) \/ Challenge(r) \/ Touch(r)
    \/ ReadPasskey(r) \/ UpdatePasskey(r) \/ UseCode(r) \/ CountLeft(r)
    \/ \E i \in Id : SweepRow(r, i)
    \/ Commit(r)

\* An account that uses MFA or does not, with ceremonies its owner started.
Init ==
    /\ \E K \in SUBSET Earlier, B \in {{}} \cup {{e} : e \in Earlier},
          kind \in [Earlier -> {"none", "registration", "authentication"}] :
          /\ K = {} => B = {} /\ \A e \in Earlier : kind[e] # "authentication"
          /\ mfa = (K # {})
          /\ row = [t \in Tables |-> [i \in Id |->
                       CASE t = "credential" /\ i \in K -> "present"
                         [] t = "code" /\ i \in B -> "unused"
                         [] t = "ceremony" /\ i \in Earlier -> kind[i]
                         [] OTHER -> "none"]]
          /\ allows = [i \in Id |-> IF i \in Earlier /\ kind[i] = "authentication"
                                    THEN K ELSE {}]
    /\ userlock = None
    /\ lock = [t \in Tables |-> [i \in Id |-> None]]
    /\ op = [r \in Request |-> "none"]
    /\ pc = [r \in Request |-> "idle"]
    /\ on = [r \in Request |-> None]
    /\ item = [r \in Request |-> None]
    /\ first = [r \in Request |-> FALSE]
    /\ todo = [r \in Request |-> <<>>]
    /\ rows = [r \in Request |-> {}]
    /\ mixed = FALSE

Next ==
    \/ \E r \in Request :
          Start(r) \/ Continue(r) \/ Cancel(r) \/ DeadlockVictim(r)
    \/ \E c \in Id : Expire(c)

Spec == Init /\ [][Next]_vars

-----------------------------------------------------------------------------
(* Properties *)

PC == {"idle", "user", "count", "sweep", "rows", "passkeys", "challenge", "touch",
       "read", "row", "commit", "ok", "failed"}

RowState == {"none", "present", "unused", "used", "registration", "authentication", "gone"}

\* Every variable has its type.
TypeOK ==
    /\ mfa \in BOOLEAN
    /\ row \in [Tables -> [Id -> RowState]]
    /\ \A i \in Id : /\ row["credential"][i] \in {"none", "present", "gone"}
                     /\ row["code"][i] \in {"none", "unused", "used", "gone"}
                     /\ row["ceremony"][i] \in {"none", "registration", "authentication", "gone"}
    /\ allows \in [Id -> SUBSET Id]
    /\ userlock \in Request \cup {None}
    /\ lock \in [Tables -> [Id -> Request \cup {None}]]
    /\ op \in [Request -> Operations \cup {"none"}]
    /\ pc \in [Request -> PC]
    /\ on \in [Request -> Id \cup {None}]
    /\ item \in [Request -> Id \cup {None}]
    /\ first \in [Request -> BOOLEAN]
    /\ todo \in [Request -> Seq(Tables)]
    /\ rows \in [Request -> SUBSET Id]
    /\ mixed \in BOOLEAN

\* A second factor is good for one session: however requests overlap, one
\* ceremony admits one login, by passkey or by code, and so does one code.
SecondFactorOnce ==
    \A r, q \in Request :
        /\ {op[r], op[q]} \subseteq {"passkey", "backup"}
        /\ pc[r] = "ok" /\ pc[q] = "ok"
        /\ \/ on[r] = on[q]
           \/ op[r] = "backup" /\ op[q] = "backup" /\ item[r] = item[q]
        => r = q

UnusedCodes == {b \in Id : row["code"][b] = "unused"}

\* MFA is required just when there is a passkey, and codes are one batch and
\* go with the last passkey.
Consistent ==
    /\ mfa <=> Passkeys # {}
    /\ UnusedCodes # {} => mfa
    /\ Cardinality(UnusedCodes) <= 1

\* The account's MFA stays consistent through logins and registrations that
\* overlap, and through failures at any statement, as long as no removal,
\* disabling or regeneration overlaps another change.
ConsistentUnlessMixed == ~mixed => Consistent

\* A backup code that was regenerated away or removed admits nobody: it is
\* unused up to the moment its login commits.
CodeGoodUntilCommit ==
    [][\A r \in Request :
          pc[r] # "ok" /\ pc'[r] = "ok" /\ op[r] = "backup"
          => /\ row["code"][item[r]] = "unused"
             /\ row["ceremony"][on[r]] = "authentication"]_vars

\* Lock order: a circle of waiting requests needs a removal of the last
\* passkey, or two requests that empty the same table.
LockOrder ==
    \A D \in SUBSET Running : Deadlocked(D) =>
        \/ \E r \in D : op[r] = "remove"
        \/ \E r, q \in D : r # q /\ {op[r], op[q]} \subseteq {"disable", "regenerate"}

\* docs/authentication.md: removing the last passkey always turns MFA off,
\* so login never asks for a passkey the account does not have.
RemovalTurnsOff == mfa => Passkeys # {}

\* docs/authentication.md: regeneration invalidates all earlier codes.
OneBatch == Cardinality(UnusedCodes) <= 1

-----------------------------------------------------------------------------
(* The inductive invariant behind the theorems of MfaProofs, in parts *)

\* Only open transactions hold locks, on rows that are there.
LocksOfRunning ==
    /\ userlock \in Running \cup {None}
    /\ \A t \in Tables, i \in Id :
          /\ lock[t][i] \in Running \cup {None}
          /\ lock[t][i] # None => InTable(t, i)

\* A row is named after the request that inserted it.
NameInv ==
    \A r \in Request :
        /\ row["credential"][r] # "none" \/ row["code"][r] # "none" => pc[r] = "ok"
        /\ row["ceremony"][r] # "none" =>
              op[r] \in {"start", "login"} /\ pc[r] \notin {"idle", "passkeys", "challenge"}

\* Which stages an operation has, and what it may hold.
StageInv ==
    \A r \in Request :
        /\ pc[r] = "idle" => op[r] = "none"
        /\ pc[r] \in {"sweep", "rows"} =>
              op[r] \in {"regenerate", "remove", "disable"} /\ todo[r] # <<>>
        /\ pc[r] = "user" => op[r] \in {"register", "remove", "disable"}
        /\ pc[r] = "count" => op[r] \in {"register", "remove"}
        /\ pc[r] \in {"passkeys", "challenge", "touch"} => op[r] = "login"
        /\ pc[r] = "read" => op[r] = "passkey"
        /\ pc[r] = "row" => op[r] \in {"passkey", "backup"}
        /\ pc[r] = "commit" => op[r] \in (Changes \cup {"passkey", "backup"})
        /\ userlock = r => op[r] \in {"register", "remove", "disable"}
        /\ \A t \in Tables, i \in Id : lock[t][i] = r =>
              /\ op[r] = "passkey" => t = "credential"
              /\ op[r] = "backup" => \/ t = "ceremony" /\ i = on[r]
                                     \/ t = "code" /\ i = item[r]

\* A login by passkey has deleted its ceremony; one by code holds it until it
\* commits, and the code from the statement that found it unused.
CeremonyInv ==
    \A r \in Request :
        /\ op[r] = "passkey" => on[r] \in Id /\ item[r] \in Id /\ row["ceremony"][on[r]] = "gone"
        /\ op[r] = "backup" =>
              /\ on[r] \in Id /\ item[r] \in Id
              /\ pc[r] \in {"row", "commit"} =>
                    lock["ceremony"][on[r]] = r /\ row["ceremony"][on[r]] = "authentication"
              /\ pc[r] = "commit" =>
                    lock["code"][item[r]] = r /\ row["code"][item[r]] = "unused"
              /\ pc[r] = "ok" => /\ row["ceremony"][on[r]] = "gone"
                                 /\ row["code"][item[r]] \in {"used", "gone"}

\* Requests that have not failed present different ceremonies and codes.
Presenting(r) == op[r] \in {"passkey", "backup"} /\ pc[r] # "failed"
OnceInv ==
    \A r, q \in Request : Presenting(r) /\ Presenting(q) =>
        /\ on[r] = on[q] => r = q
        /\ /\ op[r] = "backup" /\ op[q] = "backup"
           /\ pc[r] \in {"commit", "ok"} /\ pc[q] \in {"commit", "ok"}
           /\ item[r] = item[q]
           => r = q

IInv == LocksOfRunning /\ NameInv /\ StageInv /\ CeremonyInv /\ OnceInv

\* All rows of a table are locked by r, but for those it has still to visit.
Emptied(r, t, left) == \A i \in Id : InTable(t, i) => lock[t][i] = r \/ i \in left

\* How far a change is, as long as no other overlaps it: what it counted is
\* still true, and what it has swept is its own.
ProgressOf(r) ==
    CASE op[r] = "register" ->
            /\ pc[r] \in {"count", "commit"} => userlock = r
            /\ pc[r] = "commit" => (first[r] <=> Passkeys = {})
      [] op[r] = "regenerate" ->
            /\ Passkeys # {}
            /\ pc[r] \in {"sweep", "rows"} => todo[r] = <<"code">>
            /\ pc[r] = "rows" => Emptied(r, "code", rows[r])
            /\ pc[r] = "commit" => Emptied(r, "code", {})
      [] op[r] = "remove" ->
            /\ item[r] \in Id /\ lock["credential"][item[r]] = r
            /\ pc[r] \in {"sweep", "rows"} =>
                  todo[r] \in {<<"code", "ceremony">>, <<"ceremony">>}
            /\ pc[r] \in {"sweep", "rows", "user"} \/ userlock = r => Passkeys = {item[r]}
            /\ pc[r] = "rows" /\ todo[r] = <<"code", "ceremony">> => Emptied(r, "code", rows[r])
            /\ \/ pc[r] \in {"sweep", "rows"} /\ todo[r] = <<"ceremony">>
               \/ pc[r] = "user" \/ userlock = r
               => Emptied(r, "code", {})
            /\ pc[r] = "commit" /\ userlock # r => Passkeys # {item[r]}
      [] op[r] = "disable" ->
            /\ pc[r] \in {"sweep", "rows"} =>
                  todo[r] \in {<<"ceremony", "credential", "code">>,
                              <<"credential", "code">>, <<"code">>}
            /\ pc[r] = "rows" /\ todo[r] = <<"credential", "code">> =>
                  Emptied(r, "credential", rows[r])
            /\ \/ pc[r] \in {"sweep", "rows"} /\ todo[r] = <<"code">>
               \/ pc[r] \in {"user", "commit"}
               => Emptied(r, "credential", {})
            /\ pc[r] = "rows" /\ todo[r] = <<"code">> => Emptied(r, "code", rows[r])
            /\ pc[r] \in {"user", "commit"} => Emptied(r, "code", {})
            /\ pc[r] = "commit" => userlock = r
      [] OTHER -> TRUE

\* The passkeys it has locked, which are those its commit takes away.
HoldsOf(r) ==
    /\ op[r] = "remove" => \A i \in Id : lock["credential"][i] = r => i = item[r]
    /\ op[r] \in {"register", "regenerate"} => \A i \in Id : lock["credential"][i] # r

\* Only registrations overlap.
OnlyRegistrations ==
    \A r, q \in Running :
        r # q /\ {op[r], op[q]} \subseteq Changes => op[r] = "register" /\ op[q] = "register"

AloneInv ==
    ~mixed => /\ mfa <=> Passkeys # {}
              /\ UnusedCodes # {} => mfa
              /\ \A a, b \in UnusedCodes : a = b
              /\ OnlyRegistrations
              /\ \A r \in Running : ProgressOf(r) /\ HoldsOf(r)

\* What a request may hold while it waits: only those that empty tables hold
\* rows that others wait for, and disabling empties them in one order.
WaitOf(r) ==
    /\ userlock = r => /\ op[r] = "register" => pc[r] \in {"count", "commit"}
                       /\ op[r] = "disable" => pc[r] = "commit"
    /\ \A t \in Tables, i \in Id : lock[t][i] = r =>
          /\ op[r] \in {"passkey", "backup", "regenerate", "remove", "disable"}
          /\ op[r] = "passkey" => pc[r] = "commit"
          /\ op[r] = "backup" /\ t = "code" => pc[r] = "commit"
          /\ op[r] = "disable" /\ t # "ceremony" /\ pc[r] \in {"sweep", "rows"} =>
                todo[r] # <<"ceremony", "credential", "code">>
    /\ pc[r] \in {"sweep", "rows"} =>
          /\ op[r] = "regenerate" => todo[r] = <<"code">>
          /\ op[r] = "disable" =>
                todo[r] \in {<<"ceremony", "credential", "code">>,
                            <<"credential", "code">>, <<"code">>}

WaitInv == \A r \in Request : WaitOf(r)
=============================================================================

---------------------------- MODULE AccountTokens ----------------------------
(***************************************************************************)
(* The one-time links of one account: e-mail verification and password     *)
(* reset, asked for and confirmed by concurrent requests, statement by     *)
(* statement under READ COMMITTED (see Sessions for what that means).      *)
(*                                                                         *)
(* Asking locks the users row, deletes the unused tokens of its purpose    *)
(* and inserts one.  Confirming consumes a token first and then writes the *)
(* users row: the opposite order, so the two can wait for each other.      *)
(* Every asking request inserts one token, which is named after it.        *)
(***************************************************************************)
EXTENDS Naturals, FiniteSets

CONSTANTS
    Request,  \* the requests of a behaviour
    Purpose,  \* what tokens are for: a subset of Purposes
    None      \* no request

Purposes == {"verify_email", "reset_password"}

ASSUME PurposeAssumption == Purpose \subseteq Purposes
ASSUME NoneAssumption == None \notin Request

VARIABLES
    verified,   \* the committed users row has an email_verified_at
    token,      \* the committed account_tokens rows
    userlock,   \* the transaction that has locked the users row
    tokenlock,  \* for each token, the transaction that has written its row
    op, purpose, pc, target,
    rows        \* tokens the request's DELETE has still to visit

locks == <<userlock, tokenlock>>
locals == <<op, purpose, target, rows>>
vars == <<verified, token, userlock, tokenlock, op, purpose, pc, target, rows>>

-----------------------------------------------------------------------------

Unconsumed(t) == token[t] \in {"live", "expired"}
Exists(t) == Unconsumed(t) \/ token[t] = "consumed"

Running == {r \in Request : pc[r] \notin {"idle", "ok", "failed"}}

\* A mutant: SELECT ... FROM users, without FOR UPDATE.
UserRead(r) == r \in Running

UserFree(r) == userlock \in {None, r}
TokenFree(r, t) == tokenlock[t] \in {None, r}

\* A mutant: the transaction stays open, and keeps its rows.
EndButRows(r, outcome) ==
    /\ pc' = [pc EXCEPT ![r] = outcome]
    /\ rows' = [rows EXCEPT ![r] = {}]
    /\ UNCHANGED <<op, purpose, target, locks>>

End(r, outcome) ==
    /\ pc' = [pc EXCEPT ![r] = outcome]
    /\ rows' = [rows EXCEPT ![r] = {}]
    /\ userlock' = IF userlock = r THEN None ELSE userlock
    /\ tokenlock' = [t \in Request |-> IF tokenlock[t] = r THEN None
                                                           ELSE tokenlock[t]]
    /\ UNCHANGED <<op, purpose, target>>

Rollback(r) == End(r, "failed") /\ UNCHANGED <<verified, token>>

\* The token it confirmed is consumed, the ones it deleted are gone, the one
\* it inserted is there.
Commit(r) ==
    /\ pc[r] = "commit"
    /\ token' = [t \in Request |->
                   IF t = r /\ op[r] = "ask" THEN "live"
                   ELSE IF tokenlock[t] # r THEN token[t]
                   ELSE IF op[r] = "confirm" /\ t = target[r] THEN "consumed"
                   ELSE "deleted"]
    /\ verified' = (verified \/ (op[r] = "confirm" /\ purpose[r] = "verify_email"))
    /\ End(r, "ok")

Begin(r, o, k, t, next) ==
    /\ pc[r] = "idle"
    /\ op' = [op EXCEPT ![r] = o]
    /\ purpose' = [purpose EXCEPT ![r] = k]
    /\ target' = [target EXCEPT ![r] = t]
    /\ pc' = [pc EXCEPT ![r] = next]

-----------------------------------------------------------------------------
(* Statements *)

\* request_email_verification and request_password_reset.  A verified address
\* is not verified again.
Ask(r, k) ==
    /\ k = "verify_email" => ~verified
    /\ Begin(r, "ask", k, None, "user")
    /\ UNCHANGED <<verified, token, locks, rows>>

\* validate_token, outside any transaction.
Validate(r, t) ==
    /\ token[t] = "live"
    /\ Begin(r, "confirm", purpose[t], t, "consume")
    /\ UNCHANGED <<verified, token, locks, rows>>

\* A mutant: UPDATE account_tokens without consumed_at IS NULL.
ConsumeAgain(r) ==
    /\ pc[r] = "consume"
    /\ TokenFree(r, target[r])
    /\ \/ /\ token[target[r]] \in {"live", "consumed"}
          /\ tokenlock' = [tokenlock EXCEPT ![target[r]] = r]
          /\ pc' = [pc EXCEPT ![r] = "user"]
          /\ UNCHANGED <<verified, token, userlock, locals>>
       \/ token[target[r]] \notin {"live", "consumed"} /\ Rollback(r)

\* UPDATE account_tokens ... WHERE consumed_at IS NULL AND expires_at > now().
Consume(r) ==
    /\ pc[r] = "consume"
    /\ TokenFree(r, target[r])
    /\ \/ /\ token[target[r]] = "live"
          /\ tokenlock' = [tokenlock EXCEPT ![target[r]] = r]
          /\ pc' = [pc EXCEPT ![r] = "user"]
          /\ UNCHANGED <<verified, token, userlock, locals>>
       \/ token[target[r]] # "live" /\ Rollback(r)

\* SELECT ... FROM users FOR UPDATE, or the UPDATE users of a confirmation.
LockUser(r) ==
    /\ pc[r] = "user"
    /\ UserFree(r)
    /\ userlock' = r
    /\ pc' = [pc EXCEPT ![r] = IF op[r] = "confirm" /\ purpose[r] = "verify_email"
                               THEN "commit" ELSE "sweep"]
    /\ UNCHANGED <<verified, token, tokenlock, locals>>

\* A mutant: one more stage, which no statement leaves.
AfterRowsAudit(left) == IF left = {} THEN "audit" ELSE "rows"

AfterRows(left) == IF left = {} THEN "commit" ELSE "rows"

\* A mutant: DELETE without its purpose.
DoomedOfAny(r, t) ==
    IF op[r] = "ask" THEN Unconsumed(t) ELSE Exists(t) /\ t # target[r]

\* A mutant: a reset leaves the other links alone.
DoomedByAsk(r, t) ==
    /\ purpose[t] = purpose[r]
    /\ op[r] = "ask" /\ Unconsumed(t)

\* Which rows of its purpose a request deletes: asking, those not consumed;
\* a reset, all but its own.
Doomed(r, t) ==
    /\ purpose[t] = purpose[r]
    /\ IF op[r] = "ask" THEN Unconsumed(t) ELSE Exists(t) /\ t # target[r]

\* DELETE FROM account_tokens: its snapshot ...
Sweep(r) ==
    /\ pc[r] = "sweep"
    /\ LET found == {t \in Request : Doomed(r, t)}
       IN /\ rows' = [rows EXCEPT ![r] = found]
          /\ pc' = [pc EXCEPT ![r] = AfterRows(found)]
    /\ UNCHANGED <<verified, token, locks, op, purpose, target>>

\* ... and each row of it, looked at again when nobody else has it.
SweepRow(r, t) ==
    /\ pc[r] = "rows"
    /\ t \in rows[r]
    /\ TokenFree(r, t)
    /\ tokenlock' = IF Doomed(r, t) THEN [tokenlock EXCEPT ![t] = r] ELSE tokenlock
    /\ rows' = [rows EXCEPT ![r] = @ \ {t}]
    /\ pc' = [pc EXCEPT ![r] = AfterRows(rows[r] \ {t})]
    /\ UNCHANGED <<verified, token, userlock, op, purpose, target>>

-----------------------------------------------------------------------------
(* The environment *)

Expire(t) ==
    /\ token[t] = "live"
    /\ token' = [token EXCEPT ![t] = "expired"]
    /\ UNCHANGED <<verified, locks, locals, pc>>

\* The maintenance pass and cleanup_expired_tokens, on rows nobody has locked.
Prune(t) ==
    /\ token[t] \in {"expired", "consumed"}
    /\ tokenlock[t] = None
    /\ token' = [token EXCEPT ![t] = "deleted"]
    /\ UNCHANGED <<verified, locks, locals, pc>>

\* A timeout, a failed statement or a stop of the process.
Cancel(r) == r \in Running /\ Rollback(r)

WaitsFor(r) ==
    CASE pc[r] = "user" -> {userlock} \ {r, None}
      [] pc[r] = "consume" -> {tokenlock[target[r]]} \ {r, None}
      [] pc[r] = "rows" -> IF \E t \in rows[r] : TokenFree(r, t)
                           THEN {} ELSE {tokenlock[t] : t \in rows[r]}
      [] OTHER -> {}

Deadlocked(D) == D # {} /\ \A r \in D : WaitsFor(r) \cap D # {}

\* PostgreSQL aborts a member of a wait cycle.
DeadlockVictim(r) ==
    /\ r \in Running
    /\ \E D \in SUBSET Running : r \in D /\ Deadlocked(D)
    /\ Rollback(r)

-----------------------------------------------------------------------------

Start(r) ==
    \/ \E k \in Purpose : Ask(r, k)
    \/ \E t \in Request : Validate(r, t)

Continue(r) ==
    \/ Consume(r) \/ LockUser(r) \/ Sweep(r)
    \/ \E t \in Request : SweepRow(r, t)
    \/ Commit(r)

Init ==
    /\ verified = FALSE
    /\ token = [t \in Request |-> "none"]
    /\ userlock = None
    /\ tokenlock = [t \in Request |-> None]
    /\ op = [r \in Request |-> "none"]
    /\ purpose = [r \in Request |-> "none"]
    /\ pc = [r \in Request |-> "idle"]
    /\ target = [r \in Request |-> None]
    /\ rows = [r \in Request |-> {}]

Next ==
    \/ \E r \in Request :
          Start(r) \/ Continue(r) \/ Cancel(r) \/ DeadlockVictim(r)
    \/ \E t \in Request : Expire(t) \/ Prune(t)

Spec == Init /\ [][Next]_vars

\* As in Sessions: statements that can run do, and wait cycles are broken.
Fairness == \A r \in Request : WF_vars(Continue(r)) /\ WF_vars(DeadlockVictim(r))
FairSpec == Spec /\ Fairness

-----------------------------------------------------------------------------
(* Properties *)

PC == {"idle", "user", "consume", "sweep", "rows", "commit", "ok", "failed"}

\* Every variable has its type.
TypeOK ==
    /\ verified \in BOOLEAN
    /\ token \in [Request -> {"none", "live", "expired", "consumed", "deleted"}]
    /\ userlock \in Request \cup {None}
    /\ tokenlock \in [Request -> Request \cup {None}]
    /\ op \in [Request -> {"none", "ask", "confirm"}]
    /\ purpose \in [Request -> Purposes \cup {"none"}]
    /\ pc \in [Request -> PC]
    /\ target \in [Request -> Request \cup {None}]
    /\ rows \in [Request -> SUBSET Request]

\* However many links are asked for at once, at most one unused one of each
\* purpose exists: a new link takes the place of the old one.
OneLink ==
    \A s, t \in Request :
        Unconsumed(s) /\ Unconsumed(t) /\ purpose[s] = purpose[t] => s = t

\* A link works once, however many requests present it at the same time.
UsedOnce ==
    \A r, q \in Request :
        /\ op[r] = "confirm" /\ op[q] = "confirm"
        /\ pc[r] = "ok" /\ pc[q] = "ok"
        /\ target[r] = target[q]
        => r = q

\* A password reset leaves no other reset link behind, used or unused, not
\* even one a concurrent request was asking for.
ResetClosesLinks ==
    [][\A r \in Request :
          /\ pc[r] # "ok" /\ pc'[r] = "ok"
          /\ op[r] = "confirm" /\ purpose[r] = "reset_password"
          => \A t \in Request :
                Exists(t)' /\ purpose[t] = "reset_password" => t = target[r]]_vars

\* Requests wait for each other in a circle only when one asks for the link
\* that the other confirms: asking locks the account first, confirming last.
DeadlockNeedsBoth ==
    \A D \in SUBSET Running : Deadlocked(D) =>
        \E a, c \in D : /\ op[a] = "ask" /\ op[c] = "confirm"
                        /\ purpose[a] = purpose[c]
                        /\ target[c] \in rows[a]

\* The inductive invariant behind the theorems of AccountTokensProofs, in parts.

\* Locks belong to open transactions; past its users statement a request has
\* the users row.
LocksOfRunning ==
    /\ userlock \in Running \cup {None}
    /\ \A t \in Request : tokenlock[t] \in Running \cup {None}
    /\ \A r \in Request : pc[r] \in {"sweep", "rows", "commit"} => userlock = r

\* A token is named after the request that committed it; a locked row exists.
TokenInv ==
    /\ \A t \in Request : token[t] # "none" => pc[t] = "ok" /\ op[t] = "ask"
    /\ \A t \in Request : tokenlock[t] # None => Exists(t)
    /\ \A r \in Request : pc[r] # "idle" => op[r] \in {"ask", "confirm"}

\* From its consumption to its end a confirmation holds its token, unused;
\* once it is answered the token is used.
ConfirmInv ==
    \A r \in Request : op[r] = "confirm" =>
        /\ pc[r] # "idle" /\ target[r] \in Request
        /\ pc[r] \in {"user", "sweep", "rows", "commit"} =>
              tokenlock[target[r]] = r /\ Unconsumed(target[r])
        /\ pc[r] = "ok" => token[target[r]] \in {"consumed", "deleted"}

\* A DELETE misses no row: while the users row is its request's, each one is
\* locked by it or still to be visited.
SweepInv ==
    \A r, t \in Request :
        /\ Doomed(r, t)
        /\ \/ pc[r] = "rows"
           \/ pc[r] = "commit" /\ ~(op[r] = "confirm" /\ purpose[r] = "verify_email")
        => tokenlock[t] = r \/ (pc[r] = "rows" /\ t \in rows[r])

IInv == LocksOfRunning /\ TokenInv /\ ConfirmInv /\ SweepInv /\ OneLink

\* Every request that was started is answered.
EveryRequestAnswered ==
    \A r \in Request : pc[r] # "idle" ~> pc[r] \in {"ok", "failed"}
=============================================================================

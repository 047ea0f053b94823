---------------------------- MODULE SessionLedger ----------------------------
(***************************************************************************)
(* What the session endpoints promise together, with every request that    *)
(* succeeds as one indivisible step: a session is opened by a login, or    *)
(* replaces exactly one session that ends in the same step; ending it is   *)
(* final; a credential change ends sessions and starts a version; closing  *)
(* the account leaves no session.  Sessions implements this.               *)
(***************************************************************************)
EXTENDS Naturals

CONSTANTS Session, None

VARIABLES
    account,  \* "absent", "present" or "deleted"
    version,  \* the account's credential version
    state,    \* of each session
    issued,   \* the credential version each session was issued under
    parent    \* the session each one replaced when it was refreshed

vars == <<account, version, state, issued, parent>>

Open(S) == {s \in S : state[s] \in {"live", "expired"}}

\* The ledger after the sessions in S have ended and s, of version v, began.
Entry(S, s, v) ==
    /\ state' = [x \in Session |-> IF x = s THEN "live"
                                   ELSE IF x \in S THEN "revoked"
                                   ELSE state[x]]
    /\ issued' = [issued EXCEPT ![s] = v]

SignUp(s) ==
    /\ account = "absent"
    /\ account' = "present"
    /\ version' = 1
    /\ Entry({}, s, 1)
    /\ UNCHANGED parent

\* The version is the one the request read, which may be an old one.
SignIn(s, v) ==
    /\ account = "present"
    /\ state[s] = "none"
    /\ v <= version
    /\ Entry({}, s, v)
    /\ UNCHANGED <<account, version, parent>>

Rotate(p, s, v) ==
    /\ account = "present"
    /\ p \in Open(Session) /\ state[s] = "none"
    /\ v <= version
    /\ Entry({p}, s, v)
    /\ parent' = [parent EXCEPT ![s] = p]
    /\ UNCHANGED <<account, version>>

EndSessions(S) ==
    /\ S \subseteq Open(Session)
    /\ state' = [x \in Session |-> IF x \in S THEN "revoked" ELSE state[x]]
    /\ UNCHANGED <<account, version, issued, parent>>

ChangePassword(S, s) ==
    /\ account = "present"
    /\ S \subseteq Open(Session) /\ state[s] = "none"
    /\ version' = version + 1
    /\ Entry(S, s, version + 1)
    /\ UNCHANGED <<account, parent>>

ResetPassword(S) ==
    /\ account = "present"
    /\ S \subseteq Open(Session)
    /\ version' = version + 1
    /\ state' = [x \in Session |-> IF x \in S THEN "revoked" ELSE state[x]]
    /\ UNCHANGED <<account, issued, parent>>

Close ==
    /\ account = "present"
    /\ account' = "deleted"
    /\ version' = 0
    /\ state' = [x \in Session |-> "none"]
    /\ issued' = [x \in Session |-> 0]
    /\ UNCHANGED parent

Expire(s) ==
    /\ state[s] = "live"
    /\ state' = [state EXCEPT ![s] = "expired"]
    /\ UNCHANGED <<account, version, issued, parent>>

Init ==
    /\ account = "absent"
    /\ version = 0
    /\ state = [x \in Session |-> "none"]
    /\ issued = [x \in Session |-> 0]
    /\ parent = [x \in Session |-> None]

Next ==
    \/ \E s \in Session :
          \/ SignUp(s) \/ Expire(s)
          \/ \E v \in 0 .. version :
                \/ SignIn(s, v)
                \/ \E p \in Session : Rotate(p, s, v)
    \/ \E S \in SUBSET Session :
          \/ EndSessions(S) \/ ResetPassword(S)
          \/ \E s \in Session : ChangePassword(S, s)
    \/ Close

Spec == Init /\ [][Next]_vars
=============================================================================

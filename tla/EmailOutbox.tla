----------------------------- MODULE EmailOutbox -----------------------------
(***************************************************************************)
(* The delivery of account links: the rows of email_outbox, the dispatcher *)
(* tasks that claim, send and settle them (one per backend process), and   *)
(* the mail server.  A claim, a settlement and a recovery are one          *)
(* statement each, outside any transaction; between them the dispatcher    *)
(* talks to the mail server and the process may stop.                      *)
(*                                                                         *)
(* Time is abstracted: a retry's delay, the 15 minutes after which a claim *)
(* is stale and the expiry of a token simply pass at some point.  That a   *)
(* claim turns stale while its dispatcher is still at work is a fault, as  *)
(* the SMTP timeout is 10 seconds: the process was suspended, say, or its  *)
(* statement kept waiting.  Then two dispatchers work on one message.      *)
(***************************************************************************)
EXTENDS Naturals, FiniteSets

CONSTANTS
    Message,     \* outbox rows, each with the token it refers to
    Slot,        \* the (account, purpose) pairs links are asked for
    Dispatcher,  \* one per backend process
    MaxAttempts, \* MAX_DELIVERY_ATTEMPTS: 8 in the code
    MaxFaults,   \* bound on stops, failed settlements and stalls in a behaviour
    None         \* no slot yet, nothing claimed

ASSUME DispatcherAssumption == IsFiniteSet(Dispatcher)
ASSUME MaxAttemptsAssumption == MaxAttempts \in Nat \ {0}
ASSUME MaxFaultsAssumption == MaxFaults \in Nat
ASSUME NoneAssumption == None \notin Slot \cup Message

VARIABLES
    slot,      \* what each message's link is for
    status,    \* of each row; "none" before it is queued, "gone" once deleted
    attempts,  \* claims of each row so far
    due,       \* available_at has come
    stale,     \* claimed_at is more than 15 minutes ago
    token,     \* "live", "expired" or "consumed": the row's account token
    accepted,  \* how often the mail server accepted the message
    pc,        \* what each dispatcher does
    item,      \* the row its last claim returned: message, attempts, token
    faults,    \* stops, failed settlements and stalls so far
    stalls     \* history: claims of each row that turned stale in hand

rowvars == <<slot, status, attempts, due, stale, token>>
vars == <<slot, status, attempts, due, stale, token, accepted, pc, item, faults, stalls>>

NoItem == [msg |-> None, attempts |-> 0, token |-> "none"]

InTable(m) == status[m] \notin {"none", "gone"}

-----------------------------------------------------------------------------
(* The requests *)

\* queue_token: the unused token of the same slot goes, and its outbox row
\* with it, whatever a dispatcher is doing with that row.
Queue(m, s) ==
    /\ status[m] = "none"
    /\ slot' = [slot EXCEPT ![m] = s]
    /\ status' = [n \in Message |->
                    IF n = m THEN "queued"
                    ELSE IF InTable(n) /\ slot[n] = s /\ token[n] # "consumed"
                         THEN "gone"
                    ELSE status[n]]
    /\ token' = [token EXCEPT ![m] = "live"]
    /\ due' = [due EXCEPT ![m] = TRUE]
    /\ UNCHANGED <<attempts, stale, accepted, pc, item, faults, stalls>>

\* The account's owner follows a link that reached the mailbox.
Consume(m) ==
    /\ InTable(m) /\ token[m] = "live" /\ accepted[m] > 0
    /\ token' = [token EXCEPT ![m] = "consumed"]
    /\ UNCHANGED <<slot, status, attempts, due, stale, accepted, pc, item, faults, stalls>>

-----------------------------------------------------------------------------
(* The dispatcher *)

\* A mutant: at its start a process takes back every claim, old or not.
RecoverAll(w) ==
    /\ pc[w] = "down"
    /\ LET back == {m \in Message : status[m] = "processing"}
       IN /\ status' = [m \in Message |-> IF m \in back THEN "queued" ELSE status[m]]
          /\ due' = [m \in Message |-> due[m] \/ m \in back]
          /\ stale' = [m \in Message |-> stale[m] /\ m \notin back]
    /\ pc' = [pc EXCEPT ![w] = "poll"]
    /\ UNCHANGED <<slot, attempts, token, accepted, item, faults, stalls>>

\* recover_stale_claims: once, when the process starts.
Recover(w) ==
    /\ pc[w] = "down"
    /\ LET back == {m \in Message : status[m] = "processing" /\ stale[m]}
       IN /\ status' = [m \in Message |-> IF m \in back THEN "queued" ELSE status[m]]
          /\ due' = [m \in Message |-> due[m] \/ m \in back]
          /\ stale' = [m \in Message |-> stale[m] /\ m \notin back]
    /\ pc' = [pc EXCEPT ![w] = "poll"]
    /\ UNCHANGED <<slot, attempts, token, accepted, item, faults, stalls>>

\* A mutant: WHERE attempts < 8 in the claim too, one short.
ClaimBelowLimit(w, m) ==
    /\ pc[w] = "poll"
    /\ status[m] = "queued" /\ due[m] /\ attempts[m] + 1 < MaxAttempts
    /\ status' = [status EXCEPT ![m] = "processing"]
    /\ attempts' = [attempts EXCEPT ![m] = @ + 1]
    /\ item' = [item EXCEPT ![w] = [msg |-> m, attempts |-> attempts[m] + 1,
                                    token |-> token[m]]]
    /\ pc' = [pc EXCEPT ![w] = "deliver"]
    /\ UNCHANGED <<slot, due, stale, token, accepted, faults, stalls>>

\* dispatch_one: SELECT ... FOR UPDATE SKIP LOCKED and UPDATE, one statement.
\* Which due row comes first is left open.
Claim(w, m) ==
    /\ pc[w] = "poll"
    /\ status[m] = "queued" /\ due[m]
    /\ status' = [status EXCEPT ![m] = "processing"]
    /\ attempts' = [attempts EXCEPT ![m] = @ + 1]
    /\ item' = [item EXCEPT ![w] = [msg |-> m, attempts |-> attempts[m] + 1,
                                    token |-> token[m]]]
    /\ pc' = [pc EXCEPT ![w] = "deliver"]
    /\ UNCHANGED <<slot, due, stale, token, accepted, faults, stalls>>

\* deliver judges the token as the claim returned it: an expiry since then
\* shows, a consumption or a withdrawal does not.
Deliverable(w) == item[w].token = "live" /\ token[item[w].msg] # "expired"

Hand(w) == accepted' = [accepted EXCEPT ![item[w].msg] = @ + 1]

Deliver(w) ==
    /\ pc[w] = "deliver"
    /\ Deliverable(w)
    /\ Hand(w)
    /\ pc' = [pc EXCEPT ![w] = "delivered"]
    /\ UNCHANGED <<rowvars, item, faults, stalls>>

\* The mail server takes the message, but its answer is lost or too late.
DeliverUnheard(w) ==
    /\ pc[w] = "deliver"
    /\ Deliverable(w)
    /\ faults < MaxFaults
    /\ faults' = faults + 1
    /\ Hand(w)
    /\ pc' = [pc EXCEPT ![w] = "undelivered"]
    /\ UNCHANGED <<rowvars, item, stalls>>

\* The link is dead already, or the mail server does not take the message.
FailDelivery(w) ==
    /\ pc[w] = "deliver"
    /\ pc' = [pc EXCEPT ![w] = "undelivered"]
    /\ UNCHANGED <<rowvars, accepted, item, faults, stalls>>

\* A mutant: WHERE id alone, whatever became of the row meanwhile.
SettleById(w, outcome) ==
    LET m == item[w].msg
    IN /\ status' = [status EXCEPT ![m] = IF InTable(m) THEN outcome ELSE @]
       /\ due' = [due EXCEPT ![m] = IF InTable(m) THEN FALSE ELSE @]
       /\ stale' = [stale EXCEPT ![m] = IF InTable(m) THEN FALSE ELSE @]
       /\ pc' = [pc EXCEPT ![w] = "poll"]
       /\ item' = [item EXCEPT ![w] = NoItem]
       /\ UNCHANGED <<slot, attempts, token, accepted, faults, stalls>>

\* Settle the row, WHERE id AND status = 'processing': the claim that is open
\* by then may be another dispatcher's.
Settle(w, outcome) ==
    LET m == item[w].msg
        open == status[m] = "processing"
    IN /\ status' = [status EXCEPT ![m] = IF open THEN outcome ELSE @]
       /\ due' = [due EXCEPT ![m] = IF open THEN FALSE ELSE @]
       /\ stale' = [stale EXCEPT ![m] = IF open THEN FALSE ELSE @]
       /\ pc' = [pc EXCEPT ![w] = "poll"]
       /\ item' = [item EXCEPT ![w] = NoItem]
       /\ UNCHANGED <<slot, attempts, token, accepted, faults, stalls>>

\* A mutant: a message that was sent is queued again.
MarkSentAgain(w) == pc[w] = "delivered" /\ Settle(w, "queued")

MarkSent(w) == pc[w] = "delivered" /\ Settle(w, "sent")

\* A mutant: the limit is compared the other way round.
MarkFailedEarly(w) ==
    /\ pc[w] = "undelivered"
    /\ Settle(w, IF item[w].attempts <= MaxAttempts THEN "dead" ELSE "queued")

\* A mutant: a message is given up once it went past the limit.
MarkFailedLate(w) ==
    /\ pc[w] = "undelivered"
    /\ Settle(w, IF item[w].attempts > MaxAttempts THEN "dead" ELSE "queued")

\* Another attempt after (1 << attempts) * 5 seconds, or none.
MarkFailed(w) ==
    /\ pc[w] = "undelivered"
    /\ Settle(w, IF item[w].attempts >= MaxAttempts THEN "dead" ELSE "queued")

\* A mutant: the loop goes on with the row it could not settle in hand.
LoseRowHolding(w) ==
    /\ pc[w] \in {"deliver", "delivered", "undelivered"}
    /\ faults < MaxFaults
    /\ faults' = faults + 1
    /\ pc' = [pc EXCEPT ![w] = "poll"]
    /\ UNCHANGED <<rowvars, accepted, item, stalls>>

\* The claim's answer is lost, or the settling statement fails: the loop goes
\* on, the row stays claimed.
LoseRow(w) ==
    /\ pc[w] \in {"deliver", "delivered", "undelivered"}
    /\ faults < MaxFaults
    /\ faults' = faults + 1
    /\ pc' = [pc EXCEPT ![w] = "poll"]
    /\ item' = [item EXCEPT ![w] = NoItem]
    /\ UNCHANGED <<rowvars, accepted, stalls>>

\* The process stops, or shuts down and aborts the task.
Stop(w) ==
    /\ pc[w] # "down"
    /\ faults < MaxFaults
    /\ faults' = faults + 1
    /\ pc' = [pc EXCEPT ![w] = "down"]
    /\ item' = [item EXCEPT ![w] = NoItem]
    /\ UNCHANGED <<rowvars, accepted, stalls>>

-----------------------------------------------------------------------------
(* Time and clean-up *)

Holders(m) == {w \in Dispatcher : item[w].msg = m}

\* The dispatcher of the row's last claim is still at work on it.
Attended(m) == \E w \in Holders(m) : item[w].attempts = attempts[m]

BecomeDue(m) ==
    /\ status[m] = "queued" /\ ~due[m]
    /\ due' = [due EXCEPT ![m] = TRUE]
    /\ UNCHANGED <<slot, status, attempts, stale, token, accepted, pc, item, faults, stalls>>

BecomeStale(m) ==
    /\ status[m] = "processing" /\ ~stale[m] /\ ~Attended(m)
    /\ stale' = [stale EXCEPT ![m] = TRUE]
    /\ UNCHANGED <<slot, status, attempts, due, token, accepted, pc, item, faults, stalls>>

\* The 15 minutes pass over a dispatcher that is still at work.
Stall(m) ==
    /\ status[m] = "processing" /\ ~stale[m] /\ Attended(m)
    /\ faults < MaxFaults
    /\ faults' = faults + 1
    /\ stalls' = [stalls EXCEPT ![m] = @ + 1]
    /\ stale' = [stale EXCEPT ![m] = TRUE]
    /\ UNCHANGED <<slot, status, attempts, due, token, accepted, pc, item>>

ExpireToken(m) ==
    /\ InTable(m) /\ token[m] = "live"
    /\ token' = [token EXCEPT ![m] = "expired"]
    /\ UNCHANGED <<slot, status, attempts, due, stale, accepted, pc, item, faults, stalls>>

\* cleanup_expired_tokens and the maintenance pass, days later.
Purge(m) ==
    /\ InTable(m) /\ token[m] # "live"
    /\ status' = [status EXCEPT ![m] = "gone"]
    /\ UNCHANGED <<slot, attempts, due, stale, token, accepted, pc, item, faults, stalls>>

\* delete_account: the cascade takes the account's tokens, and with them their
\* outbox rows, the one a dispatcher has in hand included.
Forget(s) ==
    /\ \E m \in Message : InTable(m) /\ slot[m] = s
    /\ status' = [m \in Message |-> IF InTable(m) /\ slot[m] = s THEN "gone"
                                                               ELSE status[m]]
    /\ UNCHANGED <<slot, attempts, due, stale, token, accepted, pc, item, faults, stalls>>

-----------------------------------------------------------------------------

Dispatch(w) ==
    \/ Recover(w) \/ Deliver(w) \/ DeliverUnheard(w) \/ FailDelivery(w)
    \/ MarkSent(w) \/ MarkFailed(w)
    \/ \E m \in Message : Claim(w, m)

Init ==
    /\ slot = [m \in Message |-> None]
    /\ status = [m \in Message |-> "none"]
    /\ attempts = [m \in Message |-> 0]
    /\ due = [m \in Message |-> FALSE]
    /\ stale = [m \in Message |-> FALSE]
    /\ token = [m \in Message |-> "none"]
    /\ accepted = [m \in Message |-> 0]
    /\ pc = [w \in Dispatcher |-> "down"]
    /\ item = [w \in Dispatcher |-> NoItem]
    /\ faults = 0
    /\ stalls = [m \in Message |-> 0]

Next ==
    \/ \E w \in Dispatcher : Dispatch(w) \/ LoseRow(w) \/ Stop(w)
    \/ \E m \in Message :
          \/ \E s \in Slot : Queue(m, s)
          \/ Consume(m) \/ BecomeDue(m) \/ BecomeStale(m) \/ Stall(m)
          \/ ExpireToken(m) \/ Purge(m)
    \/ \E s \in Slot : Forget(s)

Spec == Init /\ [][Next]_vars

\* A process that stopped is started again (restart: unless-stopped), its
\* task never ends by itself, and delays pass.  Nothing is assumed of the
\* requests, of the mail server's answers or of clean-up.
Fairness ==
    /\ \A w \in Dispatcher : WF_vars(Dispatch(w))
    /\ \A m \in Message : WF_vars(BecomeDue(m))
FairSpec == Spec /\ Fairness

-----------------------------------------------------------------------------
(* Properties *)

\* Every variable has its type; a dispatcher has a row in hand exactly while
\* it delivers or settles it.
TypeOK ==
    /\ slot \in [Message -> Slot \cup {None}]
    /\ status \in [Message -> {"none", "queued", "processing", "sent", "dead", "gone"}]
    /\ attempts \in [Message -> Nat]
    /\ due \in [Message -> BOOLEAN]
    /\ stale \in [Message -> BOOLEAN]
    /\ token \in [Message -> {"none", "live", "expired", "consumed"}]
    /\ accepted \in [Message -> Nat]
    /\ pc \in [Dispatcher -> {"down", "poll", "deliver", "delivered", "undelivered"}]
    /\ item \in [Dispatcher -> [msg : Message \cup {None}, attempts : Nat,
                                token : {"none", "live", "expired", "consumed"}]]
    /\ faults \in 0 .. MaxFaults
    /\ stalls \in [Message -> Nat]
    /\ \A w \in Dispatcher :
          item[w].msg \in Message <=> pc[w] \in {"deliver", "delivered", "undelivered"}

\* The row of a claim whose dispatcher is gone, or could not settle it.
Stranded(m) == status[m] = "processing" /\ ~Attended(m)

\* Each dispatcher that works on a message besides the first is owed to a stall
\* over that message; without one, stops, recoveries and the start of another
\* process leave it in one hand.  The claims a late settlement wrongly ends are
\* included.
OneDispatcher == \A m \in Message : Cardinality(Holders(m)) <= 1 + stalls[m]

\* The owner receives a message again only for a fault: a stop or a failed
\* settlement between acceptance and settlement, an answer that was lost, or a
\* stall.
DuplicatesNeedFaults == \A m \in Message : accepted[m] <= 1 + faults

\* Retries are bounded: what goes past the limit was paid for by a fault.
AttemptsNeedFaults == \A m \in Message : attempts[m] <= MaxAttempts + faults

\* A settled row tells the truth: the mail server took a sent message, and a
\* dead one had all its attempts.
SettledTruly ==
    \A m \in Message :
        /\ status[m] = "sent" => accepted[m] > 0
        /\ status[m] = "dead" => attempts[m] >= MaxAttempts

\* A settled row is never taken up again, whatever outcome a dispatcher brings
\* whose claim was recovered while it stalled.
SettledStays ==
    [][\A m \in Message :
          status[m] \in {"sent", "dead"} => status'[m] \in {status[m], "gone"}]_vars

\* The inductive invariant behind the theorems of EmailOutboxProofs, in parts.

\* A row in hand was claimed, and each hand has a claim of its own; only a
\* claim turns stale; what was never queued has no history.
HandInv ==
    /\ \A w \in Dispatcher : \A m \in Message :
          item[w].msg = m => status[m] # "none" /\ item[w].attempts <= attempts[m]
    /\ \A v, w \in Dispatcher :
          /\ v # w /\ item[v].msg = item[w].msg /\ item[v].msg # None
          => item[v].attempts # item[w].attempts
    /\ \A m \in Message : status[m] \in {"none", "queued"} => ~stale[m]
    /\ \A m \in Message : status[m] = "none" => attempts[m] = 0 /\ accepted[m] = 0
    /\ \A m \in Message : stalls[m] <= faults

\* A row that is claimed again as things stand, counted as 0 or 1.
Open(m) ==
    \/ status[m] = "queued"
    \/ status[m] = "processing" /\ (stale[m] \/ ~Attended(m))
Again(m) == IF Open(m) THEN 1 ELSE 0

\* The hands that may still let the mail server have the message, or have
\* failed to, and those whose failure would queue it again.
Unsent(m) == {w \in Holders(m) : pc[w] # "delivered"}
Early(m) == {w \in Holders(m) : item[w].attempts < MaxAttempts}

\* A hand gives its claim back, or it is taken back from it by a stall.
HoldersInv == \A m \in Message : Cardinality(Holders(m)) + Again(m) <= 1 + stalls[m]

\* From the last attempt but one on, each hand and each row that will lead to a
\* further attempt has an attempt left, or a fault paid for it.
AttemptsInv ==
    \A m \in Message :
        attempts[m] >= MaxAttempts - 1 =>
            attempts[m] + Again(m) + Cardinality(Early(m)) <= MaxAttempts + faults

\* So it is with the copies of a message.
AcceptedInv ==
    \A m \in Message :
        /\ accepted[m] + Again(m) + Cardinality(Unsent(m)) <= 1 + faults
        /\ \A w \in Holders(m) : pc[w] = "delivered" => accepted[m] > 0

IInv == HandInv /\ HoldersInv /\ AttemptsInv /\ AcceptedInv /\ SettledTruly

\* Every queued message ends up sent, dead or withdrawn, unless a fault
\* strands it, in which case it waits for the next start of a process.
EveryMessageSettles ==
    \A m \in Message :
        status[m] = "queued" ~> status[m] \in {"sent", "dead", "gone"} \/ Stranded(m)
=============================================================================

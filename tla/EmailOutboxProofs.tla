-------------------------- MODULE EmailOutboxProofs --------------------------
(***************************************************************************)
(* Proofs about EmailOutbox, for any number of messages, dispatchers and   *)
(* faults and any attempt limit: IInv is inductive, so a message is in one *)
(* hand and one more per stall, each retry past the limit and each         *)
(* duplicate was paid for by a fault, settled rows tell the truth, and     *)
(* they stay settled.                                                      *)
(***************************************************************************)
EXTENDS EmailOutbox, FiniteSetTheorems, TLAPS

(* Type correctness: every variable of EmailOutbox keeps its type, and a   *)
(* dispatcher has a row in hand exactly while it delivers or settles it.   *)
THEOREM TypeCorrect == Spec => []TypeOK
<1>1. Init => TypeOK
  BY NoneAssumption, MaxFaultsAssumption DEF Init, TypeOK, NoItem
<1>2. TypeOK /\ [Next]_vars => TypeOK'
  <2> SUFFICES ASSUME TypeOK PROVE [Next]_vars => TypeOK'
    OBVIOUS
  <2> USE NoneAssumption, MaxFaultsAssumption DEF TypeOK, NoItem, rowvars
  <2>1. ASSUME NEW m \in Message, NEW s \in Slot, Queue(m, s) PROVE TypeOK'
    BY <2>1 DEF Queue
  <2>2. ASSUME NEW m \in Message, Consume(m) PROVE TypeOK'
    BY <2>2 DEF Consume
  <2>3. ASSUME NEW w \in Dispatcher, Recover(w) PROVE TypeOK'
    BY <2>3 DEF Recover
  <2>4. ASSUME NEW w \in Dispatcher, NEW m \in Message, Claim(w, m) PROVE TypeOK'
    BY <2>4 DEF Claim
  <2>5. ASSUME NEW w \in Dispatcher, Deliver(w) PROVE TypeOK'
    BY <2>5 DEF Deliver, Hand
  <2>6. ASSUME NEW w \in Dispatcher, DeliverUnheard(w) PROVE TypeOK'
    BY <2>6 DEF DeliverUnheard, Hand
  <2>7. ASSUME NEW w \in Dispatcher, FailDelivery(w) PROVE TypeOK'
    BY <2>7 DEF FailDelivery
  <2>8. ASSUME NEW w \in Dispatcher, NEW o \in {"sent", "dead", "queued"}, Settle(w, o)
        PROVE  TypeOK'
    BY <2>8 DEF Settle
  <2>9. ASSUME NEW w \in Dispatcher, MarkSent(w) \/ MarkFailed(w) PROVE TypeOK'
    BY <2>8, <2>9 DEF MarkSent, MarkFailed
  <2>10. ASSUME NEW w \in Dispatcher, LoseRow(w) \/ Stop(w) PROVE TypeOK'
    <3>1. faults' \in 0 .. MaxFaults
      BY <2>10 DEF LoseRow, Stop
    <3>2. CASE LoseRow(w)
      BY <2>10, <3>1, <3>2 DEF LoseRow
    <3>3. CASE Stop(w)
      BY <2>10, <3>1, <3>3 DEF Stop
    <3>. QED
      BY <2>10, <3>2, <3>3
  <2>11. ASSUME NEW m \in Message,
                BecomeDue(m) \/ BecomeStale(m) \/ ExpireToken(m) \/ Purge(m)
         PROVE  TypeOK'
    BY <2>11 DEF BecomeDue, BecomeStale, ExpireToken, Purge
  <2>14. ASSUME NEW m \in Message, Stall(m) PROVE TypeOK'
    BY <2>14 DEF Stall
  <2>12. ASSUME NEW s \in Slot, Forget(s) PROVE TypeOK'
    BY <2>12 DEF Forget
  <2>13. CASE UNCHANGED vars
    BY <2>13 DEF vars
  <2>. QED
    BY <2>1, <2>2, <2>3, <2>4, <2>5, <2>6, <2>7, <2>9, <2>10, <2>11, <2>12, <2>13,
       <2>14 DEF Next, Dispatch
<1>. QED
  BY <1>1, <1>2, PTL DEF Spec

-----------------------------------------------------------------------------
(* The hands a message is in *)

(* The hands of a message, and those that matter to the sums below, are    *)
(* finitely many.                                                          *)
LEMMA HandsFinite ==
  ASSUME NEW m \in Message
  PROVE  /\ IsFiniteSet(Holders(m)) /\ Cardinality(Holders(m)) \in Nat
         /\ IsFiniteSet(Unsent(m)) /\ Cardinality(Unsent(m)) \in Nat
         /\ IsFiniteSet(Early(m)) /\ Cardinality(Early(m)) \in Nat
         /\ Cardinality(Unsent(m)) <= Cardinality(Holders(m))
         /\ Cardinality(Early(m)) <= Cardinality(Holders(m))
<1>1. Holders(m) \subseteq Dispatcher
  BY DEF Holders
<1>2. IsFiniteSet(Holders(m))
  BY <1>1, DispatcherAssumption, FS_Subset
<1>3. Unsent(m) \subseteq Holders(m) /\ Early(m) \subseteq Holders(m)
  BY DEF Unsent, Early
<1>. QED
  BY <1>2, <1>3, FS_Subset, FS_CardinalityType

(* Again counts.                                                           *)
LEMMA AgainType ==
  ASSUME NEW m \in Message
  PROVE  /\ Again(m) \in {0, 1}
         /\ Open(m) <=> Again(m) = 1
BY DEF Again

(* A dispatcher without a message takes m: one hand more.                  *)
LEMMA Taken ==
  ASSUME TypeOK, NEW w \in Dispatcher, NEW m \in Message,
         item[w].msg = None, item'[w].msg = m, pc'[w] = "deliver",
         \A v \in Dispatcher : v # w => item'[v] = item[v] /\ pc'[v] = pc[v]
  PROVE  /\ Cardinality(Holders(m))' = Cardinality(Holders(m)) + 1
         /\ Cardinality(Unsent(m))' = Cardinality(Unsent(m)) + 1
         /\ Cardinality(Early(m))' = IF item'[w].attempts < MaxAttempts
                                     THEN Cardinality(Early(m)) + 1
                                     ELSE Cardinality(Early(m))
         /\ \A n \in Message : n # m => /\ Holders(n)' = Holders(n)
                                        /\ Unsent(n)' = Unsent(n)
                                        /\ Early(n)' = Early(n)
<1>0. IsFiniteSet(Holders(m)) /\ IsFiniteSet(Unsent(m)) /\ IsFiniteSet(Early(m))
  BY HandsFinite
<1>1. Holders(m)' = Holders(m) \cup {w} /\ w \notin Holders(m)
  BY NoneAssumption DEF Holders
<1>2. Unsent(m)' = Unsent(m) \cup {w} /\ w \notin Unsent(m)
  BY <1>1 DEF Unsent, Holders
<1>3. Early(m)' = (IF item'[w].attempts < MaxAttempts THEN Early(m) \cup {w} ELSE Early(m))
      /\ w \notin Early(m)
  BY <1>1 DEF Early, Holders
<1>4. \A n \in Message : n # m => Holders(n)' = Holders(n)
  BY NoneAssumption DEF Holders
<1>5. \A n \in Message : n # m => w \notin Holders(n)
  BY NoneAssumption DEF Holders
<1>6. \A n \in Message : n # m => Unsent(n)' = Unsent(n) /\ Early(n)' = Early(n)
  BY <1>4, <1>5 DEF Unsent, Early, Holders
<1>7. Cardinality(Holders(m))' = Cardinality(Holders(m)) + 1
  <2>1. Cardinality(Holders(m) \cup {w}) = Cardinality(Holders(m)) + 1
    BY <1>0, <1>1, FS_AddElement
  <2>. QED
    BY <1>1, <2>1
<1>8. Cardinality(Unsent(m))' = Cardinality(Unsent(m)) + 1
  <2>1. Cardinality(Unsent(m) \cup {w}) = Cardinality(Unsent(m)) + 1
    BY <1>0, <1>2, FS_AddElement
  <2>. QED
    BY <1>2, <2>1
<1>9. Cardinality(Early(m))' = IF item'[w].attempts < MaxAttempts
                               THEN Cardinality(Early(m)) + 1
                               ELSE Cardinality(Early(m))
  <2>1. Cardinality(Early(m) \cup {w}) = Cardinality(Early(m)) + 1
    BY <1>0, <1>3, FS_AddElement
  <2>. QED
    BY <1>3, <2>1
<1>. QED
  BY <1>4, <1>6, <1>7, <1>8, <1>9

(* A dispatcher lets go of m: one hand less.                               *)
LEMMA LetGo ==
  ASSUME TypeOK, NEW w \in Dispatcher, NEW m \in Message,
         item[w].msg = m, item'[w].msg = None,
         \A v \in Dispatcher : v # w => item'[v] = item[v] /\ pc'[v] = pc[v]
  PROVE  /\ Cardinality(Holders(m))' = Cardinality(Holders(m)) - 1
         /\ Cardinality(Unsent(m))' = IF pc[w] # "delivered"
                                      THEN Cardinality(Unsent(m)) - 1
                                      ELSE Cardinality(Unsent(m))
         /\ Cardinality(Early(m))' = IF item[w].attempts < MaxAttempts
                                     THEN Cardinality(Early(m)) - 1
                                     ELSE Cardinality(Early(m))
         /\ \A n \in Message : n # m => /\ Holders(n)' = Holders(n)
                                        /\ Unsent(n)' = Unsent(n)
                                        /\ Early(n)' = Early(n)
<1>0. IsFiniteSet(Holders(m)) /\ IsFiniteSet(Unsent(m)) /\ IsFiniteSet(Early(m))
  BY HandsFinite
<1>1. Holders(m)' = Holders(m) \ {w} /\ w \in Holders(m)
  BY NoneAssumption DEF Holders
<1>2. Unsent(m)' = Unsent(m) \ {w} /\ (w \in Unsent(m) <=> pc[w] # "delivered")
  BY <1>1 DEF Unsent, Holders
<1>3. Early(m)' = Early(m) \ {w} /\ (w \in Early(m) <=> item[w].attempts < MaxAttempts)
  BY <1>1 DEF Early, Holders
<1>4. \A n \in Message : n # m => Holders(n)' = Holders(n)
  BY NoneAssumption DEF Holders
<1>5. \A n \in Message : n # m => w \notin Holders(n)
  BY NoneAssumption DEF Holders
<1>6. \A n \in Message : n # m => Unsent(n)' = Unsent(n) /\ Early(n)' = Early(n)
  BY <1>4, <1>5 DEF Unsent, Early, Holders
<1>7. Cardinality(Holders(m))' = Cardinality(Holders(m)) - 1
  <2>1. Cardinality(Holders(m) \ {w}) = Cardinality(Holders(m)) - 1
    BY <1>0, <1>1, FS_RemoveElement
  <2>. QED
    BY <1>1, <2>1
<1>8. Cardinality(Unsent(m))' = IF pc[w] # "delivered"
                                THEN Cardinality(Unsent(m)) - 1
                                ELSE Cardinality(Unsent(m))
  <2>1. Cardinality(Unsent(m) \ {w}) = IF w \in Unsent(m) THEN Cardinality(Unsent(m)) - 1
                                                         ELSE Cardinality(Unsent(m))
    BY <1>0, FS_RemoveElement
  <2>. QED
    BY <1>2, <2>1
<1>9. Cardinality(Early(m))' = IF item[w].attempts < MaxAttempts
                               THEN Cardinality(Early(m)) - 1
                               ELSE Cardinality(Early(m))
  <2>1. Cardinality(Early(m) \ {w}) = IF w \in Early(m) THEN Cardinality(Early(m)) - 1
                                                       ELSE Cardinality(Early(m))
    BY <1>0, FS_RemoveElement
  <2>. QED
    BY <1>3, <2>1
<1>. QED
  BY <1>4, <1>6, <1>7, <1>8, <1>9

(* No hand changes: nor does what is counted of them.                      *)
LEMMA SameHands ==
  ASSUME UNCHANGED <<pc, item>>, NEW m \in Message
  PROVE  Holders(m)' = Holders(m) /\ Unsent(m)' = Unsent(m) /\ Early(m)' = Early(m)
BY DEF Holders, Unsent, Early

-----------------------------------------------------------------------------
(* The inductive invariant *)

(* IInv holds while no message is queued and no process runs.              *)
LEMMA IInvInit == Init => IInv
<1> SUFFICES ASSUME Init PROVE IInv
  OBVIOUS
<1>1. \A m \in Message : Holders(m) = {} /\ Unsent(m) = {} /\ Early(m) = {} /\ Again(m) = 0
  BY NoneAssumption DEF Init, NoItem, Holders, Unsent, Early, Again, Open
<1>2. \A m \in Message : /\ Cardinality(Holders(m)) = 0
                         /\ Cardinality(Unsent(m)) = 0
                         /\ Cardinality(Early(m)) = 0
  BY <1>1, FS_EmptySet
<1>3. HandInv /\ SettledTruly
  BY NoneAssumption DEF Init, NoItem, HandInv, SettledTruly
<1>4. HoldersInv /\ AttemptsInv /\ AcceptedInv
  BY <1>1, <1>2, MaxAttemptsAssumption DEF Init, HoldersInv, AttemptsInv, AcceptedInv
<1>. QED
  BY <1>3, <1>4 DEF IInv

(* A row that was never queued is in nobody's hands.                       *)
LEMMA NeverQueued ==
  ASSUME IInv, NEW m \in Message, status[m] = "none"
  PROVE  /\ Holders(m) = {}
         /\ Cardinality(Holders(m)) = 0
         /\ Cardinality(Unsent(m)) = 0
         /\ Cardinality(Early(m)) = 0
         /\ attempts[m] = 0 /\ accepted[m] = 0
<1>1. Holders(m) = {}
  BY DEF IInv, HandInv, Holders
<1>2. Unsent(m) = {} /\ Early(m) = {}
  BY <1>1 DEF Unsent, Early
<1>. QED
  BY <1>1, <1>2, FS_EmptySet DEF IInv, HandInv

(* A step that changes no hand, no attempt and no acceptance keeps IInv if *)
(* it opens no row but a new one.                                          *)
LEMMA Quiet ==
  ASSUME TypeOK, IInv, UNCHANGED <<item, attempts, accepted, faults, stalls>>, SettledTruly',
         \A n \in Message : Unsent(n)' = Unsent(n),
         \A w \in Dispatcher : pc'[w] = "delivered" => pc[w] = "delivered",
         \A n \in Message : status'[n] = "none" => status[n] = "none",
         \A n \in Message : status'[n] \in {"none", "queued"} => ~stale'[n],
         \A n \in Message : Open(n)' => Open(n) \/ status[n] = "none"
  PROVE  IInv'
<1>1. \A n \in Message : Holders(n)' = Holders(n) /\ Early(n)' = Early(n)
  BY DEF Holders, Early
<1>2. \A n \in Message : Again(n)' \in {0, 1} /\ Again(n) \in {0, 1}
  BY DEF Again
<1>3. \A n \in Message : status[n] = "none" \/ Again(n)' <= Again(n)
  BY DEF Again
<1>4. HandInv'
  BY DEF IInv, HandInv
<1>5. HoldersInv'
  <2> SUFFICES ASSUME NEW n \in Message
               PROVE  Cardinality(Holders(n)) + Again(n)' <= 1 + stalls[n]
    BY <1>1 DEF HoldersInv
  <2>1. CASE status[n] = "none"
    BY <2>1, <1>2, NeverQueued DEF TypeOK
  <2>2. CASE status[n] # "none"
    BY <2>2, <1>2, <1>3, HandsFinite DEF TypeOK, IInv, HoldersInv
  <2>. QED
    BY <2>1, <2>2
<1>6. AttemptsInv'
  <2> SUFFICES ASSUME NEW n \in Message, attempts[n] >= MaxAttempts - 1
               PROVE  attempts[n] + Again(n)' + Cardinality(Early(n)) <= MaxAttempts + faults
    BY <1>1 DEF AttemptsInv
  <2>1. CASE status[n] = "none"
    BY <2>1, <1>2, NeverQueued, MaxAttemptsAssumption, MaxFaultsAssumption DEF TypeOK
  <2>2. CASE status[n] # "none"
    BY <2>2, <1>2, <1>3, HandsFinite, MaxAttemptsAssumption, MaxFaultsAssumption
       DEF TypeOK, IInv, AttemptsInv
  <2>. QED
    BY <2>1, <2>2
<1>7. AcceptedInv'
  <2> SUFFICES ASSUME NEW n \in Message
               PROVE  /\ accepted[n] + Again(n)' + Cardinality(Unsent(n)) <= 1 + faults
                      /\ \A w \in Holders(n) : pc'[w] = "delivered" => accepted[n] > 0
    BY <1>1 DEF AcceptedInv
  <2>1. \A w \in Holders(n) : pc'[w] = "delivered" => accepted[n] > 0
    BY DEF IInv, AcceptedInv, Holders
  <2>2. CASE status[n] = "none"
    BY <2>1, <2>2, <1>2, NeverQueued, MaxFaultsAssumption DEF TypeOK
  <2>3. CASE status[n] # "none"
    BY <2>1, <2>3, <1>2, <1>3, HandsFinite, MaxFaultsAssumption DEF TypeOK, IInv, AcceptedInv
  <2>. QED
    BY <2>2, <2>3
<1>. QED
  BY <1>4, <1>5, <1>6, <1>7 DEF IInv

(* A dispatcher lets go of its message, having settled the row if it was   *)
(* being processed, or at the price of a fault.                            *)
LEMMA Release ==
  ASSUME TypeOK, TypeOK', IInv, SettledTruly',
         NEW w \in Dispatcher, NEW m \in Message, item[w].msg = m,
         item' = [item EXCEPT ![w] = NoItem],
         pc'[w] # "delivered",
         \A v \in Dispatcher : v # w => pc'[v] = pc[v],
         UNCHANGED <<attempts, accepted, stalls>>,
         \A n \in Message : n # m => status'[n] = status[n] /\ stale'[n] = stale[n],
         status[m] # "none" => status'[m] # "none",
         status'[m] \in {"none", "queued"} => ~stale'[m],
         \/ /\ faults' = faults + 1
            /\ status'[m] = status[m] /\ stale'[m] = stale[m]
         \/ /\ faults' = faults
            /\ \/ status[m] # "processing" /\ status'[m] = status[m] /\ stale'[m] = stale[m]
               \/ /\ status[m] = "processing" /\ status'[m] # "processing"
                  /\ status'[m] = "queued" => /\ pc[w] # "delivered"
                                              /\ item[w].attempts < MaxAttempts
  PROVE  IInv'
<1> USE NoneAssumption, MaxAttemptsAssumption, MaxFaultsAssumption
<1>1. /\ Cardinality(Holders(m))' = Cardinality(Holders(m)) - 1
      /\ Cardinality(Unsent(m))' = IF pc[w] # "delivered"
                                   THEN Cardinality(Unsent(m)) - 1
                                   ELSE Cardinality(Unsent(m))
      /\ Cardinality(Early(m))' = IF item[w].attempts < MaxAttempts
                                  THEN Cardinality(Early(m)) - 1
                                  ELSE Cardinality(Early(m))
      /\ \A n \in Message : n # m => /\ Holders(n)' = Holders(n)
                                     /\ Unsent(n)' = Unsent(n)
                                     /\ Early(n)' = Early(n)
  <2>1. item'[w].msg = None /\ \A v \in Dispatcher : v # w => item'[v] = item[v]
    BY DEF TypeOK, NoItem
  <2>. QED
    BY <2>1, LetGo
<1>2. \A n \in Message : Again(n)' \in {0, 1} /\ Again(n) \in {0, 1}
  BY DEF Again
<1>3. \A n \in Message : n # m => Again(n)' = Again(n)
  <2> SUFFICES ASSUME NEW n \in Message, n # m PROVE Again(n)' = Again(n)
    OBVIOUS
  <2>1. Holders(n)' = Holders(n)
    BY <1>1
  <2>2. \A v \in Holders(n) : item'[v] = item[v]
    BY DEF Holders, TypeOK
  <2>3. Attended(n)' <=> Attended(n)
    BY <2>1, <2>2 DEF Attended
  <2>. QED
    BY <2>3 DEF Again, Open
<1>4. status[m] # "processing" /\ status'[m] = status[m] => Again(m)' = Again(m)
  BY DEF Again, Open
<1>5. faults' = faults \/ faults' = faults + 1
  OBVIOUS
<1>6. faults' = faults => \/ Again(m)' <= Again(m)
                          \/ pc[w] # "delivered" /\ item[w].attempts < MaxAttempts
  <2> SUFFICES ASSUME faults' = faults
               PROVE  \/ Again(m)' <= Again(m)
                      \/ pc[w] # "delivered" /\ item[w].attempts < MaxAttempts
    OBVIOUS
  <2>1. faults' # faults + 1
    BY DEF TypeOK
  <2>2. CASE status[m] # "processing"
    BY <2>1, <2>2, <1>2, <1>4
  <2>3. CASE status[m] = "processing" /\ status'[m] = "queued"
    BY <2>1, <2>3
  <2>4. CASE status[m] = "processing" /\ status'[m] \notin {"queued", "processing"}
    BY <2>4, <1>2 DEF Again, Open
  <2>. QED
    BY <2>1, <2>2, <2>3, <2>4
<1>7. \A n \in Message : attempts[n] \in Nat /\ accepted[n] \in Nat /\ stalls[n] \in Nat
  BY DEF TypeOK
<1>8. faults \in Nat /\ faults' \in Nat
  BY DEF TypeOK
<1>9. HandInv'
  BY <1>5, <1>7, <1>8 DEF IInv, HandInv, NoItem, TypeOK
<1>10. HoldersInv'
  <2>1. Cardinality(Holders(m))' + Again(m)' <= 1 + stalls[m]
    BY <1>1, <1>2, <1>7, HandsFinite DEF IInv, HoldersInv
  <2>. QED
    BY <2>1, <1>1, <1>3 DEF IInv, HoldersInv
<1>11. AttemptsInv'
  <2>1. attempts[m] >= MaxAttempts - 1 =>
          attempts[m] + Again(m)' + Cardinality(Early(m))' <= MaxAttempts + faults'
    <3>1. attempts[m] >= MaxAttempts - 1 =>
            attempts[m] + Again(m) + Cardinality(Early(m)) <= MaxAttempts + faults
      BY DEF IInv, AttemptsInv
    <3>. QED
      BY <3>1, <1>1, <1>2, <1>5, <1>6, <1>7, <1>8, HandsFinite
  <2>2. \A n \in Message : n # m =>
          (attempts[n] >= MaxAttempts - 1 =>
             attempts[n] + Again(n)' + Cardinality(Early(n))' <= MaxAttempts + faults')
    BY <1>1, <1>2, <1>3, <1>5, <1>7, <1>8, HandsFinite DEF IInv, AttemptsInv
  <2>. QED
    BY <2>1, <2>2 DEF AttemptsInv
<1>12. AcceptedInv'
  <2>1. accepted[m] + Again(m)' + Cardinality(Unsent(m))' <= 1 + faults'
    <3>1. accepted[m] + Again(m) + Cardinality(Unsent(m)) <= 1 + faults
      BY DEF IInv, AcceptedInv
    <3>. QED
      BY <3>1, <1>1, <1>2, <1>5, <1>6, <1>7, <1>8, HandsFinite
  <2>2. \A n \in Message : n # m =>
          accepted[n] + Again(n)' + Cardinality(Unsent(n))' <= 1 + faults'
    BY <1>1, <1>2, <1>3, <1>5, <1>7, <1>8, HandsFinite DEF IInv, AcceptedInv
  <2>3. \A n \in Message : \A v \in Dispatcher :
          item'[v].msg = n /\ pc'[v] = "delivered" => accepted[n] > 0
    BY DEF IInv, AcceptedInv, Holders, NoItem, TypeOK
  <2>. QED
    BY <2>1, <2>2, <2>3 DEF AcceptedInv, Holders
<1>. QED
  BY <1>9, <1>10, <1>11, <1>12 DEF IInv

(* A claim: the row was open, and is in one hand more.                     *)
LEMMA ClaimStep ==
  ASSUME TypeOK, IInv, NEW w \in Dispatcher, NEW m \in Message, Claim(w, m)
  PROVE  IInv'
<1> USE NoneAssumption, MaxAttemptsAssumption, MaxFaultsAssumption
<1>1. /\ item[w].msg = None
      /\ item'[w] = [msg |-> m, attempts |-> attempts[m] + 1, token |-> token[m]]
      /\ pc'[w] = "deliver"
      /\ \A v \in Dispatcher : v # w => item'[v] = item[v] /\ pc'[v] = pc[v]
  BY DEF Claim, TypeOK
<1>2. /\ Cardinality(Holders(m))' = Cardinality(Holders(m)) + 1
      /\ Cardinality(Unsent(m))' = Cardinality(Unsent(m)) + 1
      /\ Cardinality(Early(m))' = IF attempts[m] + 1 < MaxAttempts
                                  THEN Cardinality(Early(m)) + 1
                                  ELSE Cardinality(Early(m))
      /\ \A n \in Message : n # m => /\ Holders(n)' = Holders(n)
                                     /\ Unsent(n)' = Unsent(n)
                                     /\ Early(n)' = Early(n)
  <2>1. item'[w].msg = m /\ item'[w].attempts = attempts[m] + 1
    BY <1>1
  <2>. QED
    BY <1>1, <2>1, Taken
<1>3. /\ \A n \in Message : n # m => /\ status'[n] = status[n] /\ attempts'[n] = attempts[n]
      /\ attempts'[m] = attempts[m] + 1
      /\ status[m] = "queued" /\ status'[m] = "processing" /\ ~stale[m]
      /\ UNCHANGED <<stale, accepted, faults, stalls>>
  BY DEF Claim, TypeOK, IInv, HandInv
<1>4. Again(m) = 1 /\ Again(m)' = 0
  <2>1. Attended(m)'
    BY <1>1, <1>3 DEF Attended, Holders
  <2>. QED
    BY <1>3, <2>1 DEF Again, Open
<1>5. \A n \in Message : n # m => Again(n)' = Again(n)
  <2> SUFFICES ASSUME NEW n \in Message, n # m PROVE Again(n)' = Again(n)
    OBVIOUS
  <2>1. Holders(n)' = Holders(n) /\ \A v \in Holders(n) : item'[v] = item[v]
    BY <1>1, <1>2 DEF Holders
  <2>2. Attended(n)' <=> Attended(n)
    BY <1>3, <2>1 DEF Attended
  <2>. QED
    BY <1>3, <2>2 DEF Again, Open
<1>6. /\ \A n \in Message : attempts[n] \in Nat /\ accepted[n] \in Nat /\ stalls[n] \in Nat
      /\ faults \in Nat
  BY DEF TypeOK
<1>7. HandInv'
  <2>1. \A v \in Dispatcher : item[v].msg = m => item[v].attempts \in Nat /\ item[v].attempts <= attempts[m]
    BY DEF TypeOK, IInv, HandInv
  <2>2. \A u \in Dispatcher : \A n \in Message :
          item'[u].msg = n => status'[n] # "none" /\ item'[u].attempts <= attempts'[n]
    <3> SUFFICES ASSUME NEW u \in Dispatcher, NEW n \in Message, item'[u].msg = n
                 PROVE  status'[n] # "none" /\ item'[u].attempts <= attempts'[n]
      OBVIOUS
    <3>1. CASE u = w
      BY <1>1, <1>3, <1>6, <3>1
    <3>2. CASE u # w
      <4>1. /\ item[u].msg = n /\ item'[u].attempts = item[u].attempts
            /\ item[u].attempts \in Nat
        BY <1>1, <3>2 DEF TypeOK
      <4>2. status[n] # "none" /\ item[u].attempts <= attempts[n]
        BY <4>1 DEF IInv, HandInv
      <4>3. status'[n] # "none" /\ attempts'[n] >= attempts[n]
        BY <4>2, <1>3, <1>6
      <4>4. attempts'[n] \in Nat
        BY <1>3, <1>6
      <4>. QED
        BY <4>1, <4>2, <4>3, <4>4, <1>6
    <3>. QED
      BY <3>1, <3>2
  <2>3. \A u, v \in Dispatcher :
          u # v /\ item'[u].msg = item'[v].msg /\ item'[u].msg # None
          => item'[u].attempts # item'[v].attempts
    BY <1>1, <1>6, <2>1 DEF IInv, HandInv
  <2>. QED
    BY <1>3, <1>6, <2>2, <2>3 DEF IInv, HandInv
<1>8. HoldersInv'
  BY <1>2, <1>3, <1>4, <1>5, <1>6, HandsFinite DEF IInv, HoldersInv
<1>9. AttemptsInv'
  <2>1. attempts[m] + 1 >= MaxAttempts - 1 =>
          attempts[m] + 1 + Cardinality(Early(m))' <= MaxAttempts + faults
    <3>1. Cardinality(Early(m)) + 1 <= 1 + faults
      BY <1>4, <1>6, HandsFinite DEF IInv, HandInv, HoldersInv
    <3>2. attempts[m] >= MaxAttempts - 1 =>
            attempts[m] + 1 + Cardinality(Early(m)) <= MaxAttempts + faults
      BY <1>4 DEF IInv, AttemptsInv
    <3>. QED
      BY <1>2, <1>6, <3>1, <3>2, HandsFinite
  <2>. QED
    BY <1>2, <1>3, <1>4, <1>5, <1>6, <2>1, HandsFinite DEF IInv, AttemptsInv
<1>10. AcceptedInv'
  <2>1. \A n \in Message : accepted[n] + Again(n)' + Cardinality(Unsent(n))' <= 1 + faults
    BY <1>2, <1>4, <1>5, <1>6, HandsFinite DEF IInv, AcceptedInv
  <2>2. \A n \in Message : \A v \in Dispatcher :
          item'[v].msg = n /\ pc'[v] = "delivered" => accepted[n] > 0
    BY <1>1 DEF IInv, AcceptedInv, Holders
  <2>. QED
    BY <1>3, <2>1, <2>2 DEF AcceptedInv, Holders
<1>11. SettledTruly'
  BY <1>3, <1>6 DEF IInv, SettledTruly
<1>. QED
  BY <1>7, <1>8, <1>9, <1>10, <1>11 DEF IInv

(* The mail server takes the message: a copy more, and a hand less that    *)
(* may still send it, or a fault more.                                     *)
LEMMA DeliverStep ==
  ASSUME TypeOK, IInv, NEW w \in Dispatcher, Deliver(w) \/ DeliverUnheard(w)
  PROVE  IInv'
<1> USE NoneAssumption, MaxAttemptsAssumption, MaxFaultsAssumption
<1>0. PICK m \in Message : m = item[w].msg
  BY DEF Deliver, DeliverUnheard, TypeOK
<1>1. /\ item[w].msg = m /\ pc[w] = "deliver"
      /\ UNCHANGED <<status, attempts, stale, item, stalls>>
      /\ accepted'[m] = accepted[m] + 1
      /\ \A n \in Message : n # m => accepted'[n] = accepted[n]
      /\ \A v \in Dispatcher : v # w => pc'[v] = pc[v]
      /\ \/ pc'[w] = "delivered" /\ faults' = faults
         \/ pc'[w] = "undelivered" /\ faults' = faults + 1
  BY <1>0 DEF Deliver, DeliverUnheard, Hand, rowvars, TypeOK
<1>2. \A n \in Message : /\ Holders(n)' = Holders(n) /\ Early(n)' = Early(n)
                         /\ Again(n)' = Again(n)
  BY <1>1 DEF Holders, Early, Again, Open, Attended
<1>3. w \in Holders(m) /\ w \in Unsent(m)
  BY <1>1 DEF Holders, Unsent
<1>4. /\ \A n \in Message : n # m => Unsent(n)' = Unsent(n)
      /\ Unsent(m)' = IF pc'[w] = "delivered" THEN Unsent(m) \ {w} ELSE Unsent(m)
  BY <1>1, <1>2, <1>3 DEF Unsent, Holders
<1>5. Cardinality(Unsent(m))' = IF pc'[w] = "delivered" THEN Cardinality(Unsent(m)) - 1
                                                        ELSE Cardinality(Unsent(m))
  <2>1. IsFiniteSet(Unsent(m))
    BY HandsFinite
  <2>2. Cardinality(Unsent(m) \ {w}) = Cardinality(Unsent(m)) - 1
    BY <1>3, <2>1, FS_RemoveElement
  <2>. QED
    BY <1>4, <2>2
<1>6. /\ \A n \in Message : attempts[n] \in Nat /\ accepted[n] \in Nat /\ stalls[n] \in Nat
      /\ faults \in Nat /\ faults' \in Nat /\ faults <= faults'
  BY <1>1 DEF TypeOK
<1>7. \A n \in Message : accepted'[n] >= accepted[n]
  BY <1>1, <1>6
<1>8. \A n \in Message : Again(n) \in {0, 1}
  BY DEF Again
<1>9. HandInv'
  BY <1>1, <1>3, <1>6 DEF IInv, HandInv, Holders
<1>10. HoldersInv'
  BY <1>1, <1>2 DEF IInv, HoldersInv
<1>11. AttemptsInv'
  BY <1>1, <1>2, <1>6, <1>8, HandsFinite DEF IInv, AttemptsInv
<1>12. AcceptedInv'
  <2>1. accepted'[m] + Again(m) + Cardinality(Unsent(m))' <= 1 + faults'
    BY <1>1, <1>5, <1>6, <1>8, HandsFinite DEF IInv, AcceptedInv
  <2>2. \A n \in Message : n # m =>
          accepted'[n] + Again(n) + Cardinality(Unsent(n))' <= 1 + faults'
    BY <1>1, <1>4, <1>6, <1>8, HandsFinite DEF IInv, AcceptedInv
  <2>3. \A n \in Message : \A v \in Holders(n) : pc'[v] = "delivered" => accepted'[n] > 0
    BY <1>1, <1>6 DEF IInv, AcceptedInv, Holders
  <2>. QED
    BY <1>1, <1>2, <2>1, <2>2, <2>3 DEF AcceptedInv
<1>13. SettledTruly'
  BY <1>1, <1>6, <1>7 DEF IInv, SettledTruly
<1>. QED
  BY <1>9, <1>10, <1>11, <1>12, <1>13 DEF IInv

(* The 15 minutes pass over a dispatcher at work: the row may be claimed   *)
(* again, at the price of a stall and a fault.                             *)
LEMMA StallStep ==
  ASSUME TypeOK, IInv, NEW m \in Message, Stall(m)
  PROVE  IInv'
<1> USE NoneAssumption, MaxAttemptsAssumption, MaxFaultsAssumption
<1>1. /\ UNCHANGED <<status, attempts, accepted, pc, item>>
      /\ faults' = faults + 1 /\ stalls'[m] = stalls[m] + 1
      /\ status[m] = "processing"
      /\ \A n \in Message : n # m => stalls'[n] = stalls[n] /\ stale'[n] = stale[n]
  BY DEF Stall, TypeOK
<1>2. \A n \in Message : Holders(n)' = Holders(n) /\ Unsent(n)' = Unsent(n) /\ Early(n)' = Early(n)
  BY <1>1, SameHands
<1>3. /\ \A n \in Message : n # m => Again(n)' = Again(n)
      /\ Again(m)' = 1 /\ Again(m) = 0
  BY <1>1, <1>2 DEF Stall, TypeOK, Again, Open, Attended
<1>4. /\ \A n \in Message : attempts[n] \in Nat /\ accepted[n] \in Nat /\ stalls[n] \in Nat
      /\ faults \in Nat
  BY DEF TypeOK
<1>5. \A n \in Message : Again(n) \in {0, 1}
  BY DEF Again
<1>6. HandInv'
  BY <1>1, <1>4 DEF IInv, HandInv
<1>7. HoldersInv'
  BY <1>1, <1>2, <1>3, <1>4, HandsFinite DEF IInv, HoldersInv
<1>8. AttemptsInv'
  BY <1>1, <1>2, <1>3, <1>4, <1>5, HandsFinite DEF IInv, AttemptsInv
<1>9. AcceptedInv'
  BY <1>1, <1>2, <1>3, <1>4, <1>5, HandsFinite DEF IInv, AcceptedInv
<1>10. SettledTruly'
  BY <1>1 DEF IInv, SettledTruly
<1>. QED
  BY <1>6, <1>7, <1>8, <1>9, <1>10 DEF IInv

(* The outcome of a delivery is written, to the row of whoever has claimed *)
(* it by then.                                                             *)
LEMMA SettleStep ==
  ASSUME TypeOK, TypeOK', IInv, NEW w \in Dispatcher, MarkSent(w) \/ MarkFailed(w)
  PROVE  IInv'
<1>0. PICK m \in Message : m = item[w].msg
  BY DEF MarkSent, MarkFailed, TypeOK
<1>1. PICK o \in {"sent", "dead", "queued"} :
        /\ Settle(w, o)
        /\ o = "sent" => pc[w] = "delivered"
        /\ o = "dead" => item[w].attempts >= MaxAttempts
        /\ o = "queued" => pc[w] # "delivered" /\ ~(item[w].attempts >= MaxAttempts)
  BY DEF MarkSent, MarkFailed
<1>2. item[w].msg = m
  BY <1>0
<1>3. item[w].attempts \in Nat /\ item[w].attempts <= attempts[m] /\ attempts[m] \in Nat
  BY <1>2 DEF TypeOK, IInv, HandInv
<1>4. /\ item' = [item EXCEPT ![w] = NoItem]
      /\ pc'[w] = "poll"
      /\ \A v \in Dispatcher : v # w => pc'[v] = pc[v]
      /\ UNCHANGED <<attempts, accepted, stalls, faults>>
      /\ \A n \in Message : n # m => status'[n] = status[n] /\ stale'[n] = stale[n]
      /\ status[m] = "processing" => status'[m] = o /\ ~stale'[m]
      /\ status[m] # "processing" => status'[m] = status[m] /\ stale'[m] = stale[m]
  <2>1. /\ status' = [status EXCEPT ![m] = IF status[m] = "processing" THEN o ELSE @]
        /\ stale' = [stale EXCEPT ![m] = IF status[m] = "processing" THEN FALSE ELSE @]
        /\ pc' = [pc EXCEPT ![w] = "poll"]
        /\ item' = [item EXCEPT ![w] = NoItem]
        /\ UNCHANGED <<attempts, accepted, stalls, faults>>
    BY <1>1, <1>2 DEF Settle
  <2>2. /\ pc'[w] = "poll"
        /\ \A v \in Dispatcher : v # w => pc'[v] = pc[v]
    BY <2>1 DEF TypeOK
  <2>3. /\ \A n \in Message : n # m => status'[n] = status[n]
        /\ status'[m] = IF status[m] = "processing" THEN o ELSE status[m]
    BY <2>1 DEF TypeOK
  <2>4. /\ \A n \in Message : n # m => stale'[n] = stale[n]
        /\ status[m] = "processing" => ~stale'[m]
        /\ status[m] # "processing" => stale'[m] = stale[m]
    <3>1. stale \in [Message -> BOOLEAN]
      BY DEF TypeOK
    <3>2. CASE status[m] = "processing"
      <4>1. stale' = [stale EXCEPT ![m] = FALSE]
        BY <2>1, <3>2
      <4>. QED
        BY <3>1, <3>2, <4>1
    <3>3. CASE status[m] # "processing"
      <4>1. stale' = [stale EXCEPT ![m] = @]
        BY <2>1, <3>3
      <4>. QED
        BY <3>1, <3>3, <4>1
    <3>. QED
      BY <3>2, <3>3
  <2>. QED
    BY <2>1, <2>2, <2>3, <2>4
<1>5. SettledTruly'
  <2>1. o = "sent" => accepted[m] > 0
    BY <1>1, <1>2 DEF IInv, AcceptedInv, Holders
  <2>2. o = "dead" => attempts[m] >= MaxAttempts
    BY <1>1, <1>3, MaxAttemptsAssumption
  <2>. QED
    BY <1>2, <1>4, <2>1, <2>2 DEF IInv, SettledTruly
<1>6. o = "queued" => item[w].attempts < MaxAttempts
  BY <1>1, <1>3, MaxAttemptsAssumption
<1>7. /\ status[m] # "none" => status'[m] # "none"
      /\ status'[m] \in {"none", "queued"} => ~stale'[m]
  BY <1>2, <1>4 DEF IInv, HandInv
<1>8. \/ status[m] # "processing" /\ status'[m] = status[m] /\ stale'[m] = stale[m]
      \/ /\ status[m] = "processing" /\ status'[m] # "processing"
         /\ status'[m] = "queued" => pc[w] # "delivered" /\ item[w].attempts < MaxAttempts
  BY <1>1, <1>4, <1>6
<1>. QED
  BY <1>2, <1>4, <1>5, <1>7, <1>8, Release

(* A dispatcher stops, or goes on without a row it could not settle.       *)
LEMMA FaultStep ==
  ASSUME TypeOK, TypeOK', IInv, NEW w \in Dispatcher, LoseRow(w) \/ Stop(w)
  PROVE  IInv'
<1>1. /\ UNCHANGED <<status, stale, attempts, accepted, stalls>> /\ faults' = faults + 1
      /\ item' = [item EXCEPT ![w] = NoItem]
      /\ pc'[w] \in {"poll", "down"}
      /\ \A v \in Dispatcher : v # w => pc'[v] = pc[v]
  BY DEF LoseRow, Stop, TypeOK, rowvars
<1>2. SettledTruly'
  BY <1>1 DEF IInv, SettledTruly
<1>3. ASSUME NEW m \in Message, item[w].msg = m PROVE IInv'
  <2>1. status[m] \in {"none", "queued"} => ~stale[m]
    BY DEF IInv, HandInv
  <2>. QED
    BY <1>1, <1>2, <1>3, <2>1, Release
<1>4. CASE item[w].msg \notin Message
  <2>1. \A v \in Dispatcher : item'[v].msg = item[v].msg
                              /\ (item[v].msg \in Message => item'[v] = item[v] /\ pc'[v] = pc[v])
    BY <1>1, <1>4, NoneAssumption DEF TypeOK, NoItem
  <2>2. \A n \in Message : Holders(n)' = Holders(n)
    BY <2>1 DEF Holders
  <2>3. \A n \in Message : Unsent(n)' = Unsent(n) /\ Early(n)' = Early(n)
    BY <2>1, <2>2 DEF Unsent, Early, Holders
  <2>4. \A n \in Message : (Attended(n)' <=> Attended(n))
    BY <1>1, <2>1, <2>2 DEF Attended, Holders
  <2>5. \A n \in Message : Again(n)' = Again(n) /\ Again(n) \in {0, 1}
    BY <1>1, <2>4 DEF Again, Open
  <2>6. /\ \A n \in Message : attempts[n] \in Nat /\ accepted[n] \in Nat /\ stalls[n] \in Nat
        /\ faults \in Nat
    BY DEF TypeOK
  <2>7. HandInv'
    <3>1. \A v \in Dispatcher : item[v].msg \in Message \cup {None}
      BY DEF TypeOK
    <3>2. \A u, v \in Dispatcher :
            u # v /\ item'[u].msg = item'[v].msg /\ item'[u].msg # None
            => item'[u].attempts # item'[v].attempts
      BY <2>1, <3>1 DEF IInv, HandInv
    <3>3. \A u \in Dispatcher : \A n \in Message :
            item'[u].msg = n => status[n] # "none" /\ item'[u].attempts <= attempts[n]
      BY <2>1 DEF IInv, HandInv
    <3>. QED
      BY <1>1, <2>6, <3>2, <3>3 DEF IInv, HandInv
  <2>8. HoldersInv'
    BY <1>1, <2>2, <2>5 DEF IInv, HoldersInv
  <2>9. AttemptsInv'
    BY <1>1, <2>3, <2>5, <2>6, HandsFinite, MaxAttemptsAssumption DEF IInv, AttemptsInv
  <2>10. AcceptedInv'
    <3>1. \A n \in Message : accepted[n] + Again(n) + Cardinality(Unsent(n)) <= 1 + faults'
      BY <1>1, <2>5, <2>6, HandsFinite DEF IInv, AcceptedInv
    <3>2. \A n \in Message : \A v \in Holders(n) : pc'[v] = "delivered" => accepted[n] > 0
      BY <2>1 DEF IInv, AcceptedInv, Holders
    <3>. QED
      BY <1>1, <2>2, <2>3, <2>5, <3>1, <3>2 DEF AcceptedInv
  <2>. QED
    BY <1>2, <2>7, <2>8, <2>9, <2>10 DEF IInv
<1>. QED
  BY <1>3, <1>4

(* Every request, dispatcher step, fault and passing of time keeps IInv.   *)
LEMMA IInvStep == TypeOK /\ TypeOK' /\ IInv /\ [Next]_vars => IInv'
<1> SUFFICES ASSUME TypeOK, TypeOK', IInv PROVE [Next]_vars => IInv'
  OBVIOUS
<1> USE DEF rowvars
<1>1. ASSUME NEW m \in Message, NEW s \in Slot, Queue(m, s) PROVE IInv'
  <2>1. \A n \in Message : \/ status'[n] = status[n]
                           \/ status'[n] = "gone"
                           \/ n = m /\ status[n] = "none" /\ status'[n] = "queued"
    BY <1>1 DEF Queue, TypeOK
  <2>2. UNCHANGED <<item, pc, attempts, accepted, faults, stalls, stale>>
    BY <1>1 DEF Queue
  <2>3. \A n \in Message : (Attended(n)' <=> Attended(n)) /\ Unsent(n)' = Unsent(n)
    BY <2>2 DEF Attended, Holders, Unsent
  <2>4. SettledTruly'
    BY <2>1, <2>2 DEF IInv, SettledTruly
  <2>5. /\ \A n \in Message : Open(n)' => Open(n) \/ status[n] = "none"
        /\ \A n \in Message : status'[n] = "none" => status[n] = "none"
        /\ \A n \in Message : status'[n] \in {"none", "queued"} => ~stale'[n]
    BY <2>1, <2>2, <2>3 DEF Open, IInv, HandInv
  <2>. QED
    BY <2>2, <2>3, <2>4, <2>5, Quiet
<1>2. ASSUME NEW w \in Dispatcher, Recover(w) PROVE IInv'
  <2>1. \A n \in Message :
           \/ status'[n] = status[n] /\ stale'[n] = stale[n]
           \/ status[n] = "processing" /\ stale[n] /\ status'[n] = "queued" /\ ~stale'[n]
    <3> DEFINE back == {n \in Message : status[n] = "processing" /\ stale[n]}
    <3>1. \A n \in Message : /\ status'[n] = IF n \in back THEN "queued" ELSE status[n]
                             /\ stale'[n] = (stale[n] /\ n \notin back)
      BY <1>2 DEF Recover
    <3>2. \A n \in Message : stale[n] \in BOOLEAN
      BY DEF TypeOK
    <3>. QED
      BY Zenon, <3>1, <3>2
  <2>2. /\ UNCHANGED <<item, attempts, accepted, faults, stalls>>
        /\ \A v \in Dispatcher : \/ pc'[v] = pc[v]
                                 \/ pc[v] = "down" /\ pc'[v] = "poll"
    <3>1. pc \in [Dispatcher -> {"down", "poll", "deliver", "delivered", "undelivered"}]
      BY DEF TypeOK
    <3>. QED
      BY <1>2, <3>1 DEF Recover
  <2>3. \A n \in Message : (Attended(n)' <=> Attended(n)) /\ Unsent(n)' = Unsent(n)
    BY <2>2 DEF Attended, Holders, Unsent
  <2>4. SettledTruly'
    BY <2>1, <2>2 DEF IInv, SettledTruly
  <2>5. /\ \A n \in Message : Open(n)' => Open(n) \/ status[n] = "none"
        /\ \A n \in Message : status'[n] = "none" => status[n] = "none"
        /\ \A n \in Message : status'[n] \in {"none", "queued"} => ~stale'[n]
    BY <2>1, <2>3 DEF Open, IInv, HandInv
  <2>. QED
    BY <2>2, <2>3, <2>4, <2>5, Quiet
<1>3. ASSUME NEW w \in Dispatcher, FailDelivery(w) PROVE IInv'
  <2>1. /\ UNCHANGED <<item, status, stale, attempts, accepted, faults, stalls>>
        /\ \A v \in Dispatcher : \/ pc'[v] = pc[v]
                                 \/ pc[v] = "deliver" /\ pc'[v] = "undelivered"
    <3>1. pc \in [Dispatcher -> {"down", "poll", "deliver", "delivered", "undelivered"}]
      BY DEF TypeOK
    <3>. QED
      BY <1>3, <3>1 DEF FailDelivery
  <2>2. \A n \in Message : (Open(n)' <=> Open(n)) /\ Unsent(n)' = Unsent(n)
    BY <2>1 DEF Open, Attended, Holders, Unsent
  <2>3. SettledTruly' /\ \A n \in Message : status'[n] \in {"none", "queued"} => ~stale'[n]
    BY <2>1 DEF IInv, SettledTruly, HandInv
  <2>. QED
    BY <2>1, <2>2, <2>3, Quiet
<1>4. ASSUME NEW m \in Message, BecomeStale(m) PROVE IInv'
  <2>1. /\ UNCHANGED <<item, pc, status, attempts, accepted, faults, stalls>>
        /\ status[m] = "processing" /\ ~Attended(m)
        /\ \A n \in Message : n # m => stale'[n] = stale[n]
    BY <1>4 DEF BecomeStale, TypeOK
  <2>2. \A n \in Message : (Attended(n)' <=> Attended(n)) /\ Unsent(n)' = Unsent(n)
    BY <2>1 DEF Attended, Holders, Unsent
  <2>3. /\ SettledTruly'
        /\ \A n \in Message : Open(n)' => Open(n)
        /\ \A n \in Message : status'[n] \in {"none", "queued"} => ~stale'[n]
    BY <2>1, <2>2 DEF IInv, SettledTruly, HandInv, Open
  <2>. QED
    BY <2>1, <2>2, <2>3, Quiet
<1>5. ASSUME \/ UNCHANGED vars
             \/ \E m \in Message : Consume(m) \/ BecomeDue(m) \/ ExpireToken(m) \/ Purge(m)
             \/ \E s \in Slot : Forget(s)
      PROVE  IInv'
  <2>1. /\ UNCHANGED <<item, pc, stale, attempts, accepted, faults, stalls>>
        /\ \A n \in Message : \/ status'[n] = status[n]
                              \/ status[n] # "none" /\ status'[n] = "gone"
    <3>1. UNCHANGED <<item, pc, stale, attempts, accepted, faults, stalls>>
      BY <1>5 DEF Consume, BecomeDue, ExpireToken, Purge, Forget, vars
    <3>2. CASE UNCHANGED status
      BY <3>1, <3>2
    <3>3. ASSUME NEW m \in Message, Purge(m)
          PROVE  \A n \in Message : \/ status'[n] = status[n]
                                    \/ status[n] # "none" /\ status'[n] = "gone"
      BY <3>3 DEF Purge, InTable, TypeOK
    <3>4. ASSUME NEW s \in Slot, Forget(s)
          PROVE  \A n \in Message : \/ status'[n] = status[n]
                                    \/ status[n] # "none" /\ status'[n] = "gone"
      BY <3>4 DEF Forget, InTable
    <3>5. \/ UNCHANGED status
          \/ \E m \in Message : Purge(m)
          \/ \E s \in Slot : Forget(s)
      BY <1>5 DEF Consume, BecomeDue, ExpireToken, vars
    <3>. QED
      BY <3>1, <3>2, <3>3, <3>4, <3>5
  <2>2. \A n \in Message : (Attended(n)' <=> Attended(n)) /\ Unsent(n)' = Unsent(n)
    BY <2>1 DEF Attended, Holders, Unsent
  <2>3. /\ SettledTruly'
        /\ \A n \in Message : Open(n)' => Open(n)
        /\ \A n \in Message : status'[n] = "none" => status[n] = "none"
        /\ \A n \in Message : status'[n] \in {"none", "queued"} => ~stale'[n]
    BY <2>1, <2>2 DEF IInv, SettledTruly, HandInv, Open
  <2>. QED
    BY <2>1, <2>2, <2>3, Quiet
<1>. QED
  BY <1>1, <1>2, <1>3, <1>4, <1>5, ClaimStep, DeliverStep, StallStep, SettleStep, FaultStep
     DEF Next, Dispatch

(* The inductive invariant holds of every behaviour of EmailOutbox.        *)
THEOREM Inductive == Spec => []IInv
<1>1. Spec => []TypeOK
  BY TypeCorrect
<1>. QED
  BY <1>1, IInvInit, IInvStep, PTL DEF Spec

(* dispatch_one and recover_stale_claims (email.rs) put a message into one *)
(* dispatcher's hands, and into one more for each stall over it at most,   *)
(* across stops, restarts and settlements that come late.                  *)
THEOREM Exclusive == Spec => []OneDispatcher
<1>1. TypeOK /\ IInv => OneDispatcher
  BY HandsFinite, AgainType DEF IInv, HoldersInv, OneDispatcher, TypeOK
<1>. QED
  BY <1>1, TypeCorrect, Inductive, PTL

(* The owner is written to once, and once more for each fault at most.     *)
THEOREM BoundedDuplicates == Spec => []DuplicatesNeedFaults
<1>1. TypeOK /\ IInv => DuplicatesNeedFaults
  BY HandsFinite, AgainType, MaxFaultsAssumption
     DEF IInv, AcceptedInv, DuplicatesNeedFaults, TypeOK
<1>. QED
  BY <1>1, TypeCorrect, Inductive, PTL

(* MAX_DELIVERY_ATTEMPTS is exceeded by one claim per fault at most.       *)
THEOREM BoundedAttempts == Spec => []AttemptsNeedFaults
<1>1. TypeOK /\ IInv => AttemptsNeedFaults
  <2> SUFFICES ASSUME TypeOK, IInv, NEW m \in Message
               PROVE  attempts[m] <= MaxAttempts + faults
    BY DEF AttemptsNeedFaults
  <2>1. attempts[m] >= MaxAttempts - 1 =>
          attempts[m] + Again(m) + Cardinality(Early(m)) <= MaxAttempts + faults
    BY DEF IInv, AttemptsInv
  <2>. QED
    BY <2>1, HandsFinite, AgainType, MaxAttemptsAssumption, MaxFaultsAssumption DEF TypeOK
<1>. QED
  BY <1>1, TypeCorrect, Inductive, PTL

(* A row marked sent was taken by the mail server; a dead one had all its  *)
(* attempts.                                                               *)
THEOREM TruthfulStatus == Spec => []SettledTruly
<1>1. IInv => SettledTruly
  BY DEF IInv
<1>. QED
  BY <1>1, Inductive, PTL

(* No statement of email.rs takes up a row that is sent or dead, also when *)
(* the outcome it writes is that of a claim recovered long ago.            *)
THEOREM Final == Spec => SettledStays
<1>1. TypeOK /\ [Next]_vars =>
        [\A m \in Message :
            status[m] \in {"sent", "dead"} => status'[m] \in {status[m], "gone"}]_vars
  <2> SUFFICES ASSUME TypeOK, [Next]_vars, NEW m \in Message,
                      status[m] \in {"sent", "dead"}
               PROVE  status'[m] \in {status[m], "gone"}
    OBVIOUS
  <2>1. ASSUME NEW w \in Dispatcher, NEW o \in {"sent", "dead", "queued"}, Settle(w, o)
        PROVE  status'[m] = status[m]
    <3>1. status \in [Message -> {"none", "queued", "processing", "sent", "dead", "gone"}]
      BY DEF TypeOK
    <3>2. status' = [status EXCEPT ![item[w].msg] =
                       IF status[item[w].msg] = "processing" THEN o ELSE @]
      BY <2>1 DEF Settle
    <3>. QED
      BY <3>1, <3>2
  <2>. QED
    BY <2>1 DEF Next, Dispatch, Queue, Consume, Recover, Claim, Deliver, DeliverUnheard,
       FailDelivery, MarkSent, MarkFailed, LoseRow, Stop, BecomeDue, BecomeStale, Stall,
       ExpireToken, Purge, Forget, rowvars, vars, TypeOK
<1>. QED
  BY <1>1, TypeCorrect, PTL DEF Spec, SettledStays
=============================================================================

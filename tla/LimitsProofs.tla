----------------------------- MODULE LimitsProofs -----------------------------
(***************************************************************************)
(* Proofs about Limits, for any number of requests and replicas, any       *)
(* policy and any clock: IInv is inductive together with TypeOK, and from  *)
(* it no window lets more logins through than its limit, no failure is     *)
(* lost, and a lock holds.                                                 *)
(***************************************************************************)
EXTENDS Limits, FiniteSetTheorems, TLAPS

(* The policy and the bounds, as the provers want them.                    *)
LEMMA Policy ==
    /\ Limit \in Nat /\ Limit > 0 /\ Window \in Nat /\ Window > 0
    /\ MaxAttempts \in Nat /\ MaxAttempts > 0 /\ LockTime \in Nat /\ LockTime > 0
    /\ BatchSize \in Nat /\ MaxBatches \in Nat /\ MaxBatches > 0
    /\ MaxTime \in Nat /\ MaxFaults \in Nat /\ Stall \in Nat /\ Stall < Window
BY PolicyAssumption, TimeoutAssumption

(* window_started_at: a time is in its window, and in no later one.        *)
LEMMA WindowBounds ==
    ASSUME NEW t \in Nat
    PROVE  /\ WindowOf(t) \in Nat
           /\ WindowOf(t) * Window <= t
           /\ t < (WindowOf(t) + 1) * Window
BY Policy, Z3 DEF WindowOf

(* The windows of the times that the clock can show are Windows.           *)
LEMMA WindowInRange == ASSUME NEW t \in 0 .. MaxTime PROVE WindowOf(t) \in Windows
<1> DEFINE v == WindowOf(t)
           m == WindowOf(MaxTime)
<1>1. v \in Nat /\ m \in Nat /\ v * Window <= t /\ MaxTime < (m + 1) * Window
  BY WindowBounds, Policy
<1>2. v * Window < (m + 1) * Window
  BY <1>1, Policy
<1> HIDE DEF v, m
<1>3. v < m + 1
  BY <1>1, <1>2, Policy, Z3
<1>. QED
  BY <1>1, <1>3 DEF v, m, Windows

(* A counter outlives every request of its window: a request is younger    *)
(* than a window (the timeout layer), a counter is kept for two.           *)
LEMMA Outlives ==
    ASSUME NEW t \in Nat, NEW now \in Nat, now <= t + Stall
    PROVE  now <= ExpiresAt(WindowOf(t))
<1> DEFINE v == WindowOf(t)
<1>1. v \in Nat /\ t < (v + 1) * Window
  BY WindowBounds
<1> HIDE DEF v
<1>2. (v + 2) * Window = (v + 1) * Window + Window
  BY <1>1, Policy, Z3
<1>3. (v + 1) * Window \in Nat /\ (v + 2) * Window \in Nat
  BY <1>1, Policy
<1>. QED
  BY <1>1, <1>2, <1>3, Policy DEF v, ExpiresAt

LEMMA ExpiresType == ASSUME NEW w \in Windows PROVE ExpiresAt(w) \in Nat
BY Policy, WindowBounds DEF ExpiresAt, Windows

-----------------------------------------------------------------------------
(* Types *)

LEMMA Constants ==
    NoUser \in UserRow /\ Waiting \in RequestState /\ Answered \in RequestState /\ NoPass \in PassState
<1>1. 0 \in 0 .. MaxTime /\ 0 \in 0 .. MaxBatches
  BY Policy
<1>. QED
  BY <1>1 DEF NoUser, UserRow, Waiting, Answered, RequestState, NoPass, PassState

LEMMA TypeInit == Init => TypeOK
BY Constants, Policy DEF Init, TypeOK, NoUser

(* A batch adds rows that had expired when the pass began.                 *)
LEMMA BatchEffect ==
    ASSUME NEW p \in Replica, DeleteBatch(p)
    PROVE  \E old \in SUBSET Expired(pass.began), last \in BOOLEAN :
              /\ pass' = [pass EXCEPT !.doomed = @ \cup old, !.batches = @ + 1, !.done = last]
              /\ last \/ pass.batches + 1 # MaxBatches
<1> DEFINE left == Expired(pass.began) \ pass.doomed
           old == {w \in left : Cardinality({v \in left : v < w}) < BatchSize}
           last == Cardinality(old) < BatchSize \/ pass.batches + 1 = MaxBatches
<1>1. pass' = [pass EXCEPT !.doomed = @ \cup old, !.batches = @ + 1, !.done = last]
  BY DEF DeleteBatch
<1>2. old \in SUBSET Expired(pass.began) /\ last \in BOOLEAN
  OBVIOUS
<1>3. last \/ pass.batches + 1 # MaxBatches
  OBVIOUS
<1> HIDE DEF old, last
<1>. QED
  BY <1>1, <1>2, <1>3

(* Every step keeps the types; that a pass has a batch left is in TimeInv. *)
LEMMA TypeStep == TypeOK /\ TimeInv /\ [Next]_vars => TypeOK'
<1> SUFFICES ASSUME TypeOK, TimeInv PROVE [Next]_vars => TypeOK'
  OBVIOUS
<1> USE Policy DEF TypeOK, maintenance, history
<1>1. ASSUME NEW r \in Request, Arrive(r) PROVE TypeOK'
  <2>1. [req[r] EXCEPT !.pc = "count", !.start = clock] \in RequestState
    BY DEF RequestState
  <2>. QED
    BY <1>1, <2>1 DEF Arrive
<1>2. ASSUME NEW r \in Request, Count(r) PROVE TypeOK'
  <2>1. WindowOf(req[r].start) \in Windows
    BY WindowInRange DEF RequestState
  <2>2. bucket[WindowOf(req[r].start)] + 1 \in Nat
    BY <2>1
  <2>3. bucket' \in [Windows -> Nat]
    BY <1>2, <2>2 DEF Count
  <2>4. [req[r] EXCEPT !.pc = "counted", !.count = bucket[WindowOf(req[r].start)] + 1]
           \in RequestState
    BY <2>2 DEF RequestState
  <2>. QED
    BY <1>2, <2>3, <2>4 DEF Count
<1>3. ASSUME NEW r \in Request, Enforce(r) PROVE TypeOK'
  <2>1. bucket' \in [Windows -> Nat]
    BY <1>3 DEF Enforce, Without
  <2>2. admitted' \in [Windows -> Nat]
    BY <1>3, WindowInRange DEF Enforce, RequestState
  <2>3. [req[r] EXCEPT !.pc = "verify", !.seen = user] \in RequestState
    BY DEF RequestState
  <2>4. req' \in [Request -> RequestState]
    BY <1>3, <2>3, Constants DEF Enforce
  <2>. QED
    BY <1>3, <2>1, <2>2, <2>4 DEF Enforce
<1>4. ASSUME NEW r \in Request, Fail(r) PROVE TypeOK'
  <2>1. user' \in UserRow /\ user'.attempts < MaxAttempts
    BY <1>4 DEF Fail, Failed, UserRow
  <2>. QED
    BY <1>4, <2>1, Constants DEF Fail
<1>5. ASSUME NEW r \in Request, RefuseLocked(r) \/ Succeed(r) \/ NewPassword(r) \/ Cancel(r)
      PROVE TypeOK'
  <2>1. user' = user \/ user' = NoUser
    BY <1>5 DEF RefuseLocked, Succeed, NewPassword, Cancel
  <2>2. user' \in UserRow /\ user'.attempts < MaxAttempts
    BY <2>1, Constants DEF NoUser
  <2>. QED
    BY <1>5, <2>2, Constants DEF RefuseLocked, Succeed, NewPassword, Cancel, Leave
<1>6. ASSUME NEW p \in Replica, TryLock(p) PROVE TypeOK'
  <2>1. [NoPass EXCEPT !.began = clock] \in PassState
    BY Constants DEF PassState
  <2>. QED
    BY <1>6, <2>1 DEF TryLock
<1>7. ASSUME NEW p \in Replica, DeleteBatch(p) PROVE TypeOK'
  <2>1. ~pass.done /\ pass.batches + 1 \in 0 .. MaxBatches
    BY <1>7 DEF DeleteBatch, TimeInv, PassState
  <2>2. PICK old \in SUBSET Windows, last \in BOOLEAN :
           pass' = [pass EXCEPT !.doomed = @ \cup old, !.batches = @ + 1, !.done = last]
    BY <1>7, BatchEffect DEF Expired
  <2>3. pass' \in PassState
    BY <2>1, <2>2 DEF PassState
  <2>. QED
    BY <1>7, <2>3 DEF DeleteBatch
<1>8. ASSUME NEW p \in Replica, CommitPass(p) \/ FailPass(p) PROVE TypeOK'
  <2>1. bucket' \in [Windows -> Nat]
    BY <1>8 DEF CommitPass, FailPass, Without
  <2>. QED
    BY <1>8, <2>1, Constants DEF CommitPass, FailPass
<1>9. ASSUME Advance PROVE TypeOK'
  BY <1>9 DEF Advance
<1>10. CASE UNCHANGED vars
  BY <1>10 DEF vars
<1>. QED
  BY <1>1, <1>2, <1>3, <1>4, <1>5, <1>6, <1>7, <1>8, <1>9, <1>10 DEF Next, Maintain

-----------------------------------------------------------------------------
(* The parts of the inductive invariant *)

LEMMA IInvInit == Init => IInv
<1> SUFFICES ASSUME Init PROVE IInv
  OBVIOUS
<1> USE Policy DEF Init, Waiting, NoUser, NoPass
<1>1. TimeInv
  BY DEF TimeInv, Running
<1>2. GrantInv
  <2>1. \A w \in Windows : Holding(w) = {} /\ admitted[w] = 0 /\ bucket[w] = 0
    BY DEF Holding
  <2>. QED
    BY <2>1, FS_EmptySet DEF GrantInv, Granted
<1>3. DoomedInv /\ LockInv /\ EveryFailureCounted
  BY DEF DoomedInv, LockInv, EveryFailureCounted
<1>. QED
  BY <1>1, <1>2, <1>3 DEF IInv

(* The clock waits for no request, and a pass ends with its last batch.    *)
LEMMA TimeStep == TypeOK /\ TimeInv /\ [Next]_vars => TimeInv'
<1> SUFFICES ASSUME TypeOK, TimeInv PROVE [Next]_vars => TimeInv'
  OBVIOUS
<1> USE Policy DEF TypeOK, RequestState, PassState, TimeInv, Running, maintenance, history
<1>1. ASSUME NEW r \in Request, Arrive(r) PROVE TimeInv'
  BY <1>1 DEF Arrive
<1>2. ASSUME NEW r \in Request, Count(r) PROVE TimeInv'
  BY <1>2 DEF Count
<1>3. ASSUME NEW r \in Request, Enforce(r) PROVE TimeInv'
  BY <1>3 DEF Enforce, Answered, Waiting
<1>4. ASSUME NEW r \in Request,
             Fail(r) \/ RefuseLocked(r) \/ Succeed(r) \/ NewPassword(r) \/ Cancel(r)
      PROVE TimeInv'
  BY <1>4 DEF Fail, RefuseLocked, Succeed, NewPassword, Cancel, Answered, Waiting
<1>5. ASSUME NEW p \in Replica, TryLock(p) \/ CommitPass(p) \/ FailPass(p) PROVE TimeInv'
  BY <1>5 DEF TryLock, CommitPass, FailPass, NoPass
<1>6. ASSUME NEW p \in Replica, DeleteBatch(p) PROVE TimeInv'
  <2>1. PICK old \in SUBSET Expired(pass.began), last \in BOOLEAN :
           /\ pass' = [pass EXCEPT !.doomed = @ \cup old, !.batches = @ + 1, !.done = last]
           /\ last \/ pass.batches + 1 # MaxBatches
    BY <1>6, BatchEffect
  <2>2. pass'.began = pass.began /\ (pass'.done \/ pass'.batches < MaxBatches)
    BY <1>6, <2>1 DEF DeleteBatch
  <2>. QED
    BY <1>6, <2>2 DEF DeleteBatch
<1>7. ASSUME Advance PROVE TimeInv'
  BY <1>7 DEF Advance
<1>8. CASE UNCHANGED vars
  BY <1>8 DEF vars
<1>. QED
  BY <1>1, <1>2, <1>3, <1>4, <1>5, <1>6, <1>7, <1>8 DEF Next, Maintain

(* A pass deletes what had expired when it began, and stays expired.       *)
LEMMA DoomedStep == TypeOK /\ TimeInv /\ DoomedInv /\ [Next]_vars => DoomedInv'
<1> SUFFICES ASSUME TypeOK, TimeInv, DoomedInv PROVE [Next]_vars => DoomedInv'
  OBVIOUS
<1> USE Policy DEF TypeOK, PassState, DoomedInv, ExpiresAt, maintenance, history
<1>1. ASSUME UNCHANGED <<clock, pass>> PROVE DoomedInv'
  BY <1>1
<1>2. ASSUME NEW p \in Replica, TryLock(p) \/ CommitPass(p) \/ FailPass(p) PROVE DoomedInv'
  BY <1>2 DEF TryLock, CommitPass, FailPass, NoPass
<1>3. ASSUME NEW p \in Replica, DeleteBatch(p) PROVE DoomedInv'
  <2>1. \A w \in Expired(pass.began) : ExpiresAt(w) < clock
    BY ExpiresType DEF Expired, TimeInv
  <2>2. pass'.doomed \subseteq pass.doomed \cup Expired(pass.began) /\ clock' = clock
    BY <1>3 DEF DeleteBatch
  <2>. QED
    BY <2>1, <2>2 DEF ExpiresAt
<1>4. ASSUME Advance PROVE DoomedInv'
  <2>1. clock' = clock + 1 /\ pass' = pass
    BY <1>4 DEF Advance
  <2>. QED
    BY <2>1, ExpiresType
<1>5. CASE UNCHANGED vars
  BY <1>5, <1>1 DEF vars
<1>. QED
  BY <1>1, <1>2, <1>3, <1>4, <1>5
     DEF Next, Maintain, Arrive, Count, Enforce, Fail, RefuseLocked, Succeed, NewPassword, Cancel

(* An answer, a refusal or a new password grants nothing, a cancelled       *)
(* request gives back what it held.                                        *)
LEMMA GrantsKept ==
    ASSUME TypeOK, GrantInv, UNCHANGED <<clock, bucket, admitted>>,
           \A w \in Windows : Holding(w)' \subseteq Holding(w)
    PROVE  GrantInv'
<1> SUFFICES ASSUME NEW w \in Windows
             PROVE  /\ IsFiniteSet(Holding(w)')
                    /\ Granted(w)' <= Limit
                    /\ clock' <= ExpiresAt(w) => Granted(w)' <= bucket'[w]
  BY DEF GrantInv, ExpiresAt
<1>1. IsFiniteSet(Holding(w)) /\ Cardinality(Holding(w)) \in Nat
  BY FS_CardinalityType DEF GrantInv
<1>2. IsFiniteSet(Holding(w)') /\ Cardinality(Holding(w)') <= Cardinality(Holding(w))
  BY <1>1, FS_Subset
<1>3. Cardinality(Holding(w)') \in Nat
  BY <1>2, FS_CardinalityType
<1>4. Granted(w)' <= Granted(w) /\ Granted(w) \in Nat /\ Granted(w)' \in Nat
  BY <1>1, <1>2, <1>3 DEF Granted, TypeOK
<1>. QED
  BY <1>2, <1>4, ExpiresType, Policy DEF GrantInv, TypeOK

(* No clean-up deletes a counter that may still be counted by.             *)
LEMMA GrantStep == TypeOK /\ TimeInv /\ DoomedInv /\ GrantInv /\ [Next]_vars => GrantInv'
<1> SUFFICES ASSUME TypeOK, TimeInv, DoomedInv, GrantInv PROVE [Next]_vars => GrantInv'
  OBVIOUS
<1> USE Policy DEF maintenance, history
<1>1. ASSUME UNCHANGED <<clock, bucket, admitted>>,
             \A r \in Request : req'[r] = req[r] \/ req'[r].pc # "counted"
      PROVE GrantInv'
  BY <1>1, GrantsKept DEF Holding
<1>2. ASSUME NEW r \in Request, Count(r) PROVE GrantInv'
  <2> DEFINE v == WindowOf(req[r].start)
             n == bucket[v] + 1
  <2>1. v \in Windows /\ req[r].pc = "count" /\ clock <= ExpiresAt(v)
    BY <1>2, WindowInRange, Outlives DEF Count, TimeInv, Running, TypeOK, RequestState
  <2>2. /\ bucket' = [bucket EXCEPT ![v] = n]
        /\ req' = [req EXCEPT ![r].pc = "counted", ![r].count = n]
        /\ UNCHANGED <<clock, admitted>>
    BY <1>2 DEF Count
  <2>3. /\ req'[r].pc = "counted" /\ req'[r].count = n /\ WindowOf(req'[r].start) = v
        /\ \A q \in Request \ {r} : req'[q] = req[q]
    BY <2>2 DEF TypeOK, RequestState
  <2>4. bucket[v] \in Nat /\ n \in Nat
    BY <2>1 DEF TypeOK
  <2> HIDE DEF v, n
  <2> SUFFICES ASSUME NEW w \in Windows
               PROVE  /\ IsFiniteSet(Holding(w)')
                      /\ Granted(w)' <= Limit
                      /\ clock' <= ExpiresAt(w) => Granted(w)' <= bucket'[w]
    BY DEF GrantInv, ExpiresAt
  <2>5. /\ IsFiniteSet(Holding(w)) /\ Cardinality(Holding(w)) \in Nat /\ admitted[w] \in Nat
        /\ bucket[w] \in Nat /\ ExpiresAt(w) \in Nat /\ clock \in Nat
        /\ Granted(w) = admitted[w] + Cardinality(Holding(w)) /\ Granted(w) <= Limit
        /\ clock <= ExpiresAt(w) => Granted(w) <= bucket[w]
    BY FS_CardinalityType, ExpiresType DEF GrantInv, TypeOK, Granted
  <2>6. CASE w = v /\ n <= Limit
    <3>1. Holding(w)' = Holding(w) \cup {r} /\ r \notin Holding(w)
      BY <2>1, <2>3, <2>6 DEF Holding
    <3>2. IsFiniteSet(Holding(w)') /\ Cardinality(Holding(w)') = Cardinality(Holding(w)) + 1
      BY <2>5, <3>1, FS_AddElement
    <3>3. Granted(w)' = Granted(w) + 1
      BY <2>2, <2>5, <3>2 DEF Granted
    <3>4. bucket'[w] = n /\ n = bucket[w] + 1
      BY <2>2, <2>6 DEF TypeOK, n
    <3>5. Granted(w) <= bucket[w] /\ Granted(w) \in Nat
      BY <2>1, <2>5, <2>6
    <3>. QED
      BY <2>4, <2>5, <2>6, <3>2, <3>3, <3>4, <3>5
  <2>7. CASE ~(w = v /\ n <= Limit)
    <3>1. Holding(w)' = Holding(w)
      BY <2>1, <2>3, <2>7 DEF Holding
    <3>2. Granted(w)' = Granted(w) /\ Granted(w) \in Nat
      BY <2>2, <2>5, <3>1 DEF Granted
    <3>3. bucket[w] <= bucket'[w] /\ bucket'[w] \in Nat
      BY <2>2, <2>4, <2>5 DEF TypeOK, n
    <3>. QED
      BY <2>2, <2>5, <3>1, <3>2, <3>3
  <2>. QED
    BY <2>6, <2>7
<1>3. ASSUME NEW r \in Request, Enforce(r) PROVE GrantInv'
  <2> DEFINE v == WindowOf(req[r].start)
  <2>1. v \in Windows /\ req[r].pc = "counted" /\ clock' = clock
    BY <1>3, WindowInRange DEF Enforce, TypeOK, RequestState
  <2>2. /\ req'[r].pc # "counted"
        /\ \A q \in Request \ {r} : req'[q] = req[q]
    BY <1>3 DEF Enforce, TypeOK, RequestState, Answered, Waiting
  <2>3. admitted' = [admitted EXCEPT ![v] = IF req[r].count <= Limit THEN @ + 1 ELSE @]
    BY <1>3 DEF Enforce
  <2> HIDE DEF v
  <2> SUFFICES ASSUME NEW w \in Windows
               PROVE  /\ IsFiniteSet(Holding(w)')
                      /\ Granted(w)' <= Limit
                      /\ clock' <= ExpiresAt(w) => Granted(w)' <= bucket'[w]
    BY DEF GrantInv, ExpiresAt
  <2>4. /\ IsFiniteSet(Holding(w)) /\ Cardinality(Holding(w)) \in Nat /\ admitted[w] \in Nat
        /\ bucket[w] \in Nat /\ ExpiresAt(w) \in Nat /\ clock \in Nat
        /\ Granted(w) = admitted[w] + Cardinality(Holding(w)) /\ Granted(w) <= Limit
        /\ clock <= ExpiresAt(w) => Granted(w) <= bucket[w]
    BY FS_CardinalityType, ExpiresType DEF GrantInv, TypeOK, Granted
  <2>5. clock <= ExpiresAt(w) => bucket'[w] = bucket[w]
    BY <1>3, <2>4 DEF Enforce, Without, Expired, TypeOK
  <2>6. IsFiniteSet(Holding(w)') /\ Granted(w)' = Granted(w)
    <3>1. CASE w = v /\ req[r].count <= Limit
      <4>1. Holding(w)' = Holding(w) \ {r} /\ r \in Holding(w)
        BY <2>1, <2>2, <3>1 DEF Holding, v
      <4>2. /\ IsFiniteSet(Holding(w)')
            /\ Cardinality(Holding(w)') = Cardinality(Holding(w)) - 1
        BY <2>4, <4>1, FS_RemoveElement
      <4>3. admitted'[w] = admitted[w] + 1
        BY <2>3, <3>1 DEF TypeOK
      <4>. QED
        BY <2>4, <4>2, <4>3 DEF Granted
    <3>2. CASE ~(w = v /\ req[r].count <= Limit)
      <4>1. Holding(w)' = Holding(w)
        BY <2>1, <2>2, <3>2 DEF Holding, v
      <4>2. admitted'[w] = admitted[w]
        BY <2>3, <3>2 DEF TypeOK
      <4>. QED
        BY <2>4, <4>1, <4>2 DEF Granted
    <3>. QED
      BY <3>1, <3>2
  <2>. QED
    BY <2>1, <2>4, <2>5, <2>6
<1>4. ASSUME NEW r \in Request,
             \/ Arrive(r) \/ Fail(r) \/ RefuseLocked(r)
             \/ Succeed(r) \/ NewPassword(r) \/ Cancel(r)
      PROVE GrantInv'
  <2>1. UNCHANGED <<clock, bucket, admitted>>
    BY <1>4 DEF Arrive, Fail, RefuseLocked, Succeed, NewPassword, Cancel
  <2>2. req'[r].pc # "counted" /\ \A q \in Request \ {r} : req'[q] = req[q]
    BY <1>4 DEF Arrive, Fail, RefuseLocked, Succeed, NewPassword, Cancel, Answered, Waiting,
                TypeOK, RequestState
  <2>. QED
    BY <1>1, <2>1, <2>2
<1>5. ASSUME NEW p \in Replica, TryLock(p) \/ DeleteBatch(p) \/ FailPass(p) PROVE GrantInv'
  BY <1>5, <1>1 DEF TryLock, DeleteBatch, FailPass
<1>6. ASSUME NEW p \in Replica, CommitPass(p) PROVE GrantInv'
  <2>1. bucket' = Without(pass.doomed) /\ UNCHANGED <<clock, admitted, req>>
    BY <1>6 DEF CommitPass
  <2>2. \A w \in Windows : clock <= ExpiresAt(w) => bucket'[w] = bucket[w]
    BY <2>1, ExpiresType DEF Without, DoomedInv, TypeOK
  <2>. QED
    BY <2>1, <2>2 DEF GrantInv, Granted, Holding, ExpiresAt
<1>7. ASSUME Advance PROVE GrantInv'
  <2>1. clock' = clock + 1 /\ UNCHANGED <<bucket, admitted, req>>
    BY <1>7 DEF Advance
  <2>2. \A w \in Windows : clock' <= ExpiresAt(w) => clock <= ExpiresAt(w)
    BY <2>1, ExpiresType DEF TypeOK
  <2>. QED
    BY <2>1, <2>2 DEF GrantInv, Granted, Holding, ExpiresAt
<1>8. CASE UNCHANGED vars
  BY <1>8, <1>1 DEF vars
<1>. QED
  BY <1>2, <1>3, <1>4, <1>5, <1>6, <1>7, <1>8 DEF Next, Maintain

(* Whoever reads the row after a lock reads that lock; the others are early. *)
LEMMA LockStep == TypeOK /\ LockInv /\ [Next]_vars => LockInv'
<1> SUFFICES ASSUME TypeOK, LockInv PROVE [Next]_vars => LockInv'
  OBVIOUS
<1> USE Policy DEF TypeOK, RequestState, UserRow, LockInv, maintenance, history
<1>1. ASSUME UNCHANGED <<clock, user, early>>,
             \A r \in Request : req'[r] = req[r] \/ req'[r].pc # "verify"
      PROVE LockInv'
  BY <1>1
<1>2. ASSUME NEW r \in Request, Arrive(r) \/ Count(r) PROVE LockInv'
  <2>1. req'[r].pc # "verify" /\ \A q \in Request \ {r} : req'[q] = req[q]
    BY <1>2 DEF Arrive, Count
  <2>. QED
    BY <1>1, <1>2, <2>1 DEF Arrive, Count
<1>3. ASSUME NEW r \in Request, Enforce(r) PROVE LockInv'
  <2>1. /\ req'[r].pc = "verify" => req'[r].seen = user
        /\ \A q \in Request \ {r} : req'[q] = req[q]
        /\ UNCHANGED <<clock, user, early>>
    BY <1>3 DEF Enforce, Answered, Waiting
  <2>. QED
    BY <2>1
<1>4. ASSUME NEW r \in Request, Fail(r) PROVE LockInv'
  <2>1. /\ req'[r].pc = "answered"
        /\ \A q \in Request \ {r} : req'[q] = req[q]
        /\ clock' = clock
    BY <1>4 DEF Fail, Answered, Waiting
  <2>2. CASE user.attempts + 1 >= MaxAttempts
    BY <1>4, <2>1, <2>2 DEF Fail, Failed
  <2>3. CASE ~(user.attempts + 1 >= MaxAttempts)
    BY <1>4, <2>1, <2>3 DEF Fail, Failed
  <2>. QED
    BY <2>2, <2>3
<1>5. ASSUME NEW r \in Request, RefuseLocked(r) \/ Succeed(r) \/ NewPassword(r) \/ Cancel(r)
      PROVE LockInv'
  <2>1. /\ req'[r].pc = "answered"
        /\ \A q \in Request \ {r} : req'[q] = req[q]
        /\ clock' = clock /\ early \ {r} \subseteq early'
        /\ user' = user \/ user'.locked = 0
    BY <1>5 DEF RefuseLocked, Succeed, NewPassword, Cancel, Leave, Answered, Waiting, NoUser
  <2>. QED
    BY <2>1
<1>6. ASSUME NEW p \in Replica, Maintain(p) \/ FailPass(p) PROVE LockInv'
  BY <1>6, <1>1 DEF Maintain, TryLock, DeleteBatch, CommitPass, FailPass
<1>7. ASSUME Advance PROVE LockInv'
  BY <1>7 DEF Advance
<1>8. CASE UNCHANGED vars
  BY <1>8, <1>1 DEF vars
<1>. QED
  BY <1>2, <1>3, <1>4, <1>5, <1>6, <1>7, <1>8 DEF Next

(* The statement of record_failed_login counts from the row as it is.      *)
LEMMA CountStep == TypeOK /\ EveryFailureCounted /\ [Next]_vars => EveryFailureCounted'
<1> SUFFICES ASSUME TypeOK, EveryFailureCounted PROVE [Next]_vars => EveryFailureCounted'
  OBVIOUS
<1> USE Policy DEF TypeOK, UserRow, EveryFailureCounted, maintenance, history
<1>1. ASSUME UNCHANGED <<user, fails, locks>> PROVE EveryFailureCounted'
  BY <1>1
<1>2. ASSUME NEW r \in Request, Fail(r) PROVE EveryFailureCounted'
  <2>1. CASE user.attempts + 1 >= MaxAttempts
    <3>1. user'.attempts = 0 /\ locks' = locks + 1 /\ fails' = fails + 1
      BY <1>2, <2>1 DEF Fail, Failed
    <3>2. user.attempts + 1 = MaxAttempts
      BY <2>1
    <3>3. MaxAttempts * (locks + 1) = MaxAttempts * locks + MaxAttempts
      BY Z3
    <3>4. MaxAttempts * locks \in Nat
      BY Z3
    <3>. QED
      BY <3>1, <3>2, <3>3, <3>4
  <2>2. CASE ~(user.attempts + 1 >= MaxAttempts)
    <3>1. user'.attempts = user.attempts + 1 /\ locks' = locks /\ fails' = fails + 1
      BY <1>2, <2>2 DEF Fail, Failed
    <3>2. MaxAttempts * locks \in Nat
      BY Z3
    <3>. QED
      BY <3>1, <3>2
  <2>. QED
    BY <2>1, <2>2
<1>3. ASSUME NEW r \in Request, Succeed(r) \/ NewPassword(r) PROVE EveryFailureCounted'
  BY <1>3 DEF Succeed, NewPassword, NoUser
<1>4. CASE UNCHANGED vars
  BY <1>4 DEF vars
<1>. QED
  BY <1>1, <1>2, <1>3, <1>4
     DEF Next, Maintain, Arrive, Count, Enforce, RefuseLocked, Cancel,
         TryLock, DeleteBatch, CommitPass, FailPass, Advance

-----------------------------------------------------------------------------
(* Theorems *)

(* The types and IInv hold of every behaviour of Limits.                   *)
THEOREM Inductive == Spec => [](TypeOK /\ IInv)
<1>1. Init => TypeOK /\ IInv
  BY TypeInit, IInvInit
<1>2. TypeOK /\ IInv /\ [Next]_vars => TypeOK' /\ IInv'
  BY TypeStep, TimeStep, GrantStep, DoomedStep, LockStep, CountStep DEF IInv
<1>. QED
  BY <1>1, <1>2, PTL DEF Spec

(* Every variable of Limits keeps its type; an account is never one failure *)
(* past the lock that record_failed_login sets.                            *)
THEOREM TypeCorrect == Spec => []TypeOK
BY Inductive, PTL

(* rate_limit.rs: a window lets through no more logins than its limit,      *)
(* whichever clean-ups run meanwhile.                                      *)
THEOREM WindowsLimited == Spec => []WindowLimit
<1>1. TypeOK /\ IInv => WindowLimit
  <2> SUFFICES ASSUME TypeOK, IInv, NEW w \in Windows PROVE admitted[w] <= Limit
    BY DEF WindowLimit
  <2>1. Cardinality(Holding(w)) \in Nat /\ admitted[w] \in Nat
    BY FS_CardinalityType DEF IInv, GrantInv, TypeOK
  <2>. QED
    BY <2>1, Policy DEF IInv, GrantInv, Granted
<1>. QED
  BY <1>1, Inductive, PTL

(* record_failed_login (service.rs) loses no failure.                      *)
THEOREM NoFailureLost == Spec => []EveryFailureCounted
<1>1. IInv => EveryFailureCounted
  BY DEF IInv
<1>. QED
  BY <1>1, Inductive, PTL

(* A lock is lifted early only by a new password or by a login that read   *)
(* the users row before the lock was set.                                  *)
THEOREM LocksHold == Spec => LockHolds
<1>1. TypeOK /\ IInv /\ [Next]_vars =>
         [user.locked > clock /\ user'.locked < user.locked
          => \E r \in Request :
                /\ req[r].pc = "idle" \/ (req[r].pc = "verify" /\ r \in early)
                /\ req'[r].pc = "answered"]_vars
  <2> SUFFICES ASSUME TypeOK, LockInv, Next, user.locked > clock, user'.locked < user.locked
               PROVE  \E r \in Request :
                         /\ req[r].pc = "idle" \/ (req[r].pc = "verify" /\ r \in early)
                         /\ req'[r].pc = "answered"
    BY DEF IInv
  <2> USE Policy DEF TypeOK, UserRow, maintenance, history
  <2>1. user'.locked # user.locked
    OBVIOUS
  <2>2. ASSUME NEW r \in Request, Fail(r) PROVE FALSE
    BY <2>2 DEF Fail, Failed, LockInv
  <2>3. ASSUME NEW r \in Request, Succeed(r)
        PROVE req[r].pc = "verify" /\ r \in early /\ req'[r].pc = "answered"
    BY <2>3 DEF Succeed, Locked, LockInv, Answered, Waiting, RequestState
  <2>4. ASSUME NEW r \in Request, NewPassword(r)
        PROVE req[r].pc = "idle" /\ req'[r].pc = "answered"
    BY <2>4 DEF NewPassword, Answered, Waiting
  <2>. QED
    BY <2>1, <2>2, <2>3, <2>4
       DEF Next, Maintain, Arrive, Count, Enforce, RefuseLocked, Cancel,
           TryLock, DeleteBatch, CommitPass, FailPass, Advance
<1>. QED
  BY <1>1, Inductive, PTL DEF Spec, LockHolds

=============================================================================

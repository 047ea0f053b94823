---------------------------- MODULE BrowserProofs ----------------------------
(***************************************************************************)
(* Proofs about Browser, for any number of tabs, calls and sessions: IInv  *)
(* is inductive together with TypeOK, and from it a tab never shows an     *)
(* account it cannot use and no session is forgotten alive.                *)
(***************************************************************************)
EXTENDS Browser, TLAPS

(* The parts of a call that is not made, and of one that has just been.    *)
LEMMA IdleCall ==
    /\ Idle \in CallType
    /\ Idle.op = "none" /\ Idle.tab = None /\ Idle.with = None /\ Idle.jar = None
    /\ Idle.phase = "sent" /\ Idle.got = None /\ Idle.late = FALSE
BY DEF Idle, CallType

LEMMA NewCallFields ==
    ASSUME NEW t, NEW o, NEW s
    PROVE  LET n == NewCall(t, o, s) IN
           /\ n.op = o /\ n.tab = t /\ n.with = s
           /\ n.jar = IF o \in CookieOps THEN cookie ELSE None
           /\ n.phase = "sent" /\ n.got = None
           /\ n.late = (o = "signin" /\ stored[t] # None)
BY DEF NewCall, Idle

LEMMA NewCallType ==
    ASSUME TypeOK, NEW t \in Tab, NEW o \in Operations, NEW s \in Session \cup {None}
    PROVE  NewCall(t, o, s) \in CallType
<1> DEFINE j == IF o \in CookieOps THEN cookie ELSE None
           l == o = "signin" /\ stored[t] # None
<1>1. j \in Session \cup {None} /\ l \in BOOLEAN
  BY DEF TypeOK
<1>2. NewCall(t, o, s) = [Idle EXCEPT !.op = o, !.tab = t, !.with = s, !.jar = j, !.late = l]
  BY DEF NewCall
<1> HIDE DEF j, l
<1>. QED
  BY <1>1, <1>2 DEF CallType, Idle

-----------------------------------------------------------------------------
(* What each kind of step does to the calls and to the ledger *)

\* A session that is there may end in this step.
MayEnd(x) == state'[x] = state[x] \/ (state[x] # "none" /\ state'[x] = "revoked")

\* The step resolves call c.
Resolved(c, phase, s) ==
    /\ call[c].op # "none" /\ call[c].phase = "sent"
    /\ call'[c].op = call[c].op /\ call'[c].tab = call[c].tab
    /\ call'[c].with = call[c].with /\ call'[c].jar = call[c].jar
    /\ call'[c].late = call[c].late
    /\ call'[c].phase = phase /\ call'[c].got = s
    /\ \A d \in Call \ {c} : call'[d] = call[d]

\* Call c is served with the new session s.
Opens(c, s) ==
    /\ call[c].op \in Issuers
    /\ account # "deleted" /\ account' = "present"
    /\ state[s] = "none" /\ state'[s] = "live"
    /\ \A x \in Session \ {s} : MayEnd(x)
    /\ call[c].op \in {"load", "refresh"} =>
          /\ state[call[c].with] = "live" /\ state'[call[c].with] = "revoked"
          /\ \A x \in Session \ {s, call[c].with} : state'[x] = state[x]
    /\ call[c].op = "signin" => \A x \in Session \ {s} : state'[x] = state[x]
    /\ call[c].op = "change" =>
          /\ state[call[c].with] = "live"
          /\ \A x \in Session \ {s} : state'[x] # "live"
    /\ Resolved(c, "ok", s)

\* Call c is served without one.
Closes(c) ==
    /\ call[c].op \in {"logout", "others", "reset", "delete", "edit", "verify"}
    /\ call[c].op # "delete" => account' = account /\ \A x \in Session : MayEnd(x)
    /\ call[c].op = "delete" =>
          /\ state[call[c].with] = "live"
          /\ account' = "deleted" /\ \A x \in Session : state'[x] = "none"
    /\ call[c].op = "logout" =>
          /\ state[call[c].with] = "live" /\ state'[call[c].with] = "revoked"
          /\ \A x \in Session \ {call[c].with} : state'[x] = state[x]
    /\ call[c].op = "others" =>
          state[call[c].with] = "live" /\ state'[call[c].with] = "live"
    /\ call[c].op = "reset" => \A x \in Session : state'[x] # "live"
    /\ call[c].op \in {"edit", "verify"} => state' = state
    /\ Resolved(c, "ok", None)

LEMMA ResolveEffect ==
    ASSUME TypeOK, NEW c \in Call, NEW phase, NEW s,
           call[c].op # "none", call[c].phase = "sent", Resolve(c, phase, s)
    PROVE  Resolved(c, phase, s)
BY DEF TypeOK, CallType, Resolve, Resolved

LEMMA ServeEffect ==
    ASSUME TypeOK, NEW c \in Call, CallInv, Serve(c)
    PROVE  /\ (\E s \in Session : Opens(c, s)) \/ Closes(c)
           /\ UNCHANGED <<cookie, page, faults, history>>
<1>1. call[c].op # "none" /\ call[c].phase = "sent" /\ Valid(c)
      /\ UNCHANGED <<cookie, page, faults, history>>
  BY DEF Serve
<1>t. state \in [Session -> {"none", "live", "expired", "revoked"}] /\ issued \in [Session -> Nat]
  BY DEF TypeOK
<1>2. call[c] \in CallType /\ call[c].with \in Session \cup {None}
  BY DEF TypeOK, CallType
<1>3. ASSUME call[c].op \in CookieOps
      PROVE  /\ call[c].jar = call[c].with /\ call[c].with \in Session
             /\ state[call[c].with] = "live"
  BY <1>1, <1>2, <1>3 DEF Valid, CookieValid, CookieOps, SecurityOps
<1>4. ASSUME call[c].op \in SecurityOps
      PROVE  /\ call[c].with \in Session /\ state[call[c].with] = "live"
  <2>1. call[c].with # None
    BY <1>4 DEF CallInv, Bound
  <2>. QED
    BY <1>1, <1>2, <1>4, <2>1 DEF Valid, BearerValid, CookieOps, SecurityOps
<1>5. ASSUME call[c].op \in Issuers, NEW s \in Session, state[s] = "none",
             Resolve(c, "ok", s),
             \/ call[c].op = "signin" /\ (Server!SignUp(s) \/ Server!SignIn(s, version))
             \/ call[c].op \in {"load", "refresh"} /\ Server!Rotate(call[c].jar, s, version)
             \/ call[c].op = "change" /\ Server!ChangePassword(Open, s)
      PROVE  Opens(c, s)
  <2>1. Resolved(c, "ok", s)
    BY <1>1, <1>5, ResolveEffect
  <2>2. CASE call[c].op = "signin"
    <3>1. Server!SignUp(s) \/ Server!SignIn(s, version)
      BY <1>5, <2>2
    <3>2. account # "deleted" /\ account' = "present"
          /\ \A x \in Session : state'[x] = IF x = s THEN "live" ELSE state[x]
      BY <1>5, <1>t, <3>1 DEF Server!SignUp, Server!SignIn, Server!Entry
    <3>. QED
      BY <1>5, <2>1, <2>2, <3>2 DEF Opens, MayEnd
  <2>3. CASE call[c].op \in {"load", "refresh"}
    <3>1. Server!Rotate(call[c].jar, s, version)
      BY <1>5, <2>3
    <3>2. /\ call[c].jar = call[c].with /\ call[c].with \in Session
          /\ state[call[c].with] = "live"
      BY <1>3, <2>3 DEF CookieOps
    <3>3. account # "deleted" /\ account' = "present"
          /\ \A x \in Session : state'[x] = IF x = s THEN "live"
                                            ELSE IF x = call[c].with THEN "revoked" ELSE state[x]
      BY <3>1, <3>2 DEF Server!Rotate, Server!Entry
    <3>. QED
      BY <1>5, <2>1, <2>3, <3>2, <3>3 DEF Opens, MayEnd
  <2>4. CASE call[c].op = "change"
    <3>1. Server!ChangePassword(Open, s)
      BY <1>5, <2>4
    <3>2. call[c].with \in Session /\ state[call[c].with] = "live"
      BY <1>4, <2>4 DEF SecurityOps
    <3>3. account # "deleted" /\ account' = "present"
          /\ \A x \in Session : state'[x] = IF x = s THEN "live"
                                            ELSE IF x \in Open THEN "revoked" ELSE state[x]
      BY <3>1 DEF Server!ChangePassword, Server!Entry
    <3>4. \A x \in Session : x \in Open <=> state[x] \in {"live", "expired"}
      BY DEF Open, Server!Open
    <3>. QED
      BY <1>5, <2>1, <2>4, <3>2, <3>3, <3>4 DEF Opens, MayEnd
  <2>. QED
    BY <1>5, <2>2, <2>3, <2>4
<1>6. ASSUME Resolve(c, "ok", None),
             \/ call[c].op = "logout" /\ Server!EndSessions({call[c].jar})
             \/ call[c].op = "others" /\ Server!EndSessions(Open \ {call[c].with})
             \/ call[c].op = "reset" /\ Server!ResetPassword(Open)
             \/ call[c].op = "delete" /\ Server!Close
             \/ call[c].op \in {"edit", "verify"} /\ UNCHANGED server
      PROVE  Closes(c)
  <2>1. Resolved(c, "ok", None)
    BY <1>1, <1>6, ResolveEffect
  <2>2. \A x \in Session : x \in Open <=> state[x] \in {"live", "expired"}
    BY DEF Open, Server!Open
  <2>3. CASE call[c].op = "logout"
    <3>1. Server!EndSessions({call[c].jar})
      BY <1>6, <2>3
    <3>2. /\ call[c].jar = call[c].with /\ call[c].with \in Session
          /\ state[call[c].with] = "live"
      BY <1>3, <2>3 DEF CookieOps
    <3>3. account' = account
          /\ \A x \in Session : state'[x] = IF x = call[c].with THEN "revoked" ELSE state[x]
      BY <3>1, <3>2 DEF Server!EndSessions
    <3>. QED
      BY <2>1, <2>3, <3>2, <3>3 DEF Closes, MayEnd
  <2>4. CASE call[c].op = "others"
    <3>1. Server!EndSessions(Open \ {call[c].with})
      BY <1>6, <2>4
    <3>2. call[c].with \in Session /\ state[call[c].with] = "live"
      BY <1>4, <2>4 DEF SecurityOps
    <3>3. account' = account
          /\ \A x \in Session : state'[x] = IF x \in Open /\ x # call[c].with
                                            THEN "revoked" ELSE state[x]
      BY <3>1 DEF Server!EndSessions
    <3>. QED
      BY <2>1, <2>2, <2>4, <3>2, <3>3 DEF Closes, MayEnd
  <2>5. CASE call[c].op = "reset"
    <3>1. account' = account
          /\ \A x \in Session : state'[x] = IF x \in Open THEN "revoked" ELSE state[x]
      BY <1>6, <2>5 DEF Server!ResetPassword
    <3>. QED
      BY <2>1, <2>2, <2>5, <3>1 DEF Closes, MayEnd
  <2>6. CASE call[c].op = "delete"
    <3>1. call[c].with \in Session /\ state[call[c].with] = "live"
      BY <1>4, <2>6 DEF SecurityOps
    <3>2. account' = "deleted" /\ \A x \in Session : state'[x] = "none"
      BY <1>6, <2>6 DEF Server!Close
    <3>. QED
      BY <2>1, <2>6, <3>1, <3>2 DEF Closes
  <2>7. CASE call[c].op \in {"edit", "verify"}
    <3>1. account' = account /\ state' = state
      BY <1>6, <2>7 DEF server
    <3>. QED
      BY <2>1, <2>7, <3>1 DEF Closes, MayEnd
  <2>. QED
    BY <1>6, <2>3, <2>4, <2>5, <2>6, <2>7
<1>. QED
  BY <1>1, <1>5, <1>6 DEF Serve

\* The server refuses call c, for good or for no good reason.
LEMMA RefusalEffect ==
    ASSUME TypeOK, NEW c \in Call, Reject(c) \/ Refuse(c)
    PROVE  /\ Resolved(c, "refused", None)
           /\ UNCHANGED <<server, cookie, page, ended>>
           /\ cause \subseteq cause'
           /\ "refused" \in cause' \/ (cause' = cause /\ (~Valid(c) \/ call[c].op = "verify"))
<1>1. CASE Reject(c)
  <2>1. Resolved(c, "refused", None)
    BY <1>1, ResolveEffect DEF Reject
  <2>. QED
    BY <1>1, <2>1 DEF Reject, history
<1>2. CASE Refuse(c)
  <2>1. Resolved(c, "refused", None)
    BY <1>2, ResolveEffect DEF Refuse
  <2>. QED
    BY <1>2, <2>1 DEF Refuse, Because
<1>. QED
  BY <1>1, <1>2

\* Tab t makes call c, an operation o for session s.
Asked(c, t, o, s) ==
    /\ call[c] = Idle /\ call' = [call EXCEPT ![c] = NewCall(t, o, s)]
    /\ cause \subseteq {"tab"} /\ cause \subseteq cause' /\ cause' \subseteq {"tab"}
    /\ Shared(t) => "tab" \in cause'
    /\ o \in {"refresh", "logout", "signin", "reset"} \cup SecurityOps
    /\ o \in {"signin", "reset"} => s = None
    /\ o \notin {"signin", "reset"} => s = shown[t] /\ s # None
    /\ link[t] = "reset" => o = "reset"
    /\ o = "reset" => link[t] = "reset" /\ ~panel[t] /\ panel'[t]
    /\ \A u \in Tab : panel[u] => panel'[u]
    /\ UNCHANGED <<server, cookie, stored, shown, link, faults, ended>>

LEMMA AskEffect ==
    ASSUME TypeOK, PageInv, NEW c \in Call, NEW t \in Tab,
           \/ Tick(c, t) \/ SignIn(c, t) \/ Logout(c, t) \/ ConfirmRecovery(c, t)
           \/ \E o \in SecurityOps : Secure(c, t, o)
    PROVE  \E o \in Operations, s \in Session \cup {None} : Asked(c, t, o, s)
<1>t. shown[t] \in Session \cup {None} /\ None \in Session \cup {None}
      /\ panel \in [Tab -> BOOLEAN]
  BY DEF TypeOK
<1>o. "refresh" \in Operations /\ "logout" \in Operations /\ "signin" \in Operations
      /\ "reset" \in Operations /\ SecurityOps \subseteq Operations
  BY DEF Operations, CookieOps
<1>p. ASSUME NEW o, NEW s, Post(c, t, o, s)
      PROVE  /\ call[c] = Idle /\ call' = [call EXCEPT ![c] = NewCall(t, o, s)]
             /\ cause \subseteq {"tab"} /\ cause \subseteq cause' /\ cause' \subseteq {"tab"}
             /\ Shared(t) => "tab" \in cause'
             /\ UNCHANGED <<server, cookie, stored, shown, link, faults, ended>>
  BY <1>p DEF Post, Free, Going, Because
<1>s. shown[t] # None => link[t] # "reset"
  BY DEF PageInv
<1>1. CASE Tick(c, t)
  <2>1. Asked(c, t, "refresh", shown[t])
    BY <1>1, <1>p, <1>s DEF Tick, Asked
  <2>. QED
    BY <1>t, <1>o, <2>1
<1>2. CASE SignIn(c, t)
  <2>1. Asked(c, t, "signin", None)
    BY <1>2, <1>p, <1>t DEF SignIn, Asked
  <2>. QED
    BY <1>t, <1>o, <2>1
<1>3. CASE Logout(c, t)
  <2>1. Asked(c, t, "logout", shown[t])
    BY <1>3, <1>p, <1>t DEF Logout, Asked
  <2>. QED
    BY <1>t, <1>o, <2>1
<1>4. CASE ConfirmRecovery(c, t)
  <2>1. Asked(c, t, "reset", None)
    BY <1>4, <1>p, <1>t DEF ConfirmRecovery, Asked
  <2>. QED
    BY <1>t, <1>o, <2>1
<1>5. ASSUME NEW o \in SecurityOps, Secure(c, t, o)
      PROVE  Asked(c, t, o, shown[t])
  <2>1. o \notin {"signin", "reset"}
    BY DEF SecurityOps
  <2>. QED
    BY <1>5, <1>p, <2>1 DEF Secure, Asked
<1>. QED
  BY <1>1, <1>2, <1>3, <1>4, <1>5, <1>t, <1>o

\* Page t starts, by a link or by none, with session s in its storage.
Mounted(c, t, s, a) ==
    /\ call[c] = Idle
    /\ a \in {"none", "verify", "reset"}
    /\ s \in Session \cup {None}
    /\ s # stored[t] => stored[t] = None /\ \E u \in Tab : stored[u] = s
    /\ cause \subseteq {"tab"} /\ cause \subseteq cause'
    /\ cause' \subseteq {"tab", "lost"}
    /\ Shared(t) => "tab" \in cause'
    /\ \A d \in InFlight(t) : call[d].op \notin Harmless => "lost" \in cause'
    /\ stored' = [stored EXCEPT ![t] = s]
    /\ shown' = [shown EXCEPT ![t] = None]
    /\ link' = [link EXCEPT ![t] = a]
    /\ panel' = [panel EXCEPT ![t] = FALSE]
    /\ call'[c] = IF a = "verify" THEN NewCall(t, "verify", None)
                  ELSE IF a = "none" /\ s # None THEN NewCall(t, "load", s) ELSE Idle
    /\ call' = [d \in Call |-> IF d = c THEN call'[c]
                               ELSE IF d \notin InFlight(t) THEN call[d]
                               ELSE IF call[d].op \in Harmless THEN Idle
                               ELSE [call[d] EXCEPT !.tab = None]]
    /\ UNCHANGED <<server, cookie, faults, ended>>

LEMMA MountEffect ==
    ASSUME TypeOK, NEW c \in Call, NEW t \in Tab,
           \/ Reload(c, t)
           \/ \E u \in Tab : Duplicate(c, t, u)
           \/ \E a \in {"verify", "reset"} : OpenLink(c, t, a)
    PROVE  \E s \in Session \cup {None}, a \in {"none", "verify", "reset"} : Mounted(c, t, s, a)
<1>1. ASSUME NEW s \in Session \cup {None}, NEW a \in {"none", "verify", "reset"},
             Mount(c, t, s, a), s # stored[t] => (stored[t] = None /\ \E u \in Tab : stored[u] = s)
      PROVE  Mounted(c, t, s, a)
  <2> DEFINE first == IF a = "verify" THEN {NewCall(t, "verify", None)}
                      ELSE IF a = "none" /\ s # None
                      THEN {NewCall(t, "load", s)} ELSE {}
             one == CHOOSE n \in first : TRUE
  <2>1. /\ call[c] = Idle /\ cause \subseteq {"tab"}
        /\ stored' = [stored EXCEPT ![t] = s] /\ shown' = [shown EXCEPT ![t] = None]
        /\ link' = [link EXCEPT ![t] = a] /\ panel' = [panel EXCEPT ![t] = FALSE]
        /\ call' = [d \in Call |-> IF d = c /\ first # {} THEN one
                               ELSE IF d \notin InFlight(t) THEN call[d]
                               ELSE IF call[d].op \in Harmless THEN Idle
                               ELSE [call[d] EXCEPT !.tab = None]]
        /\ cause' = (cause
             \cup {w \in {"lost"} : \E d \in InFlight(t) : call[d].op \notin Harmless})
             \cup {w \in {"tab"} : Shared(t)}
        /\ UNCHANGED <<server, cookie, faults, ended>>
    BY <1>1 DEF Mount, Free, Going
  <2>2. c \notin InFlight(t)
    BY <2>1, IdleCall, NoneAssumption DEF InFlight
  <2>3. call'[c] = IF first # {} THEN one ELSE Idle
    BY <2>1, <2>2
  <2>4. call'[c] = IF a = "verify" THEN NewCall(t, "verify", None)
                   ELSE IF a = "none" /\ s # None THEN NewCall(t, "load", s) ELSE Idle
    <3>1. CASE a = "verify"
      <4>1. first = {NewCall(t, "verify", None)}
        BY <3>1
      <4>2. one = NewCall(t, "verify", None)
        BY <4>1
      <4>. QED
        BY <2>3, <3>1, <4>1, <4>2
    <3>2. CASE a # "verify" /\ a = "none" /\ s # None
      <4>1. first = {NewCall(t, "load", s)}
        BY <3>2
      <4>2. one = NewCall(t, "load", s)
        BY <4>1
      <4>. QED
        BY <2>3, <3>2, <4>1, <4>2
    <3>3. CASE a # "verify" /\ ~(a = "none" /\ s # None)
      BY <2>3, <3>3
    <3>. QED
      BY <3>1, <3>2, <3>3
  <2>5. call' = [d \in Call |-> IF d = c THEN call'[c]
                               ELSE IF d \notin InFlight(t) THEN call[d]
                               ELSE IF call[d].op \in Harmless THEN Idle
                               ELSE [call[d] EXCEPT !.tab = None]]
    BY <2>1, <2>2
  <2> HIDE DEF first, one
  <2>6. /\ cause \subseteq cause' /\ cause' \subseteq {"tab", "lost"}
        /\ Shared(t) => "tab" \in cause'
        /\ \A d \in InFlight(t) : call[d].op \notin Harmless => "lost" \in cause'
    BY <2>1
  <2>. QED
    BY <1>1, <2>1, <2>4, <2>5, <2>6 DEF Mounted
<1>t. \A u \in Tab : stored[u] \in Session \cup {None}
  BY DEF TypeOK
<1>2. CASE Reload(c, t)
  BY <1>1, <1>2, <1>t DEF Reload
<1>3. ASSUME NEW u \in Tab, Duplicate(c, t, u)
      PROVE  Mounted(c, t, stored[u], "none")
  BY <1>1, <1>3, <1>t DEF Duplicate
<1>4. ASSUME NEW a \in {"verify", "reset"}, OpenLink(c, t, a)
      PROVE  Mounted(c, t, stored[t], a)
  BY <1>1, <1>4, <1>t DEF OpenLink
<1>. QED
  BY <1>2, <1>3, <1>4, <1>t

\* What Mounted says of the calls, one by one.
LEMMA MountedCalls ==
    ASSUME TypeOK, NEW c \in Call, NEW t \in Tab, NEW s, NEW a, Mounted(c, t, s, a),
           NEW d \in Call \ {c}
    PROVE  /\ d \notin InFlight(t) => call'[d] = call[d]
           /\ d \in InFlight(t) /\ call[d].op \in Harmless => call'[d] = Idle
           /\ d \in InFlight(t) /\ call[d].op \notin Harmless =>
                 /\ call'[d].tab = None
                 /\ call'[d].op = call[d].op /\ call'[d].with = call[d].with
                 /\ call'[d].jar = call[d].jar /\ call'[d].phase = call[d].phase
                 /\ call'[d].got = call[d].got /\ call'[d].late = call[d].late
<1>1. call[d] \in CallType
  BY DEF TypeOK
<1>2. call'[d] = IF d \notin InFlight(t) THEN call[d]
                 ELSE IF call[d].op \in Harmless THEN Idle
                 ELSE [call[d] EXCEPT !.tab = None]
  BY DEF Mounted
<1>. QED
  BY <1>1, <1>2 DEF CallType

\* The page of call c handles what became of it.
Handled(c, ok) ==
    LET t == call[c].tab IN
    /\ t \in Tab /\ c \in InFlight(t)
    /\ call[c].op \notin {"none", "verify"}
    /\ Shows(c, ok) \/ Clears(c, ok) =>
          LET s == IF Shows(c, ok) THEN Brought(c) ELSE None
          IN stored' = [stored EXCEPT ![t] = s] /\ shown' = [shown EXCEPT ![t] = s]
    /\ ~Shows(c, ok) /\ ~Clears(c, ok) => stored' = stored /\ shown' = shown
    /\ Shows(c, ok) => ~Clears(c, ok)
    /\ panel' = [panel EXCEPT ![t] = @ /\ call[c].op \notin {"signin", "logout", "reset"}]
    /\ link' = [link EXCEPT ![t] = IF ok /\ call[c].op = "reset" THEN "none" ELSE @]
    /\ call'[c] = Idle
    /\ \A d \in Call \ {c} :
          /\ call'[d].tab = call[d].tab /\ call'[d].op = call[d].op
          /\ call'[d].with = call[d].with /\ call'[d].jar = call[d].jar
          /\ call'[d].phase = call[d].phase /\ call'[d].got = call[d].got
          /\ d \in InFlight(t) /\ (Shows(c, ok) \/ Clears(c, ok)) => call'[d].late
          /\ ~(d \in InFlight(t) /\ (Shows(c, ok) \/ Clears(c, ok))) => call'[d] = call[d]
    /\ account' = account /\ state' = state /\ cause \subseteq cause' /\ ended' = ended

LEMMA HandleEffect ==
    ASSUME TypeOK, NEW c \in Call, NEW ok \in BOOLEAN, Handle(c, ok),
           call[c].tab # None, call[c].op \notin {"none", "verify"},
           UNCHANGED <<server, ended>>, cause \subseteq cause'
    PROVE  Handled(c, ok)
<1> DEFINE t == call[c].tab
           moved == Shows(c, ok) \/ Clears(c, ok)
<1>1. call[c] \in CallType /\ t \in Tab /\ c \in InFlight(t)
  <2>1. call[c] \in CallType
    BY DEF TypeOK
  <2>. QED
    BY <2>1 DEF CallType, InFlight
<1>2. Shows(c, ok) => ~Clears(c, ok)
  BY DEF Shows, Clears, Issuers, Removers
<1>3. call' = [d \in Call |-> IF d = c THEN Idle
                              ELSE IF d \in InFlight(t) /\ moved
                              THEN [call[d] EXCEPT !.late = TRUE] ELSE call[d]]
      /\ panel' = [panel EXCEPT ![t] = @ /\ call[c].op \notin {"signin", "logout", "reset"}]
      /\ link' = [link EXCEPT ![t] = IF ok /\ call[c].op = "reset" THEN "none" ELSE @]
  BY DEF Handle
<1>4. \/ Shows(c, ok) /\ SetAuthenticated(t, Brought(c))
      \/ Clears(c, ok) /\ SetAuthenticated(t, None)
      \/ ~Shows(c, ok) /\ ~Clears(c, ok) /\ UNCHANGED <<stored, shown>>
  BY DEF Handle, ClearAuth
<1> HIDE DEF t, moved
<1>5. ASSUME NEW d \in Call \ {c}
      PROVE  /\ call'[d].tab = call[d].tab /\ call'[d].op = call[d].op
             /\ call'[d].with = call[d].with /\ call'[d].jar = call[d].jar
             /\ call'[d].phase = call[d].phase /\ call'[d].got = call[d].got
             /\ d \in InFlight(t) /\ moved => call'[d].late
             /\ ~(d \in InFlight(t) /\ moved) => call'[d] = call[d]
  <2>1. call[d] \in CallType
    BY DEF TypeOK
  <2>2. call'[d] = IF d \in InFlight(t) /\ moved THEN [call[d] EXCEPT !.late = TRUE] ELSE call[d]
    BY <1>3
  <2>. QED
    BY <2>1, <2>2 DEF CallType
<1>6. call'[c] = Idle
  BY <1>3
<1>7. moved => LET s == IF Shows(c, ok) THEN Brought(c) ELSE None
               IN stored' = [stored EXCEPT ![t] = s] /\ shown' = [shown EXCEPT ![t] = s]
  BY <1>2, <1>4 DEF SetAuthenticated, moved
<1>8. ~Shows(c, ok) /\ ~Clears(c, ok) => stored' = stored /\ shown' = shown
  BY <1>4
<1>9. account' = account /\ state' = state
  BY DEF server
<1>. QED
  BY <1>1, <1>2, <1>3, <1>5, <1>6, <1>7, <1>8, <1>9 DEF Handled, moved, t

LEMMA AnswerEffect ==
    ASSUME TypeOK, CallInv, NEW c \in Call, Answer(c)
    PROVE  LET ok == call[c].phase = "ok" IN
           /\ Handled(c, ok) /\ call[c].phase # "sent"
           /\ cookie' = CookieAfter(c)
           /\ call[c].late /\ (ok \/ Clears(c, FALSE)) => "overtaken" \in cause'
           /\ cause' \subseteq cause \cup {"overtaken"}
<1> DEFINE ok == call[c].phase = "ok"
<1>1. /\ call[c].tab # None /\ call[c].phase # "sent" /\ call[c].op # "verify"
      /\ Handle(c, ok) /\ cookie' = CookieAfter(c)
      /\ UNCHANGED <<server, faults, ended>>
      /\ cause' = cause \cup {w \in {"overtaken"} : call[c].late /\ (ok \/ Clears(c, FALSE))}
  BY DEF Answer, Because
<1>2. ok \in BOOLEAN
  OBVIOUS
<1>3. call[c].op # "none"
  BY <1>1, IdleCall DEF CallInv
<1> HIDE DEF ok
<1>4. Handled(c, ok)
  BY <1>1, <1>2, <1>3, HandleEffect
<1>. QED
  BY <1>1, <1>4 DEF ok

LEMMA BreakEffect ==
    ASSUME TypeOK, NEW c \in Call, Break(c)
    PROVE  Handled(c, FALSE) /\ "lost" \in cause' /\ cookie' = cookie
<1>1. /\ call[c].tab # None /\ call[c].op \notin {"none", "verify"}
      /\ Handle(c, FALSE) /\ UNCHANGED <<server, cookie, ended>>
      /\ cause' = cause \cup {w \in {"lost"} : TRUE}
  BY DEF Break, Because
<1>2. cause \subseteq cause' /\ "lost" \in cause'
  BY <1>1
<1>. QED
  BY <1>1, <1>2, HandleEffect

\* The address of the link is confirmed, or is not.
Restored(c, t) ==
    /\ t = call[c].tab /\ t \in Tab /\ c \in InFlight(t)
    /\ call[c].op = "verify"
    /\ link' = [link EXCEPT ![t] = "none"]
    /\ call' = [call EXCEPT ![c] = IF stored[t] = None THEN Idle
                                   ELSE NewCall(t, "refresh", stored[t])]
    /\ cause \subseteq cause' /\ cause' \subseteq cause \cup {"tab"}
    /\ Shared(t) => "tab" \in cause'
    /\ UNCHANGED <<server, cookie, stored, shown, panel, faults, ended>>

LEMMA VerifiedEffect ==
    ASSUME TypeOK, NEW c \in Call, Verified(c)
    PROVE  \E t \in Tab : Restored(c, t)
<1> DEFINE t == call[c].tab
<1>1. call[c] \in CallType
  BY DEF TypeOK
<1>2. t \in Tab /\ c \in InFlight(t)
  BY <1>1 DEF CallType, Verified, InFlight
<1>3. /\ call[c].op = "verify"
      /\ link' = [link EXCEPT ![t] = "none"]
      /\ call' = [call EXCEPT ![c] = IF stored[t] = None THEN Idle
                                   ELSE NewCall(t, "refresh", stored[t])]
      /\ cause' = cause \cup {w \in {"tab"} : Shared(t)}
      /\ UNCHANGED <<server, cookie, stored, shown, panel, faults, ended>>
  BY DEF Verified, Because
<1> HIDE DEF t
<1>4. Restored(c, t)
  BY <1>2, <1>3 DEF Restored, t
<1>. QED
  BY <1>2, <1>4

\* The answer to c finds no page.
Missed(c) ==
    /\ call[c].op # "none" /\ call[c].tab = None /\ "lost" \in cause
    /\ \/ cookie' = cookie \/ cookie' = None
       \/ Brings(c) /\ cookie' = call[c].got
    /\ call' = [call EXCEPT ![c] = Idle]
    /\ UNCHANGED <<server, page, faults, history>>

LEMMA UnheardEffect ==
    ASSUME NEW c \in Call, CallInv, Unheard(c) PROVE Missed(c)
BY DEF Unheard, CookieAfter, Brings, Missed, CallInv

LEMMA ElsewhereEffect ==
    ASSUME NEW s \in Session, Elsewhere(s)
    PROVE  /\ account' = account /\ state[s] = "live"
           /\ \A x \in Session : state'[x] = IF x = s THEN "revoked" ELSE state[x]
           /\ ended' = ended \cup {s}
           /\ UNCHANGED <<cookie, page, call, cause>>
BY DEF Elsewhere, Server!EndSessions

-----------------------------------------------------------------------------
(* Types *)

LEMMA TypeInit == Init => TypeOK
<1> SUFFICES ASSUME Init PROVE TypeOK
  OBVIOUS
<1>1. /\ account \in {"absent", "present", "deleted"} /\ version \in Nat
      /\ state \in [Session -> {"none", "live", "expired", "revoked"}]
      /\ issued \in [Session -> Nat] /\ parent \in [Session -> Session \cup {None}]
  BY DEF Init, Server!Init
<1>2. /\ call \in [Call -> CallType] /\ faults \in 0 .. MaxFaults
  BY IdleCall, BoundAssumption DEF Init
<1>. QED
  BY <1>1, <1>2 DEF Init, TypeOK

\* The ledger keeps its types.
LedgerType ==
    /\ account \in {"absent", "present", "deleted"} /\ version \in Nat
    /\ state \in [Session -> {"none", "live", "expired", "revoked"}]
    /\ issued \in [Session -> Nat] /\ parent \in [Session -> Session \cup {None}]

LEMMA LedgerTypeStep ==
    ASSUME LedgerType, NEW S, NEW s \in Session, NEW p \in Session,
           \/ Server!SignUp(s) \/ Server!SignIn(s, version) \/ Server!Rotate(p, s, version)
           \/ Server!ChangePassword(S, s) \/ Server!EndSessions(S) \/ Server!ResetPassword(S)
           \/ Server!Close \/ UNCHANGED server
    PROVE  LedgerType'
<1> USE DEF LedgerType
<1>1. CASE Server!SignUp(s)
  BY <1>1 DEF Server!SignUp, Server!Entry
<1>2. CASE Server!SignIn(s, version)
  BY <1>2 DEF Server!SignIn, Server!Entry
<1>3. CASE Server!Rotate(p, s, version)
  BY <1>3 DEF Server!Rotate, Server!Entry
<1>4. CASE Server!ChangePassword(S, s)
  BY <1>4 DEF Server!ChangePassword, Server!Entry
<1>5. CASE Server!EndSessions(S)
  BY <1>5 DEF Server!EndSessions
<1>6. CASE Server!ResetPassword(S)
  BY <1>6 DEF Server!ResetPassword
<1>7. CASE Server!Close
  BY <1>7 DEF Server!Close
<1>8. CASE UNCHANGED server
  BY <1>8 DEF server
<1>. QED
  BY <1>1, <1>2, <1>3, <1>4, <1>5, <1>6, <1>7, <1>8

\* What is left to show of a step whose ledger, faults and history are typed.
LEMMA FinishType ==
    ASSUME LedgerType', faults' \in 0 .. MaxFaults, ended' \subseteq Session,
           cause' \subseteq {"tab", "lost", "refused", "overtaken"},
           cookie' \in Session \cup {None},
           stored' \in [Tab -> Session \cup {None}], shown' \in [Tab -> Session \cup {None}],
           link' \in [Tab -> {"none", "verify", "reset"}], panel' \in [Tab -> BOOLEAN],
           call' \in [Call -> CallType]
    PROVE  TypeOK'
BY DEF LedgerType, TypeOK

LEMMA FaultType == ASSUME TypeOK, Fault PROVE faults' \in 0 .. MaxFaults
BY BoundAssumption DEF TypeOK, Fault

LEMMA ResolveType ==
    ASSUME TypeOK, NEW c \in Call, NEW phase \in {"ok", "refused"},
           NEW s \in Session \cup {None}, Resolve(c, phase, s)
    PROVE  call' \in [Call -> CallType]
<1>1. /\ call \in [Call -> CallType]
      /\ call' = [call EXCEPT ![c] = [[call[c] EXCEPT !.phase = phase] EXCEPT !.got = s]]
  BY DEF TypeOK, Resolve, CallType
<1>2. [[call[c] EXCEPT !.phase = phase] EXCEPT !.got = s] \in CallType
  BY <1>1 DEF CallType
<1>. QED
  BY <1>1, <1>2

LEMMA HandleType ==
    ASSUME TypeOK, NEW c \in Call, NEW ok, Handle(c, ok), call[c].tab # None
    PROVE  /\ stored' \in [Tab -> Session \cup {None}] /\ shown' \in [Tab -> Session \cup {None}]
           /\ link' \in [Tab -> {"none", "verify", "reset"}] /\ panel' \in [Tab -> BOOLEAN]
           /\ call' \in [Call -> CallType]
<1> DEFINE t == call[c].tab
<1>1. call[c] \in CallType /\ call \in [Call -> CallType]
  BY DEF TypeOK
<1>2. t \in Tab /\ Brought(c) \in Session \cup {None}
  BY <1>1 DEF CallType, Brought
<1>3. \/ SetAuthenticated(t, Brought(c)) \/ SetAuthenticated(t, None)
      \/ UNCHANGED <<stored, shown>>
  BY DEF Handle, ClearAuth
<1>4. stored' \in [Tab -> Session \cup {None}] /\ shown' \in [Tab -> Session \cup {None}]
  BY <1>2, <1>3 DEF TypeOK, SetAuthenticated
<1>5. \A d \in Call : [call[d] EXCEPT !.late = TRUE] \in CallType
  BY <1>1 DEF CallType
<1>6. call' \in [Call -> CallType]
  BY <1>1, <1>5, IdleCall DEF Handle
<1>7. panel' \in [Tab -> BOOLEAN]
  <2>1. panel' = [panel EXCEPT ![t] = @ /\ call[c].op \notin {"signin", "logout", "reset"}]
    BY DEF Handle
  <2>2. \A v \in BOOLEAN : (v /\ call[c].op \notin {"signin", "logout", "reset"}) \in BOOLEAN
    OBVIOUS
  <2>. QED
    BY <2>1, <2>2 DEF TypeOK
<1>8. link' \in [Tab -> {"none", "verify", "reset"}]
  BY DEF Handle, TypeOK
<1>. QED
  BY <1>4, <1>6, <1>7, <1>8

LEMMA ServeType ==
    ASSUME TypeOK, NEW c \in Call, Serve(c) PROVE TypeOK'
<1>1. LedgerType /\ UNCHANGED <<cookie, page, faults, history>>
  BY DEF TypeOK, LedgerType, Serve
<1>2. ASSUME NEW s \in Session, call[c].op \in Issuers, Valid(c), Resolve(c, "ok", s),
             \/ call[c].op = "signin" /\ (Server!SignUp(s) \/ Server!SignIn(s, version))
             \/ call[c].op \in {"load", "refresh"} /\ Server!Rotate(call[c].jar, s, version)
             \/ call[c].op = "change" /\ Server!ChangePassword(Open, s)
      PROVE  LedgerType' /\ call' \in [Call -> CallType]
  <2>1. call' \in [Call -> CallType]
    BY <1>2, ResolveType
  <2>2. CASE call[c].op \in {"load", "refresh"}
    <3>1. Server!Rotate(call[c].jar, s, version)
      BY <1>2, <2>2
    <3>2. call[c].jar \in Session
      BY <2>2, <3>1 DEF Server!Rotate, Server!Open
    <3>. QED
      BY <1>1, <2>1, <3>1, <3>2, LedgerTypeStep
  <2>3. CASE call[c].op \notin {"load", "refresh"}
    BY <1>1, <1>2, <2>1, <2>3, LedgerTypeStep
  <2>. QED
    BY <2>2, <2>3
<1>3. ASSUME Resolve(c, "ok", None),
             \/ Server!EndSessions({call[c].jar})
             \/ Server!EndSessions(Open \ {call[c].with})
             \/ Server!ResetPassword(Open) \/ Server!Close \/ UNCHANGED server
      PROVE  LedgerType' /\ call' \in [Call -> CallType]
  <2>1. call' \in [Call -> CallType]
    BY <1>3, ResolveType
  <2>2. CASE Server!EndSessions({call[c].jar}) \/ Server!EndSessions(Open \ {call[c].with})
    BY <1>1, <2>1, <2>2 DEF Server!EndSessions, LedgerType
  <2>3. CASE Server!ResetPassword(Open)
    BY <1>1, <2>1, <2>3 DEF Server!ResetPassword, LedgerType
  <2>4. CASE Server!Close
    BY <1>1, <2>1, <2>4 DEF Server!Close, LedgerType
  <2>5. CASE UNCHANGED server
    BY <1>1, <2>1, <2>5 DEF server, LedgerType
  <2>. QED
    BY <1>3, <2>1, <2>2, <2>3, <2>4, <2>5
<1>4. LedgerType' /\ call' \in [Call -> CallType]
  BY <1>2, <1>3 DEF Serve
<1>. QED
  BY <1>1, <1>4, FinishType DEF TypeOK, page, history

LEMMA TypeStep == TypeOK /\ CallInv /\ PageInv /\ [Next]_vars => TypeOK'
<1> SUFFICES ASSUME TypeOK, CallInv, PageInv PROVE [Next]_vars => TypeOK'
  OBVIOUS
<1>t. /\ shown \in [Tab -> Session \cup {None}] /\ stored \in [Tab -> Session \cup {None}]
      /\ panel \in [Tab -> BOOLEAN] /\ call \in [Call -> CallType]
  BY DEF TypeOK
<1>s. LedgerType
  BY DEF TypeOK, LedgerType
<1>1. ASSUME NEW c \in Call, NEW t \in Tab, NEW o, NEW s, Asked(c, t, o, s), o \in Operations,
             s \in Session \cup {None}, panel' \in [Tab -> BOOLEAN]
      PROVE  TypeOK'
  <2>1. call' \in [Call -> CallType]
    BY <1>1, <1>t, NewCallType DEF Asked
  <2>2. LedgerType' /\ cause' \subseteq {"tab", "lost", "refused", "overtaken"}
        /\ UNCHANGED <<cookie, stored, shown, link, faults, ended>>
    BY <1>1, <1>s DEF Asked, LedgerType, server
  <2>. QED
    BY <1>1, <2>1, <2>2, FinishType DEF TypeOK
<1>2. ASSUME NEW c \in Call, NEW t \in Tab,
             \/ Tick(c, t) \/ SignIn(c, t) \/ Logout(c, t) \/ ConfirmRecovery(c, t)
             \/ \E o \in SecurityOps : Secure(c, t, o)
      PROVE  TypeOK'
  <2>1. panel' \in [Tab -> BOOLEAN]
    BY <1>2, <1>t DEF Tick, SignIn, Logout, ConfirmRecovery, Secure
  <2>. QED
    BY <1>1, <1>2, <2>1, AskEffect
<1>3. ASSUME NEW c \in Call, NEW t \in Tab, NEW s, NEW a, Mounted(c, t, s, a)
      PROVE  TypeOK'
  <2>1. "verify" \in Operations /\ "load" \in Operations /\ None \in Session \cup {None}
    BY DEF Operations, CookieOps
  <2>2. call'[c] \in CallType
    BY <1>3, <2>1, IdleCall, NewCallType DEF Mounted
  <2>3. \A d \in Call : [call[d] EXCEPT !.tab = None] \in CallType
    BY <1>t DEF CallType
  <2>4. call' \in [Call -> CallType]
    BY <1>3, <1>t, <2>2, <2>3, IdleCall DEF Mounted
  <2>5. LedgerType' /\ cause' \subseteq {"tab", "lost", "refused", "overtaken"}
        /\ UNCHANGED <<cookie, faults, ended>>
    BY <1>3, <1>s DEF Mounted, LedgerType, server
  <2>6. /\ stored' \in [Tab -> Session \cup {None}] /\ shown' \in [Tab -> Session \cup {None}]
        /\ link' \in [Tab -> {"none", "verify", "reset"}] /\ panel' \in [Tab -> BOOLEAN]
    BY <1>3 DEF Mounted, TypeOK
  <2>. QED
    BY <2>4, <2>5, <2>6, FinishType DEF TypeOK
<1>4. ASSUME NEW c \in Call, Reject(c) \/ Refuse(c) PROVE TypeOK'
  <2>1. Resolve(c, "refused", None) /\ UNCHANGED <<server, cookie, page, ended>>
        /\ (Fault \/ UNCHANGED faults)
        /\ cause' \subseteq {"tab", "lost", "refused", "overtaken"}
    BY <1>4 DEF Reject, Refuse, Because, history, TypeOK
  <2>2. call' \in [Call -> CallType] /\ LedgerType' /\ faults' \in 0 .. MaxFaults
    BY <1>s, <2>1, ResolveType, FaultType DEF LedgerType, server, TypeOK
  <2>. QED
    BY <2>1, <2>2, FinishType DEF TypeOK, page
<1>5. ASSUME NEW c \in Call, Answer(c) PROVE TypeOK'
  <2>1. /\ Handle(c, call[c].phase = "ok") /\ call[c].tab # None
        /\ UNCHANGED <<server, faults, ended>> /\ cookie' = CookieAfter(c)
        /\ cause' \subseteq {"tab", "lost", "refused", "overtaken"}
    BY <1>5 DEF Answer, Because, TypeOK
  <2>2. cookie' \in Session \cup {None}
    BY <1>t, <2>1 DEF CookieAfter, CallType, TypeOK
  <2>3. LedgerType'
    BY <1>s, <2>1 DEF LedgerType, server
  <2>. QED
    BY <2>1, <2>2, <2>3, HandleType, FinishType DEF TypeOK
<1>6. ASSUME NEW c \in Call, Break(c) PROVE TypeOK'
  <2>1. /\ Handle(c, FALSE) /\ call[c].tab # None /\ Fault
        /\ UNCHANGED <<server, cookie, ended>>
        /\ cause' \subseteq {"tab", "lost", "refused", "overtaken"}
    BY <1>6 DEF Break, Because, TypeOK
  <2>2. LedgerType'
    BY <1>s, <2>1 DEF LedgerType, server
  <2>. QED
    BY <2>1, <2>2, HandleType, FaultType, FinishType DEF TypeOK
<1>7. ASSUME NEW c \in Call, NEW t \in Tab, Restored(c, t) PROVE TypeOK'
  <2>1. "refresh" \in Operations
    BY DEF Operations, CookieOps
  <2>2. call' \in [Call -> CallType]
    BY <1>7, <1>t, <2>1, IdleCall, NewCallType DEF Restored
  <2>3. LedgerType' /\ cause' \subseteq {"tab", "lost", "refused", "overtaken"}
        /\ UNCHANGED <<cookie, stored, shown, panel, faults, ended>>
        /\ link' \in [Tab -> {"none", "verify", "reset"}]
    BY <1>7, <1>s DEF Restored, LedgerType, server, TypeOK
  <2>. QED
    BY <2>2, <2>3, FinishType DEF TypeOK
<1>8. ASSUME NEW c \in Call, Unheard(c) PROVE TypeOK'
  <2>1. /\ cookie' \in {cookie, CookieAfter(c)} /\ call' = [call EXCEPT ![c] = Idle]
        /\ UNCHANGED <<server, page, faults, history>>
    BY <1>8 DEF Unheard
  <2>2. cookie' \in Session \cup {None}
    BY <1>t, <2>1 DEF CookieAfter, CallType, TypeOK
  <2>3. LedgerType' /\ call' \in [Call -> CallType]
    BY <1>s, <1>t, <2>1, IdleCall DEF LedgerType, server
  <2>. QED
    BY <2>1, <2>2, <2>3, FinishType DEF TypeOK, page, history
<1>9. ASSUME NEW s \in Session, Elsewhere(s) PROVE TypeOK'
  <2>1. Server!EndSessions({s}) /\ Fault /\ ended' \subseteq Session
        /\ UNCHANGED <<cookie, page, call, cause>>
    BY <1>9 DEF Elsewhere, TypeOK
  <2>2. LedgerType' /\ faults' \in 0 .. MaxFaults
    BY <1>s, <2>1, FaultType DEF Server!EndSessions, LedgerType
  <2>. QED
    BY <2>1, <2>2, FinishType DEF TypeOK, page
<1>10. CASE UNCHANGED vars
  BY <1>10 DEF TypeOK, vars, server, page, history
<1>. QED
  BY <1>2, <1>3, <1>4, <1>5, <1>6, <1>7, <1>8, <1>9, <1>10, MountEffect, VerifiedEffect,
     ServeType DEF Next

-----------------------------------------------------------------------------
(* The kinds of steps, and the invariant part by part *)

Served(c) == /\ (\E s \in Session : Opens(c, s)) \/ Closes(c)
             /\ UNCHANGED <<cookie, page, faults, history>>

TurnedAway(c) ==
    /\ Resolved(c, "refused", None)
    /\ UNCHANGED <<server, cookie, page, ended>>
    /\ cause \subseteq cause'
    /\ "refused" \in cause' \/ (cause' = cause /\ (~Valid(c) \/ call[c].op = "verify"))

Answered(c) ==
    LET ok == call[c].phase = "ok" IN
    /\ Handled(c, ok) /\ call[c].phase # "sent"
    /\ cookie' = CookieAfter(c)
    /\ call[c].late /\ (ok \/ Clears(c, FALSE)) => "overtaken" \in cause'
    /\ cause' \subseteq cause \cup {"overtaken"}

Broken(c) == Handled(c, FALSE) /\ "lost" \in cause' /\ cookie' = cookie

EndedElsewhere(s) ==
    /\ account' = account /\ state[s] = "live"
    /\ \A x \in Session : state'[x] = IF x = s THEN "revoked" ELSE state[x]
    /\ ended' = ended \cup {s}
    /\ UNCHANGED <<cookie, page, call, cause>>

Step ==
    \/ \E c \in Call, t \in Tab, o \in Operations, s \in Session \cup {None} : Asked(c, t, o, s)
    \/ \E c \in Call, t \in Tab, s \in Session \cup {None}, a \in {"none", "verify", "reset"} :
          Mounted(c, t, s, a)
    \/ \E c \in Call : Served(c) \/ TurnedAway(c) \/ Answered(c) \/ Broken(c) \/ Missed(c)
    \/ \E c \in Call, t \in Tab : Restored(c, t)
    \/ \E s \in Session : EndedElsewhere(s)
    \/ UNCHANGED vars

LEMMA StepKinds == TypeOK /\ CallInv /\ PageInv /\ [Next]_vars => Step
<1> SUFFICES ASSUME TypeOK, CallInv, PageInv, [Next]_vars PROVE Step
  OBVIOUS
<1>1. ASSUME NEW c \in Call, Serve(c) PROVE Served(c)
  BY <1>1, ServeEffect DEF Served
<1>2. ASSUME NEW c \in Call, Reject(c) \/ Refuse(c) PROVE TurnedAway(c)
  BY <1>2, RefusalEffect DEF TurnedAway
<1>3. ASSUME NEW c \in Call, Answer(c) PROVE Answered(c)
  BY <1>3, AnswerEffect DEF Answered
<1>4. ASSUME NEW c \in Call, Break(c) PROVE Broken(c)
  BY <1>4, BreakEffect DEF Broken
<1>5. ASSUME NEW s \in Session, Elsewhere(s) PROVE EndedElsewhere(s)
  BY <1>5, ElsewhereEffect DEF EndedElsewhere
<1>6. ASSUME NEW c \in Call, NEW t \in Tab,
             \/ Tick(c, t) \/ SignIn(c, t) \/ Logout(c, t) \/ ConfirmRecovery(c, t)
             \/ \E o \in SecurityOps : Secure(c, t, o)
      PROVE  Step
  BY <1>6, AskEffect DEF Step
<1>7. ASSUME NEW c \in Call, NEW t \in Tab,
             \/ Reload(c, t)
             \/ \E u \in Tab : Duplicate(c, t, u)
             \/ \E a \in {"verify", "reset"} : OpenLink(c, t, a)
      PROVE  Step
  BY <1>7, MountEffect DEF Step
<1>8. ASSUME NEW c \in Call, Verified(c) PROVE Step
  BY <1>8, VerifiedEffect DEF Step
<1>9. ASSUME NEW c \in Call, Unheard(c) PROVE Missed(c)
  BY <1>9, UnheardEffect
<1>. QED
  BY <1>1, <1>2, <1>3, <1>4, <1>5, <1>6, <1>7, <1>8, <1>9 DEF Step, Next

\* A session that was there does not come back to life.
LEMMA DeadStaysDead ==
    ASSUME TypeOK, CallInv, Step, NEW x \in Session, state[x] # "none", state'[x] = "live"
    PROVE  state[x] = "live"
<1> USE DEF MayEnd
<1>1. ASSUME NEW c \in Call, Served(c) PROVE state[x] = "live"
  <2>1. ASSUME NEW s \in Session, Opens(c, s) PROVE state[x] = "live"
    BY <2>1 DEF Opens
  <2>2. CASE Closes(c)
    BY <2>2 DEF Closes
  <2>. QED
    BY <1>1, <2>1, <2>2 DEF Served
<1>2. ASSUME NEW s \in Session, EndedElsewhere(s) PROVE state[x] = "live"
  BY <1>2 DEF EndedElsewhere
<1>3. ASSUME state' = state PROVE state[x] = "live"
  BY <1>3
<1>. QED
  BY ZenonT(60), <1>1, <1>2, <1>3 DEF Step, Asked, Mounted, TurnedAway, Answered, Broken, Handled, Missed,
     Restored, server, vars

LEMMA CallStep ==
    ASSUME TypeOK, CallInv, Step PROVE CallInv'
<1> USE NoneAssumption
<1>t. \A d \in Call : call[d] \in CallType
  BY DEF TypeOK
<1>k. ASSUME cause \subseteq cause', NEW d \in Call,
             call'[d] = call[d] \/ call'[d] = Idle
      PROVE  /\ call'[d].op = "none" => call'[d] = Idle
             /\ call'[d].op # "none" /\ call'[d].tab = None => "lost" \in cause'
             /\ Bound(d)' => call'[d].with # None
             /\ Brings(d)' => call'[d].got # None
             /\ call'[d].phase = "sent" => call'[d].got = None
  BY <1>k, IdleCall DEF CallInv, Bound, Brings, CookieOps, SecurityOps, Issuers
<1>1. ASSUME NEW c \in Call, NEW t \in Tab, NEW o \in Operations, NEW s \in Session \cup {None},
             Asked(c, t, o, s)
      PROVE  CallInv'
  <2>1. /\ call'[c].op = o /\ call'[c].tab = t /\ call'[c].with = s
        /\ call'[c].phase = "sent" /\ call'[c].got = None
    BY <1>1, <1>t, NewCallFields DEF Asked, TypeOK
  <2>2. o # "none" /\ (o \in CookieOps \cup SecurityOps => s # None)
    BY <1>1 DEF Asked, CookieOps, SecurityOps
  <2>3. cause \subseteq cause' /\ \A d \in Call \ {c} : call'[d] = call[d]
    BY <1>1 DEF Asked, TypeOK
  <2>. QED
    BY <1>k, <2>1, <2>2, <2>3 DEF CallInv, Bound, Brings
<1>2. ASSUME NEW c \in Call, NEW t \in Tab, NEW s \in Session \cup {None}, NEW a,
             Mounted(c, t, s, a)
      PROVE  CallInv'
  <2>1. cause \subseteq cause' /\ \A d \in InFlight(t) : call[d].op \notin Harmless => "lost" \in cause'
    BY <1>2 DEF Mounted
  <2>2. \/ call'[c] = Idle \/ call'[c] = NewCall(t, "verify", None)
        \/ s # None /\ call'[c] = NewCall(t, "load", s)
    BY <1>2 DEF Mounted
  <2>3. ASSUME call'[c] # Idle
        PROVE  /\ call'[c].op \in {"verify", "load"} /\ call'[c].tab = t
               /\ call'[c].op = "load" => call'[c].with # None
               /\ call'[c].phase = "sent" /\ call'[c].got = None
    BY <2>2, <2>3, NewCallFields
  <2>4. ASSUME NEW d \in Call \ {c}, d \in InFlight(t), call[d].op \notin Harmless
        PROVE  /\ call'[d].op = "none" => call'[d] = Idle
               /\ call'[d].op # "none" /\ call'[d].tab = None => "lost" \in cause'
               /\ Bound(d)' => call'[d].with # None
               /\ Brings(d)' => call'[d].got # None
               /\ call'[d].phase = "sent" => call'[d].got = None
    <3>1. /\ call'[d].op = call[d].op /\ call'[d].with = call[d].with
          /\ call'[d].phase = call[d].phase /\ call'[d].got = call[d].got
      BY <1>2, <2>4, MountedCalls
    <3>2. "lost" \in cause'
      BY <2>1, <2>4
    <3>3. call[d].op # "none"
      BY <2>4, IdleCall DEF CallInv, InFlight
    <3>. QED
      BY <3>1, <3>2, <3>3 DEF CallInv, Bound, Brings
  <2>5. ASSUME NEW d \in Call \ {c}, d \notin InFlight(t) \/ call[d].op \in Harmless
        PROVE  call'[d] = call[d] \/ call'[d] = Idle
    BY <1>2, <2>5, MountedCalls
  <2>6. CASE call'[c] = Idle
    BY <1>k, <2>1, <2>4, <2>5, <2>6 DEF CallInv
  <2>7. CASE call'[c] # Idle
    BY <1>k, <2>1, <2>3, <2>4, <2>5, <2>7 DEF CallInv, Bound, Brings, CookieOps, SecurityOps
  <2>. QED
    BY <2>6, <2>7
<1>3. ASSUME NEW c \in Call, NEW phase \in {"ok", "refused"}, NEW s \in Session \cup {None},
             Resolved(c, phase, s), cause \subseteq cause',
             call[c].op \in Issuers /\ phase = "ok" => s # None
      PROVE  CallInv'
  <2>1. /\ call'[c].op # "none" /\ call'[c].tab = None => "lost" \in cause'
        /\ call'[c].op # "none" /\ call'[c].phase # "sent"
        /\ Bound(c)' => call'[c].with # None
        /\ Brings(c)' => call'[c].got # None
    BY <1>3 DEF Resolved, CallInv, Bound, Brings
  <2>2. \A d \in Call \ {c} : call'[d] = call[d]
    BY <1>3 DEF Resolved
  <2>. QED
    BY <1>k, <1>3, <2>1, <2>2 DEF CallInv
<1>4. ASSUME NEW c \in Call, Served(c) PROVE CallInv'
  <2>1. cause \subseteq cause'
    BY <1>4 DEF Served, history
  <2>2. ASSUME NEW s \in Session, Opens(c, s) PROVE CallInv'
    BY <1>3, <2>1, <2>2 DEF Opens
  <2>3. CASE Closes(c)
    BY <1>3, <2>1, <2>3 DEF Closes, Issuers
  <2>. QED
    BY <1>4, <2>2, <2>3 DEF Served
<1>5. ASSUME NEW c \in Call, TurnedAway(c) PROVE CallInv'
  BY <1>3, <1>5 DEF TurnedAway
<1>6. ASSUME NEW c \in Call, NEW ok, Handled(c, ok) PROVE CallInv'
  <2>1. cause \subseteq cause' /\ call'[c] = Idle
        /\ \A d \in Call \ {c} :
              \/ call'[d] = call[d]
              \/ /\ call[d].tab # None
                 /\ call'[d].tab = call[d].tab /\ call'[d].op = call[d].op
                 /\ call'[d].with = call[d].with
                 /\ call'[d].phase = call[d].phase /\ call'[d].got = call[d].got
    BY <1>6 DEF Handled, InFlight
  <2>2. ASSUME NEW d \in Call \ {c}, call'[d] # call[d]
        PROVE  /\ call'[d].op = "none" => call'[d] = Idle
               /\ call'[d].op # "none" /\ call'[d].tab = None => "lost" \in cause'
               /\ Bound(d)' => call'[d].with # None
               /\ Brings(d)' => call'[d].got # None
               /\ call'[d].phase = "sent" => call'[d].got = None
    BY <2>1, <2>2, IdleCall DEF CallInv, Bound, Brings
  <2>. QED
    BY <1>k, <2>1, <2>2 DEF CallInv
<1>7. ASSUME NEW c \in Call, NEW t \in Tab, Restored(c, t) PROVE CallInv'
  <2>1. cause \subseteq cause' /\ \A d \in Call \ {c} : call'[d] = call[d]
    BY <1>7 DEF Restored, TypeOK
  <2>2. call'[c] = Idle \/ (stored[t] # None /\ call'[c] = NewCall(t, "refresh", stored[t]))
    BY <1>7 DEF Restored, TypeOK
  <2>3. ASSUME call'[c] # Idle
        PROVE  /\ call'[c].op = "refresh" /\ call'[c].tab = t /\ call'[c].with # None
               /\ call'[c].phase = "sent" /\ call'[c].got = None
    BY <2>2, <2>3, NewCallFields
  <2>. QED
    BY <1>k, <2>1, <2>3 DEF CallInv, Bound, Brings
<1>8. ASSUME NEW c \in Call, Missed(c) PROVE CallInv'
  <2>1. cause \subseteq cause' /\ \A d \in Call : call'[d] = call[d] \/ call'[d] = Idle
    BY <1>8 DEF Missed, TypeOK, history
  <2>. QED
    BY <1>k, <2>1 DEF CallInv
<1>9. ASSUME call' = call, cause' = cause PROVE CallInv'
  BY <1>k, <1>9 DEF CallInv
<1>. QED
  BY <1>1, <1>2, <1>4, <1>5, <1>6, <1>7, <1>8, <1>9
     DEF Step, Answered, Broken, EndedElsewhere, vars, history

\* A step that neither makes nor ends a call of a tab and leaves the pages alone.
LEMMA PageKept ==
    ASSUME PageInv, UNCHANGED page,
           \A d \in Call : /\ call'[d].tab # None => call'[d].tab = call[d].tab
                                                     /\ call'[d].op = call[d].op
                           /\ call'[d].tab = None => call[d].tab = None
    PROVE  PageInv'
<1>1. \A u \in Tab : u # None => InFlight(u)' = InFlight(u)
  BY DEF InFlight
<1>2. \A u \in Tab : \A d \in InFlight(u)' : call'[d].op = call[d].op
  BY NoneAssumption DEF InFlight
<1>. QED
  BY <1>1, <1>2, NoneAssumption DEF PageInv, page

LEMMA PageStep ==
    ASSUME TypeOK, CallInv, PageInv, Step PROVE PageInv'
<1> USE NoneAssumption
<1>t. /\ \A d \in Call : call[d] \in CallType /\ call[d].tab \in Tab \cup {None}
      /\ call \in [Call -> CallType]
      /\ stored \in [Tab -> Session \cup {None}] /\ shown \in [Tab -> Session \cup {None}]
      /\ link \in [Tab -> {"none", "verify", "reset"}] /\ panel \in [Tab -> BOOLEAN]
  BY DEF TypeOK, CallType
<1>1. ASSUME NEW c \in Call, NEW t \in Tab, NEW o \in Operations, NEW s \in Session \cup {None},
             Asked(c, t, o, s)
      PROVE  PageInv'
  <2>1. /\ call'[c].op = o /\ call'[c].tab = t /\ call[c].tab = None
        /\ \A d \in Call \ {c} : call'[d] = call[d]
    BY <1>1, <1>t, NewCallFields, IdleCall DEF Asked
  <2>2. /\ UNCHANGED <<stored, shown, link>> /\ \A u \in Tab : panel[u] => panel'[u]
        /\ link[t] = "reset" => o = "reset"
        /\ o = "reset" => link[t] = "reset" /\ ~panel[t] /\ panel'[t]
    BY <1>1 DEF Asked
  <2>3. \A u \in Tab \ {t} : InFlight(u)' = InFlight(u)
    BY <2>1 DEF InFlight
  <2>4. link[t] = "reset" => InFlight(t) = {}
    BY <2>2 DEF PageInv
  <2>5. InFlight(t)' = InFlight(t) \cup {c}
    BY <2>1 DEF InFlight
  <2>6. \A u \in Tab : \A d \in InFlight(u) : d # c
    BY <2>1 DEF InFlight
  <2>7. ASSUME NEW u \in Tab
        PROVE  /\ shown'[u] # None => shown'[u] = stored'[u]
               /\ link'[u] = "reset" =>
                    /\ shown'[u] = None
                    /\ \A d \in InFlight(u)' : call'[d].op = "reset" /\ panel'[u]
                    /\ \A d, e \in InFlight(u)' : d = e
    <3>1. CASE u = t
      BY <2>1, <2>2, <2>4, <2>5, <3>1 DEF PageInv
    <3>2. CASE u # t
      <4>1. InFlight(u)' = InFlight(u) /\ \A d \in InFlight(u) : call'[d] = call[d]
        BY <2>1, <2>3, <2>6, <3>2 DEF InFlight
      <4>. QED
        BY <2>2, <4>1 DEF PageInv
    <3>. QED
      BY <3>1, <3>2
  <2>8. \A d \in Call : call'[d].op = "reset" /\ call'[d].tab # None => link'[call'[d].tab] = "reset"
    BY <2>1, <2>2 DEF PageInv
  <2>. QED
    BY <2>7, <2>8 DEF PageInv
<1>2. ASSUME NEW c \in Call, NEW t \in Tab, NEW s \in Session \cup {None}, NEW a,
             Mounted(c, t, s, a)
      PROVE  PageInv'
  <2>1. /\ stored' = [stored EXCEPT ![t] = s] /\ shown' = [shown EXCEPT ![t] = None]
        /\ link' = [link EXCEPT ![t] = a] /\ panel' = [panel EXCEPT ![t] = FALSE]
        /\ call[c].tab = None
    BY <1>2, IdleCall DEF Mounted
  <2>2. /\ a = "reset" => call'[c].tab = None
        /\ call'[c].tab \in {t, None} /\ call'[c].op # "reset"
    BY <1>2, NewCallFields, IdleCall DEF Mounted
  <2>3. \A d \in Call \ {c} : IF d \in InFlight(t) THEN call'[d].tab = None
                              ELSE call'[d] = call[d]
    BY <1>2, MountedCalls, IdleCall
  <2>4. \A u \in Tab \ {t} : InFlight(u)' = InFlight(u)
    BY <2>1, <2>2, <2>3 DEF InFlight
  <2>5. a = "reset" => InFlight(t)' = {}
    BY <2>2, <2>3 DEF InFlight
  <2>6. \A u \in Tab \ {t} : \A d \in InFlight(u) : call'[d] = call[d]
    BY <2>1, <2>3 DEF InFlight
  <2>7. ASSUME NEW u \in Tab
        PROVE  /\ shown'[u] # None => shown'[u] = stored'[u]
               /\ link'[u] = "reset" =>
                    /\ shown'[u] = None
                    /\ \A d \in InFlight(u)' : call'[d].op = "reset" /\ panel'[u]
                    /\ \A d, e \in InFlight(u)' : d = e
    BY <1>t, <2>1, <2>4, <2>5, <2>6 DEF PageInv
  <2>8. ASSUME NEW d \in Call, call'[d].op = "reset", call'[d].tab # None
        PROVE  link'[call'[d].tab] = "reset"
    <3>1. d # c /\ d \notin InFlight(t) /\ call'[d] = call[d]
      BY <2>2, <2>3, <2>8
    <3>2. call[d].tab # t
      BY <3>1 DEF InFlight
    <3>3. link[call[d].tab] = "reset" /\ call[d].tab \in Tab
      BY <1>t, <2>8, <3>1 DEF PageInv
    <3>. QED
      BY <1>t, <2>1, <3>1, <3>2, <3>3
  <2>. QED
    BY <2>7, <2>8 DEF PageInv
<1>3. ASSUME NEW c \in Call, NEW phase, NEW s, Resolved(c, phase, s), UNCHANGED page
      PROVE  PageInv'
  BY <1>3, PageKept DEF Resolved
<1>4. ASSUME NEW c \in Call, Served(c) \/ TurnedAway(c) PROVE PageInv'
  BY <1>3, <1>4 DEF Served, Opens, Closes, TurnedAway
<1>5. ASSUME NEW c \in Call, NEW ok, NEW t \in Tab, t = call[c].tab, Handled(c, ok)
      PROVE  PageInv'
  <2>1. /\ t = call[c].tab /\ c \in InFlight(t)
        /\ Shows(c, ok) \/ Clears(c, ok) =>
             \E s : stored' = [stored EXCEPT ![t] = s] /\ shown' = [shown EXCEPT ![t] = s]
        /\ ~(Shows(c, ok) \/ Clears(c, ok)) => stored' = stored /\ shown' = shown
        /\ panel' = [panel EXCEPT ![t] = @ /\ call[c].op \notin {"signin", "logout", "reset"}]
        /\ link' = [link EXCEPT ![t] = IF ok /\ call[c].op = "reset" THEN "none" ELSE @]
        /\ call'[c].tab = None /\ call'[c].op = "none"
        /\ \A d \in Call \ {c} : call'[d].tab = call[d].tab /\ call'[d].op = call[d].op
    BY <1>5, IdleCall DEF Handled
  <2>2. link[t] = "reset" =>
           /\ call[c].op = "reset" /\ shown[t] = None
           /\ InFlight(t) = {c}
    BY <2>1 DEF PageInv
  <2>3. link'[t] = "reset" => /\ link[t] = "reset" /\ ~ok
                              /\ ~Shows(c, ok) /\ ~Clears(c, ok)
    <3>1. link'[t] = "reset" => link[t] = "reset" /\ ~(ok /\ call[c].op = "reset")
      BY <1>t, <2>1
    <3>2. call[c].op = "reset" /\ ~ok => ~Shows(c, ok) /\ ~Clears(c, ok)
      BY DEF Shows, Clears
    <3>. QED
      BY <2>2, <3>1, <3>2
  <2>4. InFlight(t)' = InFlight(t) \ {c} /\ \A u \in Tab \ {t} : InFlight(u)' = InFlight(u)
    BY <2>1 DEF InFlight
  <2>5. \A u \in Tab \ {t} : \A d \in InFlight(u) : call'[d].op = call[d].op
    BY <2>1 DEF InFlight
  <2>6. \A u \in Tab : shown'[u] # None => shown'[u] = stored'[u]
    BY <1>t, <2>1 DEF PageInv
  <2>7. ASSUME NEW u \in Tab, link'[u] = "reset"
        PROVE  /\ shown'[u] = None
               /\ \A d \in InFlight(u)' : call'[d].op = "reset" /\ panel'[u]
               /\ \A d, e \in InFlight(u)' : d = e
    <3>1. CASE u = t
      BY <2>1, <2>2, <2>3, <2>4, <2>7, <3>1
    <3>2. CASE u # t
      <4>1. link[u] = "reset" /\ shown'[u] = shown[u] /\ panel'[u] = panel[u]
        BY <1>t, <2>1, <2>7, <3>2
      <4>. QED
        BY <2>4, <2>5, <3>2, <4>1 DEF PageInv
    <3>. QED
      BY <3>1, <3>2
  <2>8. ASSUME NEW d \in Call, call'[d].op = "reset", call'[d].tab # None
        PROVE  link'[call'[d].tab] = "reset"
    <3>1. d # c /\ call[d].op = "reset" /\ call[d].tab # None /\ call'[d].tab = call[d].tab
      BY <2>1, <2>8
    <3>2. link[call[d].tab] = "reset" /\ call[d].tab \in Tab
      BY <1>t, <3>1 DEF PageInv
    <3>3. call[d].tab # t
      BY <2>2, <3>1, <3>2 DEF InFlight
    <3>. QED
      BY <1>t, <2>1, <3>1, <3>2, <3>3
  <2>. QED
    BY <2>6, <2>7, <2>8 DEF PageInv
<1>6. ASSUME NEW c \in Call, NEW t \in Tab, Restored(c, t) PROVE PageInv'
  <2>1. /\ call[c].tab = t /\ c \in InFlight(t) /\ call[c].op = "verify"
        /\ link' = [link EXCEPT ![t] = "none"] /\ UNCHANGED <<stored, shown, panel>>
        /\ \A d \in Call \ {c} : call'[d] = call[d]
    BY <1>6, <1>t DEF Restored
  <2>2. call'[c].op # "reset" /\ call'[c].tab \in {t, None}
    BY <1>6, <1>t, NewCallFields, IdleCall DEF Restored
  <2>3. link[t] # "reset"
    BY <2>1 DEF PageInv
  <2>4. \A u \in Tab \ {t} : InFlight(u)' = InFlight(u) /\ c \notin InFlight(u)
    BY <2>1, <2>2 DEF InFlight
  <2>5. ASSUME NEW u \in Tab
        PROVE  /\ shown'[u] # None => shown'[u] = stored'[u]
               /\ link'[u] = "reset" =>
                    /\ shown'[u] = None
                    /\ \A d \in InFlight(u)' : call'[d].op = "reset" /\ panel'[u]
                    /\ \A d, e \in InFlight(u)' : d = e
    <3>1. CASE u = t
      BY <1>t, <2>1, <3>1 DEF PageInv
    <3>2. CASE u # t
      <4>1. \A d \in InFlight(u)' : d \in InFlight(u) /\ call'[d] = call[d]
        BY <2>1, <2>4, <3>2 DEF InFlight
      <4>. QED
        BY <1>t, <2>1, <3>2, <4>1 DEF PageInv
    <3>. QED
      BY <3>1, <3>2
  <2>6. ASSUME NEW d \in Call, call'[d].op = "reset", call'[d].tab # None
        PROVE  link'[call'[d].tab] = "reset"
    <3>1. d # c /\ call'[d] = call[d] /\ link[call[d].tab] = "reset" /\ call[d].tab \in Tab
      BY <1>t, <2>1, <2>2, <2>6 DEF PageInv
    <3>. QED
      BY <1>t, <2>1, <2>3, <3>1
  <2>. QED
    BY <2>5, <2>6 DEF PageInv
<1>7. ASSUME NEW c \in Call, Missed(c) PROVE PageInv'
  <2>1. UNCHANGED page /\ call[c].tab = None /\ call'[c].tab = None
        /\ \A d \in Call \ {c} : call'[d] = call[d]
    BY <1>7, <1>t, IdleCall DEF Missed
  <2>. QED
    BY <2>1, PageKept
<1>8. ASSUME UNCHANGED <<page, call>> PROVE PageInv'
  BY <1>8, PageKept
<1>9. ASSUME NEW c \in Call, NEW ok, Handled(c, ok) PROVE PageInv'
  BY <1>5, <1>9 DEF Handled
<1>. QED
  BY <1>1, <1>2, <1>4, <1>6, <1>7, <1>8, <1>9
     DEF Step, Answered, Broken, EndedElsewhere, vars

\* Where a session is named, but by the answer that brings it.
Held(s) == \/ cookie = s
           \/ \E t \in Tab : stored[t] = s
           \/ \E d \in Call : call[d].with = s \/ call[d].jar = s

LEMMA FreshParts ==
    FreshInv <=>
       /\ account = "deleted" => \A s \in Session : state[s] = "none"
       /\ account # "deleted" =>
             \A s \in Session : state[s] = "none" =>
                ~Held(s) /\ \A d \in Call : call[d].got # s
       /\ \A d \in Call : Brings(d) =>
             ~Held(call[d].got) /\ \A e \in Call \ {d} : call[e].got # call[d].got
BY DEF FreshInv, Held

LEMMA FreshPartsPrimed ==
    FreshInv' <=>
       /\ account' = "deleted" => \A s \in Session : state'[s] = "none"
       /\ account' # "deleted" =>
             \A s \in Session : state'[s] = "none" =>
                ~Held(s)' /\ \A d \in Call : call'[d].got # s
       /\ \A d \in Call : Brings(d)' =>
             ~Held(call[d].got)' /\ \A e \in Call \ {d} : call'[e].got # call'[d].got
BY DEF FreshInv, Held

LEMMA BringsSession ==
    ASSUME TypeOK, CallInv, NEW c \in Call, Brings(c) PROVE call[c].got \in Session
BY DEF TypeOK, CallType, CallInv

\* A step that opens no session names only what was named, or the session x
\* that the answer it handles has brought.
LEMMA FreshKept ==
    ASSUME TypeOK, CallInv, FreshInv, account' = account,
           \A s \in Session : state'[s] = "none" <=> state[s] = "none",
           NEW x, x = None \/ \E c \in Call : call[c].got = x,
           \A s \in Session : Held(s)' => Held(s) \/ s = x,
           \A d \in Call : call'[d].got = call[d].got \/ call'[d].got = None,
           \A d \in Call : Brings(d)' => Brings(d) /\ call'[d].got = call[d].got
                                         /\ call[d].got # x
    PROVE  FreshInv'
<1> USE NoneAssumption
<1>1. account' = "deleted" => \A s \in Session : state'[s] = "none"
  BY DEF FreshInv
<1>2. ASSUME account' # "deleted", NEW s \in Session, state'[s] = "none"
      PROVE  ~Held(s)' /\ \A d \in Call : call'[d].got # s
  <2>1. ~Held(s) /\ \A d \in Call : call[d].got # s
    BY <1>2, FreshParts
  <2>2. s # x
    BY <2>1
  <2>. QED
    BY <2>1, <2>2
<1>3. ASSUME NEW d \in Call, Brings(d)'
      PROVE  ~Held(call[d].got)' /\ \A e \in Call \ {d} : call'[e].got # call'[d].got
  <2>1. Brings(d) /\ call'[d].got = call[d].got /\ call[d].got # x
    BY <1>3
  <2>2. call[d].got \in Session
    BY <2>1, BringsSession
  <2>3. ~Held(call[d].got) /\ \A e \in Call \ {d} : call[e].got # call[d].got
    BY <2>1, FreshParts
  <2>4. PICK g \in Session : g = call[d].got
    BY <2>2
  <2>5. ~Held(g)'
    BY <2>1, <2>3, <2>4
  <2>6. call'[d].got = g
    BY <2>1, <2>4
  <2>7. ~Held(call[d].got)'
    BY <2>5, <2>6 DEF Held
  <2>. QED
    BY <2>1, <2>2, <2>3, <2>7
<1>. QED
  BY <1>1, <1>2, <1>3, FreshPartsPrimed

LEMMA HeldAfter ==
    ASSUME NEW x, cookie' \in {cookie, None, x},
           \A u \in Tab : stored'[u] \in {None, x} \/ Held(stored'[u]),
           \A d \in Call : /\ call'[d].with = None \/ Held(call'[d].with)
                           /\ call'[d].jar = None \/ Held(call'[d].jar)
    PROVE  \A s \in Session : Held(s)' => Held(s) \/ s = x
<1> SUFFICES ASSUME NEW s \in Session, Held(s)' PROVE Held(s) \/ s = x
  OBVIOUS
<1>1. \/ cookie' = s \/ \E t \in Tab : stored'[t] = s
      \/ \E d \in Call : call'[d].with = s \/ call'[d].jar = s
  BY DEF Held
<1>2. s # None /\ Held(cookie)
  BY NoneAssumption DEF Held
<1>. QED
  BY <1>1, <1>2

\* What is named already.
LEMMA HeldNow ==
    /\ Held(cookie)
    /\ \A u \in Tab : Held(stored[u])
    /\ \A d \in Call : Held(call[d].with) /\ Held(call[d].jar)
BY DEF Held

LEMMA FreshStep ==
    ASSUME TypeOK, CallInv, PageInv, FreshInv, Step PROVE FreshInv'
<1> USE NoneAssumption
<1>t. /\ call \in [Call -> CallType] /\ stored \in [Tab -> Session \cup {None}]
      /\ state \in [Session -> {"none", "live", "expired", "revoked"}]
  BY DEF TypeOK
\* A step that makes at most the call c, and hears no answer.
<1>k. ASSUME NEW c \in Call, call'[c].got = None,
             call'[c].with = None \/ Held(call'[c].with),
             call'[c].jar = None \/ Held(call'[c].jar),
             \A d \in Call \ {c} : \/ call'[d] = call[d] \/ call'[d] = Idle
                                   \/ /\ call'[d].op = call[d].op /\ call'[d].with = call[d].with
                                      /\ call'[d].jar = call[d].jar
                                      /\ call'[d].phase = call[d].phase
                                      /\ call'[d].got = call[d].got,
             cookie' = cookie, \A u \in Tab : stored'[u] = None \/ Held(stored'[u]),
             account' = account, \A s \in Session : state'[s] = "none" <=> state[s] = "none",
             call'[c].op = "none" \/ call'[c].phase # "ok"
      PROVE  FreshInv'
  <2>1. \A d \in Call : /\ call'[d].with = None \/ Held(call'[d].with)
                        /\ call'[d].jar = None \/ Held(call'[d].jar)
    BY <1>k, HeldNow, IdleCall
  <2>2. \A s \in Session : Held(s)' => Held(s) \/ s = None
    BY <1>k, <2>1, HeldAfter
  <2>3. ASSUME NEW d \in Call, Brings(d)'
        PROVE  Brings(d) /\ call'[d].got = call[d].got /\ call[d].got # None
    <3>1. d # c /\ call'[d] # Idle
      BY <1>k, <2>3, IdleCall DEF Brings, Issuers
    <3>2. Brings(d) /\ call'[d].got = call[d].got
      BY <1>k, <2>3, <3>1 DEF Brings
    <3>. QED
      BY <3>2 DEF CallInv
  <2>4. \A d \in Call : call'[d].got = call[d].got \/ call'[d].got = None
    BY <1>k, IdleCall
  <2>. QED
    BY <1>k, <2>2, <2>3, <2>4, FreshKept
<1>1. ASSUME NEW c \in Call, NEW t \in Tab, NEW o \in Operations, NEW s \in Session \cup {None},
             Asked(c, t, o, s)
      PROVE  FreshInv'
  <2>1. call'[c] = NewCall(t, o, s) /\ \A d \in Call \ {c} : call'[d] = call[d]
    BY <1>1, <1>t DEF Asked
  <2>2. s = None \/ Held(s)
    <3>1. s # None => s = shown[t]
      BY <1>1 DEF Asked
    <3>. QED
      BY <3>1, HeldNow DEF PageInv
  <2>3. UNCHANGED <<cookie, stored, account, state>>
    BY <1>1 DEF Asked, server
  <2>4. /\ call'[c].got = None /\ call'[c].phase = "sent" /\ call'[c].with = s
        /\ call'[c].jar \in {None, cookie}
    BY <2>1, NewCallFields
  <2>. QED
    BY <1>k, <2>1, <2>2, <2>3, <2>4, HeldNow
<1>2. ASSUME NEW c \in Call, NEW t \in Tab, NEW s \in Session \cup {None}, NEW a,
             Mounted(c, t, s, a)
      PROVE  FreshInv'
  <2>1. /\ stored' = [stored EXCEPT ![t] = s] /\ UNCHANGED <<cookie, account, state>>
        /\ s # stored[t] => \E u \in Tab : stored[u] = s
    BY <1>2 DEF Mounted, server
  <2>2. Held(s)
    BY <2>1, HeldNow
  <2>3. \/ call'[c] = Idle \/ call'[c] = NewCall(t, "verify", None)
        \/ call'[c] = NewCall(t, "load", s)
    BY <1>2 DEF Mounted
  <2>4. /\ call'[c].got = None /\ call'[c].phase = "sent" /\ call'[c].with \in {None, s}
        /\ call'[c].jar \in {None, cookie}
    BY <2>3, NewCallFields, IdleCall
  <2>5. \A d \in Call \ {c} : \/ call'[d] = call[d] \/ call'[d] = Idle
                              \/ /\ call'[d].op = call[d].op /\ call'[d].with = call[d].with
                                 /\ call'[d].jar = call[d].jar
                                 /\ call'[d].phase = call[d].phase
                                 /\ call'[d].got = call[d].got
    BY <1>2, MountedCalls
  <2>6. \A u \in Tab : stored'[u] = None \/ Held(stored'[u])
    BY <1>t, <2>1, <2>2, HeldNow
  <2>. QED
    BY <1>k, <2>1, <2>2, <2>4, <2>5, <2>6, HeldNow
\* A session opened is new: it is named nowhere, and no call brings it.
<1>3. ASSUME NEW c \in Call, NEW s \in Session, Opens(c, s), UNCHANGED <<cookie, page>>
      PROVE  FreshInv'
  <2>1. /\ account # "deleted" /\ account' = "present"
        /\ state[s] = "none" /\ state'[s] = "live"
        /\ \A x \in Session \ {s} : MayEnd(x)
        /\ Resolved(c, "ok", s)
    BY <1>3 DEF Opens
  <2>2. ~Held(s) /\ \A d \in Call : call[d].got # s
    BY <2>1, FreshParts
  <2>3. /\ \A d \in Call : call'[d].with = call[d].with /\ call'[d].jar = call[d].jar
        /\ \A d \in Call \ {c} : call'[d] = call[d]
        /\ call'[c].got = s /\ stored' = stored
    BY <1>3, <2>1 DEF Resolved, page
  <2>4. \A x \in Session : Held(x)' <=> Held(x)
    BY <1>3, <2>3 DEF Held
  <2>5. \A x \in Session : state'[x] = "none" => state[x] = "none" /\ x # s
    BY <2>1 DEF MayEnd
  <2>6. \A x \in Session : state'[x] = "none" => ~Held(x)' /\ \A d \in Call : call'[d].got # x
    BY <2>1, <2>3, <2>4, <2>5, FreshParts
  <2>7. ASSUME NEW d \in Call, Brings(d)'
        PROVE  ~Held(call[d].got)' /\ \A e \in Call \ {d} : call'[e].got # call'[d].got
    <3>1. CASE d = c
      <4>1. call'[d].got = s /\ ~Held(s)'
        BY <2>2, <2>3, <2>4, <3>1
      <4>2. ~Held(call[d].got)'
        BY <4>1 DEF Held
      <4>. QED
        BY <2>2, <2>3, <3>1, <4>1, <4>2
    <3>2. CASE d # c
      <4>1. Brings(d) /\ call'[d] = call[d]
        BY <2>3, <2>7, <3>2 DEF Brings
      <4>2. PICK g \in Session : g = call[d].got
        BY <4>1, BringsSession
      <4>3. ~Held(g)' /\ g # s
        BY <2>2, <2>4, <4>1, <4>2, FreshParts
      <4>4. ~Held(call[d].got)'
        BY <4>1, <4>2, <4>3 DEF Held
      <4>5. \A e \in Call \ {d} : call'[e].got # call'[d].got
        BY <2>3, <4>1, <4>2, <4>3, FreshParts
      <4>. QED
        BY <4>4, <4>5
    <3>. QED
      BY <3>1, <3>2
  <2>. QED
    BY <2>1, <2>6, <2>7, FreshPartsPrimed
<1>4. ASSUME NEW c \in Call, Closes(c), UNCHANGED <<cookie, page>> PROVE FreshInv'
  <2>1. Resolved(c, "ok", None) /\ call[c].op \notin Issuers
    BY <1>4 DEF Closes, Issuers
  <2>2. /\ \A d \in Call : call'[d].with = call[d].with /\ call'[d].jar = call[d].jar
                           /\ call'[d].op = call[d].op
        /\ \A d \in Call \ {c} : call'[d] = call[d]
        /\ call'[c].got = None /\ stored' = stored
    BY <1>4, <2>1 DEF Resolved, page
  <2>3. \A x : Held(x)' <=> Held(x)
    BY <1>4, <2>2 DEF Held
  <2>4. ASSUME NEW d \in Call, Brings(d)'
        PROVE  Brings(d) /\ call'[d].got = call[d].got /\ call[d].got # None
    BY <2>1, <2>2, <2>4 DEF Brings, CallInv
  <2>5. CASE call[c].op # "delete"
    <3>1. account' = account /\ \A x \in Session : MayEnd(x)
      BY <1>4, <2>5 DEF Closes
    <3>2. \A x \in Session : state'[x] = "none" <=> state[x] = "none"
      BY <3>1 DEF MayEnd
    <3>3. \A d \in Call : call'[d].got = call[d].got \/ call'[d].got = None
      BY <2>2
    <3>. QED
      BY <2>3, <2>4, <3>1, <3>2, <3>3, FreshKept
  <2>6. CASE call[c].op = "delete"
    <3>1. account' = "deleted" /\ \A x \in Session : state'[x] = "none"
      BY <1>4, <2>6 DEF Closes
    <3>2. ASSUME NEW d \in Call, Brings(d)'
          PROVE  ~Held(call[d].got)' /\ \A e \in Call \ {d} : call'[e].got # call'[d].got
      <4>1. Brings(d) /\ call'[d].got = call[d].got /\ call[d].got # None
        BY <2>4, <3>2
      <4>2. PICK g \in Session : g = call[d].got
        BY <4>1, BringsSession
      <4>3. ~Held(g)'
        BY <2>3, <4>1, <4>2, FreshParts
      <4>4. ~Held(call[d].got)'
        BY <4>1, <4>2, <4>3 DEF Held
      <4>5. \A e \in Call \ {d} : call'[e].got # call'[d].got
        BY <2>2, <4>1, FreshParts
      <4>. QED
        BY <4>4, <4>5
    <3>. QED
      BY <3>1, <3>2, FreshPartsPrimed
  <2>. QED
    BY <2>5, <2>6
<1>5. ASSUME NEW c \in Call, Served(c) PROVE FreshInv'
  BY <1>3, <1>4, <1>5 DEF Served
<1>6. ASSUME NEW c \in Call, TurnedAway(c) PROVE FreshInv'
  <2>1. /\ call'[c].got = None /\ call'[c].phase = "refused"
        /\ call'[c].with = call[c].with /\ call'[c].jar = call[c].jar
        /\ \A d \in Call \ {c} : call'[d] = call[d]
        /\ UNCHANGED <<cookie, stored, account, state>>
    BY <1>6 DEF TurnedAway, Resolved, server, page
  <2>. QED
    BY <1>k, <2>1, HeldNow
\* An answer names what it brings, and no other answer brings that.
<1>7. ASSUME NEW c \in Call, NEW ok, Handled(c, ok), cookie' \in {cookie, None, call[c].got},
             ok => call[c].phase = "ok", cookie' = call[c].got => Brings(c) \/ cookie' \in {cookie, None}
      PROVE  FreshInv'
  <2>1. /\ call[c].tab \in Tab
        /\ Shows(c, ok) \/ Clears(c, ok) =>
              stored' = [stored EXCEPT ![call[c].tab] = IF Shows(c, ok) THEN Brought(c) ELSE None]
        /\ ~(Shows(c, ok) \/ Clears(c, ok)) => stored' = stored
        /\ call'[c] = Idle
        /\ \A d \in Call \ {c} :
              /\ call'[d].op = call[d].op /\ call'[d].with = call[d].with
              /\ call'[d].jar = call[d].jar /\ call'[d].phase = call[d].phase
              /\ call'[d].got = call[d].got
        /\ account' = account /\ state' = state
    BY <1>7 DEF Handled
  <2>2. Shows(c, ok) => (Brings(c) /\ Brought(c) = call[c].got) \/ Brought(c) = call[c].with
    BY <1>7 DEF Shows, Brings, Brought
  <2>y. PICK y : y = IF Brings(c) THEN call[c].got ELSE None
    OBVIOUS
  <2>3. \A u \in Tab : stored'[u] \in {None, y} \/ Held(stored'[u])
    BY <1>t, <2>1, <2>2, <2>y, HeldNow
  <2>4. \A d \in Call : /\ call'[d].with = None \/ Held(call'[d].with)
                        /\ call'[d].jar = None \/ Held(call'[d].jar)
    BY <2>1, HeldNow, IdleCall
  <2>5. cookie' \in {cookie, None, y}
    BY <1>7, <2>y
  <2>7. \A s \in Session : Held(s)' => Held(s) \/ s = y
    BY <2>3, <2>4, <2>5, HeldAfter
  <2>8. \A d \in Call : call'[d].got = call[d].got \/ call'[d].got = None
    BY <2>1, IdleCall
  <2>9. ASSUME NEW d \in Call, Brings(d)'
        PROVE  Brings(d) /\ call'[d].got = call[d].got /\ call[d].got # y
    <3>1. d # c
      BY <2>1, <2>9, IdleCall DEF Brings, Issuers
    <3>2. Brings(d) /\ call'[d].got = call[d].got
      BY <2>1, <2>9, <3>1 DEF Brings
    <3>3. call[d].got # None
      BY <3>2 DEF CallInv
    <3>4. Brings(c) => call[c].got # call[d].got
      BY <3>1, FreshParts
    <3>. QED
      BY <2>y, <3>2, <3>3, <3>4
  <2>10. y = None \/ \E d \in Call : call[d].got = y
    BY <2>y
  <2>. QED
    BY <2>1, <2>7, <2>8, <2>9, <2>10, FreshKept
<1>8. ASSUME NEW c \in Call, Answered(c) PROVE FreshInv'
  <2>1. Handled(c, call[c].phase = "ok") /\ cookie' = CookieAfter(c)
    BY <1>8 DEF Answered
  <2>2. cookie' \in {cookie, None} \/ (cookie' = call[c].got /\ Brings(c))
    BY <2>1 DEF CookieAfter, Brings
  <2>. QED
    BY <1>7, <2>1, <2>2
<1>9. ASSUME NEW c \in Call, Broken(c) PROVE FreshInv'
  BY <1>7, <1>9 DEF Broken
<1>10. ASSUME NEW c \in Call, NEW t \in Tab, Restored(c, t) PROVE FreshInv'
  <2>1. /\ call'[c] = Idle \/ call'[c] = NewCall(t, "refresh", stored[t])
        /\ \A d \in Call \ {c} : call'[d] = call[d]
        /\ UNCHANGED <<cookie, stored, account, state>>
    BY <1>10, <1>t DEF Restored, server
  <2>2. /\ call'[c].got = None /\ call'[c].phase = "sent" /\ call'[c].with \in {None, stored[t]}
        /\ call'[c].jar \in {None, cookie}
    BY <2>1, NewCallFields, IdleCall
  <2>. QED
    BY <1>k, <2>1, <2>2, HeldNow
<1>11. ASSUME NEW c \in Call, Missed(c) PROVE FreshInv'
  <2>1. /\ cookie' \in {cookie, None} \/ (Brings(c) /\ cookie' = call[c].got)
        /\ call'[c] = Idle /\ \A d \in Call \ {c} : call'[d] = call[d]
        /\ UNCHANGED <<stored, account, state>>
    BY <1>11, <1>t DEF Missed, server, page
  <2>2. PICK y : y = IF Brings(c) THEN call[c].got ELSE None
    OBVIOUS
  <2>3. \A s \in Session : Held(s)' => Held(s) \/ s = y
    <3>1. cookie' \in {cookie, None, y}
      BY <2>1, <2>2
    <3>2. \A u \in Tab : stored'[u] \in {None, y} \/ Held(stored'[u])
      BY <2>1, HeldNow
    <3>3. \A d \in Call : /\ call'[d].with = None \/ Held(call'[d].with)
                          /\ call'[d].jar = None \/ Held(call'[d].jar)
      BY <2>1, HeldNow, IdleCall
    <3>. QED
      BY <3>1, <3>2, <3>3, HeldAfter
  <2>4. ASSUME NEW d \in Call, Brings(d)'
        PROVE  Brings(d) /\ call'[d].got = call[d].got /\ call[d].got # y
    <3>1. d # c
      BY <2>1, <2>4, IdleCall DEF Brings, Issuers
    <3>2. Brings(d) /\ call'[d].got = call[d].got
      BY <2>1, <2>4, <3>1 DEF Brings
    <3>3. call[d].got # None
      BY <3>2 DEF CallInv
    <3>4. Brings(c) => call[c].got # call[d].got
      BY <3>1, FreshParts
    <3>. QED
      BY <2>2, <3>2, <3>3, <3>4
  <2>5. \A d \in Call : call'[d].got = call[d].got \/ call'[d].got = None
    BY <2>1, IdleCall
  <2>. QED
    BY <2>1, <2>2, <2>3, <2>4, <2>5, FreshKept
<1>12. ASSUME UNCHANGED <<cookie, page, call, account>>,
              \A s \in Session : state'[s] = "none" <=> state[s] = "none"
       PROVE  FreshInv'
  <2>1. \A x : Held(x)' <=> Held(x)
    BY <1>12 DEF Held, page
  <2>2. \A d \in Call : Brings(d)' => Brings(d) /\ call[d].got # None
    BY <1>12 DEF Brings, CallInv
  <2>. QED
    BY <1>12, <2>1, <2>2, FreshKept
<1>13. ASSUME NEW s \in Session, EndedElsewhere(s) PROVE FreshInv'
  BY <1>12, <1>13 DEF EndedElsewhere
<1>14. CASE UNCHANGED vars
  BY <1>12, <1>14 DEF vars, server
<1>. QED
  BY <1>1, <1>2, <1>5, <1>6, <1>8, <1>9, <1>10, <1>11, <1>13, <1>14 DEF Step

\* What WithInv says of one call.
WithOf(d) ==
    /\ call[d].tab # None /\ ~call[d].late =>
          /\ Bound(d) => call[d].with = stored[call[d].tab]
          /\ call[d].op \in SecurityOps => call[d].with = shown[call[d].tab]
          /\ call[d].op = "signin" => stored[call[d].tab] = None
    /\ call[d].op \in CookieOps /\ call[d].with = cookie => call[d].jar = cookie

LEMMA WithParts == (WithInv <=> \A d \in Call : WithOf(d)) /\ (WithInv' <=> \A d \in Call : WithOf(d)')
BY DEF WithInv, WithOf

LEMMA WithIdle == ASSUME NEW d \in Call, call'[d] = Idle PROVE WithOf(d)'
BY IdleCall DEF WithOf, Bound, CookieOps, SecurityOps

\* What is new for a cookie is not what a call was made for.
LEMMA CookieAfterAnswer ==
    ASSUME TypeOK, CallInv, FreshInv, NEW c \in Call,
           \/ Answered(c) \/ Broken(c) \/ Missed(c)
    PROVE  \/ cookie' = cookie
           \/ cookie' = None
           \/ Brings(c) /\ cookie' = call[c].got /\ cookie' \in Session
<1>1. Brings(c) => call[c].got \in Session
  BY BringsSession
<1>. QED
  BY <1>1 DEF Answered, Broken, Missed, CookieAfter, Brings

LEMMA WithStep ==
    ASSUME TypeOK, CallInv, PageInv, FreshInv, WithInv, Step PROVE WithInv'
<1> USE NoneAssumption
<1>t. /\ call \in [Call -> CallType] /\ stored \in [Tab -> Session \cup {None}]
      /\ shown \in [Tab -> Session \cup {None}]
      /\ \A d \in Call : call[d].tab \in Tab \cup {None}
  BY DEF TypeOK, CallType
<1>w. \A d \in Call : WithOf(d)
  BY WithParts
\* A call that is left alone, by a step that leaves its page and the cookie alone.
<1>k. ASSUME NEW d \in Call,
             /\ call'[d].op = call[d].op /\ call'[d].with = call[d].with
             /\ call'[d].jar = call[d].jar,
             \/ call'[d].tab = None
             \/ call'[d].late
             \/ /\ call'[d].late = call[d].late /\ call'[d].tab = call[d].tab
                /\ stored'[call[d].tab] = stored[call[d].tab]
                /\ shown'[call[d].tab] = shown[call[d].tab],
             cookie' = cookie \/ call[d].with # cookie' \/ call[d].op \notin CookieOps
      PROVE  WithOf(d)'
  BY <1>k, <1>w DEF WithOf, Bound
<1>1. ASSUME NEW c \in Call, NEW t \in Tab, NEW o \in Operations, NEW s \in Session \cup {None},
             Asked(c, t, o, s)
      PROVE  WithInv'
  <2>1. call'[c] = NewCall(t, o, s) /\ \A d \in Call \ {c} : call'[d] = call[d]
    BY <1>1, <1>t DEF Asked
  <2>2. /\ UNCHANGED <<cookie, stored, shown>>
        /\ o \notin {"signin", "reset"} => s = shown[t] /\ s # None
        /\ o \in {"refresh", "logout", "signin", "reset"} \cup SecurityOps
    BY <1>1 DEF Asked
  <2>3. shown[t] # None => shown[t] = stored[t]
    BY DEF PageInv
  <2>4. /\ call'[c].op = o /\ call'[c].tab = t /\ call'[c].with = s
        /\ call'[c].jar = IF o \in CookieOps THEN cookie ELSE None
        /\ call'[c].late = (o = "signin" /\ stored[t] # None)
    BY <2>1, NewCallFields
  <2>5. o \in CookieOps \cup SecurityOps => s = shown[t] /\ s = stored[t]
    BY <2>2, <2>3 DEF CookieOps, SecurityOps
  <2>6. o \in SecurityOps => o # "signin"
    BY DEF SecurityOps
  <2>7. WithOf(c)'
    BY <2>2, <2>4, <2>5, <2>6 DEF WithOf, Bound
  <2>8. \A d \in Call \ {c} : WithOf(d)'
    BY <1>k, <2>1, <2>2
  <2>. QED
    BY <2>7, <2>8, WithParts
<1>2. ASSUME NEW c \in Call, NEW t \in Tab, NEW s \in Session \cup {None}, NEW a,
             Mounted(c, t, s, a)
      PROVE  WithInv'
  <2>1. /\ stored' = [stored EXCEPT ![t] = s] /\ shown' = [shown EXCEPT ![t] = None]
        /\ cookie' = cookie
    BY <1>2 DEF Mounted
  <2>2. \/ call'[c] = Idle \/ call'[c] = NewCall(t, "verify", None)
        \/ call'[c] = NewCall(t, "load", s)
    BY <1>2 DEF Mounted
  <2>3. WithOf(c)'
    <3>1. CASE call'[c] = Idle
      BY <3>1, WithIdle
    <3>2. CASE call'[c] = NewCall(t, "verify", None)
      <4>1. call'[c].op = "verify"
        BY <3>2, NewCallFields
      <4>. QED
        BY <4>1 DEF WithOf, Bound, CookieOps, SecurityOps
    <3>3. CASE call'[c] = NewCall(t, "load", s)
      <4>1. /\ call'[c].op = "load" /\ call'[c].tab = t /\ call'[c].with = s
            /\ call'[c].jar = cookie
        BY <3>3, NewCallFields DEF CookieOps
      <4>. QED
        BY <1>t, <2>1, <4>1 DEF WithOf, SecurityOps
    <3>. QED
      BY <2>2, <3>1, <3>2, <3>3
  <2>4. ASSUME NEW d \in Call \ {c} PROVE WithOf(d)'
    <3>1. CASE d \notin InFlight(t)
      <4>1. call'[d] = call[d] /\ call[d].tab # t
        BY <1>2, <2>4, <3>1, MountedCalls DEF InFlight
      <4>2. call[d].tab # None => /\ stored'[call[d].tab] = stored[call[d].tab]
                                  /\ shown'[call[d].tab] = shown[call[d].tab]
        BY <1>t, <2>1, <4>1
      <4>. QED
        BY <1>k, <2>1, <4>1, <4>2
    <3>2. CASE d \in InFlight(t) /\ call[d].op \in Harmless
      BY <1>2, <3>2, MountedCalls, WithIdle
    <3>3. CASE d \in InFlight(t) /\ call[d].op \notin Harmless
      <4>1. /\ call'[d].tab = None
            /\ call'[d].op = call[d].op /\ call'[d].with = call[d].with
            /\ call'[d].jar = call[d].jar
        BY <1>2, <3>3, MountedCalls
      <4>. QED
        BY <1>k, <2>1, <4>1
    <3>. QED
      BY <3>1, <3>2, <3>3
  <2>. QED
    BY <2>3, <2>4, WithParts
<1>3. ASSUME NEW c \in Call, Served(c) \/ TurnedAway(c) PROVE WithInv'
  <2>1. UNCHANGED <<cookie, stored, shown>>
        /\ \A d \in Call : /\ call'[d].op = call[d].op /\ call'[d].with = call[d].with
                           /\ call'[d].jar = call[d].jar
                           /\ call'[d].late = call[d].late /\ call'[d].tab = call[d].tab
    BY <1>3 DEF Served, TurnedAway, Opens, Closes, Resolved, page
  <2>. QED
    BY <1>k, <2>1, WithParts
<1>4. ASSUME NEW c \in Call, NEW ok, Handled(c, ok),
             \A d \in Call : cookie' = cookie \/ call[d].with # cookie' \/ call[d].op \notin CookieOps
      PROVE  WithInv'
  <2>1. /\ call[c].tab \in Tab /\ call'[c] = Idle
        /\ Shows(c, ok) \/ Clears(c, ok) =>
             \E s : /\ stored' = [stored EXCEPT ![call[c].tab] = s]
                    /\ shown' = [shown EXCEPT ![call[c].tab] = s]
        /\ ~(Shows(c, ok) \/ Clears(c, ok)) => stored' = stored /\ shown' = shown
        /\ \A d \in Call \ {c} :
              /\ call'[d].op = call[d].op /\ call'[d].with = call[d].with
              /\ call'[d].jar = call[d].jar /\ call'[d].tab = call[d].tab
    BY <1>4 DEF Handled
  <2>2. ASSUME NEW d \in Call \ {c} PROVE WithOf(d)'
    <3>1. CASE call[d].tab = call[c].tab /\ (Shows(c, ok) \/ Clears(c, ok))
      <4>1. call'[d].late
        BY <1>4, <3>1 DEF Handled, InFlight
      <4>. QED
        BY <1>4, <1>k, <2>1, <4>1
    <3>2. CASE ~(call[d].tab = call[c].tab /\ (Shows(c, ok) \/ Clears(c, ok)))
      <4>1. call'[d] = call[d]
        BY <1>4, <3>2 DEF Handled, InFlight
      <4>2. call[d].tab # None => /\ stored'[call[d].tab] = stored[call[d].tab]
                                  /\ shown'[call[d].tab] = shown[call[d].tab]
        BY <1>t, <2>1, <3>2
      <4>. QED
        BY <1>4, <1>k, <4>1, <4>2
    <3>. QED
      BY <3>1, <3>2
  <2>. QED
    BY <2>1, <2>2, WithIdle, WithParts
<1>c. ASSUME NEW c \in Call, Answered(c) \/ Broken(c) \/ Missed(c), NEW d \in Call
      PROVE  cookie' = cookie \/ call[d].with # cookie' \/ call[d].op \notin CookieOps
  <2>1. call[d].op \in CookieOps => call[d].with # None
    BY DEF CallInv, Bound
  <2>2. Brings(c) => call[d].with # call[c].got
    BY DEF FreshInv
  <2>. QED
    BY <1>c, <2>1, <2>2, CookieAfterAnswer
<1>5. ASSUME NEW c \in Call, Answered(c) \/ Broken(c) PROVE WithInv'
  BY <1>4, <1>5, <1>c DEF Answered, Broken
<1>6. ASSUME NEW c \in Call, NEW t \in Tab, Restored(c, t) PROVE WithInv'
  <2>1. /\ call'[c] = Idle \/ call'[c] = NewCall(t, "refresh", stored[t])
        /\ \A d \in Call \ {c} : call'[d] = call[d]
        /\ UNCHANGED <<cookie, stored, shown>>
    BY <1>6, <1>t DEF Restored
  <2>2. CASE call'[c] = NewCall(t, "refresh", stored[t])
    <3>1. /\ call'[c].op = "refresh" /\ call'[c].tab = t /\ call'[c].with = stored[t]
          /\ call'[c].jar = cookie
      BY <2>2, NewCallFields DEF CookieOps
    <3>. QED
      BY <2>1, <3>1, <1>k, WithParts DEF WithOf, SecurityOps
  <2>3. CASE call'[c] = Idle
    BY <2>1, <2>3, <1>k, WithIdle, WithParts
  <2>. QED
    BY <2>1, <2>2, <2>3
<1>7. ASSUME NEW c \in Call, Missed(c) PROVE WithInv'
  <2>1. call'[c] = Idle /\ UNCHANGED <<stored, shown>> /\ \A d \in Call \ {c} : call'[d] = call[d]
    BY <1>7, <1>t DEF Missed, page
  <2>2. \A d \in Call \ {c} : WithOf(d)'
    BY <1>7, <1>c, <1>k, <2>1
  <2>. QED
    BY <2>1, <2>2, WithIdle, WithParts
<1>8. ASSUME UNCHANGED <<cookie, page, call>> PROVE WithInv'
  BY <1>8, <1>k, WithParts DEF page
<1>. QED
  BY <1>1, <1>2, <1>3, <1>5, <1>6, <1>7, <1>8 DEF Step, EndedElsewhere, vars

-----------------------------------------------------------------------------
(* Tabs that are alone *)

LEMMA CauseGrows == ASSUME Step PROVE cause \subseteq cause'
BY ZenonT(60) DEF Step, Asked, Mounted, Served, TurnedAway, Answered, Broken, Handled, Missed, Restored,
   EndedElsewhere, vars, history

\* Another tab that is active is shared with.
LEMMA AloneStep ==
    ASSUME TypeOK, CallInv, AloneInv, Step PROVE AloneInv'
<1> USE NoneAssumption
<1>t. /\ call \in [Call -> CallType] /\ stored \in [Tab -> Session \cup {None}]
  BY DEF TypeOK
<1>m. cause \subseteq cause'
  BY CauseGrows
\* If at most t becomes active, or no tab.
<1>k. ASSUME NEW t \in Tab, Active(t) \/ (Shared(t) => "tab" \in cause'),
             \A u \in Tab \ {t} : Active(u)' => Active(u)
      PROVE  AloneInv'
  <2> SUFFICES ASSUME Alone', NEW u \in Tab, NEW v \in Tab, Active(u)', Active(v)' PROVE u = v
    BY DEF AloneInv
  <2>1. Alone /\ "tab" \notin cause'
    BY <1>m DEF Alone
  <2>2. \A w \in Tab \ {t} : Active(w) => Shared(t)
    BY DEF Active, Shared
  <2>3. \A w \in Tab : Active(w)' => w = t
    BY <1>k, <2>1, <2>2 DEF AloneInv
  <2>. QED
    BY <2>3
<1>n. ASSUME \A u \in Tab : Active(u)' => Active(u) PROVE AloneInv'
  BY <1>m, <1>n DEF AloneInv, Alone
<1>a. \A u \in Tab : /\ Active(u) <=> (stored[u] # None \/ \E d \in Call : call[d].tab = u)
                     /\ Active(u)' <=> (stored'[u] # None \/ \E d \in Call : call'[d].tab = u)
  BY DEF Active, Quiet, InFlight
<1>1. ASSUME NEW c \in Call, NEW t \in Tab, NEW o \in Operations, NEW s \in Session \cup {None},
             Asked(c, t, o, s)
      PROVE  AloneInv'
  <2>1. /\ call'[c].tab = t /\ \A d \in Call \ {c} : call'[d].tab = call[d].tab
        /\ stored' = stored /\ (Shared(t) => "tab" \in cause')
    BY <1>1, <1>t, NewCallFields DEF Asked
  <2>2. \A u \in Tab \ {t} : Active(u)' => Active(u)
    BY <1>a, <2>1
  <2>. QED
    BY <1>k, <2>1, <2>2
<1>2. ASSUME NEW c \in Call, NEW t \in Tab, NEW s \in Session \cup {None}, NEW a,
             Mounted(c, t, s, a)
      PROVE  AloneInv'
  <2>1. /\ call'[c].tab \in {t, None} /\ stored' = [stored EXCEPT ![t] = s]
        /\ \A d \in Call \ {c} : call'[d].tab \in {call[d].tab, None}
        /\ Shared(t) => "tab" \in cause'
    <3>1. /\ stored' = [stored EXCEPT ![t] = s] /\ (Shared(t) => "tab" \in cause')
          /\ call'[c] \in {NewCall(t, "verify", None), NewCall(t, "load", s), Idle}
      BY <1>2 DEF Mounted
    <3>2. call'[c].tab \in {t, None}
      BY <3>1, NewCallFields, IdleCall
    <3>3. \A d \in Call \ {c} : call'[d].tab \in {call[d].tab, None}
      BY <1>2, MountedCalls, IdleCall
    <3>. QED
      BY <3>1, <3>2, <3>3
  <2>2. \A u \in Tab \ {t} : Active(u)' => Active(u)
    BY <1>a, <1>t, <2>1
  <2>. QED
    BY <1>k, <2>1, <2>2
<1>3. ASSUME NEW c \in Call, Served(c) \/ TurnedAway(c) PROVE AloneInv'
  <2>1. stored' = stored /\ \A d \in Call : call'[d].tab = call[d].tab
    BY <1>3 DEF Served, TurnedAway, Opens, Closes, Resolved, page
  <2>. QED
    BY <1>a, <1>n, <2>1
<1>4. ASSUME NEW c \in Call, NEW ok, Handled(c, ok) PROVE AloneInv'
  <2>1. /\ call[c].tab \in Tab /\ call'[c] = Idle
        /\ stored' = stored \/ \E s : stored' = [stored EXCEPT ![call[c].tab] = s]
        /\ \A d \in Call \ {c} : call'[d].tab = call[d].tab
    BY <1>4 DEF Handled
  <2>2. Active(call[c].tab)
    BY <1>a, <2>1
  <2>3. \A u \in Tab \ {call[c].tab} : Active(u)' => Active(u)
    BY <1>a, <1>t, <2>1, IdleCall
  <2>. QED
    BY <1>k, <2>1, <2>2, <2>3
<1>5. ASSUME NEW c \in Call, NEW t \in Tab, Restored(c, t) PROVE AloneInv'
  <2>1. /\ call'[c].tab \in {t, None} /\ \A d \in Call \ {c} : call'[d].tab = call[d].tab
        /\ stored' = stored /\ (Shared(t) => "tab" \in cause')
    BY <1>5, <1>t, NewCallFields, IdleCall DEF Restored
  <2>2. \A u \in Tab \ {t} : Active(u)' => Active(u)
    BY <1>a, <2>1
  <2>. QED
    BY <1>k, <2>1, <2>2
<1>6. ASSUME NEW c \in Call, Missed(c) PROVE AloneInv'
  <2>1. stored' = stored /\ \A d \in Call : call'[d].tab \in {call[d].tab, None}
    BY <1>6, <1>t, IdleCall DEF Missed, page
  <2>. QED
    BY <1>a, <1>n, <2>1
<1>7. ASSUME UNCHANGED <<page, call>> PROVE AloneInv'
  BY <1>7, <1>a, <1>n DEF page
<1>. QED
  BY <1>1, <1>2, <1>3, <1>4, <1>5, <1>6, <1>7
     DEF Step, Answered, Broken, EndedElsewhere, vars

-----------------------------------------------------------------------------
(* What was served is over *)

\* A session opened was named nowhere.
LEMMA NamedStaysDead ==
    ASSUME TypeOK, CallInv, FreshInv, Step, NEW x \in Session \cup {None}, Held(x),
           x # None /\ state'[x] = "live"
    PROVE  Live(x)
<1>1. x \in Session
  OBVIOUS
<1>2. CASE state[x] # "none"
  BY <1>1, <1>2, DeadStaysDead DEF Live
<1>3. CASE state[x] = "none"
  <2>1. ASSUME NEW c \in Call, Served(c) PROVE account # "deleted"
    <3>1. ASSUME NEW s \in Session, Opens(c, s) PROVE account # "deleted"
      BY <3>1 DEF Opens
    <3>2. CASE Closes(c)
      BY <1>1, <1>3, <3>2 DEF Closes, MayEnd
    <3>. QED
      BY <2>1, <3>1, <3>2 DEF Served
  <2>2. ASSUME state' = state PROVE FALSE
    BY <1>3, <2>2
  <2>3. ASSUME NEW s \in Session, EndedElsewhere(s) PROVE FALSE
    BY <1>1, <1>3, <2>3 DEF EndedElsewhere
  <2>4. account # "deleted"
    BY ZenonT(60), <2>1, <2>2, <2>3 DEF Step, Asked, Mounted, TurnedAway, Answered, Broken, Handled, Missed,
       Restored, server, vars
  <2>. QED
    BY <1>1, <1>3, <2>4, FreshParts
<1>. QED
  BY <1>2, <1>3

LEMMA WithStaysDead ==
    ASSUME TypeOK, CallInv, FreshInv, Step, NEW d \in Call, ~Live(call[d].with)
    PROVE  call[d].with # None => state'[call[d].with] # "live"
<1>1. call[d].with \in Session \cup {None}
  BY DEF TypeOK, CallType
<1>. QED
  BY <1>1, NamedStaysDead, HeldNow

LEMMA AccountStaysDeleted ==
    ASSUME TypeOK, CallInv, Step, account = "deleted" PROVE account' = "deleted"
<1>1. ASSUME NEW c \in Call, Served(c) PROVE account' = "deleted"
  <2>1. ASSUME NEW s \in Session, Opens(c, s) PROVE FALSE
    BY <2>1 DEF Opens
  <2>2. CASE Closes(c)
    BY <2>2 DEF Closes
  <2>. QED
    BY <1>1, <2>1, <2>2 DEF Served
<1>. QED
  BY ZenonT(60), <1>1 DEF Step, Asked, Mounted, TurnedAway, Answered, Broken, Handled, Missed,
     Restored, EndedElsewhere, server, vars

\* What a step leaves of a call: it is gone, has just been made or served, or
\* is what it was but for its page.
LEMMA CallAfter ==
    ASSUME TypeOK, CallInv, Step, NEW d \in Call
    PROVE  \/ call'[d].phase # "ok" /\ (call'[d].phase = "refused" =>
                                          call[d].phase = "refused" \/ TurnedAway(d))
           \/ Served(d)
           \/ /\ call[d].phase = "ok" /\ call'[d].phase = "ok"
              /\ call'[d].op = call[d].op /\ call'[d].with = call[d].with
              /\ call'[d].got = call[d].got
<1> DEFINE Same == /\ call'[d].phase = call[d].phase
                   /\ call'[d].op = call[d].op /\ call'[d].with = call[d].with
                   /\ call'[d].got = call[d].got
           Sent == call'[d].phase = "sent"
<1>t. call[d] \in CallType /\ call \in [Call -> CallType]
  BY DEF TypeOK
<1>p. call[d].phase \in {"sent", "ok", "refused"}
  BY <1>t DEF CallType
<1>1. ASSUME NEW c \in Call, NEW t \in Tab, NEW o, NEW s, Asked(c, t, o, s) PROVE Same \/ Sent
  BY <1>1, <1>t, NewCallFields DEF Asked
<1>2. ASSUME NEW c \in Call, NEW t \in Tab, NEW s, NEW a, Mounted(c, t, s, a) PROVE Same \/ Sent
  <2>1. CASE d = c
    <3>1. \/ call'[c] = Idle \/ call'[c] = NewCall(t, "verify", None)
          \/ call'[c] = NewCall(t, "load", s)
      BY <1>2 DEF Mounted
    <3>. QED
      BY <2>1, <3>1, NewCallFields, IdleCall
  <2>2. CASE d # c
    BY <1>2, <2>2, MountedCalls, IdleCall
  <2>. QED
    BY <2>1, <2>2
<1>3. ASSUME NEW c \in Call, Served(c) PROVE Same \/ Served(d)
  BY <1>3 DEF Served, Opens, Closes, Resolved
<1>4. ASSUME NEW c \in Call, TurnedAway(c)
      PROVE  Same \/ (call'[d].phase = "refused" /\ TurnedAway(d))
  BY <1>4 DEF TurnedAway, Resolved
<1>5. ASSUME NEW c \in Call, NEW ok, Handled(c, ok) PROVE Same \/ Sent
  BY <1>5, IdleCall DEF Handled
<1>6. ASSUME NEW c \in Call, NEW t \in Tab, Restored(c, t) PROVE Same \/ Sent
  BY <1>6, <1>t, NewCallFields, IdleCall DEF Restored
<1>7. ASSUME NEW c \in Call, Missed(c) PROVE Same \/ Sent
  BY <1>7, <1>t, IdleCall DEF Missed
<1>8. ASSUME call' = call PROVE Same
  BY <1>8
<1>9. Same \/ Sent \/ Served(d) \/ (call'[d].phase = "refused" /\ TurnedAway(d))
  BY <1>1, <1>2, <1>3, <1>4, <1>5, <1>6, <1>7, <1>8
     DEF Step, Answered, Broken, EndedElsewhere, vars
<1>. QED
  BY <1>9, <1>p

\* What DoneInv says of one call.
DoneOf(d) ==
    call[d].phase = "ok" =>
        /\ call[d].op \in {"load", "refresh", "change", "logout"} => ~Live(call[d].with)
        /\ call[d].op = "delete" => account = "deleted"
        /\ call[d].op = "reset" /\ cause = {} => ~Live(cookie)

\* While the tabs are alone and nothing happened, the cookie is not replaced
\* while a password is being reset: no other call of the browser is in flight.
LEMMA ResetAlone ==
    ASSUME TypeOK, CallInv, PageInv, AloneInv, NEW d \in Call, call[d].op = "reset",
           cause = {}, NEW c \in Call, call[c].tab # None
    PROVE  c = d
<1>1. call[d].tab # None
  BY DEF CallInv
<1>2. call[c].tab \in Tab /\ call[d].tab \in Tab
  BY <1>1 DEF TypeOK, CallType
<1>3. Active(call[c].tab) /\ Active(call[d].tab)
  BY DEF Active, Quiet, InFlight
<1>4. call[c].tab = call[d].tab
  BY <1>2, <1>3 DEF AloneInv, Alone
<1>5. link[call[d].tab] = "reset" /\ c \in InFlight(call[d].tab) /\ d \in InFlight(call[d].tab)
  BY <1>1, <1>4 DEF PageInv, InFlight
<1>. QED
  BY <1>2, <1>5 DEF PageInv

\* The cookie changes by an answer that is handled or missed.
LEMMA CookieKept ==
    ASSUME Step
    PROVE  cookie' = cookie \/ \E c \in Call : Answered(c) \/ Missed(c)
BY ZenonT(60) DEF Step, Asked, Mounted, Served, TurnedAway, Broken, Restored, EndedElsewhere, vars

LEMMA DoneStep ==
    ASSUME TypeOK, CallInv, PageInv, FreshInv, DoneInv, AloneInv, Step PROVE DoneInv'
<1> USE NoneAssumption
<1> SUFFICES ASSUME NEW d \in Call PROVE DoneOf(d)'
  BY DEF DoneInv, DoneOf
<1>t. call[d].with \in Session \cup {None} /\ cookie \in Session \cup {None}
  BY DEF TypeOK, CallType
<1>1. CASE call'[d].phase # "ok"
  BY <1>1 DEF DoneOf
<1>2. CASE Served(d)
  <2>1. call'[d].op = call[d].op /\ call'[d].with = call[d].with /\ cookie' = cookie
    BY <1>2 DEF Served, Opens, Closes, Resolved
  <2>2. ASSUME NEW s \in Session, Opens(d, s) PROVE DoneOf(d)'
    <3>1. call[d].op \in Issuers /\ state[s] = "none"
      BY <2>2 DEF Opens
    <3>2. CASE call[d].op \in {"load", "refresh"}
      <4>1. state'[call[d].with] = "revoked"
        BY <2>2, <3>2 DEF Opens
      <4>. QED
        BY <2>1, <3>2, <4>1 DEF DoneOf, Live
    <3>3. CASE call[d].op = "change"
      <4>1. state[call[d].with] = "live" /\ \A x \in Session \ {s} : state'[x] # "live"
        BY <2>2, <3>3 DEF Opens
      <4>. QED
        BY <1>t, <2>1, <3>1, <3>3, <4>1 DEF DoneOf, Live
    <3>4. CASE call[d].op = "signin"
      BY <2>1, <3>4 DEF DoneOf
    <3>. QED
      BY <3>1, <3>2, <3>3, <3>4 DEF Issuers
  <2>3. CASE Closes(d)
    <3>1. call[d].op \in {"logout", "others", "reset", "delete", "edit", "verify"}
      BY <2>3 DEF Closes
    <3>2. CASE call[d].op = "logout"
      BY <2>1, <2>3, <3>2 DEF Closes, DoneOf, Live
    <3>3. CASE call[d].op = "delete"
      BY <2>1, <2>3, <3>3 DEF Closes, DoneOf
    <3>4. CASE call[d].op = "reset"
      BY <1>t, <2>1, <2>3, <3>4 DEF Closes, DoneOf, Live
    <3>5. CASE call[d].op \in {"others", "edit", "verify"}
      BY <2>1, <3>5 DEF DoneOf
    <3>. QED
      BY <3>1, <3>2, <3>3, <3>4, <3>5
  <2>. QED
    BY <1>2, <2>2, <2>3 DEF Served
<1>3. CASE /\ call[d].phase = "ok" /\ call'[d].phase = "ok"
           /\ call'[d].op = call[d].op /\ call'[d].with = call[d].with
           /\ call'[d].got = call[d].got
  <2>1. call[d].op \in {"load", "refresh", "change", "logout"} => ~Live(call[d].with)'
    <3>1. ASSUME call[d].op \in {"load", "refresh", "change", "logout"}
          PROVE  call[d].with # None => state'[call[d].with] # "live"
      BY <1>3, <3>1, WithStaysDead DEF DoneInv
    <3>. QED
      BY <1>3, <3>1 DEF Live
  <2>2. call[d].op = "delete" => account' = "deleted"
    BY <1>3, AccountStaysDeleted DEF DoneInv
  <2>3. ASSUME call[d].op = "reset", cause' = {} PROVE ~Live(cookie)'
    <3>1. cause = {} /\ ~Live(cookie)
      BY <1>3, <2>3, CauseGrows DEF DoneInv
    <3>2. ASSUME NEW c \in Call, Answered(c) PROVE c = d
      BY <2>3, <3>1, <3>2, ResetAlone DEF Answered, Handled
    <3>3. ASSUME NEW c \in Call, Answered(c) PROVE FALSE
      BY <1>3, <2>3, <3>2, <3>3, IdleCall DEF Answered, Handled
    <3>4. ASSUME NEW c \in Call, Missed(c) PROVE FALSE
      BY <3>1, <3>4 DEF Missed
    <3>5. cookie' = cookie
      BY <3>3, <3>4, CookieKept
    <3>6. cookie # None => state'[cookie] # "live"
      BY <1>t, <3>1, NamedStaysDead, HeldNow
    <3>. QED
      BY <3>5, <3>6 DEF Live
  <2>. QED
    BY <1>3, <2>1, <2>2, <2>3 DEF DoneOf
<1>. QED
  BY <1>1, <1>2, <1>3, CallAfter

LEMMA RefusedStep ==
    ASSUME TypeOK, CallInv, FreshInv, WithInv, RefusedInv, Step PROVE RefusedInv'
<1> USE NoneAssumption
<1> SUFFICES ASSUME cause' \subseteq {"tab"}, NEW d \in Call,
                    call'[d].op \in {"load", "logout"}, call'[d].phase = "refused"
             PROVE  ~Live(call[d].with)' \/ call'[d].with # cookie'
  BY DEF RefusedInv
<1>t. call[d].with \in Session \cup {None} /\ call \in [Call -> CallType]
  BY DEF TypeOK, CallType
<1>m. cause \subseteq {"tab"}
  BY CauseGrows
<1>1. call'[d].op = call[d].op /\ call'[d].with = call[d].with
      /\ (call[d].phase = "refused" \/ TurnedAway(d))
  <2>1. call'[d].phase # "sent" /\ call'[d].phase # "ok"
    OBVIOUS
  <2>2. ASSUME NEW c \in Call, NEW t \in Tab, NEW o, NEW s, Asked(c, t, o, s)
        PROVE  call'[d] = call[d]
    BY <1>t, <2>1, <2>2, NewCallFields DEF Asked
  <2>3. ASSUME NEW c \in Call, NEW t \in Tab, NEW s, NEW a, Mounted(c, t, s, a)
        PROVE  /\ call'[d].op = call[d].op /\ call'[d].with = call[d].with
               /\ call'[d].phase = call[d].phase
    <3>1. d # c
      <4>1. call'[c] \in {Idle, NewCall(t, "verify", None), NewCall(t, "load", s)}
        BY <2>3 DEF Mounted
      <4>. QED
        BY <2>1, <4>1, NewCallFields, IdleCall
    <3>. QED
      BY <2>1, <2>3, <3>1, MountedCalls, IdleCall
  <2>4. ASSUME NEW c \in Call, Served(c) PROVE call'[d] = call[d]
    BY <2>1, <2>4 DEF Served, Opens, Closes, Resolved
  <2>5. ASSUME NEW c \in Call, TurnedAway(c)
        PROVE  /\ call'[d].op = call[d].op /\ call'[d].with = call[d].with
               /\ (call'[d] = call[d] \/ TurnedAway(d))
    BY <2>5 DEF TurnedAway, Resolved
  <2>6. ASSUME NEW c \in Call, NEW ok, Handled(c, ok)
        PROVE  /\ call'[d].op = call[d].op /\ call'[d].with = call[d].with
               /\ call'[d].phase = call[d].phase
    BY <2>1, <2>6, IdleCall DEF Handled
  <2>7. ASSUME NEW c \in Call, NEW t \in Tab, Restored(c, t) PROVE call'[d] = call[d]
    BY <1>t, <2>1, <2>7, NewCallFields, IdleCall DEF Restored
  <2>8. ASSUME NEW c \in Call, Missed(c) PROVE call'[d] = call[d]
    BY <1>t, <2>1, <2>8, IdleCall DEF Missed
  <2>. QED
    BY <2>2, <2>3, <2>4, <2>5, <2>6, <2>7, <2>8
       DEF Step, Answered, Broken, EndedElsewhere, vars
<1>2. ~Live(call[d].with) => ~Live(call[d].with)'
  <2>1. ~Live(call[d].with) => (call[d].with # None => state'[call[d].with] # "live")
    BY WithStaysDead
  <2>. QED
    BY <1>1, <2>1 DEF Live
<1>3. CASE TurnedAway(d)
  <2>1. cookie' = cookie /\ ~Valid(d) /\ call[d].op \in CookieOps
    BY <1>1, <1>3, <1>m DEF TurnedAway, CookieOps
  <2>2. ~CookieValid(d)
    BY <2>1 DEF Valid
  <2>3. call[d].with # None
    BY <2>1 DEF CallInv, Bound
  <2>4. call[d].with = cookie => ~Live(call[d].with)
    BY <2>1, <2>2, <2>3 DEF CookieValid, WithInv, Live
  <2>. QED
    BY <1>1, <1>2, <2>1, <2>4
<1>4. CASE call[d].phase = "refused"
  <2>1. ~Live(call[d].with) \/ call[d].with # cookie
    BY <1>1, <1>4, <1>m DEF RefusedInv
  <2>2. call[d].with # None
    BY <1>1 DEF CallInv, Bound, CookieOps
  <2>3. ASSUME NEW c \in Call, Answered(c) \/ Missed(c)
        PROVE  cookie' = cookie \/ call[d].with # cookie'
    <3>1. Brings(c) => call[d].with # call[c].got
      BY DEF FreshInv
    <3>. QED
      BY <2>2, <2>3, <3>1, CookieAfterAnswer
  <2>4. cookie' = cookie \/ call[d].with # cookie'
    BY <2>3, CookieKept
  <2>. QED
    BY <1>1, <1>2, <2>1, <2>4
<1>. QED
  BY <1>1, <1>3, <1>4

-----------------------------------------------------------------------------
(* Answers that nothing has overtaken *)

\* The page t ends up with session s.
Shown(t, s) == stored'[t] = s /\ shown'[t] = s

LEMMA AnswerCases ==
    ASSUME TypeOK, CallInv, WithInv, NEW c \in Call, NEW t \in Tab, t = call[c].tab,
           Answered(c), "overtaken" \notin cause'
    PROVE  LET o == call[c].op
               ok == call[c].phase = "ok"
           IN
           /\ \A u \in Tab \ {t} : stored'[u] = stored[u] /\ shown'[u] = shown[u]
           /\ o \in Issuers \cup Removers \cup {"edit", "others"}
           /\ ok \/ call[c].phase = "refused"
           /\ ok \/ o \in {"load", "logout"} =>
                 /\ Bound(c) => call[c].with = stored[t]
                 /\ o = "signin" => stored[t] = None
           /\ ok /\ o \in Issuers => Brings(c) /\ cookie' = call[c].got /\ Shown(t, call[c].got)
           /\ ok /\ o \in Removers => cookie' = None /\ Shown(t, None)
           /\ ~ok /\ o \in {"load", "logout"} => cookie' = cookie /\ Shown(t, None)
           /\ \/ ok /\ o \in {"edit", "others"}
              \/ ~ok /\ o \notin {"load", "logout"}
              => cookie' = cookie /\ stored'[t] = stored[t] /\ shown'[t] = shown[t]
<1> DEFINE o == call[c].op
           ok == call[c].phase = "ok"
<1>t. /\ stored \in [Tab -> Session \cup {None}] /\ shown \in [Tab -> Session \cup {None}]
      /\ call[c] \in CallType
  BY DEF TypeOK
<1>1. /\ o \notin {"none", "verify"}
      /\ Shows(c, ok) \/ Clears(c, ok) =>
            LET s == IF Shows(c, ok) THEN Brought(c) ELSE None
            IN stored' = [stored EXCEPT ![t] = s] /\ shown' = [shown EXCEPT ![t] = s]
      /\ ~Shows(c, ok) /\ ~Clears(c, ok) => stored' = stored /\ shown' = shown
      /\ Shows(c, ok) => ~Clears(c, ok)
  BY DEF Answered, Handled
<1>2. /\ call[c].phase # "sent" /\ cookie' = CookieAfter(c)
      /\ ok \/ Clears(c, FALSE) => ~call[c].late
  BY DEF Answered
<1>3. o \in Issuers \cup Removers \cup {"edit", "others"} /\ (ok \/ call[c].phase = "refused")
  BY <1>t, <1>1, <1>2 DEF CallType, Operations, CookieOps, SecurityOps, Issuers, Removers
<1>4. ok \/ o \in {"load", "logout"} =>
         /\ Bound(c) => call[c].with = stored[t]
         /\ o = "signin" => stored[t] = None
         /\ o \in SecurityOps => call[c].with = shown[t]
  <2>1. o \in {"load", "logout"} => Clears(c, FALSE)
    BY DEF Clears
  <2>2. t # None
    BY NoneAssumption
  <2>. QED
    BY <1>2, <2>1, <2>2 DEF WithInv
<1>5. ASSUME ok, o \in Issuers PROVE Brings(c) /\ cookie' = call[c].got /\ Shown(t, call[c].got)
  <2>1. Shows(c, ok) /\ Brought(c) = call[c].got /\ Brings(c) /\ cookie' = call[c].got
    BY <1>2, <1>5 DEF Shows, Brought, Brings, CookieAfter, Issuers
  <2>. QED
    BY <1>t, <1>1, <2>1 DEF Shown
<1>6. ASSUME ok, o \in Removers PROVE cookie' = None /\ Shown(t, None)
  <2>1. Clears(c, ok) /\ cookie' = None
    BY <1>2, <1>6 DEF Clears, CookieAfter, Issuers, Removers
  <2>. QED
    BY <1>t, <1>1, <2>1 DEF Shown
<1>7. ASSUME ~ok, o \in {"load", "logout"} PROVE cookie' = cookie /\ Shown(t, None)
  <2>1. Clears(c, ok) /\ cookie' = cookie
    BY <1>2, <1>7 DEF Clears, CookieAfter
  <2>. QED
    BY <1>t, <1>1, <2>1 DEF Shown
<1>8. ASSUME ok, o = "edit"
      PROVE cookie' = cookie /\ stored'[t] = stored[t] /\ shown'[t] = shown[t]
  <2>1. Shows(c, ok) /\ Brought(c) = call[c].with /\ cookie' = cookie
    BY <1>2, <1>8 DEF Shows, Brought, CookieAfter, Issuers, Removers
  <2>2. call[c].with = stored[t] /\ call[c].with = shown[t]
    BY <1>4, <1>8 DEF Bound, SecurityOps
  <2>. QED
    BY <1>t, <1>1, <2>1, <2>2
<1>9. ASSUME (ok /\ o = "others") \/ (~ok /\ o \notin {"load", "logout"})
      PROVE cookie' = cookie /\ stored'[t] = stored[t] /\ shown'[t] = shown[t]
  <2>1. ~Shows(c, ok) /\ ~Clears(c, ok) /\ cookie' = cookie
    BY <1>2, <1>9 DEF Shows, Clears, CookieAfter, Issuers, Removers
  <2>. QED
    BY <1>1, <2>1
<1>10. \A u \in Tab \ {t} : stored'[u] = stored[u] /\ shown'[u] = shown[u]
  BY <1>t, <1>1
<1>. QED
  BY <1>3, <1>4, <1>5, <1>6, <1>7, <1>8, <1>9, <1>10

\* The tabs that are active in one step of one call are one tab.
LEMMA OneTab ==
    ASSUME AloneInv, Alone, NEW c \in Call, NEW t \in Tab, call[c].tab = t,
           NEW u \in Tab, stored[u] # None \/ \E d \in Call : call[d].tab = u
    PROVE  u = t
BY DEF AloneInv, Active, Quiet, InFlight

-----------------------------------------------------------------------------
(* The session of the cookie *)

\* The session that a served call was about is not alive when it is answered.
LEMMA OldSessionOver ==
    ASSUME TypeOK, CallInv, PageInv, FreshInv, WithInv, DoneInv, NEW c \in Call, NEW t \in Tab,
           t = call[c].tab, Answered(c), "overtaken" \notin cause', call[c].phase = "ok",
           call[c].op \in Issuers \cup {"logout", "delete"}
    PROVE  ~Live(stored[t])
<1>t. stored[t] \in Session \cup {None}
  BY DEF TypeOK
<1>1. CASE call[c].op \in {"load", "refresh", "change", "logout"}
  <2>1. call[c].with = stored[t]
    BY <1>1, AnswerCases DEF Bound, CookieOps, SecurityOps
  <2>2. ~Live(call[c].with)
    BY <1>1 DEF DoneInv
  <2>. QED
    BY <2>1, <2>2
<1>2. CASE call[c].op = "signin"
  BY <1>2, AnswerCases DEF Live
<1>3. CASE call[c].op = "delete"
  <2>1. account = "deleted"
    BY <1>3 DEF DoneInv
  <2>. QED
    BY <1>t, <2>1 DEF FreshInv, Live
<1>. QED
  BY <1>1, <1>2, <1>3 DEF Issuers

LEMMA HomeStep ==
    ASSUME TypeOK, CallInv, PageInv, FreshInv, WithInv, DoneInv, RefusedInv, AloneInv,
           HomeInv, Step
    PROVE  HomeInv'
<1> USE NoneAssumption
<1>t. /\ call \in [Call -> CallType] /\ stored \in [Tab -> Session \cup {None}]
      /\ cookie \in Session \cup {None}
  BY DEF TypeOK
<1>m. cause \subseteq cause'
  BY CauseGrows
<1>l. ASSUME cookie' = cookie, Live(cookie)' PROVE Live(cookie)
  BY <1>l, <1>t, NamedStaysDead, HeldNow DEF Live
\* A step that leaves the cookie, and the stored session that is its session.
<1>k. ASSUME cookie' = cookie, \A t \in Tab : Live(cookie) /\ stored[t] = cookie => stored'[t] = cookie
      PROVE  cause' \subseteq {"tab"} /\ Live(cookie)' => \E t \in Tab : stored'[t] = cookie'
  BY <1>k, <1>l, <1>m DEF HomeInv
<1>a. ASSUME NEW c \in Call, Answered(c), cause' \subseteq {"tab"}, NEW t \in Tab, t = call[c].tab
      PROVE  Live(cookie)' => \E u \in Tab : stored'[u] = cookie'
  <2>1. "overtaken" \notin cause' /\ cause \subseteq {"tab"}
    BY <1>a, <1>m
  <2>2. CASE call[c].phase = "ok" /\ call[c].op \in Issuers
    BY <1>a, <2>1, <2>2, AnswerCases DEF Shown
  <2>3. CASE call[c].phase = "ok" /\ call[c].op \in Removers
    BY <1>a, <2>1, <2>3, AnswerCases DEF Live
  <2>4. CASE call[c].phase # "ok" /\ call[c].op \in {"load", "logout"}
    <3>1. /\ cookie' = cookie /\ call[c].with = stored[t] /\ call[c].phase = "refused"
          /\ \A u \in Tab \ {t} : stored'[u] = stored[u]
      BY <1>a, <2>1, <2>4, AnswerCases DEF Bound, CookieOps
    <3>2. ~Live(call[c].with) \/ call[c].with # cookie
      BY <2>1, <2>4, <3>1 DEF RefusedInv
    <3>3. \A u \in Tab : Live(cookie) /\ stored[u] = cookie => stored'[u] = cookie
      BY <3>1, <3>2
    <3>. QED
      BY <1>a, <1>k, <3>1, <3>3
  <2>5. CASE \/ call[c].phase = "ok" /\ call[c].op \in {"edit", "others"}
             \/ call[c].phase # "ok" /\ call[c].op \notin {"load", "logout"}
    <3>1. /\ cookie' = cookie /\ stored'[t] = stored[t]
          /\ \A u \in Tab \ {t} : stored'[u] = stored[u]
      BY <1>a, <2>1, <2>5, AnswerCases
    <3>. QED
      BY <1>a, <1>k, <3>1
  <2>. QED
    BY <1>a, <2>1, <2>2, <2>3, <2>4, <2>5, AnswerCases
<1>1. ASSUME cause' \subseteq {"tab"}, Live(cookie)' PROVE \E t \in Tab : stored'[t] = cookie'
  <2>1. ASSUME NEW c \in Call, Answered(c) PROVE \E t \in Tab : stored'[t] = cookie'
    <3>1. call[c].tab \in Tab
      BY <2>1 DEF Answered, Handled
    <3>. QED
      BY <1>1, <1>a, <2>1, <3>1
  <2>2. ASSUME NEW c \in Call, NEW t \in Tab, NEW s, NEW a, Mounted(c, t, s, a)
        PROVE  \E u \in Tab : stored'[u] = cookie'
    <3>1. cookie' = cookie /\ stored' = [stored EXCEPT ![t] = s]
          /\ (s # stored[t] => stored[t] = None)
      BY <2>2 DEF Mounted
    <3>2. \A u \in Tab : Live(cookie) /\ stored[u] = cookie => stored'[u] = cookie
      BY <1>t, <3>1 DEF Live
    <3>. QED
      BY <1>1, <1>k, <3>1, <3>2
  <2>3. ASSUME UNCHANGED <<cookie, stored>> PROVE \E u \in Tab : stored'[u] = cookie'
    BY <1>1, <1>k, <2>3
  <2>4. ASSUME NEW c \in Call, Broken(c) \/ Missed(c) PROVE FALSE
    BY <1>1, <2>4 DEF Broken, Missed, history
  <2>. QED
    BY <2>1, <2>2, <2>3, <2>4
       DEF Step, Asked, Served, TurnedAway, Restored, EndedElsewhere, vars, page
\* A call that brings a session, not handled in this step, still does.
<1>b. ASSUME cause' = {}, NEW d \in Call, Brings(d), ~Answered(d)
      PROVE  Brings(d)' /\ call'[d].got = call[d].got
  <2>1. call[d].phase = "ok" /\ call[d].op \in Issuers /\ cause = {} /\ call[d] # Idle
    BY <1>b, <1>m, IdleCall DEF Brings, Issuers
  <2>2. ASSUME NEW c \in Call, NEW t \in Tab, NEW o, NEW s, Asked(c, t, o, s)
        PROVE  call'[d] = call[d]
    BY <1>t, <2>1, <2>2 DEF Asked
  <2>3. ASSUME NEW c \in Call, NEW t \in Tab, NEW s, NEW a, Mounted(c, t, s, a)
        PROVE  call'[d] = call[d]
    <3>1. d # c /\ call[d].op \notin Harmless
      BY <2>1, <2>3 DEF Mounted, Issuers, Harmless
    <3>2. d \notin InFlight(t)
      BY <1>b, <2>3, <3>1 DEF Mounted
    <3>. QED
      BY <2>3, <3>1, <3>2, MountedCalls
  <2>4. ASSUME NEW c \in Call, Served(c) \/ TurnedAway(c) PROVE call'[d] = call[d]
    BY <2>1, <2>4 DEF Served, Opens, Closes, TurnedAway, Resolved
  <2>5. ASSUME NEW c \in Call, Answered(c)
        PROVE  /\ call'[d].op = call[d].op /\ call'[d].phase = call[d].phase
               /\ call'[d].got = call[d].got
    BY ZenonT(60), <1>b, <2>5 DEF Answered, Handled
  <2>6. ASSUME NEW c \in Call, Broken(c) \/ Missed(c) PROVE FALSE
    BY <1>b, <2>6 DEF Broken, Missed, history
  <2>7. ASSUME NEW c \in Call, NEW t \in Tab, Restored(c, t) PROVE call'[d] = call[d]
    BY <1>t, <2>1, <2>7 DEF Restored, Issuers
  <2>8. call'[d].op = call[d].op /\ call'[d].phase = call[d].phase
        /\ call'[d].got = call[d].got
    BY <2>2, <2>3, <2>4, <2>5, <2>6, <2>7 DEF Step, EndedElsewhere, vars
  <2>. QED
    BY <2>1, <2>8 DEF Brings
<1>2. ASSUME cause' = {}, NEW s \in Session, Live(s)'
      PROVE  s = cookie' \/ \E d \in Call : Brings(d)' /\ call'[d].got = s
  <2>1. cause = {} /\ s # None /\ state'[s] = "live"
    BY <1>2, <1>m DEF Live
  <2>2. CASE state[s] # "live"
    <3>1. ASSUME NEW c \in Call, Served(c) PROVE Brings(c)' /\ call'[c].got = s
      <4>1. ASSUME NEW x \in Session, Opens(c, x) PROVE Brings(c)' /\ call'[c].got = s
        <5>1. s = x
          BY <2>1, <2>2, <4>1 DEF Opens, MayEnd
        <5>. QED
          BY <4>1, <5>1 DEF Opens, Resolved, Brings
      <4>2. CASE Closes(c)
        BY <2>1, <2>2, <4>2 DEF Closes, MayEnd
      <4>. QED
        BY <3>1, <4>1, <4>2 DEF Served
    <3>2. ASSUME state' = state PROVE FALSE
      BY <2>1, <2>2, <3>2
    <3>3. ASSUME NEW x \in Session, EndedElsewhere(x) PROVE FALSE
      BY <2>1, <2>2, <3>3 DEF EndedElsewhere
    <3>. QED
      BY ZenonT(60), <3>1, <3>2, <3>3 DEF Step, Asked, Mounted, TurnedAway, Answered, Broken, Handled,
         Missed, Restored, server, vars
  <2>3. CASE state[s] = "live"
    <3>1. s = cookie \/ \E d \in Call : Brings(d) /\ call[d].got = s
      BY <2>1, <2>3 DEF HomeInv, Live
    <3>2. ASSUME NEW c \in Call, Answered(c)
          PROVE  s = cookie' \/ \E d \in Call : Brings(d)' /\ call'[d].got = s
      <4>1. PICK t \in Tab : t = call[c].tab
        BY <3>2 DEF Answered, Handled
      <4>2. "overtaken" \notin cause'
        BY <1>2
      <4>3. \A d \in Call \ {c} : Brings(d) => Brings(d)' /\ call'[d].got = call[d].got
        BY <3>2 DEF Answered, Handled, Brings
      <4>4. CASE call[c].phase = "ok" /\ call[c].op \in Issuers \cup Removers
        <5>1. s # cookie
          <6>1. SUFFICES ASSUME s = cookie PROVE FALSE
            OBVIOUS
          <6>2. PICK u \in Tab : stored[u] = s
            BY <2>1, <2>3, <6>1 DEF HomeInv, Live
          <6>3. u = t
            BY <2>1, <4>1, <6>2, OneTab DEF Alone
          <6>4. CASE call[c].op \in Issuers \cup {"logout", "delete"}
            BY <2>1, <2>3, <3>2, <4>1, <4>2, <4>4, <6>2, <6>3, <6>4, OldSessionOver DEF Live
          <6>5. CASE call[c].op = "reset"
            BY <2>1, <2>3, <4>4, <6>1, <6>5 DEF DoneInv, Live
          <6>. QED
            BY <4>4, <6>4, <6>5 DEF Removers
        <5>2. call[c].op \in Issuers => cookie' = call[c].got
          BY <3>2, <4>1, <4>2, <4>4, AnswerCases
        <5>3. call[c].op \notin Issuers => ~Brings(c)
          BY DEF Brings
        <5>. QED
          BY <3>1, <4>3, <5>1, <5>2, <5>3
      <4>5. CASE ~(call[c].phase = "ok" /\ call[c].op \in Issuers \cup Removers)
        <5>1. cookie' = cookie
          BY <3>2, <4>1, <4>2, <4>5, AnswerCases
        <5>2. ~Brings(c)
          BY <4>5 DEF Brings
        <5>. QED
          BY <3>1, <4>3, <5>1, <5>2
      <4>. QED
        BY <4>4, <4>5
    <3>3. ASSUME \A c \in Call : ~Answered(c)
          PROVE  s = cookie' \/ \E d \in Call : Brings(d)' /\ call'[d].got = s
      <4>1. \A c \in Call : ~Missed(c)
        BY <2>1 DEF Missed
      <4>2. cookie' = cookie
        BY <3>3, <4>1, CookieKept
      <4>. QED
        BY <1>2, <1>b, <3>1, <3>3, <4>2
    <3>. QED
      BY <3>2, <3>3
  <2>. QED
    BY <2>2, <2>3
<1>. QED
  BY <1>1, <1>2 DEF HomeInv

-----------------------------------------------------------------------------
(* Calls that were overtaken, and what is shown *)

\* Page t has given its session up, and what it still hears of it is late.
GivenUp(t) ==
    /\ "refused" \in cause /\ stored[t] = None
    /\ \A e \in InFlight(t) : Bound(e) \/ call[e].op = "signin" => call[e].late

StaleOf(d, t) == call[d].with = stored[t] \/ ~Live(call[d].with) \/ GivenUp(t)

LEMMA StaleParts ==
    /\ StaleInv <=> (Alone /\ Heard => \A d \in Call : call[d].tab # None /\ Bound(d) =>
                                          StaleOf(d, call[d].tab))
    /\ StaleInv' <=> (Alone' /\ Heard' => \A d \in Call : call'[d].tab # None /\ Bound(d)' =>
                                          StaleOf(d, call[d].tab)')
BY DEF StaleInv, StaleOf, GivenUp, Alone, Heard

\* A step that leaves the call and the storage of its page, and makes no call
\* of that page on time.
LEMMA StaleKept ==
    ASSUME TypeOK, CallInv, FreshInv, Step, NEW d \in Call, NEW t \in Tab,
           StaleOf(d, t), call'[d].with = call[d].with, stored'[t] = stored[t],
           "refused" \in cause => \A e \in Call :
               call'[e].tab = t /\ (Bound(e)' \/ call'[e].op = "signin") =>
                   /\ call[e].tab = t /\ call'[e].op = call[e].op
                   /\ call[e].late => call'[e].late
    PROVE  StaleOf(d, t)'
<1>1. CASE call[d].with = stored[t]
  BY <1>1 DEF StaleOf
<1>2. CASE ~Live(call[d].with)
  <2>1. call[d].with # None => state'[call[d].with] # "live"
    BY <1>2, WithStaysDead
  <2>2. ~Live(call[d].with)'
    BY <2>1 DEF Live
  <2>. QED
    BY <2>2 DEF StaleOf
<1>3. CASE GivenUp(t)
  <2>1. "refused" \in cause' /\ stored'[t] = None
    BY <1>3, CauseGrows DEF GivenUp
  <2>2. ASSUME NEW e \in Call, call'[e].tab = t, Bound(e)' \/ call'[e].op = "signin"
        PROVE  call'[e].late
    <3>1. /\ call[e].tab = t /\ call'[e].op = call[e].op
          /\ call[e].late => call'[e].late
      BY <1>3, <2>2 DEF GivenUp
    <3>2. e \in InFlight(t) /\ (Bound(e) \/ call[e].op = "signin")
      BY <2>2, <3>1 DEF InFlight, Bound
    <3>. QED
      BY <1>3, <3>1, <3>2 DEF GivenUp
  <2>3. GivenUp(t)'
    BY <2>1, <2>2 DEF GivenUp, InFlight
  <2>. QED
    BY <2>3 DEF StaleOf
<1>. QED
  BY <1>1, <1>2, <1>3 DEF StaleOf

\* While nothing has happened, a session alive is not refused to its tab.
LEMMA RefusedAlive ==
    ASSUME TypeOK, CallInv, FreshInv, RefusedInv, HomeInv, NEW c \in Call, cause = {},
           call[c].op \in {"load", "logout"}, call[c].phase = "refused"
    PROVE  ~Live(call[c].with)
<1> SUFFICES ASSUME Live(call[c].with) PROVE FALSE
  OBVIOUS
<1>1. call[c].with \in Session /\ call[c].with # cookie
  BY DEF RefusedInv, Live, TypeOK, CallType
<1>2. PICK d \in Call : Brings(d) /\ call[d].got = call[c].with
  BY <1>1 DEF HomeInv
<1>. QED
  BY <1>2 DEF FreshInv

LEMMA StaleStep ==
    ASSUME TypeOK, CallInv, PageInv, FreshInv, WithInv, DoneInv, RefusedInv, AloneInv,
           HomeInv, StaleInv, Step
    PROVE  StaleInv'
<1> USE NoneAssumption
<1> SUFFICES ASSUME Alone', Heard', NEW d \in Call, call'[d].tab # None, Bound(d)'
             PROVE  StaleOf(d, call[d].tab)'
  BY StaleParts
<1>t. /\ call \in [Call -> CallType] /\ stored \in [Tab -> Session \cup {None}]
      /\ cause \subseteq {"tab", "lost", "refused", "overtaken"}
      /\ \A e \in Call : call[e].tab \in Tab \cup {None}
  BY DEF TypeOK, CallType
<1>m. Alone /\ Heard /\ "lost" \notin cause' /\ "overtaken" \notin cause' /\ cause \subseteq {"refused"}
  BY <1>t, CauseGrows DEF Alone, Heard
<1>o. \A e \in Call : call[e].tab # None /\ Bound(e) => StaleOf(e, call[e].tab)
  BY <1>m, StaleParts
<1>i. call'[d] # Idle
  BY IdleCall
<1>1. ASSUME NEW c \in Call, NEW t \in Tab, NEW o, NEW s, Asked(c, t, o, s)
      PROVE  StaleOf(d, call[d].tab)'
  <2>1. /\ call'[c] = NewCall(t, o, s) /\ \A e \in Call \ {c} : call'[e] = call[e]
        /\ stored' = stored /\ "refused" \notin cause
    BY <1>1, <1>t DEF Asked
  <2>2. CASE d = c
    <3>1. call'[c].op = o /\ call'[c].tab = t /\ call'[c].with = s
      BY <2>1, NewCallFields
    <3>2. o \notin {"signin", "reset"}
      BY <2>2, <3>1 DEF Bound, CookieOps, SecurityOps
    <3>3. s = stored[t]
      BY <1>1, <3>2 DEF Asked, PageInv
    <3>. QED
      BY <2>1, <2>2, <3>1, <3>3 DEF StaleOf
  <2>3. CASE d # c
    <3>1. call'[d] = call[d] /\ call[d].tab \in Tab /\ Bound(d)
      BY <1>t, <2>1, <2>3 DEF Bound
    <3>2. StaleOf(d, call[d].tab)
      BY <1>o, <3>1
    <3>3. PICK u \in Tab : u = call[d].tab
      BY <3>1
    <3>4. StaleOf(d, u)'
      BY <2>1, <3>1, <3>2, <3>3, StaleKept
    <3>. QED
      BY <3>1, <3>3, <3>4 DEF StaleOf, GivenUp, InFlight
  <2>. QED
    BY <2>2, <2>3
\* The call of tab u was there and is not touched but for its answer.
<1>k. ASSUME NEW u \in Tab, call[d].tab = u, call'[d].tab = u, call'[d].op = call[d].op,
             call'[d].with = call[d].with, stored'[u] = stored[u],
             "refused" \in cause => \A e \in Call :
               call'[e].tab = u /\ (Bound(e)' \/ call'[e].op = "signin") =>
                   /\ call[e].tab = u /\ call'[e].op = call[e].op
                   /\ call[e].late => call'[e].late
      PROVE  StaleOf(d, call[d].tab)'
  <2>1. StaleOf(d, u)
    BY <1>k, <1>o DEF Bound
  <2>2. StaleOf(d, u)'
    BY <1>k, <2>1, StaleKept
  <2>. QED
    BY <1>k, <2>2 DEF StaleOf, GivenUp, InFlight
<1>2. ASSUME NEW c \in Call, NEW t \in Tab, NEW s, NEW a, Mounted(c, t, s, a)
      PROVE  StaleOf(d, call[d].tab)'
  <2>1. /\ \A e \in InFlight(t) : call[e].op \in Harmless
        /\ stored' = [stored EXCEPT ![t] = s] /\ "refused" \notin cause
        /\ call'[c] \in {Idle, NewCall(t, "verify", None), NewCall(t, "load", s)}
    BY <1>2, <1>m DEF Mounted
  <2>2. CASE d = c
    <3>1. call'[d] = NewCall(t, "load", s)
      BY <1>i, <2>1, <2>2, NewCallFields DEF Bound, CookieOps, SecurityOps
    <3>2. call'[d].tab = t /\ call'[d].with = s /\ stored'[t] = s
      BY <1>t, <2>1, <3>1, NewCallFields
    <3>. QED
      BY <3>2 DEF StaleOf
  <2>3. CASE d # c
    <3>1. d \notin InFlight(t) /\ call'[d] = call[d]
      BY <1>2, <1>i, <2>1, <2>3, MountedCalls
    <3>2. call[d].tab \in Tab \ {t}
      BY <1>t, <3>1 DEF InFlight
    <3>. QED
      BY <1>k, <1>t, <2>1, <3>1, <3>2
  <2>. QED
    BY <2>2, <2>3
<1>3. ASSUME NEW c \in Call, Served(c) \/ TurnedAway(c) PROVE StaleOf(d, call[d].tab)'
  <2>1. stored' = stored
        /\ \A e \in Call : /\ call'[e].op = call[e].op /\ call'[e].with = call[e].with
                           /\ call'[e].tab = call[e].tab /\ call'[e].late = call[e].late
    BY <1>3 DEF Served, TurnedAway, Opens, Closes, Resolved, page
  <2>2. call[d].tab \in Tab
    BY <1>t, <2>1
  <2>. QED
    BY <1>k, <2>1, <2>2
<1>4. ASSUME NEW c \in Call, Answered(c) PROVE StaleOf(d, call[d].tab)'
  <2>1. PICK t \in Tab : t = call[c].tab
    BY <1>4 DEF Answered, Handled
  <2>2. /\ d # c /\ call'[c] = Idle
        /\ \A e \in Call \ {c} :
              /\ call'[e].tab = call[e].tab /\ call'[e].op = call[e].op
              /\ call'[e].with = call[e].with
              /\ call[e].late => call'[e].late
    BY <1>4, <1>i DEF Answered, Handled
  <2>3. call[d].tab = t /\ Bound(d)
    BY <1>m, <1>t, <2>1, <2>2, OneTab DEF Bound
  <2>4. link[t] # "reset" /\ call[c].op # "reset"
    BY <2>1, <2>2, <2>3 DEF PageInv, InFlight
  <2>e. \A e \in Call : call'[e].tab = t /\ (Bound(e)' \/ call'[e].op = "signin") =>
            /\ call[e].tab = t /\ call'[e].op = call[e].op
            /\ call[e].late => call'[e].late
    BY <2>2, IdleCall
  <2>5. CASE stored'[t] = stored[t]
    BY <1>k, <2>2, <2>3, <2>5, <2>e
  <2>6. CASE stored'[t] # stored[t]
    <3>1. \/ call[c].phase = "ok" /\ call[c].op \in Issuers \cup {"logout", "delete"}
          \/ call[c].phase = "refused" /\ call[c].op \in {"load", "logout"}
      BY <1>4, <1>m, <2>1, <2>4, <2>6, AnswerCases DEF Removers
    <3>2. Bound(c) => call[c].with = stored[t]
      BY <1>4, <1>m, <2>1, <3>1, AnswerCases
    <3>3. CASE call[d].with = stored[t]
      <4>1. CASE call[c].phase = "ok"
        <5>1. ~Live(stored[t])
          BY <1>4, <1>m, <2>1, <3>1, <4>1, OldSessionOver
        <5>2. call[d].with # None => state'[call[d].with] # "live"
          BY <3>3, <5>1, WithStaysDead
        <5>. QED
          BY <2>2, <5>2 DEF StaleOf, Live
      <4>2. CASE call[c].phase = "refused"
        <5>1. call[c].op \in {"load", "logout"} /\ call[c].with = call[d].with
          BY <3>1, <3>2, <3>3, <4>2 DEF Bound, CookieOps
        <5>2. CASE "refused" \in cause
          <6>1. stored'[t] = None
            BY <1>4, <1>m, <2>1, <4>2, <5>1, AnswerCases DEF Shown
          <6>2. \A e \in Call : call'[e].tab = t => call'[e].late
            <7>1. Clears(c, FALSE) /\ Handled(c, FALSE)
              BY <1>4, <4>2, <5>1 DEF Answered, Clears
            <7>2. ASSUME NEW e \in Call, call'[e].tab = t PROVE call'[e].late
              <8>1. e # c /\ e \in InFlight(call[c].tab)
                BY <2>1, <2>2, <7>2, IdleCall DEF InFlight
              <8>. QED
                BY <7>1, <8>1 DEF Handled
            <7>. QED
              BY <7>2
          <6>3. "refused" \in cause'
            BY <5>2, CauseGrows
          <6>4. GivenUp(t)'
            BY <6>1, <6>2, <6>3 DEF GivenUp, InFlight
          <6>. QED
            BY <2>2, <2>3, <6>4 DEF StaleOf, GivenUp, InFlight
        <5>3. CASE "refused" \notin cause
          <6>1. ~Live(call[d].with)
            BY <1>m, <4>2, <5>1, <5>3, RefusedAlive
          <6>2. call[d].with # None => state'[call[d].with] # "live"
            BY <6>1, WithStaysDead
          <6>. QED
            BY <2>2, <6>2 DEF StaleOf, Live
        <5>. QED
          BY <5>2, <5>3
      <4>. QED
        BY <3>1, <4>1, <4>2
    <3>4. CASE ~Live(call[d].with)
      <4>1. call[d].with # None => state'[call[d].with] # "live"
        BY <3>4, WithStaysDead
      <4>. QED
        BY <2>2, <4>1 DEF StaleOf, Live
    <3>5. CASE GivenUp(t)
      <4>1. Bound(c) \/ call[c].op = "signin"
        BY <3>1 DEF Bound, Issuers, CookieOps, SecurityOps
      <4>2. call[c].late
        BY <2>1, <3>5, <4>1 DEF GivenUp, InFlight
      <4>3. call[c].phase = "ok" \/ Clears(c, FALSE)
        BY <3>1 DEF Clears
      <4>. QED
        BY <1>4, <1>m, <4>2, <4>3 DEF Answered
    <3>. QED
      BY <1>o, <2>1, <2>3, <3>3, <3>4, <3>5 DEF StaleOf
  <2>. QED
    BY <2>5, <2>6
<1>5. ASSUME NEW c \in Call, Broken(c) \/ Missed(c) PROVE FALSE
  BY <1>5, <1>m, CauseGrows DEF Broken, Missed
<1>6. ASSUME NEW c \in Call, NEW t \in Tab, Restored(c, t) PROVE StaleOf(d, call[d].tab)'
  <2>1. /\ stored' = stored /\ \A e \in Call \ {c} : call'[e] = call[e]
        /\ stored[t] = None => call'[c] = Idle
        /\ call'[c] \in {Idle, NewCall(t, "refresh", stored[t])}
    BY <1>6, <1>t DEF Restored
  <2>2. CASE d = c
    <3>1. call'[d].tab = t /\ call'[d].with = stored[t]
      BY <1>i, <2>1, <2>2, NewCallFields
    <3>. QED
      BY <2>1, <3>1 DEF StaleOf
  <2>3. CASE d # c
    <3>1. call'[d] = call[d] /\ call[d].tab \in Tab /\ Bound(d)
      BY <1>t, <2>1, <2>3 DEF Bound
    <3>2. CASE stored[t] = None
      <4>1. call'[c].tab = None
        BY <2>1, <3>2, IdleCall
      <4>2. \A e \in Call : call'[e].tab = call[d].tab => call'[e] = call[e]
        BY <2>1, <3>1, <4>1
      <4>. QED
        BY <1>k, <2>1, <3>1, <4>2
    <3>3. CASE stored[t] # None
      <4>1. call[d].tab = t
        BY <1>m, <1>6, <3>1, OneTab DEF Restored
      <4>2. call[d].with = stored[t] \/ ~Live(call[d].with)
        BY <1>o, <3>1, <3>3, <4>1 DEF StaleOf, GivenUp
      <4>3. ~Live(call[d].with) => (call[d].with # None => state'[call[d].with] # "live")
        BY WithStaysDead
      <4>. QED
        BY <2>1, <3>1, <4>1, <4>2, <4>3 DEF StaleOf, Live
    <3>. QED
      BY <3>2, <3>3
  <2>. QED
    BY <2>2, <2>3
<1>7. ASSUME UNCHANGED <<page, call>> PROVE StaleOf(d, call[d].tab)'
  BY <1>7, <1>k, <1>t DEF page
<1>. QED
  BY <1>1, <1>2, <1>3, <1>4, <1>5, <1>6, <1>7 DEF Step, EndedElsewhere, vars

\* Calls whose service ends the session they were made for.
Enders == {"load", "refresh", "change", "logout", "delete"}

\* The session that tab t shows is over, works, or is being replaced.
ShownOf(t) ==
    \/ shown[t] \in ended
    \/ Live(shown[t]) /\ cookie = shown[t]
    \/ \E c \in Call : call[c].tab = t /\ call[c].phase = "ok" /\ call[c].op \in Enders

\* An answer on time brings a session that is alive or was ended elsewhere.
BroughtOf(c) ==
    call[c].tab # None /\ Brings(c) /\ ~call[c].late => Live(call[c].got) \/ call[c].got \in ended

LEMMA WorksParts ==
    /\ WorksInv <=> (Alone /\ Heard => /\ \A c \in Call : BroughtOf(c)
                                       /\ \A t \in Tab : shown[t] # None => ShownOf(t))
    /\ WorksInv' <=> (Alone' /\ Heard' => /\ \A c \in Call : BroughtOf(c)'
                                       /\ \A t \in Tab : shown'[t] # None => ShownOf(t)')
BY DEF WorksInv, BroughtOf, ShownOf, InFlight, Enders, Alone, Heard

\* While the tabs are alone, a call that ends the sessions of others is about
\* the session its page has stored.
LEMMA AboutStored ==
    ASSUME TypeOK, CallInv, StaleInv, Alone, Heard, NEW c \in Call, NEW t \in Tab,
           t = call[c].tab, Bound(c), Live(call[c].with)
    PROVE  call[c].with = stored[t] \/ GivenUp(t)
<1>1. t # None
  BY NoneAssumption
<1>. QED
  BY <1>1, StaleParts DEF StaleOf

\* What call c ends when it is served: nothing that an answer on time brings,
\* and what is shown only if c is one of Enders.
LEMMA ServedEnds ==
    ASSUME TypeOK, CallInv, PageInv, FreshInv, WithInv, DoneInv, AloneInv, StaleInv,
           Alone, Heard, NEW c \in Call, Served(c),
           NEW x \in Session, state[x] = "live", state'[x] # "live"
    PROVE  /\ \A d \in Call : call[d].tab # None /\ Brings(d) /\ ~call[d].late => call[d].got # x
           /\ \A t \in Tab : shown[t] = x => call[c].tab = t /\ call[c].op \in Enders
<1> USE NoneAssumption
<1>t. /\ call[c].with \in Session \cup {None} /\ x # None
      /\ \A d \in Call : call[d].tab \in Tab \cup {None}
  BY DEF TypeOK, CallType
<1>1. /\ call[c].op # "none" /\ call[c].phase = "sent" /\ call[c].op \notin {"signin", "edit", "verify"}
      /\ call[c].op \in {"load", "refresh", "logout"} => x = call[c].with
      /\ call[c].op \in {"change", "others", "delete"} => Live(call[c].with)
      /\ call[c].op = "others" => x # call[c].with
      /\ call[c].op \in Enders \cup {"others", "reset"}
  <2>1. ASSUME NEW s \in Session, Opens(c, s)
        PROVE  /\ call[c].op \in {"load", "refresh", "change"}
               /\ call[c].op \in {"load", "refresh"} => x = call[c].with
               /\ call[c].op = "change" => state[call[c].with] = "live"
               /\ call[c].op # "none" /\ call[c].phase = "sent"
    BY <2>1 DEF Opens, Resolved, Issuers
  <2>2. ASSUME Closes(c)
        PROVE  /\ call[c].op \in {"logout", "others", "reset", "delete"}
               /\ call[c].op = "logout" => x = call[c].with
               /\ call[c].op \in {"others", "delete"} => state[call[c].with] = "live"
               /\ call[c].op = "others" => x # call[c].with
               /\ call[c].op # "none" /\ call[c].phase = "sent"
    BY <2>2 DEF Closes, Resolved
  <2>3. Bound(c) => call[c].with # None
    BY DEF CallInv
  <2>. QED
    BY <2>1, <2>2, <2>3 DEF Served, Live, Enders, Bound, CookieOps, SecurityOps
<1>2. call[c].tab \in Tab
  BY <1>1, <1>t DEF CallInv, Heard
<1>3. PICK t \in Tab : t = call[c].tab
  BY <1>2
<1>4. call[c].op \in {"change", "others", "delete"} => call[c].with = stored[t] \/ GivenUp(t)
  BY <1>1, <1>3, AboutStored DEF Bound, SecurityOps
<1>5. ASSUME NEW d \in Call, call[d].tab # None, Brings(d), ~call[d].late, call[d].got = x
      PROVE  FALSE
  <2>1. d # c /\ call[d].tab = t
    BY <1>1, <1>3, <1>t, <1>5, OneTab DEF Brings
  <2>2. x # call[c].with
    BY <1>5 DEF FreshInv
  <2>3. call[c].op # "reset"
    BY <1>3, <2>1 DEF PageInv, InFlight
  <2>4. call[c].op \in {"change", "others", "delete"} /\ Live(call[c].with)
    BY <1>1, <2>2, <2>3 DEF Enders
  <2>5. ~GivenUp(t)
    <3>1. Bound(d) \/ call[d].op = "signin"
      BY <1>5 DEF Brings, Bound, Issuers, CookieOps, SecurityOps
    <3>. QED
      BY <1>5, <2>1, <3>1 DEF GivenUp, InFlight
  <2>6. Live(stored[t])
    BY <1>4, <2>4, <2>5
  <2>7. CASE call[d].op = "signin"
    BY <1>5, <2>1, <2>6, <2>7 DEF WithInv, Live
  <2>8. CASE call[d].op \in {"load", "refresh", "change"}
    BY <1>5, <2>1, <2>6, <2>8 DEF WithInv, DoneInv, Brings, Bound, CookieOps, SecurityOps
  <2>. QED
    BY <1>5, <2>7, <2>8 DEF Brings, Issuers
<1>6. ASSUME NEW u \in Tab, shown[u] = x PROVE call[c].tab = u /\ call[c].op \in Enders
  <2>1. stored[u] = x
    BY <1>t, <1>6 DEF PageInv
  <2>2. u = t
    BY <1>3, <1>t, <2>1, OneTab
  <2>3. call[c].op # "reset"
    BY <1>2, <1>3, <1>6, <1>t, <2>2 DEF PageInv
  <2>4. call[c].op # "others"
    BY <1>1, <1>4, <1>t, <2>1, <2>2 DEF GivenUp
  <2>. QED
    BY <1>1, <1>3, <2>2, <2>3, <2>4
<1>. QED
  BY <1>5, <1>6

LEMMA WorksStep ==
    ASSUME TypeOK, CallInv, PageInv, FreshInv, WithInv, DoneInv, AloneInv,
           StaleInv, WorksInv, Step
    PROVE  WorksInv'
<1> USE NoneAssumption
<1> SUFFICES ASSUME Alone', Heard'
             PROVE  /\ \A c \in Call : BroughtOf(c)'
                    /\ \A t \in Tab : shown'[t] # None => ShownOf(t)'
  BY WorksParts
<1>t. /\ call \in [Call -> CallType] /\ shown \in [Tab -> Session \cup {None}]
      /\ \A d \in Call : call[d].tab \in Tab \cup {None} /\ call[d].got \in Session \cup {None}
  BY DEF TypeOK, CallType
<1>m. Alone /\ Heard /\ "lost" \notin cause' /\ "overtaken" \notin cause'
  BY CauseGrows DEF Alone, Heard
<1>o. /\ \A d \in Call : BroughtOf(d)
      /\ \A u \in Tab : shown[u] # None => ShownOf(u)
  BY <1>m, WorksParts
\* A step that hears no answer, and ends no session but those ended elsewhere.
<1>k. ASSUME \A x \in Session : state[x] = "live" => state'[x] = "live" \/ x \in ended',
             ended \subseteq ended', cookie' = cookie,
             \A u \in Tab : shown'[u] # None => shown'[u] = shown[u],
             \A d \in Call : \/ call'[d].phase # "ok"
                             \/ /\ call'[d].op = call[d].op /\ call'[d].phase = call[d].phase
                                /\ call'[d].got = call[d].got /\ call'[d].late = call[d].late
                                /\ call'[d].tab \in {call[d].tab, None},
             \A d \in Call : call[d].phase = "ok" /\ shown'[call[d].tab] # None =>
                                call'[d] = call[d] \/ call[d].op \notin Enders
      PROVE  /\ \A d \in Call : BroughtOf(d)'
             /\ \A t \in Tab : shown'[t] # None => ShownOf(t)'
  <2>1. \A x \in Session \cup {None} : Live(x) => Live(x)' \/ x \in ended'
    BY <1>k DEF Live
  <2>2. ASSUME NEW d \in Call, call'[d].tab # None, Brings(d)', ~call'[d].late
        PROVE  Live(call[d].got)' \/ call'[d].got \in ended'
    <3>1. /\ call[d].tab # None /\ Brings(d) /\ ~call[d].late
          /\ call'[d].got = call[d].got
      BY <1>k, <2>2 DEF Brings
    <3>2. Live(call[d].got) \/ call[d].got \in ended
      BY <1>o, <3>1 DEF BroughtOf
    <3>3. state'[call[d].got] = "live" \/ call[d].got \in ended'
      BY <1>k, <1>t, <3>2 DEF Live
    <3>4. call[d].got # None
      BY <3>1 DEF CallInv
    <3>. QED
      BY <3>1, <3>3, <3>4 DEF Live
  <2>3. ASSUME NEW t \in Tab, shown'[t] # None PROVE ShownOf(t)'
    <3>1. shown'[t] = shown[t] /\ shown[t] \in Session
      BY <1>k, <1>t, <2>3
    <3>2. CASE shown[t] \in ended
      BY <1>k, <3>1, <3>2 DEF ShownOf
    <3>3. CASE Live(shown[t]) /\ cookie = shown[t]
      BY <1>k, <3>1, <3>3 DEF ShownOf, Live
    <3>4. ASSUME NEW e \in Call, call[e].tab = t, call[e].phase = "ok", call[e].op \in Enders
          PROVE  ShownOf(t)'
      <4>1. call'[e] = call[e]
        BY <1>k, <2>3, <3>4
      <4>. QED
        BY <3>4, <4>1 DEF ShownOf
    <3>. QED
      BY <1>o, <3>1, <3>2, <3>3, <3>4 DEF ShownOf
  <2>. QED
    BY <2>2, <2>3 DEF BroughtOf
<1>1. ASSUME NEW c \in Call, NEW t \in Tab, NEW o, NEW s, Asked(c, t, o, s)
      PROVE  /\ \A d \in Call : BroughtOf(d)'
             /\ \A u \in Tab : shown'[u] # None => ShownOf(u)'
  <2>1. /\ call'[c].phase = "sent" /\ call[c] = Idle /\ \A d \in Call \ {c} : call'[d] = call[d]
        /\ UNCHANGED <<state, cookie, shown, ended>>
    BY <1>1, <1>t, NewCallFields DEF Asked, server
  <2>. QED
    BY <1>k, <2>1, IdleCall
<1>2. ASSUME NEW c \in Call, NEW t \in Tab, NEW s, NEW a, Mounted(c, t, s, a)
      PROVE  /\ \A d \in Call : BroughtOf(d)'
             /\ \A u \in Tab : shown'[u] # None => ShownOf(u)'
  <2>1. /\ call'[c] \in {Idle, NewCall(t, "verify", None), NewCall(t, "load", s)}
        /\ call[c] = Idle /\ shown' = [shown EXCEPT ![t] = None]
        /\ UNCHANGED <<state, cookie, ended>>
    BY <1>2 DEF Mounted, server
  <2>2. call'[c].phase = "sent"
    BY <2>1, NewCallFields, IdleCall
  <2>3. \A d \in Call \ {c} :
           \/ call'[d].phase # "ok"
           \/ /\ call'[d].op = call[d].op /\ call'[d].phase = call[d].phase
              /\ call'[d].got = call[d].got /\ call'[d].late = call[d].late
              /\ call'[d].tab \in {call[d].tab, None}
    BY <1>2, MountedCalls, IdleCall
  <2>4. \A d \in Call \ {c} : call'[d] = call[d] \/ call[d].tab = t
    BY <1>2, MountedCalls DEF InFlight
  <2>5. \A u \in Tab : shown'[u] # None => shown'[u] = shown[u]
    BY <1>t, <2>1
  <2>6. \A d \in Call : call[d].phase = "ok" /\ shown'[call[d].tab] # None =>
                           call'[d] = call[d] \/ call[d].op \notin Enders
    BY <1>t, <2>1, <2>4, IdleCall
  <2>. QED
    BY <1>k, <2>1, <2>2, <2>3, <2>5, <2>6
<1>3. ASSUME NEW c \in Call, Served(c)
      PROVE  /\ \A d \in Call : BroughtOf(d)'
             /\ \A u \in Tab : shown'[u] # None => ShownOf(u)'
  <2>1. /\ UNCHANGED <<cookie, shown, ended>> /\ call[c].phase = "sent"
        /\ call'[c].op = call[c].op /\ call'[c].tab = call[c].tab /\ call'[c].phase = "ok"
        /\ \A d \in Call \ {c} : call'[d] = call[d]
    BY <1>3 DEF Served, Opens, Closes, Resolved, page, history
  <2>2. ASSUME NEW d \in Call, call'[d].tab # None, Brings(d)', ~call'[d].late
        PROVE  Live(call[d].got)' \/ call'[d].got \in ended'
    <3>1. CASE d = c
      <4>1. PICK s \in Session : Opens(c, s)
        BY <1>3, <2>1, <2>2, <3>1 DEF Served, Closes, Brings, Issuers
      <4>2. call'[c].got = s /\ state'[s] = "live"
        BY <4>1 DEF Opens, Resolved
      <4>. QED
        BY <3>1, <4>2 DEF Live
    <3>2. CASE d # c
      <4>1. call'[d] = call[d] /\ call[d].tab # None /\ Brings(d) /\ ~call[d].late
        BY <2>1, <2>2, <3>2 DEF Brings
      <4>2. Live(call[d].got) \/ call[d].got \in ended
        BY <1>o, <4>1 DEF BroughtOf
      <4>3. call[d].got \in Session
        BY <4>1, BringsSession
      <4>4. state[call[d].got] = "live" => state'[call[d].got] = "live"
        BY <1>3, <1>m, <4>1, <4>3, ServedEnds
      <4>. QED
        BY <2>1, <4>1, <4>2, <4>3, <4>4 DEF Live
    <3>. QED
      BY <3>1, <3>2
  <2>3. ASSUME NEW t \in Tab, shown'[t] # None PROVE ShownOf(t)'
    <3>1. shown'[t] = shown[t] /\ shown[t] \in Session
      BY <1>t, <2>1, <2>3
    <3>2. CASE shown[t] \in ended
      BY <2>1, <3>2 DEF ShownOf
    <3>3. CASE Live(shown[t]) /\ cookie = shown[t]
      <4>1. CASE state'[shown[t]] = "live"
        BY <2>1, <3>1, <3>3, <4>1 DEF ShownOf, Live
      <4>2. CASE state'[shown[t]] # "live"
        <5>1. call[c].tab = t /\ call[c].op \in Enders
          BY <1>3, <1>m, <3>1, <3>3, <4>2, ServedEnds DEF Live
        <5>. QED
          BY <2>1, <5>1 DEF ShownOf
      <4>. QED
        BY <4>1, <4>2
    <3>4. ASSUME NEW e \in Call, call[e].tab = t, call[e].phase = "ok", call[e].op \in Enders
          PROVE  ShownOf(t)'
      <4>1. call'[e] = call[e]
        BY <2>1, <3>4
      <4>. QED
        BY <3>4, <4>1 DEF ShownOf
    <3>. QED
      BY <1>o, <3>1, <3>2, <3>3, <3>4 DEF ShownOf
  <2>. QED
    BY <2>2, <2>3 DEF BroughtOf
<1>4. ASSUME NEW c \in Call, TurnedAway(c)
      PROVE  /\ \A d \in Call : BroughtOf(d)'
             /\ \A u \in Tab : shown'[u] # None => ShownOf(u)'
  <2>1. /\ UNCHANGED <<state, cookie, shown, ended>> /\ call[c].phase = "sent"
        /\ call'[c].phase = "refused" /\ \A d \in Call \ {c} : call'[d] = call[d]
    BY <1>4 DEF TurnedAway, Resolved, server, page
  <2>. QED
    BY <1>k, <2>1
<1>5. ASSUME NEW c \in Call, Answered(c)
      PROVE  /\ \A d \in Call : BroughtOf(d)'
             /\ \A u \in Tab : shown'[u] # None => ShownOf(u)'
  <2>1. PICK t \in Tab : t = call[c].tab
    BY <1>5 DEF Answered, Handled
  <2>2. /\ call'[c] = Idle /\ UNCHANGED <<state, ended>>
        /\ \A d \in Call \ {c} :
              /\ call'[d].tab = call[d].tab /\ call'[d].op = call[d].op
              /\ call'[d].phase = call[d].phase /\ call'[d].got = call[d].got
              /\ ~call'[d].late => ~call[d].late
    BY <1>5 DEF Answered, Handled
  <2>3. ASSUME NEW d \in Call, call'[d].tab # None, Brings(d)', ~call'[d].late
        PROVE  Live(call[d].got)' \/ call'[d].got \in ended'
    <3>1. d # c
      BY <2>2, <2>3, IdleCall
    <3>2. /\ call[d].tab # None /\ Brings(d) /\ ~call[d].late /\ call'[d].got = call[d].got
      BY <2>2, <2>3, <3>1 DEF Brings
    <3>3. Live(call[d].got) \/ call[d].got \in ended
      BY <1>o, <3>2 DEF BroughtOf
    <3>. QED
      BY <2>2, <3>2, <3>3 DEF Live
  <2>4. ASSUME NEW u \in Tab, shown'[u] # None PROVE ShownOf(u)'
    <3>1. u = t
      <4>1. u # t => shown'[u] = shown[u]
        BY <1>5, <1>m, <2>1, AnswerCases
      <4>2. u # t => stored[u] # None
        BY <2>4, <4>1 DEF PageInv
      <4>. QED
        BY <1>m, <2>1, <4>2, OneTab
    <3>2. CASE call[c].phase = "ok" /\ call[c].op \in Issuers
      <4>1. Brings(c) /\ cookie' = call[c].got /\ shown'[t] = call[c].got
        BY <1>5, <1>m, <2>1, <3>2, AnswerCases DEF Shown
      <4>2. ~call[c].late /\ call[c].tab # None
        BY <1>5, <1>m, <2>1, <3>2 DEF Answered
      <4>3. Live(call[c].got) \/ call[c].got \in ended
        BY <1>o, <4>1, <4>2 DEF BroughtOf
      <4>. QED
        BY <2>2, <3>1, <4>1, <4>3 DEF ShownOf, Live
    <3>3. CASE \/ call[c].phase = "ok" /\ call[c].op \in Removers
               \/ call[c].phase # "ok" /\ call[c].op \in {"load", "logout"}
      BY <1>5, <1>m, <2>1, <2>4, <3>1, <3>3, AnswerCases DEF Shown
    <3>4. CASE \/ call[c].phase = "ok" /\ call[c].op \in {"edit", "others"}
               \/ call[c].phase # "ok" /\ call[c].op \notin {"load", "logout"}
      <4>1. cookie' = cookie /\ shown'[t] = shown[t]
        BY <1>5, <1>m, <2>1, <3>4, AnswerCases
      <4>2. ShownOf(t)
        BY <1>o, <2>4, <3>1, <4>1
      <4>3. CASE shown[t] \in ended
        BY <2>2, <3>1, <4>1, <4>3 DEF ShownOf
      <4>4. CASE Live(shown[t]) /\ cookie = shown[t]
        BY <2>2, <3>1, <4>1, <4>4 DEF ShownOf, Live
      <4>5. ASSUME NEW e \in Call, call[e].tab = t, call[e].phase = "ok", call[e].op \in Enders
            PROVE  ShownOf(t)'
        <5>1. e # c
          BY <3>4, <4>5 DEF Enders
        <5>2. call'[e].tab = t /\ call'[e].phase = "ok" /\ call'[e].op \in Enders
          BY <2>2, <4>5, <5>1
        <5>. QED
          BY <5>2 DEF ShownOf
      <4>. QED
        BY <3>1, <4>2, <4>3, <4>4, <4>5 DEF ShownOf
    <3>. QED
      BY <1>5, <1>m, <2>1, <3>2, <3>3, <3>4, AnswerCases
  <2>. QED
    BY <2>3, <2>4 DEF BroughtOf
<1>6. ASSUME NEW c \in Call, Broken(c) \/ Missed(c) PROVE FALSE
  BY <1>6, <1>m, CauseGrows DEF Broken, Missed
<1>7. ASSUME NEW c \in Call, NEW t \in Tab, Restored(c, t)
      PROVE  /\ \A d \in Call : BroughtOf(d)'
             /\ \A u \in Tab : shown'[u] # None => ShownOf(u)'
  <2>1. /\ call'[c] \in {Idle, NewCall(t, "refresh", stored[t])} /\ call[c].op = "verify"
        /\ \A d \in Call \ {c} : call'[d] = call[d]
        /\ UNCHANGED <<state, cookie, shown, ended>>
    BY <1>7, <1>t DEF Restored, server
  <2>2. call'[c].phase = "sent" /\ call[c].op \notin Enders
    BY <2>1, NewCallFields, IdleCall DEF Enders
  <2>. QED
    BY <1>k, <2>1, <2>2
<1>8. ASSUME NEW s \in Session, EndedElsewhere(s)
      PROVE  /\ \A d \in Call : BroughtOf(d)'
             /\ \A u \in Tab : shown'[u] # None => ShownOf(u)'
  BY <1>8, <1>k DEF EndedElsewhere, page
<1>9. ASSUME UNCHANGED vars
      PROVE  /\ \A d \in Call : BroughtOf(d)'
             /\ \A u \in Tab : shown'[u] # None => ShownOf(u)'
  BY <1>9, <1>k DEF vars, server, page, history
<1>. QED
  BY <1>1, <1>2, <1>3, <1>4, <1>5, <1>6, <1>7, <1>8, <1>9 DEF Step

-----------------------------------------------------------------------------
(* The theorems *)

LEMMA InvInit == Init => IInv
<1> SUFFICES ASSUME Init PROVE IInv
  OBVIOUS
<1> USE NoneAssumption
<1>1. /\ account = "absent" /\ cookie = None
      /\ \A s \in Session : state[s] = "none"
      /\ \A t \in Tab : stored[t] = None /\ shown[t] = None /\ link[t] = "none"
      /\ \A c \in Call : /\ call[c] = Idle /\ call[c].op = "none" /\ call[c].tab = None
                         /\ call[c].with = None /\ call[c].jar = None
                         /\ call[c].phase = "sent" /\ call[c].got = None
  BY IdleCall DEF Init, Server!Init
<1>2. \A c \in Call : ~Bound(c) /\ ~Brings(c)
  BY <1>1 DEF Bound, Brings, CookieOps, SecurityOps
<1>3. CallInv /\ PageInv /\ FreshInv
  BY <1>1, <1>2 DEF CallInv, PageInv, FreshInv, InFlight
<1>4. WithInv /\ DoneInv /\ RefusedInv /\ AloneInv
  BY <1>1, <1>2 DEF WithInv, DoneInv, RefusedInv, AloneInv, Active, Quiet, InFlight, CookieOps
<1>5. \A s \in Session \cup {None} : ~Live(s)
  BY <1>1 DEF Live
<1>6. HomeInv /\ StaleInv /\ WorksInv
  BY <1>1, <1>2, <1>5 DEF HomeInv, StaleInv, WorksInv
<1>. QED
  BY <1>3, <1>4, <1>6 DEF IInv

LEMMA InvStep == TypeOK /\ IInv /\ [Next]_vars => IInv'
<1> SUFFICES ASSUME TypeOK, IInv, [Next]_vars PROVE IInv'
  OBVIOUS
<1>1. CallInv /\ PageInv /\ FreshInv /\ WithInv /\ DoneInv /\ RefusedInv /\ AloneInv
      /\ HomeInv /\ StaleInv /\ WorksInv
  BY DEF IInv
<1>2. Step
  BY <1>1, StepKinds
<1>. QED
  BY <1>1, <1>2, CallStep, PageStep, FreshStep, WithStep, DoneStep, RefusedStep, AloneStep,
     HomeStep, StaleStep, WorksStep DEF IInv

\* TypeOK and IInv hold in every reachable state, of any number of tabs, calls
\* and sessions.
THEOREM Inductive == Spec => [](TypeOK /\ IInv)
<1>1. Init => TypeOK /\ IInv
  BY TypeInit, InvInit
<1>2. TypeOK /\ IInv /\ [Next]_vars => (TypeOK /\ IInv)'
  BY TypeStep, InvStep DEF IInv
<1>. QED
  BY <1>1, <1>2, PTL DEF Spec

\* Every variable keeps its type.
THEOREM TypeCorrect == Spec => []TypeOK
<1>1. TypeOK /\ IInv => TypeOK
  OBVIOUS
<1>. QED
  BY <1>1, Inductive, PTL

\* A tab never shows an account it cannot use (auth.rs): what it shows is the
\* session of the cookie, alive and stored, once its calls have been answered.
THEOREM ShowsWhatWorks == Spec => []ShownWorks
<1>1. TypeOK /\ IInv => ShownWorks
  <2> SUFFICES ASSUME TypeOK, IInv, NEW t \in Tab, Quiet(t), shown[t] # None,
                      shown[t] \notin ended, cause \cap {"lost", "tab", "overtaken"} = {}
               PROVE  Works(t, shown[t])
    BY DEF ShownWorks
  <2>1. Alone /\ Heard
    BY DEF Alone, Heard
  <2>2. ShownOf(t)
    BY <2>1, WorksParts DEF IInv
  <2>3. ~\E c \in Call : call[c].tab = t
    BY DEF Quiet, InFlight
  <2>4. Live(shown[t]) /\ cookie = shown[t] /\ shown[t] = stored[t]
    BY <2>2, <2>3 DEF ShownOf, IInv, PageInv
  <2>. QED
    BY <2>4 DEF Works, Live
<1>. QED
  BY <1>1, Inductive, PTL

\* No session is forgotten alive (auth.rs, session.rs): once every call is
\* answered, a live session is the one of the cookie and some tab has stored it.
THEOREM ForgetsNothing == Spec => []NothingForgotten
<1>1. TypeOK /\ IInv => NothingForgotten
  <2> SUFFICES ASSUME TypeOK, IInv, \A c \in Call : Free(c), NEW s \in Session, state[s] = "live",
                      cause \cap {"lost", "refused", "overtaken"} = {},
                      ~("tab" \in cause /\ cookie # s)
               PROVE  \E t \in Tab : Works(t, s)
    BY DEF NothingForgotten
  <2>1. cause \subseteq {"tab"} /\ Live(s)
    BY NoneAssumption DEF TypeOK, Live
  <2>2. \A c \in Call : ~Brings(c)
    BY IdleCall DEF Free, Brings
  <2>3. cookie = s
    <3>1. CASE cause = {}
      BY <2>1, <2>2, <3>1 DEF IInv, HomeInv
    <3>2. CASE "tab" \in cause
      BY <3>2
    <3>. QED
      BY <2>1, <3>1, <3>2
  <2>4. PICK t \in Tab : stored[t] = s
    BY <2>1, <2>3 DEF IInv, HomeInv
  <2>. QED
    BY <2>3, <2>4 DEF Works
<1>. QED
  BY <1>1, Inductive, PTL
=============================================================================

------------------------------- MODULE Browser -------------------------------
(***************************************************************************)
(* The account panel of the frontend (apps/frontend/src/auth.rs) in the    *)
(* tabs of one browser, over the sessions of the server.  The session      *)
(* cookie belongs to the browser, the CSRF token to a tab: sessionStorage  *)
(* keeps it over a reload, and memory keeps it together with the access    *)
(* token.  A call takes the cookie and a token along when it is sent, is   *)
(* served by one step of SessionLedger, which Sessions implements, and is  *)
(* answered later; several calls of a tab may be on their way at once.     *)
(*                                                                         *)
(* The cookie, the CSRF token and the access token issued together are all *)
(* named by their session.                                                 *)
(***************************************************************************)
EXTENDS Naturals, FiniteSets

CONSTANTS
    Tab, Call, Session,
    Operation,   \* the operations that are used
    None,        \* no tab, no session
    MaxVersion,  \* bound: password resets end with this credential version
    MaxFaults    \* bound: faults and sessions ended from elsewhere

\* Those answered with a new session; those answered by removing the cookie.
Issuers == {"load", "refresh", "signin", "change"}
\* A mutant: the handler of revoke_others ends like that of delete_account.
RemoversAndOthers == {"logout", "reset", "delete", "others"}
Removers == {"logout", "reset", "delete"}
\* Those that change no session, whether they are served or not.
Harmless == {"edit", "verify"}
\* Those whose request carries the cookie and a CSRF token.
CookieOps == {"load", "refresh", "logout"}
\* Those of the AccountSecurity component, which carry the access token.
SecurityOps == {"change", "edit", "others", "delete"}
Operations == CookieOps \cup SecurityOps \cup {"verify", "signin", "reset"}

ASSUME OperationAssumption == Operation \subseteq Operations
ASSUME NoneAssumption == None \notin Tab \cup Session \cup Call
ASSUME BoundAssumption == MaxVersion \in Nat /\ MaxFaults \in Nat

VARIABLES
    account, version, state, issued, parent,  \* the server's ledger
    cookie,    \* the session whose cookie the browser has
    stored,    \* for each tab, the session of the token in its sessionStorage
    shown,     \* the session the page has in memory
    link,      \* the e-mail link the page was opened by: "none", "verify", "reset"
    panel,     \* the panel is busy
    call,      \* the calls on their way
    faults,    \* how many faults there were
    cause,     \* history: what may have come between a tab and its session
    ended      \* history: sessions ended from elsewhere

Server == INSTANCE SessionLedger

server == <<account, version, state, issued, parent>>

page == <<stored, shown, link, panel>>
history == <<cause, ended>>
vars == <<server, cookie, page, call, faults, history>>

-----------------------------------------------------------------------------
(* Calls *)

Idle == [op |-> "none", tab |-> None, with |-> None, jar |-> None,
         phase |-> "sent", got |-> None, late |-> FALSE]

\* A call of tab t whose token is that of session s.  `late` is history: the
\* tab came by another session, or lost its own, since the call was sent, or
\* it is a sign-in next to a token that was never tried.
NewCall(t, o, s) ==
    [Idle EXCEPT !.op = o, !.tab = t, !.with = s,
                 !.jar = IF o \in CookieOps THEN cookie ELSE None,
                 !.late = o = "signin" /\ stored[t] # None]

Free(c) == call[c] = Idle
InFlight(t) == {c \in Call : call[c].tab = t}
Quiet(t) == InFlight(t) = {}

\* Another tab uses the cookie too, or is about to.
Shared(t) == \E u \in Tab \ {t} : stored[u] # None \/ ~Quiet(u)

\* Bound: what was disturbed is seen to its end, but nothing more is asked.
Going == cause \subseteq {"tab"}

Because(why, happened) == cause' = cause \cup {w \in {why} : happened}

\* A handler of tab t makes call c.
Post(c, t, o, s) ==
    /\ o \in Operation
    /\ Free(c) /\ Going
    /\ call' = [call EXCEPT ![c] = NewCall(t, o, s)]
    /\ Because("tab", Shared(t))
    /\ UNCHANGED <<server, cookie, stored, shown, link, faults, ended>>

-----------------------------------------------------------------------------
(* The page *)

\* The page starts with the token `saved` in its storage: by a link that is
\* confirmed first, by a link that asks for a new password, or by restoring
\* the session.  What the page before it asked is served without being heard.
Mount(c, t, saved, action) ==
    LET first == IF action = "verify" THEN {NewCall(t, "verify", None)}
                 ELSE IF action = "none" /\ saved # None
                      THEN {NewCall(t, "load", saved)} ELSE {}
    IN
    /\ Free(c) /\ Going
    /\ stored' = [stored EXCEPT ![t] = saved]
    /\ shown' = [shown EXCEPT ![t] = None]
    /\ link' = [link EXCEPT ![t] = action]
    /\ panel' = [panel EXCEPT ![t] = FALSE]
    /\ call' = [d \in Call |-> IF d = c /\ first # {} THEN CHOOSE n \in first : TRUE
                               ELSE IF d \notin InFlight(t) THEN call[d]
                               ELSE IF call[d].op \in Harmless THEN Idle
                               ELSE [call[d] EXCEPT !.tab = None]]
    /\ cause' = cause
          \cup {w \in {"lost"} : \E d \in InFlight(t) : call[d].op \notin Harmless}
          \cup {w \in {"tab"} : Shared(t)}
    /\ UNCHANGED <<server, cookie, faults, ended>>

Reload(c, t) == "load" \in Operation /\ Mount(c, t, stored[t], "none")

\* The browser copies the storage of tab u for a tab opened from it.
Duplicate(c, t, u) ==
    /\ "load" \in Operation
    /\ stored[t] = None /\ Quiet(t)
    /\ stored[u] # None
    /\ Mount(c, t, stored[u], "none")

OpenLink(c, t, action) == action \in Operation /\ Mount(c, t, stored[t], action)

\* Every ten minutes the session in memory is refreshed.
Tick(c, t) ==
    /\ shown[t] # None
    /\ Post(c, t, "refresh", shown[t])
    /\ UNCHANGED panel

\* Registering, or logging in with all its factors: one call stands for the
\* last of them, which is answered with the session.
SignIn(c, t) ==
    /\ shown[t] = None /\ link[t] # "reset" /\ ~panel[t]
    /\ Post(c, t, "signin", None)
    /\ panel' = [panel EXCEPT ![t] = TRUE]

Logout(c, t) ==
    /\ shown[t] # None /\ link[t] # "reset" /\ ~panel[t]
    /\ Post(c, t, "logout", shown[t])
    /\ panel' = [panel EXCEPT ![t] = TRUE]

ConfirmRecovery(c, t) ==
    /\ link[t] = "reset" /\ ~panel[t]
    /\ Post(c, t, "reset", None)
    /\ panel' = [panel EXCEPT ![t] = TRUE]

\* change_password; update_profile and disable_mfa ("edit"); revoke_others;
\* delete_account.  Each captures the session shown when it is clicked.  Their
\* busy flag is lost when the settings are closed and opened again, so it
\* keeps none of them from being called while another one is on its way.
Secure(c, t, o) ==
    /\ o \in SecurityOps
    /\ shown[t] # None /\ link[t] # "reset"
    /\ Post(c, t, o, shown[t])
    /\ UNCHANGED panel

-----------------------------------------------------------------------------
(* The server *)

Resolve(c, phase, s) == call' = [call EXCEPT ![c].phase = phase, ![c].got = s]

\* Cookie and CSRF token are those of one unexpired session.
CookieValid(c) ==
    /\ call[c].jar # None /\ call[c].jar = call[c].with
    /\ state[call[c].jar] = "live"

\* The access token is of a session that is not revoked and of this version.
BearerValid(c) ==
    /\ account = "present"
    /\ state[call[c].with] = "live" /\ issued[call[c].with] = version

Valid(c) ==
    LET o == call[c].op
    IN \/ o \in CookieOps /\ CookieValid(c)
       \/ o \in SecurityOps /\ BearerValid(c)
       \/ o = "verify"
       \/ o = "signin" /\ account # "deleted"
       \/ o = "reset" /\ account = "present"

Open == Server!Open(Session)

\* The operation is done.  Sessions says how its statements may interleave
\* with others; here it is one step of the ledger.
Serve(c) ==
    LET o == call[c].op IN
    /\ o # "none" /\ call[c].phase = "sent" /\ Valid(c)
    /\ \/ /\ o \in Issuers
          /\ \E s \in Session :
                /\ state[s] = "none"
                /\ \/ o = "signin" /\ (Server!SignUp(s) \/ Server!SignIn(s, version))
                   \/ o \in {"load", "refresh"} /\ Server!Rotate(call[c].jar, s, version)
                   \/ o = "change" /\ Server!ChangePassword(Open, s)
                /\ Resolve(c, "ok", s)
       \/ /\ \/ o = "logout" /\ Server!EndSessions({call[c].jar})
             \/ o = "others" /\ Server!EndSessions(Open \ {call[c].with})
             \/ o = "reset" /\ version < MaxVersion /\ Server!ResetPassword(Open)
             \/ o = "delete" /\ Server!Close
             \/ o \in {"edit", "verify"} /\ UNCHANGED server
          /\ Resolve(c, "ok", None)
    /\ UNCHANGED <<cookie, page, faults, history>>

\* The session, the token or the link is not good any more.
Reject(c) ==
    /\ call[c].op # "none" /\ call[c].phase = "sent"
    /\ ~Valid(c) \/ call[c].op = "verify"
    /\ Resolve(c, "refused", None)
    /\ UNCHANGED <<server, cookie, page, faults, history>>

Fault == faults < MaxFaults /\ faults' = faults + 1

\* Refused although it was good: a rate limit, a stop, a failed statement.
Refuse(c) ==
    /\ call[c].op # "none" /\ call[c].phase = "sent"
    /\ Fault
    /\ Resolve(c, "refused", None)
    /\ Because("refused", TRUE)
    /\ UNCHANGED <<server, cookie, page, ended>>

\* A session expires, or another device revokes it.
Elsewhere(s) ==
    /\ state[s] = "live"
    /\ Fault
    /\ Server!EndSessions({s})
    /\ ended' = ended \cup {s}
    /\ UNCHANGED <<cookie, page, call, cause>>

-----------------------------------------------------------------------------
(* Answers *)

\* A mutant: the cookie is emptied instead of removed.
CookieEmptied(c) ==
    IF call[c].phase # "ok" THEN cookie
    ELSE IF call[c].op \in Issuers THEN call[c].got
    ELSE IF call[c].op \in Removers THEN ""
    ELSE cookie
\* Set-Cookie, as far as the answer reaches the browser.
CookieAfter(c) ==
    IF call[c].phase # "ok" THEN cookie
    ELSE IF call[c].op \in Issuers THEN call[c].got
    ELSE IF call[c].op \in Removers THEN None
    ELSE cookie

SetAuthenticated(t, s) ==
    /\ stored' = [stored EXCEPT ![t] = s]
    /\ shown' = [shown EXCEPT ![t] = s]

ClearAuth(t) == SetAuthenticated(t, None)

\* A mutant: the answer to a password change is only reported.
ShowsButChange(c, ok) == ok /\ call[c].op \in (Issuers \cup {"edit"}) \ {"change"}
Shows(c, ok) == ok /\ call[c].op \in Issuers \cup {"edit"}
Clears(c, ok) ==
    \/ call[c].op = "logout"
    \/ ok /\ call[c].op \in Removers
    \/ ~ok /\ call[c].op = "load"

\* The session an answer puts into the page: the new one, or the captured one.
Brought(c) == IF call[c].op = "edit" THEN call[c].with ELSE call[c].got

\* The page handles the answer to c, or the failure to get one.
Handle(c, ok) ==
    LET t == call[c].tab IN
    /\ \/ Shows(c, ok) /\ SetAuthenticated(t, Brought(c))
       \/ Clears(c, ok) /\ ClearAuth(t)
       \/ ~Shows(c, ok) /\ ~Clears(c, ok) /\ UNCHANGED <<stored, shown>>
    /\ panel' = [panel EXCEPT ![t] = @ /\ call[c].op \notin {"signin", "logout", "reset"}]
    /\ link' = [link EXCEPT ![t] = IF ok /\ call[c].op = "reset" THEN "none" ELSE @]
    /\ call' = [d \in Call |->
          IF d = c THEN Idle
          ELSE IF d \in InFlight(t) /\ (Shows(c, ok) \/ Clears(c, ok))
               THEN [call[d] EXCEPT !.late = TRUE]
          ELSE call[d]]

Answer(c) ==
    /\ call[c].tab # None /\ call[c].phase # "sent" /\ call[c].op # "verify"
    /\ Handle(c, call[c].phase = "ok")
    /\ cookie' = CookieAfter(c)
    /\ Because("overtaken", call[c].late /\ (call[c].phase = "ok" \/ Clears(c, FALSE)))
    /\ UNCHANGED <<server, faults, ended>>

\* The connection breaks before the answer arrives, with or without the
\* request having been served.
Break(c) ==
    /\ call[c].tab # None /\ call[c].op \notin {"none", "verify"}
    /\ Fault
    /\ Handle(c, FALSE)
    /\ Because("lost", TRUE)
    /\ UNCHANGED <<server, cookie, ended>>

\* The address is confirmed, or is not: either way the session is restored
\* with the token that is now in the storage.
Verified(c) ==
    LET t == call[c].tab IN
    /\ t # None /\ call[c].op = "verify" /\ call[c].phase # "sent"
    /\ link' = [link EXCEPT ![t] = "none"]
    /\ call' = [call EXCEPT ![c] = IF stored[t] = None THEN Idle
                                   ELSE NewCall(t, "refresh", stored[t])]
    /\ Because("tab", Shared(t))
    /\ UNCHANGED <<server, cookie, stored, shown, panel, faults, ended>>

\* The page that asked is gone.  The browser may have seen the answer's headers.
Unheard(c) ==
    /\ call[c].op # "none" /\ call[c].tab = None
    /\ cookie' \in {cookie, CookieAfter(c)}
    /\ call' = [call EXCEPT ![c] = Idle]
    /\ UNCHANGED <<server, page, faults, history>>

-----------------------------------------------------------------------------
Init ==
    /\ Server!Init
    /\ cookie = None
    /\ stored = [t \in Tab |-> None]
    /\ shown = [t \in Tab |-> None]
    /\ link = [t \in Tab |-> "none"]
    /\ panel = [t \in Tab |-> FALSE]
    /\ call = [c \in Call |-> Idle]
    /\ faults = 0
    /\ cause = {} /\ ended = {}

Next ==
    \/ \E c \in Call, t \in Tab :
          \/ Reload(c, t) \/ Tick(c, t)
          \/ SignIn(c, t) \/ Logout(c, t) \/ ConfirmRecovery(c, t)
          \/ \E u \in Tab : Duplicate(c, t, u)
          \/ \E a \in {"verify", "reset"} : OpenLink(c, t, a)
          \/ \E o \in SecurityOps : Secure(c, t, o)
    \/ \E c \in Call :
          \/ Serve(c) \/ Reject(c) \/ Refuse(c)
          \/ Answer(c) \/ Break(c) \/ Verified(c) \/ Unheard(c)
    \/ \E s \in Session : Elsewhere(s)

Spec == Init /\ [][Next]_vars

-----------------------------------------------------------------------------
(* Properties *)

CallType ==
    [op : Operations \cup {"none"}, tab : Tab \cup {None}, with : Session \cup {None},
     jar : Session \cup {None}, phase : {"sent", "ok", "refused"},
     got : Session \cup {None}, late : BOOLEAN]

\* Every variable has its type.
TypeOK ==
    /\ account \in {"absent", "present", "deleted"}
    /\ version \in Nat
    /\ state \in [Session -> {"none", "live", "expired", "revoked"}]
    /\ issued \in [Session -> Nat]
    /\ parent \in [Session -> Session \cup {None}]
    /\ cookie \in Session \cup {None}
    /\ stored \in [Tab -> Session \cup {None}]
    /\ shown \in [Tab -> Session \cup {None}]
    /\ link \in [Tab -> {"none", "verify", "reset"}]
    /\ panel \in [Tab -> BOOLEAN]
    /\ call \in [Call -> CallType]
    /\ faults \in 0 .. MaxFaults
    /\ cause \subseteq {"tab", "lost", "refused", "overtaken"}
    /\ ended \subseteq Session

\* The tab can go on with session s: the server knows it and the browser has
\* its cookie.
Works(t, s) == state[s] = "live" /\ cookie = s /\ stored[t] = s

\* A tab never shows an account it cannot use: when none of its calls is on
\* its way, the session it shows works.  The exceptions: the session was ended
\* from elsewhere, an answer was lost, another tab used the same cookie, or an
\* answer came after the session it was about.
ShownWorks ==
    \A t \in Tab :
        Quiet(t) /\ shown[t] # None =>
            \/ Works(t, shown[t])
            \/ shown[t] \in ended
            \/ cause \cap {"lost", "tab", "overtaken"} # {}

\* And the other way round no session is forgotten alive: when no call is on
\* its way, a live session is one that some tab can go on with, after a reload
\* at the latest, unless one of those things happened or a call was refused
\* that was good.
NothingForgotten ==
    (\A c \in Call : Free(c)) =>
        \A s \in Session : state[s] = "live" =>
            \/ \E t \in Tab : Works(t, s)
            \/ cause \cap {"lost", "refused", "overtaken"} # {}
            \/ "tab" \in cause /\ cookie # s

-----------------------------------------------------------------------------
(* The inductive invariant behind the theorems of BrowserProofs, in parts *)

\* A call that is made for a session, and one whose answer brings a session.
Bound(c) == call[c].op \in CookieOps \cup SecurityOps
Brings(c) == call[c].op \in Issuers /\ call[c].phase = "ok"

Live(s) == s # None /\ state[s] = "live"
Active(t) == stored[t] # None \/ ~Quiet(t)
Alone == "tab" \notin cause
Heard == cause \cap {"lost", "overtaken"} = {}

\* A call is made by a page, which is lost before the call is unheard.
CallInv ==
    \A c \in Call :
        /\ call[c].op = "none" => call[c] = Idle
        /\ call[c].op # "none" /\ call[c].tab = None => "lost" \in cause
        /\ Bound(c) => call[c].with # None
        /\ Brings(c) => call[c].got # None
        /\ call[c].phase = "sent" => call[c].got = None

\* What a page shows it has stored, and one opened to reset the password does
\* nothing else.
PageInv ==
    /\ \A t \in Tab :
          /\ shown[t] # None => shown[t] = stored[t]
          /\ link[t] = "reset" =>
                /\ shown[t] = None
                /\ \A c \in InFlight(t) : call[c].op = "reset" /\ panel[t]
                /\ \A c, d \in InFlight(t) : c = d
    /\ \A c \in Call : call[c].op = "reset" /\ call[c].tab # None =>
                          link[call[c].tab] = "reset"

\* A session that does not exist yet is named nowhere, and the one an answer
\* brings by that answer only.
FreshInv ==
    /\ account = "deleted" => \A s \in Session : state[s] = "none"
    /\ account # "deleted" =>
          \A s \in Session : state[s] = "none" =>
              /\ cookie # s
              /\ \A t \in Tab : stored[t] # s
              /\ \A c \in Call : s \notin {call[c].with, call[c].jar, call[c].got}
    /\ \A c \in Call : Brings(c) =>
          /\ cookie # call[c].got
          /\ \A t \in Tab : stored[t] # call[c].got
          /\ \A d \in Call : call[c].got \notin {call[d].with, call[d].jar}
          /\ \A d \in Call \ {c} : call[d].got # call[c].got

\* A call that nothing has overtaken is about what its page has stored; a call
\* that takes the cookie along took the one that is there, if it is about it.
WithInv ==
    \A c \in Call :
        /\ call[c].tab # None /\ ~call[c].late =>
              /\ Bound(c) => call[c].with = stored[call[c].tab]
              /\ call[c].op \in SecurityOps => call[c].with = shown[call[c].tab]
              /\ call[c].op = "signin" => stored[call[c].tab] = None
        /\ call[c].op \in CookieOps /\ call[c].with = cookie => call[c].jar = cookie

\* What a call that was served has ended.
DoneInv ==
    \A c \in Call : call[c].phase = "ok" =>
        /\ call[c].op \in {"load", "refresh", "change", "logout"} => ~Live(call[c].with)
        /\ call[c].op = "delete" => account = "deleted"
        /\ call[c].op = "reset" /\ cause = {} => ~Live(cookie)

\* A session whose logout or restoring was refused is over.
RefusedInv ==
    cause \subseteq {"tab"} =>
        \A c \in Call :
            call[c].op \in {"load", "logout"} /\ call[c].phase = "refused"
            => ~Live(call[c].with) \/ call[c].with # cookie

AloneInv == Alone => \A t, u \in Tab : Active(t) /\ Active(u) => t = u

\* A page never loses the session of the cookie, and while it is alone every
\* session alive is that one or on its way.
HomeInv ==
    /\ cause \subseteq {"tab"} /\ Live(cookie) => \E t \in Tab : stored[t] = cookie
    /\ cause = {} => \A s \in Session : Live(s) =>
          s = cookie \/ \E c \in Call : Brings(c) /\ call[c].got = s

\* A call overtaken is about a session that is over, unless its page has given
\* the session up.
StaleInv ==
    Alone /\ Heard =>
        \A c \in Call : call[c].tab # None /\ Bound(c) =>
            LET t == call[c].tab
            IN \/ call[c].with = stored[t]
               \/ ~Live(call[c].with)
               \/ /\ "refused" \in cause /\ stored[t] = None
                  /\ \A d \in InFlight(t) : Bound(d) \/ call[d].op = "signin" => call[d].late

\* What an answer brings works, and so does what is shown, or a call is on its
\* way that has ended it.
WorksInv ==
    Alone /\ Heard =>
        /\ \A c \in Call : call[c].tab # None /\ Brings(c) /\ ~call[c].late =>
              Live(call[c].got) \/ call[c].got \in ended
        /\ \A t \in Tab : shown[t] # None =>
              \/ shown[t] \in ended
              \/ Live(shown[t]) /\ cookie = shown[t]
              \/ \E c \in InFlight(t) :
                    /\ call[c].phase = "ok"
                    /\ call[c].op \in {"load", "refresh", "change", "logout", "delete"}

IInv == /\ CallInv /\ PageInv /\ FreshInv /\ WithInv /\ DoneInv
        /\ RefusedInv /\ AloneInv /\ HomeInv /\ StaleInv /\ WorksInv
=============================================================================

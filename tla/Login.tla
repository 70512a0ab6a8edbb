------------------------------- MODULE Login --------------------------------
(***************************************************************************)
(* Sign-in (backend/auth): a login pins a state on the server and sends    *)
(* the browser to Google; the callback spends the state, exchanges the     *)
(* code while other requests run, and opens a session that the browser's   *)
(* cookie names.  Sessions are server-side rows: logout deletes the row.   *)
(*                                                                         *)
(* Login handlers run on threads, so two sweeps of the expired states may  *)
(* overlap; callbacks run on the event loop and interleave at the          *)
(* exchange.  States and sessions are numbered in the order of issue.      *)
(***************************************************************************)
EXTENDS Integers, FiniteSets, SequencesExt

CONSTANTS
    Browsers, Accounts,             \* who signs in, as whom
    Workers,                        \* threads that serve logins
    StateTtl, SessionTtl,           \* _STATE_TTL_SECONDS, DEFAULT_SESSION_TTL
    MaxStates, MaxCallbacks, MaxDay \* bounds

ASSUME LoginAssumption ==
    /\ StateTtl \in Nat /\ SessionTtl \in Nat
    /\ MaxStates \in Nat /\ MaxCallbacks \in Nat /\ MaxDay \in Nat

VARIABLES
    day,        \* both clocks
    issued,     \* the times at which states were issued
    pending,    \* [state -> expiry]
    sweeps,     \* [worker -> the expired states its sweep has still to delete, or Idle]
    callbacks,  \* callbacks that await Google's answer
    sessions,   \* every session opened; a deleted one keeps its place
    cookies     \* [browser -> session]

loginVars == <<day, issued, pending, sweeps, callbacks, sessions, cookies>>

Idle == {0}
NoCookie == 0

LoginInit ==
    /\ day = 0 /\ issued = <<>> /\ pending = <<>>
    /\ sweeps = [w \in Workers |-> Idle]
    /\ callbacks = {} /\ sessions = <<>>
    /\ cookies = [b \in Browsers |-> NoCookie]

NextDay ==
    /\ day < MaxDay /\ day' = day + 1
    /\ UNCHANGED <<issued, pending, sweeps, callbacks, sessions, cookies>>

(***************************************************************************)
(* GET /auth/google/login                                                  *)
(***************************************************************************)
Without(states) == [s \in DOMAIN pending \ states |-> pending[s]]

\* _new_state takes its copy of the table and then deletes entry by entry.
SweepBegins(w) ==
    /\ sweeps[w] = Idle /\ Len(issued) < MaxStates
    /\ sweeps' = [sweeps EXCEPT ![w] = {s \in DOMAIN pending : pending[s] < day}]
    /\ UNCHANGED <<day, issued, pending, callbacks, sessions, cookies>>

\* A state that another sweep or a callback has taken meanwhile fails the login.
SweepDeletes(w) ==
    /\ sweeps[w] # Idle
    /\ \E s \in sweeps[w] :
          /\ sweeps' = [sweeps EXCEPT ![w] = IF s \in DOMAIN pending THEN @ \ {s} ELSE Idle]
          /\ pending' = Without({s})
    /\ UNCHANGED <<day, issued, callbacks, sessions, cookies>>

StateIssued(w) ==
    /\ sweeps[w] = {} /\ Len(issued) < MaxStates
    /\ issued' = Append(issued, day)
    /\ pending' = [s \in DOMAIN pending \cup {Len(issued')} |->
                      IF s = Len(issued') THEN day + StateTtl ELSE pending[s]]
    /\ sweeps' = [sweeps EXCEPT ![w] = Idle]
    /\ UNCHANGED <<day, callbacks, sessions, cookies>>

(***************************************************************************)
(* GET /auth/google/callback                                               *)
(***************************************************************************)
MutantConsumed(s) == pending

Consumed(s) == Without({s})

\* Any browser may bring any state, once or again; an unknown, a spent or an
\* expired one is sent back with an error.
CallbackArrives(b, s) ==
    /\ s \in DOMAIN pending /\ Cardinality(callbacks) < MaxCallbacks
    /\ pending' = Consumed(s)
    /\ callbacks' = IF pending[s] >= day
                    THEN callbacks \cup {[browser |-> b, state |-> s, at |-> day]} ELSE callbacks
    /\ UNCHANGED <<day, issued, sweeps, sessions, cookies>>

ExchangeFails(c) ==
    /\ callbacks' = callbacks \ {c}
    /\ UNCHANGED <<day, issued, pending, sweeps, sessions, cookies>>

\* get_or_create_user, create_session, set_cookie: one step of the event loop.
SignedIn(c, account) ==
    /\ Len(sessions) < MaxStates
    /\ callbacks' = callbacks \ {c}
    /\ sessions' = Append(sessions, [user |-> account, state |-> c.state, at |-> c.at,
                                     expires |-> day + SessionTtl, live |-> TRUE])
    /\ cookies' = [cookies EXCEPT ![c.browser] = Len(sessions')]
    /\ UNCHANGED <<day, issued, pending, sweeps>>

(***************************************************************************)
(* GET /auth/me, POST /auth/logout, and every request that needs a user    *)
(***************************************************************************)
\* current_user_id: the session of the cookie, if it lives; an expired one is
\* deleted when it is found.  Without one the visitor is the public user.
Guest == "guest"
CurrentUser(b) ==
    IF cookies[b] = NoCookie THEN Guest
    ELSE LET session == sessions[cookies[b]] IN
         IF session.live /\ session.expires >= day THEN session.user ELSE Guest

Me(b) ==
    /\ cookies[b] # NoCookie /\ sessions[cookies[b]].expires < day
    /\ sessions' = [sessions EXCEPT ![cookies[b]].live = FALSE]
    /\ UNCHANGED <<day, issued, pending, sweeps, callbacks, cookies>>

Logout(b) ==
    /\ cookies[b] # NoCookie
    /\ sessions' = [sessions EXCEPT ![cookies[b]].live = FALSE]
    /\ cookies' = [cookies EXCEPT ![b] = NoCookie]
    /\ UNCHANGED <<day, issued, pending, sweeps, callbacks>>

LoginNext ==
    \/ NextDay
    \/ \E w \in Workers : SweepBegins(w) \/ SweepDeletes(w) \/ StateIssued(w)
    \/ \E b \in Browsers, s \in 1 .. MaxStates : CallbackArrives(b, s)
    \/ \E c \in callbacks : ExchangeFails(c) \/ \E account \in Accounts : SignedIn(c, account)
    \/ \E b \in Browsers : Me(b) \/ Logout(b)

LoginSpec == LoginInit /\ [][LoginNext]_loginVars

(***************************************************************************)
(* Properties.                                                             *)
(***************************************************************************)
LoginTypeOK ==
    /\ DOMAIN pending \subseteq DOMAIN issued
    /\ \A b \in Browsers : cookies[b] \in {NoCookie} \cup DOMAIN sessions
    /\ \A b \in Browsers : CurrentUser(b) \in Accounts \cup {Guest}

\* A login opens at most one session, and only when the browser came back from
\* Google in time, whatever sweeps and callbacks ran meanwhile.
SignInIsSpentOnce ==
    /\ \A i, j \in DOMAIN sessions : sessions[i].state = sessions[j].state => i = j
    /\ \A i \in DOMAIN sessions : sessions[i].at - issued[sessions[i].state] <= StateTtl
    /\ \A i \in DOMAIN sessions : \A c \in callbacks : sessions[i].state # c.state
=============================================================================

-------------------------------- MODULE Session --------------------------------
(***************************************************************************)
(* The session of the console: AuthContext.tsx and client.ts in every tab  *)
(* of a browser, one localStorage for all of them, and the credential      *)
(* endpoints (backend/app/auth/routes.py, deps.py) behind the rate limiter. *)
(*                                                                         *)
(* A JavaScript function runs without interruption up to its next await:   *)
(* an action is what happens between two of them.  An access token is the  *)
(* number of its mint; a refresh token is its user, and lives as long as   *)
(* the user is active.                                                     *)
(***************************************************************************)
EXTENDS RateLimit, Sequences

CONSTANTS
    Tabs, Users, Nobody,
    Stored,     \* whose session a behaviour may start from: users, or Nobody
    Leavers,    \* users who may be deactivated
    Calls,      \* requests of the pages
    MaxStarts   \* bound: logins and reloads

\* What a tab may have in the limiter: the refresh at its start, the refresh all its
\* requests share, and a login.
ASSUME SessionAssumption ==
    /\ Callers = Tabs \X {"boot", "shared", "login"}
    /\ Tabs # {}
    /\ Nobody \notin Users /\ Stored \subseteq Users \cup {Nobody} /\ Leavers \subseteq Users

NoToken == 0

VARIABLES
    stored,   \* localStorage acms.refresh_token: whose
    tab,      \* tab[t]: token and principal of its AuthContext
    ask,      \* ask[h]: whose refresh or login is under way
    promise,  \* promise[t]: inFlightRefresh
    call,     \* call[c]: an apiFetch of a page
    issued,   \* issued[n]: the user access token n was minted for
    expired,  \* tokens past their exp
    active,   \* users with is_active
    starts,
    quiet     \* history: tokens issued when the last user logged out with nothing under
              \* way, -1 when somebody has begun to log in since

browser == <<stored, tab, ask, promise, call, starts, quiet>>
server == <<issued, expired, active>>
vars == <<limiter, browser, server>>

NoPromise == [state |-> "none", token |-> NoToken]
Pending == [state |-> "pending", token |-> NoToken]
SignedOut == [token |-> NoToken, principal |-> Nobody]
NoCall == [pc |-> "new", tab |-> CHOOSE t \in Tabs : TRUE, user |-> Nobody, token |-> NoToken,
           retried |-> FALSE, crossed |-> FALSE]
Failed == [NoCall EXCEPT !.pc = "failed"]

\* The page is loaded in every tab.
Init ==
    /\ counter = NoKey /\ faults = 0 /\ leaked = FALSE
    /\ stored \in Stored
    /\ issued = <<>>
    /\ tab = [t \in Tabs |-> SignedOut]
    /\ ask = [h \in Callers |-> IF h[2] = "boot" THEN stored ELSE Nobody]
    /\ hit = [h \in Callers |-> IF ask[h] = Nobody THEN "idle" ELSE "incr"]
    /\ promise = [t \in Tabs |-> NoPromise]
    /\ call = [c \in Calls |-> NoCall]
    /\ expired = {}
    /\ active = Users
    /\ starts = 0
    /\ quiet = -1

Minted == Len(issued) + 1
InFlight(c) == call[c].pc \in {"sent", "waits"}

\* A POST of h for u to /auth/token or /auth/refresh enters the limiter.
Post(h, u) ==
    /\ ask' = [ask EXCEPT ![h] = u]
    /\ hit' = [hit EXCEPT ![h] = "incr"]
    /\ UNCHANGED <<counter, faults, leaked>>

Answered(h) == ask' = [ask EXCEPT ![h] = Nobody] /\ hit' = [hit EXCEPT ![h] = "idle"]

-----------------------------------------------------------------------------
(* doRefresh and runRefresh. *)

\* Mutant: the promise is kept once it has settled.
PromiseKept(token) == [state |-> "settled", token |-> token]

\* finally: the next 401 starts another.
Settled(token) == NoPromise

\* A request is sent again with a fresh token, or fails with its 401.
Given(request, token) ==
    IF token = NoToken THEN Failed ELSE [request EXCEPT !.pc = "sent", !.token = token,
                                                        !.retried = TRUE]

\* Those of t's requests that wait for the promise go on with what it gives.
Resumed(t, token) ==
    [c \in Calls |-> IF call[c].pc = "waits" /\ call[c].tab = t
                     THEN Given(call[c], token) ELSE call[c]]

\* Mutant: the refresh request is retried like any other.
RetriesAny(status, skipRefresh) == status = 401

Retries(status, skipRefresh) == status = 401 /\ ~skipRefresh

\* The refresh h ends with a token, or with null.
RefreshEnds(h, token) ==
    IF h[2] = "shared"
    THEN /\ promise' = [promise EXCEPT ![h[1]] = Settled(token)]
         /\ call' = Resumed(h[1], token)
    ELSE UNCHANGED <<promise, call>>

Admitted(h) == h[2] # "login" /\ hit[h] = "admitted"

RefreshSucceeds(h) ==
    /\ Admitted(h) /\ ask[h] \in active
    /\ issued' = Append(issued, ask[h])
    /\ tab' = [tab EXCEPT ![h[1]] = [token |-> Minted, principal |-> ask[h]]]
    /\ RefreshEnds(h, Minted)
    /\ Answered(h)
    /\ UNCHANGED <<counter, faults, leaked, stored, expired, active, starts, quiet>>

\* catch: any failure, a 429, a 500 or a lost connection included, ends the session.
SessionLost(h) ==
    /\ tab' = [tab EXCEPT ![h[1]] = SignedOut]
    /\ stored' = Nobody
    /\ RefreshEnds(h, NoToken)
    /\ Answered(h)
    /\ UNCHANGED <<counter, faults, leaked, server, starts, quiet>>

RefreshFails(h) ==
    /\ h[2] # "login" /\ hit[h] \in {"refused", "dropped"}
    /\ SessionLost(h)

\* 401: the user is inactive.
RefreshRefused(h) ==
    /\ Admitted(h) /\ ask[h] \notin active
    /\ ~Retries(401, TRUE)
    /\ SessionLost(h)

-----------------------------------------------------------------------------
(* login, logout, reload. *)

\* The login page shows as long as there is no principal, a refresh at the start of
\* the tab under way or not.
Login(t, u) ==
    /\ tab[t].principal = Nobody /\ ask[<<t, "login">>] = Nobody
    /\ starts < MaxStarts /\ starts' = starts + 1
    /\ Post(<<t, "login">>, u)
    /\ quiet' = -1
    /\ UNCHANGED <<stored, tab, promise, call, server>>

LoginSucceeds(t) ==
    LET h == <<t, "login">>
        u == ask[h]
    IN  /\ hit[h] = "admitted" /\ u \in active
        /\ issued' = Append(issued, u)
        /\ stored' = u
        /\ tab' = [tab EXCEPT ![t] = [token |-> Minted, principal |-> u]]
        /\ call' = [c \in Calls |-> [call[c] EXCEPT !.crossed = @ \/ InFlight(c)]]
        /\ Answered(h)
        /\ UNCHANGED <<counter, faults, leaked, promise, starts, quiet, expired, active>>

LoginFails(t) ==
    LET h == <<t, "login">>
    IN  /\ \/ hit[h] \in {"refused", "dropped"}
           \/ hit[h] = "admitted" /\ ask[h] \notin active
        /\ Answered(h)
        /\ UNCHANGED <<counter, faults, leaked, stored, tab, promise, call, starts, quiet, server>>

\* Mutant: the refresh token stays in localStorage.
StoredKept == stored

AfterLogout == Nobody

Logout(t) ==
    /\ tab[t].principal # Nobody
    /\ tab' = [tab EXCEPT ![t] = SignedOut]
    /\ stored' = AfterLogout
    /\ quiet' = IF \A h \in Callers : ask[h] = Nobody THEN Len(issued) ELSE -1
    /\ UNCHANGED <<limiter, ask, promise, call, starts, server>>

\* What a tab has in memory goes; a stored refresh token is tried once.  An answer to a
\* request of the old page is not looked at.  (Bound: not while the limiter counts one.)
Reload(t) ==
    LET mine == {t} \X {"boot", "shared", "login"}
        boot == <<t, "boot">>
    IN  /\ starts < MaxStarts /\ starts' = starts + 1
        /\ \A h \in mine : hit[h] \notin InRedis
        /\ tab' = [tab EXCEPT ![t] = SignedOut]
        /\ promise' = [promise EXCEPT ![t] = NoPromise]
        /\ call' = [c \in Calls |-> IF InFlight(c) /\ call[c].tab = t
                                    THEN Failed ELSE call[c]]
        /\ ask' = [h \in Callers |-> IF h = boot THEN stored
                                     ELSE IF h \in mine THEN Nobody ELSE ask[h]]
        /\ hit' = [h \in Callers |-> IF h = boot /\ stored # Nobody
                                     THEN "incr"
                                     ELSE IF h \in mine THEN "idle" ELSE hit[h]]
        /\ UNCHANGED <<counter, faults, leaked, stored, quiet, server>>

-----------------------------------------------------------------------------
(* apiFetch of a page. *)

\* The session of t is the one in localStorage, and no refresh of another is under way.
Unmixed(t) == tab[t].principal = stored /\ ask[<<t, "shared">>] \in {Nobody, stored}

\* With the token of the page's last rendering.
Send(c, t) ==
    /\ call[c].pc = "new" /\ \A d \in Calls : d < c => call[d].pc # "new"
    /\ tab[t].principal # Nobody
    /\ call' = [call EXCEPT ![c] = [NoCall EXCEPT !.pc = "sent", !.tab = t,
                                      !.user = tab[t].principal, !.token = tab[t].token,
                                      !.crossed = ~Unmixed(t)]]
    /\ UNCHANGED <<limiter, stored, tab, ask, promise, starts, quiet, server>>

\* get_current_principal: 403 for an inactive user.
Serve(c) ==
    /\ call[c].pc = "sent" /\ call[c].token \notin expired
    /\ call' = [call EXCEPT ![c] =
          IF issued[@.token] \in active THEN [@ EXCEPT !.pc = "served"] ELSE Failed]
    /\ UNCHANGED <<limiter, stored, tab, ask, promise, starts, quiet, server>>

Unauthorized(c) == call[c].pc = "sent" /\ call[c].token \in expired

\* A 401 again.
Fail(c) ==
    /\ Unauthorized(c) /\ call[c].retried
    /\ call' = [call EXCEPT ![c] = Failed]
    /\ UNCHANGED <<limiter, stored, tab, ask, promise, starts, quiet, server>>

\* The first 401: the request waits for the refresh of its tab.
JoinRefresh(c) ==
    LET t == call[c].tab
        p == promise[t]
    IN  /\ Unauthorized(c) /\ Retries(401, call[c].retried)
        /\ p.state # "none"
        /\ call' = [call EXCEPT ![c] = IF p.state = "pending" THEN [@ EXCEPT !.pc = "waits"]
                                       ELSE Given(@, p.token)]
        /\ UNCHANGED <<limiter, stored, tab, ask, promise, starts, quiet, server>>

\* It starts one when there is none,
StartRefresh(c) ==
    LET t == call[c].tab
    IN  /\ Unauthorized(c) /\ Retries(401, call[c].retried)
        /\ promise[t].state = "none" /\ stored # Nobody
        /\ call' = [call EXCEPT ![c].pc = "waits"]
        /\ promise' = [promise EXCEPT ![t] = Pending]
        /\ Post(<<t, "shared">>, stored)
        /\ UNCHANGED <<stored, tab, starts, quiet, server>>

\* which ends at once when there is no refresh token.
NothingToRefresh(c) ==
    LET t == call[c].tab
    IN  /\ Unauthorized(c) /\ Retries(401, call[c].retried)
        /\ promise[t].state = "none" /\ stored = Nobody
        /\ call' = [call EXCEPT ![c] = Failed]
        /\ tab' = [tab EXCEPT ![t] = SignedOut]
        /\ UNCHANGED <<limiter, stored, ask, promise, starts, quiet, server>>

-----------------------------------------------------------------------------
(* Around them. *)

InUse(n) == (\E t \in Tabs : tab[t].token = n) \/ (\E c \in Calls : InFlight(c) /\ call[c].token = n)

TokenExpires ==
    /\ \E n \in (1..Len(issued)) \ expired : InUse(n) /\ expired' = expired \cup {n}
    /\ UNCHANGED <<limiter, browser, issued, active>>

Deactivate(u) ==
    /\ active = Users /\ active' = active \ {u}
    /\ UNCHANGED <<limiter, browser, issued, expired>>

Limiter(h) == Limiting(h) /\ UNCHANGED <<browser, server>>

LimiterFault(h) == Fault(h) /\ UNCHANGED <<browser, server>>

Window == WindowEnds /\ UNCHANGED <<browser, server>>

Answer(h) ==
    \/ Limiter(h)
    \/ RefreshSucceeds(h) \/ RefreshFails(h) \/ RefreshRefused(h)
    \/ h[2] = "login" /\ (LoginSucceeds(h[1]) \/ LoginFails(h[1]))

Fetch(c) ==
    \/ Serve(c) \/ Fail(c)
    \/ JoinRefresh(c) \/ StartRefresh(c) \/ NothingToRefresh(c)

Next ==
    \/ \E h \in Callers : Answer(h) \/ LimiterFault(h)
    \/ \E c \in Calls : Fetch(c) \/ \E t \in Tabs : Send(c, t)
    \/ \E t \in Tabs : Logout(t) \/ Reload(t) \/ \E u \in Users : Login(t, u)
    \/ \E u \in Leavers : Deactivate(u)
    \/ TokenExpires \/ Window

\* Requests that are under way are answered, and windows end.
Spec ==
    /\ Init /\ [][Next]_vars
    /\ \A h \in Callers : WF_vars(Answer(h))
    /\ \A c \in Calls : WF_vars(Fetch(c))
    /\ WF_vars(Window)

-----------------------------------------------------------------------------
\* logout: when it finds no login or refresh under way in any tab, nobody has a new
\* access token before somebody logs in: not a request that was waiting, not another
\* tab, not a reload.  One that is under way brings the session back.
LogoutEndsSession ==
    quiet # -1 => Len(issued) = quiet

\* client.ts: the requests of a burst "all retry with its result".  A request is served
\* as the user whose page sent it, retried or not, when it is sent from the session in
\* localStorage and no login crosses it or the refresh it waits for.
ServedAsSender ==
    \A c \in Calls :
        call[c].pc = "served" /\ ~call[c].crossed => issued[call[c].token] = call[c].user

\* Every request of a page, every refresh and every login comes to an end (a behaviour
\* has finitely many): none waits for a promise that waits for it, and no tab is left
\* "Restoring session".
EveryCallSettles ==
    <>[](/\ \A c \in Calls : ~InFlight(c)
         /\ \A h \in Callers : ask[h] = Nobody)

=============================================================================

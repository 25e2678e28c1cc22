----------------------------- MODULE SessionProofs -----------------------------
(***************************************************************************)
(* A logout with nothing under way is final, and a request is served as    *)
(* its sender, for any number of tabs, users, requests and logins.         *)
(***************************************************************************)
EXTENDS Session, SequenceTheorems, TLAPS

Somebody == Users \cup {Nobody}

Request == [pc: {"new", "sent", "waits", "served", "failed"}, tab: Tabs, user: Somebody,
            token: Nat, retried: BOOLEAN, crossed: BOOLEAN]

TypeOK ==
    /\ stored \in Somebody
    /\ tab \in [Tabs -> [token: Nat, principal: Somebody]]
    /\ ask \in [Callers -> Somebody]
    /\ promise \in [Tabs -> {NoPromise, Pending}]
    /\ call \in [Calls -> Request]
    /\ issued \in Seq(Users)
    /\ active \subseteq Users
    /\ quiet \in Int

Shared(t) == <<t, "shared">>

IsTokenOf(n, u) == n \in 1..Len(issued) /\ issued[n] = u

-----------------------------------------------------------------------------
(* After a logout that found nothing under way there is nothing that could *)
(* start a session: no refresh token and no request for a token.           *)

NothingLeft ==
    quiet # -1 => stored = Nobody /\ \A h \in Callers : ask[h] = Nobody

\* What a tab shows it has a token for.
TabsAgree ==
    \A t \in Tabs : tab[t].principal # Nobody => IsTokenOf(tab[t].token, tab[t].principal)

\* A pending promise has its refresh under way, and only then requests wait.
PromisesAgree ==
    /\ \A t \in Tabs : promise[t] = Pending => ask[Shared(t)] # Nobody
    /\ \A c \in Calls : call[c].pc = "waits" => promise[call[c].tab] = Pending

\* An uncrossed request on its way has its sender's token, and the refresh it may wait
\* for or start is its sender's.
Uncrossed(c) ==
    ~call[c].crossed =>
        /\ call[c].pc \in {"sent", "waits", "served"} => IsTokenOf(call[c].token, call[c].user)
        /\ InFlight(c) => /\ stored \in {call[c].user, Nobody}
                          /\ ask[Shared(call[c].tab)] \in {call[c].user, Nobody}

RequestsAgree == \A c \in Calls : Uncrossed(c)

SessionInv ==
    /\ TypeOK /\ NothingLeft /\ LogoutEndsSession
    /\ TabsAgree /\ PromisesAgree /\ RequestsAgree

-----------------------------------------------------------------------------
(* Callers and tokens. *)

LEMMA CallerParts ==
  ASSUME NEW h \in Callers
  PROVE  /\ h[1] \in Tabs /\ h[2] \in {"boot", "shared", "login"}
         /\ h = <<h[1], h[2]>>
         /\ \A t \in Tabs : h = Shared(t) <=> h[1] = t /\ h[2] = "shared"
BY SessionAssumption DEF Shared

LEMMA TabCallers ==
  ASSUME NEW t \in Tabs
  PROVE  /\ Shared(t) \in Callers
         /\ <<t, "login">> \in Callers
         /\ <<t, "boot">> \in Callers
BY SessionAssumption DEF Shared

LEMMA SharedCallersDiffer ==
  ASSUME NEW t \in Tabs, NEW u \in Tabs
  PROVE  /\ Shared(t) = Shared(u) <=> t = u
         /\ <<t, "login">> # Shared(u) /\ <<t, "boot">> # Shared(u)
BY DEF Shared

\* A token that is minted is its user's, and every other stays what it was.
LEMMA MintedToken ==
  ASSUME TypeOK, NEW u \in Users, issued' = Append(issued, u)
  PROVE  /\ issued' \in Seq(Users)
         /\ \A n, v : IsTokenOf(n, v) => IsTokenOf(n, v)'
         /\ Minted \in 1..Len(issued') /\ issued'[Minted] = u
         /\ Minted \in Nat
<1>1. issued \in Seq(Users)
  BY DEF TypeOK
<1>2. /\ issued' \in Seq(Users) /\ Len(issued') = Len(issued) + 1
      /\ \A i \in 1..Len(issued) : issued'[i] = issued[i]
      /\ issued'[Len(issued) + 1] = u
  BY <1>1, AppendProperties
<1>3. Len(issued) \in Nat
  BY <1>1, LenProperties
<1>4. ASSUME NEW n, NEW v, IsTokenOf(n, v) PROVE IsTokenOf(n, v)'
  <2>1. n \in 1..Len(issued) /\ issued[n] = v
    BY <1>4 DEF IsTokenOf
  <2>2. n \in 1..Len(issued') /\ issued'[n] = v
    BY <2>1, <1>2, <1>3
  <2>. QED
    BY <2>2 DEF IsTokenOf
<1>5. Minted \in 1..Len(issued') /\ issued'[Minted] = u
  BY <1>2, <1>3 DEF Minted
<1>. QED
  BY <1>2, <1>3, <1>4, <1>5 DEF Minted

-----------------------------------------------------------------------------
(* The beginning. *)

LEMMA SessionInit == Init => SessionInv
<1>. SUFFICES ASSUME Init PROVE SessionInv
  OBVIOUS
<1>1. NoCall \in Request /\ NoCall.pc = "new" /\ NoPromise # Pending
  BY SessionAssumption DEF NoCall, Request, Somebody, NoPromise, Pending, NoToken
<1>2. TypeOK
  BY <1>1, SessionAssumption DEF Init, TypeOK, SignedOut, Somebody, NoToken
<1>3. TabsAgree
  BY DEF Init, TabsAgree, SignedOut
<1>4. PromisesAgree
  BY <1>1 DEF Init, PromisesAgree
<1>5. RequestsAgree
  BY <1>1 DEF Init, RequestsAgree, Uncrossed, InFlight
<1>6. NothingLeft /\ LogoutEndsSession
  BY DEF Init, NothingLeft, LogoutEndsSession
<1>. QED
  BY <1>2, <1>3, <1>4, <1>5, <1>6 DEF SessionInv

-----------------------------------------------------------------------------
(* Refreshes that end. *)

\* A call is left alone, fails, or is sent again with the new token.
LEMMA ResumedCalls ==
  ASSUME TypeOK, NEW t \in Tabs, NEW token \in Nat, call' = Resumed(t, token)
  PROVE  /\ call' \in [Calls -> Request]
         /\ \A c \in Calls :
              \/ /\ call'[c] = call[c]
                 /\ ~(call[c].pc = "waits" /\ call[c].tab = t)
              \/ /\ call[c].pc = "waits" /\ call[c].tab = t
                 /\ \/ call'[c].pc = "failed" /\ ~call'[c].crossed
                    \/ /\ call'[c].pc = "sent" /\ call'[c].token = token
                       /\ call'[c].tab = t /\ call'[c].user = call[c].user
                       /\ call'[c].crossed = call[c].crossed
<1>1. Failed \in Request /\ Failed.pc = "failed" /\ ~Failed.crossed
  BY SessionAssumption DEF Failed, NoCall, Request, Somebody, NoToken
<1>. SUFFICES ASSUME NEW c \in Calls
     PROVE  /\ call'[c] \in Request
            /\ \/ /\ call'[c] = call[c]
                  /\ ~(call[c].pc = "waits" /\ call[c].tab = t)
               \/ /\ call[c].pc = "waits" /\ call[c].tab = t
                  /\ \/ call'[c].pc = "failed" /\ ~call'[c].crossed
                     \/ /\ call'[c].pc = "sent" /\ call'[c].token = token
                        /\ call'[c].tab = t /\ call'[c].user = call[c].user
                        /\ call'[c].crossed = call[c].crossed
  BY DEF Resumed
<1>2. call[c] \in Request
  BY DEF TypeOK
<1>3. CASE ~(call[c].pc = "waits" /\ call[c].tab = t)
  BY <1>2, <1>3 DEF Resumed
<1>4. CASE (call[c].pc = "waits" /\ call[c].tab = t) /\ token = NoToken
  BY <1>1, <1>4 DEF Resumed, Given
<1>5. CASE (call[c].pc = "waits" /\ call[c].tab = t) /\ token # NoToken
  <2>1. call'[c] = [call[c] EXCEPT !.pc = "sent", !.token = token, !.retried = TRUE]
    BY <1>5 DEF Resumed, Given
  <2>. QED
    BY <2>1, <1>2, <1>5 DEF Request
<1>. QED
  BY <1>3, <1>4, <1>5

\* What a minted token and the calls' resumption leave of a request's invariant.
LEMMA RefreshEndsStep ==
  ASSUME SessionInv, NEW h \in Callers, h[2] # "login", NEW token \in Nat,
         RefreshEnds(h, token), Answered(h),
         issued' \in Seq(Users), \A n, v : IsTokenOf(n, v) => IsTokenOf(n, v)',
         \/ token = NoToken
         \/ token \in 1..Len(issued') /\ issued'[token] = ask[h] /\ ask[h] # Nobody,
         stored' \in {stored, Nobody}
  PROVE  /\ ask' \in [Callers -> Somebody]
         /\ \A g \in Callers : ask'[g] \in {ask[g], Nobody}
         /\ promise' \in [Tabs -> {NoPromise, Pending}]
         /\ call' \in [Calls -> Request]
         /\ PromisesAgree' /\ RequestsAgree'
<1>. USE DEF SessionInv
<1>0. NoPromise # Pending
  BY DEF NoPromise, Pending
<1>1. /\ ask' \in [Callers -> Somebody]
      /\ \A g \in Callers : ask'[g] = IF g = h THEN Nobody ELSE ask[g]
  BY DEF Answered, TypeOK, Somebody
<1>2. CASE h[2] = "shared"
  <2>. DEFINE t == h[1]
  <2>1. t \in Tabs /\ h = Shared(t)
    BY <1>2, CallerParts
  <2>2. promise' = [promise EXCEPT ![t] = NoPromise] /\ call' = Resumed(t, token)
    BY <1>2 DEF RefreshEnds, Settled
  <2>3. call' \in [Calls -> Request]
    BY <2>1, <2>2, ResumedCalls
  <2>4. promise' \in [Tabs -> {NoPromise, Pending}]
    BY <2>2 DEF TypeOK
  <2>5. PromisesAgree'
    <3>1. ASSUME NEW u \in Tabs, promise'[u] = Pending PROVE ask'[Shared(u)] # Nobody
      <4>1. u # t /\ promise[u] = Pending
        BY <2>1, <2>2, <3>1, <1>0 DEF TypeOK
      <4>. QED
        <5>1. Shared(u) # h /\ Shared(u) \in Callers
          BY <4>1, CallerParts, TabCallers
        <5>2. ask[Shared(u)] # Nobody
          BY <4>1 DEF PromisesAgree
        <5>. QED
          BY <5>1, <5>2, <1>1
    <3>2. ASSUME NEW c \in Calls, call'[c].pc = "waits" PROVE promise'[call'[c].tab] = Pending
      <4>1. call'[c] = call[c] /\ call[c].tab # t
        BY <2>1, <2>2, <3>2, ResumedCalls
      <4>2. call[c].tab \in Tabs
        BY DEF TypeOK, Request
      <4>. QED
        BY <4>1, <4>2, <2>2, <3>2 DEF PromisesAgree, TypeOK
    <3>. QED
      BY <3>1, <3>2 DEF PromisesAgree
  <2>6. ASSUME NEW c \in Calls PROVE Uncrossed(c)'
    <3>1. call[c].tab \in Tabs /\ Uncrossed(c)
      BY DEF TypeOK, Request, RequestsAgree
    <3>2. CASE call'[c] = call[c]
      BY <3>1, <3>2, <1>1, TabCallers DEF Uncrossed, InFlight
    <3>3. CASE call'[c].pc = "failed"
      BY <3>3 DEF Uncrossed, InFlight
    <3>4. CASE /\ call[c].pc = "waits" /\ call[c].tab = t
               /\ call'[c].pc = "sent" /\ call'[c].token = token
               /\ call'[c].tab = t /\ call'[c].user = call[c].user
               /\ call'[c].crossed = call[c].crossed
               /\ token # NoToken
      <4>. SUFFICES ASSUME ~call[c].crossed
           PROVE  /\ IsTokenOf(token, call[c].user)'
                  /\ stored' \in {call[c].user, Nobody}
                  /\ ask'[Shared(t)] \in {call[c].user, Nobody}
        BY <3>4 DEF Uncrossed, InFlight, IsTokenOf
      <4>1. stored \in {call[c].user, Nobody} /\ ask[h] \in {call[c].user, Nobody}
        BY <3>1, <3>4, <2>1 DEF Uncrossed, InFlight
      <4>2. call[c].user = ask[h]
        BY <4>1, <3>4
      <4>. QED
        BY <4>1, <4>2, <3>4, <1>1, <2>1 DEF IsTokenOf
    <3>5. CASE call[c].pc = "waits" /\ call[c].tab = t /\ token = NoToken
      BY <3>5, <2>2, SessionAssumption DEF Resumed, Given, Uncrossed, InFlight, Failed, NoCall
    <3>. QED
      BY <3>2, <3>3, <3>4, <3>5, <2>1, <2>2, ResumedCalls
  <2>. QED
    BY <1>1, <2>3, <2>4, <2>5, <2>6 DEF RequestsAgree
<1>3. CASE h[2] = "boot"
  <2>1. promise' = promise /\ call' = call
    BY <1>3 DEF RefreshEnds
  <2>2. \A u \in Tabs : ask'[Shared(u)] = ask[Shared(u)]
    BY <1>1, <1>3, TabCallers, CallerParts
  <2>3. PromisesAgree'
    BY <2>1, <2>2 DEF PromisesAgree
  <2>4. ASSUME NEW c \in Calls PROVE Uncrossed(c)'
    <3>1. call[c].tab \in Tabs /\ Uncrossed(c)
      BY DEF TypeOK, Request, RequestsAgree
    <3>. QED
      BY <3>1, <2>1, <2>2 DEF Uncrossed, InFlight
  <2>. QED
    BY <1>1, <2>1, <2>3, <2>4 DEF RequestsAgree, TypeOK
<1>. QED
  BY <1>2, <1>3, CallerParts

LEMMA RefreshSucceedsStep ==
  ASSUME SessionInv, NEW h \in Callers, RefreshSucceeds(h)
  PROVE  SessionInv'
<1>. USE DEF SessionInv
<1>1. ask[h] \in Users /\ ask[h] # Nobody /\ h[2] # "login"
  BY SessionAssumption DEF RefreshSucceeds, Admitted, TypeOK
<1>2. /\ issued' \in Seq(Users) /\ Minted \in Nat
      /\ \A n, v : IsTokenOf(n, v) => IsTokenOf(n, v)'
      /\ Minted \in 1..Len(issued') /\ issued'[Minted] = ask[h]
  BY <1>1, MintedToken DEF RefreshSucceeds
<1>3. /\ ask' \in [Callers -> Somebody]
      /\ promise' \in [Tabs -> {NoPromise, Pending}]
      /\ call' \in [Calls -> Request]
      /\ PromisesAgree' /\ RequestsAgree'
  BY <1>1, <1>2, RefreshEndsStep DEF RefreshSucceeds
<1>4. quiet' = -1
  BY <1>1 DEF NothingLeft, RefreshSucceeds
<1>5. h[1] \in Tabs
  BY CallerParts
<1>6. tab' \in [Tabs -> [token: Nat, principal: Somebody]]
  BY <1>1, <1>2, <1>5 DEF RefreshSucceeds, TypeOK, Somebody
<1>7. TypeOK'
  BY <1>2, <1>3, <1>6 DEF RefreshSucceeds, TypeOK
<1>8. ASSUME NEW t \in Tabs, tab'[t].principal # Nobody
      PROVE  IsTokenOf(tab[t].token, tab[t].principal)'
  <2>1. CASE t = h[1]
    BY <2>1, <1>2, <1>5 DEF RefreshSucceeds, TypeOK, IsTokenOf
  <2>2. CASE t # h[1]
    <3>1. tab'[t] = tab[t]
      BY <2>2 DEF RefreshSucceeds, TypeOK
    <3>. QED
      BY <3>1, <1>2, <1>8 DEF TabsAgree, IsTokenOf
  <2>. QED
    BY <2>1, <2>2
<1>. QED
  BY <1>3, <1>4, <1>7, <1>8 DEF NothingLeft, LogoutEndsSession, TabsAgree

LEMMA SessionLostStep ==
  ASSUME SessionInv, NEW h \in Callers, h[2] # "login", SessionLost(h)
  PROVE  SessionInv'
<1>. USE DEF SessionInv
<1>1. UNCHANGED <<issued, active, quiet>> /\ stored' = Nobody /\ NoToken \in Nat
  BY DEF SessionLost, server, NoToken
<1>2. /\ issued' \in Seq(Users)
      /\ \A n, v : IsTokenOf(n, v) => IsTokenOf(n, v)'
  BY <1>1 DEF TypeOK, IsTokenOf
<1>3. /\ ask' \in [Callers -> Somebody]
      /\ \A g \in Callers : ask'[g] \in {ask[g], Nobody}
      /\ promise' \in [Tabs -> {NoPromise, Pending}]
      /\ call' \in [Calls -> Request]
      /\ PromisesAgree' /\ RequestsAgree'
  BY <1>1, <1>2, RefreshEndsStep DEF SessionLost
<1>4. tab' = [tab EXCEPT ![h[1]] = SignedOut]
  BY DEF SessionLost
<1>5. SignedOut \in [token: Nat, principal: Somebody] /\ SignedOut.principal = Nobody
  BY DEF SignedOut, NoToken, Somebody
<1>6. TypeOK'
  BY <1>1, <1>3, <1>4, <1>5 DEF TypeOK, Somebody
<1>7. TabsAgree'
  BY <1>1, <1>4, <1>5 DEF TabsAgree, IsTokenOf, TypeOK
<1>. QED
  BY <1>1, <1>3, <1>6, <1>7 DEF NothingLeft, LogoutEndsSession

-----------------------------------------------------------------------------
(* Logins, logouts and reloads. *)

LEMMA LoginStep ==
  ASSUME SessionInv, NEW t \in Tabs, NEW u \in Users, Login(t, u)
  PROVE  SessionInv'
<1>. USE DEF SessionInv
<1>1. /\ UNCHANGED <<stored, tab, promise, call, issued, active>> /\ quiet' = -1
      /\ ask' = [ask EXCEPT ![<<t, "login">>] = u]
  BY DEF Login, Post, server
<1>2. \A v \in Tabs : ask'[Shared(v)] = ask[Shared(v)]
  BY <1>1, SharedCallersDiffer, TabCallers DEF TypeOK
<1>3. TypeOK'
  <2>1. ask' \in [Callers -> Somebody]
    BY <1>1 DEF TypeOK, Somebody
  <2>. QED
    BY <1>1, <2>1 DEF TypeOK
<1>4. TabsAgree' /\ PromisesAgree'
  BY <1>1, <1>2 DEF TabsAgree, PromisesAgree, IsTokenOf
<1>5. ASSUME NEW c \in Calls PROVE Uncrossed(c)'
  <2>1. call[c].tab \in Tabs /\ Uncrossed(c)
    BY DEF TypeOK, Request, RequestsAgree
  <2>. QED
    BY <2>1, <1>1, <1>2 DEF Uncrossed, InFlight, IsTokenOf
<1>. QED
  BY <1>1, <1>3, <1>4, <1>5 DEF NothingLeft, LogoutEndsSession, RequestsAgree

LEMMA LoginSucceedsStep ==
  ASSUME SessionInv, NEW t \in Tabs, LoginSucceeds(t)
  PROVE  SessionInv'
<1>. USE DEF SessionInv
<1>. DEFINE h == <<t, "login">>
            u == ask[h]
<1>0. h \in Callers
  BY TabCallers
<1>1. u \in Users /\ u # Nobody
  BY SessionAssumption DEF LoginSucceeds, TypeOK
<1>2. /\ issued' \in Seq(Users) /\ Minted \in Nat
      /\ \A n, v : IsTokenOf(n, v) => IsTokenOf(n, v)'
      /\ Minted \in 1..Len(issued') /\ issued'[Minted] = u
  BY <1>1, MintedToken DEF LoginSucceeds
<1>3. /\ stored' = u /\ UNCHANGED <<promise, quiet, active>>
      /\ tab' = [tab EXCEPT ![t] = [token |-> Minted, principal |-> u]]
      /\ ask' = [ask EXCEPT ![h] = Nobody]
  BY DEF LoginSucceeds, Answered
<1>4. quiet = -1
  BY <1>0, <1>1 DEF NothingLeft
<1>5. \A v \in Tabs : ask'[Shared(v)] = ask[Shared(v)]
  BY <1>3, SharedCallersDiffer, TabCallers DEF TypeOK
<1>6. ASSUME NEW c \in Calls
      PROVE  /\ call'[c] \in Request
             /\ call'[c].pc = call[c].pc /\ call'[c].tab = call[c].tab
             /\ call'[c].user = call[c].user /\ call'[c].token = call[c].token
             /\ InFlight(c) => call'[c].crossed
             /\ ~InFlight(c) => call'[c] = call[c]
  <2>1. call[c] \in Request
    BY DEF TypeOK
  <2>2. call'[c] = [call[c] EXCEPT !.crossed = call[c].crossed \/ InFlight(c)]
    BY DEF LoginSucceeds
  <2>3. call[c].crossed \in BOOLEAN /\ InFlight(c) \in BOOLEAN
    BY <2>1 DEF Request, InFlight
  <2>4. CASE InFlight(c)
    <3>1. call'[c] = [call[c] EXCEPT !.crossed = TRUE]
      BY <2>2, <2>4
    <3>. QED
      BY <3>1, <2>1, <2>4 DEF Request
  <2>5. CASE ~InFlight(c)
    <3>1. call'[c] = [call[c] EXCEPT !.crossed = call[c].crossed]
      BY <2>2, <2>3, <2>5
    <3>. QED
      BY <3>1, <2>1, <2>5 DEF Request
  <2>. QED
    BY <2>4, <2>5
<1>7. call' \in [Calls -> Request]
  BY <1>6 DEF LoginSucceeds
<1>8. TypeOK'
  BY <1>1, <1>2, <1>3, <1>7 DEF TypeOK, Somebody
<1>9. ASSUME NEW v \in Tabs, tab'[v].principal # Nobody
      PROVE  IsTokenOf(tab[v].token, tab[v].principal)'
  <2>1. CASE v = t
    BY <2>1, <1>2, <1>3 DEF TypeOK, IsTokenOf
  <2>2. CASE v # t
    <3>1. tab'[v] = tab[v]
      BY <2>2, <1>3 DEF TypeOK
    <3>. QED
      BY <3>1, <1>2, <1>9 DEF TabsAgree, IsTokenOf
  <2>. QED
    BY <2>1, <2>2
<1>10. PromisesAgree'
  <2>1. \A c \in Calls : call[c].tab \in Tabs
    BY DEF TypeOK, Request
  <2>. QED
    BY <2>1, <1>3, <1>5, <1>6 DEF PromisesAgree
<1>11. ASSUME NEW c \in Calls PROVE Uncrossed(c)'
  <2>1. CASE InFlight(c)
    BY <2>1, <1>6 DEF Uncrossed
  <2>2. CASE ~InFlight(c)
    <3>1. call'[c] = call[c] /\ Uncrossed(c)
      BY <2>2, <1>6 DEF RequestsAgree
    <3>. QED
      BY <3>1, <2>2, <1>2 DEF Uncrossed, InFlight, IsTokenOf
  <2>. QED
    BY <2>1, <2>2
<1>. QED
  BY <1>3, <1>4, <1>8, <1>9, <1>10, <1>11
     DEF NothingLeft, LogoutEndsSession, TabsAgree, RequestsAgree

LEMMA LoginFailsStep ==
  ASSUME SessionInv, NEW t \in Tabs, LoginFails(t)
  PROVE  SessionInv'
<1>. USE DEF SessionInv
<1>1. /\ UNCHANGED <<stored, tab, promise, call, issued, active, quiet>>
      /\ ask' = [ask EXCEPT ![<<t, "login">>] = Nobody]
  BY DEF LoginFails, Answered, server
<1>2. \A v \in Tabs : ask'[Shared(v)] = ask[Shared(v)]
  BY <1>1, SharedCallersDiffer, TabCallers DEF TypeOK
<1>3. TypeOK'
  BY <1>1 DEF TypeOK, Somebody
<1>4. TabsAgree' /\ PromisesAgree'
  BY <1>1, <1>2 DEF TabsAgree, PromisesAgree, IsTokenOf
<1>5. ASSUME NEW c \in Calls PROVE Uncrossed(c)'
  <2>1. call[c].tab \in Tabs /\ Uncrossed(c)
    BY DEF TypeOK, Request, RequestsAgree
  <2>. QED
    BY <2>1, <1>1, <1>2 DEF Uncrossed, InFlight, IsTokenOf
<1>6. NothingLeft' /\ LogoutEndsSession'
  BY <1>1 DEF NothingLeft, LogoutEndsSession, TypeOK
<1>. QED
  BY <1>3, <1>4, <1>5, <1>6 DEF RequestsAgree

LEMMA LogoutStep ==
  ASSUME SessionInv, NEW t \in Tabs, Logout(t)
  PROVE  SessionInv'
<1>. USE DEF SessionInv
<1>1. /\ UNCHANGED <<ask, promise, call, issued, active>>
      /\ tab' = [tab EXCEPT ![t] = SignedOut] /\ stored' = Nobody
      /\ quiet' = IF \A h \in Callers : ask[h] = Nobody THEN Len(issued) ELSE -1
  BY DEF Logout, AfterLogout, server
<1>2. SignedOut \in [token: Nat, principal: Somebody] /\ SignedOut.principal = Nobody
  BY DEF SignedOut, NoToken, Somebody
<1>3. Len(issued) \in Nat
  BY LenProperties DEF TypeOK
<1>4. TypeOK'
  BY <1>1, <1>2, <1>3 DEF TypeOK, Somebody
<1>5. TabsAgree' /\ PromisesAgree'
  BY <1>1, <1>2 DEF TabsAgree, PromisesAgree, IsTokenOf, TypeOK
<1>6. RequestsAgree'
  BY <1>1 DEF RequestsAgree, Uncrossed, InFlight, IsTokenOf
<1>7. NothingLeft' /\ LogoutEndsSession'
  BY <1>1, <1>3 DEF NothingLeft, LogoutEndsSession
<1>. QED
  BY <1>4, <1>5, <1>6, <1>7

\* A reload fails the tab's requests and forgets its promise.
LEMMA ReloadStep ==
  ASSUME SessionInv, NEW t \in Tabs, Reload(t)
  PROVE  SessionInv'
<1>. USE DEF SessionInv
<1>. DEFINE mine == {t} \X {"boot", "shared", "login"}
<1>1. /\ UNCHANGED <<stored, issued, active, quiet>>
      /\ tab' = [tab EXCEPT ![t] = SignedOut]
      /\ promise' = [promise EXCEPT ![t] = NoPromise]
      /\ call' = [c \in Calls |-> IF InFlight(c) /\ call[c].tab = t THEN Failed ELSE call[c]]
      /\ ask' = [h \in Callers |-> IF h = <<t, "boot">> THEN stored
                                   ELSE IF h \in mine THEN Nobody ELSE ask[h]]
  BY DEF Reload, server
<1>2. SignedOut \in [token: Nat, principal: Somebody] /\ SignedOut.principal = Nobody
  BY DEF SignedOut, NoToken, Somebody
<1>3. Failed \in Request /\ Failed.pc = "failed"
  BY SessionAssumption DEF Failed, NoCall, Request, Somebody, NoToken
<1>4. NoPromise # Pending
  BY DEF NoPromise, Pending
<1>5. /\ ask'[Shared(t)] = Nobody
      /\ \A u \in Tabs \ {t} : ask'[Shared(u)] = ask[Shared(u)]
  <2>1. Shared(t) \in mine /\ Shared(t) # <<t, "boot">>
    BY DEF Shared
  <2>2. \A u \in Tabs \ {t} : Shared(u) \notin mine /\ Shared(u) # <<t, "boot">>
    BY DEF Shared
  <2>. QED
    BY <1>1, <2>1, <2>2, TabCallers
<1>6. TypeOK'
  <2>1. ask' \in [Callers -> Somebody]
    BY <1>1 DEF TypeOK, Somebody
  <2>2. call' \in [Calls -> Request]
    BY <1>1, <1>3 DEF TypeOK
  <2>. QED
    BY <1>1, <1>2, <2>1, <2>2 DEF TypeOK
<1>7. TabsAgree'
  BY <1>1, <1>2 DEF TabsAgree, IsTokenOf, TypeOK
<1>8. PromisesAgree'
  <2>1. ASSUME NEW u \in Tabs, promise'[u] = Pending PROVE ask'[Shared(u)] # Nobody
    <3>1. u # t /\ promise[u] = Pending
      BY <1>1, <1>4, <2>1 DEF TypeOK
    <3>. QED
      BY <3>1, <1>5 DEF PromisesAgree
  <2>2. ASSUME NEW c \in Calls, call'[c].pc = "waits" PROVE promise'[call'[c].tab] = Pending
    <3>1. call'[c] = call[c] /\ call[c].tab # t
      BY <1>1, <1>3, <2>2 DEF InFlight
    <3>2. call[c].tab \in Tabs
      BY DEF TypeOK, Request
    <3>. QED
      BY <3>1, <3>2, <1>1, <2>2 DEF PromisesAgree, TypeOK
  <2>. QED
    BY <2>1, <2>2 DEF PromisesAgree
<1>9. ASSUME NEW c \in Calls PROVE Uncrossed(c)'
  <2>1. call[c].tab \in Tabs /\ Uncrossed(c)
    BY DEF TypeOK, Request, RequestsAgree
  <2>2. CASE InFlight(c) /\ call[c].tab = t
    <3>1. call'[c].pc = "failed"
      BY <1>1, <1>3, <2>2
    <3>. QED
      BY <3>1 DEF Uncrossed, InFlight
  <2>3. CASE ~(InFlight(c) /\ call[c].tab = t)
    <3>1. call'[c] = call[c]
      BY <1>1, <2>3
    <3>. QED
      BY <3>1, <1>1, <1>5, <2>1, <2>3 DEF Uncrossed, InFlight, IsTokenOf
  <2>. QED
    BY <2>2, <2>3
<1>10. NothingLeft' /\ LogoutEndsSession'
  BY <1>1 DEF NothingLeft, LogoutEndsSession
<1>. QED
  BY <1>6, <1>7, <1>8, <1>9, <1>10 DEF RequestsAgree

-----------------------------------------------------------------------------
(* Requests of the pages. *)

LEMMA SendStep ==
  ASSUME SessionInv, NEW c \in Calls, NEW t \in Tabs, Send(c, t)
  PROVE  SessionInv'
<1>. USE DEF SessionInv
<1>1. /\ UNCHANGED <<stored, tab, ask, promise, issued, active, quiet>>
      /\ tab[t].principal # Nobody
      /\ call' = [call EXCEPT ![c] = [NoCall EXCEPT !.pc = "sent", !.tab = t,
                    !.user = tab[t].principal, !.token = tab[t].token,
                    !.crossed = ~Unmixed(t)]]
  BY DEF Send, server
<1>2. Unmixed(t) \in BOOLEAN
  BY DEF Unmixed
<1>3. PICK mixed \in BOOLEAN : mixed = ~Unmixed(t)
  BY <1>2
<1>4. /\ call'[c] \in Request /\ call'[c].pc = "sent" /\ call'[c].tab = t
      /\ call'[c].user = tab[t].principal /\ call'[c].token = tab[t].token
      /\ call'[c].crossed = mixed
  <2>1. call'[c] = [NoCall EXCEPT !.pc = "sent", !.tab = t, !.user = tab[t].principal,
                                  !.token = tab[t].token, !.crossed = mixed]
    BY <1>1, <1>3 DEF TypeOK
  <2>2. tab[t].principal \in Somebody /\ tab[t].token \in Nat
    BY DEF TypeOK
  <2>3. call'[c] = [pc |-> "sent", tab |-> t, user |-> tab[t].principal,
                    token |-> tab[t].token, retried |-> FALSE, crossed |-> mixed]
    BY <2>1 DEF NoCall
  <2>. QED
    BY <2>2, <2>3 DEF Request
<1>5. \A d \in Calls \ {c} : call'[d] = call[d]
  BY <1>1 DEF TypeOK
<1>6. TypeOK'
  <2>1. call' \in [Calls -> Request]
    BY <1>1, <1>4, <1>5 DEF TypeOK
  <2>. QED
    BY <1>1, <2>1 DEF TypeOK
<1>7. TabsAgree' /\ PromisesAgree'
  BY <1>1, <1>4, <1>5 DEF TabsAgree, PromisesAgree, IsTokenOf
<1>8. ASSUME NEW d \in Calls PROVE Uncrossed(d)'
  <2>1. CASE d = c
    <3>. SUFFICES ASSUME ~mixed
         PROVE  /\ IsTokenOf(tab[t].token, tab[t].principal)'
                /\ stored' \in {tab[t].principal, Nobody}
                /\ ask'[Shared(t)] \in {tab[t].principal, Nobody}
      BY <2>1, <1>1, <1>4 DEF Uncrossed, InFlight, IsTokenOf
    <3>1. tab[t].principal = stored /\ ask[<<t, "shared">>] \in {Nobody, stored}
      BY <1>3 DEF Unmixed
    <3>. QED
      BY <3>1, <1>1 DEF TabsAgree, IsTokenOf, Shared
  <2>2. CASE d # c
    <3>1. call'[d] = call[d] /\ Uncrossed(d)
      BY <2>2, <1>5 DEF RequestsAgree
    <3>. QED
      BY <3>1, <1>1 DEF Uncrossed, InFlight, IsTokenOf
  <2>. QED
    BY <2>1, <2>2
<1>9. NothingLeft' /\ LogoutEndsSession'
  BY <1>1 DEF NothingLeft, LogoutEndsSession
<1>. QED
  BY <1>6, <1>7, <1>8, <1>9 DEF RequestsAgree

\* A request that is served, that fails or that begins to wait keeps all but its pc.
LEMMA RequestMoves ==
  ASSUME SessionInv, NEW c \in Calls, call[c].pc = "sent",
         UNCHANGED <<stored, ask, issued, active, quiet>>,
         tab' = tab \/ tab' = [tab EXCEPT ![call[c].tab] = SignedOut],
         promise' = promise,
         \/ call' = [call EXCEPT ![c].pc = "served"]
         \/ call' = [call EXCEPT ![c] = Failed]
         \/ call' = [call EXCEPT ![c].pc = "waits"] /\ promise[call[c].tab] = Pending
  PROVE  SessionInv'
<1>. USE DEF SessionInv
<1>1. Failed \in Request /\ Failed.pc = "failed"
  BY SessionAssumption DEF Failed, NoCall, Request, Somebody, NoToken
<1>2. SignedOut \in [token: Nat, principal: Somebody] /\ SignedOut.principal = Nobody
  BY DEF SignedOut, NoToken, Somebody
<1>3. /\ call'[c] \in Request
      /\ call'[c].pc # "failed" =>
           /\ call'[c].tab = call[c].tab /\ call'[c].user = call[c].user
           /\ call'[c].token = call[c].token /\ call'[c].crossed = call[c].crossed
      /\ call'[c].pc \in {"served", "waits", "failed"}
      /\ call'[c].pc = "waits" => promise[call[c].tab] = Pending
      /\ \A d \in Calls \ {c} : call'[d] = call[d]
      /\ call' \in [Calls -> Request]
  <2>1. call[c] \in Request
    BY DEF TypeOK
  <2>2. CASE call' = [call EXCEPT ![c] = Failed]
    BY <2>2, <1>1 DEF TypeOK
  <2>3. CASE call' = [call EXCEPT ![c].pc = "served"]
    BY <2>1, <2>3 DEF TypeOK, Request
  <2>4. CASE call' = [call EXCEPT ![c].pc = "waits"] /\ promise[call[c].tab] = Pending
    BY <2>1, <2>4 DEF TypeOK, Request
  <2>. QED
    BY <2>2, <2>3, <2>4
<1>4. TypeOK'
  BY <1>2, <1>3 DEF TypeOK
<1>5. TabsAgree'
  BY <1>2 DEF TabsAgree, IsTokenOf, TypeOK
<1>6. PromisesAgree'
  BY <1>3 DEF PromisesAgree
<1>7. ASSUME NEW d \in Calls PROVE Uncrossed(d)'
  <2>1. Uncrossed(d)
    BY DEF RequestsAgree
  <2>2. CASE d = c
    BY <2>1, <2>2, <1>3 DEF Uncrossed, InFlight, IsTokenOf
  <2>3. CASE d # c
    BY <2>1, <2>3, <1>3 DEF Uncrossed, InFlight, IsTokenOf
  <2>. QED
    BY <2>2, <2>3
<1>8. NothingLeft' /\ LogoutEndsSession'
  BY DEF NothingLeft, LogoutEndsSession
<1>. QED
  BY <1>4, <1>5, <1>6, <1>7, <1>8 DEF RequestsAgree

LEMMA JoinRefreshStep ==
  ASSUME SessionInv, NEW c \in Calls, JoinRefresh(c)
  PROVE  SessionInv'
<1>1. call[c].tab \in Tabs
  BY DEF SessionInv, TypeOK, Request
<1>2. promise[call[c].tab] = Pending
  BY <1>1 DEF JoinRefresh, SessionInv, TypeOK, NoPromise
<1>3. call' = [call EXCEPT ![c].pc = "waits"]
  BY <1>2 DEF JoinRefresh, Pending
<1>. QED
  BY <1>2, <1>3, RequestMoves DEF JoinRefresh, Unauthorized, server

LEMMA StartRefreshStep ==
  ASSUME SessionInv, NEW c \in Calls, StartRefresh(c)
  PROVE  SessionInv'
<1>. USE DEF SessionInv
<1>. DEFINE t == call[c].tab
<1>0. call[c] \in Request /\ t \in Tabs /\ NoPromise # Pending
  BY DEF TypeOK, Request, NoPromise, Pending
<1>1. /\ UNCHANGED <<stored, tab, issued, active, quiet>> /\ stored # Nobody
      /\ call[c].pc = "sent" /\ call' = [call EXCEPT ![c].pc = "waits"]
      /\ promise' = [promise EXCEPT ![t] = Pending]
      /\ ask' = [ask EXCEPT ![Shared(t)] = stored]
  BY DEF StartRefresh, Unauthorized, Post, server, Shared
<1>2. /\ ask'[Shared(t)] = stored
      /\ \A u \in Tabs \ {t} : ask'[Shared(u)] = ask[Shared(u)]
  BY <1>0, <1>1, SharedCallersDiffer, TabCallers DEF TypeOK
<1>3. /\ call' \in [Calls -> Request]
      /\ call'[c].pc = "waits" /\ call'[c].tab = t /\ call'[c].user = call[c].user
      /\ call'[c].token = call[c].token /\ call'[c].crossed = call[c].crossed
      /\ \A d \in Calls \ {c} : call'[d] = call[d]
  BY <1>0, <1>1 DEF TypeOK, Request
<1>4. TypeOK'
  <2>1. ask' \in [Callers -> Somebody]
    BY <1>1 DEF TypeOK
  <2>2. promise' \in [Tabs -> {NoPromise, Pending}]
    BY <1>1 DEF TypeOK
  <2>. QED
    BY <1>1, <1>3, <2>1, <2>2 DEF TypeOK
<1>5. TabsAgree'
  BY <1>1 DEF TabsAgree, IsTokenOf
<1>6. PromisesAgree'
  <2>1. ASSUME NEW u \in Tabs, promise'[u] = Pending PROVE ask'[Shared(u)] # Nobody
    BY <1>1, <1>2, <2>1 DEF PromisesAgree, TypeOK
  <2>2. ASSUME NEW d \in Calls, call'[d].pc = "waits" PROVE promise'[call'[d].tab] = Pending
    <3>1. call'[d].tab = call[d].tab /\ call[d].tab \in Tabs
      BY <1>3 DEF TypeOK, Request
    <3>2. d # c => promise[call[d].tab] = Pending
      BY <1>3, <2>2 DEF PromisesAgree
    <3>. QED
      BY <3>1, <3>2, <1>1 DEF TypeOK
  <2>. QED
    BY <2>1, <2>2 DEF PromisesAgree
<1>7. ASSUME NEW d \in Calls PROVE Uncrossed(d)'
  <2>1. Uncrossed(d) /\ call[d].tab \in Tabs
    BY DEF RequestsAgree, TypeOK, Request
  <2>2. CASE d = c
    BY <2>1, <2>2, <1>1, <1>2, <1>3 DEF Uncrossed, InFlight, IsTokenOf
  <2>3. CASE d # c
    <3>1. call'[d] = call[d]
      BY <2>3, <1>3
    <3>. QED
      BY <3>1, <2>1, <1>1, <1>2 DEF Uncrossed, InFlight, IsTokenOf
  <2>. QED
    BY <2>2, <2>3
<1>8. quiet = -1
  BY <1>1 DEF NothingLeft
<1>. QED
  BY <1>1, <1>4, <1>5, <1>6, <1>7, <1>8
     DEF NothingLeft, LogoutEndsSession, RequestsAgree

LEMMA FetchStep ==
  ASSUME SessionInv, NEW c \in Calls, Fetch(c)
  PROVE  SessionInv'
<1>1. CASE Serve(c)
  BY <1>1, RequestMoves DEF Serve, server, SessionInv
<1>2. CASE Fail(c)
  BY <1>2, RequestMoves DEF Fail, Unauthorized, server, SessionInv
<1>3. CASE JoinRefresh(c)
  BY <1>3, JoinRefreshStep
<1>4. CASE StartRefresh(c)
  BY <1>4, StartRefreshStep
<1>5. CASE NothingToRefresh(c)
  BY <1>5, RequestMoves DEF NothingToRefresh, Unauthorized, server, SessionInv
<1>. QED
  BY <1>1, <1>2, <1>3, <1>4, <1>5 DEF Fetch

-----------------------------------------------------------------------------
(* All steps. *)

\* Time, faults, the limiter and a deactivation disturb nothing of it.
LEMMA QuietStep ==
  ASSUME SessionInv, UNCHANGED <<browser, issued>>, active' \subseteq active
  PROVE  SessionInv'
<1>. USE DEF SessionInv, browser
<1>1. TypeOK'
  BY DEF TypeOK
<1>2. TabsAgree' /\ PromisesAgree' /\ NothingLeft' /\ LogoutEndsSession'
  BY DEF TabsAgree, PromisesAgree, NothingLeft, LogoutEndsSession, IsTokenOf
<1>3. RequestsAgree'
  BY DEF RequestsAgree, Uncrossed, InFlight, IsTokenOf
<1>. QED
  BY <1>1, <1>2, <1>3

LEMMA AnswerStep ==
  ASSUME SessionInv, NEW h \in Callers, Answer(h)
  PROVE  SessionInv'
<1>1. CASE Limiter(h)
  BY <1>1, QuietStep DEF Limiter, server
<1>2. CASE RefreshSucceeds(h)
  BY <1>2, RefreshSucceedsStep
<1>3. CASE RefreshFails(h)
  BY <1>3, SessionLostStep DEF RefreshFails
<1>4. CASE RefreshRefused(h)
  BY <1>4, SessionLostStep DEF RefreshRefused, Admitted
<1>5. CASE LoginSucceeds(h[1])
  BY <1>5, LoginSucceedsStep, CallerParts
<1>6. CASE LoginFails(h[1])
  BY <1>6, LoginFailsStep, CallerParts
<1>. QED
  BY <1>1, <1>2, <1>3, <1>4, <1>5, <1>6 DEF Answer

LEMMA SessionNext == SessionInv /\ [Next]_vars => SessionInv'
<1>. SUFFICES ASSUME SessionInv, [Next]_vars PROVE SessionInv'
  OBVIOUS
<1>1. ASSUME NEW h \in Callers, Answer(h) \/ LimiterFault(h) PROVE SessionInv'
  BY <1>1, AnswerStep, QuietStep DEF LimiterFault, server
<1>2. ASSUME NEW c \in Calls, Fetch(c) \/ \E t \in Tabs : Send(c, t) PROVE SessionInv'
  BY <1>2, FetchStep, SendStep
<1>3. ASSUME NEW t \in Tabs, Logout(t) \/ Reload(t) \/ \E u \in Users : Login(t, u)
      PROVE  SessionInv'
  BY <1>3, LogoutStep, ReloadStep, LoginStep
<1>4. CASE \E u \in Leavers : Deactivate(u)
  BY <1>4, QuietStep DEF Deactivate
<1>5. CASE TokenExpires
  BY <1>5, QuietStep DEF TokenExpires
<1>6. CASE Window
  BY <1>6, QuietStep DEF Window, server
<1>7. CASE UNCHANGED vars
  BY <1>7, QuietStep DEF vars, server
<1>. QED
  BY <1>1, <1>2, <1>3, <1>4, <1>5, <1>6, <1>7 DEF Next

LEMMA SessionInvariant == Spec => []SessionInv
BY SessionInit, SessionNext, PTL DEF Spec

\* logout: one that finds no login or refresh under way in any tab is final, with any
\* number of tabs, requests, reloads and expiring tokens after it.
THEOREM LogoutIsFinal == Spec => []LogoutEndsSession
<1>1. SessionInv => LogoutEndsSession
  BY DEF SessionInv
<1>. QED
  BY <1>1, SessionInvariant, PTL

\* apiFetch: a request that is served, retried or not, is served as the user whose page
\* sent it, however many requests share one refresh, unless a login crossed it.
THEOREM ServedAsItsSender == Spec => []ServedAsSender
<1>1. SessionInv => ServedAsSender
  BY DEF SessionInv, RequestsAgree, Uncrossed, ServedAsSender, IsTokenOf
<1>. QED
  BY <1>1, SessionInvariant, PTL

=============================================================================

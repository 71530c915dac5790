---------------------------- MODULE PanelSession ----------------------------
(***************************************************************************)
(* One browser tab and the tokens it lives on: the interceptor that adds   *)
(* the access token, refreshes it once after a 401 and sends the request   *)
(* again; the storage and the signals of a session; the guards of the      *)
(* routes (frontend/src/app/core/auth) and, on the server, login, refresh  *)
(* and the middleware (backend/internal/auth, auth_handlers.go).           *)
(*                                                                         *)
(* A step is what runs between two awaits: the answers of login, requests  *)
(* and refresh come in any order with what the user does meanwhile.  A     *)
(* token is the number of the pair it was issued with, 0 if there is none; *)
(* claims never change, so the number tells its user.                      *)
(***************************************************************************)
EXTENDS Sequences, Naturals

CONSTANTS
  Users,     \* administrators and managers
  Admins,    \* those of panel_admins
  Calls,     \* requests that components make, one after the other
  Nobody,    \* no user
  MaxPairs   \* bound: pairs of tokens issued

NoRole == "none"
Roles  == {"admin", "manager"}
RoleOf(u) == IF u \in Admins THEN "admin" ELSE "manager"

Pages == {"login", "home", "admin"}   \* home: the routes under ''
Shown == Pages \union {"none"}

ASSUME SessionAssumption ==
  /\ Admins \subseteq Users /\ Nobody \notin Users
  /\ MaxPairs \in Nat

VARIABLES
  issued,        \* the user of each pair; on the server
  accessFrom,    \* the access tokens from this pair on have not expired
  disabled,      \* managers with is_active = 0
  store,         \* sessionStorage
  role, loggedIn,  \* the signals of AuthService
  page, goal,    \* the route shown, and the one navigated to
  call,          \* the requests
  refreshing,    \* refreshInFlight: the refresh token that was sent
  loggingIn,     \* whose login is being answered
  user,          \* history: who has logged in and not logged out
  stray          \* history: see Overtake

server  == <<issued, accessFrom, disabled>>
signals == <<role, loggedIn>>
route   == <<page, goal>>
vars == <<server, store, signals, route, call, refreshing, loggingIn, user,
          stray>>

Tokens == 0..Len(issued)
Store  == [access : Tokens, refresh : Tokens, role : Roles \union {NoRole}]
NoSession == [access |-> 0, refresh |-> 0, role |-> NoRole]

\* typed: a search that waits for the end of the typing.  History: by, in whose
\* session it was sent; astray, it was sent with tokens that a stray refresh had left,
\* or joined a refresh of a session that was not, or no longer, its own.
Call == [st : {"idle", "typed", "sent", "waiting", "retried"},
         token : Tokens, by : Users \union {Nobody}, astray : BOOLEAN]
NoCall == [st |-> "idle", token |-> 0, by |-> Nobody, astray |-> FALSE]

\* A refresh is sent only for requests that wait for it; a tab without a session
\* has neither of the tokens nor a role.
TypeOK ==
  /\ issued \in Seq(Users) /\ Len(issued) <= MaxPairs
  /\ accessFrom \in 1..Len(issued) + 1
  /\ disabled \subseteq Users \ Admins
  /\ store \in Store
  /\ (store.access = 0) = (store.refresh = 0)
  /\ role \in Roles \union {NoRole} /\ loggedIn \in BOOLEAN
  /\ page \in Shown /\ goal \in Shown
  /\ call \in [Calls -> Call]
  /\ refreshing \in Tokens
  /\ refreshing # 0 <=> \E c \in Calls : call[c].st = "waiting"
  /\ loggingIn \in Users \union {Nobody}
  /\ user \in Users \union {Nobody}
  /\ stray \subseteq {"refresh", "tokens"}

----------------------------------------------------------------------------
(* The server: NewPair, Parse, and that time passes.                       *)

Pair == Len(issued) + 1   \* the next pair

NewPair(u) ==
  /\ Len(issued) < MaxPairs
  /\ issued' = Append(issued, u)
  /\ UNCHANGED <<accessFrom, disabled>>

\* The middleware; "Bearer null" and no header are refused as well.
Accepted(token) == token # 0 /\ token >= accessFrom

\* Time passes.  A request under way with a token that has expired is one
\* without.
Expire ==
  /\ accessFrom <= Len(issued)
  /\ accessFrom' = accessFrom + 1
  /\ call' = [c \in Calls |-> [call[c] EXCEPT
                !.token = IF @ = accessFrom THEN 0 ELSE @]]
  /\ UNCHANGED <<issued, disabled, store, signals, route, refreshing, loggingIn,
                 user, stray>>

\* An administrator, elsewhere, disables or enables a manager.
SetActive ==
  /\ \E u \in Users \ Admins :
       disabled' = IF u \in disabled THEN disabled \ {u} ELSE disabled \union {u}
  /\ UNCHANGED <<issued, accessFrom, store, signals, route, call,
                 refreshing, loggingIn, user, stray>>

----------------------------------------------------------------------------
(* History: what a logout or another login has overtaken.                  *)

\* "refresh": the refresh in flight was begun in a session that has ended;
\* "tokens": what such a refresh has stored is still there.
Overtake == stray' = IF refreshing # 0 THEN {"refresh"} ELSE {}

----------------------------------------------------------------------------
(* Login and logout.                                                       *)

\* The form of the login page; it sends one login at a time.
Login(u) ==
  /\ page = "login" /\ loggingIn = Nobody
  /\ loggingIn' = u
  /\ UNCHANGED <<server, store, signals, route, call, refreshing, user, stray>>

\* Mutant of Saved: the role stays what it was, if there was one.
SavedKeepsRole(old, u) ==
  [access |-> Pair, refresh |-> Pair,
   role |-> IF old.role = NoRole THEN RoleOf(u) ELSE old.role]
\* saveSession.
Saved(old, u) == [access |-> Pair, refresh |-> Pair, role |-> RoleOf(u)]

HomeOf(r) == IF r = "admin" THEN "admin" ELSE "home"

LoginAnswered ==
  /\ loggingIn # Nobody
  /\ loggingIn' = Nobody
  /\ \/ /\ loggingIn \notin disabled
        /\ NewPair(loggingIn)
        /\ store' = Saved(store, loggingIn)
        /\ role' = RoleOf(loggingIn) /\ loggedIn' = TRUE
        /\ user' = loggingIn
        /\ goal' = HomeOf(RoleOf(loggingIn)) /\ UNCHANGED page
        /\ Overtake
     \/ UNCHANGED <<server, store, signals, route, user, stray>>
  /\ UNCHANGED <<call, refreshing>>

\* Mutant of Cleared: only the role is removed.
ClearedRole(old) == [old EXCEPT !.role = NoRole]
\* clearSession.
Cleared(old) == NoSession

\* The answer to POST /auth/logout is not waited for, and changes nothing.
Logout ==
  /\ page \in {"home", "admin"} /\ loggedIn
  /\ store' = Cleared(store)
  /\ role' = NoRole /\ loggedIn' = FALSE
  /\ goal' = "login" /\ UNCHANGED page
  /\ user' = Nobody
  /\ Overtake
  /\ UNCHANGED <<server, call, refreshing, loggingIn>>

----------------------------------------------------------------------------
(* The interceptor.                                                        *)

End(c) == call' = [call EXCEPT ![c] = NoCall]

Same == UNCHANGED <<server, signals, route, loggingIn, user>>

InFlight(c) == call[c].st \in {"sent", "waiting", "retried"}

\* debounceTime: the subscription of the search outlives its page.
Type(c) ==
  /\ call[c].st = "idle" /\ page \in {"home", "admin"}
  /\ call' = [call EXCEPT ![c].st = "typed"]
  /\ UNCHANGED <<store, refreshing, stray>> /\ Same

\* A component sends a request with the token of the storage; it may do so until the
\* router has left its page, a search also later.  It is carried out if it has a token.
Send(c) ==
  /\ \/ call[c].st = "idle" /\ page \in {"home", "admin"}
     \/ call[c].st = "typed"
  /\ call' = [call EXCEPT ![c] =
       [st |-> "sent",
        token |-> IF Accepted(store.access) THEN store.access ELSE 0,
        by |-> user, astray |-> "tokens" \in stray]]
  /\ UNCHANGED <<store, refreshing, stray>> /\ Same

\* The request was carried out or not, and the answer is not a 401, or it is
\* INVALID_CURRENT_PASSWORD, or the connection fails.
Answered(c) ==
  /\ call[c].st \in {"sent", "retried"}
  /\ End(c)
  /\ UNCHANGED <<store, refreshing, stray>> /\ Same

Waiting(r) ==
  [r EXCEPT !.st = "waiting", !.token = 0, !.astray = @ \/ r.by # user \/ stray # {}]

\* Mutant of Joins: the request waits for a refresh that nobody sends.
JoinsAlways == TRUE
Joins == refreshing # 0 \/ store.refresh # 0

\* A 401: the request waits for the refresh in flight or for a new one; without a
\* refresh token the session is cleared.
Rejected(c) ==
  /\ call[c].st = "sent" /\ call[c].token = 0
  /\ \/ /\ Joins
        /\ refreshing' = IF refreshing # 0 THEN refreshing ELSE store.refresh
        /\ call' = [call EXCEPT ![c] = Waiting(@)] /\ UNCHANGED store
     \/ /\ ~Joins
        /\ store' = Cleared(store)
        /\ End(c) /\ UNCHANGED refreshing
  /\ UNCHANGED stray /\ Same

\* Mutant of AfterRetry: a second 401 clears the session.
AfterRetryCleared(old) == NoSession
AfterRetry(old) == old

\* The retry does not pass the interceptor: its 401 is an error.
RejectedAgain(c) ==
  /\ call[c].st = "retried" /\ call[c].token = 0
  /\ End(c)
  /\ store' = AfterRetry(store)
  /\ UNCHANGED <<refreshing, stray>> /\ Same

Waits(c) == call[c].st = "waiting"

Retried(r) == [r EXCEPT !.st = "retried", !.token = Pair]

\* The token has not expired, and HandleRefresh issues a pair with its claims,
\* whatever the store says of the user.  saveTokens; the requests that wait are
\* sent again with the new token.
Refreshed ==
  /\ refreshing # 0
  /\ NewPair(issued[refreshing])
  /\ store' = [store EXCEPT !.access = Pair, !.refresh = Pair]
  /\ call' = [c \in Calls |->
                IF Waits(c) THEN Retried(call[c]) ELSE call[c]]
  /\ refreshing' = 0
  /\ stray' = IF "refresh" \in stray THEN {"tokens"} ELSE stray
  /\ UNCHANGED <<signals, route, loggingIn, user>>

\* It has expired, or the connection failed: each of the requests that wait
\* clears the session.
RefreshFailed ==
  /\ refreshing # 0
  /\ store' = Cleared(store)
  /\ call' = [c \in Calls |-> IF Waits(c) THEN NoCall ELSE call[c]]
  /\ refreshing' = 0
  /\ stray' = {}
  /\ Same

----------------------------------------------------------------------------
(* The routes.                                                             *)

\* Mutant of Home: the two are swapped.
HomeSwapped == IF role = "admin" THEN "home" ELSE "admin"
\* homeRoute.
Home == IF role = "admin" THEN "admin" ELSE "home"

\* guestGuard; authGuard with managerGuard or adminGuard.
Passes(url) ==
  CASE url = "login" -> ~loggedIn
    [] url = "home"  -> loggedIn /\ role = "manager"
    [] url = "admin" -> loggedIn /\ role = "admin"

\* Where they send a navigation that may not pass.
Redirect(url) ==
  CASE url = "login"             -> Home
    [] url # "login" /\ ~loggedIn -> "login"
    [] url = "home" /\ loggedIn    -> "admin"
    [] url = "admin" /\ loggedIn   -> Home

Navigate ==
  /\ goal # "none"
  /\ \/ Passes(goal) /\ page' = goal /\ goal' = "none"
     \/ ~Passes(goal) /\ goal' = Redirect(goal) /\ UNCHANGED page
  /\ UNCHANGED <<server, store, signals, call, refreshing, loggingIn, user, stray>>

\* A link; the user waits for the page.
Visit ==
  /\ page # "none" /\ goal = "none"
  /\ goal' \in Pages \ {page}
  /\ UNCHANGED <<server, store, signals, page, call, refreshing, loggingIn, user,
                 stray>>

\* The page is loaded again, or a URL typed in: only sessionStorage stays.
Reload ==
  /\ page # "none" /\ goal = "none"
  /\ page' = "none" /\ goal' \in Pages
  /\ role' = store.role /\ loggedIn' = (store.access # 0)
  /\ call' = [c \in Calls |-> NoCall]
  /\ refreshing' = 0 /\ loggingIn' = Nobody
  /\ user' = IF store.access = 0 THEN Nobody ELSE user
  /\ stray' = stray \ {"refresh"}
  /\ UNCHANGED <<server, store>>

----------------------------------------------------------------------------
Init ==
  /\ issued = <<>> /\ accessFrom = 1 /\ disabled = {}
  /\ store = NoSession /\ role = NoRole /\ loggedIn = FALSE
  /\ page = "none" /\ goal \in Pages
  /\ call = [c \in Calls |-> NoCall]
  /\ refreshing = 0 /\ loggingIn = Nobody
  /\ user = Nobody /\ stray = {}

Reply(c) == Answered(c) \/ Rejected(c) \/ RejectedAgain(c)
RefreshAnswered == Refreshed \/ RefreshFailed

Next ==
  \/ Expire \/ SetActive
  \/ \E u \in Users : Login(u)
  \/ LoginAnswered \/ Logout
  \/ \E c \in Calls : Type(c) \/ Send(c) \/ Reply(c)
  \/ RefreshAnswered
  \/ Navigate \/ Visit \/ Reload

Spec == Init /\ [][Next]_vars

\* Requests are answered or given up by the browser, and the router goes on.
FairSpec ==
  /\ Spec
  /\ \A c \in Calls : WF_vars(Reply(c))
  /\ WF_vars(RefreshAnswered) /\ WF_vars(Navigate)

----------------------------------------------------------------------------
(* Properties.                                                             *)

\* The tokens, the role beside them and the signals are of the user who has
\* logged in, and a tab whose user has logged out keeps nothing; but for what a
\* refresh leaves that a logout or another login has overtaken.
SessionMatches ==
  "tokens" \notin stray =>
    /\ store.access # 0 => /\ loggedIn /\ user # Nobody
                           /\ issued[store.access] = user
                           /\ issued[store.refresh] = user
                           /\ store.role = RoleOf(user)
    /\ loggedIn => user # Nobody /\ role = RoleOf(user)

\* A request is carried out as the user in whose session it was sent, whoever has
\* logged out and in while it was sent, waited and was sent again; unless its 401 came
\* after the end of that session, or it used what a stray refresh left or will leave.
RanAsSender ==
  \A c \in Calls : call[c].token # 0 /\ ~call[c].astray =>
                     issued[call[c].token] = call[c].by

\* Nobody loses a session but by logging out or because its own refresh failed:
\* a late answer to a request does not end it.
SessionKept ==
  [][store.access # 0 /\ store'.access = 0 =>
       \/ loggedIn /\ ~loggedIn'
       \/ refreshing = store.refresh \/ "refresh" \in stray]_vars

\* Every request is answered, those that wait for a refresh included.
CallsEnd == \A c \in Calls : []<>~InFlight(c)

\* The guards do not send a navigation round in circles, unless a stray refresh
\* has left tokens without a role.
PanelSettles == []<>(goal = "none" \/ "tokens" \in stray)

\* A disabled manager's old token opens nothing.
DisabledBlocked ==
  \A c \in Calls : call[c].token # 0 =>
                     issued[call[c].token] \notin disabled
=============================================================================

------------------------- MODULE PanelSessionProofs -------------------------
(***************************************************************************)
(* Proofs about PanelSession: for any number of users, requests and pairs  *)
(* of tokens, the session in the storage is that of the user, requests run *)
(* as their sender and a session ends only for a reason of its own.        *)
(***************************************************************************)
EXTENDS PanelSession, TLAPS

\* Only one of the two remains, and a stray refresh is in flight.
OneStray ==
  /\ stray # {"refresh", "tokens"}
  /\ "refresh" \in stray => refreshing # 0

\* A refresh that is not stray was begun with the tokens that are still stored; it
\* does not end while another user has none.
RefreshOfStore ==
  refreshing # 0 =>
    /\ "refresh" \notin stray => store.refresh = refreshing
    /\ user # Nobody => store.access # 0

\* A tab that shows a session nobody has logged in to has no page and no role, and
\* makes no requests.
OrphanedTab ==
  loggedIn =>
    IF user = Nobody THEN /\ page = "none" /\ role = NoRole
                          /\ \A c \in Calls : call[c].st = "idle"
                     ELSE role = RoleOf(user)

\* The stored role is that of the user also beside stray tokens.
StoredRole ==
  store.role = IF store.access = 0 \/ user = Nobody THEN NoRole ELSE RoleOf(user)

\* Only a request under way has a token.
Unsent ==
  \A c \in Calls : call[c].st \in {"idle", "typed", "waiting"} => call[c].token = 0

\* The refresh that a request waits for is of the session that it was sent in.
WaitsForOwn ==
  \A c \in Calls : call[c].st = "waiting" /\ ~call[c].astray =>
                     issued[refreshing] = call[c].by

Inv == /\ TypeOK /\ SessionMatches /\ RanAsSender /\ WaitsForOwn /\ Unsent
       /\ OneStray /\ RefreshOfStore /\ OrphanedTab /\ StoredRole

----------------------------------------------------------------------------
LEMMA Names ==
  /\ Nobody \notin Users /\ Admins \subseteq Users
  /\ \A u : RoleOf(u) \in Roles /\ RoleOf(u) # NoRole
BY SessionAssumption DEF RoleOf, Roles, NoRole

LEMMA Issue ==
  ASSUME TypeOK, NEW u \in Users, NewPair(u)
  PROVE  /\ issued' \in Seq(Users)
         /\ Len(issued') = Len(issued) + 1 /\ Len(issued') <= MaxPairs
         /\ Len(issued) \in Nat
         /\ \A i \in 1..Len(issued) : issued'[i] = issued[i]
         /\ issued'[Pair] = u /\ Pair \in 1..Len(issued') /\ Pair # 0
         /\ accessFrom' \in 1..Len(issued') + 1
BY SessionAssumption DEF TypeOK, NewPair, Pair

\* The requests if there are n pairs.
CallsUpTo(n) ==
  [st : {"idle", "typed", "sent", "waiting", "retried"}, token : 0..n,
   by : Users \union {Nobody}, astray : BOOLEAN]

\* What is known of the requests.
Requests ==
  /\ call \in [Calls -> Call]
  /\ \A c \in Calls : /\ call[c].st \in {"idle", "typed", "sent", "waiting", "retried"}
                      /\ call[c].token \in 0..Len(issued)
                      /\ call[c].by \in Users \union {Nobody}
                      /\ call[c].astray \in BOOLEAN

\* A new pair changes nothing about the requests.
LEMMA Untouched ==
  ASSUME Inv, UNCHANGED <<call, refreshing>>, Len(issued') >= Len(issued),
         Len(issued') \in Nat, \A i \in 1..Len(issued) : issued'[i] = issued[i]
  PROVE  Requests' /\ RanAsSender' /\ WaitsForOwn' /\ Unsent'
<1>1. \A c \in Calls : call[c] \in CallsUpTo(Len(issued)) /\ Len(issued) \in Nat
  BY DEF Inv, TypeOK, Call, Tokens, CallsUpTo
<1>2. \A c \in Calls : call[c] \in CallsUpTo(Len(issued'))
  BY <1>1 DEF CallsUpTo
<1>3. call' \in [Calls -> CallsUpTo(Len(issued'))]
  BY <1>2 DEF Inv, TypeOK
<1>4. Requests'
  BY <1>2, <1>3 DEF Requests, Call, Tokens, CallsUpTo
<1>5. /\ \A c \in Calls : call[c].token \in 0..Len(issued)
      /\ \A c \in Calls : call[c].st = "waiting" => refreshing \in 1..Len(issued)
  BY <1>1 DEF Inv, TypeOK, Tokens, CallsUpTo
<1>6. RanAsSender' /\ WaitsForOwn' /\ Unsent'
  BY <1>1, <1>5 DEF Inv, RanAsSender, WaitsForOwn, Unsent
<1>. QED BY <1>4, <1>6

\* The answers of a refresh reach the requests that wait, and no others.
LEMMA Resumed ==
  ASSUME TypeOK, refreshing # 0, Refreshed
  PROVE  /\ Requests'
         /\ \A c \in Calls :
              IF call[c].st = "waiting"
              THEN /\ call'[c].st = "retried" /\ call'[c].token = Pair
                   /\ call'[c].by = call[c].by /\ call'[c].astray = call[c].astray
              ELSE call'[c] = call[c]
         /\ \A c \in Calls : call'[c].st # "waiting"
         /\ issued' = Append(issued, issued[refreshing]) /\ Len(issued) < MaxPairs
<1>1. issued[refreshing] \in Users
  BY DEF TypeOK, Tokens
<1>2. NewPair(issued[refreshing])
  BY DEF Refreshed
<1>3. Len(issued') = Len(issued) + 1 /\ Len(issued) \in Nat /\ Pair = Len(issued')
  BY <1>1, <1>2, Issue DEF Pair
<1>4. call' = [c \in Calls |-> IF call[c].st = "waiting"
                               THEN Retried(call[c]) ELSE call[c]]
  BY DEF Refreshed, Waits
<1>5. \A c \in Calls : call[c] \in CallsUpTo(Len(issued))
  BY DEF TypeOK, Call, Tokens, CallsUpTo
<1>6. ASSUME NEW c \in Calls, call[c].st = "waiting"
      PROVE  /\ call'[c].st = "retried" /\ call'[c].token = Pair
             /\ call'[c].by = call[c].by /\ call'[c].astray = call[c].astray
             /\ call'[c] \in CallsUpTo(Len(issued'))
  <2>1. call'[c] = [call[c] EXCEPT !.st = "retried", !.token = Pair]
    BY <1>4, <1>6 DEF Retried
  <2>2. Pair \in 0..Len(issued')
    BY <1>3
  <2>4. /\ call'[c].st = "retried" /\ call'[c].token = Pair
        /\ call'[c].by = call[c].by /\ call'[c].astray = call[c].astray
    BY <1>5, <2>1 DEF CallsUpTo
  <2>5. call'[c] \in CallsUpTo(Len(issued'))
    BY <1>5, <2>1, <2>2 DEF CallsUpTo
  <2>. QED BY <2>4, <2>5
<1>7. ASSUME NEW c \in Calls, call[c].st # "waiting"
      PROVE  /\ call'[c] = call[c]
             /\ call'[c] \in CallsUpTo(Len(issued'))
  BY <1>3, <1>4, <1>5, <1>7 DEF CallsUpTo
<1>8. Requests'
  BY <1>4, <1>6, <1>7 DEF Requests, Call, Tokens, CallsUpTo
<1>. QED BY <1>2, <1>6, <1>7, <1>8 DEF NewPair

LEMMA Rejection ==
  ASSUME TypeOK, NEW c \in Calls, Rejected(c)
  PROVE  /\ Requests'
         /\ \A d \in Calls \ {c} : call'[d] = call[d]
         /\ call'[c].token = 0
         /\ call[c].st = "sent" /\ UNCHANGED <<issued, user>>
         /\ call'[c].st = IF Joins THEN "waiting" ELSE "idle"
         /\ Joins /\ ~call'[c].astray =>
              call'[c].by = user /\ stray = {} /\ ~call[c].astray
<1>1. issued' = issued /\ Len(issued) \in Nat
  BY DEF TypeOK, Rejected, Same, server
<1>8. user' = user
  BY DEF Rejected, Same
<1>2. \A d \in Calls : call[d] \in CallsUpTo(Len(issued))
  BY DEF TypeOK, Call, Tokens, CallsUpTo
<1>3. call' = [call EXCEPT ![c] = IF Joins THEN Waiting(@) ELSE NoCall]
  BY DEF Rejected, End
<1>4. DOMAIN call = Calls
  BY DEF TypeOK
<1>5. /\ call'[c].token = 0 /\ call'[c].st = IF Joins THEN "waiting" ELSE "idle"
      /\ call'[c] \in CallsUpTo(Len(issued))
      /\ Joins /\ ~call'[c].astray =>
           call'[c].by = user /\ stray = {} /\ ~call[c].astray
  <2>1. CASE Joins
    <3>1. call'[c] = [call[c] EXCEPT !.st = "waiting", !.token = 0,
                        !.astray = @ \/ call[c].by # user \/ stray # {}]
      BY <1>3, <1>4, <2>1 DEF Waiting
    <3>2. 0 \in 0..Len(issued)
      BY <1>1
    <3>. QED BY <1>2, <2>1, <3>1, <3>2 DEF CallsUpTo
  <2>2. CASE ~Joins
    <3>1. call'[c] = NoCall
      BY <1>3, <1>4, <2>2
    <3>. QED BY <1>1, <2>2, <3>1 DEF NoCall, CallsUpTo
  <2>. QED BY <2>1, <2>2
<1>6. \A d \in Calls \ {c} : call'[d] = call[d]
  BY <1>3, <1>4
<1>7. Requests'
  BY <1>1, <1>2, <1>3, <1>4, <1>5, <1>6 DEF Requests, Call, Tokens, CallsUpTo
<1>. QED BY <1>1, <1>5, <1>6, <1>7, <1>8 DEF Rejected

LEMMA ExpireInv ==
  ASSUME Inv, Expire
  PROVE  Inv'
<1>1. TypeOK'
  <2>1. /\ Len(issued) \in Nat /\ issued' = issued /\ accessFrom' \in 1..Len(issued) + 1
        /\ UNCHANGED <<disabled, store, signals, route, refreshing, loggingIn, user, stray>>
    BY DEF Inv, TypeOK, Expire
  <2>2. \A c \in Calls : call[c] \in CallsUpTo(Len(issued))
    BY DEF Inv, TypeOK, Call, CallsUpTo, Tokens
  <2>3. \A c \in Calls :
          /\ call'[c].st = call[c].st
          /\ call'[c] \in CallsUpTo(Len(issued))
    BY <2>1, <2>2 DEF Expire, CallsUpTo
  <2>4. call' \in [Calls -> Call']
    BY <2>1, <2>3 DEF Expire, Call, CallsUpTo, Tokens
  <2>. QED BY <2>1, <2>3, <2>4 DEF Inv, TypeOK, Tokens, Store, signals, route
<1>2. SessionMatches'
  BY DEF Inv, SessionMatches, Expire, signals
<1>3. RanAsSender' /\ WaitsForOwn' /\ Unsent'
  BY Names DEF Inv, TypeOK, Call, Tokens, RanAsSender, WaitsForOwn, Unsent, Expire
<1>4. OneStray' /\ RefreshOfStore'
  BY DEF Inv, OneStray, RefreshOfStore, Expire
<1>5. OrphanedTab' /\ StoredRole'
  BY Names
     DEF Inv, TypeOK, Call, Tokens, OrphanedTab, StoredRole, Expire, signals, route
<1>. QED BY <1>1, <1>2, <1>3, <1>4, <1>5 DEF Inv

LEMMA SetActiveInv ==
  ASSUME Inv, SetActive
  PROVE  Inv'
<1>1. TypeOK'
  BY DEF Inv, TypeOK, Tokens, Store, Call, Shown, Pages, Roles, Unsent, NoRole,
     SetActive, signals, route
<1>2. SessionMatches'
  BY DEF Inv, SessionMatches, SetActive, signals
<1>3. RanAsSender' /\ WaitsForOwn' /\ Unsent'
  BY DEF Inv, RanAsSender, WaitsForOwn, Unsent, SetActive
<1>4. OneStray' /\ RefreshOfStore'
  BY DEF Inv, OneStray, RefreshOfStore, SetActive
<1>5. OrphanedTab' /\ StoredRole'
  BY DEF Inv, OrphanedTab, StoredRole, SetActive, signals, route
<1>. QED BY <1>1, <1>2, <1>3, <1>4, <1>5 DEF Inv

LEMMA LoginInv ==
  ASSUME Inv, NEW u \in Users, Login(u)
  PROVE  Inv'
<1>1. TypeOK'
  BY DEF Inv, TypeOK, Tokens, Store, Call, Shown, Pages, Roles, Unsent, NoRole, Login,
     server, signals, route
<1>2. SessionMatches'
  BY DEF Inv, SessionMatches, Login, server, signals
<1>3. RanAsSender' /\ WaitsForOwn' /\ Unsent'
  BY DEF Inv, RanAsSender, WaitsForOwn, Unsent, Login, server
<1>4. OneStray' /\ RefreshOfStore'
  BY DEF Inv, OneStray, RefreshOfStore, Login, server
<1>5. OrphanedTab' /\ StoredRole'
  BY DEF Inv, OrphanedTab, StoredRole, Login, server, signals
<1>. QED BY <1>1, <1>2, <1>3, <1>4, <1>5 DEF Inv

LEMMA LoginAnsweredInv ==
  ASSUME Inv, LoginAnswered
  PROVE  Inv'
<1>1. TypeOK'
  <2>. SUFFICES ASSUME loggingIn \notin disabled, NewPair(loggingIn),
                       store' = Saved(store, loggingIn), role' = RoleOf(loggingIn),
                       loggedIn' = TRUE, user' = loggingIn, Overtake,
                       goal' = HomeOf(RoleOf(loggingIn)), page' = page
                PROVE  TypeOK'
    BY DEF Inv, TypeOK, Tokens, Store, Call, LoginAnswered, server, signals, route
  <2>1. loggingIn \in Users
    BY DEF Inv, TypeOK, LoginAnswered
  <2>2. Len(issued') = Len(issued) + 1 /\ issued' \in Seq(Users) /\ Len(issued') <= MaxPairs
        /\ Len(issued) \in Nat /\ accessFrom' \in 1..Len(issued') + 1 /\ disabled' = disabled
    BY <2>1, Issue DEF Inv, NewPair
  <2>3. Requests' /\ call' = call /\ stray' \subseteq {"refresh"}
    BY <2>1, <2>2, Issue, Untouched DEF Inv, LoginAnswered, Overtake
  <2>4. store' \in Store' /\ (store'.access = 0) = (store'.refresh = 0)
    BY <2>1, <2>2, Names DEF Saved, Store, Tokens, Pair
  <2>5. refreshing' # 0 <=> \E c \in Calls : call'[c].st = "waiting"
    BY <2>3 DEF LoginAnswered, Inv, TypeOK
  <2>. QED BY <2>1, <2>2, <2>3, <2>4, <2>5, Names
              DEF Inv, TypeOK, LoginAnswered, Requests, Tokens, HomeOf, Shown, Pages
<1>2. SessionMatches'
  BY DEF Inv, SessionMatches, LoginAnswered, server, signals, Overtake, Saved, HomeOf,
     NewPair, Pair
<1>3. RanAsSender' /\ WaitsForOwn' /\ Unsent'
  <2>1. CASE loggingIn \notin disabled /\ NewPair(loggingIn)
    <3>1. loggingIn \in Users
      BY <2>1 DEF Inv, TypeOK, LoginAnswered
    <3>. QED BY <2>1, <3>1, Issue, Untouched DEF Inv, LoginAnswered
  <2>2. CASE UNCHANGED server
    BY <2>2 DEF Inv, RanAsSender, WaitsForOwn, Unsent, server, LoginAnswered
  <2>. QED BY <2>1, <2>2 DEF LoginAnswered
<1>4. OneStray' /\ RefreshOfStore'
  <2>1. CASE loggingIn \notin disabled /\ NewPair(loggingIn) /\ Overtake /\ store' = Saved(store, loggingIn)
    <3>1. stray' = IF refreshing # 0 THEN {"refresh"} ELSE {}
      BY <2>1 DEF Overtake
    <3>2. store'.access # 0 /\ refreshing' = refreshing
      BY <2>1 DEF Saved, Pair, LoginAnswered, Inv, TypeOK
    <3>. QED BY <3>1, <3>2 DEF OneStray, RefreshOfStore
  <2>2. CASE UNCHANGED <<store, user, stray>>
    BY <2>2 DEF Inv, OneStray, RefreshOfStore, LoginAnswered
  <2>. QED BY <2>1, <2>2 DEF LoginAnswered
<1>5. OrphanedTab' /\ StoredRole'
  BY DEF Inv, OrphanedTab, StoredRole, LoginAnswered, server, signals, route, Overtake,
     Saved, HomeOf, NewPair, Pair
<1>. QED BY <1>1, <1>2, <1>3, <1>4, <1>5 DEF Inv

LEMMA LogoutInv ==
  ASSUME Inv, Logout
  PROVE  Inv'
<1>1. TypeOK'
  <2>1. Requests' /\ call' = call /\ stray' \subseteq {"refresh"}
    BY Untouched DEF Inv, TypeOK, Logout, Overtake, server
  <2>2. store' \in Store /\ (store'.access = 0) = (store'.refresh = 0) /\ issued' = issued
    BY DEF Inv, TypeOK, Logout, server, Cleared, NoSession, Store, Tokens
  <2>3. refreshing' # 0 <=> \E c \in Calls : call'[c].st = "waiting"
    BY <2>1 DEF Inv, TypeOK, Logout
  <2>. QED BY <2>1, <2>2, <2>3
              DEF Inv, TypeOK, Logout, server, Requests, Tokens, Store, Shown, Pages
<1>2. SessionMatches'
  BY DEF Inv, SessionMatches, Logout, server, Overtake, Cleared, NoSession
<1>3. RanAsSender' /\ WaitsForOwn' /\ Unsent'
  BY Untouched DEF Inv, TypeOK, Logout, server
<1>4. OneStray' /\ RefreshOfStore'
  <2>1. stray' = IF refreshing # 0 THEN {"refresh"} ELSE {}
    BY DEF Logout, Overtake
  <2>. QED BY <2>1 DEF Logout, OneStray, RefreshOfStore
<1>5. OrphanedTab' /\ StoredRole'
  BY DEF Inv, OrphanedTab, StoredRole, Logout, server, Overtake, Cleared, NoSession
<1>. QED BY <1>1, <1>2, <1>3, <1>4, <1>5 DEF Inv

LEMMA TypeInv ==
  ASSUME Inv, NEW c \in Calls, Type(c)
  PROVE  Inv'
<1>0. /\ \A d \in Calls \ {c} : call'[d] = call[d]
      /\ call[c].st = "idle" /\ call'[c].st = "typed"
      /\ call'[c].token = call[c].token /\ call' \in [Calls -> Call]
      /\ UNCHANGED <<issued, refreshing>>
  BY DEF Inv, TypeOK, Call, Type, Same, server
<1>1. TypeOK'
  BY <1>0 DEF Inv, TypeOK, Tokens, Store, Call, Type, server, signals, route, Same
<1>2. SessionMatches'
  BY DEF Inv, SessionMatches, Type, server, signals, Same
<1>3. RanAsSender' /\ WaitsForOwn' /\ Unsent'
  BY <1>0 DEF Inv, RanAsSender, WaitsForOwn, Unsent
<1>4. OneStray' /\ RefreshOfStore'
  BY DEF Inv, OneStray, RefreshOfStore, Type, server, Same
<1>5. OrphanedTab' /\ StoredRole'
  BY DEF Inv, OrphanedTab, StoredRole, Type, server, signals, Same
<1>. QED BY <1>1, <1>2, <1>3, <1>4, <1>5 DEF Inv

LEMMA SendInv ==
  ASSUME Inv, NEW c \in Calls, Send(c)
  PROVE  Inv'
<1>1. TypeOK'
  BY DEF Inv, TypeOK, Tokens, Store, Call, Shown, Pages, Roles, Unsent, NoRole, Send,
     server, signals, route, Same
<1>2. SessionMatches'
  BY DEF Inv, SessionMatches, Send, server, signals, Same
<1>3. RanAsSender' /\ WaitsForOwn' /\ Unsent'
  <2>1. /\ call'[c].token \in {0, store.access}
        /\ call'[c].astray = ("tokens" \in stray) /\ call'[c].by = user
        /\ call'[c].st = "sent"
        /\ \A d \in Calls \ {c} : call'[d] = call[d]
    BY DEF Inv, TypeOK, Send
  <2>2. issued' = issued /\ user' = user
    BY DEF Send, Same, server
  <2>3. store.access # 0 /\ "tokens" \notin stray => issued[store.access] = user
    BY DEF Inv, SessionMatches
  <2>4. refreshing' = refreshing
    BY DEF Send
  <2>. QED BY <2>1, <2>2, <2>3, <2>4 DEF Inv, RanAsSender, WaitsForOwn, Unsent
<1>4. OneStray' /\ RefreshOfStore'
  BY DEF Inv, OneStray, RefreshOfStore, Send, server, Same
<1>5. OrphanedTab' /\ StoredRole'
  BY DEF Inv, OrphanedTab, StoredRole, Send, server, signals, Same
<1>. QED BY <1>1, <1>2, <1>3, <1>4, <1>5 DEF Inv

LEMMA AnsweredInv ==
  ASSUME Inv, NEW c \in Calls, Answered(c)
  PROVE  Inv'
<1>1. TypeOK'
  BY DEF Inv, TypeOK, Tokens, Store, Call, Shown, Pages, Roles, Unsent, NoRole,
     Answered, server, signals, route, Same, End, NoCall
<1>2. SessionMatches'
  BY DEF Inv, SessionMatches, Answered, server, signals, Same, End
<1>3. RanAsSender' /\ WaitsForOwn' /\ Unsent'
  BY DEF Inv, RanAsSender, WaitsForOwn, Unsent, Answered, server, Same, End, NoCall
<1>4. OneStray' /\ RefreshOfStore'
  BY DEF Inv, OneStray, RefreshOfStore, Answered, server, Same, End
<1>5. OrphanedTab' /\ StoredRole'
  BY DEF Inv, OrphanedTab, StoredRole, Answered, server, signals, Same, End
<1>. QED BY <1>1, <1>2, <1>3, <1>4, <1>5 DEF Inv

LEMMA RejectedInv ==
  ASSUME Inv, NEW c \in Calls, Rejected(c)
  PROVE  Inv'
<1>1. TypeOK'
  <2>1. Requests' /\ (\A d \in Calls \ {c} : call'[d] = call[d]) /\ call[c].st = "sent"
        /\ call'[c].st = IF Joins THEN "waiting" ELSE "idle"
    BY Rejection DEF Inv
  <2>2. refreshing' # 0 <=> \E d \in Calls : call'[d].st = "waiting"
    BY <2>1 DEF Inv, TypeOK, Rejected, Joins
  <2>3. store' \in Store /\ (store'.access = 0) = (store'.refresh = 0) /\ refreshing' \in Tokens
    BY DEF Inv, TypeOK, Rejected, Cleared, NoSession, Store, Tokens
  <2>. QED BY <2>1, <2>2, <2>3
              DEF Inv, TypeOK, Store, Tokens, Rejected, Same, server, signals, route,
                  Requests
<1>2. SessionMatches'
  BY DEF Inv, SessionMatches, Rejected, server, signals, Same, End, Cleared, NoSession
<1>3. RanAsSender' /\ WaitsForOwn' /\ Unsent'
  <2>1. /\ \A d \in Calls \ {c} : call'[d] = call[d]
        /\ call'[c].token = 0 /\ call'[c].st = IF Joins THEN "waiting" ELSE "idle"
        /\ UNCHANGED <<issued, user>>
    BY Rejection DEF Inv
  <2>2. RanAsSender' /\ Unsent'
    BY <2>1 DEF Inv, RanAsSender, Unsent
  <2>3. ASSUME Joins, ~call'[c].astray PROVE issued[refreshing'] = call'[c].by
    <3>1. call'[c].by = user /\ stray = {}
      BY <2>3, Rejection DEF Inv
    <3>2. refreshing' = store.refresh /\ store.refresh # 0
      BY <2>3, <3>1 DEF Rejected, Joins, Inv, RefreshOfStore
    <3>. QED BY <3>1, <3>2 DEF Inv, TypeOK, SessionMatches
  <2>4. ASSUME NEW d \in Calls \ {c}, call[d].st = "waiting", ~call[d].astray
        PROVE  issued[refreshing'] = call[d].by
    BY <2>4 DEF Inv, TypeOK, WaitsForOwn, Rejected, Joins
  <2>5. WaitsForOwn'
    BY <2>1, <2>3, <2>4 DEF WaitsForOwn
  <2>. QED BY <2>2, <2>5
<1>4. OneStray' /\ RefreshOfStore'
  BY DEF Inv, TypeOK, OneStray, RefreshOfStore, Rejected, server, Same, End, Joins,
     Cleared, NoSession
<1>5. OrphanedTab' /\ StoredRole'
  BY DEF Inv, OrphanedTab, StoredRole, Rejected, server, signals, Same, End, Cleared,
     NoSession
<1>. QED BY <1>1, <1>2, <1>3, <1>4, <1>5 DEF Inv

LEMMA RejectedAgainInv ==
  ASSUME Inv, NEW c \in Calls, RejectedAgain(c)
  PROVE  Inv'
<1>1. TypeOK'
  BY DEF Inv, TypeOK, Tokens, Store, Call, Shown, Pages, Roles, Unsent, NoRole,
     RejectedAgain, server, signals, route, Same, End, NoCall, AfterRetry
<1>2. SessionMatches'
  BY DEF Inv, SessionMatches, RejectedAgain, server, signals, Same, End, AfterRetry
<1>3. RanAsSender' /\ WaitsForOwn' /\ Unsent'
  BY DEF Inv, RanAsSender, WaitsForOwn, Unsent, RejectedAgain, server, Same, End, NoCall, AfterRetry
<1>4. OneStray' /\ RefreshOfStore'
  BY DEF Inv, OneStray, RefreshOfStore, RejectedAgain, server, Same, End, AfterRetry
<1>5. OrphanedTab' /\ StoredRole'
  BY DEF Inv, OrphanedTab, StoredRole, RejectedAgain, server, signals, Same, End,
     AfterRetry
<1>. QED BY <1>1, <1>2, <1>3, <1>4, <1>5 DEF Inv

LEMMA RefreshedInv ==
  ASSUME Inv, Refreshed
  PROVE  Inv'
<1>1. TypeOK'
  <2>1. Requests' /\ (\A c \in Calls : call'[c].st # "waiting")
    BY Resumed DEF Inv, Refreshed
  <2>2. issued[refreshing] \in Users /\ NewPair(issued[refreshing])
    BY DEF Inv, TypeOK, Refreshed, Tokens
  <2>3. /\ Len(issued') = Len(issued) + 1 /\ issued' \in Seq(Users) /\ Len(issued') <= MaxPairs
        /\ Len(issued) \in Nat /\ accessFrom' \in 1..Len(issued') + 1 /\ disabled' = disabled
    BY <2>2, Issue DEF Inv, NewPair
  <2>4. store' \in Store' /\ (store'.access = 0) = (store'.refresh = 0)
    <3>1. Pair \in 1..Len(issued') /\ Pair # 0
      BY <2>3 DEF Pair
    <3>2. /\ store' = [store EXCEPT !.access = Pair, !.refresh = Pair]
          /\ store \in [access : 0..Len(issued), refresh : 0..Len(issued), role : Roles \union {NoRole}]
      BY DEF Inv, TypeOK, Refreshed, Store, Tokens
    <3>3. store'.access = Pair /\ store'.refresh = Pair
      BY <3>2
    <3>4. store' \in [access : 0..Len(issued'), refresh : 0..Len(issued'),
                      role : Roles \union {NoRole}]
      <4>. DEFINE Set == Roles \union {NoRole}
                  P == Pair
      <4>1. /\ store \in [access : 0..Len(issued), refresh : 0..Len(issued), role : Set]
            /\ store' = [store EXCEPT !.access = P, !.refresh = P]
            /\ P \in 0..Len(issued')
        BY <2>3, <3>1, <3>2
      <4>. HIDE DEF Set, P
      <4>2. store' \in [access : 0..Len(issued'), refresh : 0..Len(issued'), role : Set]
        BY <4>1
      <4>. QED BY <4>2 DEF Set
    <3>. QED BY <3>1, <3>3, <3>4 DEF Store, Tokens
  <2>. QED BY <2>1, <2>3, <2>4
              DEF Inv, TypeOK, Refreshed, Requests, Tokens, signals, route
<1>2. SessionMatches'
  <2>. SUFFICES ASSUME "tokens" \notin stray' PROVE SessionMatches'
    BY DEF SessionMatches
  <2>1. stray = {} /\ refreshing # 0
    BY DEF Refreshed, Inv, TypeOK
  <2>2. store.refresh = refreshing /\ store.access # 0
    BY <2>1 DEF Inv, TypeOK, RefreshOfStore
  <2>3. issued[refreshing] = user /\ loggedIn /\ user # Nobody /\ store.role = RoleOf(user)
    BY <2>1, <2>2 DEF Inv, SessionMatches
  <2>4. issued[refreshing] \in Users /\ NewPair(issued[refreshing])
    BY DEF Inv, TypeOK, Refreshed, Tokens
  <2>5. issued'[Pair] = user
    BY <2>3, <2>4, Issue DEF Inv
  <2>6. store'.access = Pair /\ store'.refresh = Pair /\ store'.role = store.role
    BY DEF Refreshed, Inv, TypeOK, Store
  <2>. QED BY <2>1, <2>3, <2>5, <2>6 DEF Inv, SessionMatches, Refreshed, signals
<1>3. RanAsSender' /\ WaitsForOwn' /\ Unsent'
  <2>1. issued[refreshing] \in Users /\ NewPair(issued[refreshing]) /\ refreshing # 0
    BY DEF Inv, TypeOK, Refreshed, Tokens
  <2>2. /\ \A i \in 1..Len(issued) : issued'[i] = issued[i]
        /\ issued'[Pair] = issued[refreshing] /\ Len(issued) \in Nat
    BY <2>1, Issue DEF Inv
  <2>3. \A c \in Calls : call[c].token \in 0..Len(issued)
    BY DEF Inv, TypeOK, Call, Tokens
  <2>4. \A c \in Calls : call'[c].st # "waiting"
    BY <2>1, Resumed DEF Inv
  <2>5. ASSUME NEW c \in Calls, call[c].st = "waiting"
        PROVE  /\ call'[c].st = "retried" /\ call'[c].token = Pair
               /\ ~call'[c].astray => issued'[Pair] = call'[c].by
    BY <2>1, <2>2, <2>5, Resumed DEF Inv, WaitsForOwn
  <2>6. \A c \in Calls : call[c].st # "waiting" => call'[c] = call[c]
    BY <2>1, Resumed DEF Inv
  <2>. QED BY <2>2, <2>3, <2>4, <2>5, <2>6 DEF Inv, RanAsSender, WaitsForOwn, Unsent
<1>4. OneStray' /\ RefreshOfStore'
  BY Names
     DEF Inv, TypeOK, Tokens, Store, Call, Shown, Pages, Roles, SessionMatches,
         OneStray, RefreshOfStore, OrphanedTab, Refreshed, server, signals, route,
         Waits, NewPair, Pair
<1>5. OrphanedTab' /\ StoredRole'
  <2>1. OrphanedTab'
    BY DEF Inv, TypeOK, OrphanedTab, Refreshed, signals, route
  <2>2. store'.access # 0 /\ store'.role = store.role /\ user' = user
    BY DEF Refreshed, Inv, TypeOK, Store, Pair
  <2>3. store.access = 0 => user = Nobody
    BY DEF Inv, RefreshOfStore, Refreshed
  <2>. QED BY <2>1, <2>2, <2>3 DEF Inv, StoredRole, RoleOf
<1>. QED BY <1>1, <1>2, <1>3, <1>4, <1>5 DEF Inv

LEMMA RefreshFailedInv ==
  ASSUME Inv, RefreshFailed
  PROVE  Inv'
<1>1. TypeOK'
  BY DEF Inv, TypeOK, Tokens, Store, Call, Shown, Pages, Roles, Unsent, NoRole,
     RefreshFailed, server, signals, route, Same, Waits, NoCall, Cleared, NoSession
<1>2. SessionMatches'
  BY Names
     DEF Inv, TypeOK, SessionMatches, OneStray, RefreshOfStore, OrphanedTab,
         StoredRole, RefreshFailed, server, signals, Same, Cleared, NoSession
<1>3. RanAsSender' /\ WaitsForOwn' /\ Unsent'
  <2>1. issued' = issued /\ user' = user /\ DOMAIN call = Calls
    BY DEF Inv, TypeOK, RefreshFailed, server, Same
  <2>2. \A c \in Calls :
          (call'[c] = call[c] /\ call[c].st # "waiting") \/ call'[c] = NoCall
    BY DEF RefreshFailed, Waits
  <2>. QED BY <2>1, <2>2 DEF Inv, RanAsSender, WaitsForOwn, Unsent, NoCall
<1>4. OneStray' /\ RefreshOfStore'
  BY DEF Inv, OneStray, RefreshOfStore, RefreshFailed, server, Same, Cleared, NoSession
<1>5. OrphanedTab' /\ StoredRole'
  BY DEF Inv, OrphanedTab, StoredRole, RefreshFailed, server, signals, route, Same,
     NoCall, Cleared, NoSession
<1>. QED BY <1>1, <1>2, <1>3, <1>4, <1>5 DEF Inv

LEMMA NavigateInv ==
  ASSUME Inv, Navigate
  PROVE  Inv'
<1>1. TypeOK'
  <2>1. page' \in Shown /\ goal' \in Shown
    BY DEF Inv, TypeOK, Navigate, Redirect, Home, Shown, Pages
  <2>. QED BY <2>1 DEF Inv, TypeOK, Navigate, server, signals, Tokens, Store, Call
<1>2. SessionMatches'
  BY DEF Inv, SessionMatches, Navigate, server, signals
<1>3. RanAsSender' /\ WaitsForOwn' /\ Unsent'
  BY DEF Inv, RanAsSender, WaitsForOwn, Unsent, Navigate, server
<1>4. OneStray' /\ RefreshOfStore'
  BY DEF Inv, OneStray, RefreshOfStore, Navigate, server
<1>5. OrphanedTab' /\ StoredRole'
  <2>1. user = Nobody /\ loggedIn => ~Passes(goal)
    <3>1. goal \in {"login", "home", "admin"}
      BY DEF Inv, TypeOK, Navigate, Shown, Pages
    <3>. QED BY <3>1 DEF Inv, OrphanedTab, Passes, NoRole
  <2>. QED BY <2>1 DEF Inv, OrphanedTab, StoredRole, Navigate, server, signals
<1>. QED BY <1>1, <1>2, <1>3, <1>4, <1>5 DEF Inv

LEMMA VisitInv ==
  ASSUME Inv, Visit
  PROVE  Inv'
<1>1. TypeOK'
  BY DEF Inv, TypeOK, Tokens, Store, Call, Shown, Pages, Roles, Unsent, NoRole, Visit,
     server, signals
<1>2. SessionMatches'
  BY DEF Inv, SessionMatches, Visit, server, signals
<1>3. RanAsSender' /\ WaitsForOwn' /\ Unsent'
  BY DEF Inv, RanAsSender, WaitsForOwn, Unsent, Visit, server
<1>4. OneStray' /\ RefreshOfStore'
  BY DEF Inv, OneStray, RefreshOfStore, Visit, server
<1>5. OrphanedTab' /\ StoredRole'
  BY DEF Inv, OrphanedTab, StoredRole, Visit, server, signals
<1>. QED BY <1>1, <1>2, <1>3, <1>4, <1>5 DEF Inv

LEMMA ReloadInv ==
  ASSUME Inv, Reload
  PROVE  Inv'
<1>1. TypeOK'
  BY DEF Inv, TypeOK, Tokens, Store, Call, Shown, Pages, Roles, Unsent, NoRole, Reload,
     server, NoCall
<1>2. SessionMatches'
  BY DEF Inv, SessionMatches, Reload, server
<1>3. RanAsSender' /\ WaitsForOwn' /\ Unsent'
  BY DEF Inv, RanAsSender, WaitsForOwn, Unsent, Reload, server, NoCall
<1>4. OneStray' /\ RefreshOfStore'
  BY DEF Inv, OneStray, RefreshOfStore, Reload, server
<1>5. OrphanedTab' /\ StoredRole'
  BY DEF Inv, OrphanedTab, StoredRole, Reload, server, NoCall
<1>. QED BY <1>1, <1>2, <1>3, <1>4, <1>5 DEF Inv

----------------------------------------------------------------------------
LEMMA InitInv ==
  ASSUME Init
  PROVE  Inv
<1>1. TypeOK
  <2>1. issued = <<>> /\ issued \in Seq(Users) /\ Len(issued) = 0 /\ Len(issued) <= MaxPairs
    BY SessionAssumption DEF Init
  <2>2. store \in Store /\ (store.access = 0) = (store.refresh = 0)
    BY <2>1 DEF Init, Store, NoSession, Tokens
  <2>3. /\ call \in [Calls -> Call] /\ refreshing \in Tokens
        /\ refreshing # 0 <=> \E c \in Calls : call[c].st = "waiting"
    BY <2>1 DEF Init, Call, NoCall, Tokens
  <2>4. accessFrom \in 1..Len(issued) + 1
    BY <2>1 DEF Init
  <2>. QED BY <2>1, <2>2, <2>3, <2>4 DEF Init, TypeOK, Shown
<1>. QED BY <1>1
            DEF Inv, TypeOK, SessionMatches, RanAsSender, WaitsForOwn, Unsent, OneStray,
                RefreshOfStore, OrphanedTab, StoredRole, Init, NoSession, NoCall

LEMMA NextInv ==
  ASSUME Inv, [Next]_vars
  PROVE  Inv'
<1>1. CASE Expire
  BY <1>1, ExpireInv
<1>2. CASE SetActive
  BY <1>2, SetActiveInv
<1>3. CASE \E u \in Users : Login(u)
  BY <1>3, LoginInv
<1>4. CASE LoginAnswered
  BY <1>4, LoginAnsweredInv
<1>5. CASE Logout
  BY <1>5, LogoutInv
<1>6. ASSUME NEW c \in Calls, Type(c) \/ Send(c) \/ Reply(c)
      PROVE  Inv'
  BY <1>6, TypeInv, SendInv, AnsweredInv, RejectedInv, RejectedAgainInv DEF Reply
<1>7. CASE RefreshAnswered
  BY <1>7, RefreshedInv, RefreshFailedInv DEF RefreshAnswered
<1>8. CASE Navigate
  BY <1>8, NavigateInv
<1>9. CASE Visit
  BY <1>9, VisitInv
<1>10. CASE Reload
  BY <1>10, ReloadInv
<1>11. CASE UNCHANGED vars
  BY <1>11
     DEF Inv, vars, server, signals, route, TypeOK, SessionMatches, RanAsSender,
         WaitsForOwn, Unsent, OneStray, RefreshOfStore, OrphanedTab, StoredRole, Store, Tokens, Call
<1>. QED BY <1>1, <1>2, <1>3, <1>4, <1>5, <1>6, <1>7, <1>8, <1>9, <1>10, <1>11 DEF Next

LEMMA AlwaysInv == Spec => []Inv
BY InitInv, NextInv, PTL DEF Spec

\* The tab and the server are always in states of their types; a refresh is in flight
\* exactly while requests wait for it (refreshTokens).
THEOREM SessionTypeCorrect == Spec => []TypeOK
<1>1. Inv => TypeOK
  BY DEF Inv
<1>. QED BY <1>1, AlwaysInv, PTL

\* What saveSession and saveTokens have stored is of the user who has logged in, for
\* any number of users and of requests that share a refresh.
THEOREM SessionBelongsToUser == Spec => []SessionMatches
<1>1. Inv => SessionMatches
  BY DEF Inv
<1>. QED BY <1>1, AlwaysInv, PTL

\* A request that the interceptor sends, or sends again after a refresh, is carried
\* out as the user in whose session it was sent, also if that session has ended since;
\* unless its 401 came after that end, or a stray refresh has made its tokens.
THEOREM RequestsRunAsSender == Spec => []RanAsSender
<1>1. Inv => RanAsSender
  BY DEF Inv
<1>. QED BY <1>1, AlwaysInv, PTL

\* clearSession ends only the session it is about.
LEMMA StepKeepsSession ==
  ASSUME Inv, Next, store.access # 0, store'.access = 0,
         ~(loggedIn /\ ~loggedIn'), refreshing # store.refresh, "refresh" \notin stray
  PROVE  FALSE
<1>1. refreshing = 0
  BY DEF Inv, RefreshOfStore
<1>2. store.refresh # 0 /\ store' # store
  BY DEF Inv, TypeOK
<1>3. ~Logout
  BY DEF Logout
<1>4. ~LoginAnswered
  BY <1>2 DEF LoginAnswered, Saved, Pair, Inv, TypeOK
<1>5. ~RefreshAnswered
  BY <1>1 DEF RefreshAnswered, Refreshed, RefreshFailed
<1>6. ASSUME NEW c \in Calls PROVE ~Type(c) /\ ~Send(c) /\ ~Reply(c)
  BY <1>2 DEF Type, Send, Reply, Answered, Rejected, RejectedAgain, Joins, AfterRetry
<1>. QED BY <1>2, <1>3, <1>4, <1>5, <1>6
            DEF Next, Expire, SetActive, Login, Navigate, Visit, Reload

\* A late answer does not end a session: only a logout, its own refresh or a stray one
\* does.
THEOREM SessionEndsForReason == Spec => SessionKept
<1>1. Inv /\ [Next]_vars => [store.access # 0 /\ store'.access = 0 =>
                               \/ loggedIn /\ ~loggedIn'
                               \/ refreshing = store.refresh \/ "refresh" \in stray]_vars
  BY StepKeepsSession DEF Inv, TypeOK
<1>. QED BY <1>1, AlwaysInv, PTL DEF Spec, SessionKept
=============================================================================

-------------------------- MODULE RouterCacheProofs --------------------------
(***************************************************************************)
(* RouterCache implements RouterView, and acknowledged writes are seen:    *)
(* proofs for every number of goroutines and accounts and every choice of  *)
(* TTL, timeout and bounds.                                                *)
(***************************************************************************)
EXTENDS RouterCache, TLAPS

\* What a call holds in its local value.
Filled == {"takeUsers", "storeUsers", "stampUsers", "storeProfile",
           "stampProfile", "dropUsers", "dropProfiles"}
Holding ==
  \A g \in Calls :
    /\ pc[g] \in Filled => seen[g] \in Snapshot
    /\ line = g => pc[g] \in Asking /\ seen[g] \in Snapshot \union {Failed}

TypeInv == TypeOK /\ Holding

LEMMA RequestExists == NoRequest \in Request
<1>1. \E q : q \in Request
  <2>1. PICK o \in Ops, n \in Names : TRUE
    BY ConstantsAssumption
  <2>2. [op |-> o, name |-> n] \in Request
    BY DEF Request
  <2> QED
    BY <2>2
<1> QED
  BY <1>1 DEF NoRequest

LEMMA CurrentType ==
  ASSUME TypeOK
  PROVE  Current \in Snapshot
BY DEF TypeOK, Current, Snapshot

LEMMA TypeInit == Init => TypeInv
<1> SUFFICES ASSUME Init PROVE TypeInv
  OBVIOUS
<1>1. Current \in Snapshot /\ NoCall \notin Calls /\ 0 \in 0..MaxVer
  BY ConstantsAssumption DEF Init, Current, Snapshot
<1>2. TypeOK
  BY <1>1, RequestExists, ConstantsAssumption
     DEF Init, TypeOK, NoHistory, Steps
<1>3. Holding
  BY <1>1 DEF Init, Holding, Filled
<1> QED
  BY <1>2, <1>3 DEF TypeInv

LEMMA TypeStep == TypeInv /\ [Next]_vars => TypeInv'
<1> SUFFICES ASSUME TypeInv, [Next]_vars
             PROVE  TypeInv'
  OBVIOUS
<1> USE DEF TypeInv, TypeOK, Holding, Filled, router, conn, cache, answers,
            history, Kept, Go, Forget
<1>0. /\ NoCall \notin Calls /\ NoList \notin Snapshot /\ Failed \notin Snapshot
      /\ MaxVer \in Nat /\ NoRequest \in Request /\ Current \in Snapshot
  BY ConstantsAssumption, RequestExists, CurrentType
<1>1. ASSUME NEW g \in Calls, Start(g) PROVE TypeInv'
  <2>1. PICK q \in Request : req' = [req EXCEPT ![g] = q]
                             /\ pc' = [pc EXCEPT ![g] = FirstStep(q.op)]
    BY <1>1 DEF Start
  <2>2. FirstStep(q.op) \in {"checkUsers", "drop", "checkProfile", "askWrite"}
    BY ConstantsAssumption DEF FirstStep, Request, AllOps
  <2>3. from' \in [Calls -> [ver : Nat, at : Nat, acked : Nat]]
    BY <1>0, <1>1 DEF Start
  <2>4. alone' \subseteq Calls
    BY <1>1 DEF Start, InFlight
  <2>5. Holding'
    BY <1>0, <1>1, <2>1, <2>2 DEF Start, Asking
  <2> QED
    BY <1>1, <2>1, <2>2, <2>3, <2>4, <2>5 DEF Start, Steps
<1>2. ASSUME NEW g \in Calls, Command(g) PROVE TypeInv'
  BY <1>0, <1>2 DEF Command, Steps, Asking, Snapshot, Current
<1>3. ASSUME NEW g \in Calls, Reply(g) PROVE TypeInv'
  <2>0. /\ line' = NoCall /\ lineAt' = 0
        /\ UNCHANGED <<router, cache, req, history, acked>>
    BY <1>3 DEF Reply, Unlock
  <2>1. CASE seen[g] # Failed /\ UNCHANGED <<seen, answers>>
    <3>1. pc' \in [Calls -> Steps] /\ \A h \in Calls : h # g => pc'[h] = pc[h]
      BY <1>3 DEF Reply, Unlock, ReturnList, ReturnProfile, Steps, Asking
    <3> QED
      BY <1>0, <1>3, <2>1, <3>1 DEF Reply, Unlock
  <2>2. CASE /\ pc' \in [Calls -> Steps] /\ pc'[g] = "done"
             /\ \A h \in Calls : h # g => pc'[h] = pc[h]
             /\ seen' = [seen EXCEPT ![g] = NoList]
             /\ listed' \in {listed, [listed EXCEPT ![g] = Failed]}
             /\ profiled' \in {profiled, [profiled EXCEPT ![g] = Failed]}
    BY <1>0, <2>0, <2>2
  <2>3. CASE pc[g] = "askUsers" /\ ReturnList(g, Failed)
    BY <1>3, <2>2, <2>3 DEF ReturnList, Steps
  <2>4. CASE pc[g] = "askProfile" /\ ReturnProfile(g, Failed)
    BY <1>3, <2>2, <2>4 DEF ReturnProfile, Steps
  <2>5. CASE Go(g, "done") /\ Forget(g) /\ UNCHANGED answers
    BY <1>3, <2>2, <2>5 DEF Steps
  <2> QED
    BY <1>3, <2>1, <2>3, <2>4, <2>5 DEF Reply, Asking
<1>4. ASSUME NEW g \in Calls, Drop(g) PROVE TypeInv'
  BY <1>0, <1>4 DEF Drop, Steps, Asking
<1>5. ASSUME NEW g \in Calls, CheckUsers(g) PROVE TypeInv'
  <2>1. CASE /\ Valid(users, usersAt)
             /\ seen' = [seen EXCEPT ![g] = users] /\ Go(g, "takeUsers")
    BY <1>0, <1>5, <2>1 DEF CheckUsers, Valid, Steps, Asking
  <2>2. CASE Go(g, "askUsers") /\ UNCHANGED seen
    BY <1>0, <1>5, <2>2 DEF CheckUsers, Steps, Asking
  <2> QED
    BY <1>5, <2>1, <2>2 DEF CheckUsers
<1>6. ASSUME NEW g \in Calls, TakeUsers(g) PROVE TypeInv'
  <2>1. PICK list \in Snapshot \union {Torn} : ReturnList(g, list)
    BY <1>6 DEF TakeUsers
  <2>2. /\ pc' \in [Calls -> Steps] /\ pc'[g] \in {"checkProfile", "done"}
        /\ \A h \in Calls : h # g => pc'[h] = pc[h]
    BY <2>1 DEF ReturnList, Steps
  <2>3. listed' \in [Calls -> Snapshot \union {NoAnswer, Failed, Torn}]
    BY <2>1 DEF ReturnList
  <2> QED
    BY <1>0, <1>6, <2>1, <2>2, <2>3 DEF TakeUsers, ReturnList, Asking
<1>7. ASSUME NEW g \in Calls, StoreUsers(g) PROVE TypeInv'
  BY <1>0, <1>7 DEF StoreUsers, Steps, Asking
<1>8. ASSUME NEW g \in Calls, StampUsers(g) PROVE TypeInv'
  BY <1>0, <1>8 DEF StampUsers, ReturnList, Steps, Asking
<1>9. ASSUME NEW g \in Calls, CheckProfile(g) PROVE TypeInv'
  <2>1. UNCHANGED <<conn, cache, router, req, history, acked, listed>>
    BY <1>9 DEF CheckProfile, ReturnProfile
  <2>2. CASE Go(g, "askProfile") /\ UNCHANGED <<seen, answers>>
    BY <1>0, <1>9, <2>1, <2>2 DEF CheckProfile, Steps, Asking
  <2>3. ASSUME NEW entry \in Snapshot, ReturnProfile(g, entry)
        PROVE  TypeInv'
    BY <1>0, <1>9, <2>1, <2>3 DEF CheckProfile, ReturnProfile, Steps, Asking
  <2>4. profiles[req[g].name] \in Snapshot \union {NoList}
    BY DEF Request
  <2> QED
    BY <1>9, <2>2, <2>3, <2>4 DEF CheckProfile, Valid
<1>10. ASSUME NEW g \in Calls, StoreProfile(g) PROVE TypeInv'
  BY <1>0, <1>10 DEF StoreProfile, Steps, Asking, Request
<1>11. ASSUME NEW g \in Calls, StampProfile(g) PROVE TypeInv'
  BY <1>0, <1>11 DEF StampProfile, ReturnProfile, Steps, Asking
<1>12. ASSUME NEW g \in Calls, DropUsers(g) PROVE TypeInv'
  BY <1>0, <1>12 DEF DropUsers, Dropped, Steps, Asking
<1>13. ASSUME NEW g \in Calls, DropProfiles(g) PROVE TypeInv'
  BY <1>0, <1>13 DEF DropProfiles, Steps, Asking, Snapshot
<1>14. ASSUME NEW g \in Calls, Finish(g) PROVE TypeInv'
  BY <1>0, <1>14 DEF Finish, NoHistory, Steps, Asking
<1>15. CASE MapRace
  BY <1>0, <1>15 DEF MapRace, InFlight, Steps, Asking
<1>16. CASE Tick
  BY <1>0, <1>16 DEF Tick, Snapshot
<1>17. CASE Change
  BY <1>0, <1>17 DEF Change, Snapshot
<1>18. CASE UNCHANGED vars
  BY <1>18 DEF vars
<1> QED
  BY <1>1, <1>2, <1>3, <1>4, <1>5, <1>6, <1>7, <1>8, <1>9, <1>10, <1>11,
     <1>12, <1>13, <1>14, <1>15, <1>16, <1>17, <1>18 DEF Next, Serve

\* The fields of the cache and what the calls hold and return have their types.
THEOREM CacheTypeCorrect == Spec => []TypeOK
<1>1. TypeInv => TypeOK
  BY DEF TypeInv
<1> QED
  BY <1>1, TypeInit, TypeStep, PTL DEF Spec

----------------------------------------------------------------------------
(* The refinement.                                                         *)

\* The router had s at most d ago.
Within(s, d) == s \in past /\ s.at + d >= now

Ages ==
  /\ Current \in past /\ usersAt <= now
  /\ line # NoCall => lineAt <= now /\ now <= lineAt + CmdTime
  /\ users # NoList => users \in past /\ users.at + CmdTime >= usersAt
  /\ \A g \in Calls :
       /\ line = g /\ pc[g] = "askUsers" =>
            seen[g] \in past /\ seen[g].at = lineAt
       /\ pc[g] \in {"storeUsers", "stampUsers"} => Within(seen[g], CmdTime)
       /\ pc[g] = "stampUsers" => users = NoList \/ Within(users, CmdTime)
       /\ pc[g] = "takeUsers" =>
            /\ Within(seen[g], TTL + CmdTime)
            /\ users = NoList \/ Within(users, TTL + CmdTime)

\* A call without company meets nobody in the cache.
Company ==
  \A g \in alone :
    /\ g \in InFlight => InFlight = {g}
    /\ pc[g] = "takeUsers" => users = seen[g]

ListSteps == {"drop", "checkUsers", "takeUsers", "askUsers", "storeUsers",
              "stampUsers"}
Unanswered ==
  \A g \in Calls : pc[g] \in ListSteps \union {"idle"} => listed[g] = NoAnswer

ViewInv == TypeInv /\ Ages /\ Company /\ Unanswered

LEMMA AgesInit == Init => Ages
BY ConstantsAssumption DEF Init, Ages

\* Actions that leave the clock and the list alone, and bring no call into a
\* step that Ages speaks of.
LEMMA AgesKept ==
  ASSUME TypeInv, Ages, UNCHANGED <<router, users, usersAt>>,
         line' = NoCall \/ UNCHANGED conn,
         \A g \in Calls :
           \/ pc'[g] = pc[g] /\ seen'[g] = seen[g]
           \/ pc'[g] \notin {"askUsers", "storeUsers", "stampUsers", "takeUsers"}
           \/ pc'[g] = "askUsers" /\ line' # g
  PROVE  Ages'
BY ConstantsAssumption DEF Ages, Within, router, conn, Current, TypeInv, TypeOK

LEMMA AgesStep == TypeInv /\ Ages /\ [Next]_vars => Ages'
<1> SUFFICES ASSUME TypeInv, Ages, [Next]_vars
             PROVE  Ages'
  OBVIOUS
<1> USE DEF router, conn, cache, Kept, Go, Forget
<1>0. TypeInv'
  BY TypeStep
<1>a. /\ NoCall \notin Calls /\ NoList \notin Snapshot
      /\ TTL \in Nat /\ CmdTime \in Nat /\ now \in Nat
      /\ pc \in [Calls -> Steps]
      /\ seen \in [Calls -> Snapshot \union {NoList, Failed}]
      /\ line \in Calls \union {NoCall} /\ usersAt \in Nat /\ lineAt \in Nat
      /\ users \in Snapshot \union {NoList} /\ past \subseteq Snapshot
      /\ \A s \in Snapshot : s.at \in Nat
      /\ Current \in Snapshot /\ Current.at = now
      /\ \A g \in Calls : line = g => pc[g] \in Asking
  BY ConstantsAssumption, CurrentType DEF TypeInv, TypeOK, Snapshot, Holding, Current
<1>1. ASSUME NEW g \in Calls, Start(g) PROVE Ages'
  <2>1. PICK q \in Request : pc' = [pc EXCEPT ![g] = FirstStep(q.op)]
    BY <1>1 DEF Start
  <2>2. FirstStep(q.op) \in {"checkUsers", "drop", "checkProfile", "askWrite"}
    BY ConstantsAssumption DEF FirstStep, Request, AllOps
  <2> QED
    BY <1>a, <1>1, <2>1, <2>2, AgesKept DEF Start
<1>2. ASSUME NEW g \in Calls, Command(g) PROVE Ages'
  <2>1. CASE pc[g] # "askWrite"
    BY <1>a, <1>2, <2>1 DEF Command, Ages, Within, Asking, Current
  <2>2. CASE pc[g] = "askWrite"
    BY <1>a, <1>2, <2>2 DEF Command, Ages, Within, Asking, Current
  <2> QED
    BY <2>1, <2>2
<1>3. ASSUME NEW g \in Calls, Reply(g) PROVE Ages'
  <2>0. line' = NoCall /\ UNCHANGED <<router, cache>>
    BY <1>3 DEF Reply, Unlock
  <2>1. CASE pc[g] = "askUsers" /\ pc' = [pc EXCEPT ![g] = "storeUsers"]
             /\ UNCHANGED seen
    <3>1. Within(seen[g], CmdTime)
      BY <1>a, <1>3, <2>1 DEF Reply, Ages, Within
    <3> QED
      BY <1>a, <2>0, <2>1, <3>1 DEF Ages, Within, Current
  <2>2. CASE /\ \A h \in Calls : h # g => pc'[h] = pc[h] /\ seen'[h] = seen[h]
             /\ pc'[g] \in {"storeProfile", "dropUsers", "done"}
    BY <2>0, <2>2, AgesKept
  <2> QED
    BY <1>a, <1>3, <2>1, <2>2 DEF Reply, ReturnList, ReturnProfile, Asking
<1>4. ASSUME NEW g \in Calls, Drop(g) PROVE Ages'
  BY <1>a, <1>4 DEF Drop, Ages, Within, Current
<1>5. ASSUME NEW g \in Calls, CheckUsers(g) PROVE Ages'
  <2>1. CASE Valid(users, usersAt) /\ seen' = [seen EXCEPT ![g] = users]
             /\ Go(g, "takeUsers")
    <3>1. Within(users, TTL + CmdTime)
      BY <1>a, <2>1 DEF Valid, Ages, Within
    <3> QED
      BY <1>a, <1>5, <2>1, <3>1 DEF CheckUsers, Ages, Within, Current
  <2>2. CASE Go(g, "askUsers") /\ UNCHANGED seen
    BY <1>a, <1>5, <2>2, AgesKept DEF CheckUsers, Asking
  <2> QED
    BY <1>5, <2>1, <2>2 DEF CheckUsers
<1>6. ASSUME NEW g \in Calls, TakeUsers(g) PROVE Ages'
  <2>1. PICK list : ReturnList(g, list)
    BY <1>6 DEF TakeUsers
  <2> QED
    BY <1>a, <1>6, <2>1, AgesKept DEF TakeUsers, ReturnList
<1>7. ASSUME NEW g \in Calls, StoreUsers(g) PROVE Ages'
  BY <1>a, <1>7 DEF StoreUsers, Ages, Within, Current
<1>8. ASSUME NEW g \in Calls, StampUsers(g) PROVE Ages'
  BY <1>a, <1>8 DEF StampUsers, ReturnList, Ages, Within, Current
<1>9. ASSUME NEW g \in Calls,
             CheckProfile(g) \/ StoreProfile(g) \/ StampProfile(g)
      PROVE  Ages'
  <2>1. UNCHANGED <<router, users, usersAt, conn>>
    BY <1>9 DEF CheckProfile, StoreProfile, StampProfile
  <2>2. /\ \A h \in Calls : h # g => pc'[h] = pc[h] /\ seen'[h] = seen[h]
        /\ pc'[g] \in {"askProfile", "stampProfile", "done"}
    BY <1>a, <1>9 DEF CheckProfile, StoreProfile, StampProfile, ReturnProfile
  <2> QED
    BY <2>1, <2>2, AgesKept
<1>10. ASSUME NEW g \in Calls, DropUsers(g) PROVE Ages'
  BY <1>a, <1>10 DEF DropUsers, Dropped, Ages, Within, Current
<1>11. ASSUME NEW g \in Calls, DropProfiles(g) \/ Finish(g) PROVE Ages'
  BY <1>a, <1>11, AgesKept DEF DropProfiles, Finish
<1>12. CASE MapRace
  BY <1>a, <1>12 DEF MapRace, InFlight, Ages, Within, Current
<1>13. CASE Tick
  <2>1. \A g \in Calls : pc[g] \notin {"storeUsers", "stampUsers", "takeUsers"}
    BY <1>13 DEF Tick, Local, Steps, Asking
  <2> QED
    BY <1>a, <1>13, <2>1 DEF Tick, Ages, Within, Current
<1>14. CASE Change
  BY <1>a, <1>14 DEF Change, Ages, Within, Current
<1>15. CASE UNCHANGED vars
  BY <1>15 DEF vars, Ages, Within, Current
<1> QED
  BY <1>1, <1>2, <1>3, <1>4, <1>5, <1>6, <1>7, <1>8, <1>9, <1>10, <1>11,
     <1>12, <1>13, <1>14, <1>15 DEF Next, Serve

LEMMA MovedOn ==
  ASSUME pc \in [Calls -> Steps], NEW g \in Calls, NEW step,
         pc' = [pc EXCEPT ![g] = step]
  PROVE  InFlight' = IF step \in {"idle", "done"} THEN InFlight \ {g}
                                                  ELSE InFlight \union {g}
BY DEF InFlight

\* The step a call takes, in the words of RouterView.
Moves(g, step) ==
  /\ pc' = [pc EXCEPT ![g] = step]
  /\ UNCHANGED <<router, history>>
Silent(g) ==
  /\ \E step \in Steps \ {"idle", "done", "takeUsers", "drop", "checkUsers"} :
       Moves(g, step) /\ pc[g] \notin {"idle", "done"}
         /\ (step \in ListSteps => pc[g] \in ListSteps)
  /\ UNCHANGED listed
Answers(g) ==
  \E list \in past \union {Failed, Torn}, step \in {"checkProfile", "done"} :
    /\ list \in past => Within(list, TTL + CmdTime)
    /\ list = Torn => g \notin alone
    /\ pc[g] \in ListSteps /\ Moves(g, step)
    /\ listed' = [listed EXCEPT ![g] = list]
Leaves(g) ==
  pc[g] \notin {"idle", "done"} /\ Moves(g, "done") /\ UNCHANGED listed

\* Every action of a call except Start and Finish, and the two that prepare
\* for an answer from the cache.
LEMMA CallSteps ==
  ASSUME ViewInv, NEW g \in Calls, Serve(g),
         ~(Command(g) \/ Drop(g) \/ CheckUsers(g))
  PROVE  Silent(g) \/ Answers(g) \/ Leaves(g)
<1> USE DEF Kept, Go
<1>0. /\ Ages /\ Company /\ pc \in [Calls -> Steps]
      /\ seen \in [Calls -> Snapshot \union {NoList, Failed}]
  BY DEF ViewInv, TypeInv, TypeOK
<1>a. \A s : s \in past /\ s.at + CmdTime >= now => Within(s, TTL + CmdTime)
  <2>1. past \subseteq Snapshot /\ TTL \in Nat /\ CmdTime \in Nat /\ now \in Nat
    BY ConstantsAssumption DEF ViewInv, TypeInv, TypeOK
  <2> QED
    BY <2>1 DEF Within, Snapshot
<1>1. CASE Reply(g)
  <2>0. Failed \notin past /\ Failed # Torn
    BY ConstantsAssumption DEF ViewInv, TypeInv, TypeOK
  <2>1. CASE UNCHANGED answers /\ Go(g, "storeUsers") /\ pc[g] = "askUsers"
    BY <1>1, <2>1 DEF Reply, Silent, Moves, answers, ListSteps, Steps
  <2>2. CASE /\ UNCHANGED answers
             /\ pc[g] \in {"askProfile", "askWrite"}
             /\ Go(g, "storeProfile") \/ Go(g, "dropUsers")
    BY <1>1, <2>2 DEF Reply, Silent, Moves, answers, ListSteps, Steps
  <2>3. CASE pc[g] = "askUsers" /\ ReturnList(g, Failed)
    BY <1>1, <2>0, <2>3 DEF Reply, ReturnList, Answers, Moves, ListSteps, Within
  <2>4. CASE pc[g] = "askProfile" /\ ReturnProfile(g, Failed)
    BY <1>1, <2>4 DEF Reply, ReturnProfile, Leaves, Moves
  <2>5. CASE pc[g] = "askWrite" /\ Go(g, "done") /\ UNCHANGED answers
    BY <1>1, <2>5 DEF Reply, Leaves, Moves, answers
  <2> QED
    BY <1>1, <2>1, <2>2, <2>3, <2>4, <2>5 DEF Reply, Asking
<1>2. CASE TakeUsers(g)
  <2>1. Within(seen[g], TTL + CmdTime)
    BY <1>0, <1>2 DEF TakeUsers, Ages
  <2>2. users # NoList => Within(users, TTL + CmdTime)
    BY <1>0, <1>2 DEF TakeUsers, Ages
  <2>3. Raced(g) => g \notin alone
    BY <1>0, <1>2 DEF TakeUsers, Raced, Company, InFlight
  <2>4. PICK list \in past \union {Torn} :
          /\ ReturnList(g, list)
          /\ list \in past => Within(list, TTL + CmdTime)
          /\ list = Torn => g \notin alone
    <3>1. Torn \notin past
      BY ConstantsAssumption DEF ViewInv, TypeInv, TypeOK
    <3> QED
      BY <1>2, <2>1, <2>2, <2>3, <3>1 DEF TakeUsers, Within
  <2> QED
    BY <1>2, <2>4 DEF TakeUsers, ReturnList, Answers, Moves, ListSteps
<1>3. CASE StampUsers(g)
  <2>1. Within(seen[g], TTL + CmdTime)
    BY <1>0, <1>3, <1>a DEF StampUsers, Ages, Within
  <2>2. seen[g] \in past /\ seen[g] # Torn
    BY <2>1, ConstantsAssumption DEF Within, ViewInv, TypeInv, TypeOK
  <2> QED
    BY <1>3, <2>1, <2>2 DEF StampUsers, ReturnList, Answers, Moves, ListSteps
<1>4. CASE StoreUsers(g)
  BY <1>4 DEF StoreUsers, Silent, Moves, answers, Steps, ListSteps
<1>5. CASE CheckProfile(g)
  BY <1>5 DEF CheckProfile, ReturnProfile, Silent, Leaves, Moves, answers,
              Steps, ListSteps
<1>6. CASE StoreProfile(g) \/ DropUsers(g)
  BY <1>6 DEF StoreProfile, DropUsers, Silent, Moves, answers, Steps, ListSteps
<1>7. CASE StampProfile(g) \/ DropProfiles(g)
  BY <1>7 DEF StampProfile, ReturnProfile, DropProfiles, Leaves, Moves, answers
<1> QED
  BY <1>1, <1>2, <1>3, <1>4, <1>5, <1>6, <1>7 DEF Serve

LEMMA CompanyStep == ViewInv /\ [Next]_vars => Company'
<1> SUFFICES ASSUME ViewInv, [Next]_vars
             PROVE  Company'
  OBVIOUS
<1>0. Company /\ pc \in [Calls -> Steps] /\ alone \subseteq Calls
      /\ seen \in [Calls -> Snapshot \union {NoList, Failed}]
  BY DEF ViewInv, TypeInv, TypeOK
\* A call under way goes on, but not to return a list from the cache.
<1>a. ASSUME NEW g \in Calls, NEW step \in Steps \ {"idle", "takeUsers"},
             pc[g] \notin {"idle", "done"}, pc' = [pc EXCEPT ![g] = step],
             UNCHANGED alone
      PROVE  Company'
  BY <1>0, <1>a DEF Company, InFlight
<1>1. ASSUME NEW g \in Calls, Start(g) PROVE Company'
  <2>1. PICK q \in Request : pc' = [pc EXCEPT ![g] = FirstStep(q.op)]
    BY <1>1 DEF Start
  <2>2. FirstStep(q.op) \in {"checkUsers", "drop", "checkProfile", "askWrite"}
    BY ConstantsAssumption DEF FirstStep, Request, AllOps
  <2> QED
    BY <1>0, <1>1, <2>1, <2>2 DEF Start, Company, InFlight, cache
<1>2. ASSUME NEW g \in Calls, Finish(g) PROVE Company'
  BY <1>0, <1>2 DEF Finish, Company, InFlight, cache
<1>3. ASSUME NEW g \in Calls, Command(g) PROVE Company'
  BY <1>0, <1>3 DEF Command, Company, InFlight, cache, history, Asking
<1>4. ASSUME NEW g \in Calls, Drop(g) PROVE Company'
  BY <1>a, <1>4 DEF Drop, Go, Kept, history, Steps
<1>5. ASSUME NEW g \in Calls, CheckUsers(g) PROVE Company'
  <2>1. CASE Go(g, "askUsers")
    BY <1>a, <1>5, <2>1 DEF CheckUsers, Go, Kept, history, Steps
  <2>2. CASE seen' = [seen EXCEPT ![g] = users] /\ Go(g, "takeUsers")
    BY <1>0, <1>5, <2>2 DEF CheckUsers, Go, Kept, history, cache, Company, InFlight
  <2> QED
    BY <1>5, <2>1, <2>2 DEF CheckUsers
<1>6. ASSUME NEW g \in Calls, Silent(g) \/ Answers(g) \/ Leaves(g)
      PROVE  Company'
  BY <1>a, <1>6 DEF Silent, Answers, Leaves, Moves, history, Steps, ListSteps
<1>7. CASE MapRace
  BY <1>0, <1>7 DEF MapRace, Company, InFlight, history
<1>8. CASE Tick \/ Change \/ UNCHANGED vars
  BY <1>0, <1>8 DEF Tick, Change, vars, cache, history, Company, InFlight
<1> QED
  BY <1>1, <1>2, <1>3, <1>4, <1>5, <1>6, <1>7, <1>8, CallSteps DEF Next, Serve

LEMMA UnansweredStep == ViewInv /\ [Next]_vars => Unanswered'
<1> SUFFICES ASSUME ViewInv, [Next]_vars
             PROVE  Unanswered'
  OBVIOUS
<1>0. Unanswered /\ pc \in [Calls -> Steps]
      /\ listed \in [Calls -> Snapshot \union {NoAnswer, Failed, Torn}]
  BY DEF ViewInv, TypeInv, TypeOK
<1>1. ASSUME NEW g \in Calls, Start(g) \/ Finish(g) PROVE Unanswered'
  BY <1>0, <1>1 DEF Start, Finish, Unanswered, answers
<1>2. ASSUME NEW g \in Calls, Command(g) \/ Drop(g) \/ CheckUsers(g)
      PROVE  Unanswered'
  BY <1>0, <1>2 DEF Command, Drop, CheckUsers, Go, Unanswered, ListSteps, answers
<1>3. ASSUME NEW g \in Calls, Silent(g) \/ Answers(g) \/ Leaves(g)
      PROVE  Unanswered'
  BY <1>0, <1>3 DEF Silent, Answers, Leaves, Moves, Unanswered, ListSteps
<1>4. CASE MapRace
  BY <1>0, <1>4 DEF MapRace, Unanswered, answers, ListSteps
<1>5. CASE Tick \/ Change \/ UNCHANGED vars
  BY <1>0, <1>5 DEF Tick, Change, vars, answers, Unanswered
<1> QED
  BY <1>1, <1>2, <1>3, <1>4, <1>5, CallSteps DEF Next, Serve

LEMMA ViewInvInit == Init => ViewInv
<1> SUFFICES ASSUME Init PROVE ViewInv
  OBVIOUS
<1>1. Company /\ Unanswered
  BY DEF Init, Company, Unanswered
<1> QED
  BY <1>1, TypeInit, AgesInit DEF ViewInv

LEMMA ViewInvStep == ViewInv /\ [Next]_vars => ViewInv'
BY TypeStep, AgesStep, CompanyStep, UnansweredStep DEF ViewInv

LEMMA ViewStep == ViewInv /\ [Next]_vars => [View!Next]_View!vars
<1> SUFFICES ASSUME ViewInv, [Next]_vars
             PROVE  View!Next \/ UNCHANGED View!vars
  BY DEF View!vars
<1> USE DEF View!vars, router, history, answers
<1>0. Unanswered /\ Ages /\ pc \in [Calls -> Steps] /\ now \in Nat
  BY DEF ViewInv, TypeInv, TypeOK
<1>1. ASSUME NEW g \in Calls, Start(g) PROVE View!Ask(g)
  <2>1. PICK q \in Request : pc' = [pc EXCEPT ![g] = FirstStep(q.op)]
    BY <1>1 DEF Start
  <2>2. FirstStep(q.op) \notin {"idle", "done"}
    BY ConstantsAssumption DEF FirstStep, Request, AllOps
  <2>3. InFlight' = InFlight \union {g} /\ g \notin InFlight
    BY <1>0, <1>1, <2>1, <2>2 DEF Start, InFlight
  <2> QED
    BY <1>1, <2>3 DEF Start, View!Ask
<1>2. ASSUME NEW g \in Calls, Finish(g) PROVE View!Forget(g)
  <2>1. InFlight' = InFlight /\ g \notin InFlight
    BY <1>0, <1>2 DEF Finish, InFlight
  <2> QED
    BY <1>2, <2>1 DEF Finish, View!Forget
<1>3. ASSUME NEW g \in Calls, Command(g)
      PROVE  View!RouterStep \/ UNCHANGED View!vars
  <2>1. UNCHANGED InFlight
    BY <1>3 DEF Command, InFlight
  <2> QED
    BY <1>3, <2>1 DEF Command, View!RouterStep
<1>4. ASSUME NEW g \in Calls, Drop(g) \/ CheckUsers(g)
      PROVE  UNCHANGED View!vars
  <2>1. UNCHANGED InFlight
    BY <1>0, <1>4 DEF Drop, CheckUsers, Go, InFlight
  <2> QED
    BY <1>4, <2>1 DEF Drop, CheckUsers, Kept
<1>5. ASSUME NEW g \in Calls, Silent(g) PROVE UNCHANGED View!vars
  <2>1. UNCHANGED InFlight
    BY <1>0, <1>5 DEF Silent, Moves, InFlight
  <2> QED
    BY <1>5, <2>1 DEF Silent, Moves
<1>6. ASSUME NEW g \in Calls, Answers(g) PROVE View!Answer(g)
  <2>1. PICK list \in past \union {Failed, Torn}, step \in {"checkProfile", "done"} :
          /\ list \in past => Within(list, TTL + CmdTime)
          /\ list = Torn => g \notin alone
          /\ pc[g] \in ListSteps /\ Moves(g, step)
          /\ listed' = [listed EXCEPT ![g] = list]
    BY <1>6 DEF Answers
  <2>2. InFlight' \in {InFlight, InFlight \ {g}} /\ g \in InFlight
    BY <1>0, <2>1 DEF Moves, InFlight, ListSteps
  <2>3. listed[g] = NoAnswer
    BY <1>0, <2>1 DEF Unanswered
  <2>4. list \in View!Recent \union {Failed} \union
                 (IF g \in alone THEN {} ELSE {Torn})
    BY <2>1 DEF View!Recent, Within
  <2> QED
    BY <2>1, <2>2, <2>3, <2>4 DEF View!Answer, Moves
<1>7. ASSUME NEW g \in Calls, Leaves(g) PROVE View!Leave(g)
  <2>1. InFlight' = InFlight \ {g} /\ g \in InFlight
    BY <1>0, <1>7 DEF Leaves, Moves, InFlight
  <2> QED
    BY <1>7, <2>1 DEF Leaves, Moves, View!Leave
<1>8. CASE MapRace
  <2>1. InFlight' = {}
    BY <1>0, <1>8 DEF MapRace, InFlight
  <2> QED
    BY <1>8, <2>1 DEF MapRace, View!Restart, View!Next
<1>9. CASE Tick \/ Change
  <2>1. UNCHANGED InFlight
    BY <1>9 DEF Tick, Change, InFlight
  <2>2. View!RouterStep
    BY <1>0, <1>9, <2>1 DEF Tick, Change, View!RouterStep
  <2> QED
    BY <2>2 DEF View!Next
<1>10. CASE UNCHANGED vars
  BY <1>10 DEF vars, InFlight
<1> QED
  BY <1>1, <1>2, <1>3, <1>4, <1>5, <1>6, <1>7, <1>8, <1>9, <1>10, CallSteps
     DEF Next, Serve, View!Next

LEMMA ViewInit == Init => View!Init
BY ConstantsAssumption DEF Init, View!Init, InFlight, Current

\* CachedClient keeps the promise of RouterView: whatever calls, writes, Winbox
\* edits and failures interleave, a list that ListUsers returns is one the
\* router had at most a TTL and a command timeout before.
THEOREM CacheImplementsView == Spec => ListsAreRecent
<1> QED
  BY ViewInvInit, ViewInvStep, ViewInit, ViewStep, PTL
     DEF Spec, ListsAreRecent, View!Spec

----------------------------------------------------------------------------
(* Refreshed lists.                                                        *)

Refreshes(g) == req[g].op \in {"refresh", "stats"}

\* Since a refresh has dropped the list, whatever is in the cache was fetched
\* by a command that ended after the request.
SinceRequest ==
  \A g \in Calls : Refreshes(g) =>
    /\ pc[g] # "idle" => from[g].at <= now
    /\ pc[g] \in {"checkUsers", "takeUsers"} =>
         users = NoList \/ users.at + CmdTime >= from[g].at
    /\ pc[g] = "takeUsers" => seen[g].at + CmdTime >= from[g].at

RefreshInv == ViewInv /\ SinceRequest /\ RefreshAlmostLive

LEMMA SinceRequestStep == RefreshInv /\ [Next]_vars => SinceRequest'
<1> SUFFICES ASSUME RefreshInv, [Next]_vars
             PROVE  SinceRequest'
  OBVIOUS
<1> USE DEF Kept, Go, router, history, cache, Refreshes
<1>0. /\ ViewInv /\ SinceRequest /\ Ages
      /\ pc \in [Calls -> Steps] /\ now \in Nat /\ CmdTime \in Nat
      /\ req \in [Calls -> Request]
      /\ seen \in [Calls -> Snapshot \union {NoList, Failed}]
      /\ users \in Snapshot \union {NoList}
      /\ from \in [Calls -> [ver : Nat, at : Nat, acked : Nat]]
      /\ \A h \in Calls : pc[h] \in Filled => seen[h] \in Snapshot
      /\ \A s \in Snapshot : s.at \in Nat
  BY ConstantsAssumption DEF RefreshInv, ViewInv, TypeInv, TypeOK, Holding, Snapshot
\* A call goes on after its first step, but not to a look at the cache, and
\* what it stores in the cache is fresh.
<1>a. ASSUME NEW g \in Calls, NEW step \in Steps \ {"takeUsers", "checkUsers"},
             pc[g] # "idle", pc' = [pc EXCEPT ![g] = step],
             UNCHANGED <<now, req, from>>,
             \A h \in Calls \ {g} : seen'[h] = seen[h],
             \/ users' \in {users, NoList}
             \/ users'.at \in Nat /\ users'.at + CmdTime >= now
      PROVE  SinceRequest'
  BY <1>0, <1>a DEF SinceRequest
<1>1. ASSUME NEW g \in Calls, Start(g) PROVE SinceRequest'
  <2>1. PICK q \in Request : /\ req' = [req EXCEPT ![g] = q]
                             /\ pc' = [pc EXCEPT ![g] = FirstStep(q.op)]
    BY <1>1 DEF Start
  <2>2. q.op \in {"refresh", "stats"} => FirstStep(q.op) = "drop"
    BY DEF FirstStep
  <2> QED
    BY <1>0, <1>1, <2>1, <2>2 DEF Start, SinceRequest
<1>2. ASSUME NEW g \in Calls, Finish(g) PROVE SinceRequest'
  BY <1>0, <1>2 DEF Finish, SinceRequest
<1>3. ASSUME NEW g \in Calls, Command(g) PROVE SinceRequest'
  BY <1>0, <1>3 DEF Command, SinceRequest, Asking
<1>4. ASSUME NEW g \in Calls, Drop(g) PROVE SinceRequest'
  BY <1>0, <1>4 DEF Drop, SinceRequest
<1>5. ASSUME NEW g \in Calls, CheckUsers(g) PROVE SinceRequest'
  BY <1>0, <1>5 DEF CheckUsers, Valid, SinceRequest
<1>6. ASSUME NEW g \in Calls, StoreUsers(g) PROVE SinceRequest'
  <2>1. seen[g].at + CmdTime >= now
    BY <1>0, <1>6 DEF StoreUsers, Ages, Within
  <2> QED
    BY <1>0, <1>6, <1>a, <2>1 DEF StoreUsers, Filled, Steps
<1>7. ASSUME NEW g \in Calls, DropUsers(g) PROVE SinceRequest'
  BY <1>a, <1>7 DEF DropUsers, Dropped, Steps
<1>8. ASSUME NEW g \in Calls, Serve(g), UNCHANGED users,
             ~(Command(g) \/ Drop(g) \/ CheckUsers(g))
      PROVE  SinceRequest'
  <2>1. /\ \A h \in Calls \ {g} : seen'[h] = seen[h]
        /\ UNCHANGED req
    BY <1>0, <1>8 DEF Serve, Reply, TakeUsers, StoreUsers, StampUsers,
       CheckProfile, StoreProfile, StampProfile, DropUsers, DropProfiles,
       ReturnList, ReturnProfile, Forget, Asking
  <2>2. Silent(g) \/ Answers(g) \/ Leaves(g)
    BY <1>0, <1>8, CallSteps
  <2> QED
    BY <1>a, <2>1, <2>2, <1>8 DEF Silent, Answers, Leaves, Moves, Steps, ListSteps
<1>9. CASE MapRace
  BY <1>0, <1>9 DEF MapRace, InFlight, SinceRequest
<1>10. CASE Tick
  <2>1. \A g \in Calls : pc[g] \notin {"checkUsers", "takeUsers"}
    BY <1>10 DEF Tick, Local, Steps, Asking
  <2> QED
    BY <1>0, <1>10, <2>1 DEF Tick, SinceRequest
<1>11. CASE Change \/ UNCHANGED vars
  BY <1>0, <1>11 DEF Change, vars, SinceRequest
<1>12. ASSUME NEW g \in Calls, Serve(g)
       PROVE  \/ Command(g) \/ Drop(g) \/ CheckUsers(g) \/ StoreUsers(g)
              \/ DropUsers(g) \/ UNCHANGED users
  BY <1>12 DEF Serve, Reply, TakeUsers, StampUsers, CheckProfile, StoreProfile,
               StampProfile, DropProfiles
<1> QED
  BY <1>1, <1>2, <1>3, <1>4, <1>5, <1>6, <1>7, <1>8, <1>9, <1>10, <1>11, <1>12
     DEF Next

LEMMA AlmostLiveStep == RefreshInv /\ [Next]_vars => RefreshAlmostLive'
<1> SUFFICES ASSUME RefreshInv, [Next]_vars, NEW g \in Calls, Refreshes(g)',
                    listed'[g] \in Snapshot
             PROVE  listed'[g].at + CmdTime >= from'[g].at
  BY DEF RefreshAlmostLive, Refreshes
<1>0. /\ ViewInv /\ SinceRequest /\ RefreshAlmostLive /\ Ages /\ Unanswered
      /\ pc \in [Calls -> Steps] /\ now \in Nat /\ CmdTime \in Nat
      /\ req \in [Calls -> Request]
      /\ seen \in [Calls -> Snapshot \union {NoList, Failed}]
      /\ listed \in [Calls -> Snapshot \union {NoAnswer, Failed, Torn}]
      /\ from \in [Calls -> [ver : Nat, at : Nat, acked : Nat]]
      /\ \A s \in Snapshot : s.at \in Nat
      /\ {NoAnswer, Failed, Torn} \intersect Snapshot = {}
  BY ConstantsAssumption DEF RefreshInv, ViewInv, TypeInv, TypeOK, Snapshot
<1>1. CASE listed'[g] = listed[g] /\ req'[g] = req[g] /\ from'[g] = from[g]
  BY <1>0, <1>1 DEF RefreshAlmostLive, Refreshes
<1>2. ASSUME NEW h \in Calls, Start(h) \/ Finish(h)
      PROVE  \/ listed'[g] = NoAnswer
             \/ listed'[g] = listed[g] /\ req'[g] = req[g] /\ from'[g] = from[g]
  BY <1>0, <1>2 DEF Start, Finish, answers, Unanswered
<1>3. ASSUME NEW list, ReturnList(g, list), Kept, list \in Snapshot,
             TakeUsers(g) \/ StampUsers(g)
      PROVE  list.at + CmdTime >= from[g].at
  <2>1. Refreshes(g) /\ listed'[g] = list
    BY <1>0, <1>3 DEF Kept, Refreshes, ReturnList
  <2>2. CASE TakeUsers(g)
    <3>1. list \in {seen[g], users, Torn}
      BY <1>0, <1>3, <2>1, <2>2 DEF TakeUsers, ReturnList
    <3> QED
      BY <1>0, <1>3, <2>1, <2>2, <3>1, ConstantsAssumption DEF TakeUsers, SinceRequest
  <2>3. CASE StampUsers(g)
    <3>1. list = seen[g]
      BY <1>0, <1>3, <2>1, <2>3 DEF StampUsers, ReturnList
    <3>2. seen[g].at + CmdTime >= now /\ from[g].at <= now
      BY <1>0, <2>1, <2>3 DEF StampUsers, Ages, Within, SinceRequest
    <3> QED
      BY <1>0, <1>3, <3>1, <3>2
  <2> QED
    BY <1>3, <2>2, <2>3
<1>4. ASSUME NEW h \in Calls, Serve(h)
      PROVE  \/ listed'[g] = listed[g] /\ req'[g] = req[g] /\ from'[g] = from[g]
             \/ listed'[g] = Failed
             \/ /\ h = g /\ (TakeUsers(g) \/ StampUsers(g))
                /\ Kept /\ \E list : ReturnList(g, list)
  BY <1>0, <1>4 DEF Serve, Command, Reply, Drop, CheckUsers, TakeUsers, StoreUsers,
     StampUsers, CheckProfile, StoreProfile, StampProfile, DropUsers,
     DropProfiles, ReturnList, ReturnProfile, Kept, history, answers, Asking
<1>5. CASE MapRace \/ Tick \/ Change \/ UNCHANGED vars
  BY <1>1, <1>5 DEF MapRace, Tick, Change, vars, answers, history
<1> QED
  <2>1. ASSUME NEW list, ReturnList(g, list), Kept, TakeUsers(g) \/ StampUsers(g)
        PROVE  listed'[g].at + CmdTime >= from'[g].at
    BY <1>0, <1>3, <2>1 DEF ReturnList, Kept, history
  <2> QED
    BY <1>0, <1>1, <1>2, <1>4, <1>5, <2>1 DEF Next

\* A list that ?refresh=true returns is at most one command timeout older than
\* the request, also when another call fills the cache after the drop.
THEOREM RefreshedListRecent == Spec => []RefreshAlmostLive
<1>1. Init => RefreshInv
  <2> SUFFICES ASSUME Init PROVE RefreshInv
    OBVIOUS
  <2>1. SinceRequest /\ RefreshAlmostLive
    BY ConstantsAssumption DEF Init, SinceRequest, RefreshAlmostLive
  <2> QED
    BY <2>1, ViewInvInit DEF RefreshInv
<1>2. RefreshInv /\ [Next]_vars => RefreshInv'
  BY ViewInvStep, SinceRequestStep, AlmostLiveStep DEF RefreshInv
<1>3. RefreshInv => RefreshAlmostLive
  BY DEF RefreshInv
<1> QED
  BY <1>1, <1>2, <1>3, PTL DEF Spec
----------------------------------------------------------------------------
(* Acknowledged writes.                                                    *)

\* The cache holds nothing from before the last write that was acknowledged.
CacheSince ==
  /\ acked <= ver
  /\ users # NoList => acked <= users.ver /\ users.ver <= ver
  /\ \A n \in Names : profiles[n] # NoList => acked <= profiles[n].ver

\* Nor does a call, whether it has taken something from the cache or is to
\* store it there.
Holds(g) == (pc[g] \in Filled \/ line = g) /\ seen[g] # Failed
HeldSince ==
  \A g \in Calls : Holds(g) => acked <= seen[g].ver /\ seen[g].ver <= ver

\* The first assignment of a write that meets nobody is not undone before the
\* second.
Emptied ==
  \A g \in alone : pc[g] = "dropProfiles" => users = NoList

\* What a call may expect was acknowledged, and nothing is answered before the
\* call.
Asked ==
  \A g \in Calls :
    from[g].acked <= acked /\ (pc[g] = "idle" => profiled[g] = NoAnswer)

\* AckedWriteSeen is not inductive: what calls and the cache hold is answered later.
SinceInv == CacheSince /\ HeldSince /\ Emptied /\ Asked /\ AckedWriteSeen
SeenInv == ViewInv /\ SinceInv

\* Every step keeps what SinceInv says; a call that goes on (<1>b) is the common
\* case, the command and the end of a write are the others.
LEMMA SinceStep == SeenInv /\ [Next]_vars => SinceInv'
<1> SUFFICES ASSUME SeenInv, [Next]_vars
             PROVE  SinceInv'
  OBVIOUS
<1>0. /\ ViewInv /\ SinceInv /\ Company /\ Unanswered
      /\ now \in Nat /\ ver \in Nat /\ acked \in Nat
      /\ pc \in [Calls -> Steps] /\ req \in [Calls -> Request]
      /\ line \in Calls \union {NoCall} /\ alone \subseteq Calls
      /\ users \in Snapshot \union {NoList}
      /\ profiles \in [Names -> Snapshot \union {NoList}]
      /\ seen \in [Calls -> Snapshot \union {NoList, Failed}]
      /\ listed \in [Calls -> Snapshot \union {NoAnswer, Failed, Torn}]
      /\ profiled \in [Calls -> Snapshot \union {NoAnswer, Failed}]
      /\ from \in [Calls -> [ver : Nat, at : Nat, acked : Nat]]
      /\ \A g \in Calls :
           /\ pc[g] \in Filled => seen[g] \in Snapshot
           /\ line = g => pc[g] \in Asking /\ seen[g] \in Snapshot \union {Failed}
  BY DEF SeenInv, ViewInv, TypeInv, TypeOK, Holding
<1>a. /\ NoCall \notin Calls /\ NoList \notin Snapshot /\ Failed \notin Snapshot
      /\ NoAnswer \notin Snapshot /\ Torn \notin Snapshot /\ Failed # NoList
      /\ \A s \in Snapshot : s.ver \in Nat /\ s.at \in Nat
      /\ \A q \in Request : q.name \in Names
  BY ConstantsAssumption DEF Snapshot, Request
<1> USE <1>0, <1>a DEF SinceInv, CacheSince, HeldSince, Holds, Emptied, Asked,
      AckedWriteSeen, router, conn, cache, history, answers, Kept, Go, Forget
<1>1. ASSUME NEW g \in Calls, Start(g) PROVE SinceInv'
  <2>1. PICK q \in Request : pc' = [pc EXCEPT ![g] = FirstStep(q.op)]
    BY <1>1 DEF Start
  <2>2. FirstStep(q.op) \in {"checkUsers", "drop", "checkProfile", "askWrite"}
    BY ConstantsAssumption DEF FirstStep, Request, AllOps
  <2>3. listed[g] = NoAnswer /\ profiled[g] = NoAnswer /\ line # g
    BY <1>1 DEF Start, Unanswered, Asking
  <2>4. /\ alone' \subseteq alone \union {g} /\ from'[g].acked = acked
        /\ \A h \in Calls : h # g => from'[h] = from[h]
    BY <1>1 DEF Start
  <2> QED
    BY <1>1, <2>1, <2>2, <2>3, <2>4 DEF Start, Filled
<1>2. ASSUME NEW g \in Calls, Finish(g) PROVE SinceInv'
  <2>1. from'[g].acked = 0 /\ \A h \in Calls : h # g => from'[h] = from[h]
    BY <1>2 DEF Finish, NoHistory
  <2> QED
    BY <1>2, <2>1 DEF Finish, Filled
\* A call goes on: what it takes along, answers and stores is recent enough.
<1>b. ASSUME NEW g \in Calls, NEW step \in Steps \ {"idle"},
             pc[g] \notin {"idle", "done"}, pc' = [pc EXCEPT ![g] = step],
             UNCHANGED <<ver, acked, from, alone>>, CacheSince',
             line' \in {line, NoCall}, line' # g,
             step \in Filled => acked <= seen'[g].ver /\ seen'[g].ver <= ver,
             step = "dropProfiles" => users' = NoList,
             \A h \in Calls \ {g} : seen'[h] = seen[h] /\ listed'[h] = listed[h]
                                    /\ profiled'[h] = profiled[h],
             listed'[g] = listed[g]
               \/ (listed'[g] \in Snapshot => acked <= listed'[g].ver),
             profiled'[g] = profiled[g]
               \/ (profiled'[g] \in Snapshot => acked <= profiled'[g].ver)
      PROVE  SinceInv'
  <2>1. HeldSince'
    BY <1>b
  <2>2. Emptied'
    BY <1>b DEF Company, InFlight
  <2>3. Asked'
    BY <1>b
  <2>4. AckedWriteSeen'
    <3>1. \A h \in Calls : from'[h].acked = from[h].acked /\ from[h].acked <= acked
                           /\ from[h].acked \in Nat
      BY <1>b
    <3> QED
      BY <1>b, <3>1
  <2> QED
    BY <1>b, <2>1, <2>2, <2>3, <2>4
\* The answer of ListUsers, and that of ListUserProfiles.
<1>c. ASSUME NEW g \in Calls, NEW list, ReturnList(g, list),
             list \in Snapshot => acked <= list.ver,
             pc[g] \notin {"idle", "done"}, UNCHANGED <<ver, acked, from, alone>>,
             CacheSince', line' \in {line, NoCall}, line' # g
      PROVE  SinceInv'
  <2>1. PICK step \in {"checkProfile", "done"} : pc' = [pc EXCEPT ![g] = step]
    BY <1>c DEF ReturnList
  <2>2. /\ listed'[g] = list /\ UNCHANGED profiled
        /\ \A h \in Calls \ {g} : seen'[h] = seen[h] /\ listed'[h] = listed[h]
    BY <1>c DEF ReturnList
  <2>3. step \in Steps \ {"idle"} /\ step \notin Filled
    BY DEF Steps, Filled
  <2> HIDE <1>0, <1>a DEF SinceInv, CacheSince
  <2> QED
    BY <1>b, <1>c, <2>1, <2>2, <2>3
<1>d. ASSUME NEW g \in Calls, NEW list, ReturnProfile(g, list),
             list \in Snapshot => acked <= list.ver,
             pc[g] \notin {"idle", "done"}, UNCHANGED <<ver, acked, from, alone>>,
             CacheSince', line' \in {line, NoCall}, line' # g
      PROVE  SinceInv'
  <2>1. pc' = [pc EXCEPT ![g] = "done"]
    BY <1>d DEF ReturnProfile
  <2>2. /\ profiled'[g] = list /\ UNCHANGED listed
        /\ \A h \in Calls \ {g} : seen'[h] = seen[h] /\ profiled'[h] = profiled[h]
    BY <1>d DEF ReturnProfile
  <2>3. "done" \in Steps \ {"idle"} /\ "done" \notin Filled
    BY DEF Steps, Filled
  <2> HIDE <1>0, <1>a DEF SinceInv, CacheSince
  <2> QED
    BY <1>b, <1>d, <2>1, <2>2, <2>3
<1>3. ASSUME NEW g \in Calls, Command(g) PROVE SinceInv'
  <2>1. /\ UNCHANGED <<cache, pc, answers, history, acked>>
        /\ \A h \in Calls \ {g} : seen'[h] = seen[h]
        /\ line' = g /\ line = NoCall /\ pc[g] \in Asking
        /\ ver' \in {ver, ver + 1}
    BY <1>3 DEF Command
  <2>2. seen'[g] = Failed \/ seen'[g].ver = ver'
    BY <1>3 DEF Command, Current
  <2>3. acked <= ver' /\ \A s \in Snapshot : s.ver <= ver => s.ver <= ver'
    BY <2>1
  <2>4. HeldSince'
    BY <2>1, <2>2, <2>3 DEF Asking, Filled
  <2> QED
    BY <2>1, <2>3, <2>4
<1>4. ASSUME NEW g \in Calls, Reply(g) PROVE SinceInv'
  <2>1. /\ line' = NoCall /\ UNCHANGED <<cache, ver, acked, from, alone>>
        /\ pc[g] \notin {"idle", "done"} /\ line' # g /\ line = g
        /\ seen[g] \in Snapshot \union {Failed}
    BY <1>4 DEF Reply, Unlock, Asking
  <2>2. CacheSince'
    BY <2>1
  <2>3. ASSUME seen[g] # Failed, UNCHANGED <<seen, answers>>,
               NEW step \in {"storeUsers", "storeProfile", "dropUsers"},
               pc' = [pc EXCEPT ![g] = step]
        PROVE  SinceInv'
    <3>1. acked <= seen[g].ver /\ seen[g].ver <= ver
      BY <2>1, <2>3
    <3>2. step \in Steps \ {"idle"} /\ step # "dropProfiles"
      BY DEF Steps
    <3> QED
      BY <1>b, <2>1, <2>2, <2>3, <3>1, <3>2
  <2>4. CASE ReturnList(g, Failed)
    BY <1>c, <2>1, <2>2, <2>4
  <2>5. CASE ReturnProfile(g, Failed)
    BY <1>d, <2>1, <2>2, <2>5
  <2>6. CASE Go(g, "done") /\ Forget(g) /\ UNCHANGED answers
    BY <1>b, <2>1, <2>2, <2>6 DEF Steps, Filled
  <2> QED
    BY <1>4, <2>3, <2>4, <2>5, <2>6 DEF Reply, Asking
<1>5. ASSUME NEW g \in Calls, Drop(g) PROVE SinceInv'
  BY <1>5 DEF Drop, Filled
<1>6. ASSUME NEW g \in Calls, CheckUsers(g) PROVE SinceInv'
  <2>1. /\ UNCHANGED <<cache, ver, acked, from, alone, line, answers>>
        /\ pc[g] = "checkUsers" /\ line # g
    BY <1>6 DEF CheckUsers, Asking
  <2>2. CacheSince'
    BY <2>1
  <2>3. CASE users # NoList /\ seen' = [seen EXCEPT ![g] = users]
             /\ Go(g, "takeUsers")
    <3>1. HeldSince'
      BY <1>6, <2>1, <2>3 DEF CheckUsers, Filled
    <3> QED
      BY <2>1, <2>2, <2>3, <3>1
  <2>4. CASE Go(g, "askUsers") /\ UNCHANGED seen
    BY <1>b, <2>1, <2>2, <2>4 DEF Steps, Filled
  <2> QED
    BY <1>6, <2>3, <2>4 DEF CheckUsers, Valid
<1>7. ASSUME NEW g \in Calls, TakeUsers(g) PROVE SinceInv'
  <2>1. /\ UNCHANGED <<cache, ver, acked, from, alone, line>>
        /\ pc[g] = "takeUsers" /\ line # g
    BY <1>7 DEF TakeUsers, Asking
  <2>2. CacheSince' /\ acked <= seen[g].ver
    BY <2>1 DEF Filled
  <2>3. PICK list : ReturnList(g, list) /\ (list \in Snapshot => acked <= list.ver)
    BY <1>7, <2>1, <2>2 DEF TakeUsers
  <2> QED
    BY <1>c, <2>1, <2>2, <2>3
<1>8. ASSUME NEW g \in Calls, StoreUsers(g) PROVE SinceInv'
  <2>1. /\ UNCHANGED <<profiles, ver, acked, from, alone, line, answers, seen>>
        /\ pc[g] = "storeUsers" /\ line # g /\ users' \in {seen[g], NoList}
        /\ pc' = [pc EXCEPT ![g] = "stampUsers"]
    BY <1>8 DEF StoreUsers, Asking
  <2>2. acked <= seen[g].ver /\ seen[g].ver <= ver
    BY <2>1 DEF Filled
  <2>3. CacheSince'
    BY <2>1, <2>2
  <2> QED
    BY <1>b, <2>1, <2>2, <2>3 DEF Steps
<1>9. ASSUME NEW g \in Calls, StampUsers(g) PROVE SinceInv'
  <2>1. /\ UNCHANGED <<users, profiles, ver, acked, from, alone, line>>
        /\ pc[g] = "stampUsers" /\ line # g /\ ReturnList(g, seen[g])
    BY <1>9 DEF StampUsers, Asking
  <2>2. CacheSince' /\ acked <= seen[g].ver
    BY <2>1 DEF Filled
  <2> QED
    BY <1>c, <2>1, <2>2
<1>10. ASSUME NEW g \in Calls, CheckProfile(g) PROVE SinceInv'
  <2>1. /\ UNCHANGED <<cache, ver, acked, from, alone, line>>
        /\ pc[g] = "checkProfile" /\ line # g
    BY <1>10 DEF CheckProfile, Asking
  <2>2. CacheSince'
    BY <2>1
  <2>3. CASE Go(g, "askProfile") /\ UNCHANGED <<seen, answers>>
    BY <1>b, <2>1, <2>2, <2>3 DEF Steps, Filled
  <2>4. ASSUME NEW entry, ReturnProfile(g, entry), entry = profiles[req[g].name],
               entry # NoList
        PROVE  SinceInv'
    <3>1. acked <= entry.ver
      BY <2>4
    <3> QED
      BY <1>d, <2>1, <2>2, <2>4, <3>1
  <2> QED
    BY <1>10, <2>3, <2>4 DEF CheckProfile, Valid
<1>11. ASSUME NEW g \in Calls, StoreProfile(g) PROVE SinceInv'
  BY <1>11 DEF StoreProfile, Filled
<1>12. ASSUME NEW g \in Calls, StampProfile(g) PROVE SinceInv'
  <2>1. /\ UNCHANGED <<users, profiles, ver, acked, from, alone, line>>
        /\ pc[g] = "stampProfile" /\ line # g /\ ReturnProfile(g, seen[g])
    BY <1>12 DEF StampProfile, Asking
  <2>2. CacheSince' /\ acked <= seen[g].ver
    BY <2>1 DEF Filled
  <2> QED
    BY <1>d, <2>1, <2>2
<1>13. ASSUME NEW g \in Calls, DropUsers(g) PROVE SinceInv'
  BY <1>13 DEF DropUsers, Dropped, Filled
<1>14. ASSUME NEW g \in Calls, DropProfiles(g) PROVE SinceInv'
  <2>1. /\ UNCHANGED <<users, ver, from, alone, line, answers>>
        /\ pc[g] = "dropProfiles" /\ line # g
        /\ profiles' = [n \in Names |-> NoList]
        /\ pc' = [pc EXCEPT ![g] = "done"] /\ seen' = [seen EXCEPT ![g] = NoList]
        /\ acked' = IF g \in alone /\ seen[g].ver > acked THEN seen[g].ver ELSE acked
    BY <1>14 DEF DropProfiles, Asking
  <2>2. acked <= seen[g].ver /\ seen[g].ver <= ver /\ seen[g].ver \in Nat
    BY <2>1 DEF Filled
  <2>3. CASE acked' = acked
    <3>1. CacheSince'
      BY <2>1, <2>3
    <3> QED
      BY <1>b, <2>1, <2>3, <3>1 DEF Steps, Filled
  <2>4. CASE g \in alone /\ acked' = seen[g].ver
    <3>1. users = NoList /\ InFlight = {g}
      BY <2>1, <2>4 DEF Company, InFlight
    <3>2. \A h \in Calls : h # g => pc[h] \in {"idle", "done"} /\ line # h
      BY <3>1 DEF InFlight, Asking
    <3>3. HeldSince'
      BY <2>1, <3>2 DEF Filled
    <3>4. \A h \in Calls : from[h].acked <= acked'
      BY <2>2, <2>4
    <3>5. AckedWriteSeen'
      BY <2>1
    <3> QED
      BY <2>1, <2>2, <2>4, <3>1, <3>3, <3>4, <3>5
  <2> QED
    BY <2>1, <2>3, <2>4
<1>15. CASE MapRace
  BY <1>15 DEF MapRace, InFlight, Filled
<1>16. CASE Tick \/ Change \/ UNCHANGED vars
  BY <1>16 DEF Tick, Change, vars
<1> QED
  BY <1>1, <1>2, <1>3, <1>4, <1>5, <1>6, <1>7, <1>8, <1>9, <1>10, <1>11,
     <1>12, <1>13, <1>14, <1>15, <1>16 DEF Next, Serve

\* A call that began after an acknowledged write that met no other call is not
\* shown anything from before it, for any goroutines, accounts, TTL and bounds.
THEOREM AckedWritesSeen == Spec => []AckedWriteSeen
<1>1. Init => SinceInv
  BY ConstantsAssumption DEF Init, SinceInv, CacheSince, HeldSince, Holds, Filled,
     Emptied, Asked, AckedWriteSeen, NoHistory
<1>2. Init => SeenInv
  BY <1>1, ViewInvInit DEF SeenInv
<1>3. SeenInv /\ [Next]_vars => SeenInv'
  BY ViewInvStep, SinceStep DEF SeenInv
<1>4. SeenInv => AckedWriteSeen
  BY DEF SeenInv, SinceInv
<1> QED
  BY <1>2, <1>3, <1>4, PTL DEF Spec
=============================================================================

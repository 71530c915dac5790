------------------------ MODULE RenewalLedgerProofs ------------------------
(***************************************************************************)
(* Proofs about RenewalLedger: its type invariant; that exactly what       *)
(* acknowledged settlements cover is settled (SettledExactly), with the    *)
(* shares it had (SettledSharesKept); and what a call that nothing         *)
(* disturbs reads, heals and leaves alone (NewestHealed, ReportAddsUp,     *)
(* HistoryKept).                                                           *)
(***************************************************************************)
EXTENDS RenewalLedger, FiniteSetTheorems, TLAPS

USE DEF calls, tables, history

----------------------------------------------------------------------------
(* What the statements do to the table.                                    *)

Rows(r) == r \subseteq Activation

\* Every row of r comes from a row of q, from which it differs in its shares
\* at most.
SameButShares(r, q) ==
  \A b \in r : \E a \in q : /\ a.id = b.id /\ a.account = b.account
                            /\ a.created = b.created /\ a.settled = b.settled

\* Laying live values over rows gives rows.
LEMMA ShownIsRows ==
  ASSUME TypeOK, LedgerAssumption, NEW r \in SUBSET Activation, NEW chosen
  PROVE  Shown(r, chosen) \in SUBSET Activation
<1> SUFFICES ASSUME NEW a \in r
             PROVE  Overlay(a, chosen) \in Activation
  BY DEF Shown
<1>1. a \in Activation
  OBVIOUS
<1>2. shared[a.account] \in Shares \union {Absent}
  BY <1>1 DEF TypeOK, Activation
<1>3. shared[a.account] # Absent => shared[a.account] \in Nat
  BY <1>2, LedgerAssumption DEF Shares
<1> QED
  BY <1>1, <1>3 DEF Overlay, Activation

\* The rows chosen for healing are rows that were read.
LEMMA LatestIsRead ==
  ASSUME NEW r, NEW l \in Latest(r)
  PROVE  l \subseteq r
BY DEF Latest, Newest

\* Healing an activation changes its shares only.
LEMMA StoreKeepsRest ==
  ASSUME TypeOK, NEW row \in Activation, Store(row)
  PROVE  /\ acts' \subseteq {a \in Activation : a.shared > 0}
         /\ SameButShares(acts', acts)
<1>1. CASE ~Accepted(row.shared)
  BY <1>1 DEF Store, SameButShares, TypeOK
<1>2. CASE Accepted(row.shared)
  <2>1. acts' = {IF a.id = row.id THEN Stored(a, row) ELSE a : a \in acts}
    BY <1>2 DEF Store
  <2>2. ASSUME NEW b \in acts'
        PROVE  /\ b \in Activation /\ b.shared > 0
               /\ \E a \in acts : /\ a.id = b.id /\ a.account = b.account
                                  /\ a.created = b.created
                                  /\ a.settled = b.settled
    <3>1. PICK a \in acts : b = IF a.id = row.id THEN Stored(a, row) ELSE a
      BY <2>1
    <3>2. a \in Activation /\ a.shared > 0
      BY DEF TypeOK
    <3>3. row.shared \in Nat /\ row.shared > 0
      BY <1>2 DEF Accepted, Activation
    <3> QED
      BY <3>1, <3>2, <3>3 DEF Stored, Activation
  <2> QED
    BY <2>2 DEF SameButShares
<1> QED
  BY <1>1, <1>2

\* What a call keeps when it has asked the router.
LEMMA LocalAsked ==
  ASSUME loc \in [Calls -> Local], NEW g \in Calls,
         NEW I \in SUBSET Activation, NEW U \in SUBSET Activation,
         NEW T \in SUBSET Activation
  PROVE  [loc EXCEPT ![g].items = I, ![g].summed = U,
                     ![g].todo = T, ![g].seen = {}] \in [Calls -> Local]
<1> DEFINE shows == [loc EXCEPT ![g].items = I, ![g].summed = U]
<1>1. shows \in [Calls -> Local]
  BY DEF Local
<1> HIDE DEF shows
<1>2. [shows EXCEPT ![g].todo = T, ![g].seen = {}] \in [Calls -> Local]
  BY <1>1 DEF Local
<1> QED
  BY <1>2 DEF shows

----------------------------------------------------------------------------
(* Type correctness.                                                       *)

\* The type invariant for every instance: no request, failure or change leaves
\* a row without positive shares, or a call in no step.
LEMMA TypeInit == LedgerAssumption /\ Init => TypeOK
<1> SUFFICES ASSUME LedgerAssumption, Init PROVE TypeOK
  OBVIOUS
<1>1. NoRequest \in Requests
  BY LedgerAssumption DEF NoRequest
<1>2. Blank \in Local
  BY DEF Blank, Local
<1> QED
  BY <1>1, <1>2 DEF Init, TypeOK, Steps, LedgerAssumption, Shares

LEMMA TypeStep == LedgerAssumption /\ TypeOK /\ [Next]_vars => TypeOK'
<1> SUFFICES ASSUME LedgerAssumption, TypeOK, [Next]_vars
             PROVE  TypeOK'
  OBVIOUS
<1> USE DEF TypeOK, Steps
<1>0. NoRequest \in Requests /\ Blank \in Local
  BY LedgerAssumption DEF NoRequest, Blank, Local
<1>1. ASSUME NEW g \in Calls, Start(g) PROVE TypeOK'
  <2>1. PICK q \in Requests : /\ req' = [req EXCEPT ![g] = q]
                              /\ pc' = [pc EXCEPT ![g] = FirstStep(q.op)]
                              /\ loc' = [loc EXCEPT ![g].value =
                                   IF q.op = "create" THEN q.shared ELSE 0]
    BY <1>1 DEF Start
  <2>2. q.op \in Ops /\ q.shared \in Nat
    BY LedgerAssumption DEF Request, Shares
  <2>3. FirstStep(q.op) \in Steps
    BY <2>2 DEF FirstStep, Ops
  <2>4. loc' \in [Calls -> Local]
    BY <2>1, <2>2 DEF Local
  <2> QED
    BY <1>1, <2>1, <2>3, <2>4 DEF Start
<1>2. ASSUME NEW g \in Calls, Finish(g) PROVE TypeOK'
  BY <1>0, <1>2 DEF Finish
<1>3. ASSUME NEW g \in Calls, ReadItems(g) PROVE TypeOK'
  <2> DEFINE rows == {a \in acts : InFilter(a, req[g])}
  <2>1. rows \in SUBSET Activation
    OBVIOUS
  <2>2. loc' \in [Calls -> Local]
    <3>1. loc' = [loc EXCEPT ![g].items = rows] \/ UNCHANGED loc
      BY <1>3 DEF ReadItems
    <3> HIDE DEF rows
    <3> QED
      BY <2>1, <3>1 DEF Local
  <2> QED
    BY <1>3, <2>2 DEF ReadItems, Go, Fail
<1>4. ASSUME NEW g \in Calls, ReadRows(g) PROVE TypeOK'
  <2> DEFINE rows == {a \in acts : InFilter(a, req[g])}
  <2>1. rows \in SUBSET Activation
    OBVIOUS
  <2>2. loc' \in [Calls -> Local]
    <3>1. \/ loc' = [loc EXCEPT ![g].summed = rows]
          \/ loc' = [loc EXCEPT ![g].seen = rows]
          \/ UNCHANGED loc
      BY <1>4 DEF ReadRows
    <3> HIDE DEF rows
    <3>2. CASE loc' = [loc EXCEPT ![g].summed = rows]
      BY <2>1, <3>2 DEF Local
    <3>3. CASE loc' = [loc EXCEPT ![g].seen = rows]
      BY <2>1, <3>3 DEF Local
    <3>4. CASE UNCHANGED loc
      BY <3>4
    <3> QED
      BY <3>1, <3>2, <3>3, <3>4
  <2> QED
    BY <1>4, <2>2 DEF ReadRows, Go, Fail
<1>5. ASSUME NEW g \in Calls, ReadActs(g) PROVE TypeOK'
  <2>1. {a \in acts : a.account = req[g].account} \in SUBSET Activation
    OBVIOUS
  <2>2. loc' \in [Calls -> Local]
    BY <1>5, <2>1 DEF ReadActs, Local
  <2> QED
    BY <1>5, <2>2 DEF ReadActs, Go, Fail
<1>6. ASSUME NEW g \in Calls, AskRouter(g) PROVE TypeOK'
  <2>0. loc[g] \in Local
    OBVIOUS
  <2>1. loc' \in [Calls -> Local]
    <3>1. CASE \E chosen \in Latest(loc[g].seen) :
                 loc' = [loc EXCEPT
                   ![g].items = Shown(@, chosen),
                   ![g].summed = IF req[g].op = "list"
                                 THEN Summed(loc[g].seen, chosen) ELSE {},
                   ![g].todo = Shown({a \in chosen :
                                 Changed(Overlay(a, chosen), a)}, chosen),
                   ![g].seen = {}]
      <4>1. PICK chosen \in Latest(loc[g].seen) :
                 loc' = [loc EXCEPT
                   ![g].items = Shown(@, chosen),
                   ![g].summed = IF req[g].op = "list"
                                 THEN Summed(loc[g].seen, chosen) ELSE {},
                   ![g].todo = Shown({a \in chosen :
                                 Changed(Overlay(a, chosen), a)}, chosen),
                   ![g].seen = {}]
        BY <3>1
      <4>2. chosen \subseteq loc[g].seen
        BY LatestIsRead
      <4>3. /\ loc[g].items \in SUBSET Activation
            /\ loc[g].seen \in SUBSET Activation
            /\ {a \in chosen : Changed(Overlay(a, chosen), a)}
                 \in SUBSET Activation
        BY <2>0, <4>2 DEF Local
      <4>4. /\ Shown(loc[g].items, chosen) \in SUBSET Activation
            /\ Shown(loc[g].seen, chosen) \in SUBSET Activation
            /\ Shown({a \in chosen : Changed(Overlay(a, chosen), a)}, chosen)
                 \in SUBSET Activation
        BY <4>3, ShownIsRows, LedgerAssumption
      <4>5. (IF req[g].op = "list" THEN Summed(loc[g].seen, chosen) ELSE {})
              \in SUBSET Activation
        BY <4>4 DEF Summed
      <4> DEFINE T == Shown({a \in chosen : Changed(Overlay(a, chosen), a)},
                            chosen)
                 I == Shown(loc[g].items, chosen)
                 U == IF req[g].op = "list"
                      THEN Summed(loc[g].seen, chosen) ELSE {}
      <4>6. loc' = [loc EXCEPT ![g].items = I, ![g].summed = U,
                               ![g].todo = T, ![g].seen = {}]
        BY <4>1
      <4>7. /\ T \in SUBSET Activation /\ I \in SUBSET Activation
            /\ U \in SUBSET Activation
        BY <4>4, <4>5
      <4> HIDE DEF T, I, U
      <4> QED
        BY <4>6, <4>7, LocalAsked
    <3>2. CASE loc' = [loc EXCEPT ![g].seen = {}]
      BY <3>2 DEF Local
    <3> QED
      BY <1>6, <3>1, <3>2 DEF AskRouter
  <2> QED
    BY <1>6, <2>1 DEF AskRouter, Go, Fail
<1>7. ASSUME NEW g \in Calls, Heal(g) PROVE TypeOK'
  <2>1. PICK row \in loc[g].todo :
          /\ loc' = [loc EXCEPT ![g].todo = @ \ {row}]
          /\ Store(row) \/ UNCHANGED acts
    BY <1>7 DEF Heal
  <2>2. row \in Activation
    BY DEF Local
  <2>3. acts' \subseteq {a \in Activation : a.shared > 0}
    BY <2>1, <2>2, StoreKeepsRest
  <2>4. loc' \in [Calls -> Local]
    BY <2>1 DEF Local
  <2>5. /\ pc' \in [Calls -> Steps] /\ UNCHANGED req
        /\ calm' \in Calls \union {NoCall}
    BY <1>7 DEF Heal, Go, Fail
  <2> QED
    BY <1>7, <2>3, <2>4, <2>5 DEF Heal
<1>8. ASSUME NEW g \in Calls, FindAct(g) PROVE TypeOK'
  <2>1. loc' \in [Calls -> Local]
    BY <1>8 DEF FindAct, Local
  <2> QED
    BY <1>8, <2>1 DEF FindAct, Go, Fail
<1>9. ASSUME NEW g \in Calls, CheckScope(g) PROVE TypeOK'
  BY <1>9 DEF CheckScope, Go, Fail
<1>10. ASSUME NEW g \in Calls, Settle(g) PROVE TypeOK'
  <2>1. loc' \in [Calls -> Local]
    BY <1>10 DEF Settle, Local
  <2>2. PICK through \in loc[g].seen :
          \/ /\ acts' = {[a EXCEPT !.settled =
                            @ \/ Covers(a, req[g].scope, through)] : a \in acts}
             /\ cuts' = cuts \union {[scope |-> req[g].scope,
                                      id |-> through.id,
                                      created |-> through.created]}
          \/ UNCHANGED <<acts, cuts>>
    BY <1>10 DEF Settle
  <2>3. through \in Activation
    BY DEF Local
  <2>4. req[g].scope \in Scopes
    BY LedgerAssumption DEF Request
  <2>5. cuts' \subseteq [scope : Scopes, created : Nat, id : Nat]
    BY <2>2, <2>3, <2>4 DEF Activation
  <2>6. acts' \subseteq {a \in Activation : a.shared > 0}
    <3> DEFINE After(a) == [a EXCEPT !.settled =
                              @ \/ Covers(a, req[g].scope, through)]
    <3>1. ASSUME NEW a \in acts
          PROVE  After(a) \in Activation /\ After(a).shared > 0
      <4>1. a \in Activation /\ a.shared > 0
        OBVIOUS
      <4>2. (a.settled \/ Covers(a, req[g].scope, through)) \in BOOLEAN
        BY <4>1 DEF Activation
      <4> HIDE DEF Covers
      <4> QED
        BY <4>1, <4>2 DEF Activation
    <3> HIDE DEF After
    <3>2. CASE acts' = {After(a) : a \in acts}
      BY <3>1, <3>2
    <3>3. CASE UNCHANGED acts
      BY <3>3
    <3> QED
      BY <2>2, <3>2, <3>3 DEF After
  <2>7. /\ pc' \in [Calls -> Steps] /\ UNCHANGED req
        /\ calm' \in Calls \union {NoCall}
    BY <1>10 DEF Settle, Go, Fail
  <2> QED
    BY <1>10, <2>1, <2>5, <2>6, <2>7 DEF Settle
<1>11. ASSUME NEW g \in Calls, SetShared(g) PROVE TypeOK'
  <2>1. req[g].shared \in Shares
    BY LedgerAssumption DEF Request
  <2>2. shared' \in [Accounts -> Shares \union {Absent}]
    BY <1>11, <2>1 DEF SetShared
  <2> QED
    BY <1>11, <2>2 DEF SetShared, Go, Fail
<1>12. ASSUME NEW g \in Calls, Sync(g) PROVE TypeOK'
  <2>1. req[g].shared \in Nat
    BY LedgerAssumption DEF Request, Shares
  <2>2. acts' \subseteq {a \in Activation : a.shared > 0}
    <3>1. CASE \E a \in Current(req[g].account) :
                 Store([a EXCEPT !.shared = req[g].shared])
      <4>1. PICK a \in Current(req[g].account) :
              Store([a EXCEPT !.shared = req[g].shared])
        BY <3>1
      <4>2. [a EXCEPT !.shared = req[g].shared] \in Activation
        BY <2>1 DEF Current, Activation
      <4> QED
        BY <4>1, <4>2, StoreKeepsRest
    <3>2. CASE UNCHANGED acts
      BY <3>2
    <3> QED
      BY <1>12, <3>1, <3>2 DEF Sync
  <2> QED
    BY <1>12, <2>2 DEF Sync, Go, Fail
<1>13. ASSUME NEW g \in Calls, SyncFails(g) PROVE TypeOK'
  BY <1>13 DEF SyncFails, Go, Fail
<1>14. ASSUME NEW g \in Calls, ReadUser(g) PROVE TypeOK'
  <2>1. \/ UNCHANGED loc
        \/ \E s \in Nat : loc' = [loc EXCEPT ![g].value = s]
    BY <1>14 DEF ReadUser, Shares
  <2>2. loc' \in [Calls -> Local]
    BY <2>1 DEF Local
  <2> QED
    BY <1>14, <2>2 DEF ReadUser, Go, Fail
<1>15. ASSUME NEW g \in Calls, Record(g) PROVE TypeOK'
  <2>1. loc[g].value \in Nat /\ req[g].account \in Accounts
    BY LedgerAssumption DEF Local, Request
  <2>2. loc' \in [Calls -> Local]
    BY <1>15 DEF Record, Local
  <2>3. /\ acts' \subseteq {a \in Activation : a.shared > 0}
        /\ nextId' \in 1..(MaxActs + 1)
    <3> DEFINE new == [id |-> nextId, account |-> req[g].account,
                       created |-> now, shared |-> loc[g].value,
                       settled |-> FALSE]
    <3>1. \/ /\ loc[g].value > 0 /\ nextId <= MaxActs
             /\ acts' = acts \union {new} /\ nextId' = nextId + 1
          \/ UNCHANGED <<acts, nextId>>
      BY <1>15 DEF Record, Accepted
    <3>2. now \in Nat /\ nextId \in Nat /\ MaxActs \in Nat
      BY LedgerAssumption
    <3>3. new \in Activation /\ new.shared = loc[g].value
      BY <2>1, <3>2 DEF Activation
    <3> HIDE DEF new
    <3>4. nextId <= MaxActs => nextId + 1 \in 1..(MaxActs + 1)
      BY <3>2
    <3>5. CASE /\ loc[g].value > 0 /\ nextId <= MaxActs
               /\ acts' = acts \union {new} /\ nextId' = nextId + 1
      BY <3>3, <3>4, <3>5
    <3> QED
      BY <3>1, <3>5
  <2>4. /\ pc' \in [Calls -> Steps] /\ UNCHANGED req
        /\ calm' \in Calls \union {NoCall}
    BY <1>15 DEF Record, Go, Fail
  <2> QED
    BY <1>15, <2>2, <2>3, <2>4 DEF Record
<1>16. ASSUME NEW n \in Accounts, Edit(n) PROVE TypeOK'
  BY <1>16, LedgerAssumption DEF Edit, Change
<1>17. ASSUME NEW n \in Accounts, Move(n) PROVE TypeOK'
  BY <1>17, LedgerAssumption DEF Move, Change
<1>18. ASSUME NEW n \in Accounts, DeleteRow(n) PROVE TypeOK'
  BY <1>18, LedgerAssumption DEF DeleteRow, Change
<1>19. CASE Tick
  BY <1>19, LedgerAssumption DEF Tick
<1>20. CASE UNCHANGED vars
  BY <1>20 DEF vars
<1> QED
  BY <1>1, <1>2, <1>3, <1>4, <1>5, <1>6, <1>7, <1>8, <1>9, <1>10, <1>11,
     <1>12, <1>13, <1>14, <1>15, <1>16, <1>17, <1>18, <1>19, <1>20
  DEF Next, Serve

\* Every state is of the type TypeOK, for every instance of the constants.
THEOREM LedgerTypeCorrect == Spec => []TypeOK
BY LedgerAssumption, TypeInit, TypeStep, PTL DEF Spec

----------------------------------------------------------------------------
(* Settlements.                                                            *)

\* Records of this time and this AUTOINCREMENT.  A new activation is later
\* than any of them, so no settlement that was made covers it.
Known(r) == \A a \in r : a.id < nextId /\ a.created <= now

\* SettledExactly is not inductive by itself: the activation a call settles
\* through was read earlier and may have been deleted meanwhile, so what was
\* read has to be known as well.
LedgerInv ==
  /\ TypeOK
  /\ Known(acts) /\ Known(cuts) /\ \A g \in Calls : Known(loc[g].seen)
  /\ SettledExactly

LEMMA LedgerInit == LedgerAssumption /\ Init => LedgerInv
BY TypeInit DEF Init, LedgerInv, Known, SettledExactly, Blank

\* A call has read rows that were in the table.
LEMMA SeenStep ==
  ASSUME LedgerAssumption, TypeOK, [Next]_vars, NEW g \in Calls
  PROVE  loc'[g].seen \subseteq acts \union loc[g].seen
<1> USE DEF TypeOK
<1>0. loc[g] \in Local /\ Blank.seen = {}
  BY DEF Blank
<1>1. ASSUME NEW h \in Calls, ReadRows(h) \/ ReadActs(h) \/ FindAct(h)
      PROVE  loc'[g].seen \subseteq acts \union loc[g].seen
  <2>1. CASE ReadRows(h)
    BY <1>0, <2>1 DEF ReadRows, Local
  <2>2. CASE ReadActs(h)
    BY <1>0, <2>2 DEF ReadActs, Local
  <2>3. CASE FindAct(h)
    BY <1>0, <2>3 DEF FindAct, Local
  <2> QED
    BY <1>1, <2>1, <2>2, <2>3
<1>2. ASSUME NEW h \in Calls, AskRouter(h) \/ Settle(h)
      PROVE  loc'[g].seen \subseteq loc[g].seen
  <2>1. CASE Settle(h)
    BY <1>0, <2>1 DEF Settle, Local
  <2>2. CASE AskRouter(h)
    <3>1. g # h => loc'[g] = loc[g]
      BY <2>2 DEF AskRouter
    <3>2. loc'[h].seen = {}
      <4>1. CASE loc' = [loc EXCEPT ![h].seen = {}]
        BY <1>0, <4>1 DEF Local
      <4>2. ASSUME NEW I, NEW U, NEW T,
                   loc' = [loc EXCEPT ![h].items = I, ![h].summed = U,
                                      ![h].todo = T, ![h].seen = {}]
            PROVE  loc'[h].seen = {}
        <5> DEFINE rest == [loc EXCEPT ![h].items = I, ![h].summed = U,
                                       ![h].todo = T]
        <5>1. DOMAIN rest = Calls /\ "seen" \in DOMAIN rest[h]
          BY DEF Local
        <5> HIDE DEF rest
        <5>2. loc' = [rest EXCEPT ![h].seen = {}]
          BY <4>2 DEF rest
        <5> QED
          BY <5>1, <5>2
      <4> QED
        BY <2>2, <4>1, <4>2 DEF AskRouter
    <3> QED
      BY <3>1, <3>2
  <2> QED
    BY <1>2, <2>1, <2>2
<1>3. ASSUME NEW h \in Calls, Start(h) \/ ReadItems(h) \/ Heal(h) \/ ReadUser(h)
                              \/ Record(h)
      PROVE  loc'[g].seen = loc[g].seen
  <2>1. CASE Start(h)
    BY <1>0, <2>1 DEF Start, Local
  <2>2. CASE ReadItems(h) \/ Heal(h)
    BY <1>0, <2>2 DEF ReadItems, Heal, Local
  <2>3. CASE ReadUser(h) \/ Record(h)
    BY <1>0, <2>3 DEF ReadUser, Record, Local
  <2> QED
    BY <1>3, <2>1, <2>2, <2>3
<1>4. ASSUME NEW h \in Calls, Finish(h)
      PROVE  loc'[g].seen \subseteq loc[g].seen
  BY <1>0, <1>4 DEF Finish
<1>5. ASSUME NEW h \in Calls, CheckScope(h) \/ SetShared(h) \/ Sync(h)
                              \/ SyncFails(h)
      PROVE  UNCHANGED loc
  BY <1>5 DEF CheckScope, SetShared, Sync, SyncFails
<1>6. ASSUME NEW n \in Accounts, Edit(n) \/ Move(n) \/ DeleteRow(n)
      PROVE  UNCHANGED loc
  BY <1>6 DEF Edit, Move, DeleteRow
<1>7. CASE Tick \/ UNCHANGED vars
  BY <1>7 DEF Tick, vars
<1> QED
  BY <1>1, <1>2, <1>3, <1>4, <1>5, <1>6, <1>7 DEF Next, Serve

\* The steps that change more of the ledger than shares.
LEMMA LedgerSteps ==
  ASSUME LedgerAssumption, TypeOK, [Next]_vars
  PROVE  \/ /\ SameButShares(acts', acts) /\ now' \in {now, now + 1}
            /\ UNCHANGED <<owner, nextId, cuts, moved>>
         \/ \E g \in Calls : Settle(g) \/ Record(g)
         \/ \E n \in Accounts : Move(n) \/ DeleteRow(n)
<1> USE DEF TypeOK
<1> DEFINE Rest == UNCHANGED <<owner, nextId, cuts, moved>>
<1>0. UNCHANGED acts => SameButShares(acts', acts)
  BY DEF SameButShares
<1>1. ASSUME NEW g \in Calls,
             Start(g) \/ Finish(g) \/ ReadItems(g) \/ ReadRows(g) \/ ReadActs(g)
      PROVE  UNCHANGED <<acts, now>> /\ Rest
  BY <1>1 DEF Start, Finish, ReadItems, ReadRows, ReadActs
<1>2. ASSUME NEW g \in Calls,
             AskRouter(g) \/ FindAct(g) \/ CheckScope(g) \/ SetShared(g)
               \/ SyncFails(g) \/ ReadUser(g)
      PROVE  UNCHANGED <<acts, now>> /\ Rest
  BY <1>2 DEF AskRouter, FindAct, CheckScope, SetShared, SyncFails, ReadUser
<1>3. ASSUME NEW g \in Calls, Heal(g)
      PROVE  SameButShares(acts', acts) /\ UNCHANGED now /\ Rest
  <2>1. PICK row \in loc[g].todo : Store(row) \/ UNCHANGED acts
    BY <1>3 DEF Heal
  <2>2. row \in Activation
    BY DEF Local
  <2> QED
    BY <1>0, <1>3, <2>1, <2>2, StoreKeepsRest DEF Heal
<1>4. ASSUME NEW g \in Calls, Sync(g)
      PROVE  SameButShares(acts', acts) /\ UNCHANGED now /\ Rest
  <2>1. req[g].shared \in Nat
    BY LedgerAssumption DEF Request, Shares
  <2>2. CASE \E a \in Current(req[g].account) :
               Store([a EXCEPT !.shared = req[g].shared])
    <3>1. PICK a \in Current(req[g].account) :
            Store([a EXCEPT !.shared = req[g].shared])
      BY <2>2
    <3>2. [a EXCEPT !.shared = req[g].shared] \in Activation
      BY <2>1 DEF Current, Activation
    <3> QED
      BY <1>4, <3>1, <3>2, StoreKeepsRest DEF Sync
  <2>3. CASE UNCHANGED acts
    BY <1>0, <1>4, <2>3 DEF Sync
  <2> QED
    BY <1>4, <2>2, <2>3 DEF Sync
<1>5. ASSUME NEW n \in Accounts, Edit(n)
      PROVE  UNCHANGED <<acts, now>> /\ Rest
  BY <1>5 DEF Edit
<1>6. CASE Tick
  BY <1>0, <1>6 DEF Tick
<1>7. CASE UNCHANGED vars
  BY <1>0, <1>7 DEF vars
<1> QED
  BY <1>0, <1>1, <1>2, <1>3, <1>4, <1>5, <1>6, <1>7 DEF Next, Serve

\* Neither the clock nor the AUTOINCREMENT goes back.
LEMMA Forward ==
  ASSUME LedgerAssumption, TypeOK, [Next]_vars
  PROVE  /\ now \in Nat /\ nextId \in Nat /\ now' \in Nat /\ nextId' \in Nat
         /\ now <= now' /\ nextId <= nextId'
<1>1. now \in Nat /\ nextId \in Nat
  BY DEF TypeOK
<1>2. now' \in {now, now + 1} /\ nextId' \in {nextId, nextId + 1}
  <2>1. ASSUME NEW g \in Calls, Settle(g) \/ Record(g)
        PROVE  UNCHANGED now /\ nextId' \in {nextId, nextId + 1}
    BY <2>1 DEF Settle, Record
  <2>2. ASSUME NEW n \in Accounts, Move(n) \/ DeleteRow(n)
        PROVE  UNCHANGED <<now, nextId>>
    BY <2>2 DEF Move, DeleteRow
  <2> QED
    BY <2>1, <2>2, LedgerSteps
<1> QED
  BY <1>1, <1>2

LEMMA LedgerStep == LedgerAssumption /\ LedgerInv /\ [Next]_vars => LedgerInv'
<1> SUFFICES ASSUME LedgerAssumption, LedgerInv, [Next]_vars
             PROVE  LedgerInv'
  OBVIOUS
<1>1. TypeOK /\ TypeOK'
  BY TypeStep DEF LedgerInv
<1>2. /\ now \in Nat /\ nextId \in Nat /\ now' \in Nat /\ nextId' \in Nat
      /\ now <= now' /\ nextId <= nextId'
  BY <1>1, Forward
<1>3. /\ \A a \in acts : a.id \in Nat /\ a.created \in Nat
      /\ \A c \in cuts : c.id \in Nat /\ c.created \in Nat
      /\ \A g \in Calls : \A a \in loc[g].seen : a.id \in Nat /\ a.created \in Nat
  BY <1>1 DEF TypeOK, Activation, Local
<1>4. ASSUME NEW a, a.id \in Nat, a.created \in Nat,
             a.id < nextId, a.created <= now
      PROVE  a.id < nextId' /\ a.created <= now'
  BY <1>2, <1>4
<1>5. \A g \in Calls : \A a \in loc'[g].seen : a.id < nextId' /\ a.created <= now'
  <2>1. SUFFICES ASSUME NEW g \in Calls, NEW a \in loc'[g].seen
                 PROVE  a.id < nextId' /\ a.created <= now'
    OBVIOUS
  <2>2. a \in acts \union loc[g].seen
    BY <1>1, SeenStep
  <2> QED
    BY <1>3, <1>4, <2>2 DEF LedgerInv, Known
<1>6. /\ \A a \in acts' : a.id < nextId' /\ a.created <= now'
      /\ \A c \in cuts' : c.id < nextId' /\ c.created <= now'
      /\ SettledExactly'
  <2>1. /\ \A a \in acts : a.id < nextId' /\ a.created <= now'
        /\ \A c \in cuts : c.id < nextId' /\ c.created <= now'
    BY <1>3, <1>4 DEF LedgerInv, Known
  <2>2. SettledExactly
    BY DEF LedgerInv
  <2>3. CASE /\ SameButShares(acts', acts)
             /\ UNCHANGED <<owner, nextId, cuts, moved>>
    BY <2>1, <2>2, <2>3 DEF SameButShares, SettledExactly, Before
  <2>4. ASSUME NEW g \in Calls, Settle(g)
        PROVE  /\ \A a \in acts' : a.id < nextId' /\ a.created <= now'
               /\ \A c \in cuts' : c.id < nextId' /\ c.created <= now'
               /\ SettledExactly'
    <3> DEFINE scope == req[g].scope
    <3>1. UNCHANGED <<owner, moved>>
      BY <2>4 DEF Settle
    <3>2. PICK through \in loc[g].seen :
            \/ /\ acts' = {[a EXCEPT !.settled = @ \/ Covers(a, scope, through)]
                             : a \in acts}
               /\ cuts' = cuts \union {[scope |-> scope, id |-> through.id,
                                        created |-> through.created]}
            \/ UNCHANGED <<acts, cuts>>
      BY <2>4 DEF Settle
    <3>3. through.id < nextId' /\ through.created <= now'
      BY <1>3, <1>4 DEF LedgerInv, Known
    <3>4. CASE UNCHANGED <<acts, cuts>>
      BY <2>1, <2>2, <3>1, <3>4 DEF SettledExactly, Before
    <3>5. CASE /\ acts' = {[a EXCEPT !.settled = @ \/ Covers(a, scope, through)]
                             : a \in acts}
               /\ cuts' = cuts \union {[scope |-> scope, id |-> through.id,
                                        created |-> through.created]}
      <4> DEFINE cut == [scope |-> scope, id |-> through.id,
                         created |-> through.created]
      <4>1. \A c \in cuts' : c.id < nextId' /\ c.created <= now'
        BY <2>1, <3>3, <3>5
      <4>2. ASSUME NEW b \in acts'
            PROVE  /\ b.id < nextId' /\ b.created <= now'
                   /\ b.account \notin moved =>
                        (b.settled <=> \E c \in cuts' :
                           c.scope = owner[b.account] /\ Before(b, c))
        <5>1. PICK a \in acts :
                b = [a EXCEPT !.settled = @ \/ Covers(a, scope, through)]
          BY <3>5
        <5>2. /\ b.id = a.id /\ b.account = a.account /\ b.created = a.created
              /\ b.settled <=> a.settled \/ Covers(a, scope, through)
          BY <1>1, <5>1 DEF TypeOK, Activation
        <5>3. Covers(a, scope, through) <=>
                cut.scope = owner[a.account] /\ Before(b, cut)
          BY <5>2 DEF Covers, Before
        <5>4. \A c : Before(a, c) <=> Before(b, c)
          BY <5>2 DEF Before
        <5> QED
          BY <2>1, <2>2, <3>5, <5>2, <5>3, <5>4 DEF SettledExactly
      <4> QED
        BY <3>1, <4>1, <4>2 DEF SettledExactly, Before
    <3> QED
      BY <3>2, <3>4, <3>5
  <2>5. ASSUME NEW g \in Calls, Record(g)
        PROVE  /\ \A a \in acts' : a.id < nextId' /\ a.created <= now'
               /\ \A c \in cuts' : c.id < nextId' /\ c.created <= now'
               /\ SettledExactly'
    <3>1. UNCHANGED <<owner, cuts, moved, now>>
      BY <2>5 DEF Record
    <3>2. CASE UNCHANGED <<acts, nextId>>
      BY <2>1, <2>2, <3>1, <3>2 DEF SettledExactly, Before
    <3> DEFINE new == [id |-> nextId, account |-> req[g].account,
                       created |-> now, shared |-> loc[g].value,
                       settled |-> FALSE]
    <3>3. CASE acts' = acts \union {new} /\ nextId' = nextId + 1
      <4>1. /\ new.id = nextId /\ new.created = now /\ ~new.settled
            /\ new.id < nextId' /\ new.created <= now'
        BY <1>2, <3>1, <3>3
      <4> HIDE DEF new
      <4>2. \A c \in cuts : ~Before(new, c)
        <5>1. \A c \in cuts : c.id < nextId /\ c.created <= now
          BY DEF LedgerInv, Known
        <5> QED
          BY <1>2, <1>3, <4>1, <5>1 DEF Before
      <4> QED
        BY <2>1, <2>2, <3>1, <3>3, <4>1, <4>2 DEF SettledExactly, Before
    <3> QED
      BY <2>5, <3>2, <3>3 DEF Record
  <2>6. ASSUME NEW n \in Accounts, Move(n) \/ DeleteRow(n)
        PROVE  /\ \A a \in acts' : a.id < nextId' /\ a.created <= now'
               /\ \A c \in cuts' : c.id < nextId' /\ c.created <= now'
               /\ SettledExactly'
    <3>1. /\ acts' \subseteq acts /\ UNCHANGED cuts /\ moved \subseteq moved'
          /\ \A a \in acts' : a.account \notin moved' =>
               owner'[a.account] = owner[a.account]
      BY <1>1, <2>6 DEF Move, DeleteRow, TypeOK, Activation
    <3> QED
      BY <2>1, <2>2, <3>1 DEF SettledExactly, Before
  <2> QED
    BY <1>1, <2>3, <2>4, <2>5, <2>6, LedgerSteps
<1> QED
  BY <1>1, <1>5, <1>6 DEF LedgerInv, Known

\* Settle-through settles exactly what it covers, for every instance: a
\* renewal is neither settled by a later one nor left out, however healing,
\* recording, patching and deleting interleave with settlements.
THEOREM SettledExactlyCovered == Spec => []SettledExactly
<1>1. LedgerInv => SettledExactly
  BY DEF LedgerInv
<1> QED
  BY LedgerAssumption, LedgerInit, LedgerStep, <1>1, PTL DEF Spec
----------------------------------------------------------------------------
(* A call that nothing disturbs.                                           *)

\* No other request is served while a call is calm.
CalmAlone == calm # NoCall => \A h \in InFlight : h = calm

\* The steps that the requests of an operation take.
Route(op) ==
  {"idle", "done", "failed"} \union
    CASE op = "list"    -> {"readItems", "readRows", "askRouter", "heal"}
      [] op = "details" -> {"readActs", "askRouter", "heal"}
      [] op = "settle"  -> {"findAct", "checkScope", "settle"}
      [] op = "patch"   -> {"setShared", "sync", "readActs", "askRouter", "heal"}
      [] op = "assign"  -> {"readUser", "record", "readActs", "askRouter", "heal"}
      [] op = "create"  -> {"record"}

OnRoute(g) ==
  /\ pc[g] \in Route(req[g].op)
  /\ req[g].op = "list" /\ pc[g] \in {"askRouter", "heal"} => req[g].filter # "settled"

\* Every step of a call stays on its route.
LEMMA RouteStep ==
  ASSUME LedgerAssumption, TypeOK, \A g \in Calls : OnRoute(g), [Next]_vars,
         NEW g \in Calls
  PROVE  OnRoute(g)'
<1>0. \A h \in Calls : req[h].op \in Ops
  BY LedgerAssumption DEF TypeOK, Request
<1> USE <1>0 DEF TypeOK, OnRoute, Route, Ops, Go, Fail
<1>1. ASSUME NEW h \in Calls, Start(h) PROVE OnRoute(g)'
  <2>1. PICK q \in Requests : /\ req' = [req EXCEPT ![h] = q]
                              /\ pc' = [pc EXCEPT ![h] = FirstStep(q.op)]
    BY <1>1 DEF Start
  <2>2. q.op \in Ops
    BY LedgerAssumption DEF Request
  <2> QED
    BY <2>1, <2>2 DEF FirstStep
<1>2. ASSUME NEW h \in Calls, Finish(h) PROVE OnRoute(g)'
  <2>1. NoRequest \in Requests /\ NoRequest.op \in Ops
    BY LedgerAssumption DEF NoRequest, Request
  <2> QED
    BY <1>2, <2>1 DEF Finish
<1>3. ASSUME NEW h \in Calls, ReadItems(h) PROVE OnRoute(g)'
  BY <1>3 DEF ReadItems
<1>4. ASSUME NEW h \in Calls, ReadRows(h) PROVE OnRoute(g)'
  BY <1>4 DEF ReadRows
<1>5. ASSUME NEW h \in Calls, ReadActs(h) PROVE OnRoute(g)'
  BY <1>5 DEF ReadActs
<1>6. ASSUME NEW h \in Calls, AskRouter(h) PROVE OnRoute(g)'
  <2>1. /\ pc[h] = "askRouter" /\ UNCHANGED req
        /\ \E step \in {"done", "heal", "failed"} : pc' = [pc EXCEPT ![h] = step]
    BY <1>6 DEF AskRouter
  <2>2. pc[h] = "askRouter" =>
          req[h].op \in {"list", "details", "patch", "assign"}
    OBVIOUS
  <2> QED
    BY <2>1, <2>2
<1>7. ASSUME NEW h \in Calls, Heal(h) PROVE OnRoute(g)'
  BY <1>7 DEF Heal
<1>8. ASSUME NEW h \in Calls, FindAct(h) \/ CheckScope(h) \/ Settle(h) PROVE OnRoute(g)'
  BY <1>8 DEF FindAct, CheckScope, Settle
<1>9. ASSUME NEW h \in Calls, SetShared(h) \/ Sync(h) \/ SyncFails(h) PROVE OnRoute(g)'
  BY <1>9 DEF SetShared, Sync, SyncFails
<1>10. ASSUME NEW h \in Calls, ReadUser(h) PROVE OnRoute(g)'
  BY <1>10 DEF ReadUser
<1>11. ASSUME NEW h \in Calls, Record(h) PROVE OnRoute(g)'
  BY <1>11 DEF Record
<1>12. ASSUME NEW n \in Accounts, Edit(n) \/ Move(n) \/ DeleteRow(n) PROVE OnRoute(g)'
  BY <1>12 DEF Edit, Move, DeleteRow
<1>13. CASE Tick \/ UNCHANGED vars
  BY <1>13 DEF Tick, vars
<1> QED
  BY <1>1, <1>2, <1>3, <1>4, <1>5, <1>6, <1>7, <1>8, <1>9, <1>10, <1>11, <1>12,
     <1>13 DEF Next, Serve

\* What happens to a call that stays calm: it begins, takes a step of its own
\* or is left alone.
LEMMA CalmStep ==
  ASSUME LedgerAssumption, TypeOK, CalmAlone, [Next]_vars, calm' # NoCall
  PROVE  /\ CalmAlone'
         /\ calm' \in Calls
         /\ \/ Start(calm')
            \/ calm' = calm /\ Serve(calm)
            \/ /\ calm' = calm /\ UNCHANGED <<shared, tables>>
               /\ pc'[calm] = pc[calm] /\ req'[calm] = req[calm]
               /\ loc'[calm] = loc[calm]
<1>0. calm' \in Calls
  BY TypeStep DEF TypeOK
<1> USE <1>0 DEF CalmAlone, InFlight, TypeOK
<1>1. ASSUME NEW h \in Calls, Start(h)
      PROVE  h = calm' /\ CalmAlone'
  BY <1>1 DEF Start
<1>2. ASSUME NEW h \in Calls, Finish(h)
      PROVE  /\ CalmAlone' /\ calm' = calm /\ UNCHANGED <<shared, tables>>
             /\ pc'[calm] = pc[calm] /\ req'[calm] = req[calm]
             /\ loc'[calm] = loc[calm]
  BY <1>2 DEF Finish, Ended
<1>3. ASSUME NEW h \in Calls, Serve(h)
      PROVE  CalmAlone' /\ calm' = calm /\ h = calm
  <2>1. pc[h] \notin {"idle", "done", "failed"}
    BY <1>3 DEF Serve, ReadItems, ReadRows, ReadActs, AskRouter, Heal, FindAct,
                CheckScope, Settle, SetShared, Sync, SyncFails, ReadUser, Record
  <2>2. calm' = calm /\ \A k \in Calls : k # h => pc'[k] = pc[k]
    BY <1>3 DEF Serve, ReadItems, ReadRows, ReadActs, AskRouter, Heal, FindAct,
                CheckScope, Settle, SetShared, Sync, SyncFails, ReadUser, Record,
                Go, Fail
  <2> QED
    BY <2>1, <2>2 DEF Ended
<1>4. ASSUME NEW n \in Accounts
      PROVE  ~(Edit(n) \/ Move(n) \/ DeleteRow(n))
  BY DEF Edit, Move, DeleteRow, Change
<1>5. CASE Tick \/ UNCHANGED vars
  BY <1>5 DEF Tick, vars
<1> QED
  BY <1>1, <1>2, <1>3, <1>4, <1>5 DEF Next

----------------------------------------------------------------------------
(* The rows of the table.                                                  *)

\* No id is given twice.
Unique == \A a, b \in acts : a.id = b.id => a = b

\* What is to be healed was not settled when it was read.
TodoUnsettled == \A g \in Calls : \A row \in loc[g].todo : ~row.settled

\* What an update of shares makes of a row.
LEMMA StoreRow ==
  ASSUME TypeOK, Unique, NEW row \in Activation, Store(row)
  PROVE  /\ Unique'
         /\ \A a \in acts : \E b \in acts' :
              b.id = a.id /\ b = IF Accepted(row.shared) /\ a.id = row.id
                                 THEN Stored(a, row) ELSE a
         /\ \A a \in acts, b \in acts' : a.id = b.id =>
              b = IF Accepted(row.shared) /\ a.id = row.id THEN Stored(a, row) ELSE a
<1> DEFINE F(a) == IF Accepted(row.shared) /\ a.id = row.id THEN Stored(a, row) ELSE a
<1>1. acts' = {F(a) : a \in acts}
  BY DEF Store
<1>2. \A a \in acts : F(a).id = a.id
  BY DEF Stored, TypeOK, Activation
<1> HIDE DEF F
<1>3. \A b \in acts' : \E a \in acts : b = F(a) /\ b.id = a.id
  BY <1>1, <1>2
<1>4. \A a \in acts, b \in acts' : a.id = b.id => b = F(a)
  BY <1>3 DEF Unique
<1>5. Unique'
  BY <1>3 DEF Unique
<1>6. \A a \in acts : F(a) \in acts' /\ F(a).id = a.id
  BY <1>1, <1>2
<1> QED
  BY <1>4, <1>5, <1>6 DEF F

\* The row that a patch stores is in the domain of Store.
LEMMA SyncRow ==
  ASSUME LedgerAssumption, TypeOK, NEW g \in Calls, NEW a \in Current(req[g].account)
  PROVE  /\ a \in acts /\ a.account = req[g].account /\ ~a.settled
         /\ [a EXCEPT !.shared = req[g].shared] \in Activation
         /\ [a EXCEPT !.shared = req[g].shared].id = a.id
         /\ [a EXCEPT !.shared = req[g].shared].shared = req[g].shared
BY DEF Current, TypeOK, Activation, Request, Shares, LedgerAssumption

\* The steps that write the table.
LEMMA ActsStep ==
  ASSUME [Next]_vars
  PROVE  \/ UNCHANGED acts
         \/ \E g \in Calls : Heal(g) \/ Sync(g) \/ Settle(g) \/ Record(g)
         \/ \E n \in Accounts : DeleteRow(n)
<1>1. ASSUME NEW g \in Calls,
             Start(g) \/ Finish(g) \/ ReadItems(g) \/ ReadRows(g) \/ ReadActs(g)
               \/ AskRouter(g)
      PROVE  UNCHANGED acts
  BY <1>1 DEF Start, Finish, ReadItems, ReadRows, ReadActs, AskRouter
<1>2. ASSUME NEW g \in Calls,
             FindAct(g) \/ CheckScope(g) \/ SetShared(g) \/ SyncFails(g) \/ ReadUser(g)
      PROVE  UNCHANGED acts
  BY <1>2 DEF FindAct, CheckScope, SetShared, SyncFails, ReadUser
<1>3. ASSUME NEW n \in Accounts, Edit(n) \/ Move(n)
      PROVE  UNCHANGED acts
  BY <1>3 DEF Edit, Move
<1>4. CASE Tick \/ UNCHANGED vars
  BY <1>4 DEF Tick, vars
<1> QED
  BY <1>1, <1>2, <1>3, <1>4 DEF Next, Serve

\* Only a patch and the healing of a report change the shares of an activation.
LEMMA SharesStep ==
  ASSUME LedgerAssumption, LedgerInv, Unique, [Next]_vars,
         NEW a \in acts, NEW b \in acts', a.id = b.id, a.shared # b.shared
  PROVE  \E g \in Calls :
           \/ Sync(g) /\ a \in Current(req[g].account)
           \/ /\ Heal(g) /\ calm' = calm
              /\ \E row \in loc[g].todo : row.id = a.id /\ row.shared = b.shared
<1>0. TypeOK
  BY DEF LedgerInv
<1> DEFINE Goal == \E g \in Calls :
           \/ Sync(g) /\ a \in Current(req[g].account)
           \/ /\ Heal(g) /\ calm' = calm
              /\ \E row \in loc[g].todo : row.id = a.id /\ row.shared = b.shared
<1>u. UNCHANGED acts => FALSE
  BY DEF Unique
<1>1. ASSUME NEW g \in Calls, Heal(g)
      PROVE  Goal
  <2>1. PICK row \in loc[g].todo : Store(row) /\ calm' = calm
    BY <1>1, <1>u DEF Heal
  <2>2. row \in Activation /\ a \in Activation
    BY <1>0 DEF TypeOK, Local
  <2>3. b = IF Accepted(row.shared) /\ a.id = row.id THEN Stored(a, row) ELSE a
    BY <1>0, <2>1, <2>2, StoreRow
  <2>4. row.id = a.id /\ row.shared = b.shared
    BY <2>2, <2>3 DEF Stored, Activation
  <2> QED
    BY <1>1, <2>1, <2>4
<1>2. ASSUME NEW g \in Calls, Sync(g)
      PROVE  Goal
  <2>1. PICK c \in Current(req[g].account) :
            Store([c EXCEPT !.shared = req[g].shared])
    BY <1>2, <1>u DEF Sync
  <2> DEFINE row == [c EXCEPT !.shared = req[g].shared]
  <2>2. c \in acts /\ row \in Activation /\ row.id = c.id /\ Store(row)
    BY <1>0, <2>1, SyncRow
  <2> HIDE DEF row
  <2>3. b = IF Accepted(row.shared) /\ a.id = row.id THEN Stored(a, row) ELSE a
    BY <1>0, <2>2, StoreRow
  <2>4. a = c
    BY <2>2, <2>3 DEF Unique
  <2> QED
    BY <1>2, <2>4
<1>3. ASSUME NEW g \in Calls, Settle(g)
      PROVE  FALSE
  <2>1. PICK through \in loc[g].seen :
          acts' = {[c EXCEPT !.settled = @ \/ Covers(c, req[g].scope, through)]
                     : c \in acts}
    BY <1>3, <1>u DEF Settle
  <2>2. PICK c \in acts :
          b = [c EXCEPT !.settled = @ \/ Covers(c, req[g].scope, through)]
    BY <2>1
  <2>3. b.id = c.id /\ b.shared = c.shared
    BY <1>0, <2>2 DEF TypeOK, Activation
  <2> QED
    BY <2>3 DEF Unique
<1>4. ASSUME NEW g \in Calls, Record(g)
      PROVE  FALSE
  <2>1. b \in acts \/ b.id = nextId
    BY <1>4 DEF Record
  <2>2. a.id < nextId /\ nextId \in Nat
    BY <1>0 DEF LedgerInv, Known, TypeOK
  <2> QED
    BY <2>1, <2>2 DEF Unique
<1>5. ASSUME NEW n \in Accounts, DeleteRow(n)
      PROVE  FALSE
  BY <1>5 DEF DeleteRow, Unique
<1> QED
  BY <1>u, <1>1, <1>2, <1>3, <1>4, <1>5, ActsStep

\* The AUTOINCREMENT gives a new id.
LEMMA UniqueStep ==
  ASSUME LedgerAssumption, LedgerInv, Unique, [Next]_vars
  PROVE  Unique'
<1>0. TypeOK
  BY DEF LedgerInv
<1>u. UNCHANGED acts => Unique'
  BY DEF Unique
<1>1. ASSUME NEW g \in Calls, Heal(g)
      PROVE  Unique'
  <2>1. PICK row \in loc[g].todo : Store(row) \/ UNCHANGED acts
    BY <1>1 DEF Heal
  <2>2. row \in Activation
    BY <1>0 DEF TypeOK, Local
  <2> QED
    BY <1>0, <1>u, <2>1, <2>2, StoreRow
<1>2. ASSUME NEW g \in Calls, Sync(g)
      PROVE  Unique'
  <2>1. CASE \E c \in Current(req[g].account) :
               Store([c EXCEPT !.shared = req[g].shared])
    BY <1>0, <2>1, SyncRow, StoreRow
  <2> QED
    BY <1>2, <1>u, <2>1 DEF Sync
<1>3. ASSUME NEW g \in Calls, Settle(g)
      PROVE  Unique'
  <2>1. CASE \E through \in loc[g].seen :
          acts' = {[c EXCEPT !.settled = @ \/ Covers(c, req[g].scope, through)]
                     : c \in acts}
    <3>1. PICK through \in loc[g].seen :
          acts' = {[c EXCEPT !.settled = @ \/ Covers(c, req[g].scope, through)]
                     : c \in acts}
      BY <2>1
    <3> DEFINE F(c) == [c EXCEPT !.settled = @ \/ Covers(c, req[g].scope, through)]
    <3>2. \A c \in acts : F(c).id = c.id
      BY <1>0 DEF TypeOK, Activation
    <3>3. acts' = {F(c) : c \in acts}
      BY <3>1
    <3> HIDE DEF F
    <3> QED
      BY <3>2, <3>3 DEF Unique
  <2> QED
    BY <1>3, <1>u, <2>1 DEF Settle
<1>4. ASSUME NEW g \in Calls, Record(g)
      PROVE  Unique'
  <2>1. \A a \in acts : a.id < nextId /\ nextId \in Nat
    BY <1>0 DEF LedgerInv, Known, TypeOK
  <2> DEFINE new == [id |-> nextId, account |-> req[g].account, created |-> now,
                     shared |-> loc[g].value, settled |-> FALSE]
  <2>2. new.id = nextId
    OBVIOUS
  <2>3. UNCHANGED acts \/ acts' = acts \union {new}
    BY <1>4 DEF Record
  <2> HIDE DEF new
  <2> QED
    BY <1>u, <2>1, <2>2, <2>3 DEF Unique
<1>5. ASSUME NEW n \in Accounts, DeleteRow(n)
      PROVE  Unique'
  BY <1>5 DEF DeleteRow, Unique
<1> QED
  BY <1>u, <1>1, <1>2, <1>3, <1>4, <1>5, ActsStep

\* What a call has after it has asked the router.
LEMMA AskedValues ==
  ASSUME loc \in [Calls -> Local], NEW g \in Calls, NEW I, NEW U, NEW T,
         loc' = [loc EXCEPT ![g].items = I, ![g].summed = U,
                            ![g].todo = T, ![g].seen = {}]
  PROVE  /\ loc'[g].items = I /\ loc'[g].summed = U /\ loc'[g].todo = T
         /\ \A h \in Calls : h # g => loc'[h] = loc[h]
<1> DEFINE l1 == [loc EXCEPT ![g].items = I]
           l2 == [l1 EXCEPT ![g].summed = U]
           l3 == [l2 EXCEPT ![g].todo = T]
           D == {"seen", "items", "summed", "todo", "value"}
<1>0. DOMAIN loc = Calls /\ DOMAIN loc[g] = D
  BY DEF Local
<1>1. /\ DOMAIN l1 = Calls /\ DOMAIN l1[g] = D /\ l1[g].items = I
      /\ \A h \in Calls : h # g => l1[h] = loc[h]
  BY <1>0
<1> HIDE DEF l1
<1>2. /\ DOMAIN l2 = Calls /\ DOMAIN l2[g] = D /\ l2[g].items = I /\ l2[g].summed = U
      /\ \A h \in Calls : h # g => l2[h] = loc[h]
  BY <1>1
<1> HIDE DEF l2
<1>3. /\ DOMAIN l3 = Calls /\ DOMAIN l3[g] = D /\ l3[g].items = I /\ l3[g].summed = U
      /\ l3[g].todo = T /\ \A h \in Calls : h # g => l3[h] = loc[h]
  BY <1>2
<1> HIDE DEF l3
<1>4. loc' = [l3 EXCEPT ![g].seen = {}]
  BY DEF l1, l2, l3
<1> QED
  BY <1>3, <1>4

\* What asking the router does: it fails, or it leaves a call with a choice of
\* the newest rows laid over what the call shows.
Asked(g, chosen) ==
  LET stale == {a \in chosen : Changed(Overlay(a, chosen), a)}
  IN /\ loc'[g].items = Shown(loc[g].items, chosen)
     /\ loc'[g].summed = IF req[g].op = "list" THEN Shown(loc[g].seen, chosen) ELSE {}
     /\ loc'[g].todo = Shown(stale, chosen)
     /\ pc' = [pc EXCEPT ![g] = IF stale = {} THEN "done" ELSE "heal"]
     /\ calm' = calm

\* A call that asks the router either fails or has what Asked says.
LEMMA AskedStep ==
  ASSUME TypeOK, NEW g \in Calls, AskRouter(g)
  PROVE  /\ \A h \in Calls : h # g => loc'[h] = loc[h]
         /\ \/ calm' = NoCall /\ loc'[g].todo = loc[g].todo
            \/ \E chosen \in Latest(loc[g].seen) : Asked(g, chosen)
<1> USE DEF TypeOK
<1>1. CASE loc' = [loc EXCEPT ![g].seen = {}] /\ calm' = NoCall
  BY <1>1 DEF Local
<1>2. ASSUME NEW chosen \in Latest(loc[g].seen),
             loc' = [loc EXCEPT
                   ![g].items = Shown(@, chosen),
                   ![g].summed = IF req[g].op = "list"
                                 THEN Summed(loc[g].seen, chosen) ELSE {},
                   ![g].todo = Shown({a \in chosen :
                                 Changed(Overlay(a, chosen), a)}, chosen),
                   ![g].seen = {}],
             Go(g, IF {a \in chosen : Changed(Overlay(a, chosen), a)} = {}
                   THEN "done" ELSE "heal"),
             UNCHANGED calm
      PROVE  (\A h \in Calls : h # g => loc'[h] = loc[h]) /\ Asked(g, chosen)
  <2> DEFINE T == Shown({a \in chosen : Changed(Overlay(a, chosen), a)}, chosen)
             I == Shown(loc[g].items, chosen)
             U == IF req[g].op = "list" THEN Summed(loc[g].seen, chosen) ELSE {}
  <2>1. loc' = [loc EXCEPT ![g].items = I, ![g].summed = U,
                           ![g].todo = T, ![g].seen = {}]
    BY <1>2
  <2>2. U = IF req[g].op = "list" THEN Shown(loc[g].seen, chosen) ELSE {}
    BY DEF Summed
  <2> HIDE DEF T, I, U
  <2>3. /\ loc'[g].items = I /\ loc'[g].summed = U /\ loc'[g].todo = T
        /\ \A h \in Calls : h # g => loc'[h] = loc[h]
    BY <2>1, AskedValues
  <2> QED
    BY <1>2, <2>2, <2>3 DEF Asked, T, I, Go
<1> QED
  BY <1>1, <1>2 DEF AskRouter, Fail

\* Laying live values over a row changes its shares at most.
LEMMA OverlayKeeps ==
  ASSUME NEW a \in Activation, NEW chosen
  PROVE  LET b == Overlay(a, chosen)
         IN /\ b.id = a.id /\ b.account = a.account /\ b.settled = a.settled
            /\ b.created = a.created
            /\ b.shared # a.shared => /\ ~a.settled /\ shared[a.account] # Absent
                                      /\ b.shared = shared[a.account]
BY DEF Overlay, Activation

\* What a call has to heal, it has got from the router.
LEMMA TodoStep ==
  ASSUME LedgerAssumption, TypeOK, [Next]_vars, NEW g \in Calls
  PROVE  \/ loc'[g].todo \subseteq loc[g].todo
         \/ \E chosen \in Latest(loc[g].seen) : AskRouter(g) /\ Asked(g, chosen)
<1> USE DEF TypeOK
<1>0. loc[g] \in Local /\ Blank.todo = {}
  BY DEF Blank
<1>1. ASSUME NEW h \in Calls, AskRouter(h)
      PROVE  \/ loc'[g].todo = loc[g].todo
             \/ \E chosen \in Latest(loc[g].seen) : AskRouter(g) /\ Asked(g, chosen)
  BY <1>1, AskedStep
<1>2. ASSUME NEW h \in Calls, Heal(h)
      PROVE  loc'[g].todo \subseteq loc[g].todo
  <2>1. PICK row : loc' = [loc EXCEPT ![h].todo = @ \ {row}]
    BY <1>2 DEF Heal
  <2> QED
    BY <1>0, <2>1 DEF Local
<1>3. ASSUME NEW h \in Calls, Start(h) \/ ReadItems(h) \/ ReadRows(h) \/ ReadUser(h)
                              \/ Record(h)
      PROVE  loc'[g].todo = loc[g].todo
  <2>1. CASE Start(h)
    BY <1>0, <2>1 DEF Start, Local
  <2>2. CASE ReadItems(h)
    BY <1>0, <2>2 DEF ReadItems, Local
  <2>3. CASE ReadRows(h)
    BY <1>0, <2>3 DEF ReadRows, Local
  <2>4. CASE ReadUser(h) \/ Record(h)
    BY <1>0, <2>4 DEF ReadUser, Record, Local
  <2> QED
    BY <1>3, <2>1, <2>2, <2>3, <2>4
<1>4. ASSUME NEW h \in Calls, ReadActs(h) \/ FindAct(h) \/ Settle(h)
      PROVE  loc'[g].todo = loc[g].todo
  <2>1. CASE FindAct(h)
    BY <1>0, <2>1 DEF FindAct, Local
  <2>2. CASE Settle(h)
    BY <1>0, <2>2 DEF Settle, Local
  <2>3. CASE ReadActs(h)
    <3> DEFINE rows == {a \in acts : a.account = req[h].account}
    <3>1. UNCHANGED loc \/ loc' = [loc EXCEPT ![h].seen = rows, ![h].items = rows]
      BY <2>3 DEF ReadActs
    <3> HIDE DEF rows
    <3> QED
      BY <1>0, <3>1 DEF Local
  <2> QED
    BY <1>4, <2>1, <2>2, <2>3
<1>5. ASSUME NEW h \in Calls, Finish(h)
      PROVE  loc'[g].todo \subseteq loc[g].todo
  BY <1>0, <1>5 DEF Finish
<1>6. ASSUME NEW h \in Calls, CheckScope(h) \/ SetShared(h) \/ Sync(h)
                              \/ SyncFails(h)
      PROVE  UNCHANGED loc
  BY <1>6 DEF CheckScope, SetShared, Sync, SyncFails
<1>7. ASSUME NEW n \in Accounts, Edit(n) \/ Move(n) \/ DeleteRow(n)
      PROVE  UNCHANGED loc
  BY <1>7 DEF Edit, Move, DeleteRow
<1>8. CASE Tick \/ UNCHANGED vars
  BY <1>8 DEF Tick, vars
<1> QED
  BY <1>1, <1>2, <1>3, <1>4, <1>5, <1>6, <1>7, <1>8 DEF Next, Serve

\* The rows and what is done with them; SettledSharesKept and HistoryKept need
\* that ids are unique and that nothing settled is healed.
RowInv ==
  /\ LedgerInv /\ Unique /\ TodoUnsettled
  /\ \A g \in Calls : OnRoute(g)

\* The table begins empty.
LEMMA RowInit == LedgerAssumption /\ Init => RowInv
<1> SUFFICES ASSUME LedgerAssumption, Init PROVE RowInv
  OBVIOUS
<1>1. LedgerInv
  BY LedgerInit
<1>2. Unique /\ TodoUnsettled
  BY DEF Init, Unique, TodoUnsettled, Blank
<1>3. \A g \in Calls : OnRoute(g)
  BY DEF Init, OnRoute, Route
<1> QED
  BY <1>1, <1>2, <1>3 DEF RowInv

\* Every step keeps what RowInv says of the rows.
LEMMA RowStep == LedgerAssumption /\ RowInv /\ [Next]_vars => RowInv'
<1> SUFFICES ASSUME LedgerAssumption, RowInv, [Next]_vars
             PROVE  RowInv'
  OBVIOUS
<1>0. TypeOK
  BY DEF RowInv, LedgerInv
<1>1. LedgerInv'
  BY LedgerStep DEF RowInv
<1>2. Unique'
  BY UniqueStep DEF RowInv
<1>3. TodoUnsettled'
  <2> SUFFICES ASSUME NEW g \in Calls, NEW row \in loc'[g].todo
               PROVE  ~row.settled
    BY DEF TodoUnsettled
  <2>1. CASE loc'[g].todo \subseteq loc[g].todo
    BY <2>1 DEF RowInv, TodoUnsettled
  <2>2. ASSUME NEW chosen \in Latest(loc[g].seen), Asked(g, chosen)
        PROVE  ~row.settled
    <3>1. PICK a \in chosen : row = Overlay(a, chosen)
      BY <2>2 DEF Asked, Shown
    <3>2. a \in loc[g].seen /\ ~a.settled
      BY <3>1 DEF Latest, Newest
    <3>3. a \in Activation
      BY <1>0, <3>2 DEF TypeOK, Local
    <3> QED
      BY <3>1, <3>2, <3>3, OverlayKeeps
  <2> QED
    BY <1>0, <2>1, <2>2, TodoStep
<1>4. \A g \in Calls : OnRoute(g)'
  BY <1>0, RouteStep DEF RowInv
<1> QED
  BY <1>1, <1>2, <1>3, <1>4 DEF RowInv

\* RowInv holds in every state.
LEMMA RowAlways == Spec => []RowInv
BY LedgerAssumption, RowInit, RowStep, PTL DEF Spec

\* A settled activation keeps its shares, for every instance: no patch and no
\* report that reads it after the settlement rewrites it.
THEOREM SettledSharesStay == Spec => SettledSharesKept
<1>1. RowInv /\ [Next]_vars =>
        [\A a \in acts, b \in acts' :
           a.id = b.id /\ a.settled /\ ~Healed(a) => b.shared = a.shared]_vars
  <2> SUFFICES ASSUME RowInv, [Next]_vars, NEW a \in acts, NEW b \in acts',
                      a.id = b.id, a.settled, ~Healed(a), b.shared # a.shared
               PROVE  FALSE
    OBVIOUS
  <2>1. PICK g \in Calls :
           \/ Sync(g) /\ a \in Current(req[g].account)
           \/ /\ Heal(g) /\ calm' = calm
              /\ \E row \in loc[g].todo : row.id = a.id /\ row.shared = b.shared
    BY SharesStep, LedgerAssumption DEF RowInv
  <2>2. CASE Heal(g) /\ \E row \in loc[g].todo : row.id = a.id
    BY <2>2 DEF Healed, RowInv, TodoUnsettled, Heal
  <2> QED
    BY <2>1, <2>2 DEF Current
<1> QED
  BY <1>1, RowAlways, PTL DEF Spec, SettledSharesKept

----------------------------------------------------------------------------
(* Reports and details that nothing disturbs.                              *)

\* A report without an upper date shows every unsettled activation of its
\* accounts, and so does what is read for the details of one.
Whole(g) == req[g].op = "list" => req[g].to = MaxTime

\* The accounts that a call compares.
Scope(g) ==
  CASE req[g].op \in {"details", "patch", "assign"} -> {req[g].account}
    [] req[g].op = "list" /\ req[g].filter # "settled" /\ req[g].to = MaxTime ->
         {n \in Accounts : owner[n] = req[g].scope}
    [] OTHER -> {}

\* What a call has read is what there is.
AsRead(g) ==
  /\ pc[g] = "readRows" => loc[g].items = {a \in acts : InFilter(a, req[g])}
  /\ pc[g] = "askRouter" =>
       /\ loc[g].seen \subseteq acts
       /\ req[g].op = "list" => loc[g].items = loc[g].seen
       /\ Whole(g) => \A a \in loc[g].seen, b \in acts :
                        b.account = a.account /\ ~b.settled => b \in loc[g].seen
       /\ \A n \in Scope(g), b \in acts :
            b.account = n /\ ~b.settled => b \in loc[g].seen

\* What is to be healed has the shares of the router, and is current.
ToHeal(g) ==
  pc[g] = "heal" =>
    \A row \in loc[g].todo : \E a \in acts :
      /\ a.id = row.id /\ row.shared = shared[a.account]
      /\ Whole(g) => a \in Current(a.account)

\* What differs from the router is to be healed.
NoneLeft(g) ==
  pc[g] \in {"heal", "done"} =>
    \A n \in Scope(g) : shared[n] \notin {0, Absent} /\ Current(n) # {} =>
      \E a \in Current(n) :
        \/ a.shared = shared[n]
        \/ pc[g] = "heal" /\ \E row \in loc[g].todo :
                               row.id = a.id /\ row.shared = shared[n]

AddedUp(g) ==
  pc[g] \in {"heal", "done"} /\ req[g].op = "list" => loc[g].summed = loc[g].items

Calmly(g) == AsRead(g) /\ ToHeal(g) /\ NoneLeft(g) /\ AddedUp(g)

CalmInv == CalmAlone /\ \A g \in Calls : calm = g => Calmly(g)

\* The current activations are the same as long as only shares change.
LEMMA CurrentKept ==
  ASSUME SameButShares(acts', acts), NEW n, NEW a \in Current(n), NEW b \in acts',
         b.account = a.account, b.created = a.created, b.settled = a.settled
  PROVE  b \in Current(n)'
BY DEF SameButShares, Current

\* What a call that nothing disturbs has chosen is current.
LEMMA ChosenCurrent ==
  ASSUME NEW g \in Calls, AsRead(g), pc[g] = "askRouter",
         NEW chosen \in Latest(loc[g].seen), NEW c \in chosen
  PROVE  /\ c \in loc[g].seen /\ c \in acts /\ ~c.settled
         /\ Whole(g) => c \in Current(c.account)
<1>1. PICK n \in Accounts : c \in Newest(loc[g].seen, n)
  BY DEF Latest
<1> QED
  BY <1>1 DEF Newest, AsRead, Current

\* One of the newest rows of each account is chosen.
LEMMA OneChosen ==
  ASSUME NEW rows, NEW chosen \in Latest(rows), NEW n \in Accounts,
         Newest(rows, n) # {}
  PROVE  \E c \in chosen : c.account = n
<1>1. Cardinality({a \in chosen : a.account = n}) = 1
  BY DEF Latest
<1>2. {a \in chosen : a.account = n} # {}
  BY <1>1, FS_EmptySet
<1> QED
  BY <1>2

\* A call that compares accounts reads all their unsettled activations.
LEMMA ScopeWhole ==
  ASSUME LedgerAssumption, TypeOK, NEW g \in Calls, NEW n \in Scope(g)
  PROVE  Whole(g) /\ n \in Accounts
BY DEF Scope, Whole, TypeOK, Request, LedgerAssumption

\* A calm call that has the answer of the router knows all that is to be healed.
LEMMA CalmAsks ==
  ASSUME LedgerAssumption, RowInv, NEW g \in Calls, Calmly(g), AskRouter(g),
         calm' # NoCall
  PROVE  Calmly(g)'
<1>0. TypeOK /\ pc[g] = "askRouter" /\ UNCHANGED <<req, shared, owner, acts>>
  BY DEF RowInv, LedgerInv, AskRouter, Go, Fail
<1>1. PICK chosen \in Latest(loc[g].seen) : Asked(g, chosen)
  BY <1>0, AskedStep
<1> DEFINE stale == {a \in chosen : Changed(Overlay(a, chosen), a)}
<1>2. /\ loc'[g].items = Shown(loc[g].items, chosen)
      /\ req[g].op = "list" => loc'[g].summed = Shown(loc[g].seen, chosen)
      /\ loc'[g].todo = {Overlay(a, chosen) : a \in stale}
      /\ pc'[g] = IF stale = {} THEN "done" ELSE "heal"
  BY <1>0, <1>1 DEF Asked, Shown, TypeOK
<1>3. ASSUME NEW c \in chosen
      PROVE  /\ c \in acts /\ c \in loc[g].seen /\ ~c.settled /\ c \in Activation
             /\ Whole(g) => c \in Current(c.account)
  BY <1>0, ChosenCurrent DEF Calmly, TypeOK
<1>4. AsRead(g)'
  BY <1>2 DEF AsRead
<1>5. ToHeal(g)'
  <2> SUFFICES ASSUME NEW c \in stale
               PROVE  \E a \in acts :
                        /\ a.id = Overlay(c, chosen).id
                        /\ Overlay(c, chosen).shared = shared[a.account]
                        /\ Whole(g) => a \in Current(a.account)
    BY <1>0, <1>2 DEF ToHeal, Whole, Current
  <2> QED
    BY <1>3, OverlayKeeps DEF Changed
<1>6. NoneLeft(g)'
  <2> SUFFICES ASSUME NEW n \in Scope(g), shared[n] \notin {0, Absent}, Current(n) # {}
               PROVE  \E a \in Current(n) :
                        \/ a.shared = shared[n]
                        \/ pc'[g] = "heal" /\ \E row \in loc'[g].todo :
                               row.id = a.id /\ row.shared = shared[n]
    BY <1>0 DEF NoneLeft, Scope, Current
  <2>1. Whole(g) /\ n \in Accounts
    BY <1>0, ScopeWhole
  <2>2. PICK b \in Current(n) : TRUE
    OBVIOUS
  <2>3. b \in Newest(loc[g].seen, n)
    BY <1>0, <2>2 DEF Calmly, AsRead, Current, Newest
  <2>4. PICK c \in chosen : c.account = n
    BY <2>1, <2>3, OneChosen
  <2>5. c \in Current(n) /\ c \in Activation /\ ~c.settled
    BY <1>3, <2>1, <2>4
  <2>6. CASE c.shared # shared[n]
    <3>1. Overlay(c, chosen).id = c.id /\ Overlay(c, chosen).shared = shared[n]
      BY <2>4, <2>5 DEF Overlay, Activation
    <3>2. c \in stale
      BY <2>6, <3>1 DEF Changed
    <3> HIDE DEF stale
    <3> QED
      BY <1>2, <2>5, <3>1, <3>2
  <2> QED
    BY <2>5, <2>6
<1>7. AddedUp(g)'
  BY <1>0, <1>2 DEF AddedUp, Calmly, AsRead
<1> QED
  BY <1>4, <1>5, <1>6, <1>7 DEF Calmly

\* Healing one row leaves the other rows to be healed.
LEMMA CalmHeals ==
  ASSUME LedgerAssumption, RowInv, NEW g \in Calls, Calmly(g), Heal(g),
         calm' # NoCall
  PROVE  Calmly(g)'
<1>0. /\ TypeOK /\ Unique /\ pc[g] = "heal"
      /\ UNCHANGED <<req, shared, owner>>
  BY DEF RowInv, LedgerInv, Heal, Go, Fail
<1>1. PICK old \in loc[g].todo :
        /\ loc' = [loc EXCEPT ![g].todo = @ \ {old}]
        /\ Store(old)
        /\ pc' = [pc EXCEPT ![g] = IF loc[g].todo = {old} THEN "done" ELSE "heal"]
  BY DEF Heal, Go, Fail
<1>2. /\ loc'[g].todo = loc[g].todo \ {old} /\ loc'[g].items = loc[g].items
      /\ loc'[g].summed = loc[g].summed
      /\ pc'[g] = IF loc[g].todo = {old} THEN "done" ELSE "heal"
  BY <1>0, <1>1 DEF TypeOK, Local
<1>3. old \in Activation
  BY <1>0, <1>1 DEF TypeOK, Local
<1> DEFINE After(a) == IF Accepted(old.shared) /\ a.id = old.id
                       THEN Stored(a, old) ELSE a
<1>4. /\ \A a \in acts : \E b \in acts' : b.id = a.id /\ b = After(a)
      /\ \A a \in acts, b \in acts' : a.id = b.id => b = After(a)
      /\ SameButShares(acts', acts)
  BY <1>0, <1>1, <1>3, StoreRow, StoreKeepsRest
<1>5. ASSUME NEW a \in acts
      PROVE  /\ After(a).id = a.id /\ After(a).account = a.account
             /\ After(a).created = a.created /\ After(a).settled = a.settled
             /\ After(a).shared = IF Accepted(old.shared) /\ a.id = old.id
                                  THEN old.shared ELSE a.shared
  BY <1>0 DEF TypeOK, Activation, Stored
<1> HIDE DEF After
<1>6. ASSUME NEW n, NEW a \in Current(n)
      PROVE  After(a) \in Current(n)'
  BY <1>4, <1>5, CurrentKept DEF Current
<1>7. AsRead(g)'
  BY <1>2 DEF AsRead
<1>8. ToHeal(g)'
  <2> SUFFICES ASSUME NEW row \in loc[g].todo
               PROVE  \E b \in acts' :
                        /\ b.id = row.id /\ row.shared = shared[b.account]
                        /\ Whole(g) => b \in Current(b.account)'
    BY <1>0, <1>2 DEF ToHeal, Whole, Current
  <2>1. PICK a \in acts : /\ a.id = row.id /\ row.shared = shared[a.account]
                          /\ Whole(g) => a \in Current(a.account)
    BY <1>0 DEF Calmly, ToHeal
  <2> QED
    BY <1>4, <1>5, <1>6, <2>1
<1>9. NoneLeft(g)'
  <2> SUFFICES ASSUME NEW n \in Scope(g), shared[n] \notin {0, Absent}, Current(n)' # {}
               PROVE  \E b \in Current(n)' :
                        \/ b.shared = shared[n]
                        \/ pc'[g] = "heal" /\ \E row \in loc'[g].todo :
                               row.id = b.id /\ row.shared = shared[n]
    BY <1>0 DEF NoneLeft, Scope
  <2>1. n \in Accounts /\ Accepted(shared[n])
    BY <1>0, ScopeWhole, LedgerAssumption DEF TypeOK, Accepted, Shares
  <2>2. Current(n) # {}
    <3>1. PICK b \in Current(n)' : TRUE
      OBVIOUS
    <3>2. PICK a \in acts : /\ b = After(a) /\ b.account = a.account
                            /\ b.settled = a.settled /\ b.created = a.created
      BY <1>4, <1>5 DEF SameButShares, Current
    <3>3. \A c \in acts : c.account = n /\ ~c.settled => c.created <= a.created
      BY <1>4, <1>5, <3>1, <3>2 DEF Current
    <3> QED
      BY <3>1, <3>2, <3>3 DEF Current
  <2>3. PICK a \in Current(n) :
          \/ a.shared = shared[n]
          \/ \E row \in loc[g].todo : row.id = a.id /\ row.shared = shared[n]
    BY <1>0, <2>2 DEF Calmly, NoneLeft
  <2>4. a \in acts /\ a.account = n /\ After(a) \in Current(n)'
    BY <1>6 DEF Current
  <2>5. CASE a.id = old.id
    <3>1. PICK c \in acts : c.id = old.id /\ old.shared = shared[c.account]
      BY <1>0, <1>1 DEF Calmly, ToHeal
    <3>2. c = a /\ old.shared = shared[n]
      BY <1>0, <2>4, <2>5, <3>1 DEF Unique
    <3> QED
      BY <1>5, <2>1, <2>4, <2>5, <3>2
  <2>6. CASE a.id # old.id
    <3>1. After(a).shared = a.shared /\ After(a).id = a.id
      BY <1>5, <2>4, <2>6
    <3>2. CASE a.shared = shared[n]
      BY <2>4, <3>1, <3>2
    <3>3. ASSUME NEW row \in loc[g].todo, row.id = a.id, row.shared = shared[n]
          PROVE  pc'[g] = "heal" /\ row \in loc'[g].todo
      BY <1>2, <2>6, <3>3
    <3> QED
      BY <2>3, <2>4, <3>1, <3>2, <3>3
  <2> QED
    BY <2>5, <2>6
<1>10. AddedUp(g)'
  BY <1>0, <1>2 DEF AddedUp, Calmly
<1> QED
  BY <1>7, <1>8, <1>9, <1>10 DEF Calmly

\* Both reads of a calm call find the same rows.
LEMMA CalmReads ==
  ASSUME LedgerAssumption, RowInv, NEW g \in Calls, Calmly(g),
         ReadItems(g) \/ ReadRows(g) \/ ReadActs(g), calm' # NoCall
  PROVE  Calmly(g)'
<1>0. /\ TypeOK /\ OnRoute(g)
      /\ UNCHANGED <<req, shared, owner, acts>>
  BY DEF RowInv, LedgerInv, ReadItems, ReadRows, ReadActs, Go, Fail
<1> DEFINE rows == {a \in acts : InFilter(a, req[g])}
           all == {a \in acts : a.account = req[g].account}
<1>1. CASE ReadItems(g)
  <2>1. loc' = [loc EXCEPT ![g].items = rows] /\ pc'[g] = "readRows"
    BY <1>0, <1>1 DEF ReadItems, Go, Fail, TypeOK
  <2>2. loc'[g].items = rows /\ rows' = rows
    <3>1. rows' = rows
      BY <1>0 DEF InFilter
    <3> HIDE DEF rows
    <3> QED
      BY <1>0, <2>1, <3>1 DEF TypeOK, Local
  <2> QED
    BY <2>1, <2>2 DEF Calmly, AsRead, ToHeal, NoneLeft, AddedUp
<1>2. CASE ReadRows(g)
  <2>1. pc[g] = "readRows" /\ loc[g].items = rows
    BY <1>2 DEF ReadRows, Calmly, AsRead
  <2>2. CASE pc'[g] = "done"
    <3>1. loc' = [loc EXCEPT ![g].summed = rows] /\ req[g].filter = "settled"
      BY <1>0, <1>2, <2>2 DEF ReadRows, Go, Fail, TypeOK
    <3> HIDE DEF rows
    <3>2. loc'[g].summed = loc'[g].items
      BY <1>0, <2>1, <3>1 DEF TypeOK, Local
    <3>3. Scope(g)' = {}
      BY <1>0, <2>1, <3>1 DEF Scope, OnRoute, Route
    <3> QED
      BY <2>2, <3>2, <3>3 DEF Calmly, AsRead, ToHeal, NoneLeft, AddedUp
  <2>3. CASE pc'[g] # "done"
    <3>1. /\ loc' = [loc EXCEPT ![g].seen = rows] /\ req[g].filter # "settled"
          /\ pc'[g] = "askRouter"
      BY <1>0, <1>2, <2>3 DEF ReadRows, Go, Fail, TypeOK
    <3>2. loc'[g].seen = rows /\ loc'[g].items = rows
      <4> HIDE DEF rows
      <4> QED
        BY <1>0, <2>1, <3>1 DEF TypeOK, Local
    <3>3. ASSUME Whole(g), NEW b \in acts, ~b.settled, owner[b.account] = req[g].scope
          PROVE  b \in rows
      <4>1. b.created <= MaxTime
        BY <1>0, LedgerAssumption DEF RowInv, LedgerInv, Known, TypeOK, Activation
      <4>2. req[g].op = "list" /\ req[g].to = MaxTime
        BY <1>0, <2>1, <3>3 DEF OnRoute, Route, Whole, Request, Ops, TypeOK,
                                LedgerAssumption
      <4> QED
        BY <3>1, <3>3, <4>1, <4>2 DEF InFilter
    <3>4. \A a \in rows : owner[a.account] = req[g].scope
      BY DEF InFilter
    <3>5. \A n \in Scope(g) : Whole(g) /\ owner[n] = req[g].scope
      BY <1>0, <2>1 DEF Scope, Whole, OnRoute, Route
    <3>6. AsRead(g)'
      <4>1. Whole(g)' = Whole(g) /\ Scope(g)' = Scope(g)
        BY <1>0 DEF Whole, Scope
      <4>2. rows \subseteq acts
        OBVIOUS
      <4> HIDE DEF rows
      <4> QED
        BY <1>0, <3>1, <3>2, <3>3, <3>4, <3>5, <4>1, <4>2 DEF AsRead
    <3> QED
      BY <3>1, <3>6 DEF Calmly, ToHeal, NoneLeft, AddedUp
  <2> QED
    BY <2>2, <2>3
<1>3. CASE ReadActs(g)
  <2>1. /\ loc' = [loc EXCEPT ![g].seen = all, ![g].items = all]
        /\ pc'[g] = "askRouter" /\ pc[g] = "readActs"
    BY <1>0, <1>3 DEF ReadActs, Go, Fail, TypeOK
  <2>2. loc'[g].seen = all
    <3> HIDE DEF all
    <3> QED
      BY <1>0, <2>1 DEF TypeOK, Local
  <2>3. req[g].op # "list" /\ Scope(g) \subseteq {req[g].account}
    BY <1>0, <2>1 DEF OnRoute, Route, Scope
  <2>4. AsRead(g)'
    <3>1. Scope(g)' = Scope(g)
      BY <1>0 DEF Scope
    <3> QED
      BY <1>0, <2>1, <2>2, <2>3, <3>1 DEF AsRead
  <2> QED
    BY <2>1, <2>4 DEF Calmly, ToHeal, NoneLeft, AddedUp
<1> QED
  BY <1>1, <1>2, <1>3

\* The steps that no report takes.
LEMMA CalmOthers ==
  ASSUME LedgerAssumption, RowInv, NEW g \in Calls,
         \/ FindAct(g) \/ CheckScope(g) \/ Settle(g) \/ SetShared(g) \/ Sync(g)
         \/ SyncFails(g) \/ ReadUser(g) \/ Record(g)
  PROVE  Calmly(g)'
<1>0. /\ TypeOK /\ OnRoute(g) /\ req[g].op \in Ops
  BY LedgerAssumption DEF RowInv, LedgerInv, TypeOK, Request
<1>1. /\ UNCHANGED req
      /\ pc'[g] \notin {"readRows", "askRouter", "heal"}
      /\ pc'[g] = "done" => pc[g] \in {"settle", "record"} /\ req[g].op # "assign"
  <2> USE <1>0 DEF TypeOK, Go, Fail
  <2>1. CASE FindAct(g) \/ CheckScope(g)
    BY <2>1 DEF FindAct, CheckScope
  <2>2. CASE Settle(g)
    <3>1. /\ pc[g] = "settle" /\ UNCHANGED req
          /\ \E step \in {"done", "failed"} : pc' = [pc EXCEPT ![g] = step]
      BY <2>2 DEF Settle
    <3> QED
      BY <3>1 DEF OnRoute, Route
  <2>3. CASE SetShared(g) \/ Sync(g) \/ SyncFails(g)
    BY <2>3 DEF SetShared, Sync, SyncFails
  <2>4. CASE ReadUser(g) \/ Record(g)
    BY <2>4 DEF ReadUser, Record
  <2> QED
    BY <2>1, <2>2, <2>3, <2>4
<1>2. pc'[g] = "done" => req'[g].op \in {"settle", "create"}
  BY <1>0, <1>1 DEF OnRoute, Route, Ops
<1> QED
  BY <1>1, <1>2 DEF Calmly, AsRead, ToHeal, NoneLeft, AddedUp, Scope

\* Every step leaves a calm call with what CalmInv says of it.
LEMMA CalmInvStep ==
  LedgerAssumption /\ RowInv /\ CalmInv /\ [Next]_vars => CalmInv'
<1> SUFFICES ASSUME LedgerAssumption, RowInv, CalmInv, [Next]_vars
             PROVE  CalmInv'
  OBVIOUS
<1>0. TypeOK /\ NoCall \notin Calls
  BY LedgerAssumption DEF RowInv, LedgerInv
<1>1. CalmAlone'
  BY <1>0, CalmStep DEF CalmInv, CalmAlone
<1>2. ASSUME NEW g \in Calls, calm' = g
      PROVE  Calmly(g)'
  <2>1. \/ Start(g)
        \/ calm = g /\ Serve(g)
        \/ /\ calm = g /\ UNCHANGED <<shared, tables>>
           /\ pc'[g] = pc[g] /\ req'[g] = req[g] /\ loc'[g] = loc[g]
    BY <1>0, <1>2, CalmStep DEF CalmInv
  <2>2. CASE Start(g)
    <3>1. PICK q \in Requests : pc' = [pc EXCEPT ![g] = FirstStep(q.op)]
      BY <2>2 DEF Start
    <3>2. q.op \in Ops
      BY LedgerAssumption DEF Request
    <3>3. pc'[g] \notin {"readRows", "askRouter", "heal", "done"}
      BY <1>0, <3>1, <3>2 DEF FirstStep, Ops, TypeOK
    <3> QED
      BY <3>3 DEF Calmly, AsRead, ToHeal, NoneLeft, AddedUp
  <2>3. CASE calm = g /\ Serve(g)
    <3>1. Calmly(g) /\ calm' # NoCall
      BY <1>0, <1>2, <2>3 DEF CalmInv
    <3> QED
      BY <2>3, <3>1, CalmAsks, CalmHeals, CalmReads, CalmOthers DEF Serve
  <2>4. CASE /\ calm = g /\ UNCHANGED <<shared, tables>>
             /\ pc'[g] = pc[g] /\ req'[g] = req[g] /\ loc'[g] = loc[g]
    <3>1. Calmly(g)
      BY <2>4 DEF CalmInv
    <3> QED
      BY <2>4, <3>1 DEF Calmly, AsRead, ToHeal, NoneLeft, AddedUp, Whole, Scope,
                        Current, InFilter
  <2> QED
    BY <2>1, <2>2, <2>3, <2>4
<1> QED
  BY <1>1, <1>2 DEF CalmInv

\* CalmInv holds in every state.
LEMMA CalmAlways == Spec => [](RowInv /\ CalmInv)
<1>1. LedgerAssumption /\ Init => CalmInv
  BY LedgerAssumption DEF Init, CalmInv, CalmAlone
<1> QED
  BY <1>1, LedgerAssumption, RowAlways, CalmInvStep, PTL DEF Spec

\* After a report or the details of an account that nothing disturbed the newest
\* unsettled activation has the shares of the router, for every instance.
THEOREM NewestAlwaysHealed == Spec => []NewestHealed
<1>1. RowInv /\ CalmInv => NewestHealed
  <2> SUFFICES ASSUME RowInv, CalmInv, calm # NoCall, NEW n \in Compared(calm),
                      shared[n] \notin {0, Absent}, Current(n) # {}
               PROVE  \E a \in Current(n) : a.shared = shared[n]
    BY DEF NewestHealed
  <2>1. calm \in Calls /\ NoneLeft(calm)
    BY DEF RowInv, LedgerInv, TypeOK, CalmInv, Calmly
  <2>2. pc[calm] = "done" /\ n \in Scope(calm)
    BY DEF Compared, Scope
  <2> QED
    BY <2>1, <2>2 DEF NoneLeft
<1> QED
  BY <1>1, CalmAlways, PTL

\* The summary of a report that nothing disturbed adds up the rows that it
\* shows, for every instance.
THEOREM ReportsAddUp == Spec => []ReportAddsUp
<1>1. RowInv /\ CalmInv => ReportAddsUp
  BY DEF ReportAddsUp, RowInv, LedgerInv, TypeOK, CalmInv, Calmly, AddedUp
<1> QED
  BY <1>1, CalmAlways, PTL

\* A call that nothing disturbs rewrites the newest unsettled activation of an
\* account only, for every instance.
THEOREM OldRowsKept == Spec => HistoryKept
<1>1. RowInv /\ CalmInv /\ [Next]_vars =>
        [calm' # NoCall /\ req[calm'].to = MaxTime =>
           \A a \in acts, b \in acts' : a.id = b.id /\ a.shared # b.shared =>
             a \in Current(a.account)]_vars
  <2> SUFFICES ASSUME RowInv, CalmInv, [Next]_vars, calm' # NoCall,
                      req[calm'].to = MaxTime, NEW a \in acts, NEW b \in acts',
                      a.id = b.id, a.shared # b.shared
               PROVE  a \in Current(a.account)
    OBVIOUS
  <2>1. PICK g \in Calls :
           \/ Sync(g) /\ a \in Current(req[g].account)
           \/ /\ Heal(g) /\ calm' = calm
              /\ \E row \in loc[g].todo : row.id = a.id /\ row.shared = b.shared
    BY SharesStep, LedgerAssumption DEF RowInv
  <2>2. CASE Sync(g) /\ a \in Current(req[g].account)
    BY <2>2 DEF Current
  <2>3. CASE Heal(g) /\ calm' = calm /\ \E row \in loc[g].todo : row.id = a.id
    <3>1. pc[g] = "heal" /\ g = calm
      BY <2>3 DEF Heal, CalmInv, CalmAlone, InFlight, Ended
    <3>2. Whole(g) /\ ToHeal(g)
      BY <2>3, <3>1 DEF Whole, CalmInv, Calmly
    <3> QED
      BY <2>3, <3>1, <3>2 DEF ToHeal, RowInv, Unique
  <2> QED
    BY <2>1, <2>2, <2>3
<1> QED
  BY <1>1, CalmAlways, PTL DEF Spec, HistoryKept
=============================================================================

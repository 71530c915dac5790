------------------------- MODULE ManagerAdminProofs -------------------------
(***************************************************************************)
(* Proofs about ManagerAdmin: type correctness, that the overlap check     *)
(* gives every name one manager, that quotas stay above the usage, that    *)
(* UpdateManager is atomic when nobody writes in between, that an account  *)
(* which changes its manager is marked, and that a call which is alone     *)
(* does what its answer says.                                              *)
(***************************************************************************)
EXTENDS ManagerAdmin, OwnerRegistryProofs, SequenceTheorems, WellFoundedInduction

\* The steps at which a call is about a manager that there is.
RowSteps == {"checkUser", "checkQuota", "checkPassword", "readRow", "writeRow"}

\* What the place of a call says of it.
Place(c) ==
  /\ pc[c] # "idle" => req[c] \in Requests
  /\ pc[c] \in {"listSlugs", "insert"} => req[c].op = "create"
  /\ pc[c] = "find" => target[c] = req[c].id /\ req[c].op = "patch"
  /\ pc[c] \in {"script", "storeCert"} =>
       /\ req[c].title # Absent
       /\ req[c].op # "create" => target[c] \in DOMAIN mgrs
  /\ pc[c] \in RowSteps => target[c] \in DOMAIN mgrs
  /\ pc[c] = "writeRow" => /\ row[c] \in Row
                          /\ row[c].slug = mgrs[target[c]].slug

Control == tokens \subseteq DOMAIN mgrs /\ \A c \in Calls : Place(c)

TypeInv == TypeOK /\ Control

LEMMA InitTypeInv == Init => TypeInv
<1> SUFFICES ASSUME Init PROVE TypeInv
  OBVIOUS
<1> USE ManagersAssumption DEF Init
<1>1. mgrs \in Seq(Row) /\ Len(mgrs) <= MaxManagers /\ DOMAIN mgrs \subseteq Ids
  BY DEF Ids
<1>2. TypeOK
  BY <1>1 DEF TypeOK, Steps
<1>3. Control
  BY <1>1 DEF Control, Place, RowSteps
<1> QED BY <1>2, <1>3 DEF TypeInv

\* Where a call can go on to.
LEMMA NextSteps ==
  ASSUME NEW q \in Requests, NEW title \in Titles \union {NoTitle, Absent}
  PROVE  /\ QuotaStep(q) \in {"checkQuota", "readRow"}
         /\ UserStep(q) \in {"checkUser", "checkQuota", "readRow"}
         /\ FirstStep(q) \in {"listSlugs", "find", "readRow", "checkPassword",
                              "login"}
         /\ q.op = "create" <=> FirstStep(q) = "listSlugs"
         /\ q.op = "patch" <=> FirstStep(q) = "find"
         /\ FirstStep(q) \in RowSteps => q.op \in {"patchMe", "password"}
         /\ \A other : CertStep(title, other) \in {other, "script", "storeCert"}
         /\ \A other : other \notin {"script", "storeCert"} /\ title = Absent =>
              CertStep(title, other) = other
BY ManagersAssumption
   DEF QuotaStep, UserStep, FirstStep, CertStep, Request, Ops, RowSteps

LEMMA AfterSteps ==
  ASSUME NEW q
  PROVE  /\ After(q, "listSlugs") = "insert"
         /\ After(q, "script") = "storeCert"
         /\ q.op = "create" => After(q, "storeCert") = "done"
         /\ q.op # "create" => After(q, "storeCert") = UserStep(q)
         /\ After(q, "checkUser") = QuotaStep(q)
         /\ After(q, "checkQuota") = "readRow"
         /\ After(q, "checkPassword") = "readRow"
         /\ After(q, "readRow") = "writeRow"
         /\ After(q, "writeRow") \in {"answer", "me", "done"}
         /\ After(q, "answer") = "done"
         /\ After(q, "me") = "done"
BY DEF After

LEMMA GoToType ==
  ASSUME TypeOK, NEW c \in Calls, NEW step \in Steps, GoTo(c, step)
  PROVE  /\ pc' = [pc EXCEPT ![c] = step]
         /\ pc' \in [Calls -> Steps]
         /\ reply' \in [Calls -> Replies \union {NoReply}]
BY DEF GoTo, Answer, TypeOK, Steps, Replies

LEMMA AnswerType ==
  ASSUME TypeOK, NEW c \in Calls, NEW r \in Replies, Answer(c, r)
  PROVE  /\ pc' = [pc EXCEPT ![c] = "done"]
         /\ pc' \in [Calls -> Steps]
         /\ reply' \in [Calls -> Replies \union {NoReply}]
BY DEF Answer, TypeOK, Steps

\* The rows that a step leaves behind.
LEMMA MergeType ==
  ASSUME NEW set \in Setting, NEW m \in Row
  PROVE  /\ Merge(set, m) \in Row
         /\ Merge(set, m).slug = m.slug /\ Merge(set, m).cert = m.cert
         /\ Merge(set, m).quota = IF set.quota = Absent THEN m.quota ELSE set.quota
BY DEF Merge, Given, Setting, Row

LEMMA WithCertType ==
  ASSUME NEW m \in Row, NEW t \in Titles \union {NoTitle}
  PROVE  /\ WithCert(m, t) \in Row
         /\ WithCert(m, t).slug = m.slug /\ WithCert(m, t).quota = m.quota
BY DEF WithCert, Row

LEMMA RowWritten ==
  ASSUME NEW table \in Seq(Row), NEW i, NEW m, i \in DOMAIN table => m \in Row
  PROVE  /\ [table EXCEPT ![i] = m] \in Seq(Row)
         /\ Len([table EXCEPT ![i] = m]) = Len(table)
         /\ \A j \in DOMAIN table :
              [table EXCEPT ![i] = m][j] = IF j = i THEN m ELSE table[j]
<1>1. CASE i \in DOMAIN table
  BY <1>1, ExceptSeq
<1>2. CASE i \notin DOMAIN table
  <2>1. [table EXCEPT ![i] = m] = table
    BY <1>2
  <2> QED BY <1>2, <2>1
<1> QED BY <1>1, <1>2

\* How a step may change the table.
TableStep ==
  \/ UNCHANGED mgrs
  \/ \E c \in Calls : /\ pc[c] = "insert" /\ Insert(c)
                      /\ mgrs' = Append(mgrs, NewRow(req[c]))
  \/ \E c \in Calls : /\ pc[c] = "storeCert"
                      /\ mgrs' = [mgrs EXCEPT ![target[c]] = WithCert(@, req[c].title)]
  \/ \E c \in Calls : /\ pc[c] = "writeRow" /\ WriteRow(c)
                      /\ mgrs' = [mgrs EXCEPT ![target[c]] = Written(c)]

LEMMA TableSteps == Next => TableStep
BY DEF Next, TableStep, Start, Serve, ListSlugs, Insert, Script, StoreCert,
       Find, CheckUser, CheckQuota, ReadRow, WriteRow, AnswerPatch, Me,
       CheckPassword, Login, UsageChanges, AllAnswered, NoWrite, At, vars, calls,
       history, bounds

\* The table keeps its type, its managers and their slugs.
LEMMA TableKept ==
  ASSUME TypeInv, Next
  PROVE  /\ mgrs' \in Seq(Row) /\ Len(mgrs') <= MaxManagers
         /\ Len(mgrs) <= Len(mgrs')
         /\ \A i \in DOMAIN mgrs : mgrs'[i].slug = mgrs[i].slug
         /\ Len(mgrs') = Len(mgrs) \/ \E m \in Row : mgrs' = Append(mgrs, m)
<1> DEFINE Kept(new) ==
      /\ new \in Seq(Row) /\ Len(new) <= MaxManagers
      /\ Len(mgrs) <= Len(new)
      /\ \A i \in DOMAIN mgrs : new[i].slug = mgrs[i].slug
      /\ Len(new) = Len(mgrs) \/ \E m \in Row : new = Append(mgrs, m)
<1> USE DEF TypeInv
<1>0. mgrs \in Seq(Row) /\ Len(mgrs) <= MaxManagers
  BY DEF TypeOK
<1>1. mgrs' = mgrs => Kept(mgrs')
  BY <1>0
<1>2. ASSUME NEW c \in Calls, pc[c] = "insert", Insert(c),
             mgrs' = Append(mgrs, NewRow(req[c]))
      PROVE  Kept(mgrs')
  <2> DEFINE new == NewRow(req[c])
  <2>1. req[c].row \in Row
    BY <1>2, ManagersAssumption DEF Control, Place, Request
  <2>2. new \in Row
    BY <2>1 DEF Row, NewRow
  <2>3. Len(mgrs) + 1 \in Ids \/ mgrs' = mgrs
    BY <1>2, <1>0 DEF Insert, NoWrite, At
  <2>4. mgrs' = Append(mgrs, new)
    BY <1>2
  <2> HIDE DEF new
  <2> QED BY <1>0, <2>2, <2>3, <2>4, ManagersAssumption DEF Ids
<1>3. ASSUME NEW c \in Calls, pc[c] = "storeCert",
             mgrs' = [mgrs EXCEPT ![target[c]] = WithCert(@, req[c].title)]
      PROVE  Kept(mgrs')
  <2> DEFINE m == WithCert(mgrs[target[c]], req[c].title)
  <2>1. req[c].title \in Titles \union {NoTitle}
    BY <1>3, ManagersAssumption DEF Control, Place, Request
  <2>2. target[c] \in DOMAIN mgrs => mgrs[target[c]] \in Row
    BY <1>0
  <2>3. target[c] \in DOMAIN mgrs => m \in Row /\ m.slug = mgrs[target[c]].slug
    BY <2>1, <2>2, WithCertType
  <2>4. mgrs' = [mgrs EXCEPT ![target[c]] = m]
    BY <1>3
  <2> HIDE DEF m
  <2>5. /\ mgrs' \in Seq(Row) /\ Len(mgrs') = Len(mgrs)
        /\ \A j \in DOMAIN mgrs :
             mgrs'[j] = IF j = target[c] THEN m ELSE mgrs[j]
    BY <1>0, <2>3, <2>4, RowWritten
  <2> QED BY <1>0, <2>3, <2>5
<1>4. ASSUME NEW c \in Calls, pc[c] = "writeRow",
             mgrs' = [mgrs EXCEPT ![target[c]] = Written(c)]
      PROVE  Kept(mgrs')
  <2>1. target[c] \in DOMAIN mgrs /\ row[c] \in Row
        /\ row[c].slug = mgrs[target[c]].slug /\ req[c] \in Requests
    BY <1>4 DEF Control, Place, RowSteps
  <2>2. req[c].set \in Setting
    BY <2>1, ManagersAssumption DEF Request
  <2>3. /\ Merge(req[c].set, row[c]) \in Row
        /\ Merge(req[c].set, row[c]).slug = mgrs[target[c]].slug
    BY <2>1, <2>2, MergeType
  <2>4. mgrs[target[c]] \in Row
    BY <1>0, <2>1
  <2>6. mgrs[target[c]].cert \in Titles \union {NoTitle}
    BY <2>4 DEF Row
  <2>5. Written(c) \in Row /\ Written(c).slug = mgrs[target[c]].slug
    BY <2>3, <2>6, WithCertType DEF Written
  <2> QED BY <1>0, <1>4, <2>1, <2>5, RowWritten
<1> HIDE DEF Kept
<1>5. Kept(mgrs')
  BY <1>1, <1>2, <1>3, <1>4, TableSteps DEF TableStep
<1> QED BY <1>5 DEF Kept

\* A step of call c: on to the next step, or the end.
Goes(c, steps) ==
  /\ pc'[c] \in steps /\ \A d \in Calls \ {c} : pc'[d] = pc[d]
  /\ pc' \in [Calls -> Steps] /\ reply' \in [Calls -> Replies \union {NoReply}]

LEMMA Moves ==
  ASSUME TypeInv, NEW c \in Calls, NEW steps, "done" \in steps
  PROVE  /\ \A r \in Replies : Answer(c, r) => Goes(c, steps)
         /\ \A r \in Replies : Fail(c, r) => Goes(c, steps)
         /\ \A s \in Steps : s \in steps /\ GoTo(c, s) => Goes(c, steps)
         /\ \A s \in Steps : s \in steps /\ s = After(req[c], pc[c]) /\ Proceed(c) =>
              Goes(c, steps)
<1> USE DEF TypeInv, TypeOK, Goes
<1>1. \A r \in Replies : Answer(c, r) => Goes(c, steps)
  BY AnswerType
<1>2. \A s \in Steps : s \in steps /\ GoTo(c, s) => Goes(c, steps)
  BY GoToType
<1> QED BY <1>1, <1>2 DEF Fail, Proceed

\* Where each action takes its call.
LEMMA ActionMoves ==
  ASSUME TypeInv, NEW c \in Calls
  PROVE  /\ ListSlugs(c) => Goes(c, {"done", "insert"})
         /\ Insert(c) => Goes(c, {"done", "script", "storeCert"})
         /\ Script(c) => Goes(c, {"done", "storeCert"})
         /\ StoreCert(c) => Goes(c, {"done", After(req[c], "storeCert")})
         /\ Find(c) => Goes(c, {"done", "script", "storeCert", UserStep(req[c])})
         /\ CheckUser(c) => Goes(c, {"done", QuotaStep(req[c])})
         /\ CheckQuota(c) \/ CheckPassword(c) => Goes(c, {"done", "readRow"})
         /\ ReadRow(c) => Goes(c, {"done", "writeRow"})
         /\ WriteRow(c) => Goes(c, {"done", "answer", "me"})
         /\ AnswerPatch(c) \/ Me(c) \/ Login(c) => Goes(c, {"done"})
<1>2. req[c] \in Requests => UserStep(req[c]) \in Steps /\ QuotaStep(req[c]) \in Steps
  BY NextSteps DEF Steps
<1>3. pc[c] # "idle" => req[c] \in Requests
  BY DEF TypeInv, Control, Place
<1> USE Moves, AfterSteps DEF At, Steps, Replies
<1>4. ListSlugs(c) => Goes(c, {"done", "insert"})
  BY DEF ListSlugs
<1>6. Script(c) => Goes(c, {"done", "storeCert"})
  BY DEF Script
<1>7. StoreCert(c) => Goes(c, {"done", After(req[c], "storeCert")})
  BY <1>2, <1>3 DEF StoreCert
<1>8. CheckUser(c) => Goes(c, {"done", QuotaStep(req[c])})
  BY <1>2, <1>3 DEF CheckUser
<1>9. CheckQuota(c) \/ CheckPassword(c) => Goes(c, {"done", "readRow"})
  BY DEF CheckQuota, CheckPassword
<1>10. ReadRow(c) => Goes(c, {"done", "writeRow"})
  BY DEF ReadRow
<1>11. WriteRow(c) => Goes(c, {"done", "answer", "me"})
  BY DEF WriteRow
<1>12. AnswerPatch(c) \/ Me(c) \/ Login(c) => Goes(c, {"done"})
  BY DEF AnswerPatch, Me, Login
<1>5. Insert(c) => Goes(c, {"done", "script", "storeCert"})
  <2> DEFINE title == IF req[c].title = NoTitle THEN Absent ELSE req[c].title
  <2>1. req[c] \in Requests => title \in Titles \union {NoTitle, Absent}
    BY ManagersAssumption DEF Request
  <2>2. req[c] \in Requests =>
          CertStep(title, "done") \in {"done", "script", "storeCert"}
    BY <2>1, NextSteps
  <2> QED BY <1>3, <2>2 DEF Insert
<1>13. Find(c) => Goes(c, {"done", "script", "storeCert", UserStep(req[c])})
  <2> DEFINE q == req[c]
             title == IF q.title = mgrs[q.id].cert THEN Absent ELSE q.title
  <2>1. q \in Requests => title \in Titles \union {NoTitle, Absent}
    BY ManagersAssumption DEF Request
  <2>2. q \in Requests =>
          CertStep(title, UserStep(q)) \in {"script", "storeCert", UserStep(q)}
    BY <2>1, NextSteps
  <2>3. Find(c) => \/ \E r \in Replies : Answer(c, r) \/ Fail(c, r)
                   \/ GoTo(c, CertStep(title, UserStep(q))) /\ q \in Requests
    BY <1>3 DEF Find
  <2> HIDE DEF title
  <2> QED BY <1>2, <2>2, <2>3
<1> QED BY <1>13, <1>4, <1>5, <1>6, <1>7, <1>8, <1>9, <1>10, <1>11, <1>12

\* What a step of call c leaves alone.
LEMMA ServeFrame ==
  ASSUME TypeInv, NEW c \in Calls, Serve(c)
  PROVE  /\ req' = req
         /\ \A d \in Calls \ {c} : /\ pc'[d] = pc[d] /\ target'[d] = target[d]
                                 /\ row'[d] = row[d] /\ listed'[d] = listed[d]
         /\ pc'[c] \notin {"idle", "listSlugs"}
         /\ pc'[c] = "insert" => ListSlugs(c)
<1> USE DEF Serve, TypeInv, TypeOK, NoWrite
<1>1. req' = req
  BY DEF ListSlugs, Insert, Script, StoreCert, Find, CheckUser, CheckQuota, ReadRow,
         WriteRow, AnswerPatch, Me, CheckPassword, Login
<1>2. \A d \in Calls \ {c} : target'[d] = target[d]
  BY DEF ListSlugs, Insert, Script, StoreCert, Find, CheckUser, CheckQuota, ReadRow,
         WriteRow, AnswerPatch, Me, CheckPassword, Login
<1>3. \A d \in Calls \ {c} : row'[d] = row[d]
  BY DEF ListSlugs, Insert, Script, StoreCert, Find, CheckUser, CheckQuota, ReadRow,
         WriteRow, AnswerPatch, Me, CheckPassword, Login
<1>4. \A d \in Calls \ {c} : listed'[d] = listed[d]
  BY DEF ListSlugs, Insert, Script, StoreCert, Find, CheckUser, CheckQuota, ReadRow,
         WriteRow, AnswerPatch, Me, CheckPassword, Login
<1>5. /\ pc'[c] \notin {"idle", "listSlugs"} /\ (pc'[c] = "insert" => ListSlugs(c))
      /\ \A d \in Calls \ {c} : pc'[d] = pc[d]
  <2>1. pc[c] # "idle" => req[c] \in Requests
    BY DEF Control, Place
  <2>2. StoreCert(c) \/ Find(c) \/ CheckUser(c) => req[c] \in Requests
    BY <2>1 DEF StoreCert, Find, CheckUser, At
  <2>3. req[c] \in Requests =>
          /\ UserStep(req[c]) \in {"checkUser", "checkQuota", "readRow"}
          /\ QuotaStep(req[c]) \in {"checkQuota", "readRow"}
          /\ After(req[c], "storeCert") \in {"done", UserStep(req[c])}
    BY NextSteps, AfterSteps
  <2> HIDE DEF Serve, TypeInv, TypeOK, NoWrite
  <2>4. CASE StoreCert(c)
    BY <2>2, <2>3, <2>4, ActionMoves DEF Goes
  <2>5. CASE Find(c)
    BY <2>2, <2>3, <2>5, ActionMoves DEF Goes
  <2>6. CASE CheckUser(c)
    BY <2>2, <2>3, <2>6, ActionMoves DEF Goes
  <2>7. CASE ListSlugs(c) \/ Insert(c) \/ Script(c)
    BY <2>7, ActionMoves DEF Goes
  <2>8. CASE CheckQuota(c) \/ CheckPassword(c) \/ ReadRow(c)
    BY <2>8, ActionMoves DEF Goes
  <2>9. CASE WriteRow(c) \/ AnswerPatch(c) \/ Me(c) \/ Login(c)
    BY <2>9, ActionMoves DEF Goes
  <2> QED BY <2>4, <2>5, <2>6, <2>7, <2>8, <2>9 DEF Serve
<1> QED BY <1>1, <1>2, <1>3, <1>4, <1>5

LEMMA TypeStep == TypeInv /\ [Next]_vars => TypeInv'
<1> SUFFICES ASSUME TypeInv, [Next]_vars PROVE TypeInv'
  OBVIOUS
<1>1. CASE UNCHANGED vars
  BY <1>1 DEF TypeInv, TypeOK, Control, Place, vars, calls, history, bounds, RowSteps
<1> SUFFICES ASSUME Next PROVE TypeInv'
  BY <1>1
<1>2. mgrs' \in Seq(Row) /\ Len(mgrs') <= MaxManagers
      /\ DOMAIN mgrs \subseteq DOMAIN mgrs'
      /\ \A i \in DOMAIN mgrs : mgrs'[i].slug = mgrs[i].slug
  BY TableKept DEF TypeInv, TypeOK
<1>3. DOMAIN mgrs \subseteq Ids
  BY ManagersAssumption DEF TypeInv, TypeOK, Ids
<1> USE DEF TypeInv
<1>4. CASE UsageChanges
  BY <1>2, <1>3, <1>4 DEF UsageChanges, calls, TypeOK, Control, Place, RowSteps
<1>5. CASE AllAnswered
  BY <1>5
     DEF AllAnswered, TypeOK, Control, Place, vars, calls, history, bounds, RowSteps
<1>6. ASSUME NEW c \in Calls, Start(c) PROVE TypeInv'
  <2>1. PICK q \in Requests :
          /\ Allowed(q)
          /\ req' = [req EXCEPT ![c] = q]
          /\ pc' = [pc EXCEPT ![c] = FirstStep(q)]
          /\ target' = [target EXCEPT ![c] = IF q.op = "create" THEN 0 ELSE q.id]
    BY <1>6 DEF Start
  <2>2. FirstStep(q) \in Steps /\ q.id \in Ids
    BY NextSteps, ManagersAssumption DEF Steps, Request
  <2>3. before' \in [Calls -> Seq(Row) \union {NoRow}]
    BY <1>6 DEF Start, TypeOK
  <2>4. /\ req' \in [Calls -> Requests \union {NoRequest}]
        /\ pc' \in [Calls -> Steps]
        /\ target' \in [Calls -> Ids \union {0}]
    BY <2>1, <2>2 DEF TypeOK
  <2>5. TypeOK'
    BY <1>6, <2>3, <2>4 DEF Start, TypeOK, bounds
  <2>6. pc'[c] \in RowSteps => target'[c] \in DOMAIN mgrs
    BY <2>1, <2>2, NextSteps DEF RowSteps, Allowed, TypeOK, Control
  <2>7. Control'
    BY <1>6, <2>1, <2>6, NextSteps DEF Start, TypeOK, Control, Place, RowSteps
  <2> QED BY <2>5, <2>7
<1>7. ASSUME NEW c \in Calls, Serve(c) PROVE TypeInv'
  <2>1. /\ pc' \in [Calls -> Steps]
        /\ reply' \in [Calls -> Replies \union {NoReply}]
    BY <1>7, ActionMoves DEF Serve, Goes
  <2>2. TypeOK'
    <3> USE <1>2, <1>3, <2>1 DEF TypeOK, NoWrite, bounds, Fail
    <3>1. CASE ListSlugs(c)
      BY <3>1 DEF ListSlugs
    <3>2. CASE Insert(c)
      <4>1. saw' \in [Ids -> SUBSET Ids] /\ moved' \subseteq Ids
        BY <3>2 DEF Insert
      <4>2. target' \in [Calls -> Ids \union {0}]
        BY <3>2 DEF Insert
      <4>3. faults' \in Nat
        BY <3>2 DEF Insert
      <4> QED BY <3>2, <4>1, <4>2, <4>3 DEF Insert
    <3>3. CASE Script(c) \/ CheckUser(c) \/ CheckQuota(c) \/ AnswerPatch(c) \/ Me(c)
               \/ CheckPassword(c)
      BY <3>3 DEF Script, CheckUser, CheckQuota, AnswerPatch, Me, CheckPassword
    <3>4. CASE StoreCert(c)
      BY <3>4 DEF StoreCert
    <3>5. CASE Find(c)
      BY <3>5 DEF Find
    <3>6. CASE ReadRow(c)
      <4>1. At(c, "readRow") => Current(c) \in Row
        BY DEF Control, Place, RowSteps, At, Current
      <4> HIDE DEF Current
      <4> QED BY <3>6, <4>1 DEF ReadRow
    <3>7. CASE WriteRow(c)
      BY <3>7 DEF WriteRow, Relying
    <3>8. CASE Login(c)
      BY <3>8 DEF Login
    <3> QED BY <1>7, <3>1, <3>2, <3>3, <3>4, <3>5, <3>6, <3>7, <3>8 DEF Serve
  <2>3. /\ req' = req
        /\ \A d \in Calls \ {c} : /\ pc'[d] = pc[d] /\ target'[d] = target[d]
                                /\ row'[d] = row[d]
    BY <1>7, ServeFrame
  <2>4. \A d \in Calls \ {c} : Place(d)'
    BY <1>2, <2>3 DEF Control, Place, RowSteps
  <2>5. Place(c)'
    <3>0. /\ Place(c) /\ req'[c] = req[c]
          /\ \A steps : Goes(c, steps) => pc'[c] \in steps
      BY <2>3 DEF Control, Goes, TypeOK
    <3>1. CASE ListSlugs(c)
      <4>1. pc'[c] \in {"done", "insert"} /\ pc[c] = "listSlugs"
        BY <3>0, <3>1, ActionMoves DEF ListSlugs, At
      <4> QED BY <3>0, <4>1 DEF Place, RowSteps
    <3>2. CASE Insert(c)
      <4>1. pc'[c] \in {"done", "script", "storeCert"} /\ pc[c] = "insert"
        BY <3>0, <3>2, ActionMoves DEF Insert, At
      <4>2. ASSUME req[c].title = Absent PROVE pc'[c] = "done"
        <5>1. CertStep(Absent, "done") = "done" /\ NoTitle # Absent
              /\ BadTitle # Absent
          BY ManagersAssumption DEF CertStep
        <5> QED BY <3>2, <4>2, <5>1 DEF Insert, GoTo, Answer, Fail, TypeOK
      <4> QED BY <3>0, <4>1, <4>2 DEF Place, RowSteps
    <3>3. CASE Script(c)
      <4>1. pc'[c] \in {"done", "storeCert"} /\ pc[c] = "script" /\ target' = target
        BY <3>0, <3>3, ActionMoves DEF Script, At
      <4> QED BY <1>2, <3>0, <4>1 DEF Place, RowSteps
    <3>4. CASE StoreCert(c)
      <4>1. /\ pc[c] = "storeCert" /\ target' = target
            /\ pc'[c] \in {"done", After(req[c], "storeCert")}
        BY <3>0, <3>4, ActionMoves DEF StoreCert, At
      <4>2. \/ pc'[c] = "done"
            \/ req[c].op # "create" /\ pc'[c] \in {"checkUser", "checkQuota", "readRow"}
        BY <3>0, <4>1, AfterSteps, NextSteps DEF Place
      <4> QED BY <1>2, <3>0, <4>1, <4>2 DEF Place, RowSteps
    <3>5. CASE Find(c)
      <4> DEFINE q == req[c]
                 title == IF q.title = mgrs[q.id].cert THEN Absent ELSE q.title
      <4>1. /\ pc[c] = "find" /\ target' = target /\ q \in Requests
            /\ pc'[c] \in {"done", "script", "storeCert", UserStep(q)}
        BY <3>0, <3>5, ActionMoves DEF Find, At, Place
      <4>2. UserStep(q) \in {"checkUser", "checkQuota", "readRow"}
        BY <4>1, NextSteps
      <4>3. pc'[c] # "done" => q.id \in DOMAIN mgrs
        BY <3>5, <4>1 DEF Find, Answer, Fail, TypeOK
      <4>4. ASSUME q.title = Absent PROVE pc'[c] \in {"done", UserStep(q)}
        <5>1. CertStep(Absent, UserStep(q)) = UserStep(q)
          BY <4>1, <4>2, NextSteps
        <5>2. title = Absent
          BY <4>4
        <5>3. \/ \E r \in Replies : Answer(c, r) \/ Fail(c, r)
              \/ GoTo(c, CertStep(title, UserStep(q)))
          BY <3>5 DEF Find, Replies
        <5> HIDE DEF title
        <5>4. (\E r \in Replies : Answer(c, r) \/ Fail(c, r)) \/ GoTo(c, UserStep(q))
          BY <5>1, <5>2, <5>3
        <5> QED BY <4>2, <5>4 DEF GoTo, Answer, Fail, TypeOK
      <4> QED BY <1>2, <3>0, <4>1, <4>2, <4>3, <4>4 DEF Place, RowSteps
    <3>6. CASE CheckUser(c)
      <4>1. /\ pc[c] = "checkUser" /\ target' = target /\ req[c] \in Requests
            /\ pc'[c] \in {"done", QuotaStep(req[c])}
        BY <3>0, <3>6, ActionMoves DEF CheckUser, At, Place
      <4>2. QuotaStep(req[c]) \in {"checkQuota", "readRow"}
        BY <4>1, NextSteps
      <4> QED BY <1>2, <3>0, <4>1, <4>2 DEF Place, RowSteps
    <3>7. CASE CheckQuota(c) \/ CheckPassword(c)
      <4>1. /\ pc[c] \in {"checkQuota", "checkPassword"} /\ target' = target
            /\ pc'[c] \in {"done", "readRow"}
        BY <3>0, <3>7, ActionMoves DEF CheckQuota, CheckPassword, At
      <4> QED BY <1>2, <3>0, <4>1 DEF Place, RowSteps
    <3>8. CASE ReadRow(c)
      <4>1. /\ pc[c] = "readRow" /\ target' = target
            /\ pc'[c] \in {"done", "writeRow"}
            /\ pc'[c] = "writeRow" => row'[c] = mgrs[target[c]]
        BY <3>0, <3>8, ActionMoves DEF ReadRow, At, Fail, Answer, Current, TypeOK
      <4>2. target[c] \in DOMAIN mgrs /\ mgrs[target[c]] \in Row
        BY <3>0, <4>1 DEF Place, RowSteps, TypeOK
      <4> QED BY <1>2, <3>0, <4>1, <4>2 DEF Place, RowSteps
    <3>9. CASE WriteRow(c)
      <4>1. pc[c] = "writeRow" /\ pc'[c] \in {"done", "answer", "me"}
        BY <3>0, <3>9, ActionMoves DEF WriteRow, At
      <4> QED BY <3>0, <4>1 DEF Place, RowSteps
    <3>10. CASE AnswerPatch(c) \/ Me(c) \/ Login(c)
      <4>1. pc[c] # "idle" /\ pc'[c] = "done"
        BY <3>0, <3>10, ActionMoves DEF AnswerPatch, Me, Login, At
      <4> QED BY <3>0, <4>1 DEF Place, RowSteps
    <3> QED BY <1>7, <3>1, <3>2, <3>3, <3>4, <3>5, <3>6, <3>7, <3>8, <3>9, <3>10
            DEF Serve
  <2>6. (tokens \subseteq DOMAIN mgrs)'
    <3>1. CASE Login(c)
      BY <1>2, <3>1 DEF Login, Control
    <3>2. tokens' = tokens \/ Login(c)
      BY <1>7 DEF Serve, NoWrite, ListSlugs, Insert, Script, StoreCert, Find, CheckUser,
             CheckQuota, ReadRow, WriteRow, AnswerPatch, Me, CheckPassword
    <3> QED BY <1>2, <3>1, <3>2 DEF Control
  <2>7. Control'
    BY <2>4, <2>5, <2>6 DEF Control
  <2> QED BY <2>2, <2>7
<1> QED BY <1>4, <1>5, <1>6, <1>7 DEF Next

\* The types of the table managers and of the calls, whatever they do
\* (store.go, admin_handlers.go, auth_handlers.go).
THEOREM ManagersTypeCorrect == Spec => []TypeOK
<1>1. Spec => []TypeInv
  BY InitTypeInv, TypeStep, PTL DEF Spec
<1> QED BY <1>1, PTL DEF TypeInv

----------------------------------------------------------------------------
(* One manager per name.                                                   *)

\* What the comparison of slugs has established: for the managers, and for the
\* creates that are about to insert.
Apart(s, t) == ~SlugOverlaps(s, {t})

SlugsApart ==
  \A i, j \in DOMAIN mgrs : i < j /\ i \in saw[j] => Apart(mgrs[i].slug, mgrs[j].slug)
Compared(c) ==
  /\ pc[c] \in {"idle", "listSlugs"} => listed[c] = {}
  /\ pc[c] = "insert" => \A i \in listed[c] :
       i \in DOMAIN mgrs /\ Apart(mgrs[i].slug, req[c].row.slug)

SlugInv == SlugsApart /\ \A c \in Calls : Compared(c)

LEMMA SlugInit == Init => SlugInv
<1> SUFFICES ASSUME Init PROVE SlugInv
  OBVIOUS
<1>1. \A i, j \in DOMAIN mgrs : i # j => Apart(mgrs[i].slug, mgrs[j].slug)
  BY ManagersAssumption DEF Init, Apart
<1>2. \A i, j \in DOMAIN mgrs : i < j => i # j
  BY ManagersAssumption DEF Init
<1>3. SlugsApart
  BY <1>1, <1>2 DEF SlugsApart
<1>4. \A c \in Calls : Compared(c)
  BY DEF Init, Compared
<1> QED BY <1>3, <1>4 DEF SlugInv

LEMMA SlugStep == TypeInv /\ SlugInv /\ [Next]_vars => SlugInv'
<1> SUFFICES ASSUME TypeInv, SlugInv, [Next]_vars PROVE SlugInv'
  OBVIOUS
<1>1. CASE UNCHANGED vars
  BY <1>1 DEF SlugInv, SlugsApart, Compared, vars, calls, history
<1> SUFFICES ASSUME Next PROVE SlugInv'
  BY <1>1
<1>2. /\ mgrs \in Seq(Row) /\ mgrs' \in Seq(Row) /\ Len(mgrs) <= Len(mgrs')
      /\ DOMAIN mgrs \subseteq DOMAIN mgrs'
      /\ \A i \in DOMAIN mgrs : mgrs'[i].slug = mgrs[i].slug
  BY TableKept DEF TypeInv, TypeOK
<1>3. ASSUME Len(mgrs') = Len(mgrs), saw' = saw
      PROVE  SlugsApart'
  BY <1>2, <1>3 DEF SlugInv, SlugsApart
<1>4. ASSUME NEW c \in Calls, pc'[c] = pc[c], listed'[c] = listed[c],
             req'[c] = req[c]
      PROVE  Compared(c)'
  BY <1>2, <1>4 DEF SlugInv, Compared
<1>5. CASE UsageChanges \/ AllAnswered
  BY <1>2, <1>3, <1>4, <1>5
     DEF UsageChanges, AllAnswered, vars, calls, history, SlugInv
<1>6. ASSUME NEW c \in Calls, Start(c) PROVE SlugInv'
  <2>1. \A d \in Calls \ {c} : pc'[d] = pc[d] /\ req'[d] = req[d]
    BY <1>6 DEF Start, TypeInv, TypeOK
  <2>2. pc'[c] \notin {"insert", "idle"}
    BY <1>6, NextSteps DEF Start, TypeInv, TypeOK
  <2>3. /\ Len(mgrs') = Len(mgrs) /\ saw' = saw /\ listed' = listed
        /\ req[c] = NoRequest
    BY <1>6 DEF Start
  <2>4. pc[c] = "idle"
    BY <2>3, ManagersAssumption DEF TypeInv, Control, Place
  <2>5. Compared(c)'
    BY <2>2, <2>3, <2>4 DEF SlugInv, Compared
  <2> QED BY <1>3, <1>4, <2>1, <2>3, <2>5 DEF SlugInv
<1>7. ASSUME NEW c \in Calls, Serve(c) PROVE SlugInv'
  <2>1. /\ req' = req
        /\ \A d \in Calls \ {c} : pc'[d] = pc[d] /\ listed'[d] = listed[d]
        /\ pc'[c] \notin {"idle", "listSlugs"}
        /\ pc'[c] = "insert" => ListSlugs(c)
    BY <1>7, ServeFrame
  <2>2. \A d \in Calls \ {c} : Compared(d)'
    BY <1>4, <2>1
  <2>3. Compared(c)'
    <3>1. CASE ListSlugs(c) /\ listed' = [listed EXCEPT ![c] = DOMAIN mgrs]
              /\ ~SlugOverlaps(req[c].row.slug, {mgrs[i].slug : i \in DOMAIN mgrs})
      <4>1. \A i \in DOMAIN mgrs : Apart(mgrs[i].slug, req[c].row.slug)
        BY <3>1 DEF Apart, SlugOverlaps
      <4>2. listed'[c] = DOMAIN mgrs
        BY <3>1 DEF TypeInv, TypeOK
      <4> QED BY <1>2, <2>1, <4>1, <4>2 DEF Compared
    <3>2. CASE ListSlugs(c) /\ (listed' = listed \/ pc'[c] # "insert")
      BY <2>1, <3>2 DEF Compared, ListSlugs, SlugInv, At
    <3>3. CASE ~ListSlugs(c)
      BY <2>1, <3>3 DEF Compared
    <3>4. ListSlugs(c) => \/ listed' = listed
                          \/ /\ listed' = [listed EXCEPT ![c] = DOMAIN mgrs]
                             /\ ~SlugOverlaps(req[c].row.slug,
                                              {mgrs[i].slug : i \in DOMAIN mgrs})
      BY DEF ListSlugs
    <3> QED BY <3>1, <3>2, <3>3, <3>4
  <2>4. SlugsApart'
    <3>1. CASE Insert(c) /\ mgrs' # mgrs
      <4> DEFINE id == Len(mgrs) + 1
      <4>1. /\ mgrs' = Append(mgrs, NewRow(req[c])) /\ pc[c] = "insert"
            /\ saw' = [saw EXCEPT ![id] = listed[c]] /\ id \in Ids
        BY <3>1 DEF Insert, NoWrite, At
      <4>2. req[c].row \in Row
        BY <4>1, ManagersAssumption DEF TypeInv, Control, Place, Request
      <4>3. mgrs'[id] = NewRow(req[c]) /\ NewRow(req[c]).slug = req[c].row.slug
        BY <1>2, <4>1, <4>2 DEF NewRow, Row
      <4>4. \A i \in listed[c] : i \in DOMAIN mgrs /\ Apart(mgrs[i].slug, req[c].row.slug)
        BY <4>1 DEF SlugInv, Compared
      <4>5. saw'[id] = listed[c] /\ \A i \in DOMAIN mgrs : saw'[i] = saw[i]
        BY <1>2, <4>1 DEF TypeInv, TypeOK
      <4>6. DOMAIN mgrs' = DOMAIN mgrs \union {id} /\ \A i \in DOMAIN mgrs : i < id
        BY <1>2, <4>1
      <4> SUFFICES ASSUME NEW i \in DOMAIN mgrs', NEW j \in DOMAIN mgrs',
                          i < j, i \in saw'[j]
                   PROVE  Apart(mgrs'[i].slug, mgrs'[j].slug)
        BY DEF SlugsApart
      <4>7. i \in DOMAIN mgrs
        BY <1>2, <4>6
      <4>8. CASE j = id
        BY <1>2, <4>3, <4>4, <4>5, <4>7, <4>8
      <4>9. CASE j # id
        BY <1>2, <4>5, <4>6, <4>7, <4>9 DEF SlugInv, SlugsApart
      <4> QED BY <4>8, <4>9
    <3>2. CASE ~(Insert(c) /\ mgrs' # mgrs)
      <4>1. saw' = saw
        BY <1>7, <3>2 DEF Serve, NoWrite, ListSlugs, Insert, Script, StoreCert, Find,
           CheckUser, CheckQuota, ReadRow, WriteRow, AnswerPatch, Me, CheckPassword, Login
      <4>2. Len(mgrs') = Len(mgrs)
        BY <1>7, <3>2 DEF Serve, NoWrite, ListSlugs, Insert, Script, StoreCert, Find,
           CheckUser, CheckQuota, ReadRow, WriteRow, AnswerPatch, Me, CheckPassword, Login
      <4> QED BY <1>3, <4>1, <4>2
    <3> QED BY <3>1, <3>2
  <2> QED BY <2>2, <2>3, <2>4 DEF SlugInv
<1> QED BY <1>5, <1>6, <1>7 DEF Next

LEMMA SlugsType ==
  ASSUME NEW table \in Seq(Row)
  PROVE  /\ Slugs(table) \in Seq(Text) /\ DOMAIN Slugs(table) = DOMAIN table
         /\ \A k \in DOMAIN table : Slugs(table)[k] = table[k].slug
<1>0. \A k \in DOMAIN table : table[k] \in Row
  OBVIOUS
<1>1. \A k \in DOMAIN table : table[k].slug \in Text
  BY <1>0 DEF Row
<1>2. DOMAIN table = 1..Len(table) /\ Len(table) \in Nat
  OBVIOUS
<1>3. Slugs(table) \in [1..Len(table) -> Text]
  BY <1>1, <1>2 DEF Slugs
<1>4. Slugs(table) \in Seq(Text)
  BY <1>2, <1>3, SeqDef
<1> QED BY <1>4 DEF Slugs

\* A name has two managers by its pattern only if one of them was created without
\* a look at the other (admin_handlers.go, HandleCreateManager; owner.go,
\* SlugOverlaps).
THEOREM OneManagerUnlessUnseen == Spec => []OwnersUnique
<1>1. TypeInv /\ SlugInv => OwnersUnique
  <2> SUFFICES ASSUME TypeInv, SlugInv, NEW a \in Accounts,
                      NEW i \in ByPattern(Slugs(mgrs), a.name),
                      NEW j \in ByPattern(Slugs(mgrs), a.name),
                      i < j, i \in saw[j]
               PROVE  FALSE
    BY DEF OwnersUnique
  <2>1. mgrs \in Seq(Row)
    BY DEF TypeInv, TypeOK
  <2>3. /\ Slugs(mgrs) \in Seq(Text) /\ DOMAIN Slugs(mgrs) = DOMAIN mgrs
        /\ \A k \in DOMAIN mgrs : Slugs(mgrs)[k] = mgrs[k].slug
    BY <2>1, SlugsType
  <2>4. a.name \in Text
    BY ManagersAssumption
  <2>5. i \in DOMAIN mgrs /\ j \in DOMAIN mgrs
    BY <2>3 DEF ByPattern
  <2>7. i # j
    BY <2>1, <2>5
  <2>6. SlugOverlaps(mgrs[i].slug, {mgrs[j].slug})
    BY <2>3, <2>4, <2>5, <2>7, OneManagerPerName
  <2> QED BY <2>5, <2>6 DEF SlugInv, SlugsApart, Apart
<1>2. Spec => [](TypeInv /\ SlugInv)
  BY InitTypeInv, TypeStep, SlugInit, SlugStep, PTL DEF Spec
<1> QED BY <1>1, <1>2, PTL

----------------------------------------------------------------------------
(* Quotas and the usage.                                                   *)

\* What a call that is about to write has established of the usage: by
\* CheckQuota, or as its request has no quota; and of the quota it has read.
HasRoom(c) ==
  /\ pc[c] = "checkPassword" => req[c].set.quota = Absent
  /\ pc[c] \in {"readRow", "writeRow"} /\ target[c] \notin moved =>
       req[c].set.quota = Absent \/ used[target[c]] <= req[c].set.quota
  /\ pc[c] = "writeRow" /\ target[c] \notin moved => used[target[c]] <= row[c].quota

QuotaInv == QuotaCoversUsage /\ \A c \in Calls : HasRoom(c)

LEMMA QuotaInit == Init => QuotaInv
<1> SUFFICES ASSUME Init PROVE QuotaInv
  OBVIOUS
<1>1. QuotaCoversUsage
  <2>1. mgrs \in Founders /\ used \in Usages /\ DOMAIN mgrs \subseteq Ids
    BY ManagersAssumption DEF Init, Ids
  <2> QED BY <2>1, ManagersAssumption DEF QuotaCoversUsage
<1>2. \A c \in Calls : HasRoom(c)
  BY DEF Init, HasRoom
<1> QED BY <1>1, <1>2 DEF QuotaInv

\* The usage of a manager that has not moved is what it was.
LEMMA UsageKept ==
  ASSUME TypeInv, Next
  PROVE  moved \subseteq moved' /\ \A i \in Ids \ moved' : used'[i] = used[i]
<1>1. CASE UsageChanges
  BY <1>1 DEF UsageChanges, TypeInv, TypeOK
<1>2. CASE AllAnswered \/ \E c \in Calls : Start(c)
  BY <1>2 DEF AllAnswered, Start, vars, history
<1>3. ASSUME NEW c \in Calls, Insert(c)
      PROVE  moved \subseteq moved' /\ used' = used
  BY <1>3 DEF Insert, NoWrite
<1>4. ASSUME NEW c \in Calls, Serve(c), ~Insert(c)
      PROVE  moved' = moved /\ used' = used
  BY <1>4 DEF Serve, ListSlugs, Script, StoreCert, Find, CheckUser, CheckQuota,
     ReadRow, WriteRow, AnswerPatch, Me, CheckPassword, Login, NoWrite
<1> QED BY <1>1, <1>2, <1>3, <1>4 DEF Next, Serve

\* A new quota covers the usage.
LEMMA QuotaCovered ==
  ASSUME TypeInv, QuotaInv, Next
  PROVE  QuotaCoversUsage'
<1>0. mgrs \in Seq(Row) /\ DOMAIN mgrs \subseteq Ids
  BY ManagersAssumption DEF TypeInv, TypeOK, Ids
<1>1. moved \subseteq moved' /\ \A i \in Ids \ moved' : used'[i] = used[i]
  BY UsageKept
<1>2. ASSUME NEW i \in DOMAIN mgrs, i \notin moved', mgrs'[i].quota = mgrs[i].quota
      PROVE  used'[i] <= mgrs'[i].quota
  BY <1>0, <1>1, <1>2 DEF QuotaInv, QuotaCoversUsage
<1>3. CASE UNCHANGED mgrs
  BY <1>2, <1>3 DEF QuotaCoversUsage
<1>4. ASSUME NEW c \in Calls, pc[c] = "insert", Insert(c),
             mgrs' = Append(mgrs, NewRow(req[c]))
      PROVE  QuotaCoversUsage'
  <2> DEFINE id == Len(mgrs) + 1
             new == NewRow(req[c])
  <2>1. req[c].row \in Row
    BY <1>4, ManagersAssumption DEF TypeInv, Control, Place, Request
  <2>2. new \in Row
    BY <2>1 DEF Row, NewRow
  <2>3. mgrs' # mgrs
    BY <1>0, <1>4, <2>2
  <2>4. id \in Ids /\ moved' = moved \union {i \in {id} : used[i] > new.quota}
    BY <1>4, <2>3 DEF Insert, NoWrite
  <2>5. mgrs' = Append(mgrs, new)
    BY <1>4
  <2>6. used[id] \in Nat /\ new.quota \in Nat
    BY <2>2, <2>4, ManagersAssumption DEF TypeInv, TypeOK, Row, Quotas
  <2> HIDE DEF new
  <2>7. /\ DOMAIN mgrs' = DOMAIN mgrs \union {id} /\ mgrs'[id] = new
        /\ \A i \in DOMAIN mgrs : mgrs'[i] = mgrs[i]
    BY <1>0, <2>2, <2>5
  <2>8. id \notin moved' => used'[id] <= mgrs'[id].quota
    BY <1>1, <2>4, <2>6, <2>7
  <2> QED BY <1>2, <2>7, <2>8 DEF QuotaCoversUsage
<1>5. ASSUME NEW c \in Calls, pc[c] = "storeCert",
             mgrs' = [mgrs EXCEPT ![target[c]] = WithCert(@, req[c].title)]
      PROVE  QuotaCoversUsage'
  <2>1. req[c].title \in Titles \union {NoTitle}
    BY <1>5, ManagersAssumption DEF TypeInv, Control, Place, Request
  <2>2. ASSUME NEW i \in DOMAIN mgrs PROVE mgrs'[i].quota = mgrs[i].quota
    <3>1. mgrs[i] \in Row
      BY <1>0
    <3>2. mgrs'[i] \in {mgrs[i], WithCert(mgrs[i], req[c].title)}
      BY <1>0, <1>5
    <3> QED BY <2>1, <3>1, <3>2, WithCertType
  <2>3. DOMAIN mgrs' = DOMAIN mgrs
    BY <1>5
  <2> QED BY <1>2, <2>2, <2>3 DEF QuotaCoversUsage
<1>6. ASSUME NEW c \in Calls, pc[c] = "writeRow",
             mgrs' = [mgrs EXCEPT ![target[c]] = Written(c)]
      PROVE  QuotaCoversUsage'
  <2> DEFINE t == target[c]
  <2>1. /\ t \in DOMAIN mgrs /\ row[c] \in Row /\ req[c].set \in Setting
    BY <1>6, ManagersAssumption DEF TypeInv, Control, Place, RowSteps, Request
  <2>2. mgrs[t] \in Row
    BY <1>0, <2>1
  <2>3. mgrs[t].cert \in Titles \union {NoTitle}
    BY <2>2 DEF Row
  <2>4. Written(c).quota = IF req[c].set.quota = Absent THEN row[c].quota
                                                         ELSE req[c].set.quota
    BY <2>1, <2>3, MergeType, WithCertType DEF Written
  <2>5. t \notin moved => used[t] <= Written(c).quota
    BY <1>6, <2>4 DEF QuotaInv, HasRoom
  <2>6. DOMAIN mgrs' = DOMAIN mgrs /\ mgrs'[t] = Written(c)
        /\ \A i \in DOMAIN mgrs \ {t} : mgrs'[i] = mgrs[i]
    BY <1>6, <2>1
  <2>7. t \notin moved' => used'[t] <= mgrs'[t].quota
    BY <1>0, <1>1, <2>1, <2>5, <2>6
  <2> QED BY <1>2, <2>6, <2>7 DEF QuotaCoversUsage
<1> QED BY <1>3, <1>4, <1>5, <1>6, TableSteps DEF TableStep

\* Who comes to read or write a row has room for the usage.
LEMMA RoomStep ==
  ASSUME TypeInv, QuotaInv, NEW c \in Calls, Serve(c)
  PROVE  HasRoom(c)'
<1>0. /\ moved \subseteq moved' /\ \A i \in Ids \ moved' : used'[i] = used[i]
  BY UsageKept DEF Next
<1>1. /\ req' = req /\ DOMAIN mgrs \subseteq Ids
      /\ (pc[c] # "idle" => req[c] \in Requests)
      /\ (pc[c] \in RowSteps => target[c] \in DOMAIN mgrs)
  BY ServeFrame, ManagersAssumption DEF TypeInv, TypeOK, Control, Place, Ids
<1>2. ASSUME pc'[c] \notin {"checkPassword", "readRow", "writeRow"}
      PROVE  HasRoom(c)'
  BY <1>2 DEF HasRoom
<1>3. ASSUME pc'[c] = "readRow", req[c].set.quota = Absent
      PROVE  HasRoom(c)'
  BY <1>1, <1>3 DEF HasRoom
<1>4. req[c] \in Requests =>
        /\ UserStep(req[c]) \in {"checkUser", "checkQuota", "readRow"}
        /\ QuotaStep(req[c]) \in {"checkQuota", "readRow"}
        /\ QuotaStep(req[c]) = "readRow" => req[c].set.quota = Absent
        /\ UserStep(req[c]) = "readRow" => req[c].set.quota = Absent
  BY NextSteps DEF QuotaStep, UserStep
<1>5. CASE ListSlugs(c) \/ Insert(c) \/ Script(c) \/ WriteRow(c)
             \/ AnswerPatch(c) \/ Me(c) \/ Login(c)
  <2>1. Goes(c, {"done", "insert", "script", "storeCert", "answer", "me"})
    BY <1>5, ActionMoves DEF Goes
  <2> QED BY <1>2, <2>1 DEF Goes
<1>6. CASE StoreCert(c) \/ Find(c) \/ CheckUser(c)
  <2>1. req[c] \in Requests
    BY <1>1, <1>6 DEF StoreCert, Find, CheckUser, At
  <2>2. After(req[c], "storeCert") \in {"done", UserStep(req[c])}
    BY <2>1, AfterSteps, ManagersAssumption
  <2>3. pc'[c] \in {"done", "script", "storeCert", UserStep(req[c]), QuotaStep(req[c])}
    BY <1>6, <2>2, ActionMoves DEF Goes
  <2> QED BY <1>2, <1>3, <1>4, <2>1, <2>3
<1>7. CASE CheckPassword(c)
  <2>1. Goes(c, {"done", "readRow"}) /\ pc[c] = "checkPassword"
    BY <1>7, ActionMoves DEF CheckPassword, At
  <2>2. req[c].set.quota = Absent
    BY <2>1 DEF QuotaInv, HasRoom
  <2> QED BY <1>2, <1>3, <2>1, <2>2 DEF Goes
<1>8. CASE CheckQuota(c)
  <2>1. /\ Goes(c, {"done", "readRow"}) /\ pc[c] = "checkQuota" /\ target' = target
        /\ used' = used
    BY <1>8, ActionMoves DEF CheckQuota, At, NoWrite
  <2>2. req[c] \in Requests /\ target[c] \in DOMAIN mgrs
    BY <1>1, <2>1 DEF RowSteps
  <2>3. pc'[c] = "readRow" => ~BelowUsage(req[c].set.quota, target[c])
    BY <1>8 DEF CheckQuota, Answer, Fail, TypeInv, TypeOK
  <2>4. /\ used[target[c]] \in Nat
        /\ req[c].set.quota = Absent \/ req[c].set.quota \in Nat
    BY <1>1, <2>2, ManagersAssumption
       DEF TypeInv, TypeOK, Quotas, Request, Setting
  <2>5. pc'[c] = "readRow" =>
          req[c].set.quota = Absent \/ used[target[c]] <= req[c].set.quota
    BY <2>3, <2>4 DEF BelowUsage
  <2> QED BY <1>1, <1>2, <2>1, <2>5 DEF Goes, HasRoom
<1>9. CASE ReadRow(c)
  <2>1. /\ Goes(c, {"done", "writeRow"}) /\ pc[c] = "readRow" /\ target' = target
        /\ used' = used /\ moved' = moved
    BY <1>9, ActionMoves DEF ReadRow, At, NoWrite
  <2>2. target[c] \in DOMAIN mgrs
    BY <1>1, <2>1 DEF RowSteps
  <2>3. pc'[c] = "writeRow" => row'[c] = mgrs[target[c]]
    BY <1>9 DEF ReadRow, Current, Answer, Fail, TypeInv, TypeOK
  <2>4. target[c] \notin moved => used[target[c]] <= mgrs[target[c]].quota
    BY <2>2 DEF QuotaInv, QuotaCoversUsage
  <2>5. target[c] \notin moved =>
          req[c].set.quota = Absent \/ used[target[c]] <= req[c].set.quota
    BY <2>1 DEF QuotaInv, HasRoom
  <2> QED BY <1>1, <1>2, <2>1, <2>3, <2>4, <2>5 DEF Goes, HasRoom
<1> QED BY <1>5, <1>6, <1>7, <1>8, <1>9 DEF Serve

LEMMA QuotaInvStep == TypeInv /\ QuotaInv /\ [Next]_vars => QuotaInv'
<1> SUFFICES ASSUME TypeInv, QuotaInv, [Next]_vars PROVE QuotaInv'
  OBVIOUS
<1>1. CASE UNCHANGED vars
  BY <1>1 DEF QuotaInv, QuotaCoversUsage, HasRoom, vars, calls, history
<1> SUFFICES ASSUME Next PROVE QuotaInv'
  BY <1>1
<1>2. QuotaCoversUsage'
  BY QuotaCovered
<1>3. /\ moved \subseteq moved' /\ \A i \in Ids \ moved' : used'[i] = used[i]
      /\ DOMAIN mgrs \subseteq Ids
  BY UsageKept, ManagersAssumption DEF TypeInv, TypeOK, Ids
<1>4. ASSUME NEW d \in Calls, pc'[d] = pc[d], req'[d] = req[d],
             target'[d] = target[d], row'[d] = row[d]
      PROVE  HasRoom(d)'
  <2>1. pc[d] \in {"readRow", "writeRow"} => target[d] \in Ids
    BY <1>3 DEF TypeInv, Control, Place, RowSteps
  <2> QED BY <1>3, <1>4, <2>1 DEF QuotaInv, HasRoom
<1>5. CASE UsageChanges \/ AllAnswered
  BY <1>2, <1>4, <1>5 DEF UsageChanges, AllAnswered, vars, calls, QuotaInv
<1>6. ASSUME NEW c \in Calls, Start(c) PROVE QuotaInv'
  <2>1. \A d \in Calls \ {c} : HasRoom(d)'
    BY <1>4, <1>6 DEF Start, TypeInv, TypeOK
  <2>2. PICK q \in Requests : /\ req' = [req EXCEPT ![c] = q]
                              /\ pc' = [pc EXCEPT ![c] = FirstStep(q)]
    BY <1>6 DEF Start
  <2>3. req'[c] = q /\ pc'[c] = FirstStep(q)
    BY <2>2 DEF TypeInv, TypeOK
  <2>4. FirstStep(q) \in RowSteps => q.set.quota = Absent
    BY NextSteps, ManagersAssumption
  <2>5. FirstStep(q) # "writeRow"
    BY NextSteps
  <2>6. HasRoom(c)'
    BY <2>3, <2>4, <2>5 DEF HasRoom, RowSteps
  <2> QED BY <1>2, <2>1, <2>6 DEF QuotaInv
<1>7. ASSUME NEW c \in Calls, Serve(c) PROVE QuotaInv'
  <2>1. \A d \in Calls \ {c} : HasRoom(d)'
    BY <1>4, <1>7, ServeFrame
  <2> QED BY <1>2, <1>7, <2>1, RoomStep DEF QuotaInv
<1> QED BY <1>5, <1>6, <1>7 DEF Next

\* However patches race, no quota falls below a usage that has not changed: what a
\* patch has checked still holds when it writes, as another can only have written a
\* quota it has checked itself (admin_handlers.go, QUOTA_BELOW_USAGE).
THEOREM QuotasCoverUsage == Spec => []QuotaCoversUsage
<1>1. Spec => [](TypeInv /\ QuotaInv)
  BY InitTypeInv, TypeStep, QuotaInit, QuotaInvStep, PTL DEF Spec
<1> QED BY <1>1, PTL DEF QuotaInv

----------------------------------------------------------------------------
(* What a write changes.                                                   *)

\* The row that a call is about to write back is the row of the table, but for the
\* certificate, unless another write has made it stale.
RowFresh(c) ==
  pc[c] = "writeRow" /\ c \notin stale =>
    WithCert(row[c], mgrs[target[c]].cert) = mgrs[target[c]]

FreshInv == \A c \in Calls : RowFresh(c)

LEMMA MergeIsWanted ==
  ASSUME NEW set \in Setting, NEW m \in Row
  PROVE  Merge(set, m) = Wanted(set, m)
<1> DEFINE fields == {"user", "pw", "name", "slug", "quota", "active", "cert"}
<1>1. DOMAIN m = fields
      /\ DOMAIN set = {"user", "name", "quota", "active", "pw"}
  BY DEF Row, Setting
<1>2. Merge(set, m) = [f \in fields |-> Merge(set, m)[f]]
  BY MergeType DEF Row
<1>3. ASSUME NEW f \in fields
      PROVE  Merge(set, m)[f] = Wanted(set, m)[f]
  BY <1>1, <1>3 DEF Merge, Given, Wanted, Row, Setting
<1>4. Wanted(set, m) = [f \in fields |-> Wanted(set, m)[f]]
  BY <1>1 DEF Wanted
<1> HIDE DEF fields
<1> QED BY <1>2, <1>3, <1>4

\* The certificate plays no part in a merge.
LEMMA MergeWithCert ==
  ASSUME NEW set \in Setting, NEW m \in Row, NEW t
  PROVE  WithCert(Merge(set, m), t) = Merge(set, WithCert(m, t))
BY DEF Merge, WithCert, Given, Row

\* Only ReadRow takes a call to its write.
LEMMA WritersRead ==
  ASSUME TypeInv, NEW c \in Calls, Serve(c), pc'[c] = "writeRow"
  PROVE  ReadRow(c)
<1>1. req[c] \in Requests =>
        /\ UserStep(req[c]) \in {"checkUser", "checkQuota", "readRow"}
        /\ QuotaStep(req[c]) \in {"checkQuota", "readRow"}
        /\ After(req[c], "storeCert") \in {"done", UserStep(req[c])}
  BY NextSteps, AfterSteps
<1>2. StoreCert(c) \/ Find(c) \/ CheckUser(c) => req[c] \in Requests
  BY DEF StoreCert, Find, CheckUser, At, TypeInv, Control, Place
<1>3. ~(StoreCert(c) \/ Find(c) \/ CheckUser(c))
  BY <1>1, <1>2, ActionMoves DEF Goes
<1>4. ~(ListSlugs(c) \/ Insert(c) \/ Script(c) \/ CheckQuota(c) \/ CheckPassword(c)
          \/ WriteRow(c) \/ AnswerPatch(c) \/ Me(c) \/ Login(c))
  BY ActionMoves DEF Goes
<1> QED BY <1>3, <1>4 DEF Serve

\* A call that goes on from its write has written what it was to write.
LEMMA OnlyWriter ==
  ASSUME TypeInv, [Next]_vars, NEW c \in Calls, pc[c] = "writeRow", pc'[c] # pc[c],
         mgrs' # mgrs
  PROVE  mgrs' = [mgrs EXCEPT ![target[c]] = Written(c)]
<1>1. ~(UNCHANGED vars \/ UsageChanges \/ AllAnswered)
  BY DEF UsageChanges, AllAnswered, vars, calls
<1>2. ~(\E d \in Calls : Start(d))
  BY DEF Start
<1>3. PICK d \in Calls : Serve(d)
  BY <1>1, <1>2 DEF Next
<1>4. d = c
  BY <1>3, ServeFrame
<1>5. WriteRow(c)
  BY <1>3, <1>4 DEF Serve, ListSlugs, Insert, Script, StoreCert, Find, CheckUser,
     CheckQuota, ReadRow, AnswerPatch, Me, CheckPassword, Login, At
<1> QED BY <1>5 DEF WriteRow, NoWrite

\* A step leaves the rows alone that a call relies on, but for the certificate, or
\* it makes the call stale.
LEMMA OthersFresh ==
  ASSUME TypeInv, FreshInv, Next, NEW c \in Calls, pc[c] = "writeRow",
         pc'[c] = pc[c], target'[c] = target[c], row'[c] = row[c]
  PROVE  RowFresh(c)'
<1> DEFINE t == target[c]
<1>0. /\ mgrs \in Seq(Row) /\ t \in DOMAIN mgrs /\ row[c] \in Row /\ mgrs[t] \in Row
  BY DEF TypeInv, TypeOK, Control, Place, RowSteps
<1>1. stale \subseteq stale'
  BY DEF Next, Start, Serve, ListSlugs, Insert, Script, StoreCert, Find, CheckUser,
     CheckQuota, ReadRow, WriteRow, AnswerPatch, Me, CheckPassword, Login, AllAnswered,
     NoWrite, UsageChanges, vars, history
<1>2. ASSUME mgrs'[t] = mgrs[t] PROVE RowFresh(c)'
  BY <1>1, <1>2 DEF FreshInv, RowFresh
<1>3. ASSUME NEW d \in Calls, pc[d] = "insert", Insert(d),
             mgrs' = Append(mgrs, NewRow(req[d]))
      PROVE  RowFresh(c)'
  <2>1. mgrs'[t] = mgrs[t]
    BY <1>0, <1>3
  <2> QED BY <1>2, <2>1
<1>4. ASSUME NEW d \in Calls,
             mgrs' = [mgrs EXCEPT ![target[d]] = WithCert(@, req[d].title)]
      PROVE  RowFresh(c)'
  <2>1. CASE target[d] = t
    <3>1. mgrs'[t] = WithCert(mgrs[t], req[d].title)
      BY <1>0, <1>4, <2>1
    <3>2. ASSUME c \notin stale
          PROVE  WithCert(row[c], mgrs'[t].cert) = mgrs'[t]
      <4>1. WithCert(row[c], mgrs[t].cert) = mgrs[t]
        BY <3>2 DEF FreshInv, RowFresh
      <4> QED BY <1>0, <3>1, <4>1 DEF WithCert, Row
    <3> QED BY <1>1, <3>2 DEF RowFresh
  <2>2. CASE target[d] # t
    BY <1>0, <1>2, <1>4, <2>2
  <2> QED BY <2>1, <2>2
<1>5. ASSUME NEW d \in Calls, pc[d] = "writeRow", WriteRow(d),
             mgrs' = [mgrs EXCEPT ![target[d]] = Written(d)]
      PROVE  RowFresh(c)'
  <2>1. CASE target[d] # t \/ mgrs' = mgrs
    BY <1>0, <1>2, <1>5, <2>1
  <2>2. CASE target[d] = t /\ mgrs' # mgrs
    <3>1. stale' = stale \union (Relying(t) \ {d})
      BY <1>5, <2>2 DEF WriteRow, NoWrite
    <3>2. pc'[d] \in {"done", "answer", "me"}
      BY <1>5, ActionMoves DEF Goes
    <3>3. c # d
      BY <3>2
    <3> QED BY <3>1, <3>3 DEF RowFresh, Relying, At
  <2> QED BY <2>1, <2>2
<1> QED BY <1>2, <1>3, <1>4, <1>5, TableSteps DEF TableStep

LEMMA FreshStep == TypeInv /\ FreshInv /\ [Next]_vars => FreshInv'
<1> SUFFICES ASSUME TypeInv, FreshInv, [Next]_vars PROVE FreshInv'
  OBVIOUS
<1>1. CASE UNCHANGED vars
  BY <1>1 DEF FreshInv, RowFresh, vars, calls, history
<1> SUFFICES ASSUME Next PROVE FreshInv'
  BY <1>1
<1>2. ASSUME NEW d \in Calls, pc'[d] = pc[d], target'[d] = target[d], row'[d] = row[d]
      PROVE  RowFresh(d)'
  BY <1>2, OthersFresh DEF RowFresh
<1>3. CASE UsageChanges \/ AllAnswered
  BY <1>2, <1>3 DEF UsageChanges, AllAnswered, vars, calls, FreshInv
<1>4. ASSUME NEW c \in Calls, Start(c) PROVE FreshInv'
  <2>1. \A d \in Calls \ {c} : RowFresh(d)'
    BY <1>2, <1>4 DEF Start, TypeInv, TypeOK
  <2>2. pc'[c] # "writeRow"
    BY <1>4, NextSteps DEF Start, TypeInv, TypeOK
  <2> QED BY <2>1, <2>2 DEF FreshInv, RowFresh
<1>5. ASSUME NEW c \in Calls, Serve(c) PROVE FreshInv'
  <2>1. \A d \in Calls \ {c} : RowFresh(d)'
    BY <1>2, <1>5, ServeFrame
  <2>2. CASE ReadRow(c) /\ pc'[c] = "writeRow"
    <3>1. /\ row'[c] = mgrs[target[c]] /\ target' = target /\ mgrs' = mgrs
          /\ pc[c] = "readRow"
      BY <2>2 DEF ReadRow, Current, Answer, Fail, NoWrite, At, TypeInv, TypeOK
    <3>2. mgrs[target[c]] \in Row
      BY <3>1 DEF TypeInv, TypeOK, Control, Place, RowSteps
    <3>3. WithCert(row'[c], mgrs[target[c]].cert) = mgrs[target[c]]
      BY <3>1, <3>2 DEF WithCert, Row
    <3> QED BY <2>1, <3>1, <3>3 DEF FreshInv, RowFresh
  <2>3. CASE ~(ReadRow(c) /\ pc'[c] = "writeRow")
    <3>1. pc'[c] # "writeRow"
      BY <1>5, <2>3, WritersRead
    <3> QED BY <2>1, <3>1 DEF FreshInv, RowFresh
  <2> QED BY <2>2, <2>3
<1> QED BY <1>3, <1>4, <1>5 DEF Next

\* A write of a row changes the fields of its request and no others, unless the row
\* was written between the two statements of UpdateManager (store.go).
THEOREM UpdatesAtomic == Spec => UpdateIsAtomic
<1>1. FreshInv /\ TypeInv /\ [Next]_vars =>
        \A c \in Calls \ stale :
          At(c, "writeRow") /\ pc'[c] # pc[c] /\ mgrs' # mgrs =>
            mgrs' = [mgrs EXCEPT ![target[c]] = Wanted(req[c].set, @)]
  <2> SUFFICES ASSUME FreshInv, TypeInv, [Next]_vars, NEW c \in Calls \ stale,
                      At(c, "writeRow"), pc'[c] # pc[c], mgrs' # mgrs
               PROVE  mgrs' = [mgrs EXCEPT ![target[c]] = Wanted(req[c].set, @)]
    OBVIOUS
  <2> DEFINE t == target[c]
  <2>0. /\ t \in DOMAIN mgrs /\ row[c] \in Row /\ mgrs[t] \in Row
        /\ req[c].set \in Setting
    BY ManagersAssumption DEF At, TypeInv, TypeOK, Control, Place, RowSteps, Request
  <2>1. mgrs' = [mgrs EXCEPT ![t] = Written(c)]
    BY OnlyWriter DEF At
  <2>2. WithCert(row[c], mgrs[t].cert) = mgrs[t]
    BY DEF FreshInv, RowFresh, At
  <2>3. Written(c) = Merge(req[c].set, mgrs[t])
    BY <2>0, <2>2, MergeWithCert DEF Written
  <2> QED BY <2>0, <2>1, <2>3, MergeIsWanted
<1>2. Spec => [](TypeInv /\ FreshInv)
  <2>1. Init => FreshInv
    BY DEF Init, FreshInv, RowFresh
  <2> QED BY <2>1, InitTypeInv, TypeStep, FreshStep, PTL DEF Spec
<1> QED BY <1>1, <1>2, PTL DEF Spec, UpdateIsAtomic

----------------------------------------------------------------------------
(* Whose an account is, when managers come.                                *)

\* The loops of Resolve find the lowest id.
LEMMA FirstIsLeast ==
  ASSUME NEW S \in SUBSET Nat, S # {}
  PROVE  First(S) \in S /\ \A j \in S : First(S) <= j
<1> DEFINE Less == {p \in Nat \X Nat : p[1] < p[2]}
<1>0. IsWellFoundedOn(Less, Nat)
  BY NatLessThanWellFounded DEF OpToRel
<1>1. PICK i \in S : \A j \in S : <<j, i>> \notin Less
  <2> HIDE DEF Less
  <2> QED BY <1>0, WFMin
<1>2. ASSUME NEW j \in S PROVE i <= j
  <2>1. <<j, i>> \in Nat \X Nat /\ <<j, i>>[1] = j /\ <<j, i>>[2] = i
    OBVIOUS
  <2>2. ~(j < i)
    BY <1>1, <2>1
  <2> QED BY <2>2
<1> QED BY <1>1, <1>2 DEF First

\* Managers with higher ids do not come before those that are there.
LEMMA FirstKept ==
  ASSUME NEW S \in SUBSET Nat, S # {}, NEW T \in SUBSET Nat,
         \A j \in T : \A i \in S : i < j
  PROVE  First(S \union T) = First(S)
<1>1. First(S) \in S /\ \A j \in S : First(S) <= j
  BY FirstIsLeast
<1>2. First(S \union T) \in S \union T /\ \A j \in S \union T : First(S \union T) <= j
  BY FirstIsLeast
<1> DEFINE i == First(S)
           k == First(S \union T)
<1>3. i \in Nat /\ k \in Nat /\ k <= i
  BY <1>1, <1>2
<1>4. k \notin T
  BY <1>1, <1>3
<1>5. i <= k
  BY <1>1, <1>2, <1>4
<1> QED BY <1>3, <1>5

\* The table changes by new managers only, as far as patterns and tokens go.
LEMMA RegistryGrows ==
  ASSUME TypeInv, Next, NEW name, NEW comment
  PROVE  /\ \A P \in {ByPattern(Slugs(mgrs), name), ByToken(Slugs(mgrs), comment)} :
              P \subseteq DOMAIN mgrs
         /\ \E new \in SUBSET (DOMAIN mgrs' \ DOMAIN mgrs) :
              ByPattern(Slugs(mgrs'), name) = ByPattern(Slugs(mgrs), name) \union new
         /\ \E new \in SUBSET (DOMAIN mgrs' \ DOMAIN mgrs) :
              ByToken(Slugs(mgrs'), comment) = ByToken(Slugs(mgrs), comment) \union new
<1>1. /\ mgrs \in Seq(Row) /\ mgrs' \in Seq(Row)
      /\ \A i \in DOMAIN mgrs : mgrs'[i].slug = mgrs[i].slug
      /\ DOMAIN mgrs \subseteq DOMAIN mgrs'
  BY TableKept DEF TypeInv, TypeOK
<1>2. /\ DOMAIN Slugs(mgrs) = DOMAIN mgrs /\ DOMAIN Slugs(mgrs') = DOMAIN mgrs'
      /\ \A i \in DOMAIN mgrs : Slugs(mgrs')[i] = Slugs(mgrs)[i]
  BY <1>1 DEF Slugs
<1>3. /\ ByPattern(Slugs(mgrs), name) = ByPattern(Slugs(mgrs'), name) \intersect DOMAIN mgrs
      /\ ByToken(Slugs(mgrs), comment) = ByToken(Slugs(mgrs'), comment) \intersect DOMAIN mgrs
  BY <1>1, <1>2 DEF ByPattern, ByToken
<1>4. /\ ByPattern(Slugs(mgrs'), name) \subseteq DOMAIN mgrs'
      /\ ByToken(Slugs(mgrs'), comment) \subseteq DOMAIN mgrs'
  BY <1>2 DEF ByPattern, ByToken
<1>5. ASSUME NEW P \in SUBSET DOMAIN mgrs'
      PROVE  \E new \in SUBSET (DOMAIN mgrs' \ DOMAIN mgrs) :
               P = (P \intersect DOMAIN mgrs) \union new
  <2> WITNESS P \ DOMAIN mgrs \in SUBSET (DOMAIN mgrs' \ DOMAIN mgrs)
  <2> QED OBVIOUS
<1>6. \E new \in SUBSET (DOMAIN mgrs' \ DOMAIN mgrs) :
        ByPattern(Slugs(mgrs'), name) = ByPattern(Slugs(mgrs), name) \union new
  BY <1>3, <1>4, <1>5
<1>7. \E new \in SUBSET (DOMAIN mgrs' \ DOMAIN mgrs) :
        ByToken(Slugs(mgrs'), comment) = ByToken(Slugs(mgrs), comment) \union new
  BY <1>3, <1>4, <1>5
<1>8. /\ ByPattern(Slugs(mgrs), name) \subseteq DOMAIN mgrs
      /\ ByToken(Slugs(mgrs), comment) \subseteq DOMAIN mgrs
  BY <1>3
<1> QED BY <1>6, <1>7, <1>8

\* An account changes its manager only from one that a comment gave it to the one
\* whose pattern it has, and then it is marked (owner.go, Resolve, OwnerMismatch).
THEOREM NewOwnersMarked == Spec => OwnerChangesMarked
<1>1. ASSUME TypeInv, [Next]_vars, NEW a \in Accounts,
             Resolve(Slugs(mgrs), a.name, a.comment)
               \notin {0, Resolve(Slugs(mgrs'), a.name, a.comment)}
      PROVE  /\ ByPattern(Slugs(mgrs), a.name) = {}
             /\ OwnerMismatch(Slugs(mgrs'), a.name, a.comment)
  <2> DEFINE P == ByPattern(Slugs(mgrs), a.name)
             Q == ByPattern(Slugs(mgrs'), a.name)
             T == ByToken(Slugs(mgrs), a.comment)
             U == ByToken(Slugs(mgrs'), a.comment)
  <2>0. Next
    BY <1>1 DEF vars
  <2>1. mgrs \in Seq(Row) /\ mgrs' \in Seq(Row)
    BY <1>1, <2>0, TableKept DEF TypeInv, TypeOK
  <2>2. DOMAIN mgrs \in SUBSET Nat /\ DOMAIN mgrs' \in SUBSET Nat
        /\ \A j \in DOMAIN mgrs' \ DOMAIN mgrs : \A i \in DOMAIN mgrs : i < j
    BY <2>1
  <2>3. /\ P \subseteq DOMAIN mgrs /\ T \subseteq DOMAIN mgrs
        /\ \E new \in SUBSET (DOMAIN mgrs' \ DOMAIN mgrs) : Q = P \union new
        /\ \E new \in SUBSET (DOMAIN mgrs' \ DOMAIN mgrs) : U = T \union new
    BY <1>1, <2>0, RegistryGrows
  <2> HIDE DEF P, Q, T, U
  <2>4. P # {} => First(Q) = First(P) /\ Q # {}
    BY <2>2, <2>3, FirstKept
  <2>5. T # {} => First(U) = First(T) /\ U # {} /\ First(T) \in T
    BY <2>2, <2>3, FirstKept, FirstIsLeast
  <2>6. /\ Resolve(Slugs(mgrs), a.name, a.comment) = IF P # {} THEN First(P) ELSE First(T)
        /\ Resolve(Slugs(mgrs'), a.name, a.comment) = IF Q # {} THEN First(Q) ELSE First(U)
    BY DEF Resolve, P, Q, T, U
  <2>7. First({}) = 0
    BY DEF First
  <2>8. P = {} /\ T # {} /\ Q # {}
    BY <1>1, <2>4, <2>5, <2>6, <2>7
  <2>9. First(Q) \in Q
    BY <2>2, <2>3, <2>8, FirstIsLeast
  <2>10. First(Q) # First(U)
    BY <2>3, <2>5, <2>8, <2>9
  <2> QED BY <2>5, <2>8, <2>10 DEF OwnerMismatch, P, Q, U
<1>2. Spec => []TypeInv
  BY InitTypeInv, TypeStep, PTL DEF Spec
<1>3. TypeInv /\ [Next]_vars =>
        \A a \in Accounts :
          LET old == Resolve(Slugs(mgrs), a.name, a.comment)
          IN old \notin {0, Resolve(Slugs(mgrs'), a.name, a.comment)} =>
               /\ ByPattern(Slugs(mgrs), a.name) = {}
               /\ OwnerMismatch(Slugs(mgrs'), a.name, a.comment)
  BY <1>1
<1> QED BY <1>2, <1>3, PTL DEF Spec, OwnerChangesMarked

----------------------------------------------------------------------------
(* What a call that is alone does.                                         *)

\* The table when the certificate of a patch has been seen to.
Certified(q, old) ==
  IF q.op = "patch" /\ q.title # Absent
  THEN [old EXCEPT ![q.id] = WithCert(@, q.title)] ELSE old

\* What the place of a call that has been alone says of the table.
Begun(c) ==
  pc[c] \in {"listSlugs", "insert", "find", "checkPassword", "login"} =>
    /\ mgrs = before[c]
    /\ pc[c] \in {"find", "checkPassword", "login"} =>
         pc[c] = FirstStep(req[c]) /\ target[c] = req[c].id

Certifying(c) ==
  pc[c] \in {"script", "storeCert"} =>
    /\ req[c].title \notin {Absent, BadTitle}
    /\ \/ /\ req[c].op = "create" /\ req[c].title # NoTitle
          /\ target[c] = Len(before[c]) + 1
          /\ mgrs = Append(before[c], NewRow(req[c]))
       \/ /\ req[c].op = "patch" /\ target[c] = req[c].id
          /\ mgrs = before[c]

Checking(c) ==
  pc[c] \in {"checkUser", "checkQuota", "readRow", "writeRow"} =>
    /\ req[c].op \in {"patch", "patchMe", "password"} /\ target[c] = req[c].id
    /\ req[c].title = BadTitle => mgrs = before[c]
    /\ mgrs = Certified(req[c], before[c])
    /\ pc[c] = "writeRow" => row[c] = mgrs[target[c]]

Answering(c) ==
  pc[c] \in {"answer", "me"} =>
    req[c].op \in {"patch", "patchMe"} /\ mgrs = Applied(req[c], before[c])

OnCourse(c) == Begun(c) /\ Certifying(c) /\ Checking(c) /\ Answering(c)

AloneInv ==
  \A c \in Calls : Alone(c) =>
    /\ before[c] \in Seq(Row)
    /\ \A d \in Calls \ {c} : pc[d] \in {"idle", "done"}
    /\ OnCourse(c)

\* The conclusion of CallsTakeEffect: what the answer r of call c tells of the table.
Effect(c, r, new) ==
  LET q == req[c] old == before[c]
  IN /\ r = "ok" => new = Applied(q, old)
     /\ r \in Refusals =>
          \/ new = old
          \/ /\ q.op = "patch" /\ q.title \notin {Absent, BadTitle}
             /\ new = [old EXCEPT ![q.id].cert = q.title]
          \/ q.op = "create" /\ q.title = BadTitle /\ r = "invalid"

\* The first step tells the calls apart.
LEMMA OpOfFirstStep ==
  ASSUME NEW q \in Requests
  PROVE  /\ FirstStep(q) = "login" <=> q.op = "login"
         /\ FirstStep(q) = "checkPassword" <=> q.op = "password"
         /\ FirstStep(q) = "readRow" <=> q.op = "patchMe"
BY ManagersAssumption DEF FirstStep, Request, Ops

\* The write of UpdateManager makes of the table what the request asks for.
LEMMA WriteApplies ==
  ASSUME NEW old \in Seq(Row), NEW q \in Requests, q.id \in DOMAIN old,
         q.op \in {"patch", "patchMe", "password"}
  PROVE  [Certified(q, old) EXCEPT ![q.id] = WithCert(Merge(q.set, @), @.cert)]
           = Applied(q, old)
<1> DEFINE m == old[q.id]
<1>1. m \in Row /\ q.set \in Setting /\ q.title \in Titles \union {NoTitle, Absent}
  BY ManagersAssumption DEF Request
<1>2. CASE q.op = "patch" /\ q.title # Absent
  <2> DEFINE n == WithCert(m, q.title)
  <2>1. n \in Row
    BY <1>1, <1>2, WithCertType
  <2>2. n.cert = q.title /\ WithCert(n, q.title) = n
    BY <1>1, <1>2 DEF WithCert, Row
  <2>3. WithCert(Merge(q.set, n), n.cert) = Merge(q.set, n)
    BY <1>1, <2>1, <2>2, MergeWithCert
  <2>4. [Wanted(q.set, m) EXCEPT !.cert = q.title] = Merge(q.set, n)
    <3>1. WithCert(Merge(q.set, m), q.title) = Merge(q.set, n)
      BY <1>1, MergeWithCert
    <3>2. Wanted(q.set, m) = Merge(q.set, m)
      BY <1>1, MergeIsWanted
    <3> QED BY <3>1, <3>2 DEF WithCert
  <2>5. Certified(q, old) = [old EXCEPT ![q.id] = n]
    BY <1>2 DEF Certified
  <2>6. Applied(q, old) = [old EXCEPT ![q.id] = Merge(q.set, n)]
    BY <1>2, <2>4 DEF Applied
  <2> HIDE DEF n
  <2> QED BY <2>3, <2>5, <2>6
<1>3. CASE ~(q.op = "patch" /\ q.title # Absent)
  <2>1. WithCert(m, m.cert) = m
    BY <1>1 DEF WithCert, Row
  <2>2. WithCert(Merge(q.set, m), m.cert) = Merge(q.set, m)
    BY <1>1, <2>1, MergeWithCert
  <2>3. [Wanted(q.set, m) EXCEPT !.cert = m.cert] = Merge(q.set, m)
    BY <1>1, <2>2, MergeIsWanted DEF WithCert
  <2>4. Wanted(q.set, m) = Merge(q.set, m)
    BY <1>1, MergeIsWanted
  <2>5. Certified(q, old) = old
    BY <1>3 DEF Certified
  <2>6. Applied(q, old) = [old EXCEPT ![q.id] = Merge(q.set, m)]
    <3>1. CASE q.op = "patch"
      BY <1>3, <2>3, <3>1 DEF Applied
    <3>2. CASE q.op # "patch"
      BY <2>4, <3>2 DEF Applied
    <3> QED BY <3>1, <3>2
  <2> QED BY <2>2, <2>5, <2>6
<1> QED BY <1>2, <1>3

\* A new row that is replaced is as good as never there.
LEMMA LastReplaced ==
  ASSUME NEW old \in Seq(Row), NEW m \in Row, NEW n \in Row
  PROVE  [Append(old, m) EXCEPT ![Len(old) + 1] = n] = Append(old, n)
<1> DEFINE s == Append(old, m)
           t == Append(old, n)
           i == Len(old) + 1
<1>1. s \in Seq(Row) /\ t \in Seq(Row) /\ Len(s) = i /\ Len(t) = i
      /\ i \in 1..i
  OBVIOUS
<1>2. \A j \in 1..i : t[j] = IF j = i THEN n ELSE s[j]
  OBVIOUS
<1> HIDE DEF s, t
<1>3. /\ [s EXCEPT ![i] = n] \in Seq(Row) /\ Len([s EXCEPT ![i] = n]) = Len(s)
      /\ \A j \in 1..Len(s) : [s EXCEPT ![i] = n][j] = IF j = i THEN n ELSE s[j]
  BY <1>1, ExceptSeq
<1>4. \A j \in 1..i : [s EXCEPT ![i] = n][j] = t[j]
  BY <1>1, <1>2, <1>3
<1> QED BY <1>1, <1>3, <1>4, SeqEqual DEF s, t

\* The INSERT, and the certificate after it, make the row that is asked for.
LEMMA InsertApplies ==
  ASSUME NEW old \in Seq(Row), NEW q \in Requests, q.op = "create"
  PROVE  /\ q.title \in {Absent, NoTitle} => Append(old, NewRow(q)) = Applied(q, old)
         /\ q.title # Absent =>
              [Append(old, NewRow(q)) EXCEPT ![Len(old) + 1] = WithCert(@, q.title)]
                = Applied(q, old)
<1> DEFINE n == NewRow(q)
           k == [q.row EXCEPT !.active = TRUE,
                   !.cert = IF q.title = Absent THEN NoTitle ELSE q.title]
<1>1. q.row \in Row
  BY ManagersAssumption DEF Request
<1>0. n \in Row /\ q.title \in Titles \union {NoTitle, Absent}
  BY <1>1, ManagersAssumption DEF NewRow, Row, Request
<1>2. Applied(q, old) = Append(old, k)
  BY DEF Applied
<1>3. q.title \in {Absent, NoTitle} => n = k
  BY DEF NewRow
<1>4. q.title # Absent => WithCert(n, q.title) = k
  BY <1>1 DEF NewRow, WithCert, Row
<1> HIDE DEF n, k
<1>5. q.title # Absent =>
      [Append(old, n) EXCEPT ![Len(old) + 1] = WithCert(n, q.title)]
          = Append(old, WithCert(n, q.title))
  <2> SUFFICES ASSUME q.title # Absent
               PROVE  [Append(old, n) EXCEPT ![Len(old) + 1] = WithCert(n, q.title)]
                        = Append(old, WithCert(n, q.title))
    OBVIOUS
  <2>1. WithCert(n, q.title) \in Row
    BY <1>0, WithCertType
  <2> QED BY <1>0, <2>1, LastReplaced
<1>6. Append(old, n)[Len(old) + 1] = n
  OBVIOUS
<1> QED BY <1>2, <1>3, <1>4, <1>5, <1>6 DEF n

\* A call that is answered is at its end; one that goes on is not answered.
LEMMA Answered ==
  ASSUME TypeOK, NEW c \in Calls, NEW r \in Replies, Answer(c, r)
  PROVE  OnCourse(c)' /\ reply'[c] = r
BY DEF TypeOK, Answer, OnCourse, Begun, Certifying, Checking, Answering

\* Where a step that is not the last goes.
LEMMA WentOn ==
  ASSUME TypeOK, NEW c \in Calls, NEW step, GoTo(c, step)
  PROVE  /\ pc'[c] = step
         /\ IF step = "done" THEN reply'[c] = "ok" ELSE reply' = reply
BY DEF TypeOK, GoTo, Answer

\* A refusal before the table is written.
LEMMA Refused ==
  ASSUME TypeOK, NEW c \in Calls, NEW r \in Replies \ {"ok"}, Answer(c, r),
         mgrs' = before[c] \/ r \notin Refusals
  PROVE  OnCourse(c)' /\ Effect(c, reply'[c], mgrs')
BY Answered DEF Effect

\* A refusal by the checks of a patch.
LEMMA CheckRefused ==
  ASSUME TypeOK, NEW c \in Calls, NEW r \in Replies \ {"ok"}, Answer(c, r),
         mgrs' = Certified(req[c], before[c]),
         req[c].title = BadTitle => mgrs' = before[c]
  PROVE  OnCourse(c)' /\ Effect(c, reply'[c], mgrs')
BY Answered DEF Effect, Certified, WithCert

\* Call c keeps its course, and what it is answered is true.
Told(c) == OnCourse(c)' /\ (reply'[c] # reply[c] => Effect(c, reply'[c], mgrs'))

\* A create that is alone.
LEMMA CreateOnCourse ==
  ASSUME TypeInv, NEW c \in Calls, Alone(c), before[c] \in Seq(Row), OnCourse(c),
         ListSlugs(c) \/ Insert(c)
  PROVE  Told(c)
<1> USE DEF TypeInv
<1>1. /\ mgrs = before[c] /\ req[c] \in Requests /\ req[c].op = "create"
      /\ before' = before /\ req' = req /\ mgrs \in Seq(Row)
  BY DEF OnCourse, Begun, Control, Place, ListSlugs, Insert, At, TypeOK, NoWrite
<1>2. CASE ListSlugs(c)
  <2>1. mgrs' = mgrs /\ pc[c] = "listSlugs"
    BY <1>2 DEF ListSlugs, NoWrite, At
  <2>2. CASE Answer(c, "overlap")
    BY <1>1, <2>1, <2>2, Refused DEF Replies, Told
  <2>3. CASE Proceed(c)
    <3>1. pc'[c] = "insert" /\ reply' = reply
      BY <2>1, <2>3, AfterSteps, WentOn DEF Proceed
    <3> QED BY <1>1, <2>1, <3>1
               DEF Told, OnCourse, Begun, Certifying, Checking, Answering
  <2> QED BY <1>2, <2>2, <2>3 DEF ListSlugs
<1>3. CASE Insert(c)
  <2> DEFINE q == req[c]
             title == IF q.title = NoTitle THEN Absent ELSE q.title
  <2>1. CASE Answer(c, "taken") /\ mgrs' = mgrs
    BY <1>1, <2>1, Refused DEF Replies, Told
  <2>2. CASE /\ mgrs' = Append(mgrs, NewRow(q))
             /\ target' = [target EXCEPT ![c] = Len(mgrs) + 1]
             /\ IF title = BadTitle THEN Answer(c, "invalid")
                                    ELSE GoTo(c, CertStep(title, "done"))
    <3>1. CASE title = BadTitle
      <4>1. Answer(c, "invalid") /\ q.title = BadTitle
        BY <2>2, <3>1, ManagersAssumption
      <4> QED BY <1>1, <4>1, Answered DEF Replies, Told, Effect, Refusals
    <3>2. CASE title = Absent
      <4>1. GoTo(c, "done") /\ q.title \in {Absent, NoTitle}
        BY <2>2, <3>2, ManagersAssumption DEF CertStep
      <4>2. Answer(c, "ok")
        BY <4>1 DEF GoTo
      <4> QED BY <1>1, <2>2, <4>1, <4>2, Answered, InsertApplies
              DEF Replies, Told, Effect, Refusals
    <3>3. CASE title \notin {Absent, BadTitle}
      <4>1. GoTo(c, "script") /\ q.title \notin {Absent, NoTitle, BadTitle}
        BY <2>2, <3>3, ManagersAssumption DEF CertStep
      <4>2. pc'[c] = "script" /\ reply' = reply /\ target'[c] = Len(mgrs) + 1
        BY <2>2, <4>1, WentOn DEF TypeOK
      <4> QED BY <1>1, <2>2, <4>1, <4>2
              DEF Told, OnCourse, Begun, Certifying, Checking, Answering
    <3> QED BY <3>1, <3>2, <3>3
  <2> QED BY <1>3, <2>1, <2>2 DEF Insert, Fail, NoWrite
<1> QED BY <1>2, <1>3

\* The certificate of a call that is alone.
LEMMA CertOnCourse ==
  ASSUME TypeInv, NEW c \in Calls, Alone(c), before[c] \in Seq(Row), OnCourse(c),
         Script(c) \/ StoreCert(c)
  PROVE  Told(c)
<1> USE DEF TypeInv
<1>1. /\ req[c] \in Requests /\ before' = before /\ req' = req /\ target' = target
      /\ req[c].op # "create" => target[c] \in DOMAIN mgrs
      /\ pc[c] \in {"script", "storeCert"}
  BY DEF Control, Place, Script, StoreCert, At, NoWrite
<1>2. /\ req[c].title \notin {Absent, BadTitle}
      /\ \/ /\ req[c].op = "create" /\ target[c] = Len(before[c]) + 1
            /\ mgrs = Append(before[c], NewRow(req[c]))
         \/ /\ req[c].op = "patch" /\ target[c] = req[c].id
            /\ mgrs = before[c]
  BY <1>1 DEF OnCourse, Certifying
<1>3. CASE Answer(c, "router")
  BY <1>3, Refused DEF Replies, Refusals, Told
<1>4. CASE Script(c) /\ Proceed(c)
  <2>1. mgrs' = mgrs /\ pc[c] = "script"
    BY <1>4 DEF Script, NoWrite, At
  <2>2. pc'[c] = "storeCert" /\ reply' = reply
    BY <1>4, <2>1, AfterSteps, WentOn DEF Proceed
  <2>3. Certifying(c)'
    BY <1>1, <2>1 DEF OnCourse, Certifying
  <2> QED BY <2>2, <2>3 DEF Told, OnCourse, Begun, Checking, Answering
<1>5. CASE /\ At(c, "storeCert") /\ Proceed(c)
           /\ mgrs' = [mgrs EXCEPT ![target[c]] = WithCert(@, req[c].title)]
  <2>1. /\ mgrs' = [mgrs EXCEPT ![target[c]] = WithCert(@, req[c].title)]
        /\ pc[c] = "storeCert"
    BY <1>5 DEF At
  <2>2. CASE req[c].op = "create"
    <3>1. GoTo(c, "done")
      BY <1>5, <2>1, <2>2, AfterSteps DEF Proceed
    <3>2. Answer(c, "ok")
      BY <3>1 DEF GoTo
    <3>3. mgrs' = Applied(req[c], before[c])
      BY <1>1, <1>2, <2>1, <2>2, InsertApplies
    <3> QED BY <3>2, <3>3, Answered DEF Replies, Told, Effect, Refusals
  <2>3. CASE req[c].op = "patch"
    <3>1. GoTo(c, UserStep(req[c]))
      BY <1>5, <2>1, <2>3, AfterSteps DEF Proceed
    <3>2. UserStep(req[c]) \in {"checkUser", "checkQuota", "readRow"}
      BY <1>1, NextSteps
    <3>3. pc'[c] \in {"checkUser", "checkQuota", "readRow"} /\ reply' = reply
      BY <3>1, <3>2, WentOn
    <3>4. mgrs' = Certified(req[c], before[c])
      BY <1>2, <2>1, <2>3 DEF Certified
    <3>5. Checking(c)'
      BY <1>1, <1>2, <2>3, <3>3, <3>4 DEF Checking
    <3> QED BY <3>3, <3>5 DEF Told, OnCourse, Begun, Certifying, Answering
  <2> QED BY <1>2, <2>2, <2>3
<1> QED BY <1>3, <1>4, <1>5 DEF Script, StoreCert, Fail

\* What a patch finds when it is alone.
LEMMA FindOnCourse ==
  ASSUME TypeInv, NEW c \in Calls, Alone(c), before[c] \in Seq(Row), OnCourse(c),
         Find(c)
  PROVE  Told(c)
<1> USE DEF TypeInv
<1> DEFINE q == req[c]
           known == q.id \in DOMAIN mgrs
           title == IF q.title = mgrs[q.id].cert THEN Absent ELSE q.title
<1>1. /\ q \in Requests /\ q.op = "patch" /\ target[c] = q.id
      /\ before' = before /\ req' = req /\ target' = target
      /\ mgrs = before[c] /\ mgrs' = mgrs /\ mgrs \in Seq(Row)
  BY DEF OnCourse, Begun, Control, Place, Find, At, NoWrite, TypeOK
<1>2. CASE \E r \in {"missing", "invalid", "error"} : Answer(c, r)
  BY <1>1, <1>2, Refused DEF Replies, Told
<1>3. CASE known /\ title # BadTitle /\ GoTo(c, CertStep(title, UserStep(q)))
  <2>0. mgrs[q.id] \in Row
    BY <1>1, <1>3
  <2>1. CASE title = Absent
    <3>1. GoTo(c, UserStep(q))
      BY <1>3, <2>1, ManagersAssumption DEF CertStep
    <3>2. UserStep(q) \in {"checkUser", "checkQuota", "readRow"}
      BY <1>1, NextSteps
    <3>3. pc'[c] \in {"checkUser", "checkQuota", "readRow"} /\ reply' = reply
      BY <3>1, <3>2, WentOn
    <3>4. q.title \in {Absent, mgrs[q.id].cert}
      BY <2>1
    <3>5. q.title # Absent => WithCert(mgrs[q.id], q.title) = mgrs[q.id]
      BY <2>0, <3>4 DEF WithCert, Row
    <3>6. mgrs' = Certified(q, before[c])
      BY <1>1, <3>5 DEF Certified
    <3>7. Checking(c)'
      BY <1>1, <3>3, <3>6 DEF Checking
    <3> QED BY <3>3, <3>7 DEF Told, OnCourse, Begun, Certifying, Answering
  <2>2. CASE title # Absent
    <3>1. q.title \notin {Absent, BadTitle} /\ title = q.title
      BY <1>3, <2>2
    <3>2. CertStep(title, UserStep(q)) \in {"script", "storeCert"}
      BY <1>3, <2>2 DEF CertStep
    <3>3. pc'[c] \in {"script", "storeCert"} /\ reply' = reply
      BY <1>3, <3>2, WentOn
    <3>4. Certifying(c)'
      BY <1>1, <3>1 DEF Certifying
    <3> QED BY <3>3, <3>4 DEF Told, OnCourse, Begun, Checking, Answering
  <2> QED BY <2>1, <2>2
<1> QED BY <1>2, <1>3 DEF Find, Fail

\* The password that a call asks about.
LEMMA LoginOnCourse ==
  ASSUME TypeInv, NEW c \in Calls, Alone(c), before[c] \in Seq(Row), OnCourse(c),
         CheckPassword(c) \/ Login(c)
  PROVE  Told(c)
<1> USE DEF TypeInv
<1>1. /\ req[c] \in Requests /\ target[c] = req[c].id /\ pc[c] = FirstStep(req[c])
      /\ before' = before /\ req' = req /\ target' = target
      /\ mgrs = before[c] /\ mgrs' = mgrs
  BY DEF OnCourse, Begun, Control, Place, CheckPassword, Login, At, NoWrite
<1>2. CASE CheckPassword(c)
  <2>1. pc[c] = "checkPassword" /\ req[c].op = "password"
    BY <1>1, <1>2, OpOfFirstStep DEF CheckPassword, At
  <2>2. CASE Answer(c, "wrongPassword")
    BY <1>1, <2>2, Refused DEF Replies, Told
  <2>3. CASE Proceed(c)
    <3>1. pc'[c] = "readRow" /\ reply' = reply
      BY <2>1, <2>3, AfterSteps, WentOn DEF Proceed
    <3>2. mgrs' = Certified(req[c], before[c])
      BY <1>1, <2>1 DEF Certified
    <3>3. Checking(c)'
      BY <1>1, <2>1, <3>1, <3>2 DEF Checking
    <3> QED BY <3>1, <3>3 DEF Told, OnCourse, Begun, Certifying, Answering
  <2> QED BY <1>2, <2>2, <2>3 DEF CheckPassword, Fail
<1>3. CASE Login(c)
  <2>1. req[c].op = "login"
    BY <1>1, <1>3, OpOfFirstStep DEF Login, At
  <2>2. CASE Answer(c, "ok")
    <3>1. mgrs' = Applied(req[c], before[c])
      BY <1>1, <2>1 DEF Applied
    <3> QED BY <2>2, <3>1, Answered DEF Replies, Told, Effect, Refusals
  <2>3. CASE \E r \in {"disabled", "wrongPassword", "error"} : Answer(c, r)
    BY <1>1, <2>3, Refused DEF Replies, Told
  <2> QED BY <1>3, <2>2, <2>3 DEF Login, Fail
<1> QED BY <1>2, <1>3

\* The checks of a patch, and the read of its row.
LEMMA ChecksOnCourse ==
  ASSUME TypeInv, NEW c \in Calls, Alone(c), before[c] \in Seq(Row), OnCourse(c),
         CheckUser(c) \/ CheckQuota(c) \/ ReadRow(c)
  PROVE  Told(c)
<1> USE DEF TypeInv
<1>1. /\ req[c] \in Requests /\ pc[c] \in {"checkUser", "checkQuota", "readRow"}
      /\ before' = before /\ req' = req /\ target' = target /\ mgrs' = mgrs
  BY DEF Control, Place, CheckUser, CheckQuota, ReadRow, At, NoWrite
<1>2. /\ req[c].op \in {"patch", "patchMe", "password"} /\ target[c] = req[c].id
      /\ req[c].title = BadTitle => mgrs = before[c]
      /\ mgrs = Certified(req[c], before[c])
  BY <1>1 DEF OnCourse, Checking
<1>3. CASE \E r \in {"conflict", "belowUsage", "invalid", "router", "error"} : Answer(c, r)
  BY <1>1, <1>2, <1>3, CheckRefused DEF Replies, Told
<1>4. CASE (CheckUser(c) \/ CheckQuota(c)) /\ Proceed(c)
  <2>1. After(req[c], pc[c]) \in {"checkQuota", "readRow"}
    <3>1. QuotaStep(req[c]) \in {"checkQuota", "readRow"}
      BY <1>1, NextSteps
    <3>2. pc[c] \in {"checkUser", "checkQuota"}
      BY <1>4 DEF CheckUser, CheckQuota, At
    <3> QED BY <3>1, <3>2, AfterSteps
  <2>2. pc'[c] \in {"checkQuota", "readRow"} /\ reply' = reply
    BY <1>4, <2>1, WentOn DEF Proceed
  <2>3. Checking(c)'
    BY <1>1, <1>2, <2>2 DEF Checking
  <2> QED BY <2>2, <2>3 DEF Told, OnCourse, Begun, Certifying, Answering
<1>5. CASE /\ At(c, "readRow") /\ Proceed(c)
           /\ row' = [row EXCEPT ![c] = Current(c)]
  <2>1. pc'[c] = "writeRow" /\ reply' = reply
    BY <1>5, AfterSteps, WentOn DEF Proceed, At
  <2>2. row'[c] = mgrs'[target'[c]]
    BY <1>1, <1>5 DEF Current, TypeOK
  <2>3. Checking(c)'
    BY <1>1, <1>2, <2>1, <2>2 DEF Checking
  <2> QED BY <2>1, <2>3 DEF Told, OnCourse, Begun, Certifying, Answering
<1> QED BY <1>3, <1>4, <1>5 DEF CheckUser, CheckQuota, ReadRow, Fail

\* The write of the row.
LEMMA WriteOnCourse ==
  ASSUME TypeInv, NEW c \in Calls, Alone(c), before[c] \in Seq(Row), OnCourse(c),
         WriteRow(c)
  PROVE  Told(c)
<1> USE DEF TypeInv
<1> DEFINE q == req[c]
           old == before[c]
<1>1. /\ q \in Requests /\ pc[c] = "writeRow" /\ target[c] \in DOMAIN mgrs
      /\ before' = before /\ req' = req /\ target' = target
  BY DEF Control, Place, RowSteps, WriteRow, At, NoWrite
<1>2. /\ q.op \in {"patch", "patchMe", "password"} /\ target[c] = q.id
      /\ mgrs = Certified(q, old) /\ row[c] = mgrs[q.id]
  BY <1>1 DEF OnCourse, Checking
<1>3. CASE Answer(c, "error")
  BY <1>3, Refused DEF Replies, Refusals, Told
<1>4. CASE mgrs' = [mgrs EXCEPT ![target[c]] = Written(c)] /\ Proceed(c)
  <2>1. DOMAIN Certified(q, old) = DOMAIN old
    BY DEF Certified
  <2>2. q.id \in DOMAIN old
    BY <1>1, <1>2, <2>1
  <2>3. mgrs' = [Certified(q, old) EXCEPT ![q.id] = WithCert(Merge(q.set, @), @.cert)]
    BY <1>2, <1>4 DEF Written
  <2>4. mgrs' = Applied(q, old)
    BY <1>1, <1>2, <2>2, <2>3, WriteApplies
  <2>5. CASE q.op \in {"patch", "patchMe"}
    <3>1. After(q, pc[c]) \in {"answer", "me"}
      BY <1>1, <2>5 DEF After
    <3>2. pc'[c] \in {"answer", "me"} /\ reply' = reply
      BY <1>4, <3>1, WentOn DEF Proceed
    <3>3. Answering(c)'
      BY <1>1, <2>4, <2>5 DEF Answering
    <3> QED BY <3>2, <3>3 DEF Told, OnCourse, Begun, Certifying, Checking
  <2>6. CASE q.op = "password"
    <3>1. After(q, pc[c]) = "done"
      BY <1>1, <2>6 DEF After
    <3>2. Answer(c, "ok")
      BY <1>4, <3>1 DEF Proceed, GoTo
    <3> QED BY <2>4, <3>2, Answered DEF Replies, Told, Effect, Refusals
  <2> QED BY <1>2, <2>5, <2>6
<1> QED BY <1>3, <1>4 DEF WriteRow, Fail

\* The answer of a patch.
LEMMA AnswerOnCourse ==
  ASSUME TypeInv, NEW c \in Calls, Alone(c), before[c] \in Seq(Row), OnCourse(c),
         AnswerPatch(c) \/ Me(c)
  PROVE  Told(c)
<1> USE DEF TypeInv
<1>1. pc[c] \in {"answer", "me"} /\ mgrs' = mgrs
  BY DEF AnswerPatch, Me, At, NoWrite
<1>2. mgrs' = Applied(req[c], before[c])
  BY <1>1 DEF OnCourse, Answering
<1>3. CASE \E r \in {"error", "router"} : Answer(c, r)
  BY <1>3, Refused DEF Replies, Refusals, Told
<1>4. CASE Proceed(c)
  <2>1. Answer(c, "ok")
    BY <1>1, <1>4, AfterSteps DEF Proceed, GoTo
  <2> QED BY <1>2, <2>1, Answered DEF Replies, Told, Effect, Refusals
<1> QED BY <1>3, <1>4 DEF AnswerPatch, Me, Fail

\* A call that is served and has been alone still is, and keeps its course.
LEMMA ServeOnCourse ==
  ASSUME TypeInv, NEW c \in Calls, Alone(c), before[c] \in Seq(Row), OnCourse(c),
         Serve(c)
  PROVE  Told(c)
BY CreateOnCourse, CertOnCourse, FindOnCourse, LoginOnCourse, ChecksOnCourse,
   WriteOnCourse, AnswerOnCourse DEF Serve

\* Nobody else is served while a call is alone.
LEMMA OnlyAlone ==
  ASSUME AloneInv, NEW c \in Calls, Alone(c), NEW d \in Calls, Serve(d)
  PROVE  c = d /\ before' = before
<1>1. pc[d] \notin {"idle", "done"}
  BY DEF Serve, ListSlugs, Insert, Script, StoreCert, Find, CheckUser, CheckQuota,
         ReadRow, WriteRow, AnswerPatch, Me, CheckPassword, Login, At
<1>2. before' = before
  BY DEF Serve, ListSlugs, Insert, Script, StoreCert, Find, CheckUser, CheckQuota,
         ReadRow, WriteRow, AnswerPatch, Me, CheckPassword, Login, NoWrite
<1> QED BY <1>1, <1>2 DEF AloneInv

\* A call that starts when no other is served is on its course.
LEMMA StartOnCourse ==
  ASSUME TypeInv, NEW c \in Calls, Start(c), Alone(c)'
  PROVE  /\ before'[c] \in Seq(Row) /\ OnCourse(c)'
         /\ \A d \in Calls \ {c} : pc'[d] \in {"idle", "done"}
<1> USE DEF TypeInv
<1>1. PICK q \in Requests :
        /\ req' = [req EXCEPT ![c] = q]
        /\ pc' = [pc EXCEPT ![c] = FirstStep(q)]
        /\ target' = [target EXCEPT ![c] = IF q.op = "create" THEN 0 ELSE q.id]
  BY DEF Start
<1>2. /\ mgrs' = mgrs /\ before'[c] = mgrs /\ Served = {} /\ mgrs \in Seq(Row)
  BY DEF Start, Alone, TypeOK
<1>3. /\ pc'[c] = FirstStep(q) /\ req'[c] = q
      /\ target'[c] = IF q.op = "create" THEN 0 ELSE q.id
      /\ \A d \in Calls \ {c} : pc'[d] = pc[d]
  BY <1>1 DEF TypeOK
<1>4. FirstStep(q) \in {"listSlugs", "find", "readRow", "checkPassword", "login"}
      /\ (q.op = "create" <=> FirstStep(q) = "listSlugs")
      /\ (FirstStep(q) = "readRow" <=> q.op = "patchMe")
  BY NextSteps, OpOfFirstStep
<1>5. Begun(c)'
  BY <1>2, <1>3, <1>4 DEF Begun
<1>6. Checking(c)'
  BY <1>2, <1>3, <1>4 DEF Checking, Certified
<1>7. Certifying(c)' /\ Answering(c)'
  BY <1>3, <1>4 DEF Certifying, Answering
<1> QED BY <1>2, <1>3, <1>5, <1>6, <1>7 DEF OnCourse, Served

\* Every step keeps the course of the call that is alone.
LEMMA AloneStep ==
  ASSUME TypeInv, AloneInv, [Next]_vars
  PROVE  /\ AloneInv'
         /\ \A c \in Calls : Alone(c) /\ reply'[c] # reply[c] =>
              Effect(c, reply'[c], mgrs')
<1>1. CASE UNCHANGED vars \/ UsageChanges \/ AllAnswered
  <2>1. UNCHANGED <<mgrs, calls, before>>
    BY <1>1 DEF vars, history, UsageChanges, AllAnswered
  <2> QED BY <2>1 DEF calls, AloneInv, Alone, OnCourse, Begun, Certifying, Checking,
                      Answering
<1>2. ASSUME NEW d \in Calls, Start(d)
      PROVE  AloneInv' /\ reply' = reply
  <2>1. \A c \in Calls : Alone(c)' => c = d
    BY <1>2 DEF Start, Alone
  <2> QED BY <1>2, <2>1, StartOnCourse DEF AloneInv, Start
<1>3. ASSUME NEW d \in Calls, Serve(d), NEW c \in Calls, before[c] # NoRow
      PROVE  /\ before'[c] \in Seq(Row) /\ Told(c)
             /\ \A e \in Calls \ {c} : pc'[e] \in {"idle", "done"}
  <2>1. c = d /\ before' = before
    BY <1>3, OnlyAlone DEF Alone
  <2>2. /\ before[c] \in Seq(Row) /\ OnCourse(c)
        /\ \A e \in Calls \ {c} : pc[e] \in {"idle", "done"}
    BY <1>3 DEF AloneInv, Alone
  <2>3. Told(c)
    BY <1>3, <2>1, <2>2, ServeOnCourse DEF Alone
  <2>4. \A e \in Calls \ {c} : pc'[e] = pc[e]
    BY <1>3, <2>1, ServeFrame
  <2> QED BY <2>1, <2>2, <2>3, <2>4
<1>4. ASSUME NEW d \in Calls, Serve(d)
      PROVE  /\ AloneInv'
             /\ \A c \in Calls : Alone(c) /\ reply'[c] # reply[c] =>
                  Effect(c, reply'[c], mgrs')
  <2>1. before' = before
    BY <1>4
       DEF Serve, ListSlugs, Insert, Script, StoreCert, Find, CheckUser, CheckQuota,
         ReadRow, WriteRow, AnswerPatch, Me, CheckPassword, Login, NoWrite
  <2> QED BY <1>3, <1>4, <2>1 DEF AloneInv, Alone, Told
<1> QED BY <1>1, <1>2, <1>4 DEF Next

\* A call that was alone and is acknowledged has done what was asked for, no more and
\* no less; one that is refused has changed nothing, but that the certificate of a
\* patch is changed before its other fields are checked, and that a create with an
\* invalid title leaves the manager (HandlePatchManager, HandleCreateManager,
\* HandlePatchMe, HandleChangePassword).
THEOREM AloneCallsTakeEffect == Spec => CallsTakeEffect
<1>1. Init => AloneInv
  BY DEF Init, AloneInv, Alone
<1>2. Spec => [](TypeInv /\ AloneInv)
  BY <1>1, InitTypeInv, TypeStep, AloneStep, PTL DEF Spec
<1>3. TypeInv /\ AloneInv /\ [Next]_vars =>
        \A c \in Calls : Alone(c) /\ reply'[c] # reply[c] =>
          LET q == req[c] old == before[c]
          IN /\ reply'[c] = "ok" => mgrs' = Applied(q, old)
             /\ reply'[c] \in Refusals =>
                  \/ mgrs' = old
                  \/ /\ q.op = "patch" /\ q.title \notin {Absent, BadTitle}
                     /\ mgrs' = [old EXCEPT ![q.id].cert = q.title]
                  \/ q.op = "create" /\ q.title = BadTitle /\ reply'[c] = "invalid"
  BY AloneStep DEF Effect
<1> QED BY <1>2, <1>3, PTL DEF Spec, CallsTakeEffect
=============================================================================

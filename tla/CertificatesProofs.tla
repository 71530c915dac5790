------------------------- MODULE CertificatesProofs -------------------------
(***************************************************************************)
(* Proofs about Certificates: type correctness, that a user with a title   *)
(* of its own has a file, that the temporary file with the passphrase is   *)
(* removed, that no file is made with the password missing, and that a     *)
(* passphrase opens the key of the file that it was made for.              *)
(***************************************************************************)
EXTENDS Certificates, TLAPS

CreateSteps   == {"addUser", "insert", "assign", "undoUser", "undoBoth", "undoRow"}
TempSteps     == {"import", "removeTemp", "dropTemp"}
EnsureSteps   == {"readTemplate", "writeFile"}
DownloadSteps == {"getUser", "check", "resolve", "readFile"}

\* What the place of a call says of it.
Place(c) ==
  /\ pc[c] = "idle" => reply[c] = NoReply
  /\ pc[c] # "idle" => req[c] \in Requests
  /\ pc[c] \in CreateSteps => req[c].op = "create"
  /\ pc[c] \in TempSteps \union {"writeTemp"} =>
       req[c].op \in {"create", "patch"} /\ Own(c)
  /\ pc[c] \in EnsureSteps =>
       /\ req[c].op \in {"create", "patch"} /\ req[c].holder \in Names
       /\ Own(c) \/ (req[c].op = "create" /\ Titled(seen[c]))
  /\ pc[c] = "writeFile" => body[c] \in File
  /\ pc[c] = "storeCert" => req[c].op = "patch" /\ Own(c)
  /\ pc[c] = "clearCert" => req[c].op = "patch"
  /\ pc[c] \in {"removeUser", "deleteRow"} => req[c].op = "delete"
  /\ pc[c] \in DownloadSteps => req[c].op = "download"
  /\ pc[c] \in {"check", "resolve"} => Owner[req[c].holder] \in Managers

\* The rows of the managers are never removed here.
ManagersStay == \A m \in Managers : rows[m] # NoRow

\* A script that is late has set PASSPHRASE.
LateSet == late # {} => global \in Passes

TypeInv == TypeOK /\ ManagersStay /\ LateSet /\ \A c \in Calls : Place(c)

Serve(c) == Provision(c) \/ Ensure(c) \/ Create(c) \/ Change(c) \/ Download(c)

----------------------------------------------------------------------------
(* What the requests are.                                                  *)

LEMMA RequestType ==
  ASSUME NEW q \in Requests
  PROVE  /\ q.op \in Ops /\ q.holder \in Holders
         /\ q.title \in Titles \union {NoTitle}
         /\ q.op # "patch" => q.holder \in Names
         /\ q # NoRequest
BY CertificatesAssumption DEF Request, Holders

\* Nobody but the caller moves, and the caller keeps its request.
LEMMA OnlyCaller ==
  ASSUME TypeOK, NEW c \in Calls, Serve(c)
  PROVE  /\ UNCHANGED <<req, seen>>
         /\ \A d \in Calls \ {c} : /\ pc'[d] = pc[d] /\ reply'[d] = reply[d]
                                  /\ body'[d] = body[d]
BY DEF TypeOK, Serve, Provision, Ensure, Create, Change, Download, WriteTemp, Import,
       RemoveTemp, AfterTemp, ReadTemplate, WriteFile, AddUser, Insert, Assign,
       UndoUser, UndoRow, StoreCert, ClearCert, SetCert, RemoveUser, DeleteRow,
       GetUser, Check, Resolve, ReadFile, ReadOnly, GiveUp, GoTo, Answer

----------------------------------------------------------------------------
(* Types.                                                                  *)

\* Where an action that moves only its caller, and changes neither what the calls
\* ask nor what they have read, has to look.
LEMMA PlaceStep ==
  ASSUME TypeInv, NEW c \in Calls, UNCHANGED <<req, seen>>,
         \A d \in Calls \ {c} : /\ pc'[d] = pc[d] /\ reply'[d] = reply[d]
                                /\ body'[d] = body[d],
         Place(c)'
  PROVE  \A d \in Calls : Place(d)'
<1> TAKE d \in Calls
<1>1. CASE d = c
  BY <1>1
<1>2. CASE d # c
  BY <1>2 DEF TypeInv, Place, Own
<1> QED BY <1>1, <1>2

LEMMA Moves ==
  ASSUME TypeOK, NEW c \in Calls, NEW step \in Steps, GoTo(c, step)
  PROVE  /\ pc' \in [Calls -> Steps] /\ reply' \in [Calls -> Replies \union {NoReply}]
         /\ pc'[c] = step /\ reply'[c] = reply[c]
BY DEF TypeOK, GoTo

LEMMA Ends ==
  ASSUME TypeOK, NEW c \in Calls, NEW r \in Replies, Answer(c, r)
  PROVE  /\ pc' \in [Calls -> Steps] /\ reply' \in [Calls -> Replies \union {NoReply}]
         /\ pc'[c] = "done" /\ reply'[c] = r
BY DEF TypeOK, Answer, Steps

\* What a failure leads to.
LEMMA GivesUp ==
  ASSUME TypeInv, NEW c \in Calls, GiveUp(c)
  PROVE  /\ pc' \in [Calls -> Steps] /\ reply' \in [Calls -> Replies \union {NoReply}]
         /\ \/ pc'[c] = "undoUser" /\ req[c].op = "create" /\ reply'[c] = reply[c]
            \/ pc'[c] = "done" /\ reply'[c] = "error"
<1>1. "undoUser" \in Steps /\ "error" \in Replies /\ TypeOK
  BY DEF Steps, Replies, TypeInv
<1> QED BY <1>1, Moves, Ends DEF GiveUp

LEMMA FaultType == TypeOK /\ (Fault \/ UNCHANGED faults) => faults' \in Nat
BY DEF TypeOK, Fault

LEMMA NewRow ==
  ASSUME NEW c \in Calls, NEW q \in Requests,
         NEW p \in {c, NoPass}
  PROVE  [id |-> c, title |-> q.title, pass |-> p] \in Row
BY RequestType DEF Row, Passes

LEMMA KeyType ==
  ASSUME TypeOK, NEW t \in Titles, temp[t] # NoPass
  PROVE  PassphraseOf(t) \in Passes
BY CertificatesAssumption DEF TypeOK, PassphraseOf, Passes

LEMMA ExportType ==
  ASSUME TypeOK, NEW t \in Titles, NEW p \in Passes
  PROVE  /\ Export(t, p) \in [Files -> File \union {NoFile}]
         /\ \A x \in Files : files[x] # NoFile => Export(t, p)[x] # NoFile
<1> DEFINE new == [title |-> t, key |-> p]
<1>1. new \in File /\ new # NoFile
  BY CertificatesAssumption DEF File, Passes
<1>2. Export(t, p) \in {files, [files EXCEPT ![t] = new]}
  BY DEF Export
<1> HIDE DEF new
<1> QED BY <1>1, <1>2 DEF TypeOK, Files

\* The calls that have a title have one.
LEMMA TitleType ==
  ASSUME TypeInv, NEW c \in Calls,
         pc[c] \in TempSteps \union EnsureSteps \union {"writeTemp", "storeCert"}
  PROVE  /\ Title(c) \in Titles /\ Pass(c) \in Passes \union {NoPass}
         /\ Own(c) => Title(c) = req[c].title /\ Pass(c) = c
<1>1. req[c] \in Requests /\ (Own(c) \/ Titled(seen[c]))
  BY DEF TypeInv, Place, TempSteps, EnsureSteps
<1>2. CASE Own(c)
  BY <1>1, <1>2, RequestType DEF Title, Pass, Own, Passes
<1>3. CASE ~Own(c)
  <2>1. seen[c] \in Row /\ seen[c].title # NoTitle
    BY <1>1, <1>3 DEF TypeInv, TypeOK, Titled
  <2> QED BY <2>1, <1>3 DEF Title, Pass, Row
<1> QED BY <1>2, <1>3

LEMMA InitTypeInv == Init => TypeInv
<1> SUFFICES ASSUME Init PROVE TypeInv
  OBVIOUS
<1> USE DEF Init
<1>1. rows \in [Holders -> Row \union {NoRow}] /\ accounts \subseteq Names
  BY CertificatesAssumption
<1>2. /\ \A m \in Managers : rows[m] # NoRow
      /\ \A h \in Holders : Provisioned(rows, h) => rows[h].pass \in Passes
  BY <1>1, CertificatesAssumption DEF Provisioned, Row, Holders
<1>3. /\ built \in [Names -> Passes \union {NoPass}]
      /\ files \in [Files -> File \union {NoFile}]
  <2>0. PICK made \in SUBSET Names :
        /\ built = [n \in Names |->
             CASE Provisioned(rows, n) -> rows[n].pass
               [] /\ ~Provisioned(rows, n) /\ n \in made /\ Owner[n] # NoManager
                  /\ Provisioned(rows, Owner[n]) -> rows[Owner[n]].pass
               [] OTHER -> NoPass]
        /\ files = [x \in Files |->
             LET holders == {h \in Holders :
                   /\ Provisioned(rows, h)
                   /\ \/ rows[h].title = x
                      \/ x \in Names /\ built[x] = rows[h].pass}
             IN IF holders = {} THEN NoFile
                ELSE LET h == CHOOSE h \in holders : TRUE
                     IN [title |-> rows[h].title, key |-> rows[h].pass]]
    BY DEF InitFiles
  <2>1. built \in [Names -> Passes \union {NoPass}]
    BY <1>2, <2>0, CertificatesAssumption DEF Holders
  <2>2. \A h \in Holders : Provisioned(rows, h) =>
          [title |-> rows[h].title, key |-> rows[h].pass] \in File
    BY <1>1, <1>2 DEF Provisioned, Row, File
  <2>3. ASSUME NEW x \in Files
        PROVE  files[x] \in File \union {NoFile}
    <3> DEFINE holders == {h \in Holders :
                 /\ Provisioned(rows, h)
                 /\ \/ rows[h].title = x
                    \/ x \in Names /\ built[x] = rows[h].pass}
    <3>1. files[x] = IF holders = {} THEN NoFile
                     ELSE LET h == CHOOSE h \in holders : TRUE
                          IN [title |-> rows[h].title, key |-> rows[h].pass]
      BY <2>0
    <3>2. holders # {} => (CHOOSE h \in holders : TRUE) \in holders
      OBVIOUS
    <3>3. \A h \in holders : h \in Holders /\ Provisioned(rows, h)
      OBVIOUS
    <3> HIDE DEF holders
    <3> QED BY <3>1, <3>2, <3>3, <2>2
  <2>4. files = [x \in Files |-> files[x]]
    BY <2>0, Zenon
  <2> QED BY <2>1, <2>3, <2>4
<1>4. TypeOK
  BY <1>1, <1>3 DEF TypeOK, Steps, Passes
<1>5. \A c \in Calls : Place(c)
  BY DEF Place, CreateSteps, TempSteps, EnsureSteps, DownloadSteps
<1> QED BY <1>2, <1>4, <1>5 DEF TypeInv, ManagersStay, LateSet

----------------------------------------------------------------------------
(* One lemma per group of actions.                                         *)

LEMMA TypeStart ==
  ASSUME TypeInv, NEW c \in Calls, Start(c)
  PROVE  TypeInv'
<1>0. PICK q \in Requests :
      LET row == IF q.op # "create" THEN rows[q.holder]
                 ELSE IF Owner[q.holder] = NoManager THEN NoRow
                 ELSE rows[Owner[q.holder]]
      IN /\ req' = [req EXCEPT ![c] = q]
         /\ seen' = [seen EXCEPT ![c] = row]
         /\ \/ q.op = "create" /\ GoTo(c, "addUser")
            \/ q.op # "create" /\ row = NoRow /\ Answer(c, "missing")
            \/ q.op = "delete" /\ row # NoRow /\ GoTo(c, "removeUser")
            \/ q.op = "download" /\ row # NoRow /\ GoTo(c, "getUser")
            \/ /\ q.op = "patch" /\ row # NoRow
               /\ CASE q.title = BadTitle           -> Answer(c, "invalid")
                    [] PatchStep(q, row) = "done"   -> Answer(c, "ok")
                    [] OTHER                        -> GoTo(c, PatchStep(q, row))
  BY DEF Start
<1>1. /\ UNCHANGED <<rows, accounts, files, temp, script, body, history, faults>>
      /\ pc[c] = "idle"
  BY DEF Start
<1> DEFINE row == IF q.op # "create" THEN rows[q.holder]
                  ELSE IF Owner[q.holder] = NoManager THEN NoRow
                  ELSE rows[Owner[q.holder]]
<1>2. row \in Row \union {NoRow}
  BY RequestType, CertificatesAssumption DEF TypeInv, TypeOK, Holders
<1>3. PatchStep(q, row) \in {"done", "clearCert", "writeTemp"}
      /\ (PatchStep(q, row) = "writeTemp" => q.title # NoTitle)
  BY DEF PatchStep
<1>4. \/ q.op = "create" /\ GoTo(c, "addUser")
      \/ \E r \in {"missing", "invalid", "ok"} : Answer(c, r)
      \/ q.op = "delete" /\ GoTo(c, "removeUser")
      \/ q.op = "download" /\ GoTo(c, "getUser")
      \/ q.op = "patch" /\ GoTo(c, "clearCert")
      \/ q.op = "patch" /\ q.title # NoTitle /\ GoTo(c, "writeTemp")
  <2> HIDE DEF row
  <2>1. \/ q.op = "create" /\ GoTo(c, "addUser")
        \/ q.op # "create" /\ row = NoRow /\ Answer(c, "missing")
        \/ q.op = "delete" /\ row # NoRow /\ GoTo(c, "removeUser")
        \/ q.op = "download" /\ row # NoRow /\ GoTo(c, "getUser")
        \/ /\ q.op = "patch" /\ row # NoRow
           /\ CASE q.title = BadTitle           -> Answer(c, "invalid")
                [] PatchStep(q, row) = "done"   -> Answer(c, "ok")
                [] OTHER                        -> GoTo(c, PatchStep(q, row))
    BY <1>0 DEF row
  <2> QED BY <2>1, <1>3
<1>5. req' = [req EXCEPT ![c] = q] /\ seen' = [seen EXCEPT ![c] = row]
  BY <1>0
<1> HIDE DEF row
<1>6. pc' \in [Calls -> Steps] /\ reply' \in [Calls -> Replies \union {NoReply}]
  BY <1>4 DEF TypeInv, TypeOK, GoTo, Answer, Steps, Replies
<1>7. TypeOK'
  BY <1>1, <1>2, <1>5, <1>6 DEF TypeInv, TypeOK, history, script
<1>8. Place(c)'
  BY <1>4, <1>5 DEF TypeInv, TypeOK, GoTo, Answer, Place, Own, CreateSteps, TempSteps,
                    EnsureSteps, DownloadSteps
<1>9. ASSUME NEW d \in Calls, d # c PROVE Place(d)'
  <2>1. pc'[d] = pc[d] /\ reply'[d] = reply[d]
    BY <1>4, <1>9 DEF TypeInv, TypeOK, GoTo, Answer
  <2>2. req'[d] = req[d] /\ seen'[d] = seen[d] /\ body'[d] = body[d]
    BY <1>1, <1>5, <1>9 DEF TypeInv, TypeOK
  <2> QED BY <2>1, <2>2 DEF TypeInv, Place, Own
<1> QED BY <1>1, <1>7, <1>8, <1>9 DEF TypeInv, ManagersStay, LateSet, script

\* It is enough to look at the types and at the caller.
LEMMA ServeStep ==
  ASSUME TypeInv, NEW c \in Calls, Serve(c), TypeOK', ManagersStay', LateSet',
         Place(c)'
  PROVE  TypeInv'
<1>1. /\ UNCHANGED <<req, seen>>
      /\ \A d \in Calls \ {c} : /\ pc'[d] = pc[d] /\ reply'[d] = reply[d]
                                /\ body'[d] = body[d]
  BY OnlyCaller DEF TypeInv
<1>2. \A d \in Calls : Place(d)'
  BY <1>1, PlaceStep
<1> QED BY <1>2 DEF TypeInv

LEMMA TypeProvision ==
  ASSUME TypeInv, NEW c \in Calls, Provision(c)
  PROVE  TypeOK' /\ ManagersStay' /\ LateSet' /\ Place(c)'
<1> USE DEF At
<1>1. UNCHANGED <<rows, accounts, req, seen, body, built, cleared>>
  BY DEF Provision, WriteTemp, Import, RemoveTemp, history
<1>2. TypeOK /\ LateSet /\ Place(c) /\ ManagersStay'
  BY <1>1 DEF TypeInv, ManagersStay
<1>3. pc[c] \in TempSteps \union {"writeTemp"}
  BY DEF Provision, WriteTemp, Import, RemoveTemp, TempSteps
<1>4. Title(c) \in Titles /\ req[c].op \in {"create", "patch"} /\ Own(c)
  BY <1>2, <1>3, TitleType DEF Place
<1>5. /\ req[c] \in Requests
      /\ req[c].op = "create" => req[c].holder \in Names
  BY <1>2, <1>3, RequestType DEF Place, TempSteps
<1>6. CASE WriteTemp(c)
  <2>1. /\ temp' \in [Titles -> Calls \union {NoPass}] /\ first' \subseteq Passes
        /\ UNCHANGED <<files, script, sent>> /\ faults' \in Nat
        /\ leaked' \subseteq Titles
    BY <1>2, <1>4, <1>6, FaultType DEF WriteTemp, TypeOK, Passes
  <2>2. GoTo(c, "import") \/ GiveUp(c)
    BY <1>6 DEF WriteTemp
  <2>3. /\ pc' \in [Calls -> Steps] /\ reply' \in [Calls -> Replies \union {NoReply}]
        /\ \/ pc'[c] = "import" /\ reply'[c] = reply[c]
           \/ pc'[c] = "undoUser" /\ req[c].op = "create" /\ reply'[c] = reply[c]
           \/ pc'[c] = "done" /\ reply'[c] = "error"
    BY <1>2, <2>2, Moves, GivesUp DEF Steps
  <2>4. TypeOK'
    BY <1>1, <1>2, <2>1, <2>3 DEF TypeOK, script
  <2>5. Place(c)'
    BY <1>1, <1>4, <1>5, <2>3 DEF Place, Own, CreateSteps, TempSteps, EnsureSteps,
                                  DownloadSteps
  <2> QED BY <1>2, <2>1, <2>4, <2>5 DEF LateSet, script
<1>7. CASE Import(c)
  <2>1. temp[Title(c)] # NoPass =>
          temp[Title(c)] \in Calls /\ PassphraseOf(Title(c)) \in Passes
    BY <1>2, <1>4, KeyType DEF TypeOK
  <2>2. /\ files' \in [Files -> File \union {NoFile}]
        /\ sent' \in [Calls -> Calls \union {NoPass}]
        /\ UNCHANGED <<temp, first, leaked>> /\ faults' \in Nat
    BY <1>2, <1>4, <1>7, <2>1, FaultType, ExportType DEF Import, TypeOK
  <2>0. /\ global' \in Passes \union {NoPass} /\ late' \subseteq Titles
        /\ LateSet'
    BY <1>2, <1>4, <1>7, <2>1 DEF Import, TypeOK, LateSet, script
  <2>3. GoTo(c, "removeTemp") \/ GoTo(c, "dropTemp")
    BY <1>7 DEF Import
  <2>4. /\ pc' \in [Calls -> Steps] /\ reply' \in [Calls -> Replies \union {NoReply}]
        /\ pc'[c] \in {"removeTemp", "dropTemp"}
    BY <1>2, <2>3, Moves DEF Steps
  <2>5. TypeOK'
    BY <1>1, <1>2, <2>0, <2>2, <2>4 DEF TypeOK
  <2>6. Place(c)'
    BY <1>1, <1>4, <1>5, <2>4 DEF Place, Own, CreateSteps, TempSteps, EnsureSteps,
                                  DownloadSteps
  <2> QED BY <1>2, <2>0, <2>5, <2>6
<1>8. CASE RemoveTemp(c)
  <2>1. /\ temp' \in [Titles -> Calls \union {NoPass}] /\ leaked' \subseteq Titles
        /\ UNCHANGED <<files, script, first, sent>> /\ faults' \in Nat
    BY <1>2, <1>4, <1>8, FaultType DEF RemoveTemp, TypeOK
  <2>2. \/ GiveUp(c)
        \/ req[c].holder \in Names /\ GoTo(c, "readTemplate")
        \/ pc[c] = "removeTemp" /\ req[c].holder \notin Names /\ GoTo(c, "storeCert")
    BY <1>8 DEF RemoveTemp, AfterTemp
  <2>3. /\ pc' \in [Calls -> Steps] /\ reply' \in [Calls -> Replies \union {NoReply}]
        /\ \/ pc'[c] = "readTemplate" /\ req[c].holder \in Names
           \/ pc'[c] = "storeCert" /\ req[c].op = "patch"
           \/ pc'[c] = "undoUser" /\ req[c].op = "create" /\ reply'[c] = reply[c]
           \/ pc'[c] = "done" /\ reply'[c] = "error"
    BY <1>2, <1>4, <1>5, <2>2, Moves, GivesUp DEF Steps
  <2>4. TypeOK'
    BY <1>1, <1>2, <2>1, <2>3 DEF TypeOK, script
  <2>5. Place(c)'
    <3>1. CASE pc'[c] \in {"readTemplate", "storeCert"}
      BY <1>1, <1>4, <1>5, <2>3, <3>1 DEF Place, Own, CreateSteps, TempSteps,
                                          EnsureSteps, DownloadSteps
    <3>2. CASE pc'[c] \in {"undoUser", "done"}
      BY <1>1, <1>5, <2>3, <3>2 DEF Place, CreateSteps, TempSteps, EnsureSteps,
                                    DownloadSteps
    <3> QED BY <2>3, <3>1, <3>2
  <2> QED BY <1>2, <2>1, <2>4, <2>5 DEF LateSet, script
<1> QED BY <1>6, <1>7, <1>8 DEF Provision

LEMMA TypeEnsure ==
  ASSUME TypeInv, NEW c \in Calls, Ensure(c)
  PROVE  TypeOK' /\ ManagersStay' /\ LateSet' /\ Place(c)'
<1> USE DEF At
<1>1. UNCHANGED <<rows, accounts, temp, global, late, req, seen, first, sent, cleared,
                  leaked>>
  BY DEF Ensure, ReadTemplate, WriteFile, history, script
<1>2. TypeOK /\ Place(c) /\ ManagersStay' /\ LateSet'
  BY <1>1 DEF TypeInv, ManagersStay, LateSet
<1>3. pc[c] \in EnsureSteps
  BY DEF Ensure, ReadTemplate, WriteFile, EnsureSteps
<1>4. /\ Title(c) \in Titles /\ Pass(c) \in Passes \union {NoPass}
      /\ req[c].op \in {"create", "patch"} /\ req[c].holder \in Names
      /\ Own(c) \/ (req[c].op = "create" /\ Titled(seen[c]))
      /\ req[c] \in Requests
  BY <1>2, <1>3, TitleType DEF Place, EnsureSteps
<1>5. CASE ReadTemplate(c)
  <2>1. /\ body' \in [Calls -> File \union {NoFile}] /\ faults' \in Nat
        /\ UNCHANGED <<files, built>>
    BY <1>2, <1>4, <1>5, FaultType DEF ReadTemplate, TypeOK, Files, history
  <2>2. (GoTo(c, "writeFile") /\ body'[c] \in File) \/ GiveUp(c)
    BY <1>2, <1>4, <1>5 DEF ReadTemplate, TypeOK, Files
  <2>3. /\ pc' \in [Calls -> Steps] /\ reply' \in [Calls -> Replies \union {NoReply}]
        /\ \/ pc'[c] = "writeFile" /\ body'[c] \in File
           \/ pc'[c] = "undoUser" /\ req[c].op = "create" /\ reply'[c] = reply[c]
           \/ pc'[c] = "done" /\ reply'[c] = "error"
    BY <1>2, <2>2, Moves, GivesUp DEF Steps
  <2>4. TypeOK'
    BY <1>1, <1>2, <2>1, <2>3 DEF TypeOK
  <2>5. Place(c)'
    BY <1>1, <1>4, <2>3 DEF Place, Own, CreateSteps, TempSteps, EnsureSteps,
                            DownloadSteps
  <2> QED BY <1>2, <2>4, <2>5
<1>6. CASE WriteFile(c)
  <2>1. /\ files' \in [Files -> File \union {NoFile}] /\ UNCHANGED body
        /\ built' \in [Names -> Passes \union {NoPass}] /\ faults' \in Nat
    BY <1>2, <1>4, <1>6, FaultType DEF WriteFile, TypeOK, Files
  <2>2. GoTo(c, IF req[c].op = "create" THEN "insert" ELSE "storeCert") \/ GiveUp(c)
    BY <1>6 DEF WriteFile
  <2>3. /\ pc' \in [Calls -> Steps] /\ reply' \in [Calls -> Replies \union {NoReply}]
        /\ \/ pc'[c] = "insert" /\ req[c].op = "create"
           \/ pc'[c] = "storeCert" /\ req[c].op = "patch" /\ Own(c)
           \/ pc'[c] = "undoUser" /\ req[c].op = "create" /\ reply'[c] = reply[c]
           \/ pc'[c] = "done" /\ reply'[c] = "error"
    BY <1>2, <1>4, <2>2, Moves, GivesUp DEF Steps
  <2>4. TypeOK'
    BY <1>1, <1>2, <2>1, <2>3 DEF TypeOK
  <2>5. Place(c)'
    BY <1>1, <1>4, <2>3 DEF Place, Own, CreateSteps, TempSteps, EnsureSteps,
                            DownloadSteps
  <2> QED BY <1>2, <2>4, <2>5
<1> QED BY <1>5, <1>6 DEF Ensure

\* What a create does to the row of its user, and a patch to the row it has read.
LEMMA RowsType ==
  ASSUME TypeInv, NEW h \in Holders, NEW id, rows' = WithoutRow(h, id), h \in Names
  PROVE  rows' \in [Holders -> Row \union {NoRow}] /\ ManagersStay'
<1>1. rows' \in {rows, [rows EXCEPT ![h] = NoRow]} /\ h \notin Managers
  BY CertificatesAssumption DEF WithoutRow
<1> QED BY <1>1 DEF TypeInv, TypeOK, ManagersStay, Holders

LEMMA SetCertType ==
  ASSUME TypeInv, NEW c \in Calls, req[c] \in Requests,
         NEW title \in Titles \union {NoTitle}, NEW p \in {c, NoPass},
         SetCert(c, title, p)
  PROVE  /\ rows' \in [Holders -> Row \union {NoRow}] /\ ManagersStay'
         /\ faults' \in Nat
         /\ pc' \in [Calls -> Steps] /\ reply' \in [Calls -> Replies \union {NoReply}]
         /\ pc'[c] = "done" /\ reply'[c] \in {"ok", "error"}
         /\ \/ rows' = rows
            \/ /\ rows[req[c].holder] # NoRow
               /\ rows' = [rows EXCEPT ![req[c].holder] =
                             [@ EXCEPT !.title = title, !.pass = p]]
<1>1. req[c].holder \in Holders
  BY RequestType
<1>2. \/ rows' = rows
      \/ /\ rows[req[c].holder] # NoRow
         /\ rows' = [rows EXCEPT ![req[c].holder] =
                       [@ EXCEPT !.title = title, !.pass = p]]
  BY DEF SetCert
<1>3. rows[req[c].holder] # NoRow =>
        [rows[req[c].holder] EXCEPT !.title = title, !.pass = p] \in Row
  <2> DEFINE r  == rows[req[c].holder]
             r1 == [r EXCEPT !.title = title]
             r2 == [r1 EXCEPT !.pass = p]
  <2>1. r # NoRow => r \in Row
    BY <1>1 DEF TypeInv, TypeOK
  <2>2. [r EXCEPT !.title = title, !.pass = p] = r2
    OBVIOUS
  <2>3. r \in Row => r1 \in Row
    BY DEF Row
  <2>4. r1 \in Row => r2 \in Row
    BY DEF Row, Passes
  <2> QED BY <2>1, <2>2, <2>3, <2>4
<1>4. rows' \in [Holders -> Row \union {NoRow}] /\ ManagersStay'
  BY <1>1, <1>2, <1>3, CertificatesAssumption DEF TypeInv, TypeOK, ManagersStay, Holders
<1>5. faults' \in Nat
  BY FaultType DEF SetCert, TypeInv
<1>6. Answer(c, "ok") \/ Answer(c, "error")
  BY DEF SetCert
<1> QED BY <1>2, <1>4, <1>5, <1>6, Ends DEF TypeInv, Replies

LEMMA TypeCreate ==
  ASSUME TypeInv, NEW c \in Calls, Create(c)
  PROVE  TypeOK' /\ ManagersStay' /\ LateSet' /\ Place(c)'
<1> USE DEF At
<1>1. UNCHANGED <<files, temp, global, late, req, seen, body, first, sent, built,
                  cleared, leaked>>
  BY DEF Create, AddUser, Insert, Assign, UndoUser, UndoRow, history, script
<1>2. TypeOK /\ Place(c) /\ LateSet'
  BY <1>1 DEF TypeInv, LateSet
<1>3. /\ pc[c] \in CreateSteps /\ req[c] \in Requests
      /\ req[c].op = "create" /\ req[c].holder \in Names
  BY <1>2, RequestType DEF Create, AddUser, Insert, Assign, UndoUser, UndoRow,
                           CreateSteps, Place
<1>4. accounts' \subseteq Names /\ faults' \in Nat
  BY <1>2, <1>3, FaultType DEF Create, AddUser, Insert, Assign, UndoUser, UndoRow, TypeOK
<1>5. rows' \in [Holders -> Row \union {NoRow}] /\ ManagersStay'
  <2>1. CASE UndoRow(c)
    BY <1>3, <2>1, RowsType, RequestType DEF UndoRow, TypeInv, TypeOK, ManagersStay
  <2>2. CASE Insert(c)
    <3> DEFINE new == [id |-> c, title |-> req[c].title,
                       pass |-> IF Own(c) THEN c ELSE NoPass]
    <3>1. new \in Row
      BY <1>3, NewRow
    <3>2. rows' = rows \/ rows' = [rows EXCEPT ![req[c].holder] = new]
      BY <2>2 DEF Insert
    <3> HIDE DEF new
    <3> QED BY <1>2, <1>3, <3>1, <3>2, CertificatesAssumption
            DEF TypeInv, TypeOK, ManagersStay, Holders
  <2>3. CASE UNCHANGED rows
    BY <2>3 DEF TypeInv, TypeOK, ManagersStay
  <2> QED BY <2>1, <2>2, <2>3 DEF Create, AddUser, Assign, UndoUser
<1>6. \/ GoTo(c, "insert") \/ GoTo(c, "undoUser")
      \/ GoTo(c, "assign") \/ GoTo(c, "undoBoth") \/ GoTo(c, "undoRow")
      \/ Own(c) /\ GoTo(c, "writeTemp")
      \/ Titled(seen[c]) /\ GoTo(c, "readTemplate")
      \/ \E r \in {"taken", "error", "ok", "invalid"} : Answer(c, r)
  BY <1>3 DEF Create, AddUser, Insert, Assign, UndoUser, UndoRow, CreateStep, GiveUp
<1>7. /\ pc' \in [Calls -> Steps] /\ reply' \in [Calls -> Replies \union {NoReply}]
      /\ \/ pc'[c] \in CreateSteps \union {"done"}
         \/ pc'[c] = "writeTemp" /\ Own(c)
         \/ pc'[c] = "readTemplate" /\ Titled(seen[c])
  BY <1>2, <1>6, Moves, Ends DEF Steps, Replies, CreateSteps
<1>8. TypeOK'
  BY <1>1, <1>2, <1>4, <1>5, <1>7 DEF TypeOK
<1>9. Place(c)'
  BY <1>1, <1>3, <1>7 DEF Place, Own, Titled, CreateSteps, TempSteps, EnsureSteps,
                          DownloadSteps
<1> QED BY <1>2, <1>5, <1>8, <1>9

LEMMA TypeChange ==
  ASSUME TypeInv, NEW c \in Calls, Change(c)
  PROVE  TypeOK' /\ ManagersStay' /\ LateSet' /\ Place(c)'
<1> USE DEF At
<1>1. UNCHANGED <<files, temp, global, late, req, seen, body, first, sent, built, leaked>>
  BY DEF Change, StoreCert, ClearCert, RemoveUser, DeleteRow, history, script
<1>2. TypeOK /\ Place(c) /\ LateSet'
  BY <1>1 DEF TypeInv, LateSet
<1>3. /\ pc[c] \in {"storeCert", "clearCert", "removeUser", "deleteRow"}
      /\ req[c] \in Requests /\ req[c].holder \in Holders
      /\ req[c].title \in Titles \union {NoTitle}
      /\ pc[c] \in {"removeUser", "deleteRow"} =>
           req[c].op = "delete" /\ req[c].holder \in Names
  BY <1>2, RequestType DEF Change, StoreCert, ClearCert, RemoveUser, DeleteRow, Place
<1>4. accounts' \subseteq Names /\ cleared' \subseteq Calls /\ faults' \in Nat
  <2>1. CASE StoreCert(c) \/ RemoveUser(c) \/ DeleteRow(c)
    BY <1>2, <2>1, FaultType
       DEF StoreCert, RemoveUser, DeleteRow, SetCert, history, TypeOK
  <2>2. CASE ClearCert(c)
    BY <1>2, <2>2, FaultType DEF ClearCert, SetCert, Checked, TypeOK
  <2> QED BY <2>1, <2>2 DEF Change
<1>5. /\ rows' \in [Holders -> Row \union {NoRow}] /\ ManagersStay'
      /\ pc' \in [Calls -> Steps] /\ reply' \in [Calls -> Replies \union {NoReply}]
      /\ pc'[c] \in {"done", "deleteRow"}
      /\ pc'[c] = "deleteRow" => req[c].op = "delete"
  <2>1. CASE StoreCert(c)
    BY <1>3, <2>1, SetCertType, Zenon DEF StoreCert
  <2>2. CASE ClearCert(c)
    BY <1>3, <2>2, SetCertType, Zenon DEF ClearCert
  <2>3. CASE RemoveUser(c)
    <3>1. GoTo(c, "deleteRow") /\ UNCHANGED rows /\ req[c].op = "delete"
      BY <1>3, <2>3 DEF RemoveUser
    <3> QED BY <1>2, <3>1, Moves DEF TypeInv, TypeOK, ManagersStay, Steps
  <2>4. CASE DeleteRow(c)
    <3>1. Answer(c, "ok") \/ Answer(c, "error")
      BY <2>4 DEF DeleteRow
    <3>2. rows' \in [Holders -> Row \union {NoRow}] /\ ManagersStay'
      BY <1>3, <2>4, RowsType DEF DeleteRow, TypeInv, TypeOK, ManagersStay
    <3> QED BY <1>2, <3>1, <3>2, Ends DEF Replies
  <2> QED BY <2>1, <2>2, <2>3, <2>4 DEF Change
<1>6. TypeOK'
  BY <1>1, <1>2, <1>4, <1>5 DEF TypeOK
<1>7. Place(c)'
  BY <1>1, <1>3, <1>5 DEF Place, CreateSteps, TempSteps, EnsureSteps, DownloadSteps
<1> QED BY <1>2, <1>5, <1>6, <1>7

LEMMA TypeDownload ==
  ASSUME TypeInv, NEW c \in Calls, Download(c)
  PROVE  TypeOK' /\ ManagersStay' /\ LateSet' /\ Place(c)'
<1> USE DEF At
<1>1. /\ UNCHANGED <<rows, accounts, files, temp, global, late, req, seen, body>>
      /\ UNCHANGED <<first, sent, built, cleared, leaked>>
  BY DEF Download, GetUser, Check, Resolve, ReadFile, ReadOnly, history, script
<1>2. TypeOK /\ Place(c) /\ ManagersStay' /\ LateSet'
  BY <1>1 DEF TypeInv, ManagersStay, LateSet
<1>3. /\ req[c] \in Requests /\ req[c].op = "download" /\ req[c].holder \in Names
      /\ pc[c] = "check" => Owner[req[c].holder] \in Managers
  BY <1>2, RequestType DEF Download, GetUser, Check, Resolve, ReadFile, Place,
                           DownloadSteps
<1>4. faults' \in Nat
  BY <1>2, FaultType DEF Download, GetUser, Check, Resolve, ReadFile
<1>5. \/ GoTo(c, "readFile")
      \/ Owner[req[c].holder] \in Managers /\ GoTo(c, "check")
      \/ Owner[req[c].holder] \in Managers /\ GoTo(c, "resolve")
      \/ \E r \in Replies : Answer(c, r)
  BY <1>3, CertificatesAssumption
     DEF Download, GetUser, Check, Resolve, ReadFile, Replies
<1>6. /\ pc' \in [Calls -> Steps] /\ reply' \in [Calls -> Replies \union {NoReply}]
      /\ \/ pc'[c] \in {"readFile", "done"}
         \/ pc'[c] \in {"check", "resolve"} /\ Owner[req[c].holder] \in Managers
  BY <1>2, <1>5, Moves, Ends DEF Steps
<1>7. TypeOK'
  BY <1>1, <1>2, <1>4, <1>6 DEF TypeOK
<1>8. Place(c)'
  BY <1>1, <1>3, <1>6 DEF Place, CreateSteps, TempSteps, EnsureSteps, DownloadSteps
<1> QED BY <1>2, <1>7, <1>8

\* The panel stops.
LEMMA TypeCrash == TypeInv /\ Crash => TypeInv'
<1> SUFFICES ASSUME TypeInv, Crash PROVE TypeInv'
  OBVIOUS
<1>1. /\ pc' \in [Calls -> Steps] /\ reply' \in [Calls -> Replies \union {NoReply}]
      /\ \A c \in Calls :
           \/ pc'[c] = pc[c] /\ reply'[c] = reply[c]
           \/ pc'[c] = "done" /\ pc[c] # "idle"
  BY DEF Crash, Served, TypeInv, TypeOK, Steps, Replies
<1>2. /\ UNCHANGED <<rows, accounts, files, temp, global, late, req, seen, body>>
      /\ UNCHANGED <<first, sent, built, cleared>>
  BY DEF Crash, script
<1>3. leaked' \subseteq Titles /\ faults' \in Nat
  BY FaultType DEF Crash, TypeInv, TypeOK
<1>4. TypeOK'
  BY <1>1, <1>2, <1>3 DEF TypeInv, TypeOK
<1>5. ASSUME NEW c \in Calls PROVE Place(c)'
  BY <1>1, <1>2 DEF TypeInv, Place, Own, CreateSteps, TempSteps, EnsureSteps,
                    DownloadSteps
<1> QED BY <1>2, <1>4, <1>5 DEF TypeInv, ManagersStay, LateSet

\* A late script ends.
LEMMA TypeFinish ==
  ASSUME TypeInv, NEW t \in Titles, Finish(t)
  PROVE  TypeInv'
<1>1. /\ UNCHANGED <<rows, accounts, temp, global, pc, req, reply, seen, body>>
      /\ UNCHANGED <<first, sent, built, cleared, leaked, faults>>
      /\ late' \subseteq late
  BY DEF Finish, calls, history
<1>2. global \in Passes
  BY DEF Finish, TypeInv, LateSet
<1>3. files' \in [Files -> File \union {NoFile}]
  BY <1>2, ExportType DEF Finish, TypeInv
<1>4. TypeOK'
  BY <1>1, <1>3 DEF TypeInv, TypeOK
<1>5. ASSUME NEW c \in Calls PROVE Place(c)'
  BY <1>1 DEF TypeInv, Place, Own
<1> QED BY <1>1, <1>2, <1>4, <1>5 DEF TypeInv, ManagersStay, LateSet

LEMMA TypeStep == TypeInv /\ [Next]_vars => TypeInv'
<1> SUFFICES ASSUME TypeInv, [Next]_vars PROVE TypeInv'
  OBVIOUS
<1>1. ASSUME NEW c \in Calls, Start(c) PROVE TypeInv'
  BY <1>1, TypeStart
<1>2. ASSUME NEW c \in Calls, Serve(c) PROVE TypeInv'
  <2>1. TypeOK' /\ ManagersStay' /\ LateSet' /\ Place(c)'
    BY <1>2, TypeProvision, TypeEnsure, TypeCreate, TypeChange, TypeDownload DEF Serve
  <2> QED BY <1>2, <2>1, ServeStep
<1>3. CASE Crash
  BY <1>3, TypeCrash
<1>4. CASE UNCHANGED vars
  BY <1>4 DEF vars, calls, history, script, TypeInv, TypeOK, ManagersStay, LateSet,
              Place, Own
<1>5. ASSUME NEW t \in Titles, Finish(t) PROVE TypeInv'
  BY <1>5, TypeFinish
<1> QED BY <1>1, <1>2, <1>3, <1>4, <1>5 DEF Next, Serve, AllAnswered

\* The columns, the files and the calls keep their types, whatever fails; only a
\* call that has read a template writes it (cert.go, store.go, files.go).
THEOREM CertificatesTypeCorrect == Spec => []TypeOK
<1>1. Spec => []TypeInv
  BY InitTypeInv, TypeStep, PTL DEF Spec
<1> QED BY <1>1, PTL DEF TypeInv

\* A step of one call leaves the others where they are.
LEMMA OthersWait ==
  ASSUME TypeInv, NEW c \in Calls, Start(c) \/ Serve(c), NEW d \in Calls, d # c
  PROVE  /\ pc'[d] = pc[d] /\ reply'[d] = reply[d]
         /\ req'[d] = req[d] /\ seen'[d] = seen[d]
<1>1. CASE Start(c)
  <2>1. pc'[d] = pc[d] /\ reply'[d] = reply[d]
    BY <1>1 DEF Start, GoTo, Answer, TypeInv, TypeOK
  <2>2. req'[d] = req[d] /\ seen'[d] = seen[d]
    BY <1>1 DEF Start, TypeInv, TypeOK
  <2> QED BY <2>1, <2>2
<1>2. CASE Serve(c)
  BY <1>2, OnlyCaller DEF TypeInv
<1> QED BY <1>1, <1>2

----------------------------------------------------------------------------
(* Who writes what.                                                        *)

\* A file is made by the script and by the copy.
LEMMA FileWriters ==
  ASSUME [Next]_vars, files' # files
  PROVE  \/ \E c \in Calls : Import(c) \/ WriteFile(c)
         \/ \E t \in Titles : Finish(t)
BY ZenonT(60)
   DEF Next, Provision, Ensure, Create, Change, Download, Start, WriteTemp, RemoveTemp,
       ReadTemplate, AddUser, Insert, Assign, UndoUser, UndoRow, StoreCert, ClearCert,
       RemoveUser, DeleteRow, GetUser, Check, Resolve, ReadFile, ReadOnly, Crash,
       AllAnswered, vars

\* The temporary file is written and removed.
LEMMA TempWriters ==
  ASSUME [Next]_vars, temp' # temp
  PROVE  \E c \in Calls : WriteTemp(c) \/ RemoveTemp(c)
BY ZenonT(60)
   DEF Next, Provision, Ensure, Create, Change, Download, Start, Import, ReadTemplate,
       WriteFile, AddUser, Insert, Assign, UndoUser, UndoRow, StoreCert, ClearCert,
       RemoveUser, DeleteRow, GetUser, Check, Resolve, ReadFile, ReadOnly, Crash,
       AllAnswered, Finish, vars, calls

\* The histories: what was written for a title that nobody had, what a script was run
\* with, what a file was made for, and which downloads have seen a title go.
LEMMA FirstWriters ==
  ASSUME [Next]_vars, first' # first
  PROVE  \E c \in Calls : WriteTemp(c)
BY ZenonT(60)
   DEF Next, Provision, Ensure, Create, Change, Download, Start, Import, RemoveTemp,
       ReadTemplate, WriteFile, AddUser, Insert, Assign, UndoUser, UndoRow, StoreCert,
       ClearCert, RemoveUser, DeleteRow, GetUser, Check, Resolve, ReadFile, ReadOnly,
       Crash, AllAnswered, Finish, vars, history, calls

LEMMA SentWriters ==
  ASSUME [Next]_vars, sent' # sent
  PROVE  \E c \in Calls : Import(c)
BY ZenonT(60)
   DEF Next, Provision, Ensure, Create, Change, Download, Start, WriteTemp, RemoveTemp,
       ReadTemplate, WriteFile, AddUser, Insert, Assign, UndoUser, UndoRow, StoreCert,
       ClearCert, RemoveUser, DeleteRow, GetUser, Check, Resolve, ReadFile, ReadOnly,
       Crash, AllAnswered, Finish, vars, history, calls

LEMMA LateWriters ==
  ASSUME [Next]_vars, late' # late
  PROVE  \/ \E c \in Calls : Import(c)
         \/ \E t \in Titles : Finish(t)
BY ZenonT(60)
   DEF Next, Provision, Ensure, Create, Change, Download, Start, WriteTemp, RemoveTemp,
       ReadTemplate, WriteFile, AddUser, Insert, Assign, UndoUser, UndoRow, StoreCert,
       ClearCert, RemoveUser, DeleteRow, GetUser, Check, Resolve, ReadFile, ReadOnly,
       Crash, AllAnswered, vars, script

LEMMA BuiltWriters ==
  ASSUME [Next]_vars, built' # built
  PROVE  \E c \in Calls : WriteFile(c)
BY ZenonT(60)
   DEF Next, Provision, Ensure, Create, Change, Download, Start, WriteTemp, Import,
       RemoveTemp, ReadTemplate, AddUser, Insert, Assign, UndoUser, UndoRow, StoreCert,
       ClearCert, RemoveUser, DeleteRow, GetUser, Check, Resolve, ReadFile, ReadOnly,
       Crash, AllAnswered, Finish, vars, history, calls

LEMMA ClearedWriters ==
  ASSUME [Next]_vars, cleared' # cleared
  PROVE  \E c \in Calls : ClearCert(c)
BY ZenonT(60)
   DEF Next, Provision, Ensure, Create, Change, Download, Start, WriteTemp, Import,
       RemoveTemp, ReadTemplate, WriteFile, AddUser, Insert, Assign, UndoUser, UndoRow,
       StoreCert, RemoveUser, DeleteRow, GetUser, Check, Resolve, ReadFile, ReadOnly,
       Crash, AllAnswered, Finish, vars, history, calls

\* Who changes a row.
LEMMA RowWriters ==
  ASSUME [Next]_vars, rows' # rows
  PROVE  \E c \in Calls : Insert(c) \/ UndoRow(c) \/ StoreCert(c) \/ ClearCert(c)
                          \/ DeleteRow(c)
BY ZenonT(60)
   DEF Next, Provision, Ensure, Create, Change, Download, Start, WriteTemp, Import,
       RemoveTemp, ReadTemplate, WriteFile, AddUser, Assign, UndoUser, RemoveUser,
       GetUser, Check, Resolve, ReadFile, ReadOnly, Crash, AllAnswered, Finish, vars, calls

----------------------------------------------------------------------------
(* Files.                                                                  *)

\* The panel never removes a file.
LEMMA FilesStay ==
  ASSUME TypeInv, [Next]_vars, NEW x \in Files, files[x] # NoFile
  PROVE  files'[x] # NoFile
<1>1. CASE UNCHANGED files
  BY <1>1
<1>2. ASSUME NEW c \in Calls, Import(c) PROVE files'[x] # NoFile
  <2>1. pc[c] = "import" /\ TypeOK
    BY <1>2 DEF Import, At, TypeInv
  <2>2. Title(c) \in Titles
    BY <2>1, TitleType DEF TempSteps
  <2>3. temp[Title(c)] # NoPass => PassphraseOf(Title(c)) \in Passes
    BY <2>1, <2>2, KeyType
  <2> QED BY <1>2, <2>1, <2>2, <2>3, ExportType DEF Import
<1>3. ASSUME NEW c \in Calls, WriteFile(c) PROVE files'[x] # NoFile
  <2>1. body[c] \in File
    BY <1>3 DEF WriteFile, At, TypeInv, Place
  <2> QED BY <1>3, <2>1, CertificatesAssumption DEF WriteFile, TypeInv, TypeOK
<1>4. ASSUME NEW t \in Titles, Finish(t) PROVE files'[x] # NoFile
  BY <1>4, ExportType DEF Finish, TypeInv, LateSet
<1> QED BY <1>1, <1>2, <1>3, <1>4, FileWriters

\* A call that is about to give a user a title has made the file.
HasFile(c) ==
  /\ pc[c] = "insert" /\ Own(c) => files[req[c].holder] # NoFile
  /\ pc[c] = "storeCert" /\ req[c].holder \in Names => files[req[c].holder] # NoFile

FileInv == TitledHasFile /\ \A c \in Calls : HasFile(c)

\* Only a call that writes the file comes to the place where it needs one.
LEMMA Makers ==
  ASSUME TypeInv, NEW c \in Calls, Start(c) \/ Serve(c),
         \/ pc'[c] = "insert" /\ Own(c)'
         \/ pc'[c] = "storeCert" /\ req'[c].holder \in Names
  PROVE  WriteFile(c)
<1>1. CASE Start(c)
  <2>1. pc'[c] \notin {"insert", "storeCert"}
    BY <1>1, SMTT(30) DEF Start, PatchStep, GoTo, Answer, TypeInv, TypeOK
  <2> QED BY <2>1
<1>2. CASE Serve(c)
  <2>1. UNCHANGED req
    BY <1>2, OnlyCaller DEF TypeInv
  <2>2. CASE AddUser(c)
    <3>1. pc'[c] = "done" \/ pc'[c] = CreateStep(c)
      BY <2>2 DEF AddUser, GoTo, Answer, TypeInv, TypeOK
    <3>2. pc'[c] # "storeCert" /\ (pc'[c] = "insert" => ~Own(c))
      BY <3>1 DEF CreateStep
    <3> QED BY <2>1, <3>2 DEF Own
  <2>3. CASE RemoveTemp(c)
    <3>1. pc'[c] \in {"insert", "storeCert"} =>
            req[c].holder \notin Names /\ pc'[c] = "storeCert"
      BY <2>3 DEF RemoveTemp, AfterTemp, GiveUp, GoTo, Answer, TypeInv, TypeOK
    <3> QED BY <2>1, <3>1
  <2>4. CASE ~(AddUser(c) \/ RemoveTemp(c) \/ WriteFile(c))
    <3>1. pc'[c] \notin {"insert", "storeCert"}
      BY <1>2, <2>4
         DEF Serve, Provision, Ensure, Create, Change, Download, WriteTemp, Import,
             ReadTemplate, Insert, Assign, UndoUser, UndoRow, StoreCert, ClearCert,
             SetCert, RemoveUser, DeleteRow, GetUser, Check, Resolve, ReadFile,
             GiveUp, GoTo, Answer, TypeInv, TypeOK
    <3> QED BY <3>1
  <2> QED BY <2>2, <2>3, <2>4
<1> QED BY <1>1, <1>2

\* What SetCert does to the row that it changes.
LEMMA RowChanged ==
  ASSUME TypeInv, NEW c \in Calls, NEW h \in Holders, rows'[h] # rows[h],
         NEW title, NEW p, SetCert(c, title, p)
  PROVE  req[c].holder = h /\ rows'[h].title = title /\ rows'[h].pass = p
<1>1. /\ rows[req[c].holder] # NoRow
      /\ rows' = [rows EXCEPT ![req[c].holder] =
                   [@ EXCEPT !.title = title, !.pass = p]]
  BY DEF SetCert
<1>2. req[c].holder = h
  BY <1>1 DEF TypeInv, TypeOK
<1>3. rows[h] \in Row
  BY <1>1, <1>2 DEF TypeInv, TypeOK
<1>4. rows'[h] = [rows[h] EXCEPT !.title = title, !.pass = p]
  BY <1>1, <1>2 DEF TypeInv, TypeOK
<1>5. /\ [rows[h] EXCEPT !.title = title, !.pass = p].title = title
      /\ [rows[h] EXCEPT !.title = title, !.pass = p].pass = p
  BY <1>3 DEF Row
<1> QED BY <1>2, <1>4, <1>5

\* Who gives a title: a row changes to the title and the passphrase of the caller.
LEMMA RowSource ==
  ASSUME TypeInv, [Next]_vars, NEW h \in Holders, Titled(rows'[h])
  PROVE  \/ rows'[h] = rows[h]
         \/ \E c \in Calls :
              /\ (Insert(c) /\ Own(c)) \/ StoreCert(c)
              /\ req[c].holder = h
              /\ rows'[h].title = req[c].title /\ rows'[h].pass = c
<1> SUFFICES ASSUME rows'[h] # rows[h]
             PROVE  \E c \in Calls :
                      /\ (Insert(c) /\ Own(c)) \/ StoreCert(c)
                      /\ req[c].holder = h
                      /\ rows'[h].title = req[c].title /\ rows'[h].pass = c
  OBVIOUS
<1>1. PICK c \in Calls : Insert(c) \/ UndoRow(c) \/ StoreCert(c) \/ ClearCert(c)
                         \/ DeleteRow(c)
  BY RowWriters
<1>2. CASE Insert(c)
  <2>1. rows' = [rows EXCEPT ![req[c].holder] =
                   [id |-> c, title |-> req[c].title,
                    pass |-> IF Own(c) THEN c ELSE NoPass]]
    BY <1>2 DEF Insert
  <2>2. /\ req[c].holder = h
        /\ rows'[h] = [id |-> c, title |-> req[c].title,
                       pass |-> IF Own(c) THEN c ELSE NoPass]
    BY <2>1 DEF TypeInv, TypeOK
  <2>3. Own(c)
    BY <2>2 DEF Titled, Own
  <2> QED BY <1>2, <2>2, <2>3
<1>3. CASE UndoRow(c) \/ DeleteRow(c)
  <2>1. rows'[h] \in {rows[h], NoRow}
    BY <1>3 DEF UndoRow, DeleteRow, WithoutRow, TypeInv, TypeOK
  <2> QED BY <2>1 DEF Titled
<1>4. CASE StoreCert(c)
  BY <1>4, RowChanged DEF StoreCert
<1>5. ~ClearCert(c)
  BY RowChanged DEF ClearCert, Titled
<1> QED BY <1>1, <1>2, <1>3, <1>4, <1>5

LEMMA FileStep == TypeInv /\ FileInv /\ [Next]_vars => FileInv'
<1> SUFFICES ASSUME TypeInv, FileInv, [Next]_vars PROVE FileInv'
  OBVIOUS
<1>1. \A x \in Files : files[x] # NoFile => files'[x] # NoFile
  BY FilesStay
<1>2. ASSUME NEW n \in Names, Titled(rows'[n]) PROVE files'[n] # NoFile
  <2>1. CASE Titled(rows[n])
    BY <1>1, <2>1 DEF FileInv, TitledHasFile, Files
  <2>2. CASE ~Titled(rows[n])
    <3>1. PICK c \in Calls : /\ (Insert(c) /\ Own(c)) \/ StoreCert(c)
                             /\ req[c].holder = n
      BY <1>2, <2>2, RowSource DEF Holders
    <3>2. files[n] # NoFile
      BY <3>1 DEF FileInv, HasFile, Insert, StoreCert, At
    <3> QED BY <1>1, <3>2 DEF Files
  <2> QED BY <2>1, <2>2
<1>3. ASSUME NEW c \in Calls PROVE HasFile(c)'
  <2>1. CASE pc'[c] = pc[c] /\ req'[c] = req[c]
    <3>1. /\ pc[c] = "insert" => req[c].holder \in Names
          /\ pc[c] # "idle" => req[c] \in Requests
      BY RequestType DEF TypeInv, Place, CreateSteps
    <3> QED BY <1>1, <2>1, <3>1 DEF FileInv, HasFile, Own, Files
  <2>2. CASE Start(c) \/ Serve(c)
    <3> SUFFICES ASSUME \/ pc'[c] = "insert" /\ Own(c)'
                        \/ pc'[c] = "storeCert" /\ req'[c].holder \in Names
                 PROVE  files'[req'[c].holder] # NoFile
      BY DEF HasFile
    <3>1. WriteFile(c)
      BY <2>2, Makers
    <3>2. body[c] \in File /\ req[c].holder \in Names /\ req[c] \in Requests
      BY <3>1 DEF WriteFile, At, TypeInv, Place, EnsureSteps
    <3>3. files' = [files EXCEPT ![req[c].holder] = body[c]] /\ req' = req
      BY <3>1 DEF WriteFile, GiveUp, GoTo, Answer, TypeInv, TypeOK
    <3> QED BY <3>2, <3>3, CertificatesAssumption DEF TypeInv, TypeOK, Files
  <2>3. CASE Crash
    BY <2>3 DEF Crash, HasFile, TypeInv, TypeOK, FileInv, Own
  <2>4. ASSUME NEW d \in Calls, d # c, Start(d) \/ Serve(d)
        PROVE  pc'[c] = pc[c] /\ req'[c] = req[c]
    BY <2>4, OthersWait
  <2>5. ASSUME NEW t \in Titles, Finish(t) PROVE pc'[c] = pc[c] /\ req'[c] = req[c]
    BY <2>5 DEF Finish, calls
  <2> QED BY <2>1, <2>2, <2>3, <2>4, <2>5 DEF Next, Serve, AllAnswered, vars, calls
<1> QED BY <1>2, <1>3 DEF FileInv, TitledHasFile

LEMMA InitFile == Init => FileInv
<1> SUFFICES ASSUME Init, NEW n \in Names, Titled(rows[n]) PROVE files[n] # NoFile
  BY DEF Init, FileInv, TitledHasFile, HasFile
<1>1. Provisioned(rows, n) /\ n \in Holders /\ n \in Files
  BY DEF Titled, Provisioned, Holders, Files
<1>0. PICK made \in SUBSET Names :
      /\ built = [m \in Names |->
           CASE Provisioned(rows, m) -> rows[m].pass
             [] /\ ~Provisioned(rows, m) /\ m \in made /\ Owner[m] # NoManager
                /\ Provisioned(rows, Owner[m]) -> rows[Owner[m]].pass
             [] OTHER -> NoPass]
      /\ files = [x \in Files |->
           LET holders == {h \in Holders :
                 /\ Provisioned(rows, h)
                 /\ \/ rows[h].title = x
                    \/ x \in Names /\ built[x] = rows[h].pass}
           IN IF holders = {} THEN NoFile
              ELSE LET h == CHOOSE h \in holders : TRUE
                   IN [title |-> rows[h].title, key |-> rows[h].pass]]
  BY DEF Init, InitFiles
<1> DEFINE holders == {h \in Holders :
             /\ Provisioned(rows, h)
             /\ \/ rows[h].title = n
                \/ n \in Names /\ built[n] = rows[h].pass}
<1>2. built[n] = rows[n].pass
  BY <1>0, <1>1
<1>3. n \in holders
  BY <1>1, <1>2
<1>4. files[n] = IF holders = {} THEN NoFile
                 ELSE LET h == CHOOSE h \in holders : TRUE
                      IN [title |-> rows[h].title, key |-> rows[h].pass]
  BY <1>0, <1>1
<1>5. \A h \in holders : [title |-> rows[h].title, key |-> rows[h].pass] \in File
  <2> SUFFICES ASSUME NEW h \in holders
               PROVE  [title |-> rows[h].title, key |-> rows[h].pass] \in File
    OBVIOUS
  <2>1. rows \in Founders /\ h \in Holders /\ Provisioned(rows, h)
    BY DEF Init
  <2>2. rows[h] \in Row /\ rows[h].title \in Titles /\ rows[h].pass \in Passes
    <3>1. rows[h] \in Row \union {NoRow} /\ (rows[h] # NoRow =>
            (rows[h].title = NoTitle <=> rows[h].pass = NoPass))
      BY <2>1, CertificatesAssumption
    <3> QED BY <2>1, <3>1 DEF Provisioned, Row
  <2> QED BY <2>2 DEF File
<1> HIDE DEF holders
<1> DEFINE holder == CHOOSE h \in holders : TRUE
<1>6. holder \in holders
  BY <1>3
<1>7. files[n] = [title |-> rows[holder].title, key |-> rows[holder].pass]
  BY <1>3, <1>4
<1> HIDE DEF holder
<1> QED BY <1>5, <1>6, <1>7, CertificatesAssumption

\* A user with a title of its own has a file, whatever has failed and whoever else
\* was at work (cert.go, setupVPNCertificates and provisionUserCertificate).
THEOREM TitledUsersHaveFiles == Spec => []TitledHasFile
<1>1. Spec => [](TypeInv /\ FileInv)
  BY InitTypeInv, TypeStep, InitFile, FileStep, PTL DEF Spec
<1> QED BY <1>1, PTL DEF FileInv

----------------------------------------------------------------------------
(* The temporary file.                                                     *)

\* Who has the temporary file of a title.
Writes(c, t) == pc[c] \in TempSteps /\ Title(c) = t

LEMMA TempStep == TypeInv /\ TempRemoved /\ [Next]_vars => TempRemoved'
<1> SUFFICES ASSUME TypeInv, TempRemoved, [Next]_vars,
                    NEW t \in Titles \ leaked', temp'[t] # NoPass
             PROVE  \E d \in Calls : Writes(d, t)'
  BY DEF TempRemoved, Writes, TempSteps
<1> USE DEF At
<1>1. temp[t] # NoPass /\ t \notin leaked => \E d \in Calls : Writes(d, t)
  BY DEF TempRemoved, Writes, TempSteps
<1>2. ASSUME NEW c \in Calls, WriteTemp(c) PROVE \E d \in Calls : Writes(d, t)'
  <2>1. UNCHANGED <<req, seen>> /\ leaked \subseteq leaked' /\ Serve(c)
    BY <1>2 DEF WriteTemp, Serve, Provision
  <2>2. CASE temp'[t] # temp[t]
    <3>1. t = Title(c) /\ GoTo(c, "import")
      BY <1>2, <2>2 DEF WriteTemp, TypeInv, TypeOK
    <3>2. pc'[c] = "import"
      BY <3>1 DEF GoTo, TypeInv, TypeOK
    <3> QED BY <2>1, <3>1, <3>2 DEF Writes, Title, Own, TempSteps
  <2>3. CASE temp'[t] = temp[t]
    <3>1. PICK d \in Calls : Writes(d, t)
      BY <1>1, <2>1, <2>3
    <3>2. d # c
      BY <1>2, <3>1 DEF WriteTemp, Writes, TempSteps
    <3>3. pc'[d] = pc[d]
      BY <2>1, <3>2, OthersWait
    <3> QED BY <2>1, <3>1, <3>3 DEF Writes, Title, Own
  <2> QED BY <2>2, <2>3
<1>3. ASSUME NEW c \in Calls, RemoveTemp(c) PROVE \E d \in Calls : Writes(d, t)'
  <2>1. UNCHANGED <<req, seen>> /\ Serve(c) /\ leaked \ {Title(c)} \subseteq leaked'
    BY <1>3 DEF RemoveTemp, Serve, Provision
  <2>2. Title(c) \in Titles
    BY <1>3, TitleType DEF RemoveTemp, TempSteps
  <2>3. Title(c) # t /\ temp'[t] = temp[t] /\ t \notin leaked
    BY <1>3, <2>1, <2>2 DEF RemoveTemp, TypeInv, TypeOK
  <2>4. PICK d \in Calls : Writes(d, t)
    BY <1>1, <2>1, <2>3
  <2>5. pc'[d] = pc[d]
    BY <2>1, <2>3, <2>4, OthersWait DEF Writes
  <2> QED BY <2>1, <2>4, <2>5 DEF Writes, Title, Own
<1>4. ASSUME NEW c \in Calls, Start(c) \/ Serve(c), ~WriteTemp(c), ~RemoveTemp(c)
      PROVE  \E d \in Calls : Writes(d, t)'
  <2>1. UNCHANGED <<temp, leaked>>
    BY <1>4 DEF Serve, Provision, Ensure, Create, Change, Download, Start, Import,
                ReadTemplate, WriteFile, AddUser, Insert, Assign, UndoUser, UndoRow,
                StoreCert, ClearCert, RemoveUser, DeleteRow, GetUser, Check, Resolve,
                ReadFile, ReadOnly, history
  <2>2. PICK d \in Calls : Writes(d, t)
    BY <1>1, <2>1
  <2>3. CASE d # c
    <3>1. pc'[d] = pc[d] /\ req'[d] = req[d] /\ seen'[d] = seen[d]
      BY <1>4, <2>3, OthersWait
    <3> QED BY <2>2, <3>1 DEF Writes, Title, Own
  <2>4. CASE d = c
    <3>1. Import(c)
      BY <1>4, <2>2, <2>4
         DEF Writes, TempSteps, Start, Serve, Provision, Ensure, Create, Change,
             Download, ReadTemplate, WriteFile, AddUser, Insert, Assign, UndoUser,
             UndoRow, StoreCert, ClearCert, RemoveUser, DeleteRow, GetUser, Check,
             Resolve, ReadFile
    <3>2. pc'[c] \in {"removeTemp", "dropTemp"} /\ UNCHANGED <<req, seen>>
      BY <3>1 DEF Import, GoTo, TypeInv, TypeOK
    <3> QED BY <2>2, <2>4, <3>2 DEF Writes, Title, Own, TempSteps
  <2> QED BY <2>3, <2>4
<1>5. CASE Crash
  BY <1>5 DEF Crash
<1>6. CASE UNCHANGED vars
  BY <1>1, <1>6 DEF vars, calls, history, Writes, Title, Own
<1>7. ASSUME NEW x \in Titles, Finish(x) PROVE \E d \in Calls : Writes(d, t)'
  BY <1>1, <1>7 DEF Finish, calls, history, Writes, Title, Own
<1> QED BY <1>2, <1>3, <1>4, <1>5, <1>6, <1>7 DEF Next, Serve, AllAnswered

\* The passphrase stays in the temporary file only while a call is at work with it,
\* or after a crash or the failure of the command that writes or removes it, and then
\* no longer than to the next removal (files.go, GenerateCertificate).
THEOREM TemporaryFilesRemoved == Spec => []TempRemoved
<1>1. Init => TempRemoved
  BY DEF Init, TempRemoved
<1> QED BY <1>1, InitTypeInv, TypeStep, TempStep, PTL DEF Spec

----------------------------------------------------------------------------
(* The password in a file.                                                 *)

\* The users of a manager whose title was seen and whose password is missing.
Asked(c) == pc[c] = "resolve" /\ req[c].holder \in Blank

SeenTitle(c) == Asked(c) => Titled(rows[Owner[req[c].holder]]) \/ c \in cleared

BlankInv == NoBlankProfile /\ \A c \in Calls : SeenTitle(c)

\* A manager loses its title by a patch, and every download that has seen it counts.
LEMMA TitleGoes ==
  ASSUME TypeInv, [Next]_vars, NEW m \in Managers, Titled(rows[m]), ~Titled(rows'[m]),
         NEW c \in Calls, pc[c] = "resolve", Owner[req[c].holder] = m
  PROVE  c \in cleared'
<1>1. rows'[m] # rows[m] /\ m \in Holders /\ m \notin Names
  BY CertificatesAssumption DEF Holders
<1>2. PICK d \in Calls : Insert(d) \/ UndoRow(d) \/ StoreCert(d) \/ ClearCert(d)
                         \/ DeleteRow(d)
  BY <1>1, RowWriters
<1>3. ~(Insert(d) \/ UndoRow(d) \/ DeleteRow(d))
  <2>1. Insert(d) \/ UndoRow(d) \/ DeleteRow(d) => req[d].holder \in Names
    BY RequestType DEF Insert, UndoRow, DeleteRow, At, TypeInv, Place, CreateSteps
  <2>2. Insert(d) \/ UndoRow(d) \/ DeleteRow(d) =>
          \A h \in Holders : h # req[d].holder => rows'[h] = rows[h]
    BY DEF Insert, UndoRow, DeleteRow, WithoutRow, TypeInv, TypeOK
  <2> QED BY <1>1, <2>1, <2>2
<1>4. rows'[m] \in Row
  <2>1. TypeInv'
    BY TypeStep
  <2> QED BY <1>1, <2>1 DEF TypeInv, TypeOK, ManagersStay
<1>5. ~StoreCert(d)
  <2> SUFFICES ASSUME StoreCert(d) PROVE FALSE
    OBVIOUS
  <2>1. rows'[m].title = req[d].title /\ req[d].title # NoTitle
    BY <1>1, RowChanged DEF StoreCert, At, TypeInv, Place, Own
  <2> QED BY <1>4, <2>1, CertificatesAssumption DEF Titled
<1>6. ClearCert(d)
  BY <1>2, <1>3, <1>5
<1>7. req[d].holder = m /\ rows' # rows
  BY <1>1, <1>6, RowChanged DEF ClearCert
<1> QED BY <1>6, <1>7 DEF ClearCert, Checked, At

LEMMA BlankStep == TypeInv /\ BlankInv /\ [Next]_vars => BlankInv'
<1> SUFFICES ASSUME TypeInv, BlankInv, [Next]_vars, NEW c \in Calls
             PROVE  /\ reply'[c] = "legacy" /\ req'[c].holder \in Blank => c \in cleared'
                    /\ SeenTitle(c)'
  BY DEF BlankInv, NoBlankProfile
<1>1. cleared \subseteq cleared'
  BY ClearedWriters DEF ClearCert
<1>2. CASE pc'[c] = pc[c] /\ reply'[c] = reply[c] /\ req'[c] = req[c]
  <2>1. pc[c] = "resolve" => Owner[req[c].holder] \in Managers
    BY DEF TypeInv, Place
  <2> QED BY <1>1, <1>2, <2>1, TitleGoes DEF BlankInv, NoBlankProfile, SeenTitle, Asked
<1>3. CASE Start(c)
  <2>1. reply[c] = NoReply /\ NoReply \notin {"legacy"}
    BY <1>3, CertificatesAssumption DEF Start, TypeInv, Place, Replies
  <2>2. reply'[c] # "legacy" /\ pc'[c] # "resolve"
    BY <1>3, <2>1 DEF Start, PatchStep, GoTo, Answer, TypeInv, TypeOK
  <2> QED BY <2>2 DEF SeenTitle, Asked
<1>4. CASE Serve(c)
  <2>1. UNCHANGED req
    BY <1>4, OnlyCaller DEF TypeInv
  <2>2. CASE GetUser(c)
    BY <1>1, <2>1, <2>2 DEF GetUser, GoTo, Answer, TypeInv, TypeOK, SeenTitle, Asked,
                            BlankInv, NoBlankProfile
  <2>3. CASE Check(c)
    BY <1>1, <2>1, <2>3 DEF Check, Refused, ReadOnly, GoTo, Answer, TypeInv, TypeOK,
                            SeenTitle, Asked, BlankInv, NoBlankProfile
  <2>4. CASE Resolve(c)
    BY <1>1, <2>1, <2>4 DEF Resolve, At, GoTo, Answer, TypeInv, TypeOK, SeenTitle,
                            Asked, BlankInv, NoBlankProfile
  <2>5. CASE ~(GetUser(c) \/ Check(c) \/ Resolve(c))
    <3>1. pc'[c] # "resolve" /\ (reply'[c] = "legacy" => reply[c] = "legacy")
      BY <1>4, <2>5
         DEF Serve, Provision, Ensure, Create, Change, Download, WriteTemp, Import,
             RemoveTemp, AfterTemp, ReadTemplate, WriteFile, AddUser, CreateStep,
             Insert, Assign, UndoUser, UndoRow, StoreCert, ClearCert, SetCert,
             RemoveUser, DeleteRow, ReadFile, GiveUp, GoTo, Answer, TypeInv, TypeOK
    <3> QED BY <1>1, <2>1, <3>1 DEF BlankInv, NoBlankProfile, SeenTitle, Asked
  <2> QED BY <2>2, <2>3, <2>4, <2>5
<1>5. CASE Crash
  <2>1. /\ req' = req /\ pc'[c] \in {pc[c], "done"}
        /\ reply'[c] \in {reply[c], "lost"} /\ rows' = rows
    BY <1>5 DEF Crash
  <2> QED BY <1>1, <2>1 DEF BlankInv, NoBlankProfile, SeenTitle, Asked
<1>6. ASSUME NEW d \in Calls, d # c, Start(d) \/ Serve(d)
      PROVE  pc'[c] = pc[c] /\ reply'[c] = reply[c] /\ req'[c] = req[c]
  BY <1>6, OthersWait
<1>7. ASSUME NEW t \in Titles, Finish(t)
      PROVE  pc'[c] = pc[c] /\ reply'[c] = reply[c] /\ req'[c] = req[c]
  BY <1>7 DEF Finish, calls
<1> QED BY <1>2, <1>3, <1>4, <1>5, <1>6, <1>7 DEF Next, Serve, AllAnswered, vars, calls

\* A user whose password is not known gets no file that asks for it, unless the
\* title went between the two reads (cert.go, writeOvpnDownload, ovpnBodyForMeta).
THEOREM NoFileWithoutPassword == Spec => []NoBlankProfile
<1>1. Init => BlankInv
  BY CertificatesAssumption DEF Init, BlankInv, NoBlankProfile, SeenTitle, Asked, Replies
<1>2. Spec => [](TypeInv /\ BlankInv)
  BY <1>1, InitTypeInv, TypeStep, BlankStep, PTL DEF Spec
<1> QED BY <1>2, PTL DEF BlankInv

----------------------------------------------------------------------------
(* Passphrases and keys.                                                   *)

\* The rows that somebody can take a title and a passphrase from.
Known(r) ==
  /\ Titled(r)
  /\ (\E h \in Holders : r = rows[h]) \/ (\E c \in Calls : r = seen[c])

\* The passphrase p is or was meant for the title t.
HasPair(t, p) ==
  \/ \E r \in Row : Known(r) /\ r.title = t /\ r.pass = p
  \/ p \in Calls /\ pc[p] # "idle" /\ Own(p) /\ req[p].title = t

\* A passphrase that the key of its title was exported with.
Sure(p) == p \in first /\ RanWithOwn(p)

\* The places of a call that has not run the script.
BeforeSteps == {"idle", "addUser", "writeTemp", "import"}

\* The passphrase of such a call is nowhere but in the temporary file.
Unused(c) ==
  pc[c] \in BeforeSteps =>
    /\ sent[c] # c
    /\ pc[c] # "import" => c \notin first /\ \A t \in Titles : temp[t] # c
    /\ \A r \in Row : Known(r) => r.pass # c
    /\ \A n \in Names : built[n] # c

\* Such a passphrase opens the key of the title.
GoodPair(t, p) ==
  Sure(p) /\ t \notin Names => files[t] = [title |-> t, key |-> p]

GoodRows == \A r \in Row : Known(r) => GoodPair(r.title, r.pass)

OneTitle ==
  \A p \in Passes : \A t, u \in Titles : HasPair(t, p) /\ HasPair(u, p) => t = u

\* The places at which the title of a call that has one has been exported.
KeySteps == {"removeTemp", "readTemplate", "writeFile", "insert", "storeCert"}

\* What a call relies on when it imports, and when it has.
ImportsAlone(c) ==
  LET t == req[c].title
  IN pc[c] = "import" /\ c \in first /\ temp[t] = c /\ t \notin Names =>
       /\ files[t] = NoFile /\ Kept[t] = NoPass /\ t \notin late
       /\ \A d \in Calls \ {c} : pc[d] = "import" => req[d].title # t

HasKey(c) == pc[c] \in KeySteps /\ Own(c) => GoodPair(req[c].title, c)

GoodBody(c) ==
  pc[c] = "writeFile" /\ Sure(Pass(c)) /\ Title(c) \notin Names =>
    body[c] = [title |-> Title(c), key |-> Pass(c)]

\* The file of a user has the key that the passphrase it was made for opens.
GoodFiles ==
  \A n \in Names : \A t \in Titles \ Names : \A p \in Passes :
    HasPair(t, p) /\ built[n] = p /\ Sure(p) => files[n] = [title |-> t, key |-> p]

KeyInv ==
  /\ \A c \in Calls : Unused(c) /\ ImportsAlone(c) /\ HasKey(c) /\ GoodBody(c)
  /\ GoodRows /\ OneTitle /\ GoodFiles

\* What the rows that may be there at the start have in common.
LEMMA FoundersApart ==
  ASSUME NEW f \in Founders, NEW h \in Holders, Provisioned(f, h)
  PROVE  /\ f[h] \in Row /\ f[h].title \in Titles /\ f[h].pass \in Passes \ Calls
         /\ \A k \in Holders : k # h /\ Provisioned(f, k) =>
              /\ f[h].title # f[k].title /\ f[k].title \notin Names
              /\ f[h].pass # f[k].pass
<1>1. f[h] \in Row \union {NoRow} /\ f[h] # NoRow /\ f[h].title # NoTitle
  BY CertificatesAssumption DEF Provisioned
<1>2. (f[h].title = NoTitle <=> f[h].pass = NoPass) /\ f[h].pass \notin Calls
  BY <1>1, CertificatesAssumption
<1>3. ASSUME NEW k \in Holders, k # h, Provisioned(f, k)
      PROVE  /\ f[h].title # f[k].title /\ f[k].title \notin Names
             /\ f[h].pass # f[k].pass
  BY <1>1, <1>3, CertificatesAssumption DEF Provisioned
<1> QED BY <1>1, <1>2, <1>3 DEF Row

\* The files at the start are those of the rows.
LEMMA FoundersFiles ==
  ASSUME Init
  PROVE  /\ \A h \in Holders : Provisioned(rows, h) /\ rows[h].title \notin Names =>
              files[rows[h].title] = [title |-> rows[h].title, key |-> rows[h].pass]
         /\ \A n \in Names : \A h \in Holders :
              /\ Provisioned(rows, h) /\ rows[h].title \notin Names
              /\ built[n] = rows[h].pass
              => files[n] = [title |-> rows[h].title, key |-> rows[h].pass]
<1>0. PICK made \in SUBSET Names :
      files = [x \in Files |->
         LET holders == {h \in Holders :
               /\ Provisioned(rows, h)
               /\ \/ rows[h].title = x
                  \/ x \in Names /\ built[x] = rows[h].pass}
         IN IF holders = {} THEN NoFile
            ELSE LET h == CHOOSE h \in holders : TRUE
                 IN [title |-> rows[h].title, key |-> rows[h].pass]]
  BY DEF Init, InitFiles
<1>1. ASSUME NEW h \in Holders, Provisioned(rows, h), rows[h].title \notin Names,
             NEW x \in Files,
             \/ x = rows[h].title
             \/ x \in Names /\ built[x] = rows[h].pass
      PROVE  files[x] = [title |-> rows[h].title, key |-> rows[h].pass]
  <2> DEFINE holders == {k \in Holders :
               /\ Provisioned(rows, k)
               /\ \/ rows[k].title = x
                  \/ x \in Names /\ built[x] = rows[k].pass}
  <2>1. files[x] = IF holders = {} THEN NoFile
                   ELSE LET k == CHOOSE k \in holders : TRUE
                        IN [title |-> rows[k].title, key |-> rows[k].pass]
    BY <1>0
  <2>2. \A k \in holders : k = h
    <3> SUFFICES ASSUME NEW k \in Holders, k # h, Provisioned(rows, k)
                 PROVE  /\ rows[k].title # x
                        /\ x \in Names => built[x] # rows[k].pass
      OBVIOUS
    <3>1. /\ rows[h].title # rows[k].title /\ rows[k].title \notin Names
          /\ rows[h].pass # rows[k].pass
      BY <1>1, FoundersApart DEF Init
    <3> QED BY <1>1, <3>1
  <2>3. h \in holders
    BY <1>1
  <2> HIDE DEF holders
  <2>4. (CHOOSE k \in holders : TRUE) = h
    BY <2>2, <2>3
  <2> QED BY <2>1, <2>3, <2>4
<1>2. \A h \in Holders : Provisioned(rows, h) => rows[h].title \in Files
  BY FoundersApart DEF Init, Files
<1> QED BY <1>1, <1>2 DEF Files

LEMMA InitKey == Init => KeyInv
<1> SUFFICES ASSUME Init PROVE KeyInv
  OBVIOUS
<1>1. ASSUME NEW r \in Row, Known(r)
      PROVE  \E h \in Holders : r = rows[h] /\ Provisioned(rows, h)
  BY <1>1 DEF Init, Known, Titled, Provisioned
<1>2. ASSUME NEW n \in Names PROVE built[n] \notin Calls
  <2>1. \/ built[n] = NoPass
        \/ \E h \in Holders : Provisioned(rows, h) /\ built[n] = rows[h].pass
    BY CertificatesAssumption DEF Init, InitFiles, Holders
  <2> QED BY <2>1, FoundersApart, CertificatesAssumption DEF Init, Passes
<1>3. ASSUME NEW c \in Calls PROVE Unused(c)
  <2>1. c \notin first /\ sent[c] # c /\ \A t \in Titles : temp[t] # c
    BY CertificatesAssumption DEF Init, Passes
  <2> QED BY <1>1, <1>2, <2>1, FoundersApart DEF Init, Unused
<1>4. ASSUME NEW c \in Calls PROVE ImportsAlone(c) /\ HasKey(c) /\ GoodBody(c)
  BY DEF Init, ImportsAlone, HasKey, KeySteps, GoodBody
<1>5. GoodRows
  BY <1>1, FoundersFiles DEF GoodRows, GoodPair
<1>6. ASSUME NEW t, NEW p, HasPair(t, p)
      PROVE  \E h \in Holders : /\ Provisioned(rows, h)
                               /\ rows[h].title = t /\ rows[h].pass = p
  <2>1. \A c \in Calls : pc[c] = "idle"
    BY DEF Init
  <2> QED BY <1>1, <1>6, <2>1 DEF HasPair
<1>7. OneTitle
  BY <1>6, FoundersApart DEF OneTitle, Init
<1>8. GoodFiles
  BY <1>6, FoundersFiles DEF GoodFiles
<1> QED BY <1>3, <1>4, <1>5, <1>7, <1>8 DEF KeyInv

\* What can be read after a step could be read before, or is of the caller.
LEMMA KnownSource ==
  ASSUME TypeInv, [Next]_vars, NEW r \in Row, Known(r)'
  PROVE  \/ Known(r)
         \/ \E c \in Calls : /\ (Insert(c) /\ Own(c)) \/ StoreCert(c)
                             /\ r.title = req[c].title /\ r.pass = c
<1>1. Titled(r)
  BY DEF Known, Titled
<1>2. ASSUME NEW h \in Holders, r = rows'[h]
      PROVE  \/ Known(r)
             \/ \E c \in Calls : /\ (Insert(c) /\ Own(c)) \/ StoreCert(c)
                                 /\ r.title = req[c].title /\ r.pass = c
  BY <1>1, <1>2, RowSource DEF Known
<1>3. ASSUME NEW d \in Calls, r = seen'[d] PROVE Known(r)
  <2>1. CASE seen'[d] = seen[d]
    BY <1>1, <1>3, <2>1 DEF Known
  <2>2. CASE seen'[d] # seen[d]
    <3>1. PICK c \in Calls : Start(c)
      BY <2>2, OnlyCaller
         DEF Next, Serve, Crash, Finish, AllAnswered, vars, calls, TypeInv
    <3>2. d = c
      BY <2>2, <3>1, OthersWait
    <3>3. seen'[c] = NoRow \/ \E h \in Holders : seen'[c] = rows[h]
      <4>1. PICK q \in Requests :
              seen' = [seen EXCEPT ![c] =
                         IF q.op # "create" THEN rows[q.holder]
                         ELSE IF Owner[q.holder] = NoManager THEN NoRow
                         ELSE rows[Owner[q.holder]]]
        BY <3>1 DEF Start
      <4>2. /\ q.holder \in Holders
            /\ q.op = "create" => Owner[q.holder] \in Managers \union {NoManager}
        BY RequestType, CertificatesAssumption
      <4> QED BY <4>1, <4>2 DEF TypeInv, TypeOK, Holders
    <3> QED BY <1>1, <1>3, <3>2, <3>3 DEF Known, Titled
  <2> QED BY <2>1, <2>2
<1> QED BY <1>2, <1>3 DEF Known

\* A new pair is that of a call that starts.
LEMMA PairSource ==
  ASSUME TypeInv, [Next]_vars, NEW t, NEW p, HasPair(t, p)'
  PROVE  HasPair(t, p) \/ (p \in Calls /\ Start(p))
<1>1. ASSUME NEW r \in Row, Known(r)', r.title = t, r.pass = p
      PROVE  HasPair(t, p)
  <2>1. CASE Known(r)
    BY <1>1, <2>1 DEF HasPair
  <2>2. ASSUME NEW c \in Calls, (Insert(c) /\ Own(c)) \/ StoreCert(c),
               r.title = req[c].title, r.pass = c
        PROVE  HasPair(t, p)
    <3>1. pc[c] # "idle" /\ Own(c)
      BY <2>2 DEF Insert, StoreCert, At, TypeInv, Place
    <3> QED BY <1>1, <2>2, <3>1 DEF HasPair
  <2> QED BY <1>1, <2>1, <2>2, KnownSource
<1>2. ASSUME p \in Calls, pc'[p] # "idle", Own(p)', req'[p].title = t, ~Start(p)
      PROVE  HasPair(t, p)
  <2>1. req'[p] = req[p] /\ pc[p] # "idle"
    <3>1. CASE \E c \in Calls : Start(c)
      BY <1>2, <3>1, OthersWait
    <3>2. ASSUME NEW c \in Calls, Serve(c) PROVE req'[p] = req[p] /\ pc[p] # "idle"
      <4>1. pc[c] # "idle" /\ req' = req
        BY <3>2, OnlyCaller
           DEF Serve, Provision, Ensure, Create, Change, Download, WriteTemp, Import,
               RemoveTemp, ReadTemplate, WriteFile, AddUser, Insert, Assign, UndoUser,
               UndoRow, StoreCert, ClearCert, RemoveUser, DeleteRow, GetUser, Check,
               Resolve, ReadFile, At, TypeInv
      <4> QED BY <1>2, <3>2, <4>1, OthersWait
    <3>3. CASE Crash \/ UNCHANGED vars \/ \E x \in Titles : Finish(x)
      BY <1>2, <3>3 DEF Crash, Finish, Served, vars, calls, TypeInv, TypeOK
    <3> QED BY <3>1, <3>2, <3>3 DEF Next, Serve, AllAnswered
  <2> QED BY <1>2, <2>1 DEF HasPair, Own
<1> QED BY <1>1, <1>2 DEF HasPair

\* Only the call itself makes its passphrase the first, and sure.
LEMMA FirstSource ==
  ASSUME [Next]_vars, NEW p, p \in first', p \notin first
  PROVE  p \in Calls /\ WriteTemp(p) /\ New(p, Title(p))
<1>1. PICK c \in Calls : WriteTemp(c)
  BY FirstWriters
<1> QED BY <1>1 DEF WriteTemp

LEMMA SureSource ==
  ASSUME TypeInv, KeyInv, [Next]_vars, NEW p, Sure(p)', ~Sure(p)
  PROVE  p \in Calls /\ Import(p) /\ pc'[p] = "removeTemp" /\ p \in first
<1>1. p \in Calls
  BY FirstSource DEF Sure, RanWithOwn
<1>2. CASE p \notin first
  <2>1. WriteTemp(p)
    BY <1>2, FirstSource DEF Sure
  <2> QED BY <1>1, <2>1 DEF WriteTemp, At, KeyInv, Unused, BeforeSteps, Sure, RanWithOwn
<1>3. CASE p \in first
  <2>1. sent'[p] = p /\ sent[p] # p
    BY <1>1, <1>3 DEF Sure, RanWithOwn
  <2>2. PICK c \in Calls : Import(c)
    BY <2>1, SentWriters
  <2>3. c = p /\ GoTo(c, "removeTemp")
    BY <1>1, <2>1, <2>2 DEF Import, TypeInv, TypeOK
  <2> QED BY <1>1, <1>3, <2>2, <2>3 DEF GoTo, TypeInv, TypeOK
<1> QED BY <1>2, <1>3

\* Whatever is in a file of a title that is no user's name stays in it.
LEMMA Frozen ==
  ASSUME TypeInv, [Next]_vars, NEW x \in Files, files[x] # NoFile,
         \A c \in Calls : WriteFile(c) /\ req[c].holder = x => files' = files
  PROVE  files'[x] = files[x]
<1>1. CASE UNCHANGED files
  BY <1>1
<1>2. ASSUME NEW c \in Calls, Import(c) PROVE files'[x] = files[x]
  <2>1. Title(c) \in Titles /\ TypeOK
    BY <1>2, TitleType DEF Import, At, TypeInv, TempSteps
  <2>2. files' = files \/ files' = Export(Title(c), PassphraseOf(Title(c)))
    BY <1>2 DEF Import
  <2>3. Export(Title(c), PassphraseOf(Title(c)))[x] = files[x]
    BY <2>1 DEF Export, TypeOK
  <2> QED BY <2>2, <2>3
<1>3. ASSUME NEW c \in Calls, WriteFile(c) PROVE files'[x] = files[x]
  BY <1>3 DEF WriteFile, TypeInv, TypeOK
<1>4. ASSUME NEW t \in Titles, Finish(t) PROVE files'[x] = files[x]
  BY <1>4 DEF Finish, Export, TypeInv, TypeOK
<1> QED BY <1>1, <1>2, <1>3, <1>4, FileWriters

\* A pair that was good is good unless its passphrase becomes sure.
LEMMA PairStays ==
  ASSUME TypeInv, [Next]_vars, NEW t \in Titles, NEW p, GoodPair(t, p),
         Sure(p)' => Sure(p)
  PROVE  GoodPair(t, p)'
<1> SUFFICES ASSUME Sure(p)', t \notin Names
             PROVE  files'[t] = [title |-> t, key |-> p]
  BY DEF GoodPair
<1>1. files[t] = [title |-> t, key |-> p] /\ p \in Passes
  BY DEF GoodPair, Sure, TypeInv, TypeOK
<1>2. files[t] \in File /\ t \in Files
  BY <1>1 DEF File, Files
<1>3. \A c \in Calls : WriteFile(c) => req[c].holder \in Names
  BY DEF WriteFile, At, TypeInv, Place, EnsureSteps
<1> QED BY <1>1, <1>2, <1>3, Frozen, CertificatesAssumption

----------------------------------------------------------------------------
(* A step keeps each part of KeyInv.                                       *)

LEMMA UnusedStep ==
  ASSUME TypeInv, KeyInv, [Next]_vars, NEW c \in Calls
  PROVE  Unused(c)'
<1> SUFFICES ASSUME pc'[c] \in BeforeSteps
             PROVE  /\ sent'[c] # c
                    /\ pc'[c] # "import" => c \notin first' /\ \A t \in Titles : temp'[t] # c
                    /\ \A r \in Row : Known(r)' => r.pass # c
                    /\ \A n \in Names : built'[n] # c
  BY DEF Unused
<1>1. /\ pc[c] \in BeforeSteps
      /\ pc'[c] # "import" => pc[c] # "import"
      /\ pc[c] \in {"writeTemp", "import"} /\ pc'[c] # "import" => pc'[c] = pc[c]
      /\ pc[c] = "import" => pc'[c] = "import"
  <2>1. CASE Start(c)
    BY <2>1 DEF Start, At, BeforeSteps
  <2>2. CASE Serve(c)
    BY <2>2 DEF Serve, Provision, Ensure, Create, Change, Download, WriteTemp, Import,
                RemoveTemp, AfterTemp, ReadTemplate, WriteFile, AddUser, CreateStep,
                Insert, Assign, UndoUser, UndoRow, StoreCert, ClearCert, SetCert,
                RemoveUser, DeleteRow, GetUser, Check, Resolve, ReadFile, GiveUp, GoTo,
                Answer, At, TypeInv, TypeOK, BeforeSteps
  <2>3. CASE Crash \/ UNCHANGED vars \/ \E t \in Titles : Finish(t)
    BY <2>3 DEF Crash, Finish, vars, calls, BeforeSteps
  <2>4. ASSUME NEW d \in Calls, d # c, Start(d) \/ Serve(d) PROVE pc'[c] = pc[c]
    BY <2>4, OthersWait
  <2> QED BY <2>1, <2>2, <2>3, <2>4 DEF Next, Serve, AllAnswered
<1>2. Unused(c)
  BY DEF KeyInv
<1>3. ASSUME pc'[c] # "import" PROVE c \notin first' /\ \A t \in Titles : temp'[t] # c
  <2>1. WriteTemp(c) => pc'[c] # "writeTemp" /\ pc[c] = "writeTemp"
    BY DEF WriteTemp, GiveUp, GoTo, Answer, At, TypeInv, TypeOK
  <2>2. ~WriteTemp(c)
    BY <1>1, <1>3, <2>1
  <2>3. c \notin first'
    BY <1>1, <1>2, <1>3, <2>2, FirstSource DEF Unused
  <2>4. ASSUME NEW t \in Titles PROVE temp'[t] # c
    <3>1. CASE UNCHANGED temp
      BY <1>1, <1>2, <1>3, <3>1 DEF Unused
    <3>2. ASSUME NEW d \in Calls, WriteTemp(d) PROVE temp'[t] \in {temp[t], d}
      BY <3>2 DEF WriteTemp, TypeInv, TypeOK
    <3>3. ASSUME NEW d \in Calls, RemoveTemp(d) PROVE temp'[t] \in {temp[t], NoPass}
      BY <3>3 DEF RemoveTemp, TypeInv, TypeOK
    <3>4. c # NoPass
      BY CertificatesAssumption DEF Passes
    <3> QED BY <1>1, <1>2, <1>3, <2>2, <3>1, <3>2, <3>3, <3>4, TempWriters DEF Unused
  <2> QED BY <2>3, <2>4
<1>4. ASSUME NEW r \in Row, Known(r)' PROVE r.pass # c
  BY <1>1, <1>2, <1>4, KnownSource DEF Unused, Insert, StoreCert, At, BeforeSteps
<1>5. ASSUME NEW n \in Names PROVE built'[n] # c
  <2>1. CASE UNCHANGED built
    BY <1>1, <1>2, <2>1 DEF Unused
  <2>2. ASSUME NEW d \in Calls, WriteFile(d) PROVE built'[n] # c
    <3>1. built'[n] = built[n] \/ built'[n] = Pass(d)
      BY <2>2 DEF WriteFile, TypeInv, TypeOK
    <3>2. Pass(d) # c
      <4>1. CASE Own(d)
        BY <1>1, <2>2, <4>1 DEF Pass, WriteFile, At, BeforeSteps
      <4>2. CASE ~Own(d)
        <5>1. Known(seen[d]) /\ seen[d] \in Row
          BY <2>2, <4>2 DEF WriteFile, At, TypeInv, TypeOK, Place, EnsureSteps, Known,
                            Titled
        <5> QED BY <1>1, <1>2, <4>2, <5>1 DEF Unused, Pass
      <4> QED BY <4>1, <4>2
    <3> QED BY <1>1, <1>2, <3>1, <3>2 DEF Unused
  <2> QED BY <2>1, <2>2, BuiltWriters
<1>6. sent'[c] # c
  <2>1. Import(c) => pc'[c] \notin BeforeSteps
    BY DEF Import, GoTo, TypeInv, TypeOK, BeforeSteps
  <2>2. \A d \in Calls : Import(d) => sent'[c] = sent[c] \/ c = d
    BY DEF Import, TypeInv, TypeOK
  <2> QED BY <1>1, <1>2, <2>1, <2>2, SentWriters DEF Unused
<1> QED BY <1>3, <1>4, <1>5, <1>6

\* A passphrase that anybody has read did not become sure just now.
LEMMA ReadBefore ==
  ASSUME TypeInv, KeyInv, [Next]_vars, NEW r \in Row, Known(r), Sure(r.pass)'
  PROVE  Sure(r.pass)
<1>1. \A c \in Calls : Import(c) => Unused(c) /\ pc[c] = "import"
  BY DEF Import, At, KeyInv
<1> QED BY <1>1, SureSource DEF Unused, BeforeSteps

LEMMA GoodRowsStep ==
  ASSUME TypeInv, KeyInv, [Next]_vars
  PROVE  GoodRows'
<1> SUFFICES ASSUME NEW r \in Row, Known(r)' PROVE GoodPair(r.title, r.pass)'
  BY DEF GoodRows
<1>1. r.title \in Titles
  BY DEF Known, Titled, Row
<1>2. CASE Known(r)
  BY <1>1, <1>2, ReadBefore, PairStays DEF KeyInv, GoodRows
<1>3. ASSUME NEW c \in Calls, (Insert(c) /\ Own(c)) \/ StoreCert(c),
             r.title = req[c].title, r.pass = c
      PROVE  GoodPair(r.title, r.pass)'
  <2>1. pc[c] \in {"insert", "storeCert"} /\ Own(c)
    BY <1>3 DEF Insert, StoreCert, At, TypeInv, Place
  <2>2. GoodPair(r.title, r.pass)
    BY <1>3, <2>1 DEF KeyInv, HasKey, KeySteps
  <2>3. Sure(c)' => Sure(c)
    BY <2>1, SureSource DEF Import, At
  <2> QED BY <1>1, <1>3, <2>2, <2>3, PairStays
<1> QED BY <1>2, <1>3, KnownSource

LEMMA OneTitleStep ==
  ASSUME TypeInv, KeyInv, [Next]_vars
  PROVE  OneTitle'
<1> SUFFICES ASSUME NEW p \in Passes, NEW t \in Titles, NEW u \in Titles,
                    HasPair(t, p)', HasPair(u, p)'
             PROVE  t = u
  BY DEF OneTitle
<1>1. CASE HasPair(t, p) /\ HasPair(u, p)
  BY <1>1 DEF KeyInv, OneTitle
<1>2. CASE p \in Calls /\ Start(p)
  <2>1. Unused(p) /\ pc[p] = "idle"
    BY <1>2 DEF KeyInv, Start
  <2>2. ASSUME NEW r \in Row, Known(r)' PROVE r.pass # p
    <3>1. ~\E c \in Calls : r.pass = c /\ (Insert(c) \/ StoreCert(c)) /\ c = p
      BY <2>1 DEF Insert, StoreCert, At
    <3> QED BY <2>1, <2>2, <3>1, KnownSource DEF Unused, BeforeSteps
  <2>3. req'[p].title = t /\ req'[p].title = u
    BY <2>2 DEF HasPair
  <2> QED BY <2>3
<1> QED BY <1>1, <1>2, PairSource

\* The places of the calls that import are reached by WriteTemp.
LEMMA Importers ==
  ASSUME TypeInv, [Next]_vars, NEW c \in Calls, pc'[c] = "import"
  PROVE  /\ pc[c] = "import" \/ WriteTemp(c)
         /\ pc[c] = "import" => ~Import(c)
         /\ req'[c] = req[c]
<1>1. CASE Start(c)
  <2>1. pc'[c] # "import"
    BY <1>1 DEF Start, PatchStep, GoTo, Answer, TypeInv, TypeOK
  <2> QED BY <2>1
<1>2. CASE Serve(c)
  <2>1. WriteTemp(c)
    BY <1>2 DEF Serve, Provision, Ensure, Create, Change, Download, Import,
                RemoveTemp, AfterTemp, ReadTemplate, WriteFile, AddUser, CreateStep,
                Insert, Assign, UndoUser, UndoRow, StoreCert, ClearCert, SetCert,
                RemoveUser, DeleteRow, GetUser, Check, Resolve, ReadFile, GiveUp, GoTo,
                Answer, TypeInv, TypeOK
  <2> QED BY <2>1 DEF WriteTemp, At
<1>3. CASE Crash \/ UNCHANGED vars \/ \E t \in Titles : Finish(t)
  <2>1. pc[c] = "import" /\ req' = req
    BY <1>3 DEF Crash, Finish, vars, calls
  <2>2. ~Import(c)
    BY <1>3 DEF Crash, Finish, Import, GoTo, Served, vars, calls, At, TypeInv, TypeOK
  <2> QED BY <2>1, <2>2
<1>4. ASSUME NEW d \in Calls, d # c, Start(d) \/ Serve(d)
      PROVE  pc[c] = "import" /\ ~Import(c) /\ req'[c] = req[c]
  <2>1. pc'[c] = pc[c] /\ req'[c] = req[c]
    BY <1>4, OthersWait
  <2>2. ~Import(c)
    BY <2>1 DEF Import, GoTo, At, TypeInv, TypeOK
  <2> QED BY <2>1, <2>2
<1> QED BY <1>1, <1>2, <1>3, <1>4 DEF Next, Serve, AllAnswered

LEMMA ImportsAloneStep ==
  ASSUME TypeInv, KeyInv, [Next]_vars, NEW c \in Calls
  PROVE  ImportsAlone(c)'
<1> DEFINE t == req[c].title
<1> SUFFICES ASSUME pc'[c] = "import", c \in first', temp'[t] = c,
                    req'[c].title \notin Names
             PROVE  /\ files'[t] = NoFile /\ Kept[t] = NoPass /\ t \notin late'
                    /\ \A d \in Calls \ {c} : pc'[d] = "import" => req'[d].title # t
  BY Importers DEF ImportsAlone
<1>1. /\ pc[c] = "import" \/ WriteTemp(c)
      /\ pc[c] = "import" => ~Import(c)
      /\ t \notin Names
  BY Importers
<1>2. /\ Own(c) /\ Title(c) = t /\ t \in Titles
      /\ \A d \in Calls : pc[d] \in TempSteps \union {"writeTemp"} =>
           Title(d) = req[d].title /\ Title(d) \in Titles
  <2>1. pc[c] \in TempSteps \union {"writeTemp"}
    BY <1>1 DEF WriteTemp, At, TempSteps
  <2> QED BY <2>1, TitleType DEF TypeInv, Place
<1>3. /\ files[t] = NoFile /\ Kept[t] = NoPass /\ t \notin late
      /\ \A d \in Calls \ {c} : pc[d] = "import" => req[d].title # t
  <2>1. CASE c \in first
    <3>1. pc[c] = "import"
      BY <1>1, <2>1 DEF KeyInv, Unused, WriteTemp, At, BeforeSteps
    <3>2. temp[t] = c
      <4>1. CASE UNCHANGED temp
        BY <4>1
      <4>2. ASSUME NEW d \in Calls, WriteTemp(d) PROVE temp'[t] \in {temp[t], d} /\ d # c
        BY <1>2, <3>1, <4>2 DEF WriteTemp, At, TypeInv, TypeOK
      <4>3. ASSUME NEW d \in Calls, RemoveTemp(d) PROVE temp'[t] \in {temp[t], NoPass}
        BY <1>2, <4>3 DEF RemoveTemp, TypeInv, TypeOK
      <4>4. c # NoPass
        BY CertificatesAssumption DEF Passes
      <4> QED BY <4>1, <4>2, <4>3, <4>4, TempWriters
    <3> QED BY <1>1, <2>1, <3>1, <3>2 DEF KeyInv, ImportsAlone
  <2>2. CASE c \notin first
    <3>1. WriteTemp(c) /\ New(c, t)
      BY <1>2, <2>2, FirstSource
    <3> QED BY <3>1 DEF New, WriteTemp, At
  <2> QED BY <2>1, <2>2
\* Another call that writes the file of the title leaves its own passphrase in it.
<1>4. ASSUME NEW d \in Calls \ {c}, WriteTemp(d), Title(d) = t,
             GoTo(d, "import")
      PROVE  FALSE
  <2>1. d # c /\ pc'[d] # pc[d] /\ pc[d] = "writeTemp"
    BY <1>4 DEF WriteTemp, GoTo, At, TypeInv, TypeOK
  <2>2. temp' = [temp EXCEPT ![t] = d]
    BY <1>4, <2>1 DEF WriteTemp, GiveUp, GoTo, Answer, At, TypeInv, TypeOK
  <2> QED BY <1>2, <2>1, <2>2 DEF TypeInv, TypeOK
<1>5. files'[t] = NoFile
  <2>1. CASE UNCHANGED files
    BY <1>3, <2>1
  <2>2. ASSUME NEW d \in Calls, Import(d) PROVE files'[t] = NoFile
    <3>1. d # c /\ pc[d] = "import"
      BY <1>1, <2>2 DEF Import, WriteTemp, At
    <3>2. Title(d) # t /\ Title(d) \in Titles
      BY <1>2, <1>3, <3>1 DEF TempSteps
    <3>3. files' = files \/ files' = Export(Title(d), PassphraseOf(Title(d)))
      BY <2>2 DEF Import
    <3>4. Export(Title(d), PassphraseOf(Title(d)))[t] = files[t]
      BY <1>2, <3>2 DEF Export, TypeInv, TypeOK, Files
    <3> QED BY <1>3, <3>3, <3>4
  <2>3. ASSUME NEW d \in Calls, WriteFile(d) PROVE files'[t] = NoFile
    <3>1. req[d].holder \in Names
      BY <2>3 DEF WriteFile, At, TypeInv, Place, EnsureSteps
    <3> QED BY <1>1, <1>2, <1>3, <2>3, <3>1 DEF WriteFile, TypeInv, TypeOK, Files
  <2>4. ASSUME NEW x \in Titles, Finish(x) PROVE files'[t] = NoFile
    <3>1. x # t
      BY <1>3, <2>4 DEF Finish
    <3> QED BY <1>2, <1>3, <2>4, <3>1 DEF Finish, Export, TypeInv, TypeOK, Files
  <2> QED BY <2>1, <2>2, <2>3, <2>4, FileWriters
<1>6. t \notin late'
  <2>1. ASSUME NEW d \in Calls, Import(d) PROVE t \notin late'
    <3>1. d # c /\ pc[d] = "import"
      BY <1>1, <2>1 DEF Import, WriteTemp, At
    <3>2. Title(d) # t
      BY <1>2, <1>3, <3>1 DEF TempSteps
    <3> QED BY <1>3, <2>1, <3>2 DEF Import, script
  <2> QED BY <1>3, <2>1, LateWriters DEF Finish
<1>7. ASSUME NEW d \in Calls \ {c}, pc'[d] = "import" PROVE req'[d].title # t
  <2>1. (pc[d] = "import" \/ WriteTemp(d)) /\ req'[d] = req[d]
    BY <1>7, Importers
  <2>2. CASE WriteTemp(d)
    <3>1. GoTo(d, "import")
      BY <1>7, <2>2 DEF WriteTemp, GiveUp, GoTo, Answer, TypeInv, TypeOK
    <3> QED BY <1>2, <1>4, <2>1, <2>2, <3>1 DEF WriteTemp, At
  <2> QED BY <1>3, <2>1, <2>2
<1> QED BY <1>3, <1>5, <1>6, <1>7

LEMMA KeyHolders ==
  ASSUME TypeInv, [Next]_vars, NEW c \in Calls, pc'[c] \in KeySteps, Own(c)'
  PROVE  /\ Own(c) /\ req'[c] = req[c] /\ ~WriteTemp(c)
         /\ pc[c] \in KeySteps \/ (Import(c) /\ pc'[c] = "removeTemp")
<1>1. ~Start(c)
  <2>1. Start(c) => pc'[c] \notin KeySteps
    BY DEF Start, PatchStep, GoTo, Answer, TypeInv, TypeOK, KeySteps
  <2> QED BY <2>1
<1>2. CASE Serve(c)
  <2>1. UNCHANGED req
    BY <1>2, OnlyCaller DEF TypeInv
  <2>2. Own(c)
    BY <2>1 DEF Own
  <2>3. ~WriteTemp(c) /\ ~AddUser(c)
    BY <2>2 DEF WriteTemp, AddUser, CreateStep, GiveUp, GoTo, Answer, TypeInv, TypeOK,
                KeySteps
  <2>4. Import(c) \/ RemoveTemp(c) \/ ReadTemplate(c) \/ WriteFile(c)
    BY <1>2, <2>3
       DEF Serve, Provision, Ensure, Create, Change, Download, Insert, Assign, UndoUser,
           UndoRow, StoreCert, ClearCert, SetCert, RemoveUser, DeleteRow, GetUser,
           Check, Resolve, ReadFile, GiveUp, GoTo, Answer, TypeInv, TypeOK, KeySteps
  <2>5. CASE Import(c)
    BY <2>1, <2>2, <2>3, <2>5 DEF Import, GoTo, TypeInv, TypeOK, KeySteps
  <2>6. CASE RemoveTemp(c)
    BY <2>1, <2>2, <2>3, <2>6 DEF RemoveTemp, AfterTemp, GiveUp, GoTo, Answer, At,
                                  TypeInv, TypeOK, KeySteps
  <2>7. CASE ReadTemplate(c) \/ WriteFile(c)
    BY <2>1, <2>2, <2>3, <2>7 DEF ReadTemplate, WriteFile, At, KeySteps
  <2> QED BY <2>4, <2>5, <2>6, <2>7
<1>3. CASE Crash \/ UNCHANGED vars \/ \E t \in Titles : Finish(t)
  <2>1. pc'[c] = pc[c] /\ UNCHANGED <<req, temp>>
    BY <1>3 DEF Crash, Finish, vars, calls, TypeInv, TypeOK, KeySteps
  <2>2. ~WriteTemp(c)
    BY <2>1 DEF WriteTemp, GiveUp, GoTo, Answer, At, TypeInv, TypeOK
  <2> QED BY <2>1, <2>2 DEF Own
<1>4. ASSUME NEW d \in Calls, d # c, Start(d) \/ Serve(d)
      PROVE  pc'[c] = pc[c] /\ req'[c] = req[c] /\ ~WriteTemp(c)
  <2>1. pc'[c] = pc[c] /\ req'[c] = req[c]
    BY <1>4, OthersWait
  <2> QED BY <2>1 DEF WriteTemp, At, KeySteps
<1> QED BY <1>1, <1>2, <1>3, <1>4 DEF Next, Serve, AllAnswered, Own

LEMMA HasKeyStep ==
  ASSUME TypeInv, KeyInv, [Next]_vars, NEW c \in Calls
  PROVE  HasKey(c)'
<1> SUFFICES ASSUME pc'[c] \in KeySteps, Own(c)'
             PROVE  GoodPair(req[c].title, c)'
  BY DEF HasKey, KeySteps
<1>1. /\ Own(c) /\ req'[c] = req[c] /\ ~WriteTemp(c)
      /\ pc[c] \in KeySteps \/ (Import(c) /\ pc'[c] = "removeTemp")
  BY KeyHolders
<1>2. /\ Sure(c)' => c \in first
      /\ pc[c] \in KeySteps => (Sure(c)' => Sure(c))
  <2>1. c \in first' => c \in first
    BY <1>1, FirstSource
  <2>2. pc[c] \in KeySteps => ~Import(c)
    BY DEF Import, At, KeySteps
  <2> QED BY <2>1, <2>2, SureSource DEF Sure
<1>3. req[c].title \in Titles
  <2>1. req[c] \in Requests
    BY <1>1 DEF TypeInv, Place, KeySteps, Import, At
  <2> QED BY <1>1, <2>1, RequestType DEF Own
<1>4. CASE pc[c] \in KeySteps
  BY <1>1, <1>2, <1>3, <1>4, PairStays DEF KeyInv, HasKey, KeySteps
<1>5. CASE Import(c) /\ pc'[c] = "removeTemp"
  <2> DEFINE t == req[c].title
  <2> SUFFICES ASSUME Sure(c)', t \notin Names
               PROVE  files'[t] = [title |-> t, key |-> c]
    BY <1>1 DEF GoodPair
  <2>1. pc[c] = "import" /\ Title(c) = t
    BY <1>1, <1>5 DEF Import, At, Title
  <2>4. sent'[c] = temp[t] /\ files' = Export(t, PassphraseOf(t))
    BY <1>5, <2>1 DEF Import, GoTo, TypeInv, TypeOK
  <2>5. temp[t] = c
    BY <2>4 DEF Sure, RanWithOwn
  <2>2. files[t] = NoFile /\ Kept[t] = NoPass
    BY <1>2, <2>1, <2>5 DEF KeyInv, ImportsAlone
  <2>3. files' = Export(t, c)
    BY <2>2, <2>4, <2>5 DEF PassphraseOf
  <2>6. Export(t, c) = [files EXCEPT ![t] = [title |-> t, key |-> c]]
    BY <2>2 DEF Export
  <2> QED BY <1>3, <2>3, <2>6 DEF TypeInv, TypeOK, Files
<1> QED BY <1>1, <1>4, <1>5

\* The title and passphrase that a file is made for are those of the call, or of a
\* row that it has read.
LEMMA EnsurePair ==
  ASSUME TypeInv, NEW c \in Calls, pc[c] \in EnsureSteps
  PROVE  /\ HasPair(Title(c), Pass(c)) /\ Title(c) \in Titles
         /\ KeyInv => GoodPair(Title(c), Pass(c))
<1>1. Title(c) \in Titles
  BY TitleType
<1>2. CASE Own(c)
  BY <1>1, <1>2 DEF EnsureSteps, Title, Pass, HasPair, KeyInv, HasKey, KeySteps
<1>3. CASE ~Own(c)
  <2>1. Known(seen[c]) /\ seen[c] \in Row
    BY <1>3 DEF TypeInv, TypeOK, Place, Known, Titled
  <2> QED BY <1>1, <1>3, <2>1 DEF Title, Pass, HasPair, KeyInv, GoodRows
<1> QED BY <1>2, <1>3

\* What a file was made for did not just become sure.
LEMMA PairBefore ==
  ASSUME TypeInv, KeyInv, [Next]_vars, NEW n \in Names, NEW p, p = built[n], Sure(p)'
  PROVE  Sure(p)
<1>1. \A c \in Calls : Import(c) => built[n] # c
  BY DEF KeyInv, Unused, Import, At, BeforeSteps
<1> QED BY <1>1, SureSource

LEMMA GoodBodyStep ==
  ASSUME TypeInv, KeyInv, [Next]_vars, NEW c \in Calls
  PROVE  GoodBody(c)'
<1> SUFFICES ASSUME pc'[c] = "writeFile", Sure(Pass(c))', Title(c)' \notin Names
             PROVE  body'[c] = [title |-> Title(c)', key |-> Pass(c)']
  BY DEF GoodBody
<1>1. CASE ReadTemplate(c)
  <2>1. /\ Title(c)' = Title(c) /\ Pass(c)' = Pass(c) /\ Sure(Pass(c))
        /\ pc[c] \in EnsureSteps
    BY <1>1 DEF ReadTemplate, Title, Pass, Own, At, EnsureSteps, history, Sure, RanWithOwn
  <2>2. body' = [body EXCEPT ![c] = files[Title(c)]]
    BY <1>1 DEF ReadTemplate, GiveUp, GoTo, Answer, TypeInv, TypeOK
  <2> QED BY <2>1, <2>2, EnsurePair DEF GoodPair, TypeInv, TypeOK
<1>2. CASE pc[c] = "writeFile" /\ body'[c] = body[c] /\ req'[c] = req[c]
           /\ seen'[c] = seen[c]
  <2>1. /\ Title(c)' = Title(c) /\ Pass(c)' = Pass(c) /\ pc[c] \in EnsureSteps
    BY <1>2 DEF Title, Pass, Own, EnsureSteps
  <2>2. Sure(Pass(c))
    <3>1. CASE Own(c)
      <4>1. ~Import(c)
        BY <1>2 DEF Import, At
      <4>2. Pass(c) = c /\ Sure(c)'
        BY <2>1, <3>1 DEF Pass, Sure
      <4> QED BY <4>1, <4>2, SureSource
    <3>2. CASE ~Own(c)
      <4>1. Known(seen[c]) /\ seen[c] \in Row
        BY <2>1, <3>2 DEF TypeInv, TypeOK, Place, Known, Titled
      <4> QED BY <2>1, <3>2, <4>1, ReadBefore DEF Pass
    <3> QED BY <3>1, <3>2
  <2> QED BY <1>2, <2>1, <2>2 DEF KeyInv, GoodBody
<1>3. ~Start(c)
  <2>1. Start(c) => pc'[c] # "writeFile"
    BY DEF Start, PatchStep, GoTo, Answer, TypeInv, TypeOK
  <2> QED BY <2>1
<1>4. ASSUME Serve(c) PROVE ReadTemplate(c)
  <2>1. ~AddUser(c)
    BY DEF AddUser, CreateStep, GoTo, Answer, TypeInv, TypeOK
  <2> QED BY <1>4, <2>1
          DEF Serve, Provision, Ensure, Create, Change, Download, WriteTemp, Import,
              RemoveTemp, AfterTemp, WriteFile, Insert, Assign, UndoUser, UndoRow,
              StoreCert, ClearCert, SetCert, RemoveUser, DeleteRow, GetUser, Check,
              Resolve, ReadFile, GiveUp, GoTo, Answer, TypeInv, TypeOK
<1>5. CASE Crash \/ UNCHANGED vars \/ \E t \in Titles : Finish(t)
  <2>1. pc[c] = "writeFile" /\ UNCHANGED <<body, req, seen>>
    BY <1>5 DEF Crash, Finish, vars, calls
  <2> QED BY <1>2, <2>1
<1>6. ASSUME NEW d \in Calls, d # c, Start(d) \/ Serve(d)
      PROVE  /\ pc[c] = "writeFile" /\ body'[c] = body[c] /\ req'[c] = req[c]
             /\ seen'[c] = seen[c]
  <2>1. pc'[c] = pc[c] /\ req'[c] = req[c] /\ seen'[c] = seen[c]
    BY <1>6, OthersWait
  <2>2. body'[c] = body[c]
    BY <1>6, OnlyCaller DEF Start, TypeInv
  <2> QED BY <2>1, <2>2
<1> QED BY <1>1, <1>2, <1>3, <1>4, <1>5, <1>6 DEF Next, Serve, AllAnswered

LEMMA GoodFilesStep ==
  ASSUME TypeInv, KeyInv, [Next]_vars
  PROVE  GoodFiles'
<1> SUFFICES ASSUME NEW n \in Names, NEW t \in Titles \ Names, NEW p \in Passes,
                    HasPair(t, p)', built'[n] = p, Sure(p)'
             PROVE  files'[n] = [title |-> t, key |-> p]
  BY DEF GoodFiles
<1>1. ASSUME NEW c \in Calls, WriteFile(c), req[c].holder = n,
             files' # files \/ built' # built
      PROVE  files'[n] = [title |-> t, key |-> p]
  <2>1. pc[c] = "writeFile" /\ Title(c) \in Titles /\ HasPair(Title(c), Pass(c))
    BY <1>1, EnsurePair DEF WriteFile, At, EnsureSteps
  <2>2. /\ files' = [files EXCEPT ![n] = body[c]] /\ UNCHANGED <<first, sent>>
        /\ built' = [built EXCEPT ![n] = Pass(c)]
    BY <1>1 DEF WriteFile
  <2>3. p = Pass(c) /\ files'[n] = body[c] /\ Sure(p)
    BY <2>2 DEF TypeInv, TypeOK, Files, Sure, RanWithOwn
  <2>4. HasPair(t, p)
    <3>1. ASSUME NEW d \in Calls PROVE ~Start(d)
      BY <1>1 DEF Start, history, WriteFile
    <3> QED BY <3>1, PairSource
  <2>5. t = Title(c)
    BY <2>1, <2>3, <2>4 DEF KeyInv, OneTitle
  <2> QED BY <2>1, <2>2, <2>3, <2>5 DEF KeyInv, GoodBody
<1>2. CASE built'[n] = built[n]
           /\ \A c \in Calls : WriteFile(c) /\ req[c].holder = n => files' = files
  <2>1. HasPair(t, p)
    <3>1. p \in Calls => ~Start(p)
      BY <1>2 DEF KeyInv, Unused, BeforeSteps, Start
    <3> QED BY <3>1, PairSource
  <2>2. Sure(p)
    BY <1>2, PairBefore
  <2>3. files[n] = [title |-> t, key |-> p]
    BY <1>2, <2>1, <2>2 DEF KeyInv, GoodFiles
  <2>4. files[n] # NoFile /\ n \in Files
    BY <2>3, CertificatesAssumption DEF File, Files
  <2> QED BY <1>2, <2>3, <2>4, Frozen
<1>3. CASE ~\E c \in Calls : WriteFile(c) /\ req[c].holder = n /\ built' # built
  <2>1. built'[n] = built[n]
    BY <1>3, BuiltWriters DEF WriteFile, TypeInv, TypeOK
  <2> QED BY <1>1, <1>2, <2>1
<1> QED BY <1>1, <1>3

LEMMA KeyStep == TypeInv /\ KeyInv /\ [Next]_vars => KeyInv'
BY UnusedStep, ImportsAloneStep, HasKeyStep, GoodBodyStep, GoodRowsStep, OneTitleStep,
   GoodFilesStep DEF KeyInv

\* The passphrase that a user is given opens the key in the file of the user, if it was
\* written for a title that nobody had exported and the script was run with it, the
\* file was last made for it, and no user has the title for a name, whichever replies
\* are lost and whichever scripts run late (cert.go; certificates.md:23).
THEOREM PassphraseOpensKey == Spec => []KeyOpens
<1>1. ASSUME TypeInv, KeyInv PROVE KeyOpens
  <2> SUFFICES ASSUME NEW n \in Names, Titled(Source(n)), Source(n).title \notin Names,
                      built[n] = Source(n).pass, Sure(Source(n).pass)
               PROVE  files[n] = [title |-> Source(n).title, key |-> Source(n).pass]
    BY DEF KeyOpens, Sure
  <2>1. \E h \in Holders : Source(n) = rows[h]
    BY CertificatesAssumption DEF Source, Holders
  <2>2. Known(Source(n)) /\ Source(n) \in Row
    <3>1. PICK h \in Holders : Source(n) = rows[h]
      BY <2>1
    <3>2. Titled(rows[h]) /\ rows[h] \in Row \union {NoRow}
      BY <1>1, <3>1 DEF TypeInv, TypeOK
    <3> QED BY <3>1, <3>2 DEF Known, Titled
  <2>3. /\ HasPair(Source(n).title, Source(n).pass)
        /\ Source(n).title \in Titles /\ Source(n).pass \in Passes
    BY <1>1, <2>2 DEF Sure, HasPair, Row, Titled, TypeInv, TypeOK
  <2> QED BY <1>1, <2>3 DEF KeyInv, GoodFiles
<1>2. Spec => [](TypeInv /\ KeyInv)
  BY InitTypeInv, TypeStep, InitKey, KeyStep, PTL DEF Spec
<1> QED BY <1>1, <1>2, PTL
=============================================================================

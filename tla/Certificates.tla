---------------------------- MODULE Certificates ----------------------------
(***************************************************************************)
(* Certificates of OpenVPN and the files of the users (cert.go, the files  *)
(* of the router in mikrotik/files.go, generate-certificate.rsc).          *)
(*                                                                         *)
(* The holder of a title is a user or a manager.  A call is at the command *)
(* or SQL statement that it makes next (pc); the router executes commands  *)
(* one at a time.  The passphrase that a call generates is random and is   *)
(* named by the call.                                                      *)
(***************************************************************************)
EXTENDS FiniteSets, Naturals

CONSTANTS
  Calls,      \* ids of HTTP calls; each is made at most once
  Requests,   \* the requests that may arrive, a subset of Request
  Names,      \* names of users, in the panel and on the router
  Managers,
  Titles,     \* titles of certificates; a user may have the same name
  BadTitle,   \* one of them, which ValidCertTitle refuses
  NoTitle, NoPass, NoRow, NoFile, NoManager, NoRequest, NoReply,
  Owner,      \* the manager of each name (resolve_owner), or NoManager
  Blank,      \* the users whose password the router does not tell
  Ids,        \* ids of rows that are there at the start
  Keys,       \* passphrases that are there at the start
  Kept,       \* what the .pass file of each title contains, or NoPass
  Founders,   \* the possible rows at the start
  MaxInFlight, MaxFaults   \* bounds: calls at the same time, failures

Holders == Names \union Managers
Files   == Names \union Titles
Passes  == Keys \union Calls

\* Only rows of users are inserted, by calls, and deleted.
Row  == [id : Ids \union Calls, title : Titles \union {NoTitle},
         pass : Passes \union {NoPass}]
File == [title : Titles, key : Passes]

Ops == {"create", "patch", "delete", "download"}
Request == [op : Ops, holder : Holders, title : Titles \union {NoTitle}]

Steps == {"idle", "done", "addUser", "writeTemp", "import", "removeTemp",
          "dropTemp", "readTemplate", "writeFile", "insert", "assign", "undoUser",
          "undoBoth", "undoRow", "storeCert", "clearCert", "removeUser",
          "deleteRow", "getUser", "check", "resolve", "readFile"}

Replies == {"ok", "taken", "missing", "invalid", "error", "noPassword", "legacy",
            "file", "noFile", "lost"}

ASSUME CertificatesAssumption ==
  /\ Requests \subseteq Request
  /\ \A q \in Requests : q.holder \in Managers => q.op = "patch"
  /\ Names \intersect Managers = {} /\ Keys \intersect Calls = {}
  /\ Ids \intersect Calls = {}
  /\ BadTitle \in Titles \ Names
  /\ NoTitle \notin Titles /\ NoPass \notin Passes /\ NoRow \notin Row
  /\ NoFile \notin File /\ NoManager \notin Managers
  /\ NoRequest \notin Request /\ NoReply \notin Replies
  /\ Owner \in [Names -> Managers \union {NoManager}]
  /\ Blank \subseteq Names
  /\ Kept \in [Titles -> Keys \union {NoPass}]
  /\ Founders \subseteq [Holders -> Row \union {NoRow}]
  /\ \A f \in Founders :
       /\ \A m \in Managers : f[m] # NoRow
       /\ \A h \in Holders : f[h] # NoRow =>
            /\ f[h].id \in Ids
            /\ f[h].title = NoTitle <=> f[h].pass = NoPass
            /\ f[h].title # BadTitle /\ f[h].pass \notin Calls
       \* No two holders have provisioned one title.
       /\ \A h, k \in Holders : h # k /\ f[h] # NoRow /\ f[k] # NoRow =>
            /\ f[h].title # NoTitle => f[h].title # f[k].title /\ f[h].title \notin Names
            /\ f[h].title # NoTitle => f[h].pass # f[k].pass
            /\ f[h].id # f[k].id
  /\ MaxInFlight \in Nat /\ MaxFaults \in Nat

VARIABLES
  rows,      \* cert_title and cert_key_pass in vpn_user_meta and managers
  accounts,  \* the users of the router
  files,     \* open-vpns/config-NAME.ovpn: whose certificate, which passphrase
  temp,      \* panel-cert-TITLE.rsc: the passphrase that it hands over
  global,    \* PASSPHRASE on the router, as the last script has left it
  late,      \* titles whose script runs on after the deadline of its command
  pc, req, reply,
  seen,      \* the row that a call has read: the holder's, for a create the owner's
  body,      \* the template that a call has read
  first,     \* history: passphrases written for a title that nobody had exported
  sent,      \* history: the passphrase with which the script of a call was run
  built,     \* history: the passphrase that belongs to the file of each user
  cleared,   \* history: downloads whose manager lost the title between two reads
  leaked,    \* history: titles whose temporary file nobody is left to remove
  faults

calls   == <<pc, req, reply, seen, body>>
script  == <<global, late>>
history == <<first, sent, built, cleared, leaked>>
vars    == <<rows, accounts, files, temp, script, calls, history, faults>>

TypeOK ==
  /\ rows \in [Holders -> Row \union {NoRow}]
  /\ accounts \subseteq Names
  /\ files \in [Files -> File \union {NoFile}]
  /\ temp \in [Titles -> Calls \union {NoPass}]
  /\ global \in Passes \union {NoPass} /\ late \subseteq Titles
  /\ pc \in [Calls -> Steps]
  /\ req \in [Calls -> Requests \union {NoRequest}]
  /\ reply \in [Calls -> Replies \union {NoReply}]
  /\ seen \in [Calls -> Row \union {NoRow}]
  /\ body \in [Calls -> File \union {NoFile}]
  /\ first \subseteq Passes
  /\ sent \in [Calls -> Calls \union {NoPass}]
  /\ built \in [Names -> Passes \union {NoPass}]
  /\ cleared \subseteq Calls /\ leaked \subseteq Titles
  /\ faults \in Nat

----------------------------------------------------------------------------
(* A call and its steps.                                                   *)

Served == {c \in Calls : pc[c] \notin {"idle", "done"}}

At(c, step) == pc[c] = step
GoTo(c, step) == pc' = [pc EXCEPT ![c] = step] /\ UNCHANGED reply
Answer(c, r) ==
  /\ pc' = [pc EXCEPT ![c] = "done"]
  /\ reply' = [reply EXCEPT ![c] = r]

Titled(row) == row # NoRow /\ row.title # NoTitle

\* What a create and a patch are about: a title of their own, for which they
\* generate a passphrase, or that of the manager.
Own(c) == req[c].title # NoTitle
Title(c) == IF Own(c) THEN req[c].title ELSE seen[c].title
Pass(c)  == IF Own(c) THEN c ELSE seen[c].pass

\* A patch with the title that the holder has is no change.
PatchStep(q, row) ==
  CASE q.title = row.title -> "done"
    [] q.title = NoTitle   -> "clearCert"
    [] OTHER               -> "writeTemp"

\* The handler reads the row of its holder, a create that of the manager.
Start(c) ==
  /\ pc[c] = "idle" /\ Cardinality(Served) < MaxInFlight
  /\ \E q \in Requests :
       LET row == IF q.op # "create" THEN rows[q.holder]
                  ELSE IF Owner[q.holder] = NoManager THEN NoRow
                  ELSE rows[Owner[q.holder]]
       IN /\ req' = [req EXCEPT ![c] = q]
          /\ seen' = [seen EXCEPT ![c] = row]
          /\ \/ q.op = "create" /\ GoTo(c, "addUser")
             \/ q.op # "create" /\ row = NoRow /\ Answer(c, "missing")
             \/ q.op = "delete" /\ row # NoRow /\ GoTo(c, "removeUser")
             \/ q.op = "download" /\ row # NoRow /\ GoTo(c, "getUser")
             \/ /\ q.op = "patch" /\ row # NoRow
                /\ CASE q.title = BadTitle           -> Answer(c, "invalid")
                     [] PatchStep(q, row) = "done"   -> Answer(c, "ok")
                     [] OTHER                        -> GoTo(c, PatchStep(q, row))
  /\ UNCHANGED <<rows, accounts, files, temp, script, body, history, faults>>

Fault == faults < MaxFaults /\ faults' = faults + 1

\* A create takes its user back, anything else ends with the error.
GiveUp(c) ==
  IF req[c].op = "create" THEN GoTo(c, "undoUser") ELSE Answer(c, "error")

----------------------------------------------------------------------------
(* provisionCertificate: GenerateCertificate and the script.               *)

\* Nobody has exported the title and nobody is about to.
New(c, t) ==
  /\ files[t] = NoFile /\ Kept[t] = NoPass /\ t \notin late
  /\ \A d \in Calls \ {c} : At(d, "import") => req[d].title # t

\* WriteFileContents looks for the file and sets or adds it; should another call
\* come between the two, the second fails.  The file may be written although the
\* reply does not come; its removal has not been deferred then.
WriteTemp(c) ==
  LET t == Title(c)
      written == [temp EXCEPT ![t] = c]
  IN /\ At(c, "writeTemp")
     /\ \/ /\ temp' = written
           /\ first' = first \union {d \in {c} : New(c, t)}
           /\ GoTo(c, "import") /\ UNCHANGED <<leaked, faults>>
        \/ /\ Fault /\ GiveUp(c) /\ UNCHANGED first
           /\ \/ UNCHANGED <<temp, leaked>>
              \/ temp' = written /\ leaked' = leaked \union {t}
     /\ UNCHANGED <<rows, accounts, files, script, req, seen, body, sent, built,
                    cleared>>

\* What the script makes PASSPHRASE; a .pass file comes first.
PassphraseOf(t) == IF Kept[t] # NoPass THEN Kept[t] ELSE temp[t]

\* Mutant of Export: the script exports the key again.
ExportAgain(t, key) == [files EXCEPT ![t] = [title |-> t, key |-> key]]
\* The script makes the certificate unless there is one, and exports it with
\* PASSPHRASE unless config-TITLE is there.
Export(t, key) ==
  IF files[t] # NoFile THEN files
  ELSE [files EXCEPT ![t] = [title |-> t, key |-> key]]

\* Mutant of Import: the removal is deferred after the command.
ImportLeaving(c) ==
  LET t == Title(c)
      key == PassphraseOf(t)
  IN /\ At(c, "import")
     /\ \/ /\ temp[t] # NoPass
           /\ files' = Export(t, key) /\ global' = key
           /\ sent' = [sent EXCEPT ![c] = temp[t]]
           /\ GoTo(c, "removeTemp") /\ UNCHANGED <<late, faults>>
        \/ temp[t] = NoPass /\ GiveUp(c) /\ UNCHANGED <<files, script, sent, faults>>
        \/ Fault /\ GiveUp(c) /\ UNCHANGED <<files, script, sent>>
     /\ UNCHANGED <<rows, accounts, temp, req, seen, body, first, built, cleared, leaked>>
\* The command fails without the file; or by its deadline, before the script has set
\* PASSPHRASE or while it goes on.
Import(c) ==
  LET t == Title(c)
      key == PassphraseOf(t)
  IN /\ At(c, "import")
     /\ \/ /\ temp[t] # NoPass
           /\ files' = Export(t, key) /\ global' = key
           /\ sent' = [sent EXCEPT ![c] = temp[t]]
           /\ GoTo(c, "removeTemp") /\ UNCHANGED <<late, faults>>
        \/ /\ temp[t] = NoPass
           /\ GoTo(c, "dropTemp") /\ UNCHANGED <<files, script, sent, faults>>
        \/ /\ temp[t] # NoPass /\ Fault /\ GoTo(c, "dropTemp")
           /\ \/ UNCHANGED script
              \/ global' = key /\ late' = late \union {t}
           /\ UNCHANGED <<files, sent>>
     /\ UNCHANGED <<rows, accounts, temp, req, seen, body, first, built, cleared, leaked>>

\* A late script ends: its title is its own, PASSPHRASE is what another script has
\* made of it meanwhile.
Finish(t) ==
  /\ t \in late
  /\ files' = Export(t, global) /\ late' = late \ {t}
  /\ UNCHANGED <<rows, accounts, temp, global, calls, history, faults>>

\* Mutant of AfterTemp: a patch does not make the file.
AfterTempStores(c) ==
  IF At(c, "dropTemp") THEN GiveUp(c)
  ELSE GoTo(c, IF req[c].op = "create" THEN "readTemplate" ELSE "storeCert")
AfterTemp(c) ==
  IF At(c, "dropTemp") THEN GiveUp(c)
  ELSE GoTo(c, IF req[c].holder \in Names THEN "readTemplate" ELSE "storeCert")

\* The deferred removal; its error is ignored.
RemoveTemp(c) ==
  /\ At(c, "removeTemp") \/ At(c, "dropTemp")
  /\ \/ /\ temp' = [temp EXCEPT ![Title(c)] = NoPass]
        /\ leaked' = leaked \ {Title(c)} /\ UNCHANGED faults
     \/ /\ Fault /\ UNCHANGED temp
        /\ leaked' = leaked \union {Title(c)}
  /\ AfterTemp(c)
  /\ UNCHANGED <<rows, accounts, files, script, req, seen, body, first, sent, built,
                 cleared>>

----------------------------------------------------------------------------
(* ensureUserOvpnFile: config-NAME is a copy of config-TITLE, with another *)
(* FRIENDLY_NAME and address.                                              *)

ReadTemplate(c) ==
  /\ At(c, "readTemplate")
  /\ \/ /\ files[Title(c)] # NoFile
        /\ body' = [body EXCEPT ![c] = files[Title(c)]]
        /\ GoTo(c, "writeFile") /\ UNCHANGED faults
     \/ /\ IF files[Title(c)] = NoFile THEN UNCHANGED faults ELSE Fault
        /\ GiveUp(c) /\ UNCHANGED body
  /\ UNCHANGED <<rows, accounts, files, temp, script, req, seen, history>>

\* The file may be written although the reply does not come.
WriteFile(c) ==
  LET n == req[c].holder
      write == /\ files' = [files EXCEPT ![n] = body[c]]
               /\ built' = [built EXCEPT ![n] = Pass(c)]
  IN /\ At(c, "writeFile")
     /\ \/ /\ write /\ UNCHANGED faults
           /\ GoTo(c, IF req[c].op = "create" THEN "insert" ELSE "storeCert")
        \/ Fault /\ GiveUp(c) /\ (write \/ UNCHANGED <<files, built>>)
     /\ UNCHANGED <<rows, accounts, temp, script, req, seen, body, first, sent, cleared,
                    leaked>>

----------------------------------------------------------------------------
(* createVPNUser and createOrphanVPNUser, as far as certificates go.       *)

CreateStep(c) ==
  CASE req[c].title = BadTitle                    -> "undoUser"
    [] Own(c) /\ req[c].title # BadTitle          -> "writeTemp"
    [] ~Own(c) /\ Titled(seen[c])                 -> "readTemplate"
    [] OTHER                                      -> "insert"

\* The user may be added although the reply does not come; nobody takes it back.
AddUser(c) ==
  LET n == req[c].holder
  IN /\ At(c, "addUser")
     /\ \/ /\ n \notin accounts /\ accounts' = accounts \union {n}
           /\ GoTo(c, CreateStep(c)) /\ UNCHANGED faults
        \/ n \in accounts /\ Answer(c, "taken") /\ UNCHANGED <<accounts, faults>>
        \/ /\ Fault /\ Answer(c, "error")
           /\ accounts' \in {accounts, accounts \union {n}}
     /\ UNCHANGED <<rows, files, temp, script, req, seen, body, history>>

Insert(c) ==
  LET n == req[c].holder
      new == [id |-> c, title |-> req[c].title,
              pass |-> IF Own(c) THEN c ELSE NoPass]
  IN /\ At(c, "insert")
     /\ \/ /\ rows[n] = NoRow /\ rows' = [rows EXCEPT ![n] = new]
           /\ GoTo(c, "assign") /\ UNCHANGED faults
        \/ rows[n] # NoRow /\ GiveUp(c) /\ UNCHANGED <<rows, faults>>
        \/ Fault /\ GiveUp(c) /\ UNCHANGED rows
     /\ UNCHANGED <<accounts, files, temp, script, req, seen, body, history>>

\* Whether a profile is assigned is a field of the request.
Assign(c) ==
  /\ At(c, "assign")
  /\ \/ Answer(c, "ok") /\ UNCHANGED faults
     \/ Fault /\ GoTo(c, "undoBoth")
  /\ UNCHANGED <<rows, accounts, files, temp, script, req, seen, body, history>>

\* The user is taken back, but not its file; an error is ignored.
UndoUser(c) ==
  /\ At(c, "undoUser") \/ At(c, "undoBoth")
  /\ \/ accounts' = accounts \ {req[c].holder} /\ UNCHANGED faults
     \/ Fault /\ UNCHANGED accounts
  /\ IF At(c, "undoBoth") THEN GoTo(c, "undoRow")
     ELSE Answer(c, IF req[c].title = BadTitle THEN "invalid" ELSE "error")
  /\ UNCHANGED <<rows, files, temp, script, req, seen, body, history>>

WithoutRow(n, id) ==
  IF rows[n] # NoRow /\ rows[n].id = id THEN [rows EXCEPT ![n] = NoRow] ELSE rows

UndoRow(c) ==
  /\ At(c, "undoRow")
  /\ \/ rows' = WithoutRow(req[c].holder, c) /\ UNCHANGED faults
     \/ Fault /\ UNCHANGED rows
  /\ Answer(c, "error")
  /\ UNCHANGED <<accounts, files, temp, script, req, seen, body, history>>

----------------------------------------------------------------------------
(* The columns, and the deletion of a user.                                *)

\* A patch changes the row with the id it has read, which may be gone; then it
\* does not find the row again.
SetCert(c, title, pass) ==
  LET h == req[c].holder
      there == rows[h] # NoRow /\ rows[h].id = seen[c].id
  IN \/ /\ there
        /\ rows' = [rows EXCEPT ![h] = [@ EXCEPT !.title = title, !.pass = pass]]
        /\ Answer(c, "ok") /\ UNCHANGED faults
     \/ ~there /\ Answer(c, "error") /\ UNCHANGED <<rows, faults>>
     \/ Fault /\ Answer(c, "error") /\ UNCHANGED rows

StoreCert(c) ==
  /\ At(c, "storeCert")
  /\ SetCert(c, req[c].title, c)
  /\ UNCHANGED <<accounts, files, temp, script, req, seen, body, history>>

\* The downloads that have found a title with the manager.
Checked(m) == {d \in Calls : At(d, "resolve") /\ Owner[req[d].holder] = m}

\* The file stays as it is.
ClearCert(c) ==
  /\ At(c, "clearCert")
  /\ SetCert(c, NoTitle, NoPass)
  /\ cleared' = IF rows' = rows THEN cleared
                ELSE cleared \union Checked(req[c].holder)
  /\ UNCHANGED <<accounts, files, temp, script, req, seen, body, first, sent, built,
                 leaked>>

\* deleteVPNUser: an error of the router is ignored, the file stays.
RemoveUser(c) ==
  /\ At(c, "removeUser")
  /\ \/ accounts' = accounts \ {req[c].holder} /\ UNCHANGED faults
     \/ Fault /\ UNCHANGED accounts
  /\ GoTo(c, "deleteRow")
  /\ UNCHANGED <<rows, files, temp, script, req, seen, body, history>>

DeleteRow(c) ==
  /\ At(c, "deleteRow")
  /\ \/ /\ rows' = WithoutRow(req[c].holder, seen[c].id)
        /\ Answer(c, "ok") /\ UNCHANGED faults
     \/ Fault /\ Answer(c, "error") /\ UNCHANGED rows
  /\ UNCHANGED <<accounts, files, temp, script, req, seen, body, history>>

----------------------------------------------------------------------------
(* writeOvpnDownload.                                                      *)

\* Steps that only read.
ReadOnly == UNCHANGED <<rows, accounts, files, temp, script, req, seen, body, history>>

\* resolveOpenVPN finds a title in the row that the call has read, or asks for
\* the manager.
GetUser(c) ==
  LET n == req[c].holder
      bare == ~Titled(seen[c]) /\ Owner[n] = NoManager
  IN /\ At(c, "getUser")
     /\ \/ n \notin accounts /\ Answer(c, "missing") /\ UNCHANGED faults
        \/ n \in accounts /\ Titled(seen[c]) /\ GoTo(c, "readFile") /\ UNCHANGED faults
        \/ /\ n \in accounts /\ bare /\ n \in Blank
           /\ Answer(c, "noPassword") /\ UNCHANGED faults
        \/ /\ n \in accounts /\ bare /\ n \notin Blank
           /\ Answer(c, "legacy") /\ UNCHANGED faults
        \/ /\ n \in accounts /\ ~bare /\ ~Titled(seen[c])
           /\ GoTo(c, "check") /\ UNCHANGED faults
        \/ Fault /\ Answer(c, "missing")
     /\ ReadOnly

\* Mutant of Refused: the password is not looked at.
RefusedNever(n) == FALSE
\* Without a certificate the file needs the password.
Refused(n) == n \in Blank /\ ~Titled(rows[Owner[n]])

Check(c) ==
  LET n == req[c].holder
  IN /\ At(c, "check")
     /\ \/ Refused(n) /\ Answer(c, "noPassword") /\ UNCHANGED faults
        \/ ~Refused(n) /\ GoTo(c, "resolve") /\ UNCHANGED faults
        \/ Fault /\ Answer(c, "error")
     /\ ReadOnly

\* ovpnBodyForMeta resolves again.
Resolve(c) ==
  LET owner == rows[Owner[req[c].holder]]
  IN /\ At(c, "resolve")
     /\ \/ Titled(owner) /\ GoTo(c, "readFile") /\ UNCHANGED faults
        \/ ~Titled(owner) /\ Answer(c, "legacy") /\ UNCHANGED faults
        \/ Fault /\ Answer(c, "error")
     /\ ReadOnly

ReadFile(c) ==
  /\ At(c, "readFile")
  /\ \/ files[req[c].holder] # NoFile /\ Answer(c, "file") /\ UNCHANGED faults
     \/ files[req[c].holder] = NoFile /\ Answer(c, "noFile") /\ UNCHANGED faults
     \/ Fault /\ Answer(c, "error")
  /\ ReadOnly

\* The panel stops and starts again: calls end where they are.
Crash ==
  /\ Fault /\ Served # {}
  /\ pc' = [c \in Calls |-> IF c \in Served THEN "done" ELSE pc[c]]
  /\ reply' = [c \in Calls |-> IF c \in Served THEN "lost" ELSE reply[c]]
  /\ leaked' = leaked \union {t \in Titles : temp[t] # NoPass}
  /\ UNCHANGED <<rows, accounts, files, temp, script, req, seen, body, first, sent, built,
                 cleared>>

----------------------------------------------------------------------------
\* A title that a holder has was provisioned, and a user's file made of it.  The
\* file of a manager's user is there if the user is newer than the title.
Provisioned(f, h) == f[h] # NoRow /\ f[h].title # NoTitle

InitFiles ==
  \E made \in SUBSET Names :
    /\ built = [n \in Names |->
         CASE Provisioned(rows, n) -> rows[n].pass
           [] /\ ~Provisioned(rows, n) /\ n \in made /\ Owner[n] # NoManager
              /\ Provisioned(rows, Owner[n]) -> rows[Owner[n]].pass
           [] OTHER -> NoPass]
    /\ files = [x \in Files |->
         LET holders == {h \in Holders :
               /\ Provisioned(rows, h)
               /\ \/ rows[h].title = x
                  \/ x \in Names /\ built[x] = rows[h].pass}
         IN IF holders = {} THEN NoFile
            ELSE LET h == CHOOSE h \in holders : TRUE
                 IN [title |-> rows[h].title, key |-> rows[h].pass]]

Init ==
  /\ rows \in Founders
  /\ accounts = {n \in Names : rows[n] # NoRow}
  /\ InitFiles
  /\ temp = [t \in Titles |-> NoPass] /\ global = NoPass /\ late = {}
  /\ pc = [c \in Calls |-> "idle"]
  /\ req = [c \in Calls |-> NoRequest]
  /\ reply = [c \in Calls |-> NoReply]
  /\ seen = [c \in Calls |-> NoRow]
  /\ body = [c \in Calls |-> NoFile]
  /\ first = Keys /\ sent = [c \in Calls |-> NoPass]
  /\ cleared = {} /\ leaked = {} /\ faults = 0

Provision(c) == WriteTemp(c) \/ Import(c) \/ RemoveTemp(c)
Ensure(c)    == ReadTemplate(c) \/ WriteFile(c)
Create(c)    == AddUser(c) \/ Insert(c) \/ Assign(c) \/ UndoUser(c) \/ UndoRow(c)
Change(c)    == StoreCert(c) \/ ClearCert(c) \/ RemoveUser(c) \/ DeleteRow(c)
Download(c)  == GetUser(c) \/ Check(c) \/ Resolve(c) \/ ReadFile(c)

AllAnswered == (\A c \in Calls : pc[c] = "done") /\ UNCHANGED vars

Next ==
  \/ \E c \in Calls :
       Start(c) \/ Provision(c) \/ Ensure(c) \/ Create(c) \/ Change(c) \/ Download(c)
  \/ \E t \in Titles : Finish(t)
  \/ Crash \/ AllAnswered

Spec == Init /\ [][Next]_vars

----------------------------------------------------------------------------
(* Properties.                                                             *)

\* resolveOpenVPN: the row whose title and passphrase a user gets, a row without a
\* title if there is none.
Source(n) ==
  IF Titled(rows[n]) \/ Owner[n] = NoManager THEN rows[n] ELSE rows[Owner[n]]

\* The script that a call ran was given the passphrase of the call.
RanWithOwn(p) == p \in Calls => sent[p] = p

\* The passphrase that a user is given opens the key in its file, if it was written
\* for a title that nobody had exported and the script was run with it, the file was
\* last made for it, and no user has the title for a name (cert.go;
\* certificates.md:23).
KeyOpens ==
  \A n \in Names :
    LET r == Source(n)
    IN /\ Titled(r) /\ r.title \notin Names
       /\ built[n] = r.pass /\ r.pass \in first /\ RanWithOwn(r.pass)
       => files[n] = [title |-> r.title, key |-> r.pass]

\* A user with a title of its own has a file, whatever has failed: the columns come
\* last (setupVPNCertificates, provisionUserCertificate).
TitledHasFile ==
  \A n \in Names : Titled(rows[n]) => files[n] # NoFile

\* The passphrase in the temporary file does not stay on the router, unless the panel
\* stopped, or the file was written or not removed by a command that failed, and
\* nobody has removed it since (files.go, GenerateCertificate).
TempRemoved ==
  \A t \in Titles \ leaked : temp[t] # NoPass =>
    \E c \in Calls : pc[c] \in {"import", "removeTemp", "dropTemp"} /\ Title(c) = t

\* A file with the password filled in is not made without the password, unless the
\* manager's title was cleared between the two reads (cert.go, writeOvpnDownload).
NoBlankProfile ==
  \A c \in Calls : reply[c] = "legacy" /\ req[c].holder \in Blank => c \in cleared
=============================================================================

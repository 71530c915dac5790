--------------------------- MODULE MCCertificates ---------------------------
(***************************************************************************)
(* Instances of Certificates for TLC.  User u belongs to manager m; v and  *)
(* t2 belong to nobody, and t2 is a title as well.                         *)
(***************************************************************************)
EXTENDS Certificates, TLC

Symmetric == Permutations(Calls)

CONSTANTS u, v, m, t1, t2, t3, i1, i2, k1, k2, k3

Owners == [n \in Names |-> IF n = u THEN m ELSE NoManager]

\* A script run by hand has left a .pass file for t3.
PassFiles == [t \in Titles |-> IF t = t3 THEN k3 ELSE NoPass]

Bare(id) == [id |-> id, title |-> NoTitle, pass |-> NoPass]
With(id, title, key) == [id |-> id, title |-> title, pass |-> key]
Table(ofM, ofU) ==
  [h \in Holders |-> CASE h = m -> ofM [] h = u -> ofU [] OTHER -> NoRow]

\* The manager has a title or not, its user is there or not, with or without a
\* title.
SomeFounders ==
  {Table(With(i1, t1, k1), Bare(i2)), Table(Bare(i1), Bare(i2)),
   Table(With(i1, t1, k1), NoRow), Table(Bare(i1), With(i2, t1, k2))}

Ask(op, holder, title) == [op |-> op, holder |-> holder, title |-> title]

SomeRequests ==
  {Ask("create", u, NoTitle), Ask("create", v, t1), Ask("create", v, NoTitle),
   Ask("create", v, BadTitle), Ask("create", t2, NoTitle),
   Ask("patch", u, t1), Ask("patch", u, t2), Ask("patch", u, t3),
   Ask("patch", u, NoTitle), Ask("patch", u, BadTitle),
   Ask("patch", m, t1), Ask("patch", m, NoTitle), Ask("delete", u, NoTitle)}
  \union {Ask("download", n, NoTitle) : n \in Names}
=============================================================================

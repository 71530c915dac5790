--------------------------- MODULE MCManagerAdmin ---------------------------
(***************************************************************************)
(* Instances of ManagerAdmin for TLC.  The letters are a, its capital A    *)
(* and the separator s, which a slug may contain as well.                  *)
(***************************************************************************)
EXTENDS ManagerAdmin, TLC

Symmetric == Permutations(Calls)

CONSTANTS a, A, s, pw1, pw2, d, t1

Fold == [l \in Letters |-> IF l = A THEN a ELSE l]
Separator == <<s>>

Manager(user, slug, quota) ==
  [user |-> user, pw |-> pw1, name |-> d, slug |-> slug, quota |-> quota,
   active |-> TRUE, cert |-> NoTitle]

\* One manager, or two, the second of them disabled.
First1 == Manager(<<a>>, <<a>>, 2)
OneOrTwo == {<<First1>>,
             <<First1, [Manager(<<s>>, <<s>>, 1) EXCEPT !.active = FALSE]>>}

\* Names of one, two and none of the patterns, with and without the comment of a
\* manager.
SomeAccounts ==
  [name : {<<a, s, s, a>>, <<s, s, s, a>>, <<A, s, a>>}, comment : {{}, {<<a>>}}]

\* The first manager has used some or all of its quota; accounts with the pattern
\* of the third are there before it.
SomeUsages ==
  {[i \in Ids |-> CASE i = 1 -> n [] i = 2 -> 0 [] OTHER -> 2] : n \in {1, 2}}

NoSetting == [user |-> Absent, name |-> Absent, quota |-> Absent,
              active |-> Absent, pw |-> Absent]
AnyCall == [op |-> "login", id |-> 1, row |-> First1, set |-> NoSetting,
        title |-> Absent, current |-> pw1]

Create(user, slug, title) ==
  [AnyCall EXCEPT !.op = "create", !.row = Manager(user, slug, 1), !.title = title]
Patch(i, set, title) ==
  [AnyCall EXCEPT !.op = "patch", !.id = i, !.set = set, !.title = title]
Password(i, old, new) ==
  [AnyCall EXCEPT !.op = "password", !.id = i, !.set = [NoSetting EXCEPT !.pw = new],
              !.current = old]
PatchMe(i) == [AnyCall EXCEPT !.op = "patchMe", !.id = i,
                          !.set = [NoSetting EXCEPT !.name = d]]
LogIn(user, pw) == [AnyCall EXCEPT !.row = [First1 EXCEPT !.user = user, !.pw = pw]]

AllRequests ==
  {Create(<<s, s>>, <<a, s>>, BadTitle), Create(<<s, s>>, <<s, s>>, t1),
   Create(<<a, a>>, <<s>>, NoTitle), Create(<<A>>, <<A, s>>, Absent)}
  \union
  {Patch(1, [NoSetting EXCEPT !.quota = 1, !.user = <<A>>], t1),
   Patch(1, [NoSetting EXCEPT !.quota = 0], BadTitle),
   Patch(1, [NoSetting EXCEPT !.quota = 0], Absent),
   Patch(1, [NoSetting EXCEPT !.active = FALSE, !.pw = pw2], NoTitle),
   Patch(1, [NoSetting EXCEPT !.user = <<>>], t1),
   Patch(1, [NoSetting EXCEPT !.quota = 2, !.pw = BadPassword], t1),
   Patch(2, [NoSetting EXCEPT !.user = <<A>>, !.active = TRUE], Absent)}
  \union
  {PatchMe(1), Password(1, pw1, pw2), Password(1, pw2, pw1),
   LogIn(<<A>>, pw1), LogIn(<<s>>, pw1)}
=============================================================================

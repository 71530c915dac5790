--------------------------- MODULE OwnerRegistry ---------------------------
(***************************************************************************)
(* Whose an account of the router is (backend/internal/owner/owner.go):    *)
(* the manager whose slug and separator begin its name, or else the one    *)
(* whose token panel=slug is in its comment.                               *)
(*                                                                         *)
(* Names and slugs are sequences of letters.  A registry is the sequence   *)
(* of the slugs of the managers in the order of their ids, the ids being   *)
(* 1, 2, ...; 0 stands for nobody.  A comment is the set of the slugs of   *)
(* its tokens: the parts between '|' are compared as a whole.              *)
(***************************************************************************)
EXTENDS Naturals, Sequences, SequencesExt

CONSTANTS
  Letters,  \* characters of names and slugs
  Sep,      \* USERNAME_PREFIX_SEPARATOR
  Folded    \* letter to letter, as COLLATE NOCASE compares them

ASSUME RegistryAssumption ==
  /\ Sep \in Seq(Letters)
  /\ Folded \in [Letters -> Letters]

Text == Seq(Letters)

\* What a UNIQUE column of SQLite takes for the same text.
SameText(s, t) ==
  Len(s) = Len(t) /\ \A i \in 1..Len(s) : Folded[s[i]] = Folded[t[i]]

Pattern(slug) == slug \o Sep

\* Mutant of SlugOverlaps: only equal slugs.
OverlapsEqual(slug, existing) == \E e \in existing : slug = e
\* The separator plays no part in the comparison, nor does the case.
SlugOverlaps(slug, existing) ==
  \E e \in existing : IsPrefix(e, slug) \/ IsPrefix(slug, e)

ByPattern(slugs, name) ==
  {i \in DOMAIN slugs : IsPrefix(Pattern(slugs[i]), name)}

ByToken(slugs, comment) == {i \in DOMAIN slugs : slugs[i] \in comment}

\* Mutant of First: the latest manager.
Latest(ids) == CHOOSE i \in ids \union {0} : \A j \in ids : j <= i
\* The loops go through the managers by id and stop at the first match.
First(ids) ==
  CHOOSE i \in ids \union {0} : IF ids = {} THEN i = 0
                                ELSE i \in ids /\ \A j \in ids : i <= j

\* Registry.Resolve: the name comes before the comment.
Resolve(slugs, name, comment) ==
  IF ByPattern(slugs, name) # {} THEN First(ByPattern(slugs, name))
                                 ELSE First(ByToken(slugs, comment))

\* Registry.OwnerMismatch: name and comment name different managers.
OwnerMismatch(slugs, name, comment) ==
  /\ ByPattern(slugs, name) # {} /\ ByToken(slugs, comment) # {}
  /\ First(ByPattern(slugs, name)) # First(ByToken(slugs, comment))
=============================================================================

------------------------ MODULE OwnerRegistryProofs ------------------------
(***************************************************************************)
(* What the overlap check of slugs is for.                                 *)
(***************************************************************************)
EXTENDS OwnerRegistry, TLAPS

\* Two texts that begin the same text: the shorter one begins the longer one.
LEMMA PrefixesComparable ==
  ASSUME NEW p \in Text, NEW q \in Text, NEW s \in Text,
         IsPrefix(p, s), IsPrefix(q, s)
  PROVE  IsPrefix(p, q) \/ IsPrefix(q, p)
<1>1. ASSUME NEW x \in Text, NEW y \in Text,
             IsPrefix(x, s), IsPrefix(y, s), Len(x) <= Len(y)
      PROVE  IsPrefix(x, y)
  BY <1>1 DEF IsPrefix, Text
<1> QED BY <1>1 DEF Text

\* A slug begins its pattern, so whatever the pattern begins.
LEMMA PatternBegins ==
  ASSUME NEW slug \in Text, NEW name \in Text, IsPrefix(Pattern(slug), name)
  PROVE  IsPrefix(slug, name)
BY RegistryAssumption DEF Pattern, IsPrefix, Text

\* With slugs of which none begins another a name has at most one manager by
\* its pattern, so that Resolve does not depend on the order of the managers
\* (owner.go, Resolve and SlugOverlaps).
THEOREM OneManagerPerName ==
  ASSUME NEW slugs \in Seq(Text), NEW name \in Text,
         NEW i \in ByPattern(slugs, name), NEW j \in ByPattern(slugs, name),
         i # j
  PROVE  SlugOverlaps(slugs[i], {slugs[j]})
<1>1. slugs[i] \in Text /\ slugs[j] \in Text
  BY DEF ByPattern
<1>2. IsPrefix(slugs[i], name) /\ IsPrefix(slugs[j], name)
  BY <1>1, PatternBegins DEF ByPattern
<1> QED BY <1>1, <1>2, PrefixesComparable DEF SlugOverlaps
=============================================================================

------------------------ MODULE RouteLocationsProofs ------------------------
(***************************************************************************)
(* Compaction does not change what nginx answers, for every set of         *)
(* locations and every URI that nginx redirects to its slash neither        *)
(* before nor after.                                                       *)
(***************************************************************************)
EXTENDS RouteLocations, TLAPS, WellFoundedInduction

Paths == Seq(Segments)

\* Two locations that both hit a URI overlap.
LEMMA HittingOverlaps ==
    ASSUME NEW a, NEW b, IsLocation(a), IsLocation(b), NEW u \in Paths,
           Hits(a, u), Hits(b, u)
    PROVE  Overlap(a, b)
<1>1. CASE a.exact
  <2>1. a.path = u
    BY <1>1 DEF Hits
  <2> QED BY <1>1, <2>1 DEF Overlap
<1>3. CASE b.exact
  <2>1. b.path = u
    BY <1>3 DEF Hits
  <2> QED BY <1>3, <2>1 DEF Overlap
<1>2. CASE ~ a.exact /\ ~ b.exact
  <2>1. Len(a.path) \in Nat /\ Len(b.path) \in Nat
    BY DEF IsLocation
  <2>5. Under(a.path, u) /\ Under(b.path, u)
    BY <1>2 DEF Hits
  <2>2. CASE Len(a.path) < Len(b.path)
    <3>1. Under(a.path, b.path)
      BY <2>1, <2>2, <2>5 DEF Under
    <3> QED BY <1>2, <3>1 DEF Overlap
  <2>3. CASE Len(b.path) < Len(a.path)
    <3>1. Under(b.path, a.path)
      BY <2>1, <2>3, <2>5 DEF Under
    <3> QED BY <1>2, <3>1 DEF Overlap
  <2>4. CASE Len(a.path) = Len(b.path)
    <3>1. \A i \in 1 .. Len(a.path) : a.path[i] = b.path[i]
      BY <2>1, <2>4, <2>5 DEF Under
    <3>2. a.path = b.path
      BY <3>1, <2>4 DEF IsLocation
    <3> QED BY <1>2, <3>2 DEF Overlap
  <2> QED BY <2>1, <2>2, <2>3, <2>4
<1> QED BY <1>1, <1>2, <1>3

\* A location within another one overlaps whatever the inner one overlaps.
Within(w, l) ==
    \/ w.exact = l.exact /\ w.path = l.path
    \/ ~ l.exact /\ ~ w.exact /\ Under(l.path, w.path)

LEMMA UnderIsTransitive ==
    ASSUME NEW p \in Paths, NEW q \in Paths, NEW r \in Paths,
           Under(p, q), Under(q, r)
    PROVE  Under(p, r)
<1>1. Len(p) \in Nat /\ Len(q) \in Nat /\ Len(r) \in Nat
  BY DEF Paths
<1> QED BY <1>1 DEF Under, Paths

LEMMA WithinOverlaps ==
    ASSUME NEW l, NEW w, NEW k, IsLocation(l), IsLocation(w), IsLocation(k),
           Within(w, l), Overlap(w, k)
    PROVE  Overlap(l, k)
<1>0. l.path \in Paths /\ w.path \in Paths /\ k.path \in Paths
  BY DEF IsLocation, Paths
<1>1. CASE w.exact = l.exact /\ w.path = l.path
  BY <1>1 DEF Overlap, Hits
<1>2. CASE ~ l.exact /\ ~ w.exact /\ Under(l.path, w.path)
  <2>1. CASE k.exact
    <3>1. Under(w.path, k.path)
      BY <1>2, <2>1 DEF Overlap, Hits
    <3>2. Under(l.path, k.path)
      BY <1>0, <1>2, <3>1, UnderIsTransitive
    <3> QED BY <1>2, <2>1, <3>2 DEF Overlap, Hits
  <2>2. CASE ~ k.exact
    <3>1. \/ w.path = k.path \/ Under(w.path, k.path) \/ Under(k.path, w.path)
      BY <1>2, <2>2 DEF Overlap
    <3>2. CASE w.path = k.path \/ Under(w.path, k.path)
      BY <1>0, <1>2, <2>2, <3>2, UnderIsTransitive DEF Overlap
    <3>3. CASE Under(k.path, w.path)
      BY <1>0, <1>2, <2>2, <3>3, HittingOverlaps DEF Hits
    <3> QED BY <3>1, <3>2, <3>3
  <2> QED BY <2>1, <2>2 DEF IsLocation
<1> QED BY <1>1, <1>2 DEF Within

----------------------------------------------------------------------------
(* The groups of one server.                                                *)

AreLocations(L) == \A l \in L : IsLocation(l)

LEMMA MembersOfRegexes ==
    ASSUME NEW L, NEW g \in Regexes(L)
    PROVE  \E p : g = Safe(L, p) /\ g \subseteq Group(L, p) /\ g \subseteq L
BY DEF Regexes, Safe, Group

\* What a regex takes and what overlaps it have the same proxy.
LEMMA OverlapsStayInGroup ==
    ASSUME NEW L, NEW p, NEW l \in Safe(L, p), NEW m \in L,
           ~ IsDefault(m), Overlap(l, m)
    PROVE  m \in Group(L, p)
BY DEF Safe

\* A location that lies within a member of a regex is a member as well.
LEMMA SafeIsClosed ==
    ASSUME NEW L, AreLocations(L), NEW p, NEW l \in Safe(L, p),
           NEW w \in Group(L, p), Within(w, l)
    PROVE  w \in Safe(L, p)
<1>1. SUFFICES ASSUME NEW k \in L \ Group(L, p), ~ IsDefault(k), Overlap(w, k)
               PROVE  FALSE
  BY DEF Safe
<1>2. l \in L /\ w \in L
  BY DEF Safe, Group
<1>3. Overlap(l, k)
  BY <1>1, <1>2, WithinOverlaps DEF AreLocations
<1> QED BY <1>1, <1>3, OverlapsStayInGroup

\* Regexes with a member that hits the same URI are one and the same, and
\* everything else that hits it without being the default is in its group.
LEMMA HitsStayInGroup ==
    ASSUME NEW L, AreLocations(L), NEW u \in Paths, NEW p,
           NEW l \in Safe(L, p), Hits(l, u),
           NEW m \in L, Hits(m, u), ~ IsDefault(m)
    PROVE  m \in Group(L, p)
<1>1. l \in L
  BY DEF Safe, Group
<1>2. Overlap(l, m)
  BY <1>1, HittingOverlaps DEF AreLocations
<1> QED BY <1>2, OverlapsStayInGroup

LEMMA OneRegexMatches ==
    ASSUME NEW L, AreLocations(L), NEW u \in Paths,
           NEW p, NEW l \in Safe(L, p), Hits(l, u), Safe(L, p) \in Regexes(L)
    PROVE  Matched(Compact(L), u) = {Safe(L, p)}
<1>1. Safe(L, p) \in Matched(Compact(L), u)
  BY DEF Matched, Compact
<1>2. ASSUME NEW g \in Matched(Compact(L), u)
      PROVE  g = Safe(L, p)
  <2>1. g \in Regexes(L)
    BY DEF Matched, Compact
  <2>2. PICK q : g = Safe(L, q) /\ g \subseteq Group(L, q) /\ g \subseteq L
    BY <2>1, MembersOfRegexes
  <2>3. PICK m \in g : Hits(m, u)
    BY DEF Matched
  <2>4. ~ IsDefault(m) /\ m.proxy = q
    BY <2>2 DEF Group, IsRoot, IsDefault
  <2>5. m \in Group(L, p)
    BY <2>2, <2>3, <2>4, HitsStayInGroup
  <2>6. q = p
    BY <2>4, <2>5 DEF Group
  <2> QED BY <2>2, <2>6
<1> QED BY <1>1, <1>2

----------------------------------------------------------------------------
(* Without a redirect, by the kind of the winner.                           *)

LEMMA KeptAreLocations ==
    ASSUME NEW L
    PROVE  Compact(L).locations \subseteq L /\ Compact(L).regexes = Regexes(L)
BY DEF Compact

\* The exact locations of one path are merged together or not at all.
LEMMA ExactsStayTogether ==
    ASSUME NEW L, AreLocations(L), NEW u \in Paths,
           NEW g \in Regexes(L), NEW s \in g, s.exact, s.path = u,
           NEW e \in L, e.exact, e.path = u
    PROVE  e \in g
<1>1. PICK p : g = Safe(L, p) /\ g \subseteq Group(L, p) /\ g \subseteq L
  BY MembersOfRegexes
<1>2. Hits(s, u) /\ Hits(e, u) /\ ~ IsDefault(e)
  BY DEF Hits, IsDefault
<1>3. e \in Group(L, p)
  BY <1>1, <1>2, HitsStayInGroup
<1>4. Within(e, s)
  BY DEF Within, AreLocations, IsLocation
<1> QED BY <1>1, <1>3, <1>4, SafeIsClosed

LEMMA ExactAnswers ==
    ASSUME NEW L, AreLocations(L), NEW u \in Paths,
           NEW e \in L, e.exact, e.path = u,
           ~ Redirected(Compact(L), u)
    PROVE  Answers(Compact(L), u) = {Answer(l) : l \in {x \in L : x.exact /\ x.path = u}}
<1> DEFINE E == {x \in L : x.exact /\ x.path = u}
<1>2. CASE \E g \in Regexes(L) : e \in g
  <2>1. PICK g \in Regexes(L) : e \in g
    BY <1>2
  <2>2. PICK p : g = Safe(L, p) /\ g \subseteq Group(L, p) /\ g \subseteq L
    BY <2>1, MembersOfRegexes
  <2>3. E \subseteq g
    BY <2>1, ExactsStayTogether
  <2>4. Exacts(Compact(L), u) = {}
    BY <2>1, <2>3 DEF Exacts, Compact
  <2>8. ~ Redirected(Compact(L), u)
    OBVIOUS
  <2>5. Hits(e, u)
    BY DEF Hits
  <2>6. Matched(Compact(L), u) = {g}
    BY <2>1, <2>2, <2>5, OneRegexMatches
  <2>7. First({m \in g : Hits(m, u)}) = E
    <3> DEFINE H == {m \in g : Hits(m, u)}
    <3>1. E \subseteq H
      BY <2>3 DEF Hits
    <3>2. \A m \in H : m.exact => m \in E
      BY <2>2 DEF Hits
    <3>3. \A m \in H, x \in E : Ahead(m, x) => FALSE
      <4> SUFFICES ASSUME NEW m \in H, NEW x \in E, Ahead(m, x) PROVE FALSE
        OBVIOUS
      <4>1. m.exact
        BY DEF Ahead
      <4>2. m.path = u /\ x.path = u
        BY <4>1, <3>2
      <4>3. Len(u) \in Nat
        BY DEF Paths
      <4> QED BY <4>2, <4>3 DEF Ahead
    <3>4. \A m \in H : ~ m.exact => Ahead(e, m)
      BY DEF Ahead
    <3>5. e \in H
      BY <3>1
    <3> QED BY <3>1, <3>2, <3>3, <3>4, <3>5 DEF First
  <2> QED BY <2>4, <2>6, <2>7, <2>8 DEF Answers
<1>3. CASE ~ \E g \in Regexes(L) : e \in g
  <2>1. \A x \in E : ~ \E g \in Regexes(L) : x \in g
    BY <1>3, ExactsStayTogether
  <2>2. Exacts(Compact(L), u) = E
    BY <2>1 DEF Exacts, Compact
  <2>3. e \in E
    OBVIOUS
  <2> QED BY <2>2, <2>3 DEF Answers
<1> QED BY <1>2, <1>3

\* Of two prefixes that hit one URI the longer is within the shorter.
LEMMA LongerIsWithin ==
    ASSUME NEW a, NEW b, IsLocation(a), IsLocation(b), NEW u \in Paths,
           ~ a.exact, ~ b.exact, Hits(a, u), Hits(b, u),
           Len(a.path) <= Len(b.path)
    PROVE  Within(b, a)
<1>1. Len(a.path) \in Nat /\ Len(b.path) \in Nat
  BY DEF IsLocation
<1>2. Under(a.path, u) /\ Under(b.path, u)
  BY DEF Hits
<1>3. CASE Len(a.path) < Len(b.path)
  <2>1. Under(a.path, b.path)
    BY <1>1, <1>2, <1>3 DEF Under
  <2> QED BY <2>1 DEF Within
<1>4. CASE Len(a.path) = Len(b.path)
  <2>1. \A i \in 1 .. Len(a.path) : a.path[i] = b.path[i]
    BY <1>1, <1>2, <1>4 DEF Under
  <2>2. a.path = b.path
    BY <1>4, <2>1 DEF IsLocation
  <2>3. a.exact = b.exact
    BY DEF IsLocation
  <2> QED BY <2>2, <2>3 DEF Within
<1> QED BY <1>1, <1>3, <1>4

\* The longest prefix of all is the longest in the regex that matches.
LEMMA RegexHasLongest ==
    ASSUME NEW L, AreLocations(L), NEW u \in Paths,
           \A x \in L : ~ (x.exact /\ x.path = u),
           NEW g \in Regexes(L), NEW l \in g, Hits(l, u)
    PROVE  First({m \in g : Hits(m, u)}) = First({m \in L : Hits(m, u)})
<1> DEFINE G == {m \in g : Hits(m, u)}
           A == {m \in L : Hits(m, u)}
<1>1. PICK p : g = Safe(L, p) /\ g \subseteq Group(L, p) /\ g \subseteq L
  BY MembersOfRegexes
<1>2. \A m \in A : ~ m.exact /\ IsLocation(m) /\ Len(m.path) \in Nat
  BY DEF Hits, AreLocations, IsLocation
<1>3. \A m \in A, x \in A : Ahead(m, x) <=> Len(m.path) > Len(x.path)
  BY <1>2 DEF Ahead, IsLocation
<1>4. ASSUME NEW x \in G, NEW m \in A, Len(m.path) >= Len(x.path)
      PROVE  m \in G
  <2>1. ~ IsDefault(m)
    <3>1. x.path # <<>> /\ IsLocation(x)
      BY <1>1, <1>2 DEF Group, IsRoot
    <3>2. Len(x.path) > 0
      BY <3>1 DEF IsLocation
    <3> QED BY <1>2, <1>4, <3>2 DEF IsDefault
  <2>2. m \in Group(L, p)
    BY <1>1, <2>1, HitsStayInGroup
  <2>3. Within(m, x)
    BY <1>1, <1>2, <1>4, LongerIsWithin
  <2> QED BY <1>1, <2>2, <2>3, SafeIsClosed
<1>5. G \subseteq A
  BY <1>1
<1>6. ASSUME NEW x \in First(G)
      PROVE  x \in First(A)
  <2>1. x \in G /\ \A m \in G : ~ Ahead(m, x)
    BY DEF First
  <2>2. SUFFICES ASSUME NEW m \in A, Ahead(m, x) PROVE FALSE
    BY <1>5, <2>1 DEF First
  <2>3. Len(m.path) >= Len(x.path)
    BY <1>2, <1>3, <1>5, <2>1, <2>2
  <2> QED BY <1>4, <2>1, <2>2, <2>3
<1>7. ASSUME NEW x \in First(A)
      PROVE  x \in First(G)
  <2>1. x \in A /\ \A m \in A : ~ Ahead(m, x)
    BY DEF First
  <2>2. l \in G /\ l \in A
    BY <1>5
  <2>3. Len(x.path) >= Len(l.path)
    BY <1>2, <1>3, <2>1, <2>2
  <2>4. x \in G
    BY <1>4, <2>1, <2>2, <2>3
  <2> QED BY <1>5, <2>1, <2>4 DEF First
<1> QED BY <1>6, <1>7

LEMMA PrefixAnswers ==
    ASSUME NEW L, AreLocations(L), NEW u \in Paths,
           \A x \in L : ~ (x.exact /\ x.path = u),
           ~ Redirected(Compact(L), u)
    PROVE  Answers(Compact(L), u) = {Answer(l) : l \in First({m \in L : Hits(m, u)})}
<1>1. ~ Redirected(Compact(L), u) /\ Exacts(Compact(L), u) = {}
  BY KeptAreLocations DEF Exacts
<1>2. CASE \E g \in Regexes(L) : \E l \in g : Hits(l, u)
  <2>1. PICK g \in Regexes(L) : \E l \in g : Hits(l, u)
    BY <1>2
  <2>2. PICK l \in g : Hits(l, u)
    BY <2>1
  <2>3. PICK p : g = Safe(L, p) /\ g \subseteq Group(L, p) /\ g \subseteq L
    BY MembersOfRegexes
  <2>4. Matched(Compact(L), u) = {g}
    BY <2>2, <2>3, OneRegexMatches
  <2>5. First({m \in g : Hits(m, u)}) = First({m \in L : Hits(m, u)})
    BY <2>2, RegexHasLongest
  <2> QED BY <1>1, <2>4, <2>5 DEF Answers
<1>3. CASE ~ \E g \in Regexes(L) : \E l \in g : Hits(l, u)
  <2>1. Matched(Compact(L), u) = {}
    BY <1>3 DEF Matched, Compact
  <2>2. {m \in Compact(L).locations : Hits(m, u)} = {m \in L : Hits(m, u)}
    BY <1>3 DEF Compact
  <2> QED BY <1>1, <2>1, <2>2 DEF Answers
<1> QED BY <1>2, <1>3

LEMMA LeastNatural ==
    ASSUME NEW S, S \subseteq Nat, S # {}
    PROVE  \E x \in S : \A y \in S : x <= y
<1> DEFINE Less == OpToRel(<, Nat)
<1>1. IsWellFoundedOn(Less, Nat)
  BY NatLessThanWellFounded
<1> HIDE DEF Less
<1>2. PICK x \in S : \A y \in S : <<y, x>> \notin Less
  BY <1>1, WFMin
<1>3. ASSUME NEW y \in S, y < x
      PROVE  FALSE
  <2>1. <<y, x>> \in Less
    BY <1>3 DEF Less, OpToRel
  <2> QED BY <1>2, <2>1
<1> QED BY <1>2, <1>3

\* Of the locations that hit a URI some come first.
LEMMA FirstExists ==
    ASSUME NEW S, AreLocations(S), S # {}, NEW u \in Paths, \A l \in S : Hits(l, u)
    PROVE  First(S) # {}
<1>1. \A l \in S : l.exact \in BOOLEAN /\ Len(l.path) \in Nat /\ l.path \in Paths
  BY DEF AreLocations, IsLocation, Paths
<1>2. Len(u) \in Nat
  BY DEF Paths
<1>3. CASE \E e \in S : e.exact
  <2>1. PICK e \in S : e.exact
    BY <1>3
  <2>2. \A l \in S : l.exact => l.path = u
    BY DEF Hits
  <2>3. ASSUME NEW l \in S
        PROVE  ~ Ahead(l, e)
    <3>1. CASE l.exact
      BY <1>2, <2>1, <2>2, <3>1 DEF Ahead
    <3>2. CASE ~ l.exact
      BY <2>1, <3>2 DEF Ahead
    <3> QED BY <3>1, <3>2
  <2> QED BY <2>1, <2>3 DEF First
<1>4. CASE \A e \in S : ~ e.exact
  <2> DEFINE Gap(l) == Len(u) - Len(l.path)
             Gaps == {Gap(l) : l \in S}
  <2>1. \A l \in S : Gap(l) \in Nat
    BY <1>1, <1>2, <1>4 DEF Hits, Under
  <2>2. Gaps \subseteq Nat /\ Gaps # {}
    BY <2>1
  <2>3. PICK x \in Gaps : \A y \in Gaps : x <= y
    <3> HIDE DEF Gaps
    <3> QED BY <2>2, LeastNatural
  <2>4. PICK l \in S : x = Gap(l)
    OBVIOUS
  <2>5. ASSUME NEW m \in S
        PROVE  ~ Ahead(m, l)
    <3>1. Gap(l) <= Gap(m)
      BY <2>3, <2>4
    <3>2. Len(m.path) <= Len(l.path)
      BY <1>1, <1>2, <3>1
    <3> QED BY <1>1, <1>4, <3>2 DEF Ahead
  <2> QED BY <2>5 DEF First
<1> QED BY <1>3, <1>4

\* Nginx's answer is that of the locations that come first.
LEMMA CompactAnswersFirst ==
    ASSUME NEW L, AreLocations(L), NEW u \in Paths, ~ Redirected(Compact(L), u)
    PROVE  Answers(Compact(L), u) = {Answer(l) : l \in First({m \in L : Hits(m, u)})}
<1> DEFINE H == {m \in L : Hits(m, u)}
           E == {x \in L : x.exact /\ x.path = u}
<1>0. Len(u) \in Nat
  BY DEF Paths
<1>1. CASE E # {}
  <2>1. PICK e \in L : e.exact /\ e.path = u
    BY <1>1
  <2>2. Answers(Compact(L), u) = {Answer(l) : l \in E}
    BY <2>1, ExactAnswers
  <2>3. \A x \in E : x \in H
    BY DEF Hits
  <2>4. \A x \in H : x.exact => x \in E
    BY DEF Hits
  <2>5. ASSUME NEW x \in E, NEW m \in H
        PROVE  ~ Ahead(m, x)
    <3>1. m.exact => m.path = u
      BY <2>4
    <3> QED BY <1>0, <3>1 DEF Ahead
  <2>6. ASSUME NEW x \in First(H)
        PROVE  x \in E
    <3>1. x \in H /\ ~ Ahead(e, x)
      BY <2>1, <2>3 DEF First
    <3>2. x.exact
      BY <2>1, <3>1 DEF Ahead
    <3> QED BY <2>4, <3>1, <3>2
  <2>7. First(H) = E
    BY <2>3, <2>5, <2>6 DEF First
  <2> QED BY <2>2, <2>7
<1>2. CASE E = {}
  BY <1>2, PrefixAnswers
<1> QED BY <1>1, <1>2

(* Compacting the locations of a server does not change what it answers:    *)
(* not the application, not the proof and not the way, for every URI that   *)
(* is redirected to its slash neither before nor after.                     *)
THEOREM CompactionKeepsAnswers ==
    ASSUME NEW L, AreLocations(L), NEW u \in Paths,
           ~ Redirected(Uncompacted(L), u), ~ Redirected(Compact(L), u)
    PROVE  Answers(Compact(L), u) = Answers(Uncompacted(L), u)
<1>1. CASE \E e \in L : e.exact /\ e.path = u
  <2>1. PICK e \in L : e.exact /\ e.path = u
    BY <1>1
  <2>2. Exacts(Uncompacted(L), u) = {x \in L : x.exact /\ x.path = u}
    BY DEF Exacts, Uncompacted
  <2>3. Answers(Uncompacted(L), u) = {Answer(l) : l \in {x \in L : x.exact /\ x.path = u}}
    BY <2>1, <2>2 DEF Answers
  <2> QED BY <2>1, <2>3, ExactAnswers
<1>2. CASE ~ \E e \in L : e.exact /\ e.path = u
  <2>3. ~ Redirected(Uncompacted(L), u)
    OBVIOUS
  <2>1. Exacts(Uncompacted(L), u) = {} /\ Matched(Uncompacted(L), u) = {}
    BY <1>2 DEF Exacts, Matched, Uncompacted
  <2>2. Answers(Uncompacted(L), u) = {Answer(l) : l \in First({m \in L : Hits(m, u)})}
    BY <2>1, <2>3 DEF Answers, Uncompacted
  <2> QED BY <1>2, <2>2, PrefixAnswers
<1> QED BY <1>1, <1>2
=============================================================================

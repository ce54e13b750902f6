------------------------- MODULE LinkSelectorProofs -------------------------
(* Theorems about the choice of links, for every set of links.              *)
EXTENDS LinkSelector, FiniteSetTheorems, SequenceTheorems, TLAPS

-----------------------------------------------------------------------------
(* ranked[0], ranked[1], ... lists every live link once.                    *)

(* The rank of a link is an index of the ranking. *)
LEMMA RankBounds ==
    ASSUME NEW S \in SUBSET Nat, IsFiniteSet(S), NEW l \in S
    PROVE  Rank(S, l) \in 0..(Cardinality(S) - 1)
<1> DEFINE B == {k \in S : k < l}
<1>1. B \in SUBSET S /\ l \notin B
  OBVIOUS
<1>2. /\ IsFiniteSet(B) /\ Cardinality(B) <= Cardinality(S)
      /\ Cardinality(S) = Cardinality(B) => S = B
  BY <1>1, FS_Subset
<1>3. Cardinality(B) \in Nat /\ Cardinality(S) \in Nat
  BY <1>2, FS_CardinalityType
<1>4. Cardinality(B) # Cardinality(S)
  BY <1>1, <1>2
<1>5. Rank(S, l) = Cardinality(B)
  BY DEF Rank
<1> QED
  BY <1>2, <1>3, <1>4, <1>5

(* A worse link has a higher rank. *)
LEMMA RankGrows ==
    ASSUME NEW S \in SUBSET Nat, IsFiniteSet(S), NEW k \in S, NEW l \in S, k < l
    PROVE  Rank(S, k) < Rank(S, l)
<1> DEFINE B == {j \in S : j < k}
           C == {j \in S : j < l}
<1>0. ~(k < k) /\ \A j \in S : j < k => j < l
  <2>1. \A j \in S : j \in Nat
    OBVIOUS
  <2> QED
    BY <2>1
<1>1. B \in SUBSET C /\ k \in C /\ k \notin B /\ C \in SUBSET S
  BY <1>0, Zenon
<1>2. IsFiniteSet(C)
  BY <1>1, FS_Subset
<1>3. /\ IsFiniteSet(B) /\ Cardinality(B) <= Cardinality(C)
      /\ Cardinality(C) = Cardinality(B) => C = B
  BY <1>1, <1>2, FS_Subset
<1>4. Cardinality(B) \in Nat /\ Cardinality(C) \in Nat
  BY <1>2, <1>3, FS_CardinalityType
<1>5. Rank(S, k) = Cardinality(B) /\ Rank(S, l) = Cardinality(C)
  BY DEF Rank
<1>6. Cardinality(B) # Cardinality(C)
  BY <1>1, <1>3
<1> QED
  BY <1>3, <1>4, <1>5, <1>6

(* Every index of the ranking holds one link: as many ranks as links, all   *)
(* different, leave no index free.                                          *)
LEMMA RankedIs ==
    ASSUME NEW S \in SUBSET Nat, IsFiniteSet(S), NEW i \in 0..(Cardinality(S) - 1)
    PROVE  Ranked(S, i) \in S /\ Rank(S, Ranked(S, i)) = i
<1> DEFINE n == Cardinality(S)
           T == 0..(n - 1)
           f == [l \in S |-> Rank(S, l)]
<1>1. n \in Nat /\ n > 0
  BY FS_CardinalityType
<1>2. f \in [S -> T]
  BY RankBounds
<1>3. \A k, l \in S : k # l => f[k] # f[l]
  <2> SUFFICES ASSUME NEW k \in S, NEW l \in S, k # l PROVE Rank(S, k) # Rank(S, l)
    BY <1>2
  <2>1. Rank(S, k) \in Nat /\ Rank(S, l) \in Nat
    BY <1>1, RankBounds
  <2>2. k < l \/ l < k
    OBVIOUS
  <2>3. CASE k < l
    BY <2>1, <2>3, RankGrows
  <2>4. CASE l < k
    BY <2>1, <2>4, RankGrows
  <2> QED
    BY <2>2, <2>3, <2>4
<1>4. f \in Injection(S, T)
  BY <1>2, <1>3 DEF Injection, IsInjective
<1>5. IsFiniteSet(T) /\ Cardinality(T) = n
  BY <1>1, FS_Interval
<1> HIDE DEF f, T, n
<1>6. f \in Surjection(S, T)
  BY <1>4, <1>5, FS_Injection DEF n
<1>7. \E l \in S : f[l] = i
  BY <1>6 DEF Surjection, T, n
<1>8. \E l \in S : Cardinality({k \in S : k < l}) = i
  BY <1>7 DEF f, Rank
<1> QED
  BY <1>8 DEF Ranked, Rank

-----------------------------------------------------------------------------
(* select().                                                                *)

(* The answer of WEIGHTED as a pair. *)
LEMMA PairOf ==
    ASSUME NEW S, NEW a \in S, NEW b \in S
    PROVE  <<a>> \o <<b>> = <<a, b>>
<1> DEFINE s == <<a>> \o <<b>>
           t == <<a, b>>
<1>1. s \in Seq(S) /\ Len(s) = 2 /\ s[1] = a /\ s[2] = b
  OBVIOUS
<1>2. t \in Seq(S) /\ Len(t) = 2 /\ t[1] = a /\ t[2] = b
  OBVIOUS
<1> HIDE DEF s, t
<1>3. \A i \in 1..2 : s[i] = t[i]
  BY <1>1, <1>2
<1>4. s = t
  BY <1>1, <1>2, <1>3, SeqEqual
<1> QED
  BY <1>4 DEF s, t

(* The live links are a finite set of numbers, and a count of them is one. *)
LEMMA LiveFacts ==
    ASSUME NEW S \in SUBSET Links
    PROVE  /\ S \in SUBSET Nat /\ IsFiniteSet(S) /\ Cardinality(S) \in Nat
           /\ S # {} => Cardinality(S) > 0
<1>1. S \in SUBSET Nat /\ IsFiniteSet(S)
  BY LinksAssumption, FS_Subset
<1>2. Cardinality(S) \in Nat /\ (Cardinality(S) = 0 <=> S = {})
  BY <1>1, FS_CardinalityType, FS_EmptySet
<1>3. S # {} => Cardinality(S) > 0
  BY <1>2
<1> QED
  BY <1>1, <1>2, <1>3

(* The primary is a live link, the fed-back one if that is live. *)
LEMMA PrimaryIs ==
    ASSUME NEW S \in SUBSET Links, S # {}, NEW want
    PROVE  /\ PrimaryIndex(S, want) \in 0..(Cardinality(S) - 1)
           /\ Ranked(S, PrimaryIndex(S, want)) \in S
           /\ want \in S => Ranked(S, PrimaryIndex(S, want)) = want
<1>1. PrimaryIndex(S, want) \in 0..(Cardinality(S) - 1)
  BY LiveFacts, RankBounds DEF PrimaryIndex
<1>2. /\ Ranked(S, PrimaryIndex(S, want)) \in S
      /\ Rank(S, Ranked(S, PrimaryIndex(S, want))) = PrimaryIndex(S, want)
  BY <1>1, LiveFacts, RankedIs
<1>3. ASSUME want \in S PROVE Ranked(S, PrimaryIndex(S, want)) = want
  <2> DEFINE r == Ranked(S, PrimaryIndex(S, want))
  <2>1. r \in S /\ Rank(S, r) = Rank(S, want)
    BY <1>2, <1>3 DEF PrimaryIndex
  <2>2. r \in Nat /\ want \in Nat /\ Rank(S, want) \in Nat
    BY <1>3, <2>1, LiveFacts, RankBounds
  <2> HIDE DEF r
  <2>3. ~(r < want) /\ ~(want < r)
    BY <1>3, <2>1, <2>2, LiveFacts, RankGrows
  <2>4. r = want
    BY <2>2, <2>3
  <2> QED
    BY <2>4 DEF r
<1> QED
  BY <1>1, <1>2, <1>3

(* With two or more live links the probe is a live link other than the      *)
(* primary, whatever the rotation has come to.                              *)
LEMMA ProbeIs ==
    ASSUME NEW S \in SUBSET Links, Cardinality(S) > 1, NEW want, NEW rot \in Nat
    PROVE  /\ ProbeIndex(S, want, rot) \in 0..(Cardinality(S) - 1)
           /\ Ranked(S, ProbeIndex(S, want, rot)) \in S
           /\ Ranked(S, ProbeIndex(S, want, rot)) # Ranked(S, PrimaryIndex(S, want))
<1> DEFINE n == Cardinality(S)
           p == PrimaryIndex(S, want)
           q == ProbeIndex(S, want, rot)
           r == rot % (n - 1)
<1>1. n \in Nat /\ n > 1 /\ S # {}
  BY LiveFacts, FS_EmptySet
<1>2. p \in 0..(n - 1)
  BY <1>1, PrimaryIs
<1>3. r \in 0..(n - 2)
  BY <1>1
<1>4. q = IF r < p THEN r ELSE r + 1
  BY DEF ProbeIndex
<1> HIDE DEF n, p, q, r
<1>5. q \in 0..(n - 1) /\ q # p
  BY <1>1, <1>2, <1>3, <1>4
<1>6. /\ Ranked(S, q) \in S /\ Rank(S, Ranked(S, q)) = q
      /\ Ranked(S, p) \in S /\ Rank(S, Ranked(S, p)) = p
  BY <1>2, <1>5, LiveFacts, RankedIs DEF n
<1> QED
  BY <1>5, <1>6 DEF n, p, q

(* What select() returns uses: the links of its answer. *)
Used(seq) == {seq[i] : i \in DOMAIN seq}

(* WEIGHTED: the primary and, if there is another link, one other. *)
LEMMA WeightedUses ==
    ASSUME NEW S \in SUBSET Links, S # {}, NEW want, NEW rot \in Nat
    PROVE  LET out == select("WEIGHTED", S, want, rot)
           IN  /\ out \in Seq(Links) /\ Used(out) \subseteq S
               /\ Cardinality(Used(out)) = IF Cardinality(S) = 1 THEN 1 ELSE 2
               /\ want \in S => want \in Used(out)
<1> DEFINE out == select("WEIGHTED", S, want, rot)
           a == Ranked(S, PrimaryIndex(S, want))
           b == Ranked(S, ProbeIndex(S, want, rot))
<1>1. Cardinality(S) \in Nat /\ Cardinality(S) > 0 /\ S \subseteq Links
  BY LiveFacts
<1>2. a \in S /\ (want \in S => a = want)
  BY PrimaryIs
<1>3. out = <<a>> \o (IF Cardinality(S) > 1 THEN <<b>> ELSE <<>>)
  BY DEF select
<1>4. CASE Cardinality(S) > 1
  <2>1. b \in S /\ b # a
    BY <1>4, ProbeIs
  <2> HIDE DEF a, b
  <2>2. out = <<a, b>>
    <3>1. out = <<a>> \o <<b>>
      BY <1>3, <1>4
    <3> QED
      BY <3>1, <1>2, <2>1, PairOf
  <2> HIDE DEF out
  <2>3. Used(out) = {a, b}
    BY <2>2 DEF Used
  <2>4. {a, b} = {a} \cup {b}
    OBVIOUS
  <2>5. Cardinality({a, b}) = 2
    <3>1. IsFiniteSet({a}) /\ Cardinality({a}) = 1
      BY FS_Singleton
    <3>2. Cardinality({a} \cup {b}) = IF b \in {a} THEN Cardinality({a}) ELSE Cardinality({a}) + 1
      BY <3>1, FS_AddElement
    <3> QED
      BY <2>1, <2>4, <3>1, <3>2
  <2>6. out \in Seq(Links)
    BY <1>1, <1>2, <2>1, <2>2
  <2>7. /\ out \in Seq(Links) /\ Used(out) \subseteq S /\ (want \in S => want \in Used(out))
        /\ Cardinality(Used(out)) = IF Cardinality(S) = 1 THEN 1 ELSE 2
    BY <1>1, <1>2, <1>4, <2>1, <2>3, <2>5, <2>6
  <2> QED
    BY <2>7 DEF out
<1>5. CASE ~(Cardinality(S) > 1)
  <2>1. Cardinality(S) = 1
    BY <1>1, <1>5
  <2> HIDE DEF a, b
  <2>2. out = <<a>>
    BY <1>3, <1>5
  <2> HIDE DEF out
  <2>3. Used(out) = {a}
    BY <2>2 DEF Used
  <2>4. Cardinality({a}) = 1
    BY FS_Singleton
  <2>5. out \in Seq(Links)
    BY <1>1, <1>2, <2>2
  <2>6. /\ out \in Seq(Links) /\ Used(out) \subseteq S /\ (want \in S => want \in Used(out))
        /\ Cardinality(Used(out)) = IF Cardinality(S) = 1 THEN 1 ELSE 2
    BY <1>2, <2>1, <2>3, <2>4, <2>5
  <2> QED
    BY <2>6 DEF out
<1> QED
  BY <1>4, <1>5

(* ALL: every live link, each once. *)
LEMMA AllUses ==
    ASSUME NEW S \in SUBSET Links, S # {}, NEW want, NEW rot
    PROVE  /\ select("ALL", S, want, rot) \in Seq(Links)
           /\ Used(select("ALL", S, want, rot)) = S
<1> DEFINE n == Cardinality(S)
           out == [i \in 1..n |-> Ranked(S, i - 1)]
<1>1. n \in Nat /\ S \in SUBSET Nat /\ IsFiniteSet(S)
  BY LiveFacts
<1>2. \A i \in 1..n : out[i] \in S /\ Rank(S, out[i]) = i - 1
  <2> TAKE i \in 1..n
  <2>1. i - 1 \in 0..(n - 1)
    BY <1>1
  <2> QED
    BY <1>1, <2>1, RankedIs
<1>3. out \in Seq(Links)
  <2>1. out \in [1..n -> Links]
    BY <1>2
  <2> HIDE DEF out, n
  <2> QED
    BY <1>1, <2>1
<1>4. \A l \in S : \E i \in 1..n : out[i] = l
  <2> TAKE l \in S
  <2>1. Rank(S, l) \in 0..(n - 1)
    BY <1>1, RankBounds
  <2> DEFINE i == Rank(S, l) + 1
  <2>2. i \in 1..n /\ i - 1 = Rank(S, l)
    BY <1>1, <2>1
  <2>3. out[i] \in S /\ Rank(S, out[i]) = Rank(S, l)
    BY <1>2, <2>2
  <2> DEFINE m == out[i]
  <2>t. m \in S /\ Rank(S, m) = Rank(S, l)
    BY <2>3
  <2> HIDE DEF m
  <2>4. m \in S /\ Rank(S, m) = Rank(S, l) /\ m \in Nat /\ l \in Nat /\ Rank(S, l) \in Nat
    BY <1>1, <2>1, <2>t
  <2>5. ~(m < l) /\ ~(l < m)
    BY <1>1, <2>4, RankGrows
  <2>6. m = l
    BY <2>4, <2>5
  <2> QED
    BY <2>2, <2>6 DEF m
<1>5. select("ALL", S, want, rot) = out
  BY DEF select
<1>6. DOMAIN out = 1..n
  OBVIOUS
<1>7. Used(out) = S
  BY <1>2, <1>4, <1>6 DEF Used
<1> QED
  BY <1>3, <1>5, <1>7

(* BEST: one live link. *)
LEMMA BestUses ==
    ASSUME NEW S \in SUBSET Links, S # {}, NEW want, NEW rot
    PROVE  /\ select("BEST", S, want, rot) \in Seq(Links)
           /\ Used(select("BEST", S, want, rot)) \subseteq S
           /\ Cardinality(Used(select("BEST", S, want, rot))) = 1
<1> DEFINE a == Ranked(S, 0)
<1>1. a \in S /\ a \in Links
  BY LiveFacts, RankedIs
<1>2. select("BEST", S, want, rot) = <<a>>
  BY DEF select
<1> HIDE DEF a
<1>3. Used(<<a>>) = {a} /\ Cardinality({a}) = 1
  <2>1. DOMAIN <<a>> = {1} /\ <<a>>[1] = a
    OBVIOUS
  <2> QED
    BY <2>1, FS_Singleton DEF Used
<1>4. <<a>> \in Seq(Links)
  BY <1>1
<1> QED
  BY <1>1, <1>2, <1>3, <1>4

-----------------------------------------------------------------------------
(* Type correctness.                                                        *)

(* select() returns links of the pool. *)
LEMMA SelectType ==
    ASSUME NEW md \in Modes, NEW S \in SUBSET Links, NEW want, NEW rot \in Nat
    PROVE  select(md, S, want, rot) \in Seq(Links)
<1>1. CASE S = {}
  BY <1>1 DEF select
<1>2. CASE S # {}
  BY <1>2, WeightedUses, AllUses, BestUses DEF Modes
<1> QED
  BY <1>1, <1>2

(* The rotation stays in its width. *)
LEMMA RotatedType ==
    ASSUME NEW md, NEW S, NEW rot \in 0..(RotMod - 1)
    PROVE  Rotated(md, S, rot) \in 0..(RotMod - 1)
BY RotAssumption DEF Rotated

LEMMA TypeInit == Init => TypeOK
BY RotAssumption DEF Init, TypeOK

LEMMA TypeStep == TypeOK /\ [Next]_vars => TypeOK'
<1> SUFFICES ASSUME TypeOK, [Next]_vars PROVE TypeOK'
  OBVIOUS
<1>1. CASE Select
  <2>1. rotation \in Nat
    BY RotAssumption DEF TypeOK
  <2>2. chosen' \in Seq(Links)
    BY <1>1, <2>1, SelectType DEF Select, TypeOK
  <2>3. rotation' \in 0..(RotMod - 1)
    BY <1>1, RotatedType DEF Select, TypeOK
  <2> QED
    BY <1>1, <2>2, <2>3 DEF Select, TypeOK
<1>2. ASSUME NEW l \in Links, setPrimaryChannel(l) PROVE TypeOK'
  BY <1>2 DEF setPrimaryChannel, TypeOK
<1>3. ASSUME NEW l \in Links, LinkChange(l) PROVE TypeOK'
  BY <1>3 DEF LinkChange, TypeOK
<1>4. CASE UNCHANGED vars
  BY <1>4 DEF vars, TypeOK
<1> QED
  BY <1>1, <1>2, <1>3, <1>4 DEF Next

(* Every variable keeps its type: what select() returns are links, whatever *)
(* mode, feedback and rotation it meets.                                    *)
LEMMA TypeCorrect == Spec => []TypeOK
BY TypeInit, TypeStep, PTL DEF Spec

-----------------------------------------------------------------------------
(* A segment leaves over distinct live links, as many as its mode asks for  *)
(* and over the fed-back one if that is live: for every set of links,       *)
(* whatever links, feedback and rotation have come to (select).             *)
THEOREM CopiesOnDistinctLinksAlways == Spec => CopiesOnDistinctLinks
<1> DEFINE used == {chosen'[i] : i \in DOMAIN chosen'}
           Good == /\ used \subseteq live
                   /\ Cardinality(used) = Copies(Cardinality(live))
                   /\ (mode = "WEIGHTED" /\ primary \in live) => primary \in used
<1>1. ASSUME TypeOK, Select PROVE Good
  <2>1. /\ mode \in Modes /\ live \in SUBSET Links /\ rotation \in Nat
        /\ chosen' = select(mode, live, primary, rotation) /\ used = Used(chosen')
    BY <1>1, RotAssumption DEF TypeOK, Select, Used
  <2>2. Cardinality(live) \in Nat /\ (live # {} => Cardinality(live) > 0)
    BY <2>1, LiveFacts
  <2> HIDE DEF used
  <2>3. CASE live = {}
    <3>1. chosen' = <<>>
      BY <2>1, <2>3 DEF select
    <3>2. used = {}
      BY <2>1, <3>1 DEF Used
    <3> QED
      BY <2>3, <3>2, FS_EmptySet DEF Copies
  <2>4. CASE live # {} /\ mode = "BEST"
    <3>1. used \subseteq live /\ Cardinality(used) = 1
      BY <2>1, <2>4, BestUses
    <3> QED
      BY <2>2, <2>4, <3>1 DEF Copies
  <2>5. CASE live # {} /\ mode = "ALL"
    <3>1. used = live
      BY <2>1, <2>5, AllUses
    <3> QED
      BY <2>2, <2>5, <3>1 DEF Copies
  <2>6. CASE live # {} /\ mode = "WEIGHTED"
    <3>1. /\ used \subseteq live /\ (primary \in live => primary \in used)
          /\ Cardinality(used) = IF Cardinality(live) = 1 THEN 1 ELSE 2
      BY <2>1, <2>6, WeightedUses
    <3> QED
      BY <2>2, <2>6, <3>1 DEF Copies
  <2> QED
    BY <2>1, <2>3, <2>4, <2>5, <2>6 DEF Modes
<1>2. TypeOK /\ [Next]_vars => [Select => Good]_vars
  BY <1>1
<1> QED
  BY <1>2, TypeCorrect, PTL DEF Spec, CopiesOnDistinctLinks
=============================================================================

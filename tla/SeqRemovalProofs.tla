-------------------------- MODULE SeqRemovalProofs --------------------------
(***************************************************************************)
(* What Without(s, D) returns, for every sequence s and set D.  The proofs *)
(* are by induction on the prefix length.  Induction is stated over a set, *)
(* NatInductionSet, because a set can be instantiated by every prover; it  *)
(* rests on the well-foundedness of < on the naturals.                     *)
(***************************************************************************)
EXTENDS SeqRemoval, TLAPS, WellFoundedInduction

\* Every nonempty set of naturals has a least element.
LEMMA LeastNatural ==
  ASSUME NEW S, S \subseteq Nat, S # {}
  PROVE  \E n \in S : \A m \in S : n <= m
<1> DEFINE R == {ss \in Nat \X Nat : ss[1] < ss[2]}
<1>1. IsWellFoundedOn(R, Nat)
  BY NatLessThanWellFounded DEF OpToRel
<1>2. PICK n \in S : \A m \in S : ~ (<<m, n>> \in R)
  <2> HIDE DEF R
  <2> QED BY <1>1, WFMin
<1>3. ASSUME NEW m \in S PROVE n <= m
  <2>1. m \in Nat /\ n \in Nat
    OBVIOUS
  <2>2. <<m, n>> \in Nat \X Nat /\ <<m, n>> \notin R
    BY <1>2, <2>1
  <2>3. ~ (m < n)
    BY <2>2
  <2> QED BY <2>1, <2>3
<1> QED BY <1>3

\* Induction over the naturals for a set.
LEMMA NatInductionSet ==
  ASSUME NEW S, 0 \in S, \A n \in Nat : n \in S => n + 1 \in S
  PROVE  Nat \subseteq S
<1> SUFFICES ASSUME NEW k \in Nat, k \notin S PROVE FALSE
  OBVIOUS
<1> DEFINE B == {n \in Nat : n \notin S}
<1>1. PICK m \in B : \A n \in B : m <= n
  <2>1. B \subseteq Nat /\ B # {}
    OBVIOUS
  <2> HIDE DEF B
  <2> QED BY <2>1, LeastNatural
<1>2. m \in Nat /\ m # 0
  OBVIOUS
<1>3. m - 1 \in Nat /\ m - 1 \notin B
  BY <1>1, <1>2
<1>4. m - 1 \in S
  BY <1>3
<1> QED BY <1>2, <1>3, <1>4

\* The function Without evaluates, named.
Left(s, D) ==
  CHOOSE left : left = [i \in 0 .. Len(s) |->
    IF i = 0 THEN << >> ELSE KeepNext(s, D, left[i - 1], i)]

\* The recursion of Without defines a function.
LEMMA LeftExists ==
  ASSUME NEW s, NEW D, Len(s) \in Nat
  PROVE  Left(s, D) = [i \in 0 .. Len(s) |->
           IF i = 0 THEN << >> ELSE KeepNext(s, D, Left(s, D)[i - 1], i)]
<1> DEFINE Step(g, i) == IF i = 0 THEN << >> ELSE KeepNext(s, D, g[i - 1], i)
           Run(g, n) == g = [i \in 0 .. n |-> Step(g, i)]
           S == {n \in Nat : \E g : Run(g, n)}
<1>1. 0 \in S
  <2>1. Run([i \in 0 .. 0 |-> << >>], 0)
    OBVIOUS
  <2> QED BY <2>1
<1>2. ASSUME NEW n \in Nat, n \in S PROVE n + 1 \in S
  <2>1. PICK g : Run(g, n)
    BY <1>2
  <2> DEFINE h == [i \in 0 .. n + 1 |->
                     IF i = n + 1 THEN KeepNext(s, D, g[n], n + 1) ELSE g[i]]
  <2>2. ASSUME NEW i \in 0 .. n + 1 PROVE h[i] = Step(h, i)
    <3>1. CASE i = 0
      <4>1. h[0] = g[0]
        BY <3>1
      <4>2. g[0] = << >>
        BY <2>1
      <4> QED BY <3>1, <4>1, <4>2
    <3>2. CASE i = n + 1
      <4>1. h[n] = g[n]
        OBVIOUS
      <4>2. i - 1 = n /\ i # 0
        BY <3>2
      <4> QED BY <3>2, <4>1, <4>2
    <3>3. CASE i \in 1 .. n
      <4>1. h[i] = g[i] /\ h[i - 1] = g[i - 1]
        BY <3>3
      <4>2. g[i] = KeepNext(s, D, g[i - 1], i)
        BY <2>1, <3>3
      <4> QED BY <3>3, <4>1, <4>2
    <3> QED BY <3>1, <3>2, <3>3
  <2>3. Run(h, n + 1)
    <3> HIDE DEF Step
    <3>1. h = [i \in 0 .. n + 1 |-> h[i]]
      OBVIOUS
    <3> HIDE DEF h
    <3> QED BY <2>2, <3>1
  <2> HIDE DEF Run, h
  <2> QED BY <2>3
<1>3. Nat \subseteq S
  <2> HIDE DEF S
  <2> QED BY <1>1, <1>2, NatInductionSet
<1>4. PICK g : Run(g, Len(s))
  BY <1>3
<1> QED BY <1>4 DEF Left

\* Without in terms of that function, and the two equations it satisfies.
LEMMA WithoutUnfold ==
  ASSUME NEW s, NEW D, Len(s) \in Nat
  PROVE  /\ Without(s, D) = Left(s, D)[Len(s)]
         /\ Left(s, D)[0] = << >>
         /\ \A i \in 1 .. Len(s) :
              Left(s, D)[i] = KeepNext(s, D, Left(s, D)[i - 1], i)
<1>1. Without(s, D) = Left(s, D)[Len(s)]
  BY DEF Without, Left
<1> DEFINE L == Left(s, D)
<1>2. L = [i \in 0 .. Len(s) |->
             IF i = 0 THEN << >> ELSE KeepNext(s, D, L[i - 1], i)]
  BY LeftExists
<1> HIDE DEF L
<1>3. L[0] = << >>
  BY <1>2
<1>4. \A i \in 1 .. Len(s) : L[i] = KeepNext(s, D, L[i - 1], i)
  BY <1>2
<1> QED BY <1>1, <1>3, <1>4 DEF L

\* Every prefix is filtered as Without promises: the rest is in order, made of
\* exactly the elements of the prefix that are not in D, and no longer.
PrefixFiltered(s, D, i) ==
  LET kept == Left(s, D)[i] IN
  /\ kept \in Seq(Range(s) \ D)
  /\ Len(kept) <= i
  /\ \A a \in 1 .. i : s[a] \notin D => \E k \in DOMAIN kept : kept[k] = s[a]
  /\ \A k \in DOMAIN kept : \E a \in 1 .. i : kept[k] = s[a]
  /\ \A a, b \in 1 .. i :
       a < b /\ s[a] \notin D /\ s[b] \notin D => Precedes(kept, s[a], s[b])
  /\ (\A a, b \in 1 .. i : s[a] = s[b] => a = b)
       => \A k, l \in DOMAIN kept : kept[k] = kept[l] => k = l

LEMMA PrefixStep ==
  ASSUME NEW T, NEW s \in Seq(T), NEW D, NEW n \in Nat, n + 1 \in 1 .. Len(s),
         PrefixFiltered(s, D, n)
  PROVE  PrefixFiltered(s, D, n + 1)
<1> DEFINE old == Left(s, D)[n]
           x == s[n + 1]
           new == Left(s, D)[n + 1]
<1>1. new = IF x \in D THEN old ELSE Append(old, x)
  BY WithoutUnfold DEF KeepNext
<1>2. /\ old \in Seq(Range(s) \ D)
      /\ Len(old) <= n
      /\ \A a \in 1 .. n : s[a] \notin D => \E k \in DOMAIN old : old[k] = s[a]
      /\ \A k \in DOMAIN old : \E a \in 1 .. n : old[k] = s[a]
      /\ \A a, b \in 1 .. n :
           a < b /\ s[a] \notin D /\ s[b] \notin D => Precedes(old, s[a], s[b])
      /\ (\A a, b \in 1 .. n : s[a] = s[b] => a = b)
           => \A k, l \in DOMAIN old : old[k] = old[l] => k = l
  BY DEF PrefixFiltered
<1>3. x \in Range(s)
  BY DEF Range
<1> HIDE DEF old, x, new
<1>4. CASE x \in D
  <2>1. new = old
    BY <1>1, <1>4
  <2>2. \A a \in 1 .. n + 1 : s[a] \notin D => a \in 1 .. n
    BY <1>4 DEF x
  <2>3. 1 .. n \subseteq 1 .. n + 1 /\ (Len(old) <= n => Len(old) <= n + 1)
    BY <1>2
  <2>4. (\A a, b \in 1 .. n + 1 : s[a] = s[b] => a = b)
          => \A k, l \in DOMAIN old : old[k] = old[l] => k = l
    BY <1>2, <2>3
  <2>5. \A k \in DOMAIN old : \E a \in 1 .. n + 1 : old[k] = s[a]
    BY <1>2, <2>3
  <2>6. \A a \in 1 .. n + 1 : s[a] \notin D => \E k \in DOMAIN old : old[k] = s[a]
    BY <1>2, <2>2
  <2>7. \A a, b \in 1 .. n + 1 :
          a < b /\ s[a] \notin D /\ s[b] \notin D => Precedes(old, s[a], s[b])
    BY <1>2, <2>2
  <2>8. Left(s, D)[n + 1] = old
    BY <2>1 DEF new
  <2> HIDE DEF new
  <2> QED
    BY <1>2, <2>3, <2>4, <2>5, <2>6, <2>7, <2>8, Zenon DEF PrefixFiltered
<1>5. CASE x \notin D
  <2>1. new = Append(old, x)
    BY <1>1, <1>5
  <2>2. /\ new \in Seq(Range(s) \ D)
        /\ Len(new) = Len(old) + 1
        /\ DOMAIN old = 1 .. Len(old)
        /\ DOMAIN new = 1 .. Len(old) + 1
        /\ Len(old) \in Nat
        /\ \A k \in 1 .. Len(old) : new[k] = old[k]
        /\ new[Len(old) + 1] = x
    BY <1>2, <1>3, <1>5, <2>1
  <2>3. Len(new) <= n + 1
    BY <1>2, <2>2
  <2>4. ASSUME NEW a \in 1 .. n + 1, s[a] \notin D
        PROVE  \E k \in DOMAIN new : new[k] = s[a]
    <3>1. CASE a = n + 1
      BY <2>2, <3>1 DEF x
    <3>2. CASE a \in 1 .. n
      BY <1>2, <2>2, <2>4, <3>2
    <3> QED BY <3>1, <3>2
  <2>5. ASSUME NEW k \in DOMAIN new PROVE \E a \in 1 .. n + 1 : new[k] = s[a]
    <3>1. CASE k = Len(old) + 1
      BY <2>2, <3>1 DEF x
    <3>2. CASE k \in 1 .. Len(old)
      BY <1>2, <2>2, <3>2
    <3> QED BY <2>2, <3>1, <3>2
  <2>6. ASSUME NEW a \in 1 .. n + 1, NEW b \in 1 .. n + 1,
               a < b, s[a] \notin D, s[b] \notin D
        PROVE  Precedes(new, s[a], s[b])
    <3>1. CASE b = n + 1
      <4>1. PICK k \in DOMAIN old : old[k] = s[a]
        BY <1>2, <2>6, <3>1
      <4>2. /\ k \in DOMAIN new /\ Len(old) + 1 \in DOMAIN new
            /\ k < Len(old) + 1
            /\ new[k] = s[a] /\ new[Len(old) + 1] = s[b]
        BY <2>2, <3>1, <4>1 DEF x
      <4> QED BY <4>2 DEF Precedes
    <3>2. CASE b \in 1 .. n
      <4>1. Precedes(old, s[a], s[b])
        BY <1>2, <2>6, <3>2
      <4> QED BY <2>2, <4>1 DEF Precedes
    <3> QED BY <3>1, <3>2
  <2>7. ASSUME \A a, b \in 1 .. n + 1 : s[a] = s[b] => a = b,
               NEW k \in DOMAIN new, NEW l \in DOMAIN new, new[k] = new[l]
        PROVE  k = l
    <3>1. \A i, j \in DOMAIN old : old[i] = old[j] => i = j
      <4>1. \A a, b \in 1 .. n : s[a] = s[b] => a = b
        BY <2>7
      <4> QED BY <1>2, <4>1
    <3>2. \A i \in DOMAIN old : old[i] # x
      BY <1>2, <2>7 DEF x
    <3> QED BY <2>2, <2>7, <3>1, <3>2
  <2> QED BY <2>2, <2>3, <2>4, <2>5, <2>6, <2>7 DEF PrefixFiltered, new
<1> QED BY <1>4, <1>5

LEMMA AllPrefixesFiltered ==
  ASSUME NEW T, NEW s \in Seq(T), NEW D
  PROVE  \A i \in 0 .. Len(s) : PrefixFiltered(s, D, i)
<1> DEFINE S == {i \in Nat : i <= Len(s) => PrefixFiltered(s, D, i)}
<1>1. 0 \in S
  <2>1. Left(s, D)[0] = << >>
    BY WithoutUnfold
  <2>2. << >> \in Seq(Range(s) \ D) /\ Len(<< >>) <= 0
    OBVIOUS
  <2>3. \A a : a \notin 1 .. 0 /\ a \notin DOMAIN << >>
    OBVIOUS
  <2>4. PrefixFiltered(s, D, 0)
    BY <2>1, <2>2, <2>3, Zenon DEF PrefixFiltered
  <2> QED BY <2>4
<1>2. ASSUME NEW n \in Nat, n \in S PROVE n + 1 \in S
  BY <1>2, PrefixStep
<1>3. Nat \subseteq S
  <2> HIDE DEF S
  <2> QED BY <1>1, <1>2, NatInductionSet
<1> QED BY <1>3

\* Without(s, D) is a sequence of the elements of s that are not in D ...
THEOREM WithoutRange ==
  ASSUME NEW T, NEW s \in Seq(T), NEW D
  PROVE  /\ Without(s, D) \in Seq(T)
         /\ Range(Without(s, D)) = Range(s) \ D
         /\ Len(Without(s, D)) <= Len(s)
<1> DEFINE kept == Without(s, D)
<1>1. Len(s) \in Nat /\ DOMAIN s = 1 .. Len(s)
  OBVIOUS
<1>2. PrefixFiltered(s, D, Len(s)) /\ kept = Left(s, D)[Len(s)]
  BY <1>1, AllPrefixesFiltered, WithoutUnfold
<1> HIDE DEF kept
<1>3. /\ kept \in Seq(Range(s) \ D)
      /\ Len(kept) <= Len(s)
      /\ \A a \in 1 .. Len(s) :
           s[a] \notin D => \E k \in DOMAIN kept : kept[k] = s[a]
  BY <1>2 DEF PrefixFiltered
<1>4. Range(s) \subseteq T
  BY DEF Range
<1>5. kept \in Seq(T)
  BY <1>3, <1>4
<1>6. Range(kept) = Range(s) \ D
  BY <1>1, <1>3 DEF Range
<1> QED BY <1>3, <1>5, <1>6 DEF kept

\* ... each as often as in s at most once, if it was there once ...
THEOREM WithoutInjective ==
  ASSUME NEW T, NEW s \in Seq(T), NEW D, IsInjective(s)
  PROVE  IsInjective(Without(s, D))
<1>1. Len(s) \in Nat /\ DOMAIN s = 1 .. Len(s)
  OBVIOUS
<1>2. /\ PrefixFiltered(s, D, Len(s))
      /\ Without(s, D) = Left(s, D)[Len(s)]
  BY <1>1, AllPrefixesFiltered, WithoutUnfold
<1> QED BY <1>1, <1>2 DEF PrefixFiltered, IsInjective

\* ... and in the order they had.
THEOREM WithoutKeepsOrder ==
  ASSUME NEW T, NEW s \in Seq(T), NEW D, NEW x, NEW y,
         Precedes(s, x, y), x \notin D, y \notin D
  PROVE  Precedes(Without(s, D), x, y)
<1>1. Len(s) \in Nat /\ DOMAIN s = 1 .. Len(s)
  OBVIOUS
<1>2. /\ PrefixFiltered(s, D, Len(s))
      /\ Without(s, D) = Left(s, D)[Len(s)]
  BY <1>1, AllPrefixesFiltered, WithoutUnfold
<1>3. PICK a, b \in 1 .. Len(s) : a < b /\ s[a] = x /\ s[b] = y
  BY <1>1 DEF Precedes
<1> QED BY <1>2, <1>3 DEF PrefixFiltered
=============================================================================

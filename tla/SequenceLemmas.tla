--------------------------- MODULE SequenceLemmas ---------------------------
(***************************************************************************)
(* Induction over the natural numbers as a statement about a set, and what *)
(* FlattenSeq returns.                                                     *)
(***************************************************************************)
EXTENDS Integers, Sequences, SequencesExt, WellFoundedInduction, TLAPS

LEMMA NaturalsHaveLeast ==
    ASSUME NEW T \in SUBSET Nat, T # {}
    PROVE  \E n \in T : \A m \in T : n <= m
<1> DEFINE R == OpToRel(<, Nat)
<1>1. IsWellFoundedOn(R, Nat)
  BY NatLessThanWellFounded
<1>2. \A x, y \in Nat : <<y, x>> \in R <=> y < x
  BY DEF OpToRel
<1> HIDE DEF R
<1>3. PICK n \in T : \A y \in T : ~ (<<y, n>> \in R)
  BY <1>1, WFMin
<1>4. ASSUME NEW m \in T PROVE n <= m
  <2>1. n \in Nat /\ m \in Nat /\ ~(<<m, n>> \in R)
    BY <1>3
  <2>2. ~(m < n)
    BY <1>2, <2>1
  <2> QED
    BY <2>1, <2>2
<1> QED
  BY <1>4

LEMMA SetInduction ==
    ASSUME NEW S, 0 \in S, \A n \in Nat : n \in S => n + 1 \in S
    PROVE  \A n \in Nat : n \in S
<1> SUFFICES ASSUME NEW n \in Nat, n \notin S PROVE FALSE
  OBVIOUS
<1> DEFINE T == {k \in Nat : k \notin S}
<1>1. PICK k \in T : \A m \in T : k <= m
  BY NaturalsHaveLeast
<1>2. k - 1 \in Nat /\ k - 1 \notin T
  BY <1>1
<1> QED
  BY <1>1, <1>2

-----------------------------------------------------------------------------
(* FlattenSeq *)

\* f[i] is the concatenation of the first i elements of s, up to n of them.
Flattens(f, s, n) ==
    f = [i \in 1 .. n |-> IF i = 1 THEN s[i] ELSE f[i - 1] \o s[i]]

LEMMA FlatteningExists ==
    ASSUME NEW s, NEW n \in Nat
    PROVE  \E f : Flattens(f, s, n)
<1> DEFINE S == {k \in Nat : \E f : Flattens(f, s, k)}
<1>1. 0 \in S
  <2> DEFINE f == [i \in 1 .. 0 |-> 0]
  <2>1. Flattens(f, s, 0)
    BY DEF Flattens
  <2> HIDE DEF f
  <2> QED
    BY <2>1
<1>2. ASSUME NEW k \in Nat, k \in S PROVE k + 1 \in S
  <2>1. PICK f : Flattens(f, s, k)
    BY <1>2
  <2> DEFINE last == IF k + 1 = 1 THEN s[k + 1] ELSE f[k] \o s[k + 1]
             g == [i \in 1 .. k + 1 |-> IF i = k + 1 THEN last ELSE f[i]]
             h == [i \in 1 .. k + 1 |-> IF i = 1 THEN s[i] ELSE g[i - 1] \o s[i]]
  <2>2. ASSUME NEW i \in 1 .. k + 1 PROVE g[i] = h[i]
    <3>1. CASE i = k + 1
      <4>1. g[i] = last
        BY <3>1
      <4>2. k + 1 # 1 => k \in 1 .. k + 1 /\ k # k + 1 /\ g[k] = f[k]
        OBVIOUS
      <4> QED
        BY <3>1, <4>1, <4>2
    <3>2. CASE i # k + 1
      <4>1. i \in 1 .. k /\ g[i] = f[i]
        BY <3>2
      <4>2. i # 1 => i - 1 \in 1 .. k + 1 /\ i - 1 # k + 1 /\ g[i - 1] = f[i - 1]
        OBVIOUS
      <4>3. f[i] = IF i = 1 THEN s[i] ELSE f[i - 1] \o s[i]
        BY <2>1, <4>1 DEF Flattens
      <4> QED
        BY <4>1, <4>2, <4>3
    <3> QED
      BY <3>1, <3>2
  <2>3. g = h
    BY <2>2
  <2>4. Flattens(g, s, k + 1)
    BY <2>3 DEF Flattens
  <2> HIDE DEF g
  <2> QED
    BY <2>4
<1> HIDE DEF S
<1>3. n \in S
  BY <1>1, <1>2, SetInduction
<1> QED
  BY <1>3 DEF S

LEMMA FlattenIsFlattening ==
    ASSUME NEW s, Len(s) \in Nat, Len(s) # 0
    PROVE  \E f : Flattens(f, s, Len(s)) /\ FlattenSeq(s) = f[Len(s)]
<1> DEFINE f == CHOOSE f : Flattens(f, s, Len(s))
<1>1. Flattens(f, s, Len(s))
  BY FlatteningExists
<1>2. FlattenSeq(s) = f[Len(s)]
  BY DEF FlattenSeq, Flattens
<1> QED
  BY <1>1, <1>2

\* The positions of t are those of the elements 1 .. k of s, in order: position
\* p of t is position at[p] of the element of[p].
Places(t, s, k, of, at) ==
    /\ of \in [1 .. Len(t) -> 1 .. k]
    /\ at \in [1 .. Len(t) -> Nat]
    /\ \A p \in 1 .. Len(t) : at[p] \in 1 .. Len(s[of[p]]) /\ t[p] = s[of[p]][at[p]]
    /\ \A p, q \in 1 .. Len(t) : p < q => of[p] < of[q] \/ (of[p] = of[q] /\ at[p] < at[q])
    /\ \A i \in 1 .. k : \A j \in 1 .. Len(s[i]) : \E p \in 1 .. Len(t) : of[p] = i /\ at[p] = j

LEMMA PlacesOfFirst ==
    ASSUME NEW S, NEW s \in Seq(Seq(S)), Len(s) # 0
    PROVE  \E of, at : Places(s[1], s, 1, of, at)
<1> DEFINE n == Len(s[1])
           of == [p \in 1 .. n |-> 1]
           at == [p \in 1 .. n |-> p]
<1>1. 1 \in 1 .. Len(s) /\ s[1] \in Seq(S) /\ n \in Nat
  OBVIOUS
<1>2. of \in [1 .. n -> 1 .. 1] /\ at \in [1 .. n -> Nat]
  BY <1>1
<1>3. \A p \in 1 .. n : of[p] = 1 /\ at[p] = p
  OBVIOUS
<1> HIDE DEF of, at
<1>4. Places(s[1], s, 1, of, at)
  BY <1>1, <1>2, <1>3 DEF Places
<1> QED
  BY <1>4

LEMMA PlacesOfNext ==
    ASSUME NEW S, NEW s \in Seq(Seq(S)), NEW k \in 1 .. Len(s) - 1, NEW t \in Seq(S),
           NEW of, NEW at, Places(t, s, k, of, at)
    PROVE  \E of1, at1 : Places(t \o s[k + 1], s, k + 1, of1, at1)
<1> DEFINE u == s[k + 1]
           n == Len(t)
           m == Len(u)
           w == t \o u
           of1 == [p \in 1 .. n + m |-> IF p <= n THEN of[p] ELSE k + 1]
           at1 == [p \in 1 .. n + m |-> IF p <= n THEN at[p] ELSE p - n]
<1>1. /\ u \in Seq(S) /\ n \in Nat /\ m \in Nat /\ k \in Nat
      /\ w \in Seq(S) /\ Len(w) = n + m
      /\ \A p \in 1 .. n + m : w[p] = IF p <= n THEN t[p] ELSE u[p - n]
  <2>1. k + 1 \in 1 .. Len(s) /\ u \in Seq(S)
    OBVIOUS
  <2> HIDE DEF u
  <2> QED
    BY <2>1
<1>2. \A p \in 1 .. n + m :
        /\ of1[p] = IF p <= n THEN of[p] ELSE k + 1
        /\ at1[p] = IF p <= n THEN at[p] ELSE p - n
  OBVIOUS
<1>3. \A p \in 1 .. n + m : p <= n => p \in 1 .. n
  BY <1>1
<1>4. \A p \in 1 .. n + m : ~(p <= n) => p - n \in 1 .. m
  BY <1>1
<1>p. /\ of \in [1 .. n -> 1 .. k]
      /\ at \in [1 .. n -> Nat]
      /\ \A p \in 1 .. n : at[p] \in 1 .. Len(s[of[p]]) /\ t[p] = s[of[p]][at[p]]
      /\ \A p, q \in 1 .. n : p < q => of[p] < of[q] \/ (of[p] = of[q] /\ at[p] < at[q])
      /\ \A i \in 1 .. k : \A j \in 1 .. Len(s[i]) : \E p \in 1 .. n : of[p] = i /\ at[p] = j
  BY DEF Places
<1>5. of1 \in [1 .. n + m -> 1 .. k + 1] /\ at1 \in [1 .. n + m -> Nat]
  <2>1. ASSUME NEW p \in 1 .. n + m PROVE of1[p] \in 1 .. k + 1 /\ at1[p] \in Nat
    <3>1. CASE p <= n
      <4>1. of[p] \in 1 .. k /\ at[p] \in Nat
        BY <1>3, <1>p, <3>1
      <4> QED
        BY <1>1, <1>2, <3>1, <4>1
    <3>2. CASE ~(p <= n)
      BY <1>1, <1>2, <1>4, <3>2
    <3> QED
      BY <3>1, <3>2
  <2> QED
    BY <2>1
<1> HIDE DEF of1, at1, w, u, n, m
<1>6. ASSUME NEW p \in 1 .. n + m
      PROVE  at1[p] \in 1 .. Len(s[of1[p]]) /\ w[p] = s[of1[p]][at1[p]]
  <2>1. CASE p <= n
    <3>1. p \in 1 .. n /\ of1[p] = of[p] /\ at1[p] = at[p] /\ w[p] = t[p]
      BY <1>1, <1>2, <1>3, <2>1
    <3> QED
      BY <1>p, <3>1
  <2>2. CASE ~(p <= n)
    <3>1. p - n \in 1 .. m /\ of1[p] = k + 1 /\ at1[p] = p - n /\ w[p] = u[p - n]
      BY <1>1, <1>2, <1>4, <2>2
    <3> QED
      BY <3>1 DEF u, m
  <2> QED
    BY <2>1, <2>2
<1>7. ASSUME NEW p \in 1 .. n + m, NEW q \in 1 .. n + m, p < q
      PROVE  of1[p] < of1[q] \/ (of1[p] = of1[q] /\ at1[p] < at1[q])
  <2>1. CASE q <= n
    <3>1. p \in 1 .. n /\ q \in 1 .. n /\ p <= n
      BY <1>1, <1>7, <2>1
    <3> QED
      BY <1>2, <1>7, <1>p, <2>1, <3>1
  <2>2. CASE ~(q <= n) /\ p <= n
    <3>1. of1[p] = of[p] /\ of[p] \in 1 .. k /\ of1[q] = k + 1
      BY <1>2, <1>3, <1>p, <2>2
    <3> QED
      BY <1>1, <3>1
  <2>3. CASE ~(q <= n) /\ ~(p <= n)
    <3>1. of1[p] = k + 1 /\ of1[q] = k + 1 /\ at1[p] = p - n /\ at1[q] = q - n
      BY <1>2, <2>3
    <3> QED
      BY <1>1, <1>7, <3>1
  <2> QED
    BY <2>1, <2>2, <2>3
<1>8. ASSUME NEW i \in 1 .. k + 1, NEW j \in 1 .. Len(s[i])
      PROVE  \E p \in 1 .. n + m : of1[p] = i /\ at1[p] = j
  <2>1. CASE i \in 1 .. k
    <3>1. PICK p \in 1 .. n : of[p] = i /\ at[p] = j
      BY <1>p, <2>1
    <3>2. p \in 1 .. n + m /\ p <= n
      BY <1>1
    <3> QED
      BY <1>2, <3>1, <3>2
  <2>2. CASE i = k + 1
    <3>1. j \in 1 .. m
      BY <2>2 DEF u, m
    <3>p. PICK p \in 1 .. n + m : ~(p <= n) /\ p - n = j
      BY <1>1, <3>1
    <3>3. of1[p] = k + 1 /\ at1[p] = j
      BY <1>2, <3>p
    <3> QED
      BY <2>2, <3>3
  <2> QED
    BY <1>1, <2>1, <2>2
<1>9. Places(w, s, k + 1, of1, at1)
  <2>1. Len(w) = n + m
    BY <1>1
  <2> QED
    BY ONLY <1>5, <1>6, <1>7, <1>8, <2>1 DEF Places
<1> QED
  BY <1>9 DEF w, u

LEMMA FlattenPlaces ==
    ASSUME NEW S, NEW s \in Seq(Seq(S))
    PROVE  /\ FlattenSeq(s) \in Seq(S)
           /\ \E of, at : Places(FlattenSeq(s), s, Len(s), of, at)
<1>1. Len(s) \in Nat
  OBVIOUS
<1>2. CASE Len(s) = 0
  <2>1. s = << >> /\ FlattenSeq(s) = << >>
    BY <1>2 DEF FlattenSeq
  <2> DEFINE of == [p \in 1 .. 0 |-> 0]
  <2>2. Places(<< >>, << >>, 0, of, of)
    BY DEF Places
  <2> HIDE DEF of
  <2>3. Places(FlattenSeq(s), s, Len(s), of, of)
    BY <1>2, <2>1, <2>2
  <2>e. << >> \in Seq(S)
    OBVIOUS
  <2>4. FlattenSeq(s) \in Seq(S)
    BY ONLY <2>1, <2>e
  <2> QED
    BY <2>3, <2>4
<1>3. CASE Len(s) # 0
  <2>1. PICK f : Flattens(f, s, Len(s)) /\ FlattenSeq(s) = f[Len(s)]
    BY <1>1, <1>3, FlattenIsFlattening
  <2> DEFINE T == {k \in Nat : k \in 1 .. Len(s) =>
                      f[k] \in Seq(S) /\ \E of, at : Places(f[k], s, k, of, at)}
  <2>2. 0 \in T
    OBVIOUS
  <2>3. ASSUME NEW k \in Nat, k \in T PROVE k + 1 \in T
    <3> SUFFICES ASSUME k + 1 \in 1 .. Len(s)
                 PROVE  f[k + 1] \in Seq(S) /\ \E of, at : Places(f[k + 1], s, k + 1, of, at)
      OBVIOUS
    <3>0. k + 1 - 1 = k
      OBVIOUS
    <3>1. f[k + 1] = IF k + 1 = 1 THEN s[k + 1] ELSE f[k] \o s[k + 1]
      <4>1. f = [i \in 1 .. Len(s) |-> IF i = 1 THEN s[i] ELSE f[i - 1] \o s[i]]
        BY <2>1 DEF Flattens
      <4>i. \A i \in 1 .. Len(s) : f[i] = IF i = 1 THEN s[i] ELSE f[i - 1] \o s[i]
        BY ONLY <4>1
      <4>2. f[k + 1] = IF k + 1 = 1 THEN s[k + 1] ELSE f[k + 1 - 1] \o s[k + 1]
        BY <4>i
      <4> QED
        BY <3>0, <4>2
    <3>2. CASE k = 0
      BY <1>3, <3>1, <3>2, PlacesOfFirst
    <3>3. CASE k # 0
      <4>0. k + 1 # 1 /\ k \in 1 .. Len(s) - 1 /\ k \in 1 .. Len(s)
        BY <1>1, <3>3
      <4>1. k \in 1 .. Len(s) - 1 /\ k \in 1 .. Len(s) /\ f[k + 1] = f[k] \o s[k + 1]
        BY <3>1, <4>0
      <4>2. f[k] \in Seq(S) /\ \E of, at : Places(f[k], s, k, of, at)
        BY <2>3, <4>1
      <4>3. s[k + 1] \in Seq(S)
        OBVIOUS
      <4>4. \E of, at : Places(f[k] \o s[k + 1], s, k + 1, of, at)
        BY <4>1, <4>2, PlacesOfNext
      <4>5. f[k] \o s[k + 1] \in Seq(S)
        BY <4>2, <4>3
      <4> QED
        BY <4>1, <4>4, <4>5
    <3> QED
      BY <3>2, <3>3
  <2> HIDE DEF T
  <2>4. Len(s) \in T
    BY <1>1, <2>2, <2>3, SetInduction
  <2> QED
    BY <1>1, <1>3, <2>1, <2>4 DEF T
<1> QED
  BY <1>2, <1>3

\* An element of the flattened sequence is one of an element of s.
LEMMA FlattenContains ==
    ASSUME NEW S, NEW s \in Seq(Seq(S)), NEW x
    PROVE  Contains(FlattenSeq(s), x) <=> \E i \in 1 .. Len(s) : Contains(s[i], x)
<1>1. PICK of, at : Places(FlattenSeq(s), s, Len(s), of, at)
  BY FlattenPlaces
<1> DEFINE t == FlattenSeq(s)
<1>2. /\ \A p \in 1 .. Len(t) : of[p] \in 1 .. Len(s) /\ at[p] \in 1 .. Len(s[of[p]])
                                                 /\ t[p] = s[of[p]][at[p]]
      /\ \A i \in 1 .. Len(s) : \A j \in 1 .. Len(s[i]) :
            \E p \in 1 .. Len(t) : of[p] = i /\ at[p] = j
  BY <1>1 DEF Places
<1> HIDE DEF t
<1>3. ASSUME Contains(t, x) PROVE \E i \in 1 .. Len(s) : Contains(s[i], x)
  <2>1. PICK p \in 1 .. Len(t) : t[p] = x
    BY <1>3 DEF Contains
  <2>2. of[p] \in 1 .. Len(s) /\ at[p] \in 1 .. Len(s[of[p]]) /\ s[of[p]][at[p]] = x
    BY <1>2, <2>1
  <2> QED
    BY <2>2 DEF Contains
<1>4. ASSUME NEW i \in 1 .. Len(s), Contains(s[i], x) PROVE Contains(t, x)
  <2>1. PICK j \in 1 .. Len(s[i]) : s[i][j] = x
    BY <1>4 DEF Contains
  <2>2. PICK p \in 1 .. Len(t) : of[p] = i /\ at[p] = j
    BY <1>2, <2>1
  <2>3. t[p] = x
    BY <1>2, <2>1, <2>2
  <2> QED
    BY <2>3 DEF Contains
<1> QED
  BY <1>3, <1>4 DEF t
=============================================================================

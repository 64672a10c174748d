--------------------------- MODULE SequenceLemmas ---------------------------
(***************************************************************************)
(* Induction and recursion over the natural numbers, and with them what    *)
(* FlattenSeq makes of any sequence of sequences.  The induction theorems  *)
(* of the library take an operator as a parameter; here the property is a  *)
(* set of numbers, and the least number outside of it does the work.       *)
(***************************************************************************)
EXTENDS Integers, Sequences, SequencesExt, FiniteSetsExt, SequenceTheorems, WellFoundedInduction, TLAPS

\* The first of some places in a sequence is the least.
LEMMA LeastPlace ==
    ASSUME NEW I, I \subseteq Nat, I # {}
    PROVE  Min(I) \in I /\ \A y \in I : Min(I) <= y
<1> DEFINE R == OpToRel(<, Nat)
<1>1. IsWellFoundedOn(R, Nat)
  BY NatLessThanWellFounded
<1>2. \A x, y \in Nat : x < y => <<x, y>> \in R
  BY DEF OpToRel
<1> HIDE DEF R
<1>3. PICK x \in I : \A y \in I : ~(<<y, x>> \in R)
  BY <1>1, WFMin
<1>4. ASSUME NEW y \in I PROVE x <= y
  <2>1. x \in Nat /\ y \in Nat /\ ~(y < x)
    BY <1>2, <1>3
  <2> QED BY <2>1
<1> QED BY <1>3, <1>4 DEF Min

\* The last of some places is the greatest.
LEMMA GreatestPlace ==
    ASSUME NEW n \in Nat, NEW I, I \subseteq 1 .. n, I # {}
    PROVE  Max(I) \in I /\ \A y \in I : y <= Max(I)
<1> DEFINE J == {n - k : k \in I}
<1>0. \A k \in I : k \in Nat /\ n - k \in Nat
  OBVIOUS
<1>1. J \subseteq Nat /\ J # {}
  BY <1>0
<1>2. PICK j \in J : \A y \in J : j <= y
  BY <1>1, LeastPlace
<1>3. PICK x \in I : j = n - x
  OBVIOUS
<1>4. ASSUME NEW y \in I PROVE x >= y
  <2>1. n - y \in J /\ x \in Nat /\ y \in Nat
    OBVIOUS
  <2>2. n - x <= n - y
    BY <1>2, <1>3, <2>1
  <2> QED BY <2>1, <2>2
<1>5. Max(I) \in I /\ \A y \in I : Max(I) >= y
  BY <1>4 DEF Max
<1> HIDE DEF J
<1>6. Max(I) \in Nat /\ I \subseteq Nat
  BY <1>0, <1>5
<1>7. \A y \in I : y <= Max(I)
  BY <1>5, <1>6
<1> QED BY <1>5, <1>7

\* Induction: a set that has 0 and, with each number, the next has all of them.
LEMMA Reaches ==
    ASSUME NEW A, 0 \in A, \A k \in Nat : k \in A => k + 1 \in A
    PROVE  Nat \subseteq A
<1> SUFFICES ASSUME NEW n \in Nat, n \notin A PROVE FALSE
  OBVIOUS
<1> DEFINE I == {k \in Nat : k \notin A}
<1>1. PICK x \in I : \A y \in I : x <= y
  <2>1. I \subseteq Nat /\ I # {}
    OBVIOUS
  <2> HIDE DEF I
  <2> QED BY <2>1, LeastPlace
<1>2. x # 0 /\ x \in Nat /\ x - 1 \in Nat
  OBVIOUS
<1>3. x - 1 \in A
  BY <1>1, <1>2
<1>4. (x - 1) + 1 \in A
  BY <1>2, <1>3
<1> QED BY <1>2, <1>4

\* A sequence of elements of T.
LEMMA SeqIn ==
    ASSUME NEW S, NEW T, NEW s \in Seq(S), \A j \in 1 .. Len(s) : s[j] \in T
    PROVE  s \in Seq(T)
<1>1. Len(s) \in Nat /\ s = [j \in 1 .. Len(s) |-> s[j]]
  BY LenProperties
<1>2. s \in [1 .. Len(s) -> T]
  BY <1>1
<1> QED BY <1>1, <1>2, SeqDef

\* A function from the first n numbers is a sequence.
LEMMA FunctionIsSeq ==
    ASSUME NEW S, NEW n \in Nat, NEW f \in [1 .. n -> S]
    PROVE  f \in Seq(S) /\ Len(f) = n
<1>1. f \in Seq(S)
  BY SeqDef
<1>2. DOMAIN f = 1 .. n /\ DOMAIN f = 1 .. Len(f) /\ Len(f) \in Nat
  BY <1>1, LenProperties
<1> QED BY <1>1, <1>2

\* One more element at the end.
LEMMA ConcatOne ==
    ASSUME NEW S, NEW s \in Seq(S), NEW x \in S
    PROVE  /\ s \o <<x>> \in Seq(S) /\ Len(s) \in Nat /\ Len(s \o <<x>>) = Len(s) + 1
           /\ (\A i \in 1 .. Len(s) : (s \o <<x>>)[i] = s[i]) /\ (s \o <<x>>)[Len(s) + 1] = x
<1>1. <<x>> \in Seq(S) /\ Len(<<x>>) = 1 /\ <<x>>[1] = x /\ Len(s) \in Nat
  BY LenProperties
<1> QED BY <1>1, ConcatProperties

\* g takes the n steps from c0, each given by a function.
Runs(g, C, c0, n, step) ==
    g \in [0 .. n -> C] /\ g[0] = c0 /\ \A k \in 1 .. n : g[k] = step[k][g[k - 1]]

\* Recursion: n steps can be taken from any c0.
LEMMA Iterates ==
    ASSUME NEW C, NEW c0 \in C, NEW n \in Nat, NEW step \in [1 .. n -> [C -> C]]
    PROVE  \E g : Runs(g, C, c0, n, step)
<1> DEFINE Up(k) == \E g \in [0 .. k -> C] : g[0] = c0 /\ \A i \in 1 .. k : g[i] = step[i][g[i - 1]]
           A == {k \in Nat : k <= n => Up(k)}
<1>1. 0 \in A
  <2> DEFINE e == [i \in 0 .. 0 |-> c0]
  <2>1. e \in [0 .. 0 -> C] /\ e[0] = c0 /\ 1 .. 0 = {}
    OBVIOUS
  <2> HIDE DEF e
  <2>2. Up(0)
    BY <2>1
  <2> QED BY <2>2
<1>2. ASSUME NEW k \in Nat, k \in A PROVE k + 1 \in A
  <2> SUFFICES ASSUME k + 1 <= n PROVE Up(k + 1)
    OBVIOUS
  <2>1. PICK g \in [0 .. k -> C] : g[0] = c0 /\ \A i \in 1 .. k : g[i] = step[i][g[i - 1]]
    BY <1>2
  <2> DEFINE v == step[k + 1][g[k]]
             h == [i \in 0 .. (k + 1) |-> IF i = k + 1 THEN v ELSE g[i]]
  <2>2. v \in C
    <3>1. k + 1 \in 1 .. n /\ k \in 0 .. k
      OBVIOUS
    <3>2. step[k + 1] \in [C -> C] /\ g[k] \in C
      BY <3>1
    <3> QED BY <3>2
  <2>v. v = step[k + 1][g[k]]
    OBVIOUS
  <2> HIDE DEF v
  <2>3. h \in [0 .. (k + 1) -> C] /\ h[0] = c0
    BY <2>1, <2>2
  <2>4. ASSUME NEW i \in 1 .. (k + 1) PROVE h[i] = step[i][h[i - 1]]
    <3>1. CASE i = k + 1
      <4>1. h[i] = v /\ i - 1 = k /\ h[i - 1] = g[k]
        BY <3>1
      <4> HIDE DEF h
      <4> QED BY <3>1, <4>1, <2>v
    <3>2. CASE i # k + 1
      <4>1. i \in 1 .. k /\ h[i] = g[i] /\ h[i - 1] = g[i - 1]
        BY <3>2
      <4> HIDE DEF h
      <4> QED BY <2>1, <4>1
    <3> QED BY <3>1, <3>2
  <2> HIDE DEF h
  <2> QED BY <2>3, <2>4
<1> HIDE DEF A
<1>3. n \in A
  BY <1>1, <1>2, Reaches
<1> QED BY <1>3 DEF A, Runs

(***************************************************************************)
(* FlattenSeq.                                                             *)
(***************************************************************************)
Flattens(f, seqs) == f = [i \in 1 .. Len(seqs) |-> IF i = 1 THEN seqs[i] ELSE f[i - 1] \o seqs[i]]

\* FlattenSeq joins its sequences from the first to the last.
LEMMA FlattenSteps ==
    ASSUME NEW S, NEW seqs \in Seq(Seq(S))
    PROVE  \E f \in [0 .. Len(seqs) -> Seq(S)] :
             /\ f[0] = <<>> /\ \A i \in 1 .. Len(seqs) : f[i] = f[i - 1] \o seqs[i]
             /\ FlattenSeq(seqs) = f[Len(seqs)]
<1> DEFINE n == Len(seqs)
           step == [i \in 1 .. n |-> [s \in Seq(S) |-> s \o seqs[i]]]
<1>0. n \in Nat /\ \A i \in 1 .. n : seqs[i] \in Seq(S)
  BY LenProperties, ElementOfSeq
<1>e. <<>> \in Seq(S)
  OBVIOUS
<1>1. step \in [1 .. n -> [Seq(S) -> Seq(S)]]
  <2>1. \A i \in 1 .. n : \A s \in Seq(S) : s \o seqs[i] \in Seq(S)
    BY <1>0, ConcatProperties
  <2> QED BY <2>1
<1>2. PICK g \in [0 .. n -> Seq(S)] : g[0] = <<>> /\ \A i \in 1 .. n : g[i] = step[i][g[i - 1]]
  <2> DEFINE C == Seq(S)
             c0 == <<>>
  <2>1. c0 \in C /\ n \in Nat /\ step \in [1 .. n -> [C -> C]]
    BY <1>0, <1>e, <1>1
  <2> HIDE DEF C, c0, n, step
  <2>2. \E g : Runs(g, C, c0, n, step)
    BY <2>1, Iterates
  <2> QED BY <2>2 DEF C, c0, Runs
<1>3. \A i \in 1 .. n : i - 1 \in 0 .. n /\ g[i - 1] \in Seq(S) /\ g[i] = g[i - 1] \o seqs[i]
  <2> HIDE DEF n
  <2> TAKE i \in 1 .. n
  <2>1. i - 1 \in 0 .. n
    BY <1>0
  <2>2. g[i - 1] \in Seq(S)
    BY <1>2, <2>1
  <2> QED BY <1>2, <2>1, <2>2
<1> HIDE DEF step
<1>4. CASE n = 0
  <2>1. FlattenSeq(seqs) = <<>>
    BY <1>4, EmptySeq DEF FlattenSeq
  <2> QED BY <1>2, <1>3, <1>4, <2>1
<1>5. CASE n # 0
  <2> DEFINE F == CHOOSE f : Flattens(f, seqs)
             h == [i \in 1 .. n |-> g[i]]
  <2>0. 1 \in 1 .. n /\ n \in 1 .. n
    BY <1>0, <1>5
  <2>1. g[1] = seqs[1]
    <3>1. g[1] = <<>> \o seqs[1]
      <4>1. g[1] = g[1 - 1] \o seqs[1]
        BY <1>3, <2>0, Zenon
      <4>2. 1 - 1 = 0
        OBVIOUS
      <4> QED BY <1>2, <4>1, <4>2
    <3>2. seqs[1] \in Seq(S)
      BY <1>0, <2>0
    <3> QED BY <3>1, <3>2, ConcatEmptySeq
  <2>2. Flattens(h, seqs)
    <3>1. \A i \in 1 .. n : i # 1 => i - 1 \in 1 .. n
      BY <1>0
    <3>2. h = [i \in 1 .. n |-> IF i = 1 THEN seqs[i] ELSE h[i - 1] \o seqs[i]]
      BY <1>3, <2>1, <3>1
    <3> QED BY <3>2 DEF Flattens
  <2> HIDE DEF h
  <2>3. Flattens(F, seqs)
    BY <2>2
  <2>4. FlattenSeq(seqs) = F[n]
    BY <1>5 DEF FlattenSeq, Flattens
  <2> HIDE DEF F
  <2>5. \A i \in 1 .. n : F[i] = IF i = 1 THEN seqs[i] ELSE F[i - 1] \o seqs[i]
    BY <2>3 DEF Flattens
  <2> DEFINE A == {k \in Nat : k \in 1 .. n => F[k] = g[k]}
  <2>6. ASSUME NEW k \in Nat, k \in A PROVE k + 1 \in A
    <3> SUFFICES ASSUME k + 1 \in 1 .. n PROVE F[k + 1] = g[k + 1]
      OBVIOUS
    <3>1. CASE k = 0
      BY <2>0, <2>1, <2>5, <3>1
    <3>2. CASE k # 0
      <4>1. k \in 1 .. n /\ (k + 1) - 1 = k /\ k + 1 # 1
        BY <1>0, <3>2
      <4>2. F[k] = g[k]
        BY <2>6, <4>1
      <4>3. F[k + 1] = F[k] \o seqs[k + 1]
        BY <2>5, <4>1
      <4>4. g[k + 1] = g[k] \o seqs[k + 1]
        BY <1>3, <4>1
      <4> QED BY <4>2, <4>3, <4>4
    <3> QED BY <3>1, <3>2
  <2>7. 0 \in A
    OBVIOUS
  <2> HIDE DEF A
  <2>8. n \in A
    BY <1>0, <2>6, <2>7, Reaches
  <2>9. FlattenSeq(seqs) = g[n]
    BY <2>0, <2>4, <2>8 DEF A
  <2> QED BY <1>2, <1>3, <2>9
<1> QED BY <1>4, <1>5

\* What is joined has the elements that its parts have.
LEMMA FlattenIn ==
    ASSUME NEW S, NEW seqs \in Seq(Seq(S))
    PROVE  FlattenSeq(seqs) \in Seq(S)
<1>1. PICK f \in [0 .. Len(seqs) -> Seq(S)] : FlattenSeq(seqs) = f[Len(seqs)]
  BY FlattenSteps
<1>2. Len(seqs) \in 0 .. Len(seqs)
  BY LenProperties
<1> QED BY <1>1, <1>2

\* And it has them all.
LEMMA FlattenHas ==
    ASSUME NEW S, NEW seqs \in Seq(Seq(S)), NEW i \in 1 .. Len(seqs), NEW j \in 1 .. Len(seqs[i])
    PROVE  \E p \in 1 .. Len(FlattenSeq(seqs)) : FlattenSeq(seqs)[p] = seqs[i][j]
<1> DEFINE n == Len(seqs)
           v == seqs[i][j]
<1>0. n \in Nat /\ \A k \in 1 .. n : seqs[k] \in Seq(S)
  BY LenProperties, ElementOfSeq
<1>1. PICK f \in [0 .. n -> Seq(S)] :
        /\ f[0] = <<>> /\ \A k \in 1 .. n : f[k] = f[k - 1] \o seqs[k]
        /\ FlattenSeq(seqs) = f[n]
  BY FlattenSteps
<1> DEFINE A == {k \in Nat : i <= k /\ k <= n => \E p \in 1 .. Len(f[k]) : f[k][p] = v}
<1>2. 0 \in A
  BY <1>0
<1>3. ASSUME NEW k \in Nat, k \in A PROVE k + 1 \in A
  <2> SUFFICES ASSUME i <= k + 1, k + 1 <= n PROVE \E p \in 1 .. Len(f[k + 1]) : f[k + 1][p] = v
    OBVIOUS
  <2> DEFINE a == f[k]
             w == seqs[k + 1]
  <2>1. k + 1 \in 1 .. n /\ (k + 1) - 1 = k /\ k \in 0 .. n
    BY <1>0
  <2>2. f[k + 1] = a \o w /\ a \in Seq(S) /\ w \in Seq(S)
    BY <1>0, <1>1, <2>1
  <2>3. i # k + 1 => \E p \in 1 .. Len(a) : a[p] = v
    BY <1>0, <1>3, <2>1
  <2>4. i = k + 1 => j \in 1 .. Len(w) /\ w[j] = v
    OBVIOUS
  <2> HIDE DEF a, w, v
  <2>5. /\ Len(a \o w) = Len(a) + Len(w) /\ Len(a) \in Nat /\ Len(w) \in Nat
        /\ \A p \in 1 .. Len(a) + Len(w) : (a \o w)[p] = IF p <= Len(a) THEN a[p] ELSE w[p - Len(a)]
    BY <2>2, ConcatProperties, LenProperties
  <2>6. CASE i = k + 1
    <3>1. /\ Len(a) + j \in 1 .. Len(a) + Len(w) /\ ~(Len(a) + j <= Len(a)) /\ (Len(a) + j) - Len(a) = j
      BY <2>4, <2>5, <2>6
    <3>2. (a \o w)[Len(a) + j] = v
      BY <2>4, <2>5, <2>6, <3>1
    <3> QED BY <2>2, <2>5, <3>1, <3>2
  <2>7. CASE i # k + 1
    <3>1. PICK p \in 1 .. Len(a) : a[p] = v
      BY <2>3, <2>7
    <3>2. p \in 1 .. Len(a) + Len(w) /\ p <= Len(a)
      BY <2>5
    <3>3. (a \o w)[p] = v
      BY <2>5, <3>1, <3>2
    <3> QED BY <2>2, <2>5, <3>2, <3>3
  <2> QED BY <2>6, <2>7
<1> HIDE DEF A
<1>4. n \in A
  BY <1>0, <1>2, <1>3, Reaches
<1>5. \E p \in 1 .. Len(f[n]) : f[n][p] = v
  BY <1>0, <1>4 DEF A
<1> QED BY <1>1, <1>5

\* Keeping the elements from lo to hi and no others gives that part of a sequence.
LEMMA FlattenPart ==
    ASSUME NEW S, NEW s \in Seq(S), NEW lo \in Nat, NEW hi \in Nat, 1 <= lo, lo <= hi + 1, hi <= Len(s),
           NEW seqs, seqs = [k \in 1 .. Len(s) |-> IF lo <= k /\ k <= hi THEN <<s[k]>> ELSE <<>>]
    PROVE  FlattenSeq(seqs) = SubSeq(s, lo, hi)
<1> DEFINE n == Len(s)
<1>0. n \in Nat /\ \A k \in 1 .. n : s[k] \in S
  BY LenProperties, ElementOfSeq
<1>1. seqs \in Seq(Seq(S)) /\ Len(seqs) = n
  <2>1. \A k \in 1 .. n : <<s[k]>> \in Seq(S) /\ <<>> \in Seq(S)
    BY <1>0
  <2>2. \A k \in 1 .. n : (IF lo <= k /\ k <= hi THEN <<s[k]>> ELSE <<>>) \in Seq(S)
    BY <2>1
  <2> QED BY <1>0, <2>2, IsASeq
<1>2. PICK f \in [0 .. n -> Seq(S)] :
        /\ f[0] = <<>> /\ \A i \in 1 .. n : f[i] = f[i - 1] \o seqs[i]
        /\ FlattenSeq(seqs) = f[n]
  <2>1. \E f \in [0 .. Len(seqs) -> Seq(S)] :
          /\ f[0] = <<>> /\ \A i \in 1 .. Len(seqs) : f[i] = f[i - 1] \o seqs[i]
          /\ FlattenSeq(seqs) = f[Len(seqs)]
    BY <1>1, FlattenSteps
  <2> HIDE DEF n
  <2> QED BY <1>1, <2>1, Zenon
<1> DEFINE end(k) == IF k <= hi THEN k ELSE hi
           A == {k \in Nat : k <= n => f[k] = SubSeq(s, lo, IF k < lo THEN lo - 1 ELSE end(k))}
<1>e. SubSeq(s, lo, lo - 1) = <<>>
  <2>1. SubSeq(s, lo, lo - 1) \in Seq(S) /\ Len(SubSeq(s, lo, lo - 1)) = 0
    BY <1>0, SubSeqProperties
  <2> QED BY <2>1, EmptySeq
<1>3. 0 \in A
  BY <1>2, <1>e
<1>4. ASSUME NEW k \in Nat, k \in A PROVE k + 1 \in A
  <2> SUFFICES ASSUME k + 1 <= n
               PROVE  f[k + 1] = SubSeq(s, lo, IF k + 1 < lo THEN lo - 1 ELSE end(k + 1))
    OBVIOUS
  <2>1. k + 1 \in 1 .. n /\ (k + 1) - 1 = k /\ k \in 0 .. n /\ k <= n
    BY <1>0
  <2>2. f[k + 1] = f[k] \o seqs[k + 1] /\ f[k] \in Seq(S)
    BY <1>2, <2>1
  <2>3. f[k] = SubSeq(s, lo, IF k < lo THEN lo - 1 ELSE end(k))
    BY <1>4, <2>1
  <2>4. CASE k + 1 < lo
    <3>1. seqs[k + 1] = <<>> /\ k < lo /\ f[k] = <<>>
      BY <1>e, <2>1, <2>3, <2>4
    <3>2. f[k + 1] = <<>>
      BY <2>2, <3>1, ConcatEmptySeq
    <3> QED BY <1>e, <2>4, <3>2
  <2>5. CASE hi < k + 1 /\ lo <= k + 1
    <3>1. seqs[k + 1] = <<>>
      BY <2>1, <2>5
    <3>2. f[k + 1] = f[k]
      BY <2>2, <3>1, ConcatEmptySeq
    <3>3. (IF k + 1 < lo THEN lo - 1 ELSE end(k + 1)) = hi
      BY <2>5
    <3>4. (IF k < lo THEN lo - 1 ELSE end(k)) = hi
      BY <2>5
    <3> HIDE DEF end
    <3> QED BY <2>3, <3>2, <3>3, <3>4
  <2>6. CASE lo <= k + 1 /\ k + 1 <= hi
    <3>1. seqs[k + 1] = <<s[k + 1]>>
      BY <2>1, <2>6
    <3>2. f[k] = SubSeq(s, lo, k)
      <4>1. (IF k < lo THEN lo - 1 ELSE end(k)) = k
        BY <2>6
      <4> HIDE DEF end
      <4> QED BY <2>3, <4>1
    <3>3. SubSeq(s, lo, k) \o <<s[k + 1]>> = SubSeq(s, lo, k + 1)
      <4> DEFINE a == SubSeq(s, lo, k)
                 b == SubSeq(s, lo, k + 1)
                 c == a \o <<s[k + 1]>>
                 l == k - lo + 1
      <4>1. s[k + 1] \in S /\ l \in Nat
        BY <1>0, <2>1, <2>6
      <4>2. a \in Seq(S) /\ Len(a) = l /\ \A i \in 1 .. l : a[i] = s[lo + i - 1]
        BY <1>0, <2>1, <2>6, <4>1, SubSeqProperties
      <4>3. b \in Seq(S) /\ Len(b) = l + 1 /\ \A i \in 1 .. (l + 1) : b[i] = s[lo + i - 1]
        BY <1>0, <2>1, <2>6, <4>1, SubSeqProperties
      <4> HIDE DEF a, b
      <4>5. c \in Seq(S) /\ Len(c) = l + 1 /\ (\A i \in 1 .. l : c[i] = a[i]) /\ c[l + 1] = s[k + 1]
        <5> DEFINE x == s[k + 1]
        <5>1. x \in S /\ a \in Seq(S) /\ c = a \o <<x>>
          BY <4>1, <4>2
        <5> HIDE DEF c, l, x
        <5> QED BY <4>2, <5>1, ConcatOne DEF x
      <4>6. lo + (l + 1) - 1 = k + 1
        OBVIOUS
      <4> HIDE DEF c, l
      <4>7. ASSUME NEW i \in 1 .. (l + 1) PROVE c[i] = b[i]
        <5>1. CASE i = l + 1
          BY <4>1, <4>3, <4>5, <4>6, <5>1
        <5>2. CASE i # l + 1
          <6>1. i \in 1 .. l
            BY <4>1, <5>2
          <6> QED BY <4>2, <4>3, <4>5, <6>1
        <5> QED BY <5>1, <5>2
      <4>8. c = b
        BY <4>3, <4>5, <4>7, SeqEqual
      <4> QED BY <4>8 DEF a, b, c
    <3>4. (IF k + 1 < lo THEN lo - 1 ELSE end(k + 1)) = k + 1
      BY <2>6
    <3> HIDE DEF end
    <3> QED BY <2>2, <3>1, <3>2, <3>3, <3>4
  <2> QED BY <2>4, <2>5, <2>6
<1> HIDE DEF A
<1>5. n \in A
  BY <1>0, <1>3, <1>4, Reaches
<1>6. f[n] = SubSeq(s, lo, IF n < lo THEN lo - 1 ELSE end(n))
  BY <1>0, <1>5 DEF A
<1>7. (IF n < lo THEN lo - 1 ELSE end(n)) = hi
  BY <1>0
<1> QED BY <1>2, <1>6, <1>7
=============================================================================

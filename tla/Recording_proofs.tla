-------------------------- MODULE Recording_proofs --------------------------
(***************************************************************************)
(* Theorems about what the two decoders make of a recording (Recording)    *)
(* and about what the panels and the timeline count (Timeline), for every  *)
(* recording the extension writes (WellFormed), however long.              *)
(***************************************************************************)
EXTENDS Timeline, FiniteSetTheorems, FunctionTheorems, SequenceTheorems, WellFoundedInduction, TLAPS

-----------------------------------------------------------------------------
(* Loops, sequences, finite sets.                                           *)

\* A set of natural numbers has a least one.
LEMMA Least ==
    ASSUME NEW T, T \subseteq Nat, T # {}
    PROVE  \E x \in T : \A y \in T : x <= y
<1> DEFINE R == OpToRel(<, Nat)
<1>1. IsWellFoundedOn(R, Nat)
  BY NatLessThanWellFounded
<1>2. \A x, y \in Nat : x < y => <<x, y>> \in R
  BY DEF OpToRel
<1> HIDE DEF R
<1>3. PICK x \in T : \A y \in T : ~ (<<y, x>> \in R)
  BY <1>1, WFMin
<1>4. ASSUME NEW y \in T PROVE x <= y
  <2>1. x \in Nat /\ y \in Nat
    OBVIOUS
  <2>2. ~ (y < x)
    BY <1>2, <1>3, <2>1
  <2> QED
    BY <2>1, <2>2
<1> QED
  BY <1>4

\* Induction over the turns of a loop; T are the turns after which what is
\* claimed holds.
LEMMA Turns ==
    ASSUME NEW n \in Nat, NEW T, 0 \in T, \A k \in 1 .. n : k - 1 \in T => k \in T
    PROVE  \A k \in 0 .. n : k \in T
<1> DEFINE S == {k \in 0 .. n : k \notin T}
<1>1. SUFFICES ASSUME S # {} PROVE FALSE
  OBVIOUS
<1>2. PICK m \in S : \A k \in S : m <= k
  <2>1. S \subseteq Nat
    OBVIOUS
  <2> HIDE DEF S
  <2> QED
    BY <1>1, <2>1, Least
<1>3. m \in 1 .. n /\ m - 1 \in 0 .. n /\ ~(m <= m - 1)
  BY <1>2
<1>4. m - 1 \in T
  BY <1>2, <1>3
<1> QED
  BY <1>2, <1>3, <1>4

\* A loop of n turns, from the value a by the function step.
Loop(a, step, f, n) ==
    f = [k \in 0 .. n |-> IF k = 0 THEN a ELSE step[<<f[k - 1], k>>]]

\* There is a function that runs such a loop.
LEMMA LoopExists ==
    ASSUME NEW n \in Nat, NEW X, NEW a \in X, NEW step \in [X \X (1 .. n) -> X]
    PROVE  \E f \in [0 .. n -> X] : Loop(a, step, f, n)
<1> DEFINE Run(f, m) == f \in [0 .. m -> X] /\ Loop(a, step, f, m)
           T == {m \in 0 .. n : \E f : Run(f, m)}
<1>1. 0 \in T
  <2> DEFINE f == [k \in 0 .. 0 |-> a]
  <2>1. Run(f, 0)
    BY DEF Loop
  <2> HIDE DEF f, Run
  <2> QED
    BY <2>1
<1>2. ASSUME NEW m \in 1 .. n, m - 1 \in T PROVE m \in T
  <2>1. PICK f : Run(f, m - 1)
    BY <1>2
  <2> DEFINE last == step[<<f[m - 1], m>>]
             g == [k \in 0 .. m |-> IF k = m THEN last ELSE f[k]]
  <2>2. f \in [0 .. m - 1 -> X] /\ f[m - 1] \in X
    BY <2>1
  <2>3. last \in X
    BY <2>2
  <2>4. g \in [0 .. m -> X]
    <3> HIDE DEF last
    <3> QED
      BY <2>2, <2>3
  <2>5. \A k \in 0 .. m - 1 : f[k] = IF k = 0 THEN a ELSE step[<<f[k - 1], k>>]
    BY <2>1 DEF Loop
  <2>6. ASSUME NEW k \in 0 .. m PROVE g[k] = IF k = 0 THEN a ELSE step[<<g[k - 1], k>>]
    <3>1. CASE k = m
      <4>1. g[k] = last /\ g[k - 1] = f[m - 1] /\ k # 0
        BY <3>1
      <4> HIDE DEF g
      <4> QED
        BY <3>1, <4>1
    <3>2. CASE k # m
      <4>1. k \in 0 .. m - 1 /\ g[k] = f[k]
        BY <3>2
      <4>2. k # 0 => g[k - 1] = f[k - 1]
        BY <3>2
      <4> HIDE DEF g
      <4> QED
        BY <2>5, <4>1, <4>2
    <3> QED
      BY <3>1, <3>2
  <2>7. Loop(a, step, g, m)
    <3>1. g = [k \in 0 .. m |-> g[k]]
      OBVIOUS
    <3> HIDE DEF g
    <3> QED
      BY <2>6, <3>1 DEF Loop
  <2>8. Run(g, m)
    BY <2>4, <2>7
  <2> HIDE DEF Run, g
  <2> QED
    BY <2>8
<1>3. \A k \in 0 .. n : k \in T
  <2> HIDE DEF T
  <2> QED
    BY <1>1, <1>2, Turns
<1>4. \E f : Run(f, n)
  <2>1. n \in 0 .. n
    OBVIOUS
  <2> QED
    BY <1>3, <2>1
<1> QED
  BY <1>4

\* A function on 1 .. n is a sequence of length n.
LEMMA SequenceOf ==
    ASSUME NEW n \in Nat, NEW f, f = [i \in 1 .. n |-> f[i]]
    PROVE  Len(f) = n /\ DOMAIN f = 1 .. n
<1>1. f \in [1 .. n -> {f[i] : i \in 1 .. n}]
  OBVIOUS
<1>2. f \in Seq({f[i] : i \in 1 .. n})
  BY <1>1
<1> QED
  BY <1>1, <1>2

\* The image of a finite set is finite.
LEMMA FiniteImage ==
    ASSUME NEW S, IsFiniteSet(S), NEW f, DOMAIN f = S
    PROVE  IsFiniteSet({f[x] : x \in S})
<1> DEFINE T == {f[x] : x \in S}
           g == [x \in S |-> f[x]]
<1>1. g \in Surjection(S, T)
  BY DEF Surjection
<1> QED
  BY <1>1, FS_Surjection

\* A bijection onto all of T: as many elements.
LEMMA SameSize ==
    ASSUME NEW S, IsFiniteSet(S), NEW T, NEW f \in [S -> T],
           \A x, y \in S : f[x] = f[y] => x = y,
           \A t \in T : \E x \in S : f[x] = t
    PROVE  IsFiniteSet(T) /\ Cardinality(T) = Cardinality(S)
<1>1. f \in Bijection(S, T)
  BY Fun_IsBij, Fun_IsSurj
<1> QED
  BY <1>1, FS_Bijection DEF ExistsBijection

\* g gives the elements of S the numbers 1 to n.
Numbers(g, S, n) ==
    /\ g \in [S -> 1 .. n]
    /\ \A a, b \in S : g[a] = g[b] => a = b
    /\ \A k \in 1 .. n : \E a \in S : g[a] = k

LEMMA Numbered ==
    ASSUME NEW S, IsFiniteSet(S)
    PROVE  \E g : Numbers(g, S, Cardinality(S))
<1> DEFINE n == Cardinality(S)
<1>1. PICK h : h \in Bijection(1 .. n, S)
  BY FS_CardinalityType DEF ExistsBijection
<1>2. PICK g : g \in Bijection(S, 1 .. n)
  BY <1>1, Fun_BijInverse
<1> HIDE DEF n
<1>3. g \in Surjection(S, 1 .. n) /\ g \in [S -> 1 .. n] /\ \A a, b \in S : g[a] = g[b] => a = b
  BY <1>2, Fun_BijectionProperties
<1>4. \A k \in 1 .. n : \E a \in S : g[a] = k
  BY <1>3, Fun_SurjectionProperties
<1> QED
  BY <1>3, <1>4 DEF Numbers, n

\* Everything in D has a key, and c[x] of them have the key x.
Fibres(D, I, key, c) ==
    /\ \A d \in D : key[d] \in I
    /\ \A x \in I : c[x] = Cardinality({d \in D : key[d] = x})

\* The sum over the keys of how many have that key is how many there are.
LEMMA SumOfFibres ==
    ASSUME NEW D, IsFiniteSet(D), NEW I, NEW key, NEW c, Fibres(D, I, key, c)
    PROVE  Total(I, c) = Cardinality(D)
<1> DEFINE F(x) == {d \in D : key[d] = x}
           P == UNION {{x} \X (1 .. c[x]) : x \in I}
           g == [x \in I |-> CHOOSE h : Numbers(h, F(x), c[x])]
           m == [d \in D |-> <<key[d], g[key[d]][d]>>]
<1>1. ASSUME NEW x \in I PROVE Numbers(g[x], F(x), c[x])
  <2>1. IsFiniteSet(F(x))
    BY FS_Subset
  <2>2. c[x] = Cardinality(F(x))
    BY DEF Fibres
  <2>3. \E h : Numbers(h, F(x), c[x])
    BY <2>1, <2>2, Numbered
  <2> HIDE DEF F
  <2> QED
    BY <2>3
<1> HIDE DEF g
<1>2. ASSUME NEW d \in D PROVE key[d] \in I /\ d \in F(key[d]) /\ g[key[d]][d] \in 1 .. c[key[d]]
  <2>1. key[d] \in I /\ d \in F(key[d])
    BY DEF Fibres
  <2> HIDE DEF F
  <2> QED
    BY <1>1, <2>1 DEF Numbers
<1>3. m \in [D -> P]
  BY <1>2
<1>4. ASSUME NEW d \in D, NEW e \in D, m[d] = m[e] PROVE d = e
  <2>1. key[d] = key[e] /\ g[key[d]][d] = g[key[d]][e]
    BY <1>4
  <2>2. d \in F(key[d]) /\ e \in F(key[d]) /\ key[d] \in I
    BY <1>2, <2>1
  <2> HIDE DEF F
  <2> QED
    BY <1>1, <2>1, <2>2 DEF Numbers
<1>5. ASSUME NEW p \in P PROVE \E d \in D : m[d] = p
  <2>1. PICK x \in I : p \in {x} \X (1 .. c[x])
    OBVIOUS
  <2>2. PICK a \in F(x) : g[x][a] = p[2]
    <3> HIDE DEF F
    <3> QED
      BY <1>1, <2>1 DEF Numbers
  <2>3. a \in D /\ m[a] = p
    BY <2>1, <2>2
  <2> QED
    BY <2>3
<1> HIDE DEF m, P
<1>6. Cardinality(P) = Cardinality(D)
  BY <1>3, <1>4, <1>5, SameSize
<1> QED
  BY <1>6 DEF Total, P

-----------------------------------------------------------------------------
(* Filtered and concatenated sequences.                                     *)

\* r holds the elements of s that are in T, in their order: h says which.
Selected(s, T, r, h) ==
    /\ Len(s) \in Nat /\ Len(r) \in Nat /\ r \in Seq(T)
    /\ h \in [1 .. Len(r) -> 1 .. Len(s)]
    /\ \A k, l \in 1 .. Len(r) : k < l => h[k] < h[l]
    /\ \A k \in 1 .. Len(r) : r[k] = s[h[k]]
    /\ \A i \in 1 .. Len(s) : s[i] \in T => \E k \in 1 .. Len(r) : h[k] = i

\* The loop of Those.
Selects(s, T, f) ==
    f = [i \in 0 .. Len(s) |-> IF i = 0 THEN <<>>
                               ELSE IF s[i] \in T THEN Append(f[i - 1], s[i]) ELSE f[i - 1]]

LEMMA SelectsExists ==
    ASSUME NEW S, NEW s \in Seq(S), NEW T
    PROVE  \E f \in [0 .. Len(s) -> Seq(S)] : Selects(s, T, f)
<1> DEFINE n == Len(s)
           X == Seq(S)
           turn(x, k) == IF s[k] \in T THEN Append(x, s[k]) ELSE x
           step == [x \in X \X (1 .. n) |-> turn(x[1], x[2])]
<1>1. n \in Nat /\ <<>> \in X /\ \A k \in 1 .. n : s[k] \in S
  OBVIOUS
<1>2. \A x \in X, k \in 1 .. n : turn(x, k) \in X
  BY <1>1
<1>3. step \in [X \X (1 .. n) -> X]
  <2> HIDE DEF turn
  <2> QED
    BY <1>2
<1> HIDE DEF step
<1>4. PICK f \in [0 .. n -> X] : Loop(<<>>, step, f, n)
  <2> HIDE DEF X, n
  <2> QED
    BY <1>1, <1>3, LoopExists
<1>5. \A k \in 1 .. n : k - 1 \in 0 .. n /\ f[k - 1] \in X
  <2> HIDE DEF X
  <2> QED
    BY <1>1, <1>4
<1>6. \A k \in 1 .. n : step[<<f[k - 1], k>>] = turn(f[k - 1], k)
  <2> HIDE DEF X, turn, n
  <2> QED
    BY <1>5 DEF step
<1>7. f = [k \in 0 .. n |-> IF k = 0 THEN <<>> ELSE step[<<f[k - 1], k>>]]
  BY <1>4 DEF Loop
<1>8. \A k \in 0 .. n : k # 0 => k \in 1 .. n
  BY <1>1
<1>9. f = [k \in 0 .. n |-> IF k = 0 THEN <<>> ELSE turn(f[k - 1], k)]
  <2> HIDE DEF X, n, turn
  <2> QED
    BY <1>6, <1>7, <1>8
<1> QED
  BY <1>9 DEF Selects

\* What a filter gives back.
LEMMA ThoseAre ==
    ASSUME NEW S, NEW s \in Seq(S), NEW T
    PROVE  \E h : Selected(s, T, Those(s, T), h)
<1> DEFINE n == Len(s)
           upTo == CHOOSE f : Selects(s, T, f)
<1>1. n \in Nat /\ \A k \in 1 .. n : s[k] \in S
  OBVIOUS
<1>2. Selects(s, T, upTo)
  BY SelectsExists
<1>3. Those(s, T) = upTo[n]
  BY DEF Those, Selects
<1> HIDE DEF upTo
<1>4. upTo[0] = <<>>
  BY <1>1, <1>2 DEF Selects
<1>5. \A k \in 1 .. n : upTo[k] = IF s[k] \in T THEN Append(upTo[k - 1], s[k]) ELSE upTo[k - 1]
  <2>1. \A k \in 1 .. n : k \in 0 .. n /\ k # 0
    BY <1>1
  <2>2. upTo = [i \in 0 .. n |-> IF i = 0 THEN <<>>
                                ELSE IF s[i] \in T THEN Append(upTo[i - 1], s[i]) ELSE upTo[i - 1]]
    BY <1>2 DEF Selects
  <2> HIDE DEF n
  <2> QED
    BY <2>1, <2>2
<1> DEFINE Sel(r, m, h) ==
               /\ Len(r) \in Nat /\ r \in Seq(T)
               /\ h \in [1 .. Len(r) -> 1 .. m]
               /\ \A k, l \in 1 .. Len(r) : k < l => h[k] < h[l]
               /\ \A k \in 1 .. Len(r) : r[k] = s[h[k]]
               /\ \A i \in 1 .. m : s[i] \in T => \E k \in 1 .. Len(r) : h[k] = i
           Done == {m \in 0 .. n : \E h : Sel(upTo[m], m, h)}
<1>6. 0 \in Done
  <2>1. Sel(<<>>, 0, <<>>)
    OBVIOUS
  <2> HIDE DEF Sel
  <2> QED
    BY <1>1, <1>4, <2>1
<1>7. ASSUME NEW m \in 1 .. n, m - 1 \in Done PROVE m \in Done
  <2> DEFINE q == upTo[m - 1]
  <2>1. PICK h : Sel(q, m - 1, h)
    BY <1>7
  <2>2. CASE s[m] \in T
    <3> DEFINE r == Append(q, s[m])
               g == [k \in 1 .. Len(r) |-> IF k = Len(r) THEN m ELSE h[k]]
    <3>1. /\ r \in Seq(T) /\ Len(r) = Len(q) + 1 /\ r[Len(r)] = s[m]
          /\ \A k \in 1 .. Len(q) : r[k] = q[k]
      <4> HIDE DEF q
      <4> QED
        BY <2>1, <2>2
    <3> HIDE DEF r, q
    <3>2. g \in [1 .. Len(r) -> 1 .. m]
      BY <1>1, <2>1, <3>1
    <3>3. ASSUME NEW k \in 1 .. Len(r), NEW l \in 1 .. Len(r), k < l PROVE g[k] < g[l]
      <4>1. Len(q) \in Nat /\ k \in 1 .. Len(q) /\ g[k] = h[k] /\ h[k] \in 1 .. m - 1
        BY <2>1, <3>1, <3>3
      <4>2. CASE l = Len(r)
        BY <4>1, <4>2
      <4>3. CASE l # Len(r)
        <5>1. l \in 1 .. Len(q) /\ g[l] = h[l]
          BY <3>1, <4>1, <4>3
        <5> HIDE DEF g
        <5> QED
          BY <2>1, <3>3, <4>1, <5>1
      <4> QED
        BY <4>2, <4>3
    <3>4. \A k \in 1 .. Len(r) : r[k] = s[g[k]]
      BY <1>1, <2>1, <3>1
    <3>5. ASSUME NEW i \in 1 .. m, s[i] \in T PROVE \E k \in 1 .. Len(r) : g[k] = i
      <4>1. CASE i = m
        BY <2>1, <3>1, <4>1
      <4>2. CASE i # m
        <5>1. PICK k \in 1 .. Len(q) : h[k] = i
          BY <1>1, <2>1, <3>5, <4>2
        <5>2. k \in 1 .. Len(r) /\ g[k] = i
          BY <2>1, <3>1, <5>1
        <5> QED
          BY <5>2
      <4> QED
        BY <4>1, <4>2
    <3>6. Sel(r, m, g)
      <4> HIDE DEF g
      <4> QED
        BY <2>1, <3>1, <3>2, <3>3, <3>4, <3>5
    <3>7. upTo[m] = r
      BY <1>5, <2>2 DEF r, q
    <3> HIDE DEF Sel, g
    <3> QED
      BY <3>6, <3>7
  <2>3. CASE s[m] \notin T
    <3>1. upTo[m] = q
      BY <1>5, <2>3
    <3>2. Sel(q, m, h)
      <4>1. h \in [1 .. Len(q) -> 1 .. m]
        BY <2>1
      <4>2. \A i \in 1 .. m : s[i] \in T => i \in 1 .. m - 1
        BY <2>3
      <4> HIDE DEF q
      <4> QED
        BY <2>1, <4>1, <4>2
    <3> HIDE DEF Sel, q
    <3> QED
      BY <3>1, <3>2
  <2> QED
    BY <2>2, <2>3
<1>8. \A k \in 0 .. n : k \in Done
  <2> HIDE DEF Done
  <2> QED
    BY <1>1, <1>6, <1>7, Turns
<1>9. PICK h : Sel(upTo[n], n, h)
  <2>1. n \in 0 .. n
    BY <1>1
  <2> QED
    BY <1>8, <2>1
<1> QED
  BY <1>1, <1>3, <1>9 DEF Selected

\* The loop of FlattenSeq.
Joins(seqs, f) ==
    /\ f[0] = <<>>
    /\ \A i \in 1 .. Len(seqs) : f[i] = f[i - 1] \o seqs[i]

LEMMA Flattened ==
    ASSUME NEW A, NEW seqs, Len(seqs) \in Nat, seqs = [i \in 1 .. Len(seqs) |-> seqs[i]],
           \A i \in 1 .. Len(seqs) : seqs[i] \in Seq(A)
    PROVE  \E f \in [0 .. Len(seqs) -> Seq(A)] :
                Joins(seqs, f) /\ FlattenSeq(seqs) = f[Len(seqs)]
<1> DEFINE n == Len(seqs)
           X == Seq(A)
           step == [x \in X \X (1 .. n) |-> x[1] \o seqs[x[2]]]
<1>1. n \in Nat /\ <<>> \in X /\ \A i \in 1 .. n : seqs[i] \in X
  OBVIOUS
<1>2. step \in [X \X (1 .. n) -> X]
  <2>1. \A s, t \in X : s \o t \in X
    OBVIOUS
  <2> HIDE DEF X, n
  <2> QED
    BY <1>1, <2>1
<1>3. PICK f \in [0 .. n -> X] : Loop(<<>>, step, f, n)
  <2> HIDE DEF X, n, step
  <2> QED
    BY <1>1, <1>2, LoopExists
<1>4. \A k \in 1 .. n : k \in 0 .. n /\ k # 0 /\ k - 1 \in 0 .. n /\ f[k - 1] \in X
  <2> HIDE DEF X
  <2> QED
    BY <1>1, <1>3
<1>5. f[0] = <<>> /\ 0 \in 0 .. n
  BY <1>1, <1>3 DEF Loop
<1>6. \A k \in 1 .. n : f[k] = f[k - 1] \o seqs[k]
  <2>1. f = [k \in 0 .. n |-> IF k = 0 THEN <<>> ELSE step[<<f[k - 1], k>>]]
    BY <1>3 DEF Loop
  <2>2. \A k \in 1 .. n : step[<<f[k - 1], k>>] = f[k - 1] \o seqs[k]
    <3> HIDE DEF X, n
    <3> QED
      BY <1>4
  <2> HIDE DEF X, n, step
  <2> QED
    BY <1>4, <2>1, <2>2
<1>7. \A k \in 1 .. n : k = 1 => f[k] = seqs[k]
  <2> SUFFICES ASSUME NEW k \in 1 .. n, k = 1 PROVE f[k] = seqs[k]
    OBVIOUS
  <2>1. k - 1 = 0
    OBVIOUS
  <2>2. f[k] = f[k - 1] \o seqs[k]
    BY <1>6
  <2>3. f[k] = <<>> \o seqs[k]
    BY <1>5, <2>1, <2>2
  <2>4. <<>> \o seqs[k] = seqs[k]
    BY <1>1, ConcatEmptySeq
  <2> QED
    BY <2>3, <2>4
<1>8. FlattenSeq(seqs) = f[n]
  <2>1. CASE n = 0
    <3>1. seqs = <<>>
      BY <2>1
    <3> QED
      BY <1>5, <2>1, <3>1 DEF FlattenSeq
  <2>2. CASE n # 0
    <3> DEFINE Flat(g) == g = [i \in 1 .. n |-> IF i = 1 THEN seqs[i] ELSE g[i - 1] \o seqs[i]]
               h == [i \in 1 .. n |-> f[i]]
               flatten == CHOOSE g : Flat(g)
    <3>1. ASSUME NEW i \in 1 .. n PROVE h[i] = IF i = 1 THEN seqs[i] ELSE h[i - 1] \o seqs[i]
      <4>1. CASE i = 1
        BY <1>7, <4>1
      <4>2. CASE i # 1
        <5>1. i - 1 \in 1 .. n
          BY <1>1, <4>2
        <5> QED
          BY <1>6, <4>2, <5>1
      <4> QED
        BY <4>1, <4>2
    <3>2. Flat(h)
      <4>1. h = [i \in 1 .. n |-> h[i]]
        OBVIOUS
      <4> HIDE DEF h, n
      <4> QED
        BY <3>1, <4>1
    <3>3. Flat(flatten)
      <4> HIDE DEF Flat, h
      <4> QED
        BY <3>2
    <3>4. FlattenSeq(seqs) = flatten[n]
      BY <2>2 DEF FlattenSeq
    <3> HIDE DEF flatten, h
    <3>5. \A i \in 1 .. n : flatten[i] = IF i = 1 THEN seqs[i] ELSE flatten[i - 1] \o seqs[i]
      <4> HIDE DEF n
      <4> QED
        BY <3>3
    <3> DEFINE T == {k \in 0 .. n : k # 0 => flatten[k] = f[k]}
    <3>6. 0 \in T
      BY <1>1
    <3>7. ASSUME NEW k \in 1 .. n, k - 1 \in T PROVE k \in T
      <4>1. CASE k = 1
        <5>1. k \in 0 .. n /\ flatten[k] = seqs[k] /\ f[k] = seqs[k]
          BY <1>1, <1>7, <3>5, <4>1
        <5> HIDE DEF n
        <5> QED
          BY <5>1
      <4>2. CASE k # 1
        <5>1. k \in 0 .. n /\ k - 1 # 0
          BY <1>1, <4>2
        <5>2. flatten[k - 1] = f[k - 1]
          BY <3>7, <5>1
        <5>3. flatten[k] = flatten[k - 1] \o seqs[k] /\ f[k] = f[k - 1] \o seqs[k]
          BY <1>6, <3>5, <4>2
        <5>4. flatten[k] = f[k]
          BY <5>2, <5>3
        <5> HIDE DEF n
        <5> QED
          BY <5>1, <5>4
      <4> QED
        BY <4>1, <4>2
    <3>8. \A k \in 0 .. n : k \in T
      <4> HIDE DEF T
      <4> QED
        BY <1>1, <3>6, <3>7, Turns
    <3>9. n \in T
      <4>1. n \in 0 .. n
        BY <1>1
      <4> QED
        BY <3>8, <4>1
    <3> QED
      BY <2>2, <3>4, <3>9
  <2> QED
    BY <2>1, <2>2
<1> QED
  BY <1>3, <1>5, <1>6, <1>8 DEF Joins

\* SetToSeq of none or one.
LEMMA FewInSequence ==
    ASSUME NEW e
    PROVE  SetToSeq({}) = <<>> /\ SetToSeq({e}) = <<e>>
<1>1. Cardinality({}) = 0 /\ Cardinality({e}) = 1
  BY FS_EmptySet, FS_Singleton
<1>2. SetToSeq({}) = <<>>
  <2> DEFINE P(f) == f \in [1 .. 0 -> {}] /\ IsInjective(f)
  <2>1. \A f : f \in [1 .. 0 -> {}] => f = <<>>
    OBVIOUS
  <2>2. <<>> \in [1 .. 0 -> {}] /\ IsInjective(<<>>)
    BY DEF IsInjective
  <2>3. \E f \in [1 .. 0 -> {}] : IsInjective(f)
    BY <2>2
  <2>4. SetToSeq({}) \in [1 .. 0 -> {}]
    BY <1>1, <2>3 DEF SetToSeq
  <2> QED
    BY <2>1, <2>4
<1>3. SetToSeq({e}) = <<e>>
  <2>1. \A f : f \in [1 .. 1 -> {e}] => f = <<e>>
    OBVIOUS
  <2>2. <<e>> \in [1 .. 1 -> {e}] /\ IsInjective(<<e>>)
    BY DEF IsInjective
  <2>3. \E f \in [1 .. 1 -> {e}] : IsInjective(f)
    BY <2>2
  <2>4. SetToSeq({e}) \in [1 .. 1 -> {e}]
    BY <1>1, <2>3 DEF SetToSeq
  <2> QED
    BY <2>1, <2>4
<1> QED
  BY <1>2, <1>3

-----------------------------------------------------------------------------
(* Entities.                                                                *)

\* The frames one of the states stands for.
FramesOf(raw, i) ==
    LET p == raw.positions
    IN  IF p[i].range = <<>> THEN {raw.start + i - 1} ELSE p[i].range[1] .. p[i].range[2]

\* The states stand one after the other for the frames from the start on, each
\* for the ones that are its own.
StandFor(raw, states, c, m) ==
    /\ \A j \in 1 .. m : \A f \in FramesOf(raw, j) :
        /\ f - raw.start + 1 \in 1 .. Len(states)
        /\ states[f - raw.start + 1] = c[j]
    /\ \A k \in 1 .. Len(states) : \E j \in 1 .. m : raw.start + k - 1 \in FramesOf(raw, j)
    /\ Len(states) = IF m = 0 THEN 0
                     ELSE IF raw.positions[m].range = <<>> THEN m
                     ELSE raw.positions[m].range[2] - raw.start + 1

LEMMA RawEntity ==
    ASSUME NEW raw \in RawEntities
    PROVE  LET p == raw.positions
           IN  /\ raw.start \in Nat /\ Len(p) \in Nat /\ DOMAIN p = 1 .. Len(p)
               /\ raw.unit \in BOOLEAN /\ raw.id \in Nat
               /\ \A i \in 1 .. Len(p) : p[i] \in RawStates
               /\ Consecutive(raw)
               /\ raw.unit => \A i \in 1 .. Len(p) : p[i].range = <<>>
               /\ ~raw.unit => /\ raw.class # "unit" /\ ~raw.player
                               /\ \A i \in 1 .. Len(p) : p[i].side = None
<1>1. raw.positions \in Seq(RawStates)
  BY DEF RawEntities
<1>2. raw.start \in Nat /\ raw.unit \in BOOLEAN /\ raw.id \in Nat
  BY DEF RawEntities
<1>3. /\ Consecutive(raw)
      /\ raw.unit => \A i \in DOMAIN raw.positions : raw.positions[i].range = <<>>
      /\ ~raw.unit => /\ raw.class # "unit" /\ ~raw.player
                      /\ \A i \in DOMAIN raw.positions : raw.positions[i].side = None
  BY DEF RawEntities
<1>4. /\ Len(raw.positions) \in Nat /\ DOMAIN raw.positions = 1 .. Len(raw.positions)
      /\ \A i \in 1 .. Len(raw.positions) : raw.positions[i] \in RawStates
  <2> DEFINE p == raw.positions
  <2> HIDE DEF p
  <2>1. p \in Seq(RawStates) => /\ Len(p) \in Nat /\ DOMAIN p = 1 .. Len(p)
                                /\ \A i \in 1 .. Len(p) : p[i] \in RawStates
    OBVIOUS
  <2> QED
    BY <1>1, <2>1 DEF p
<1> QED
  BY <1>2, <1>3, <1>4

\* Where a state's frames begin and end.
LEMMA FramesFollow ==
    ASSUME NEW raw \in RawEntities, NEW i \in 1 .. Len(raw.positions)
    PROVE  LET p == raw.positions
               before == IF i = 1 THEN 0 ELSE IF p[i - 1].range = <<>> THEN i - 1
                         ELSE p[i - 1].range[2] - raw.start + 1
               upTo == IF p[i].range = <<>> THEN i ELSE p[i].range[2] - raw.start + 1
           IN  /\ Copies(p[i]) \in Nat \ {0}
               /\ upTo = before + Copies(p[i])
               /\ before \in Int
               /\ FramesOf(raw, i) = raw.start + before .. raw.start + upTo - 1
<1> DEFINE p == raw.positions
<1>1. /\ raw.start \in Nat /\ Len(p) \in Nat /\ DOMAIN p = 1 .. Len(p)
      /\ \A k \in 1 .. Len(p) : p[k] \in RawStates
      /\ Consecutive(raw)
  BY RawEntity
<1>2. \A k \in 1 .. Len(p) : p[k].range = <<>> \/
            (p[k].range # <<>> /\ p[k].range \in Nat \X Nat /\ p[k].range[1] \in Nat /\ p[k].range[2] \in Nat)
  BY <1>1 DEF RawStates
<1>3. \/ \A k \in 1 .. Len(p) : p[k].range = <<>>
      \/ \A k \in 1 .. Len(p) :
            /\ p[k].range # <<>> /\ p[k].range[1] <= p[k].range[2]
            /\ p[k].range[1] = IF k = 1 THEN raw.start ELSE p[k - 1].range[2] + 1
  BY <1>1 DEF Consecutive
<1> HIDE DEF p
<1>4. i # 1 => i - 1 \in 1 .. Len(p)
  BY <1>1 DEF p
<1>5. i \in 1 .. Len(p) /\ i \in Nat
  BY <1>1 DEF p
<1>6. CASE \A k \in 1 .. Len(p) : p[k].range = <<>>
  <2>1. p[i].range = <<>> /\ (i # 1 => p[i - 1].range = <<>>)
    BY <1>4, <1>5, <1>6
  <2>2. Copies(p[i]) = 1 /\ FramesOf(raw, i) = {raw.start + i - 1}
    BY <2>1 DEF Copies, FramesOf, p
  <2> QED
    BY <1>1, <1>5, <2>1, <2>2 DEF p
<1>7. CASE \A k \in 1 .. Len(p) :
            /\ p[k].range # <<>> /\ p[k].range[1] <= p[k].range[2]
            /\ p[k].range[1] = IF k = 1 THEN raw.start ELSE p[k - 1].range[2] + 1
  <2>1. /\ p[i].range # <<>> /\ p[i].range[1] \in Nat /\ p[i].range[2] \in Nat
        /\ p[i].range[1] <= p[i].range[2]
        /\ p[i].range[1] = IF i = 1 THEN raw.start ELSE p[i - 1].range[2] + 1
        /\ i # 1 => p[i - 1].range # <<>> /\ p[i - 1].range[2] \in Nat
    BY <1>2, <1>4, <1>5, <1>7
  <2>2. /\ Copies(p[i]) = p[i].range[2] - p[i].range[1] + 1
        /\ FramesOf(raw, i) = p[i].range[1] .. p[i].range[2]
    BY <2>1 DEF Copies, FramesOf, p
  <2>3. CASE i = 1
    BY <1>1, <2>1, <2>2, <2>3 DEF p
  <2>4. CASE i # 1
    <3> DEFINE a == p[i - 1].range[2]
    <3>1. a \in Nat /\ p[i - 1].range # <<>> /\ p[i].range[1] = a + 1
      BY <2>1, <2>4
    <3>2. a - raw.start + 1 \in Int /\ raw.start + (a - raw.start + 1) = a + 1
      BY <1>1, <3>1
    <3>3. p[i].range[2] - raw.start + 1 = (a - raw.start + 1) + Copies(p[i])
      <4> DEFINE b == p[i].range[2]
      <4>1. Copies(p[i]) = b - (a + 1) + 1 /\ b \in Nat
        BY <2>1, <2>2, <3>1
      <4> HIDE DEF a, b
      <4>2. b - raw.start + 1 = (a - raw.start + 1) + (b - (a + 1) + 1)
        BY <1>1, <3>1, <4>1
      <4> QED
        BY <4>1, <4>2 DEF b
    <3>4. raw.start + (p[i].range[2] - raw.start + 1) - 1 = p[i].range[2]
      BY <1>1, <2>1
    <3>5. Copies(p[i]) \in Nat \ {0}
      BY <2>1, <2>2
    <3> QED
      BY <2>1, <2>2, <2>4, <3>1, <3>2, <3>3, <3>4, <3>5 DEF p
  <2> QED
    BY <2>3, <2>4
<1> QED
  BY <1>3, <1>6, <1>7

\* One state per state of the recording where there are no ranges.
LEMMA DensePlaced ==
    ASSUME NEW raw \in RawEntities, NEW c, c = [i \in 1 .. Len(raw.positions) |-> c[i]],
           \A i \in 1 .. Len(raw.positions) : raw.positions[i].range = <<>>
    PROVE  StandFor(raw, c, c, Len(raw.positions)) /\ Len(c) = Len(raw.positions)
<1> DEFINE n == Len(raw.positions)
<1>1. raw.start \in Nat /\ n \in Nat
  BY RawEntity
<1> HIDE DEF n
<1>2. Len(c) = n
  BY <1>1, SequenceOf DEF n
<1>3. \A i \in 1 .. n : FramesOf(raw, i) = {raw.start + i - 1}
  BY DEF FramesOf, n
<1>4. n # 0 => raw.positions[n].range = <<>>
  BY <1>1 DEF n
<1>5. \A k \in 1 .. n : raw.start + k - 1 \in FramesOf(raw, k)
  BY <1>3
<1> QED
  BY <1>1, <1>2, <1>3, <1>4, <1>5 DEF StandFor, n

\* The ranges, expanded.
LEMMA RangesPlaced ==
    ASSUME NEW raw \in RawEntities, NEW A, NEW c,
           \A i \in 1 .. Len(raw.positions) : c[i] \in A
    PROVE  LET p == raw.positions
               states == FlattenSeq([i \in DOMAIN p |-> [n \in 1 .. Copies(p[i]) |-> c[i]]])
           IN  states \in Seq(A) /\ StandFor(raw, states, c, Len(p))
<1> DEFINE p == raw.positions
           n == Len(p)
           seqs == [i \in DOMAIN p |-> [k \in 1 .. Copies(p[i]) |-> c[i]]]
           L(i) == IF i = 0 THEN 0 ELSE IF p[i].range = <<>> THEN i ELSE p[i].range[2] - raw.start + 1
<1>1. raw.start \in Nat /\ n \in Nat /\ DOMAIN p = 1 .. n
  BY RawEntity
<1>2. ASSUME NEW i \in 1 .. n
      PROVE  /\ Copies(p[i]) \in Nat \ {0} /\ L(i - 1) \in Int /\ L(i) = L(i - 1) + Copies(p[i])
             /\ FramesOf(raw, i) = raw.start + L(i - 1) .. raw.start + L(i) - 1
  <2>1. LET before == IF i = 1 THEN 0 ELSE IF p[i - 1].range = <<>> THEN i - 1
                      ELSE p[i - 1].range[2] - raw.start + 1
            upTo == IF p[i].range = <<>> THEN i ELSE p[i].range[2] - raw.start + 1
        IN  /\ Copies(p[i]) \in Nat \ {0}
            /\ upTo = before + Copies(p[i])
            /\ before \in Int
            /\ FramesOf(raw, i) = raw.start + before .. raw.start + upTo - 1
    BY FramesFollow
  <2>2. i - 1 = 0 <=> i = 1
    OBVIOUS
  <2>3. i # 0
    OBVIOUS
  <2> HIDE DEF p
  <2> QED
    BY <2>1, <2>2, <2>3
<1>3. seqs = [i \in 1 .. n |-> seqs[i]] /\ Len(seqs) = n
  <2>1. seqs = [i \in 1 .. n |-> seqs[i]]
    BY <1>1
  <2> HIDE DEF seqs, n
  <2> QED
    BY <1>1, <2>1, SequenceOf
<1>4. ASSUME NEW i \in 1 .. n
      PROVE  /\ seqs[i] \in Seq(A) /\ Len(seqs[i]) = Copies(p[i])
             /\ \A k \in 1 .. Copies(p[i]) : seqs[i][k] = c[i]
  <2>1. seqs[i] = [k \in 1 .. Copies(p[i]) |-> c[i]]
    BY <1>1
  <2>2. Copies(p[i]) \in Nat /\ c[i] \in A
    BY <1>2
  <2> HIDE DEF seqs, p
  <2> QED
    BY <2>1, <2>2
<1> HIDE DEF seqs, n, L
<1>5. PICK flat \in [0 .. n -> Seq(A)] : Joins(seqs, flat) /\ FlattenSeq(seqs) = flat[n]
  BY <1>1, <1>3, <1>4, Flattened
<1> DEFINE Until(m) ==
               /\ Len(flat[m]) = L(m)
               /\ \A j \in 1 .. m : \A f \in FramesOf(raw, j) :
                    /\ f - raw.start + 1 \in 1 .. L(m)
                    /\ flat[m][f - raw.start + 1] = c[j]
               /\ \A k \in 1 .. L(m) : \E j \in 1 .. m : raw.start + k - 1 \in FramesOf(raw, j)
           T == {m \in 0 .. n : Until(m)}
<1>6. 0 \in T
  <2>1. flat[0] = <<>> /\ L(0) = 0
    BY <1>5 DEF Joins, L
  <2> QED
    BY <1>1, <2>1
<1>7. ASSUME NEW m \in 1 .. n, m - 1 \in T PROVE m \in T
  <2> DEFINE q == flat[m - 1]
             r == flat[m]
             w == Copies(p[m])
  <2>1. /\ m - 1 \in 0 .. n /\ m \in 0 .. n /\ q \in Seq(A) /\ r \in Seq(A)
        /\ seqs[m] \in Seq(A) /\ Len(seqs[m]) = w /\ w \in Nat \ {0}
        /\ \A k \in 1 .. w : seqs[m][k] = c[m]
    BY <1>1, <1>2, <1>4, <1>5
  <2>2. r = q \o seqs[m]
    BY <1>3, <1>5 DEF Joins
  <2>3. Len(q) = L(m - 1) /\ L(m) = L(m - 1) + w /\ L(m - 1) \in Nat
    <3>1. Len(q) = L(m - 1)
      BY <1>7
    <3>2. Len(q) \in Nat
      BY <2>1
    <3> QED
      BY <1>2, <3>1, <3>2
  <2>4. /\ Len(r) = L(m)
        /\ \A k \in 1 .. L(m - 1) : r[k] = q[k]
        /\ \A k \in L(m - 1) + 1 .. L(m) : r[k] = c[m]
    <3> DEFINE s == seqs[m]
    <3>1. q \in Seq(A) /\ s \in Seq(A) /\ r = q \o s
      BY <2>1, <2>2
    <3> HIDE DEF q, s, r
    <3>2. /\ Len(r) = Len(q) + Len(s)
          /\ \A k \in 1 .. Len(r) : r[k] = IF k <= Len(q) THEN q[k] ELSE s[k - Len(q)]
      BY <3>1, ConcatProperties
    <3>3. Len(s) = w /\ \A k \in 1 .. w : s[k] = c[m]
      BY <2>1 DEF s
    <3> HIDE DEF w
    <3>4. w \in Nat
      BY <2>1 DEF w
    <3> QED
      BY <2>3, <3>2, <3>3, <3>4
  <2>5. FramesOf(raw, m) = raw.start + L(m - 1) .. raw.start + L(m) - 1
    BY <1>2
  <2>6. /\ \A j \in 1 .. m - 1 : \A f \in FramesOf(raw, j) :
            /\ f - raw.start + 1 \in 1 .. L(m - 1)
            /\ q[f - raw.start + 1] = c[j]
        /\ \A k \in 1 .. L(m - 1) : \E j \in 1 .. m - 1 : raw.start + k - 1 \in FramesOf(raw, j)
    BY <1>7
  <2> HIDE DEF q, r, w
  <2>7. ASSUME NEW j \in 1 .. m, NEW f \in FramesOf(raw, j)
        PROVE  f - raw.start + 1 \in 1 .. L(m) /\ r[f - raw.start + 1] = c[j]
    <3>1. CASE j = m
      <4>1. f - raw.start + 1 \in L(m - 1) + 1 .. L(m)
        <5> DEFINE x == L(m - 1)
                   y == L(m)
        <5>1. f \in raw.start + x .. raw.start + y - 1 /\ x \in Nat /\ y \in Nat
          BY <2>1, <2>3, <2>5, <3>1
        <5> HIDE DEF x, y
        <5>2. f - raw.start + 1 \in x + 1 .. y
          BY <1>1, <5>1
        <5> QED
          BY <5>2 DEF x, y
      <4> QED
        BY <2>3, <2>4, <3>1, <4>1
    <3>2. CASE j # m
      <4>1. j \in 1 .. m - 1
        BY <3>2
      <4>2. f - raw.start + 1 \in 1 .. L(m - 1) /\ q[f - raw.start + 1] = c[j]
        BY <2>6, <4>1
      <4> QED
        BY <2>1, <2>3, <2>4, <4>2
    <3> QED
      BY <3>1, <3>2
  <2>8. ASSUME NEW k \in 1 .. L(m) PROVE \E j \in 1 .. m : raw.start + k - 1 \in FramesOf(raw, j)
    <3>1. CASE k <= L(m - 1)
      <4>1. PICK j \in 1 .. m - 1 : raw.start + k - 1 \in FramesOf(raw, j)
        BY <2>3, <2>6, <3>1
      <4>2. j \in 1 .. m
        OBVIOUS
      <4> QED
        BY <4>1, <4>2
    <3>2. CASE ~(k <= L(m - 1))
      <4>1. raw.start + k - 1 \in FramesOf(raw, m)
        <5> DEFINE x == L(m - 1)
                   y == L(m)
        <5>1. k \in 1 .. y /\ ~(k <= x) /\ x \in Nat /\ y \in Nat
          BY <2>1, <2>3, <3>2
        <5> HIDE DEF x, y
        <5>2. raw.start + k - 1 \in raw.start + x .. raw.start + y - 1
          BY <1>1, <5>1
        <5> QED
          BY <2>5, <5>2 DEF x, y
      <4>2. m \in 1 .. m
        OBVIOUS
      <4> QED
        BY <4>1, <4>2
    <3> QED
      BY <3>1, <3>2
  <2>9. Until(m)
    BY <2>4, <2>7, <2>8 DEF r
  <2> HIDE DEF Until
  <2> QED
    BY <2>1, <2>9
<1>8. \A k \in 0 .. n : k \in T
  <2> HIDE DEF T
  <2> QED
    BY <1>1, <1>6, <1>7, Turns
<1>9. Until(n)
  <2>1. n \in 0 .. n
    BY <1>1
  <2> QED
    BY <1>8, <2>1
<1>10. flat[n] \in Seq(A)
  BY <1>1, <1>5
<1>11. StandFor(raw, flat[n], c, n)
  <2>1. Len(flat[n]) = L(n)
    BY <1>9
  <2> QED
    BY <1>9, <2>1 DEF StandFor, L
<1> QED
  BY <1>5, <1>10, <1>11 DEF seqs, n

\* A set of numbers up to n has a greatest one.
LEMMA Greatest ==
    ASSUME NEW n \in Nat, NEW T, T \subseteq 0 .. n, T # {}
    PROVE  Max(T) \in T /\ \A y \in T : Max(T) >= y
<1> DEFINE U == {n - j : j \in T}
<1>1. PICK u \in U : \A y \in U : u <= y
  <2>1. U \subseteq Nat
    <3>1. \A j \in T : n - j \in Nat
      OBVIOUS
    <3> QED
      BY <3>1
  <2>2. U # {}
    <3>1. PICK j \in T : TRUE
      OBVIOUS
    <3>2. n - j \in U
      OBVIOUS
    <3> QED
      BY <3>2
  <2> HIDE DEF U
  <2> QED
    BY <2>1, <2>2, Least
<1>2. PICK x \in T : u = n - x
  OBVIOUS
<1>3. \A y \in T : x >= y
  <2> SUFFICES ASSUME NEW y \in T PROVE x >= y
    OBVIOUS
  <2>1. x \in 0 .. n /\ y \in 0 .. n /\ n - x <= n - y
    BY <1>1, <1>2
  <2> QED
    BY <2>1
<1>4. \E m \in T : \A y \in T : m >= y
  BY <1>3
<1> QED
  BY <1>4 DEF Max

\* The states of a frame, of a vehicle or a unit, are the ones the server
\* collects for it.
LEMMA SameStates ==
    ASSUME NEW raw \in RawEntities, NEW i \in 1 .. Len(raw.positions)
    PROVE  LET p == raw.positions
           IN  convertEntityState(
                    [at |-> p[i].at, alive |-> p[i].alive, side |-> p[i].side,
                     inVehicle |-> raw.unit /\ p[i].vehicle >= 1,
                     crew |-> IF raw.unit THEN <<>> ELSE p[i].crew]) =
               IF raw.unit THEN convertUnitPosition(p[i]) ELSE convertVehiclePosition(p[i])
<1> DEFINE p == raw.positions
<1>1. p[i] \in RawStates /\ raw.unit \in BOOLEAN /\ (~raw.unit => p[i].side = None)
  BY RawEntity
<1>2. p[i].vehicle \in Nat /\ p[i].alive \in 0 .. 3
  BY <1>1 DEF RawStates
<1> HIDE DEF p
<1>3. p[i].alive % 4 = p[i].alive
  BY <1>2
<1>4. \A x : convertEntityState([at |-> p[i].at, alive |-> p[i].alive, side |-> p[i].side,
                                 inVehicle |-> x,
                                 crew |-> IF raw.unit THEN <<>> ELSE p[i].crew]) =
             [at |-> p[i].at, alive |-> p[i].alive,
              side |-> IF p[i].side = None THEN None ELSE mapSideString(p[i].side),
              inVehicle |-> x, crew |-> IF raw.unit THEN <<>> ELSE p[i].crew]
  <2> DEFINE q == p[i].alive
  <2> HIDE DEF q
  <2>1. ASSUME NEW at, NEW side, NEW x, NEW crew
        PROVE  convertEntityState([at |-> at, alive |-> q, side |-> side,
                                   inVehicle |-> x, crew |-> crew]) =
               [at |-> at, alive |-> q,
                side |-> IF side = None THEN None ELSE mapSideString(side),
                inVehicle |-> x, crew |-> crew]
    <3>1. q % 4 = q
      BY <1>3 DEF q
    <3> QED
      BY <3>1 DEF convertEntityState
  <2> QED
    BY <2>1 DEF q
<1>5. CASE raw.unit
  <2>1. p[i].vehicle >= 1 <=> p[i].vehicle # 0
    BY <1>2
  <2>2. (raw.unit /\ p[i].vehicle >= 1) = (p[i].vehicle # 0)
    BY <1>5, <2>1
  <2>3. \A s : mapSideString(s) = mapSide(s)
    BY DEF mapSideString, mapSide
  <2> QED
    BY <1>5, <1>4, <2>2, <2>3 DEF convertUnitPosition, p
<1>6. CASE ~raw.unit
  <2>1. (raw.unit /\ p[i].vehicle >= 1) = FALSE
    BY <1>6
  <2> QED
    BY <1>1, <1>6, <1>4, <2>1 DEF convertVehiclePosition, p
<1> QED
  BY <1>5, <1>6

\* What the browser reads in JSON of an entity.
LEMMA StatesPlaced ==
    ASSUME NEW raw \in RawEntities
    PROVE  LET p == raw.positions
               c == [i \in 1 .. Len(p) |-> IF raw.unit THEN convertUnitPosition(p[i])
                                           ELSE convertVehiclePosition(p[i])]
               states == convertEntity(raw).positions
           IN  Len(states) \in Nat /\ StandFor(raw, states, c, Len(p))
<1> DEFINE p == raw.positions
           c == [i \in 1 .. Len(p) |-> IF raw.unit THEN convertUnitPosition(p[i])
                                       ELSE convertVehiclePosition(p[i])]
           states == convertEntity(raw).positions
<1>1. /\ Len(p) \in Nat /\ DOMAIN p = 1 .. Len(p) /\ raw.unit \in BOOLEAN
      /\ raw.unit => \A i \in 1 .. Len(p) : p[i].range = <<>>
  BY RawEntity
<1>2. states = IF raw.unit THEN [i \in DOMAIN p |-> convertUnitPosition(p[i])] ELSE Expand(p)
  BY DEF convertEntity
<1>3. ASSUME raw.unit PROVE Len(states) \in Nat /\ StandFor(raw, states, c, Len(p))
  <2>1. states = c
    BY <1>1, <1>2, <1>3
  <2>2. c = [i \in 1 .. Len(p) |-> c[i]]
    OBVIOUS
  <2>3. StandFor(raw, c, c, Len(p)) /\ Len(c) = Len(p)
    <3> HIDE DEF c
    <3> QED
      BY <1>1, <1>3, <2>2, DensePlaced
  <2> QED
    BY <1>1, <2>1, <2>3
<1>4. ASSUME ~raw.unit PROVE Len(states) \in Nat /\ StandFor(raw, states, c, Len(p))
  <2> DEFINE A == {c[i] : i \in 1 .. Len(p)}
             seqs == [i \in DOMAIN p |-> [n \in 1 .. Copies(p[i]) |-> c[i]]]
  <2>1. FlattenSeq(seqs) \in Seq(A) /\ StandFor(raw, FlattenSeq(seqs), c, Len(p))
    <3> HIDE DEF c
    <3>1. \A i \in 1 .. Len(p) : c[i] \in A
      OBVIOUS
    <3> HIDE DEF A
    <3> QED
      BY <3>1, RangesPlaced
  <2>2. seqs = [i \in DOMAIN p |-> [n \in 1 .. Copies(p[i]) |-> convertVehiclePosition(p[i])]]
    BY <1>1, <1>4
  <2>3. states = FlattenSeq(seqs)
    BY <1>2, <1>4, <2>2 DEF Expand
  <2>4. Len(FlattenSeq(seqs)) \in Nat
    <3> HIDE DEF A, seqs
    <3> QED
      BY <2>1
  <2> HIDE DEF seqs, states, c
  <2> QED
    BY <2>1, <2>3, <2>4
<1> QED
  BY <1>3, <1>4

\* What both know of an entity, and the states they have of it: those that the
\* server sends for a frame are those that the browser reads in JSON.
LEMMA EntitiesAgree ==
    ASSUME NEW raw \in RawEntities
    PROVE  LET d == convertEntity(raw)
               e == convertEntityDef(raw)
               c == collectEntityPositions(raw)
               n == Len(d.positions)
           IN  /\ n \in Nat /\ d.start = raw.start /\ e.positions = <<>> /\ d.id = raw.id
               /\ \A f \in Nat : f \in DOMAIN c <=> f - raw.start \in 0 .. n - 1
               /\ \A f \in Nat : f \in DOMAIN c =>
                        convertEntityState(c[f]) = d.positions[f - raw.start + 1]
               /\ n # 0 => e.end = d.end
               /\ e.id = d.id /\ e.name = d.name /\ e.group = d.group /\ e.player = d.player
               /\ e.type = d.type /\ e.side = d.side /\ e.start = d.start /\ e.fired = d.fired
<1> DEFINE p == raw.positions
           n == Len(p)
           states == convertEntity(raw).positions
           c == collectEntityPositions(raw)
           conv == [i \in 1 .. n |-> IF raw.unit THEN convertUnitPosition(p[i])
                                     ELSE convertVehiclePosition(p[i])]
           holding(f) == {j \in 1 .. n : f \in FramesOf(raw, j)}
           at(i) == [at |-> p[i].at, alive |-> p[i].alive, side |-> p[i].side,
                     inVehicle |-> raw.unit /\ p[i].vehicle >= 1,
                     crew |-> IF raw.unit THEN <<>> ELSE p[i].crew]
<1>1. /\ raw.start \in Nat /\ n \in Nat /\ DOMAIN p = 1 .. n /\ raw.unit \in BOOLEAN
      /\ \A i \in 1 .. n : p[i] \in RawStates
      /\ ~raw.unit => raw.class # "unit"
  BY RawEntity
<1>2. Len(states) \in Nat /\ StandFor(raw, states, conv, n)
  BY StatesPlaced
<1>3. c = [f \in UNION {FramesOf(raw, i) : i \in 1 .. n} |-> at(Max(holding(f)))]
  <2>1. c = [f \in UNION {FramesOf(raw, i) : i \in DOMAIN p} |->
                at(Max({j \in DOMAIN p : f \in FramesOf(raw, j)}))]
    BY DEF collectEntityPositions, FramesOf
  <2> HIDE DEF c, p, at
  <2> QED
    BY <1>1, <2>1
<1> HIDE DEF c, at, conv, states
<1>4. ASSUME NEW f \in Nat
      PROVE  f \in DOMAIN c <=> f - raw.start \in 0 .. Len(states) - 1
  <2>1. ASSUME f \in DOMAIN c PROVE f - raw.start \in 0 .. Len(states) - 1
    <3>1. PICK j \in 1 .. n : f \in FramesOf(raw, j)
      BY <1>3, <2>1
    <3>2. f - raw.start + 1 \in 1 .. Len(states)
      BY <1>2, <3>1 DEF StandFor
    <3> QED
      BY <1>1, <1>2, <3>2
  <2>2. ASSUME f - raw.start \in 0 .. Len(states) - 1 PROVE f \in DOMAIN c
    <3> DEFINE k == f - raw.start + 1
    <3>1. k \in 1 .. Len(states) /\ raw.start + k - 1 = f
      BY <1>1, <1>2, <2>2
    <3>2. PICK j \in 1 .. n : raw.start + k - 1 \in FramesOf(raw, j)
      <4> HIDE DEF k
      <4> QED
        BY <1>2, <3>1 DEF StandFor
    <3>3. f \in FramesOf(raw, j)
      <4> HIDE DEF k
      <4> QED
        BY <3>1, <3>2
    <3> QED
      BY <1>3, <3>3
  <2> QED
    BY <2>1, <2>2
<1>5. ASSUME NEW f \in Nat, f \in DOMAIN c
      PROVE  convertEntityState(c[f]) = states[f - raw.start + 1]
  <2> DEFINE j == Max(holding(f))
  <2>1. j \in holding(f)
    <3>1. holding(f) \subseteq 0 .. n /\ holding(f) # {}
      BY <1>1, <1>3, <1>5
    <3> HIDE DEF holding
    <3> QED
      BY <1>1, <3>1, Greatest
  <2>2. c[f] = at(j)
    BY <1>3, <1>5
  <2> HIDE DEF j
  <2>3. j \in 1 .. n /\ f \in FramesOf(raw, j)
    BY <2>1
  <2>4. states[f - raw.start + 1] = conv[j]
    BY <1>2, <2>3 DEF StandFor
  <2>5. convertEntityState(at(j)) =
            IF raw.unit THEN convertUnitPosition(p[j]) ELSE convertVehiclePosition(p[j])
    BY <2>3, SameStates DEF at
  <2>6. conv[j] = IF raw.unit THEN convertUnitPosition(p[j]) ELSE convertVehiclePosition(p[j])
    BY <2>3 DEF conv
  <2> QED
    BY <2>2, <2>4, <2>5, <2>6
<1>6. ASSUME Len(states) # 0
      PROVE  calculateEndFrame(raw) = raw.start + Len(states) - 1 /\ states # <<>>
  <2>1. Len(states) = IF n = 0 THEN 0 ELSE IF p[n].range = <<>> THEN n ELSE p[n].range[2] - raw.start + 1
    BY <1>2 DEF StandFor
  <2>2. states # <<>>
    BY <1>6
  <2>3. n > 0 /\ n # 0
    BY <1>1, <1>6, <2>1
  <2>4. CASE p[n].range = <<>>
    BY <1>1, <2>1, <2>2, <2>3, <2>4 DEF calculateEndFrame
  <2>5. CASE p[n].range # <<>>
    <3>1. p[n].range[2] \in Nat
      <4>1. p[n] \in RawStates
        BY <1>1, <2>3
      <4> QED
        BY <2>5, <4>1 DEF RawStates
    <3>2. calculateEndFrame(raw) = p[n].range[2]
      BY <2>3, <2>5 DEF calculateEndFrame
    <3> DEFINE b == p[n].range[2]
    <3>3. Len(states) = b - raw.start + 1
      BY <2>1, <2>3, <2>5
    <3> HIDE DEF b
    <3>4. b \in Nat
      BY <3>1 DEF b
    <3> QED
      BY <1>1, <2>2, <3>2, <3>3, <3>4 DEF b
  <2> QED
    BY <2>4, <2>5
<1>7. LET d == convertEntity(raw)
          e == convertEntityDef(raw)
      IN  /\ d.start = raw.start /\ e.positions = <<>>
          /\ e.id = d.id /\ e.name = d.name /\ e.group = d.group /\ e.player = d.player
          /\ e.start = d.start /\ e.fired = d.fired /\ e.end = calculateEndFrame(raw)
          /\ d.end = IF states = <<>> THEN 0 ELSE raw.start + Len(states) - 1
          /\ d.type = mapEntityType(IF raw.unit THEN "unit" ELSE raw.class)
          /\ e.type = IF raw.unit THEN "man" ELSE mapVehicleClass(raw.class)
          /\ d.side = mapSide(raw.side) /\ e.side = mapSideString(raw.side)
          /\ d.id = raw.id
  BY DEF convertEntity, convertEntityDef, states
<1>8. mapSide(raw.side) = mapSideString(raw.side)
  BY DEF mapSide, mapSideString
<1>9. mapEntityType(IF raw.unit THEN "unit" ELSE raw.class) =
            IF raw.unit THEN "man" ELSE mapVehicleClass(raw.class)
  BY <1>1 DEF mapEntityType, mapVehicleClass
<1> QED
  BY <1>2, <1>4, <1>5, <1>6, <1>7, <1>8, <1>9 DEF c, states

\* Who is in a vehicle is a list of numbers.
LEMMA CrewsListed ==
    ASSUME NEW raw \in RawEntities, NEW k \in 1 .. Len(convertEntity(raw).positions)
    PROVE  convertEntity(raw).positions[k].crew \in Seq(Nat)
<1> DEFINE p == raw.positions
           c == [i \in 1 .. Len(p) |-> IF raw.unit THEN convertUnitPosition(p[i])
                                       ELSE convertVehiclePosition(p[i])]
           states == convertEntity(raw).positions
<1>1. /\ raw.start \in Nat /\ Len(p) \in Nat
      /\ \A i \in 1 .. Len(p) : p[i] \in RawStates
  BY RawEntity
<1>2. Len(states) \in Nat /\ StandFor(raw, states, c, Len(p))
  BY StatesPlaced
<1> HIDE DEF c, states
<1>3. k \in 1 .. Len(states)
  BY DEF states
<1>4. PICK j \in 1 .. Len(p) : raw.start + k - 1 \in FramesOf(raw, j)
  BY <1>2, <1>3 DEF StandFor
<1>5. (raw.start + k - 1) - raw.start + 1 = k
  BY <1>1, <1>2, <1>3
<1>6. states[k] = c[j]
  BY <1>2, <1>4, <1>5 DEF StandFor
<1>7. p[j].crew \in Seq(Nat)
  <2>1. p[j] \in RawStates
    BY <1>1
  <2> HIDE DEF p
  <2> QED
    BY <2>1 DEF RawStates
<1>8. c[j].crew \in Seq(Nat)
  <2>1. c[j] = IF raw.unit THEN convertUnitPosition(p[j]) ELSE convertVehiclePosition(p[j])
    BY DEF c
  <2>2. convertUnitPosition(p[j]).crew = <<>> /\ convertVehiclePosition(p[j]).crew = p[j].crew
    BY DEF convertUnitPosition, convertVehiclePosition
  <2>3. <<>> \in Seq(Nat)
    OBVIOUS
  <2> QED
    BY <1>7, <2>1, <2>2, <2>3
<1> QED
  BY <1>6, <1>8 DEF states

\* A list of n entities, no two with one id.
Listing(defs, n) ==
    /\ n \in Nat /\ defs = [i \in 1 .. n |-> defs[i]]
    /\ \A i, j \in 1 .. n : defs[i].id = defs[j].id => i = j

LEMMA EntityFound ==
    ASSUME NEW defs, NEW n, Listing(defs, n)
    PROVE  /\ ToSet(defs) = {defs[i] : i \in 1 .. n}
           /\ Ids(defs) = {defs[i].id : i \in 1 .. n}
           /\ \A i \in 1 .. n : getEntity(defs, defs[i].id) = defs[i]
<1>1. DOMAIN defs = 1 .. n
  BY DEF Listing
<1>2. ToSet(defs) = {defs[i] : i \in 1 .. n} /\ Ids(defs) = {defs[i].id : i \in 1 .. n}
  BY <1>1 DEF ToSet, Ids
<1>3. ASSUME NEW i \in 1 .. n PROVE getEntity(defs, defs[i].id) = defs[i]
  <2>1. defs[i] \in ToSet(defs) /\ defs[i].id = defs[i].id
    BY <1>2
  <2>2. \A d \in ToSet(defs) : d.id = defs[i].id => d = defs[i]
    BY <1>2 DEF Listing
  <2> DEFINE Mine(d) == d \in ToSet(defs) /\ d.id = defs[i].id
  <2>3. \E d \in ToSet(defs) : d.id = defs[i].id
    BY <2>1
  <2>4. getEntity(defs, defs[i].id) \in ToSet(defs) /\ getEntity(defs, defs[i].id).id = defs[i].id
    BY <2>3 DEF getEntity
  <2> QED
    BY <2>2, <2>4
<1> QED
  BY <1>2, <1>3

\* Two lists of the same entities, as far as anybody is asked who they are.
Alike(defs, others, n) ==
    /\ Listing(defs, n) /\ Listing(others, n)
    /\ \A i \in 1 .. n :
        /\ defs[i].id = others[i].id /\ defs[i].type = others[i].type
        /\ defs[i].side = others[i].side /\ defs[i].player = others[i].player

LEMMA SamePeople ==
    ASSUME NEW defs, NEW others, NEW n, Alike(defs, others, n)
    PROVE  /\ Ids(defs) = Ids(others)
           /\ \A id \in Ids(defs) :
                /\ getEntity(defs, id).type = getEntity(others, id).type
                /\ getEntity(defs, id).side = getEntity(others, id).side
                /\ getEntity(defs, id).player = getEntity(others, id).player
           /\ \A id : IsUnit(defs, id) <=> IsUnit(others, id)
<1>1. Listing(defs, n) /\ Listing(others, n)
  BY DEF Alike
<1>2. /\ Ids(defs) = {defs[i].id : i \in 1 .. n}
      /\ \A i \in 1 .. n : getEntity(defs, defs[i].id) = defs[i]
      /\ Ids(others) = {others[i].id : i \in 1 .. n}
      /\ \A i \in 1 .. n : getEntity(others, others[i].id) = others[i]
  BY <1>1, EntityFound
<1>3. Ids(defs) = Ids(others)
  BY <1>2 DEF Alike
<1>4. \A id \in Ids(defs) :
                /\ getEntity(defs, id).type = getEntity(others, id).type
                /\ getEntity(defs, id).side = getEntity(others, id).side
                /\ getEntity(defs, id).player = getEntity(others, id).player
  <2> SUFFICES ASSUME NEW i \in 1 .. n
               PROVE  LET id == defs[i].id
                      IN  /\ getEntity(defs, id).type = getEntity(others, id).type
                          /\ getEntity(defs, id).side = getEntity(others, id).side
                          /\ getEntity(defs, id).player = getEntity(others, id).player
    BY <1>2
  <2>1. getEntity(defs, defs[i].id) = defs[i] /\ getEntity(others, others[i].id) = others[i]
    BY <1>2
  <2>2. /\ defs[i].id = others[i].id /\ defs[i].type = others[i].type
        /\ defs[i].side = others[i].side /\ defs[i].player = others[i].player
    BY DEF Alike
  <2> QED
    BY <2>1, <2>2
<1>5. \A id : IsUnit(defs, id) <=> IsUnit(others, id)
  BY <1>3, <1>4 DEF IsUnit
<1> QED
  BY <1>3, <1>4, <1>5

\* The same crew: the same side, and a player or none.
LEMMA SameCrew ==
    ASSUME NEW defs, NEW others, NEW n, Alike(defs, others, n), NEW crew \in Seq(Nat)
    PROVE  /\ getSideFromCrew(defs, crew) = getSideFromCrew(others, crew)
           /\ HasPlayer(defs, crew) = HasPlayer(others, crew)
<1> DEFINE T == {id \in ToSet(crew) : IsUnit(defs, id)}
           units == UnitCrew(defs, crew)
<1>1. units = UnitCrew(others, crew)
  <2>1. T = {id \in ToSet(crew) : IsUnit(others, id)}
    BY SamePeople
  <2> QED
    BY <2>1 DEF UnitCrew
<1>2. units = Those(crew, T)
  BY DEF UnitCrew
<1>3. \A id \in T : id \in Ids(defs)
  BY DEF IsUnit
<1>4. units \in Seq(T)
  <2>1. PICK h : Selected(crew, T, Those(crew, T), h)
    <3> HIDE DEF T
    <3> QED
      BY ThoseAre
  <2> QED
    BY <1>2, <2>1 DEF Selected
<1> HIDE DEF units, T
<1>5. /\ units # <<>> => Head(units) \in Ids(defs)
      /\ \A id \in ToSet(units) : id \in Ids(defs)
  <2>1. \A i \in DOMAIN units : units[i] \in T
    BY <1>4
  <2>2. units # <<>> => Head(units) = units[1] /\ 1 \in DOMAIN units
    BY <1>4
  <2> QED
    BY <1>3, <2>1, <2>2 DEF ToSet
<1>6. \A id \in Ids(defs) : /\ getEntity(defs, id).side = getEntity(others, id).side
                            /\ getEntity(defs, id).player = getEntity(others, id).player
  BY SamePeople
<1>7. getSideFromCrew(defs, crew) = IF units = <<>> THEN None ELSE getEntity(defs, Head(units)).side
  BY DEF getSideFromCrew, units
<1>8. getSideFromCrew(others, crew) = IF units = <<>> THEN None ELSE getEntity(others, Head(units)).side
  BY <1>1 DEF getSideFromCrew
<1>9. HasPlayer(defs, crew) = \E id \in ToSet(units) : getEntity(defs, id).player
  BY DEF HasPlayer, units
<1>10. HasPlayer(others, crew) = \E id \in ToSet(units) : getEntity(others, id).player
  BY <1>1 DEF HasPlayer
<1>11. getSideFromCrew(defs, crew) = getSideFromCrew(others, crew)
  BY <1>5, <1>6, <1>7, <1>8
<1>12. HasPlayer(defs, crew) = HasPlayer(others, crew)
  <2>1. (\E id \in ToSet(units) : getEntity(defs, id).player) <=>
        (\E id \in ToSet(units) : getEntity(others, id).player)
    BY <1>5, <1>6
  <2> QED
    BY <1>9, <1>10, <2>1
<1> QED
  BY <1>11, <1>12

\* Nothing but entities, no two with one id.
LEMMA RawListing ==
    ASSUME NEW raw, WellFormed(raw)
    PROVE  LET n == Len(raw.entities)
           IN  /\ raw.end \in Nat /\ n \in Nat /\ DOMAIN raw.entities = 1 .. n
               /\ \A i \in 1 .. n : raw.entities[i] \in RawEntities
               /\ \A i, j \in 1 .. n : raw.entities[i].id = raw.entities[j].id => i = j
<1>1. /\ raw.end \in Nat /\ raw.entities \in Seq(RawEntities)
      /\ \A i, j \in DOMAIN raw.entities : raw.entities[i].id = raw.entities[j].id => i = j
  BY DEF WellFormed
<1> DEFINE s == raw.entities
<1> HIDE DEF s
<1>2. s \in Seq(RawEntities) => /\ Len(s) \in Nat /\ DOMAIN s = 1 .. Len(s)
                                /\ \A i \in 1 .. Len(s) : s[i] \in RawEntities
  OBVIOUS
<1> QED
  BY <1>1, <1>2 DEF s

\* The entities of the JSON and of the manifest are the same ones.
LEMMA EntitiesAlike ==
    ASSUME NEW raw, WellFormed(raw)
    PROVE  Alike(decodeManifest(raw).entities, decodeJson(raw).entities, Len(raw.entities))
<1> DEFINE n == Len(raw.entities)
           defs == decodeManifest(raw).entities
           others == decodeJson(raw).entities
<1>1. /\ n \in Nat /\ DOMAIN raw.entities = 1 .. n
      /\ \A i \in 1 .. n : raw.entities[i] \in RawEntities
      /\ \A i, j \in 1 .. n : raw.entities[i].id = raw.entities[j].id => i = j
  BY RawListing
<1>2. /\ defs = [i \in 1 .. n |-> convertEntityDef(raw.entities[i])]
      /\ others = [i \in 1 .. n |-> convertEntity(raw.entities[i])]
  BY <1>1 DEF decodeManifest, decodeJson
<1> HIDE DEF n, defs, others
<1>3. \A i \in 1 .. n :
        /\ defs[i].id = raw.entities[i].id /\ others[i].id = raw.entities[i].id
        /\ defs[i].type = others[i].type
        /\ defs[i].side = others[i].side /\ defs[i].player = others[i].player
  BY <1>1, <1>2, EntitiesAgree
<1> QED
  BY <1>1, <1>2, <1>3 DEF Alike, Listing, n, defs, others

\* The parts of computeSnapshots.
Streamed(chunk, id, frame) == {s.state : s \in {c \in chunk : c.id = id /\ c.frame = frame}}
StatesOf(defs, chunk, frame, d) ==
    LET streamed == Streamed(chunk, d.id, frame)
    IN  IF streamed # {} THEN streamed ELSE OwnState(d, frame)
ShownOf(defs, chunk, frame) ==
    {d \in ToSet(defs) : frame \in d.start .. d.end /\ StatesOf(defs, chunk, frame, d) # {}}
SnapshotOf(defs, frame, d, s) ==
    [at |-> s.at, alive |-> s.alive, inVehicle |-> s.inVehicle, crew |-> s.crew,
     vehicle |-> d.type # "man",
     side |-> IF d.type # "man" THEN getSideFromCrew(defs, s.crew)
              ELSE IF s.side = None THEN d.side ELSE s.side,
     player |-> IF d.type # "man" THEN HasPlayer(defs, s.crew) ELSE d.player,
     fired |-> IF d.type = "man" THEN {x.to : x \in {y \in d.fired : y.frame = frame}} ELSE {}]

LEMMA SnapshotsAre ==
    ASSUME NEW defs, NEW chunk, NEW frame
    PROVE  computeSnapshots(defs, chunk, frame) =
               [id \in {d.id : d \in ShownOf(defs, chunk, frame)} |->
                    SnapshotOf(defs, frame, getEntity(defs, id),
                               CHOOSE s \in StatesOf(defs, chunk, frame, getEntity(defs, id)) : TRUE)]
BY DEF computeSnapshots, StatesOf, Streamed, ShownOf, SnapshotOf

\* The states of a chunk, once decoded, are those of its entities and frames.
LEMMA ChunkHolds ==
    ASSUME NEW raw, WellFormed(raw), NEW f \in 0 .. raw.end, NEW i \in 1 .. Len(raw.entities)
    PROVE  LET chunk == decodeChunk(assembleChunk(raw, f \div ChunkSize))
               bucket == collectEntityPositions(raw.entities[i])
           IN  Streamed(chunk, raw.entities[i].id, f) =
                    IF f \in DOMAIN bucket THEN {convertEntityState(bucket[f])} ELSE {}
<1> DEFINE n == Len(raw.entities)
           k == f \div ChunkSize
           from == k * ChunkSize
           to == Min({from + ChunkSize, raw.end + 1}) - 1
           bucket(j) == collectEntityPositions(raw.entities[j])
           states(j) == {[id |-> raw.entities[j].id, frame |-> x, state |-> bucket(j)[x]] :
                            x \in DOMAIN bucket(j) \cap (from .. to)}
           decoded(j) == {[id |-> raw.entities[j].id, frame |-> x, state |-> convertEntityState(bucket(j)[x])] :
                            x \in DOMAIN bucket(j) \cap (from .. to)}
           chunk == decodeChunk(assembleChunk(raw, k))
           mine == {c \in chunk : c.id = raw.entities[i].id /\ c.frame = f}
<1>1. /\ n \in Nat /\ DOMAIN raw.entities = 1 .. n /\ raw.end \in Nat
      /\ \A a, b \in 1 .. n : raw.entities[a].id = raw.entities[b].id => a = b
  BY RawListing
<1>2. f \in from .. to
  <2>1. from <= f /\ f < from + ChunkSize /\ from \in Nat /\ f \in Nat /\ ChunkSize \in Nat
    BY <1>1, RecordingAssumption
  <2>2. \A a, b \in Int : Min({a, b}) \in {a, b}
    <3> SUFFICES ASSUME NEW a \in Int, NEW b \in Int PROVE Min({a, b}) \in {a, b}
      OBVIOUS
    <3>1. \E x \in {a, b} : \A y \in {a, b} : x =< y
      OBVIOUS
    <3> QED
      BY <3>1 DEF Min
  <2> DEFINE a == from + ChunkSize
             b == raw.end + 1
  <2>3. a \in Int /\ b \in Int /\ f < a /\ f < b
    BY <1>1, <2>1
  <2>4. Min({a, b}) \in {a, b}
    <3> HIDE DEF a, b
    <3> QED
      BY <2>2, <2>3
  <2> HIDE DEF from, a, b
  <2>5. f <= Min({a, b}) - 1 /\ Min({a, b}) - 1 \in Int
    BY <2>1, <2>3, <2>4
  <2> QED
    BY <2>1, <2>5 DEF a, b
<1>3. assembleChunk(raw, k) = UNION {states(j) : j \in 1 .. n}
  <2>1. assembleChunk(raw, k) =
            UNION {{[id |-> raw.entities[j].id, frame |-> x,
                     state |-> [e \in DOMAIN raw.entities |->
                                    collectEntityPositions(raw.entities[e])][j][x]] :
                    x \in DOMAIN [e \in DOMAIN raw.entities |->
                                    collectEntityPositions(raw.entities[e])][j] \cap (from .. to)} :
                   j \in DOMAIN raw.entities}
    BY DEF assembleChunk
  <2>2. ASSUME NEW j \in DOMAIN raw.entities
        PROVE  [e \in DOMAIN raw.entities |-> collectEntityPositions(raw.entities[e])][j] = bucket(j)
    OBVIOUS
  <2> HIDE DEF from, to, n, bucket
  <2> QED
    BY <1>1, <2>1, <2>2
<1> HIDE DEF k, from, to, n, bucket
<1>4. chunk = UNION {decoded(j) : j \in 1 .. n}
  <2>1. chunk = {[s EXCEPT !.state = convertEntityState(@)] : s \in UNION {states(j) : j \in 1 .. n}}
    BY <1>3 DEF decodeChunk
  <2>2. ASSUME NEW j \in 1 .. n, NEW x \in DOMAIN bucket(j) \cap (from .. to)
        PROVE  [[id |-> raw.entities[j].id, frame |-> x, state |-> bucket(j)[x]]
                    EXCEPT !.state = convertEntityState(@)] =
               [id |-> raw.entities[j].id, frame |-> x, state |-> convertEntityState(bucket(j)[x])]
    OBVIOUS
  <2>3. ASSUME NEW s \in chunk PROVE \E j \in 1 .. n : s \in decoded(j)
    <3>1. PICK t \in UNION {states(j) : j \in 1 .. n} : s = [t EXCEPT !.state = convertEntityState(@)]
      BY <2>1
    <3>2. PICK j \in 1 .. n : t \in states(j)
      BY <3>1
    <3>3. PICK x \in DOMAIN bucket(j) \cap (from .. to) :
                t = [id |-> raw.entities[j].id, frame |-> x, state |-> bucket(j)[x]]
      BY <3>2
    <3>4. s \in decoded(j)
      BY <2>2, <3>1, <3>3
    <3> QED
      BY <3>4
  <2>4. ASSUME NEW j \in 1 .. n, NEW s \in decoded(j) PROVE s \in chunk
    <3>1. PICK x \in DOMAIN bucket(j) \cap (from .. to) :
                s = [id |-> raw.entities[j].id, frame |-> x, state |-> convertEntityState(bucket(j)[x])]
      OBVIOUS
    <3> DEFINE t == [id |-> raw.entities[j].id, frame |-> x, state |-> bucket(j)[x]]
    <3>2. t \in UNION {states(m) : m \in 1 .. n}
      OBVIOUS
    <3>3. s = [t EXCEPT !.state = convertEntityState(@)]
      BY <2>2, <3>1
    <3> HIDE DEF t, states
    <3> QED
      BY <2>1, <3>2, <3>3
  <2> HIDE DEF chunk, decoded
  <2> QED
    BY <2>3, <2>4
<1> HIDE DEF chunk
<1>5. ASSUME NEW c \in mine PROVE f \in DOMAIN bucket(i) /\ c.state = convertEntityState(bucket(i)[f])
  <2>1. PICK j \in 1 .. n : c \in decoded(j)
    BY <1>4
  <2>2. PICK x \in DOMAIN bucket(j) \cap (from .. to) :
            c = [id |-> raw.entities[j].id, frame |-> x, state |-> convertEntityState(bucket(j)[x])]
    BY <2>1
  <2>3. x = f /\ raw.entities[j].id = raw.entities[i].id /\ c.state = convertEntityState(bucket(j)[x])
    BY <2>2
  <2>4. j = i
    BY <1>1, <2>3 DEF n
  <2> QED
    BY <2>2, <2>3, <2>4
<1>6. ASSUME f \in DOMAIN bucket(i)
      PROVE  \E c \in mine : c.state = convertEntityState(bucket(i)[f])
  <2> DEFINE c == [id |-> raw.entities[i].id, frame |-> f, state |-> convertEntityState(bucket(i)[f])]
  <2>1. c \in decoded(i)
    BY <1>2, <1>6
  <2>2. c \in chunk
    BY <1>4, <2>1 DEF n
  <2>3. c \in mine /\ c.state = convertEntityState(bucket(i)[f])
    BY <2>2
  <2> HIDE DEF c, mine
  <2> QED
    BY <2>3
<1> HIDE DEF mine
<1>7. {s.state : s \in mine} = IF f \in DOMAIN bucket(i) THEN {convertEntityState(bucket(i)[f])} ELSE {}
  BY <1>5, <1>6
<1> QED
  BY <1>7 DEF mine, chunk, k, bucket, Streamed

\* In every frame the entities are the same and in the same state, whether a
\* chunk says so or the browser has read it in JSON.
THEOREM SnapshotsAgree ==
    ASSUME NEW raw, WellFormed(raw), NEW f \in 0 .. raw.end
    PROVE  computeSnapshots(decodeManifest(raw).entities,
                            decodeChunk(assembleChunk(raw, f \div ChunkSize)), f) =
           computeSnapshots(decodeJson(raw).entities, {}, f)
<1> DEFINE n == Len(raw.entities)
           P == decodeManifest(raw).entities
           J == decodeJson(raw).entities
           chunk == decodeChunk(assembleChunk(raw, f \div ChunkSize))
           p(i) == StatesOf(P, chunk, f, P[i])
           j(i) == StatesOf(J, {}, f, J[i])
<1>1. /\ n \in Nat /\ DOMAIN raw.entities = 1 .. n /\ raw.end \in Nat
      /\ \A i \in 1 .. n : raw.entities[i] \in RawEntities
  BY RawListing
<1>2. Alike(P, J, n)
  BY EntitiesAlike
<1>3. /\ P = [i \in 1 .. n |-> convertEntityDef(raw.entities[i])]
      /\ J = [i \in 1 .. n |-> convertEntity(raw.entities[i])]
  BY <1>1 DEF decodeManifest, decodeJson
<1> HIDE DEF n, P, J
<1>4. /\ ToSet(P) = {P[i] : i \in 1 .. n} /\ ToSet(J) = {J[i] : i \in 1 .. n}
      /\ \A i \in 1 .. n : getEntity(P, P[i].id) = P[i] /\ getEntity(J, J[i].id) = J[i]
  BY <1>2, EntityFound DEF Alike
<1>5. ASSUME NEW i \in 1 .. n
      PROVE  /\ p(i) = j(i)
             /\ P[i].id = J[i].id /\ P[i].type = J[i].type /\ P[i].side = J[i].side
             /\ P[i].player = J[i].player /\ P[i].fired = J[i].fired /\ P[i].start = J[i].start
             /\ j(i) # {} => P[i].end = J[i].end
             /\ \A s \in j(i) : s.crew \in Seq(Nat)
  <2> DEFINE r == raw.entities[i]
             d == convertEntity(r)
             e == convertEntityDef(r)
             c == collectEntityPositions(r)
             m == Len(d.positions)
  <2>1. /\ m \in Nat /\ d.start = r.start /\ e.positions = <<>> /\ d.id = r.id
        /\ \A x \in Nat : x \in DOMAIN c <=> x - r.start \in 0 .. m - 1
        /\ \A x \in Nat : x \in DOMAIN c => convertEntityState(c[x]) = d.positions[x - r.start + 1]
        /\ m # 0 => e.end = d.end
        /\ e.id = d.id /\ e.name = d.name /\ e.group = d.group /\ e.player = d.player
        /\ e.type = d.type /\ e.side = d.side /\ e.start = d.start /\ e.fired = d.fired
    BY <1>1, EntitiesAgree
  <2>2. P[i] = e /\ J[i] = d /\ r \in RawEntities /\ r.start \in Nat
    BY <1>1, <1>3, RawEntity
  <2>3. f \in Nat
    BY <1>1
  <2>4. Streamed(chunk, r.id, f) =
            IF f \in DOMAIN c THEN {convertEntityState(c[f])} ELSE {}
    <3>1. i \in 1 .. Len(raw.entities)
      BY DEF n
    <3> HIDE DEF n, d, e, m
    <3> QED
      BY <3>1, ChunkHolds
  <2>5. \A k \in 1 .. m : d.positions[k].crew \in Seq(Nat)
    BY <2>2, CrewsListed
  <2>6. OwnState(e, f) = {}
    <3>1. Len(<<>>) - 1 = -1
      OBVIOUS
    <3>2. 0 .. -1 = {}
      OBVIOUS
    <3> HIDE DEF e
    <3> QED
      BY <2>1, <3>1, <3>2 DEF OwnState
  <2> HIDE DEF d, e, c, m, r, chunk
  <2>7. OwnState(d, f) = IF f - r.start \in 0 .. m - 1 THEN {d.positions[f - r.start + 1]} ELSE {}
    BY <2>1 DEF OwnState, m
  <2>8. j(i) = OwnState(d, f)
    <3>1. Streamed({}, d.id, f) = {}
      BY DEF Streamed
    <3> QED
      BY <2>2, <3>1 DEF StatesOf
  <2>9. p(i) = IF f \in DOMAIN c THEN {convertEntityState(c[f])} ELSE {}
    <3>1. e.id = r.id
      BY <2>1
    <3> QED
      BY <2>2, <2>4, <2>6, <3>1 DEF StatesOf
  <2>10. p(i) = j(i)
    BY <2>1, <2>3, <2>7, <2>8, <2>9
  <2>11. j(i) # {} => m # 0 /\ f - r.start + 1 \in 1 .. m
    BY <2>1, <2>2, <2>3, <2>7, <2>8
  <2>12. \A s \in j(i) : s.crew \in Seq(Nat)
    BY <2>5, <2>7, <2>8, <2>11
  <2> HIDE DEF p, j
  <2> QED
    BY <2>1, <2>2, <2>10, <2>11, <2>12
<1> HIDE DEF p, j
<1> DEFINE SP == {i \in 1 .. n : f \in P[i].start .. P[i].end /\ p(i) # {}}
           SJ == {i \in 1 .. n : f \in J[i].start .. J[i].end /\ j(i) # {}}
<1>6. SP = SJ
  BY <1>5
<1>7. {d.id : d \in ShownOf(P, chunk, f)} = {P[i].id : i \in SP}
  BY <1>4 DEF ShownOf, p
<1>8. {d.id : d \in ShownOf(J, {}, f)} = {J[i].id : i \in SJ}
  <2> DEFINE none == {}
  <2>1. ShownOf(J, none, f) = {d \in ToSet(J) : f \in d.start .. d.end /\ StatesOf(J, none, f, d) # {}}
    BY DEF ShownOf
  <2>2. \A i \in 1 .. n : j(i) = StatesOf(J, none, f, J[i])
    BY DEF j
  <2> HIDE DEF none, j
  <2>3. {d.id : d \in ShownOf(J, none, f)} = {J[i].id : i \in SJ}
    BY <1>4, <2>1, <2>2
  <2> QED
    BY <2>3 DEF none
<1>9. {P[i].id : i \in SP} = {J[i].id : i \in SJ}
  BY <1>5, <1>6
<1>10. ASSUME NEW i \in SJ
       PROVE  SnapshotOf(P, f, getEntity(P, P[i].id),
                         CHOOSE s \in StatesOf(P, chunk, f, getEntity(P, P[i].id)) : TRUE) =
              SnapshotOf(J, f, getEntity(J, P[i].id),
                         CHOOSE s \in StatesOf(J, {}, f, getEntity(J, P[i].id)) : TRUE)
  <2>1. getEntity(P, P[i].id) = P[i] /\ getEntity(J, P[i].id) = J[i]
    BY <1>4, <1>5
  <2>2. StatesOf(P, chunk, f, P[i]) = p(i) /\ StatesOf(J, {}, f, J[i]) = j(i) /\ p(i) = j(i)
    BY <1>5 DEF p, j
  <2> DEFINE s == CHOOSE x \in j(i) : TRUE
  <2>3. s \in j(i)
    OBVIOUS
  <2> HIDE DEF s
  <2>4. s.crew \in Seq(Nat)
    BY <1>5, <2>3
  <2>5. getSideFromCrew(P, s.crew) = getSideFromCrew(J, s.crew) /\ HasPlayer(P, s.crew) = HasPlayer(J, s.crew)
    BY <1>2, <2>4, SameCrew
  <2>6. /\ P[i].type = J[i].type /\ P[i].side = J[i].side
        /\ P[i].player = J[i].player /\ P[i].fired = J[i].fired
    BY <1>5
  <2>7. SnapshotOf(P, f, P[i], s) = SnapshotOf(J, f, J[i], s)
    BY <2>5, <2>6 DEF SnapshotOf
  <2> QED
    BY <2>1, <2>2, <2>7 DEF s
<1> DEFINE sp == [id \in {d.id : d \in ShownOf(P, chunk, f)} |->
                    SnapshotOf(P, f, getEntity(P, id),
                               CHOOSE s \in StatesOf(P, chunk, f, getEntity(P, id)) : TRUE)]
           sj == [id \in {d.id : d \in ShownOf(J, {}, f)} |->
                    SnapshotOf(J, f, getEntity(J, id),
                               CHOOSE s \in StatesOf(J, {}, f, getEntity(J, id)) : TRUE)]
<1> HIDE DEF SP, SJ
<1>11. sp = sj
  <2>1. \A id \in {P[i].id : i \in SJ} :
            SnapshotOf(P, f, getEntity(P, id),
                       CHOOSE s \in StatesOf(P, chunk, f, getEntity(P, id)) : TRUE) =
            SnapshotOf(J, f, getEntity(J, id),
                       CHOOSE s \in StatesOf(J, {}, f, getEntity(J, id)) : TRUE)
    BY <1>10
  <2> QED
    BY <1>6, <1>7, <1>8, <1>9, <2>1
<1>12. computeSnapshots(P, chunk, f) = sp
  BY SnapshotsAre
<1>13. computeSnapshots(J, {}, f) = sj
  BY SnapshotsAre
<1> QED
  BY <1>11, <1>12, <1>13 DEF P, J

-----------------------------------------------------------------------------
(* Events.                                                                  *)

\* No event or one.
Few(F, A) == F = {} \/ \E e \in A : F = {e}

LEMMA FewFollow ==
    ASSUME NEW A, NEW F, Few(F, A)
    PROVE  /\ SetToSeq(F) \in Seq(A)
           /\ \A s \in Seq(A) : IF F = {} THEN s \o SetToSeq(F) = s
                                ELSE \E e \in F : s \o SetToSeq(F) = Append(s, e)
<1>1. CASE F = {}
  <2>1. SetToSeq(F) = <<>>
    BY <1>1, FewInSequence
  <2>2. \A s \in Seq(A) : s \o <<>> = s
    BY ConcatEmptySeq
  <2>3. <<>> \in Seq(A)
    OBVIOUS
  <2> QED
    BY <1>1, <2>1, <2>2, <2>3
<1>2. CASE F # {}
  <2>1. PICK e \in A : F = {e}
    BY <1>2 DEF Few
  <2>2. SetToSeq(F) = <<e>>
    BY <2>1, FewInSequence
  <2>3. \A s \in Seq(A) : s \o <<e>> = Append(s, e)
    BY <2>1, AppendIsConcat
  <2>4. <<e>> \in Seq(A)
    BY <2>1
  <2> QED
    BY <1>2, <2>1, <2>2, <2>3, <2>4
<1> QED
  BY <1>1, <1>2

\* n times an event of A or none; where one list has one, the other has too.
Matching(sets, others, n, A) ==
    /\ sets = [i \in 1 .. n |-> sets[i]] /\ others = [i \in 1 .. n |-> others[i]]
    /\ \A i \in 1 .. n : /\ Few(sets[i], A) /\ Few(others[i], A)
                         /\ sets[i] = {} <=> others[i] = {}

\* Of the first m a and b hold what is there, each from the same place.
Together(sets, others, m, a, b) ==
    /\ Len(a) = Len(b)
    /\ \A k \in 1 .. Len(a) : \E i \in 1 .. m : a[k] \in sets[i] /\ b[k] \in others[i]
    /\ \A i \in 1 .. m : sets[i] # {} =>
            \E k \in 1 .. Len(a) : a[k] \in sets[i] /\ b[k] \in others[i]

LEMMA OneMore ==
    ASSUME NEW sets, NEW others, NEW m \in Nat \ {0}, NEW A, NEW a \in Seq(A), NEW b \in Seq(A),
           Together(sets, others, m - 1, a, b),
           NEW c \in Seq(A), NEW d \in Seq(A),
           IF sets[m] = {} THEN c = a /\ d = b
           ELSE \E x \in sets[m] \cap A, y \in others[m] \cap A : c = Append(a, x) /\ d = Append(b, y)
    PROVE  Together(sets, others, m, c, d)
<1>1. /\ m \in 1 .. m /\ \A i \in 1 .. m : i \in 1 .. m - 1 \/ i = m
      /\ \A i \in 1 .. m - 1 : i \in 1 .. m
  OBVIOUS
<1>2. CASE sets[m] = {}
  BY <1>1, <1>2 DEF Together
<1>3. CASE sets[m] # {}
  <2>1. PICK x \in sets[m] \cap A, y \in others[m] \cap A : c = Append(a, x) /\ d = Append(b, y)
    BY <1>3
  <2>2. Len(a) \in Nat /\ Len(a) = Len(b)
    BY DEF Together
  <2>3. /\ Len(c) = Len(a) + 1 /\ Len(d) = Len(b) + 1
        /\ c[Len(c)] = x /\ d[Len(c)] = y
        /\ \A k \in 1 .. Len(a) : c[k] = a[k] /\ d[k] = b[k]
    BY <2>1, <2>2
  <2>4. \A k \in 1 .. Len(c) : k \in 1 .. Len(a) \/ k = Len(c)
    BY <2>2, <2>3
  <2>5. Len(c) \in 1 .. Len(c) /\ \A k \in 1 .. Len(a) : k \in 1 .. Len(c)
    BY <2>2, <2>3
  <2>6. ASSUME NEW k \in 1 .. Len(c) PROVE \E i \in 1 .. m : c[k] \in sets[i] /\ d[k] \in others[i]
    <3>1. CASE k = Len(c)
      BY <1>1, <2>1, <2>3, <3>1
    <3>2. CASE k \in 1 .. Len(a)
      BY <1>1, <2>3, <3>2 DEF Together
    <3> QED
      BY <2>4, <3>1, <3>2
  <2>7. ASSUME NEW i \in 1 .. m, sets[i] # {}
        PROVE  \E k \in 1 .. Len(c) : c[k] \in sets[i] /\ d[k] \in others[i]
    <3>1. CASE i = m
      BY <2>1, <2>3, <2>5, <3>1
    <3>2. CASE i \in 1 .. m - 1
      <4>1. PICK k \in 1 .. Len(a) : a[k] \in sets[i] /\ b[k] \in others[i]
        BY <2>7, <3>2 DEF Together
      <4> QED
        BY <2>3, <2>5, <4>1
    <3> QED
      BY <1>1, <3>1, <3>2
  <2> QED
    BY <2>2, <2>3, <2>6, <2>7 DEF Together
<1> QED
  BY <1>2, <1>3

LEMMA KeptTogether ==
    ASSUME NEW n \in Nat, NEW A, NEW sets, NEW others, Matching(sets, others, n, A)
    PROVE  /\ Kept(sets) \in Seq(A) /\ Kept(others) \in Seq(A)
           /\ Together(sets, others, n, Kept(sets), Kept(others))
<1>0. /\ sets = [i \in 1 .. n |-> sets[i]] /\ others = [i \in 1 .. n |-> others[i]]
      /\ \A i \in 1 .. n : /\ Few(sets[i], A) /\ Few(others[i], A)
                           /\ sets[i] = {} <=> others[i] = {}
  BY DEF Matching
<1> DEFINE s == [i \in 1 .. n |-> SetToSeq(sets[i])]
           t == [i \in 1 .. n |-> SetToSeq(others[i])]
<1>1. /\ Len(s) = n /\ Len(t) = n
      /\ s = [i \in 1 .. Len(s) |-> s[i]] /\ t = [i \in 1 .. Len(t) |-> t[i]]
  <2>1. s = [i \in 1 .. n |-> s[i]] /\ t = [i \in 1 .. n |-> t[i]]
    OBVIOUS
  <2> HIDE DEF s, t
  <2>2. Len(s) = n /\ Len(t) = n
    BY <2>1, SequenceOf
  <2> QED
    BY <2>1, <2>2
<1>2. \A i \in 1 .. n : s[i] \in Seq(A) /\ t[i] \in Seq(A)
  BY <1>0, FewFollow
<1>3. Kept(sets) = FlattenSeq(s) /\ Kept(others) = FlattenSeq(t)
  <2>1. DOMAIN sets = 1 .. n /\ DOMAIN others = 1 .. n
    BY <1>0
  <2> QED
    BY <2>1 DEF Kept
<1>4. \A i \in 1 .. n : s[i] = SetToSeq(sets[i]) /\ t[i] = SetToSeq(others[i])
  OBVIOUS
<1> HIDE DEF s, t
<1>5. PICK f \in [0 .. n -> Seq(A)] : Joins(s, f) /\ FlattenSeq(s) = f[n]
  BY <1>1, <1>2, Flattened
<1>6. PICK g \in [0 .. n -> Seq(A)] : Joins(t, g) /\ FlattenSeq(t) = g[n]
  BY <1>1, <1>2, Flattened
<1> DEFINE Q == {m \in 0 .. n : Together(sets, others, m, f[m], g[m])}
<1>7. 0 \in Q
  <2>1. f[0] = <<>> /\ g[0] = <<>>
    BY <1>5, <1>6 DEF Joins
  <2> QED
    BY <2>1 DEF Together
<1>8. ASSUME NEW m \in 1 .. n, m - 1 \in Q PROVE m \in Q
  <2> DEFINE a == f[m - 1]
             b == g[m - 1]
             F == sets[m]
             G == others[m]
  <2>1. /\ m - 1 \in 0 .. n /\ m \in 0 .. n /\ m \in Nat \ {0}
        /\ a \in Seq(A) /\ b \in Seq(A) /\ f[m] \in Seq(A) /\ g[m] \in Seq(A)
        /\ Together(sets, others, m - 1, a, b)
    BY <1>8
  <2>2. f[m] = a \o SetToSeq(F) /\ g[m] = b \o SetToSeq(G)
    BY <1>1, <1>4, <1>5, <1>6 DEF Joins
  <2>3. Few(F, A) /\ Few(G, A) /\ (F = {} <=> G = {})
    BY <1>0
  <2> HIDE DEF F, G
  <2>4. IF F = {} THEN f[m] = a ELSE \E e \in F : f[m] = Append(a, e)
    <3>1. \A q \in Seq(A) : IF F = {} THEN q \o SetToSeq(F) = q
                            ELSE \E e \in F : q \o SetToSeq(F) = Append(q, e)
      BY <2>3, FewFollow
    <3> HIDE DEF a
    <3> QED
      BY <2>1, <2>2, <3>1
  <2>5. IF G = {} THEN g[m] = b ELSE \E e \in G : g[m] = Append(b, e)
    <3>1. \A q \in Seq(A) : IF G = {} THEN q \o SetToSeq(G) = q
                            ELSE \E e \in G : q \o SetToSeq(G) = Append(q, e)
      BY <2>3, FewFollow
    <3> HIDE DEF b
    <3> QED
      BY <2>1, <2>2, <3>1
  <2>6. F \subseteq A /\ G \subseteq A
    BY <2>3 DEF Few
  <2>7. IF sets[m] = {} THEN f[m] = a /\ g[m] = b
        ELSE \E x \in sets[m] \cap A, y \in others[m] \cap A : f[m] = Append(a, x) /\ g[m] = Append(b, y)
    <3> HIDE DEF a, b
    <3>1. IF F = {} THEN f[m] = a /\ g[m] = b
          ELSE \E x \in F \cap A, y \in G \cap A : f[m] = Append(a, x) /\ g[m] = Append(b, y)
      BY <2>3, <2>4, <2>5, <2>6
    <3> QED
      BY <3>1 DEF F, G
  <2> HIDE DEF a, b
  <2>8. Together(sets, others, m, f[m], g[m])
    BY <2>1, <2>7, OneMore
  <2> QED
    BY <2>1, <2>8
<1>9. \A m \in 0 .. n : m \in Q
  <2> HIDE DEF Q
  <2> QED
    BY <1>7, <1>8, Turns
<1>10. n \in Q /\ n \in 0 .. n
  BY <1>9
<1> QED
  BY <1>3, <1>5, <1>6, <1>10

\* Every event becomes one event or none, of the same type in the same frame,
\* and where it becomes none in one reader, it does in the other.
LEMMA EventsFew ==
    ASSUME NEW r
    PROVE  /\ convertEvent(r) = {} \/ \E e : convertEvent(r) = {e}
           /\ \A e \in convertEvent(r) : e.type = r.type /\ e.frame = r.frame
           /\ convertPbEvent(r) = {} \/ \E e : convertPbEvent(r) = {e}
           /\ \A e \in convertPbEvent(r) : e.type = r.type /\ e.frame = r.frame
           /\ parseEventArray(r).type = r.type /\ parseEventArray(r).frame = r.frame
           /\ convertEvent(r) = {} <=> convertPbEvent(parseEventArray(r)) = {}
<1> USE DEF HitTypes, NameTypes, HackTypes, CounterTypes, CaptureTypes
<1> DEFINE Known == HitTypes \cup NameTypes \cup HackTypes \cup CounterTypes \cup CaptureTypes
                        \cup {"endMission", "capturedFlag"}
<1>1. \A q : /\ q.type \in Known => \E e : convertEvent(q) = {e}
             /\ q.type \notin Known => convertEvent(q) = {}
  BY DEF convertEvent
<1>2. \A e \in convertEvent(r) : e.type = r.type /\ e.frame = r.frame
  BY DEF convertEvent
<1>3. \A q : /\ q.type \in Known => \E e : convertPbEvent(q) = {e}
             /\ q.type \notin Known => convertPbEvent(q) = {}
  BY DEF convertPbEvent
<1>4. \A e \in convertPbEvent(r) : e.type = r.type /\ e.frame = r.frame
  BY DEF convertPbEvent
<1>5. parseEventArray(r).type = r.type /\ parseEventArray(r).frame = r.frame
  BY DEF parseEventArray
<1> HIDE DEF Known
<1> QED
  BY <1>1, <1>2, <1>3, <1>4, <1>5

\* And where it is read alike it is the same one.
LEMMA EventSame ==
    ASSUME NEW r, ~ReadApart(r), r.type \in CaptureTypes => r.args[4] # 0,
           r.listed \in BOOLEAN, Len(r.args) \in Nat
    PROVE  convertEvent(r) = convertPbEvent(parseEventArray(r))
<1> DEFINE pb == parseEventArray(r)
           a == r.args
<1> USE DEF HitTypes, NameTypes, HackTypes, CounterTypes, CaptureTypes
<1>1. pb.type = r.type /\ pb.frame = r.frame
  BY EventsFew
<1> SUFFICES convertEvent(r) = convertPbEvent(pb)
  OBVIOUS
<1>2. CASE r.type \in HitTypes
  <2>1. r.listed
    BY <1>2 DEF ReadApart
  <2>2. pb.target = a[1] /\ pb.source = a[2]
    BY <1>2, <2>1 DEF parseEventArray
  <2> HIDE DEF pb
  <2> QED
    BY <1>1, <1>2, <2>1, <2>2 DEF convertEvent, convertPbEvent
<1>3. CASE r.type \in NameTypes
  <2>1. pb.message = a[1]
    BY <1>3 DEF parseEventArray
  <2> HIDE DEF pb
  <2> QED
    BY <1>1, <1>3, <2>1 DEF convertEvent, convertPbEvent
<1>4. CASE r.type = "endMission"
  <2>1. r.listed /\ ~(1 > Len(a)) /\ ~(2 > Len(a)) /\ Len(a) >= 2 /\ 1 <= Len(a) /\ 2 <= Len(a)
    BY <1>4 DEF ReadApart
  <2>2. pb.side = a[1] /\ pb.message = a[2]
    BY <1>4, <2>1 DEF parseEventArray
  <2>3. PartOfEnd(r, 1) = a[1] /\ PartOfEnd(r, 2) = a[2]
    BY <2>1 DEF PartOfEnd
  <2> HIDE DEF pb
  <2> QED
    BY <1>1, <1>4, <2>2, <2>3 DEF convertEvent, convertPbEvent
<1>5. CASE r.type \in CaptureTypes
  <2>1. pb.object = a[1] /\ pb.unit = a[2] /\ pb.side = a[3] /\ pb.at = a[4]
    BY <1>5 DEF parseEventArray
  <2> HIDE DEF pb
  <2> QED
    BY <1>1, <1>5, <2>1 DEF convertEvent, convertPbEvent
<1>6. CASE r.type \notin HitTypes \cup NameTypes \cup CaptureTypes \cup {"endMission"}
  <2>1. r.type \notin CounterTypes \cup HackTypes /\ r.type # "capturedFlag"
    BY DEF ReadApart
  <2> HIDE DEF pb
  <2> QED
    BY <1>1, <1>6, <2>1 DEF convertEvent, convertPbEvent
<1> HIDE DEF pb
<1> QED
  BY <1>2, <1>3, <1>4, <1>5, <1>6

\* The events of a recording.
LEMMA RawEvents ==
    ASSUME NEW raw, WellFormed(raw)
    PROVE  Len(raw.events) \in Nat /\ DOMAIN raw.events = 1 .. Len(raw.events)
<1> DEFINE s == raw.events
<1>1. s \in Seq(ToSet(s))
  BY DEF WellFormed
<1> HIDE DEF s
<1>2. Len(s) \in Nat /\ DOMAIN s = 1 .. Len(s)
  BY <1>1
<1> QED
  BY <1>2 DEF s

\* Streamed events are the ones the browser reads in JSON, one by one and in the
\* same order, but for what is read apart of some.
THEOREM EventsAgree ==
    ASSUME NEW raw, WellFormed(raw)
    PROVE  EventsAlike(raw, decodeManifest(raw).events, decodeJson(raw).events)
<1> DEFINE n == Len(raw.events)
           P == [i \in 1 .. n |-> convertPbEvent(parseEventArray(raw.events[i]))]
           J == [i \in 1 .. n |-> convertEvent(raw.events[i])]
           A == UNION {P[i] \cup J[i] : i \in 1 .. n}
           pb == decodeManifest(raw).events
           js == decodeJson(raw).events
<1>1. n \in Nat /\ DOMAIN raw.events = 1 .. n
  BY RawEvents
<1>2. \A i \in 1 .. n : /\ raw.events[i].type \in CaptureTypes => raw.events[i].args[4] # 0
                        /\ raw.events[i].listed \in BOOLEAN /\ Len(raw.events[i].args) \in Nat
  BY <1>1 DEF WellFormed
<1>3. pb = Kept(P) /\ js = Kept(J)
  BY <1>1 DEF decodeManifest, decodeJson
<1>4. \A i \in 1 .. n : P[i] = convertPbEvent(parseEventArray(raw.events[i])) /\ J[i] = convertEvent(raw.events[i])
  OBVIOUS
<1>5. P = [i \in 1 .. n |-> P[i]] /\ J = [i \in 1 .. n |-> J[i]]
  OBVIOUS
<1> HIDE DEF n, P, J, pb, js
<1>6. \A i \in 1 .. n : P[i] \subseteq A /\ J[i] \subseteq A
  OBVIOUS
<1> HIDE DEF A
<1>7. ASSUME NEW i \in 1 .. n PROVE Few(P[i], A) /\ Few(J[i], A) /\ (P[i] = {} <=> J[i] = {})
  <2> DEFINE r == raw.events[i]
             q == parseEventArray(r)
  <2>1. P[i] = {} \/ \E e : P[i] = {e}
    <3>1. convertPbEvent(q) = {} \/ \E e : convertPbEvent(q) = {e}
      BY EventsFew
    <3> QED
      BY <1>4, <3>1
  <2>2. J[i] = {} \/ \E e : J[i] = {e}
    <3>1. convertEvent(r) = {} \/ \E e : convertEvent(r) = {e}
      BY EventsFew
    <3> QED
      BY <1>4, <3>1
  <2>3. P[i] = {} <=> J[i] = {}
    <3>1. convertEvent(r) = {} <=> convertPbEvent(q) = {}
      BY EventsFew
    <3> QED
      BY <1>4, <3>1
  <2> QED
    BY <1>6, <2>1, <2>2, <2>3 DEF Few
<1>8. ASSUME NEW i \in 1 .. n, NEW e \in P[i], NEW f \in J[i]
      PROVE  /\ e.frame = f.frame /\ e.type = f.type
             /\ e # f => /\ ReadApart(raw.events[i]) /\ f \in convertEvent(raw.events[i])
                         /\ e \in convertPbEvent(parseEventArray(raw.events[i]))
  <2> DEFINE r == raw.events[i]
             q == parseEventArray(r)
  <2>1. e \in convertPbEvent(q) /\ f \in convertEvent(r)
    BY <1>4
  <2>2. e.frame = q.frame /\ e.type = q.type /\ q.frame = r.frame /\ q.type = r.type
    BY <2>1, EventsFew
  <2>3. f.frame = r.frame /\ f.type = r.type
    BY <2>1, EventsFew
  <2>4. ~ReadApart(r) => convertEvent(r) = convertPbEvent(q)
    BY <1>2, EventSame
  <2>5. \A x, y \in convertEvent(r) : x = y
    <3>1. convertEvent(r) = {} \/ \E x : convertEvent(r) = {x}
      BY EventsFew
    <3> QED
      BY <3>1
  <2> HIDE DEF q
  <2>6. ~ReadApart(r) => e = f
    BY <2>1, <2>4, <2>5
  <2> QED
    BY <2>1, <2>2, <2>3, <2>6 DEF q
<1>9. pb \in Seq(A) /\ js \in Seq(A) /\ Together(P, J, n, pb, js)
  <2>1. Matching(P, J, n, A)
    BY <1>5, <1>7 DEF Matching
  <2> QED
    BY <1>1, <1>3, <2>1, KeptTogether
<1>10. DOMAIN pb = 1 .. Len(pb)
  BY <1>9
<1>11. ASSUME NEW k \in DOMAIN pb
       PROVE  /\ pb[k].frame = js[k].frame /\ pb[k].type = js[k].type
              /\ pb[k] # js[k] =>
                    \E i \in DOMAIN raw.events :
                        /\ ReadApart(raw.events[i])
                        /\ js[k] \in convertEvent(raw.events[i])
                        /\ pb[k] \in convertPbEvent(parseEventArray(raw.events[i]))
  <2>1. PICK i \in 1 .. n : pb[k] \in P[i] /\ js[k] \in J[i]
    BY <1>9, <1>10 DEF Together
  <2>2. /\ pb[k].frame = js[k].frame /\ pb[k].type = js[k].type
        /\ pb[k] # js[k] => /\ ReadApart(raw.events[i]) /\ js[k] \in convertEvent(raw.events[i])
                            /\ pb[k] \in convertPbEvent(parseEventArray(raw.events[i]))
    BY <1>8, <2>1
  <2> QED
    BY <1>1, <2>2
<1>12. Len(pb) = Len(js)
  BY <1>9 DEF Together
<1> QED
  BY <1>11, <1>12 DEF EventsAlike, pb, js

-----------------------------------------------------------------------------
(* Counting.                                                                *)

\* P are the places in r of what is at the places Q in s.
Picked(s, T, r, h, P, Q) ==
    /\ P \subseteq 1 .. Len(r) /\ Q \subseteq 1 .. Len(s)
    /\ \A i \in Q : s[i] \in T
    /\ \A k \in 1 .. Len(r) : k \in P <=> h[k] \in Q

\* As many of the selected elements as of the elements they come from.
LEMMA SelectedCount ==
    ASSUME NEW s, NEW T, NEW r, NEW h, Selected(s, T, r, h),
           NEW P, NEW Q, Picked(s, T, r, h, P, Q)
    PROVE  IsFiniteSet(P) /\ IsFiniteSet(Q) /\ Cardinality(P) = Cardinality(Q)
<1>0. /\ P \subseteq 1 .. Len(r) /\ Q \subseteq 1 .. Len(s)
      /\ \A i \in Q : s[i] \in T
      /\ \A k \in 1 .. Len(r) : k \in P <=> h[k] \in Q
  BY DEF Picked
<1>1. /\ Len(s) \in Nat /\ Len(r) \in Nat /\ h \in [1 .. Len(r) -> 1 .. Len(s)]
      /\ \A k, l \in 1 .. Len(r) : k < l => h[k] < h[l]
      /\ \A i \in 1 .. Len(s) : s[i] \in T => \E k \in 1 .. Len(r) : h[k] = i
  BY DEF Selected
<1>2. IsFiniteSet(P)
  <2>1. IsFiniteSet(1 .. Len(r))
    BY <1>1, FS_Interval
  <2> QED
    BY <1>0, <2>1, FS_Subset
<1> DEFINE g == [k \in P |-> h[k]]
<1>3. g \in [P -> Q]
  BY <1>0, <1>1
<1>4. \A x, y \in P : g[x] = g[y] => x = y
  <2> SUFFICES ASSUME NEW x \in P, NEW y \in P, g[x] = g[y] PROVE x = y
    OBVIOUS
  <2>1. x \in 1 .. Len(r) /\ y \in 1 .. Len(r) /\ h[x] = h[y] /\ h[x] \in Int
    BY <1>0, <1>1
  <2>2. ~(x < y) /\ ~(y < x)
    BY <1>1, <2>1
  <2> QED
    BY <2>1, <2>2
<1>5. \A i \in Q : \E k \in P : g[k] = i
  BY <1>0, <1>1
<1> HIDE DEF g
<1> QED
  BY <1>2, <1>3, <1>4, <1>5, SameSize

\* One more number is looked at.
LEMMA CountedOn ==
    ASSUME NEW S, NEW m \in Nat \ {0}
    PROVE  LET c(n) == Cardinality({i \in 1 .. n : i \in S})
           IN  /\ c(m - 1) \in Nat
               /\ c(m) = IF m \in S THEN c(m - 1) + 1 ELSE c(m - 1)
<1> DEFINE P(n) == {i \in 1 .. n : i \in S}
<1>1. IsFiniteSet(P(m - 1)) /\ m \notin P(m - 1)
  <2>1. IsFiniteSet(1 .. m - 1)
    BY FS_Interval
  <2> QED
    BY <2>1, FS_Subset
<1>2. P(m) = IF m \in S THEN P(m - 1) \cup {m} ELSE P(m - 1)
  OBVIOUS
<1>3. Cardinality(P(m - 1)) \in Nat
  BY <1>1, FS_CardinalityType
<1>4. Cardinality(P(m - 1) \cup {m}) = Cardinality(P(m - 1)) + 1
  <2> HIDE DEF P
  <2> QED
    BY <1>1, FS_AddElement
<1> QED
  BY <1>2, <1>3, <1>4

\* What is in a finite set is counted.
LEMMA CountedOnce ==
    ASSUME NEW S, IsFiniteSet(S), NEW e \in S
    PROVE  Cardinality(S) \in Nat /\ Cardinality(S) > 0
<1>1. Cardinality(S) \in Nat /\ Cardinality(S) # 0
  BY FS_CardinalityType, FS_EmptySet
<1> QED
  BY <1>1

\* Larger terms make a larger sum.
LEMMA TotalOrder ==
    ASSUME NEW S, IsFiniteSet(S), NEW f, NEW g,
           \A x \in S : f[x] \in Nat /\ g[x] \in Nat /\ f[x] <= g[x]
    PROVE  Total(S, f) \in Nat /\ Total(S, g) \in Nat /\ Total(S, f) <= Total(S, g)
<1> DEFINE row == [x \in S |-> {x} \X (1 .. g[x])]
           R == {row[x] : x \in S}
           F == UNION {{x} \X (1 .. f[x]) : x \in S}
           G == UNION {{x} \X (1 .. g[x]) : x \in S}
<1>1. IsFiniteSet(R)
  <2>1. DOMAIN row = S
    OBVIOUS
  <2> HIDE DEF row
  <2> QED
    BY <2>1, FiniteImage
<1>2. \A x \in S : IsFiniteSet(row[x])
  <2> SUFFICES ASSUME NEW x \in S PROVE IsFiniteSet({x} \X (1 .. g[x]))
    OBVIOUS
  <2>0. g[x] \in Int /\ 1 \in Int
    OBVIOUS
  <2>1. IsFiniteSet(1 .. g[x])
    BY <2>0, FS_Interval
  <2> QED
    BY <2>1, FS_Singleton, FS_Product
<1>3. \A r \in R : IsFiniteSet(r)
  <2> HIDE DEF row
  <2> QED
    BY <1>2
<1>4. G = UNION R
  OBVIOUS
<1>5. IsFiniteSet(UNION R)
  <2> HIDE DEF R
  <2> QED
    BY <1>1, <1>3, FS_UNION
<1>6. F \subseteq G
  <2> SUFFICES ASSUME NEW x \in S, NEW p \in {x} \X (1 .. f[x]) PROVE p \in {x} \X (1 .. g[x])
    OBVIOUS
  <2> QED
    OBVIOUS
<1> HIDE DEF F, G, R
<1>7. IsFiniteSet(G) /\ IsFiniteSet(F) /\ Cardinality(F) <= Cardinality(G)
  BY <1>4, <1>5, <1>6, FS_Subset
<1>8. Cardinality(F) \in Nat /\ Cardinality(G) \in Nat
  BY <1>7, FS_CardinalityType
<1> QED
  BY <1>7, <1>8 DEF Total, F, G

-----------------------------------------------------------------------------
(* What the panels go through.                                              *)

\* A list of events: when each was and, of a kill, who died.
Happened(ids, events) ==
    /\ events \in Seq(ToSet(events))
    /\ \A e \in ToSet(events) : e.frame \in Nat /\ (e.type = "killed" => e.victim \in ids)

\* A list of entities: who they are.
People(defs, n) ==
    /\ Listing(defs, n)
    /\ \A i \in 1 .. n : /\ defs[i].side \in {"WEST", "EAST", "GUER", "CIV"}
                         /\ defs[i].player => defs[i].type = "man"

\* A kill is written with its victim first, read so by the browser always and by
\* the server where the causer is listed.
LEMMA VictimKept ==
    ASSUME NEW r, r.type = "killed"
    PROVE  /\ \A e \in convertEvent(r) : e.victim = r.args[1]
           /\ \A e \in convertPbEvent(parseEventArray(r)) :
                    e.victim = IF r.listed THEN r.args[1] ELSE r.args[2]
<1> USE DEF HitTypes, NameTypes, HackTypes, CounterTypes, CaptureTypes
<1> DEFINE pb == parseEventArray(r)
<1>1. pb.type = "killed"
  BY EventsFew
<1>2. pb.target = IF r.listed THEN r.args[1] ELSE r.args[2]
  BY DEF parseEventArray
<1>3. \A e \in convertEvent(r) : e.victim = r.args[1]
  BY DEF convertEvent
<1> HIDE DEF pb
<1>4. \A e \in convertPbEvent(pb) : e.victim = IF r.listed THEN r.args[1] ELSE r.args[2]
  BY <1>1, <1>2 DEF convertPbEvent
<1> QED
  BY <1>3, <1>4 DEF pb

\* sets[i] is what a decoder makes of the event r.
OfEvent(set, r) ==
    /\ set = {} \/ \E e : set = {e}
    /\ \A e \in set : /\ e.type = r.type /\ e.frame = r.frame
                      /\ e.type = "killed" =>
                            e.victim = r.args[1] \/ (~r.listed /\ e.victim = r.args[2])

LEMMA ListHappened ==
    ASSUME NEW raw, WellFormed(raw), NEW sets,
           sets = [i \in DOMAIN raw.events |-> sets[i]],
           \A i \in DOMAIN raw.events : OfEvent(sets[i], raw.events[i])
    PROVE  Happened({raw.entities[i].id : i \in DOMAIN raw.entities}, Kept(sets))
<1> DEFINE n == Len(raw.events)
           ids == {raw.entities[i].id : i \in DOMAIN raw.entities}
           A == UNION {sets[i] : i \in 1 .. n}
           events == Kept(sets)
<1>1. n \in Nat /\ DOMAIN raw.events = 1 .. n
  BY RawEvents
<1>2. ASSUME NEW i \in 1 .. n
      PROVE  LET r == raw.events[i]
             IN  /\ r.frame \in Nat
                 /\ r.type = "killed" => r.args[1] \in ids /\ (~r.listed => r.args[2] \in ids)
  <2> HIDE DEF ids
  <2>1. i \in DOMAIN raw.events
    BY <1>1
  <2>2. /\ raw.events[i].frame \in Nat
        /\ raw.events[i].type = "killed" => /\ raw.events[i].args[1] \in ids
                                            /\ ~raw.events[i].listed => raw.events[i].args[2] \in ids
    BY <2>1 DEF WellFormed, ids
  <2> QED
    BY <2>2
<1>3. \A i \in 1 .. n : OfEvent(sets[i], raw.events[i]) /\ sets[i] \subseteq A
  BY <1>1
<1>4. sets = [i \in 1 .. n |-> sets[i]]
  BY <1>1
<1>5. ASSUME NEW e \in A PROVE e.frame \in Nat /\ (e.type = "killed" => e.victim \in ids)
  <2>1. PICK i \in 1 .. n : e \in sets[i]
    OBVIOUS
  <2> DEFINE r == raw.events[i]
  <2>2. /\ e.type = r.type /\ e.frame = r.frame
        /\ e.type = "killed" => e.victim = r.args[1] \/ (~r.listed /\ e.victim = r.args[2])
    BY <1>3, <2>1 DEF OfEvent
  <2>3. /\ r.frame \in Nat
        /\ r.type = "killed" => r.args[1] \in ids /\ (~r.listed => r.args[2] \in ids)
    BY <1>2
  <2> HIDE DEF r, ids
  <2> QED
    BY <2>2, <2>3
<1> HIDE DEF n, A
<1>6. \A i \in 1 .. n : Few(sets[i], A)
  BY <1>3 DEF OfEvent, Few
<1>7. events \in Seq(A)
  <2>1. Matching(sets, sets, n, A)
    BY <1>4, <1>6 DEF Matching
  <2> QED
    BY <1>1, <2>1, KeptTogether
<1> HIDE DEF events
<1>8. events \in Seq(ToSet(events)) /\ ToSet(events) \subseteq A
  BY <1>7 DEF ToSet
<1> QED
  BY <1>5, <1>8 DEF Happened, events, ids

\* Read from either, entities and events are such lists.
LEMMA JsonHappened ==
    ASSUME NEW raw, WellFormed(raw)
    PROVE  LET rec == decodeJson(raw)
           IN  People(rec.entities, Len(raw.entities)) /\ Happened(Ids(rec.entities), rec.events)
<1> DEFINE n == Len(raw.entities)
           defs == decodeJson(raw).entities
           sets == [i \in DOMAIN raw.events |-> convertEvent(raw.events[i])]
<1>1. /\ n \in Nat /\ DOMAIN raw.entities = 1 .. n
      /\ \A i \in 1 .. n : raw.entities[i] \in RawEntities
  BY RawListing
<1>2. defs = [i \in 1 .. n |-> convertEntity(raw.entities[i])]
  BY <1>1 DEF decodeJson
<1>3. Listing(defs, n)
  BY EntitiesAlike DEF Alike
<1>4. \A i \in 1 .. n : defs[i].id = raw.entities[i].id
  BY <1>1, <1>2, EntitiesAgree
<1>5. ASSUME NEW i \in 1 .. n
      PROVE  /\ defs[i].side \in {"WEST", "EAST", "GUER", "CIV"}
             /\ defs[i].player => defs[i].type = "man"
  <2> DEFINE r == raw.entities[i]
  <2>1. r.unit \in BOOLEAN /\ (~r.unit => ~r.player)
    BY <1>1, RawEntity
  <2>2. defs[i] = convertEntity(r)
    BY <1>2
  <2>3. /\ convertEntity(r).side = mapSide(r.side) /\ convertEntity(r).player = r.player
        /\ convertEntity(r).type = mapEntityType(IF r.unit THEN "unit" ELSE r.class)
    BY DEF convertEntity
  <2>4. mapSide(r.side) \in {"WEST", "EAST", "GUER", "CIV"} /\ mapEntityType("unit") = "man"
    BY DEF mapSide, mapEntityType
  <2> QED
    BY <2>1, <2>2, <2>3, <2>4
<1>6. \A i \in DOMAIN raw.events : OfEvent(convertEvent(raw.events[i]), raw.events[i])
  BY EventsFew, VictimKept DEF OfEvent
<1>7. Kept(sets) = decodeJson(raw).events
  BY DEF decodeJson
<1>8. /\ sets = [i \in DOMAIN raw.events |-> sets[i]]
      /\ \A i \in DOMAIN raw.events : OfEvent(sets[i], raw.events[i])
  BY <1>6
<1> HIDE DEF sets
<1>9. Happened({raw.entities[i].id : i \in DOMAIN raw.entities}, Kept(sets))
  BY <1>8, ListHappened
<1>10. Ids(defs) = {raw.entities[i].id : i \in DOMAIN raw.entities}
  <2> HIDE DEF n, defs
  <2>1. Ids(defs) = {defs[i].id : i \in 1 .. n}
    BY <1>3, EntityFound
  <2> QED
    BY <1>1, <1>4, <2>1
<1> QED
  BY <1>3, <1>5, <1>7, <1>9, <1>10 DEF People

LEMMA ManifestHappened ==
    ASSUME NEW raw, WellFormed(raw)
    PROVE  LET rec == decodeManifest(raw)
           IN  People(rec.entities, Len(raw.entities)) /\ Happened(Ids(rec.entities), rec.events)
<1> DEFINE n == Len(raw.entities)
           defs == decodeManifest(raw).entities
           others == decodeJson(raw).entities
           sets == [i \in DOMAIN raw.events |-> convertPbEvent(parseEventArray(raw.events[i]))]
<1>1. n \in Nat /\ DOMAIN raw.entities = 1 .. n
  BY RawListing
<1>2. Alike(defs, others, n) /\ People(others, n)
  BY EntitiesAlike, JsonHappened
<1>3. defs = [i \in 1 .. n |-> convertEntityDef(raw.entities[i])]
  BY <1>1 DEF decodeManifest
<1>4. \A i \in 1 .. n : defs[i].id = raw.entities[i].id
  BY <1>3 DEF convertEntityDef
<1>5. ASSUME NEW i \in DOMAIN raw.events
      PROVE  OfEvent(convertPbEvent(parseEventArray(raw.events[i])), raw.events[i])
  <2> DEFINE r == raw.events[i]
             q == parseEventArray(r)
  <2>1. q.type = r.type /\ q.frame = r.frame
    BY EventsFew
  <2>2. /\ convertPbEvent(q) = {} \/ \E e : convertPbEvent(q) = {e}
        /\ \A e \in convertPbEvent(q) : e.type = q.type /\ e.frame = q.frame
    BY EventsFew
  <2>3. r.type = "killed" => \A e \in convertPbEvent(q) :
                e.victim = IF r.listed THEN r.args[1] ELSE r.args[2]
    BY VictimKept
  <2> HIDE DEF q, r
  <2>4. OfEvent(convertPbEvent(q), r)
    BY <2>1, <2>2, <2>3 DEF OfEvent
  <2> QED
    BY <2>4 DEF q, r
<1>6. Kept(sets) = decodeManifest(raw).events
  BY DEF decodeManifest
<1>7. /\ sets = [i \in DOMAIN raw.events |-> sets[i]]
      /\ \A i \in DOMAIN raw.events : OfEvent(sets[i], raw.events[i])
  BY <1>5
<1> HIDE DEF sets
<1>8. Happened({raw.entities[i].id : i \in DOMAIN raw.entities}, Kept(sets))
  BY <1>7, ListHappened
<1> HIDE DEF n, defs, others
<1>9. Ids(defs) = {raw.entities[i].id : i \in DOMAIN raw.entities}
  <2>1. Ids(defs) = {defs[i].id : i \in 1 .. n}
    BY <1>2, EntityFound DEF Alike
  <2> QED
    BY <1>1, <1>4, <2>1
<1>10. People(defs, n)
  BY <1>2 DEF Alike, People
<1> QED
  BY <1>6, <1>8, <1>9, <1>10 DEF n, defs

\* How many of the list are in C, and where those so far are in it.
HowMany(so, C) == Cardinality({i \in 1 .. Len(so) : so[i] \in C})
Early(events, frame, C) == {n \in DOMAIN events : events[n].frame <= frame /\ events[n] \in C}

\* The events so far, and how many of a kind C there are of them.
LEMMA ActiveCount ==
    ASSUME NEW ids, NEW events, Happened(ids, events), NEW frame, NEW C
    PROVE  LET so == getActiveEvents(events, frame)
               early == Early(events, frame, C)
           IN  /\ Happened(ids, so) /\ Len(so) \in Nat /\ DOMAIN so = 1 .. Len(so)
               /\ \A i \in 1 .. Len(so) : so[i] \in ToSet(events) /\ so[i].frame <= frame
               /\ IsFiniteSet({i \in 1 .. Len(so) : so[i] \in C}) /\ IsFiniteSet(early)
               /\ HowMany(so, C) = Cardinality(early)
<1> DEFINE S == ToSet(events)
           T == {ev \in S : ev.frame <= frame}
           so == getActiveEvents(events, frame)
           P == {i \in 1 .. Len(so) : so[i] \in C}
           Q == {n \in 1 .. Len(events) : events[n].frame <= frame /\ events[n] \in C}
<1>1. events \in Seq(S) /\ so = Those(events, T)
  BY DEF Happened, getActiveEvents
<1>2. Len(events) \in Nat /\ DOMAIN events = 1 .. Len(events)
  <2> HIDE DEF S
  <2> QED
    BY <1>1
<1>3. \A n \in 1 .. Len(events) : events[n] \in S
  BY <1>2 DEF ToSet
<1> HIDE DEF S
<1>4. \A n \in 1 .. Len(events) : events[n] \in T <=> events[n].frame <= frame
  BY <1>3
<1>5. \A ev \in T : ev \in S /\ ev.frame <= frame
  OBVIOUS
<1> HIDE DEF T, so
<1>6. PICK h : Selected(events, T, so, h)
  BY <1>1, ThoseAre
<1>7. /\ Len(so) \in Nat /\ so \in Seq(T) /\ h \in [1 .. Len(so) -> 1 .. Len(events)]
      /\ \A k \in 1 .. Len(so) : so[k] = events[h[k]]
  BY <1>6 DEF Selected
<1>8. DOMAIN so = 1 .. Len(so) /\ \A k \in 1 .. Len(so) : so[k] \in T
  BY <1>7
<1>9. so \in Seq(ToSet(so)) /\ ToSet(so) \subseteq T
  BY <1>7 DEF ToSet
<1>10. Happened(ids, so)
  BY <1>5, <1>9 DEF Happened, S
<1>11. \A k \in 1 .. Len(so) : k \in P <=> h[k] \in Q
  BY <1>4, <1>7, <1>8
<1>12. \A n \in Q : events[n] \in T
  BY <1>4
<1>13. P \subseteq 1 .. Len(so) /\ Q \subseteq 1 .. Len(events)
  OBVIOUS
<1>14. Picked(events, T, so, h, P, Q)
  BY <1>11, <1>12, <1>13 DEF Picked
<1>15. IsFiniteSet(P) /\ IsFiniteSet(Q) /\ Cardinality(P) = Cardinality(Q)
  <2> HIDE DEF P, Q
  <2> QED
    BY <1>6, <1>14, SelectedCount
<1> QED
  BY <1>2, <1>5, <1>7, <1>8, <1>10, <1>15 DEF so, S, HowMany, Early

\* The kills by somebody, the ones among them of the own side, and the deaths
\* of somebody, as the panels count them.
KillsBy(defs, S, id) ==
    {ev \in S : ev.type = "killed" /\ ev.causer = id /\ ev.victim # id /\ IsUnit(defs, ev.victim)}
TeamBy(defs, S, id) ==
    {ev \in S : ev.type = "killed" /\ ev.causer = id /\ isFriendlyFire(defs, ev)}
DeathsOf(defs, S, id) == {ev \in S : ev.type = "killed" /\ ev.victim = id /\ IsUnit(defs, id)}

\* The counts of the panels at a frame are those over the events so far.
LEMMA PanelCounts ==
    ASSUME NEW defs, NEW events, Happened(Ids(defs), events), NEW frame, NEW id \in Ids(defs)
    PROVE  LET so == getActiveEvents(events, frame)
               c == getKillDeathCounts(defs, events, frame)[id]
               S == ToSet(events)
           IN  /\ c.kills = HowMany(so, KillsBy(defs, S, id))
               /\ c.team = HowMany(so, TeamBy(defs, S, id))
               /\ c.deaths = HowMany(so, DeathsOf(defs, S, id))
               /\ c.vehicles \in Nat
<1> DEFINE so == getActiveEvents(events, frame)
           S == ToSet(events)
           killed == {i \in DOMAIN events : events[i].type = "killed" /\ events[i].frame <= frame}
           vehicle(i) == events[i].victim \in Ids(defs) /\ ~IsUnit(defs, events[i].victim)
           own(i) == events[i].victim = events[i].causer
           by == {i \in killed : events[i].causer = id /\ ~own(i)}
           c == getKillDeathCounts(defs, events, frame)[id]
<1>1. /\ c.kills = Cardinality({i \in by : ~vehicle(i)})
      /\ c.vehicles = Cardinality({i \in by : vehicle(i)})
      /\ c.team = Cardinality({i \in by : isFriendlyFire(defs, events[i])})
      /\ c.deaths = Cardinality({i \in killed : events[i].victim = id /\ ~vehicle(i)})
  BY DEF getKillDeathCounts
<1>2. \A n \in DOMAIN events : events[n] \in S /\ (events[n].type = "killed" => events[n].victim \in Ids(defs))
  BY DEF Happened, ToSet
<1> HIDE DEF c, S, so
<1>3. {i \in by : ~vehicle(i)} = Early(events, frame, KillsBy(defs, S, id))
  BY <1>2 DEF KillsBy, Early
<1>4. {i \in by : isFriendlyFire(defs, events[i])} = Early(events, frame, TeamBy(defs, S, id))
  <2>1. \A ev : isFriendlyFire(defs, ev) => ev.victim # ev.causer
    BY DEF isFriendlyFire
  <2> QED
    BY <1>2, <2>1 DEF TeamBy, Early
<1>5. {i \in killed : events[i].victim = id /\ ~vehicle(i)} = Early(events, frame, DeathsOf(defs, S, id))
  BY <1>2 DEF DeathsOf, Early
<1>6. \A C : Cardinality(Early(events, frame, C)) = HowMany(so, C)
  BY ActiveCount DEF so
<1>7. c.vehicles \in Nat
  <2>1. IsFiniteSet(Early(events, frame, S))
    BY ActiveCount
  <2>2. {i \in by : vehicle(i)} \subseteq Early(events, frame, S)
    BY <1>2 DEF Early
  <2>3. IsFiniteSet({i \in by : vehicle(i)})
    BY <2>1, <2>2, FS_Subset
  <2> QED
    BY <1>1, <2>3, FS_CardinalityType
<1> QED
  BY <1>1, <1>3, <1>4, <1>5, <1>6, <1>7 DEF c, so, S

\* Some of a part are some of the whole.
LEMMA HowManyLess ==
    ASSUME NEW so, Len(so) \in Nat, NEW C, NEW D, \A i \in 1 .. Len(so) : so[i] \in C => so[i] \in D
    PROVE  HowMany(so, C) \in Nat /\ HowMany(so, D) \in Nat /\ HowMany(so, C) <= HowMany(so, D)
<1> DEFINE P == {i \in 1 .. Len(so) : so[i] \in C}
           Q == {i \in 1 .. Len(so) : so[i] \in D}
<1>1. IsFiniteSet(1 .. Len(so))
  BY FS_Interval
<1>2. P \subseteq Q /\ Q \subseteq 1 .. Len(so)
  OBVIOUS
<1> HIDE DEF P, Q
<1>3. IsFiniteSet(Q) /\ IsFiniteSet(P) /\ Cardinality(P) <= Cardinality(Q)
  BY <1>1, <1>2, FS_Subset
<1>4. Cardinality(P) \in Nat /\ Cardinality(Q) \in Nat
  BY <1>3, FS_CardinalityType
<1> QED
  BY <1>3, <1>4 DEF P, Q, HowMany

-----------------------------------------------------------------------------
(* The score written into the events.                                       *)

Scores(ids) == [kills : [ids -> Int], team : [ids -> Int], score : [ids -> Int]]

\* What one event adds, and the loop of resolveReferences.
Scored(defs, acc, ev) ==
    LET own == ev.victim = ev.causer
        kills == IF own THEN acc.kills[ev.causer] ELSE acc.kills[ev.causer] + 1
        team == IF isFriendlyFire(defs, ev) THEN acc.team[ev.causer] + 1
                ELSE acc.team[ev.causer]
    IN  IF ev.type = "killed" /\ IsUnit(defs, ev.victim) /\ IsUnit(defs, ev.causer)
        THEN [kills |-> [acc.kills EXCEPT ![ev.causer] = kills],
              team |-> [acc.team EXCEPT ![ev.causer] = team],
              score |-> [acc.score EXCEPT ![ev.causer] = kills - 2 * team]]
        ELSE acc
NoScore(ids) ==
    LET zero == [id \in ids |-> 0] IN [kills |-> zero, team |-> zero, score |-> zero]
Resolves(defs, events, f) ==
    f = [n \in 0 .. Len(events) |-> IF n = 0 THEN NoScore(Ids(defs))
                                    ELSE Scored(defs, f[n - 1], events[n])]

\* What ev adds to the score of the unit id.
AddsKill(defs, ev, id) ==
    ev.type = "killed" /\ ev.causer = id /\ ev.victim # id /\ IsUnit(defs, ev.victim)
AddsTeam(defs, ev, id) == ev.type = "killed" /\ ev.causer = id /\ isFriendlyFire(defs, ev)
Added(defs, acc, x, ev, id) ==
    /\ x.kills[id] = IF AddsKill(defs, ev, id) THEN acc.kills[id] + 1 ELSE acc.kills[id]
    /\ x.team[id] = IF AddsTeam(defs, ev, id) THEN acc.team[id] + 1 ELSE acc.team[id]
    /\ acc.score[id] = acc.kills[id] - 2 * acc.team[id] => x.score[id] = x.kills[id] - 2 * x.team[id]

LEMMA ScoredStep ==
    ASSUME NEW defs, NEW acc \in Scores(Ids(defs)), NEW ev
    PROVE  /\ Scored(defs, acc, ev) \in Scores(Ids(defs))
           /\ \A id : IsUnit(defs, id) => Added(defs, acc, Scored(defs, acc, ev), ev, id)
<1> DEFINE I == Ids(defs)
           x == Scored(defs, acc, ev)
           c == ev.causer
           kills == IF ev.victim = c THEN acc.kills[c] ELSE acc.kills[c] + 1
           team == IF isFriendlyFire(defs, ev) THEN acc.team[c] + 1 ELSE acc.team[c]
<1>1. acc.kills \in [I -> Int] /\ acc.team \in [I -> Int] /\ acc.score \in [I -> Int]
  BY DEF Scores
<1>2. CASE ~(ev.type = "killed" /\ IsUnit(defs, ev.victim) /\ IsUnit(defs, c))
  <2>1. x = acc
    BY <1>2 DEF Scored
  <2>2. ASSUME NEW id, IsUnit(defs, id) PROVE ~AddsKill(defs, ev, id) /\ ~AddsTeam(defs, ev, id)
    <3>1. isFriendlyFire(defs, ev) => IsUnit(defs, ev.victim)
      BY DEF isFriendlyFire
    <3> QED
      BY <1>2, <2>2, <3>1 DEF AddsKill, AddsTeam
  <2> HIDE DEF x
  <2>3. \A id : IsUnit(defs, id) => Added(defs, acc, x, ev, id)
    BY <2>1, <2>2 DEF Added
  <2> QED
    BY <2>1, <2>3 DEF x
<1>3. CASE ev.type = "killed" /\ IsUnit(defs, ev.victim) /\ IsUnit(defs, c)
  <2>1. x = [kills |-> [acc.kills EXCEPT ![c] = kills], team |-> [acc.team EXCEPT ![c] = team],
             score |-> [acc.score EXCEPT ![c] = kills - 2 * team]]
    BY <1>3 DEF Scored
  <2>2. c \in I
    BY <1>3 DEF IsUnit
  <2>3. kills \in Int /\ team \in Int
    BY <1>1, <2>2
  <2> HIDE DEF x, kills, team
  <2>4. x \in Scores(I)
    BY <1>1, <2>1, <2>2, <2>3 DEF Scores
  <2>5. ASSUME NEW id \in I, id # c PROVE Added(defs, acc, x, ev, id)
    <3>1. x.kills[id] = acc.kills[id] /\ x.team[id] = acc.team[id] /\ x.score[id] = acc.score[id]
      BY <1>1, <2>1, <2>5
    <3>2. ~AddsKill(defs, ev, id) /\ ~AddsTeam(defs, ev, id)
      BY <2>5 DEF AddsKill, AddsTeam
    <3> QED
      BY <3>1, <3>2 DEF Added
  <2>6. Added(defs, acc, x, ev, c)
    <3>1. x.kills[c] = kills /\ x.team[c] = team /\ x.score[c] = kills - 2 * team
      BY <1>1, <2>1, <2>2
    <3>2. kills = IF AddsKill(defs, ev, c) THEN acc.kills[c] + 1 ELSE acc.kills[c]
      BY <1>3 DEF kills, AddsKill
    <3>3. team = IF AddsTeam(defs, ev, c) THEN acc.team[c] + 1 ELSE acc.team[c]
      BY <1>3 DEF team, AddsTeam
    <3> QED
      BY <3>1, <3>2, <3>3 DEF Added
  <2>7. \A id : IsUnit(defs, id) => id \in I
    BY DEF IsUnit
  <2> QED
    BY <2>4, <2>5, <2>6, <2>7 DEF x
<1> QED
  BY <1>2, <1>3

LEMMA ResolvesExists ==
    ASSUME NEW defs, NEW events, Len(events) \in Nat
    PROVE  \E f \in [0 .. Len(events) -> Scores(Ids(defs))] : Resolves(defs, events, f)
<1> DEFINE n == Len(events)
           X == Scores(Ids(defs))
           a == NoScore(Ids(defs))
           step == [x \in X \X (1 .. n) |-> Scored(defs, x[1], events[x[2]])]
<1>1. n \in Nat /\ a \in X
  BY DEF Scores, NoScore
<1>2. step \in [X \X (1 .. n) -> X]
  <2> HIDE DEF n
  <2>1. \A x \in X \X (1 .. n) : x[1] \in X
    OBVIOUS
  <2>2. \A x \in X : \A ev : Scored(defs, x, ev) \in X
    BY ScoredStep
  <2> HIDE DEF X
  <2> QED
    BY <2>1, <2>2
<1> HIDE DEF step, X, n, a
<1>3. PICK f \in [0 .. n -> X] : Loop(a, step, f, n)
  BY <1>1, <1>2, LoopExists
<1>4. \A k \in 1 .. n : k - 1 \in 0 .. n /\ f[k - 1] \in X
  BY <1>1, <1>3
<1>5. \A k \in 1 .. n : step[<<f[k - 1], k>>] = Scored(defs, f[k - 1], events[k])
  BY <1>4 DEF step
<1>6. f = [k \in 0 .. n |-> IF k = 0 THEN a ELSE step[<<f[k - 1], k>>]]
  BY <1>3 DEF Loop
<1>7. \A k \in 0 .. n : k # 0 => k \in 1 .. n
  BY <1>1
<1>8. f = [k \in 0 .. n |-> IF k = 0 THEN a ELSE Scored(defs, f[k - 1], events[k])]
  BY <1>5, <1>6, <1>7
<1> QED
  BY <1>3, <1>8 DEF Resolves, X, n, a

\* The score of a unit is its kills less twice those of its own side.
LEMMA ScoreCounts ==
    ASSUME NEW defs, NEW so, Happened(Ids(defs), so), NEW S, ToSet(so) \subseteq S,
           NEW id, IsUnit(defs, id)
    PROVE  resolveReferences(defs, so).score[id] =
                HowMany(so, KillsBy(defs, S, id)) - 2 * HowMany(so, TeamBy(defs, S, id))
<1> DEFINE n == Len(so)
           X == Scores(Ids(defs))
           f == CHOOSE g : Resolves(defs, so, g)
           K == {i \in 1 .. n : so[i] \in KillsBy(defs, S, id)}
           T == {i \in 1 .. n : so[i] \in TeamBy(defs, S, id)}
           upTo(P, m) == Cardinality({i \in 1 .. m : i \in P})
           Q == {m \in 0 .. n : /\ f[m] \in X
                                /\ f[m].kills[id] = upTo(K, m)
                                /\ f[m].team[id] = upTo(T, m)
                                /\ f[m].score[id] = f[m].kills[id] - 2 * f[m].team[id]}
<1>1. n \in Nat /\ \A i \in 1 .. n : so[i] \in S
  <2>1. so \in Seq(ToSet(so))
    BY DEF Happened
  <2> DEFINE Z == ToSet(so)
  <2>2. Z \subseteq S
    OBVIOUS
  <2> HIDE DEF Z
  <2>3. so \in Seq(Z)
    BY <2>1 DEF Z
  <2> QED
    BY <2>2, <2>3
<1>2. id \in Ids(defs)
  BY DEF IsUnit
<1>3. Resolves(defs, so, f)
  BY <1>1, ResolvesExists
<1>4. resolveReferences(defs, so) = f[n]
  BY DEF resolveReferences, Resolves, Scored, NoScore
<1> HIDE DEF f
<1>5. f[0] = NoScore(Ids(defs))
  BY <1>1, <1>3 DEF Resolves
<1>6. \A k \in 1 .. n : f[k] = Scored(defs, f[k - 1], so[k])
  <2>1. \A k \in 1 .. n : k \in 0 .. n /\ k # 0
    BY <1>1
  <2>2. f = [k \in 0 .. n |-> IF k = 0 THEN NoScore(Ids(defs)) ELSE Scored(defs, f[k - 1], so[k])]
    BY <1>3 DEF Resolves
  <2> HIDE DEF n
  <2> QED
    BY <2>1, <2>2
<1>7. 0 \in Q
  <2>1. {i \in 1 .. 0 : i \in K} = {} /\ {i \in 1 .. 0 : i \in T} = {}
    OBVIOUS
  <2>2. upTo(K, 0) = 0 /\ upTo(T, 0) = 0
    BY <2>1, FS_EmptySet
  <2>3. /\ NoScore(Ids(defs)) \in X
        /\ NoScore(Ids(defs)).kills[id] = 0 /\ NoScore(Ids(defs)).team[id] = 0
        /\ NoScore(Ids(defs)).score[id] = 0
    BY <1>2 DEF Scores, NoScore
  <2> HIDE DEF upTo, X
  <2> QED
    BY <1>1, <1>5, <2>2, <2>3
<1>8. ASSUME NEW m \in 1 .. n, m - 1 \in Q PROVE m \in Q
  <2> DEFINE x == f[m - 1]
             ev == so[m]
             y == Scored(defs, x, ev)
  <2>1. /\ x \in X /\ x.kills[id] = upTo(K, m - 1) /\ x.team[id] = upTo(T, m - 1)
        /\ x.score[id] = x.kills[id] - 2 * x.team[id]
    BY <1>8
  <2>2. m \in Nat \ {0}
    BY <1>1
  <2>3. /\ upTo(K, m - 1) \in Nat
        /\ upTo(K, m) = IF m \in K THEN upTo(K, m - 1) + 1 ELSE upTo(K, m - 1)
    <3> HIDE DEF K
    <3> QED
      BY <2>2, CountedOn
  <2>4. /\ upTo(T, m - 1) \in Nat
        /\ upTo(T, m) = IF m \in T THEN upTo(T, m - 1) + 1 ELSE upTo(T, m - 1)
    <3> HIDE DEF T
    <3> QED
      BY <2>2, CountedOn
  <2>5. (m \in K <=> AddsKill(defs, ev, id)) /\ (m \in T <=> AddsTeam(defs, ev, id))
    BY <1>1 DEF KillsBy, TeamBy, AddsKill, AddsTeam
  <2>6. f[m] = y
    BY <1>6
  <2> HIDE DEF upTo, K, T, x, ev, X
  <2>7. y \in X /\ Added(defs, x, y, ev, id)
    BY <2>1, ScoredStep DEF X
  <2>8. m \in 0 .. n
    BY <1>1
  <2> HIDE DEF y
  <2>9. y.kills[id] = upTo(K, m) /\ y.team[id] = upTo(T, m) /\ y.score[id] = y.kills[id] - 2 * y.team[id]
    BY <2>1, <2>3, <2>4, <2>5, <2>7 DEF Added
  <2> QED
    BY <2>6, <2>7, <2>8, <2>9
<1> HIDE DEF Q
<1>9. \A m \in 0 .. n : m \in Q
  BY <1>1, <1>7, <1>8, Turns
<1>10. n \in Q
  <2>1. n \in 0 .. n
    BY <1>1
  <2> QED
    BY <1>9, <2>1
<1>11. upTo(K, n) = HowMany(so, KillsBy(defs, S, id)) /\ upTo(T, n) = HowMany(so, TeamBy(defs, S, id))
  <2>1. {i \in 1 .. n : i \in K} = K /\ {i \in 1 .. n : i \in T} = T
    OBVIOUS
  <2> QED
    BY <2>1 DEF HowMany
<1> HIDE DEF upTo
<1> QED
  BY <1>4, <1>10, <1>11 DEF Q

\* The units of a side, and the kills of units by others.
UnitsIn(defs, side) == {id \in Ids(defs) : IsUnit(defs, id) /\ getEntity(defs, id).side = side}
UnitKills(defs, so) ==
    {i \in 1 .. Len(so) : /\ so[i].type = "killed" /\ so[i].victim # so[i].causer
                          /\ IsUnit(defs, so[i].victim) /\ IsUnit(defs, so[i].causer)}

\* c are the kills of everybody, sums those of the units of each side.
Summed(defs, so, S, sides, c, sums) ==
    /\ \A i \in 1 .. Len(so) : so[i] \in S
    /\ \A id \in Ids(defs) : getEntity(defs, id).side \in sides
    /\ \A id \in Ids(defs) : c[id] = HowMany(so, KillsBy(defs, S, id))
    /\ \A s \in sides : sums[s] = Total(UnitsIn(defs, s), [id \in UnitsIn(defs, s) |-> c[id]])

\* The kills of the units of all sides are all those.
LEMMA KillsOfSides ==
    ASSUME NEW defs, NEW so, Len(so) \in Nat, NEW S, NEW sides, NEW c, NEW sums,
           Summed(defs, so, S, sides, c, sums)
    PROVE  Total(sides, sums) = Cardinality(UnitKills(defs, so))
<1> DEFINE D == UnitKills(defs, so)
           sideOf == [i \in D |-> getEntity(defs, so[i].causer).side]
<1>0. /\ \A i \in 1 .. Len(so) : so[i] \in S
      /\ \A id \in Ids(defs) : getEntity(defs, id).side \in sides
      /\ \A id \in Ids(defs) : c[id] = HowMany(so, KillsBy(defs, S, id))
      /\ \A s \in sides :
            sums[s] = Total(UnitsIn(defs, s), [id \in UnitsIn(defs, s) |-> c[id]])
  BY DEF Summed
<1>1. IsFiniteSet(D)
  <2>1. IsFiniteSet(1 .. Len(so))
    BY FS_Interval
  <2> QED
    BY <2>1, FS_Subset DEF UnitKills
<1>2. \A i \in D : i \in 1 .. Len(so) /\ IsUnit(defs, so[i].causer) /\ so[i].causer \in Ids(defs)
  BY DEF UnitKills, IsUnit
<1>3. ASSUME NEW s \in sides PROVE sums[s] = Cardinality({i \in D : sideOf[i] = s})
  <2> DEFINE I == UnitsIn(defs, s)
             E == {i \in D : sideOf[i] = s}
             key == [i \in E |-> so[i].causer]
             k == [id \in I |-> c[id]]
  <2>1. IsFiniteSet(E)
    BY <1>1, FS_Subset
  <2>2. \A i \in E : key[i] \in I
    <3> HIDE DEF D
    <3> QED
      BY <1>2 DEF UnitsIn
  <2>3. ASSUME NEW id \in I PROVE k[id] = Cardinality({i \in E : key[i] = id})
    <3>1. id \in Ids(defs) /\ IsUnit(defs, id) /\ getEntity(defs, id).side = s
      BY DEF UnitsIn
    <3>2. {i \in E : key[i] = id} = {i \in 1 .. Len(so) : so[i] \in KillsBy(defs, S, id)}
      BY <1>0, <3>1 DEF UnitKills, KillsBy
    <3> QED
      BY <1>0, <3>1, <3>2 DEF HowMany
  <2> HIDE DEF E, key, k, I
  <2>4. Fibres(E, I, key, k)
    BY <2>2, <2>3 DEF Fibres
  <2>5. Total(I, k) = Cardinality(E)
    BY <2>1, <2>4, SumOfFibres
  <2> QED
    BY <1>0, <2>5 DEF E, I, k
<1>4. \A i \in D : sideOf[i] \in sides
  BY <1>0, <1>2
<1> HIDE DEF D, sideOf
<1>5. Fibres(D, sides, sideOf, sums)
  BY <1>3, <1>4 DEF Fibres
<1>6. Total(sides, sums) = Cardinality(D)
  BY <1>1, <1>5, SumOfFibres
<1> QED
  BY <1>6 DEF D

\* Who is killed is counted among the dead.
LEMMA DeathCounted ==
    ASSUME NEW defs, NEW so, Len(so) \in Nat, NEW S, \A i \in 1 .. Len(so) : so[i] \in S,
           NEW i \in 1 .. Len(so), so[i].type = "killed", IsUnit(defs, so[i].victim)
    PROVE  /\ HowMany(so, DeathsOf(defs, S, so[i].victim)) \in Nat
           /\ HowMany(so, DeathsOf(defs, S, so[i].victim)) > 0
<1> DEFINE P == {j \in 1 .. Len(so) : so[j] \in DeathsOf(defs, S, so[i].victim)}
<1>1. IsFiniteSet(P)
  <2>1. Len(so) \in Int /\ 1 \in Int
    OBVIOUS
  <2>2. IsFiniteSet(1 .. Len(so))
    BY <2>1, FS_Interval
  <2> QED
    BY <2>2, FS_Subset
<1>2. i \in P
  BY DEF DeathsOf
<1> HIDE DEF P
<1>3. Cardinality(P) \in Nat /\ Cardinality(P) > 0
  BY <1>1, <1>2, CountedOnce
<1> QED
  BY <1>3 DEF P, HowMany

\* Whoever kills one of the own side has killed.
LEMMA TeamIsKills ==
    ASSUME NEW defs, NEW so, Len(so) \in Nat, NEW S, NEW id
    PROVE  /\ HowMany(so, TeamBy(defs, S, id)) \in Nat /\ HowMany(so, KillsBy(defs, S, id)) \in Nat
           /\ HowMany(so, TeamBy(defs, S, id)) <= HowMany(so, KillsBy(defs, S, id))
<1>1. TeamBy(defs, S, id) \subseteq KillsBy(defs, S, id)
  BY DEF TeamBy, KillsBy, isFriendlyFire
<1> QED
  BY <1>1, HowManyLess

-----------------------------------------------------------------------------
(* The timeline.                                                            *)

LEMMA Cancelled ==
    ASSUME NEW a \in Int, NEW b \in Int, NEW c \in Nat \ {0}, a * c < b * c
    PROVE  a < b
<1>1. SUFFICES ASSUME b <= a PROVE FALSE
  OBVIOUS
<1>2. PICK d \in Nat : a = b + d
  <2>1. a - b \in Nat /\ a = b + (a - b)
    BY <1>1
  <2> QED
    BY <2>1
<1>3. a * c = b * c + d * c /\ d * c >= 0
  BY <1>2
<1> QED
  BY <1>3

LEMMA Multiplied ==
    ASSUME NEW a \in Int, NEW b \in Int, NEW c \in Nat \ {0}
    PROVE  (a <= b => a * c <= b * c) /\ (a < b => a * c < b * c)
<1> DEFINE u == a * c
           v == b * c
<1>1. u \in Int /\ v \in Int
  OBVIOUS
<1>2. v < u => b < a
  BY Cancelled
<1>3. ASSUME a < b PROVE u # v
  <2>1. SUFFICES ASSUME u = v PROVE FALSE
    OBVIOUS
  <2>2. a * c = b * c
    BY <2>1
  <2>3. (b - 1) * c = b * c - c /\ a * c \in Int
    OBVIOUS
  <2>4. (b - 1) * c < a * c
    BY <2>2, <2>3
  <2>5. b - 1 \in Int
    OBVIOUS
  <2>6. b - 1 < a
    BY <2>4, <2>5, Cancelled
  <2> QED
    BY <1>3, <2>1, <2>6
<1> HIDE DEF u, v
<1>4. (a <= b => u <= v) /\ (a < b => u < v)
  BY <1>1, <1>2, <1>3
<1> QED
  BY <1>4 DEF u, v

LEMMA Quotient ==
    ASSUME NEW x \in Int, NEW d \in Nat \ {0}, NEW i \in Int
    PROVE  /\ x \div d \in Int
           /\ x \div d = i <=> i * d <= x /\ x < (i + 1) * d
<1> DEFINE q == x \div d
<1>1. q \in Int /\ q * d <= x /\ x < (q + 1) * d
  OBVIOUS
<1> HIDE DEF q
<1>2. ASSUME i * d <= x, x < (i + 1) * d PROVE q = i
  <2>1. i * d < (q + 1) * d /\ q * d < (i + 1) * d
    <3>1. i * d \in Int /\ q * d \in Int /\ (i + 1) * d \in Int /\ (q + 1) * d \in Int
      BY <1>1
    <3> QED
      BY <1>1, <1>2, <3>1
  <2>2. i < q + 1 /\ q < i + 1
    BY <1>1, <2>1, Cancelled
  <2> QED
    BY <1>1, <2>2
<1> QED
  BY <1>1, <1>2 DEF q

LEMMA Lesser ==
    ASSUME NEW a \in Int, NEW b \in Int
    PROVE  Min({a, b}) = IF a <= b THEN a ELSE b
<1> DEFINE m == IF a <= b THEN a ELSE b
<1>1. m \in {a, b} /\ \A y \in {a, b} : m <= y
  OBVIOUS
<1>2. \A y \in {a, b} : (\A z \in {a, b} : y <= z) => y = m
  OBVIOUS
<1> HIDE DEF m
<1>3. Min({a, b}) = m
  BY <1>1, <1>2 DEF Min
<1> QED
  BY <1>3 DEF m

\* The bar of a frame of the range, and which events are between its edges.
LEMMA BarOf ==
    ASSUME NEW start \in Nat, NEW end \in Nat, start < end, NEW frame \in Int
    PROVE  LET span == end - start
               bar == BucketOf(frame, start, span)
               x == (frame - start) * BucketCount
           IN  /\ frame \in start .. end => bar \in Buckets
               /\ \A i \in Buckets :
                    (x >= i * span /\ x < (i + 1) * span) <=>
                        (frame \in start .. end - 1 /\ bar = i)
<1> DEFINE span == end - start
           b == BucketCount
           x == (frame - start) * b
           q == x \div span
           bar == BucketOf(frame, start, span)
<1>1. b \in Nat \ {0} /\ span \in Nat \ {0} /\ x \in Int
  BY TimelineAssumption
<1>2. q \in Int /\ \A i \in Int : q = i <=> i * span <= x /\ x < (i + 1) * span
  <2> HIDE DEF x, span
  <2> QED
    BY <1>1, Quotient
<1>3. bar = IF q <= b - 1 THEN q ELSE b - 1
  <2>1. bar = Min({q, b - 1})
    BY DEF BucketOf
  <2> HIDE DEF q, bar, b
  <2> QED
    BY <1>1, <1>2, <2>1, Lesser
<1>4. ASSUME frame >= start PROVE q >= 0
  <2>1. x >= 0
    BY <1>1, <1>4
  <2>2. 0 < (q + 1) * span /\ 0 * span = 0
    <3> HIDE DEF x, span
    <3>1. x < (q + 1) * span /\ (q + 1) * span \in Int
      BY <1>1, <1>2
    <3> QED
      BY <1>1, <2>1, <3>1
  <2>3. 0 < q + 1
    <3>1. 0 * span < (q + 1) * span
      BY <2>2
    <3>2. q + 1 \in Int
      BY <1>2
    <3> HIDE DEF q, span
    <3> QED
      BY <1>1, <3>1, <3>2, Cancelled
  <2> QED
    BY <1>2, <2>3
<1>5. ASSUME frame < end PROVE q <= b - 1
  <2>1. x < b * span
    <3>1. frame - start < span /\ frame - start \in Int
      BY <1>5
    <3> DEFINE y == frame - start
    <3>2. y * b < span * b
      <4>1. y \in Int /\ span \in Int /\ y < span
        BY <1>1, <3>1
      <4> HIDE DEF y, span, b
      <4> QED
        BY <1>1, <4>1, Multiplied
    <3>3. span * b = b * span
      BY <1>1
    <3> QED
      BY <3>2, <3>3
  <2>2. q * span < b * span
    <3> HIDE DEF x, span
    <3>1. q * span <= x /\ q * span \in Int /\ b * span \in Int
      BY <1>1, <1>2
    <3> QED
      BY <1>1, <2>1, <3>1
  <2>3. q < b
    <3> HIDE DEF q, span, b
    <3> QED
      BY <1>1, <1>2, <2>2, Cancelled
  <2> QED
    BY <1>1, <1>2, <2>3
<1>6. ASSUME frame \in start .. end PROVE bar \in Buckets
  <2>1. q >= 0
    BY <1>4, <1>6
  <2> HIDE DEF q, bar, b
  <2> QED
    BY <1>1, <1>2, <1>3, <2>1 DEF Buckets, b
<1>7. ASSUME NEW i \in Buckets, x >= i * span, x < (i + 1) * span
      PROVE  frame \in start .. end - 1 /\ bar = i
  <2>1. i \in 0 .. b - 1
    BY DEF Buckets
  <2>2. q = i
    BY <1>2, <1>7, <2>1
  <2>3. bar = i
    BY <1>1, <1>3, <2>1, <2>2
  <2>4. frame >= start
    <3>1. x >= 0
      <4>1. i * span >= 0
        BY <1>1, <2>1
      <4> QED
        BY <1>1, <1>7, <2>1, <4>1
    <3>2. SUFFICES ASSUME frame - start < 0 PROVE FALSE
      OBVIOUS
    <3>3. -1 * b < (frame - start + 1) * b
      <4>1. (frame - start + 1) * b = x + b
        BY <1>1
      <4> QED
        BY <1>1, <3>1, <4>1
    <3>4. -1 < frame - start + 1
      <4> HIDE DEF b
      <4> QED
        BY <1>1, <3>3, Cancelled
    <3>5. x = -1 * b
      <4> DEFINE y == frame - start
      <4>1. y = -1
        BY <3>2, <3>4
      <4>2. x = y * b
        OBVIOUS
      <4> HIDE DEF y, x, b
      <4> QED
        BY <1>1, <4>1, <4>2
    <3> QED
      BY <1>1, <3>1, <3>5
  <2>5. frame < end
    <3>1. (i + 1) * span <= b * span
      <4>1. i + 1 \in Int /\ b \in Int /\ i + 1 <= b
        BY <1>1, <2>1
      <4> HIDE DEF b, span
      <4> QED
        BY <1>1, <4>1, Multiplied
    <3>2. (frame - start) * b < span * b
      <4>1. b * span = span * b /\ span * b \in Int /\ (i + 1) * span \in Int
        BY <1>1, <2>1
      <4> HIDE DEF span, b
      <4> QED
        BY <1>1, <1>7, <3>1, <4>1
    <3>3. frame - start < span
      <4>1. frame - start \in Int
        OBVIOUS
      <4> HIDE DEF span, b
      <4> QED
        BY <1>1, <3>2, <4>1, Cancelled
    <3> QED
      BY <3>3
  <2> QED
    BY <2>3, <2>4, <2>5
<1>8. ASSUME NEW i \in Buckets, frame \in start .. end - 1, bar = i
      PROVE  x >= i * span /\ x < (i + 1) * span
  <2>1. q = i
    BY <1>1, <1>2, <1>3, <1>5, <1>8
  <2> HIDE DEF q, x, span
  <2> QED
    BY <1>1, <1>2, <2>1
<1> HIDE DEF x, span, bar
<1> QED
  BY <1>6, <1>7, <1>8 DEF x, span, bar, b

LEMMA Ranged ==
    ASSUME NEW ids, NEW events, Happened(ids, events)
    PROVE  /\ Len(events) \in Nat /\ DOMAIN events = 1 .. Len(events)
           /\ \A n \in 1 .. Len(events) : events[n] \in ToSet(events) /\ events[n].frame \in Nat
<1> DEFINE S == ToSet(events)
<1>1. events \in Seq(S) /\ \A e \in S : e.frame \in Nat
  BY DEF Happened
<1> HIDE DEF S
<1>2. Len(events) \in Nat /\ DOMAIN events = 1 .. Len(events) /\ \A n \in 1 .. Len(events) : events[n] \in S
  BY <1>1
<1> QED
  BY <1>1, <1>2 DEF S

\* Every event of the range is in one bar of the heatmap.
InOneBar(events, start, end) ==
    LET all == {n \in DOMAIN events : events[n].frame \in start .. end}
        bars == heatmapData(events, start, end)
        kinds == Buckets \X (HitTypes \cup {"other"})
    IN  Total(kinds, [b \in kinds |-> bars[b[1]][b[2]]]) = Cardinality(all)

LEMMA HeatTotal ==
    ASSUME NEW ids, NEW events, Happened(ids, events),
           NEW start \in Nat, NEW end \in Nat, start < end
    PROVE  InOneBar(events, start, end)
<1> DEFINE all == {n \in DOMAIN events : events[n].frame \in start .. end}
           bars == heatmapData(events, start, end)
           Ks == HitTypes \cup {"other"}
           kinds == Buckets \X Ks
           span == end - start
           bar(n) == BucketOf(events[n].frame, start, span)
           key == [n \in all |-> <<bar(n), Kind(events[n])>>]
           c == [b \in kinds |-> bars[b[1]][b[2]]]
<1>1. /\ Len(events) \in Nat /\ DOMAIN events = 1 .. Len(events)
      /\ \A n \in 1 .. Len(events) : events[n].frame \in Nat
  BY Ranged
<1>2. IsFiniteSet(all)
  <2>1. IsFiniteSet(1 .. Len(events))
    BY <1>1, FS_Interval
  <2> QED
    BY <1>1, <2>1, FS_Subset
<1>3. \A n \in all : key[n] \in kinds
  <2> SUFFICES ASSUME NEW n \in all PROVE bar(n) \in Buckets /\ Kind(events[n]) \in Ks
    OBVIOUS
  <2>1. events[n].frame \in Int /\ events[n].frame \in start .. end
    BY <1>1
  <2>2. bar(n) \in Buckets
    BY <2>1, BarOf
  <2> QED
    BY <2>2 DEF Kind
<1>4. ASSUME NEW i \in Buckets, NEW k \in Ks
      PROVE  c[<<i, k>>] = Cardinality({n \in all : key[n] = <<i, k>>})
  <2>1. start # end
    OBVIOUS
  <2>2. bars[i][k] = Cardinality({n \in DOMAIN events :
                /\ events[n].frame \in start .. end
                /\ bar(n) = i /\ Kind(events[n]) = k})
    BY <2>1 DEF heatmapData
  <2>3. {n \in DOMAIN events : /\ events[n].frame \in start .. end
                               /\ bar(n) = i /\ Kind(events[n]) = k} =
        {n \in all : key[n] = <<i, k>>}
    <3> HIDE DEF span
    <3> QED
      OBVIOUS
  <2>4. <<i, k>> \in kinds
    OBVIOUS
  <2>5. c[<<i, k>>] = bars[i][k]
    <3> HIDE DEF bars
    <3> QED
      BY <2>4
  <2> HIDE DEF c, key, bars, all
  <2> QED
    BY <2>2, <2>3, <2>5
<1> HIDE DEF c, key, bars, all
<1>5. \A b \in kinds : c[b] = Cardinality({n \in all : key[n] = b})
  <2> HIDE DEF Ks
  <2> SUFFICES ASSUME NEW i \in Buckets, NEW k \in Ks
               PROVE  c[<<i, k>>] = Cardinality({n \in all : key[n] = <<i, k>>})
    OBVIOUS
  <2> QED
    BY <1>4
<1> HIDE DEF kinds
<1>6. Fibres(all, kinds, key, c)
  BY <1>3, <1>5 DEF Fibres
<1>7. Total(kinds, c) = Cardinality(all)
  BY <1>2, <1>6, SumOfFibres
<1> QED
  BY <1>7 DEF InOneBar, kinds, c, all, bars

\* No victim is in the list twice, hit or killed.
NoTwice(s) ==
    \A k \in 1 .. Len(s) : \A l \in 1 .. k - 1 :
        (Kind(s[k]) # "other" /\ Kind(s[l]) = Kind(s[k])) => s[k].victim # s[l].victim

\* Nothing of T is in r but what is in s.
LEMMA PartOf ==
    ASSUME NEW S, NEW s \in Seq(S), NEW T
    PROVE  LET r == Those(s, T)
           IN  /\ r \in Seq(S) /\ r \in Seq(T) /\ Len(r) \in Nat
               /\ \A i \in 1 .. Len(s) : s[i] \in T => Len(r) > 0
               /\ NoTwice(s) => NoTwice(r)
<1> DEFINE r == Those(s, T)
<1>1. PICK h : Selected(s, T, r, h)
  BY ThoseAre
<1> HIDE DEF r
<1>2. /\ Len(s) \in Nat /\ Len(r) \in Nat /\ r \in Seq(T) /\ h \in [1 .. Len(r) -> 1 .. Len(s)]
      /\ \A k, l \in 1 .. Len(r) : k < l => h[k] < h[l]
      /\ \A k \in 1 .. Len(r) : r[k] = s[h[k]]
      /\ \A i \in 1 .. Len(s) : s[i] \in T => \E k \in 1 .. Len(r) : h[k] = i
  BY <1>1 DEF Selected
<1>3. r \in Seq(S)
  <2>1. r = [k \in 1 .. Len(r) |-> r[k]]
    BY <1>2
  <2>2. \A k \in 1 .. Len(r) : r[k] \in S
    BY <1>2
  <2> QED
    BY <1>2, <2>1, <2>2
<1>4. \A i \in 1 .. Len(s) : s[i] \in T => Len(r) > 0
  BY <1>2
<1>5. ASSUME NoTwice(s) PROVE NoTwice(r)
  <2> SUFFICES ASSUME NEW k \in 1 .. Len(r), NEW l \in 1 .. k - 1,
                      Kind(r[k]) # "other", Kind(r[l]) = Kind(r[k])
               PROVE  r[k].victim # r[l].victim
    BY DEF NoTwice
  <2>1. l \in 1 .. Len(r) /\ l < k
    BY <1>2
  <2>2. h[k] \in 1 .. Len(s) /\ h[l] \in 1 .. Len(s) /\ h[l] < h[k]
    BY <1>2, <2>1
  <2>3. h[l] \in 1 .. h[k] - 1
    BY <1>2, <2>2
  <2>4. r[k] = s[h[k]] /\ r[l] = s[h[l]]
    BY <1>2, <2>1
  <2> QED
    BY <1>5, <2>2, <2>3, <2>4 DEF NoTwice
<1> QED
  BY <1>2, <1>3, <1>4, <1>5 DEF r

\* One event of each victim and kind: the first.
LEMMA FirstsKept ==
    ASSUME NEW S, NEW s \in Seq(S)
    PROVE  LET r == Deduplicated(s)
           IN  /\ r \in Seq(S) /\ Len(r) \in Nat /\ NoTwice(r)
               /\ Len(s) > 0 => Len(r) > 0
<1> DEFINE n == Len(s)
           r == Deduplicated(s)
           same(i, m) == /\ Kind(s[i]) # "other"
                         /\ s[m].type = s[i].type /\ s[m].victim = s[i].victim
           all == [i \in DOMAIN s |-> i]
           U == {i \in DOMAIN s : ~\E m \in 1 .. i - 1 : same(i, m)}
           kept == Those(all, U)
<1>1. n \in Nat /\ DOMAIN s = 1 .. n /\ \A i \in 1 .. n : s[i] \in S
  OBVIOUS
<1>2. all = [i \in 1 .. n |-> i] /\ all \in Seq(Nat) /\ Len(all) = n
  <2>1. all = [i \in 1 .. n |-> i]
    BY <1>1
  <2> HIDE DEF all, n
  <2>2. all = [i \in 1 .. n |-> all[i]] /\ \A i \in 1 .. n : all[i] \in Nat
    BY <2>1
  <2>3. Len(all) = n /\ DOMAIN all = 1 .. n
    BY <1>1, <2>2, SequenceOf
  <2> QED
    BY <1>1, <2>1, <2>2, <2>3
<1>3. r = [k \in DOMAIN kept |-> s[kept[k]]]
  BY DEF Deduplicated
<1> HIDE DEF all, U, kept, r
<1>4. PICK h : Selected(all, U, kept, h)
  BY <1>2, ThoseAre DEF kept
<1>5. /\ Len(kept) \in Nat /\ kept \in Seq(U) /\ h \in [1 .. Len(kept) -> 1 .. n]
      /\ \A k, l \in 1 .. Len(kept) : k < l => h[k] < h[l]
      /\ \A k \in 1 .. Len(kept) : kept[k] = all[h[k]]
      /\ \A i \in 1 .. n : all[i] \in U => \E k \in 1 .. Len(kept) : h[k] = i
  BY <1>2, <1>4 DEF Selected
<1>6. /\ DOMAIN kept = 1 .. Len(kept)
      /\ \A k \in 1 .. Len(kept) : kept[k] = h[k] /\ kept[k] \in U /\ kept[k] \in 1 .. n
  <2>1. DOMAIN kept = 1 .. Len(kept) /\ \A k \in 1 .. Len(kept) : kept[k] \in U
    BY <1>5
  <2>2. \A i \in 1 .. n : all[i] = i
    BY <1>2
  <2> HIDE DEF n
  <2>3. \A k \in 1 .. Len(kept) : kept[k] = h[k] /\ kept[k] \in 1 .. n
    BY <1>5, <2>2
  <2> QED
    BY <2>1, <2>3
<1>7. Len(r) = Len(kept) /\ r \in Seq(S) /\ \A k \in 1 .. Len(r) : r[k] = s[h[k]]
  <2>1. r = [k \in 1 .. Len(kept) |-> s[kept[k]]]
    BY <1>3, <1>6
  <2>2. r = [k \in 1 .. Len(kept) |-> r[k]] /\ \A k \in 1 .. Len(kept) : r[k] = s[h[k]] /\ r[k] \in S
    BY <1>1, <1>6, <2>1
  <2>3. Len(r) = Len(kept)
    BY <1>5, <2>2, SequenceOf
  <2> QED
    BY <1>5, <2>2, <2>3
<1>8. NoTwice(r)
  <2> SUFFICES ASSUME NEW k \in 1 .. Len(r), NEW l \in 1 .. k - 1,
                      Kind(r[k]) # "other", Kind(r[l]) = Kind(r[k])
               PROVE  r[k].victim # r[l].victim
    BY DEF NoTwice
  <2>1. l \in 1 .. Len(kept) /\ k \in 1 .. Len(kept) /\ l < k
    BY <1>5, <1>7
  <2>2. h[k] \in U /\ h[k] \in 1 .. n /\ h[l] \in 1 .. n /\ h[l] < h[k]
    BY <1>5, <1>6, <2>1
  <2>3. h[l] \in 1 .. h[k] - 1
    BY <2>2
  <2>4. ~same(h[k], h[l])
    BY <2>2, <2>3 DEF U
  <2>5. r[k] = s[h[k]] /\ r[l] = s[h[l]]
    BY <1>7, <2>1
  <2>6. r[l].type = r[k].type
    BY DEF Kind
  <2> QED
    BY <2>4, <2>5, <2>6
<1>9. ASSUME n > 0 PROVE Len(r) > 0
  <2>1. 1 \in 1 .. n /\ 1 .. 1 - 1 = {}
    BY <1>1, <1>9
  <2>2. 1 \in U
    BY <1>1, <2>1 DEF U
  <2>3. all[1] \in U
    BY <1>2, <2>1, <2>2
  <2> HIDE DEF n
  <2>4. \E k \in 1 .. Len(kept) : h[k] = 1
    BY <1>5, <2>1, <2>3
  <2> QED
    BY <1>5, <1>7, <2>4
<1> QED
  BY <1>5, <1>7, <1>8, <1>9 DEF r

\* In another order they are the same ones.
LEMMA ByKind ==
    ASSUME NEW S, NEW s \in Seq(S), NoTwice(s)
    PROVE  LET r == ByPriority(s)
           IN  /\ r \in Seq(S) /\ Len(r) \in Nat /\ NoTwice(r)
               /\ Len(s) > 0 => Len(r) > 0
<1> DEFINE T(kind) == {ev \in ToSet(s) : Kind(ev) = kind}
           a == Those(s, T("other"))
           b == Those(s, T("killed"))
           c == Those(s, T("hit"))
           r == (a \o b) \o c
<1>1. /\ a \in Seq(S) /\ a \in Seq(T("other")) /\ Len(a) \in Nat /\ NoTwice(a)
      /\ \A i \in 1 .. Len(s) : s[i] \in T("other") => Len(a) > 0
  <2> HIDE DEF T
  <2> QED
    BY PartOf
<1>2. /\ b \in Seq(S) /\ b \in Seq(T("killed")) /\ Len(b) \in Nat /\ NoTwice(b)
      /\ \A i \in 1 .. Len(s) : s[i] \in T("killed") => Len(b) > 0
  <2> HIDE DEF T
  <2> QED
    BY PartOf
<1>3. /\ c \in Seq(S) /\ c \in Seq(T("hit")) /\ Len(c) \in Nat /\ NoTwice(c)
      /\ \A i \in 1 .. Len(s) : s[i] \in T("hit") => Len(c) > 0
  <2> HIDE DEF T
  <2> QED
    BY PartOf
<1>4. ByPriority(s) = r
  BY DEF ByPriority
<1>5. \A kind : \A ev \in T(kind) : Kind(ev) = kind
  OBVIOUS
<1>6. ASSUME Len(s) > 0 PROVE Len(a) > 0 \/ Len(b) > 0 \/ Len(c) > 0
  <2>1. Len(s) \in Nat /\ 1 \in 1 .. Len(s) /\ s[1] \in ToSet(s)
    BY <1>6 DEF ToSet
  <2>2. s[1] \in T("other") \/ s[1] \in T("killed") \/ s[1] \in T("hit")
    BY <2>1 DEF Kind, HitTypes
  <2> HIDE DEF T, a, b, c
  <2> QED
    BY <1>1, <1>2, <1>3, <2>1, <2>2
<1> HIDE DEF T, a, b, c
<1>7. /\ Len(r) = Len(a) + Len(b) + Len(c) /\ r \in Seq(S)
      /\ \A k \in 1 .. Len(r) :
            r[k] = IF k <= Len(a) THEN a[k]
                   ELSE IF k <= Len(a) + Len(b) THEN b[k - Len(a)]
                   ELSE c[k - Len(a) - Len(b)]
  <2> DEFINE d == a \o b
  <2>1. /\ d \in Seq(S) /\ Len(d) = Len(a) + Len(b)
        /\ \A k \in 1 .. Len(d) : d[k] = IF k <= Len(a) THEN a[k] ELSE b[k - Len(a)]
    BY <1>1, <1>2
  <2> HIDE DEF d
  <2>2. /\ Len(d \o c) = Len(d) + Len(c) /\ d \o c \in Seq(S)
        /\ \A k \in 1 .. Len(d) + Len(c) : (d \o c)[k] = IF k <= Len(d) THEN d[k] ELSE c[k - Len(d)]
    <3>1. c \in Seq(S) /\ d \in Seq(S)
      BY <1>3, <2>1
    <3> QED
      BY <3>1
  <2>3. r = d \o c
    BY DEF d
  <2> HIDE DEF r
  <2>4. \A k \in 1 .. Len(r) : k <= Len(d) => k \in 1 .. Len(d)
    BY <1>1, <1>2, <1>3, <2>1, <2>2, <2>3
  <2> QED
    BY <1>1, <1>2, <1>3, <2>1, <2>2, <2>3, <2>4
<1> HIDE DEF r
<1>8. /\ \A k \in 1 .. Len(a) : Kind(a[k]) = "other"
      /\ \A k \in 1 .. Len(b) : Kind(b[k]) = "killed"
      /\ \A k \in 1 .. Len(c) : Kind(c[k]) = "hit"
  BY <1>1, <1>2, <1>3, <1>5
<1>9. NoTwice(r)
  <2> SUFFICES ASSUME NEW k \in 1 .. Len(r), NEW l \in 1 .. k - 1,
                      Kind(r[k]) # "other", Kind(r[l]) = Kind(r[k])
               PROVE  r[k].victim # r[l].victim
    BY DEF NoTwice
  <2>1. l \in 1 .. Len(r) /\ l < k /\ k \in Int /\ l \in Int
    BY <1>1, <1>2, <1>3, <1>7
  <2>2. CASE k <= Len(a)
    <3>1. k \in 1 .. Len(a) /\ r[k] = a[k]
      BY <1>7, <2>2
    <3> QED
      BY <1>8, <3>1
  <2>3. CASE k > Len(a) /\ k <= Len(a) + Len(b)
    <3>1. k - Len(a) \in 1 .. Len(b) /\ r[k] = b[k - Len(a)] /\ Kind(r[k]) = "killed"
      <4>1. k - Len(a) \in 1 .. Len(b)
        BY <1>1, <1>2, <2>1, <2>3
      <4>2. r[k] = b[k - Len(a)]
        BY <1>1, <1>7, <2>1, <2>3
      <4> QED
        BY <1>8, <4>1, <4>2
    <3>2. l > Len(a)
      <4>1. SUFFICES ASSUME l <= Len(a) PROVE FALSE
        BY <1>1, <2>1
      <4>2. r[l] = a[l] /\ l \in 1 .. Len(a)
        BY <1>1, <1>7, <2>1, <4>1
      <4> QED
        BY <1>8, <3>1, <4>2
    <3>3. l - Len(a) \in 1 .. (k - Len(a)) - 1 /\ r[l] = b[l - Len(a)]
      <4>1. l <= Len(a) + Len(b)
        BY <1>1, <1>2, <2>1, <2>3
      <4>2. r[l] = b[l - Len(a)]
        BY <1>1, <1>7, <2>1, <3>2, <4>1
      <4> QED
        BY <1>1, <2>1, <3>2, <4>2
    <3> QED
      BY <1>2, <3>1, <3>3 DEF NoTwice
  <2>4. CASE k > Len(a) + Len(b)
    <3> DEFINE m == Len(a) + Len(b)
    <3>0. m \in Nat /\ Len(r) = m + Len(c)
      BY <1>1, <1>2, <1>7
    <3>1. k - m \in 1 .. Len(c) /\ r[k] = c[k - m] /\ Kind(r[k]) = "hit"
      <4>1. k - m \in 1 .. Len(c)
        BY <1>3, <2>1, <2>4, <3>0
      <4>2. k - m = k - Len(a) - Len(b)
        BY <1>1, <1>2, <2>1
      <4>3. r[k] = c[k - m]
        BY <1>1, <1>2, <1>7, <2>1, <2>4, <4>2
      <4> QED
        BY <1>8, <4>1, <4>3
    <3>2. l > m
      <4>1. SUFFICES ASSUME l <= m PROVE FALSE
        BY <2>1, <3>0
      <4>2. CASE l <= Len(a)
        <5>1. r[l] = a[l] /\ l \in 1 .. Len(a)
          BY <1>1, <1>7, <2>1, <4>2
        <5> QED
          BY <1>8, <3>1, <5>1
      <4>3. CASE l > Len(a)
        <5>1. r[l] = b[l - Len(a)] /\ l - Len(a) \in 1 .. Len(b)
          BY <1>1, <1>2, <1>7, <2>1, <4>1, <4>3
        <5> QED
          BY <1>8, <3>1, <5>1
      <4> QED
        BY <1>1, <2>1, <4>2, <4>3
    <3>3. l - m \in 1 .. (k - m) - 1 /\ r[l] = c[l - m]
      <4>1. l - m = l - Len(a) - Len(b) /\ ~(l <= Len(a)) /\ ~(l <= Len(a) + Len(b))
        BY <1>1, <1>2, <2>1, <3>2
      <4>2. r[l] = c[l - m]
        BY <1>7, <2>1, <4>1
      <4> QED
        BY <2>1, <3>0, <3>2, <4>2
    <3> HIDE DEF m
    <3> QED
      BY <1>3, <3>1, <3>3 DEF NoTwice
  <2> QED
    BY <1>1, <1>2, <2>1, <2>2, <2>3, <2>4
<1>10. Len(s) > 0 => Len(r) > 0
  BY <1>1, <1>2, <1>3, <1>6, <1>7
<1> QED
  BY <1>1, <1>2, <1>3, <1>4, <1>7, <1>9, <1>10

\* The loop of Capped: one more event is told, or it is full.
Tells(s, f) ==
    f = [n \in 0 .. Len(s) |->
            IF n = 0 THEN <<>>
            ELSE LET ev == s[n]
                     full == \/ Len(f[n - 1]) >= MaxTotal
                             \/ Cardinality({k \in DOMAIN f[n - 1] :
                                    f[n - 1][k].type = ev.type}) >= MaxPerType
                 IN  IF full THEN f[n - 1] ELSE Append(f[n - 1], ev)]

LEMMA TellsExists ==
    ASSUME NEW S, NEW s \in Seq(S)
    PROVE  \E f \in [0 .. Len(s) -> Seq(S)] : Tells(s, f)
<1> DEFINE n == Len(s)
           X == Seq(S)
           full(x, k) == \/ Len(x) >= MaxTotal
                         \/ Cardinality({j \in DOMAIN x : x[j].type = s[k].type}) >= MaxPerType
           turn(x, k) == IF full(x, k) THEN x ELSE Append(x, s[k])
           step == [x \in X \X (1 .. n) |-> turn(x[1], x[2])]
<1>1. n \in Nat /\ <<>> \in X /\ \A k \in 1 .. n : s[k] \in S
  OBVIOUS
<1>2. \A x \in X, k \in 1 .. n : turn(x, k) \in X
  <2> HIDE DEF full
  <2> QED
    BY <1>1
<1>3. step \in [X \X (1 .. n) -> X]
  <2> HIDE DEF turn
  <2> QED
    BY <1>2
<1> HIDE DEF step
<1>4. PICK f \in [0 .. n -> X] : Loop(<<>>, step, f, n)
  <2> HIDE DEF X, n
  <2> QED
    BY <1>1, <1>3, LoopExists
<1>5. \A k \in 1 .. n : k - 1 \in 0 .. n /\ f[k - 1] \in X
  <2> HIDE DEF X
  <2> QED
    BY <1>1, <1>4
<1>6. \A k \in 1 .. n : step[<<f[k - 1], k>>] = turn(f[k - 1], k)
  <2> HIDE DEF X, turn, n
  <2> QED
    BY <1>5 DEF step
<1>7. f = [k \in 0 .. n |-> IF k = 0 THEN <<>> ELSE step[<<f[k - 1], k>>]]
  BY <1>4 DEF Loop
<1>8. \A k \in 0 .. n : k # 0 => k \in 1 .. n
  BY <1>1
<1>9. f = [k \in 0 .. n |-> IF k = 0 THEN <<>> ELSE turn(f[k - 1], k)]
  <2> HIDE DEF X, n, turn
  <2> QED
    BY <1>6, <1>7, <1>8
<1>10. Tells(s, f)
  BY <1>9 DEF Tells
<1> QED
  BY <1>4, <1>10

\* Of the first ones so many are told, and at least the very first.
LEMMA SomeTold ==
    ASSUME NEW S, NEW s \in Seq(S), NoTwice(s)
    PROVE  LET r == Capped(s)
           IN  /\ r \in Seq(S) /\ NoTwice(r)
               /\ Len(s) > 0 => r # <<>>
<1> DEFINE n == Len(s)
           told == CHOOSE f : Tells(s, f)
           From(r, m) == /\ r \in Seq(S) /\ NoTwice(r)
                         /\ \A k \in 1 .. Len(r) : \E j \in 1 .. m : r[k] = s[j]
                         /\ m > 0 => r # <<>>
           Q == {m \in 0 .. n : From(told[m], m)}
<1>1. n \in Nat /\ \A k \in 1 .. n : s[k] \in S
  OBVIOUS
<1>2. Tells(s, told)
  BY TellsExists
<1>3. Capped(s) = told[n]
  BY DEF Capped, Tells
<1> HIDE DEF told
<1> DEFINE full(x, k) == \/ Len(x) >= MaxTotal
                         \/ Cardinality({j \in DOMAIN x : x[j].type = s[k].type}) >= MaxPerType
<1>4. told[0] = <<>>
  BY <1>1, <1>2 DEF Tells
<1>5. \A k \in 1 .. n : told[k] = IF full(told[k - 1], k) THEN told[k - 1] ELSE Append(told[k - 1], s[k])
  <2>1. \A k \in 1 .. n : k \in 0 .. n /\ k # 0
    BY <1>1
  <2>2. told = [k \in 0 .. n |-> IF k = 0 THEN <<>>
                                 ELSE IF full(told[k - 1], k) THEN told[k - 1]
                                      ELSE Append(told[k - 1], s[k])]
    BY <1>2 DEF Tells
  <2> HIDE DEF n, full
  <2> QED
    BY <2>1, <2>2
<1>6. 0 \in Q
  <2>1. From(<<>>, 0)
    BY DEF NoTwice
  <2> HIDE DEF From
  <2> QED
    BY <1>1, <1>4, <2>1
<1>7. \A k : ~full(<<>>, k)
  <2> SUFFICES ASSUME NEW k PROVE ~full(<<>>, k)
    OBVIOUS
  <2>1. {j \in DOMAIN <<>> : <<>>[j].type = s[k].type} = {}
    OBVIOUS
  <2>2. Len(<<>>) = 0 /\ Cardinality({j \in DOMAIN <<>> : <<>>[j].type = s[k].type}) = 0
    BY <2>1, FS_EmptySet
  <2>3. MaxTotal \in Nat \ {0} /\ MaxPerType \in Nat \ {0}
    BY TimelineAssumption
  <2> QED
    BY <2>2, <2>3
<1> HIDE DEF full
<1>8. ASSUME NEW m \in 1 .. n, m - 1 \in Q PROVE m \in Q
  <2> DEFINE x == told[m - 1]
             y == Append(x, s[m])
  <2>1. From(x, m - 1) /\ m \in 0 .. n
    BY <1>1, <1>8
  <2>2. \A k \in 1 .. Len(x) : \E j \in 1 .. m : x[k] = s[j]
    BY <1>1, <2>1
  <2> HIDE DEF x
  <2>3. CASE full(x, m)
    <3>1. told[m] = x /\ x # <<>>
      BY <1>5, <1>7, <2>3 DEF x
    <3>2. From(x, m)
      BY <2>1, <2>2, <3>1
    <3> HIDE DEF From
    <3> QED
      BY <2>1, <3>1, <3>2
  <2>4. CASE ~full(x, m)
    <3>1. told[m] = y
      BY <1>5, <2>4 DEF x
    <3>2. /\ Len(x) \in Nat /\ Len(y) = Len(x) + 1 /\ y \in Seq(S) /\ y # <<>>
          /\ \A k \in 1 .. Len(x) : y[k] = x[k]
          /\ y[Len(x) + 1] = s[m]
      <4>1. x \in Seq(S) /\ s[m] \in S
        BY <1>1, <2>1
      <4> DEFINE e == s[m]
      <4> HIDE DEF From, e, n
      <4>2. /\ Len(x) \in Nat /\ Len(Append(x, e)) = Len(x) + 1 /\ Append(x, e) \in Seq(S)
            /\ \A k \in 1 .. Len(x) : Append(x, e)[k] = x[k]
            /\ Append(x, e)[Len(x) + 1] = e
        BY <4>1 DEF e
      <4>3. Append(x, e) # <<>>
        BY <4>2
      <4> QED
        BY <4>2, <4>3 DEF e
    <3> HIDE DEF y
    <3>3. \A k \in 1 .. Len(y) : k \in 1 .. Len(x) \/ k = Len(x) + 1
      BY <3>2
    <3>4. \A k \in 1 .. Len(y) : \E j \in 1 .. m : y[k] = s[j]
      <4>1. m \in 1 .. m
        BY <1>1
      <4> QED
        BY <2>2, <3>2, <3>3, <4>1
    <3>5. NoTwice(y)
      <4> SUFFICES ASSUME NEW k \in 1 .. Len(y), NEW l \in 1 .. k - 1,
                          Kind(y[k]) # "other", Kind(y[l]) = Kind(y[k])
                   PROVE  y[k].victim # y[l].victim
        BY DEF NoTwice
      <4>1. l \in 1 .. Len(x) /\ y[l] = x[l]
        BY <3>2
      <4>2. CASE k \in 1 .. Len(x)
        <5>1. y[k] = x[k] /\ NoTwice(x)
          BY <2>1, <3>2, <4>2
        <5> QED
          BY <4>1, <4>2, <5>1 DEF NoTwice
      <4>3. CASE k = Len(x) + 1
        <5>1. y[k] = s[m]
          BY <3>2, <4>3
        <5>2. PICK j \in 1 .. m - 1 : x[l] = s[j]
          BY <2>1, <4>1
        <5> QED
          BY <4>1, <5>1, <5>2 DEF NoTwice
      <4> QED
        BY <3>3, <4>2, <4>3
    <3>6. From(y, m)
      BY <3>2, <3>4, <3>5
    <3> HIDE DEF From
    <3> QED
      BY <2>1, <3>1, <3>6
  <2> QED
    BY <2>3, <2>4
<1> HIDE DEF Q
<1>9. \A m \in 0 .. n : m \in Q
  BY <1>1, <1>6, <1>8, Turns
<1>10. n \in Q
  <2>1. n \in 0 .. n
    BY <1>1
  <2> QED
    BY <1>9, <2>1
<1>11. From(told[n], n)
  BY <1>10 DEF Q
<1> QED
  BY <1>3, <1>11

\* What is told of a bar where the pointer is.
ToldOfBar(events, told, i, start, end) ==
    LET bar(n) == BucketOf(events[n].frame, start, end - start)
    IN  /\ Len(told) \in Nat /\ DOMAIN told = 1 .. Len(told) /\ NoTwice(told)
        /\ \A k \in DOMAIN told : \E n \in DOMAIN events :
            told[k] = events[n] /\ events[n].frame \in start .. end /\ bar(n) = i
        /\ told = <<>> => \A n \in DOMAIN events :
            (events[n].frame \in start .. end /\ bar(n) = i) => events[n].frame = end

LEMMA HoverTells ==
    ASSUME NEW ids, NEW events, Happened(ids, events),
           NEW start \in Nat, NEW end \in Nat, start < end, NEW f \in start .. end
    PROVE  ToldOfBar(events, hoverEvents(events, f, start, end),
                     BucketOf(f, start, end - start), start, end)
<1> DEFINE span == end - start
           i == BucketOf(f, start, span)
           S == ToSet(events)
           x(ev) == (ev.frame - start) * BucketCount
           T == {ev \in S : x(ev) >= i * span /\ x(ev) < (i + 1) * span}
           near == Nearby(events, i, start, span)
           first == Deduplicated(near)
           order == ByPriority(first)
           told == Capped(order)
<1>1. i \in Buckets
  BY BarOf
<1>2. hoverEvents(events, f, start, end) = told
  <2>1. ~(i < 0) /\ start # end
    BY <1>1, TimelineAssumption DEF Buckets
  <2> QED
    BY <2>1 DEF hoverEvents
<1>3. /\ Len(events) \in Nat /\ DOMAIN events = 1 .. Len(events)
      /\ \A n \in 1 .. Len(events) : events[n] \in S /\ events[n].frame \in Nat
  BY Ranged
<1>4. \A ev \in S : ev.frame \in Nat
  BY DEF Happened
<1>5. ASSUME NEW ev \in S
      PROVE  ev \in T <=> ev.frame \in start .. end - 1 /\ BucketOf(ev.frame, start, span) = i
  <2>1. ev.frame \in Int
    BY <1>4
  <2>2. (x(ev) >= i * span /\ x(ev) < (i + 1) * span) <=>
            (ev.frame \in start .. end - 1 /\ BucketOf(ev.frame, start, span) = i)
    BY <1>1, <2>1, BarOf
  <2> HIDE DEF i, span, x
  <2> QED
    BY <2>2
<1>6. near = Those(events, T)
  BY DEF Nearby
<1>7. T \subseteq S /\ events \in Seq(S)
  BY DEF Happened
<1> HIDE DEF T, S, i, span, near
<1>8. /\ near \in Seq(S) /\ near \in Seq(T) /\ Len(near) \in Nat
      /\ \A n \in 1 .. Len(events) : events[n] \in T => Len(near) > 0
  BY <1>6, <1>7, PartOf
<1>9. first \in Seq(T) /\ NoTwice(first) /\ (Len(near) > 0 => Len(first) > 0)
  BY <1>8, FirstsKept
<1> HIDE DEF first
<1>10. order \in Seq(T) /\ NoTwice(order) /\ (Len(first) > 0 => Len(order) > 0)
  BY <1>9, ByKind
<1> HIDE DEF order
<1>11. told \in Seq(T) /\ NoTwice(told) /\ (Len(order) > 0 => told # <<>>)
  BY <1>10, SomeTold
<1> HIDE DEF told
<1>12. /\ Len(told) \in Nat /\ DOMAIN told = 1 .. Len(told)
       /\ \A k \in DOMAIN told : told[k] \in T
  BY <1>11
<1>13. ASSUME NEW k \in DOMAIN told
       PROVE  \E n \in DOMAIN events : /\ told[k] = events[n] /\ events[n].frame \in start .. end
                                       /\ BucketOf(events[n].frame, start, span) = i
  <2>1. told[k] \in T /\ told[k] \in S
    BY <1>7, <1>12
  <2>2. PICK n \in DOMAIN events : events[n] = told[k]
    BY <2>1 DEF S, ToSet
  <2>3. events[n].frame \in start .. end - 1 /\ BucketOf(events[n].frame, start, span) = i
    BY <1>5, <2>1, <2>2
  <2> QED
    BY <2>2, <2>3
<1>14. ASSUME told = <<>>, NEW n \in DOMAIN events, events[n].frame \in start .. end,
              BucketOf(events[n].frame, start, span) = i
       PROVE  events[n].frame = end
  <2>1. n \in 1 .. Len(events) /\ events[n] \in S /\ events[n] \notin T
    BY <1>3, <1>8, <1>9, <1>10, <1>11, <1>14
  <2>2. events[n].frame \notin start .. end - 1
    BY <1>5, <1>14, <2>1
  <2> QED
    BY <1>14, <2>2
<1> QED
  BY <1>2, <1>11, <1>12, <1>13, <1>14 DEF ToldOfBar, i, span

-----------------------------------------------------------------------------
(* Who is there and of which side.                                          *)

LEMMA FiniteIds ==
    ASSUME NEW defs, NEW n, Listing(defs, n)
    PROVE  IsFiniteSet(Ids(defs))
<1> DEFINE f == [i \in 1 .. n |-> defs[i].id]
<1>1. IsFiniteSet(1 .. n)
  <2>1. n \in Int /\ 1 \in Int
    BY DEF Listing
  <2> QED
    BY <2>1, FS_Interval
<1>2. IsFiniteSet({f[i] : i \in 1 .. n})
  <2>1. DOMAIN f = 1 .. n
    OBVIOUS
  <2> HIDE DEF f
  <2> QED
    BY <1>1, <2>1, FiniteImage
<1>3. Ids(defs) = {f[i] : i \in 1 .. n}
  BY EntityFound
<1> QED
  BY <1>2, <1>3

\* The snapshots of a frame are of entities of the recording.
LEMMA ShownKnown ==
    ASSUME NEW defs, NEW n, Listing(defs, n), NEW chunk, NEW frame
    PROVE  LET snaps == computeSnapshots(defs, chunk, frame)
           IN  /\ DOMAIN snaps \subseteq Ids(defs)
               /\ \A id \in DOMAIN snaps :
                    LET d == getEntity(defs, id)
                    IN  /\ \E i \in 1 .. n : d = defs[i] /\ d.id = id
                        /\ StatesOf(defs, chunk, frame, d) # {}
                        /\ snaps[id] = SnapshotOf(defs, frame, d,
                                            CHOOSE s \in StatesOf(defs, chunk, frame, d) : TRUE)
<1> DEFINE snaps == computeSnapshots(defs, chunk, frame)
<1>1. snaps = [id \in {d.id : d \in ShownOf(defs, chunk, frame)} |->
                     SnapshotOf(defs, frame, getEntity(defs, id),
                                CHOOSE s \in StatesOf(defs, chunk, frame, getEntity(defs, id)) : TRUE)]
  BY SnapshotsAre
<1> HIDE DEF snaps
<1>2. DOMAIN snaps = {d.id : d \in ShownOf(defs, chunk, frame)}
  BY <1>1
<1>3. ASSUME NEW id \in DOMAIN snaps
      PROVE  LET d == getEntity(defs, id)
             IN  /\ \E i \in 1 .. n : d = defs[i] /\ d.id = id
                 /\ StatesOf(defs, chunk, frame, d) # {} /\ id \in Ids(defs)
  <2>1. PICK d \in ShownOf(defs, chunk, frame) : d.id = id
    BY <1>2
  <2>2. d \in ToSet(defs) /\ StatesOf(defs, chunk, frame, d) # {}
    BY DEF ShownOf
  <2>3. PICK i \in 1 .. n : d = defs[i]
    BY <2>2, EntityFound
  <2>4. getEntity(defs, id) = d /\ id \in Ids(defs)
    BY <2>1, <2>3, EntityFound
  <2> QED
    BY <2>1, <2>2, <2>3, <2>4
<1>4. \A id \in DOMAIN snaps : snaps[id] = SnapshotOf(defs, frame, getEntity(defs, id),
            CHOOSE s \in StatesOf(defs, chunk, frame, getEntity(defs, id)) : TRUE)
  BY <1>1
<1> QED
  BY <1>3, <1>4 DEF snaps

\* Without a chunk nobody of a streamed recording is there.
LEMMA NoneShown ==
    ASSUME NEW raw, WellFormed(raw), NEW f
    PROVE  DOMAIN computeSnapshots(decodeManifest(raw).entities, {}, f) = {}
<1> DEFINE n == Len(raw.entities)
           defs == decodeManifest(raw).entities
           snaps == computeSnapshots(defs, {}, f)
<1>1. n \in Nat /\ DOMAIN raw.entities = 1 .. n /\ \A i \in 1 .. n : raw.entities[i] \in RawEntities
  BY RawListing
<1>2. Listing(defs, n)
  BY EntitiesAlike DEF Alike
<1>3. \A i \in 1 .. n : defs[i].positions = <<>>
  BY <1>1 DEF decodeManifest, convertEntityDef
<1> HIDE DEF defs
<1>4. \A i \in 1 .. n : StatesOf(defs, {}, f, defs[i]) = {}
  <2> SUFFICES ASSUME NEW i \in 1 .. n PROVE StatesOf(defs, {}, f, defs[i]) = {}
    OBVIOUS
  <2>1. Streamed({}, defs[i].id, f) = {}
    BY DEF Streamed
  <2>2. OwnState(defs[i], f) = {}
    <3> DEFINE d == defs[i]
    <3>1. d.positions = <<>>
      BY <1>3
    <3> HIDE DEF d
    <3>2. Len(d.positions) = 0 /\ 0 .. Len(d.positions) - 1 = {}
      BY <3>1
    <3> QED
      BY <3>2 DEF OwnState, d
  <2> QED
    BY <2>1, <2>2 DEF StatesOf
<1> HIDE DEF snaps
<1>5. ASSUME NEW id \in DOMAIN snaps PROVE FALSE
  <2> DEFINE d == getEntity(defs, id)
  <2>1. (\E i \in 1 .. n : d = defs[i]) /\ StatesOf(defs, {}, f, d) # {}
    BY <1>2, <1>5, ShownKnown DEF snaps
  <2> HIDE DEF d
  <2> QED
    BY <1>4, <2>1
<1> QED
  BY <1>5 DEF snaps, defs

\* Where nobody changes sides a unit is of the side it is listed under.
OwnSides(defs, snaps) ==
    \A id \in DOMAIN snaps : IsUnit(defs, id) => snaps[id].side = getEntity(defs, id).side

LEMMA SidesKept ==
    ASSUME NEW raw, WellFormed(raw), KeepsSides(raw), NEW f
    PROVE  LET defs == decodeJson(raw).entities
           IN  OwnSides(defs, computeSnapshots(defs, {}, f))
<1> DEFINE n == Len(raw.entities)
           defs == decodeJson(raw).entities
           snaps == computeSnapshots(defs, {}, f)
<1>1. n \in Nat /\ DOMAIN raw.entities = 1 .. n /\ \A i \in 1 .. n : raw.entities[i] \in RawEntities
  BY RawListing
<1>2. Listing(defs, n)
  BY EntitiesAlike DEF Alike
<1>3. \A i \in 1 .. n : defs[i] = convertEntity(raw.entities[i])
  BY <1>1 DEF decodeJson
<1> HIDE DEF snaps, defs
<1> SUFFICES ASSUME NEW id \in DOMAIN snaps, IsUnit(defs, id)
             PROVE  snaps[id].side = getEntity(defs, id).side
  BY DEF OwnSides, snaps, defs
<1> DEFINE d == getEntity(defs, id)
           st == StatesOf(defs, {}, f, d)
           s == CHOOSE x \in st : TRUE
<1>4. /\ \E i \in 1 .. n : d = defs[i] /\ d.id = id
      /\ st # {} /\ snaps[id] = SnapshotOf(defs, f, d, s)
  BY <1>2, ShownKnown DEF snaps
<1>5. PICK i \in 1 .. n : d = convertEntity(raw.entities[i])
  BY <1>3, <1>4
<1>6. s \in OwnState(d, f)
  <2>1. Streamed({}, d.id, f) = {}
    BY DEF Streamed
  <2>2. st = OwnState(d, f)
    BY <2>1 DEF StatesOf
  <2> HIDE DEF st
  <2> QED
    BY <1>4, <2>2
<1>7. d.type = "man"
  BY DEF IsUnit
<1>8. snaps[id].side = IF s.side = None THEN d.side ELSE s.side
  <2> HIDE DEF d, s
  <2> QED
    BY <1>4, <1>7 DEF SnapshotOf
<1> DEFINE r == raw.entities[i]
           p == r.positions
<1> HIDE DEF d, s, st
<1>9. r.unit
  <2>1. r.unit \in BOOLEAN /\ (~r.unit => r.class # "unit")
    BY <1>1, RawEntity
  <2>2. d.type = mapEntityType(IF r.unit THEN "unit" ELSE r.class)
    BY <1>5 DEF convertEntity
  <2>3. \A c : mapEntityType(c) = "man" => c \in {"unit", "man"}
    BY DEF mapEntityType
  <2>4. mapEntityType("man") = "unknown"
    BY DEF mapEntityType
  <2> QED
    BY <1>7, <2>1, <2>2, <2>3, <2>4
<1>10. d.positions = [k \in DOMAIN p |-> convertUnitPosition(p[k])] /\ d.side = mapSide(r.side)
  BY <1>5, <1>9 DEF convertEntity
<1>11. PICK k \in DOMAIN p : s = convertUnitPosition(p[k])
  <2>1. /\ f - d.start \in 0 .. Len(d.positions) - 1
        /\ s = d.positions[f - d.start + 1]
    BY <1>6 DEF OwnState
  <2>2. p \in Seq(RawStates)
    BY <1>1 DEF RawEntities
  <2>3. Len(p) \in Nat /\ DOMAIN p = 1 .. Len(p)
    <3> HIDE DEF p
    <3> QED
      BY <2>2
  <2>4. Len(d.positions) = Len(p)
    <3> DEFINE q == d.positions
    <3>1. q = [j \in 1 .. Len(p) |-> q[j]]
      BY <1>10, <2>3
    <3> HIDE DEF q
    <3>2. Len(q) = Len(p)
      BY <2>3, <3>1, SequenceOf
    <3> QED
      BY <3>2 DEF q
  <2> DEFINE j == f - d.start + 1
             u == f - d.start
  <2>5. u \in 0 .. Len(p) - 1
    BY <2>1, <2>4
  <2>6. u + 1 \in DOMAIN p
    <3> HIDE DEF u
    <3> QED
      BY <2>3, <2>5
  <2>7. s = convertUnitPosition(p[u + 1])
    <3> HIDE DEF p, u
    <3> QED
      BY <1>10, <2>1, <2>6 DEF u
  <2> QED
    BY <2>6, <2>7
<1>12. p[k].side \in {None, r.side}
  BY <1>1 DEF KeepsSides
<1>13. s.side = IF p[k].side = None THEN None ELSE mapSide(p[k].side)
  BY <1>11 DEF convertUnitPosition
<1>14. snaps[id].side = d.side
  BY <1>8, <1>10, <1>12, <1>13
<1> QED
  BY <1>14 DEF d

\* The units' tab lists units of the side.
LEMMA ListedUnits ==
    ASSUME NEW defs, NEW n, Listing(defs, n), NEW side
    PROVE  getBySide(defs, side) \subseteq UnitsIn(defs, side)
<1> SUFFICES ASSUME NEW id \in getBySide(defs, side) PROVE id \in UnitsIn(defs, side)
  OBVIOUS
<1>1. PICK i \in DOMAIN defs : id = defs[i].id /\ defs[i].type = "man" /\ defs[i].side = side
  BY DEF getBySide
<1>2. i \in 1 .. n
  BY DEF Listing
<1>3. id \in Ids(defs) /\ getEntity(defs, id) = defs[i]
  BY <1>1, <1>2, EntityFound
<1> QED
  BY <1>1, <1>3 DEF UnitsIn, IsUnit

=============================================================================

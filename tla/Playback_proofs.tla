-------------------------- MODULE Playback_proofs ---------------------------
(***************************************************************************)
(* Proofs about the playback page, for every recording, chunk size, size   *)
(* of the memory, bound and session: what a sequence without repetitions   *)
(* keeps when one of its elements moves to its end; what each call of the  *)
(* chunk cache keeps (CacheInv, SettledCache), that its access order is    *)
(* the history of uses (InOrder), and what it does to memory (Used,        *)
(* Stored); what each operator of the engine keeps (Moved, Quiet, Within); *)
(* one lemma per action; the invariant PlayInv, the properties that follow *)
(* from it, and the refinement of LruMemory.                               *)
(***************************************************************************)
EXTENDS Playback, FiniteSetTheorems, FunctionTheorems, SequenceTheorems, TLAPS

(***************************************************************************)
(* The chunk cache.                                                        *)
(***************************************************************************)

\* The two operators of the library, over the positions of a sequence.
LEMMA Positions ==
    ASSUME NEW s \in Seq(Chunks)
    PROVE  /\ IsInjective(s) <=> \A i, j \in 1 .. Len(s) : s[i] = s[j] => i = j
           /\ ToSet(s) = {s[i] : i \in 1 .. Len(s)}
<1>1. DOMAIN s = 1 .. Len(s)
  BY LenProperties
<1> QED
  BY <1>1 DEF IsInjective, ToSet

\* The index a chunk of the order stands at is the one that is taken out.
LEMMA RemovedAt ==
    ASSUME NEW s \in Seq(Chunks), IsInjective(s), NEW i \in 1 .. Len(s)
    PROVE  RemoveFirst(s, s[i]) = SubSeq(s, 1, i - 1) \o SubSeq(s, i + 1, Len(s))
<1> DEFINE I == {j \in 1 .. Len(s) : s[j] = s[i]}
<1>1. I = {i}
  BY DEF IsInjective
<1>2. Min(I) = i
  BY <1>1 DEF Min
<1>3. SelectInSeq(s, LAMBDA v : v = s[i]) = i
  BY <1>1, <1>2 DEF SelectInSeq
<1> QED
  BY <1>3 DEF RemoveFirst, RemoveAt

\* As long as the order has no chunk twice it is as long as the set of its chunks.
LEMMA OrderCounts ==
    ASSUME NEW s \in Seq(Chunks), IsInjective(s)
    PROVE  /\ IsFiniteSet(ToSet(s))
           /\ Cardinality(ToSet(s)) = Len(s)
<1>1. s \in Bijection(1 .. Len(s), ToSet(s))
  BY DEF IsInjective, ToSet, Bijection, Injection, Surjection
<1>2. ExistsBijection(1 .. Len(s), ToSet(s))
  BY <1>1 DEF ExistsBijection
<1>3. Len(s) \in Nat
  OBVIOUS
<1> QED
  BY <1>2, <1>3, FS_CountingElements, FS_NatBijection

\* k stands before l.
Before(s, k, l) == \E i, j \in 1 .. Len(s) : i < j /\ s[i] = k /\ s[j] = l

\* The sequence s lists chunks in the order that R gives as pairs.
InOrder(s, R) ==
    /\ R \subseteq Chunks \X Chunks
    /\ \A k, l \in Chunks : <<k, l>> \in R <=> Before(s, k, l)

\* The pairs once k has been used after all the others.
Latest(R, others, k) == (R \cap (others \X others)) \cup (others \X {k})

\* t is s with k taken out, where it was at i, and appended.
MovedToEnd(s, t, k) ==
    \E i \in 1 .. Len(s) + 1 :
        /\ IF i = Len(s) + 1
           THEN k \notin ToSet(s) /\ Len(t) = Len(s) + 1
           ELSE s[i] = k /\ Len(t) = Len(s)
        /\ \A j \in 1 .. Len(t) :
               t[j] = IF j < i THEN s[j] ELSE IF j = Len(t) THEN k ELSE s[j + 1]

\* A chunk that is used moves to the end of the order, or joins it there.
LEMMA TouchedOrder ==
    ASSUME NEW s \in Seq(Chunks), IsInjective(s), NEW k \in Chunks
    PROVE  LET t == Append(RemoveFirst(s, k), k)
           IN  /\ t \in Seq(Chunks)
               /\ IsInjective(t)
               /\ ToSet(t) = ToSet(s) \cup {k}
               /\ k \in ToSet(s) => Len(t) = Len(s)
               /\ k \notin ToSet(s) => t = Append(s, k)
               /\ MovedToEnd(s, t, k)
<1>1. CASE k \notin ToSet(s)
  <2>1. RemoveFirst(s, k) = s
    BY <1>1 DEF RemoveFirst, ToSet
  <2> DEFINE t == Append(s, k)
  <2>2. /\ t \in Seq(Chunks)
        /\ Len(t) = Len(s) + 1
        /\ \A j \in 1 .. Len(t) : t[j] = IF j <= Len(s) THEN s[j] ELSE k
    OBVIOUS
  <2> HIDE DEF t
  <2>3. \A i \in 1 .. Len(s) : s[i] # k
    BY <1>1, Positions
  <2>4. \A i, j \in 1 .. Len(s) : s[i] = s[j] => i = j
    BY Positions
  <2>5. IsInjective(t)
    BY <2>2, <2>3, <2>4, Positions
  <2>6. ToSet(t) = ToSet(s) \cup {k}
    <3>1. ToSet(t) \subseteq ToSet(s) \cup {k}
      BY <2>2, Positions
    <3>2. t[Len(s) + 1] = k /\ Len(s) + 1 \in 1 .. Len(t)
      BY <2>2
    <3>3. ASSUME NEW i \in 1 .. Len(s) PROVE s[i] \in ToSet(t)
      <4>1. t[i] = s[i] /\ i \in 1 .. Len(t)
        BY <2>2
      <4> QED
        BY <4>1, <2>2, Positions
    <3>4. ToSet(s) \subseteq ToSet(t)
      BY <3>3, Positions
    <3>5. k \in ToSet(t)
      BY <3>2, <2>2, Positions
    <3> QED
      BY <3>1, <3>4, <3>5
  <2>7. MovedToEnd(s, t, k)
    <3>1. Len(s) \in Nat /\ Len(s) + 1 \in 1 .. Len(s) + 1
      OBVIOUS
    <3>2. \A j \in 1 .. Len(t) :
            t[j] = IF j < Len(s) + 1 THEN s[j] ELSE IF j = Len(t) THEN k ELSE s[j + 1]
      BY <2>2, <3>1
    <3> QED
      BY <1>1, <2>2, <3>1, <3>2 DEF MovedToEnd
  <2> QED
    BY <1>1, <2>1, <2>2, <2>5, <2>6, <2>7 DEF t
<1>2. CASE k \in ToSet(s)
  <2>1. PICK i \in 1 .. Len(s) : s[i] = k
    BY <1>2 DEF ToSet
  <2> DEFINE r == RemoveFirst(s, k)
             t == Append(r, k)
  <2>2. r = SubSeq(s, 1, i - 1) \o SubSeq(s, i + 1, Len(s))
    BY <2>1, RemovedAt
  <2>3. /\ r \in Seq(Chunks)
        /\ Len(r) = Len(s) - 1
        /\ \A j \in 1 .. Len(r) : r[j] = IF j < i THEN s[j] ELSE s[j + 1]
    <3> DEFINE u == SubSeq(s, 1, i - 1)
               v == SubSeq(s, i + 1, Len(s))
    <3>1. /\ u \in Seq(Chunks)
          /\ Len(u) = i - 1
          /\ \A j \in 1 .. i - 1 : u[j] = s[j]
      OBVIOUS
    <3>2. /\ v \in Seq(Chunks)
          /\ Len(v) = Len(s) - i
          /\ \A j \in 1 .. Len(s) - i : v[j] = s[j + i]
      OBVIOUS
    <3> HIDE DEF u, v
    <3>3. /\ u \o v \in Seq(Chunks)
          /\ Len(u \o v) = Len(s) - 1
          /\ \A j \in 1 .. Len(s) - 1 : (u \o v)[j] = IF j <= i - 1 THEN u[j] ELSE v[j - (i - 1)]
      <4>1. /\ u \o v \in Seq(Chunks)
            /\ Len(u \o v) = Len(u) + Len(v)
            /\ \A j \in 1 .. Len(u) + Len(v) : (u \o v)[j] = IF j <= Len(u) THEN u[j] ELSE v[j - Len(u)]
        BY <3>1, <3>2, ConcatProperties
      <4>2. Len(u) = i - 1 /\ Len(u) + Len(v) = Len(s) - 1
        BY <3>1, <3>2
      <4> QED
        BY <4>1, <4>2
    <3>4. r = u \o v
      BY <2>2 DEF u, v
    <3> HIDE DEF r
    <3>5. ASSUME NEW j \in 1 .. Len(s) - 1, j >= i PROVE r[j] = s[j + 1]
      <4>1. r[j] = v[j - (i - 1)] /\ j - (i - 1) \in 1 .. Len(s) - i
        BY <3>3, <3>4, <3>5
      <4>2. v[j - (i - 1)] = s[j - (i - 1) + i]
        BY <4>1, <3>2
      <4>3. j - (i - 1) + i = j + 1
        OBVIOUS
      <4> QED
        BY <4>1, <4>2, <4>3
    <3>6. ASSUME NEW j \in 1 .. Len(s) - 1, j < i PROVE r[j] = s[j]
      <4>1. j <= i - 1 /\ j \in 1 .. i - 1
        BY <3>6
      <4> QED
        BY <4>1, <3>1, <3>3, <3>4
    <3>7. \A j \in 1 .. Len(s) - 1 : j < i \/ j >= i
      OBVIOUS
    <3> QED
      BY <3>3, <3>4, <3>5, <3>6, <3>7
  <2> HIDE DEF r
  <2>4. /\ t \in Seq(Chunks)
        /\ Len(t) = Len(s)
        /\ \A j \in 1 .. Len(t) : t[j] = IF j < i THEN s[j] ELSE IF j = Len(s) THEN k ELSE s[j + 1]
    BY <2>3
  <2> HIDE DEF t
  <2>5. IsInjective(t)
    <3>1. \A j, n \in 1 .. Len(s) : s[j] = s[n] => j = n
      BY Positions
    <3> QED
      BY <2>1, <2>4, <3>1, Positions
  <2>6. ToSet(t) \subseteq ToSet(s)
    BY <2>1, <2>4, Positions
  <2>7. ASSUME NEW j \in 1 .. Len(s) PROVE s[j] \in ToSet(t)
    <3>1. CASE j < i
      BY <3>1, <2>4, Positions
    <3>2. CASE j = i
      BY <3>2, <2>1, <2>4, Positions
    <3>3. CASE j > i
      <4>1. j - 1 \in 1 .. Len(t) /\ t[j - 1] = s[j]
        BY <3>3, <2>4
      <4> QED
        BY <4>1, <2>4, Positions
    <3>4. j < i \/ j = i \/ j > i
      OBVIOUS
    <3> QED
      BY <3>1, <3>2, <3>3, <3>4
  <2>8. ToSet(t) = ToSet(s)
    <3>1. ToSet(s) = {s[j] : j \in 1 .. Len(s)}
      BY Positions
    <3> QED
      BY <2>6, <2>7, <3>1
  <2>9. MovedToEnd(s, t, k)
    <3>1. Len(s) \in Nat /\ i \in 1 .. Len(s) + 1 /\ i # Len(s) + 1
      OBVIOUS
    <3> QED
      BY <2>1, <2>4, <3>1 DEF MovedToEnd
  <2> QED
    BY <1>2, <2>4, <2>5, <2>8, <2>9 DEF r, t
<1> QED
  BY <1>1, <1>2

\* The chunk moved to the end is after the others, which keep their order.
LEMMA MovedUses ==
    ASSUME NEW s \in Seq(Chunks), IsInjective(s), NEW k \in Chunks,
           NEW t \in Seq(Chunks), IsInjective(t), MovedToEnd(s, t, k),
           NEW R, InOrder(s, R)
    PROVE  InOrder(t, Latest(R, ToSet(s) \ {k}, k))
<1> DEFINE n == Len(s)
           m == Len(t)
           others == ToSet(s) \ {k}
<1>1. n \in Nat /\ m \in Nat
  OBVIOUS
<1> HIDE DEF n, m
<1>2. PICK i \in 1 .. n + 1 :
          /\ IF i = n + 1 THEN k \notin ToSet(s) /\ m = n + 1 ELSE s[i] = k /\ m = n
          /\ \A j \in 1 .. m : t[j] = IF j < i THEN s[j] ELSE IF j = m THEN k ELSE s[j + 1]
  BY DEF MovedToEnd, n, m
<1>3. /\ \A p, q \in 1 .. n : s[p] = s[q] => p = q
      /\ \A p, q \in 1 .. m : t[p] = t[q] => p = q
      /\ ToSet(s) = {s[p] : p \in 1 .. n}
      /\ \A p \in 1 .. n : s[p] \in Chunks
  BY Positions DEF n, m
<1>4. m \in 1 .. m /\ t[m] = k /\ m >= i
  BY <1>1, <1>2
\* Where a position of s other than i is in t, and back.
<1>5. ASSUME NEW p \in 1 .. n, s[p] # k
      PROVE  LET q == IF p < i THEN p ELSE p - 1
             IN  q \in 1 .. m - 1 /\ t[q] = s[p]
  <2>1. p # i
    BY <1>1, <1>2, <1>5
  <2>2. CASE p < i
    BY <1>1, <1>2, <2>2
  <2>3. CASE p > i
    <3>1. p - 1 \in 1 .. m - 1 /\ ~(p - 1 < i) /\ p - 1 # m /\ p - 1 \in 1 .. m
      BY <1>1, <1>2, <2>3
    <3>2. t[p - 1] = s[(p - 1) + 1]
      BY <1>2, <3>1
    <3> QED
      BY <1>1, <2>3, <3>1, <3>2
  <2> QED
    BY <2>1, <2>2, <2>3
<1>6. ASSUME NEW q \in 1 .. m - 1
      PROVE  LET p == IF q < i THEN q ELSE q + 1
             IN  p \in 1 .. n /\ t[q] = s[p] /\ t[q] # k
  <2>1. q \in 1 .. m /\ q # m
    BY <1>1
  <2>2. t[q] # k
    BY <1>3, <1>4, <2>1
  <2> QED
    BY <1>1, <1>2, <2>1, <2>2
<1>7. ASSUME NEW a \in Chunks, NEW b \in Chunks
      PROVE  Before(t, a, b) <=> (a \in others /\ b \in others /\ Before(s, a, b))
                                 \/ (a \in others /\ b = k)
  <2>1. ASSUME Before(t, a, b)
        PROVE  (a \in others /\ b \in others /\ Before(s, a, b)) \/ (a \in others /\ b = k)
    <3>1. PICK p, q \in 1 .. m : p < q /\ t[p] = a /\ t[q] = b
      BY <2>1 DEF Before, m
    <3>2. p \in 1 .. m - 1
      BY <1>1, <3>1
    <3>3. a \in others
      BY <1>3, <1>6, <3>1, <3>2
    <3>4. CASE q = m
      BY <1>4, <3>1, <3>3, <3>4
    <3>5. CASE q # m
      <4>1. q \in 1 .. m - 1
        BY <1>1, <3>5
      <4>2. b \in others
        BY <1>3, <1>6, <3>1, <4>1
      <4> DEFINE v == IF p < i THEN p ELSE p + 1
                 w == IF q < i THEN q ELSE q + 1
      <4>3. v \in 1 .. n /\ w \in 1 .. n /\ s[v] = a /\ s[w] = b
        BY <1>6, <3>1, <3>2, <4>1
      <4>4. v < w
        BY <3>1
      <4> QED
        BY <3>3, <4>2, <4>3, <4>4 DEF Before, n
    <3> QED
      BY <3>4, <3>5
  <2>2. ASSUME a \in others, b \in others, Before(s, a, b) PROVE Before(t, a, b)
    <3>1. PICK p, q \in 1 .. n : p < q /\ s[p] = a /\ s[q] = b
      BY <2>2 DEF Before, n
    <3> DEFINE v == IF p < i THEN p ELSE p - 1
               w == IF q < i THEN q ELSE q - 1
    <3>2. v \in 1 .. m - 1 /\ w \in 1 .. m - 1 /\ t[v] = a /\ t[w] = b
      BY <1>5, <2>2, <3>1
    <3>3. p # i /\ q # i
      BY <1>1, <1>2, <2>2, <3>1
    <3>4. v < w
      BY <1>1, <3>1, <3>3
    <3>5. v \in 1 .. m /\ w \in 1 .. m
      BY <1>1, <3>2
    <3> HIDE DEF v, w
    <3> QED
      BY <3>2, <3>4, <3>5 DEF Before, m
  <2>3. ASSUME a \in others, b = k PROVE Before(t, a, b)
    <3>1. PICK p \in 1 .. n : s[p] = a
      BY <1>3, <2>3
    <3>2. PICK q \in 1 .. m - 1 : t[q] = a
      BY <1>5, <2>3, <3>1
    <3>3. q \in 1 .. m /\ q < m
      BY <1>1, <3>2
    <3> QED
      BY <1>4, <2>3, <3>2, <3>3 DEF Before, m
  <2> QED
    BY <2>1, <2>2, <2>3
<1>8. others \subseteq Chunks
  BY <1>3
<1> HIDE DEF others
<1>9. Latest(R, others, k) \subseteq Chunks \X Chunks
  BY <1>8 DEF Latest, InOrder
<1>10. ASSUME NEW a \in Chunks, NEW b \in Chunks
       PROVE  <<a, b>> \in Latest(R, others, k) <=> Before(t, a, b)
  <2>1. <<a, b>> \in R <=> Before(s, a, b)
    BY DEF InOrder
  <2>2. <<a, b>> \in Latest(R, others, k) <=>
            (a \in others /\ b \in others /\ <<a, b>> \in R) \/ (a \in others /\ b = k)
    BY DEF Latest
  <2> QED
    BY <1>7, <2>1, <2>2
<1> QED
  BY <1>9, <1>10 DEF InOrder, others

LEMMA TailOrder ==
    ASSUME NEW s \in Seq(Chunks), IsInjective(s), s # << >>
    PROVE  /\ Tail(s) \in Seq(Chunks)
           /\ IsInjective(Tail(s))
           /\ ToSet(Tail(s)) = ToSet(s) \ {s[1]}
           /\ SubSeq(s, 2, Len(s)) = Tail(s)
<1> DEFINE t == Tail(s)
<1>1. /\ t \in Seq(Chunks)
      /\ Len(t) = Len(s) - 1
      /\ \A i \in 1 .. Len(t) : t[i] = s[i + 1]
  OBVIOUS
<1>2. SubSeq(s, 2, Len(s)) = t
  BY TailIsSubSeq
<1> HIDE DEF t
<1>3. IsInjective(t)
  BY <1>1, Positions
<1>4. ToSet(t) \subseteq ToSet(s) \ {s[1]}
  BY <1>1, Positions
<1>5. ASSUME NEW i \in 1 .. Len(s), s[i] # s[1] PROVE s[i] \in ToSet(t)
  <2>1. i - 1 \in 1 .. Len(t) /\ t[i - 1] = s[i]
    BY <1>1, <1>5
  <2> QED
    BY <2>1, <1>1, Positions
<1>6. ToSet(s) \ {s[1]} \subseteq ToSet(t)
  BY <1>5, Positions
<1> QED
  BY <1>1, <1>2, <1>3, <1>4, <1>6 DEF t

\* The first is the oldest, and without it the others keep their order.
LEMMA TailUses ==
    ASSUME NEW s \in Seq(Chunks), IsInjective(s), s # << >>, NEW R, InOrder(s, R)
    PROVE  /\ s[1] \in ToSet(s)
           /\ \A l \in ToSet(s) \ {s[1]} : <<s[1], l>> \in R
           /\ InOrder(Tail(s), R \cap (ToSet(Tail(s)) \X ToSet(Tail(s))))
<1> DEFINE t == Tail(s)
           T == ToSet(t)
<1>1. /\ t \in Seq(Chunks)
      /\ Len(t) = Len(s) - 1
      /\ \A i \in 1 .. Len(t) : t[i] = s[i + 1]
      /\ Len(s) \in Nat \ {0}
  OBVIOUS
<1>2. T = ToSet(s) \ {s[1]}
  BY TailOrder
<1> HIDE DEF t
<1>3. /\ ToSet(s) = {s[i] : i \in 1 .. Len(s)}
      /\ \A i \in 1 .. Len(s) : s[i] \in Chunks
      /\ T \subseteq Chunks
  BY <1>1, Positions
<1>4. s[1] \in ToSet(s) /\ s[1] \in Chunks
  BY <1>1, <1>3
<1>5. ASSUME NEW l \in ToSet(s) \ {s[1]} PROVE <<s[1], l>> \in R
  <2>1. PICK j \in 1 .. Len(s) : s[j] = l
    BY <1>3
  <2>2. 1 < j /\ 1 \in 1 .. Len(s)
    BY <1>1, <2>1
  <2> QED
    BY <1>3, <2>1, <2>2 DEF InOrder, Before
<1>6. ASSUME NEW a \in Chunks, NEW b \in Chunks
      PROVE  Before(t, a, b) <=> a \in T /\ b \in T /\ Before(s, a, b)
  <2>1. ASSUME Before(t, a, b) PROVE a \in T /\ b \in T /\ Before(s, a, b)
    <3>1. PICK i, j \in 1 .. Len(t) : i < j /\ t[i] = a /\ t[j] = b
      BY <2>1 DEF Before
    <3>2. a \in T /\ b \in T
      BY <1>1, <3>1, Positions
    <3>3. i + 1 \in 1 .. Len(s) /\ j + 1 \in 1 .. Len(s) /\ i + 1 < j + 1
      BY <1>1, <3>1
    <3>4. s[i + 1] = a /\ s[j + 1] = b
      BY <1>1, <3>1
    <3> QED
      BY <3>2, <3>3, <3>4 DEF Before
  <2>2. ASSUME a \in T, b \in T, Before(s, a, b) PROVE Before(t, a, b)
    <3>1. PICK i, j \in 1 .. Len(s) : i < j /\ s[i] = a /\ s[j] = b
      BY <2>2 DEF Before
    <3>2. i # 1 /\ j # 1
      BY <1>2, <2>2, <3>1
    <3>3. i - 1 \in 1 .. Len(t) /\ j - 1 \in 1 .. Len(t) /\ i - 1 < j - 1
      BY <1>1, <3>1, <3>2
    <3>4. t[i - 1] = a /\ t[j - 1] = b
      BY <1>1, <3>1, <3>3
    <3> QED
      BY <3>3, <3>4 DEF Before
  <2> QED
    BY <2>1, <2>2
<1> HIDE DEF T
<1>7. ASSUME NEW a \in Chunks, NEW b \in Chunks
      PROVE  <<a, b>> \in R \cap (T \X T) <=> Before(t, a, b)
  <2>1. <<a, b>> \in R <=> Before(s, a, b)
    BY DEF InOrder
  <2> QED
    BY <1>6, <2>1
<1>8. R \cap (T \X T) \subseteq Chunks \X Chunks
  BY DEF InOrder
<1>9. InOrder(t, R \cap (T \X T))
  BY <1>7, <1>8 DEF InOrder
<1> QED
  BY <1>4, <1>5, <1>9 DEF T, t

\* Of two chunks of the order one is before the other.
LEMMA UsesOrdered ==
    ASSUME NEW s \in Seq(Chunks), IsInjective(s), NEW R, InOrder(s, R)
    PROVE  /\ R \subseteq ToSet(s) \X ToSet(s)
           /\ \A k, l \in ToSet(s) : <<k, l>> \in R <=> k # l /\ <<l, k>> \notin R
<1>1. /\ ToSet(s) = {s[i] : i \in 1 .. Len(s)}
      /\ \A i \in 1 .. Len(s) : s[i] \in Chunks
      /\ \A i, j \in 1 .. Len(s) : s[i] = s[j] => i = j
      /\ Len(s) \in Nat
  BY Positions
<1>2. R \subseteq Chunks \X Chunks /\ \A k, l \in Chunks : <<k, l>> \in R <=> Before(s, k, l)
  BY DEF InOrder
<1>3. ASSUME NEW k \in Chunks, NEW l \in Chunks, Before(s, k, l)
      PROVE  k \in ToSet(s) /\ l \in ToSet(s)
  BY <1>1, <1>3 DEF Before
<1>4. ASSUME NEW p \in R PROVE p \in ToSet(s) \X ToSet(s)
  <2>1. PICK k \in Chunks, l \in Chunks : p = <<k, l>>
    BY <1>2
  <2>2. Before(s, k, l)
    BY <1>2, <2>1
  <2> QED
    BY <1>3, <2>1, <2>2
<1>5. ASSUME NEW k \in ToSet(s), NEW l \in ToSet(s)
      PROVE  Before(s, k, l) <=> k # l /\ ~Before(s, l, k)
  <2>1. PICK i \in 1 .. Len(s) : s[i] = k
    BY <1>1
  <2>2. PICK j \in 1 .. Len(s) : s[j] = l
    BY <1>1
  <2>3. Before(s, k, l) <=> i < j
    BY <1>1, <2>1, <2>2 DEF Before
  <2>4. Before(s, l, k) <=> j < i
    BY <1>1, <2>1, <2>2 DEF Before
  <2>5. k = l <=> i = j
    BY <1>1, <2>1, <2>2
  <2> QED
    BY <2>3, <2>4, <2>5
<1>6. ToSet(s) \subseteq Chunks
  BY <1>1
<1> QED
  BY <1>2, <1>4, <1>5, <1>6

\* What holds of a cache between its calls; once the waiters that were ready went
\* on, late is contained in loading (CacheConsistentIn).
CacheInv(c) ==
    /\ c \in CacheType
    /\ ToSet(c.order) = c.loaded
    /\ IsInjective(c.order)
    /\ Cardinality(c.loaded) <= MaxInMemory
    /\ c.loaded \cap c.loading = {}
    /\ c.prefetches \subseteq c.loading
    /\ c.late \subseteq c.loading \cup c.loaded
    /\ InOrder(c.order, c.newer)

SettledCache(c) == c \in CacheType /\ CacheConsistentIn(c) /\ InOrder(c.order, c.newer)

\* Some chunks of a memory are used, after the others; R was before, S is after.
Reused(memory, R, S) ==
    \E used \in SUBSET memory :
        LET others == memory \ used
        IN  S \ (used \X used) = (R \cap (others \X others)) \cup (others \X used)

\* A call that uses chunks: memory holds the same, more may be asked for.
Used(c, d) ==
    /\ d.loaded = c.loaded
    /\ d.newer = c.newer \/ Reused(c.loaded, c.newer, d.newer)
    /\ c.loading \subseteq d.loading

\* Of two chunks in memory the history has one after the other.
LEMMA SettledUses ==
    ASSUME NEW c, SettledCache(c)
    PROVE  /\ c.newer \subseteq c.loaded \X c.loaded
           /\ c.loaded = {} => c.newer = {}
           /\ \A k, l \in c.loaded : <<k, l>> \in c.newer <=> k # l /\ <<l, k>> \notin c.newer
<1>1. /\ c.order \in Seq(Chunks) /\ IsInjective(c.order) /\ ToSet(c.order) = c.loaded
      /\ InOrder(c.order, c.newer)
  BY DEF SettledCache, CacheConsistentIn, CacheType
<1>2. /\ c.newer \subseteq ToSet(c.order) \X ToSet(c.order)
      /\ \A k, l \in ToSet(c.order) : <<k, l>> \in c.newer <=> k # l /\ <<l, k>> \notin c.newer
  BY <1>1, UsesOrdered
<1> QED
  BY <1>1, <1>2

LEMMA SettledIsInv == ASSUME NEW c, SettledCache(c) PROVE CacheInv(c)
  BY DEF SettledCache, CacheInv, CacheConsistentIn

LEMMA ReusedTwice ==
    ASSUME NEW M, NEW R, NEW S, NEW T, Reused(M, R, S), Reused(M, S, T) PROVE Reused(M, R, T)
<1>1. PICK u \in SUBSET M :
          S \ (u \X u) = (R \cap ((M \ u) \X (M \ u))) \cup ((M \ u) \X u)
  BY DEF Reused
<1>2. PICK v \in SUBSET M :
          T \ (v \X v) = (S \cap ((M \ v) \X (M \ v))) \cup ((M \ v) \X v)
  BY DEF Reused
<1> DEFINE w == u \cup v
<1>3. ASSUME NEW p \in T \ (w \X w)
      PROVE  p \in (R \cap ((M \ w) \X (M \ w))) \cup ((M \ w) \X w)
  <2>1. p \in T \ (v \X v)
    OBVIOUS
  <2>2. CASE p \in (M \ v) \X v
    BY <2>2
  <2>3. CASE p \in S \cap ((M \ v) \X (M \ v))
    <3>1. p \in S \ (u \X u)
      BY <2>3
    <3>2. p \in (R \cap ((M \ u) \X (M \ u))) \cup ((M \ u) \X u)
      BY <1>1, <3>1
    <3> QED
      BY <2>3, <3>2
  <2> QED
    BY <1>2, <2>1, <2>2, <2>3
<1>4. ASSUME NEW p \in (R \cap ((M \ w) \X (M \ w))) \cup ((M \ w) \X w)
      PROVE  p \in T \ (w \X w)
  <2>1. p \notin w \X w
    OBVIOUS
  <2>2. CASE p \in (M \ w) \X v
    <3>1. p \in (M \ v) \X v
      BY <2>2
    <3> QED
      BY <1>2, <2>1, <3>1
  <2>3. CASE p \in (M \ w) \X (u \ v)
    <3>1. p \in (M \ u) \X u /\ p \in (M \ v) \X (M \ v)
      BY <2>3
    <3> QED
      BY <1>1, <1>2, <2>1, <3>1
  <2>4. CASE p \in R \cap ((M \ w) \X (M \ w))
    <3>1. p \in (R \cap ((M \ u) \X (M \ u))) /\ p \in (M \ v) \X (M \ v)
      BY <2>4
    <3> QED
      BY <1>1, <1>2, <2>1, <3>1
  <2>5. p \in (M \ w) \X v \/ p \in (M \ w) \X (u \ v) \/ p \in R \cap ((M \ w) \X (M \ w))
    OBVIOUS
  <2> QED
    BY <2>2, <2>3, <2>4, <2>5
<1>5. w \in SUBSET M
  OBVIOUS
<1>6. T \ (w \X w) = (R \cap ((M \ w) \X (M \ w))) \cup ((M \ w) \X w)
  BY <1>3, <1>4
<1> HIDE DEF w
<1> QED
  BY <1>5, <1>6 DEF Reused

LEMMA UsedTransitive ==
    ASSUME NEW c, NEW d, NEW e, Used(c, d), Used(d, e) PROVE Used(c, e)
  BY ReusedTwice DEF Used

\* Nothing used.
LEMMA NotReused ==
    ASSUME NEW M, NEW R, R \subseteq M \X M PROVE Reused(M, R, R)
<1>1. R \ ({} \X {}) = (R \cap ((M \ {}) \X (M \ {}))) \cup ((M \ {}) \X {})
  OBVIOUS
<1> QED
  BY <1>1 DEF Reused

\* One of a memory used.
LEMMA OneReused ==
    ASSUME NEW M, NEW R, NEW k \in M PROVE Reused(M, R, Latest(R, M \ {k}, k))
<1>1. Latest(R, M \ {k}, k) \ ({k} \X {k}) =
          (R \cap ((M \ {k}) \X (M \ {k}))) \cup ((M \ {k}) \X {k})
  BY DEF Latest
<1>2. {k} \in SUBSET M
  OBVIOUS
<1> QED
  BY <1>1, <1>2 DEF Reused

LEMMA ChunkOfFrame == ASSUME NEW f \in Frames PROVE ChunkOf(f) \in Chunks
  BY CacheAssumption DEF Frames, ChunkOf, Chunks, ChunkCount

LEMMA EmptyCacheSettled == SettledCache(EmptyCache)
<1>1. EmptyCache \in CacheType
  BY DEF EmptyCache, CacheType
<1>3. IsInjective(<< >>) /\ ToSet(<< >>) = {}
  <2>1. DOMAIN << >> = {}
    OBVIOUS
  <2> QED
    BY <2>1 DEF IsInjective, ToSet
<1>4. /\ EmptyCache.order = << >> /\ EmptyCache.loaded = {} /\ EmptyCache.loading = {}
      /\ EmptyCache.late = {} /\ EmptyCache.prefetches = {} /\ EmptyCache.newer = {}
  BY DEF EmptyCache
<1>5. Cardinality(EmptyCache.loaded) <= MaxInMemory
  BY <1>4, FS_EmptySet, CacheAssumption
<1>6. InOrder(<< >>, {})
  <2>1. 1 .. Len(<< >>) = {}
    OBVIOUS
  <2> QED
    BY <2>1 DEF InOrder, Before
<1> QED
  BY <1>1, <1>3, <1>4, <1>5, <1>6 DEF SettledCache, CacheConsistentIn

LEMMA TouchedCache ==
    ASSUME NEW c, CacheInv(c), NEW k \in c.loaded
    PROVE  LET d == Touch(UsedNow(c, k), k)
           IN  CacheInv(d) /\ Used(c, d) /\ d.late = c.late
<1> DEFINE o == Append(RemoveFirst(c.order, k), k)
           R == Latest(c.newer, c.loaded \ {k}, k)
           d == Touch(UsedNow(c, k), k)
<1>1. c.order \in Seq(Chunks) /\ k \in Chunks
  BY DEF CacheInv, CacheType
<1>2. /\ o \in Seq(Chunks)
      /\ IsInjective(o)
      /\ ToSet(o) = c.loaded
      /\ MovedToEnd(c.order, o, k)
  <2>1. IsInjective(c.order) /\ k \in ToSet(c.order) /\ ToSet(c.order) \cup {k} = c.loaded
    BY DEF CacheInv
  <2> HIDE DEF o
  <2>2. /\ o \in Seq(Chunks)
        /\ IsInjective(o)
        /\ ToSet(o) = ToSet(c.order) \cup {k}
        /\ MovedToEnd(c.order, o, k)
    BY <1>1, <2>1, TouchedOrder DEF o
  <2> QED
    BY <2>1, <2>2
<1> HIDE DEF o
<1>3. InOrder(o, R)
  <2>1. ToSet(c.order) = c.loaded /\ IsInjective(c.order) /\ InOrder(c.order, c.newer)
    BY DEF CacheInv
  <2> HIDE DEF R
  <2>2. InOrder(o, Latest(c.newer, ToSet(c.order) \ {k}, k))
    BY <1>1, <1>2, <2>1, MovedUses
  <2> QED
    BY <2>1, <2>2 DEF R
<1>4. Reused(c.loaded, c.newer, R)
  BY OneReused
<1>5. UsedNow(c, k) = [c EXCEPT !.newer = R]
  BY DEF UsedNow, Latest, CacheInv, CacheType
<1>6. R \subseteq Chunks \X Chunks
  BY <1>3 DEF InOrder
<1> HIDE DEF R
<1>7. d = [c EXCEPT !.newer = R, !.order = o]
  BY <1>5 DEF Touch, o, CacheInv, CacheType
<1> HIDE DEF d
<1> QED
  BY <1>2, <1>3, <1>4, <1>6, <1>7 DEF CacheInv, CacheType, Used, d

LEMMA LoadedChunk ==
    ASSUME NEW c, CacheInv(c), NEW k \in Chunks
    PROVE  /\ CacheInv(LoadChunk(c, k))
           /\ Used(c, LoadChunk(c, k))
           /\ k \in LoadChunk(c, k).loading \cup c.loaded
           /\ LoadChunk(c, k).late = c.late
<1>1. CASE k \in c.loaded
  <2>1. LoadChunk(c, k) = Touch(UsedNow(c, k), k)
    BY <1>1 DEF LoadChunk
  <2> QED
    BY <1>1, <2>1, TouchedCache
<1>2. CASE k \notin c.loaded
  BY <1>2 DEF LoadChunk, CacheInv, CacheType, Used
<1> QED
  BY <1>1, <1>2

LEMMA EnsuredCache ==
    ASSUME NEW c, CacheInv(c), NEW f \in Frames
    PROVE  CacheInv(EnsureLoaded(c, f)) /\ Used(c, EnsureLoaded(c, f))
<1> DEFINE k == ChunkOf(f)
           d == LoadChunk(c, k)
<1>1. k \in Chunks
  BY ChunkOfFrame
<1> HIDE DEF k
<1>2. CacheInv(d) /\ Used(c, d) /\ k \in d.loading \cup d.loaded
  BY <1>1, LoadedChunk DEF Used
<1>3. EnsureLoaded(c, f) = [d EXCEPT !.late = IF PrefetchesAt(f) THEN @ \cup {k} ELSE @]
  BY DEF EnsureLoaded, k
<1> HIDE DEF d
<1> QED
  BY <1>1, <1>2, <1>3 DEF CacheInv, CacheType, Used

\* Who can go on goes on: memory is as it was.
LEMMA ContinuedCache ==
    ASSUME NEW c, CacheInv(c)
    PROVE  /\ SettledCache(Continue(c))
           /\ Used(c, Continue(c))
           /\ Continue(c).newer = c.newer
<1> DEFINE ready == c.late \cap c.loaded
           asked == CheckPrefetch(c, ready)
           p == IF asked = {} THEN c.prefetching ELSE CHOOSE k \in asked : TRUE
<1>1. asked \subseteq Chunks /\ asked \cap c.loaded = {}
  BY DEF CheckPrefetch
<1>2. p \in Chunks \cup {None}
  BY <1>1 DEF CacheInv, CacheType
<1>3. Continue(c) = [c EXCEPT !.late = @ \ ready, !.loading = @ \cup asked,
                             !.prefetches = @ \cup asked, !.prefetching = p]
  BY DEF Continue, CacheInv, CacheType
<1> HIDE DEF asked, p
<1>4. c.loaded \in SUBSET Chunks /\ c.loading \in SUBSET Chunks
  BY DEF CacheInv, CacheType
<1>5. /\ Continue(c) \in CacheType
      /\ Continue(c).loaded = c.loaded /\ Continue(c).order = c.order
      /\ Continue(c).newer = c.newer /\ Continue(c).loading = c.loading \cup asked
      /\ Continue(c).late = c.late \ ready
      /\ Continue(c).prefetches = c.prefetches \cup asked
  BY <1>1, <1>2, <1>3 DEF CacheInv, CacheType
<1>6. Used(c, Continue(c))
  BY <1>4, <1>5 DEF Used
<1>7. SettledCache(Continue(c))
  <2>1. InOrder(Continue(c).order, Continue(c).newer)
    BY <1>5 DEF CacheInv
  <2>2. Continue(c).loaded \cap Continue(c).loading = {}
    BY <1>1, <1>5 DEF CacheInv
  <2>3. Continue(c).late \cup Continue(c).prefetches \subseteq Continue(c).loading
    BY <1>5 DEF CacheInv
  <2> QED
    BY <1>5, <2>1, <2>2, <2>3 DEF CacheInv, SettledCache, CacheConsistentIn
<1> QED
  BY <1>5, <1>6, <1>7

\* The order after an answer: the oldest chunk goes when memory is full.
KeptOrder(c) == IF Len(c.order) = MaxInMemory THEN Tail(c.order) ELSE c.order

\* What an answer does to memory, in terms of the abstract one.
Stored(c, k, d) ==
    \E kept \in SUBSET c.loaded :
        /\ IF Cardinality(c.loaded) < MaxInMemory
           THEN kept = c.loaded
           ELSE \E oldest \in c.loaded :
                    /\ \A l \in c.loaded \ {oldest} : <<oldest, l>> \in c.newer
                    /\ kept = c.loaded \ {oldest}
        /\ d.loaded = kept \cup {k}
        /\ d.newer = (c.newer \cap (kept \X kept)) \cup (kept \X {k})

LEMMA StoredCache ==
    ASSUME NEW c, SettledCache(c), NEW k \in c.loading
    PROVE  LET d == StoreInMemory(c, k)
           IN  /\ d = [c EXCEPT !.loaded = ToSet(KeptOrder(c)) \cup {k},
                                !.order = Append(KeptOrder(c), k),
                                !.newer = Latest(@, ToSet(KeptOrder(c)), k)]
               /\ d \in CacheType
               /\ ToSet(d.order) = d.loaded
               /\ IsInjective(d.order)
               /\ InOrder(d.order, d.newer)
               /\ Cardinality(d.loaded) <= MaxInMemory
               /\ ToSet(KeptOrder(c)) \subseteq c.loaded
               /\ Stored(c, k, d)
<1> DEFINE o == KeptOrder(c)
           R == Latest(c.newer, ToSet(o), k)
<1>1. /\ c.order \in Seq(Chunks)
      /\ IsInjective(c.order)
      /\ ToSet(c.order) = c.loaded
      /\ Len(c.order) <= MaxInMemory
      /\ Len(c.order) = Cardinality(c.loaded)
      /\ Len(c.order) \in Nat
      /\ k \in Chunks \ c.loaded
      /\ MaxInMemory \in Nat \ {0}
      /\ InOrder(c.order, c.newer)
  BY OrderCounts, CacheAssumption DEF SettledCache, CacheConsistentIn, CacheType
<1>2. /\ o \in Seq(Chunks)
      /\ IsInjective(o)
      /\ ToSet(o) \subseteq c.loaded
      /\ Len(o) <= MaxInMemory - 1
      /\ Len(o) \in Nat
  <2>1. CASE Len(c.order) = MaxInMemory
    <3>1. o = Tail(c.order) /\ c.order # << >>
      BY <1>1, <2>1 DEF KeptOrder
    <3>2. Len(o) = Len(c.order) - 1
      BY <1>1, <3>1
    <3> QED
      BY <1>1, <2>1, <3>1, <3>2, TailOrder
  <2>2. CASE Len(c.order) # MaxInMemory
    BY <1>1, <2>2 DEF KeptOrder
  <2> QED
    BY <2>1, <2>2
<1> DEFINE e == [c EXCEPT !.loaded = ToSet(o) \cup {k}, !.order = o]
<1>3. StoreInMemory(c, k) = Touch(UsedNow(e, k), k)
  <2> DEFINE excess == Cardinality(c.loaded) - MaxInMemory + 1
             evicted == IF excess > 0 THEN {c.order[i] : i \in 1 .. excess} \ {k} ELSE {}
             kept == IF excess > 0 THEN SubSeq(c.order, excess + 1, Len(c.order)) ELSE c.order
  <2>1. CASE Len(c.order) = MaxInMemory
    <3>1. excess = 1
      BY <1>1, <2>1
    <3> HIDE DEF excess
    <3>2. c.order # << >> /\ 1 \in 1 .. Len(c.order)
      BY <1>1, <2>1
    <3>3. kept = Tail(c.order) /\ o = Tail(c.order)
      BY <1>1, <2>1, <3>1, <3>2, TailOrder DEF KeptOrder
    <3>4. c.order[1] \in c.loaded
      BY <1>1, <3>2, Positions
    <3>5. evicted = {c.order[1]}
      BY <1>1, <3>1, <3>4
    <3>6. c.loaded \ evicted = ToSet(o)
      BY <1>1, <3>2, <3>3, <3>5, TailOrder
    <3> QED
      BY <3>3, <3>6 DEF StoreInMemory, excess
  <2>2. CASE Len(c.order) # MaxInMemory
    <3>1. ~(excess > 0)
      BY <1>1, <2>2
    <3>2. evicted = {} /\ kept = c.order /\ o = c.order
      BY <3>1, <2>2 DEF KeptOrder
    <3>3. c.loaded \ evicted = ToSet(o)
      BY <1>1, <3>2
    <3> QED
      BY <3>2, <3>3 DEF StoreInMemory
  <2> QED
    BY <2>1, <2>2
<1>4. LET t == Append(RemoveFirst(o, k), k)
      IN  /\ t \in Seq(Chunks)
          /\ IsInjective(t)
          /\ ToSet(t) = ToSet(o) \cup {k}
          /\ t = Append(o, k)
          /\ MovedToEnd(o, t, k)
  <2>1. k \notin ToSet(o)
    BY <1>1, <1>2
  <2> HIDE DEF o
  <2> QED
    BY <1>1, <1>2, <2>1, TouchedOrder
<1>5. Len(Append(o, k)) <= MaxInMemory
  <2> HIDE DEF o
  <2>1. Len(Append(o, k)) = Len(o) + 1
    BY <1>1, <1>2
  <2> QED
    BY <1>1, <1>2, <2>1
\* The order without the oldest lists the uses of what is kept.
<1>6. InOrder(o, c.newer \cap (ToSet(o) \X ToSet(o)))
  <2>1. CASE Len(c.order) = MaxInMemory
    <3>1. o = Tail(c.order) /\ c.order # << >>
      BY <1>1, <2>1 DEF KeptOrder
    <3> HIDE DEF o
    <3> QED
      BY <1>1, <3>1, TailUses
  <2>2. CASE Len(c.order) # MaxInMemory
    <3>1. o = c.order
      BY <2>2 DEF KeptOrder
    <3>2. c.newer \subseteq ToSet(c.order) \X ToSet(c.order)
      BY <1>1, UsesOrdered
    <3>3. c.newer \cap (ToSet(c.order) \X ToSet(c.order)) = c.newer
      BY <3>2
    <3> QED
      BY <1>1, <3>1, <3>3
  <2> QED
    BY <2>1, <2>2
<1>7. \/ Cardinality(c.loaded) < MaxInMemory /\ ToSet(o) = c.loaded
      \/ /\ Cardinality(c.loaded) = MaxInMemory
         /\ \E oldest \in c.loaded :
                /\ \A l \in c.loaded \ {oldest} : <<oldest, l>> \in c.newer
                /\ ToSet(o) = c.loaded \ {oldest}
  <2>1. CASE Len(c.order) = MaxInMemory
    <3>1. o = Tail(c.order) /\ c.order # << >>
      BY <1>1, <2>1 DEF KeptOrder
    <3>2. /\ c.order[1] \in ToSet(c.order)
          /\ \A l \in ToSet(c.order) \ {c.order[1]} : <<c.order[1], l>> \in c.newer
      <4> HIDE DEF o
      <4> QED
        BY <1>1, <3>1, TailUses
    <3>3. ToSet(o) = c.loaded \ {c.order[1]}
      BY <1>1, <3>1, TailOrder
    <3>4. /\ c.order[1] \in c.loaded
          /\ \A l \in c.loaded \ {c.order[1]} : <<c.order[1], l>> \in c.newer
      BY <1>1, <3>2
    <3> HIDE DEF o
    <3> QED
      BY <1>1, <2>1, <3>3, <3>4
  <2>2. CASE Len(c.order) # MaxInMemory
    <3>1. o = c.order
      BY <2>2 DEF KeptOrder
    <3> HIDE DEF o
    <3> QED
      BY <1>1, <2>2, <3>1
  <2> QED
    BY <2>1, <2>2
<1> HIDE DEF o
<1>8. InOrder(Append(o, k), R)
  <2> DEFINE S == c.newer \cap (ToSet(o) \X ToSet(o))
  <2>1. ToSet(o) \ {k} = ToSet(o)
    BY <1>1, <1>2
  <2>2. Latest(S, ToSet(o), k) = R
    BY DEF Latest
  <2>3. InOrder(o, S)
    BY <1>6
  <2> HIDE DEF S, R
  <2>4. InOrder(Append(o, k), Latest(S, ToSet(o) \ {k}, k))
    BY <1>1, <1>2, <1>4, <2>3, MovedUses
  <2> QED
    BY <2>1, <2>2, <2>4
<1>9. R \subseteq Chunks \X Chunks
  BY <1>8 DEF InOrder
<1>10. UsedNow(e, k) = [c EXCEPT !.loaded = ToSet(o) \cup {k}, !.order = o, !.newer = R]
  <2>1. e.loaded \ {k} = ToSet(o) /\ e.newer = c.newer
    BY <1>1, <1>2 DEF SettledCache, CacheType
  <2> QED
    BY <2>1 DEF UsedNow, Latest, SettledCache, CacheType
<1> HIDE DEF e
<1>11. StoreInMemory(c, k) =
          [c EXCEPT !.loaded = ToSet(o) \cup {k}, !.order = Append(o, k), !.newer = R]
  <2> HIDE DEF R
  <2> QED
    BY <1>3, <1>4, <1>10 DEF Touch, SettledCache, CacheType
<1>12. Cardinality(ToSet(o) \cup {k}) <= MaxInMemory
  BY <1>1, <1>4, <1>5, OrderCounts
<1>13. Stored(c, k, StoreInMemory(c, k))
  <2>1. /\ StoreInMemory(c, k).loaded = ToSet(o) \cup {k}
        /\ StoreInMemory(c, k).newer = (c.newer \cap (ToSet(o) \X ToSet(o))) \cup (ToSet(o) \X {k})
    BY <1>11 DEF SettledCache, CacheType, Latest
  <2>2. ToSet(o) \in SUBSET c.loaded
    BY <1>2
  <2>3. IF Cardinality(c.loaded) < MaxInMemory
        THEN ToSet(o) = c.loaded
        ELSE \E oldest \in c.loaded :
                 /\ \A l \in c.loaded \ {oldest} : <<oldest, l>> \in c.newer
                 /\ ToSet(o) = c.loaded \ {oldest}
    BY <1>1, <1>7
  <2> QED
    BY <2>1, <2>2, <2>3 DEF Stored
<1>14. StoreInMemory(c, k) \in CacheType
  <2> HIDE DEF R
  <2> QED
    BY <1>1, <1>2, <1>4, <1>9, <1>11 DEF SettledCache, CacheType
<1> HIDE DEF R
<1> QED
  BY <1>1, <1>2, <1>4, <1>8, <1>11, <1>12, <1>13, <1>14 DEF SettledCache, CacheType, o, R

LEMMA AnsweredCache ==
    ASSUME NEW c, SettledCache(c), NEW k \in c.loading
    PROVE  LET d == Answered(c, k)
           IN  /\ SettledCache(d)
               /\ k \in d.loaded
               /\ d.loaded \subseteq c.loaded \cup {k}
               /\ c.loading \ {k} \subseteq d.loading
               /\ Stored(c, k, d)
<1> DEFINE s == StoreInMemory(c, k)
           t == Settled(s, k)
<1>1. /\ s = [c EXCEPT !.loaded = ToSet(KeptOrder(c)) \cup {k},
                        !.order = Append(KeptOrder(c), k),
                        !.newer = Latest(@, ToSet(KeptOrder(c)), k)]
      /\ s \in CacheType
      /\ ToSet(s.order) = s.loaded
      /\ IsInjective(s.order)
      /\ InOrder(s.order, s.newer)
      /\ Cardinality(s.loaded) <= MaxInMemory
      /\ ToSet(KeptOrder(c)) \subseteq c.loaded
      /\ Stored(c, k, s)
  BY StoredCache
<1> HIDE DEF s
<1>2. t = [s EXCEPT !.loading = @ \ {k}, !.prefetches = @ \ {k},
                    !.prefetching = IF k \in s.prefetches THEN None ELSE @]
  BY DEF Settled
<1> HIDE DEF t
<1>3. /\ s.loaded \subseteq c.loaded \cup {k}
      /\ k \in s.loaded
      /\ s.loading = c.loading
      /\ s.prefetches = c.prefetches
      /\ s.late = c.late
  BY <1>1 DEF SettledCache, CacheType
<1>4. /\ CacheInv(t) /\ t.order = s.order /\ t.loading = c.loading \ {k} /\ t.loaded = s.loaded
      /\ t.newer = s.newer
  <2>1. /\ t \in CacheType
        /\ t.order = s.order /\ t.loaded = s.loaded /\ t.newer = s.newer
        /\ t.loading = s.loading \ {k} /\ t.prefetches = s.prefetches \ {k} /\ t.late = s.late
    <3>1. s \in CacheType
      BY <1>1
    <3> QED
      BY <3>1, <1>2 DEF CacheType
  <2>2. c.loaded \cap c.loading = {} /\ c.late \cup c.prefetches \subseteq c.loading
    BY DEF SettledCache, CacheConsistentIn
  <2>3. /\ t.loaded \cap t.loading = {}
        /\ t.prefetches \subseteq t.loading
        /\ t.late \subseteq t.loading \cup t.loaded
    BY <1>3, <2>1, <2>2
  <2> QED
    BY <1>1, <1>3, <2>1, <2>3 DEF CacheInv
<1>5. Answered(c, k) = Continue(t)
  BY DEF Answered, s, t
<1> DEFINE d == Answered(c, k)
<1>6. /\ SettledCache(d) /\ d.loaded = t.loaded /\ t.loading \subseteq d.loading
      /\ d.newer = t.newer
  BY <1>4, <1>5, ContinuedCache DEF Used
<1> HIDE DEF d
<1>7. Stored(c, k, d)
  BY <1>1, <1>4, <1>6 DEF Stored
<1> QED
  BY <1>3, <1>4, <1>6, <1>7 DEF d

LEMMA FailedCache ==
    ASSUME NEW c, SettledCache(c), NEW k \in c.loading
    PROVE  LET d == Failed(c, k)
           IN  /\ SettledCache(d)
               /\ d.newer = c.newer
               /\ d.loaded = c.loaded
               /\ d.loading = c.loading \ {k}
  BY DEF Failed, Settled, SettledCache, CacheType, CacheConsistentIn

(***************************************************************************)
(* The engine. Its operators work on any engine e of the type below, on    *)
(* which no bound is set but the model's own types; r is what constrains   *)
(* playback, a range that may lie anywhere.                                *)
(***************************************************************************)
Bounds == Ranges \cup {None}

EngineInv(e) ==
    /\ e \in [frame: Frames, endFrame: {0, EndFrame}, playing: BOOLEAN, tracked: BOOLEAN,
              stray: Nat, shown: [frame: Frames, ids: SUBSET Entities],
              follow: Entities \cup {None}, cache: CacheType]
    /\ CacheInv(e.cache)

\* What every operator keeps; what is loaded whole has no chunks to ask for.
Moved(e, d) ==
    /\ EngineInv(d)
    /\ d.endFrame = e.endFrame
    /\ Used(e.cache, d.cache)
    /\ ~session.stream /\ e.cache.loaded = {} => d.cache.loading = e.cache.loading

\* No callback is asked for or taken back, except that playback may stop.
Quiet(e, d) ==
    /\ d.stray = e.stray
    /\ d.playing => e.playing /\ d.tracked = e.tracked

Looping(e) == e.playing => e.tracked \/ e.stray > 0

Within(e, r) == r # None => e.frame \in Nearest(r.in) .. Nearest(r.out)

ShowsFrame(e) ==
    session.stream /\ ChunkOf(e.frame) \in e.cache.loaded =>
        e.shown = [frame |-> e.frame, ids |-> Alive(e.frame)]

\* The two modules count alike.
LEMMA CountedAlike == ASSUME NEW S PROVE Lru!Cardinality(S) = Cardinality(S)
  BY DEF Lru!Cardinality, Cardinality

LEMMA MovedTransitive ==
    ASSUME NEW c, NEW d, NEW e, Moved(c, d), Moved(d, e) PROVE Moved(c, e)
<1>1. Used(c.cache, d.cache) /\ Used(d.cache, e.cache)
  BY DEF Moved
<1>2. Used(c.cache, e.cache)
  BY <1>1, UsedTransitive
<1>3. d.cache.loaded = c.cache.loaded
  BY <1>1 DEF Used
<1> QED
  BY <1>2, <1>3 DEF Moved

LEMMA QuietTransitive ==
    ASSUME NEW c, NEW d, NEW e, Quiet(c, d), Quiet(d, e) PROVE Quiet(c, e)
  BY DEF Quiet

LEMMA NotMoved == ASSUME NEW e, EngineInv(e) PROVE Moved(e, e) /\ Quiet(e, e)
  BY DEF Moved, Quiet, Used, EngineInv

LEMMA Computed ==
    ASSUME NEW e, EngineInv(e), NEW f \in Frames
    PROVE  LET d == Compute(e, f)
           IN  Moved(e, d) /\ Quiet(e, d) /\ d.frame = e.frame /\ d.cache = e.cache
<1>1. Alive(f) \subseteq Entities
  BY DEF Alive
<1> DEFINE ids == IF ~session.stream \/ ChunkOf(f) \in e.cache.loaded THEN Alive(f) ELSE {}
<1>2. ids \subseteq Entities
  BY <1>1
<1>3. Compute(e, f) = [e EXCEPT !.shown = [frame |-> f, ids |-> ids]]
  BY DEF Compute
<1> HIDE DEF ids
<1> QED
  BY <1>2, <1>3 DEF EngineInv, Moved, Quiet, Used

LEMMA Paused ==
    ASSUME NEW e, EngineInv(e)
    PROVE  LET d == Pause(e)
           IN  Moved(e, d) /\ Quiet(e, d) /\ d.frame = e.frame /\ ~d.playing
  BY DEF Pause, EngineInv, Moved, Quiet, Used

LEMMA Requested ==
    ASSUME NEW e, EngineInv(e)
    PROVE  LET d == RequestFrame(e)
           IN  Moved(e, d) /\ d.frame = e.frame /\ d.tracked
<1> DEFINE n == IF e.tracked THEN e.stray + 1 ELSE e.stray
<1>1. n \in Nat
  BY DEF EngineInv
<1>2. RequestFrame(e) = [e EXCEPT !.tracked = TRUE, !.stray = n]
  BY DEF RequestFrame
<1> HIDE DEF n
<1> QED
  BY <1>1, <1>2 DEF EngineInv, Moved, Used

LEMMA Stopped ==
    ASSUME NEW e, EngineInv(e)
    PROVE  LET d == Stop(e)
           IN  Moved(e, d) /\ Quiet(e, d) /\ d.frame = e.frame /\ ~d.playing /\ d.cache = e.cache
  BY DEF Stop, EngineInv, Moved, Quiet, Used

LEMMA Ensured ==
    ASSUME NEW e, EngineInv(e), NEW f \in Frames
    PROVE  LET d == Ensure(e, f)
           IN  Moved(e, d) /\ Quiet(e, d) /\ d.frame = e.frame
<1>1. CacheInv(EnsureLoaded(e.cache, f)) /\ Used(e.cache, EnsureLoaded(e.cache, f))
  BY EnsuredCache DEF EngineInv
<1>2. EnsureLoaded(e.cache, f) \in CacheType
  BY <1>1 DEF CacheInv
<1>3. CASE session.stream /\ e.endFrame > 0
  <2>1. Ensure(e, f) = [e EXCEPT !.cache = EnsureLoaded(e.cache, f)]
    BY <1>3 DEF Ensure, EngineInv
  <2> QED
    BY <1>1, <1>2, <1>3, <2>1 DEF EngineInv, Moved, Quiet
<1>4. CASE ~(session.stream /\ e.endFrame > 0)
  BY <1>4, NotMoved DEF Ensure
<1> QED
  BY <1>3, <1>4

\* A seek ends on the frame it is given, kept within the recording.
Clamped(e, f) == Larger(0, Smaller(f, e.endFrame))

LEMMA ClampedFrame ==
    ASSUME NEW e, EngineInv(e), NEW f \in Int
    PROVE  /\ Clamped(e, f) \in Frames
           /\ Clamped(e, f) \in 0 .. e.endFrame
           /\ f \in 0 .. e.endFrame => Clamped(e, f) = f
  BY CacheAssumption DEF Clamped, Larger, Smaller, EngineInv, Frames

LEMMA FrameSet ==
    ASSUME NEW e, EngineInv(e), NEW f \in Frames
    PROVE  LET d == [e EXCEPT !.frame = f]
           IN  Moved(e, d) /\ Quiet(e, d) /\ d.frame = f
  BY DEF EngineInv, Moved, Quiet, Used

LEMMA PlainlySought ==
    ASSUME NEW e, EngineInv(e), NEW f \in Int
    PROVE  LET d == PlainSeek(e, f)
           IN  Moved(e, d) /\ Quiet(e, d) /\ d.frame = Clamped(e, f)
<1> DEFINE g == Clamped(e, f)
           e1 == [e EXCEPT !.frame = g]
           e2 == Compute(e1, g)
           e3 == Ensure(e2, g)
<1>1. g \in Frames
  BY ClampedFrame
<1>2. PlainSeek(e, f) = e3
  BY DEF PlainSeek, Clamped
<1> HIDE DEF g
<1>3. Moved(e, e1) /\ Quiet(e, e1) /\ e1.frame = g
  BY <1>1, FrameSet
<1> HIDE DEF e1
<1>4. Moved(e1, e2) /\ Quiet(e1, e2) /\ e2.frame = g
  BY <1>1, <1>3, Computed DEF Moved
<1> HIDE DEF e2
<1>5. Moved(e2, e3) /\ Quiet(e2, e3) /\ e3.frame = g
  BY <1>1, <1>4, Ensured DEF Moved
<1> HIDE DEF e3
<1> QED
  BY <1>2, <1>3, <1>4, <1>5, MovedTransitive, QuietTransitive DEF g

\* The focus effect leaves the engine within the range.
LEMMA ClampedEngine ==
    ASSUME NEW e, EngineInv(e), NEW r \in Bounds
    PROVE  LET d == Clamp(e, r)
           IN  /\ Moved(e, d) /\ Quiet(e, d)
               /\ e.endFrame = EndFrame => Within(d, r)
<1>1. CASE r = None
  BY <1>1, NotMoved DEF Clamp, Within
<1>2. CASE r # None
  <2> DEFINE paused == IF e.frame >= r.out THEN Pause(e) ELSE e
             g == Larger(r.in, Smaller(r.out, e.frame))
  <2>1. Moved(e, paused) /\ Quiet(e, paused) /\ paused.frame = e.frame
    BY Paused, NotMoved
  <2>0. r.in \in Int /\ r.out \in Int /\ r.in < r.out /\ e.frame \in 0 .. EndFrame
    BY <1>2 DEF Bounds, Ranges, Drafts, EngineInv, Frames
  <2>2. /\ g \in Int /\ g \in r.in .. r.out
        /\ Nearest(g) \in Nearest(r.in) .. Nearest(r.out)
        /\ g = e.frame => Nearest(g) = e.frame
    BY <2>0, CacheAssumption DEF Larger, Smaller, Nearest
  <2>3. Clamp(e, r) = IF g = e.frame THEN paused ELSE PlainSeek(paused, g)
    BY <1>2 DEF Clamp
  <2> HIDE DEF paused, g
  <2>4. CASE g = e.frame
    BY <2>1, <2>2, <2>3, <2>4 DEF Within
  <2>5. CASE g # e.frame
    <3> DEFINE d == PlainSeek(paused, g)
    <3>1. EngineInv(paused) /\ paused.endFrame = e.endFrame
      BY <2>1 DEF Moved
    <3>2. Moved(paused, d) /\ Quiet(paused, d) /\ d.frame = Clamped(paused, g)
      BY <2>2, <3>1, PlainlySought
    <3> HIDE DEF d
    <3>3. Moved(e, d) /\ Quiet(e, d)
      BY <2>1, <3>2, MovedTransitive, QuietTransitive
    <3>4. e.endFrame = EndFrame => d.frame = Nearest(g)
      BY <3>1, <3>2 DEF Clamped, Nearest
    <3> QED
      BY <2>2, <2>3, <2>5, <3>3, <3>4 DEF Within, d
  <2> QED
    BY <2>4, <2>5
<1> QED
  BY <1>1, <1>2

LEMMA FrameSetWithin ==
    ASSUME NEW e, EngineInv(e), NEW r \in Bounds, NEW f \in Frames
    PROVE  LET d == SetFrame(e, r, f)
           IN  /\ Moved(e, d) /\ Quiet(e, d)
               /\ e.endFrame = EndFrame /\ Within(e, r) => Within(d, r)
<1>1. CASE f = e.frame
  BY <1>1, NotMoved DEF SetFrame
<1>2. CASE f # e.frame
  <2> DEFINE e1 == [e EXCEPT !.frame = f]
             d == Clamp(e1, r)
  <2>1. Moved(e, e1) /\ Quiet(e, e1)
    BY FrameSet
  <2>2. SetFrame(e, r, f) = d
    BY <1>2 DEF SetFrame
  <2> HIDE DEF e1
  <2>3. Moved(e1, d) /\ Quiet(e1, d) /\ (e1.endFrame = EndFrame => Within(d, r))
    BY <2>1, ClampedEngine DEF Moved
  <2> HIDE DEF d
  <2> QED
    BY <2>1, <2>2, <2>3, MovedTransitive, QuietTransitive DEF Moved
<1> QED
  BY <1>1, <1>2

LEMMA Sought ==
    ASSUME NEW e, EngineInv(e), NEW r \in Bounds, NEW f \in Int
    PROVE  LET d == SeekTo(e, r, f)
           IN  /\ Moved(e, d) /\ Quiet(e, d)
               /\ e.endFrame = EndFrame /\ Within(e, r) => Within(d, r)
<1> DEFINE g == Clamped(e, f)
           e1 == SetFrame(e, r, g)
           e2 == Compute(e1, g)
           e3 == Ensure(e2, g)
<1>1. g \in Frames
  BY ClampedFrame
<1>2. SeekTo(e, r, f) = e3
  BY DEF SeekTo, Clamped
<1> HIDE DEF g
<1>3. /\ Moved(e, e1) /\ Quiet(e, e1)
      /\ e.endFrame = EndFrame /\ Within(e, r) => Within(e1, r)
  BY <1>1, FrameSetWithin
<1> HIDE DEF e1
<1>4. Moved(e1, e2) /\ Quiet(e1, e2) /\ e2.frame = e1.frame
  BY <1>1, <1>3, Computed DEF Moved
<1> HIDE DEF e2
<1>5. Moved(e2, e3) /\ Quiet(e2, e3) /\ e3.frame = e2.frame
  BY <1>1, <1>4, Ensured DEF Moved
<1> HIDE DEF e3
<1>6. Moved(e, e3) /\ Quiet(e, e3)
  BY <1>3, <1>4, <1>5, MovedTransitive, QuietTransitive
<1> QED
  BY <1>2, <1>3, <1>4, <1>5, <1>6 DEF Within

LEMMA Advanced ==
    ASSUME NEW e, EngineInv(e), NEW r \in Bounds, NEW f \in Frames
    PROVE  LET d == AdvanceTo(e, r, f)
           IN  /\ Moved(e, d)
               /\ e.endFrame = EndFrame /\ Within(e, r) => Within(d, r)
<1> DEFINE e1 == SetFrame(e, r, f)
           e2 == Ensure(e1, f)
           e3 == Compute(e2, f)
           d == IF e3.follow \in e3.shown.ids THEN e3 ELSE [e3 EXCEPT !.follow = None]
<1>1. AdvanceTo(e, r, f) = d
  BY DEF AdvanceTo
<1>2. /\ Moved(e, e1)
      /\ e.endFrame = EndFrame /\ Within(e, r) => Within(e1, r)
  BY FrameSetWithin
<1> HIDE DEF e1
<1>3. Moved(e1, e2) /\ e2.frame = e1.frame
  BY <1>2, Ensured DEF Moved
<1> HIDE DEF e2
<1>4. Moved(e2, e3) /\ e3.frame = e2.frame
  BY <1>3, Computed DEF Moved
<1> HIDE DEF e3
<1>5. Moved(e3, d) /\ d.frame = e3.frame
  BY <1>4 DEF Moved, EngineInv, Used
<1> HIDE DEF d
<1>6. Moved(e, d)
  BY <1>2, <1>3, <1>4, <1>5, MovedTransitive
<1> QED
  BY <1>1, <1>2, <1>3, <1>4, <1>5, <1>6 DEF Within

\* When the handler has ended: the cache is settled, the current frame shown.
LEMMA Ended ==
    ASSUME NEW e, EngineInv(e)
    PROVE  LET d == After(e)
           IN  /\ Moved(e, d) /\ Quiet(e, d) /\ d.frame = e.frame
               /\ d.cache.newer = e.cache.newer
               /\ SettledCache(d.cache)
               /\ ShowsFrame(d)
<1> DEFINE found == session.stream /\ ChunkOf(e.frame) \in e.cache.loaded
           e1 == IF found THEN Compute(e, e.frame) ELSE e
           c == Continue(e1.cache)
           d == [e1 EXCEPT !.cache = c]
<1>0. e.frame \in Frames
  BY DEF EngineInv
<1>1. Moved(e, e1) /\ Quiet(e, e1) /\ e1.frame = e.frame /\ e1.cache = e.cache
  BY <1>0, Computed, NotMoved
<1>2. found => e1.shown = [frame |-> e1.frame, ids |-> Alive(e1.frame)]
  BY <1>1 DEF Compute, EngineInv
<1>3. After(e) = d
  BY <1>1 DEF After, Moved, EngineInv
<1> HIDE DEF e1
<1>4. EngineInv(e1)
  BY <1>1 DEF Moved
<1>5. SettledCache(c) /\ Used(e1.cache, c) /\ c.newer = e1.cache.newer
  BY <1>4, ContinuedCache DEF EngineInv
<1>6. CacheInv(c) /\ c \in CacheType
  BY <1>5, SettledIsInv DEF SettledCache
<1>7. e1.cache.loaded = {} => c.loading = e1.cache.loading
  BY <1>4 DEF Continue, CheckPrefetch, EngineInv, CacheType
<1> HIDE DEF c
<1>8. Moved(e1, d) /\ Quiet(e1, d) /\ d.frame = e1.frame /\ d.cache = c /\ d.shown = e1.shown
  BY <1>4, <1>5, <1>6, <1>7 DEF EngineInv, Moved, Quiet
<1> HIDE DEF d
<1>9. ShowsFrame(d)
  BY <1>1, <1>2, <1>5, <1>8 DEF ShowsFrame, Used
<1> QED
  BY <1>1, <1>3, <1>5, <1>8, <1>9, MovedTransitive, QuietTransitive

LEMMA Played ==
    ASSUME NEW e, EngineInv(e), Looping(e), NEW r \in Bounds
    PROVE  LET d == Play(e, r)
           IN  /\ Moved(e, d) /\ Looping(d)
               /\ e.endFrame = EndFrame /\ Within(e, r) => Within(d, r)
<1>1. CASE e.playing \/ e.frame >= e.endFrame
  BY <1>1, NotMoved DEF Play
<1>2. CASE ~(e.playing \/ e.frame >= e.endFrame)
  <2> DEFINE e1 == [e EXCEPT !.playing = TRUE]
             e2 == Clamp(e1, r)
             d == RequestFrame(e2)
  <2>1. Moved(e, e1)
    BY DEF EngineInv, Moved, Used
  <2>2. Play(e, r) = d
    BY <1>2 DEF Play
  <2> HIDE DEF e1
  <2>3. Moved(e1, e2) /\ (e1.endFrame = EndFrame => Within(e2, r))
    BY <2>1, ClampedEngine DEF Moved
  <2> HIDE DEF e2
  <2>4. Moved(e2, d) /\ d.frame = e2.frame /\ d.tracked
    BY <2>3, Requested DEF Moved
  <2> HIDE DEF d
  <2>5. Moved(e, d)
    BY <2>1, <2>3, <2>4, MovedTransitive
  <2> QED
    BY <2>1, <2>2, <2>3, <2>4, <2>5 DEF Looping, Within, Moved
<1> QED
  BY <1>1, <1>2

LEMMA SpeedChanged ==
    ASSUME NEW e, EngineInv(e), Looping(e)
    PROVE  LET d == SetSpeed(e)
           IN  Moved(e, d) /\ Looping(d) /\ d.frame = e.frame
<1> DEFINE e1 == [e EXCEPT !.tracked = FALSE]
           d == RequestFrame(e1)
<1>1. CASE e.playing
  <2>1. Moved(e, e1) /\ e1.frame = e.frame
    BY DEF EngineInv, Moved, Used
  <2>2. SetSpeed(e) = d
    BY <1>1 DEF SetSpeed
  <2> HIDE DEF e1
  <2>3. Moved(e1, d) /\ d.frame = e1.frame /\ d.tracked
    BY <2>1, Requested DEF Moved
  <2> HIDE DEF d
  <2> QED
    BY <2>1, <2>2, <2>3, MovedTransitive DEF Looping
<1>2. CASE ~e.playing
  BY <1>2, NotMoved DEF SetSpeed
<1> QED
  BY <1>1, <1>2

\* Whatever was pending before, after its frame a playing engine has asked for
\* the next one.
LEMMA FramePassed ==
    ASSUME NEW e, EngineInv(e), NEW r \in Bounds, NEW n \in Nat
    PROVE  LET d == OnFrame(e, r, n)
           IN  /\ Moved(e, d) /\ Looping(d)
               /\ e.endFrame = EndFrame /\ Within(e, r) => Within(d, r)
<1> DEFINE f == Smaller(e.frame + n, e.endFrame)
           a == AdvanceTo(e, r, f)
           d == OnFrame(e, r, n)
<1>1. f \in Frames
  BY CacheAssumption DEF Smaller, EngineInv, Frames
<1> HIDE DEF f
<1>2. Moved(e, a) /\ (e.endFrame = EndFrame /\ Within(e, r) => Within(a, r))
  BY <1>1, Advanced
<1>3. \/ d = e /\ ~e.playing
      \/ d \in {RequestFrame(e), Stop(e), Stop(a), RequestFrame(a)}
  <2>1. CASE ~e.playing
    BY <2>1 DEF OnFrame
  <2>2. CASE e.playing /\ n = 0
    BY <2>2 DEF OnFrame
  <2>3. CASE e.playing /\ n # 0 /\ e.frame >= e.endFrame
    BY <2>3 DEF OnFrame
  <2>4. CASE e.playing /\ n # 0 /\ ~(e.frame >= e.endFrame)
    BY <2>4 DEF OnFrame, f
  <2> QED
    BY <2>1, <2>2, <2>3, <2>4
<1> HIDE DEF d, a
<1>4. CASE d = e /\ ~e.playing
  BY <1>4, NotMoved DEF Looping, d
<1>5. CASE d = RequestFrame(e)
  BY <1>5, Requested DEF Looping, Within, d
<1>6. CASE d = Stop(e)
  BY <1>6, Stopped DEF Looping, Within, d
<1>7. CASE d = Stop(a)
  <2>1. Moved(a, d) /\ d.frame = a.frame /\ ~d.playing
    BY <1>2, <1>7, Stopped DEF Moved
  <2> QED
    BY <1>2, <2>1, MovedTransitive DEF Looping, Within, d
<1>8. CASE d = RequestFrame(a)
  <2>1. Moved(a, d) /\ d.frame = a.frame /\ d.tracked
    BY <1>2, <1>8, Requested DEF Moved
  <2> QED
    BY <1>2, <2>1, MovedTransitive DEF Looping, Within, d
<1> QED
  BY <1>3, <1>4, <1>5, <1>6, <1>7, <1>8

(***************************************************************************)
(* The page around the engine.                                             *)
(***************************************************************************)

EngineState ==
    /\ EngineInv(eng)
    /\ SettledCache(eng.cache)
    /\ eng.stray <= MaxStray
    /\ Looping(eng)

PageState ==
    /\ page \in [phase: {"loading", "ready", "failed", "left"}, focus: Bounds,
                 draft: Drafts \cup {None}, editing: BOOLEAN, full: BOOLEAN]
    /\ saving \in [Saves -> [to: Drafts \cup {None}] \cup {None}]

OtherState ==
    /\ scrub \in ScrubType
    /\ kills \in (SUBSET Frames) \cup {None}

\* While the page loads, all it has asked for is chunk 0.
CacheOfSession ==
    /\ page.phase = "loading" /\ session.stream => 0 \in eng.cache.loading /\ eng.cache.loaded = {}
    /\ ~session.stream => eng.cache.loading = {} /\ eng.cache.loaded = {}

WhenReady ==
    page.phase = "ready" =>
        /\ eng.endFrame = EndFrame
        /\ ShowsFrame(eng)
        /\ Within(eng, Constraint(page))

PlayInv ==
    /\ session \in Sessions
    /\ EngineState /\ PageState /\ OtherState
    /\ CacheOfSession
    /\ WhenReady

\* What a step may do to the cache, in terms of the abstract memory.
CacheStep ==
    \/ Used(eng.cache, eng.cache')
    \/ \E k \in Chunks : Lru!Answer(k) \/ Lru!Give(k)

LEMMA ConstraintIsBound ==
    ASSUME PlayInv PROVE Constraint(page) \in Bounds
  BY DEF PlayInv, PageState, Constraint, Bounds

LEMMA SessionType ==
    ASSUME PlayInv PROVE /\ session.stream \in BOOLEAN /\ session.admin \in BOOLEAN
                         /\ session.focus \in Bounds
  BY SessionAssumption DEF PlayInv, Bounds

LEMMA PlayInitially == ASSUME Init PROVE PlayInv /\ Lru!Init
<1> DEFINE c == IF session.stream THEN LoadChunk(EmptyCache, 0) ELSE EmptyCache
<1>1. 0 \in Chunks /\ 0 \in Frames
  BY CacheAssumption, ChunkOfFrame DEF Chunks, ChunkCount, ChunkOf, Frames
<1>2. /\ SettledCache(c)
      /\ c.newer = {}
      /\ c.loaded = {}
      /\ session.stream => 0 \in c.loading
      /\ ~session.stream => c.loading = {}
  <2>1. EmptyCache.loaded = {} /\ EmptyCache.loading = {} /\ EmptyCache.newer = {}
    BY DEF EmptyCache
  <2>2. CASE ~session.stream
    BY <2>1, <2>2, EmptyCacheSettled
  <2>3. CASE session.stream
    <3>1. LoadChunk(EmptyCache, 0) = [EmptyCache EXCEPT !.loading = @ \cup {0}]
      BY <2>1 DEF LoadChunk
    <3>2. SettledCache(LoadChunk(EmptyCache, 0))
      <4>1. SettledCache(EmptyCache)
        BY EmptyCacheSettled
      <4> HIDE DEF c
      <4>2. ASSUME NEW e, e = EmptyCache, NEW d, d = [e EXCEPT !.loading = @ \cup {0}]
            PROVE  SettledCache(d)
        BY <1>1, <2>1, <4>1, <4>2 DEF SettledCache, CacheType, CacheConsistentIn
      <4> QED
        BY <3>1, <4>2
    <3> QED
      BY <2>1, <2>3, <3>1, <3>2 DEF EmptyCache
  <2> QED
    BY <2>2, <2>3
<1>3. eng = [frame |-> 0, endFrame |-> 0, playing |-> FALSE, tracked |-> FALSE, stray |-> 0,
             shown |-> [frame |-> 0, ids |-> {}], follow |-> None, cache |-> c]
  BY DEF Init, NewEngine
<1>4. /\ eng.cache = c /\ ~eng.playing /\ eng.stray = 0
      /\ EngineInv(eng)
  <2>1. CacheInv(c)
    BY <1>2, SettledIsInv
  <2>2. c \in CacheType
    BY <2>1 DEF CacheInv
  <2> HIDE DEF c
  <2> QED
    BY <1>1, <1>3, <2>1, <2>2 DEF EngineInv, NewEngine
<1> HIDE DEF c
<1>5. EngineState
  BY <1>2, <1>4, PlaybackAssumption DEF EngineState, Looping
<1>6. PageState /\ OtherState /\ page.phase = "loading" /\ session \in Sessions
  <2>1. /\ page = NewPage /\ scrub = NewScrub /\ kills = None /\ session \in Sessions
        /\ saving = [s \in Saves |-> None]
    BY DEF Init
  <2>2. PageState /\ page.phase = "loading"
    BY <2>1 DEF PageState, NewPage, Bounds
  <2>3. OtherState
    BY <2>1 DEF OtherState, NewScrub, ScrubType
  <2> QED
    BY <2>1, <2>2, <2>3
<1>7. CacheOfSession /\ WhenReady
  BY <1>2, <1>4, <1>6 DEF CacheOfSession, WhenReady
<1>8. Lru!Init
  BY <1>2, <1>4 DEF Lru!Init, SettledCache, CacheType
<1> QED
  BY <1>5, <1>6, <1>7, <1>8 DEF PlayInv

\* A handler that leaves the page's signals alone; e is the engine it leaves.
LEMMA EngineStep ==
    ASSUME PlayInv, NEW e, Moved(eng, e), Looping(e), Engine(e), OtherState', saving' = saving,
           eng.endFrame = EndFrame /\ Within(eng, Constraint(page)) => Within(e, Constraint(page))
    PROVE  PlayInv' /\ CacheStep
<1> DEFINE d == After(e)
<1>1. session' = session /\ page' = page /\ eng' = d /\ d.stray <= MaxStray
  BY DEF Engine
<1>2. /\ Moved(e, d) /\ Quiet(e, d) /\ d.frame = e.frame
      /\ SettledCache(d.cache)
      /\ ShowsFrame(d)
  BY Ended DEF Moved
<1> HIDE DEF d
<1>3. Moved(eng, d)
  BY <1>2, MovedTransitive
<1>4. EngineState'
  BY <1>1, <1>2, <1>3 DEF EngineState, Moved, Quiet, Looping
<1>5. PageState'
  BY <1>1 DEF PlayInv, PageState
<1>6. CacheOfSession'
  BY <1>1, <1>3 DEF PlayInv, CacheOfSession, Moved, Used
<1>7. WhenReady'
  <2> SUFFICES ASSUME page.phase = "ready"
               PROVE  /\ d.endFrame = EndFrame
                      /\ ShowsFrame(eng)'
                      /\ Within(d, Constraint(page))
    BY <1>1 DEF WhenReady, Constraint
  <2>1. eng.endFrame = EndFrame /\ Within(eng, Constraint(page))
    BY DEF PlayInv, WhenReady
  <2>2. ShowsFrame(eng)'
    BY <1>1, <1>2 DEF ShowsFrame
  <2> QED
    BY <1>2, <1>3, <2>1, <2>2 DEF Moved, Within
<1>8. CacheStep
  BY <1>1, <1>3 DEF CacheStep, Moved
<1> QED
  BY <1>1, <1>4, <1>5, <1>6, <1>7, <1>8 DEF PlayInv

\* A handler that changes them to p.
LEMMA SignalsStep ==
    ASSUME PlayInv, NEW p, Signals(p), OtherState', PageState',
           p.phase = page.phase
    PROVE  PlayInv' /\ CacheStep
<1> DEFINE r == Constraint(p)
           e == Clamp(eng, r)
           d == After(e)
<1>1. session' = session /\ page' = p /\ eng' = d
  BY DEF Signals
<1>2. r \in Bounds
  BY <1>1 DEF PageState, Constraint, Bounds
<1> HIDE DEF r
<1>3. Moved(eng, e) /\ Quiet(eng, e) /\ (eng.endFrame = EndFrame => Within(e, r))
  BY <1>2, ClampedEngine DEF PlayInv, EngineState
<1> HIDE DEF e
<1>4. /\ Moved(e, d) /\ Quiet(e, d) /\ d.frame = e.frame
      /\ SettledCache(d.cache)
      /\ ShowsFrame(d)
  BY <1>3, Ended DEF Moved
<1> HIDE DEF d
<1>5. Moved(eng, d) /\ Quiet(eng, d)
  BY <1>3, <1>4, MovedTransitive, QuietTransitive
<1>6. EngineState'
  BY <1>1, <1>4, <1>5 DEF PlayInv, EngineState, Moved, Quiet, Looping
<1>7. CacheOfSession'
  BY <1>1, <1>5 DEF PlayInv, CacheOfSession, Moved, Used
<1>8. WhenReady'
  <2> SUFFICES ASSUME p.phase = "ready"
               PROVE  /\ d.endFrame = EndFrame
                      /\ ShowsFrame(eng)'
                      /\ Within(d, r)
    BY <1>1 DEF WhenReady, Constraint, r
  <2>1. eng.endFrame = EndFrame
    BY DEF PlayInv, WhenReady
  <2>2. ShowsFrame(eng)'
    BY <1>1, <1>4 DEF ShowsFrame
  <2> QED
    BY <1>3, <1>4, <1>5, <2>1, <2>2 DEF Moved, Within
<1>9. CacheStep
  BY <1>1, <1>5 DEF CacheStep, Moved
<1> QED
  BY <1>1, <1>6, <1>7, <1>8, <1>9 DEF PlayInv

\* A handler that keeps the frame, what is shown and the cache, and at most edits
\* the draft or ends the phase.
LEMMA StillStep ==
    ASSUME PlayInv, NEW e, Moved(eng, e), Looping(e), e.stray = eng.stray, e.frame = eng.frame,
           e.shown = eng.shown, e.cache = eng.cache, eng' = e, session' = session,
           PageState', OtherState', page'.phase \in {page.phase, "failed", "left"},
           Constraint(page)' = Constraint(page)
    PROVE  PlayInv' /\ CacheStep
<1>1. EngineState'
  BY DEF PlayInv, EngineState, Moved, Looping
<1>2. CacheOfSession'
  BY DEF PlayInv, CacheOfSession
<1>3. WhenReady'
  <2> SUFFICES ASSUME page'.phase = "ready"
               PROVE  (eng.endFrame = EndFrame)' /\ ShowsFrame(eng)' /\ Within(eng, Constraint(page))'
    BY DEF WhenReady
  <2>1. eng.endFrame = EndFrame /\ ShowsFrame(eng) /\ Within(eng, Constraint(page))
    BY DEF PlayInv, WhenReady
  <2>2. (eng.endFrame = EndFrame)' /\ ShowsFrame(eng)'
    BY <2>1 DEF Moved, ShowsFrame
  <2>3. Within(eng, Constraint(page))'
    BY <2>1 DEF Within
  <2> QED
    BY <2>2, <2>3
<1>4. CacheStep
  BY DEF CacheStep, Moved
<1> QED
  BY <1>1, <1>2, <1>3, <1>4 DEF PlayInv

LEMMA UnchangedEngine ==
    ASSUME PlayInv, eng' = eng, session' = session, PageState', OtherState',
           page'.phase \in {page.phase, "failed", "left"}, Constraint(page)' = Constraint(page)
    PROVE  PlayInv' /\ CacheStep
<1>1. Moved(eng, eng) /\ Looping(eng)
  BY NotMoved DEF PlayInv, EngineState
<1> QED
  BY <1>1, StillStep

LEMMA LoadedEngineInv ==
    ASSUME PlayInv, page.phase = "loading"
    PROVE  /\ EngineInv(LoadedEngine)
           /\ LoadedEngine.endFrame = EndFrame
           /\ LoadedEngine.stray = 0
           /\ ~LoadedEngine.playing
           /\ SettledCache(LoadedEngine.cache)
           /\ ~session.stream => Used(eng.cache, LoadedEngine.cache) /\ LoadedEngine.cache.loading = {}
           /\ session.stream => /\ 0 \in eng.cache.loading
                               /\ LoadedEngine.cache.loaded = {0}
                               /\ eng.cache.loading \ {0} \subseteq LoadedEngine.cache.loading
<1> DEFINE c == IF session.stream THEN Answered(eng.cache, 0) ELSE EmptyCache
           e == [NewEngine EXCEPT !.endFrame = EndFrame, !.cache = c]
<1>1. eng.cache.loaded = {} /\ SettledCache(eng.cache)
  BY SessionType DEF PlayInv, EngineState, CacheOfSession
<1>2. eng.cache.newer = {}
  BY <1>1, SettledUses
<1>3. /\ SettledCache(c)
      /\ ~session.stream => Used(eng.cache, c) /\ c.loading = {}
      /\ session.stream => /\ 0 \in eng.cache.loading
                          /\ c.loaded = {0}
                          /\ eng.cache.loading \ {0} \subseteq c.loading
  <2>1. CASE ~session.stream
    <3>1. eng.cache.loading = {}
      BY <2>1 DEF PlayInv, CacheOfSession
    <3>2. c = EmptyCache
      BY <2>1
    <3>3. c.loaded = {} /\ c.newer = {} /\ c.loading = {}
      BY <3>2 DEF EmptyCache
    <3>4. Used(eng.cache, c)
      BY <1>1, <1>2, <3>1, <3>3 DEF Used
    <3> QED
      BY <2>1, <3>2, <3>3, <3>4, EmptyCacheSettled
  <2>2. CASE session.stream
    <3>1. 0 \in eng.cache.loading
      BY <2>2 DEF PlayInv, CacheOfSession
    <3>2. c = Answered(eng.cache, 0)
      BY <2>2
    <3> HIDE DEF c
    <3>3. /\ SettledCache(c)
          /\ 0 \in c.loaded
          /\ c.loaded \subseteq eng.cache.loaded \cup {0}
          /\ eng.cache.loading \ {0} \subseteq c.loading
      BY <1>1, <3>1, <3>2, AnsweredCache
    <3>4. c.loaded = {0}
      BY <1>1, <3>3
    <3> QED
      BY <2>2, <3>1, <3>3, <3>4
  <2> QED
    BY <2>1, <2>2
<1>4. LoadedEngine = Compute(e, 0)
  BY DEF LoadedEngine
<1>5. CacheInv(c) /\ c \in CacheType
  BY <1>3, SettledIsInv DEF SettledCache
<1> HIDE DEF c
<1>6. 0 \in Frames
  BY CacheAssumption DEF Frames
<1>7. EngineInv(e)
  BY <1>5, <1>6 DEF EngineInv, NewEngine
<1>8. e.cache = c /\ e.stray = 0 /\ ~e.playing /\ e.endFrame = EndFrame
  BY DEF NewEngine
<1> HIDE DEF e
<1>9. Moved(e, LoadedEngine) /\ Quiet(e, LoadedEngine) /\ LoadedEngine.cache = c
  BY <1>4, <1>6, <1>7, <1>8, Computed
<1> QED
  BY <1>3, <1>8, <1>9 DEF Moved, Quiet

LEMMA LoadStep == ASSUME PlayInv, Load PROVE PlayInv' /\ CacheStep
<1> DEFINE p == [page EXCEPT !.phase = "ready", !.focus = session.focus]
           r == Constraint(p)
           e1 == Clamp(LoadedEngine, r)
           e2 == IF p.focus = None THEN e1 ELSE SeekTo(e1, r, p.focus.in)
           d == After(e2)
<1>1. /\ page.phase = "loading"
      /\ page' = p
      /\ eng' = d
      /\ UNCHANGED <<session, scrub, kills, saving>>
  BY DEF Load
<1>2. p.focus \in Bounds /\ r \in Bounds
  BY SessionType DEF PlayInv, PageState, Constraint, Bounds
<1> HIDE DEF r
<1>3. /\ EngineInv(LoadedEngine)
      /\ LoadedEngine.endFrame = EndFrame
      /\ LoadedEngine.stray = 0
      /\ ~LoadedEngine.playing
  BY <1>1, LoadedEngineInv
<1>4. Moved(LoadedEngine, e1) /\ Quiet(LoadedEngine, e1) /\ Within(e1, r)
  BY <1>2, <1>3, ClampedEngine
<1> HIDE DEF e1
<1>5. Moved(e1, e2) /\ Quiet(e1, e2) /\ Within(e2, r)
  <2>1. EngineInv(e1) /\ e1.endFrame = EndFrame
    BY <1>3, <1>4 DEF Moved
  <2>2. CASE p.focus = None
    BY <1>4, <2>1, <2>2, NotMoved
  <2>3. CASE p.focus # None
    <3>1. p.focus.in \in Int
      BY <1>2, <2>3 DEF Bounds, Ranges, Drafts
    <3> HIDE DEF p
    <3> QED
      BY <1>2, <1>4, <2>1, <2>3, <3>1, Sought
  <2> QED
    BY <2>2, <2>3
<1> HIDE DEF e2
<1>6. /\ Moved(e2, d) /\ Quiet(e2, d) /\ d.frame = e2.frame
      /\ SettledCache(d.cache)
      /\ ShowsFrame(d)
  BY <1>5, Ended DEF Moved
<1> HIDE DEF d
<1>7. Moved(LoadedEngine, d) /\ Quiet(LoadedEngine, d)
  BY <1>4, <1>5, <1>6, MovedTransitive, QuietTransitive
<1>8. EngineState'
  BY <1>1, <1>3, <1>6, <1>7, PlaybackAssumption DEF EngineState, Moved, Quiet, Looping
<1>9. PageState' /\ OtherState'
  BY <1>1, <1>2 DEF PlayInv, PageState, OtherState
<1>10. WhenReady'
  <2>1. d.endFrame = EndFrame
    BY <1>3, <1>7 DEF Moved
  <2>2. ShowsFrame(eng)'
    BY <1>1, <1>6 DEF ShowsFrame
  <2>3. Within(d, r)
    BY <1>5, <1>6 DEF Within
  <2>4. Constraint(page)' = r
    BY <1>1 DEF Constraint, r
  <2>5. Within(eng, Constraint(page))'
    BY <1>1, <2>3, <2>4 DEF Within
  <2> QED
    BY <1>1, <2>1, <2>2, <2>5 DEF WhenReady
<1>11. CacheOfSession'
  <2>1. page'.phase # "loading"
    BY <1>1 DEF PlayInv, PageState
  <2>2. CASE session.stream
    BY <1>1, <2>1, <2>2 DEF CacheOfSession
  <2>3. CASE ~session.stream
    <3>1. LoadedEngine.cache.loading = {} /\ LoadedEngine.cache.loaded = {}
      BY <1>1, <2>3, LoadedEngineInv DEF PlayInv, CacheOfSession, Used
    <3>2. d.cache.loading = {} /\ d.cache.loaded = {}
      BY <1>7, <2>3, <3>1 DEF Moved, Used
    <3> QED
      BY <1>1, <2>1, <2>3, <3>2 DEF CacheOfSession
  <2> QED
    BY <2>2, <2>3
<1>12. CacheStep
  <2>1. CASE ~session.stream
    <3>1. Used(eng.cache, LoadedEngine.cache)
      BY <1>1, <2>1, LoadedEngineInv
    <3>2. Used(eng.cache, d.cache)
      BY <1>7, <3>1, UsedTransitive DEF Moved
    <3> QED
      BY <1>1, <3>2 DEF CacheStep
  <2>2. CASE session.stream
    <3>1. /\ 0 \in eng.cache.loading
          /\ LoadedEngine.cache.loaded = {0}
          /\ eng.cache.loading \ {0} \subseteq LoadedEngine.cache.loading
      BY <1>1, <2>2, LoadedEngineInv
    <3>2. eng.cache.loaded = {} /\ 0 \in Chunks
      BY <1>1, <2>2, <3>1 DEF PlayInv, CacheOfSession, EngineState, EngineInv, CacheType
    <3>3. d.cache.loaded = {0}
      BY <1>7, <3>1 DEF Moved, Used
    <3>4. d.cache.newer = {}
      BY <1>6, <3>3, SettledUses
    <3>5. d.cache.loading \cap d.cache.loaded = {}
      BY <1>6 DEF SettledCache, CacheConsistentIn
    <3>6. eng.cache.loading \ {0} \subseteq d.cache.loading
      BY <1>7, <3>1 DEF Moved, Used
    <3>7. Cardinality(eng.cache.loaded) < MaxInMemory
      BY <3>2, FS_EmptySet, CacheAssumption
    <3>8. Lru!Answer(0)
      <4>1. eng.cache' = d.cache
        BY <1>1
      <4> DEFINE kept == {}
      <4>2. kept \in SUBSET eng.cache.loaded /\ kept = eng.cache.loaded
        BY <3>2
      <4>3. d.cache.loaded = kept \cup {0}
        BY <3>3
      <4>4. d.cache.newer = (eng.cache.newer \cap (kept \X kept)) \cup (kept \X {0})
        BY <3>4
      <4> HIDE DEF kept
      <4> QED
        BY <3>1, <3>5, <3>6, <3>7, <4>1, <4>2, <4>3, <4>4, CountedAlike DEF Lru!Answer
    <3> QED
      BY <3>2, <3>8 DEF CacheStep
  <2> QED
    BY <2>1, <2>2
<1> QED
  BY <1>1, <1>8, <1>9, <1>10, <1>11, <1>12 DEF PlayInv

LEMMA ChunkArrivesStep ==
    ASSUME PlayInv, NEW k \in Chunks, ChunkArrives(k) PROVE PlayInv' /\ CacheStep
<1> DEFINE c == Answered(eng.cache, k)
           e == [eng EXCEPT !.cache = c]
           d == IF k = ChunkOf(e.frame) THEN Compute(e, e.frame) ELSE e
<1>1. /\ page.phase = "ready"
      /\ k \in eng.cache.loading
      /\ UNCHANGED <<session, page, scrub, kills, saving>>
      /\ eng' = d
  BY DEF ChunkArrives, PlayInv, EngineState, EngineInv
<1>2. /\ SettledCache(c)
      /\ k \in c.loaded
      /\ Stored(eng.cache, k, c)
      /\ c.loaded \subseteq eng.cache.loaded \cup {k}
      /\ eng.cache.loading \ {k} \subseteq c.loading
  BY <1>1, AnsweredCache DEF PlayInv, EngineState
<1>3. CacheInv(c) /\ c \in CacheType
  BY <1>2, SettledIsInv DEF SettledCache
<1> HIDE DEF c
<1>4. /\ EngineInv(e) /\ e.cache = c /\ e.frame = eng.frame /\ e.shown = eng.shown
      /\ e.endFrame = eng.endFrame /\ Quiet(eng, e) /\ e.frame \in Frames
  BY <1>3 DEF PlayInv, EngineState, EngineInv, Quiet
<1> HIDE DEF e
<1>5. /\ EngineInv(d) /\ d.cache = c /\ d.frame = eng.frame
      /\ d.endFrame = eng.endFrame /\ Quiet(eng, d)
  <2>1. Moved(e, d) /\ Quiet(e, d) /\ d.frame = e.frame /\ d.cache = e.cache
    BY <1>4, Computed, NotMoved
  <2> HIDE DEF d
  <2> QED
    BY <1>4, <2>1, QuietTransitive DEF Moved
<1>6. session.stream
  BY <1>1, SessionType DEF PlayInv, CacheOfSession
<1>7. ShowsFrame(eng)
  BY <1>1 DEF PlayInv, WhenReady
<1>8. ShowsFrame(d)
  <2>1. CASE k = ChunkOf(e.frame)
    <3>1. k \in c.loaded
      BY <1>2
    <3>2. d.shown = [frame |-> e.frame, ids |-> Alive(e.frame)]
      BY <1>4, <2>1, <3>1 DEF Compute, EngineInv
    <3> QED
      BY <1>4, <1>5, <3>2 DEF ShowsFrame
  <2>2. CASE k # ChunkOf(e.frame)
    <3>1. d = e
      BY <2>2
    <3> QED
      BY <1>2, <1>4, <1>7, <2>2, <3>1 DEF ShowsFrame
  <2> QED
    BY <2>1, <2>2
<1> HIDE DEF d
<1>9. EngineState'
  BY <1>1, <1>2, <1>5 DEF PlayInv, EngineState, Quiet, Looping
<1>10. PageState' /\ OtherState'
  BY <1>1 DEF PlayInv, PageState, OtherState
<1>11. WhenReady'
  <2>1. ShowsFrame(eng)'
    BY <1>1, <1>8 DEF ShowsFrame
  <2>2. eng.endFrame = EndFrame /\ Within(eng, Constraint(page))
    BY <1>1 DEF PlayInv, WhenReady
  <2>3. Within(eng, Constraint(page))'
    BY <1>1, <1>5, <2>2 DEF Within, Constraint
  <2> QED
    BY <1>1, <1>5, <2>1, <2>2, <2>3 DEF WhenReady
<1>12. CacheOfSession'
  BY <1>1, <1>6 DEF CacheOfSession
<1>13. Lru!Answer(k)
  <2>1. eng.cache' = c
    BY <1>1, <1>5
  <2>2. c.loaded \cap c.loading = {}
    BY <1>2 DEF SettledCache, CacheConsistentIn
  <2> QED
    BY <1>1, <1>2, <2>1, <2>2, CountedAlike DEF Lru!Answer, Stored
<1>14. CacheStep
  BY <1>13 DEF CacheStep
<1> QED
  BY <1>1, <1>9, <1>10, <1>11, <1>12, <1>14 DEF PlayInv

LEMMA ChunkFailsStep ==
    ASSUME PlayInv, NEW k \in Chunks, ChunkFails(k) PROVE PlayInv' /\ CacheStep
<1> DEFINE c == Failed(eng.cache, k)
           e == [eng EXCEPT !.cache = c]
<1>1. /\ page.phase = "ready"
      /\ k \in eng.cache.loading
      /\ UNCHANGED <<session, page, scrub, kills, saving>>
      /\ eng' = e
  BY DEF ChunkFails, PlayInv, EngineState, EngineInv
<1>2. /\ SettledCache(c)
      /\ c.newer = eng.cache.newer
      /\ c.loaded = eng.cache.loaded
      /\ c.loading = eng.cache.loading \ {k}
  BY <1>1, FailedCache DEF PlayInv, EngineState
<1>3. CacheInv(c) /\ c \in CacheType
  BY <1>2, SettledIsInv DEF SettledCache
<1> HIDE DEF c
<1>4. /\ EngineInv(e) /\ e.cache = c /\ e.frame = eng.frame /\ e.shown = eng.shown
      /\ e.endFrame = eng.endFrame /\ Quiet(eng, e)
  BY <1>3 DEF PlayInv, EngineState, EngineInv, Quiet
<1> HIDE DEF e
<1>5. session.stream
  BY <1>1, SessionType DEF PlayInv, CacheOfSession
<1>6. EngineState'
  BY <1>1, <1>2, <1>4 DEF PlayInv, EngineState, Quiet, Looping
<1>7. PageState' /\ OtherState'
  BY <1>1 DEF PlayInv, PageState, OtherState
<1>8. WhenReady'
  <2>1. eng.endFrame = EndFrame /\ ShowsFrame(eng) /\ Within(eng, Constraint(page))
    BY <1>1 DEF PlayInv, WhenReady
  <2>2. ShowsFrame(eng)'
    BY <1>1, <1>2, <1>4, <2>1 DEF ShowsFrame
  <2>3. Within(eng, Constraint(page))'
    BY <1>1, <1>4, <2>1 DEF Within, Constraint
  <2> QED
    BY <1>1, <1>4, <2>1, <2>2, <2>3 DEF WhenReady
<1>9. CacheOfSession'
  BY <1>1, <1>5 DEF CacheOfSession
<1>10. Lru!Give(k)
  BY <1>1, <1>2, <1>4 DEF Lru!Give
<1>11. CacheStep
  BY <1>10 DEF CacheStep
<1> QED
  BY <1>1, <1>6, <1>7, <1>8, <1>9, <1>11 DEF PlayInv

\* A draft stays a pair of numbers.
LEMMA DraftsEdited ==
    ASSUME NEW d \in Drafts, NEW f \in Int, eng.endFrame \in Int
    PROVE  SetIn(d, f) \in Drafts /\ SetOut(d, f) \in Drafts /\ DragHandle(d, f) \in Drafts
  BY DEF SetIn, SetOut, DragHandle, Smaller, Larger, Drafts

LEMMA LoadingStep == ASSUME PlayInv, Loading PROVE PlayInv' /\ CacheStep
<1>1. CASE Load
  BY <1>1, LoadStep
<1>2. CASE LoadFails
  <2>1. /\ page.phase = "loading" /\ page' = [page EXCEPT !.phase = "failed"]
        /\ UNCHANGED <<session, eng, scrub, kills, saving>>
    BY <1>2 DEF LoadFails
  <2>2. PageState' /\ OtherState' /\ page'.phase = "failed" /\ Constraint(page)' = Constraint(page)
    BY <2>1 DEF PlayInv, PageState, OtherState, Constraint
  <2> QED
    BY <2>1, <2>2, UnchangedEngine
<1>3. CASE Leave
  <2>1. /\ page' = [page EXCEPT !.phase = "left"] /\ eng' = Stop(eng)
        /\ UNCHANGED <<session, scrub, kills, saving>>
    BY <1>3 DEF Leave
  <2>2. PageState' /\ OtherState' /\ page'.phase = "left" /\ Constraint(page)' = Constraint(page)
    BY <2>1 DEF PlayInv, PageState, OtherState, Constraint
  <2>3. EngineInv(eng)
    BY DEF PlayInv, EngineState
  <2> DEFINE e == Stop(eng)
  <2>4. Moved(eng, e) /\ Quiet(eng, e) /\ e.frame = eng.frame /\ ~e.playing /\ e.cache = eng.cache
    BY <2>3, Stopped
  <2>5. e.shown = eng.shown
    BY <2>3 DEF Stop, EngineInv
  <2> HIDE DEF e
  <2>6. Looping(e) /\ e.stray = eng.stray /\ eng' = e
    BY <2>1, <2>4 DEF Looping, Quiet, e
  <2> QED
    BY <2>1, <2>2, <2>4, <2>5, <2>6, StillStep
<1> QED
  BY <1>1, <1>2, <1>3 DEF Loading

LEMMA NetworkStep == ASSUME PlayInv, Network PROVE PlayInv' /\ CacheStep
  BY ChunkArrivesStep, ChunkFailsStep DEF Network

LEMMA TickStep == ASSUME PlayInv, NEW n \in Nat, Tick(n) PROVE PlayInv' /\ CacheStep
<1>1. OtherState' /\ saving' = saving
  BY DEF Tick, PlayInv, OtherState
<1>2. Constraint(page) \in Bounds
  BY ConstraintIsBound
<1>3. EngineInv(eng)
  BY DEF PlayInv, EngineState
<1>4. ASSUME NEW e, EngineInv(e), Moved(eng, e), e.frame = eng.frame,
             Engine(OnFrame(e, Constraint(page), n))
      PROVE  PlayInv' /\ CacheStep
  <2> DEFINE d == OnFrame(e, Constraint(page), n)
  <2>1. /\ Moved(e, d) /\ Looping(d)
        /\ e.endFrame = EndFrame /\ Within(e, Constraint(page)) => Within(d, Constraint(page))
    BY <1>2, <1>4, FramePassed
  <2>2. Moved(eng, d) /\ e.endFrame = eng.endFrame
    BY <1>4, <2>1, MovedTransitive DEF Moved
  <2>3. eng.endFrame = EndFrame /\ Within(eng, Constraint(page)) => Within(d, Constraint(page))
    BY <1>4, <2>1, <2>2 DEF Within
  <2>4. Engine(d)
    BY <1>4
  <2> HIDE DEF d
  <2> QED
    BY <1>1, <2>1, <2>2, <2>3, <2>4, EngineStep
<1>5. CASE eng.tracked /\ Engine(OnFrame([eng EXCEPT !.tracked = FALSE], Constraint(page), n))
  <2> DEFINE e == [eng EXCEPT !.tracked = FALSE]
  <2>1. EngineInv(e) /\ Moved(eng, e) /\ e.frame = eng.frame
    BY <1>3 DEF EngineInv, Moved, Used
  <2>2. Engine(OnFrame(e, Constraint(page), n))
    BY <1>5
  <2> HIDE DEF e
  <2> QED
    BY <1>4, <2>1, <2>2
<1>6. CASE eng.stray > 0 /\ Engine(OnFrame([eng EXCEPT !.stray = @ - 1], Constraint(page), n))
  <2> DEFINE e == [eng EXCEPT !.stray = @ - 1]
  <2>1. EngineInv(e) /\ Moved(eng, e) /\ e.frame = eng.frame
    BY <1>3, <1>6 DEF EngineInv, Moved, Used
  <2>2. Engine(OnFrame(e, Constraint(page), n))
    BY <1>6
  <2> HIDE DEF e
  <2> QED
    BY <1>4, <2>1, <2>2
<1> QED
  BY <1>5, <1>6 DEF Tick

LEMMA FollowStep ==
    ASSUME PlayInv, Unfollow \/ \E x \in Entities : Follow(x) PROVE PlayInv' /\ CacheStep
<1>1. PICK x \in Entities \cup {None} :
          eng' = [eng EXCEPT !.follow = x] /\ UNCHANGED <<session, page, scrub, kills, saving>>
  BY DEF Follow, Unfollow
<1> DEFINE e == [eng EXCEPT !.follow = x]
<1>2. /\ Moved(eng, e) /\ Quiet(eng, e) /\ e.frame = eng.frame /\ e.shown = eng.shown
      /\ e.cache = eng.cache /\ e.playing = eng.playing /\ e.tracked = eng.tracked
  BY DEF PlayInv, EngineState, EngineInv, Moved, Quiet, Used
<1> HIDE DEF e
<1>3. Looping(e) /\ e.stray = eng.stray /\ eng' = e
  BY <1>1, <1>2 DEF PlayInv, EngineState, Looping, Quiet, e
<1>4. PageState' /\ OtherState' /\ page'.phase = page.phase /\ Constraint(page)' = Constraint(page)
  BY <1>1 DEF PlayInv, PageState, OtherState, Constraint
<1> QED
  BY <1>1, <1>2, <1>3, <1>4, StillStep

\* The engine operators a handler of the page calls, from the state it finds.
LEMMA SeekStep ==
    ASSUME PlayInv, NEW e, e = eng \/ e = Pause(eng), NEW f \in Int,
           Engine(SeekTo(e, Constraint(page), f)), OtherState', saving' = saving
    PROVE  PlayInv' /\ CacheStep
<1> DEFINE d == SeekTo(e, Constraint(page), f)
<1>1. EngineInv(eng) /\ Looping(eng)
  BY DEF PlayInv, EngineState
<1>2. Constraint(page) \in Bounds
  BY ConstraintIsBound
<1>3. Moved(eng, e) /\ Quiet(eng, e) /\ e.frame = eng.frame
  BY <1>1, Paused, NotMoved
<1>4. /\ Moved(e, d) /\ Quiet(e, d)
      /\ e.endFrame = EndFrame /\ Within(e, Constraint(page)) => Within(d, Constraint(page))
  BY <1>2, <1>3, Sought DEF Moved
<1>5. Engine(d)
  OBVIOUS
<1> HIDE DEF d
<1>6. Moved(eng, d) /\ Quiet(eng, d)
  BY <1>3, <1>4, MovedTransitive, QuietTransitive
<1>7. Looping(d)
  BY <1>1, <1>6 DEF Looping, Quiet
<1>8. eng.endFrame = EndFrame /\ Within(eng, Constraint(page)) => Within(d, Constraint(page))
  BY <1>3, <1>4 DEF Within, Moved
<1> QED
  BY <1>5, <1>6, <1>7, <1>8, EngineStep

LEMMA PlayStep ==
    ASSUME PlayInv, NEW e, e \in {eng, Pause(eng), Play(eng, Constraint(page)), SetSpeed(eng)},
           Engine(e), OtherState', saving' = saving
    PROVE  PlayInv' /\ CacheStep
<1>1. EngineInv(eng) /\ Looping(eng)
  BY DEF PlayInv, EngineState
<1>2. Constraint(page) \in Bounds
  BY ConstraintIsBound
<1>3. CASE e = eng
  BY <1>1, <1>3, NotMoved, EngineStep
<1>4. CASE e = Pause(eng)
  <2>1. Moved(eng, e) /\ e.frame = eng.frame /\ ~e.playing
    BY <1>1, <1>4, Paused
  <2>2. Looping(e) /\ (Within(eng, Constraint(page)) => Within(e, Constraint(page)))
    BY <2>1 DEF Looping, Within
  <2> QED
    BY <2>1, <2>2, EngineStep
<1>5. CASE e = Play(eng, Constraint(page))
  <2>1. /\ Moved(eng, e) /\ Looping(e)
        /\ eng.endFrame = EndFrame /\ Within(eng, Constraint(page)) => Within(e, Constraint(page))
    BY <1>1, <1>2, <1>5, Played
  <2> QED
    BY <2>1, EngineStep
<1>6. CASE e = SetSpeed(eng)
  <2>1. Moved(eng, e) /\ Looping(e) /\ e.frame = eng.frame
    BY <1>1, <1>6, SpeedChanged
  <2>2. Within(eng, Constraint(page)) => Within(e, Constraint(page))
    BY <2>1 DEF Within
  <2> QED
    BY <2>1, <2>2, EngineStep
<1> QED
  BY <1>3, <1>4, <1>5, <1>6

LEMMA KillStep ==
    ASSUME PlayInv, NEW found \in SUBSET Frames, SeekToKill(found) PROVE PlayInv' /\ CacheStep
<1>1. kills' = CachedKills /\ scrub' = scrub /\ saving' = saving
  BY DEF SeekToKill
<1>2. OtherState'
  <2>1. CachedKills \in (SUBSET Frames) \cup {None}
    BY PlaybackAssumption DEF CachedKills, PlayInv, OtherState
  <2> QED
    BY <1>1, <2>1 DEF PlayInv, OtherState
<1>3. CASE found = {}
  <2>1. UNCHANGED <<session, eng, page>>
    BY <1>3 DEF SeekToKill
  <2>2. PageState' /\ page'.phase = page.phase /\ Constraint(page)' = Constraint(page)
    BY <1>1, <2>1 DEF PlayInv, PageState, Constraint
  <2> QED
    BY <1>2, <2>1, <2>2, UnchangedEngine
<1>4. CASE found # {}
  <2>1. PICK f \in found : Engine(SeekTo(eng, Constraint(page), f))
    BY <1>4 DEF SeekToKill
  <2>2. f \in Int
    BY CacheAssumption DEF Frames
  <2> QED
    BY <1>1, <1>2, <2>1, <2>2, SeekStep
<1> QED
  BY <1>3, <1>4

LEMMA KeyboardStep == ASSUME PlayInv, Keyboard PROVE PlayInv' /\ CacheStep
<1>1. CASE TogglePlay
  <2>1. OtherState' /\ saving' = saving
    BY <1>1 DEF TogglePlay, PlayInv, OtherState
  <2>2. Engine(IF eng.playing THEN Pause(eng) ELSE Play(eng, Constraint(page)))
    BY <1>1 DEF TogglePlay
  <2>3. CASE eng.playing
    BY <2>1, <2>2, <2>3, PlayStep
  <2>4. CASE ~eng.playing
    BY <2>1, <2>2, <2>4, PlayStep
  <2> QED
    BY <2>3, <2>4
<1>2. CachedKills \subseteq Frames
  BY PlaybackAssumption DEF CachedKills, PlayInv, OtherState
<1>3. CASE NextKill
  <2> DEFINE later == {f \in CachedKills : f > eng.frame}
             found == {f \in later : \A g \in later : f <= g}
  <2>1. found \in SUBSET Frames
    BY <1>2
  <2>2. SeekToKill(found)
    BY <1>3 DEF NextKill
  <2> HIDE DEF found
  <2> QED
    BY <2>1, <2>2, KillStep
<1>4. CASE PrevKill
  <2> DEFINE earlier == {f \in CachedKills : f < eng.frame}
             found == {f \in earlier : \A g \in earlier : f >= g}
  <2>1. found \in SUBSET Frames
    BY <1>2
  <2>2. SeekToKill(found)
    BY <1>4 DEF PrevKill
  <2> HIDE DEF found
  <2> QED
    BY <2>1, <2>2, KillStep
<1>5. CASE \E n \in {-10, -1, 1, 10} : Step(n)
  <2>1. PICK n \in {-10, -1, 1, 10} : Step(n)
    BY <1>5
  <2>2. OtherState' /\ saving' = saving
    BY <2>1 DEF Step, PlayInv, OtherState
  <2>3. Engine(SeekTo(Pause(eng), Constraint(page), eng.frame + n))
    BY <2>1 DEF Step
  <2>4. eng.frame + n \in Int
    BY DEF PlayInv, EngineState, EngineInv, Frames
  <2> QED
    BY <2>2, <2>3, <2>4, SeekStep
<1> QED
  BY <1>1, <1>3, <1>4, <1>5 DEF Keyboard

LEMMA PointerDownStep ==
    ASSUME PlayInv, NEW f \in Int, PointerDown(f) PROVE PlayInv' /\ CacheStep
<1>1. OtherState' /\ saving' = saving
  BY DEF PointerDown, PlayInv, OtherState, EngineState, EngineInv, ScrubType
<1>2. Engine(SeekTo(Pause(eng), Constraint(page), f))
  BY DEF PointerDown
<1> QED
  BY <1>1, <1>2, SeekStep

LEMMA PointerMoveStep ==
    ASSUME PlayInv, NEW f \in Int, PointerMove(f) PROVE PlayInv' /\ CacheStep
<1>1. OtherState' /\ saving' = saving
  BY DEF PointerMove, PlayInv, OtherState
<1>2. CASE scrub.handle # "none" /\ page.draft # None
  <2>1. /\ page' = [page EXCEPT !.draft = DragHandle(page.draft, f)]
        /\ UNCHANGED <<session, eng>>
    BY <1>2 DEF PointerMove, PlayInv, PageState
  <2>2. page.draft \in Drafts /\ eng.endFrame \in Int
    BY <1>2, CacheAssumption DEF PlayInv, PageState, EngineState, EngineInv
  <2>3. DragHandle(page.draft, f) \in Drafts
    BY <2>2, DraftsEdited
  <2>4. PageState' /\ page'.phase = page.phase /\ Constraint(page)' = Constraint(page)
    BY <1>1, <2>1, <2>3 DEF PlayInv, PageState, Constraint
  <2> QED
    BY <1>1, <2>1, <2>4, UnchangedEngine
<1>3. CASE ~(scrub.handle # "none" /\ page.draft # None)
  <2>1. Engine(SeekTo(eng, Constraint(page), f))
    BY <1>3 DEF PointerMove
  <2> QED
    BY <1>1, <2>1, SeekStep
<1> QED
  BY <1>2, <1>3

LEMMA PointerUpStep == ASSUME PlayInv, PointerUp PROVE PlayInv' /\ CacheStep
<1>1. saving' = saving /\ kills' = kills
  BY DEF PointerUp
<1>2. CASE scrub.handle # "none"
  <2>1. scrub' = [scrub EXCEPT !.handle = "none"] /\ UNCHANGED <<session, eng, page>>
    BY <1>2 DEF PointerUp
  <2>2. OtherState'
    BY <1>1, <2>1 DEF PlayInv, OtherState, ScrubType
  <2>3. PageState' /\ page'.phase = page.phase /\ Constraint(page)' = Constraint(page)
    BY <1>1, <2>1 DEF PlayInv, PageState, Constraint
  <2> QED
    BY <2>1, <2>2, <2>3, UnchangedEngine
<1>3. CASE scrub.handle = "none"
  <2>1. scrub' = NewScrub /\ Engine(IF scrub.wasPlaying THEN Play(eng, Constraint(page)) ELSE eng)
    BY <1>3 DEF PointerUp
  <2>2. OtherState'
    BY <1>1, <2>1 DEF PlayInv, OtherState, ScrubType, NewScrub
  <2>3. CASE scrub.wasPlaying
    BY <1>1, <2>1, <2>2, <2>3, PlayStep
  <2>4. CASE ~scrub.wasPlaying
    BY <1>1, <2>1, <2>2, <2>4, PlayStep
  <2> QED
    BY <2>3, <2>4
<1> QED
  BY <1>2, <1>3

LEMMA GrabStep ==
    ASSUME PlayInv, NEW side \in {"in", "out"}, GrabHandle(side) PROVE PlayInv' /\ CacheStep
<1>1. scrub' = [scrub EXCEPT !.handle = side] /\ UNCHANGED <<session, eng, page, kills, saving>>
  BY DEF GrabHandle
<1>2. OtherState'
  BY <1>1 DEF PlayInv, OtherState, ScrubType
<1>3. PageState' /\ page'.phase = page.phase /\ Constraint(page)' = Constraint(page)
  BY <1>1 DEF PlayInv, PageState, Constraint
<1> QED
  BY <1>1, <1>2, <1>3, UnchangedEngine

LEMMA TimelineStep == ASSUME PlayInv, Timeline PROVE PlayInv' /\ CacheStep
<1>1. Track \subseteq Int
  BY DEF Track
<1> QED
  BY <1>1, PointerDownStep, PointerMoveStep, PointerUpStep, GrabStep DEF Timeline

LEMMA StartEditStep == ASSUME PlayInv, StartEdit PROVE PlayInv' /\ CacheStep
<1> DEFINE d == IF page.focus # None THEN page.focus ELSE [in |-> 0, out |-> eng.endFrame]
           p == [page EXCEPT !.editing = TRUE, !.draft = d]
<1>1. d \in Drafts
  BY CacheAssumption DEF PlayInv, PageState, EngineState, EngineInv, Bounds, Ranges, Drafts
<1>2. Signals(p) /\ UNCHANGED <<scrub, kills, saving>>
  BY DEF StartEdit
<1>3. page' = p
  BY <1>2 DEF Signals
<1> HIDE DEF d
<1>4. PageState' /\ OtherState' /\ p.phase = page.phase
  BY <1>1, <1>2, <1>3 DEF PlayInv, PageState, OtherState
<1> HIDE DEF p
<1> QED
  BY <1>2, <1>4, SignalsStep

LEMMA SetBoundStep == ASSUME PlayInv, SetBound PROVE PlayInv' /\ CacheStep
<1>1. page.draft \in Drafts /\ eng.frame \in Int /\ eng.endFrame \in Int
  BY CacheAssumption DEF SetBound, PlayInv, PageState, EngineState, EngineInv, Frames
<1>2. PICK d \in Drafts : page' = [page EXCEPT !.draft = d]
  BY <1>1, DraftsEdited DEF SetBound, PlayInv, PageState
<1>3. UNCHANGED <<session, eng, scrub, kills, saving>> /\ page.draft # None
  BY DEF SetBound
<1>4. PageState' /\ OtherState' /\ page'.phase = page.phase /\ Constraint(page)' = Constraint(page)
  BY <1>2, <1>3 DEF PlayInv, PageState, OtherState, Constraint, Bounds
<1> QED
  BY <1>3, <1>4, UnchangedEngine

LEMMA CancelStep == ASSUME PlayInv, CancelEdit PROVE PlayInv' /\ CacheStep
<1> DEFINE p == [page EXCEPT !.editing = FALSE, !.draft = None]
<1>1. Signals(p) /\ UNCHANGED <<scrub, kills, saving>>
  BY DEF CancelEdit
<1>2. page' = p
  BY <1>1 DEF Signals
<1>3. PageState' /\ OtherState' /\ p.phase = page.phase
  BY <1>1, <1>2 DEF PlayInv, PageState, OtherState, Bounds
<1> HIDE DEF p
<1> QED
  BY <1>1, <1>3, SignalsStep

LEMMA SavedStep == ASSUME PlayInv, NEW s \in Saves, Saved(s) PROVE PlayInv' /\ CacheStep
<1> DEFINE p == [page EXCEPT !.focus = saving[s].to, !.editing = FALSE, !.draft = None]
<1>1. /\ Signals(p) /\ UNCHANGED <<scrub, kills>>
      /\ saving' = [saving EXCEPT ![s] = None]
      /\ saving[s] # None /\ Accepted(saving[s].to)
  BY DEF Saved
<1>2. page' = p
  BY <1>1 DEF Signals
<1>3. saving[s].to \in Bounds
  BY <1>1 DEF PlayInv, PageState, Accepted, Bounds, Ranges
<1>4. saving' \in [Saves -> [to: Drafts \cup {None}] \cup {None}]
  BY <1>1 DEF PlayInv, PageState
<1>5. PageState' /\ OtherState' /\ p.phase = page.phase
  BY <1>1, <1>2, <1>3, <1>4 DEF PlayInv, PageState, OtherState
<1> HIDE DEF p
<1> QED
  BY <1>1, <1>5, SignalsStep

LEMMA ToggleFullStep == ASSUME PlayInv, ToggleFull PROVE PlayInv' /\ CacheStep
<1> DEFINE p == [page EXCEPT !.full = ~page.full]
<1>1. Signals(p) /\ UNCHANGED <<scrub, kills, saving>>
  BY DEF ToggleFull
<1>2. page' = p
  BY <1>1 DEF Signals
<1>3. PageState' /\ OtherState' /\ p.phase = page.phase
  BY <1>1, <1>2 DEF PlayInv, PageState, OtherState, Bounds
<1> HIDE DEF p
<1> QED
  BY <1>1, <1>3, SignalsStep

LEMMA SavingStep ==
    ASSUME PlayInv, NEW s \in Saves, SaveFails(s) \/ \E to \in {page.draft, None} : Save(s, to)
    PROVE  PlayInv' /\ CacheStep
<1>1. UNCHANGED <<session, eng, page, scrub, kills>>
  BY DEF SaveFails, Save
<1>2. PICK v \in [to: Drafts \cup {None}] \cup {None} : saving' = [saving EXCEPT ![s] = v]
  BY DEF SaveFails, Save, PlayInv, PageState
<1>3. saving' \in [Saves -> [to: Drafts \cup {None}] \cup {None}]
  BY <1>2 DEF PlayInv, PageState
<1>4. PageState' /\ OtherState' /\ page'.phase = page.phase /\ Constraint(page)' = Constraint(page)
  BY <1>1, <1>3 DEF PlayInv, PageState, OtherState, Constraint
<1> QED
  BY <1>1, <1>4, UnchangedEngine

LEMMA FocusStep == ASSUME PlayInv, Focus PROVE PlayInv' /\ CacheStep
  BY StartEditStep, SetBoundStep, CancelStep, SavedStep, ToggleFullStep, SavingStep DEF Focus

LEMMA SpeedStep == ASSUME PlayInv, Speed PROVE PlayInv' /\ CacheStep
<1>1. Engine(SetSpeed(eng)) /\ OtherState' /\ saving' = saving
  BY DEF Speed, PlayInv, OtherState
<1> QED
  BY <1>1, PlayStep

LEMMA PlaybackStep == ASSUME PlayInv, [Next]_vars PROVE PlayInv' /\ CacheStep
<1>1. CASE Loading
  BY <1>1, LoadingStep
<1>2. CASE \E n \in 0 .. MaxAdvance : Tick(n)
  BY <1>2, TickStep, PlaybackAssumption
<1>3. CASE Network
  BY <1>3, NetworkStep
<1>4. CASE Unfollow \/ \E x \in Entities : Follow(x)
  BY <1>4, FollowStep
<1>5. CASE Speed
  BY <1>5, SpeedStep
<1>6. CASE Keyboard
  BY <1>6, KeyboardStep
<1>7. CASE Timeline
  BY <1>7, TimelineStep
<1>8. CASE Focus
  BY <1>8, FocusStep
<1>9. CASE UNCHANGED vars
  <2>1. UNCHANGED <<session, eng, page, scrub, kills, saving>>
    BY <1>9 DEF vars
  <2>2. PageState' /\ OtherState' /\ page'.phase = page.phase /\ Constraint(page)' = Constraint(page)
    BY <2>1 DEF PlayInv, PageState, OtherState, Constraint
  <2> QED
    BY <2>1, <2>2, UnchangedEngine
<1> QED
  BY <1>1, <1>2, <1>3, <1>4, <1>5, <1>6, <1>7, <1>8, <1>9 DEF Next

\* The inductive invariant of the playback page.
THEOREM PlayInvariant == Spec => []PlayInv
<1>1. Init => PlayInv
  BY PlayInitially
<1>2. PlayInv /\ [Next]_vars => PlayInv'
  BY PlaybackStep
<1> QED
  BY <1>1, <1>2, PTL DEF Spec

\* Memory and access order hold the same chunks, each once and never more than the
\* limit, and no chunk in memory is fetched again: the eviction loop of storeInMemory
\* (chunkManager.ts:149) ends, for any recording, chunk size and memory.
THEOREM CacheStaysConsistent == Spec => []CacheConsistent
<1>1. PlayInv => CacheConsistent
  BY DEF PlayInv, EngineState, SettledCache, CacheConsistent
<1> QED
  BY <1>1, PlayInvariant, PTL

\* The picture of a streamed recording is the current frame's whenever its chunk is
\* in memory (engine.ts:230, 303).
THEOREM PictureIsCurrent == Spec => []ShownIsCurrent
<1>1. PlayInv => ShownIsCurrent
  BY DEF PlayInv, WhenReady, ShowsFrame, ShownIsCurrent
<1> QED
  BY <1>1, PlayInvariant, PTL

\* While the focus range constrains playback the current frame stays in it, whatever
\* keys, drags, animation frames, saves and cancels come (RecordingPlayback.tsx:206).
THEOREM FocusIsKept == Spec => []FocusHolds
<1>1. PlayInv => FocusHolds
  BY DEF PlayInv, WhenReady, Within, Constraint, FocusHolds
<1> QED
  BY <1>1, PlayInvariant, PTL

\* A playing engine always has an animation frame to come (engine.ts:358).
THEOREM PlayingGoesOn == Spec => []PlayingHasLoop
<1>1. PlayInv => PlayingHasLoop
  BY DEF PlayInv, EngineState, Looping, PlayingHasLoop
<1> QED
  BY <1>1, PlayInvariant, PTL

\* The chunk cache implements the memory that loses what was used the longest ago:
\* every step of the page is a use, an answer, a failed fetch or nothing to it
\* (chunkManager.ts:72, 157).
THEOREM CacheEvictsLeastRecent == Spec => EvictsLeastRecent
<1>1. Init => Lru!Init
  BY PlayInitially
<1>2. PlayInv /\ PlayInv' /\ [Next]_vars =>
          [Lru!Next]_<<eng.cache.loaded, eng.cache.newer, eng.cache.loading>>
  <2> SUFFICES ASSUME PlayInv, PlayInv', [Next]_vars
               PROVE  Lru!Next
    OBVIOUS
  <2>1. CacheStep
    BY PlaybackStep
  <2>2. CASE Used(eng.cache, eng.cache')
    <3>1. SettledCache(eng.cache) /\ SettledCache(eng.cache')
      BY DEF PlayInv, EngineState, SettledCache, CacheConsistentIn, InOrder, Before, CacheType
    <3>2. (eng.cache.loaded \cap eng.cache.loading = {})'
      BY <3>1 DEF SettledCache, CacheConsistentIn
    <3>3. Reused(eng.cache.loaded, eng.cache.newer, eng.cache'.newer)
      <4>1. eng.cache.newer \subseteq eng.cache.loaded \X eng.cache.loaded
        BY <3>1, SettledUses
      <4> QED
        BY <2>2, <4>1, NotReused DEF Used
    <3>4. Lru!Ordered'
      <4>1. \A k, l \in eng.cache'.loaded :
                <<k, l>> \in eng.cache'.newer <=> k # l /\ <<l, k>> \notin eng.cache'.newer
        BY <3>1, SettledUses
      <4> QED
        BY <4>1 DEF Lru!Ordered
    <3>5. \E used \in SUBSET eng.cache.loaded : Lru!After(eng.cache.loaded \ used, used)
      BY <3>3 DEF Reused, Lru!After
    <3>6. Lru!Use
      BY <2>2, <3>2, <3>4, <3>5 DEF Used, Lru!Use
    <3> QED
      BY <3>6 DEF Lru!Next
  <2>3. CASE \E k \in Chunks : Lru!Answer(k) \/ Lru!Give(k)
    BY <2>3 DEF Lru!Next
  <2> QED
    BY <2>1, <2>2, <2>3 DEF CacheStep
<1> QED
  BY <1>1, <1>2, PlayInvariant, PTL DEF Spec, EvictsLeastRecent, Lru!Spec, Lru!vars

\* Every variable of the playback page has its type: a range in focus ends after it
\* begins, whatever drafts an edit that began too early or a drag that came late left
\* (TimelineScrubber.tsx:208, RecordingPlayback.tsx:119, 228).
THEOREM PlaybackTyped == Spec => []TypeOK
<1>1. PlayInv => TypeOK
  <2> SUFFICES ASSUME PlayInv PROVE TypeOK
    OBVIOUS
  <2>1. eng \in EngineType
    BY PlaybackAssumption DEF PlayInv, EngineState, EngineInv, EngineType
  <2>2. page \in PageType
    BY DEF PlayInv, PageState, PageType, Bounds
  <2>3. saving \in [Saves -> [to: Drafts \cup {None}] \cup {None}]
    BY DEF PlayInv, PageState
  <2> QED
    BY <2>1, <2>2, <2>3 DEF PlayInv, OtherState, TypeOK
<1> QED
  BY <1>1, PlayInvariant, PTL
=============================================================================

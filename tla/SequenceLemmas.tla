---------------------------- MODULE SequenceLemmas ----------------------------
(***************************************************************************)
(* Lemmas on natural numbers and sequences that the proofs about the       *)
(* components share.                                                       *)
(***************************************************************************)
EXTENDS Sifting, Sums, SequencesExt, SequenceTheorems, FiniteSetTheorems, WellFoundedInduction, TLAPS

\* Every inhabited set of natural numbers has a least element.
LEMMA LeastNatural ==
  ASSUME NEW S \in SUBSET Nat, S # {}
  PROVE  \E n \in S : \A m \in S : n <= m
<1>1. PICK k \in S : TRUE
  OBVIOUS
<1> DEFINE Below(n) == {m \in S : m < n}
           T == {Below(n) : n \in {m \in S : m <= k}}
<1>2. \A n \in S : n <= k => Below(n) \in T
  OBVIOUS
<1>3. \A X \in T : \E n \in S : n <= k /\ X = Below(n)
  OBVIOUS
<1> HIDE DEF T
<1>4. IsFiniteSet(0 .. k)
  BY FS_Interval
<1>5. ASSUME NEW n \in S, n <= k PROVE Below(n) \in SUBSET (0 .. k)
  <2>1. ASSUME NEW m \in Below(n) PROVE m \in 0 .. k
    BY <1>5, <2>1
  <2> QED
    BY <2>1
<1>6. T \subseteq FiniteSubsetsOf(0 .. k) /\ T # {}
  <2>1. k <= k
    OBVIOUS
  <2> HIDE DEF Below
  <2> QED
    BY <1>1, <1>2, <1>3, <1>4, <1>5, <2>1, FS_FiniteSubsetsOfFinite
<1>7. PICK X \in T : \A Y \in T : <<Y, X>> \notin StrictSubsetOrdering(0 .. k)
  BY <1>6, FS_StrictSubsetOrderingWellFounded, WFMin
<1>8. PICK n \in S : n <= k /\ X = Below(n)
  BY <1>3
<1>9. ASSUME NEW m \in S PROVE ~ (m < n)
  <2> SUFFICES ASSUME m < n PROVE FALSE
    OBVIOUS
  <2>1. m \in Nat /\ n \in Nat /\ k \in Nat /\ m <= k
    BY <1>8
  <2>2. m \in Below(n) /\ m \notin Below(m)
    BY <2>1
  <2>3. ASSUME NEW i \in Below(m) PROVE i \in Below(n)
    <3>1. i \in S /\ i \in Nat /\ i < m
      BY <2>3
    <3> QED
      BY <3>1, <2>1
  <2>4. Below(m) \in T /\ Below(m) \in SUBSET (0 .. k) /\ Below(n) \in SUBSET (0 .. k)
    BY <2>1, <1>2, <1>5, <1>8
  <2> HIDE DEF Below
  <2>5. <<Below(m), X>> \in StrictSubsetOrdering(0 .. k)
    BY <2>2, <2>3, <2>4, <1>8 DEF StrictSubsetOrdering
  <2> QED
    BY <2>4, <2>5, <1>7
<1> QED
  <2> \A m \in S : m \in Nat
    OBVIOUS
  <2> QED BY <1>9
-------------------------------------------------------------------------------

\* Induction on the natural numbers, about a set rather than a predicate.
LEMMA NatInduct ==
  ASSUME NEW S \in SUBSET Nat, 0 \in S, \A n \in S : n + 1 \in S
  PROVE  S = Nat
<1> SUFFICES ASSUME Nat \ S # {} PROVE FALSE
  OBVIOUS
<1>1. Nat \ S \in SUBSET Nat
  OBVIOUS
<1>2. PICK n \in Nat \ S : \A m \in Nat \ S : n <= m
  BY <1>1, LeastNatural
<1>3. n # 0 /\ n - 1 \in Nat
  BY <1>2
<1>4. n - 1 \in S
  BY <1>2, <1>3
<1>5. (n - 1) + 1 = n
  BY <1>2
<1> QED
  BY <1>2, <1>4, <1>5

\* Induction on sequences: a set of sequences that has the empty one and is
\* closed under Append has them all.
LEMMA SeqInduct ==
  ASSUME NEW T, NEW Q \in SUBSET Seq(T), << >> \in Q,
         \A s \in Q, x \in T : Append(s, x) \in Q
  PROVE  Q = Seq(T)
<1> DEFINE G == {n \in Nat : \A s \in Seq(T) : Len(s) = n => s \in Q}
<1>1. 0 \in G
  OBVIOUS
<1>2. ASSUME NEW n \in G PROVE n + 1 \in G
  <2> SUFFICES ASSUME NEW s \in Seq(T), Len(s) = n + 1 PROVE s \in Q
    OBVIOUS
  <2>1. s # << >> /\ n \in Nat
    OBVIOUS
  <2>2. PICK r \in Seq(T), x \in T : s = Append(r, x)
    BY <2>1, SequenceEmptyOrAppend
  <2>3. Len(r) = n
    BY <2>1, <2>2
  <2>4. r \in Q
    BY <2>3
  <2> QED
    BY <2>2, <2>4
<1>3. G = Nat
  <2>1. G \in SUBSET Nat
    OBVIOUS
  <2> HIDE DEF G
  <2> QED
    BY <1>1, <1>2, <2>1, NatInduct
<1>4. ASSUME NEW s \in Seq(T) PROVE s \in Q
  <2>1. Len(s) \in G
    BY <1>3, LenProperties
  <2> QED
    BY <2>1
<1> QED
  BY <1>4
-------------------------------------------------------------------------------
\* Sift: the elements of a sequence that belong to a set, in order.

\* The recursion by which Sift is defined: g is its function for s, up to m.
Sifts(s, S, m, g) ==
  g = [n \in 0 .. m |-> IF n = 0 THEN << >>
                        ELSE IF s[n] \in S THEN Append(g[n - 1], s[n]) ELSE g[n - 1]]

\* There is such a function for every length.
LEMMA SiftsExist ==
  ASSUME NEW s, NEW S, NEW m \in Nat
  PROVE  \E g : Sifts(s, S, m, g)
<1> DEFINE G == {k \in Nat : \E g : Sifts(s, S, k, g)}
<1>1. 0 \in G
  <2> DEFINE g == [n \in 0 .. 0 |-> << >>]
  <2>1. Sifts(s, S, 0, g)
    BY DEF Sifts
  <2> HIDE DEF g
  <2> QED
    BY <2>1
<1>2. ASSUME NEW k \in G PROVE k + 1 \in G
  <2>1. PICK f : Sifts(s, S, k, f)
    OBVIOUS
  <2> DEFINE g == [n \in 0 .. (k + 1) |->
                     IF n <= k THEN f[n]
                     ELSE IF s[n] \in S THEN Append(f[n - 1], s[n]) ELSE f[n - 1]]
  <2>2. \A n \in 0 .. (k + 1) :
          g[n] = IF n = 0 THEN << >>
                 ELSE IF s[n] \in S THEN Append(g[n - 1], s[n]) ELSE g[n - 1]
    <3>1. \A n \in 0 .. k :
            f[n] = IF n = 0 THEN << >>
                   ELSE IF s[n] \in S THEN Append(f[n - 1], s[n]) ELSE f[n - 1]
      BY <2>1 DEF Sifts
    <3>2. g[k + 1] = IF s[k + 1] \in S THEN Append(f[k], s[k + 1]) ELSE f[k]
      OBVIOUS
    <3>3. \A n \in 0 .. k : g[n] = f[n]
      OBVIOUS
    <3> HIDE DEF g
    <3> QED
      BY SMTT(30), <3>1, <3>2, <3>3
  <2>3. Sifts(s, S, k + 1, g)
    BY <2>2 DEF Sifts
  <2> HIDE DEF g
  <2> QED
    BY <2>3
<1>3. G = Nat
  <2>1. G \in SUBSET Nat
    OBVIOUS
  <2> HIDE DEF G
  <2> QED
    BY <1>1, <1>2, <2>1, NatInduct
<1> QED
  BY <1>3

\* Sequences that agree up to m are sifted alike up to m.
LEMMA SiftsAgree ==
  ASSUME NEW s, NEW r, NEW S, NEW k \in Nat, NEW l \in Nat, NEW f, NEW g,
         Sifts(s, S, k, f), Sifts(r, S, l, g),
         NEW m \in Nat, m <= k, m <= l, \A n \in 1 .. m : s[n] = r[n]
  PROVE  f[m] = g[m]
<1> DEFINE G == {n \in Nat : n <= m => f[n] = g[n]}
<1>1. \A n \in 0 .. m :
        /\ f[n] = IF n = 0 THEN << >>
                  ELSE IF s[n] \in S THEN Append(f[n - 1], s[n]) ELSE f[n - 1]
        /\ g[n] = IF n = 0 THEN << >>
                  ELSE IF r[n] \in S THEN Append(g[n - 1], r[n]) ELSE g[n - 1]
  <2>1. ASSUME NEW n \in 0 .. k
        PROVE  f[n] = IF n = 0 THEN << >>
                      ELSE IF s[n] \in S THEN Append(f[n - 1], s[n]) ELSE f[n - 1]
    BY DEF Sifts
  <2>2. ASSUME NEW n \in 0 .. l
        PROVE  g[n] = IF n = 0 THEN << >>
                      ELSE IF r[n] \in S THEN Append(g[n - 1], r[n]) ELSE g[n - 1]
    BY DEF Sifts
  <2>3. \A n \in 0 .. m : n \in 0 .. k /\ n \in 0 .. l
    OBVIOUS
  <2> QED
    BY <2>1, <2>2, <2>3
<1>2. 0 \in G
  BY <1>1
<1>3. ASSUME NEW n \in G PROVE n + 1 \in G
  <2> SUFFICES ASSUME n + 1 <= m PROVE f[n + 1] = g[n + 1]
    OBVIOUS
  <2>1. n \in Nat /\ n + 1 \in 1 .. m /\ n + 1 \in 0 .. m /\ (n + 1) - 1 = n /\ n + 1 # 0
    OBVIOUS
  <2>2. f[n] = g[n] /\ s[n + 1] = r[n + 1]
    BY <2>1
  <2> QED
    BY <1>1, <2>1, <2>2
<1>4. G = Nat
  <2>1. G \in SUBSET Nat
    OBVIOUS
  <2> HIDE DEF G
  <2> QED
    BY <1>2, <1>3, <2>1, NatInduct
<1> QED
  BY <1>4

\* What Sift yields for a sequence of length m.
LEMMA SiftIs ==
  ASSUME NEW T, NEW s \in Seq(T), NEW S
  PROVE  \E g : Sifts(s, S, Len(s), g) /\ Sift(s, S) = g[Len(s)]
<1> DEFINE g == CHOOSE g : Sifts(s, S, Len(s), g)
<1>1. Sifts(s, S, Len(s), g)
  BY SiftsExist, LenProperties
<1>2. Sift(s, S) = g[Len(s)]
  BY DEF Sift, Sifts
<1> QED
  BY <1>1, <1>2

\* The equations of Sift.
LEMMA SiftEmpty ==
  ASSUME NEW S
  PROVE  Sift(<< >>, S) = << >>
<1>1. << >> \in Seq({}) /\ Len(<< >>) = 0
  OBVIOUS
<1>2. PICK g : Sifts(<< >>, S, 0, g) /\ Sift(<< >>, S) = g[0]
  BY <1>1, SiftIs
<1> QED
  BY <1>2 DEF Sifts

LEMMA SiftAppend ==
  ASSUME NEW T, NEW s \in Seq(T), NEW x \in T, NEW S
  PROVE  Sift(Append(s, x), S) = IF x \in S THEN Append(Sift(s, S), x) ELSE Sift(s, S)
<1> DEFINE r == Append(s, x)
           k == Len(s)
<1>1. r \in Seq(T) /\ k \in Nat /\ Len(r) = k + 1 /\ r[k + 1] = x
      /\ \A n \in 1 .. k : r[n] = s[n]
  OBVIOUS
<1> HIDE DEF r
<1>2. PICK f : Sifts(s, S, k, f) /\ Sift(s, S) = f[k]
  BY SiftIs
<1> HIDE DEF k
<1>3. PICK g : Sifts(r, S, k + 1, g) /\ Sift(r, S) = g[k + 1]
  BY <1>1, SiftIs
<1>4. g[k + 1] = IF x \in S THEN Append(g[k], x) ELSE g[k]
  <2>1. \A n \in 0 .. (k + 1) :
          g[n] = IF n = 0 THEN << >>
                 ELSE IF r[n] \in S THEN Append(g[n - 1], r[n]) ELSE g[n - 1]
    BY <1>1, <1>3 DEF Sifts
  <2>2. k + 1 \in 0 .. (k + 1) /\ k + 1 # 0 /\ (k + 1) - 1 = k
    BY <1>1
  <2> QED
    BY <1>1, <2>1, <2>2
<1>5. k + 1 \in Nat /\ k <= k + 1 /\ k <= k /\ \A n \in 1 .. k : s[n] = r[n]
  BY <1>1
<1>6. f[k] = g[k]
  BY <1>1, <1>2, <1>3, <1>5, SiftsAgree
<1> QED
  BY <1>2, <1>3, <1>4, <1>6 DEF r

\* What is left is a sequence of the same type.
LEMMA SiftType ==
  ASSUME NEW T, NEW s \in Seq(T), NEW S
  PROVE  Sift(s, S) \in Seq(T)
<1>1. Sift(<< >>, S) \in Seq(T)
  <2>1. << >> \in Seq(T)
    OBVIOUS
  <2> QED
    BY <2>1, SiftEmpty
<1>2. ASSUME NEW u \in Seq(T), NEW x \in T, Sift(u, S) \in Seq(T)
      PROVE  Sift(Append(u, x), S) \in Seq(T)
  <2>1. Append(Sift(u, S), x) \in Seq(T)
    BY <1>2
  <2>2. Sift(Append(u, x), S) = IF x \in S THEN Append(Sift(u, S), x) ELSE Sift(u, S)
    BY SiftAppend
  <2> QED
    BY <1>2, <2>1, <2>2
<1> DEFINE Q == {u \in Seq(T) : Sift(u, S) \in Seq(T)}
<1>3. Q = Seq(T)
  <2>1. << >> \in Q
    BY <1>1
  <2>2. ASSUME NEW u \in Q, NEW x \in T PROVE Append(u, x) \in Q
    <3>1. u \in Seq(T) /\ Append(u, x) \in Seq(T)
      OBVIOUS
    <3> QED
      BY <1>2, <3>1
  <2>3. Q \in SUBSET Seq(T)
    OBVIOUS
  <2> HIDE DEF Q
  <2> QED
    BY <2>1, <2>2, <2>3, SeqInduct
<1> QED
  BY <1>3

\* Appending to the second of two sequences is appending to both together.
LEMMA ConcatAppend ==
  ASSUME NEW T, NEW s \in Seq(T), NEW r \in Seq(T), NEW x \in T
  PROVE  s \o Append(r, x) = Append(s \o r, x)
OBVIOUS

\* A sequence is sifted part by part.
LEMMA SiftConcat ==
  ASSUME NEW T, NEW s \in Seq(T), NEW r \in Seq(T), NEW S
  PROVE  Sift(s \o r, S) = Sift(s, S) \o Sift(r, S)
<1>0. Sift(s, S) \in Seq(T)
  BY SiftType
<1>1. Sift(s \o << >>, S) = Sift(s, S) \o Sift(<< >>, S)
  <2>1. s \o << >> = s /\ Sift(s, S) \o << >> = Sift(s, S)
    BY <1>0
  <2> QED
    BY <2>1, SiftEmpty
<1>2. ASSUME NEW u \in Seq(T), NEW x \in T, Sift(s \o u, S) = Sift(s, S) \o Sift(u, S)
      PROVE  Sift(s \o Append(u, x), S) = Sift(s, S) \o Sift(Append(u, x), S)
  <2>1. s \o u \in Seq(T) /\ s \o Append(u, x) = Append(s \o u, x)
    OBVIOUS
  <2>2. Sift(Append(s \o u, x), S) =
          IF x \in S THEN Append(Sift(s \o u, S), x) ELSE Sift(s \o u, S)
    BY <2>1, SiftAppend
  <2>3. Sift(Append(u, x), S) = IF x \in S THEN Append(Sift(u, S), x) ELSE Sift(u, S)
    BY SiftAppend
  <2>4. Sift(u, S) \in Seq(T)
    BY SiftType
  <2>5. Append(Sift(s, S) \o Sift(u, S), x) = Sift(s, S) \o Append(Sift(u, S), x)
    <3> DEFINE a == Sift(s, S)
               b == Sift(u, S)
    <3>1. a \in Seq(T) /\ b \in Seq(T)
      BY <1>0, <2>4
    <3> HIDE DEF a, b
    <3>2. a \o Append(b, x) = Append(a \o b, x)
      BY <3>1, ConcatAppend
    <3> QED
      BY <3>2 DEF a, b
  <2> QED
    BY <1>2, <2>1, <2>2, <2>3, <2>5
<1> DEFINE Q == {u \in Seq(T) : Sift(s \o u, S) = Sift(s, S) \o Sift(u, S)}
<1>3. Q = Seq(T)
  <2>1. << >> \in Q
    BY <1>1
  <2>2. ASSUME NEW u \in Q, NEW x \in T PROVE Append(u, x) \in Q
    <3>1. u \in Seq(T) /\ Append(u, x) \in Seq(T)
      OBVIOUS
    <3> QED
      BY <1>2, <3>1
  <2>3. Q \in SUBSET Seq(T)
    OBVIOUS
  <2> HIDE DEF Q
  <2> QED
    BY <2>1, <2>2, <2>3, SeqInduct
<1> QED
  BY <1>3

\* The same as one fact.
LEMMA SiftConcats ==
  ASSUME NEW T, NEW S
  PROVE  \A s, r \in Seq(T) :
           s \o r \in Seq(T) /\ Sift(s \o r, S) = Sift(s, S) \o Sift(r, S)
BY SiftConcat, ConcatProperties

\* Of elements that all belong to the set nothing is lost.
LEMMA SiftAll ==
  ASSUME NEW T, NEW s \in Seq(T), NEW S, \A i \in DOMAIN s : s[i] \in S
  PROVE  Sift(s, S) = s
<1> DEFINE U == T \cap S
<1>0. \A x \in U : x \in S
  OBVIOUS
<1>4. s \in Seq(U)
  OBVIOUS
<1> HIDE DEF U
<1>1. Sift(<< >>, S) = << >>
  BY SiftEmpty
<1>2. ASSUME NEW u \in Seq(U), NEW x \in U, Sift(u, S) = u
      PROVE  Sift(Append(u, x), S) = Append(u, x)
  <2>1. Sift(Append(u, x), S) = IF x \in S THEN Append(Sift(u, S), x) ELSE Sift(u, S)
    BY SiftAppend
  <2> QED
    BY <1>0, <1>2, <2>1
<1> DEFINE Q == {u \in Seq(U) : Sift(u, S) = u}
<1>3. Q = Seq(U)
  <2>1. << >> \in Q
    BY <1>1
  <2>2. ASSUME NEW u \in Q, NEW x \in U PROVE Append(u, x) \in Q
    <3>1. u \in Seq(U) /\ Append(u, x) \in Seq(U)
      OBVIOUS
    <3> QED
      BY <1>2, <3>1
  <2>3. Q \in SUBSET Seq(U)
    OBVIOUS
  <2> HIDE DEF Q
  <2> QED
    BY <2>1, <2>2, <2>3, SeqInduct
<1> QED
  BY <1>3, <1>4

\* Of elements none of which belongs to the set nothing is left.
LEMMA SiftNone ==
  ASSUME NEW T, NEW s \in Seq(T), NEW S, \A i \in DOMAIN s : s[i] \notin S
  PROVE  Sift(s, S) = << >>
<1> DEFINE U == T \ S
<1>0. \A x \in U : x \notin S
  OBVIOUS
<1>4. s \in Seq(U)
  OBVIOUS
<1> HIDE DEF U
<1>1. Sift(<< >>, S) = << >>
  BY SiftEmpty
<1>2. ASSUME NEW u \in Seq(U), NEW x \in U, Sift(u, S) = << >>
      PROVE  Sift(Append(u, x), S) = << >>
  <2>1. Sift(Append(u, x), S) = IF x \in S THEN Append(Sift(u, S), x) ELSE Sift(u, S)
    BY SiftAppend
  <2> QED
    BY <1>0, <1>2, <2>1
<1> DEFINE Q == {u \in Seq(U) : Sift(u, S) = << >>}
<1>3. Q = Seq(U)
  <2>1. << >> \in Q
    BY <1>1
  <2>2. ASSUME NEW u \in Q, NEW x \in U PROVE Append(u, x) \in Q
    <3>1. u \in Seq(U) /\ Append(u, x) \in Seq(U)
      OBVIOUS
    <3> QED
      BY <1>2, <3>1
  <2>3. Q \in SUBSET Seq(U)
    OBVIOUS
  <2> HIDE DEF Q
  <2> QED
    BY <2>1, <2>2, <2>3, SeqInduct
<1> QED
  BY <1>3, <1>4

\* Of a sequence whose last element alone belongs to the set, that one is left.
LEMMA SiftLast ==
  ASSUME NEW T, NEW s \in Seq(T), NEW S, s # << >>,
         \A i \in 1..Len(s) : s[i] \in S <=> i = Len(s)
  PROVE  Sift(s, S) = <<s[Len(s)]>>
<1>1. PICK u \in Seq(T), x \in T : s = Append(u, x)
  BY SequenceEmptyOrAppend
<1>2. /\ Len(u) \in Nat /\ Len(s) = Len(u) + 1 /\ s[Len(s)] = x
      /\ DOMAIN u = 1..Len(u) /\ \A i \in 1..Len(u) : s[i] = u[i]
  BY <1>1, AppendProperties, LenProperties
<1>3. x \in S /\ \A i \in DOMAIN u : u[i] \notin S
  BY <1>2
<1>4. Sift(u, S) = << >>
  BY <1>3, SiftNone
<1>5. Sift(Append(u, x), S) = Append(Sift(u, S), x)
  BY <1>3, SiftAppend
<1> QED  BY <1>1, <1>2, <1>4, <1>5

\* Sifting twice is sifting by both sets.
LEMMA SiftTwice ==
  ASSUME NEW T, NEW s \in Seq(T), NEW S, NEW R
  PROVE  Sift(Sift(s, S), R) = Sift(s, S \cap R)
<1>1. Sift(Sift(<< >>, S), R) = Sift(<< >>, S \cap R)
  BY SiftEmpty
<1>2. ASSUME NEW u \in Seq(T), NEW x \in T, Sift(Sift(u, S), R) = Sift(u, S \cap R)
      PROVE  Sift(Sift(Append(u, x), S), R) = Sift(Append(u, x), S \cap R)
  <2>1. Sift(u, S) \in Seq(T)
    BY SiftType
  <2>2. Sift(Append(u, x), S) = IF x \in S THEN Append(Sift(u, S), x) ELSE Sift(u, S)
    BY SiftAppend
  <2>3. Sift(Append(u, x), S \cap R) =
          IF x \in S \cap R THEN Append(Sift(u, S \cap R), x) ELSE Sift(u, S \cap R)
    BY SiftAppend
  <2>4. Sift(Append(Sift(u, S), x), R) =
          IF x \in R THEN Append(Sift(Sift(u, S), R), x) ELSE Sift(Sift(u, S), R)
    BY <2>1, SiftAppend
  <2>5. CASE x \in S
    <3>1. Sift(Append(u, x), S) = Append(Sift(u, S), x)
      BY <2>2, <2>5
    <3>2. x \in S \cap R <=> x \in R
      BY <2>5
    <3> QED
      BY <1>2, <2>3, <2>4, <3>1, <3>2, Zenon
  <2>6. CASE x \notin S
    BY <1>2, <2>2, <2>3, <2>6
  <2> QED
    BY <2>5, <2>6
<1> DEFINE Q == {u \in Seq(T) : Sift(Sift(u, S), R) = Sift(u, S \cap R)}
<1>3. Q = Seq(T)
  <2>1. << >> \in Q
    BY <1>1
  <2>2. ASSUME NEW u \in Q, NEW x \in T PROVE Append(u, x) \in Q
    <3>1. u \in Seq(T) /\ Append(u, x) \in Seq(T)
      OBVIOUS
    <3> QED
      BY <1>2, <3>1
  <2>3. Q \in SUBSET Seq(T)
    OBVIOUS
  <2> HIDE DEF Q
  <2> QED
    BY <2>1, <2>2, <2>3, SeqInduct
<1> QED
  BY <1>3

\* Sets that agree on the elements sift alike.
LEMMA SiftSame ==
  ASSUME NEW T, NEW s \in Seq(T), NEW S, NEW R, \A x \in T : x \in S <=> x \in R
  PROVE  Sift(s, S) = Sift(s, R)
<1>1. Sift(<< >>, S) = Sift(<< >>, R)
  BY SiftEmpty
<1>2. ASSUME NEW u \in Seq(T), NEW x \in T, Sift(u, S) = Sift(u, R)
      PROVE  Sift(Append(u, x), S) = Sift(Append(u, x), R)
  <2>1. Sift(Append(u, x), S) = IF x \in S THEN Append(Sift(u, S), x) ELSE Sift(u, S)
    BY SiftAppend
  <2>2. Sift(Append(u, x), R) = IF x \in R THEN Append(Sift(u, R), x) ELSE Sift(u, R)
    BY SiftAppend
  <2> QED
    BY <1>2, <2>1, <2>2
<1> DEFINE Q == {u \in Seq(T) : Sift(u, S) = Sift(u, R)}
<1>3. Q = Seq(T)
  <2>1. << >> \in Q
    BY <1>1
  <2>2. ASSUME NEW u \in Q, NEW x \in T PROVE Append(u, x) \in Q
    <3>1. u \in Seq(T) /\ Append(u, x) \in Seq(T)
      OBVIOUS
    <3> QED
      BY <1>2, <3>1
  <2>3. Q \in SUBSET Seq(T)
    OBVIOUS
  <2> HIDE DEF Q
  <2> QED
    BY <2>1, <2>2, <2>3, SeqInduct
<1> QED
  BY <1>3

\* The elements of a longer sequence.
LEMMA RangeAppend ==
  ASSUME NEW T, NEW s \in Seq(T), NEW x \in T
  PROVE  Range(Append(s, x)) = Range(s) \cup {x}
<1> DEFINE r == Append(s, x)
           n == Len(s)
<1>1. n \in Nat /\ DOMAIN s = 1 .. n /\ DOMAIN r = 1 .. (n + 1) /\ r[n + 1] = x
      /\ \A i \in 1 .. n : r[i] = s[i]
  OBVIOUS
<1> HIDE DEF r, n
<1>2. Range(r) = Range(s) \cup {x}
  BY <1>1 DEF Range
<1> QED
  BY <1>2 DEF r

\* What is left of a sequence is what it had of the set.
LEMMA SiftRange ==
  ASSUME NEW T, NEW s \in Seq(T), NEW S
  PROVE  Range(Sift(s, S)) = Range(s) \cap S
<1>1. Range(Sift(<< >>, S)) = Range(<< >>) \cap S
  BY SiftEmpty DEF Range
<1>2. ASSUME NEW u \in Seq(T), NEW x \in T, Range(Sift(u, S)) = Range(u) \cap S
      PROVE  Range(Sift(Append(u, x), S)) = Range(Append(u, x)) \cap S
  <2>1. Sift(u, S) \in Seq(T)
    BY SiftType
  <2>2. Sift(Append(u, x), S) = IF x \in S THEN Append(Sift(u, S), x) ELSE Sift(u, S)
    BY SiftAppend
  <2>3. Range(Append(u, x)) = Range(u) \cup {x}
    BY RangeAppend
  <2>4. Range(Append(Sift(u, S), x)) = Range(Sift(u, S)) \cup {x}
    BY <2>1, RangeAppend
  <2> QED
    BY <1>2, <2>2, <2>3, <2>4
<1> DEFINE Q == {u \in Seq(T) : Range(Sift(u, S)) = Range(u) \cap S}
<1>3. Q = Seq(T)
  <2>1. << >> \in Q
    BY <1>1
  <2>2. ASSUME NEW u \in Q, NEW x \in T PROVE Append(u, x) \in Q
    <3>1. u \in Seq(T) /\ Append(u, x) \in Seq(T)
      OBVIOUS
    <3> QED
      BY <1>2, <3>1
  <2>3. Q \in SUBSET Seq(T)
    OBVIOUS
  <2> HIDE DEF Q
  <2> QED
    BY <2>1, <2>2, <2>3, SeqInduct
<1> QED
  BY <1>3
-------------------------------------------------------------------------------
\* FlattenSeq: the concatenation of a sequence of sequences.

\* The recursion by which FlattenSeq is defined: g is its function for s, up to m.
Flattens(s, m, g) == g = [i \in 1 .. m |-> IF i = 1 THEN s[i] ELSE g[i - 1] \o s[i]]

\* There is such a function for every length.
LEMMA FlattensExist ==
  ASSUME NEW s, NEW m \in Nat
  PROVE  \E g : Flattens(s, m, g)
<1> DEFINE G == {k \in Nat : \E g : Flattens(s, k, g)}
<1>1. 0 \in G
  <2> DEFINE g == [i \in 1 .. 0 |-> << >>]
  <2>1. Flattens(s, 0, g)
    BY DEF Flattens
  <2> HIDE DEF g
  <2> QED
    BY <2>1
<1>2. ASSUME NEW k \in G PROVE k + 1 \in G
  <2>1. PICK f : Flattens(s, k, f)
    OBVIOUS
  <2> DEFINE g == [i \in 1 .. (k + 1) |->
                     IF i <= k THEN f[i] ELSE IF i = 1 THEN s[i] ELSE f[i - 1] \o s[i]]
  <2>2. \A i \in 1 .. (k + 1) : g[i] = IF i = 1 THEN s[i] ELSE g[i - 1] \o s[i]
    <3>1. \A i \in 1 .. k : f[i] = IF i = 1 THEN s[i] ELSE f[i - 1] \o s[i]
      BY <2>1 DEF Flattens
    <3>2. g[k + 1] = IF k + 1 = 1 THEN s[k + 1] ELSE f[k] \o s[k + 1]
      OBVIOUS
    <3>3. \A i \in 1 .. k : g[i] = f[i]
      OBVIOUS
    <3> HIDE DEF g
    <3> QED
      BY <3>1, <3>2, <3>3
  <2>3. Flattens(s, k + 1, g)
    BY ZenonT(30), <2>2 DEF Flattens
  <2> HIDE DEF g
  <2> QED
    BY <2>3
<1>3. G = Nat
  <2>1. G \in SUBSET Nat
    OBVIOUS
  <2> HIDE DEF G
  <2> QED
    BY <1>1, <1>2, <2>1, NatInduct
<1> QED
  BY <1>3

\* Sequences that agree up to m are flattened alike up to m.
LEMMA FlattensAgree ==
  ASSUME NEW s, NEW r, NEW k \in Nat, NEW l \in Nat, NEW f, NEW g,
         Flattens(s, k, f), Flattens(r, l, g),
         NEW m \in Nat \ {0}, m <= k, m <= l, \A i \in 1 .. m : s[i] = r[i]
  PROVE  f[m] = g[m]
<1> DEFINE G == {n \in Nat : n + 1 <= m => f[n + 1] = g[n + 1]}
<1>1. \A i \in 1 .. m : /\ f[i] = IF i = 1 THEN s[i] ELSE f[i - 1] \o s[i]
                       /\ g[i] = IF i = 1 THEN r[i] ELSE g[i - 1] \o r[i]
  <2>1. ASSUME NEW i \in 1 .. k PROVE f[i] = IF i = 1 THEN s[i] ELSE f[i - 1] \o s[i]
    BY DEF Flattens
  <2>2. ASSUME NEW i \in 1 .. l PROVE g[i] = IF i = 1 THEN r[i] ELSE g[i - 1] \o r[i]
    BY DEF Flattens
  <2>3. \A i \in 1 .. m : i \in 1 .. k /\ i \in 1 .. l
    OBVIOUS
  <2> QED
    BY <2>1, <2>2, <2>3
<1>2. 0 \in G
  <2>1. 0 + 1 = 1 /\ 1 \in 1 .. m
    OBVIOUS
  <2> QED
    BY <1>1, <2>1
<1>3. ASSUME NEW n \in G PROVE n + 1 \in G
  <2> SUFFICES ASSUME n + 2 <= m PROVE f[n + 2] = g[n + 2]
    BY n \in Nat
  <2>1. n \in Nat /\ n + 2 \in 1 .. m /\ (n + 2) - 1 = n + 1 /\ n + 2 # 1 /\ n + 1 <= m
    OBVIOUS
  <2>2. f[n + 1] = g[n + 1] /\ s[n + 2] = r[n + 2]
    BY <2>1
  <2> QED
    BY <1>1, <2>1, <2>2
<1>4. G = Nat
  <2>1. G \in SUBSET Nat
    OBVIOUS
  <2> HIDE DEF G
  <2> QED
    BY <1>2, <1>3, <2>1, NatInduct
<1>5. m - 1 \in Nat /\ (m - 1) + 1 = m /\ m <= m
  OBVIOUS
<1>6. m - 1 \in G
  <2> HIDE DEF G
  <2> QED
    BY <1>4, <1>5
<1>7. \A n \in G : n + 1 <= m => f[n + 1] = g[n + 1]
  BY Zenon
<1> HIDE DEF G
<1> QED
  BY <1>5, <1>6, <1>7

\* What FlattenSeq yields.
LEMMA FlattenIs ==
  ASSUME NEW T, NEW s \in Seq(T), s # << >>
  PROVE  \E g : Flattens(s, Len(s), g) /\ FlattenSeq(s) = g[Len(s)]
<1> DEFINE g == CHOOSE g : Flattens(s, Len(s), g)
<1>1. Flattens(s, Len(s), g)
  BY FlattensExist, LenProperties
<1>2. FlattenSeq(s) = g[Len(s)]
  <2>1. Len(s) # 0
    OBVIOUS
  <2> QED
    BY <2>1 DEF FlattenSeq, Flattens
<1> QED
  BY <1>1, <1>2

\* The equations of FlattenSeq.
LEMMA FlattenEmpty == FlattenSeq(<< >>) = << >>
BY DEF FlattenSeq

LEMMA FlattenAppend ==
  ASSUME NEW T, NEW s \in Seq(Seq(T)), NEW x \in Seq(T)
  PROVE  FlattenSeq(Append(s, x)) = FlattenSeq(s) \o x
<1> DEFINE r == Append(s, x)
           k == Len(s)
<1>1. r \in Seq(Seq(T)) /\ k \in Nat /\ Len(r) = k + 1 /\ r[k + 1] = x /\ r # << >>
      /\ \A i \in 1 .. k : s[i] = r[i]
  OBVIOUS
<1> HIDE DEF r
<1>2. PICK g : Flattens(r, k + 1, g) /\ FlattenSeq(r) = g[k + 1]
  BY <1>1, FlattenIs
<1>3. g[k + 1] = IF k + 1 = 1 THEN x ELSE g[k] \o x
  <2>1. \A i \in 1 .. (k + 1) : g[i] = IF i = 1 THEN r[i] ELSE g[i - 1] \o r[i]
    BY <1>2 DEF Flattens
  <2>2. k + 1 \in 1 .. (k + 1) /\ (k + 1) - 1 = k
    BY <1>1
  <2> QED
    BY <1>1, <2>1, <2>2
<1>4. CASE s = << >>
  <2>1. k = 0 /\ << >> \o x = x
    BY <1>4
  <2> QED
    BY <1>2, <1>3, <1>4, <2>1, FlattenEmpty DEF r
<1>5. CASE s # << >>
  <2>1. k # 0
    BY <1>5
  <2>2. PICK f : Flattens(s, k, f) /\ FlattenSeq(s) = f[k]
    BY <1>5, FlattenIs
  <2>3. k + 1 \in Nat /\ k \in Nat \ {0} /\ k <= k /\ k <= k + 1 /\ k + 1 # 1
    BY <1>1, <2>1
  <2> HIDE DEF k
  <2>4. f[k] = g[k]
    <3>1. \A i \in 1 .. k : s[i] = r[i]
      BY <1>1
    <3>2. Flattens(r, k + 1, g) /\ Flattens(s, k, f)
      BY <1>2, <2>2
    <3> DEFINE l == k + 1
    <3>3. Flattens(r, l, g) /\ l \in Nat /\ k \in Nat /\ k \in Nat \ {0} /\ k <= k /\ k <= l
      BY <3>2, <2>3
    <3> HIDE DEF l
    <3> QED
      BY <3>1, <3>2, <3>3, FlattensAgree
  <2> QED
    BY <1>2, <1>3, <2>2, <2>3, <2>4 DEF r
<1> QED
  BY <1>4, <1>5

\* A flattened sequence of sequences is a sequence.
LEMMA FlattenType ==
  ASSUME NEW T, NEW s \in Seq(Seq(T))
  PROVE  FlattenSeq(s) \in Seq(T)
<1>1. FlattenSeq(<< >>) \in Seq(T)
  <2>1. << >> \in Seq(T)
    OBVIOUS
  <2> QED
    BY <2>1, FlattenEmpty
<1>2. ASSUME NEW u \in Seq(Seq(T)), NEW x \in Seq(T), FlattenSeq(u) \in Seq(T)
      PROVE  FlattenSeq(Append(u, x)) \in Seq(T)
  <2>1. FlattenSeq(u) \o x \in Seq(T)
    BY <1>2, ConcatProperties
  <2> QED
    BY <2>1, FlattenAppend
<1> DEFINE Q == {u \in Seq(Seq(T)) : FlattenSeq(u) \in Seq(T)}
<1>3. Q = Seq(Seq(T))
  <2>1. << >> \in Q
    BY <1>1
  <2>2. ASSUME NEW u \in Q, NEW x \in Seq(T) PROVE Append(u, x) \in Q
    <3>1. u \in Seq(Seq(T)) /\ Append(u, x) \in Seq(Seq(T))
      OBVIOUS
    <3> QED
      BY <1>2, <3>1
  <2>3. Q \in SUBSET Seq(Seq(T))
    OBVIOUS
  <2> HIDE DEF Q
  <2> QED
    BY <2>1, <2>2, <2>3, SeqInduct
<1> QED
  BY <1>3

\* Where only one of the parts has elements of the set, only that part is left.
LEMMA FlattenSift ==
  ASSUME NEW T, NEW s \in Seq(Seq(T)), NEW S
  PROVE  /\ (\A j \in DOMAIN s : Sift(s[j], S) = << >>) => Sift(FlattenSeq(s), S) = << >>
         /\ \A i \in DOMAIN s :
              (\A j \in DOMAIN s \ {i} : Sift(s[j], S) = << >>) =>
                Sift(FlattenSeq(s), S) = Sift(s[i], S)
<1> DEFINE None(u) == \A j \in DOMAIN u : Sift(u[j], S) = << >>
           Only(u, i) == \A j \in DOMAIN u \ {i} : Sift(u[j], S) = << >>
           P(u) == /\ None(u) => Sift(FlattenSeq(u), S) = << >>
                   /\ \A i \in DOMAIN u : Only(u, i) => Sift(FlattenSeq(u), S) = Sift(u[i], S)
           Q == {u \in Seq(Seq(T)) : P(u)}
<1>1. << >> \in Q
  BY FlattenEmpty, SiftEmpty
<1>2. ASSUME NEW u \in Q, NEW x \in Seq(T) PROVE Append(u, x) \in Q
  <2> DEFINE r == Append(u, x)
             k == Len(u)
             a == Sift(FlattenSeq(u), S)
             b == Sift(x, S)
  <2>1. /\ u \in Seq(Seq(T)) /\ r \in Seq(Seq(T)) /\ k \in Nat
        /\ DOMAIN u = 1 .. k /\ DOMAIN r = 1 .. (k + 1) /\ r[k + 1] = x
        /\ \A j \in 1 .. k : r[j] = u[j]
    OBVIOUS
  <2>2. Sift(FlattenSeq(r), S) = a \o b
    <3>1. FlattenSeq(u) \in Seq(T) /\ FlattenSeq(r) = FlattenSeq(u) \o x
      BY <2>1, FlattenType, FlattenAppend
    <3> QED
      BY <3>1, SiftConcat
  <2>3. a \in Seq(T) /\ b \in Seq(T)
    BY <2>1, FlattenType, SiftType
  <2>4. a \o << >> = a /\ << >> \o b = b /\ << >> \o << >> = << >>
    BY <2>3, ConcatEmptySeq
  <2>5. (None(u) => a = << >>) /\ \A i \in DOMAIN u : Only(u, i) => a = Sift(u[i], S)
    OBVIOUS
  <2> HIDE DEF r, k, a
  <2>6. None(r) => Sift(FlattenSeq(r), S) = << >>
    <3> SUFFICES ASSUME None(r) PROVE Sift(FlattenSeq(r), S) = << >>
      OBVIOUS
    <3>1. k + 1 \in DOMAIN r /\ \A j \in DOMAIN u : j \in DOMAIN r
      BY <2>1
    <3>2. b = << >> /\ None(u)
      BY <2>1, <3>1
    <3> QED
      BY <2>2, <2>4, <2>5, <3>2
  <2>7. ASSUME NEW i \in DOMAIN r, Only(r, i)
        PROVE  Sift(FlattenSeq(r), S) = Sift(r[i], S)
    <3>1. CASE i = k + 1
      <4>1. \A j \in DOMAIN u : j \in DOMAIN r \ {i}
        BY <2>1, <3>1
      <4>2. None(u)
        BY <2>1, <2>7, <4>1
      <4> QED
        BY <2>1, <2>2, <2>4, <2>5, <3>1, <4>2
    <3>2. CASE i # k + 1
      <4>1. i \in DOMAIN u /\ k + 1 \in DOMAIN r \ {i}
            /\ \A j \in DOMAIN u \ {i} : j \in DOMAIN r \ {i}
        BY <2>1, <3>2
      <4>2. Only(u, i) /\ b = << >>
        BY <2>1, <2>7, <4>1
      <4> QED
        BY <2>1, <2>2, <2>4, <2>5, <4>1, <4>2
    <3> QED
      BY <3>1, <3>2
  <2>8. P(r)
    BY <2>6, <2>7
  <2> HIDE DEF P
  <2> QED
    BY <2>1, <2>8 DEF r
<1>3. Q = Seq(Seq(T))
  <2>1. Q \in SUBSET Seq(Seq(T))
    OBVIOUS
  <2> HIDE DEF Q
  <2> QED
    BY <1>1, <1>2, <2>1, SeqInduct
<1>4. P(s)
  <2> HIDE DEF P
  <2> QED
    BY <1>3
<1> QED
  BY <1>4

\* Every element of a part is an element of the whole.
LEMMA FlattenRange ==
  ASSUME NEW T, NEW s \in Seq(Seq(T))
  PROVE  \A i \in DOMAIN s : Range(s[i]) \subseteq Range(FlattenSeq(s))
<1> DEFINE P(u) == \A i \in DOMAIN u : Range(u[i]) \subseteq Range(FlattenSeq(u))
           Q == {u \in Seq(Seq(T)) : P(u)}
<1>1. << >> \in Q
  OBVIOUS
<1>2. ASSUME NEW u \in Q, NEW x \in Seq(T) PROVE Append(u, x) \in Q
  <2> DEFINE r == Append(u, x)
             k == Len(u)
  <2>1. /\ u \in Seq(Seq(T)) /\ r \in Seq(Seq(T)) /\ k \in Nat
        /\ DOMAIN u = 1 .. k /\ DOMAIN r = 1 .. (k + 1) /\ r[k + 1] = x
        /\ \A j \in 1 .. k : r[j] = u[j]
    OBVIOUS
  <2>2. FlattenSeq(u) \in Seq(T) /\ FlattenSeq(r) = FlattenSeq(u) \o x
    BY <2>1, FlattenType, FlattenAppend
  <2>3. Range(FlattenSeq(r)) = Range(FlattenSeq(u)) \cup Range(x)
    BY <2>2, RangeConcatenation
  <2>4. \A i \in DOMAIN u : Range(u[i]) \subseteq Range(FlattenSeq(u))
    OBVIOUS
  <2> HIDE DEF r, k
  <2>5. ASSUME NEW i \in DOMAIN r PROVE Range(r[i]) \subseteq Range(FlattenSeq(r))
    <3>1. CASE i = k + 1
      BY <2>1, <2>3, <3>1
    <3>2. CASE i # k + 1
      <4>1. i \in DOMAIN u /\ r[i] = u[i]
        BY <2>1, <3>2
      <4> QED
        BY <2>3, <2>4, <4>1
    <3> QED
      BY <3>1, <3>2
  <2>6. P(r)
    BY <2>5
  <2> HIDE DEF P
  <2> QED
    BY <2>1, <2>6 DEF r
<1>3. Q = Seq(Seq(T))
  <2>1. Q \in SUBSET Seq(Seq(T))
    OBVIOUS
  <2> HIDE DEF Q
  <2> QED
    BY <1>1, <1>2, <2>1, SeqInduct
<1>4. P(s)
  <2> HIDE DEF P
  <2> QED
    BY <1>3
<1> QED
  BY <1>4

\* The parts of two sequences put together.
LEMMA SubSeqPrefix ==
  ASSUME NEW T, NEW s \in Seq(T), NEW r \in Seq(T)
  PROVE  /\ SubSeq(s \o r, 1, Len(s)) = s
         /\ SubSeq(s \o r, Len(s) + 1, Len(s \o r)) = r
         /\ Len(s \o r) = Len(s) + Len(r) /\ Len(s) \in Nat /\ Len(r) \in Nat
<1> DEFINE u == s \o r
           p == SubSeq(u, 1, Len(s))
           q == SubSeq(u, Len(s) + 1, Len(u))
<1>1. /\ u \in Seq(T) /\ Len(u) = Len(s) + Len(r) /\ Len(s) \in Nat /\ Len(r) \in Nat
      /\ \A i \in 1..(Len(s) + Len(r)) : u[i] = IF i <= Len(s) THEN s[i] ELSE r[i - Len(s)]
  BY ConcatProperties, LenProperties
<1> HIDE DEF u
<1>2. \A i \in 1..Len(u) : u[i] \in T
  BY <1>1, ElementOfSeq
<1>3. /\ p \in Seq(T) /\ Len(p) = Len(s) /\ \A i \in 1..Len(s) : p[i] = u[i]
  <2>1. \A i \in 1..Len(s) : u[i] \in T
    BY <1>1, <1>2
  <2> QED  BY <1>1, <2>1, SubSeqProperties
<1>4. p = s
  <2>1. \A i \in 1..Len(s) : p[i] = s[i]
    BY <1>1, <1>3
  <2> HIDE DEF p
  <2> QED  BY <1>3, <2>1, SeqEqual
<1>5. /\ q \in Seq(T) /\ Len(q) = Len(r) /\ \A i \in 1 .. Len(r) : q[i] = u[Len(s) + i]
  <2> DEFINE k == Len(s)
             l == Len(r)
             v == SubSeq(u, k + 1, k + l)
  <2>1. k \in Nat /\ l \in Nat /\ q = v /\ \A i \in (k + 1) .. (k + l) : u[i] \in T
    BY <1>1, <1>2
  <2> HIDE DEF k, l, q
  <2>2. k + 1 \in Int /\ k + l \in Int
    BY <2>1
  <2>3. /\ v \in Seq(T)
        /\ Len(v) = IF k + 1 <= k + l THEN (k + l) - (k + 1) + 1 ELSE 0
        /\ \A i \in 1 .. ((k + l) - (k + 1) + 1) : v[i] = u[(k + 1) + i - 1]
    BY <2>1, <2>2, SubSeqProperties
  <2> HIDE DEF v
  <2>4. (IF k + 1 <= k + l THEN (k + l) - (k + 1) + 1 ELSE 0) = l
    BY <2>1
  <2>5. \A i \in 1 .. l : i \in 1 .. ((k + l) - (k + 1) + 1) /\ (k + 1) + i - 1 = k + i
    BY <2>1
  <2>6. v \in Seq(T) /\ Len(v) = l /\ \A i \in 1 .. l : v[i] = u[k + i]
    BY <2>3, <2>4, <2>5
  <2> QED
    BY <2>1, <2>6 DEF k, l
<1>6. q = r
  <2>1. \A i \in 1 .. Len(r) : u[Len(s) + i] = r[i]
    BY <1>1
  <2> HIDE DEF q
  <2>2. \A i \in 1 .. Len(r) : q[i] = r[i]
    BY <1>5, <2>1
  <2> QED
    BY <1>5, <2>2, SeqEqual
<1> QED
  BY <1>1, <1>4, <1>6 DEF u

LEMMA CancelRight ==
  ASSUME NEW T, NEW p \in Seq(T), NEW q \in Seq(T), NEW r \in Seq(T), p \o r = q \o r
  PROVE  p = q
<1>1. /\ SubSeq(p \o r, 1, Len(p)) = p /\ Len(p \o r) = Len(p) + Len(r)
      /\ SubSeq(q \o r, 1, Len(q)) = q /\ Len(q \o r) = Len(q) + Len(r)
      /\ Len(p) \in Nat /\ Len(q) \in Nat /\ Len(r) \in Nat
  BY SubSeqPrefix
<1>2. Len(p) = Len(q)
  <2> DEFINE k == Len(p)
             l == Len(q)
             m == Len(r)
  <2>1. Len(p \o r) = Len(q \o r)
    OBVIOUS
  <2>2. k \in Nat /\ l \in Nat /\ m \in Nat /\ k + m = l + m
    BY <1>1, <2>1
  <2> HIDE DEF k, l, m
  <2>3. k = l
    BY <2>2
  <2> QED  BY <2>3 DEF k, l
<1> QED
  BY <1>1, <1>2
-------------------------------------------------------------------------------
\* Sums: the sums of the initial segments of a sequence.

\* The recursion by which Sums is defined: g is its function for s, up to m.
Adds(s, m, g) == g = [n \in 0 .. m |-> IF n = 0 THEN 0 ELSE g[n - 1] + s[n]]

\* There is such a function for every length.
LEMMA AddsExist ==
  ASSUME NEW s, NEW m \in Nat
  PROVE  \E g : Adds(s, m, g)
<1> DEFINE G == {k \in Nat : \E g : Adds(s, k, g)}
<1>1. 0 \in G
  <2> DEFINE g == [n \in 0 .. 0 |-> 0]
  <2>1. Adds(s, 0, g)
    BY DEF Adds
  <2> HIDE DEF g
  <2> QED
    BY <2>1
<1>2. ASSUME NEW k \in G PROVE k + 1 \in G
  <2>1. PICK f : Adds(s, k, f)
    OBVIOUS
  <2> DEFINE g == [n \in 0 .. (k + 1) |-> IF n <= k THEN f[n] ELSE f[n - 1] + s[n]]
  <2>2. \A n \in 0 .. (k + 1) : g[n] = IF n = 0 THEN 0 ELSE g[n - 1] + s[n]
    <3>1. \A n \in 0 .. k : f[n] = IF n = 0 THEN 0 ELSE f[n - 1] + s[n]
      BY <2>1 DEF Adds
    <3>2. g[k + 1] = f[k] + s[k + 1]
      OBVIOUS
    <3>3. \A n \in 0 .. k : g[n] = f[n]
      OBVIOUS
    <3> HIDE DEF g
    <3> QED
      BY <3>1, <3>2, <3>3
  <2>3. Adds(s, k + 1, g)
    BY <2>2 DEF Adds
  <2> HIDE DEF g
  <2> QED
    BY <2>3
<1>3. G = Nat
  <2>1. G \in SUBSET Nat
    OBVIOUS
  <2> HIDE DEF G
  <2> QED
    BY <1>1, <1>2, <2>1, NatInduct
<1> QED
  BY <1>3

\* The equations of Sums.
LEMMA SumsAre ==
  ASSUME NEW s, Len(s) \in Nat
  PROVE  /\ DOMAIN Sums(s) = 0 .. Len(s) /\ Sums(s)[0] = 0
         /\ \A n \in 1 .. Len(s) : Sums(s)[n] = Sums(s)[n - 1] + s[n]
<1> DEFINE g == CHOOSE g : Adds(s, Len(s), g)
<1>1. Adds(s, Len(s), g)
  BY AddsExist
<1>2. Sums(s) = g
  BY DEF Sums, Adds
<1> HIDE DEF g
<1> QED
  BY <1>1, <1>2 DEF Adds

\* Sums of natural numbers are natural numbers.
LEMMA SumsType ==
  ASSUME NEW s \in Seq(Nat)
  PROVE  Sums(s) \in [0 .. Len(s) -> Nat]
<1>0. Len(s) \in Nat /\ \A n \in 1 .. Len(s) : s[n] \in Nat
  BY LenProperties, ElementOfSeq
<1> DEFINE N == Len(s)
           f == Sums(s)
           G == {k \in Nat : k <= N => f[k] \in Nat}
<1>1. f[0] = 0 /\ \A n \in 1 .. N : f[n] = f[n - 1] + s[n]
  BY <1>0, SumsAre
<1>2. DOMAIN f = 0 .. N /\ f = [n \in 0 .. N |-> f[n]]
  BY SMTT(30), <1>0, SumsAre DEF Sums
<1> HIDE DEF f, N
<1>3. 0 \in G
  BY <1>1
<1>4. ASSUME NEW k \in G PROVE k + 1 \in G
  <2> SUFFICES ASSUME k + 1 <= N PROVE f[k + 1] \in Nat
    OBVIOUS
  <2>1. k + 1 \in 1 .. N /\ f[k] \in Nat
    BY <1>0 DEF N
  <2>2. f[k + 1] = f[k] + s[k + 1]
    BY <1>1, <2>1
  <2> QED
    BY <1>0, <2>1, <2>2 DEF N
<1>5. G = Nat
  <2>1. G \in SUBSET Nat
    OBVIOUS
  <2> HIDE DEF G
  <2> QED
    BY <1>3, <1>4, <2>1, NatInduct
<1>6. \A n \in 0 .. N : f[n] \in Nat
  BY <1>0, <1>5 DEF N
<1> QED
  BY <1>2, <1>6 DEF f, N

\* They do not go down, and go up where every summand is positive.
LEMMA SumsRise ==
  ASSUME NEW s \in Seq(Nat), NEW i \in 0 .. Len(s), NEW j \in i .. Len(s)
  PROVE  /\ Sums(s)[i] <= Sums(s)[j]
         /\ (\A n \in 1 .. Len(s) : s[n] > 0) /\ i < j => Sums(s)[i] < Sums(s)[j]
<1>0. Len(s) \in Nat /\ \A n \in 1 .. Len(s) : s[n] \in Nat
  BY LenProperties, ElementOfSeq
<1> DEFINE N == Len(s)
           f == Sums(s)
           Up(k) == /\ f[i] <= f[k]
                    /\ (\A n \in 1 .. N : s[n] > 0) /\ i < k => f[i] < f[k]
           G == {d \in Nat : i + d <= N => Up(i + d)}
<1>1. f \in [0 .. N -> Nat] /\ \A n \in 1 .. N : f[n] = f[n - 1] + s[n]
  BY <1>0, SumsAre, SumsType
<1> HIDE DEF f, N
<1>2. i \in Nat /\ i <= N /\ f[i] \in Nat
  BY SMTT(30), <1>1 DEF N
<1>3. 0 \in G
  BY <1>2
<1>4. ASSUME NEW d \in G PROVE d + 1 \in G
  <2> SUFFICES ASSUME i + (d + 1) <= N PROVE Up(i + (d + 1))
    OBVIOUS
  <2> DEFINE k == i + d
  <2>1. i + (d + 1) = k + 1 /\ k \in Nat /\ k + 1 \in 1 .. N /\ k \in 0 .. N /\ Up(k)
    BY <1>0, <1>2 DEF N
  <2> HIDE DEF k
  <2>2. f[k + 1] = f[k] + s[k + 1] /\ f[k] \in Nat /\ s[k + 1] \in Nat
    <3>1. (k + 1) - 1 = k
      BY <2>1
    <3>2. f[k + 1] = f[(k + 1) - 1] + s[k + 1]
      BY <1>1, <2>1
    <3>3. f[k] \in Nat /\ s[k + 1] \in Nat
      BY <1>0, <1>1, <2>1 DEF N
    <3> QED
      BY <3>1, <3>2, <3>3
  <2>3. f[i] <= f[k] /\ f[i] <= f[k + 1]
    BY SMTT(30), <1>2, <2>1, <2>2
  <2>4. ASSUME \A n \in 1 .. N : s[n] > 0 PROVE f[i] < f[k + 1]
    BY SMTT(30), <1>2, <2>1, <2>2, <2>3, <2>4
  <2> QED
    BY <2>1, <2>3, <2>4
<1>5. G = Nat
  <2>1. G \in SUBSET Nat
    OBVIOUS
  <2> HIDE DEF G
  <2> QED
    BY <1>3, <1>4, <2>1, NatInduct
<1>6. j - i \in Nat /\ i + (j - i) = j /\ i + (j - i) <= N
  BY <1>0, <1>2 DEF N
<1>7. Up(j)
  <2>1. j - i \in G
    BY <1>5, <1>6
  <2>2. Up(i + (j - i))
    BY <1>6, <2>1
  <2> HIDE DEF Up
  <2> QED
    BY <1>6, <2>2
<1> QED
  BY <1>7 DEF f, N
===============================================================================

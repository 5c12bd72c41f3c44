---------------------------- MODULE AlgorithmProofs ----------------------------
(***************************************************************************)
(* The records fit their buffers, the platforms capture the frames they    *)
(* should and the trampolines serve every thread, for every input.         *)
(*                                                                         *)
(* A record is summed up by its parts (Composed of a concatenation is the  *)
(* sum of both); the loops over modules and frames are recursive           *)
(* functions, each with its invariant (ListOK, UnwoundOK), proved by       *)
(* NatInduct over the number of elements it has seen; the trampoline's     *)
(* are in MinHookLemmas.                                                   *)
(***************************************************************************)
EXTENDS Algorithms, MinHookLemmas

\* The size of a record made of parts.

\* Sequences that agree up to n have the same sums up to n.
LEMMA SumsAgree ==
  ASSUME NEW s \in Seq(Nat), NEW t \in Seq(Nat), NEW n \in Nat, n <= Len(s), n <= Len(t),
         \A i \in 1 .. n : s[i] = t[i]
  PROVE  Sums(s)[n] = Sums(t)[n]
<1> DEFINE G == {k \in Nat : k <= n => Sums(s)[k] = Sums(t)[k]}
<1>0. Len(s) \in Nat /\ Len(t) \in Nat
  BY LenProperties
<1>1. 0 \in G
  BY <1>0, SumsAre
<1>2. ASSUME NEW k \in G PROVE k + 1 \in G
  <2> SUFFICES ASSUME k + 1 <= n PROVE Sums(s)[k + 1] = Sums(t)[k + 1]
    OBVIOUS
  <2>1. /\ k + 1 \in 1 .. n /\ k + 1 \in 1 .. Len(s) /\ k + 1 \in 1 .. Len(t) /\ (k + 1) - 1 = k
        /\ Sums(s)[k] = Sums(t)[k]
    BY <1>0
  <2>2. Sums(s)[k + 1] = Sums(s)[k] + s[k + 1] /\ Sums(t)[k + 1] = Sums(t)[k] + t[k + 1]
    BY <1>0, <2>1, SumsAre
  <2> QED
    BY <2>1, <2>2
<1>3. G = Nat
  <2>1. G \in SUBSET Nat
    OBVIOUS
  <2> HIDE DEF G
  <2> QED
    BY <1>1, <1>2, <2>1, NatInduct
<1> QED
  BY <1>3

\* One field more.
LEMMA ComposedAppend ==
  ASSUME NEW s \in Seq(Nat), NEW x \in Nat
  PROVE  /\ Append(s, x) \in Seq(Nat) /\ Composed(s) \in Nat
         /\ Composed(Append(s, x)) = Composed(s) + x
<1> DEFINE t == Append(s, x)
           n == Len(s)
<1>1. /\ n \in Nat /\ t \in Seq(Nat) /\ Len(t) = n + 1 /\ t[n + 1] = x
      /\ \A i \in 1 .. n : t[i] = s[i]
  BY LenProperties, AppendProperties
<1> HIDE DEF t
<1>2. Sums(t)[n + 1] = Sums(t)[n] + x
  <2>1. n + 1 \in 1 .. Len(t) /\ (n + 1) - 1 = n
    BY <1>1
  <2>2. Sums(t)[n + 1] = Sums(t)[(n + 1) - 1] + t[n + 1]
    BY SMTT(30), <1>1, <2>1, SumsAre
  <2> QED
    BY <1>1, <2>1, <2>2
<1>3. Sums(t)[n] = Sums(s)[n]
  <2>1. n <= Len(s) /\ n <= Len(t)
    BY <1>1
  <2> HIDE DEF n
  <2> QED
    BY <1>1, <2>1, SumsAgree
<1>4. Sums(s)[n] \in Nat
  BY <1>1, SumsType
<1> QED
  BY <1>1, <1>2, <1>3, <1>4 DEF Composed, t

\* No field, and up to six of them.
LEMMA ComposedEmpty == Composed(<< >>) = 0 /\ << >> \in Seq(Nat)
<1>1. << >> \in Seq(Nat) /\ Len(<< >>) = 0
  OBVIOUS
<1> QED
  BY <1>1, SumsAre DEF Composed

\* The size of a record of so many fields.
LEMMA ComposedFields ==
  ASSUME NEW s \in Seq(Nat)
  PROVE  /\ Len(s) = 1 => Composed(s) = s[1]
         /\ Len(s) = 3 => Composed(s) = s[1] + s[2] + s[3]
         /\ Len(s) = 4 => Composed(s) = s[1] + s[2] + s[3] + s[4]
         /\ Len(s) = 6 => Composed(s) = s[1] + s[2] + s[3] + s[4] + s[5] + s[6]
<1> DEFINE f == Sums(s)
<1>1. Len(s) \in Nat /\ \A i \in 1 .. Len(s) : s[i] \in Nat
  BY LenProperties, ElementOfSeq
<1>2. f[0] = 0 /\ \A n \in 1 .. Len(s) : f[n] = f[n - 1] + s[n]
  BY <1>1, SumsAre
<1>3. Composed(s) = f[Len(s)]
  BY DEF Composed
<1> HIDE DEF f
<1>4. 1 <= Len(s) => f[1] = s[1]
  BY <1>1, <1>2
<1>5. 2 <= Len(s) => f[2] = s[1] + s[2]
  BY <1>1, <1>2, <1>4
<1>6. 3 <= Len(s) => f[3] = s[1] + s[2] + s[3]
  BY <1>1, <1>2, <1>5
<1>7. 4 <= Len(s) => f[4] = s[1] + s[2] + s[3] + s[4]
  BY <1>1, <1>2, <1>6
<1>8. 5 <= Len(s) => f[5] = s[1] + s[2] + s[3] + s[4] + s[5]
  BY <1>1, <1>2, <1>7
<1>9. 6 <= Len(s) => f[6] = s[1] + s[2] + s[3] + s[4] + s[5] + s[6]
  BY SMTT(30), <1>1, <1>2, <1>8
<1>10. Len(s) = 1 => Composed(s) = s[1]
  BY <1>3, <1>4
<1>11. Len(s) = 3 => Composed(s) = s[1] + s[2] + s[3]
  BY <1>3, <1>6
<1>12. Len(s) = 4 => Composed(s) = s[1] + s[2] + s[3] + s[4]
  BY <1>3, <1>7
<1>13. Len(s) = 6 => Composed(s) = s[1] + s[2] + s[3] + s[4] + s[5] + s[6]
  BY <1>3, <1>9
<1> QED
  BY <1>10, <1>11, <1>12, <1>13

\* The size of a record of one field.
LEMMA OneField ==
  ASSUME NEW a \in Nat
  PROVE  <<a>> \in Seq(Nat) /\ Composed(<<a>>) = a
<1> DEFINE s == <<a>>
<1>1. s \in Seq(Nat) /\ Len(s) = 1
  OBVIOUS
<1>2. s[1] = a
  OBVIOUS
<1> HIDE DEF s
<1>3. Composed(s) = a
  BY <1>1, <1>2, ComposedFields
<1> QED
  BY <1>1, <1>3 DEF s

\* Of three fields.
LEMMA ThreeFields ==
  ASSUME NEW a \in Nat, NEW b \in Nat, NEW c \in Nat
  PROVE  <<a, b, c>> \in Seq(Nat) /\ Composed(<<a, b, c>>) = a + b + c
<1> DEFINE s == <<a, b, c>>
<1>1. s \in Seq(Nat) /\ Len(s) = 3
  OBVIOUS
<1>2. s[1] = a /\ s[2] = b /\ s[3] = c
  OBVIOUS
<1> HIDE DEF s
<1>3. Composed(s) = a + b + c
  BY <1>1, <1>2, ComposedFields
<1> QED
  BY <1>1, <1>3 DEF s

\* Of four fields.
LEMMA FourFields ==
  ASSUME NEW a \in Nat, NEW b \in Nat, NEW c \in Nat, NEW d \in Nat
  PROVE  <<a, b, c, d>> \in Seq(Nat) /\ Composed(<<a, b, c, d>>) = a + b + c + d
<1> DEFINE s == <<a, b, c, d>>
<1>1. s \in Seq(Nat) /\ Len(s) = 4
  OBVIOUS
<1>2. s[1] = a /\ s[2] = b /\ s[3] = c /\ s[4] = d
  OBVIOUS
<1> HIDE DEF s
<1>3. Composed(s) = a + b + c + d
  BY <1>1, <1>2, ComposedFields
<1> QED
  BY <1>1, <1>3 DEF s

\* The same field over and over.
LEMMA ComposedRepeated ==
  ASSUME NEW n \in Nat, NEW x \in Nat
  PROVE  [i \in 1 .. n |-> x] \in Seq(Nat) /\ Composed([i \in 1 .. n |-> x]) = n * x
<1> DEFINE s == [i \in 1 .. n |-> x]
           G == {k \in Nat : k <= n => Sums(s)[k] = k * x}
<1>1. s \in Seq(Nat) /\ Len(s) = n
  BY IsASeq
<1>2. \A k \in 1 .. n : s[k] = x
  OBVIOUS
<1> HIDE DEF s
<1>3. 0 \in G
  BY <1>1, SumsAre
<1>4. ASSUME NEW k \in G PROVE k + 1 \in G
  <2> SUFFICES ASSUME k + 1 <= n PROVE Sums(s)[k + 1] = (k + 1) * x
    OBVIOUS
  <2>1. k \in Nat /\ k + 1 \in 1 .. Len(s) /\ (k + 1) - 1 = k /\ Sums(s)[k] = k * x
    BY <1>1
  <2>2. Sums(s)[k + 1] = Sums(s)[(k + 1) - 1] + s[k + 1]
    BY <1>1, <2>1, SumsAre
  <2>3. Sums(s)[k + 1] = k * x + x
    BY <1>1, <1>2, <2>1, <2>2
  <2> QED
    BY <2>1, <2>3
<1>5. G = Nat
  <2>1. G \in SUBSET Nat
    OBVIOUS
  <2> HIDE DEF G
  <2> QED
    BY <1>3, <1>4, <2>1, NatInduct
<1>6. Sums(s)[n] = n * x
  BY <1>5
<1> QED
  BY <1>1, <1>6 DEF Composed, s

\* One part after the other.
LEMMA ComposedConcat ==
  ASSUME NEW s \in Seq(Nat), NEW t \in Seq(Nat)
  PROVE  s \o t \in Seq(Nat) /\ Composed(s \o t) = Composed(s) + Composed(t)
<1> DEFINE u == s \o t
           m == Len(s)
           n == Len(t)
           G == {k \in Nat : k <= n => Sums(u)[m + k] = Sums(s)[m] + Sums(t)[k]}
<1>1. m \in Nat /\ n \in Nat
  BY LenProperties
<1>2. /\ u \in Seq(Nat) /\ Len(u) = m + n
      /\ \A i \in 1 .. m : u[i] = s[i]
      /\ \A i \in 1 .. n : u[m + i] = t[i]
  <2>1. u \in Seq(Nat) /\ Len(u) = m + n
    BY ConcatProperties
  <2>2. \A i \in 1 .. m + n : u[i] = IF i <= m THEN s[i] ELSE t[i - m]
    BY ConcatProperties
  <2>3. \A i \in 1 .. m : u[i] = s[i]
    BY <1>1, <2>2
  <2>4. ASSUME NEW i \in 1 .. n PROVE u[m + i] = t[i]
    <3>1. m + i \in 1 .. m + n /\ ~(m + i <= m) /\ (m + i) - m = i
      BY <1>1
    <3> HIDE DEF u
    <3> QED
      BY <2>2, <3>1
  <2> QED
    BY <2>1, <2>3, <2>4
<1> HIDE DEF u, m, n
<1>3. Sums(s)[m] \in Nat /\ \A k \in 0 .. n : Sums(t)[k] \in Nat
  <2>1. Sums(s) \in [0 .. m -> Nat] /\ Sums(t) \in [0 .. n -> Nat]
    BY SumsType DEF m, n
  <2> QED
    BY <1>1, <2>1
<1>4. 0 \in G
  <2>1. Sums(u)[m] = Sums(s)[m]
    <3>1. m <= Len(u)
      BY <1>1, <1>2
    <3>2. m <= Len(s)
      BY <1>1 DEF m
    <3> QED
      BY <1>1, <1>2, <3>1, <3>2, SumsAgree
  <2>2. Sums(t)[0] = 0
    BY <1>1, SumsAre DEF n
  <2> QED
    BY <1>1, <1>3, <2>1, <2>2
<1>5. ASSUME NEW k \in G PROVE k + 1 \in G
  <2> SUFFICES ASSUME k + 1 <= n PROVE Sums(u)[m + (k + 1)] = Sums(s)[m] + Sums(t)[k + 1]
    OBVIOUS
  <2>1. /\ k \in Nat /\ k + 1 \in 1 .. n /\ (k + 1) - 1 = k /\ k \in 0 .. n
        /\ m + (k + 1) \in 1 .. m + n /\ (m + (k + 1)) - 1 = m + k
        /\ Sums(u)[m + k] = Sums(s)[m] + Sums(t)[k]
    BY <1>1
  <2>2. Sums(t)[k + 1] = Sums(t)[k] + t[k + 1]
    BY <1>1, <2>1, SumsAre DEF n
  <2>3. Sums(u)[m + (k + 1)] = Sums(u)[m + k] + u[m + (k + 1)]
    <3> DEFINE q == m + (k + 1)
    <3>1. q \in 1 .. Len(u) /\ q - 1 = m + k
      BY <1>2, <2>1
    <3> HIDE DEF q
    <3>2. Len(u) \in Nat
      BY <1>1, <1>2
    <3>3. Sums(u)[q] = Sums(u)[q - 1] + u[q]
      BY <3>1, <3>2, SumsAre
    <3> QED
      BY <3>1, <3>3 DEF q
  <2>4. u[m + (k + 1)] = t[k + 1] /\ t[k + 1] \in Nat
    BY <1>2, <2>1, ElementOfSeq DEF n
  <2> QED
    BY SMTT(30), <1>3, <2>1, <2>2, <2>3, <2>4
<1>6. G = Nat
  <2>1. G \in SUBSET Nat
    OBVIOUS
  <2> HIDE DEF G
  <2> QED
    BY <1>4, <1>5, <2>1, NatInduct
<1>7. Sums(u)[m + n] = Sums(s)[m] + Sums(t)[n]
  BY SMTT(30), <1>1, <1>6
<1> QED
  BY <1>2, <1>7 DEF Composed, u, m, n
-------------------------------------------------------------------------------
\* The records.

\* A string of n characters of one byte.
LEMMA StrSizes ==
  ASSUME NEW n \in Nat
  PROVE  StrSize(n, 1) \in Nat /\ StrSize(n, 1) = 4 + n
BY DEF StrSize, Bytes32

\* An operation's own fields, for one pointer or two, with its sizes or without.
LEMMA OperationSize ==
  ASSUME NEW ptr \in {4, 8}, NEW p \in {1, 2}, NEW z \in {0, 2}, NEW aligned \in BOOLEAN
  PROVE  Composed(Operation(ptr, p, z, aligned)) \in Nat
         /\ Composed(Operation(ptr, p, z, aligned)) <= 50
<1> DEFINE a == <<Marker, Bytes64, ThreadID>>
           b == [i \in 1 .. p |-> ptr]
           c == <<Clock>>
           d == IF aligned THEN <<1>> ELSE << >>
           e == [i \in 1 .. z |-> Bytes32]
<1>1. a \in Seq(Nat) /\ Composed(a) = 17
  BY ThreeFields DEF Marker, Bytes64, ThreadID
<1>2. b \in Seq(Nat) /\ Composed(b) \in Nat /\ Composed(b) <= 16
  <2>1. ptr \in Nat /\ p \in Nat
    OBVIOUS
  <2>2. b \in Seq(Nat) /\ Composed(b) = p * ptr
    BY <2>1, ComposedRepeated
  <2> QED
    BY <2>2
<1>3. c \in Seq(Nat) /\ Composed(c) = 8
  BY OneField DEF Clock, Bytes64
<1>4. d \in Seq(Nat) /\ Composed(d) \in Nat /\ Composed(d) <= 1
  BY OneField, ComposedEmpty
<1>5. e \in Seq(Nat) /\ Composed(e) \in Nat /\ Composed(e) <= 8
  <2>1. Bytes32 \in Nat /\ z \in Nat
    BY DEF Bytes32
  <2>2. e \in Seq(Nat) /\ Composed(e) = z * Bytes32
    BY <2>1, ComposedRepeated
  <2> QED
    BY <2>2 DEF Bytes32
<1>6. Operation(ptr, p, z, aligned) = (((a \o b) \o c) \o d) \o e
  BY DEF Operation
<1> HIDE DEF a, b, c, d, e
<1>7. a \o b \in Seq(Nat) /\ Composed(a \o b) = 17 + Composed(b)
  BY <1>1, <1>2, ComposedConcat
<1>8. (a \o b) \o c \in Seq(Nat) /\ Composed((a \o b) \o c) = 25 + Composed(b)
  <2> DEFINE ab == a \o b
  <2>1. ab \in Seq(Nat) /\ Composed(ab) = 17 + Composed(b)
    BY <1>7
  <2> HIDE DEF ab
  <2>2. ab \o c \in Seq(Nat) /\ Composed(ab \o c) = (17 + Composed(b)) + 8
    BY <1>3, <2>1, ComposedConcat
  <2> QED
    BY <1>2, <2>2 DEF ab
<1>9. /\ ((a \o b) \o c) \o d \in Seq(Nat)
      /\ Composed(((a \o b) \o c) \o d) = 25 + Composed(b) + Composed(d)
  BY <1>4, <1>8, ComposedConcat
<1>10. Composed((((a \o b) \o c) \o d) \o e) = 25 + Composed(b) + Composed(d) + Composed(e)
  BY <1>5, <1>9, ComposedConcat
<1> QED
  BY SMTT(60), <1>2, <1>4, <1>5, <1>6, <1>10

\* The static_assert of rmem_hook.cpp, for every depth of trace and both sizes of
\* pointer: the longest operation with the deepest trace fits OpBufferSize.
LEMMA OperationsFit ==
  ASSUME NEW ptr \in {4, 8}, NEW n \in 0 .. RMEM_STACK_TRACE_MAX, NEW o \in DOMAIN Operations(ptr)
  PROVE  Composed(Operations(ptr)[o]) + Composed(addStackTrace_new(ptr, n)) <= OpBufferSize(ptr)
<1>1. RMEM_STACK_TRACE_MAX \in Nat /\ n \in Nat /\ n <= RMEM_STACK_TRACE_MAX /\ ptr \in Nat
  BY LayoutAssumption
<1>2. Composed(Operations(ptr)[o]) \in Nat /\ Composed(Operations(ptr)[o]) <= 50
  <2>1. o \in {"alloc", "realloc", "allocAligned", "reallocAligned", "free"}
    BY DEF Operations
  <2>2. CASE o = "alloc"
    <3>1. Operations(ptr)[o] = Operation(ptr, 1, 2, FALSE)
      BY <2>2 DEF Operations
    <3> QED
      BY <3>1, OperationSize
  <2>3. CASE o = "realloc"
    <3>1. Operations(ptr)[o] = Operation(ptr, 2, 2, FALSE)
      BY <2>3 DEF Operations
    <3> QED
      BY <3>1, OperationSize
  <2>4. CASE o = "allocAligned"
    <3>1. Operations(ptr)[o] = Operation(ptr, 1, 2, TRUE)
      BY <2>4 DEF Operations
    <3> QED
      BY <3>1, OperationSize
  <2>5. CASE o = "reallocAligned"
    <3>1. Operations(ptr)[o] = Operation(ptr, 2, 2, TRUE)
      BY <2>5 DEF Operations
    <3> QED
      BY <3>1, OperationSize
  <2>6. CASE o = "free"
    <3>1. Operations(ptr)[o] = Operation(ptr, 1, 0, FALSE)
      BY <2>6 DEF Operations
    <3> QED
      BY <3>1, OperationSize
  <2> QED
    BY <2>1, <2>2, <2>3, <2>4, <2>5, <2>6
<1>3. Composed(addStackTrace_new(ptr, n)) = 7 + n * ptr
  <2>1. <<1, Hash, 2>> \in Seq(Nat) /\ Composed(<<1, Hash, 2>>) = 7
    BY ThreeFields DEF Hash, Bytes32
  <2>2. [i \in 1 .. n |-> ptr] \in Seq(Nat) /\ Composed([i \in 1 .. n |-> ptr]) = n * ptr
    BY <1>1, ComposedRepeated
  <2> QED
    BY <2>1, <2>2, ComposedConcat DEF addStackTrace_new
<1>4. n * ptr <= RMEM_STACK_TRACE_MAX * ptr /\ n * ptr \in Nat /\ RMEM_STACK_TRACE_MAX * ptr \in Nat
  BY <1>1
<1> QED
  BY <1>2, <1>3, <1>4 DEF OpBufferSize

\* The records with a name, and those without: of the ones that are not tested,
\* the names they have room for.
LEMMA NamesFit ==
  ASSUME NEW n \in Nat, NEW m \in Nat
  PROVE  /\ Composed(registerThreadName(n)) <= SmallBuffer
         /\ Composed(tagScope) <= SmallBuffer /\ Composed(marker) <= SmallBuffer
         /\ Composed(registerTag(n, m)) <= SmallBuffer <=> n + m <= SmallBuffer - 17
         /\ Composed(registerTag(n, -1)) <= SmallBuffer <=> n <= SmallBuffer - 13
         /\ Composed(registerMarker(n)) <= SmallBuffer <=> n <= SmallBuffer - 13
         /\ Composed(registerAllocator(n)) <= SmallBuffer <=> n <= SmallBuffer - 13
<1>1. SmallBuffer \in Nat /\ 21 <= SmallBuffer
  BY LayoutAssumption
<1>2. /\ StrSize(n, 1) \in Nat /\ StrSize(n, 1) = 4 + n /\ StrSize(0, 1) \in Nat /\ StrSize(0, 1) = 4
      /\ StrSize(m, 1) \in Nat /\ StrSize(m, 1) = 4 + m
  BY StrSizes
<1>3. /\ Marker = 1 /\ Hash = 4 /\ Bytes32 = 4 /\ Bytes64 = 8 /\ Clock = 8 /\ ThreadID = 8
      /\ Marker \in Nat /\ Hash \in Nat /\ Bytes32 \in Nat /\ Bytes64 \in Nat /\ Clock \in Nat
      /\ ThreadID \in Nat
  BY DEF Marker, Hash, Bytes32, Bytes64, Clock, ThreadID
<1>4. Composed(tagScope) = Marker + Hash + ThreadID
  BY <1>3, ThreeFields DEF tagScope
<1>5. Composed(marker) = Marker + Hash + ThreadID + Clock
  BY <1>3, FourFields DEF marker
<1>6. Composed(registerThreadName(n)) <= SmallBuffer
  <2>1. CASE TooLong(n, 1, SmallBuffer)
    BY <1>1, <2>1, ComposedEmpty DEF registerThreadName
  <2>2. CASE ~TooLong(n, 1, SmallBuffer)
    <3>1. n + 64 <= SmallBuffer
      BY <1>1, <2>2 DEF TooLong
    <3>2. Composed(<<Marker, Bytes64, StrSize(n, 1)>>) = Marker + Bytes64 + StrSize(n, 1)
      BY <1>2, <1>3, ThreeFields
    <3> QED
      BY <1>1, <1>2, <1>3, <2>2, <3>1, <3>2 DEF registerThreadName
  <2> QED
    BY <2>1, <2>2
<1>7. Composed(registerMarker(n)) = Marker + StrSize(n, 1) + Hash + Bytes32
  BY <1>2, <1>3, FourFields DEF registerMarker
<1>8. Composed(registerAllocator(n)) = Marker + StrSize(n, 1) + Bytes64
  BY <1>2, <1>3, ThreeFields DEF registerAllocator
<1>9. Composed(registerTag(n, m)) = Marker + StrSize(n, 1) + StrSize(m, 1) + Hash + Hash
  <2>1. ~(m < 0)
    OBVIOUS
  <2>2. registerTag(n, m) = <<Marker, StrSize(n, 1), StrSize(m, 1), Hash>> \o <<Hash>>
    BY <2>1 DEF registerTag
  <2>3. /\ <<Marker, StrSize(n, 1), StrSize(m, 1), Hash>> \in Seq(Nat)
        /\ Composed(<<Marker, StrSize(n, 1), StrSize(m, 1), Hash>>)
             = Marker + StrSize(n, 1) + StrSize(m, 1) + Hash
    BY <1>2, <1>3, FourFields
  <2>4. <<Hash>> \in Seq(Nat) /\ Composed(<<Hash>>) = Hash
    BY <1>3, OneField
  <2> QED
    BY <2>2, <2>3, <2>4, ComposedConcat
<1>10. Composed(registerTag(n, -1)) = Marker + StrSize(n, 1) + StrSize(0, 1) + Hash
  <2>1. registerTag(n, -1) = <<Marker, StrSize(n, 1), StrSize(0, 1), Hash>> \o << >>
    BY DEF registerTag
  <2>2. /\ <<Marker, StrSize(n, 1), StrSize(0, 1), Hash>> \in Seq(Nat)
        /\ Composed(<<Marker, StrSize(n, 1), StrSize(0, 1), Hash>>)
             = Marker + StrSize(n, 1) + StrSize(0, 1) + Hash
    BY <1>2, <1>3, FourFields
  <2>3. Composed(<<Marker, StrSize(n, 1), StrSize(0, 1), Hash>> \o << >>)
          = Composed(<<Marker, StrSize(n, 1), StrSize(0, 1), Hash>>) + Composed(<< >>)
    BY <2>2, ComposedEmpty, ComposedConcat
  <2> QED
    BY SMTT(30), <1>2, <1>3, <2>1, <2>2, <2>3, ComposedEmpty
<1> QED
  BY <1>1, <1>2, <1>3, <1>4, <1>5, <1>6, <1>7, <1>8, <1>9, <1>10

\* The record of a module, with characters of 1, 2 or 4 bytes.
LEMMA ModulesFit ==
  ASSUME NEW n \in Nat, NEW w \in {1, 2, 4}
  PROVE  Composed(registerModule(n, w)) <= ModuleBuffer
<1>1. ModuleBuffer \in Nat
  BY LayoutAssumption
<1>2. CASE TooLong(n, w, ModuleBuffer)
  BY <1>1, <1>2, ComposedEmpty DEF registerModule
<1>3. CASE ~TooLong(n, w, ModuleBuffer)
  <2>1. n * w \in Nat /\ n * w + 64 <= ModuleBuffer
    BY <1>1, <1>3 DEF TooLong
  <2>2. StrSize(n, w) \in Nat /\ StrSize(n, w) = 4 + n * w
    BY <2>1 DEF StrSize, Bytes32
  <2> DEFINE s == registerModule(n, w)
  <2>3. s = <<1, 1, StrSize(n, w), 8, 4, 8>>
    BY <1>3 DEF registerModule, Marker, Bytes64, Bytes32, Clock
  <2> HIDE DEF s
  <2>4. s \in Seq(Nat) /\ Len(s) = 6
    BY <2>2, <2>3
  <2>5. s[1] = 1 /\ s[2] = 1 /\ s[3] = StrSize(n, w) /\ s[4] = 8 /\ s[5] = 4 /\ s[6] = 8
    BY <2>3
  <2>6. Composed(s) = s[1] + s[2] + s[3] + s[4] + s[5] + s[6]
    BY <2>4, ComposedFields
  <2>7. Composed(s) = 26 + n * w
    BY <2>1, <2>2, <2>5, <2>6
  <2> QED
    BY <1>1, <2>1, <2>7 DEF s
<1> QED
  BY <1>2, <1>3
-------------------------------------------------------------------------------
\* The list of modules.

Lists == [written : Nat, listed : Nat, full : BOOLEAN, bufferSize : Nat]
Entries(names) == Sums([i \in DOMAIN names |-> ModuleEntry(names[i])])

\* The recursion by which ModulesAdded is defined, up to m.
Adding(names, size, m, g) ==
  g = [n \in 0 .. m |->
         IF n = 0 THEN [written |-> 1, listed |-> 0, full |-> FALSE, bufferSize |-> size]
         ELSE AddModule(g[n - 1], names[n])]

\* It has a solution.
LEMMA AddingExists ==
  ASSUME NEW names, NEW size, NEW m \in Nat
  PROVE  \E g : Adding(names, size, m, g)
<1> DEFINE G == {k \in Nat : \E g : Adding(names, size, k, g)}
           first == [written |-> 1, listed |-> 0, full |-> FALSE, bufferSize |-> size]
<1>1. 0 \in G
  <2> DEFINE g == [n \in 0 .. 0 |-> first]
  <2>1. Adding(names, size, 0, g)
    BY DEF Adding
  <2> HIDE DEF g
  <2> QED
    BY <2>1
<1>2. ASSUME NEW k \in G PROVE k + 1 \in G
  <2>1. PICK f : Adding(names, size, k, f)
    OBVIOUS
  <2> DEFINE g == [n \in 0 .. (k + 1) |-> IF n <= k THEN f[n] ELSE AddModule(f[n - 1], names[n])]
  <2>2. \A n \in 0 .. (k + 1) : g[n] = IF n = 0 THEN first ELSE AddModule(g[n - 1], names[n])
    <3>1. \A n \in 0 .. k : f[n] = IF n = 0 THEN first ELSE AddModule(f[n - 1], names[n])
      BY <2>1 DEF Adding
    <3>2. g[k + 1] = AddModule(f[k], names[k + 1])
      OBVIOUS
    <3>3. \A n \in 0 .. k : g[n] = f[n]
      OBVIOUS
    <3> HIDE DEF g, first
    <3> QED
      BY <3>1, <3>2, <3>3
  <2>3. Adding(names, size, k + 1, g)
    BY <2>2 DEF Adding
  <2> HIDE DEF g
  <2> QED
    BY <2>3
<1>3. G = Nat
  <2>1. G \in SUBSET Nat
    OBVIOUS
  <2> HIDE DEF G
  <2> QED
    BY <1>1, <1>2, <2>1, NatInduct
<1> QED
  BY <1>3

\* The equations of ModulesAdded.
LEMMA ModulesAddedAre ==
  ASSUME NEW names, Len(names) \in Nat, NEW size, NEW n \in 0 .. Len(names)
  PROVE  ModulesAdded(names, size)[n]
           = IF n = 0 THEN [written |-> 1, listed |-> 0, full |-> FALSE, bufferSize |-> size]
             ELSE AddModule(ModulesAdded(names, size)[n - 1], names[n])
<1> DEFINE g == CHOOSE g : Adding(names, size, Len(names), g)
<1>1. Adding(names, size, Len(names), g)
  BY AddingExists
<1>2. ModulesAdded(names, size) = g
  BY DEF ModulesAdded, Adding
<1> HIDE DEF g
<1>3. g[n] = IF n = 0 THEN [written |-> 1, listed |-> 0, full |-> FALSE, bufferSize |-> size]
             ELSE AddModule(g[n - 1], names[n])
  BY <1>1 DEF Adding
<1> QED
  BY <1>2, <1>3

\* Where the entries come to lie.
LEMMA EntriesAre ==
  ASSUME NEW names \in Seq(Nat)
  PROVE  /\ Len(names) \in Nat /\ Entries(names) \in [0 .. Len(names) -> Nat]
         /\ Entries(names)[0] = 0
         /\ \A n \in 1 .. Len(names) :
              Entries(names)[n] = Entries(names)[n - 1] + ModuleEntry(names[n])
         /\ \A n \in 1 .. Len(names) : ModuleEntry(names[n]) \in Nat
         /\ \A n \in 0 .. Len(names) : \A m \in n .. Len(names) : Entries(names)[n] <= Entries(names)[m]
         /\ \A n \in 0 .. Len(names) :
              Composed([i \in 1 .. n |-> ModuleEntry(names[i])]) = Entries(names)[n]
<1> DEFINE s == [i \in DOMAIN names |-> ModuleEntry(names[i])]
<1>1. Len(names) \in Nat /\ DOMAIN names = 1 .. Len(names)
  BY LenProperties
<1>2. \A i \in 1 .. Len(names) : ModuleEntry(names[i]) \in Nat
  BY ElementOfSeq DEF ModuleEntry, StrSize, Bytes32, Bytes64
<1>3. s \in Seq(Nat) /\ Len(s) = Len(names)
  BY <1>1, <1>2, IsASeq
<1>4. \A i \in 1 .. Len(names) : s[i] = ModuleEntry(names[i])
  BY <1>1
<1>5. ASSUME NEW n \in 0 .. Len(names)
      PROVE  Composed([i \in 1 .. n |-> ModuleEntry(names[i])]) = Sums(s)[n]
  <2> DEFINE t == [i \in 1 .. n |-> ModuleEntry(names[i])]
  <2>1. n \in Nat /\ n <= Len(names) /\ \A i \in 1 .. n : i \in 1 .. Len(names)
    BY <1>1
  <2>2. t \in Seq(Nat) /\ Len(t) = n
    BY <1>2, <2>1, IsASeq
  <2>3. \A i \in 1 .. n : t[i] = s[i]
    BY <1>4, <2>1
  <2> HIDE DEF t, s
  <2>4. Sums(t)[n] = Sums(s)[n]
    BY SMTT(60), <1>3, <2>1, <2>2, <2>3, SumsAgree
  <2> QED
    BY <2>2, <2>4 DEF Composed, t
<1> HIDE DEF s
<1>6. Sums(s) \in [0 .. Len(names) -> Nat] /\ Sums(s)[0] = 0
  BY <1>1, <1>3, SumsType, SumsAre
<1>7. \A n \in 1 .. Len(names) : Sums(s)[n] = Sums(s)[n - 1] + ModuleEntry(names[n])
  <2>1. \A n \in 1 .. Len(s) : Sums(s)[n] = Sums(s)[n - 1] + s[n]
    BY <1>1, <1>3, SumsAre
  <2> QED
    BY <1>3, <1>4, <2>1
<1>8. \A n \in 0 .. Len(names) : \A m \in n .. Len(names) : Sums(s)[n] <= Sums(s)[m]
  BY <1>3, SumsRise
<1>9. Entries(names) = Sums(s)
  BY DEF Entries, s
<1> QED
  BY <1>1, <1>2, <1>5, <1>6, <1>7, <1>8, <1>9

\* The list holds the entries of the first modules, whole, and it is full when
\* the next one has no room.
ListOK(list, names, size, n) ==
  /\ list \in Lists /\ list.bufferSize = size /\ list.listed <= n
  /\ list.written = 1 + Entries(names)[list.listed] /\ list.written <= size
  /\ ~list.full => list.listed = n
  /\ list.full => list.listed < n /\ 1 + Entries(names)[list.listed + 1] > size

\* One module more keeps the list right.
LEMMA AddModuleOK ==
  ASSUME NEW names \in Seq(Nat), NEW size \in Nat, NEW n \in Nat, n + 1 <= Len(names),
         NEW list, ListOK(list, names, size, n)
  PROVE  ListOK(AddModule(list, names[n + 1]), names, size, n + 1)
<1> DEFINE next == AddModule(list, names[n + 1])
           entry == ModuleEntry(names[n + 1])
<1>1. /\ Len(names) \in Nat /\ n + 1 \in 1 .. Len(names) /\ (n + 1) - 1 = n /\ entry \in Nat
      /\ Entries(names)[n + 1] = Entries(names)[n] + entry /\ Entries(names)[n] \in Nat
  <2>1. Len(names) \in Nat
    BY EntriesAre
  <2>2. n + 1 \in 1 .. Len(names) /\ (n + 1) - 1 = n /\ n \in 0 .. Len(names)
    BY <2>1
  <2> QED
    BY <2>1, <2>2, EntriesAre
<1>2. list \in Lists /\ list.written \in Nat /\ list.listed \in Nat /\ list.full \in BOOLEAN
  BY DEF ListOK, Lists
<1>3. CASE list.full
  <2>1. next = [list EXCEPT !.full = TRUE]
    BY <1>3 DEF AddModule
  <2>2. next \in Lists /\ next.bufferSize = list.bufferSize /\ next.listed = list.listed
        /\ next.written = list.written /\ next.full = TRUE
    BY <1>2, <2>1 DEF Lists
  <2> HIDE DEF next
  <2> QED
    BY SMTT(30), <1>2, <1>3, <2>2 DEF ListOK, next
<1>4. CASE ~list.full /\ ~moduleEntryFits(list.written, names[n + 1], list.bufferSize)
  <2>1. next = [list EXCEPT !.full = TRUE]
    BY <1>4 DEF AddModule
  <2>2. next \in Lists /\ next.bufferSize = list.bufferSize /\ next.listed = list.listed
        /\ next.written = list.written /\ next.full = TRUE
    BY <1>2, <2>1 DEF Lists
  <2>3. list.listed = n /\ list.bufferSize = size /\ list.written = 1 + Entries(names)[n]
    BY <1>4 DEF ListOK
  <2>4. ~(list.written + entry <= size)
    BY <1>4, <2>3 DEF moduleEntryFits
  <2> HIDE DEF next, entry
  <2>5. 1 + Entries(names)[n + 1] > size
    BY SMTT(30), <1>1, <1>2, <2>3, <2>4
  <2> QED
    BY <1>2, <2>2, <2>3, <2>5 DEF ListOK, next
<1>5. CASE ~list.full /\ moduleEntryFits(list.written, names[n + 1], list.bufferSize)
  <2>1. next = [list EXCEPT !.written = list.written + entry, !.listed = list.listed + 1]
    BY <1>5 DEF AddModule
  <2> HIDE DEF entry
  <2>2. /\ next = [written |-> list.written + entry, listed |-> list.listed + 1,
                   full |-> list.full, bufferSize |-> list.bufferSize]
        /\ list.bufferSize \in Nat
    BY <1>2, <2>1 DEF Lists
  <2>3. list.listed = n /\ list.bufferSize = size /\ list.written = 1 + Entries(names)[n]
    BY <1>5 DEF ListOK
  <2>4. list.written + entry <= size
    BY <1>5, <2>3 DEF moduleEntryFits, entry
  <2> HIDE DEF next
  <2>5. next \in Lists
    <3>1. list.written + entry \in Nat
      BY SMTT(30), <1>1, <1>2
    <3>2. list.listed + 1 \in Nat
      BY <1>2
    <3> QED
      BY <1>2, <2>2, <3>1, <3>2 DEF Lists
  <2>6. /\ next.listed = n + 1 /\ next.bufferSize = size /\ ~next.full
        /\ next.written = 1 + Entries(names)[n + 1] /\ next.written <= size
    BY <1>1, <1>5, <2>2, <2>3, <2>4
  <2> QED
    BY <1>1, <2>5, <2>6 DEF ListOK, next
<1> QED
  BY <1>3, <1>4, <1>5

\* So the list is right after any number of modules.
LEMMA ModulesAddedOK ==
  ASSUME NEW names \in Seq(Nat), NEW size \in Nat \ {0}, NEW n \in 0 .. Len(names)
  PROVE  ListOK(ModulesAdded(names, size)[n], names, size, n)
<1>a. \A i \in 1 .. Len(names) :
        ModulesAdded(names, size)[i] = AddModule(ModulesAdded(names, size)[i - 1], names[i])
  <2>1. Len(names) \in Nat
    BY LenProperties
  <2>2. ASSUME NEW i \in 1 .. Len(names)
        PROVE  ModulesAdded(names, size)[i] = AddModule(ModulesAdded(names, size)[i - 1], names[i])
    <3>1. i \in 0 .. Len(names) /\ i # 0
      BY <2>1
    <3> QED
      BY ZenonT(30), <2>1, <3>1, ModulesAddedAre
  <2> QED
    BY <2>2
<1> DEFINE l(k) == ModulesAdded(names, size)[k]
           G == {k \in Nat : k <= Len(names) => ListOK(l(k), names, size, k)}
<1>0. Len(names) \in Nat
  BY LenProperties
<1>1. 0 \in G
  <2>1. l(0) = [written |-> 1, listed |-> 0, full |-> FALSE, bufferSize |-> size]
    BY <1>0, ModulesAddedAre
  <2> HIDE DEF l
  <2>2. ListOK(l(0), names, size, 0)
    BY <2>1, EntriesAre DEF ListOK, Lists
  <2> QED
    BY <2>2
<1>2. ASSUME NEW k \in G PROVE k + 1 \in G
  <2> SUFFICES ASSUME k + 1 <= Len(names) PROVE ListOK(l(k + 1), names, size, k + 1)
    OBVIOUS
  <2>1. k \in Nat /\ k + 1 \in 1 .. Len(names) /\ (k + 1) - 1 = k /\ ListOK(l(k), names, size, k)
    BY <1>0
  <2>2. l(k + 1) = AddModule(l(k), names[k + 1])
    BY <1>a, <2>1
  <2> HIDE DEF l
  <2> QED
    BY <2>1, <2>2, AddModuleOK
<1>3. G = Nat
  <2>1. G \in SUBSET Nat
    OBVIOUS
  <2> HIDE DEF G
  <2> QED
    BY <1>1, <1>2, <2>1, NatInduct
<1>4. n \in G /\ n <= Len(names)
  BY <1>0, <1>3
<1> QED
  BY <1>4

\* What getModuleInfo returns: whole entries up to the first module that has no
\* room, or nothing at all.
LEMMA ListFits ==
  ASSUME NEW in, in.names \in Seq(Nat), in.size \in Nat \ {0}, in.platform \in ListPlatforms,
         in.error \in BOOLEAN
  PROVE  LET info == getModuleInfo(in.platform, in.names, in.size, in.error)
             entries(k) == 1 + Composed([i \in 1 .. k |-> ModuleEntry(in.names[i])])
         IN  IF NoList(in, entries(Len(in.names))) THEN info.written = 0
             ELSE /\ info.written = entries(info.listed) /\ info.written <= in.size
                  /\ info.listed < Len(in.names) => entries(info.listed + 1) > in.size
<1> DEFINE names == in.names
           size == in.size
           platform == in.platform
           error == in.error
<1>9. /\ names \in Seq(Nat) /\ size \in Nat \ {0} /\ platform \in ListPlatforms
      /\ error \in BOOLEAN
  OBVIOUS
<1> HIDE DEF names, size, platform, error
<1> DEFINE N == Len(names)
           list == ModulesAdded(names, size)[N]
           out == getModuleInfo(platform, names, size, error)
           lost == \/ platform = "OTHER"
                   \/ platform # "WINDOWS" /\ error
                   \/ platform = "XBOX360" /\ list.full
           entries(k) == 1 + Composed([i \in 1 .. k |-> ModuleEntry(names[i])])
<1>1. /\ N \in Nat /\ \A k \in 0 .. N : Entries(names)[k] \in Nat
      /\ \A k \in 0 .. N : entries(k) = 1 + Entries(names)[k]
      /\ \A k \in 0 .. N : Entries(names)[k] <= Entries(names)[N]
  <2>1. N \in Nat /\ \A k \in 0 .. N : N \in k .. N
    BY <1>9, EntriesAre
  <2> QED
    BY <1>9, <2>1, EntriesAre
<1>2. ListOK(list, names, size, N)
  BY <1>1, <1>9, ModulesAddedOK
<1>3. out = IF lost THEN [list EXCEPT !.written = 0, !.listed = 0] ELSE list
  BY <1>9 DEF getModuleInfo, ListPlatforms
<1> HIDE DEF list, out, entries, N
<1>4. /\ list \in Lists /\ list.listed \in Nat /\ list.written \in Nat /\ list.listed <= N
      /\ list.written = 1 + Entries(names)[list.listed] /\ list.written <= size
      /\ ~list.full => list.listed = N
      /\ list.full => list.listed < N /\ 1 + Entries(names)[list.listed + 1] > size
  BY <1>2 DEF ListOK, Lists
<1>5. list.listed \in 0 .. N /\ N \in 0 .. N /\ (list.listed < N => list.listed + 1 \in 0 .. N)
  BY SMTT(30), <1>1, <1>4
<1>6. list.full <=> entries(N) > size
  <2>1. ASSUME list.full PROVE entries(N) > size
    <3>1. Entries(names)[list.listed + 1] <= Entries(names)[N]
      BY <1>1, <1>4, <1>5, <2>1
    <3>2. Entries(names)[list.listed + 1] \in Nat /\ Entries(names)[N] \in Nat
      BY <1>1, <1>4, <1>5, <2>1
    <3> QED
      BY SMTT(30), <1>1, <1>4, <1>5, <1>9, <2>1, <3>1, <3>2
  <2>2. ASSUME ~list.full PROVE ~(entries(N) > size)
    <3>1. list.listed = N /\ entries(N) = 1 + Entries(names)[N]
      BY <1>1, <1>4, <1>5, <2>2
    <3>2. size \in Nat /\ entries(N) <= size /\ entries(N) \in Nat
      BY <1>1, <1>4, <1>5, <1>9, <3>1
    <3> QED
      BY <3>2
  <2> QED
    BY Zenon, <2>1, <2>2
<1>10. lost <=> NoList(in, entries(N))
  BY <1>6 DEF NoList, platform, size, error
<1> HIDE DEF lost
<1>7. CASE lost
  <2>1. out.written = 0
    BY <1>3, <1>4, <1>7 DEF Lists
  <2> QED
    BY <1>7, <1>10, <2>1 DEF out, entries, N, names, size, platform, error
<1>8. CASE ~lost
  <2>1. out = list
    BY <1>3, <1>8
  <2>2. out.written = entries(out.listed) /\ out.written <= size
    BY <1>1, <1>4, <1>5, <2>1
  <2>3. ASSUME out.listed < N PROVE entries(out.listed + 1) > size
    BY <1>1, <1>4, <1>5, <2>1, <2>3
  <2> QED
    BY <1>8, <1>10, <2>2, <2>3 DEF out, entries, N, names, size, platform, error
<1> QED
  BY <1>7, <1>8
-------------------------------------------------------------------------------
\* The capture of a stack.

\* The frames behind the ones to skip.
LEMMA SkippedIs ==
  ASSUME NEW s \in Seq(Nat), NEW n \in Nat
  PROVE  /\ Skipped(s, n) \in Seq(Nat) /\ Len(s) \in Nat
         /\ Len(Skipped(s, n)) = IF n < Len(s) THEN Len(s) - n ELSE 0
         /\ \A i \in 1 .. Len(Skipped(s, n)) : Skipped(s, n)[i] = s[n + i]
<1> DEFINE t == SubSeq(s, n + 1, Len(s))
<1>1. Len(s) \in Nat /\ \A i \in 1 .. Len(s) : s[i] \in Nat
  BY LenProperties, ElementOfSeq
<1>2. n + 1 \in Int /\ Len(s) \in Int /\ \A i \in n + 1 .. Len(s) : s[i] \in Nat
  BY <1>1
<1>3. /\ t \in Seq(Nat) /\ Len(t) = IF n + 1 <= Len(s) THEN Len(s) - (n + 1) + 1 ELSE 0
      /\ \A i \in 1 .. Len(s) - (n + 1) + 1 : t[i] = s[(n + 1) + i - 1]
  BY SMTT(30), <1>2, SubSeqProperties
<1> HIDE DEF t
<1>4. /\ Len(t) = IF n < Len(s) THEN Len(s) - n ELSE 0
      /\ \A i \in 1 .. Len(t) : t[i] = s[n + i]
  <2>1. Len(t) = IF n < Len(s) THEN Len(s) - n ELSE 0
    BY <1>1, <1>3
  <2>2. ASSUME NEW i \in 1 .. Len(t) PROVE t[i] = s[n + i]
    <3>1. i \in 1 .. Len(s) - (n + 1) + 1 /\ (n + 1) + i - 1 = n + i
      BY <1>1, <2>1
    <3> QED
      BY <1>3, <3>1
  <2> QED
    BY <2>1, <2>2
<1> QED
  BY <1>1, <1>3, <1>4 DEF Skipped, t

\* The first frames.
LEMMA UptoIs ==
  ASSUME NEW s \in Seq(Nat), NEW n \in Nat
  PROVE  /\ Upto(s, n) \in Seq(Nat) /\ Len(s) \in Nat
         /\ Len(Upto(s, n)) = IF n < Len(s) THEN n ELSE Len(s)
         /\ \A i \in 1 .. Len(Upto(s, n)) : Upto(s, n)[i] = s[i]
<1> DEFINE m == AtMost(n, Len(s))
           t == SubSeq(s, 1, m)
<1>1. Len(s) \in Nat /\ \A i \in 1 .. Len(s) : s[i] \in Nat
  BY LenProperties, ElementOfSeq
<1>2. m \in Nat /\ m <= Len(s) /\ m = IF n < Len(s) THEN n ELSE Len(s)
  BY <1>1 DEF AtMost
<1> HIDE DEF m
<1>3. 1 \in Int /\ m \in Int /\ \A i \in 1 .. m : s[i] \in Nat
  BY <1>1, <1>2
<1>4. /\ t \in Seq(Nat) /\ Len(t) = IF 1 <= m THEN m - 1 + 1 ELSE 0
      /\ \A i \in 1 .. m - 1 + 1 : t[i] = s[1 + i - 1]
  BY <1>3, SubSeqProperties
<1> HIDE DEF t
<1>5. Len(t) = m
  BY <1>2, <1>4
<1>6. ASSUME NEW i \in 1 .. Len(t) PROVE t[i] = s[i]
  <2>1. i \in 1 .. m - 1 + 1 /\ 1 + i - 1 = i
    BY <1>2, <1>5
  <2> QED
    BY <1>4, <2>1
<1> QED
  BY <1>1, <1>2, <1>4, <1>5, <1>6 DEF Upto, m, t

\* A captured trace: from the frame to skip to on, without a hole, no more than
\* asked for, and every value moved by the bias.
Captures(trace, frames, numFrames, skip, bias) ==
  /\ trace.num <= numFrames /\ Len(trace.stored) = trace.num
  /\ \A i \in 1 .. trace.num : trace.stored[i] = Skipped(frames, skip)[i] - bias

\* What the platforms do with what they found: a segment of the frames that starts
\* behind the frames to skip.
LEMMA SegmentCaptured ==
  ASSUME NEW frames \in Seq(Nat), NEW skip \in Nat, NEW numFrames \in Nat,
         NEW s \in Seq(Nat), Len(s) <= numFrames, Len(s) <= Len(Skipped(frames, skip)),
         \A i \in 1 .. Len(s) : s[i] = frames[skip + i]
  PROVE  Captures(Result(s), frames, numFrames, skip, 0)
<1>1. Len(s) \in Nat /\ \A i \in 1 .. Len(s) : s[i] \in Nat
  BY LenProperties, ElementOfSeq
<1>2. Len(Skipped(frames, skip)) \in Nat
  BY SkippedIs, LenProperties
<1>3. ASSUME NEW i \in 1 .. Len(s) PROVE s[i] = Skipped(frames, skip)[i] - 0
  <2>1. i \in 1 .. Len(Skipped(frames, skip))
    BY <1>1, <1>2
  <2>2. Skipped(frames, skip)[i] = frames[skip + i]
    BY <2>1, SkippedIs
  <2> QED
    BY SMTT(30), <1>1, <2>2
<1> QED
  BY <1>1, <1>3 DEF Captures, Result

\* An empty trace is a captured one.
LEMMA NothingCaptured ==
  ASSUME NEW frames \in Seq(Nat), NEW skip \in Nat, NEW numFrames \in Nat, NEW bias
  PROVE  Captures(Nothing, frames, numFrames, skip, bias)
BY DEF Captures, Nothing

\* The frames behind those to skip, at most so many.
LEMMA UptoSkipped ==
  ASSUME NEW frames \in Seq(Nat), NEW skip \in Nat, NEW n \in Nat
  PROVE  LET s == Upto(Skipped(frames, skip), n) IN
           /\ s \in Seq(Nat) /\ Len(s) \in Nat /\ Len(s) <= n
           /\ Len(s) <= Len(Skipped(frames, skip))
           /\ \A i \in 1 .. Len(s) : s[i] = frames[skip + i] /\ s[i] \in Nat
<1> DEFINE t == Skipped(frames, skip)
           s == Upto(t, n)
<1>1. t \in Seq(Nat) /\ \A i \in 1 .. Len(t) : t[i] = frames[skip + i]
  BY SkippedIs
<1> HIDE DEF t
<1>2. /\ s \in Seq(Nat) /\ Len(t) \in Nat /\ Len(s) = IF n < Len(t) THEN n ELSE Len(t)
      /\ \A i \in 1 .. Len(s) : s[i] = t[i]
  BY <1>1, UptoIs
<1> HIDE DEF s
<1>3. Len(s) \in Nat /\ Len(s) <= n /\ Len(s) <= Len(t) /\ \A i \in 1 .. Len(s) : s[i] \in Nat
  BY <1>2, ElementOfSeq
<1>4. \A i \in 1 .. Len(s) : s[i] = frames[skip + i]
  BY <1>1, <1>2, <1>3
<1> QED
  BY <1>2, <1>3, <1>4 DEF s, t

\* On Windows, however often RtlCaptureStackBackTrace comes back with nothing.
LEMMA WindowsCaptures ==
  ASSUME NEW frames \in Seq(Nat), NEW numFrames \in Nat, NEW skip \in Nat, NEW failures \in Nat
  PROVE  Captures(Windows(frames, numFrames, skip, failures), frames, numFrames, skip, 0)
<1>1. CASE failures < 2
  <2> DEFINE s == Upto(Skipped(frames, skip), numFrames)
  <2>1. /\ s \in Seq(Nat) /\ Len(s) <= numFrames /\ Len(s) <= Len(Skipped(frames, skip))
        /\ \A i \in 1 .. Len(s) : s[i] = frames[skip + i]
    BY ZenonT(30), UptoSkipped
  <2>2. Windows(frames, numFrames, skip, failures) = Result(s)
    BY <1>1 DEF Windows
  <2> HIDE DEF s
  <2> QED
    BY <2>1, <2>2, SegmentCaptured
<1>2. CASE ~(failures < 2)
  BY <1>2, NothingCaptured DEF Windows
<1> QED
  BY <1>1, <1>2

\* On PlayStation every address is moved by the load address.
LEMMA PlayStationCaptures ==
  ASSUME NEW frames \in Seq(Nat), NEW numFrames \in Nat, NEW skip \in Nat
  PROVE  Captures(PlayStation(frames, numFrames, skip), frames, numFrames, skip, Bias)
<1> DEFINE taken == Upto(Skipped(frames, skip), numFrames)
           s == [i \in DOMAIN taken |-> taken[i] - Bias]
<1>1. /\ taken \in Seq(Nat) /\ Len(taken) \in Nat /\ Len(taken) <= numFrames
      /\ Len(taken) <= Len(Skipped(frames, skip))
      /\ \A i \in 1 .. Len(taken) : taken[i] = frames[skip + i] /\ taken[i] \in Nat
  BY UptoSkipped
<1>2. PlayStation(frames, numFrames, skip) = Result(s)
  BY DEF PlayStation
<1> HIDE DEF taken
<1>3. DOMAIN taken = 1 .. Len(taken) /\ Bias \in Nat
  BY <1>1, LenProperties, CaptureAssumption
<1>4. s \in Seq(Int) /\ Len(s) = Len(taken) /\ \A i \in 1 .. Len(taken) : s[i] = taken[i] - Bias
  <2>1. \A i \in 1 .. Len(taken) : taken[i] - Bias \in Int
    BY <1>1, <1>3
  <2> QED
    BY <1>1, <1>3, <2>1, IsASeq
<1> HIDE DEF s
<1>5. Len(Skipped(frames, skip)) \in Nat
  BY SkippedIs, LenProperties
<1>6. \A i \in 1 .. Len(taken) : Skipped(frames, skip)[i] = taken[i]
  BY SMTT(30), <1>1, <1>5, SkippedIs
<1> QED
  BY SMTT(30), <1>1, <1>2, <1>4, <1>6 DEF Captures, Result

\* On PS3 the number is clipped and the array is not: right for a stack that is no
\* deeper than the array.
LEMMA PS3Captures ==
  ASSUME NEW frames \in Seq(Nat), NEW numFrames \in Nat, NEW skip \in Nat,
         Len(frames) <= numFrames, skip <= Len(frames)
  PROVE  Captures(PS3(frames, numFrames, skip, 0), frames, numFrames, skip, 0)
<1> DEFINE count == (Len(frames) - skip) % Words
           s == Upto(Skipped(frames, skip), count)
<1>1. Len(frames) \in Nat /\ Words \in Nat \ {0}
  BY LenProperties, CaptureAssumption
<1>2. count \in Nat /\ count <= Len(frames) - skip
  BY <1>1
<1>3. PS3(frames, numFrames, skip, 0) = [num |-> AtMost(count, numFrames), stored |-> s]
  BY DEF PS3
<1>4. Len(Skipped(frames, skip)) = Len(frames) - skip
  BY <1>1, SkippedIs
<1> HIDE DEF count
<1>5. /\ s \in Seq(Nat) /\ Len(s) \in Nat /\ Len(s) <= Len(Skipped(frames, skip))
      /\ \A i \in 1 .. Len(s) : s[i] = frames[skip + i]
  BY ZenonT(30), <1>2, UptoSkipped
<1>6. Len(s) = count
  <2>1. Skipped(frames, skip) \in Seq(Nat)
    BY SkippedIs
  <2>2. Len(s) = IF count < Len(frames) - skip THEN count ELSE Len(frames) - skip
    BY <1>2, <1>4, <2>1, UptoIs
  <2> QED
    BY <1>1, <1>2, <2>2
<1> HIDE DEF s
<1>7. AtMost(count, numFrames) = Len(s) /\ Len(s) <= numFrames
  BY <1>1, <1>2, <1>6 DEF AtMost
<1>8. Captures(Result(s), frames, numFrames, skip, 0)
  BY <1>5, <1>7, SegmentCaptured
<1> QED
  BY <1>3, <1>7, <1>8 DEF Result

\* Through a local buffer, on Linux and Switch.
LEMMA FromBufferCaptures ==
  ASSUME NEW frames \in Seq(Nat), NEW numFrames \in Nat, NEW skip \in Nat, NEW n \in Nat
  PROVE  Captures(FromBuffer(Upto(frames, n), numFrames, skip), frames, numFrames, skip, 0)
<1> DEFINE trace == Upto(frames, n)
           s == Upto(Skipped(trace, skip), numFrames)
<1>1. /\ trace \in Seq(Nat) /\ Len(frames) \in Nat
      /\ Len(trace) = IF n < Len(frames) THEN n ELSE Len(frames)
      /\ \A i \in 1 .. Len(trace) : trace[i] = frames[i]
  BY UptoIs
<1> HIDE DEF trace
<1>2. Len(trace) \in Nat /\ Len(trace) <= Len(frames)
  BY <1>1
<1>3. CASE skip >= Len(trace)
  BY <1>3, NothingCaptured DEF FromBuffer, trace
<1>4. CASE ~(skip >= Len(trace))
  <2>1. /\ s \in Seq(Nat) /\ Len(s) \in Nat /\ Len(s) <= numFrames
        /\ Len(s) <= Len(Skipped(trace, skip))
        /\ \A i \in 1 .. Len(s) : s[i] = trace[skip + i]
    <3>1. trace \in Seq(Nat)
      BY <1>1
    <3> QED
      BY ZenonT(30), <3>1, UptoSkipped
  <2>2. /\ skip < Len(trace) /\ skip < Len(frames)
        /\ Len(Skipped(trace, skip)) = Len(trace) - skip
        /\ Len(Skipped(frames, skip)) = Len(frames) - skip
    <3>1. skip < Len(trace) /\ skip < Len(frames)
      BY <1>1, <1>2, <1>4
    <3>2. Len(Skipped(trace, skip)) = IF skip < Len(trace) THEN Len(trace) - skip ELSE 0
      BY <1>1, SkippedIs
    <3>3. Len(Skipped(frames, skip)) = IF skip < Len(frames) THEN Len(frames) - skip ELSE 0
      BY SkippedIs
    <3> QED
      BY <3>1, <3>2, <3>3
  <2> HIDE DEF s
  <2>3. ASSUME NEW i \in 1 .. Len(s) PROVE s[i] = frames[skip + i]
    <3>1. skip + i \in 1 .. Len(trace)
      <4> DEFINE a == Len(s)
                 b == Len(trace)
      <4>1. a \in Nat /\ b \in Nat /\ a <= b - skip /\ i \in 1 .. a
        BY <1>2, <2>1, <2>2
      <4> HIDE DEF a, b
      <4>2. skip + i \in 1 .. b
        BY <4>1
      <4> QED
        BY <4>2 DEF b
    <3> QED
      BY <1>1, <2>1, <3>1
  <2>4. Len(s) <= Len(Skipped(frames, skip))
    BY <1>2, <2>1, <2>2
  <2>5. Captures(Result(s), frames, numFrames, skip, 0)
    BY <2>1, <2>3, <2>4, SegmentCaptured
  <2> QED
    BY <1>4, <2>5 DEF FromBuffer, trace, s
<1> QED
  BY <1>3, <1>4 DEF trace

\* Of fewer frames, skipping as many leaves no more.
LEMMA FewerBehind ==
  ASSUME NEW a \in Nat, NEW b \in Nat, NEW skip \in Nat, a <= b
  PROVE  /\ (IF skip < a THEN a - skip ELSE 0) \in Nat
         /\ (IF skip < a THEN a - skip ELSE 0) <= (IF skip < b THEN b - skip ELSE 0)
         /\ (IF skip < a THEN a - skip ELSE 0) <= a
  OBVIOUS

\* AtMost and the like, of the smaller first.
LEMMA AtMostIs ==
  ASSUME NEW a \in Nat, NEW b \in Nat, a <= b
  PROVE  AtMost(a, b) = a /\ (IF a < b THEN a ELSE b) = a
  BY DEF AtMost

\* On Xbox 360 nothing is clipped to the array either.
LEMMA Xbox360Captures ==
  ASSUME NEW frames \in Seq(Nat), NEW numFrames \in Nat, NEW skip \in Nat,
         Len(frames) <= numFrames
  PROVE  Captures(Xbox360(frames, numFrames, skip, 0), frames, numFrames, skip, 0)
<1> DEFINE nulls == {i \in DOMAIN frames : frames[i] = 0}
           all == Upto(frames, Buffered)
           first == CHOOSE i \in nulls : \A j \in nulls : i <= j
           trace == IF \A i \in nulls : i > Len(all) THEN all ELSE SubSeq(frames, 1, first - 1)
           s == Skipped(trace, skip)
<1>1. /\ Len(frames) \in Nat /\ DOMAIN frames = 1 .. Len(frames) /\ Buffered \in Nat
      /\ \A i \in 1 .. Len(frames) : frames[i] \in Nat
  BY LenProperties, ElementOfSeq, CaptureAssumption
<1>2. Xbox360(frames, numFrames, skip, 0) = Result(s)
  BY DEF Xbox360
<1>3. /\ all \in Seq(Nat) /\ Len(all) \in Nat /\ Len(all) <= Len(frames)
      /\ \A i \in 1 .. Len(all) : all[i] = frames[i]
  <2>1. /\ all \in Seq(Nat) /\ Len(all) = IF Buffered < Len(frames) THEN Buffered ELSE Len(frames)
        /\ \A i \in 1 .. Len(all) : all[i] = frames[i]
    BY <1>1, UptoIs
  <2> QED
    BY <1>1, <2>1
<1> HIDE DEF all
<1>4. /\ trace \in Seq(Nat) /\ Len(trace) \in Nat /\ Len(trace) <= Len(frames)
      /\ \A i \in 1 .. Len(trace) : trace[i] = frames[i]
  <2>1. CASE \A i \in nulls : i > Len(all)
    BY <1>3, <2>1
  <2>2. CASE ~(\A i \in nulls : i > Len(all))
    <3>1. nulls # {} /\ nulls \in SUBSET Nat
      BY <1>1, <2>2
    <3> HIDE DEF nulls
    <3>2. \E i \in nulls : \A j \in nulls : i <= j
      BY <3>1, LeastNatural
    <3>3. first \in nulls
      BY <3>2
    <3> HIDE DEF first
    <3>4. first \in 1 .. Len(frames)
      BY <1>1, <3>3 DEF nulls
    <3> DEFINE m == first - 1
    <3>5. m \in Nat /\ m <= Len(frames)
      BY <1>1, <3>4
    <3> HIDE DEF m
    <3>6. Upto(frames, m) = SubSeq(frames, 1, m)
      <4>1. AtMost(m, Len(frames)) = m
        BY <1>1, <3>5, AtMostIs
      <4> QED
        BY <4>1 DEF Upto
    <3>7. /\ Upto(frames, m) \in Seq(Nat)
          /\ Len(Upto(frames, m)) = IF m < Len(frames) THEN m ELSE Len(frames)
          /\ \A i \in 1 .. Len(Upto(frames, m)) : Upto(frames, m)[i] = frames[i]
      BY <3>5, UptoIs
    <3>8. trace = Upto(frames, m)
      BY <2>2, <3>6 DEF m, nulls, first
    <3>9. Len(Upto(frames, m)) = m
      <4>1. (IF m < Len(frames) THEN m ELSE Len(frames)) = m
        BY Zenon, <1>1, <3>5, AtMostIs
      <4> QED
        BY SMTT(30), <3>7, <4>1
    <3> HIDE DEF trace
    <3> QED
      BY <3>5, <3>7, <3>8, <3>9
  <2> QED
    BY <2>1, <2>2
<1> HIDE DEF trace
<1>5. /\ s \in Seq(Nat) /\ Len(s) = IF skip < Len(trace) THEN Len(trace) - skip ELSE 0
      /\ \A i \in 1 .. Len(s) : s[i] = trace[skip + i]
  BY <1>4, SkippedIs
<1>6. Len(Skipped(frames, skip)) = IF skip < Len(frames) THEN Len(frames) - skip ELSE 0
  BY SkippedIs
<1> HIDE DEF s
<1>7. Len(s) \in Nat /\ Len(s) <= numFrames /\ Len(s) <= Len(Skipped(frames, skip))
  <2>1. /\ Len(s) \in Nat /\ Len(s) <= Len(Skipped(frames, skip)) /\ Len(s) <= Len(trace)
    BY ZenonT(30), <1>1, <1>4, <1>5, <1>6, FewerBehind
  <2> QED
    BY SMTT(30), <1>1, <1>4, <2>1
<1>8. ASSUME NEW i \in 1 .. Len(s) PROVE s[i] = frames[skip + i]
  <2>1. skip + i \in 1 .. Len(trace)
    BY <1>4, <1>5, <1>7
  <2> QED
    BY <1>4, <1>5, <2>1
<1>9. Captures(Result(s), frames, numFrames, skip, 0)
  BY <1>5, <1>7, <1>8, SegmentCaptured
<1> QED
  BY <1>2, <1>9

\* The recursion by which Unwound is defined, up to m.
Unwinds(frames, first, m, g) ==
  g = [n \in 0 .. m |-> IF n = 0 THEN first ELSE unwindTraceFunc(g[n - 1], frames[n])]

\* It has a solution.
LEMMA UnwindsExist ==
  ASSUME NEW frames, NEW first, NEW m \in Nat
  PROVE  \E g : Unwinds(frames, first, m, g)
<1> DEFINE G == {k \in Nat : \E g : Unwinds(frames, first, k, g)}
<1>1. 0 \in G
  <2> DEFINE g == [n \in 0 .. 0 |-> first]
  <2>1. Unwinds(frames, first, 0, g)
    BY DEF Unwinds
  <2> HIDE DEF g
  <2> QED
    BY <2>1
<1>2. ASSUME NEW k \in G PROVE k + 1 \in G
  <2>1. PICK f : Unwinds(frames, first, k, f)
    OBVIOUS
  <2> DEFINE g == [n \in 0 .. (k + 1) |-> IF n <= k THEN f[n] ELSE unwindTraceFunc(f[n - 1], frames[n])]
  <2>2. \A n \in 0 .. (k + 1) : g[n] = IF n = 0 THEN first ELSE unwindTraceFunc(g[n - 1], frames[n])
    <3>1. \A n \in 0 .. k : f[n] = IF n = 0 THEN first ELSE unwindTraceFunc(f[n - 1], frames[n])
      BY <2>1 DEF Unwinds
    <3>2. g[k + 1] = unwindTraceFunc(f[k], frames[k + 1])
      OBVIOUS
    <3>3. \A n \in 0 .. k : g[n] = f[n]
      OBVIOUS
    <3> HIDE DEF g
    <3> QED
      BY <3>1, <3>2, <3>3
  <2>3. Unwinds(frames, first, k + 1, g)
    BY <2>2 DEF Unwinds
  <2> HIDE DEF g
  <2> QED
    BY <2>3
<1>3. G = Nat
  <2>1. G \in SUBSET Nat
    OBVIOUS
  <2> HIDE DEF G
  <2> QED
    BY <1>1, <1>2, <2>1, NatInduct
<1> QED
  BY <1>3

UnwindStart(numFrames, skip) ==
  [tracesToSkip |-> skip, numTraces |-> 0, framesSize |-> numFrames,
   frames |-> << >>, stopped |-> FALSE]

\* The equations of Unwound.
LEMMA UnwoundAre ==
  ASSUME NEW frames, Len(frames) \in Nat, NEW numFrames, NEW skip
  PROVE  /\ Unwound(frames, numFrames, skip)[0] = UnwindStart(numFrames, skip)
         /\ \A n \in 1 .. Len(frames) :
              Unwound(frames, numFrames, skip)[n]
                = unwindTraceFunc(Unwound(frames, numFrames, skip)[n - 1], frames[n])
<1> DEFINE first == UnwindStart(numFrames, skip)
           g == CHOOSE g : Unwinds(frames, first, Len(frames), g)
<1>1. Unwinds(frames, first, Len(frames), g)
  BY UnwindsExist
<1>2. Unwound(frames, numFrames, skip) = g
  BY DEF Unwound, Unwinds, UnwindStart
<1> HIDE DEF g, first
<1> QED
  BY <1>1, <1>2 DEF Unwinds, first

\* What unwindTraceFunc has collected after n frames: those behind the ones to
\* skip, until one is null or the array is full.
UnwoundOK(arg, frames, numFrames, skip, n) ==
  /\ arg \in [tracesToSkip : Nat, numTraces : Nat, framesSize : Nat, frames : Seq(Nat),
              stopped : BOOLEAN]
  /\ arg.framesSize = numFrames
  /\ Len(arg.frames) = arg.numTraces /\ arg.numTraces <= numFrames
  /\ ~arg.stopped => \/ n <= skip /\ arg.tracesToSkip = skip - n /\ arg.numTraces = 0
                     \/ skip <= n /\ arg.tracesToSkip = 0 /\ arg.numTraces = n - skip
  /\ arg.numTraces > 0 => skip + arg.numTraces <= n
  /\ \A i \in 1 .. arg.numTraces : arg.frames[i] = frames[skip + i]

\* unwindTraceFunc keeps that, for one frame more.
LEMMA UnwindOK ==
  ASSUME NEW frames \in Seq(Nat), NEW numFrames \in Nat, NEW skip \in Nat,
         NEW n \in Nat, n + 1 <= Len(frames),
         NEW arg, UnwoundOK(arg, frames, numFrames, skip, n)
  PROVE  UnwoundOK(unwindTraceFunc(arg, frames[n + 1]), frames, numFrames, skip, n + 1)
<1> DEFINE ip == frames[n + 1]
           next == unwindTraceFunc(arg, ip)
<1>1. /\ arg.tracesToSkip \in Nat /\ arg.numTraces \in Nat /\ arg.framesSize = numFrames
      /\ arg.frames \in Seq(Nat) /\ arg.stopped \in BOOLEAN
      /\ arg = [tracesToSkip |-> arg.tracesToSkip, numTraces |-> arg.numTraces,
                framesSize |-> numFrames, frames |-> arg.frames, stopped |-> arg.stopped]
  BY DEF UnwoundOK
<1>2. ip \in Nat
  <2>1. n + 1 \in 1 .. Len(frames)
    BY LenProperties
  <2> QED
    BY <2>1, ElementOfSeq
<1>3. /\ Len(arg.frames) = arg.numTraces /\ arg.numTraces <= numFrames
      /\ ~arg.stopped => \/ n <= skip /\ arg.tracesToSkip = skip - n /\ arg.numTraces = 0
                         \/ skip <= n /\ arg.tracesToSkip = 0 /\ arg.numTraces = n - skip
      /\ arg.numTraces > 0 => skip + arg.numTraces <= n
      /\ \A i \in 1 .. arg.numTraces : arg.frames[i] = frames[skip + i]
  BY DEF UnwoundOK
<1> HIDE DEF ip
<1>4. CASE arg.stopped
  <2>1. next = arg
    BY <1>4 DEF unwindTraceFunc
  <2> HIDE DEF next
  <2> QED
    BY <1>1, <1>3, <1>4, <2>1 DEF UnwoundOK, next, ip
<1>5. CASE ~arg.stopped /\ arg.tracesToSkip > 0
  <2>1. next = [arg EXCEPT !.tracesToSkip = arg.tracesToSkip - 1]
    BY <1>5 DEF unwindTraceFunc
  <2>2. next = [tracesToSkip |-> arg.tracesToSkip - 1, numTraces |-> arg.numTraces,
                framesSize |-> numFrames, frames |-> arg.frames, stopped |-> arg.stopped]
    BY <1>1, <2>1
  <2>3. arg.tracesToSkip - 1 \in Nat /\ n <= skip /\ arg.tracesToSkip = skip - n /\ arg.numTraces = 0
    <3> DEFINE left == arg.tracesToSkip
    <3>1. left \in Nat /\ left > 0 /\ left # 0
      BY <1>1, <1>5
    <3>2. n <= skip /\ left = skip - n /\ arg.numTraces = 0
      BY <1>3, <1>5, <3>1
    <3> HIDE DEF left
    <3>3. left - 1 \in Nat
      BY <3>1
    <3> QED
      BY <3>2, <3>3 DEF left
  <2> HIDE DEF next
  <2>4. next \in [tracesToSkip : Nat, numTraces : Nat, framesSize : Nat, frames : Seq(Nat),
                  stopped : BOOLEAN]
    BY <1>1, <2>2, <2>3
  <2>5. /\ next.framesSize = numFrames /\ next.frames = arg.frames /\ next.numTraces = 0
        /\ next.tracesToSkip = skip - (n + 1) /\ n + 1 <= skip
    BY SMTT(30), <1>1, <1>5, <2>2, <2>3
  <2> QED
    BY <1>3, <2>3, <2>4, <2>5 DEF UnwoundOK, next, ip
<1>6. CASE ~arg.stopped /\ ~(arg.tracesToSkip > 0) /\ ip # 0 /\ HasRoom(arg)
  <2>1. next = [arg EXCEPT !.numTraces = arg.numTraces + 1, !.frames = Append(arg.frames, ip)]
    BY <1>6 DEF unwindTraceFunc
  <2>2. next = [tracesToSkip |-> arg.tracesToSkip, numTraces |-> arg.numTraces + 1,
                framesSize |-> numFrames, frames |-> Append(arg.frames, ip),
                stopped |-> arg.stopped]
    BY <1>1, <2>1
  <2>3. skip <= n /\ arg.tracesToSkip = 0 /\ arg.numTraces = n - skip /\ arg.numTraces < numFrames
    BY <1>1, <1>3, <1>6 DEF HasRoom
  <2> DEFINE more == Append(arg.frames, ip)
  <2>4. /\ more \in Seq(Nat) /\ Len(more) = arg.numTraces + 1 /\ more[arg.numTraces + 1] = ip
        /\ \A i \in 1 .. arg.numTraces : more[i] = arg.frames[i]
    BY SMTT(30), <1>1, <1>2, <1>3, AppendProperties
  <2>5. skip + (arg.numTraces + 1) = n + 1
    BY <1>1, <2>3
  <2> HIDE DEF next, more
  <2>6. next \in [tracesToSkip : Nat, numTraces : Nat, framesSize : Nat, frames : Seq(Nat),
                  stopped : BOOLEAN]
    BY SMTT(30), <1>1, <2>2, <2>4 DEF more
  <2>7. /\ next.framesSize = numFrames /\ next.frames = more /\ next.numTraces = arg.numTraces + 1
        /\ next.tracesToSkip = 0
    BY <2>2, <2>3 DEF more
  <2>8. ASSUME NEW i \in 1 .. arg.numTraces + 1 PROVE more[i] = frames[skip + i]
    <3>1. CASE i = arg.numTraces + 1
      BY <2>4, <2>5, <3>1 DEF ip
    <3>2. CASE i \in 1 .. arg.numTraces
      BY <1>3, <2>4, <3>2
    <3>3. i = arg.numTraces + 1 \/ i \in 1 .. arg.numTraces
      <4> DEFINE k == arg.numTraces
      <4>1. k \in Nat /\ i \in 1 .. k + 1
        BY <1>1
      <4> HIDE DEF k
      <4>2. i = k + 1 \/ i \in 1 .. k
        BY <4>1
      <4> QED
        BY <4>2 DEF k
    <3> QED
      BY <3>1, <3>2, <3>3
  <2>9. arg.numTraces + 1 <= numFrames /\ arg.numTraces + 1 = (n + 1) - skip /\ skip <= n + 1
    BY <1>1, <2>3
  <2> QED
    BY <2>4, <2>5, <2>6, <2>7, <2>8, <2>9 DEF UnwoundOK, next, ip
<1>7. CASE ~arg.stopped /\ ~(arg.tracesToSkip > 0) /\ ~(ip # 0 /\ HasRoom(arg))
  <2>1. next = [arg EXCEPT !.stopped = TRUE]
    BY <1>7 DEF unwindTraceFunc
  <2>2. next = [tracesToSkip |-> arg.tracesToSkip, numTraces |-> arg.numTraces,
                framesSize |-> numFrames, frames |-> arg.frames, stopped |-> TRUE]
    BY <1>1, <2>1
  <2> HIDE DEF next
  <2>3. next \in [tracesToSkip : Nat, numTraces : Nat, framesSize : Nat, frames : Seq(Nat),
                  stopped : BOOLEAN]
    BY <1>1, <2>2
  <2>4. /\ next.framesSize = numFrames /\ next.frames = arg.frames
        /\ next.numTraces = arg.numTraces /\ next.stopped = TRUE
    BY <2>2
  <2> QED
    BY SMTT(30), <1>1, <1>3, <2>3, <2>4 DEF UnwoundOK, next, ip
<1> QED
  BY <1>4, <1>5, <1>6, <1>7 DEF ip

\* On Android, whatever number of frames the unwinder calls back for.
LEMMA AndroidCaptures ==
  ASSUME NEW frames \in Seq(Nat), NEW numFrames \in Nat, NEW skip \in Nat
  PROVE  Captures(Android(frames, numFrames, skip), frames, numFrames, skip, 0)
<1> DEFINE u(k) == Unwound(frames, numFrames, skip)[k]
           N == Len(frames)
           G == {k \in Nat : k <= N => UnwoundOK(u(k), frames, numFrames, skip, k)}
<1>0. N \in Nat
  BY LenProperties
<1>1. 0 \in G
  <2>1. u(0) = UnwindStart(numFrames, skip)
    BY <1>0, UnwoundAre
  <2> HIDE DEF u
  <2>2. u(0).frames = << >> /\ u(0).framesSize = numFrames /\ u(0).numTraces = 0
        /\ u(0).tracesToSkip = skip /\ u(0).stopped = FALSE
    BY <2>1 DEF UnwindStart
  <2>3. u(0) \in [tracesToSkip : Nat, numTraces : Nat, framesSize : Nat, frames : Seq(Nat),
                  stopped : BOOLEAN]
    <3>1. << >> \in Seq(Nat)
      BY EmptySeq
    <3> DEFINE start == UnwindStart(numFrames, skip)
    <3>2. start \in [tracesToSkip : Nat, numTraces : Nat, framesSize : Nat, frames : Seq(Nat),
                     stopped : BOOLEAN]
      <4> DEFINE none == << >>
      <4>1. start = [tracesToSkip |-> skip, numTraces |-> 0, framesSize |-> numFrames,
                     frames |-> none, stopped |-> FALSE] /\ none \in Seq(Nat)
        BY <3>1 DEF UnwindStart
      <4> HIDE DEF none, start
      <4> QED
        BY <4>1
    <3> HIDE DEF start
    <3> QED
      BY <2>1, <3>2 DEF start
  <2>4. UnwoundOK(u(0), frames, numFrames, skip, 0)
    BY <2>2, <2>3 DEF UnwoundOK
  <2> QED
    BY <2>4
<1>2. ASSUME NEW k \in G PROVE k + 1 \in G
  <2> SUFFICES ASSUME k + 1 <= N PROVE UnwoundOK(u(k + 1), frames, numFrames, skip, k + 1)
    OBVIOUS
  <2>1. /\ k \in Nat /\ k + 1 \in 1 .. N /\ (k + 1) - 1 = k
        /\ UnwoundOK(u(k), frames, numFrames, skip, k)
    BY <1>0
  <2>2. u(k + 1) = unwindTraceFunc(u(k), frames[k + 1])
    <3>1. \A i \in 1 .. N : u(i) = unwindTraceFunc(u(i - 1), frames[i])
      BY <1>0, UnwoundAre
    <3> QED
      BY <2>1, <3>1
  <2> HIDE DEF u
  <2> QED
    BY <2>1, <2>2, UnwindOK
<1>3. G = Nat
  <2>1. G \in SUBSET Nat
    OBVIOUS
  <2> HIDE DEF G
  <2> QED
    BY <1>1, <1>2, <2>1, NatInduct
<1>4. UnwoundOK(u(N), frames, numFrames, skip, N)
  BY <1>0, <1>3
<1> DEFINE arg == u(N)
<1>5. Android(frames, numFrames, skip) = [num |-> arg.numTraces, stored |-> arg.frames]
  BY DEF Android
<1> HIDE DEF arg, N
<1>6. /\ arg.numTraces \in Nat /\ arg.frames \in Seq(Nat) /\ Len(arg.frames) = arg.numTraces
      /\ arg.numTraces <= numFrames /\ (arg.numTraces > 0 => skip + arg.numTraces <= N)
      /\ \A i \in 1 .. arg.numTraces : arg.frames[i] = frames[skip + i]
  BY <1>4 DEF UnwoundOK, arg
<1>7. Len(Skipped(frames, skip)) = IF skip < N THEN N - skip ELSE 0
  BY SkippedIs DEF N
<1>8. arg.numTraces <= Len(Skipped(frames, skip))
  <2> DEFINE k == arg.numTraces
             left == Len(Skipped(frames, skip))
  <2>1. k \in Nat /\ (k > 0 => skip + k <= N) /\ N \in Nat
    BY <1>0, <1>6 DEF N
  <2>2. left = IF skip < N THEN N - skip ELSE 0
    BY <1>7
  <2> HIDE DEF k, left
  <2>3. k <= left
    BY <2>1, <2>2
  <2> QED
    BY <2>3 DEF k, left
<1>9. Captures(Result(arg.frames), frames, numFrames, skip, 0)
  BY <1>6, <1>8, SegmentCaptured
<1> QED
  BY <1>5, <1>6, <1>9 DEF Result

\* Every platform captures what it should, or nothing when its system fails.
LEMMA AllCapture ==
  ASSUME NEW platform \in Platforms, NEW frames \in Seq(Nat), NEW numFrames \in Nat,
         NEW skip \in Nat, NEW failures \in Nat,
         \/ platform \notin {"PS3", "XBOX360"}
         \/ Len(frames) <= numFrames /\ skip <= Len(frames)
  PROVE  Captures(getStackTrace(platform, frames, numFrames, skip, failures), frames, numFrames,
                  skip, IF platform = "PS4" THEN Bias ELSE 0)
<1>0. Buffered \in Nat
  BY CaptureAssumption
<1>1. CASE platform = "WINDOWS"
  BY <1>1, WindowsCaptures DEF getStackTrace
<1>2. CASE platform = "PS3" /\ failures = 0
  BY <1>2, PS3Captures DEF getStackTrace
<1>3. CASE platform = "PS4"
  BY <1>3, PlayStationCaptures DEF getStackTrace
<1>4. CASE platform = "ANDROID"
  BY <1>4, AndroidCaptures DEF getStackTrace
<1>5. CASE platform = "LINUX"
  BY <1>0, <1>5, FromBufferCaptures DEF getStackTrace, Linux
<1>6. CASE platform = "SWITCH"
  BY <1>6, FromBufferCaptures DEF getStackTrace, Switch
<1>7. CASE platform = "XBOX360" /\ failures = 0
  BY <1>7, Xbox360Captures DEF getStackTrace
<1>8. CASE platform \in {"PS3", "XBOX360"} /\ failures # 0
  <2>1. getStackTrace(platform, frames, numFrames, skip, failures) = Nothing
    BY <1>8 DEF getStackTrace, PS3, Xbox360
  <2> QED
    BY <2>1, NothingCaptured
<1> QED
  BY <1>1, <1>2, <1>3, <1>4, <1>5, <1>6, <1>7, <1>8 DEF Platforms
-------------------------------------------------------------------------------
\* The runs.

RecordInputs == [name : Records, parent : Records \cup {-1}, ptr : PointerSizes,
                 numFrames : 0 .. RMEM_STACK_TRACE_MAX]
ListInputs == [platform : ListPlatforms, names : ModuleLists, size : ListBuffers,
               error : BOOLEAN]
TraceInputs == [platform : Platforms, frames : Stacks, numFrames : FrameLimits,
                skip : {0, 1, 2}, failures : {0, 1, 2}]

\* The inductive invariant: whatever has been computed was computed by the
\* algorithm of its subject, from an input of its set.
Computed ==
  /\ Done("record") => output = AllRecords(input)
  /\ Done("modules") => output = getModuleInfo(input.platform, input.names, input.size,
                                               input.error)
  /\ Done("trace") => output = getStackTrace(input.platform, input.frames, input.numFrames,
                                             input.skip, input.failures)
  /\ Done("trampoline") => output = CreateTrampolineFunction(input)
  /\ subject = "record" => input \in RecordInputs
  /\ subject = "modules" => input \in ListInputs
  /\ subject = "trace" => input \in TraceInputs
  /\ subject = "trampoline" => input \in Functions

\* The output is the algorithm's, on an input of the subject's set.
THEOREM AlwaysComputed == Spec => []Computed
<1>1. Init => Computed
  BY DEF Init, Computed, Done, RecordInputs, ListInputs, TraceInputs
<1>2. Computed /\ [Next]_algorithmVars => Computed'
  <2> SUFFICES ASSUME Computed, [Next]_algorithmVars PROVE Computed'
    OBVIOUS
  <2>1. CASE Compose
    BY <2>1 DEF Computed, Done, Compose, Run
  <2>2. CASE ListModules
    BY <2>2 DEF Computed, Done, ListModules, Run
  <2>3. CASE Capture
    BY <2>3 DEF Computed, Done, Capture, Run
  <2>4. CASE BuildTrampoline
    BY <2>4 DEF Computed, Done, BuildTrampoline, Run
  <2>5. CASE UNCHANGED algorithmVars
    BY <2>5 DEF Computed, Done, algorithmVars
  <2> QED
    BY <2>1, <2>2, <2>3, <2>4, <2>5 DEF Next
<1> QED
  BY <1>1, <1>2, PTL DEF Spec

\* Every record fits the buffer it is composed in, those with a name nobody tests
\* exactly for the names RecordsFit allows; the list of modules fits its own, with
\* a whole entry last and no entry left out that had room, where there is a list.
THEOREM RecordsAlwaysFit == Spec => []RecordsFit
<1>1. Computed => RecordsFit
  <2> SUFFICES ASSUME Computed PROVE RecordsFit
    OBVIOUS
  <2>1. ASSUME Done("record")
        PROVE  /\ \A n \in output.ops : n <= OpBufferSize(input.ptr)
               /\ \A n \in output.small : n <= SmallBuffer
               /\ \A n \in output.module : n <= ModuleBuffer
               /\ output.tag <= SmallBuffer <=>
                    IF input.parent < 0 THEN input.name <= SmallBuffer - 13
                    ELSE input.name + input.parent <= SmallBuffer - 17
               /\ \A n \in output.named : n <= SmallBuffer <=> input.name <= SmallBuffer - 13
    <3>1. /\ output = AllRecords(input) /\ input.name \in Nat /\ input.ptr \in {4, 8}
          /\ input.parent \in Nat \/ input.parent = -1
          /\ input.numFrames \in 0 .. RMEM_STACK_TRACE_MAX
      BY <2>1, InputsAssumption DEF Computed, Done, RecordInputs, PointerSizes
    <3>2. \A n \in output.ops : n <= OpBufferSize(input.ptr)
      BY <3>1, OperationsFit DEF AllRecords
    <3>3. \A n \in output.small : n <= SmallBuffer
      <4>1. output.small
              = {Composed(registerThreadName(input.name)), Composed(tagScope), Composed(marker)}
        BY <3>1 DEF AllRecords
      <4> QED
        BY <3>1, <4>1, NamesFit
    <3>4. \A n \in output.module : n <= ModuleBuffer
      BY <3>1, ModulesFit DEF AllRecords
    <3>5. output.tag <= SmallBuffer <=>
            IF input.parent < 0 THEN input.name <= SmallBuffer - 13
            ELSE input.name + input.parent <= SmallBuffer - 17
      <4>1. output.tag = Composed(registerTag(input.name, input.parent))
        BY <3>1 DEF AllRecords
      <4>2. CASE input.parent = -1
        <5>1. Composed(registerTag(input.name, -1)) <= SmallBuffer
                <=> input.name <= SmallBuffer - 13
          BY <3>1, NamesFit
        <5> QED
          BY <4>1, <4>2, <5>1
      <4>3. CASE input.parent \in Nat
        <5>1. Composed(registerTag(input.name, input.parent)) <= SmallBuffer
                <=> input.name + input.parent <= SmallBuffer - 17
          BY <3>1, <4>3, NamesFit
        <5>2. ~(input.parent < 0)
          BY <4>3
        <5> QED
          BY <4>1, <5>1, <5>2
      <4> QED
        BY <3>1, <4>2, <4>3
    <3>6. \A n \in output.named : n <= SmallBuffer <=> input.name <= SmallBuffer - 13
      <4>1. output.named
              = {Composed(registerMarker(input.name)), Composed(registerAllocator(input.name))}
        BY <3>1 DEF AllRecords
      <4> QED
        BY <3>1, <4>1, NamesFit
    <3> QED
      BY <3>2, <3>3, <3>4, <3>5, <3>6
  <2>2. ASSUME Done("modules")
        PROVE  LET entries(k) == 1 + Composed([i \in 1 .. k |-> ModuleEntry(input.names[i])])
               IN  IF NoList(input, entries(Len(input.names))) THEN output.written = 0
                   ELSE /\ output.written = entries(output.listed) /\ output.written <= input.size
                        /\ output.listed < Len(input.names)
                             => entries(output.listed + 1) > input.size
    <3>1. /\ output = getModuleInfo(input.platform, input.names, input.size, input.error)
          /\ input.names \in Seq(Nat) /\ input.size \in Nat \ {0}
          /\ input.platform \in ListPlatforms /\ input.error \in BOOLEAN
      BY <2>2, InputsAssumption DEF Computed, Done, ListInputs
    <3>2. LET info == getModuleInfo(input.platform, input.names, input.size, input.error)
              entries(k) == 1 + Composed([i \in 1 .. k |-> ModuleEntry(input.names[i])])
          IN  IF NoList(input, entries(Len(input.names))) THEN info.written = 0
              ELSE /\ info.written = entries(info.listed) /\ info.written <= input.size
                   /\ info.listed < Len(input.names) => entries(info.listed + 1) > input.size
      BY Zenon, <3>1, ListFits
    <3> QED
      BY Zenon, <3>1, <3>2
  <2> QED
    BY <2>1, <2>2 DEF RecordsFit
<1> QED
  BY <1>1, AlwaysComputed, PTL

\* Every captured trace is frames from the one to skip to on, without a hole, and
\* stays in the caller's array; on PS3 and Xbox 360 that is so only for stacks that
\* are no deeper than the array and have the frames to skip.
THEOREM FramesAlwaysCaptured == Spec => []FramesCaptured
<1>1. Computed => FramesCaptured
  <2> SUFFICES ASSUME Computed, Done("trace"),
                      \/ input.platform \notin {"PS3", "XBOX360"}
                      \/ Len(input.frames) <= input.numFrames /\ input.skip <= Len(input.frames)
               PROVE  Captures(output, input.frames, input.numFrames, input.skip,
                               IF input.platform = "PS4" THEN Bias ELSE 0)
    BY DEF FramesCaptured, Captures
  <2>1. /\ output = getStackTrace(input.platform, input.frames, input.numFrames, input.skip,
                                  input.failures)
        /\ input.platform \in Platforms /\ input.frames \in Seq(Nat) /\ input.numFrames \in Nat
        /\ input.skip \in Nat /\ input.failures \in Nat
    BY InputsAssumption DEF Computed, Done, TraceInputs
  <2> QED
    BY <2>1, AllCapture
<1> QED
  BY <1>1, AlwaysComputed, PTL

\* Of every function MinHook can move: a thread in the bytes it overwrites has a
\* place in the trampoline, the trampoline stays in its slot and its jumps meet
\* the instructions they meant.
THEOREM TrampolinesFaithful == Spec => []TrampolineFaithful
<1>1. Computed => TrampolineFaithful
  <2>1. Computed /\ Done("trampoline") => input \in Code
    BY InputsAssumption DEF Computed, Done
  <2> QED
    BY <2>1, PlacesForAll, AllFit, AllJumpsKept DEF TrampolineFaithful
<1> QED
  BY <1>1, AlwaysComputed, PTL
===============================================================================

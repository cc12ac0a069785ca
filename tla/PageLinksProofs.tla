-------------------------- MODULE PageLinksProofs --------------------------
(***************************************************************************)
(* That the parsers of Link headers and HTML heads find what is written,   *)
(* for pages with any number of fields, links, parameters and tags, and go *)
(* on with every round on any text.                                        *)
(***************************************************************************)
EXTENDS PageLinks, RecursionLemmas, SequenceTheorems, FiniteSetTheorems

-----------------------------------------------------------------------------
(* Least and greatest places.                                               *)

LEMMA MinIsLeast ==
  ASSUME NEW T, T \subseteq Nat, T # {}
  PROVE  Min(T) \in T /\ \A k \in T : Min(T) <= k
BY LeastOfNaturals DEF Min

LEMMA MaxIsGreatest ==
  ASSUME NEW N \in Nat, NEW T, T \subseteq 1..N, T # {}
  PROVE  Max(T) \in T /\ \A k \in T : k <= Max(T)
<1> DEFINE U == {N - k : k \in T}
<1>1. U \subseteq Nat /\ U # {}
  <2>1. ASSUME NEW k \in T PROVE N - k \in Nat
    <3>1. k \in 1..N
      OBVIOUS
    <3> QED
      BY <3>1
  <2> QED
    BY <2>1
<1>2. PICK u \in U : \A v \in U : u <= v
  <2> HIDE DEF U
  <2> QED
    BY <1>1, LeastOfNaturals
<1>3. PICK m \in T : u = N - m
  BY <1>2
<1>4. \A k \in T : m >= k
  <2> SUFFICES ASSUME NEW k \in T PROVE m >= k
    OBVIOUS
  <2>1. N - k \in U
    OBVIOUS
  <2>2. N - m <= N - k
    BY <1>2, <1>3, <2>1
  <2>3. m \in Int /\ k \in Int
    BY <1>3
  <2> QED
    BY <2>2, <2>3
<1>5. Max(T) \in T /\ \A k \in T : Max(T) >= k
  <2> HIDE DEF U
  <2> QED
    BY <1>3, <1>4 DEF Max
<1> QED
  BY <1>5

-----------------------------------------------------------------------------
(* FlattenSeq, by its parts.                                                *)

LEMMA FlattenIsRecursion ==
  ASSUME NEW S, NEW s \in Seq(Seq(S))
  PROVE  \E g \in [0..Len(s) -> Seq(S)] :
           /\ g[0] = <<>>
           /\ \A k \in 1..Len(s) : g[k] = g[k - 1] \o s[k]
           /\ FlattenSeq(s) = g[Len(s)]
<1> DEFINE N == Len(s)  V == Seq(S)
           next == [p \in V \X (1..N) |-> p[1] \o s[p[2]]]
           Equation(h) == h = [i \in 1..N |-> IF i = 1 THEN s[i] ELSE h[i - 1] \o s[i]]
<1>1. N \in Nat /\ \A k \in 1..N : s[k] \in V
  OBVIOUS
<1>2. \A v \in V, k \in 1..N : next[<<v, k>>] = v \o s[k]
  OBVIOUS
<1>3. StaysIn(next, V, N)
  <2>1. ASSUME NEW v \in V, NEW k \in 1..N PROVE next[<<v, k>>] \in V
    <3>1. v \o s[k] \in Seq(S)
      BY <1>1, ConcatProperties
    <3> QED
      BY <1>2, <3>1
  <2> HIDE DEF next, V, N
  <2> QED
    BY <2>1 DEF StaysIn
<1>4. <<>> \in V
  OBVIOUS
<1> HIDE DEF next, N
<1>5. PICK g \in [0..N -> V] : g[0] = <<>> /\ \A k \in 1..N : g[k] = next[<<g[k - 1], k>>]
  <2>1. \E g \in [0..N -> V] : IsRecursion(g, <<>>, N, next)
    BY <1>1, <1>3, <1>4, RecursionExists
  <2> QED
    BY <2>1 DEF IsRecursion
<1>6. \A k \in 1..N : g[k] = g[k - 1] \o s[k]
  <2> SUFFICES ASSUME NEW k \in 1..N PROVE g[k] = g[k - 1] \o s[k]
    OBVIOUS
  <2>1. k - 1 \in 0..N
    BY <1>1
  <2>2. g[k - 1] \in V
    BY <2>1
  <2> QED
    BY <1>2, <1>5, <2>2
<1>7. CASE N = 0
  <2>1. s = <<>>
    BY <1>7 DEF N
  <2>2. FlattenSeq(s) = s
    BY <1>7 DEF FlattenSeq, N
  <2> QED
    BY <1>1, <1>5, <1>6, <1>7, <2>1, <2>2 DEF N
<1>8. CASE N # 0
  <2> DEFINE h == [i \in 1..N |-> g[i]]
  <2>1. \A i \in 1..N : h[i] = IF i = 1 THEN s[i] ELSE h[i - 1] \o s[i]
    <3> SUFFICES ASSUME NEW i \in 1..N
                 PROVE  g[i] = IF i = 1 THEN s[i] ELSE h[i - 1] \o s[i]
      OBVIOUS
    <3>1. CASE i = 1
      <4>0. 1 \in 1..N /\ 1 - 1 = 0
        BY <1>1, <1>8
      <4>1. g[1] = g[1 - 1] \o s[1]
        BY <1>6, <4>0
      <4>2. s[1] \in Seq(S)
        BY <1>1, <3>1
      <4>3. <<>> \o s[1] = s[1]
        BY <4>2, ConcatEmptySeq
      <4> QED
        BY <1>5, <3>1, <4>0, <4>1, <4>3
    <3>2. CASE i # 1
      <4>1. i - 1 \in 1..N
        BY <1>1, <3>2
      <4> QED
        BY <1>6, <3>2, <4>1
    <3> QED
      BY <3>1, <3>2
  <2>2. Equation(h)
    BY <2>1
  <2> DEFINE c == CHOOSE x : Equation(x)
  <2> HIDE DEF h
  <2>3. Equation(c)
    BY <2>2
  <2>4. FlattenSeq(s) = c[N]
    BY <1>8 DEF FlattenSeq, N
  <2> HIDE DEF c
  <2>5. \A i \in 1..N : c[i] = IF i = 1 THEN s[i] ELSE c[i - 1] \o s[i]
    BY <2>3
  <2> DEFINE T == {n \in Nat : n + 1 \in 1..N => c[n + 1] = g[n + 1]}
  <2>6. 0 \in T
    <3>1. 1 \in 1..N /\ 1 - 1 = 0
      BY <1>1, <1>8
    <3>2. c[1] = s[1] /\ g[1] = g[1 - 1] \o s[1] /\ s[1] \in Seq(S)
      BY <1>1, <1>6, <2>5, <3>1
    <3>3. g[1] = <<>> \o s[1]
      BY <1>5, <3>1, <3>2
    <3> QED
      BY <3>2, <3>3, ConcatEmptySeq
  <2>7. ASSUME NEW n \in Nat, n \in T PROVE n + 1 \in T
    <3> SUFFICES ASSUME (n + 1) + 1 \in 1..N PROVE c[(n + 1) + 1] = g[(n + 1) + 1]
      OBVIOUS
    <3>1. n + 1 \in 1..N /\ (n + 1) + 1 # 1 /\ ((n + 1) + 1) - 1 = n + 1
      BY <1>1
    <3>2. c[n + 1] = g[n + 1]
      BY <2>7, <3>1
    <3>3. c[(n + 1) + 1] = c[((n + 1) + 1) - 1] \o s[(n + 1) + 1]
      BY <2>5, <3>1
    <3>4. g[(n + 1) + 1] = g[((n + 1) + 1) - 1] \o s[(n + 1) + 1]
      BY <1>6
    <3> QED
      BY <3>1, <3>2, <3>3, <3>4
  <2> HIDE DEF T
  <2>8. \A n \in Nat : n \in T
    BY <2>6, <2>7, Induction
  <2>9. N - 1 \in Nat /\ (N - 1) + 1 = N /\ N \in 1..N
    BY <1>1, <1>8
  <2>10. c[N] = g[N]
    <3>1. N - 1 \in T
      BY <2>8, <2>9
    <3> QED
      BY <2>9, <3>1 DEF T
  <2> QED
    BY <1>5, <1>6, <2>4, <2>10 DEF N
<1> QED
  BY <1>7, <1>8

LEMMA FlattenEmpty == FlattenSeq(<<>>) = <<>>
BY DEF FlattenSeq

LEMMA FlattenType ==
  ASSUME NEW S, NEW s \in Seq(Seq(S))
  PROVE  FlattenSeq(s) \in Seq(S)
<1>1. PICK g \in [0..Len(s) -> Seq(S)] : FlattenSeq(s) = g[Len(s)]
  BY FlattenIsRecursion
<1>2. Len(s) \in 0..Len(s)
  OBVIOUS
<1> QED
  BY <1>1, <1>2

LEMMA FlattenAppend ==
  ASSUME NEW S, NEW s \in Seq(Seq(S)), NEW x \in Seq(S)
  PROVE  FlattenSeq(Append(s, x)) = FlattenSeq(s) \o x
<1> DEFINE N == Len(s)  t == Append(s, x)
<1>1. /\ N \in Nat /\ t \in Seq(Seq(S)) /\ Len(t) = N + 1 /\ t[N + 1] = x
      /\ \A k \in 1..N : t[k] = s[k]
  BY AppendProperties
<1>2. PICK g \in [0..N -> Seq(S)] : /\ g[0] = <<>>
                                    /\ \A k \in 1..N : g[k] = g[k - 1] \o s[k]
                                    /\ FlattenSeq(s) = g[N]
  BY FlattenIsRecursion
<1> HIDE DEF t
<1>3. PICK h \in [0..Len(t) -> Seq(S)] : /\ h[0] = <<>>
                                         /\ \A k \in 1..Len(t) : h[k] = h[k - 1] \o t[k]
                                         /\ FlattenSeq(t) = h[Len(t)]
  BY <1>1, FlattenIsRecursion
<1> HIDE DEF N
<1> DEFINE T == {n \in Nat : n <= N => h[n] = g[n]}
<1>4. 0 \in T
  BY <1>2, <1>3
<1>5. ASSUME NEW n \in Nat, n \in T PROVE n + 1 \in T
  <2> SUFFICES ASSUME n + 1 <= N PROVE h[n + 1] = g[n + 1]
    OBVIOUS
  <2>1. n + 1 \in 1..N /\ n + 1 \in 1..Len(t) /\ (n + 1) - 1 = n /\ h[n] = g[n]
    BY <1>1, <1>5
  <2> QED
    BY <1>1, <1>2, <1>3, <2>1
<1> HIDE DEF T
<1>6. N \in T
  BY <1>1, <1>4, <1>5, Induction
<1>7. h[N] = g[N]
  BY <1>1, <1>6 DEF T
<1>8. N + 1 \in 1..Len(t) /\ (N + 1) - 1 = N
  BY <1>1
<1> QED
  BY <1>1, <1>2, <1>3, <1>7, <1>8 DEF t

(* What the first n parts come to. *)
FlatTo(s, n) == FlattenSeq(SubSeq(s, 1, n))

LEMMA FlatToIsSeq ==
  ASSUME NEW S, NEW s \in Seq(Seq(S)), NEW n \in 0..Len(s)
  PROVE  FlatTo(s, n) \in Seq(S) /\ SubSeq(s, 1, n) \in Seq(Seq(S))
<1>1. SubSeq(s, 1, n) \in Seq(Seq(S))
  BY SubSeqProperties
<1> QED
  BY <1>1, FlattenType DEF FlatTo

LEMMA FlatToSteps ==
  ASSUME NEW S, NEW s \in Seq(Seq(S))
  PROVE  /\ FlatTo(s, 0) = <<>>
         /\ \A n \in 1..Len(s) : FlatTo(s, n) = FlatTo(s, n - 1) \o s[n]
         /\ FlatTo(s, Len(s)) = FlattenSeq(s)
<1>1. FlatTo(s, 0) = <<>>
  <2>1. SubSeq(s, 1, 0) = <<>>
    BY SubSeqEmpty
  <2> QED
    BY <2>1, FlattenEmpty DEF FlatTo
<1>2. ASSUME NEW n \in 1..Len(s) PROVE FlatTo(s, n) = FlatTo(s, n - 1) \o s[n]
  <2>1. n - 1 \in 0..Len(s) /\ s[n] \in Seq(S)
    OBVIOUS
  <2>2. SubSeq(s, 1, n - 1) \in Seq(Seq(S))
    BY <2>1, FlatToIsSeq
  <2>3. SubSeq(s, 1, n) = Append(SubSeq(s, 1, n - 1), s[n])
    OBVIOUS
  <2> QED
    BY <2>1, <2>2, <2>3, FlattenAppend DEF FlatTo
<1>3. FlatTo(s, Len(s)) = FlattenSeq(s)
  BY SubSeqFull DEF FlatTo
<1> QED
  BY <1>1, <1>2, <1>3

(* x is what t has from place k on. *)
ReadsIn(t, k, x) ==
  /\ k + Len(x) <= Len(t) + 1
  /\ \A i \in 1..Len(x) : t[k + i - 1] = x[i]

LEMMA ReadsParts ==
  ASSUME NEW S, NEW t \in Seq(S), NEW k \in Nat \ {0}, NEW x \in Seq(S), NEW y \in Seq(S),
         ReadsIn(t, k, x \o y)
  PROVE  ReadsIn(t, k, x) /\ ReadsIn(t, k + Len(x), y)
<1>1. /\ Len(x) \in Nat /\ Len(y) \in Nat /\ Len(x \o y) = Len(x) + Len(y)
      /\ \A i \in 1..(Len(x) + Len(y)) :
           (x \o y)[i] = IF i <= Len(x) THEN x[i] ELSE y[i - Len(x)]
  BY ConcatProperties
<1>2. \A i \in 1..(Len(x) + Len(y)) : t[k + i - 1] = (x \o y)[i]
  BY <1>1 DEF ReadsIn
<1>3. ASSUME NEW i \in 1..Len(x) PROVE t[k + i - 1] = x[i]
  <2>1. i \in 1..(Len(x) + Len(y)) /\ i <= Len(x)
    BY <1>1
  <2> QED
    BY <1>1, <1>2, <2>1
<1>4. ASSUME NEW i \in 1..Len(y) PROVE t[(k + Len(x)) + i - 1] = y[i]
  <2> DEFINE j == Len(x) + i
  <2>1. j \in 1..(Len(x) + Len(y)) /\ ~(j <= Len(x)) /\ j - Len(x) = i
        /\ k + j - 1 = (k + Len(x)) + i - 1
    BY <1>1
  <2>2. t[k + j - 1] = (x \o y)[j] /\ (x \o y)[j] = y[j - Len(x)]
    <3> HIDE DEF j
    <3> QED
      BY <1>1, <1>2, <2>1
  <2> QED
    BY <2>1, <2>2
<1>5. k + Len(x \o y) <= Len(t) + 1 /\ Len(t) \in Nat
  BY DEF ReadsIn
<1> QED
  BY <1>1, <1>3, <1>4, <1>5 DEF ReadsIn

LEMMA ReadsPrefix ==
  ASSUME NEW S, NEW t \in Seq(S), NEW k \in Nat \ {0}, NEW s \in Seq(Seq(S)),
         ReadsIn(t, k, FlattenSeq(s))
  PROVE  \A n \in 0..Len(s) : ReadsIn(t, k, FlatTo(s, n))
<1> DEFINE N == Len(s)
           T == {m \in Nat : m <= N => ReadsIn(t, k, FlatTo(s, N - m))}
<1>1. 0 \in T
  <2>1. N - 0 = N /\ N \in Nat
    OBVIOUS
  <2>2. ReadsIn(t, k, FlatTo(s, N))
    BY FlatToSteps
  <2> HIDE DEF N
  <2> QED
    BY <2>1, <2>2
<1>2. ASSUME NEW m \in Nat, m \in T PROVE m + 1 \in T
  <2> SUFFICES ASSUME m + 1 <= N PROVE ReadsIn(t, k, FlatTo(s, N - (m + 1)))
    OBVIOUS
  <2> DEFINE n == N - m
  <2>1. n \in 1..N /\ n - 1 = N - (m + 1) /\ n - 1 \in 0..N /\ ReadsIn(t, k, FlatTo(s, n))
    BY <1>2
  <2> HIDE DEF n
  <2>2. FlatTo(s, n) = FlatTo(s, n - 1) \o s[n] /\ FlatTo(s, n - 1) \in Seq(S) /\ s[n] \in Seq(S)
    <3>1. n \in 1..Len(s) /\ n - 1 \in 0..Len(s)
      BY <2>1
    <3>2. FlatTo(s, n) = FlatTo(s, n - 1) \o s[n]
      BY <3>1, FlatToSteps
    <3> QED
      BY <3>1, <3>2, FlatToIsSeq
  <2>3. ReadsIn(t, k, FlatTo(s, n - 1))
    BY <2>1, <2>2, ReadsParts
  <2> QED
    BY <2>1, <2>3
<1> HIDE DEF T
<1>3. \A m \in Nat : m \in T
  BY <1>1, <1>2, Induction
<1>4. ASSUME NEW n \in 0..N PROVE ReadsIn(t, k, FlatTo(s, n))
  <2>1. N - n \in Nat /\ N - n <= N /\ N - (N - n) = n
    OBVIOUS
  <2>2. N - n \in T
    BY <1>3, <2>1
  <2> HIDE DEF N
  <2>3. N - n \in Nat /\ N - n <= N => ReadsIn(t, k, FlatTo(s, N - (N - n)))
    BY <2>2 DEF T
  <2> QED
    BY <2>1, <2>3
<1> QED
  BY <1>4

(* Each part is read where the parts before it end. *)
LEMMA ReadsPart ==
  ASSUME NEW S, NEW t \in Seq(S), NEW k \in Nat \ {0}, NEW s \in Seq(Seq(S)),
         ReadsIn(t, k, FlattenSeq(s)), NEW n \in 1..Len(s)
  PROVE  /\ ReadsIn(t, k + Len(FlatTo(s, n - 1)), s[n])
         /\ Len(FlatTo(s, n - 1)) \in Nat
         /\ Len(FlatTo(s, n)) = Len(FlatTo(s, n - 1)) + Len(s[n])
<1>1. n - 1 \in 0..Len(s) /\ n \in 0..Len(s) /\ s[n] \in Seq(S)
  OBVIOUS
<1>2. FlatTo(s, n) = FlatTo(s, n - 1) \o s[n] /\ FlatTo(s, n - 1) \in Seq(S)
  BY <1>1, FlatToSteps, FlatToIsSeq
<1>3. ReadsIn(t, k, FlatTo(s, n))
  BY <1>1, ReadsPrefix
<1> QED
  BY <1>1, <1>2, <1>3, ReadsParts, ConcatProperties

(* Every place is in one of the parts. *)
LEMMA PlaceIsInPart ==
  ASSUME NEW S, NEW s \in Seq(Seq(S)), NEW q \in 1..Len(FlattenSeq(s))
  PROVE  \E n \in 1..Len(s) : Len(FlatTo(s, n - 1)) < q /\ q <= Len(FlatTo(s, n))
<1> DEFINE T == {n \in 0..Len(s) : q <= Len(FlatTo(s, n))}
<1>1. Len(s) \in 0..Len(s) /\ 0..Len(s) \subseteq Nat
  OBVIOUS
<1>2. Len(s) \in T
  <2>1. FlatTo(s, Len(s)) = FlattenSeq(s)
    BY FlatToSteps
  <2>2. q <= Len(FlattenSeq(s))
    OBVIOUS
  <2> QED
    BY <1>1, <2>1, <2>2
<1>3. \A n \in 0..Len(s) : Len(FlatTo(s, n)) \in Nat
  BY FlatToIsSeq
<1>4. 0 \notin T
  <2>1. Len(FlatTo(s, 0)) = 0
    <3>1. FlatTo(s, 0) = <<>>
      BY FlatToSteps
    <3> QED
      BY <3>1
  <2>2. 1 <= q /\ q \in Int
    OBVIOUS
  <2> QED
    BY <2>1, <2>2
<1>5. PICK n \in T : \A k \in T : n <= k
  <2>1. T \subseteq Nat /\ T # {}
    BY <1>1, <1>2
  <2> HIDE DEF T
  <2> QED
    BY <2>1, LeastOfNaturals
<1>6. n \in 1..Len(s) /\ n - 1 \in 0..Len(s) /\ n - 1 \notin T
  BY <1>4, <1>5
<1>7. Len(FlatTo(s, n - 1)) < q
  BY <1>3, <1>6
<1> QED
  BY <1>6, <1>7

-----------------------------------------------------------------------------
(* The cursor.                                                              *)

AtField == fields \in Seq(Text) /\ f \in DOMAIN fields

LEMMA FieldIsText == AtField => Field \in Text /\ Len(Field) \in Nat
BY DEF AtField, Field, Text

LEMMA SeekFinds ==
  ASSUME AtField, NEW k \in 1..(Len(Field) + 1), NEW S
  PROVE  /\ Seek(k, S) \in k..(Len(Field) + 1)
         /\ Seek(k, S) > Len(Field) \/ Field[Seek(k, S)] \in S
         /\ \A j \in k..(Seek(k, S) - 1) : Field[j] \notin S
<1> DEFINE L == Len(Field)
           T == {n \in k..(L + 1) : n > L \/ Field[n] \in S}
<1>1. L \in Nat
  BY FieldIsText
<1>2. T \subseteq Nat /\ L + 1 \in T
  BY <1>1
<1>3. PICK n \in T : \A j \in T : n <= j
  <2> HIDE DEF T
  <2> QED
    BY <1>2, LeastOfNaturals
<1>4. \A j \in k..(n - 1) : Field[j] \notin S
  BY <1>1, <1>3
<1>5. /\ n \in k..(Len(Field) + 1)
      /\ n > Len(Field) \/ Field[n] \in S
      /\ \A j \in k..(n - 1) : Field[j] \notin S
  BY <1>3, <1>4
<1> QED
  BY <1>5 DEF Seek

(* The place Seek finds is the only one that is like it. *)
LEMMA SeekIs ==
  ASSUME AtField, NEW k \in 1..(Len(Field) + 1), NEW S, NEW n \in k..(Len(Field) + 1),
         n > Len(Field) \/ Field[n] \in S,
         \A j \in k..(n - 1) : Field[j] \notin S
  PROVE  Seek(k, S) = n
<1> DEFINE m == Seek(k, S)
<1>1. /\ m \in k..(Len(Field) + 1)
      /\ m > Len(Field) \/ Field[m] \in S
      /\ \A j \in k..(m - 1) : Field[j] \notin S
  BY SeekFinds
<1>2. Len(Field) \in Nat
  BY FieldIsText
<1> HIDE DEF m
<1>3. ~(m < n)
  BY <1>1, <1>2
<1>4. ~(n < m)
  BY <1>1, <1>2
<1>5. m = n
  BY <1>1, <1>2, <1>3, <1>4
<1> QED
  BY <1>5 DEF m

LEMMA SkipFinds ==
  ASSUME AtField, NEW k \in 1..(Len(Field) + 1), NEW S
  PROVE  /\ Skip(k, S) \in k..(Len(Field) + 1)
         /\ Skip(k, S) <= Len(Field) => Field[Skip(k, S)] \notin S
         /\ \A j \in k..(Skip(k, S) - 1) : Field[j] \in S
<1>1. Field \in Text /\ Len(Field) \in Nat
  BY FieldIsText
<1> DEFINE m == Seek(k, Symbol \ S)
<1>2. /\ m \in k..(Len(Field) + 1)
      /\ m > Len(Field) \/ Field[m] \in Symbol \ S
      /\ \A j \in k..(m - 1) : Field[j] \notin Symbol \ S
  BY SeekFinds
<1> HIDE DEF m
<1>3. \A j \in 1..Len(Field) : Field[j] \in Symbol
  BY <1>1 DEF Text
<1>4. \A j \in k..(m - 1) : j \in 1..Len(Field)
  BY <1>1, <1>2
<1>5. \A j \in k..(m - 1) : Field[j] \in S
  BY <1>2, <1>3, <1>4
<1>6. m <= Len(Field) => Field[m] \notin S
  BY <1>1, <1>2
<1> QED
  BY <1>2, <1>5, <1>6 DEF m, Skip

LEMMA SeekRange ==
  ASSUME AtField, NEW k \in 1..(Len(Field) + 1), NEW S
  PROVE  Seek(k, S) \in k..(Len(Field) + 1) /\ Skip(k, S) \in k..(Len(Field) + 1)
BY SeekFinds, SkipFinds

LEMMA HeldPlace ==
  ASSUME NEW k, NEW s, Holds(k, s)
  PROVE  k <= Len(Field) /\ Field[k] = s
BY DEF Holds

LEMMA SkipIs ==
  ASSUME AtField, NEW k \in 1..(Len(Field) + 1), NEW S, NEW n \in k..(Len(Field) + 1),
         n <= Len(Field) => Field[n] \notin S,
         \A j \in k..(n - 1) : Field[j] \in S
  PROVE  Skip(k, S) = n
<1>1. Field \in Text /\ Len(Field) \in Nat
  BY FieldIsText
<1>2. n > Len(Field) \/ Field[n] \in Symbol \ S
  BY <1>1 DEF Text
<1>3. \A j \in k..(n - 1) : Field[j] \notin Symbol \ S
  OBVIOUS
<1> QED
  BY <1>2, <1>3, SeekIs DEF Skip

LEMMA BetweenType ==
  ASSUME AtField, NEW k \in Nat \ {0}, NEW n \in 1..(Len(Field) + 1)
  PROVE  Between(k, n) \in Text
<1>1. Field \in Seq(Symbol) /\ Len(Field) \in Nat
  BY FieldIsText DEF Text
<1>2. \A i \in k..(n - 1) : Field[i] \in Symbol
  BY <1>1
<1> QED
  BY <1>2, SubSeqProperties DEF Between, Text

LEMMA TrimSpaceType ==
  ASSUME NEW x \in Text
  PROVE  /\ TrimSpace(x) \in Text
         /\ TrimSpace(x) # <<>> <=> Range(x) \ Blank # {}
<1> DEFINE kept == {k \in DOMAIN x : x[k] \notin Blank}
<1>1. x \in Seq(Symbol) /\ Len(x) \in Nat /\ DOMAIN x = 1..Len(x) /\ \A i \in 1..Len(x) : x[i] \in Symbol
  BY DEF Text
<1>2. kept # {} <=> Range(x) \ Blank # {}
  BY DEF Range
<1>3. CASE kept = {}
  BY <1>2, <1>3 DEF TrimSpace, Text
<1>4. CASE kept # {}
  <2>1. kept \subseteq Nat /\ kept \subseteq 1..Len(x)
    BY <1>1
  <2> DEFINE a == Min(kept)  b == Max(kept)
  <2>2. a \in kept /\ b \in kept /\ a <= b
    <3> HIDE DEF kept
    <3> QED
      BY <1>1, <1>4, <2>1, MinIsLeast, MaxIsGreatest
  <2>3. TrimSpace(x) = SubSeq(x, a, b)
    BY <1>4 DEF TrimSpace
  <2> HIDE DEF a, b
  <2>4. a \in Int /\ b \in Int /\ \A i \in a..b : x[i] \in Symbol
    BY <1>1, <2>1, <2>2
  <2>5. SubSeq(x, a, b) \in Seq(Symbol) /\ Len(SubSeq(x, a, b)) = b - a + 1
    BY <2>2, <2>4, SubSeqProperties
  <2>6. SubSeq(x, a, b) # <<>>
    BY <2>2, <2>4, <2>5
  <2> QED
    BY <1>2, <1>4, <2>3, <2>5, <2>6 DEF Text
<1> QED
  BY <1>3, <1>4

-----------------------------------------------------------------------------
(* What is rendered is text.                                                *)

LEMMA OneIsSeq ==
  ASSUME NEW S, NEW x \in S
  PROVE  <<x>> \in Seq(S)
OBVIOUS

LEMMA MarksAreSymbols ==
  /\ \A m \in {"<", ">", ",", ";", "=", "\"", "\\"} : m \in Symbol /\ <<m>> \in Text /\ m \notin Blank
  /\ <<>> \in Text
  /\ \A x, y \in Text : x \o y \in Text
<1>1. ASSUME NEW m \in {"<", ">", ",", ";", "=", "\"", "\\"}
      PROVE  m \in Symbol /\ <<m>> \in Text /\ m \notin Blank
  <2>1. m \in Symbol
    BY DEF Symbol
  <2>2. m \notin Blank
    BY DEF Blank
  <2>3. <<m>> \in Seq(Symbol)
    BY <2>1, OneIsSeq
  <2> QED
    BY <2>1, <2>2, <2>3 DEF Text
<1>2. <<>> \in Text
  BY DEF Text
<1>3. \A x, y \in Text : x \o y \in Text
  BY ConcatProperties DEF Text
<1> QED
  BY <1>1, <1>2, <1>3

(* The pieces a quoted value, a link and a field are rendered from. *)
Escapes(v)    == [k \in DOMAIN v |-> IF v[k] \in {"\"", "\\"} THEN <<"\\", v[k]>> ELSE <<v[k]>>]
ParamTexts(e) == [k \in DOMAIN e.params |-> RenderParam(e.params[k])]
Parts(es)     == [k \in DOMAIN es |-> (IF k = 1 THEN <<>> ELSE <<",">>) \o RenderElement(es[k])]

LEMMA EscapesType ==
  ASSUME NEW v \in Text
  PROVE  /\ Escapes(v) \in Seq(Text) /\ Len(Escapes(v)) = Len(v)
         /\ Escaped(v) = FlattenSeq(Escapes(v)) /\ Escaped(v) \in Text
<1> DEFINE Piece(k) == IF v[k] \in {"\"", "\\"} THEN <<"\\", v[k]>> ELSE <<v[k]>>
<1>1. v \in Seq(Symbol) /\ DOMAIN v = 1..Len(v) /\ Len(v) \in Nat
  BY DEF Text
<1>2. ASSUME NEW k \in 1..Len(v) PROVE Piece(k) \in Text
  <2>1. v[k] \in Symbol
    BY <1>1
  <2>2. "\\" \in Symbol
    BY MarksAreSymbols
  <2>3. <<"\\", v[k]>> \in Seq(Symbol) /\ <<v[k]>> \in Seq(Symbol)
    BY <2>1, <2>2
  <2> QED
    BY <2>3 DEF Text
<1>3. Escapes(v) \in Seq(Text) /\ Len(Escapes(v)) = Len(v)
  <2>1. Escapes(v) = [k \in 1..Len(v) |-> Piece(k)]
    BY <1>1 DEF Escapes
  <2> HIDE DEF Piece
  <2> QED
    BY <1>1, <1>2, <2>1
<1>4. Escaped(v) = FlattenSeq(Escapes(v))
  BY DEF Escaped, Escapes
<1> QED
  BY <1>3, <1>4, FlattenType DEF Text

LEMMA RenderParamType ==
  ASSUME NEW p \in Param
  PROVE  RenderParam(p) \in Text
<1>1. p.gap \in Text /\ p.name \in Text /\ p.value \in Text
  BY DEF Param
<1>2. Escaped(p.value) \in Text
  BY <1>1, EscapesType
<1>3. <<";">> \in Text /\ <<"=">> \in Text /\ <<"\"">> \in Text /\ <<>> \in Text
  BY MarksAreSymbols
<1> DEFINE quoted == <<"\"">> \o Escaped(p.value) \o <<"\"">>
           tail == IF p.form = "bare" THEN <<>>
                   ELSE p.gap \o <<"=">> \o p.gap
                          \o (IF p.form = "token" THEN p.value ELSE quoted)
<1>4. quoted \in Text
  BY <1>2, <1>3, MarksAreSymbols
<1>5. tail \in Text
  <2> HIDE DEF quoted
  <2> QED
    BY <1>1, <1>3, <1>4, MarksAreSymbols
<1>6. RenderParam(p) = p.gap \o <<";">> \o p.gap \o p.name \o tail
  BY DEF RenderParam
<1> HIDE DEF tail
<1>7. p.gap \o <<";">> \in Text
  BY <1>1, <1>3, MarksAreSymbols
<1>8. p.gap \o <<";">> \o p.gap \in Text
  BY <1>1, <1>7, MarksAreSymbols
<1>9. p.gap \o <<";">> \o p.gap \o p.name \in Text
  BY <1>1, <1>8, MarksAreSymbols
<1> QED
  BY <1>5, <1>6, <1>9, MarksAreSymbols

LEMMA ElementType ==
  ASSUME NEW e \in Element
  PROVE  /\ e.link \in BOOLEAN
         /\ e.link => /\ e.target \in Text /\ e.tail \in Text
                      /\ e.params \in Seq(Param) /\ ParamTexts(e) \in Seq(Text)
                      /\ Len(ParamTexts(e)) = Len(e.params)
                      /\ FlattenSeq(ParamTexts(e)) \in Text
         /\ ~e.link => e.junk \in Text
         /\ RenderElement(e) \in Text
<1>1. CASE e.link
  <2>1. e \in [link : {TRUE}, target : Text, params : Seq(Param), tail : Text]
    BY <1>1 DEF Element
  <2>2. e.target \in Text /\ e.tail \in Text /\ e.params \in Seq(Param)
    BY <2>1
  <2>3. \A k \in 1..Len(e.params) : RenderParam(e.params[k]) \in Text
    BY <2>2, RenderParamType
  <2>4. ParamTexts(e) \in Seq(Text) /\ Len(ParamTexts(e)) = Len(e.params)
    BY <2>2, <2>3 DEF ParamTexts
  <2>5. FlattenSeq(ParamTexts(e)) \in Text
    BY <2>4, FlattenType DEF Text
  <2>6. RenderElement(e) = <<"<">> \o e.target \o <<">">> \o FlattenSeq(ParamTexts(e)) \o e.tail
    BY <1>1 DEF RenderElement, ParamTexts
  <2>7. RenderElement(e) \in Text
    <3>1. <<"<">> \in Text /\ <<">">> \in Text
      BY MarksAreSymbols
    <3>2. <<"<">> \o e.target \in Text
      BY <2>2, <3>1, MarksAreSymbols
    <3>3. <<"<">> \o e.target \o <<">">> \in Text
      BY <3>1, <3>2, MarksAreSymbols
    <3>4. <<"<">> \o e.target \o <<">">> \o FlattenSeq(ParamTexts(e)) \in Text
      BY <2>5, <3>3, MarksAreSymbols
    <3> QED
      BY <2>2, <2>6, <3>4, MarksAreSymbols
  <2> QED
    BY <1>1, <2>2, <2>4, <2>5, <2>7, <2>1
<1>2. CASE ~e.link
  <2>1. e \in [link : {FALSE}, junk : Text]
    BY <1>2 DEF Element
  <2> QED
    BY <1>2, <2>1 DEF RenderElement
<1> QED
  BY <1>1, <1>2

LEMMA RenderType ==
  ASSUME NEW es \in Seq(Element)
  PROVE  /\ Parts(es) \in Seq(Text) /\ Len(Parts(es)) = Len(es)
         /\ Render(es) = FlattenSeq(Parts(es)) /\ Render(es) \in Text
<1> DEFINE Piece(k) == (IF k = 1 THEN <<>> ELSE <<",">>) \o RenderElement(es[k])
<1>1. ASSUME NEW k \in 1..Len(es) PROVE Piece(k) \in Text
  <2>1. RenderElement(es[k]) \in Text
    BY ElementType
  <2>2. (IF k = 1 THEN <<>> ELSE <<",">>) \in Text
    BY MarksAreSymbols
  <2> QED
    BY <2>1, <2>2, MarksAreSymbols
<1>2. Parts(es) \in Seq(Text) /\ Len(Parts(es)) = Len(es)
  <2>1. Parts(es) = [k \in 1..Len(es) |-> Piece(k)]
    BY DEF Parts
  <2> HIDE DEF Piece
  <2> QED
    BY <1>1, <2>1
<1>3. Render(es) = FlattenSeq(Parts(es))
  BY DEF Render, Parts
<1> QED
  BY <1>2, <1>3, FlattenType DEF Text

-----------------------------------------------------------------------------
LEMMA PageIsTyped ==
  ASSUME NEW p \in Pages
  PROVE  /\ p \in Page /\ p.fields \in Seq(Seq(Element)) /\ p.html \in BOOLEAN
         /\ p.tokens \in Seq(Token)
BY PagesAssumption DEF Page

LEMMA NamedPlaces ==
  ASSUME NEW S, NEW s \in Seq(S), NEW n, Named(s, n) # {}
  PROVE  /\ Min(Named(s, n)) \in 1..Len(s)
         /\ s[Min(Named(s, n))].name = n
         /\ \A k \in 1..Len(s) : s[k].name = n => Min(Named(s, n)) <= k
<1>1. Named(s, n) \subseteq Nat
  BY DEF Named
<1>2. Min(Named(s, n)) \in Named(s, n) /\ \A k \in Named(s, n) : Min(Named(s, n)) <= k
  BY <1>1, MinIsLeast
<1> QED
  BY <1>2 DEF Named

LEMMA AttrType ==
  ASSUME NEW token \in Token, NEW n
  PROVE  Attr(token, n) \in Text \cup {Absent}
<1>1. token.attrs \in Seq(Attribute)
  BY DEF Token
<1>2. CASE Named(token.attrs, n) = {}
  BY <1>2 DEF Attr
<1>3. CASE Named(token.attrs, n) # {}
  <2>1. Min(Named(token.attrs, n)) \in 1..Len(token.attrs)
    BY <1>1, <1>3, NamedPlaces
  <2>2. token.attrs[Min(Named(token.attrs, n))] \in Attribute
    BY <1>1, <2>1
  <2> QED
    BY <1>3, <2>2 DEF Attr, Attribute
<1> QED
  BY <1>2, <1>3

LEMMA PointsToType ==
  ASSUME NEW token \in Token
  PROVE  PointsTo(token) \in Text
<1>1. CASE Attr(token, "href") = Absent
  BY <1>1, MarksAreSymbols DEF PointsTo
<1>2. CASE Attr(token, "href") # Absent
  <2>1. Attr(token, "href") \in Text
    BY <1>2, AttrType
  <2> QED
    BY <1>2, <2>1, TrimSpaceType DEF PointsTo
<1> QED
  BY <1>1, <1>2

LEMMA TypeInit == Init => TypeOK
<1> SUFFICES ASSUME Init PROVE TypeOK
  OBVIOUS
<1>1. page \in Page /\ page.fields \in Seq(Seq(Element)) /\ page.tokens \in Seq(Token)
  BY PageIsTyped DEF Init
<1>2. \A k \in 1..Len(page.fields) : Render(page.fields[k]) \in Text
  BY <1>1, RenderType
<1>3. fields \in Seq(Text)
  <2>1. fields = [k \in 1..Len(page.fields) |-> Render(page.fields[k])]
    BY <1>1 DEF Init
  <2>2. Len(page.fields) \in Nat
    BY <1>1
  <2> QED
    BY <1>2, <2>1, <2>2
<1>4. <<>> \in Text
  BY MarksAreSymbols
<1>5. pc = "link" => f \in DOMAIN fields /\ at \in 1..(Len(Field) + 1)
  <2> SUFFICES ASSUME pc = "link" PROVE f \in DOMAIN fields /\ at \in 1..(Len(Field) + 1)
    OBVIOUS
  <2>1. fields # <<>> /\ f = 1 /\ at = 1
    BY DEF Init
  <2>2. f \in DOMAIN fields
    BY <1>3, <2>1
  <2>3. Len(Field) \in Nat
    BY <1>3, <2>2, FieldIsText DEF AtField
  <2> QED
    BY <2>1, <2>2, <2>3
<1>6. pc = "head" => at \in 1..(Len(page.tokens) + 1)
  BY <1>1 DEF Init
<1>7. pc \in {"link", "head"}
  BY DEF Init
<1>8. targets = <<>> /\ hrefs = <<>> /\ params = <<>>
  BY DEF Init
<1>9. targets \in Seq(Text) /\ hrefs \in Seq(Text) /\ params \in Seq([name : Text, value : Text])
  BY <1>8
<1> QED
  BY <1>1, <1>3, <1>4, <1>5, <1>6, <1>7, <1>9 DEF Init, TypeOK

LEMMA WithParamType ==
  ASSUME params \in Seq([name : Text, value : Text]), NEW n \in Text, NEW v \in Text
  PROVE  withParam(n, v) \in Seq([name : Text, value : Text])
<1>1. [name |-> n, value |-> v] \in [name : Text, value : Text]
  OBVIOUS
<1> QED
  BY <1>1, AppendProperties DEF withParam

(* Where the parts of a parameter are. *)
Comma      == {","}
NameStops  == {"=", ";", ","} \cup Blank
ValueStops == {";", ","} \cup Blank

NextComma(k) == Seek(k, Comma)

ParamName  == Skip(Skip(at, Blank) + 1, Blank)
NameEnd    == Seek(ParamName, NameStops)
EqualSign  == Skip(NameEnd, Blank)
ValueStart == Skip(EqualSign + 1, Blank)
ValueEnd   == Seek(ValueStart, ValueStops)

AtParam  == Holds(Skip(at, Blank), ";")
HasValue == Holds(EqualSign, "=")
IsQuoted == Holds(ValueStart, "\"")

LEMMA ReadParamPlaces ==
  ASSUME AtField, at \in 1..(Len(Field) + 1), AtParam
  PROVE  /\ Skip(at, Blank) \in at..Len(Field)
         /\ ParamName \in (at + 1)..(Len(Field) + 1)
         /\ NameEnd \in ParamName..(Len(Field) + 1)
         /\ EqualSign \in NameEnd..(Len(Field) + 1)
         /\ HasValue =>
              /\ EqualSign <= Len(Field)
              /\ ValueStart \in (EqualSign + 1)..(Len(Field) + 1)
              /\ ValueEnd \in ValueStart..(Len(Field) + 1)
<1>1. Len(Field) \in Nat
  BY FieldIsText
<1>2. Skip(at, Blank) \in at..Len(Field)
  <2>1. Skip(at, Blank) <= Len(Field)
    BY HeldPlace DEF AtParam
  <2> QED
    BY <1>1, <2>1, SeekRange
<1>3. ParamName \in (Skip(at, Blank) + 1)..(Len(Field) + 1)
  BY <1>1, <1>2, SeekRange DEF ParamName
<1>4. NameEnd \in ParamName..(Len(Field) + 1)
  BY <1>1, <1>2, <1>3, SeekRange DEF NameEnd
<1>5. EqualSign \in NameEnd..(Len(Field) + 1)
  BY <1>1, <1>2, <1>3, <1>4, SeekRange DEF EqualSign
<1>6. ASSUME HasValue
      PROVE  /\ EqualSign <= Len(Field)
             /\ ValueStart \in (EqualSign + 1)..(Len(Field) + 1)
             /\ ValueEnd \in ValueStart..(Len(Field) + 1)
  <2>0. EqualSign <= Len(Field)
    BY <1>6, HeldPlace DEF HasValue
  <2>1. EqualSign \in 1..Len(Field)
    BY <1>1, <1>2, <1>3, <1>4, <1>5, <1>6, <2>0
  <2>2. ValueStart \in (EqualSign + 1)..(Len(Field) + 1)
    BY <1>1, <2>1, SeekRange DEF ValueStart
  <2>3. ValueEnd \in ValueStart..(Len(Field) + 1)
    BY <1>1, <2>1, <2>2, SeekRange DEF ValueEnd
  <2> QED
    BY <2>1, <2>2, <2>3
<1>7. ParamName \in (at + 1)..(Len(Field) + 1)
  BY <1>1, <1>2, <1>3
<1> QED
  BY <1>2, <1>4, <1>5, <1>6, <1>7

(* The three kinds of parameters, apart. *)
ReadBare ==
  /\ ~HasValue
  /\ params' = withParam(Between(ParamName, NameEnd), <<>>)
  /\ at' = EqualSign
  /\ UNCHANGED <<pc, name, text>>

OpenQuote ==
  /\ HasValue /\ IsQuoted
  /\ pc' = "quoted"
  /\ name' = Between(ParamName, NameEnd)
  /\ text' = <<>>
  /\ at' = ValueStart + 1
  /\ UNCHANGED params

ReadWord ==
  /\ HasValue /\ ~IsQuoted
  /\ params' = withParam(Between(ParamName, NameEnd), Between(ValueStart, ValueEnd))
  /\ at' = ValueEnd
  /\ UNCHANGED <<pc, name, text>>

LEMMA ReadParamCases ==
  ASSUME ReadParam
  PROVE  /\ pc = "param" /\ AtParam
         /\ ReadBare \/ OpenQuote \/ ReadWord
         /\ UNCHANGED <<page, fields, f, target, targets, base, hrefs>>
BY DEF ReadParam, ReadBare, OpenQuote, ReadWord, AtParam, HasValue, IsQuoted, ParamName, NameEnd, EqualSign,
       ValueStart, ValueEnd, NameStops, ValueStops

LEMMA TypeStep == TypeOK /\ [Next]_vars => TypeOK'
<1> SUFFICES ASSUME TypeOK, [Next]_vars PROVE TypeOK'
  OBVIOUS
<1> DEFINE Reading == pc \in {"link", "param", "quoted"}
           AtEnd(n) == n \in 1..(Len(Field) + 1)
<1>1. Reading => AtField /\ AtEnd(at) /\ Len(Field) \in Nat
  BY FieldIsText DEF TypeOK, AtField
<1>2. pc = "link" => LinkStart \in at..(Len(Field) + 1)
  <2> SUFFICES ASSUME pc = "link" PROVE LinkStart \in at..(Len(Field) + 1)
    OBVIOUS
  <2> QED
    BY <1>1, SeekRange DEF LinkStart
<1>3. CASE SkipJunk
  <2>0. at' = NextComma(LinkStart) /\ pc = "link" /\ Field' = Field
    BY <1>3 DEF SkipJunk, NextComma, Comma, Field
  <2>1. LinkStart \in 1..(Len(Field) + 1)
    BY <1>1, <1>2, <2>0
  <2>2. NextComma(LinkStart) \in LinkStart..(Len(Field) + 1)
    BY <1>1, <2>0, <2>1, SeekRange DEF NextComma
  <2>3. AtEnd(at')
    BY <1>1, <2>0, <2>1, <2>2
  <2> QED
    BY <1>3, <2>0, <2>3 DEF SkipJunk, TypeOK
<1>4. CASE FieldEnds
  <2>1. f \in 1..Len(fields) /\ Len(fields) \in Nat /\ fields' = fields
    <3>1. pc = "link" /\ fields' = fields
      BY <1>4 DEF FieldEnds
    <3> QED
      BY <1>1, <3>1 DEF AtField
  <2>2. CASE f = Len(fields)
    <3>1. pc' = "head" /\ at' = 1
      BY <1>4, <2>2 DEF FieldEnds
    <3>2. at' \in 1..(Len(page'.tokens) + 1)
      <4>1. page' = page
        BY <1>4 DEF FieldEnds
      <4>2. page.tokens \in Seq(Token)
        BY DEF TypeOK, Page
      <4> QED
        BY <3>1, <4>1, <4>2
    <3> QED
      BY <1>4, <3>1, <3>2 DEF FieldEnds, TypeOK
  <2>3. CASE f # Len(fields)
    <3>1. pc' = "link" /\ at' = 1 /\ f' = f + 1
      BY <1>4, <2>3 DEF FieldEnds
    <3>2. f' \in DOMAIN fields'
      BY <1>4, <2>1, <2>3, <3>1 DEF TypeOK
    <3>3. Field' \in Text
      BY <1>4, <2>1, <3>2 DEF TypeOK, Field
    <3>4. at' \in 1..(Len(Field') + 1)
      BY <3>1, <3>3 DEF Text
    <3> QED
      BY <1>4, <3>1, <3>2, <3>4 DEF FieldEnds, TypeOK
  <2> QED
    BY <2>2, <2>3
<1>5. CASE OpenLink
  <2> DEFINE close == Seek(LinkStart + 1, {">"})
  <2>1. LinkStart \in 1..Len(Field)
    BY <1>1, <1>2, <1>5 DEF OpenLink, Holds
  <2>2. close \in (LinkStart + 1)..(Len(Field) + 1)
    BY <1>1, <1>5, <2>1, SeekRange DEF OpenLink
  <2>3. close <= Len(Field) /\ target' = TrimSpace(Between(LinkStart + 1, close)) /\ at' = close + 1
    BY <1>5 DEF OpenLink
  <2> HIDE DEF close
  <2>4. Between(LinkStart + 1, close) \in Text
    BY <1>1, <1>5, <2>1, <2>2, BetweenType DEF OpenLink
  <2>5. target' \in Text
    BY <2>3, <2>4, TrimSpaceType
  <2>6. AtEnd(at') /\ Field' = Field
    BY <1>1, <1>5, <2>1, <2>2, <2>3 DEF OpenLink, Field
  <2>7. params' \in Seq([name : Text, value : Text])
    BY <1>5 DEF OpenLink
  <2> QED
    BY <1>5, <2>5, <2>6, <2>7 DEF OpenLink, TypeOK
<1>6. CASE ParamsEnd
  <2>0. at' = NextComma(Skip(at, Blank)) /\ pc = "param" /\ Field' = Field
    BY <1>6 DEF ParamsEnd, NextComma, Comma, Field
  <2>1. Skip(at, Blank) \in 1..(Len(Field) + 1)
    BY <1>1, <2>0, SeekRange
  <2>2. NextComma(Skip(at, Blank)) \in 1..(Len(Field) + 1)
    BY <1>1, <2>0, <2>1, SeekRange DEF NextComma
  <2>3. AtEnd(at')
    BY <2>0, <2>2
  <2>4. targets' \in Seq(Text)
    <3>1. targets' = IF hasLinkRelation(params) THEN Append(targets, target) ELSE targets
      BY <1>6 DEF ParamsEnd
    <3>2. targets \in Seq(Text) /\ target \in Text
      BY DEF TypeOK
    <3> QED
      BY <3>1, <3>2, AppendProperties
  <2> QED
    BY <1>6, <2>0, <2>3, <2>4 DEF ParamsEnd, TypeOK
<1>7. CASE ReadParam
  <2>1. /\ pc = "param" /\ AtParam
        /\ ReadBare \/ OpenQuote \/ ReadWord
        /\ UNCHANGED <<page, fields, f, target, targets, base, hrefs>>
    BY <1>7, ReadParamCases
  <2>2. Field' = Field /\ Reading /\ params \in Seq([name : Text, value : Text])
    BY <2>1 DEF Field, TypeOK
  <2>3. /\ ParamName \in (at + 1)..(Len(Field) + 1)
        /\ NameEnd \in ParamName..(Len(Field) + 1)
        /\ EqualSign \in NameEnd..(Len(Field) + 1)
        /\ HasValue =>
             /\ EqualSign <= Len(Field)
             /\ ValueStart \in (EqualSign + 1)..(Len(Field) + 1)
             /\ ValueEnd \in ValueStart..(Len(Field) + 1)
    BY <1>1, <2>1, <2>2, ReadParamPlaces
  <2>4. AtField /\ at \in 1..(Len(Field) + 1) /\ Len(Field) \in Nat
    BY <1>1, <2>2
  <2>5. Between(ParamName, NameEnd) \in Text
    <3>1. ParamName \in Nat \ {0} /\ NameEnd \in 1..(Len(Field) + 1)
      BY <2>3, <2>4
    <3> QED
      BY <2>4, <3>1, BetweenType
  <2>6. CASE ReadBare
    <3>1. AtEnd(at')
      BY <2>3, <2>4, <2>6 DEF ReadBare
    <3>2. params' \in Seq([name : Text, value : Text])
      BY <2>2, <2>5, <2>6, WithParamType, MarksAreSymbols DEF ReadBare
    <3> QED
      BY <2>1, <2>2, <2>6, <3>1, <3>2 DEF ReadBare, TypeOK
  <2>7. CASE OpenQuote
    <3>0. ValueStart <= Len(Field) /\ at' = ValueStart + 1
      BY <2>7, HeldPlace DEF OpenQuote, IsQuoted
    <3>1. AtEnd(at')
      <4>1. HasValue
        BY <2>7 DEF OpenQuote
      <4>2. ValueStart \in 1..(Len(Field) + 1)
        BY <2>3, <2>4, <4>1
      <4> QED
        BY <2>4, <3>0, <4>2
    <3>2. <<>> \in Text
      BY MarksAreSymbols
    <3> QED
      BY <2>1, <2>2, <2>5, <2>7, <3>1, <3>2 DEF OpenQuote, TypeOK
  <2>8. CASE ReadWord
    <3>0. ValueStart \in Nat \ {0} /\ ValueEnd \in 1..(Len(Field) + 1)
      BY <2>3, <2>4, <2>8 DEF ReadWord
    <3>1. AtEnd(at')
      BY <3>0, <2>8 DEF ReadWord
    <3>2. Between(ValueStart, ValueEnd) \in Text
      BY <2>4, <3>0, BetweenType
    <3>3. params' \in Seq([name : Text, value : Text])
      BY <2>2, <2>5, <2>8, <3>2, WithParamType DEF ReadWord
    <3> QED
      BY <2>1, <2>2, <2>8, <3>1, <3>3 DEF ReadWord, TypeOK
  <2> QED
    BY <2>1, <2>6, <2>7, <2>8
<1>8. CASE QuotedEnds
  <2>1. Field' = Field /\ Reading /\ params \in Seq([name : Text, value : Text])
        /\ name \in Text /\ text \in Text
    BY <1>8 DEF QuotedEnds, Field, TypeOK
  <2>2. AtEnd(at')
    <3>1. at' = IF at > Len(Field) THEN at ELSE at + 1
      BY <1>8 DEF QuotedEnds
    <3> QED
      BY <1>1, <2>1, <3>1
  <2>3. params' \in Seq([name : Text, value : Text])
    BY <1>8, <2>1, WithParamType DEF QuotedEnds
  <2> QED
    BY <1>8, <2>1, <2>2, <2>3 DEF QuotedEnds, TypeOK
<1>9. CASE QuotedChar
  <2> DEFINE k == IF Holds(at, "\\") THEN at + 1 ELSE at
  <2>1. Field' = Field /\ Reading /\ text \in Text /\ at <= Len(Field)
    BY <1>9 DEF QuotedChar, Field, TypeOK
  <2>2. k \in 1..(Len(Field) + 1)
    BY <1>1, <2>1
  <2>3. IF k <= Len(Field) THEN text' = Append(text, Field[k]) /\ at' = k + 1
                           ELSE at' = k /\ UNCHANGED text
    BY <1>9 DEF QuotedChar
  <2> HIDE DEF k
  <2>4. AtEnd(at')
    BY <1>1, <2>1, <2>2, <2>3
  <2>5. text' \in Text
    <3>1. Field \in Seq(Symbol)
      BY <1>1, <2>1, FieldIsText DEF Text
    <3>2. k <= Len(Field) => Field[k] \in Symbol
      BY <2>2, <3>1
    <3> QED
      BY <2>1, <2>3, <3>2, AppendProperties DEF Text
  <2> QED
    BY <1>9, <2>1, <2>4, <2>5 DEF QuotedChar, TypeOK
<1>10. CASE ReadToken
  <2> DEFINE token == page.tokens[at]
  <2>1. page \in Page /\ page.tokens \in Seq(Token) /\ at \in 1..Len(page.tokens)
    BY <1>10 DEF ReadToken, TypeOK, Page
  <2>2. token \in Token
    BY <2>1
  <2>3. /\ base' = IF IsTag(token, "base") /\ base = Absent THEN Attr(token, "href") ELSE base
        /\ hrefs' = IF IsTag(token, "link") /\ PointsTo(token) # <<>> /\ hasRel(token)
                    THEN Append(hrefs, PointsTo(token)) ELSE hrefs
        /\ at' = at + 1 /\ page' = page /\ pc' = "head"
    BY <1>10 DEF ReadToken
  <2> HIDE DEF token
  <2>4. base' \in Text \cup {Absent}
    BY <2>2, <2>3, AttrType DEF TypeOK
  <2>5. hrefs' \in Seq(Text)
    BY <2>2, <2>3, PointsToType, AppendProperties DEF TypeOK
  <2>6. at' \in 1..(Len(page'.tokens) + 1)
    BY <2>1, <2>3
  <2> QED
    BY <1>10, <2>3, <2>4, <2>5, <2>6 DEF ReadToken, TypeOK
<1>11. CASE HeadEnds
  BY <1>11 DEF HeadEnds, TypeOK
<1>12. CASE UNCHANGED vars
  BY <1>12 DEF vars, TypeOK, Field
<1> QED
  BY <1>3, <1>4, <1>5, <1>6, <1>7, <1>8, <1>9, <1>10, <1>11, <1>12 DEF Next

(* The cursor stays within what is read, and every variable in its set, on  *)
(* any text and any tags.                                                   *)
THEOREM LinksTypeCorrect == Spec => []TypeOK
BY TypeInit, TypeStep, PTL DEF Spec

-----------------------------------------------------------------------------
(* How far reading has come: the part of the page, the field in it, the     *)
(* place in that, and there the loop, from a quoted value outwards.         *)
Part == CASE pc = "done" -> 2 [] pc = "head" -> 1 [] OTHER -> 0
Loop == CASE pc = "quoted" -> 0 [] pc = "param" -> 1 [] OTHER -> 2

Reached == <<Part, f, at, Loop>>

(* Every round goes on: one that takes nothing off its input ends its loop, *)
(* and the loop around it goes on from there.  Places are bounded, so the   *)
(* loops cannot hand the same text to each other for ever (link.go:47, 117, *)
(* 169; html.go:33).                                                        *)
RoundsAdvance ==
  [][\E n \in 1..4 : /\ Reached'[n] > Reached[n]
                     /\ \A m \in 1..(n - 1) : Reached'[m] = Reached[m]]_vars

Onward ==
  \/ Part' > Part
  \/ Part' = Part /\ f' > f
  \/ Part' = Part /\ f' = f /\ at' > at
  \/ Part' = Part /\ f' = f /\ at' = at /\ Loop' > Loop

LEMMA OnwardAdvances ==
  Onward => \E n \in 1..4 : /\ Reached'[n] > Reached[n]
                           /\ \A m \in 1..(n - 1) : Reached'[m] = Reached[m]
<1>1. /\ Reached[1] = Part /\ Reached[2] = f /\ Reached[3] = at /\ Reached[4] = Loop
      /\ Reached'[1] = Part' /\ Reached'[2] = f' /\ Reached'[3] = at' /\ Reached'[4] = Loop'
  BY DEF Reached
<1>2. 1..(1 - 1) = {} /\ 1..(2 - 1) = {1} /\ 1..(3 - 1) = {1, 2} /\ 1..(4 - 1) = {1, 2, 3}
  OBVIOUS
<1>3. 1 \in 1..4 /\ 2 \in 1..4 /\ 3 \in 1..4 /\ 4 \in 1..4
  OBVIOUS
<1> QED
  BY <1>1, <1>2, <1>3 DEF Onward

LEMMA EveryRoundIsOnward == TypeOK /\ Next => Onward
<1> SUFFICES ASSUME TypeOK, Next PROVE Onward
  OBVIOUS
<1> DEFINE Reading == pc \in {"link", "param", "quoted"}
<1>1. Reading => AtField /\ at \in 1..(Len(Field) + 1) /\ Len(Field) \in Nat /\ f \in Nat
  <2>1. Reading => AtField /\ at \in 1..(Len(Field) + 1)
    BY DEF TypeOK, AtField
  <2>2. AtField => f \in Nat
    BY DEF AtField
  <2> QED
    BY <2>1, <2>2, FieldIsText
<1>2. ASSUME Reading, pc' = pc, f' = f, at' > at PROVE Onward
  BY <1>2 DEF Onward, Part
<1>3. ASSUME Reading, pc' \in {"link", "param", "quoted"}, f' = f, at' > at PROVE Onward
  BY <1>3 DEF Onward, Part
<1>4. CASE SkipJunk
  <2>1. /\ pc = "link" /\ pc' = pc /\ f' = f /\ at' = NextComma(LinkStart)
        /\ LinkStart <= Len(Field) /\ NextComma(LinkStart) <= Len(Field)
    BY <1>4 DEF SkipJunk, NextComma, Comma
  <2>2. LinkStart \in at..(Len(Field) + 1) /\ Field[LinkStart] \notin Comma
    <3>1. Blank \cup {","} = Blank \cup Comma
      BY DEF Comma
    <3>2. /\ Skip(at, Blank \cup Comma) \in at..(Len(Field) + 1)
          /\ Skip(at, Blank \cup Comma) <= Len(Field) =>
               Field[Skip(at, Blank \cup Comma)] \notin Blank \cup Comma
      BY <1>1, <2>1, SkipFinds
    <3>3. LinkStart = Skip(at, Blank \cup Comma)
      BY <3>1 DEF LinkStart
    <3> QED
      BY <2>1, <3>2, <3>3
  <2>3. LinkStart \in 1..(Len(Field) + 1)
    BY <1>1, <2>1, <2>2
  <2>4. /\ NextComma(LinkStart) \in LinkStart..(Len(Field) + 1)
        /\ NextComma(LinkStart) > Len(Field) \/ Field[NextComma(LinkStart)] \in Comma
    BY <1>1, <2>1, <2>3, SeekFinds DEF NextComma
  <2> DEFINE n == NextComma(LinkStart)  k == LinkStart
  <2>5. n \in k..(Len(Field) + 1) /\ (n > Len(Field) \/ Field[n] \in Comma)
        /\ n <= Len(Field) /\ k \in at..(Len(Field) + 1) /\ Field[k] \notin Comma /\ at' = n
    BY <2>1, <2>2, <2>4
  <2> HIDE DEF n, k
  <2>6. at' > at
    <3>1. n # k
      BY <1>1, <2>1, <2>5
    <3> QED
      BY <1>1, <2>1, <2>5, <3>1
  <2> QED
    BY <1>2, <2>1, <2>6
<1>5. CASE FieldEnds
  <2>1. pc = "link" /\ f' = f + 1 /\ pc' \in {"head", "link"}
    BY <1>5 DEF FieldEnds
  <2>2. f' > f
    BY <1>1, <2>1
  <2>3. Part' > Part \/ Part' = Part
    BY <2>1 DEF Part
  <2> QED
    BY <2>2, <2>3 DEF Onward
<1>6. CASE OpenLink
  <2> DEFINE close == Seek(LinkStart + 1, {">"})
  <2>1. /\ pc = "link" /\ pc' = "param" /\ f' = f /\ at' = close + 1
        /\ LinkStart <= Len(Field)
    BY <1>6, HeldPlace DEF OpenLink
  <2>2. LinkStart \in at..(Len(Field) + 1)
    BY <1>1, <2>1, SeekRange DEF LinkStart
  <2>3. LinkStart + 1 \in 1..(Len(Field) + 1)
    BY <1>1, <2>1, <2>2
  <2>4. close \in (LinkStart + 1)..(Len(Field) + 1)
    BY <1>1, <2>1, <2>3, SeekRange
  <2> HIDE DEF close
  <2>5. at' > at
    BY <1>1, <2>1, <2>2, <2>4
  <2> QED
    BY <1>3, <2>1, <2>5
<1>7. CASE ParamsEnd
  <2>1. pc = "param" /\ pc' = "link" /\ f' = f /\ at' = NextComma(Skip(at, Blank))
    BY <1>7 DEF ParamsEnd, NextComma, Comma
  <2>2. Skip(at, Blank) \in at..(Len(Field) + 1)
    BY <1>1, <2>1, SeekRange
  <2>3. Skip(at, Blank) \in 1..(Len(Field) + 1)
    BY <1>1, <2>1, <2>2
  <2>4. NextComma(Skip(at, Blank)) \in Skip(at, Blank)..(Len(Field) + 1)
    BY <1>1, <2>1, <2>3, SeekRange DEF NextComma
  <2>5. at' > at \/ at' = at
    BY <1>1, <2>1, <2>2, <2>4
  <2>6. Loop' > Loop /\ Part' = Part
    BY <2>1 DEF Loop, Part
  <2> QED
    BY <2>1, <2>5, <2>6 DEF Onward
<1>8. CASE ReadParam
  <2>1. /\ pc = "param" /\ AtParam /\ f' = f
        /\ ReadBare \/ OpenQuote \/ ReadWord
    BY <1>8, ReadParamCases
  <2>2. /\ ParamName \in (at + 1)..(Len(Field) + 1)
        /\ NameEnd \in ParamName..(Len(Field) + 1)
        /\ EqualSign \in NameEnd..(Len(Field) + 1)
        /\ HasValue =>
             /\ ValueStart \in (EqualSign + 1)..(Len(Field) + 1)
             /\ ValueEnd \in ValueStart..(Len(Field) + 1)
    BY <1>1, <2>1, ReadParamPlaces
  <2>3. \/ at' = EqualSign
        \/ HasValue /\ (at' = ValueStart + 1 \/ at' = ValueEnd)
    BY <2>1 DEF ReadBare, OpenQuote, ReadWord
  <2>4. at' > at
    BY <1>1, <2>1, <2>2, <2>3
  <2>5. pc' \in {"param", "quoted"}
    BY <2>1 DEF ReadBare, OpenQuote, ReadWord
  <2> QED
    BY <1>3, <2>1, <2>4, <2>5
<1>9. CASE QuotedEnds
  <2>1. pc = "quoted" /\ pc' = "param" /\ f' = f /\ at' = IF at > Len(Field) THEN at ELSE at + 1
    BY <1>9 DEF QuotedEnds
  <2>2. at' > at \/ at' = at
    BY <1>1, <2>1
  <2>3. Loop' > Loop /\ Part' = Part
    BY <2>1 DEF Loop, Part
  <2> QED
    BY <2>1, <2>2, <2>3 DEF Onward
<1>10. CASE QuotedChar
  <2>1. /\ pc = "quoted" /\ pc' = pc /\ f' = f
        /\ at' \in {at + 1, at + 1 + 1}
    BY <1>10 DEF QuotedChar
  <2>2. at' > at
    BY <1>1, <2>1
  <2> QED
    BY <1>2, <2>1, <2>2
<1>11. CASE ReadToken
  <2>1. pc = "head" /\ pc' = pc /\ f' = f /\ at' = at + 1
    BY <1>11 DEF ReadToken
  <2>2. at \in Nat
    BY <2>1 DEF TypeOK
  <2>3. at' > at
    BY <2>1, <2>2
  <2>4. Part' = Part
    BY <2>1 DEF Part
  <2> QED
    BY <2>1, <2>3, <2>4 DEF Onward
<1>12. CASE HeadEnds
  <2>1. pc = "head" /\ pc' = "done"
    BY <1>12 DEF HeadEnds
  <2>2. Part' > Part
    BY <2>1 DEF Part
  <2> QED
    BY <2>2 DEF Onward
<1> QED
  BY <1>4, <1>5, <1>6, <1>7, <1>8, <1>9, <1>10, <1>11, <1>12 DEF Next

(* On any text, however malformed, every round of a loop takes something    *)
(* off its input or ends the loop, so that no loop can hold the parser up   *)
(* (link.go:47, 117, 169; html.go:33).                                      *)
THEOREM EveryRoundAdvances == Spec => RoundsAdvance
<1>1. TypeOK /\ [Next]_vars =>
        [\E n \in 1..4 : /\ Reached'[n] > Reached[n]
                         /\ \A m \in 1..(n - 1) : Reached'[m] = Reached[m]]_vars
  BY EveryRoundIsOnward, OnwardAdvances
<1> QED
  BY <1>1, LinksTypeCorrect, PTL DEF Spec, RoundsAdvance

-----------------------------------------------------------------------------
(* The head of an HTML page.                                                *)

LEMMA FirstValueIsAttr ==
  ASSUME NEW token \in Token, NEW n
  PROVE  FirstValue(token, n) = IF Attr(token, n) = Absent THEN {} ELSE {Attr(token, n)}
<1> DEFINE attrs == token.attrs
<1>1. attrs \in Seq(Attribute) /\ Len(attrs) \in Nat
  BY DEF Token
<1>2. CASE Named(attrs, n) = {}
  BY <1>1, <1>2 DEF Attr, FirstValue, Named
<1>3. CASE Named(attrs, n) # {}
  <2> DEFINE m == Min(Named(attrs, n))
  <2>1. m \in 1..Len(attrs) /\ attrs[m].name = n /\ \A k \in 1..Len(attrs) : attrs[k].name = n => m <= k
    BY <1>1, <1>3, NamedPlaces
  <2>2. Attr(token, n) = attrs[m].value
    BY <1>3 DEF Attr
  <2> HIDE DEF m
  <2>3. attrs[m] \in Attribute
    BY <1>1, <2>1
  <2>4. attrs[m] = [name |-> n, value |-> attrs[m].value] /\ attrs[m].value \in Text
    BY <2>1, <2>3 DEF Attribute
  <2>5. Attr(token, n) # Absent
    BY <2>2, <2>4, AbsentAssumption
  <2>6. \A i \in 1..(m - 1) : attrs[i].name # n
    BY <1>1, <2>1
  <2>7. attrs[m].value \in FirstValue(token, n)
    <3>1. attrs[m].value \in {a.value : a \in Range(attrs)}
      BY <1>1, <2>1 DEF Range
    <3> QED
      BY <1>1, <2>1, <2>4, <2>6, <3>1 DEF FirstValue
  <2>8. ASSUME NEW v \in FirstValue(token, n) PROVE v = attrs[m].value
    <3>1. PICK j \in DOMAIN attrs : /\ attrs[j] = [name |-> n, value |-> v]
                                    /\ \A i \in 1..(j - 1) : attrs[i].name # n
      BY DEF FirstValue
    <3>2. j \in 1..Len(attrs) /\ attrs[j].name = n /\ attrs[j].value = v
      BY <1>1, <3>1
    <3>3. ~(m < j)
      BY <1>1, <2>1, <3>1, <3>2
    <3>4. m = j
      BY <1>1, <2>1, <3>2, <3>3
    <3> QED
      BY <3>2, <3>4
  <2> QED
    BY <2>2, <2>5, <2>7, <2>8
<1> QED
  BY <1>2, <1>3

(* The reference of a tag, as the property has it. *)
Href(k) == CHOOSE v \in FirstValue(page.tokens[k], "href") : TRUE

LEMMA HrefIsAttr ==
  ASSUME NEW k, page.tokens[k] \in Token, FirstValue(page.tokens[k], "href") # {}
  PROVE  Href(k) = Attr(page.tokens[k], "href") /\ Href(k) \in Text /\ Href(k) # Absent
<1> DEFINE a == Attr(page.tokens[k], "href")
<1>1. FirstValue(page.tokens[k], "href") = {a} /\ a # Absent
  BY FirstValueIsAttr
<1>2. a \in Text
  BY <1>1, AttrType
<1> HIDE DEF a
<1>3. Href(k) = a
  BY <1>1 DEF Href
<1> QED
  BY <1>1, <1>2, <1>3, AbsentAssumption DEF a

IsBase(k) == IsTag(page.tokens[k], "base") /\ FirstValue(page.tokens[k], "href") # {}

IsLink(k) ==
  /\ IsTag(page.tokens[k], "link")
  /\ \E v \in FirstValue(page.tokens[k], "href") : Range(v) \ Blank # {}
  /\ \E v \in FirstValue(page.tokens[k], "rel") : HasWord(v, LinkRelation)

LEMMA BaseIsRead ==
  ASSUME NEW k, page.tokens[k] \in Token
  PROVE  IsTag(page.tokens[k], "base") => (IsBase(k) <=> Attr(page.tokens[k], "href") # Absent)
BY FirstValueIsAttr DEF IsBase

LEMMA LinkIsRead ==
  ASSUME NEW k, page.tokens[k] \in Token
  PROVE  /\ IsLink(k) <=> /\ IsTag(page.tokens[k], "link")
                          /\ PointsTo(page.tokens[k]) # <<>>
                          /\ hasRel(page.tokens[k])
         /\ IsLink(k) => PointsTo(page.tokens[k]) = TrimSpace(Href(k))
<1> DEFINE token == page.tokens[k]
           href == Attr(token, "href")  rel == Attr(token, "rel")
<1>1. FirstValue(token, "href") = IF href = Absent THEN {} ELSE {href}
  BY FirstValueIsAttr
<1>2. FirstValue(token, "rel") = IF rel = Absent THEN {} ELSE {rel}
  BY FirstValueIsAttr
<1>3. PointsTo(token) = IF href = Absent THEN <<>> ELSE TrimSpace(href)
  BY DEF PointsTo
<1>4. hasRel(token) <=> rel # Absent /\ HasWord(rel, LinkRelation)
  BY DEF hasRel
<1>5. href # Absent => (TrimSpace(href) # <<>> <=> Range(href) \ Blank # {})
  <2> SUFFICES ASSUME href # Absent PROVE TrimSpace(href) # <<>> <=> Range(href) \ Blank # {}
    OBVIOUS
  <2>1. href \in Text
    BY AttrType
  <2> HIDE DEF href
  <2> QED
    BY <2>1, TrimSpaceType
<1>6. FirstValue(token, "href") # {} => Href(k) = href
  BY HrefIsAttr
<1>7. IsLink(k) <=> /\ IsTag(token, "link")
                    /\ \E v \in FirstValue(token, "href") : Range(v) \ Blank # {}
                    /\ \E v \in FirstValue(token, "rel") : HasWord(v, LinkRelation)
  BY DEF IsLink
<1> HIDE DEF token, href, rel
<1> QED
  BY <1>1, <1>2, <1>3, <1>4, <1>5, <1>6, <1>7 DEF token

(* What is to be read in the tags before n. *)
BasesTo(n) == {k \in 1..(n - 1) : IsBase(k)}
LinksTo(n) == {k \in 1..(n - 1) : IsLink(k)}

RightBase(n) == base = IF BasesTo(n) = {} THEN Absent ELSE Href(Min(BasesTo(n)))

RightLinks(n) ==
  /\ Len(hrefs) = Cardinality(LinksTo(n))
  /\ \A k \in LinksTo(n) : hrefs[Cardinality({j \in LinksTo(n) : j <= k})] = TrimSpace(Href(k))

(* The tags so far are in the head, and what they say has been read. *)
HeadSoFar ==
  /\ pc \in {"link", "param", "quoted"} => base = Absent /\ hrefs = <<>>
  /\ pc = "head" /\ ~page.html => at = 1
  /\ pc = "head" => InHead(at - 1) /\ RightBase(at) /\ RightLinks(at)

LEMMA SamePage ==
  ASSUME page' = page
  PROVE  /\ \A k : Href(k)' = Href(k)
         /\ \A n : BasesTo(n)' = BasesTo(n) /\ LinksTo(n)' = LinksTo(n)
         /\ \A n : InHead(n)' <=> InHead(n)
<1>1. \A k : page'.tokens[k] = page.tokens[k]
  OBVIOUS
<1>2. \A k : Href(k)' = Href(k)
  BY <1>1, Zenon DEF Href
<1>3. \A k : (IsBase(k)' <=> IsBase(k)) /\ (IsLink(k)' <=> IsLink(k))
  BY <1>1, Zenon DEF IsBase, IsLink
<1>4. \A n : BasesTo(n)' = BasesTo(n) /\ LinksTo(n)' = LinksTo(n)
  BY <1>3 DEF BasesTo, LinksTo
<1>5. \A n : InHead(n)' <=> InHead(n)
  BY <1>1, Zenon DEF InHead
<1> QED
  BY <1>2, <1>4, <1>5

LEMMA NothingRead ==
  ASSUME base = Absent, hrefs = <<>>
  PROVE  RightBase(1) /\ RightLinks(1)
<1>1. BasesTo(1) = {} /\ LinksTo(1) = {}
  BY DEF BasesTo, LinksTo
<1> QED
  BY <1>1, FS_EmptySet DEF RightBase, RightLinks

LEMMA HeadInit == Init => HeadSoFar
BY NothingRead DEF Init, HeadSoFar, InHead

LEMMA TokenAt ==
  ASSUME TypeOK, NEW k \in 1..Len(page.tokens)
  PROVE  page.tokens[k] \in Token
BY DEF TypeOK, Page

LEMMA OneMoreLink ==
  ASSUME NEW n \in Nat \ {0}
  PROVE  /\ IsFiniteSet(LinksTo(n)) /\ Cardinality(LinksTo(n)) \in Nat
         /\ \A k \in LinksTo(n) :
              /\ Cardinality({j \in LinksTo(n) : j <= k}) \in 1..Cardinality(LinksTo(n))
              /\ {j \in LinksTo(n + 1) : j <= k} = {j \in LinksTo(n) : j <= k}
         /\ ~IsLink(n) => LinksTo(n + 1) = LinksTo(n)
         /\ IsLink(n) =>
              /\ LinksTo(n + 1) = LinksTo(n) \cup {n}
              /\ Cardinality(LinksTo(n + 1)) = Cardinality(LinksTo(n)) + 1
              /\ {j \in LinksTo(n + 1) : j <= n} = LinksTo(n + 1)
<1> DEFINE L == LinksTo(n)
<1>1. IsFiniteSet(1..(n - 1))
  BY FS_Interval
<1>2. IsFiniteSet(L) /\ Cardinality(L) \in Nat
  <2>1. L \subseteq 1..(n - 1)
    BY DEF LinksTo
  <2> HIDE DEF L
  <2> QED
    BY <1>1, <2>1, FS_Subset, FS_CardinalityType
<1>3. ASSUME NEW k \in L
      PROVE  /\ Cardinality({j \in L : j <= k}) \in 1..Cardinality(L)
             /\ {j \in LinksTo(n + 1) : j <= k} = {j \in L : j <= k}
  <2> DEFINE U == {j \in L : j <= k}
  <2>1. k \in U /\ U \subseteq L /\ k \in 1..(n - 1)
    BY DEF LinksTo
  <2>2. {j \in LinksTo(n + 1) : j <= k} = U
    BY <2>1 DEF LinksTo
  <2> HIDE DEF U, L
  <2>3. IsFiniteSet(U) /\ Cardinality(U) \in Nat /\ Cardinality(U) <= Cardinality(L)
    BY <1>2, <2>1, FS_Subset, FS_CardinalityType
  <2>4. Cardinality(U) # 0
    BY <2>1, <2>3, FS_EmptySet
  <2>5. Cardinality(U) \in 1..Cardinality(L)
    BY <1>2, <2>3, <2>4
  <2> QED
    BY <2>2, <2>5 DEF U, L
<1>4. ~IsLink(n) => LinksTo(n + 1) = L
  BY DEF LinksTo
<1>5. ASSUME IsLink(n)
      PROVE  /\ LinksTo(n + 1) = L \cup {n}
             /\ Cardinality(LinksTo(n + 1)) = Cardinality(L) + 1
             /\ {j \in LinksTo(n + 1) : j <= n} = LinksTo(n + 1)
  <2>1. LinksTo(n + 1) = L \cup {n} /\ n \notin L
    BY <1>5 DEF LinksTo
  <2>2. {j \in LinksTo(n + 1) : j <= n} = LinksTo(n + 1)
    BY DEF LinksTo
  <2> HIDE DEF L
  <2>3. Cardinality(L \cup {n}) = Cardinality(L) + 1
    BY <1>2, <2>1, FS_AddElement
  <2> QED
    BY <2>1, <2>2, <2>3
<1> QED
  BY <1>2, <1>3, <1>4, <1>5

LEMMA OneMoreBase ==
  ASSUME NEW n \in Nat \ {0}
  PROVE  /\ ~IsBase(n) => BasesTo(n + 1) = BasesTo(n)
         /\ IsBase(n) => BasesTo(n + 1) = BasesTo(n) \cup {n}
         /\ BasesTo(n + 1) # {} /\ BasesTo(n) # {} => Min(BasesTo(n + 1)) = Min(BasesTo(n))
         /\ BasesTo(n + 1) # {} /\ BasesTo(n) = {} => Min(BasesTo(n + 1)) = n
         /\ BasesTo(n) # {} => Min(BasesTo(n)) \in BasesTo(n)
<1> DEFINE B == BasesTo(n)  C == BasesTo(n + 1)
<1>1. B \subseteq 1..(n - 1) /\ C \subseteq 1..n
  BY DEF BasesTo
<1>2. (~IsBase(n) => C = B) /\ (IsBase(n) => C = B \cup {n})
  BY DEF BasesTo
<1> HIDE DEF B, C
<1>3. B \subseteq Nat /\ C \subseteq Nat
  BY <1>1
<1>4. B # {} => Min(B) \in B /\ \A k \in B : Min(B) <= k
  BY <1>3, MinIsLeast
<1>5. C # {} => Min(C) \in C /\ \A k \in C : Min(C) <= k
  BY <1>3, MinIsLeast
<1>6. ASSUME C # {}, B # {} PROVE Min(C) = Min(B)
  <2>1. Min(B) \in C /\ Min(B) < n /\ Min(B) \in Nat
    <3>1. Min(B) \in B
      BY <1>4, <1>6
    <3>2. Min(B) \in C
      BY <1>2, <3>1
    <3>3. Min(B) \in 1..(n - 1)
      BY <1>1, <3>1
    <3> QED
      BY <3>2, <3>3
  <2>2. Min(C) <= Min(B) /\ Min(C) \in C
    BY <1>5, <1>6, <2>1
  <2>3. Min(C) # n
    BY <1>3, <2>1, <2>2
  <2>4. Min(C) \in B
    BY <1>2, <2>2, <2>3
  <2>5. Min(B) <= Min(C)
    BY <1>4, <1>6, <2>4
  <2>6. Min(B) \in Nat /\ Min(C) \in Nat
    BY <1>3, <1>4, <1>6, <2>4
  <2> QED
    BY <2>2, <2>5, <2>6
<1>7. ASSUME C # {}, B = {} PROVE Min(C) = n
  BY <1>2, <1>5, <1>7
<1> QED
  BY <1>2, <1>4, <1>6, <1>7 DEF B, C

LEMMA HeadStep == TypeOK /\ HeadSoFar /\ [Next]_vars => HeadSoFar'
<1> SUFFICES ASSUME TypeOK, HeadSoFar, [Next]_vars PROVE HeadSoFar'
  OBVIOUS
<1>1. CASE SkipJunk \/ OpenLink \/ ParamsEnd \/ ReadParam \/ QuotedEnds \/ QuotedChar
  <2>1. pc \in {"link", "param", "quoted"} /\ UNCHANGED <<page, base, hrefs>>
    BY <1>1 DEF SkipJunk, OpenLink, ParamsEnd, ReadParam, QuotedEnds, QuotedChar
  <2>2. pc' \in {"link", "param", "quoted"}
    BY <1>1 DEF SkipJunk, OpenLink, ParamsEnd, ReadParam, QuotedEnds, QuotedChar
  <2> QED
    BY <2>1, <2>2 DEF HeadSoFar
<1>2. CASE FieldEnds
  <2>1. pc = "link" /\ pc' \in {"link", "head"} /\ at' = 1 /\ UNCHANGED <<page, base, hrefs>>
    BY <1>2 DEF FieldEnds
  <2>2. base = Absent /\ hrefs = <<>>
    BY <2>1 DEF HeadSoFar
  <2>3. (RightBase(1) /\ RightLinks(1))'
    BY <2>1, <2>2, NothingRead DEF RightBase, RightLinks, BasesTo, LinksTo, IsBase, IsLink, Href
  <2>4. InHead(0)'
    BY DEF InHead
  <2> QED
    BY <2>1, <2>2, <2>3, <2>4 DEF HeadSoFar
<1>3. CASE ReadToken
  <2> DEFINE token == page.tokens[at]
  <2>1. /\ pc = "head" /\ page.html /\ at \in DOMAIN page.tokens
        /\ ~EndsHead(token)
        /\ base' = IF IsTag(token, "base") /\ base = Absent THEN Attr(token, "href") ELSE base
        /\ hrefs' = IF IsTag(token, "link") /\ PointsTo(token) # <<>> /\ hasRel(token)
                    THEN Append(hrefs, PointsTo(token)) ELSE hrefs
        /\ at' = at + 1 /\ page' = page /\ pc' = "head"
    BY <1>3 DEF ReadToken
  <2>2. at \in 1..Len(page.tokens) /\ at \in Nat \ {0} /\ page.tokens \in Seq(Token)
    BY <2>1 DEF TypeOK, Page
  <2>3. token \in Token
    BY <2>2
  <2>4. InHead(at - 1) /\ RightBase(at) /\ RightLinks(at)
    BY <2>1 DEF HeadSoFar
  <2>5. InHead((at + 1) - 1)
    <3> SUFFICES ASSUME NEW j \in 1..((at + 1) - 1) PROVE ~EndsHead(page.tokens[j])
      BY DEF InHead
    <3>1. CASE j = at
      BY <2>1, <3>1
    <3>2. CASE j # at
      <4>1. j \in 1..(at - 1)
        BY <2>2, <3>2
      <4> QED
        BY <2>4, <4>1 DEF InHead
    <3> QED
      BY <3>1, <3>2
  <2>6. base' = IF BasesTo(at + 1) = {} THEN Absent ELSE Href(Min(BasesTo(at + 1)))
    <3> HIDE DEF token
    <3>1. IsTag(token, "base") => (IsBase(at) <=> Attr(token, "href") # Absent)
      BY <2>3, BaseIsRead DEF token
    <3>2. CASE BasesTo(at) # {}
      <4>1. Min(BasesTo(at)) \in BasesTo(at)
        BY <2>2, <3>2, OneMoreBase
      <4>2. Min(BasesTo(at)) \in 1..Len(page.tokens) /\ IsBase(Min(BasesTo(at)))
        BY <2>2, <4>1 DEF BasesTo
      <4>3. Href(Min(BasesTo(at))) # Absent
        BY <4>2, TokenAt, HrefIsAttr DEF IsBase
      <4>4. base' = base /\ base = Href(Min(BasesTo(at)))
        BY <2>1, <2>4, <3>2, <4>3 DEF RightBase
      <4>5. BasesTo(at + 1) # {} /\ Min(BasesTo(at + 1)) = Min(BasesTo(at))
        BY <2>2, <3>2, OneMoreBase
      <4> QED
        BY <4>4, <4>5
    <3>3. CASE BasesTo(at) = {} /\ IsBase(at)
      <4>1. base = Absent
        BY <2>4, <3>3 DEF RightBase
      <4>2. base' = Attr(token, "href") /\ Href(at) = Attr(token, "href")
        BY <2>1, <2>3, <3>3, <4>1, HrefIsAttr DEF IsBase, token
      <4>3. BasesTo(at + 1) # {} /\ Min(BasesTo(at + 1)) = at
        BY <2>2, <3>3, OneMoreBase
      <4> QED
        BY <4>2, <4>3
    <3>4. CASE BasesTo(at) = {} /\ ~IsBase(at)
      <4>1. base = Absent
        BY <2>4, <3>4 DEF RightBase
      <4>2. base' = Absent
        BY <2>1, <3>1, <3>4, <4>1
      <4>3. BasesTo(at + 1) = {}
        BY <2>2, <3>4, OneMoreBase
      <4> QED
        BY <4>2, <4>3
    <3> QED
      BY <3>2, <3>3, <3>4
  <2>7. /\ Len(hrefs') = Cardinality(LinksTo(at + 1))
        /\ \A k \in LinksTo(at + 1) :
             hrefs'[Cardinality({j \in LinksTo(at + 1) : j <= k})] = TrimSpace(Href(k))
    <3> DEFINE L == LinksTo(at)  M == LinksTo(at + 1)
               Upto(k) == Cardinality({j \in L : j <= k})
               Now(k)  == Cardinality({j \in M : j <= k})
    <3>1. IsLink(at) <=> IsTag(token, "link") /\ PointsTo(token) # <<>> /\ hasRel(token)
      BY <2>3, LinkIsRead
    <3>2. /\ Cardinality(L) \in Nat
          /\ \A k \in L : Upto(k) \in 1..Cardinality(L) /\ Now(k) = Upto(k)
          /\ ~IsLink(at) => M = L
          /\ IsLink(at) => /\ M = L \cup {at}
                           /\ Cardinality(M) = Cardinality(L) + 1
                           /\ Now(at) = Cardinality(M)
      BY <2>2, OneMoreLink
    <3>3. Len(hrefs) = Cardinality(L) /\ \A k \in L : hrefs[Upto(k)] = TrimSpace(Href(k))
      BY <2>4 DEF RightLinks
    <3>4. hrefs \in Seq(Text) /\ PointsTo(token) \in Text
      BY <2>3, PointsToType DEF TypeOK
    <3>5. IsLink(at) => PointsTo(token) = TrimSpace(Href(at))
      BY <2>3, LinkIsRead
    <3> SUFFICES Len(hrefs') = Cardinality(M) /\ \A k \in M : hrefs'[Now(k)] = TrimSpace(Href(k))
      OBVIOUS
    <3> HIDE DEF L, M, Upto, Now, token
    <3>6. CASE ~IsLink(at)
      BY <2>1, <3>1, <3>2, <3>3, <3>6
    <3>7. CASE IsLink(at)
      <4>1. hrefs' = Append(hrefs, PointsTo(token))
        BY <2>1, <3>1, <3>7
      <4>2. /\ Len(hrefs') = Len(hrefs) + 1
            /\ hrefs'[Len(hrefs) + 1] = PointsTo(token)
            /\ \A i \in 1..Len(hrefs) : hrefs'[i] = hrefs[i]
        BY <3>4, <4>1, AppendProperties
      <4>3. Len(hrefs') = Cardinality(M)
        BY <3>2, <3>3, <3>7, <4>2
      <4>4. ASSUME NEW k \in L PROVE hrefs'[Now(k)] = TrimSpace(Href(k))
        <5>1. Upto(k) \in 1..Len(hrefs) /\ Now(k) = Upto(k)
          BY <3>2, <3>3
        <5> QED
          BY <3>3, <4>2, <5>1
      <4>5. hrefs'[Now(at)] = TrimSpace(Href(at))
        BY <3>2, <3>3, <3>5, <3>7, <4>2
      <4> QED
        BY <3>2, <3>7, <4>3, <4>4, <4>5
    <3> QED
      BY <3>6, <3>7
  <2>8. RightBase(at)' /\ RightLinks(at)' /\ InHead(at - 1)'
    <3>1. /\ \A k : Href(k)' = Href(k)
          /\ \A n : BasesTo(n)' = BasesTo(n) /\ LinksTo(n)' = LinksTo(n)
          /\ \A n : InHead(n)' <=> InHead(n)
      BY <2>1, SamePage
    <3>2. RightBase(at)'
      BY <2>1, <2>6, <3>1 DEF RightBase
    <3>3. RightLinks(at)'
      BY <2>1, <2>7, <3>1 DEF RightLinks
    <3>4. InHead(at - 1)'
      BY <2>1, <2>5, <3>1
    <3> QED
      BY <3>2, <3>3, <3>4
  <2> QED
    BY <2>1, <2>8 DEF HeadSoFar
<1>4. CASE HeadEnds
  BY <1>4 DEF HeadEnds, HeadSoFar
<1>5. CASE UNCHANGED vars
  <2>1. /\ UNCHANGED <<page, pc, at, base, hrefs>>
        /\ \A k : Href(k)' = Href(k)
        /\ \A n : BasesTo(n)' = BasesTo(n) /\ LinksTo(n)' = LinksTo(n)
        /\ \A n : InHead(n)' <=> InHead(n)
    BY <1>5, SamePage DEF vars
  <2>2. (RightBase(at)' <=> RightBase(at)) /\ (RightLinks(at)' <=> RightLinks(at))
    BY <2>1 DEF RightBase, RightLinks
  <2> QED
    BY <2>1, <2>2 DEF HeadSoFar
<1> QED
  BY <1>1, <1>2, <1>3, <1>4, <1>5 DEF Next

(* Where reading stops, all of the head has been read, and nothing else. *)
LEMMA HeadIsWhole ==
  ASSUME TypeOK, HeadSoFar, HeadEnds
  PROVE  HeadAsRead'
<1> SUFFICES ASSUME page.html
             PROVE /\ base = IF HeadBases = {} THEN Absent ELSE Href(Min(HeadBases))
                   /\ Len(hrefs) = Cardinality(HeadLinks)
                   /\ \A k \in HeadLinks :
                        hrefs[Cardinality({j \in HeadLinks : j <= k})] = TrimSpace(Href(k))
  <2>1. CASE ~page.html
    <3>1. at = 1 /\ RightBase(1) /\ RightLinks(1)
      BY <2>1 DEF HeadEnds, HeadSoFar
    <3>2. BasesTo(1) = {} /\ LinksTo(1) = {}
      BY DEF BasesTo, LinksTo
    <3>3. base = Absent /\ Len(hrefs) = 0
      BY <3>1, <3>2, FS_EmptySet DEF RightBase, RightLinks
    <3>4. hrefs = <<>>
      BY <3>3, EmptySeq DEF TypeOK
    <3> QED
      BY <2>1, <3>3, <3>4 DEF HeadEnds, HeadAsRead
  <2>2. CASE page.html
    <3>1. UNCHANGED <<page, base, hrefs>>
      BY DEF HeadEnds
    <3> QED
      BY <2>2, <3>1 DEF HeadAsRead, Href, HeadBases, HeadLinks, InHead
  <2> QED
    BY <2>1, <2>2
<1>1. /\ InHead(at - 1) /\ RightBase(at) /\ RightLinks(at)
      /\ at \in 1..(Len(page.tokens) + 1)
      /\ at \in DOMAIN page.tokens => EndsHead(page.tokens[at])
  BY DEF HeadEnds, HeadSoFar, TypeOK
<1>2. page.tokens \in Seq(Token)
  BY DEF TypeOK, Page
<1>3. ASSUME NEW k \in DOMAIN page.tokens PROVE InHead(k) <=> k \in 1..(at - 1)
  <2>1. k \in 1..Len(page.tokens)
    BY <1>2
  <2>2. CASE k < at
    BY <1>1, <2>1, <2>2 DEF InHead
  <2>3. CASE at <= k
    <3>1. at \in 1..Len(page.tokens) /\ at \in 1..k
      BY <1>1, <2>1, <2>3
    <3>2. EndsHead(page.tokens[at])
      BY <1>1, <1>2, <3>1
    <3>3. ~InHead(k)
      BY <3>1, <3>2 DEF InHead
    <3> QED
      BY <1>1, <2>1, <2>3, <3>3
  <2> QED
    BY <1>1, <2>1, <2>2, <2>3
<1>4. \A k \in 1..(at - 1) : k \in DOMAIN page.tokens
  BY <1>1, <1>2
<1>5. HeadBases = BasesTo(at) /\ HeadLinks = LinksTo(at)
  BY <1>3, <1>4 DEF HeadBases, HeadLinks, BasesTo, LinksTo, IsBase, IsLink
<1> QED
  BY <1>1, <1>5 DEF RightBase, RightLinks

HeadInv == TypeOK /\ HeadSoFar /\ HeadAsRead

LEMMA HeadInvStep == HeadInv /\ [Next]_vars => HeadInv'
<1> SUFFICES ASSUME HeadInv, [Next]_vars PROVE HeadInv'
  OBVIOUS
<1>1. TypeOK' /\ HeadSoFar'
  BY TypeStep, HeadStep DEF HeadInv
<1>2. HeadAsRead'
  <2>1. CASE HeadEnds
    BY <2>1, HeadIsWhole DEF HeadInv
  <2>2. CASE SkipJunk \/ FieldEnds \/ OpenLink \/ ParamsEnd \/ ReadParam
               \/ QuotedEnds \/ QuotedChar \/ ReadToken
    <3>1. pc' # "done"
      BY <2>2 DEF SkipJunk, FieldEnds, OpenLink, ParamsEnd, ReadParam, QuotedEnds, QuotedChar,
                  ReadToken
    <3> QED
      BY <3>1 DEF HeadAsRead
  <2>3. CASE UNCHANGED vars
    <3>1. UNCHANGED <<page, pc, base, hrefs>>
      BY <2>3 DEF vars
    <3> QED
      BY <3>1 DEF HeadInv, HeadAsRead, HeadBases, HeadLinks, InHead
  <2> QED
    BY <2>1, <2>2, <2>3 DEF Next
<1> QED
  BY <1>1, <1>2 DEF HeadInv

(* Of the HTML, the head alone counts: the first base that has a reference, *)
(* and every link with the relation, in order, however many tags and        *)
(* attributes there are (html.go:26-79).                                    *)
THEOREM HeadIsRead == Spec => []HeadAsRead
<1>1. Init => HeadInv
  <2>1. Init => pc # "done"
    BY DEF Init
  <2> QED
    BY <2>1, TypeInit, HeadInit DEF HeadInv, HeadAsRead
<1>2. HeadInv => HeadAsRead
  BY DEF HeadInv
<1> QED
  BY <1>1, <1>2, HeadInvStep, PTL DEF Spec

-----------------------------------------------------------------------------
(* Where the elements of a field are, and their parts.                      *)

LEMMA FlatToGrows ==
  ASSUME NEW S, NEW s \in Seq(Seq(S)), NEW a \in 0..Len(s), NEW b \in a..Len(s)
  PROVE  /\ Len(FlatTo(s, a)) <= Len(FlatTo(s, b))
         /\ (\A k \in (a + 1)..b : s[k] = <<>>) => FlatTo(s, b) = FlatTo(s, a)
<1> DEFINE Holds2(m) == /\ Len(FlatTo(s, a)) <= Len(FlatTo(s, m))
                        /\ (\A k \in (a + 1)..m : s[k] = <<>>) => FlatTo(s, m) = FlatTo(s, a)
           T == {d \in Nat : a + d <= Len(s) => Holds2(a + d)}
<1>1. Len(s) \in Nat /\ \A n \in 0..Len(s) : FlatTo(s, n) \in Seq(S) /\ Len(FlatTo(s, n)) \in Nat
  BY FlatToIsSeq
<1>2. 0 \in T
  <2>1. a + 0 = a /\ Holds2(a)
    BY <1>1
  <2> HIDE DEF Holds2
  <2> QED
    BY <2>1
<1>3. ASSUME NEW d \in Nat, d \in T PROVE d + 1 \in T
  <2> SUFFICES ASSUME a + (d + 1) <= Len(s) PROVE Holds2(a + (d + 1))
    OBVIOUS
  <2> DEFINE m == a + d
  <2>1. m \in 0..Len(s) /\ m + 1 \in 1..Len(s) /\ m + 1 = a + (d + 1) /\ (m + 1) - 1 = m /\ Holds2(m)
    BY <1>1, <1>3
  <2> HIDE DEF m
  <2>2. FlatTo(s, m + 1) = FlatTo(s, m) \o s[m + 1] /\ s[m + 1] \in Seq(S)
    <3>1. FlatTo(s, m + 1) = FlatTo(s, (m + 1) - 1) \o s[m + 1]
      BY <2>1, FlatToSteps
    <3>2. s[m + 1] \in Seq(S)
      BY <2>1
    <3> QED
      BY <2>1, <3>1, <3>2
  <2>3. FlatTo(s, m) \in Seq(S) /\ Len(FlatTo(s, m)) \in Nat /\ Len(FlatTo(s, a)) \in Nat
    BY <1>1, <2>1
  <2>4. Len(FlatTo(s, m + 1)) = Len(FlatTo(s, m)) + Len(s[m + 1]) /\ Len(s[m + 1]) \in Nat
    BY <2>2, <2>3, ConcatProperties
  <2>5. Len(FlatTo(s, a)) <= Len(FlatTo(s, m + 1))
    <3> DEFINE w == Len(FlatTo(s, a))  y == Len(FlatTo(s, m))  z == Len(s[m + 1])
    <3>1. w \in Nat /\ y \in Nat /\ z \in Nat /\ w <= y /\ Len(FlatTo(s, m + 1)) = y + z
      BY <2>1, <2>3, <2>4
    <3>2. w <= y + z
      <4> HIDE DEF w, y, z
      <4> QED
        BY <3>1
    <3> QED
      BY <3>1, <3>2
  <2>6. ASSUME \A k \in (a + 1)..(m + 1) : s[k] = <<>> PROVE FlatTo(s, m + 1) = FlatTo(s, a)
    <3>1. s[m + 1] = <<>> /\ \A k \in (a + 1)..m : s[k] = <<>>
      <4>1. m + 1 \in (a + 1)..(m + 1) /\ \A k \in (a + 1)..m : k \in (a + 1)..(m + 1)
        BY <1>1, <2>1 DEF m
      <4> QED
        BY <2>6, <4>1
    <3>2. FlatTo(s, m) = FlatTo(s, a)
      BY <2>1, <3>1
    <3> QED
      BY <2>2, <2>3, <3>1, <3>2, ConcatEmptySeq
  <2>7. Holds2(m + 1)
    BY <2>5, <2>6
  <2> HIDE DEF Holds2
  <2> QED
    BY <2>1, <2>7
<1> HIDE DEF T, Holds2
<1>4. \A d \in Nat : d \in T
  BY <1>2, <1>3, Induction
<1>5. b - a \in Nat /\ a + (b - a) = b /\ b <= Len(s)
  OBVIOUS
<1>6. Holds2(a + (b - a))
  BY <1>4, <1>5 DEF T
<1> QED
  BY <1>5, <1>6 DEF Holds2

LEMMA ReadsOne ==
  ASSUME NEW S, NEW t \in Seq(S), NEW k \in Nat \ {0}, NEW m, ReadsIn(t, k, <<m>>)
  PROVE  t[k] = m /\ k <= Len(t)
<1>1. 1 \in 1..Len(<<m>>) /\ <<m>>[1] = m /\ Len(<<m>>) = 1
  OBVIOUS
<1>2. t[k + 1 - 1] = <<m>>[1] /\ k + 1 <= Len(t) + 1
  BY <1>1 DEF ReadsIn
<1>3. Len(t) \in Nat /\ k + 1 - 1 = k
  OBVIOUS
<1> QED
  BY <1>1, <1>2, <1>3

LEMMA ReadsItself ==
  ASSUME NEW S, NEW x \in Seq(S)
  PROVE  ReadsIn(x, 1, x)
BY DEF ReadsIn

(* Where an element begins, with the comma before it and without. *)
Begin(es, e) == 1 + Len(FlatTo(Parts(es), e - 1))
Body(es, e)  == IF e = 1 THEN Begin(es, e) ELSE Begin(es, e) + 1

LEMMA FieldBounds ==
  ASSUME NEW es \in Seq(Element)
  PROVE  /\ Begin(es, 1) = 1
         /\ Begin(es, Len(es) + 1) = Len(Render(es)) + 1
         /\ \A a, b \in 1..(Len(es) + 1) :
              /\ Begin(es, a) \in 1..(Len(Render(es)) + 1)
              /\ a <= b => Begin(es, a) <= Begin(es, b)
<1> DEFINE s == Parts(es)
<1>1. s \in Seq(Seq(Symbol)) /\ Len(s) = Len(es) /\ Render(es) = FlattenSeq(s) /\ Len(s) \in Nat
  BY RenderType DEF Text
<1>2. Begin(es, 1) = 1
  <2>1. FlatTo(s, 0) = <<>>
    BY <1>1, FlatToSteps
  <2> QED
    BY <2>1 DEF Begin
<1>3. Begin(es, Len(es) + 1) = Len(Render(es)) + 1
  <2>0. FlatTo(s, Len(s)) = FlattenSeq(s)
    BY <1>1, FlatToSteps
  <2>1. (Len(es) + 1) - 1 = Len(s) /\ FlatTo(s, Len(s)) = Render(es)
    BY <1>1, <2>0
  <2>2. Len(Render(es)) \in Nat
    BY RenderType DEF Text
  <2> QED
    BY <2>1, <2>2 DEF Begin
<1>4. ASSUME NEW a \in 1..(Len(es) + 1), NEW b \in 1..(Len(es) + 1), a <= b
      PROVE  Begin(es, a) <= Begin(es, b) /\ Begin(es, a) \in Nat /\ Begin(es, b) \in Nat
  <2>1. a - 1 \in 0..Len(s) /\ b - 1 \in (a - 1)..Len(s) /\ b - 1 \in 0..Len(s)
    BY <1>1, <1>4
  <2>2. Len(FlatTo(s, a - 1)) <= Len(FlatTo(s, b - 1))
    BY <1>1, <2>1, FlatToGrows
  <2>3. Len(FlatTo(s, a - 1)) \in Nat /\ Len(FlatTo(s, b - 1)) \in Nat
    BY <1>1, <2>1, FlatToIsSeq
  <2> QED
    BY <2>2, <2>3 DEF Begin
<1>5. ASSUME NEW a \in 1..(Len(es) + 1) PROVE Begin(es, a) \in 1..(Len(Render(es)) + 1)
  <2>1. 1 \in 1..(Len(es) + 1) /\ Len(es) + 1 \in 1..(Len(es) + 1) /\ 1 <= a /\ a <= Len(es) + 1
    BY <1>1
  <2>2. Begin(es, 1) <= Begin(es, a) /\ Begin(es, a) <= Begin(es, Len(es) + 1) /\ Begin(es, a) \in Nat
    BY <1>4, <2>1
  <2>3. Len(Render(es)) \in Nat
    BY RenderType DEF Text
  <2> QED
    BY <1>2, <1>3, <2>2, <2>3
<1> QED
  BY <1>2, <1>3, <1>4, <1>5

LEMMA ElementIsAt ==
  ASSUME NEW es \in Seq(Element), NEW e \in 1..Len(es)
  PROVE  /\ Begin(es, e) \in Nat \ {0} /\ Begin(es, e) <= Body(es, e) /\ Body(es, e) \in Nat \ {0}
         /\ Body(es, e) <= Begin(es, e) + 1
         /\ ReadsIn(Render(es), Body(es, e), RenderElement(es[e]))
         /\ Begin(es, e + 1) = Body(es, e) + Len(RenderElement(es[e]))
         /\ e # 1 => Render(es)[Begin(es, e)] = "," /\ Begin(es, e) <= Len(Render(es))
<1> DEFINE s == Parts(es)  t == Render(es)  x == RenderElement(es[e])
           c == IF e = 1 THEN <<>> ELSE <<",">>
<1>1. s \in Seq(Text) /\ Len(s) = Len(es) /\ t = FlattenSeq(s) /\ t \in Text /\ Len(s) \in Nat
  BY RenderType
<1>2. x \in Seq(Symbol) /\ c \in Seq(Symbol)
  <2>1. x \in Text
    BY ElementType
  <2>2. c \in Text
    BY MarksAreSymbols
  <2> QED
    BY <2>1, <2>2 DEF Text
<1>3. s[e] = c \o x
  <2> DEFINE Piece(j) == (IF j = 1 THEN <<>> ELSE <<",">>) \o RenderElement(es[j])
  <2>1. s = [j \in 1..Len(es) |-> Piece(j)]
    BY DEF Parts
  <2>2. s[e] = Piece(e)
    <3> HIDE DEF Piece, s
    <3> QED
      BY <2>1
  <2> QED
    BY <2>2
<1>4. ReadsIn(t, 1, FlattenSeq(s))
  BY <1>1, ReadsItself DEF Text
<1>5. /\ ReadsIn(t, 1 + Len(FlatTo(s, e - 1)), s[e])
      /\ Len(FlatTo(s, e - 1)) \in Nat
      /\ Len(FlatTo(s, e)) = Len(FlatTo(s, e - 1)) + Len(s[e])
  <2>1. e \in 1..Len(s) /\ s \in Seq(Seq(Symbol)) /\ t \in Seq(Symbol) /\ 1 \in Nat \ {0}
    BY <1>1 DEF Text
  <2> HIDE DEF s, t
  <2> QED
    BY <1>4, <2>1, ReadsPart
<1>6. (e + 1) - 1 = e /\ t \in Seq(Symbol)
  BY <1>1 DEF Text
<1> DEFINE k == Begin(es, e)
<1>7. k = 1 + Len(FlatTo(s, e - 1)) /\ Begin(es, e + 1) = 1 + Len(FlatTo(s, e))
  BY <1>6 DEF Begin
<1>8. k \in Nat \ {0} /\ ReadsIn(t, k, c \o x) /\ Begin(es, e + 1) = k + Len(c \o x)
  <2> HIDE DEF s, t, x, c, k
  <2>1. Len(c \o x) \in Nat
    BY <1>2, ConcatProperties
  <2> QED
    BY <1>3, <1>5, <1>7, <2>1
<1>9. Body(es, e) = k + Len(c)
  <2>1. CASE e = 1
    <3>1. c = <<>> /\ Len(c) = 0
      BY <2>1
    <3> HIDE DEF c
    <3> QED
      BY <1>8, <2>1, <3>1 DEF Body
  <2>2. CASE e # 1
    <3>1. c = <<",">> /\ Len(c) = 1
      BY <2>2
    <3> HIDE DEF c
    <3> QED
      BY <1>8, <2>2, <3>1 DEF Body
  <2> QED
    BY <2>1, <2>2
<1>10. e # 1 => c = <<",">>
  OBVIOUS
<1>11. Len(c) \in {0, 1}
  OBVIOUS
<1> HIDE DEF s, t, x, c, k
<1>12. ReadsIn(t, k, c) /\ ReadsIn(t, k + Len(c), x)
  BY <1>2, <1>6, <1>8, ReadsParts
<1>13. Len(c \o x) = Len(c) + Len(x) /\ Len(x) \in Nat
  BY <1>2, ConcatProperties
<1>14. ASSUME e # 1 PROVE t[k] = "," /\ k <= Len(t)
  <2>1. c = <<",">>
    BY <1>10, <1>14
  <2>2. ReadsIn(t, k, <<",">>)
    BY <1>12, <2>1
  <2> QED
    BY <1>6, <1>8, <2>2, ReadsOne
<1>15. /\ k <= Body(es, e) /\ Body(es, e) \in Nat \ {0} /\ Body(es, e) <= k + 1
       /\ Begin(es, e + 1) = Body(es, e) + Len(x)
  <2> DEFINE d == Len(c)  w == Len(x)  u == Len(c \o x)  v == Begin(es, e + 1)  z == Body(es, e)
  <2>1. k \in Nat \ {0} /\ v = k + u /\ z = k + d /\ d \in {0, 1} /\ u = d + w /\ w \in Nat
    BY <1>8, <1>9, <1>11, <1>13
  <2> HIDE DEF d, w, u, v, z
  <2>2. k <= z /\ z \in Nat \ {0} /\ z <= k + 1 /\ v = z + w
    BY <2>1
  <2> QED
    BY <2>2 DEF v, z, w
<1>16. ReadsIn(t, Body(es, e), x)
  BY <1>9, <1>12
<1> QED
  BY <1>8, <1>14, <1>15, <1>16 DEF t, x, k

(* Concatenation, by what the proofs need of it. *)
Cat(x, y) == x \o y

LEMMA CatIsText ==
  ASSUME NEW x \in Text, NEW y \in Text
  PROVE  /\ Cat(x, y) \in Text
         /\ Len(x) \in Nat /\ Len(y) \in Nat
         /\ Len(Cat(x, y)) = Len(x) + Len(y)
<1>1. x \in Seq(Symbol) /\ y \in Seq(Symbol)
  BY DEF Text
<1> QED
  BY <1>1, ConcatProperties DEF Text, Cat

LEMMA CatAssociates ==
  ASSUME NEW x \in Text, NEW y \in Text, NEW z \in Text
  PROVE  Cat(Cat(x, y), z) = Cat(x, Cat(y, z))
<1>1. x \in Seq(Symbol) /\ y \in Seq(Symbol) /\ z \in Seq(Symbol)
  BY DEF Text
<1> QED
  BY <1>1, ConcatAssociative DEF Cat

(* What is read after a first part, and after a mark. *)
LEMMA ReadsAfter ==
  ASSUME NEW t \in Text, NEW k \in Nat \ {0}, NEW x \in Text, NEW y \in Text,
         ReadsIn(t, k, Cat(x, y))
  PROVE  /\ ReadsIn(t, k, x) /\ ReadsIn(t, k + Len(x), y)
         /\ k + Len(x) \in Nat \ {0} /\ Len(x) \in Nat /\ Len(y) \in Nat
         /\ Len(Cat(x, y)) = Len(x) + Len(y)
<1>1. t \in Seq(Symbol) /\ x \in Seq(Symbol) /\ y \in Seq(Symbol)
  BY DEF Text
<1>2. Len(x) \in Nat /\ Len(y) \in Nat /\ Len(Cat(x, y)) = Len(x) + Len(y)
  BY CatIsText
<1>3. ReadsIn(t, k, x) /\ ReadsIn(t, k + Len(x), y)
  BY <1>1, ReadsParts DEF Cat
<1> QED
  BY <1>2, <1>3

LEMMA ReadsMark ==
  ASSUME NEW t \in Text, NEW k \in Nat \ {0}, NEW m, <<m>> \in Text, NEW y \in Text,
         ReadsIn(t, k, Cat(<<m>>, y))
  PROVE  /\ t[k] = m /\ k <= Len(t)
         /\ ReadsIn(t, k + 1, y) /\ k + 1 \in Nat \ {0} /\ Len(y) \in Nat
         /\ Len(Cat(<<m>>, y)) = 1 + Len(y)
<1> DEFINE x == <<m>>
<1>1. x \in Text /\ Len(x) = 1 /\ ReadsIn(t, k, Cat(x, y))
  OBVIOUS
<1> HIDE DEF x
<1>2. /\ ReadsIn(t, k, x) /\ ReadsIn(t, k + Len(x), y) /\ Len(y) \in Nat
      /\ Len(Cat(x, y)) = Len(x) + Len(y)
  <2>1. ReadsIn(t, k, x)
    BY <1>1, ReadsAfter
  <2>2. ReadsIn(t, k + Len(x), y)
    BY <1>1, ReadsAfter
  <2>3. Len(y) \in Nat /\ Len(Cat(x, y)) = Len(x) + Len(y)
    BY <1>1, CatIsText
  <2> QED
    BY <2>1, <2>2, <2>3
<1>3. t \in Seq(Symbol) /\ ReadsIn(t, k, <<m>>)
  BY <1>2 DEF Text, x
<1>4. t[k] = m /\ k <= Len(t)
  BY <1>3, ReadsOne
<1>5. ReadsIn(t, k + 1, y)
  BY <1>1, <1>2
<1>6. Len(Cat(x, y)) = 1 + Len(y)
  BY <1>1, <1>2
<1> QED
  BY <1>2, <1>4, <1>5, <1>6 DEF x

(* Where the parameters of a link begin, and where they are after j of them. *)
Params(es, e)     == Body(es, e) + Len(es[e].target) + 2
ParamAt(es, e, j) == Params(es, e) + Len(FlatTo(ParamTexts(es[e]), j))

Opening == "<"
Closing == ">"

LEMMA LinkText ==
  ASSUME NEW x \in Element, x.link
  PROVE  LET q == FlattenSeq(ParamTexts(x)) IN
         /\ x.target \in Text /\ q \in Text /\ x.tail \in Text
         /\ Cat(q, x.tail) \in Text
         /\ Cat(<<Closing>>, Cat(q, x.tail)) \in Text
         /\ Cat(x.target, Cat(<<Closing>>, Cat(q, x.tail))) \in Text
         /\ RenderElement(x) = Cat(<<Opening>>, Cat(x.target, Cat(<<Closing>>, Cat(q, x.tail))))
<1> DEFINE lt == <<Opening>>  gt == <<Closing>>  g == x.target
           q == FlattenSeq(ParamTexts(x))  z == x.tail
<1>1. g \in Text /\ q \in Text /\ z \in Text
  BY ElementType
<1>2. lt \in Text /\ gt \in Text
  BY MarksAreSymbols DEF Opening, Closing
<1>3. RenderElement(x) = Cat(Cat(Cat(Cat(lt, g), gt), q), z)
  BY DEF RenderElement, ParamTexts, Cat, Opening, Closing
<1> HIDE DEF lt, gt, g, q, z
<1>4. Cat(gt, q) \in Text /\ Cat(g, gt) \in Text /\ Cat(q, z) \in Text
  BY <1>1, <1>2, CatIsText
<1>5. Cat(gt, Cat(q, z)) \in Text
  BY <1>2, <1>4, CatIsText
<1>6. Cat(g, Cat(gt, Cat(q, z))) \in Text
  BY <1>1, <1>5, CatIsText
<1>7. Cat(Cat(lt, g), gt) = Cat(lt, Cat(g, gt))
  BY <1>1, <1>2, CatAssociates
<1>8. Cat(Cat(lt, Cat(g, gt)), q) = Cat(lt, Cat(Cat(g, gt), q))
  BY <1>1, <1>2, <1>4, CatAssociates
<1>9. Cat(Cat(g, gt), q) = Cat(g, Cat(gt, q))
  BY <1>1, <1>2, CatAssociates
<1>10. Cat(g, Cat(gt, q)) \in Text
  BY <1>1, <1>4, CatIsText
<1>11. Cat(Cat(lt, Cat(g, Cat(gt, q))), z) = Cat(lt, Cat(Cat(g, Cat(gt, q)), z))
  BY <1>1, <1>2, <1>10, CatAssociates
<1>12. Cat(Cat(g, Cat(gt, q)), z) = Cat(g, Cat(Cat(gt, q), z))
  BY <1>1, <1>4, CatAssociates
<1>13. Cat(Cat(gt, q), z) = Cat(gt, Cat(q, z))
  BY <1>1, <1>2, CatAssociates
<1>14. RenderElement(x) = Cat(lt, Cat(g, Cat(gt, Cat(q, z))))
  BY <1>3, <1>7, <1>8, <1>9, <1>11, <1>12, <1>13
<1> QED
  BY <1>1, <1>4, <1>5, <1>6, <1>14 DEF lt, gt, g, q, z

LEMMA LinkIsAt ==
  ASSUME NEW es \in Seq(Element), NEW e \in 1..Len(es), es[e].link
  PROVE  LET t == Render(es)  b == Body(es, e)  n == Len(es[e].params) IN
         /\ t[b] = Opening /\ b <= Len(t)
         /\ ReadsIn(t, b + 1, es[e].target) /\ Len(es[e].target) \in Nat
         /\ t[b + 1 + Len(es[e].target)] = Closing /\ b + 1 + Len(es[e].target) <= Len(t)
         /\ ReadsIn(t, Params(es, e), FlattenSeq(ParamTexts(es[e])))
         /\ Params(es, e) \in Nat \ {0}
         /\ ReadsIn(t, ParamAt(es, e, n), es[e].tail) /\ Len(es[e].tail) \in Nat
         /\ ParamAt(es, e, n) \in Nat \ {0}
         /\ ParamAt(es, e, 0) = Params(es, e)
         /\ Begin(es, e + 1) = ParamAt(es, e, n) + Len(es[e].tail)
<1> DEFINE t == Render(es)  b == Body(es, e)  n == Len(es[e].params)
           x == es[e]  g == x.target  s == ParamTexts(x)  q == FlattenSeq(s)  z == x.tail
           y1 == Cat(q, z)  y2 == Cat(<<Closing>>, y1)  y3 == Cat(g, y2)
<1>0. x \in Element
  OBVIOUS
<1>1. /\ g \in Text /\ z \in Text /\ q \in Text /\ y1 \in Text /\ y2 \in Text /\ y3 \in Text
      /\ RenderElement(x) = Cat(<<Opening>>, y3)
  BY <1>0, LinkText
<1>2. s \in Seq(Text) /\ Len(s) = n
  BY ElementType
<1>3. t \in Text
  BY RenderType
<1>4. /\ b \in Nat \ {0} /\ ReadsIn(t, b, RenderElement(x))
      /\ Begin(es, e + 1) = b + Len(RenderElement(x))
  BY ElementIsAt
<1>5. FlatTo(s, n) = q
  <2>1. s \in Seq(Seq(Symbol))
    BY <1>2 DEF Text
  <2>2. FlatTo(s, Len(s)) = FlattenSeq(s)
    BY <2>1, FlatToSteps
  <2> QED
    BY <1>2, <2>2
<1>6. FlatTo(s, 0) = <<>>
  <2>1. s \in Seq(Seq(Symbol))
    BY <1>2 DEF Text
  <2> QED
    BY <2>1, FlatToSteps
<1>7. <<Opening>> \in Text /\ <<Closing>> \in Text
  BY MarksAreSymbols DEF Opening, Closing
<1>8. Params(es, e) = b + Len(g) + 2 /\ ParamAt(es, e, n) = Params(es, e) + Len(q)
      /\ ParamAt(es, e, 0) = Params(es, e) + Len(<<>>)
  BY <1>5, <1>6 DEF Params, ParamAt
<1> HIDE DEF t, b, n, x, g, s, q, z
<1>10. /\ t[b] = Opening /\ b <= Len(t) /\ ReadsIn(t, b + 1, y3) /\ b + 1 \in Nat \ {0}
       /\ Len(Cat(<<Opening>>, y3)) = 1 + Len(y3) /\ Len(y3) \in Nat
  <2> HIDE DEF y3
  <2>1. ReadsIn(t, b, Cat(<<Opening>>, y3))
    BY <1>1, <1>4
  <2> QED
    BY <1>1, <1>3, <1>4, <1>7, <2>1, ReadsMark
<1>11. /\ ReadsIn(t, b + 1, g) /\ ReadsIn(t, b + 1 + Len(g), y2) /\ Len(g) \in Nat
       /\ b + 1 + Len(g) \in Nat \ {0} /\ Len(y3) = Len(g) + Len(y2) /\ Len(y2) \in Nat
  <2> HIDE DEF y2
  <2>1. ReadsIn(t, b + 1, g) /\ ReadsIn(t, b + 1 + Len(g), y2)
    BY <1>1, <1>3, <1>10, ReadsAfter
  <2>2. b + 1 + Len(g) \in Nat \ {0} /\ Len(g) \in Nat
    BY <1>1, <1>3, <1>10, ReadsAfter
  <2>3. Len(y3) = Len(g) + Len(y2) /\ Len(y2) \in Nat
    BY <1>1, <1>3, <1>10, ReadsAfter
  <2> QED
    BY <2>1, <2>2, <2>3
<1>12. /\ t[b + 1 + Len(g)] = Closing /\ b + 1 + Len(g) <= Len(t)
       /\ ReadsIn(t, b + 1 + Len(g) + 1, y1)
       /\ Len(y2) = 1 + Len(y1) /\ Len(y1) \in Nat
  <2> HIDE DEF y1
  <2> QED
    BY <1>1, <1>3, <1>7, <1>11, ReadsMark
<1>13. b + 1 + Len(g) + 1 = Params(es, e) /\ Params(es, e) \in Nat \ {0}
  BY <1>4, <1>8, <1>11
<1>14. /\ ReadsIn(t, Params(es, e), q) /\ ReadsIn(t, Params(es, e) + Len(q), z)
       /\ Params(es, e) + Len(q) \in Nat \ {0} /\ Len(q) \in Nat /\ Len(z) \in Nat
       /\ Len(y1) = Len(q) + Len(z)
  <2>1. ReadsIn(t, Params(es, e), Cat(q, z))
    BY <1>12, <1>13
  <2> QED
    <3>1. ReadsIn(t, Params(es, e), q)
      BY <1>1, <1>3, <1>13, <2>1, ReadsAfter
    <3>2. ReadsIn(t, Params(es, e) + Len(q), z)
      BY <1>1, <1>3, <1>13, <2>1, ReadsAfter
    <3>3. Len(q) \in Nat /\ Len(z) \in Nat /\ Len(y1) = Len(q) + Len(z)
      BY <1>1, CatIsText
    <3> QED
      BY <1>13, <3>1, <3>2, <3>3
<1> HIDE DEF y1, y2, y3
<1>15. Begin(es, e + 1) = ParamAt(es, e, n) + Len(z)
  <2>1. Len(RenderElement(x)) = 1 + (Len(g) + (1 + (Len(q) + Len(z))))
    BY <1>1, <1>10, <1>11, <1>12, <1>14
  <2> QED
    BY <1>4, <1>8, <1>11, <1>14, <2>1
<1>16. ParamAt(es, e, 0) = Params(es, e)
  BY <1>8, <1>13
<1>17. ReadsIn(t, ParamAt(es, e, n), z) /\ ParamAt(es, e, n) \in Nat \ {0} /\ Len(z) \in Nat
  BY <1>8, <1>14
<1> QED
  BY <1>10, <1>11, <1>12, <1>13, <1>14, <1>15, <1>16, <1>17 DEF t, b, n, x, g, q, z, s

(* A parameter, put together from its parts. *)
Semicolon == ";"
Equals    == "="
Quote     == "\""

ParamValue(p) == IF p.form = "token" THEN p.value
                 ELSE Cat(<<Quote>>, Cat(Escaped(p.value), <<Quote>>))
ParamRest(p)  == IF p.form = "bare" THEN <<>>
                 ELSE Cat(p.gap, Cat(<<Equals>>, Cat(p.gap, ParamValue(p))))

LEMMA FourParts ==
  ASSUME NEW a \in Text, NEW b \in Text, NEW c \in Text, NEW d \in Text
  PROVE  /\ Cat(c, d) \in Text /\ Cat(b, Cat(c, d)) \in Text /\ Cat(a, Cat(b, Cat(c, d))) \in Text
         /\ Cat(Cat(Cat(a, b), c), d) = Cat(a, Cat(b, Cat(c, d)))
<1>1. Cat(a, b) \in Text /\ Cat(b, c) \in Text /\ Cat(c, d) \in Text
  BY CatIsText
<1>2. Cat(b, Cat(c, d)) \in Text
  BY <1>1, CatIsText
<1>3. Cat(a, Cat(b, Cat(c, d))) \in Text
  BY <1>2, CatIsText
<1>4. Cat(Cat(Cat(a, b), c), d) = Cat(Cat(a, b), Cat(c, d))
  BY <1>1, CatAssociates
<1>5. Cat(Cat(a, b), Cat(c, d)) = Cat(a, Cat(b, Cat(c, d)))
  BY <1>1, CatAssociates
<1> QED
  BY <1>1, <1>2, <1>3, <1>4, <1>5

LEMMA ParamMarks == <<Semicolon>> \in Text /\ <<Equals>> \in Text /\ <<Quote>> \in Text
BY MarksAreSymbols DEF Semicolon, Equals, Quote

LEMMA ParamText ==
  ASSUME NEW p \in Param
  PROVE  /\ p.gap \in Text /\ p.name \in Text /\ p.value \in Text
         /\ p.form \in {"bare", "token", "quoted"}
         /\ ParamValue(p) \in Text /\ ParamRest(p) \in Text /\ Escaped(p.value) \in Text
         /\ RenderParam(p) = Cat(p.gap, Cat(<<Semicolon>>, Cat(p.gap, Cat(p.name, ParamRest(p)))))
<1> DEFINE g == p.gap  n == p.name  v == p.value  x == Escaped(v)
           sm == <<Semicolon>>  eq == <<Equals>>  qt == <<Quote>>
           w == IF p.form = "token" THEN v ELSE Cat(Cat(qt, x), qt)
           r == IF p.form = "bare" THEN <<>> ELSE Cat(Cat(Cat(g, eq), g), w)
<1>1. g \in Text /\ n \in Text /\ v \in Text /\ p.form \in {"bare", "token", "quoted"}
  BY DEF Param
<1>2. x \in Text
  BY <1>1, EscapesType
<1>3. sm \in Text /\ eq \in Text /\ qt \in Text /\ <<>> \in Text
  BY ParamMarks, MarksAreSymbols
<1>4. RenderParam(p) = Cat(Cat(Cat(Cat(g, sm), g), n), r)
  BY DEF RenderParam, Cat, Semicolon, Equals, Quote
<1>5. ParamValue(p) = IF p.form = "token" THEN v ELSE Cat(qt, Cat(x, qt))
  BY DEF ParamValue
<1>6. ParamRest(p) = IF p.form = "bare" THEN <<>> ELSE Cat(g, Cat(eq, Cat(g, ParamValue(p))))
  BY DEF ParamRest
<1> HIDE DEF g, n, v, x, sm, eq, qt
<1>7. w \in Text /\ ParamValue(p) = w
  <2>1. Cat(Cat(qt, x), qt) = Cat(qt, Cat(x, qt))
    BY <1>2, <1>3, CatAssociates
  <2>2. Cat(qt, Cat(x, qt)) \in Text
    <3>1. Cat(x, qt) \in Text
      BY <1>2, <1>3, CatIsText
    <3> QED
      BY <1>3, <3>1, CatIsText
  <2> QED
    BY <1>1, <1>5, <2>1, <2>2
<1> HIDE DEF w
<1>8. r \in Text /\ ParamRest(p) = r
  <2>1. /\ Cat(Cat(Cat(g, eq), g), w) = Cat(g, Cat(eq, Cat(g, w)))
        /\ Cat(g, Cat(eq, Cat(g, w))) \in Text
    BY <1>1, <1>3, <1>7, FourParts
  <2> QED
    BY <1>3, <1>6, <1>7, <2>1
<1> HIDE DEF r
<1>9. Cat(Cat(Cat(g, sm), g), n) = Cat(g, Cat(sm, Cat(g, n))) /\ Cat(g, n) \in Text
      /\ Cat(sm, Cat(g, n)) \in Text
  BY <1>1, <1>3, FourParts
<1>10. Cat(Cat(g, Cat(sm, Cat(g, n))), r) = Cat(g, Cat(Cat(sm, Cat(g, n)), r))
  BY <1>1, <1>8, <1>9, CatAssociates
<1>11. Cat(Cat(sm, Cat(g, n)), r) = Cat(sm, Cat(Cat(g, n), r))
  BY <1>3, <1>8, <1>9, CatAssociates
<1>12. Cat(Cat(g, n), r) = Cat(g, Cat(n, r))
  BY <1>1, <1>8, CatAssociates
<1>13. RenderParam(p) = Cat(g, Cat(sm, Cat(g, Cat(n, r))))
  BY <1>4, <1>9, <1>10, <1>11, <1>12
<1> QED
  BY <1>1, <1>2, <1>7, <1>8, <1>13 DEF g, n, v, x, sm

(* A mark between two texts. *)
LEMMA ReadsMarked ==
  ASSUME NEW t \in Text, NEW k \in Nat \ {0}, NEW x \in Text, NEW m, <<m>> \in Text, NEW y \in Text,
         ReadsIn(t, k, Cat(x, Cat(<<m>>, y)))
  PROVE  /\ ReadsIn(t, k, x) /\ Len(x) \in Nat
         /\ t[k + Len(x)] = m /\ k + Len(x) <= Len(t) /\ k + Len(x) \in Nat \ {0}
         /\ ReadsIn(t, k + Len(x) + 1, y) /\ k + Len(x) + 1 \in Nat \ {0} /\ Len(y) \in Nat
         /\ Len(Cat(x, Cat(<<m>>, y))) = Len(x) + 1 + Len(y)
<1> DEFINE z == Cat(<<m>>, y)
<1>1. z \in Text /\ ReadsIn(t, k, Cat(x, z))
  BY CatIsText
<1>2. z = Cat(<<m>>, y)
  OBVIOUS
<1> HIDE DEF z
<1>3. /\ ReadsIn(t, k, x) /\ ReadsIn(t, k + Len(x), z)
      /\ k + Len(x) \in Nat \ {0} /\ Len(x) \in Nat
      /\ Len(Cat(x, z)) = Len(x) + Len(z)
  BY <1>1, ReadsAfter
<1> DEFINE n == k + Len(x)
<1>4. n \in Nat \ {0} /\ ReadsIn(t, n, Cat(<<m>>, y))
  BY <1>2, <1>3
<1>5. n = k + Len(x)
  OBVIOUS
<1> HIDE DEF n
<1>6. /\ t[n] = m /\ n <= Len(t)
      /\ ReadsIn(t, n + 1, y) /\ n + 1 \in Nat \ {0} /\ Len(y) \in Nat
      /\ Len(Cat(<<m>>, y)) = 1 + Len(y)
  BY <1>4, ReadsMark
<1>7. Len(Cat(x, z)) = Len(x) + 1 + Len(y)
  <2>1. Len(z) = 1 + Len(y)
    BY <1>2, <1>6
  <2> QED
    BY <1>3, <1>6, <2>1
<1>8. t[k + Len(x)] = m /\ k + Len(x) <= Len(t) /\ ReadsIn(t, k + Len(x) + 1, y)
      /\ k + Len(x) + 1 \in Nat \ {0}
  BY <1>5, <1>6
<1>9. Len(Cat(x, Cat(<<m>>, y))) = Len(x) + 1 + Len(y)
  BY <1>2, <1>7
<1> QED
  BY <1>3, <1>6, <1>8, <1>9

(* Where the name and the value of a parameter are that begins at a. *)
NameAt(a, p)  == a + Len(p.gap) + 1 + Len(p.gap)
EqualAt(a, p) == NameAt(a, p) + Len(p.name) + Len(p.gap)
ValueAt(a, p) == EqualAt(a, p) + 1 + Len(p.gap)

LEMMA ParamReads ==
  ASSUME NEW t \in Text, NEW a \in Nat \ {0}, NEW p \in Param, ReadsIn(t, a, RenderParam(p))
  PROVE  /\ Len(p.gap) \in Nat /\ Len(p.name) \in Nat /\ NameAt(a, p) \in Nat \ {0}
         /\ ReadsIn(t, a, p.gap)
         /\ t[a + Len(p.gap)] = Semicolon /\ a + Len(p.gap) <= Len(t)
         /\ ReadsIn(t, a + Len(p.gap) + 1, p.gap)
         /\ ReadsIn(t, NameAt(a, p), p.name)
         /\ ReadsIn(t, NameAt(a, p) + Len(p.name), ParamRest(p))
         /\ a + Len(RenderParam(p)) = NameAt(a, p) + Len(p.name) + Len(ParamRest(p))
<1> DEFINE g == p.gap  n == p.name  r == ParamRest(p)  q == RenderParam(p)
           y1 == Cat(n, r)  y2 == Cat(g, y1)
<1>1. g \in Text /\ n \in Text /\ r \in Text /\ <<Semicolon>> \in Text
      /\ q = Cat(g, Cat(<<Semicolon>>, y2)) /\ ReadsIn(t, a, q)
  BY ParamText, ParamMarks
<1>2. NameAt(a, p) = a + Len(g) + 1 + Len(g)
  BY DEF NameAt
<1> HIDE DEF g, n, r, q
<1>3. y1 \in Text /\ y2 \in Text
  <2>1. y1 \in Text
    BY <1>1, CatIsText
  <2> QED
    BY <1>1, <2>1, CatIsText
<1>4. y1 = Cat(n, r) /\ y2 = Cat(g, y1)
  OBVIOUS
<1> HIDE DEF y1, y2
<1>5. /\ ReadsIn(t, a, g) /\ Len(g) \in Nat
      /\ t[a + Len(g)] = Semicolon /\ a + Len(g) <= Len(t)
      /\ ReadsIn(t, a + Len(g) + 1, y2) /\ a + Len(g) + 1 \in Nat \ {0} /\ Len(y2) \in Nat
      /\ Len(q) = Len(g) + 1 + Len(y2)
  <2>1. ReadsIn(t, a, Cat(g, Cat(<<Semicolon>>, y2)))
    BY <1>1
  <2> QED
    BY <1>1, <1>3, <2>1, ReadsMarked
<1> DEFINE k == a + Len(g) + 1
<1>6. k \in Nat \ {0} /\ ReadsIn(t, k, Cat(g, y1))
  BY <1>4, <1>5
<1>7. k = a + Len(g) + 1
  OBVIOUS
<1> HIDE DEF k
<1>8. /\ ReadsIn(t, k, g) /\ ReadsIn(t, k + Len(g), y1)
      /\ k + Len(g) \in Nat \ {0} /\ Len(y2) = Len(g) + Len(y1)
  <2>1. ReadsIn(t, k, g)
    BY <1>1, <1>3, <1>6, ReadsAfter
  <2>2. ReadsIn(t, k + Len(g), y1)
    BY <1>1, <1>3, <1>6, ReadsAfter
  <2>3. Len(y2) = Len(g) + Len(y1)
    BY <1>1, <1>3, <1>4, CatIsText
  <2> QED
    BY <1>5, <1>6, <2>1, <2>2, <2>3
<1> DEFINE m == k + Len(g)
<1>9. m \in Nat \ {0} /\ ReadsIn(t, m, Cat(n, r))
  BY <1>4, <1>8
<1>10. m = NameAt(a, p)
  BY <1>2, <1>7
<1> HIDE DEF m
<1>11. ReadsIn(t, m, n) /\ ReadsIn(t, m + Len(n), r) /\ Len(n) \in Nat /\ Len(r) \in Nat
       /\ Len(y1) = Len(n) + Len(r)
  <2>1. ReadsIn(t, m, n)
    BY <1>1, <1>9, ReadsAfter
  <2>2. ReadsIn(t, m + Len(n), r)
    BY <1>1, <1>9, ReadsAfter
  <2>3. Len(n) \in Nat /\ Len(r) \in Nat /\ Len(y1) = Len(n) + Len(r)
    BY <1>1, <1>4, CatIsText
  <2> QED
    BY <2>1, <2>2, <2>3
<1>12. a + Len(q) = NameAt(a, p) + Len(n) + Len(r)
  BY <1>2, <1>5, <1>8, <1>11
<1> QED
  BY <1>5, <1>7, <1>8, <1>9, <1>10, <1>11, <1>12 DEF g, n, r, q

LEMMA ValueReads ==
  ASSUME NEW t \in Text, NEW a \in Nat \ {0}, NEW p \in Param, ReadsIn(t, a, RenderParam(p)),
         p.form # "bare"
  PROVE  /\ ReadsIn(t, NameAt(a, p) + Len(p.name), p.gap)
         /\ t[EqualAt(a, p)] = Equals /\ EqualAt(a, p) <= Len(t)
         /\ ReadsIn(t, EqualAt(a, p) + 1, p.gap)
         /\ ReadsIn(t, ValueAt(a, p), ParamValue(p)) /\ ValueAt(a, p) \in Nat \ {0}
         /\ a + Len(RenderParam(p)) = ValueAt(a, p) + Len(ParamValue(p))
<1> DEFINE g == p.gap  n == p.name  r == ParamRest(p)  q == RenderParam(p)  v == ParamValue(p)
           x == NameAt(a, p) + Len(n)  y == Cat(g, v)
<1>1. /\ ReadsIn(t, x, r) /\ a + Len(q) = x + Len(r) /\ x \in Nat \ {0} /\ Len(g) \in Nat
  BY ParamReads
<1>2. g \in Text /\ v \in Text /\ <<Equals>> \in Text
  BY ParamText, ParamMarks
<1>3. r = Cat(g, Cat(<<Equals>>, y))
  BY DEF ParamRest
<1>4. EqualAt(a, p) = x + Len(g) /\ ValueAt(a, p) = x + Len(g) + 1 + Len(g)
  BY DEF EqualAt, ValueAt
<1>5. y \in Text
  BY <1>2, CatIsText
<1>6. y = Cat(g, v)
  OBVIOUS
<1> HIDE DEF g, n, r, q, v, x, y
<1>7. /\ ReadsIn(t, x, g)
      /\ t[x + Len(g)] = Equals /\ x + Len(g) <= Len(t)
      /\ ReadsIn(t, x + Len(g) + 1, y) /\ x + Len(g) + 1 \in Nat \ {0} /\ Len(y) \in Nat
      /\ Len(r) = Len(g) + 1 + Len(y)
  <2>1. ReadsIn(t, x, Cat(g, Cat(<<Equals>>, y)))
    BY <1>1, <1>3
  <2> QED
    BY <1>1, <1>2, <1>3, <1>5, <2>1, ReadsMarked
<1> DEFINE k == x + Len(g) + 1
<1>8. k \in Nat \ {0} /\ ReadsIn(t, k, Cat(g, v)) /\ k = x + Len(g) + 1
  BY <1>6, <1>7
<1> HIDE DEF k
<1>9. ReadsIn(t, k, g) /\ ReadsIn(t, k + Len(g), v) /\ Len(v) \in Nat /\ Len(y) = Len(g) + Len(v)
  <2>1. ReadsIn(t, k, g)
    BY <1>2, <1>8, ReadsAfter
  <2>2. ReadsIn(t, k + Len(g), v)
    BY <1>2, <1>8, ReadsAfter
  <2>3. Len(v) \in Nat /\ Len(y) = Len(g) + Len(v)
    BY <1>2, <1>6, CatIsText
  <2> QED
    BY <2>1, <2>2, <2>3
<1>10. k = EqualAt(a, p) + 1 /\ k + Len(g) = ValueAt(a, p) /\ ValueAt(a, p) \in Nat \ {0}
  BY <1>1, <1>4, <1>8
<1>11. a + Len(q) = ValueAt(a, p) + Len(v)
  BY <1>1, <1>4, <1>7, <1>9
<1>12. /\ t[EqualAt(a, p)] = Equals /\ EqualAt(a, p) <= Len(t) /\ ReadsIn(t, EqualAt(a, p) + 1, g)
       /\ ReadsIn(t, ValueAt(a, p), v)
  BY <1>4, <1>7, <1>9, <1>10
<1> QED
  BY <1>7, <1>10, <1>11, <1>12 DEF g, n, q, v, x

LEMMA QuotedReads ==
  ASSUME NEW t \in Text, NEW k \in Nat \ {0}, NEW p \in Param, ReadsIn(t, k, ParamValue(p)),
         p.form = "quoted"
  PROVE  LET x == Escaped(p.value) IN
         /\ t[k] = Quote /\ k <= Len(t)
         /\ ReadsIn(t, k + 1, x) /\ Len(x) \in Nat
         /\ t[k + 1 + Len(x)] = Quote /\ k + 1 + Len(x) <= Len(t)
         /\ k + Len(ParamValue(p)) = k + 1 + Len(x) + 1
<1> DEFINE x == Escaped(p.value)  v == ParamValue(p)  qt == <<Quote>>  y == Cat(x, qt)
<1>1. x \in Text /\ qt \in Text
  BY ParamText, ParamMarks
<1>2. v = Cat(<<Quote>>, y) /\ y = Cat(x, qt) /\ ReadsIn(t, k, v)
  BY DEF ParamValue
<1>3. Len(qt) = 1 /\ qt = <<Quote>>
  OBVIOUS
<1> HIDE DEF x, v, qt, y
<1>4. y \in Text
  BY <1>1, <1>2, CatIsText
<1>5. /\ t[k] = Quote /\ k <= Len(t)
      /\ ReadsIn(t, k + 1, y) /\ k + 1 \in Nat \ {0} /\ Len(y) \in Nat
      /\ Len(v) = 1 + Len(y)
  <2>1. ReadsIn(t, k, Cat(<<Quote>>, y))
    BY <1>2
  <2> QED
    BY <1>2, <1>4, <2>1, ParamMarks, ReadsMark
<1> DEFINE m == k + 1
<1>6. m \in Nat \ {0} /\ ReadsIn(t, m, Cat(x, qt)) /\ m = k + 1
  BY <1>2, <1>5
<1> HIDE DEF m
<1>7. ReadsIn(t, m, x) /\ ReadsIn(t, m + Len(x), qt) /\ Len(x) \in Nat /\ Len(y) = Len(x) + Len(qt)
  <2>1. ReadsIn(t, m, x)
    BY <1>1, <1>6, ReadsAfter
  <2>2. ReadsIn(t, m + Len(x), qt)
    BY <1>1, <1>6, ReadsAfter
  <2>3. Len(x) \in Nat /\ Len(y) = Len(x) + Len(qt)
    BY <1>1, <1>2, CatIsText
  <2> QED
    BY <2>1, <2>2, <2>3
<1>8. t[m + Len(x)] = Quote /\ m + Len(x) <= Len(t)
  <2>1. t \in Seq(Symbol)
    BY DEF Text
  <2>2. m + Len(x) \in Nat \ {0}
    BY <1>6, <1>7
  <2>3. ReadsIn(t, m + Len(x), <<Quote>>)
    BY <1>3, <1>7
  <2> QED
    BY <2>1, <2>2, <2>3, ReadsOne
<1>9. Len(v) = 1 + (Len(x) + 1)
  BY <1>3, <1>5, <1>7
<1>10. k + Len(v) = k + 1 + Len(x) + 1
  BY <1>7, <1>9
<1> QED
  BY <1>5, <1>6, <1>7, <1>8, <1>10 DEF x, v

LEMMA ParamIsAt ==
  ASSUME NEW es \in Seq(Element), NEW e \in 1..Len(es), es[e].link
  PROVE  /\ \A j \in 0..Len(es[e].params) :
              ParamAt(es, e, j) \in Nat \ {0}
         /\ \A j \in 1..Len(es[e].params) :
              /\ es[e].params[j] \in Param
              /\ ReadsIn(Render(es), ParamAt(es, e, j - 1), RenderParam(es[e].params[j]))
              /\ ParamAt(es, e, j) = ParamAt(es, e, j - 1) + Len(RenderParam(es[e].params[j]))
<1> DEFINE t == Render(es)  ps == es[e].params  s == ParamTexts(es[e])  k == Params(es, e)
<1>1. s \in Seq(Text) /\ Len(s) = Len(ps) /\ ps \in Seq(Param)
  BY ElementType
<1>2. t \in Text
  BY RenderType
<1>3. k \in Nat \ {0} /\ ReadsIn(t, k, FlattenSeq(s))
  BY LinkIsAt
<1>4. \A j \in 1..Len(ps) : s[j] = RenderParam(ps[j]) /\ ps[j] \in Param
  <2>1. s = [j \in 1..Len(ps) |-> RenderParam(ps[j])]
    BY <1>1 DEF ParamTexts
  <2> HIDE DEF s, ps
  <2> QED
    BY <1>1, <2>1
<1>5. \A j : ParamAt(es, e, j) = k + Len(FlatTo(s, j))
  BY DEF ParamAt
<1>6. s \in Seq(Seq(Symbol)) /\ t \in Seq(Symbol)
  BY <1>1, <1>2 DEF Text
<1> HIDE DEF t, ps, s, k
<1>7. ASSUME NEW j \in 0..Len(ps) PROVE ParamAt(es, e, j) \in Nat \ {0}
  <2>1. FlatTo(s, j) \in Seq(Symbol)
    BY <1>1, <1>6, FlatToIsSeq
  <2>2. Len(FlatTo(s, j)) \in Nat
    BY <2>1
  <2> QED
    BY <1>3, <1>5, <2>2
<1>8. ASSUME NEW j \in 1..Len(ps)
      PROVE  /\ ReadsIn(t, ParamAt(es, e, j - 1), RenderParam(ps[j]))
             /\ ParamAt(es, e, j) = ParamAt(es, e, j - 1) + Len(RenderParam(ps[j]))
  <2>1. j \in 1..Len(s)
    BY <1>1
  <2>2. ReadsIn(t, k + Len(FlatTo(s, j - 1)), s[j])
    BY <1>3, <1>6, <2>1, ReadsPart
  <2>3. Len(FlatTo(s, j - 1)) \in Nat /\ Len(FlatTo(s, j)) = Len(FlatTo(s, j - 1)) + Len(s[j])
    BY <1>3, <1>6, <2>1, ReadsPart
  <2>4. Len(s[j]) \in Nat
    BY <1>6, <2>1
  <2>5. s[j] = RenderParam(ps[j])
    BY <1>4
  <2> QED
    BY <1>3, <1>5, <2>2, <2>3, <2>4, <2>5, SMTT(30)
<1> QED
  BY <1>4, <1>7, <1>8 DEF t, ps

(* Where the escaped text of a quoted value is after m of its characters, if *)
(* it begins at k.                                                           *)
Backslash == "\\"
Marked    == {Quote, Backslash}

EscapedTo(k, v, m) == k + Len(FlatTo(Escapes(v), m))

LEMMA EscapeIsAt ==
  ASSUME NEW t \in Text, NEW k \in Nat \ {0}, NEW v \in Text, ReadsIn(t, k, Escaped(v))
  PROVE  /\ EscapedTo(k, v, 0) = k
         /\ EscapedTo(k, v, Len(v)) = k + Len(Escaped(v))
         /\ \A m \in 0..Len(v) : EscapedTo(k, v, m) \in Nat \ {0}
         /\ \A m \in 1..Len(v) :
              LET c == EscapedTo(k, v, m - 1) IN
              IF v[m] \in Marked
              THEN /\ t[c] = Backslash /\ t[c + 1] = v[m] /\ c + 1 <= Len(t)
                   /\ EscapedTo(k, v, m) = c + 2
              ELSE t[c] = v[m] /\ c <= Len(t) /\ EscapedTo(k, v, m) = c + 1
<1> DEFINE s == Escapes(v)
           Piece(m) == IF v[m] \in Marked THEN <<Backslash, v[m]>> ELSE <<v[m]>>
<1>1. s \in Seq(Seq(Symbol)) /\ Len(s) = Len(v) /\ FlattenSeq(s) = Escaped(v) /\ Len(v) \in Nat
      /\ t \in Seq(Symbol)
  BY EscapesType DEF Text
<1>2. \A m \in 1..Len(v) : s[m] = Piece(m)
  <2>1. DOMAIN v = 1..Len(v)
    BY DEF Text
  <2>2. s = [m \in 1..Len(v) |-> Piece(m)]
    BY <2>1 DEF Escapes, Marked, Quote, Backslash
  <2> HIDE DEF s, Piece
  <2> QED
    BY <2>2
<1>3. \A m : EscapedTo(k, v, m) = k + Len(FlatTo(s, m))
  BY DEF EscapedTo
<1>4. ASSUME NEW m \in 1..Len(v)
      PROVE  IF v[m] \in Marked THEN s[m] = <<Backslash, v[m]>> ELSE s[m] = <<v[m]>>
  BY <1>2
<1> HIDE DEF s, Piece
<1>5. FlatTo(s, 0) = <<>>
  BY <1>1, FlatToSteps
<1>6. FlatTo(s, Len(s)) = FlattenSeq(s)
  BY <1>1, FlatToSteps
<1>7. EscapedTo(k, v, 0) = k
  BY <1>3, <1>5
<1>8. EscapedTo(k, v, Len(v)) = k + Len(Escaped(v))
  BY <1>1, <1>3, <1>6
<1>9. ASSUME NEW m \in 0..Len(v) PROVE EscapedTo(k, v, m) \in Nat \ {0}
  <2>1. FlatTo(s, m) \in Seq(Symbol)
    BY <1>1, FlatToIsSeq
  <2> QED
    BY <1>3, <2>1
<1>10. ASSUME NEW m \in 1..Len(v)
       PROVE  LET c == EscapedTo(k, v, m - 1) IN
              IF v[m] \in Marked
              THEN /\ t[c] = Backslash /\ t[c + 1] = v[m] /\ c + 1 <= Len(t)
                   /\ EscapedTo(k, v, m) = c + 2
              ELSE t[c] = v[m] /\ c <= Len(t) /\ EscapedTo(k, v, m) = c + 1
  <2> DEFINE c == EscapedTo(k, v, m - 1)
  <2>1. m \in 1..Len(s)
    BY <1>1
  <2> HIDE DEF c
  <2>2. ReadsIn(t, k + Len(FlatTo(s, m - 1)), s[m])
    BY <1>1, <2>1, ReadsPart
  <2>3. Len(FlatTo(s, m - 1)) \in Nat /\ Len(FlatTo(s, m)) = Len(FlatTo(s, m - 1)) + Len(s[m])
    <3>1. ReadsIn(t, k, FlattenSeq(s))
      BY <1>1
    <3>2. Len(FlatTo(s, m - 1)) \in Nat
      BY <1>1, <2>1, <3>1, ReadsPart
    <3>3. Len(FlatTo(s, m)) = Len(FlatTo(s, m - 1)) + Len(s[m])
      <4>1. FlatTo(s, m) = FlatTo(s, m - 1) \o s[m]
        BY <1>1, <2>1, FlatToSteps
      <4>2. m - 1 \in 0..Len(s) /\ s[m] \in Seq(Symbol)
        BY <1>1, <2>1
      <4>3. FlatTo(s, m - 1) \in Seq(Symbol)
        BY <1>1, <4>2, FlatToIsSeq
      <4> QED
        BY <4>1, <4>2, <4>3, ConcatProperties
    <3> QED
      BY <3>2, <3>3
  <2> USE DEF c
  <2>4. Len(s[m]) \in Nat
    BY <1>1, <2>1
  <2>5. ReadsIn(t, c, s[m]) /\ EscapedTo(k, v, m) = c + Len(s[m]) /\ c \in Nat \ {0}
    <3>1. c = k + Len(FlatTo(s, m - 1)) /\ EscapedTo(k, v, m) = k + Len(FlatTo(s, m))
      BY <1>3
    <3> HIDE DEF c
    <3>2. ReadsIn(t, c, s[m])
      BY <2>2, <3>1
    <3>3. EscapedTo(k, v, m) = c + Len(s[m])
      <4> DEFINE d == Len(FlatTo(s, m - 1))  w == Len(FlatTo(s, m))  n == Len(s[m])
                 u == EscapedTo(k, v, m)
      <4>1. d \in Nat /\ n \in Nat /\ w = d + n /\ c = k + d /\ u = k + w
        BY <2>3, <2>4, <3>1
      <4> HIDE DEF d, w, n, u
      <4>2. u = c + n
        BY <4>1
      <4> QED
        BY <4>2 DEF u, n
    <3>4. c \in Nat \ {0}
      BY <2>3, <3>1
    <3> QED
      BY <3>2, <3>3, <3>4
  <2> HIDE DEF c
  <2>6. CASE v[m] \in Marked
    <3> DEFINE w == s[m]
    <3>1. w = <<Backslash, v[m]>> /\ ReadsIn(t, c, w)
      BY <1>4, <2>5, <2>6
    <3>2. Len(w) = 2 /\ w[1] = Backslash /\ w[2] = v[m]
      BY <3>1
    <3> HIDE DEF w
    <3>3. c + 2 <= Len(t) + 1 /\ t[c + 1 - 1] = w[1] /\ t[c + 2 - 1] = w[2]
      BY <3>1, <3>2 DEF ReadsIn
    <3>4. c + 1 - 1 = c /\ c + 2 - 1 = c + 1 /\ Len(t) \in Nat
      BY <1>1, <2>5
    <3>5. c + 1 <= Len(t)
      BY <2>5, <3>3, <3>4
    <3>6. EscapedTo(k, v, m) = c + 2
      BY <2>5, <3>2 DEF w
    <3> QED
      BY <2>6, <3>2, <3>3, <3>4, <3>5, <3>6 DEF c
  <2>7. CASE v[m] \notin Marked
    <3>1. ReadsIn(t, c, <<v[m]>>) /\ s[m] = <<v[m]>>
      BY <1>4, <2>5, <2>7
    <3>2. t[c] = v[m] /\ c <= Len(t)
      BY <1>1, <2>5, <3>1, ReadsOne
    <3>3. EscapedTo(k, v, m) = c + 1
      BY <2>5, <3>1
    <3> QED
      BY <2>7, <3>2, <3>3 DEF c
  <2> QED
    BY <2>6, <2>7
<1> QED
  BY <1>7, <1>8, <1>9, <1>10

-----------------------------------------------------------------------------
(* What well-formed elements hold, place by place.                          *)
Specials == {",", ";", "=", "<", ">", "\"", "\\"}

NoneOf(x, S) == \A i \in 1..Len(x) : x[i] \notin S

IsBlank(x) == \A i \in 1..Len(x) : x[i] \in Blank

GoodWord(x)  == Len(x) > 0 /\ NoneOf(x, Specials) /\ NoneOf(x, Blank)
GoodParam(p) == GoodWord(p.name) /\ (p.form = "token" => GoodWord(p.value)) /\ IsBlank(p.gap)

LEMMA PlainMeans ==
  ASSUME NEW x \in Text
  PROVE  /\ Plain(x) => NoneOf(x, Specials)
         /\ IsToken(x) => GoodWord(x)
<1>1. x \in Seq(Symbol) /\ DOMAIN x = 1..Len(x) /\ Len(x) \in Nat
  BY DEF Text
<1>2. \A i \in 1..Len(x) : x[i] \in Range(x)
  BY <1>1 DEF Range
<1>3. ASSUME Plain(x) PROVE NoneOf(x, Specials)
  <2>1. Range(x) \cap Specials = {}
    BY <1>3 DEF Plain, Specials
  <2> QED
    BY <1>2, <2>1 DEF NoneOf
<1>4. ASSUME IsToken(x) PROVE GoodWord(x)
  <2>1. x # <<>> /\ Plain(x) /\ Range(x) \cap Blank = {}
    BY <1>4 DEF IsToken
  <2>2. NoneOf(x, Blank)
    BY <1>2, <2>1 DEF NoneOf
  <2>3. Len(x) > 0
    BY <1>1, <2>1
  <2> QED
    BY <1>3, <2>1, <2>2, <2>3 DEF GoodWord
<1> QED
  BY <1>3, <1>4

LEMMA WellFormedMeans ==
  ASSUME NEW x \in Element, WellFormed(x)
  PROVE  /\ x.link => /\ NoneOf(x.tail, Specials)
                      /\ x.tail # <<>> => Len(x.tail) > 0 /\ x.tail[1] \in Blank
                      /\ NoneOf(x.target, Blank) /\ NoneOf(x.target, {Closing})
                      /\ \A j \in 1..Len(x.params) : GoodParam(x.params[j])
         /\ ~x.link => NoneOf(x.junk, Comma) /\ NoneOf(x.junk, {Opening})
<1>1. ASSUME ~x.link PROVE NoneOf(x.junk, Comma) /\ NoneOf(x.junk, {Opening})
  <2>1. x.junk \in Seq(Symbol)
    BY <1>1, ElementType DEF Text
  <2>2. \A i \in 1..Len(x.junk) : x.junk[i] \in Range(x.junk)
    BY <2>1 DEF Range
  <2>3. "," \notin Range(x.junk) /\ Opening \notin Range(x.junk)
    BY <1>1 DEF WellFormed, Opening
  <2> QED
    BY <2>2, <2>3 DEF NoneOf, Comma
<1>2. ASSUME x.link
      PROVE  /\ NoneOf(x.tail, Specials)
             /\ x.tail # <<>> => Len(x.tail) > 0 /\ x.tail[1] \in Blank
             /\ NoneOf(x.target, Blank) /\ NoneOf(x.target, {Closing})
             /\ \A j \in 1..Len(x.params) : GoodParam(x.params[j])
  <2>1. x.tail \in Text /\ x.target \in Text /\ x.params \in Seq(Param)
    BY <1>2, ElementType
  <2>2. /\ Plain(x.tail) /\ (x.tail = <<>> \/ Head(x.tail) \in Blank)
        /\ Range(x.target) \cap (Blank \cup {Closing}) = {}
        /\ \A k \in DOMAIN x.params :
             /\ IsToken(x.params[k].name)
             /\ x.params[k].form = "token" => IsToken(x.params[k].value)
             /\ Range(x.params[k].gap) \subseteq Blank
    BY <1>2 DEF WellFormed, Closing
  <2>3. NoneOf(x.tail, Specials)
    BY <2>1, <2>2, PlainMeans
  <2>4. ASSUME x.tail # <<>> PROVE Len(x.tail) > 0 /\ x.tail[1] \in Blank
    <3> DEFINE z == x.tail
    <3>1. z \in Seq(Symbol) /\ z # <<>> /\ Head(z) \in Blank
      BY <2>1, <2>2, <2>4 DEF Text
    <3> HIDE DEF z
    <3>2. Len(z) > 0 /\ z[1] \in Blank
      BY <3>1
    <3> QED
      BY <3>2 DEF z
  <2>5. NoneOf(x.target, Blank) /\ NoneOf(x.target, {Closing})
    <3> DEFINE z == x.target
    <3>1. z \in Seq(Symbol) /\ Range(z) \cap (Blank \cup {Closing}) = {}
      BY <2>1, <2>2 DEF Text
    <3> HIDE DEF z
    <3>2. \A i \in 1..Len(z) : z[i] \in Range(z)
      BY <3>1 DEF Range
    <3>3. NoneOf(z, Blank) /\ NoneOf(z, {Closing})
      BY <3>1, <3>2 DEF NoneOf
    <3> QED
      BY <3>3 DEF z
  <2>6. ASSUME NEW j \in 1..Len(x.params) PROVE GoodParam(x.params[j])
    <3> DEFINE p == x.params[j]
    <3>1. p \in Param
      BY <2>1
    <3>2. p.gap \in Text /\ p.name \in Text /\ p.value \in Text
      BY <3>1, ParamText
    <3>3. j \in DOMAIN x.params
      BY <2>1
    <3>4. IsToken(p.name) /\ (p.form = "token" => IsToken(p.value)) /\ Range(p.gap) \subseteq Blank
      BY <2>2, <3>3
    <3> HIDE DEF p
    <3>5. GoodWord(p.name) /\ (p.form = "token" => GoodWord(p.value))
      BY <3>2, <3>4, PlainMeans
    <3>6. IsBlank(p.gap)
      <4> DEFINE z == p.gap
      <4>1. z \in Seq(Symbol) /\ Range(z) \subseteq Blank
        BY <3>2, <3>4 DEF Text
      <4> HIDE DEF z
      <4>2. \A i \in 1..Len(z) : z[i] \in Range(z)
        BY <4>1 DEF Range
      <4>3. IsBlank(z)
        BY <4>1, <4>2 DEF IsBlank
      <4> QED
        BY <4>3 DEF z
    <3> QED
      BY <3>5, <3>6 DEF GoodParam, p
  <2> QED
    BY <2>3, <2>4, <2>5, <2>6
<1> QED
  BY <1>1, <1>2

LEMMA ReadsPlace ==
  ASSUME NEW t \in Text, NEW k \in Nat \ {0}, NEW x \in Text, ReadsIn(t, k, x),
         NEW j \in k..(k + Len(x) - 1)
  PROVE  j - k + 1 \in 1..Len(x) /\ t[j] = x[j - k + 1] /\ j \in 1..Len(t)
<1>1. Len(x) \in Nat /\ Len(t) \in Nat
  BY DEF Text
<1> DEFINE i == j - k + 1
<1>2. i \in 1..Len(x) /\ k + i - 1 = j
  BY <1>1
<1> HIDE DEF i
<1>3. t[k + i - 1] = x[i] /\ k + Len(x) <= Len(t) + 1
  BY <1>2 DEF ReadsIn
<1>4. j \in 1..Len(t)
  BY <1>1, <1>3
<1> QED
  BY <1>2, <1>3, <1>4 DEF i

(* Blanks are skipped, and a text is read to where a mark ends it. *)
LEMMA GapSkipped ==
  ASSUME AtField, NEW k \in Nat \ {0}, NEW x \in Text, ReadsIn(Field, k, x), IsBlank(x),
         NEW n, n = k + Len(x), n <= Len(Field) => Field[n] \notin Blank
  PROVE  Skip(k, Blank) = n
<1>1. Field \in Text /\ Len(Field) \in Nat /\ Len(x) \in Nat
  BY FieldIsText DEF Text
<1>2. k + Len(x) <= Len(Field) + 1
  BY DEF ReadsIn
<1>3. k \in 1..(Len(Field) + 1) /\ n \in k..(Len(Field) + 1)
  BY <1>1, <1>2
<1>4. ASSUME NEW j \in k..(n - 1) PROVE Field[j] \in Blank
  <2>1. j \in k..(k + Len(x) - 1)
    BY <1>1
  <2>2. j - k + 1 \in 1..Len(x) /\ Field[j] = x[j - k + 1]
    BY <1>1, <2>1, ReadsPlace
  <2> QED
    BY <2>2 DEF IsBlank
<1> QED
  BY <1>3, <1>4, SkipIs

LEMMA TextRead ==
  ASSUME AtField, NEW k \in Nat \ {0}, NEW x \in Text, ReadsIn(Field, k, x), NEW S, NoneOf(x, S),
         NEW n, n = k + Len(x), n <= Len(Field) => Field[n] \in S
  PROVE  Seek(k, S) = n /\ Between(k, n) = x
<1>1. Field \in Seq(Symbol) /\ Field \in Text /\ Len(Field) \in Nat /\ Len(x) \in Nat
      /\ x \in Seq(Symbol)
  BY FieldIsText DEF Text
<1>2. k + Len(x) <= Len(Field) + 1
  BY DEF ReadsIn
<1>3. k \in 1..(Len(Field) + 1) /\ n \in k..(Len(Field) + 1)
  BY <1>1, <1>2
<1>4. ASSUME NEW j \in k..(n - 1) PROVE Field[j] \notin S
  <2>1. j \in k..(k + Len(x) - 1)
    BY <1>1
  <2>2. j - k + 1 \in 1..Len(x) /\ Field[j] = x[j - k + 1]
    BY <1>1, <2>1, ReadsPlace
  <2> QED
    BY <2>2 DEF NoneOf
<1>5. Seek(k, S) = n
  <2>1. n > Len(Field) \/ Field[n] \in S
    BY <1>1, <1>3
  <2> QED
    BY <1>3, <1>4, <2>1, SeekIs
<1>6. Between(k, n) = x
  <2> DEFINE w == SubSeq(Field, k, n - 1)  t == Field
  <2>1. t \in Seq(Symbol) /\ Len(t) \in Nat /\ w = SubSeq(t, k, n - 1)
    BY <1>1
  <2>2. \A i \in 1..Len(x) : t[k + i - 1] = x[i]
    BY DEF ReadsIn
  <2>3. Between(k, n) = w
    BY DEF Between
  <2>4. k \in 1..(Len(t) + 1) /\ n - 1 \in (k - 1)..Len(t) /\ n - 1 = k + Len(x) - 1
    BY <1>1, <1>3
  <2> HIDE DEF w, t
  <2>5. \A i \in k..(n - 1) : t[i] \in Symbol
    BY <2>1, <2>4
  <2>6. w \in Seq(Symbol) /\ Len(w) = Len(x) /\ \A i \in 1..Len(x) : w[i] = t[k + i - 1]
    <3>1. w \in Seq(Symbol)
      BY <2>1, <2>4, <2>5, SubSeqProperties
    <3>2. Len(w) = Len(x)
      BY <1>1, <2>1, <2>4, <2>5, SubSeqProperties
    <3>3. \A i \in 1..Len(x) : w[i] = t[k + i - 1]
      BY <1>1, <2>1, <2>4, <2>5, SubSeqProperties
    <3> QED
      BY <3>1, <3>2, <3>3
  <2>7. w = x
    BY <1>1, <2>2, <2>6, SeqEqual
  <2> QED
    BY <2>3, <2>7
<1> QED
  BY <1>5, <1>6

-----------------------------------------------------------------------------
(* What the parser meets in a field that was put together from elements.    *)
InField(es) == AtField /\ es \in Seq(Element) /\ Field = Render(es)

Reading(es, e) == InField(es) /\ e \in 1..Len(es) /\ es[e].link /\ WellFormed(es[e])

LEMMA SpecialMarks ==
  /\ Semicolon \in Specials /\ Equals \in Specials /\ Quote \in Specials /\ "," \in Specials
  /\ Semicolon \in ValueStops /\ "," \in ValueStops /\ Blank \subseteq ValueStops
  /\ Semicolon \notin Blank /\ Equals \notin Blank /\ "," \notin Blank
  /\ Semicolon # Equals /\ Semicolon # "," /\ Equals # "," /\ Comma = {","}
BY DEF Specials, Semicolon, Equals, Quote, ValueStops, Blank, Comma

CommaMark == ","

LEMMA AfterElement ==
  ASSUME NEW es, InField(es), NEW e \in 1..Len(es)
  PROVE  /\ Begin(es, e + 1) \in 1..(Len(Field) + 1)
         /\ Begin(es, e + 1) <= Len(Field) => Field[Begin(es, e + 1)] = CommaMark
<1>1. es \in Seq(Element) /\ Field = Render(es) /\ Len(Field) \in Nat
  BY FieldIsText DEF InField
<1>2. e + 1 \in 1..(Len(es) + 1)
  BY <1>1
<1>3. Begin(es, e + 1) \in 1..(Len(Field) + 1)
  BY <1>1, <1>2, FieldBounds
<1>4. CASE e = Len(es)
  <2>1. Begin(es, e + 1) = Len(Field) + 1
    BY <1>1, <1>4, FieldBounds
  <2> QED
    BY <1>1, <1>3, <2>1
<1>5. CASE e # Len(es)
  <2>1. e + 1 \in 1..Len(es) /\ e + 1 # 1
    BY <1>1, <1>5
  <2>2. Render(es)[Begin(es, e + 1)] = CommaMark
    BY <1>1, <2>1, ElementIsAt DEF CommaMark
  <2> QED
    BY <1>1, <1>3, <2>2
<1> QED
  BY <1>4, <1>5

LEMMA BeforeParam ==
  ASSUME NEW es, NEW e, Reading(es, e), NEW j \in 0..(Len(es[e].params) - 1)
  PROVE  LET a == ParamAt(es, e, j)  g == es[e].params[j + 1].gap IN
         /\ a \in 1..Len(Field) /\ Field[a] \in ValueStops
         /\ Skip(a, Blank) = a + Len(g) /\ Holds(Skip(a, Blank), Semicolon)
<1> DEFINE a == ParamAt(es, e, j)  p == es[e].params[j + 1]  g == p.gap
<1>1. /\ AtField /\ es \in Seq(Element) /\ Field = Render(es) /\ e \in 1..Len(es) /\ es[e].link
      /\ WellFormed(es[e]) /\ es[e] \in Element
  BY DEF Reading, InField
<1>2. es[e].params \in Seq(Param)
  BY <1>1, ElementType
<1>3. j + 1 \in 1..Len(es[e].params) /\ (j + 1) - 1 = j /\ j \in 0..Len(es[e].params)
  BY <1>2
<1>4. p \in Param /\ ReadsIn(Field, a, RenderParam(p)) /\ a \in Nat \ {0}
  BY <1>1, <1>3, ParamIsAt
<1>5. IsBlank(g)
  BY <1>1, <1>3, WellFormedMeans DEF GoodParam
<1>6. Field \in Text /\ Len(Field) \in Nat
  BY <1>1, FieldIsText
<1> HIDE DEF a, p
<1>7. /\ Len(g) \in Nat /\ ReadsIn(Field, a, g) /\ Field[a + Len(g)] = Semicolon
      /\ a + Len(g) <= Len(Field) /\ g \in Text
  BY <1>4, <1>6, ParamReads, ParamText
<1> HIDE DEF g
<1>8. Skip(a, Blank) = a + Len(g)
  <2>1. Field[a + Len(g)] \notin Blank
    BY <1>7, SpecialMarks
  <2> QED
    BY <1>1, <1>4, <1>5, <1>7, <2>1, GapSkipped
<1>9. Holds(Skip(a, Blank), Semicolon)
  BY <1>7, <1>8 DEF Holds
<1>10. a \in 1..Len(Field)
  BY <1>4, <1>6, <1>7
<1>11. Field[a] \in ValueStops
  <2>1. CASE Len(g) = 0
    <3>1. a + Len(g) = a
      BY <1>4, <2>1
    <3> QED
      BY <1>7, <3>1, SpecialMarks
  <2>2. CASE Len(g) # 0
    <3>1. a \in a..(a + Len(g) - 1) /\ a - a + 1 = 1 /\ 1 \in 1..Len(g)
      BY <1>4, <1>7, <2>2
    <3>2. Field[a] = g[a - a + 1]
      BY <1>4, <1>6, <1>7, <3>1, ReadsPlace
    <3>3. g[1] \in Blank
      BY <1>5, <3>1 DEF IsBlank
    <3> QED
      BY <3>1, <3>2, <3>3, SpecialMarks
  <2> QED
    BY <2>1, <2>2
<1> QED
  BY <1>8, <1>9, <1>10, <1>11 DEF a, g, p

LEMMA AfterParams ==
  ASSUME NEW es, NEW e, Reading(es, e)
  PROVE  LET a == ParamAt(es, e, Len(es[e].params))  q == Skip(a, Blank) IN
         /\ a \in 1..(Len(Field) + 1) /\ (a <= Len(Field) => Field[a] \in ValueStops)
         /\ ~Holds(q, Semicolon) /\ ~Holds(q, Equals)
         /\ NextComma(q) = Begin(es, e + 1)
<1> DEFINE a == ParamAt(es, e, Len(es[e].params))  q == Skip(a, Blank)  z == es[e].tail
           n == Begin(es, e + 1)
<1>1. /\ AtField /\ es \in Seq(Element) /\ Field = Render(es) /\ e \in 1..Len(es) /\ es[e].link
      /\ WellFormed(es[e]) /\ es[e] \in Element /\ InField(es)
  BY DEF Reading, InField
<1>2. Field \in Text /\ Len(Field) \in Nat
  BY <1>1, FieldIsText
<1>3. ReadsIn(Field, a, z) /\ Len(z) \in Nat /\ a \in Nat \ {0} /\ n = a + Len(z)
  BY <1>1, LinkIsAt
<1>4. z \in Text
  BY <1>1, ElementType
<1>5. NoneOf(z, Specials) /\ (z # <<>> => Len(z) > 0 /\ z[1] \in Blank)
  BY <1>1, WellFormedMeans
<1>6. n \in 1..(Len(Field) + 1) /\ (n <= Len(Field) => Field[n] = CommaMark)
  BY <1>1, AfterElement
<1> HIDE DEF a, z, n
<1>7. a \in 1..(Len(Field) + 1)
  BY <1>2, <1>3, <1>6
<1>8. /\ q \in a..(Len(Field) + 1)
      /\ q <= Len(Field) => Field[q] \notin Blank
      /\ \A i \in a..(q - 1) : Field[i] \in Blank
  BY <1>1, <1>7, SkipFinds
<1> HIDE DEF q
<1>9. CommaMark \notin Blank /\ CommaMark \in Specials /\ CommaMark \in ValueStops
      /\ CommaMark # Semicolon /\ CommaMark # Equals /\ Comma = {CommaMark}
  BY SpecialMarks DEF CommaMark
<1>10. q <= n
  <2> SUFFICES ASSUME ~(q <= n) PROVE FALSE
    OBVIOUS
  <2>1. n \in a..(q - 1) /\ n <= Len(Field)
    BY <1>2, <1>3, <1>6, <1>7, <1>8
  <2>2. Field[n] \in Blank
    BY <1>8, <2>1
  <2> QED
    BY <1>6, <1>9, <2>1, <2>2
<1>11. ASSUME NEW i \in a..(n - 1) PROVE Field[i] \notin Specials
  <2>1. i \in a..(a + Len(z) - 1)
    BY <1>3
  <2>2. i - a + 1 \in 1..Len(z) /\ Field[i] = z[i - a + 1]
    BY <1>2, <1>3, <1>4, <2>1, ReadsPlace
  <2> QED
    BY <1>5, <2>2 DEF NoneOf
<1>12. q < n \/ q = n
  BY <1>2, <1>3, <1>6, <1>8, <1>10
<1>13. q <= Len(Field) => Field[q] # Semicolon /\ Field[q] # Equals
  <2>1. CASE q < n
    <3>1. q \in a..(n - 1)
      BY <1>2, <1>3, <1>6, <1>8, <2>1
    <3> QED
      BY <1>11, <3>1, SpecialMarks
  <2>2. CASE q = n
    BY <1>6, <1>9, <2>2
  <2> QED
    BY <1>12, <2>1, <2>2
<1>14. ~Holds(q, Semicolon) /\ ~Holds(q, Equals)
  BY <1>13 DEF Holds
<1>15. NextComma(q) = n
  <2>1. q \in 1..(Len(Field) + 1) /\ n \in q..(Len(Field) + 1)
    BY <1>2, <1>3, <1>6, <1>8, <1>10
  <2>2. n > Len(Field) \/ Field[n] \in Comma
    BY <1>2, <1>6, <1>9
  <2>3. ASSUME NEW i \in q..(n - 1) PROVE Field[i] \notin Comma
    <3>1. i \in a..(n - 1)
      BY <1>2, <1>3, <1>6, <1>8
    <3> QED
      BY <1>9, <1>11, <3>1
  <2> QED
    BY <1>1, <2>1, <2>2, <2>3, SeekIs DEF NextComma
<1>16. a <= Len(Field) => Field[a] \in ValueStops
  <2> SUFFICES ASSUME a <= Len(Field) PROVE Field[a] \in ValueStops
    OBVIOUS
  <2>1. CASE Len(z) = 0
    <3>1. n = a
      BY <1>3, <2>1
    <3> QED
      BY <1>6, <1>9, <3>1
  <2>2. CASE Len(z) # 0
    <3>1. a \in a..(a + Len(z) - 1) /\ a - a + 1 = 1 /\ z # <<>>
      BY <1>3, <2>2
    <3>2. Field[a] = z[a - a + 1]
      BY <1>2, <1>3, <1>4, <3>1, ReadsPlace
    <3> QED
      BY <1>5, <3>1, <3>2, SpecialMarks
  <2> QED
    BY <2>1, <2>2
<1> QED
  BY <1>7, <1>14, <1>15, <1>16 DEF a, q, n

LEMMA ParamStops ==
  ASSUME NEW es, NEW e, Reading(es, e), NEW j \in 0..Len(es[e].params)
  PROVE  LET a == ParamAt(es, e, j) IN
         /\ a \in 1..(Len(Field) + 1) /\ (a <= Len(Field) => Field[a] \in ValueStops)
         /\ ~Holds(Skip(a, Blank), Equals)
<1>1. es[e].params \in Seq(Param) /\ Len(Field) \in Nat
  <2>1. es[e] \in Element /\ es[e].link /\ AtField
    BY DEF Reading, InField
  <2> QED
    BY <2>1, ElementType, FieldIsText
<1>2. CASE j = Len(es[e].params)
  BY <1>2, AfterParams
<1>3. CASE j # Len(es[e].params)
  <2> DEFINE a == ParamAt(es, e, j)  q == Skip(a, Blank)
  <2>1. j \in 0..(Len(es[e].params) - 1)
    BY <1>1, <1>3
  <2>2. a \in 1..Len(Field) /\ Field[a] \in ValueStops /\ Holds(q, Semicolon)
    BY <2>1, BeforeParam
  <2> HIDE DEF a, q
  <2>3. ~Holds(q, Equals)
    BY <2>2, SpecialMarks DEF Holds
  <2>4. a \in 1..(Len(Field) + 1)
    BY <1>1, <2>2
  <2> QED
    BY <2>2, <2>3, <2>4 DEF a, q
<1> QED
  BY <1>2, <1>3

LEMMA ReadsFirst ==
  ASSUME NEW t \in Text, NEW k \in Nat \ {0}, NEW x \in Text, ReadsIn(t, k, x), Len(x) > 0
  PROVE  t[k] = x[1] /\ k <= Len(t)
<1>1. Len(x) \in Nat
  BY DEF Text
<1>2. k \in k..(k + Len(x) - 1) /\ k - k + 1 = 1
  BY <1>1
<1>3. t[k] = x[k - k + 1] /\ k \in 1..Len(t)
  BY <1>2, ReadsPlace
<1> QED
  BY <1>2, <1>3

LEMMA StopsAreSpecial ==
  /\ ValueStops \subseteq NameStops /\ Equals \in NameStops /\ Blank \subseteq NameStops
  /\ \A x : GoodWord(x) => NoneOf(x, NameStops) /\ NoneOf(x, ValueStops)
<1>1. ValueStops \subseteq NameStops /\ Equals \in NameStops /\ Blank \subseteq NameStops
  BY DEF ValueStops, NameStops, Equals
<1>2. NameStops \subseteq Specials \cup Blank
  BY DEF NameStops, Specials
<1>3. ASSUME NEW x, GoodWord(x)
      PROVE  NoneOf(x, NameStops) /\ NoneOf(x, ValueStops)
  BY <1>1, <1>2, <1>3 DEF GoodWord, NoneOf
<1> QED
  BY <1>1, <1>3

(* A parameter's name is found, whatever is before its semicolon. *)
LEMMA NameIsRead ==
  ASSUME NEW es, NEW e, Reading(es, e), NEW j \in 1..Len(es[e].params),
         at \in 1..(Len(Field) + 1),
         Skip(at, Blank) = Skip(ParamAt(es, e, j - 1), Blank)
  PROVE  LET a == ParamAt(es, e, j - 1)  p == es[e].params[j] IN
         /\ AtParam
         /\ ParamName = NameAt(a, p) /\ NameEnd = NameAt(a, p) + Len(p.name)
         /\ Between(ParamName, NameEnd) = p.name
<1> DEFINE a == ParamAt(es, e, j - 1)  b == ParamAt(es, e, j)  p == es[e].params[j]
           g == p.gap  n == p.name  k == NameAt(a, p)
<1>1. /\ AtField /\ es \in Seq(Element) /\ Field = Render(es) /\ e \in 1..Len(es) /\ es[e].link
      /\ WellFormed(es[e]) /\ es[e] \in Element
  BY DEF Reading, InField
<1>2. es[e].params \in Seq(Param)
  BY <1>1, ElementType
<1>3. j - 1 \in 0..(Len(es[e].params) - 1) /\ (j - 1) + 1 = j /\ j \in 0..Len(es[e].params)
  BY <1>2
<1>4. p \in Param /\ ReadsIn(Field, a, RenderParam(p)) /\ b = a + Len(RenderParam(p)) /\ a \in Nat \ {0}
  BY <1>1, <1>3, ParamIsAt
<1>5. IsBlank(g) /\ GoodWord(n)
  BY <1>1, WellFormedMeans DEF GoodParam
<1>6. Field \in Text /\ Len(Field) \in Nat
  BY <1>1, FieldIsText
<1>7. Skip(at, Blank) = a + Len(g) /\ Holds(Skip(at, Blank), Semicolon)
  BY <1>3, BeforeParam
<1>8. b <= Len(Field) => Field[b] \in ValueStops
  BY <1>3, ParamStops
<1> HIDE DEF a, b, p
<1>9. /\ Len(g) \in Nat /\ Len(n) \in Nat /\ k \in Nat \ {0} /\ k = a + Len(g) + 1 + Len(g)
      /\ ReadsIn(Field, a + Len(g) + 1, g) /\ ReadsIn(Field, k, n)
      /\ ReadsIn(Field, k + Len(n), ParamRest(p)) /\ b = k + Len(n) + Len(ParamRest(p))
  BY <1>4, <1>6, ParamReads DEF NameAt
<1>10. g \in Text /\ n \in Text
  BY <1>4, ParamText
<1>11. p.form # "bare" => ReadsIn(Field, k + Len(n), g) /\ Field[k + Len(n) + Len(g)] = Equals
  BY <1>4, <1>6, ValueReads DEF EqualAt
<1>12. p.form = "bare" => k + Len(n) = b
  <2> SUFFICES ASSUME p.form = "bare" PROVE k + Len(n) = b
    OBVIOUS
  <2>1. Len(ParamRest(p)) = 0
    BY DEF ParamRest
  <2> QED
    BY <1>9, <2>1
<1> DEFINE bare == p.form = "bare"
<1>13. (bare => k + Len(n) = b) /\ (~bare => ReadsIn(Field, k + Len(n), g) /\ Field[k + Len(n) + Len(g)] = Equals)
  BY <1>11, <1>12
<1> HIDE DEF g, n, k, bare
<1>14. AtParam
  BY <1>7 DEF AtParam, Semicolon
<1>15. ParamName = k
  <2>1. n[1] \notin Blank /\ Len(n) > 0
    BY <1>5, <1>9 DEF GoodWord, NoneOf
  <2>2. Field[k] \notin Blank
    BY <1>6, <1>9, <1>10, <2>1, ReadsFirst
  <2> DEFINE m == a + Len(g) + 1
  <2>3. m \in Nat \ {0} /\ k = m + Len(g) /\ ReadsIn(Field, m, g)
    BY <1>4, <1>9
  <2>4. ParamName = Skip(m, Blank)
    BY <1>7 DEF ParamName
  <2> HIDE DEF m
  <2>5. Skip(m, Blank) = k
    BY <1>1, <1>5, <1>10, <2>2, <2>3, GapSkipped
  <2> QED
    BY <2>4, <2>5
<1> DEFINE x == k + Len(n)
<1>16. x = k + Len(n) /\ x \in Nat \ {0}
  BY <1>9
<1>17. (bare => x = b) /\ (~bare => ReadsIn(Field, x, g) /\ Field[x + Len(g)] = Equals)
  BY <1>13
<1> HIDE DEF x
<1>18. x <= Len(Field) => Field[x] \in NameStops
  <2>1. CASE bare
    BY <1>8, <1>17, <2>1, StopsAreSpecial
  <2>2. CASE ~bare /\ Len(g) = 0
    <3>1. x + Len(g) = x
      BY <1>16, <2>2
    <3>2. Field[x] = Equals
      BY <1>17, <2>2, <3>1
    <3> QED
      BY <3>2, StopsAreSpecial
  <2>3. CASE ~bare /\ Len(g) # 0
    <3>1. Len(g) > 0 /\ g[1] \in Blank
      BY <1>5, <1>9, <2>3 DEF IsBlank
    <3>2. Field[x] = g[1]
      BY <1>6, <1>10, <1>16, <1>17, <2>3, <3>1, ReadsFirst
    <3> QED
      BY <3>1, <3>2, StopsAreSpecial
  <2> QED
    BY <2>1, <2>2, <2>3
<1>19. Seek(k, NameStops) = x /\ Between(k, x) = n
  <2>1. NoneOf(n, NameStops)
    BY <1>5, StopsAreSpecial
  <2>2. AtField /\ k \in Nat \ {0} /\ n \in Text /\ ReadsIn(Field, k, n)
    BY <1>1, <1>9, <1>10
  <2> QED
    BY <1>16, <1>18, <2>1, <2>2, TextRead, Zenon
<1>20. NameEnd = x /\ Between(ParamName, NameEnd) = n
  BY <1>15, <1>19 DEF NameEnd
<1> QED
  BY <1>14, <1>15, <1>16, <1>20 DEF a, p, n, k

(* And so is its value, if it has one. *)
LEMMA ValueIsRead ==
  ASSUME NEW es, NEW e, Reading(es, e), NEW j \in 1..Len(es[e].params),
         at \in 1..(Len(Field) + 1),
         Skip(at, Blank) = Skip(ParamAt(es, e, j - 1), Blank)
  PROVE  LET a == ParamAt(es, e, j - 1)  b == ParamAt(es, e, j)  p == es[e].params[j] IN
         /\ p.form = "bare" => ~HasValue /\ EqualSign = Skip(b, Blank)
         /\ p.form # "bare" => HasValue /\ ValueStart = ValueAt(a, p)
         /\ p.form = "token" => /\ ~IsQuoted /\ ValueEnd = b
                                /\ Between(ValueStart, ValueEnd) = p.value
         /\ p.form = "quoted" => IsQuoted
<1> DEFINE a == ParamAt(es, e, j - 1)  b == ParamAt(es, e, j)  p == es[e].params[j]
           g == p.gap  v == ParamValue(p)  x == NameAt(a, p) + Len(p.name)
           bare == p.form = "bare"  token == p.form = "token"  quoted == p.form = "quoted"
<1>1. /\ AtField /\ es \in Seq(Element) /\ Field = Render(es) /\ e \in 1..Len(es) /\ es[e].link
      /\ WellFormed(es[e]) /\ es[e] \in Element
  BY DEF Reading, InField
<1>2. es[e].params \in Seq(Param)
  BY <1>1, ElementType
<1>3. j \in 0..Len(es[e].params)
  BY <1>2
<1>4. p \in Param /\ ReadsIn(Field, a, RenderParam(p)) /\ b = a + Len(RenderParam(p)) /\ a \in Nat \ {0}
  <2>1. j - 1 \in 0..Len(es[e].params)
    BY <1>2
  <2>2. a \in Nat \ {0}
    BY <1>1, <2>1, ParamIsAt
  <2>3. p \in Param /\ ReadsIn(Render(es), a, RenderParam(p))
    BY <1>1, ParamIsAt
  <2>4. b = a + Len(RenderParam(p))
    BY <1>1, ParamIsAt
  <2> HIDE DEF a, b, p
  <2> QED
    BY <1>1, <2>2, <2>3, <2>4
<1>5. IsBlank(g) /\ (token => GoodWord(p.value))
  BY <1>1, WellFormedMeans DEF GoodParam
<1>6. Field \in Text /\ Len(Field) \in Nat
  BY <1>1, FieldIsText
<1>7. (b <= Len(Field) => Field[b] \in ValueStops) /\ ~Holds(Skip(b, Blank), Equals)
  BY <1>3, ParamStops
<1>8. NameEnd = x
  BY NameIsRead
<1> HIDE DEF a, b, p
<1>9. x \in Nat \ {0} /\ b = x + Len(ParamRest(p))
  <2>1. NameAt(a, p) \in Nat \ {0} /\ Len(p.name) \in Nat
    BY <1>4, <1>6, ParamReads
  <2>2. a + Len(RenderParam(p)) = NameAt(a, p) + Len(p.name) + Len(ParamRest(p))
    BY <1>4, <1>6, ParamReads
  <2>3. b = x + Len(ParamRest(p))
    BY <1>4, <2>2
  <2>4. x \in Nat \ {0}
    <3> DEFINE o == NameAt(a, p)  w == Len(p.name)
    <3>1. o \in Nat \ {0} /\ w \in Nat /\ x = o + w
      BY <2>1
    <3> HIDE DEF o, w, x
    <3> QED
      BY <3>1
  <2> QED
    BY <2>3, <2>4
<1>10. g \in Text /\ v \in Text /\ p.form \in {"bare", "token", "quoted"}
  BY <1>4, ParamText
<1>11. ASSUME bare PROVE ~HasValue /\ EqualSign = Skip(b, Blank)
  <2>1. x = b
    <3>1. Len(ParamRest(p)) = 0
      BY <1>11 DEF ParamRest
    <3> HIDE DEF x
    <3> QED
      BY <1>9, <3>1
  <2>2. EqualSign = Skip(b, Blank)
    BY <1>8, <2>1 DEF EqualSign
  <2> QED
    BY <1>7, <2>2 DEF HasValue, Equals
<1>12. ~bare => /\ ReadsIn(Field, x, g)
                /\ Field[x + Len(g)] = Equals /\ x + Len(g) <= Len(Field)
                /\ ReadsIn(Field, x + Len(g) + 1, g) /\ Len(g) \in Nat
                /\ ValueAt(a, p) = x + Len(g) + 1 + Len(g)
                /\ ReadsIn(Field, ValueAt(a, p), v) /\ ValueAt(a, p) \in Nat \ {0}
                /\ b = ValueAt(a, p) + Len(v)
  <2> SUFFICES ASSUME ~bare
               PROVE  /\ ReadsIn(Field, x, g)
                      /\ Field[x + Len(g)] = Equals /\ x + Len(g) <= Len(Field)
                      /\ ReadsIn(Field, x + Len(g) + 1, g) /\ Len(g) \in Nat
                      /\ ValueAt(a, p) = x + Len(g) + 1 + Len(g)
                      /\ ReadsIn(Field, ValueAt(a, p), v) /\ ValueAt(a, p) \in Nat \ {0}
                      /\ b = ValueAt(a, p) + Len(v)
    OBVIOUS
  <2>1. /\ ReadsIn(Field, x, g)
        /\ Field[EqualAt(a, p)] = Equals /\ EqualAt(a, p) <= Len(Field)
        /\ ReadsIn(Field, EqualAt(a, p) + 1, g)
    BY <1>4, <1>6, ValueReads
  <2>2. ReadsIn(Field, ValueAt(a, p), v) /\ ValueAt(a, p) \in Nat \ {0}
    BY <1>4, <1>6, ValueReads
  <2>3. a + Len(RenderParam(p)) = ValueAt(a, p) + Len(v)
    BY <1>4, <1>6, ValueReads
  <2>4. Len(g) \in Nat
    BY <1>10 DEF Text
  <2>5. EqualAt(a, p) = x + Len(g) /\ ValueAt(a, p) = EqualAt(a, p) + 1 + Len(g)
    BY DEF EqualAt, ValueAt
  <2> HIDE DEF x, g, v, bare
  <2>6. ValueAt(a, p) = x + Len(g) + 1 + Len(g)
    BY <2>5
  <2> QED
    BY <1>4, <2>1, <2>2, <2>3, <2>4, <2>5, <2>6
<1> DEFINE k == ValueAt(a, p)  y == x + Len(g) + 1
<1>13. token => v = p.value /\ v # <<>> /\ GoodWord(v)
  <2> SUFFICES ASSUME token PROVE v = p.value /\ v # <<>> /\ GoodWord(v)
    OBVIOUS
  <2>1. v = p.value
    BY DEF ParamValue
  <2>2. GoodWord(v)
    BY <1>5, <2>1
  <2> HIDE DEF v
  <2> QED
    BY <2>1, <2>2 DEF GoodWord
<1>14. quoted => Field[k] = Quote /\ k <= Len(Field)
  <2> SUFFICES ASSUME quoted PROVE Field[k] = Quote /\ k <= Len(Field)
    OBVIOUS
  <2>1. ~bare
    OBVIOUS
  <2> HIDE DEF quoted, bare, x, k, g, v
  <2> QED
    BY <1>4, <1>6, <1>12, <2>1, QuotedReads DEF v, k, quoted
<1>15. (token => ~bare) /\ (quoted => ~bare) /\ (bare \/ token \/ quoted)
  BY <1>10
<1> HIDE DEF g, v, x, bare, token, quoted
<1>16. ~bare => HasValue /\ EqualSign = x + Len(g)
  <2> SUFFICES ASSUME ~bare PROVE HasValue /\ EqualSign = x + Len(g)
    OBVIOUS
  <2> DEFINE m == x + Len(g)
  <2>1. m = x + Len(g) /\ Field[m] = Equals /\ m <= Len(Field) /\ Field[m] \notin Blank
    BY <1>12, SpecialMarks
  <2> HIDE DEF m
  <2>2. AtField /\ x \in Nat \ {0} /\ g \in Text /\ ReadsIn(Field, x, g) /\ IsBlank(g)
    BY <1>1, <1>5, <1>9, <1>10, <1>12
  <2>3. Skip(x, Blank) = m
    BY <2>1, <2>2, GapSkipped, Zenon
  <2>4. EqualSign = m
    BY <1>8, <2>3 DEF EqualSign
  <2>5. HasValue
    BY <2>1, <2>4 DEF HasValue, Holds, Equals
  <2> QED
    BY <2>1, <2>4, <2>5
<1>17. token => Field[k] = v[1] /\ v[1] \notin Blank /\ v[1] \notin Specials
  <2> SUFFICES ASSUME token PROVE Field[k] = v[1] /\ v[1] \notin Blank /\ v[1] \notin Specials
    OBVIOUS
  <2>1. GoodWord(v) /\ ReadsIn(Field, k, v) /\ k \in Nat \ {0}
    BY <1>12, <1>13, <1>15
  <2>2. Len(v) > 0 /\ 1 \in 1..Len(v)
    <3>1. Len(v) \in Nat
      BY <1>10 DEF Text
    <3> QED
      BY <2>1, <3>1 DEF GoodWord
  <2> HIDE DEF k
  <2>3. Field[k] = v[1]
    BY <1>6, <1>10, <2>1, <2>2, ReadsFirst
  <2> QED
    BY <2>1, <2>2, <2>3 DEF GoodWord, NoneOf
<1>18. ~bare => Field[k] \notin Blank
  BY <1>14, <1>15, <1>17, SpecialMarks, MarksAreSymbols DEF Quote
<1>19. ~bare => ValueStart = k
  <2> SUFFICES ASSUME ~bare PROVE ValueStart = k
    OBVIOUS
  <2>1. y \in Nat \ {0}
    BY <1>9, <1>12
  <2>2. y = x + Len(g) + 1 /\ ReadsIn(Field, y, g) /\ k = y + Len(g)
    BY <1>12
  <2> HIDE DEF y, k
  <2>3. AtField /\ g \in Text /\ IsBlank(g) /\ Field[k] \notin Blank
    BY <1>1, <1>5, <1>10, <1>18
  <2>4. Skip(y, Blank) = k
    BY <2>1, <2>2, <2>3, GapSkipped, Zenon
  <2> QED
    BY <1>16, <2>2, <2>4 DEF ValueStart
<1>20. token => ~IsQuoted /\ ValueEnd = b /\ Between(ValueStart, ValueEnd) = p.value
  <2> SUFFICES ASSUME token PROVE ~IsQuoted /\ ValueEnd = b /\ Between(ValueStart, ValueEnd) = p.value
    OBVIOUS
  <2>1. ValueStart = k /\ b = k + Len(v) /\ ReadsIn(Field, k, v) /\ k \in Nat \ {0}
    BY <1>12, <1>15, <1>19
  <2>2. AtField /\ v \in Text /\ NoneOf(v, ValueStops)
    BY <1>1, <1>10, <1>13, StopsAreSpecial
  <2> HIDE DEF k
  <2>3. Seek(k, ValueStops) = b /\ Between(k, b) = v
    BY <1>7, <2>1, <2>2, TextRead, Zenon
  <2>4. Field[k] # Quote
    BY <1>17, SpecialMarks DEF k
  <2>5. ~IsQuoted
    BY <2>1, <2>4 DEF IsQuoted, Holds, Quote
  <2>6. ValueEnd = b
    BY <2>1, <2>3 DEF ValueEnd
  <2> QED
    BY <1>13, <2>1, <2>3, <2>5, <2>6
<1>21. quoted => IsQuoted
  BY <1>14, <1>15, <1>19 DEF IsQuoted, Holds, Quote
<1> QED
  BY <1>11, <1>16, <1>19, <1>20, <1>21 DEF a, b, p, bare, token, quoted

-----------------------------------------------------------------------------
(* Where the next link or junk is found.                                    *)
LEMMA LinkIsLong ==
  ASSUME NEW es \in Seq(Element), NEW e \in 1..Len(es), es[e].link
  PROVE  /\ Body(es, e) < Begin(es, e + 1) /\ Body(es, e) <= Len(Render(es))
         /\ Begin(es, e) <= Body(es, e) /\ Render(es)[Body(es, e)] = Opening
<1> DEFINE x == es[e]  s == ParamTexts(x)  k == Params(es, e)  n == Len(x.params)
<1>1. Body(es, e) \in Nat /\ Begin(es, e) <= Body(es, e)
  BY ElementIsAt
<1>2. /\ Render(es)[Body(es, e)] = Opening /\ Body(es, e) <= Len(Render(es))
      /\ Len(x.target) \in Nat /\ Len(x.tail) \in Nat
      /\ Begin(es, e + 1) = ParamAt(es, e, n) + Len(x.tail)
  BY LinkIsAt
<1>3. s \in Seq(Seq(Symbol)) /\ Len(s) = n
  BY ElementType DEF Text
<1>4. Len(FlatTo(s, n)) \in Nat
  <2>1. n \in 0..Len(s)
    BY <1>3
  <2>2. FlatTo(s, n) \in Seq(Symbol)
    BY <1>3, <2>1, FlatToIsSeq
  <2> QED
    BY <2>2
<1>5. k = Body(es, e) + Len(x.target) + 2 /\ ParamAt(es, e, n) = k + Len(FlatTo(s, n))
  BY DEF Params, ParamAt
<1>6. Body(es, e) < Begin(es, e + 1)
  <2> DEFINE u == Len(FlatTo(s, n))  b == Body(es, e)  g == Len(x.target)  z == Len(x.tail)
             w == Begin(es, e + 1)  a == ParamAt(es, e, n)
  <2>1. b \in Nat /\ u \in Nat /\ g \in Nat /\ z \in Nat /\ w = a + z /\ a = k + u /\ k = b + g + 2
    BY <1>1, <1>2, <1>4, <1>5
  <2> HIDE DEF u, b, g, z, w, a, k
  <2>2. b < w
    BY <2>1
  <2> QED
    BY <2>2 DEF b, w
<1> QED
  BY <1>1, <1>2, <1>6

NoLinks(es, a, b) == \A i \in a..b : ~es[i].link

LEMMA LinkStartPlace ==
  ASSUME NEW es, InField(es), \A i \in 1..Len(es) : WellFormed(es[i]),
         NEW e \in 1..(Len(es) + 1), at = Begin(es, e)
  PROVE  \/ LinkStart = Len(Field) + 1 /\ NoLinks(es, e, Len(es))
         \/ \E n \in e..Len(es) :
              /\ NoLinks(es, e, n - 1)
              /\ LinkStart \in 1..Len(Field)
              /\ es[n].link => LinkStart = Body(es, n)
              /\ ~es[n].link => /\ Field[LinkStart] # Opening
                                /\ NextComma(LinkStart) = Begin(es, n + 1)
<1> DEFINE q == LinkStart  S == Blank \cup {","}
<1>1. AtField /\ es \in Seq(Element) /\ Field = Render(es) /\ Field \in Text /\ Len(Field) \in Nat
      /\ Len(es) \in Nat
  BY FieldIsText DEF InField
<1>2. at \in 1..(Len(Field) + 1)
  BY <1>1, FieldBounds
<1>3. /\ q \in at..(Len(Field) + 1)
      /\ q <= Len(Field) => Field[q] \notin S
      /\ \A j \in at..(q - 1) : Field[j] \in S
  BY <1>1, <1>2, SkipFinds DEF LinkStart
<1>4. Opening \notin S /\ CommaMark \in S /\ Comma = {CommaMark}
  BY DEF Opening, Blank, CommaMark, Comma
<1> HIDE DEF q, S
<1>5. ASSUME NEW i \in e..Len(es), es[i].link
      PROVE  q <= Body(es, i) /\ Body(es, i) < Begin(es, i + 1) /\ Body(es, i) <= Len(Field)
             /\ Body(es, i) \in Nat
  <2>0. i \in 1..Len(es) /\ e <= i /\ i \in 1..(Len(es) + 1)
    BY <1>1
  <2>1. /\ Body(es, i) < Begin(es, i + 1) /\ Body(es, i) <= Len(Field)
        /\ Begin(es, i) <= Body(es, i) /\ Field[Body(es, i)] = Opening
    BY <1>1, <1>5, <2>0, LinkIsLong
  <2>2. at <= Begin(es, i) /\ Begin(es, i) \in Nat
    BY <1>1, <2>0, FieldBounds
  <2>3. Body(es, i) \in Nat
    BY <1>1, <2>0, ElementIsAt
  <2>4. ~(Body(es, i) < q)
    <3> SUFFICES ASSUME Body(es, i) < q PROVE FALSE
      OBVIOUS
    <3>1. Body(es, i) \in at..(q - 1)
      BY <1>2, <1>3, <2>1, <2>2, <2>3
    <3> QED
      BY <1>3, <1>4, <2>1, <3>1
  <2>5. q <= Body(es, i)
    BY <1>2, <1>3, <2>3, <2>4
  <2> QED
    BY <2>1, <2>3, <2>5
<1>6. CASE q = Len(Field) + 1
  <2>1. NoLinks(es, e, Len(es))
    BY <1>1, <1>5, <1>6 DEF NoLinks
  <2> QED
    BY <1>6, <2>1 DEF q
<1>7. CASE q # Len(Field) + 1
  <2>1. q \in 1..Len(Field)
    BY <1>1, <1>2, <1>3, <1>7
  <2>2. PICK n \in 1..Len(es) : Begin(es, n) <= q /\ q < Begin(es, n + 1)
    <3>1. Parts(es) \in Seq(Seq(Symbol)) /\ Len(Parts(es)) = Len(es) /\ Field = FlattenSeq(Parts(es))
      BY <1>1, RenderType DEF Text
    <3>2. PICK n \in 1..Len(Parts(es)) : /\ Len(FlatTo(Parts(es), n - 1)) < q
                                         /\ q <= Len(FlatTo(Parts(es), n))
      BY <2>1, <3>1, PlaceIsInPart
    <3>3. n \in 1..Len(es) /\ n \in 1..(Len(es) + 1) /\ n + 1 \in 1..(Len(es) + 1) /\ (n + 1) - 1 = n
      BY <1>1, <3>1, <3>2
    <3>4. Begin(es, n) = 1 + Len(FlatTo(Parts(es), n - 1))
      BY DEF Begin
    <3>5. Begin(es, n + 1) = 1 + Len(FlatTo(Parts(es), n))
      BY <3>3 DEF Begin
    <3>6. Len(FlatTo(Parts(es), n - 1)) \in Nat /\ Len(FlatTo(Parts(es), n)) \in Nat
      <4>1. n - 1 \in 0..Len(Parts(es)) /\ n \in 0..Len(Parts(es))
        BY <3>1, <3>3
      <4> QED
        BY <3>1, <4>1, FlatToIsSeq
    <3>7. Begin(es, n) <= q /\ q < Begin(es, n + 1)
      BY <2>1, <3>2, <3>4, <3>5, <3>6
    <3> QED
      BY <3>3, <3>7
  <2>3. n \in 1..(Len(es) + 1) /\ n + 1 \in 1..(Len(es) + 1)
    BY <1>1
  <2>4. Begin(es, n) \in Nat /\ Begin(es, n + 1) \in Nat
    BY <1>1, <2>3, FieldBounds
  <2>5. e <= n
    <3> SUFFICES ASSUME ~(e <= n) PROVE FALSE
      OBVIOUS
    <3>1. n + 1 <= e
      BY <1>1
    <3>2. Begin(es, n + 1) <= at
      BY <1>1, <2>3, <3>1, FieldBounds
    <3> QED
      BY <1>2, <1>3, <2>2, <2>4, <3>2
  <2>6. n \in e..Len(es)
    BY <1>1, <2>5
  <2>7. NoLinks(es, e, n - 1)
    <3> SUFFICES ASSUME NEW i \in e..(n - 1), es[i].link PROVE FALSE
      BY DEF NoLinks
    <3>1. i \in e..Len(es) /\ i + 1 <= n /\ i + 1 \in 1..(Len(es) + 1)
      BY <1>1, <2>6
    <3>2. q <= Body(es, i) /\ Body(es, i) < Begin(es, i + 1) /\ Body(es, i) \in Nat
      BY <1>5, <3>1
    <3>3. Begin(es, i + 1) <= Begin(es, n) /\ Begin(es, i + 1) \in Nat
      BY <1>1, <2>3, <3>1, FieldBounds, SMTT(30)
    <3> QED
      BY <2>1, <2>2, <2>4, <3>2, <3>3
  <2>8. Body(es, n) <= q
    <3>1. /\ Begin(es, n) <= Body(es, n) /\ Body(es, n) \in Nat
          /\ Body(es, n) <= Begin(es, n) + 1
      BY <1>1, ElementIsAt
    <3>2. CASE Body(es, n) = Begin(es, n)
      BY <2>2, <3>2
    <3>3. CASE Body(es, n) # Begin(es, n)
      <4>1. n # 1
        BY <3>3 DEF Body
      <4>2. Field[Begin(es, n)] = CommaMark
        BY <1>1, <4>1, ElementIsAt DEF CommaMark
      <4>3. q # Begin(es, n)
        BY <1>3, <1>4, <2>1, <4>2
      <4> QED
        BY <2>1, <2>2, <2>4, <3>1, <4>3
    <3> QED
      BY <3>2, <3>3
  <2>9. Body(es, n) \in Nat \ {0}
    BY <1>1, ElementIsAt
  <2>10. ASSUME es[n].link PROVE q = Body(es, n)
    <3>1. q <= Body(es, n)
      BY <1>5, <2>6, <2>10
    <3> QED
      BY <2>1, <2>8, <2>9, <3>1
  <2>11. ASSUME ~es[n].link PROVE Field[q] # Opening /\ NextComma(q) = Begin(es, n + 1)
    <3> DEFINE x == es[n].junk  k == Body(es, n)  m == Begin(es, n + 1)
    <3>1. es[n] \in Element /\ x \in Text /\ RenderElement(es[n]) = x
      <4>1. es[n] \in Element
        BY <1>1
      <4>2. RenderElement(es[n]) = x
        BY <2>11 DEF RenderElement
      <4> QED
        BY <2>11, <4>1, <4>2, ElementType
    <3>2. NoneOf(x, Comma) /\ NoneOf(x, {Opening})
      BY <2>11, <3>1, WellFormedMeans
    <3>3. ReadsIn(Field, k, x) /\ m = k + Len(x) /\ Len(x) \in Nat
      <4>1. Len(x) \in Nat
        BY <3>1 DEF Text
      <4>2. /\ ReadsIn(Render(es), k, RenderElement(es[n]))
            /\ m = k + Len(RenderElement(es[n]))
        BY <1>1, ElementIsAt
      <4> HIDE DEF x, k, m
      <4> QED
        BY <1>1, <3>1, <4>1, <4>2
    <3>4. m \in 1..(Len(Field) + 1) /\ (m <= Len(Field) => Field[m] = CommaMark)
      BY AfterElement
    <3>5. k \in Nat \ {0} /\ k <= q /\ q < m
      BY <2>2, <2>8, <2>9
    <3> HIDE DEF x, k, m
    <3>6. ASSUME NEW i \in q..(m - 1) PROVE Field[i] \notin Comma /\ Field[i] # Opening
      <4>1. i \in k..(k + Len(x) - 1)
        BY <2>1, <3>3, <3>4, <3>5
      <4>2. i - k + 1 \in 1..Len(x) /\ Field[i] = x[i - k + 1]
        BY <1>1, <3>1, <3>3, <3>5, <4>1, ReadsPlace
      <4> QED
        BY <3>2, <4>2 DEF NoneOf
    <3>7. q \in q..(m - 1) /\ m \in q..(Len(Field) + 1) /\ q \in 1..(Len(Field) + 1)
      BY <1>1, <2>1, <3>4, <3>5
    <3>8. m > Len(Field) \/ Field[m] \in Comma
      BY <1>1, <1>4, <3>4
    <3>9. NextComma(q) = m
      BY <1>1, <3>6, <3>7, <3>8, SeekIs DEF NextComma
    <3> QED
      BY <3>6, <3>7, <3>9 DEF m
  <2> QED
    BY <2>1, <2>6, <2>7, <2>10, <2>11 DEF q
<1> QED
  BY <1>6, <1>7

-----------------------------------------------------------------------------
(* What the targets found so far are.                                       *)
Meants(es) == [k \in DOMAIN es |-> IF Points(es[k]) THEN <<es[k].target>> ELSE <<>>]
MeantAll(p) == [n \in DOMAIN p.fields |-> Meant(p.fields[n])]

(* What is meant before element e of field n. *)
Before(p, n, e) == Cat(FlatTo(MeantAll(p), n - 1), FlatTo(Meants(p.fields[n]), e - 1))

Fine(p) == \A n \in DOMAIN p.fields : \A k \in DOMAIN p.fields[n] : WellFormed(p.fields[n][k])

LEMMA MeantsType ==
  ASSUME NEW es \in Seq(Element)
  PROVE  /\ Meants(es) \in Seq(Seq(Text)) /\ Len(Meants(es)) = Len(es)
         /\ Meant(es) = FlattenSeq(Meants(es)) /\ Meant(es) \in Seq(Text)
<1> DEFINE Piece(k) == IF Points(es[k]) THEN <<es[k].target>> ELSE <<>>
<1>1. ASSUME NEW k \in 1..Len(es) PROVE Piece(k) \in Seq(Text)
  <2>1. CASE Points(es[k])
    <3>1. es[k].target \in Text
      BY <2>1, ElementType DEF Points
    <3>2. <<es[k].target>> \in Seq(Text)
      BY <3>1, OneIsSeq
    <3> QED
      BY <2>1, <3>2
  <2>2. CASE ~Points(es[k])
    BY <2>2
  <2> QED
    BY <2>1, <2>2
<1>2. Meants(es) \in Seq(Seq(Text)) /\ Len(Meants(es)) = Len(es)
  <2>1. Meants(es) = [k \in 1..Len(es) |-> Piece(k)]
    BY DEF Meants
  <2> HIDE DEF Piece
  <2> QED
    BY <1>1, <2>1
<1>3. Meant(es) = FlattenSeq(Meants(es))
  BY DEF Meant, Meants
<1> QED
  BY <1>2, <1>3, FlattenType

LEMMA MeantAllType ==
  ASSUME NEW p \in Page
  PROVE  /\ p.fields \in Seq(Seq(Element))
         /\ MeantAll(p) \in Seq(Seq(Text)) /\ Len(MeantAll(p)) = Len(p.fields)
         /\ \A n \in 1..Len(p.fields) : MeantAll(p)[n] = Meant(p.fields[n])
<1>1. p.fields \in Seq(Seq(Element))
  BY DEF Page
<1>2. \A n \in 1..Len(p.fields) : Meant(p.fields[n]) \in Seq(Text)
  BY <1>1, MeantsType
<1>3. MeantAll(p) = [n \in 1..Len(p.fields) |-> Meant(p.fields[n])]
  BY <1>1 DEF MeantAll
<1> QED
  BY <1>1, <1>2, <1>3

LEMMA CatLists ==
  ASSUME NEW x \in Seq(Text), NEW y \in Seq(Text), NEW z \in Text
  PROVE  /\ Cat(x, y) \in Seq(Text) /\ Cat(x, <<>>) = x /\ Cat(<<>>, x) = x
         /\ Cat(Cat(x, y), <<z>>) = Cat(x, Cat(y, <<z>>))
         /\ Append(x, z) = Cat(x, <<z>>)
<1>1. <<z>> \in Seq(Text)
  BY OneIsSeq
<1>2. Cat(x, y) \in Seq(Text)
  BY ConcatProperties DEF Cat
<1>3. Cat(x, <<>>) = x /\ Cat(<<>>, x) = x
  BY ConcatEmptySeq DEF Cat
<1>4. Cat(Cat(x, y), <<z>>) = Cat(x, Cat(y, <<z>>))
  BY <1>1, ConcatAssociative DEF Cat
<1>5. Append(x, z) = Cat(x, <<z>>)
  BY AppendIsConcat DEF Cat
<1> QED
  BY <1>2, <1>3, <1>4, <1>5

(* What an element points to is text. *)
LEMMA PointedIsText ==
  ASSUME NEW e \in Element, Points(e)
  PROVE  e.target \in Text
<1>1. e.link
  BY DEF Points
<1> QED
  BY <1>1, ElementType

(* An element that points nowhere adds nothing; one that does, its target. *)
LEMMA BeforeNext ==
  ASSUME NEW p \in Page, NEW n \in 1..Len(p.fields), NEW e \in 1..Len(p.fields[n])
  PROVE  Before(p, n, e + 1) = IF Points(p.fields[n][e]) THEN Append(Before(p, n, e), p.fields[n][e].target)
                               ELSE Before(p, n, e)
<1> DEFINE es == p.fields[n]  s == Meants(es)  x == FlatTo(MeantAll(p), n - 1)  y == FlatTo(s, e - 1)
           g == es[e].target
<1>1. es \in Seq(Element) /\ MeantAll(p) \in Seq(Seq(Text)) /\ Len(MeantAll(p)) = Len(p.fields)
  BY MeantAllType
<1>2. s \in Seq(Seq(Text)) /\ Len(s) = Len(es)
  BY <1>1, MeantsType
<1>3. s[e] = IF Points(es[e]) THEN <<g>> ELSE <<>>
  <2> DEFINE Piece(k) == IF Points(es[k]) THEN <<es[k].target>> ELSE <<>>
  <2>1. s = [k \in 1..Len(es) |-> Piece(k)]
    BY <1>1 DEF Meants
  <2>2. s[e] = Piece(e)
    <3> HIDE DEF Piece, s
    <3> QED
      BY <2>1
  <2> QED
    BY <2>2
<1>4. Before(p, n, e) = Cat(x, y)
  BY DEF Before
<1>5. (e + 1) - 1 = e
  OBVIOUS
<1>6. Before(p, n, e + 1) = Cat(x, FlatTo(s, e))
  BY <1>5 DEF Before
<1>7. x \in Seq(Text)
  <2>1. n - 1 \in 0..Len(MeantAll(p))
    <3>1. Len(p.fields) \in Nat
      BY MeantAllType
    <3> QED
      BY <1>1, <3>1
  <2> QED
    BY <1>1, <2>1, FlatToIsSeq
<1>8. y \in Seq(Text) /\ e \in 1..Len(s)
  <2>1. e - 1 \in 0..Len(s) /\ e \in 1..Len(s)
    BY <1>1, <1>2
  <2> QED
    BY <1>2, <2>1, FlatToIsSeq
<1>9. FlatTo(s, e) = Cat(y, s[e])
  BY <1>2, <1>8, FlatToSteps DEF Cat
<1>10. Points(es[e]) => g \in Text
  <2>1. es[e] \in Element
    <3> HIDE DEF es
    <3> QED
      BY <1>1, <1>2, <1>8
  <2> QED
    BY <2>1, PointedIsText
<1> HIDE DEF es, s, x, y, g
<1>11. CASE Points(es[e])
  <2>1. /\ Cat(x, FlatTo(s, e)) = Cat(x, Cat(y, <<g>>))
        /\ g \in Text
    BY <1>3, <1>9, <1>10, <1>11
  <2>2. Cat(x, y) \in Seq(Text) /\ Cat(Cat(x, y), <<g>>) = Cat(x, Cat(y, <<g>>))
    BY <1>7, <1>8, <2>1, CatLists
  <2>3. Append(Cat(x, y), g) = Cat(Cat(x, y), <<g>>)
    BY <2>1, <2>2, CatLists
  <2> QED
    BY <1>4, <1>6, <1>11, <2>1, <2>2, <2>3 DEF g, es
<1>12. CASE ~Points(es[e])
  <2>1. <<>> \in Text
    BY MarksAreSymbols
  <2>2. Cat(y, <<>>) = y
    BY <1>8, <2>1, CatLists
  <2>3. Cat(x, FlatTo(s, e)) = Cat(x, y)
    BY <1>3, <1>9, <1>12, <2>2
  <2> QED
    BY <1>4, <1>6, <1>12, <2>3 DEF es
<1> QED
  BY <1>11, <1>12

LEMMA BeforeStays ==
  ASSUME NEW p \in Page, NEW n \in 1..Len(p.fields), NEW e \in 1..(Len(p.fields[n]) + 1),
         NEW d \in e..(Len(p.fields[n]) + 1), NoLinks(p.fields[n], e, d - 1)
  PROVE  Before(p, n, d) = Before(p, n, e)
<1> DEFINE es == p.fields[n]
           T == {i \in Nat : e + i <= d => Before(p, n, e + i) = Before(p, n, e)}
<1>1. es \in Seq(Element) /\ Len(es) \in Nat
  BY MeantAllType
<1>2. 0 \in T
  BY <1>1
<1>3. ASSUME NEW i \in Nat, i \in T PROVE i + 1 \in T
  <2> SUFFICES ASSUME e + (i + 1) <= d PROVE Before(p, n, e + (i + 1)) = Before(p, n, e)
    OBVIOUS
  <2> DEFINE k == e + i
  <2>1. k \in 1..Len(es) /\ k \in e..(d - 1) /\ k + 1 = e + (i + 1) /\ Before(p, n, k) = Before(p, n, e)
    <3>1. e \in Nat \ {0} /\ d \in Nat /\ d <= Len(es) + 1
      BY <1>1
    <3>2. k \in Nat /\ k + 1 = e + (i + 1) /\ k >= e /\ k + 1 <= d /\ k <= d
      BY <3>1
    <3>3. Before(p, n, k) = Before(p, n, e)
      BY <1>3, <3>2
    <3> HIDE DEF k, es
    <3> QED
      BY <1>1, <3>1, <3>2, <3>3
  <2>2. ~Points(es[k])
    BY <2>1 DEF NoLinks, Points
  <2> HIDE DEF k
  <2>3. Before(p, n, k + 1) = Before(p, n, k)
    BY <2>1, <2>2, BeforeNext
  <2> QED
    BY <2>1, <2>3
<1> HIDE DEF T
<1>4. \A i \in Nat : i \in T
  BY <1>2, <1>3, Induction
<1>5. d - e \in Nat /\ e + (d - e) = d /\ d <= d
  BY <1>1
<1>6. d - e \in T
  BY <1>4, <1>5
<1> QED
  BY <1>5, <1>6 DEF T

(* A field's end is the beginning of the next, or of all. *)
LEMMA BeforeFields ==
  ASSUME NEW p \in Page, NEW n \in 1..Len(p.fields)
  PROVE  /\ n + 1 \in 1..Len(p.fields) => Before(p, n + 1, 1) = Before(p, n, Len(p.fields[n]) + 1)
         /\ n = Len(p.fields) => FlattenSeq(MeantAll(p)) = Before(p, n, Len(p.fields[n]) + 1)
         /\ n = 1 => Before(p, n, 1) = <<>>
<1> DEFINE es == p.fields[n]  s == Meants(es)  al == MeantAll(p)  x == FlatTo(al, n - 1)
<1>1. /\ p.fields \in Seq(Seq(Element)) /\ es \in Seq(Element) /\ al \in Seq(Seq(Text))
      /\ Len(al) = Len(p.fields) /\ al[n] = Meant(es) /\ Len(es) \in Nat /\ Len(al) \in Nat
  BY MeantAllType
<1>2. s \in Seq(Seq(Text)) /\ Len(s) = Len(es) /\ Meant(es) = FlattenSeq(s) /\ Meant(es) \in Seq(Text)
  BY <1>1, MeantsType
<1>3. FlatTo(s, Len(es)) = Meant(es)
  <2>1. FlatTo(s, Len(s)) = FlattenSeq(s)
    BY <1>2, FlatToSteps
  <2> QED
    BY <1>2, <2>1
<1>4. Before(p, n, Len(es) + 1) = Cat(x, Meant(es))
  <2>1. (Len(es) + 1) - 1 = Len(es)
    BY <1>1
  <2> QED
    BY <1>3, <2>1 DEF Before
<1>5. n \in 1..Len(al) /\ n - 1 \in 0..Len(al) /\ n \in 0..Len(al)
  BY <1>1
<1>6. FlatTo(al, n) = Cat(x, Meant(es))
  BY <1>1, <1>5, FlatToSteps DEF Cat
<1>7. FlatTo(al, n) \in Seq(Text) /\ <<>> \in Text
  BY <1>1, <1>5, FlatToIsSeq, MarksAreSymbols
<1>8. ASSUME NEW m \in 1..Len(p.fields) PROVE Before(p, m, 1) = FlatTo(al, m - 1)
  <2>1. Meants(p.fields[m]) \in Seq(Seq(Text))
    <3>1. p.fields[m] \in Seq(Element)
      BY MeantAllType
    <3> QED
      BY <3>1, MeantsType
  <2>2. FlatTo(Meants(p.fields[m]), 0) = <<>>
    BY <2>1, FlatToSteps
  <2>3. m - 1 \in 0..Len(al)
    BY <1>1
  <2>4. FlatTo(al, m - 1) \in Seq(Text)
    BY <1>1, <2>3, FlatToIsSeq
  <2>5. Cat(FlatTo(al, m - 1), <<>>) = FlatTo(al, m - 1)
    BY <1>7, <2>4, CatLists
  <2> QED
    BY <2>2, <2>5 DEF Before
<1>9. ASSUME n + 1 \in 1..Len(p.fields) PROVE Before(p, n + 1, 1) = Before(p, n, Len(es) + 1)
  <2>1. (n + 1) - 1 = n
    BY <1>1
  <2> QED
    BY <1>4, <1>6, <1>8, <1>9, <2>1
<1>10. ASSUME n = Len(p.fields) PROVE FlattenSeq(al) = Before(p, n, Len(es) + 1)
  <2>1. FlatTo(al, Len(al)) = FlattenSeq(al)
    BY <1>1, FlatToSteps
  <2> QED
    BY <1>1, <1>4, <1>6, <1>10, <2>1
<1>11. ASSUME n = 1 PROVE Before(p, n, 1) = <<>>
  <2>1. FlatTo(al, 0) = <<>>
    BY <1>1, FlatToSteps
  <2>2. n - 1 = 0
    BY <1>11
  <2> QED
    BY <1>8, <2>1, <2>2
<1> QED
  BY <1>9, <1>10, <1>11

-----------------------------------------------------------------------------
(* What a link's parameters say, as the parser keeps them.                  *)
Said(p)      == [name |-> p.name, value |-> IF p.form = "bare" THEN <<>> ELSE p.value]
SaidTo(x, j) == [i \in 1..j |-> Said(x.params[i])]

LEMMA TrimsNothing ==
  ASSUME NEW x \in Text, NoneOf(x, Blank)
  PROVE  TrimSpace(x) = x
<1> DEFINE kept == {k \in DOMAIN x : x[k] \notin Blank}
<1>1. x \in Seq(Symbol) /\ DOMAIN x = 1..Len(x) /\ Len(x) \in Nat
  BY DEF Text
<1>2. kept = 1..Len(x)
  BY <1>1 DEF NoneOf
<1>3. TrimSpace(x) = IF kept = {} THEN <<>> ELSE SubSeq(x, Min(kept), Max(kept))
  BY DEF TrimSpace
<1> HIDE DEF kept
<1>4. CASE Len(x) = 0
  <2>1. kept = {} /\ x = <<>>
    BY <1>1, <1>2, <1>4
  <2> QED
    BY <1>3, <2>1
<1>5. CASE Len(x) # 0
  <2>1. 1 \in kept /\ Len(x) \in kept /\ kept \subseteq Nat /\ kept \subseteq 1..Len(x)
    BY <1>1, <1>2, <1>5
  <2>2. Min(kept) \in kept /\ \A k \in kept : Min(kept) <= k
    BY <2>1, MinIsLeast
  <2>3. Max(kept) \in kept /\ \A k \in kept : k <= Max(kept)
    BY <1>1, <2>1, MaxIsGreatest
  <2>4. Min(kept) = 1
    <3> DEFINE m == Min(kept)
    <3>1. m \in kept /\ m <= 1
      BY <2>1, <2>2
    <3> HIDE DEF m
    <3>2. m = 1
      BY <1>1, <1>2, <3>1
    <3> QED
      BY <3>2 DEF m
  <2>5. Max(kept) = Len(x)
    <3> DEFINE m == Max(kept)
               n == Len(x)
    <3>1. m \in 1..n /\ n <= m /\ n \in Nat
      BY <1>1, <1>2, <2>1, <2>3
    <3> HIDE DEF m, n
    <3>2. m = n
      BY <3>1
    <3> QED
      BY <3>2 DEF m, n
  <2>6. SubSeq(x, 1, Len(x)) = x
    BY <1>1, SubSeqFull
  <2> QED
    BY <1>3, <2>1, <2>4, <2>5, <2>6
<1> QED
  BY <1>4, <1>5

LEMMA SaidAppend ==
  ASSUME NEW x, NEW j \in Nat \ {0}
  PROVE  Append(SaidTo(x, j - 1), Said(x.params[j])) = SaidTo(x, j)
<1> DEFINE F(i) == Said(x.params[i])  u == [i \in 1..(j - 1) |-> F(i)]  v == [i \in 1..j |-> F(i)]
           S == {F(i) : i \in 1..j}
<1> HIDE DEF F
<1>1. \A i \in 1..j : F(i) \in S
  OBVIOUS
<1> HIDE DEF S
<1>2. u \in Seq(S) /\ Len(u) = j - 1
  BY <1>1
<1>3. v \in Seq(S) /\ Len(v) = j
  BY <1>1
<1>4. j \in 1..j
  OBVIOUS
<1>5. F(j) \in S
  BY <1>1, <1>4
<1> DEFINE w == Append(u, F(j))
<1>6. \A i \in 1..(j - 1) : u[i] = F(i)
  OBVIOUS
<1>7. \A i \in 1..j : v[i] = F(i)
  OBVIOUS
<1> HIDE DEF u, v
<1>8. /\ w \in Seq(S) /\ Len(w) = (j - 1) + 1
      /\ w[(j - 1) + 1] = F(j) /\ \A i \in 1..(j - 1) : w[i] = u[i]
  BY <1>2, <1>5, AppendProperties
<1> HIDE DEF w
<1>9. Len(w) = j /\ w[j] = F(j)
  <2>1. (j - 1) + 1 = j
    OBVIOUS
  <2> QED
    BY <1>8, <2>1
<1>10. ASSUME NEW i \in 1..j PROVE w[i] = v[i]
  <2>1. CASE i = j
    BY <1>7, <1>9, <2>1
  <2>2. CASE i # j
    <3>1. i \in 1..(j - 1)
      BY <2>2
    <3> QED
      BY <1>6, <1>7, <1>8, <3>1
  <2> QED
    BY <2>1, <2>2
<1>11. w = v
  BY <1>3, <1>8, <1>9, <1>10, SeqEqual
<1> QED
  BY <1>11 DEF w, u, v, F, SaidTo

LEMMA SaidRelation ==
  ASSUME NEW x \in Element, x.link
  PROVE  hasLinkRelation(SaidTo(x, Len(x.params))) <=> Points(x)
<1> DEFINE ps == x.params  n == Len(ps)  ss == SaidTo(x, n)
           rel == <<"rel">>  anchor == <<"anchor">>
           rels == Named(ss, rel)
           W(v) == HasWord(v, LinkRelation)
<1>1. ps \in Seq(Param) /\ n \in Nat /\ DOMAIN ps = 1..n
  BY ElementType
<1>2. DOMAIN ss = 1..n /\ \A k \in 1..n : ss[k] = Said(ps[k])
  BY DEF SaidTo
<1>3. \A k \in 1..n : /\ ss[k].name = ps[k].name
                      /\ ps[k].form # "bare" => ss[k].value = ps[k].value
                      /\ ps[k].form = "bare" => ss[k].value = <<>>
  <2> SUFFICES ASSUME NEW k \in 1..n
               PROVE  /\ ss[k].name = ps[k].name
                      /\ ps[k].form # "bare" => ss[k].value = ps[k].value
                      /\ ps[k].form = "bare" => ss[k].value = <<>>
    OBVIOUS
  <2> DEFINE p == ps[k]
  <2>1. ss[k] = Said(p)
    BY <1>2
  <2>2. Said(p).name = p.name /\ Said(p).value = IF p.form = "bare" THEN <<>> ELSE p.value
    BY DEF Said
  <2> HIDE DEF ss, p
  <2>3. /\ ss[k].name = p.name
        /\ p.form # "bare" => ss[k].value = p.value
        /\ p.form = "bare" => ss[k].value = <<>>
    BY <2>1, <2>2, Zenon
  <2> QED
    BY <2>3 DEF p
<1>4. ~W(<<>>)
  BY DEF HasWord
<1> DEFINE bare(k) == ps[k].form = "bare"
<1>5. Points(x) <=> /\ \A k \in 1..n : ps[k].name # anchor
                    /\ \E k \in 1..n : /\ ps[k].name = rel
                                       /\ \A j \in 1..(k - 1) : ps[j].name # rel
                                       /\ ~bare(k)
                                       /\ W(ps[k].value)
  BY <1>1 DEF Points
<1>6. hasLinkRelation(ss) <=> /\ rels # {} /\ W(ss[Min(rels)].value)
                              /\ Named(ss, anchor) = {}
  BY DEF hasLinkRelation
<1>7. \A k \in 1..n : /\ ss[k].name = ps[k].name
                      /\ ~bare(k) => ss[k].value = ps[k].value
                      /\ bare(k) => ss[k].value = <<>>
  BY <1>3
<1>8. \A m : Named(ss, m) = {k \in 1..n : ss[k].name = m}
  BY <1>2 DEF Named
<1> HIDE DEF bare, W, rel, anchor, ps, ss, n
<1>9. Named(ss, anchor) = {} <=> \A k \in 1..n : ps[k].name # anchor
  BY <1>7, <1>8
<1>10. rels = {k \in 1..n : ps[k].name = rel} /\ rels \subseteq Nat
  BY <1>7, <1>8
<1> HIDE DEF rels
<1>11. ASSUME rels # {} PROVE Min(rels) \in rels /\ \A k \in rels : Min(rels) <= k
  BY <1>10, <1>11, MinIsLeast
<1>12. ASSUME hasLinkRelation(ss) PROVE Points(x)
  <2> DEFINE k == Min(rels)
  <2>1. rels # {} /\ W(ss[k].value) /\ Named(ss, anchor) = {}
    BY <1>6, <1>12
  <2>2. k \in rels /\ \A i \in rels : k <= i
    BY <1>11, <2>1
  <2> HIDE DEF k
  <2>3. k \in 1..n /\ ps[k].name = rel
    BY <1>10, <2>2
  <2>4. \A j \in 1..(k - 1) : ps[j].name # rel
    <3> SUFFICES ASSUME NEW j \in 1..(k - 1), ps[j].name = rel PROVE FALSE
      OBVIOUS
    <3>1. j \in 1..n /\ ~(k <= j)
      BY <1>1, <2>3
    <3>2. j \in rels
      BY <1>10, <3>1
    <3> QED
      BY <2>2, <3>1, <3>2
  <2>5. ~bare(k) /\ W(ps[k].value)
    BY <1>4, <1>7, <2>1, <2>3
  <2> QED
    BY <1>5, <1>9, <2>1, <2>3, <2>4, <2>5
<1>13. ASSUME Points(x) PROVE hasLinkRelation(ss)
  <2>1. PICK k \in 1..n : /\ ps[k].name = rel
                          /\ \A j \in 1..(k - 1) : ps[j].name # rel
                          /\ ~bare(k)
                          /\ W(ps[k].value)
    BY <1>5, <1>13
  <2>2. k \in rels
    BY <1>10, <2>1
  <2>3. Min(rels) \in rels /\ Min(rels) <= k
    BY <1>11, <2>2
  <2>4. Min(rels) \in 1..n /\ ps[Min(rels)].name = rel
    BY <1>10, <2>3
  <2>5. Min(rels) = k
    <3> SUFFICES ASSUME Min(rels) # k PROVE FALSE
      OBVIOUS
    <3>1. Min(rels) \in 1..(k - 1)
      BY <1>1, <2>3, <2>4
    <3> QED
      BY <2>1, <2>4, <3>1
  <2>6. W(ss[k].value)
    BY <1>7, <2>1
  <2>7. Named(ss, anchor) = {}
    BY <1>5, <1>9, <1>13
  <2> QED
    BY <1>6, <2>2, <2>5, <2>6, <2>7
<1> QED
  BY <1>12, <1>13 DEF ss, n, ps

-----------------------------------------------------------------------------
(* The invariant: where the parser is, and what it has found there.         *)
BlanksTo(es, b, a) == /\ b <= a /\ a <= Len(Render(es)) + 1
                      /\ \A i \in b..(a - 1) : Render(es)[i] \in Blank

LinkAt(p, n, a, ts) ==
  \E e \in 1..(Len(p.fields[n]) + 1) : a = Begin(p.fields[n], e) /\ ts = Before(p, n, e)

AtLink(p, n, e, g, ts) ==
  /\ e \in 1..Len(p.fields[n]) /\ p.fields[n][e].link
  /\ g = p.fields[n][e].target /\ ts = Before(p, n, e)

(* After j parameters of link e, perhaps with blanks already skipped. *)
ParamFrom(p, n, a, g, ps, ts) ==
  \E e \in 1..Len(p.fields[n]) :
    /\ AtLink(p, n, e, g, ts)
    /\ \E j \in 0..Len(p.fields[n][e].params) :
         /\ ps = SaidTo(p.fields[n][e], j)
         /\ BlanksTo(p.fields[n], ParamAt(p.fields[n], e, j), a)

(* After m characters of the value of parameter j of link e. *)
ValueRead(x, b, j, m, a, ps, nm, tx) ==
  /\ j \in 1..Len(x.params) /\ x.params[j].form = "quoted"
  /\ ps = SaidTo(x, j - 1) /\ nm = x.params[j].name
  /\ m \in 0..Len(x.params[j].value) /\ tx = SubSeq(x.params[j].value, 1, m)
  /\ a = EscapedTo(ValueAt(b, x.params[j]) + 1, x.params[j].value, m)

QuoteAt(p, n, a, g, ps, nm, tx, ts) ==
  \E e \in 1..Len(p.fields[n]) :
    /\ AtLink(p, n, e, g, ts)
    /\ \E j \in 1..Len(p.fields[n][e].params) : \E m \in 0..Len(p.fields[n][e].params[j].value) :
         ValueRead(p.fields[n][e], ParamAt(p.fields[n], e, j - 1), j, m, a, ps, nm, tx)

LinkInv ==
  /\ fields = [k \in DOMAIN page.fields |-> Render(page.fields[k])]
  /\ Fine(page) =>
       /\ pc = "link" => LinkAt(page, f, at, targets)
       /\ pc = "param" => ParamFrom(page, f, at, target, params, targets)
       /\ pc = "quoted" => QuoteAt(page, f, at, target, params, name, text, targets)
       /\ pc \in {"head", "done"} => targets = FlattenSeq(MeantAll(page))

LEMMA FieldNow ==
  ASSUME TypeOK, LinkInv, pc \in {"link", "param", "quoted"}
  PROVE  /\ InField(page.fields[f]) /\ f \in 1..Len(page.fields) /\ page \in Page
         /\ Len(fields) = Len(page.fields) /\ Len(page.fields) \in Nat
         /\ at \in 1..(Len(Field) + 1) /\ Len(Field) \in Nat /\ AtField
         /\ Fine(page) => \A i \in 1..Len(page.fields[f]) : WellFormed(page.fields[f][i])
<1>1. page \in Page /\ fields \in Seq(Text) /\ f \in DOMAIN fields /\ at \in 1..(Len(Field) + 1)
  BY DEF TypeOK
<1>2. AtField /\ Len(Field) \in Nat
  BY <1>1, FieldIsText DEF AtField
<1>3. page.fields \in Seq(Seq(Element))
  BY <1>1, MeantAllType
<1>4. fields = [k \in DOMAIN page.fields |-> Render(page.fields[k])]
  BY DEF LinkInv
<1> DEFINE ff == page.fields
<1>5. ff \in Seq(Seq(Element)) /\ DOMAIN ff = 1..Len(ff) /\ Len(ff) \in Nat
  BY <1>3
<1> HIDE DEF ff
<1>6. fields = [k \in 1..Len(ff) |-> Render(ff[k])]
  BY <1>4, <1>5 DEF ff
<1>7. f \in 1..Len(ff) /\ Field = Render(ff[f]) /\ Len(fields) = Len(ff)
  BY <1>1, <1>5, <1>6 DEF Field
<1>8. InField(ff[f])
  BY <1>2, <1>5, <1>7 DEF InField
<1>9. ASSUME Fine(page) PROVE \A i \in 1..Len(page.fields[f]) : WellFormed(page.fields[f][i])
  <2>1. f \in DOMAIN page.fields
    BY <1>5, <1>7 DEF ff
  <2>2. \A k \in DOMAIN page.fields[f] : WellFormed(page.fields[f][k])
    BY <1>9, <2>1 DEF Fine
  <2>3. page.fields[f] \in Seq(Element)
    BY <1>5, <1>7 DEF ff
  <2> QED
    BY <2>2, <2>3
<1> QED
  BY <1>1, <1>2, <1>5, <1>7, <1>8, <1>9 DEF ff

(* Junk is left behind: it is an element, and the next one begins.          *)
LEMMA JunkStep ==
  ASSUME TypeOK, LinkInv, Fine(page), SkipJunk
  PROVE  LinkAt(page, f, at', targets)
<1> DEFINE es == page.fields[f]  q == LinkStart
<1>1. pc = "link" /\ q <= Len(Field) /\ ~Holds(q, "<") /\ at' = NextComma(q)
  BY DEF SkipJunk, NextComma, Comma
<1>2. /\ InField(es) /\ f \in 1..Len(page.fields) /\ page \in Page
      /\ Len(Field) \in Nat /\ \A i \in 1..Len(es) : WellFormed(es[i])
  BY <1>1, FieldNow
<1>3. PICK e \in 1..(Len(es) + 1) : at = Begin(es, e) /\ targets = Before(page, f, e)
  BY <1>1 DEF LinkInv, LinkAt
<1>4. Len(es) \in Nat /\ es \in Seq(Element) /\ Field = Render(es)
  BY <1>2 DEF InField
<1>5. PICK n \in e..Len(es) :
        /\ NoLinks(es, e, n - 1)
        /\ q \in 1..Len(Field)
        /\ es[n].link => q = Body(es, n)
        /\ ~es[n].link => Field[q] # Opening /\ NextComma(q) = Begin(es, n + 1)
  <2>1. q # Len(Field) + 1
    BY <1>1, <1>2
  <2> QED
    BY <1>2, <1>3, <2>1, LinkStartPlace
<1> HIDE DEF q, es
<1>6. n \in 1..Len(es) /\ n + 1 \in e..(Len(es) + 1) /\ n + 1 \in 1..(Len(es) + 1) /\ (n + 1) - 1 = n
  BY <1>4
<1>7. ~es[n].link
  <2> SUFFICES ASSUME es[n].link PROVE FALSE
    OBVIOUS
  <2>1. Field[q] = Opening
    BY <1>4, <1>5, <1>6, LinkIsLong
  <2>2. Holds(q, Opening)
    BY <1>1, <2>1 DEF Holds
  <2> QED
    BY <1>1, <2>2 DEF Opening
<1>8. NoLinks(es, e, n)
  <2>1. \A i \in e..n : i \in e..(n - 1) \/ i = n
    BY <1>4, <1>6
  <2> QED
    BY <1>5, <1>7, <2>1 DEF NoLinks
<1>9. Before(page, f, n + 1) = Before(page, f, e)
  BY <1>2, <1>6, <1>8, BeforeStays DEF es
<1>10. at' = Begin(es, n + 1) /\ targets = Before(page, f, n + 1)
  BY <1>1, <1>3, <1>5, <1>7, <1>9
<1> QED
  BY <1>6, <1>10 DEF LinkAt, es

LEMMA TargetIsRead ==
  ASSUME NEW es, NEW e, Reading(es, e)
  PROVE  LET k == Body(es, e) + 1  c == Seek(k, {Closing}) IN
         /\ c <= Len(Field) /\ Between(k, c) = es[e].target /\ c + 1 = ParamAt(es, e, 0)
<1> DEFINE k == Body(es, e) + 1  g == es[e].target  n == k + Len(g)
<1>1. /\ AtField /\ es \in Seq(Element) /\ Field = Render(es) /\ e \in 1..Len(es) /\ es[e].link
      /\ WellFormed(es[e]) /\ es[e] \in Element
  BY DEF Reading, InField
<1>2. g \in Text /\ NoneOf(g, {Closing})
  BY <1>1, ElementType, WellFormedMeans
<1>3. /\ ReadsIn(Field, Body(es, e) + 1, g) /\ Len(g) \in Nat
      /\ Field[Body(es, e) + 1 + Len(g)] = Closing /\ Body(es, e) + 1 + Len(g) <= Len(Field)
      /\ ParamAt(es, e, 0) = Params(es, e)
  BY <1>1, LinkIsAt
<1>4. Body(es, e) \in Nat
  BY <1>1, ElementIsAt
<1>5. Params(es, e) = Body(es, e) + Len(g) + 2
  BY DEF Params
<1>6. k \in Nat \ {0} /\ n + 1 = ParamAt(es, e, 0)
  <2> DEFINE b == Body(es, e)  w == Len(g)  z == ParamAt(es, e, 0)
  <2>1. b \in Nat /\ w \in Nat /\ z = b + w + 2
    BY <1>3, <1>4, <1>5
  <2> HIDE DEF b, w, z
  <2>2. b + 1 \in Nat \ {0} /\ (b + 1 + w) + 1 = z
    BY <2>1
  <2> QED
    BY <2>2 DEF b, w, z
<1>7. n = k + Len(g) /\ ReadsIn(Field, k, g) /\ Field[n] = Closing /\ n <= Len(Field)
  BY <1>3
<1> HIDE DEF k, g, n
<1>8. n <= Len(Field) => Field[n] \in {Closing}
  BY <1>7
<1>9. Seek(k, {Closing}) = n /\ Between(k, n) = g
  BY <1>1, <1>2, <1>6, <1>7, <1>8, TextRead, Zenon
<1> QED
  BY <1>6, <1>7, <1>9 DEF k, g

(* A field is left when no link is ahead in it. *)
LEMMA FieldStep ==
  ASSUME TypeOK, LinkInv, Fine(page), FieldEnds
  PROVE  /\ f = Len(page.fields) => targets = FlattenSeq(MeantAll(page))
         /\ f # Len(page.fields) => LinkAt(page, f + 1, 1, targets)
<1> DEFINE es == page.fields[f]  q == LinkStart
<1>1. /\ pc = "link"
      /\ IF Holds(q, "<") THEN Seek(q + 1, {">"}) > Len(Field) ELSE Seek(q, {","}) > Len(Field)
  BY DEF FieldEnds
<1>2. /\ InField(es) /\ f \in 1..Len(page.fields) /\ page \in Page /\ Len(page.fields) \in Nat
      /\ Len(Field) \in Nat /\ \A i \in 1..Len(es) : WellFormed(es[i])
  BY <1>1, FieldNow
<1>3. PICK e \in 1..(Len(es) + 1) : at = Begin(es, e) /\ targets = Before(page, f, e)
  BY <1>1 DEF LinkInv, LinkAt
<1>4. Len(es) \in Nat /\ es \in Seq(Element) /\ Field = Render(es)
  BY <1>2 DEF InField
<1>5. \/ NoLinks(es, e, Len(es))
      \/ \E n \in e..Len(es) :
           /\ NoLinks(es, e, n - 1)
           /\ q \in 1..Len(Field)
           /\ es[n].link => q = Body(es, n)
           /\ ~es[n].link => Field[q] # Opening /\ NextComma(q) = Begin(es, n + 1)
  BY <1>2, <1>3, LinkStartPlace
<1>6. /\ Holds(q, Opening) => Seek(q + 1, {Closing}) > Len(Field)
      /\ ~Holds(q, Opening) => NextComma(q) > Len(Field)
  BY <1>1 DEF Opening, Closing, NextComma, Comma
<1> HIDE DEF q
<1>7. NoLinks(es, e, Len(es))
  <2> SUFFICES ASSUME ~NoLinks(es, e, Len(es)) PROVE FALSE
    OBVIOUS
  <2>1. PICK n \in e..Len(es) :
           /\ NoLinks(es, e, n - 1)
           /\ q \in 1..Len(Field)
           /\ es[n].link => q = Body(es, n)
           /\ ~es[n].link => Field[q] # Opening /\ NextComma(q) = Begin(es, n + 1)
    BY <1>5
  <2> HIDE DEF es
  <2>2. n \in 1..Len(es) /\ n + 1 \in 1..(Len(es) + 1) /\ (n + 1) - 1 = n
    BY <1>4
  <2>3. CASE es[n].link
    <3>1. Field[q] = Opening /\ q <= Len(Field)
      BY <1>4, <2>1, <2>2, <2>3, LinkIsLong
    <3>2. Holds(q, Opening)
      BY <3>1 DEF Holds
    <3>3. Reading(es, n)
      BY <1>2, <2>2, <2>3 DEF Reading
    <3>4. Seek(q + 1, {Closing}) <= Len(Field) /\ Seek(q + 1, {Closing}) \in Int
      <4>1. Seek(q + 1, {Closing}) <= Len(Field)
        BY <2>1, <2>3, <3>3, TargetIsRead
      <4>2. AtField /\ q + 1 \in 1..(Len(Field) + 1)
        BY <1>2, <2>1 DEF InField
      <4>3. Seek(q + 1, {Closing}) \in (q + 1)..(Len(Field) + 1)
        BY <4>2, SeekRange
      <4> QED
        BY <4>1, <4>3
    <3> QED
      BY <1>2, <1>6, <3>2, <3>4
  <2>4. CASE ~es[n].link
    <3>1. ~Holds(q, Opening)
      BY <2>1, <2>4 DEF Holds
    <3>2. Begin(es, n + 1) > Len(Field)
      BY <1>6, <2>1, <2>4, <3>1
    <3>3. ASSUME NEW i \in (n + 1)..Len(es), es[i].link PROVE FALSE
      <4>1. i \in 1..Len(es) /\ n + 1 <= i /\ i \in 1..(Len(es) + 1)
        BY <1>4, <2>2
      <4>2. Begin(es, n + 1) <= Begin(es, i) /\ Begin(es, i) \in Nat /\ Begin(es, n + 1) \in Nat
        BY <1>4, <2>2, <4>1, FieldBounds, SMTT(30)
      <4>3. Begin(es, i) <= Body(es, i) /\ Body(es, i) <= Len(Field)
        BY <1>4, <3>3, <4>1, LinkIsLong
      <4>4. Body(es, i) \in Nat
        BY <1>4, <4>1, ElementIsAt
      <4> QED
        BY <1>2, <3>2, <4>2, <4>3, <4>4
    <3>4. \A i \in e..Len(es) : i \in e..(n - 1) \/ i = n \/ i \in (n + 1)..Len(es)
      BY <1>4, <2>2
    <3>5. NoLinks(es, e, Len(es))
      BY <2>1, <2>4, <3>3, <3>4 DEF NoLinks
    <3> QED
      BY <3>5
  <2> QED
    BY <2>3, <2>4
<1>8. targets = Before(page, f, Len(es) + 1)
  <2>1. Len(es) + 1 \in e..(Len(es) + 1) /\ (Len(es) + 1) - 1 = Len(es)
    BY <1>4
  <2>2. Before(page, f, Len(es) + 1) = Before(page, f, e)
    BY <1>2, <1>3, <1>7, <2>1, BeforeStays
  <2> QED
    BY <1>3, <2>2
<1>9. ASSUME f = Len(page.fields) PROVE targets = FlattenSeq(MeantAll(page))
  BY <1>2, <1>8, <1>9, BeforeFields
<1>10. ASSUME f # Len(page.fields) PROVE LinkAt(page, f + 1, 1, targets)
  <2> DEFINE n == f + 1  fs == page.fields[n]
  <2>1. n \in 1..Len(page.fields)
    BY <1>2, <1>10
  <2>2. Before(page, n, 1) = targets
    BY <1>2, <1>8, <2>1, BeforeFields
  <2>3. fs \in Seq(Element)
    BY <1>2, <2>1, MeantAllType
  <2>4. Begin(fs, 1) = 1 /\ 1 \in 1..(Len(fs) + 1)
    BY <2>3, FieldBounds
  <2> QED
    BY <2>2, <2>4 DEF LinkAt
<1> QED
  BY <1>9, <1>10

LEMMA OpenStep ==
  ASSUME TypeOK, LinkInv, Fine(page), OpenLink
  PROVE  ParamFrom(page, f, at', target', params', targets)
<1> DEFINE es == page.fields[f]  q == LinkStart  c == Seek(q + 1, {Closing})
<1>1. /\ pc = "link" /\ Holds(q, Opening)
      /\ c <= Len(Field) /\ target' = TrimSpace(Between(q + 1, c)) /\ at' = c + 1
      /\ params' = <<>>
  BY DEF OpenLink, Opening, Closing
<1>2. /\ InField(es) /\ f \in 1..Len(page.fields) /\ page \in Page
      /\ Len(Field) \in Nat /\ \A i \in 1..Len(es) : WellFormed(es[i])
  BY <1>1, FieldNow
<1>3. PICK e \in 1..(Len(es) + 1) : at = Begin(es, e) /\ targets = Before(page, f, e)
  BY <1>1 DEF LinkInv, LinkAt
<1>4. Len(es) \in Nat /\ es \in Seq(Element) /\ Field = Render(es)
  BY <1>2 DEF InField
<1>5. q <= Len(Field) /\ Field[q] = Opening
  BY <1>1, HeldPlace
<1>6. PICK n \in e..Len(es) :
        /\ NoLinks(es, e, n - 1)
        /\ q \in 1..Len(Field)
        /\ es[n].link => q = Body(es, n)
        /\ ~es[n].link => Field[q] # Opening /\ NextComma(q) = Begin(es, n + 1)
  <2>1. q # Len(Field) + 1
    BY <1>2, <1>5
  <2> QED
    BY <1>2, <1>3, <2>1, LinkStartPlace
<1> HIDE DEF q, c
<1>7. n \in 1..Len(es) /\ n \in e..(Len(es) + 1) /\ n \in 1..(Len(es) + 1)
  BY <1>4
<1>8. es[n] \in Element /\ es[n].link \in BOOLEAN
  <2>1. es[n] \in Element
    BY <1>4, <1>7
  <2> QED
    BY <2>1, ElementType
<1> HIDE DEF es
<1>9. es[n].link /\ q = Body(es, n)
  BY <1>5, <1>6, <1>8
<1>10. Reading(es, n)
  BY <1>2, <1>7, <1>9 DEF Reading
<1>11. Between(q + 1, c) = es[n].target /\ at' = ParamAt(es, n, 0)
  BY <1>1, <1>9, <1>10, TargetIsRead DEF c
<1>12. target' = es[n].target
  <2>1. es[n].target \in Text /\ NoneOf(es[n].target, Blank)
    BY <1>2, <1>7, <1>8, <1>9, ElementType, WellFormedMeans
  <2>2. TrimSpace(es[n].target) = es[n].target
    BY <2>1, TrimsNothing
  <2> QED
    BY <1>1, <1>11, <2>2
<1>13. Before(page, f, n) = Before(page, f, e)
  BY <1>2, <1>3, <1>6, <1>7, BeforeStays DEF es
<1>14. AtLink(page, f, n, target', targets)
  BY <1>3, <1>7, <1>9, <1>12, <1>13 DEF AtLink, es
<1>15. params' = SaidTo(es[n], 0) /\ 0 \in 0..Len(es[n].params)
  <2>1. es[n].params \in Seq(Param)
    BY <1>8, <1>9, ElementType
  <2>2. SaidTo(es[n], 0) = <<>>
    BY DEF SaidTo
  <2> QED
    BY <1>1, <2>1, <2>2
<1>16. BlanksTo(es, ParamAt(es, n, 0), at')
  <2>1. ParamAt(es, n, 0) \in 1..(Len(Field) + 1)
    BY <1>10, <1>15, ParamStops
  <2> QED
    BY <1>2, <1>4, <1>11, <2>1 DEF BlanksTo
<1> QED
  BY <1>7, <1>14, <1>15, <1>16 DEF ParamFrom, es

(* Blanks that have been skipped make no difference. *)
LEMMA BlanksSkipped ==
  ASSUME NEW es, InField(es), NEW b \in 1..(Len(Field) + 1), NEW a \in 1..(Len(Field) + 1),
         BlanksTo(es, b, a)
  PROVE  Skip(a, Blank) = Skip(b, Blank)
<1>1. AtField /\ Field = Render(es) /\ Len(Field) \in Nat
  BY FieldIsText DEF InField
<1> DEFINE n == Skip(a, Blank)
<1>2. /\ n \in a..(Len(Field) + 1)
      /\ n <= Len(Field) => Field[n] \notin Blank
      /\ \A j \in a..(n - 1) : Field[j] \in Blank
  BY <1>1, SkipFinds
<1> HIDE DEF n
<1>3. b <= a /\ \A i \in b..(a - 1) : Field[i] \in Blank
  BY <1>1 DEF BlanksTo
<1>4. n \in b..(Len(Field) + 1)
  BY <1>1, <1>2, <1>3
<1>5. \A j \in b..(n - 1) : j \in b..(a - 1) \/ j \in a..(n - 1)
  BY <1>1, <1>2, <1>3
<1>6. Skip(b, Blank) = n
  BY <1>1, <1>2, <1>3, <1>4, <1>5, SkipIs
<1> QED
  BY <1>6 DEF n

LEMMA BlanksFrom ==
  ASSUME NEW es, InField(es), NEW b \in 1..(Len(Field) + 1)
  PROVE  BlanksTo(es, b, b) /\ BlanksTo(es, b, Skip(b, Blank))
<1>1. AtField /\ Field = Render(es) /\ Len(Field) \in Nat
  BY FieldIsText DEF InField
<1> DEFINE n == Skip(b, Blank)
<1>2. n \in b..(Len(Field) + 1) /\ \A j \in b..(n - 1) : Field[j] \in Blank
  BY <1>1, SkipFinds
<1> HIDE DEF n
<1>3. BlanksTo(es, b, n)
  BY <1>1, <1>2 DEF BlanksTo
<1>4. BlanksTo(es, b, b)
  BY <1>1 DEF BlanksTo
<1> QED
  BY <1>3, <1>4 DEF n

(* Where the parser is among the parameters of a link. *)
LEMMA ParamNow ==
  ASSUME TypeOK, LinkInv, Fine(page), pc = "param"
  PROVE  LET es == page.fields[f] IN
         \E e \in 1..Len(es) : \E j \in 0..Len(es[e].params) :
           /\ AtLink(page, f, e, target, targets) /\ Reading(es, e)
           /\ params = SaidTo(es[e], j)
           /\ Skip(at, Blank) = Skip(ParamAt(es, e, j), Blank)
<1> DEFINE es == page.fields[f]
<1>1. PICK e \in 1..Len(es) :
        /\ AtLink(page, f, e, target, targets)
        /\ \E j \in 0..Len(es[e].params) :
             params = SaidTo(es[e], j) /\ BlanksTo(es, ParamAt(es, e, j), at)
  BY DEF LinkInv, ParamFrom
<1>2. PICK j \in 0..Len(es[e].params) :
        params = SaidTo(es[e], j) /\ BlanksTo(es, ParamAt(es, e, j), at)
  BY <1>1
<1>3. InField(es) /\ at \in 1..(Len(Field) + 1) /\ \A i \in 1..Len(es) : WellFormed(es[i])
  BY FieldNow
<1>4. es[e].link
  BY <1>1 DEF AtLink
<1> HIDE DEF es
<1>5. Reading(es, e)
  BY <1>3, <1>4 DEF Reading
<1>6. ParamAt(es, e, j) \in 1..(Len(Field) + 1)
  BY <1>5, ParamStops
<1>7. Skip(at, Blank) = Skip(ParamAt(es, e, j), Blank)
  BY <1>2, <1>3, <1>6, BlanksSkipped
<1> QED
  BY <1>1, <1>2, <1>5, <1>7 DEF es

LEMMA EndStep ==
  ASSUME TypeOK, LinkInv, Fine(page), ParamsEnd
  PROVE  LinkAt(page, f, at', targets')
<1> DEFINE es == page.fields[f]
<1>1. /\ pc = "param" /\ ~Holds(Skip(at, Blank), Semicolon) /\ at' = NextComma(Skip(at, Blank))
      /\ targets' = IF hasLinkRelation(params) THEN Append(targets, target) ELSE targets
  BY DEF ParamsEnd, NextComma, Comma, Semicolon
<1>0. PICK e \in 1..Len(es) : \E j \in 0..Len(es[e].params) :
        /\ AtLink(page, f, e, target, targets) /\ Reading(es, e)
        /\ params = SaidTo(es[e], j)
        /\ Skip(at, Blank) = Skip(ParamAt(es, e, j), Blank)
  BY <1>1, ParamNow
<1>2. PICK j \in 0..Len(es[e].params) :
        /\ AtLink(page, f, e, target, targets) /\ Reading(es, e)
        /\ params = SaidTo(es[e], j)
        /\ Skip(at, Blank) = Skip(ParamAt(es, e, j), Blank)
  BY <1>0
<1>3. f \in 1..Len(page.fields) /\ page \in Page
  BY <1>1, FieldNow
<1>4. target = es[e].target /\ targets = Before(page, f, e)
  BY <1>2 DEF AtLink
<1>5. es \in Seq(Element) /\ es[e] \in Element /\ es[e].link
  BY <1>2 DEF Reading, InField
<1>6. es[e].params \in Seq(Param)
  BY <1>5, ElementType
<1>7. j = Len(es[e].params)
  <2> SUFFICES ASSUME j # Len(es[e].params) PROVE FALSE
    OBVIOUS
  <2>1. j \in 0..(Len(es[e].params) - 1)
    BY <1>6
  <2>2. Holds(Skip(ParamAt(es, e, j), Blank), Semicolon)
    BY <1>2, <2>1, BeforeParam
  <2> QED
    BY <1>1, <1>2, <2>2
<1>8. at' = Begin(es, e + 1)
  BY <1>1, <1>2, <1>7, AfterParams
<1>9. hasLinkRelation(params) <=> Points(es[e])
  BY <1>2, <1>5, <1>7, SaidRelation
<1>10. targets' = Before(page, f, e + 1)
  BY <1>1, <1>3, <1>4, <1>9, BeforeNext
<1>11. e + 1 \in 1..(Len(es) + 1)
  BY <1>5
<1> QED
  BY <1>8, <1>10, <1>11 DEF LinkAt

LEMMA ParamSaid ==
  ASSUME NEW x \in Element, x.link, WellFormed(x), NEW i \in 1..Len(x.params),
         params = SaidTo(x, i - 1)
  PROVE  LET p == x.params[i] IN
         /\ p.form = "bare" => withParam(p.name, <<>>) = SaidTo(x, i)
         /\ p.form # "bare" => withParam(p.name, p.value) = SaidTo(x, i)
<1> DEFINE p == x.params[i]  bare == p.form = "bare"
<1>1. p.name # <<>>
  <2>1. GoodWord(p.name)
    BY WellFormedMeans DEF GoodParam
  <2> QED
    BY <2>1 DEF GoodWord
<1>2. i \in Nat \ {0}
  <2>1. Len(x.params) \in Nat
    BY ElementType
  <2> QED
    BY <2>1
<1>3. Append(params, Said(p)) = SaidTo(x, i)
  BY <1>2, SaidAppend
<1>4. /\ bare => Said(p) = [name |-> p.name, value |-> <<>>]
      /\ ~bare => Said(p) = [name |-> p.name, value |-> p.value]
  BY DEF Said
<1>5. \A v : withParam(p.name, v) = Append(params, [name |-> p.name, value |-> v])
  BY <1>1 DEF withParam
<1> HIDE DEF p, bare
<1>6. bare => withParam(p.name, <<>>) = SaidTo(x, i)
  BY <1>3, <1>4, <1>5
<1>7. ~bare => withParam(p.name, p.value) = SaidTo(x, i)
  BY <1>3, <1>4, <1>5
<1> QED
  BY <1>6, <1>7 DEF p, bare

(* A parameter is read, or the value of one that is quoted is begun.        *)
LEMMA ReadStep ==
  ASSUME TypeOK, LinkInv, Fine(page), ReadParam
  PROVE  \/ pc' = "param" /\ ParamFrom(page, f, at', target, params', targets)
         \/ pc' = "quoted" /\ QuoteAt(page, f, at', target, params', name', text', targets)
<1> DEFINE es == page.fields[f]
<1>1. pc = "param" /\ AtParam /\ (ReadBare \/ OpenQuote \/ ReadWord)
  BY ReadParamCases
<1>2. PICK e \in 1..Len(es) : \E j \in 0..Len(es[e].params) :
        /\ AtLink(page, f, e, target, targets) /\ Reading(es, e)
        /\ params = SaidTo(es[e], j)
        /\ Skip(at, Blank) = Skip(ParamAt(es, e, j), Blank)
  BY <1>1, ParamNow
<1>3. PICK j \in 0..Len(es[e].params) :
        /\ AtLink(page, f, e, target, targets) /\ Reading(es, e)
        /\ params = SaidTo(es[e], j)
        /\ Skip(at, Blank) = Skip(ParamAt(es, e, j), Blank)
  BY <1>2
<1>4. /\ es \in Seq(Element) /\ es[e] \in Element /\ es[e].link /\ WellFormed(es[e])
      /\ InField(es) /\ Field = Render(es)
  BY <1>3 DEF Reading, InField
<1>5. es[e].params \in Seq(Param)
  BY <1>4, ElementType
<1>6. at \in 1..(Len(Field) + 1) /\ AtField
  BY <1>1, FieldNow
<1> DEFINE i == j + 1  p == es[e].params[i]  a == ParamAt(es, e, j)  b == ParamAt(es, e, i)
<1>7. i \in 1..Len(es[e].params) /\ i - 1 = j /\ i \in 0..Len(es[e].params)
  <2>1. j # Len(es[e].params)
    <3> SUFFICES ASSUME j = Len(es[e].params) PROVE FALSE
      OBVIOUS
    <3>1. ~Holds(Skip(at, Blank), Semicolon)
      BY <1>3, AfterParams
    <3> QED
      BY <1>1, <3>1 DEF AtParam, Semicolon
  <2> QED
    BY <1>5, <2>1
<1> HIDE DEF i
<1>8. ParamAt(es, e, i - 1) = a
  BY <1>7
<1>9. Skip(at, Blank) = Skip(ParamAt(es, e, i - 1), Blank)
  BY <1>3, <1>8
<1>10. Between(ParamName, NameEnd) = p.name
  BY <1>3, <1>6, <1>7, <1>9, NameIsRead
<1>11. /\ p.form = "bare" => ~HasValue /\ EqualSign = Skip(b, Blank)
       /\ p.form # "bare" => HasValue /\ ValueStart = ValueAt(a, p)
       /\ p.form = "token" => /\ ~IsQuoted /\ ValueEnd = b
                              /\ Between(ValueStart, ValueEnd) = p.value
       /\ p.form = "quoted" => IsQuoted
  BY <1>3, <1>6, <1>7, <1>8, <1>9, ValueIsRead
<1>12. p.form \in {"bare", "token", "quoted"} /\ p \in Param
  BY <1>5, <1>7, ParamText
<1>13. b \in 1..(Len(Field) + 1)
  BY <1>3, <1>7, ParamStops
<1>14. /\ p.form = "bare" => withParam(p.name, <<>>) = SaidTo(es[e], i)
       /\ p.form # "bare" => withParam(p.name, p.value) = SaidTo(es[e], i)
  <2>1. params = SaidTo(es[e], i - 1)
    BY <1>3, <1>7
  <2> QED
    BY <1>4, <1>7, <2>1, ParamSaid
<1>15. AtLink(page, f, e, target, targets)
  BY <1>3
<1> HIDE DEF a, b, p
<1>16. ASSUME params' = SaidTo(es[e], i), BlanksTo(es, b, at')
       PROVE  ParamFrom(page, f, at', target, params', targets)
  BY <1>7, <1>15, <1>16 DEF ParamFrom, b
<1>17. CASE p.form = "bare"
  <2>1. pc' = "param" /\ params' = SaidTo(es[e], i) /\ at' = Skip(b, Blank)
    BY <1>1, <1>10, <1>11, <1>14, <1>17 DEF ReadBare, OpenQuote, ReadWord
  <2>2. BlanksTo(es, b, at')
    BY <1>4, <1>13, <2>1, BlanksFrom
  <2> QED
    BY <1>16, <2>1, <2>2
<1>18. CASE p.form = "token"
  <2>1. pc' = "param" /\ params' = SaidTo(es[e], i) /\ at' = b
    BY <1>1, <1>10, <1>11, <1>14, <1>18 DEF ReadBare, OpenQuote, ReadWord
  <2>2. BlanksTo(es, b, at')
    BY <1>4, <1>13, <2>1, BlanksFrom
  <2> QED
    BY <1>16, <2>1, <2>2
<1>19. CASE p.form = "quoted"
  <2> DEFINE v == p.value  k == ValueAt(a, p) + 1
  <2>1. /\ pc' = "quoted" /\ params' = params /\ name' = p.name /\ text' = <<>>
        /\ at' = k
    BY <1>1, <1>10, <1>11, <1>19 DEF ReadBare, OpenQuote, ReadWord
  <2>2. v \in Text
    BY <1>12, ParamText
  <2>3. text' = SubSeq(v, 1, 0)
    BY <2>1, SubSeqEmpty
  <2>4. at' = EscapedTo(k, v, 0)
    <3>1. Escapes(v) \in Seq(Seq(Symbol))
      BY <2>2, EscapesType DEF Text
    <3>2. FlatTo(Escapes(v), 0) = <<>>
      BY <3>1, FlatToSteps
    <3>3. EscapedTo(k, v, 0) = k + 0
      BY <3>2 DEF EscapedTo
    <3>4. k \in Int
      <4>1. a \in Nat \ {0} /\ ReadsIn(Field, a, RenderParam(p))
        <5>1. e \in 1..Len(es)
          OBVIOUS
        <5> QED
          BY <1>4, <1>7, <1>8, <5>1, ParamIsAt DEF p
      <4>2. Field \in Text
        BY <1>6, FieldIsText
      <4>3. ValueAt(a, p) \in Nat \ {0}
        BY <1>12, <1>19, <4>1, <4>2, ValueReads
      <4> QED
        BY <4>3
    <3> HIDE DEF k
    <3> QED
      BY <2>1, <3>3, <3>4
  <2>5. 0 \in 0..Len(v)
    BY <2>2 DEF Text
  <2>6. ValueRead(es[e], ParamAt(es, e, i - 1), i, 0, at', params', name', text')
    <3>1. params' = SaidTo(es[e], i - 1)
      BY <1>3, <1>7, <2>1
    <3> QED
      BY <1>7, <1>8, <1>19, <2>1, <2>3, <2>4, <2>5, <3>1 DEF ValueRead, p
  <2>7. QuoteAt(page, f, at', target, params', name', text', targets)
    BY <1>7, <1>15, <2>5, <2>6 DEF QuoteAt, p
  <2> QED
    BY <2>1, <2>7
<1> QED
  BY <1>12, <1>17, <1>18, <1>19

(* A quoted value: its characters in turn, then the closing quote, where the *)
(* parameter ends.                                                           *)
LEMMA QuotePlace ==
  ASSUME NEW es, NEW e, Reading(es, e), NEW j \in 1..Len(es[e].params),
         NEW p, p = es[e].params[j], p.form = "quoted", NEW v, v = p.value,
         NEW k, k = ValueAt(ParamAt(es, e, j - 1), p) + 1, NEW n, n = EscapedTo(k, v, Len(v))
  PROVE  /\ v \in Text /\ k \in Nat \ {0} /\ ReadsIn(Field, k, Escaped(v))
         /\ Field[n] = Quote /\ n <= Len(Field) /\ n \in Nat \ {0} /\ ParamAt(es, e, j) = n + 1
<1> DEFINE a == ParamAt(es, e, j - 1)  h == ValueAt(a, p)  x == Escaped(v)  b == ParamAt(es, e, j)
<1>1. /\ AtField /\ es \in Seq(Element) /\ Field = Render(es) /\ e \in 1..Len(es) /\ es[e].link
  BY DEF Reading, InField
<1>2. p \in Param /\ ReadsIn(Field, a, RenderParam(p)) /\ b = a + Len(RenderParam(p)) /\ a \in Nat \ {0}
  <2>1. es[e].params \in Seq(Param)
    <3>1. es[e] \in Element
      BY <1>1
    <3> QED
      BY <1>1, <3>1, ElementType
  <2>2. j - 1 \in 0..Len(es[e].params)
    BY <2>1
  <2> QED
    BY <1>1, <2>2, ParamIsAt
<1>3. Field \in Text
  BY <1>1, FieldIsText
<1>4. v \in Text
  BY <1>2, ParamText
<1>5. p.form = "quoted"
  OBVIOUS
<1>0. k = h + 1
  OBVIOUS
<1> HIDE DEF a, b
<1>6. /\ ReadsIn(Field, h, ParamValue(p)) /\ h \in Nat \ {0}
      /\ a + Len(RenderParam(p)) = h + Len(ParamValue(p))
  BY <1>2, <1>3, <1>5, ValueReads
<1> HIDE DEF h
<1>7. /\ ReadsIn(Field, h + 1, x) /\ Len(x) \in Nat
      /\ Field[h + 1 + Len(x)] = Quote /\ h + 1 + Len(x) <= Len(Field)
      /\ h + Len(ParamValue(p)) = h + 1 + Len(x) + 1
  BY <1>2, <1>3, <1>5, <1>6, QuotedReads
<1>8. h + 1 \in Nat \ {0}
  BY <1>6
<1>9. n = h + 1 + Len(x)
  <2>1. ReadsIn(Field, k, Escaped(v)) /\ k \in Nat \ {0}
    BY <1>0, <1>7, <1>8
  <2>2. EscapedTo(k, v, Len(v)) = k + Len(Escaped(v))
    BY <1>3, <1>4, <2>1, EscapeIsAt, SMTT(30)
  <2> QED
    BY <1>0, <2>2
<1> HIDE DEF x
<1>10. n \in Nat \ {0}
  BY <1>7, <1>8, <1>9, SMTT(30)
<1>11. b = n + 1
  BY <1>2, <1>6, <1>7, <1>9
<1> QED
  BY <1>4, <1>7, <1>8, <1>9, <1>0, <1>10, <1>11 DEF b, x

(* One character of a quoted value, at c, and where the next one is, at w. *)
EscapeHere(t, v, m, c, w) ==
  /\ v[m] \in Marked =>
       t[c] = Backslash /\ t[c + 1] = v[m] /\ c + 1 <= Len(t) /\ w = c + 2
  /\ v[m] \notin Marked => t[c] = v[m] /\ c <= Len(t) /\ w = c + 1

LEMMA EscapeAt ==
  ASSUME NEW t \in Text, NEW k \in Nat \ {0}, NEW v \in Text, ReadsIn(t, k, Escaped(v)),
         NEW m \in 1..Len(v), NEW c, c = EscapedTo(k, v, m - 1), NEW w, w = EscapedTo(k, v, m)
  PROVE  EscapeHere(t, v, m, c, w)
<1> DEFINE d == EscapedTo(k, v, m - 1)
<1>1. IF v[m] \in Marked
      THEN /\ t[d] = Backslash /\ t[d + 1] = v[m] /\ d + 1 <= Len(t)
           /\ EscapedTo(k, v, m) = d + 2
      ELSE t[d] = v[m] /\ d <= Len(t) /\ EscapedTo(k, v, m) = d + 1
  BY EscapeIsAt
<1>2. d = c
  OBVIOUS
<1> HIDE DEF d
<1> QED
  BY <1>1, <1>2 DEF EscapeHere

CharPlace == IF Holds(at, Backslash) THEN at + 1 ELSE at

(* Where the parser is in a quoted value: at a character of it, or its end. *)
QuoteHere(v, k, m, b) ==
  /\ m = Len(v) => Holds(at, Quote) /\ at + 1 = b /\ ~(at > Len(Field))
  /\ m # Len(v) => /\ m + 1 \in 1..Len(v) /\ at <= Len(Field) /\ ~Holds(at, Quote)
                   /\ CharPlace <= Len(Field) /\ Field[CharPlace] = v[m + 1]
                   /\ CharPlace + 1 = EscapedTo(k, v, m + 1)

LEMMA QuoteNow ==
  ASSUME NEW es, NEW e, Reading(es, e), NEW j \in 1..Len(es[e].params),
         NEW p, p = es[e].params[j], NEW v, v = p.value,
         NEW k, k = ValueAt(ParamAt(es, e, j - 1), p) + 1,
         NEW m, ValueRead(es[e], ParamAt(es, e, j - 1), j, m, at, params, name, text)
  PROVE  v \in Text /\ QuoteHere(v, k, m, ParamAt(es, e, j))
<1> DEFINE b == ParamAt(es, e, j)  n == EscapedTo(k, v, Len(v))
<1>1. p.form = "quoted" /\ at = EscapedTo(k, v, m) /\ m \in 0..Len(v)
  BY DEF ValueRead
<1>2. /\ v \in Text /\ k \in Nat \ {0} /\ ReadsIn(Field, k, Escaped(v))
      /\ Field[n] = Quote /\ n <= Len(Field) /\ n \in Nat \ {0} /\ b = n + 1
  <2>1. n = EscapedTo(k, v, Len(v)) /\ b = ParamAt(es, e, j)
    OBVIOUS
  <2> HIDE DEF n, b
  <2>2. v \in Text /\ k \in Nat \ {0} /\ ReadsIn(Field, k, Escaped(v))
    BY <1>1, <2>1, QuotePlace, SMTT(30)
  <2>3. Field[n] = Quote /\ n <= Len(Field) /\ n \in Nat \ {0}
    BY <1>1, <2>1, QuotePlace
  <2>4. b = n + 1
    BY <1>1, <2>1, QuotePlace, SMTT(30)
  <2> QED
    BY <2>2, <2>3, <2>4
<1>3. AtField
  BY DEF Reading, InField
<1>4. Field \in Text /\ Len(Field) \in Nat
  BY <1>3, FieldIsText
<1> HIDE DEF b
<1>5. Len(v) \in Nat
  BY <1>2 DEF Text
<1>6. ASSUME m = Len(v) PROVE Holds(at, Quote) /\ at + 1 = b /\ ~(at > Len(Field))
  <2>1. at = n
    BY <1>1, <1>6
  <2> HIDE DEF n
  <2> QED
    BY <1>2, <1>4, <2>1 DEF Holds
<1>7. ASSUME m # Len(v)
      PROVE  /\ m + 1 \in 1..Len(v) /\ at <= Len(Field) /\ ~Holds(at, Quote)
             /\ CharPlace <= Len(Field) /\ Field[CharPlace] = v[m + 1]
             /\ CharPlace + 1 = EscapedTo(k, v, m + 1)
  <2> DEFINE i == m + 1  w == EscapedTo(k, v, i)
  <2>1. i \in 1..Len(v) /\ i - 1 = m
    BY <1>1, <1>5, <1>7
  <2>2. at \in Nat \ {0}
    BY <1>1, <1>2, <1>4, EscapeIsAt
  <2> HIDE DEF i
  <2>3. EscapedTo(k, v, i - 1) = at
    BY <1>1, <2>1
  <2>4. /\ v[i] \in Marked => /\ Field[at] = Backslash /\ Field[at + 1] = v[i]
                               /\ at + 1 <= Len(Field) /\ w = at + 2
        /\ v[i] \notin Marked => Field[at] = v[i] /\ at <= Len(Field) /\ w = at + 1
    <3>1. w = EscapedTo(k, v, i)
      OBVIOUS
    <3> HIDE DEF w
    <3>2. /\ Field \in Text /\ k \in Nat \ {0} /\ v \in Text /\ ReadsIn(Field, k, Escaped(v))
          /\ i \in 1..Len(v) /\ at = EscapedTo(k, v, i - 1)
      BY <1>2, <1>4, <2>1, <2>3
    <3>3. EscapeHere(Field, v, i, at, w)
      BY <3>1, <3>2, EscapeAt
    <3> QED
      BY <3>3 DEF EscapeHere
  <2> HIDE DEF w
  <2>5. Backslash # Quote /\ Backslash \in Marked /\ Quote \in Marked
    BY DEF Marked, Backslash, Quote
  <2>6. CASE v[i] \in Marked
    <3>1. at <= Len(Field)
      BY <1>4, <2>2, <2>4, <2>6
    <3>2. Holds(at, Backslash) /\ ~Holds(at, Quote)
      BY <2>4, <2>5, <2>6, <3>1 DEF Holds
    <3>3. CharPlace = at + 1
      BY <3>2 DEF CharPlace
    <3>4. CharPlace + 1 = w
      BY <2>2, <2>4, <2>6, <3>3
    <3> QED
      BY <2>1, <2>4, <2>6, <3>1, <3>2, <3>3, <3>4 DEF i, w
  <2>7. CASE v[i] \notin Marked
    <3>1. at <= Len(Field) /\ Field[at] \notin Marked
      BY <2>4, <2>7
    <3>2. ~Holds(at, Backslash) /\ ~Holds(at, Quote)
      BY <2>5, <3>1 DEF Holds
    <3>3. CharPlace = at
      BY <3>2 DEF CharPlace
    <3>4. CharPlace + 1 = w
      BY <2>4, <2>7, <3>3
    <3> QED
      BY <2>1, <2>4, <2>7, <3>1, <3>2, <3>3, <3>4 DEF i, w
  <2> QED
    BY <2>6, <2>7
<1> QED
  BY <1>2, <1>6, <1>7 DEF b, QuoteHere

(* The value ends at its closing quote, with every character taken. *)
LEMMA QuoteEndStep ==
  ASSUME TypeOK, LinkInv, Fine(page), QuotedEnds
  PROVE  ParamFrom(page, f, at', target, params', targets)
<1> DEFINE es == page.fields[f]
<1>1. /\ pc = "quoted"
      /\ at > Len(Field) \/ Holds(at, Quote)
      /\ params' = withParam(name, text) /\ at' = IF at > Len(Field) THEN at ELSE at + 1
  BY DEF QuotedEnds, Quote
<1>2. PICK e \in 1..Len(es) :
        /\ AtLink(page, f, e, target, targets)
        /\ \E j \in 1..Len(es[e].params) : \E m \in 0..Len(es[e].params[j].value) :
             ValueRead(es[e], ParamAt(es, e, j - 1), j, m, at, params, name, text)
  BY <1>1 DEF LinkInv, QuoteAt
<1>3. PICK j \in 1..Len(es[e].params) : \E m \in 0..Len(es[e].params[j].value) :
             ValueRead(es[e], ParamAt(es, e, j - 1), j, m, at, params, name, text)
  BY <1>2
<1>4. PICK m \in 0..Len(es[e].params[j].value) :
             ValueRead(es[e], ParamAt(es, e, j - 1), j, m, at, params, name, text)
  BY <1>3
<1>5. InField(es) /\ \A i \in 1..Len(es) : WellFormed(es[i])
  BY <1>1, FieldNow
<1>6. es[e].link
  BY <1>2 DEF AtLink
<1> HIDE DEF es
<1>7. Reading(es, e)
  BY <1>5, <1>6 DEF Reading
<1> DEFINE p == es[e].params[j]  v == p.value  b == ParamAt(es, e, j)
<1>8. /\ v \in Text
      /\ m = Len(v) => Holds(at, Quote) /\ at + 1 = b /\ ~(at > Len(Field))
      /\ m # Len(v) => at <= Len(Field) /\ ~Holds(at, Quote)
  <2> DEFINE k == ValueAt(ParamAt(es, e, j - 1), p) + 1
  <2>1. p = es[e].params[j] /\ v = p.value /\ k = ValueAt(ParamAt(es, e, j - 1), p) + 1
        /\ b = ParamAt(es, e, j)
    OBVIOUS
  <2> HIDE DEF p, v, b, k
  <2> QED
    BY <1>4, <1>7, <2>1, QuoteNow DEF QuoteHere
<1>9. p.form = "quoted" /\ params = SaidTo(es[e], j - 1) /\ name = p.name /\ text = SubSeq(v, 1, m)
  BY <1>4 DEF ValueRead
<1>10. at \in Nat /\ Len(Field) \in Nat
  BY <1>1, FieldNow
<1>11. m = Len(v) /\ at' = b
  <2> HIDE DEF p, v, b
  <2> QED
    BY <1>1, <1>8, <1>10
<1>12. text = v
  BY <1>8, <1>9, <1>11, SubSeqFull DEF Text
<1>13. params' = SaidTo(es[e], j)
  <2>1. es[e] \in Element /\ WellFormed(es[e])
    BY <1>5 DEF InField
  <2>2. p.form # "bare"
    BY <1>9
  <2>3. withParam(p.name, p.value) = SaidTo(es[e], j)
    BY <1>6, <1>9, <2>1, <2>2, ParamSaid
  <2> QED
    BY <1>1, <1>9, <1>12, <2>3
<1>14. j \in 0..Len(es[e].params)
  <2>1. es[e] \in Element
    BY <1>5 DEF InField
  <2>2. es[e].params \in Seq(Param)
    BY <1>6, <2>1, ElementType
  <2> QED
    BY <2>2
<1>15. BlanksTo(es, b, at')
  <2>1. b \in 1..(Len(Field) + 1)
    BY <1>7, <1>14, ParamStops
  <2> QED
    BY <1>5, <1>11, <2>1, BlanksFrom
<1> QED
  BY <1>2, <1>13, <1>14, <1>15 DEF ParamFrom, es

LEMMA CharStep ==
  ASSUME TypeOK, LinkInv, Fine(page), QuotedChar
  PROVE  QuoteAt(page, f, at', target, params, name, text', targets)
<1> DEFINE es == page.fields[f]
<1>1. /\ pc = "quoted" /\ ~Holds(at, Quote)
      /\ CharPlace <= Len(Field) =>
           text' = Append(text, Field[CharPlace]) /\ at' = CharPlace + 1
  BY DEF QuotedChar, Quote, CharPlace, Backslash
<1>2. PICK e \in 1..Len(es) :
        /\ AtLink(page, f, e, target, targets)
        /\ \E j \in 1..Len(es[e].params) : \E m \in 0..Len(es[e].params[j].value) :
             ValueRead(es[e], ParamAt(es, e, j - 1), j, m, at, params, name, text)
  BY <1>1 DEF LinkInv, QuoteAt
<1>3. PICK j \in 1..Len(es[e].params) : \E m \in 0..Len(es[e].params[j].value) :
             ValueRead(es[e], ParamAt(es, e, j - 1), j, m, at, params, name, text)
  BY <1>2
<1>4. PICK m \in 0..Len(es[e].params[j].value) :
             ValueRead(es[e], ParamAt(es, e, j - 1), j, m, at, params, name, text)
  BY <1>3
<1>5. InField(es) /\ \A i \in 1..Len(es) : WellFormed(es[i])
  BY <1>1, FieldNow
<1>6. es[e].link
  BY <1>2 DEF AtLink
<1> HIDE DEF es
<1>7. Reading(es, e)
  BY <1>5, <1>6 DEF Reading
<1> DEFINE p == es[e].params[j]  v == p.value  b == ParamAt(es, e, j - 1)
           k == ValueAt(b, p) + 1  n == m + 1
<1>8. /\ v \in Text
      /\ m = Len(v) => Holds(at, Quote)
      /\ m # Len(v) => /\ n \in 1..Len(v)
                       /\ CharPlace <= Len(Field) /\ Field[CharPlace] = v[n]
                       /\ CharPlace + 1 = EscapedTo(k, v, n)
  <2>1. p = es[e].params[j] /\ v = p.value /\ k = ValueAt(ParamAt(es, e, j - 1), p) + 1
    OBVIOUS
  <2> HIDE DEF p, v, b, k
  <2>2. /\ v \in Text
        /\ m = Len(v) => Holds(at, Quote)
        /\ m # Len(v) => /\ m + 1 \in 1..Len(v)
                         /\ CharPlace <= Len(Field) /\ Field[CharPlace] = v[m + 1]
                         /\ CharPlace + 1 = EscapedTo(k, v, m + 1)
    <3>1. v \in Text /\ QuoteHere(v, k, m, ParamAt(es, e, j))
      BY <1>3, <1>4, <1>7, <2>1, QuoteNow
    <3> QED
      BY <3>1 DEF QuoteHere
  <2> QED
    BY <2>2
<1>9. j \in 1..Len(es[e].params) /\ p.form = "quoted" /\ params = SaidTo(es[e], j - 1) /\ name = p.name
      /\ text = SubSeq(v, 1, m)
  BY <1>4 DEF ValueRead
<1> HIDE DEF p, v, b, k
<1>10. n \in 1..Len(v) /\ at' = EscapedTo(k, v, n) /\ text' = Append(text, v[n])
  BY <1>1, <1>8
<1>11. text' = SubSeq(v, 1, n)
  <2>1. v \in Seq(Symbol) /\ Len(v) \in Nat
    BY <1>8 DEF Text
  <2>2. n - 1 = m /\ n \in Nat
    BY <1>10
  <2>3. SubSeq(v, 1, n) = SubSeq(v, 1, n - 1) \o <<v[n]>>
    <3>1. 1 \in 1..Len(v) /\ n \in 1..Len(v)
      BY <1>10, <2>1
    <3> HIDE DEF n
    <3> QED
      BY <2>1, <3>1, SubSeqRecursiveSecond
  <2>4. text \in Seq(Symbol) /\ v[n] \in Symbol
    BY <1>10, <2>1 DEF TypeOK, Text
  <2>5. Append(text, v[n]) = text \o <<v[n]>>
    <3> HIDE DEF n
    <3> QED
      BY <2>4
  <2> QED
    BY <1>9, <1>10, <2>2, <2>3, <2>5
<1>12. n \in 0..Len(v)
  BY <1>8, <1>10 DEF Text
<1> HIDE DEF n
<1>13. ValueRead(es[e], b, j, n, at', params, name, text')
  BY <1>9, <1>10, <1>11, <1>12 DEF ValueRead, k, v, p
<1> QED
  BY <1>2, <1>9, <1>12, <1>13 DEF QuoteAt, es, b, v, p

LEMMA LinkInit == Init => LinkInv
<1> SUFFICES ASSUME Init PROVE LinkInv
  OBVIOUS
<1>1. /\ page \in Page /\ fields = [k \in DOMAIN page.fields |-> Render(page.fields[k])]
      /\ pc = (IF fields = <<>> THEN "head" ELSE "link") /\ f = 1 /\ at = 1 /\ targets = <<>>
  BY PagesAssumption DEF Init
<1>2. /\ page.fields \in Seq(Seq(Element))
      /\ MeantAll(page) \in Seq(Seq(Text)) /\ Len(MeantAll(page)) = Len(page.fields)
  BY <1>1, MeantAllType
<1>3. Len(fields) = Len(page.fields) /\ fields \in Seq(Text)
  <2>1. fields \in Seq(Text)
    BY TypeInit DEF TypeOK
  <2>2. DOMAIN fields = DOMAIN page.fields
    BY <1>1
  <2> QED
    BY <1>2, <2>1, <2>2
<1>4. pc \in {"link", "head"}
  BY <1>1
<1>5. ASSUME pc = "link" PROVE LinkAt(page, f, at, targets)
  <2> DEFINE es == page.fields[1]
  <2>1. 1 \in 1..Len(page.fields)
    BY <1>1, <1>2, <1>3, <1>5
  <2>2. Before(page, 1, 1) = <<>>
    BY <1>1, <2>1, BeforeFields
  <2>3. es \in Seq(Element)
    BY <1>2, <2>1
  <2>4. Begin(es, 1) = 1 /\ 1 \in 1..(Len(es) + 1)
    BY <2>3, FieldBounds
  <2> QED
    BY <1>1, <2>2, <2>4 DEF LinkAt
<1>6. ASSUME pc = "head" PROVE targets = FlattenSeq(MeantAll(page))
  <2>1. fields = <<>>
    BY <1>1, <1>6
  <2>2. MeantAll(page) = <<>>
    BY <1>2, <1>3, <2>1
  <2> QED
    BY <1>1, <2>2, FlattenEmpty
<1> QED
  BY <1>1, <1>4, <1>5, <1>6 DEF LinkInv

LEMMA LinkInvStep == TypeOK /\ LinkInv /\ [Next]_vars => LinkInv'
<1> SUFFICES ASSUME TypeOK, LinkInv, [Next]_vars PROVE LinkInv'
  OBVIOUS
<1> DEFINE Read == targets = FlattenSeq(MeantAll(page))
<1>1. page' = page /\ fields' = fields
  BY DEF Next, vars, SkipJunk, FieldEnds, OpenLink, ParamsEnd, ReadParam, QuotedEnds, QuotedChar,
         ReadToken, HeadEnds
<1>2. fields' = [k \in DOMAIN page'.fields |-> Render(page'.fields[k])]
  BY <1>1 DEF LinkInv
<1> SUFFICES ASSUME Fine(page)
             PROVE  /\ pc' = "link" => LinkAt(page', f', at', targets')
                    /\ pc' = "param" => ParamFrom(page', f', at', target', params', targets')
                    /\ pc' = "quoted" =>
                         QuoteAt(page', f', at', target', params', name', text', targets')
                    /\ pc' \in {"head", "done"} => targets' = FlattenSeq(MeantAll(page'))
  BY <1>1, <1>2 DEF LinkInv
<1>3. CASE SkipJunk
  <2>1. pc' = "link" /\ f' = f /\ targets' = targets
    BY <1>3 DEF SkipJunk
  <2>2. LinkAt(page, f, at', targets)
    BY <1>3, JunkStep
  <2> QED
    BY <1>1, <2>1, <2>2
<1>4. CASE FieldEnds
  <2>1. /\ pc' = IF f = Len(fields) THEN "head" ELSE "link"
        /\ pc = "link" /\ f' = f + 1 /\ at' = 1 /\ targets' = targets
    BY <1>4 DEF FieldEnds
  <2>2. Len(fields) = Len(page.fields)
    BY <2>1, FieldNow
  <2>3. /\ f = Len(page.fields) => targets = FlattenSeq(MeantAll(page))
        /\ f # Len(page.fields) => LinkAt(page, f + 1, 1, targets)
    BY <1>4, FieldStep
  <2>4. CASE f = Len(page.fields)
    BY <1>1, <2>1, <2>2, <2>3, <2>4
  <2>5. CASE f # Len(page.fields)
    BY <1>1, <2>1, <2>2, <2>3, <2>5
  <2> QED
    BY <2>4, <2>5
<1>5. CASE OpenLink
  <2>1. pc' = "param" /\ f' = f /\ targets' = targets
    BY <1>5 DEF OpenLink
  <2>2. ParamFrom(page, f, at', target', params', targets)
    BY <1>5, OpenStep
  <2> QED
    BY <1>1, <2>1, <2>2
<1>6. CASE ParamsEnd
  <2>1. pc' = "link" /\ f' = f
    BY <1>6 DEF ParamsEnd
  <2>2. LinkAt(page, f, at', targets')
    BY <1>6, EndStep
  <2> QED
    BY <1>1, <2>1, <2>2
<1>7. CASE ReadParam
  <2>1. f' = f /\ target' = target /\ targets' = targets
    BY <1>7 DEF ReadParam
  <2>2. \/ pc' = "param" /\ ParamFrom(page, f, at', target, params', targets)
        \/ pc' = "quoted" /\ QuoteAt(page, f, at', target, params', name', text', targets)
    BY <1>7, ReadStep
  <2> QED
    BY <1>1, <2>1, <2>2
<1>8. CASE QuotedEnds
  <2>1. pc' = "param" /\ f' = f /\ target' = target /\ targets' = targets
    BY <1>8 DEF QuotedEnds
  <2>2. ParamFrom(page, f, at', target, params', targets)
    BY <1>8, QuoteEndStep
  <2> QED
    BY <1>1, <2>1, <2>2
<1>9. CASE QuotedChar
  <2>1. /\ pc' = pc /\ pc = "quoted" /\ f' = f /\ target' = target /\ params' = params
        /\ name' = name /\ targets' = targets
    BY <1>9 DEF QuotedChar
  <2>2. QuoteAt(page, f, at', target, params, name, text', targets)
    BY <1>9, CharStep
  <2> QED
    BY <1>1, <2>1, <2>2
<1>10. CASE ReadToken \/ HeadEnds
  <2>1. pc = "head" /\ pc' \in {"head", "done"} /\ targets' = targets
    BY <1>10 DEF ReadToken, HeadEnds
  <2>2. targets = FlattenSeq(MeantAll(page))
    BY <2>1 DEF LinkInv
  <2> QED
    BY <1>1, <2>1, <2>2
<1>11. CASE UNCHANGED vars
  <2>1. /\ pc' = pc /\ f' = f /\ at' = at /\ target' = target /\ params' = params
        /\ name' = name /\ text' = text /\ targets' = targets
    BY <1>11 DEF vars
  <2> QED
    BY <1>1, <2>1 DEF LinkInv
<1> QED
  BY <1>3, <1>4, <1>5, <1>6, <1>7, <1>8, <1>9, <1>10, <1>11 DEF Next

(* The targets found are those the fields name, all of them and in order,   *)
(* for fields of any length with any number of links and parameters, and    *)
(* whatever commas, quotes, escapes, blanks and junk are in and between the *)
(* links of a well-formed field (link.go:26-184).                           *)
THEOREM LinksAreWritten == Spec => []LinksAsWritten
<1>1. Init => TypeOK /\ LinkInv
  BY TypeInit, LinkInit
<1>2. TypeOK /\ LinkInv /\ [Next]_vars => TypeOK' /\ LinkInv'
  BY TypeStep, LinkInvStep
<1>3. TypeOK /\ LinkInv => LinksAsWritten
  <2> SUFFICES ASSUME LinkInv, pc = "done",
                      \A n \in DOMAIN page.fields : \A k \in DOMAIN page.fields[n] :
                        WellFormed(page.fields[n][k])
               PROVE  targets = FlattenSeq([n \in DOMAIN page.fields |-> Meant(page.fields[n])])
    BY DEF LinksAsWritten
  <2>1. Fine(page)
    BY DEF Fine
  <2>2. targets = FlattenSeq(MeantAll(page))
    BY <2>1 DEF LinkInv
  <2> QED
    BY <2>2 DEF MeantAll
<1> QED
  BY <1>1, <1>2, <1>3, PTL DEF Spec

=============================================================================

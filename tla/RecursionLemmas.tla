-------------------------- MODULE RecursionLemmas --------------------------
(***************************************************************************)
(* Induction and recursion, stated with sets and functions in place of     *)
(* operators, for the recursive functions of the specifications.           *)
(***************************************************************************)
EXTENDS Integers, WellFoundedInduction, TLAPS

LEMMA LeastOfNaturals ==
  ASSUME NEW T, T \subseteq Nat, T # {}
  PROVE  \E n \in T : \A k \in T : n <= k
<1>1. PICK n \in T : \A k \in T : <<k, n>> \notin OpToRel(<, Nat)
  BY NatLessThanWellFounded, WFMin
<1>2. \A k \in T : ~ (k < n)
  BY <1>1, Zenon DEF OpToRel
<1> QED
  BY <1>2

(* Induction over the natural numbers: T is the set of those that have the *)
(* property.                                                               *)
LEMMA Induction ==
  ASSUME NEW T, 0 \in T, \A n \in Nat : n \in T => n + 1 \in T
  PROVE  \A n \in Nat : n \in T
<1> SUFFICES ASSUME Nat \ T # {} PROVE FALSE
  OBVIOUS
<1>1. PICK n \in Nat \ T : \A k \in Nat \ T : n <= k
  BY LeastOfNaturals
<1> QED
  BY <1>1

(* f starts with zero and goes on from each value as next says, up to N. *)
IsRecursion(f, zero, N, next) ==
  f[0] = zero /\ \A k \in 1..N : f[k] = next[<<f[k - 1], k>>]

StaysIn(next, V, N) == \A v \in V, k \in 1..N : next[<<v, k>>] \in V

LEMMA RecursionExists ==
  ASSUME NEW V, NEW zero \in V, NEW N \in Nat, NEW next, StaysIn(next, V, N)
  PROVE  \E f \in [0..N -> V] : IsRecursion(f, zero, N, next)
<1> USE DEF IsRecursion, StaysIn
<1> DEFINE Upto(n, f) == IsRecursion(f, zero, n, next)
           T == {n \in Nat : n <= N => \E f \in [0..n -> V] : Upto(n, f)}
<1>1. 0 \in T
  <2>1. [k \in 0..0 |-> zero] \in [0..0 -> V] /\ Upto(0, [k \in 0..0 |-> zero])
    OBVIOUS
  <2> QED
    BY <2>1
<1>2. ASSUME NEW n \in Nat, n \in T PROVE n + 1 \in T
  <2> SUFFICES ASSUME n + 1 <= N PROVE \E f \in [0..(n + 1) -> V] : Upto(n + 1, f)
    OBVIOUS
  <2>1. PICK f \in [0..n -> V] : Upto(n, f)
    BY <1>2
  <2> DEFINE g == [k \in 0..(n + 1) |-> IF k = n + 1 THEN next[<<f[n], n + 1>>] ELSE f[k]]
  <2>2. f[n] \in V /\ n + 1 \in 1..N
    OBVIOUS
  <2>3. g \in [0..(n + 1) -> V]
    <3> SUFFICES ASSUME NEW k \in 0..(n + 1) PROVE g[k] \in V
      OBVIOUS
    <3>1. CASE k = n + 1
      BY <2>2, <3>1
    <3>2. CASE k # n + 1
      BY <3>2
    <3> QED
      BY <3>1, <3>2
  <2>4. g[0] = zero
    BY <2>1
  <2>5. g[n + 1] = next[<<f[n], n + 1>>] /\ \A k \in 0..n : g[k] = f[k]
    OBVIOUS
  <2> HIDE DEF g
  <2>6. ASSUME NEW k \in 1..(n + 1) PROVE g[k] = next[<<g[k - 1], k>>]
    <3>1. k - 1 \in 0..n /\ g[k - 1] = f[k - 1]
      BY <2>5
    <3>2. CASE k = n + 1
      BY <2>5, <3>1, <3>2
    <3>3. CASE k # n + 1
      BY <2>1, <2>5, <3>1, <3>3
    <3> QED
      BY <3>2, <3>3
  <2> QED
    BY <2>3, <2>4, <2>6
<1> HIDE DEF T
<1>3. N \in T
  BY <1>1, <1>2, Induction
<1> QED
  BY <1>3 DEF T

(* The same on all the natural numbers. *)
LEMMA RecursionIsUnique ==
  ASSUME NEW zero, NEW next, NEW n \in Nat, NEW m \in Nat, NEW f, NEW g,
         IsRecursion(f, zero, n, next), IsRecursion(g, zero, m, next)
  PROVE  \A k \in Nat : k <= n /\ k <= m => f[k] = g[k]
<1> USE DEF IsRecursion
<1> DEFINE T == {k \in Nat : k <= n /\ k <= m => f[k] = g[k]}
<1>1. 0 \in T
  OBVIOUS
<1>2. ASSUME NEW k \in Nat, k \in T PROVE k + 1 \in T
  <2> SUFFICES ASSUME k + 1 <= n, k + 1 <= m PROVE f[k + 1] = g[k + 1]
    OBVIOUS
  <2>1. k + 1 \in 1..n /\ k + 1 \in 1..m /\ (k + 1) - 1 = k /\ f[k] = g[k]
    BY <1>2
  <2>2. f[k + 1] = next[<<f[k], k + 1>>] /\ g[k + 1] = next[<<g[k], k + 1>>]
    BY <2>1
  <2> QED
    BY <2>1, <2>2
<1> HIDE DEF T
<1>3. \A k \in Nat : k \in T
  BY <1>1, <1>2, Induction
<1> QED
  BY <1>3 DEF T

StaysInNat(next, V) == \A v \in V, k \in Nat : next[<<v, k>>] \in V

LEMMA RecursionOnNaturals ==
  ASSUME NEW V, NEW zero \in V, NEW next, StaysInNat(next, V)
  PROVE  \E f \in [Nat -> V] :
           f[0] = zero /\ \A k \in Nat : f[k + 1] = next[<<f[k], k + 1>>]
<1> DEFINE Upto(n, g) == g \in [0..n -> V] /\ IsRecursion(g, zero, n, next)
           G(n) == CHOOSE g : Upto(n, g)
           f == [n \in Nat |-> G(n)[n]]
<1>1. ASSUME NEW n \in Nat PROVE Upto(n, G(n))
  <2>1. ASSUME NEW v \in V, NEW k \in 1..n PROVE next[<<v, k>>] \in V
    <3>1. k \in Nat
      OBVIOUS
    <3> QED
      BY <3>1 DEF StaysInNat
  <2>0. StaysIn(next, V, n)
    BY <2>1 DEF StaysIn
  <2>2. \E g : Upto(n, g)
    BY <2>0, RecursionExists
  <2> HIDE DEF Upto
  <2> QED
    BY <2>2
<1> HIDE DEF G
<1>2. \A n \in Nat : G(n)[n] \in V
  BY <1>1
<1>3. f \in [Nat -> V]
  BY <1>2
<1>4. f[0] = zero
  BY <1>1 DEF IsRecursion
<1>5. ASSUME NEW k \in Nat PROVE f[k + 1] = next[<<f[k], k + 1>>]
  <2>1. IsRecursion(G(k), zero, k, next) /\ IsRecursion(G(k + 1), zero, k + 1, next)
    BY <1>1
  <2>2. k <= k /\ k <= k + 1 /\ k + 1 \in Nat /\ k + 1 \in 1..(k + 1) /\ (k + 1) - 1 = k
    OBVIOUS
  <2>3. G(k)[k] = G(k + 1)[k]
    BY <2>1, <2>2, RecursionIsUnique
  <2>4. G(k + 1)[k + 1] = next[<<G(k + 1)[k], k + 1>>]
    BY <2>1, <2>2 DEF IsRecursion
  <2> QED
    BY <2>2, <2>3, <2>4
<1> QED
  BY <1>3, <1>4, <1>5
=============================================================================

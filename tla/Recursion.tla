------------------------------ MODULE Recursion ------------------------------
(***************************************************************************)
(* Induction for the proofs about loops.  A loop of the code over n places *)
(* is modelled as a function defined by recursion on 0..n; these lemmas    *)
(* say that such a function exists, so that what it computes can be proved *)
(* for any n.                                                              *)
(***************************************************************************)
EXTENDS Integers, WellFoundedInduction, TLAPS

\* A set of naturals that is not empty has a least element.
LEMMA LeastNat ==
  ASSUME NEW T \in SUBSET Nat, T # {}
  PROVE  \E n \in T : \A m \in T : n <= m
<1>1. \E x \in T : \A y \in T : ~(<<y, x>> \in OpToRel(<, Nat))
  BY WFMin, NatLessThanWellFounded, Zenon
<1>2. PICK x \in T : \A y \in T : ~(<<y, x>> \in OpToRel(<, Nat))
  BY <1>1
<1>3. \A y \in T : ~(y < x)
  BY <1>2 DEF OpToRel
<1> QED BY <1>3

\* Induction up to n: T are the places at which something holds.
LEMMA InductionUpTo ==
  ASSUME NEW n \in Nat, NEW T, 0 \in T, \A k \in 1..n : k - 1 \in T => k \in T
  PROVE  \A k \in 0..n : k \in T
<1> DEFINE Bad == {k \in 0..n : k \notin T}
<1> SUFFICES ASSUME Bad # {} PROVE FALSE
  OBVIOUS
<1>1. PICK k \in Bad : \A j \in Bad : k <= j
  <2>1. Bad \in SUBSET Nat
    OBVIOUS
  <2> HIDE DEF Bad
  <2> QED BY <2>1, LeastNat
<1>2. k \in 1..n /\ k - 1 \in 0..n
  BY <1>1
<1>3. k - 1 \in T
  BY <1>1, <1>2
<1> QED BY <1>1, <1>2, <1>3

\* f goes from start by steps, which depend on the place.
IsRecursive(f, n, S, start, step) ==
  /\ f \in [0..n -> S]
  /\ f[0] = start
  /\ \A k \in 1..n : f[k] = step[<<k, f[k - 1]>>]

\* A function on 0..n can be defined by recursion.
LEMMA RecursiveFunction ==
  ASSUME NEW n \in Nat, NEW S, NEW start \in S, NEW step \in [(1..n) \X S -> S]
  PROVE  \E f : IsRecursive(f, n, S, start, step)
<1> DEFINE IsUpTo(f, m) == IsRecursive(f, m, S, start, step)
           T == {m \in 0..n : \E f : IsUpTo(f, m)}
<1>1. 0 \in T
  <2>1. IsUpTo([k \in 0..0 |-> start], 0)
    BY DEF IsRecursive
  <2> HIDE DEF IsUpTo
  <2> QED BY <2>1
<1>2. ASSUME NEW m \in 1..n, m - 1 \in T
      PROVE  m \in T
  <2>1. PICK f : IsUpTo(f, m - 1)
    BY <1>2
  <2> USE DEF IsRecursive
  <2> DEFINE g == [k \in 0..m |-> IF k = m THEN step[<<m, f[m - 1]>>] ELSE f[k]]
  <2>2. f[m - 1] \in S /\ step[<<m, f[m - 1]>>] \in S
    BY <2>1
  <2>3. g \in [0..m -> S]
    BY <2>1, <2>2
  <2>4. \A k \in 0..(m - 1) : g[k] = f[k]
    OBVIOUS
  <2>5. g[0] = start /\ g[m] = step[<<m, f[m - 1]>>]
    BY <2>1, <2>4
  <2> HIDE DEF g
  <2>6. \A k \in 1..m : g[k] = step[<<k, g[k - 1]>>]
    <3> TAKE k \in 1..m
    <3>1. k - 1 \in 0..(m - 1) /\ g[k - 1] = f[k - 1]
      BY <2>4
    <3>2. CASE k = m
      BY <2>5, <3>1, <3>2
    <3>3. CASE k # m
      <4>1. k \in 1..(m - 1) /\ k \in 0..(m - 1)
        BY <3>3
      <4>2. g[k] = f[k] /\ f[k] = step[<<k, f[k - 1]>>]
        BY <2>1, <2>4, <4>1
      <4> QED BY <3>1, <4>2
    <3> QED BY <3>2, <3>3
  <2>7. IsUpTo(g, m)
    BY <2>3, <2>5, <2>6
  <2> HIDE DEF IsUpTo
  <2> QED BY <2>7
<1> HIDE DEF T
<1>3. n \in T
  BY <1>1, <1>2, InductionUpTo
<1> QED BY <1>3 DEF T
=============================================================================

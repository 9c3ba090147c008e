----------------------------- MODULE DataLemmas -----------------------------
(***************************************************************************)
(* Induction over data, for the proofs about what the models compute by    *)
(* recursion.  The induction theorems of the library take the property as  *)
(* an operator; here it is a set of numbers, which every prover can choose *)
(* for itself.                                                             *)
(***************************************************************************)
EXTENDS Integers, Sequences, FiniteSetTheorems, TLAPS

(* A set of natural numbers that is not empty has a least element: its      *)
(* initial segments are finite sets, and those are well founded under       *)
(* strict inclusion.                                                        *)
LEMMA LeastNumber ==
    ASSUME NEW T, T \subseteq Nat, T # {}
    PROVE  \E n \in T : \A m \in T : n <= m
<1> DEFINE Segments == {0..n : n \in T}
<1>1. IsWellFoundedOn(StrictSubsetOrdering(Nat), FiniteSubsetsOf(Nat))
  BY FS_StrictSubsetOrderingWellFounded
<1>2. Segments \subseteq FiniteSubsetsOf(Nat)
  <2>1. \A n \in T : 0..n \subseteq Nat /\ IsFiniteSet(0..n)
    BY FS_Interval
  <2>2. QED
    BY <2>1 DEF FiniteSubsetsOf
<1>3. Segments # {}
  OBVIOUS
<1> HIDE DEF Segments
<1>4. PICK X \in Segments : \A Y \in Segments : <<Y, X>> \notin StrictSubsetOrdering(Nat)
  BY <1>1, <1>2, <1>3, WFMin, Zenon
<1>5. PICK n \in T : X = 0..n
  BY <1>4 DEF Segments
<1>6. ASSUME NEW m \in T, m < n
      PROVE  FALSE
  <2>1. 0..m \in Segments
    BY DEF Segments
  <2>2. 0..m \subseteq 0..n /\ n \in 0..n /\ n \notin 0..m
    BY <1>6
  <2>3. <<0..m, X>> \in StrictSubsetOrdering(Nat)
    BY <1>5, <2>2 DEF StrictSubsetOrdering
  <2>4. QED
    BY <1>4, <2>1, <2>3
<1>7. QED
  BY <1>6

(* Mathematical induction: a set that holds 0, and with every number the    *)
(* next one, holds them all.                                                *)
LEMMA Induction ==
    ASSUME NEW T, 0 \in T, \A n \in Nat : n \in T => n + 1 \in T
    PROVE  Nat \subseteq T
<1> SUFFICES ASSUME Nat \ T # {} PROVE FALSE
  OBVIOUS
<1>1. PICK n \in Nat \ T : \A m \in Nat \ T : n <= m
  BY LeastNumber
<1>2. n # 0 /\ n - 1 \in Nat /\ n - 1 \in T
  BY <1>1
<1>3. QED
  BY <1>1, <1>2

(* The same up to a bound.                                                  *)
LEMMA BoundedInduction ==
    ASSUME NEW N \in Nat, NEW T, 0 \in T, \A n \in 0..(N - 1) : n \in T => n + 1 \in T
    PROVE  0..N \subseteq T
<1> DEFINE U == {n \in Nat : n <= N => n \in T}
<1>1. 0 \in U /\ \A n \in Nat : n \in U => n + 1 \in U
  OBVIOUS
<1> HIDE DEF U
<1>2. Nat \subseteq U
  BY <1>1, Induction
<1>3. QED
  BY <1>2 DEF U

(* A function that is defined by recursion on the numbers up to a bound     *)
(* exists: one that starts with `first` and follows `step`.                 *)
LEMMA Recursion ==
    ASSUME NEW D, NEW first \in D, NEW step \in [Nat -> [D -> D]], NEW N \in Nat
    PROVE  \E f \in [0..N -> D] :
              f[0] = first /\ \A n \in 1..N : f[n] = step[n][f[n - 1]]
<1> DEFINE Follows(n, f) == /\ f \in [0..n -> D]
                            /\ f[0] = first
                            /\ \A k \in 1..n : f[k] = step[k][f[k - 1]]
           T == {n \in Nat : \E f : Follows(n, f)}
<1>1. 0 \in T
  <2>1. Follows(0, [k \in 0..0 |-> first])
    OBVIOUS
  <2>2. QED
    BY <2>1
<1>2. ASSUME NEW n \in Nat, n \in T
      PROVE  n + 1 \in T
  <2>1. PICK f : Follows(n, f)
    BY <1>2
  <2>2. f[n] \in D
    BY <2>1
  <2> DEFINE last == step[n + 1][f[n]]
  <2>3. last \in D
    <3>1. step[n + 1] \in [D -> D]
      OBVIOUS
    <3>2. QED
      BY <2>2, <3>1
  <2> HIDE DEF last
  <2> DEFINE g == [k \in 0..(n + 1) |-> IF k = n + 1 THEN last ELSE f[k]]
  <2>4. \A k \in 0..n : g[k] = f[k] /\ f[k] \in D
    BY <2>1
  <2>5. g[n + 1] = last
    OBVIOUS
  <2>6. g \in [0..(n + 1) -> D]
    <3>1. \A k \in 0..(n + 1) : k = n + 1 \/ k \in 0..n
      OBVIOUS
    <3>2. QED
      BY <2>3, <2>4, <3>1
  <2> HIDE DEF g
  <2>7. ASSUME NEW k \in 1..(n + 1)
        PROVE  g[k] = step[k][g[k - 1]]
    <3>1. k - 1 \in 0..n /\ g[k - 1] = f[k - 1]
      BY <2>4
    <3>2. CASE k = n + 1
      BY <2>5, <3>1, <3>2 DEF last
    <3>3. CASE k \in 1..n
      BY <2>1, <2>4, <3>1, <3>3
    <3>4. QED
      BY <3>2, <3>3
  <2>8. g[0] = first
    BY <2>1, <2>4
  <2>9. Follows(n + 1, g)
    BY <2>6, <2>7, <2>8
  <2>10. QED
    BY <2>9
<1> HIDE DEF T
<1>3. Nat \subseteq T
  BY <1>1, <1>2, Induction
<1>4. QED
  BY <1>3 DEF T

\* A loop over the numbers up to N that keeps, in order, the items picked.
Collects(f, N, picked, item) ==
    f = [n \in 0..N |-> IF n = 0 THEN <<>>
                        ELSE IF n \in picked THEN Append(f[n - 1], item[n])
                        ELSE f[n - 1]]

(* There is such a function.                                                *)
LEMMA CollectingExists ==
    ASSUME NEW N \in Nat, NEW picked, NEW item
    PROVE  \E f : Collects(f, N, picked, item)
<1> DEFINE E == Seq({item[k] : k \in picked})
           step == [n \in Nat |-> [s \in E |-> IF n \in picked THEN Append(s, item[n]) ELSE s]]
<1>1. \A n \in Nat, s \in E : (IF n \in picked THEN Append(s, item[n]) ELSE s) \in E
  OBVIOUS
<1>2. PICK empty \in E : empty = <<>>
  <2>1. <<>> \in E
    OBVIOUS
  <2>2. QED
    BY <2>1, Zenon
<1> HIDE DEF E
<1>3. step \in [Nat -> [E -> E]]
  BY <1>1
<1>4. PICK f \in [0..N -> E] : f[0] = empty /\ \A n \in 1..N : f[n] = step[n][f[n - 1]]
  <2> HIDE DEF step
  <2>1. QED
    BY <1>3, Recursion
<1>5. ASSUME NEW n \in 1..N
      PROVE  f[n] = IF n \in picked THEN Append(f[n - 1], item[n]) ELSE f[n - 1]
  <2>1. n - 1 \in 0..N
    OBVIOUS
  <2>2. f[n - 1] \in E
    BY <2>1
  <2>3. step[n] = [s \in E |-> IF n \in picked THEN Append(s, item[n]) ELSE s]
    OBVIOUS
  <2> HIDE DEF step
  <2>4. QED
    BY <1>4, <2>2, <2>3
<1>6. \A n \in 0..N : f[n] = IF n = 0 THEN <<>>
                             ELSE IF n \in picked THEN Append(f[n - 1], item[n])
                             ELSE f[n - 1]
  <2>1. \A n \in 0..N : n = 0 \/ n \in 1..N
    OBVIOUS
  <2>2. QED
    BY <1>2, <1>4, <1>5, <2>1
<1>7. f = [n \in 0..N |-> f[n]]
  OBVIOUS
<1>8. Collects(f, N, picked, item)
  BY <1>6, <1>7 DEF Collects
<1>9. QED
  BY <1>8

\* One turn of the loop.
LEMMA CollectsNext ==
    ASSUME NEW N \in Nat, NEW picked, NEW item, NEW f, Collects(f, N, picked, item),
           NEW n \in 0..(N - 1)
    PROVE  f[n + 1] = IF n + 1 \in picked THEN Append(f[n], item[n + 1]) ELSE f[n]
<1>1. n + 1 \in 0..N /\ n + 1 # 0 /\ (n + 1) - 1 = n
  OBVIOUS
<1>2. f[n + 1] = IF n + 1 \in picked THEN Append(f[(n + 1) - 1], item[n + 1])
                 ELSE f[(n + 1) - 1]
  BY <1>1, Zenon DEF Collects
<1>3. QED
  BY <1>1, <1>2

(* What it has kept at the end is among the items picked.                   *)
LEMMA Collecting ==
    ASSUME NEW N \in Nat, NEW picked \in SUBSET (1..N), NEW item, NEW f,
           Collects(f, N, picked, item),
           NEW D, \A k \in picked : item[k] \in D
    PROVE  f[N] \in Seq(D)
<1> DEFINE T == {n \in 0..N : f[n] \in Seq(D)}
<1>1. 0 \in T
  <2>1. f[0] = <<>> /\ <<>> \in Seq(D)
    BY DEF Collects
  <2>2. f[0] \in Seq(D) /\ 0 \in 0..N
    BY <2>1
  <2>3. QED
    BY <2>2
<1>2. ASSUME NEW n \in 0..(N - 1), n \in T
      PROVE  n + 1 \in T
  <2>1. f[n + 1] = IF n + 1 \in picked THEN Append(f[n], item[n + 1]) ELSE f[n]
    BY CollectsNext
  <2>2. f[n] \in Seq(D) /\ n + 1 \in 0..N
    BY <1>2
  <2>3. n + 1 \in picked => Append(f[n], item[n + 1]) \in Seq(D)
    BY <2>2
  <2>4. f[n + 1] \in Seq(D)
    BY <2>1, <2>2, <2>3
  <2>5. QED
    BY <2>2, <2>4
<1> HIDE DEF T
<1>3. 0..N \subseteq T
  BY <1>1, <1>2, BoundedInduction
<1>4. QED
  BY <1>3 DEF T

\* A sequence with every item picked.
HasAll(s, picked, item) == \A k \in picked : \E j \in 1..Len(s) : s[j] = item[k]

(* And every item picked is there.                                          *)
LEMMA CollectingAll ==
    ASSUME NEW N \in Nat, NEW picked \in SUBSET (1..N), NEW item, NEW f,
           Collects(f, N, picked, item)
    PROVE  HasAll(f[N], picked, item)
<1> SUFFICES ASSUME NEW k \in picked
             PROVE  \E j \in 1..Len(f[N]) : f[N][j] = item[k]
  BY DEF HasAll
<1> DEFINE D == {item[i] : i \in picked}
           T == {n \in 0..N : /\ f[n] \in Seq(D)
                              /\ k <= n => \E j \in 1..Len(f[n]) : f[n][j] = item[k]}
<1>1. k \in 1..N /\ \A i \in picked : item[i] \in D
  OBVIOUS
<1> HIDE DEF D
<1>2. 0 \in T
  <2>1. f[0] = <<>> /\ <<>> \in Seq(D)
    BY DEF Collects
  <2>2. f[0] \in Seq(D) /\ 0 \in 0..N
    BY <2>1
  <2>3. QED
    BY <1>1, <2>2
<1>3. ASSUME NEW n \in 0..(N - 1), n \in T
      PROVE  n + 1 \in T
  <2>1. f[n + 1] = IF n + 1 \in picked THEN Append(f[n], item[n + 1]) ELSE f[n]
    BY CollectsNext
  <2>2. CASE n + 1 \notin picked
    <3>1. k <= n + 1 => k <= n
      BY <1>1, <2>2
    <3>2. QED
      BY <1>3, <2>1, <2>2, <3>1
  <2>3. CASE n + 1 \in picked
    <3>1. item[n + 1] \in D /\ f[n] \in Seq(D) /\ f[n + 1] = Append(f[n], item[n + 1])
      BY <1>1, <1>3, <2>1, <2>3
    <3>2. /\ f[n + 1] \in Seq(D) /\ Len(f[n + 1]) = Len(f[n]) + 1 /\ Len(f[n]) \in Nat
          /\ f[n + 1][Len(f[n]) + 1] = item[n + 1]
          /\ \A j \in 1..Len(f[n]) : f[n + 1][j] = f[n][j]
      BY <3>1
    <3>3. ASSUME k <= n + 1
          PROVE  \E j \in 1..Len(f[n + 1]) : f[n + 1][j] = item[k]
      <4>1. CASE k = n + 1
        <5>1. Len(f[n]) + 1 \in 1..Len(f[n + 1])
          BY <3>2
        <5>2. QED
          BY <3>2, <4>1, <5>1
      <4>2. CASE k <= n
        BY <1>3, <3>2, <4>2
      <4>3. QED
        BY <1>1, <3>3, <4>1, <4>2
    <3>4. QED
      BY <3>2, <3>3
  <2>4. QED
    BY <2>2, <2>3
<1> HIDE DEF T
<1>4. 0..N \subseteq T
  BY <1>2, <1>3, BoundedInduction
<1>5. N \in T
  BY <1>4
<1>6. QED
  BY <1>1, <1>5 DEF T
=============================================================================

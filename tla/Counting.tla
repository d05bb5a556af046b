------------------------------ MODULE Counting ------------------------------
(***************************************************************************)
(* Lemmas about the number of elements of finite sets, for the bounds that *)
(* the components keep: on claims, repeats, articles and requests.         *)
(***************************************************************************)
EXTENDS FiniteSetTheorems, FunctionTheorems, TLAPS

(* Any set of numbers has a least one: induction, without a predicate.     *)
LEMMA LeastNumber ==
  ASSUME NEW D, D \subseteq Nat, D # {}
  PROVE  \E d \in D : \A e \in D : d <= e
<1> DEFINE R == {p \in Nat \X Nat : p[1] < p[2]}
<1>3. IsWellFoundedOn(R, Nat)
  BY NatLessThanWellFounded DEF OpToRel
<1>4. \A d, e \in Nat : <<d, e>> \in R <=> d < e
  OBVIOUS
<1> HIDE DEF R
<1>5. PICK d \in D : \A e \in D : ~(<<e, d>> \in R)
  BY <1>3, WFMin
<1>6. \A e \in D : ~(e < d)
  BY <1>4, <1>5
<1>7. \A e \in D : d <= e
  BY <1>6
<1> QED
  BY <1>7

(* One element more: the set grows by one at most.                         *)
LEMMA AtMostOneMore ==
  ASSUME NEW A, IsFiniteSet(A), NEW x, NEW B, B \subseteq A \cup {x}
  PROVE  IsFiniteSet(B) /\ Cardinality(B) <= Cardinality(A) + 1
<1>1. /\ IsFiniteSet(A \cup {x})
      /\ Cardinality(A \cup {x}) \in {Cardinality(A), Cardinality(A) + 1}
      /\ Cardinality(A) \in Nat
  BY FS_AddElement, FS_CardinalityType
<1>2. IsFiniteSet(B) /\ Cardinality(B) <= Cardinality(A \cup {x}) /\ Cardinality(B) \in Nat
  BY <1>1, FS_Subset, FS_CardinalityType
<1> QED
  BY <1>1, <1>2

(* ... and one element that goes leaves one less at least.                 *)
LEMMA AtLeastOneLess ==
  ASSUME NEW C, IsFiniteSet(C), NEW c \in C, NEW D, D \subseteq C \ {c}
  PROVE  IsFiniteSet(D) /\ Cardinality(D) <= Cardinality(C) - 1
<1>1. IsFiniteSet(C \ {c}) /\ Cardinality(C \ {c}) = Cardinality(C) - 1
  BY FS_RemoveElement
<1>2. IsFiniteSet(D) /\ Cardinality(D) <= Cardinality(C \ {c})
  BY <1>1, FS_Subset
<1> QED
  BY <1>1, <1>2

(* The first n numbers are n.                                              *)
LEMMA FirstNumbers == \A n \in Nat : IsFiniteSet(1 .. n) /\ Cardinality(1 .. n) = n
<1> SUFFICES ASSUME NEW n \in Nat PROVE IsFiniteSet(1 .. n) /\ Cardinality(1 .. n) = n
  OBVIOUS
<1> QED
  BY FS_Interval

(* A finite set of at most n elements is numbered by 1 to n.               *)
LEMMA Numbering ==
  ASSUME NEW S, IsFiniteSet(S), NEW n \in Nat, Cardinality(S) <= n
  PROVE  \E f : f \in Injection(S, 1 .. n)
<1>1. Cardinality(S) \in Nat /\ ExistsBijection(1 .. Cardinality(S), S)
  BY FS_CardinalityType
<1>2. ExistsBijection(S, 1 .. Cardinality(S))
  BY <1>1, Fun_ExistsBijSymmetric
<1>3. PICK f : f \in Bijection(S, 1 .. Cardinality(S))
  BY <1>2 DEF ExistsBijection
<1>4. f \in [S -> 1 .. Cardinality(S)] /\ IsInjective(f)
  BY <1>3 DEF Bijection, Injection
<1>5. f \in [S -> 1 .. n]
  <2>1. 1 .. Cardinality(S) \subseteq 1 .. n
    BY <1>1
  <2> QED
    BY <1>4, <2>1
<1> QED
  BY <1>4, <1>5 DEF Injection

(* A set whose elements belong to the elements of C, no more than n to any *)
(* of them, has no more than n times as many.                              *)
LEMMA CountByOwner ==
  ASSUME NEW T, NEW C, IsFiniteSet(C), NEW own \in [T -> C], NEW n \in Nat,
         \A c \in C : IsFiniteSet({t \in T : own[t] = c}) /\ Cardinality({t \in T : own[t] = c}) <= n
  PROVE  IsFiniteSet(T) /\ Cardinality(T) <= n * Cardinality(C)
<1> DEFINE K(c) == {t \in T : own[t] = c}
           h == [c \in C |-> CHOOSE f : f \in Injection(K(c), 1 .. n)]
           g == [t \in T |-> <<own[t], h[own[t]][t]>>]
<1>1. \A c \in C : h[c] \in Injection(K(c), 1 .. n)
  <2> SUFFICES ASSUME NEW c \in C PROVE h[c] \in Injection(K(c), 1 .. n)
    OBVIOUS
  <2>1. \E f : f \in Injection(K(c), 1 .. n)
    BY Numbering
  <2> QED
    BY <2>1
<1> HIDE DEF h
<1>2. \A t \in T : own[t] \in C /\ h[own[t]][t] \in 1 .. n
  BY <1>1 DEF Injection
<1>3. ASSUME NEW s \in T, NEW t \in T, own[s] = own[t], h[own[s]][s] = h[own[t]][t]
      PROVE  s = t
  <2>1. s \in K(own[t]) /\ t \in K(own[t]) /\ own[t] \in C
    BY <1>2, <1>3
  <2>2. h[own[t]] \in [K(own[t]) -> 1 .. n] /\ IsInjective(h[own[t]])
    BY <1>1, <2>1 DEF Injection
  <2> QED
    BY <1>3, <2>1, <2>2 DEF IsInjective
<1>4. g \in Injection(T, C \X (1 .. n))
  BY <1>2, <1>3 DEF Injection, IsInjective
<1>5. IsFiniteSet(1 .. n) /\ Cardinality(1 .. n) = n
  BY FirstNumbers
<1>6. /\ IsFiniteSet(C \X (1 .. n)) /\ Cardinality(C \X (1 .. n)) = Cardinality(C) * n
      /\ Cardinality(C) \in Nat
  BY <1>5, FS_Product, FS_CardinalityType
<1>7. IsFiniteSet(T) /\ Cardinality(T) <= Cardinality(C \X (1 .. n))
  <2> HIDE DEF g
  <2> QED BY <1>4, <1>6, FS_Injection
<1> QED
  BY <1>6, <1>7

(* Rows that only a look before the insert keeps apart. The n rows there   *)
(* are and the claims A that may each add one are no more than T together, *)
(* and stay so: nothing is left, claims go, or a claim becomes a row.      *)
LEMMA ClaimsKept ==
  ASSUME NEW T, IsFiniteSet(T), NEW A, NEW B, A \subseteq T, B \subseteq T, NEW n \in Nat, NEW m \in Nat,
         n + Cardinality(A) <= Cardinality(T),
         \/ m = 0
         \/ m <= n /\ B \subseteq A
         \/ m <= n + 1 /\ \E t \in A : B \subseteq A \ {t}
  PROVE  m + Cardinality(B) <= Cardinality(T)
<1>1. IsFiniteSet(A) /\ IsFiniteSet(B) /\ Cardinality(B) <= Cardinality(T)
  BY FS_Subset
<1>2. Cardinality(A) \in Nat /\ Cardinality(B) \in Nat /\ Cardinality(T) \in Nat
  BY <1>1, FS_CardinalityType
<1>3. CASE m = 0
  BY <1>1, <1>2, <1>3
<1>4. CASE m <= n /\ B \subseteq A
  <2>1. Cardinality(B) <= Cardinality(A)
    BY <1>1, <1>4, FS_Subset
  <2> QED
    BY <1>2, <1>4, <2>1
<1>5. CASE m <= n + 1 /\ \E t \in A : B \subseteq A \ {t}
  <2>1. Cardinality(B) <= Cardinality(A) - 1
    BY <1>1, <1>5, AtLeastOneLess
  <2> QED
    BY <1>2, <1>5, <2>1
<1> QED
  BY <1>3, <1>4, <1>5
=============================================================================

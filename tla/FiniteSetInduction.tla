-------------------------- MODULE FiniteSetInduction --------------------------
(***************************************************************************)
(* Induction over finite sets, stated over sets of sets, and what follows  *)
(* from it for the finite sets this project's modules take a maximum of,   *)
(* or put in an order.                                                     *)
(***************************************************************************)
EXTENDS Integers, Sequences, FiniteSetsExt, WellFoundedInduction, FiniteSetTheorems, TLAPS

\* A family that holds each finite set whose smaller subsets it holds, holds
\* every finite set: there is no least set outside it.
LEMMA FiniteStrongInduction ==
    ASSUME NEW S, IsFiniteSet(S), NEW X,
           \A T \in SUBSET S : (\A U \in SUBSET T : U # T => U \in X) => T \in X
    PROVE  S \in X
<1> SUFFICES ASSUME S \notin X PROVE FALSE
  OBVIOUS
<1> DEFINE R == StrictSubsetOrdering(S)
           F == FiniteSubsetsOf(S)
           W == {T \in SUBSET S : T \notin X}
<1>1. IsWellFoundedOn(R, F)
  BY FS_StrictSubsetOrderingWellFounded
<1>2. W \subseteq F /\ W # {}
  BY FS_Subset DEF FiniteSubsetsOf
<1> HIDE DEF R, F
<1>3. PICK B \in W : \A T \in W : ~(<<T, B>> \in R)
  <2> HIDE DEF W
  <2> QED BY <1>1, <1>2, WFMin
<1>4. ASSUME NEW U \in SUBSET B, U # B PROVE U \in X
  <2>1. <<U, B>> \in R
    BY <1>4 DEF R, StrictSubsetOrdering
  <2> QED BY <1>3, <2>1
<1> QED BY <1>3, <1>4

\* A family that holds the empty set, and with a set also what one more element
\* makes of it, holds every finite set.
LEMMA FiniteInduction ==
    ASSUME NEW S, IsFiniteSet(S), NEW X, {} \in X,
           \A T \in SUBSET S : \A x \in S \ T : T \in X => T \cup {x} \in X
    PROVE  S \in X
<1>1. ASSUME NEW T \in SUBSET S, \A U \in SUBSET T : U # T => U \in X
      PROVE  T \in X
  <2>1. CASE T = {}
    BY <2>1
  <2>2. CASE T # {}
    <3>1. PICK x \in T : TRUE
      BY <2>2
    <3>2. (T \ {x}) \cup {x} = T /\ x \in S \ (T \ {x}) /\ T \ {x} \in SUBSET S
      BY <3>1
    <3>3. T \ {x} \in X
      BY <1>1, <3>1
    <3> QED BY <3>2, <3>3
  <2> QED BY <2>1, <2>2
<1> QED BY <1>1, FiniteStrongInduction

\* What a function has on a finite set is finite.
LEMMA FiniteImage ==
    ASSUME NEW S, IsFiniteSet(S), NEW f
    PROVE  IsFiniteSet({f[x] : x \in S})
<1> DEFINE Im(T) == {f[x] : x \in T}
           X     == {T \in SUBSET S : IsFiniteSet(Im(T))}
<1>1. {} \in X
  <2>1. Im({}) = {}
    OBVIOUS
  <2> QED BY <2>1, FS_EmptySet
<1>2. ASSUME NEW T \in SUBSET S, NEW x \in S \ T, T \in X
      PROVE  T \cup {x} \in X
  <2>1. Im(T \cup {x}) = Im(T) \cup {f[x]}
    OBVIOUS
  <2>2. IsFiniteSet(Im(T) \cup {f[x]})
    BY <1>2, FS_AddElement
  <2> QED BY <2>1, <2>2
<1>3. S \in X
  <2> HIDE DEF X
  <2> QED BY <1>1, <1>2, FiniteInduction
<1> QED BY <1>3

\* A finite set of numbers has a greatest one.
LEMMA FiniteMax ==
    ASSUME NEW S \in SUBSET Int, IsFiniteSet(S), S # {}
    PROVE  Max(S) \in S /\ \A x \in S : x <= Max(S)
<1> DEFINE Top(T) == \E m \in T : \A y \in T : m >= y
           X      == {T \in SUBSET S : T # {} => Top(T)}
<1>1. {} \in X
  OBVIOUS
<1>2. ASSUME NEW T \in SUBSET S, NEW x \in S \ T, T \in X
      PROVE  T \cup {x} \in X
  <2>1. CASE T = {}
    <3>1. x >= x
      OBVIOUS
    <3> QED BY <2>1, <3>1
  <2>2. CASE T # {}
    <3>1. PICK m \in T : \A y \in T : m >= y
      BY <1>2, <2>2
    <3>2. CASE m >= x
      BY <3>1, <3>2
    <3>3. CASE x >= m
      <4>1. \A y \in T \cup {x} : x >= y
        BY <3>1, <3>3
      <4> QED BY <4>1
    <3> QED BY <3>2, <3>3
  <2> QED BY <2>1, <2>2
<1>3. S \in X
  <2> HIDE DEF X
  <2> QED BY <1>1, <1>2, FiniteInduction
<1>4. \E m \in S : \A y \in S : m >= y
  BY <1>3
<1>5. Max(S) \in S /\ \A y \in S : Max(S) >= y
  BY <1>4 DEF Max
<1> QED BY <1>5

----------------------------------------------------------------------------
(* A finite set in an order.                                               *)

IsLinearOrder(R, S) ==
    /\ \A x \in S : <<x, x>> \notin R
    /\ \A x, y, z \in S : <<x, y>> \in R /\ <<y, z>> \in R => <<x, z>> \in R
    /\ \A x, y \in S : x = y \/ <<x, y>> \in R \/ <<y, x>> \in R

\* s lists S, each element once, in the order R.
Enumerates(s, S, R) ==
    /\ s \in [1..Cardinality(S) -> S]
    /\ \A x \in S : \E i \in 1..Cardinality(S) : s[i] = x
    /\ \A i, j \in 1..Cardinality(S) : i < j => <<s[i], s[j]>> \in R

\* A finite set has a last element.
LEMMA FiniteLast ==
    ASSUME NEW S, IsFiniteSet(S), S # {}, NEW R, IsLinearOrder(R, S)
    PROVE  \E m \in S : \A x \in S \ {m} : <<x, m>> \in R
<1> DEFINE Last(T) == \E m \in T : \A x \in T \ {m} : <<x, m>> \in R
           X       == {T \in SUBSET S : T # {} => Last(T)}
<1>1. {} \in X
  OBVIOUS
<1>2. ASSUME NEW T \in SUBSET S, NEW x \in S \ T, T \in X
      PROVE  T \cup {x} \in X
  <2>1. CASE T = {}
    <3>1. \A z \in (T \cup {x}) \ {x} : <<z, x>> \in R
      BY <2>1
    <3> QED BY <3>1
  <2>2. CASE T # {}
    <3>1. PICK m \in T : \A z \in T \ {m} : <<z, m>> \in R
      BY <1>2, <2>2
    <3>2. CASE <<x, m>> \in R
      <4>1. \A z \in (T \cup {x}) \ {m} : <<z, m>> \in R
        BY <3>1, <3>2
      <4> QED BY <4>1
    <3>3. CASE <<m, x>> \in R
      <4>1. \A z \in (T \cup {x}) \ {x} : <<z, x>> \in R
        BY <3>1, <3>3 DEF IsLinearOrder
      <4> QED BY <4>1
    <3> QED BY <3>1, <3>2, <3>3 DEF IsLinearOrder
  <2> QED BY <2>1, <2>2
<1>3. S \in X
  <2> HIDE DEF X
  <2> QED BY <1>1, <1>2, FiniteInduction
<1> QED BY <1>3

\* An enumeration of a part of the set, and one of what comes after it, are
\* one of the whole.
LEMMA EnumerationsJoin ==
    ASSUME NEW K, IsFiniteSet(K), NEW D, IsFiniteSet(D), K \cap D = {}, NEW R,
           \A x \in K : \A z \in D : <<x, z>> \in R,
           NEW s, Enumerates(s, K, R), NEW t, Enumerates(t, D, R)
    PROVE  Enumerates(s \o t, K \cup D, R)
<1> DEFINE m == Cardinality(K)
           n == Cardinality(D)
           u == s \o t
<1>1. m \in Nat /\ n \in Nat
  BY FS_CardinalityType
<1>2. Cardinality(K \cup D) = m + n
  <2>1. Cardinality(K \cap D) = 0
    BY FS_EmptySet
  <2>2. Cardinality(K \cup D) = m + n - Cardinality(K \cap D)
    BY FS_Union
  <2> QED BY <1>1, <2>1, <2>2
<1> HIDE DEF m, n
<1>3. s \in [1..m -> K] /\ t \in [1..n -> D]
  BY DEF Enumerates, m, n
<1>4. s \in Seq(K) /\ Len(s) = m /\ t \in Seq(D) /\ Len(t) = n
  BY <1>1, <1>3
<1>5. /\ u \in [1..(m + n) -> K \cup D]
      /\ \A i \in 1..m : u[i] = s[i]
      /\ \A i \in 1..n : u[m + i] = t[i]
  <2>1. u \in Seq(K \cup D) /\ Len(u) = m + n
    <3>1. s \in Seq(K \cup D) /\ t \in Seq(K \cup D)
      BY <1>4
    <3> QED BY <1>1, <1>4, <3>1
  <2>2. \A i \in 1..(m + n) : u[i] = IF i <= m THEN s[i] ELSE t[i - m]
    BY <1>1, <1>4
  <2>3. \A i \in 1..m : i \in 1..(m + n) /\ i <= m
    BY <1>1
  <2> HIDE DEF u
  <2>4. u \in [1..(m + n) -> K \cup D]
    BY <2>1
  <2>5. \A i \in 1..n : u[m + i] = t[i]
    <3> TAKE i \in 1..n
    <3>1. PICK j \in 1..(m + n) : j = m + i /\ ~(j <= m) /\ j - m = i
      <4> DEFINE k == m + i
      <4>1. k \in 1..(m + n) /\ k = m + i /\ ~(k <= m) /\ k - m = i
        BY <1>1
      <4> HIDE DEF k
      <4> QED BY <4>1
    <3>2. u[j] = t[j - m]
      BY <2>2, <3>1
    <3> QED BY <3>1, <3>2
  <2> QED BY <2>2, <2>3, <2>4, <2>5
<1> HIDE DEF u
<1>6. ASSUME NEW i \in 1..(m + n), i \notin 1..m
      PROVE  i - m \in 1..n /\ u[i] = t[i - m]
  <2>1. i - m \in 1..n /\ m + (i - m) = i
    BY <1>1, <1>6
  <2> QED BY <1>5, <2>1
<1>7. ASSUME NEW x \in K \cup D PROVE \E i \in 1..(m + n) : u[i] = x
  <2>1. CASE x \in K
    <3>1. PICK i \in 1..m : s[i] = x
      BY <2>1 DEF Enumerates, m
    <3>2. i \in 1..(m + n)
      BY <1>1
    <3> QED BY <1>5, <3>1, <3>2
  <2>2. CASE x \in D
    <3>1. PICK i \in 1..n : t[i] = x
      BY <2>2 DEF Enumerates, n
    <3>2. m + i \in 1..(m + n)
      BY <1>1
    <3> QED BY <1>5, <3>1, <3>2
  <2> QED BY <2>1, <2>2
<1>8. ASSUME NEW i \in 1..(m + n), NEW j \in 1..(m + n), i < j
      PROVE  <<u[i], u[j]>> \in R
  <2>1. CASE i \in 1..m /\ j \in 1..m
    BY <1>5, <1>8, <2>1 DEF Enumerates, m
  <2>2. CASE i \in 1..m /\ j \notin 1..m
    <3>1. u[i] \in K /\ u[j] \in D
      BY <1>3, <1>5, <1>6, <2>2
    <3> QED BY <3>1
  <2>3. CASE i \notin 1..m
    <3>1. j \notin 1..m
      BY <1>1, <1>8, <2>3
    <3>2. /\ i - m \in 1..n /\ u[i] = t[i - m]
          /\ j - m \in 1..n /\ u[j] = t[j - m]
      BY <1>6, <2>3, <3>1
    <3>3. i - m < j - m
      BY <1>1, <1>8
    <3> QED BY <3>2, <3>3 DEF Enumerates, n
  <2> QED BY <2>1, <2>2, <2>3
<1> QED BY <1>2, <1>5, <1>7, <1>8 DEF Enumerates, u

\* Every finite set has an enumeration: of all but its last element, and then
\* that.
LEMMA EnumerationExists ==
    ASSUME NEW S, IsFiniteSet(S), NEW R, IsLinearOrder(R, S)
    PROVE  \E s : Enumerates(s, S, R)
<1> DEFINE X == {T \in SUBSET S : \E s : Enumerates(s, T, R)}
<1>1. ASSUME NEW T \in SUBSET S, \A U \in SUBSET T : U # T => U \in X
      PROVE  T \in X
  <2>1. IsFiniteSet(T)
    BY FS_Subset
  <2>2. CASE T = {}
    <3>1. Cardinality(T) = 0
      BY <2>2, FS_EmptySet
    <3>2. Enumerates([i \in 1..0 |-> i], T, R)
      BY <2>2, <3>1 DEF Enumerates
    <3> QED BY <3>2
  <2>3. CASE T # {}
    <3>1. IsLinearOrder(R, T)
      BY DEF IsLinearOrder
    <3>2. PICK m \in T : \A x \in T \ {m} : <<x, m>> \in R
      BY <2>1, <2>3, <3>1, FiniteLast
    <3>3. PICK s : Enumerates(s, T \ {m}, R)
      BY <1>1, <3>2
    <3>4. Cardinality({m}) = 1 /\ IsFiniteSet({m})
      BY FS_Singleton
    <3>5. Enumerates(<<m>>, {m}, R)
      BY <3>4 DEF Enumerates
    <3>6. /\ IsFiniteSet(T \ {m}) /\ (T \ {m}) \cap {m} = {}
          /\ (T \ {m}) \cup {m} = T
      BY <2>1, <3>2, FS_Subset
    <3>7. Enumerates(s \o <<m>>, T, R)
      BY <3>2, <3>3, <3>4, <3>5, <3>6, EnumerationsJoin
    <3> QED BY <3>7
  <2> QED BY <2>2, <2>3
<1>2. S \in X
  <2> HIDE DEF X
  <2> QED BY <1>1, FiniteStrongInduction
<1> QED BY <1>2

\* A set of first indices that grows by one goes to the end.
LEMMA IndexInduction ==
    ASSUME NEW n \in Nat, NEW X, 0 \in X,
           \A k \in 0..(n - 1) : k \in X => k + 1 \in X
    PROVE  n \in X
<1> DEFINE G == {k \in 0..n : k \in X}
<1>1. G \in SUBSET Int /\ G # {} /\ IsFiniteSet(G)
  <2>1. 0 \in G
    OBVIOUS
  <2>2. IsFiniteSet(0..n)
    BY FS_Interval
  <2>3. IsFiniteSet(G)
    BY <2>2, FS_Subset
  <2> QED BY <2>1, <2>3
<1>2. Max(G) \in G /\ \A k \in G : k <= Max(G)
  <2> HIDE DEF G
  <2> QED BY <1>1, FiniteMax
<1>3. PICK m \in G : \A k \in G : k <= m
  <2> HIDE DEF G
  <2> QED BY <1>2
<1>4. CASE m # n
  <2>1. m \in 0..(n - 1) /\ m + 1 \in 0..n
    BY <1>4
  <2>2. m + 1 \in G
    BY <2>1
  <2> QED BY <1>3, <2>2
<1> QED BY <1>3, <1>4

\* And only one: the two agree up to any index.
LEMMA EnumerationIsUnique ==
    ASSUME NEW S, IsFiniteSet(S), NEW R, IsLinearOrder(R, S),
           NEW s, Enumerates(s, S, R), NEW t, Enumerates(t, S, R)
    PROVE  s = t
<1> DEFINE n == Cardinality(S)
           X == {k \in Nat : k <= n /\ \A i \in 1..k : s[i] = t[i]}
<1>1. n \in Nat
  BY FS_CardinalityType
<1> HIDE DEF n
<1>2. s \in [1..n -> S] /\ t \in [1..n -> S]
  BY DEF Enumerates, n
<1>3. ASSUME NEW k \in 0..(n - 1), k \in X PROVE k + 1 \in X
  <2>1. k + 1 \in 1..n /\ \A i \in 1..k : s[i] = t[i]
    BY <1>1, <1>3
  <2>2. s[k + 1] \in S /\ t[k + 1] \in S
    BY <1>2, <2>1
  <2>3. ASSUME s[k + 1] # t[k + 1]
        PROVE  <<t[k + 1], s[k + 1]>> \in R /\ <<s[k + 1], t[k + 1]>> \in R
    <3>1. PICK j \in 1..n : t[j] = s[k + 1]
      BY <2>2 DEF Enumerates, n
    <3>2. PICK i \in 1..n : s[i] = t[k + 1]
      BY <2>2 DEF Enumerates, n
    <3>3. k + 1 < j
      <4>1. CASE j \in 1..k
        <5>1. s[j] = s[k + 1] /\ j < k + 1
          BY <1>1, <2>1, <3>1, <4>1
        <5>2. <<s[j], s[k + 1]>> \in R
          BY <2>1, <5>1 DEF Enumerates, n
        <5> QED BY <2>2, <5>1, <5>2 DEF IsLinearOrder
      <4>2. CASE j = k + 1
        BY <2>3, <3>1, <4>2
      <4> QED BY <1>1, <4>1, <4>2
    <3>4. k + 1 < i
      <4>1. CASE i \in 1..k
        <5>1. t[i] = t[k + 1] /\ i < k + 1
          BY <1>1, <2>1, <3>2, <4>1
        <5>2. <<t[i], t[k + 1]>> \in R
          BY <2>1, <5>1 DEF Enumerates, n
        <5> QED BY <2>2, <5>1, <5>2 DEF IsLinearOrder
      <4>2. CASE i = k + 1
        BY <2>3, <3>2, <4>2
      <4> QED BY <1>1, <4>1, <4>2
    <3>5. <<t[k + 1], t[j]>> \in R /\ <<s[k + 1], s[i]>> \in R
      BY <2>1, <3>3, <3>4 DEF Enumerates, n
    <3> QED BY <3>1, <3>2, <3>5
  <2>4. s[k + 1] = t[k + 1]
    <3>1. \A x, z \in S : ~(<<x, z>> \in R /\ <<z, x>> \in R)
      BY DEF IsLinearOrder
    <3> QED BY <2>2, <2>3, <3>1
  <2>5. \A i \in 1..(k + 1) : i \in 1..k \/ i = k + 1
    BY <1>1
  <2> QED BY <1>1, <2>1, <2>4, <2>5
<1>4. 0 \in X
  BY <1>1
<1>5. n \in X
  <2> HIDE DEF X
  <2> QED BY <1>1, <1>3, <1>4, IndexInduction
<1> QED BY <1>2, <1>5
===============================================================================

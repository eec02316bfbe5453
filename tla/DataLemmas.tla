---------------------------- MODULE DataLemmas ----------------------------
(***************************************************************************)
(* Facts about the data the models are built from, stated once for the     *)
(* proofs of several components: induction over the subsets of a finite    *)
(* set, sums over a finite set (MapThenSumSet), and lists without          *)
(* repetition.  The induction theorems of the library take an operator as  *)
(* a parameter, which the provers cannot instantiate, so the inductions    *)
(* here argue with the least element of a set instead (WFMin, whose        *)
(* parameters are sets).                                                   *)
(***************************************************************************)
EXTENDS RankedLists, Integers, Sequences, FiniteSetsExt, SequencesExt, TLAPS,
        FiniteSetTheorems, SequenceTheorems, WellFoundedInduction

-----------------------------------------------------------------------------
\* Induction.

LEMMA LeastNat ==
    ASSUME NEW T, T \subseteq Nat, T # {}
    PROVE  \E n \in T : \A m \in T : ~ (m < n)
<1> DEFINE R == OpToRel(<, Nat)
<1>1. IsWellFoundedOn(R, Nat) BY NatLessThanWellFounded
<1>2. \A m, n \in Nat : m < n => <<m, n>> \in R BY DEF OpToRel
<1> HIDE DEF R
<1>3. \E n \in T : \A m \in T : ~ (<<m, n>> \in R) BY <1>1, WFMin
<1> QED BY <1>2, <1>3

LEMMA NatInd ==
    ASSUME NEW T, 0 \in T, \A n \in Nat : n \in T => n + 1 \in T
    PROVE  Nat \subseteq T
<1> SUFFICES ASSUME Nat \ T # {} PROVE FALSE OBVIOUS
<1>1. PICK n \in Nat \ T : \A m \in Nat \ T : ~ (m < n)
  <2> DEFINE U == Nat \ T
  <2> HIDE DEF U
  <2>1. U \subseteq Nat /\ U # {} BY DEF U
  <2>2. \E n \in U : \A m \in U : ~ (m < n) BY <2>1, LeastNat
  <2> QED BY <2>2 DEF U
<1>2. n # 0 /\ n - 1 \in Nat /\ n - 1 < n /\ (n - 1) + 1 = n BY <1>1
<1>4. n - 1 \in T BY <1>1, <1>2
<1> QED BY <1>1, <1>2, <1>4

LEMMA LeastSet ==
    ASSUME NEW S, IsFiniteSet(S), NEW T, T \subseteq SUBSET S, T # {}
    PROVE  \E s \in T : \A u \in T : ~ (u \subseteq s /\ u # s)
<1> DEFINE R == StrictSubsetOrdering(S)
<1>1. IsWellFoundedOn(R, SUBSET S)
  BY FS_StrictSubsetOrderingWellFounded, FS_FiniteSubsetsOfFinite
<1>2. \A u, s \in SUBSET S : u \subseteq s /\ u # s => <<u, s>> \in R
  BY DEF StrictSubsetOrdering
<1> HIDE DEF R
<1>3. \E s \in T : \A u \in T : ~ (<<u, s>> \in R) BY <1>1, WFMin
<1> QED BY <1>2, <1>3

\* Induction over the subsets of a finite set.
LEMMA SetInd ==
    ASSUME NEW S, IsFiniteSet(S), NEW T,
           \A s \in SUBSET S : (\A u \in SUBSET s : u # s => u \in T) => s \in T
    PROVE  SUBSET S \subseteq T
<1> SUFFICES ASSUME ~ (SUBSET S \subseteq T) PROVE FALSE OBVIOUS
<1> DEFINE U == (SUBSET S) \ T
<1>1. U \subseteq SUBSET S /\ U # {} OBVIOUS
<1> HIDE DEF U
<1>2. PICK s \in U : \A u \in U : ~ (u \subseteq s /\ u # s) BY <1>1, LeastSet
<1>3. \A u \in SUBSET s : u # s => u \in T BY <1>2 DEF U
<1> QED BY <1>2, <1>3 DEF U

-----------------------------------------------------------------------------
\* Sums: Adds(g, f, S) says that g[s] is the sum of f over each subset s of S.

Pick(s) == CHOOSE x \in s : TRUE

Adds(g, f, S) ==
    g = [s \in SUBSET S |-> IF s = {} THEN 0 ELSE f[Pick(s)] + g[s \ {Pick(s)}]]

LEMMA PickIn == \A s : s # {} => Pick(s) \in s
BY DEF Pick

\* The sums of the subsets with at most n elements.
Small(S, n) == {u \in SUBSET S : Cardinality(u) <= n}

AddsTo(g, f, S, n) ==
    g = [s \in Small(S, n) |-> IF s = {} THEN 0 ELSE f[Pick(s)] + g[s \ {Pick(s)}]]

LEMMA AddsUpTo ==
    ASSUME NEW S, IsFiniteSet(S), NEW f
    PROVE  \A n \in Nat : \E g : AddsTo(g, f, S, n)
<1> DEFINE T == {n \in Nat : \E g : AddsTo(g, f, S, n)}
<1>0. \A u \in SUBSET S : /\ IsFiniteSet(u) /\ Cardinality(u) \in Nat
                          /\ Cardinality(u) = 0 <=> u = {}
                          /\ \A x \in u : Cardinality(u \ {x}) = Cardinality(u) - 1
  BY FS_Subset, FS_CardinalityType, FS_EmptySet, FS_RemoveElement
<1>1. 0 \in T
  <2>1. Small(S, 0) = {{}} BY <1>0 DEF Small
  <2>2. AddsTo([s \in {{}} |-> 0], f, S, 0) BY <2>1 DEF AddsTo
  <2> QED BY <2>2
<1>2. ASSUME NEW n \in Nat, n \in T PROVE n + 1 \in T
  <2>1. PICK g : AddsTo(g, f, S, n) BY <1>2
  <2> DEFINE h == [s \in Small(S, n + 1) |-> IF s = {} THEN 0 ELSE f[Pick(s)] + g[s \ {Pick(s)}]]
  <2>2. \A s \in Small(S, n) : g[s] = IF s = {} THEN 0 ELSE f[Pick(s)] + g[s \ {Pick(s)}]
    BY <2>1 DEF AddsTo
  <2>3. Small(S, n) \subseteq Small(S, n + 1) BY <1>0 DEF Small
  <2>4. \A s \in Small(S, n) : h[s] = g[s] BY <2>2, <2>3
  <2>5. ASSUME NEW s \in Small(S, n + 1), s # {} PROVE s \ {Pick(s)} \in Small(S, n)
    <3>1. Pick(s) \in s BY <2>5, PickIn
    <3>2. Cardinality(s \ {Pick(s)}) = Cardinality(s) - 1 /\ Cardinality(s) \in Nat
      BY <1>0, <3>1 DEF Small
    <3>3. s \ {Pick(s)} \in SUBSET S BY DEF Small
    <3>4. Cardinality(s \ {Pick(s)}) <= n BY <3>2 DEF Small
    <3> QED BY <3>3, <3>4 DEF Small
  <2>6. h = [s \in Small(S, n + 1) |-> IF s = {} THEN 0 ELSE f[Pick(s)] + h[s \ {Pick(s)}]]
    <3>1. \A s \in Small(S, n + 1) : (IF s = {} THEN 0 ELSE f[Pick(s)] + g[s \ {Pick(s)}])
                              = (IF s = {} THEN 0 ELSE f[Pick(s)] + h[s \ {Pick(s)}])
      BY <2>4, <2>5
    <3> QED BY <3>1
  <2> HIDE DEF h
  <2>7. AddsTo(h, f, S, n + 1) BY <2>6 DEF AddsTo
  <2> QED BY <2>7
<1>3. Nat \subseteq T BY <1>1, <1>2, NatInd
<1> QED BY <1>3

LEMMA AddsExist ==
    ASSUME NEW S, IsFiniteSet(S), NEW f
    PROVE  \E g : Adds(g, f, S)
<1>1. Cardinality(S) \in Nat BY FS_CardinalityType
<1>2. Small(S, Cardinality(S)) = SUBSET S BY FS_Subset DEF Small
<1>3. \E g : AddsTo(g, f, S, Cardinality(S)) BY <1>1, AddsUpTo
<1> QED BY <1>2, <1>3 DEF Adds, AddsTo

LEMMA AddsNat ==
    ASSUME NEW S, IsFiniteSet(S), NEW f \in [S -> Nat], NEW g, Adds(g, f, S)
    PROVE  g \in [SUBSET S -> Nat]
<1> DEFINE T == {s \in SUBSET S : g[s] \in Nat}
<1>1. ASSUME NEW s \in SUBSET S, \A u \in SUBSET s : u # s => u \in T PROVE s \in T
  <2>1. g[s] = IF s = {} THEN 0 ELSE f[Pick(s)] + g[s \ {Pick(s)}] BY DEF Adds
  <2>2. CASE s = {} BY <2>1, <2>2
  <2>3. CASE s # {}
    <3>1. Pick(s) \in s BY <2>3, PickIn
    <3>2. g[s \ {Pick(s)}] \in Nat BY <1>1, <3>1
    <3>3. f[Pick(s)] \in Nat BY <3>1
    <3> QED BY <2>1, <2>3, <3>2, <3>3
  <2> QED BY <2>2, <2>3
<1> HIDE DEF T
<1>2. SUBSET S \subseteq T BY <1>1, SetInd
<1>3. DOMAIN g = SUBSET S /\ g = [s \in SUBSET S |-> g[s]] BY DEF Adds
<1> QED BY <1>2, <1>3 DEF T

\* The order does not matter.
LEMMA AddsAny ==
    ASSUME NEW S, IsFiniteSet(S), NEW f \in [S -> Nat], NEW g, Adds(g, f, S)
    PROVE  \A s \in SUBSET S : \A y \in s : g[s] = f[y] + g[s \ {y}]
<1>0. g \in [SUBSET S -> Nat] BY AddsNat
<1> DEFINE T == {s \in SUBSET S : \A y \in s : g[s] = f[y] + g[s \ {y}]}
<1>1. ASSUME NEW s \in SUBSET S, \A u \in SUBSET s : u # s => u \in T PROVE s \in T
  <2> SUFFICES ASSUME NEW y \in s PROVE g[s] = f[y] + g[s \ {y}] OBVIOUS
  <2> DEFINE p == Pick(s)
  <2>1. p \in s BY PickIn
  <2> HIDE DEF p
  <2>2. g[s] = f[p] + g[s \ {p}] BY DEF Adds, p
  <2>3. CASE p = y BY <2>2, <2>3
  <2>4. CASE p # y
    <3>1. s \ {p} \in T /\ y \in s \ {p} BY <1>1, <2>1, <2>4
    <3>2. s \ {y} \in T /\ p \in s \ {y} BY <1>1, <2>1, <2>4
    <3>3. g[s \ {p}] = f[y] + g[(s \ {p}) \ {y}] BY <3>1
    <3>4. g[s \ {y}] = f[p] + g[(s \ {y}) \ {p}] BY <3>2
    <3>5. (s \ {p}) \ {y} = (s \ {y}) \ {p} OBVIOUS
    <3>6. f[y] \in Nat /\ f[p] \in Nat /\ g[(s \ {y}) \ {p}] \in Nat BY <1>0, <2>1
    <3>7. g[s] = f[p] + (f[y] + g[(s \ {y}) \ {p}]) BY <2>2, <3>3, <3>5
    <3>8. \A a, b, c \in Nat : a + (b + c) = b + (a + c) OBVIOUS
    <3>9. g[s] = f[y] + (f[p] + g[(s \ {y}) \ {p}]) BY <3>6, <3>7, <3>8
    <3> QED BY <3>4, <3>9
  <2> QED BY <2>3, <2>4
<1> HIDE DEF T
<1>2. SUBSET S \subseteq T BY <1>1, SetInd
<1> QED BY <1>2 DEF T

\* Sums of what two functions have in common are the same.
LEMMA AddsSame ==
    ASSUME NEW S, IsFiniteSet(S), NEW f, NEW g, Adds(g, f, S),
           NEW U, S \subseteq U, NEW h, NEW k, Adds(k, h, U), \A x \in S : h[x] = f[x]
    PROVE  k[S] = g[S]
<1> DEFINE T == {s \in SUBSET S : k[s] = g[s]}
<1>1. ASSUME NEW s \in SUBSET S, \A u \in SUBSET s : u # s => u \in T PROVE s \in T
  <2>1. g[s] = IF s = {} THEN 0 ELSE f[Pick(s)] + g[s \ {Pick(s)}] BY DEF Adds
  <2>2. k[s] = IF s = {} THEN 0 ELSE h[Pick(s)] + k[s \ {Pick(s)}] BY DEF Adds
  <2>3. CASE s = {} BY <2>1, <2>2, <2>3
  <2>4. CASE s # {}
    <3>1. Pick(s) \in s BY <2>4, PickIn
    <3>2. k[s \ {Pick(s)}] = g[s \ {Pick(s)}] BY <1>1, <3>1
    <3>3. h[Pick(s)] = f[Pick(s)] BY <3>1
    <3> QED BY <2>1, <2>2, <2>4, <3>2, <3>3
  <2> QED BY <2>3, <2>4
<1> HIDE DEF T
<1>2. SUBSET S \subseteq T BY <1>1, SetInd
<1> QED BY <1>2 DEF T

-----------------------------------------------------------------------------
\* Sequences.

\* Lists without repetition.
Distinct(s) == \A i, j \in 1..Len(s) : s[i] = s[j] => i = j

\* The elements of a sequence.
LEMMA Elements ==
    ASSUME NEW S, NEW s \in Seq(S)
    PROVE  /\ ToSet(s) = {s[i] : i \in 1..Len(s)} /\ ToSet(s) \subseteq S
           /\ Len(s) \in Nat /\ \A i \in 1..Len(s) : s[i] \in S
<1>1. DOMAIN s = 1..Len(s) /\ Len(s) \in Nat /\ \A i \in 1..Len(s) : s[i] \in S
  BY LenProperties, ElementOfSeq
<1> QED BY <1>1 DEF ToSet

LEMMA Joined ==
    ASSUME NEW S, NEW s \in Seq(S), NEW r \in Seq(S)
    PROVE  /\ s \o r \in Seq(S) /\ Len(s \o r) = Len(s) + Len(r)
           /\ \A i \in 1..Len(s) : (s \o r)[i] = s[i]
           /\ \A i \in 1..Len(r) : (s \o r)[Len(s) + i] = r[i]
           /\ ToSet(s \o r) = ToSet(s) \cup ToSet(r)
<1>1. /\ s \o r \in Seq(S) /\ Len(s \o r) = Len(s) + Len(r)
      /\ \A i \in 1 .. Len(s) + Len(r) : (s \o r)[i] = IF i <= Len(s) THEN s[i] ELSE r[i - Len(s)]
  BY ConcatProperties
<1>2. Len(s) \in Nat /\ Len(r) \in Nat BY LenProperties
<1>3. /\ \A i \in 1..Len(s) : (s \o r)[i] = s[i]
      /\ \A i \in 1..Len(r) : (s \o r)[Len(s) + i] = r[i]
  BY <1>1, <1>2
<1>4. ToSet(s) = {s[i] : i \in 1..Len(s)} /\ ToSet(r) = {r[i] : i \in 1..Len(r)}
      /\ ToSet(s \o r) = {(s \o r)[i] : i \in 1..(Len(s) + Len(r))}
  BY <1>1, Elements
<1>5. \A i \in 1..(Len(s) + Len(r)) : i \in 1..Len(s) \/ \E j \in 1..Len(r) : i = Len(s) + j
  <2> SUFFICES ASSUME NEW i \in 1..(Len(s) + Len(r)), i \notin 1..Len(s)
               PROVE  \E j \in 1..Len(r) : i = Len(s) + j
    OBVIOUS
  <2>1. i - Len(s) \in 1..Len(r) /\ i = Len(s) + (i - Len(s)) BY <1>2
  <2> QED BY <2>1
<1>6. \A i \in 1..Len(s) : i \in 1..(Len(s) + Len(r))
  BY <1>2
<1>7. \A i \in 1..Len(r) : Len(s) + i \in 1..(Len(s) + Len(r))
  BY <1>2
<1>8. ToSet(s \o r) \subseteq ToSet(s) \cup ToSet(r) BY <1>3, <1>4, <1>5
<1>9. ToSet(s) \subseteq ToSet(s \o r) /\ ToSet(r) \subseteq ToSet(s \o r)
  BY <1>3, <1>4, <1>6, <1>7
<1> QED BY <1>1, <1>3, <1>8, <1>9

\* A finite set can be put in a row, each element once.
LEMMA InARow ==
    ASSUME NEW S, IsFiniteSet(S)
    PROVE  /\ SetToSeq(S) \in Seq(S) /\ Len(SetToSeq(S)) = Cardinality(S)
           /\ ToSet(SetToSeq(S)) = S /\ Distinct(SetToSeq(S))
<1> DEFINE n == Cardinality(S)
           q == SetToSeq(S)
<1>1. n \in Nat /\ ExistsBijection(1..n, S) BY FS_CardinalityType
<1>2. \E f \in [1..n -> S] : IsInjective(f)
  BY <1>1 DEF ExistsBijection, Bijection, Injection
<1>3. q \in [1..n -> S] /\ IsInjective(q) BY <1>2 DEF SetToSeq
<1> HIDE DEF q
<1>4. q \in Seq(S) /\ Len(q) = n BY <1>1, <1>3
<1>5. q \in Surjection(1..n, S)
  <2>1. q \in Injection(1..n, S) BY <1>3 DEF Injection
  <2>2. IsFiniteSet(1..n) /\ Cardinality(1..n) = n BY <1>1, FS_Interval
  <2> QED BY <2>1, <2>2, FS_Injection
<1>6. ToSet(q) = S
  <2>1. \A b \in S : \E i \in 1..n : q[i] = b BY <1>5 DEF Surjection
  <2>2. ToSet(q) = {q[i] : i \in 1..n} BY <1>4, Elements
  <2>3. \A i \in 1..n : q[i] \in S BY <1>3
  <2> QED BY <2>1, <2>2, <2>3
<1>7. Distinct(q) BY <1>3, <1>4 DEF Distinct, IsInjective
<1> QED BY <1>4, <1>6, <1>7 DEF q

\* So many elements as places.
LEMMA CountedOnce ==
    ASSUME NEW S, NEW s \in Seq(S), Distinct(s)
    PROVE  Cardinality(ToSet(s)) = Len(s)
<1>1. Len(s) \in Nat /\ s \in [1..Len(s) -> S] BY LenProperties
<1>2. ToSet(s) = {s[i] : i \in 1..Len(s)} BY Elements
<1>3. s \in [1..Len(s) -> ToSet(s)] BY <1>1, <1>2
<1>4. s \in Bijection(1..Len(s), ToSet(s))
  BY <1>2, <1>3 DEF Bijection, Injection, Surjection, IsInjective, Distinct
<1>5. IsFiniteSet(1..Len(s)) /\ Cardinality(1..Len(s)) = Len(s) BY <1>1, FS_Interval
<1>6. ExistsBijection(1..Len(s), ToSet(s)) BY <1>4 DEF ExistsBijection
<1> QED BY <1>5, <1>6, FS_Bijection

\* Others are added behind, none twice.
LEMMA JoinedOnce ==
    ASSUME NEW S, NEW s \in Seq(S), NEW r \in Seq(S), Distinct(s), Distinct(r),
           ToSet(s) \cap ToSet(r) = {}
    PROVE  Distinct(s \o r)
<1> SUFFICES ASSUME NEW i \in 1..Len(s \o r), NEW j \in 1..Len(s \o r),
                    (s \o r)[i] = (s \o r)[j]
             PROVE  i = j
  BY DEF Distinct
<1>1. /\ Len(s \o r) = Len(s) + Len(r) /\ Len(s) \in Nat /\ Len(r) \in Nat
      /\ \A k \in 1..Len(s) : (s \o r)[k] = s[k]
      /\ \A k \in 1..Len(r) : (s \o r)[Len(s) + k] = r[k]
  BY Joined, LenProperties
<1>2. \A k \in 1..(Len(s) + Len(r)) : k \in 1..Len(s) \/ (k - Len(s) \in 1..Len(r) /\ k = Len(s) + (k - Len(s)))
  BY <1>1
<1>3. \A k \in 1..Len(s) : s[k] \in ToSet(s)
  BY Elements
<1>4. \A k \in 1..Len(r) : r[k] \in ToSet(r)
  BY Elements
<1>5. CASE i \in 1..Len(s) /\ j \in 1..Len(s) BY <1>1, <1>5 DEF Distinct
<1>6. CASE i \in 1..Len(s) /\ j \notin 1..Len(s)
  <2>1. j - Len(s) \in 1..Len(r) /\ (s \o r)[j] = r[j - Len(s)] BY <1>1, <1>2, <1>6
  <2> QED BY <1>1, <1>3, <1>4, <1>6, <2>1
<1>7. CASE i \notin 1..Len(s) /\ j \in 1..Len(s)
  <2>1. i - Len(s) \in 1..Len(r) /\ (s \o r)[i] = r[i - Len(s)] BY <1>1, <1>2, <1>7
  <2> QED BY <1>1, <1>3, <1>4, <1>7, <2>1
<1>8. CASE i \notin 1..Len(s) /\ j \notin 1..Len(s)
  <2>1. i - Len(s) \in 1..Len(r) /\ (s \o r)[i] = r[i - Len(s)] BY <1>1, <1>2, <1>8
  <2>2. j - Len(s) \in 1..Len(r) /\ (s \o r)[j] = r[j - Len(s)] BY <1>1, <1>2, <1>8
  <2>3. i - Len(s) = j - Len(s) BY <2>1, <2>2 DEF Distinct
  <2> QED BY <1>1, <2>3
<1> QED BY <1>5, <1>6, <1>7, <1>8

-----------------------------------------------------------------------------
\* Folds over a sequence: Folds(g, F, base, n) says that g[t] is what the steps F
\* at the places in t make of base, from the lowest place to the highest.

LEMMA MaxIn ==
    ASSUME NEW n \in Nat, NEW t \in SUBSET (1..n), t # {}
    PROVE  Max(t) \in t
<1> DEFINE T == {n - x : x \in t}
<1>0. \A x \in t : n - x \in Nat OBVIOUS
<1>1. T \subseteq Nat /\ T # {} BY <1>0
<1> HIDE DEF T
<1>2. PICK m \in T : \A l \in T : ~ (l < m) BY <1>1, LeastNat
<1>3. PICK x \in t : m = n - x BY <1>2 DEF T
<1>4. \A y \in t : n - y \in T BY DEF T
<1>5. \A y \in t : ~ (n - y < n - x) BY <1>2, <1>3, <1>4
<1>6. \A y \in t : x >= y BY <1>5
<1> QED BY <1>6 DEF Max

LEMMA MaxUpTo ==
    ASSUME NEW n \in Nat, NEW k \in 1..n
    PROVE  Max(1..k) = k /\ (1..k) \ {k} = 1..(k - 1) /\ 1..k \in SUBSET (1..n) /\ 1..k # {}
<1>1. 1..k \in SUBSET (1..n) /\ k \in 1..k OBVIOUS
<1>2. \E x \in 1..k : \A y \in 1..k : x >= y BY <1>1
<1>3. Max(1..k) \in 1..k /\ Max(1..k) >= k BY <1>1, <1>2 DEF Max
<1>4. Max(1..k) = k BY <1>3
<1>5. (1..k) \ {k} = 1..(k - 1) OBVIOUS
<1> QED BY <1>1, <1>4, <1>5

Folds(g, F, base, n) ==
    g = [t \in SUBSET (1..n) |-> IF t = {} THEN base ELSE F[<<g[t \ {Max(t)}], Max(t)>>]]

FoldsTo(g, F, base, n, c) ==
    g = [t \in Small(1..n, c) |-> IF t = {} THEN base ELSE F[<<g[t \ {Max(t)}], Max(t)>>]]

LEMMA FoldsUpTo ==
    ASSUME NEW n \in Nat, NEW F, NEW base
    PROVE  \A c \in Nat : \E g : FoldsTo(g, F, base, n, c)
<1> DEFINE S == 1..n
           T == {c \in Nat : \E g : FoldsTo(g, F, base, n, c)}
<1>f. IsFiniteSet(S) BY FS_Interval
<1>0. \A u \in SUBSET S : /\ IsFiniteSet(u) /\ Cardinality(u) \in Nat
                          /\ Cardinality(u) = 0 <=> u = {}
                          /\ \A x \in u : Cardinality(u \ {x}) = Cardinality(u) - 1
  BY <1>f, FS_Subset, FS_CardinalityType, FS_EmptySet, FS_RemoveElement
<1>m. \A u \in SUBSET S : u # {} => Max(u) \in u BY MaxIn
<1> HIDE DEF S
<1>1. 0 \in T
  <2>1. Small(S, 0) = {{}} BY <1>0 DEF Small
  <2>2. FoldsTo([s \in {{}} |-> base], F, base, n, 0) BY <2>1 DEF FoldsTo, S
  <2> QED BY <2>2
<1>2. ASSUME NEW c \in Nat, c \in T PROVE c + 1 \in T
  <2>1. PICK g : FoldsTo(g, F, base, n, c) BY <1>2
  <2> DEFINE Body(k, s) == IF s = {} THEN base ELSE F[<<k[s \ {Max(s)}], Max(s)>>]
             h == [s \in Small(S, c + 1) |-> Body(g, s)]
  <2>2. \A s \in Small(S, c) : g[s] = Body(g, s)
    BY <2>1 DEF FoldsTo, S
  <2>3. Small(S, c) \subseteq Small(S, c + 1) BY <1>0 DEF Small
  <2>4. \A s \in Small(S, c) : h[s] = g[s] BY <2>2, <2>3
  <2>5. ASSUME NEW s \in Small(S, c + 1), s # {} PROVE s \ {Max(s)} \in Small(S, c)
    <3>1. Max(s) \in s BY <1>m, <2>5 DEF Small
    <3>2. Cardinality(s \ {Max(s)}) = Cardinality(s) - 1 /\ Cardinality(s) \in Nat
      BY <1>0, <3>1 DEF Small
    <3>3. s \ {Max(s)} \in SUBSET S BY DEF Small
    <3>4. Cardinality(s \ {Max(s)}) <= c BY <3>2 DEF Small
    <3> QED BY <3>3, <3>4 DEF Small
  <2>6. h = [s \in Small(S, c + 1) |-> Body(h, s)]
    <3>1. \A s \in Small(S, c + 1) : Body(g, s) = Body(h, s)
      BY <2>4, <2>5
    <3> QED BY <3>1
  <2>7. FoldsTo(h, F, base, n, c + 1)
    <3> HIDE DEF h
    <3> QED BY <2>6 DEF FoldsTo, S
  <2> QED BY <2>7
<1> HIDE DEF T
<1>3. Nat \subseteq T BY <1>1, <1>2, NatInd
<1> QED BY <1>3 DEF T

LEMMA FoldsExist ==
    ASSUME NEW n \in Nat, NEW F, NEW base
    PROVE  \E g : Folds(g, F, base, n)
<1>f. IsFiniteSet(1..n) BY FS_Interval
<1>1. Cardinality(1..n) \in Nat BY <1>f, FS_CardinalityType
<1>2. Small(1..n, Cardinality(1..n)) = SUBSET (1..n) BY <1>f, FS_Subset DEF Small
<1>3. \E g : FoldsTo(g, F, base, n, Cardinality(1..n)) BY <1>1, FoldsUpTo
<1> QED BY <1>2, <1>3 DEF Folds, FoldsTo

\* The steps stay where they are allowed to.
LEMMA FoldsStay ==
    ASSUME NEW n \in Nat, NEW A, NEW F \in [A \X (1..n) -> A], NEW base \in A,
           NEW g, Folds(g, F, base, n)
    PROVE  \A t \in SUBSET (1..n) : g[t] \in A
<1> DEFINE S == 1..n
           T == {t \in SUBSET S : g[t] \in A}
<1>f. IsFiniteSet(S) BY FS_Interval
<1>m. \A t \in SUBSET S : t # {} => Max(t) \in t BY MaxIn
<1>e. \A t \in SUBSET S : g[t] = IF t = {} THEN base ELSE F[<<g[t \ {Max(t)}], Max(t)>>]
  BY DEF Folds
<1>1. ASSUME NEW t \in SUBSET S, \A u \in SUBSET t : u # t => u \in T PROVE t \in T
  <2>1. CASE t = {} BY <1>e, <2>1
  <2>2. CASE t # {}
    <3>1. Max(t) \in t BY <1>m, <2>2
    <3>2. t \ {Max(t)} \in T BY <1>1, <3>1
    <3>3. <<g[t \ {Max(t)}], Max(t)>> \in A \X (1..n) BY <3>1, <3>2
    <3> QED BY <1>e, <2>2, <3>3
  <2> QED BY <2>1, <2>2
<1> HIDE DEF T, S
<1>2. SUBSET S \subseteq T BY <1>f, <1>1, SetInd
<1> QED BY <1>2 DEF T, S

\* The steps of fold k are those of F, as long as it stays in A.
Runs(k, F, base, n, A) ==
    /\ k[{}] = base
    /\ \A t \in SUBSET (1..n) : t # {} /\ k[t \ {Max(t)}] \in A =>
           k[t] = F[<<k[t \ {Max(t)}], Max(t)>>]

InOrder(k, F, base, n, A) ==
    /\ k[1..0] = base
    /\ \A i \in 0..n : k[1..i] \in A
    /\ \A i \in 1..n : k[1..i] = F[<<k[1..(i - 1)], i>>]

\* F takes what P says from a place to the next.
Carries(F, P, A, n) ==
    \A a \in A, i \in 1..n : <<a, i - 1>> \in P => <<F[<<a, i>>], i>> \in P

\* What the first places make of base.
LEMMA FoldsInOrder ==
    ASSUME NEW n \in Nat, NEW A, NEW F \in [A \X (1..n) -> A], NEW base \in A, NEW k,
           Runs(k, F, base, n, A)
    PROVE  InOrder(k, F, base, n, A)
<1> DEFINE T == {t \in SUBSET (1..n) : k[t] \in A}
<1>f. IsFiniteSet(1..n) BY FS_Interval
<1>1. ASSUME NEW t \in SUBSET (1..n), \A u \in SUBSET t : u # t => u \in T PROVE t \in T
  <2>1. CASE t = {} BY <2>1 DEF Runs
  <2>2. CASE t # {}
    <3>1. Max(t) \in t BY <2>2, MaxIn
    <3>2. t \ {Max(t)} \in T BY <1>1, <3>1
    <3>3. <<k[t \ {Max(t)}], Max(t)>> \in A \X (1..n) BY <3>1, <3>2
    <3>4. k[t] = F[<<k[t \ {Max(t)}], Max(t)>>] BY <2>2, <3>2 DEF Runs
    <3> QED BY <3>3, <3>4
  <2> QED BY <2>1, <2>2
<1>2. \A t \in SUBSET (1..n) : k[t] \in A
  <2> DEFINE S == 1..n
  <2>1. \A t \in SUBSET S : (\A u \in SUBSET t : u # t => u \in T) => t \in T BY <1>1
  <2>f. IsFiniteSet(S) BY <1>f
  <2> HIDE DEF T, S
  <2>2. SUBSET S \subseteq T BY <2>f, <2>1, SetInd
  <2> QED BY <2>2 DEF T, S
<1>3. 1..0 = {} /\ \A i \in 0..n : 1..i \in SUBSET (1..n) OBVIOUS
<1>4. ASSUME NEW i \in 1..n PROVE k[1..i] = F[<<k[1..(i - 1)], i>>]
  <2>1. Max(1..i) = i /\ (1..i) \ {i} = 1..(i - 1) /\ 1..i \in SUBSET (1..n) /\ 1..i # {} BY MaxUpTo
  <2>2. 1..(i - 1) \in SUBSET (1..n) OBVIOUS
  <2>3. k[1..(i - 1)] \in A BY <1>2, <2>2
  <2> QED BY <2>1, <2>3 DEF Runs
<1>5. k[1..0] = base BY <1>3 DEF Runs
<1>6. \A i \in 0..n : k[1..i] \in A BY <1>2, <1>3
<1>7. \A i \in 1..n : k[1..i] = F[<<k[1..(i - 1)], i>>] BY <1>4
<1> QED BY <1>5, <1>6, <1>7, Zenon DEF InOrder

\* What holds of base, and after each step, holds at the end.
LEMMA FoldsKeep ==
    ASSUME NEW n \in Nat, NEW A, NEW F \in [A \X (1..n) -> A], NEW base \in A, NEW k,
           Runs(k, F, base, n, A), NEW P, <<base, 0>> \in P, Carries(F, P, A, n)
    PROVE  k[1..n] \in A /\ <<k[1..n], n>> \in P
<1>0. InOrder(k, F, base, n, A) BY FoldsInOrder
<1>1. /\ k[1..0] = base
      /\ \A i \in 0..n : k[1..i] \in A
      /\ \A i \in 1..n : k[1..i] = F[<<k[1..(i - 1)], i>>]
  BY <1>0, Zenon DEF InOrder
<1> DEFINE K == {i \in Nat : i <= n => <<k[1..i], i>> \in P}
<1>2. 0 \in K BY <1>1
<1>3. ASSUME NEW i \in Nat, i \in K PROVE i + 1 \in K
  <2> SUFFICES ASSUME i + 1 <= n PROVE <<k[1..(i + 1)], i + 1>> \in P OBVIOUS
  <2>1. i + 1 \in 1..n /\ (i + 1) - 1 = i /\ i \in 0..n OBVIOUS
  <2>2. <<k[1..i], i>> \in P BY <1>3
  <2>3. k[1..i] \in A /\ k[1..(i + 1)] = F[<<k[1..i], i + 1>>] BY <1>1, <2>1
  <2>4. \A a \in A : <<a, (i + 1) - 1>> \in P => <<F[<<a, i + 1>>], i + 1>> \in P
    BY <2>1 DEF Carries
  <2> QED BY <2>1, <2>2, <2>3, <2>4
<1> HIDE DEF K
<1>4. Nat \subseteq K BY <1>2, <1>3, NatInd
<1>5. n \in K /\ n \in 0..n BY <1>4
<1> QED BY <1>1, <1>5 DEF K

-----------------------------------------------------------------------------
\* One more at the end.
LEMMA Appended ==
    ASSUME NEW E, NEW a \in Seq(E), NEW x \in E
    PROVE  /\ Append(a, x) \in Seq(E) /\ Len(Append(a, x)) = Len(a) + 1 /\ Len(a) \in Nat
           /\ \A i \in 1..Len(a) : Append(a, x)[i] = a[i]
           /\ Append(a, x)[Len(a) + 1] = x
           /\ Append(a, x) # <<>>
           /\ ToSet(Append(a, x)) = ToSet(a) \cup {x}
           /\ Distinct(a) /\ x \notin ToSet(a) => Distinct(Append(a, x))
<1>1. /\ Append(a, x) \in Seq(E) /\ Len(Append(a, x)) = Len(a) + 1 /\ Len(a) \in Nat
      /\ \A i \in 1..Len(a) : Append(a, x)[i] = a[i]
      /\ Append(a, x)[Len(a) + 1] = x
  OBVIOUS
<1>2. ToSet(a) = {a[i] : i \in 1..Len(a)}
      /\ ToSet(Append(a, x)) = {Append(a, x)[i] : i \in 1..(Len(a) + 1)}
  BY <1>1, Elements
<1>3. \A i \in 1..(Len(a) + 1) : i \in 1..Len(a) \/ i = Len(a) + 1 BY <1>1
<1>3b. (\A i \in 1..Len(a) : i \in 1..(Len(a) + 1)) /\ Len(a) + 1 \in 1..(Len(a) + 1) BY <1>1
<1>4. ToSet(Append(a, x)) \subseteq ToSet(a) \cup {x} BY <1>1, <1>2, <1>3
<1>5. ToSet(a) \cup {x} \subseteq ToSet(Append(a, x)) BY <1>1, <1>2, <1>3b
<1>6. ASSUME Distinct(a), x \notin ToSet(a) PROVE Distinct(Append(a, x))
  <2>1. \A i \in 1..Len(a) : a[i] # x BY <1>2, <1>6
  <2> QED BY <1>1, <1>3, <1>6, <2>1 DEF Distinct
<1>7. Append(a, x) # <<>> BY <1>1
<1> QED BY <1>1, <1>4, <1>5, <1>6, <1>7

\* The first places of a sequence.
LEMMA FirstPlaces ==
    ASSUME NEW E, NEW s \in Seq(E), NEW i \in 1..Len(s)
    PROVE  /\ s[i] \in E /\ i - 1 \in Nat
           /\ {s[j] : j \in 1..i} = {s[j] : j \in 1..(i - 1)} \cup {s[i]}
           /\ Distinct(s) => s[i] \notin {s[j] : j \in 1..(i - 1)}
<1>1. Len(s) \in Nat /\ s[i] \in E BY Elements
<1>2. 1..i = (1..(i - 1)) \cup {i} BY <1>1
<1>3. \A j \in 1..(i - 1) : j \in 1..Len(s) /\ j # i BY <1>1
<1> QED BY <1>1, <1>2, <1>3 DEF Distinct

\* What is among S, kept in order.
LEMMA Kept ==
    ASSUME NEW E, NEW s \in Seq(E), NEW S
    PROVE  /\ Among(s, S) \in Seq(E) /\ ToSet(Among(s, S)) = ToSet(s) \cap S
           /\ Len(Among(s, S)) <= Len(s)
           /\ Distinct(s) => Distinct(Among(s, S))
           /\ s # <<>> /\ s[1] \in S => Among(s, S) # <<>> /\ Among(s, S)[1] = s[1]
<1> DEFINE n == Len(s)
           Step(a, i) == IF s[i] \in S THEN Append(a, s[i]) ELSE a
           F == [p \in Seq(E) \X (1..n) |-> Step(p[1], p[2])]
           Is(k) == k = [t \in SUBSET DOMAIN s |-> IF t = {} THEN <<>> ELSE Step(k[t \ {Max(t)}], Max(t))]
           It == CHOOSE k : Is(k)
<1>1. Among(s, S) = It[DOMAIN s] BY DEF Among, FoldLeft, MapThenFoldSet
<1>2. n \in Nat /\ DOMAIN s = 1..n /\ \A i \in 1..n : s[i] \in E BY LenProperties, ElementOfSeq
<1>3. \A a \in Seq(E), i \in 1..n : Step(a, i) \in Seq(E) BY <1>2
<1>4. F \in [Seq(E) \X (1..n) -> Seq(E)] /\ \A a \in Seq(E), i \in 1..n : F[<<a, i>>] = Step(a, i)
  BY <1>3
<1>5. <<>> \in Seq(E) OBVIOUS
<1>m. \A t \in SUBSET (1..n) : t # {} => Max(t) \in 1..n BY <1>2, MaxIn
<1> HIDE DEF F, Step
<1>6. PICK g : Folds(g, F, <<>>, n) BY <1>2, FoldsExist
<1>7. \A t \in SUBSET (1..n) : g[t] \in Seq(E) BY <1>2, <1>4, <1>5, <1>6, FoldsStay
<1>8. Is(g)
  <2>1. \A t \in SUBSET (1..n) : t # {} => F[<<g[t \ {Max(t)}], Max(t)>>] = Step(g[t \ {Max(t)}], Max(t))
    BY <1>4, <1>7, <1>m
  <2> QED BY <1>2, <1>6, <2>1 DEF Folds
<1>9. Is(It)
  <2> HIDE DEF Is
  <2> QED BY <1>8
<1> HIDE DEF It
<1>10. Runs(It, F, <<>>, n, Seq(E)) BY <1>2, <1>4, <1>9, <1>m DEF Runs
<1> HIDE DEF Is
<1> DEFINE Good(r, k) == /\ Len(r) <= k
                         /\ ToSet(r) = {s[i] : i \in 1..k} \cap S
                         /\ Distinct(s) => Distinct(r)
                         /\ k > 0 /\ s[1] \in S => r # <<>> /\ r[1] = s[1]
           P == {p \in Seq(E) \X (0..n) : Good(p[1], p[2])}
<1>11. <<<<>>, 0>> \in P
  <2>1. Good(<<>>, 0)
    <3>1. Len(<<>>) = 0 /\ ToSet(<<>>) = {} BY DEF ToSet
    <3>2. Distinct(<<>>) BY <3>1 DEF Distinct
    <3>3. 1..0 = {} OBVIOUS
    <3> QED BY <3>1, <3>2, <3>3
  <2>2. 0 \in 0..n BY <1>2
  <2> HIDE DEF Good
  <2> QED BY <1>5, <2>1, <2>2
<1>12. ASSUME NEW a \in Seq(E), NEW i \in 1..n, <<a, i - 1>> \in P PROVE <<F[<<a, i>>], i>> \in P
  <2> DEFINE x == s[i]
  <2>1. Good(a, i - 1) BY <1>12
  <2>2. x \in E BY <1>2
  <2>3. F[<<a, i>>] = Step(a, i) BY <1>4
  <2>4. /\ Append(a, x) \in Seq(E) /\ Len(Append(a, x)) = Len(a) + 1 /\ Len(a) \in Nat
        /\ \A j \in 1..Len(a) : Append(a, x)[j] = a[j]
        /\ Append(a, x)[Len(a) + 1] = x
        /\ Append(a, x) # <<>>
        /\ ToSet(Append(a, x)) = ToSet(a) \cup {x}
        /\ Distinct(a) /\ x \notin ToSet(a) => Distinct(Append(a, x))
    BY <2>2, Appended
  <2>5. /\ {s[j] : j \in 1..i} = {s[j] : j \in 1..(i - 1)} \cup {x}
        /\ Distinct(s) => x \notin {s[j] : j \in 1..(i - 1)}
    BY FirstPlaces
  <2>6. Good(F[<<a, i>>], i)
    <3>1. CASE x \in S
      <4>1. F[<<a, i>>] = Append(a, x) BY <2>3, <3>1 DEF Step
      <4>2. ToSet(Append(a, x)) = {s[j] : j \in 1..i} \cap S BY <2>1, <2>4, <2>5, <3>1
      <4>3. Distinct(s) => Distinct(Append(a, x)) BY <2>1, <2>4, <2>5
      <4>4. ASSUME s[1] \in S PROVE Append(a, x)[1] = s[1]
        <5>1. CASE i = 1
          <6>1. Len(a) = 0 BY <2>1, <2>4, <5>1
          <6> QED BY <2>4, <5>1, <6>1
        <5>2. CASE i > 1
          <6>1. a # <<>> /\ a[1] = s[1] BY <2>1, <4>4, <5>2
          <6>2. 1 \in 1..Len(a) BY <6>1
          <6> QED BY <2>4, <6>1, <6>2
        <5> QED BY <5>1, <5>2
      <4>5. Len(Append(a, x)) <= i BY <2>1, <2>4
      <4> QED BY <2>4, <4>1, <4>2, <4>3, <4>4, <4>5
    <3>2. CASE x \notin S
      <4>1. F[<<a, i>>] = a BY <2>3, <3>2 DEF Step
      <4>2. i = 1 => x = s[1] OBVIOUS
      <4>3. i # 1 => i - 1 > 0 OBVIOUS
      <4>4. Len(a) <= i BY <2>1, <2>4
      <4>5. ToSet(a) = {s[j] : j \in 1..i} \cap S BY <2>1, <2>5, <3>2
      <4>6. ASSUME s[1] \in S PROVE a # <<>> /\ a[1] = s[1] BY <2>1, <3>2, <4>2, <4>3, <4>6
      <4> QED BY <2>1, <4>1, <4>4, <4>5, <4>6
    <3> QED BY <3>1, <3>2
  <2>7. F[<<a, i>>] \in Seq(E) /\ i \in 0..n BY <1>2, <1>4
  <2> HIDE DEF Good
  <2> QED BY <2>6, <2>7
<1> HIDE DEF P
<1>13. It[1..n] \in Seq(E) /\ <<It[1..n], n>> \in P
  <2>1. Carries(F, P, Seq(E), n) BY <1>12 DEF Carries
  <2> QED BY <1>2, <1>4, <1>5, <1>10, <1>11, <2>1, FoldsKeep
<1>14. Good(It[1..n], n) BY <1>13 DEF P
<1>15. ToSet(s) = {s[i] : i \in 1..n} BY Elements
<1>16. s # <<>> => n > 0 BY <1>2
<1> QED BY <1>1, <1>2, <1>13, <1>14, <1>15, <1>16

\* What is not in S, kept in order.
LEMMA Rest ==
    ASSUME NEW E, NEW s \in Seq(E), NEW S
    PROVE  /\ Without(s, S) \in Seq(E) /\ ToSet(Without(s, S)) = ToSet(s) \ S
           /\ Len(Without(s, S)) <= Len(s)
           /\ Distinct(s) => Distinct(Without(s, S))
           /\ s # <<>> /\ s[1] \notin S => Without(s, S) # <<>> /\ Without(s, S)[1] = s[1]
<1> DEFINE R == ToSet(s) \ S
<1>1. s # <<>> => s[1] \in ToSet(s) BY Elements
<1>2. ToSet(s) \cap R = R OBVIOUS
<1>3. s # <<>> /\ s[1] \notin S => s[1] \in R BY <1>1
<1>4. Without(s, S) = Among(s, R) BY DEF Without
<1> HIDE DEF R
<1>5. /\ Among(s, R) \in Seq(E) /\ ToSet(Among(s, R)) = ToSet(s) \cap R
      /\ Len(Among(s, R)) <= Len(s)
  BY Kept
<1>7. Distinct(s) => Distinct(Among(s, R)) BY Kept
<1>8. s # <<>> /\ s[1] \in R => Among(s, R) # <<>> /\ Among(s, R)[1] = s[1] BY Kept
<1>6. ToSet(s) \cap R = ToSet(s) \ S BY <1>2 DEF R
<1> QED BY <1>3, <1>4, <1>5, <1>6, <1>7, <1>8

\* The first n of a list.
LEMMA FirstOf ==
    ASSUME NEW E, NEW s \in Seq(E), NEW n \in Nat
    PROVE  /\ Upto(s, n) \in Seq(E)
           /\ Len(Upto(s, n)) = IF n <= Len(s) THEN n ELSE Len(s)
           /\ \A i \in 1..Len(Upto(s, n)) : Upto(s, n)[i] = s[i]
           /\ ToSet(Upto(s, n)) \subseteq ToSet(s)
           /\ Distinct(s) => Distinct(Upto(s, n))
           /\ Len(s) <= n => Upto(s, n) = s
<1> DEFINE m == IF n <= Len(s) THEN n ELSE Len(s)
<1>1. Len(s) \in Nat /\ m \in Nat /\ m <= Len(s) /\ \A i \in 1..Len(s) : s[i] \in E BY Elements
<1>2. Min({n, Len(s)}) = m BY <1>1 DEF Min
<1>3. Upto(s, n) = SubSeq(s, 1, m) BY <1>2 DEF Upto
<1>4. Upto(s, n) = [i \in 1..m |-> s[i]] BY <1>1, <1>3
<1> DEFINE u == [i \in 1..m |-> s[i]]
<1>5. u \in Seq(E) /\ Len(u) = m /\ \A i \in 1..m : u[i] = s[i] BY <1>1
<1> HIDE DEF u
<1>6. \A i \in 1..m : i \in 1..Len(s) BY <1>1
<1> HIDE DEF m
<1>7. ToSet(u) = {u[i] : i \in 1..m} /\ ToSet(s) = {s[i] : i \in 1..Len(s)} BY <1>5, Elements
<1>8. ToSet(u) \subseteq ToSet(s) BY <1>5, <1>6, <1>7
<1>9. Distinct(s) => Distinct(u) BY <1>5, <1>6 DEF Distinct
<1>10. ASSUME Len(s) <= n PROVE u = s
  <2>1. m = Len(s) BY <1>1, <1>10 DEF m
  <2>2. s = [i \in 1..Len(s) |-> s[i]] OBVIOUS
  <2> QED BY <2>1, <2>2 DEF u
<1>11. Upto(s, n) = u BY <1>4 DEF u
<1> QED BY <1>5, <1>8, <1>9, <1>10, <1>11 DEF m

-----------------------------------------------------------------------------
\* Ranked lists.

\* The pairs are in a line.
LEMMA AboveLine ==
    ASSUME NEW c \in Int \X Int, NEW d \in Int \X Int
    PROVE  /\ ~ Above(c, c) /\ ~ (Above(c, d) /\ Above(d, c))
           /\ c # d => Above(c, d) \/ Above(d, c)
           /\ \A e \in Int \X Int : Above(c, d) /\ Above(d, e) => Above(c, e)
BY DEF Above

\* Every member of S has one place, its rank.
LEMMA RankedOnce ==
    ASSUME NEW S, IsFiniteSet(S), NEW key, \A x \in S : key[x] \in Int \X Int,
           \A x, y \in S : key[x] = key[y] => x = y
    PROVE  /\ Ranked(S, key) \in Seq(S) /\ Len(Ranked(S, key)) = Cardinality(S)
           /\ ToSet(Ranked(S, key)) = S /\ Distinct(Ranked(S, key))
           /\ \A i, j \in 1..Cardinality(S) : i < j =>
                  Above(key[Ranked(S, key)[i]], key[Ranked(S, key)[j]])
<1> DEFINE n == Cardinality(S)
           Higher(x) == {y \in S : Above(key[y], key[x])}
           rank == [x \in S |-> Cardinality(Higher(x)) + 1]
           r == Ranked(S, key)
<1>1. n \in Nat BY FS_CardinalityType
<1>2. \A x \in S : /\ Higher(x) \subseteq S /\ x \notin Higher(x)
                   /\ IsFiniteSet(Higher(x)) /\ Cardinality(Higher(x)) \in Nat
  <2> SUFFICES ASSUME NEW x \in S
               PROVE  /\ Higher(x) \subseteq S /\ x \notin Higher(x)
                      /\ IsFiniteSet(Higher(x)) /\ Cardinality(Higher(x)) \in Nat
    OBVIOUS
  <2>1. x \notin Higher(x) BY AboveLine
  <2> QED BY <2>1, FS_Subset, FS_CardinalityType
<1>3. ASSUME NEW x \in S, NEW y \in S, Above(key[x], key[y])
      PROVE  Cardinality(Higher(x)) < Cardinality(Higher(y))
  <2>1. Higher(x) \subseteq Higher(y)
    <3> SUFFICES ASSUME NEW z \in S, Above(key[z], key[x]) PROVE Above(key[z], key[y]) OBVIOUS
    <3>1. key[z] \in Int \X Int /\ key[x] \in Int \X Int /\ key[y] \in Int \X Int OBVIOUS
    <3> QED BY <1>3, <3>1, AboveLine
  <2>2. x \in Higher(y) /\ x \notin Higher(x) BY <1>2, <1>3
  <2> HIDE DEF Higher
  <2>3. Cardinality(Higher(x)) <= Cardinality(Higher(y))
        /\ (Cardinality(Higher(x)) = Cardinality(Higher(y)) => Higher(x) = Higher(y))
    BY <1>2, <2>1, FS_Subset
  <2> QED BY <1>2, <2>2, <2>3
<1>4. ASSUME NEW x \in S PROVE rank[x] \in 1..n
  <2>1. Higher(x) \subseteq S \ {x} BY <1>2
  <2>2. IsFiniteSet(S \ {x}) /\ Cardinality(S \ {x}) = n - 1 BY FS_RemoveElement
  <2> HIDE DEF Higher
  <2>3. Cardinality(Higher(x)) <= n - 1 BY <2>1, <2>2, FS_Subset
  <2> QED BY <1>1, <1>2, <2>3
<1>5. ASSUME NEW x \in S, NEW y \in S, rank[x] = rank[y] PROVE x = y
  <2> SUFFICES ASSUME x # y PROVE FALSE OBVIOUS
  <2>1. key[x] # key[y] OBVIOUS
  <2>2. Above(key[x], key[y]) \/ Above(key[y], key[x]) BY <2>1, AboveLine
  <2> HIDE DEF Higher
  <2>3. Cardinality(Higher(x)) < Cardinality(Higher(y)) \/ Cardinality(Higher(y)) < Cardinality(Higher(x))
    BY <1>3, <2>2
  <2> QED BY <1>2, <1>5, <2>3
<1>6. \A i \in 1..n : \E x \in S : rank[x] = i
  <2> HIDE DEF rank, n
  <2>1. rank \in [S -> 1..n] BY <1>4 DEF rank
  <2>2. rank \in Injection(S, 1..n) BY <1>5, <2>1 DEF Injection, IsInjective
  <2>3. IsFiniteSet(1..n) /\ Cardinality(1..n) = Cardinality(S) BY <1>1, FS_Interval DEF n
  <2>4. rank \in Surjection(S, 1..n) BY <2>2, <2>3, FS_Injection
  <2> QED BY <2>4 DEF Surjection
<1>7. r = [i \in 1..n |-> CHOOSE x \in S : Cardinality(Higher(x)) = i - 1]
  BY DEF Ranked
<1>8. ASSUME NEW i \in 1..n PROVE r[i] \in S /\ rank[r[i]] = i
  <2>1. PICK x \in S : rank[x] = i BY <1>6
  <2> HIDE DEF Higher
  <2>2. Cardinality(Higher(x)) = i - 1 BY <1>2, <2>1
  <2>3. r[i] = CHOOSE y \in S : Cardinality(Higher(y)) = i - 1 BY <1>7
  <2>4. r[i] \in S /\ Cardinality(Higher(r[i])) = i - 1 BY <2>2, <2>3
  <2> QED BY <2>4
<1> HIDE DEF rank, r
<1>9. r \in Seq(S) /\ Len(r) = n
  <2>1. r \in [1..n -> S] BY <1>7, <1>8
  <2> QED BY <1>1, <2>1
<1>10. ToSet(r) = S
  <2>1. ToSet(r) = {r[i] : i \in 1..n} BY <1>9, Elements
  <2>2. \A x \in S : rank[x] \in 1..n /\ r[rank[x]] = x BY <1>4, <1>5, <1>8
  <2> QED BY <1>8, <2>1, <2>2
<1>11. Distinct(r) BY <1>8, <1>9 DEF Distinct
<1>12. ASSUME NEW i \in 1..n, NEW j \in 1..n, i < j PROVE Above(key[r[i]], key[r[j]])
  <2>1. r[i] \in S /\ r[j] \in S /\ rank[r[i]] = i /\ rank[r[j]] = j BY <1>8
  <2>2. r[i] # r[j] BY <1>12, <2>1
  <2>3. key[r[i]] # key[r[j]] BY <2>1, <2>2
  <2>4. ASSUME Above(key[r[j]], key[r[i]]) PROVE FALSE
    <3> HIDE DEF Higher
    <3>1. Cardinality(Higher(r[j])) < Cardinality(Higher(r[i])) BY <1>3, <2>1, <2>4
    <3> QED BY <1>2, <1>12, <2>1, <3>1 DEF rank
  <2> QED BY <2>1, <2>3, <2>4, AboveLine
<1> QED BY <1>9, <1>10, <1>11, <1>12 DEF r
=============================================================================

--------------------------- MODULE SharedFacts_proofs --------------------------
(***************************************************************************)
(* Facts about the operators that several components are built from: the   *)
(* lists and rows of CoreBuild and ObjectRows, the order of the rows of a   *)
(* core, acyclic relations and paths, and what the essential graph of a DAG *)
(* must be.                                                                 *)
(***************************************************************************)
EXTENDS ObjectRows, MarkovEquivalence, FiniteSetTheorems, SequenceTheorems, TLAPS

StrictOrder(S, R) ==
    /\ \A x \in S : <<x, x>> \notin R
    /\ \A x, y, z \in S : <<x, y>> \in R /\ <<y, z>> \in R => <<x, z>> \in R
    /\ \A x, y \in S : x # y => <<x, y>> \in R \/ <<y, x>> \in R

(* InOrder lists each member of a finite set once, in the order given.     *)
LEMMA InOrderFacts ==
    ASSUME NEW S, IsFiniteSet(S), NEW R, StrictOrder(S, R)
    PROVE  /\ InOrder(S, R) \in [1 .. Cardinality(S) -> S]
           /\ \A x \in S : \E k \in 1 .. Cardinality(S) : InOrder(S, R)[k] = x
           /\ \A i, j \in 1 .. Cardinality(S) :
                  i < j <=> <<InOrder(S, R)[i], InOrder(S, R)[j]>> \in R
           /\ \A k \in 1 .. Cardinality(S) :
                  Cardinality({y \in S : <<y, InOrder(S, R)[k]>> \in R}) = k - 1
<1> DEFINE size == Cardinality(S)
           below(x) == {y \in S : <<y, x>> \in R}
           rank == [x \in S |-> Cardinality(below(x))]
           T == 0 .. (size - 1)
           at == InOrder(S, R)
<1>1. size \in Nat
  BY FS_CardinalityType
<1>2. \A x \in S : IsFiniteSet(below(x)) /\ Cardinality(below(x)) \in Nat
  BY FS_Subset, FS_CardinalityType
<1>3. ASSUME NEW x \in S PROVE Cardinality(below(x)) <= size - 1
  <2>1. below(x) \in SUBSET (S \ {x})
    BY DEF StrictOrder
  <2>2. IsFiniteSet(S \ {x}) /\ Cardinality(S \ {x}) = size - 1
    BY FS_RemoveElement
  <2>3. Cardinality(below(x)) <= Cardinality(S \ {x})
    BY <2>1, <2>2, FS_Subset
  <2> HIDE DEF below
  <2> QED
    BY <2>2, <2>3
<1>4. rank \in [S -> T]
  <2>1. \A x \in S : Cardinality(below(x)) \in T
    <3> SUFFICES ASSUME NEW x \in S PROVE Cardinality(below(x)) \in T
      OBVIOUS
    <3> QED
      BY <1>1, <1>2, <1>3
  <2> QED
    BY <2>1
<1>5. ASSUME NEW x \in S, NEW y \in S, <<x, y>> \in R PROVE rank[x] < rank[y]
  <2>1. below(x) \cup {x} \in SUBSET below(y)
    BY <1>5 DEF StrictOrder
  <2>2. x \notin below(x)
    BY DEF StrictOrder
  <2>3. Cardinality(below(x) \cup {x}) = Cardinality(below(x)) + 1
    BY <1>2, <2>2, FS_AddElement
  <2>4. Cardinality(below(x) \cup {x}) <= Cardinality(below(y))
    BY <1>2, <2>1, FS_Subset
  <2> QED
    BY <1>2, <2>3, <2>4
<1> HIDE DEF rank
<1>6. \A x, y \in S : rank[x] = rank[y] => x = y
  <2> SUFFICES ASSUME NEW x \in S, NEW y \in S, rank[x] = rank[y], x # y PROVE FALSE
    OBVIOUS
  <2>1. rank[x] \in Int /\ rank[y] \in Int
    BY <1>4
  <2>2. <<x, y>> \in R \/ <<y, x>> \in R
    BY DEF StrictOrder
  <2>3. rank[x] < rank[y] \/ rank[y] < rank[x]
    BY <1>5, <2>2
  <2> QED
    BY <2>1, <2>3
<1>7. rank \in Injection(S, T)
  BY <1>4, <1>6 DEF Injection, IsInjective
<1>8. IsFiniteSet(T) /\ Cardinality(T) = size
  BY <1>1, FS_Interval
<1>9. rank \in Surjection(S, T)
  BY <1>7, <1>8, FS_Injection
<1>10. ASSUME NEW k \in 1 .. size PROVE at[k] \in S /\ rank[at[k]] = k - 1
  <2>1. k - 1 \in T
    BY <1>1
  <2>2. \E x \in S : Cardinality(below(x)) = k - 1
    <3>1. \E x \in S : rank[x] = k - 1
      BY <1>9, <2>1 DEF Surjection
    <3> QED
      BY <3>1 DEF rank
  <2>3. at[k] = CHOOSE x \in S : Cardinality(below(x)) = k - 1
    BY DEF InOrder
  <2> QED
    BY <2>2, <2>3 DEF rank
<1> HIDE DEF size, at
<1>11. at \in [1 .. size -> S]
  BY <1>10 DEF InOrder, at, size
<1>12. ASSUME NEW x \in S PROVE \E k \in 1 .. size : at[k] = x
  <2>1. rank[x] \in T /\ rank[x] + 1 \in 1 .. size
    BY <1>1, <1>4
  <2>2. rank[at[rank[x] + 1]] = rank[x] /\ at[rank[x] + 1] \in S
    BY <1>10, <2>1
  <2> QED
    BY <1>6, <2>1, <2>2
<1> HIDE DEF T
<1>13. ASSUME NEW i \in 1 .. size, NEW j \in 1 .. size
       PROVE  i < j <=> <<at[i], at[j]>> \in R
  <2>1. /\ at[i] \in S /\ at[j] \in S /\ rank[at[i]] = i - 1 /\ rank[at[j]] = j - 1
    BY <1>10
  <2>2. CASE <<at[i], at[j]>> \in R
    <3>1. i - 1 < j - 1
      BY <1>5, <2>1, <2>2
    <3> QED
      BY <2>2, <3>1
  <2>3. CASE <<at[j], at[i]>> \in R
    <3>1. j - 1 < i - 1
      BY <1>5, <2>1, <2>3
    <3>2. <<at[i], at[j]>> \notin R
      BY <2>1, <2>3 DEF StrictOrder
    <3> QED
      BY <3>1, <3>2
  <2>4. CASE at[i] = at[j]
    BY <2>1, <2>4 DEF StrictOrder
  <2> QED
    BY <2>1, <2>2, <2>3, <2>4 DEF StrictOrder
<1>14. ASSUME NEW k \in 1 .. size PROVE Cardinality(below(at[k])) = k - 1
  BY <1>10 DEF rank
<1> QED
  BY <1>11, <1>12, <1>13, <1>14 DEF at, size

LEMMA InOrderIsInjective ==
    ASSUME NEW S, IsFiniteSet(S), NEW R, StrictOrder(S, R),
           NEW i \in 1 .. Cardinality(S), NEW j \in 1 .. Cardinality(S),
           InOrder(S, R)[i] = InOrder(S, R)[j]
    PROVE  i = j
<1>1. InOrder(S, R)[i] \in S
  <2>1. InOrder(S, R) \in [1 .. Cardinality(S) -> S]
    BY InOrderFacts
  <2> QED
    BY <2>1
<1>2. <<InOrder(S, R)[i], InOrder(S, R)[j]>> \notin R /\ <<InOrder(S, R)[j], InOrder(S, R)[i]>> \notin R
  BY <1>1 DEF StrictOrder
<1>3. ~ (i < j) /\ ~ (j < i)
  BY <1>2, InOrderFacts
<1> QED
  BY <1>3, FS_CardinalityType

(* The member with k - 1 others before it comes at position k. *)
LEMMA InOrderByRank ==
    ASSUME NEW S, IsFiniteSet(S), NEW R, StrictOrder(S, R), NEW k \in 1 .. Cardinality(S),
           NEW x \in S, Cardinality({y \in S : <<y, x>> \in R}) = k - 1
    PROVE  InOrder(S, R)[k] = x
<1>1. Cardinality(S) \in Nat
  BY FS_CardinalityType
<1>2. PICK m \in 1 .. Cardinality(S) : InOrder(S, R)[m] = x
  BY InOrderFacts
<1>3. m - 1 = k - 1
  BY <1>2, InOrderFacts
<1> QED
  BY <1>1, <1>2, <1>3

LEMMA AppendFacts ==
    ASSUME NEW T, NEW s \in Seq(T), NEW x \in T
    PROVE  /\ Append(s, x) \in Seq(T)
           /\ ToSet(Append(s, x)) = ToSet(s) \cup {x}
           /\ IsInjective(s) /\ x \notin ToSet(s) => IsInjective(Append(s, x))
<1>1. /\ Len(s) \in Nat /\ DOMAIN s = 1 .. Len(s)
      /\ Append(s, x) \in Seq(T) /\ DOMAIN Append(s, x) = 1 .. (Len(s) + 1)
  BY LenProperties
<1>2. /\ \A i \in 1 .. Len(s) : Append(s, x)[i] = s[i]
      /\ Append(s, x)[Len(s) + 1] = x
  OBVIOUS
<1>3. \A i : i \in 1 .. (Len(s) + 1) <=> i \in 1 .. Len(s) \/ i = Len(s) + 1
  BY <1>1
<1>4. ToSet(Append(s, x)) = ToSet(s) \cup {x}
  BY <1>1, <1>2, <1>3, Zenon DEF ToSet
<1>5. ASSUME IsInjective(s), x \notin ToSet(s) PROVE IsInjective(Append(s, x))
  <2>1. \A i \in 1 .. Len(s) : s[i] # x
    BY <1>1, <1>5 DEF ToSet
  <2>2. \A i, j \in 1 .. Len(s) : s[i] = s[j] => i = j
    BY <1>1, <1>5 DEF IsInjective
  <2> QED
    BY <1>1, <1>2, <1>3, <2>1, <2>2 DEF IsInjective
<1> QED
  BY <1>1, <1>4, <1>5

(* SetToSeq() lists a finite set, each member once. *)
LEMMA SetToSeqFacts ==
    ASSUME NEW S, IsFiniteSet(S)
    PROVE  /\ SetToSeq(S) \in Seq(S)
           /\ Len(SetToSeq(S)) = Cardinality(S)
           /\ IsInjective(SetToSeq(S))
           /\ ToSet(SetToSeq(S)) = S
<1> DEFINE size == Cardinality(S)
<1>1. size \in Nat /\ ExistsBijection(1 .. size, S)
  BY FS_CardinalityType
<1>2. \E f \in [1 .. size -> S] : IsInjective(f)
  BY <1>1 DEF ExistsBijection, Bijection, Injection
<1>3. SetToSeq(S) \in [1 .. size -> S] /\ IsInjective(SetToSeq(S))
  BY <1>2 DEF SetToSeq
<1>4. SetToSeq(S) \in Injection(1 .. size, S)
  BY <1>3 DEF Injection
<1>5. IsFiniteSet(1 .. size) /\ Cardinality(1 .. size) = size
  BY <1>1, FS_Interval
<1>6. SetToSeq(S) \in Surjection(1 .. size, S)
  BY <1>4, <1>5, FS_Injection
<1>7. ToSet(SetToSeq(S)) = S
  BY <1>3, <1>6 DEF ToSet, Surjection
<1> QED
  BY <1>1, <1>3, <1>7

(* A subsequence: its members are those at the positions picked, and as     *)
(* distinct as they are.                                                    *)
LEMMA PickedFacts ==
    ASSUME NEW T, NEW s \in Seq(T), NEW I \in SUBSET DOMAIN s
    PROVE  /\ Picked(s, I) \in Seq(T)
           /\ Len(Picked(s, I)) = Cardinality(I)
           /\ ToSet(Picked(s, I)) = {s[i] : i \in I}
           /\ (\A i, j \in I : s[i] = s[j] => i = j) => IsInjective(Picked(s, I))
<1> DEFINE R == {p \in I \X I : p[1] < p[2]}
           at == InOrder(I, R)
           size == Cardinality(I)
<1>1. DOMAIN s = 1 .. Len(s) /\ Len(s) \in Nat
  BY LenProperties
<1>2. IsFiniteSet(I) /\ size \in Nat
  <2>1. IsFiniteSet(1 .. Len(s))
    BY <1>1, FS_Interval
  <2> QED
    BY <1>1, <2>1, FS_Subset, FS_CardinalityType
<1>3. StrictOrder(I, R)
  <2>1. \A i \in I : i \in Int
    BY <1>1
  <2> QED
    BY <2>1 DEF StrictOrder
<1>4. at \in [1 .. size -> I] /\ \A i \in I : \E k \in 1 .. size : at[k] = i
  BY <1>2, <1>3, InOrderFacts
<1>5. \A k, m \in 1 .. size : at[k] = at[m] => k = m
  BY <1>2, <1>3, InOrderIsInjective
<1> HIDE DEF size, at
<1>6. Picked(s, I) = [k \in 1 .. size |-> s[at[k]]]
  BY <1>4 DEF Picked, at
<1>7. \A k \in 1 .. size : at[k] \in 1 .. Len(s) /\ s[at[k]] \in T
  BY <1>1, <1>4, ElementOfSeq
<1>8. Picked(s, I) \in [1 .. size -> T]
  BY <1>6, <1>7
<1>9. Picked(s, I) \in Seq(T) /\ Len(Picked(s, I)) = size
  BY <1>2, <1>8
<1>10. DOMAIN Picked(s, I) = 1 .. size
  BY <1>6
<1>11. ToSet(Picked(s, I)) = {s[i] : i \in I}
  <2>1. ASSUME NEW x \in ToSet(Picked(s, I)) PROVE x \in {s[i] : i \in I}
    <3>1. PICK k \in 1 .. size : x = s[at[k]]
      BY <1>6, <1>10 DEF ToSet
    <3> QED
      BY <1>4, <3>1
  <2>2. ASSUME NEW x \in {s[i] : i \in I} PROVE x \in ToSet(Picked(s, I))
    <3>1. PICK i \in I : x = s[i]
      OBVIOUS
    <3>2. PICK k \in 1 .. size : at[k] = i
      BY <1>4
    <3>3. Picked(s, I)[k] = x
      BY <1>6, <3>1, <3>2
    <3> QED
      BY <1>10, <3>3 DEF ToSet
  <2> QED
    BY <2>1, <2>2
<1>12. (\A i, j \in I : s[i] = s[j] => i = j) => IsInjective(Picked(s, I))
  <2> SUFFICES ASSUME \A i, j \in I : s[i] = s[j] => i = j,
                      NEW k \in 1 .. size, NEW m \in 1 .. size,
                      Picked(s, I)[k] = Picked(s, I)[m]
               PROVE  k = m
    BY <1>10 DEF IsInjective
  <2>1. s[at[k]] = s[at[m]] /\ at[k] \in I /\ at[m] \in I
    BY <1>4, <1>6
  <2> QED
    BY <1>5, <2>1
<1> QED
  BY <1>9, <1>11, <1>12 DEF size

--------------------------------------------------------------------------------
(* Numbers: their order, and the least of some. *)
LEMMA NumbersAreOrdered ==
    ASSUME NEW I \in SUBSET Nat
    PROVE  StrictOrder(I, {p \in I \X I : p[1] < p[2]})
<1>1. \A i \in I : i \in Int
  OBVIOUS
<1> QED
  BY <1>1 DEF StrictOrder

LEMMA MaxIs ==
    ASSUME NEW S \in SUBSET Int, NEW m \in S, \A x \in S : x <= m
    PROVE  Max(S) = m
<1>1. \A x \in S : (\A y \in S : x >= y) => x = m
  <2> SUFFICES ASSUME NEW x \in S, x >= m PROVE x = m
    OBVIOUS
  <2>1. x \in Int /\ m \in Int /\ x <= m
    OBVIOUS
  <2> QED
    BY <2>1
<1>2. \A y \in S : m >= y
  <2> SUFFICES ASSUME NEW y \in S PROVE m >= y
    OBVIOUS
  <2>1. y \in Int /\ m \in Int /\ y <= m
    OBVIOUS
  <2> QED
    BY <2>1
<1> QED
  BY <1>1, <1>2 DEF Max

LEMMA Least ==
    ASSUME NEW I \in SUBSET Nat, I # {}, IsFiniteSet(I)
    PROVE  \E i \in I : \A j \in I : i <= j
<1> DEFINE R == {p \in I \X I : p[1] < p[2]}
           at == InOrder(I, R)
<1>1. StrictOrder(I, R)
  BY NumbersAreOrdered
<1>2. Cardinality(I) \in Nat /\ Cardinality(I) # 0
  BY FS_CardinalityType, FS_EmptySet
<1>3. /\ at \in [1 .. Cardinality(I) -> I]
      /\ \A x \in I : \E k \in 1 .. Cardinality(I) : at[k] = x
      /\ \A i, j \in 1 .. Cardinality(I) : i < j <=> <<at[i], at[j]>> \in R
  BY <1>1, InOrderFacts
<1> HIDE DEF at
<1>4. 1 \in 1 .. Cardinality(I) /\ at[1] \in I
  BY <1>2, <1>3
<1>5. ASSUME NEW j \in I PROVE at[1] <= j
  <2>1. PICK k \in 1 .. Cardinality(I) : at[k] = j
    BY <1>3
  <2>2. CASE k = 1
    BY <1>4, <2>1, <2>2
  <2>3. CASE 1 < k
    <3>1. <<at[1], at[k]>> \in R
      BY <1>3, <1>4, <2>3
    <3>2. at[1] < at[k]
      BY <3>1
    <3>4. \A i \in I : i \in Int
      OBVIOUS
    <3>3. at[1] \in Int /\ at[k] \in Int
      BY <1>4, <2>1, <3>4
    <3> QED
      BY <2>1, <3>2, <3>3
  <2> QED
    BY <1>2, <2>2, <2>3
<1> QED
  BY <1>4, <1>5

LEMMA UpTo == ASSUME NEW k \in Nat PROVE IsFiniteSet(1 .. k) /\ Cardinality(1 .. k) = k
  BY FS_Interval

(* The image of a finite set is finite. *)
LEMMA FiniteImage ==
    ASSUME NEW S, IsFiniteSet(S), NEW f, DOMAIN f = S, f = [x \in S |-> f[x]]
    PROVE  IsFiniteSet({f[x] : x \in S})
<1>1. f \in Surjection(S, {f[x] : x \in S})
  BY DEF Surjection
<1> QED
  BY <1>1, FS_Surjection

--------------------------------------------------------------------------------
(* Vectors of names *)

(* unique() keeps every name, once. *)
LEMMA UniqueFacts ==
    ASSUME NEW T, NEW s \in Seq(T)
    PROVE  /\ Unique(s) \in Seq(T)
           /\ IsInjective(Unique(s))
           /\ ToSet(Unique(s)) = ToSet(s)
<1> DEFINE I == {i \in DOMAIN s : \A j \in 1 .. (i - 1) : s[j] # s[i]}
<1>1. DOMAIN s = 1 .. Len(s) /\ Len(s) \in Nat
  BY LenProperties
<1>2. \A i, j \in I : s[i] = s[j] => i = j
  <2> SUFFICES ASSUME NEW i \in I, NEW j \in I, s[i] = s[j], i < j PROVE FALSE
    BY <1>1
  <2>1. i \in 1 .. (j - 1)
    BY <1>1
  <2> QED
    BY <2>1
<1>3. ASSUME NEW i \in DOMAIN s PROVE \E j \in I : s[j] = s[i]
  <2> DEFINE J == {j \in DOMAIN s : s[j] = s[i]}
  <2>1. J \in SUBSET Nat /\ J # {} /\ IsFiniteSet(J)
    <3>1. IsFiniteSet(1 .. Len(s))
      BY <1>1, FS_Interval
    <3> QED
      BY <1>1, <3>1, FS_Subset
  <2>2. PICK j \in J : \A k \in J : j <= k
    BY <2>1, Least
  <2>3. \A k \in 1 .. (j - 1) : s[k] # s[j]
    BY <1>1, <2>2
  <2> QED
    BY <2>2, <2>3
<1>4. ToSet(s) = {s[i] : i \in I}
  BY <1>3 DEF ToSet
<1>5. I \in SUBSET DOMAIN s
  OBVIOUS
<1> HIDE DEF I
<1>6. Picked(s, I) \in Seq(T) /\ ToSet(Picked(s, I)) = {s[i] : i \in I} /\ IsInjective(Picked(s, I))
  BY <1>2, <1>5, PickedFacts
<1> QED
  BY <1>4, <1>6 DEF Unique, I

(* New names come after the old ones, which keep their places. *)
LEMMA UniqueExtends ==
    ASSUME NEW T, NEW s \in Seq(T), NEW t \in Seq(T), IsInjective(s)
    PROVE  /\ Len(s) <= Len(Unique(s \o t))
           /\ \A k \in 1 .. Len(s) : Unique(s \o t)[k] = s[k]
<1> DEFINE st == s \o t
           I == {i \in DOMAIN st : \A j \in 1 .. (i - 1) : st[j] # st[i]}
           R == {p \in I \X I : p[1] < p[2]}
<1>1. /\ Len(s) \in Nat /\ Len(t) \in Nat /\ DOMAIN s = 1 .. Len(s)
      /\ st \in Seq(T) /\ Len(st) = Len(s) + Len(t) /\ DOMAIN st = 1 .. (Len(s) + Len(t))
      /\ \A i \in 1 .. Len(s) : st[i] = s[i]
  <2>1. /\ Len(s) \in Nat /\ Len(t) \in Nat /\ DOMAIN s = 1 .. Len(s)
        /\ st \in Seq(T) /\ Len(st) = Len(s) + Len(t)
    BY LenProperties, ConcatProperties
  <2>2. \A i \in 1 .. Len(s) : st[i] = s[i]
    BY <2>1, ConcatProperties
  <2>3. DOMAIN st = 1 .. Len(st)
    BY <2>1, LenProperties
  <2> QED
    BY <2>1, <2>2, <2>3
<1> HIDE DEF st
<1>2. IsFiniteSet(I) /\ Cardinality(I) \in Nat
  <2>1. IsFiniteSet(1 .. (Len(s) + Len(t)))
    BY <1>1, FS_Interval
  <2> QED
    BY <1>1, <2>1, FS_Subset, FS_CardinalityType
<1>3. 1 .. Len(s) \in SUBSET I
  <2> SUFFICES ASSUME NEW i \in 1 .. Len(s) PROVE i \in I
    OBVIOUS
  <2>1. \A j \in 1 .. (i - 1) : st[j] # st[i]
    BY <1>1 DEF IsInjective
  <2> QED
    BY <1>1, <2>1
<1>4. StrictOrder(I, R)
  <2>1. 1 .. (Len(s) + Len(t)) \subseteq Nat
    OBVIOUS
  <2>2. I \in SUBSET Nat
    BY <1>1, <2>1
  <2> HIDE DEF I
  <2> QED
    BY <2>2, NumbersAreOrdered
<1>5. Len(s) <= Cardinality(I)
  <2>1. Cardinality(1 .. Len(s)) = Len(s)
    BY <1>1, UpTo
  <2> QED
    BY <1>2, <1>3, <2>1, FS_Subset
<1>6. ASSUME NEW k \in 1 .. Len(s) PROVE InOrder(I, R)[k] = k
  <2>1. {y \in I : <<y, k>> \in R} = 1 .. (k - 1)
    BY <1>1, <1>3
  <2>2. Cardinality(1 .. (k - 1)) = k - 1
    BY <1>1, FS_Interval
  <2>3. k \in I /\ k \in 1 .. Cardinality(I)
    BY <1>1, <1>2, <1>3, <1>5
  <2> HIDE DEF I, R
  <2> QED
    BY <1>2, <1>4, <2>1, <2>2, <2>3, InOrderByRank
<1>7. I \in SUBSET DOMAIN st
  OBVIOUS
<1>8. Unique(st) = Picked(st, I)
  BY DEF Unique
<1> HIDE DEF I
<1>9. DOMAIN InOrder(I, R) = 1 .. Cardinality(I)
  BY DEF InOrder
<1>10. \A k \in 1 .. Len(s) : Unique(st)[k] = s[k]
  BY <1>1, <1>2, <1>5, <1>6, <1>8, <1>9 DEF Picked
<1> QED
  BY <1>1, <1>5, <1>7, <1>8, <1>10, PickedFacts DEF st

LEMMA IdFacts ==
    ASSUME NEW T, NEW names \in Seq(T), IsInjective(names)
    PROVE  /\ \A x \in ToSet(names) : /\ IdOf(names, x) \in 0 .. (Len(names) - 1)
                                      /\ names[IdOf(names, x) + 1] = x
           /\ \A i \in 1 .. Len(names) : IdOf(names, names[i]) = i - 1
<1>1. DOMAIN names = 1 .. Len(names) /\ Len(names) \in Nat
  BY LenProperties
<1>2. ASSUME NEW x \in ToSet(names)
      PROVE  IdOf(names, x) \in 0 .. (Len(names) - 1) /\ names[IdOf(names, x) + 1] = x
  <2> DEFINE i == CHOOSE i \in DOMAIN names : names[i] = x
  <2>1. i \in DOMAIN names /\ names[i] = x
    BY DEF ToSet
  <2>2. IdOf(names, x) = i - 1
    BY DEF IdOf
  <2> QED
    BY <1>1, <2>1, <2>2
<1>3. ASSUME NEW i \in 1 .. Len(names) PROVE IdOf(names, names[i]) = i - 1
  <2>1. (CHOOSE j \in DOMAIN names : names[j] = names[i]) = i
    BY <1>1 DEF IsInjective
  <2> QED
    BY <2>1 DEF IdOf
<1> QED
  BY <1>2, <1>3

LEMMA ConcatSet ==
    ASSUME NEW T, NEW s \in Seq(T), NEW t \in Seq(T)
    PROVE  s \o t \in Seq(T) /\ ToSet(s \o t) = ToSet(s) \cup ToSet(t)
<1>1. /\ s \o t \in Seq(T) /\ Len(s \o t) = Len(s) + Len(t) /\ Len(s) \in Nat /\ Len(t) \in Nat
      /\ DOMAIN s = 1 .. Len(s) /\ DOMAIN t = 1 .. Len(t)
  BY ConcatProperties, LenProperties
<1>2. DOMAIN (s \o t) = 1 .. (Len(s) + Len(t))
  BY <1>1, LenProperties
<1>3. \A i \in 1 .. Len(s) + Len(t) : (s \o t)[i] = IF i <= Len(s) THEN s[i] ELSE t[i - Len(s)]
  BY ConcatProperties
<1>4. ASSUME NEW x \in ToSet(s \o t) PROVE x \in ToSet(s) \cup ToSet(t)
  <2>1. PICK i \in 1 .. (Len(s) + Len(t)) : x = (s \o t)[i]
    BY <1>2 DEF ToSet
  <2>2. CASE i <= Len(s)
    BY <1>1, <1>3, <2>1, <2>2 DEF ToSet
  <2>3. CASE ~ (i <= Len(s))
    <3>1. i - Len(s) \in 1 .. Len(t) /\ x = t[i - Len(s)]
      BY <1>1, <1>3, <2>1, <2>3
    <3> QED
      BY <1>1, <3>1 DEF ToSet
  <2> QED
    BY <2>2, <2>3
<1>5. ASSUME NEW x \in ToSet(s) PROVE x \in ToSet(s \o t)
  <2>1. PICK i \in 1 .. Len(s) : x = s[i]
    BY <1>1 DEF ToSet
  <2>2. i \in 1 .. (Len(s) + Len(t)) /\ (s \o t)[i] = x
    BY <1>1, <1>3, <2>1
  <2> QED
    BY <1>2, <2>2 DEF ToSet
<1>6. ASSUME NEW x \in ToSet(t) PROVE x \in ToSet(s \o t)
  <2>1. PICK i \in 1 .. Len(t) : x = t[i]
    BY <1>1 DEF ToSet
  <2>2. /\ Len(s) + i \in 1 .. (Len(s) + Len(t)) /\ ~ (Len(s) + i <= Len(s))
        /\ (Len(s) + i) - Len(s) = i
    BY <1>1
  <2>3. (s \o t)[Len(s) + i] = x
    BY <1>3, <2>1, <2>2
  <2> QED
    BY <1>2, <2>2, <2>3 DEF ToSet
<1> QED
  BY <1>1, <1>4, <1>5, <1>6

--------------------------------------------------------------------------------
(* Objects and rows over the names T and the glyphs G *)

EdgeBags == UNION {[D -> Nat] : D \in SUBSET Edge}

Snapshots == UNION {[0 .. (k - 1) -> EdgeSpec] : k \in Nat}

ObjectOver(T) ==
    [names : Seq(T), simple : BOOLEAN, class : GraphClass, snapshot : Snapshots,
     edges : EdgeBags]

RowOver(T, G) == T \X G \X T

LEMMA EndsFacts ==
    ASSUME NEW T, NEW G, NEW table \in Seq(RowOver(T, G))
    PROVE  /\ EndsOf(table) \in Seq(T)
           /\ ToSet(EndsOf(table)) = {r[1] : r \in ToSet(table)} \cup {r[3] : r \in ToSet(table)}
<1> DEFINE from == [i \in DOMAIN table |-> table[i][1]]
           to == [i \in DOMAIN table |-> table[i][3]]
<1>1. DOMAIN table = 1 .. Len(table) /\ Len(table) \in Nat
  BY LenProperties
<1>2. \A i \in 1 .. Len(table) : table[i][1] \in T /\ table[i][3] \in T
  <2> SUFFICES ASSUME NEW i \in 1 .. Len(table)
               PROVE  table[i][1] \in T /\ table[i][3] \in T
    OBVIOUS
  <2>1. table[i] \in RowOver(T, G)
    BY ElementOfSeq
  <2> QED
    BY <2>1 DEF RowOver
<1>3. from \in [1 .. Len(table) -> T] /\ to \in [1 .. Len(table) -> T]
  BY <1>1, <1>2
<1>4. from \in Seq(T) /\ to \in Seq(T)
  BY <1>1, <1>3
<1>5. ToSet(from) = {r[1] : r \in ToSet(table)} /\ ToSet(to) = {r[3] : r \in ToSet(table)}
  BY DEF ToSet
<1>6. EndsOf(table) = from \o to
  BY DEF EndsOf
<1> HIDE DEF from, to
<1> QED
  BY <1>4, <1>5, <1>6, ConcatSet

(* What R passes down for rows over its names. *)
LEMMA BufferIsTyped ==
    ASSUME NEW T, NEW names \in Seq(T), IsInjective(names),
           NEW codes, \A g \in DOMAIN codes : codes[g] \in Nat,
           NEW R, NEW table \in Seq(R), Known(codes, ToSet(table)),
           \A r \in ToSet(table) : r[1] \in ToSet(names) /\ r[3] \in ToSet(names)
    PROVE  /\ BufferOf(names, codes, table) \in EdgeBags
           /\ IsFiniteSet(DOMAIN BufferOf(names, codes, table))
           /\ DOMAIN BufferOf(names, codes, table) = {Coded(names, codes, r) : r \in ToSet(table)}
<1> DEFINE coded == [i \in DOMAIN table |-> Coded(names, codes, table[i])]
           D == {coded[i] : i \in DOMAIN table}
           buffer == BufferOf(names, codes, table)
<1>1. DOMAIN table = 1 .. Len(table) /\ Len(table) \in Nat /\ Len(names) \in Nat
  BY LenProperties
<1>2. IsFiniteSet(DOMAIN table)
  BY <1>1, UpTo
<1>3. D = {Coded(names, codes, r) : r \in ToSet(table)}
  BY DEF ToSet
<1>4. D = {Coded(names, codes, table[i]) : i \in DOMAIN table}
  OBVIOUS
<1>5. IsFiniteSet(D)
  BY <1>2, FiniteImage
<1>6. D \in SUBSET Edge
  <2> SUFFICES ASSUME NEW r \in ToSet(table) PROVE Coded(names, codes, r) \in Edge
    BY <1>3
  <2>1. IdOf(names, r[1]) \in Nat /\ IdOf(names, r[3]) \in Nat
    BY <1>1, IdFacts
  <2>2. codes[r[2]] \in Nat
    BY DEF Known
  <2> QED
    BY <2>1, <2>2 DEF Coded, Edge
<1> HIDE DEF D
<1>7. buffer = [e \in D |-> Cardinality({i \in DOMAIN table : Coded(names, codes, table[i]) = e})]
  BY <1>4 DEF BufferOf
<1> HIDE DEF buffer
<1>8. \A e : Cardinality({i \in DOMAIN table : Coded(names, codes, table[i]) = e}) \in Nat
  BY <1>2, FS_Subset, FS_CardinalityType
<1>9. buffer \in [D -> Nat] /\ DOMAIN buffer = D
  BY <1>7, <1>8
<1> QED
  BY <1>3, <1>5, <1>6, <1>9 DEF EdgeBags, buffer

--------------------------------------------------------------------------------
(* The object a call returns *)

LEMMA NoArcs == ASSUME NEW g, EdgeSet(g) = {} PROVE Arcs(g) = {} /\ Lines(g) = {} /\ Spouses(g) = {}
  BY DEF Arcs, Lines, Spouses, Pairs

LEMMA EmptyIsAcyclic == ASSUME NEW V PROVE Acyclic(V, {})
  BY DEF Acyclic

(* Nothing is reached along no edge. *)
LEMMA EmptyReaches == ASSUME NEW V, NEW u \in V, NEW v \in V, Reaches(V, {}, u, v) PROVE u = v
<1>1. {u} \in SUBSET V
  OBVIOUS
<1> QED
  BY <1>1 DEF Reaches

LEMMA EmptyIsChordal == ASSUME NEW V PROVE ComponentsAreChordal(V, {})
<1> SUFFICES ASSUME NEW C \in ChainComponents(V, {}) PROVE Cardinality(C) <= 2
  BY DEF ComponentsAreChordal
<1>1. PICK v \in V : C = ComponentOf(V, {}, v)
  BY DEF ChainComponents
<1>2. C = {v}
  <2>1. v \in C
    BY <1>1 DEF ComponentOf, Reaches
  <2>2. \A w \in C : w \in V /\ w = v
    BY <1>1, EmptyReaches DEF ComponentOf
  <2> QED
    BY <2>1, <2>2
<1> QED
  BY <1>2, FS_Singleton

(* A class is as good as any other for a graph without an edge. *)
LEMMA EmptyInClass == ASSUME NEW g, EdgeSet(g) = {}, NEW class PROVE InClass(g, class)
<1> DEFINE V == Nodes(g)
<1>1. Arcs(g) = {} /\ Lines(g) = {} /\ Spouses(g) = {}
  BY NoArcs
<1>2. \A classes : OnlyClasses(g, classes)
  BY DEF OnlyClasses
<1>3. IsDag(g) /\ IsUg(g) /\ IsPdag(g) /\ IsAdmg(g)
  BY <1>1, <1>2, EmptyIsAcyclic DEF IsDag, IsUg, IsPdag, IsAdmg
<1>4. MeekClosed(V, {}, {})
  BY DEF MeekClosed, R1Blocked, R2Blocked, R3Blocked, R4Blocked, Parents
<1>5. CpdagRules(V, {}, {})
  <2>1. ~ HasIntraComponentArrows(V, {}, {})
    BY DEF HasIntraComponentArrows
  <2>2. ComponentDagIsAcyclic(V, {}, {})
    <3>1. {p \in ChainComponents(V, {}) \X ChainComponents(V, {}) :
              p[1] # p[2] /\ \E a \in {} : a[1] \in p[1] /\ a[2] \in p[2]} = {}
      OBVIOUS
    <3> QED
      BY <3>1, EmptyIsAcyclic DEF ComponentDagIsAcyclic
  <2> QED
    BY <1>4, <2>1, <2>2, EmptyIsChordal DEF CpdagRules
<1>6. Ancestral(V, {}, {}, {})
  BY EmptyIsAcyclic DEF Ancestral, Children
<1> QED
  BY <1>1, <1>2, <1>3, <1>4, <1>5, <1>6 DEF InClass, IsMpdag, IsCpdag, IsAg

LEMMA ResolvedInClass ==
    ASSUME NEW class \in GraphClass, NEW g, NEW c \in ResolveClass(class, g)
    PROVE  c \in GraphClass /\ c # "AUTO" /\ InClass(g, c)
<1>1. CASE class # "AUTO"
  BY <1>1 DEF ResolveClass
<1>2. CASE class = "AUTO"
  <2> DEFINE fits == {i \in 1 .. 7 : InClass(g, AutoOrder[i])}
  <2>1. DOMAIN AutoOrder = 1 .. 7
    BY DEF AutoOrder
  <2>2. \A i \in 1 .. 7 : i = 1 \/ i = 2 \/ i = 3 \/ i = 4 \/ i = 5 \/ i = 6 \/ i = 7
    OBVIOUS
  <2>3. \A i \in 1 .. 7 : AutoOrder[i] \in GraphClass /\ AutoOrder[i] # "AUTO"
    BY <2>2 DEF AutoOrder, GraphClass
  <2>4. 7 \in fits
    BY DEF AutoOrder, InClass
  <2>5. PICK i \in fits : \A j \in fits : i <= j
    <3>1. fits \in SUBSET Nat /\ fits # {}
      BY <2>4
    <3>2. IsFiniteSet(fits)
      BY UpTo, FS_Subset
    <3> QED
      BY <3>1, <3>2, Least
  <2> DEFINE i0 == CHOOSE k \in fits : \A j \in fits : k <= j
  <2>6. i0 \in fits
    BY <2>5
  <2>7. c = AutoOrder[i0]
    BY <1>2, <2>1 DEF ResolveClass, AutoClass
  <2> QED
    BY <2>3, <2>6, <2>7
<1> QED
  BY <1>1, <1>2

(* What a call returns has passed the build and the class it carries.      *)
LEMMA ReturnedFacts ==
    ASSUME NEW T, NEW o \in ObjectOver(T), NEW r \in Returned(o)
    PROVE  /\ r \in ObjectOver(T)
           /\ r.names = o.names /\ r.simple = o.simple
           /\ r.snapshot = o.snapshot /\ r.edges = o.edges
           /\ ValidEdges(Len(r.names), r.simple, r.snapshot, r.edges)
           /\ r.class # "AUTO" /\ SimpleFitsClass(r)
           /\ \A g \in CoreOf(r) : InClass(g, r.class)
<1> DEFINE classes == IF o.edges # NoEdges THEN Resolved(o)
                      ELSE {IF o.class = "AUTO" THEN "UNKNOWN" ELSE o.class}
<1>1. PICK c \in classes : r = [o EXCEPT !.class = c] /\ SimpleFitsClass(r)
  BY DEF Returned
<1>2. CASE o.edges = NoEdges
  <2>1. c \in GraphClass /\ c # "AUTO"
    BY <1>1, <1>2 DEF ObjectOver, GraphClass
  <2>2. /\ r \in ObjectOver(T) /\ r.names = o.names /\ r.simple = o.simple
        /\ r.snapshot = o.snapshot /\ r.edges = o.edges /\ r.class = c
    BY <1>1, <2>1 DEF ObjectOver
  <2>3. DOMAIN r.edges = {}
    BY <1>2, <2>2 DEF NoEdges
  <2>4. \A g \in CoreOf(r) : EdgeSet(g) = {}
    BY <2>3 DEF CoreOf, CheckedCore, Compile, EdgeSet
  <2> QED
    BY <1>1, <2>1, <2>2, <2>3, <2>4, EmptyInClass DEF ValidEdges
<1>3. CASE o.edges # NoEdges
  <2>1. PICK g \in CoreOf(o) : c \in ResolveClass(o.class, g)
    BY <1>1, <1>3 DEF Resolved
  <2>2. c \in GraphClass /\ c # "AUTO" /\ InClass(g, c)
    BY <2>1, ResolvedInClass DEF ObjectOver
  <2>3. /\ r \in ObjectOver(T) /\ r.names = o.names /\ r.simple = o.simple
        /\ r.snapshot = o.snapshot /\ r.edges = o.edges /\ r.class = c
    BY <1>1, <2>2 DEF ObjectOver
  <2>4. /\ ValidEdges(Len(o.names), o.simple, o.snapshot, o.edges)
        /\ g = Compile(Len(o.names), o.simple, o.snapshot, o.edges)
    BY <2>1 DEF CoreOf, CheckedCore
  <2>5. CoreOf(r) = {g}
    BY <2>3, <2>4 DEF CoreOf, CheckedCore
  <2> QED
    BY <1>1, <2>2, <2>3, <2>4, <2>5
<1> QED
  BY <1>2, <1>3

--------------------------------------------------------------------------------
(* The order of rows *)

(* What a core means does not depend on the order of its rows.             *)
LEMMA SameButForRows ==
    ASSUME NEW g, NEW h, h.n = g.n, h.registry = g.registry, h.links = g.links
    PROVE  /\ Nodes(h) = Nodes(g) /\ EdgeSet(h) = EdgeSet(g) /\ Arcs(h) = Arcs(g)
           /\ \A class : Pairs(h, class) = Pairs(g, class)
           /\ \A classes : OnlyClasses(h, classes) <=> OnlyClasses(g, classes)
           /\ \A class : InClass(h, class) <=> InClass(g, class)
           /\ \A class : ResolveClass(class, h) = ResolveClass(class, g)
<1>1. Nodes(h) = Nodes(g) /\ EdgeSet(h) = EdgeSet(g) /\ \A e : SpecOf(h, e) = SpecOf(g, e)
  BY DEF Nodes, EdgeSet, SpecOf
<1>2. Arcs(h) = Arcs(g)
  BY <1>1 DEF Arcs
<1>3. ASSUME NEW class PROVE Pairs(h, class) = Pairs(g, class)
  BY <1>1 DEF Pairs
<1>4. ASSUME NEW classes PROVE OnlyClasses(h, classes) <=> OnlyClasses(g, classes)
  BY <1>1 DEF OnlyClasses
<1>5. Lines(h) = Lines(g) /\ Spouses(h) = Spouses(g)
  BY <1>3 DEF Lines, Spouses
<1>6. /\ IsDag(h) <=> IsDag(g)
      /\ IsUg(h) <=> IsUg(g)
      /\ IsPdag(h) <=> IsPdag(g)
      /\ IsAdmg(h) <=> IsAdmg(g)
  BY <1>1, <1>2, <1>4 DEF IsDag, IsUg, IsPdag, IsAdmg
<1>7. /\ IsMpdag(h) <=> IsMpdag(g)
      /\ IsCpdag(h) <=> IsCpdag(g)
      /\ IsAg(h) <=> IsAg(g)
  BY <1>1, <1>2, <1>4, <1>5, <1>6 DEF IsMpdag, IsCpdag, IsAg
<1>8. ASSUME NEW class PROVE InClass(h, class) <=> InClass(g, class)
  BY <1>6, <1>7 DEF InClass
<1>9. AutoClass(h) = AutoClass(g)
  <2>1. {i \in DOMAIN AutoOrder : InClass(h, AutoOrder[i])}
        = {i \in DOMAIN AutoOrder : InClass(g, AutoOrder[i])}
    BY <1>8
  <2> QED
    BY <2>1 DEF AutoClass
<1>10. ASSUME NEW class PROVE ResolveClass(class, h) = ResolveClass(class, g)
  BY <1>8, <1>9 DEF ResolveClass
<1> QED
  BY <1>1, <1>2, <1>3, <1>4, <1>8, <1>10

(* A compiled core has its rows in an order, and so has a subgraph of it.  *)
LEMMA SortedIsOrder == ASSUME NEW m \in Nat PROVE [v \in 0 .. (m - 1) |-> v] \in RowOrders(m)
  BY DEF RowOrders, IsInjective

LEMMA KeptPlacesIsOrder ==
    ASSUME NEW m \in Nat, NEW keep \in Seq(Nat), KeepIsOk(keep, m), NEW place \in RowOrders(m)
    PROVE  KeptPlaces(keep, place) \in RowOrders(Len(keep))
<1> DEFINE K == Kept(keep)
           size == Len(keep)
           at == [i \in K |-> place[keep[i + 1]]]
           R == {p \in K \X K : at[p[1]] < at[p[2]]}
           below(i) == {j \in K : <<j, i>> \in R}
           list == InOrder(K, R)
<1>1. DOMAIN keep = 1 .. size /\ size \in Nat
  BY LenProperties
<1>2. K = 0 .. (size - 1)
  BY DEF Kept
<1>3. IsFiniteSet(K) /\ Cardinality(K) = size
  <2>1. size \in Nat
    BY <1>1
  <2> HIDE DEF size, K
  <2>2. IsFiniteSet(0 .. (size - 1)) /\ Cardinality(0 .. (size - 1)) = size
    BY <2>1, FS_Interval
  <2> QED
    BY <1>2, <2>2
<1>4. ASSUME NEW i \in K PROVE i \in Int /\ i + 1 \in DOMAIN keep /\ keep[i + 1] \in 0 .. (m - 1)
  <2>1. i \in Int /\ i + 1 \in DOMAIN keep
    BY <1>1, <1>2
  <2>2. keep[i + 1] \in Nat
    BY <1>1, <2>1, ElementOfSeq
  <2>3. keep[i + 1] < m
    BY <2>1 DEF KeepIsOk
  <2> QED
    BY <2>1, <2>2, <2>3
<1>5. at \in [K -> Nat]
  BY <1>4 DEF RowOrders
<1>6. ASSUME NEW i \in K, NEW j \in K, at[i] = at[j] PROVE i = j
  <2>1. keep[i + 1] = keep[j + 1]
    BY <1>4, <1>6 DEF RowOrders, IsInjective
  <2>2. i + 1 = j + 1
    BY <1>4, <2>1 DEF KeepIsOk
  <2> QED
    BY <1>4, <2>2
<1>7. KeptPlaces(keep, place) = [i \in K |-> Cardinality(below(i))]
  <2>1. \A i \in K : below(i) = {j \in K : place[keep[j + 1]] < place[keep[i + 1]]}
    OBVIOUS
  <2> HIDE DEF below
  <2> QED
    BY <2>1 DEF KeptPlaces
<1> HIDE DEF at
<1>8. StrictOrder(K, R)
  <2>1. \A i, j \in K : <<i, j>> \in R <=> at[i] < at[j]
    OBVIOUS
  <2>2. \A i \in K : at[i] \in Int
    BY <1>5
  <2> HIDE DEF R
  <2>3. \A i, j \in K : i # j => at[i] < at[j] \/ at[j] < at[i]
    BY <1>6, <2>2
  <2>4. \A i, j, k \in K : at[i] < at[j] /\ at[j] < at[k] => at[i] < at[k]
    BY <2>2
  <2>5. \A i \in K : ~ (at[i] < at[i])
    BY <2>2
  <2> QED
    BY <2>1, <2>3, <2>4, <2>5 DEF StrictOrder
<1> HIDE DEF R, K
<1>9. /\ \A i \in K : \E k \in 1 .. size : list[k] = i
      /\ \A k \in 1 .. size : Cardinality(below(list[k])) = k - 1
  BY <1>3, <1>8, InOrderFacts
<1> HIDE DEF list, below
<1>10. ASSUME NEW i \in K PROVE Cardinality(below(i)) \in 0 .. (size - 1)
  <2>1. PICK k \in 1 .. size : list[k] = i
    BY <1>9
  <2>2. Cardinality(below(i)) = k - 1
    BY <1>9, <2>1
  <2> QED
    BY <1>1, <2>2
<1>11. ASSUME NEW i \in K, NEW j \in K, Cardinality(below(i)) = Cardinality(below(j)) PROVE i = j
  <2>1. PICK k \in 1 .. size, l \in 1 .. size : list[k] = i /\ list[l] = j
    BY <1>9
  <2>2. k - 1 = l - 1
    BY <1>9, <1>11, <2>1
  <2>3. k = l
    BY <1>1, <2>2
  <2> QED
    BY <2>1, <2>3
<1>12. KeptPlaces(keep, place) \in [0 .. (size - 1) -> 0 .. (size - 1)]
  BY <1>2, <1>7, <1>10
<1>13. IsInjective(KeptPlaces(keep, place))
  BY <1>7, <1>11 DEF IsInjective
<1> QED
  BY <1>12, <1>13 DEF RowOrders

--------------------------------------------------------------------------------
(* Reachability and acyclicity of finite relations. *)

LEMMA ReachesItself == ASSUME NEW N, NEW A, NEW u PROVE Reaches(N, A, u, u)
  BY DEF Reaches

LEMMA ReachesOneStep ==
    ASSUME NEW N, NEW A, NEW u, NEW v, NEW w \in N, Reaches(N, A, u, v), <<v, w>> \in A
    PROVE  Reaches(N, A, u, w)
  BY DEF Reaches

LEMMA ReachesTransitive ==
    ASSUME NEW N, NEW A, NEW u, NEW v, NEW w, Reaches(N, A, u, v), Reaches(N, A, v, w)
    PROVE  Reaches(N, A, u, w)
  BY DEF Reaches

LEMMA LastStep ==
    ASSUME NEW N, NEW A, NEW u \in N, NEW v \in N, u # v, Reaches(N, A, u, v)
    PROVE  \E p \in N : Reaches(N, A, u, p) /\ <<p, v>> \in A
<1> DEFINE T == {x \in N : Reaches(N, A, u, x)} \ {v}
<1>1. T \in SUBSET N /\ u \in T /\ v \notin T
  BY ReachesItself
<1>2. PICK x \in T, y \in N : <<x, y>> \in A /\ y \notin T
  BY <1>1 DEF Reaches
<1>3. Reaches(N, A, u, y)
  BY <1>2, ReachesOneStep
<1>4. y = v
  BY <1>2, <1>3
<1> QED
  BY <1>2, <1>4

LEMMA NoWayBack ==
    ASSUME NEW N, NEW A, Acyclic(N, A), NEW u \in N, NEW v \in N,
           Reaches(N, A, u, v), Reaches(N, A, v, u)
    PROVE  u = v
<1> SUFFICES ASSUME u # v PROVE FALSE
  OBVIOUS
<1> DEFINE S == {x \in N : Reaches(N, A, u, x) /\ Reaches(N, A, x, u)}
<1>1. S \in (SUBSET N) \ {{}}
  BY ReachesItself
<1>2. PICK x \in S : \A y \in S : <<y, x>> \notin A
  BY <1>1 DEF Acyclic
<1>3. \E z \in N : z # x /\ Reaches(N, A, z, x) /\ Reaches(N, A, u, z)
  <2>1. CASE x = u
    BY <2>1
  <2>2. CASE x # u
    BY <2>2, ReachesItself
  <2> QED
    BY <2>1, <2>2
<1>4. PICK z \in N : z # x /\ Reaches(N, A, z, x) /\ Reaches(N, A, u, z)
  BY <1>3
<1>5. PICK p \in N : Reaches(N, A, z, p) /\ <<p, x>> \in A
  BY <1>4, LastStep
<1>6. Reaches(N, A, u, p)
  BY <1>4, <1>5, ReachesTransitive
<1>7. Reaches(N, A, p, u)
  <2>1. Reaches(N, A, p, x)
    BY <1>5, ReachesItself, ReachesOneStep
  <2> QED
    BY <2>1, ReachesTransitive
<1> QED
  BY <1>2, <1>5, <1>6, <1>7

(* try_orient() asks the right question: an arc a -> b closes no cycle     *)
(* unless a directed path leads from b to a.                               *)
LEMMA OrientingKeepsAcyclic ==
    ASSUME NEW N, NEW A, Acyclic(N, A), NEW a \in N, NEW b \in N, ~ Reaches(N, A, b, a)
    PROVE  Acyclic(N, A \cup {<<a, b>>})
<1>1. PICK T \in SUBSET N : /\ b \in T /\ a \notin T
                            /\ \A x \in T, y \in N : <<x, y>> \in A => y \in T
  BY DEF Reaches
<1> SUFFICES ASSUME NEW S \in (SUBSET N) \ {{}}
             PROVE  \E x \in S : \A y \in S : <<y, x>> \notin A \cup {<<a, b>>}
  BY DEF Acyclic
<1>2. CASE S \ T = {}
  <2>1. PICK x \in S : \A y \in S : <<y, x>> \notin A
    BY DEF Acyclic
  <2>2. a \notin S
    BY <1>1, <1>2
  <2> QED
    BY <2>1, <2>2
<1>3. CASE S \ T # {}
  <2>1. S \ T \in (SUBSET N) \ {{}}
    BY <1>3
  <2>2. PICK x \in S \ T : \A y \in S \ T : <<y, x>> \notin A
    BY <2>1 DEF Acyclic
  <2>3. \A y \in S \cap T : <<y, x>> \notin A
    BY <1>1, <2>2
  <2>4. x # b
    BY <1>1, <2>2
  <2> QED
    BY <2>2, <2>3, <2>4
<1> QED
  BY <1>2, <1>3

LEMMA SmallerIsAcyclic ==
    ASSUME NEW N, NEW A, NEW B, Acyclic(N, A), B \subseteq A
    PROVE  Acyclic(N, B)
  BY DEF Acyclic

LEMMA NoSelfArcs ==
    ASSUME NEW N, NEW A, Acyclic(N, A), NEW v \in N
    PROVE  <<v, v>> \notin A
<1>1. {v} \in (SUBSET N) \ {{}}
  OBVIOUS
<1> QED
  BY <1>1 DEF Acyclic

LEMMA NoTwoWays ==
    ASSUME NEW N, NEW A, Acyclic(N, A), NEW u \in N, NEW v \in N, <<u, v>> \in A
    PROVE  <<v, u>> \notin A
<1>1. {u, v} \in (SUBSET N) \ {{}}
  OBVIOUS
<1>2. PICK x \in {u, v} : \A y \in {u, v} : <<y, x>> \notin A
  BY <1>1 DEF Acyclic
<1> QED
  BY <1>2

LEMMA ReachesInLarger ==
    ASSUME NEW N, NEW A, NEW B, A \subseteq B, NEW u, NEW v, Reaches(N, A, u, v)
    PROVE  Reaches(N, B, u, v)
  BY DEF Reaches

LEMMA ArcReaches ==
    ASSUME NEW N, NEW A, NEW u, NEW v \in N, <<u, v>> \in A
    PROVE  Reaches(N, A, u, v)
  BY DEF Reaches

--------------------------------------------------------------------------------
(* Skeletons, and the DAGs over one. *)

LEMMA SameSkeleton ==
    ASSUME NEW A, NEW B,
           \A e \in A : \E f \in B : {e[1], e[2]} = {f[1], f[2]},
           \A f \in B : \E e \in A : {f[1], f[2]} = {e[1], e[2]}
    PROVE  Skeleton(A) = Skeleton(B)
<1>1. ASSUME NEW x \in Skeleton(A) PROVE x \in Skeleton(B)
  <2>1. PICK e \in A : x = {e[1], e[2]}
    BY DEF Skeleton
  <2> QED
    BY <2>1 DEF Skeleton
<1>2. ASSUME NEW x \in Skeleton(B) PROVE x \in Skeleton(A)
  <2>1. PICK f \in B : x = {f[1], f[2]}
    BY DEF Skeleton
  <2> QED
    BY <2>1 DEF Skeleton
<1> QED
  BY <1>1, <1>2

LEMMA SymmetricSkeleton ==
    ASSUME NEW N, NEW A \in SUBSET (N \X N)
    PROVE  /\ Symmetric(N, Skeleton(A)) \in SUBSET (N \X N)
           /\ \A l \in Symmetric(N, Skeleton(A)) : <<l[2], l[1]>> \in Symmetric(N, Skeleton(A))
           /\ Skeleton(Symmetric(N, Skeleton(A))) = Skeleton(A)
<1> DEFINE U == Symmetric(N, Skeleton(A))
<1>1. U \in SUBSET (N \X N)
  BY DEF Symmetric
<1>2. ASSUME NEW l \in U PROVE <<l[2], l[1]>> \in U /\ {l[1], l[2]} \in Skeleton(A)
  <2>1. {l[1], l[2]} \in Skeleton(A) /\ <<l[2], l[1]>> \in N \X N
    BY DEF Symmetric
  <2>2. {<<l[2], l[1]>>[1], <<l[2], l[1]>>[2]} = {l[1], l[2]}
    OBVIOUS
  <2> QED
    BY <2>1, <2>2 DEF Symmetric
<1>3. ASSUME NEW a \in A PROVE a \in U
  <2>1. {a[1], a[2]} \in Skeleton(A) /\ a \in N \X N
    BY DEF Skeleton
  <2> QED
    BY <2>1 DEF Symmetric
<1>4. Skeleton(U) \subseteq Skeleton(A)
  BY <1>2 DEF Skeleton
<1>5. Skeleton(A) \subseteq Skeleton(U)
  BY <1>3 DEF Skeleton
<1> QED
  BY <1>1, <1>2, <1>4, <1>5

LEMMA NoSelfInSkeleton ==
    ASSUME NEW N, NEW A \in SUBSET (N \X N), Acyclic(N, A), NEW l \in Symmetric(N, Skeleton(A))
    PROVE  l[1] # l[2]
<1>1. PICK a \in A : {l[1], l[2]} = {a[1], a[2]}
  BY DEF Symmetric, Skeleton
<1>2. a[1] # a[2]
  BY NoSelfArcs
<1> QED
  BY <1>1, <1>2

LEMMA DagFacts ==
    ASSUME NEW N, NEW A \in Dags(N)
    PROVE  A \in SUBSET (N \X N) /\ Acyclic(N, A)
  BY DEF Dags, Orientations, Symmetric

LEMMA AdjacentInSkeleton ==
    ASSUME NEW N, NEW A \in SUBSET (N \X N), NEW U \in SUBSET (N \X N),
           \A l \in U : <<l[2], l[1]>> \in U, NEW u, NEW v
    PROVE  Adjacent(A, U, u, v) <=> {u, v} \in Skeleton(A \cup U)
<1>1. ASSUME Adjacent(A, U, u, v) PROVE {u, v} \in Skeleton(A \cup U)
  <2>1. PICK a \in A \cup U : a = <<u, v>> \/ a = <<v, u>>
    BY <1>1 DEF Adjacent
  <2>2. {u, v} = {a[1], a[2]}
    BY <2>1
  <2> QED
    BY <2>2 DEF Skeleton
<1>2. ASSUME {u, v} \in Skeleton(A \cup U) PROVE Adjacent(A, U, u, v)
  <2>1. PICK a \in A \cup U : {u, v} = {a[1], a[2]}
    BY <1>2 DEF Skeleton
  <2>2. a = <<a[1], a[2]>> /\ (a \in U => <<a[2], a[1]>> \in U)
    OBVIOUS
  <2>3. (u = a[1] /\ v = a[2]) \/ (u = a[2] /\ v = a[1])
    BY <2>1
  <2> QED
    BY <2>2, <2>3 DEF Adjacent
<1> QED
  BY <1>1, <1>2

(* Graphs with one skeleton have the same adjacencies. *)
LEMMA SameAdjacent ==
    ASSUME NEW N, NEW A \in SUBSET (N \X N), NEW U \in SUBSET (N \X N),
           \A l \in U : <<l[2], l[1]>> \in U,
           NEW B \in SUBSET (N \X N), NEW W \in SUBSET (N \X N),
           \A l \in W : <<l[2], l[1]>> \in W,
           Skeleton(A \cup U) = Skeleton(B \cup W), NEW u, NEW v
    PROVE  Adjacent(A, U, u, v) <=> Adjacent(B, W, u, v)
  BY AdjacentInSkeleton

LEMMA OrientationFacts ==
    ASSUME NEW N, NEW A \in SUBSET (N \X N), NEW B \in Orientations(N, Skeleton(A))
    PROVE  B \in SUBSET (N \X N) /\ Acyclic(N, B) /\ Skeleton(B) = Skeleton(A)
<1>1. B \in SUBSET (N \X N) /\ Acyclic(N, B) /\ Skeleton(B) \subseteq Skeleton(A)
  BY DEF Orientations, Symmetric, Skeleton
<1>2. ASSUME NEW e \in Skeleton(A) PROVE e \in Skeleton(B)
  <2>1. Cardinality({a \in B : {a[1], a[2]} = e}) = 1
    BY DEF Orientations
  <2>2. {a \in B : {a[1], a[2]} = e} # {}
    BY <2>1, FS_EmptySet
  <2> QED
    BY <2>2 DEF Skeleton
<1> QED
  BY <1>1, <1>2

LEMMA DagOrientsItsSkeleton ==
    ASSUME NEW N, NEW A \in SUBSET (N \X N), Acyclic(N, A)
    PROVE  A \in Orientations(N, Skeleton(A))
<1>1. A \in SUBSET Symmetric(N, Skeleton(A))
  BY DEF Symmetric, Skeleton
<1>2. ASSUME NEW e \in Skeleton(A) PROVE Cardinality({a \in A : {a[1], a[2]} = e}) = 1
  <2>1. PICK a \in A : e = {a[1], a[2]}
    BY DEF Skeleton
  <2>2. <<a[2], a[1]>> \notin A
    BY NoTwoWays
  <2>3. ASSUME NEW b \in A, {b[1], b[2]} = e PROVE b = a
    <3>1. b = <<b[1], b[2]>> /\ a = <<a[1], a[2]>>
      OBVIOUS
    <3>2. b = a \/ b = <<a[2], a[1]>>
      BY <2>1, <2>3, <3>1
    <3> QED
      BY <2>2, <3>2
  <2>4. {b \in A : {b[1], b[2]} = e} = {a}
    BY <2>1, <2>3
  <2> QED
    BY <2>4, FS_Singleton
<1> QED
  BY <1>1, <1>2 DEF Orientations

--------------------------------------------------------------------------------
(* Closed patterns: what the essential graph of a DAG must be. *)

Lined(N, U) == U \in SUBSET (N \X N) /\ \A u, v \in N : <<u, v>> \in U => <<v, u>> \in U /\ u # v

(* Why the arc a -> b must be in every DAG equivalent to D. *)
Forced(N, D, A, U, a, b) ==
    \/ \E c \in N : c # a /\ <<c, b>> \in A /\ ~ Adjacent(A, U, c, a)
    \/ \E c \in N : <<c, a>> \in A /\ ~ Adjacent(A, U, c, b)
    \/ \E c \in N : c # a /\ Reaches(N, A, a, c) /\ <<c, b>> \in A
    \/ \E c, d \in N :
        /\ c # d /\ <<c, b>> \in A /\ <<d, b>> \in A /\ ~ Adjacent(A, U, c, d)
        /\ Adjacent(A, U, a, c) /\ Adjacent(A, U, a, d)
        /\ ~ (<<c, a>> \in D /\ <<d, a>> \in D)

(* What Meek's rules ask of a line a -- b before they make it a -> b.       *)
RuleAsks(N, A, U, a, b) ==
    \/ \E p \in N : <<p, a>> \in A /\ ~ Adjacent(A, U, p, b)
    \/ Reaches(N, A, a, b)
    \/ \E c, d \in N :
        /\ c # d /\ <<c, b>> \in A /\ <<d, b>> \in A /\ ~ Adjacent(A, U, c, d)
        /\ <<a, c>> \in U /\ <<a, d>> \in U

(* Arcs A of the DAG D, all its colliders among them, and lines U for the  *)
(* others.                                                                  *)
Pattern(N, D, A, U) ==
    /\ IsFiniteSet(N)
    /\ D \in SUBSET (N \X N) /\ Acyclic(N, D)
    /\ A \subseteq D
    /\ Lined(N, U) /\ A \cap U = {}
    /\ \A u, v \in N : Adjacent(A, U, u, v) <=> Adjacent(D, {}, u, v)
    /\ \A u, v, w \in N :
        u # w /\ <<u, v>> \in D /\ <<w, v>> \in D /\ ~ Adjacent(D, {}, u, w) => <<u, v>> \in A

(* Each arc has a reason, and no rule asks for another. *)
ClosedPattern(N, D, A, U) ==
    /\ Pattern(N, D, A, U)
    /\ \A a, b \in N : <<a, b>> \in A => Forced(N, D, A, U, a, b)
    /\ \A a, b \in N : <<a, b>> \in U => ~ RuleAsks(N, A, U, a, b)

LEMMA AdjacentFacts ==
    ASSUME NEW N, NEW A, NEW U, Lined(N, U), NEW u \in N, NEW v \in N
    PROVE  /\ Adjacent(A, U, u, v) <=> (<<u, v>> \in A \/ <<v, u>> \in A \/ <<u, v>> \in U)
           /\ Adjacent(A, U, u, v) <=> Adjacent(A, U, v, u)
  BY DEF Adjacent, Lined

LEMMA ParentsAre ==
    ASSUME NEW N, NEW A \in SUBSET (N \X N), NEW u, NEW v
    PROVE  /\ u \in Parents(A, v) <=> <<u, v>> \in A
           /\ u \in Children(A, v) <=> <<v, u>> \in A
  BY DEF Parents, Children

(* A pattern that passes the tests of is_meek_closed() is left alone by all *)
(* the rules: the safeguards of R1 never apply, for a path back would close *)
(* a cycle in D and a new collider would be one of D.                       *)
LEMMA ClosedIsExhausted ==
    ASSUME NEW N, NEW D, NEW A, NEW U, Pattern(N, D, A, U), MeekClosed(N, A, U)
    PROVE  \A a, b \in N : <<a, b>> \in U => ~ RuleAsks(N, A, U, a, b)
<1>1. /\ D \in SUBSET (N \X N) /\ A \in SUBSET (N \X N) /\ Acyclic(N, D) /\ A \subseteq D
      /\ Lined(N, U) /\ U \in SUBSET (N \X N) /\ A \cap U = {}
      /\ \A u, v \in N : Adjacent(A, U, u, v) <=> Adjacent(D, {}, u, v)
      /\ \A u, v, w \in N :
          u # w /\ <<u, v>> \in D /\ <<w, v>> \in D /\ ~ Adjacent(D, {}, u, w) => <<u, v>> \in A
      /\ R1Blocked(N, A, U) /\ R3Blocked(N, A, U) /\ R4Blocked(N, A, U)
  BY DEF Pattern, MeekClosed, Lined
<1>2. ASSUME NEW u \in N, NEW v \in N, <<u, v>> \in U PROVE ~ Reaches(N, A, u, v)
  BY <1>1, <1>2 DEF R4Blocked, DirPath
<1>3. ASSUME NEW u \in N, NEW v \in N, NEW w \in N,
             <<u, v>> \in A, <<v, w>> \in U, u # w, ~ Adjacent(A, U, u, w)
      PROVE  FALSE
  <2>1. u \in Parents(A, v) /\ w \in Children(U, v)
    BY <1>1, <1>3, ParentsAre
  <2>2. <<w, v>> \in U /\ ~ DirPath(N, A, w, v)
    BY <1>1, <1>2, <1>3 DEF Lined, DirPath
  <2>3. PICK p \in Parents(A, w) : p # v /\ ~ Adjacent(A, U, v, p)
    BY <1>1, <1>3, <2>1, <2>2 DEF R1Blocked
  <2>4. p \in N /\ <<p, w>> \in A
    <3>1. <<p, w>> \in A
      BY <1>1, <2>3, ParentsAre
    <3> QED
      BY <1>1, <3>1
  <2>5. <<v, w>> \in D \/ <<w, v>> \in D
    <3>1. Adjacent(D, {}, v, w)
      BY <1>1, <1>3 DEF Adjacent
    <3> QED
      BY <3>1 DEF Adjacent
  <2>6. CASE <<v, w>> \in D
    <3>1. <<p, w>> \in D /\ ~ Adjacent(D, {}, v, p)
      BY <1>1, <2>3, <2>4
    <3>2. <<v, w>> \in A
      BY <1>1, <2>3, <2>4, <2>6, <3>1
    <3> QED
      BY <1>1, <1>3, <3>2
  <2>7. CASE <<w, v>> \in D
    <3>1. <<u, v>> \in D /\ ~ Adjacent(D, {}, w, u)
      BY <1>1, <1>3, AdjacentFacts
    <3>2. <<w, v>> \in A
      BY <1>1, <1>3, <2>7, <3>1
    <3> QED
      BY <1>1, <2>2, <3>2
  <2> QED
    BY <2>5, <2>6, <2>7
<1>4. ASSUME NEW a \in N, NEW b \in N, NEW c \in N, NEW d \in N,
             <<a, b>> \in U, <<c, b>> \in A, <<d, b>> \in A, c # d,
             <<a, c>> \in U, <<a, d>> \in U
      PROVE  Adjacent(A, U, c, d)
  <2>1. c \in Parents(A, b) /\ d \in Parents(A, b)
    BY <1>1, <1>4, ParentsAre
  <2>2. \A l \in U : \A w, x \in Parents(A, l[2]) :
            (w # x /\ {<<l[1], w>>, <<l[1], x>>} \subseteq U) => Adjacent(A, U, w, x)
    BY <1>1 DEF R3Blocked
  <2>3. <<a, b>>[1] = a /\ <<a, b>>[2] = b
    OBVIOUS
  <2>4. \A w, x \in Parents(A, b) :
            (w # x /\ {<<a, w>>, <<a, x>>} \subseteq U) => Adjacent(A, U, w, x)
    BY <1>4, <2>2, <2>3
  <2> QED
    BY <1>4, <2>1, <2>4
<1> SUFFICES ASSUME NEW a \in N, NEW b \in N, <<a, b>> \in U PROVE ~ RuleAsks(N, A, U, a, b)
  OBVIOUS
<1>5. a # b
  BY <1>1 DEF Lined
<1>6. ASSUME NEW p \in N, <<p, a>> \in A, ~ Adjacent(A, U, p, b) PROVE FALSE
  <2>1. p # b
    <3>1. <<b, a>> \in U
      BY <1>1 DEF Lined
    <3> QED
      BY <1>1, <1>6, <3>1
  <2> QED
    BY <1>3, <1>6, <2>1
<1> QED
  BY <1>2, <1>4, <1>6, Zenon DEF RuleAsks

(* The rules as they bear on a closed pattern. *)
LEMMA PatternRules ==
    ASSUME NEW N, NEW D, NEW A, NEW U, ClosedPattern(N, D, A, U)
    PROVE  /\ \A u, v, w \in N : <<u, v>> \in A /\ <<v, w>> \in U /\ u # w => Adjacent(A, U, u, w)
           /\ \A u, v \in N : <<u, v>> \in U => ~ Reaches(N, A, u, v)
           /\ \A a, b, c, d \in N :
                  /\ <<a, b>> \in U /\ <<c, b>> \in A /\ <<d, b>> \in A /\ c # d
                  /\ <<a, c>> \in U /\ <<a, d>> \in U
                  => Adjacent(A, U, c, d)
  BY Zenon DEF ClosedPattern, RuleAsks

(* What a rule asks for, each DAG with the same adjacencies has that has    *)
(* the arcs, and no collider beside theirs.                                 *)
LEMMA RuleHolds ==
    ASSUME NEW N, NEW A, NEW U, Lined(N, U), A \cap U = {},
           NEW B \in SUBSET (N \X N), Acyclic(N, B), A \subseteq B,
           \A u, v \in N : Adjacent(A, U, u, v) <=> Adjacent(B, {}, u, v),
           \A u, v, w \in N :
               u # w /\ <<u, v>> \in B /\ <<w, v>> \in B /\ ~ Adjacent(B, {}, u, w) => <<u, v>> \in A,
           NEW a \in N, NEW b \in N, <<a, b>> \in U, RuleAsks(N, A, U, a, b)
    PROVE  <<a, b>> \in B
<1>1. a # b /\ <<b, a>> \in U /\ <<b, a>> \notin A
  BY DEF Lined
<1>2. \A u, v \in N : <<u, v>> \in U => <<u, v>> \in B \/ <<v, u>> \in B
  BY DEF Adjacent
<1> SUFFICES ASSUME <<b, a>> \in B PROVE FALSE
  BY <1>2
<1>3. ASSUME NEW p \in N, <<p, a>> \in A, ~ Adjacent(A, U, p, b) PROVE FALSE
  <2>1. p # b /\ <<p, a>> \in B
    BY <1>1, <1>3
  <2>2. ~ Adjacent(B, {}, b, p)
    BY <1>3, AdjacentFacts
  <2> QED
    BY <1>1, <2>1, <2>2
<1>4. ASSUME Reaches(N, A, a, b) PROVE FALSE
  <2>1. Reaches(N, B, a, b) /\ Reaches(N, B, b, a)
    BY <1>4, ReachesInLarger, ArcReaches
  <2> QED
    BY <1>1, <2>1, NoWayBack
<1>5. ASSUME NEW c \in N, NEW d \in N, c # d, <<c, b>> \in A, <<d, b>> \in A,
             ~ Adjacent(A, U, c, d), <<a, c>> \in U, <<a, d>> \in U
      PROVE  FALSE
  <2>1. ASSUME NEW e \in N, <<e, b>> \in A, <<a, e>> \in U PROVE <<e, a>> \in B
    <3>1. Reaches(N, B, e, a) /\ a # e
      BY <2>1, ArcReaches, ReachesOneStep DEF Lined
    <3>2. <<a, e>> \notin B
      BY <3>1, ArcReaches, NoWayBack
    <3> QED
      BY <1>2, <2>1, <3>2
  <2>2. <<c, a>> \in B /\ <<d, a>> \in B /\ ~ Adjacent(B, {}, c, d)
    BY <1>5, <2>1
  <2>3. <<c, a>> \in A
    BY <1>5, <2>2
  <2> QED
    BY <1>5, <2>3 DEF Lined
<1> QED
  BY <1>3, <1>4, <1>5, Zenon DEF RuleAsks

(* What a rule asks for has a reason. *)
LEMMA RuleIsReason ==
    ASSUME NEW N, NEW D, NEW A, NEW U, Pattern(N, D, A, U),
           NEW a \in N, NEW b \in N, <<a, b>> \in U, RuleAsks(N, A, U, a, b)
    PROVE  Forced(N, D, A, U, a, b)
<1>1. /\ Lined(N, U) /\ A \cap U = {}
      /\ \A u, v \in N : Adjacent(A, U, u, v) <=> Adjacent(D, {}, u, v)
      /\ \A u, v, w \in N :
          u # w /\ <<u, v>> \in D /\ <<w, v>> \in D /\ ~ Adjacent(D, {}, u, w) => <<u, v>> \in A
  BY DEF Pattern
<1>2. CASE \E p \in N : <<p, a>> \in A /\ ~ Adjacent(A, U, p, b)
  BY <1>2 DEF Forced
<1>3. CASE Reaches(N, A, a, b)
  <2>1. a # b
    BY <1>1 DEF Lined
  <2>2. PICK p \in N : Reaches(N, A, a, p) /\ <<p, b>> \in A
    BY <1>3, <2>1, LastStep
  <2>3. p # a
    BY <1>1, <2>2
  <2> QED
    BY <2>2, <2>3 DEF Forced
<1>4. CASE \E c, d \in N :
              /\ c # d /\ <<c, b>> \in A /\ <<d, b>> \in A /\ ~ Adjacent(A, U, c, d)
              /\ <<a, c>> \in U /\ <<a, d>> \in U
  <2>1. PICK c \in N, d \in N :
              /\ c # d /\ <<c, b>> \in A /\ <<d, b>> \in A /\ ~ Adjacent(A, U, c, d)
              /\ <<a, c>> \in U /\ <<a, d>> \in U
    BY <1>4
  <2>2. ASSUME <<c, a>> \in D, <<d, a>> \in D PROVE FALSE
    <3>1. <<c, a>> \in A
      BY <1>1, <2>1, <2>2
    <3> QED
      BY <1>1, <2>1, <3>1 DEF Lined
  <2>3. Adjacent(A, U, a, c) /\ Adjacent(A, U, a, d)
    BY <2>1 DEF Adjacent
  <2> QED
    BY <2>1, <2>2, <2>3, Zenon DEF Forced
<1> QED
  BY <1>2, <1>3, <1>4 DEF RuleAsks

(* Two of whose sides meet an arrow and a line: the third is one or other. *)
LEMMA ThirdSide ==
    ASSUME NEW N, NEW D, NEW A, NEW U, ClosedPattern(N, D, A, U),
           NEW u \in N, NEW v \in N, NEW w \in N, <<u, v>> \in A, <<v, w>> \in U
    PROVE  u # w /\ (<<u, w>> \in A \/ <<u, w>> \in U)
<1>1. Lined(N, U) /\ A \cap U = {} /\ <<w, v>> \in U
  BY DEF ClosedPattern, Pattern, Lined
<1>2. u # w
  BY <1>1
<1>3. Adjacent(A, U, u, w)
  BY <1>2, PatternRules
<1>4. ASSUME <<w, u>> \in A PROVE FALSE
  <2>1. Reaches(N, A, w, v)
    BY <1>4, ArcReaches, ReachesTransitive
  <2> QED
    BY <1>1, <2>1, PatternRules
<1> QED
  BY <1>1, <1>2, <1>3, <1>4, AdjacentFacts

(* An arrow between two nodes of a third they share lines with. *)
InTriangle(A, U, a, b, c) == <<a, b>> \in A /\ <<b, c>> \in U /\ <<a, c>> \in U

(* No reason but an arrow nearer to the root of D, or one from a node       *)
(* further down to the same head, makes a triangle of an arrow and lines.   *)
LEMMA TriangleGivesAnother ==
    ASSUME NEW N, NEW D, NEW A, NEW U, ClosedPattern(N, D, A, U),
           NEW a \in N, NEW b \in N, NEW c \in N, InTriangle(A, U, a, b, c)
    PROVE  \/ \E x, y, z \in N : InTriangle(A, U, x, y, z) /\ <<y, b>> \in D
           \/ \E x \in N : x # a /\ Reaches(N, A, a, x) /\ InTriangle(A, U, x, b, c)
<1>1. /\ Lined(N, U) /\ A \subseteq D /\ D \in SUBSET (N \X N) /\ Acyclic(N, D)
      /\ \A x, y, z \in N :
          x # z /\ <<x, y>> \in D /\ <<z, y>> \in D /\ ~ Adjacent(D, {}, x, z) => <<x, y>> \in A
      /\ \A u, v \in N : Adjacent(A, U, u, v) <=> Adjacent(D, {}, u, v)
      /\ Forced(N, D, A, U, a, b) /\ A \cap U = {}
  BY DEF ClosedPattern, Pattern, InTriangle
<1>2. /\ <<a, b>> \in A /\ <<a, c>> \in U /\ <<c, a>> \in U /\ <<b, c>> \in U /\ <<c, b>> \in U
  BY <1>1 DEF InTriangle, Lined
<1>3. \A u, v \in N : <<u, v>> \in U => ~ Reaches(N, A, u, v)
  BY PatternRules
<1>4. CASE \E d \in N : d # a /\ <<d, b>> \in A /\ ~ Adjacent(A, U, d, a)
  <2>1. PICK d \in N : d # a /\ <<d, b>> \in A /\ ~ Adjacent(A, U, d, a)
    BY <1>4
  <2>2. d # c /\ (<<d, c>> \in A \/ <<d, c>> \in U)
    BY <1>2, <2>1, ThirdSide
  <2>3. CASE <<d, c>> \in A
    <3>1. <<d, a>> \in A \/ <<d, a>> \in U
      BY <1>2, <2>3, ThirdSide
    <3> QED
      BY <1>1, <2>1, <3>1, AdjacentFacts
  <2>4. CASE <<d, c>> \in U
    <3>1. <<c, d>> \in U
      BY <1>1, <2>4 DEF Lined
    <3>2. Adjacent(A, U, a, d)
      BY <1>2, <2>1, <3>1, PatternRules
    <3> QED
      BY <1>1, <2>1, <3>2, AdjacentFacts
  <2> QED
    BY <2>2, <2>3, <2>4
<1>5. CASE \E p \in N : <<p, a>> \in A /\ ~ Adjacent(A, U, p, b)
  <2>1. PICK p \in N : <<p, a>> \in A /\ ~ Adjacent(A, U, p, b)
    BY <1>5
  <2>2. <<p, c>> \in A \/ <<p, c>> \in U
    BY <1>2, <2>1, ThirdSide
  <2>3. CASE <<p, c>> \in A
    <3>1. <<p, b>> \in A \/ <<p, b>> \in U
      BY <1>2, <2>3, ThirdSide
    <3> QED
      BY <1>1, <2>1, <3>1, AdjacentFacts
  <2>4. CASE <<p, c>> \in U
    <3>1. InTriangle(A, U, p, a, c) /\ <<a, b>> \in D
      BY <1>1, <1>2, <2>1, <2>4 DEF InTriangle
    <3> QED
      BY <3>1
  <2> QED
    BY <2>2, <2>3, <2>4
<1>6. CASE \E d \in N : d # a /\ Reaches(N, A, a, d) /\ <<d, b>> \in A
  <2>1. PICK d \in N : d # a /\ Reaches(N, A, a, d) /\ <<d, b>> \in A
    BY <1>6
  <2>2. <<d, c>> \in A \/ <<d, c>> \in U
    BY <1>2, <2>1, ThirdSide
  <2>3. CASE <<d, c>> \in A
    <3>1. Reaches(N, A, a, c)
      BY <2>1, <2>3, ReachesOneStep
    <3> QED
      BY <1>2, <1>3, <3>1
  <2>4. CASE <<d, c>> \in U
    <3>1. InTriangle(A, U, d, b, c)
      BY <1>2, <2>1, <2>4 DEF InTriangle
    <3> QED
      BY <2>1, <3>1
  <2> QED
    BY <2>2, <2>3, <2>4
<1>7. CASE \E d, e \in N :
              /\ d # e /\ <<d, b>> \in A /\ <<e, b>> \in A /\ ~ Adjacent(A, U, d, e)
              /\ Adjacent(A, U, a, d) /\ Adjacent(A, U, a, e)
              /\ ~ (<<d, a>> \in D /\ <<e, a>> \in D)
  <2>1. PICK d \in N, e \in N :
              /\ d # e /\ <<d, b>> \in A /\ <<e, b>> \in A /\ ~ Adjacent(A, U, d, e)
              /\ Adjacent(A, U, a, d) /\ Adjacent(A, U, a, e)
              /\ ~ (<<d, a>> \in D /\ <<e, a>> \in D)
    BY <1>7
  <2>2. CASE \E x \in {d, e} : <<a, x>> \in A
    <3>1. PICK x \in {d, e} : <<a, x>> \in A
      BY <2>2
    <3>2. x \in N /\ <<x, b>> \in A /\ Reaches(N, A, a, x) /\ x # a
      BY <1>1, <2>1, <3>1, ArcReaches, NoSelfArcs
    <3> QED
      BY <1>6, <3>2
  <2>3. ASSUME \A x \in {d, e} : <<a, x>> \notin A PROVE FALSE
    <3>0. ~ Adjacent(A, U, e, d)
      BY <1>1, <2>1, AdjacentFacts
    <3>1. \A x \in {d, e} : <<x, a>> \in A \/ <<a, x>> \in U
      BY <1>1, <2>1, <2>3, AdjacentFacts
    <3>2. ASSUME NEW x \in {d, e}, <<x, a>> \in A PROVE \E y \in {d, e} : y # x /\ <<y, a>> \in A
      <4>1. PICK y \in {d, e} : y # x
        BY <2>1
      <4>2. ~ Adjacent(A, U, x, y)
        BY <2>1, <3>0, <4>1
      <4>3. <<a, y>> \notin U
        <5>1. ASSUME <<a, y>> \in U PROVE FALSE
          <6>1. Adjacent(A, U, x, y)
            BY <2>1, <3>2, <4>1, <5>1, PatternRules
          <6> QED
            BY <4>2, <6>1
        <5> QED
          BY <5>1
      <4> QED
        BY <3>1, <4>1, <4>3
    <3>3. \A x \in {d, e} : <<x, a>> \notin A
      <4> SUFFICES ASSUME NEW x \in {d, e}, <<x, a>> \in A PROVE FALSE
        OBVIOUS
      <4>1. PICK y \in {d, e} : y # x /\ <<y, a>> \in A
        BY <3>2
      <4> QED
        BY <1>1, <2>1, <4>1
    <3>4. <<a, d>> \in U /\ <<a, e>> \in U
      BY <3>1, <3>3
    <3>5. \A x \in {d, e} : x # c /\ (<<x, c>> \in A \/ <<x, c>> \in U)
      BY <1>2, <2>1, ThirdSide
    <3>6. CASE \A x \in {d, e} : <<x, c>> \in U
      <4>1. <<c, d>> \in U /\ <<c, e>> \in U
        BY <1>1, <3>6 DEF Lined
      <4>2. Adjacent(A, U, d, e)
        BY <1>2, <2>1, <4>1, PatternRules
      <4> QED
        BY <2>1, <4>2
    <3>7. CASE \A x \in {d, e} : <<x, c>> \in A
      <4>1. Adjacent(A, U, d, e)
        BY <1>2, <2>1, <3>4, <3>7, PatternRules
      <4> QED
        BY <2>1, <4>1
    <3>8. ASSUME NEW x \in {d, e}, NEW y \in {d, e}, <<x, c>> \in A, <<y, c>> \in U PROVE FALSE
      <4>1. x # y /\ <<c, y>> \in U
        BY <1>1, <3>8 DEF Lined
      <4>2. Adjacent(A, U, x, y)
        BY <2>1, <3>8, <4>1, PatternRules
      <4>3. ~ Adjacent(A, U, x, y)
        BY <2>1, <3>0, <4>1
      <4> QED
        BY <4>2, <4>3
    <3> QED
      BY <3>5, <3>6, <3>7, <3>8
  <2> QED
    BY <2>2, <2>3
<1> QED
  BY <1>1, <1>4, <1>5, <1>6, <1>7 DEF Forced

--------------------------------------------------------------------------------
(* Finite sets: the least value of a function, the end of an acyclic relation. *)
LEMMA SmallestValue ==
    ASSUME NEW S, IsFiniteSet(S), S # {}, NEW f \in [S -> Nat]
    PROVE  \E x \in S : \A y \in S : f[x] <= f[y]
<1> DEFINE I == {f[x] : x \in S}
<1>1. I \in SUBSET Nat /\ I # {}
  OBVIOUS
<1>2. IsFiniteSet(I)
  <2>1. DOMAIN f = S /\ f = [x \in S |-> f[x]]
    OBVIOUS
  <2> QED
    BY <2>1, FiniteImage
<1>3. PICK i \in I : \A j \in I : i <= j
  BY <1>1, <1>2, Least
<1> QED
  BY <1>3

LEMMA Furthest ==
    ASSUME NEW N, IsFiniteSet(N), NEW A, Acyclic(N, A), NEW T \in SUBSET N, T # {}
    PROVE  \E x \in T : \A y \in T : Reaches(N, A, x, y) => y = x
<1> DEFINE below(x) == {y \in N : Reaches(N, A, x, y)}
           f == [x \in T |-> Cardinality(below(x))]
<1>1. \A x \in T : IsFiniteSet(below(x)) /\ Cardinality(below(x)) \in Nat
  BY FS_Subset, FS_CardinalityType
<1>2. IsFiniteSet(T) /\ f \in [T -> Nat]
  <2>1. IsFiniteSet(T)
    BY FS_Subset
  <2> QED
    BY <1>1, <2>1
<1>3. PICK x \in T : \A y \in T : f[x] <= f[y]
  <2> HIDE DEF f
  <2> QED
    BY <1>2, SmallestValue
<1>4. ASSUME NEW y \in T, Reaches(N, A, x, y), y # x PROVE FALSE
  <2>1. x \notin below(y)
    BY <1>4, NoWayBack
  <2>2. below(y) \in SUBSET (below(x) \ {x})
    <3>1. \A z \in below(y) : z \in below(x)
      BY <1>4, ReachesTransitive
    <3> QED
      BY <2>1, <3>1
  <2>3. x \in below(x)
    BY ReachesItself
  <2>4. IsFiniteSet(below(x) \ {x}) /\ Cardinality(below(x) \ {x}) = Cardinality(below(x)) - 1
    BY <1>1, <2>3, FS_RemoveElement
  <2>5. Cardinality(below(y)) <= Cardinality(below(x) \ {x})
    BY <2>2, <2>4, FS_Subset
  <2>6. Cardinality(below(x)) <= Cardinality(below(y))
    BY <1>3
  <2>7. Cardinality(below(x)) \in Nat /\ Cardinality(below(y)) \in Nat
    BY <1>1
  <2> HIDE DEF below
  <2> QED
    BY <2>4, <2>5, <2>6, <2>7
<1> QED
  BY <1>4

(* A node none of the others in T leads to. *)
LEMMA Nearest ==
    ASSUME NEW N, IsFiniteSet(N), NEW A, Acyclic(N, A), NEW T \in SUBSET N, T # {}
    PROVE  \E x \in T : \A y \in T : Reaches(N, A, y, x) => y = x
<1> DEFINE above(x) == {y \in N : Reaches(N, A, y, x)}
           f == [x \in T |-> Cardinality(above(x))]
<1>1. \A x \in T : IsFiniteSet(above(x)) /\ Cardinality(above(x)) \in Nat
  BY FS_Subset, FS_CardinalityType
<1>2. IsFiniteSet(T) /\ f \in [T -> Nat]
  <2>1. IsFiniteSet(T)
    BY FS_Subset
  <2> QED
    BY <1>1, <2>1
<1>3. PICK x \in T : \A y \in T : f[x] <= f[y]
  <2> HIDE DEF f
  <2> QED
    BY <1>2, SmallestValue
<1>4. ASSUME NEW y \in T, Reaches(N, A, y, x), y # x PROVE FALSE
  <2>1. x \notin above(y)
    BY <1>4, NoWayBack
  <2>2. above(y) \in SUBSET (above(x) \ {x})
    <3>1. \A z \in above(y) : z \in above(x)
      BY <1>4, ReachesTransitive
    <3> QED
      BY <2>1, <3>1
  <2>3. x \in above(x)
    BY ReachesItself
  <2>4. IsFiniteSet(above(x) \ {x}) /\ Cardinality(above(x) \ {x}) = Cardinality(above(x)) - 1
    BY <1>1, <2>3, FS_RemoveElement
  <2>5. Cardinality(above(y)) <= Cardinality(above(x) \ {x})
    BY <2>2, <2>4, FS_Subset
  <2>6. Cardinality(above(x)) <= Cardinality(above(y))
    BY <1>3
  <2>7. Cardinality(above(x)) \in Nat /\ Cardinality(above(y)) \in Nat
    BY <1>1
  <2> HIDE DEF above
  <2> QED
    BY <2>4, <2>5, <2>6, <2>7
<1> QED
  BY <1>4

(* Meek's first lemma: a parent of one end of a line is a parent of both.  *)
LEMMA ParentOfLine ==
    ASSUME NEW N, NEW D, NEW A, NEW U, ClosedPattern(N, D, A, U),
           NEW u \in N, NEW v \in N, NEW w \in N, <<u, v>> \in A, <<v, w>> \in U
    PROVE  <<u, w>> \in A
<1>1. IsFiniteSet(N) /\ Acyclic(N, D) /\ A \subseteq D
  BY DEF ClosedPattern, Pattern
<1>2. Acyclic(N, A)
  BY <1>1, SmallerIsAcyclic
<1> DEFINE heads == {b \in N : \E a, c \in N : InTriangle(A, U, a, b, c)}
<1>3. ASSUME heads # {} PROVE FALSE
  <2>1. heads \in (SUBSET N) \ {{}}
    BY <1>3
  <2>2. PICK b \in heads : \A y \in heads : <<y, b>> \notin D
    BY <1>1, <2>1 DEF Acyclic
  <2>3. PICK c \in N : \E a \in N : InTriangle(A, U, a, b, c)
    BY <2>2
  <2> DEFINE tails == {a \in N : InTriangle(A, U, a, b, c)}
  <2>4. tails \in SUBSET N /\ tails # {}
    BY <2>3
  <2>5. PICK a \in tails : \A x \in tails : Reaches(N, A, a, x) => x = a
    BY <1>1, <1>2, <2>4, Furthest
  <2>6. b \in N /\ a \in N /\ InTriangle(A, U, a, b, c)
    BY <2>2, <2>5
  <2>7. CASE \E x, y, z \in N : InTriangle(A, U, x, y, z) /\ <<y, b>> \in D
    BY <2>2, <2>7
  <2>8. CASE \E x \in N : x # a /\ Reaches(N, A, a, x) /\ InTriangle(A, U, x, b, c)
    BY <2>5, <2>8
  <2> QED
    BY <2>3, <2>6, <2>7, <2>8, TriangleGivesAnother
<1>4. <<u, w>> \in A \/ <<u, w>> \in U
  BY ThirdSide
<1>5. <<u, w>> \notin U
  BY <1>3 DEF InTriangle
<1> QED
  BY <1>4, <1>5

--------------------------------------------------------------------------------
(* Moral orientations of lines: acyclic, and parents of a node share a line. *)

Clique(K, U) == \A x, y \in K : x # y => <<x, y>> \in U

MoralOrientation(N, W, U, O) ==
    /\ O \in SUBSET (W \X W) /\ O \subseteq U
    /\ Acyclic(N, O)
    /\ \A u, v \in W : <<u, v>> \in U => <<u, v>> \in O \/ <<v, u>> \in O
    /\ \A u, v, w \in W : <<u, v>> \in O /\ <<w, v>> \in O /\ u # w => <<u, w>> \in U

Simplicial(W, U, x) == \A y, z \in W : <<x, y>> \in U /\ <<x, z>> \in U /\ y # z => <<y, z>> \in U

(* Outside of each clique there is a node whose neighbours form one.       *)
LEMMA SimplicialOutside ==
    ASSUME NEW N, IsFiniteSet(N), NEW U, Lined(N, U), NEW O, MoralOrientation(N, N, U, O),
           NEW W \in SUBSET N, NEW K \in SUBSET W, K # W, Clique(K, U)
    PROVE  \E x \in W \ K : Simplicial(W, U, x)
<1> DEFINE Good(S) == \A C \in SUBSET S :
                          C # S /\ Clique(C, U) => \E x \in S \ C : Simplicial(S, U, x)
           bad == {S \in SUBSET N : ~ Good(S)}
           f == [S \in bad |-> Cardinality(S)]
<1>1. SUFFICES bad = {}
  OBVIOUS
<1>2. SUFFICES ASSUME bad # {} PROVE FALSE
  OBVIOUS
<1>3. \A S \in bad : IsFiniteSet(S) /\ Cardinality(S) \in Nat
  BY FS_Subset, FS_CardinalityType
<1>4. IsFiniteSet(bad)
  <2>1. IsFiniteSet(SUBSET N)
    BY FS_SUBSET
  <2> QED
    BY <2>1, FS_Subset
<1>5. PICK S \in bad : \A T \in bad : Cardinality(S) <= Cardinality(T)
  <2>1. f \in [bad -> Nat]
    BY <1>3
  <2>2. PICK S \in bad : \A T \in bad : f[S] <= f[T]
    <3> HIDE DEF f, bad
    <3> QED
      BY <1>2, <1>4, <2>1, SmallestValue
  <2> QED
    BY <2>2
<1>6. PICK C \in SUBSET S : C # S /\ Clique(C, U) /\ \A x \in S \ C : ~ Simplicial(S, U, x)
  BY <1>5
<1>7. S \in SUBSET N /\ S # {} /\ Acyclic(N, O) /\ Lined(N, U)
  BY <1>5, <1>6 DEF MoralOrientation
<1>8. PICK s \in S : \A y \in S : Reaches(N, O, s, y) => y = s
  BY <1>7, Furthest
<1>9. \A y \in S : <<s, y>> \in U => <<y, s>> \in O
  <2> SUFFICES ASSUME NEW y \in S, <<s, y>> \in U PROVE <<y, s>> \in O
    OBVIOUS
  <2>1. <<s, y>> \in O \/ <<y, s>> \in O
    BY <1>7 DEF MoralOrientation
  <2>2. ASSUME <<s, y>> \in O PROVE FALSE
    <3>1. Reaches(N, O, s, y)
      BY <1>7, <2>2, ArcReaches
    <3> QED
      BY <1>7, <1>8, <3>1 DEF Lined
  <2> QED
    BY <2>1, <2>2
<1>10. Simplicial(S, U, s)
  BY <1>7, <1>9 DEF Simplicial, MoralOrientation
<1>11. s \in C
  BY <1>6, <1>10
<1> DEFINE rest == S \ {s}
           near == {y \in S : <<s, y>> \in U}
<1>12. near \in SUBSET rest /\ Clique(near, U) /\ C \in SUBSET (near \cup {s})
  <2>1. near \in SUBSET rest
    BY <1>7 DEF Lined
  <2>2. Clique(near, U)
    BY <1>10 DEF Clique, Simplicial
  <2>3. C \in SUBSET (near \cup {s})
    BY <1>6, <1>11 DEF Clique
  <2> QED
    BY <2>1, <2>2, <2>3
<1>13. CASE near = rest
  <2>1. PICK x \in S \ C : TRUE
    BY <1>6
  <2>2. Clique(S, U)
    <3>1. \A y \in S : y = s \/ y \in near
      BY <1>13
    <3>2. \A y \in near : <<s, y>> \in U /\ <<y, s>> \in U
      BY <1>7 DEF Lined
    <3> QED
      BY <1>12, <3>1, <3>2 DEF Clique
  <2>3. Simplicial(S, U, x)
    BY <2>2 DEF Simplicial, Clique
  <2> QED
    BY <1>6, <2>1, <2>3
<1>14. CASE near # rest
  <2>1. IsFiniteSet(S) /\ Cardinality(S) \in Nat /\ Cardinality(rest) = Cardinality(S) - 1
    BY <1>3, <1>5, FS_RemoveElement
  <2>2. rest \notin bad
    BY <1>5, <2>1
  <2>3. Good(rest)
    BY <1>7, <2>2
  <2>4. PICK x \in rest \ near : Simplicial(rest, U, x)
    BY <1>12, <1>14, <2>3
  <2>5. x \in S \ C
    BY <1>12, <2>4
  <2>6. <<x, s>> \notin U
    BY <1>7, <2>4 DEF Lined
  <2>7. Simplicial(S, U, x)
    BY <2>4, <2>6 DEF Simplicial
  <2> QED
    BY <1>6, <2>5, <2>7
<1> QED
  BY <1>13, <1>14

(* Each line can be the first to be oriented, either way: the other nodes   *)
(* come after, one by one, each when its neighbours so far form a clique.   *)
LEMMA OrientFirst ==
    ASSUME NEW N, IsFiniteSet(N), NEW U, Lined(N, U), NEW O, MoralOrientation(N, N, U, O),
           NEW a \in N, NEW b \in N, <<a, b>> \in U
    PROVE  \E P : MoralOrientation(N, N, U, P) /\ <<a, b>> \in P
<1> DEFINE Good(S) == \E P : MoralOrientation(N, S, U, P) /\ <<a, b>> \in P
           bad == {S \in SUBSET N : {a, b} \subseteq S /\ ~ Good(S)}
           f == [S \in bad |-> Cardinality(S)]
<1>1. SUFFICES ASSUME bad # {} PROVE FALSE
  BY Zenon
<1>2. \A S \in bad : IsFiniteSet(S) /\ Cardinality(S) \in Nat
  BY FS_Subset, FS_CardinalityType
<1>3. IsFiniteSet(bad)
  <2>1. IsFiniteSet(SUBSET N)
    BY FS_SUBSET
  <2> QED
    BY <2>1, FS_Subset
<1>4. PICK S \in bad : \A T \in bad : Cardinality(S) <= Cardinality(T)
  <2>1. f \in [bad -> Nat]
    BY <1>2
  <2>2. PICK S \in bad : \A T \in bad : f[S] <= f[T]
    <3> HIDE DEF f, bad
    <3> QED
      BY <1>1, <1>3, <2>1, SmallestValue
  <2> QED
    BY <2>2
<1>5. S \in SUBSET N /\ {a, b} \in SUBSET S /\ ~ Good(S)
  BY <1>4
<1>6. /\ a # b /\ <<b, a>> \in U /\ Clique({a, b}, U)
      /\ \A u, v \in N : <<u, v>> \in U => <<v, u>> \in U /\ u # v
  BY DEF Lined, Clique
<1>7. S # {a, b}
  <2> SUFFICES ASSUME S = {a, b} PROVE FALSE
    OBVIOUS
  <2> DEFINE P == {<<a, b>>}
  <2>1. Acyclic(N, P)
    BY <1>6 DEF Acyclic
  <2>2. MoralOrientation(N, S, U, P)
    BY <1>6, <2>1 DEF MoralOrientation
  <2> QED
    BY <1>5, <2>2
<1>8. PICK x \in S \ {a, b} : Simplicial(S, U, x)
  BY <1>5, <1>6, <1>7, SimplicialOutside
<1> DEFINE rest == S \ {x}
           into == {<<y, x>> : y \in {z \in S : <<z, x>> \in U}}
<1>9. PICK P : MoralOrientation(N, rest, U, P) /\ <<a, b>> \in P
  <2>1. IsFiniteSet(S) /\ Cardinality(S) \in Nat /\ Cardinality(rest) = Cardinality(S) - 1
    BY <1>2, <1>4, FS_RemoveElement
  <2>2. rest \notin bad
    BY <1>4, <2>1
  <2>3. Good(rest)
    BY <1>5, <1>8, <2>2
  <2> QED
    BY <2>3
<1>10. /\ P \in SUBSET (rest \X rest) /\ P \subseteq U /\ Acyclic(N, P)
       /\ \A u, v \in rest : <<u, v>> \in U => <<u, v>> \in P \/ <<v, u>> \in P
       /\ \A u, v, w \in rest : <<u, v>> \in P /\ <<w, v>> \in P /\ u # w => <<u, w>> \in U
  BY <1>9 DEF MoralOrientation
<1>11. \A u, v : <<u, v>> \in P \cup into <=>
                     <<u, v>> \in P \/ (v = x /\ u \in S /\ <<u, x>> \in U)
  OBVIOUS
<1>12. \A u, v : <<u, v>> \in P => u \in rest /\ v \in rest
  BY <1>10
<1>13. Acyclic(N, P \cup into)
  <2> SUFFICES ASSUME NEW T \in (SUBSET N) \ {{}}
               PROVE  \E t \in T : \A y \in T : <<y, t>> \notin P \cup into
    BY DEF Acyclic
  <2>1. CASE T = {x}
    <3>1. <<x, x>> \notin P \cup into
      BY <1>5, <1>6, <1>8, <1>11, <1>12
    <3> QED
      BY <2>1, <3>1
  <2>2. CASE T # {x}
    <3>1. T \ {x} \in (SUBSET N) \ {{}}
      BY <2>2
    <3>2. PICK t \in T \ {x} : \A y \in T \ {x} : <<y, t>> \notin P
      BY <1>10, <3>1 DEF Acyclic
    <3>3. \A y \in T : <<y, t>> \notin P \cup into
      BY <1>11, <1>12, <3>2
    <3> QED
      BY <3>2, <3>3
  <2> QED
    BY <2>1, <2>2
<1>14. MoralOrientation(N, S, U, P \cup into)
  <2>1. P \cup into \in SUBSET (S \X S) /\ P \cup into \subseteq U
    <3>1. ASSUME NEW e \in into PROVE e \in S \X S /\ e \in U
      <4>1. PICK y \in {z \in S : <<z, x>> \in U} : e = <<y, x>>
        OBVIOUS
      <4> QED
        BY <1>8, <4>1
    <3>2. P \in SUBSET (S \X S) /\ P \subseteq U
      BY <1>10
    <3> QED
      BY <3>1, <3>2
  <2>2. ASSUME NEW u \in S, NEW v \in S, <<u, v>> \in U
        PROVE  <<u, v>> \in P \cup into \/ <<v, u>> \in P \cup into
    <3>1. u \in N /\ v \in N /\ <<v, u>> \in U
      BY <1>5, <1>6, <2>2
    <3>2. CASE u = x
      BY <1>11, <3>1, <3>2
    <3>3. CASE v = x
      BY <1>11, <2>2, <3>3
    <3>4. CASE u # x /\ v # x
      BY <1>10, <1>11, <2>2, <3>4
    <3> QED
      BY <3>2, <3>3, <3>4
  <2>3. ASSUME NEW u \in S, NEW v \in S, NEW w \in S, u # w,
               <<u, v>> \in P \cup into, <<w, v>> \in P \cup into
        PROVE  <<u, w>> \in U
    <3>1. CASE v = x
      <4>1. <<u, x>> \in U /\ <<w, x>> \in U
        BY <1>11, <1>12, <2>3, <3>1
      <4>2. <<x, u>> \in U /\ <<x, w>> \in U
        BY <1>5, <1>6, <1>8, <4>1
      <4> QED
        BY <1>8, <2>3, <4>2 DEF Simplicial
    <3>2. CASE v # x
      <4>1. <<u, v>> \in P /\ <<w, v>> \in P
        BY <1>11, <2>3, <3>2
      <4> QED
        BY <1>10, <1>12, <2>3, <4>1
    <3> QED
      BY <3>1, <3>2
  <2> QED
    BY <1>13, <2>1, <2>2, <2>3 DEF MoralOrientation
<1>15. Good(S)
  BY <1>9, <1>14, Zenon
<1> QED
  BY <1>5, <1>15

--------------------------------------------------------------------------------
(* Membership in a class of Markov equivalence, read off the adjacencies.  *)
LEMMA IsEquivalent ==
    ASSUME NEW N, NEW D \in SUBSET (N \X N), Acyclic(N, D),
           NEW B \in SUBSET (N \X N), Acyclic(N, B),
           \A u, v \in N : Adjacent(B, {}, u, v) <=> Adjacent(D, {}, u, v),
           \A u, v, w \in N : u # w /\ ~ Adjacent(D, {}, u, w) =>
               (<<u, v>> \in D /\ <<w, v>> \in D <=> <<u, v>> \in B /\ <<w, v>> \in B)
    PROVE  B \in MarkovEquivalent(N, D)
<1>1. \A u, v \in N : {u, v} \in Skeleton(D) <=> Adjacent(D, {}, u, v)
  <2>1. D \cup {} = D
    OBVIOUS
  <2> QED
    BY <2>1, AdjacentInSkeleton
<1>2. B \in Orientations(N, Skeleton(D))
  <2>1. B \in SUBSET Symmetric(N, Skeleton(D))
    <3> SUFFICES ASSUME NEW e \in B PROVE e \in Symmetric(N, Skeleton(D))
      OBVIOUS
    <3>1. e[1] \in N /\ e[2] \in N /\ e = <<e[1], e[2]>> /\ e \in N \X N
      OBVIOUS
    <3>2. Adjacent(B, {}, e[1], e[2])
      BY <3>1 DEF Adjacent
    <3>3. {e[1], e[2]} \in Skeleton(D)
      BY <1>1, <3>1, <3>2
    <3> QED
      BY <3>1, <3>3 DEF Symmetric
  <2>2. ASSUME NEW s \in Skeleton(D) PROVE Cardinality({e \in B : {e[1], e[2]} = s}) = 1
    <3>1. PICK d \in D : s = {d[1], d[2]}
      BY DEF Skeleton
    <3>2. d[1] \in N /\ d[2] \in N /\ d = <<d[1], d[2]>>
      OBVIOUS
    <3>3. Adjacent(B, {}, d[1], d[2])
      BY <3>2 DEF Adjacent
    <3>4. PICK e \in B : {e[1], e[2]} = s
      <4>1. CASE <<d[1], d[2]>> \in B
        BY <3>1, <4>1
      <4>2. CASE <<d[2], d[1]>> \in B
        <5>1. {<<d[2], d[1]>>[1], <<d[2], d[1]>>[2]} = s
          BY <3>1
        <5> QED
          BY <4>2, <5>1
      <4> QED
        BY <3>3, <4>1, <4>2 DEF Adjacent
    <3>5. ASSUME NEW h \in B, {h[1], h[2]} = s PROVE h = e
      <4>1. /\ e[1] \in N /\ e[2] \in N /\ e = <<e[1], e[2]>>
            /\ h[1] \in N /\ h[2] \in N /\ h = <<h[1], h[2]>>
        OBVIOUS
      <4>2. h = <<e[1], e[2]>> \/ h = <<e[2], e[1]>>
        BY <3>4, <3>5, <4>1
      <4>3. <<e[2], e[1]>> \notin B
        BY <4>1, NoTwoWays
      <4> QED
        BY <4>1, <4>2, <4>3
    <3>6. {h \in B : {h[1], h[2]} = s} = {e}
      BY <3>4, <3>5
    <3> QED
      BY <3>6, FS_Singleton
  <2> QED
    BY <2>1, <2>2 DEF Orientations
<1>3. VStructures(N, B) = VStructures(N, D)
  <2> SUFFICES ASSUME NEW t \in N \X N \X N
               PROVE  t \in VStructures(N, B) <=> t \in VStructures(N, D)
    BY DEF VStructures, UnshieldedColliders
  <2>1. t[1] \in N /\ t[2] \in N /\ t[3] \in N
    OBVIOUS
  <2>2. \A E : t \in VStructures(N, E) <=>
            /\ t[1] # t[3] /\ <<t[1], t[2]>> \in E /\ <<t[3], t[2]>> \in E
            /\ ~ Adjacent(E, {}, t[1], t[3])
    BY DEF VStructures, UnshieldedColliders
  <2> QED
    BY <2>1, <2>2
<1> QED
  BY <1>2, <1>3 DEF MarkovEquivalent

(* The DAGs equivalent to D have its adjacencies and its colliders. *)
LEMMA EquivalentFacts ==
    ASSUME NEW N, NEW D \in SUBSET (N \X N), NEW B \in MarkovEquivalent(N, D)
    PROVE  /\ B \in SUBSET (N \X N) /\ Acyclic(N, B)
           /\ \A u, v \in N : Adjacent(B, {}, u, v) <=> Adjacent(D, {}, u, v)
           /\ \A u, v, w \in N : u # w /\ ~ Adjacent(D, {}, u, w) =>
                  (<<u, v>> \in D /\ <<w, v>> \in D <=> <<u, v>> \in B /\ <<w, v>> \in B)
<1>1. B \in Orientations(N, Skeleton(D)) /\ VStructures(N, B) = VStructures(N, D)
  BY DEF MarkovEquivalent
<1>2. B \in SUBSET (N \X N) /\ Acyclic(N, B) /\ Skeleton(B) = Skeleton(D)
  BY <1>1, OrientationFacts
<1>3. \A u, v : Adjacent(B, {}, u, v) <=> Adjacent(D, {}, u, v)
  <2>1. B \cup {} = B /\ D \cup {} = D
    OBVIOUS
  <2>2. Skeleton(B \cup {}) = Skeleton(D \cup {})
    BY <1>2, <2>1
  <2> QED
    BY <1>2, <2>2, SameAdjacent
<1>4. \A E : \A u, v, w \in N : <<u, v, w>> \in VStructures(N, E) <=>
          /\ u # w /\ <<u, v>> \in E /\ <<w, v>> \in E /\ ~ Adjacent(E, {}, u, w)
  BY DEF VStructures, UnshieldedColliders
<1>5. ASSUME NEW u \in N, NEW v \in N, NEW w \in N, u # w, ~ Adjacent(D, {}, u, w)
      PROVE  <<u, v>> \in D /\ <<w, v>> \in D <=> <<u, v>> \in B /\ <<w, v>> \in B
  <2>1. <<u, v, w>> \in VStructures(N, D) <=> <<u, v>> \in D /\ <<w, v>> \in D
    BY <1>4, <1>5
  <2>2. <<u, v, w>> \in VStructures(N, B) <=> <<u, v>> \in B /\ <<w, v>> \in B
    BY <1>3, <1>4, <1>5
  <2> QED
    BY <1>1, <2>1, <2>2
<1> QED
  BY <1>2, <1>3, <1>5

(* One of the first arcs of A that B turns round, and among those into its *)
(* head one whose tail leads to no other.                                   *)
FirstTurned(N, D, A, B, a, b) ==
    /\ <<a, b>> \in A /\ <<b, a>> \in B
    /\ \A x, y \in N : <<x, y>> \in A /\ <<y, x>> \in B /\ Reaches(N, D, y, b) => y = b
    /\ \A x \in N : <<x, b>> \in A /\ <<b, x>> \in B /\ Reaches(N, A, a, x) => x = a

(* No reason lets an arc be that one. *)
LEMMA TurnedRoundNotFirst ==
    ASSUME NEW N, NEW D, NEW A, NEW U, Pattern(N, D, A, U),
           NEW B \in MarkovEquivalent(N, D),
           NEW a \in N, NEW b \in N, FirstTurned(N, D, A, B, a, b), Forced(N, D, A, U, a, b)
    PROVE  FALSE
<1>0. /\ <<a, b>> \in A /\ <<b, a>> \in B
      /\ \A x, y \in N : <<x, y>> \in A /\ <<y, x>> \in B /\ Reaches(N, D, y, b) => y = b
      /\ \A x \in N : <<x, b>> \in A /\ <<b, x>> \in B /\ Reaches(N, A, a, x) => x = a
  BY DEF FirstTurned
<1>1. /\ D \in SUBSET (N \X N) /\ Acyclic(N, D) /\ A \subseteq D /\ Lined(N, U)
      /\ \A u, v \in N : Adjacent(A, U, u, v) <=> Adjacent(D, {}, u, v)
  BY DEF Pattern
<1>2. /\ B \in SUBSET (N \X N) /\ Acyclic(N, B)
      /\ \A u, v \in N : Adjacent(B, {}, u, v) <=> Adjacent(D, {}, u, v)
      /\ \A u, v, w \in N : u # w /\ ~ Adjacent(D, {}, u, w) =>
             (<<u, v>> \in D /\ <<w, v>> \in D <=> <<u, v>> \in B /\ <<w, v>> \in B)
  BY <1>1, EquivalentFacts
<1>3. <<a, b>> \in D /\ <<a, b>> \notin B /\ a # b
  BY <1>0, <1>1, <1>2, NoTwoWays, NoSelfArcs
<1>4. \A u, v \in N : <<u, v>> \in A => <<u, v>> \in B \/ <<v, u>> \in B
  BY <1>1, <1>2 DEF Adjacent
<1>5. ASSUME NEW c \in N, c # a, <<c, b>> \in A, ~ Adjacent(A, U, c, a) PROVE FALSE
  <2>1. ~ Adjacent(D, {}, a, c) /\ <<c, b>> \in D
    BY <1>1, <1>5, AdjacentFacts
  <2> QED
    BY <1>2, <1>3, <1>5, <2>1
<1>6. ASSUME NEW c \in N, <<c, a>> \in A, ~ Adjacent(A, U, c, b) PROVE FALSE
  <2>1. <<c, a>> \in B
    <3>1. ASSUME <<a, c>> \in B PROVE FALSE
      <4>1. Reaches(N, D, a, b)
        BY <1>3, ArcReaches
      <4> QED
        BY <1>0, <1>3, <1>6, <3>1, <4>1
    <3> QED
      BY <1>4, <1>6, <3>1
  <2>2. <<b, a>> \notin D
    BY <1>1, <1>3, NoTwoWays
  <2>3. c # b
    BY <1>1, <1>6, <2>2
  <2>4. ~ Adjacent(D, {}, c, b)
    BY <1>1, <1>6
  <2> QED
    BY <1>0, <1>2, <2>1, <2>2, <2>3, <2>4
<1>7. ASSUME NEW c \in N, c # a, Reaches(N, A, a, c), <<c, b>> \in A PROVE FALSE
  <2>1. <<c, b>> \in B
    BY <1>0, <1>4, <1>7
  <2> DEFINE S == {x \in N : Reaches(N, A, x, c) => Reaches(N, B, a, x)}
  <2>2. ASSUME NEW x \in S, NEW y \in N, <<x, y>> \in A PROVE y \in S
    <3> SUFFICES ASSUME Reaches(N, A, y, c) PROVE Reaches(N, B, a, y)
      OBVIOUS
    <3>1. Reaches(N, A, x, c)
      BY <2>2, ArcReaches, ReachesTransitive
    <3>2. Reaches(N, B, a, x)
      BY <3>1
    <3>3. Reaches(N, D, y, b)
      <4>1. Reaches(N, A, y, b)
        BY <1>7, ReachesOneStep
      <4> QED
        BY <1>1, <4>1, ReachesInLarger
    <3>4. y # b
      <4>1. SUFFICES ASSUME y = b PROVE FALSE
        OBVIOUS
      <4>2. Reaches(N, D, b, c) /\ Reaches(N, D, c, b)
        BY <1>1, <1>7, <4>1, ReachesInLarger, ArcReaches
      <4>3. b = c
        BY <1>1, <4>2, NoWayBack
      <4> QED
        BY <1>1, <1>7, <4>3, NoSelfArcs
    <3>5. <<y, x>> \notin B
      BY <1>0, <2>2, <3>3, <3>4
    <3>6. <<x, y>> \in B
      BY <1>4, <2>2, <3>5
    <3> QED
      BY <3>2, <3>6, ReachesOneStep
  <2>3. a \in S /\ S \in SUBSET N
    BY ReachesItself
  <2>4. c \in S
    <3> HIDE DEF S
    <3> QED
      BY <1>7, <2>2, <2>3 DEF Reaches
  <2>5. Reaches(N, B, a, c)
    BY <2>4, ReachesItself
  <2>6. Reaches(N, B, a, b)
    BY <2>1, <2>5, ReachesOneStep
  <2>7. Reaches(N, B, b, a)
    BY <1>0, ArcReaches
  <2> QED
    BY <1>2, <1>3, <2>6, <2>7, NoWayBack
<1>8. ASSUME NEW c \in N, NEW d \in N, c # d, <<c, b>> \in A, <<d, b>> \in A,
             ~ Adjacent(A, U, c, d), Adjacent(A, U, a, c), Adjacent(A, U, a, d)
      PROVE  <<c, a>> \in D /\ <<d, a>> \in D
  <2>1. <<c, b>> \in D /\ <<d, b>> \in D /\ ~ Adjacent(D, {}, c, d)
    BY <1>1, <1>8
  <2>2. <<c, b>> \in B /\ <<d, b>> \in B
    BY <1>2, <1>8, <2>1
  <2>3. ASSUME NEW e \in N, <<e, b>> \in B, Adjacent(A, U, a, e) PROVE <<e, a>> \in B
    <3>1. Reaches(N, B, e, a)
      BY <1>0, <2>3, ArcReaches, ReachesOneStep
    <3>2. ASSUME <<a, e>> \in B PROVE FALSE
      <4>1. Reaches(N, B, a, e)
        BY <2>3, <3>2, ArcReaches
      <4>2. a = e
        BY <1>2, <3>1, <4>1, NoWayBack
      <4> QED
        BY <1>2, <3>2, <4>2, NoSelfArcs
    <3>3. Adjacent(B, {}, a, e)
      BY <1>1, <1>2, <2>3
    <3> QED
      BY <3>2, <3>3 DEF Adjacent
  <2>4. <<c, a>> \in B /\ <<d, a>> \in B
    BY <1>8, <2>2, <2>3
  <2> QED
    BY <1>2, <1>8, <2>1, <2>4
<1> QED
  BY <1>5, <1>6, <1>7, <1>8, Zenon DEF Forced

(* Arcs that have a reason are in every DAG equivalent to D. *)
LEMMA ReasonsAreSound ==
    ASSUME NEW N, NEW D, NEW A, NEW U, Pattern(N, D, A, U),
           \A a, b \in N : <<a, b>> \in A => Forced(N, D, A, U, a, b),
           NEW B \in MarkovEquivalent(N, D)
    PROVE  A \subseteq B
<1>1. /\ IsFiniteSet(N) /\ D \in SUBSET (N \X N) /\ Acyclic(N, D) /\ A \subseteq D
      /\ \A u, v \in N : Adjacent(A, U, u, v) <=> Adjacent(D, {}, u, v)
  BY DEF Pattern
<1>2. \A u, v \in N : Adjacent(B, {}, u, v) <=> Adjacent(D, {}, u, v)
  BY <1>1, EquivalentFacts
<1>3. Acyclic(N, A)
  BY <1>1, SmallerIsAcyclic
<1> DEFINE heads == {b \in N : \E a \in N : <<a, b>> \in A /\ <<b, a>> \in B}
<1>4. ASSUME heads # {} PROVE FALSE
  <2>1. heads \in SUBSET N
    OBVIOUS
  <2>2. PICK b \in heads : \A y \in heads : Reaches(N, D, y, b) => y = b
    BY <1>1, <1>4, <2>1, Nearest
  <2> DEFINE tails == {a \in N : <<a, b>> \in A /\ <<b, a>> \in B}
  <2>3. tails \in SUBSET N /\ tails # {}
    BY <2>2
  <2>4. PICK a \in tails : \A x \in tails : Reaches(N, A, a, x) => x = a
    BY <1>1, <1>3, <2>3, Furthest
  <2>5. a \in N /\ b \in N /\ <<a, b>> \in A /\ <<b, a>> \in B
    BY <2>2, <2>4
  <2>6. \A x, y \in N : <<x, y>> \in A /\ <<y, x>> \in B /\ Reaches(N, D, y, b) => y = b
    BY <2>2
  <2>7. \A x \in N : <<x, b>> \in A /\ <<b, x>> \in B /\ Reaches(N, A, a, x) => x = a
    BY <2>4
  <2>8. Forced(N, D, A, U, a, b)
    BY <2>5
  <2>9. FirstTurned(N, D, A, B, a, b)
    BY <2>5, <2>6, <2>7 DEF FirstTurned
  <2> QED
    BY <2>5, <2>8, <2>9, TurnedRoundNotFirst
<1> SUFFICES ASSUME NEW e \in A PROVE e \in B
  OBVIOUS
<1>5. e[1] \in N /\ e[2] \in N /\ e = <<e[1], e[2]>>
  BY <1>1
<1>6. Adjacent(B, {}, e[1], e[2])
  BY <1>1, <1>2, <1>5 DEF Adjacent
<1> QED
  BY <1>4, <1>5, <1>6 DEF Adjacent

(* The DAG D itself orients the lines, and leaves no parents apart.        *)
LEMMA DrawnLinesAreMoral ==
    ASSUME NEW N, NEW D, NEW A, NEW U, ClosedPattern(N, D, A, U)
    PROVE  MoralOrientation(N, N, U, D \cap U)
<1>1. /\ Lined(N, U) /\ A \subseteq D /\ D \in SUBSET (N \X N) /\ Acyclic(N, D) /\ A \cap U = {}
      /\ \A u, v, w \in N :
          u # w /\ <<u, v>> \in D /\ <<w, v>> \in D /\ ~ Adjacent(D, {}, u, w) => <<u, v>> \in A
      /\ \A u, v \in N : Adjacent(A, U, u, v) <=> Adjacent(D, {}, u, v)
  BY DEF ClosedPattern, Pattern
<1>2. Acyclic(N, D \cap U)
  BY <1>1, SmallerIsAcyclic
<1>3. ASSUME NEW u \in N, NEW v \in N, <<u, v>> \in U
      PROVE  <<u, v>> \in D \cap U \/ <<v, u>> \in D \cap U
  <2>1. Adjacent(D, {}, u, v)
    BY <1>1, <1>3 DEF Adjacent
  <2>2. <<v, u>> \in U
    BY <1>1, <1>3 DEF Lined
  <2> QED
    BY <1>3, <2>1, <2>2 DEF Adjacent
<1>4. ASSUME NEW u \in N, NEW v \in N, NEW w \in N, u # w,
             <<u, v>> \in D \cap U, <<w, v>> \in D \cap U
      PROVE  <<u, w>> \in U
  <2>1. <<u, v>> \notin A /\ <<w, v>> \notin A
    BY <1>1, <1>4
  <2>2. Adjacent(A, U, u, w)
    BY <1>1, <1>4, <2>1
  <2>3. <<v, w>> \in U /\ <<v, u>> \in U
    BY <1>1, <1>4 DEF Lined
  <2>4. ASSUME <<u, w>> \in A PROVE FALSE
    <3>1. <<w, v>> \in U
      BY <1>4
    <3>2. <<u, v>> \in A
      BY <2>4, <3>1, ParentOfLine
    <3> QED
      BY <2>1, <3>2
  <2>5. ASSUME <<w, u>> \in A PROVE FALSE
    <3>1. <<u, v>> \in U
      BY <1>4
    <3>2. <<w, v>> \in A
      BY <2>5, <3>1, ParentOfLine
    <3> QED
      BY <2>1, <3>2
  <2> QED
    BY <2>2, <2>4, <2>5 DEF Adjacent
<1> QED
  BY <1>1, <1>2, <1>3, <1>4 DEF MoralOrientation

(* Any moral orientation of the lines makes with the arcs a DAG equivalent *)
(* to D: no line can close a cycle with arcs, for the arc that enters the   *)
(* one end enters the other.                                                *)
LEMMA MoralOrientationsAreEquivalent ==
    ASSUME NEW N, NEW D, NEW A, NEW U, ClosedPattern(N, D, A, U),
           NEW O, MoralOrientation(N, N, U, O)
    PROVE  A \cup O \in MarkovEquivalent(N, D) /\ Acyclic(N, A \cup O)
<1>1. /\ Lined(N, U) /\ A \subseteq D /\ D \in SUBSET (N \X N) /\ Acyclic(N, D) /\ A \cap U = {}
      /\ \A u, v, w \in N :
          u # w /\ <<u, v>> \in D /\ <<w, v>> \in D /\ ~ Adjacent(D, {}, u, w) => <<u, v>> \in A
      /\ \A u, v \in N : Adjacent(A, U, u, v) <=> Adjacent(D, {}, u, v)
  BY DEF ClosedPattern, Pattern
<1>2. /\ O \in SUBSET (N \X N) /\ O \subseteq U /\ Acyclic(N, O)
      /\ \A u, v \in N : <<u, v>> \in U => <<u, v>> \in O \/ <<v, u>> \in O
      /\ \A u, v, w \in N : <<u, v>> \in O /\ <<w, v>> \in O /\ u # w => <<u, w>> \in U
  BY DEF MoralOrientation
<1>3. \A u, v \in N : <<u, v>> \in U => <<v, u>> \in U
  BY <1>1 DEF Lined
<1> DEFINE B == A \cup O
<1>4. Acyclic(N, B)
  <2> SUFFICES ASSUME NEW S \in (SUBSET N) \ {{}}
               PROVE  \E x \in S : \A y \in S : <<y, x>> \notin B
    BY DEF Acyclic
  <2> DEFINE T == {x \in S : \A y \in S : <<y, x>> \notin A}
  <2>1. Acyclic(N, A)
    BY <1>1, SmallerIsAcyclic
  <2>2. T \in (SUBSET N) \ {{}}
    BY <2>1 DEF Acyclic
  <2>3. PICK x \in T : \A y \in T : <<y, x>> \notin O
    BY <1>2, <2>2 DEF Acyclic
  <2>4. ASSUME NEW y \in S, <<y, x>> \in O PROVE FALSE
    <3>1. PICK z \in S : <<z, y>> \in A
      BY <2>3, <2>4
    <3>2. <<y, x>> \in U /\ x \in N /\ y \in N /\ z \in N
      BY <1>2, <2>4
    <3>3. <<z, x>> \in A
      BY <3>1, <3>2, ParentOfLine
    <3> QED
      BY <2>3, <3>3
  <2> QED
    BY <2>3, <2>4
<1>5. \A u, v \in N : Adjacent(B, {}, u, v) <=> Adjacent(D, {}, u, v)
  <2>1. \A u, v \in N : Adjacent(B, {}, u, v) <=> Adjacent(A, U, u, v)
    BY <1>2, <1>3 DEF Adjacent
  <2> QED
    BY <1>1, <2>1
<1>6. ASSUME NEW u \in N, NEW v \in N, NEW w \in N, u # w, ~ Adjacent(D, {}, u, w)
      PROVE  <<u, v>> \in D /\ <<w, v>> \in D <=> <<u, v>> \in B /\ <<w, v>> \in B
  <2>1. /\ <<u, w>> \notin A /\ <<w, u>> \notin A /\ <<u, w>> \notin U
        /\ ~ Adjacent(D, {}, w, u)
    BY <1>1, <1>6 DEF Adjacent
  <2>2. ASSUME <<u, v>> \in D, <<w, v>> \in D PROVE <<u, v>> \in A /\ <<w, v>> \in A
    BY <1>1, <1>6, <2>1, <2>2
  <2>3. ASSUME <<u, v>> \in A, <<w, v>> \in O PROVE FALSE
    <3>1. <<v, w>> \in U
      BY <1>2, <1>3, <2>3
    <3> QED
      BY <2>1, <2>3, <3>1, ParentOfLine
  <2>4. ASSUME <<u, v>> \in O, <<w, v>> \in A PROVE FALSE
    <3>1. <<v, u>> \in U
      BY <1>2, <1>3, <2>4
    <3> QED
      BY <2>1, <2>4, <3>1, ParentOfLine
  <2>5. ~ (<<u, v>> \in O /\ <<w, v>> \in O)
    BY <1>2, <1>6, <2>1
  <2> QED
    BY <1>1, <2>2, <2>3, <2>4, <2>5
<1>7. B \in SUBSET (N \X N)
  BY <1>1, <1>2
<1> HIDE DEF B
<1>8. B \in MarkovEquivalent(N, D)
  BY <1>1, <1>4, <1>5, <1>6, <1>7, IsEquivalent
<1> QED
  BY <1>4, <1>8 DEF B

(* Arcs that have a reason are in every DAG equivalent to D, and a line goes *)
(* either way in some: a closed pattern is the essential graph of D.        *)
LEMMA ClosedPatternIsEssential ==
    ASSUME NEW N, NEW D, NEW A, NEW U, ClosedPattern(N, D, A, U)
    PROVE  <<A, U>> = Essential(N, D)
<1>1. /\ IsFiniteSet(N) /\ Lined(N, U) /\ U \in SUBSET (N \X N)
      /\ A \subseteq D /\ D \in SUBSET (N \X N) /\ Acyclic(N, D) /\ A \cap U = {}
      /\ \A u, v \in N : Adjacent(A, U, u, v) <=> Adjacent(D, {}, u, v)
  BY DEF ClosedPattern, Pattern, Lined
<1>2. \A u, v \in N : <<u, v>> \in U => <<v, u>> \in U
  BY <1>1 DEF Lined
<1> DEFINE compelled == {a \in D : \A B \in MarkovEquivalent(N, D) : a \in B}
<1>3. A \subseteq compelled
  BY <1>1, ReasonsAreSound DEF ClosedPattern
<1>4. ASSUME NEW a \in D, a \notin A PROVE a \notin compelled /\ a \in U
  <2>1. a[1] \in N /\ a[2] \in N /\ a = <<a[1], a[2]>>
    BY <1>1
  <2>2. Adjacent(A, U, a[1], a[2])
    BY <1>1, <2>1 DEF Adjacent
  <2>3. <<a[2], a[1]>> \notin D
    BY <1>1, <2>1, NoTwoWays
  <2>4. <<a[1], a[2]>> \in U
    BY <1>1, <1>4, <2>1, <2>2, <2>3 DEF Adjacent
  <2>5. <<a[2], a[1]>> \in U
    BY <1>2, <2>1, <2>4
  <2>6. PICK O : MoralOrientation(N, N, U, O) /\ <<a[2], a[1]>> \in O
    <3>1. MoralOrientation(N, N, U, D \cap U)
      BY DrawnLinesAreMoral
    <3> QED
      BY <1>1, <2>1, <2>5, <3>1, OrientFirst
  <2>7. A \cup O \in MarkovEquivalent(N, D) /\ Acyclic(N, A \cup O)
    BY <2>6, MoralOrientationsAreEquivalent
  <2>8. <<a[1], a[2]>> \notin A \cup O
    BY <2>1, <2>6, <2>7, NoTwoWays
  <2> QED
    BY <2>1, <2>4, <2>7, <2>8
<1>5. compelled = A
  BY <1>3, <1>4
<1>6. U = Symmetric(N, Skeleton(D \ A))
  <2>1. ASSUME NEW e \in U PROVE e \in Symmetric(N, Skeleton(D \ A))
    <3>1. e[1] \in N /\ e[2] \in N /\ e = <<e[1], e[2]>> /\ e \in N \X N
      BY <1>1
    <3>2. Adjacent(D, {}, e[1], e[2])
      BY <1>1, <3>1 DEF Adjacent
    <3>3. <<e[2], e[1]>> \in U
      BY <1>2, <3>1
    <3>4. PICK d \in D \ A : d = e \/ d = <<e[2], e[1]>>
      BY <1>1, <3>1, <3>2, <3>3 DEF Adjacent
    <3>5. {e[1], e[2]} = {d[1], d[2]}
      BY <3>1, <3>4
    <3> QED
      BY <3>1, <3>5 DEF Symmetric, Skeleton
  <2>2. ASSUME NEW e \in Symmetric(N, Skeleton(D \ A)) PROVE e \in U
    <3>1. e \in N \X N /\ {e[1], e[2]} \in Skeleton(D \ A)
      BY DEF Symmetric
    <3>2. PICK d \in D \ A : {e[1], e[2]} = {d[1], d[2]}
      BY <3>1 DEF Skeleton
    <3>3. /\ e[1] \in N /\ e[2] \in N /\ e = <<e[1], e[2]>>
          /\ d[1] \in N /\ d[2] \in N /\ d = <<d[1], d[2]>>
      BY <1>1, <3>1
    <3>4. e = d \/ e = <<d[2], d[1]>>
      BY <3>2, <3>3
    <3>5. d \in U
      BY <1>4
    <3>6. <<d[2], d[1]>> \in U
      BY <1>2, <3>3, <3>5
    <3> QED
      BY <3>4, <3>5, <3>6
  <2> QED
    BY <2>1, <2>2
<1> QED
  BY <1>5, <1>6 DEF Essential

--------------------------------------------------------------------------------
(* The lines of an essential graph with the arcs X. *)
Rest(N, D, X) == Symmetric(N, Skeleton(D \ X))

LEMMA RestFacts ==
    ASSUME NEW N, NEW D \in SUBSET (N \X N), Acyclic(N, D), NEW X \in SUBSET D
    PROVE  /\ \A u, v \in N : <<u, v>> \in Rest(N, D, X) <=> <<u, v>> \in D \ X \/ <<v, u>> \in D \ X
           /\ Lined(N, Rest(N, D, X)) /\ X \cap Rest(N, D, X) = {}
           /\ \A u, v \in N : Adjacent(X, Rest(N, D, X), u, v) <=> Adjacent(D, {}, u, v)
<1> DEFINE U == Rest(N, D, X)
<1>1. ASSUME NEW u \in N, NEW v \in N PROVE <<u, v>> \in U <=> <<u, v>> \in D \ X \/ <<v, u>> \in D \ X
  <2>1. <<u, v>> \in U <=> {u, v} \in Skeleton(D \ X)
    BY DEF Rest, Symmetric
  <2>2. ASSUME {u, v} \in Skeleton(D \ X) PROVE <<u, v>> \in D \ X \/ <<v, u>> \in D \ X
    <3>1. PICK d \in D \ X : {u, v} = {d[1], d[2]}
      BY <2>2 DEF Skeleton
    <3>2. d = <<d[1], d[2]>> /\ ((u = d[1] /\ v = d[2]) \/ (u = d[2] /\ v = d[1]))
      BY <3>1
    <3> QED
      BY <3>2
  <2>3. ASSUME NEW d \in D \ X, d = <<u, v>> \/ d = <<v, u>> PROVE {u, v} \in Skeleton(D \ X)
    <3>1. {u, v} = {d[1], d[2]}
      BY <2>3
    <3> QED
      BY <3>1 DEF Skeleton
  <2> QED
    BY <2>1, <2>2, <2>3
<1>2. U \in SUBSET (N \X N)
  BY DEF Rest, Symmetric
<1>3. \A u, v \in N : <<u, v>> \in D => u # v /\ <<v, u>> \notin D
  BY NoTwoWays, NoSelfArcs
<1> HIDE DEF U
<1>4. Lined(N, U)
  BY <1>1, <1>2, <1>3 DEF Lined
<1>5. X \cap U = {}
  <2> SUFFICES ASSUME NEW e \in X, e \in U PROVE FALSE
    OBVIOUS
  <2>1. e[1] \in N /\ e[2] \in N /\ e = <<e[1], e[2]>>
    OBVIOUS
  <2>2. <<e[2], e[1]>> \in D \ X
    BY <1>1, <2>1
  <2> QED
    BY <1>3, <2>1, <2>2
<1>6. \A u, v \in N : Adjacent(X, U, u, v) <=> Adjacent(D, {}, u, v)
  BY <1>1 DEF Adjacent
<1> QED
  BY <1>1, <1>4, <1>5, <1>6 DEF U

(* The arcs of D for which there is a reason, its colliders among them. *)
Reasoned(N, D, X) ==
    /\ Pattern(N, D, X, Rest(N, D, X))
    /\ \A a, b \in N : <<a, b>> \in X => Forced(N, D, X, Rest(N, D, X), a, b)

LEMMA CollidersAreReasoned ==
    ASSUME NEW N, IsFiniteSet(N), NEW D \in SUBSET (N \X N), Acyclic(N, D)
    PROVE  \E X \in SUBSET D : Reasoned(N, D, X)
<1> DEFINE X == {a \in D : \E w \in N : w # a[1] /\ <<w, a[2]>> \in D /\ ~ Adjacent(D, {}, a[1], w)}
           U == Rest(N, D, X)
<1>1. X \in SUBSET D
  OBVIOUS
<1>2. \A u, v \in N : <<u, v>> \in X <=>
          <<u, v>> \in D /\ \E w \in N : w # u /\ <<w, v>> \in D /\ ~ Adjacent(D, {}, u, w)
  OBVIOUS
<1> HIDE DEF X
<1>3. /\ Lined(N, U) /\ X \cap U = {}
      /\ \A u, v \in N : Adjacent(X, U, u, v) <=> Adjacent(D, {}, u, v)
  BY <1>1, RestFacts
<1>4. \A u, v, w \in N :
          u # w /\ <<u, v>> \in D /\ <<w, v>> \in D /\ ~ Adjacent(D, {}, u, w) => <<u, v>> \in X
  BY <1>2
<1>5. Pattern(N, D, X, U)
  BY <1>1, <1>3, <1>4 DEF Pattern
<1>6. ASSUME NEW a \in N, NEW b \in N, <<a, b>> \in X PROVE Forced(N, D, X, U, a, b)
  <2>1. PICK w \in N : w # a /\ <<w, b>> \in D /\ ~ Adjacent(D, {}, a, w)
    BY <1>2, <1>6
  <2>2. <<a, b>> \in D /\ ~ Adjacent(D, {}, w, a)
    BY <1>2, <1>6, <2>1 DEF Adjacent
  <2>3. <<w, b>> \in X /\ ~ Adjacent(X, U, w, a)
    BY <1>3, <1>4, <2>1, <2>2
  <2> QED
    BY <2>1, <2>3 DEF Forced
<1> QED
  BY <1>1, <1>5, <1>6 DEF Reasoned

LEMMA ReasonStands ==
    ASSUME NEW N, NEW D, NEW A, NEW U, NEW B, NEW W, A \subseteq B,
           \A u, v \in N : Adjacent(A, U, u, v) <=> Adjacent(B, W, u, v),
           NEW a \in N, NEW b \in N, Forced(N, D, A, U, a, b)
    PROVE  Forced(N, D, B, W, a, b)
<1>1. \A c : Reaches(N, A, a, c) => Reaches(N, B, a, c)
  BY ReachesInLarger
<1> QED
  BY <1>1, Zenon DEF Forced

(* What a rule asks for can be added. *)
LEMMA OneMoreArc ==
    ASSUME NEW N, NEW D, NEW X, Reasoned(N, D, X), NEW a \in N, NEW b \in N,
           <<a, b>> \in Rest(N, D, X), RuleAsks(N, X, Rest(N, D, X), a, b)
    PROVE  <<a, b>> \in D \ X /\ Reasoned(N, D, X \cup {<<a, b>>})
<1> DEFINE U == Rest(N, D, X)
           Y == X \cup {<<a, b>>}
           W == Rest(N, D, Y)
<1>1. Pattern(N, D, X, U) /\ \A u, v \in N : <<u, v>> \in X => Forced(N, D, X, U, u, v)
  BY DEF Reasoned
<1>2. /\ IsFiniteSet(N) /\ D \in SUBSET (N \X N) /\ Acyclic(N, D) /\ X \subseteq D
      /\ Lined(N, U) /\ X \cap U = {}
      /\ \A u, v \in N : Adjacent(X, U, u, v) <=> Adjacent(D, {}, u, v)
      /\ \A u, v, w \in N :
          u # w /\ <<u, v>> \in D /\ <<w, v>> \in D /\ ~ Adjacent(D, {}, u, w) => <<u, v>> \in X
  BY <1>1 DEF Pattern
<1> HIDE DEF U
<1>3. <<a, b>> \in D /\ <<a, b>> \notin X
  <2>1. <<a, b>> \in U /\ RuleAsks(N, X, U, a, b)
    BY DEF U
  <2>2. <<a, b>> \notin X
    BY <1>2, <2>1
  <2> QED
    BY <1>2, <2>1, <2>2, RuleHolds
<1>4. Forced(N, D, X, U, a, b)
  BY <1>1, RuleIsReason DEF U
<1>5. Y \in SUBSET D
  BY <1>2, <1>3
<1>6. /\ Lined(N, W) /\ Y \cap W = {}
      /\ \A u, v \in N : Adjacent(Y, W, u, v) <=> Adjacent(D, {}, u, v)
  <2> HIDE DEF Y
  <2> QED
    BY <1>2, <1>5, RestFacts
<1>7. Pattern(N, D, Y, W)
  <2>1. \A u, v, w \in N :
          u # w /\ <<u, v>> \in D /\ <<w, v>> \in D /\ ~ Adjacent(D, {}, u, w) => <<u, v>> \in Y
    BY <1>2
  <2> HIDE DEF Y, W
  <2> QED
    BY <1>2, <1>5, <1>6, <2>1 DEF Pattern
<1>8. ASSUME NEW u \in N, NEW v \in N, <<u, v>> \in Y PROVE Forced(N, D, Y, W, u, v)
  <2>1. Forced(N, D, X, U, u, v)
    BY <1>1, <1>4, <1>8
  <2>2. X \subseteq Y
    OBVIOUS
  <2>3. \A x, y \in N : Adjacent(X, U, x, y) <=> Adjacent(Y, W, x, y)
    BY <1>2, <1>6
  <2> HIDE DEF Y, W
  <2> QED
    BY <2>1, <2>2, <2>3, ReasonStands
<1>9. Reasoned(N, D, Y)
  BY <1>7, <1>8 DEF Reasoned
<1> QED
  BY <1>3, <1>9

(* The essential graph of a DAG is a closed pattern: take as many arcs of   *)
(* the DAG as there are reasons for.                                        *)
LEMMA EssentialIsClosed ==
    ASSUME NEW N, IsFiniteSet(N), NEW D \in SUBSET (N \X N), Acyclic(N, D)
    PROVE  \E X : ClosedPattern(N, D, X, Rest(N, D, X)) /\ Essential(N, D) = <<X, Rest(N, D, X)>>
<1> DEFINE all == {X \in SUBSET D : Reasoned(N, D, X)}
           f == [X \in all |-> Cardinality(D \ X)]
<1>1. all # {}
  BY CollidersAreReasoned
<1>2. IsFiniteSet(D)
  <2>1. IsFiniteSet(N \X N)
    BY FS_Product
  <2> QED
    BY <2>1, FS_Subset
<1>3. IsFiniteSet(all)
  <2>1. IsFiniteSet(SUBSET D)
    BY <1>2, FS_SUBSET
  <2> QED
    BY <2>1, FS_Subset
<1>4. \A X \in all : IsFiniteSet(D \ X) /\ Cardinality(D \ X) \in Nat
  BY <1>2, FS_Subset, FS_CardinalityType
<1>5. PICK X \in all : \A Y \in all : Cardinality(D \ X) <= Cardinality(D \ Y)
  <2>1. f \in [all -> Nat]
    BY <1>4
  <2>2. PICK X \in all : \A Y \in all : f[X] <= f[Y]
    <3> HIDE DEF f, all
    <3> QED
      BY <1>1, <1>3, <2>1, SmallestValue
  <2> QED
    BY <2>2
<1>6. X \in SUBSET D /\ Reasoned(N, D, X)
  BY <1>5
<1>7. ASSUME NEW a \in N, NEW b \in N, <<a, b>> \in Rest(N, D, X),
             RuleAsks(N, X, Rest(N, D, X), a, b)
      PROVE  FALSE
  <2> DEFINE Y == X \cup {<<a, b>>}
  <2>1. <<a, b>> \in D \ X /\ Reasoned(N, D, Y)
    BY <1>6, <1>7, OneMoreArc
  <2>2. Y \in all
    BY <1>6, <2>1
  <2>3. D \ Y = (D \ X) \ {<<a, b>>}
    OBVIOUS
  <2>4. Cardinality(D \ Y) = Cardinality(D \ X) - 1
    <3>1. IsFiniteSet(D \ X)
      BY <1>4
    <3> HIDE DEF all, f, Y
    <3> QED
      BY <2>1, <2>3, <3>1, FS_RemoveElement
  <2>5. Cardinality(D \ X) <= Cardinality(D \ Y) /\ Cardinality(D \ X) \in Nat
    BY <1>4, <1>5, <2>2
  <2> QED
    BY <2>4, <2>5
<1>8. ClosedPattern(N, D, X, Rest(N, D, X))
  BY <1>6, <1>7 DEF Reasoned, ClosedPattern
<1> QED
  BY <1>8, ClosedPatternIsEssential
================================================================================

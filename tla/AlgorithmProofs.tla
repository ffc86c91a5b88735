--------------------------- MODULE AlgorithmProofs ---------------------------
(***************************************************************************)
(* That the pure algorithms answer as they should, for any numbers of      *)
(* slots, rows, viewers and characters: what is on and what the EPG lists, *)
(* the shares of viewers, the dashboard's top content, the published       *)
(* catalog, and the pieces of a filter.  ContentProofs concludes it of the *)
(* specification.                                                          *)
(***************************************************************************)
EXTENDS Algorithms, FiniteSetTheorems, TLAPS

----------------------------------------------------------------------------
(* Places in a finite order *)

\* In S, B[x] are the members that go before x.
Ordered(S, B) ==
  /\ IsFiniteSet(S) /\ B \in [S -> SUBSET S]
  /\ \A x \in S : x \notin B[x]
  /\ \A x, y \in S : x # y => x \in B[y] \/ y \in B[x]
  /\ \A x, y \in S : x \in B[y] => B[x] \in SUBSET B[y]

\* They are 0, 1, 2, ... in number.
Ranked(S, B) ==
  /\ Cardinality(S) \in Nat
  /\ \A x \in S : Cardinality(B[x]) \in 0..(Cardinality(S) - 1)
  /\ \A x, y \in S : x \in B[y] => Cardinality(B[x]) < Cardinality(B[y])
  /\ \A x, y \in S : Cardinality(B[x]) = Cardinality(B[y]) => x = y
  /\ \A k \in 0..(Cardinality(S) - 1) : \E x \in S : Cardinality(B[x]) = k

\* In a finite order the places are 0, 1, 2, ..., each taken once.
LEMMA Places == ASSUME NEW S, NEW B, Ordered(S, B) PROVE Ranked(S, B)
<1> USE DEF Ordered
<1> DEFINE n == Cardinality(S)
           rank == [x \in S |-> Cardinality(B[x])]
<1>1. n \in Nat
    BY FS_CardinalityType
<1>2. \A x \in S : /\ IsFiniteSet(B[x]) /\ Cardinality(B[x]) \in Nat
                   /\ Cardinality(B[x]) <= n - 1
  <2> SUFFICES ASSUME NEW x \in S
               PROVE  /\ IsFiniteSet(B[x]) /\ Cardinality(B[x]) \in Nat
                      /\ Cardinality(B[x]) <= n - 1
      OBVIOUS
  <2>1. B[x] \in SUBSET (S \ {x})
      OBVIOUS
  <2>2. IsFiniteSet(S \ {x}) /\ Cardinality(S \ {x}) = n - 1
      BY FS_RemoveElement
  <2>3. IsFiniteSet(B[x]) /\ Cardinality(B[x]) <= Cardinality(S \ {x})
      BY <2>1, <2>2, FS_Subset
  <2>4. Cardinality(B[x]) \in Nat
      BY <2>3, FS_CardinalityType
  <2> QED BY <2>2, <2>3, <2>4
<1>3. \A x, y \in S : x \in B[y] => Cardinality(B[x]) < Cardinality(B[y])
  <2> SUFFICES ASSUME NEW x \in S, NEW y \in S, x \in B[y]
               PROVE  Cardinality(B[x]) < Cardinality(B[y])
      OBVIOUS
  <2>1. B[x] \cup {x} \in SUBSET B[y] /\ x \notin B[x]
      OBVIOUS
  <2>2. Cardinality(B[x] \cup {x}) = Cardinality(B[x]) + 1
      BY <1>2, <2>1, FS_AddElement
  <2>3. Cardinality(B[x] \cup {x}) <= Cardinality(B[y])
      BY <1>2, <2>1, FS_Subset
  <2> QED BY <1>2, <2>2, <2>3
<1>4. \A x, y \in S : Cardinality(B[x]) = Cardinality(B[y]) => x = y
  <2> SUFFICES ASSUME NEW x \in S, NEW y \in S, x # y
               PROVE  Cardinality(B[x]) # Cardinality(B[y])
      OBVIOUS
  <2>1. x \in B[y] \/ y \in B[x]
      OBVIOUS
  <2> QED BY <1>2, <1>3, <2>1
<1>5. rank \in Injection(S, 0..(n - 1))
  <2>1. rank \in [S -> 0..(n - 1)]
      BY <1>1, <1>2
  <2>2. IsInjective(rank)
      BY <1>4 DEF IsInjective
  <2> HIDE DEF rank
  <2> QED BY <2>1, <2>2 DEF Injection
<1>6. IsFiniteSet(0..(n - 1)) /\ Cardinality(0..(n - 1)) = n
  <2>1. 0 \in Int /\ n - 1 \in Int
      BY <1>1
  <2>2. IsFiniteSet(0..(n - 1)) /\ Cardinality(0..(n - 1)) = IF 0 > n - 1 THEN 0 ELSE n - 1 - 0 + 1
      BY <2>1, FS_Interval
  <2> QED BY <1>1, <2>2
<1>7. rank \in Surjection(S, 0..(n - 1))
  <2> HIDE DEF rank, n
  <2>1. Cardinality(S) = Cardinality(0..(n - 1))
      BY <1>6 DEF n
  <2> QED BY <1>5, <1>6, <2>1, FS_Injection
<1>8. \A k \in 0..(n - 1) : \E x \in S : rank[x] = k
  <2> HIDE DEF rank, n
  <2> QED BY <1>7 DEF Surjection
<1>9. /\ \A x \in S : Cardinality(B[x]) \in 0..(n - 1)
      /\ \A k \in 0..(n - 1) : \E x \in S : Cardinality(B[x]) = k
    BY <1>1, <1>2, <1>8
<1> HIDE DEF rank, n
<1> QED BY <1>1, <1>3, <1>4, <1>9 DEF n, Ranked

\* The same of numbers.
LEMMA RanksAreInterval ==
  ASSUME NEW S \in SUBSET Int, IsFiniteSet(S)
  PROVE  /\ Cardinality(S) \in Nat
         /\ \A x \in S : Cardinality({e \in S : e < x}) \in 0..(Cardinality(S) - 1)
         /\ \A x, y \in S : x < y => Cardinality({e \in S : e < x}) < Cardinality({e \in S : e < y})
         /\ \A x, y \in S : Cardinality({e \in S : e < x}) = Cardinality({e \in S : e < y}) => x = y
         /\ \A k \in 0..(Cardinality(S) - 1) : \E x \in S : Cardinality({e \in S : e < x}) = k
<1> DEFINE Below(x) == {e \in S : e < x}
<1>1. PICK B \in [S -> SUBSET S] : \A x \in S : B[x] = Below(x)
  <2> DEFINE F == [x \in S |-> Below(x)]
  <2> WITNESS F \in [S -> SUBSET S]
  <2> QED OBVIOUS
<1>2. \A x, y \in S : x \in Below(y) <=> x < y
    OBVIOUS
<1>4. \A x, y \in S : x < y => Below(x) \in SUBSET Below(y)
  <2>1. \A e, x, y \in S : e < x /\ x < y => e < y
      OBVIOUS
  <2> QED BY <2>1
<1> HIDE DEF Below
<1>3. \A x \in S : x \notin B[x]
    BY <1>1, <1>2
<1>5. \A x, y \in S : x # y => x \in B[y] \/ y \in B[x]
    BY <1>1, <1>2
<1>6. \A x, y \in S : x \in B[y] => B[x] \in SUBSET B[y]
    BY <1>1, <1>2, <1>4
<1>7. Ranked(S, B)
  <2>1. Ordered(S, B)
      BY <1>3, <1>5, <1>6 DEF Ordered
  <2> QED BY <2>1, Places
<1>8. /\ \A x \in S : Cardinality(Below(x)) \in 0..(Cardinality(S) - 1)
      /\ \A x, y \in S : x < y => Cardinality(Below(x)) < Cardinality(Below(y))
      /\ \A x, y \in S : Cardinality(Below(x)) = Cardinality(Below(y)) => x = y
      /\ \A k \in 0..(Cardinality(S) - 1) : \E x \in S : Cardinality(Below(x)) = k
    BY <1>1, <1>2, <1>7 DEF Ranked
<1> QED BY <1>7, <1>8 DEF Below, Ranked

\* A finite set of numbers that has a member has a least one.
LEMMA LeastNumber ==
  ASSUME NEW S \in SUBSET Int, IsFiniteSet(S), S # {}
  PROVE  \E i \in S : \A j \in S : i <= j
<1>1. Cardinality(S) \in Nat /\ Cardinality(S) # 0
    BY FS_CardinalityType, FS_EmptySet
<1>2. PICK i \in S : Cardinality({e \in S : e < i}) = 0
    BY <1>1, RanksAreInterval
<1>3. {e \in S : e < i} = {}
    BY <1>2, FS_Subset, FS_EmptySet
<1> QED BY <1>3

----------------------------------------------------------------------------
(* Selections *)

\* What is picked is what stands at the positions, in order.
LEMMA PickIs ==
  ASSUME NEW s, NEW I \in SUBSET Int, IsFiniteSet(I)
  PROVE  LET n == Cardinality(I)
             At(i) == 1 + Cardinality({j \in I : j < i})
         IN  /\ n \in Nat /\ DOMAIN Pick(s, I) = 1..n /\ Len(Pick(s, I)) = n
             /\ \A i \in I : At(i) \in 1..n /\ Pick(s, I)[At(i)] = s[i]
             /\ \A i, j \in I : i < j => At(i) < At(j)
             /\ \A k \in 1..n : \E i \in I : At(i) = k /\ Pick(s, I)[k] = s[i]
<1> DEFINE n == Cardinality(I)
           r(i) == Cardinality({j \in I : j < i})
           p == Pick(s, I)
           pos(k) == CHOOSE i \in I : r(i) = k - 1
<1>1. /\ n \in Nat
      /\ \A i \in I : r(i) \in 0..(n - 1)
      /\ \A i, j \in I : i < j => r(i) < r(j)
      /\ \A i, j \in I : r(i) = r(j) => i = j
      /\ \A k \in 0..(n - 1) : \E i \in I : r(i) = k
    BY RanksAreInterval
<1>2. p = [k \in 1..n |-> s[pos(k)]]
    BY DEF Pick
<1> HIDE DEF r, n, p
<1>3. \A k \in 1..n : k - 1 \in 0..(n - 1)
    BY <1>1
<1>4. \A k \in 1..n : pos(k) \in I /\ r(pos(k)) = k - 1
    BY <1>1, <1>3
<1>5. \A i \in I : r(i) + 1 \in 1..n /\ pos(r(i) + 1) = i
  <2> SUFFICES ASSUME NEW i \in I PROVE r(i) + 1 \in 1..n /\ pos(r(i) + 1) = i
      OBVIOUS
  <2>1. r(i) + 1 \in 1..n /\ r(i) + 1 - 1 = r(i)
      BY <1>1
  <2> HIDE DEF pos
  <2>2. pos(r(i) + 1) \in I /\ r(pos(r(i) + 1)) = r(i)
    <3> DEFINE k == r(i) + 1
    <3>1. k \in 1..n
        BY <2>1
    <3> HIDE DEF k
    <3>2. pos(k) \in I /\ r(pos(k)) = k - 1
        BY <1>4, <3>1
    <3>3. k - 1 = r(i)
        BY <1>1, <2>1 DEF k
    <3> QED BY <3>2, <3>3 DEF k
  <2>3. pos(r(i) + 1) = i
      BY <1>1, <2>2
  <2> QED BY <2>1, <2>3
<1> HIDE DEF pos
<1>6. DOMAIN p = 1..n /\ Len(p) = n
    BY <1>1, <1>2
<1>7. \A i \in I : 1 + r(i) \in 1..n /\ p[1 + r(i)] = s[i]
  <2>1. \A i \in I : 1 + r(i) = r(i) + 1
      BY <1>1
  <2> QED BY <1>2, <1>5, <2>1
<1>8. \A i, j \in I : i < j => 1 + r(i) < 1 + r(j)
    BY <1>1
<1>9. \A k \in 1..n : \E i \in I : 1 + r(i) = k /\ p[k] = s[i]
  <2> SUFFICES ASSUME NEW k \in 1..n PROVE \E i \in I : 1 + r(i) = k /\ p[k] = s[i]
      OBVIOUS
  <2>1. pos(k) \in I /\ 1 + r(pos(k)) = k /\ p[k] = s[pos(k)]
      BY <1>1, <1>2, <1>4
  <2> QED BY <2>1
<1> QED BY <1>1, <1>6, <1>7, <1>8, <1>9 DEF r, n, p

\* What is picked of a sequence is a sequence of such members.
LEMMA PickType ==
  ASSUME NEW T, NEW s \in Seq(T), NEW I \in SUBSET DOMAIN s
  PROVE  /\ IsFiniteSet(I) /\ I \in SUBSET Int
         /\ Pick(s, I) \in Seq(T)
         /\ \A i \in I : \E k \in DOMAIN Pick(s, I) : Pick(s, I)[k] = s[i]
         /\ \A k \in DOMAIN Pick(s, I) : \E i \in I : Pick(s, I)[k] = s[i]
<1>1. IsFiniteSet(I) /\ I \in SUBSET Int
  <2>1. DOMAIN s = 1..Len(s) /\ Len(s) \in Nat
      OBVIOUS
  <2>2. IsFiniteSet(1..Len(s))
      BY <2>1, FS_Interval
  <2> QED BY <2>1, <2>2, FS_Subset
<1> DEFINE n == Cardinality(I)
           At(i) == 1 + Cardinality({j \in I : j < i})
           p == Pick(s, I)
<1>2. /\ n \in Nat /\ DOMAIN p = 1..n /\ Len(p) = n
      /\ \A i \in I : At(i) \in 1..n /\ p[At(i)] = s[i]
      /\ \A k \in 1..n : \E i \in I : At(i) = k /\ p[k] = s[i]
    BY <1>1, PickIs
<1>3. p = [k \in 1..n |-> p[k]]
    BY DEF Pick
<1> HIDE DEF n, At, p
<1>4. \A k \in 1..n : p[k] \in T
    BY <1>2
<1>5. p \in Seq(T)
    BY <1>2, <1>3, <1>4
<1> QED BY <1>1, <1>2, <1>5 DEF p

----------------------------------------------------------------------------
(* Folds *)

\* What grows one by one from the empty set includes every part of a finite set.
LEMMA PartByPart ==
  ASSUME NEW S, IsFiniteSet(S), NEW Good \in SUBSET SUBSET S,
         \A s \in SUBSET S : (\A x \in s : s \ {x} \in Good) => s \in Good
  PROVE  Good = SUBSET S
<1> SUFFICES ASSUME NEW t \in SUBSET S, t \notin Good PROVE FALSE
    OBVIOUS
<1> DEFINE Bad == {k \in 0..Cardinality(S) : \E s \in SUBSET S : s \notin Good /\ Cardinality(s) = k}
<1>1. \A s \in SUBSET S : IsFiniteSet(s) /\ Cardinality(s) \in 0..Cardinality(S)
  <2> SUFFICES ASSUME NEW s \in SUBSET S PROVE IsFiniteSet(s) /\ Cardinality(s) \in 0..Cardinality(S)
      OBVIOUS
  <2>1. IsFiniteSet(s) /\ Cardinality(s) <= Cardinality(S)
      BY FS_Subset
  <2> QED BY <2>1, FS_CardinalityType
<1>2. Bad \in SUBSET Int /\ IsFiniteSet(Bad) /\ Bad # {}
  <2>1. Cardinality(t) \in Bad
      BY <1>1
  <2>2. Cardinality(S) \in Int
      BY FS_CardinalityType
  <2>3. IsFiniteSet(0..Cardinality(S))
      BY <2>2, FS_Interval
  <2>4. Bad \in SUBSET (0..Cardinality(S))
      OBVIOUS
  <2> QED BY <2>1, <2>2, <2>3, <2>4, FS_Subset
<1>3. PICK k \in Bad : \A j \in Bad : k <= j
  <2> HIDE DEF Bad
  <2> QED BY <1>2, LeastNumber
<1>4. PICK s \in SUBSET S : s \notin Good /\ Cardinality(s) = k
    OBVIOUS
<1>5. \A x \in s : s \ {x} \in Good
  <2> SUFFICES ASSUME NEW x \in s, s \ {x} \notin Good PROVE FALSE
      OBVIOUS
  <2>1. Cardinality(s \ {x}) = Cardinality(s) - 1
      BY <1>1, FS_RemoveElement
  <2>2. Cardinality(s \ {x}) \in Bad
      BY <1>1
  <2>3. k \in Int
      BY <1>2
  <2> QED BY <1>3, <1>4, <2>1, <2>2, <2>3
<1> QED BY <1>4, <1>5

\* The recursion over the parts of S that takes c[s] from s first.
Recurs(it, S, base, c, G) ==
  \A s \in SUBSET S : it[s] = IF s = {} THEN base ELSE G[c[s]][it[s \ {c[s]}]]

Recursion(S, V, base, c, G) ==
  /\ base \in V /\ G \in [S -> [V -> V]]
  /\ \A s \in SUBSET S : s # {} => c[s] \in s

\* A recursion over the parts of a finite set, one member at a time, has a solution.
LEMMA FoldExists ==
  ASSUME NEW S, IsFiniteSet(S), NEW V, NEW base, NEW c, NEW G, Recursion(S, V, base, c, G)
  PROVE  \E it \in [SUBSET S -> V] : Recurs(it, S, base, c, G)
<1>0. /\ base \in V /\ G \in [S -> [V -> V]]
      /\ \A s \in SUBSET S : s # {} => c[s] \in s
    BY DEF Recursion
<1> DEFINE Solves(it, k) ==
             \A s \in SUBSET S : Cardinality(s) <= k =>
               it[s] = IF s = {} THEN base ELSE G[c[s]][it[s \ {c[s]}]]
           n == Cardinality(S)
           Bad == {k \in 0..n : ~ \E it \in [SUBSET S -> V] : Solves(it, k)}
<1>1. \A s \in SUBSET S : IsFiniteSet(s) /\ Cardinality(s) \in 0..n
  <2> SUFFICES ASSUME NEW s \in SUBSET S PROVE IsFiniteSet(s) /\ Cardinality(s) \in 0..n
      OBVIOUS
  <2>1. IsFiniteSet(s) /\ Cardinality(s) <= Cardinality(S)
      BY FS_Subset
  <2> QED BY <2>1, FS_CardinalityType
<1>2. n \in Nat
    BY FS_CardinalityType
<1>3. Bad = {}
  <2> SUFFICES ASSUME Bad # {} PROVE FALSE
      OBVIOUS
  <2>1. Bad \in SUBSET (0..n) /\ IsFiniteSet(Bad)
    <3>1. Bad \in SUBSET (0..n) /\ IsFiniteSet(0..n)
        BY <1>2, FS_Interval
    <3> HIDE DEF Bad
    <3> QED BY <3>1, FS_Subset
  <2>2. PICK k \in Bad : \A j \in Bad : k <= j
    <3> HIDE DEF Bad
    <3>1. Bad \in SUBSET Int
        BY <1>2, <2>1
    <3> QED BY <2>1, <3>1, LeastNumber
  <2>3. k \in 0..n /\ ~ \E it \in [SUBSET S -> V] : Solves(it, k)
      OBVIOUS
  <2>4. CASE k = 0
    <3> DEFINE it == [s \in SUBSET S |-> base]
    <3>1. it \in [SUBSET S -> V]
        BY <1>0
    <3>2. \A s \in SUBSET S : Cardinality(s) <= 0 => s = {} /\ it[s] = base
        BY <1>1, FS_EmptySet
    <3>3. Solves(it, k)
        BY <2>4, <3>2
    <3> HIDE DEF it, Solves
    <3> QED BY <2>3, <3>1, <3>3
  <2>5. CASE k # 0
    <3>1. k - 1 \in 0..n /\ k - 1 \notin Bad
      <4> HIDE DEF Bad
      <4>1. k \in Int /\ \A j \in Bad : j \in Int
          BY <1>2, <2>1
      <4> QED BY <1>2, <2>2, <2>3, <2>5, <4>1
    <3>2. PICK old \in [SUBSET S -> V] : Solves(old, k - 1)
        BY <3>1
    <3> DEFINE it == [s \in SUBSET S |-> IF Cardinality(s) = k THEN G[c[s]][old[s \ {c[s]}]] ELSE old[s]]
    <3>3. \A s \in SUBSET S : s # {} => /\ c[s] \in s /\ c[s] \in S /\ s \ {c[s]} \in SUBSET S
                                        /\ Cardinality(s \ {c[s]}) = Cardinality(s) - 1
      <4> SUFFICES ASSUME NEW s \in SUBSET S, s # {}
                   PROVE  /\ c[s] \in s /\ c[s] \in S /\ s \ {c[s]} \in SUBSET S
                          /\ Cardinality(s \ {c[s]}) = Cardinality(s) - 1
          OBVIOUS
      <4> QED BY <1>0, <1>1, FS_RemoveElement
    <3>4. \A s \in SUBSET S : Cardinality(s) = k => s # {}
        BY <2>5, FS_EmptySet
    <3>5. it \in [SUBSET S -> V]
      <4> SUFFICES ASSUME NEW s \in SUBSET S PROVE (IF Cardinality(s) = k THEN G[c[s]][old[s \ {c[s]}]] ELSE old[s]) \in V
          OBVIOUS
      <4>1. CASE Cardinality(s) = k
        <5>1. c[s] \in S /\ old[s \ {c[s]}] \in V
            BY <3>3, <3>4, <4>1
        <5> QED BY <1>0, <4>1, <5>1
      <4> QED BY <4>1
    <3>6. Solves(it, k)
      <4> SUFFICES ASSUME NEW s \in SUBSET S, Cardinality(s) <= k
                   PROVE  it[s] = IF s = {} THEN base ELSE G[c[s]][it[s \ {c[s]}]]
          OBVIOUS
      <4>1. Cardinality(s) \in Int /\ k \in Int /\ s \ {c[s]} \in SUBSET S
          BY <1>1, <1>2, <2>3
      <4>2. s # {} => it[s \ {c[s]}] = old[s \ {c[s]}]
        <5>1. s # {} => Cardinality(s \ {c[s]}) # k
            BY <3>3, <4>1
        <5> QED BY <4>1, <5>1
      <4>3. CASE Cardinality(s) = k
          BY <3>4, <4>2, <4>3
      <4>4. CASE Cardinality(s) # k
        <5>1. it[s] = old[s] /\ Cardinality(s) <= k - 1
            BY <4>1, <4>4
        <5>2. old[s] = IF s = {} THEN base ELSE G[c[s]][old[s \ {c[s]}]]
            BY <3>2, <5>1
        <5> QED BY <4>2, <5>1, <5>2
      <4> QED BY <4>3, <4>4
    <3> HIDE DEF it, Solves
    <3> QED BY <2>3, <3>5, <3>6
  <2> QED BY <2>4, <2>5
<1>4. PICK it \in [SUBSET S -> V] : Solves(it, n)
  <2>1. n \in 0..n
      BY <1>2
  <2> QED BY <1>3, <2>1
<1>5. \A s \in SUBSET S : it[s] = IF s = {} THEN base ELSE G[c[s]][it[s \ {c[s]}]]
  <2> SUFFICES ASSUME NEW s \in SUBSET S
               PROVE  it[s] = IF s = {} THEN base ELSE G[c[s]][it[s \ {c[s]}]]
      OBVIOUS
  <2>1. Cardinality(s) <= n
      BY <1>1, <1>2
  <2> QED BY <1>4, <2>1
<1> QED BY <1>5 DEF Recurs

----------------------------------------------------------------------------
(* Sums *)

\* The sum of all the f[x].
Total(f) == FoldFunction(+, 0, f)

\* sum[s] is what the f[x] for x in s come to.
Sums(f, sum) ==
  /\ sum \in [SUBSET DOMAIN f -> Int]
  /\ sum[{}] = 0
  /\ \A s \in SUBSET DOMAIN f : \A x \in s : sum[s] = f[x] + sum[s \ {x}]
  /\ Total(f) = sum[DOMAIN f]

\* The sum of numbers over a finite set is the function of its parts that Sums says.
LEMMA SumsExist ==
  ASSUME NEW S, IsFiniteSet(S), NEW f \in [S -> Int]
  PROVE  \E sum : Sums(f, sum)
<1> DEFINE first(s) == CHOOSE x \in s : TRUE
           Iter(iter) == iter = [s \in SUBSET S |-> IF s = {} THEN 0 ELSE f[first(s)] + iter[s \ {first(s)}]]
           sum == CHOOSE iter : Iter(iter)
<1>1. \A s \in SUBSET S : s # {} => first(s) \in s
    OBVIOUS
<1>2. \E iter : Iter(iter)
  <2> DEFINE c == [s \in SUBSET S |-> first(s)]
             G == [x \in S |-> [v \in Int |-> f[x] + v]]
  <2>1. G \in [S -> [Int -> Int]] /\ \A x \in S, v \in Int : G[x][v] = f[x] + v
      OBVIOUS
  <2>2. \A s \in SUBSET S : c[s] = first(s)
      OBVIOUS
  <2> HIDE DEF c, G, first
  <2>3. \A s \in SUBSET S : s # {} => c[s] \in s
      BY <1>1, <2>2
  <2>4. PICK it \in [SUBSET S -> Int] : Recurs(it, S, 0, c, G)
    <3>1. Recursion(S, Int, 0, c, G)
        BY <2>1, <2>3 DEF Recursion
    <3> QED BY <3>1, FoldExists
  <2>5. \A s \in SUBSET S : it[s] = IF s = {} THEN 0 ELSE f[first(s)] + it[s \ {first(s)}]
    <3> SUFFICES ASSUME NEW s \in SUBSET S, s # {}
                 PROVE  it[s] = f[first(s)] + it[s \ {first(s)}]
        BY <2>4 DEF Recurs
    <3>1. c[s] = first(s) /\ first(s) \in S /\ s \ {c[s]} \in SUBSET S
        BY <1>1, <2>2
    <3>2. it[s] = G[c[s]][it[s \ {c[s]}]]
        BY <2>4 DEF Recurs
    <3> QED BY <2>1, <3>1, <3>2
  <2>6. it = [s \in SUBSET S |-> IF s = {} THEN 0 ELSE f[first(s)] + it[s \ {first(s)}]]
      BY <2>5
  <2> QED BY <2>6
<1>3. Iter(sum)
  <2> HIDE DEF Iter
  <2> QED BY <1>2
<1>4. Total(f) = sum[S]
  <2>1. DOMAIN f = S
      OBVIOUS
  <2> QED BY <2>1, Zenon DEF Total, FoldFunction, FoldFunctionOnSet, MapThenFoldSet
<1> HIDE DEF sum
<1>5. \A s \in SUBSET S : sum[s] = IF s = {} THEN 0 ELSE f[first(s)] + sum[s \ {first(s)}]
  <2> HIDE DEF first
  <2> QED BY <1>3
<1> HIDE DEF first
<1>6. \A s \in SUBSET S : sum[s] \in Int
  <2> DEFINE Good == {s \in SUBSET S : sum[s] \in Int}
  <2>1. \A s \in SUBSET S : (\A x \in s : s \ {x} \in Good) => s \in Good
    <3> SUFFICES ASSUME NEW s \in SUBSET S, \A x \in s : s \ {x} \in Good PROVE sum[s] \in Int
        OBVIOUS
    <3>1. CASE s # {}
      <4>1. first(s) \in s /\ sum[s] = f[first(s)] + sum[s \ {first(s)}]
          BY <1>1, <1>5, <3>1
      <4> QED BY <4>1
    <3>2. CASE s = {}
      <4>1. sum[s] = IF s = {} THEN 0 ELSE f[first(s)] + sum[s \ {first(s)}]
          BY <1>5
      <4>2. sum[s] = 0
          BY <3>2, <4>1
      <4> QED BY <4>2
    <3> QED BY <3>1, <3>2
  <2>2. Good \in SUBSET SUBSET S
      OBVIOUS
  <2>3. Good = SUBSET S
    <3> HIDE DEF Good
    <3> QED BY <2>1, <2>2, PartByPart
  <2> QED BY <2>3
<1> DEFINE Good == {s \in SUBSET S : \A x \in s : sum[s] = f[x] + sum[s \ {x}]}
<1>7. Good = SUBSET S
  <2>1. \A s \in SUBSET S : (\A x \in s : s \ {x} \in Good) => s \in Good
    <3> SUFFICES ASSUME NEW s \in SUBSET S, \A x \in s : s \ {x} \in Good, NEW x \in s
                 PROVE  sum[s] = f[x] + sum[s \ {x}]
        OBVIOUS
    <3> DEFINE c == first(s)
    <3>1. c \in s /\ c \in S /\ sum[s] = f[c] + sum[s \ {c}]
        BY <1>1, <1>5
    <3> HIDE DEF c
    <3>2. CASE x # c
      <4> DEFINE u == sum[(s \ {x}) \ {c}]
      <4>1. (s \ {c}) \ {x} = (s \ {x}) \ {c}
          OBVIOUS
      <4>2. sum[s \ {c}] = f[x] + u
          BY <3>1, <3>2, <4>1
      <4>3. sum[s \ {x}] = f[c] + u
          BY <3>1, <3>2
      <4>4. u \in Int
        <5>1. (s \ {x}) \ {c} \in SUBSET S
            OBVIOUS
        <5> QED BY <1>6, <5>1
      <4>5. f[x] \in Int /\ f[c] \in Int
          BY <3>1
      <4> HIDE DEF u
      <4> QED BY <3>1, <4>2, <4>3, <4>4, <4>5
    <3> QED BY <3>1, <3>2
  <2>2. Good \in SUBSET SUBSET S
      OBVIOUS
  <2> HIDE DEF Good
  <2> QED BY <2>1, <2>2, PartByPart
<1>8. sum \in [SUBSET S -> Int]
    BY <1>3, <1>6
<1>9. DOMAIN f = S
    OBVIOUS
<1> QED BY <1>4, <1>5, <1>7, <1>8, <1>9 DEF Sums

\* Sums over the same set compare as their summands do: with factors, and with
\* one more of each on the right.
LEMMA SumsCompare ==
  ASSUME NEW S, IsFiniteSet(S), NEW f \in [S -> Int], NEW g \in [S -> Int],
         NEW F, Sums(f, F), NEW H, Sums(g, H), NEW a \in Int, NEW b \in Int, NEW e \in Int,
         \A x \in S : a * f[x] <= b * g[x] + e
  PROVE  a * F[S] <= b * H[S] + e * Cardinality(S)
<1> DEFINE Good == {s \in SUBSET S : a * F[s] <= b * H[s] + e * Cardinality(s)}
<1>1. /\ F \in [SUBSET S -> Int] /\ F[{}] = 0
      /\ \A s \in SUBSET S : \A x \in s : F[s] = f[x] + F[s \ {x}]
      /\ H \in [SUBSET S -> Int] /\ H[{}] = 0
      /\ \A s \in SUBSET S : \A x \in s : H[s] = g[x] + H[s \ {x}]
    BY DEF Sums
<1>2. \A s \in SUBSET S : (\A x \in s : s \ {x} \in Good) => s \in Good
  <2> SUFFICES ASSUME NEW s \in SUBSET S, \A x \in s : s \ {x} \in Good
               PROVE  a * F[s] <= b * H[s] + e * Cardinality(s)
      OBVIOUS
  <2>1. CASE s = {}
    <3>1. F[s] = 0 /\ H[s] = 0 /\ Cardinality(s) = 0
        BY <1>1, <2>1, FS_EmptySet
    <3> QED BY <3>1
  <2>2. ASSUME NEW x \in s PROVE a * F[s] <= b * H[s] + e * Cardinality(s)
    <3> DEFINE u == F[s \ {x}]
               v == H[s \ {x}]
               n == Cardinality(s \ {x})
    <3>1. a * u <= b * v + e * n
        BY <2>2
    <3>2. F[s] = f[x] + u /\ H[s] = g[x] + v
        BY <1>1
    <3>3. Cardinality(s) = n + 1 /\ n \in Int
      <4>1. IsFiniteSet(s)
          BY FS_Subset
      <4>2. n = Cardinality(s) - 1 /\ Cardinality(s) \in Nat
          BY <4>1, FS_RemoveElement, FS_CardinalityType
      <4> HIDE DEF n
      <4> QED BY <4>2
    <3>4. u \in Int /\ v \in Int /\ f[x] \in Int /\ g[x] \in Int
      <4>1. s \ {x} \in SUBSET S /\ x \in S
          OBVIOUS
      <4> QED BY <1>1, <4>1
    <3>5. a * f[x] <= b * g[x] + e
        OBVIOUS
    <3> HIDE DEF u, v, n
    <3>6. a * (f[x] + u) = a * f[x] + a * u
        BY <3>4
    <3>7. b * (g[x] + v) = b * g[x] + b * v
        BY <3>4
    <3>8. e * (n + 1) = e + e * n
        BY <3>3
    <3> DEFINE af == a * f[x]
               bg == b * g[x]
               au == a * u
               bv == b * v
               en == e * n
    <3>9. af \in Int /\ bg \in Int /\ au \in Int /\ bv \in Int /\ en \in Int
        BY <3>3, <3>4
    <3>10. au <= bv + en /\ af <= bg + e
        BY <3>1, <3>5
    <3>11. /\ a * F[s] = af + au /\ b * H[s] = bg + bv
           /\ e * Cardinality(s) = e + en
        BY <3>2, <3>3, <3>6, <3>7, <3>8
    <3> HIDE DEF af, bg, au, bv, en
    <3> QED BY <3>9, <3>10, <3>11
  <2> QED BY <2>1, <2>2
<1>3. Good = SUBSET S
  <2>1. Good \in SUBSET SUBSET S
      OBVIOUS
  <2> HIDE DEF Good
  <2> QED BY <1>2, <2>1, PartByPart
<1> QED BY <1>3

\* Of numbers that are not negative, some come to no more than all.
LEMMA SumOfPart ==
  ASSUME NEW S, IsFiniteSet(S), NEW f \in [S -> Nat], NEW F, Sums(f, F), NEW t \in SUBSET S
  PROVE  F[t] <= F[S] /\ F[t] \in Int /\ F[S] \in Int
<1> DEFINE Good == {s \in SUBSET S : \A r \in SUBSET s : F[r] <= F[s]}
<1>1. /\ F \in [SUBSET S -> Int]
      /\ \A s \in SUBSET S : \A x \in s : F[s] = f[x] + F[s \ {x}]
    BY DEF Sums
<1>2. \A s \in SUBSET S : (\A x \in s : s \ {x} \in Good) => s \in Good
  <2> SUFFICES ASSUME NEW s \in SUBSET S, \A x \in s : s \ {x} \in Good, NEW r \in SUBSET s
               PROVE  F[r] <= F[s]
      OBVIOUS
  <2>1. F[r] \in Int /\ F[s] \in Int
    <3>1. r \in SUBSET S
        OBVIOUS
    <3> QED BY <1>1, <3>1
  <2>2. CASE r = s
      BY <2>1, <2>2
  <2>3. CASE r # s
    <3>1. PICK x \in s : x \notin r
        BY <2>3
    <3>2. F[r] <= F[s \ {x}]
      <4>1. r \in SUBSET (s \ {x})
          BY <3>1
      <4> QED BY <4>1
    <3>3. F[s] = f[x] + F[s \ {x}] /\ f[x] \in Nat /\ F[s \ {x}] \in Int
      <4>1. s \ {x} \in SUBSET S /\ x \in S
          OBVIOUS
      <4> QED BY <1>1, <4>1
    <3> QED BY <2>1, <3>2, <3>3
  <2> QED BY <2>2, <2>3
<1>3. Good = SUBSET S
  <2>1. Good \in SUBSET SUBSET S
      OBVIOUS
  <2> HIDE DEF Good
  <2> QED BY <1>2, <2>1, PartByPart
<1> QED BY <1>1, <1>3

\* The images of the members of s.
Named(name, s) == {name[x] : x \in s}

\* h is f, under names that differ.
Renamed(h, f, name, S, T) ==
  /\ name \in [S -> T] /\ \A x, y \in S : name[x] = name[y] => x = y
  /\ f \in [T -> Int] /\ h \in [S -> Int] /\ \A x \in S : h[x] = f[name[x]]

\* Summands come to the same under other names.
LEMMA SumRenamed ==
  ASSUME NEW S, IsFiniteSet(S), NEW T, NEW name, NEW f, NEW h, Renamed(h, f, name, S, T),
         NEW F, Sums(f, F), NEW H, Sums(h, H)
  PROVE  Named(name, S) \in SUBSET T /\ H[S] = F[Named(name, S)]
<1> USE DEF Renamed
<1> DEFINE Image(s) == Named(name, s)
           Good == {s \in SUBSET S : H[s] = F[Image(s)]}
<1>1. /\ F \in [SUBSET T -> Int] /\ F[{}] = 0
      /\ \A s \in SUBSET T : \A x \in s : F[s] = f[x] + F[s \ {x}]
      /\ H[{}] = 0
      /\ \A s \in SUBSET S : \A x \in s : H[s] = f[name[x]] + H[s \ {x}]
  <2>1. /\ F \in [SUBSET T -> Int] /\ F[{}] = 0
        /\ \A s \in SUBSET T : \A x \in s : F[s] = f[x] + F[s \ {x}]
        /\ H[{}] = 0
        /\ \A s \in SUBSET S : \A x \in s : H[s] = h[x] + H[s \ {x}]
      BY DEF Sums
  <2>2. \A s \in SUBSET S : \A x \in s : H[s] = f[name[x]] + H[s \ {x}]
    <3> SUFFICES ASSUME NEW s \in SUBSET S, NEW x \in s PROVE H[s] = f[name[x]] + H[s \ {x}]
        OBVIOUS
    <3>1. x \in S /\ h[x] = f[name[x]]
        OBVIOUS
    <3> QED BY <2>1, <3>1
  <2> QED BY <2>1, <2>2
<1>2. \A s \in SUBSET S : Image(s) \in SUBSET T
    BY DEF Named
<1>3. \A s \in SUBSET S : (\A x \in s : s \ {x} \in Good) => s \in Good
  <2> SUFFICES ASSUME NEW s \in SUBSET S, \A x \in s : s \ {x} \in Good
               PROVE  H[s] = F[Image(s)]
      OBVIOUS
  <2>1. CASE s = {}
    <3>1. Image(s) = {}
        BY <2>1 DEF Named
    <3> QED BY <1>1, <2>1, <3>1
  <2>2. ASSUME NEW x \in s PROVE H[s] = F[Image(s)]
    <3>1. Image(s \ {x}) = Image(s) \ {name[x]}
      <4>1. \A y \in s : name[y] = name[x] => y = x
          OBVIOUS
      <4> QED BY <4>1 DEF Named
    <3>2. name[x] \in Image(s)
        BY DEF Named
    <3>3. H[s] = f[name[x]] + H[s \ {x}]
        BY <1>1
    <3>4. H[s \ {x}] = F[Image(s \ {x})]
        BY <2>2
    <3> HIDE DEF Image
    <3>5. F[Image(s)] = f[name[x]] + F[Image(s) \ {name[x]}]
        BY <1>1, <1>2, <3>2
    <3> QED BY <3>1, <3>3, <3>4, <3>5
  <2> QED BY <2>1, <2>2
<1>4. Good = SUBSET S
  <2>1. Good \in SUBSET SUBSET S
      OBVIOUS
  <2> HIDE DEF Good
  <2> QED BY <1>3, <2>1, PartByPart
<1> QED BY <1>2, <1>4

\* g is f and more of c.
Increased(g, f, c, more, S) ==
  /\ f \in [S -> Int] /\ g \in [S -> Int] /\ c \in S /\ more \in Int
  /\ g[c] = f[c] + more /\ \A x \in S \ {c} : g[x] = f[x]

\* More on one summand is as much more on the sum.
LEMMA SumWithMore ==
  ASSUME NEW S, IsFiniteSet(S), NEW f, NEW c, NEW more, NEW g, Increased(g, f, c, more, S),
         NEW F, Sums(f, F), NEW H, Sums(g, H)
  PROVE  H[S] = F[S] + more
<1> USE DEF Increased
<1> DEFINE R == S \ {c}
           Good == {s \in SUBSET R : H[s] = F[s]}
<1>1. /\ F \in [SUBSET S -> Int] /\ F[{}] = 0
      /\ \A s \in SUBSET S : \A x \in s : F[s] = f[x] + F[s \ {x}]
      /\ H[{}] = 0
      /\ \A s \in SUBSET S : \A x \in s : H[s] = g[x] + H[s \ {x}]
    BY DEF Sums
<1>2. g[c] = f[c] + more /\ \A x \in R : g[x] = f[x]
    OBVIOUS
<1>3. \A s \in SUBSET R : (\A x \in s : s \ {x} \in Good) => s \in Good
  <2> SUFFICES ASSUME NEW s \in SUBSET R, \A x \in s : s \ {x} \in Good
               PROVE  H[s] = F[s]
      OBVIOUS
  <2>1. CASE s = {}
      BY <1>1, <2>1
  <2>2. ASSUME NEW x \in s PROVE H[s] = F[s]
    <3>1. s \in SUBSET S /\ x \in R
        OBVIOUS
    <3>2. H[s] = g[x] + H[s \ {x}] /\ F[s] = f[x] + F[s \ {x}]
        BY <1>1, <3>1
    <3>3. H[s \ {x}] = F[s \ {x}]
        BY <2>2
    <3> QED BY <1>2, <3>1, <3>2, <3>3
  <2> QED BY <2>1, <2>2
<1>4. Good = SUBSET R
  <2>1. Good \in SUBSET SUBSET R /\ IsFiniteSet(R)
      BY FS_RemoveElement
  <2> HIDE DEF Good, R
  <2> QED BY <1>3, <2>1, PartByPart
<1>5. H[R] = F[R]
    BY <1>4
<1>6. H[S] = g[c] + H[R] /\ F[S] = f[c] + F[R]
    BY <1>1
<1>7. F[R] \in Int /\ f[c] \in Int
    BY <1>1
<1> HIDE DEF R
<1> QED BY <1>2, <1>5, <1>6, <1>7

----------------------------------------------------------------------------
(* What is on *)

\* The slots and days of a program and of the clock are numbers in their ranges.
LEMMA LineupNumbers ==
  ASSUME NEW p \in Program, NEW day \in Weekdays, NEW now \in Slots
  PROVE  /\ DaySlots \in Nat \ {0} /\ Week \in Nat \ {0, 1}
         /\ p.start \in 0..(DaySlots - 1) /\ p.end \in 0..(DaySlots - 1)
         /\ now \in 0..(DaySlots - 1) /\ day \in 0..(Week - 1)
         /\ 0 \in Slots
BY LineupAssumption DEF Program, Slots, Weekdays

\* What airs began today or yesterday.
LEMMA AirsFrom ==
  ASSUME NEW p \in Program, NEW day \in Weekdays, NEW now \in Slots
  PROVE  LET end == p.end + (IF CrossesMidnight(p) THEN DaySlots ELSE 0)
         IN  Airs(p, day, now) <=>
               \/ day \in p.days /\ p.start <= now /\ now < end
               \/ Yesterday(day) \in p.days /\ p.start <= now + DaySlots /\ now + DaySlots < end
<1>1. (day - 0) % Week = day
    BY LineupNumbers
<1> QED BY <1>1, LineupNumbers DEF Airs, Yesterday

\* Of two slots the earlier is not in the later hour.
LEMMA HoursGrow ==
  ASSUME NEW a \in Slots, NEW b \in Slots, a <= b
  PROVE  ParseHour(a) \in Int /\ ParseHour(b) \in Int /\ ParseHour(a) <= ParseHour(b)
<1>1. a \in Nat /\ b \in Nat /\ HourSlots \in Nat \ {0}
    BY LineupAssumption DEF Slots
<1>2. a \div HourSlots \in Int /\ b \div HourSlots \in Int
    BY <1>1, SMT
<1>3. a \div HourSlots <= b \div HourSlots
    BY <1>1, SMT
<1> QED BY <1>2, <1>3 DEF ParseHour

Due(p, day) == ProgramOnDay(p, day) \/ IsCrossoverFromYesterday(p, day)

\* What airs is due, but for what crosses midnight within an hour of the clock.
LEMMA WhatAirsIsDue ==
  ASSUME NEW p \in Program, NEW day \in Weekdays, NEW now \in Slots, Airs(p, day, now)
  PROVE  Due(p, day) \/ (CrossesMidnight(p) /\ ParseHour(p.end) = ParseHour(p.start))
<1>1. CASE day \in p.days
    BY <1>1 DEF Due, ProgramOnDay
<1>2. CASE Yesterday(day) \in p.days /\ CrossesMidnight(p)
  <2>1. /\ ParseHour(p.end) \in Int /\ ParseHour(p.start) \in Int
        /\ ParseHour(p.end) <= ParseHour(p.start)
      BY <1>2, HoursGrow DEF CrossesMidnight, Program
  <2> QED BY <1>2, <2>1 DEF Due, IsCrossoverFromYesterday, ProgramOnDay
<1>3. CASE ~CrossesMidnight(p)
  <2>1. ~(now + DaySlots < p.end)
      BY LineupNumbers
  <2> QED BY <1>1, <1>3, <2>1, LineupNumbers, AirsFrom
<1> QED BY <1>1, <1>2, <1>3, AirsFrom

\* What is due airs, but for what ends at midnight.
LEMMA WhatIsDueAirs ==
  ASSUME NEW p \in Program, NEW day \in Weekdays, Due(p, day)
  PROVE  p.end = 0 \/ \E t \in Slots : Airs(p, day, t)
<1>1. p.start \in Slots /\ p.end \in Slots /\ 0 \in Slots
    BY LineupAssumption DEF Program, Slots
<1>2. CASE ProgramOnDay(p, day)
  <2>1. p.start < p.end + (IF CrossesMidnight(p) THEN DaySlots ELSE 0)
      BY <1>1, LineupNumbers DEF CrossesMidnight
  <2>2. Airs(p, day, p.start)
      BY <1>1, <1>2, <2>1, AirsFrom, LineupNumbers DEF ProgramOnDay
  <2> QED BY <1>1, <2>2
<1>3. CASE IsCrossoverFromYesterday(p, day) /\ p.end # 0
  <2>1. Yesterday(day) \in p.days /\ ParseHour(p.end) < ParseHour(p.start)
      BY <1>3 DEF IsCrossoverFromYesterday, ProgramOnDay
  <2>2. CrossesMidnight(p)
    <3>1. p.start <= p.end => ParseHour(p.start) <= ParseHour(p.end)
                              /\ ParseHour(p.start) \in Int /\ ParseHour(p.end) \in Int
        BY <1>1, HoursGrow
    <3> QED BY <1>1, <2>1, <3>1, LineupNumbers DEF CrossesMidnight
  <2>3. p.start <= 0 + DaySlots /\ 0 + DaySlots < p.end + DaySlots
      BY <1>1, <1>3, LineupNumbers
  <2>4. Airs(p, day, 0)
      BY <1>1, <2>1, <2>2, <2>3, AirsFrom
  <2> QED BY <1>1, <2>4
<1> QED BY <1>2, <1>3 DEF Due

\* On a day of its days a program is on as the calendar says; on a day after one
\* of its days, as long as it is on past midnight (activeProgramAt).
LEMMA OnAirIsCalendar ==
  ASSUME NEW p \in Program, NEW day \in Weekdays, NEW now \in Slots,
         OnAir(p, day, now) # Airs(p, day, now)
  PROVE  CrossesMidnight(p) /\ now < p.end /\ (day \in p.days) # (Yesterday(day) \in p.days)
<1>1. /\ DaySlots \in Nat /\ Week \in Nat \ {0, 1}
      /\ p.start \in 0..(DaySlots - 1) /\ p.end \in 0..(DaySlots - 1)
      /\ now \in 0..(DaySlots - 1) /\ day \in 0..(Week - 1)
    BY LineupNumbers
<1> DEFINE end == p.end + (IF CrossesMidnight(p) THEN DaySlots ELSE 0)
           here == day \in p.days
           before == Yesterday(day) \in p.days
<1>3. Airs(p, day, now) <=> \/ here /\ p.start <= now /\ now < end
                            \/ before /\ p.start <= now + DaySlots /\ now + DaySlots < end
    BY AirsFrom
<1>4. OnAir(p, day, now) <=>
        here /\ \/ p.start <= now /\ now < end
                \/ now < p.start /\ p.start - DaySlots <= now /\ now < end - DaySlots
    BY <1>1 DEF OnAir, ProgramOnDay, CrossesMidnight
<1> HIDE DEF here, before
<1>5. ~(OnAir(p, day, now) <=> Airs(p, day, now))
  <2>1. OnAir(p, day, now) \in BOOLEAN /\ Airs(p, day, now) \in BOOLEAN
      BY DEF OnAir, Airs
  <2> QED BY <2>1
<1>6. CASE CrossesMidnight(p)
  <2>1. Airs(p, day, now) <=> (here /\ p.start <= now) \/ (before /\ now < p.end)
      BY <1>1, <1>3, <1>6 DEF CrossesMidnight
  <2>2. OnAir(p, day, now) <=> here /\ (p.start <= now \/ now < p.end)
      BY <1>1, <1>4, <1>6 DEF CrossesMidnight
  <2>3. now < p.end => ~(p.start <= now)
      BY <1>1, <1>6 DEF CrossesMidnight
  <2> QED BY <1>5, <1>6, <2>1, <2>2, <2>3 DEF here, before
<1>7. CASE ~CrossesMidnight(p)
  <2>1. Airs(p, day, now) <=> here /\ p.start <= now /\ now < p.end
      BY <1>1, <1>3, <1>7 DEF CrossesMidnight
  <2>2. OnAir(p, day, now) <=> here /\ p.start <= now /\ now < p.end
      BY <1>1, <1>4, <1>7 DEF CrossesMidnight
  <2> QED BY <1>5, <2>1, <2>2
<1> QED BY <1>6, <1>7

\* The chat managers take the first program that is on, or none when none is.
LEMMA FirstIsOnAir ==
  ASSUME NEW programs, NEW day, NEW now, NEW k \in Nat, DOMAIN programs = 1..k
  PROVE  LET on == ActiveProgramAt(programs, day, now)
         IN  /\ on = 0 => \A i \in DOMAIN programs : ~OnAir(programs[i], day, now)
             /\ on # 0 => /\ on \in DOMAIN programs /\ OnAir(programs[on], day, now)
                          /\ \A i \in 1..(on - 1) : ~OnAir(programs[i], day, now)
<1> DEFINE on == {i \in DOMAIN programs : OnAir(programs[i], day, now)}
           first == ActiveProgramAt(programs, day, now)
<1>1. first = IF on = {} THEN 0 ELSE CHOOSE i \in on : \A j \in on : i <= j
    BY DEF ActiveProgramAt
<1>2. CASE on = {}
    BY <1>1, <1>2
<1>3. CASE on # {}
  <2>1. on \in SUBSET Int /\ IsFiniteSet(on)
      BY FS_Interval, FS_Subset
  <2>2. first \in on /\ \A j \in on : first <= j
      BY <1>1, <1>3, <2>1, LeastNumber
  <2>3. \A i \in 1..(first - 1) : i \in DOMAIN programs /\ i \notin on
      BY <2>1, <2>2
  <2> QED BY <2>1, <2>2, <2>3
<1> QED BY <1>2, <1>3

----------------------------------------------------------------------------
(* What is listed *)

\* What a selection shows, of all that it could show.
LEMMA PickShows ==
  ASSUME NEW T, NEW s \in Seq(T), NEW I \in SUBSET DOMAIN s
  PROVE  /\ Pick(s, I) \in Seq(T)
         /\ \A x : (\E k \in DOMAIN Pick(s, I) : Pick(s, I)[k] = x) <=> \E i \in I : s[i] = x
BY PickType

\* The EPG of a day lists the programs that are due on it, and no others
\* (filterPrograms).
LEMMA ListIsWhatIsDue ==
  ASSUME NEW programs \in Seq(Program), NEW day
  PROVE  /\ FilterPrograms(programs, day) \in Seq(Program)
         /\ \A x : (\E k \in DOMAIN FilterPrograms(programs, day) :
                        FilterPrograms(programs, day)[k] = x) <=>
                   \E i \in DOMAIN programs : programs[i] = x /\ Due(x, day)
<1> DEFINE I == {i \in DOMAIN programs : Due(programs[i], day)}
<1>1. FilterPrograms(programs, day) = Pick(programs, I)
    BY DEF FilterPrograms, Due
<1>2. I \in SUBSET DOMAIN programs
    OBVIOUS
<1>3. \A x : (\E i \in I : programs[i] = x) <=>
             \E i \in DOMAIN programs : programs[i] = x /\ Due(x, day)
    OBVIOUS
<1>4. /\ Pick(programs, I) \in Seq(Program)
      /\ \A x : (\E k \in DOMAIN Pick(programs, I) : Pick(programs, I)[k] = x) <=> \E i \in I : programs[i] = x
    BY <1>2, PickShows
<1> HIDE DEF I
<1> QED BY <1>1, <1>3, <1>4

\* Taken backwards, what is last is first.
LEMMA ReverseIs ==
  ASSUME NEW T, NEW s \in Seq(T)
  PROVE  /\ Reverse(s) \in Seq(T) /\ Len(Reverse(s)) = Len(s)
         /\ \A k \in 1..Len(s) : /\ (Len(s) - k) + 1 \in 1..Len(s)
                                 /\ Reverse(s)[k] = s[(Len(s) - k) + 1]
                                 /\ Reverse(s)[(Len(s) - k) + 1] = s[k]
<1>1. Len(s) \in Nat /\ \A k \in 1..Len(s) : (Len(s) - k) + 1 \in 1..Len(s)
    OBVIOUS
<1>2. Reverse(s) = [i \in 1..Len(s) |-> s[(Len(s) - i) + 1]]
    BY DEF Reverse
<1>3. Reverse(s) \in Seq(T) /\ Len(Reverse(s)) = Len(s)
    BY <1>1, <1>2
<1>4. \A k \in 1..Len(s) : Reverse(s)[k] = s[(Len(s) - k) + 1]
    BY <1>2
<1>5. \A k \in 1..Len(s) : Reverse(s)[(Len(s) - k) + 1] = s[k]
  <2> SUFFICES ASSUME NEW k \in 1..Len(s) PROVE Reverse(s)[(Len(s) - k) + 1] = s[k]
      OBVIOUS
  <2>1. (Len(s) - ((Len(s) - k) + 1)) + 1 = k
      BY <1>1
  <2> QED BY <1>1, <1>4, <2>1
<1> QED BY <1>1, <1>3, <1>4, <1>5

\* The list is events that are on and aimed at the station, then the rows.
EventsFirst(list, rows, st, now) ==
  \E k \in Nat :
    /\ list \in Seq(Event \cup Program) /\ Len(list) = k + Len(rows)
    /\ \A j \in 1..k : /\ list[j] \in Event /\ Targets(list[j], st)
                       /\ list[j].from <= now /\ now <= list[j].to
    /\ \A j \in DOMAIN rows : k + j \in DOMAIN list /\ list[k + j] = rows[j]
    /\ \A j \in (k + 1)..Len(list) : list[j] \in Program

\* A station's list is its events, and behind them the programs of the day
\* (buildEPGPayload).
LEMMA EventsComeFirst ==
  ASSUME NEW st, NEW programs, programs[st.id] \in Seq(Program), NEW events \in Seq(Event),
         NEW day, NEW now
  PROVE  EventsFirst(StationPrograms(st, programs, events, day, now),
                     FilterPrograms(programs[st.id], day), st, now)
<1> DEFINE active == FetchActiveEvents(events, now)
           I == {i \in DOMAIN active : Targets(active[i], st)}
           aimed == Pick(active, I)
           rows == FilterPrograms(programs[st.id], day)
           list == StationPrograms(st, programs, events, day, now)
           J == {i \in DOMAIN events : /\ events[i].enableChat
                                       /\ events[i].from <= now /\ now <= events[i].to}
<1>1. active \in Seq(Event) /\ \A i \in DOMAIN active : active[i].from <= now /\ now <= active[i].to
  <2>1. active = Pick(events, J) /\ J \in SUBSET DOMAIN events
      BY DEF FetchActiveEvents
  <2>2. \A i \in J : events[i].from <= now /\ now <= events[i].to
      OBVIOUS
  <2> HIDE DEF active, J
  <2> QED BY <2>1, <2>2, PickType
<1> HIDE DEF active
<1>2. /\ aimed \in Seq(Event)
      /\ \A k \in DOMAIN aimed : Targets(aimed[k], st) /\ aimed[k].from <= now /\ now <= aimed[k].to
  <2>1. I \in SUBSET DOMAIN active
      OBVIOUS
  <2>2. \A i \in I : Targets(active[i], st) /\ active[i].from <= now /\ now <= active[i].to
      BY <1>1
  <2> HIDE DEF I
  <2> QED BY <1>1, <2>1, <2>2, PickType
<1>3. rows \in Seq(Program)
    BY ListIsWhatIsDue
<1>4. list = Reverse(aimed) \o rows
    BY DEF StationPrograms, active
<1> HIDE DEF aimed, rows, list
<1> DEFINE front == Reverse(aimed)
           n == Len(front)
<1>5. /\ front \in Seq(Event)
      /\ \A k \in 1..n : Targets(front[k], st) /\ front[k].from <= now /\ now <= front[k].to
    BY <1>2, ReverseIs
<1> HIDE DEF front
<1>6. n \in Nat /\ list \in Seq(Event \cup Program) /\ Len(list) = n + Len(rows)
  <2>1. front \in Seq(Event \cup Program) /\ rows \in Seq(Event \cup Program)
      BY <1>3, <1>5
  <2> QED BY <1>4, <2>1 DEF front
<1>7. \A j \in 1..n : list[j] = front[j] /\ front[j] \in Event
    BY <1>3, <1>4, <1>5 DEF front
<1>8. \A j \in DOMAIN rows : n + j \in DOMAIN list /\ list[n + j] = rows[j]
    BY <1>3, <1>4, <1>5, <1>6 DEF front
<1>9. \A j \in (n + 1)..Len(list) : list[j] \in Program
  <2> SUFFICES ASSUME NEW j \in (n + 1)..Len(list) PROVE list[j] \in Program
      OBVIOUS
  <2>1. j - n \in DOMAIN rows /\ n + (j - n) = j
      BY <1>3, <1>6
  <2>2. rows[j - n] \in Program
      BY <1>3, <2>1
  <2> QED BY <1>8, <2>1, <2>2
<1> HIDE DEF n
<1>10. EventsFirst(list, rows, st, now)
  <2>1. n \in Nat
      BY <1>6
  <2>2. \A j \in 1..n : /\ list[j] \in Event /\ Targets(list[j], st)
                        /\ list[j].from <= now /\ now <= list[j].to
      BY <1>5, <1>7
  <2> QED BY <1>6, <1>8, <1>9, <2>1, <2>2 DEF EventsFirst
<1> QED BY <1>10 DEF list, rows

----------------------------------------------------------------------------
(* The answers *)

\* A task of a kind is one of the tasks of that kind.
TaskOK ==
  /\ task.kind = "air" => task \in AirTasks
  /\ task.kind = "epg" => task \in EpgTasks
  /\ task.kind = "shares" => task \in ShareTasks
  /\ task.kind = "dashboard" => task \in DashboardTasks
  /\ task.kind = "catalog" => task \in CatalogTasks
  /\ task.kind = "filter" => task \in FilterTasks

\* A task's lists are sequences, no longer than their bound.
LEMMA SequencesUpTo ==
  ASSUME NEW T, NEW n \in Nat, NEW s \in UpTo(T, n)
  PROVE  s \in Seq(T) /\ Len(s) \in 0..n /\ s \in [1..Len(s) -> T]
<1>1. PICK k \in 0..n : s \in [1..k -> T]
    BY DEF UpTo
<1>2. Len(s) = k /\ s \in Seq(T)
    BY <1>1
<1> QED BY <1>1, <1>2

\* The day of the tasks is a day of the week.
LEMMA TodayIsADay == Today \in Weekdays
BY LineupAssumption DEF Today, Weekdays

\* What an air task is made of.
LEMMA AirTask ==
  ASSUME task \in AirTasks
  PROVE  /\ task.programs \in Seq(Program) /\ task.now \in Slots
         /\ Today \in Weekdays
<1>1. task.programs \in UpTo(Program, 2) /\ task.now \in Slots
    BY DEF AirTasks
<1> QED BY <1>1, SequencesUpTo, TodayIsADay

\* The answer about the air is by the calendar, and the EPG lists it.
LEMMA AirAnswerRight ==
  ASSUME TaskOK, AnswerAir
  PROVE  AirRight' /\ ListedRight'
<1>1. /\ task.kind = "air" /\ task' = task /\ answer'.kind = "air"
      /\ answer'.on = ActiveProgramAt(task.programs, Today, task.now)
      /\ answer'.listed = FilterPrograms(task.programs, Today)
    BY DEF AnswerAir, Answers
<1>2. task.programs \in Seq(Program) /\ task.now \in Slots /\ Today \in Weekdays
    BY <1>1, AirTask DEF TaskOK
<1> DEFINE programs == task.programs
           now == task.now
<1>3. /\ answer'.on = 0 => \A i \in DOMAIN programs : ~OnAir(programs[i], Today, now)
      /\ answer'.on # 0 => /\ answer'.on \in DOMAIN programs
                           /\ OnAir(programs[answer'.on], Today, now)
                           /\ \A i \in 1..(answer'.on - 1) : ~OnAir(programs[i], Today, now)
  <2>1. Len(programs) \in Nat /\ DOMAIN programs = 1..Len(programs)
      BY <1>2
  <2> QED BY <1>1, <2>1, FirstIsOnAir
<1>4. AirRight'
  <2>1. \A i \in DOMAIN programs :
          OnAir(programs[i], Today, now) # Airs(programs[i], Today, now) =>
            /\ CrossesMidnight(programs[i]) /\ now < programs[i].end
            /\ (Today \in programs[i].days) # (Yesterday(Today) \in programs[i].days)
      BY <1>2, OnAirIsCalendar
  <2> QED BY <1>1, <1>3, <2>1 DEF AirRight
<1>5. ListedRight'
  <2> DEFINE Shown(x) == \E j \in DOMAIN answer'.listed : answer'.listed[j] = x
  <2>1. \A i \in DOMAIN programs : Shown(programs[i]) <=> Due(programs[i], Today)
    <3>1. \A x : Shown(x) <=> \E i \in DOMAIN programs : programs[i] = x /\ Due(x, Today)
        BY <1>1, <1>2, ListIsWhatIsDue
    <3> QED BY <3>1
  <2> HIDE DEF Shown
  <2> SUFFICES ASSUME NEW i \in DOMAIN programs
               PROVE  /\ Airs(programs[i], Today, now) =>
                           Shown(programs[i]) \/ (CrossesMidnight(programs[i]) /\ ParseHour(programs[i].end) = ParseHour(programs[i].start))
                      /\ Shown(programs[i]) => programs[i].end = 0 \/ \E t \in Slots : Airs(programs[i], Today, t)
                      /\ answer'.on = i => Shown(programs[i])
      BY <1>1 DEF ListedRight, Shown
  <2>2. programs[i] \in Program
      BY <1>2
  <2>3. answer'.on = i => Due(programs[i], Today)
    <3>1. answer'.on = i => OnAir(programs[i], Today, now)
      <4>1. i # 0
          BY <1>2
      <4> QED BY <1>3, <4>1
    <3> QED BY <3>1 DEF OnAir, Due
  <2> QED BY <1>2, <2>1, <2>2, <2>3, WhatAirsIsDue, WhatIsDueAirs
<1> QED BY <1>4, <1>5

\* An event has an audience, a program does not.
LEMMA EventsAreNoPrograms == ASSUME NEW x \in Program PROVE x \notin Event
<1>1. DOMAIN x = {"start", "end", "days"}
    BY DEF Program
<1>2. x \in Event => "platform" \in DOMAIN x
    BY DEF Event
<1> QED BY <1>1, <1>2

\* The answer about a station shows what it should.
LEMMA EpgAnswerRight ==
  ASSUME TaskOK, AnswerEpg
  PROVE  EpgRight'
<1> DEFINE programs == [id \in {"st"} |-> task.programs]
           st == task.station
           list == StationPrograms(st, programs, task.events, Today, task.now)
           rows == FilterPrograms(task.programs, Today)
<1>1. /\ task.kind = "epg" /\ task' = task /\ answer'.kind = "epg"
      /\ answer'.shown = InPayload(st, programs, task.events, Today, task.now)
      /\ answer'.list = list
    BY DEF AnswerEpg, Answers
<1>2. task \in EpgTasks
    BY <1>1 DEF TaskOK
<1>3. st \in Station /\ task.programs \in Seq(Program) /\ task.events \in Seq(Event)
  <2>1. st \in Station /\ task.programs \in UpTo(Program, 1) /\ task.events \in UpTo(Event, 1)
      BY <1>2 DEF EpgTasks
  <2> QED BY <2>1, SequencesUpTo
<1>4. st.id = "st" /\ programs[st.id] = task.programs
    BY <1>3 DEF Station
<1> HIDE DEF programs, st
<1>5. PICK k \in Nat :
        /\ list \in Seq(Event \cup Program) /\ Len(list) = k + Len(rows)
        /\ \A j \in 1..k : /\ list[j] \in Event /\ Targets(list[j], st)
                           /\ list[j].from <= task.now /\ task.now <= list[j].to
        /\ \A j \in DOMAIN rows : k + j \in DOMAIN list /\ list[k + j] = rows[j]
        /\ \A j \in (k + 1)..Len(list) : list[j] \in Program
  <2>1. programs[st.id] \in Seq(Program)
      BY <1>3, <1>4
  <2>2. EventsFirst(list, rows, st, task.now)
      BY <1>3, <1>4, <2>1, EventsComeFirst
  <2> QED BY <2>2 DEF EventsFirst
<1>6. rows \in Seq(Program)
    BY <1>3, ListIsWhatIsDue
<1> HIDE DEF list
<1>7. answer'.shown => st.visible
    BY <1>1 DEF InPayload
<1>8. \A i \in DOMAIN task.programs :
        st.visible /\ OnAir(task.programs[i], Today, task.now) =>
          answer'.shown /\ \E j \in DOMAIN list : list[j] = task.programs[i]
  <2> SUFFICES ASSUME NEW i \in DOMAIN task.programs, st.visible,
                      OnAir(task.programs[i], Today, task.now)
               PROVE  answer'.shown /\ \E j \in DOMAIN list : list[j] = task.programs[i]
      OBVIOUS
  <2>1. Due(task.programs[i], Today)
      BY DEF OnAir, Due
  <2>2. PICK j \in DOMAIN rows : rows[j] = task.programs[i]
    <3>1. \A x : (\E j \in DOMAIN rows : rows[j] = x) <=>
                 \E h \in DOMAIN task.programs : task.programs[h] = x /\ Due(x, Today)
        BY <1>3, ListIsWhatIsDue
    <3> QED BY <2>1, <3>1
  <2>3. k + j \in DOMAIN list /\ list[k + j] = task.programs[i]
      BY <1>5, <2>2
  <2>4. list # <<>>
      BY <2>3
  <2>5. answer'.shown
      BY <1>1, <2>4 DEF InPayload, list
  <2> QED BY <2>3, <2>5
<1>9. \A j \in DOMAIN list :
        list[j] \in Event =>
          /\ list[j].from <= task.now /\ task.now <= list[j].to
          /\ "other" \notin list[j].stations
          /\ \A h \in DOMAIN list : h < j => list[h] \in Event
  <2> SUFFICES ASSUME NEW j \in DOMAIN list, list[j] \in Event
               PROVE  /\ list[j].from <= task.now /\ task.now <= list[j].to
                      /\ "other" \notin list[j].stations
                      /\ \A h \in DOMAIN list : h < j => list[h] \in Event
      OBVIOUS
  <2>1. j \in 1..k
    <3>1. j \notin (k + 1)..Len(list)
        BY <1>5, EventsAreNoPrograms
    <3>2. j \in 1..Len(list) /\ Len(list) \in Nat
        BY <1>5
    <3> QED BY <3>1, <3>2
  <2>2. list[j].stations \in {{}, {"st"}, {"other"}}
      BY DEF Event
  <2>3. list[j].stations = {} \/ "st" \in list[j].stations
      BY <1>4, <1>5, <2>1 DEF Targets
  <2>4. \A h \in DOMAIN list : h < j => h \in 1..k
      BY <1>5, <2>1
  <2> QED BY <1>5, <2>1, <2>2, <2>3, <2>4
<1> QED BY <1>1, <1>7, <1>8, <1>9 DEF EpgRight, st

----------------------------------------------------------------------------
(* Shares *)

\* The greater of two numbers.
LEMMA MaxOfTwo ==
  ASSUME NEW a \in Int, NEW b \in Int
  PROVE  Max({a, b}) = IF a >= b THEN a ELSE b
<1>1. \E x \in {a, b} : \A y \in {a, b} : x >= y
    OBVIOUS
<1>2. Max({a, b}) \in {a, b} /\ \A y \in {a, b} : Max({a, b}) >= y
    BY <1>1 DEF Max
<1> QED BY <1>2

\* The smaller of two numbers.
LEMMA MinOfTwo ==
  ASSUME NEW a \in Int, NEW b \in Int
  PROVE  Min({a, b}) = IF a <= b THEN a ELSE b
<1>1. \E x \in {a, b} : \A y \in {a, b} : x <= y
    OBVIOUS
<1>2. Min({a, b}) \in {a, b} /\ \A y \in {a, b} : Min({a, b}) <= y
    BY <1>1 DEF Min
<1> QED BY <1>2

\* Dividing by a positive number.
LEMMA Division ==
  ASSUME NEW K \in Nat \ {0}, NEW a \in Nat
  PROVE  /\ a \div K \in Nat /\ K * (a \div K) <= a
         /\ a >= K => a \div K >= 1
         /\ \A b \in Nat : b <= a => b \div K <= a \div K
         /\ \A b \in Nat : b < a /\ a % K = 0 => b \div K < a \div K
<1>1. a \div K \in Nat
    BY SMT
<1>2. K * (a \div K) <= a
    BY SMT
<1>3. a >= K => a \div K >= 1
    BY SMT
<1>4. \A b \in Nat : b <= a => b \div K <= a \div K
    BY SMT
<1>5. \A b \in Nat : b < a /\ a % K = 0 => b \div K < a \div K
    BY SMT
<1> QED BY <1>1, <1>2, <1>3, <1>4, <1>5

\* One share: the part of the whole, cut, or 1.
ShareOf(c, total, known, low) ==
  LET product == c * total
      short == IF product % known = 0 /\ c \in low THEN 1 ELSE 0
  IN  Max({1, product \div known - short})

\* A share is at least 1 and, unless it was raised to 1, between its part less one
\* and its part.
LEMMA ShareBounds ==
  ASSUME NEW c \in Nat \ {0}, NEW total \in Nat, NEW K \in Nat \ {0}, NEW low
  PROVE  LET part == (c * total) \div K
             share == ShareOf(c, total, K, low)
         IN  /\ share \in Nat /\ share >= 1 /\ share <= part + 1
             /\ c * total >= K => share <= part
             /\ part \in Nat /\ K * part <= total * c
<1> DEFINE p == c * total
           part == p \div K
           short == IF p % K = 0 /\ c \in low THEN 1 ELSE 0
<1>1. p \in Nat /\ p = total * c
    OBVIOUS
<1> HIDE DEF p
<1>2. part \in Nat /\ K * part <= p /\ (p >= K => part >= 1)
    BY <1>1, Division
<1>3. short \in {0, 1}
    OBVIOUS
<1>4. ShareOf(c, total, K, low) = Max({1, part - short})
    BY DEF ShareOf, p
<1> HIDE DEF part, short
<1>5. part - short \in Int
    BY <1>2, <1>3
<1>6. Max({1, part - short}) = IF 1 >= part - short THEN 1 ELSE part - short
    BY <1>5, MaxOfTwo
<1>7. /\ ShareOf(c, total, K, low) \in Nat /\ ShareOf(c, total, K, low) >= 1
      /\ ShareOf(c, total, K, low) <= part + 1
      /\ p >= K => ShareOf(c, total, K, low) <= part
    BY <1>2, <1>3, <1>4, <1>6
<1> QED BY <1>1, <1>2, <1>7 DEF p, part

\* Who has more is not given less.
LEMMA SharesFollowCounts ==
  ASSUME NEW c \in Nat \ {0}, NEW d \in Nat \ {0}, NEW total \in Nat, NEW K \in Nat \ {0},
         NEW low, d <= c
  PROVE  ShareOf(c, total, K, low) >= ShareOf(d, total, K, low)
<1> DEFINE S(x) == ShareOf(x, total, K, low)
           short(x) == IF (x * total) % K = 0 /\ x \in low THEN 1 ELSE 0
           part(x) == (x * total) \div K
<1>1. \A x \in {c, d} : /\ part(x) \in Nat /\ short(x) \in {0, 1}
                        /\ S(x) = IF 1 >= part(x) - short(x) THEN 1 ELSE part(x) - short(x)
  <2> SUFFICES ASSUME NEW x \in {c, d}
               PROVE  /\ part(x) \in Nat /\ short(x) \in {0, 1}
                      /\ S(x) = IF 1 >= part(x) - short(x) THEN 1 ELSE part(x) - short(x)
      OBVIOUS
  <2>1. x * total \in Nat
      OBVIOUS
  <2>2. part(x) \in Nat
      BY <2>1, Division
  <2>3. short(x) \in {0, 1}
      OBVIOUS
  <2>4. S(x) = Max({1, part(x) - short(x)})
      BY DEF ShareOf
  <2> HIDE DEF part, short, S
  <2>5. part(x) - short(x) \in Int
      BY <2>2, <2>3
  <2> QED BY <2>2, <2>3, <2>4, <2>5, MaxOfTwo
<1>2. CASE c = d
  <2>1. S(c) \in Nat /\ S(c) = S(d)
      BY <1>1, <1>2
  <2> QED BY <2>1
<1>3. CASE total = 0
  <2>1. c * total = 0 /\ d * total = 0
      BY <1>3
  <2>2. 0 \div K = 0
      BY SMT
  <2>3. part(c) = 0 /\ part(d) = 0
      BY <2>1, <2>2
  <2> HIDE DEF part, short, S
  <2>4. S(c) = 1 /\ S(d) = 1
      BY <1>1, <2>3
  <2> QED BY <2>4 DEF S
<1>4. CASE d < c /\ total # 0
  <2>1. c * total \in Nat /\ d * total \in Nat
      OBVIOUS
  <2>2. d * total < c * total
      BY <1>4
  <2>3. part(d) <= part(c)
      BY <2>1, <2>2, Division
  <2>4. (c * total) % K = 0 => part(d) < part(c)
      BY <2>1, <2>2, Division
  <2>5. short(c) = 1 => part(d) < part(c)
      BY <2>4
  <2> HIDE DEF part, short, S
  <2>6. S(c) >= S(d)
      BY <1>1, <2>3, <2>5
  <2> QED BY <2>6 DEF S
<1> QED BY <1>2, <1>3, <1>4

\* The parts of total, in proportion to co, and what is raised by one at most.
InParts(co, part, cut, K, total, D) ==
  /\ co \in [D -> Nat] /\ part \in [D -> Nat] /\ cut \in [D -> Nat]
  /\ K \in Nat \ {0} /\ total \in Nat /\ Total(co) <= K
  /\ \A i \in D : cut[i] <= part[i] + 1 /\ K * part[i] <= total * co[i]

\* Parts in proportion, each raised by one at most.
LEMMA PartsAddUp ==
  ASSUME NEW D, IsFiniteSet(D), NEW n \in Nat, Cardinality(D) = n, NEW co, NEW part, NEW cut,
         NEW K, NEW total, InParts(co, part, cut, K, total, D)
  PROVE  /\ Total(cut) \in Int
         /\ Total(cut) <= total + n
         /\ (\A i \in D : cut[i] <= part[i]) => Total(cut) <= total
<1> USE DEF InParts
<1>1. PICK CO : Sums(co, CO)
  <2>1. co \in [D -> Int]
      OBVIOUS
  <2> QED BY <2>1, SumsExist
<1>2. PICK P : Sums(part, P)
  <2>1. part \in [D -> Int]
      OBVIOUS
  <2> QED BY <2>1, SumsExist
<1>3. PICK U : Sums(cut, U)
  <2>1. cut \in [D -> Int]
      OBVIOUS
  <2> QED BY <2>1, SumsExist
<1> DEFINE o == CO[D]
           q == P[D]
           u == U[D]
<1>4. /\ o \in Int /\ q \in Int /\ u \in Int
      /\ Total(cut) = u /\ Total(co) = o
    BY <1>1, <1>2, <1>3 DEF Sums
<1>5. co \in [D -> Int] /\ part \in [D -> Int] /\ cut \in [D -> Int]
    OBVIOUS
<1>6. K * q <= total * o + 0 * Cardinality(D)
  <2>1. \A i \in D : K * part[i] <= total * co[i] + 0
    <3>1. \A i \in D : total * co[i] \in Int
        OBVIOUS
    <3> QED BY <3>1
  <2>2. K \in Int /\ total \in Int /\ 0 \in Int
      OBVIOUS
  <2> QED BY <1>1, <1>2, <1>5, <2>1, <2>2, SumsCompare
<1>7. 1 * u <= 1 * q + 1 * Cardinality(D)
  <2>1. \A i \in D : 1 * cut[i] <= 1 * part[i] + 1
      OBVIOUS
  <2>2. 1 \in Int
      OBVIOUS
  <2> QED BY <1>2, <1>3, <1>5, <2>1, <2>2, SumsCompare
<1>8. (\A i \in D : cut[i] <= part[i]) => 1 * u <= 1 * q + 0 * Cardinality(D)
  <2> SUFFICES ASSUME \A i \in D : cut[i] <= part[i] PROVE 1 * u <= 1 * q + 0 * Cardinality(D)
      OBVIOUS
  <2>1. \A i \in D : 1 * cut[i] <= 1 * part[i] + 0
      OBVIOUS
  <2>2. 1 \in Int /\ 0 \in Int
      OBVIOUS
  <2> QED BY <1>2, <1>3, <1>5, <2>1, <2>2, SumsCompare
<1> HIDE DEF o, q, u
<1>9. K * q <= total * o
  <2>1. 0 * n = 0 /\ total * o \in Int
      BY <1>4
  <2> QED BY <1>6, <2>1
<1>10. o <= K
    BY <1>4
<1>11. total * o <= total * K
    BY <1>4, <1>10
<1>12. q <= total
  <2>1. K * q <= K * total
    <3>1. total * o \in Int /\ total * K = K * total /\ K * q \in Int /\ K * total \in Int
        BY <1>4
    <3> QED BY <1>9, <1>11, <3>1
  <2> QED BY <1>4, <2>1
<1>13. u <= q + n
    BY <1>4, <1>7
<1>14. (\A i \in D : cut[i] <= part[i]) => u <= q
    BY <1>4, <1>8
<1>15. u <= total + n
    BY <1>4, <1>12, <1>13
<1>16. (\A i \in D : cut[i] <= part[i]) => u <= total
    BY <1>4, <1>12, <1>14
<1> QED BY <1>4, <1>15, <1>16

\* What is left over goes to the first.
LEMMA LeftOver ==
  ASSUME NEW D, IsFiniteSet(D), NEW cut, NEW first, NEW left, NEW more,
         Increased(more, cut, first, left, D)
  PROVE  Total(more) = Total(cut) + left
<1>0. cut \in [D -> Int] /\ more \in [D -> Int]
    BY DEF Increased
<1>1. PICK U : Sums(cut, U)
    BY <1>0, SumsExist
<1>2. PICK W : Sums(more, W)
    BY <1>0, SumsExist
<1>3. Total(cut) = U[D] /\ Total(more) = W[D]
    BY <1>0, <1>1, <1>2 DEF Sums
<1>4. W[D] = U[D] + left
    BY <1>1, <1>2, SumWithMore
<1> QED BY <1>3, <1>4

\* The counts of some names, each once, come to no more than all.
LEMMA SomeCounts ==
  ASSUME NEW m \in Nat, NEW counts \in [1..m -> Nat], NEW D, IsFiniteSet(D),
         NEW name, NEW co, Renamed(co, counts, name, D, 1..m)
  PROVE  Total(co) <= Total(counts)
<1>1. IsFiniteSet(1..m) /\ counts \in [1..m -> Int] /\ co \in [D -> Int]
    BY FS_Interval DEF Renamed
<1>2. PICK C : Sums(counts, C)
    BY <1>1, SumsExist
<1>3. PICK CO : Sums(co, CO)
    BY <1>1, SumsExist
<1> DEFINE I == Named(name, D)
<1>4. I \in SUBSET (1..m) /\ CO[D] = C[I]
    BY <1>1, <1>2, <1>3, SumRenamed
<1> HIDE DEF I
<1>5. C[I] <= C[1..m]
    BY <1>1, <1>2, <1>4, SumOfPart
<1>6. Total(counts) = C[1..m] /\ Total(co) = CO[D]
    BY <1>1, <1>2, <1>3 DEF Sums
<1> QED BY <1>4, <1>5, <1>6

\* Something that is counted comes to more than nothing.
LEMMA KnownIsPositive ==
  ASSUME NEW m \in Nat \ {0}, NEW counts \in [1..m -> Nat \ {0}]
  PROVE  Total(counts) \in Nat \ {0}
<1>1. IsFiniteSet(1..m) /\ counts \in [1..m -> Int] /\ counts \in [1..m -> Nat]
      /\ {1} \in SUBSET (1..m)
  <2>1. IsFiniteSet(1..m)
      BY FS_Interval
  <2>2. counts \in [1..m -> Int] /\ counts \in [1..m -> Nat]
      OBVIOUS
  <2>3. {1} \in SUBSET (1..m)
      OBVIOUS
  <2> QED BY <2>1, <2>2, <2>3
<1>2. PICK C : Sums(counts, C)
    BY <1>1, SumsExist
<1>3. Total(counts) = C[1..m]
    BY <1>2 DEF Sums
<1>4. C[{1}] <= C[1..m] /\ C[{1}] \in Int /\ C[1..m] \in Int
    BY <1>1, <1>2, SumOfPart
<1>5. C[{1}] = counts[1] + C[{1} \ {1}] /\ C[{}] = 0
    BY <1>1, <1>2 DEF Sums
<1>6. {1} \ {1} = {} /\ counts[1] \in Nat \ {0}
    OBVIOUS
<1>7. C[{1}] = counts[1] + 0
    BY <1>5, <1>6
<1>8. C[{1}] >= 1
    BY <1>6, <1>7
<1>9. C[1..m] >= 1
    BY <1>4, <1>8
<1> QED BY <1>3, <1>4, <1>9

\* The first n are 1 or more and fall.
Falling(cut, n) == \A i, j \in 1..n : cut[i] >= 1 /\ (i < j => cut[i] >= cut[j])

\* The first has what is left of total.
Settled(out, cut, total) ==
  out = IF total - Total(cut) > 0 THEN [cut EXCEPT ![1] = @ + (total - Total(cut))] ELSE cut

\* Shares that were cut in proportion, and the rest given to the first.
LEMMA SharesFromParts ==
  ASSUME NEW n \in Nat \ {0}, NEW co, NEW part, NEW cut, NEW K, NEW total,
         InParts(co, part, cut, K, total, 1..n), Falling(cut, n),
         NEW out, Settled(out, cut, total)
  PROVE  /\ Len(out) = n /\ Total(out) >= total
         /\ Total(out) > total => Total(out) - total <= n /\ \E i \in 1..n : ~(cut[i] <= part[i])
         /\ Falling(out, n)
<1> DEFINE D == 1..n
           sum == Total(cut)
           left == total - sum
<1>0. out = IF left > 0 THEN [cut EXCEPT ![1] = @ + left] ELSE cut
    BY DEF Settled
<1>1. IsFiniteSet(D) /\ Cardinality(D) = n /\ 1 \in D
  <2>1. 1 \in Int /\ n \in Int
      OBVIOUS
  <2>2. IsFiniteSet(1..n) /\ Cardinality(1..n) = IF 1 > n THEN 0 ELSE n - 1 + 1
      BY <2>1, FS_Interval
  <2> QED BY <2>2
<1>2. cut \in [D -> Nat] /\ total \in Nat
    BY DEF InParts
<1>3. /\ sum \in Int /\ sum <= total + n
      /\ (\A i \in D : cut[i] <= part[i]) => sum <= total
  <2> HIDE DEF D
  <2>1. n \in Nat
      OBVIOUS
  <2>2. InParts(co, part, cut, K, total, D)
      BY DEF D
  <2> QED BY <1>1, <2>1, <2>2, PartsAddUp
<1>4. left = total - sum
    OBVIOUS
<1> HIDE DEF sum, left
<1>5. CASE left > 0
  <2>1. left \in Int /\ out = [cut EXCEPT ![1] = @ + left]
      BY <1>0, <1>2, <1>3, <1>4, <1>5
  <2>2. /\ out \in [D -> Int] /\ out[1] = cut[1] + left
        /\ \A x \in D \ {1} : out[x] = cut[x]
      BY <1>1, <1>2, <2>1
  <2>3. Increased(out, cut, 1, left, D)
      BY <1>1, <1>2, <2>1, <2>2 DEF Increased
  <2>4. Total(out) = sum + left
    <3> HIDE DEF D
    <3> QED BY <1>1, <2>3, LeftOver DEF sum
  <2>5. Total(out) = total
      BY <1>2, <1>3, <1>4, <2>1, <2>4
  <2>6. \A i, j \in D : out[i] >= 1 /\ (i < j => out[i] >= out[j])
    <3> SUFFICES ASSUME NEW i \in D, NEW j \in D PROVE out[i] >= 1 /\ (i < j => out[i] >= out[j])
        OBVIOUS
    <3>1. /\ cut[i] \in Nat /\ cut[j] \in Nat /\ cut[i] >= 1 /\ (i < j => cut[i] >= cut[j])
          /\ cut[1] \in Nat
        BY <1>1, <1>2 DEF Falling
    <3>2. i < j => j # 1
        OBVIOUS
    <3>3. (i = 1 \/ out[i] = cut[i]) /\ (j = 1 \/ out[j] = cut[j])
        BY <2>2
    <3>4. out[i] >= cut[i] /\ out[i] \in Int
      <4>1. out[i] = cut[i] \/ out[i] = cut[i] + left
          BY <2>2, <3>3
      <4> QED BY <1>5, <2>1, <3>1, <4>1
    <3>5. i < j => out[j] = cut[j]
        BY <3>2, <3>3
    <3> QED BY <3>1, <3>4, <3>5
  <2>7. Len(out) = n
      BY <2>2
  <2>8. Total(out) >= total /\ ~(Total(out) > total)
      BY <1>2, <2>5
  <2> QED BY <2>6, <2>7, <2>8 DEF Falling
<1>6. CASE ~(left > 0)
  <2>1. out = cut /\ Total(out) = sum
      BY <1>0, <1>6 DEF sum
  <2>2. sum >= total /\ sum - total <= n
      BY <1>2, <1>3, <1>4, <1>6
  <2>3. sum > total => \E i \in D : ~(cut[i] <= part[i])
      BY <1>2, <1>3
  <2>4. Len(out) = n
      BY <1>2, <2>1
  <2> QED BY <2>1, <2>2, <2>3, <2>4
<1> QED BY <1>5, <1>6

\* The shares of a country's viewers, as SharesRight has them.
SharesAre(shares, counts, total, order) ==
  LET n == Len(shares)
      sum == Total(shares)
      known == Total(counts)
  IN  /\ sum >= total
      /\ sum > total => /\ sum - total <= n
                        /\ \E i \in 1..n : counts[order[i]] * total < known
      /\ \A i, j \in 1..n : shares[i] >= 1 /\ (i < j => shares[i] >= shares[j])

\* The shares of any number of providers or cities, of any counts, in any falling
\* order and however the fractions round, add up to the viewers but for those raised
\* to one, and are in falling order (GetCountryISPBreakdown,
\* GetCountryCityBreakdown).
THEOREM SharesHold ==
  ASSUME NEW m \in Nat \ {0}, NEW counts \in [1..m -> Nat \ {0}], NEW total \in Nat,
         NEW order \in [1..m -> 1..m], NEW low,
         \A i, j \in 1..m : order[i] = order[j] => i = j,
         \A i, j \in 1..m : i < j => counts[order[i]] >= counts[order[j]]
  PROVE  SharesAre(Shares(counts, total, order, low), counts, total, order)
<1> DEFINE n == Min({Len(order), ShareLimit})
           K == Total(counts)
           D == 1..n
           co == [i \in D |-> counts[order[i]]]
           part == [i \in D |-> (counts[order[i]] * total) \div K]
           cut == [i \in D |-> ShareOf(counts[order[i]], total, K, low)]
           left == total - Total(cut)
           out == Shares(counts, total, order, low)
<1>1. n \in 1..m /\ n \in Nat /\ IsFiniteSet(D) /\ Cardinality(D) = n
  <2>1. Len(order) = m /\ ShareLimit \in Nat \ {0}
      BY ReportsAssumption
  <2>2. n = IF m <= ShareLimit THEN m ELSE ShareLimit
    <3> HIDE DEF K, co, part, cut, left, out
    <3>1. m \in Int /\ ShareLimit \in Int
        BY <2>1
    <3>2. Min({m, ShareLimit}) = IF m <= ShareLimit THEN m ELSE ShareLimit
        BY <3>1, MinOfTwo, Zenon
    <3>3. n = Min({m, ShareLimit})
        BY <2>1, Zenon DEF n
    <3> QED BY <3>2, <3>3, Zenon
  <2> HIDE DEF n
  <2>3. n \in 1..m /\ n \in Nat /\ 1 \in Int /\ n \in Int
      BY <2>1, <2>2
  <2>4. IsFiniteSet(1..n) /\ Cardinality(1..n) = IF 1 > n THEN 0 ELSE n - 1 + 1
      BY <2>3, FS_Interval
  <2> QED BY <2>3, <2>4
<1>2. out = IF left > 0 THEN [cut EXCEPT ![1] = @ + left] ELSE cut
    BY DEF Shares, ShareOf, Total
<1> HIDE DEF n, out
<1>3. D \in SUBSET (1..m)
    BY <1>1
<1>4. \A i \in D : order[i] \in 1..m /\ counts[order[i]] \in Nat \ {0} /\ order[i] \in DOMAIN counts
    BY <1>3
<1>7. K \in Nat \ {0}
  <2> HIDE DEF K
  <2> QED BY KnownIsPositive DEF K
<1> HIDE DEF K
<1>8. /\ co \in [D -> Nat] /\ part \in [D -> Nat] /\ cut \in [D -> Nat]
      /\ \A i \in D : /\ cut[i] >= 1 /\ cut[i] <= part[i] + 1
                      /\ counts[order[i]] * total >= K => cut[i] <= part[i]
                      /\ K * part[i] <= total * co[i]
  <2> SUFFICES ASSUME NEW i \in D
               PROVE  /\ co[i] \in Nat /\ part[i] \in Nat /\ cut[i] \in Nat
                      /\ cut[i] >= 1 /\ cut[i] <= part[i] + 1
                      /\ counts[order[i]] * total >= K => cut[i] <= part[i]
                      /\ K * part[i] <= total * co[i]
      OBVIOUS
  <2>1. /\ co[i] = counts[order[i]] /\ part[i] = (counts[order[i]] * total) \div K
        /\ cut[i] = ShareOf(counts[order[i]], total, K, low)
      OBVIOUS
  <2> DEFINE c == counts[order[i]]
  <2>2. c \in Nat \ {0}
      BY <1>4
  <2> HIDE DEF c
  <2>3. LET h == (c * total) \div K
            share == ShareOf(c, total, K, low)
        IN  /\ share \in Nat /\ share >= 1 /\ share <= h + 1
            /\ c * total >= K => share <= h
            /\ h \in Nat /\ K * h <= total * c
      BY <1>7, <2>2, ShareBounds
  <2>4. c = counts[order[i]]
      BY DEF c
  <2> HIDE DEF co, part, cut
  <2> QED BY <2>1, <2>2, <2>3, <2>4
<1>9. \A i, j \in D : i < j => cut[i] >= cut[j]
  <2> SUFFICES ASSUME NEW i \in D, NEW j \in D, i < j PROVE cut[i] >= cut[j]
      OBVIOUS
  <2>1. counts[order[j]] <= counts[order[i]]
      BY <1>3, <1>4
  <2>2. ShareOf(counts[order[i]], total, K, low) >= ShareOf(counts[order[j]], total, K, low)
      BY <1>4, <1>7, <2>1, SharesFollowCounts
  <2> QED BY <2>2
<1>10. Total(co) <= K
  <2> DEFINE name == [i \in D |-> order[i]]
  <2>1. name \in [D -> 1..m] /\ counts \in [1..m -> Nat]
      BY <1>4
  <2>2. \A x, y \in D : name[x] = name[y] => x = y
      BY <1>3
  <2>3. \A x \in D : co[x] = counts[name[x]]
      OBVIOUS
  <2> HIDE DEF name, co, D
  <2>4. co \in [D -> Int]
      BY <1>8
  <2>5. m \in Nat
      OBVIOUS
  <2>6. Renamed(co, counts, name, D, 1..m)
    <3>1. counts \in [1..m -> Int]
        BY <2>1
    <3> QED BY <2>1, <2>2, <2>3, <2>4, <3>1, Zenon DEF Renamed
  <2> QED BY <1>1, <2>1, <2>5, <2>6, SomeCounts, Zenon DEF K
<1>11. \A i \in D : counts[order[i]] * total \in Int
  <2> DEFINE c(i) == counts[order[i]]
  <2>1. \A i \in D : c(i) \in Nat
      BY <1>4
  <2> HIDE DEF c, D
  <2>2. \A i \in D : c(i) * total \in Int
      BY <2>1
  <2> QED BY <2>2 DEF c
<1> HIDE DEF co, part, cut
<1>12. /\ Len(out) = n /\ Total(out) >= total
       /\ Total(out) > total => Total(out) - total <= n /\ \E i \in D : ~(cut[i] <= part[i])
       /\ Falling(out, n)
  <2>1. n \in Nat \ {0}
      BY <1>1
  <2>2. InParts(co, part, cut, K, total, D)
      BY <1>7, <1>8, <1>10 DEF InParts
  <2>3. Settled(out, cut, total)
      BY <1>2 DEF Settled
  <2>4. Falling(cut, n)
      BY <1>8, <1>9 DEF Falling
  <2> QED BY <2>1, <2>2, <2>3, <2>4, SharesFromParts
<1>13. (\E i \in D : ~(cut[i] <= part[i])) => \E i \in D : counts[order[i]] * total < K
  <2>1. \A i \in D : ~(cut[i] <= part[i]) => ~(counts[order[i]] * total >= K)
      BY <1>8
  <2>2. K \in Int
      BY <1>7
  <2> DEFINE p(i) == counts[order[i]] * total
  <2>3. \A i \in D : p(i) \in Int
      BY <1>11
  <2>4. \A i \in D : ~(cut[i] <= part[i]) => ~(p(i) >= K)
      BY <2>1
  <2> HIDE DEF p, D
  <2>5. \A i \in D : ~(p(i) >= K) => p(i) < K
      BY <2>2, <2>3
  <2>6. (\E i \in D : ~(cut[i] <= part[i])) => \E i \in D : p(i) < K
      BY <2>4, <2>5
  <2> QED BY <2>6 DEF p
<1> QED BY <1>12, <1>13, Zenon DEF SharesAre, Falling, K, out, D

SharesShown ==
  answer.kind = "shares" => SharesAre(answer.shares, task.counts, task.total, answer.order)

\* What is proved of the shares is the property that is checked.
LEMMA SharesShownRight == SharesShown => SharesRight
BY Zenon DEF SharesShown, SharesRight, SharesAre, Total

\* The answer about shares is right, however the names of equal count come.
LEMMA SharesAnswerRight ==
  ASSUME TaskOK, AnswerShares
  PROVE  SharesShown'
<1>1. task.kind = "shares" /\ task' = task
    BY DEF AnswerShares, Answers
<1>2. PICK order \in Orders(task.counts), low \in SUBSET ToSet(task.counts) :
        answer' = [kind |-> "shares", shares |-> Shares(task.counts, task.total, order, low),
                   order |-> order]
    BY DEF AnswerShares
<1> DEFINE counts == task.counts
           m == Len(counts)
<1>3. task.total \in Nat /\ counts \in UpTo(1..MaxCount, 4) \ {<<>>}
    BY <1>1, AlgorithmsAssumption DEF TaskOK, ShareTasks
<1>4. m \in Nat \ {0} /\ counts \in [1..m -> Nat \ {0}]
  <2>1. counts \in Seq(1..MaxCount) /\ m \in 0..4 /\ counts \in [1..m -> 1..MaxCount]
      BY <1>3, SequencesUpTo
  <2>2. m # 0
      BY <1>3, <2>1
  <2>3. \A c \in 1..MaxCount : c \in Nat \ {0}
      BY AlgorithmsAssumption
  <2> HIDE DEF m
  <2> QED BY <2>1, <2>2, <2>3
<1>5. /\ order \in [1..m -> 1..m]
      /\ \A i, j \in 1..m : order[i] = order[j] => i = j
      /\ \A i, j \in 1..m : i < j => counts[order[i]] >= counts[order[j]]
  <2>1. order \in SetToSeqs(DOMAIN counts)
        /\ \A i, j \in DOMAIN order : i < j => counts[order[i]] >= counts[order[j]]
      BY <1>2 DEF Orders
  <2>2. DOMAIN counts = 1..m
      BY <1>4
  <2>3. Cardinality(1..m) = m
    <3>1. 1 \in Int /\ m \in Int
        BY <1>4
    <3>2. Cardinality(1..m) = IF 1 > m THEN 0 ELSE m - 1 + 1
        BY <3>1, FS_Interval
    <3> HIDE DEF m
    <3> QED BY <1>4, <3>2
  <2> HIDE DEF m, counts
  <2>4. /\ order \in [1..m -> 1..m]
        /\ \A i, j \in 1..m : i # j => order[i] # order[j]
      BY <2>1, <2>2, <2>3 DEF SetToSeqs
  <2> QED BY <2>1, <2>4
<1> HIDE DEF m, counts
<1>6. SharesAre(Shares(counts, task.total, order, low), counts, task.total, order)
    BY <1>3, <1>4, <1>5, SharesHold
<1> DEFINE out == Shares(counts, task.total, order, low)
<1> HIDE DEF out
<1>7. answer'.shares = out /\ answer'.order = order /\ answer'.kind = "shares"
    BY <1>2 DEF out, counts
<1>8. SharesAre(answer'.shares, task'.counts, task'.total, answer'.order)
    BY <1>1, <1>6, <1>7 DEF out, counts
<1> QED BY <1>8 DEF SharesShown

----------------------------------------------------------------------------
(* Rows of the dashboard *)

\* g pairs the members of S with those of T.
Matches(g, S, T) ==
  /\ g \in [S -> T] /\ \A x, y \in S : g[x] = g[y] => x = y
  /\ \A y \in T : \E x \in S : g[x] = y

\* Sets whose members pair up are of one size.
LEMMA SameSize ==
  ASSUME NEW S, IsFiniteSet(S), NEW T, NEW g, Matches(g, S, T)
  PROVE  IsFiniteSet(T) /\ Cardinality(T) = Cardinality(S)
<1>1. g \in [S -> T] /\ (\A x, y \in S : g[x] = g[y] => x = y) /\ \A y \in T : \E x \in S : g[x] = y
    BY DEF Matches
<1>2. g \in Injection(S, T)
    BY <1>1 DEF Injection, IsInjective
<1>3. g \in Surjection(S, T)
    BY <1>1 DEF Surjection
<1>4. ExistsBijection(S, T)
    BY <1>2, <1>3 DEF ExistsBijection, Bijection
<1> QED BY <1>4, FS_Bijection

\* Where the members of s that are picked stand in p.
Picked(s, I, p, at) ==
  /\ Len(p) \in Nat /\ DOMAIN p = 1..Len(p) /\ at \in [I -> 1..Len(p)]
  /\ \A i \in I : p[at[i]] = s[i]
  /\ \A i, j \in I : i < j => at[i] < at[j]
  /\ \A k \in 1..Len(p) : \E i \in I : at[i] = k

\* What is picked of a sequence stands in its order.
LEMMA PickedAt ==
  ASSUME NEW s, NEW I \in SUBSET Int, IsFiniteSet(I)
  PROVE  \E at : Picked(s, I, Pick(s, I), at)
<1> DEFINE n == Cardinality(I)
           At(i) == 1 + Cardinality({j \in I : j < i})
           p == Pick(s, I)
           at == [i \in I |-> At(i)]
<1>1. /\ n \in Nat /\ DOMAIN p = 1..n /\ Len(p) = n
      /\ \A i \in I : At(i) \in 1..n /\ p[At(i)] = s[i]
      /\ \A i, j \in I : i < j => At(i) < At(j)
      /\ \A k \in 1..n : \E i \in I : At(i) = k /\ p[k] = s[i]
    BY PickIs
<1> HIDE DEF n, At, p
<1>2. Picked(s, I, p, at)
    BY <1>1 DEF Picked
<1> QED BY <1>2 DEF p

\* The rows of s with v views and type t.
RowsLike(s, v, t) == {i \in DOMAIN s : s[i].views = v /\ s[i].type = t}

\* Taking the first rows.
LEMMA TakeIs ==
  ASSUME NEW T, NEW s \in Seq(T), NEW n \in Nat
  PROVE  LET m == IF n <= Len(s) THEN n ELSE Len(s)
         IN  /\ Take(s, n) \in Seq(T) /\ Len(Take(s, n)) = m /\ DOMAIN Take(s, n) = 1..m
             /\ m \in 0..Len(s) /\ \A i \in 1..m : Take(s, n)[i] = s[i]
<1> DEFINE m == IF n <= Len(s) THEN n ELSE Len(s)
<1>1. Min({n, Len(s)}) = m
    BY MinOfTwo
<1>2. m \in 0..Len(s)
    OBVIOUS
<1>3. Take(s, n) = SubSeq(s, 1, m)
    BY <1>1 DEF Take
<1> HIDE DEF m
<1>4. /\ SubSeq(s, 1, m) \in Seq(T) /\ Len(SubSeq(s, 1, m)) = m
      /\ \A i \in 1..m : SubSeq(s, 1, m)[i] = s[i]
    BY <1>2
<1>5. DOMAIN SubSeq(s, 1, m) = 1..m
    BY <1>2, <1>4
<1> QED BY <1>2, <1>3, <1>4, <1>5 DEF m

AnyRow == [type : {"radio", "tv"}, views : 0..2]

\* The radio items are radio rows.
LEMMA RadioItems ==
  ASSUME NEW snaps \in Seq(RadioRow), NEW shows \in Seq(RadioRow), NEW songs \in Seq(RadioRow)
  PROVE  BuildRadioItems(snaps, shows, songs) \in Seq(RadioRow)
<1> DEFINE I == {i \in DOMAIN songs : ~songs[i].ignored}
           front == IF snaps # <<>> THEN snaps ELSE shows
<1>1. Pick(songs, I) \in Seq(RadioRow)
  <2>1. I \in SUBSET DOMAIN songs
      OBVIOUS
  <2> HIDE DEF I
  <2> QED BY <2>1, PickType
<1>2. front \in Seq(RadioRow)
    OBVIOUS
<1>3. BuildRadioItems(snaps, shows, songs) = Take(front, ShowLimit) \o Take(Pick(songs, I), SongLimit)
    BY DEF BuildRadioItems
<1> HIDE DEF front, I
<1>4. Take(front, ShowLimit) \in Seq(RadioRow) /\ Take(Pick(songs, I), SongLimit) \in Seq(RadioRow)
    BY <1>1, <1>2, ReportsAssumption, TakeIs
<1> QED BY <1>3, <1>4

\* How the rows come into order: place[k] is where the k-th was.
Arranged(rows, out, place) ==
  /\ DOMAIN out = DOMAIN rows /\ Matches(place, DOMAIN rows, DOMAIN rows)
  /\ \A k \in DOMAIN rows : out[k] = rows[place[k]]
  /\ \A j, k \in DOMAIN rows : j < k => out[j].views >= out[k].views

\* Sorting the top content by views puts each of any number of rows into one place,
\* those with more views first (the sort.SliceStable of mergeRadioAnalytics).
THEOREM MoreViewsFirst ==
  ASSUME NEW rows, NEW n \in Nat, DOMAIN rows = 1..n, \A i \in 1..n : rows[i].views \in Int
  PROVE  \E place : Arranged(rows, MoreViews(rows), place)
<1> DEFINE D == DOMAIN rows
           Before(i, j) == rows[i].views > rows[j].views \/ (rows[i].views = rows[j].views /\ i < j)
           B == [i \in D |-> {j \in D : Before(j, i)}]
           before(i) == {j \in D : Before(j, i)}
           place == [k \in D |-> CHOOSE i \in D : Cardinality(before(i)) = k - 1]
           out == MoreViews(rows)
<1>1. IsFiniteSet(D) /\ Cardinality(D) = n /\ D = 1..n
  <2>1. 1 \in Int /\ n \in Int
      OBVIOUS
  <2>2. IsFiniteSet(1..n) /\ Cardinality(1..n) = IF 1 > n THEN 0 ELSE n - 1 + 1
      BY <2>1, FS_Interval
  <2> QED BY <2>2
<1>2. Ordered(D, B)
  <2>1. \A x \in D : B[x] = {j \in D : Before(j, x)}
      OBVIOUS
  <2>2. B \in [D -> SUBSET D]
      OBVIOUS
  <2>3. \A i \in D : i \in Int /\ rows[i].views \in Int
      OBVIOUS
  <2> HIDE DEF B, D
  <2>4. \A x \in D : x \notin B[x]
      BY <2>1, <2>3
  <2>5. \A x, y \in D : x # y => x \in B[y] \/ y \in B[x]
      BY <2>1, <2>3
  <2>6. \A x, y \in D : x \in B[y] => B[x] \in SUBSET B[y]
    <3>1. \A x, y, z \in D : Before(z, x) /\ Before(x, y) => Before(z, y)
        BY <2>3
    <3> HIDE DEF Before
    <3> QED BY <2>1, <3>1
  <2> QED BY <1>1, <2>2, <2>4, <2>5, <2>6 DEF Ordered
<1>3. Ranked(D, B)
    BY <1>2, Places
<1> DEFINE rank(i) == Cardinality(B[i])
<1>4. /\ \A i \in D : rank(i) \in 0..(n - 1)
      /\ \A i, j \in D : i \in B[j] => rank(i) < rank(j)
      /\ \A i, j \in D : rank(i) = rank(j) => i = j
      /\ \A k \in 0..(n - 1) : \E i \in D : rank(i) = k
    BY <1>1, <1>3 DEF Ranked
<1>5. out = [k \in D |-> rows[place[k]]]
    BY DEF MoreViews, Sorted
<1>6. \A i \in D : Cardinality(before(i)) = rank(i)
  <2>1. \A i \in D : B[i] = before(i)
      OBVIOUS
  <2> HIDE DEF B, before
  <2> QED BY <2>1
<1> HIDE DEF rank, before
<1>7. \A k \in D : place[k] \in D /\ rank(place[k]) = k - 1
  <2> SUFFICES ASSUME NEW k \in D PROVE place[k] \in D /\ rank(place[k]) = k - 1
      OBVIOUS
  <2>1. k - 1 \in 0..(n - 1)
      BY <1>1
  <2>2. \E i \in D : Cardinality(before(i)) = k - 1
      BY <1>4, <1>6, <2>1
  <2> HIDE DEF D
  <2>3. place[k] = CHOOSE i \in D : Cardinality(before(i)) = k - 1
      OBVIOUS
  <2> HIDE DEF place
  <2>4. place[k] \in D /\ Cardinality(before(place[k])) = k - 1
      BY <2>2, <2>3
  <2> QED BY <1>6, <2>4
<1>8. \A k \in D : k \in 1..n
    BY <1>1
<1>9. DOMAIN place = D
    OBVIOUS
<1>10. DOMAIN out = D /\ \A k \in D : out[k] = rows[place[k]]
    BY <1>5
<1>11. \A i, j \in D : i \in B[j] <=> Before(i, j)
    OBVIOUS
<1>12. \A i \in D : rows[i].views \in Int
    OBVIOUS
<1>13. place = [k \in D |-> place[k]]
    BY <1>9
<1> HIDE DEF place, out, D, B
<1>14. Matches(place, D, D)
  <2>1. place \in [D -> D]
      BY <1>7, <1>13
  <2>2. \A x, y \in D : place[x] = place[y] => x = y
    <3> SUFFICES ASSUME NEW x \in D, NEW y \in D, place[x] = place[y] PROVE x = y
        OBVIOUS
    <3>1. x - 1 = y - 1
        BY <1>7
    <3> QED BY <1>8, <3>1
  <2>3. \A i \in D : \E k \in D : place[k] = i
    <3> SUFFICES ASSUME NEW i \in D PROVE \E k \in D : place[k] = i
        OBVIOUS
    <3>1. rank(i) + 1 \in D /\ (rank(i) + 1) - 1 = rank(i)
        BY <1>1, <1>4
    <3>2. rank(place[rank(i) + 1]) = rank(i) /\ place[rank(i) + 1] \in D
        BY <1>7, <3>1
    <3>3. place[rank(i) + 1] = i
        BY <1>4, <3>2
    <3> QED BY <3>1, <3>3
  <2> QED BY <2>1, <2>2, <2>3 DEF Matches
<1>15. \A j, k \in D : j < k => out[j].views >= out[k].views
  <2> SUFFICES ASSUME NEW j \in D, NEW k \in D, j < k PROVE out[j].views >= out[k].views
      OBVIOUS
  <2> DEFINE a == place[j]
             b == place[k]
  <2>1. a \in D /\ b \in D /\ rank(a) = j - 1 /\ rank(b) = k - 1
      BY <1>7
  <2>2. ~Before(b, a)
    <3>1. rank(a) < rank(b)
        BY <1>8, <2>1
    <3>2. ~(rank(b) < rank(a))
        BY <1>4, <2>1, <3>1
    <3> HIDE DEF a, b, Before
    <3> QED BY <1>4, <1>11, <2>1, <3>2
  <2>3. rows[a].views \in Int /\ rows[b].views \in Int
      BY <1>12, <2>1
  <2>4. out[j] = rows[a] /\ out[k] = rows[b]
      BY <1>10
  <2>5. ~(rows[b].views > rows[a].views)
      BY <2>2
  <2> QED BY <2>3, <2>4, <2>5
<1>16. Arranged(rows, out, place)
    BY <1>10, <1>14, <1>15 DEF Arranged, D
<1> QED BY <1>16 DEF out

\* Putting rows in order changes nothing about how many there are of a sort.
LEMMA ArrangedRows ==
  ASSUME NEW rows, IsFiniteSet(DOMAIN rows), NEW out, NEW place, Arranged(rows, out, place),
         NEW v, NEW t
  PROVE  Cardinality(RowsLike(out, v, t)) = Cardinality(RowsLike(rows, v, t))
<1> DEFINE D == DOMAIN rows
           S == RowsLike(out, v, t)
           T == RowsLike(rows, v, t)
           g == [k \in S |-> place[k]]
<1>1. /\ DOMAIN out = D /\ place \in [D -> D] /\ \A k \in D : out[k] = rows[place[k]]
      /\ \A x, y \in D : place[x] = place[y] => x = y
      /\ \A y \in D : \E x \in D : place[x] = y
    BY DEF Arranged, Matches
<1>2. S = {k \in D : out[k].views = v /\ out[k].type = t}
    BY <1>1 DEF RowsLike
<1>3. T = {k \in D : rows[k].views = v /\ rows[k].type = t}
    BY DEF RowsLike
<1> HIDE DEF S, T
<1>4. \A k \in D : k \in S <=> place[k] \in T
    BY <1>1, <1>2, <1>3
<1>5. S \in SUBSET D /\ T \in SUBSET D
    BY <1>2, <1>3
<1>6. IsFiniteSet(S)
    BY <1>5, FS_Subset
<1> HIDE DEF D
<1>7. Matches(g, S, T)
    BY <1>1, <1>4, <1>5 DEF Matches
<1>8. Cardinality(T) = Cardinality(S)
  <2> HIDE DEF g
  <2> QED BY <1>6, <1>7, SameSize
<1> QED BY <1>8 DEF S, T

\* The positions of a sequence are 1 to its length.
LEMMA DomainIsFinite ==
  ASSUME NEW T, NEW s \in Seq(T)
  PROVE  IsFiniteSet(DOMAIN s) /\ DOMAIN s = 1..Len(s) /\ Len(s) \in Nat
<1>1. Len(s) \in Nat /\ DOMAIN s = 1..Len(s)
    OBVIOUS
<1>2. IsFiniteSet(1..Len(s))
    BY <1>1, FS_Interval
<1> QED BY <1>1, <1>2

\* A sequence has finitely many rows of a sort.
LEMMA RowsAreFinite ==
  ASSUME NEW T, NEW s \in Seq(T), NEW v, NEW t
  PROVE  IsFiniteSet(RowsLike(s, v, t)) /\ Cardinality(RowsLike(s, v, t)) \in Nat
<1>1. RowsLike(s, v, t) \in SUBSET DOMAIN s
    BY DEF RowsLike
<1> QED BY <1>1, DomainIsFinite, FS_Subset, FS_CardinalityType

\* Behind rows of other types the items are the radio rows.
LEMMA RadioRows ==
  ASSUME NEW others \in Seq(AnyRow), \A i \in DOMAIN others : others[i].type # "radio",
         NEW items \in Seq(RadioRow), NEW v
  PROVE  Cardinality(RowsLike(others \o items, v, "radio")) = Cardinality(RowsLike(items, v, "radio"))
<1> DEFINE n == Len(others)
           rows == others \o items
           S == RowsLike(items, v, "radio")
           T == RowsLike(rows, v, "radio")
           g == [k \in S |-> n + k]
<1>1. /\ n \in Nat /\ Len(items) \in Nat /\ DOMAIN rows = 1..(n + Len(items))
      /\ DOMAIN items = 1..Len(items) /\ DOMAIN others = 1..n
    OBVIOUS
<1>2. /\ \A k \in 1..n : rows[k] = others[k]
      /\ \A k \in 1..Len(items) : rows[n + k] = items[k]
    OBVIOUS
<1> HIDE DEF n, rows
<1>3. \A k \in DOMAIN rows : k \in 1..n \/ (k - n \in 1..Len(items) /\ n + (k - n) = k)
    BY <1>1
<1>4. S \in SUBSET (1..Len(items)) /\ IsFiniteSet(S)
  <2>1. S \in SUBSET (1..Len(items))
      BY <1>1 DEF RowsLike
  <2> QED BY <2>1, RowsAreFinite
<1>5. \A k \in S : n + k \in T
    BY <1>1, <1>2, <1>4 DEF RowsLike
<1>6. \A k \in T : k - n \in S /\ n + (k - n) = k
    BY <1>1, <1>2, <1>3 DEF RowsLike
<1>7. \A x, y \in S : n + x = n + y => x = y
    BY <1>1, <1>4
<1> HIDE DEF S, T
<1>8. Matches(g, S, T)
    BY <1>5, <1>6, <1>7 DEF Matches
<1>9. Cardinality(T) = Cardinality(S)
  <2> HIDE DEF g
  <2> QED BY <1>4, <1>8, SameSize
<1> QED BY <1>9 DEF S, T, rows

\* In front of the items are the other rows of the content, all of them.
LEMMA OtherRows ==
  ASSUME NEW content \in Seq(AnyRow), NEW items \in Seq(RadioRow), NEW v,
         NEW I, I = {i \in DOMAIN content : content[i].type # "radio"}
  PROVE  Cardinality(RowsLike(Pick(content, I) \o items, v, "tv")) = Cardinality(RowsLike(content, v, "tv"))
<1> DEFINE others == Pick(content, I)
           rows == others \o items
           S == RowsLike(content, v, "tv")
           T == RowsLike(rows, v, "tv")
<1>1. I \in SUBSET DOMAIN content /\ I \in SUBSET Int /\ IsFiniteSet(I) /\ others \in Seq(AnyRow)
  <2>1. I \in SUBSET DOMAIN content
      OBVIOUS
  <2> QED BY <2>1, PickType
<1>2. PICK at : Picked(content, I, others, at)
    BY <1>1, PickedAt
<1> HIDE DEF others
<1> DEFINE n == Len(others)
<1>3. /\ at \in [I -> 1..n] /\ \A i \in I : others[at[i]] = content[i]
      /\ \A i, j \in I : i < j => at[i] < at[j]
      /\ \A k \in 1..n : \E i \in I : at[i] = k
    BY <1>2 DEF Picked
<1>4. /\ n \in Nat /\ Len(items) \in Nat /\ DOMAIN rows = 1..(n + Len(items))
    BY <1>1
<1>5. /\ \A k \in 1..n : rows[k] = others[k]
      /\ \A k \in (n + 1)..(n + Len(items)) : rows[k] = items[k - n] /\ k - n \in 1..Len(items)
    BY <1>1
<1>6. \A k \in (n + 1)..(n + Len(items)) : rows[k].type = "radio"
  <2> SUFFICES ASSUME NEW k \in (n + 1)..(n + Len(items)) PROVE rows[k].type = "radio"
      OBVIOUS
  <2>1. rows[k] = items[k - n] /\ k - n \in DOMAIN items
      BY <1>5
  <2>2. items[k - n] \in RadioRow
      BY <2>1
  <2> QED BY <2>1, <2>2 DEF RadioRow
<1>7. \A k \in DOMAIN rows : k \in 1..n \/ k \in (n + 1)..(n + Len(items))
    BY <1>4
<1>8. \A k \in 1..n : k \in DOMAIN rows
    BY <1>4
<1> HIDE DEF n, rows
<1>9. S \in SUBSET I /\ IsFiniteSet(S)
  <2>1. S \in SUBSET I
      BY DEF RowsLike
  <2> QED BY <2>1, RowsAreFinite
<1>10. \A i \in S : at[i] \in T
    BY <1>3, <1>5, <1>8, <1>9 DEF RowsLike
<1>11. \A k \in T : \E i \in S : at[i] = k
  <2> SUFFICES ASSUME NEW k \in T PROVE \E i \in S : at[i] = k
      OBVIOUS
  <2>1. k \in DOMAIN rows /\ rows[k].views = v /\ rows[k].type = "tv"
      BY DEF RowsLike
  <2>2. k \in 1..n
      BY <1>6, <1>7, <2>1
  <2>3. PICK i \in I : at[i] = k
      BY <1>3, <2>2
  <2>4. content[i] = rows[k]
      BY <1>3, <1>5, <2>2, <2>3
  <2>5. i \in S
      BY <1>1, <2>1, <2>4 DEF RowsLike
  <2> QED BY <2>3, <2>5
<1>12. \A x, y \in S : at[x] = at[y] => x = y
  <2> SUFFICES ASSUME NEW x \in S, NEW y \in S, x # y PROVE at[x] # at[y]
      OBVIOUS
  <2>1. x \in I /\ y \in I /\ x \in Int /\ y \in Int
      BY <1>1, <1>9
  <2>2. at[x] \in Int /\ at[y] \in Int
    <3>1. at[x] \in 1..n /\ at[y] \in 1..n
        BY <1>3, <2>1
    <3> QED BY <3>1
  <2>3. at[x] < at[y] \/ at[y] < at[x]
      BY <1>3, <2>1
  <2> QED BY <2>2, <2>3
<1> HIDE DEF S, T
<1> DEFINE g == [i \in S |-> at[i]]
<1>13. Matches(g, S, T)
    BY <1>10, <1>11, <1>12 DEF Matches
<1>14. Cardinality(T) = Cardinality(S)
  <2> HIDE DEF g
  <2> QED BY <1>9, <1>13, SameSize
<1> QED BY <1>14 DEF S, T, rows, others

\* What the rows on top owe to those they are taken from.
TopOf(top, rows) ==
  /\ \A v \in 0..2, t \in {"radio", "tv"} :
       /\ Cardinality(RowsLike(top, v, t)) <= Cardinality(RowsLike(rows, v, t))
       /\ Cardinality(RowsLike(top, v, t)) < Cardinality(RowsLike(rows, v, t)) =>
            Len(top) = TopLimit /\ \A i \in DOMAIN top : top[i].views >= v
  /\ \A i, j \in DOMAIN top : i < j => top[i].views >= top[j].views
  /\ \A i \in DOMAIN top : \E k \in DOMAIN rows : top[i] = rows[k]

\* The first rows of the sorted ones leave out none with more views than one of them.
LEMMA TopRows ==
  ASSUME NEW rows \in Seq(AnyRow \cup RadioRow)
  PROVE  TopOf(Take(MoreViews(rows), TopLimit), rows)
<1> DEFINE n == Len(rows)
           out == MoreViews(rows)
           m == IF TopLimit <= n THEN TopLimit ELSE n
           top == Take(out, TopLimit)
<1>1. n \in Nat /\ DOMAIN rows = 1..n /\ IsFiniteSet(DOMAIN rows)
    BY DomainIsFinite
<1>2. \A i \in 1..n : rows[i] \in AnyRow \cup RadioRow
    BY <1>1
<1>3. \A i \in 1..n : rows[i].views \in 0..2
    BY <1>2 DEF AnyRow, RadioRow
<1>4. \A i \in 1..n : rows[i].views \in Int
    BY <1>3
<1>5. PICK place : Arranged(rows, out, place)
    BY <1>1, <1>4, MoreViewsFirst
<1> HIDE DEF n, out
<1>6. /\ DOMAIN out = 1..n /\ \A k \in 1..n : place[k] \in 1..n /\ out[k] = rows[place[k]]
      /\ \A j, k \in 1..n : j < k => out[j].views >= out[k].views
    BY <1>1, <1>5 DEF Arranged, Matches
<1>7. out \in Seq(AnyRow \cup RadioRow) /\ Len(out) = n
  <2>1. out = [k \in 1..n |-> rows[place[k]]]
    <3>1. out = [k \in DOMAIN out |-> out[k]]
      <4>1. out = MoreViews(rows)
          BY DEF out
      <4> QED BY <4>1 DEF MoreViews, Sorted
    <3> QED BY <1>6, <3>1
  <2> QED BY <1>1, <1>2, <1>6, <2>1
<1>8. /\ m \in 0..n /\ Len(top) = m /\ DOMAIN top = 1..m /\ \A i \in 1..m : top[i] = out[i]
  <2>1. TopLimit \in Nat
      BY ReportsAssumption
  <2> QED BY <1>7, <2>1, TakeIs
<1>9. m # n => m = TopLimit
    OBVIOUS
<1> HIDE DEF m, top
<1>10. \A i \in 1..m : i \in 1..n /\ i \in Int /\ i <= m
    BY <1>1, <1>8
<1>11. \A i \in 1..n : out[i].views \in 0..2
    BY <1>3, <1>6
<1>12. ASSUME NEW v \in 0..2, NEW t \in {"radio", "tv"}
       PROVE  /\ Cardinality(RowsLike(top, v, t)) <= Cardinality(RowsLike(rows, v, t))
              /\ Cardinality(RowsLike(top, v, t)) < Cardinality(RowsLike(rows, v, t)) =>
                   Len(top) = TopLimit /\ \A i \in DOMAIN top : top[i].views >= v
  <2> DEFINE A == RowsLike(top, v, t)
             B == RowsLike(out, v, t)
  <2>1. Cardinality(B) = Cardinality(RowsLike(rows, v, t))
      BY <1>1, <1>5, ArrangedRows
  <2>2. A = {i \in 1..m : out[i].views = v /\ out[i].type = t}
      BY <1>8 DEF RowsLike
  <2>3. B = {i \in 1..n : out[i].views = v /\ out[i].type = t}
      BY <1>6 DEF RowsLike
  <2>4. IsFiniteSet(B)
      BY <1>7, RowsAreFinite
  <2> HIDE DEF A, B
  <2>5. A \in SUBSET B
      BY <1>10, <2>2, <2>3
  <2>6. Cardinality(A) <= Cardinality(B) /\ (Cardinality(A) = Cardinality(B) => A = B)
      BY <2>4, <2>5, FS_Subset
  <2>7. ASSUME Cardinality(A) < Cardinality(B)
        PROVE  Len(top) = TopLimit /\ \A i \in DOMAIN top : top[i].views >= v
    <3>1. A # B
        BY <2>4, <2>7, FS_CardinalityType
    <3>2. PICK k \in B : k \notin A
        BY <2>5, <3>1
    <3>3. k \in 1..n /\ out[k].views = v /\ k \notin 1..m
        BY <2>2, <2>3, <3>2
    <3>4. k > m
        BY <1>1, <1>8, <3>3
    <3>5. m = TopLimit
        BY <1>1, <1>9, <3>3
    <3>6. \A i \in 1..m : i < k
        BY <1>8, <1>10, <3>3, <3>4
    <3>7. \A i \in 1..m : out[i].views >= v
        BY <1>6, <1>10, <3>3, <3>6
    <3> QED BY <1>8, <3>5, <3>7
  <2> QED BY <2>1, <2>6, <2>7 DEF A
<1>13. \A i, j \in DOMAIN top : i < j => top[i].views >= top[j].views
    BY <1>6, <1>8, <1>10
<1>14. \A i \in DOMAIN top : \E k \in DOMAIN rows : top[i] = rows[k]
    BY <1>1, <1>6, <1>8, <1>10
<1>15. TopOf(top, rows)
    BY <1>12, <1>13, <1>14 DEF TopOf
<1> QED BY <1>15 DEF top, out

\* The same of the rows of the content, and of the radio items.
ShownOf(top, content, items) ==
  /\ \A v \in 0..2 :
       /\ Cardinality(RowsLike(top, v, "radio")) <= Cardinality(RowsLike(items, v, "radio"))
       /\ Cardinality(RowsLike(top, v, "tv")) <= Cardinality(RowsLike(content, v, "tv"))
       /\ \/ Cardinality(RowsLike(top, v, "radio")) < Cardinality(RowsLike(items, v, "radio"))
          \/ Cardinality(RowsLike(top, v, "tv")) < Cardinality(RowsLike(content, v, "tv"))
          => Len(top) = TopLimit /\ \A i \in DOMAIN top : top[i].views >= v
  /\ \A i, j \in DOMAIN top : i < j => top[i].views >= top[j].views
  /\ \A i \in DOMAIN top :
       top[i].type = "radio" => \E k \in DOMAIN items : items[k].views = top[i].views

\* The top content owes this to the content and to the radio items.
LEMMA TopContentIs ==
  ASSUME NEW content \in Seq(AnyRow), NEW items \in Seq(RadioRow)
  PROVE  ShownOf(TopContent(content, items), content, items)
<1> DEFINE I == {i \in DOMAIN content : content[i].type # "radio"}
           others == Pick(content, I)
           rows == others \o items
           top == TopContent(content, items)
<1>1. top = Take(MoreViews(rows), TopLimit)
    BY DEF TopContent
<1>2. I \in SUBSET DOMAIN content /\ I \in SUBSET Int /\ IsFiniteSet(I) /\ others \in Seq(AnyRow)
  <2>1. I \in SUBSET DOMAIN content
      OBVIOUS
  <2> QED BY <2>1, PickType
<1>3. \A k \in DOMAIN others : others[k].type # "radio"
  <2>1. PICK at : Picked(content, I, others, at)
      BY <1>2, PickedAt
  <2> HIDE DEF others
  <2>2. \A k \in DOMAIN others : \E i \in I : others[k] = content[i]
      BY <2>1 DEF Picked
  <2> QED BY <2>2
<1>4. \A v : Cardinality(RowsLike(rows, v, "tv")) = Cardinality(RowsLike(content, v, "tv"))
    BY OtherRows
<1> HIDE DEF I, others
<1>5. \A v : Cardinality(RowsLike(rows, v, "radio")) = Cardinality(RowsLike(items, v, "radio"))
    BY <1>2, <1>3, RadioRows
<1>6. rows \in Seq(AnyRow \cup RadioRow)
  <2>1. others \in Seq(AnyRow \cup RadioRow) /\ items \in Seq(AnyRow \cup RadioRow)
      BY <1>2
  <2> QED BY <2>1
<1>7. \A k \in DOMAIN rows : rows[k].type = "radio" => \E j \in DOMAIN items : items[j] = rows[k]
  <2> DEFINE n == Len(others)
  <2>1. n \in Nat /\ DOMAIN others = 1..n
      BY <1>2
  <2>2. \A k \in 1..n : rows[k] = others[k]
      BY <1>2
  <2>3. \A k \in DOMAIN rows : k \in 1..n \/ (k - n \in DOMAIN items /\ rows[k] = items[k - n])
      BY <1>2
  <2> HIDE DEF n, rows
  <2> QED BY <1>3, <2>1, <2>2, <2>3
<1> HIDE DEF rows, top
<1>8. TopOf(top, rows)
    BY <1>1, <1>6, TopRows
<1>9. \A i \in DOMAIN top :
         top[i].type = "radio" => \E k \in DOMAIN items : items[k].views = top[i].views
    BY <1>7, <1>8, Zenon DEF TopOf
<1> QED BY <1>4, <1>5, <1>8, <1>9 DEF TopOf, ShownOf, top

\* What the items come to, and what it makes of the breakdown.
Heard(items) == FoldFunction(+, 0, [i \in DOMAIN items |-> items[i].views])

Broken(views, breakdown, items) ==
  /\ Heard(items) # 0 \/ "radio" \notin DOMAIN breakdown => views["radio"] = Heard(items)
  /\ \A t \in DOMAIN breakdown : t # "radio" \/ Heard(items) = 0 => views[t] = breakdown[t]

\* No item has more views than all of them.
LEMMA ItemsAreHeard ==
  ASSUME NEW items \in Seq(RadioRow)
  PROVE  /\ Heard(items) \in Nat
         /\ \A k \in DOMAIN items : items[k].views \in Nat /\ items[k].views <= Heard(items)
<1> DEFINE S == DOMAIN items
           f == [i \in S |-> items[i].views]
<1>1. IsFiniteSet(S)
    BY DomainIsFinite
<1>2. \A i \in S : items[i] \in RadioRow
    OBVIOUS
<1>3. f \in [S -> Nat] /\ f \in [S -> Int]
    BY <1>2 DEF RadioRow
<1>4. PICK F : Sums(f, F)
    BY <1>1, <1>3, SumsExist
<1>5. F[S] = Heard(items)
  <2>1. DOMAIN f = S
      OBVIOUS
  <2> QED BY <1>4, <2>1, Zenon DEF Sums, Total, Heard, f, S
<1>6. \A k \in S : f[k] = items[k].views
    OBVIOUS
<1>7. DOMAIN f = S
    OBVIOUS
<1> HIDE DEF f, S
<1>8. F[{}] = 0 /\ \A s \in SUBSET S : \A x \in s : F[s] = f[x] + F[s \ {x}]
    BY <1>4, <1>7 DEF Sums
<1>9. F[S] \in Nat
  <2>1. F[{}] <= F[S] /\ F[S] \in Int
      BY <1>1, <1>3, <1>4, SumOfPart
  <2> QED BY <1>8, <2>1
<1>10. \A k \in S : f[k] \in Nat /\ f[k] <= F[S]
  <2> SUFFICES ASSUME NEW k \in S PROVE f[k] \in Nat /\ f[k] <= F[S]
      OBVIOUS
  <2>1. f[k] \in Nat
      BY <1>3
  <2>2. {k} \in SUBSET S /\ {k} \ {k} = {}
      OBVIOUS
  <2>3. F[{k}] = f[k] + 0
      BY <1>8, <2>2
  <2>4. F[{k}] <= F[S]
      BY <1>1, <1>3, <1>4, <2>2, SumOfPart
  <2> QED BY <2>1, <2>3, <2>4
<1> QED BY <1>5, <1>6, <1>9, <1>10 DEF S

\* The radio's row counts all items, or stays as it was; other rows stay.
LEMMA RadioViewsIs ==
  ASSUME NEW breakdown, NEW items
  PROVE  Broken(RadioViews(breakdown, items), breakdown, items)
<1> DEFINE views == RadioViews(breakdown, items)
<1>1. views = IF Heard(items) = 0 /\ "radio" \in DOMAIN breakdown
                THEN breakdown
                ELSE [t \in DOMAIN breakdown \cup {"radio"} |->
                        IF t = "radio" THEN Heard(items) ELSE breakdown[t]]
    BY Zenon DEF RadioViews, Heard
<1> HIDE DEF views
<1>2. Broken(views, breakdown, items)
    BY <1>1 DEF Broken
<1> QED BY <1>2 DEF views

DashboardShown ==
  answer.kind = "dashboard" =>
    LET items == BuildRadioItems(task.snaps, task.shows, task.songs)
    IN  IF Merges(task.got, task.snaps, task.shows, task.songs)
          THEN /\ ShownOf(answer.top, task.content, items)
               /\ Broken(answer.views, task.breakdown, items)
               /\ \A i \in DOMAIN answer.top :
                    answer.top[i].type = "radio" => answer.top[i].views <= answer.views["radio"]
          ELSE answer.top = task.content /\ answer.views = task.breakdown

\* What is proved of the dashboard is the property that is checked.
LEMMA DashboardShownRight == DashboardShown => DashboardRight
<1> SUFFICES ASSUME DashboardShown, answer.kind = "dashboard" PROVE DashboardRight
    BY Zenon DEF DashboardRight
<1> DEFINE items == BuildRadioItems(task.snaps, task.shows, task.songs)
           merges == Merges(task.got, task.snaps, task.shows, task.songs)
<1>1. CASE ~merges
  <2>1. answer.top = task.content /\ answer.views = task.breakdown
      BY <1>1 DEF DashboardShown
  <2> QED BY <1>1, <2>1, Zenon DEF DashboardRight
<1>2. CASE merges
  <2>1. /\ ShownOf(answer.top, task.content, items) /\ Broken(answer.views, task.breakdown, items)
        /\ \A i \in DOMAIN answer.top :
             answer.top[i].type = "radio" => answer.top[i].views <= answer.views["radio"]
      BY <1>2 DEF DashboardShown
  <2> HIDE DEF items, merges
  <2>2. /\ \A v \in 0..2 :
             /\ Cardinality(RowsLike(answer.top, v, "radio")) <= Cardinality(RowsLike(items, v, "radio"))
             /\ Cardinality(RowsLike(answer.top, v, "tv")) <= Cardinality(RowsLike(task.content, v, "tv"))
             /\ \/ Cardinality(RowsLike(answer.top, v, "radio")) < Cardinality(RowsLike(items, v, "radio"))
                \/ Cardinality(RowsLike(answer.top, v, "tv")) < Cardinality(RowsLike(task.content, v, "tv"))
                => Len(answer.top) = TopLimit /\ \A i \in DOMAIN answer.top : answer.top[i].views >= v
        /\ \A i, j \in DOMAIN answer.top : i < j => answer.top[i].views >= answer.top[j].views
      BY <2>1 DEF ShownOf
  <2> QED BY <1>2, <2>1, <2>2, Zenon DEF DashboardRight, RowsLike, Broken, Heard, items, merges
<1> QED BY <1>1, <1>2

\* The answer about the dashboard is right.
LEMMA DashboardAnswerRight ==
  ASSUME TaskOK, AnswerDashboard
  PROVE  DashboardShown'
<1> DEFINE items == BuildRadioItems(task.snaps, task.shows, task.songs)
           merges == Merges(task.got, task.snaps, task.shows, task.songs)
           top == TopContent(task.content, items)
           views == RadioViews(task.breakdown, items)
<1>1. /\ task.kind = "dashboard" /\ task' = task
      /\ merges => answer'.top = top /\ answer'.views = views
      /\ ~merges => answer'.top = task.content /\ answer'.views = task.breakdown
    BY DEF AnswerDashboard, Answers
<1>2. task \in DashboardTasks
    BY <1>1 DEF TaskOK
<1>3. /\ task.content \in UpTo(AnyRow, MaxRows) /\ task.snaps \in UpTo(RadioRow, 1)
      /\ task.songs \in UpTo(RadioRow, MaxRows) /\ task.shows \in Seq(RadioRow)
      /\ \A t \in DOMAIN task.breakdown : task.breakdown[t] = 1
  <2>1. /\ task.content \in UpTo(AnyRow, MaxRows) /\ task.snaps \in UpTo(RadioRow, 1)
        /\ task.songs \in UpTo(RadioRow, MaxRows)
        /\ task.shows \in {<<>>, <<[type |-> "radio", views |-> 2, ignored |-> FALSE]>>}
        /\ task.breakdown \in [{"tv"} -> {1}] \cup [{"tv", "radio"} -> {1}]
      BY <1>2 DEF DashboardTasks, AnyRow
  <2>2. [type |-> "radio", views |-> 2, ignored |-> FALSE] \in RadioRow
      BY DEF RadioRow
  <2>3. <<>> \in Seq(RadioRow)
        /\ <<[type |-> "radio", views |-> 2, ignored |-> FALSE]>> \in Seq(RadioRow)
      BY <2>2
  <2> QED BY <2>1, <2>3
<1>4. /\ task.content \in Seq(AnyRow) /\ task.snaps \in Seq(RadioRow)
      /\ task.songs \in Seq(RadioRow) /\ MaxRows \in Nat
    BY <1>3, AlgorithmsAssumption, SequencesUpTo
<1>5. items \in Seq(RadioRow)
    BY <1>3, <1>4, RadioItems
<1> HIDE DEF items
<1>6. ShownOf(top, task.content, items)
    BY <1>4, <1>5, TopContentIs
<1>7. Broken(views, task.breakdown, items)
    BY RadioViewsIs
<1> HIDE DEF top, views
<1>8. \A i \in DOMAIN top : top[i].type = "radio" => top[i].views <= views["radio"]
  <2> SUFFICES ASSUME NEW i \in DOMAIN top, top[i].type = "radio"
               PROVE  top[i].views <= views["radio"]
      OBVIOUS
  <2>1. PICK k \in DOMAIN items : items[k].views = top[i].views
      BY <1>6 DEF ShownOf
  <2>2. Heard(items) \in Nat /\ top[i].views \in Nat /\ top[i].views <= Heard(items)
      BY <1>5, <2>1, ItemsAreHeard
  <2>3. CASE Heard(items) # 0 \/ "radio" \notin DOMAIN task.breakdown
    <3>1. views["radio"] = Heard(items)
        BY <1>7, <2>3 DEF Broken
    <3> QED BY <2>2, <3>1
  <2>4. CASE Heard(items) = 0 /\ "radio" \in DOMAIN task.breakdown
    <3>1. views["radio"] = 1
        BY <1>3, <1>7, <2>4 DEF Broken
    <3> QED BY <2>2, <2>4, <3>1
  <2> QED BY <2>3, <2>4
<1>9. CASE merges
  <2>1. answer'.top = top /\ answer'.views = views
      BY <1>1, <1>9
  <2> QED BY <1>1, <1>6, <1>7, <1>8, <1>9, <2>1 DEF DashboardShown, items
<1>10. CASE ~merges
  <2>1. answer'.top = task.content /\ answer'.views = task.breakdown
      BY <1>1, <1>10
  <2> QED BY <1>1, <1>10, <2>1 DEF DashboardShown
<1> QED BY <1>9, <1>10

----------------------------------------------------------------------------
(* The catalog *)

\* Backwards: the positions D of 1..n, counted from the end, are J.
IsMirrored(J, D, n) ==
  /\ J \in SUBSET (1..n) /\ Cardinality(J) = Cardinality(D)
  /\ \A i \in D : /\ (n - i) + 1 \in J
                  /\ Cardinality({h \in J : h < (n - i) + 1}) + 1
                       = Cardinality(D) - Cardinality({h \in D : h < i})

\* Counted from the end, what comes before a position is what came after it.
LEMMA MirrorRanks ==
  ASSUME NEW n \in Nat, NEW D \in SUBSET (1..n),
         NEW J, J = {k \in 1..n : (n - k) + 1 \in D}
  PROVE  IsMirrored(J, D, n)
<1>1. \A k \in 1..n : (n - k) + 1 \in 1..n /\ (n - ((n - k) + 1)) + 1 = k
    OBVIOUS
<1>2. \A i, k \in 1..n : i < k <=> (n - k) + 1 < (n - i) + 1
    OBVIOUS
<1>3. IsFiniteSet(1..n) /\ IsFiniteSet(D)
  <2>1. 1 \in Int /\ n \in Int
      OBVIOUS
  <2> QED BY <2>1, FS_Interval, FS_Subset
<1> DEFINE back(i) == (n - i) + 1
<1>4. /\ \A k \in 1..n : back(k) \in 1..n /\ back(back(k)) = k
      /\ \A i, k \in 1..n : i < k <=> back(k) < back(i)
    BY <1>1, <1>2
<1>5. J = {k \in 1..n : back(k) \in D}
    OBVIOUS
<1>6. \A i \in 1..n : i \in Int
    OBVIOUS
<1> HIDE DEF back
<1> DEFINE g == [i \in D |-> back(i)]
<1>7. Matches(g, D, J)
  <2>1. \A i \in D : back(i) \in J
      BY <1>4, <1>5
  <2>2. \A x, y \in D : back(x) = back(y) => x = y
      BY <1>4
  <2>3. \A k \in J : \E i \in D : back(i) = k
      BY <1>4, <1>5
  <2> QED BY <2>1, <2>2, <2>3 DEF Matches
<1>8. Cardinality(J) = Cardinality(D)
  <2> HIDE DEF g
  <2> QED BY <1>3, <1>7, SameSize
<1>9. ASSUME NEW i \in D
      PROVE  Cardinality({h \in J : h < back(i)}) + 1 = Cardinality(D) - Cardinality({h \in D : h < i})
  <2> DEFINE X == {h \in D : h > i}
             Y == {h \in J : h < back(i)}
             Z == {h \in D : h < i}
             f == [h \in X |-> back(h)]
  <2>1. IsFiniteSet(X) /\ IsFiniteSet(Z)
    <3>1. X \in SUBSET D /\ Z \in SUBSET D
        OBVIOUS
    <3> HIDE DEF X, Z
    <3> QED BY <1>3, <3>1, FS_Subset
  <2>2. Matches(f, X, Y)
    <3>1. \A h \in X : back(h) \in Y
      <4> SUFFICES ASSUME NEW h \in X PROVE back(h) \in Y
          OBVIOUS
      <4>1. h \in D /\ h \in 1..n /\ i \in 1..n /\ i < h
          BY <1>6
      <4>2. back(h) \in J /\ back(h) < back(i)
          BY <1>4, <1>5, <4>1
      <4> QED BY <4>2
    <3>2. \A x, y \in X : back(x) = back(y) => x = y
        BY <1>4
    <3>3. \A k \in Y : \E h \in X : back(h) = k
      <4> SUFFICES ASSUME NEW k \in Y PROVE \E h \in X : back(h) = k
          OBVIOUS
      <4>1. k \in 1..n /\ back(k) \in D /\ back(k) \in 1..n /\ k < back(i) /\ i \in 1..n
          BY <1>4, <1>5
      <4>2. back(i) \in 1..n /\ back(back(i)) = i
          BY <1>4, <4>1
      <4>3. i < back(k)
          BY <1>4, <4>1, <4>2
      <4>4. back(k) \in X
          BY <1>6, <4>1, <4>3
      <4> QED BY <1>4, <4>1, <4>4
    <3> HIDE DEF X, Y
    <3> QED BY <3>1, <3>2, <3>3 DEF Matches
  <2>3. Cardinality(Y) = Cardinality(X)
    <3> HIDE DEF f, X, Y
    <3> QED BY <2>1, <2>2, SameSize
  <2>4. D = (X \cup {i}) \cup Z /\ i \notin X /\ (X \cup {i}) \cap Z = {}
    <3>1. \A h \in D : h = i \/ h < i \/ h > i
        BY <1>6
    <3>2. \A h \in Z : h # i /\ ~(h > i)
        BY <1>6
    <3> QED BY <3>1, <3>2
  <2> HIDE DEF X, Y, Z
  <2>5. IsFiniteSet(X \cup {i}) /\ Cardinality(X \cup {i}) = Cardinality(X) + 1
      BY <2>1, <2>4, FS_AddElement
  <2>6. Cardinality(D) = Cardinality(X \cup {i}) + Cardinality(Z) - Cardinality({})
    <3>1. Cardinality((X \cup {i}) \cup Z)
            = Cardinality(X \cup {i}) + Cardinality(Z) - Cardinality((X \cup {i}) \cap Z)
        BY <2>1, <2>5, FS_Union
    <3> QED BY <2>4, <3>1
  <2>7. Cardinality({}) = 0 /\ Cardinality(X) \in Nat /\ Cardinality(Z) \in Nat
      BY <2>1, FS_EmptySet, FS_CardinalityType
  <2>8. Cardinality(Y) + 1 = Cardinality(D) - Cardinality(Z)
      BY <2>3, <2>5, <2>6, <2>7
  <2> QED BY <2>8 DEF Y, Z
<1>10. \A i \in D : back(i) \in J
    BY <1>4, <1>5
<1>11. J \in SUBSET (1..n)
    BY <1>5
<1>12. \A i \in D : Cardinality({h \in J : h < (n - i) + 1}) + 1
                      = Cardinality(D) - Cardinality({h \in D : h < i})
    BY <1>9 DEF back
<1>13. \A i \in D : (n - i) + 1 \in J
    BY <1>10 DEF back
<1> QED BY <1>8, <1>11, <1>12, <1>13 DEF IsMirrored

\* Of no positions nothing is picked.
LEMMA PickNothing == ASSUME NEW s PROVE Pick(s, {}) = <<>>
<1>1. Cardinality({}) = 0
    BY FS_EmptySet
<1>2. DOMAIN Pick(s, {}) = 1..0
    BY <1>1 DEF Pick
<1>3. Pick(s, {}) = [k \in 1..0 |-> s[CHOOSE i \in {} : Cardinality({j \in {} : j < i}) = k - 1]]
    BY <1>1 DEF Pick
<1> QED BY <1>3

\* Of some position something is picked.
LEMMA PickSomething ==
  ASSUME NEW s, NEW I \in SUBSET Int, IsFiniteSet(I), I # {}
  PROVE  Pick(s, I) # <<>>
<1>1. DOMAIN Pick(s, I) = 1..Cardinality(I)
    BY PickIs
<1>2. Cardinality(I) \in Nat /\ Cardinality(I) # 0
    BY FS_CardinalityType, FS_EmptySet
<1>3. 1 \in DOMAIN Pick(s, I)
    BY <1>1, <1>2
<1> QED BY <1>3

\* What the catalog should show of the show sh: its seasons that are due, the
\* newest first, each with its visible episodes.
DueSeasons(sh, po) == {i \in DOMAIN sh.seasons : ~po \/ (sh.published /\ sh.seasons[i].published)}
Visible(se, po) == Pick(se.episodes, {i \in DOMAIN se.episodes : ~po \/ se.episodes[i].published})
ListsSeasons(out, sh, po) ==
  LET due == DueSeasons(sh, po)
  IN  /\ Len(out) = Cardinality(due)
      /\ \A i \in due : out[Len(out) - Cardinality({j \in due : j < i})]
                          = [id |-> sh.seasons[i].id, episodes |-> Visible(sh.seasons[i], po)]

\* What it does show.
SeasonsShown(sh, po) ==
  LET all == Reverse(sh.seasons)
      seasons == Pick(all, {j \in DOMAIN all : po => all[j].published})
  IN  [j \in DOMAIN seasons |-> SeasonJSON(seasons[j], po)]

\* The seasons of a show in the catalog are those that are due, each in its place.
LEMMA SeasonsListed ==
  ASSUME NEW T, NEW sh, sh.seasons \in Seq(T), NEW po, po => sh.published
  PROVE  ListsSeasons(SeasonsShown(sh, po), sh, po)
<1> DEFINE s == sh.seasons
           all == Reverse(s)
           seasons == Pick(all, {j \in DOMAIN all : po => all[j].published})
           out == SeasonsShown(sh, po)
           n == Len(s)
           D == DueSeasons(sh, po)
           J == {j \in DOMAIN all : po => all[j].published}
<1>1. n \in Nat /\ DOMAIN s = 1..n /\ all \in Seq(T) /\ DOMAIN all = 1..n
      /\ \A k \in 1..n : (n - k) + 1 \in 1..n /\ all[k] = s[(n - k) + 1] /\ all[(n - k) + 1] = s[k]
    BY ReverseIs
<1>2. D = {i \in 1..n : po => s[i].published}
    BY <1>1 DEF DueSeasons
<1>3. J = {k \in 1..n : (n - k) + 1 \in D}
    BY <1>1, <1>2
<1>4. D \in SUBSET (1..n)
    BY <1>2
<1>5. seasons = Pick(all, J)
    OBVIOUS
<1>0. out = [j \in DOMAIN seasons |-> SeasonJSON(seasons[j], po)]
    BY DEF SeasonsShown
<1> HIDE DEF n, D, J, all, seasons, out
<1>6. IsMirrored(J, D, n)
    BY <1>1, <1>3, <1>4, MirrorRanks
<1>7. J \in SUBSET (1..n) /\ Cardinality(J) = Cardinality(D)
    BY <1>6 DEF IsMirrored
<1>8. IsFiniteSet(J) /\ J \in SUBSET Int
  <2>1. 1 \in Int /\ n \in Int
      BY <1>1
  <2>2. IsFiniteSet(1..n)
      BY <2>1, FS_Interval
  <2>3. \A k \in 1..n : k \in Int
      OBVIOUS
  <2>4. IsFiniteSet(J)
      BY <1>7, <2>2, FS_Subset
  <2> QED BY <1>7, <2>3, <2>4
<1> DEFINE At(i) == 1 + Cardinality({h \in J : h < i})
<1>9. /\ DOMAIN seasons = 1..Cardinality(J) /\ Cardinality(J) \in Nat
      /\ \A j \in J : At(j) \in 1..Cardinality(J) /\ seasons[At(j)] = all[j]
  <2>1. /\ DOMAIN Pick(all, J) = 1..Cardinality(J) /\ Cardinality(J) \in Nat
        /\ \A j \in J : At(j) \in 1..Cardinality(J) /\ Pick(all, J)[At(j)] = all[j]
      BY <1>8, PickIs
  <2> HIDE DEF At
  <2> QED BY <1>5, <2>1
<1>10. DOMAIN out = 1..Cardinality(D) /\ Cardinality(D) \in Nat
       /\ \A k \in 1..Cardinality(D) : out[k] = SeasonJSON(seasons[k], po)
    BY <1>0, <1>7, <1>9
<1>11. Len(out) = Cardinality(D)
    BY <1>10
<1>12. ASSUME NEW i \in D
       PROVE  out[Len(out) - Cardinality({j \in D : j < i})]
                = [id |-> s[i].id, episodes |-> Visible(s[i], po)]
  <2> DEFINE j == (n - i) + 1
             less == Cardinality({h \in J : h < j})
  <2>1. j \in J /\ less + 1 = Cardinality(D) - Cardinality({h \in D : h < i})
      BY <1>6 DEF IsMirrored
  <2>2. At(j) \in 1..Cardinality(D) /\ seasons[At(j)] = all[j]
      BY <1>7, <1>9, <2>1
  <2>3. At(j) = 1 + less
      OBVIOUS
  <2>4. less \in Nat
    <3>1. {h \in J : h < j} \in SUBSET J
        OBVIOUS
    <3> QED BY <1>8, <3>1, FS_Subset, FS_CardinalityType
  <2>5. all[j] = s[i]
      BY <1>1, <1>4
  <2> HIDE DEF At, less, j
  <2>6. 1 + less = less + 1
      BY <2>4
  <2>7. out[1 + less] = SeasonJSON(s[i], po)
      BY <1>10, <2>2, <2>3, <2>5
  <2>8. SeasonJSON(s[i], po) = [id |-> s[i].id, episodes |-> Visible(s[i], po)]
    <3>1. {h \in DOMAIN s[i].episodes : po => s[i].episodes[h].published}
            = {h \in DOMAIN s[i].episodes : ~po \/ s[i].episodes[h].published}
        OBVIOUS
    <3> QED BY <3>1 DEF SeasonJSON, Visible
  <2> QED BY <1>11, <2>1, <2>6, <2>7, <2>8
<1> QED BY <1>11, <1>12 DEF ListsSeasons, D, out

\* One show in the catalog, or none.
CatalogIs(out, sh, po) ==
  /\ out = <<>> => po /\ \A i \in DueSeasons(sh, po) : Visible(sh.seasons[i], po) = <<>>
  /\ out # <<>> => /\ ListsSeasons(out[1].seasons, sh, po)
                   /\ po => \E i \in DueSeasons(sh, po) : Visible(sh.seasons[i], po) # <<>>

\* The catalog has the show if it has something to show of it.
LEMMA PayloadIs ==
  ASSUME NEW po \in BOOLEAN, NEW shows, DOMAIN shows = {1},
         NEW sh, sh = shows[1], sh.seasons \in Seq(CatalogSeason), sh.published \in BOOLEAN
  PROVE  CatalogIs(BuildOnDemandPayload(shows, po), sh, po)
<1> DEFINE s == sh.seasons
           Listed(x) == po => x.published
           Has(x) == \E i \in DOMAIN x.seasons :
                       /\ x.seasons[i].published
                       /\ \E j \in DOMAIN x.seasons[i].episodes : x.seasons[i].episodes[j].published
           K == {i \in DOMAIN shows : Listed(shows[i]) /\ (po => Has(shows[i]))}
           kept == Pick(shows, K)
           row(i) == LET all == Reverse(kept[i].seasons)
                         seasons == Pick(all, {j \in DOMAIN all : Listed(all[j])})
                     IN  [id |-> kept[i].id,
                          seasons |-> [j \in DOMAIN seasons |-> SeasonJSON(seasons[j], po)]]
           out == BuildOnDemandPayload(shows, po)
<1>1. out = [i \in DOMAIN kept |-> row(i)]
    BY Zenon DEF BuildOnDemandPayload
<1>2. K = IF (po => sh.published) /\ (po => Has(sh)) THEN {1} ELSE {}
  <2> HIDE DEF Has
  <2> QED OBVIOUS
<1>3. \A i \in DOMAIN s : s[i] \in CatalogSeason
    OBVIOUS
<1>4. \A i \in DOMAIN s :
        /\ s[i].published \in BOOLEAN
        /\ DOMAIN s[i].episodes \in SUBSET Int /\ IsFiniteSet(DOMAIN s[i].episodes)
  <2> SUFFICES ASSUME NEW i \in DOMAIN s
               PROVE  /\ s[i].published \in BOOLEAN
                      /\ DOMAIN s[i].episodes \in SUBSET Int /\ IsFiniteSet(DOMAIN s[i].episodes)
      OBVIOUS
  <2>1. s[i].published \in BOOLEAN /\ s[i].episodes \in UpTo(CatalogEpisode, 2)
      BY <1>3 DEF CatalogSeason
  <2>2. s[i].episodes \in Seq(CatalogEpisode)
      BY <2>1, SequencesUpTo
  <2>3. DOMAIN s[i].episodes = 1..Len(s[i].episodes) /\ IsFiniteSet(DOMAIN s[i].episodes)
      BY <2>2, DomainIsFinite
  <2> QED BY <2>1, <2>3
<1> SUFFICES CatalogIs(out, sh, po)
    OBVIOUS
<1> HIDE DEF K, out, row
<1>5. CASE ~((po => sh.published) /\ (po => Has(sh)))
  <2>1. K = {}
      BY <1>2, <1>5
  <2>2. kept = <<>>
      BY <2>1, PickNothing
  <2>3. out = <<>>
      BY <1>1, <2>2
  <2>4. ASSUME NEW i \in DueSeasons(sh, po) PROVE Visible(s[i], po) = <<>>
    <3>1. po /\ sh.published /\ ~Has(sh) /\ i \in DOMAIN s /\ s[i].published
        BY <1>5, <2>4 DEF DueSeasons
    <3>2. {j \in DOMAIN s[i].episodes : ~po \/ s[i].episodes[j].published} = {}
        BY <3>1
    <3> QED BY <3>2, PickNothing DEF Visible
  <2>5. po
      BY <1>5
  <2> QED BY <2>3, <2>4, <2>5 DEF CatalogIs
<1>6. CASE (po => sh.published) /\ (po => Has(sh))
  <2>1. K = {1}
      BY <1>2, <1>6
  <2>2. DOMAIN kept = {1} /\ kept[1] = sh
    <3>0. {1} \in SUBSET Int
        OBVIOUS
    <3>1. IsFiniteSet({1}) /\ Cardinality({1}) = 1
        BY FS_Singleton
    <3> DEFINE I == {1}
    <3>2. /\ DOMAIN Pick(shows, I) = 1..Cardinality(I)
          /\ \A k \in 1..Cardinality(I) : \E i \in I : Pick(shows, I)[k] = shows[i]
      <4>1. I \in SUBSET Int /\ IsFiniteSet(I)
          BY <3>0, <3>1
      <4> HIDE DEF I
      <4> QED BY <4>1, PickIs
    <3> QED BY <2>1, <3>1, <3>2
  <2>3. 1 \in DOMAIN out /\ out[1] = row(1)
      BY <1>1, <2>2
  <2>4. out # <<>>
      BY <2>3
  <2> HIDE DEF kept
  <2>5. out[1].seasons = SeasonsShown(sh, po)
      BY <2>2, <2>3 DEF row, SeasonsShown
  <2>6. ListsSeasons(out[1].seasons, sh, po)
      BY <1>6, <2>5, SeasonsListed
  <2>7. ASSUME po PROVE \E i \in DueSeasons(sh, po) : Visible(s[i], po) # <<>>
    <3>1. sh.published /\ Has(sh)
        BY <1>6, <2>7
    <3>2. PICK i \in DOMAIN s : s[i].published /\ \E j \in DOMAIN s[i].episodes : s[i].episodes[j].published
        BY <3>1
    <3>3. i \in DueSeasons(sh, po)
        BY <3>1, <3>2 DEF DueSeasons
    <3> DEFINE I == {j \in DOMAIN s[i].episodes : ~po \/ s[i].episodes[j].published}
    <3>4. I # {}
        BY <3>2
    <3>5. I \in SUBSET DOMAIN s[i].episodes
        OBVIOUS
    <3>6. I \in SUBSET Int /\ IsFiniteSet(I)
      <4> HIDE DEF I
      <4> QED BY <1>4, <3>5, FS_Subset
    <3>7. Pick(s[i].episodes, I) # <<>>
      <4> HIDE DEF I
      <4> QED BY <3>4, <3>6, PickSomething
    <3>8. Visible(s[i], po) # <<>>
        BY <3>7 DEF Visible
    <3> QED BY <3>3, <3>8
  <2> QED BY <2>4, <2>6, <2>7 DEF CatalogIs
<1> QED BY <1>5, <1>6

CatalogShown ==
  answer.kind = "catalog" => CatalogIs(answer.shows, task.shows[1], task.publishedOnly)

\* What is proved of the catalog is the property that is checked.
LEMMA CatalogShownRight == CatalogShown => CatalogRight
<1> SUFFICES ASSUME CatalogShown, answer.kind = "catalog" PROVE CatalogRight
    BY DEF CatalogRight
<1> DEFINE sh == task.shows[1]
           po == task.publishedOnly
           out == IF answer.shows = <<>> THEN <<>> ELSE answer.shows[1].seasons
           due == DueSeasons(sh, po)
<1>1. CatalogIs(answer.shows, sh, po)
    BY DEF CatalogShown
<1>2. /\ answer.shows = <<>> => po /\ \A i \in due : Visible(sh.seasons[i], po) = <<>>
      /\ answer.shows # <<>> => /\ ListsSeasons(out, sh, po)
                                /\ po => \E i \in due : Visible(sh.seasons[i], po) # <<>>
    BY <1>1 DEF CatalogIs
<1> HIDE DEF out
<1>3. answer.shows # <<>> =>
        /\ Len(out) = Cardinality(due)
        /\ \A i \in due : out[Len(out) - Cardinality({j \in due : j < i})] =
                            [id |-> sh.seasons[i].id, episodes |-> Visible(sh.seasons[i], po)]
    BY <1>2 DEF ListsSeasons
<1> QED BY <1>2, <1>3, Zenon DEF CatalogRight, DueSeasons, Visible, out

\* The answer about the catalog is right.
LEMMA CatalogAnswerRight ==
  ASSUME TaskOK, AnswerCatalog
  PROVE  CatalogShown'
<1> DEFINE sh == task.shows[1]
           po == task.publishedOnly
<1>1. /\ task.kind = "catalog" /\ task' = task
      /\ answer'.shows = BuildOnDemandPayload(task.shows, po)
    BY DEF AnswerCatalog, Answers
<1>2. task \in CatalogTasks
    BY <1>1 DEF TaskOK
<1>3. /\ po \in BOOLEAN
      /\ task.shows \in [1..1 -> [id : {"sh"}, published : BOOLEAN, seasons : UpTo(CatalogSeason, 2)]]
    BY <1>2 DEF CatalogTasks
<1>4. DOMAIN task.shows = {1} /\ sh.published \in BOOLEAN /\ sh.seasons \in UpTo(CatalogSeason, 2)
  <2>1. 1..1 = {1}
      OBVIOUS
  <2> QED BY <1>3, <2>1
<1>5. sh.seasons \in Seq(CatalogSeason)
    BY <1>4, SequencesUpTo
<1>6. CatalogIs(BuildOnDemandPayload(task.shows, po), sh, po)
  <2> HIDE DEF po
  <2> QED BY <1>3, <1>4, <1>5, PayloadIs
<1> QED BY <1>1, <1>6 DEF CatalogShown

----------------------------------------------------------------------------
(* Filters *)

\* What holds at 0 and is handed on from each number to the next.
LEMMA Upwards ==
  ASSUME NEW n \in Nat, NEW Good, 0 \in Good, \A k \in 1..n : k - 1 \in Good => k \in Good
  PROVE  \A k \in 0..n : k \in Good
<1> SUFFICES ASSUME NEW b \in 0..n, b \notin Good PROVE FALSE
    OBVIOUS
<1> DEFINE Bad == {k \in 0..n : k \notin Good}
<1>1. Bad \in SUBSET Int /\ Bad # {} /\ IsFiniteSet(Bad)
  <2>1. Bad \in SUBSET (0..n) /\ Bad # {} /\ \A k \in 0..n : k \in Int
      OBVIOUS
  <2>2. IsFiniteSet(0..n)
    <3>1. 0 \in Int /\ n \in Int
        OBVIOUS
    <3> QED BY <3>1, FS_Interval
  <2> HIDE DEF Bad
  <2>3. IsFiniteSet(Bad)
      BY <2>1, <2>2, FS_Subset
  <2> QED BY <2>1, <2>3
<1>2. PICK k \in Bad : \A j \in Bad : k <= j
  <2> HIDE DEF Bad
  <2> QED BY <1>1, LeastNumber
<1>3. k \in 0..n /\ k # 0 /\ k \notin Good
    OBVIOUS
<1>4. k \in 1..n /\ k - 1 \in 0..n /\ ~(k <= k - 1)
    BY <1>3
<1>5. k - 1 \notin Bad
    BY <1>2, <1>4
<1> QED BY <1>3, <1>4, <1>5

\* The first k positions come to those before k, and then k.
LEMMA LastOfPrefix ==
  ASSUME NEW k \in Nat \ {0}
  PROVE  /\ 1..k # {} /\ Max(1..k) = k /\ (1..k) \ {k} = 1..(k - 1)
<1>1. k \in 1..k /\ (\A y \in 1..k : k >= y) /\ (1..k) \ {k} = 1..(k - 1)
    OBVIOUS
<1>2. \A x \in 1..k : (\A y \in 1..k : x >= y) => x = k
    BY <1>1
<1>3. Max(1..k) = k
    BY <1>1, <1>2 DEF Max
<1> QED BY <1>1, <1>3

\* Some numbers from 1 to n have a greatest.
LEMMA MaxIsIn ==
  ASSUME NEW n \in Nat, NEW s \in SUBSET (1..n), s # {}
  PROVE  Max(s) \in s
<1> DEFINE Neg == {0 - x : x \in s}
           g == [x \in s |-> 0 - x]
<1>1. IsFiniteSet(s) /\ \A x \in s : x \in Int
  <2>1. 1 \in Int /\ n \in Int
      OBVIOUS
  <2>2. IsFiniteSet(1..n)
      BY <2>1, FS_Interval
  <2>3. IsFiniteSet(s)
      BY <2>2, FS_Subset
  <2>4. \A x \in 1..n : x \in Int
      OBVIOUS
  <2> QED BY <2>3, <2>4
<1>2. Matches(g, s, Neg)
    BY <1>1 DEF Matches
<1>3. IsFiniteSet(Neg) /\ Neg \in SUBSET Int /\ Neg # {}
  <2>1. Neg \in SUBSET Int /\ Neg # {}
      BY <1>1
  <2> HIDE DEF g, Neg
  <2> QED BY <1>1, <1>2, <2>1, SameSize
<1>4. PICK m \in Neg : \A j \in Neg : m <= j
  <2> HIDE DEF Neg
  <2> QED BY <1>3, LeastNumber
<1>5. PICK x \in s : m = 0 - x
    BY <1>4
<1>6. \A y \in s : x >= y
  <2> SUFFICES ASSUME NEW y \in s PROVE x >= y
      OBVIOUS
  <2>1. 0 - y \in Neg
      OBVIOUS
  <2>2. 0 - x <= 0 - y
      BY <1>4, <1>5, <2>1
  <2> QED BY <1>1, <2>2
<1> QED BY <1>6 DEF Max

\* G[i] is what the i-th member does: at[k] is the outcome of the first k.
StepsOf(n, V, base, G) == n \in Nat /\ base \in V /\ G \in [1..n -> [V -> V]]
Follows(it, n, V, base, G) ==
  /\ it \in [SUBSET (1..n) -> V]
  /\ \A s \in SUBSET (1..n) : it[s] = IF s = {} THEN base ELSE G[Max(s)][it[s \ {Max(s)}]]

\* A fold over a sequence has a solution.
LEMMA StepsExist ==
  ASSUME NEW n, NEW V, NEW base, NEW G, StepsOf(n, V, base, G)
  PROVE  \E it : Follows(it, n, V, base, G)
<1> DEFINE S == 1..n
           c == [s \in SUBSET S |-> Max(s)]
<1>0. n \in Nat
    BY DEF StepsOf
<1>1. IsFiniteSet(S)
  <2>1. 1 \in Int /\ n \in Int
      BY <1>0
  <2> QED BY <2>1, FS_Interval
<1>2. \A s \in SUBSET S : s # {} => Max(s) \in s
    BY <1>0, MaxIsIn
<1> HIDE DEF S
<1>3. \A s \in SUBSET S : c[s] = Max(s)
    OBVIOUS
<1> HIDE DEF c
<1>4. \A s \in SUBSET S : s # {} => c[s] \in s
    BY <1>2, <1>3
<1>5. base \in V /\ G \in [S -> [V -> V]]
    BY DEF StepsOf, S
<1>6. PICK it \in [SUBSET S -> V] : Recurs(it, S, base, c, G)
  <2>1. Recursion(S, V, base, c, G)
      BY <1>4, <1>5 DEF Recursion
  <2> QED BY <1>1, <2>1, FoldExists
<1>7. \A s \in SUBSET S : it[s] = IF s = {} THEN base ELSE G[Max(s)][it[s \ {Max(s)}]]
    BY <1>3, <1>6 DEF Recurs
<1> QED BY <1>7 DEF Follows, S

Char == {"k", ",", "(", ")"}
SplitState == [depth : Nat, piece : Seq(Char), out : Seq(Seq(Char))]

\* What a character does: at a comma outside of parentheses the piece is complete,
\* any other character is a part of it.
IsSplit(c, at, next) ==
  /\ next \in SplitState
  /\ (c = "," /\ at.depth = 0) =>
       next.depth = 0 /\ next.piece = <<>> /\ next.out = Append(at.out, at.piece)
  /\ ~(c = "," /\ at.depth = 0) =>
       /\ next.piece = Append(at.piece, c) /\ next.out = at.out
       /\ next.depth = IF c = "(" THEN at.depth + 1
                       ELSE IF c = ")" THEN (IF at.depth = 0 THEN 0 ELSE at.depth - 1)
                       ELSE at.depth

\* The step of the model does what IsSplit says.
LEMMA SplitStepIs ==
  ASSUME NEW c \in Char, NEW at \in SplitState
  PROVE  IsSplit(c, at, SplitStep(c, at))
<1>1. /\ at.depth \in Nat /\ at.piece \in Seq(Char) /\ at.out \in Seq(Seq(Char))
      /\ at = [depth |-> at.depth, piece |-> at.piece, out |-> at.out]
    BY DEF SplitState
<1>2. Max({0, at.depth - 1}) = IF at.depth = 0 THEN 0 ELSE at.depth - 1
  <2>1. at.depth - 1 \in Int
      BY <1>1
  <2>2. Max({0, at.depth - 1}) = IF 0 >= at.depth - 1 THEN 0 ELSE at.depth - 1
      BY <2>1, MaxOfTwo
  <2> QED BY <1>1, <2>2
<1> DEFINE d == at.depth
           p == at.piece
           o == at.out
<1>3. CASE c = "," /\ d = 0
  <2>1. SplitStep(c, at) = [depth |-> d, piece |-> <<>>, out |-> Append(o, p)]
      BY <1>1, <1>3 DEF SplitStep
  <2>2. Append(o, p) \in Seq(Seq(Char)) /\ <<>> \in Seq(Char)
      BY <1>1
  <2> DEFINE next == SplitStep(c, at)
  <2>3. next.depth = 0 /\ next.piece = <<>> /\ next.out = Append(o, p)
    <3>1. next = [depth |-> d, piece |-> <<>>, out |-> Append(o, p)]
        BY <2>1
    <3> HIDE DEF next
    <3> QED BY <1>3, <3>1
  <2>4. next \in SplitState
      BY <1>1, <2>1, <2>2 DEF SplitState
  <2> HIDE DEF next
  <2>5. IsSplit(c, at, next)
      BY <1>3, <2>3, <2>4 DEF IsSplit
  <2> QED BY <2>5 DEF next
<1>4. ASSUME ~(c = "," /\ d = 0) PROVE IsSplit(c, at, SplitStep(c, at))
  <2> DEFINE e == IF c = "(" THEN d + 1 ELSE IF c = ")" THEN (IF d = 0 THEN 0 ELSE d - 1) ELSE d
  <2>1. SplitStep(c, at) = [depth |-> e, piece |-> Append(p, c), out |-> o]
    <3>1. CASE c = "("
        BY <1>1, <3>1 DEF SplitStep
    <3>2. CASE c = ")"
      <4>1. SplitStep(c, at) = [at EXCEPT !.depth = Max({0, @ - 1}), !.piece = Append(@, c)]
          BY <3>2 DEF SplitStep
      <4>2. SplitStep(c, at) = [depth |-> Max({0, d - 1}), piece |-> Append(p, c), out |-> o]
          BY <1>1, <4>1
      <4> QED BY <1>2, <3>2, <4>2
    <3>3. CASE c # "(" /\ c # ")"
        BY <1>1, <1>4, <3>3 DEF SplitStep
    <3> QED BY <3>1, <3>2, <3>3
  <2>2. Append(p, c) \in Seq(Char) /\ e \in Nat
      BY <1>1
  <2> HIDE DEF e
  <2>3. [depth |-> e, piece |-> Append(p, c), out |-> o] \in SplitState
      BY <1>1, <2>2 DEF SplitState
  <2> DEFINE next == SplitStep(c, at)
  <2>4. next.depth = e /\ next.piece = Append(p, c) /\ next.out = o /\ next \in SplitState
      BY <2>1, <2>3
  <2> HIDE DEF next
  <2>5. IsSplit(c, at, next)
      BY <1>4, <2>4 DEF IsSplit, e
  <2> QED BY <2>5 DEF next
<1> QED BY <1>3, <1>4

\* The states of the loop: at[k] is reached after k characters.
Splits(f, at) ==
  /\ at[0] = [depth |-> 0, piece |-> <<>>, out |-> <<>>]
  /\ \A k \in 0..Len(f) : at[k] \in SplitState
  /\ \A k \in 1..Len(f) : IsSplit(f[k], at[k - 1], at[k])
  /\ LET end == at[Len(f)]
     IN  SplitFilter(f) = IF end.piece = <<>> THEN end.out ELSE Append(end.out, end.piece)

\* The loop has its states, and its last gives the pieces.
LEMMA SplitStates ==
  ASSUME NEW f \in Seq(Char)
  PROVE  \E at : Splits(f, at)
<1> DEFINE n == Len(f)
           base == [depth |-> 0, piece |-> <<>>, out |-> <<>>]
           Iter(iter) == iter = [s \in SUBSET DOMAIN f |->
                                   IF s = {} THEN base ELSE SplitStep(f[Max(s)], iter[s \ {Max(s)}])]
           it == CHOOSE iter : Iter(iter)
           at == [k \in 0..n |-> it[1..k]]
<1>1. n \in Nat /\ DOMAIN f = 1..n /\ \A i \in 1..n : f[i] \in Char
    OBVIOUS
<1>2. base \in SplitState
    BY DEF SplitState
<1> HIDE DEF n, base
<1>3. \A c \in Char, v \in SplitState : SplitStep(c, v) \in SplitState
    BY SplitStepIs DEF IsSplit
<1>4. \E iter : Iter(iter)
  <2> DEFINE G == [i \in 1..n |-> [v \in SplitState |-> SplitStep(f[i], v)]]
  <2>1. G \in [1..n -> [SplitState -> SplitState]]
        /\ \A i \in 1..n, v \in SplitState : G[i][v] = SplitStep(f[i], v)
      BY <1>1, <1>3
  <2> HIDE DEF G
  <2>2. PICK iter : Follows(iter, n, SplitState, base, G)
    <3>1. StepsOf(n, SplitState, base, G)
        BY <1>1, <1>2, <2>1 DEF StepsOf
    <3> QED BY <3>1, StepsExist
  <2>3. \A s \in SUBSET (1..n) : s # {} => Max(s) \in s
      BY <1>1, MaxIsIn
  <2>4. \A s \in SUBSET (1..n) :
          iter[s] = IF s = {} THEN base ELSE SplitStep(f[Max(s)], iter[s \ {Max(s)}])
    <3> SUFFICES ASSUME NEW s \in SUBSET (1..n), s # {}
                 PROVE  iter[s] = SplitStep(f[Max(s)], iter[s \ {Max(s)}])
        BY <2>2 DEF Follows
    <3>1. Max(s) \in 1..n /\ s \ {Max(s)} \in SUBSET (1..n)
        BY <2>3
    <3>2. iter[s \ {Max(s)}] \in SplitState /\ iter[s] = G[Max(s)][iter[s \ {Max(s)}]]
        BY <2>2, <3>1 DEF Follows
    <3> QED BY <2>1, <3>1, <3>2
  <2>5. iter = [s \in SUBSET DOMAIN f |->
                  IF s = {} THEN base ELSE SplitStep(f[Max(s)], iter[s \ {Max(s)}])]
    <3>1. iter = [s \in SUBSET (1..n) |-> iter[s]]
        BY <2>2 DEF Follows
    <3> QED BY <1>1, <2>4, <3>1
  <2> QED BY <2>5
<1>5. Iter(it)
  <2> HIDE DEF Iter
  <2> QED BY <1>4
<1>6. SplitFilter(f) = IF it[DOMAIN f].piece = <<>> THEN it[DOMAIN f].out
                       ELSE Append(it[DOMAIN f].out, it[DOMAIN f].piece)
    BY Zenon DEF SplitFilter, FoldLeft, MapThenFoldSet, base
<1> HIDE DEF it
<1>7. \A s \in SUBSET (1..n) :
        it[s] = IF s = {} THEN base ELSE SplitStep(f[Max(s)], it[s \ {Max(s)}])
    BY <1>1, <1>5
<1> HIDE DEF Iter
<1>8. at[0] = base
  <2>1. {} \in SUBSET (1..n) /\ 1..0 = {} /\ 0 \in 0..n
      BY <1>1
  <2> QED BY <1>7, <2>1
<1>9. \A k \in 1..n : at[k] = SplitStep(f[k], at[k - 1])
  <2> SUFFICES ASSUME NEW k \in 1..n PROVE at[k] = SplitStep(f[k], at[k - 1])
      OBVIOUS
  <2>1. 1..k \in SUBSET (1..n) /\ k \in 0..n /\ k - 1 \in 0..n /\ k \in Nat \ {0}
      BY <1>1
  <2>2. 1..k # {} /\ Max(1..k) = k /\ (1..k) \ {k} = 1..(k - 1)
      BY <2>1, LastOfPrefix
  <2>3. it[1..k] = SplitStep(f[k], it[1..(k - 1)])
      BY <1>7, <2>1, <2>2
  <2> QED BY <2>1, <2>3
<1>10. at[n] = it[DOMAIN f]
    BY <1>1
<1> HIDE DEF at
<1>11. \A k \in 0..n : at[k] \in SplitState
  <2> DEFINE Good == {k \in 0..n : at[k] \in SplitState}
  <2>1. 0 \in Good
      BY <1>1, <1>2, <1>8
  <2>2. \A k \in 1..n : k - 1 \in Good => k \in Good
      BY <1>1, <1>3, <1>9
  <2> HIDE DEF Good
  <2>3. \A k \in 0..n : k \in Good
      BY <1>1, <2>1, <2>2, Upwards
  <2> QED BY <2>3 DEF Good
<1>12. \A k \in 1..n : IsSplit(f[k], at[k - 1], at[k])
  <2>1. \A k \in 1..n : k - 1 \in 0..n
      BY <1>1
  <2> QED BY <1>1, <1>9, <1>11, <2>1, SplitStepIs
<1>13. Splits(f, at)
    BY <1>6, <1>8, <1>10, <1>11, <1>12 DEF Splits, base, n
<1> QED BY <1>13

\* The pieces again in one, with a comma before each.
Joined(pieces) == FoldLeft(LAMBDA x, y : x \o <<",">> \o y, <<>>, pieces)
Between(x, c, y) == x \o <<c>> \o y
WithPiece(x, y) == Between(x, ",", y)

Joins(p, at) ==
  /\ at[0] = <<>>
  /\ \A k \in 0..Len(p) : at[k] \in Seq(Char)
  /\ \A k \in 1..Len(p) : at[k] = WithPiece(at[k - 1], p[k])
  /\ Joined(p) = at[Len(p)]

\* Joining has its states, and its last gives the whole.
LEMMA JoinStates ==
  ASSUME NEW p \in Seq(Seq(Char))
  PROVE  \E at : Joins(p, at)
<1> DEFINE n == Len(p)
           Iter(iter) == iter = [s \in SUBSET DOMAIN p |->
                                   IF s = {} THEN <<>> ELSE WithPiece(iter[s \ {Max(s)}], p[Max(s)])]
           it == CHOOSE iter : Iter(iter)
           at == [k \in 0..n |-> it[1..k]]
<1>1. n \in Nat /\ DOMAIN p = 1..n /\ \A i \in 1..n : p[i] \in Seq(Char)
    OBVIOUS
<1>2. <<>> \in Seq(Char)
    OBVIOUS
<1> HIDE DEF n
<1>3. \A x, y \in Seq(Char) : WithPiece(x, y) \in Seq(Char)
  <2> SUFFICES ASSUME NEW x \in Seq(Char), NEW y \in Seq(Char) PROVE WithPiece(x, y) \in Seq(Char)
      OBVIOUS
  <2>1. "," \in Char
      BY DEF Char
  <2> DEFINE comma == <<",">>
  <2>2. comma \in Seq(Char)
    <3>1. \A c \in Char : <<c>> \in Seq(Char)
        OBVIOUS
    <3> QED BY <2>1, <3>1
  <2>3. WithPiece(x, y) = (x \o comma) \o y
      BY DEF WithPiece, Between
  <2> HIDE DEF comma
  <2>4. x \o comma \in Seq(Char)
      BY <2>2
  <2> DEFINE front == x \o comma
  <2> HIDE DEF front
  <2>5. front \o y \in Seq(Char)
      BY <2>4 DEF front
  <2> QED BY <2>3, <2>5 DEF front
<1>4. \E iter : Iter(iter)
  <2> DEFINE G == [i \in 1..n |-> [v \in Seq(Char) |-> WithPiece(v, p[i])]]
  <2>1. G \in [1..n -> [Seq(Char) -> Seq(Char)]]
        /\ \A i \in 1..n, v \in Seq(Char) : G[i][v] = WithPiece(v, p[i])
      BY <1>1, <1>3
  <2> HIDE DEF G
  <2>2. PICK iter : Follows(iter, n, Seq(Char), <<>>, G)
    <3>1. StepsOf(n, Seq(Char), <<>>, G)
        BY <1>1, <1>2, <2>1 DEF StepsOf
    <3> QED BY <3>1, StepsExist
  <2>3. \A s \in SUBSET (1..n) : s # {} => Max(s) \in s
      BY <1>1, MaxIsIn
  <2>4. \A s \in SUBSET (1..n) :
          iter[s] = IF s = {} THEN <<>> ELSE WithPiece(iter[s \ {Max(s)}], p[Max(s)])
    <3> SUFFICES ASSUME NEW s \in SUBSET (1..n), s # {}
                 PROVE  iter[s] = WithPiece(iter[s \ {Max(s)}], p[Max(s)])
        BY <2>2 DEF Follows
    <3>1. Max(s) \in 1..n /\ s \ {Max(s)} \in SUBSET (1..n)
        BY <2>3
    <3>2. iter[s \ {Max(s)}] \in Seq(Char) /\ iter[s] = G[Max(s)][iter[s \ {Max(s)}]]
        BY <2>2, <3>1 DEF Follows
    <3> QED BY <2>1, <3>1, <3>2
  <2>5. iter = [s \in SUBSET DOMAIN p |->
                  IF s = {} THEN <<>> ELSE WithPiece(iter[s \ {Max(s)}], p[Max(s)])]
    <3>1. iter = [s \in SUBSET (1..n) |-> iter[s]]
        BY <2>2 DEF Follows
    <3> QED BY <1>1, <2>4, <3>1
  <2> QED BY <2>5
<1>5. Iter(it)
  <2> HIDE DEF Iter
  <2> QED BY <1>4
<1>6. Joined(p) = it[DOMAIN p]
    BY Zenon DEF Joined, WithPiece, Between, FoldLeft, MapThenFoldSet
<1> HIDE DEF it
<1>7. \A s \in SUBSET (1..n) :
        it[s] = IF s = {} THEN <<>> ELSE WithPiece(it[s \ {Max(s)}], p[Max(s)])
    BY <1>1, <1>5
<1> HIDE DEF Iter
<1>8. at[0] = <<>>
  <2>1. {} \in SUBSET (1..n) /\ 1..0 = {} /\ 0 \in 0..n
      BY <1>1
  <2> QED BY <1>7, <2>1
<1>9. \A k \in 1..n : at[k] = WithPiece(at[k - 1], p[k])
  <2> SUFFICES ASSUME NEW k \in 1..n PROVE at[k] = WithPiece(at[k - 1], p[k])
      OBVIOUS
  <2>1. 1..k \in SUBSET (1..n) /\ k \in 0..n /\ k - 1 \in 0..n /\ k \in Nat \ {0}
      BY <1>1
  <2>2. 1..k # {} /\ Max(1..k) = k /\ (1..k) \ {k} = 1..(k - 1)
      BY <2>1, LastOfPrefix
  <2>3. it[1..k] = WithPiece(it[1..(k - 1)], p[k])
      BY <1>7, <2>1, <2>2
  <2> QED BY <2>1, <2>3
<1>10. at[n] = it[DOMAIN p]
    BY <1>1
<1> HIDE DEF at
<1>11. \A k \in 0..n : at[k] \in Seq(Char)
  <2> DEFINE Good == {k \in 0..n : at[k] \in Seq(Char)}
  <2>1. 0 \in Good
    <3>1. 0 \in 0..n
        BY <1>1
    <3>2. at[0] \in Seq(Char)
        BY <1>2, <1>8
    <3> QED BY <3>1, <3>2
  <2>2. \A k \in 1..n : k - 1 \in Good => k \in Good
      BY <1>1, <1>3, <1>9
  <2> HIDE DEF Good
  <2>3. \A k \in 0..n : k \in Good
      BY <1>1, <2>1, <2>2, Upwards
  <2> QED BY <2>3 DEF Good
<1>12. Joins(p, at)
    BY <1>6, <1>8, <1>9, <1>10, <1>11 DEF Joins, n
<1> QED BY <1>12

Count(f, c, k) == Cardinality({j \in 1..k : f[j] = c})
Level(f, i) == Cardinality({j \in 1..i : f[j] = "("}) - Cardinality({j \in 1..i : f[j] = ")"})
TopCommas(f, k) == {i \in 1..k : f[i] = "," /\ Level(f, i) = 0}

\* How counts go on.
LEMMA CountNext ==
  ASSUME NEW f, NEW c, NEW k \in Nat \ {0}
  PROVE  /\ Count(f, c, k - 1) \in Nat
         /\ Count(f, c, k) = IF f[k] = c THEN Count(f, c, k - 1) + 1 ELSE Count(f, c, k - 1)
<1> DEFINE A == {j \in 1..(k - 1) : f[j] = c}
           B == {j \in 1..k : f[j] = c}
<1>1. B = IF f[k] = c THEN A \cup {k} ELSE A
    OBVIOUS
<1>2. k \notin A /\ A \in SUBSET (1..(k - 1))
    OBVIOUS
<1>3. IsFiniteSet(1..(k - 1))
  <2>1. 1 \in Int /\ k - 1 \in Int
      OBVIOUS
  <2> QED BY <2>1, FS_Interval
<1> HIDE DEF A, B
<1>4. IsFiniteSet(A)
    BY <1>2, <1>3, FS_Subset
<1>5. Cardinality(A) \in Nat /\ Cardinality(A \cup {k}) = Cardinality(A) + 1
    BY <1>2, <1>4, FS_AddElement, FS_CardinalityType
<1> QED BY <1>1, <1>5 DEF Count, A, B

\* Before the first character no parenthesis is open and no comma was met.
LEMMA NoneYet == ASSUME NEW f PROVE Level(f, 0) = 0 /\ TopCommas(f, 0) = {}
<1>1. 1..0 = {}
    OBVIOUS
<1>2. {j \in 1..0 : f[j] = "("} = {} /\ {j \in 1..0 : f[j] = ")"} = {} /\ TopCommas(f, 0) = {}
    BY <1>1 DEF TopCommas
<1>3. Level(f, 0) = Cardinality({}) - Cardinality({})
    BY <1>2 DEF Level
<1> QED BY <1>2, <1>3, FS_EmptySet

\* How deep a character is, told from the one before.
LEMMA LevelNext ==
  ASSUME NEW f, NEW k \in Nat \ {0}
  PROVE  /\ Level(f, k - 1) \in Int
         /\ Level(f, k) = IF f[k] = "(" THEN Level(f, k - 1) + 1
                          ELSE IF f[k] = ")" THEN Level(f, k - 1) - 1 ELSE Level(f, k - 1)
<1>1. \A i : Level(f, i) = Count(f, "(", i) - Count(f, ")", i)
    BY DEF Level, Count
<1>2. /\ Count(f, "(", k - 1) \in Nat /\ Count(f, ")", k - 1) \in Nat
      /\ Count(f, "(", k) = IF f[k] = "(" THEN Count(f, "(", k - 1) + 1 ELSE Count(f, "(", k - 1)
      /\ Count(f, ")", k) = IF f[k] = ")" THEN Count(f, ")", k - 1) + 1 ELSE Count(f, ")", k - 1)
    BY CountNext
<1> QED BY <1>1, <1>2

\* The commas outside of parentheses, told from those before.
LEMMA TopCommasNext ==
  ASSUME NEW f, NEW k \in Nat \ {0}
  PROVE  /\ IsFiniteSet(TopCommas(f, k)) /\ Cardinality(TopCommas(f, k - 1)) \in Nat
         /\ TopCommas(f, k) \ {k} = TopCommas(f, k - 1)
         /\ k \in TopCommas(f, k) <=> f[k] = "," /\ Level(f, k) = 0
         /\ Cardinality(TopCommas(f, k)) = IF f[k] = "," /\ Level(f, k) = 0
                                           THEN Cardinality(TopCommas(f, k - 1)) + 1
                                           ELSE Cardinality(TopCommas(f, k - 1))
<1> DEFINE A == TopCommas(f, k - 1)
           B == TopCommas(f, k)
<1>1. /\ B = IF f[k] = "," /\ Level(f, k) = 0 THEN A \cup {k} ELSE A
      /\ k \notin A /\ A \in SUBSET (1..(k - 1))
      /\ k \in B <=> (f[k] = "," /\ Level(f, k) = 0)
  <2>1. k \in 1..k /\ k \notin 1..(k - 1) /\ 1..k = 1..(k - 1) \cup {k}
      OBVIOUS
  <2>2. /\ A = {i \in 1..(k - 1) : f[i] = "," /\ Level(f, i) = 0}
        /\ B = {i \in 1..k : f[i] = "," /\ Level(f, i) = 0}
      BY DEF TopCommas
  <2> HIDE DEF A, B
  <2> QED BY <2>1, <2>2
<1>2. IsFiniteSet(1..(k - 1))
  <2>1. 1 \in Int /\ k - 1 \in Int
      OBVIOUS
  <2> QED BY <2>1, FS_Interval
<1> HIDE DEF A, B
<1>3. IsFiniteSet(A)
    BY <1>1, <1>2, FS_Subset
<1>4. Cardinality(A) \in Nat /\ IsFiniteSet(A \cup {k}) /\ Cardinality(A \cup {k}) = Cardinality(A) + 1
    BY <1>1, <1>3, FS_AddElement, FS_CardinalityType
<1>5. B \ {k} = A
    BY <1>1
<1> QED BY <1>1, <1>3, <1>4, <1>5 DEF A, B

\* How far the loop has come after k characters.
InStep(f, at, k) ==
  /\ at[k].depth = Level(f, k) /\ Len(at[k].out) = Cardinality(TopCommas(f, k))
  /\ k # 0 => (at[k].piece = <<>> <=> k \in TopCommas(f, k))

\* In a filter whose parentheses are closed after they open, the loop's depth is the
\* true depth, it has a piece for each comma outside of parentheses, and is without a
\* piece just behind one.
LEMMA LoopInStep ==
  ASSUME NEW f \in Seq(Char), \A i \in DOMAIN f : Level(f, i) >= 0, NEW at, Splits(f, at)
  PROVE  \A k \in 0..Len(f) : InStep(f, at, k)
<1> DEFINE n == Len(f)
           Good == {k \in 0..n : InStep(f, at, k)}
<1>1. n \in Nat /\ \A k \in 1..n : f[k] \in Char /\ Level(f, k) >= 0
    OBVIOUS
<1>2. /\ at[0] = [depth |-> 0, piece |-> <<>>, out |-> <<>>]
      /\ \A k \in 0..n : at[k] \in SplitState
      /\ \A k \in 1..n : IsSplit(f[k], at[k - 1], at[k])
    BY DEF Splits
<1> HIDE DEF n
<1>3. 0 \in Good
  <2>1. at[0].depth = 0 /\ at[0].out = <<>> /\ 0 \in 0..n
      BY <1>1, <1>2
  <2>2. Level(f, 0) = 0 /\ Cardinality(TopCommas(f, 0)) = 0
      BY NoneYet, FS_EmptySet
  <2>3. Len(<<>>) = 0
      OBVIOUS
  <2> QED BY <2>1, <2>2, <2>3 DEF InStep
<1>4. ASSUME NEW k \in 1..n, k - 1 \in Good PROVE k \in Good
  <2> DEFINE old == at[k - 1]
             new == at[k]
             c == f[k]
  <2>1. InStep(f, at, k - 1) /\ k \in Nat \ {0} /\ k \in 0..n /\ k - 1 \in 0..n
      BY <1>1, <1>4
  <2>2. /\ old.depth = Level(f, k - 1) /\ old.depth \in Nat /\ Len(old.out) = Cardinality(TopCommas(f, k - 1))
        /\ old.out \in Seq(Seq(Char)) /\ old.piece \in Seq(Char)
      BY <1>2, <2>1 DEF InStep, SplitState
  <2>3. Level(f, k) = IF c = "(" THEN Level(f, k - 1) + 1
                      ELSE IF c = ")" THEN Level(f, k - 1) - 1 ELSE Level(f, k - 1)
      BY <2>1, LevelNext
  <2>4. /\ Cardinality(TopCommas(f, k)) = IF c = "," /\ Level(f, k) = 0
                                          THEN Cardinality(TopCommas(f, k - 1)) + 1
                                          ELSE Cardinality(TopCommas(f, k - 1))
        /\ k \in TopCommas(f, k) <=> (c = "," /\ Level(f, k) = 0)
      BY <2>1, TopCommasNext
  <2>5. c \in Char /\ Level(f, k) >= 0 /\ IsSplit(c, old, new)
      BY <1>1, <1>2
  <2>6. k # 0
      BY <2>1
  <2> HIDE DEF old, new, c
  <2>7. CASE c = "," /\ old.depth = 0
    <3>1. new.depth = 0 /\ new.piece = <<>> /\ new.out = Append(old.out, old.piece)
        BY <2>5, <2>7 DEF IsSplit
    <3>2. Len(new.out) = Len(old.out) + 1
        BY <2>2, <3>1
    <3>3. Level(f, k) = 0
        BY <2>2, <2>3, <2>7
    <3>4. k \in TopCommas(f, k) /\ Cardinality(TopCommas(f, k)) = Len(old.out) + 1
        BY <2>2, <2>4, <2>7, <3>3
    <3>5. InStep(f, at, k)
        BY <3>1, <3>2, <3>3, <3>4 DEF InStep, new
    <3> QED BY <2>1, <3>5
  <2>8. CASE ~(c = "," /\ old.depth = 0)
    <3>1. /\ new.piece = Append(old.piece, c) /\ new.out = old.out
          /\ new.depth = IF c = "(" THEN old.depth + 1
                         ELSE IF c = ")" THEN (IF old.depth = 0 THEN 0 ELSE old.depth - 1)
                         ELSE old.depth
        BY <2>5, <2>8 DEF IsSplit
    <3>2. new.depth = Level(f, k)
        BY <2>2, <2>3, <2>5, <3>1
    <3>3. new.piece # <<>>
      <4>1. Len(Append(old.piece, c)) = Len(old.piece) + 1 /\ Len(old.piece) \in Nat
          BY <2>2
      <4>2. Len(new.piece) # 0 /\ Len(<<>>) = 0
          BY <3>1, <4>1
      <4> QED BY <4>2
    <3>4. ~(c = "," /\ Level(f, k) = 0)
        BY <2>2, <2>3, <2>8
    <3>5. k \notin TopCommas(f, k) /\ Cardinality(TopCommas(f, k)) = Len(new.out)
        BY <2>2, <2>4, <3>1, <3>4
    <3>6. InStep(f, at, k)
        BY <3>2, <3>3, <3>5 DEF InStep, new
    <3> QED BY <2>1, <3>6
  <2> QED BY <2>7, <2>8
<1> HIDE DEF Good
<1>5. \A k \in 0..n : k \in Good
    BY <1>1, <1>3, <1>4, Upwards
<1> QED BY <1>5 DEF Good, n

\* The pieces found so far are the first of those found later.
Begins(s, t) == Len(s) <= Len(t) /\ \A i \in 1..Len(s) : s[i] = t[i]

\* Pieces are only added.
LEMMA PiecesStay ==
  ASSUME NEW f \in Seq(Char), NEW at, Splits(f, at)
  PROVE  /\ SplitFilter(f) \in Seq(Seq(Char))
         /\ \A k \in 0..Len(f) : Begins(at[k].out, SplitFilter(f))
<1> DEFINE n == Len(f)
           out(k) == at[k].out
           Good == {k \in 0..n : \A j \in 0..k : Begins(out(j), out(k))}
           all == SplitFilter(f)
<1>1. n \in Nat
    OBVIOUS
<1>2. /\ \A k \in 0..n : at[k] \in SplitState
      /\ \A k \in 1..n : IsSplit(f[k], at[k - 1], at[k])
      /\ all = IF at[n].piece = <<>> THEN at[n].out ELSE Append(at[n].out, at[n].piece)
    BY DEF Splits
<1> HIDE DEF n, all
<1>3. \A k \in 0..n : out(k) \in Seq(Seq(Char)) /\ at[k].piece \in Seq(Char)
    BY <1>2 DEF SplitState
<1>4. \A k \in 1..n : \/ out(k) = out(k - 1)
                      \/ out(k) = Append(out(k - 1), at[k - 1].piece)
    BY <1>2 DEF IsSplit
<1> HIDE DEF out
<1>5. \A s \in Seq(Seq(Char)) : Begins(s, s)
    BY DEF Begins
<1>6. \A s, t \in Seq(Seq(Char)), x \in Seq(Char) : Begins(s, t) => Begins(s, Append(t, x))
  <2> SUFFICES ASSUME NEW s \in Seq(Seq(Char)), NEW t \in Seq(Seq(Char)), NEW x \in Seq(Char), Begins(s, t)
               PROVE  Begins(s, Append(t, x))
      OBVIOUS
  <2>1. Len(Append(t, x)) = Len(t) + 1 /\ \A i \in 1..Len(t) : Append(t, x)[i] = t[i]
      OBVIOUS
  <2>2. Len(s) \in Nat /\ Len(t) \in Nat
      OBVIOUS
  <2> QED BY <2>1, <2>2 DEF Begins
<1>7. 0 \in Good
  <2>1. 0 \in 0..n /\ \A j \in 0..0 : j = 0
      BY <1>1
  <2> QED BY <1>3, <1>5, <2>1
<1>8. ASSUME NEW k \in 1..n, k - 1 \in Good PROVE k \in Good
  <2>1. k \in 0..n /\ k - 1 \in 0..n /\ \A j \in 0..k : j \in 0..n /\ (j \in 0..(k - 1) \/ j = k)
      BY <1>1
  <2>2. \A j \in 0..(k - 1) : Begins(out(j), out(k - 1))
      BY <1>8
  <2> HIDE DEF Good
  <2>3. ASSUME NEW j \in 0..k PROVE Begins(out(j), out(k))
    <3>1. CASE j = k
        BY <1>3, <1>5, <2>1, <3>1
    <3>2. CASE j # k
      <4>1. Begins(out(j), out(k - 1)) /\ out(j) \in Seq(Seq(Char)) /\ out(k - 1) \in Seq(Seq(Char))
            /\ at[k - 1].piece \in Seq(Char)
          BY <1>3, <2>1, <2>2, <3>2
      <4> QED BY <1>4, <1>6, <4>1
    <3> QED BY <3>1, <3>2
  <2> QED BY <2>1, <2>3 DEF Good
<1>9. n \in Good
  <2> HIDE DEF Good
  <2>1. n \in 0..n /\ \A k \in 0..n : k \in Good
      BY <1>1, <1>7, <1>8, Upwards
  <2> QED BY <2>1
<1>10. \A k \in 0..n : Begins(out(k), out(n))
    BY <1>9
<1>11. all = out(n) \/ all = Append(out(n), at[n].piece)
    BY <1>2 DEF out
<1>12. out(n) \in Seq(Seq(Char)) /\ at[n].piece \in Seq(Char)
  <2>1. n \in 0..n
      BY <1>1
  <2> QED BY <1>3, <2>1
<1>13. all \in Seq(Seq(Char))
    BY <1>11, <1>12
<1>14. \A k \in 0..n : Begins(out(k), all)
    BY <1>3, <1>6, <1>10, <1>11, <1>12
<1> QED BY <1>13, <1>14 DEF out, n, all

\* x, c and the piece are c and the first k characters of f.
Covers(x, c, piece, f, k) ==
  /\ Len(x) + Len(piece) = k
  /\ \A i \in 1..Len(x) : x[i] = IF i = 1 THEN c ELSE f[i - 1]
  /\ Len(x) > 0 => f[Len(x)] = c
  /\ \A i \in 1..Len(piece) : piece[i] = f[Len(x) + i]

\* A comma that completes the piece keeps the cover.
LEMMA CoverComma ==
  ASSUME NEW f \in Seq(Char), NEW k \in 1..Len(f), NEW x \in Seq(Char), NEW c, NEW piece \in Seq(Char),
         Covers(x, c, piece, f, k - 1), f[k] = c
  PROVE  Covers(Between(x, c, piece), c, <<>>, f, k)
<1> DEFINE y == Between(x, c, piece)
           a == Len(x)
           b == Len(piece)
<1>1. a \in Nat /\ b \in Nat /\ k \in Nat /\ a + b = k - 1
    BY DEF Covers
<1>2. Len(y) = a + 1 + b
    BY DEF Between
<1>3. /\ \A i \in 1..a : y[i] = x[i]
      /\ y[a + 1] = c
      /\ \A i \in 1..b : y[a + 1 + i] = piece[i]
    BY DEF Between
<1>4. /\ \A i \in 1..a : x[i] = IF i = 1 THEN c ELSE f[i - 1]
      /\ a > 0 => f[a] = c
      /\ \A i \in 1..b : piece[i] = f[a + i]
    BY DEF Covers
<1> HIDE DEF y, a, b
<1>5. Len(y) = k
    BY <1>1, <1>2
<1>6. \A i \in 1..k : y[i] = IF i = 1 THEN c ELSE f[i - 1]
  <2> SUFFICES ASSUME NEW i \in 1..k PROVE y[i] = IF i = 1 THEN c ELSE f[i - 1]
      OBVIOUS
  <2>1. CASE i \in 1..a
      BY <1>3, <1>4, <2>1
  <2>2. CASE i = a + 1
    <3>1. a = 0 \/ a > 0
        BY <1>1
    <3>2. i = 1 <=> a = 0
        BY <1>1, <2>2
    <3>3. i - 1 = a
        BY <1>1, <2>2
    <3> QED BY <1>3, <1>4, <2>2, <3>1, <3>2, <3>3
  <2>3. CASE i > a + 1
    <3> DEFINE j == i - (a + 1)
    <3>1. j \in 1..b /\ a + 1 + j = i /\ a + j = i - 1 /\ i # 1
        BY <1>1, <2>3
    <3> HIDE DEF j
    <3> QED BY <1>3, <1>4, <3>1
  <2>4. i \in 1..a \/ i = a + 1 \/ i > a + 1
      BY <1>1
  <2> QED BY <2>1, <2>2, <2>3, <2>4
<1>7. Len(<<>>) = 0 /\ 1..Len(<<>>) = {}
    OBVIOUS
<1>8. Covers(y, c, <<>>, f, k)
    BY <1>1, <1>5, <1>6, <1>7 DEF Covers
<1> QED BY <1>8 DEF y

\* A character that joins the piece keeps the cover.
LEMMA CoverOther ==
  ASSUME NEW f \in Seq(Char), NEW k \in 1..Len(f), NEW x \in Seq(Char), NEW c, NEW piece \in Seq(Char),
         Covers(x, c, piece, f, k - 1)
  PROVE  Covers(x, c, Append(piece, f[k]), f, k)
<1> DEFINE a == Len(x)
           b == Len(piece)
           p == Append(piece, f[k])
<1>1. a \in Nat /\ b \in Nat /\ k \in Nat /\ a + b = k - 1
    BY DEF Covers
<1>2. Len(p) = b + 1 /\ (\A i \in 1..b : p[i] = piece[i]) /\ p[b + 1] = f[k]
    OBVIOUS
<1>3. \A i \in 1..b : piece[i] = f[a + i]
    BY DEF Covers
<1> HIDE DEF a, b, p
<1>4. \A i \in 1..(b + 1) : p[i] = f[a + i]
  <2> SUFFICES ASSUME NEW i \in 1..(b + 1) PROVE p[i] = f[a + i]
      OBVIOUS
  <2>1. CASE i \in 1..b
      BY <1>2, <1>3, <2>1
  <2>2. CASE i = b + 1
    <3>1. a + i = k
        BY <1>1, <2>2
    <3> QED BY <1>2, <2>2, <3>1
  <2>3. i \in 1..b \/ i = b + 1
      BY <1>1
  <2> QED BY <2>1, <2>2, <2>3
<1>5. a + Len(p) = k
    BY <1>1, <1>2
<1>6. Covers(x, c, p, f, k)
    BY <1>2, <1>4, <1>5 DEF Covers, a
<1> QED BY <1>6 DEF p

\* After k characters: what the pieces found so far make when joined, and the rest.
LEMMA PrefixCovered ==
  ASSUME NEW f \in Seq(Char), NEW at, Splits(f, at), NEW J, Joins(SplitFilter(f), J)
  PROVE  \A k \in 0..Len(f) : Covers(J[Len(at[k].out)], ",", at[k].piece, f, k)
<1> DEFINE n == Len(f)
           all == SplitFilter(f)
           m(k) == Len(at[k].out)
           Good == {k \in 0..n : Covers(J[m(k)], ",", at[k].piece, f, k)}
<1>1. n \in Nat
    OBVIOUS
<1>2. /\ at[0] = [depth |-> 0, piece |-> <<>>, out |-> <<>>]
      /\ \A k \in 0..n : at[k] \in SplitState
      /\ \A k \in 1..n : IsSplit(f[k], at[k - 1], at[k])
    BY DEF Splits
<1>3. \A k \in 0..n : Begins(at[k].out, all)
    BY PiecesStay
<1>4. /\ J[0] = <<>> /\ \A k \in 0..Len(all) : J[k] \in Seq(Char)
      /\ \A k \in 1..Len(all) : J[k] = WithPiece(J[k - 1], all[k])
    BY DEF Joins
<1>5. all \in Seq(Seq(Char))
    BY PiecesStay
<1> HIDE DEF n, all
<1>6. \A k \in 0..n : at[k].out \in Seq(Seq(Char)) /\ at[k].piece \in Seq(Char)
    BY <1>2 DEF SplitState
<1>7. \A k \in 0..n : m(k) \in 0..Len(all) /\ \A i \in 1..m(k) : at[k].out[i] = all[i]
  <2> SUFFICES ASSUME NEW k \in 0..n
               PROVE  m(k) \in 0..Len(all) /\ \A i \in 1..m(k) : at[k].out[i] = all[i]
      OBVIOUS
  <2>1. m(k) \in Nat /\ Len(all) \in Nat
      BY <1>5, <1>6
  <2> QED BY <1>3, <2>1 DEF Begins
<1>8. 0 \in Good
  <2>1. 0 \in 0..n /\ at[0].out = <<>> /\ at[0].piece = <<>> /\ Len(<<>>) = 0
      BY <1>1, <1>2
  <2>2. m(0) = 0 /\ J[m(0)] = <<>>
      BY <1>4, <2>1
  <2>3. 1..0 = {}
      OBVIOUS
  <2>4. Covers(<<>>, ",", <<>>, f, 0)
      BY <2>1, <2>3 DEF Covers
  <2> QED BY <2>1, <2>2, <2>4
<1>9. ASSUME NEW k \in 1..n, k - 1 \in Good PROVE k \in Good
  <2> DEFINE old == at[k - 1]
             new == at[k]
             x == J[m(k - 1)]
  <2>1. Covers(x, ",", old.piece, f, k - 1) /\ k \in 0..n /\ k - 1 \in 0..n
    <3>1. Covers(x, ",", old.piece, f, k - 1)
        BY <1>9
    <3> HIDE DEF Good, x, old
    <3>2. k \in 0..n /\ k - 1 \in 0..n
        BY <1>1
    <3> QED BY <3>1, <3>2
  <2> HIDE DEF Good
  <2>2. old.piece \in Seq(Char) /\ old.out \in Seq(Seq(Char))
      BY <1>6, <2>1
  <2>3. x \in Seq(Char)
      BY <1>4, <1>7, <2>1
  <2>4. k \in 1..Len(f)
      BY DEF n
  <2>5. IsSplit(f[k], old, new)
      BY <1>2
  <2> HIDE DEF x
  <2>6. CASE f[k] = "," /\ old.depth = 0
    <3>1. new.piece = <<>> /\ new.out = Append(old.out, old.piece)
        BY <2>5, <2>6 DEF IsSplit
    <3>2. m(k) = m(k - 1) + 1 /\ new.out[m(k)] = old.piece /\ m(k - 1) \in Nat
        BY <2>2, <3>1
    <3>3. m(k) \in 1..Len(all) /\ all[m(k)] = old.piece
      <4>1. m(k) \in 0..Len(all) /\ \A i \in 1..m(k) : new.out[i] = all[i]
          BY <1>7, <2>1
      <4> HIDE DEF m
      <4>2. m(k) \in 1..m(k)
          BY <3>2, <4>1
      <4> QED BY <3>2, <4>1, <4>2
    <3> HIDE DEF m
    <3>4. m(k) - 1 = m(k - 1)
        BY <3>2
    <3>5. J[m(k)] = WithPiece(x, old.piece)
        BY <1>4, <3>3, <3>4 DEF x
    <3>6. Covers(WithPiece(x, old.piece), ",", <<>>, f, k)
        BY <2>1, <2>2, <2>3, <2>4, <2>6, CoverComma DEF WithPiece
    <3> QED BY <2>1, <3>1, <3>5, <3>6 DEF Good
  <2>7. CASE ~(f[k] = "," /\ old.depth = 0)
    <3>1. new.piece = Append(old.piece, f[k]) /\ new.out = old.out
        BY <2>5, <2>7 DEF IsSplit
    <3>2. J[m(k)] = x
        BY <3>1 DEF x
    <3>3. Covers(x, ",", Append(old.piece, f[k]), f, k)
        BY <2>1, <2>2, <2>3, <2>4, CoverOther
    <3> QED BY <2>1, <3>1, <3>2, <3>3 DEF Good
  <2> QED BY <2>6, <2>7
<1> HIDE DEF Good
<1>10. \A k \in 0..n : k \in Good
    BY <1>1, <1>8, <1>9, Upwards
<1> QED BY <1>10 DEF Good, n

\* What should become of a filter: the pieces joined are the filter, but for a
\* comma at its end.
FilterIs(pieces, f) ==
  (\A i \in DOMAIN f : Level(f, i) >= 0) =>
    LET tops == {i \in DOMAIN f : f[i] = "," /\ Level(f, i) = 0}
    IN  /\ Joined(pieces) = IF pieces = <<>> THEN <<>>
                            ELSE <<",">> \o (IF f[Len(f)] = "," /\ Len(f) \in tops THEN Front(f) ELSE f)
        /\ Len(pieces) = Cardinality(tops \ {Len(f)}) + (IF f = <<>> THEN 0 ELSE 1)

\* A covered filter is told from the pieces.
LEMMA CoveredAll ==
  ASSUME NEW f \in Seq(Char), NEW x \in Seq(Char), NEW c \in Char, NEW piece \in Seq(Char),
         Covers(x, c, piece, f, Len(f))
  PROVE  /\ piece = <<>> /\ f # <<>> => x = <<c>> \o Front(f)
         /\ Between(x, c, piece) = <<c>> \o f
<1> DEFINE n == Len(f)
           a == Len(x)
           b == Len(piece)
<1>1. n \in Nat /\ a \in Nat /\ b \in Nat /\ a + b = n
    BY DEF Covers
<1>2. /\ \A i \in 1..a : x[i] = IF i = 1 THEN c ELSE f[i - 1]
      /\ a > 0 => f[a] = c
      /\ \A i \in 1..b : piece[i] = f[a + i]
    BY DEF Covers
<1>3. ASSUME piece = <<>>, f # <<>> PROVE x = <<c>> \o Front(f)
  <2> DEFINE g == Front(f)
             y == <<c>> \o g
  <2>1. b = 0 /\ a = n /\ n # 0
      BY <1>1, <1>3
  <2>2. g \in Seq(Char) /\ Len(g) = n - 1 /\ \A i \in 1..(n - 1) : g[i] = f[i]
      BY <2>1 DEF Front
  <2> HIDE DEF g
  <2>3. y \in Seq(Char) /\ Len(y) = n /\ y[1] = c /\ \A i \in 2..n : y[i] = g[i - 1]
    <3>1. g \in Seq(Char)
        BY <2>2
    <3>2. y \in Seq(Char) /\ Len(y) = Len(g) + 1 /\ y[1] = c /\ \A i \in 2..(Len(g) + 1) : y[i] = g[i - 1]
        BY <3>1
    <3>3. Len(g) + 1 = n
        BY <1>1, <2>2
    <3> HIDE DEF n
    <3> QED BY <3>2, <3>3
  <2> HIDE DEF y
  <2>4. \A i \in 1..n : x[i] = y[i]
    <3> SUFFICES ASSUME NEW i \in 1..n PROVE x[i] = y[i]
        OBVIOUS
    <3>1. i = 1 \/ i \in 2..n
        BY <1>1
    <3>2. CASE i = 1
        BY <1>2, <2>1, <2>3, <3>2
    <3>3. CASE i \in 2..n
      <4>1. i - 1 \in 1..(n - 1) /\ i # 1
          BY <1>1, <3>3
      <4> QED BY <1>2, <2>1, <2>2, <2>3, <3>3, <4>1
    <3> QED BY <3>1, <3>2, <3>3
  <2>5. Len(x) = n
      BY <2>1
  <2> HIDE DEF n, a, b
  <2>6. x = y
      BY <2>3, <2>4, <2>5
  <2> QED BY <2>6 DEF y, g
<1>4. Between(x, c, piece) = <<c>> \o f
  <2> DEFINE y == Between(x, c, piece)
             z == <<c>> \o f
  <2>1. y \in Seq(Char) /\ Len(y) = a + 1 + b
      BY DEF Between
  <2>2. /\ \A i \in 1..a : y[i] = x[i]
        /\ y[a + 1] = c
        /\ \A i \in 1..b : y[a + 1 + i] = piece[i]
      BY DEF Between
  <2>3. z \in Seq(Char) /\ Len(z) = n + 1 /\ z[1] = c /\ \A i \in 2..(n + 1) : z[i] = f[i - 1]
      OBVIOUS
  <2> HIDE DEF y, z, n, a, b
  <2>4. \A i \in 1..(n + 1) : y[i] = z[i]
    <3> SUFFICES ASSUME NEW i \in 1..(n + 1) PROVE y[i] = z[i]
        OBVIOUS
    <3>1. CASE i \in 1..a
      <4>1. i = 1 \/ i \in 2..(n + 1)
          BY <1>1
      <4> QED BY <1>2, <2>2, <2>3, <3>1, <4>1
    <3>2. CASE i = a + 1
      <4>1. CASE a = 0
          BY <2>2, <2>3, <3>2, <4>1
      <4>2. CASE a # 0
        <5>1. i \in 2..(n + 1) /\ i - 1 = a /\ a > 0
            BY <1>1, <3>2, <4>2
        <5> QED BY <1>2, <2>2, <2>3, <3>2, <5>1
      <4> QED BY <4>1, <4>2
    <3>3. CASE i > a + 1
      <4> DEFINE j == i - (a + 1)
      <4>1. j \in 1..b /\ a + 1 + j = i /\ a + j = i - 1 /\ i \in 2..(n + 1)
          BY <1>1, <3>3
      <4> HIDE DEF j
      <4> QED BY <1>2, <2>2, <2>3, <4>1
    <3>4. i \in 1..a \/ i = a + 1 \/ i > a + 1
        BY <1>1
    <3> QED BY <3>1, <3>2, <3>3, <3>4
  <2>5. Len(y) = n + 1
      BY <1>1, <2>1
  <2> DEFINE len == n + 1
  <2>6. y \in Seq(Char) /\ z \in Seq(Char) /\ Len(y) = len /\ Len(z) = len /\ \A i \in 1..len : y[i] = z[i]
      BY <2>1, <2>3, <2>4, <2>5
  <2> HIDE DEF len
  <2>7. y = z
      BY <2>6
  <2> QED BY <2>7 DEF y, z
<1> QED BY <1>3, <1>4

\* In a filter of any length whose parentheses are closed after they open, the pieces
\* joined by commas are the filter, but for a comma at its end, and a comma inside of
\* parentheses splits nothing (the loop of splitFilter).
THEOREM SplitsRight ==
  ASSUME NEW f \in Seq(Char)
  PROVE  FilterIs(SplitFilter(f), f)
<1> SUFFICES ASSUME \A i \in DOMAIN f : Level(f, i) >= 0 PROVE FilterIs(SplitFilter(f), f)
    BY DEF FilterIs
<1> DEFINE n == Len(f)
           all == SplitFilter(f)
           tops == TopCommas(f, n)
<1>1. PICK at : Splits(f, at)
    BY SplitStates
<1>2. all \in Seq(Seq(Char)) /\ \A k \in 0..n : Begins(at[k].out, all)
    BY <1>1, PiecesStay
<1>3. PICK J : Joins(all, J)
    BY <1>2, JoinStates
<1>4. \A k \in 0..n : InStep(f, at, k)
    BY <1>1, LoopInStep
<1>5. \A k \in 0..n : Covers(J[Len(at[k].out)], ",", at[k].piece, f, k)
    BY <1>1, <1>3, PrefixCovered
<1>6. n \in Nat /\ DOMAIN f = 1..n
    OBVIOUS
<1>7. /\ at[0] = [depth |-> 0, piece |-> <<>>, out |-> <<>>]
      /\ \A k \in 0..n : at[k] \in SplitState
      /\ all = IF at[n].piece = <<>> THEN at[n].out ELSE Append(at[n].out, at[n].piece)
    BY <1>1 DEF Splits
<1>8. /\ J[0] = <<>> /\ \A k \in 0..Len(all) : J[k] \in Seq(Char)
      /\ \A k \in 1..Len(all) : J[k] = WithPiece(J[k - 1], all[k])
      /\ Joined(all) = J[Len(all)]
    BY <1>3 DEF Joins
<1>9. tops = {i \in DOMAIN f : f[i] = "," /\ Level(f, i) = 0}
    BY <1>6 DEF TopCommas
<1>10. n \in tops => f[n] = ","
    BY DEF TopCommas
<1>11. f = <<>> <=> n = 0
    OBVIOUS
<1> DEFINE out == at[n].out
           piece == at[n].piece
           m == Len(out)
           x == J[m]
<1> HIDE DEF n, all, tops
<1>12. n \in 0..n /\ 0 \in 0..n
    BY <1>6
<1>13. out \in Seq(Seq(Char)) /\ piece \in Seq(Char) /\ m \in Nat
  <2>1. out \in Seq(Seq(Char)) /\ piece \in Seq(Char)
      BY <1>7, <1>12 DEF SplitState
  <2> QED BY <2>1
<1>14. m = Cardinality(tops) /\ (n # 0 => (piece = <<>> <=> n \in tops))
    BY <1>4, <1>12 DEF InStep, tops
<1>15. Covers(x, ",", piece, f, n)
    BY <1>5, <1>12
<1>16. IsFiniteSet(tops)
  <2>1. CASE n = 0
      BY <2>1, NoneYet, FS_EmptySet DEF tops
  <2>2. CASE n # 0
    <3>1. n \in Nat \ {0}
        BY <1>6, <2>2
    <3> QED BY <3>1, TopCommasNext DEF tops
  <2> QED BY <2>1, <2>2
<1>17. m \in 0..Len(all) /\ Len(all) \in Nat
  <2>1. m <= Len(all)
      BY <1>2, <1>12 DEF Begins
  <2>2. Len(all) \in Nat
      BY <1>2
  <2> HIDE DEF m
  <2> QED BY <1>13, <2>1, <2>2
<1>18. x \in Seq(Char)
    BY <1>8, <1>17
<1>19. "," \in Char
    BY DEF Char
<1>20. /\ piece = <<>> /\ f # <<>> => x = <<",">> \o Front(f)
       /\ Between(x, ",", piece) = <<",">> \o f
  <2> DEFINE c == ","
  <2>1. c \in Char /\ Covers(x, c, piece, f, Len(f))
      BY <1>15, <1>19, Zenon DEF n
  <2> HIDE DEF x, piece, out, m, c
  <2>2. /\ piece = <<>> /\ f # <<>> => x = <<c>> \o Front(f)
        /\ Between(x, c, piece) = <<c>> \o f
      BY <1>13, <1>18, <2>1, CoveredAll
  <2> QED BY <2>2, Zenon DEF c
<1> SUFFICES /\ Joined(all) = IF all = <<>> THEN <<>>
                              ELSE <<",">> \o (IF f[n] = "," /\ n \in tops THEN Front(f) ELSE f)
             /\ Len(all) = Cardinality(tops \ {n}) + (IF f = <<>> THEN 0 ELSE 1)
    BY <1>9 DEF FilterIs, n, all
<1> HIDE DEF out, piece, x
<1>21. all = IF piece = <<>> THEN out ELSE Append(out, piece)
    BY <1>7 DEF out, piece
<1>22. CASE n = 0
  <2>1. out = <<>> /\ piece = <<>>
      BY <1>7, <1>22 DEF out, piece
  <2>2. all = <<>> /\ Len(all) = 0
      BY <1>21, <2>1
  <2>3. Joined(all) = <<>>
      BY <1>8, <2>2
  <2>4. tops = {} /\ tops \ {n} = {} /\ Cardinality({}) = 0
      BY <1>22, NoneYet, FS_EmptySet DEF tops
  <2> QED BY <1>11, <1>22, <2>2, <2>3, <2>4
<1>23. CASE n # 0 /\ piece = <<>>
  <2>1. n \in tops /\ f # <<>> /\ all = out
      BY <1>11, <1>14, <1>21, <1>23
  <2>2. Cardinality(tops \ {n}) = m - 1
      BY <1>14, <1>16, <2>1, FS_RemoveElement
  <2>3. m # 0
      BY <1>14, <1>16, <2>1, FS_EmptySet
  <2>4. all # <<>>
      BY <2>1, <2>3
  <2>5. Joined(all) = x
      BY <1>8, <2>1 DEF x
  <2>6. Joined(all) = <<",">> \o Front(f)
      BY <1>20, <1>23, <2>1, <2>5
  <2>7. Len(all) = m
      BY <2>1
  <2> HIDE DEF m
  <2>8. Len(all) = Cardinality(tops \ {n}) + 1
      BY <1>13, <2>2, <2>7
  <2> QED BY <1>10, <2>1, <2>4, <2>6, <2>8
<1>24. CASE n # 0 /\ piece # <<>>
  <2>1. n \notin tops /\ f # <<>> /\ all = Append(out, piece)
      BY <1>11, <1>14, <1>21, <1>24
  <2>2. tops \ {n} = tops
      BY <2>1
  <2>3. Len(all) = m + 1 /\ all[m + 1] = piece /\ all # <<>>
    <3>1. Len(all) = m + 1 /\ all[m + 1] = piece
        BY <1>13, <2>1
    <3>2. Len(<<>>) = 0
        OBVIOUS
    <3> QED BY <1>13, <3>1, <3>2
  <2> HIDE DEF m
  <2>4. m + 1 \in 1..Len(all) /\ (m + 1) - 1 = m
      BY <1>13, <2>3
  <2>5. Joined(all) = WithPiece(x, piece)
      BY <1>8, <2>3, <2>4 DEF x
  <2>6. Joined(all) = <<",">> \o f
      BY <1>20, <2>5 DEF WithPiece
  <2>7. Len(all) = Cardinality(tops \ {n}) + 1
      BY <1>14, <2>2, <2>3
  <2> QED BY <2>1, <2>3, <2>6, <2>7
<1> QED BY <1>22, <1>23, <1>24

FilterShown == answer.kind = "filter" => FilterIs(answer.pieces, task.filter)

\* What is proved of the filter is the property that is checked.
LEMMA FilterShownRight == FilterShown => FilterRight
<1> SUFFICES ASSUME FilterShown, answer.kind = "filter" PROVE FilterRight
    BY DEF FilterRight
<1>1. FilterIs(answer.pieces, task.filter)
    BY DEF FilterShown
<1> QED BY <1>1, Zenon DEF FilterRight, FilterIs, Level, Joined

\* The answer about a filter is right.
LEMMA FilterAnswerRight ==
  ASSUME TaskOK, AnswerFilter
  PROVE  FilterShown'
<1>1. /\ task.kind = "filter" /\ task' = task /\ answer'.pieces = SplitFilter(task.filter)
    BY DEF AnswerFilter, Answers
<1>2. task.filter \in UpTo(Char, MaxFilter)
    BY <1>1 DEF TaskOK, FilterTasks, Char
<1>3. task.filter \in Seq(Char)
    BY <1>2, AlgorithmsAssumption, SequencesUpTo
<1>4. FilterIs(SplitFilter(task.filter), task.filter)
    BY <1>3, SplitsRight
<1> QED BY <1>1, <1>4 DEF FilterShown

----------------------------------------------------------------------------
(* All the answers *)

\* The inductive invariant: the task is one of its kind, and an answer is right for
\* the task that it answers.
AnswersRight ==
  /\ TaskOK
  /\ AirRight /\ ListedRight /\ EpgRight
  /\ SharesShown /\ DashboardShown /\ CatalogShown /\ FilterShown

\* Nothing is wrong with an answer that was not given.
LEMMA NothingAnswered ==
  ASSUME \A kind \in {"air", "epg", "shares", "dashboard", "catalog", "filter"} : answer.kind # kind
  PROVE  /\ AirRight /\ ListedRight /\ EpgRight
         /\ SharesShown /\ DashboardShown /\ CatalogShown /\ FilterShown
BY DEF AirRight, ListedRight, EpgRight, SharesShown, DashboardShown, CatalogShown, FilterShown

\* Before the answer there is a task of its kind, or none.
LEMMA AnswersInit == AlgorithmInit \/ NoTask => AnswersRight
<1>1. AlgorithmInit \/ NoTask => answer.kind = "none"
    BY DEF AlgorithmInit, NoTask, Unanswered
<1>2. NoTask => TaskOK
    BY DEF NoTask, Unanswered, TaskOK
<1>3. /\ task \in AirTasks => task.kind = "air"
      /\ task \in EpgTasks => task.kind = "epg"
      /\ task \in ShareTasks => task.kind = "shares"
      /\ task \in DashboardTasks => task.kind = "dashboard"
      /\ task \in CatalogTasks => task.kind = "catalog"
      /\ task \in FilterTasks => task.kind = "filter"
  <2>1. task \in AirTasks => task.kind = "air"
      BY DEF AirTasks
  <2>2. task \in EpgTasks => task.kind = "epg"
      BY DEF EpgTasks
  <2>3. task \in ShareTasks => task.kind = "shares"
      BY DEF ShareTasks
  <2>4. task \in DashboardTasks => task.kind = "dashboard"
      BY DEF DashboardTasks
  <2>5. task \in CatalogTasks => task.kind = "catalog"
      BY DEF CatalogTasks
  <2>6. task \in FilterTasks => task.kind = "filter"
      BY DEF FilterTasks
  <2> QED BY <2>1, <2>2, <2>3, <2>4, <2>5, <2>6
<1>4. AlgorithmInit => TaskOK
    BY <1>3 DEF AlgorithmInit, TaskOK
<1> QED BY <1>1, <1>2, <1>4, NothingAnswered DEF AnswersRight

\* Answering one task says nothing of the others; nothing answers twice.
LEMMA AnswersNext == AnswersRight /\ [AlgorithmNext]_algorithmVars => AnswersRight'
<1> SUFFICES ASSUME AnswersRight, [AlgorithmNext]_algorithmVars PROVE AnswersRight'
    OBVIOUS
<1>1. TaskOK
    BY DEF AnswersRight
<1>2. task' = task
    BY DEF AlgorithmNext, algorithmVars, Answers, AnswerAir, AnswerEpg, AnswerShares,
           AnswerDashboard, AnswerCatalog, AnswerFilter
<1>3. TaskOK'
    BY <1>1, <1>2 DEF TaskOK
<1> DEFINE Only(kind) == \A other \in {"air", "epg", "shares", "dashboard", "catalog", "filter"} \ {kind} :
                           answer'.kind # other
<1>4. /\ Only("air") => (AirRight' /\ ListedRight' => AnswersRight')
      /\ Only("epg") => (EpgRight' => AnswersRight')
      /\ Only("shares") => (SharesShown' => AnswersRight')
      /\ Only("dashboard") => (DashboardShown' => AnswersRight')
      /\ Only("catalog") => (CatalogShown' => AnswersRight')
      /\ Only("filter") => (FilterShown' => AnswersRight')
  <2>1. /\ answer'.kind # "air" => AirRight' /\ ListedRight'
        /\ answer'.kind # "epg" => EpgRight'
        /\ answer'.kind # "shares" => SharesShown'
        /\ answer'.kind # "dashboard" => DashboardShown'
        /\ answer'.kind # "catalog" => CatalogShown'
        /\ answer'.kind # "filter" => FilterShown'
      BY DEF AirRight, ListedRight, EpgRight, SharesShown, DashboardShown, CatalogShown, FilterShown
  <2>2. /\ AirRight' /\ ListedRight' /\ EpgRight' /\ SharesShown' /\ DashboardShown' /\ CatalogShown'
           /\ FilterShown' => AnswersRight'
      BY <1>3 DEF AnswersRight
  <2> QED BY <2>1, <2>2
<1>5. CASE AnswerAir
  <2>1. answer'.kind = "air"
      BY <1>5 DEF AnswerAir
  <2> QED BY <1>1, <1>4, <1>5, <2>1, AirAnswerRight
<1>6. CASE AnswerEpg
  <2>1. answer'.kind = "epg"
      BY <1>6 DEF AnswerEpg
  <2> QED BY <1>1, <1>4, <1>6, <2>1, EpgAnswerRight
<1>7. CASE AnswerShares
  <2>1. answer'.kind = "shares"
      BY <1>7 DEF AnswerShares
  <2> QED BY <1>1, <1>4, <1>7, <2>1, SharesAnswerRight
<1>8. CASE AnswerDashboard
  <2>1. answer'.kind = "dashboard"
      BY <1>8 DEF AnswerDashboard
  <2> QED BY <1>1, <1>4, <1>8, <2>1, DashboardAnswerRight
<1>9. CASE AnswerCatalog
  <2>1. answer'.kind = "catalog"
      BY <1>9 DEF AnswerCatalog
  <2> QED BY <1>1, <1>4, <1>9, <2>1, CatalogAnswerRight
<1>10. CASE AnswerFilter
  <2>1. answer'.kind = "filter"
      BY <1>10 DEF AnswerFilter
  <2> QED BY <1>1, <1>4, <1>10, <2>1, FilterAnswerRight
<1>11. CASE UNCHANGED algorithmVars
  <2>1. answer' = answer
      BY <1>11 DEF algorithmVars
  <2>2. AirRight' /\ ListedRight' /\ EpgRight'
    <3>1. AirRight /\ ListedRight /\ EpgRight
        BY DEF AnswersRight
    <3>2. AirRight'
        BY <1>2, <2>1, <3>1, Zenon DEF AirRight
    <3>3. ListedRight'
        BY <1>2, <2>1, <3>1, Zenon DEF ListedRight
    <3>4. EpgRight'
        BY <1>2, <2>1, <3>1, Zenon DEF EpgRight
    <3> QED BY <3>2, <3>3, <3>4
  <2>3. SharesShown' /\ DashboardShown' /\ CatalogShown' /\ FilterShown'
    <3>1. SharesShown /\ DashboardShown /\ CatalogShown /\ FilterShown
        BY DEF AnswersRight
    <3> QED BY <1>2, <2>1, <3>1, Zenon DEF SharesShown, DashboardShown, CatalogShown, FilterShown
  <2> QED BY <1>3, <2>2, <2>3 DEF AnswersRight
<1> QED BY <1>5, <1>6, <1>7, <1>8, <1>9, <1>10, <1>11 DEF AlgorithmNext

\* The inductive invariant has all that is checked.
LEMMA AnswersAreRight == AnswersRight => AlgorithmsRight
BY SharesShownRight, DashboardShownRight, CatalogShownRight, FilterShownRight
   DEF AnswersRight, AlgorithmsRight
=============================================================================

---------------------------- MODULE SharedLemmas ----------------------------
(***************************************************************************)
(* What the proofs of several components need to know of numbers, of lists *)
(* and of the paths of bones: a least counterexample where an induction    *)
(* would be made, and multiples of a period, which the provers do not find *)
(* among other facts.                                                      *)
(***************************************************************************)
EXTENDS HumanJoints, Integers, SequenceTheorems, FiniteSetTheorems, WellFoundedInduction, TLAPS

(* Its initial segments, ordered by inclusion, have a minimum.             *)
LEMMA SmallestIndex ==
  ASSUME NEW T, T \subseteq Nat, T # {}
  PROVE  \E m \in T : \A n \in T : m <= n
<1> DEFINE U == {1 .. i : i \in T}
<1>1. U \subseteq FiniteSubsetsOf(Nat)
  <2> SUFFICES ASSUME NEW i \in T PROVE 1 .. i \in FiniteSubsetsOf(Nat)
    OBVIOUS
  <2>1. IsFiniteSet(1 .. i) /\ 1 .. i \subseteq Nat
    BY FS_Interval
  <2> QED
    BY <2>1 DEF FiniteSubsetsOf
<1>2. U # {}
  OBVIOUS
<1>3. PICK x \in U : \A y \in U : ~(<<y, x>> \in StrictSubsetOrdering(Nat))
  <2> HIDE DEF U
  <2> QED
    BY <1>1, <1>2, FS_StrictSubsetOrderingWellFounded, WFMin
<1>4. PICK m \in T : x = 1 .. m
  OBVIOUS
<1>5. ASSUME NEW n \in T, ~(m <= n)
      PROVE  FALSE
  <2>1. 1 .. n \subseteq 1 .. m /\ 1 .. n # 1 .. m
    BY <1>5
  <2>2. 1 .. n \in SUBSET Nat /\ 1 .. m \in SUBSET Nat
    OBVIOUS
  <2>3. <<1 .. n, 1 .. m>> \in StrictSubsetOrdering(Nat)
    <3> DEFINE p == <<1 .. n, 1 .. m>>
    <3>1. p \in (SUBSET Nat) \X (SUBSET Nat)
      BY <2>2
    <3>2. p[1] \subseteq p[2] /\ p[1] # p[2]
      BY <2>1
    <3> QED
      BY <3>1, <3>2 DEF StrictSubsetOrdering
  <2> QED
    BY <1>3, <1>4, <2>3
<1> QED
  BY <1>5

LEMMA Quotient ==
  ASSUME NEW n \in Nat, NEW p \in Nat \ {0}
  PROVE  /\ n \div p \in Nat
         /\ (n \div p) * p <= n
         /\ n < (n \div p) * p + p
         /\ n < (n \div p + 1) * p
OBVIOUS

LEMMA Multiples ==
  ASSUME NEW m \in Int, NEW n \in Int, NEW p \in Nat
  PROVE  /\ m * p \in Int
         /\ m <= n => m * p <= n * p
         /\ (m + 1) * p = m * p + p
         /\ (m - 1) * p = m * p - p
OBVIOUS

(* Two numbers of periods compare as the numbers do.                       *)
LEMMA PeriodsCompare ==
  ASSUME NEW m \in Int, NEW n \in Int, NEW p \in Nat \ {0}, m * p < n * p
  PROVE  m < n
<1>1. CASE n <= m
  BY <1>1, Multiples
<1> QED
  BY <1>1

(* A set of indices has no more elements than there are.                   *)
LEMMA IndexSetIsSmall ==
  ASSUME NEW n \in Nat, NEW T, T \subseteq 1 .. n
  PROVE  IsFiniteSet(T) /\ Cardinality(T) \in 0 .. n
<1>1. IsFiniteSet(1 .. n)
  BY FS_Interval
<1>2. Cardinality(1 .. n) = n
  <2>1. Cardinality(1 .. n) = IF 1 > n THEN 0 ELSE n - 1 + 1
    BY FS_Interval
  <2>2. QED
    BY <2>1
<1>3. IsFiniteSet(T) /\ Cardinality(T) <= Cardinality(1 .. n)
  BY <1>1, FS_Subset
<1>4. QED
  BY <1>2, <1>3, FS_CardinalityType

(* A function of 0 .. n that goes from each value to the next by a step.   *)
GoesBy(f, n, base, step) ==
  \A k \in 0 .. n : f[k] = IF k = 0 THEN base ELSE step[k][f[k - 1]]

LEMMA StepsExist ==
  ASSUME NEW T, NEW base \in T, NEW n \in Nat, NEW step \in [1 .. n -> [T -> T]]
  PROVE  \E f \in [0 .. n -> T] : GoesBy(f, n, base, step)
<1> DEFINE Steps(m, f) == GoesBy(f, m, base, step)
           Missing == {m \in 0 .. n : ~\E f \in [0 .. m -> T] : Steps(m, f)}
<1>1. SUFFICES ASSUME Missing # {} PROVE FALSE
  OBVIOUS
<1>2. PICK m \in Missing : \A k \in Missing : m <= k
  <2>1. Missing \subseteq Nat
    OBVIOUS
  <2> HIDE DEF Missing
  <2>2. QED
    BY <1>1, <2>1, SmallestIndex
<1>3. m # 0
  <2>1. SUFFICES ASSUME m = 0 PROVE \E f \in [0 .. m -> T] : Steps(m, f)
    BY <1>2
  <2>2. [k \in 0 .. 0 |-> base] \in [0 .. m -> T] /\ Steps(m, [k \in 0 .. 0 |-> base])
    BY <2>1 DEF GoesBy
  <2>3. QED
    BY <2>2
<1>4. PICK f \in [0 .. m - 1 -> T] : Steps(m - 1, f)
  <2>1. m \in 0 .. n
    BY <1>2
  <2>2. m - 1 \in 0 .. n /\ ~(m <= m - 1)
    BY <1>3, <2>1
  <2>3. m - 1 \notin Missing
    <3> HIDE DEF Missing
    <3>1. QED
      BY <1>2, <2>2
  <2>4. QED
    BY <2>2, <2>3
<1> DEFINE g == [k \in 0 .. m |-> IF k < m THEN f[k] ELSE step[m][f[m - 1]]]
<1>5. g \in [0 .. m -> T]
  <2>1. m \in 1 .. n /\ m - 1 \in 0 .. m - 1
    BY <1>2, <1>3
  <2>2. step[m][f[m - 1]] \in T
    BY <2>1
  <2>3. \A k \in 0 .. m : k < m => k \in 0 .. m - 1
    BY <2>1
  <2>4. QED
    BY <2>2, <2>3
<1>6. Steps(m, g)
  <2> SUFFICES ASSUME NEW k \in 0 .. m
               PROVE  g[k] = IF k = 0 THEN base ELSE step[k][g[k - 1]]
    BY DEF GoesBy
  <2>1. CASE k = m
    <3>1. m - 1 \in 0 .. m /\ m - 1 < m /\ ~(m < m)
      BY <1>2, <1>3
    <3>2. g[m] = step[m][f[m - 1]] /\ g[m - 1] = f[m - 1]
      BY <3>1
    <3> HIDE DEF g
    <3>3. QED
      BY <1>3, <2>1, <3>2
  <2>2. CASE k # m
    <3>1. k \in 0 .. m - 1 /\ g[k] = f[k] /\ (k # 0 => g[k - 1] = f[k - 1])
      BY <1>2, <2>2
    <3>2. f[k] = IF k = 0 THEN base ELSE step[k][f[k - 1]]
      BY <1>4, <3>1 DEF GoesBy
    <3> HIDE DEF g
    <3>3. QED
      BY <3>1, <3>2
  <2>3. QED
    BY <2>1, <2>2
<1>7. QED
  BY <1>2, <1>5, <1>6

-----------------------------------------------------------------------------
(* Lists, and what is kept of one.                                         *)

(* A finite set of numbers has each place in its order taken once.         *)
LEMMA InOrderLists ==
  ASSUME NEW S, S \subseteq Int, IsFiniteSet(S)
  PROVE  /\ Cardinality(S) \in Nat
         /\ InOrder(S) \in [1 .. Cardinality(S) -> S]
         /\ \A x \in S : \E k \in 1 .. Cardinality(S) : InOrder(S)[k] = x
         /\ \A k, l \in 1 .. Cardinality(S) : k < l => InOrder(S)[k] < InOrder(S)[l]
<1> DEFINE n == Cardinality(S)
           upTo(x) == {m \in S : m <= x}
           rank == [x \in S |-> Cardinality(upTo(x))]
           at(k) == CHOOSE x \in S : Cardinality(upTo(x)) = k
<1>1. n \in Nat
  BY FS_CardinalityType
<1>2. ASSUME NEW x \in S
      PROVE  /\ IsFiniteSet(upTo(x)) /\ rank[x] \in 1 .. n
             /\ rank[x] = Cardinality(upTo(x))
  <2>1. upTo(x) \subseteq S /\ x \in upTo(x)
    OBVIOUS
  <2>2. rank[x] = Cardinality(upTo(x))
    OBVIOUS
  <2> HIDE DEF upTo, rank
  <2>3. IsFiniteSet(upTo(x)) /\ Cardinality(upTo(x)) <= n
    BY <2>1, FS_Subset
  <2>4. Cardinality(upTo(x)) \in Nat /\ Cardinality(upTo(x)) # 0
    BY <2>1, <2>3, FS_CardinalityType, FS_EmptySet
  <2> HIDE DEF n
  <2>5. QED
    BY <1>1, <2>2, <2>3, <2>4
<1>3. ASSUME NEW x \in S, NEW y \in S, x < y
      PROVE  rank[x] < rank[y]
  <2>1. upTo(x) \subseteq upTo(y) /\ y \in upTo(y) /\ y \notin upTo(x)
    <3>1. x \in Int /\ y \in Int
      OBVIOUS
    <3>2. \A m \in S : m <= x => m <= y
      BY <1>3, <3>1
    <3>3. y <= y /\ ~(y <= x)
      BY <1>3, <3>1
    <3>4. QED
      BY <3>2, <3>3
  <2>2. rank[x] \in Nat /\ rank[y] \in Nat
    BY <1>1, <1>2
  <2>3. rank[x] = Cardinality(upTo(x)) /\ rank[y] = Cardinality(upTo(y)) /\ IsFiniteSet(upTo(y))
    BY <1>2
  <2> HIDE DEF upTo, rank
  <2>4. Cardinality(upTo(x)) <= Cardinality(upTo(y)) /\ Cardinality(upTo(x)) # Cardinality(upTo(y))
    BY <2>1, <2>3, FS_Subset
  <2>5. QED
    BY <2>2, <2>3, <2>4
<1>4. ASSUME NEW x \in S, NEW y \in S, rank[x] = rank[y]
      PROVE  x = y
  <2>1. x \in Int /\ y \in Int /\ rank[x] \in Int /\ rank[y] \in Int
    BY <1>1, <1>2
  <2>2. ~(x < y) /\ ~(y < x)
    <3> HIDE DEF rank
    <3>1. QED
      BY <1>3, <1>4, <2>1
  <2>3. QED
    BY <2>1, <2>2
<1>5. rank \in Surjection(S, 1 .. n)
  <2>1. rank \in [S -> 1 .. n]
    <3>1. rank = [x \in S |-> rank[x]]
      OBVIOUS
    <3> HIDE DEF rank, n
    <3>2. QED
      BY <1>2, <3>1
  <2>2. rank \in Injection(S, 1 .. n)
    <3> HIDE DEF rank, n
    <3>1. QED
      BY <2>1, <1>4 DEF Injection, IsInjective
  <2>3. IsFiniteSet(1 .. n)
    BY <1>1, FS_Interval
  <2>4. Cardinality(1 .. n) = n
    <3>1. Cardinality(1 .. n) = IF 1 > n THEN 0 ELSE n - 1 + 1
      BY <1>1, FS_Interval
    <3> HIDE DEF n
    <3>2. QED
      BY <1>1, <3>1
  <2>5. Cardinality(S) = Cardinality(1 .. n)
    BY <2>4
  <2> HIDE DEF rank, n
  <2>6. QED
    BY <2>2, <2>3, <2>5, FS_Injection
<1>6. \A k \in 1 .. n : at(k) \in S /\ rank[at(k)] = k
  <2>1. ASSUME NEW k \in 1 .. n
        PROVE  \E x \in S : Cardinality(upTo(x)) = k
    <3>1. PICK x \in S : rank[x] = k
      <4> HIDE DEF rank, n
      <4>1. QED
        BY <1>5 DEF Surjection
    <3>2. Cardinality(upTo(x)) = k
      BY <3>1
    <3>3. QED
      BY <3>2
  <2> HIDE DEF upTo, n
  <2>2. QED
    BY <2>1
<1>7. InOrder(S) = [k \in 1 .. n |-> at(k)]
  BY DEF InOrder
<1> HIDE DEF at, rank, n
<1>8. InOrder(S) \in [1 .. n -> S] /\ \A k \in 1 .. n : InOrder(S)[k] = at(k)
  BY <1>6, <1>7
<1>9. \A x \in S : InOrder(S)[rank[x]] = x
  <2> SUFFICES ASSUME NEW x \in S PROVE InOrder(S)[rank[x]] = x
    OBVIOUS
  <2>1. rank[x] \in 1 .. n
    BY <1>2
  <2>2. QED
    BY <1>4, <1>6, <1>8, <2>1
<1>10. ASSUME NEW k \in 1 .. n, NEW l \in 1 .. n, k < l
       PROVE  at(k) < at(l)
  <2>1. at(k) \in S /\ at(l) \in S /\ at(k) \in Int /\ at(l) \in Int
    BY <1>6
  <2>2. rank[at(k)] = k /\ rank[at(l)] = l
    BY <1>6
  <2>3. at(k) # at(l)
    BY <1>10, <2>2, <1>1
  <2>4. ~(at(l) < at(k))
    <3>1. SUFFICES ASSUME at(l) < at(k) PROVE FALSE
      OBVIOUS
    <3>2. rank[at(l)] < rank[at(k)]
      BY <1>3, <2>1, <3>1
    <3>3. QED
      BY <1>1, <1>10, <2>2, <3>2
  <2>5. QED
    BY <2>1, <2>3, <2>4
<1>11. QED
  BY <1>1, <1>2, <1>8, <1>9, <1>10 DEF n

(* A function on 1 .. n is a sequence.                                     *)
LEMMA ListIsASequence ==
  ASSUME NEW n \in Nat, NEW f, f = [i \in 1 .. n |-> f[i]]
  PROVE  IsSequence(f) /\ Len(f) = n /\ DOMAIN f = 1 .. n
<1>1. DOMAIN f = 1 .. n
  OBVIOUS
<1> DEFINE S == Range(f)
<1>2. \A i \in 1 .. n : f[i] \in S
  BY <1>1 DEF Range
<1> HIDE DEF S
<1>3. f \in Seq(S) /\ Len(f) = n
  BY <1>1, <1>2
<1>4. QED
  BY <1>1, <1>3 DEF IsSequence, S

(* What is kept of a sequence: every place that is kept, in order.         *)
Kept(seq, kept) == {i \in DOMAIN seq : seq[i] \in kept}

LEMMA OnlyKeeps ==
  ASSUME NEW seq, IsSequence(seq), NEW kept
  PROVE  \E m \in Nat, at \in [1 .. Len(Only(seq, kept)) -> Kept(seq, kept)] :
           /\ m = Len(Only(seq, kept)) /\ m = Cardinality(Kept(seq, kept)) /\ m <= Len(seq)
           /\ IsSequence(Only(seq, kept)) /\ DOMAIN Only(seq, kept) = 1 .. m
           /\ \A k \in 1 .. m : Only(seq, kept)[k] = seq[at[k]]
           /\ \A i \in Kept(seq, kept) : \E k \in 1 .. m : at[k] = i
           /\ \A k, l \in 1 .. m : k < l => at[k] < at[l]
<1> DEFINE places == Kept(seq, kept)
           m == Cardinality(places)
<1>1. Len(seq) \in Nat /\ DOMAIN seq = 1 .. Len(seq)
  BY DEF IsSequence
<1>2. places \subseteq 1 .. Len(seq) /\ places \subseteq Int
  BY <1>1 DEF Kept
<1>3. IsFiniteSet(places) /\ m \in 0 .. Len(seq)
  <2> HIDE DEF places
  <2>1. QED
    BY <1>1, <1>2, IndexSetIsSmall
<1> HIDE DEF places
<1>4. /\ m \in Nat /\ InOrder(places) \in [1 .. m -> places]
      /\ \A i \in places : \E k \in 1 .. m : InOrder(places)[k] = i
      /\ \A k, l \in 1 .. m : k < l => InOrder(places)[k] < InOrder(places)[l]
  BY <1>2, <1>3, InOrderLists
<1> HIDE DEF m
<1>5. Only(seq, kept) = [k \in 1 .. m |-> seq[InOrder(places)[k]]]
  <2>1. DOMAIN InOrder(places) = 1 .. m
    BY <1>4
  <2>2. QED
    BY <2>1 DEF Only, places, Kept
<1> DEFINE only == Only(seq, kept)
<1>6. only = [k \in 1 .. m |-> only[k]] /\ \A k \in 1 .. m : only[k] = seq[InOrder(places)[k]]
  BY <1>5
<1> HIDE DEF only
<1>7. IsSequence(only) /\ Len(only) = m /\ DOMAIN only = 1 .. m
  BY <1>4, <1>6, ListIsASequence
<1>8. m <= Len(seq)
  BY <1>1, <1>3 DEF m
<1>9. /\ m = Len(Only(seq, kept)) /\ m = Cardinality(Kept(seq, kept))
      /\ InOrder(places) \in [1 .. m -> Kept(seq, kept)]
  BY <1>4, <1>7 DEF only, places, m
<1>10. QED
  BY <1>4, <1>6, <1>7, <1>8, <1>9 DEF only, places

(* Only one list of the numbers from 1 to n ascends.                       *)
LEMMA OneWayUp ==
  ASSUME NEW n \in Nat, NEW at \in [1 .. n -> 1 .. n],
         \A k, l \in 1 .. n : k < l => at[k] < at[l]
  PROVE  \A k \in 1 .. n : at[k] = k
<1>1. \A k \in 1 .. n : k <= at[k]
  <2> DEFINE Low == {k \in 1 .. n : ~(k <= at[k])}
  <2>1. SUFFICES ASSUME Low # {} PROVE FALSE
    OBVIOUS
  <2>2. PICK k \in Low : \A m \in Low : k <= m
    <3>1. Low \subseteq Nat
      OBVIOUS
    <3> HIDE DEF Low
    <3>2. QED
      BY <2>1, <3>1, SmallestIndex
  <2>3. k \in 1 .. n /\ at[k] \in 1 .. n /\ at[k] < k
    BY <2>2
  <2>4. k - 1 \in 1 .. n /\ k - 1 \notin Low /\ at[k - 1] \in 1 .. n
    BY <2>2, <2>3
  <2>5. k - 1 <= at[k - 1] /\ at[k - 1] < at[k]
    BY <2>3, <2>4
  <2>6. QED
    BY <2>3, <2>4, <2>5
<1>2. \A k \in 1 .. n : at[k] <= k
  <2> DEFINE High == {d \in 0 .. n : d < n /\ ~(at[n - d] <= n - d)}
  <2>1. SUFFICES ASSUME High # {} PROVE FALSE
    <3>1. SUFFICES ASSUME NEW k \in 1 .. n PROVE at[k] <= k
      OBVIOUS
    <3>2. n - k \in 0 .. n /\ n - k < n /\ n - (n - k) = k
      OBVIOUS
    <3>3. QED
      BY <2>1, <3>2
  <2>2. PICK d \in High : \A m \in High : d <= m
    <3>1. High \subseteq Nat
      OBVIOUS
    <3> HIDE DEF High
    <3>2. QED
      BY <2>1, <3>1, SmallestIndex
  <2> DEFINE k == n - d
  <2>3. d \in Nat /\ k \in 1 .. n /\ at[k] \in 1 .. n /\ k < at[k]
    BY <2>2
  <2>4. k + 1 \in 1 .. n /\ d - 1 \in 0 .. n /\ d - 1 < n /\ n - (d - 1) = k + 1 /\ d - 1 \notin High
    <3>1. d <= n /\ k < n
      BY <2>2, <2>3
    <3>2. d # 0
      BY <3>1
    <3>3. d - 1 \in 0 .. n /\ d - 1 < n /\ n - (d - 1) = k + 1 /\ k + 1 \in 1 .. n
      BY <2>3, <3>1, <3>2
    <3>4. ~(d <= d - 1)
      BY <2>3
    <3>5. d - 1 \notin High
      <4> HIDE DEF High
      <4>1. QED
        BY <2>2, <3>4
    <3>6. QED
      BY <3>3, <3>5
  <2>5. at[k + 1] <= k + 1 /\ at[k + 1] \in 1 .. n
    BY <2>4
  <2> HIDE DEF k
  <2>6. at[k] < at[k + 1]
    BY <2>3, <2>4
  <2>7. QED
    BY <2>3, <2>5, <2>6
<1>3. QED
  BY <1>1, <1>2

(* What is kept whole is kept as it is.                                    *)
LEMMA OnlyWhole ==
  ASSUME NEW seq, IsSequence(seq), NEW kept, Len(Only(seq, kept)) = Len(seq)
  PROVE  Only(seq, kept) = seq /\ \A i \in DOMAIN seq : seq[i] \in kept
<1> DEFINE places == Kept(seq, kept)
           n == Len(seq)
<1>1. /\ n \in Nat /\ DOMAIN seq = 1 .. n /\ seq \in Seq(Range(seq))
      /\ seq = [i \in 1 .. n |-> seq[i]]
  BY DEF IsSequence
<1>2. PICK at \in [1 .. n -> places] :
        /\ Cardinality(places) = n
        /\ IsSequence(Only(seq, kept)) /\ DOMAIN Only(seq, kept) = 1 .. n
        /\ \A k \in 1 .. n : Only(seq, kept)[k] = seq[at[k]]
        /\ \A k, l \in 1 .. n : k < l => at[k] < at[l]
  BY OnlyKeeps
<1>3. places = 1 .. n
  <2>1. places \subseteq 1 .. n
    BY <1>1 DEF Kept
  <2> HIDE DEF n
  <2>2. IsFiniteSet(1 .. n) /\ Cardinality(1 .. n) = n
    <3>1. n \in Nat
      BY <1>1
    <3>2. IsFiniteSet(1 .. n)
      BY <3>1, FS_Interval
    <3>3. Cardinality(1 .. n) = IF 1 > n THEN 0 ELSE n - 1 + 1
      BY <3>1, FS_Interval
    <3>4. QED
      BY <3>1, <3>2, <3>3
  <2> HIDE DEF places, n
  <2>3. QED
    BY <1>2, <2>1, <2>2, FS_Subset
<1>4. \A i \in DOMAIN seq : seq[i] \in kept
  BY <1>1, <1>3 DEF Kept
<1> HIDE DEF places, n
<1>5. /\ at \in [1 .. n -> 1 .. n]
      /\ \A k, l \in 1 .. n : k < l => at[k] < at[l]
      /\ \A k \in 1 .. n : Only(seq, kept)[k] = seq[at[k]]
  BY <1>2, <1>3
<1>6. \A k \in 1 .. n : at[k] = k
  BY <1>1, <1>5, OneWayUp
<1>7. Only(seq, kept) = [k \in 1 .. n |-> Only(seq, kept)[k]]
  <2>1. Only(seq, kept) \in Seq(Range(Only(seq, kept)))
    BY <1>2 DEF IsSequence
  <2>2. QED
    BY <1>2, <2>1
<1>8. Only(seq, kept) = seq
  BY <1>1, <1>5, <1>6, <1>7
<1>9. QED
  BY <1>4, <1>8

(* A list that ascends through all of some numbers.                        *)
Climbs(S, m, f) ==
  /\ f \in [1 .. m -> S]
  /\ \A x \in S : \E k \in 1 .. m : f[k] = x
  /\ \A k, l \in 1 .. m : k < l => f[k] < f[l]

(* There is one of them.                                                   *)
LEMMA OneAscent ==
  ASSUME NEW S, S \subseteq Int, NEW m \in Nat, NEW f, Climbs(S, m, f), NEW g, Climbs(S, m, g)
  PROVE  f = g
<1> USE DEF Climbs
<1> DEFINE Apart == {k \in 1 .. m : f[k] # g[k]}
<1>1. SUFFICES ASSUME Apart # {} PROVE FALSE
  OBVIOUS
<1>2. PICK k \in Apart : \A l \in Apart : k <= l
  <2>1. Apart \subseteq Nat
    OBVIOUS
  <2> HIDE DEF Apart
  <2>2. QED
    BY <1>1, <2>1, SmallestIndex
<1>3. k \in 1 .. m /\ f[k] # g[k] /\ f[k] \in Int /\ g[k] \in Int
  BY <1>2
<1>4. \A l \in 1 .. m : l < k => f[l] = g[l]
  BY <1>2
<1>5. CASE f[k] < g[k]
  <2>1. PICK l \in 1 .. m : g[l] = f[k]
    BY <1>3
  <2>2. CASE l < k
    <3>1. f[l] = f[k] /\ f[l] < f[k]
      BY <1>3, <1>4, <2>1, <2>2
    <3>2. QED
      BY <1>3, <3>1
  <2>3. CASE k <= l
    <3>1. g[k] < g[l] \/ k = l
      BY <1>3, <2>3
    <3>2. QED
      BY <1>3, <1>5, <2>1, <3>1
  <2>4. QED
    BY <1>3, <2>1, <2>2, <2>3
<1>6. CASE g[k] < f[k]
  <2>1. PICK l \in 1 .. m : f[l] = g[k]
    BY <1>3
  <2>2. CASE l < k
    <3>1. g[l] = g[k] /\ g[l] < g[k]
      BY <1>3, <1>4, <2>1, <2>2
    <3>2. QED
      BY <1>3, <3>1
  <2>3. CASE k <= l
    <3>1. f[k] < f[l] \/ k = l
      BY <1>3, <2>3
    <3>2. QED
      BY <1>3, <1>6, <2>1, <3>1
  <2>4. QED
    BY <1>3, <2>1, <2>2, <2>3
<1>7. QED
  BY <1>3, <1>5, <1>6

(* A list that ascends is the order of its numbers.                        *)
LEMMA AscentIsTheOrder ==
  ASSUME NEW S, S \subseteq Int, NEW m \in Nat, NEW f, Climbs(S, m, f)
  PROVE  IsFiniteSet(S) /\ Cardinality(S) = m /\ InOrder(S) = f
<1>1. f \in Surjection(1 .. m, S)
  BY DEF Surjection, Climbs
<1>2. f \in Injection(1 .. m, S)
  <2>1. ASSUME NEW k \in 1 .. m, NEW l \in 1 .. m, f[k] = f[l], k # l
        PROVE  FALSE
    <3>1. f[k] \in Int
      BY DEF Climbs
    <3>2. k < l \/ l < k
      BY <2>1
    <3>3. f[k] < f[l] \/ f[l] < f[k]
      BY <3>2 DEF Climbs
    <3>4. QED
      BY <2>1, <3>1, <3>3
  <2>2. QED
    BY <2>1 DEF Injection, IsInjective, Climbs
<1>3. IsFiniteSet(1 .. m) /\ Cardinality(1 .. m) = m
  <2>1. IsFiniteSet(1 .. m)
    BY FS_Interval
  <2>2. Cardinality(1 .. m) = IF 1 > m THEN 0 ELSE m - 1 + 1
    BY FS_Interval
  <2>3. QED
    BY <2>1, <2>2
<1>4. IsFiniteSet(S) /\ Cardinality(S) = m
  BY <1>1, <1>2, <1>3, FS_Surjection, Zenon
<1> DEFINE g == InOrder(S)
<1>5. Climbs(S, m, g)
  BY <1>4, InOrderLists DEF Climbs
<1> HIDE DEF g
<1>6. g = f
  BY <1>5, OneAscent
<1>7. QED
  BY <1>4, <1>6 DEF g

(* The elements at some places, in their order.                            *)
Picked(seq, m, f) == [k \in 1 .. m |-> seq[f[k]]]

LEMMA OnlyByPlaces ==
  ASSUME NEW seq, IsSequence(seq), NEW kept, NEW m \in Nat, NEW f, Climbs(Kept(seq, kept), m, f)
  PROVE  Only(seq, kept) = Picked(seq, m, f)
<1> DEFINE places == Kept(seq, kept)
<1>1. places \subseteq Int
  BY DEF IsSequence, Kept
<1>2. InOrder(places) = f
  <2> HIDE DEF places
  <2>1. Climbs(places, m, f)
    BY DEF places
  <2>2. QED
    BY <1>1, <2>1, AscentIsTheOrder
<1>3. DOMAIN f = 1 .. m
  BY DEF Climbs
<1>4. Only(seq, kept) = [k \in DOMAIN InOrder(places) |-> seq[InOrder(places)[k]]]
  BY DEF Only, Kept
<1>5. QED
  BY <1>2, <1>3, <1>4 DEF Picked

-----------------------------------------------------------------------------
(* Numbers in order, and the elements of a sequence that are kept.         *)

(* A list of m + 1 that starts with a value and goes on with another list. *)
Leads(only, value, others, m) ==
  /\ Len(only) = m + 1 /\ DOMAIN only = 1 .. m + 1 /\ only[1] = value
  /\ Len(others) = m /\ DOMAIN others = 1 .. m
  /\ \A k \in 1 .. m : others[k] = only[k + 1]

(* What is kept is the first that is, and what is kept of the rest.        *)
LEMMA OnlyHead ==
  ASSUME NEW seq, IsSequence(seq), NEW kept, Only(seq, kept) # << >>
  PROVE  \E n \in DOMAIN seq, m \in Nat :
           /\ seq[n] \in kept
           /\ Leads(Only(seq, kept), seq[n], Only(SubSeq(seq, n + 1, Len(seq)), kept), m)
<1> DEFINE size == Len(seq)
           only == Only(seq, kept)
           places == Kept(seq, kept)
<1>1. size \in Nat /\ DOMAIN seq = 1 .. size /\ seq \in Seq(Range(seq))
  BY DEF IsSequence
<1>2. PICK at \in [1 .. Len(only) -> places] :
        /\ Len(only) \in Nat /\ IsSequence(only) /\ DOMAIN only = 1 .. Len(only)
        /\ \A k \in 1 .. Len(only) : only[k] = seq[at[k]]
        /\ \A i \in places : \E k \in 1 .. Len(only) : at[k] = i
        /\ \A k, l \in 1 .. Len(only) : k < l => at[k] < at[l]
  BY OnlyKeeps
<1> HIDE DEF only, size
<1>3. Len(only) # 0
  <2>1. SUFFICES ASSUME Len(only) = 0 PROVE FALSE
    OBVIOUS
  <2>2. only = << >>
    BY <1>2, <2>1 DEF IsSequence
  <2>3. QED
    BY <2>2 DEF only
<1> DEFINE m == Len(only) - 1
           n == at[1]
           rest == SubSeq(seq, n + 1, size)
           f == [k \in 1 .. m |-> at[k + 1] - n]
<1>4. m \in Nat /\ Len(only) = m + 1 /\ 1 \in 1 .. m + 1
  BY <1>2, <1>3
<1>5. places \subseteq 1 .. size /\ \A i \in places : seq[i] \in kept
  BY <1>1 DEF Kept
<1>6. n \in places /\ n \in 1 .. size /\ only[1] = seq[n] /\ seq[n] \in kept
  BY <1>2, <1>4, <1>5
<1> HIDE DEF m, n, places
<1>7. /\ rest \in Seq(Range(seq)) /\ Len(rest) = size - n /\ size - n \in Nat
      /\ \A j \in 1 .. size - n : rest[j] = seq[n + j]
  <2>1. n + 1 \in 1 .. size + 1 /\ size \in n .. size
    BY <1>1, <1>6
  <2>2. rest = [j \in 1 .. size - n |-> seq[n + j]]
    <3>1. rest = [j \in 1 .. (size - (n + 1) + 1) |-> seq[j + (n + 1) - 1]]
      BY <1>1, <2>1, SubSeqProperties DEF size
    <3>2. size - (n + 1) + 1 = size - n /\ \A j \in 1 .. size - n : j + (n + 1) - 1 = n + j
      BY <1>1, <1>6
    <3>3. QED
      BY <3>1, <3>2
  <2>3. \A j \in 1 .. size - n : n + j \in 1 .. size /\ seq[n + j] \in Range(seq)
    BY <1>1, <1>6 DEF Range
  <2>4. size - n \in Nat
    BY <1>1, <1>6
  <2> HIDE DEF rest
  <2>5. QED
    BY <2>2, <2>3, <2>4
<1> HIDE DEF rest
<1>8. IsSequence(rest) /\ DOMAIN rest = 1 .. size - n
  <2>1. rest = [j \in 1 .. size - n |-> rest[j]]
    BY <1>7
  <2>2. QED
    BY <1>7, <2>1, ListIsASequence
<1>9. Kept(rest, kept) = {j \in 1 .. size - n : n + j \in places}
  <2>1. \A j \in 1 .. size - n : n + j \in DOMAIN seq
    BY <1>1, <1>6
  <2>2. QED
    BY <1>7, <1>8, <2>1 DEF Kept, places
<1>10. \A k \in 1 .. m : /\ k + 1 \in 1 .. m + 1 /\ at[k + 1] \in places
                        /\ at[k + 1] \in 1 .. size /\ n < at[k + 1]
  <2> SUFFICES ASSUME NEW k \in 1 .. m
               PROVE  /\ k + 1 \in 1 .. m + 1 /\ at[k + 1] \in places
                      /\ at[k + 1] \in 1 .. size /\ n < at[k + 1]
    OBVIOUS
  <2>1. k + 1 \in 1 .. m + 1 /\ 1 < k + 1
    BY <1>4
  <2>2. at[1] < at[k + 1] /\ at[k + 1] \in places
    BY <1>2, <1>4, <2>1
  <2>3. QED
    BY <1>5, <2>1, <2>2 DEF n
<1>11. f \in [1 .. m -> Kept(rest, kept)]
  <2> SUFFICES ASSUME NEW k \in 1 .. m PROVE at[k + 1] - n \in Kept(rest, kept)
    OBVIOUS
  <2>1. at[k + 1] - n \in 1 .. size - n /\ n + (at[k + 1] - n) = at[k + 1]
    BY <1>1, <1>6, <1>10
  <2>2. QED
    BY <1>9, <1>10, <2>1
<1>12. \A j \in Kept(rest, kept) : \E k \in 1 .. m : f[k] = j
  <2> SUFFICES ASSUME NEW j \in Kept(rest, kept) PROVE \E k \in 1 .. m : f[k] = j
    OBVIOUS
  <2>1. j \in 1 .. size - n /\ n + j \in places
    BY <1>9
  <2>2. PICK k \in 1 .. m + 1 : at[k] = n + j
    BY <1>2, <1>4, <2>1
  <2>3. k # 1
    BY <1>6, <2>1, <2>2 DEF n
  <2>4. k - 1 \in 1 .. m /\ (k - 1) + 1 = k /\ at[k] - n = j
    BY <1>4, <1>6, <2>1, <2>2, <2>3
  <2>5. f[k - 1] = j
    BY <2>4
  <2>6. QED
    BY <2>4, <2>5
<1>13. \A k, l \in 1 .. m : k < l => f[k] < f[l]
  <2> SUFFICES ASSUME NEW k \in 1 .. m, NEW l \in 1 .. m, k < l PROVE f[k] < f[l]
    OBVIOUS
  <2>1. k + 1 < l + 1 /\ k + 1 \in 1 .. m + 1 /\ l + 1 \in 1 .. m + 1
    BY <1>10
  <2>2. at[k + 1] < at[l + 1]
    BY <1>2, <1>4, <2>1
  <2>3. at[k + 1] - n < at[l + 1] - n
    BY <1>6, <1>10, <2>2
  <2>4. QED
    BY <2>3
<1>14. \A k \in 1 .. m : rest[f[k]] = only[k + 1]
  <2> SUFFICES ASSUME NEW k \in 1 .. m PROVE rest[f[k]] = only[k + 1]
    OBVIOUS
  <2>1. f[k] \in 1 .. size - n /\ n + f[k] = at[k + 1]
    BY <1>1, <1>6, <1>10
  <2> HIDE DEF f
  <2>2. QED
    BY <1>2, <1>4, <1>7, <1>10, <2>1
<1> HIDE DEF f
<1>15. Only(rest, kept) = Picked(rest, m, f)
  <2>1. Climbs(Kept(rest, kept), m, f)
    BY <1>11, <1>12, <1>13 DEF Climbs
  <2>2. QED
    BY <1>4, <1>8, <2>1, OnlyByPlaces
<1>16. /\ Len(Only(rest, kept)) = m /\ DOMAIN Only(rest, kept) = 1 .. m
       /\ \A k \in 1 .. m : Only(rest, kept)[k] = only[k + 1]
  <2> DEFINE o == Only(rest, kept)
  <2>1. o = [k \in 1 .. m |-> o[k]] /\ \A k \in 1 .. m : o[k] = only[k + 1]
    BY <1>14, <1>15 DEF Picked
  <2> HIDE DEF o
  <2>2. Len(o) = m /\ DOMAIN o = 1 .. m
    BY <1>4, <2>1, ListIsASequence
  <2>3. QED
    BY <2>1, <2>2 DEF o
<1>17. n \in DOMAIN seq /\ DOMAIN only = 1 .. m + 1
  BY <1>1, <1>2, <1>4, <1>6
<1>18. Leads(only, seq[n], Only(rest, kept), m)
  BY <1>4, <1>6, <1>16, <1>17 DEF Leads
<1>19. QED
  BY <1>4, <1>6, <1>17, <1>18 DEF only, rest, size

-----------------------------------------------------------------------------
(* What is above a bone, and its path.                                     *)

(* What the vocabulary says of a bone.                                     *)
LEMMA LineageStands ==
  ASSUME LineageIsSound, NEW bone \in HumanJoint
  PROVE  /\ bone # NoBone
         /\ IsSequence(Lineage[bone])
         /\ \A n \in DOMAIN Lineage[bone] :
              /\ Lineage[bone][n] \in HumanJoint /\ Lineage[bone][n] # NoBone
              /\ Lineage[Lineage[bone][n]] = SubSeq(Lineage[bone], n + 1, Len(Lineage[bone]))
         /\ bone # Hips => Hips \in Range(Lineage[bone])
<1> DEFINE L == Lineage[bone]
<1>1. /\ L \in Seq(HumanJoint)
      /\ \A n \in DOMAIN L : Lineage[L[n]] = SubSeq(L, n + 1, Len(L))
      /\ bone # Hips => Hips \in Range(L)
      /\ NoBone \notin HumanJoint
  BY DEF LineageIsSound
<1> HIDE DEF L
<1>2. \A n \in DOMAIN L : L[n] \in HumanJoint
  BY <1>1
<1>3. IsSequence(L)
  <2>1. Len(L) \in Nat /\ L = [k \in 1 .. Len(L) |-> L[k]]
    BY <1>1
  <2> QED
    BY <2>1, ListIsASequence
<1> QED
  BY <1>1, <1>2, <1>3 DEF L

(* A path: the bones above that are present, topmost first, and the bone.  *)
PathIs(path, above, bone) ==
  /\ IsSequence(path) /\ Len(path) = Len(above) + 1 /\ DOMAIN path = 1 .. Len(above) + 1
  /\ \A k \in 1 .. Len(above) : path[k] = above[Len(above) + 1 - k]
  /\ path[Len(above) + 1] = bone

(* A path is what is above the bone, nearest last, and then the bone.       *)
LEMMA PathShape ==
  ASSUME LineageIsSound, NEW bone \in HumanJoint, NEW present
  PROVE  /\ IsSequence(PresentLineage(bone, present))
         /\ Len(PresentLineage(bone, present)) \in Nat
         /\ DOMAIN PresentLineage(bone, present) = 1 .. Len(PresentLineage(bone, present))
         /\ PathIs(HumanJointPath(bone, present), PresentLineage(bone, present), bone)
<1> DEFINE above == PresentLineage(bone, present)
           path == HumanJointPath(bone, present)
           m == Len(above)
<1>1. IsSequence(above) /\ m \in Nat /\ DOMAIN above = 1 .. m
  BY LineageStands, OnlyKeeps DEF PresentLineage
<1> HIDE DEF above
<1> DEFINE back == Reverse(above)
<1>2. back = [k \in 1 .. m |-> above[m + 1 - k]]
  <2>1. back = [k \in 1 .. m |-> above[(m - k) + 1]]
    BY DEF Reverse
  <2>2. \A k \in 1 .. m : (m - k) + 1 = m + 1 - k
    BY <1>1
  <2>3. QED
    BY <2>1, <2>2
<1>3. path = Append(back, bone)
  BY DEF HumanJointPath, above
<1> HIDE DEF path, back, m
<1>4. back = [k \in 1 .. m |-> back[k]] /\ \A k \in 1 .. m : back[k] = above[m + 1 - k]
  BY <1>2
<1>5. IsSequence(back) /\ Len(back) = m /\ DOMAIN back = 1 .. m
  BY <1>1, <1>4, ListIsASequence
<1>6. back \in Seq(Range(back) \cup {bone})
  BY <1>5 DEF IsSequence
<1>7. /\ path \in Seq(Range(back) \cup {bone}) /\ Len(path) = m + 1
      /\ \A k \in 1 .. m : path[k] = back[k]
      /\ path[m + 1] = bone
  BY <1>3, <1>5, <1>6, AppendProperties
<1>8. m + 1 \in Nat /\ path = [k \in 1 .. m + 1 |-> path[k]]
  BY <1>1, <1>7
<1>9. IsSequence(path) /\ DOMAIN path = 1 .. m + 1
  BY <1>8, ListIsASequence
<1>10. PathIs(path, above, bone)
  BY <1>4, <1>7, <1>9 DEF PathIs, m
<1>11. QED
  BY <1>1, <1>10 DEF above, path, m

(* A path is its nearest present ancestor's, and the bone.                 *)
LEMMA PathStep ==
  ASSUME LineageIsSound, NEW bone \in HumanJoint, NEW present, present \subseteq HumanJoint
  PROVE  LET above == NearestPresentAncestor(bone, present)
         IN  /\ above = NoBone => Len(HumanJointPath(bone, present)) = 1
             /\ above # NoBone =>
                  /\ above \in present /\ above \in Range(Lineage[bone])
                  /\ HumanJointPath(bone, present) = Append(HumanJointPath(above, present), bone)
<1> DEFINE L == Lineage[bone]
           above == PresentLineage(bone, present)
           path == HumanJointPath(bone, present)
           nearest == NearestPresentAncestor(bone, present)
<1>1. /\ IsSequence(L)
      /\ \A n \in DOMAIN L : /\ L[n] \in HumanJoint /\ L[n] # NoBone
                             /\ Lineage[L[n]] = SubSeq(L, n + 1, Len(L))
  BY LineageStands
<1>2. above = Only(L, present)
  BY DEF PresentLineage
<1>3. nearest = IF above = << >> THEN NoBone ELSE above[1]
  BY DEF NearestPresentAncestor
<1>4. /\ IsSequence(above) /\ Len(above) \in Nat /\ DOMAIN above = 1 .. Len(above)
      /\ PathIs(path, above, bone)
  BY PathShape
<1> HIDE DEF above, path, nearest, L
<1>5. CASE above = << >>
  <2>1. Len(above) = 0 /\ nearest = NoBone
    BY <1>3, <1>5
  <2>2. Len(path) = 1
    BY <1>4, <2>1 DEF PathIs, Leads
  <2>3. QED
    BY <2>1, <2>2 DEF path, nearest
<1>6. CASE above # << >>
  <2>1. PICK n \in DOMAIN L, m \in Nat :
          /\ L[n] \in present
          /\ Leads(above, L[n], Only(SubSeq(L, n + 1, Len(L)), present), m)
    BY <1>1, <1>2, <1>6, OnlyHead
  <2>2. nearest = L[n] /\ nearest # NoBone /\ nearest \in present /\ nearest \in Range(L)
    BY <1>1, <1>3, <1>6, <2>1 DEF Range, Leads
  <2> DEFINE higher == PresentLineage(nearest, present)
             lower == HumanJointPath(nearest, present)
  <2>3. Len(higher) = m /\ \A k \in 1 .. m : higher[k] = above[k + 1]
    <3>1. higher = Only(SubSeq(L, n + 1, Len(L)), present)
      BY <1>1, <2>2 DEF PresentLineage
    <3>2. QED
      BY <2>1, <3>1 DEF Leads
  <2>4. nearest \in HumanJoint
    BY <2>2
  <2>5. PathIs(lower, higher, nearest)
    BY <2>4, PathShape
  <2> HIDE DEF lower, higher
  <2>6. /\ IsSequence(lower) /\ Len(lower) = m + 1 /\ DOMAIN lower = 1 .. m + 1
        /\ \A k \in 1 .. m : lower[k] = above[m + 2 - k]
        /\ lower[m + 1] = above[1]
    <3>1. \A k \in 1 .. m : m + 1 - k \in 1 .. m /\ (m + 1 - k) + 1 = m + 2 - k
      OBVIOUS
    <3>2. \A k \in 1 .. m : lower[k] = higher[m + 1 - k]
      BY <2>3, <2>5 DEF PathIs
    <3>3. \A k \in 1 .. m : lower[k] = above[m + 2 - k]
      BY <2>3, <3>1, <3>2
    <3>4. QED
      BY <2>1, <2>2, <2>3, <2>5, <3>3 DEF PathIs, Leads
  <2>7. /\ IsSequence(path) /\ Len(path) = m + 2 /\ DOMAIN path = 1 .. m + 2
        /\ \A k \in 1 .. m + 1 : path[k] = above[m + 2 - k]
        /\ path[m + 2] = bone
    <3>1. Len(above) = m + 1
      BY <2>1 DEF Leads
    <3>2. \A k \in 1 .. m + 1 : m + 1 + 1 - k = m + 2 - k
      OBVIOUS
    <3>3. /\ IsSequence(path) /\ Len(path) = Len(above) + 1 /\ DOMAIN path = 1 .. Len(above) + 1
          /\ \A k \in 1 .. Len(above) : path[k] = above[Len(above) + 1 - k]
          /\ path[Len(above) + 1] = bone
      BY <1>4 DEF PathIs
    <3>4. m + 1 + 1 = m + 2
      OBVIOUS
    <3> HIDE DEF path, above
    <3>5. QED
      BY <3>1, <3>2, <3>3, <3>4
  <2>8. \A k \in 1 .. m + 1 : path[k] = lower[k]
    <3> SUFFICES ASSUME NEW k \in 1 .. m + 1 PROVE path[k] = lower[k]
      OBVIOUS
    <3>1. CASE k = m + 1
      BY <2>6, <2>7, <3>1
    <3>2. CASE k # m + 1
      <4>1. k \in 1 .. m
        BY <3>2
      <4>2. QED
        BY <2>6, <2>7, <4>1
    <3>3. QED
      BY <3>1, <3>2
  <2>9. path = Append(lower, bone)
    <3> DEFINE longer == Append(lower, bone)
    <3>1. lower \in Seq(Range(lower) \cup {bone})
      BY <2>6 DEF IsSequence
    <3>2. /\ longer \in Seq(Range(lower) \cup {bone}) /\ Len(longer) = m + 2
          /\ \A k \in 1 .. m + 1 : longer[k] = lower[k]
          /\ longer[m + 2] = bone
      BY <2>6, <3>1, AppendProperties
    <3> HIDE DEF longer
    <3>3. longer = [k \in 1 .. m + 2 |-> longer[k]]
      BY <3>2
    <3>4. path = [k \in 1 .. m + 2 |-> path[k]]
      BY <2>7 DEF IsSequence
    <3>5. \A k \in 1 .. m + 2 : path[k] = longer[k]
      <4> SUFFICES ASSUME NEW k \in 1 .. m + 2 PROVE path[k] = longer[k]
        OBVIOUS
      <4>1. CASE k = m + 2
        BY <2>7, <3>2, <4>1
      <4>2. CASE k # m + 2
        <5>1. k \in 1 .. m + 1
          BY <4>2
        <5>2. QED
          BY <2>8, <3>2, <5>1
      <4>3. QED
        BY <4>1, <4>2
    <3>6. QED
      BY <3>3, <3>4, <3>5 DEF longer
  <2>10. QED
    BY <2>2, <2>9 DEF path, nearest, L, lower
<1>7. QED
  BY <1>5, <1>6
=============================================================================

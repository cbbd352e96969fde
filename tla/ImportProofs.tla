---------------------------- MODULE ImportProofs ----------------------------
(***************************************************************************)
(* Proofs about the import of a BVH file, for every set of limits, names   *)
(* and channel lists, every document assembled by hand, and with no bound  *)
(* on the lines a file has.                                                *)
(***************************************************************************)
EXTENDS BvhImport, SequenceTheorems, SharedLemmas

LEMMA SmallestIsMin ==
  ASSUME NEW S, S \subseteq Nat, S # {}
  PROVE  Min(S) \in S /\ \A n \in S : Min(S) <= n
BY SmallestIndex DEF Min

LEMMA SequenceShape ==
  ASSUME NEW seq, IsSequence(seq)
  PROVE  /\ Len(seq) \in Nat /\ DOMAIN seq = 1 .. Len(seq)
         /\ seq = [i \in 1 .. Len(seq) |-> seq[i]]
BY DEF IsSequence

-----------------------------------------------------------------------------
(* The walk along the parents.                                             *)

Above(joints, place) == IF place \in DOMAIN joints THEN joints[place].parent ELSE place

WalkStep(joints, up, j, k) == up[k] = IF k = 0 THEN j ELSE Above(joints, up[k - 1])

LEMMA ParentWalkSteps ==
  ASSUME NEW joints, NEW j, Len(joints) \in Nat, NEW k \in 0 .. Len(joints) + 1
  PROVE  WalkStep(joints, ParentWalk(joints, j), j, k)
<1> DEFINE n == Len(joints) + 1
           T == {j} \cup DOMAIN joints \cup {joints[i].parent : i \in DOMAIN joints}
           step == [i \in 1 .. n |-> [place \in T |-> Above(joints, place)]]
           IsWalk(up) == up = [i \in 0 .. n |->
                                 IF i = 0 THEN j
                                 ELSE IF up[i - 1] \in DOMAIN joints THEN joints[up[i - 1]].parent
                                 ELSE up[i - 1]]
<1>1. n \in Nat
  OBVIOUS
<1>2. \A place \in T : Above(joints, place) \in T
  BY DEF Above
<1>3. step \in [1 .. n -> [T -> T]]
  BY <1>2
<1>4. \E up \in [0 .. n -> T] : GoesBy(up, n, j, step)
  <2> HIDE DEF n, T, step
  <2>1. j \in T
    BY DEF T
  <2>2. QED
    BY <1>1, <1>3, <2>1, StepsExist, Zenon
<1>5. PICK up \in [0 .. n -> T] : GoesBy(up, n, j, step)
  BY <1>4
<1>6. IsWalk(up)
  <2>1. \A i \in 0 .. n : i # 0 => i \in 1 .. n /\ i - 1 \in 0 .. n
    BY <1>1
  <2>2. \A i \in 0 .. n : i # 0 => step[i][up[i - 1]] = Above(joints, up[i - 1])
    BY <1>5, <2>1 DEF GoesBy
  <2> HIDE DEF n, T, step
  <2>3. QED
    BY <1>5, <2>2 DEF Above, GoesBy
<1>7. IsWalk(ParentWalk(joints, j))
  <2>1. ParentWalk(joints, j) = CHOOSE f : IsWalk(f)
    BY Zenon DEF ParentWalk
  <2> HIDE DEF IsWalk
  <2>2. QED
    BY <1>6, <2>1
<1>8. QED
  BY <1>1, <1>7 DEF WalkStep, Above

-----------------------------------------------------------------------------
(* A tree, told by how far each joint is from its root.                    *)

Levels(joints, level) ==
  /\ level \in [1 .. Len(joints) -> Nat]
  /\ level[1] = 0 /\ joints[1].parent = 0
  /\ \A j \in 2 .. Len(joints) :
       joints[j].parent \in 1 .. j - 1 /\ level[j] = level[joints[j].parent] + 1

LEMMA LevelsRise ==
  ASSUME NEW joints, IsSequence(joints), NEW level, Levels(joints, level), NEW j \in DOMAIN joints
  PROVE  level[j] \in 0 .. j - 1
<1> DEFINE n == Len(joints)
           Low == {i \in 1 .. n : level[i] \notin 0 .. i - 1}
<1>1. n \in Nat /\ DOMAIN joints = 1 .. n
  BY SequenceShape
<1>2. /\ level \in [1 .. n -> Nat] /\ level[1] = 0
      /\ \A i \in 2 .. n : joints[i].parent \in 1 .. i - 1 /\ level[i] = level[joints[i].parent] + 1
  BY DEF Levels
<1> HIDE DEF n
<1>3. SUFFICES ASSUME Low # {} PROVE FALSE
  BY <1>1
<1>4. PICK i \in Low : \A k \in Low : i <= k
  <2>1. Low \subseteq Nat
    BY <1>1
  <2> HIDE DEF Low
  <2>2. QED
    BY <1>3, <2>1, SmallestIndex
<1>5. i \in 2 .. n
  BY <1>1, <1>2, <1>4
<1> DEFINE p == joints[i].parent
<1>6. p \in 1 .. i - 1 /\ level[i] = level[p] + 1
  BY <1>2, <1>5
<1>7. p \in 1 .. n /\ ~(i <= p)
  BY <1>1, <1>5, <1>6
<1>8. level[p] \in 0 .. p - 1
  BY <1>4, <1>7
<1>9. level[i] \in 0 .. i - 1
  BY <1>5, <1>6, <1>8
<1>10. QED
  BY <1>4, <1>9

(* The walk goes up one level at a step, to the root and then outside.     *)
LEMMA WalkDescendsLevels ==
  ASSUME NEW joints, IsSequence(joints), NEW level, Levels(joints, level), NEW j \in DOMAIN joints,
         NEW k \in 0 .. level[j]
  PROVE  LET place == ParentWalk(joints, j)[k]
         IN  place \in DOMAIN joints /\ place <= j - k /\ level[place] = level[j] - k
<1> DEFINE n == Len(joints)
           up == ParentWalk(joints, j)
           Holds(i) == up[i] \in 1 .. n /\ up[i] <= j - i /\ level[up[i]] = level[j] - i
           Lost == {i \in 0 .. level[j] : ~Holds(i)}
<1>1. n \in Nat /\ DOMAIN joints = 1 .. n /\ j \in 1 .. n
  BY SequenceShape
<1>2. level[j] \in 0 .. j - 1
  BY LevelsRise
<1>3. /\ level \in [1 .. n -> Nat] /\ level[1] = 0
      /\ \A i \in 2 .. n : joints[i].parent \in 1 .. i - 1 /\ level[i] = level[joints[i].parent] + 1
  BY DEF Levels
<1>4. \A i \in 0 .. n + 1 : up[i] = IF i = 0 THEN j ELSE Above(joints, up[i - 1])
  BY <1>1, ParentWalkSteps DEF WalkStep
<1> HIDE DEF n, up
<1>5. SUFFICES ASSUME Lost # {} PROVE FALSE
  BY <1>1 DEF up
<1>6. PICK i \in Lost : \A m \in Lost : i <= m
  <2>1. Lost \subseteq Nat
    BY <1>2
  <2> HIDE DEF Lost
  <2>2. QED
    BY <1>5, <2>1, SmallestIndex
<1>7. i # 0
  <2>1. up[0] = j
    BY <1>1, <1>4
  <2>2. Holds(0)
    BY <1>1, <1>3, <2>1
  <2>3. QED
    BY <1>6, <2>2
<1>8. i \in 1 .. level[j] /\ i \in 0 .. n + 1 /\ i - 1 \in 0 .. level[j] /\ ~(i <= i - 1)
  BY <1>1, <1>2, <1>6, <1>7
<1>9. Holds(i - 1)
  BY <1>6, <1>8
<1> DEFINE below == up[i - 1]
<1>10. below \in 1 .. n /\ below <= j - (i - 1) /\ level[below] = level[j] - (i - 1)
  BY <1>9
<1>11. below \in 2 .. n
  <2>1. level[below] # 0
    BY <1>2, <1>8, <1>10
  <2> HIDE DEF below
  <2>2. below # 1
    BY <1>3, <2>1
  <2>3. QED
    BY <1>1, <1>10, <2>2
<1>12. up[i] = joints[below].parent
  BY <1>1, <1>4, <1>8, <1>10 DEF Above
<1> HIDE DEF below
<1>13. up[i] \in 1 .. below - 1 /\ level[below] = level[up[i]] + 1
  BY <1>3, <1>11, <1>12
<1>14. up[i] \in 1 .. n
  BY <1>1, <1>11, <1>13
<1>15. up[i] <= j - i /\ level[up[i]] = level[j] - i
  <2> DEFINE a == up[i]
             la == level[a]
  <2>1. a \in 1 .. below - 1 /\ level[below] = la + 1 /\ la \in Nat
    BY <1>3, <1>13, <1>14
  <2> DEFINE lj == level[j]
  <2>2. /\ j \in Int /\ i \in Int /\ lj \in Int /\ below \in Int /\ a \in Int /\ n \in Int
        /\ below <= j - (i - 1) /\ la + 1 = lj - (i - 1) /\ a <= below - 1
    BY <1>1, <1>2, <1>8, <1>10, <1>11, <2>1
  <2> HIDE DEF a, la, lj
  <2>2a. a <= j - i /\ la = lj - i
    BY <2>1, <2>2
  <2>3. QED
    BY <2>2a DEF a, la, lj
<1>16. QED
  BY <1>6, <1>14, <1>15

(* So the walk finds the root at its level, which is the joint's depth.    *)
LEMMA LevelIsDepth ==
  ASSUME NEW joints, IsSequence(joints), NEW level, Levels(joints, level), NEW j \in DOMAIN joints
  PROVE  /\ level[j] \in 0 .. j - 1
         /\ ParentWalk(joints, j)[level[j]] = 1
         /\ BvhDepth(joints, j) = level[j]
<1> DEFINE n == Len(joints)
           up == ParentWalk(joints, j)
           ends == {k \in 0 .. n : up[k + 1] \notin DOMAIN joints}
<1>1. n \in Nat /\ DOMAIN joints = 1 .. n /\ j \in 1 .. n
  BY SequenceShape
<1>2. level[j] \in 0 .. j - 1
  BY LevelsRise
<1>3. /\ level \in [1 .. n -> Nat] /\ joints[1].parent = 0
      /\ \A i \in 2 .. n : joints[i].parent \in 1 .. i - 1 /\ level[i] = level[joints[i].parent] + 1
  BY DEF Levels
<1>4. \A k \in 0 .. n + 1 : up[k] = IF k = 0 THEN j ELSE Above(joints, up[k - 1])
  BY <1>1, ParentWalkSteps DEF WalkStep
<1>5. \A k \in 0 .. level[j] : up[k] \in 1 .. n /\ level[up[k]] = level[j] - k
  BY <1>1, WalkDescendsLevels
<1>6. BvhDepth(joints, j) = IF ends = {} THEN 0 ELSE Min(ends)
  BY DEF BvhDepth
<1> HIDE DEF n, up
<1>7. up[level[j]] = 1
  <2> DEFINE top == up[level[j]]
  <2>1. top \in 1 .. n /\ level[top] = 0
    BY <1>1, <1>2, <1>5
  <2> HIDE DEF top
  <2>2. CASE top # 1
    <3>1. top \in 2 .. n
      BY <1>1, <2>1, <2>2
    <3>2. joints[top].parent \in 1 .. n
      BY <1>1, <1>3, <3>1
    <3>3. level[joints[top].parent] \in Nat
      BY <1>3, <3>2
    <3>4. QED
      BY <1>3, <2>1, <3>1, <3>3
  <2>3. QED
    BY <2>2 DEF top
<1>8. level[j] \in ends
  <2>1. level[j] \in 0 .. n /\ level[j] + 1 \in 0 .. n + 1 /\ level[j] + 1 # 0
        /\ (level[j] + 1) - 1 = level[j]
    BY <1>1, <1>2
  <2>2. up[level[j] + 1] = Above(joints, 1)
    BY <1>4, <1>7, <2>1
  <2>3. up[level[j] + 1] = 0
    BY <1>1, <1>3, <2>2 DEF Above
  <2>4. QED
    BY <1>1, <2>1, <2>3
<1>9. \A k \in ends : level[j] <= k
  <2> SUFFICES ASSUME NEW k \in 0 .. n, k < level[j] PROVE up[k + 1] \in DOMAIN joints
    BY <1>2
  <2>1. k + 1 \in 0 .. level[j]
    BY <1>2
  <2>2. QED
    BY <1>1, <1>5, <2>1
<1>10. Min(ends) = level[j]
  <2>1. ends \subseteq Nat
    BY <1>1
  <2> HIDE DEF ends
  <2>2. Min(ends) \in ends /\ \A k \in ends : Min(ends) <= k
    BY <1>8, <2>1, SmallestIsMin
  <2> DEFINE least == Min(ends)
             here == level[j]
  <2>3. least \in Nat /\ here \in Nat /\ least <= here /\ here <= least
    BY <1>2, <1>8, <1>9, <2>1, <2>2
  <2> HIDE DEF least, here
  <2>4. least = here
    BY <2>3
  <2>5. QED
    BY <2>4 DEF least, here
<1>11. QED
  BY <1>2, <1>6, <1>7, <1>8, <1>10 DEF up

(* What the walk holds, step by step.                                      *)
LEMMA WalkSteps ==
  ASSUME NEW joints, IsSequence(joints), NEW j
  PROVE  /\ ParentWalk(joints, j)[0] = j
         /\ \A k \in 1 .. Len(joints) + 1 :
              ParentWalk(joints, j)[k] = Above(joints, ParentWalk(joints, j)[k - 1])
<1>1. Len(joints) \in Nat
  BY SequenceShape
<1>2. \A k \in 0 .. Len(joints) + 1 : WalkStep(joints, ParentWalk(joints, j), j, k)
  BY <1>1, ParentWalkSteps
<1>3. 0 \in 0 .. Len(joints) + 1 /\ \A k \in 1 .. Len(joints) + 1 : k \in 0 .. Len(joints) + 1 /\ k # 0
  BY <1>1
<1>4. QED
  BY <1>2, <1>3 DEF WalkStep

(* A walk from where another has come to is the rest of it.                *)
LEMMA WalkGoesOn ==
  ASSUME NEW joints, IsSequence(joints), NEW j, NEW a \in 0 .. Len(joints) + 1,
         NEW m \in 0 .. Len(joints) + 1 - a
  PROVE  ParentWalk(joints, ParentWalk(joints, j)[a])[m] = ParentWalk(joints, j)[a + m]
<1> DEFINE n == Len(joints) + 1
           up == ParentWalk(joints, j)
           on == ParentWalk(joints, up[a])
           Apart == {i \in 0 .. n - a : on[i] # up[a + i]}
<1>1. n \in Nat /\ a \in 0 .. n
  BY SequenceShape
<1>2. up[0] = j /\ \A k \in 1 .. n : up[k] = Above(joints, up[k - 1])
  BY WalkSteps
<1>3. on[0] = up[a] /\ \A k \in 1 .. n : on[k] = Above(joints, on[k - 1])
  BY WalkSteps
<1> HIDE DEF n, up, on
<1>4. SUFFICES ASSUME Apart # {} PROVE FALSE
  BY DEF n, up, on
<1>5. PICK i \in Apart : \A k \in Apart : i <= k
  <2>1. Apart \subseteq Nat
    BY <1>1
  <2> HIDE DEF Apart
  <2>2. QED
    BY <1>4, <2>1, SmallestIndex
<1>6. i # 0
  <2>1. a + 0 = a
    BY <1>1
  <2>2. QED
    BY <1>3, <1>5, <2>1
<1>7. /\ i \in 1 .. n /\ a + i \in 1 .. n /\ i - 1 \in 0 .. n - a /\ ~(i <= i - 1)
      /\ (a + i) - 1 = a + (i - 1)
  BY <1>1, <1>5, <1>6
<1>8. on[i - 1] = up[a + (i - 1)]
  BY <1>5, <1>7
<1>9. on[i] = Above(joints, on[i - 1]) /\ up[a + i] = Above(joints, up[a + (i - 1)])
  BY <1>2, <1>3, <1>7
<1>10. QED
  BY <1>5, <1>8, <1>9

(* A walk that has left the array stays where it is.                       *)
LEMMA WalkStaysOut ==
  ASSUME NEW joints, IsSequence(joints), NEW j, NEW a \in 0 .. Len(joints) + 1,
         ParentWalk(joints, j)[a] \notin DOMAIN joints, NEW m \in a .. Len(joints) + 1
  PROVE  ParentWalk(joints, j)[m] = ParentWalk(joints, j)[a]
<1> DEFINE n == Len(joints) + 1
           up == ParentWalk(joints, j)
           Moved == {i \in a .. n : up[i] # up[a]}
<1>1. n \in Nat /\ a \in 0 .. n
  BY SequenceShape
<1>2. up[0] = j /\ \A k \in 1 .. n : up[k] = Above(joints, up[k - 1])
  BY WalkSteps
<1> HIDE DEF n, up
<1>3. SUFFICES ASSUME Moved # {} PROVE FALSE
  BY DEF n, up
<1>4. PICK i \in Moved : \A k \in Moved : i <= k
  <2>1. Moved \subseteq Nat
    BY <1>1
  <2> HIDE DEF Moved
  <2>2. QED
    BY <1>3, <2>1, SmallestIndex
<1>5. i \in 1 .. n /\ i - 1 \in a .. n /\ ~(i <= i - 1)
  BY <1>1, <1>4
<1>6. up[i - 1] = up[a]
  BY <1>4, <1>5
<1>7. up[i] = Above(joints, up[a])
  BY <1>2, <1>5, <1>6
<1>8. QED
  BY <1>4, <1>7 DEF Above, up

(* The joints a walk passes before it leaves the array are different ones. *)
LEMMA WalkPassesOnce ==
  ASSUME NEW joints, IsSequence(joints), NEW j, NEW e \in 0 .. Len(joints),
         ParentWalk(joints, j)[e + 1] \notin DOMAIN joints,
         \A k \in 0 .. e : ParentWalk(joints, j)[k] \in DOMAIN joints,
         NEW a \in 0 .. e, NEW b \in 0 .. e, a < b
  PROVE  ParentWalk(joints, j)[a] # ParentWalk(joints, j)[b]
<1> DEFINE n == Len(joints) + 1
           up == ParentWalk(joints, j)
           i == (e + 1) - b
<1>1. Len(joints) \in Nat
  BY SequenceShape
<1>2. /\ a \in 0 .. n /\ b \in 0 .. n /\ i \in 0 .. n - a /\ i \in 0 .. n - b
      /\ b + i = e + 1 /\ a + i \in 0 .. e
  BY <1>1
<1> HIDE DEF n, i
<1>3. SUFFICES ASSUME up[a] = up[b] PROVE FALSE
  OBVIOUS
<1>4. ParentWalk(joints, up[a])[i] = up[a + i]
  BY <1>2, WalkGoesOn DEF n
<1>5. ParentWalk(joints, up[b])[i] = up[b + i]
  BY <1>2, WalkGoesOn DEF n
<1>6. up[a + i] = up[e + 1]
  BY <1>2, <1>3, <1>4, <1>5
<1>7. QED
  BY <1>2, <1>6

(* Of n + 1 places in an array of n, two are one.                          *)
LEMMA TwoShareAPlace ==
  ASSUME NEW n \in Nat, NEW f \in [1 .. n + 1 -> 1 .. n]
  PROVE  \E x, y \in 1 .. n + 1 : x < y /\ f[x] = f[y]
<1>1. IsFiniteSet(1 .. n) /\ IsFiniteSet(1 .. n + 1)
  BY FS_Interval
<1>2. Cardinality(1 .. n) = IF 1 > n THEN 0 ELSE n - 1 + 1
  BY FS_Interval
<1>3. Cardinality(1 .. n + 1) = IF 1 > n + 1 THEN 0 ELSE n + 1 - 1 + 1
  BY FS_Interval
<1>4. Cardinality(1 .. n) < Cardinality(1 .. n + 1)
  BY <1>2, <1>3
<1>5. \E x, y \in 1 .. n + 1 : x # y /\ f[x] = f[y]
  BY <1>1, <1>4, FS_PigeonHole
<1>6. QED
  BY <1>5

(* The joints above a joint, and a walk that comes back to one of them.    *)
PlacesAbove(joints, k) == {ParentWalk(joints, k)[n] : n \in 1 .. Len(joints) + 1}

Endless(joints, j) == \E k \in PlacesAbove(joints, j) \cap DOMAIN joints : k \in PlacesAbove(joints, k)

Exits(joints, j) == {k \in 0 .. Len(joints) : ParentWalk(joints, j)[k + 1] \notin DOMAIN joints}

(* A walk that never leaves the array passes a joint twice.                *)
LEMMA NoExitIsEndless ==
  ASSUME NEW joints, IsSequence(joints), NEW j \in DOMAIN joints, Exits(joints, j) = {}
  PROVE  Endless(joints, j)
<1> DEFINE n == Len(joints)
           up == ParentWalk(joints, j)
           f == [k \in 1 .. n + 1 |-> up[k]]
<1>1. n \in Nat /\ DOMAIN joints = 1 .. n
  BY SequenceShape
<1>2. \A k \in 1 .. n + 1 : up[k] \in 1 .. n
  <2> SUFFICES ASSUME NEW k \in 1 .. n + 1 PROVE up[k] \in DOMAIN joints
    BY <1>1
  <2>1. k - 1 \in 0 .. n /\ (k - 1) + 1 = k
    BY <1>1
  <2> HIDE DEF up
  <2>2. QED
    BY <2>1 DEF Exits, up
<1> HIDE DEF n, up
<1>3. f \in [1 .. n + 1 -> 1 .. n]
  BY <1>2
<1>4. PICK a \in 1 .. n + 1, b \in 1 .. n + 1 : a < b /\ f[a] = f[b]
  BY <1>1, <1>3, TwoShareAPlace
<1>5. a < b /\ up[a] = up[b]
  BY <1>4
<1>6. a \in 0 .. n + 1 /\ b - a \in 0 .. n + 1 - a /\ b - a \in 1 .. n + 1 /\ a + (b - a) = b
  BY <1>1, <1>5
<1>7. ParentWalk(joints, up[a])[b - a] = up[b]
  BY <1>6, WalkGoesOn DEF n, up
<1>8. up[a] \in PlacesAbove(joints, up[a])
  BY <1>5, <1>6, <1>7 DEF PlacesAbove, n
<1>9. up[a] \in PlacesAbove(joints, j) \cap DOMAIN joints
  BY <1>1, <1>2 DEF PlacesAbove, n, up
<1>10. QED
  BY <1>8, <1>9 DEF Endless

(* What a walk that leaves the array after e joints has passed.            *)
LEMMA WalkThatEnds ==
  ASSUME NEW joints, IsSequence(joints), NEW j \in DOMAIN joints, Exits(joints, j) # {}
  PROVE  LET e   == Min(Exits(joints, j))
             out == ParentWalk(joints, j)[e + 1]
         IN  /\ e \in 0 .. Len(joints) - 1 /\ out \notin DOMAIN joints
             /\ ~Endless(joints, j)
             /\ PlacesAbove(joints, j) \ DOMAIN joints = {out}
             /\ IsFiniteSet(PlacesAbove(joints, j) \cap DOMAIN joints)
             /\ Cardinality(PlacesAbove(joints, j) \cap DOMAIN joints) = e
             /\ \A k \in 1 .. e : ParentWalk(joints, j)[k] \in DOMAIN joints
<1> DEFINE n == Len(joints)
           up == ParentWalk(joints, j)
           e == Min(Exits(joints, j))
           above == PlacesAbove(joints, j)
           inside == above \cap DOMAIN joints
<1>1. n \in Nat /\ DOMAIN joints = 1 .. n
  BY SequenceShape
<1>2. e \in Exits(joints, j) /\ \A k \in Exits(joints, j) : e <= k
  <2>1. Exits(joints, j) \subseteq Nat
    BY <1>1 DEF Exits
  <2>2. QED
    BY <2>1, SmallestIsMin
<1>3. e \in 0 .. n /\ up[e + 1] \notin DOMAIN joints
  BY <1>2 DEF Exits
<1>4. up[0] = j
  BY WalkSteps
<1> HIDE DEF e
<1>5. \A k \in 0 .. e : up[k] \in DOMAIN joints
  <2> SUFFICES ASSUME NEW k \in 0 .. e PROVE up[k] \in DOMAIN joints
    OBVIOUS
  <2>1. CASE k = 0
    BY <1>4, <2>1
  <2>2. CASE k # 0
    <3>1. k - 1 \in 0 .. n /\ (k - 1) + 1 = k /\ ~(e <= k - 1)
      BY <1>1, <1>3, <2>2
    <3>2. k - 1 \notin Exits(joints, j)
      BY <1>2, <3>1
    <3>3. QED
      BY <3>1, <3>2 DEF Exits
  <2>3. QED
    BY <2>1, <2>2
<1>6. \A a, b \in 0 .. e : a < b => up[a] # up[b]
  BY <1>3, <1>5, WalkPassesOnce
<1>7. \A m \in e + 1 .. n + 1 : up[m] = up[e + 1]
  <2>1. e + 1 \in 0 .. Len(joints) + 1
    BY <1>1, <1>3
  <2>2. QED
    BY <1>3, <2>1, WalkStaysOut
<1> HIDE DEF n, up
<1>8. above = {up[k] : k \in 1 .. n + 1}
  BY DEF PlacesAbove, n, up
<1>9. above \ DOMAIN joints = {up[e + 1]}
  <2>1. ASSUME NEW k \in 1 .. n + 1 PROVE up[k] \in DOMAIN joints \/ up[k] = up[e + 1]
    <3>1. k \in 0 .. e \/ k \in e + 1 .. n + 1
      BY <1>1, <1>3
    <3>2. QED
      BY <1>5, <1>7, <3>1
  <2>2. e + 1 \in 1 .. n + 1
    BY <1>1, <1>3
  <2> HIDE DEF above
  <2>3. QED
    BY <1>3, <1>8, <2>1, <2>2
<1>10. inside = {up[k] : k \in 1 .. e}
  <2>1. ASSUME NEW k \in 1 .. n + 1, up[k] \in DOMAIN joints PROVE k \in 1 .. e
    <3>1. CASE k \in e + 1 .. n + 1
      BY <1>3, <1>7, <2>1, <3>1
    <3>2. QED
      BY <1>1, <1>3, <3>1
  <2>2. \A k \in 1 .. e : k \in 1 .. n + 1 /\ k \in 0 .. e
    BY <1>1, <1>3
  <2> HIDE DEF above
  <2>3. QED
    BY <1>5, <1>8, <2>1, <2>2
<1> DEFINE f == [k \in 1 .. e |-> up[k]]
<1>11. f \in Surjection(1 .. e, inside) /\ f \in Injection(1 .. e, inside)
  <2>1. f \in [1 .. e -> inside] /\ \A x \in inside : \E k \in 1 .. e : f[k] = x
    <3> HIDE DEF inside
    <3>1. QED
      BY <1>10
  <2>2. \A a, b \in 1 .. e : f[a] = f[b] => a = b
    <3> SUFFICES ASSUME NEW a \in 1 .. e, NEW b \in 1 .. e, a # b PROVE up[a] # up[b]
      OBVIOUS
    <3>1. a < b \/ b < a
      BY <1>3
    <3>2. a \in 0 .. e /\ b \in 0 .. e
      BY <1>3
    <3>3. QED
      BY <1>6, <3>1, <3>2
  <2> HIDE DEF f, inside
  <2>3. QED
    BY <2>1, <2>2 DEF Surjection, Injection, IsInjective
<1>12. IsFiniteSet(inside) /\ Cardinality(inside) = e
  <2>1. IsFiniteSet(1 .. e) /\ Cardinality(1 .. e) = e
    <3>1. IsFiniteSet(1 .. e)
      BY <1>3, FS_Interval
    <3>2. Cardinality(1 .. e) = IF 1 > e THEN 0 ELSE e - 1 + 1
      BY <1>3, FS_Interval
    <3>3. QED
      BY <1>3, <3>1, <3>2
  <2> HIDE DEF f, inside
  <2>2. IsFiniteSet(inside) /\ (Cardinality(inside) = Cardinality(1 .. e) <=> f \in Injection(1 .. e, inside))
    BY <1>11, <2>1, FS_Surjection, Zenon
  <2>3. QED
    BY <1>11, <2>1, <2>2
<1>13. e \in 0 .. n - 1
  <2>1. inside \subseteq 1 .. n /\ (n = 0 => j \notin DOMAIN joints)
    BY <1>1
  <2>2. Cardinality(inside) \in 0 .. n
    <3> HIDE DEF inside
    <3>1. QED
      BY <1>1, <2>1, IndexSetIsSmall
  <2>3. e # n
    <3>1. SUFFICES ASSUME e = n PROVE FALSE
      OBVIOUS
    <3> DEFINE g == [k \in 1 .. e + 1 |-> up[k - 1]]
    <3>2. g \in [1 .. n + 1 -> 1 .. n]
      <4>1. \A k \in 1 .. n + 1 : k - 1 \in 0 .. e
        BY <1>1, <3>1
      <4>2. \A k \in 1 .. n + 1 : up[k - 1] \in 1 .. n
        BY <1>1, <1>5, <4>1
      <4>3. QED
        BY <3>1, <4>2
    <3>3. PICK x \in 1 .. n + 1, y \in 1 .. n + 1 : x < y /\ g[x] = g[y]
      <4> HIDE DEF g
      <4>1. QED
        BY <1>1, <3>2, TwoShareAPlace
    <3>4. x - 1 \in 0 .. e /\ y - 1 \in 0 .. e /\ (x - 1 < y - 1 \/ y - 1 < x - 1)
      BY <1>1, <3>1, <3>3
    <3>5. up[x - 1] = up[y - 1]
      BY <3>1, <3>3
    <3>6. QED
      BY <1>6, <3>4, <3>5
  <2>4. QED
    BY <1>1, <1>3, <2>3
<1>14. ~Endless(joints, j)
  <2>1. SUFFICES ASSUME NEW a \in 1 .. e, up[a] \in PlacesAbove(joints, up[a]) PROVE FALSE
    <3> HIDE DEF inside
    <3>1. QED
      BY <1>10 DEF Endless, inside
  <2>2. PICK m \in 1 .. n + 1 : up[a] = ParentWalk(joints, up[a])[m]
    BY <2>1 DEF PlacesAbove, n
  <2> DEFINE i == (e + 1) - a
  <2>3. i \in 1 .. n + 1 - a /\ a + i = e + 1 /\ a \in 0 .. n + 1 /\ i \in 0 .. n + 1
    BY <1>1, <1>3
  <2>4. up[a] \in DOMAIN joints
    BY <1>3, <1>5
  <2>5. CASE m <= n + 1 - a
    <3>1. up[a + m] = up[a] /\ a + m \in 1 .. n + 1
      <4>1. m \in 0 .. n + 1 - a
        BY <1>1, <2>5
      <4>2. ParentWalk(joints, up[a])[m] = up[a + m]
        BY <2>3, <4>1, WalkGoesOn DEF n, up
      <4>3. QED
        BY <1>1, <2>2, <2>5, <4>2
    <3>2. a + m \in 0 .. e \/ a + m \in e + 1 .. n + 1
      BY <1>1, <1>3, <3>1
    <3>3. CASE a + m \in 0 .. e
      <4>1. a \in 0 .. e /\ a < a + m
        BY <1>1
      <4>2. QED
        BY <1>6, <3>1, <3>3, <4>1
    <3>4. CASE a + m \in e + 1 .. n + 1
      BY <1>3, <1>7, <2>4, <3>1, <3>4 DEF up
    <3>5. QED
      BY <3>2, <3>3, <3>4
  <2>6. CASE ~(m <= n + 1 - a)
    <3>1. i \in 0 .. n + 1 - a
      BY <2>3
    <3>2. ParentWalk(joints, up[a])[i] = up[e + 1]
      <4> HIDE DEF i
      <4>1. ParentWalk(joints, up[a])[i] = up[a + i]
        BY <2>3, <3>1, WalkGoesOn DEF n, up
      <4>2. QED
        BY <2>3, <4>1
    <3>3. m \in i .. n + 1
      BY <1>1, <1>3, <2>6
    <3> HIDE DEF i
    <3>4. ParentWalk(joints, up[a])[m] = up[e + 1]
      <4>1. ParentWalk(joints, up[a])[i] \notin DOMAIN joints
        BY <1>3, <3>2 DEF up
      <4>2. ParentWalk(joints, up[a])[m] = ParentWalk(joints, up[a])[i]
        BY <2>3, <3>3, <4>1, WalkStaysOut DEF n
      <4>3. QED
        BY <3>2, <4>2
    <3>5. QED
      BY <1>3, <2>2, <2>4, <3>4 DEF up
  <2>7. QED
    BY <2>5, <2>6
<1>15. \A k \in 1 .. e : up[k] \in DOMAIN joints
  BY <1>3, <1>5
<1>16. QED
  BY <1>3, <1>9, <1>12, <1>13, <1>14, <1>15 DEF e, n, up

(* Both walks count the ancestors of a joint of any array.                 *)
LEMMA DepthsAreCounts ==
  ASSUME NEW joints, IsSequence(joints), NEW j \in DOMAIN joints
  PROVE  LET ancestors == Cardinality(PlacesAbove(joints, j) \cap DOMAIN joints)
         IN  /\ BvhDepth(joints, j) = IF Endless(joints, j) THEN 0 ELSE ancestors
             /\ SourceDepth(joints, j) =
                  IF Endless(joints, j) \/ 0 \notin PlacesAbove(joints, j) THEN 0 ELSE ancestors
<1> DEFINE n == Len(joints)
           up == ParentWalk(joints, j)
           exits == Exits(joints, j)
           roots == {k \in 0 .. n - 1 : up[k + 1] = 0}
           above == PlacesAbove(joints, j)
           ancestors == Cardinality(above \cap DOMAIN joints)
<1>1. n \in Nat /\ DOMAIN joints = 1 .. n /\ 0 \notin DOMAIN joints
  BY SequenceShape
<1>2. BvhDepth(joints, j) = IF exits = {} THEN 0 ELSE Min(exits)
  BY DEF BvhDepth, Exits
<1>3. SourceDepth(joints, j) = IF roots = {} THEN 0 ELSE Min(roots)
  BY DEF SourceDepth
<1>4. CASE exits = {}
  <2>1. Endless(joints, j)
    BY <1>4, NoExitIsEndless
  <2>2. roots = {}
    <3> SUFFICES ASSUME NEW k \in 0 .. n - 1, up[k + 1] = 0 PROVE FALSE
      OBVIOUS
    <3>1. k \in 0 .. n
      BY <1>1
    <3>2. k \notin exits
      BY <1>4
    <3>3. up[k + 1] \in DOMAIN joints
      BY <3>1, <3>2 DEF Exits
    <3>4. QED
      BY <1>1, <3>3
  <2>3. QED
    BY <1>2, <1>3, <1>4, <2>1, <2>2
<1>5. CASE exits # {}
  <2> DEFINE e == Min(exits)
             out == up[e + 1]
  <2>1. /\ e \in 0 .. n - 1 /\ out \notin DOMAIN joints /\ ~Endless(joints, j)
        /\ above \ DOMAIN joints = {out} /\ ancestors = e
        /\ \A k \in 1 .. e : up[k] \in DOMAIN joints
    BY <1>5, WalkThatEnds
  <2>2. 0 \in above <=> out = 0
    BY <1>1, <2>1
  <2>3. \A k \in roots : e <= k
    <3> SUFFICES ASSUME NEW k \in roots, k < e PROVE FALSE
      BY <1>1, <2>1
    <3>1. k + 1 \in 1 .. e /\ up[k + 1] = 0
      BY <1>1, <2>1
    <3>2. QED
      BY <1>1, <2>1, <3>1
  <2>4. e \in roots <=> out = 0
    BY <2>1
  <2>5. \A k \in roots : out = 0
    <3> SUFFICES ASSUME NEW k \in roots PROVE out = 0
      OBVIOUS
    <3>1. k \in 0 .. n - 1 /\ up[k + 1] = 0 /\ k + 1 \in 1 .. n + 1
      BY <1>1
    <3>2. 0 \in above
      BY <3>1 DEF PlacesAbove
    <3>3. QED
      BY <2>2, <3>2
  <2> HIDE DEF e, out, roots, up, n, ancestors, above, exits
  <2>6. CASE out = 0
    <3>1. roots # {} /\ roots \subseteq Nat /\ e \in roots /\ e \in Nat
      <4>1. roots \subseteq 0 .. n - 1
        BY DEF roots
      <4>2. roots \subseteq Nat
        BY <1>1, <4>1
      <4>3. QED
        BY <2>4, <2>6, <4>2
    <3>2. Min(roots) \in roots /\ \A k \in roots : Min(roots) <= k
      BY <3>1, SmallestIsMin
    <3> DEFINE least == Min(roots)
    <3>3. least \in Nat /\ least <= e /\ e <= least
      BY <2>3, <3>1, <3>2
    <3> HIDE DEF least
    <3>4. least = e
      BY <3>1, <3>3
    <3>5. QED
      BY <1>2, <1>3, <1>5, <2>1, <2>2, <2>6, <3>1, <3>4 DEF least, e, above, ancestors, exits
  <2>7. CASE out # 0
    <3>1. roots = {}
      BY <2>5, <2>7
    <3>2. QED
      BY <1>2, <1>3, <1>5, <2>1, <2>2, <2>7, <3>1 DEF e, above, ancestors, exits
  <2>8. QED
    BY <2>6, <2>7
<1>6. QED
  BY <1>4, <1>5

-----------------------------------------------------------------------------
(* The columns of a motion row.                                            *)

ListsOfChannels(joints) == IsSequence(joints) /\ \A j \in DOMAIN joints : IsSequence(joints[j].channels)

Width(joints, j) == Len(joints[j].channels)

LEMMA TotalsGoBy ==
  ASSUME NEW joints, ListsOfChannels(joints)
  PROVE  /\ ChannelTotals(joints) \in [0 .. Len(joints) -> Nat]
         /\ ChannelTotals(joints)[0] = 0
         /\ \A k \in 1 .. Len(joints) :
              ChannelTotals(joints)[k] = ChannelTotals(joints)[k - 1] + Width(joints, k)
<1> DEFINE n == Len(joints)
           step == [k \in 1 .. n |-> [sum \in Nat |-> sum + Width(joints, k)]]
           IsTotal(f) == f = [k \in 0 .. n |->
                                IF k = 0 THEN 0 ELSE f[k - 1] + Len(joints[k].channels)]
<1>1. n \in Nat /\ DOMAIN joints = 1 .. n
  BY SequenceShape DEF ListsOfChannels
<1>2. \A k \in 1 .. n : Width(joints, k) \in Nat
  BY <1>1, SequenceShape DEF ListsOfChannels, Width
<1> HIDE DEF n
<1>3. step \in [1 .. n -> [Nat -> Nat]]
  BY <1>2
<1>4. \E f \in [0 .. n -> Nat] : GoesBy(f, n, 0, step)
  <2> HIDE DEF step
  <2>1. 0 \in Nat
    OBVIOUS
  <2>2. QED
    BY <1>1, <1>3, <2>1, StepsExist, Zenon
<1>5. PICK f \in [0 .. n -> Nat] : GoesBy(f, n, 0, step)
  BY <1>4
<1>6. \A k \in 1 .. n : k \in 0 .. n /\ k # 0 /\ k - 1 \in 0 .. n
  BY <1>1
<1>7. \A k \in 1 .. n : f[k] = f[k - 1] + Width(joints, k)
  <2>1. \A k \in 1 .. n : step[k][f[k - 1]] = f[k - 1] + Width(joints, k)
    BY <1>5, <1>6
  <2> HIDE DEF step
  <2>2. QED
    BY <1>5, <1>6, <2>1 DEF GoesBy
<1> HIDE DEF step
<1>8. f[0] = 0
  <2>1. 0 \in 0 .. n
    BY <1>1
  <2>2. QED
    BY <1>5, <2>1 DEF GoesBy
<1>9. IsTotal(f)
  <2>1. \A k \in 0 .. n : k # 0 => k \in 1 .. n
    BY <1>1
  <2>2. QED
    BY <1>5, <1>7, <1>8, <2>1 DEF Width
<1> DEFINE total == CHOOSE g : IsTotal(g)
<1>10. ChannelTotals(joints) = total
  BY Zenon DEF ChannelTotals, n
<1>11. IsTotal(total)
  <2> HIDE DEF IsTotal
  <2>1. QED
    BY <1>9
<1> HIDE DEF total
<1>12. total = f
  <2>1. /\ total = [k \in 0 .. n |-> total[k]] /\ total[0] = 0
        /\ \A k \in 1 .. n : total[k] = total[k - 1] + Width(joints, k)
    <3>1. DOMAIN total = 0 .. n
      BY <1>11
    <3>2. total = [k \in 0 .. n |-> total[k]]
      BY <1>11
    <3>3. 0 \in 0 .. n
      BY <1>1
    <3>4. \A k \in 0 .. n : total[k] = IF k = 0 THEN 0 ELSE total[k - 1] + Width(joints, k)
      BY <1>11 DEF Width
    <3> HIDE DEF IsTotal
    <3>5. total[0] = 0
      BY <3>3, <3>4
    <3>6. \A k \in 1 .. n : total[k] = total[k - 1] + Width(joints, k)
      BY <1>6, <3>4
    <3>7. QED
      BY <3>2, <3>5, <3>6
  <2> DEFINE Apart == {k \in 0 .. n : total[k] # f[k]}
  <2>2. Apart = {}
    <3>1. SUFFICES ASSUME Apart # {} PROVE FALSE
      OBVIOUS
    <3>2. PICK k \in Apart : \A l \in Apart : k <= l
      <4>1. Apart \subseteq Nat
        OBVIOUS
      <4> HIDE DEF Apart
      <4>2. QED
        BY <3>1, <4>1, SmallestIndex
    <3>3. k # 0
      BY <1>8, <2>1, <3>2
    <3>4. k \in 1 .. n /\ k - 1 \in 0 .. n /\ ~(k <= k - 1)
      BY <1>1, <3>2, <3>3
    <3>5. total[k - 1] = f[k - 1]
      BY <3>2, <3>4
    <3>6. QED
      BY <1>7, <2>1, <3>2, <3>4, <3>5
  <2>3. QED
    BY <1>5, <2>1, <2>2
<1>13. QED
  BY <1>5, <1>7, <1>8, <1>10, <1>12 DEF n

(* The columns of the first joints are among those of more of them.        *)
LEMMA TotalsRise ==
  ASSUME NEW joints, ListsOfChannels(joints), NEW j \in 0 .. Len(joints), NEW k \in 0 .. Len(joints),
         j <= k
  PROVE  ChannelTotals(joints)[j] <= ChannelTotals(joints)[k]
<1> DEFINE n == Len(joints)
           total == ChannelTotals(joints)
           Low == {m \in Nat : m \in j .. n /\ ~(total[j] <= total[m])}
<1>1. n \in Nat /\ DOMAIN joints = 1 .. n
  BY SequenceShape DEF ListsOfChannels
<1>2. total \in [0 .. n -> Nat] /\ \A i \in 1 .. n : total[i] = total[i - 1] + Width(joints, i)
  BY TotalsGoBy
<1> HIDE DEF n, total
<1>3. SUFFICES ASSUME Low # {} PROVE FALSE
  BY <1>1 DEF n, total
<1>4. PICK m \in Low : \A l \in Low : m <= l
  <2>1. Low \subseteq Nat
    OBVIOUS
  <2> HIDE DEF Low
  <2>2. QED
    BY <1>3, <2>1, SmallestIndex
<1>5. m \in j .. n /\ m \in 0 .. n /\ j \in 0 .. n
  BY <1>1, <1>4 DEF n
<1>6. total[m] \in Nat /\ total[j] \in Nat /\ ~(total[j] <= total[m])
  BY <1>2, <1>4, <1>5
<1>7. m # j
  BY <1>6
<1>8. /\ m - 1 \in Nat /\ m - 1 \in j .. n /\ ~(m <= m - 1) /\ m \in 1 .. n
      /\ m - 1 \in 0 .. n
  BY <1>1, <1>5, <1>7
<1>9. total[j] <= total[m - 1]
  BY <1>4, <1>8
<1>10. Width(joints, m) \in Nat
  BY <1>1, <1>8, SequenceShape DEF ListsOfChannels, Width
<1> DEFINE a == total[m - 1]
           v == Width(joints, m)
<1>11. total[m] = a + v /\ a \in Nat /\ v \in Nat
  BY <1>2, <1>8, <1>10
<1> HIDE DEF a, v
<1>12. QED
  BY <1>6, <1>9, <1>11 DEF a

(* The columns of the joints follow one another.                           *)
LEMMA ColumnsFollow ==
  ASSUME NEW joints, ListsOfChannels(joints)
  PROVE  /\ DeclaredChannels(joints) \in Nat
         /\ \A j \in DOMAIN joints :
              /\ ColumnsBefore(joints, j) \in Nat /\ Width(joints, j) \in Nat
              /\ ColumnsBefore(joints, j) + Width(joints, j) = ChannelTotals(joints)[j]
              /\ ColumnsBefore(joints, j) + Width(joints, j) <= DeclaredChannels(joints)
<1> DEFINE n == Len(joints)
           total == ChannelTotals(joints)
<1>1. n \in Nat /\ DOMAIN joints = 1 .. n
  BY SequenceShape DEF ListsOfChannels
<1>2. \A k \in 1 .. n : Width(joints, k) \in Nat
  BY <1>1, SequenceShape DEF ListsOfChannels, Width
<1>3. /\ total \in [0 .. n -> Nat] /\ total[0] = 0
      /\ \A k \in 1 .. n : total[k] = total[k - 1] + Width(joints, k)
  BY TotalsGoBy
<1>4. /\ DeclaredChannels(joints) = total[n]
      /\ \A j \in 1 .. n : ColumnsBefore(joints, j) = total[j - 1]
  BY DEF DeclaredChannels, ColumnsBefore
<1>5. ASSUME NEW j \in 1 .. n PROVE total[j] <= total[n]
  <2>1. j \in 0 .. n /\ n \in 0 .. n /\ j <= n
    BY <1>1
  <2>2. QED
    BY <2>1, TotalsRise
<1> HIDE DEF n, total
<1>6. QED
  <2>1. \A j \in 1 .. n : j - 1 \in 0 .. n
    BY <1>1
  <2>2. n \in 0 .. n
    BY <1>1
  <2>3. QED
    BY <1>1, <1>2, <1>3, <1>4, <1>5, <2>1, <2>2 DEF total

(* The cells a joint adds to a motion row.                                 *)
CellsOf(joints, k) == [i \in DOMAIN joints[k].channels |-> <<k, joints[k].channels[i]>>]

LEMMA CellsAreAList ==
  ASSUME NEW joints, ListsOfChannels(joints), NEW k \in DOMAIN joints
  PROVE  /\ IsSequence(CellsOf(joints, k)) /\ Len(CellsOf(joints, k)) = Width(joints, k)
         /\ DOMAIN CellsOf(joints, k) = 1 .. Width(joints, k) /\ Width(joints, k) \in Nat
         /\ DOMAIN joints[k].channels = 1 .. Width(joints, k)
         /\ \A i \in 1 .. Width(joints, k) : CellsOf(joints, k)[i] = <<k, joints[k].channels[i]>>
<1> DEFINE w == Width(joints, k)
           cells == CellsOf(joints, k)
<1>1. w \in Nat /\ DOMAIN joints[k].channels = 1 .. w
  BY SequenceShape DEF ListsOfChannels, Width
<1>2. cells = [i \in 1 .. w |-> <<k, joints[k].channels[i]>>]
  BY <1>1 DEF CellsOf
<1>3. cells = [i \in 1 .. w |-> cells[i]] /\ \A i \in 1 .. w : cells[i] = <<k, joints[k].channels[i]>>
  BY <1>2
<1> HIDE DEF cells, w
<1>4. IsSequence(cells) /\ Len(cells) = w /\ DOMAIN cells = 1 .. w
  BY <1>1, <1>3, ListIsASequence
<1>5. QED
  BY <1>1, <1>3, <1>4 DEF cells, w

(* One list after another.                                                 *)
Joined(s, t) == s \o t

LEMMA ListsJoin ==
  ASSUME NEW s, IsSequence(s), NEW t, IsSequence(t)
  PROVE  /\ IsSequence(Joined(s, t)) /\ Len(Joined(s, t)) = Len(s) + Len(t)
         /\ DOMAIN Joined(s, t) = 1 .. Len(s) + Len(t)
         /\ \A i \in 1 .. Len(s) : Joined(s, t)[i] = s[i]
         /\ \A i \in 1 .. Len(t) : Joined(s, t)[Len(s) + i] = t[i]
<1> DEFINE S == Range(s) \cup Range(t)
           st == s \o t
<1>1. s \in Seq(S) /\ t \in Seq(S) /\ Len(s) \in Nat /\ Len(t) \in Nat
  BY DEF IsSequence
<1> HIDE DEF S
<1>2. st \in Seq(S) /\ Len(st) = Len(s) + Len(t) /\ DOMAIN st = 1 .. Len(s) + Len(t)
  BY <1>1
<1>3. /\ \A i \in 1 .. Len(s) : st[i] = s[i]
      /\ \A i \in 1 .. Len(t) : st[Len(s) + i] = t[i]
  BY <1>1
<1> HIDE DEF st
<1>4. IsSequence(st)
  BY <1>2, SeqOfRange DEF IsSequence
<1>5. QED
  BY <1>2, <1>3, <1>4 DEF st, Joined

(* What the first joints make of a row.                                    *)
Prefix(joints, row, k) ==
  /\ IsSequence(row[k]) /\ Len(row[k]) = ChannelTotals(joints)[k]
  /\ \A j \in 1 .. k : \A i \in 1 .. Width(joints, j) :
       row[k][ChannelTotals(joints)[j - 1] + i] = <<j, joints[j].channels[i]>>
  /\ \A p \in 1 .. Len(row[k]) : \E j \in 1 .. k : \E i \in 1 .. Width(joints, j) :
       p = ChannelTotals(joints)[j - 1] + i

LEMMA PrefixGrows ==
  ASSUME NEW joints, ListsOfChannels(joints), NEW row, NEW k \in 1 .. Len(joints),
         Prefix(joints, row, k - 1), row[k] = row[k - 1] \o CellsOf(joints, k)
  PROVE  Prefix(joints, row, k)
<1> DEFINE n == Len(joints)
           total == ChannelTotals(joints)
           s == row[k - 1]
           t == CellsOf(joints, k)
           w == Width(joints, k)
<1>1. n \in Nat /\ DOMAIN joints = 1 .. n
  BY SequenceShape DEF ListsOfChannels
<1>2. total \in [0 .. n -> Nat] /\ \A i \in 1 .. n : total[i] = total[i - 1] + Width(joints, i)
  BY TotalsGoBy
<1>3. IsSequence(t) /\ Len(t) = w /\ w \in Nat /\ \A i \in 1 .. w : t[i] = <<k, joints[k].channels[i]>>
  BY <1>1, CellsAreAList
<1>4. /\ IsSequence(s) /\ Len(s) = total[k - 1]
      /\ \A j \in 1 .. k - 1 : \A i \in 1 .. Width(joints, j) :
           s[total[j - 1] + i] = <<j, joints[j].channels[i]>>
      /\ \A p \in 1 .. Len(s) : \E j \in 1 .. k - 1 : \E i \in 1 .. Width(joints, j) :
           p = total[j - 1] + i
  BY DEF Prefix
<1>5. k \in 1 .. n /\ k - 1 \in 0 .. n
  BY <1>1
<1>5a. total[k - 1] \in Nat /\ total[k] = total[k - 1] + w
  BY <1>2, <1>5
<1> DEFINE st == Joined(s, t)
<1> HIDE DEF n, total, s, t, w
<1>6. /\ IsSequence(st) /\ Len(st) = Len(s) + Len(t)
      /\ \A i \in 1 .. Len(s) : st[i] = s[i]
      /\ \A i \in 1 .. Len(t) : st[Len(s) + i] = t[i]
  <2>1. IsSequence(s) /\ IsSequence(t)
    BY <1>3, <1>4
  <2>2. QED
    BY <2>1, ListsJoin
<1>7. row[k] = st
  BY DEF s, t, Joined
<1> HIDE DEF st
<1>8. Len(st) = total[k]
  BY <1>3, <1>4, <1>5a, <1>6
<1>9. ASSUME NEW j \in 1 .. k, NEW i \in 1 .. Width(joints, j)
      PROVE  st[total[j - 1] + i] = <<j, joints[j].channels[i]>>
  <2>1. CASE j = k
    BY <1>3, <1>4, <1>6, <2>1 DEF w
  <2>2. CASE j # k
    <3>1. j \in 1 .. k - 1 /\ j \in 1 .. n /\ j - 1 \in 0 .. n
      BY <1>1, <1>5, <2>2
    <3>2. s[total[j - 1] + i] = <<j, joints[j].channels[i]>>
      BY <1>4, <3>1
    <3>3. total[j - 1] + i \in 1 .. Len(s)
      <4>1. total[j - 1] \in Nat /\ total[j] = total[j - 1] + Width(joints, j) /\ i \in Nat \ {0}
        BY <1>2, <3>1
      <4>2. Width(joints, j) \in Nat
        BY <1>1, <3>1, CellsAreAList
      <4>3. total[j] <= total[k - 1]
        <5>1. j \in 0 .. n /\ k - 1 \in 0 .. n /\ j <= k - 1
          BY <1>1, <1>5, <3>1
        <5>2. QED
          BY <5>1, TotalsRise DEF n, total
      <4> DEFINE a == total[j - 1]
                 v == Width(joints, j)
      <4>4. a \in Nat /\ v \in Nat /\ i \in 1 .. v /\ a + v <= Len(s) /\ Len(s) \in Nat
        BY <1>4, <1>5a, <4>1, <4>2, <4>3
      <4> HIDE DEF a, v
      <4>5. a + i \in 1 .. Len(s)
        BY <4>4
      <4>6. QED
        BY <4>5 DEF a
    <3>4. QED
      BY <1>6, <3>2, <3>3
  <2>3. QED
    BY <2>1, <2>2
<1>10. ASSUME NEW p \in 1 .. Len(st)
       PROVE  \E j \in 1 .. k : \E i \in 1 .. Width(joints, j) : p = total[j - 1] + i
  <2>1. CASE p <= Len(s)
    <3>1. p \in 1 .. Len(s)
      BY <1>4, <1>5a, <2>1
    <3>2. PICK j \in 1 .. k - 1 : \E i \in 1 .. Width(joints, j) : p = total[j - 1] + i
      BY <1>4, <3>1
    <3>3. j \in 1 .. k
      BY <1>5
    <3>4. QED
      BY <3>2, <3>3
  <2>2. CASE ~(p <= Len(s))
    <3> DEFINE i == p - total[k - 1]
    <3>1. i \in 1 .. w /\ p = total[k - 1] + i /\ k \in 1 .. k
      BY <1>3, <1>4, <1>5a, <1>6, <2>2
    <3>2. QED
      BY <3>1 DEF w
  <2>3. QED
    BY <2>1, <2>2
<1>11. QED
  BY <1>6, <1>7, <1>8, <1>9, <1>10 DEF Prefix, total

LEMMA RowChannelsHold ==
  ASSUME NEW joints, ListsOfChannels(joints)
  PROVE  /\ DOMAIN RowChannels(joints) = 1 .. DeclaredChannels(joints)
         /\ \A j \in DOMAIN joints : \A i \in 1 .. Width(joints, j) :
              RowChannels(joints)[ColumnsBefore(joints, j) + i] = <<j, joints[j].channels[i]>>
         /\ \A p \in 1 .. DeclaredChannels(joints) :
              \E j \in DOMAIN joints : \E i \in 1 .. Width(joints, j) :
                p = ColumnsBefore(joints, j) + i
<1> DEFINE n == Len(joints)
           Cells == {<<k, joints[k].channels[i]>> : k \in 1 .. n, i \in 1 .. DeclaredChannels(joints)}
           step == [k \in 1 .. n |-> [row \in Seq(Cells) |-> row \o CellsOf(joints, k)]]
           IsRow(f) == f = [k \in 0 .. n |->
                              IF k = 0 THEN << >>
                              ELSE f[k - 1] \o [i \in DOMAIN joints[k].channels |->
                                                  <<k, joints[k].channels[i]>>]]
<1>1. n \in Nat /\ DOMAIN joints = 1 .. n
  BY SequenceShape DEF ListsOfChannels
<1>2. ASSUME NEW k \in 1 .. n PROVE CellsOf(joints, k) \in Seq(Cells)
  <2> DEFINE cells == CellsOf(joints, k)
  <2>1. /\ IsSequence(cells) /\ Len(cells) = Width(joints, k) /\ DOMAIN cells = 1 .. Width(joints, k)
        /\ Width(joints, k) \in Nat
        /\ \A i \in 1 .. Width(joints, k) : cells[i] = <<k, joints[k].channels[i]>>
    BY <1>1, CellsAreAList
  <2>2. Width(joints, k) <= DeclaredChannels(joints) /\ DeclaredChannels(joints) \in Nat
    <3>1. /\ DeclaredChannels(joints) \in Nat /\ ColumnsBefore(joints, k) \in Nat
          /\ ColumnsBefore(joints, k) + Width(joints, k) <= DeclaredChannels(joints)
      BY <1>1, ColumnsFollow
    <3>2. QED
      BY <2>1, <3>1
  <2>3. \A i \in 1 .. Width(joints, k) : cells[i] \in Cells
    <3>1. \A i \in 1 .. Width(joints, k) : i \in 1 .. DeclaredChannels(joints)
      BY <2>1, <2>2
    <3>2. \A i \in 1 .. DeclaredChannels(joints) : <<k, joints[k].channels[i]>> \in Cells
      OBVIOUS
    <3> HIDE DEF cells, Cells
    <3>3. QED
      BY <2>1, <3>1, <3>2
  <2> HIDE DEF cells, Cells
  <2>4. cells = [i \in 1 .. Width(joints, k) |-> cells[i]]
    BY <2>1, SequenceShape
  <2>5. QED
    BY <2>1, <2>3, <2>4, IsASeq DEF cells
<1> HIDE DEF Cells
<1>3. step \in [1 .. n -> [Seq(Cells) -> Seq(Cells)]]
  <2>1. \A k \in 1 .. n : \A row \in Seq(Cells) : row \o CellsOf(joints, k) \in Seq(Cells)
    BY <1>2, ConcatProperties
  <2> HIDE DEF n
  <2>2. QED
    BY <2>1
<1>4. \E f \in [0 .. n -> Seq(Cells)] : GoesBy(f, n, << >>, step)
  <2> HIDE DEF step, n
  <2>1. << >> \in Seq(Cells)
    OBVIOUS
  <2>2. QED
    BY <1>1, <1>3, <2>1, StepsExist, Zenon
<1>5. PICK f \in [0 .. n -> Seq(Cells)] : GoesBy(f, n, << >>, step)
  BY <1>4
<1>6. \A k \in 1 .. n : k \in 0 .. n /\ k # 0 /\ k - 1 \in 0 .. n
  BY <1>1
<1> HIDE DEF n
<1>7. \A k \in 1 .. n : f[k] = f[k - 1] \o CellsOf(joints, k)
  <2>1. \A k \in 1 .. n : step[k][f[k - 1]] = f[k - 1] \o CellsOf(joints, k)
    BY <1>5, <1>6
  <2> HIDE DEF step
  <2>2. QED
    BY <1>5, <1>6, <2>1 DEF GoesBy
<1> HIDE DEF step
<1>8. 0 \in 0 .. n /\ f[0] = << >>
  <2>1. 0 \in 0 .. n
    BY <1>1
  <2>2. QED
    BY <1>5, <2>1 DEF GoesBy
<1>9. IsRow(f)
  <2>1. \A k \in 0 .. n : k # 0 => k \in 1 .. n
    BY <1>1
  <2>2. QED
    BY <1>5, <1>7, <1>8, <2>1 DEF CellsOf
<1> DEFINE row == CHOOSE g : IsRow(g)
<1>10. RowChannels(joints) = row[n]
  BY Zenon DEF RowChannels, n
<1>11. IsRow(row)
  <2> HIDE DEF IsRow
  <2>1. QED
    BY <1>9
<1> HIDE DEF row
<1>12. \A k \in 0 .. n : row[k] = IF k = 0 THEN << >> ELSE row[k - 1] \o CellsOf(joints, k)
  BY <1>11 DEF CellsOf
<1> HIDE DEF IsRow
<1>13. ChannelTotals(joints)[0] = 0 /\ DeclaredChannels(joints) = ChannelTotals(joints)[n]
  BY TotalsGoBy DEF DeclaredChannels, n
<1>14. \A k \in 0 .. n : Prefix(joints, row, k)
  <2> DEFINE Short == {k \in 0 .. n : ~Prefix(joints, row, k)}
  <2>1. SUFFICES ASSUME Short # {} PROVE FALSE
    OBVIOUS
  <2>2. PICK k \in Short : \A l \in Short : k <= l
    <3>1. Short \subseteq Nat
      OBVIOUS
    <3> HIDE DEF Short
    <3>2. QED
      BY <2>1, <3>1, SmallestIndex
  <2>3. CASE k = 0
    <3>1. row[0] = << >>
      BY <1>8, <1>12
    <3>2. Prefix(joints, row, 0)
      BY <1>13, <3>1 DEF Prefix, IsSequence
    <3>3. QED
      BY <2>2, <2>3, <3>2
  <2>4. CASE k # 0
    <3>1. k \in 0 .. n /\ k \in 1 .. n /\ k - 1 \in 0 .. n /\ ~(k <= k - 1)
      BY <1>1, <2>2, <2>4
    <3>2. Prefix(joints, row, k - 1)
      BY <2>2, <3>1
    <3>3. row[k] = row[k - 1] \o CellsOf(joints, k)
      BY <1>12, <2>4, <3>1
    <3>4. Prefix(joints, row, k)
      BY <3>1, <3>2, <3>3, PrefixGrows DEF n
    <3>5. QED
      BY <2>2, <3>4
  <2>5. QED
    BY <2>3, <2>4
<1>15. Prefix(joints, row, n) /\ DOMAIN row[n] = 1 .. Len(row[n])
  <2>1. n \in 0 .. n
    BY <1>1
  <2>2. Prefix(joints, row, n)
    BY <1>14, <2>1
  <2>3. QED
    BY <2>2, SequenceShape DEF Prefix
<1>16. QED
  BY <1>1, <1>10, <1>13, <1>15 DEF Prefix, ColumnsBefore

-----------------------------------------------------------------------------
(* What a document that is not refused holds.                              *)

LEMMA DocumentHolds ==
  ASSUME NEW d, IsDocument(d), DocumentRefusal(d) = None
  PROVE  /\ d.joints # << >> /\ d.joints[1].parent = 0
         /\ \A j \in DOMAIN d.joints : JointRefusal(d.joints, j) = None
         /\ d.channelCount = DeclaredChannels(d.joints)
         /\ Len(d.values) = d.frameCount * d.channelCount
         /\ FrameTimeIsValid(d.frameTime, d.frameCount)
         /\ IsFiniteTuple(d.values)
<1> DEFINE refused == {j \in DOMAIN d.joints : JointRefusal(d.joints, j) # None}
<1>1. None # "ParseFailed" /\ None # "InvalidFrameTime" /\ None # "NonFiniteValue"
  BY AbsenceAssumption
<1>2. DocumentRefusal(d) =
        IF d.joints = << >> \/ d.joints[1].parent # 0 THEN "ParseFailed"
        ELSE IF refused # {} THEN JointRefusal(d.joints, Min(refused))
        ELSE IF \/ d.channelCount # DeclaredChannels(d.joints)
                \/ Len(d.values) # d.frameCount * d.channelCount
        THEN "ParseFailed"
        ELSE IF ~FrameTimeIsValid(d.frameTime, d.frameCount) THEN "InvalidFrameTime"
        ELSE IF ~IsFiniteTuple(d.values) THEN "NonFiniteValue"
        ELSE None
  BY Zenon DEF DocumentRefusal
<1>3. refused = {}
  <2>1. SUFFICES ASSUME refused # {} PROVE FALSE
    OBVIOUS
  <2>2. refused \subseteq Nat
    BY SequenceShape DEF IsDocument
  <2>3. Min(refused) \in refused
    <3> HIDE DEF refused
    <3>1. QED
      BY <2>1, <2>2, SmallestIsMin
  <2>4. JointRefusal(d.joints, Min(refused)) # None
    BY <2>3
  <2> HIDE DEF refused
  <2>5. QED
    BY <1>1, <1>2, <2>1, <2>4
<1>4. \A j \in DOMAIN d.joints : JointRefusal(d.joints, j) = None
  BY <1>3
<1> HIDE DEF refused
<1>5. QED
  BY <1>1, <1>2, <1>3, <1>4

LEMMA JointHolds ==
  ASSUME NEW joints, NEW j \in DOMAIN joints, JointRefusal(joints, j) = None
  PROVE  /\ j > 1 => joints[j].parent \in 1 .. j - 1
         /\ joints[j].channelOffset = ColumnsBefore(joints, j)
         /\ Range(joints[j].channels) \subseteq Positions \cup Rotations
         /\ IsFiniteTuple(joints[j].offset)
         /\ joints[j].endSite # None => IsFiniteTuple(joints[j].endSite)
BY AbsenceAssumption, Zenon DEF JointRefusal

(* A row of a document, column by column.                                  *)
LEMMA RowHolds ==
  ASSUME NEW d, IsDocument(d), NEW f \in 1 .. d.frameCount, Frame(d, f) # None,
         NEW c \in 1 .. d.channelCount
  PROVE  /\ \E place \in DOMAIN d.values : Frame(d, f)[c] = d.values[place]
         /\ Frame(d, f)[c] \in Numbers /\ Frame(d, f)[c].from = <<"row", f, c>>
<1> DEFINE w == d.channelCount
           before == (f - 1) * w
           row == Frame(d, f)
           values == d.values
<1>1. w \in Nat /\ d.frameCount \in Nat /\ IsSequence(values) /\ f - 1 \in Nat
  BY DEF IsDocument
<1>2. before \in Nat
  <2>1. (f - 1) * w \in Int /\ 0 * w <= (f - 1) * w
    <3> HIDE DEF w
    <3>1. 0 \in Int /\ f - 1 \in Int /\ 0 <= f - 1
      BY <1>1
    <3>2. QED
      BY <1>1, <3>1, Multiples
  <2>2. QED
    BY <1>1, <2>1
<1>3. ~(before + w > Len(values)) /\ row = SubSeq(values, before + 1, before + w)
  BY DEF Frame
<1>4. values \in Seq(Range(values)) /\ Len(values) \in Nat /\ DOMAIN values = 1 .. Len(values)
  BY <1>1, SequenceShape DEF IsSequence
<1>5. \A i \in 1 .. w : \A p : p = (f - 1) * w + i /\ p \in DOMAIN values =>
        values[p] \in Numbers /\ values[p].from = <<"row", f, i>>
  BY DEF IsDocument
<1> HIDE DEF w, row, values
<1>6. \A p : p = before + c /\ p \in DOMAIN values =>
        values[p] \in Numbers /\ values[p].from = <<"row", f, c>>
  BY <1>5 DEF w
<1> HIDE DEF before
<1>7. row[c] = values[before + c]
  <2>1. /\ before + 1 \in 1 .. Len(values) + 1 /\ before + w \in (before + 1) - 1 .. Len(values)
        /\ c \in 1 .. (before + w) - (before + 1) + 1
    <3>1. w \in Nat /\ before \in Nat /\ Len(values) \in Nat /\ before + w <= Len(values)
      BY <1>1, <1>2, <1>3, <1>4
    <3>2. c \in 1 .. w
      BY DEF w
    <3>3. (before + w) - (before + 1) + 1 = w /\ (before + 1) - 1 = before
      BY <3>1
    <3>4. before + 1 \in 1 .. Len(values) + 1 /\ before + w \in before .. Len(values)
      BY <3>1
    <3>5. QED
      BY <3>2, <3>3, <3>4
  <2>2. row = [i \in 1 .. ((before + w) - (before + 1) + 1) |-> values[i + (before + 1) - 1]]
    BY <1>3, <1>4, <2>1, SubSeqProperties
  <2>3. c + (before + 1) - 1 = before + c
    BY <1>2
  <2>4. QED
    BY <2>1, <2>2, <2>3
<1>8. before + c \in DOMAIN values
  BY <1>1, <1>2, <1>3, <1>4 DEF w
<1>9. values[before + c] \in Numbers /\ values[before + c].from = <<"row", f, c>>
  BY <1>6, <1>8
<1>10. QED
  BY <1>7, <1>8, <1>9 DEF row, values

(* The number in a joint's column is one the file wrote for its channel.   *)
LEMMA ColumnHolds ==
  ASSUME NEW d, IsDocument(d), DocumentRefusal(d) = None,
         NEW f \in 1 .. d.frameCount, Frame(d, f) # None,
         NEW j \in DOMAIN d.joints, NEW i \in DOMAIN d.joints[j].channels
  PROVE  LET c == d.joints[j].channelOffset + i
         IN  /\ c \in 1 .. d.channelCount
             /\ Frame(d, f)[c].from \in WrittenFor(d.joints, j, d.joints[j].channels[i], f)
             /\ Frame(d, f)[c].kind # "nonfinite"
<1> DEFINE joints == d.joints
           c == joints[j].channelOffset + i
           row == Frame(d, f)
<1>1. ListsOfChannels(joints)
  BY DEF IsDocument, ListsOfChannels
<1>2. joints[j].channelOffset = ColumnsBefore(joints, j) /\ d.channelCount = DeclaredChannels(joints)
  BY DocumentHolds, JointHolds
<1>3. i \in 1 .. Width(joints, j)
  BY <1>1, CellsAreAList
<1>4. /\ ColumnsBefore(joints, j) \in Nat /\ Width(joints, j) \in Nat /\ d.channelCount \in Nat
      /\ ColumnsBefore(joints, j) + Width(joints, j) <= d.channelCount
  BY <1>1, <1>2, ColumnsFollow DEF IsDocument
<1>5. c \in 1 .. d.channelCount
  BY <1>2, <1>3, <1>4
<1>6. /\ DOMAIN RowChannels(joints) = 1 .. d.channelCount
      /\ RowChannels(joints)[c] = <<j, joints[j].channels[i]>>
  BY <1>1, <1>2, <1>3, RowChannelsHold
<1> HIDE DEF c, row
<1>7. (\E place \in DOMAIN d.values : row[c] = d.values[place]) /\ row[c].from = <<"row", f, c>>
  BY <1>5, RowHolds DEF row
<1>8. row[c].kind # "nonfinite"
  <2>1. IsFiniteTuple(d.values)
    BY DocumentHolds
  <2>2. QED
    BY <1>7, <2>1 DEF IsFiniteTuple
<1>9. row[c].from \in WrittenFor(joints, j, joints[j].channels[i], f)
  BY <1>5, <1>6, <1>7 DEF WrittenFor
<1>10. QED
  BY <1>5, <1>8, <1>9 DEF row, c

LEMMA ChannelHolds ==
  ASSUME NEW d, IsDocument(d), DocumentRefusal(d) = None,
         NEW f \in 1 .. d.frameCount, Frame(d, f) # None,
         NEW j \in DOMAIN d.joints, NEW channel \in Range(d.joints[j].channels)
  PROVE  /\ Column(d.joints[j], Frame(d, f), channel).from \in WrittenFor(d.joints, j, channel, f)
         /\ Column(d.joints[j], Frame(d, f), channel).kind # "nonfinite"
<1> DEFINE channels == d.joints[j].channels
           i == CHOOSE i \in DOMAIN channels : channels[i] = channel
<1>1. i \in DOMAIN channels /\ channels[i] = channel
  BY DEF Range
<1>2. Column(d.joints[j], Frame(d, f), channel) = Frame(d, f)[d.joints[j].channelOffset + i]
  BY DEF Column
<1> HIDE DEF i
<1>3. QED
  BY <1>1, <1>2, ColumnHolds

(* Nothing is written for a channel the joint does not declare.            *)
LEMMA NothingElseIsWritten ==
  ASSUME NEW d, IsDocument(d), NEW f, NEW j \in DOMAIN d.joints, NEW channel,
         channel \notin Range(d.joints[j].channels)
  PROVE  WrittenFor(d.joints, j, channel, f) = {}
<1> DEFINE joints == d.joints
<1>1. ListsOfChannels(joints)
  BY DEF IsDocument, ListsOfChannels
<1>2. SUFFICES ASSUME NEW p \in DOMAIN RowChannels(joints), RowChannels(joints)[p] = <<j, channel>>
               PROVE  FALSE
  BY DEF WrittenFor
<1>3. PICK k \in DOMAIN joints : \E i \in 1 .. Width(joints, k) : p = ColumnsBefore(joints, k) + i
  BY <1>1, RowChannelsHold
<1>4. PICK i \in 1 .. Width(joints, k) : p = ColumnsBefore(joints, k) + i
  BY <1>3
<1>5. RowChannels(joints)[p] = <<k, joints[k].channels[i]>>
  BY <1>1, <1>4, RowChannelsHold
<1>6. k = j /\ joints[k].channels[i] = channel
  BY <1>2, <1>5
<1>7. i \in DOMAIN joints[k].channels
  BY <1>1, CellsAreAList
<1>8. QED
  BY <1>6, <1>7 DEF Range

(* Why an extraction is not refused.                                       *)
LEMMA ExtractionHolds ==
  ASSUME NEW d, IsDocument(d)
  PROVE  ExtractionRefusal(d) = None <=>
           /\ DocumentRefusal(d) = None
           /\ \A j \in DOMAIN d.joints : LayoutRefusal(d.joints[j]) = None
           /\ \A f \in 1 .. d.frameCount : Frame(d, f) # None
           /\ AnimationIsValid(ExtractedClip(d), ExtractedRig(d))
<1> DEFINE refused == {j \in DOMAIN d.joints : LayoutRefusal(d.joints[j]) # None}
           rowless == {f \in 1 .. d.frameCount : Frame(d, f) = None}
<1>1. None # "ParseFailed" /\ None # "FrameWidthMismatch"
  BY AbsenceAssumption
<1>2. ExtractionRefusal(d) =
        IF DocumentRefusal(d) # None THEN DocumentRefusal(d)
        ELSE IF refused # {} THEN LayoutRefusal(d.joints[Min(refused)])
        ELSE IF rowless # {} THEN "FrameWidthMismatch"
        ELSE IF ~AnimationIsValid(ExtractedClip(d), ExtractedRig(d)) THEN "ParseFailed"
        ELSE None
  BY Zenon DEF ExtractionRefusal
<1>3. refused # {} => LayoutRefusal(d.joints[Min(refused)]) # None
  <2>1. SUFFICES ASSUME refused # {} PROVE LayoutRefusal(d.joints[Min(refused)]) # None
    OBVIOUS
  <2>2. refused \subseteq Nat
    BY SequenceShape DEF IsDocument
  <2>3. Min(refused) \in refused
    <3> HIDE DEF refused
    <3>1. QED
      BY <2>1, <2>2, SmallestIsMin
  <2>4. QED
    BY <2>3
<1>4. /\ refused = {} <=> \A j \in DOMAIN d.joints : LayoutRefusal(d.joints[j]) = None
      /\ rowless = {} <=> \A f \in 1 .. d.frameCount : Frame(d, f) # None
  OBVIOUS
<1> HIDE DEF refused, rowless
<1>5. QED
  BY <1>1, <1>2, <1>3, <1>4

-----------------------------------------------------------------------------
(* What a joint's channels must be.                                        *)

(* A set listed by n places has n elements when none is listed twice.      *)
LEMMA ListedOnce ==
  ASSUME NEW n \in Nat, NEW f, DOMAIN f = 1 .. n, NEW T, T = {f[i] : i \in 1 .. n}
  PROVE  /\ IsFiniteSet(T)
         /\ Cardinality(T) = n <=> \A a, b \in 1 .. n : f[a] = f[b] => a = b
<1> DEFINE g == [i \in 1 .. n |-> f[i]]
<1>1. g \in Surjection(1 .. n, T)
  <2>1. g \in [1 .. n -> T] /\ \A x \in T : \E i \in 1 .. n : g[i] = x
    OBVIOUS
  <2> HIDE DEF g
  <2>2. QED
    BY <2>1 DEF Surjection
<1>2. IsFiniteSet(1 .. n) /\ Cardinality(1 .. n) = n
  <2>1. IsFiniteSet(1 .. n)
    BY FS_Interval
  <2>2. Cardinality(1 .. n) = IF 1 > n THEN 0 ELSE n - 1 + 1
    BY FS_Interval
  <2>3. QED
    BY <2>1, <2>2
<1>3. IsFiniteSet(T) /\ (Cardinality(T) = Cardinality(1 .. n) <=> g \in Injection(1 .. n, T))
  <2> HIDE DEF g
  <2>1. QED
    BY <1>1, <1>2, FS_Surjection, Zenon
<1>4. g \in Injection(1 .. n, T) <=> \A a, b \in 1 .. n : f[a] = f[b] => a = b
  <2>1. g \in [1 .. n -> T]
    OBVIOUS
  <2>2. \A a \in 1 .. n : g[a] = f[a]
    OBVIOUS
  <2> HIDE DEF g
  <2>3. QED
    BY <2>1, <2>2 DEF Injection, IsInjective
<1> HIDE DEF g
<1>5. QED
  BY <1>2, <1>3, <1>4

(* The rotations among a joint's channels, by the places they stand at.    *)
Turns(joint) == {i \in DOMAIN joint.channels : joint.channels[i] \in Rotations}

LEMMA RotationsListed ==
  ASSUME NEW joint, IsSequence(joint.channels)
  PROVE  \E m \in Nat : \E at \in [1 .. m -> Turns(joint)] :
           /\ m = Len(RotationChannels(joint)) /\ DOMAIN RotationChannels(joint) = 1 .. m
           /\ RotationChannels(joint) = << >> <=> m = 0
           /\ \A k \in 1 .. m : RotationChannels(joint)[k] = joint.channels[at[k]]
           /\ \A i \in Turns(joint) : \E k \in 1 .. m : at[k] = i
           /\ \A k, l \in 1 .. m : k # l => at[k] # at[l]
<1> DEFINE rotations == RotationChannels(joint)
           m == Len(rotations)
<1>1. Turns(joint) = Kept(joint.channels, Rotations) /\ Turns(joint) \subseteq Int
  BY SequenceShape DEF Turns, Kept
<1>2. PICK at \in [1 .. m -> Turns(joint)] :
        /\ m \in Nat /\ IsSequence(rotations) /\ DOMAIN rotations = 1 .. m
        /\ \A k \in 1 .. m : rotations[k] = joint.channels[at[k]]
        /\ \A i \in Turns(joint) : \E k \in 1 .. m : at[k] = i
        /\ \A k, l \in 1 .. m : k < l => at[k] < at[l]
  BY <1>1, OnlyKeeps DEF RotationChannels
<1> HIDE DEF m, rotations
<1>3. rotations = << >> <=> m = 0
  BY <1>2 DEF m, IsSequence
<1>4. \A k, l \in 1 .. m : k # l => at[k] # at[l]
  <2> SUFFICES ASSUME NEW k \in 1 .. m, NEW l \in 1 .. m, k # l PROVE at[k] # at[l]
    OBVIOUS
  <2>1. k < l \/ l < k
    BY <1>2
  <2>2. at[k] \in Int /\ at[l] \in Int /\ (at[k] < at[l] \/ at[l] < at[k])
    BY <1>1, <1>2, <2>1
  <2>3. QED
    BY <2>2
<1>5. QED
  BY <1>2, <1>3, <1>4 DEF rotations, m

Distinct(channels) == \A i, k \in DOMAIN channels : channels[i] = channels[k] => i = k

TurnsByNoneOrThree(joint) == Cardinality(Range(joint.channels) \cap Rotations) \in {0, 3}

LEMMA LayoutHolds ==
  ASSUME NEW joint, IsSequence(joint.channels), Range(joint.channels) \subseteq Positions \cup Rotations
  PROVE  /\ LayoutRefusal(joint) = None <=> Distinct(joint.channels) /\ TurnsByNoneOrThree(joint)
         /\ LayoutRefusal(joint) = None /\ RotationChannels(joint) # << >> =>
              /\ DeclaredOrder(joint) \in AngleOrders /\ Len(RotationChannels(joint)) = 3
              /\ \A k \in 1 .. 3 : /\ RotationChannels(joint)[k] \in Range(joint.channels)
                                   /\ RotationChannels(joint)[k] = <<"r", DeclaredOrder(joint)[k]>>
<1> DEFINE channels == joint.channels
           rotations == RotationChannels(joint)
           turned == Range(channels) \cap Rotations
           order == DeclaredOrder(joint)
<1>1a. PICK m \in Nat : \E at \in [1 .. m -> Turns(joint)] :
        /\ m = Len(rotations) /\ DOMAIN rotations = 1 .. m /\ (rotations = << >> <=> m = 0)
        /\ \A k \in 1 .. m : rotations[k] = channels[at[k]]
        /\ \A i \in Turns(joint) : \E k \in 1 .. m : at[k] = i
        /\ \A k, l \in 1 .. m : k # l => at[k] # at[l]
  BY RotationsListed
<1>1. PICK at \in [1 .. m -> Turns(joint)] :
        /\ m = Len(rotations) /\ DOMAIN rotations = 1 .. m /\ (rotations = << >> <=> m = 0)
        /\ \A k \in 1 .. m : rotations[k] = channels[at[k]]
        /\ \A i \in Turns(joint) : \E k \in 1 .. m : at[k] = i
        /\ \A k, l \in 1 .. m : k # l => at[k] # at[l]
  BY <1>1a
<1>2. \A k \in 1 .. m : at[k] \in DOMAIN channels /\ rotations[k] \in turned
  BY <1>1 DEF Turns, Range
<1>3. turned = {rotations[k] : k \in 1 .. m}
  <2>1. ASSUME NEW x \in turned PROVE \E k \in 1 .. m : x = rotations[k]
    <3>1. PICK i \in DOMAIN channels : channels[i] = x
      BY DEF Range
    <3>2. i \in Turns(joint)
      BY <3>1 DEF Turns
    <3>3. QED
      BY <1>1, <3>1, <3>2
  <2> HIDE DEF turned, rotations
  <2>2. QED
    BY <1>2, <2>1
<1>4. order = [k \in 1 .. m |-> rotations[k][2]] /\ DOMAIN order = 1 .. m
  BY <1>1 DEF DeclaredOrder
<1>5. \A k \in 1 .. m : /\ order[k] \in {"X", "Y", "Z"} /\ rotations[k] = <<"r", order[k]>>
  BY <1>2, <1>4 DEF Rotations, Axes
<1>6. LayoutRefusal(joint) = None <=>
        /\ \A i, k \in DOMAIN channels : channels[i] = channels[k] /\ channels[i] \in Positions => i = k
        /\ rotations # << >> => order \in AngleOrders
  <2>1. None # "ParseFailed" /\ None # "InvalidRotationOrder"
    BY AbsenceAssumption
  <2>2. QED
    BY <2>1, Zenon DEF LayoutRefusal
<1>7. IsFiniteSet(turned) /\ (Cardinality(turned) = m <=> \A a, b \in 1 .. m : rotations[a] = rotations[b] => a = b)
  <2> HIDE DEF rotations, turned
  <2>1. QED
    BY <1>1, <1>3, ListedOnce
<1>8. \A a, b \in 1 .. m : rotations[a] = rotations[b] <=> order[a] = order[b]
  <2> HIDE DEF rotations, order
  <2>1. QED
    BY <1>4, <1>5
<1> DEFINE Once == \A a, b \in 1 .. m : rotations[a] = rotations[b] => a = b
<1>9. order \in AngleOrders <=> m = 3 /\ Once
  <2>1. Cardinality({order[k] : k \in 1 .. m}) = m <=> Once
    <3> HIDE DEF order, rotations
    <3> DEFINE letters == {order[k] : k \in 1 .. m}
    <3>1. Cardinality(letters) = m <=> \A a, b \in 1 .. m : order[a] = order[b] => a = b
      <4>1. letters = {order[k] : k \in 1 .. m}
        OBVIOUS
      <4>2. DOMAIN order = 1 .. m
        BY <1>4
      <4> HIDE DEF letters
      <4>3. IsFiniteSet(letters) /\ (Cardinality(letters) = m <=> \A a, b \in 1 .. m : order[a] = order[b] => a = b)
        BY <4>1, <4>2, ListedOnce
      <4>4. QED
        BY <4>3
    <3>2. QED
      BY <1>8, <3>1
  <2> HIDE DEF order, Once
  <2>2. order \in AngleOrders <=>
          order \in [1 .. 3 -> {"X", "Y", "Z"}] /\ Cardinality({order[k] : k \in 1 .. 3}) = 3
    BY DEF AngleOrders
  <2>3. order \in [1 .. 3 -> {"X", "Y", "Z"}] <=> m = 3
    <3>1. ASSUME order \in [1 .. 3 -> {"X", "Y", "Z"}] PROVE m = 3
      <4>1. 1 .. m = 1 .. 3
        BY <1>4, <3>1
      <4>2. \A k \in Int : k \in 1 .. m <=> k \in 1 .. 3
        BY <4>1
      <4>3. 3 \in 1 .. m /\ ~(4 \in 1 .. m)
        BY <4>2
      <4>4. QED
        BY <4>3
    <3>2. ASSUME m = 3 PROVE order \in [1 .. 3 -> {"X", "Y", "Z"}]
      BY <1>4, <1>5, <3>2
    <3>3. QED
      BY <3>1, <3>2
  <2>4. QED
    BY <2>1, <2>2, <2>3
<1>10. Distinct(channels) <=>
         /\ \A i, k \in DOMAIN channels : channels[i] = channels[k] /\ channels[i] \in Positions => i = k
         /\ Once
  <2>1. ASSUME Distinct(channels) PROVE Once
    BY <1>1, <1>2, <2>1 DEF Distinct
  <2>2. ASSUME Once, NEW i \in DOMAIN channels, NEW k \in DOMAIN channels, channels[i] = channels[k],
               channels[i] \notin Positions
        PROVE  i = k
    <3>1. channels[i] \in Rotations
      BY <2>2 DEF Range
    <3>2. i \in Turns(joint) /\ k \in Turns(joint)
      BY <2>2, <3>1 DEF Turns
    <3>3. PICK a \in 1 .. m : at[a] = i
      BY <1>1, <3>2
    <3>4. PICK b \in 1 .. m : at[b] = k
      BY <1>1, <3>2
    <3>5. rotations[a] = rotations[b]
      BY <1>1, <2>2, <3>3, <3>4
    <3>6. QED
      BY <2>2, <3>3, <3>4, <3>5
  <2> HIDE DEF Once
  <2>3. QED
    BY <2>1, <2>2 DEF Distinct
<1> HIDE DEF order, rotations, turned
<1>11. ASSUME Distinct(channels)
       PROVE  TurnsByNoneOrThree(joint) <=> (rotations # << >> => order \in AngleOrders)
  <2>1. Once /\ Cardinality(turned) = m
    BY <1>7, <1>10, <1>11
  <2>2. TurnsByNoneOrThree(joint) <=> m \in {0, 3}
    BY <2>1 DEF TurnsByNoneOrThree, turned
  <2>3. QED
    BY <1>1, <1>9, <2>1, <2>2
<1>12. LayoutRefusal(joint) = None => Distinct(channels)
  <2>1. m = 0 => Once
    OBVIOUS
  <2>2. QED
    BY <1>1, <1>6, <1>9, <1>10, <2>1
<1>13. ASSUME LayoutRefusal(joint) = None, rotations # << >>
       PROVE  /\ order \in AngleOrders /\ Len(rotations) = 3
              /\ \A k \in 1 .. 3 : rotations[k] \in Range(channels) /\ rotations[k] = <<"r", order[k]>>
  <2>1. m = 3 /\ order \in AngleOrders
    BY <1>6, <1>9, <1>13
  <2>2. QED
    BY <1>1, <1>2, <1>5, <2>1 DEF turned
<1> HIDE DEF Once
<1>14. LayoutRefusal(joint) = None <=> Distinct(channels) /\ TurnsByNoneOrThree(joint)
  BY <1>6, <1>10, <1>11, <1>12
<1>15. QED
  BY <1>13, <1>14 DEF order, rotations

-----------------------------------------------------------------------------
(* The clip a document becomes.                                            *)

Moves(joint) == Range(joint.channels) \cap Positions # {}

WithTranslations(track, list) == [track EXCEPT !.translations = list]
WithAngles(track, list) == [track EXCEPT !.eulerAngles = list]
WithOrder(track, order) == [track EXCEPT !.order = order]

LEMMA TrackHolds ==
  ASSUME NEW d, NEW joint
  PROVE  LET track == ExtractedTrack(d, joint)
             turned == RotationChannels(joint) # << >>
         IN  /\ track.translations =
                  IF Moves(joint) THEN [f \in 1 .. d.frameCount |-> Translation(joint, Frame(d, f))]
                  ELSE << >>
             /\ track.eulerAngles =
                  IF turned THEN [f \in 1 .. d.frameCount |-> Angles(joint, Frame(d, f))] ELSE << >>
             /\ track.order = IF turned THEN DeclaredOrder(joint) ELSE <<"X", "Y", "Z">>
             /\ track.rotations = << >> /\ track.unit = "degrees"
<1> DEFINE frames == [f \in 1 .. d.frameCount |-> f]
           turned == RotationChannels(joint) # << >>
           moves == IF Moves(joint) THEN [f \in DOMAIN frames |-> Translation(joint, Frame(d, f))]
                    ELSE << >>
           turns == IF turned THEN [f \in DOMAIN frames |-> Angles(joint, Frame(d, f))] ELSE << >>
           order == IF turned THEN DeclaredOrder(joint) ELSE NoTrack.order
<1>1. ExtractedTrack(d, joint) =
        [NoTrack EXCEPT !.translations = moves, !.eulerAngles = turns,
                        !.order = IF turned THEN DeclaredOrder(joint) ELSE @]
  BY Zenon DEF ExtractedTrack, Moves
<1> HIDE DEF moves, turns, order
<1>2. ExtractedTrack(d, joint) = [translations |-> moves, eulerAngles |-> turns, rotations |-> << >>,
                                  order |-> order, unit |-> "degrees"]
  BY <1>1 DEF NoTrack, order
<1>3. DOMAIN frames = 1 .. d.frameCount
  OBVIOUS
<1> HIDE DEF frames
<1>4. QED
  BY <1>2, <1>3 DEF moves, turns, order, NoTrack

(* Every number of the clip is the one written for it.                     *)
NumbersStand(d, tracks) ==
  \A j \in DOMAIN d.joints :
    LET joints == d.joints
        track  == tracks[j]
    IN  /\ \A f \in DOMAIN track.translations, i \in 1 .. 3 :
             LET written == WrittenFor(joints, j, Position(<<"X", "Y", "Z">>[i]), f)
             IN  IF written = {} THEN track.translations[f][i] = joints[j].offset[i]
                 ELSE track.translations[f][i].from \in written
        /\ \A f \in DOMAIN track.eulerAngles, i \in 1 .. 3 :
             track.eulerAngles[f][i].from \in
               WrittenFor(joints, j, <<"r", track.order[i]>>, f)
        /\ \A f \in 1 .. d.frameCount, i \in DOMAIN joints[j].channels :
             ChannelValue(d, f, j, i).from \in
               WrittenFor(joints, j, joints[j].channels[i], f)

LEMMA NumbersAreTheFiles ==
  ASSUME NEW d, IsDocument(d), ExtractionRefusal(d) = None
  PROVE  NumbersStand(d, ExtractedClip(d).tracks)
<1>1. /\ DocumentRefusal(d) = None
      /\ \A j \in DOMAIN d.joints : LayoutRefusal(d.joints[j]) = None
      /\ \A f \in 1 .. d.frameCount : Frame(d, f) # None
  BY ExtractionHolds
<1> SUFFICES ASSUME NEW j \in DOMAIN d.joints
             PROVE  LET joints == d.joints
                        track  == ExtractedClip(d).tracks[j]
                    IN  /\ \A f \in DOMAIN track.translations, i \in 1 .. 3 :
                             LET written == WrittenFor(joints, j, Position(<<"X", "Y", "Z">>[i]), f)
                             IN  IF written = {} THEN track.translations[f][i] = joints[j].offset[i]
                                 ELSE track.translations[f][i].from \in written
                        /\ \A f \in DOMAIN track.eulerAngles, i \in 1 .. 3 :
                             track.eulerAngles[f][i].from \in
                               WrittenFor(joints, j, <<"r", track.order[i]>>, f)
                        /\ \A f \in 1 .. d.frameCount, i \in DOMAIN joints[j].channels :
                             ChannelValue(d, f, j, i).from \in
                               WrittenFor(joints, j, joints[j].channels[i], f)
  BY DEF NumbersStand
<1> DEFINE joint == d.joints[j]
           track == ExtractedClip(d).tracks[j]
           turned == RotationChannels(joint) # << >>
<1>2. track = ExtractedTrack(d, joint)
  BY DEF ExtractedClip
<1>3. /\ track.translations =
           IF Moves(joint) THEN [f \in 1 .. d.frameCount |-> Translation(joint, Frame(d, f))]
           ELSE << >>
      /\ track.eulerAngles =
           IF turned THEN [f \in 1 .. d.frameCount |-> Angles(joint, Frame(d, f))] ELSE << >>
      /\ turned => track.order = DeclaredOrder(joint)
  BY <1>2, TrackHolds
<1> HIDE DEF track
<1>4. ASSUME NEW f \in DOMAIN track.translations, NEW i \in 1 .. 3
      PROVE  LET written == WrittenFor(d.joints, j, Position(<<"X", "Y", "Z">>[i]), f)
             IN  IF written = {} THEN track.translations[f][i] = joint.offset[i]
                 ELSE track.translations[f][i].from \in written
  <2> DEFINE channel == Position(<<"X", "Y", "Z">>[i])
             written == WrittenFor(d.joints, j, channel, f)
  <2>1. f \in 1 .. d.frameCount /\ track.translations[f] = Translation(joint, Frame(d, f))
    BY <1>3
  <2>2. track.translations[f][i] = IF channel \in Range(joint.channels)
                                   THEN Column(joint, Frame(d, f), channel) ELSE joint.offset[i]
    BY <2>1 DEF Translation
  <2> HIDE DEF channel
  <2>3. CASE channel \in Range(joint.channels)
    <3>1. Column(joint, Frame(d, f), channel).from \in written
      BY <1>1, <2>1, <2>3, ChannelHolds
    <3>2. QED
      BY <2>2, <2>3, <3>1 DEF channel
  <2>4. CASE channel \notin Range(joint.channels)
    <3>1. written = {}
      BY <2>4, NothingElseIsWritten
    <3>2. QED
      BY <2>2, <2>4, <3>1 DEF channel
  <2>5. QED
    BY <2>3, <2>4
<1>5. ASSUME NEW f \in DOMAIN track.eulerAngles, NEW i \in 1 .. 3
      PROVE  track.eulerAngles[f][i].from \in WrittenFor(d.joints, j, <<"r", track.order[i]>>, f)
  <2>1. turned /\ f \in 1 .. d.frameCount /\ track.eulerAngles[f] = Angles(joint, Frame(d, f))
    BY <1>3
  <2> DEFINE channel == RotationChannels(joint)[i]
  <2>2. track.eulerAngles[f][i] = Column(joint, Frame(d, f), channel)
    BY <2>1 DEF Angles
  <2>3. channel \in Range(joint.channels) /\ channel = <<"r", track.order[i]>>
    <3>1. IsSequence(joint.channels)
      BY DEF IsDocument
    <3>2. Range(joint.channels) \subseteq Positions \cup Rotations
      BY <1>1, DocumentHolds, JointHolds
    <3>3. LayoutRefusal(joint) = None
      BY <1>1
    <3>4. channel \in Range(joint.channels) /\ channel = <<"r", DeclaredOrder(joint)[i]>>
      BY <2>1, <3>1, <3>2, <3>3, LayoutHolds
    <3>5. QED
      BY <1>3, <2>1, <3>4
  <2> HIDE DEF channel
  <2>4. Column(joint, Frame(d, f), channel).from \in WrittenFor(d.joints, j, channel, f)
    BY <1>1, <2>1, <2>3, ChannelHolds
  <2>5. QED
    BY <2>2, <2>3, <2>4
<1>6. ASSUME NEW f \in 1 .. d.frameCount, NEW i \in DOMAIN joint.channels
      PROVE  ChannelValue(d, f, j, i).from \in WrittenFor(d.joints, j, joint.channels[i], f)
  <2> DEFINE c == joint.channelOffset + i
  <2>1. Frame(d, f) # None
    BY <1>1
  <2>2. c \in 1 .. d.channelCount /\ Frame(d, f)[c].from \in WrittenFor(d.joints, j, joint.channels[i], f)
    BY <1>1, <2>1, ColumnHolds
  <2>3. ~(c > d.channelCount)
    <3>1. d.channelCount \in Nat
      BY DEF IsDocument
    <3> HIDE DEF c
    <3>2. QED
      BY <2>2, <3>1
  <2>4. ChannelValue(d, f, j, i) = Frame(d, f)[c]
    BY <2>1, <2>3 DEF ChannelValue
  <2>5. QED
    BY <2>2, <2>4
<1>7. QED
  BY <1>4, <1>5, <1>6 DEF track

(* A document read from a file states every joint's name and offset.       *)
Stated(d) == \A j \in DOMAIN d.joints : d.joints[j].name # "" /\ DOMAIN d.joints[j].offset = 1 .. 3

LEMMA RigHolds ==
  ASSUME NEW d, IsDocument(d)
  PROVE  /\ IsSequence(ExtractedRig(d)) /\ Len(ExtractedRig(d)) = Len(d.joints)
         /\ DOMAIN ExtractedRig(d) = DOMAIN d.joints
         /\ \A j \in DOMAIN d.joints :
              /\ ExtractedRig(d)[j].name = d.joints[j].name
              /\ ExtractedRig(d)[j].parent = d.joints[j].parent
              /\ ExtractedRig(d)[j].restTranslation = d.joints[j].offset
              /\ ExtractedRig(d)[j].restRotation = None
              /\ ExtractedRig(d)[j].tipOffset = d.joints[j].endSite
              /\ ChildJoints(ExtractedRig(d), j) = ChildJoints(d.joints, j)
<1> DEFINE n == Len(d.joints)
           rig == ExtractedRig(d)
<1>1. n \in Nat /\ DOMAIN d.joints = 1 .. n
  BY SequenceShape DEF IsDocument
<1>2. rig = [j \in DOMAIN d.joints |->
               [name |-> d.joints[j].name, parent |-> d.joints[j].parent,
                restTranslation |-> d.joints[j].offset, restRotation |-> None,
                tipOffset |-> d.joints[j].endSite]]
  BY Zenon DEF ExtractedRig
<1> HIDE DEF n, rig
<1>3. rig = [j \in 1 .. n |-> rig[j]] /\ DOMAIN rig = DOMAIN d.joints
  BY <1>1, <1>2
<1>4. IsSequence(rig) /\ Len(rig) = n
  BY <1>1, <1>3, ListIsASequence
<1>5. ASSUME NEW j \in DOMAIN d.joints
      PROVE  /\ rig[j].name = d.joints[j].name /\ rig[j].parent = d.joints[j].parent
             /\ rig[j].restTranslation = d.joints[j].offset /\ rig[j].restRotation = None
             /\ rig[j].tipOffset = d.joints[j].endSite
  <2> DEFINE joint == d.joints[j]
  <2>1. rig[j] = [name |-> joint.name, parent |-> joint.parent, restTranslation |-> joint.offset,
                  restRotation |-> None, tipOffset |-> joint.endSite]
    BY <1>2
  <2> HIDE DEF joint
  <2>2. QED
    BY <2>1 DEF joint
<1>6. \A j \in DOMAIN d.joints : rig[j].parent = d.joints[j].parent
  BY <1>5
<1>7. \A j \in DOMAIN d.joints : ChildJoints(rig, j) = ChildJoints(d.joints, j)
  BY <1>3, <1>6 DEF ChildJoints
<1>8. QED
  BY <1>3, <1>4, <1>5, <1>7 DEF n, rig

LEMMA TrackIsSound ==
  ASSUME NEW d, IsDocument(d), Stated(d), DocumentRefusal(d) = None,
         \A f \in 1 .. d.frameCount : Frame(d, f) # None,
         NEW j \in DOMAIN d.joints, LayoutRefusal(d.joints[j]) = None
  PROVE  TrackIsValid(ExtractedTrack(d, d.joints[j]), d.frameCount)
<1> DEFINE joint == d.joints[j]
           track == ExtractedTrack(d, joint)
           turned == RotationChannels(joint) # << >>
<1>1. /\ track.translations =
           IF Moves(joint) THEN [f \in 1 .. d.frameCount |-> Translation(joint, Frame(d, f))]
           ELSE << >>
      /\ track.eulerAngles =
           IF turned THEN [f \in 1 .. d.frameCount |-> Angles(joint, Frame(d, f))] ELSE << >>
      /\ track.order = IF turned THEN DeclaredOrder(joint) ELSE <<"X", "Y", "Z">>
      /\ track.rotations = << >> /\ track.unit = "degrees"
  BY TrackHolds
<1>2. d.frameCount \in Nat /\ IsSequence(joint.channels)
  BY DEF IsDocument
<1>3. Range(joint.channels) \subseteq Positions \cup Rotations /\ IsFiniteTuple(joint.offset)
  BY DocumentHolds, JointHolds
<1>4. DOMAIN joint.offset = 1 .. 3
  BY DEF Stated
<1> HIDE DEF track
<1>5. track.order \in AngleOrders
  <2>1. CASE turned
    BY <1>1, <1>2, <1>3, <2>1, LayoutHolds
  <2>2. CASE ~turned
    <3> DEFINE xyz == <<"X", "Y", "Z">>
               letters == {xyz[i] : i \in 1 .. 3}
    <3>1. xyz \in [1 .. 3 -> {"X", "Y", "Z"}] /\ DOMAIN xyz = 1 .. 3
      OBVIOUS
    <3>2. \A a, b \in 1 .. 3 : xyz[a] = xyz[b] => a = b
      OBVIOUS
    <3>3. letters = {xyz[i] : i \in 1 .. 3}
      OBVIOUS
    <3> HIDE DEF xyz, letters
    <3>4. Cardinality(letters) = 3
      <4>1. PICK n \in Nat : n = 3
        OBVIOUS
      <4>2. DOMAIN xyz = 1 .. n /\ letters = {xyz[i] : i \in 1 .. n}
        BY <3>1, <3>3, <4>1
      <4>3. Cardinality(letters) = n <=> \A a, b \in 1 .. n : xyz[a] = xyz[b] => a = b
        BY <4>2, ListedOnce
      <4>4. QED
        BY <3>2, <4>1, <4>3
    <3>5. xyz \in AngleOrders
      BY <3>1, <3>3, <3>4 DEF AngleOrders
    <3>6. QED
      BY <1>1, <2>2, <3>5 DEF xyz
  <2>3. QED
    BY <2>1, <2>2
<1>6. /\ Len(track.translations) \in {0, d.frameCount}
      /\ \A f \in DOMAIN track.translations : IsFiniteTuple(track.translations[f])
  <2>1. CASE Moves(joint)
    <3> DEFINE list == [f \in 1 .. d.frameCount |-> Translation(joint, Frame(d, f))]
    <3>1. list = [f \in 1 .. d.frameCount |-> list[f]]
      OBVIOUS
    <3>2. ASSUME NEW f \in 1 .. d.frameCount PROVE IsFiniteTuple(list[f])
      <4> DEFINE row == Frame(d, f)
                 letter(i) == <<"X", "Y", "Z">>[i]
      <4>1. list[f] = Translation(joint, row)
        OBVIOUS
      <4>2. ASSUME NEW i \in 1 .. 3 PROVE Translation(joint, row)[i].kind # "nonfinite"
        <5> DEFINE channel == Position(letter(i))
        <5>1. Translation(joint, row)[i] = IF channel \in Range(joint.channels)
                                           THEN Column(joint, row, channel) ELSE joint.offset[i]
          BY DEF Translation
        <5>2. joint.offset[i].kind # "nonfinite"
          BY <1>3, <1>4 DEF IsFiniteTuple
        <5>3. channel \in Range(joint.channels) => Column(joint, row, channel).kind # "nonfinite"
          <6> HIDE DEF channel
          <6>1. QED
            BY ChannelHolds
        <5> HIDE DEF channel, row
        <5>4. QED
          BY <5>1, <5>2, <5>3
      <4>3. DOMAIN Translation(joint, row) = 1 .. 3
        BY DEF Translation
      <4> HIDE DEF list, row
      <4>4. QED
        BY <4>1, <4>2, <4>3 DEF IsFiniteTuple
    <3> HIDE DEF list
    <3>3. Len(list) = d.frameCount /\ DOMAIN list = 1 .. d.frameCount
      BY <1>2, <3>1, ListIsASequence
    <3>4. track.translations = list
      BY <1>1, <2>1 DEF list
    <3>5. QED
      BY <3>2, <3>3, <3>4
  <2>2. CASE ~Moves(joint)
    BY <1>1, <2>2
  <2>3. QED
    BY <2>1, <2>2
<1>7. /\ Len(track.eulerAngles) \in {0, d.frameCount}
      /\ \A f \in DOMAIN track.eulerAngles : IsFiniteTuple(track.eulerAngles[f])
  <2>1. CASE turned
    <3> DEFINE list == [f \in 1 .. d.frameCount |-> Angles(joint, Frame(d, f))]
    <3>1. list = [f \in 1 .. d.frameCount |-> list[f]]
      OBVIOUS
    <3>2. ASSUME NEW f \in 1 .. d.frameCount PROVE IsFiniteTuple(list[f])
      <4>1. list[f] = Angles(joint, Frame(d, f))
        OBVIOUS
      <4>2. ASSUME NEW i \in 1 .. 3 PROVE Angles(joint, Frame(d, f))[i].kind # "nonfinite"
        <5> DEFINE channel == RotationChannels(joint)[i]
        <5>1. channel \in Range(joint.channels)
          BY <1>2, <1>3, <2>1, LayoutHolds
        <5>2. Angles(joint, Frame(d, f))[i] = Column(joint, Frame(d, f), channel)
          BY DEF Angles
        <5> HIDE DEF channel
        <5>3. QED
          BY <5>1, <5>2, ChannelHolds
      <4>3. DOMAIN Angles(joint, Frame(d, f)) = 1 .. 3
        BY DEF Angles
      <4> HIDE DEF list
      <4>4. QED
        BY <4>1, <4>2, <4>3 DEF IsFiniteTuple
    <3> HIDE DEF list
    <3>3. Len(list) = d.frameCount /\ DOMAIN list = 1 .. d.frameCount
      BY <1>2, <3>1, ListIsASequence
    <3>4. track.eulerAngles = list
      BY <1>1, <2>1 DEF list
    <3>5. QED
      BY <3>2, <3>3, <3>4
  <2>2. CASE ~turned
    BY <1>1, <2>2
  <2>3. QED
    BY <2>1, <2>2
<1>8. Len(track.rotations) = 0 /\ DOMAIN track.rotations = {}
  BY <1>1
<1> HIDE DEF joint
<1>9. QED
  BY <1>1, <1>5, <1>6, <1>7, <1>8 DEF TrackIsValid, AngleUnits, track, joint

(* A document read from a file is extracted, but for these reasons.        *)
LEMMA WhatIsExtracted ==
  ASSUME NEW d, IsDocument(d), Stated(d), DocumentRefusal(d) = None,
         \A f \in 1 .. d.frameCount : Frame(d, f) # None
  PROVE  ExtractionRefusal(d) = None <=>
           \A j \in DOMAIN d.joints :
             /\ Distinct(d.joints[j].channels) /\ TurnsByNoneOrThree(d.joints[j])
             /\ d.joints[j].endSite # None => ChildJoints(d.joints, j) = {}
<1> DEFINE rig == ExtractedRig(d)
           clip == ExtractedClip(d)
           n == Len(d.joints)
           TipsEndChains == \A j \in DOMAIN d.joints :
                              d.joints[j].endSite # None => ChildJoints(d.joints, j) = {}
           LaidOut == \A j \in DOMAIN d.joints : LayoutRefusal(d.joints[j]) = None
<1>1. n \in Nat /\ DOMAIN d.joints = 1 .. n
  BY SequenceShape DEF IsDocument
<1>2. /\ IsSequence(rig) /\ Len(rig) = n /\ DOMAIN rig = DOMAIN d.joints
      /\ \A j \in DOMAIN d.joints :
           /\ rig[j].name = d.joints[j].name /\ rig[j].parent = d.joints[j].parent
           /\ rig[j].restTranslation = d.joints[j].offset /\ rig[j].restRotation = None
           /\ rig[j].tipOffset = d.joints[j].endSite
           /\ ChildJoints(rig, j) = ChildJoints(d.joints, j)
  BY RigHolds
<1>3. /\ clip.frameCount = d.frameCount /\ clip.frameTime = d.frameTime /\ clip.startTime = 0
      /\ clip.tracks = [j \in DOMAIN d.joints |-> ExtractedTrack(d, d.joints[j])]
  BY DEF ExtractedClip
<1>4. /\ d.joints # << >> /\ d.joints[1].parent = 0
      /\ \A j \in DOMAIN d.joints : JointRefusal(d.joints, j) = None
      /\ FrameTimeIsValid(d.frameTime, d.frameCount)
  BY DocumentHolds
<1> HIDE DEF rig, clip, n
<1>5. SkeletonIsValid(rig) <=> TipsEndChains
  <2>1. n # 0
    <3>1. n = 0 => d.joints = << >>
      BY SequenceShape DEF IsDocument, n
    <3>2. QED
      BY <1>4, <3>1
  <2>2. rig # << >> /\ rig[1].parent = 0
    <3>1. 1 \in DOMAIN d.joints
      BY <1>1, <2>1
    <3>2. rig[1].parent = d.joints[1].parent
      BY <1>2, <3>1
    <3>3. rig # << >>
      BY <1>2, <3>1
    <3>4. QED
      BY <1>4, <3>2, <3>3
  <2>3. ASSUME NEW j \in DOMAIN d.joints PROVE JointIsValid(rig, j)
    <3>1. /\ rig[j].name = d.joints[j].name /\ rig[j].parent = d.joints[j].parent
          /\ rig[j].restTranslation = d.joints[j].offset /\ rig[j].restRotation = None
          /\ rig[j].tipOffset = d.joints[j].endSite
      BY <1>2
    <3>2. /\ j > 1 => d.joints[j].parent \in 1 .. j - 1
          /\ IsFiniteTuple(d.joints[j].offset)
          /\ d.joints[j].endSite # None => IsFiniteTuple(d.joints[j].endSite)
      BY <1>4, JointHolds
    <3>3. d.joints[j].name # ""
      BY DEF Stated
    <3>4. QED
      BY <3>1, <3>2, <3>3 DEF JointIsValid
  <2>4. \A j \in DOMAIN d.joints : rig[j].tipOffset = d.joints[j].endSite
    BY <1>2
  <2> HIDE DEF TipsEndChains
  <2>5. SkeletonIsValid(rig) <=>
          \A j \in DOMAIN d.joints : rig[j].tipOffset # None => ChildJoints(rig, j) = {}
    BY <1>2, <2>2, <2>3 DEF SkeletonIsValid
  <2>6. QED
    BY <1>2, <2>4, <2>5 DEF TipsEndChains
<1>6. ASSUME LaidOut PROVE AnimationIsValid(clip, rig) <=> SkeletonIsValid(rig)
  <2>1. Len(clip.tracks) = n /\ DOMAIN clip.tracks = 1 .. n
    <3> DEFINE tracks == clip.tracks
    <3>1. tracks = [j \in 1 .. n |-> tracks[j]]
      BY <1>1, <1>3
    <3> HIDE DEF tracks
    <3>2. Len(tracks) = n /\ DOMAIN tracks = 1 .. n
      BY <1>1, <3>1, ListIsASequence
    <3>3. QED
      BY <3>2 DEF tracks
  <2>2. \A j \in DOMAIN clip.tracks : TrackIsValid(clip.tracks[j], clip.frameCount)
    <3> SUFFICES ASSUME NEW j \in DOMAIN d.joints
                 PROVE  TrackIsValid(ExtractedTrack(d, d.joints[j]), d.frameCount)
      BY <1>1, <1>3, <2>1
    <3>1. QED
      BY <1>6, TrackIsSound
  <2>3. IsFinite(clip.startTime)
    BY <1>3, TimeAssumption DEF IsFinite, Time
  <2>4. QED
    BY <1>2, <1>3, <1>4, <2>1, <2>2, <2>3 DEF AnimationIsValid
<1>7. LaidOut <=> \A j \in DOMAIN d.joints : /\ Distinct(d.joints[j].channels)
                                             /\ TurnsByNoneOrThree(d.joints[j])
  <2> SUFFICES ASSUME NEW j \in DOMAIN d.joints
               PROVE  LayoutRefusal(d.joints[j]) = None <=>
                        Distinct(d.joints[j].channels) /\ TurnsByNoneOrThree(d.joints[j])
    OBVIOUS
  <2>1. IsSequence(d.joints[j].channels)
    BY DEF IsDocument
  <2>2. Range(d.joints[j].channels) \subseteq Positions \cup Rotations
    BY <1>4, JointHolds
  <2>3. QED
    BY <2>1, <2>2, LayoutHolds
<1>8. ExtractionRefusal(d) = None <=> LaidOut /\ AnimationIsValid(clip, rig)
  BY ExtractionHolds DEF clip, rig
<1> HIDE DEF LaidOut
<1>9. ExtractionRefusal(d) = None <=> LaidOut /\ TipsEndChains
  <2> HIDE DEF TipsEndChains
  <2>1. QED
    BY <1>5, <1>6, <1>8
<1>10. QED
  BY <1>7, <1>9

-----------------------------------------------------------------------------
(* The invariant of the parse.                                             *)

IsJoint(joint) ==
  /\ DOMAIN joint = {"name", "parent", "offset", "channels", "channelOffset", "endSite"}
  /\ joint.name \in Names /\ joint.parent \in Nat
  /\ joint.channels \in ChannelLists \cup {<< >>}

IsWork(d) ==
  /\ DOMAIN d = {"joints", "channelCount", "frameCount", "frameTime", "values"}
  /\ IsSequence(d.joints) /\ IsSequence(d.values)
  /\ \A j \in DOMAIN d.joints : IsJoint(d.joints[j])
  /\ d.channelCount \in Nat /\ d.frameCount \in Nat

IsOpen(bodies) ==
  /\ IsSequence(bodies)
  /\ \A i \in DOMAIN bodies : DOMAIN bodies[i] = {"joint", "haveOffset", "haveChannels"}

(* The joints are a tree within the depth limit, and each open one stands  *)
(* a level below the one that was opened before it.                        *)
Nested(joints, level, bodies) ==
  /\ Levels(joints, level)
  /\ \A j \in DOMAIN joints : level[j] < MaxHierarchyDepth
  /\ \A i \in DOMAIN bodies : bodies[i].joint \in DOMAIN joints /\ level[bodies[i].joint] = i - 1

Grown(joints, bodies) ==
  /\ joints # << >> /\ Len(joints) <= Larger(1, MaxJoints)
  /\ \E level : Nested(joints, level, bodies)

(* Only an open joint may be without an offset.                            *)
OffsetsAwaited(joints, bodies) ==
  \A j \in DOMAIN joints : \/ DOMAIN joints[j].offset = 1 .. 3
                           \/ \E i \in DOMAIN bodies : bodies[i].joint = j /\ ~bodies[i].haveOffset

(* The rows that were read, each number named for its place.               *)
Labelled(values, width, rows) ==
  \A f \in 1 .. rows, i \in 1 .. width :
    LET place == (f - 1) * width + i
    IN  place \in DOMAIN values => values[place] \in Numbers /\ values[place].from = <<"row", f, i>>

RowsRead(d, rows) ==
  /\ rows \in Nat
  /\ Len(d.values) = rows * d.channelCount
  /\ rows > 0 => d.channelCount > 0
  /\ Labelled(d.values, d.channelCount, rows)

(* What a document the parser has accepted is.                             *)
IsParsed(d) ==
  /\ IsDocument(d) /\ Stated(d) /\ DocumentRefusal(d) = None
  /\ Grown(d.joints, << >>)
  /\ \A f \in 1 .. d.frameCount : Frame(d, f) # None

IdleInv == stage = "idle" => work = NoDocument /\ open = << >> /\ framesRead = 0

WorkInv ==
  stage \in {"joints", "rows"} =>
    /\ IsWork(work) /\ IsOpen(open)
    /\ Grown(work.joints, open) /\ OffsetsAwaited(work.joints, open)

TableInv ==
  /\ stage = "joints" => work.values = << >> /\ framesRead = 0
  /\ stage = "rows" => open = << >> /\ RowsRead(work, framesRead)

CallerInv ==
  /\ stage \in {"idle", "joints", "rows"} => document = None /\ animation = None
  /\ stage \in {"parsed", "assembled"} => IsDocument(document) /\ animation = None
  /\ stage = "parsed" => IsParsed(document)
  /\ document # None => IsDocument(document)
  /\ animation # None =>
       /\ IsDocument(document)
       /\ animation = ExtractedClip(document) /\ ExtractionRefusal(document) = None

ImportInv == IdleInv /\ WorkInv /\ TableInv /\ CallerInv

(* Replacing a joint of the document being built.                          *)
WithJoint(d, t, joint) == [d EXCEPT !.joints = [@ EXCEPT ![t] = joint]]

SameJoints(before, after) ==
  /\ IsSequence(after) /\ Len(after) = Len(before) /\ DOMAIN after = DOMAIN before
  /\ \A j \in DOMAIN before : after[j].parent = before[j].parent

SameTable(d, after) ==
  /\ after.channelCount = d.channelCount /\ after.frameCount = d.frameCount
  /\ after.frameTime = d.frameTime /\ after.values = d.values

LEMMA WithJointKeeps ==
  ASSUME NEW d, IsWork(d), NEW t \in DOMAIN d.joints, NEW joint, IsJoint(joint),
         joint.parent = d.joints[t].parent
  PROVE  LET after == WithJoint(d, t, joint)
         IN  /\ IsWork(after) /\ SameTable(d, after) /\ SameJoints(d.joints, after.joints)
             /\ \A j \in DOMAIN d.joints : after.joints[j] = IF j = t THEN joint ELSE d.joints[j]
<1> DEFINE after == WithJoint(d, t, joint)
           joints == [d.joints EXCEPT ![t] = joint]
           n == Len(d.joints)
<1>1. n \in Nat /\ DOMAIN d.joints = 1 .. n
  BY SequenceShape DEF IsWork
<1>2. /\ DOMAIN after = DOMAIN d /\ after.joints = joints
      /\ SameTable(d, after)
  BY DEF WithJoint, IsWork, SameTable
<1> HIDE DEF after
<1>3. \A j \in DOMAIN d.joints : joints[j] = IF j = t THEN joint ELSE d.joints[j]
  OBVIOUS
<1>4. joints = [j \in 1 .. n |-> joints[j]]
  BY <1>1
<1> HIDE DEF joints, n
<1>5. IsSequence(joints) /\ Len(joints) = n /\ DOMAIN joints = 1 .. n
  BY <1>1, <1>4, ListIsASequence
<1>6. SameJoints(d.joints, joints)
  BY <1>1, <1>3, <1>5 DEF SameJoints, n
<1>7. IsWork(after)
  BY <1>1, <1>2, <1>3, <1>5 DEF IsWork, SameTable
<1>8. QED
  BY <1>2, <1>3, <1>6, <1>7 DEF after

(* The tree is told by the parents, and the open joints by their indices.  *)
LEMMA ParentsTellTheTree ==
  ASSUME NEW joints, IsSequence(joints), NEW after, SameJoints(joints, after), NEW bodies, NEW open2,
         DOMAIN open2 \subseteq DOMAIN bodies, \A i \in DOMAIN open2 : open2[i].joint = bodies[i].joint,
         Grown(joints, bodies)
  PROVE  Grown(after, open2)
<1> DEFINE n == Len(joints)
<1>1. PICK level : Nested(joints, level, bodies)
  BY DEF Grown
<1>2. n \in Nat /\ DOMAIN joints = 1 .. n /\ Len(after) = n /\ DOMAIN after = 1 .. n
  BY SequenceShape DEF SameJoints
<1> HIDE DEF n
<1>3. n # 0
  <2>1. n = 0 => joints = << >>
    BY SequenceShape DEF n
  <2>2. QED
    BY <2>1 DEF Grown
<1>4. \A j \in 1 .. n : after[j].parent = joints[j].parent
  BY <1>2 DEF SameJoints
<1>5. Levels(after, level)
  <2>1. Levels(joints, level)
    BY <1>1 DEF Nested
  <2>2. 1 \in 1 .. n /\ \A j \in 2 .. n : j \in 1 .. n
    BY <1>2, <1>3
  <2>3. QED
    BY <1>2, <1>4, <2>1, <2>2 DEF Levels, n
<1>6. Nested(after, level, open2)
  BY <1>1, <1>2, <1>5 DEF Nested
<1>7. after # << >>
  BY <1>2, <1>3
<1>8. QED
  BY <1>2, <1>6, <1>7 DEF Grown, n

(* The innermost open joint.                                               *)
LEMMA TopIsOpen ==
  ASSUME ImportInv, InBody
  PROVE  /\ IsWork(work) /\ IsOpen(open) /\ Grown(work.joints, open)
         /\ OffsetsAwaited(work.joints, open) /\ work.values = << >> /\ framesRead = 0
         /\ Len(open) \in Nat \ {0} /\ DOMAIN open = 1 .. Len(open) /\ Len(open) \in DOMAIN open
         /\ Top.joint \in DOMAIN work.joints /\ IsJoint(work.joints[Top.joint])
         /\ document = None /\ animation = None
<1>1. stage = "joints" /\ open # << >>
  BY DEF InBody
<1>2. /\ IsWork(work) /\ IsOpen(open) /\ Grown(work.joints, open)
      /\ OffsetsAwaited(work.joints, open) /\ work.values = << >> /\ framesRead = 0
      /\ document = None /\ animation = None
  BY <1>1 DEF ImportInv, WorkInv, TableInv, CallerInv
<1>3. Len(open) \in Nat \ {0} /\ DOMAIN open = 1 .. Len(open) /\ Len(open) \in DOMAIN open
  <2>1. Len(open) \in Nat /\ DOMAIN open = 1 .. Len(open) /\ (Len(open) = 0 => open = << >>)
    BY <1>2, SequenceShape DEF IsOpen
  <2>2. QED
    BY <1>1, <2>1
<1>4. Top.joint \in DOMAIN work.joints
  BY <1>2, <1>3 DEF Grown, Nested, Top
<1>5. QED
  BY <1>2, <1>3, <1>4 DEF IsWork

(* What holds of a step that goes on with the hierarchy.                   *)
GoesOn ==
  /\ stage' = "joints"
  /\ IsWork(work') /\ IsOpen(open') /\ Grown(work'.joints, open')
  /\ OffsetsAwaited(work'.joints, open') /\ work'.values = << >>
  /\ UNCHANGED <<framesRead, document, animation>>

LEMMA GoesOnKeeps ==
  ASSUME ImportInv, stage \in {"idle", "joints"}, GoesOn
  PROVE  ImportInv'
<1>1. framesRead = 0 /\ document = None /\ animation = None
  BY DEF ImportInv, IdleInv, TableInv, CallerInv
<1>2. QED
  BY <1>1 DEF GoesOn, ImportInv, IdleInv, WorkInv, TableInv, CallerInv

LEMMA RefuseKeeps ==
  ASSUME ImportInv, NEW code, NEW line, Refuse(code, line)
  PROVE  ImportInv'
BY DEF ImportInv, IdleInv, WorkInv, TableInv, CallerInv, Refuse

WithBody(bodies, n, body) == [bodies EXCEPT ![n] = body]

LEMMA WithBodyKeeps ==
  ASSUME NEW bodies, IsOpen(bodies), NEW n \in DOMAIN bodies, NEW body,
         DOMAIN body = {"joint", "haveOffset", "haveChannels"}, body.joint = bodies[n].joint
  PROVE  /\ IsOpen(WithBody(bodies, n, body)) /\ DOMAIN WithBody(bodies, n, body) = DOMAIN bodies
         /\ \A i \in DOMAIN bodies :
              /\ WithBody(bodies, n, body)[i] = IF i = n THEN body ELSE bodies[i]
              /\ WithBody(bodies, n, body)[i].joint = bodies[i].joint
<1> DEFINE size == Len(bodies)
           after == WithBody(bodies, n, body)
<1>1. size \in Nat /\ DOMAIN bodies = 1 .. size
  BY SequenceShape DEF IsOpen
<1>2. \A i \in DOMAIN bodies : after[i] = IF i = n THEN body ELSE bodies[i]
  BY DEF WithBody
<1>3. after = [i \in 1 .. size |-> after[i]]
  BY <1>1 DEF WithBody
<1> HIDE DEF size, after
<1>4. IsSequence(after) /\ DOMAIN after = 1 .. size
  BY <1>1, <1>3, ListIsASequence
<1>5. IsOpen(after)
  BY <1>1, <1>2, <1>4 DEF IsOpen
<1>6. QED
  BY <1>1, <1>2, <1>4, <1>5 DEF after

LEMMA ReadOffsetKeeps ==
  ASSUME ImportInv, NEW kind, ReadOffset(kind)
  PROVE  ImportInv'
<1> DEFINE t == Top.joint
           joint == [work.joints[t] EXCEPT !.offset = OffsetOf(t, "offset", kind)]
           body == [Top EXCEPT !.haveOffset = TRUE]
<1>1. CASE \E code : RefuseHere(code)
  BY <1>1, RefuseKeeps DEF RefuseHere
<1>2. CASE ~\E code : RefuseHere(code)
  <2>1. /\ InBody /\ stage' = stage
        /\ work' = [work EXCEPT !.joints[t].offset = OffsetOf(t, "offset", kind)]
        /\ open' = [open EXCEPT ![Len(open)].haveOffset = TRUE]
        /\ Parsing
    BY <1>2, Zenon DEF ReadOffset
  <2>2. /\ IsWork(work) /\ IsOpen(open) /\ Grown(work.joints, open)
        /\ OffsetsAwaited(work.joints, open) /\ work.values = << >> /\ Len(open) \in DOMAIN open
        /\ t \in DOMAIN work.joints /\ IsJoint(work.joints[t])
    BY <2>1, TopIsOpen
  <2>3. work' = WithJoint(work, t, joint)
    BY <2>1 DEF WithJoint
  <2>4. IsJoint(joint) /\ joint.parent = work.joints[t].parent /\ DOMAIN joint.offset = 1 .. 3
    BY <2>2 DEF IsJoint, OffsetOf
  <2> HIDE DEF joint
  <2>5. /\ IsWork(work') /\ SameTable(work, work') /\ SameJoints(work.joints, work'.joints)
        /\ \A j \in DOMAIN work.joints : work'.joints[j] = IF j = t THEN joint ELSE work.joints[j]
    BY <2>2, <2>3, <2>4, WithJointKeeps
  <2>6. /\ IsOpen(open') /\ DOMAIN open' = DOMAIN open
        /\ \A i \in DOMAIN open : open'[i].joint = open[i].joint
        /\ \A i \in DOMAIN open \ {Len(open)} : open'[i].haveOffset = open[i].haveOffset
    <3>1. open' = WithBody(open, Len(open), body)
      BY <2>1 DEF WithBody, Top
    <3>2. /\ DOMAIN body = {"joint", "haveOffset", "haveChannels"}
          /\ body.joint = open[Len(open)].joint
      BY <2>2 DEF IsOpen, Top
    <3> HIDE DEF body
    <3>3. /\ IsOpen(open') /\ DOMAIN open' = DOMAIN open
          /\ \A i \in DOMAIN open : /\ open'[i] = IF i = Len(open) THEN body ELSE open[i]
                                    /\ open'[i].joint = open[i].joint
      BY <2>2, <3>1, <3>2, WithBodyKeeps
    <3>4. QED
      BY <3>2, <3>3
  <2>7. Grown(work'.joints, open')
    <3>1. IsSequence(work.joints)
      BY <2>2 DEF IsWork
    <3>2. QED
      BY <2>2, <2>5, <2>6, <3>1, ParentsTellTheTree
  <2>8. OffsetsAwaited(work'.joints, open')
    <3>1. SUFFICES ASSUME NEW j \in DOMAIN work.joints, j # t
                   PROVE  \/ DOMAIN work'.joints[j].offset = 1 .. 3
                          \/ \E i \in DOMAIN open' : open'[i].joint = j /\ ~open'[i].haveOffset
      BY <2>2, <2>4, <2>5 DEF OffsetsAwaited, SameJoints
    <3>2. work'.joints[j] = work.joints[j]
      BY <2>5, <3>1
    <3>3. CASE \E i \in DOMAIN open : open[i].joint = j /\ ~open[i].haveOffset
      <4>1. PICK i \in DOMAIN open : open[i].joint = j /\ ~open[i].haveOffset
        BY <3>3
      <4>2. i # Len(open)
        BY <3>1, <4>1 DEF Top
      <4>3. QED
        BY <2>6, <4>1, <4>2
    <3>4. QED
      BY <2>2, <3>2, <3>3 DEF OffsetsAwaited
  <2>9. stage = "joints" /\ GoesOn
    BY <2>1, <2>2, <2>5, <2>6, <2>7, <2>8 DEF GoesOn, Parsing, InBody, SameTable
  <2>10. QED
    BY <2>9, GoesOnKeeps
<1>3. QED
  BY <1>1, <1>2

LEMMA ReadChannelsKeeps ==
  ASSUME ImportInv, NEW channels \in ChannelLists, ReadChannels(channels)
  PROVE  ImportInv'
<1> DEFINE t == Top.joint
           joint == [work.joints[t] EXCEPT !.channels = channels]
           body == [Top EXCEPT !.haveChannels = TRUE]
<1>1. CASE \E code : RefuseHere(code)
  BY <1>1, RefuseKeeps DEF RefuseHere
<1>2. CASE ~\E code : RefuseHere(code)
  <2>1. /\ InBody /\ stage' = stage
        /\ work' = [work EXCEPT !.joints[t].channels = channels]
        /\ open' = [open EXCEPT ![Len(open)].haveChannels = TRUE]
        /\ Parsing
    BY <1>2, Zenon DEF ReadChannels
  <2>2. /\ IsWork(work) /\ IsOpen(open) /\ Grown(work.joints, open)
        /\ OffsetsAwaited(work.joints, open) /\ work.values = << >> /\ Len(open) \in DOMAIN open
        /\ t \in DOMAIN work.joints /\ IsJoint(work.joints[t])
    BY <2>1, TopIsOpen
  <2>3. work' = WithJoint(work, t, joint)
    BY <2>1 DEF WithJoint
  <2>4. IsJoint(joint) /\ joint.parent = work.joints[t].parent /\ joint.offset = work.joints[t].offset
    BY <2>2 DEF IsJoint
  <2> HIDE DEF joint
  <2>5. /\ IsWork(work') /\ SameTable(work, work') /\ SameJoints(work.joints, work'.joints)
        /\ \A j \in DOMAIN work.joints : work'.joints[j] = IF j = t THEN joint ELSE work.joints[j]
    BY <2>2, <2>3, <2>4, WithJointKeeps
  <2>6. /\ IsOpen(open') /\ DOMAIN open' = DOMAIN open
        /\ \A i \in DOMAIN open : open'[i].joint = open[i].joint
        /\ \A i \in DOMAIN open : open'[i].haveOffset = open[i].haveOffset
    <3>1. open' = WithBody(open, Len(open), body)
      BY <2>1 DEF WithBody, Top
    <3>2. /\ DOMAIN body = {"joint", "haveOffset", "haveChannels"}
          /\ body.joint = open[Len(open)].joint
          /\ body.haveOffset = open[Len(open)].haveOffset
      BY <2>2 DEF IsOpen, Top
    <3> HIDE DEF body
    <3>3. /\ IsOpen(open') /\ DOMAIN open' = DOMAIN open
          /\ \A i \in DOMAIN open : /\ open'[i] = IF i = Len(open) THEN body ELSE open[i]
                                    /\ open'[i].joint = open[i].joint
      BY <2>2, <3>1, <3>2, WithBodyKeeps
    <3>4. QED
      BY <3>2, <3>3
  <2>7. Grown(work'.joints, open')
    <3>1. IsSequence(work.joints)
      BY <2>2 DEF IsWork
    <3>2. QED
      BY <2>2, <2>5, <2>6, <3>1, ParentsTellTheTree
  <2>8. OffsetsAwaited(work'.joints, open')
    <3>1. \A j \in DOMAIN work.joints : work'.joints[j].offset = work.joints[j].offset
      BY <2>4, <2>5
    <3>2. ASSUME NEW j \in DOMAIN work.joints
          PROVE  \/ DOMAIN work'.joints[j].offset = 1 .. 3
                 \/ \E i \in DOMAIN open' : open'[i].joint = j /\ ~open'[i].haveOffset
      <4>1. CASE \E i \in DOMAIN open : open[i].joint = j /\ ~open[i].haveOffset
        BY <2>6, <4>1
      <4>2. QED
        BY <2>2, <3>1, <4>1 DEF OffsetsAwaited
    <3>3. QED
      BY <2>5, <3>2 DEF OffsetsAwaited, SameJoints
  <2>9. stage = "joints" /\ GoesOn
    BY <2>1, <2>2, <2>5, <2>6, <2>7, <2>8 DEF GoesOn, Parsing, InBody, SameTable
  <2>10. QED
    BY <2>9, GoesOnKeeps
<1>3. QED
  BY <1>1, <1>2

LEMMA ReadEndSiteKeeps ==
  ASSUME ImportInv, NEW kind, ReadEndSite(kind)
  PROVE  ImportInv'
<1> DEFINE t == Top.joint
           joint == [work.joints[t] EXCEPT !.endSite = OffsetOf(t, "end", kind)]
<1>1. CASE \E code : RefuseHere(code)
  BY <1>1, RefuseKeeps DEF RefuseHere
<1>2. CASE ~\E code : RefuseHere(code)
  <2>1. /\ InBody /\ stage' = stage /\ open' = open
        /\ work' = [work EXCEPT !.joints[t].endSite = OffsetOf(t, "end", kind)]
        /\ Parsing
    BY <1>2, Zenon DEF ReadEndSite
  <2>2. /\ IsWork(work) /\ IsOpen(open) /\ Grown(work.joints, open)
        /\ OffsetsAwaited(work.joints, open) /\ work.values = << >>
        /\ t \in DOMAIN work.joints /\ IsJoint(work.joints[t])
    BY <2>1, TopIsOpen
  <2>3. work' = WithJoint(work, t, joint)
    BY <2>1 DEF WithJoint
  <2>4. IsJoint(joint) /\ joint.parent = work.joints[t].parent /\ joint.offset = work.joints[t].offset
    BY <2>2 DEF IsJoint
  <2> HIDE DEF joint
  <2>5. /\ IsWork(work') /\ SameTable(work, work') /\ SameJoints(work.joints, work'.joints)
        /\ \A j \in DOMAIN work.joints : work'.joints[j] = IF j = t THEN joint ELSE work.joints[j]
    BY <2>2, <2>3, <2>4, WithJointKeeps
  <2>6. Grown(work'.joints, open')
    <3>1. IsSequence(work.joints)
      BY <2>2 DEF IsWork
    <3>2. Grown(work'.joints, open)
      BY <2>2, <2>5, <3>1, ParentsTellTheTree
    <3>3. QED
      BY <2>1, <3>2
  <2>7. OffsetsAwaited(work'.joints, open')
    <3>1. \A j \in DOMAIN work.joints : work'.joints[j].offset = work.joints[j].offset
      BY <2>4, <2>5
    <3>2. QED
      BY <2>1, <2>2, <2>5, <3>1 DEF OffsetsAwaited, SameJoints
  <2>8. stage = "joints" /\ GoesOn
    BY <2>1, <2>2, <2>5, <2>6, <2>7 DEF GoesOn, Parsing, InBody, SameTable
  <2>9. QED
    BY <2>8, GoesOnKeeps
<1>3. QED
  BY <1>1, <1>2

(* A joint more, and the call that reads its body.                         *)
WithOneMore(d, joint) == [d EXCEPT !.joints = Append(@, joint)]

LEMMA OneMore ==
  ASSUME NEW list, IsSequence(list), NEW x
  PROVE  /\ IsSequence(Append(list, x)) /\ Len(Append(list, x)) = Len(list) + 1
         /\ DOMAIN Append(list, x) = 1 .. Len(list) + 1
         /\ \A i \in 1 .. Len(list) : Append(list, x)[i] = list[i]
         /\ Append(list, x)[Len(list) + 1] = x
<1> DEFINE S == Range(list) \cup {x}
           more == Append(list, x)
<1>1. list \in Seq(S) /\ x \in S /\ Len(list) \in Nat
  BY DEF IsSequence
<1> HIDE DEF S
<1>2. /\ more \in Seq(S) /\ Len(more) = Len(list) + 1 /\ DOMAIN more = 1 .. Len(list) + 1
      /\ \A i \in 1 .. Len(list) : more[i] = list[i]
      /\ more[Len(list) + 1] = x
  BY <1>1
<1> HIDE DEF more
<1>3. IsSequence(more)
  BY <1>2, SeqOfRange DEF IsSequence
<1>4. QED
  BY <1>2, <1>3 DEF more

LEMMA EnterKeeps ==
  ASSUME NEW d, IsWork(d), IsOpen(open), NEW joint, IsJoint(joint),
         Len(open) + 1 <= MaxHierarchyDepth, OffsetsAwaited(d.joints, open),
         \/ d.joints = << >> /\ open = << >> /\ joint.parent = 0
         \/ /\ Grown(d.joints, open) /\ open # << >> /\ joint.parent = open[Len(open)].joint
            /\ Len(d.joints) < MaxJoints
  PROVE  LET after == WithOneMore(d, joint)
             bodies == Append(open, Body(Len(d.joints) + 1))
         IN  /\ IsWork(after) /\ after.values = d.values /\ IsOpen(bodies)
             /\ Grown(after.joints, bodies) /\ OffsetsAwaited(after.joints, bodies)
<1> DEFINE after == WithOneMore(d, joint)
           joints == Append(d.joints, joint)
           bodies == Append(open, Body(Len(d.joints) + 1))
           n == Len(d.joints)
           m == Len(open)
<1>1. n \in Nat /\ DOMAIN d.joints = 1 .. n /\ (n = 0 <=> d.joints = << >>)
  BY SequenceShape DEF IsWork
<1>2. m \in Nat /\ DOMAIN open = 1 .. m /\ (m = 0 <=> open = << >>)
  BY SequenceShape DEF IsOpen
<1>3. m < MaxHierarchyDepth
  <2>1. MaxHierarchyDepth \in Nat
    BY ImportAssumption
  <2>2. QED
    BY <1>2, <2>1
<1>4. /\ DOMAIN after = DOMAIN d /\ after.joints = joints /\ after.values = d.values
      /\ after.channelCount = d.channelCount /\ after.frameCount = d.frameCount
  BY DEF WithOneMore, IsWork
<1> HIDE DEF after
<1>5. /\ IsSequence(joints) /\ Len(joints) = n + 1 /\ DOMAIN joints = 1 .. n + 1
      /\ \A j \in 1 .. n : joints[j] = d.joints[j]
      /\ joints[n + 1] = joint
  BY OneMore DEF IsWork
<1>6. /\ IsSequence(bodies) /\ DOMAIN bodies = 1 .. m + 1
      /\ \A i \in 1 .. m : bodies[i] = open[i]
      /\ bodies[m + 1] = Body(n + 1)
  BY OneMore DEF IsOpen
<1> HIDE DEF joints, bodies, n, m
<1>7. IsWork(after)
  <2>1. \A j \in 1 .. n + 1 : j \in 1 .. n \/ j = n + 1
    BY <1>1
  <2>2. QED
    BY <1>1, <1>4, <1>5, <2>1 DEF IsWork
<1>8. IsOpen(bodies)
  <2>1. \A i \in 1 .. m + 1 : i \in 1 .. m \/ i = m + 1
    BY <1>2
  <2>2. DOMAIN Body(n + 1) = {"joint", "haveOffset", "haveChannels"}
    BY DEF Body
  <2>3. QED
    BY <1>2, <1>6, <2>1, <2>2 DEF IsOpen
<1>9. OffsetsAwaited(joints, bodies)
  <2> SUFFICES ASSUME NEW j \in 1 .. n + 1
               PROVE  \/ DOMAIN joints[j].offset = 1 .. 3
                      \/ \E i \in 1 .. m + 1 : bodies[i].joint = j /\ ~bodies[i].haveOffset
    BY <1>5, <1>6 DEF OffsetsAwaited
  <2>1. CASE j = n + 1
    <3>1. bodies[m + 1].joint = j /\ ~bodies[m + 1].haveOffset /\ m + 1 \in 1 .. m + 1
      BY <1>2, <1>6, <2>1 DEF Body
    <3>2. QED
      BY <3>1
  <2>2. CASE j \in 1 .. n
    <3>1. CASE \E i \in DOMAIN open : open[i].joint = j /\ ~open[i].haveOffset
      <4>1. PICK i \in 1 .. m : open[i].joint = j /\ ~open[i].haveOffset
        BY <1>2, <3>1
      <4>2. i \in 1 .. m + 1 /\ bodies[i] = open[i]
        BY <1>2, <1>6
      <4>3. QED
        BY <4>1, <4>2
    <3>2. joints[j] = d.joints[j] /\ j \in DOMAIN d.joints
      BY <1>1, <1>5, <2>2
    <3>3. \/ DOMAIN d.joints[j].offset = 1 .. 3
          \/ \E i \in DOMAIN open : open[i].joint = j /\ ~open[i].haveOffset
      BY <3>2 DEF OffsetsAwaited
    <3>4. QED
      BY <3>1, <3>2, <3>3
  <2>3. QED
    BY <1>1, <2>1, <2>2
<1>10. Len(joints) <= Larger(1, MaxJoints) /\ joints # << >>
  <2>1. n = 0 \/ n < MaxJoints
    BY <1>1 DEF n
  <2>2. MaxJoints \in Nat
    BY ImportAssumption
  <2>3. n + 1 <= Larger(1, MaxJoints)
    BY <1>1, <2>1, <2>2 DEF Larger
  <2>4. joints # << >>
    BY <1>1, <1>5
  <2>5. QED
    BY <1>5, <2>3, <2>4
<1>11. \E level : Nested(joints, level, bodies)
  <2>1. CASE n = 0 /\ m = 0
    <3> DEFINE level == [j \in 1 .. 1 |-> 0]
    <3>1. joints[1].parent = 0 /\ Len(joints) = 1 /\ DOMAIN joints = 1 .. 1
      BY <1>1, <1>2, <1>5, <2>1 DEF Grown, m
    <3>2. Levels(joints, level)
      BY <3>1 DEF Levels
    <3>3. 0 < MaxHierarchyDepth
      BY <1>3, <2>1
    <3>4. DOMAIN bodies = 1 .. 1 /\ bodies[1].joint = 1
      BY <1>6, <2>1 DEF Body
    <3>5. Nested(joints, level, bodies)
      BY <3>1, <3>2, <3>3, <3>4 DEF Nested
    <3>6. QED
      BY <3>5
  <2>2. CASE ~(n = 0 /\ m = 0)
    <3>1. /\ Grown(d.joints, open) /\ m # 0 /\ joint.parent = open[m].joint
      BY <1>1, <1>2, <2>2 DEF m
    <3>2. PICK up : Nested(d.joints, up, open)
      BY <3>1 DEF Grown
    <3>3. n # 0
      BY <1>1, <3>1 DEF Grown
    <3>4. /\ up \in [1 .. n -> Nat] /\ up[1] = 0 /\ d.joints[1].parent = 0
          /\ \A j \in 2 .. n : d.joints[j].parent \in 1 .. j - 1 /\ up[j] = up[d.joints[j].parent] + 1
      BY <3>2 DEF Nested, Levels, n
    <3>5. /\ \A j \in 1 .. n : up[j] < MaxHierarchyDepth
          /\ \A i \in 1 .. m : open[i].joint \in 1 .. n /\ up[open[i].joint] = i - 1
      BY <1>1, <1>2, <3>2 DEF Nested
    <3> DEFINE level == [j \in 1 .. n + 1 |-> IF j = n + 1 THEN m ELSE up[j]]
    <3>6. level \in [1 .. n + 1 -> Nat] /\ level[n + 1] = m /\ \A j \in 1 .. n : level[j] = up[j]
      <4>1. \A j \in 1 .. n + 1 : j = n + 1 \/ j \in 1 .. n
        BY <1>1
      <4>2. n + 1 \in 1 .. n + 1 /\ \A j \in 1 .. n : j \in 1 .. n + 1 /\ j # n + 1
        BY <1>1
      <4>3. QED
        BY <1>2, <3>4, <4>1, <4>2
    <3> HIDE DEF level
    <3>7. joint.parent \in 1 .. n /\ up[joint.parent] = m - 1
      BY <1>2, <3>1, <3>5
    <3>8. Levels(joints, level)
      <4>1. joints[1].parent = 0 /\ level[1] = 0
        BY <1>1, <1>5, <3>3, <3>4, <3>6
      <4>2. ASSUME NEW j \in 2 .. n + 1
            PROVE  joints[j].parent \in 1 .. j - 1 /\ level[j] = level[joints[j].parent] + 1
        <5>1. CASE j = n + 1
          <6>1. joints[j].parent = joint.parent /\ level[joint.parent] = m - 1 /\ level[j] = m
            BY <1>5, <3>6, <3>7, <5>1
          <6>2. joint.parent \in 1 .. j - 1
            BY <1>1, <3>7, <5>1
          <6>3. QED
            BY <1>2, <6>1, <6>2
        <5>2. CASE j # n + 1
          <6>1. j \in 2 .. n /\ j \in 1 .. n
            BY <1>1, <5>2
          <6>2. joints[j].parent = d.joints[j].parent /\ d.joints[j].parent \in 1 .. j - 1
            BY <1>5, <3>4, <6>1
          <6>3. d.joints[j].parent \in 1 .. n
            BY <1>1, <6>1, <6>2
          <6>4. level[j] = up[j] /\ level[d.joints[j].parent] = up[d.joints[j].parent]
            BY <3>6, <6>1, <6>3
          <6>5. QED
            BY <3>4, <6>1, <6>2, <6>4
        <5>3. QED
          BY <5>1, <5>2
      <4>3. QED
        BY <1>5, <3>6, <4>1, <4>2 DEF Levels
    <3>9. \A j \in DOMAIN joints : level[j] < MaxHierarchyDepth
      <4>1. m < MaxHierarchyDepth
        BY <1>3
      <4>2. \A j \in 1 .. n + 1 : j = n + 1 \/ j \in 1 .. n
        BY <1>1
      <4>3. QED
        BY <1>5, <3>5, <3>6, <4>1, <4>2
    <3>10. \A i \in DOMAIN bodies : bodies[i].joint \in DOMAIN joints /\ level[bodies[i].joint] = i - 1
      <4> SUFFICES ASSUME NEW i \in 1 .. m + 1
                   PROVE  bodies[i].joint \in 1 .. n + 1 /\ level[bodies[i].joint] = i - 1
        BY <1>5, <1>6
      <4>1. CASE i = m + 1
        <5>1. bodies[i].joint = n + 1
          BY <1>6, <4>1 DEF Body
        <5>2. QED
          BY <1>1, <1>2, <3>6, <4>1, <5>1
      <4>2. CASE i # m + 1
        <5>1. i \in 1 .. m
          BY <1>2, <4>2
        <5>2. bodies[i].joint = open[i].joint /\ open[i].joint \in 1 .. n /\ up[open[i].joint] = i - 1
          BY <1>6, <3>5, <5>1
        <5>3. QED
          BY <1>1, <3>6, <5>2
      <4>3. QED
        BY <4>1, <4>2
    <3>11. Nested(joints, level, bodies)
      BY <3>8, <3>9, <3>10 DEF Nested
    <3>12. QED
      BY <3>11
  <2>3. QED
    BY <2>1, <2>2
<1>12. Grown(joints, bodies)
  BY <1>10, <1>11 DEF Grown
<1>13. QED
  BY <1>4, <1>7, <1>8, <1>9, <1>12 DEF after, bodies, n

LEMMA NoJointIsWork ==
  IsWork(NoDocument) /\ NoDocument.joints = << >> /\ NoDocument.values = << >> /\ IsSequence(<< >>)
<1>1. IsSequence(<< >>) /\ DOMAIN << >> = {}
  <2>1. << >> \in Seq(Range(<< >>))
    OBVIOUS
  <2>2. QED
    BY <2>1 DEF IsSequence
<1>2. QED
  BY <1>1 DEF IsWork, NoDocument

LEMMA OpenRootKeeps ==
  ASSUME ImportInv, NEW name \in Names, OpenRoot(name)
  PROVE  ImportInv'
<1> DEFINE joint == NewJoint(name, 0)
           after == WithOneMore(work, joint)
<1>1. CASE \E code : RefuseHere(code)
  BY <1>1, RefuseKeeps DEF RefuseHere
<1>2. CASE ~\E code : RefuseHere(code)
  <2>1. /\ stage = "idle" /\ Len(open) + 1 <= MaxHierarchyDepth
        /\ stage' = "joints" /\ work' = after
        /\ open' = Append(open, Body(Len(work.joints) + 1))
        /\ Parsing
    <3>1. stage = "idle" /\ Enter(joint)
      BY DEF OpenRoot
    <3>2. ~(Len(open) + 1 > MaxHierarchyDepth)
      BY <1>2, <3>1 DEF Enter
    <3>3. /\ stage' = "joints" /\ work' = after
          /\ open' = Append(open, Body(Len(work.joints) + 1))
          /\ Parsing
      BY <1>2, <3>1, Zenon DEF Enter, WithOneMore
    <3>4. MaxHierarchyDepth \in Nat
      BY ImportAssumption
    <3>5. Len(open) \in Nat
      BY <3>1 DEF ImportInv, IdleInv
    <3>6. QED
      BY <3>1, <3>2, <3>3, <3>4, <3>5
  <2>2. IsWork(work) /\ work.joints = << >> /\ work.values = << >> /\ open = << >> /\ IsOpen(open)
    BY <2>1, NoJointIsWork DEF ImportInv, IdleInv, IsOpen
  <2>3. IsJoint(joint) /\ joint.parent = 0
    BY DEF IsJoint, NewJoint
  <2>4. OffsetsAwaited(work.joints, open)
    BY <2>2 DEF OffsetsAwaited
  <2> HIDE DEF joint
  <2>5. /\ IsWork(work') /\ work'.values = << >> /\ IsOpen(open')
        /\ Grown(work'.joints, open') /\ OffsetsAwaited(work'.joints, open')
    BY <2>1, <2>2, <2>3, <2>4, EnterKeeps
  <2>6. GoesOn
    BY <2>1, <2>5 DEF GoesOn, Parsing
  <2>7. QED
    BY <2>1, <2>6, GoesOnKeeps
<1>3. QED
  BY <1>1, <1>2

LEMMA OpenJointKeeps ==
  ASSUME ImportInv, NEW name \in Names, OpenJoint(name)
  PROVE  ImportInv'
<1> DEFINE joint == NewJoint(name, Top.joint)
           after == WithOneMore(work, joint)
<1>1. CASE \E code : RefuseHere(code)
  BY <1>1, RefuseKeeps DEF RefuseHere
<1>2. CASE ~\E code : RefuseHere(code)
  <2>1. InBody
    BY DEF OpenJoint
  <2>2. /\ IsWork(work) /\ IsOpen(open) /\ Grown(work.joints, open)
        /\ OffsetsAwaited(work.joints, open) /\ work.values = << >> /\ Len(open) \in Nat
        /\ Top.joint \in DOMAIN work.joints
    BY <2>1, TopIsOpen
  <2>3. Len(work.joints) \in Nat /\ DOMAIN work.joints = 1 .. Len(work.joints)
    BY <2>2, SequenceShape DEF IsWork
  <2>4. ~(Len(work.joints) >= MaxJoints) /\ Enter(joint)
    BY <1>2 DEF OpenJoint
  <2>5. Len(work.joints) < MaxJoints /\ Len(open) + 1 <= MaxHierarchyDepth
    <3>1. ~(Len(open) + 1 > MaxHierarchyDepth)
      BY <1>2, <2>4 DEF Enter
    <3>2. MaxHierarchyDepth \in Nat /\ MaxJoints \in Nat
      BY ImportAssumption
    <3>3. QED
      BY <2>2, <2>3, <2>4, <3>1, <3>2
  <2>6. /\ stage' = "joints" /\ work' = after
        /\ open' = Append(open, Body(Len(work.joints) + 1))
        /\ Parsing
    BY <1>2, <2>4, Zenon DEF Enter, WithOneMore
  <2>7. IsJoint(joint) /\ joint.parent = open[Len(open)].joint
    <3>1. Top.joint \in Nat
      BY <2>2, <2>3
    <3>2. QED
      BY <3>1 DEF IsJoint, NewJoint, Top
  <2>8. stage = "joints" /\ open # << >>
    BY <2>1 DEF InBody
  <2> HIDE DEF joint
  <2>9. /\ IsWork(work') /\ work'.values = << >> /\ IsOpen(open')
        /\ Grown(work'.joints, open') /\ OffsetsAwaited(work'.joints, open')
    BY <2>2, <2>5, <2>6, <2>7, <2>8, EnterKeeps
  <2>10. GoesOn
    BY <2>6, <2>9 DEF GoesOn, Parsing
  <2>11. QED
    BY <2>8, <2>10, GoesOnKeeps
<1>3. QED
  BY <1>1, <1>2

(* The columns dealt out when the hierarchy ends.                          *)
WithColumns(d) ==
  [d EXCEPT !.joints = WithOffsets(@), !.channelCount = DeclaredChannels(d.joints)]

LEMMA WithColumnsKeeps ==
  ASSUME NEW d, IsWork(d)
  PROVE  LET after == WithColumns(d)
         IN  /\ IsWork(after) /\ SameJoints(d.joints, after.joints)
             /\ after.frameCount = d.frameCount /\ after.values = d.values
             /\ \A j \in DOMAIN d.joints : after.joints[j].offset = d.joints[j].offset
<1> DEFINE after == WithColumns(d)
           joints == WithOffsets(d.joints)
           n == Len(d.joints)
<1>1. n \in Nat /\ DOMAIN d.joints = 1 .. n /\ IsSequence(d.joints)
  BY SequenceShape DEF IsWork
<1>2. /\ DOMAIN after = DOMAIN d /\ after.joints = joints
      /\ after.channelCount = DeclaredChannels(d.joints)
      /\ after.frameCount = d.frameCount /\ after.values = d.values
  BY DEF WithColumns, IsWork
<1> HIDE DEF after
<1>3. /\ joints = [j \in 1 .. n |-> joints[j]]
      /\ \A j \in 1 .. n :
           /\ joints[j].parent = d.joints[j].parent /\ joints[j].offset = d.joints[j].offset
           /\ joints[j].name = d.joints[j].name /\ joints[j].channels = d.joints[j].channels
           /\ DOMAIN joints[j] = DOMAIN d.joints[j]
  <2>1. joints = [j \in 1 .. n |-> joints[j]]
    BY <1>1 DEF WithOffsets
  <2>2. ASSUME NEW j \in 1 .. n
        PROVE  /\ joints[j].parent = d.joints[j].parent /\ joints[j].offset = d.joints[j].offset
               /\ joints[j].name = d.joints[j].name /\ joints[j].channels = d.joints[j].channels
               /\ DOMAIN joints[j] = DOMAIN d.joints[j]
    <3>1. joints[j] = [d.joints[j] EXCEPT !.channelOffset = ColumnsBefore(d.joints, j)]
      BY <1>1 DEF WithOffsets
    <3>2. DOMAIN d.joints[j] = {"name", "parent", "offset", "channels", "channelOffset", "endSite"}
      BY <1>1 DEF IsWork, IsJoint
    <3> HIDE DEF joints
    <3>3. QED
      BY <3>1, <3>2
  <2>3. QED
    BY <2>1, <2>2
<1> HIDE DEF joints, n
<1>4. IsSequence(joints) /\ Len(joints) = n /\ DOMAIN joints = 1 .. n
  BY <1>1, <1>3, ListIsASequence
<1>5. \A j \in 1 .. n : IsJoint(d.joints[j])
  BY <1>1 DEF IsWork
<1>6. \A j \in 1 .. n : IsJoint(joints[j])
  BY <1>3, <1>5 DEF IsJoint
<1>7. DeclaredChannels(d.joints) \in Nat
  <2>1. \A j \in DOMAIN d.joints : IsSequence(d.joints[j].channels)
    <3>1. \A j \in 1 .. n : d.joints[j].channels \in ChannelLists \cup {<< >>}
      BY <1>5 DEF IsJoint
    <3>2. \A channels \in ChannelLists : IsSequence(channels)
      BY ImportAssumption
    <3>3. QED
      BY <1>1, <3>1, <3>2, NoJointIsWork
  <2>2. QED
    BY <1>1, <2>1, ColumnsFollow DEF ListsOfChannels
<1>8. IsWork(after)
  BY <1>2, <1>4, <1>6, <1>7 DEF IsWork
<1>9. SameJoints(d.joints, joints)
  BY <1>1, <1>3, <1>4 DEF SameJoints, n
<1>10. QED
  BY <1>1, <1>2, <1>3, <1>8, <1>9 DEF after

(* The first of a list.                                                    *)
LEMMA FirstOnes ==
  ASSUME NEW list, IsSequence(list), NEW n \in 0 .. Len(list)
  PROVE  /\ IsSequence(SubSeq(list, 1, n)) /\ DOMAIN SubSeq(list, 1, n) = 1 .. n
         /\ \A i \in 1 .. n : SubSeq(list, 1, n)[i] = list[i]
<1> DEFINE S == Range(list)
           first == SubSeq(list, 1, n)
<1>1. list \in Seq(S) /\ Len(list) \in Nat /\ DOMAIN list = 1 .. Len(list)
  BY SequenceShape DEF IsSequence
<1>2. \A i \in 1 .. n : i \in DOMAIN list
  BY <1>1
<1>3. \A i \in 1 .. n : list[i] \in S
  BY <1>1, <1>2
<1> HIDE DEF S
<1>4. n \in Int /\ 1 \in Int /\ n \in Nat
  BY <1>1
<1>5. /\ first \in Seq(S) /\ Len(first) = IF 1 <= n THEN n - 1 + 1 ELSE 0
      /\ \A i \in 1 .. n - 1 + 1 : first[i] = list[1 + i - 1]
  BY <1>3, <1>4, SubSeqProperties
<1> HIDE DEF first
<1>6. IsSequence(first)
  BY <1>5, SeqOfRange DEF IsSequence
<1>7. Len(first) = n /\ DOMAIN first = 1 .. n
  BY <1>4, <1>5
<1>8. \A i \in 1 .. n : first[i] = list[i]
  BY <1>4, <1>5
<1>9. QED
  BY <1>6, <1>7, <1>8 DEF first

LEMMA CloseJointKeeps ==
  ASSUME ImportInv, CloseJoint
  PROVE  ImportInv'
<1> DEFINE m == Len(open)
<1>1. CASE \E code : RefuseHere(code)
  BY <1>1, RefuseKeeps DEF RefuseHere
<1>2. CASE ~\E code : RefuseHere(code)
  <2>1. /\ InBody /\ Top.haveOffset /\ stage' = stage
        /\ open' = SubSeq(open, 1, m - 1)
        /\ work' = IF m > 1 THEN work ELSE WithColumns(work)
        /\ Parsing
    BY <1>2, Zenon DEF CloseJoint, WithColumns
  <2>2. /\ IsWork(work) /\ IsOpen(open) /\ Grown(work.joints, open)
        /\ OffsetsAwaited(work.joints, open) /\ work.values = << >>
        /\ m \in Nat \ {0} /\ DOMAIN open = 1 .. m
    BY <2>1, TopIsOpen
  <2>3. /\ IsSequence(open') /\ DOMAIN open' = 1 .. m - 1
        /\ \A i \in 1 .. m - 1 : open'[i] = open[i]
    BY <2>1, <2>2, FirstOnes DEF IsOpen
  <2>4. stage = "joints" /\ open[m].haveOffset
    BY <2>1 DEF InBody, Top
  <2> HIDE DEF m
  <2>5. 1 .. m - 1 \subseteq 1 .. m /\ \A i \in 1 .. m : i \in 1 .. m - 1 \/ i = m
    BY <2>2
  <2>6. IsOpen(open')
    BY <2>2, <2>3, <2>5 DEF IsOpen
  <2>7. /\ IsWork(work') /\ work'.values = << >> /\ SameJoints(work.joints, work'.joints)
        /\ \A j \in DOMAIN work.joints : work'.joints[j].offset = work.joints[j].offset
    <3>1. CASE m > 1
      <4>1. SameJoints(work.joints, work.joints)
        BY <2>2 DEF IsWork, SameJoints
      <4>2. QED
        BY <2>1, <2>2, <3>1, <4>1
    <3>2. CASE ~(m > 1)
      BY <2>1, <2>2, <3>2, WithColumnsKeeps
    <3>3. QED
      BY <3>1, <3>2
  <2>8. Grown(work'.joints, open')
    <3>1. IsSequence(work.joints)
      BY <2>2 DEF IsWork
    <3>2. DOMAIN open' \subseteq DOMAIN open /\ \A i \in DOMAIN open' : open'[i].joint = open[i].joint
      BY <2>2, <2>3, <2>5
    <3>3. QED
      BY <2>2, <2>7, <3>1, <3>2, ParentsTellTheTree
  <2>9. OffsetsAwaited(work'.joints, open')
    <3>1. ASSUME NEW j \in DOMAIN work.joints
          PROVE  \/ DOMAIN work'.joints[j].offset = 1 .. 3
                 \/ \E i \in DOMAIN open' : open'[i].joint = j /\ ~open'[i].haveOffset
      <4>1. CASE \E i \in DOMAIN open : open[i].joint = j /\ ~open[i].haveOffset
        <5>1. PICK i \in 1 .. m : open[i].joint = j /\ ~open[i].haveOffset
          BY <2>2, <4>1
        <5>2. i \in 1 .. m - 1
          BY <2>4, <2>5, <5>1
        <5>3. QED
          BY <2>3, <5>1, <5>2
      <4>2. QED
        BY <2>2, <2>7, <4>1 DEF OffsetsAwaited
    <3>2. QED
      BY <2>7, <3>1 DEF OffsetsAwaited, SameJoints
  <2>10. GoesOn
    BY <2>1, <2>4, <2>6, <2>7, <2>8, <2>9 DEF GoesOn, Parsing
  <2>11. QED
    BY <2>4, <2>10, GoesOnKeeps
<1>3. QED
  BY <1>1, <1>2

-----------------------------------------------------------------------------
(* The motion section.                                                     *)

WithMotion(d, frames, time) == [d EXCEPT !.frameCount = frames, !.frameTime = time]

LEMMA ReadMotionHeaderKeeps ==
  ASSUME ImportInv, NEW frames \in Nat, NEW time, ReadMotionHeader(frames, time)
  PROVE  ImportInv'
<1>1. CASE \E code : RefuseHere(code)
  BY <1>1, RefuseKeeps DEF RefuseHere
<1>2. CASE ~\E code : RefuseHere(code)
  <2>1. /\ stage = "joints" /\ open = << >> /\ stage' = "rows"
        /\ work' = WithMotion(work, frames, time) /\ open' = open
        /\ Parsing
    BY <1>2, Zenon DEF ReadMotionHeader, WithMotion
  <2>2. /\ IsWork(work) /\ IsOpen(open) /\ Grown(work.joints, open)
        /\ OffsetsAwaited(work.joints, open) /\ work.values = << >> /\ framesRead = 0
        /\ document = None /\ animation = None
    BY <2>1 DEF ImportInv, WorkInv, TableInv, CallerInv
  <2>3. /\ DOMAIN work' = DOMAIN work /\ work'.joints = work.joints /\ work'.values = work.values
        /\ work'.channelCount = work.channelCount /\ work'.frameCount = frames
    BY <2>1, <2>2 DEF WithMotion, IsWork
  <2>4. IsWork(work')
    BY <2>2, <2>3 DEF IsWork
  <2>5. RowsRead(work', 0)
    <3>1. work.channelCount \in Nat /\ Len(<< >>) = 0
      BY <2>2 DEF IsWork
    <3>2. Labelled(<< >>, work.channelCount, 0)
      BY DEF Labelled
    <3>3. 0 * work.channelCount = 0
      BY <3>1
    <3>4. QED
      BY <2>2, <2>3, <3>1, <3>2, <3>3 DEF RowsRead
  <2>6. framesRead' = 0 /\ document' = None /\ animation' = None
    BY <2>1, <2>2 DEF Parsing
  <2>7. Grown(work'.joints, open') /\ OffsetsAwaited(work'.joints, open') /\ IsOpen(open')
    BY <2>1, <2>2, <2>3
  <2>8. IdleInv' /\ WorkInv'
    BY <2>1, <2>4, <2>7 DEF IdleInv, WorkInv
  <2>9. TableInv'
    BY <2>1, <2>5, <2>6 DEF TableInv
  <2>10. CallerInv'
    BY <2>1, <2>6 DEF CallerInv
  <2>11. QED
    BY <2>8, <2>9, <2>10 DEF ImportInv
<1>3. QED
  BY <1>1, <1>2

RowWords == {"finite", "huge", "nonfinite", "word"}

LEMMA RowsAreLists ==
  ASSUME NEW w \in Nat, NEW kinds \in Rows(w)
  PROVE  IsSequence(kinds) /\ \A i \in DOMAIN kinds : kinds[i] \in RowWords
<1> DEFINE plain(n) == [i \in 1 .. n |-> "finite"]
<1>1. \/ \E n \in Nat : kinds = plain(n)
      \/ \E i \in 1 .. w, kind \in {"huge", "nonfinite", "word"} :
           kinds = [plain(w) EXCEPT ![i] = kind]
  <2>1. \A n \in {w - 1, w, w + 1} \ {0, -1} : n \in Nat
    OBVIOUS
  <2>2. \/ kinds \in {plain(n) : n \in {w - 1, w, w + 1} \ {0, -1}}
        \/ kinds \in {[plain(w) EXCEPT ![i] = kind] :
                        i \in {w} \cap 1 .. w, kind \in {"huge", "nonfinite", "word"}}
    BY DEF Rows
  <2> HIDE DEF plain
  <2>3. QED
    BY <2>1, <2>2
<1>2. \E n \in Nat : /\ DOMAIN kinds = 1 .. n /\ kinds = [i \in 1 .. n |-> kinds[i]]
                     /\ \A i \in 1 .. n : kinds[i] \in RowWords
  <2>1. CASE \E n \in Nat : kinds = plain(n)
    <3>1. PICK n \in Nat : kinds = plain(n)
      BY <2>1
    <3>2. DOMAIN kinds = 1 .. n /\ kinds = [i \in 1 .. n |-> kinds[i]]
      BY <3>1
    <3>3. \A i \in 1 .. n : kinds[i] \in RowWords
      BY <3>1 DEF RowWords
    <3>4. QED
      BY <3>2, <3>3
  <2>2. CASE \E i \in 1 .. w, kind \in {"huge", "nonfinite", "word"} :
               kinds = [plain(w) EXCEPT ![i] = kind]
    <3>1. PICK i \in 1 .. w, kind \in {"huge", "nonfinite", "word"} :
                 kinds = [plain(w) EXCEPT ![i] = kind]
      BY <2>2
    <3>2. DOMAIN kinds = 1 .. w /\ \A k \in 1 .. w : kinds[k] = IF k = i THEN kind ELSE "finite"
      BY <3>1
    <3>3. kinds = [k \in 1 .. w |-> kinds[k]]
      BY <3>1, <3>2
    <3>4. \A k \in 1 .. w : kinds[k] \in RowWords
      BY <3>1, <3>2 DEF RowWords
    <3>5. QED
      BY <3>2, <3>3, <3>4
  <2>3. QED
    BY <1>1, <2>1, <2>2
<1>3. QED
  BY <1>2, ListIsASequence

LEMMA RowTaken ==
  ASSUME NEW kinds, RowRefusal(kinds) = None
  PROVE  /\ ~(framesRead >= work.frameCount) /\ Len(kinds) = work.channelCount
         /\ \A i \in DOMAIN kinds : kinds[i] \notin {"word", "nonfinite"}
<1> DEFINE bad(i) == i > work.channelCount \/ kinds[i] \in {"word", "nonfinite"}
           refused == {i \in DOMAIN kinds : bad(i)}
           first == Min(refused)
<1>1. None # "ParseFailed" /\ None # "FrameWidthMismatch" /\ None # "NonFiniteValue"
  BY AbsenceAssumption
<1>2. RowRefusal(kinds) =
        IF framesRead >= work.frameCount THEN "ParseFailed"
        ELSE IF refused = {} /\ Len(kinds) = work.channelCount THEN None
        ELSE IF refused = {} \/ first > work.channelCount THEN "FrameWidthMismatch"
        ELSE IF kinds[first] = "word" THEN "ParseFailed"
        ELSE "NonFiniteValue"
  BY Zenon DEF RowRefusal
<1> HIDE DEF refused, first
<1>3. /\ ~(framesRead >= work.frameCount) /\ Len(kinds) = work.channelCount
      /\ refused = {}
  BY <1>1, <1>2
<1>4. QED
  BY <1>3 DEF refused

(* The row a line of the motion table becomes.                             *)
IsRow(row, w, f) ==
  /\ IsSequence(row) /\ Len(row) = w
  /\ \A i \in 1 .. w : row[i] \in Numbers /\ row[i].from = <<"row", f, i>>

HasRows(values, w, r) == IsSequence(values) /\ Len(values) = r * w /\ Labelled(values, w, r)

(* One row more keeps every number in its place.                           *)
LEMMA RowJoins ==
  ASSUME NEW values, NEW row, NEW w \in Nat, NEW r \in Nat,
         HasRows(values, w, r), IsRow(row, w, r + 1)
  PROVE  HasRows(Joined(values, row), w, r + 1)
<1> DEFINE all == Joined(values, row)
           size == r * w
<1>1. /\ IsSequence(values) /\ Len(values) = size /\ Labelled(values, w, r)
      /\ IsSequence(row) /\ Len(row) = w
      /\ \A i \in 1 .. w : row[i] \in Numbers /\ row[i].from = <<"row", r + 1, i>>
  BY DEF HasRows, IsRow
<1>2. /\ IsSequence(all) /\ Len(all) = size + w
      /\ \A i \in 1 .. size : all[i] = values[i]
      /\ \A i \in 1 .. w : all[size + i] = row[i]
  <2>1. /\ IsSequence(all) /\ Len(all) = Len(values) + Len(row)
        /\ \A i \in 1 .. Len(values) : all[i] = values[i]
        /\ \A i \in 1 .. Len(row) : all[Len(values) + i] = row[i]
    <3>1. IsSequence(values) /\ IsSequence(row)
      BY DEF HasRows, IsRow
    <3>2. QED
      BY <3>1, ListsJoin
  <2> HIDE DEF all, size
  <2>2. QED
    BY <1>1, <2>1
<1>3. size \in Nat /\ (r + 1) * w = size + w /\ DOMAIN values = 1 .. size
  <2>1. size \in Nat /\ (r + 1) * w = size + w
    <3>1. r * w \in Int /\ 0 * w <= r * w /\ (r + 1) * w = r * w + w
      BY Multiples
    <3>2. QED
      BY <3>1
  <2>2. QED
    BY <1>1, <2>1, SequenceShape
<1> HIDE DEF all
<1>4. ASSUME NEW f \in 1 .. r + 1, NEW i \in 1 .. w
      PROVE  LET place == (f - 1) * w + i
             IN  place \in DOMAIN all => all[place] \in Numbers /\ all[place].from = <<"row", f, i>>
  <2>1. CASE f = r + 1
    <3>1. (f - 1) * w = size
      <4>1. f - 1 = r
        BY <2>1
      <4>2. QED
        BY <4>1
    <3>2. all[size + i] = row[i] /\ row[i] \in Numbers /\ row[i].from = <<"row", f, i>>
      BY <1>1, <1>2, <2>1
    <3> HIDE DEF size
    <3>3. QED
      BY <3>1, <3>2
  <2>2. CASE f # r + 1
    <3>1. f \in 1 .. r /\ f \in Nat /\ f - 1 \in Nat
      BY <2>2
    <3> DEFINE place == (f - 1) * w + i
    <3>2. place \in 1 .. size
      <4>1. /\ (f - 1) * w \in Int /\ 0 * w <= (f - 1) * w /\ (f - 1) * w = f * w - w
            /\ f * w <= r * w /\ f * w \in Int
        BY <3>1, Multiples
      <4> DEFINE before == (f - 1) * w
                 after == f * w
      <4>2. before \in Nat /\ before = after - w /\ after <= size /\ after \in Int
        <5>1. 0 * w = 0
          OBVIOUS
        <5>2. QED
          BY <4>1, <5>1
      <4> HIDE DEF before, after, size
      <4>3. before + i \in 1 .. size
        BY <1>3, <4>2
      <4>4. QED
        BY <4>3 DEF before
    <3>3. values[place] \in Numbers /\ values[place].from = <<"row", f, i>>
      BY <1>1, <1>3, <3>1, <3>2 DEF Labelled
    <3> HIDE DEF place, size
    <3>4. all[place] = values[place]
      BY <1>2, <3>2
    <3>5. QED
      BY <3>3, <3>4 DEF place
  <2>3. QED
    BY <2>1, <2>2
<1>5. Labelled(all, w, r + 1)
  BY <1>4 DEF Labelled
<1>6. QED
  BY <1>2, <1>3, <1>5 DEF all, HasRows

WithRow(d, row) == [d EXCEPT !.values = @ \o row]

LEMMA ReadRowKeeps ==
  ASSUME ImportInv, NEW kinds \in Rows(work.channelCount), ReadRow(kinds)
  PROVE  ImportInv'
<1> DEFINE row == [i \in DOMAIN kinds |-> Stored(<<"row", framesRead + 1, i>>, kinds[i])]
           w == work.channelCount
<1>1. CASE \E code : RefuseHere(code)
  BY <1>1, RefuseKeeps DEF RefuseHere
<1>2. CASE ~\E code : RefuseHere(code)
  <2>1. /\ stage = "rows" /\ kinds # << >> /\ RowRefusal(kinds) = None
        /\ work' = WithRow(work, row) /\ framesRead' = framesRead + 1
        /\ UNCHANGED <<stage, open, document, diagnostic, skeleton, animation>>
    BY <1>2, Zenon DEF ReadRow, WithRow
  <2>2. /\ IsWork(work) /\ IsOpen(open) /\ Grown(work.joints, open)
        /\ OffsetsAwaited(work.joints, open) /\ open = << >> /\ RowsRead(work, framesRead)
        /\ document = None /\ animation = None
    BY <2>1 DEF ImportInv, WorkInv, TableInv, CallerInv
  <2>3. w \in Nat /\ framesRead \in Nat
    BY <2>2 DEF IsWork, RowsRead
  <2>4. /\ IsSequence(kinds) /\ Len(kinds) = w /\ DOMAIN kinds = 1 .. w
        /\ \A i \in 1 .. w : kinds[i] \in {"finite", "huge"}
    <3>1. IsSequence(kinds) /\ \A i \in DOMAIN kinds : kinds[i] \in RowWords
      BY <2>3, RowsAreLists
    <3>2. Len(kinds) = w /\ \A i \in DOMAIN kinds : kinds[i] \notin {"word", "nonfinite"}
      BY <2>1, RowTaken
    <3>3. DOMAIN kinds = 1 .. w
      BY <3>1, <3>2, SequenceShape
    <3>4. QED
      BY <3>1, <3>2, <3>3 DEF RowWords
  <2>5. w # 0
    <3>1. Len(kinds) = 0 => kinds = << >>
      BY <2>4, SequenceShape
    <3>2. QED
      BY <2>1, <2>4, <3>1
  <2>6. IsRow(row, w, framesRead + 1)
    <3>1. ASSUME NEW i \in 1 .. w
          PROVE  row[i] \in Numbers /\ row[i].from = <<"row", framesRead + 1, i>>
      <4>1. row[i] = Stored(<<"row", framesRead + 1, i>>, kinds[i])
        BY <2>4
      <4>2. row[i] = [from |-> <<"row", framesRead + 1, i>>,
                      kind |-> IF kinds[i] = "huge" THEN "nonfinite" ELSE kinds[i]]
        BY <4>1 DEF Stored, Number
      <4> DEFINE kind == IF kinds[i] = "huge" THEN "nonfinite" ELSE kinds[i]
      <4>2a. kind \in {"zero", "finite", "nonfinite"}
        BY <2>4
      <4>3. <<"row", framesRead + 1, i>> \in {"row"} \X Nat \X Nat
        BY <2>3
      <4> HIDE DEF row, kind
      <4>4. QED
        BY <4>2, <4>2a, <4>3 DEF Numbers, kind
    <3>2. row = [i \in 1 .. w |-> row[i]]
      BY <2>4
    <3> HIDE DEF row, w
    <3>3. IsSequence(row) /\ Len(row) = w
      BY <2>3, <3>2, ListIsASequence
    <3>4. QED
      BY <3>1, <3>3 DEF IsRow
  <2>7. /\ DOMAIN work' = DOMAIN work /\ work'.joints = work.joints
        /\ work'.channelCount = work.channelCount /\ work'.frameCount = work.frameCount
        /\ work'.values = Joined(work.values, row)
    BY <2>1, <2>2 DEF WithRow, IsWork, Joined
  <2> HIDE DEF row, w
  <2>8. HasRows(work'.values, w, framesRead + 1)
    <3>1. HasRows(work.values, w, framesRead)
      BY <2>2 DEF IsWork, RowsRead, HasRows, w
    <3>2. QED
      BY <2>3, <2>6, <2>7, <3>1, RowJoins
  <2>9. IsWork(work')
    BY <2>2, <2>7, <2>8 DEF IsWork, HasRows
  <2>10. RowsRead(work', framesRead')
    BY <2>1, <2>3, <2>5, <2>7, <2>8 DEF RowsRead, HasRows, w
  <2>11. IdleInv' /\ WorkInv'
    BY <2>1, <2>2, <2>7, <2>9 DEF IdleInv, WorkInv
  <2>12. TableInv'
    BY <2>1, <2>2, <2>10 DEF TableInv
  <2>13. CallerInv'
    BY <2>1, <2>2 DEF CallerInv
  <2>14. QED
    BY <2>11, <2>12, <2>13 DEF ImportInv
<1>3. QED
  BY <1>1, <1>2

(* Every frame of a table that has its rows has one.                       *)
LEMMA FramesStand ==
  ASSUME NEW d, d.channelCount \in Nat \ {0}, d.frameCount \in Nat,
         HasRows(d.values, d.channelCount, d.frameCount), NEW f \in 1 .. d.frameCount
  PROVE  Frame(d, f) # None
<1> DEFINE w == d.channelCount
           before == (f - 1) * w
           after == f * w
           values == d.values
           row == SubSeq(values, before + 1, before + w)
<1>1. w \in Nat \ {0} /\ d.frameCount \in Nat /\ f \in Nat /\ f - 1 \in Nat /\ f <= d.frameCount
  OBVIOUS
<1>2. IsSequence(values) /\ Len(values) = d.frameCount * w /\ Labelled(values, w, d.frameCount)
  BY DEF HasRows
<1> HIDE DEF w, values
<1>3. before \in Nat /\ before + w = after /\ after \in Nat /\ after <= Len(values)
  <2>1. /\ (f - 1) * w \in Int /\ 0 * w <= (f - 1) * w /\ (f - 1) * w = f * w - w
        /\ f * w <= d.frameCount * w /\ f * w \in Int
    BY <1>1, Multiples
  <2>2. 0 * w = 0
    BY <1>1
  <2>3. QED
    BY <1>1, <1>2, <2>1, <2>2
<1>4. DOMAIN values = 1 .. Len(values) /\ Len(values) \in Nat
  BY <1>2, SequenceShape
<1>5. \A i \in 1 .. w : before + i \in DOMAIN values => values[before + i] \in Numbers
  BY <1>1, <1>2 DEF Labelled
<1>6. Frame(d, f) = IF \/ f \notin 1 .. d.frameCount
                       \/ w = 0
                       \/ before + w > Len(values)
                    THEN None ELSE row
  BY Zenon DEF Frame, w, values
<1> HIDE DEF before, after
<1>7. \A i \in before + 1 .. before + w : values[i] \in Numbers
  <2> SUFFICES ASSUME NEW i \in before + 1 .. before + w PROVE values[i] \in Numbers
    OBVIOUS
  <2>1. i - before \in 1 .. w /\ before + (i - before) = i /\ i \in 1 .. Len(values)
    BY <1>1, <1>3, <1>4
  <2>2. QED
    BY <1>4, <1>5, <2>1
<1>8. row \in Seq(Numbers)
  <2>1. before + 1 \in Int /\ before + w \in Int
    BY <1>1, <1>3
  <2>2. QED
    BY <1>7, <2>1, SubSeqProperties
<1> HIDE DEF row
<1>9. row # None
  BY <1>8, AbsenceAssumption
<1>10. Frame(d, f) = row
  BY <1>1, <1>3, <1>4, <1>6
<1>11. QED
  BY <1>9, <1>10

LEMMA EndOfTextKeeps ==
  ASSUME ImportInv, EndOfText
  PROVE  ImportInv'
<1>1. CASE \E code : RefuseHere(code)
  BY <1>1, RefuseKeeps DEF RefuseHere
<1>2. CASE \E code : Refuse(code, "none")
  BY <1>2, RefuseKeeps
<1>3. CASE ~\E code : RefuseHere(code) \/ Refuse(code, "none")
  <2>1. /\ stage = "rows" /\ framesRead = work.frameCount /\ DocumentRefusal(work) = None
        /\ document' = work /\ stage' = "parsed" /\ work' = NoDocument /\ framesRead' = 0
        /\ UNCHANGED <<open, diagnostic, skeleton, animation>>
    BY <1>3, Zenon DEF EndOfText
  <2>2. /\ IsWork(work) /\ Grown(work.joints, open) /\ OffsetsAwaited(work.joints, open)
        /\ open = << >> /\ RowsRead(work, framesRead) /\ animation = None
    BY <2>1 DEF ImportInv, WorkInv, TableInv, CallerInv
  <2>3. work.channelCount \in Nat /\ work.frameCount \in Nat
    BY <2>2 DEF IsWork
  <2>4. HasRows(work.values, work.channelCount, work.frameCount)
    BY <2>1, <2>2 DEF RowsRead, HasRows, IsWork
  <2>5. \A f \in 1 .. work.frameCount : Frame(work, f) # None
    <3> SUFFICES ASSUME NEW f \in 1 .. work.frameCount PROVE Frame(work, f) # None
      OBVIOUS
    <3>1. work.channelCount > 0
      BY <2>1, <2>2, <2>3 DEF RowsRead
    <3>2. work.channelCount \in Nat \ {0}
      BY <2>3, <3>1
    <3>3. QED
      BY <2>3, <2>4, <3>2, FramesStand
  <2>6. IsDocument(work)
    <3>1. \A j \in DOMAIN work.joints : IsSequence(work.joints[j].channels) /\ work.joints[j].parent \in Int
      <4>1. \A j \in DOMAIN work.joints : IsJoint(work.joints[j])
        BY <2>2 DEF IsWork
      <4>2. \A channels \in ChannelLists : IsSequence(channels)
        BY ImportAssumption
      <4>3. QED
        BY <4>1, <4>2, NoJointIsWork DEF IsJoint
    <3>2. Labelled(work.values, work.channelCount, work.frameCount)
      BY <2>4 DEF HasRows
    <3>3. IsSequence(work.joints) /\ IsSequence(work.values)
      BY <2>2 DEF IsWork
    <3>4. QED
      BY <2>3, <3>1, <3>2, <3>3, Zenon DEF IsDocument, Labelled
  <2>7. Stated(work)
    <3>1. \A j \in DOMAIN work.joints : work.joints[j].name \in Names
      BY <2>2 DEF IsWork, IsJoint
    <3>2. \A j \in DOMAIN work.joints : DOMAIN work.joints[j].offset = 1 .. 3
      <4>1. DOMAIN open = {}
        BY <2>2
      <4>2. QED
        BY <2>2, <4>1 DEF OffsetsAwaited
    <3>3. \A j \in DOMAIN work.joints : work.joints[j].name # ""
      BY <3>1, ImportAssumption, Zenon
    <3>4. QED
      BY <3>2, <3>3, Zenon DEF Stated
  <2>8. Grown(work.joints, << >>)
    BY <2>2
  <2>9. IsParsed(work)
    BY <2>1, <2>5, <2>6, <2>7, <2>8 DEF IsParsed
  <2>10. IdleInv' /\ WorkInv' /\ TableInv'
    BY <2>1 DEF IdleInv, WorkInv, TableInv
  <2>11. CallerInv'
    <3>1. /\ stage' = "parsed" /\ IsDocument(document') /\ IsParsed(document') /\ animation' = None
      BY <2>1, <2>2, <2>6, <2>9
    <3>2. QED
      BY <3>1 DEF CallerInv
  <2>12. QED
    BY <2>10, <2>11 DEF ImportInv
<1>4. QED
  BY <1>1, <1>2, <1>3

-----------------------------------------------------------------------------
(* After the parse.                                                        *)

LEMMA AssembleKeeps ==
  ASSUME ImportInv, NEW d \in HandDocuments, Assemble(d)
  PROVE  ImportInv'
<1>1. /\ stage = "idle" /\ document' = d /\ stage' = "assembled"
      /\ UNCHANGED <<work, open, framesRead, diagnostic, skeleton, animation>>
  BY DEF Assemble
<1>2. IsDocument(d)
  BY HandDocumentsAssumption
<1>3. animation = None
  BY <1>1 DEF ImportInv, CallerInv
<1>4. IdleInv' /\ WorkInv' /\ TableInv'
  BY <1>1 DEF IdleInv, WorkInv, TableInv
<1>5. CallerInv'
  BY <1>1, <1>2, <1>3 DEF CallerInv
<1>6. QED
  BY <1>4, <1>5 DEF ImportInv

LEMMA ExtractKeeps ==
  ASSUME ImportInv, Extract
  PROVE  ImportInv'
<1>1. CASE \E code : Refuse(code, "none")
  BY <1>1, RefuseKeeps
<1>2. CASE ~\E code : Refuse(code, "none")
  <2>1. /\ stage \in {"parsed", "assembled"} /\ ExtractionRefusal(document) = None
        /\ animation' = ExtractedClip(document) /\ stage' = "extracted"
        /\ UNCHANGED <<work, open, framesRead, document, diagnostic>>
    BY <1>2, Zenon DEF Extract
  <2>2. IsDocument(document)
    BY <2>1 DEF ImportInv, CallerInv
  <2>3. IdleInv' /\ WorkInv' /\ TableInv'
    BY <2>1 DEF IdleInv, WorkInv, TableInv
  <2>4. CallerInv'
    BY <2>1, <2>2 DEF CallerInv
  <2>5. QED
    BY <2>3, <2>4 DEF ImportInv
<1>3. QED
  BY <1>1, <1>2

LEMMA ImportStart == Init => ImportInv
<1> SUFFICES ASSUME Init PROVE ImportInv
  OBVIOUS
<1>1. QED
  BY DEF Init, ImportInv, IdleInv, WorkInv, TableInv, CallerInv

LEMMA ImportStep == ImportInv /\ [Next]_importVars => ImportInv'
<1> SUFFICES ASSUME ImportInv, [Next]_importVars PROVE ImportInv'
  OBVIOUS
<1>1. CASE Malformed
  BY <1>1, RefuseKeeps DEF Malformed, RefuseHere
<1>2. CASE \E name \in Names : OpenRoot(name) \/ OpenJoint(name)
  BY <1>2, OpenRootKeeps, OpenJointKeeps
<1>3. CASE \E kind \in OffsetKinds : ReadOffset(kind) \/ ReadEndSite(kind)
  BY <1>3, ReadOffsetKeeps, ReadEndSiteKeeps
<1>4. CASE \E channels \in ChannelLists : ReadChannels(channels)
  BY <1>4, ReadChannelsKeeps
<1>5. CASE CloseJoint
  BY <1>5, CloseJointKeeps
<1>6. CASE \E frames \in 0 .. FramesBound, time \in FrameTimes : ReadMotionHeader(frames, time)
  <2>1. PICK frames \in 0 .. FramesBound, time \in FrameTimes : ReadMotionHeader(frames, time)
    BY <1>6
  <2>2. frames \in Nat
    OBVIOUS
  <2>3. QED
    BY <2>1, <2>2, ReadMotionHeaderKeeps
<1>7. CASE \E kinds \in Rows(work.channelCount) : ReadRow(kinds)
  BY <1>7, ReadRowKeeps
<1>8. CASE EndOfText
  BY <1>8, EndOfTextKeeps
<1>9. CASE \E d \in HandDocuments : Assemble(d)
  BY <1>9, AssembleKeeps
<1>10. CASE Extract
  BY <1>10, ExtractKeeps
<1>11. CASE UNCHANGED importVars
  BY <1>11 DEF importVars, ImportInv, IdleInv, WorkInv, TableInv, CallerInv
<1>12. QED
  BY <1>1, <1>2, <1>3, <1>4, <1>5, <1>6, <1>7, <1>8, <1>9, <1>10, <1>11 DEF Next

(* The invariant of the parse holds throughout.                            *)
THEOREM ImportInvHolds == Spec => []ImportInv
<1>1. Init => ImportInv
  BY ImportStart
<1>2. ImportInv /\ [Next]_importVars => ImportInv'
  BY ImportStep
<1>3. QED
  BY <1>1, <1>2, PTL DEF Spec

-----------------------------------------------------------------------------
(* What the runs check.                                                    *)

LEMMA ParsedIsWithinLimits ==
  ASSUME ImportInv, stage = "parsed"
  PROVE  /\ \A j \in DOMAIN document.joints :
              /\ \E k \in 0 .. j - 1 : ParentWalk(document.joints, j)[k] = 1
              /\ BvhDepth(document.joints, j) < MaxHierarchyDepth
         /\ Len(document.joints) <= Larger(1, MaxJoints)
         /\ \A f \in 1 .. document.frameCount : Frame(document, f) # None
         /\ IsFiniteTuple(document.values)
<1>1. IsParsed(document)
  BY DEF ImportInv, CallerInv
<1>2. /\ IsDocument(document) /\ DocumentRefusal(document) = None /\ Grown(document.joints, << >>)
      /\ \A f \in 1 .. document.frameCount : Frame(document, f) # None
  BY <1>1 DEF IsParsed
<1>3. IsSequence(document.joints)
  BY <1>2 DEF IsDocument
<1>4. PICK level : Nested(document.joints, level, << >>)
  BY <1>2 DEF Grown
<1>5. ASSUME NEW j \in DOMAIN document.joints
      PROVE  /\ \E k \in 0 .. j - 1 : ParentWalk(document.joints, j)[k] = 1
             /\ BvhDepth(document.joints, j) < MaxHierarchyDepth
  <2>1. Levels(document.joints, level) /\ level[j] < MaxHierarchyDepth
    BY <1>4 DEF Nested
  <2>2. /\ level[j] \in 0 .. j - 1
        /\ ParentWalk(document.joints, j)[level[j]] = 1
        /\ BvhDepth(document.joints, j) = level[j]
    BY <1>3, <2>1, LevelIsDepth
  <2>3. QED
    BY <2>1, <2>2
<1>6. Len(document.joints) <= Larger(1, MaxJoints)
  BY <1>2 DEF Grown
<1>7. IsFiniteTuple(document.values)
  BY <1>2, DocumentHolds
<1>8. QED
  BY <1>2, <1>5, <1>6, <1>7

(* Whatever the limits and whatever the file says, a document read from it *)
(* is a tree within them, with every row and every number in range.        *)
(* Parser::ReadJointBody, Parser::Parse and ValidateBvhDocument.           *)
THEOREM DocumentWithinLimits == Spec => []DocumentIsWithinLimits
<1>1. ImportInv => DocumentIsWithinLimits
  BY ParsedIsWithinLimits DEF DocumentIsWithinLimits
<1>2. QED
  BY <1>1, ImportInvHolds, PTL

(* Whatever the hierarchy declares, every number of an extracted clip is   *)
(* the one the file wrote for its joint, its channel and its frame.        *)
(* BuildLayout, ExtractBvhSource and ChannelValue.                         *)
THEOREM NumbersReachTheirJoints == Spec => []NumbersReachTheirJoint
<1>1. ASSUME ImportInv, animation # None
      PROVE  NumbersStand(document, animation.tracks)
  <2>1. IsDocument(document) /\ animation = ExtractedClip(document) /\ ExtractionRefusal(document) = None
    BY <1>1 DEF ImportInv, CallerInv
  <2>2. NumbersStand(document, ExtractedClip(document).tracks)
    BY <2>1, NumbersAreTheFiles
  <2>3. QED
    BY <2>1, <2>2
<1>2. ImportInv => NumbersReachTheirJoint
  BY <1>1, Zenon DEF NumbersReachTheirJoint, NumbersStand
<1>3. QED
  BY <1>2, ImportInvHolds, PTL

(* On any array of joints, a parsed document's or one assembled by hand,   *)
(* the two depth walks count a joint's ancestors.  BvhDocument::Depth and  *)
(* SourceSkeleton::Depth.                                                  *)
THEOREM DepthsCountAncestors == Spec => []DepthCountsAncestors
<1>1. ASSUME ImportInv, document # None, NEW j \in DOMAIN document.joints
      PROVE  LET ancestors == Cardinality(PlacesAbove(document.joints, j) \cap DOMAIN document.joints)
             IN  /\ BvhDepth(document.joints, j) = IF Endless(document.joints, j) THEN 0 ELSE ancestors
                 /\ SourceDepth(document.joints, j) =
                      IF Endless(document.joints, j) \/ 0 \notin PlacesAbove(document.joints, j)
                      THEN 0 ELSE ancestors
  <2>1. IsSequence(document.joints)
    BY <1>1 DEF ImportInv, CallerInv, IsDocument
  <2>2. QED
    BY <1>1, <2>1, DepthsAreCounts
<1>2. ImportInv => DepthCountsAncestors
  BY <1>1, Zenon DEF DepthCountsAncestors, PlacesAbove, Endless
<1>3. QED
  BY <1>2, ImportInvHolds, PTL

(* A parsed document is refused by the extraction for its channels and for *)
(* its tips only, whatever the file says.  DecodeBvhFile,                  *)
(* ValidateBvhDocument and ValidateSourceAnimation.                        *)
THEOREM ParsedIsExtracted == Spec => []ParsedDocumentIsExtracted
<1>1. ASSUME ImportInv, stage = "parsed"
      PROVE  ExtractionRefusal(document) = None <=>
               \A j \in DOMAIN document.joints :
                 /\ Distinct(document.joints[j].channels) /\ TurnsByNoneOrThree(document.joints[j])
                 /\ document.joints[j].endSite # None => ChildJoints(document.joints, j) = {}
  <2>1. /\ IsDocument(document) /\ Stated(document) /\ DocumentRefusal(document) = None
        /\ \A f \in 1 .. document.frameCount : Frame(document, f) # None
    BY <1>1 DEF ImportInv, CallerInv, IsParsed
  <2>2. QED
    BY <2>1, WhatIsExtracted
<1>2. ImportInv => ParsedDocumentIsExtracted
  BY <1>1, Zenon DEF ParsedDocumentIsExtracted, Distinct, TurnsByNoneOrThree
<1>3. QED
  BY <1>2, ImportInvHolds, PTL

=============================================================================

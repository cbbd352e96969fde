-------------------------- MODULE PoseBufferProofs --------------------------
(***************************************************************************)
(* Proofs about PoseBuffer, for every set of poses and capacities: the     *)
(* type invariant, the order and the bound of the history, and that the    *)
(* retained timestamps implement BoundedHistory.                           *)
(***************************************************************************)
EXTENDS PoseBuffer, SequenceTheorems, FiniteSetTheorems, SharedLemmas, TLAPS

(* Evicting from the front keeps a non-empty suffix within the bound.      *)
LEMMA KeepNewestProperties ==
  ASSUME NEW S, NEW s \in Seq(S), NEW n \in Nat \ {0}
  PROVE  LET k == KeepNewest(s, n)
             d == Len(s) - Len(k)
         IN  /\ k \in Seq(S)
             /\ Len(k) <= n
             /\ Len(k) <= Len(s)
             /\ s # <<>> => k # <<>>
             /\ \A i \in 1 .. Len(k) : k[i] = s[d + i]
<1>1. Len(s) \in Nat /\ DOMAIN s = 1 .. Len(s)
  BY LenProperties
<1>2. CASE Len(s) <= n
  BY <1>1, <1>2 DEF KeepNewest
<1>3. CASE Len(s) > n
  <2> DEFINE m == Len(s) - n + 1
             k == SubSeq(s, m, Len(s))
  <2>1. KeepNewest(s, n) = k
    BY <1>1, <1>3 DEF KeepNewest
  <2>2. m \in Int /\ m \in 1 .. Len(s) /\ Len(s) - m + 1 = n
    BY <1>1, <1>3
  <2>3. \A i \in m .. Len(s) : s[i] \in S
    BY <1>1, <2>2, ElementOfSeq
  <2>4. /\ k \in Seq(S)
        /\ Len(k) = IF m <= Len(s) THEN Len(s) - m + 1 ELSE 0
        /\ \A i \in 1 .. Len(s) - m + 1 : k[i] = s[m + i - 1]
    <3> HIDE DEF m
    <3> QED BY <1>1, <2>2, <2>3, SubSeqProperties
  <2>5. Len(k) = n
    BY <2>2, <2>4
  <2>6. \A i \in 1 .. n : k[i] = s[(Len(s) - n) + i]
    BY <1>1, <2>2, <2>4
  <2>7. k # <<>>
    BY <2>5
  <2> QED
    BY <1>1, <1>3, <2>1, <2>4, <2>5, <2>6, <2>7
<1> QED
  BY <1>1, <1>2, <1>3

(* The newest sample survives an eviction.                                 *)
LEMMA KeepNewestLast ==
  ASSUME NEW S, NEW s \in Seq(S), s # <<>>, NEW n \in Nat \ {0}
  PROVE  Newest(KeepNewest(s, n)) = Newest(s)
<1> DEFINE k == KeepNewest(s, n)
<1>1. /\ k \in Seq(S)
      /\ k # <<>>
      /\ \A i \in 1 .. Len(k) : k[i] = s[(Len(s) - Len(k)) + i]
  BY KeepNewestProperties
<1>2. Len(k) \in Nat \ {0} /\ Len(s) \in Nat
  BY <1>1, EmptySeq, LenProperties
<1>3. k[Len(k)] = s[(Len(s) - Len(k)) + Len(k)]
  BY <1>1, <1>2
<1> QED
  BY <1>2, <1>3 DEF Newest

(* An accepted timestamp is finite and its span to the newest is, too.     *)
LEMMA AcceptedSpan ==
  ASSUME TypeOK, NEW pose \in PushedPose, Accepts(pose)
  PROVE  /\ pose \in Pose
         /\ samples # <<>> =>
              /\ Newest(samples) \in Pose
              /\ Newest(samples).timestamp < pose.timestamp
              /\ IsFinite(pose.timestamp - Newest(samples).timestamp)
<1>1. pose.timestamp \in Time
  BY DEF Accepts, IsFinite
<1>2. pose \in Pose
  BY <1>1 DEF Pose, PushedPose
<1>3. ASSUME samples # <<>>
      PROVE  /\ Newest(samples) \in Pose
             /\ Newest(samples).timestamp < pose.timestamp
             /\ IsFinite(pose.timestamp - Newest(samples).timestamp)
  <2>1. Newest(samples) \in Pose
    BY <1>3, EmptySeq, ElementOfSeq DEF TypeOK, Newest
  <2>2. Newest(samples).timestamp \in Time
    BY <2>1 DEF Pose
  <2>3. /\ pose.timestamp > Newest(samples).timestamp
        /\ IsFinite(Minus(pose.timestamp, Newest(samples).timestamp))
    BY <1>3 DEF Accepts
  <2> QED
    BY <1>1, <2>1, <2>2, <2>3, TimeAssumption
       DEF Minus, Finite, IsFinite, Time, NonFinite
<1> QED
  BY <1>2, <1>3

(* Appending a later pose keeps a history ordered.                         *)
LEMMA AppendOrdered ==
  ASSUME NEW s \in Seq(Pose), Ordered(s), NEW pose \in Pose,
         s # <<>> => /\ Newest(s).timestamp < pose.timestamp
                     /\ IsFinite(pose.timestamp - Newest(s).timestamp)
  PROVE  Ordered(Append(s, pose))
<1> DEFINE a == Append(s, pose)
<1>1. /\ a \in Seq(Pose)
      /\ Len(a) = Len(s) + 1
      /\ \A i \in 1 .. Len(s) : a[i] = s[i]
      /\ a[Len(s) + 1] = pose
      /\ Len(s) \in Nat
  BY AppendProperties, LenProperties
<1>2. SUFFICES ASSUME NEW i \in 2 .. Len(a)
               PROVE  /\ a[i - 1].timestamp < a[i].timestamp
                      /\ IsFinite(a[i].timestamp - a[i - 1].timestamp)
  BY DEF Ordered
<1>3. CASE i \in 2 .. Len(s)
  BY <1>1, <1>3 DEF Ordered
<1>4. CASE i = Len(s) + 1
  <2>1. s # <<>> /\ a[i - 1] = Newest(s) /\ a[i] = pose
    BY <1>1, <1>4 DEF Newest
  <2> QED
    BY <2>1
<1> QED
  BY <1>1, <1>2, <1>3, <1>4

(* Evicting from the front keeps a history ordered.                        *)
LEMMA KeepNewestOrdered ==
  ASSUME NEW s \in Seq(Pose), Ordered(s), NEW n \in Nat \ {0}
  PROVE  Ordered(KeepNewest(s, n))
<1> DEFINE k == KeepNewest(s, n)
           d == Len(s) - Len(k)
<1>1. /\ k \in Seq(Pose)
      /\ Len(k) <= Len(s)
      /\ \A i \in 1 .. Len(k) : k[i] = s[d + i]
  BY KeepNewestProperties
<1>2. Len(k) \in Nat /\ Len(s) \in Nat /\ d \in Nat
  BY <1>1, LenProperties
<1>3. SUFFICES ASSUME NEW i \in 2 .. Len(k)
               PROVE  /\ k[i - 1].timestamp < k[i].timestamp
                      /\ IsFinite(k[i].timestamp - k[i - 1].timestamp)
  BY DEF Ordered
<1>4. k[i] = s[d + i] /\ k[i - 1] = s[d + (i - 1)]
  BY <1>1, <1>2
<1>5. d + i \in 2 .. Len(s) /\ (d + i) - 1 = d + (i - 1)
  BY <1>2
<1> HIDE DEF d, k
<1> QED
  BY <1>4, <1>5 DEF Ordered

-----------------------------------------------------------------------------
(* The inductive invariant: the type invariant is needed for Newest to be  *)
(* a pose, the order and the bound are inductive with it.                  *)
IInv == TypeOK /\ BufferInvariant

LEMMA InitIInv == Init => IInv
<1> SUFFICES ASSUME Init PROVE IInv
  OBVIOUS
<1>1. capacity \in Nat \ {0}
  BY CapacityAssumption DEF Init
<1>2. samples \in Seq(Pose) /\ Len(samples) = 0
  BY EmptySeq DEF Init
<1> QED
  BY <1>1, <1>2 DEF IInv, TypeOK, BufferInvariant, Ordered

LEMMA PushIInv ==
  ASSUME IInv, NEW pose \in PushedPose, Push(pose)
  PROVE  IInv'
<1>1. CASE Accepts(pose)
  <2> DEFINE a == Append(samples, pose)
  <2>1. /\ pose \in Pose
        /\ samples # <<>> =>
             /\ Newest(samples).timestamp < pose.timestamp
             /\ IsFinite(pose.timestamp - Newest(samples).timestamp)
    BY <1>1, AcceptedSpan DEF IInv
  <2>2. a \in Seq(Pose)
    BY <2>1, AppendProperties DEF IInv, TypeOK
  <2>3. Ordered(a)
    BY <2>1, AppendOrdered DEF IInv, TypeOK, BufferInvariant
  <2>4. samples' = KeepNewest(a, capacity) /\ capacity' = capacity
    BY <1>1 DEF Push
  <2>5. capacity \in Nat \ {0}
    BY DEF IInv, TypeOK
  <2>6. samples' \in Seq(Pose) /\ Len(samples') <= capacity
    BY <2>2, <2>4, <2>5, KeepNewestProperties
  <2>7. Ordered(samples')
    BY <2>2, <2>3, <2>4, <2>5, KeepNewestOrdered
  <2> QED
    BY <2>4, <2>5, <2>6, <2>7 DEF IInv, TypeOK, BufferInvariant
<1>2. CASE ~Accepts(pose)
  BY <1>2 DEF Push, IInv, TypeOK, BufferInvariant, Ordered
<1> QED
  BY <1>1, <1>2

LEMMA SetCapacityIInv ==
  ASSUME IInv, NEW c \in Nat, SetCapacity(c)
  PROVE  IInv'
<1>1. capacity' \in Nat \ {0} /\ samples' = KeepNewest(samples, capacity')
  BY DEF SetCapacity, IInv, TypeOK
<1>2. samples \in Seq(Pose) /\ Ordered(samples)
  BY DEF IInv, TypeOK, BufferInvariant
<1>3. samples' \in Seq(Pose) /\ Len(samples') <= capacity'
  BY <1>1, <1>2, KeepNewestProperties
<1>4. Ordered(samples')
  BY <1>1, <1>2, KeepNewestOrdered
<1> QED
  BY <1>1, <1>3, <1>4 DEF IInv, TypeOK, BufferInvariant

LEMMA ClearIInv ==
  ASSUME IInv, Clear
  PROVE  IInv'
<1>1. samples' \in Seq(Pose) /\ Len(samples') = 0
  BY EmptySeq DEF Clear
<1> QED
  BY <1>1 DEF Clear, IInv, TypeOK, BufferInvariant, Ordered

LEMMA NextIInv == IInv /\ [Next]_vars => IInv'
<1> SUFFICES ASSUME IInv, [Next]_vars PROVE IInv'
  OBVIOUS
<1>1. ASSUME NEW pose \in Candidates, Push(pose) PROVE IInv'
  BY <1>1, PushIInv, CandidatesAssumption
<1>2. ASSUME NEW c \in Capacities, SetCapacity(c) PROVE IInv'
  BY <1>2, SetCapacityIInv, CapacityAssumption
<1>3. CASE Clear
  BY <1>3, ClearIInv
<1>4. CASE UNCHANGED vars
  BY <1>4 DEF vars, IInv, TypeOK, BufferInvariant, Ordered
<1> QED
  BY <1>1, <1>2, <1>3, <1>4 DEF Next

(* The buffer only ever holds finite poses, and its capacity is positive.  *)
THEOREM BufferTypeCorrect == Spec => []TypeOK
<1>1. IInv => TypeOK
  BY DEF IInv
<1> QED
  BY <1>1, InitIInv, NextIInv, PTL DEF Spec

(* The history is strictly ordered, with finite spans, and bounded,        *)
(* whatever is pushed and however the capacity changes.                    *)
THEOREM BufferOrderedAndBounded == Spec => []BufferInvariant
<1>1. IInv => BufferInvariant
  BY DEF IInv
<1> QED
  BY <1>1, InitIInv, NextIInv, PTL DEF Spec

-----------------------------------------------------------------------------
(* Refinement: the timestamps implement BoundedHistory.                    *)

LEMMA InstantsProperties ==
  ASSUME NEW s \in Seq(Pose)
  PROVE  /\ Instants(s) \in Seq(Time)
         /\ Len(Instants(s)) = Len(s)
         /\ \A i \in 1 .. Len(s) : Instants(s)[i] = s[i].timestamp
<1>1. Len(s) \in Nat
  BY LenProperties
<1>2. \A i \in 1 .. Len(s) : s[i].timestamp \in Time
  <2> TAKE i \in 1 .. Len(s)
  <2>1. s[i] \in Pose
    BY ElementOfSeq
  <2> QED
    BY <2>1 DEF Pose
<1>3. Instants(s) \in [1 .. Len(s) -> Time]
  BY <1>2 DEF Instants
<1>4. Instants(s) \in Seq(Time)
  BY <1>1, <1>3, SeqDef
<1>5. DOMAIN Instants(s) = 1 .. Len(s)
  BY DEF Instants
<1>6. Len(Instants(s)) = Len(s)
  <2>1. /\ Len(Instants(s)) \in Nat
        /\ DOMAIN Instants(s) = 1 .. Len(Instants(s))
    BY <1>4, LenProperties
  <2> HIDE DEF Instants
  <2> QED
    BY <1>1, <1>5, <2>1
<1> QED
  BY <1>4, <1>6 DEF Instants

LEMMA InstantsAppend ==
  ASSUME NEW s \in Seq(Pose), NEW pose \in Pose
  PROVE  Instants(Append(s, pose)) = Append(Instants(s), pose.timestamp)
<1> DEFINE a == Append(s, pose)
           t == Append(Instants(s), pose.timestamp)
<1>1. /\ a \in Seq(Pose)
      /\ Len(a) = Len(s) + 1
      /\ \A i \in 1 .. Len(s) : a[i] = s[i]
      /\ a[Len(s) + 1] = pose
      /\ Len(s) \in Nat
  BY AppendProperties, LenProperties
<1>2. pose.timestamp \in Time
  BY DEF Pose
<1>3. /\ Instants(s) \in Seq(Time)
      /\ Len(Instants(s)) = Len(s)
      /\ \A i \in 1 .. Len(s) : Instants(s)[i] = s[i].timestamp
  BY InstantsProperties
<1>4. /\ t \in Seq(Time)
      /\ Len(t) = Len(s) + 1
      /\ \A i \in 1 .. Len(s) : t[i] = s[i].timestamp
      /\ t[Len(s) + 1] = pose.timestamp
  BY <1>2, <1>3, AppendProperties
<1>5. /\ Instants(a) \in Seq(Time)
      /\ Len(Instants(a)) = Len(s) + 1
      /\ \A i \in 1 .. Len(s) + 1 : Instants(a)[i] = a[i].timestamp
  BY <1>1, InstantsProperties
<1>6. \A i \in 1 .. Len(s) + 1 : Instants(a)[i] = t[i]
  BY <1>1, <1>4, <1>5
<1>7. Instants(a) = t
  <2> HIDE DEF a, t
  <2> QED
    BY <1>4, <1>5, <1>6, SeqEqual
<1> QED
  BY <1>7

(* An eviction is a suffix of the timestamps.                              *)
LEMMA InstantsKeepNewest ==
  ASSUME NEW s \in Seq(Pose), s # <<>>, NEW n \in Nat \ {0}
  PROVE  /\ Instants(KeepNewest(s, n)) \in History!Suffixes(Instants(s))
         /\ Len(Instants(KeepNewest(s, n))) <= n
<1> DEFINE k == KeepNewest(s, n)
           m == Len(s) - Len(k) + 1
           t == SubSeq(Instants(s), m, Len(s))
<1>1. /\ k \in Seq(Pose)
      /\ k # <<>>
      /\ Len(k) <= n
      /\ Len(k) <= Len(s)
      /\ \A i \in 1 .. Len(k) : k[i] = s[(Len(s) - Len(k)) + i]
  BY KeepNewestProperties
<1>2. /\ Len(k) \in Nat \ {0}
      /\ Len(s) \in Nat
      /\ m \in Int /\ m \in 1 .. Len(s)
      /\ Len(s) - m + 1 = Len(k)
  BY <1>1, EmptySeq, LenProperties
<1>3. /\ Instants(s) \in Seq(Time)
      /\ Len(Instants(s)) = Len(s)
      /\ \A i \in 1 .. Len(s) : Instants(s)[i] = s[i].timestamp
  BY InstantsProperties
<1>4. /\ Instants(k) \in Seq(Time)
      /\ Len(Instants(k)) = Len(k)
      /\ \A i \in 1 .. Len(k) : Instants(k)[i] = k[i].timestamp
  BY <1>1, InstantsProperties
<1>5. \A i \in m .. Len(s) : Instants(s)[i] \in Time
  BY <1>2, <1>3, ElementOfSeq
<1>6. /\ t \in Seq(Time)
      /\ Len(t) = Len(k)
      /\ \A i \in 1 .. Len(k) : t[i] = Instants(s)[m + i - 1]
  <2> HIDE DEF m, k
  <2>1. m <= Len(s)
    BY <1>2
  <2> QED
    BY <1>2, <1>5, <2>1, SubSeqProperties
<1>7. ASSUME NEW i \in 1 .. Len(k)
      PROVE  Instants(k)[i] = t[i]
  <2>1. m + i - 1 = (Len(s) - Len(k)) + i /\ m + i - 1 \in 1 .. Len(s)
    BY <1>1, <1>2
  <2>2. t[i] = Instants(s)[(Len(s) - Len(k)) + i]
    <3> HIDE DEF m, k, t
    <3> QED
      BY <1>6, <2>1
  <2>3. Instants(s)[(Len(s) - Len(k)) + i] = k[i].timestamp
    <3> HIDE DEF m, k, t
    <3> QED
      BY <1>1, <1>3, <2>1
  <2> HIDE DEF k, t
  <2> QED
    BY <1>4, <2>2, <2>3
<1>8. Instants(k) = t
  <2> HIDE DEF k, t
  <2> QED
    BY <1>4, <1>6, <1>7, SeqEqual
<1>9. t \in History!Suffixes(Instants(s))
  <2> HIDE DEF m
  <2> QED
    BY <1>2, <1>3 DEF History!Suffixes
<1> QED
  BY <1>1, <1>4, <1>8, <1>9

LEMMA PushRefines ==
  ASSUME IInv, NEW pose \in PushedPose, Push(pose)
  PROVE  [History!Next]_(History!vars)
<1>1. CASE Accepts(pose)
  <2> DEFINE a == Append(samples, pose)
             t == pose.timestamp
             w == Instants(samples)
  <2>1. /\ pose \in Pose
        /\ samples # <<>> =>
             /\ Newest(samples) \in Pose
             /\ Newest(samples).timestamp < t
             /\ IsFinite(t - Newest(samples).timestamp)
    BY <1>1, AcceptedSpan DEF IInv
  <2>2. samples \in Seq(Pose) /\ capacity \in Nat \ {0}
    BY DEF IInv, TypeOK
  <2>3. a \in Seq(Pose) /\ a # <<>> /\ Instants(a) = Append(w, t)
    BY <2>1, <2>2, AppendProperties, InstantsAppend
  <2>4. samples' = KeepNewest(a, capacity) /\ capacity' = capacity
    BY <1>1 DEF Push
  <2>5. /\ Instants(samples') \in History!Suffixes(Append(w, t))
        /\ Len(Instants(samples')) <= capacity
    <3> HIDE DEF a
    <3> QED BY <2>2, <2>3, <2>4, InstantsKeepNewest
  <2>6. w = <<>> \/ (w[Len(w)] < t /\ History!IsFinite(t - w[Len(w)]))
    <3>1. w \in Seq(Time) /\ Len(w) = Len(samples)
          /\ \A i \in 1 .. Len(samples) : w[i] = samples[i].timestamp
      BY <2>2, InstantsProperties
    <3>2. CASE samples = <<>>
      BY <3>1, <3>2, EmptySeq
    <3>3. CASE samples # <<>>
      <4>1. Len(samples) \in Nat \ {0}
        BY <2>2, <3>3, EmptySeq
      <4>2. w[Len(w)] = Newest(samples).timestamp
        BY <3>1, <4>1 DEF Newest
      <4> QED
        BY <2>1, <3>3, <4>2 DEF History!IsFinite, IsFinite, History!Time, Time
    <3> QED
      BY <3>2, <3>3
  <2>7. t \in History!Time
    BY <2>1 DEF Pose, Time, History!Time
  <2>8. Instants(samples)' = Instants(samples')
    BY DEF Instants
  <2>9. History!Accept(t)
    BY <2>4, <2>5, <2>6, <2>8 DEF History!Accept
  <2> QED
    BY <2>7, <2>9 DEF History!Next
<1>2. CASE ~Accepts(pose)
  BY <1>2 DEF Push, History!vars, Instants
<1> QED
  BY <1>1, <1>2

LEMMA SetCapacityRefines ==
  ASSUME IInv, NEW c \in Nat, SetCapacity(c)
  PROVE  [History!Next]_(History!vars)
<1>1. /\ capacity' \in Nat \ {0}
      /\ samples' = KeepNewest(samples, capacity')
      /\ samples \in Seq(Pose)
  BY DEF SetCapacity, IInv, TypeOK
<1>2. Instants(samples)' = Instants(samples')
  BY DEF Instants
<1>3. CASE samples = <<>>
  <2>1. samples' = <<>>
    BY <1>1, <1>3, EmptySeq DEF KeepNewest
  <2>2. Instants(<<>>) \in Seq(Time) /\ Len(Instants(<<>>)) = 0
    BY <1>1, <1>3, InstantsProperties, EmptySeq
  <2>3. Instants(<<>>) = <<>>
    BY <2>2, EmptySeq
  <2>4. History!Resize
    BY <1>1, <1>2, <1>3, <2>1, <2>2, <2>3 DEF History!Resize
  <2> QED
    BY <2>4 DEF History!Next
<1>4. CASE samples # <<>>
  <2>1. /\ Instants(samples') \in History!Suffixes(Instants(samples))
        /\ Len(Instants(samples')) <= capacity'
    BY <1>1, <1>4, InstantsKeepNewest
  <2>2. Instants(samples) # <<>>
    <3>1. Len(samples) \in Nat \ {0}
      BY <1>1, <1>4, EmptySeq
    <3>2. Len(Instants(samples)) = Len(samples)
      BY <1>1, InstantsProperties
    <3> QED
      BY <3>1, <3>2, EmptySeq
  <2>3. History!Resize
    BY <1>1, <1>2, <2>1, <2>2 DEF History!Resize
  <2> QED
    BY <2>3 DEF History!Next
<1> QED
  BY <1>3, <1>4

LEMMA InstantsEmpty == Instants(<<>>) = <<>>
<1>1. <<>> \in Seq(Pose) /\ Len(<<>>) = 0
  BY EmptySeq
<1>2. Instants(<<>>) \in Seq(Time) /\ Len(Instants(<<>>)) = 0
  BY <1>1, InstantsProperties
<1> QED
  BY <1>2, EmptySeq

(* PoseBuffer implements BoundedHistory: whatever readers of timestamps    *)
(* may assume of a bounded history, they may assume of the buffer.         *)
THEOREM BufferImplementsHistory == Spec => HistorySpec
<1>1. Init => History!Init
  BY InstantsEmpty, CapacityAssumption DEF Init, History!Init
<1>2. IInv /\ [Next]_vars => [History!Next]_(History!vars)
  <2> SUFFICES ASSUME IInv, [Next]_vars PROVE [History!Next]_(History!vars)
    OBVIOUS
  <2>1. ASSUME NEW pose \in Candidates, Push(pose)
        PROVE  [History!Next]_(History!vars)
    BY <2>1, PushRefines, CandidatesAssumption
  <2>2. ASSUME NEW c \in Capacities, SetCapacity(c)
        PROVE  [History!Next]_(History!vars)
    BY <2>2, SetCapacityRefines, CapacityAssumption
  <2>3. CASE Clear
    <3>1. Instants(samples)' = <<>> /\ capacity' = capacity
      BY <2>3, InstantsEmpty DEF Clear
    <3>2. History!Clear
      BY <3>1 DEF History!Clear
    <3> QED
      BY <3>2 DEF History!Next
  <2>4. CASE UNCHANGED vars
    BY <2>4 DEF vars, History!vars, Instants
  <2> QED
    BY <2>1, <2>2, <2>3, <2>4 DEF Next
<1>3. Spec => []IInv
  BY InitIInv, NextIInv, PTL DEF Spec
<1> QED
  BY <1>1, <1>2, <1>3, PTL DEF Spec, HistorySpec, History!Spec

-----------------------------------------------------------------------------
(* The reads.  Adjacent order is order, and an instant inside the range    *)
(* has a bracket: both by the least index that says otherwise.             *)

(* Adjacent samples in order are samples in order.                         *)
LEMMA OrderedAnywhere ==
  ASSUME NEW s \in Seq(Pose), Ordered(s),
         NEW i \in 1 .. Len(s), NEW k \in 1 .. Len(s), i < k
  PROVE  s[i].timestamp < s[k].timestamp
<1>1. Len(s) \in Nat
  BY LenProperties
<1>2. \A n \in 1 .. Len(s) : s[n].timestamp \in Int
  <2> TAKE n \in 1 .. Len(s)
  <2>1. s[n] \in Pose
    BY ElementOfSeq
  <2> QED
    BY <2>1 DEF Pose, Time
<1> DEFINE Late == {n \in (i + 1) .. Len(s) : s[n].timestamp <= s[i].timestamp}
<1>3. CASE Late = {}
  BY <1>1, <1>2, <1>3
<1>4. CASE Late # {}
  <2>1. PICK m \in Late : \A n \in Late : m <= n
    <3>1. Late \subseteq Nat
      BY <1>1
    <3> HIDE DEF Late
    <3> QED
      BY <1>4, <3>1, SmallestIndex
  <2>2. m \in 2 .. Len(s) /\ m - 1 \in i .. Len(s) /\ m - 1 \notin Late
    BY <1>1, <2>1
  <2>3. s[m - 1].timestamp >= s[i].timestamp
    BY <1>1, <1>2, <2>2
  <2>4. s[m - 1].timestamp < s[m].timestamp
    BY <2>2 DEF Ordered
  <2> QED
    BY <1>1, <1>2, <2>1, <2>2, <2>3, <2>4
<1> QED
  BY <1>3, <1>4

(* The reads do not care whether a time is representable: a resampled clip *)
(* may end a rounding slack past the largest one.                          *)
TimedPose ==
  [timestamp : Int, joints : [Joints -> Rotation], root : RootMotion,
   source : Sources]

LEMMA PosesAreTimed ==
  /\ Pose \subseteq TimedPose
  /\ \A s \in Seq(Pose) : s \in Seq(TimedPose)
<1>1. Pose \subseteq TimedPose
  BY DEF Pose, TimedPose, Time
<1>2. ASSUME NEW s \in Seq(Pose)
      PROVE  s \in Seq(TimedPose)
  <2>1. Len(s) \in Nat /\ s = [i \in 1 .. Len(s) |-> s[i]]
    BY LenProperties
  <2>2. \A i \in 1 .. Len(s) : s[i] \in TimedPose
    BY <1>1, ElementOfSeq
  <2> QED
    BY <2>1, <2>2, IsASeq
<1> QED
  BY <1>1, <1>2

(* Strictly inside the range, the binary search has one place to stop.     *)
LEMMA BracketExists ==
  ASSUME NEW s \in Seq(TimedPose), NEW t \in Int, s # <<>>,
         s[1].timestamp < t, t < Newest(s).timestamp
  PROVE  /\ Upper(s, t) \in 2 .. Len(s)
         /\ s[Upper(s, t) - 1].timestamp < t
         /\ t <= s[Upper(s, t)].timestamp
<1>1. Len(s) \in Nat \ {0}
  BY EmptySeq, LenProperties
<1>2. t \in Int /\ \A n \in 1 .. Len(s) : s[n].timestamp \in Int
  <2>1. ASSUME NEW n \in 1 .. Len(s) PROVE s[n].timestamp \in Int
    <3>1. s[n] \in TimedPose
      BY ElementOfSeq
    <3> QED
      BY <3>1 DEF TimedPose
  <2> QED
    BY <2>1
<1> DEFINE NotBefore == {n \in 1 .. Len(s) : t <= s[n].timestamp}
<1>3. PICK m \in NotBefore : \A n \in NotBefore : m <= n
  <2>1. NotBefore # {} /\ NotBefore \subseteq Nat
    <3>1. Len(s) \in NotBefore
      BY <1>1, <1>2 DEF Newest
    <3> QED
      BY <3>1
  <2> HIDE DEF NotBefore
  <2> QED
    BY <2>1, SmallestIndex
<1>4. m \in 2 .. Len(s) /\ m - 1 \notin NotBefore
  BY <1>1, <1>2, <1>3
<1>5. s[m - 1].timestamp < t /\ t <= s[m].timestamp
  BY <1>1, <1>2, <1>3, <1>4
<1> QED
  BY <1>4, <1>5 DEF Upper

(* There is no other place: the order makes the bracket unique.            *)
LEMMA BracketUnique ==
  ASSUME NEW s \in Seq(Pose), Ordered(s), NEW t \in Time,
         NEW i \in 2 .. Len(s), s[i - 1].timestamp < t, t <= s[i].timestamp
  PROVE  Upper(s, t) = i
<1>1. Len(s) \in Nat
  BY LenProperties
<1>2. t \in Int /\ \A n \in 1 .. Len(s) : s[n].timestamp \in Int
  <2>1. ASSUME NEW n \in 1 .. Len(s) PROVE s[n].timestamp \in Int
    <3>1. s[n] \in Pose
      BY ElementOfSeq
    <3> QED
      BY <3>1 DEF Pose, Time
  <2> QED
    BY <2>1 DEF Time
<1>3. ASSUME NEW k \in 2 .. Len(s), s[k - 1].timestamp < t, t <= s[k].timestamp
      PROVE  k = i
  <2>1. CASE k < i
    <3>1. k = i - 1 \/ s[k].timestamp < s[i - 1].timestamp
      BY <1>1, <2>1, OrderedAnywhere
    <3> QED
      BY <1>1, <1>2, <1>3, <2>1, <3>1
  <2>2. CASE i < k
    <3>1. i = k - 1 \/ s[i].timestamp < s[k - 1].timestamp
      BY <1>1, <2>2, OrderedAnywhere
    <3> QED
      BY <1>1, <1>2, <1>3, <2>2, <3>1
  <2> QED
    BY <1>1, <2>1, <2>2
<1> QED
  BY <1>3 DEF Upper

-----------------------------------------------------------------------------
(* Interpolation keeps types, and lands on the instant that was asked for. *)

LEMMA SlerpType ==
  ASSUME NEW a \in Rotation, NEW b \in Rotation, NEW n, NEW d
  PROVE  /\ SlerpShortest(a, b, n, d) \in Rotation
         /\ SlerpShortest(a, b, n, d) \in {a, b, a \cup b}
BY DEF SlerpShortest, Rotation, Absent

LEMMA PositiveProduct ==
  ASSUME NEW m \in Nat \ {0}, NEW n \in Nat \ {0}
  PROVE  m * n \in Nat \ {0}
OBVIOUS

LEMMA LerpVelocityType ==
  ASSUME NEW v \in Velocity, NEW w \in Velocity, NEW n \in Nat, NEW d \in Nat \ {0}
  PROVE  LerpVelocity(v, w, n, d) \in Velocity
<1>1. /\ v.by \in Int /\ v.over \in Nat \ {0}
      /\ w.by \in Int /\ w.over \in Nat \ {0}
  BY DEF Velocity
<1>2. v.over * w.over * d \in Nat \ {0}
  <2>1. v.over * w.over \in Nat \ {0}
    BY <1>1, PositiveProduct
  <2> QED
    BY <2>1, PositiveProduct
<1>3. v.by * w.over * (d - n) + w.by * v.over * n \in Int
  BY <1>1
<1> QED
  BY <1>2, <1>3 DEF LerpVelocity, Velocity

LEMMA LerpRootMotionType ==
  ASSUME NEW a \in RootMotion, NEW b \in RootMotion, NEW n \in Nat, NEW d \in Nat \ {0}
  PROVE  LerpRootMotion(a, b, n, d) \in RootMotion
<1>1. /\ a.hasPosition \in BOOLEAN /\ a.worldPosition \in Int
      /\ a.worldOrientation \in Rotation
      /\ a.hasLinearVelocity \in BOOLEAN /\ a.linearVelocity \in Velocity
  BY DEF RootMotion
<1>2. /\ b.hasPosition \in BOOLEAN /\ b.worldPosition \in Int
      /\ b.worldOrientation \in Rotation
      /\ b.hasLinearVelocity \in BOOLEAN /\ b.linearVelocity \in Velocity
  BY DEF RootMotion
<1>3. (CASE a.hasPosition /\ ~b.hasPosition -> a.worldPosition
         [] ~a.hasPosition /\ b.hasPosition -> b.worldPosition
         [] a.hasPosition /\ b.hasPosition ->
              a.worldPosition + ((b.worldPosition - a.worldPosition) * n) \div d
         [] OTHER -> 0) \in Int
  BY <1>1, <1>2
<1>4. SlerpShortest(a.worldOrientation, b.worldOrientation, n, d) \in Rotation
  BY <1>1, <1>2, SlerpType
<1>5. (CASE a.hasLinearVelocity /\ ~b.hasLinearVelocity -> a.linearVelocity
         [] ~a.hasLinearVelocity /\ b.hasLinearVelocity -> b.linearVelocity
         [] a.hasLinearVelocity /\ b.hasLinearVelocity ->
              LerpVelocity(a.linearVelocity, b.linearVelocity, n, d)
         [] OTHER -> Still) \in Velocity
  BY <1>1, <1>2, LerpVelocityType DEF Still, Velocity
<1> QED
  BY <1>1, <1>2, <1>3, <1>4, <1>5 DEF LerpRootMotion, RootMotion

LEMMA LerpPoseType ==
  ASSUME NEW a \in TimedPose, NEW b \in TimedPose, NEW t \in Int,
         a.timestamp < t, t <= b.timestamp
  PROVE  LET p == LerpPose(a, b, t - a.timestamp, b.timestamp - a.timestamp)
         IN  /\ p \in TimedPose
             /\ p.timestamp = t
             /\ \A j \in Joints :
                  p.joints[j] \in {a.joints[j], b.joints[j], a.joints[j] \cup b.joints[j]}
<1> DEFINE n == t - a.timestamp
           d == b.timestamp - a.timestamp
           p == LerpPose(a, b, n, d)
<1>1. /\ a.timestamp \in Int /\ b.timestamp \in Int /\ t \in Int
      /\ a.joints \in [Joints -> Rotation] /\ b.joints \in [Joints -> Rotation]
      /\ a.root \in RootMotion /\ b.root \in RootMotion
      /\ a.source \in Sources /\ b.source \in Sources
  BY DEF TimedPose
<1>2. n \in Nat \ {0} /\ d \in Nat \ {0}
  BY <1>1
<1>3. a.timestamp + (d * n) \div d = t
  <2>1. (d * n) \div d = n
    <3> HIDE DEF n, d
    <3> QED BY <1>2
  <2> QED
    BY <1>1, <2>1
<1>4. \A j \in Joints :
        /\ SlerpShortest(a.joints[j], b.joints[j], n, d) \in Rotation
        /\ SlerpShortest(a.joints[j], b.joints[j], n, d)
             \in {a.joints[j], b.joints[j], a.joints[j] \cup b.joints[j]}
  BY <1>1, SlerpType
<1>5. LerpRootMotion(a.root, b.root, n, d) \in RootMotion
  <2> HIDE DEF n, d
  <2> QED
    BY <1>1, <1>2, LerpRootMotionType
<1>6. p = [timestamp |-> t,
           joints    |-> [j \in Joints |-> SlerpShortest(a.joints[j], b.joints[j], n, d)],
           root      |-> LerpRootMotion(a.root, b.root, n, d),
           source    |-> IF 2 * n < d THEN a.source ELSE b.source]
  BY <1>3 DEF LerpPose
<1> HIDE DEF n, d
<1>7. p \in TimedPose
  <2> HIDE DEF p
  <2> QED
    BY <1>1, <1>4, <1>5, <1>6 DEF TimedPose
<1>8. p.timestamp = t
      /\ \A j \in Joints : p.joints[j] = SlerpShortest(a.joints[j], b.joints[j], n, d)
  <2> HIDE DEF p
  <2> QED
    BY <1>6
<1> HIDE DEF p
<1>9. \A j \in Joints :
        p.joints[j] \in {a.joints[j], b.joints[j], a.joints[j] \cup b.joints[j]}
  BY <1>4, <1>8
<1> QED
  BY <1>7, <1>8, <1>9 DEF p, n, d

(* Below, at, above and strictly inside the range.                         *)
LEMMA SampleBelow ==
  ASSUME NEW s \in Seq(TimedPose), s # <<>>, NEW t \in Int, t <= s[1].timestamp
  PROVE  SampleBracketed(s, t) = s[1]
<1>1. ~(t > s[1].timestamp)
  <2>1. s[1] \in TimedPose
    BY EmptySeq, LenProperties, ElementOfSeq
  <2> QED
    BY <2>1 DEF TimedPose
<1> QED
  BY <1>1 DEF SampleBracketed

LEMMA SampleAbove ==
  ASSUME NEW s \in Seq(TimedPose), s # <<>>, NEW t \in Int,
         t > s[1].timestamp, t >= Newest(s).timestamp
  PROVE  SampleBracketed(s, t) = Newest(s)
<1>1. ~(t <= s[1].timestamp)
  <2>1. s[1] \in TimedPose
    BY EmptySeq, LenProperties, ElementOfSeq
  <2> QED
    BY <2>1 DEF TimedPose
<1> QED
  BY <1>1 DEF SampleBracketed

LEMMA SampleInside ==
  ASSUME NEW s \in Seq(TimedPose), s # <<>>, NEW t \in Int,
         s[1].timestamp < t, t < Newest(s).timestamp
  PROVE  SampleBracketed(s, t) =
           LerpPose(s[Upper(s, t) - 1], s[Upper(s, t)],
                    t - s[Upper(s, t) - 1].timestamp,
                    s[Upper(s, t)].timestamp - s[Upper(s, t) - 1].timestamp)
<1>1. Len(s) \in Nat \ {0}
  BY EmptySeq, LenProperties
<1>2. s[1] \in TimedPose /\ Newest(s) \in TimedPose
  BY <1>1, ElementOfSeq DEF Newest
<1>3. ~(t <= s[1].timestamp) /\ ~(t >= Newest(s).timestamp)
  BY <1>2 DEF TimedPose
<1> QED
  BY <1>3 DEF SampleBracketed

(* What a read returns is a pose, and its joints are its neighbours'.      *)
LEMMA SampleFromNeighbours ==
  ASSUME NEW s \in Seq(TimedPose), s # <<>>, NEW t \in Int
  PROVE  /\ SampleBracketed(s, t) \in TimedPose
         /\ SampleBracketed(s, t).timestamp
              \in {t, s[1].timestamp, Newest(s).timestamp}
         /\ \E i, k \in 1 .. Len(s) :
              /\ i \in {k - 1, k}
              /\ s[i].timestamp <= t \/ i = 1
              /\ t <= s[k].timestamp \/ k = Len(s)
              /\ \A j \in Joints :
                   SampleBracketed(s, t).joints[j] \in
                     {s[i].joints[j], s[k].joints[j], s[i].joints[j] \cup s[k].joints[j]}
<1>1. Len(s) \in Nat \ {0}
  BY EmptySeq, LenProperties
<1>2. s[1] \in TimedPose /\ Newest(s) \in TimedPose
  BY <1>1, ElementOfSeq DEF Newest
<1>3. t \in Int /\ s[1].timestamp \in Int /\ Newest(s).timestamp \in Int
  BY <1>2 DEF TimedPose
<1>4. CASE t <= s[1].timestamp
  <2>1. SampleBracketed(s, t) = s[1]
    BY <1>4, SampleBelow
  <2> QED
    BY <1>1, <1>2, <1>4, <2>1
<1>5. CASE t > s[1].timestamp /\ t >= Newest(s).timestamp
  <2>1. SampleBracketed(s, t) = Newest(s) /\ Newest(s) = s[Len(s)]
    BY <1>5, SampleAbove DEF Newest
  <2>2. s[Len(s)].timestamp <= t
    BY <1>3, <1>5 DEF Newest
  <2>3. Len(s) \in 1 .. Len(s) /\ Len(s) \in {Len(s) - 1, Len(s)} /\ s[Len(s)] \in TimedPose
    BY <1>1, <1>2 DEF Newest
  <2> QED
    BY <2>1, <2>2, <2>3
<1>6. CASE s[1].timestamp < t /\ t < Newest(s).timestamp
  <2> DEFINE u == Upper(s, t)
  <2>1. u \in 2 .. Len(s) /\ s[u - 1].timestamp < t /\ t <= s[u].timestamp
    BY <1>6, BracketExists
  <2>2. u \in 1 .. Len(s) /\ u - 1 \in 1 .. Len(s)
    BY <1>1, <2>1
  <2>3. s[u - 1] \in TimedPose /\ s[u] \in TimedPose
    BY <2>2, ElementOfSeq
  <2>4. SampleBracketed(s, t) =
          LerpPose(s[u - 1], s[u], t - s[u - 1].timestamp,
                   s[u].timestamp - s[u - 1].timestamp)
    BY <1>6, SampleInside
  <2> HIDE DEF u
  <2>5. /\ SampleBracketed(s, t) \in TimedPose
        /\ SampleBracketed(s, t).timestamp = t
        /\ \A j \in Joints :
             SampleBracketed(s, t).joints[j] \in
               {s[u - 1].joints[j], s[u].joints[j], s[u - 1].joints[j] \cup s[u].joints[j]}
    BY <2>1, <2>3, <2>4, LerpPoseType
  <2>6. s[u - 1].timestamp <= t
    BY <1>3, <2>1, <2>3 DEF TimedPose
  <2> QED
    BY <2>1, <2>2, <2>5, <2>6
<1> QED
  BY <1>3, <1>4, <1>5, <1>6

(* A read between representable times is a pose, representable too.        *)
LEMMA SampleIsAPose ==
  ASSUME NEW s \in Seq(Pose), s # <<>>, NEW t \in Time
  PROVE  SampleBracketed(s, t) \in Pose
<1> DEFINE p == SampleBracketed(s, t)
<1>1. t \in Int /\ s \in Seq(TimedPose)
  BY PosesAreTimed DEF Time
<1>2. p \in TimedPose /\ p.timestamp \in {t, s[1].timestamp, Newest(s).timestamp}
  BY <1>1, SampleFromNeighbours
<1>3. s[1] \in Pose /\ Newest(s) \in Pose
  BY EmptySeq, LenProperties, ElementOfSeq DEF Newest
<1> HIDE DEF p
<1>4. p.timestamp \in Time
  BY <1>2, <1>3 DEF Pose
<1> QED
  BY <1>2, <1>4 DEF p, Pose, TimedPose

-----------------------------------------------------------------------------
(* What an answer is made of, and that between two retained samples it is  *)
(* stable.                                                                 *)

Between(a, b, t) == LerpPose(a, b, t - a.timestamp, b.timestamp - a.timestamp)

(* Past one sample and no later than the next, short of the newest: theirs *)
(* is the answer.                                                          *)
LEMMA SampleInBracket ==
  ASSUME NEW s \in Seq(Pose), Ordered(s), NEW t \in Time, NEW i \in 2 .. Len(s),
         s[i - 1].timestamp < t, t <= s[i].timestamp, t < Newest(s).timestamp
  PROVE  SampleBracketed(s, t) = Between(s[i - 1], s[i], t)
<1>1. Len(s) \in Nat \ {0} /\ s # <<>>
  BY EmptySeq, LenProperties
<1>2. t \in Int /\ \A n \in 1 .. Len(s) : s[n].timestamp \in Int
  <2>1. ASSUME NEW n \in 1 .. Len(s) PROVE s[n].timestamp \in Int
    <3>1. s[n] \in Pose
      BY ElementOfSeq
    <3> QED
      BY <3>1 DEF Pose, Time
  <2> QED
    BY <2>1 DEF Time
<1>3. s[1].timestamp < t
  <2>1. i - 1 = 1 \/ s[1].timestamp < s[i - 1].timestamp
    BY <1>1, OrderedAnywhere
  <2> QED
    BY <1>1, <1>2, <2>1
<1>4. Upper(s, t) = i
  BY <1>2, BracketUnique
<1>5. s \in Seq(TimedPose)
  BY PosesAreTimed
<1> QED
  BY <1>1, <1>2, <1>3, <1>4, <1>5, SampleInside DEF Between

LEMMA SampleBetween ==
  ASSUME NEW s \in Seq(Pose), Ordered(s), NEW t \in Time, NEW i \in 2 .. Len(s),
         s[i - 1].timestamp < t, t < s[i].timestamp
  PROVE  SampleBracketed(s, t) = Between(s[i - 1], s[i], t)
<1>1. Len(s) \in Nat \ {0} /\ i \in 1 .. Len(s) /\ Len(s) \in 1 .. Len(s)
  BY EmptySeq, LenProperties
<1>2. t \in Int /\ s[i].timestamp \in Int /\ Newest(s).timestamp \in Int
  <2>1. s[i] \in Pose /\ s[Len(s)] \in Pose
    BY <1>1, ElementOfSeq
  <2> QED
    BY <2>1 DEF Pose, Time, Newest
<1>3. i = Len(s) \/ s[i].timestamp < s[Len(s)].timestamp
  BY <1>1, OrderedAnywhere
<1>4. t < Newest(s).timestamp /\ t <= s[i].timestamp
  BY <1>2, <1>3 DEF Newest
<1> QED
  BY <1>4, SampleInBracket

(* Joint by joint: what only one of the two carries is held, at any        *)
(* fraction; what both carry is blended strictly between them, and the     *)
(* newer's at its own instant.                                             *)
LEMMA BetweenJoints ==
  ASSUME NEW a \in Pose, NEW b \in Pose, NEW t \in Time, NEW j \in Joints,
         a.timestamp < t
  PROVE  /\ t < b.timestamp => Between(a, b, t).joints[j] = a.joints[j] \cup b.joints[j]
         /\ t = b.timestamp => Between(a, b, t).joints[j]
                                = IF b.joints[j] = Absent THEN a.joints[j] ELSE b.joints[j]
<1> DEFINE n == t - a.timestamp
           d == b.timestamp - a.timestamp
<1>1. a.timestamp \in Int /\ b.timestamp \in Int /\ t \in Int
  BY DEF Pose, Time
<1>2. Between(a, b, t).joints[j] = SlerpShortest(a.joints[j], b.joints[j], n, d)
  BY DEF Between, LerpPose
<1>3. n # 0 /\ (t < b.timestamp => n # d) /\ (t = b.timestamp => n = d)
  BY <1>1
<1> HIDE DEF n, d
<1>4. n # d => SlerpShortest(a.joints[j], b.joints[j], n, d) = a.joints[j] \cup b.joints[j]
  BY <1>3 DEF SlerpShortest
<1>5. n = d => SlerpShortest(a.joints[j], b.joints[j], n, d)
               = IF b.joints[j] = Absent THEN a.joints[j] ELSE b.joints[j]
  BY <1>3 DEF SlerpShortest, Absent
<1> QED
  BY <1>2, <1>3, <1>4, <1>5

(* What an answer is made of: the sample at the end it lies past, or its   *)
(* two neighbours, with every joint that either of them carries.           *)
THEOREM BufferAnswersComeFromNeighbours == Spec => []AnswersComeFromNeighbours
<1>1. IInv => AnswersComeFromNeighbours
  <2> SUFFICES ASSUME IInv, NEW t \in Time, NEW j \in Joints, samples # <<>>
               PROVE  LET answer == Sample(t).joints[j]
                      IN  /\ t <= samples[1].timestamp => answer = samples[1].joints[j]
                          /\ t >= Newest(samples).timestamp
                               => answer = Newest(samples).joints[j]
                          /\ \A i \in 2 .. Len(samples) :
                               LET older == samples[i - 1].joints[j]
                                   newer == samples[i].joints[j]
                               IN  /\ samples[i - 1].timestamp < t /\ t < samples[i].timestamp
                                        => answer = older \cup newer
                                   /\ t = samples[i].timestamp /\ i < Len(samples)
                                        => answer = IF newer = Absent THEN older ELSE newer
    BY DEF AnswersComeFromNeighbours
  <2>1. samples \in Seq(Pose) /\ Ordered(samples)
    BY DEF IInv, TypeOK, BufferInvariant
  <2>2. samples \in Seq(TimedPose) /\ t \in Int
    BY <2>1, PosesAreTimed DEF Time
  <2>3. Sample(t) = SampleBracketed(samples, t)
    BY DEF Sample, IsFinite
  <2>4. Len(samples) \in Nat \ {0}
    BY <2>1, EmptySeq, LenProperties
  <2>5. \A n \in 1 .. Len(samples) : samples[n].timestamp \in Int /\ samples[n] \in Pose
    <3>1. ASSUME NEW n \in 1 .. Len(samples)
          PROVE  samples[n].timestamp \in Int /\ samples[n] \in Pose
      <4>1. samples[n] \in Pose
        BY <2>1, ElementOfSeq
      <4> QED
        BY <4>1 DEF Pose, Time
    <3> QED
      BY <3>1
  <2>6. t <= samples[1].timestamp => Sample(t) = samples[1]
    BY <2>2, <2>3, SampleBelow
  <2>7. t >= Newest(samples).timestamp => Sample(t) = Newest(samples)
    <3>1. CASE t > samples[1].timestamp
      BY <2>2, <2>3, <3>1, SampleAbove
    <3>2. CASE t <= samples[1].timestamp
      <4>1. Len(samples) = 1 \/ samples[1].timestamp < samples[Len(samples)].timestamp
        <5>1. 1 \in 1 .. Len(samples) /\ Len(samples) \in 1 .. Len(samples)
              /\ (Len(samples) = 1 \/ 1 < Len(samples))
          BY <2>4
        <5> QED
          BY <2>1, <5>1, OrderedAnywhere
      <4> QED
        BY <2>2, <2>4, <2>5, <2>6, <3>2, <4>1 DEF Newest
    <3> QED
      BY <2>2, <2>4, <2>5, <3>1, <3>2
  <2>8. ASSUME NEW i \in 2 .. Len(samples)
        PROVE  /\ samples[i - 1].timestamp < t /\ t < samples[i].timestamp
                    => Sample(t).joints[j] = samples[i - 1].joints[j] \cup samples[i].joints[j]
               /\ t = samples[i].timestamp /\ i < Len(samples)
                    => Sample(t).joints[j] = IF samples[i].joints[j] = Absent
                                             THEN samples[i - 1].joints[j]
                                             ELSE samples[i].joints[j]
    <3>1. samples[i - 1] \in Pose /\ samples[i] \in Pose
      BY <2>4, <2>5
    <3>2. CASE samples[i - 1].timestamp < t /\ t < samples[i].timestamp
      <4>1. Sample(t) = Between(samples[i - 1], samples[i], t)
        BY <2>1, <2>3, <3>2, SampleBetween
      <4>2. t # samples[i].timestamp
        BY <2>2, <2>4, <2>5, <3>2
      <4> QED
        BY <3>1, <3>2, <4>1, <4>2, BetweenJoints
    <3>3. CASE t = samples[i].timestamp /\ i < Len(samples)
      <4>1. samples[i - 1].timestamp < t
        BY <2>1, <3>3 DEF Ordered
      <4>2. t < Newest(samples).timestamp
        BY <2>1, <2>4, <3>3, OrderedAnywhere DEF Newest
      <4>3. t <= samples[i].timestamp /\ ~(t < samples[i].timestamp)
        BY <2>2, <3>3
      <4>4. Sample(t) = Between(samples[i - 1], samples[i], t)
        BY <2>1, <2>3, <4>1, <4>2, <4>3, SampleInBracket
      <4> QED
        BY <3>1, <3>3, <4>1, <4>3, <4>4, BetweenJoints
    <3> QED
      BY <3>2, <3>3
  <2> QED
    BY <2>6, <2>7, <2>8
<1> QED
  BY <1>1, InitIInv, NextIInv, PTL DEF Spec

(* Two neighbours that both survive an eviction are neighbours after it.   *)
LEMMA NeighboursStayNeighbours ==
  ASSUME NEW a \in Seq(Pose), Ordered(a), NEW n \in Nat \ {0}, NEW t \in Time,
         NEW i \in 2 .. Len(a), a[i - 1].timestamp < t, t < a[i].timestamp,
         \E k \in 1 .. Len(KeepNewest(a, n)) : KeepNewest(a, n)[k] = a[i - 1]
  PROVE  SampleBracketed(KeepNewest(a, n), t) = SampleBracketed(a, t)
<1> DEFINE K == KeepNewest(a, n)
           d == Len(a) - Len(K)
<1>1. /\ K \in Seq(Pose)
      /\ Len(K) <= Len(a)
      /\ \A j \in 1 .. Len(K) : K[j] = a[d + j]
  BY KeepNewestProperties
<1>2. Len(K) \in Nat /\ Len(a) \in Nat /\ d \in Nat
  BY <1>1, LenProperties
<1>3. PICK k \in 1 .. Len(K) : K[k] = a[i - 1]
  OBVIOUS
<1>4. d + k = i - 1
  <2>1. a[d + k] = a[i - 1] /\ d + k \in 1 .. Len(a) /\ i - 1 \in 1 .. Len(a)
    BY <1>1, <1>2, <1>3
  <2>2. \A p, q \in 1 .. Len(a) : p < q => a[p].timestamp < a[q].timestamp
    BY OrderedAnywhere
  <2>3. \A p \in 1 .. Len(a) : a[p].timestamp \in Int
    <3>1. ASSUME NEW p \in 1 .. Len(a) PROVE a[p].timestamp \in Int
      <4>1. a[p] \in Pose
        BY ElementOfSeq
      <4> QED
        BY <4>1 DEF Pose, Time
    <3> QED
      BY <3>1
  <2> HIDE DEF d, K
  <2>4. d + k \in Int /\ i - 1 \in Int
    BY <1>2
  <2>5. ~(d + k < i - 1)
    BY <2>1, <2>2, <2>3
  <2>6. ~(i - 1 < d + k)
    BY <2>1, <2>2, <2>3
  <2> QED
    BY <2>4, <2>5, <2>6
<1>5. k + 1 \in 2 .. Len(K) /\ K[k] = a[i - 1] /\ K[k + 1] = a[i]
  <2>1. k + 1 \in 2 .. Len(K) /\ d + (k + 1) = i
    BY <1>2, <1>4
  <2>2. K[k + 1] = a[d + (k + 1)]
    BY <1>1, <2>1
  <2> HIDE DEF d, K
  <2> QED
    BY <1>3, <2>1, <2>2
<1>6. Ordered(K)
  BY KeepNewestOrdered
<1>7. SampleBracketed(a, t) = Between(a[i - 1], a[i], t)
  BY SampleBetween
<1>8. SampleBracketed(K, t) = Between(K[k], K[k + 1], t)
  <2>1. (k + 1) - 1 = k
    OBVIOUS
  <2>2. K[(k + 1) - 1].timestamp < t /\ t < K[k + 1].timestamp
    BY <1>5, <2>1
  <2> HIDE DEF K
  <2> QED
    BY <1>1, <1>5, <1>6, <2>1, <2>2, SampleBetween
<1> QED
  BY <1>5, <1>7, <1>8

(* An answer once given stays the answer, for every history and capacity:  *)
(* neither an arrival nor an eviction changes what Sample says strictly    *)
(* between two samples while the older of them is retained.                *)
THEOREM BufferRetainedAnswersStable == Spec => RetainedAnswersStable
<1> DEFINE Stable ==
      \A i \in 2 .. Len(samples), t \in Time :
         /\ samples[i - 1].timestamp < t
         /\ t < samples[i].timestamp
         /\ \E k \in 1 .. Len(samples') : samples'[k] = samples[i - 1]
         => Sample(t)' = Sample(t)
<1>1. IInv /\ [Next]_vars => [Stable]_vars
  <2> SUFFICES ASSUME IInv, Next,
                      NEW i \in 2 .. Len(samples), NEW t \in Time,
                      samples[i - 1].timestamp < t, t < samples[i].timestamp,
                      \E k \in 1 .. Len(samples') : samples'[k] = samples[i - 1]
               PROVE  Sample(t)' = Sample(t)
    OBVIOUS
  <2>1. samples \in Seq(Pose) /\ Ordered(samples) /\ capacity \in Nat \ {0}
    BY DEF IInv, TypeOK, BufferInvariant
  <2>2. Sample(t) = SampleBracketed(samples, t) /\ Sample(t)' = SampleBracketed(samples', t)
    BY DEF Sample, IsFinite, SampleBracketed, Upper, Newest
  <2>3. ASSUME NEW pose \in Candidates, Push(pose), Accepts(pose)
        PROVE  SampleBracketed(samples', t) = SampleBracketed(samples, t)
    <3> DEFINE a == Append(samples, pose)
    <3>1. /\ pose \in Pose
          /\ samples # <<>> =>
               /\ Newest(samples).timestamp < pose.timestamp
               /\ IsFinite(pose.timestamp - Newest(samples).timestamp)
      BY <2>3, CandidatesAssumption, AcceptedSpan DEF IInv
    <3>2. a \in Seq(Pose) /\ Ordered(a)
      BY <2>1, <3>1, AppendProperties, AppendOrdered
    <3>3. i \in 2 .. Len(a) /\ a[i] = samples[i] /\ a[i - 1] = samples[i - 1]
      BY <2>1, <3>1, AppendProperties, LenProperties
    <3>4. samples' = KeepNewest(a, capacity)
      BY <2>3 DEF Push
    <3>5. SampleBracketed(samples', t) = SampleBracketed(a, t)
      <4> HIDE DEF a
      <4> QED
        BY <2>1, <3>2, <3>3, <3>4, NeighboursStayNeighbours
    <3>6. SampleBracketed(a, t) = Between(a[i - 1], a[i], t)
      <4> HIDE DEF a
      <4> QED
        BY <3>2, <3>3, SampleBetween
    <3>7. SampleBracketed(samples, t) = Between(samples[i - 1], samples[i], t)
      BY <2>1, SampleBetween
    <3> QED
      BY <3>3, <3>5, <3>6, <3>7
  <2>4. ASSUME NEW pose \in Candidates, Push(pose), ~Accepts(pose)
        PROVE  SampleBracketed(samples', t) = SampleBracketed(samples, t)
    BY <2>4 DEF Push
  <2>5. ASSUME NEW c \in Capacities, SetCapacity(c)
        PROVE  SampleBracketed(samples', t) = SampleBracketed(samples, t)
    <3>1. samples' = KeepNewest(samples, capacity') /\ capacity' \in Nat \ {0}
      BY <2>1, <2>5, CapacityAssumption DEF SetCapacity
    <3> QED
      BY <2>1, <3>1, NeighboursStayNeighbours
  <2>6. CASE Clear
    BY <2>6, EmptySeq DEF Clear
  <2> QED
    BY <2>2, <2>3, <2>4, <2>5, <2>6 DEF Next
<1>2. Spec => []IInv
  BY InitIInv, NextIInv, PTL DEF Spec
<1> QED
  BY <1>1, <1>2, PTL DEF Spec, RetainedAnswersStable
=============================================================================

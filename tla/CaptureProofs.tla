---------------------------- MODULE CaptureProofs ----------------------------
(***************************************************************************)
(* Proofs about the intake of LiveCapture, for every set of joints, frames *)
(* and configurations and with no bound on the calls, and about the        *)
(* motion_record session that drives it, for every trace, rate, delivery   *)
(* lag and intake policy: its clip has no gap, shows nothing before it     *)
(* arrives, and is sampled throughout when the capture was clean.          *)
(***************************************************************************)
EXTENDS LiveCaptureProperties, ReplaySessionProperties, SequenceTheorems, FiniteSetTheorems,
        SharedLemmas, TLAPS

BufferProofs == INSTANCE PoseBufferProofs
                  WITH Candidates <- Pose,
                       Capacities <- {c.bufferCapacity : c \in Configs}

-----------------------------------------------------------------------------
(* What PoseBufferProofs proves of the buffer, in the names of LiveCapture. *)

BufferOK ==
  /\ samples \in Seq(Pose)
  /\ capacity \in Nat \ {0}
  /\ BufferInvariant

LEMMA SamePose == BufferProofs!Pose = Pose /\ BufferProofs!PushedPose = PushedPose
BY DEF BufferProofs!Pose, Pose, BufferProofs!PushedPose, PushedPose,
       BufferProofs!Time, Time, BufferProofs!Instant, Instant,
       BufferProofs!NonFinite, NonFinite, BufferProofs!RootMotion, RootMotion,
       BufferProofs!Rotation, Rotation, BufferProofs!Provenance, Provenance,
       BufferProofs!Velocity, Velocity

LEMMA SameBuffer ==
  /\ \A s : Buffer!Newest(s) = BufferProofs!Newest(s)
  /\ \A s, n : Buffer!KeepNewest(s, n) = BufferProofs!KeepNewest(s, n)
  /\ \A pose : Buffer!Accepts(pose) <=> BufferProofs!Accepts(pose)
  /\ \A pose : Buffer!Push(pose) <=> BufferProofs!Push(pose)
  /\ \A c : Buffer!SetCapacity(c) <=> BufferProofs!SetCapacity(c)
  /\ Buffer!Clear <=> BufferProofs!Clear
BY DEF Buffer!Newest, BufferProofs!Newest, Buffer!KeepNewest, BufferProofs!KeepNewest,
       Buffer!Accepts, BufferProofs!Accepts, Buffer!Push, BufferProofs!Push,
       Buffer!SetCapacity, BufferProofs!SetCapacity, Buffer!Clear, BufferProofs!Clear,
       Buffer!IsFinite, BufferProofs!IsFinite, Buffer!Time, BufferProofs!Time,
       Buffer!Minus, BufferProofs!Minus, Buffer!Finite, BufferProofs!Finite,
       Buffer!NonFinite, BufferProofs!NonFinite

LEMMA SameInvariant == /\ BufferOK <=> BufferProofs!IInv
                       /\ BufferOK' <=> BufferProofs!IInv'
BY SamePose DEF BufferOK, BufferInvariant, BufferProofs!IInv, BufferProofs!TypeOK,
       Buffer!BufferInvariant, BufferProofs!BufferInvariant, Buffer!Ordered,
       BufferProofs!Ordered, Buffer!IsFinite, BufferProofs!IsFinite, Buffer!Time,
       BufferProofs!Time

(* The assumptions of PoseBuffer hold of this instance of it.              *)
LEMMA BufferAssumptions ==
  /\ Pose \subseteq PushedPose
  /\ {c.bufferCapacity : c \in Configs} \subseteq Nat
<1>1. Pose \subseteq PushedPose
  BY DEF Pose, PushedPose, Instant
<1>2. {c.bufferCapacity : c \in Configs} \subseteq Nat
  BY InputAssumption DEF Config
<1> QED
  BY <1>1, <1>2

LEMMA EvictionProperties ==
  ASSUME NEW S, NEW s \in Seq(S), s # <<>>, NEW n \in Nat \ {0}
  PROVE  LET k == Buffer!KeepNewest(s, n)
         IN  /\ k \in Seq(S)
             /\ k # <<>>
             /\ Buffer!Newest(k) = Buffer!Newest(s)
             /\ \A i \in 1 .. Len(k) : \E m \in 1 .. Len(s) : k[i] = s[m]
<1> DEFINE k == BufferProofs!KeepNewest(s, n)
           d == Len(s) - Len(k)
<1>1. /\ k \in Seq(S)
      /\ k # <<>>
      /\ Len(k) <= Len(s)
      /\ \A i \in 1 .. Len(k) : k[i] = s[d + i]
  BY BufferProofs!KeepNewestProperties, SamePose, BufferAssumptions, InputAssumption,
     TimeAssumption, NoneAssumption
<1>2. BufferProofs!Newest(k) = BufferProofs!Newest(s)
  BY BufferProofs!KeepNewestLast, SamePose, BufferAssumptions, InputAssumption,
     TimeAssumption, NoneAssumption
<1>3. Len(k) \in Nat /\ Len(s) \in Nat
  BY <1>1, LenProperties
<1>4. \A i \in 1 .. Len(k) : d + i \in 1 .. Len(s)
  <2> HIDE DEF k
  <2> QED
    BY <1>1, <1>3
<1>5. \A i \in 1 .. Len(k) : \E m \in 1 .. Len(s) : k[i] = s[m]
  <2> HIDE DEF k, d
  <2> QED
    BY <1>1, <1>4
<1>6. k = Buffer!KeepNewest(s, n)
  BY SameBuffer
<1> HIDE DEF k
<1> QED
  BY <1>1, <1>2, <1>5, <1>6, SameBuffer

(* A push the buffer takes: the pose becomes the newest.                   *)
LEMMA BufferPush ==
  ASSUME BufferOK, NEW pose \in Pose, Buffer!Push(pose), Buffer!Accepts(pose)
  PROVE  /\ BufferOK'
         /\ samples' # <<>>
         /\ Buffer!Newest(samples') = pose
         /\ \A i \in 1 .. Len(samples') :
              \/ samples'[i] = pose
              \/ \E k \in 1 .. Len(samples) : samples'[i] = samples[k]
<1>1. BufferOK'
  <2>1. BufferProofs!IInv /\ BufferProofs!Push(pose) /\ pose \in BufferProofs!PushedPose
    BY SameInvariant, SameBuffer, SamePose, BufferAssumptions
  <2>2. BufferProofs!IInv'
    BY <2>1, BufferProofs!PushIInv, SamePose, BufferAssumptions, InputAssumption,
       TimeAssumption, NoneAssumption
  <2> QED
    BY <2>2, SameInvariant
<1> DEFINE a == Append(samples, pose)
<1>2. /\ a \in Seq(Pose)
      /\ a # <<>>
      /\ Buffer!Newest(a) = pose
      /\ \A m \in 1 .. Len(a) :
           a[m] = pose \/ \E k \in 1 .. Len(samples) : a[m] = samples[k]
  <2>1. samples \in Seq(Pose) /\ Len(samples) \in Nat
    BY LenProperties DEF BufferOK
  <2>2. /\ a \in Seq(Pose)
        /\ Len(a) = Len(samples) + 1
        /\ \A i \in 1 .. Len(samples) : a[i] = samples[i]
        /\ a[Len(samples) + 1] = pose
    BY <2>1, AppendProperties
  <2>3. a # <<>>
    BY <2>1, <2>2, EmptySeq
  <2> HIDE DEF a
  <2> QED
    BY <2>1, <2>2, <2>3 DEF Buffer!Newest
<1>3. samples' = Buffer!KeepNewest(a, capacity) /\ capacity \in Nat \ {0}
  BY DEF Buffer!Push, BufferOK
<1>4. /\ samples' # <<>>
      /\ Buffer!Newest(samples') = pose
      /\ \A i \in 1 .. Len(samples') : \E m \in 1 .. Len(a) : samples'[i] = a[m]
  <2> HIDE DEF a
  <2> QED
    BY <1>2, <1>3, EvictionProperties
<1> QED
  <2> HIDE DEF a
  <2> QED
    BY <1>1, <1>2, <1>4

(* A new capacity: the newest stays the newest, nothing else comes in.     *)
LEMMA BufferSetCapacity ==
  ASSUME BufferOK, NEW c \in Nat, Buffer!SetCapacity(c)
  PROVE  /\ BufferOK'
         /\ (samples' = <<>>) = (samples = <<>>)
         /\ samples # <<>> => Buffer!Newest(samples') = Buffer!Newest(samples)
         /\ \A i \in 1 .. Len(samples') : \E k \in 1 .. Len(samples) : samples'[i] = samples[k]
<1>1. BufferOK'
  <2>1. BufferProofs!IInv /\ BufferProofs!SetCapacity(c)
    BY SameInvariant, SameBuffer
  <2>2. BufferProofs!IInv'
    BY <2>1, BufferProofs!SetCapacityIInv, SamePose, BufferAssumptions, InputAssumption,
       TimeAssumption, NoneAssumption
  <2> QED
    BY <2>2, SameInvariant
<1>2. /\ samples \in Seq(Pose)
      /\ capacity' \in Nat \ {0}
      /\ samples' = Buffer!KeepNewest(samples, capacity')
  BY DEF Buffer!SetCapacity, BufferOK
<1>3. CASE samples = <<>>
  <2>1. samples' = <<>>
    BY <1>2, <1>3, EmptySeq DEF Buffer!KeepNewest
  <2> QED
    BY <1>1, <1>3, <2>1
<1>4. CASE samples # <<>>
  BY <1>1, <1>2, <1>4, EvictionProperties
<1> QED
  BY <1>3, <1>4

LEMMA BufferClear ==
  ASSUME BufferOK, Buffer!Clear
  PROVE  BufferOK'
<1>1. BufferProofs!IInv /\ BufferProofs!Clear
  BY SameInvariant, SameBuffer
<1>2. BufferProofs!IInv'
  BY <1>1, BufferProofs!ClearIInv, SamePose, BufferAssumptions, InputAssumption,
     TimeAssumption, NoneAssumption
<1> QED
  BY <1>2, SameInvariant

-----------------------------------------------------------------------------
(* The inductive invariant of the history: types, the head, the buffer.    *)
CaptureInv == TypeOK /\ HeadTracked /\ BufferInvariant

(* Facts about the conditioning of a frame that reaches it.                *)
Admissible(frame) == ~InvalidTimestamp(frame) /\ ~NotNewer(frame)

LEMMA TimeIsInt == Time \subseteq Int
BY DEF Time

LEMMA AdmissibleTimes ==
  ASSUME TypeOK, NEW frame \in Frame, ~InvalidTimestamp(frame)
  PROVE  /\ frame.timestamp \in Time
         /\ lastAccepted # None =>
              /\ lastAccepted \in Pose
              /\ lastAccepted.timestamp \in Time
              /\ Delta(frame) \in Time
<1>1. frame.timestamp \in Time
  BY DEF InvalidTimestamp, IsFinite
<1>2. ASSUME lastAccepted # None
      PROVE  /\ lastAccepted \in Pose
             /\ lastAccepted.timestamp \in Time
             /\ Delta(frame) \in Time
  <2>1. lastAccepted \in Pose /\ lastAccepted.timestamp \in Time
    BY <1>2 DEF TypeOK, Pose
  <2>2. IsFinite(Minus(frame.timestamp, lastAccepted.timestamp))
    BY <1>2 DEF InvalidTimestamp
  <2> QED
    BY <1>1, <2>1, <2>2, TimeAssumption
       DEF Minus, Finite, IsFinite, Time, NonFinite, Delta
<1> QED
  BY <1>1, <1>2

LEMMA SeenType ==
  ASSUME NEW e \in Nat, NEW t \in Time
  PROVE  {Seen(e, t)} \in Rotation
BY DEF Seen, Rotation, Provenance

LEMMA ResolvedType ==
  ASSUME TypeOK, NEW frame \in Frame, ~InvalidTimestamp(frame)
  PROVE  Resolved(frame) \in [Joints -> Rotation]
<1>1. {Seen(epoch, frame.timestamp)} \in Rotation
  BY AdmissibleTimes, SeenType DEF TypeOK
<1>2. ASSUME NEW j \in Held(frame) PROVE lastAccepted.joints[j] \in Rotation
  <2>1. lastAccepted \in Pose /\ j \in Joints
    BY <1>2 DEF Held, TypeOK
  <2> QED
    BY <2>1 DEF Pose
<1>3. Absent \in Rotation
  BY DEF Absent, Rotation
<1> QED
  BY <1>1, <1>2, <1>3 DEF Resolved

LEMMA RootOfType ==
  ASSUME TypeOK, NEW frame \in Frame, ~InvalidTimestamp(frame)
  PROVE  RootOf(frame) \in RootMotion
<1>1. {Seen(epoch, frame.timestamp)} \in Rotation
  BY AdmissibleTimes, SeenType DEF TypeOK
<1>2. Absent \in Rotation
  BY DEF Absent, Rotation
<1>3. /\ frame.root.hasPosition \in BOOLEAN /\ frame.root.worldPosition \in Int
      /\ frame.root.hasLinearVelocity \in BOOLEAN
      /\ frame.root.linearVelocity \in Velocity
  BY DEF Frame, RawRoot
<1> QED
  BY <1>1, <1>2, <1>3 DEF RootOf, RootMotion

LEMMA ConditionRootMotionType ==
  ASSUME NEW prior \in Pose, NEW pose \in Pose, NEW rule
  PROVE  ConditionRootMotion(prior, pose, rule) \in RootMotion
<1> DEFINE delta == pose.timestamp - prior.timestamp
           moved == pose.root.worldPosition - prior.root.worldPosition
<1>1. pose.root \in RootMotion /\ prior.root \in RootMotion
  BY DEF Pose
<1>2. delta \in Int /\ moved \in Int
  BY <1>1 DEF Pose, Time, RootMotion
<1>3. NoRootMotion \in RootMotion
  BY DEF NoRootMotion, RootMotion, Absent, Rotation, Still, Velocity
<1>4. ASSUME delta > 0
      PROVE  [pose.root EXCEPT
                !.hasLinearVelocity = TRUE,
                !.linearVelocity    = [by |-> moved, over |-> delta]] \in RootMotion
  <2>1. [by |-> moved, over |-> delta] \in Velocity
    <3> HIDE DEF moved, delta
    <3> QED
      BY <1>2, <1>4 DEF Velocity
  <2> HIDE DEF moved, delta
  <2> QED
    BY <1>1, <2>1 DEF RootMotion
<1> QED
  BY <1>1, <1>3, <1>4 DEF ConditionRootMotion

LEMMA UnsmoothedType ==
  ASSUME TypeOK, NEW frame \in Frame, ~InvalidTimestamp(frame)
  PROVE  /\ Unsmoothed(frame) \in Pose
         /\ Unsmoothed(frame).timestamp = frame.timestamp
         /\ Unsmoothed(frame).joints = Resolved(frame)
         /\ Unsmoothed(frame).root.worldOrientation
              \in {Absent, RootOf(frame).worldOrientation}
<1> DEFINE pose == [timestamp |-> frame.timestamp, joints |-> Resolved(frame),
                    root |-> RootOf(frame), source |-> metadata]
           prior == IF lastAccepted # None THEN lastAccepted ELSE pose
           root == ConditionRootMotion(prior, pose, config.rootMotion)
<1>1. pose \in Pose
  BY AdmissibleTimes, ResolvedType, RootOfType DEF Pose, TypeOK
<1>2. prior \in Pose
  <2> HIDE DEF pose
  <2> QED
    BY <1>1, AdmissibleTimes
<1>3. root \in RootMotion
  <2> HIDE DEF pose, prior
  <2> QED
    BY <1>1, <1>2, ConditionRootMotionType
<1>4. root.worldOrientation \in {Absent, pose.root.worldOrientation}
  <2>1. pose.root \in RootMotion
    BY <1>1 DEF Pose
  <2> HIDE DEF pose, prior
  <2> QED
    BY <2>1 DEF ConditionRootMotion, NoRootMotion, RootMotion
<1>5. Unsmoothed(frame) = [pose EXCEPT !.root = root]
  BY DEF Unsmoothed
<1>6. pose.joints = Resolved(frame) /\ pose.root = RootOf(frame)
      /\ pose.timestamp = frame.timestamp
  OBVIOUS
<1> HIDE DEF pose, root
<1> QED
  BY <1>1, <1>3, <1>4, <1>5, <1>6 DEF Pose

LEMMA SmoothRotationType ==
  ASSUME generation \in Nat, NEW a \in Rotation, NEW b \in Rotation
  PROVE  SmoothRotation(a, b) \in Rotation
<1>1. {Filtered(generation)} \in Rotation
  BY DEF Filtered, Rotation, Provenance
<1> QED
  BY <1>1 DEF SmoothRotation, Rotation

LEMMA SmoothRootType ==
  ASSUME generation \in Nat, NEW a \in RootMotion, NEW b \in RootMotion
  PROVE  SmoothRoot(a, b) \in RootMotion
<1>1. SmoothRotation(a.worldOrientation, b.worldOrientation) \in Rotation
  BY SmoothRotationType DEF RootMotion
<1>2. a.worldPosition \in Int /\ b.worldPosition \in Int
  BY DEF RootMotion
<1>3. (IF a.hasPosition /\ b.hasPosition
       THEN a.worldPosition + (b.worldPosition - a.worldPosition) \div 2
       ELSE b.worldPosition) \in Int
  BY <1>2
<1> QED
  BY <1>1, <1>3 DEF SmoothRoot, RootMotion

(* The smoothed pose, and what the filter keeps of it, are poses.          *)
LEMMA SmoothedType ==
  ASSUME TypeOK, NEW pose \in Pose
  PROVE  /\ Smoothed(pose) \in Pose
         /\ FilterState(pose) \in Pose
         /\ Smoothed(pose).timestamp = pose.timestamp
         /\ FilterState(pose).timestamp = pose.timestamp
         /\ FilterState(pose).root = Smoothed(pose).root
         /\ \A j \in Joints : (Smoothed(pose).joints[j] = Absent) = (pose.joints[j] = Absent)
         /\ \A j \in Joints : pose.joints[j] # Absent =>
              FilterState(pose).joints[j] = Smoothed(pose).joints[j]
<1>1. CASE Seeds(pose)
  BY <1>1 DEF Smoothed, FilterState
<1>2. CASE ~Seeds(pose)
  <2>1. filter \in Pose /\ generation \in Nat
    BY <1>2 DEF Seeds, TypeOK
  <2> DEFINE joints == [j \in Joints |-> SmoothRotation(filter.joints[j], pose.joints[j])]
             root == SmoothRoot(filter.root, pose.root)
             kept == [j \in Joints |->
                        IF pose.joints[j] = Absent THEN filter.joints[j] ELSE joints[j]]
  <2>2. \A j \in Joints : filter.joints[j] \in Rotation /\ pose.joints[j] \in Rotation
    BY <2>1 DEF Pose
  <2>3. joints \in [Joints -> Rotation] /\ kept \in [Joints -> Rotation]
    BY <2>1, <2>2, SmoothRotationType
  <2>4. root \in RootMotion
    BY <2>1, SmoothRootType DEF Pose
  <2>5. Smoothed(pose) = [pose EXCEPT !.joints = joints, !.root = root]
    BY <1>2 DEF Smoothed
  <2>6. \A j \in Joints : (joints[j] = Absent) = (pose.joints[j] = Absent)
    BY DEF SmoothRotation, Absent
  <2>7. FilterState(pose) = [Smoothed(pose) EXCEPT !.joints = kept]
    <3>1. Smoothed(pose).joints = joints
      <4> HIDE DEF joints, root
      <4> QED
        BY <2>5 DEF Pose
    <3> QED
      BY <1>2, <3>1 DEF FilterState
  <2>8. \A j \in Joints : pose.joints[j] # Absent => kept[j] = joints[j]
    OBVIOUS
  <2> HIDE DEF joints, root, kept
  <2> QED
    BY <2>3, <2>4, <2>5, <2>6, <2>7, <2>8 DEF Pose
<1> QED
  BY <1>1, <1>2

LEMMA ConditionedType ==
  ASSUME TypeOK, NEW frame \in Frame, ~InvalidTimestamp(frame)
  PROVE  /\ Conditioned(frame) \in Pose
         /\ Conditioned(frame).timestamp = frame.timestamp
         /\ FilterState(Unsmoothed(frame)) \in Pose
<1>1. /\ Unsmoothed(frame) \in Pose
      /\ Unsmoothed(frame).timestamp = frame.timestamp
  BY UnsmoothedType
<1> QED
  BY <1>1, SmoothedType DEF Conditioned

(* What the comment in Push calls unreachable: a frame that passed its     *)
(* checks is never refused by the buffer.                                  *)
LEMMA BufferNeverRefuses ==
  ASSUME CaptureInv, NEW frame \in Frame, Admissible(frame)
  PROVE  Buffer!Accepts(Conditioned(frame))
<1> DEFINE pose == Conditioned(frame)
<1>1. TypeOK /\ HeadTracked /\ ~InvalidTimestamp(frame) /\ ~NotNewer(frame)
  BY DEF CaptureInv, Admissible
<1>2. pose.timestamp = frame.timestamp /\ frame.timestamp \in Time
  BY <1>1, ConditionedType, AdmissibleTimes
<1>3. ASSUME samples # <<>>
      PROVE  /\ pose.timestamp > Buffer!Newest(samples).timestamp
             /\ IsFinite(Minus(pose.timestamp, Buffer!Newest(samples).timestamp))
  <2>1. lastAccepted = Buffer!Newest(samples)
    BY <1>1, <1>3 DEF HeadTracked
  <2>2. Buffer!Newest(samples) \in Pose
    BY <1>1, <1>3, EmptySeq, ElementOfSeq DEF TypeOK, Buffer!Newest
  <2>3. lastAccepted # None
    BY <2>1, <2>2, NoneAssumption
  <2>4. lastAccepted.timestamp \in Time /\ Delta(frame) \in Time
    BY <1>1, <2>3, AdmissibleTimes
  <2>5. Delta(frame) > 0
    BY <1>1, <2>3, <2>4 DEF NotNewer, Time
  <2>6. IsFinite(Minus(frame.timestamp, lastAccepted.timestamp))
    BY <1>1, <2>3 DEF InvalidTimestamp
  <2> QED
    BY <1>2, <2>1, <2>4, <2>5, <2>6 DEF Delta, Time
<1> HIDE DEF pose
<1>4. Buffer!Accepts(pose)
  BY <1>2, <1>3 DEF Buffer!Accepts, Buffer!IsFinite, IsFinite, Buffer!Time, Time,
     Buffer!Minus, Minus, Buffer!Finite, Finite, Buffer!NonFinite, NonFinite
<1> QED
  BY <1>4 DEF pose

LEMMA DisjointUnion ==
  ASSUME NEW S, NEW T, IsFiniteSet(S), IsFiniteSet(T), S \cap T = {}
  PROVE  /\ IsFiniteSet(S \cup T)
         /\ Cardinality(S) \in Nat
         /\ Cardinality(T) \in Nat
         /\ Cardinality(S \cup T) = Cardinality(S) + Cardinality(T)
<1>1. /\ IsFiniteSet(S \cup T)
      /\ Cardinality(S \cup T) = Cardinality(S) + Cardinality(T) - Cardinality(S \cap T)
  BY FS_Union
<1>2. Cardinality(S) \in Nat /\ Cardinality(T) \in Nat
  BY FS_CardinalityType
<1>3. Cardinality(S \cap T) = 0
  BY FS_EmptySet, Zenon
<1> QED
  BY <1>1, <1>2, <1>3

(* Every joint of a conditioned frame is counted once.                     *)
LEMMA JointPartition ==
  ASSUME NEW frame
  PROVE  /\ Cardinality(Gated(frame)) \in Nat
         /\ Cardinality(Observed(frame)) \in Nat
         /\ Cardinality(Held(frame)) \in Nat
         /\ Cardinality(Unbound(frame)) \in Nat
         /\ Cardinality(Observed(frame)) + Cardinality(Held(frame))
              + Cardinality(Unbound(frame)) = Cardinality(Joints)
<1> DEFINE O == Observed(frame)
           H == Held(frame)
           U == Unbound(frame)
           G == Gated(frame)
<1>1. /\ O \subseteq Joints /\ H \subseteq Joints /\ U \subseteq Joints /\ G \subseteq Joints
      /\ O \cap H = {} /\ (O \cup H) \cap U = {} /\ (O \cup H) \cup U = Joints
  BY DEF Observed, Held, Unbound, Gated
<1> HIDE DEF O, H, U, G
<1>2. /\ IsFiniteSet(O) /\ IsFiniteSet(H) /\ IsFiniteSet(U) /\ IsFiniteSet(G)
      /\ IsFiniteSet(O \cup H)
  BY <1>1, JointsAssumption, FS_Subset, FS_Union
<1>3. Cardinality(G) \in Nat
  BY <1>2, FS_CardinalityType
<1>4. /\ Cardinality(O) \in Nat /\ Cardinality(H) \in Nat
      /\ Cardinality(O \cup H) = Cardinality(O) + Cardinality(H)
  BY <1>1, <1>2, DisjointUnion
<1>5. /\ Cardinality(U) \in Nat
      /\ Cardinality((O \cup H) \cup U) = Cardinality(O \cup H) + Cardinality(U)
  BY <1>1, <1>2, DisjointUnion
<1>6. Cardinality(Joints) = Cardinality(O \cup H) + Cardinality(U)
  BY <1>1, <1>5, Zenon
<1> QED
  BY <1>3, <1>4, <1>5, <1>6 DEF O, H, U, G

LEMMA ConditioningStatsType ==
  ASSUME TypeOK, NEW frame
  PROVE  /\ ConditioningStats(frame) \in Stats
         /\ ConditioningStats(frame).framesAccepted = stats.framesAccepted
         /\ ConditioningStats(frame).jointsObserved
              = stats.jointsObserved + Cardinality(Observed(frame))
         /\ ConditioningStats(frame).jointsHeld
              = stats.jointsHeld + Cardinality(Held(frame))
         /\ ConditioningStats(frame).jointsUnbound
              = stats.jointsUnbound + Cardinality(Unbound(frame))
<1> DEFINE g == stats.jointsGatedByConfidence + Cardinality(Gated(frame))
           o == stats.jointsObserved + Cardinality(Observed(frame))
           h == stats.jointsHeld + Cardinality(Held(frame))
           u == stats.jointsUnbound + Cardinality(Unbound(frame))
           r == IF config.rootMotion # "Ignore" /\ frame.root.hasPosition
                THEN stats.rootSamplesObserved + 1 ELSE stats.rootSamplesObserved
           v == IF ~frame.root.hasLinearVelocity /\ Unsmoothed(frame).root.hasLinearVelocity
                THEN stats.rootVelocitiesDerived + 1 ELSE stats.rootVelocitiesDerived
<1>1. stats \in Stats
  BY DEF TypeOK
<1>2. /\ stats.jointsGatedByConfidence \in Nat /\ stats.jointsObserved \in Nat
      /\ stats.jointsHeld \in Nat /\ stats.jointsUnbound \in Nat
      /\ stats.rootSamplesObserved \in Nat /\ stats.rootVelocitiesDerived \in Nat
  BY <1>1 DEF Stats, Counters
<1>3. g \in Nat /\ o \in Nat /\ h \in Nat /\ u \in Nat
  BY <1>2, JointPartition
<1>4. r \in Nat /\ v \in Nat
  BY <1>2
<1>5. ConditioningStats(frame) =
        [stats EXCEPT !.jointsGatedByConfidence = g, !.jointsObserved = o,
                      !.jointsHeld = h, !.jointsUnbound = u,
                      !.rootSamplesObserved = r, !.rootVelocitiesDerived = v]
  BY DEF ConditioningStats
<1>6. /\ ConditioningStats(frame) \in Stats
      /\ ConditioningStats(frame).framesAccepted = stats.framesAccepted
      /\ ConditioningStats(frame).jointsObserved = o
      /\ ConditioningStats(frame).jointsHeld = h
      /\ ConditioningStats(frame).jointsUnbound = u
  <2> HIDE DEF g, o, h, u, r, v
  <2>2. ConditioningStats(frame) \in Stats
    BY <1>1, <1>3, <1>4, <1>5 DEF Stats
  <2>3. ConditioningStats(frame).framesAccepted = stats.framesAccepted
    BY <1>1, <1>5 DEF Stats, Counters
  <2>4. ConditioningStats(frame).jointsObserved = o
    BY <1>1, <1>5 DEF Stats, Counters
  <2>5. ConditioningStats(frame).jointsHeld = h
    BY <1>1, <1>5 DEF Stats, Counters
  <2>6. ConditioningStats(frame).jointsUnbound = u
    BY <1>1, <1>5 DEF Stats, Counters
  <2> QED
    BY <2>2, <2>3, <2>4, <2>5, <2>6
<1> QED
  BY <1>6

-----------------------------------------------------------------------------
(* What Sample answers is well typed.                                      *)

LEMMA SameReads ==
  /\ \A s, t : Buffer!SampleBracketed(s, t) = BufferProofs!SampleBracketed(s, t)
BY DEF Buffer!SampleBracketed, BufferProofs!SampleBracketed, Buffer!Upper, BufferProofs!Upper,
       Buffer!Newest, BufferProofs!Newest, Buffer!LerpPose, BufferProofs!LerpPose,
       Buffer!LerpRootMotion, BufferProofs!LerpRootMotion, Buffer!LerpVelocity,
       BufferProofs!LerpVelocity, Buffer!SlerpShortest, BufferProofs!SlerpShortest,
       Buffer!Absent, BufferProofs!Absent, Buffer!Still, BufferProofs!Still

LEMMA ReadType ==
  ASSUME TypeOK, samples # <<>>, NEW t \in Time
  PROVE  Buffer!Sample(t) \in Pose
<1>1. samples \in Seq(BufferProofs!Pose) /\ t \in BufferProofs!Time
  BY SamePose DEF TypeOK, BufferProofs!Time, Time
<1>2. BufferProofs!SampleBracketed(samples, t) \in BufferProofs!Pose
  BY <1>1, BufferProofs!SampleIsAPose, SamePose, BufferAssumptions, InputAssumption,
     TimeAssumption, NoneAssumption
<1> QED
  BY <1>2, SameReads, SamePose DEF Buffer!Sample, Buffer!IsFinite, Buffer!Time, Time

LEMMA NewestType ==
  ASSUME TypeOK, samples # <<>>
  PROVE  /\ Len(samples) \in Nat \ {0}
         /\ Buffer!Newest(samples) \in Pose
         /\ samples[1] \in Pose
<1>1. Len(samples) \in Nat \ {0} /\ samples \in Seq(Pose)
  BY EmptySeq, LenProperties DEF TypeOK
<1> QED
  BY <1>1, ElementOfSeq DEF Buffer!Newest

LEMMA LastVelocityType ==
  ASSUME TypeOK, samples # <<>>
  PROVE  Buffer!LastVelocity.by \in Int
<1>1. Len(samples) \in Nat \ {0} /\ Buffer!Newest(samples) \in Pose
  BY NewestType
<1>2. /\ Buffer!Newest(samples).root.worldPosition \in Int
      /\ Buffer!Newest(samples).root.linearVelocity.by \in Int
  BY <1>1 DEF Pose, RootMotion, Velocity
<1>3. ASSUME Len(samples) >= 2
      PROVE  samples[Len(samples) - 1].root.worldPosition \in Int
  <2>1. samples[Len(samples) - 1] \in Pose
    BY <1>1, <1>3, ElementOfSeq DEF TypeOK
  <2> QED
    BY <2>1 DEF Pose, RootMotion
<1> DEFINE newest == Buffer!Newest(samples).root
           previous == samples[Len(samples) - 1].root
<1>4. CASE newest.hasLinearVelocity
  BY <1>2, <1>4 DEF Buffer!LastVelocity
<1>5. CASE /\ ~newest.hasLinearVelocity
           /\ Len(samples) >= 2
           /\ newest.hasPosition
           /\ previous.hasPosition
  <2>1. Buffer!LastVelocity.by = newest.worldPosition - previous.worldPosition
    BY <1>5 DEF Buffer!LastVelocity
  <2> QED
    BY <1>2, <1>3, <1>5, <2>1
<1>6. CASE /\ ~newest.hasLinearVelocity
           /\ ~(/\ Len(samples) >= 2
                /\ newest.hasPosition
                /\ previous.hasPosition)
  BY <1>6 DEF Buffer!LastVelocity, Buffer!Still
<1> QED
  BY <1>4, <1>5, <1>6

LEMMA LeadType ==
  ASSUME TypeOK, samples # <<>>, NEW t \in Time, NEW limit \in Time,
         t > Buffer!Newest(samples).timestamp
  PROVE  /\ Buffer!Lead(t, limit) \in Nat
         /\ Buffer!Lead(t, limit) <= t - Buffer!Newest(samples).timestamp
         /\ limit > 0 => Buffer!Lead(t, limit) <= limit
         /\ Buffer!Newest(samples).timestamp + Buffer!Lead(t, limit) \in Time
<1>1. Buffer!Newest(samples).timestamp \in Time
  BY NewestType DEF Pose
<1> QED
  BY <1>1, TimeAssumption DEF Time, Buffer!Lead, Buffer!Smaller, Buffer!Larger

LEMMA ExtrapolationType ==
  ASSUME TypeOK, samples # <<>>, NEW t \in Time, NEW limit \in Time
  PROVE  /\ Buffer!SampleExtrapolated(t, limit).pose \in Pose
         /\ Buffer!SampleExtrapolated(t, limit).carried \in Int
<1>1. t \in Int /\ Buffer!Newest(samples) \in Pose /\ Buffer!Newest(samples).timestamp \in Int
  BY NewestType DEF Pose, Time
<1>2. Buffer!IsFinite(t) /\ Buffer!IsFinite(limit)
  BY DEF Buffer!IsFinite, Buffer!Time, Time
<1>3. CASE t <= Buffer!Newest(samples).timestamp
  <2>1. Buffer!SampleExtrapolated(t, limit) = [pose |-> Buffer!Sample(t), carried |-> 0]
    BY <1>2, <1>3 DEF Buffer!SampleExtrapolated
  <2> QED
    BY <2>1, ReadType
<1>4. CASE t > Buffer!Newest(samples).timestamp
  <2> DEFINE lead == Buffer!Lead(t, limit)
             pose == [Buffer!Newest(samples) EXCEPT !.timestamp = @ + lead]
             carried == IF Buffer!Newest(samples).root.hasPosition
                        THEN Buffer!LastVelocity.by * lead ELSE 0
  <2>1. lead \in Nat /\ Buffer!Newest(samples).timestamp + lead \in Time
    BY <1>4, LeadType
  <2>2. ~(t <= Buffer!Newest(samples).timestamp)
    BY <1>1, <1>4
  <2>3. Buffer!SampleExtrapolated(t, limit) = [pose |-> pose, carried |-> carried]
    BY <1>2, <2>2 DEF Buffer!SampleExtrapolated
  <2>4. carried \in Int
    <3> HIDE DEF lead
    <3> QED
      BY <2>1, LastVelocityType
  <2>5. pose \in Pose
    <3> HIDE DEF lead
    <3> QED
      BY <1>1, <2>1 DEF Pose
  <2> HIDE DEF pose, carried
  <2> QED
    BY <2>3, <2>4, <2>5
<1> QED
  BY <1>1, <1>3, <1>4

LEMMA InstantArithmetic ==
  ASSUME NEW a, NEW b
  PROVE  /\ Plus(a, b) \in Instant
         /\ Minus(a, b) \in Instant
BY DEF Plus, Minus, Instant, Finite, IsFinite

(* Past the suppression checks, there is a finite time to answer at.       *)
LEMMA AnswerableTimes ==
  ASSUME TypeOK, NEW t, ~Suppressed(t)
  PROVE  /\ samples # <<>>
         /\ t \in Time
         /\ CaptureTime(t) \in Time
         /\ Lag(t) = CaptureTime(t) - Buffer!Newest(samples).timestamp
         /\ Lag(t) \in Time
<1>1. samples # <<>> /\ t \in Time /\ CaptureTime(t) \in Time /\ Lag(t) \in Time
  BY DEF Suppressed, IsFinite
<1>2. Buffer!Newest(samples).timestamp \in Time
  BY <1>1, NewestType DEF Pose
<1> QED
  BY <1>1, <1>2, TimeAssumption DEF Lag, Minus, Finite, IsFinite, Time, NonFinite

LEMMA BufferAnswerType ==
  ASSUME TypeOK, NEW t, ~Suppressed(t)
  PROVE  LET found == BufferAnswer(CaptureTime(t))
         IN  /\ found.pose \in Pose \cup {None}
             /\ found.carried \in Int
<1> DEFINE at == CaptureTime(t)
           limit == config.maxExtrapolation
<1>1. samples # <<>> /\ at \in Time
  BY AnswerableTimes
<1>2. limit \in Instant
  BY DEF TypeOK, Config
<1> HIDE DEF at
<1>3. CASE ~(limit > 0)
  <2>1. BufferAnswer(at) = [pose |-> Buffer!Sample(at), carried |-> 0]
    BY <1>3 DEF BufferAnswer
  <2> QED
    BY <1>1, <2>1, ReadType DEF at
<1>4. CASE limit > 0 /\ limit \in Time
  <2>1. BufferAnswer(at) = Buffer!SampleExtrapolated(at, limit)
    BY <1>4 DEF BufferAnswer
  <2> QED
    BY <1>1, <1>4, <2>1, ExtrapolationType DEF at
<1>5. CASE limit > 0 /\ limit \notin Time
  <2>1. BufferAnswer(at) = Buffer!SampleExtrapolated(at, limit)
    BY <1>5 DEF BufferAnswer
  <2>2. Buffer!SampleExtrapolated(at, limit) = [pose |-> None, carried |-> 0]
    BY <1>5 DEF Buffer!SampleExtrapolated, Buffer!IsFinite, Buffer!Time, Time
  <2> QED
    BY <2>1, <2>2 DEF at
<1> QED
  BY <1>3, <1>4, <1>5

LEMMA ResultType ==
  ASSUME TypeOK, NEW t
  PROVE  Result(t) \in Answer
<1> DEFINE at == CaptureTime(t)
           lag == Lag(t)
           found == BufferAnswer(at)
<1>1. at \in Instant /\ lag \in Instant /\ 0 \in Instant
  BY InstantArithmetic, TimeAssumption DEF CaptureTime, Lag, Instant, Time
<1>2. \A l \in Instant : Unavailable(t, l) \in Answer
  BY <1>1 DEF Unavailable, Answer
<1>3. CASE Suppressed(t)
  <2>1. Result(t) = Unavailable(t, 0)
    BY <1>3 DEF Result
  <2> QED
    BY <1>1, <1>2, <2>1
<1>4. CASE ~Suppressed(t) /\ found.pose = None
  <2>1. Result(t) = Unavailable(t, lag)
    BY <1>4 DEF Result
  <2> QED
    BY <1>1, <1>2, <2>1
<1>5. CASE ~Suppressed(t) /\ found.pose # None
  <2> DEFINE pose == [found.pose EXCEPT !.timestamp = t]
             status == Status(at, found)
  <2>1. Result(t) = [status |-> status, lag |-> lag, pose |-> pose,
                     captureTime |-> at, carried |-> found.carried]
    BY <1>5 DEF Result
  <2>2. found.pose \in Pose /\ found.carried \in Int
    BY <1>5, BufferAnswerType
  <2>3. t \in Time
    BY <1>5, AnswerableTimes
  <2>4. pose \in Pose
    <3> HIDE DEF found
    <3> QED
      BY <2>2, <2>3 DEF Pose
  <2>5. status \in {"Sampled", "Held", "Extrapolated", "Unavailable"}
    BY DEF Status
  <2> HIDE DEF status, pose, found, lag, at
  <2> QED
    BY <1>1, <2>1, <2>2, <2>4, <2>5 DEF Answer, Pose
<1> QED
  BY <1>3, <1>4, <1>5

LEMMA CountSampleType ==
  ASSUME NEW s \in Stats, NEW status
  PROVE  CountSample(status, s) \in Stats
BY DEF CountSample, Stats, Counters

-----------------------------------------------------------------------------
(* One lemma per action: the history's invariant is preserved.             *)

LEMMA FramesAreFrames == Frames \subseteq Frame
BY InputAssumption DEF Frames, Frame

LEMMA InitCapture == Init => CaptureInv
<1> SUFFICES ASSUME Init PROVE CaptureInv
  OBVIOUS
<1>1. samples \in Seq(Pose) /\ samples = <<>> /\ Len(samples) = 0
  BY EmptySeq DEF Init
<1>2. config \in Config /\ capacity \in Nat \ {0}
  BY InputAssumption DEF Init, Config
<1>3. stats \in Stats
  BY DEF Init, Stats, NoStats
<1>4. TypeOK
  BY <1>1, <1>2, <1>3, TimeAssumption DEF Init, TypeOK, InputStates, Instant, Time
<1>5. HeadTracked /\ BufferInvariant
  BY <1>1, <1>2 DEF Init, HeadTracked, BufferInvariant, Buffer!BufferInvariant, Buffer!Ordered
<1> QED
  BY <1>4, <1>5 DEF CaptureInv

(* A step that leaves the buffer and the head alone.                       *)
LEMMA SameHistory ==
  ASSUME CaptureInv, UNCHANGED <<samples, capacity, lastAccepted>>, TypeOK'
  PROVE  CaptureInv'
BY DEF CaptureInv, HeadTracked, BufferInvariant, Buffer!BufferInvariant, Buffer!Ordered,
       Buffer!Newest

LEMMA RefuseCapture ==
  ASSUME CaptureInv, NEW counted \in Stats, Refuse(counted), answer' = None
  PROVE  CaptureInv'
<1>1. TypeOK'
  BY DEF CaptureInv, TypeOK, Refuse, intake, setting, history
<1> QED
  BY <1>1, SameHistory DEF Refuse, intake, setting, history

LEMMA AcceptCapture ==
  ASSUME CaptureInv, NEW frame \in Frame, Admissible(frame), Accept(frame), answer' = None
  PROVE  /\ CaptureInv'
         /\ lastAccepted' = Conditioned(frame)
         /\ lastAccepted' \in Pose
         /\ stats' = [ConditioningStats(frame) EXCEPT !.framesAccepted = @ + 1]
         /\ \A i \in 1 .. Len(samples') :
              \/ samples'[i] = Conditioned(frame)
              \/ \E k \in 1 .. Len(samples) : samples'[i] = samples[k]
<1> DEFINE pose == Conditioned(frame)
           counted == ConditioningStats(frame)
<1>1. TypeOK /\ ~InvalidTimestamp(frame) /\ BufferOK
  BY DEF CaptureInv, Admissible, BufferOK, TypeOK
<1>2. pose \in Pose /\ FilterState(Unsmoothed(frame)) \in Pose
  BY <1>1, ConditionedType
<1>3. Buffer!Accepts(pose) /\ Buffer!Push(pose)
  BY BufferNeverRefuses DEF Accept
<1>4. /\ lastAccepted' = pose
      /\ stats' = [counted EXCEPT !.framesAccepted = @ + 1]
      /\ inputState' = "Available"
      /\ observedPosition' = frame.root.worldPosition
      /\ observedJoints' = Coverage(frame)
      /\ filter' = IF config.smoothing THEN FilterState(Unsmoothed(frame)) ELSE filter
      /\ UNCHANGED <<config, metadata, clockOffset, epoch, generation>>
  BY <1>3 DEF Accept, history
<1> HIDE DEF pose
<1>5. /\ BufferOK'
      /\ samples' # <<>>
      /\ Buffer!Newest(samples') = pose
      /\ \A i \in 1 .. Len(samples') :
           samples'[i] = pose \/ \E k \in 1 .. Len(samples) : samples'[i] = samples[k]
  BY <1>1, <1>2, <1>3, BufferPush
<1>6. stats' \in Stats
  BY <1>1, <1>4, ConditioningStatsType DEF Stats, Counters
<1>7. observedJoints' \subseteq Joints /\ observedPosition' \in Int
  BY <1>1, <1>4 DEF TypeOK, Coverage, Observed, Frame, RawRoot
<1>8. TypeOK'
  BY <1>1, <1>2, <1>4, <1>5, <1>6, <1>7 DEF TypeOK, BufferOK, InputStates
<1>9. HeadTracked' /\ BufferInvariant'
  BY <1>4, <1>5 DEF HeadTracked, BufferOK
<1> QED
  BY <1>2, <1>4, <1>5, <1>8, <1>9 DEF CaptureInv, pose

(* Push is a refusal that changes a counter, or the intake of a frame that *)
(* passed every check.                                                     *)
LEMMA PushCases ==
  ASSUME CaptureInv, NEW frame \in Frame, Push(frame)
  PROVE  /\ answer' = None
         /\ \/ /\ Admissible(frame)
               /\ Accept(frame)
            \/ \E counted \in Stats :
                 /\ Refuse(counted)
                 /\ \A c \in {"framesAccepted", "jointsObserved", "jointsHeld",
                              "jointsUnbound", "rootVelocitiesDerived"} :
                      counted[c] = stats[c]
<1>1. stats \in Stats
  BY DEF CaptureInv, TypeOK
<1> DEFINE invalid == [stats EXCEPT !.framesRejectedInvalidTimestamp = @ + 1]
           empty == [stats EXCEPT !.framesRejectedEmpty = @ + 1]
           stale == [stats EXCEPT !.framesRejectedStale = @ + 1]
           unordered == [stats EXCEPT !.framesRejectedOutOfOrder = @ + 1]
<1>2. \A counted \in {invalid, empty, stale, unordered} :
        /\ counted \in Stats
        /\ \A c \in {"framesAccepted", "jointsObserved", "jointsHeld",
                     "jointsUnbound", "rootVelocitiesDerived"} : counted[c] = stats[c]
  BY <1>1 DEF Stats, Counters
<1>3. CASE InvalidTimestamp(frame)
  <2>1. Refuse(invalid)
    BY <1>3 DEF Push
  <2> HIDE DEF invalid, empty, stale, unordered
  <2> QED
    BY <1>2, <2>1 DEF Push
<1>4. CASE ~InvalidTimestamp(frame) /\ ~CarriesAnything(frame)
  <2>1. Refuse(empty)
    BY <1>4 DEF Push
  <2> HIDE DEF invalid, empty, stale, unordered
  <2> QED
    BY <1>2, <2>1 DEF Push
<1>5. CASE ~InvalidTimestamp(frame) /\ CarriesAnything(frame) /\ NotNewer(frame)
  <2>1. Refuse(IF Straggler(frame) THEN stale ELSE unordered)
    BY <1>5 DEF Push
  <2> HIDE DEF invalid, empty, stale, unordered
  <2> QED
    BY <1>2, <2>1 DEF Push
<1>6. CASE ~InvalidTimestamp(frame) /\ CarriesAnything(frame) /\ ~NotNewer(frame)
  BY <1>6 DEF Push, Admissible
<1> QED
  BY <1>3, <1>4, <1>5, <1>6

LEMMA PushCapture ==
  ASSUME CaptureInv, NEW frame \in Frame, Push(frame)
  PROVE  CaptureInv'
BY PushCases, AcceptCapture, RefuseCapture

LEMMA SetConfigCapture ==
  ASSUME CaptureInv, NEW c \in Configs, SetConfig(c)
  PROVE  /\ CaptureInv'
         /\ \A i \in 1 .. Len(samples') : \E k \in 1 .. Len(samples) : samples'[i] = samples[k]
<1>1. c \in Config /\ c.bufferCapacity \in Nat
  BY InputAssumption DEF Config
<1>2. TypeOK /\ HeadTracked /\ BufferOK
  BY DEF CaptureInv, TypeOK, BufferOK
<1>3. /\ BufferOK'
      /\ (samples' = <<>>) = (samples = <<>>)
      /\ samples # <<>> => Buffer!Newest(samples') = Buffer!Newest(samples)
      /\ \A i \in 1 .. Len(samples') : \E k \in 1 .. Len(samples) : samples'[i] = samples[k]
  BY <1>1, <1>2, BufferSetCapacity DEF SetConfig
<1>4. /\ config' = c /\ filter' = None /\ generation' = generation + 1 /\ answer' = None
      /\ UNCHANGED <<metadata, lastAccepted, observedJoints, observedPosition,
                     clockOffset, stats, inputState, epoch>>
  BY DEF SetConfig
<1>5. TypeOK'
  BY <1>1, <1>2, <1>3, <1>4 DEF TypeOK, BufferOK
<1>6. HeadTracked' /\ BufferInvariant'
  BY <1>2, <1>3, <1>4 DEF HeadTracked, BufferOK
<1> QED
  BY <1>3, <1>5, <1>6 DEF CaptureInv

LEMMA ResetCapture ==
  ASSUME CaptureInv, Reset
  PROVE  CaptureInv'
<1>1. TypeOK /\ BufferOK
  BY DEF CaptureInv, TypeOK, BufferOK
<1>2. BufferOK' /\ samples' = <<>>
  BY <1>1, BufferClear DEF Reset, Buffer!Clear
<1>3. TypeOK'
  BY <1>1, <1>2 DEF Reset, TypeOK, BufferOK, setting
<1>4. HeadTracked' /\ BufferInvariant'
  BY <1>2 DEF Reset, HeadTracked, BufferOK
<1> QED
  BY <1>3, <1>4 DEF CaptureInv

(* The calls that only set a policy or a counter, or only read.            *)
LEMMA SetSourceMetadataCapture ==
  ASSUME CaptureInv, NEW source \in Sources, SetSourceMetadata(source)
  PROVE  CaptureInv'
<1>1. TypeOK'
  BY DEF CaptureInv, TypeOK, SetSourceMetadata, intake, history
<1> QED
  BY <1>1, SameHistory DEF SetSourceMetadata, intake, history

LEMMA SetInputStateCapture ==
  ASSUME CaptureInv, NEW state \in InputStates, SetInputState(state)
  PROVE  CaptureInv'
<1>1. TypeOK'
  BY DEF CaptureInv, TypeOK, SetInputState, intake, history
<1> QED
  BY <1>1, SameHistory DEF SetInputState, intake, history

LEMMA SetClockOffsetCapture ==
  ASSUME CaptureInv, NEW offset \in Instant, SetClockOffset(offset)
  PROVE  CaptureInv'
<1>1. TypeOK'
  BY DEF CaptureInv, TypeOK, SetClockOffset, intake, history
<1> QED
  BY <1>1, SameHistory DEF SetClockOffset, intake, history

LEMMA AlignClockCapture ==
  ASSUME CaptureInv, NEW t, AlignClock(t)
  PROVE  CaptureInv'
<1>1. clockOffset' \in Instant
  BY InstantArithmetic DEF CaptureInv, TypeOK, AlignClock
<1>2. TypeOK'
  BY <1>1 DEF CaptureInv, TypeOK, AlignClock, intake, history
<1> QED
  BY <1>2, SameHistory DEF AlignClock, intake, history

LEMMA ResetStatsCapture ==
  ASSUME CaptureInv, ResetStats
  PROVE  CaptureInv'
<1>1. NoStats \in Stats
  BY DEF NoStats, Stats
<1>2. TypeOK'
  BY <1>1 DEF CaptureInv, TypeOK, ResetStats, intake, history, setting
<1> QED
  BY <1>2, SameHistory DEF ResetStats, intake, history, setting

LEMMA SampleCapture ==
  ASSUME CaptureInv, NEW t, Sample(t)
  PROVE  CaptureInv'
<1>1. TypeOK
  BY DEF CaptureInv
<1>2. Result(t) \in Answer
  BY <1>1, ResultType
<1>3. stats' \in Stats
  <2> DEFINE peak == Larger(stats.peakLagSeconds, Result(t).lag)
             counted == [stats EXCEPT !.peakLagSeconds = peak]
  <2>1. stats.peakLagSeconds \in Nat /\ Result(t).lag \in Int
    BY <1>1, <1>2, TimeAssumption
       DEF TypeOK, Stats, Counters, Answer, Instant, Time, NonFinite
  <2>2. counted \in Stats
    <3>1. peak \in Nat
      BY <2>1 DEF Larger
    <3> HIDE DEF peak
    <3> QED
      BY <1>1, <3>1 DEF TypeOK, Stats
  <2>3. stats' = CountSample(Result(t).status, counted)
    BY DEF Sample
  <2> HIDE DEF counted
  <2> QED
    BY <2>2, <2>3, CountSampleType
<1>4. TypeOK'
  BY <1>1, <1>2, <1>3 DEF TypeOK, Sample, intake, setting, history
<1> QED
  BY <1>4, SameHistory DEF Sample, intake, setting, history

LEMMA NextCapture == CaptureInv /\ [Next]_vars => CaptureInv'
<1> SUFFICES ASSUME CaptureInv, [Next]_vars PROVE CaptureInv'
  OBVIOUS
<1>1. ASSUME NEW frame \in Frames, Push(frame) PROVE CaptureInv'
  BY <1>1, FramesAreFrames, PushCapture
<1>2. ASSUME NEW c \in Configs, SetConfig(c) PROVE CaptureInv'
  BY <1>2, SetConfigCapture
<1>3. ASSUME NEW source \in Sources, SetSourceMetadata(source) PROVE CaptureInv'
  BY <1>3, SetSourceMetadataCapture
<1>4. ASSUME NEW state \in InputStates, SetInputState(state) PROVE CaptureInv'
  BY <1>4, SetInputStateCapture
<1>5. ASSUME NEW offset \in Offsets, SetClockOffset(offset) PROVE CaptureInv'
  BY <1>5, SetClockOffsetCapture, InputAssumption
<1>6. ASSUME NEW t \in EvaluationTimes, AlignClock(t) PROVE CaptureInv'
  BY <1>6, AlignClockCapture
<1>7. ASSUME NEW t \in EvaluationTimes, Sample(t) PROVE CaptureInv'
  BY <1>7, SampleCapture
<1>8. CASE Reset
  BY <1>8, ResetCapture
<1>9. CASE ResetStats
  BY <1>9, ResetStatsCapture
<1>10. CASE UNCHANGED vars
  <2>1. TypeOK'
    BY <1>10 DEF CaptureInv, TypeOK, vars
  <2> QED
    BY <1>10, <2>1, SameHistory DEF vars
<1> QED
  BY <1>1, <1>2, <1>3, <1>4, <1>5, <1>6, <1>7, <1>8, <1>9, <1>10 DEF Next

LEMMA CaptureAlways == Spec => []CaptureInv
BY InitCapture, NextCapture, PTL DEF Spec

(* Every pose the intake buffers, keeps or smooths is finite and complete, *)
(* and every answer well formed.                                           *)
THEOREM CaptureTypeCorrect == Spec => []TypeOK
<1>1. CaptureInv => TypeOK
  BY DEF CaptureInv
<1> QED
  BY <1>1, CaptureAlways, PTL

(* The last accepted pose is the newest buffered one, always: so Push's    *)
(* own checks make the buffer's refusal unreachable (BufferNeverRefuses).  *)
THEOREM CaptureHeadTracked == Spec => []HeadTracked
<1>1. CaptureInv => HeadTracked
  BY DEF CaptureInv
<1> QED
  BY <1>1, CaptureAlways, PTL

(* The intake keeps its buffer ordered and bounded.                        *)
THEOREM CaptureBufferOrderedAndBounded == Spec => []BufferInvariant
<1>1. CaptureInv => BufferInvariant
  BY DEF CaptureInv
<1> QED
  BY <1>1, CaptureAlways, PTL

-----------------------------------------------------------------------------
(* Refinement: the buffered timestamps implement BoundedHistory.           *)

LEMMA SameHistorySpec ==
  /\ Buffer!History!vars = BufferProofs!History!vars
  /\ Buffer!History!vars' = BufferProofs!History!vars'
  /\ Buffer!History!Next <=> BufferProofs!History!Next
BY DEF Buffer!History!vars, BufferProofs!History!vars, Buffer!Instants,
       BufferProofs!Instants, Buffer!History!Next, BufferProofs!History!Next,
       Buffer!History!Accept, BufferProofs!History!Accept, Buffer!History!Resize,
       BufferProofs!History!Resize, Buffer!History!Clear, BufferProofs!History!Clear,
       Buffer!History!Suffixes, BufferProofs!History!Suffixes, Buffer!History!Time,
       BufferProofs!History!Time, Buffer!History!IsFinite, BufferProofs!History!IsFinite

LEMMA InitHistory == Init => Buffer!History!Init
<1> SUFFICES ASSUME Init PROVE Buffer!History!Init
  OBVIOUS
<1>1. capacity \in Nat \ {0} /\ samples = <<>>
  BY InputAssumption DEF Init, Config
<1>2. Buffer!Instants(samples) = <<>>
  <2>1. BufferProofs!Instants(<<>>) = <<>>
    BY BufferProofs!InstantsEmpty, SamePose, BufferAssumptions, InputAssumption,
       TimeAssumption, NoneAssumption
  <2> QED
    BY <1>1, <2>1 DEF Buffer!Instants, BufferProofs!Instants
<1> QED
  BY <1>1, <1>2 DEF Buffer!History!Init

LEMMA UnchangedHistory ==
  ASSUME UNCHANGED <<samples, capacity>>
  PROVE  [Buffer!History!Next]_(Buffer!History!vars)
BY DEF Buffer!History!vars, Buffer!Instants

LEMMA PushHistory ==
  ASSUME CaptureInv, NEW frame \in Frame, Push(frame)
  PROVE  [Buffer!History!Next]_(Buffer!History!vars)
<1>1. CASE Admissible(frame) /\ Accept(frame)
  <2>1. TypeOK /\ BufferOK /\ ~InvalidTimestamp(frame)
    BY <1>1 DEF CaptureInv, TypeOK, BufferOK, Admissible
  <2>2. Conditioned(frame) \in Pose /\ Buffer!Push(Conditioned(frame))
    BY <1>1, <2>1, ConditionedType DEF Accept
  <2>3. /\ BufferProofs!IInv
        /\ Conditioned(frame) \in BufferProofs!PushedPose
        /\ BufferProofs!Push(Conditioned(frame))
    BY <2>1, <2>2, SameInvariant, SameBuffer, SamePose, BufferAssumptions
  <2>4. [BufferProofs!History!Next]_(BufferProofs!History!vars)
    BY <2>3, BufferProofs!PushRefines, SamePose, BufferAssumptions, InputAssumption,
       TimeAssumption, NoneAssumption
  <2> QED
    BY <2>4, SameHistorySpec
<1>2. ASSUME NEW counted \in Stats, Refuse(counted)
      PROVE  [Buffer!History!Next]_(Buffer!History!vars)
  BY <1>2, UnchangedHistory DEF Refuse
<1> QED
  BY <1>1, <1>2, PushCases

LEMMA SetConfigHistory ==
  ASSUME CaptureInv, NEW c \in Configs, SetConfig(c)
  PROVE  [Buffer!History!Next]_(Buffer!History!vars)
<1>1. c.bufferCapacity \in Nat /\ BufferOK
  BY InputAssumption DEF Config, CaptureInv, TypeOK, BufferOK
<1>2. BufferProofs!IInv /\ BufferProofs!SetCapacity(c.bufferCapacity)
  BY <1>1, SameInvariant, SameBuffer DEF SetConfig
<1>3. [BufferProofs!History!Next]_(BufferProofs!History!vars)
  BY <1>1, <1>2, BufferProofs!SetCapacityRefines, SamePose, BufferAssumptions,
     InputAssumption, TimeAssumption, NoneAssumption
<1> QED
  BY <1>3, SameHistorySpec

LEMMA ResetHistory ==
  ASSUME Reset
  PROVE  [Buffer!History!Next]_(Buffer!History!vars)
<1>1. BufferProofs!Instants(<<>>) = <<>>
  BY BufferProofs!InstantsEmpty, SamePose, BufferAssumptions, InputAssumption,
     TimeAssumption, NoneAssumption
<1>2. Buffer!Instants(samples)' = <<>> /\ capacity' = capacity
  BY <1>1 DEF Reset, Buffer!Clear, Buffer!Instants, BufferProofs!Instants
<1>3. Buffer!History!Clear
  BY <1>2 DEF Buffer!History!Clear
<1> QED
  BY <1>3 DEF Buffer!History!Next

(* To a reader of timestamps, the whole intake, whatever it is called      *)
(* with, is a bounded history that keeps the newest accepted instants.     *)
THEOREM CaptureImplementsHistory == Spec => HistorySpec
<1>1. CaptureInv /\ [Next]_vars => [Buffer!History!Next]_(Buffer!History!vars)
  <2> SUFFICES ASSUME CaptureInv, [Next]_vars
               PROVE  [Buffer!History!Next]_(Buffer!History!vars)
    OBVIOUS
  <2>1. ASSUME NEW frame \in Frames, Push(frame)
        PROVE  [Buffer!History!Next]_(Buffer!History!vars)
    BY <2>1, FramesAreFrames, PushHistory
  <2>2. ASSUME NEW c \in Configs, SetConfig(c)
        PROVE  [Buffer!History!Next]_(Buffer!History!vars)
    BY <2>2, SetConfigHistory
  <2>3. CASE Reset
    BY <2>3, ResetHistory
  <2>4. CASE UNCHANGED <<samples, capacity>>
    BY <2>4, UnchangedHistory
  <2>5. \/ \E frame \in Frames : Push(frame)
        \/ \E c \in Configs : SetConfig(c)
        \/ Reset
        \/ UNCHANGED <<samples, capacity>>
    BY DEF Next, vars, SetSourceMetadata, SetInputState, SetClockOffset, AlignClock,
           Sample, ResetStats
  <2> QED
    BY <2>1, <2>2, <2>3, <2>4, <2>5
<1> QED
  BY <1>1, InitHistory, CaptureAlways, PTL
     DEF Spec, HistorySpec, Buffer!HistorySpec, Buffer!History!Spec

-----------------------------------------------------------------------------
(* Answers say where they come from.                                       *)

LEMMA RangeOrdered ==
  ASSUME CaptureInv, samples # <<>>
  PROVE  /\ samples[1].timestamp \in Time
         /\ Buffer!Newest(samples).timestamp \in Time
         /\ samples[1].timestamp <= Buffer!Newest(samples).timestamp
<1>1. /\ Len(samples) \in Nat \ {0}
      /\ samples[1] \in Pose
      /\ Buffer!Newest(samples) \in Pose
  BY NewestType DEF CaptureInv
<1>2. samples[1].timestamp \in Time /\ Buffer!Newest(samples).timestamp \in Time
  BY <1>1 DEF Pose
<1>3. CASE Len(samples) = 1
  BY <1>2, <1>3 DEF Buffer!Newest, Time
<1>4. CASE Len(samples) # 1
  <2>1. BufferProofs!Ordered(samples) /\ samples \in Seq(BufferProofs!Pose)
    BY SameInvariant, SamePose DEF CaptureInv, TypeOK, BufferOK, BufferProofs!IInv,
       BufferProofs!BufferInvariant
  <2>2. 1 \in 1 .. Len(samples) /\ Len(samples) \in 1 .. Len(samples) /\ 1 < Len(samples)
    <3>1. \A n \in Nat \ {0} : n # 1 => 1 \in 1 .. n /\ n \in 1 .. n /\ 1 < n
      OBVIOUS
    <3> QED
      BY <1>1, <1>4, <3>1
  <2>3. \A s \in Seq(BufferProofs!Pose) :
          BufferProofs!Ordered(s) =>
            \A i, k \in 1 .. Len(s) : i < k => s[i].timestamp < s[k].timestamp
    BY BufferProofs!OrderedAnywhere, SamePose, BufferAssumptions, InputAssumption,
       TimeAssumption, NoneAssumption
  <2>4. samples[1].timestamp < samples[Len(samples)].timestamp
    BY <2>1, <2>2, <2>3
  <2> QED
    BY <1>2, <2>4 DEF Buffer!Newest, Time
<1> QED
  BY <1>2, <1>3, <1>4

(* Outside the range, a plain read is the boundary sample.                 *)
LEMMA ReadOutside ==
  ASSUME CaptureInv, samples # <<>>, NEW at \in Time
  PROVE  /\ at < samples[1].timestamp => Buffer!Sample(at) = samples[1]
         /\ at > Buffer!Newest(samples).timestamp =>
              Buffer!Sample(at) = Buffer!Newest(samples)
<1>1. /\ samples[1].timestamp \in Int
      /\ Buffer!Newest(samples).timestamp \in Int
      /\ samples[1].timestamp <= Buffer!Newest(samples).timestamp
      /\ at \in Int
  BY RangeOrdered DEF Time
<1>2. Buffer!Sample(at) = Buffer!SampleBracketed(samples, at)
  BY DEF Buffer!Sample, Buffer!IsFinite, Buffer!Time, Time
<1>3. ASSUME at < samples[1].timestamp
      PROVE  Buffer!SampleBracketed(samples, at) = samples[1]
  <2>1. at <= samples[1].timestamp /\ ~(at > samples[1].timestamp)
    BY <1>1, <1>3
  <2> QED
    BY <2>1 DEF Buffer!SampleBracketed
<1>4. ASSUME at > Buffer!Newest(samples).timestamp
      PROVE  Buffer!SampleBracketed(samples, at) = Buffer!Newest(samples)
  <2>1. /\ ~(at <= samples[1].timestamp)
        /\ at > samples[1].timestamp
        /\ at >= Buffer!Newest(samples).timestamp
    BY <1>1, <1>4
  <2> QED
    BY <2>1 DEF Buffer!SampleBracketed
<1> QED
  BY <1>2, <1>3, <1>4

(* What the buffer answers out of range, and how far it carried it.        *)
LEMMA AnswerOutside ==
  ASSUME CaptureInv, NEW t, ~Suppressed(t), BufferAnswer(CaptureTime(t)).pose # None
  PROVE  LET at     == CaptureTime(t)
             found  == BufferAnswer(at)
             newest == Buffer!Newest(samples)
         IN  /\ at < samples[1].timestamp =>
                  /\ found.pose.joints = samples[1].joints
                  /\ found.pose.root = samples[1].root
             /\ at > newest.timestamp =>
                  /\ found.pose.joints = newest.joints
                  /\ found.pose.root = newest.root
             /\ found.carried # 0 =>
                  /\ at > newest.timestamp
                  /\ newest.root.hasPosition
                  /\ \E lead \in 1 .. config.maxExtrapolation :
                       found.carried = Buffer!LastVelocity.by * lead
<1> DEFINE at == CaptureTime(t)
           found == BufferAnswer(at)
           newest == Buffer!Newest(samples)
           limit == config.maxExtrapolation
<1>1. TypeOK /\ samples # <<>> /\ at \in Time
  BY AnswerableTimes DEF CaptureInv
<1>2. /\ samples[1].timestamp \in Int /\ newest.timestamp \in Int /\ at \in Int
      /\ samples[1].timestamp <= newest.timestamp
      /\ newest \in Pose
  BY <1>1, RangeOrdered, NewestType DEF Time
<1>3. limit \in Instant
  BY <1>1 DEF TypeOK, Config
<1>4. CASE found = [pose |-> Buffer!Sample(at), carried |-> 0]
  BY <1>1, <1>4, ReadOutside
<1>5. CASE ~(limit > 0)
  <2>1. found = [pose |-> Buffer!Sample(at), carried |-> 0]
    BY <1>5 DEF BufferAnswer
  <2> QED
    BY <1>4, <2>1
<1>6. CASE limit > 0
  <2>1. found = Buffer!SampleExtrapolated(at, limit)
    BY <1>6 DEF BufferAnswer
  <2>2. limit \in Time
    <3>1. ~Buffer!IsFinite(limit) => found.pose = None
      BY <2>1 DEF Buffer!SampleExtrapolated
    <3> QED
      BY <1>3, <3>1 DEF Instant, Buffer!IsFinite, Buffer!Time, Time
  <2>3. Buffer!IsFinite(at) /\ Buffer!IsFinite(limit)
    BY <1>1, <2>2 DEF Buffer!IsFinite, Buffer!Time, Time
  <2>4. CASE at <= newest.timestamp
    <3>1. found = [pose |-> Buffer!Sample(at), carried |-> 0]
      BY <1>1, <2>1, <2>3, <2>4 DEF Buffer!SampleExtrapolated
    <3> QED
      BY <1>4, <3>1
  <2>5. CASE at > newest.timestamp
    <3> DEFINE lead == Buffer!Lead(at, limit)
    <3>1. ~(at <= newest.timestamp)
      BY <1>2, <2>5
    <3>2. found = [pose    |-> [newest EXCEPT !.timestamp = @ + lead],
                   carried |-> IF newest.root.hasPosition
                               THEN Buffer!LastVelocity.by * lead ELSE 0]
      BY <1>1, <2>1, <2>3, <3>1 DEF Buffer!SampleExtrapolated
    <3>3. found.pose.joints = newest.joints /\ found.pose.root = newest.root
      BY <1>2, <3>2 DEF Pose
    <3>4. ASSUME found.carried # 0
          PROVE  /\ newest.root.hasPosition
                 /\ \E l \in 1 .. limit : found.carried = Buffer!LastVelocity.by * l
      <4>1. newest.root.hasPosition /\ found.carried = Buffer!LastVelocity.by * lead
        BY <3>2, <3>4
      <4>2. lead \in Nat /\ lead <= limit
        BY <1>1, <1>6, <2>2, <2>5, LeadType
      <4>3. lead # 0
        <5>1. Buffer!LastVelocity.by \in Int
          BY <1>1, LastVelocityType
        <5> QED
          BY <3>4, <4>1, <5>1
      <4>4. lead \in 1 .. limit
        <5> HIDE DEF lead
        <5> QED
          BY <2>2, <4>2, <4>3 DEF Time
      <4> QED
        BY <4>1, <4>4
    <3> QED
      BY <1>2, <2>5, <3>3, <3>4
  <2> QED
    BY <1>2, <2>4, <2>5
<1> QED
  BY <1>5, <1>6

LEMMA ResultMatchesHistory ==
  ASSUME CaptureInv, NEW t
  PROVE  MatchesHistory(Result(t))
<1> DEFINE at == CaptureTime(t)
           found == BufferAnswer(at)
           newest == Buffer!Newest(samples)
           oldest == samples[1]
<1>1. CASE Suppressed(t) \/ found.pose = None
  <2>1. Result(t).pose = None
    BY <1>1 DEF Result, Unavailable
  <2> QED
    BY <2>1 DEF MatchesHistory
<1>2. CASE ~Suppressed(t) /\ found.pose # None
  <2> DEFINE a == Result(t)
             status == Status(at, found)
  <2>1. a = [status |-> status, lag |-> Lag(t),
             pose |-> [found.pose EXCEPT !.timestamp = t],
             captureTime |-> at, carried |-> found.carried]
    BY <1>2 DEF Result
  <2>2. TypeOK /\ samples # <<>> /\ at \in Int /\ found.pose \in Pose
    BY <1>2, AnswerableTimes, BufferAnswerType DEF CaptureInv, Time
  <2>3. /\ a.status = status /\ a.captureTime = at /\ a.carried = found.carried
        /\ a.pose.joints = found.pose.joints /\ a.pose.root = found.pose.root
    <3> HIDE DEF status, at, found
    <3> QED
      BY <2>1, <2>2 DEF Pose
  <2>4. /\ oldest.timestamp \in Int /\ newest.timestamp \in Int
        /\ oldest.timestamp <= newest.timestamp /\ Tolerance \in Nat
    BY <2>2, RangeOrdered, TimeAssumption DEF Time
  <2>5. /\ at < oldest.timestamp =>
             found.pose.joints = oldest.joints /\ found.pose.root = oldest.root
        /\ at > newest.timestamp =>
             found.pose.joints = newest.joints /\ found.pose.root = newest.root
        /\ found.carried # 0 =>
             /\ at > newest.timestamp
             /\ newest.root.hasPosition
             /\ \E lead \in 1 .. config.maxExtrapolation :
                  found.carried = Buffer!LastVelocity.by * lead
    BY <1>2, AnswerOutside
  <2>6. /\ OutsideRange(at) <=> (at < oldest.timestamp - Tolerance
                                   \/ at > newest.timestamp + Tolerance)
        /\ PastNewest(at) <=> (at > newest.timestamp + Tolerance)
    BY DEF OutsideRange, PastNewest
  <2>7. CASE ~OutsideRange(at)
    <3>1. status = "Sampled"
      <4> HIDE DEF at, found
      <4> QED
        BY <2>7 DEF Status, OutsideRange
    <3> HIDE DEF at, found, newest, oldest, status, a
    <3>2. oldest.timestamp - Tolerance <= at /\ at <= newest.timestamp + Tolerance
      BY <2>2, <2>4, <2>6, <2>7
    <3>3. MatchesHistory(a)
      BY <2>3, <3>1, <3>2 DEF MatchesHistory, oldest, newest
    <3> QED
      BY <3>3 DEF a
  <2>8. CASE /\ OutsideRange(at)
             /\ PastNewest(at) /\ found.pose.root.hasPosition /\ found.carried # 0
    <3>1. status = "Extrapolated"
      <4> HIDE DEF at, found
      <4> QED
        BY <2>8 DEF Status
    <3> HIDE DEF at, found, newest, oldest, status, a
    <3>2. /\ ~(at <= newest.timestamp + Tolerance)
          /\ ~(at < oldest.timestamp)
          /\ at > newest.timestamp
      BY <2>2, <2>4, <2>6, <2>8
    <3>3. MatchesHistory(a)
      BY <2>3, <2>5, <2>8, <3>1, <3>2 DEF MatchesHistory, oldest, newest
    <3> QED
      BY <3>3 DEF a
  <2>9. CASE /\ OutsideRange(at)
             /\ ~(PastNewest(at) /\ found.pose.root.hasPosition /\ found.carried # 0)
    <3>1. status = "Held"
      <4> HIDE DEF at, found
      <4> QED
        BY <2>9 DEF Status
    <3> HIDE DEF at, found, newest, oldest, status, a
    <3>2. ~(oldest.timestamp - Tolerance <= at /\ at <= newest.timestamp + Tolerance)
      BY <2>2, <2>4, <2>6, <2>9
    <3>3. at < oldest.timestamp \/ at > newest.timestamp
      BY <2>2, <2>4, <2>6, <2>9
    <3>4. found.carried = 0
      <4>1. ASSUME found.carried # 0
            PROVE  FALSE
        <5>1. at > newest.timestamp /\ newest.root.hasPosition
          BY <2>5, <4>1
        <5>2. PastNewest(at)
          BY <2>2, <2>4, <2>6, <2>9, <5>1
        <5> QED
          BY <2>5, <2>9, <4>1, <5>1, <5>2
      <4> QED
        BY <4>1
    <3>5. MatchesHistory(a)
      BY <2>3, <2>5, <3>1, <3>2, <3>3, <3>4 DEF MatchesHistory, oldest, newest
    <3> QED
      BY <3>5 DEF a
  <2> QED
    BY <2>7, <2>8, <2>9
<1> QED
  BY <1>1, <1>2

(* An answer says where it comes from, whatever was pushed and asked.      *)
THEOREM CaptureAnswerMatchesHistory == Spec => []AnswerMatchesHistory
<1>1. Init => AnswerMatchesHistory
  BY DEF Init, AnswerMatchesHistory
<1>2. CaptureInv /\ AnswerMatchesHistory /\ [Next]_vars => AnswerMatchesHistory'
  <2> SUFFICES ASSUME CaptureInv, AnswerMatchesHistory, [Next]_vars
               PROVE  AnswerMatchesHistory'
    OBVIOUS
  <2>1. ASSUME NEW t \in EvaluationTimes, Sample(t)
        PROVE  AnswerMatchesHistory'
    <3>1. /\ answer' = Result(t)
          /\ samples' = samples
          /\ config' = config
      BY <2>1 DEF Sample, setting
    <3>2. MatchesHistory(Result(t))
      BY ResultMatchesHistory
    <3> QED
      BY <3>1, <3>2 DEF AnswerMatchesHistory, MatchesHistory, Buffer!Newest, Buffer!LastVelocity
  <2>2. CASE answer' = None
    BY <2>2 DEF AnswerMatchesHistory
  <2>3. CASE UNCHANGED vars
    BY <2>3 DEF vars, AnswerMatchesHistory, MatchesHistory, Buffer!Newest, Buffer!LastVelocity
  <2>4. (\E t \in EvaluationTimes : Sample(t)) \/ answer' = None \/ UNCHANGED vars
    BY DEF Next, Push, SetConfig, SetSourceMetadata, SetInputState, SetClockOffset,
           AlignClock, Reset, ResetStats
  <2> QED
    BY <2>1, <2>2, <2>3, <2>4
<1> QED
  BY <1>1, <1>2, CaptureAlways, PTL DEF Spec

-----------------------------------------------------------------------------
(* What flows through the intake: no observation survives a Reset, nothing *)
(* is invented, the smoothing filter stands at the head of the stream, and *)
(* every joint of every accepted frame is counted once.                    *)

(* The last accepted pose is one of the buffered ones.                     *)
LEMMA HeadIsBuffered ==
  ASSUME CaptureInv, lastAccepted # None
  PROVE  /\ lastAccepted \in Pose
         /\ \E i \in 1 .. Len(samples) : lastAccepted = samples[i]
<1>1. samples # <<>> /\ lastAccepted = Buffer!Newest(samples)
  BY DEF CaptureInv, HeadTracked
<1>2. Len(samples) \in Nat \ {0} /\ Buffer!Newest(samples) \in Pose
  BY <1>1, NewestType DEF CaptureInv
<1>3. Len(samples) \in 1 .. Len(samples)
  BY <1>2
<1> QED
  BY <1>1, <1>2, <1>3 DEF Buffer!Newest

(* The calls that touch neither the history nor the smoothing.             *)
LEMMA OtherCalls ==
  ASSUME \/ \E source \in Sources : SetSourceMetadata(source)
         \/ \E state \in InputStates : SetInputState(state)
         \/ \E offset \in Offsets : SetClockOffset(offset)
         \/ \E t \in EvaluationTimes : AlignClock(t)
         \/ \E t \in EvaluationTimes : Sample(t)
         \/ ResetStats
         \/ UNCHANGED vars
  PROVE  UNCHANGED <<samples, filter, lastAccepted, observedJoints, epoch, config, generation>>
BY DEF SetSourceMetadata, SetInputState, SetClockOffset, AlignClock, Sample, ResetStats,
       vars, intake, history, setting

(* Every step is an intake, a SetConfig, a Reset, or leaves all that alone. *)
LEMMA StepCases ==
  ASSUME CaptureInv, [Next]_vars
  PROVE  \/ \E frame \in Frame : Admissible(frame) /\ Accept(frame) /\ answer' = None
         \/ \E c \in Configs : SetConfig(c)
         \/ Reset
         \/ UNCHANGED <<samples, filter, lastAccepted, observedJoints, epoch, config, generation>>
<1>1. ASSUME NEW frame \in Frames, Push(frame)
      PROVE  \/ Admissible(frame) /\ Accept(frame) /\ answer' = None
             \/ UNCHANGED <<samples, filter, lastAccepted, observedJoints, epoch, config, generation>>
  BY <1>1, FramesAreFrames, PushCases DEF Refuse, intake, history, setting
<1> QED
  BY <1>1, FramesAreFrames, OtherCalls DEF Next

-----------------------------------------------------------------------------
(* The filter stands at the head.                                          *)

LEMMA RootIsFilteredAsConfigured ==
  ASSUME TypeOK, FilterTracksHead, NEW frame \in Frame, ~InvalidTimestamp(frame)
  PROVE  FilteredAsConfigured(FilterState(Unsmoothed(frame)).root.worldOrientation)
<1> DEFINE raw == Unsmoothed(frame)
           new == raw.root.worldOrientation
           state == filter.root.worldOrientation
<1>1. raw \in Pose /\ new \in {Absent, RootOf(frame).worldOrientation}
  BY UnsmoothedType
<1>2. FilteredAsConfigured(new)
  BY <1>1 DEF RootOf, Seen, Absent, FilteredAsConfigured
<1> HIDE DEF raw
<1>3. CASE Seeds(raw)
  BY <1>2, <1>3 DEF FilterState, raw
<1>4. CASE ~Seeds(raw)
  <2>1. filter # None /\ FilteredAsConfigured(state)
    BY <1>4 DEF Seeds, FilterTracksHead
  <2>2. FilterState(raw).root = Smoothed(raw).root
    BY <1>1, SmoothedType
  <2>3. Smoothed(raw).root.worldOrientation = SmoothRotation(state, new)
    BY <1>1, <1>4 DEF Smoothed, SmoothRoot, Pose, RootMotion
  <2> HIDE DEF new, state
  <2>4. FilteredAsConfigured({Filtered(generation)})
    BY DEF FilteredAsConfigured, Filtered
  <2>5. FilteredAsConfigured(SmoothRotation(state, new))
    BY <1>2, <2>1, <2>4 DEF SmoothRotation, FilteredAsConfigured
  <2> QED
    BY <2>2, <2>3, <2>5 DEF raw
<1> QED
  BY <1>3, <1>4

LEMMA FilterStep ==
  ASSUME CaptureInv, FilterTracksHead, [Next]_vars
  PROVE  FilterTracksHead'
<1>1. ASSUME NEW frame \in Frame, Admissible(frame), Accept(frame), answer' = None
      PROVE  FilterTracksHead'
  <2> DEFINE raw == Unsmoothed(frame)
  <2>1. TypeOK /\ ~InvalidTimestamp(frame)
    BY <1>1 DEF CaptureInv, Admissible
  <2>2. raw \in Pose
    BY <2>1, UnsmoothedType
  <2>3. /\ lastAccepted' = Conditioned(frame)
        /\ lastAccepted' \in Pose
        /\ config' = config
        /\ filter' = IF config.smoothing THEN FilterState(raw) ELSE filter
    BY <1>1, AcceptCapture DEF Accept
  <2>4. CASE config.smoothing
    <3>1. lastAccepted' = Smoothed(raw) /\ filter' = FilterState(raw)
      BY <2>3, <2>4 DEF Conditioned
    <3>2. \A j \in ValidJoints(Smoothed(raw)) :
            FilterState(raw).joints[j] = Smoothed(raw).joints[j]
      BY <2>1, <2>2, SmoothedType DEF ValidJoints
    <3>3. FilteredAsConfigured(FilterState(raw).root.worldOrientation)
      BY <2>1, RootIsFilteredAsConfigured
    <3>4. generation' = generation
      BY <1>1 DEF Accept, history
    <3>5. FilteredAsConfigured(filter.root.worldOrientation)'
      BY <3>1, <3>3, <3>4 DEF FilteredAsConfigured
    <3> HIDE DEF raw
    <3> QED
      BY <2>1, <2>2, <2>3, <2>4, <3>1, <3>2, <3>5, SmoothedType, NoneAssumption
         DEF FilterTracksHead
  <2>5. CASE ~config.smoothing
    BY <2>3, <2>5 DEF FilterTracksHead
  <2> QED
    BY <2>4, <2>5
<1>2. ASSUME NEW c \in Configs, SetConfig(c)
      PROVE  FilterTracksHead'
  BY <1>2 DEF SetConfig, FilterTracksHead
<1>3. CASE Reset
  BY <1>3 DEF Reset, FilterTracksHead
<1>4. CASE UNCHANGED <<samples, filter, lastAccepted, observedJoints, epoch, config, generation>>
  BY <1>4 DEF FilterTracksHead, FilteredAsConfigured, ValidJoints
<1> QED
  BY <1>1, <1>2, <1>3, <1>4, StepCases

(* While it holds a state the filter stands exactly at the head, turned as *)
(* the present configuration asks, so it always has time to elapse and     *)
(* never resumes from a pose left behind.                                  *)
THEOREM CaptureFilterTracksHead == Spec => []FilterTracksHead
<1>1. Init => FilterTracksHead
  BY DEF Init, FilterTracksHead
<1> QED
  BY <1>1, FilterStep, CaptureAlways, PTL DEF Spec

-----------------------------------------------------------------------------
(* Continuity breaks at a Reset.                                           *)

LEMMA SeenEpoch == \A t : FromThisEpoch({Seen(epoch, t)})
BY DEF FromThisEpoch, Seen

LEMMA AbsentEpoch == FromThisEpoch(Absent)
BY DEF FromThisEpoch, Absent

LEMMA SmoothRotationEpoch ==
  ASSUME NEW a, NEW b, FromThisEpoch(a), FromThisEpoch(b)
  PROVE  FromThisEpoch(SmoothRotation(a, b))
<1>1. FromThisEpoch({Filtered(generation)})
  BY DEF FromThisEpoch, Filtered
<1> QED
  BY <1>1 DEF SmoothRotation, FromThisEpoch

LEMMA UnsmoothedEpoch ==
  ASSUME CaptureInv, EpochIsolation, NEW frame \in Frame, ~InvalidTimestamp(frame)
  PROVE  PoseFromThisEpoch(Unsmoothed(frame))
<1>1. /\ Unsmoothed(frame).joints = Resolved(frame)
      /\ Unsmoothed(frame).root.worldOrientation \in {Absent, RootOf(frame).worldOrientation}
  BY UnsmoothedType DEF CaptureInv
<1>2. FromThisEpoch(RootOf(frame).worldOrientation)
  BY SeenEpoch, AbsentEpoch DEF RootOf
<1>3. ASSUME NEW j \in Joints PROVE FromThisEpoch(Resolved(frame)[j])
  <2>1. ASSUME j \in Held(frame) PROVE FromThisEpoch(lastAccepted.joints[j])
    <3>1. lastAccepted # None
      BY <2>1 DEF Held
    <3> QED
      BY <3>1, HeadIsBuffered DEF EpochIsolation, PoseFromThisEpoch
  <2> QED
    BY <2>1, SeenEpoch, AbsentEpoch DEF Resolved
<1> QED
  BY <1>1, <1>2, <1>3, AbsentEpoch DEF PoseFromThisEpoch

LEMMA SmoothedEpoch ==
  ASSUME TypeOK, EpochIsolation, NEW pose \in Pose, PoseFromThisEpoch(pose)
  PROVE  PoseFromThisEpoch(Smoothed(pose)) /\ PoseFromThisEpoch(FilterState(pose))
<1>1. CASE Seeds(pose)
  BY <1>1 DEF Smoothed, FilterState
<1>2. CASE ~Seeds(pose)
  <2>1. filter \in Pose /\ PoseFromThisEpoch(filter)
    BY <1>2 DEF Seeds, TypeOK, EpochIsolation
  <2>2. \A j \in Joints :
          FromThisEpoch(SmoothRotation(filter.joints[j], pose.joints[j]))
    BY <2>1, SmoothRotationEpoch DEF PoseFromThisEpoch
  <2>3. FromThisEpoch(SmoothRotation(filter.root.worldOrientation,
                                     pose.root.worldOrientation))
    BY <2>1, SmoothRotationEpoch DEF PoseFromThisEpoch
  <2>4. \A j \in Joints :
          Smoothed(pose).joints[j] = SmoothRotation(filter.joints[j], pose.joints[j])
    BY <1>2 DEF Smoothed, Pose
  <2>5. Smoothed(pose).root.worldOrientation =
          SmoothRotation(filter.root.worldOrientation, pose.root.worldOrientation)
    BY <1>2 DEF Smoothed, SmoothRoot, Pose, RootMotion
  <2>6. /\ FilterState(pose).root = Smoothed(pose).root
        /\ \A j \in Joints : FilterState(pose).joints[j]
                               \in {filter.joints[j], Smoothed(pose).joints[j]}
    <3>1. Smoothed(pose) \in Pose
      BY SmoothedType
    <3>2. FilterState(pose) = [Smoothed(pose) EXCEPT
            !.joints = [j \in Joints |-> IF pose.joints[j] = Absent
                                         THEN filter.joints[j]
                                         ELSE Smoothed(pose).joints[j]]]
      BY <1>2 DEF FilterState
    <3> QED
      BY <3>1, <3>2 DEF Pose
  <2> QED
    BY <2>1, <2>2, <2>3, <2>4, <2>5, <2>6 DEF PoseFromThisEpoch
<1> QED
  BY <1>1, <1>2

LEMMA EpochStep ==
  ASSUME CaptureInv, EpochIsolation, [Next]_vars
  PROVE  EpochIsolation'
<1>1. ASSUME NEW frame \in Frame, Admissible(frame), Accept(frame), answer' = None
      PROVE  EpochIsolation'
  <2> DEFINE raw == Unsmoothed(frame)
             pose == Conditioned(frame)
  <2>1. TypeOK /\ ~InvalidTimestamp(frame)
    BY <1>1 DEF CaptureInv, Admissible
  <2>2. raw \in Pose /\ PoseFromThisEpoch(raw)
    BY <2>1, UnsmoothedType, UnsmoothedEpoch
  <2>3. PoseFromThisEpoch(pose) /\ PoseFromThisEpoch(FilterState(raw))
    BY <2>1, <2>2, SmoothedEpoch DEF Conditioned
  <2>4. epoch' = epoch /\ filter' \in {FilterState(raw), filter}
    BY <1>1 DEF Accept, history
  <2>5. \A i \in 1 .. Len(samples') :
          samples'[i] = pose \/ \E k \in 1 .. Len(samples) : samples'[i] = samples[k]
    BY <1>1, AcceptCapture
  <2> HIDE DEF raw, pose
  <2>6. \A i \in 1 .. Len(samples') : PoseFromThisEpoch(samples'[i])
    BY <2>3, <2>5 DEF EpochIsolation
  <2>7. filter' # None => PoseFromThisEpoch(filter')
    BY <2>3, <2>4 DEF EpochIsolation
  <2> QED
    BY <2>4, <2>6, <2>7 DEF EpochIsolation, PoseFromThisEpoch, FromThisEpoch
<1>2. ASSUME NEW c \in Configs, SetConfig(c)
      PROVE  EpochIsolation'
  <2>1. /\ epoch' = epoch /\ filter' = None
        /\ \A i \in 1 .. Len(samples') : \E k \in 1 .. Len(samples) : samples'[i] = samples[k]
    BY <1>2, SetConfigCapture DEF SetConfig
  <2>2. \A i \in 1 .. Len(samples') : PoseFromThisEpoch(samples'[i])
    BY <2>1 DEF EpochIsolation
  <2> QED
    BY <2>1, <2>2 DEF EpochIsolation, PoseFromThisEpoch, FromThisEpoch
<1>3. CASE Reset
  <2>1. samples' = <<>> /\ filter' = None
    BY <1>3 DEF Reset, Buffer!Clear
  <2> QED
    BY <2>1 DEF EpochIsolation
<1>4. CASE UNCHANGED <<samples, filter, lastAccepted, observedJoints, epoch, config, generation>>
  BY <1>4 DEF EpochIsolation, PoseFromThisEpoch, FromThisEpoch
<1> QED
  BY <1>1, <1>2, <1>3, <1>4, StepCases

(* Nothing buffered, carried forward or smoothed after a Reset contains an *)
(* observation made before it.                                             *)
THEOREM CaptureEpochIsolation == Spec => []EpochIsolation
<1>1. Init => EpochIsolation
  BY DEF Init, EpochIsolation
<1> QED
  BY <1>1, EpochStep, CaptureAlways, PTL DEF Spec

-----------------------------------------------------------------------------
(* Nothing is invented.                                                    *)

LEMMA UnsmoothedCoverage ==
  ASSUME CaptureInv, CoverageCoversHistory, NEW frame \in Frame, ~InvalidTimestamp(frame)
  PROVE  ValidJoints(Unsmoothed(frame)) \subseteq observedJoints \cup Observed(frame)
<1>1. Unsmoothed(frame).joints = Resolved(frame)
  BY UnsmoothedType DEF CaptureInv
<1>2. \A j \in Joints : Resolved(frame)[j] # Absent => j \in Observed(frame) \cup Held(frame)
  BY DEF Resolved
<1>3. ASSUME NEW j \in Held(frame) PROVE j \in observedJoints
  <2>1. lastAccepted # None /\ j \in ValidJoints(lastAccepted)
    BY <1>3 DEF Held, ValidJoints
  <2>2. PICK i \in 1 .. Len(samples) : lastAccepted = samples[i]
    BY <2>1, HeadIsBuffered
  <2> QED
    BY <2>1, <2>2 DEF CoverageCoversHistory
<1> QED
  BY <1>1, <1>2, <1>3 DEF ValidJoints

(* Smoothing a pose adds no joint to it; the filter keeps what it had.     *)
LEMMA SmoothedCoverage ==
  ASSUME TypeOK, NEW pose \in Pose
  PROVE  /\ ValidJoints(Smoothed(pose)) = ValidJoints(pose)
         /\ \A j \in ValidJoints(FilterState(pose)) :
              j \in ValidJoints(pose) \/ (filter # None /\ j \in ValidJoints(filter))
<1>1. ValidJoints(Smoothed(pose)) = ValidJoints(pose)
  BY SmoothedType DEF ValidJoints
<1>2. ASSUME NEW j \in ValidJoints(FilterState(pose)), pose.joints[j] = Absent
      PROVE  filter # None /\ j \in ValidJoints(filter)
  <2>1. j \in Joints /\ FilterState(pose).joints[j] # Absent
    BY DEF ValidJoints
  <2>2. ~Seeds(pose)
    BY <1>2, <2>1 DEF FilterState
  <2>3. Smoothed(pose) \in Pose
    BY SmoothedType
  <2>4. FilterState(pose).joints[j] = filter.joints[j]
    BY <1>2, <2>1, <2>2, <2>3 DEF FilterState, Pose
  <2> QED
    BY <2>1, <2>2, <2>4 DEF Seeds, ValidJoints
<1> QED
  BY <1>1, <1>2 DEF ValidJoints

LEMMA CoverageStep ==
  ASSUME CaptureInv, CoverageCoversHistory, [Next]_vars
  PROVE  CoverageCoversHistory'
<1>1. ASSUME NEW frame \in Frame, Admissible(frame), Accept(frame), answer' = None
      PROVE  CoverageCoversHistory'
  <2> DEFINE raw == Unsmoothed(frame)
             pose == Conditioned(frame)
             seen == observedJoints \cup Observed(frame)
  <2>1. TypeOK /\ ~InvalidTimestamp(frame)
    BY <1>1 DEF CaptureInv, Admissible
  <2>2. raw \in Pose /\ ValidJoints(raw) \subseteq seen
    BY <2>1, UnsmoothedType, UnsmoothedCoverage
  <2>3. ValidJoints(pose) \subseteq seen
    BY <2>1, <2>2, SmoothedCoverage DEF Conditioned
  <2>4. ValidJoints(FilterState(raw)) \subseteq seen
    <3> HIDE DEF raw
    <3> QED
      BY <2>1, <2>2, SmoothedCoverage DEF CoverageCoversHistory
  <2>5. observedJoints' = seen /\ filter' \in {FilterState(raw), filter}
    BY <1>1 DEF Accept, Coverage
  <2>6. \A i \in 1 .. Len(samples') :
          samples'[i] = pose \/ \E k \in 1 .. Len(samples) : samples'[i] = samples[k]
    BY <1>1, AcceptCapture
  <2>7. observedJoints \subseteq seen
    OBVIOUS
  <2> HIDE DEF raw, pose, seen
  <2>8. \A i \in 1 .. Len(samples') : ValidJoints(samples'[i]) \subseteq seen
    BY <2>3, <2>6, <2>7 DEF CoverageCoversHistory
  <2>9. filter' # None => ValidJoints(filter') \subseteq seen
    BY <2>4, <2>5, <2>7 DEF CoverageCoversHistory
  <2> QED
    BY <2>5, <2>8, <2>9 DEF CoverageCoversHistory, ValidJoints
<1>2. ASSUME NEW c \in Configs, SetConfig(c)
      PROVE  CoverageCoversHistory'
  <2>1. /\ observedJoints' = observedJoints /\ filter' = None
        /\ \A i \in 1 .. Len(samples') : \E k \in 1 .. Len(samples) : samples'[i] = samples[k]
    BY <1>2, SetConfigCapture DEF SetConfig
  <2>2. \A i \in 1 .. Len(samples') : ValidJoints(samples'[i]) \subseteq observedJoints
    BY <2>1 DEF CoverageCoversHistory
  <2> QED
    BY <2>1, <2>2 DEF CoverageCoversHistory, ValidJoints
<1>3. CASE Reset
  <2>1. samples' = <<>> /\ filter' = None
    BY <1>3 DEF Reset, Buffer!Clear
  <2> QED
    BY <2>1 DEF CoverageCoversHistory
<1>4. CASE UNCHANGED <<samples, filter, lastAccepted, observedJoints, epoch, config, generation>>
  BY <1>4 DEF CoverageCoversHistory, ValidJoints
<1> QED
  BY <1>1, <1>2, <1>3, <1>4, StepCases

(* Every joint that is valid in the history was observed since the last    *)
(* Reset, so the coverage report never understates what may be sampled.    *)
THEOREM CaptureCoverageCoversHistory == Spec => []CoverageCoversHistory
<1>1. Init => CoverageCoversHistory
  BY DEF Init, CoverageCoversHistory
<1> QED
  BY <1>1, CoverageStep, CaptureAlways, PTL DEF Spec

-----------------------------------------------------------------------------
(* The joint counters balance.                                             *)

Balanced(s) ==
  s.jointsObserved + s.jointsHeld + s.jointsUnbound
    = Cardinality(Joints) * s.framesAccepted

LEMMA AcceptBalances ==
  ASSUME CaptureInv, Balanced(stats), NEW frame \in Frame,
         Admissible(frame), Accept(frame), answer' = None
  PROVE  Balanced(stats')
<1> DEFINE counted == ConditioningStats(frame)
           J == Cardinality(Joints)
           o == Cardinality(Observed(frame))
           h == Cardinality(Held(frame))
           u == Cardinality(Unbound(frame))
<1>1. TypeOK
  BY DEF CaptureInv
<1>2. /\ stats.jointsObserved \in Nat /\ stats.jointsHeld \in Nat
      /\ stats.jointsUnbound \in Nat /\ stats.framesAccepted \in Nat
  BY <1>1 DEF TypeOK, Stats, Counters
<1>3. /\ counted \in Stats
      /\ counted.framesAccepted = stats.framesAccepted
      /\ counted.jointsObserved = stats.jointsObserved + o
      /\ counted.jointsHeld = stats.jointsHeld + h
      /\ counted.jointsUnbound = stats.jointsUnbound + u
  BY <1>1, ConditioningStatsType
<1>4. o \in Nat /\ h \in Nat /\ u \in Nat /\ o + h + u = J
  BY JointPartition
<1>5. stats' = [counted EXCEPT !.framesAccepted = @ + 1]
  BY AcceptCapture
<1> HIDE DEF counted, o, h, u
<1>6. /\ stats'.framesAccepted = stats.framesAccepted + 1
      /\ stats'.jointsObserved = stats.jointsObserved + o
      /\ stats'.jointsHeld = stats.jointsHeld + h
      /\ stats'.jointsUnbound = stats.jointsUnbound + u
  BY <1>3, <1>5 DEF Stats, Counters
<1>7. J \in Nat
  BY JointsAssumption, FS_CardinalityType
<1>8. stats.jointsObserved + stats.jointsHeld + stats.jointsUnbound
        = J * stats.framesAccepted
  BY DEF Balanced
<1>9. J * (stats.framesAccepted + 1) = J * stats.framesAccepted + J
  <2>1. \A m, n \in Nat : m * (n + 1) = m * n + m
    OBVIOUS
  <2> HIDE DEF J
  <2> QED
    BY <1>2, <1>7, <2>1
<1>10. J * stats.framesAccepted \in Int
  <2>1. \A m, n \in Nat : m * n \in Int
    OBVIOUS
  <2> HIDE DEF J
  <2> QED
    BY <1>2, <1>7, <2>1
<1>11. stats'.jointsObserved + stats'.jointsHeld + stats'.jointsUnbound
         = J * stats'.framesAccepted
  <2> DEFINE total == J * stats.framesAccepted
  <2>1. J * stats'.framesAccepted = total + J
    BY <1>6, <1>9
  <2> HIDE DEF J, total
  <2>2. total \in Int /\ stats.jointsObserved + stats.jointsHeld + stats.jointsUnbound = total
    BY <1>8, <1>10 DEF total
  <2>3. stats'.jointsObserved + stats'.jointsHeld + stats'.jointsUnbound = total + J
    BY <1>2, <1>4, <1>6, <1>7, <2>2
  <2> QED
    BY <2>1, <2>3, Zenon
<1> QED
  BY <1>11 DEF Balanced

LEMMA SampleBalances ==
  ASSUME CaptureInv, Balanced(stats), NEW t, Sample(t)
  PROVE  Balanced(stats')
<1> DEFINE peak == Larger(stats.peakLagSeconds, Result(t).lag)
           counted == [stats EXCEPT !.peakLagSeconds = peak]
<1>1. stats \in [Counters -> Nat]
  BY DEF CaptureInv, TypeOK, Stats
<1>2. stats' = CountSample(Result(t).status, counted)
  BY DEF Sample
<1> DEFINE joints == {"framesAccepted", "jointsObserved", "jointsHeld", "jointsUnbound"}
<1>3. \A c \in joints : counted[c] = stats[c]
  <2> HIDE DEF peak
  <2> QED
    BY <1>1 DEF Counters
<1>4. DOMAIN counted = Counters
  BY <1>1
<1> HIDE DEF counted
<1>5. ASSUME NEW status
      PROVE  \A c \in joints : CountSample(status, counted)[c] = counted[c]
  <2>1. \E d \in {"samplesSampled", "samplesHeld", "samplesExtrapolated",
                  "samplesUnavailable"} :
          CountSample(status, counted) = [counted EXCEPT ![d] = @ + 1]
    BY DEF CountSample
  <2> QED
    BY <1>4, <2>1 DEF Counters
<1>6. \A c \in joints : stats'[c] = stats[c]
  BY <1>2, <1>3, <1>5
<1> QED
  BY <1>6 DEF Balanced

LEMMA LedgerStep ==
  ASSUME CaptureInv, Balanced(stats), [Next]_vars
  PROVE  Balanced(stats')
<1>1. ASSUME NEW frame \in Frames, Push(frame)
      PROVE  Balanced(stats')
  <2>1. frame \in Frame
    BY FramesAreFrames
  <2>2. CASE Admissible(frame) /\ Accept(frame) /\ answer' = None
    BY <2>1, <2>2, AcceptBalances
  <2>3. ASSUME NEW counted \in Stats, Refuse(counted),
               \A c \in {"framesAccepted", "jointsObserved", "jointsHeld",
                         "jointsUnbound", "rootVelocitiesDerived"} :
                 counted[c] = stats[c]
        PROVE  Balanced(stats')
    <3>1. stats' = counted
      BY <2>3 DEF Refuse
    <3> QED
      BY <2>3, <3>1 DEF Balanced
  <2> QED
    BY <1>1, <2>1, <2>2, <2>3, PushCases
<1>2. ASSUME NEW t \in EvaluationTimes, Sample(t)
      PROVE  Balanced(stats')
  BY <1>2, SampleBalances
<1>3. CASE ResetStats
  <2>1. stats' = NoStats
    BY <1>3 DEF ResetStats
  <2>2. Cardinality(Joints) * 0 = 0
    <3>1. Cardinality(Joints) \in Nat
      BY JointsAssumption, FS_CardinalityType
    <3> QED
      BY <3>1
  <2> QED
    BY <2>1, <2>2 DEF Balanced, NoStats, Counters
<1>4. CASE UNCHANGED stats
  BY <1>4 DEF Balanced
<1> QED
  BY <1>1, <1>2, <1>3, <1>4
     DEF Next, vars, SetConfig, SetSourceMetadata, SetInputState, SetClockOffset,
         AlignClock, Reset

(* Every joint of every accepted frame is counted exactly once, and        *)
(* refused frames count nothing.                                           *)
THEOREM CaptureJointLedger == Spec => []JointLedger
<1>1. Init => Balanced(stats)
  <2>1. Cardinality(Joints) * 0 = 0
    <3>1. Cardinality(Joints) \in Nat
      BY JointsAssumption, FS_CardinalityType
    <3> QED
      BY <3>1
  <2> QED
    BY <2>1 DEF Init, Balanced, NoStats, Counters
<1>2. Balanced(stats) <=> JointLedger
  BY DEF Balanced, JointLedger
<1>3. Balanced(stats') <=> JointLedger'
  BY DEF Balanced, JointLedger
<1>4. CaptureInv /\ JointLedger /\ [Next]_vars => JointLedger'
  BY <1>2, <1>3, LedgerStep
<1>5. Init => JointLedger
  BY <1>1, <1>2
<1> QED
  BY <1>4, <1>5, CaptureAlways, PTL DEF Spec

-----------------------------------------------------------------------------
(* What a step may never do.                                               *)

(* A joint the last accepted pose carries is, in the next one, observed    *)
(* anew or exactly where it was.                                           *)
LEMMA AcceptFreezes ==
  ASSUME CaptureInv, FilterTracksHead, NEW frame \in Frame,
         Admissible(frame), Accept(frame), answer' = None,
         lastAccepted # None, config.missingJoints = "HoldLast",
         NEW j \in ValidJoints(lastAccepted)
  PROVE  \/ lastAccepted'.joints[j] = lastAccepted.joints[j]
         \/ Seen(epoch, lastAccepted'.timestamp) \in lastAccepted'.joints[j]
<1> DEFINE raw == Unsmoothed(frame)
           now == {Seen(epoch, frame.timestamp)}
<1>1. TypeOK /\ ~InvalidTimestamp(frame) /\ j \in Joints /\ lastAccepted.joints[j] # Absent
  BY DEF CaptureInv, Admissible, ValidJoints
<1>2. raw \in Pose /\ raw.joints[j] = Resolved(frame)[j]
  BY <1>1, UnsmoothedType
<1>3. raw.joints[j] \in {now, lastAccepted.joints[j]}
  BY <1>1, <1>2 DEF Resolved, Held
<1>4. /\ lastAccepted' = (IF config.smoothing THEN Smoothed(raw) ELSE raw)
      /\ lastAccepted'.timestamp = frame.timestamp
  BY <1>1, AcceptCapture, ConditionedType DEF Conditioned
<1>5. CASE lastAccepted' = raw
  BY <1>3, <1>4, <1>5
<1>6. CASE lastAccepted' = Smoothed(raw) /\ ~Seeds(raw)
  <2>1. filter # None
    BY <1>6 DEF Seeds
  <2>2. filter.joints[j] = lastAccepted.joints[j]
    BY <2>1 DEF FilterTracksHead
  <2>3. Smoothed(raw).joints[j] = SmoothRotation(filter.joints[j], raw.joints[j])
    <3> HIDE DEF raw
    <3> QED
      BY <1>1, <1>2, <1>6 DEF Smoothed, Pose
  <2> HIDE DEF raw
  <2>4. raw.joints[j] = now => Seen(epoch, frame.timestamp) \in Smoothed(raw).joints[j]
    BY <2>3 DEF SmoothRotation
  <2>5. raw.joints[j] = lastAccepted.joints[j] =>
          Smoothed(raw).joints[j] = lastAccepted.joints[j]
    BY <2>2, <2>3 DEF SmoothRotation
  <2> QED
    BY <1>3, <1>4, <1>6, <2>4, <2>5
<1>7. Seeds(raw) => Smoothed(raw) = raw
  BY DEF Smoothed
<1> QED
  BY <1>4, <1>5, <1>6, <1>7

(* Under HoldLast, a limb that is not observed does not move.              *)
THEOREM CaptureHeldLimbIsFrozen == Spec => HeldLimbIsFrozen
<1> DEFINE Freezes ==
      (/\ lastAccepted # None
       /\ lastAccepted' # None
       /\ lastAccepted' # lastAccepted
       /\ config.missingJoints = "HoldLast") =>
        \A j \in ValidJoints(lastAccepted) :
          \/ lastAccepted'.joints[j] = lastAccepted.joints[j]
          \/ Seen(epoch, lastAccepted'.timestamp) \in lastAccepted'.joints[j]
<1>1. CaptureInv /\ FilterTracksHead /\ [Next]_vars => [Freezes]_vars
  <2> SUFFICES ASSUME CaptureInv, FilterTracksHead, [Next]_vars
               PROVE  Freezes
    OBVIOUS
  <2>1. ASSUME NEW frame \in Frame, Admissible(frame), Accept(frame), answer' = None
        PROVE  Freezes
    BY <2>1, AcceptFreezes
  <2>2. CASE lastAccepted' \in {lastAccepted, None}
    BY <2>2
  <2> QED
    BY <2>1, <2>2, StepCases DEF SetConfig, Reset
<1> QED
  BY <1>1, CaptureAlways, CaptureFilterTracksHead, PTL DEF Spec, HeldLimbIsFrozen

(* A pose accepted when nothing is buffered is the pushed frame: nothing   *)
(* is held, smoothed or derived.                                           *)
LEMMA FirstAccept ==
  ASSUME CaptureInv, FilterTracksHead, NEW frame \in Frame,
         Admissible(frame), Accept(frame), answer' = None, samples = <<>>
  PROVE  /\ \A j \in Joints :
              lastAccepted'.joints[j] \in {Absent, {Seen(epoch, lastAccepted'.timestamp)}}
         /\ lastAccepted'.root.worldPosition \in {0, observedPosition'}
         /\ stats'.rootVelocitiesDerived = stats.rootVelocitiesDerived
<1> DEFINE raw == Unsmoothed(frame)
           pose == [timestamp |-> frame.timestamp, joints |-> Resolved(frame),
                    root |-> RootOf(frame), source |-> metadata]
<1>1. /\ TypeOK /\ ~InvalidTimestamp(frame)
      /\ lastAccepted = None /\ filter = None
  BY DEF CaptureInv, Admissible, HeadTracked, FilterTracksHead
<1>2. /\ raw \in Pose /\ raw.timestamp = frame.timestamp
      /\ raw.joints = Resolved(frame)
  BY <1>1, UnsmoothedType
<1>3. lastAccepted' = raw
  BY <1>1, AcceptCapture DEF Conditioned, Smoothed, Seeds
<1>4. \A j \in Joints : Resolved(frame)[j] \in {Absent, {Seen(epoch, frame.timestamp)}}
  BY <1>1 DEF Resolved, Held
<1>5. raw.root \in {NoRootMotion, RootOf(frame)}
  <2>1. /\ pose \in Pose
        /\ pose.timestamp - pose.timestamp = 0
        /\ pose.root = RootOf(frame)
    <3>1. pose \in Pose
      BY <1>1, AdmissibleTimes, ResolvedType, RootOfType DEF Pose, TypeOK
    <3> QED
      BY <3>1 DEF Pose, Time
  <2>2. raw = [pose EXCEPT !.root = ConditionRootMotion(pose, pose, config.rootMotion)]
    BY <1>1 DEF Unsmoothed
  <2> HIDE DEF pose, raw
  <2>3. raw.root = ConditionRootMotion(pose, pose, config.rootMotion)
    BY <2>1, <2>2 DEF Pose
  <2> QED
    BY <2>1, <2>3 DEF ConditionRootMotion
<1>6. observedPosition' = frame.root.worldPosition
  BY BufferNeverRefuses DEF Accept
<1>7. raw.root.worldPosition \in {0, observedPosition'}
  BY <1>5, <1>6 DEF NoRootMotion, RootOf
<1>8. ~(~frame.root.hasLinearVelocity /\ raw.root.hasLinearVelocity)
  BY <1>5 DEF NoRootMotion, RootOf
<1>9. stats'.rootVelocitiesDerived = stats.rootVelocitiesDerived
  <2>1. /\ stats' = [ConditioningStats(frame) EXCEPT !.framesAccepted = @ + 1]
        /\ ConditioningStats(frame) \in Stats
    BY <1>1, AcceptCapture, ConditioningStatsType
  <2>2. stats'.rootVelocitiesDerived = ConditioningStats(frame).rootVelocitiesDerived
    BY <2>1 DEF Stats, Counters
  <2>3. ConditioningStats(frame).rootVelocitiesDerived = stats.rootVelocitiesDerived
    BY <1>1, <1>8 DEF ConditioningStats, TypeOK, Stats, Counters
  <2> QED
    BY <2>2, <2>3
<1> HIDE DEF raw
<1> QED
  BY <1>2, <1>3, <1>4, <1>7, <1>9

(* Nothing from before a Reset reaches the first pose after it.            *)
THEOREM CaptureFirstFrameIsRaw == Spec => FirstFrameIsRaw
<1> DEFINE Raw ==
      (samples = <<>> /\ samples' # <<>>) =>
        /\ \A j \in Joints :
             lastAccepted'.joints[j] \in
               {Absent, {Seen(epoch, lastAccepted'.timestamp)}}
        /\ lastAccepted'.root.worldPosition \in {0, observedPosition'}
        /\ stats'.rootVelocitiesDerived = stats.rootVelocitiesDerived
<1>1. CaptureInv /\ FilterTracksHead /\ [Next]_vars => [Raw]_vars
  <2> SUFFICES ASSUME CaptureInv, FilterTracksHead, [Next]_vars
               PROVE  Raw
    OBVIOUS
  <2>1. ASSUME NEW frame \in Frame, Admissible(frame), Accept(frame), answer' = None
        PROVE  Raw
    BY <2>1, FirstAccept
  <2>2. ASSUME NEW c \in Configs, SetConfig(c)
        PROVE  samples = <<>> => samples' = <<>>
    <3>1. c.bufferCapacity \in Nat /\ BufferOK /\ Buffer!SetCapacity(c.bufferCapacity)
      BY <2>2, InputAssumption DEF Config, CaptureInv, TypeOK, BufferOK, SetConfig
    <3> QED
      BY <3>1, BufferSetCapacity
  <2>3. Reset => samples' = <<>>
    BY DEF Reset, Buffer!Clear
  <2> QED
    BY <2>1, <2>2, <2>3, StepCases
<1> QED
  BY <1>1, CaptureAlways, CaptureFilterTracksHead, PTL DEF Spec, FirstFrameIsRaw

-----------------------------------------------------------------------------
(* The session: its inductive invariant.                                   *)

(* The head of the source's history is a frame already delivered.          *)
HeadWasDelivered ==
  lastAccepted # None =>
    \E k \in 1 .. next : lastAccepted.timestamp = trace[k].timestamp

(* Where the session stands.                                               *)
SessionStands ==
  /\ trace \in Traces
  /\ period \in Periods
  /\ deliveryLag \in DeliveryLags
  /\ config \in Configs
  /\ inputState = "Available"
  /\ next \in 0 .. Len(trace)
  /\ tick \in Nat
  /\ tick <= TickCount
  /\ phase \in {"opening", "running", "done"}
  /\ phase = "opening" => samples = <<>> /\ next = 0 /\ tick = 0 /\ clip = <<>>
  /\ phase # "opening" => clockOffset = StartTime

(* The recorder's clip, and what the session handed over.                  *)
ClipStands ==
  /\ clip \in Seq(Pose)
  /\ clip # <<>> => samples # <<>>
  /\ phase = "done" => taken.samples \in Seq(Pose)
  /\ ClipIsGapless

SessionInv == CaptureInv /\ SessionStands /\ HeadWasDelivered /\ ClipStands

-----------------------------------------------------------------------------
(* The trace and the clock.                                                *)

LEMMA TraceTimes ==
  ASSUME NEW s, IsTrace(s)
  PROVE  /\ s \in Seq(Frame)
         /\ Len(s) \in Nat \ {0}
         /\ \A i \in 1 .. Len(s) : s[i] \in Frame /\ s[i].timestamp \in Time
<1>1. s \in Seq(Frame) /\ Len(s) \in Nat \ {0}
  BY EmptySeq, LenProperties DEF IsTrace
<1>2. ASSUME NEW i \in 1 .. Len(s)
      PROVE  s[i] \in Frame /\ s[i].timestamp \in Time
  <2>1. s[i] \in Frame
    BY <1>1, ElementOfSeq
  <2> QED
    BY <2>1 DEF IsTrace
<1> QED
  BY <1>1, <1>2

(* A trace is in order between any two of its frames: the first frame out  *)
(* of order would be out of order with its neighbour.                      *)
LEMMA TraceOrdered ==
  ASSUME NEW s, IsTrace(s), NEW i \in 1 .. Len(s), NEW k \in 1 .. Len(s), i < k
  PROVE  s[i].timestamp < s[k].timestamp
<1>1. /\ Len(s) \in Nat
      /\ \A m \in 1 .. Len(s) : s[m].timestamp \in Int
  BY TraceTimes DEF Time
<1> DEFINE Late == {m \in 1 .. Len(s) : i < m /\ ~(s[i].timestamp < s[m].timestamp)}
<1>2. CASE Late = {}
  BY <1>2
<1>3. CASE Late # {}
  <2>1. PICK m \in Late : \A n \in Late : m <= n
    <3>1. Late \subseteq Nat
      BY <1>1
    <3> HIDE DEF Late
    <3> QED
      BY <1>3, <3>1, SmallestIndex
  <2>2. /\ m \in 2 .. Len(s) /\ m - 1 \in i .. Len(s) /\ m - 1 \in 1 .. Len(s) - 1
        /\ m - 1 \notin Late
    BY <1>1, <2>1
  <2>3. s[i].timestamp <= s[m - 1].timestamp
    BY <1>1, <2>2
  <2>4. s[m - 1].timestamp < s[(m - 1) + 1].timestamp /\ (m - 1) + 1 = m
    BY <2>2 DEF IsTrace
  <2> QED
    BY <1>1, <2>1, <2>2, <2>3, <2>4
<1> QED
  BY <1>2, <1>3

(* The bounds of the trace, and the numbers of the session's clock.        *)
LEMMA SessionNumbers ==
  ASSUME SessionStands
  PROVE  /\ IsTrace(trace)
         /\ Len(trace) \in Nat \ {0}
         /\ StartTime \in Time /\ EndTime \in Time
         /\ StartTime <= EndTime
         /\ \A k \in 1 .. Len(trace) :
              /\ trace[k] \in Frame
              /\ trace[k].timestamp \in Time
              /\ StartTime <= trace[k].timestamp /\ trace[k].timestamp <= EndTime
         /\ period \in Nat \ {0}
         /\ deliveryLag \in Nat
         /\ Tolerance \in Nat
         /\ EndTime + deliveryLag + Tolerance <= TimeLimit
         /\ EndTime - StartTime + deliveryLag + Tolerance <= TimeLimit
         /\ Now \in Nat
         /\ TickCount \in Nat \ {0}
<1>1. IsTrace(trace) /\ period \in Nat \ {0} /\ deliveryLag \in Nat /\ Tolerance \in Nat
  BY SessionAssumption, TimeAssumption DEF SessionStands
<1>2. Len(trace) \in Nat \ {0} /\ \A k \in 1 .. Len(trace) : trace[k] \in Frame /\ trace[k].timestamp \in Time
  BY <1>1, TraceTimes
<1>3. 1 \in 1 .. Len(trace) /\ Len(trace) \in 1 .. Len(trace)
  BY <1>2
<1>4. ASSUME NEW k \in 1 .. Len(trace)
      PROVE  StartTime <= trace[k].timestamp /\ trace[k].timestamp <= EndTime
  <2>1. trace[k].timestamp \in Int /\ StartTime \in Int /\ EndTime \in Int
    BY <1>2, <1>3 DEF StartTime, EndTime, Time
  <2>2. k = 1 \/ StartTime < trace[k].timestamp
    BY <1>1, <1>2, <1>3, TraceOrdered DEF StartTime
  <2>3. k = Len(trace) \/ trace[k].timestamp < EndTime
    BY <1>1, <1>2, <1>3, TraceOrdered DEF EndTime
  <2> QED
    BY <2>1, <2>2, <2>3 DEF StartTime, EndTime
<1>5. StartTime \in Time /\ EndTime \in Time /\ StartTime <= EndTime
  BY <1>2, <1>3, <1>4 DEF StartTime, EndTime
<1>6. {EndTime + deliveryLag + Tolerance, EndTime - StartTime + deliveryLag + Tolerance}
        \subseteq Time
  BY SpanAssumption DEF SessionStands, StartTime, EndTime
<1>7. Now \in Nat
  BY <1>1 DEF SessionStands, Now
<1>8. TickCount \in Nat \ {0}
  <2>1. EndTime - StartTime + deliveryLag + Tolerance \in Nat
    BY <1>1, <1>5 DEF Time
  <2> QED
    BY <1>1, <2>1, Quotient DEF TickCount
<1>9. /\ EndTime + deliveryLag + Tolerance <= TimeLimit
      /\ EndTime - StartTime + deliveryLag + Tolerance <= TimeLimit
  <2>1. \A t \in Time : t <= TimeLimit
    BY TimeAssumption DEF Time
  <2> QED
    BY <1>6, <2>1
<1> QED
  BY <1>1, <1>2, <1>4, <1>5, <1>7, <1>8, <1>9

(* While the loop runs, its clock is within the span.                      *)
LEMMA NowInSpan ==
  ASSUME SessionStands, tick < TickCount
  PROVE  /\ Now \in Nat
         /\ Now <= EndTime - StartTime + deliveryLag + Tolerance
         /\ Now \in Time
         /\ StartTime + Now \in Time
<1> DEFINE span == EndTime - StartTime + deliveryLag + Tolerance
<1>1. /\ StartTime \in Time /\ EndTime \in Time /\ StartTime <= EndTime
      /\ deliveryLag \in Nat /\ Tolerance \in Nat /\ Now \in Nat
      /\ period \in Nat \ {0}
      /\ EndTime + deliveryLag + Tolerance <= TimeLimit /\ span <= TimeLimit
  BY SessionNumbers
<1>2. span \in Nat /\ StartTime \in Int /\ EndTime \in Int /\ tick \in Nat
  BY <1>1 DEF Time, SessionStands
<1>3. TickCount = span \div period + 1
  BY DEF TickCount
<1> HIDE DEF span
<1>4. span \div period \in Nat /\ (span \div period) * period <= span
  BY <1>1, <1>2, Quotient
<1>5. tick <= span \div period
  BY <1>2, <1>3, <1>4
<1>6. tick * period <= (span \div period) * period
  BY <1>1, <1>2, <1>4, <1>5, Multiples
<1>7. (span \div period) * period \in Int /\ tick * period \in Int
  BY <1>1, <1>2, <1>4, Multiples
<1>8. Now <= span
  BY <1>2, <1>4, <1>6, <1>7 DEF Now
<1> QED
  BY <1>1, <1>2, <1>8, TimeAssumption DEF span, Time

-----------------------------------------------------------------------------
(* The deliveries.                                                         *)

(* A push leaves the consumer's side of the source alone, and the head     *)
(* where it was or at the frame pushed.                                    *)
LEMMA PushKeeps ==
  ASSUME CaptureInv, NEW frame \in Frame, Push(frame), inputState = "Available"
  PROVE  /\ CaptureInv'
         /\ UNCHANGED <<config, clockOffset, inputState, metadata>>
         /\ samples # <<>> => samples' # <<>>
         /\ \/ UNCHANGED <<samples, lastAccepted, filter>>
            \/ /\ lastAccepted' # None
               /\ lastAccepted'.timestamp = frame.timestamp
<1>1. CASE Admissible(frame) /\ Accept(frame) /\ answer' = None
  <2>1. CaptureInv' /\ lastAccepted' = Conditioned(frame) /\ lastAccepted' \in Pose
    BY <1>1, AcceptCapture
  <2>2. lastAccepted' # None
    BY <2>1, NoneAssumption
  <2>3. samples' # <<>>
    BY <2>1, <2>2 DEF CaptureInv, HeadTracked
  <2>4. Conditioned(frame).timestamp = frame.timestamp
    BY <1>1, ConditionedType DEF Admissible, CaptureInv
  <2>5. UNCHANGED <<config, clockOffset, inputState, metadata>>
    BY <1>1 DEF Accept
  <2> QED
    BY <2>1, <2>2, <2>3, <2>4, <2>5
<1>2. ASSUME NEW counted \in Stats, Refuse(counted), answer' = None
      PROVE  /\ CaptureInv'
             /\ UNCHANGED <<config, clockOffset, inputState, metadata>>
             /\ UNCHANGED <<samples, lastAccepted, filter>>
  BY <1>2, RefuseCapture DEF Refuse, intake, setting
<1> QED
  BY <1>1, <1>2, PushCases

LEMMA DeliverSession ==
  ASSUME SessionInv, Deliver
  PROVE  SessionInv'
<1>1. /\ phase = "running" /\ next < Len(trace) /\ Push(trace[next + 1])
      /\ next' = next + 1
      /\ UNCHANGED <<trace, period, deliveryLag, tick, phase, clip, report, taken>>
      /\ CaptureInv /\ SessionStands /\ HeadWasDelivered /\ ClipStands
  BY DEF Deliver, Due, SessionInv, schedule, recorder
<1>2. next \in Nat /\ Len(trace) \in Nat /\ next + 1 \in 1 .. Len(trace)
  BY <1>1, SessionNumbers DEF SessionStands
<1>3. trace[next + 1] \in Frame
  BY <1>1, <1>2, SessionNumbers
<1>4. /\ CaptureInv'
      /\ UNCHANGED <<config, clockOffset, inputState>>
      /\ samples # <<>> => samples' # <<>>
      /\ \/ lastAccepted' = lastAccepted
         \/ lastAccepted'.timestamp = trace[next + 1].timestamp
  BY <1>1, <1>3, PushKeeps DEF SessionStands
<1>5. HeadWasDelivered'
  <2>1. 1 .. next \subseteq 1 .. next' /\ next + 1 \in 1 .. next'
    BY <1>1, <1>2
  <2> QED
    BY <1>1, <1>4, <2>1 DEF HeadWasDelivered
<1>6. SessionStands'
  BY <1>1, <1>2, <1>4 DEF SessionStands, TickCount, StartTime, EndTime
<1>7. ClipStands'
  BY <1>1, <1>4 DEF ClipStands, ClipIsGapless, Gathered
<1> QED
  BY <1>4, <1>5, <1>6, <1>7 DEF SessionInv

-----------------------------------------------------------------------------
(* The ticks.                                                              *)

(* Within the session the source always answers: nothing is non-finite,    *)
(* and the buffer refuses no finite time.                                  *)
LEMMA SessionAnswers ==
  ASSUME SessionInv, phase = "running", tick < TickCount, samples # <<>>
  PROVE  /\ ~Suppressed(Now)
         /\ CaptureTime(Now) = StartTime + Now
         /\ BufferAnswer(CaptureTime(Now)).pose \in Pose
<1>1. TypeOK /\ SessionStands /\ HeadTracked /\ HeadWasDelivered
  BY DEF SessionInv, CaptureInv
<1>2. Now \in Time /\ StartTime + Now \in Time /\ StartTime \in Time /\ Now \in Nat
      /\ clockOffset = StartTime
  BY <1>1, NowInSpan, SessionNumbers DEF SessionStands
<1>3. CaptureTime(Now) = StartTime + Now
  <2>1. Now + StartTime = StartTime + Now
    BY <1>2 DEF Time
  <2> QED
    BY <1>2, <2>1 DEF CaptureTime, Plus, Finite, IsFinite
<1>4. Buffer!Newest(samples) \in Pose /\ lastAccepted = Buffer!Newest(samples)
  BY <1>1, NewestType DEF HeadTracked
<1>5. PICK k \in 1 .. next : Buffer!Newest(samples).timestamp = trace[k].timestamp
  BY <1>1, <1>4, NoneAssumption DEF HeadWasDelivered
<1>6. k \in 1 .. Len(trace)
  BY <1>1, SessionNumbers DEF SessionStands
<1> DEFINE newest == Buffer!Newest(samples).timestamp
<1>7. StartTime <= newest /\ newest <= EndTime /\ newest \in Time
  BY <1>1, <1>5, <1>6, SessionNumbers
<1> HIDE DEF newest
<1>8. StartTime + Now - newest \in Time
  <2>1. /\ EndTime - StartTime + deliveryLag + Tolerance <= TimeLimit
        /\ deliveryLag \in Nat /\ Tolerance \in Nat /\ EndTime \in Int
        /\ Now <= EndTime - StartTime + deliveryLag + Tolerance
    BY <1>1, SessionNumbers, NowInSpan DEF Time
  <2> QED
    BY <1>2, <1>7, <2>1, TimeAssumption DEF Time
<1>9. IsFinite(Lag(Now))
  <2>1. Lag(Now) = Minus(StartTime + Now, newest)
    BY <1>3 DEF Lag, newest
  <2> QED
    BY <1>2, <1>7, <1>8, <2>1 DEF Minus, Finite, IsFinite
<1>10. ~Suppressed(Now)
  BY <1>1, <1>2, <1>3, <1>9 DEF Suppressed, IsFinite, SessionStands
<1> DEFINE at == CaptureTime(Now)
           limit == config.maxExtrapolation
<1>11. at \in Time /\ limit \in Time
  BY <1>1, <1>2, <1>3, SessionAssumption DEF SessionStands
<1> HIDE DEF at
<1>12. CASE limit > 0
  <2>1. BufferAnswer(at) = Buffer!SampleExtrapolated(at, limit)
    BY <1>12 DEF BufferAnswer
  <2> QED
    BY <1>1, <1>3, <1>10, <1>11, <2>1, ExtrapolationType DEF at
<1>13. CASE ~(limit > 0)
  <2>1. BufferAnswer(at) = [pose |-> Buffer!Sample(at), carried |-> 0]
    BY <1>13 DEF BufferAnswer
  <2> QED
    BY <1>1, <1>3, <1>10, <1>11, <2>1, ReadType DEF at
<1> QED
  BY <1>12, <1>13

(* So a tick's answer is a pose at that tick, with what the buffer found.  *)
LEMMA SessionResult ==
  ASSUME SessionInv, phase = "running", tick < TickCount, samples # <<>>
  PROVE  LET found == BufferAnswer(StartTime + Now)
         IN  /\ Result(Now).pose \in Pose
             /\ Result(Now).pose.timestamp = Now
             /\ Result(Now).pose.joints = found.pose.joints
             /\ Result(Now).status = Status(StartTime + Now, found)
             /\ Result(Now).lag \in Int
<1> DEFINE found == BufferAnswer(CaptureTime(Now))
           pose == [found.pose EXCEPT !.timestamp = Now]
           status == Status(CaptureTime(Now), found)
<1>1. /\ ~Suppressed(Now) /\ CaptureTime(Now) = StartTime + Now
      /\ found.pose \in Pose /\ found.pose # None
  BY SessionAnswers, NoneAssumption
<1>2. Now \in Time
  BY NowInSpan DEF SessionInv
<1>3. Result(Now) = [status |-> status, lag |-> Lag(Now), pose |-> pose,
                     captureTime |-> CaptureTime(Now), carried |-> found.carried]
  BY <1>1 DEF Result
<1>4. pose \in Pose /\ pose.timestamp = Now /\ pose.joints = found.pose.joints
  <2> HIDE DEF found
  <2> QED
    BY <1>1, <1>2 DEF Pose
<1>5. Lag(Now) \in Int
  BY <1>1, AnswerableTimes DEF SessionInv, CaptureInv, Time
<1>6. /\ Result(Now).pose = pose /\ Result(Now).status = status
      /\ Result(Now).lag = Lag(Now)
  <2> HIDE DEF pose, status, found
  <2> QED
    BY <1>3
<1> HIDE DEF pose, status
<1> QED
  BY <1>1, <1>4, <1>5, <1>6 DEF status

(* A pose stamped with this tick extends a gapless clip.                   *)
LEMMA ClipGrows ==
  ASSUME SessionInv, phase = "running", tick' = tick + 1,
         UNCHANGED <<period, phase, taken>>,
         NEW pose \in Pose, pose.timestamp = Now, clip' = Append(clip, pose)
  PROVE  /\ clip' \in Seq(Pose)
         /\ Len(clip') = Len(clip) + 1
         /\ \A i \in 1 .. Len(clip) : clip'[i] = clip[i]
         /\ clip'[Len(clip) + 1] = pose
         /\ ClipIsGapless'
<1>1. clip \in Seq(Pose) /\ Len(clip) \in Nat /\ tick \in Int
  BY LenProperties DEF SessionInv, ClipStands, SessionStands
<1>2. /\ clip' \in Seq(Pose)
      /\ Len(clip') = Len(clip) + 1
      /\ \A i \in 1 .. Len(clip) : clip'[i] = clip[i]
      /\ clip'[Len(clip) + 1] = pose
  BY <1>1, AppendProperties
<1>3. Gathered = clip /\ Gathered' = clip'
  BY DEF Gathered
<1>4. ASSUME NEW i \in 1 .. Len(clip')
      PROVE  clip'[i].timestamp = (tick' - Len(clip') + i - 1) * period'
  <2>1. tick' - Len(clip') + i - 1 = tick - Len(clip) + i - 1
    BY <1>1, <1>2
  <2>2. CASE i \in 1 .. Len(clip)
    BY <1>2, <1>3, <2>1, <2>2 DEF SessionInv, ClipStands, ClipIsGapless
  <2>3. CASE i = Len(clip) + 1
    <3>1. tick - Len(clip) + i - 1 = tick
      BY <1>1, <2>3
    <3> QED
      BY <1>2, <2>1, <2>3, <3>1 DEF Now
  <2> QED
    BY <1>1, <1>2, <2>2, <2>3
<1> QED
  BY <1>2, <1>3, <1>4 DEF ClipIsGapless

(* The answer of a tick is never refused by the recorder.                  *)
LEMMA EvaluateAppends ==
  ASSUME SessionInv, Evaluate
  PROVE  /\ phase = "running" /\ tick < TickCount /\ ~Due /\ samples # <<>>
         /\ clip' = Append(clip, Result(Now).pose)
         /\ report' = Recorder!Count(report, Result(Now))
         /\ tick' = tick + 1
         /\ UNCHANGED <<taken, schedule, sender, phase>>
         /\ UNCHANGED <<config, samples, filter, lastAccepted, clockOffset, inputState>>
<1>1. /\ phase = "running" /\ tick < TickCount /\ ~Due /\ samples # <<>>
      /\ Sample(Now) /\ Recorder!Record(Result(Now))
      /\ tick' = tick + 1 /\ UNCHANGED <<schedule, sender, phase>>
  BY DEF Evaluate
<1>2. Result(Now).pose # None /\ Result(Now).pose.timestamp = Now
  BY <1>1, SessionResult, NoneAssumption
<1>3. ~Recorder!DoesNotAdvance(Result(Now).pose)
  <2>1. SUFFICES ASSUME clip # <<>>
                 PROVE  ~(Now <= clip[Len(clip)].timestamp)
    BY <1>2 DEF Recorder!DoesNotAdvance
  <2>2. /\ clip \in Seq(Pose) /\ Len(clip) \in Nat \ {0} /\ tick \in Int
        /\ period \in Nat \ {0} /\ Now \in Int
    BY <2>1, EmptySeq, LenProperties, SessionNumbers
       DEF SessionInv, ClipStands, SessionStands
  <2>3. Len(clip) \in 1 .. Len(clip) /\ tick - Len(clip) + Len(clip) - 1 = tick - 1
    BY <2>2
  <2>4. clip[Len(clip)].timestamp = (tick - 1) * period
    BY <1>1, <2>3 DEF SessionInv, ClipStands, ClipIsGapless, Gathered
  <2>5. (tick - 1) * period = Now - period
    BY <2>2, Multiples DEF Now
  <2> QED
    BY <2>2, <2>4, <2>5
<1>4. /\ clip' = Append(clip, Result(Now).pose)
      /\ report' = Recorder!Count(report, Result(Now)) /\ UNCHANGED taken
  BY <1>1, <1>2, <1>3 DEF Recorder!Record
<1> QED
  BY <1>1, <1>4 DEF Sample, intake, setting

LEMMA EvaluateSession ==
  ASSUME SessionInv, Evaluate
  PROVE  SessionInv'
<1>1. /\ phase = "running" /\ tick < TickCount /\ samples # <<>>
      /\ clip' = Append(clip, Result(Now).pose)
      /\ tick' = tick + 1
      /\ UNCHANGED <<taken, trace, period, deliveryLag, next, phase>>
      /\ UNCHANGED <<config, samples, filter, lastAccepted, clockOffset, inputState>>
  BY EvaluateAppends DEF schedule, sender
<1>2. CaptureInv'
  BY SampleCapture DEF SessionInv, Evaluate
<1>3. SessionStands'
  <2>1. TickCount' = TickCount /\ StartTime' = StartTime
    BY <1>1 DEF TickCount, StartTime, EndTime
  <2>2. tick \in Nat /\ TickCount \in Nat
    BY SessionNumbers DEF SessionInv, SessionStands
  <2>3. tick' \in Nat /\ tick' <= TickCount
    BY <1>1, <2>2
  <2> QED
    BY <1>1, <2>1, <2>3 DEF SessionInv, SessionStands
<1>4. HeadWasDelivered'
  BY <1>1 DEF SessionInv, HeadWasDelivered
<1>5. Result(Now).pose \in Pose /\ Result(Now).pose.timestamp = Now
  BY <1>1, SessionResult
<1> DEFINE pose == Result(Now).pose
<1> HIDE DEF pose
<1>6. ClipStands'
  <2>1. clip' \in Seq(Pose) /\ ClipIsGapless'
    BY <1>1, <1>5, ClipGrows DEF pose
  <2> QED
    BY <1>1, <2>1 DEF SessionInv, ClipStands
<1> QED
  BY <1>2, <1>3, <1>4, <1>6 DEF SessionInv

LEMMA SkipTickSession ==
  ASSUME SessionInv, SkipTick
  PROVE  SessionInv'
<1>1. /\ phase = "running" /\ tick < TickCount /\ samples = <<>> /\ tick' = tick + 1
      /\ UNCHANGED <<vars, schedule, sender, phase, recorder>>
  BY DEF SkipTick
<1>2. CaptureInv'
  <2>1. TypeOK'
    BY <1>1 DEF SessionInv, CaptureInv, TypeOK, vars
  <2> QED
    BY <1>1, <2>1, SameHistory DEF SessionInv, vars
<1>3. SessionStands'
  <2>1. TickCount' = TickCount /\ StartTime' = StartTime
    BY <1>1 DEF TickCount, StartTime, EndTime, schedule
  <2>2. tick \in Nat /\ TickCount \in Nat
    BY SessionNumbers DEF SessionInv, SessionStands
  <2>3. tick' \in Nat /\ tick' <= TickCount
    BY <1>1, <2>2
  <2> QED
    BY <1>1, <2>1, <2>3 DEF SessionInv, SessionStands, schedule, sender, recorder, vars
<1>4. HeadWasDelivered'
  BY <1>1 DEF SessionInv, HeadWasDelivered, vars, schedule, sender
<1>5. ClipStands'
  <2>1. clip = <<>> /\ clip' = <<>> /\ samples' = samples /\ phase' = phase
    BY <1>1 DEF SessionInv, ClipStands, recorder, vars
  <2>2. Gathered' = <<>> /\ Len(<<>>) = 0 /\ <<>> \in Seq(Pose)
    BY <1>1, <2>1, EmptySeq DEF Gathered
  <2> QED
    BY <1>1, <2>1, <2>2 DEF SessionInv, ClipStands, ClipIsGapless
<1> QED
  BY <1>2, <1>3, <1>4, <1>5 DEF SessionInv

LEMMA OpenSession ==
  ASSUME SessionInv, Open
  PROVE  SessionInv'
<1>1. /\ phase = "opening" /\ phase' = "running" /\ clockOffset' = StartTime
      /\ metadata' \in Sources /\ answer' = None
      /\ UNCHANGED <<intake, history, samples, capacity, config, stats, inputState,
                     schedule, sender, tick, recorder>>
  BY DEF Open
<1>2. SessionStands /\ CaptureInv
  BY DEF SessionInv
<1>3. CaptureInv'
  <2>1. clockOffset' \in Instant
    BY <1>1, <1>2, SessionNumbers DEF Instant
  <2>2. TypeOK'
    BY <1>1, <1>2, <2>1 DEF CaptureInv, TypeOK, intake, history
  <2> QED
    BY <1>1, <1>2, <2>2, SameHistory DEF intake
<1>4. SessionStands'
  BY <1>1, <1>2
     DEF SessionStands, StartTime, EndTime, TickCount, schedule, sender, recorder
<1>5. HeadWasDelivered'
  BY <1>1 DEF SessionInv, HeadWasDelivered, intake, schedule, sender
<1>6. ClipStands'
  <2>1. clip = <<>> /\ clip' = <<>> /\ Len(<<>>) = 0 /\ <<>> \in Seq(Pose)
    BY <1>1, <1>2, EmptySeq DEF SessionStands, recorder
  <2>2. Gathered' = <<>>
    BY <1>1, <2>1 DEF Gathered
  <2> QED
    BY <1>1, <2>1, <2>2 DEF ClipStands, ClipIsGapless
<1> QED
  BY <1>3, <1>4, <1>5, <1>6 DEF SessionInv

LEMMA FinishSession ==
  ASSUME SessionInv, Finish
  PROVE  SessionInv' /\ taken'.samples = clip
<1>1. /\ phase = "running" /\ phase' = "done" /\ clip' = <<>>
      /\ taken' = Recorder!Stamped(clip) /\ UNCHANGED report
      /\ UNCHANGED <<vars, schedule, sender, tick>>
  BY DEF Finish, Recorder!Take
<1>2. taken'.samples = clip
  BY <1>1 DEF Recorder!Stamped
<1>3. CaptureInv'
  <2>1. TypeOK'
    BY <1>1 DEF SessionInv, CaptureInv, TypeOK, vars
  <2> QED
    BY <1>1, <2>1, SameHistory DEF SessionInv, vars
<1>4. SessionStands'
  BY <1>1 DEF SessionInv, SessionStands, StartTime, EndTime, TickCount, vars, schedule, sender
<1>5. HeadWasDelivered'
  BY <1>1 DEF SessionInv, HeadWasDelivered, vars, schedule, sender
<1>6. ClipStands'
  <2>1. Gathered' = clip /\ Gathered = clip /\ <<>> \in Seq(Pose)
    BY <1>1, <1>2, EmptySeq DEF Gathered
  <2> QED
    BY <1>1, <1>2, <2>1 DEF SessionInv, ClipStands, ClipIsGapless, schedule
<1> QED
  BY <1>2, <1>3, <1>4, <1>5, <1>6 DEF SessionInv

LEMMA InitSession == SessionInit => SessionInv
<1> SUFFICES ASSUME SessionInit PROVE SessionInv
  OBVIOUS
<1>1. /\ Init /\ Recorder!Init
      /\ trace \in Traces /\ period \in Periods /\ deliveryLag \in DeliveryLags
      /\ next = 0 /\ tick = 0 /\ phase = "opening"
  BY DEF SessionInit
<1>2. CaptureInv
  BY <1>1, InitCapture
<1>3. samples = <<>> /\ config \in Configs /\ inputState = "Available" /\ lastAccepted = None
  BY <1>1 DEF Init
<1>4. clip = <<>> /\ <<>> \in Seq(Pose) /\ Len(<<>>) = 0
  BY <1>1, EmptySeq DEF Recorder!Init
<1>5. SessionStands
  <2>1. IsTrace(trace) /\ Len(trace) \in Nat \ {0}
    BY <1>1, SessionAssumption, TraceTimes
  <2>2. period \in Nat \ {0} /\ deliveryLag \in Nat /\ Tolerance \in Nat
    BY <1>1, SessionAssumption, TimeAssumption
  <2>3. EndTime - StartTime + deliveryLag + Tolerance \in Nat
    <3>1. 1 \in 1 .. Len(trace) /\ Len(trace) \in 1 .. Len(trace)
      BY <2>1, TraceTimes
    <3>2. StartTime \in Int /\ EndTime \in Int
      BY <2>1, <3>1, TraceTimes DEF StartTime, EndTime, Time
    <3>3. Len(trace) = 1 \/ StartTime < EndTime
      <4>1. Len(trace) = 1 \/ 1 < Len(trace)
        <5>1. \A n \in Nat \ {0} : n = 1 \/ 1 < n
          OBVIOUS
        <5> QED
          BY <2>1, <5>1
      <4> QED
        BY <2>1, <3>1, <4>1, TraceOrdered DEF StartTime, EndTime
    <3> QED
      BY <2>2, <3>2, <3>3 DEF StartTime, EndTime
  <2>4. TickCount \in Nat
    BY <2>2, <2>3, Quotient DEF TickCount
  <2> QED
    BY <1>1, <1>3, <1>4, <2>1, <2>4 DEF SessionStands
<1>6. HeadWasDelivered
  BY <1>3 DEF HeadWasDelivered
<1>7. ClipStands
  BY <1>1, <1>4 DEF ClipStands, ClipIsGapless, Gathered
<1> QED
  BY <1>2, <1>5, <1>6, <1>7 DEF SessionInv

LEMMA NextSession == SessionInv /\ [SessionNext]_sessionVars => SessionInv'
<1> SUFFICES ASSUME SessionInv, [SessionNext]_sessionVars
             PROVE  SessionInv'
  OBVIOUS
<1>1. CASE UNCHANGED sessionVars
  BY <1>1 DEF sessionVars, vars, schedule, sender, recorder, SessionInv, CaptureInv,
     TypeOK, HeadTracked, BufferInvariant, Buffer!BufferInvariant, Buffer!Ordered,
     Buffer!Newest, SessionStands, HeadWasDelivered, ClipStands, ClipIsGapless, Gathered,
     TickCount, StartTime, EndTime
<1> QED
  BY <1>1, OpenSession, DeliverSession, SkipTickSession, EvaluateSession, FinishSession
     DEF SessionNext

LEMMA SessionAlways == SessionSpec => []SessionInv
BY InitSession, NextSession, PTL DEF SessionSpec

(* The session's source keeps the types, the head and the order that the   *)
(* intake keeps under any calls.                                           *)
THEOREM SessionKeepsIntake == SessionSpec => [](TypeOK /\ HeadTracked /\ BufferInvariant)
<1>1. SessionInv => TypeOK /\ HeadTracked /\ BufferInvariant
  BY DEF SessionInv, CaptureInv
<1> QED
  BY <1>1, SessionAlways, PTL

(* Once the first frame has arrived every tick is answered, stamped with   *)
(* its own time and taken by the recorder: the clip has no gap.            *)
THEOREM SessionClipIsGapless == SessionSpec => []ClipIsGapless
<1>1. SessionInv => ClipIsGapless
  BY DEF SessionInv, ClipStands
<1> QED
  BY <1>1, SessionAlways, PTL

-----------------------------------------------------------------------------
(* Nothing is shown before it arrives.                                     *)

(* What has arrived by this tick.                                          *)
Arrived(rotation) ==
  \A o \in rotation :
    o[1] = "seen" => o[3] <= StartTime + Now - deliveryLag + Tolerance

PoseArrived(pose) == \A j \in Joints : Arrived(pose.joints[j])

HistoryArrived ==
  /\ \A i \in 1 .. Len(samples) : PoseArrived(samples[i])
  /\ filter # None => PoseArrived(filter)

LEMMA SmoothRotationArrived ==
  ASSUME NEW a, NEW b, Arrived(a), Arrived(b)
  PROVE  Arrived(SmoothRotation(a, b))
<1>1. Arrived({Filtered(generation)})
  BY DEF Arrived, Filtered
<1> QED
  BY <1>1 DEF SmoothRotation, Arrived

LEMMA UnsmoothedArrived ==
  ASSUME CaptureInv, HistoryArrived, NEW frame \in Frame, ~InvalidTimestamp(frame),
         frame.timestamp <= StartTime + Now - deliveryLag + Tolerance
  PROVE  PoseArrived(Unsmoothed(frame))
<1>1. Unsmoothed(frame).joints = Resolved(frame)
  BY UnsmoothedType DEF CaptureInv
<1>2. Arrived({Seen(epoch, frame.timestamp)}) /\ Arrived(Absent)
  BY DEF Arrived, Seen, Absent
<1>3. ASSUME NEW j \in Joints PROVE Arrived(Resolved(frame)[j])
  <2>1. ASSUME j \in Held(frame) PROVE Arrived(lastAccepted.joints[j])
    <3>1. lastAccepted # None
      BY <2>1 DEF Held
    <3> QED
      BY <3>1, HeadIsBuffered DEF HistoryArrived, PoseArrived
  <2> QED
    BY <2>1, <1>2 DEF Resolved
<1> QED
  BY <1>1, <1>3 DEF PoseArrived

LEMMA SmoothedArrived ==
  ASSUME TypeOK, HistoryArrived, NEW pose \in Pose, PoseArrived(pose)
  PROVE  PoseArrived(Smoothed(pose)) /\ PoseArrived(FilterState(pose))
<1>1. CASE Seeds(pose)
  BY <1>1 DEF Smoothed, FilterState
<1>2. CASE ~Seeds(pose)
  <2>1. filter \in Pose /\ PoseArrived(filter)
    BY <1>2 DEF Seeds, TypeOK, HistoryArrived
  <2>2. \A j \in Joints : Arrived(SmoothRotation(filter.joints[j], pose.joints[j]))
    BY <2>1, SmoothRotationArrived DEF PoseArrived
  <2>3. \A j \in Joints :
          Smoothed(pose).joints[j] = SmoothRotation(filter.joints[j], pose.joints[j])
    BY <1>2 DEF Smoothed, Pose
  <2>4. \A j \in Joints : FilterState(pose).joints[j]
                            \in {filter.joints[j], Smoothed(pose).joints[j]}
    <3>1. Smoothed(pose) \in Pose
      BY SmoothedType
    <3>2. FilterState(pose) = [Smoothed(pose) EXCEPT
            !.joints = [j \in Joints |-> IF pose.joints[j] = Absent
                                         THEN filter.joints[j]
                                         ELSE Smoothed(pose).joints[j]]]
      BY <1>2 DEF FilterState
    <3> QED
      BY <3>1, <3>2 DEF Pose
  <2> QED
    BY <2>1, <2>2, <2>3, <2>4 DEF PoseArrived
<1> QED
  BY <1>1, <1>2

(* The clock only advances, so what has arrived stays arrived.             *)
LEMMA StaysArrived ==
  ASSUME SessionInv, UNCHANGED schedule, Now <= Now', Now' \in Int,
         NEW rotation \in Rotation, Arrived(rotation)
  PROVE  Arrived(rotation)'
<1>1. StartTime \in Int /\ deliveryLag \in Int /\ Tolerance \in Int /\ Now \in Int
  BY SessionNumbers DEF SessionInv, Time
<1>2. StartTime' = StartTime /\ deliveryLag' = deliveryLag
  BY DEF schedule, StartTime
<1>3. \A o \in rotation : o[1] = "seen" => o[3] \in Int
  BY DEF Rotation, Provenance, Time
<1>4. ASSUME NEW o \in rotation, o[1] = "seen"
      PROVE  o[3] <= StartTime + Now' - deliveryLag + Tolerance
  <2>1. o[3] \in Int /\ o[3] <= StartTime + Now - deliveryLag + Tolerance
    BY <1>3, <1>4 DEF Arrived
  <2> QED
    BY <1>1, <2>1
<1> QED
  BY <1>2, <1>4 DEF Arrived

LEMMA HistoryStaysArrived ==
  ASSUME SessionInv, HistoryArrived, UNCHANGED schedule, Now <= Now', Now' \in Int,
         UNCHANGED <<samples, filter>>
  PROVE  HistoryArrived'
<1>1. TypeOK
  BY DEF SessionInv, CaptureInv
<1>2. ASSUME NEW pose \in Pose, PoseArrived(pose)
      PROVE  PoseArrived(pose)'
  <2>1. \A j \in Joints : pose.joints[j] \in Rotation
    BY DEF Pose
  <2> QED
    BY <1>2, <2>1, StaysArrived DEF PoseArrived
<1>3. ASSUME NEW i \in 1 .. Len(samples)
      PROVE  samples[i] \in Pose
  BY <1>1, ElementOfSeq DEF TypeOK
<1>4. filter \in Pose \cup {None}
  BY <1>1 DEF TypeOK
<1>5. \A i \in 1 .. Len(samples) : PoseArrived(samples[i])'
  BY <1>2, <1>3 DEF HistoryArrived, PoseArrived, Arrived
<1>6. filter # None => PoseArrived(filter)'
  BY <1>2, <1>4 DEF HistoryArrived, PoseArrived, Arrived
<1> QED
  BY <1>5, <1>6 DEF HistoryArrived, PoseArrived, Arrived

(* What the buffer answers with is mixed from two of its samples.          *)
LEMMA AnswerIsBuffered ==
  ASSUME CaptureInv, samples # <<>>, NEW at \in Time, NEW limit \in Time,
         config.maxExtrapolation = limit
  PROVE  \E i, k \in 1 .. Len(samples) : \A j \in Joints :
           BufferAnswer(at).pose.joints[j] \subseteq samples[i].joints[j] \cup samples[k].joints[j]
<1>1. /\ TypeOK /\ Len(samples) \in Nat \ {0} /\ Buffer!Newest(samples) \in Pose
      /\ Len(samples) \in 1 .. Len(samples)
  BY NewestType DEF CaptureInv
<1>2. Buffer!IsFinite(at) /\ Buffer!IsFinite(limit)
  BY DEF Buffer!IsFinite, Buffer!Time, Time
<1>3. \E i, k \in 1 .. Len(samples) : \A j \in Joints :
        Buffer!Sample(at).joints[j] \in
          {samples[i].joints[j], samples[k].joints[j],
           samples[i].joints[j] \cup samples[k].joints[j]}
  <2>1. samples \in Seq(BufferProofs!TimedPose) /\ at \in Int
    BY <1>1, BufferProofs!PosesAreTimed, SamePose, BufferAssumptions, InputAssumption,
       TimeAssumption, NoneAssumption DEF TypeOK, Time
  <2>2. \E i, k \in 1 .. Len(samples) : \A j \in Joints :
          BufferProofs!SampleBracketed(samples, at).joints[j] \in
            {samples[i].joints[j], samples[k].joints[j],
             samples[i].joints[j] \cup samples[k].joints[j]}
    BY <2>1, BufferProofs!SampleFromNeighbours, SamePose, BufferAssumptions,
       InputAssumption, TimeAssumption, NoneAssumption
  <2>3. Buffer!Sample(at) = BufferProofs!SampleBracketed(samples, at)
    BY <1>2, SameReads DEF Buffer!Sample
  <2> QED
    BY <2>2, <2>3
<1>4. CASE BufferAnswer(at).pose = Buffer!Sample(at)
  <2>1. PICK i, k \in 1 .. Len(samples) : \A j \in Joints :
          BufferAnswer(at).pose.joints[j] \in
            {samples[i].joints[j], samples[k].joints[j],
             samples[i].joints[j] \cup samples[k].joints[j]}
    BY <1>3, <1>4
  <2> QED
    BY <2>1
<1>5. CASE limit > 0 /\ ~(at <= Buffer!Newest(samples).timestamp)
  <2> DEFINE lead == Buffer!Lead(at, limit)
  <2>1. BufferAnswer(at).pose = [Buffer!Newest(samples) EXCEPT !.timestamp = @ + lead]
    BY <1>2, <1>5 DEF BufferAnswer, Buffer!SampleExtrapolated
  <2>2. BufferAnswer(at).pose.joints = samples[Len(samples)].joints
    <3> HIDE DEF lead
    <3> QED
      BY <1>1, <2>1 DEF Pose, Buffer!Newest
  <2> QED
    BY <1>1, <2>2
<1>6. CASE ~(limit > 0)
  BY <1>4, <1>6 DEF BufferAnswer
<1>7. CASE limit > 0 /\ at <= Buffer!Newest(samples).timestamp
  BY <1>2, <1>4, <1>7 DEF BufferAnswer, Buffer!SampleExtrapolated
<1> QED
  BY <1>5, <1>6, <1>7

(* So is the pose a tick is answered with.                                 *)
LEMMA EvaluateArrived ==
  ASSUME SessionInv, HistoryArrived, phase = "running", tick < TickCount, samples # <<>>
  PROVE  PoseArrived(Result(Now).pose)
<1>1. StartTime + Now \in Time /\ config.maxExtrapolation \in Time /\ CaptureInv
  BY NowInSpan, SessionAssumption DEF SessionInv, SessionStands
<1>2. PICK i, k \in 1 .. Len(samples) : \A j \in Joints :
        BufferAnswer(StartTime + Now).pose.joints[j]
          \subseteq samples[i].joints[j] \cup samples[k].joints[j]
  BY <1>1, AnswerIsBuffered
<1>3. Result(Now).pose.joints = BufferAnswer(StartTime + Now).pose.joints
  BY SessionResult
<1> QED
  BY <1>2, <1>3 DEF HistoryArrived, PoseArrived, Arrived

LEMMA DeliverArrived ==
  ASSUME SessionInv, HistoryArrived, Deliver
  PROVE  HistoryArrived'
<1> DEFINE frame == trace[next + 1]
           raw == Unsmoothed(frame)
           pose == Conditioned(frame)
<1>1. /\ Push(frame) /\ UNCHANGED <<trace, deliveryLag, period, tick>>
      /\ frame.timestamp <= StartTime + Now - deliveryLag + Tolerance
      /\ CaptureInv /\ TypeOK /\ SessionStands /\ next < Len(trace)
  BY DEF Deliver, Due, schedule, SessionInv, CaptureInv
<1>2. frame \in Frame
  <2>1. next + 1 \in 1 .. Len(trace)
    BY <1>1, SessionNumbers DEF SessionStands
  <2> QED
    BY <1>1, <2>1, SessionNumbers
<1>3. \A rotation : Arrived(rotation)' <=> Arrived(rotation)
  BY <1>1 DEF Arrived, StartTime, Now
<1>4. UNCHANGED <<StartTime, deliveryLag, Now>>
  BY <1>1 DEF StartTime, Now
<1>5. CASE UNCHANGED <<samples, filter>>
  BY <1>4, <1>5 DEF HistoryArrived, PoseArrived, Arrived
<1>6. CASE Admissible(frame) /\ Accept(frame) /\ answer' = None
  <2>1. ~InvalidTimestamp(frame)
    BY <1>6 DEF Admissible
  <2>2. raw \in Pose /\ PoseArrived(raw)
    BY <1>1, <1>2, <2>1, UnsmoothedType, UnsmoothedArrived
  <2>3. PoseArrived(pose) /\ PoseArrived(FilterState(raw))
    BY <1>1, <2>2, SmoothedArrived DEF Conditioned
  <2>4. filter' \in {FilterState(raw), filter}
    BY <1>6 DEF Accept
  <2>5. \A i \in 1 .. Len(samples') :
          samples'[i] = pose \/ \E k \in 1 .. Len(samples) : samples'[i] = samples[k]
    BY <1>1, <1>2, <1>6, AcceptCapture
  <2> HIDE DEF raw, pose, frame
  <2>6. \A i \in 1 .. Len(samples') : PoseArrived(samples'[i])
    BY <2>3, <2>5 DEF HistoryArrived
  <2>7. filter' # None => PoseArrived(filter')
    BY <2>3, <2>4 DEF HistoryArrived
  <2> QED
    BY <1>4, <2>6, <2>7 DEF HistoryArrived, PoseArrived, Arrived
<1>7. ASSUME NEW counted \in Stats, Refuse(counted)
      PROVE  UNCHANGED <<samples, filter>>
  BY <1>7 DEF Refuse, intake
<1> QED
  BY <1>1, <1>2, <1>5, <1>6, <1>7, PushCases

LEMMA ArrivalStep ==
  ASSUME SessionInv, HistoryArrived, NoFrameBeforeItArrives, [SessionNext]_sessionVars
  PROVE  HistoryArrived' /\ NoFrameBeforeItArrives'
<1>1. CASE UNCHANGED sessionVars
  BY <1>1 DEF sessionVars, vars, schedule, recorder, HistoryArrived, PoseArrived, Arrived,
     NoFrameBeforeItArrives, Gathered, StartTime, Now
<1>2. CASE Open
  <2>1. /\ UNCHANGED <<samples, filter, trace, period, deliveryLag, tick, clip, taken>>
        /\ phase = "opening" /\ phase' = "running"
    BY <1>2 DEF Open, intake, schedule, recorder
  <2> QED
    BY <2>1 DEF HistoryArrived, PoseArrived, Arrived, NoFrameBeforeItArrives, Gathered,
       StartTime, Now
<1>3. CASE Deliver
  <2>1. UNCHANGED <<trace, deliveryLag, clip, taken, phase>>
    BY <1>3 DEF Deliver, schedule, recorder
  <2> QED
    BY <1>3, <2>1, DeliverArrived DEF NoFrameBeforeItArrives, Gathered, StartTime
<1>4. ASSUME tick' = tick + 1, UNCHANGED schedule, UNCHANGED <<samples, filter>>
      PROVE  HistoryArrived'
  <2>1. Now \in Nat /\ Now' = Now + period /\ period \in Nat
    <3>1. tick \in Int /\ period \in Nat /\ Now \in Nat
      BY SessionNumbers DEF SessionInv, SessionStands
    <3> QED
      BY <1>4, <3>1, Multiples DEF Now, schedule
  <2>2. Now <= Now' /\ Now' \in Int
    BY <2>1
  <2> QED
    BY <1>4, <2>2, HistoryStaysArrived
<1>5. CASE SkipTick
  <2>1. /\ tick' = tick + 1 /\ UNCHANGED schedule
        /\ UNCHANGED <<samples, filter, trace, deliveryLag, clip, taken, phase>>
    BY <1>5 DEF SkipTick, vars, schedule, recorder
  <2> QED
    BY <1>4, <2>1 DEF NoFrameBeforeItArrives, Gathered, StartTime
<1>6. CASE Evaluate
  <2> DEFINE pose == Result(Now).pose
  <2>1. /\ phase = "running" /\ tick < TickCount /\ samples # <<>>
        /\ clip' = Append(clip, pose) /\ tick' = tick + 1
        /\ UNCHANGED <<taken, schedule, phase, samples, filter, trace, deliveryLag, period>>
    BY <1>6, EvaluateAppends DEF schedule
  <2>2. pose \in Pose /\ pose.timestamp = Now /\ PoseArrived(pose)
    BY <2>1, SessionResult, EvaluateArrived
  <2> HIDE DEF pose
  <2>3. /\ Len(clip') = Len(clip) + 1 /\ Len(clip) \in Nat
        /\ \A i \in 1 .. Len(clip) : clip'[i] = clip[i]
        /\ clip'[Len(clip) + 1] = pose
    BY <2>1, <2>2, ClipGrows, LenProperties DEF SessionInv, ClipStands
  <2>4. Gathered = clip /\ Gathered' = clip' /\ StartTime' = StartTime
    BY <2>1 DEF Gathered, StartTime
  <2>5. NoFrameBeforeItArrives'
    <3> SUFFICES ASSUME NEW i \in 1 .. Len(clip'), NEW j \in Joints,
                        NEW o \in clip'[i].joints[j], o[1] = "seen"
                 PROVE  o[3] <= StartTime + clip'[i].timestamp - deliveryLag + Tolerance
      BY <2>1, <2>4 DEF NoFrameBeforeItArrives
    <3>1. i \in 1 .. Len(clip) \/ i = Len(clip) + 1
      BY <2>3
    <3>2. CASE i \in 1 .. Len(clip)
      BY <2>3, <2>4, <3>2 DEF NoFrameBeforeItArrives
    <3>3. CASE i = Len(clip) + 1
      BY <2>2, <2>3, <3>3 DEF PoseArrived, Arrived
    <3> QED
      BY <3>1, <3>2, <3>3
  <2> QED
    BY <1>4, <2>1, <2>5
<1>7. CASE Finish
  <2>1. /\ phase = "running" /\ phase' = "done" /\ taken'.samples = clip
        /\ UNCHANGED <<samples, filter, trace, period, deliveryLag, tick>>
    BY <1>7, FinishSession DEF Finish, vars, schedule
  <2>2. Gathered = clip /\ Gathered' = clip
    BY <2>1 DEF Gathered
  <2> QED
    BY <2>1, <2>2 DEF HistoryArrived, PoseArrived, Arrived, NoFrameBeforeItArrives,
       StartTime, Now
<1> QED
  BY <1>1, <1>2, <1>3, <1>5, <1>6, <1>7 DEF SessionNext

(* A pose is evaluated from what had arrived by its tick: whatever the     *)
(* source held, smoothed or carried on, no later frame shows.              *)
THEOREM SessionShowsNoLaterFrame == SessionSpec => []NoFrameBeforeItArrives
<1>1. SessionInit => HistoryArrived /\ NoFrameBeforeItArrives
  <2> SUFFICES ASSUME SessionInit PROVE HistoryArrived /\ NoFrameBeforeItArrives
    OBVIOUS
  <2>1. samples = <<>> /\ filter = None /\ clip = <<>> /\ phase = "opening" /\ Len(<<>>) = 0
    BY EmptySeq DEF SessionInit, Init, Recorder!Init
  <2> QED
    BY <2>1 DEF HistoryArrived, NoFrameBeforeItArrives, Gathered
<1> QED
  BY <1>1, ArrivalStep, SessionAlways, PTL DEF SessionSpec

-----------------------------------------------------------------------------
(* A clean session is sampled throughout.                                  *)

(* As a clean session goes: every frame sent is the head of the history,   *)
(* the sender is at most one frame ahead of the clock, and every tick so   *)
(* far was sampled.                                                        *)
GoesCleanly ==
  /\ report \in [Recorder!Counters -> Int]
  /\ phase = "done" => tick = TickCount
  /\ Clean(StartTime) =>
       /\ next > 0 =>
            lastAccepted # None /\ lastAccepted.timestamp = trace[next].timestamp
       /\ next = 0 => lastAccepted = None
       /\ tick <= next /\ next <= tick + 1
       /\ report.ticks = tick /\ report.sampled = tick

(* In a clean trace a frame is within the tolerance of its own tick.       *)
LEMMA CleanFrame ==
  ASSUME SessionStands, Clean(StartTime), NEW k \in Nat, k + 1 \in 1 .. Len(trace)
  PROVE  /\ CarriesAnything(trace[k + 1])
         /\ StartTime + k * period - Tolerance <= trace[k + 1].timestamp
         /\ trace[k + 1].timestamp <= StartTime + k * period + Tolerance
<1>1. (k + 1) - 1 = k
  OBVIOUS
<1> QED
  BY <1>1 DEF Clean

LEMMA CleanTickCount ==
  ASSUME SessionStands, Clean(StartTime)
  PROVE  TickCount = Len(trace)
<1> DEFINE n == Len(trace)
           a == EndTime - StartTime + deliveryLag + Tolerance
           q == a \div period
<1>1. /\ n \in Nat \ {0} /\ StartTime \in Int /\ EndTime \in Int /\ StartTime <= EndTime
      /\ period \in Nat \ {0} /\ Tolerance \in Nat
  BY SessionNumbers DEF Time
<1>2. deliveryLag = 0 /\ 2 * Tolerance < period
  BY DEF Clean
<1>3. n - 1 \in Nat /\ (n - 1) + 1 = n /\ n \in 1 .. n
  BY <1>1
<1>4. /\ StartTime + (n - 1) * period - Tolerance <= EndTime
      /\ EndTime <= StartTime + (n - 1) * period + Tolerance
  <2>1. /\ StartTime + (n - 1) * period - Tolerance <= trace[(n - 1) + 1].timestamp
        /\ trace[(n - 1) + 1].timestamp <= StartTime + (n - 1) * period + Tolerance
    <3>1. (n - 1) + 1 \in 1 .. Len(trace)
      BY <1>3
    <3> QED
      BY <1>3, <3>1, CleanFrame
  <2> QED
    BY <1>3, <2>1 DEF EndTime
<1>5. a \in Nat
  BY <1>1, <1>2
<1> HIDE DEF n
<1>6. (n - 1) * period \in Int /\ n * period = (n - 1) * period + period
  BY <1>1, Multiples
<1>7. (n - 1) * period <= a /\ a < n * period
  BY <1>1, <1>2, <1>4, <1>6
<1> HIDE DEF a
<1>8. q \in Nat /\ q * period <= a /\ a < (q + 1) * period
  BY <1>1, <1>5, Quotient
<1> HIDE DEF q
<1>9. q * period \in Int /\ (q + 1) * period \in Int /\ n * period \in Int
  BY <1>1, <1>8, Multiples
<1>10. q * period < n * period /\ (n - 1) * period < (q + 1) * period
  BY <1>5, <1>6, <1>7, <1>8, <1>9
<1>11. q < n /\ n - 1 < q + 1
  BY <1>1, <1>8, <1>10, PeriodsCompare
<1>12. q + 1 = n
  BY <1>1, <1>8, <1>11
<1>13. TickCount = q + 1
  BY DEF TickCount, a, q
<1> QED
  BY <1>12, <1>13 DEF n

(* At a tick exactly the frames up to its own are due.                     *)
LEMMA CleanDue ==
  ASSUME SessionStands, Clean(StartTime)
  PROVE  /\ Due => next <= tick
         /\ ~Due /\ tick < TickCount => tick < next
<1>1. /\ StartTime \in Int /\ period \in Nat \ {0} /\ Tolerance \in Nat
      /\ deliveryLag = 0 /\ 2 * Tolerance < period
      /\ next \in Nat /\ tick \in Nat /\ Len(trace) \in Nat /\ next <= Len(trace)
  BY SessionNumbers DEF SessionStands, Clean, Time
<1>2. next * period \in Int /\ tick * period \in Int
      /\ (tick + 1) * period = tick * period + period
  BY <1>1, Multiples
<1>3. ASSUME next < Len(trace)
      PROVE  /\ trace[next + 1].timestamp \in Int
             /\ StartTime + next * period - Tolerance <= trace[next + 1].timestamp
             /\ trace[next + 1].timestamp <= StartTime + next * period + Tolerance
  <2>1. next + 1 \in 1 .. Len(trace)
    BY <1>1, <1>3
  <2>2. trace[next + 1].timestamp \in Int
    BY <2>1, SessionNumbers DEF Time
  <2> QED
    BY <1>1, <2>1, <2>2, CleanFrame
<1> DEFINE sent == next * period
           now == tick * period
           stamp == trace[next + 1].timestamp
<1>4. ASSUME Due PROVE next <= tick
  <2>1. /\ next < Len(trace)
        /\ trace[next + 1].timestamp <= StartTime + tick * period - deliveryLag + Tolerance
    BY <1>4 DEF Due, Now
  <2>2. next * period < (tick + 1) * period
    <3>1. /\ sent \in Int /\ now \in Int /\ stamp \in Int
          /\ StartTime + sent - Tolerance <= stamp
          /\ stamp <= StartTime + now - deliveryLag + Tolerance
      BY <1>2, <1>3, <2>1
    <3> HIDE DEF sent, now, stamp
    <3>2. sent < now + period
      BY <1>1, <3>1
    <3> QED
      BY <1>2, <3>2 DEF sent, now
  <2>3. next < tick + 1
    BY <1>1, <2>2, PeriodsCompare
  <2> QED
    BY <1>1, <2>3
<1>5. ASSUME ~Due, tick < TickCount PROVE tick < next
  <2>1. CASE next < Len(trace)
    <3>1. ~(trace[next + 1].timestamp <= StartTime + tick * period - deliveryLag + Tolerance)
      BY <1>5, <2>1 DEF Due, Now
    <3>2. tick * period < next * period
      <4>1. /\ sent \in Int /\ now \in Int /\ stamp \in Int
            /\ stamp <= StartTime + sent + Tolerance
            /\ ~(stamp <= StartTime + now - deliveryLag + Tolerance)
        BY <1>2, <1>3, <2>1, <3>1
      <4> HIDE DEF sent, now, stamp
      <4>2. now < sent
        BY <1>1, <4>1
      <4> QED
        BY <4>2 DEF sent, now
    <3> QED
      BY <1>1, <3>2, PeriodsCompare
  <2>2. CASE next = Len(trace)
    BY <1>5, <2>2, CleanTickCount
  <2> QED
    BY <1>1, <2>1, <2>2
<1> QED
  BY <1>4, <1>5

(* A clean frame is taken.                                                 *)
LEMMA CleanDelivery ==
  ASSUME SessionInv, GoesCleanly, Clean(StartTime), Deliver
  PROVE  /\ lastAccepted' # None
         /\ lastAccepted'.timestamp = trace[next + 1].timestamp
<1> DEFINE frame == trace[next + 1]
<1>1. /\ CaptureInv /\ TypeOK /\ SessionStands /\ next < Len(trace) /\ Push(frame)
  BY DEF SessionInv, CaptureInv, Deliver, Due
<1>2. next \in Nat /\ next + 1 \in 1 .. Len(trace) /\ (next > 0 => next \in 1 .. Len(trace))
  BY <1>1, SessionNumbers DEF SessionStands
<1>3. frame \in Frame /\ CarriesAnything(frame) /\ frame.timestamp \in Time
  BY <1>1, <1>2, CleanFrame, SessionNumbers
<1>4. ASSUME lastAccepted # None
      PROVE  /\ lastAccepted.timestamp \in Time
             /\ frame.timestamp - lastAccepted.timestamp \in Time
             /\ frame.timestamp - lastAccepted.timestamp > 0
  <2>1. next > 0 /\ lastAccepted.timestamp = trace[next].timestamp
    BY <1>2, <1>4 DEF GoesCleanly
  <2>2. next \in 1 .. Len(trace) /\ next < next + 1
    BY <1>2, <2>1
  <2>3. trace[next].timestamp < frame.timestamp
    BY <1>1, <1>2, <2>2, SessionNumbers, TraceOrdered
  <2>4. /\ trace[next].timestamp \in Time
        /\ StartTime <= trace[next].timestamp /\ frame.timestamp <= EndTime
    BY <1>1, <1>2, <2>2, SessionNumbers
  <2>5. EndTime - StartTime + deliveryLag + Tolerance <= TimeLimit
        /\ deliveryLag \in Nat /\ Tolerance \in Nat
        /\ StartTime \in Time /\ EndTime \in Time
    BY <1>1, SessionNumbers
  <2> HIDE DEF frame
  <2> QED
    BY <1>3, <2>1, <2>3, <2>4, <2>5, TimeAssumption DEF Time
<1> HIDE DEF frame
<1>5. ~InvalidTimestamp(frame)
  BY <1>3, <1>4 DEF InvalidTimestamp, Minus, Finite, IsFinite
<1>6. ~NotNewer(frame)
  <2>1. ASSUME lastAccepted # None PROVE ~(Delta(frame) <= 0)
    <3>1. \A d \in Time : d > 0 => ~(d <= 0)
      BY TimeAssumption DEF Time
    <3> QED
      BY <1>4, <2>1, <3>1 DEF Delta
  <2> QED
    BY <2>1 DEF NotNewer
<1>7. Admissible(frame) /\ Accept(frame) /\ answer' = None
  BY <1>1, <1>3, <1>5, <1>6 DEF Push, Admissible
<1>8. lastAccepted' = Conditioned(frame) /\ lastAccepted' \in Pose
  BY <1>1, <1>3, <1>7, AcceptCapture
<1>9. Conditioned(frame).timestamp = frame.timestamp
  BY <1>1, <1>3, <1>5, ConditionedType
<1> QED
  BY <1>8, <1>9, NoneAssumption DEF frame

(* A clean tick is answered from observed data.                            *)
LEMMA CleanTick ==
  ASSUME SessionInv, GoesCleanly, Clean(StartTime), phase = "running",
         tick < TickCount, ~Due
  PROVE  /\ next = tick + 1
         /\ samples # <<>>
         /\ Result(Now).status = "Sampled"
<1>1. /\ CaptureInv /\ TypeOK /\ HeadTracked /\ SessionStands
  BY DEF SessionInv, CaptureInv
<1>2. next \in Nat /\ tick \in Nat /\ next <= tick + 1 /\ tick < next /\ next <= Len(trace)
      /\ Len(trace) \in Nat
  BY <1>1, CleanDue, SessionNumbers DEF GoesCleanly, SessionStands
<1>3. next = tick + 1 /\ next > 0 /\ tick + 1 \in 1 .. Len(trace)
  BY <1>2
<1>4. lastAccepted # None /\ lastAccepted.timestamp = trace[tick + 1].timestamp
  BY <1>3 DEF GoesCleanly
<1>5. samples # <<>> /\ Buffer!Newest(samples).timestamp = trace[tick + 1].timestamp
  BY <1>1, <1>4 DEF HeadTracked
<1> DEFINE newest == Buffer!Newest(samples).timestamp
           at == StartTime + Now
<1>6. at - Tolerance <= newest /\ newest <= at + Tolerance
  <2> DEFINE own == trace[tick + 1].timestamp
  <2>1. /\ StartTime + tick * period - Tolerance <= own
        /\ own <= StartTime + tick * period + Tolerance
    BY <1>1, <1>2, <1>3, CleanFrame
  <2>2. newest = own /\ tick * period = Now
    BY <1>5 DEF Now
  <2>3. StartTime \in Int /\ Now \in Int /\ Tolerance \in Int /\ own \in Int
    BY <1>1, <1>3, SessionNumbers DEF Time
  <2> HIDE DEF newest, own
  <2>4. StartTime + Now - Tolerance <= own /\ own <= StartTime + Now + Tolerance
    BY <2>1, <2>2
  <2> QED
    BY <2>2, <2>3, <2>4
<1>7. /\ samples[1].timestamp \in Int /\ newest \in Int /\ samples[1].timestamp <= newest
      /\ at \in Int /\ Tolerance \in Int
  <2>1. samples[1].timestamp \in Int /\ newest \in Int /\ samples[1].timestamp <= newest
    BY <1>1, <1>5, RangeOrdered DEF Time
  <2>2. StartTime \in Int /\ Now \in Int /\ Tolerance \in Int
    BY <1>1, SessionNumbers DEF Time
  <2> QED
    BY <2>1, <2>2
<1>8. ~OutsideRange(at)
  <2> HIDE DEF at
  <2> QED
    BY <1>6, <1>7 DEF OutsideRange, PastNewest
<1> DEFINE found == BufferAnswer(at)
<1>9. Status(at, found) = "Sampled"
  <2> HIDE DEF at, found
  <2> QED
    BY <1>8 DEF Status, OutsideRange
<1> QED
  BY <1>3, <1>5, <1>9, SessionResult

(* A tick is counted once, and a sampled one as sampled.                   *)
LEMMA CountTick ==
  ASSUME NEW r \in [Recorder!Counters -> Int], NEW result, result.lag \in Int,
         result.status \in {"Sampled", "Held", "Extrapolated", "Unavailable"}
  PROVE  /\ Recorder!Count(r, result) \in [Recorder!Counters -> Int]
         /\ Recorder!Count(r, result).ticks = r.ticks + 1
         /\ result.status = "Sampled" =>
              Recorder!Count(r, result).sampled = r.sampled + 1
<1> DEFINE peak == Recorder!Larger(r.peakLagSeconds, result.lag)
           ticked == [r EXCEPT !.ticks = @ + 1, !.peakLagSeconds = peak]
<1>1. peak \in Int
  BY DEF Recorder!Larger, Recorder!Counters
<1>2. ticked \in [Recorder!Counters -> Int] /\ ticked.ticks = r.ticks + 1
      /\ ticked.sampled = r.sampled
  <2> HIDE DEF peak
  <2>1. ticked = [[r EXCEPT !.ticks = @ + 1] EXCEPT !.peakLagSeconds = peak]
    BY DEF Recorder!Counters
  <2>2. [r EXCEPT !.ticks = @ + 1] \in [Recorder!Counters -> Int]
    BY DEF Recorder!Counters
  <2>3. ticked \in [Recorder!Counters -> Int]
    BY <1>1, <2>1, <2>2
  <2> QED
    BY <2>3 DEF Recorder!Counters
<1> HIDE DEF ticked
<1>3. CASE result.status = "Sampled"
  <2>1. Recorder!Count(r, result) = [ticked EXCEPT !.sampled = @ + 1]
    BY <1>3 DEF Recorder!Count, ticked
  <2> QED
    BY <1>2, <2>1 DEF Recorder!Counters
<1>4. CASE result.status = "Held"
  <2>1. Recorder!Count(r, result) = [ticked EXCEPT !.held = @ + 1]
    BY <1>4 DEF Recorder!Count, ticked
  <2> QED
    BY <1>2, <1>4, <2>1 DEF Recorder!Counters
<1>5. CASE result.status = "Extrapolated"
  <2>1. Recorder!Count(r, result) = [ticked EXCEPT !.extrapolated = @ + 1]
    BY <1>5 DEF Recorder!Count, ticked
  <2> QED
    BY <1>2, <1>5, <2>1 DEF Recorder!Counters
<1>6. CASE result.status = "Unavailable"
  <2>1. Recorder!Count(r, result) = [ticked EXCEPT !.unavailable = @ + 1]
    BY <1>6 DEF Recorder!Count, ticked
  <2> QED
    BY <1>2, <1>6, <2>1 DEF Recorder!Counters
<1> QED
  BY <1>3, <1>4, <1>5, <1>6

LEMMA CleanStep ==
  ASSUME SessionInv, GoesCleanly, [SessionNext]_sessionVars
  PROVE  GoesCleanly'
<1>1. CASE UNCHANGED sessionVars
  BY <1>1 DEF sessionVars, vars, schedule, sender, recorder, GoesCleanly, Clean, StartTime,
     EndTime, TickCount
<1>2. CASE Open
  BY <1>2 DEF Open, intake, schedule, sender, recorder, GoesCleanly, Clean, StartTime,
     EndTime, TickCount
<1>3. CASE Deliver
  <2>1. /\ UNCHANGED <<trace, period, deliveryLag, tick, report, phase>>
        /\ next' = next + 1 /\ phase = "running" /\ next \in Nat /\ tick \in Nat
    BY <1>3 DEF Deliver, schedule, recorder, SessionInv, SessionStands
  <2>2. (Clean(StartTime)' <=> Clean(StartTime)) /\ TickCount' = TickCount
    BY <2>1 DEF Clean, StartTime, EndTime, TickCount
  <2>3. ASSUME Clean(StartTime)
        PROVE  /\ lastAccepted' # None
               /\ lastAccepted'.timestamp = trace[next + 1].timestamp
               /\ tick <= next + 1 /\ next + 1 <= tick + 1
    <3>1. next <= tick /\ tick <= next
      BY <1>3, <2>3, CleanDue DEF Deliver, SessionInv, GoesCleanly
    <3> QED
      BY <1>3, <2>1, <2>3, <3>1, CleanDelivery
  <2> QED
    BY <2>1, <2>2, <2>3 DEF GoesCleanly
<1>4. CASE SkipTick
  <2>1. /\ UNCHANGED <<trace, period, deliveryLag, next, lastAccepted, report, phase>>
        /\ samples = <<>> /\ phase = "running" /\ tick < TickCount /\ ~Due
    BY <1>4 DEF SkipTick, schedule, sender, recorder, vars
  <2>2. (Clean(StartTime)' <=> Clean(StartTime)) /\ ~Clean(StartTime)
    BY <2>1, CleanTick DEF Clean, StartTime
  <2> QED
    BY <2>1, <2>2 DEF GoesCleanly
<1>5. CASE Evaluate
  <2>1. /\ phase = "running" /\ tick < TickCount /\ ~Due /\ samples # <<>>
        /\ report' = Recorder!Count(report, Result(Now))
        /\ tick' = tick + 1
        /\ UNCHANGED <<trace, period, deliveryLag, next, phase, lastAccepted>>
    BY <1>5, EvaluateAppends DEF schedule, sender
  <2>2. Clean(StartTime)' <=> Clean(StartTime)
    BY <2>1 DEF Clean, StartTime
  <2>3. /\ Result(Now).lag \in Int
        /\ Result(Now).status \in {"Sampled", "Held", "Extrapolated", "Unavailable"}
    BY <2>1, SessionResult DEF Status
  <2>4. /\ report' \in [Recorder!Counters -> Int]
        /\ report'.ticks = report.ticks + 1
        /\ Result(Now).status = "Sampled" => report'.sampled = report.sampled + 1
    BY <2>1, <2>3, CountTick DEF GoesCleanly
  <2>5. tick \in Nat
    BY DEF SessionInv, SessionStands
  <2> QED
    BY <2>1, <2>2, <2>4, <2>5, CleanTick DEF GoesCleanly
<1>6. CASE Finish
  <2>1. /\ UNCHANGED <<trace, period, deliveryLag, next, tick, lastAccepted, report>>
        /\ phase' = "done" /\ tick >= TickCount
    BY <1>6 DEF Finish, Recorder!Take, schedule, sender, vars
  <2>2. /\ Clean(StartTime)' <=> Clean(StartTime)
        /\ TickCount' = TickCount
    BY <2>1 DEF Clean, StartTime, EndTime, TickCount
  <2>3. tick = TickCount
    <3>1. tick \in Int /\ TickCount \in Int /\ tick <= TickCount
      BY SessionNumbers DEF SessionInv, SessionStands
    <3> QED
      BY <2>1, <3>1
  <2> QED
    BY <2>1, <2>2, <2>3 DEF GoesCleanly
<1> QED
  BY <1>1, <1>2, <1>3, <1>4, <1>5, <1>6 DEF SessionNext

(* A clean session that starts on a recorded instant answers a tick for    *)
(* every frame, and every one of them from observed data.                  *)
THEOREM SessionCleanIsSampled == SessionSpec => []CleanSessionIsSampled
<1>1. SessionInit => GoesCleanly
  <2> SUFFICES ASSUME SessionInit PROVE GoesCleanly
    OBVIOUS
  <2>1. next = 0 /\ tick = 0 /\ phase = "opening" /\ lastAccepted = None
        /\ report = [c \in Recorder!Counters |-> 0]
    BY DEF SessionInit, Init, Recorder!Init, Recorder!NoReport
  <2> QED
    BY <2>1 DEF GoesCleanly, Recorder!Counters
<1>2. SessionInv /\ GoesCleanly => CleanSessionIsSampled
  BY CleanTickCount DEF SessionInv, GoesCleanly, CleanSessionIsSampled, Sound
<1> QED
  BY <1>1, <1>2, CleanStep, SessionAlways, PTL DEF SessionSpec

-----------------------------------------------------------------------------
(* A session runs out of things to do.                                     *)

(* What is left: to open and to finish, frames to send, ticks to count off.*)
Remaining ==
  (CASE phase = "opening" -> 2 [] phase = "running" -> 1 [] phase = "done" -> 0)
    + (Len(trace) - next) + (TickCount - tick)

(* A step leaves one thing less to do, of finitely many.                   *)
EachStepIsOneLess == [][Remaining' = Remaining - 1 /\ Remaining \in Nat]_sessionVars

LEMMA RemainingIsNatural == SessionInv => Remaining \in Nat
<1> SUFFICES ASSUME SessionInv PROVE Remaining \in Nat
  OBVIOUS
<1>1. /\ Len(trace) \in Nat /\ TickCount \in Int /\ tick \in Nat /\ tick <= TickCount
      /\ next \in 0 .. Len(trace) /\ phase \in {"opening", "running", "done"}
  BY SessionNumbers DEF SessionInv, SessionStands
<1>2. Len(trace) - next \in Nat /\ TickCount - tick \in Nat
  BY <1>1
<1> QED
  BY <1>1, <1>2 DEF Remaining

(* In every step the opening, a frame, a tick or the finish is done with,  *)
(* for any trace, rate, lag and configuration: no session has more steps   *)
(* than its first state says (main.cpp:167).                               *)
THEOREM SessionRunsOut == SessionSpec => EachStepIsOneLess
<1>1. ASSUME SessionInv, SessionInv', SessionNext
      PROVE  Remaining' = Remaining - 1 /\ Remaining \in Nat
  <2>1. /\ Len(trace) \in Nat /\ TickCount \in Int /\ tick \in Nat
        /\ next \in 0 .. Len(trace) /\ phase \in {"opening", "running", "done"}
    BY <1>1, SessionNumbers DEF SessionInv, SessionStands
  <2>2. UNCHANGED schedule
    BY <1>1 DEF SessionNext, Open, Deliver, SkipTick, Evaluate, Finish
  <2>3. Len(trace') = Len(trace) /\ TickCount' = TickCount
    BY <2>2 DEF schedule, TickCount, StartTime, EndTime
  <2>4. \/ phase = "opening" /\ phase' = "running" /\ next' = next /\ tick' = tick
        \/ phase = "running" /\ phase' = "running" /\ next' = next + 1 /\ tick' = tick
        \/ phase = "running" /\ phase' = "running" /\ next' = next /\ tick' = tick + 1
        \/ phase = "running" /\ phase' = "done" /\ next' = next /\ tick' = tick
    BY <1>1 DEF SessionNext, Open, Deliver, SkipTick, Evaluate, Finish, sender
  <2>5. Remaining \in Nat
    BY <1>1, RemainingIsNatural
  <2>6. Remaining' = Remaining - 1
    <3> HIDE DEF TickCount
    <3> QED
      BY <2>1, <2>3, <2>4 DEF Remaining
  <2> QED
    BY <2>5, <2>6
<1>2. SessionInv /\ SessionInv' /\ [SessionNext]_sessionVars
        => [Remaining' = Remaining - 1 /\ Remaining \in Nat]_sessionVars
  BY <1>1
<1> QED
  BY <1>2, SessionAlways, PTL DEF SessionSpec, EachStepIsOneLess
=============================================================================

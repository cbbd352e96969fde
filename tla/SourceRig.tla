----------------------------- MODULE SourceRig -----------------------------
(***************************************************************************)
(* SourceSkeleton.cpp and SourceAnimation.cpp (libs/motionSource): the rig *)
(* and the clip a format reader hands to the conversion, as plain values a *)
(* caller may also assemble by hand.                                       *)
(*                                                                         *)
(* A number is where it came from and what kind of number it is; a vector, *)
(* three angles or a quaternion is a sequence of numbers.  Joints count    *)
(* from 1, and the root's parent is 0.                                     *)
(***************************************************************************)
EXTENDS MotionTime, Sequences, FiniteSets, FiniteSetsExt

CONSTANT None   \* std::nullopt

Number(from, kind) == [from |-> from, kind |-> kind]

IsFiniteTuple(numbers) == \A i \in DOMAIN numbers : numbers[i].kind # "nonfinite"
IsZeroTuple(numbers)   == \A i \in DOMAIN numbers : numbers[i].kind = "zero"

JointsNamed(joints, name) == {j \in DOMAIN joints : joints[j].name = name}

ChildJoints(joints, j) == {k \in DOMAIN joints : joints[k].parent = j}

(* The k-th step of a walk from joint j along the parents, which stays     *)
(* where it is once it has left the array.                                 *)
ParentWalk(joints, j) ==
  LET up[k \in 0 .. Len(joints) + 1] ==
        IF k = 0 THEN j
        ELSE IF up[k - 1] \in DOMAIN joints THEN joints[up[k - 1]].parent ELSE up[k - 1]
  IN  up

(* A walk of Len(joints) steps that has not found the root, or has left    *)
(* the array, is no depth.                                                 *)
SourceDepth(joints, j) ==
  LET up   == ParentWalk(joints, j)
      ends == {k \in 0 .. Len(joints) - 1 : up[k + 1] = 0}
  IN  IF j \notin DOMAIN joints \/ ends = {} THEN 0 ELSE Min(ends)

JointIsValid(joints, j) ==
  LET joint == joints[j]
  IN  /\ joint.name # ""
      /\ j > 1 => joint.parent \in 1 .. j - 1
      /\ IsFiniteTuple(joint.restTranslation)
      /\ joint.restRotation # None =>
           IsFiniteTuple(joint.restRotation) /\ ~IsZeroTuple(joint.restRotation)
      /\ joint.tipOffset # None => IsFiniteTuple(joint.tipOffset)

(* A chain that carries a tip has ended: it has no children.               *)
SkeletonIsValid(joints) ==
  /\ joints # << >>
  /\ joints[1].parent = 0
  /\ \A j \in DOMAIN joints : JointIsValid(joints, j)
  /\ \A j \in DOMAIN joints : joints[j].tipOffset # None => ChildJoints(joints, j) = {}

-----------------------------------------------------------------------------
(* A clip: one track per joint, each list empty or as long as the clip.    *)

AngleOrders ==
  {order \in [1 .. 3 -> {"X", "Y", "Z"}] : Cardinality({order[i] : i \in 1 .. 3}) = 3}

AngleUnits == {"degrees", "radians"}

NoTrack == [translations |-> << >>, eulerAngles |-> << >>, rotations |-> << >>,
            order |-> <<"X", "Y", "Z">>, unit |-> "degrees"]

FrameTimeIsValid(frameTime, frameCount) ==
  IsFinite(frameTime) /\ frameTime >= 0 /\ (frameCount >= 2 => frameTime > 0)

TrackIsValid(track, frameCount) ==
  /\ track.eulerAngles = << >> \/ track.rotations = << >>
  /\ track.order \in AngleOrders
  /\ track.unit \in AngleUnits
  /\ \A list \in {track.translations, track.eulerAngles, track.rotations} :
       /\ Len(list) \in {0, frameCount}
       /\ \A f \in DOMAIN list : IsFiniteTuple(list[f])
  /\ \A f \in DOMAIN track.rotations : ~IsZeroTuple(track.rotations[f])

AnimationIsValid(animation, joints) ==
  /\ SkeletonIsValid(joints)
  /\ Len(animation.tracks) = Len(joints)
  /\ FrameTimeIsValid(animation.frameTime, animation.frameCount)
  /\ IsFinite(animation.startTime)
  /\ \A j \in DOMAIN animation.tracks : TrackIsValid(animation.tracks[j], animation.frameCount)

(* SourceAnimation::Time.                                                  *)
FrameInstant(animation, frame) ==
  Plus(animation.startTime, Finite((frame - 1) * animation.frameTime))
=============================================================================

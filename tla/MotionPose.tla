----------------------------- MODULE MotionPose -----------------------------
(***************************************************************************)
(* The value every component exchanges: one canonical pose at one instant. *)
(*                                                                         *)
(* A rotation is represented by where it comes from: the set of the        *)
(* observations, and of the smoothing filters, that shaped it.  The empty  *)
(* set is the cleared bit of validRotations.  A spherical interpolation    *)
(* mixes two rotations, so it joins the sets, except at its two ends and   *)
(* between equal rotations, where it returns one of them.                  *)
(*                                                                         *)
(* The root keeps its presence flags and one coordinate of its position,   *)
(* which is what decides whether an extrapolation moved anything.  A       *)
(* velocity is a displacement over a span of time, never divided out.      *)
(***************************************************************************)
EXTENDS MotionTime, FiniteSets, Sequences

CONSTANTS
  Joints,     \* the HumanJoint vocabulary
  Sources,    \* what SetSourceMetadata may name
  None        \* std::nullopt

Seen(epoch, timestamp) == <<"seen", epoch, timestamp>>
Filtered(generation)   == <<"filter", generation>>

Provenance == ({"seen"} \X Nat \X Time) \cup ({"filter"} \X Nat)
Rotation   == SUBSET Provenance
Absent     == {}

Velocity == [by : Int, over : Nat \ {0}]
Still    == [by |-> 0, over |-> 1]

RootMotion ==
  [hasPosition : BOOLEAN, worldPosition : Int, worldOrientation : Rotation,
   hasLinearVelocity : BOOLEAN, linearVelocity : Velocity]

(* A default-constructed RootMotion: every presence flag clear.            *)
NoRootMotion ==
  [hasPosition |-> FALSE, worldPosition |-> 0, worldOrientation |-> Absent,
   hasLinearVelocity |-> FALSE, linearVelocity |-> Still]

Pose ==
  [timestamp : Time, joints : [Joints -> Rotation], root : RootMotion,
   source : Sources]

(* A pose as a caller may hand it over: its timestamp need not be finite.  *)
PushedPose ==
  [timestamp : Instant, joints : [Joints -> Rotation], root : RootMotion,
   source : Sources]

ASSUME NoneAssumption == None \notin Pose

ValidJoints(pose) == {j \in Joints : pose.joints[j] # Absent}

-----------------------------------------------------------------------------
(* Interpolation at the fraction n/d, with 0 <= n <= d.  What one endpoint *)
(* alone carries is held, never faded.                                     *)

(* A slip: a joint only one endpoint carries is dropped, not held.         *)
SlerpWhereBoth(a, b, n, d) ==
  CASE a = Absent \/ b = Absent                  -> Absent
    [] a # Absent /\ b # Absent /\ n = 0          -> a
    [] a # Absent /\ b # Absent /\ n # 0 /\ n = d -> b
    [] OTHER                                     -> a \cup b

SlerpShortest(a, b, n, d) ==
  CASE a # Absent /\ n = 0          -> a
    [] b # Absent /\ n # 0 /\ n = d -> b
    [] OTHER                        -> a \cup b

LerpVelocity(v, w, n, d) ==
  [by   |-> v.by * w.over * (d - n) + w.by * v.over * n,
   over |-> v.over * w.over * d]

(* The interpolated coordinate is rounded down to the grid.                *)
LerpRootMotion(a, b, n, d) ==
  [hasPosition       |-> a.hasPosition \/ b.hasPosition,
   worldPosition     |->
     CASE a.hasPosition /\ ~b.hasPosition -> a.worldPosition
       [] ~a.hasPosition /\ b.hasPosition -> b.worldPosition
       [] a.hasPosition /\ b.hasPosition ->
            a.worldPosition + ((b.worldPosition - a.worldPosition) * n) \div d
       [] OTHER -> 0,
   worldOrientation  |-> SlerpShortest(a.worldOrientation, b.worldOrientation, n, d),
   hasLinearVelocity |-> a.hasLinearVelocity \/ b.hasLinearVelocity,
   linearVelocity    |->
     CASE a.hasLinearVelocity /\ ~b.hasLinearVelocity -> a.linearVelocity
       [] ~a.hasLinearVelocity /\ b.hasLinearVelocity -> b.linearVelocity
       [] a.hasLinearVelocity /\ b.hasLinearVelocity ->
            LerpVelocity(a.linearVelocity, b.linearVelocity, n, d)
       [] OTHER -> Still]

(* A joint that only the endpoint b carries is held from b at every        *)
(* fraction, and so is one that only a carries, at fraction 1 included.    *)
LerpPose(a, b, n, d) ==
  [timestamp |-> a.timestamp + ((b.timestamp - a.timestamp) * n) \div d,
   joints    |-> [j \in Joints |-> SlerpShortest(a.joints[j], b.joints[j], n, d)],
   root      |-> LerpRootMotion(a.root, b.root, n, d),
   source    |-> IF 2 * n < d THEN a.source ELSE b.source]
=============================================================================

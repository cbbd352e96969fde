---------------------------- MODULE MCPoseBuffer ----------------------------
(***************************************************************************)
(* A small instance of PoseBuffer: a few instants, two of them too far     *)
(* apart for a finite span, poses with and without the joint and the root. *)
(***************************************************************************)
EXTENDS PoseBuffer

(* The timestamps pushed, a non-finite one among them.                     *)
MCInstants == {-6, 0, 2, 3, 5, NonFinite}

MCRoot(t, x) ==
  [NoRootMotion EXCEPT !.hasPosition = x, !.worldPosition = IF x THEN t ELSE 0]

MCCandidates ==
  {[timestamp |-> t,
    joints    |-> [j \in Joints |-> IF j \in seen THEN {Seen(0, Smaller(t, TimeLimit))} ELSE Absent],
    root      |-> MCRoot(t, x),
    source    |-> source] :
      t \in MCInstants, seen \in SUBSET Joints, x \in BOOLEAN, source \in Sources}

MCCapacities == 0 .. 3
=============================================================================

---------------------------- MODULE MCLiveCapture ----------------------------
(***************************************************************************)
(* Instances of LiveCapture.  One configuration file opens the joints, the *)
(* restarts and every order of timestamps, the other the root and the      *)
(* sampling.                                                               *)
(***************************************************************************)
EXTENDS LiveCaptureProperties

-----------------------------------------------------------------------------
(* Configurations.                                                         *)

BaseConfig ==
  [bufferCapacity |-> 2, gating |-> TRUE, missingJoints |-> "HoldLast",
   rootMotion |-> "DeriveVelocity", maxExtrapolation |-> 0, smoothing |-> FALSE,
   staleFrame |-> 0]

(* Every combination that decides what a joint becomes; with them go a     *)
(* stale threshold or none, and the buffer capacities from zero up.        *)
JointConfigs ==
  {[BaseConfig EXCEPT !.gating = gating, !.missingJoints = missing, !.smoothing = smooth,
                      !.bufferCapacity = IF smooth THEN 2 ELSE IF gating THEN 0 ELSE 1,
                      !.staleFrame = IF gating THEN 3 ELSE 0] :
     gating \in BOOLEAN, missing \in {"LeaveUnbound", "HoldLast"}, smooth \in BOOLEAN}

(* Root intake and extrapolation, the disabled and the non-finite limit    *)
(* included.                                                               *)
RootConfigs ==
  {[BaseConfig EXCEPT !.rootMotion = rule, !.maxExtrapolation = limit] :
     rule \in {"Passthrough", "Ignore", "DeriveVelocity"},
     limit \in {0, 3, NonFinite}}

-----------------------------------------------------------------------------
(* Frames.                                                                 *)

AllReadings  == [Joints -> Reading]
SeenReadings == [Joints -> {"seen"}]

NoRawRoot ==
  [hasPosition |-> FALSE, worldPosition |-> 0, hasOrientation |-> FALSE,
   hasLinearVelocity |-> FALSE, linearVelocity |-> Still]

PositionAt(x) == [NoRawRoot EXCEPT !.hasPosition = TRUE, !.worldPosition = x]

JointRoots == {NoRawRoot, [NoRawRoot EXCEPT !.hasOrientation = TRUE]}

(* No root, a root at either of two places, one that reports a velocity,   *)
(* and a velocity without a position.                                      *)
MovingRoots ==
  {NoRawRoot, PositionAt(0), PositionAt(8),
   [PositionAt(8) EXCEPT !.hasLinearVelocity = TRUE,
                         !.linearVelocity = [by |-> -2, over |-> 1]],
   [NoRawRoot EXCEPT !.hasLinearVelocity = TRUE]}

-----------------------------------------------------------------------------
(* Times.                                                                  *)

JointTimes  == {-9, 0, 1, 4, NonFinite}
RootTimes   == {0, 3, 6}
AskedTimes  == {-2, 1, 4, 9, NonFinite}
AskedOffsets == {0, NonFinite}
NoTimes     == {}
=============================================================================

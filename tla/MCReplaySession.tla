--------------------------- MODULE MCReplaySession ---------------------------
(***************************************************************************)
(* Instances of ReplaySession.  The grid step is a sixth of a microsecond: *)
(* the six-decimal quantum of a trace is 6 steps, the tolerance 3, and a   *)
(* frame interval of 20 steps leaves the remainder that 1/30 s does.       *)
(***************************************************************************)
EXTENDS ReplaySessionProperties

FrameInterval == 20
Quantum       == 6

(* A timestamp as a trace stores it: the nearest multiple of the quantum.  *)
Stored(t) == ((t + Quantum \div 2) \div Quantum) * Quantum

NoRawRoot ==
  [hasPosition |-> FALSE, worldPosition |-> 0, hasOrientation |-> FALSE,
   hasLinearVelocity |-> FALSE, linearVelocity |-> Still]

Walking ==
  [NoRawRoot EXCEPT !.hasPosition = TRUE, !.worldPosition = 8,
                    !.hasLinearVelocity = TRUE, !.linearVelocity = [by |-> 1, over |-> 1]]

(* A frame with everything, one with its joint alone, and an empty one.    *)
Contents ==
  {<<"seen", Walking>>, <<"seen", NoRawRoot>>, <<"absent", NoRawRoot>>}

FrameAt(t, content) ==
  [timestamp |-> t, joints |-> [j \in Joints |-> content[1]], root |-> content[2]]

(* Up to three frames, captured at the frame rate from one of two epochs,  *)
(* the second on an instant that a trace cannot store, or with a gap.      *)
Starts == {0, FrameInterval}
Shapes == {<<0>>, <<0, 1>>, <<0, 1, 2>>, <<0, 3>>, <<0, 1, 4>>}

TracesFrom(starts) ==
  {[k \in 1 .. Len(shape) |->
      FrameAt(Stored(start + shape[k] * FrameInterval), contents[k])] :
     start \in starts, shape \in Shapes, contents \in [1 .. 3 -> Contents]}

AllTraces   == TracesFrom(Starts)
EpochTraces == TracesFrom({FrameInterval})

(* The captured rate, a slower one and a faster one.                       *)
AllPeriods  == {FrameInterval, 25, 12}
AllLags     == {0, 7, 45}
FramePeriod == {FrameInterval}
NoLag       == {0}

CaptureConfigs ==
  {[bufferCapacity |-> capacityOption, gating |-> FALSE, missingJoints |-> "HoldLast",
    rootMotion |-> "DeriveVelocity", maxExtrapolation |-> limit, smoothing |-> FALSE,
    staleFrame |-> 0] : capacityOption \in {1, 0}, limit \in {0, 15}}

-----------------------------------------------------------------------------
(* The session feeds the source itself: its own inputs are closed.         *)
NoTimes    == {}
NoReadings == {}
NoRoots    == {}
=============================================================================

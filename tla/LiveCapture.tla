----------------------------- MODULE LiveCapture -----------------------------
(***************************************************************************)
(* LiveCaptureSource (libs/motionRecording): the intake of a live capture. *)
(* A connector pushes decoded frames stamped in the capture clock; each is *)
(* refused and counted, or conditioned (confidence gate, missing joints,   *)
(* root motion, smoothing) and buffered.  A consumer samples the buffer at *)
(* its own evaluation times, through the clock offset.                     *)
(*                                                                         *)
(* The calls are the actions; the class has no threads and no clock.  What *)
(* is hard is the order of the calls: configuration changes, restarts and  *)
(* availability changes between frames, each touching some of the six      *)
(* pieces of history the class keeps and leaving the others.               *)
(***************************************************************************)
EXTENDS MotionPose

CONSTANTS
  Timestamps,        \* the capture times a connector may stamp
  Readings,          \* per joint, what a frame reports (see Reading)
  Roots,             \* the root motions a frame may report (see RawRoot)
  Configs,           \* the configurations a caller may apply (see Config)
  EvaluationTimes,   \* the times a consumer may ask for
  Offsets,           \* the offsets a caller may set
  OptionalCalls,     \* which of SetInputState and ResetStats a caller makes
  DefaultCapacity,   \* PoseBuffer::DefaultCapacity
  MaxPushes,         \* bound: pushes counted since the last ResetStats
  MaxSamples,        \* bound: Sample calls counted since the last ResetStats
  MaxEpoch,          \* bound: calls of Reset
  MaxGeneration      \* bound: calls of SetConfig

(* A joint of a frame is not reported, reported with a confidence below    *)
(* the floor, or reported with enough confidence (or with none at all).    *)
Reading == {"absent", "low", "seen"}

RawRoot ==
  [hasPosition : BOOLEAN, worldPosition : Int, hasOrientation : BOOLEAN,
   hasLinearVelocity : BOOLEAN, linearVelocity : Velocity]

Frame == [timestamp : Instant, joints : [Joints -> Reading], root : RawRoot]

(* confidenceFloor and smoothingCutoffHz matter by being positive; the two *)
(* durations are times, and an extrapolation limit may be non-finite.      *)
Config ==
  [bufferCapacity : Nat, gating : BOOLEAN,
   missingJoints : {"LeaveUnbound", "HoldLast"},
   rootMotion : {"Passthrough", "Ignore", "DeriveVelocity"},
   maxExtrapolation : Instant, smoothing : BOOLEAN, staleFrame : Time]

InputStates == {"Available", "Missing", "Stale"}

ASSUME JointsAssumption == IsFiniteSet(Joints)

ASSUME InputAssumption ==
  /\ Timestamps \subseteq Instant
  /\ Readings \subseteq [Joints -> Reading]
  /\ Roots \subseteq RawRoot
  /\ Configs \subseteq Config
  /\ EvaluationTimes \subseteq Instant
  /\ Offsets \subseteq Instant
  /\ DefaultCapacity \in Nat \ {0}
  /\ {MaxPushes, MaxSamples, MaxEpoch, MaxGeneration} \subseteq Nat

VARIABLES
  config,           \* _config
  samples,          \* _buffer._samples
  capacity,         \* _buffer._capacity
  filter,           \* _filter._state, or None
  metadata,         \* _metadata
  lastAccepted,     \* _lastAccepted, or None
  observedJoints,   \* _observedJoints
  clockOffset,      \* _clockOffset
  stats,            \* _stats
  inputState,       \* _inputState
  answer,           \* history: what the last call, if a Sample, answered
  epoch,            \* history: the number of Resets so far
  generation,       \* history: the number of SetConfigs so far
  observedPosition  \* history: the root position the newest frame reported

Buffer == INSTANCE PoseBuffer
            WITH Candidates <- Pose,
                 Capacities <- {c.bufferCapacity : c \in Configs}

intake  == <<filter, lastAccepted, observedJoints, observedPosition>>
setting == <<config, metadata, clockOffset, inputState>>
history == <<epoch, generation>>

vars == <<config, samples, capacity, filter, metadata, lastAccepted,
          observedJoints, clockOffset, stats, inputState, answer, epoch,
          generation, observedPosition>>

(* LiveCaptureStats.  The lag is never negative: it starts at zero and     *)
(* only grows.                                                             *)
Counters ==
  {"framesAccepted", "framesRejectedOutOfOrder", "framesRejectedStale",
   "framesRejectedEmpty", "framesRejectedInvalidTimestamp", "jointsObserved",
   "jointsGatedByConfidence", "jointsHeld", "jointsUnbound", "rootSamplesObserved",
   "rootVelocitiesDerived", "samplesSampled", "samplesHeld", "samplesExtrapolated",
   "samplesUnavailable", "peakLagSeconds"}

Stats   == [Counters -> Nat]
NoStats == [c \in Counters |-> 0]

Rejected(s) ==
  s.framesRejectedOutOfOrder + s.framesRejectedStale + s.framesRejectedEmpty
    + s.framesRejectedInvalidTimestamp

Sampled(s) ==
  s.samplesSampled + s.samplesHeld + s.samplesExtrapolated + s.samplesUnavailable

-----------------------------------------------------------------------------
(* Conditioning: _Condition, a step at a time.                             *)

CarriesAnything(frame) ==
  \/ \E j \in Joints : frame.joints[j] # "absent"
  \/ frame.root.hasPosition
  \/ frame.root.hasOrientation

(* 1, 2. The joints the confidence gate drops, and the ones it leaves.     *)
Gated(frame) ==
  {j \in Joints : config.gating /\ frame.joints[j] = "low"}

Observed(frame) ==
  {j \in Joints : frame.joints[j] # "absent"} \ Gated(frame)

(* A slip: what the gate drops is not held, as if it had been reported.    *)
HeldUngated(frame) ==
  {j \in Joints \ (Observed(frame) \cup Gated(frame)) :
     /\ config.missingJoints = "HoldLast"
     /\ lastAccepted # None
     /\ lastAccepted.joints[j] # Absent}

(* 3. The joints carried forward from the last accepted pose.              *)
Held(frame) ==
  {j \in Joints \ Observed(frame) :
     /\ config.missingJoints = "HoldLast"
     /\ lastAccepted # None
     /\ lastAccepted.joints[j] # Absent}

Unbound(frame) == Joints \ (Observed(frame) \cup Held(frame))

Resolved(frame) ==
  [j \in Joints |-> CASE j \in Observed(frame) -> {Seen(epoch, frame.timestamp)}
                      [] j \in Held(frame)     -> lastAccepted.joints[j]
                      [] OTHER                 -> Absent]

RootOf(frame) ==
  [hasPosition       |-> frame.root.hasPosition,
   worldPosition     |-> frame.root.worldPosition,
   worldOrientation  |-> IF frame.root.hasOrientation
                         THEN {Seen(epoch, frame.timestamp)} ELSE Absent,
   hasLinearVelocity |-> frame.root.hasLinearVelocity,
   linearVelocity    |-> frame.root.linearVelocity]

(* 4. The root intake rule.  With no pose before it, a pose is its own     *)
(* prior: no time has passed, and nothing is derived.                      *)
ConditionRootMotion(prior, pose, rule) ==
  LET delta == pose.timestamp - prior.timestamp
  IN  CASE rule = "Ignore" -> NoRootMotion
        [] /\ rule = "DeriveVelocity"
           /\ pose.root.hasPosition
           /\ ~pose.root.hasLinearVelocity
           /\ prior.root.hasPosition
           /\ delta > 0 ->
             [pose.root EXCEPT
                !.hasLinearVelocity = TRUE,
                !.linearVelocity    =
                  [by   |-> pose.root.worldPosition - prior.root.worldPosition,
                   over |-> delta]]
        [] OTHER -> pose.root

(* The frame after steps 1 to 5: joints resolved, root ruled on, stamped   *)
(* with the stream's provenance.                                           *)
Unsmoothed(frame) ==
  LET pose == [timestamp |-> frame.timestamp, joints |-> Resolved(frame),
               root |-> RootOf(frame), source |-> metadata]
  IN  [pose EXCEPT !.root = ConditionRootMotion(
         IF lastAccepted # None THEN lastAccepted ELSE pose, pose, config.rootMotion)]

(* 6. PoseFilter::Step.  A rotation moves part of the way from the state's *)
(* to the pose's; a root coordinate, in the model, half of the way.        *)
SmoothRotation(state, new) ==
  IF state = Absent \/ new = Absent \/ state = new THEN new
  ELSE state \cup new \cup {Filtered(generation)}

SmoothRoot(state, root) ==
  [root EXCEPT
     !.worldPosition =
        IF state.hasPosition /\ root.hasPosition
        THEN state.worldPosition + (root.worldPosition - state.worldPosition) \div 2
        ELSE root.worldPosition,
     !.worldOrientation = SmoothRotation(state.worldOrientation, root.worldOrientation)]

(* No state, or a pose not later than it, seeds: the pose passes through.  *)
Seeds(pose) == filter = None \/ pose.timestamp <= filter.timestamp

Smoothed(pose) ==
  IF Seeds(pose) THEN pose
  ELSE [pose EXCEPT
          !.joints = [j \in Joints |-> SmoothRotation(filter.joints[j], pose.joints[j])],
          !.root   = SmoothRoot(filter.root, pose.root)]

(* What the filter keeps: its answer, and the joints the pose left out.    *)
FilterState(pose) ==
  IF Seeds(pose) THEN pose
  ELSE [Smoothed(pose) EXCEPT
          !.joints = [j \in Joints |->
             IF pose.joints[j] = Absent THEN filter.joints[j] ELSE @[j]]]

Conditioned(frame) ==
  IF config.smoothing THEN Smoothed(Unsmoothed(frame)) ELSE Unsmoothed(frame)

(* What conditioning counts, whether or not the buffer then takes the pose. *)
ConditioningStats(frame) ==
  [stats EXCEPT
     !.jointsGatedByConfidence = @ + Cardinality(Gated(frame)),
     !.jointsObserved = @ + Cardinality(Observed(frame)),
     !.jointsHeld     = @ + Cardinality(Held(frame)),
     !.jointsUnbound  = @ + Cardinality(Unbound(frame)),
     !.rootSamplesObserved =
        IF config.rootMotion # "Ignore" /\ frame.root.hasPosition THEN @ + 1 ELSE @,
     !.rootVelocitiesDerived =
        IF ~frame.root.hasLinearVelocity /\ Unsmoothed(frame).root.hasLinearVelocity
        THEN @ + 1 ELSE @]

-----------------------------------------------------------------------------
(* Push.                                                                   *)

(* A slip: only the span to the last frame is asked to be finite.          *)
InvalidSpan(frame) ==
  /\ lastAccepted # None
  /\ ~IsFinite(Minus(frame.timestamp, lastAccepted.timestamp))

InvalidTimestamp(frame) ==
  \/ ~IsFinite(frame.timestamp)
  \/ /\ lastAccepted # None
     /\ ~IsFinite(Minus(frame.timestamp, lastAccepted.timestamp))

Delta(frame) == frame.timestamp - lastAccepted.timestamp

(* A slip: a duplicate timestamp is left for the buffer to refuse.         *)
Earlier(frame) == lastAccepted # None /\ Delta(frame) < 0

NotNewer(frame) == lastAccepted # None /\ Delta(frame) <= 0

Straggler(frame) ==
  config.staleFrame > 0 /\ -Delta(frame) > config.staleFrame

Refuse(counted) ==
  /\ stats' = counted
  /\ UNCHANGED <<intake, setting, history, samples, capacity>>

(* A slip: the coverage report of the newest frame alone.                  *)
FrameCoverage(frame) == Observed(frame)

Coverage(frame) == observedJoints \cup Observed(frame)

Accept(frame) ==
  LET pose == Conditioned(frame)
      counted == ConditioningStats(frame)
  IN  /\ observedJoints' = Coverage(frame)
      /\ filter' = IF config.smoothing THEN FilterState(Unsmoothed(frame)) ELSE filter
      /\ Buffer!Push(pose)
      /\ IF Buffer!Accepts(pose)
         THEN /\ lastAccepted' = pose
              /\ stats' = [counted EXCEPT !.framesAccepted = @ + 1]
              /\ inputState' = "Available"
              /\ observedPosition' = frame.root.worldPosition
         ELSE /\ stats' = [counted EXCEPT !.framesRejectedOutOfOrder = @ + 1]
              /\ UNCHANGED <<lastAccepted, inputState, observedPosition>>
      /\ UNCHANGED <<config, metadata, clockOffset, history>>

Push(frame) ==
  /\ answer' = None
  /\ CASE InvalidTimestamp(frame) ->
            Refuse([stats EXCEPT !.framesRejectedInvalidTimestamp = @ + 1])
       [] ~InvalidTimestamp(frame) /\ ~CarriesAnything(frame) ->
            Refuse([stats EXCEPT !.framesRejectedEmpty = @ + 1])
       [] /\ ~InvalidTimestamp(frame)
          /\ CarriesAnything(frame)
          /\ NotNewer(frame) ->
            Refuse(IF Straggler(frame)
                   THEN [stats EXCEPT !.framesRejectedStale = @ + 1]
                   ELSE [stats EXCEPT !.framesRejectedOutOfOrder = @ + 1])
       [] OTHER -> Accept(frame)

-----------------------------------------------------------------------------
(* The caller's policies.                                                  *)

(* A slip: the smoothing state survives a configuration that smooths on.   *)
SetConfigKeepingFilter(c) ==
  /\ config' = c
  /\ Buffer!SetCapacity(c.bufferCapacity)
  /\ filter' = IF c.smoothing THEN filter ELSE None
  /\ generation' = generation + 1
  /\ answer' = None
  /\ UNCHANGED <<metadata, lastAccepted, observedJoints, observedPosition,
                 clockOffset, stats, inputState, epoch>>

SetConfig(c) ==
  /\ config' = c
  /\ Buffer!SetCapacity(c.bufferCapacity)
  /\ filter' = None
  /\ generation' = generation + 1
  /\ answer' = None
  /\ UNCHANGED <<metadata, lastAccepted, observedJoints, observedPosition,
                 clockOffset, stats, inputState, epoch>>

SetSourceMetadata(source) ==
  /\ metadata' = source
  /\ answer' = None
  /\ UNCHANGED <<intake, history, samples, capacity, config, clockOffset,
                 stats, inputState>>

(* An unknown enumerator is refused without a change, so only these three. *)
SetInputState(state) ==
  /\ inputState' = state
  /\ answer' = None
  /\ UNCHANGED <<intake, history, samples, capacity, config, metadata,
                 clockOffset, stats>>

SetClockOffset(offset) ==
  /\ clockOffset' = offset
  /\ answer' = None
  /\ UNCHANGED <<intake, history, samples, capacity, config, metadata, stats,
                 inputState>>

AlignClock(evaluationTime) ==
  LET offset == Minus(Buffer!Newest(samples).timestamp, evaluationTime)
  IN  /\ clockOffset' = IF samples # <<>> /\ IsFinite(evaluationTime) /\ IsFinite(offset)
                        THEN offset ELSE clockOffset
      /\ answer' = None
      /\ UNCHANGED <<intake, history, samples, capacity, config, metadata,
                     stats, inputState>>

(* A slip: the frame that HoldLast and DeriveVelocity look back to stays.  *)
ResetKeepingHead ==
  /\ Buffer!Clear
  /\ filter' = None
  /\ observedJoints' = {}
  /\ epoch' = epoch + 1
  /\ answer' = None
  /\ UNCHANGED <<setting, stats, generation, lastAccepted, observedPosition>>

(* A slip: the smoothing state stays.                                      *)
ResetKeepingFilter ==
  /\ Buffer!Clear
  /\ lastAccepted' = None
  /\ observedJoints' = {}
  /\ observedPosition' = 0
  /\ epoch' = epoch + 1
  /\ answer' = None
  /\ UNCHANGED <<setting, stats, generation, filter>>

Reset ==
  /\ Buffer!Clear
  /\ filter' = None
  /\ lastAccepted' = None
  /\ observedJoints' = {}
  /\ observedPosition' = 0
  /\ epoch' = epoch + 1
  /\ answer' = None
  /\ UNCHANGED <<setting, stats, generation>>

ResetStats ==
  /\ stats' = NoStats
  /\ answer' = None
  /\ UNCHANGED <<intake, setting, history, samples, capacity>>

-----------------------------------------------------------------------------
(* Sample.                                                                 *)

CaptureTime(evaluationTime) == Plus(evaluationTime, clockOffset)

Lag(evaluationTime) ==
  Minus(CaptureTime(evaluationTime), Buffer!Newest(samples).timestamp)

(* Nothing to answer with, found before the lag is known.                  *)
Suppressed(evaluationTime) ==
  \/ inputState # "Available"
  \/ samples = <<>>
  \/ ~IsFinite(evaluationTime)
  \/ ~IsFinite(CaptureTime(evaluationTime))
  \/ ~IsFinite(Lag(evaluationTime))

(* The buffer's answer at a capture time, under the extrapolation policy.  *)
BufferAnswer(captureTime) ==
  IF config.maxExtrapolation > 0
  THEN Buffer!SampleExtrapolated(captureTime, config.maxExtrapolation)
  ELSE [pose |-> Buffer!Sample(captureTime), carried |-> 0]

(* A slip: the tolerance forgotten on one side.                            *)
PastNewestExactly(captureTime) ==
  captureTime > Buffer!Newest(samples).timestamp

PastNewest(captureTime) ==
  captureTime > Buffer!Newest(samples).timestamp + Tolerance

OutsideRange(captureTime) ==
  captureTime < samples[1].timestamp - Tolerance \/ PastNewest(captureTime)

(* The root moved only if there was a velocity to move it along.           *)
Status(captureTime, found) ==
  CASE ~OutsideRange(captureTime) -> "Sampled"
    [] /\ PastNewest(captureTime)
       /\ found.pose.root.hasPosition
       /\ found.carried # 0 -> "Extrapolated"
    [] OTHER -> "Held"

CountSample(status, s) ==
  CASE status = "Sampled"      -> [s EXCEPT !.samplesSampled = @ + 1]
    [] status = "Held"         -> [s EXCEPT !.samplesHeld = @ + 1]
    [] status = "Extrapolated" -> [s EXCEPT !.samplesExtrapolated = @ + 1]
    [] OTHER                   -> [s EXCEPT !.samplesUnavailable = @ + 1]

Unavailable(evaluationTime, lag) ==
  [status |-> "Unavailable", lag |-> lag, pose |-> None,
   captureTime |-> CaptureTime(evaluationTime), carried |-> 0]

(* A slip: the buffer's clock leaks into the consumer's timeline.          *)
ResultInCaptureTime(evaluationTime) ==
  LET captureTime == CaptureTime(evaluationTime)
      lag   == Lag(evaluationTime)
      found == BufferAnswer(captureTime)
  IN  CASE Suppressed(evaluationTime) -> Unavailable(evaluationTime, 0)
        [] ~Suppressed(evaluationTime) /\ found.pose = None ->
             Unavailable(evaluationTime, lag)
        [] OTHER ->
             [status |-> Status(captureTime, found), lag |-> lag, pose |-> found.pose,
              captureTime |-> captureTime, carried |-> found.carried]

(* What Sample returns.  A pose is stamped in the consumer's clock.        *)
Result(evaluationTime) ==
  LET captureTime == CaptureTime(evaluationTime)
      lag   == Lag(evaluationTime)
      found == BufferAnswer(captureTime)
  IN  CASE Suppressed(evaluationTime) -> Unavailable(evaluationTime, 0)
        [] ~Suppressed(evaluationTime) /\ found.pose = None ->
             Unavailable(evaluationTime, lag)
        [] OTHER ->
             [status |-> Status(captureTime, found), lag |-> lag,
              pose |-> [found.pose EXCEPT !.timestamp = evaluationTime],
              captureTime |-> captureTime, carried |-> found.carried]

Sample(evaluationTime) ==
  LET result == Result(evaluationTime)
  IN  /\ answer' = result
      /\ stats' = CountSample(result.status,
                    [stats EXCEPT !.peakLagSeconds = Larger(@, result.lag)])
      /\ UNCHANGED <<intake, setting, history, samples, capacity>>

-----------------------------------------------------------------------------
Init ==
  /\ config \in Configs
  /\ samples = <<>>
  /\ capacity = IF config.bufferCapacity = 0 THEN DefaultCapacity
                ELSE config.bufferCapacity
  /\ filter = None
  /\ metadata \in Sources
  /\ lastAccepted = None
  /\ observedJoints = {}
  /\ clockOffset = 0
  /\ stats = NoStats
  /\ inputState = "Available"
  /\ answer = None
  /\ epoch = 0
  /\ generation = 0
  /\ observedPosition = 0

Frames == [timestamp : Timestamps, joints : Readings, root : Roots]

Next ==
  \/ /\ stats.framesAccepted + Rejected(stats) < MaxPushes
     /\ \E frame \in Frames : Push(frame)
  \/ /\ generation < MaxGeneration
     /\ \E c \in Configs : SetConfig(c)
  \/ \E source \in Sources : SetSourceMetadata(source)
  \/ /\ "SetInputState" \in OptionalCalls
     /\ \E state \in InputStates : SetInputState(state)
  \/ \E offset \in Offsets : SetClockOffset(offset)
  \/ \E t \in EvaluationTimes : AlignClock(t)
  \/ /\ Sampled(stats) < MaxSamples
     /\ \E t \in EvaluationTimes : Sample(t)
  \/ /\ epoch < MaxEpoch
     /\ Reset
  \/ /\ "ResetStats" \in OptionalCalls
     /\ ResetStats

Spec == Init /\ [][Next]_vars
=============================================================================

----------------------------- MODULE ExecMotion -----------------------------
(***************************************************************************)
(* The execMotion bundle (plugins/execMotion): computations on the         *)
(* animations of the open layer, evaluated at one time code by a driver    *)
(* that may put a prior pose or a history in place of what they compute.   *)
(* A computation answers a set, empty when it refuses.                     *)
(***************************************************************************)
EXTENDS StageFile

CONSTANTS
  TimeCodes,  \* the time codes the driver evaluates at
  Driven,     \* the animation it drives
  Blends,     \* motion:blend:sources and weights, 0 for one that is not positive
  MaxHistory  \* bounds the poses it keeps

ASSUME BlendsAssumption ==
  \A blend \in Blends : IsSequence(blend.sources) /\ blend.weights \in Seq(Int)

VARIABLES
  clock,    \* the evaluated time code, none at the default one
  prior,    \* the driver's override of motion.priorPose, if any
  history   \* its override of motion.poseHistory, if any

execVars == <<stageVars, clock, prior, history>>

-----------------------------------------------------------------------------
(* What two poses, or two roots, mix to: what one alone carries is held.   *)

MixedValue(a, b) == IF a = {} THEN b ELSE IF b = {} THEN a ELSE {The(a) \cup The(b)}

LerpPose(a, b) ==
  [a EXCEPT !.rotations = [bone \in DOMAIN a.rotations \cup DOMAIN b.rotations |->
                             IF bone \notin DOMAIN b.rotations THEN a.rotations[bone]
                             ELSE IF bone \notin DOMAIN a.rotations THEN b.rotations[bone]
                             ELSE a.rotations[bone] \cup b.rotations[bone]],
            !.facing = MixedValue(@, b.facing), !.place = MixedValue(@, b.place)]

(* PoseFilter::Step: a joint the state lacks, or the pose, is not smoothed.*)
FilterStep(state, pose, policy) ==
  LET both == DOMAIN state.rotations \cap DOMAIN pose.rotations
      root(of, smoothed) == IF smoothed /\ of[1] # {} /\ of[2] # {} THEN MixedValue(of[1], of[2]) ELSE of[2]
  IN  IF policy.cutoff = 0 \/ pose.timestamp <= state.timestamp THEN pose
      ELSE [pose EXCEPT
              !.rotations = [bone \in DOMAIN @ |-> IF bone \in both THEN state.rotations[bone] \cup @[bone]
                                                   ELSE @[bone]],
              !.place  = root(<<state.place, @>>, policy.place),
              !.facing = root(<<state.facing, @>>, policy.facing)]

(* BlendPoses: the poses of positive weight, folded in order; the instant  *)
(* is the first one's.                                                     *)
BlendPoses(poses, weights) ==
  LET heavy == InOrder({i \in DOMAIN poses : weights[i] > 0})
      blended[k \in 1 .. Len(heavy)] ==
        IF k = 1 THEN poses[heavy[1]] ELSE LerpPose(blended[k - 1], poses[heavy[k]])
  IN  IF heavy = << >> THEN {} ELSE {blended[Len(heavy)]}

-----------------------------------------------------------------------------
(* The computations, on one animation of the layer.                        *)

AtClock(attr) == IF clock = {} THEN attr.default ELSE Resolved(attr, The(clock))

(* An array nobody authored arrives as one element of the fallback.        *)
InputArray(attr, fallback) ==
  IF ~HasOpinion(attr) THEN <<fallback>>
  ELSE IF AtClock(attr) = {} THEN << >> ELSE The(AtClock(attr))

SampleAnimation(animation) ==
  PoseFromStageSample(animation.joints, InputArray(animation.rotations, Unturned),
    InputArray(animation.translations, Origin),
    IF animation.rate = {} THEN 0 ELSE The(animation.rate), clock)

(* The sampler's pose and refusal, unless the driver put one in its place. *)
Overridden(animation, override, computed) ==
  IF animation.path = Driven /\ override # {} THEN override ELSE computed

PriorPose(animation) == Overridden(animation, prior, SampleAnimation(animation))

PoseHistory(animation) ==
  Overridden(animation, history, {<<pose>> : pose \in SampleAnimation(animation)})

(* The library's defaults, and what the clip states over them.             *)
FilterPolicy(animation) ==
  LET stated(of, default) == IF of = {} THEN default ELSE The(of)
  IN  [cutoff |-> stated(animation.policy.cutoff, 6), place |-> stated(animation.policy.place, TRUE),
       facing |-> stated(animation.policy.facing, TRUE)]

(* A slip: without a pose, the prior one is answered.                      *)
FilterPoseOrPrior(animation) ==
  IF SampleAnimation(animation) = {} THEN PriorPose(animation)
  ELSE {FilterStep(The(PriorPose(animation)), pose, FilterPolicy(animation)) :
          pose \in SampleAnimation(animation)}

FilterPose(animation) ==
  {FilterStep(IF PriorPose(animation) = {} THEN pose ELSE The(PriorPose(animation)),
              pose, FilterPolicy(animation)) : pose \in SampleAnimation(animation)}

Intakes == {"passthrough", "ignore", "deriveVelocity"}

ConditionRootMotion(before, pose, intake) ==
  LET derives == /\ intake = "deriveVelocity"
                 /\ pose.place # {} /\ before.place # {}
                 /\ before.timestamp < pose.timestamp
  IN  IF intake = "ignore" THEN [place |-> {}, facing |-> {}, velocity |-> {}]
      ELSE [place |-> pose.place, facing |-> pose.facing,
            velocity |-> IF derives THEN {<<The(before.place), The(pose.place)>>} ELSE {}]

(* A token that names no policy is refused, an absent one derives.         *)
ExtractRootMotion(animation) ==
  {ConditionRootMotion(IF PriorPose(animation) = {} THEN pose ELSE The(PriorPose(animation)), pose,
                       IF animation.policy.intake = {} THEN "deriveVelocity" ELSE The(animation.policy.intake)) :
     pose \in {p \in SampleAnimation(animation) : animation.policy.intake \subseteq Intakes}}

RootTransform(animation) ==
  {[place |-> root.place, facing |-> root.facing] :
     root \in {r \in ExtractRootMotion(animation) : {NaN} \cap (r.place \cup r.facing) = {}}}

(* SampleClip, on poses in time order.                                     *)
SampleHistory(poses, t) ==
  LET last   == IF poses = << >> THEN 0 ELSE poses[Len(poses)].timestamp
      before == {i \in DOMAIN poses : poses[i].timestamp <= t}
      after  == {i \in DOMAIN poses : poses[i].timestamp >= t}
      i      == Max(before)
      k      == Min(after)
      pose   == CASE before = {} -> poses[k]
                  [] after = {} -> poses[i]
                  [] OTHER -> IF poses[i].timestamp = t THEN poses[i] ELSE LerpPose(poses[i], poses[k])
  IN  IF poses = << >> THEN [status |-> "Unavailable", lag |-> 0, pose |-> {}]
      ELSE [status |-> IF before = {} \/ after = {} THEN "Held" ELSE "Sampled",
            lag |-> t - last, pose |-> {[pose EXCEPT !.timestamp = t]}]

IsInTimeOrder(poses) == \A i \in DOMAIN poses : i > 1 => poses[i - 1].timestamp <= poses[i].timestamp

(* The default time code is no instant.                                    *)
InterpolatePose(animation) ==
  {SampleHistory(poses, The(SampleAnimation(animation)).timestamp) :
     poses \in {p \in PoseHistory(animation) :
                  SampleAnimation(animation) # {} /\ clock # {} /\ IsInTimeOrder(p)}}

-----------------------------------------------------------------------------
(* motion.blendPoses, over what its sources name on the layer.             *)

Prims ==
  {layer.animations[a].path : a \in DOMAIN layer.animations}
    \cup {layer.skeletons[s].path : s \in DOMAIN layer.skeletons}

(* A prim that is no animation answers no pose, and is a target still.     *)
Targets(sources) == Only(sources, Prims)

SampleOf(path) ==
  UNION {SampleAnimation(layer.animations[a]) :
           a \in {a \in DOMAIN layer.animations : layer.animations[a].path = path}}

(* What the fan-in delivers: a target that answered nothing is passed over.*)
Answers(sources) ==
  LET answered == Only(Targets(sources), {path \in Prims : SampleOf(path) # {}})
  IN  [i \in DOMAIN answered |-> The(SampleOf(answered[i]))]

(* A slip: nobody counts what came back.                                   *)
BlendedAnswers(targets, poses, weights) ==
  IF poses # << >> /\ Len(weights) = Len(targets) THEN BlendPoses(poses, weights) ELSE {}

BlendedPose(targets, poses, weights) ==
  IF /\ targets # << >>
     /\ Len(poses) = Len(targets)
     /\ Len(weights) = Len(targets)
     /\ \A i \in DOMAIN weights : weights[i] # NonFinite
     /\ \A i \in DOMAIN poses : poses[i].timestamp = poses[1].timestamp
  THEN BlendPoses(poses, weights)
  ELSE {}

Blend(sources, weights) == BlendedPose(Targets(sources), Answers(sources), weights)

-----------------------------------------------------------------------------
(* The driver.                                                             *)

ExecInit ==
  /\ Init
  /\ clock = {} /\ prior = {} /\ history = {}

ChangeTime(code) ==
  /\ clock' = {code}
  /\ UNCHANGED <<stageVars, prior, history>>

(* The answer of this frame is the prior pose of the next.                 *)
FeedBack(animation) ==
  /\ animation.path = Driven
  /\ prior' = FilterPose(animation)
  /\ UNCHANGED <<stageVars, clock, history>>

(* A snapshot of the driver's buffer.                                      *)
Snapshot(animation) ==
  /\ animation.path = Driven
  /\ LET kept == IF history = {} THEN << >> ELSE The(history)
     IN  /\ Len(kept) < MaxHistory
         /\ history' = {kept \o [i \in 1 .. Cardinality(SampleAnimation(animation)) |->
                                   The(SampleAnimation(animation))]}
  /\ UNCHANGED <<stageVars, clock, prior>>

(* A driver keeps its overrides while the stage under them changes, until  *)
(* the stage is closed.  Bounds: it starts on a layer as it is on disk that no *)
(* session opinion binds, puts in one of the two at a time, and only a     *)
(* write or a reload changes the stage while it drives.                    *)
ExecNext ==
  \/ /\ clock = {} /\ FileNext
     /\ UNCHANGED <<clock, prior, history>>
  \/ /\ clock # {}
     /\ \/ \E clip \in Clips : WriteMotionStage(clip, {})
        \/ \E stage \in Foreign : Reload(stage)
     /\ UNCHANGED <<clock, prior, history>>
  \/ /\ clock # {} /\ Close
     /\ clock' = {} /\ prior' = {} /\ history' = {}
  \/ /\ layer # None /\ layer = disk /\ session = {}
     /\ \/ \E code \in TimeCodes : ChangeTime(code)
        \/ history = {} /\ \E a \in DOMAIN layer.animations : FeedBack(layer.animations[a])
        \/ prior = {} /\ \E a \in DOMAIN layer.animations : Snapshot(layer.animations[a])

ExecSpec == ExecInit /\ [][ExecNext]_execVars

-----------------------------------------------------------------------------
(* Properties.                                                             *)

Evaluated == IF layer = None THEN {} ELSE Range(layer.animations)

BodyOf(sample) == [sample EXCEPT !.channels = << >>, !.gaze = {}]

(* Exec reads the rate from the animation and the reader reads it from the *)
(* stage: at a code the reader has a sample at, the two pose the body      *)
(* alike and at the same second, or the reader warned that the rates       *)
(* disagree; but for a clip of one joint, where exec sees a fallback       *)
(* (ClipReader.cpp:446, ClipReader.h "Except for a clip of exactly one     *)
(* joint").                                                                *)
ExecAgreesWithReader ==
  \A animation \in Evaluated, code \in clock :
    \A read \in ReadMotionStage(layer, session, {}, AsAuthored) :
      /\ read.animation = animation.path /\ ~read.ratesDisagree
      /\ Len(animation.joints) > 1 /\ code \in ReadCodes(layer, animation, AsAuthored)
      => \A pose \in SampleAnimation(animation) :
           \E i \in DOMAIN read.samples : pose = BodyOf(read.samples[i])

(* What the sampler refuses, no node downstream turns into an answer, not  *)
(* even with a prior pose and a history put in by the driver, and no blend *)
(* it is a source of (ExecMotionRegistration.cpp:29).                      *)
RefusalReachesEveryNode ==
  \A animation \in Evaluated :
    SampleAnimation(animation) = {} =>
      /\ FilterPose(animation) = {}
      /\ InterpolatePose(animation) = {}
      /\ RootTransform(animation) = {}
      /\ \A blend \in Blends :
           animation.path \in Range(blend.sources) => Blend(blend.sources, blend.weights) = {}

(* Where the scene states one weight per source, a blend that answers      *)
(* gives every source its own: a bone is made of what the sources of       *)
(* positive weight say of it, all of them and no other, although the       *)
(* fan-in drops sources without a word (ExecMotionPose.cpp:205).           *)
BlendPairsEachWeightWithItsClip ==
  layer # None =>
    \A blend \in {b \in Blends : Len(b.weights) = Len(b.sources)} :
      \A pose \in Blend(blend.sources, blend.weights) :
        LET heavy == {i \in DOMAIN blend.sources : blend.weights[i] > 0}
            said(i, bone) == UNION {{p.rotations[b] : b \in DOMAIN p.rotations \cap {bone}} :
                                      p \in SampleOf(blend.sources[i])}
        IN  \A bone \in Range(Vocabulary) :
              (IF bone \in DOMAIN pose.rotations THEN pose.rotations[bone] ELSE {})
                = UNION UNION {said(i, bone) : i \in heavy}
=============================================================================

---------------------------- MODULE StageReader ----------------------------
(***************************************************************************)
(* Reading a motion stage back (libs/motionUsd): the permissive reader,    *)
(* which warns, and the strict one, which refuses and names the parents.   *)
(* Whatever a reader answers is a set, empty when it refuses.              *)
(***************************************************************************)
EXTENDS MotionStage

FindSkeleton(stage, named) ==
  IF named = {} THEN {s \in DOMAIN stage.skeletons : s = 1}
  ELSE {s \in DOMAIN stage.skeletons : stage.skeletons[s].path \in named}

(* The session layer's opinion is the stronger one.                        *)
BoundPath(stage, session, s) == IF session # {} THEN session ELSE stage.skeletons[s].source

(* The bound animation, or the stage's only one.                           *)
AnimationOf(stage, session, s) ==
  LET bound == {a \in DOMAIN stage.animations :
                  stage.animations[a].path \in BoundPath(stage, session, s)}
  IN  IF bound = {} /\ Len(stage.animations) = 1 THEN {1} ELSE bound

UsableRate(stage) == IF stage.rate > 0 THEN stage.rate ELSE StageRate

(* What an input states at a code: a constant everywhere, a key only where *)
(* it is.                                                                  *)
StatedAt(attr, code) ==
  IF Keys(attr) = {} THEN attr.default
  ELSE {attr.keys[key] : key \in Keys(attr) \cap {code}}

-----------------------------------------------------------------------------
(* Channels: the first prim of a name that states a value.                 *)

Bindable(channels) ==
  {i \in DOMAIN channels : channels[i].name # {} /\ HasOpinion(channels[i].value)}

FirstOfEachName(channels) ==
  {i \in Bindable(channels) :
     \A k \in Bindable(channels) : channels[k].name = channels[i].name => i <= k}

(* Inputs a format owner selects: one without a value is skipped, and one  *)
(* that cannot be told from another is refused.                            *)
ProjectionIsSound(stage, projected) ==
  LET live  == {i \in DOMAIN projected : HasOpinion(projected[i].value)}
      names == {stage.channels[i].name : i \in Bindable(stage.channels)}
  IN  \A i \in live :
        /\ projected[i].isFloat
        /\ projected[i].name # {}
        /\ projected[i].name \notin names
        /\ \A k \in live : projected[k].name = projected[i].name => k = i

ChannelInputs(stage, projected) ==
  {stage.channels[i] : i \in FirstOfEachName(stage.channels)}
    \cup {[name |-> p.name, value |-> p.value] : p \in {q \in Range(projected) : HasOpinion(q.value)}}

GazeInput(animation, options) == IF options.gaze = {} THEN animation.gaze ELSE The(options.gaze)

-----------------------------------------------------------------------------
(* ReadMotionStage, against one skeleton and one animation.                *)

(* An input between two body keys is an instant of its own.                *)
KeyUnion(stage, animation, options) ==
  Keys(animation.rotations) \cup Keys(animation.translations)
    \cup Keys(GazeInput(animation, options))
    \cup UNION {Keys(channel.value) : channel \in ChannelInputs(stage, options.channels)}

ReadCodes(stage, animation, options) ==
  LET keys == KeyUnion(stage, animation, options)
  IN  IF keys = {} THEN {stage.start} ELSE keys

IsReadable(stage, s, animation, options) ==
  LET codes  == ReadCodes(stage, animation, options)
      inputs == {channel.value : channel \in ChannelInputs(stage, options.channels)}
                  \cup {GazeInput(animation, options)}
  IN  /\ stage.skeletons[s].joints # << >>
      /\ \E i \in DOMAIN animation.joints : BoneOf(animation.joints[i]) # NoBone
      /\ ProjectionIsSound(stage, options.channels)
      /\ HasOpinion(GazeInput(animation, options)) => stage.metric /\ stage.rate > 0
      /\ \A early, late \in codes :
           early < late => Seconds(early, UsableRate(stage)) < Seconds(late, UsableRate(stage))
      /\ \A input \in inputs, code \in codes : <<NaN>> \notin StatedAt(input, code)

ArrayAt(attr, code) ==
  LET value == Resolved(attr, code) IN IF value = {} THEN << >> ELSE The(value)

PoseAt(stage, animation, options, code) ==
  LET body    == The(PoseFromStageSample(animation.joints, ArrayAt(animation.rotations, code),
                       ArrayAt(animation.translations, code), UsableRate(stage), {code}))
      stating == {channel \in ChannelInputs(stage, options.channels) :
                    StatedAt(channel.value, code) # {}}
      of(n)   == CHOOSE channel \in stating : n \in channel.name
  IN  [body EXCEPT
         !.channels = [n \in UNION {c.name : c \in stating} |-> The(StatedAt(of(n).value, code))[1]],
         !.gaze = UNION {Range(value) : value \in StatedAt(GazeInput(animation, options), code)}]

(* A slip: a stage without a usable rate is not compared.                  *)
StatedRatesDisagree(stage, animation) == stage.rate > 0 /\ animation.rate \notin {{}, {stage.rate}}

RatesDisagree(stage, animation) == animation.rate \notin {{}, {UsableRate(stage)}}

ReadFrom(stage, animation, options) ==
  LET codes == InOrder(ReadCodes(stage, animation, options))
  IN  [samples   |-> [i \in DOMAIN codes |-> PoseAt(stage, animation, options, codes[i])],
       nominal   |-> IF stage.nominal \in {{}, {0}} THEN UsableRate(stage) ELSE The(stage.nominal),
       animation |-> animation.path,
       ratesDisagree |-> RatesDisagree(stage, animation)]

ReadMotionStage(stage, session, named, options) ==
  {ReadFrom(stage, stage.animations[a], options) :
     a \in {a \in DOMAIN stage.animations :
              \E s \in FindSkeleton(stage, named) :
                /\ a \in AnimationOf(stage, session, s)
                /\ IsReadable(stage, s, stage.animations[a], options)}}

-----------------------------------------------------------------------------
(* The strict reader.                                                      *)

(* The joint whose token is this one's without its leaf; 0 for none.       *)
ImmediateParent(joints, i) ==
  LET above == {p \in DOMAIN joints : Append(joints[p], Leaf(joints[i])) = joints[i]}
  IN  IF above = {} THEN 0 ELSE The(above)

SkeletonIsStrict(stage, skeleton) ==
  LET joints == skeleton.joints
  IN  /\ stage.metric
      /\ joints # << >>
      /\ Len(skeleton.rests) = Len(joints)
      /\ \A i, k \in DOMAIN joints : joints[i] = joints[k] => i = k
      /\ TopologyIsValid(joints)
      /\ \A i \in DOMAIN joints : TopologyParent(joints, i) = ImmediateParent(joints, i)

(* BuildSourceRestPose names some bone, and none of them twice.            *)
NamesASourceRest(joints) ==
  LET bones == {i \in DOMAIN joints : BoneOf(joints[i]) # NoBone}
  IN  /\ bones # {}
      /\ \A i, k \in bones : BoneOf(joints[i]) = BoneOf(joints[k]) => i = k

ReadCanonicalMotionStage(stage, session, path, options) ==
  LET strict == {s \in FindSkeleton(stage, {path}) :
                   /\ SkeletonIsStrict(stage, stage.skeletons[s])
                   /\ stage.rate > 0
                   /\ NamesASourceRest(stage.skeletons[s].joints)}
      joints(s) == stage.skeletons[s].joints
  IN  UNION {{[read |-> read, joints |-> joints(s), rests |-> stage.skeletons[s].rests,
               parents |-> [i \in DOMAIN joints(s) |-> ImmediateParent(joints(s), i)]] :
                read \in ReadMotionStage(stage, session, {path}, options)} : s \in strict}
=============================================================================

---------------------------- MODULE MotionStage ----------------------------
(***************************************************************************)
(* A motion clip as a USD stage (libs/motionUsd): what USD answers, and    *)
(* what the writer authors.                                                *)
(*                                                                         *)
(* A rotation or a place is the set of the values it was made of: what USD *)
(* resolves between two keys is made of both.  An optional value is a set  *)
(* of at most one.  A time is a quarter of a frame at 30 frames a second.  *)
(***************************************************************************)
EXTENDS HumanJoints, Integers, FiniteSetsExt

CONSTANTS
  Vocabulary,  \* the bones in play, in the order of the vocabulary
  PrimName     \* TfMakeValidIdentifier, on the channel names in play

ASSUME LineageAssumption == LineageIsSound

(* No bone comes twice, and every bone's parents come before it.           *)
ASSUME VocabularyAssumption ==
  /\ Vocabulary \in Seq(HumanJoint)
  /\ \A i, k \in DOMAIN Vocabulary : Vocabulary[i] = Vocabulary[k] => i = k
  /\ \A i, k \in DOMAIN Vocabulary : Vocabulary[k] \in Range(Lineage[Vocabulary[i]]) => k < i

StageRate == 30   \* MotionStageTimeCodesPerSecond
Frame     == 4
Snap      == 1    \* kFrameSnap
NonFinite == -1

Origin   == {"origin"}
Unturned == {"identity"}
NaN      == {"nan"}

The(optional) == CHOOSE x \in optional : TRUE

-----------------------------------------------------------------------------
(* USD's attributes: a default and keys.                                   *)

NoOpinion == [default |-> {}, keys |-> << >>]

Keys(attr)       == DOMAIN attr.keys
HasOpinion(attr) == attr.default # {} \/ Keys(attr) # {}

(* Arrays of two sizes are held, not interpolated.                         *)
Between(before, after) ==
  IF Len(before) # Len(after) THEN before
  ELSE [i \in DOMAIN before |-> before[i] \cup after[i]]

Resolved(attr, code) ==
  LET before == {key \in Keys(attr) : key <= code}
      after  == {key \in Keys(attr) : key >= code}
  IN  IF Keys(attr) = {} THEN attr.default
      ELSE {IF before = {} THEN attr.keys[Min(after)]
            ELSE IF after = {} THEN attr.keys[Max(before)]
            ELSE Between(attr.keys[Max(before)], attr.keys[Min(after)])}

(* The parent UsdSkel finds, the nearest one above; 0 for a root.          *)
Above(joints, token) == {i \in DOMAIN joints : \E n \in 0 .. Len(token) - 1 : joints[i] = SubSeq(token, 1, n)}

TopologyParent(joints, i) ==
  LET above == Above(joints, joints[i])
  IN  IF above = {} THEN 0
      ELSE CHOOSE p \in above : \A q \in above : Len(joints[q]) <= Len(joints[p])

TopologyIsValid(joints) == \A i \in DOMAIN joints : TopologyParent(joints, i) < i

(* What an animation may state about its smoothing and its root.           *)
NoPolicy == [cutoff |-> {}, place |-> {}, facing |-> {}, intake |-> {}]

EmptyStage ==
  [rate |-> StageRate, metric |-> TRUE, start |-> 0, nominal |-> {},
   skeletons |-> << >>, animations |-> << >>, channels |-> << >>]

(* What a stage can be: an attribute has finitely many keys, and no two    *)
(* animations are at one path.                                             *)
IsAttribute(attr) == IsFiniteSet(Keys(attr)) /\ Keys(attr) \subseteq Int

IsStage(stage) ==
  /\ DOMAIN stage = DOMAIN EmptyStage
  /\ stage.rate \in Int /\ stage.start \in Int
  /\ IsSequence(stage.skeletons) /\ IsSequence(stage.animations) /\ IsSequence(stage.channels)
  /\ \A s \in DOMAIN stage.skeletons :
       DOMAIN stage.skeletons[s] = {"path", "joints", "source", "rests"}
  /\ \A a \in DOMAIN stage.animations :
       LET animation == stage.animations[a]
       IN  /\ IsSequence(animation.joints)
           /\ IsAttribute(animation.rotations) /\ IsAttribute(animation.translations)
           /\ IsAttribute(animation.gaze)
           /\ \A b \in DOMAIN stage.animations : stage.animations[b].path = animation.path => b = a
  /\ \A c \in DOMAIN stage.channels : IsAttribute(stage.channels[c].value)

-----------------------------------------------------------------------------
(* Values both the reader and an exec node read by the same rule.          *)

Seconds(code, rate) == (code * StageRate) \div rate

Leaf(token)   == token[Len(token)]
BoneOf(token) == IF Leaf(token) \in HumanJoint THEN Leaf(token) ELSE NoBone

(* A joint named twice has the last one's value.                           *)
PlaceOf(joints, bone) == Max({i \in DOMAIN joints : BoneOf(joints[i]) = bone})

(* An array that does not match the joints contributes nothing.            *)
PoseFromStageSample(joints, rotations, translations, rate, code) ==
  LET named  == {BoneOf(joints[i]) : i \in DOMAIN joints} \ {NoBone}
      turned == IF Len(rotations) = Len(joints) THEN named ELSE {}
      placed == IF Len(translations) = Len(joints) THEN named ELSE {}
  IN  IF rate <= 0 THEN {}
      ELSE {[timestamp |-> IF code = {} THEN 0 ELSE Seconds(The(code), rate),
             rotations |-> [bone \in turned |-> rotations[PlaceOf(joints, bone)]],
             facing    |-> {rotations[PlaceOf(joints, bone)] : bone \in turned \cap {Hips}},
             place     |-> {translations[PlaceOf(joints, bone)] : bone \in placed \cap {Hips}},
             channels  |-> << >>, gaze |-> {}]}

-----------------------------------------------------------------------------
(* AuthorMotionStage.                                                      *)

TimeCodeFor(seconds) ==
  LET frame == ((seconds + Frame \div 2) \div Frame) * Frame
  IN  IF seconds - frame \in -Snap .. Snap THEN frame ELSE seconds

Code(clip, i)      == TimeCodeFor(clip.samples[i].timestamp)
Reported(clip)     == {i \in DOMAIN clip.samples : clip.samples[i].place # {}}
Observed(clip)     == UNION {DOMAIN clip.samples[i].rotations : i \in DOMAIN clip.samples}
ChannelNames(clip) == UNION {DOMAIN clip.samples[i].channels : i \in DOMAIN clip.samples}

(* The producer's rest, or identity over what was observed: the hips join  *)
(* when only the root was, at the first place reported.                    *)
RestOf(clip, stated) ==
  LET present == Observed(clip) \cup (IF Reported(clip) # {} THEN {Hips} ELSE {})
      first   == IF Reported(clip) = {} THEN Origin
                 ELSE The(clip.samples[Min(Reported(clip))].place)
  IN  IF stated # {} THEN The(stated)
      ELSE [rotations |-> [bone \in present |-> Unturned],
            places    |-> [bone \in present |-> IF bone = Hips THEN first ELSE Origin]]

Present(rest) == DOMAIN rest.rotations

(* Every check runs before anything is authored.                           *)
IsAuthorable(stage, clip, stated) ==
  /\ clip.samples # << >>
  /\ \A i \in DOMAIN stage.animations : stage.animations[i].path # "Body"
  /\ \A i \in DOMAIN clip.samples : clip.samples[i].timestamp # NonFinite
  /\ \A i \in DOMAIN clip.samples : i > 1 => Code(clip, i - 1) < Code(clip, i)
  /\ \A i \in DOMAIN clip.samples : NaN \notin clip.samples[i].gaze
  /\ stated # {} => {Hips} \cup Observed(clip) \subseteq Present(The(stated))
  /\ Present(RestOf(clip, stated)) # {}
  /\ \A m, n \in ChannelNames(clip) : PrimName[m] = PrimName[n] => m = n

(* A key at each sample that has a value.                                  *)
Keyframes(clip, value) ==
  [default |-> {},
   keys    |-> [code \in {Code(clip, i) : i \in DOMAIN value} |->
                  <<value[CHOOSE i \in DOMAIN value : Code(clip, i) = code]>>]]

Flat(attr) == [attr EXCEPT !.keys = [code \in DOMAIN @ |-> @[code][1]]]

(* A slip: a sample that reports no place stands at the rest.              *)
PlaceOrRest(clip, rest, i) ==
  IF i \in Reported(clip) THEN The(clip.samples[i].place) ELSE rest.places[Hips]

(* The place last reported, the rest's before any was.                     *)
HeldPlace(clip, rest, i) ==
  LET told == {k \in Reported(clip) : k <= i}
  IN  IF told = {} THEN rest.places[Hips] ELSE The(clip.samples[Max(told)].place)

AuthoredBody(clip, rest) ==
  LET bones   == Only(Vocabulary, Present(rest))
      turn(i) == LET turns == clip.samples[i].rotations
                 IN  [b \in DOMAIN bones |-> IF bones[b] \in DOMAIN turns THEN turns[bones[b]]
                                             ELSE rest.rotations[bones[b]]]
      move(i) == [b \in DOMAIN bones |-> IF bones[b] = Hips THEN HeldPlace(clip, rest, i)
                                         ELSE rest.places[bones[b]]]
      all     == DOMAIN clip.samples
      gazing  == {i \in all : clip.samples[i].gaze # {}}
  IN  [path         |-> "Body",
       joints       |-> [b \in DOMAIN bones |-> HumanJointPath(bones[b], Present(rest))],
       rotations    |-> Flat(Keyframes(clip, [i \in all |-> turn(i)])),
       translations |-> Flat(Keyframes(clip, [i \in all |-> move(i)])),
       gaze         |-> Keyframes(clip, [i \in gazing |-> The(clip.samples[i].gaze)]),
       rate         |-> {StageRate}, policy |-> NoPolicy]

AuthoredChannel(clip, name) ==
  LET carrying == {i \in DOMAIN clip.samples : name \in DOMAIN clip.samples[i].channels}
  IN  [name  |-> {name},
       value |-> Keyframes(clip, [i \in carrying |-> clip.samples[i].channels[name]])]

StartOf(clip) ==
  IF clip.endTime > clip.startTime THEN clip.startTime ELSE clip.samples[1].timestamp

Authored(stage, clip, stated) ==
  LET rest == RestOf(clip, stated)
      body == AuthoredBody(clip, rest)
      bone(b) == Leaf(body.joints[b])
      names == SetToSeq(ChannelNames(clip))
  IN  [rate       |-> StageRate, metric |-> TRUE, start |-> TimeCodeFor(StartOf(clip)),
       nominal    |-> {clip.nominal},
       skeletons  |-> Append(stage.skeletons,
                        [path |-> "Skeleton", joints |-> body.joints, source |-> {"Body"},
                         rests |-> [b \in DOMAIN body.joints |->
                                      <<rest.rotations[bone(b)], rest.places[bone(b)]>>]]),
       animations |-> Append(stage.animations, body),
       channels   |-> stage.channels \o [n \in DOMAIN names |-> AuthoredChannel(clip, names[n])]]

AuthorMotionStage(stage, clip, stated) ==
  IF IsAuthorable(stage, clip, stated) THEN {Authored(stage, clip, stated)} ELSE {}
=============================================================================

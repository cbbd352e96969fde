------------------------ MODULE MCRetargetValidation ------------------------
(***************************************************************************)
(* Four bones, a trunk of three and a leg, onto rigs of five joints: joint *)
(* 5 is the rig's own.  Hierarchies on both sides are also malformed.      *)
(***************************************************************************)
EXTENDS RetargetValidation

Spine == Bone("spine")
Chest == Bone("chest")
Leg   == <<"left", "upperLeg">>

SampleVocabulary == <<Hips, Spine, Chest, Leg>>

RestOf(hips, spine, chest, leg) ==
  [bone \in Bones |-> CASE bone = Hips -> hips [] bone = Spine -> spine
                        [] bone = Chest -> chest [] OTHER -> leg]

SampleRests ==
  {RestOf(NoBone, NoBone, NoBone, NoBone), RestOf(NoBone, Hips, Spine, Hips),
   RestOf(NoBone, Hips, Spine, Spine), RestOf(NoBone, Leg, Spine, Hips),
   RestOf(NoBone, Spine, Hips, Hips), RestOf(Chest, Hips, Spine, Chest),
   RestOf(NoBone, Outside, Spine, Hips)}

SampleSkeletons ==
  {<<0, 1, 2, 1, 0>>, <<0, 1, 1, 1, 1>>, <<0, 1, 2, 2, 3>>, <<0, 0, 2, 1, 1>>,
   <<0, 5, 2, 1, 1>>, <<0, 1, 9, 3, -1>>, <<2, 3, 4, 2, 1>>, <<0, 1, 2, 4, 1>>}

(* Calls of SetJointIndex, some against a rig of nine joints.              *)
MapOf(calls) ==
  FoldLeft(LAMBDA map, call : SetJointIndex(map, call[1], call[2], call[3]), NoMap, calls)

OwnJoint == <<<<Hips, 1, 5>>, <<Spine, 2, 5>>, <<Chest, 3, 5>>, <<Leg, 4, 5>>>>

SampleMaps ==
  {MapOf(SelectSeq(OwnJoint, LAMBDA call : call[1] \notin unbound)) : unbound \in SUBSET Bones}
    \cup {MapOf(<<<<Hips, 1, 5>>, <<Chest, 3, 5>>, <<Leg, 3, 5>>>>),
          MapOf(<<<<Hips, 1, 5>>, <<Chest, 7, 9>>, <<Leg, 4, 5>>>>),
          MapOf(<<<<Hips, 1, 5>>, <<Chest, 2, 5>>, <<Spine, 5, 5>>, <<Chest, 6, 5>>>>),
          MapOf(<<<<Hips, 1, 5>>, <<Spine, 5, 5>>, <<Chest, 3, 5>>>>)}

OptionSets ==
  {[fold |-> TRUE, reference |-> {}, required |-> <<Chest>>, rootMode |-> "hips", rootJoint |-> 0],
   [fold |-> TRUE, reference |-> {2, 3}, required |-> << >>, rootMode |-> "root", rootJoint |-> 9],
   [fold |-> FALSE, reference |-> {1, 5}, required |-> <<Hips, Leg>>, rootMode |-> "root", rootJoint |-> 5],
   [fold |-> FALSE, reference |-> {}, required |-> << >>, rootMode |-> "ignore", rootJoint |-> 0]}

SampleConfigurations ==
  [skeleton : SampleSkeletons, map : SampleMaps, rest : SampleRests, options : OptionSets]

PoseOf(turned, still, hasPosition) ==
  [valid       |-> turned \cup still,
   rotations   |-> [bone \in Bones |-> IF bone \in turned THEN Turn("pose", bone, 1) ELSE SourceRest(bone)],
   hasPosition |-> hasPosition]

SamplePoses ==
  {PoseOf(Bones, {}, TRUE), PoseOf({Spine}, {Hips}, FALSE), PoseOf({Hips, Chest}, {Spine}, TRUE),
   PoseOf({Chest, Leg}, {}, FALSE)}
=============================================================================

---------------------------- MODULE HumanJoints ----------------------------
(***************************************************************************)
(* The humanoid vocabulary of MotionPose.cpp (libs/motionCore): which bone *)
(* hangs under which, and what that says about a rig that has only some of *)
(* them.  A bone is a side and a part.                                     *)
(***************************************************************************)
EXTENDS Subsequences, SequencesExt

NoBone == << >>   \* std::nullopt

Bone(part) == <<"middle", part>>

Hips == Bone("hips")

Trunk == <<"hips", "spine", "chest", "upperChest", "neck", "head">>

Limbs(side) ==
  {<<Bone("hips"), <<side, "upperLeg">>, <<side, "lowerLeg">>, <<side, "foot">>, <<side, "toes">>>>,
   <<Bone("upperChest"), <<side, "shoulder">>, <<side, "upperArm">>, <<side, "lowerArm">>,
     <<side, "hand">>>>,
   <<Bone("head"), <<side, "eye">>>>,
   <<<<side, "hand">>, <<side, "thumbMetacarpal">>, <<side, "thumbProximal">>,
     <<side, "thumbDistal">>>>}
    \cup {<<<<side, "hand">>, <<side, finger, "proximal">>, <<side, finger, "intermediate">>,
            <<side, finger, "distal">>>> : finger \in {"index", "middle", "ring", "little"}}

Chains ==
  {[i \in DOMAIN Trunk |-> Bone(Trunk[i])], <<Bone("head"), Bone("jaw")>>}
    \cup Limbs("left") \cup Limbs("right")

HumanJoint == UNION {Range(chain) : chain \in Chains}

HumanJointParent ==
  [bone \in HumanJoint |->
     IF bone = Hips THEN NoBone
     ELSE LET place == CHOOSE p \in Chains \X (2 .. 6) :
                         p[2] \in DOMAIN p[1] /\ p[1][p[2]] = bone
          IN  place[1][place[2] - 1]]

(* The bones above a bone, nearest first.                                  *)
Lineage[bone \in HumanJoint] ==
  IF bone = Hips THEN << >>
  ELSE <<HumanJointParent[bone]>> \o Lineage[HumanJointParent[bone]]

(* What is above a bone is its parent and what is above that, up to the    *)
(* hips, above which there is nothing.                                     *)
LineageIsSound ==
  /\ NoBone \notin HumanJoint
  /\ Lineage[Hips] = << >>
  /\ \A bone \in HumanJoint :
       LET above == Lineage[bone]
       IN  /\ above \in Seq(HumanJoint)
           /\ \A n \in DOMAIN above : Lineage[above[n]] = SubSeq(above, n + 1, Len(above))
           /\ bone # Hips => Hips \in Range(above)

PresentLineage(bone, present) == Only(Lineage[bone], present)

NearestPresentAncestor(bone, present) ==
  LET above == PresentLineage(bone, present)
  IN  IF above = << >> THEN NoBone ELSE above[1]

(* HumanJointPath: from the topmost present bone down to this one.         *)
HumanJointPath(bone, present) == Append(Reverse(PresentLineage(bone, present)), bone)
=============================================================================

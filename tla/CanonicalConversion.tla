------------------------ MODULE CanonicalConversion ------------------------
(***************************************************************************)
(* CanonicalConversion.cpp (libs/motionSource): from a rig and a clip in a *)
(* producer's terms to canonical poses.                                    *)
(*                                                                         *)
(* Converting a rotation respects products (BasisIsAHandedIsometry of      *)
(* MotionConvert), so rotations are words over those the source states and *)
(* the turns the T-pose needs.  A translation is the list of vectors to    *)
(* add up, each with the rotation it is seen through.                      *)
(***************************************************************************)
EXTENDS SourceProfile, RotationWords

-----------------------------------------------------------------------------
(* The change of basis: canonical component i reads source component       *)
(* component[i], negated or not.                                           *)

PermutationSign(a, b, c) ==
  (IF a > b THEN -1 ELSE 1) * (IF b > c THEN -1 ELSE 1) * (IF a > c THEN -1 ELSE 1)

Sign(negative) == IF negative THEN -1 ELSE 1

(* A slip: the mirror a left-handed source needs is left out.              *)
UnmirroredBasis(profile) ==
  LET up      == profile.upAxis
      forward == profile.forwardAxis
      side    == 6 - up.component - forward.component
  IN  [component   |-> <<side, up.component, forward.component>>,
       sign        |-> <<PermutationSign(side, up.component, forward.component)
                           * Sign(up.negative) * Sign(forward.negative),
                         Sign(up.negative), Sign(forward.negative)>>,
       determinant |-> IF profile.handedness = "right" THEN 1 ELSE -1]

MakeCanonicalBasis(profile) ==
  LET up      == profile.upAxis
      forward == profile.forwardAxis
      side    == 6 - up.component - forward.component
      target  == IF profile.handedness = "right" THEN 1 ELSE -1
  IN  [component   |-> <<side, up.component, forward.component>>,
       sign        |-> <<target * PermutationSign(side, up.component, forward.component)
                           * Sign(up.negative) * Sign(forward.negative),
                         Sign(up.negative), Sign(forward.negative)>>,
       determinant |-> target]

ConvertPosition(basis, v) == [i \in 1 .. 3 |-> basis.sign[i] * v[basis.component[i]]]

(* A quaternion is <<x, y, z, w>>.                                         *)
ConvertRotation(basis, q) ==
  [i \in 1 .. 4 |-> IF i = 4 THEN q[4]
                    ELSE basis.determinant * basis.sign[i] * q[basis.component[i]]]

Multiply(a, b) ==
  <<a[4] * b[1] + a[1] * b[4] + a[2] * b[3] - a[3] * b[2],
    a[4] * b[2] - a[1] * b[3] + a[2] * b[4] + a[3] * b[1],
    a[4] * b[3] + a[1] * b[2] - a[2] * b[1] + a[3] * b[4],
    a[4] * b[4] - a[1] * b[1] - a[2] * b[2] - a[3] * b[3]>>

(* Each joint's own offset, in the frame the rotations above it establish. *)
Placed(path, rotations, offsets) ==
  [i \in DOMAIN path |->
     [through |-> Composed(SubSeq(path, 1, i - 1), rotations), by |-> offsets[path[i]]]]

-----------------------------------------------------------------------------
(* What a conversion works with: the bindings of a match both ways round,  *)
(* and one path per bound bone.                                            *)

(* A slip: a bound joint is its own path.                                  *)
OwnJointOnly(joints, j, bound) == <<j>>

(* From just below the nearest bound ancestor in the rig down to the joint,*)
(* or from the rig's root.                                                 *)
PathFromNearestBoundAncestor(joints, j, bound) ==
  LET up     == ParentWalk(joints, j)
      length == Min({k \in 1 .. Len(joints) : up[k] \in bound \cup {0}})
  IN  [i \in 1 .. length |-> up[length - i]]

Crossing(match, joints, animation, profile) ==
  LET present == {b.bone : b \in match.bound}
      jointOf == [bone \in present |-> JointBound(match.bound, bone)]
      carried == Range(jointOf)
  IN  [joints    |-> joints,
       animation |-> animation,
       profile   |-> profile,
       present   |-> present,
       jointOf   |-> jointOf,
       boneOf    |-> [j \in DOMAIN joints |->
                        IF j \in carried THEN CHOOSE bone \in present : jointOf[bone] = j
                        ELSE NoBone],
       path      |-> [bone \in present |->
                        PathFromNearestBoundAncestor(joints, jointOf[bone], carried)]]

DropsRoot(c, j) == j = 1 /\ c.profile.rootRotation = "none"

RootPath(c) == c.path[Hips]

HasRotation(c, j)    == c.animation.tracks[j].eulerAngles # << >>
HasTranslation(c, j) == c.animation.tracks[j].translations # << >>

SourceRotationAt(c, j, frame) ==
  IF HasRotation(c, j) THEN Turn("frame", j, frame) ELSE Identity

(* Whether anything on a bone's path says how it turns.                    *)
Rotated(c, bone) == \E j \in Range(c.path[bone]) : ~DropsRoot(c, j) /\ HasRotation(c, j)

(* A joint's translation at a frame: the sample, or the rest where there   *)
(* is none; on the root path a rest-relative sample is added to the rest.  *)
LocalTranslation(c, j, frame, rootPolicy) ==
  LET rest == c.joints[j].restTranslation
  IN  IF ~HasTranslation(c, j) THEN <<rest>>
      ELSE IF rootPolicy /\ c.profile.rootTranslation = "rest-relative"
           THEN <<rest, c.animation.tracks[j].translations[frame]>>
           ELSE <<c.animation.tracks[j].translations[frame]>>

-----------------------------------------------------------------------------
(* The rest pose.                                                          *)

TPoseDirections ==
  [up      |-> {Bone(part) : part \in {"hips", "spine", "chest", "upperChest", "neck", "head"}},
   left    |-> {<<"left", part>> : part \in {"shoulder", "upperArm", "lowerArm", "hand"}},
   right   |-> {<<"right", part>> : part \in {"shoulder", "upperArm", "lowerArm", "hand"}},
   down    |-> {"left", "right"} \X {"upperLeg", "lowerLeg"},
   forward |-> {"left", "right"} \X {"foot", "toes"}]

(* None for a bone the T-pose has no opinion about.                        *)
TPoseDirection(bone) ==
  LET pointing == {d \in DOMAIN TPoseDirections : bone \in TPoseDirections[d]}
  IN  IF pointing = {} THEN None ELSE CHOOSE d \in pointing : TRUE

(* The child that continues a bone: the only one, or the first whose own   *)
(* bone points the same way.                                               *)
Followers(c, j) ==
  LET children == ChildJoints(c.joints, j)
      agreeing == {k \in children : TPoseDirection(c.boneOf[k]) = TPoseDirection(c.boneOf[j])}
  IN  IF TPoseDirection(c.boneOf[j]) = None THEN {}
      ELSE IF Cardinality(children) = 1 THEN children
      ELSE IF agreeing = {} THEN {}
      ELSE {Min(agreeing)}

Aimed(c, j) == \E k \in Followers(c, j) : ~IsZeroTuple(c.joints[k].restTranslation)

Inherited(c, world, j) == IF j = 1 THEN Identity ELSE world[c.joints[j].parent]

AimedFrom(c, inherited, j) ==
  Times(Turn("aim", j, 0),
        IF c.animation.frameCount > 0 THEN Times(inherited, SourceRotationAt(c, j, 1))
        ELSE inherited)

(* A slip: a dropped root is aimed as any other joint is.                  *)
TPoseWorldFromTheRoot(c) ==
  LET world[j \in DOMAIN c.joints] ==
        IF ~Aimed(c, j) THEN Inherited(c, world, j)
        ELSE AimedFrom(c, Inherited(c, world, j), j)
  IN  world

(* Root first, so a parent is settled before the child stated in its frame.*)
TPoseWorld(c) ==
  LET world[j \in DOMAIN c.joints] ==
        IF DropsRoot(c, j) \/ ~Aimed(c, j) THEN Inherited(c, world, j)
        ELSE AimedFrom(c, Inherited(c, world, j), j)
  IN  world

RestRotation(c, j) ==
  IF DropsRoot(c, j) THEN Identity
  ELSE CASE c.profile.restPose = "rest-offsets" -> Identity
         [] c.profile.restPose = "stated-rest-rotations" ->
              IF c.joints[j].restRotation = None THEN Identity ELSE Turn("rest", j, 0)
         [] c.profile.restPose = "t-pose" ->
              Times(Inverted(Inherited(c, TPoseWorld(c), j)), TPoseWorld(c)[j])
         [] c.profile.restPose = "first-frame" ->
              IF c.animation.frameCount > 0 THEN SourceRotationAt(c, j, 1) ELSE Identity

(* A slip: the offsets of a rest taken from the first frame are the rig's. *)
StatedRestOffset(c, j) == <<c.joints[j].restTranslation>>

(* A rest taken from the first frame is taken from it entirely.            *)
RestOffset(c, j) ==
  IF c.profile.restPose = "first-frame" /\ c.animation.frameCount > 0
  THEN LocalTranslation(c, j, 1, j \in Range(RootPath(c)))
  ELSE <<c.joints[j].restTranslation>>

RestPose(c) ==
  LET rotations == [j \in DOMAIN c.joints |-> RestRotation(c, j)]
      offsets   == [j \in DOMAIN c.joints |-> RestOffset(c, j)]
  IN  [localRotations    |-> [bone \in c.present |-> Composed(c.path[bone], rotations)],
       localTranslations |-> [bone \in c.present |-> Placed(c.path[bone], rotations, offsets)]]

-----------------------------------------------------------------------------
(* The report and the frames.                                              *)

(* A slip: only the hips' own translation is taken for carried.            *)
CarriedByTheHips(c, j) == j = c.jointOf[Hips] /\ c.profile.rootTranslation # "none"

CarriesTranslation(c, j) == j \in Range(RootPath(c)) /\ c.profile.rootTranslation # "none"

RestatesTheRest(c, j) == Range(c.animation.tracks[j].translations) = {c.joints[j].restTranslation}

Report(c) ==
  LET lost == {j \in DOMAIN c.joints : HasTranslation(c, j) /\ ~CarriesTranslation(c, j)}
  IN  [composed |-> {bone \in c.present : Len(c.path[bone]) > 1},
       restated |-> {j \in lost : RestatesTheRest(c, j)},
       dropped  |-> {j \in lost : ~RestatesTheRest(c, j)}]

(* Where nothing moves the body, a frame has no position: no vectors.      *)
PoseAt(c, frame) ==
  LET rotations == [j \in DOMAIN c.joints |->
                      IF DropsRoot(c, j) THEN Identity ELSE SourceRotationAt(c, j, frame)]
      offsets   == [j \in DOMAIN c.joints |-> LocalTranslation(c, j, frame, TRUE)]
      placed    == /\ c.profile.rootTranslation # "none"
                   /\ \E j \in Range(RootPath(c)) : HasTranslation(c, j)
  IN  [timestamp        |-> FrameInstant(c.animation, frame),
       localRotations   |-> [bone \in c.present |-> Composed(c.path[bone], rotations)],
       valid            |-> {bone \in c.present : Rotated(c, bone)},
       worldPosition    |-> IF placed THEN Placed(RootPath(c), rotations, offsets) ELSE << >>,
       worldOrientation |-> IF c.profile.rootRotation = "none" THEN None
                            ELSE Composed(RootPath(c), rotations)]

ConversionRefusal(joints, animation, profile) ==
  IF MatchSourceProfile(profile, joints).refusal # None THEN "profile-mismatch"
  ELSE IF ~AnimationIsValid(animation, joints) THEN "animation-invalid"
  ELSE IF \E j \in DOMAIN animation.tracks : animation.tracks[j].rotations # << >>
       THEN "unsupported-rotation-form"
  ELSE None

(* ConvertSourceToCanonical.                                               *)
Converted(joints, animation, profile) ==
  LET match == MatchSourceProfile(profile, joints)
      c     == Crossing(match, joints, animation, profile)
  IN  [match   |-> match,
       rest    |-> RestPose(c),
       report  |-> Report(c),
       samples |-> [frame \in 1 .. animation.frameCount |-> PoseAt(c, frame)],
       profileId |-> profile.id]
=============================================================================

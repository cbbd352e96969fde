-------------------------- MODULE MCMotionConvert --------------------------
(***************************************************************************)
(* Rigs of four joints under every parent relation, profiles that put the  *)
(* hips on the root or below it and any of three more bones elsewhere, and *)
(* clips whose tracks say more or less.                                    *)
(***************************************************************************)
EXTENDS MotionConvert

Vector(what, j, f) == <<Number(<<what, j, f>>, "finite")>>
ZeroVector == <<Number(<<"zero">>, "zero")>>

Joint(name, parent, j) ==
  [name |-> name, parent |-> parent, restTranslation |-> Vector("rest", j, 0),
   restRotation |-> IF j = 2 THEN None ELSE Vector("turn", j, 0), tipOffset |-> None]

JointNames == <<"J1", "J2", "J3", "J4">>

ParentLists == {<<0, 1, p, q>> : p \in 1 .. 2, q \in 1 .. 3}

RigOf(parents, names) == [j \in 1 .. 4 |-> Joint(names[j], parents[j], j)]

PlainRigs == {RigOf(parents, JointNames) : parents \in ParentLists}

(* A mapped name twice, a missing one, another root, an offset that is     *)
(* zero, and a parent that comes after its child.                          *)
OddRigs ==
  {RigOf(<<0, 1, 2, 3>>, names) :
     names \in {<<"J1", "J2", "J2", "J4">>, <<"J1", "J2", "J3", "other">>, <<"J0", "J2", "J3", "J4">>}}
  \cup {[RigOf(<<0, 1, 1, 2>>, JointNames) EXCEPT ![2].restTranslation = ZeroVector],
        RigOf(<<0, 1, 4, 1>>, JointNames)}

Track(j, frames, turns, moves, restates) ==
  [NoTrack EXCEPT
     !.eulerAngles  = IF j \in turns THEN [f \in 1 .. frames |-> Vector("angles", j, f)] ELSE << >>,
     !.translations = IF j \in moves THEN [f \in 1 .. frames |-> Vector("sample", j, f)]
                      ELSE IF j \in restates THEN [f \in 1 .. frames |-> Vector("rest", j, 0)]
                      ELSE << >>]

Clip(frames, turns, moves, restates) ==
  [frameCount |-> frames, frameTime |-> 1, startTime |-> 0,
   tracks |-> [j \in 1 .. 4 |-> Track(j, frames, turns, moves, restates)]]

Clips ==
  {Clip(2, 1 .. 4, {1, 2}, {3}), Clip(1, {1}, {}, {1, 4}), Clip(2, {3, 4}, {2, 3}, {4}),
   Clip(0, {}, {}, {})}

OddClips ==
  {[Clip(1, {1}, {1}, {}) EXCEPT !.tracks[2].rotations = <<Vector("quaternion", 2, 1)>>],
   [Clip(1, {1}, {1}, {}) EXCEPT !.frameCount = 2]}

SampleImports ==
  {None}
    \cup {[joints |-> rig, animation |-> clip] : rig \in PlainRigs, clip \in Clips}
    \cup {[joints |-> rig, animation |-> Clip(2, 1 .. 4, {1}, {})] : rig \in OddRigs}
    \cup {[joints |-> RigOf(<<0, 1, 2, 3>>, JointNames), animation |-> clip] : clip \in OddClips}

-----------------------------------------------------------------------------
Bones == {Hips, Bone("chest"), Bone("neck"), <<"left", "shoulder">>}

(* Which bone each joint carries: the hips on J1 or J2, no bone twice.     *)
Assignments ==
  {a \in [1 .. 4 -> Bones \cup {NoBone}] :
     /\ a[1] = Hips \/ (a[1] = NoBone /\ a[2] = Hips)
     /\ \A i, j \in 1 .. 4 : a[i] = a[j] /\ a[i] # NoBone => i = j}

MappingsOf(a) ==
  LET mapped == SelectSeq(<<1, 2, 3, 4>>, LAMBDA j : a[j] # NoBone)
  IN  [i \in DOMAIN mapped |-> Mapping(JointNames[mapped[i]], a[mapped[i]], a[mapped[i]] \in {Hips, Bone("neck")})]

ProfileOf(a, translation, rotation, rest) ==
  [id |-> "rig", producer |-> "studio", rootJoint |-> "J1",
   handedness |-> "right", upAxis |-> Axis(2, FALSE), forwardAxis |-> Axis(3, FALSE),
   translationUnit |-> "centimeters", rootTranslation |-> translation, rootRotation |-> rotation,
   restPose |-> rest, unmappedJoints |-> "ignore", joints |-> MappingsOf(a), ignoredJoints |-> << >>]

PlainProfiles ==
  {ProfileOf(a, translation, rotation, rest) :
     a \in Assignments, translation \in {"absolute-position", "rest-relative", "none"},
     rotation \in {"body-orientation", "none"},
     rest \in RestPoseSources}

Usual == ProfileOf(<<Hips, Bone("chest"), NoBone, NoBone>>, "absolute-position", "none", "first-frame")

(* Every convention, stated or not, and what else a profile may get wrong. *)
OddProfiles ==
  {[Usual EXCEPT !.handedness = h, !.upAxis = up, !.forwardAxis = forward] :
     h \in {"right", "left", Unspecified}, up \in Axes \cup {None}, forward \in {Axis(1, TRUE), Axis(2, FALSE), Axis(3, FALSE)}}
  \cup {[Usual EXCEPT !.unmappedJoints = "refuse"],
        [Usual EXCEPT !.unmappedJoints = "refuse", !.ignoredJoints = <<"J3", "J4">>],
        [Usual EXCEPT !.ignoredJoints = <<"J1">>],
        [Usual EXCEPT !.joints[1].required = FALSE],
        [Usual EXCEPT !.rootRotation = Unspecified],
        [Usual EXCEPT !.restPose = Unspecified],
        [Usual EXCEPT !.translationUnit = "inches"],
        [Usual EXCEPT !.translationUnit = Unspecified],
        [Usual EXCEPT !.id = "renamed"]}

SampleRequests == {[text |-> "rig", isPath |-> FALSE], [text |-> "rig.yaml", isPath |-> TRUE],
                   [text |-> "", isPath |-> FALSE]}

SampleLibraries ==
  {<<p, None>> : p \in PlainProfiles \cup OddProfiles}
    \cup {<<None, Usual>>, <<[Usual EXCEPT !.id = "renamed"], Usual>>, <<None, None>>}
=============================================================================

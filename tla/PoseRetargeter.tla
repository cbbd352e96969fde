--------------------------- MODULE PoseRetargeter ---------------------------
(***************************************************************************)
(* motionRetarget: canonical poses expanded onto a target rig, joint by    *)
(* joint (PoseRetargeter.cpp, RestPose.cpp, RetargetMap.cpp).  The rest    *)
(* poses of the two sides, and what each pose states, are words over       *)
(* rotations nobody knows.  A rig's joints count from 1; parent 0 is none. *)
(***************************************************************************)
EXTENDS HumanJoints, RotationWords, FiniteSets, TLC

CONSTANTS
  Absent,          \* no retargeter, pose or result yet
  Vocabulary,      \* the bones, in HumanJoint order
  Configurations,  \* what a retargeter may be built from
  Poses            \* the poses it may be given

Bones == Range(Vocabulary)

(* The vocabulary, a rig's joints and the required bones are lists, a map  *)
(* takes bones to places and a rest to their parents, a root mode is one   *)
(* of three, and a pose drives bones and has a rotation in each slot.      *)
ASSUME RetargetAssumption ==
  /\ IsSequence(Vocabulary) /\ NoBone \notin Bones
  /\ \A c \in Configurations :
       /\ IsSequence(c.skeleton) /\ c.map \in [Bones -> Nat] /\ DOMAIN c.rest = Bones
       /\ IsSequence(c.options.required) /\ c.options.rootMode \in {"hips", "root", "ignore"}
  /\ \A p \in Poses :
       p.valid \subseteq Bones /\ DOMAIN p.rotations = Bones /\ \A b \in Bones : IsWord(p.rotations[b])

Outside == <<"outside">>   \* a parent beyond the vocabulary

VARIABLES
  rig,          \* the retargeter, Absent before it is built: the rig's parents, the map, the
                \* source's parents, the options and the fold plan
  pose,         \* the last pose retargeted
  result,       \* and what became of it
  diagnostics   \* the caller's list, shared by every call

retargetVars == <<rig, pose, result, diagnostics>>

-----------------------------------------------------------------------------
(* RetargetMap.  A rejected index unmaps its bone.                         *)

NoMap == [bone \in Bones |-> 0]

SetJointIndex(map, bone, index, jointCount) ==
  [map EXCEPT ![bone] = IF index \in 1 .. jointCount THEN index ELSE 0]

DuplicateJoints(map) ==
  {index \in Range(map) \ {0} : Cardinality({bone \in Bones : map[bone] = index}) > 1}

(* Bound in this rig, which need not be the rig the map was made for.      *)
Bound(r, bone) == r.map[bone] \in DOMAIN r.skeleton

-----------------------------------------------------------------------------
(* Rest poses.                                                             *)

SourceRest(bone) == Turn("source", bone, 0)

(* The rest the rig states, and the one rotations are corrected to.        *)
TargetRest(joint) == Turn("target", joint, 0)
ReferenceRest(r, joint) ==
  IF joint \in r.options.reference THEN Turn("reference", joint, 0) ELSE TargetRest(joint)

(* At most count steps up a parent relation, from a place on.  The walk    *)
(* stops where it leaves the known places.                                 *)
Up(parents, place) == IF place \in DOMAIN parents THEN parents[place] ELSE place

Walk(parents, from, count) ==
  LET up[k \in 0 .. count] == IF k = 0 THEN from ELSE Up(parents, up[k - 1])
  IN  up

Climb(parents, from, count) ==
  LET up   == Walk(parents, from, count)
      left == {k \in 0 .. count : up[k] \notin DOMAIN parents}
  IN  [k \in 1 .. (IF left = {} THEN count ELSE Min(left)) |-> up[k - 1]]

SourceChain(rest, bone) == Climb(rest, bone, Len(Vocabulary))

(* Itself first, and no longer than the rig however its parents are linked.*)
RigChain(skeleton, joint) == Climb(skeleton, joint, Len(skeleton))

(* A slip: the parent's own rest, where the accumulated one is needed.     *)
SourceLocalRest(rest, bone) == IF bone \in Bones THEN SourceRest(bone) ELSE Identity

SourceWorldRest(rest, bone) ==
  Composed(Reverse(SourceChain(rest, bone)), [b \in Bones |-> SourceRest(b)])

TargetWorldRest(r, joint) ==
  Composed(Reverse(RigChain(r.skeleton, joint)),
           [j \in DOMAIN r.skeleton |-> ReferenceRest(r, j)])

(* ComputeRestPoseCorrection and Apply.                                    *)
Corrected(r, bone, rotation) ==
  LET joint        == r.map[bone]
      sourceParent == SourceWorldRest(r.rest, r.rest[bone])
      targetParent == TargetWorldRest(r, r.skeleton[joint])
      pre  == Times(Inverted(targetParent), sourceParent)
      post == Times(Times(Inverted(SourceRest(bone)), Inverted(sourceParent)),
                    Times(targetParent, ReferenceRest(r, joint)))
  IN  Times(Times(pre, rotation), post)

-----------------------------------------------------------------------------
(* Folding the rotations of unbound bones into a bone above them.          *)

IsTopologicallyOrdered(skeleton) == \A j \in DOMAIN skeleton : skeleton[j] \in 0 .. j - 1

ChainEnds(rest, bone) == \E b \in Range(SourceChain(rest, bone)) : rest[b] = NoBone

(* The first bone above this one that a set holds, if the chain meets one. *)
FirstAbove(rest, bone, held) ==
  LET above == Only(Tail(SourceChain(rest, bone)), held)
  IN  IF above = << >> THEN NoBone ELSE Head(above)

BoundBones(r) == {bone \in Bones : Bound(r, bone)}

Receiver(r, bone) == FirstAbove(r.rest, bone, BoundBones(r))

FirstBoundBelow(r, bone) ==
  {child \in BoundBones(r) :
     ChainEnds(r.rest, child) /\ FirstAbove(r.rest, child, BoundBones(r) \cup {bone}) = bone}

Qualifies(r, bone) ==
  /\ ~Bound(r, bone)
  /\ ChainEnds(r.rest, bone)
  /\ Receiver(r, bone) # NoBone
  /\ FirstBoundBelow(r, bone) # {}
  /\ \A child \in FirstBoundBelow(r, bone) :
       r.map[Receiver(r, bone)] \in Range(Tail(RigChain(r.skeleton, r.map[child])))

(* Every bone between this one and its receiver must qualify itself.       *)
ReachesItsReceiver(r, bone) ==
  \A between \in Range(SourceChain(r.rest, bone)) :
    Receiver(r, bone) \in Range(Tail(SourceChain(r.rest, between))) /\ between # Receiver(r, bone)
      => Qualifies(r, between)

(* Those at most n deep, the deepest first and equals in vocabulary order. *)
DeepestFirst(r, bones) ==
  LET sorted[n \in 0 .. Len(Vocabulary)] ==
        IF n = 0 THEN << >>
        ELSE Only(Vocabulary, {bone \in bones : Len(SourceChain(r.rest, bone)) = n}) \o sorted[n - 1]
  IN  sorted[Len(Vocabulary)]

(* _BuildFoldPlan.  A map or a hierarchy that does not say where a rotation*)
(* belongs folds nothing.                                                  *)
FoldPlan(r) ==
  LET safe == /\ DuplicateJoints(r.map) = {}
              /\ IsTopologicallyOrdered(r.skeleton)
              /\ \A bone \in Bones : r.map[bone] # 0 => Bound(r, bone)
  IN  IF ~r.options.fold \/ ~safe THEN << >>
      ELSE DeepestFirst(r, {bone \in Bones : Qualifies(r, bone) /\ ReachesItsReceiver(r, bone)})

(* One fold: the turn away from rest goes to the parent, which starts from *)
(* its own rest if the pose does not drive it.                             *)
FoldOne(r, p, bone) ==
  LET above == r.rest[bone]
      base  == IF above \in p.valid THEN p.rotations[above] ELSE SourceRest(above)
      turn  == Times(p.rotations[bone], Inverted(SourceRest(bone)))
  IN  IF bone \notin p.valid THEN p
      ELSE [valid     |-> IF turn = Identity THEN p.valid ELSE p.valid \cup {above},
            rotations |-> [p.rotations EXCEPT
                             ![bone]  = SourceRest(bone),
                             ![above] = IF turn = Identity THEN @ ELSE Times(base, turn)]]

FoldedPose(r, p) ==
  LET folded[n \in 0 .. Len(r.folds)] ==
        IF n = 0 THEN [valid |-> p.valid, rotations |-> p.rotations]
        ELSE FoldOne(r, folded[n - 1], r.folds[n])
  IN  folded[Len(r.folds)]

-----------------------------------------------------------------------------
(* Diagnostics: a code and a subject are reported once.                    *)

Diagnostic(code, subject) == [code |-> code, subject |-> subject]

(* A slip: a code already reported hides it for every other subject.       *)
ReportedByCode(list, report) ==
  IF \E i \in DOMAIN list : list[i].code = report.code THEN list ELSE Append(list, report)

Reported(list, report) == IF report \in Range(list) THEN list ELSE Append(list, report)

ReportedAll(list, reports) ==
  LET upTo[n \in 0 .. Len(reports)] ==
        IF n = 0 THEN list ELSE Reported(upTo[n - 1], reports[n])
  IN  upTo[Len(reports)]

RootJointIsValid(r) == r.options.rootJoint \in DOMAIN r.skeleton

RootReceiver(r) ==
  CASE r.options.rootMode = "hips" -> IF Bound(r, Hips) THEN r.map[Hips] ELSE 0
    [] r.options.rootMode = "root" -> IF RootJointIsValid(r) THEN r.options.rootJoint ELSE 0
    [] OTHER -> 0

RootReports(r) ==
  IF r.options.rootMode = "ignore" \/ RootReceiver(r) # 0 THEN << >>
  ELSE IF r.options.rootMode = "hips" THEN <<Diagnostic("missing-required-bone", Hips)>>
  ELSE <<Diagnostic("invalid-root-joint", <<r.options.rootJoint>>)>>

(* DiagnoseRig: what every retarget onto this rig has against it.          *)
RigReports(r) ==
  LET hips     == IF r.options.rootMode = "hips" /\ Hips \notin Range(r.options.required)
                  THEN <<Hips>> ELSE << >>
      missing  == Only(hips \o r.options.required, {bone \in Bones : ~Bound(r, bone)})
      shared   == InOrder(DuplicateJoints(r.map))
      unsorted == {j \in DOMAIN r.skeleton : r.skeleton[j] \notin 0 .. j - 1}
  IN  [i \in DOMAIN missing |-> Diagnostic("missing-required-bone", missing[i])]
        \o [i \in DOMAIN shared |-> Diagnostic("duplicate-target", <<shared[i]>>)]
        \o (IF unsorted = {} THEN << >> ELSE <<Diagnostic("invalid-hierarchy", <<Min(unsorted)>>)>>)
        \o (IF r.options.rootMode = "root" /\ ~RootJointIsValid(r)
            THEN <<Diagnostic("invalid-root-joint", <<r.options.rootJoint>>)>> ELSE << >>)

-----------------------------------------------------------------------------
(* Retarget, on one pose.                                                  *)

(* Bones in vocabulary order: of two on one joint, the last is kept.       *)
Rotations(r, p) ==
  LET driving(joint) == {i \in DOMAIN Vocabulary :
                           Vocabulary[i] \in p.valid /\ r.map[Vocabulary[i]] = joint}
      driver(joint)  == Vocabulary[Max(driving(joint))]
  IN  [joint \in DOMAIN r.skeleton |->
         IF driving(joint) = {} THEN TargetRest(joint)
         ELSE Corrected(r, driver(joint), p.rotations[driver(joint)])]

(* A slip: a root joint that is not there leaves the root to the hips.     *)
MovedAnyway(r, p) ==
  IF p.hasPosition /\ r.options.rootMode # "ignore" /\ Bound(r, Hips) THEN {r.map[Hips]} ELSE {}

(* The joints the body's translation lands on.                             *)
Moved(r, p) == IF p.hasPosition /\ RootReceiver(r) # 0 THEN {RootReceiver(r)} ELSE {}

PoseReports(r, p) ==
  LET unbound == Only(Vocabulary, {bone \in p.valid : ~Bound(r, bone)})
  IN  [i \in DOMAIN unbound |-> Diagnostic("unbound-driven-bone", unbound[i])] \o RootReports(r)

RetargetInit ==
  /\ rig = Absent
  /\ pose = Absent
  /\ result = Absent
  /\ diagnostics = << >>

(* The constructor: the correction and the fold plan are computed once.    *)
Build(configuration) ==
  /\ rig = Absent
  /\ rig' = [skeleton |-> configuration.skeleton, map |-> configuration.map,
             rest |-> configuration.rest, options |-> configuration.options,
             folds |-> FoldPlan(configuration)]
  /\ UNCHANGED <<pose, result, diagnostics>>

(* The clip overload reports the rig before its first sample; a caller of  *)
(* single poses may, or may not.                                           *)
Diagnose ==
  /\ rig # Absent /\ pose = Absent
  /\ diagnostics' = ReportedAll(diagnostics, RigReports(rig))
  /\ UNCHANGED <<rig, pose, result>>

Retarget(p) ==
  /\ rig # Absent
  /\ pose' = p
  /\ result' = [rotations |-> Rotations(rig, FoldedPose(rig, p)), moved |-> Moved(rig, p)]
  /\ diagnostics' = ReportedAll(diagnostics, PoseReports(rig, p))
  /\ UNCHANGED rig

RetargetNext ==
  \/ \E configuration \in Configurations : Build(configuration)
  \/ Diagnose
  \/ \E p \in Poses : Retarget(p)

RetargetSpec == RetargetInit /\ [][RetargetNext]_retargetVars
=============================================================================

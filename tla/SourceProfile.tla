--------------------------- MODULE SourceProfile ---------------------------
(***************************************************************************)
(* SourceProfile.cpp (libs/motionSource): what a profile says of a         *)
(* producer's rigs, when it says enough to be used, and how it is matched  *)
(* with one rig.  A setting it does not state is Unspecified.              *)
(***************************************************************************)
EXTENDS SourceRig, HumanJoints

ASSUME LineageAssumption == LineageIsSound

Unspecified == "unspecified"

Axis(component, negative) == [component |-> component, negative |-> negative]
Axes == [component : 1 .. 3, negative : BOOLEAN]

Mapping(name, bone, required) == [sourceName |-> name, bone |-> bone, required |-> required]

FindMapping(profile, name) == {m \in DOMAIN profile.joints : profile.joints[m].sourceName = name}

IgnoresJoint(profile, name) == \E i \in DOMAIN profile.ignoredJoints : profile.ignoredJoints[i] = name

StatesItsConventions(profile) ==
  /\ profile.handedness \in {"right", "left"}
  /\ profile.upAxis # None
  /\ profile.forwardAxis # None
  /\ profile.upAxis.component # profile.forwardAxis.component
  /\ profile.translationUnit \in {"meters", "centimeters", "millimeters", "inches"}

(* Where a profile may take the rest from.                                 *)
RestPoseSources == {"rest-offsets", "stated-rest-rotations", "t-pose", "first-frame"}

StatesItsPolicies(profile) ==
  /\ profile.rootTranslation \in {"absolute-position", "rest-relative", "none"}
  /\ profile.rootRotation \in {"body-orientation", "none"}
  /\ profile.restPose \in RestPoseSources
  /\ profile.unmappedJoints \in {"ignore", "report", "refuse"}

(* No name and no bone twice, and nothing both mapped and ignored.         *)
MapsEachJointOnce(profile) ==
  /\ profile.joints # << >>
  /\ \A m \in DOMAIN profile.joints :
       LET mapping == profile.joints[m]
       IN  /\ mapping.sourceName # ""
           /\ mapping.bone \in HumanJoint
           /\ FindMapping(profile, mapping.sourceName) = {m}
           /\ \A n \in DOMAIN profile.joints : profile.joints[n].bone = mapping.bone => n = m
           /\ ~IgnoresJoint(profile, mapping.sourceName)

(* ValidateSourceProfile.                                                  *)
ProfileIsValid(profile) ==
  /\ "" \notin {profile.id, profile.producer, profile.rootJoint}
  /\ StatesItsConventions(profile)
  /\ StatesItsPolicies(profile)
  /\ MapsEachJointOnce(profile)
  /\ "" \notin Range(profile.ignoredJoints)
  /\ IsInjective(profile.ignoredJoints)
  /\ \E m \in DOMAIN profile.joints : profile.joints[m].bone = Hips /\ profile.joints[m].required

-----------------------------------------------------------------------------
(* MatchSourceProfile.                                                     *)

IsAncestorJoint(joints, ancestor, descendant) ==
  \E k \in 1 .. Len(joints) :
    /\ ParentWalk(joints, descendant)[k] = ancestor
    /\ \A i \in 0 .. k - 1 : ParentWalk(joints, descendant)[i] \in DOMAIN joints

(* The mappings whose name the rig carries so many times.                  *)
Finds(profile, joints, counts) ==
  {m \in Range(profile.joints) : Cardinality(JointsNamed(joints, m.sourceName)) \in counts}

Binding(joints, mapping) ==
  [bone |-> mapping.bone, joint |-> CHOOSE j \in JointsNamed(joints, mapping.sourceName) : TRUE,
   required |-> mapping.required]

JointBound(bound, bone) == (CHOOSE b \in bound : b.bone = bone).joint

(* A bound bone sits under its nearest bound ancestor.                     *)
SitsUnderItsAncestor(joints, bound, binding) ==
  LET above == NearestPresentAncestor(binding.bone, {b.bone : b \in bound})
  IN  above # NoBone => IsAncestorJoint(joints, JointBound(bound, above), binding.joint)

UnmappedJoints(profile, joints) ==
  {j \in DOMAIN joints : FindMapping(profile, joints[j].name) = {}
                           /\ ~IgnoresJoint(profile, joints[j].name)}

(* Everything that can be counted is, and then the first refusal wins.     *)
MatchSourceProfile(profile, joints) ==
  LET bound    == {Binding(joints, m) : m \in Finds(profile, joints, {1})}
      missing  == Finds(profile, joints, {0})
      repeated == Finds(profile, joints, 2 .. Len(joints))
      unmapped == UnmappedJoints(profile, joints)
      rooted   == joints # << >> /\ joints[1].name = profile.rootJoint
  IN  [bound       |-> bound,
       rootMatched |-> rooted,
       missing     |-> missing,
       unmapped    |-> unmapped,
       refusal |->
         IF ~ProfileIsValid(profile) THEN "profile-invalid"
         ELSE IF ~SkeletonIsValid(joints) THEN "skeleton-invalid"
         ELSE IF ~rooted THEN "root-joint-mismatch"
         ELSE IF repeated # {} THEN "ambiguous-joint-name"
         ELSE IF \E m \in missing : m.required THEN "required-joint-missing"
         ELSE IF \E b \in bound : ~SitsUnderItsAncestor(joints, bound, b)
              THEN "hierarchy-mismatch"
         ELSE IF unmapped # {} /\ profile.unmappedJoints = "refuse"
              THEN "unmapped-joint-refused"
         ELSE None]
=============================================================================

--------------------------- MODULE MotionConvert ---------------------------
(***************************************************************************)
(* tools/motionConvert: the motion_convert program around the conversion.  *)
(* It finds and reads a profile, then reads a file into a rig and a clip,  *)
(* converts them and writes a stage; the first of the four that fails      *)
(* ends it.                                                                *)
(***************************************************************************)
EXTENDS CanonicalConversion

CONSTANTS
  Requests,    \* what --profile may name: [text, isPath]
  Libraries,   \* what the directories of the search path hold for a request, in order
  Imports      \* what reading the input may give: a rig and a clip, or None

(* A search path is a list of directories, and an axis a profile states is *)
(* one of the six.                                                         *)
ASSUME LibrariesAssumption ==
  \A library \in Libraries :
    /\ Len(library) \in Nat
    /\ DOMAIN library = 1 .. Len(library)
    /\ \A i \in DOMAIN library : library[i] # None =>
         library[i].upAxis \in Axes \cup {None} /\ library[i].forwardAxis \in Axes \cup {None}

(* Joints are a vector, and a frame count is a std::size_t.                *)
ASSUME ImportsAssumption ==
  \A source \in Imports \ {None} :
    /\ Len(source.joints) \in Nat
    /\ DOMAIN source.joints = 1 .. Len(source.joints)
    /\ source.animation.frameCount \in Nat

(* Nothing refused is none of the refusals.                                *)
ASSUME RefusalAssumption ==
  None \notin {"profile-invalid", "skeleton-invalid", "root-joint-mismatch", "ambiguous-joint-name",
               "required-joint-missing", "hierarchy-mismatch", "unmapped-joint-refused",
               "profile-mismatch", "animation-invalid", "unsupported-rotation-form"}

VARIABLES
  stage,        \* "start", "profiled", "imported", "converted", "done"
  request, profile,
  imported,     \* skeleton and animation
  conversion,   \* the result of the crossing
  output,       \* the clip the output file holds, None until one is written
  exitCode

convertVars == <<stage, request, profile, imported, conversion, output, exitCode>>

Init ==
  /\ stage = "start"
  /\ request = None
  /\ profile = None
  /\ imported = None
  /\ conversion = None
  /\ output = None
  /\ exitCode = None

Exit(code) == stage' = "done" /\ exitCode' = code

(* ResolveProfilePath: a path is the file it names and no other; an id is  *)
(* the first file of its name along the search path.                       *)
Located(asked, library) ==
  LET hits == {i \in DOMAIN library : library[i] # None /\ (asked.isPath => i = 1)}
  IN  IF hits = {} THEN None ELSE library[Min(hits)]

StatesTheIdAskedFor(asked, found) == asked.isPath \/ found.id = asked.text

(* The profile comes first, whatever the input turns out to be.            *)
ReadProfile(asked, library) ==
  /\ stage = "start"
  /\ LET found == Located(asked, library)
     IN  IF asked.text # "" /\ found # None /\ ProfileIsValid(found) /\ StatesTheIdAskedFor(asked, found)
         THEN /\ stage' = "profiled"
              /\ request' = asked
              /\ profile' = found
              /\ UNCHANGED exitCode
         ELSE Exit(2) /\ UNCHANGED <<request, profile>>
  /\ UNCHANGED <<imported, conversion, output>>

(* ParseBvhFile and ExtractBvhSource, which BvhImport models.              *)
ReadInput(source) ==
  /\ stage = "profiled"
  /\ IF source = None
     THEN Exit(1) /\ UNCHANGED imported
     ELSE stage' = "imported" /\ imported' = source /\ UNCHANGED exitCode
  /\ UNCHANGED <<request, profile, conversion, output>>

Convert ==
  /\ stage = "imported"
  /\ IF ConversionRefusal(imported.joints, imported.animation, profile) # None
     THEN Exit(1) /\ UNCHANGED conversion
     ELSE /\ conversion' = Converted(imported.joints, imported.animation, profile)
          /\ stage' = "converted"
          /\ UNCHANGED exitCode
  /\ UNCHANGED <<request, profile, imported, output>>

(* WriteSemanticClip.  The stage itself may refuse to be written.          *)
Write(writable) ==
  /\ stage = "converted"
  /\ IF conversion.samples # << >> /\ writable
     THEN /\ output' = [samples |-> conversion.samples, rest |-> conversion.rest,
                        profileId |-> conversion.profileId]
          /\ Exit(0)
     ELSE Exit(1) /\ UNCHANGED output
  /\ UNCHANGED <<request, profile, imported, conversion>>

Next ==
  \/ \E asked \in Requests, library \in Libraries : ReadProfile(asked, library)
  \/ \E source \in Imports : ReadInput(source)
  \/ Convert
  \/ \E writable \in BOOLEAN : Write(writable)

Spec == Init /\ [][Next]_convertVars

-----------------------------------------------------------------------------
(* Properties.                                                             *)

IsConverted == stage = "converted"

Work == Crossing(conversion.match, imported.joints, imported.animation, profile)

(* The rig's joints from its root down to joint j.                         *)
RigPath(j) ==
  LET up     == ParentWalk(imported.joints, j)
      length == SourceDepth(imported.joints, j) + 1
  IN  [i \in 1 .. length |-> up[length - i]]

(* How a bone is turned in the body, by whoever reads the canonical pose:  *)
(* the local rotations of the present bones above it, and its own.         *)
BodyOrientation(localRotations, bone) ==
  Composed(HumanJointPath(bone, DOMAIN localRotations), localRotations)

RigOrientation(j, rotations) == Composed(RigPath(j), rotations)

RotationsAt(c, frame) ==
  [j \in DOMAIN c.joints |-> IF DropsRoot(c, j) THEN Identity ELSE SourceRotationAt(c, j, frame)]

(* The nearest bound joint above each bone of its lineage carries the bone *)
(* that a reader of the pose will look under.                              *)
Aligned(c, bone) ==
  \A b \in Range(HumanJointPath(bone, c.present)) \ {Hips} :
    LET above == c.joints[Head(c.path[b])].parent
    IN  above # 0 => c.boneOf[above] = NearestPresentAncestor(b, c.present)

KeepsOrientation(c, bone) ==
  /\ \A f \in DOMAIN conversion.samples :
       BodyOrientation(conversion.samples[f].localRotations, bone)
         = RigOrientation(c.jointOf[bone], RotationsAt(c, f))
  /\ BodyOrientation(conversion.rest.localRotations, bone)
       = RigOrientation(c.jointOf[bone], [j \in DOMAIN c.joints |-> RestRotation(c, j)])

(* The nearest bound joint above a bone's own in the rig, whatever bone it *)
(* carries; 0 when there is none.                                          *)
JointAbove(c, bone) ==
  LET path  == RigPath(c.jointOf[bone])
      bound == {i \in 1 .. Len(path) - 1 : path[i] \in {c.jointOf[b] : b \in c.present}}
  IN  IF bound = {} THEN 0 ELSE path[Max(bound)]

TurnsOnFrom(c, above, bone, localRotations, rotations) ==
  RigOrientation(c.jointOf[bone], rotations)
    = Times(IF above = 0 THEN Identity ELSE RigOrientation(above, rotations),
            localRotations[bone])

KeepsItsChain(c, bone) ==
  LET above == JointAbove(c, bone)
  IN  /\ \A f \in DOMAIN conversion.samples :
           TurnsOnFrom(c, above, bone, conversion.samples[f].localRotations, RotationsAt(c, f))
      /\ TurnsOnFrom(c, above, bone, conversion.rest.localRotations,
                     [j \in DOMAIN c.joints |-> RestRotation(c, j)])

(* A chain keeps its total orientation, in the rest and in each frame,     *)
(* however many unmapped joints lie between.  A bone turns its joint on    *)
(* from the nearest bound joint above it in the rig, whichever bone that   *)
(* carries; and composed down the humanoid it is turned as its joint is in *)
(* the rig, where the rig hangs the bones of its lineage as the humanoid   *)
(* does.  Where it does not, see EveryMatchKeepsOrientation                *)
(* (CanonicalConversion.cpp:138, 822).                                     *)
OrientationIsKept ==
  IsConverted =>
    \A bone \in Work.present :
      /\ KeepsItsChain(Work, bone)
      /\ Aligned(Work, bone) => KeepsOrientation(Work, bone)

(* The same, for every rig the match lets through.                         *)
EveryMatchKeepsOrientation ==
  IsConverted => \A bone \in Work.present : KeepsOrientation(Work, bone)

ReachesTPose(c, bone) ==
  LET j == c.jointOf[bone]
  IN  Aimed(c, j) /\ ~DropsRoot(c, j) =>
        Head(BodyOrientation(conversion.rest.localRotations, bone)) = Head(Turn("aim", j, 0))

(* The T-pose is reached: each aimed bone of the rest, composed down the   *)
(* humanoid, ends turned onto its T-pose direction, also below a root      *)
(* whose rotation is dropped (CanonicalConversion.cpp:575).  It is said of *)
(* the bones whose lineage the rig hangs as the humanoid does: below any   *)
(* other the composition is already another (EveryMatchKeepsOrientation).  *)
TPoseIsReached ==
  IsConverted /\ profile.restPose = "t-pose" =>
    \A bone \in Work.present : Aligned(Work, bone) => ReachesTPose(Work, bone)

(* A rest taken from the first frame is that frame, the body's placement   *)
(* and the bones' turns alike (CanonicalConversion.cpp:661).               *)
FirstFrameRestIsTheFirstFrame ==
  IsConverted /\ profile.restPose = "first-frame" /\ conversion.samples # << >> =>
    LET first == conversion.samples[1]
    IN  /\ conversion.rest.localRotations = first.localRotations
        /\ first.worldPosition # << >> =>
             conversion.rest.localTranslations[Hips] = first.worldPosition

(* What a joint is moved by at a frame, no other joint is.                 *)
IsItsOwn(c, j, f) ==
  \A i \in DOMAIN c.joints \ {j} :
    /\ c.joints[i].restTranslation # c.animation.tracks[j].translations[f]
    /\ HasTranslation(c, i) =>
         c.animation.tracks[i].translations[f] # c.animation.tracks[j].translations[f]

(* Every translation the source states is in the clip or in the report,    *)
(* and never in both, nor in two lists of the report                       *)
(* (CanonicalConversion.cpp:692).                                          *)
EveryTranslationIsCarriedOrReported ==
  IsConverted =>
    \A j \in DOMAIN imported.joints : HasTranslation(Work, j) =>
      LET carried(f) ==
            \E i \in DOMAIN conversion.samples[f].worldPosition :
              imported.animation.tracks[j].translations[f]
                \in Range(conversion.samples[f].worldPosition[i].by)
          reported == {list \in {"restated", "dropped"} : j \in conversion.report[list]}
      IN  /\ Cardinality(reported) <= 1
          /\ reported = {} => \A f \in DOMAIN conversion.samples : carried(f)
          /\ \A f \in DOMAIN conversion.samples :
               carried(f) /\ IsItsOwn(Work, j, f) => reported = {}

Units == {<<1, 0, 0, 0>>, <<0, 1, 0, 0>>, <<0, 0, 1, 0>>}

AxisVector(axis) == [i \in 1 .. 4 |-> IF i # axis.component THEN 0 ELSE Sign(axis.negative)]

(* The basis puts the stated up and forward on +Y and +Z, and their cross  *)
(* product on +X, mirrored for a left-handed source; and it respects the   *)
(* products of rotations, so that words may stand for them                 *)
(* (CanonicalConversion.cpp:291).                                          *)
BasisIsAHandedIsometry ==
  profile # None =>
    LET basis == MakeCanonicalBasis(profile)
    IN  /\ ConvertPosition(basis, AxisVector(profile.upAxis)) = <<0, 1, 0>>
        /\ ConvertPosition(basis, AxisVector(profile.forwardAxis)) = <<0, 0, 1>>
        /\ ConvertPosition(basis, Multiply(AxisVector(profile.upAxis), AxisVector(profile.forwardAxis)))
             = <<IF profile.handedness = "right" THEN 1 ELSE -1, 0, 0>>
        /\ \A p, q \in Units :
             Multiply(ConvertRotation(basis, p), ConvertRotation(basis, q))
               = ConvertRotation(basis, Multiply(p, q))
=============================================================================

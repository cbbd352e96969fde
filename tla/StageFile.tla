----------------------------- MODULE StageFile -----------------------------
(***************************************************************************)
(* The stage at one path (libs/motionUsd): a producer writes a clip there, *)
(* while another holder may have the layer open, bake an animation onto    *)
(* its rig, and save or drop what it holds.                                *)
(***************************************************************************)
EXTENDS StageReader

CONSTANTS
  None,     \* no file, no open layer
  Clips,    \* clips a producer may hand over
  Rests,    \* rests it may state with one
  Foreign,  \* what may already be on disk at the path
  Bakes     \* animations a caller may bake onto a rig

(* What a clip, a rest and a bake are made of: the bones are in the        *)
(* vocabulary, and a place or a gaze is one value or none.                 *)
Bones == Range(Vocabulary)

IsClip(clip) ==
  /\ IsSequence(clip.samples) /\ clip.startTime \in Int
  /\ \A i \in DOMAIN clip.samples :
       LET sample == clip.samples[i]
       IN  /\ sample.timestamp \in Int
           /\ DOMAIN sample.rotations \subseteq Bones
           /\ sample.place # {} => sample.place = {The(sample.place)} /\ Hips \in Bones
           /\ sample.gaze # {} => sample.gaze = {The(sample.gaze)}
           /\ IsFiniteSet(DOMAIN sample.channels)
           /\ sample.channels = [name \in DOMAIN sample.channels |-> sample.channels[name]]

IsRest(rest) == DOMAIN rest.rotations \subseteq Bones

Stated == {{}} \cup {{rest} : rest \in Rests}

IsBake(bake) ==
  /\ IsSequence(bake.joints) /\ IsSequence(bake.samples)
  /\ \A i \in DOMAIN bake.samples :
       /\ bake.samples[i].timestamp \in Int
       /\ IsSequence(bake.samples[i].rotations) /\ IsSequence(bake.samples[i].translations)

ASSUME StagesAssumption ==
  /\ \A stage \in Foreign : IsStage(stage)
  /\ \A clip \in Clips : IsClip(clip)
  /\ \A rest \in Rests : IsRest(rest)
  /\ \A bake \in Bakes : IsBake(bake)
  /\ \A clip \in Clips, stated \in Stated : None \notin AuthorMotionStage(EmptyStage, clip, stated)

VARIABLES
  disk,     \* the file at the path
  layer,    \* the layer another holder has open on that path
  session,  \* the animation the holder's session layer binds, if any
  saved     \* the clip and the rest that were last saved to the path

stageVars == <<disk, layer, session, saved>>

AsAuthored == [channels |-> << >>, gaze |-> {}]   \* MotionStageReadOptions{}

Init ==
  /\ disk \in {None} \cup Foreign
  /\ layer = None
  /\ session = {}
  /\ saved = {}

-----------------------------------------------------------------------------
(* WriteMotionStage.  The clip is authored on a scratch stage; then the    *)
(* layer at the path, the holder's when it has one, takes its content.     *)

Replace(scratch, clip, stated) ==
  /\ disk' = scratch
  /\ layer' = IF layer = None THEN None ELSE scratch
  /\ saved' = {[clip |-> clip, stated |-> stated]}

(* A file that was just created stays behind, empty.                       *)
FailToSave(scratch) ==
  /\ disk' = IF disk = None /\ layer = None THEN EmptyStage ELSE disk
  /\ layer' = IF layer = None THEN None ELSE scratch
  /\ UNCHANGED saved

WriteMotionStage(clip, stated) ==
  /\ \A scratch \in AuthorMotionStage(EmptyStage, clip, stated) :
       \/ Replace(scratch, clip, stated)
       \/ FailToSave(scratch)
       \/ disk = None /\ layer = None /\ UNCHANGED <<disk, layer, saved>>
  /\ AuthorMotionStage(EmptyStage, clip, stated) = {} => UNCHANGED <<disk, layer, saved>>
  /\ UNCHANGED session

-----------------------------------------------------------------------------
(* AuthorSkeletonAnimation, on the open layer; no save happens there.      *)

Bakeable(stage, bake) ==
  /\ stage.rate = StageRate
  /\ \A i \in DOMAIN stage.animations : stage.animations[i].path # bake.path
  /\ \A s \in FindSkeleton(stage, {bake.skeleton}) :
       /\ bake.joints = stage.skeletons[s].joints
       /\ Len(stage.skeletons[s].rests) = Len(bake.joints)
  /\ FindSkeleton(stage, {bake.skeleton}) # {}
  /\ bake.joints # << >>
  /\ \A i, k \in DOMAIN bake.joints : bake.joints[i] = bake.joints[k] => i = k
  /\ TopologyIsValid(bake.joints)
  /\ bake.samples # << >>
  /\ \A i \in DOMAIN bake.samples :
       /\ bake.samples[i].timestamp # NonFinite
       /\ i > 1 => Code(bake, i - 1) < Code(bake, i)
       /\ Len(bake.samples[i].rotations) = Len(bake.joints)
       /\ Len(bake.samples[i].translations) = Len(bake.joints)

BakedAnimation(bake) ==
  [path |-> bake.path, joints |-> bake.joints,
   rotations    |-> Flat(Keyframes(bake, [i \in DOMAIN bake.samples |-> bake.samples[i].rotations])),
   translations |-> Flat(Keyframes(bake, [i \in DOMAIN bake.samples |-> bake.samples[i].translations])),
   gaze |-> NoOpinion, rate |-> {}, policy |-> NoPolicy]

WithAnimation(stage, bake) ==
  [stage EXCEPT !.animations = Append(@, BakedAnimation(bake))]

WithBinding(stage, bake) ==
  [WithAnimation(stage, bake) EXCEPT
     !.skeletons = [s \in DOMAIN @ |-> IF @[s].path = bake.skeleton
                                       THEN [@[s] EXCEPT !.source = {bake.path}] ELSE @[s]]]

(* A slip: no backup was taken.                                            *)
LeftAuthored(before, authored) == authored

(* The root layer's content, put back from the backup.                     *)
Restored(before, authored) == before

(* USD may refuse an authoring call, and a session opinion may win over    *)
(* the new binding.                                                        *)
AuthorSkeletonAnimation(bake) ==
  /\ layer # None
  /\ \/ ~Bakeable(layer, bake) /\ UNCHANGED layer
     \/ Bakeable(layer, bake) /\ layer' = Restored(layer, WithAnimation(layer, bake))
     \/ /\ Bakeable(layer, bake)
        /\ \A s \in FindSkeleton(layer, {bake.skeleton}) :
             layer' = IF BoundPath(WithBinding(layer, bake), session, s) = {bake.path}
                      THEN WithBinding(layer, bake)
                      ELSE Restored(layer, WithBinding(layer, bake))
  /\ UNCHANGED <<disk, session, saved>>

-----------------------------------------------------------------------------
(* The holder.                                                             *)

Open ==
  /\ layer = None /\ disk # None
  /\ layer' = disk
  /\ UNCHANGED <<disk, session, saved>>

BindInSession(path) ==
  /\ layer # None
  /\ session' = {path}
  /\ UNCHANGED <<disk, layer, saved>>

Save ==
  /\ layer # None
  /\ disk' = layer
  /\ saved' = IF layer = disk THEN saved ELSE {}
  /\ UNCHANGED <<layer, session>>

(* Another program wrote the file, and the holder reloads it.              *)
Reload(stage) ==
  /\ layer # None
  /\ disk' = stage /\ layer' = stage
  /\ saved' = {}
  /\ UNCHANGED session

Close ==
  /\ layer # None
  /\ layer' = None /\ session' = {}
  /\ UNCHANGED <<disk, saved>>

FileNext ==
  \/ \E clip \in Clips, stated \in Stated : WriteMotionStage(clip, stated)
  \/ \E bake \in Bakes : AuthorSkeletonAnimation(bake)
  \/ \E path \in {"Body", "Baked"} : BindInSession(path)
  \/ Open
  \/ Save
  \/ Close

-----------------------------------------------------------------------------
(* Properties.                                                             *)

(* What a pose carries after a write and a read: the joints of the rig,    *)
(* those the sample did not observe at their rest, the place last reported *)
(* or the rest's, and a channel or a gaze only where the sample had it.    *)
Expected(clip, stated, i) ==
  LET rest   == RestOf(clip, stated)
      sample == clip.samples[i]
      told   == {k \in 1 .. i : clip.samples[k].place # {}}
      turn   == [bone \in Present(rest) |-> IF bone \in DOMAIN sample.rotations
                                            THEN sample.rotations[bone] ELSE rest.rotations[bone]]
      rooted == Hips \in Present(rest)
  IN  [timestamp |-> TimeCodeFor(sample.timestamp), rotations |-> turn,
       facing    |-> IF rooted THEN {turn[Hips]} ELSE {},
       place     |-> IF ~rooted THEN {} ELSE IF told = {} THEN {rest.places[Hips]}
                     ELSE clip.samples[CHOOSE k \in told : \A l \in told : l <= k].place,
       channels  |-> sample.channels, gaze |-> sample.gaze]

(* The file a writer saved holds exactly that clip, whatever was there     *)
(* before, whoever holds the layer and whatever was refused since: the     *)
(* strict reader gives every sample back, under the parents the vocabulary *)
(* gives the bones present.  It is said of clips without a NaN channel     *)
(* value, which the writer takes and the reader refuses; and the interval  *)
(* a clip declares is not compared, since the reader takes a file's from   *)
(* its samples (ClipWriter.cpp:387, ClipReader.cpp:366).                   *)
StageCarriesTheClip ==
  \A written \in saved :
    LET clip    == written.clip
        present == Present(RestOf(clip, written.stated))
        answers == ReadCanonicalMotionStage(disk, {}, "Skeleton", AsAuthored)
        parent(answer, i) == LET p == answer.parents[i] IN IF p = 0 THEN NoBone ELSE Leaf(answer.joints[p])
    IN  (\A k \in DOMAIN clip.samples, name \in ChannelNames(clip) :
           name \in DOMAIN clip.samples[k].channels => clip.samples[k].channels[name] # NaN) =>
          \E answer \in answers :
            /\ answer.read.samples = [i \in DOMAIN clip.samples |-> Expected(clip, written.stated, i)]
            /\ \A i \in DOMAIN answer.joints :
                 parent(answer, i) = NearestPresentAncestor(Leaf(answer.joints[i]), present)

(* A bake changes the layer only by making its animation the one the rig   *)
(* plays, sample for sample, beside the animations that were there;        *)
(* otherwise the layer is as it was, wherever the authoring stopped        *)
(* (SkeletonAnimationWriter.cpp:130).                                      *)
BakeIsAllOrNothing ==
  [][\A bake \in Bakes :
       AuthorSkeletonAnimation(bake) /\ layer' # layer =>
         \E s \in FindSkeleton(layer', {bake.skeleton}), a \in DOMAIN layer'.animations :
           LET played == layer'.animations[a]
           IN  /\ Range(layer'.animations) \ {played} = Range(layer.animations)
               /\ BoundPath(layer', session, s) = {played.path}
               /\ played.joints = layer'.skeletons[s].joints
               /\ \A i \in DOMAIN bake.samples :
                    /\ ArrayAt(played.rotations, Code(bake, i)) = bake.samples[i].rotations
                    /\ ArrayAt(played.translations, Code(bake, i)) = bake.samples[i].translations]_stageVars
=============================================================================

---------------------------- MODULE MCExecMotion ----------------------------
(***************************************************************************)
(* Four bones of which a clip sees some; rests a producer states; stages   *)
(* other programs left at the path, at other rates, with joints that are   *)
(* no bones, two animations and channels that collide.                     *)
(***************************************************************************)
EXTENDS ExecMotion

Chest == Bone("chest")
Leg   == <<"left", "upperLeg">>
Spine == Bone("spine")
Tail_ == Bone("tail")

SampleVocabulary == <<Hips, Spine, Chest, Leg>>
SamplePrimName   == [name \in {"vrm:happy", "vrm.happy", "blink"} |->
                       IF name = "blink" THEN "blink" ELSE "vrm_happy"]

Sample(t, rotations, place, channels, gaze) ==
  [timestamp |-> t, rotations |-> rotations, place |-> place, channels |-> channels, gaze |-> gaze]

Clip(samples) == [samples |-> samples, startTime |-> 0, endTime |-> 0, nominal |-> 60]

Quiet == << >>
At(place) == {{place}}

SampleClips ==
  {Clip(<<Sample(0, (Hips :> {"a"}) @@ (Chest :> {"b"}), At("p"), Quiet, {{"g"}}),
          Sample(5, Hips :> {"c"}, {}, "blink" :> {"half"}, {}),
          Sample(10, Chest :> {"d"}, At("q"), Quiet, {{"g"}})>>),
   Clip(<<Sample(3, Quiet, {}, Quiet, {}), Sample(8, Quiet, At("p"), "vrm:happy" :> {"full"}, {})>>),
   Clip(<<Sample(2, (Spine :> {"a"}) @@ (Leg :> {"b"}), {}, "blink" :> {"half"}, {}),
          Sample(6, Spine :> {"c"}, {}, "blink" :> {"full"}, {})>>),
   Clip(<<Sample(3, Hips :> {"a"}, {}, Quiet, {}), Sample(5, Hips :> {"b"}, {}, Quiet, {})>>),
   Clip(<<Sample(0, Hips :> {"a"}, {}, "vrm:happy" :> {"half"}, {}),
          Sample(4, Hips :> {"a"}, {}, "vrm.happy" :> {"full"}, {})>>),
   Clip(<<Sample(0, Hips :> {"a"}, {}, Quiet, {}), Sample(4, Quiet, {}, Quiet, {NaN})>>),
   Clip(<<Sample(0, Hips :> {"a"}, {}, "blink" :> NaN, {})>>)}

Bent(bones) == [rotations |-> [bone \in bones |-> {"bent"}],
                places    |-> [bone \in bones |-> IF bone = Hips THEN {"tall"} ELSE {"offset"}]]

SampleRests == {Bent({Hips, Spine, Chest}), Bent({Chest})}

-----------------------------------------------------------------------------
Keyed(keys)     == [default |-> {}, keys |-> keys]
Constant(value) == [default |-> {value}, keys |-> << >>]

Joints == <<<<Hips>>, <<Hips, Chest>>, <<Tail_>>>>
RestAt == <<{"bent"}, {"tall"}>>

Skeleton(path, joints, source) ==
  [path |-> path, joints |-> joints, source |-> source, rests |-> [i \in DOMAIN joints |-> RestAt]]

Animation(path, joints, rotations, translations, rate) ==
  [path |-> path, joints |-> joints, rotations |-> rotations, translations |-> translations,
   gaze |-> NoOpinion, rate |-> rate, policy |-> NoPolicy]

Values(a, b, c) == <<{a}, {b}, {c}>>
Turning == Keyed((0 :> Values("a", "b", "t")) @@ (8 :> Values("c", "d", "t")))
Moving  == Keyed((0 :> Values("p", "o", "o")) @@ (4 :> Values("q", "o", "o")))

Stage(rate, skeletons, animations, channels) ==
  [EmptyStage EXCEPT !.rate = rate, !.skeletons = skeletons, !.animations = animations,
                     !.channels = channels]

Ignoring(animation)  == [animation EXCEPT !.policy.intake = {"ignore"}, !.policy.cutoff = {0}]
Misspelt(animation)  == [animation EXCEPT !.policy.intake = {"ignored"}, !.policy.place = {FALSE}]

SampleForeign ==
  {EmptyStage,
   Stage(60, <<Skeleton("Skeleton", Joints, {"Body"})>>,
         <<Animation("Body", Joints, Turning, Moving, {30}),
           Animation("Second", Joints, Constant(Values("e", "f", "t")), NoOpinion, {30})>>,
         <<[name |-> {"blink"}, value |-> Keyed(6 :> <<{"half"}>>)],
           [name |-> {"blink"}, value |-> Constant(<<{"full"}>>)], [name |-> {}, value |-> Constant(<<{"full"}>>)]>>),
   Stage(0, <<Skeleton("Skeleton", Joints, {})>>,
         <<Misspelt(Animation("Body", Joints, Turning, Moving, {60}))>>, << >>),
   Stage(30, <<Skeleton("Rig", Joints, {}), Skeleton("Skeleton", <<<<Hips>>>>, {"Second"})>>,
         <<Animation("Body", Joints, Turning, Moving, {30}),
           Ignoring(Animation("Second", <<<<Hips>>>>, Keyed(4 :> <<{"e"}>>), NoOpinion, {30}))>>,
         <<[name |-> {"blink"}, value |-> Constant(<<{"half"}>>)]>>),
   Stage(30, <<Skeleton("Rig", <<<<Hips>>, <<Hips, Spine, Chest>>>>, {"Body"})>>,
         <<Animation("Body", <<<<Hips>>, <<Hips, Spine, Chest>>>>,
                     Constant(<<{"e"}, {"f"}>>), NoOpinion, {})>>, << >>)}

Bake(skeleton, joints, samples) ==
  [skeleton |-> skeleton, path |-> "Baked", joints |-> joints, samples |-> samples]

Frames(n, times) ==
  [i \in DOMAIN times |-> [timestamp |-> times[i], rotations |-> [j \in 1 .. n |-> {"baked", "a"}],
                           translations |-> [j \in 1 .. n |-> {"baked"}]]]

SampleBakes ==
  {Bake("Skeleton", Joints, Frames(3, <<1, 9>>)), Bake("Rig", Joints, Frames(3, <<1, 9>>)),
   Bake("Rig", Joints, Frames(3, <<3, 5>>)), Bake("Rig", Joints, Frames(2, <<0>>)),
   Bake("Skeleton", <<<<Hips>>>>, Frames(1, <<2>>)),
   Bake("Skeleton", <<<<Hips>>, <<Hips, Chest>>>>, Frames(2, <<2, 6>>))}

BlendOf(sources, weights) == [sources |-> sources, weights |-> weights]

SampleBlends ==
  {BlendOf(<<"Body", "Second">>, <<1, 1>>), BlendOf(<<"Body", "Second">>, <<0, 1>>),
   BlendOf(<<"Baked", "Body", "Second">>, <<1, 0, 1>>), BlendOf(<<"Skeleton", "Body">>, <<1, 0>>),
   BlendOf(<<"Nowhere", "Second">>, <<0, 1>>), BlendOf(<<"Second", "Body">>, <<0, 0>>),
   BlendOf(<<"Second", "Body">>, <<1>>), BlendOf(<< >>, << >>),
   BlendOf(<<"Second", "Body">>, <<1, NonFinite>>)}
=============================================================================

----------------------------- MODULE StageProofs -----------------------------
(***************************************************************************)
(* Proofs about a stage file, its readers and the exec nodes above it, for *)
(* every vocabulary, every stage left at the path, every clip, bake and    *)
(* blend, and with no bound on the calls.                                  *)
(***************************************************************************)
EXTENDS ExecMotion, SequenceTheorems, SharedLemmas

(* Numbers that ascend from each to the next ascend throughout.            *)
LEMMA AscentIsStrict ==
  ASSUME NEW n \in Nat, NEW at \in [1 .. n -> Int],
         \A i \in 1 .. n : i > 1 => at[i - 1] < at[i]
  PROVE  \A i, k \in 1 .. n : i < k => at[i] < at[k]
<1> SUFFICES ASSUME NEW i \in 1 .. n
             PROVE  \A k \in 1 .. n : i < k => at[i] < at[k]
  OBVIOUS
<1> DEFINE Late == {k \in 1 .. n : i < k /\ ~(at[i] < at[k])}
<1>1. SUFFICES ASSUME Late # {} PROVE FALSE
  OBVIOUS
<1>2. PICK k \in Late : \A m \in Late : k <= m
  <2>1. Late \subseteq Nat
    OBVIOUS
  <2> HIDE DEF Late
  <2>2. QED
    BY <1>1, <2>1, SmallestIndex
<1>3. k \in 1 .. n /\ i < k /\ ~(at[i] < at[k]) /\ k - 1 \in 1 .. n /\ k - 1 \notin Late
  BY <1>2
<1>4. at[i] <= at[k - 1]
  BY <1>3
<1>5. at[k - 1] < at[k]
  BY <1>3
<1>6. QED
  BY <1>3, <1>4, <1>5

(* An array between equal ones is that array.                              *)
LEMMA BetweenEquals ==
  ASSUME NEW array, IsSequence(array)
  PROVE  Between(array, array) = array
<1>1. array = [i \in DOMAIN array |-> array[i]]
  BY DEF IsSequence
<1>2. \A i \in DOMAIN array : array[i] \cup array[i] = array[i]
  OBVIOUS
<1>3. QED
  BY <1>1, <1>2 DEF Between

(* At a key an attribute is what was written there.                        *)
LEMMA ResolvedAtAKey ==
  ASSUME NEW attr, IsAttribute(attr), NEW key \in Keys(attr), IsSequence(attr.keys[key])
  PROVE  Resolved(attr, key) = {attr.keys[key]} /\ ArrayAt(attr, key) = attr.keys[key]
<1> DEFINE before == {k \in Keys(attr) : k <= key}
           after  == {k \in Keys(attr) : k >= key}
<1>1. Keys(attr) \subseteq Int
  BY DEF IsAttribute
<1>2. key \in before /\ key \in after /\ \A k \in before : key >= k
  BY <1>1
<1>3. Max(before) = key
  <2> HIDE DEF before, after
  <2>1. \A x \in before : (\A y \in before : x >= y) => x = key
    <3> SUFFICES ASSUME NEW x \in before, x >= key PROVE x = key
      BY <1>2
    <3> QED
      BY <1>1, <1>2 DEF before
  <2>2. QED
    BY <1>2, <2>1 DEF Max
<1>4. Min(after) = key
  <2>1. \A x \in after : (\A y \in after : x <= y) => x = key
    BY <1>1, <1>2
  <2>2. \A y \in after : key <= y
    BY <1>1
  <2> HIDE DEF before, after
  <2>3. QED
    BY <1>2, <2>1, <2>2 DEF Min
<1> HIDE DEF before, after
<1>5. Resolved(attr, key) = {Between(attr.keys[key], attr.keys[key])}
  BY <1>2, <1>3, <1>4 DEF Resolved, before, after
<1>6. Resolved(attr, key) = {attr.keys[key]}
  BY <1>5, BetweenEquals
<1>7. The({attr.keys[key]}) = attr.keys[key]
  BY DEF The
<1>8. {attr.keys[key]} # {}
  OBVIOUS
<1>9. QED
  BY <1>6, <1>7, <1>8 DEF ArrayAt

LEMMA TimeCodeIsANumber ==
  ASSUME NEW seconds \in Int
  PROVE  TimeCodeFor(seconds) \in Int
<1> DEFINE frame == ((seconds + Frame \div 2) \div Frame) * Frame
<1>1. frame \in Int
  BY DEF Frame
<1>2. QED
  BY <1>1 DEF TimeCodeFor

(* The samples a writer or a baker takes have codes of their own.          *)
LEMMA CodesDiffer ==
  ASSUME NEW clip, IsSequence(clip.samples),
         \A i \in DOMAIN clip.samples : clip.samples[i].timestamp \in Int,
         \A i \in DOMAIN clip.samples : i > 1 => Code(clip, i - 1) < Code(clip, i)
  PROVE  /\ Len(clip.samples) \in Nat /\ DOMAIN clip.samples = 1 .. Len(clip.samples)
         /\ \A i \in DOMAIN clip.samples : Code(clip, i) \in Int
         /\ \A i, k \in DOMAIN clip.samples : i < k => Code(clip, i) < Code(clip, k)
         /\ \A i, k \in DOMAIN clip.samples : Code(clip, i) = Code(clip, k) => i = k
<1> DEFINE n == Len(clip.samples)
           at == [i \in 1 .. n |-> Code(clip, i)]
<1>1. n \in Nat /\ DOMAIN clip.samples = 1 .. n
  BY DEF IsSequence
<1>2. \A i \in 1 .. n : Code(clip, i) \in Int
  BY <1>1, TimeCodeIsANumber DEF Code
<1>3. at \in [1 .. n -> Int] /\ \A i \in 1 .. n : i > 1 => at[i - 1] < at[i]
  <2>1. at \in [1 .. n -> Int]
    BY <1>2
  <2>2. ASSUME NEW i \in 1 .. n, i > 1
        PROVE  at[i - 1] < at[i]
    <3>1. i - 1 \in 1 .. n /\ Code(clip, i - 1) < Code(clip, i)
      BY <1>1, <2>2
    <3> HIDE DEF n
    <3>2. QED
      BY <3>1
  <2> HIDE DEF at
  <2>3. QED
    BY <2>1, <2>2
<1> HIDE DEF n
<1>4. \A i, k \in 1 .. n : i < k => at[i] < at[k]
  <2> HIDE DEF at
  <2>1. QED
    BY <1>1, <1>3, AscentIsStrict
<1>5. \A i, k \in 1 .. n : i < k => Code(clip, i) < Code(clip, k)
  BY <1>4
<1>6. \A i, k \in 1 .. n : Code(clip, i) = Code(clip, k) => i = k
  <2> SUFFICES ASSUME NEW i \in 1 .. n, NEW k \in 1 .. n, Code(clip, i) = Code(clip, k), i # k
               PROVE  FALSE
    OBVIOUS
  <2>1. Code(clip, i) \in Int
    BY <1>2
  <2>2. i < k \/ k < i
    BY <1>1
  <2>3. Code(clip, i) < Code(clip, k) \/ Code(clip, k) < Code(clip, i)
    BY <2>2, <1>5
  <2>4. QED
    BY <2>1, <2>3
<1>7. QED
  BY <1>1, <1>2, <1>5, <1>6 DEF n

LEMMA FlatRecord ==
  ASSUME NEW keys
  PROVE  Flat([default |-> {}, keys |-> keys])
           = [default |-> {}, keys |-> [code \in DOMAIN keys |-> keys[code][1]]]
<1> DEFINE attr == [default |-> {}, keys |-> keys]
           flat == [code \in DOMAIN keys |-> keys[code][1]]
           made == [attr EXCEPT !.keys = flat]
<1>1. attr.keys = keys
  OBVIOUS
<1>2. flat = [code \in DOMAIN attr.keys |-> attr.keys[code][1]]
  OBVIOUS
<1>3. made = Flat(attr)
  <2> HIDE DEF attr, flat
  <2>1. QED
    BY <1>2 DEF Flat
<1>4. made = [default |-> {}, keys |-> flat]
  <2> HIDE DEF flat
  <2>1. QED
    OBVIOUS
<1>5. QED
  BY <1>3, <1>4

(* A keyframe holds what was authored at its code.                         *)
LEMMA KeyframesHold ==
  ASSUME NEW clip, NEW value,
         \A i, k \in DOMAIN value : Code(clip, i) = Code(clip, k) => i = k
  PROVE  /\ Keys(Keyframes(clip, value)) = {Code(clip, i) : i \in DOMAIN value}
         /\ Keys(Flat(Keyframes(clip, value))) = {Code(clip, i) : i \in DOMAIN value}
         /\ \A i \in DOMAIN value :
              /\ Keyframes(clip, value).keys[Code(clip, i)] = <<value[i]>>
              /\ Flat(Keyframes(clip, value)).keys[Code(clip, i)] = value[i]
<1> DEFINE codes == {Code(clip, i) : i \in DOMAIN value}
           whose(code) == CHOOSE i \in DOMAIN value : Code(clip, i) = code
           keys == [code \in codes |-> <<value[whose(code)]>>]
<1>1. Keyframes(clip, value) = [default |-> {}, keys |-> keys]
  BY DEF Keyframes
<1>2. \A i \in DOMAIN value : whose(Code(clip, i)) = i
  OBVIOUS
<1>3. \A i \in DOMAIN value : Code(clip, i) \in codes
  OBVIOUS
<1>4. Keys(Keyframes(clip, value)) = codes
  BY <1>1 DEF Keys
<1>5. \A i \in DOMAIN value : keys[Code(clip, i)] = <<value[i]>>
  BY <1>2, <1>3
<1> DEFINE flat == [code \in codes |-> keys[code][1]]
<1>6. DOMAIN keys = codes
  OBVIOUS
<1>7. \A i \in DOMAIN value : flat[Code(clip, i)] = value[i]
  BY <1>3, <1>5
<1> HIDE DEF keys, codes
<1>8. Flat(Keyframes(clip, value)) = [default |-> {}, keys |-> flat]
  BY <1>1, <1>6, FlatRecord
<1>9. DOMAIN flat = codes
  OBVIOUS
<1> HIDE DEF flat
<1>10. Keys(Flat(Keyframes(clip, value))) = codes
  BY <1>8, <1>9 DEF Keys
<1>11. \A i \in DOMAIN value : Flat(Keyframes(clip, value)).keys[Code(clip, i)] = value[i]
  BY <1>7, <1>8
<1>12. \A i \in DOMAIN value : Keyframes(clip, value).keys[Code(clip, i)] = <<value[i]>>
  BY <1>1, <1>5
<1>13. QED
  BY <1>4, <1>10, <1>11, <1>12 DEF codes

LEMMA FiniteUnion ==
  ASSUME NEW f, IsFiniteSet(DOMAIN f), \A i \in DOMAIN f : IsFiniteSet(f[i])
  PROVE  IsFiniteSet(UNION {f[i] : i \in DOMAIN f})
<1> DEFINE image == {f[i] : i \in DOMAIN f}
           onto == [i \in DOMAIN f |-> f[i]]
<1>1. onto \in Surjection(DOMAIN f, image)
  BY DEF Surjection
<1>2. \A x \in image : IsFiniteSet(x)
  OBVIOUS
<1> HIDE DEF onto, image
<1>3. IsFiniteSet(image)
  BY <1>1, FS_Surjection, Zenon
<1>4. IsFiniteSet(UNION image)
  BY <1>2, <1>3, FS_UNION
<1>5. QED
  BY <1>4 DEF image

LEMMA KeyframesAreAttributes ==
  ASSUME NEW clip, NEW value, IsFiniteSet(DOMAIN value),
         \A i \in DOMAIN value : Code(clip, i) \in Int,
         \A i, k \in DOMAIN value : Code(clip, i) = Code(clip, k) => i = k
  PROVE  IsAttribute(Keyframes(clip, value)) /\ IsAttribute(Flat(Keyframes(clip, value)))
<1> DEFINE codes == {Code(clip, i) : i \in DOMAIN value}
           code == [i \in DOMAIN value |-> Code(clip, i)]
<1>1. codes \subseteq Int
  OBVIOUS
<1>2. IsFiniteSet(codes)
  <2>1. code \in Surjection(DOMAIN value, codes)
    BY DEF Surjection
  <2> HIDE DEF code, codes
  <2>2. QED
    BY <2>1, FS_Surjection, Zenon
<1>3. QED
  BY <1>1, <1>2, KeyframesHold DEF IsAttribute

-----------------------------------------------------------------------------
(* What a bake authors.                                                    *)

LEMMA StageFields ==
  ASSUME NEW stage, IsStage(stage)
  PROVE  /\ DOMAIN stage = {"rate", "metric", "start", "nominal", "skeletons", "animations", "channels"}
         /\ stage.rate \in Int /\ stage.start \in Int
         /\ Len(stage.skeletons) \in Nat /\ DOMAIN stage.skeletons = 1 .. Len(stage.skeletons)
         /\ Len(stage.animations) \in Nat /\ DOMAIN stage.animations = 1 .. Len(stage.animations)
         /\ stage.animations \in Seq(Range(stage.animations))
BY DEF IsStage, EmptyStage, IsSequence

LEMMA WithAnimationKeeps ==
  ASSUME NEW stage, IsStage(stage), NEW bake
  PROVE  /\ DOMAIN WithAnimation(stage, bake) = DOMAIN stage
         /\ WithAnimation(stage, bake).animations = Append(stage.animations, BakedAnimation(bake))
         /\ WithAnimation(stage, bake).rate = stage.rate /\ WithAnimation(stage, bake).start = stage.start
         /\ WithAnimation(stage, bake).skeletons = stage.skeletons
         /\ WithAnimation(stage, bake).channels = stage.channels
<1> DEFINE after == Append(stage.animations, BakedAnimation(bake))
<1>1. WithAnimation(stage, bake) = [stage EXCEPT !.animations = after]
  BY DEF WithAnimation
<1> HIDE DEF after
<1>2. QED
  BY <1>1, StageFields DEF after

LEMMA WithBindingKeeps ==
  ASSUME NEW stage, IsStage(stage), NEW bake
  PROVE  /\ DOMAIN WithBinding(stage, bake) = DOMAIN stage
         /\ WithBinding(stage, bake).animations = Append(stage.animations, BakedAnimation(bake))
         /\ WithBinding(stage, bake).rate = stage.rate /\ WithBinding(stage, bake).start = stage.start
         /\ WithBinding(stage, bake).channels = stage.channels
         /\ DOMAIN WithBinding(stage, bake).skeletons = DOMAIN stage.skeletons
         /\ WithBinding(stage, bake).skeletons \in Seq(Range(WithBinding(stage, bake).skeletons))
         /\ \A s \in DOMAIN stage.skeletons :
              /\ DOMAIN WithBinding(stage, bake).skeletons[s] = DOMAIN stage.skeletons[s]
              /\ WithBinding(stage, bake).skeletons[s].path = stage.skeletons[s].path
              /\ WithBinding(stage, bake).skeletons[s].joints = stage.skeletons[s].joints
<1> DEFINE authored == WithAnimation(stage, bake)
           bound(s) == IF stage.skeletons[s].path = bake.skeleton
                       THEN [stage.skeletons[s] EXCEPT !.source = {bake.path}] ELSE stage.skeletons[s]
           after == [s \in DOMAIN stage.skeletons |-> bound(s)]
<1>1. /\ DOMAIN authored = DOMAIN stage
      /\ authored.animations = Append(stage.animations, BakedAnimation(bake))
      /\ authored.rate = stage.rate /\ authored.start = stage.start
      /\ authored.skeletons = stage.skeletons
      /\ authored.channels = stage.channels
  BY WithAnimationKeeps
<1> HIDE DEF authored
<1>2. WithBinding(stage, bake) = [authored EXCEPT !.skeletons = after]
  BY <1>1 DEF WithBinding, authored
<1>3. \A s \in DOMAIN stage.skeletons :
        /\ DOMAIN after[s] = DOMAIN stage.skeletons[s]
        /\ after[s].path = stage.skeletons[s].path /\ after[s].joints = stage.skeletons[s].joints
  <2> SUFFICES ASSUME NEW s \in DOMAIN stage.skeletons
               PROVE  /\ DOMAIN bound(s) = DOMAIN stage.skeletons[s]
                      /\ bound(s).path = stage.skeletons[s].path
                      /\ bound(s).joints = stage.skeletons[s].joints
    OBVIOUS
  <2>1. DOMAIN stage.skeletons[s] = {"path", "joints", "source", "rests"}
    BY DEF IsStage
  <2>2. QED
    BY <2>1
<1>4. DOMAIN after = 1 .. Len(stage.skeletons) /\ Len(stage.skeletons) \in Nat
  BY StageFields
<1>5. after \in Seq(Range(after))
  <2>1. \A s \in DOMAIN after : after[s] \in Range(after)
    BY DEF Range
  <2>2. after = [s \in 1 .. Len(stage.skeletons) |-> after[s]]
    BY <1>4
  <2> HIDE DEF after
  <2>3. QED
    BY <1>4, <2>1, <2>2
<1>6. DOMAIN after = DOMAIN stage.skeletons
  OBVIOUS
<1> HIDE DEF after
<1>7. /\ DOMAIN WithBinding(stage, bake) = DOMAIN stage
      /\ WithBinding(stage, bake).skeletons = after
      /\ WithBinding(stage, bake).animations = authored.animations
      /\ WithBinding(stage, bake).rate = authored.rate /\ WithBinding(stage, bake).start = authored.start
      /\ WithBinding(stage, bake).channels = authored.channels
  BY <1>1, <1>2, StageFields
<1>8. QED
  BY <1>1, <1>3, <1>5, <1>6, <1>7

(* A baked animation holds each sample of the bake at its code.            *)
LEMMA BakedArrays ==
  ASSUME NEW bake, IsBake(bake),
         \A i \in DOMAIN bake.samples : i > 1 => Code(bake, i - 1) < Code(bake, i)
  PROVE  LET played == BakedAnimation(bake)
         IN  /\ IsAttribute(played.rotations) /\ IsAttribute(played.translations)
             /\ \A i \in DOMAIN bake.samples :
                  /\ ArrayAt(played.rotations, Code(bake, i)) = bake.samples[i].rotations
                  /\ ArrayAt(played.translations, Code(bake, i)) = bake.samples[i].translations
<1>1. /\ IsFiniteSet(DOMAIN bake.samples)
      /\ \A i \in DOMAIN bake.samples : Code(bake, i) \in Int
      /\ \A i, k \in DOMAIN bake.samples : Code(bake, i) = Code(bake, k) => i = k
  <2>1. /\ IsSequence(bake.samples)
        /\ \A i \in DOMAIN bake.samples : bake.samples[i].timestamp \in Int
    BY DEF IsBake
  <2>2. /\ Len(bake.samples) \in Nat /\ DOMAIN bake.samples = 1 .. Len(bake.samples)
        /\ \A i \in DOMAIN bake.samples : Code(bake, i) \in Int
        /\ \A i, k \in DOMAIN bake.samples : Code(bake, i) = Code(bake, k) => i = k
    BY <2>1, CodesDiffer
  <2>3. IsFiniteSet(1 .. Len(bake.samples))
    BY <2>2, FS_Interval
  <2>4. QED
    BY <2>2, <2>3
<1>2. ASSUME NEW value, DOMAIN value = DOMAIN bake.samples,
             \A i \in DOMAIN bake.samples : IsSequence(value[i])
      PROVE  LET attr == Flat(Keyframes(bake, value))
             IN  /\ IsAttribute(attr)
                 /\ \A i \in DOMAIN bake.samples : ArrayAt(attr, Code(bake, i)) = value[i]
  <2> DEFINE attr == Flat(Keyframes(bake, value))
  <2>1. IsAttribute(attr)
    BY <1>1, <1>2, KeyframesAreAttributes
  <2>2. \A i \in DOMAIN bake.samples :
          Code(bake, i) \in Keys(attr) /\ attr.keys[Code(bake, i)] = value[i]
    BY <1>1, <1>2, KeyframesHold
  <2> HIDE DEF attr
  <2>3. \A i \in DOMAIN bake.samples : ArrayAt(attr, Code(bake, i)) = value[i]
    BY <1>2, <2>1, <2>2, ResolvedAtAKey
  <2>4. QED
    BY <2>1, <2>3 DEF attr
<1> DEFINE rotations == [i \in DOMAIN bake.samples |-> bake.samples[i].rotations]
           translations == [i \in DOMAIN bake.samples |-> bake.samples[i].translations]
<1>3. /\ DOMAIN rotations = DOMAIN bake.samples
      /\ \A i \in DOMAIN bake.samples :
           IsSequence(rotations[i]) /\ rotations[i] = bake.samples[i].rotations
  BY DEF IsBake
<1>4. /\ DOMAIN translations = DOMAIN bake.samples
      /\ \A i \in DOMAIN bake.samples :
           IsSequence(translations[i]) /\ translations[i] = bake.samples[i].translations
  BY DEF IsBake
<1>5. /\ BakedAnimation(bake).rotations = Flat(Keyframes(bake, rotations))
      /\ BakedAnimation(bake).translations = Flat(Keyframes(bake, translations))
  BY DEF BakedAnimation
<1> HIDE DEF rotations, translations
<1>6. QED
  BY <1>2, <1>3, <1>4, <1>5

(* A bake that changes the layer binds the rig to what it baked.           *)
BakedWhole(bake) ==
  \E s \in FindSkeleton(layer', {bake.skeleton}), a \in DOMAIN layer'.animations :
    LET played == layer'.animations[a]
    IN  /\ Range(layer'.animations) \ {played} = Range(layer.animations)
        /\ BoundPath(layer', session, s) = {played.path}
        /\ played.joints = layer'.skeletons[s].joints
        /\ \A i \in DOMAIN bake.samples :
             /\ ArrayAt(played.rotations, Code(bake, i)) = bake.samples[i].rotations
             /\ ArrayAt(played.translations, Code(bake, i)) = bake.samples[i].translations

LEMMA BakeIsWhole ==
  ASSUME NEW bake, IsBake(bake), IsStage(layer), AuthorSkeletonAnimation(bake), layer' # layer
  PROVE  BakedWhole(bake)
<1> DEFINE n == Len(layer.animations)
<1>1. /\ Bakeable(layer, bake)
      /\ \A s \in FindSkeleton(layer, {bake.skeleton}) :
           layer' = IF BoundPath(WithBinding(layer, bake), session, s) = {bake.path}
                    THEN WithBinding(layer, bake)
                    ELSE Restored(layer, WithBinding(layer, bake))
  BY DEF AuthorSkeletonAnimation, Restored
<1>2. PICK s \in FindSkeleton(layer, {bake.skeleton}) : bake.joints = layer.skeletons[s].joints
  BY <1>1 DEF Bakeable
<1>3. s \in DOMAIN layer.skeletons /\ layer.skeletons[s].path = bake.skeleton
  BY <1>2 DEF FindSkeleton
<1>4. /\ layer' = WithBinding(layer, bake)
      /\ BoundPath(WithBinding(layer, bake), session, s) = {bake.path}
  BY <1>1, <1>2 DEF Restored
<1>5. /\ layer'.animations = Append(layer.animations, BakedAnimation(bake))
      /\ DOMAIN layer'.skeletons = DOMAIN layer.skeletons
      /\ layer'.skeletons[s].path = layer.skeletons[s].path
      /\ layer'.skeletons[s].joints = layer.skeletons[s].joints
  <2> DEFINE after == WithBinding(layer, bake)
  <2>1. /\ after.animations = Append(layer.animations, BakedAnimation(bake))
        /\ DOMAIN after.skeletons = DOMAIN layer.skeletons
        /\ after.skeletons[s].path = layer.skeletons[s].path
        /\ after.skeletons[s].joints = layer.skeletons[s].joints
    BY <1>3, WithBindingKeeps
  <2> HIDE DEF after
  <2>2. QED
    BY <1>4, <2>1 DEF after
<1>6. s \in FindSkeleton(layer', {bake.skeleton})
  BY <1>3, <1>5 DEF FindSkeleton
<1>7. n + 1 \in DOMAIN layer'.animations /\ layer'.animations[n + 1] = BakedAnimation(bake)
  <2>1. n \in Nat /\ layer.animations \in Seq(Range(layer.animations))
    BY StageFields
  <2> HIDE DEF n
  <2>2. QED
    BY <1>5, <2>1, AppendProperties DEF n
<1>8. BakedAnimation(bake).path = bake.path /\ BakedAnimation(bake).joints = bake.joints
  BY DEF BakedAnimation
<1>9. \A i \in DOMAIN bake.samples :
        /\ ArrayAt(BakedAnimation(bake).rotations, Code(bake, i)) = bake.samples[i].rotations
        /\ ArrayAt(BakedAnimation(bake).translations, Code(bake, i)) = bake.samples[i].translations
  <2>1. \A i \in DOMAIN bake.samples : i > 1 => Code(bake, i - 1) < Code(bake, i)
    BY <1>1 DEF Bakeable
  <2>2. QED
    BY <2>1, BakedArrays
<1>10. BoundPath(layer', session, s) = {bake.path}
  BY <1>4
<1>11. Range(layer'.animations) \ {BakedAnimation(bake)} = Range(layer.animations)
  <2> DEFINE made == BakedAnimation(bake)
             after == layer'.animations
  <2>1. /\ n \in Nat /\ layer.animations \in Seq(Range(layer.animations))
        /\ DOMAIN layer.animations = 1 .. n
    BY StageFields
  <2>2. \A i \in 1 .. n : layer.animations[i].path # made.path
    BY <1>1, <1>8, <2>1 DEF Bakeable
  <2> HIDE DEF n, made
  <2>3. /\ DOMAIN after = 1 .. n + 1 /\ after[n + 1] = made
        /\ \A i \in 1 .. n : after[i] = layer.animations[i]
    <3>1. after = Append(layer.animations, made)
      BY <1>5 DEF made
    <3> HIDE DEF after
    <3> QED
      BY <2>1, <3>1, AppendProperties DEF n
  <2> HIDE DEF after
  <2>4. Range(after) = Range(layer.animations) \cup {made}
    BY <2>1, <2>3 DEF Range
  <2>5. made \notin Range(layer.animations)
    BY <2>1, <2>2 DEF Range
  <2> QED
    BY <2>4, <2>5 DEF after, made
<1> HIDE DEF n
<1>12. QED
  BY <1>2, <1>5, <1>6, <1>7, <1>8, <1>9, <1>10, <1>11 DEF BakedWhole

-----------------------------------------------------------------------------
(* Whatever is on disk and in the open layer is a stage.                   *)

StagesStand ==
  /\ disk # None => IsStage(disk)
  /\ layer # None => IsStage(layer)

LEMMA EmptyStageIsAStage == IsStage(EmptyStage)
<1>1. \A x : IsSequence(<< >>)
  BY DEF IsSequence, Range
<1>2. DOMAIN << >> = {}
  OBVIOUS
<1>3. /\ EmptyStage.skeletons = << >> /\ EmptyStage.animations = << >>
      /\ EmptyStage.channels = << >> /\ EmptyStage.rate \in Int /\ EmptyStage.start \in Int
  BY DEF EmptyStage, StageRate
<1>4. QED
  BY <1>1, <1>2, <1>3 DEF IsStage

LEMMA BakedStage ==
  ASSUME NEW stage, IsStage(stage), NEW bake, IsBake(bake), Bakeable(stage, bake)
  PROVE  IsStage(WithBinding(stage, bake))
<1> DEFINE after == WithBinding(stage, bake)
           n == Len(stage.animations)
           made == BakedAnimation(bake)
<1>1. /\ DOMAIN after = DOMAIN stage
      /\ after.animations = Append(stage.animations, made)
      /\ after.rate = stage.rate /\ after.start = stage.start
      /\ after.channels = stage.channels
      /\ DOMAIN after.skeletons = DOMAIN stage.skeletons
      /\ IsSequence(after.skeletons)
      /\ \A s \in DOMAIN stage.skeletons : DOMAIN after.skeletons[s] = DOMAIN stage.skeletons[s]
  <2>1. IsSequence(after.skeletons)
    BY WithBindingKeeps DEF IsSequence
  <2>2. \A s \in DOMAIN stage.skeletons : DOMAIN after.skeletons[s] = DOMAIN stage.skeletons[s]
    BY WithBindingKeeps
  <2>3. /\ DOMAIN after = DOMAIN stage
        /\ after.animations = Append(stage.animations, made)
        /\ after.rate = stage.rate /\ after.start = stage.start
        /\ after.channels = stage.channels
        /\ DOMAIN after.skeletons = DOMAIN stage.skeletons
    BY WithBindingKeeps
  <2> HIDE DEF after, made
  <2>4. QED
    BY <2>1, <2>2, <2>3
<1> HIDE DEF after
<1>2. /\ n \in Nat /\ stage.animations \in Seq(Range(stage.animations))
      /\ DOMAIN stage.animations = 1 .. n
  BY StageFields
<1>3. /\ Len(after.animations) = n + 1 /\ DOMAIN after.animations = 1 .. n + 1
      /\ \A a \in 1 .. n : after.animations[a] = stage.animations[a]
      /\ after.animations[n + 1] = made
  <2>1. stage.animations \in Seq(Range(stage.animations) \cup {made})
    BY <1>2
  <2> HIDE DEF n, made
  <2>2. QED
    BY <1>1, <1>2, <2>1, AppendProperties DEF n
<1>4. IsSequence(after.animations)
  <2> DEFINE S == Range(after.animations)
  <2>1. \A a \in 1 .. n + 1 : after.animations[a] \in S
    BY <1>3 DEF Range
  <2>2. after.animations = [a \in 1 .. n + 1 |-> after.animations[a]]
    <3>1. Append(stage.animations, made) \in Seq(Range(stage.animations) \cup {made})
      BY <1>2
    <3>2. QED
      BY <1>1, <1>3, <3>1
  <2> HIDE DEF S
  <2>3. n + 1 \in Nat
    BY <1>2
  <2> HIDE DEF n
  <2>4. after.animations \in Seq(S)
    BY <2>1, <2>2, <2>3
  <2>5. QED
    BY <2>4 DEF IsSequence, S
<1>5. /\ made.path = bake.path /\ made.joints = bake.joints
      /\ IsAttribute(made.rotations) /\ IsAttribute(made.translations) /\ IsAttribute(made.gaze)
  <2>1. \A i \in DOMAIN bake.samples : i > 1 => Code(bake, i - 1) < Code(bake, i)
    BY DEF Bakeable
  <2>2. IsAttribute(made.rotations) /\ IsAttribute(made.translations)
    BY <2>1, BakedArrays
  <2>3. made.path = bake.path /\ made.joints = bake.joints /\ made.gaze = NoOpinion
    BY DEF BakedAnimation
  <2>4. IsAttribute(NoOpinion)
    <3>1. Keys(NoOpinion) = {}
      BY DEF Keys, NoOpinion
    <3>2. QED
      BY <3>1, FS_EmptySet DEF IsAttribute
  <2> HIDE DEF made
  <2>5. QED
    BY <2>2, <2>3, <2>4
<1>6. IsSequence(made.joints)
  BY <1>5 DEF IsBake
<1>7. \A a \in 1 .. n : stage.animations[a].path # made.path
  BY <1>2, <1>5 DEF Bakeable
<1> HIDE DEF made
<1>8. ASSUME NEW a \in DOMAIN after.animations
      PROVE  /\ IsSequence(after.animations[a].joints)
             /\ IsAttribute(after.animations[a].rotations) /\ IsAttribute(after.animations[a].translations)
             /\ IsAttribute(after.animations[a].gaze)
             /\ \A b \in DOMAIN after.animations :
                  after.animations[b].path = after.animations[a].path => b = a
  <2>1. CASE a = n + 1
    BY <1>2, <1>3, <1>5, <1>6, <1>7, <2>1
  <2>2. CASE a # n + 1
    <3>1. a \in 1 .. n /\ after.animations[a] = stage.animations[a]
      BY <1>2, <1>3, <2>2
    <3>2. /\ IsSequence(stage.animations[a].joints)
          /\ IsAttribute(stage.animations[a].rotations) /\ IsAttribute(stage.animations[a].translations)
          /\ IsAttribute(stage.animations[a].gaze)
          /\ \A b \in 1 .. n : stage.animations[b].path = stage.animations[a].path => b = a
      BY <1>2, <3>1 DEF IsStage
    <3>3. ASSUME NEW b \in DOMAIN after.animations, after.animations[b].path = after.animations[a].path
          PROVE  b = a
      <4>1. b # n + 1
        BY <1>3, <1>7, <3>1, <3>3
      <4>2. b \in 1 .. n
        BY <1>2, <1>3, <4>1
      <4>3. QED
        BY <1>3, <3>1, <3>2, <3>3, <4>2
    <3>4. QED
      BY <3>1, <3>2, <3>3
  <2>3. QED
    BY <2>1, <2>2
<1>9. /\ stage.rate \in Int /\ stage.start \in Int /\ DOMAIN stage = DOMAIN EmptyStage
      /\ IsSequence(stage.channels)
      /\ \A s \in DOMAIN stage.skeletons :
           DOMAIN stage.skeletons[s] = {"path", "joints", "source", "rests"}
      /\ \A c \in DOMAIN stage.channels : IsAttribute(stage.channels[c].value)
  BY DEF IsStage
<1>10. QED
  BY <1>1, <1>4, <1>8, <1>9 DEF IsStage, after

LEMMA SingletonIsASequence ==
  ASSUME NEW x
  PROVE  /\ IsSequence(Append(<< >>, x)) /\ DOMAIN Append(<< >>, x) = 1 .. 1
         /\ Append(<< >>, x)[1] = x
<1>1. << >> \in Seq({x}) /\ Len(<< >>) = 0
  OBVIOUS
<1> DEFINE s == Append(<< >>, x)
<1>2. s \in Seq({x}) /\ Len(s) = 1 /\ s[1] = x
  BY <1>1, AppendProperties
<1> HIDE DEF s
<1>3. DOMAIN s = 1 .. 1 /\ s = [i \in 1 .. 1 |-> s[i]]
  BY <1>2
<1>4. IsSequence(s)
  BY <1>3, ListIsASequence
<1>5. QED
  BY <1>2, <1>3, <1>4 DEF s

-----------------------------------------------------------------------------
(* What a writer authors.                                                  *)

(* Some samples' values make an attribute.                                 *)
LEMMA SomeKeyframes ==
  ASSUME NEW clip, IsClip(clip),
         \A i \in DOMAIN clip.samples : i > 1 => Code(clip, i - 1) < Code(clip, i),
         NEW value, DOMAIN value \subseteq DOMAIN clip.samples
  PROVE  IsAttribute(Keyframes(clip, value)) /\ IsAttribute(Flat(Keyframes(clip, value)))
<1>1. /\ IsSequence(clip.samples)
      /\ \A i \in DOMAIN clip.samples : clip.samples[i].timestamp \in Int
  BY DEF IsClip
<1>2. /\ Len(clip.samples) \in Nat /\ DOMAIN clip.samples = 1 .. Len(clip.samples)
      /\ \A i \in DOMAIN clip.samples : Code(clip, i) \in Int
      /\ \A i, k \in DOMAIN clip.samples : Code(clip, i) = Code(clip, k) => i = k
  BY <1>1, CodesDiffer
<1>3. IsFiniteSet(1 .. Len(clip.samples))
  BY <1>2, FS_Interval
<1>4. IsFiniteSet(DOMAIN value)
  BY <1>2, <1>3, FS_Subset
<1>5. QED
  BY <1>2, <1>4, KeyframesAreAttributes

(* A finite set is listed completely.                                      *)
LEMMA SetToSeqLists ==
  ASSUME NEW S, IsFiniteSet(S)
  PROVE  /\ IsSequence(SetToSeq(S)) /\ Len(SetToSeq(S)) \in Nat
         /\ DOMAIN SetToSeq(S) = 1 .. Len(SetToSeq(S))
         /\ \A i \in DOMAIN SetToSeq(S) : SetToSeq(S)[i] \in S
         /\ \A i, k \in DOMAIN SetToSeq(S) : SetToSeq(S)[i] = SetToSeq(S)[k] => i = k
         /\ \A x \in S : \E i \in DOMAIN SetToSeq(S) : SetToSeq(S)[i] = x
<1> DEFINE n == Cardinality(S)
           s == SetToSeq(S)
<1>1. n \in Nat /\ ExistsBijection(1 .. n, S)
  BY FS_CardinalityType
<1>2. \E f \in [1 .. n -> S] : IsInjective(f)
  BY <1>1 DEF ExistsBijection, Bijection, Injection, IsInjective
<1>3. s \in [1 .. n -> S] /\ IsInjective(s)
  BY <1>2 DEF SetToSeq
<1> HIDE DEF s
<1>4. s \in Injection(1 .. n, S)
  BY <1>3 DEF Injection
<1>5. Cardinality(1 .. n) = n
  <2>1. Cardinality(1 .. n) = IF 1 > n THEN 0 ELSE n - 1 + 1
    BY <1>1, FS_Interval
  <2>2. QED
    BY <1>1, <2>1
<1>6. s \in Surjection(1 .. n, S)
  BY <1>4, <1>5, FS_Injection
<1>7. s = [i \in 1 .. n |-> s[i]] /\ n \in Nat
  BY <1>1, <1>3
<1>8. IsSequence(s) /\ Len(s) = n /\ DOMAIN s = 1 .. n
  <2> HIDE DEF n
  <2>1. QED
    BY <1>7, ListIsASequence
<1>9. \A i, k \in 1 .. n : s[i] = s[k] => i = k
  BY <1>3 DEF IsInjective
<1>10. QED
  BY <1>1, <1>3, <1>6, <1>8, <1>9 DEF Surjection, s

LEMMA ChannelNamesAreFinite ==
  ASSUME NEW clip, IsClip(clip)
  PROVE  IsFiniteSet(ChannelNames(clip))
<1> DEFINE names == [i \in DOMAIN clip.samples |-> DOMAIN clip.samples[i].channels]
<1>1. /\ Len(clip.samples) \in Nat /\ DOMAIN clip.samples = 1 .. Len(clip.samples)
      /\ \A i \in DOMAIN names : IsFiniteSet(names[i])
  <2>1. \A i \in DOMAIN clip.samples : IsFiniteSet(DOMAIN clip.samples[i].channels)
    BY DEF IsClip
  <2>2. IsSequence(clip.samples)
    BY DEF IsClip
  <2>3. QED
    BY <2>1, <2>2 DEF IsSequence
<1>2. IsFiniteSet(1 .. Len(clip.samples))
  BY <1>1, FS_Interval
<1>3. DOMAIN names = 1 .. Len(clip.samples)
  BY <1>1
<1>4. ChannelNames(clip) = UNION {names[i] : i \in DOMAIN names}
  BY DEF ChannelNames
<1> HIDE DEF names
<1>5. QED
  BY <1>1, <1>2, <1>3, <1>4, FiniteUnion

LEMMA AuthoredStage ==
  ASSUME NEW clip, IsClip(clip), NEW stated, IsAuthorable(EmptyStage, clip, stated)
  PROVE  IsStage(Authored(EmptyStage, clip, stated))
<1> DEFINE stage == Authored(EmptyStage, clip, stated)
           rest == RestOf(clip, stated)
           body == AuthoredBody(clip, rest)
           names == SetToSeq(ChannelNames(clip))
           channels == [c \in DOMAIN names |-> AuthoredChannel(clip, names[c])]
           skeleton == [path |-> "Skeleton", joints |-> body.joints, source |-> {"Body"},
                        rests |-> [b \in DOMAIN body.joints |->
                                     <<rest.rotations[Leaf(body.joints[b])],
                                       rest.places[Leaf(body.joints[b])]>>]]
<1>1. /\ EmptyStage.skeletons = << >> /\ EmptyStage.animations = << >>
      /\ EmptyStage.channels = << >>
  BY DEF EmptyStage
<1>2. /\ DOMAIN stage = {"rate", "metric", "start", "nominal", "skeletons", "animations", "channels"}
      /\ stage.rate = StageRate /\ stage.start = TimeCodeFor(StartOf(clip))
      /\ stage.skeletons = Append(<< >>, skeleton)
      /\ stage.animations = Append(<< >>, body)
      /\ stage.channels = << >> \o channels
  <2> HIDE DEF skeleton, body, channels
  <2>1. Authored(EmptyStage, clip, stated)
          = [rate |-> StageRate, metric |-> TRUE, start |-> TimeCodeFor(StartOf(clip)),
             nominal |-> {clip.nominal}, skeletons |-> Append(<< >>, skeleton),
             animations |-> Append(<< >>, body), channels |-> << >> \o channels]
    BY <1>1 DEF Authored, skeleton, body, channels
  <2>2. QED
    BY <2>1
<1>3. \A i \in DOMAIN clip.samples : i > 1 => Code(clip, i - 1) < Code(clip, i)
  BY DEF IsAuthorable
<1>4. IsSequence(channels) /\ DOMAIN channels = DOMAIN names
  <2>1. Len(names) \in Nat /\ DOMAIN names = 1 .. Len(names)
    BY ChannelNamesAreFinite, SetToSeqLists
  <2>2. channels = [c \in 1 .. Len(names) |-> channels[c]]
    BY <2>1
  <2> HIDE DEF names, channels
  <2>3. QED
    BY <2>1, <2>2, ListIsASequence
<1>5. << >> \o channels = channels
  <2> HIDE DEF channels
  <2>1. channels \in Seq(Range(channels))
    BY <1>4 DEF IsSequence
  <2>2. QED
    BY <2>1, ConcatEmptySeq
<1>6. \A c \in DOMAIN channels : IsAttribute(channels[c].value)
  <2> SUFFICES ASSUME NEW c \in DOMAIN channels
               PROVE  IsAttribute(AuthoredChannel(clip, names[c]).value)
    OBVIOUS
  <2> DEFINE carrying == {i \in DOMAIN clip.samples : names[c] \in DOMAIN clip.samples[i].channels}
             value == [i \in carrying |-> clip.samples[i].channels[names[c]]]
  <2>1. AuthoredChannel(clip, names[c]).value = Keyframes(clip, value)
    BY DEF AuthoredChannel
  <2>2. DOMAIN value \subseteq DOMAIN clip.samples
    OBVIOUS
  <2> HIDE DEF value
  <2>3. QED
    BY <1>3, <2>1, <2>2, SomeKeyframes
<1>7. /\ IsAttribute(body.rotations) /\ IsAttribute(body.translations)
      /\ IsAttribute(body.gaze)
  <2> DEFINE bones == Only(Vocabulary, Present(rest))
             turns == [i \in DOMAIN clip.samples |->
                         [b \in DOMAIN bones |->
                            IF bones[b] \in DOMAIN clip.samples[i].rotations
                            THEN clip.samples[i].rotations[bones[b]] ELSE rest.rotations[bones[b]]]]
             moves == [i \in DOMAIN clip.samples |->
                         [b \in DOMAIN bones |-> IF bones[b] = Hips THEN HeldPlace(clip, rest, i)
                                                 ELSE rest.places[bones[b]]]]
             gazing == {i \in DOMAIN clip.samples : clip.samples[i].gaze # {}}
             gazes == [i \in gazing |-> The(clip.samples[i].gaze)]
  <2>1. /\ body.rotations = Flat(Keyframes(clip, turns))
        /\ body.translations = Flat(Keyframes(clip, moves))
        /\ body.gaze = Keyframes(clip, gazes)
    <3> HIDE DEF rest
    <3>1. QED
      BY DEF AuthoredBody
  <2>2. /\ DOMAIN turns \subseteq DOMAIN clip.samples /\ DOMAIN moves \subseteq DOMAIN clip.samples
        /\ DOMAIN gazes \subseteq DOMAIN clip.samples
    OBVIOUS
  <2> HIDE DEF turns, moves, gazes, body
  <2>3. QED
    BY <1>3, <2>1, <2>2, SomeKeyframes
<1>8. IsSequence(body.joints)
  <2> DEFINE bones == Only(Vocabulary, Present(rest))
             joints == [b \in DOMAIN bones |-> HumanJointPath(bones[b], Present(rest))]
  <2>1. body.joints = joints
    <3> HIDE DEF rest
    <3>1. QED
      BY DEF AuthoredBody
  <2>2. \E m \in Nat : DOMAIN bones = 1 .. m
    <3>1. IsSequence(Vocabulary)
      BY VocabularyAssumption DEF IsSequence, Range
    <3>2. QED
      BY <3>1, OnlyKeeps
  <2>3. PICK m \in Nat : joints = [b \in 1 .. m |-> joints[b]]
    BY <2>2
  <2> HIDE DEF joints, body
  <2>4. QED
    BY <2>1, <2>3, ListIsASequence
<1>9. DOMAIN skeleton = {"path", "joints", "source", "rests"}
  OBVIOUS
<1> HIDE DEF skeleton, body, channels, stage
<1>10. /\ IsSequence(stage.skeletons) /\ DOMAIN stage.skeletons = 1 .. 1
       /\ stage.skeletons[1] = skeleton
       /\ IsSequence(stage.animations) /\ DOMAIN stage.animations = 1 .. 1
       /\ stage.animations[1] = body
  BY <1>2, SingletonIsASequence
<1>11. DOMAIN stage = DOMAIN EmptyStage
  BY <1>2 DEF EmptyStage
<1>12. stage.channels = channels /\ stage.rate \in Int /\ stage.start \in Int
  <2>1. StartOf(clip) \in Int
    <3>1. 1 \in DOMAIN clip.samples
      BY DEF IsAuthorable, IsClip, IsSequence
    <3>2. QED
      BY <3>1 DEF StartOf, IsClip
  <2>2. TimeCodeFor(StartOf(clip)) \in Int
    BY <2>1, TimeCodeIsANumber
  <2>3. QED
    BY <1>2, <1>5, <2>2 DEF StageRate
<1>13. 1 .. 1 = {1}
  OBVIOUS
<1>14. IsStage(stage)
  BY <1>4, <1>6, <1>7, <1>8, <1>9, <1>10, <1>11, <1>12, <1>13 DEF IsStage
<1>15. QED
  BY <1>14 DEF stage

-----------------------------------------------------------------------------
(* The invariant, over every call.                                         *)

StageInv == StagesStand /\ (clock = {} \/ \E code : clock = {code})

LEMMA WriteKeepsStages ==
  ASSUME StagesStand, NEW clip \in Clips, NEW stated, WriteMotionStage(clip, stated)
  PROVE  StagesStand'
<1>1. IsClip(clip)
  BY StagesAssumption
<1>2. CASE IsAuthorable(EmptyStage, clip, stated)
  <2> DEFINE scratch == Authored(EmptyStage, clip, stated)
  <2>1. IsStage(scratch)
    BY <1>1, <1>2, AuthoredStage
  <2> HIDE DEF scratch
  <2>2. AuthorMotionStage(EmptyStage, clip, stated) = {scratch}
    BY <1>2 DEF AuthorMotionStage, scratch
  <2>3. \/ Replace(scratch, clip, stated)
        \/ FailToSave(scratch)
        \/ UNCHANGED <<disk, layer>>
    BY <2>2 DEF WriteMotionStage
  <2>4. /\ disk' \in {scratch, disk} \/ (disk = None /\ disk' = EmptyStage)
        /\ layer' \in {scratch, layer} \/ layer' = None
    BY <2>3 DEF Replace, FailToSave
  <2>5. QED
    BY <2>1, <2>4, EmptyStageIsAStage DEF StagesStand
<1>3. CASE ~IsAuthorable(EmptyStage, clip, stated)
  <2>1. UNCHANGED <<disk, layer>>
    BY <1>3 DEF WriteMotionStage, AuthorMotionStage
  <2>2. QED
    BY <2>1 DEF StagesStand
<1>4. QED
  BY <1>2, <1>3

LEMMA BakeKeepsStages ==
  ASSUME StagesStand, NEW bake \in Bakes, AuthorSkeletonAnimation(bake)
  PROVE  StagesStand'
<1>1. IsBake(bake) /\ IsStage(layer) /\ layer # None /\ disk' = disk
  BY StagesAssumption DEF StagesStand, AuthorSkeletonAnimation
<1>2. layer' = layer \/ (Bakeable(layer, bake) /\ layer' = WithBinding(layer, bake))
  <2>1. FindSkeleton(layer, {bake.skeleton}) # {} \/ ~Bakeable(layer, bake)
    BY DEF Bakeable
  <2>2. QED
    BY <2>1 DEF AuthorSkeletonAnimation, Restored
<1>3. IsStage(layer')
  BY <1>1, <1>2, BakedStage
<1>4. QED
  BY <1>1, <1>3 DEF StagesStand

LEMMA FileKeepsStages ==
  ASSUME StagesStand, FileNext
  PROVE  StagesStand'
<1>1. CASE \E clip \in Clips, stated \in Stated : WriteMotionStage(clip, stated)
  BY <1>1, WriteKeepsStages
<1>2. CASE \E bake \in Bakes : AuthorSkeletonAnimation(bake)
  BY <1>2, BakeKeepsStages
<1>3. CASE \E path \in {"Body", "Baked"} : BindInSession(path)
  BY <1>3 DEF BindInSession, StagesStand
<1>4. CASE Open
  BY <1>4 DEF Open, StagesStand
<1>5. CASE Save
  BY <1>5 DEF Save, StagesStand
<1>6. CASE Close
  BY <1>6 DEF Close, StagesStand
<1>7. QED
  BY <1>1, <1>2, <1>3, <1>4, <1>5, <1>6 DEF FileNext

LEMMA StageInvHolds == ExecSpec => []StageInv
<1>1. ExecInit => StageInv
  BY StagesAssumption DEF ExecInit, Init, StageInv, StagesStand
<1>2. StageInv /\ [ExecNext]_execVars => StageInv'
  <2> SUFFICES ASSUME StageInv, [ExecNext]_execVars
               PROVE  StageInv'
    OBVIOUS
  <2>1. CASE clock = {} /\ FileNext /\ UNCHANGED <<clock, prior, history>>
    BY <2>1, FileKeepsStages DEF StageInv
  <2>2. CASE /\ clock # {}
             /\ \/ \E clip \in Clips : WriteMotionStage(clip, {})
                \/ \E stage \in Foreign : Reload(stage)
             /\ UNCHANGED <<clock, prior, history>>
    <3>1. CASE \E clip \in Clips : WriteMotionStage(clip, {})
      BY <2>2, <3>1, WriteKeepsStages DEF StageInv
    <3>2. CASE \E stage \in Foreign : Reload(stage)
      BY <2>2, <3>2, StagesAssumption DEF Reload, StageInv, StagesStand
    <3>3. QED
      BY <2>2, <3>1, <3>2
  <2>3. CASE clock # {} /\ Close /\ clock' = {} /\ prior' = {} /\ history' = {}
    BY <2>3 DEF Close, StageInv, StagesStand
  <2>4. CASE /\ layer # None /\ layer = disk /\ session = {}
             /\ \/ \E code \in TimeCodes : ChangeTime(code)
                \/ history = {} /\ \E a \in DOMAIN layer.animations : FeedBack(layer.animations[a])
                \/ prior = {} /\ \E a \in DOMAIN layer.animations : Snapshot(layer.animations[a])
    <3>1. UNCHANGED stageVars /\ (clock' = clock \/ \E code : clock' = {code})
      BY <2>4 DEF ChangeTime, FeedBack, Snapshot
    <3>2. QED
      BY <3>1 DEF StageInv, StagesStand, stageVars
  <2>5. CASE UNCHANGED execVars
    BY <2>5 DEF execVars, stageVars, StageInv, StagesStand
  <2>6. QED
    BY <2>1, <2>2, <2>3, <2>4, <2>5 DEF ExecNext
<1>3. QED
  BY <1>1, <1>2, PTL DEF ExecSpec

-----------------------------------------------------------------------------
(* The exec nodes.                                                         *)

(* A source's pose is the one its animation computes.                      *)
LEMMA SampleOfItsAnimation ==
  ASSUME IsStage(layer), NEW a \in DOMAIN layer.animations
  PROVE  SampleOf(layer.animations[a].path) = SampleAnimation(layer.animations[a])
<1> DEFINE path == layer.animations[a].path
           there == {b \in DOMAIN layer.animations : layer.animations[b].path = path}
<1>1. there = {a}
  BY DEF IsStage
<1>2. SampleOf(path) = UNION {SampleAnimation(layer.animations[b]) : b \in there}
  BY DEF SampleOf
<1> HIDE DEF there
<1>3. QED
  BY <1>1, <1>2

(* A blend that answers has heard every target.                            *)
LEMMA BlendHearsEveryTarget ==
  ASSUME NEW sources, IsSequence(sources), NEW weights, Blend(sources, weights) # {}
  PROVE  /\ IsSequence(Targets(sources)) /\ Targets(sources) # << >>
         /\ Len(weights) = Len(Targets(sources))
         /\ Blend(sources, weights) = BlendPoses(Answers(sources), weights)
         /\ Answers(sources) = [k \in DOMAIN Targets(sources) |-> The(SampleOf(Targets(sources)[k]))]
         /\ \A k \in DOMAIN Targets(sources) : SampleOf(Targets(sources)[k]) # {}
<1> DEFINE targets == Targets(sources)
           telling == {path \in Prims : SampleOf(path) # {}}
           answered == Only(targets, telling)
<1>1. IsSequence(targets)
  BY OnlyKeeps DEF Targets
<1>2. /\ targets # << >>
      /\ Len(Answers(sources)) = Len(targets) /\ Len(weights) = Len(targets)
      /\ Blend(sources, weights) = BlendPoses(Answers(sources), weights)
  BY DEF Blend, BlendedPose
<1>3. PICK m \in Nat : m = Len(answered) /\ DOMAIN answered = 1 .. m
  <2> HIDE DEF targets, telling
  <2>1. QED
    BY <1>1, OnlyKeeps
<1>4. Answers(sources) = [k \in DOMAIN answered |-> The(SampleOf(answered[k]))]
  BY DEF Answers
<1> HIDE DEF answered, telling, targets
<1>5. Len(Answers(sources)) = m
  <2>1. Answers(sources) = [k \in 1 .. m |-> Answers(sources)[k]]
    BY <1>3, <1>4
  <2>2. QED
    BY <2>1, ListIsASequence
<1>6. answered = targets /\ \A k \in DOMAIN targets : targets[k] \in telling
  BY <1>1, <1>2, <1>3, <1>5, OnlyWhole DEF answered
<1>7. QED
  BY <1>1, <1>2, <1>4, <1>6 DEF targets, telling

LEMMA RefusalReaches ==
  ASSUME StageInv PROVE RefusalReachesEveryNode
<1> SUFFICES ASSUME NEW animation \in Evaluated, SampleAnimation(animation) = {}
             PROVE  /\ FilterPose(animation) = {}
                    /\ InterpolatePose(animation) = {}
                    /\ RootTransform(animation) = {}
                    /\ \A blend \in Blends :
                         animation.path \in Range(blend.sources) =>
                           Blend(blend.sources, blend.weights) = {}
  BY DEF RefusalReachesEveryNode
<1>1. FilterPose(animation) = {}
  BY DEF FilterPose
<1>2. InterpolatePose(animation) = {}
  BY DEF InterpolatePose
<1>3. RootTransform(animation) = {}
  <2>1. ExtractRootMotion(animation) = {}
    BY DEF ExtractRootMotion
  <2>2. QED
    BY <2>1 DEF RootTransform
<1>4. ASSUME NEW blend \in Blends, animation.path \in Range(blend.sources),
             Blend(blend.sources, blend.weights) # {}
      PROVE  FALSE
  <2>1. IsStage(layer) /\ \E a \in DOMAIN layer.animations : animation = layer.animations[a]
    BY DEF Evaluated, StageInv, StagesStand, Range
  <2>2. PICK a \in DOMAIN layer.animations : animation = layer.animations[a]
    BY <2>1
  <2>3. SampleOf(animation.path) = {}
    BY <2>1, <2>2, SampleOfItsAnimation
  <2>4. animation.path \in Prims
    BY <2>2 DEF Prims
  <2>5. PICK i \in DOMAIN blend.sources : blend.sources[i] = animation.path
    BY <1>4 DEF Range
  <2>6. IsSequence(blend.sources)
    BY BlendsAssumption
  <2>7. \E k \in DOMAIN Targets(blend.sources) : Targets(blend.sources)[k] = animation.path
    <3>1. i \in Kept(blend.sources, Prims)
      BY <2>4, <2>5 DEF Kept
    <3>2. QED
      BY <2>5, <2>6, <3>1, OnlyKeeps DEF Targets
  <2>8. \A k \in DOMAIN Targets(blend.sources) : SampleOf(Targets(blend.sources)[k]) # {}
    BY <1>4, <2>6, BlendHearsEveryTarget
  <2>9. QED
    BY <2>3, <2>7, <2>8
<1>5. QED
  BY <1>1, <1>2, <1>3, <1>4

(* A channel or a gaze is the reader's, and the body is the sampler's.     *)
Stating(body, channels, gaze) == [body EXCEPT !.channels = channels, !.gaze = gaze]

LEMMA BodyOfASample ==
  ASSUME NEW body, DOMAIN body = {"timestamp", "rotations", "facing", "place", "channels", "gaze"},
         body = [field \in DOMAIN body |-> body[field]],
         body.channels = << >>, body.gaze = {},
         NEW channels, NEW gaze
  PROVE  BodyOf(Stating(body, channels, gaze)) = body
<1> DEFINE read == Stating(body, channels, gaze)
           back == [read EXCEPT !.channels = << >>, !.gaze = {}]
<1>1. /\ DOMAIN read = DOMAIN body
      /\ \A field \in DOMAIN body \ {"channels", "gaze"} : read[field] = body[field]
  BY DEF Stating
<1> HIDE DEF read
<1>2. /\ DOMAIN back = DOMAIN body /\ back = [field \in DOMAIN body |-> back[field]]
      /\ back.channels = << >> /\ back.gaze = {}
      /\ \A field \in DOMAIN body \ {"channels", "gaze"} : back[field] = body[field]
  BY <1>1
<1>3. BodyOf(read) = back
  BY DEF BodyOf
<1> HIDE DEF back
<1>4. \A field \in DOMAIN body : back[field] = body[field]
  BY <1>2
<1>5. QED
  BY <1>2, <1>3, <1>4 DEF read

(* Arrays that do not match the joints contribute alike: nothing.          *)
LEMMA MisfitsAreAlike ==
  ASSUME NEW joints, NEW rate, NEW code,
         NEW r, NEW q, r = q \/ (Len(r) # Len(joints) /\ Len(q) # Len(joints)),
         NEW t, NEW u, t = u \/ (Len(t) # Len(joints) /\ Len(u) # Len(joints))
  PROVE  PoseFromStageSample(joints, r, t, rate, code) = PoseFromStageSample(joints, q, u, rate, code)
<1>1. PoseFromStageSample(joints, r, t, rate, code) = PoseFromStageSample(joints, q, t, rate, code)
  <2>1. CASE r = q
    BY <2>1
  <2>2. CASE Len(r) # Len(joints) /\ Len(q) # Len(joints)
    BY <2>2 DEF PoseFromStageSample
  <2>3. QED
    BY <2>1, <2>2
<1>2. PoseFromStageSample(joints, q, t, rate, code) = PoseFromStageSample(joints, q, u, rate, code)
  <2>1. CASE t = u
    BY <2>1
  <2>2. CASE Len(t) # Len(joints) /\ Len(u) # Len(joints)
    BY <2>2 DEF PoseFromStageSample
  <2>3. QED
    BY <2>1, <2>2
<1>3. QED
  BY <1>1, <1>2

(* At a code, exec's array is the reader's, but for one nobody authored.   *)
LEMMA InputsAgree ==
  ASSUME NEW code, clock = {code}, NEW attr, NEW fallback, NEW n \in Nat, n > 1
  PROVE  \/ InputArray(attr, fallback) = ArrayAt(attr, code)
         \/ Len(InputArray(attr, fallback)) # n /\ Len(ArrayAt(attr, code)) # n
<1>1. The(clock) = code
  BY DEF The
<1>2. CASE HasOpinion(attr)
  BY <1>1, <1>2 DEF InputArray, AtClock, ArrayAt
<1>3. CASE ~HasOpinion(attr)
  <2>1. Resolved(attr, code) = {}
    BY <1>3 DEF HasOpinion, Resolved
  <2>2. ArrayAt(attr, code) = << >> /\ InputArray(attr, fallback) = <<fallback>>
    BY <1>3, <2>1 DEF ArrayAt, InputArray
  <2>3. Len(<< >>) = 0 /\ Len(<<fallback>>) = 1
    OBVIOUS
  <2>4. QED
    BY <2>2, <2>3
<1>4. QED
  BY <1>2, <1>3

(* The reader takes finitely many instants.                                *)
LEMMA ReadCodesAreFinite ==
  ASSUME NEW stage, IsStage(stage), NEW a \in DOMAIN stage.animations
  PROVE  /\ IsFiniteSet(ReadCodes(stage, stage.animations[a], AsAuthored))
         /\ ReadCodes(stage, stage.animations[a], AsAuthored) \subseteq Int
<1> DEFINE animation == stage.animations[a]
           first == FirstOfEachName(stage.channels)
           keys == [i \in first |-> Keys(stage.channels[i].value)]
           channels == UNION {keys[i] : i \in DOMAIN keys}
           union == KeyUnion(stage, animation, AsAuthored)
<1>1. /\ IsAttribute(animation.rotations) /\ IsAttribute(animation.translations)
      /\ IsAttribute(animation.gaze)
      /\ IsSequence(stage.channels)
      /\ \A c \in DOMAIN stage.channels : IsAttribute(stage.channels[c].value)
      /\ stage.start \in Int
  BY DEF IsStage
<1>2. first \subseteq DOMAIN stage.channels
  BY DEF FirstOfEachName, Bindable
<1>3. GazeInput(animation, AsAuthored) = animation.gaze
  BY DEF GazeInput, AsAuthored
<1>4. ChannelInputs(stage, AsAuthored.channels) = {stage.channels[i] : i \in first}
  <2>1. AsAuthored.channels = << >> /\ Range(<< >>) = {}
    BY DEF AsAuthored, Range
  <2>2. QED
    BY <2>1 DEF ChannelInputs
<1> HIDE DEF first, animation
<1>5. UNION {Keys(channel.value) : channel \in ChannelInputs(stage, AsAuthored.channels)} = channels
  BY <1>4
<1>6. IsFiniteSet(channels) /\ channels \subseteq Int
  <2>1. /\ DOMAIN keys = first
        /\ \A i \in first : IsFiniteSet(keys[i]) /\ keys[i] \subseteq Int
    BY <1>1, <1>2 DEF IsAttribute
  <2>2. IsFiniteSet(first)
    <3>1. Len(stage.channels) \in Nat /\ DOMAIN stage.channels = 1 .. Len(stage.channels)
      BY <1>1 DEF IsSequence
    <3>2. IsFiniteSet(1 .. Len(stage.channels))
      BY <3>1, FS_Interval
    <3>3. QED
      BY <1>2, <3>1, <3>2, FS_Subset
  <2> HIDE DEF keys
  <2>3. IsFiniteSet(channels)
    BY <2>1, <2>2, FiniteUnion
  <2>4. QED
    BY <2>1, <2>3
<1>7. union = Keys(animation.rotations) \cup Keys(animation.translations)
                \cup Keys(animation.gaze) \cup channels
  BY <1>3, <1>5 DEF KeyUnion
<1> HIDE DEF channels
<1>8. IsFiniteSet(union) /\ union \subseteq Int
  <2>1. /\ IsFiniteSet(Keys(animation.rotations)) /\ IsFiniteSet(Keys(animation.translations))
        /\ IsFiniteSet(Keys(animation.gaze))
        /\ Keys(animation.rotations) \subseteq Int /\ Keys(animation.translations) \subseteq Int
        /\ Keys(animation.gaze) \subseteq Int
    BY <1>1 DEF IsAttribute
  <2>2. IsFiniteSet(Keys(animation.rotations) \cup Keys(animation.translations))
    BY <2>1, FS_Union
  <2>3. IsFiniteSet(Keys(animation.rotations) \cup Keys(animation.translations)
                      \cup Keys(animation.gaze))
    BY <2>1, <2>2, FS_Union
  <2>4. IsFiniteSet(union)
    BY <1>6, <1>7, <2>3, FS_Union
  <2>5. QED
    BY <1>6, <1>7, <2>1, <2>4
<1>9. IsFiniteSet({stage.start})
  BY FS_Singleton
<1>10. ReadCodes(stage, animation, AsAuthored) \in {union, {stage.start}}
  BY DEF ReadCodes
<1> HIDE DEF union
<1>11. QED
  BY <1>1, <1>8, <1>9, <1>10 DEF animation

LEMMA ExecAgrees ==
  ASSUME StageInv PROVE ExecAgreesWithReader
<1> SUFFICES ASSUME NEW animation \in Evaluated, NEW code \in clock,
                    NEW read \in ReadMotionStage(layer, session, {}, AsAuthored),
                    read.animation = animation.path, ~read.ratesDisagree,
                    Len(animation.joints) > 1,
                    code \in ReadCodes(layer, animation, AsAuthored),
                    NEW pose \in SampleAnimation(animation)
             PROVE  \E i \in DOMAIN read.samples : pose = BodyOf(read.samples[i])
  BY DEF ExecAgreesWithReader
<1>1. clock = {code} /\ layer # None /\ IsStage(layer)
  BY DEF StageInv, StagesStand, Evaluated
<1>2. PICK a \in DOMAIN layer.animations : animation = layer.animations[a]
  BY <1>1 DEF Evaluated, Range
<1>3. read = ReadFrom(layer, animation, AsAuthored)
  <2>1. PICK b \in DOMAIN layer.animations : read = ReadFrom(layer, layer.animations[b], AsAuthored)
    BY DEF ReadMotionStage
  <2>2. layer.animations[b].path = animation.path
    BY <2>1 DEF ReadFrom
  <2>3. b = a
    BY <1>1, <1>2, <2>2 DEF IsStage
  <2>4. QED
    BY <1>2, <2>1, <2>3
<1> DEFINE codes == ReadCodes(layer, animation, AsAuthored)
           rate  == UsableRate(layer)
           rotations == ArrayAt(animation.rotations, code)
           translations == ArrayAt(animation.translations, code)
<1>4. /\ DOMAIN read.samples = DOMAIN InOrder(codes)
      /\ \A i \in DOMAIN read.samples :
           read.samples[i] = PoseAt(layer, animation, AsAuthored, InOrder(codes)[i])
      /\ ~RatesDisagree(layer, animation)
  BY <1>3 DEF ReadFrom
<1>5. PICK i \in DOMAIN read.samples : InOrder(codes)[i] = code
  <2>1. IsFiniteSet(codes) /\ codes \subseteq Int
    BY <1>1, <1>2, ReadCodesAreFinite
  <2> HIDE DEF codes
  <2>2. /\ InOrder(codes) \in [1 .. Cardinality(codes) -> codes]
        /\ \A x \in codes : \E k \in 1 .. Cardinality(codes) : InOrder(codes)[k] = x
    BY <2>1, InOrderLists
  <2>3. code \in codes
    BY DEF codes
  <2>4. QED
    BY <1>4, <2>2, <2>3
<1>6. pose \in PoseFromStageSample(animation.joints, rotations, translations, rate, {code})
  <2> DEFINE stated == IF animation.rate = {} THEN 0 ELSE The(animation.rate)
             inputs == PoseFromStageSample(animation.joints, InputArray(animation.rotations, Unturned),
                         InputArray(animation.translations, Origin), stated, {code})
  <2>1. pose \in inputs
    BY <1>1 DEF SampleAnimation
  <2>2. stated = rate
    <3>1. animation.rate # {}
      BY <2>1 DEF PoseFromStageSample
    <3>2. animation.rate = {UsableRate(layer)}
      BY <1>4, <3>1 DEF RatesDisagree
    <3>3. QED
      BY <3>1, <3>2 DEF The
  <2>3. Len(animation.joints) \in Nat
    BY <1>1, <1>2 DEF IsStage, IsSequence
  <2> HIDE DEF stated, rate, rotations, translations
  <2>4. \/ InputArray(animation.rotations, Unturned) = rotations
        \/ /\ Len(InputArray(animation.rotations, Unturned)) # Len(animation.joints)
           /\ Len(rotations) # Len(animation.joints)
    BY <1>1, <2>3, InputsAgree DEF rotations
  <2>5. \/ InputArray(animation.translations, Origin) = translations
        \/ /\ Len(InputArray(animation.translations, Origin)) # Len(animation.joints)
           /\ Len(translations) # Len(animation.joints)
    BY <1>1, <2>3, InputsAgree DEF translations
  <2>6. inputs = PoseFromStageSample(animation.joints, rotations, translations, stated, {code})
    BY <2>4, <2>5, MisfitsAreAlike
  <2>7. QED
    BY <2>1, <2>2, <2>6
<1> DEFINE stating == {channel \in ChannelInputs(layer, AsAuthored.channels) :
                         StatedAt(channel.value, code) # {}}
           of(n) == CHOOSE channel \in stating : n \in channel.name
           channels == [n \in UNION {c.name : c \in stating} |-> The(StatedAt(of(n).value, code))[1]]
           gaze == UNION {Range(value) : value \in StatedAt(GazeInput(animation, AsAuthored), code)}
           made == Stating(The(PoseFromStageSample(animation.joints, rotations, translations, rate, {code})),
                           channels, gaze)
<1>7. read.samples[i] = made
  <2>1. PoseAt(layer, animation, AsAuthored, code) = made
    BY Zenon DEF PoseAt, Stating
  <2> HIDE DEF made
  <2>2. QED
    BY <1>4, <1>5, <2>1
<1> HIDE DEF channels, gaze
<1> HIDE DEF rotations, translations, rate
<1>8. PICK timestamp, turns, facing, place :
        PoseFromStageSample(animation.joints, rotations, translations, rate, {code})
          = {[timestamp |-> timestamp, rotations |-> turns, facing |-> facing, place |-> place,
              channels |-> << >>, gaze |-> {}]}
  BY <1>6 DEF PoseFromStageSample
<1> DEFINE body == [timestamp |-> timestamp, rotations |-> turns, facing |-> facing,
                    place |-> place, channels |-> << >>, gaze |-> {}]
<1>9. pose = body /\ The({body}) = body
  BY <1>6, <1>8 DEF The
<1> DEFINE sample == read.samples[i]
<1>10. sample = Stating(body, channels, gaze)
  BY <1>7, <1>8, <1>9
<1>11. /\ DOMAIN body = {"timestamp", "rotations", "facing", "place", "channels", "gaze"}
       /\ body = [field \in DOMAIN body |-> body[field]]
       /\ body.channels = << >> /\ body.gaze = {}
  OBVIOUS
<1> HIDE DEF body, sample
<1>12. BodyOf(sample) = body
  BY <1>10, <1>11, BodyOfASample
<1>13. QED
  BY <1>5, <1>9, <1>12 DEF sample

-----------------------------------------------------------------------------
(* What a blend is made of.                                                *)

Turn(pose, bone) == IF bone \in DOMAIN pose.rotations THEN pose.rotations[bone] ELSE {}

LEMMA LerpMixesTurns ==
  ASSUME NEW a, NEW b, "rotations" \in DOMAIN a
  PROVE  /\ "rotations" \in DOMAIN LerpPose(a, b)
         /\ \A bone : Turn(LerpPose(a, b), bone) = Turn(a, bone) \cup Turn(b, bone)
<1> DEFINE turns == [bone \in DOMAIN a.rotations \cup DOMAIN b.rotations |->
                       IF bone \notin DOMAIN b.rotations THEN a.rotations[bone]
                       ELSE IF bone \notin DOMAIN a.rotations THEN b.rotations[bone]
                       ELSE a.rotations[bone] \cup b.rotations[bone]]
           mixed == LerpPose(a, b)
<1>1. DOMAIN mixed = DOMAIN a /\ mixed.rotations = turns
  <2> HIDE DEF turns
  <2>1. mixed = [a EXCEPT !.rotations = turns, !.facing = MixedValue(@, b.facing),
                          !.place = MixedValue(@, b.place)]
    BY Zenon DEF LerpPose, turns
  <2> HIDE DEF mixed
  <2>2. QED
    BY <2>1
<1>2. \A bone : Turn(mixed, bone) = IF bone \in DOMAIN turns THEN turns[bone] ELSE {}
  <2> HIDE DEF mixed, turns
  <2>1. QED
    BY <1>1 DEF Turn
<1>3. ASSUME NEW bone
      PROVE  Turn(mixed, bone) = Turn(a, bone) \cup Turn(b, bone)
  <2> HIDE DEF mixed
  <2>1. QED
    BY <1>2 DEF Turn
<1>4. QED
  BY <1>1, <1>3

(* The fold's partial results.                                             *)
Folding(poses, order, n, blended) ==
  blended = [k \in 1 .. n |-> IF k = 1 THEN poses[order[1]]
                              ELSE LerpPose(blended[k - 1], poses[order[k]])]

LEMMA FoldingExists ==
  ASSUME NEW poses, NEW order, NEW n \in Nat
  PROVE  \E blended : Folding(poses, order, n, blended)
<1> DEFINE Stuck == {k \in Nat : ~ \E blended : Folding(poses, order, k, blended)}
<1>1. SUFFICES ASSUME Stuck # {} PROVE FALSE
  OBVIOUS
<1>2. PICK k \in Stuck : \A m \in Stuck : k <= m
  <2>1. Stuck \subseteq Nat
    OBVIOUS
  <2> HIDE DEF Stuck
  <2>2. QED
    BY <1>1, <2>1, SmallestIndex
<1>3. CASE k = 0
  <2> DEFINE none == [i \in 1 .. 0 |-> poses[i]]
  <2>1. Folding(poses, order, 0, none)
    BY DEF Folding
  <2>2. QED
    BY <1>2, <1>3, <2>1
<1>4. CASE k # 0
  <2>1. k - 1 \in Nat /\ k - 1 \notin Stuck
    BY <1>2, <1>4
  <2>2. PICK less : Folding(poses, order, k - 1, less)
    BY <2>1
  <2> DEFINE last == IF k = 1 THEN poses[order[1]] ELSE LerpPose(less[k - 1], poses[order[k]])
             more == [i \in 1 .. k |-> IF i < k THEN less[i] ELSE last]
             step(i) == IF i = 1 THEN poses[order[1]] ELSE LerpPose(more[i - 1], poses[order[i]])
  <2>3. \A i \in 1 .. k : more[i] = step(i)
    <3> SUFFICES ASSUME NEW i \in 1 .. k PROVE more[i] = step(i)
      OBVIOUS
    <3>1. CASE i = k
      <4>1. more[k] = last /\ (k # 1 => more[k - 1] = less[k - 1])
        BY <1>4, <2>1
      <4>2. QED
        BY <1>4, <3>1, <4>1
    <3>2. CASE i # k
      <4>1. i \in 1 .. k - 1 /\ more[i] = less[i] /\ (i # 1 => more[i - 1] = less[i - 1])
        BY <2>1, <3>2
      <4>2. less[i] = IF i = 1 THEN poses[order[1]] ELSE LerpPose(less[i - 1], poses[order[i]])
        BY <2>2, <4>1 DEF Folding
      <4>3. QED
        BY <4>1, <4>2
    <3>3. QED
      BY <3>1, <3>2
  <2>4. Folding(poses, order, k, more)
    <3>1. more = [i \in 1 .. k |-> more[i]]
      OBVIOUS
    <3>2. [i \in 1 .. k |-> more[i]] = [i \in 1 .. k |-> step(i)]
      BY <2>3
    <3> HIDE DEF more
    <3>3. QED
      BY <3>1, <3>2 DEF Folding
  <2>5. QED
    BY <1>2, <2>4
<1>5. QED
  BY <1>3, <1>4

LEMMA BlendIsAFold ==
  ASSUME NEW poses, NEW weights, NEW order, InOrder({i \in DOMAIN poses : weights[i] > 0}) = order,
         NEW m \in Nat, Len(order) = m, NEW pose \in BlendPoses(poses, weights)
  PROVE  /\ order # << >>
         /\ \E blended : Folding(poses, order, m, blended) /\ pose = blended[m]
<1> DEFINE heavy == InOrder({i \in DOMAIN poses : weights[i] > 0})
           folded == CHOOSE blended : Folding(poses, heavy, Len(heavy), blended)
<1>1. BlendPoses(poses, weights) = IF heavy = << >> THEN {} ELSE {folded[Len(heavy)]}
  BY DEF BlendPoses, Folding
<1>2. heavy = order
  OBVIOUS
<1> HIDE DEF heavy
<1>3. Folding(poses, heavy, Len(heavy), folded)
  BY <1>2, FoldingExists
<1> HIDE DEF folded
<1>4. QED
  BY <1>1, <1>2, <1>3

(* A fold of poses turns a bone as every one of them does.                 *)
Gathered(poses, order, k, bone) == UNION {Turn(poses[order[l]], bone) : l \in 1 .. k}

LEMMA FoldingGathersTurns ==
  ASSUME NEW poses, NEW n \in Nat, NEW order, NEW blended, Folding(poses, order, n, blended),
         \A k \in 1 .. n : "rotations" \in DOMAIN poses[order[k]],
         NEW bone
  PROVE  \A k \in 1 .. n : Turn(blended[k], bone) = Gathered(poses, order, k, bone)
<1> DEFINE upTo(k) == Gathered(poses, order, k, bone)
           Wrong == {k \in 1 .. n : ~(/\ "rotations" \in DOMAIN blended[k]
                                      /\ Turn(blended[k], bone) = upTo(k))}
<1>1. SUFFICES ASSUME Wrong # {} PROVE FALSE
  OBVIOUS
<1>2. PICK k \in Wrong : \A m \in Wrong : k <= m
  <2>1. Wrong \subseteq Nat
    OBVIOUS
  <2> HIDE DEF Wrong
  <2>2. QED
    BY <1>1, <2>1, SmallestIndex
<1>3. k \in 1 .. n /\ ~("rotations" \in DOMAIN blended[k] /\ Turn(blended[k], bone) = upTo(k))
  BY <1>2
<1>4. CASE k = 1
  <2>1. blended[1] = poses[order[1]]
    BY <1>3, <1>4 DEF Folding
  <2>2. upTo(1) = Turn(poses[order[1]], bone)
    BY DEF Gathered
  <2> HIDE DEF upTo
  <2>3. QED
    BY <1>3, <1>4, <2>1, <2>2
<1>5. CASE k # 1
  <2>1. k - 1 \in 1 .. n /\ ~(k <= k - 1)
    BY <1>3, <1>5
  <2>2. "rotations" \in DOMAIN blended[k - 1] /\ Turn(blended[k - 1], bone) = upTo(k - 1)
    BY <1>2, <2>1
  <2>3. blended[k] = LerpPose(blended[k - 1], poses[order[k]])
    BY <1>3, <1>5 DEF Folding
  <2>4. upTo(k) = upTo(k - 1) \cup Turn(poses[order[k]], bone)
    <3>1. 1 .. k = (1 .. k - 1) \cup {k}
      BY <1>3, <2>1
    <3>2. QED
      BY <3>1 DEF Gathered
  <2> HIDE DEF upTo
  <2>5. "rotations" \in DOMAIN blended[k] /\ Turn(blended[k], bone) = upTo(k)
    BY <2>2, <2>3, <2>4, LerpMixesTurns
  <2>6. QED
    BY <1>3, <2>5
<1>6. QED
  BY <1>4, <1>5

(* A source computes one pose at most.                                     *)
LEMMA SampleIsOne ==
  ASSUME IsStage(layer), NEW path, SampleOf(path) # {}
  PROVE  /\ "rotations" \in DOMAIN The(SampleOf(path))
         /\ SampleOf(path) = {The(SampleOf(path))}
<1>1. PICK a \in DOMAIN layer.animations : layer.animations[a].path = path
  BY DEF SampleOf
<1>2. SampleOf(path) = SampleAnimation(layer.animations[a])
  BY <1>1, SampleOfItsAnimation
<1>3. PICK timestamp, turns, facing, place :
        SampleOf(path) = {[timestamp |-> timestamp, rotations |-> turns, facing |-> facing,
                           place |-> place, channels |-> << >>, gaze |-> {}]}
  BY <1>2 DEF SampleAnimation, PoseFromStageSample
<1> DEFINE pose == [timestamp |-> timestamp, rotations |-> turns, facing |-> facing,
                    place |-> place, channels |-> << >>, gaze |-> {}]
<1>4. SampleOf(path) = {pose} /\ The({pose}) = pose
  BY <1>3 DEF The
<1>5. "rotations" \in DOMAIN pose
  OBVIOUS
<1> HIDE DEF pose
<1>6. QED
  BY <1>4, <1>5

LEMMA BlendPairs ==
  ASSUME StageInv PROVE BlendPairsEachWeightWithItsClip
<1> SUFFICES ASSUME layer # None, NEW blend \in Blends, Len(blend.weights) = Len(blend.sources),
                    NEW pose \in Blend(blend.sources, blend.weights),
                    NEW bone \in Range(Vocabulary)
             PROVE  (IF bone \in DOMAIN pose.rotations THEN pose.rotations[bone] ELSE {}) =
                      UNION UNION {UNION {{p.rotations[b] : b \in DOMAIN p.rotations \cap {bone}} :
                                            p \in SampleOf(blend.sources[i])} :
                                     i \in {i \in DOMAIN blend.sources : blend.weights[i] > 0}}
  BY Zenon DEF BlendPairsEachWeightWithItsClip
<1> DEFINE sources == blend.sources
           n == Len(sources)
           heavy == {i \in DOMAIN sources : blend.weights[i] > 0}
           order == InOrder(heavy)
           m == Cardinality(heavy)
           poses == Answers(sources)
           said(i) == UNION {{p.rotations[b] : b \in DOMAIN p.rotations \cap {bone}} :
                               p \in SampleOf(sources[i])}
<1>1. IsStage(layer) /\ IsSequence(sources) /\ n \in Nat /\ DOMAIN sources = 1 .. n
  BY BlendsAssumption DEF StageInv, StagesStand, IsSequence
<1>2. /\ Targets(sources) = sources
      /\ poses = [k \in DOMAIN sources |-> The(SampleOf(sources[k]))]
      /\ \A k \in DOMAIN sources : SampleOf(sources[k]) # {}
      /\ pose \in BlendPoses(poses, blend.weights)
  <2>1. /\ Len(blend.weights) = Len(Targets(sources))
        /\ Blend(sources, blend.weights) = BlendPoses(Answers(sources), blend.weights)
        /\ Answers(sources) = [k \in DOMAIN Targets(sources) |-> The(SampleOf(Targets(sources)[k]))]
        /\ \A k \in DOMAIN Targets(sources) : SampleOf(Targets(sources)[k]) # {}
    BY <1>1, BlendHearsEveryTarget
  <2>2. Targets(sources) = sources
    BY <1>1, <2>1, OnlyWhole DEF Targets
  <2>3. QED
    BY <2>1, <2>2
<1>3. \A i \in 1 .. n : /\ "rotations" \in DOMAIN poses[i]
                        /\ SampleOf(sources[i]) = {poses[i]}
  BY <1>1, <1>2, SampleIsOne
<1>4. /\ m \in Nat /\ order \in [1 .. m -> heavy]
      /\ \A i \in heavy : \E k \in 1 .. m : order[k] = i
  <2>1. heavy \subseteq 1 .. n /\ heavy \subseteq Int
    BY <1>1
  <2> HIDE DEF heavy, n
  <2>2. IsFiniteSet(1 .. n)
    BY <1>1, FS_Interval
  <2>3. IsFiniteSet(heavy)
    BY <2>1, <2>2, FS_Subset
  <2>4. QED
    BY <2>1, <2>3, InOrderLists
<1>5. heavy \subseteq 1 .. n
  BY <1>1
<1>6. DOMAIN poses = 1 .. n /\ {i \in DOMAIN poses : blend.weights[i] > 0} = heavy
  BY <1>1, <1>2
<1>7. Len(order) = m /\ DOMAIN order = 1 .. m
  <2>1. order = [k \in 1 .. m |-> order[k]]
    BY <1>4
  <2> HIDE DEF order, m
  <2>2. QED
    BY <1>4, <2>1, ListIsASequence
<1>8. /\ order # << >>
      /\ \E blended : Folding(poses, order, m, blended) /\ pose = blended[m]
  <2> HIDE DEF poses, heavy, m
  <2>1. InOrder({i \in DOMAIN poses : blend.weights[i] > 0}) = order
    BY <1>6
  <2> HIDE DEF order
  <2>2. QED
    BY <1>2, <1>4, <1>7, <2>1, BlendIsAFold
<1>9. PICK blended : Folding(poses, order, m, blended) /\ pose = blended[m]
  BY <1>8
<1> HIDE DEF sources, poses, order, heavy, m, n
<1>10. \A k \in 1 .. m : order[k] \in heavy /\ order[k] \in 1 .. n
  BY <1>4, <1>5
<1>11. Turn(pose, bone) = Gathered(poses, order, m, bone)
  <2>1. m \in 1 .. m
    <3>1. m # 0
      <4>1. SUFFICES ASSUME m = 0 PROVE FALSE
        OBVIOUS
      <4>2. order = << >>
        BY <1>4, <4>1
      <4>3. QED
        BY <1>8, <4>2
    <3>2. QED
      BY <1>4, <3>1
  <2>2. \A k \in 1 .. m : "rotations" \in DOMAIN poses[order[k]]
    BY <1>3, <1>10
  <2>3. \A k \in 1 .. m : Turn(blended[k], bone) = Gathered(poses, order, k, bone)
    BY <1>4, <1>9, <2>2, FoldingGathersTurns
  <2>4. QED
    BY <1>9, <2>1, <2>3
<1>12. ASSUME NEW i \in 1 .. n
       PROVE  UNION said(i) = Turn(poses[i], bone)
  <2> DEFINE turns == poses[i].rotations
  <2>1. said(i) = {turns[b] : b \in DOMAIN turns \cap {bone}}
    <3> DEFINE of(p) == {p.rotations[b] : b \in DOMAIN p.rotations \cap {bone}}
    <3>1. said(i) = UNION {of(p) : p \in {poses[i]}}
      BY <1>3
    <3>2. UNION {of(p) : p \in {poses[i]}} = of(poses[i])
      OBVIOUS
    <3>3. QED
      BY <3>1, <3>2
  <2> HIDE DEF said
  <2>2. CASE bone \in DOMAIN turns
    <3>1. said(i) = {turns[bone]}
      BY <2>1, <2>2
    <3>2. QED
      BY <2>2, <3>1 DEF Turn
  <2>3. CASE bone \notin DOMAIN turns
    <3>1. said(i) = {}
      BY <2>1, <2>3
    <3>2. QED
      BY <2>3, <3>1 DEF Turn
  <2>4. QED
    BY <2>2, <2>3
<1>13. UNION {Turn(poses[order[l]], bone) : l \in 1 .. m} = UNION UNION {said(i) : i \in heavy}
  <2>1. UNION UNION {said(i) : i \in heavy} = UNION {UNION said(i) : i \in heavy}
    <3> HIDE DEF said
    <3>1. QED
      OBVIOUS
  <2> HIDE DEF said
  <2>2. UNION {UNION said(i) : i \in heavy} = UNION {Turn(poses[i], bone) : i \in heavy}
    BY <1>5, <1>12
  <2>3. UNION {Turn(poses[i], bone) : i \in heavy} = UNION {Turn(poses[order[l]], bone) : l \in 1 .. m}
    BY <1>4, <1>10
  <2>4. QED
    BY <2>1, <2>2, <2>3
<1>14. QED
  BY <1>11, <1>13 DEF sources, heavy, Turn, Gathered

-----------------------------------------------------------------------------
(* The joints of a skeleton, and the parents a reader finds for them.      *)

LEMMA BonesArePartOfIt == Bones \subseteq HumanJoint /\ NoBone \notin Bones
<1>1. \A i \in DOMAIN Vocabulary : Vocabulary[i] \in HumanJoint
  BY VocabularyAssumption
<1> QED
  BY <1>1, LineageAssumption DEF Bones, Range, LineageIsSound

(* The bones a rest has, as a writer lists them.                           *)
LEMMA BonesListed ==
  ASSUME NEW present, present \subseteq Bones
  PROVE  LET bones == Only(Vocabulary, present)
         IN  /\ IsSequence(bones) /\ Len(bones) \in Nat /\ DOMAIN bones = 1 .. Len(bones)
             /\ \A b \in 1 .. Len(bones) : bones[b] \in present
             /\ \A b, c \in 1 .. Len(bones) : bones[b] = bones[c] => b = c
             /\ \A bone \in present : \E b \in 1 .. Len(bones) : bones[b] = bone
             /\ \A b, c \in 1 .. Len(bones) : bones[c] \in Range(Lineage[bones[b]]) => c < b
<1> DEFINE bones == Only(Vocabulary, present)
           n == Len(bones)
           places == Kept(Vocabulary, present)
<1>1. IsSequence(Vocabulary) /\ DOMAIN Vocabulary = 1 .. Len(Vocabulary) /\ Len(Vocabulary) \in Nat
  BY VocabularyAssumption DEF IsSequence, Range
<1>2. PICK at \in [1 .. n -> places] :
        /\ n \in Nat /\ IsSequence(bones) /\ DOMAIN bones = 1 .. n
        /\ \A k \in 1 .. n : bones[k] = Vocabulary[at[k]]
        /\ \A i \in places : \E k \in 1 .. n : at[k] = i
        /\ \A k, l \in 1 .. n : k < l => at[k] < at[l]
  BY <1>1, OnlyKeeps
<1>3. /\ places \subseteq DOMAIN Vocabulary
      /\ \A i \in places : i \in Int /\ Vocabulary[i] \in present
      /\ \A i \in DOMAIN Vocabulary : Vocabulary[i] \in present => i \in places
  BY <1>1 DEF Kept
<1> HIDE DEF bones, n, places
<1>4. ASSUME NEW b \in 1 .. n, NEW c \in 1 .. n, at[c] < at[b]
      PROVE  c < b
  <2>1. at[b] \in Int /\ at[c] \in Int
    BY <1>3
  <2>2. ~(b < c) /\ b # c
    <3>1. ~(at[b] < at[c]) /\ at[b] # at[c]
      BY <1>4, <2>1
    <3>2. QED
      BY <1>2, <3>1
  <2>3. QED
    BY <1>2, <2>2
<1>5. \A b \in 1 .. n : bones[b] \in present
  BY <1>2, <1>3
<1>6. ASSUME NEW b \in 1 .. n, NEW c \in 1 .. n, bones[b] = bones[c]
      PROVE  b = c
  <2>1. at[b] \in DOMAIN Vocabulary /\ at[c] \in DOMAIN Vocabulary
    BY <1>3
  <2>2. at[b] = at[c]
    BY <1>2, <1>6, <2>1, VocabularyAssumption
  <2>3. ~(b < c) /\ ~(c < b)
    <3>1. at[b] \in Int
      BY <1>3
    <3>2. ~(at[b] < at[c]) /\ ~(at[c] < at[b])
      BY <2>2, <3>1
    <3>3. QED
      BY <1>2, <3>2
  <2>4. QED
    BY <1>2, <2>3
<1>7. ASSUME NEW bone \in present
      PROVE  \E b \in 1 .. n : bones[b] = bone
  <2>1. PICK i \in DOMAIN Vocabulary : Vocabulary[i] = bone
    BY DEF Bones, Range
  <2>2. i \in places
    BY <1>3, <2>1
  <2>3. QED
    BY <1>2, <2>1, <2>2
<1>8. ASSUME NEW b \in 1 .. n, NEW c \in 1 .. n, bones[c] \in Range(Lineage[bones[b]])
      PROVE  c < b
  <2>1. at[b] \in DOMAIN Vocabulary /\ at[c] \in DOMAIN Vocabulary
    BY <1>3
  <2>2. Vocabulary[at[c]] \in Range(Lineage[Vocabulary[at[b]]])
    BY <1>2, <1>8
  <2>3. at[c] < at[b]
    BY <2>1, <2>2, VocabularyAssumption
  <2>4. QED
    BY <1>4, <2>3
<1>9. QED
  BY <1>2, <1>5, <1>6, <1>7, <1>8 DEF bones, n

(* The joints a writer lists for the bones of a rest.                      *)
JointsOf(bones, present) == [b \in DOMAIN bones |-> HumanJointPath(bones[b], present)]

(* A joint is the path of its bone, and no other's.                        *)
LEMMA JointsStand ==
  ASSUME NEW present, present \subseteq Bones
  PROVE  LET bones  == Only(Vocabulary, present)
             joints == JointsOf(bones, present)
         IN  /\ IsSequence(joints) /\ Len(joints) = Len(bones) /\ DOMAIN joints = 1 .. Len(bones)
             /\ \A b \in 1 .. Len(bones) :
                  /\ IsSequence(joints[b]) /\ Len(joints[b]) \in Nat \ {0}
                  /\ Leaf(joints[b]) = bones[b] /\ BoneOf(joints[b]) = bones[b]
                  /\ bones[b] # NoBone
             /\ \A b, c \in 1 .. Len(bones) : joints[b] = joints[c] => b = c
<1> DEFINE bones == Only(Vocabulary, present)
           joints == JointsOf(bones, present)
           n == Len(bones)
<1>1. /\ n \in Nat /\ DOMAIN bones = 1 .. n
      /\ \A b \in 1 .. n : bones[b] \in present
      /\ \A b, c \in 1 .. n : bones[b] = bones[c] => b = c
  BY BonesListed
<1> HIDE DEF bones, n
<1>2. joints = [b \in 1 .. n |-> HumanJointPath(bones[b], present)]
  BY <1>1 DEF JointsOf
<1> HIDE DEF joints
<1>3. joints = [b \in 1 .. n |-> joints[b]] /\ \A b \in 1 .. n : joints[b] = HumanJointPath(bones[b], present)
  BY <1>2
<1>4. IsSequence(joints) /\ Len(joints) = n /\ DOMAIN joints = 1 .. n
  BY <1>1, <1>3, ListIsASequence
<1>5. ASSUME NEW b \in 1 .. n
      PROVE  /\ IsSequence(joints[b]) /\ Len(joints[b]) \in Nat \ {0}
             /\ Leaf(joints[b]) = bones[b] /\ BoneOf(joints[b]) = bones[b]
             /\ bones[b] # NoBone
  <2> DEFINE bone == bones[b]
             above == PresentLineage(bone, present)
             path == HumanJointPath(bone, present)
  <2>1. bone \in Bones
    BY <1>1
  <2>2. bone \in HumanJoint /\ bone # NoBone
    BY <2>1, BonesArePartOfIt
  <2>3. Len(above) \in Nat /\ PathIs(path, above, bone) /\ Leaf(path) = bone
    <3>1. Len(above) \in Nat /\ PathIs(path, above, bone)
      BY <2>2, LineageAssumption, PathShape
    <3> HIDE DEF path, above
    <3> QED
      BY <3>1 DEF PathIs, Leaf
  <2>4. joints[b] = path
    BY <1>3
  <2> HIDE DEF bone, above, path
  <2>5. IsSequence(path) /\ Len(path) \in Nat \ {0}
    BY <2>3 DEF PathIs
  <2>6. BoneOf(path) = bone
    BY <2>2, <2>3 DEF BoneOf
  <2>7. QED
    BY <2>2, <2>3, <2>4, <2>5, <2>6 DEF bone
<1>6. ASSUME NEW b \in 1 .. n, NEW c \in 1 .. n, joints[b] = joints[c]
      PROVE  b = c
  BY <1>1, <1>5, <1>6
<1>7. QED
  BY <1>4, <1>5, <1>6 DEF joints, bones, n

(* What is appended to is all but the last.                                *)
LEMMA AppendedTo ==
  ASSUME NEW lower, IsSequence(lower), NEW x
  PROVE  LET path == Append(lower, x)
         IN  /\ IsSequence(path) /\ Len(path) = Len(lower) + 1
             /\ lower = SubSeq(path, 1, Len(lower))
<1> DEFINE path == Append(lower, x)
           m == Len(lower)
           S == Range(lower) \cup {x}
<1>1. lower \in Seq(Range(lower)) /\ m \in Nat /\ lower = [i \in 1 .. m |-> lower[i]]
  BY DEF IsSequence
<1>2. lower \in Seq(S)
  BY <1>1
<1> HIDE DEF m, S
<1>3. path \in Seq(S) /\ Len(path) = m + 1 /\ \A i \in 1 .. m : path[i] = lower[i]
  <2>1. x \in S
    BY DEF S
  <2>2. QED
    BY <1>2, <2>1, AppendProperties DEF m
<1> HIDE DEF path
<1>4. path = [i \in 1 .. m + 1 |-> path[i]] /\ m + 1 \in Nat
  BY <1>1, <1>3
<1>5. IsSequence(path)
  BY <1>4, ListIsASequence
<1>6. SubSeq(path, 1, m) = [i \in 1 .. m |-> path[i]]
  <2>1. 1 \in 1 .. Len(path) + 1 /\ m \in 1 - 1 .. Len(path)
    BY <1>1, <1>3
  <2>2. SubSeq(path, 1, m) = [i \in 1 .. (m - 1 + 1) |-> path[i + 1 - 1]]
    BY <1>3, <2>1, SubSeqProperties
  <2>3. m - 1 + 1 = m /\ \A i \in 1 .. m : i + 1 - 1 = i
    BY <1>1
  <2>4. QED
    BY <2>2, <2>3
<1>7. QED
  BY <1>1, <1>3, <1>5, <1>6 DEF path, m

(* The front of a path is as long as it is cut.                             *)
LEMMA FrontIsShorter ==
  ASSUME NEW token, IsSequence(token), NEW n \in 0 .. Len(token)
  PROVE  Len(SubSeq(token, 1, n)) = n
<1>1. token \in Seq(Range(token)) /\ Len(token) \in Nat
  BY DEF IsSequence
<1>2. 1 \in 1 .. Len(token) + 1 /\ n \in 1 - 1 .. Len(token)
  BY <1>1
<1> DEFINE front == SubSeq(token, 1, n)
<1>3. front = [i \in 1 .. (n - 1 + 1) |-> token[i + 1 - 1]]
  BY <1>1, <1>2, SubSeqProperties
<1>4. n - 1 + 1 = n
  OBVIOUS
<1>5. front = [i \in 1 .. n |-> front[i]]
  BY <1>3, <1>4
<1> HIDE DEF front
<1>6. Len(front) = n
  BY <1>5, ListIsASequence
<1>7. QED
  BY <1>6 DEF front

(* Both readings of a token's parent find the nearest bone above.          *)
HangsUnder(joints, bones, present, i, p) ==
  LET nearest == NearestPresentAncestor(bones[i], present)
  IN  /\ TopologyParent(joints, i) = p /\ ImmediateParent(joints, i) = p /\ p < i
      /\ IF nearest = NoBone THEN p = 0 ELSE p # 0 /\ bones[p] = nearest

(* Both ways a reader looks for a parent find the vocabulary's.            *)
LEMMA ParentsAgree ==
  ASSUME NEW present, present \subseteq Bones,
         NEW i \in 1 .. Len(Only(Vocabulary, present))
  PROVE  LET bones == Only(Vocabulary, present)
         IN  \E p \in 0 .. Len(bones) : HangsUnder(JointsOf(bones, present), bones, present, i, p)
<1> DEFINE bones == Only(Vocabulary, present)
           joints == JointsOf(bones, present)
           n == Len(bones)
           bone == bones[i]
           nearest == NearestPresentAncestor(bone, present)
           token == joints[i]
<1>1. /\ n \in Nat /\ DOMAIN bones = 1 .. n
      /\ \A b \in 1 .. n : bones[b] \in present
      /\ \A x \in present : \E b \in 1 .. n : bones[b] = x
      /\ \A b, c \in 1 .. n : bones[b] = bones[c] => b = c
      /\ \A b, c \in 1 .. n : bones[c] \in Range(Lineage[bones[b]]) => c < b
  BY BonesListed
<1>2. /\ DOMAIN joints = 1 .. n
      /\ \A b \in 1 .. n : IsSequence(joints[b]) /\ Len(joints[b]) \in Nat \ {0} /\ Leaf(joints[b]) = bones[b]
      /\ \A b, c \in 1 .. n : joints[b] = joints[c] => b = c
  BY JointsStand
<1>3. \A b \in 1 .. n : joints[b] = HumanJointPath(bones[b], present)
  BY <1>1 DEF JointsOf
<1>4. i \in 1 .. n /\ bone \in Bones
  BY <1>1
<1> HIDE DEF joints, n
<1>5. /\ nearest = NoBone => Len(token) = 1
      /\ nearest # NoBone =>
           /\ nearest \in present /\ nearest \in Range(Lineage[bone])
           /\ token = Append(HumanJointPath(nearest, present), bone)
  <2>1. bone \in HumanJoint /\ present \subseteq HumanJoint
    BY <1>4, BonesArePartOfIt
  <2> QED
    BY <1>3, <1>4, <2>1, LineageAssumption, PathStep
<1>6. CASE nearest = NoBone
  <2>1. Len(token) = 1
    BY <1>5, <1>6
  <2>2. Above(joints, token) = {}
    <3>1. ASSUME NEW b \in 1 .. n, NEW m \in 0 .. Len(token) - 1, joints[b] = SubSeq(token, 1, m)
          PROVE  FALSE
      <4>1. IsSequence(token) /\ m = 0
        BY <1>2, <1>4, <2>1
      <4>2. Len(SubSeq(token, 1, m)) = m
        BY <2>1, <4>1, FrontIsShorter
      <4>3. QED
        BY <1>2, <3>1, <4>1, <4>2
    <3>2. QED
      BY <1>2, <3>1 DEF Above
  <2>3. TopologyParent(joints, i) = 0
    BY <2>2 DEF TopologyParent
  <2>4. \A p \in 1 .. n : Append(joints[p], Leaf(token)) # token
    <3> SUFFICES ASSUME NEW p \in 1 .. n, Append(joints[p], Leaf(token)) = token PROVE FALSE
      OBVIOUS
    <3>1. Len(token) = Len(joints[p]) + 1
      BY <1>2, AppendedTo
    <3>2. QED
      BY <1>2, <2>1, <3>1
  <2>5. ImmediateParent(joints, i) = 0
    BY <1>2, <2>4 DEF ImmediateParent
  <2>6. HangsUnder(joints, bones, present, i, 0)
    BY <1>4, <1>6, <2>3, <2>5 DEF HangsUnder
  <2>7. QED
    BY <1>1, <2>6 DEF joints, n
<1>7. CASE nearest # NoBone
  <2>1. PICK p \in 1 .. n : bones[p] = nearest
    BY <1>1, <1>5, <1>7
  <2>2. p < i
    BY <1>1, <1>4, <1>5, <1>7, <2>1
  <2> DEFINE lower == joints[p]
             m == Len(lower)
  <2>3. token = Append(lower, bone)
    BY <1>3, <1>5, <1>7, <2>1
  <2>4. IsSequence(lower) /\ m \in Nat \ {0} /\ IsSequence(token) /\ Leaf(token) = bone
    BY <1>2, <1>4
  <2> HIDE DEF lower, token, bone, bones
  <2>5. Len(token) = m + 1 /\ lower = SubSeq(token, 1, m)
    BY <2>3, <2>4, AppendedTo
  <2> HIDE DEF m
  <2>6. p \in Above(joints, token)
    <3>1. m \in 0 .. Len(token) - 1
      BY <2>4, <2>5
    <3>2. QED
      BY <1>2, <2>1, <2>5, <3>1 DEF Above, lower
  <2>7. \A q \in Above(joints, token) :
          /\ q \in 1 .. n /\ Len(joints[q]) \in 0 .. m
          /\ Len(joints[q]) = m => q = p
    <3> SUFFICES ASSUME NEW q \in Above(joints, token)
                 PROVE  /\ q \in 1 .. n /\ Len(joints[q]) \in 0 .. m
                        /\ Len(joints[q]) = m => q = p
      OBVIOUS
    <3>1. q \in 1 .. n
      BY <1>2 DEF Above
    <3>2. PICK k \in 0 .. Len(token) - 1 : joints[q] = SubSeq(token, 1, k)
      BY DEF Above
    <3>3. k \in 0 .. m /\ k \in 0 .. Len(token)
      BY <2>4, <2>5
    <3>4. Len(joints[q]) = k
      BY <2>4, <3>2, <3>3, FrontIsShorter
    <3>5. ASSUME k = m
          PROVE  q = p
      <4>1. joints[q] = joints[p]
        BY <2>5, <3>2, <3>5 DEF lower
      <4>2. QED
        BY <1>2, <2>1, <3>1, <4>1
    <3>6. QED
      BY <3>1, <3>3, <3>4, <3>5
  <2>8. TopologyParent(joints, i) = p
    <3>1. Len(joints[p]) = m /\ m \in Nat
      BY <2>4 DEF lower, m
    <3>2. \A q \in Above(joints, token) : Len(joints[q]) <= Len(joints[p])
      BY <2>7, <3>1
    <3>3. ASSUME NEW r \in Above(joints, token),
                 \A q \in Above(joints, token) : Len(joints[q]) <= Len(joints[r])
          PROVE  r = p
      <4>1. m <= Len(joints[r])
        BY <2>6, <3>1, <3>3
      <4>2. QED
        BY <2>7, <3>1, <4>1
    <3>4. p = CHOOSE r \in Above(joints, token) :
                \A q \in Above(joints, token) : Len(joints[q]) <= Len(joints[r])
      BY <2>6, <3>2, <3>3
    <3>5. QED
      BY <2>6, <3>4 DEF TopologyParent, token
  <2>9. ImmediateParent(joints, i) = p
    <3> DEFINE over == {q \in DOMAIN joints : Append(joints[q], Leaf(token)) = token}
    <3>1. \A q \in 1 .. n : Append(joints[q], Leaf(token)) = token => q = p
      <4> SUFFICES ASSUME NEW q \in 1 .. n, Append(joints[q], Leaf(token)) = token PROVE q = p
        OBVIOUS
      <4>1. Len(token) = Len(joints[q]) + 1 /\ joints[q] = SubSeq(token, 1, Len(joints[q]))
        BY <1>2, AppendedTo
      <4>2. Len(joints[q]) = m
        <5>1. Len(joints[q]) \in Int /\ m \in Int
          BY <1>2, <2>4
        <5>2. Len(joints[q]) + 1 = m + 1
          BY <2>5, <4>1
        <5> HIDE DEF m
        <5>3. QED
          BY <5>1, <5>2
      <4>3. joints[q] = joints[p]
        BY <2>5, <4>1, <4>2 DEF lower
      <4>4. QED
        BY <1>2, <2>1, <4>3
    <3>2. over = {p}
      BY <1>2, <2>1, <2>3, <2>4, <3>1 DEF lower
    <3>3. ImmediateParent(joints, i) = IF over = {} THEN 0 ELSE The(over)
      BY DEF ImmediateParent, token
    <3>4. The({p}) = p
      BY DEF The
    <3>5. QED
      BY <3>2, <3>3, <3>4
  <2>10. HangsUnder(joints, bones, present, i, p)
    <3>1. p # 0
      BY <2>1
    <3>2. QED
      BY <1>7, <2>1, <2>2, <2>8, <2>9, <3>1 DEF HangsUnder, bone
  <2>11. QED
    BY <2>1, <2>10 DEF joints, n, bones
<1>8. QED
  BY <1>6, <1>7

-----------------------------------------------------------------------------
(* What a writer authors for a clip.                                       *)

(* The bones a rest has are bones in play, and a clip that is authored has *)
(* some.                                                                   *)
LEMMA RestStands ==
  ASSUME NEW clip, IsClip(clip), NEW stated \in Stated, IsAuthorable(EmptyStage, clip, stated)
  PROVE  Present(RestOf(clip, stated)) \subseteq Bones /\ Present(RestOf(clip, stated)) # {}
<1>1. Present(RestOf(clip, stated)) # {}
  BY DEF IsAuthorable
<1>2. CASE stated = {}
  <2> DEFINE present == Observed(clip) \cup (IF Reported(clip) # {} THEN {Hips} ELSE {})
  <2>1. Observed(clip) \subseteq Bones
    BY DEF Observed, IsClip
  <2>2. Reported(clip) # {} => Hips \in Bones
    BY DEF Reported, IsClip
  <2>3. present \subseteq Bones
    BY <2>1, <2>2
  <2> HIDE DEF present
  <2>4. RestOf(clip, stated).rotations = [bone \in present |-> Unturned]
    BY <1>2 DEF RestOf, present
  <2>5. QED
    BY <1>1, <2>3, <2>4 DEF Present
<1>3. CASE stated # {}
  <2>1. PICK rest \in Rests : stated = {rest}
    BY <1>3 DEF Stated
  <2>2. RestOf(clip, stated) = The({rest}) /\ The({rest}) = rest
    BY <2>1 DEF RestOf, The
  <2>3. IsRest(rest)
    BY StagesAssumption
  <2>4. QED
    BY <1>1, <2>2, <2>3 DEF IsRest, Present
<1>4. QED
  BY <1>2, <1>3

(* The bones a writer poses, and the samples that say something.           *)
BonesOf(rest) == Only(Vocabulary, Present(rest))

Turns(clip, rest) ==
  [i \in DOMAIN clip.samples |->
     [b \in DOMAIN BonesOf(rest) |->
        IF BonesOf(rest)[b] \in DOMAIN clip.samples[i].rotations
        THEN clip.samples[i].rotations[BonesOf(rest)[b]] ELSE rest.rotations[BonesOf(rest)[b]]]]

Moves(clip, rest) ==
  [i \in DOMAIN clip.samples |->
     [b \in DOMAIN BonesOf(rest) |->
        IF BonesOf(rest)[b] = Hips THEN HeldPlace(clip, rest, i) ELSE rest.places[BonesOf(rest)[b]]]]

Gazing(clip) == {i \in DOMAIN clip.samples : clip.samples[i].gaze # {}}
Gazes(clip)  == [i \in Gazing(clip) |-> The(clip.samples[i].gaze)]

Carrying(clip, name) == {i \in DOMAIN clip.samples : name \in DOMAIN clip.samples[i].channels}
Said(clip, name)     == [i \in Carrying(clip, name) |-> clip.samples[i].channels[name]]

(* The body a writer authors.                                              *)
LEMMA BodyIs ==
  ASSUME NEW clip, NEW rest
  PROVE  /\ AuthoredBody(clip, rest).path = "Body"
         /\ AuthoredBody(clip, rest).joints = JointsOf(BonesOf(rest), Present(rest))
         /\ AuthoredBody(clip, rest).rotations = Flat(Keyframes(clip, Turns(clip, rest)))
         /\ AuthoredBody(clip, rest).translations = Flat(Keyframes(clip, Moves(clip, rest)))
         /\ AuthoredBody(clip, rest).gaze = Keyframes(clip, Gazes(clip))
BY DEF AuthoredBody, JointsOf, BonesOf, Turns, Moves, Gazes, Gazing

(* Every channel name some sample carries.                                 *)
Channelled(clip) ==
  [n \in DOMAIN SetToSeq(ChannelNames(clip)) |-> AuthoredChannel(clip, SetToSeq(ChannelNames(clip))[n])]

(* The stage a writer authors.                                             *)
IsWritten(stage, body, clip) ==
  /\ stage.rate = 30 /\ stage.metric = TRUE
  /\ DOMAIN stage.skeletons = {1}
  /\ stage.skeletons[1].path = "Skeleton" /\ stage.skeletons[1].joints = body.joints
  /\ stage.skeletons[1].source = {"Body"}
  /\ \A m \in Nat : DOMAIN body.joints = 1 .. m => Len(stage.skeletons[1].rests) = m
  /\ DOMAIN stage.animations = {1} /\ stage.animations[1] = body
  /\ stage.channels = Channelled(clip)

(* What is in the file a writer authored, field by field.                  *)
LEMMA AuthoredIs ==
  ASSUME NEW clip, IsClip(clip), NEW stated
  PROVE  IsWritten(Authored(EmptyStage, clip, stated), AuthoredBody(clip, RestOf(clip, stated)), clip)
<1> DEFINE stage == Authored(EmptyStage, clip, stated)
           rest == RestOf(clip, stated)
           body == AuthoredBody(clip, rest)
           rests == [b \in DOMAIN body.joints |-> <<rest.rotations[Leaf(body.joints[b])],
                                                    rest.places[Leaf(body.joints[b])]>>]
           skeleton == [path |-> "Skeleton", joints |-> body.joints, source |-> {"Body"}, rests |-> rests]
           names == SetToSeq(ChannelNames(clip))
           channels == Channelled(clip)
<1>1. /\ EmptyStage.skeletons = << >> /\ EmptyStage.animations = << >>
      /\ EmptyStage.channels = << >>
  BY DEF EmptyStage
<1>2. stage = [rate |-> StageRate, metric |-> TRUE, start |-> TimeCodeFor(StartOf(clip)),
               nominal |-> {clip.nominal}, skeletons |-> Append(<< >>, skeleton),
               animations |-> Append(<< >>, body), channels |-> << >> \o channels]
  <2> HIDE DEF body, rest
  <2>1. QED
    BY <1>1 DEF Authored, Channelled, body, rest
<1>3. << >> \o channels = channels
  <2>1. Len(names) \in Nat /\ DOMAIN names = 1 .. Len(names)
    BY ChannelNamesAreFinite, SetToSeqLists
  <2> HIDE DEF names
  <2>2. channels = [c \in 1 .. Len(names) |-> channels[c]]
    BY <2>1 DEF Channelled, names
  <2> HIDE DEF channels
  <2>3. channels \in Seq(Range(channels))
    BY <2>1, <2>2, ListIsASequence DEF IsSequence
  <2>4. QED
    BY <2>3, ConcatEmptySeq
<1>4. /\ skeleton.path = "Skeleton" /\ skeleton.joints = body.joints /\ skeleton.source = {"Body"}
      /\ skeleton.rests = rests
  OBVIOUS
<1>5. /\ rests = [b \in DOMAIN body.joints |-> rests[b]] /\ DOMAIN rests = DOMAIN body.joints
  OBVIOUS
<1> HIDE DEF rests, channels, skeleton, body
<1>6. \A m \in Nat : DOMAIN body.joints = 1 .. m => Len(rests) = m
  <2> SUFFICES ASSUME NEW m \in Nat, DOMAIN body.joints = 1 .. m PROVE Len(rests) = m
    OBVIOUS
  <2>1. rests = [b \in 1 .. m |-> rests[b]]
    BY <1>5
  <2>2. QED
    BY <2>1, ListIsASequence
<1>7. /\ DOMAIN Append(<< >>, skeleton) = {1} /\ Append(<< >>, skeleton)[1] = skeleton
      /\ DOMAIN Append(<< >>, body) = {1} /\ Append(<< >>, body)[1] = body
  <2>1. 1 .. 1 = {1}
    OBVIOUS
  <2>2. /\ DOMAIN Append(<< >>, skeleton) = 1 .. 1 /\ Append(<< >>, skeleton)[1] = skeleton
        /\ DOMAIN Append(<< >>, body) = 1 .. 1 /\ Append(<< >>, body)[1] = body
    BY SingletonIsASequence
  <2>3. QED
    BY <2>1, <2>2
<1>8. /\ stage.rate = StageRate /\ stage.metric = TRUE
      /\ stage.skeletons = Append(<< >>, skeleton) /\ stage.animations = Append(<< >>, body)
      /\ stage.channels = << >> \o channels
  BY <1>2
<1> HIDE DEF stage
<1>9. QED
  BY <1>3, <1>4, <1>5, <1>6, <1>7, <1>8 DEF StageRate, stage, body, rest, channels, IsWritten

-----------------------------------------------------------------------------
(* What the writer's attributes say at the code of a sample.               *)

(* The codes of a clip a writer accepts ascend.                            *)
LEMMA ClipCodes ==
  ASSUME NEW clip, IsClip(clip), NEW stated, IsAuthorable(EmptyStage, clip, stated)
  PROVE  /\ Len(clip.samples) \in Nat \ {0} /\ DOMAIN clip.samples = 1 .. Len(clip.samples)
         /\ \A i \in DOMAIN clip.samples : Code(clip, i) \in Int
         /\ \A i, k \in DOMAIN clip.samples : i < k => Code(clip, i) < Code(clip, k)
         /\ \A i, k \in DOMAIN clip.samples : Code(clip, i) = Code(clip, k) => i = k
<1>1. /\ IsSequence(clip.samples)
      /\ \A i \in DOMAIN clip.samples : clip.samples[i].timestamp \in Int
  BY DEF IsClip
<1>2. /\ \A i \in DOMAIN clip.samples : i > 1 => Code(clip, i - 1) < Code(clip, i)
      /\ clip.samples # << >>
  BY DEF IsAuthorable
<1>3. Len(clip.samples) # 0
  BY <1>1, <1>2 DEF IsSequence
<1>4. QED
  BY <1>1, <1>2, <1>3, CodesDiffer

(* An array that every sample has is read back at each one's code.         *)
LEMMA ArraysAreRead ==
  ASSUME NEW clip, IsClip(clip), NEW stated, IsAuthorable(EmptyStage, clip, stated),
         NEW value, DOMAIN value = DOMAIN clip.samples,
         \A i \in DOMAIN clip.samples : IsSequence(value[i])
  PROVE  LET attr == Flat(Keyframes(clip, value))
         IN  /\ Keys(attr) = {Code(clip, i) : i \in DOMAIN clip.samples}
             /\ \A i \in DOMAIN clip.samples : ArrayAt(attr, Code(clip, i)) = value[i]
<1> DEFINE attr == Flat(Keyframes(clip, value))
<1>1. \A i, k \in DOMAIN clip.samples : Code(clip, i) = Code(clip, k) => i = k
  BY ClipCodes
<1>2. IsAttribute(attr)
  <2>1. \A i \in DOMAIN clip.samples : i > 1 => Code(clip, i - 1) < Code(clip, i)
    BY DEF IsAuthorable
  <2>2. QED
    BY <2>1, SomeKeyframes
<1>3. /\ Keys(attr) = {Code(clip, i) : i \in DOMAIN clip.samples}
      /\ \A i \in DOMAIN clip.samples : attr.keys[Code(clip, i)] = value[i]
  BY <1>1, KeyframesHold
<1> HIDE DEF attr
<1>4. \A i \in DOMAIN clip.samples : ArrayAt(attr, Code(clip, i)) = value[i]
  BY <1>2, <1>3, ResolvedAtAKey
<1>5. QED
  BY <1>3, <1>4 DEF attr

(* What some samples state is stated at their codes and no other's.        *)
LEMMA StatedBySome ==
  ASSUME NEW clip, IsClip(clip), NEW stated, IsAuthorable(EmptyStage, clip, stated),
         NEW value, DOMAIN value \subseteq DOMAIN clip.samples
  PROVE  LET attr == Keyframes(clip, value)
         IN  /\ Keys(attr) = {Code(clip, i) : i \in DOMAIN value}
             /\ HasOpinion(attr) <=> DOMAIN value # {}
             /\ \A i \in DOMAIN clip.samples :
                  StatedAt(attr, Code(clip, i)) = IF i \in DOMAIN value THEN {<<value[i]>>} ELSE {}
<1> DEFINE attr == Keyframes(clip, value)
<1>1. \A i, k \in DOMAIN clip.samples : Code(clip, i) = Code(clip, k) => i = k
  BY ClipCodes
<1>2. /\ Keys(attr) = {Code(clip, i) : i \in DOMAIN value}
      /\ \A i \in DOMAIN value : attr.keys[Code(clip, i)] = <<value[i]>>
  BY <1>1, KeyframesHold
<1>3. attr.default = {}
  BY DEF Keyframes
<1> HIDE DEF attr
<1>4. ASSUME NEW i \in DOMAIN clip.samples
      PROVE  StatedAt(attr, Code(clip, i)) = IF i \in DOMAIN value THEN {<<value[i]>>} ELSE {}
  <2>1. CASE i \in DOMAIN value
    <3>1. Keys(attr) # {} /\ Keys(attr) \cap {Code(clip, i)} = {Code(clip, i)}
      BY <1>2, <2>1
    <3>2. {attr.keys[key] : key \in {Code(clip, i)}} = {<<value[i]>>}
      BY <1>2, <2>1
    <3>3. QED
      BY <2>1, <3>1, <3>2 DEF StatedAt
  <2>2. CASE i \notin DOMAIN value
    <3>1. Keys(attr) \cap {Code(clip, i)} = {}
      BY <1>1, <1>2, <2>2
    <3>2. {attr.keys[key] : key \in {}} = {}
      OBVIOUS
    <3>3. QED
      BY <1>3, <2>2, <3>1, <3>2 DEF StatedAt
  <2>3. QED
    BY <2>1, <2>2
<1>5. HasOpinion(attr) <=> DOMAIN value # {}
  BY <1>2, <1>3 DEF HasOpinion
<1>6. QED
  BY <1>2, <1>4, <1>5 DEF attr

-----------------------------------------------------------------------------
(* The arrays and channels a reader takes.                                 *)

(* The channel a writer authors for a name.                                *)
LEMMA ChannelIs ==
  ASSUME NEW clip, NEW name
  PROVE  /\ AuthoredChannel(clip, name).name = {name}
         /\ AuthoredChannel(clip, name).value = Keyframes(clip, Said(clip, name))
BY DEF AuthoredChannel, Said, Carrying

(* Every name is some sample's, and a reader takes every channel.          *)
LEMMA ChannelsAreRead ==
  ASSUME NEW clip, IsClip(clip), NEW stated, IsAuthorable(EmptyStage, clip, stated),
         NEW stage, stage.channels = Channelled(clip)
  PROVE  /\ ChannelInputs(stage, << >>) = {AuthoredChannel(clip, name) : name \in ChannelNames(clip)}
         /\ ProjectionIsSound(stage, << >>)
<1> DEFINE names == SetToSeq(ChannelNames(clip))
           n == Len(names)
<1>1. /\ n \in Nat /\ DOMAIN names = 1 .. n
      /\ \A c \in 1 .. n : names[c] \in ChannelNames(clip)
      /\ \A c, d \in 1 .. n : names[c] = names[d] => c = d
      /\ \A name \in ChannelNames(clip) : \E c \in 1 .. n : names[c] = name
  <2>1. IsFiniteSet(ChannelNames(clip))
    BY ChannelNamesAreFinite
  <2>2. QED
    BY <2>1, SetToSeqLists
<1> HIDE DEF names, n
<1>2. DOMAIN stage.channels = 1 .. n /\ \A c \in 1 .. n : stage.channels[c] = AuthoredChannel(clip, names[c])
  BY <1>1 DEF Channelled, names
<1>3. \A name \in ChannelNames(clip) : HasOpinion(AuthoredChannel(clip, name).value)
  <2> SUFFICES ASSUME NEW name \in ChannelNames(clip)
               PROVE  HasOpinion(Keyframes(clip, Said(clip, name)))
    BY ChannelIs
  <2>1. DOMAIN Said(clip, name) = Carrying(clip, name)
    BY DEF Said
  <2>2. Carrying(clip, name) # {} /\ Carrying(clip, name) \subseteq DOMAIN clip.samples
    BY DEF Carrying, ChannelNames
  <2>3. QED
    BY <2>1, <2>2, StatedBySome
<1>4. \A c \in 1 .. n : stage.channels[c].name = {names[c]} /\ HasOpinion(stage.channels[c].value)
  BY <1>1, <1>2, <1>3, ChannelIs
<1>5. Bindable(stage.channels) = 1 .. n
  BY <1>2, <1>4 DEF Bindable
<1>6. FirstOfEachName(stage.channels) = 1 .. n
  <2>1. ASSUME NEW i \in 1 .. n, NEW k \in 1 .. n, stage.channels[k].name = stage.channels[i].name
        PROVE  i <= k
    <3>1. names[k] = names[i]
      BY <1>4, <2>1
    <3>2. k = i
      BY <1>1, <3>1
    <3>3. QED
      BY <1>1, <3>2
  <2>2. QED
    BY <1>5, <2>1 DEF FirstOfEachName
<1>7. {q \in Range(<< >>) : HasOpinion(q.value)} = {} /\ DOMAIN << >> = {}
  BY DEF Range
<1>8. {stage.channels[i] : i \in 1 .. n} = {AuthoredChannel(clip, name) : name \in ChannelNames(clip)}
  BY <1>1, <1>2
<1>9. ChannelInputs(stage, << >>) = {stage.channels[i] : i \in 1 .. n}
  <2>1. {[name |-> p.name, value |-> p.value] : p \in {}} = {}
    OBVIOUS
  <2>2. QED
    BY <1>6, <1>7, <2>1 DEF ChannelInputs
<1>10. ProjectionIsSound(stage, << >>)
  BY <1>7 DEF ProjectionIsSound
<1>11. QED
  BY <1>8, <1>9, <1>10

(* The arrays of a body are as long as its joints.                         *)
LEMMA BodyArrays ==
  ASSUME NEW clip, IsClip(clip), NEW stated \in Stated, IsAuthorable(EmptyStage, clip, stated)
  PROVE  LET rest == RestOf(clip, stated)
             n    == Len(BonesOf(rest))
         IN  /\ DOMAIN Turns(clip, rest) = DOMAIN clip.samples
             /\ DOMAIN Moves(clip, rest) = DOMAIN clip.samples
             /\ \A i \in DOMAIN clip.samples :
                  /\ IsSequence(Turns(clip, rest)[i]) /\ Len(Turns(clip, rest)[i]) = n
                  /\ IsSequence(Moves(clip, rest)[i]) /\ Len(Moves(clip, rest)[i]) = n
<1> DEFINE rest == RestOf(clip, stated)
           bones == BonesOf(rest)
           n == Len(bones)
<1>1. Present(rest) \subseteq Bones
  BY RestStands
<1>2. n \in Nat /\ DOMAIN bones = 1 .. n
  BY <1>1, BonesListed DEF BonesOf
<1> HIDE DEF rest, bones, n
<1>3. ASSUME NEW i \in DOMAIN clip.samples
      PROVE  /\ IsSequence(Turns(clip, rest)[i]) /\ Len(Turns(clip, rest)[i]) = n
             /\ IsSequence(Moves(clip, rest)[i]) /\ Len(Moves(clip, rest)[i]) = n
  <2> DEFINE turn == Turns(clip, rest)[i]
             move == Moves(clip, rest)[i]
  <2>1. turn = [b \in 1 .. n |-> turn[b]]
    BY <1>2 DEF Turns, bones
  <2>2. move = [b \in 1 .. n |-> move[b]]
    BY <1>2 DEF Moves, bones
  <2> HIDE DEF turn, move
  <2>3. IsSequence(turn) /\ Len(turn) = n /\ IsSequence(move) /\ Len(move) = n
    BY <1>2, <2>1, <2>2, ListIsASequence
  <2>4. QED
    BY <2>3 DEF turn, move
<1>4. DOMAIN Turns(clip, rest) = DOMAIN clip.samples /\ DOMAIN Moves(clip, rest) = DOMAIN clip.samples
  BY DEF Turns, Moves
<1>5. QED
  BY <1>3, <1>4 DEF n, bones, rest

(* A reader reads at the codes of the samples, in their order.             *)
Times(clip) == [i \in DOMAIN clip.samples |-> Code(clip, i)]

(* A reader samples the codes the clip was written at.                     *)
LEMMA CodesAreRead ==
  ASSUME NEW clip, IsClip(clip), NEW stated \in Stated, IsAuthorable(EmptyStage, clip, stated),
         NEW stage, stage.channels = Channelled(clip)
  PROVE  LET body == AuthoredBody(clip, RestOf(clip, stated))
         IN  /\ ReadCodes(stage, body, AsAuthored) = {Code(clip, i) : i \in DOMAIN clip.samples}
             /\ InOrder(ReadCodes(stage, body, AsAuthored)) = Times(clip)
<1> DEFINE rest == RestOf(clip, stated)
           body == AuthoredBody(clip, rest)
           codes == {Code(clip, i) : i \in DOMAIN clip.samples}
           n == Len(clip.samples)
<1>1. /\ n \in Nat \ {0} /\ DOMAIN clip.samples = 1 .. n
      /\ \A i \in 1 .. n : Code(clip, i) \in Int
      /\ \A i, k \in 1 .. n : i < k => Code(clip, i) < Code(clip, k)
  BY ClipCodes
<1>2. /\ body.rotations = Flat(Keyframes(clip, Turns(clip, rest)))
      /\ body.translations = Flat(Keyframes(clip, Moves(clip, rest)))
      /\ body.gaze = Keyframes(clip, Gazes(clip))
  BY BodyIs
<1>3. Keys(body.rotations) = codes /\ Keys(body.translations) = codes
  BY <1>2, BodyArrays, ArraysAreRead
<1>4. Keys(body.gaze) \subseteq codes
  <2>1. DOMAIN Gazes(clip) \subseteq DOMAIN clip.samples
    BY DEF Gazes, Gazing
  <2>2. Keys(body.gaze) = {Code(clip, i) : i \in DOMAIN Gazes(clip)}
    BY <1>2, <2>1, StatedBySome
  <2>3. QED
    BY <2>1, <2>2
<1>5. \A name \in ChannelNames(clip) : Keys(AuthoredChannel(clip, name).value) \subseteq codes
  <2> SUFFICES ASSUME NEW name \in ChannelNames(clip)
               PROVE  Keys(Keyframes(clip, Said(clip, name))) \subseteq codes
    BY ChannelIs
  <2>1. DOMAIN Said(clip, name) \subseteq DOMAIN clip.samples
    BY DEF Said, Carrying
  <2>2. Keys(Keyframes(clip, Said(clip, name))) = {Code(clip, i) : i \in DOMAIN Said(clip, name)}
    BY <2>1, StatedBySome
  <2>3. QED
    BY <2>1, <2>2
<1>6. ChannelInputs(stage, AsAuthored.channels) = {AuthoredChannel(clip, name) : name \in ChannelNames(clip)}
  BY ChannelsAreRead DEF AsAuthored
<1>7. GazeInput(body, AsAuthored) = body.gaze
  BY DEF GazeInput, AsAuthored
<1> HIDE DEF body, rest
<1>8. UNION {Keys(channel.value) : channel \in ChannelInputs(stage, AsAuthored.channels)} \subseteq codes
  <2> HIDE DEF codes
  <2>1. QED
    BY <1>5, <1>6
<1>9. codes # {}
  BY <1>1
<1> HIDE DEF codes
<1>10. ReadCodes(stage, body, AsAuthored) = codes
  <2>1. KeyUnion(stage, body, AsAuthored) = codes
    BY <1>3, <1>4, <1>7, <1>8 DEF KeyUnion
  <2>2. QED
    BY <1>9, <2>1 DEF ReadCodes
<1>11. Climbs(codes, n, Times(clip))
  <2>1. Times(clip) \in [1 .. n -> codes]
    BY <1>1 DEF Times, codes
  <2>2. \A i \in 1 .. n : Times(clip)[i] = Code(clip, i)
    BY <1>1 DEF Times
  <2>3. \A x \in codes : \E k \in 1 .. n : Times(clip)[k] = x
    BY <1>1, <2>2 DEF codes
  <2>4. \A k, l \in 1 .. n : k < l => Times(clip)[k] < Times(clip)[l]
    BY <1>1, <2>2
  <2>5. QED
    BY <2>1, <2>3, <2>4 DEF Climbs
<1>12. codes \subseteq Int
  BY <1>1 DEF codes
<1>13. InOrder(codes) = Times(clip)
  <2> HIDE DEF n
  <2>1. QED
    BY <1>1, <1>11, <1>12, AscentIsTheOrder
<1>14. QED
  BY <1>10, <1>13 DEF codes, body, rest

-----------------------------------------------------------------------------
(* The body at a sample.                                                   *)

(* At the rate a writer authors, a code is a time.                         *)
LEMMA SecondsAtTheStageRate ==
  ASSUME NEW code \in Int
  PROVE  Seconds(code, 30) = code
BY DEF Seconds, StageRate

LEMMA MaxOfOne ==
  ASSUME NEW b \in Int
  PROVE  Max({b}) = b
BY DEF Max

(* A bone's place in the joints is its place in the list of bones.         *)
LEMMA PlaceOfABone ==
  ASSUME NEW rest, Present(rest) \subseteq Bones
  PROVE  LET bones  == BonesOf(rest)
             joints == JointsOf(bones, Present(rest))
         IN  /\ {BoneOf(joints[i]) : i \in DOMAIN joints} \ {NoBone} = Present(rest)
             /\ \A b \in DOMAIN bones : PlaceOf(joints, bones[b]) = b
<1> DEFINE present == Present(rest)
           bones == BonesOf(rest)
           joints == JointsOf(bones, present)
           n == Len(bones)
<1>1. /\ n \in Nat /\ DOMAIN bones = 1 .. n
      /\ \A b \in 1 .. n : bones[b] \in present
      /\ \A bone \in present : \E b \in 1 .. n : bones[b] = bone
      /\ \A b, c \in 1 .. n : bones[b] = bones[c] => b = c
  BY BonesListed DEF BonesOf
<1>2. /\ DOMAIN joints = 1 .. n
      /\ \A b \in 1 .. n : BoneOf(joints[b]) = bones[b] /\ bones[b] # NoBone
  BY JointsStand DEF BonesOf
<1> HIDE DEF joints, bones, present, n
<1>3. {BoneOf(joints[i]) : i \in DOMAIN joints} \ {NoBone} = present
  BY <1>1, <1>2
<1>4. ASSUME NEW b \in 1 .. n
      PROVE  PlaceOf(joints, bones[b]) = b
  <2>1. {i \in DOMAIN joints : BoneOf(joints[i]) = bones[b]} = {b}
    BY <1>1, <1>2
  <2>2. QED
    BY <2>1, MaxOfOne DEF PlaceOf
<1>5. QED
  BY <1>1, <1>3, <1>4 DEF joints, bones, present

(* What the body of a sample holds: turns, facing and place.               *)
Turned(clip, rest, i) ==
  [bone \in Present(rest) |-> IF bone \in DOMAIN clip.samples[i].rotations
                              THEN clip.samples[i].rotations[bone] ELSE rest.rotations[bone]]

Faced(clip, rest, i) == IF Hips \in Present(rest) THEN {Turned(clip, rest, i)[Hips]} ELSE {}
Stood(clip, rest, i) == IF Hips \in Present(rest) THEN {HeldPlace(clip, rest, i)} ELSE {}

PoseOf(timestamp, rotations, facing, place, channels, gaze) ==
  [timestamp |-> timestamp, rotations |-> rotations, facing |-> facing, place |-> place,
   channels |-> channels, gaze |-> gaze]

Bare(clip, rest, i) ==
  PoseOf(Code(clip, i), Turned(clip, rest, i), Faced(clip, rest, i), Stood(clip, rest, i), << >>, {})

(* The body read at a sample's code: its turns, and the place held.        *)
LEMMA BodyIsRead ==
  ASSUME NEW clip, IsClip(clip), NEW stated \in Stated, IsAuthorable(EmptyStage, clip, stated),
         NEW i \in DOMAIN clip.samples
  PROVE  LET rest == RestOf(clip, stated)
         IN  The(PoseFromStageSample(JointsOf(BonesOf(rest), Present(rest)), Turns(clip, rest)[i],
                                     Moves(clip, rest)[i], 30, {Code(clip, i)}))
               = Bare(clip, rest, i)
<1> DEFINE rest == RestOf(clip, stated)
           present == Present(rest)
           bones == BonesOf(rest)
           joints == JointsOf(bones, present)
           turn == Turns(clip, rest)[i]
           move == Moves(clip, rest)[i]
           code == Code(clip, i)
           n == Len(bones)
           named == {BoneOf(joints[k]) : k \in DOMAIN joints} \ {NoBone}
           turned == [bone \in named |-> turn[PlaceOf(joints, bone)]]
<1>1. Present(rest) \subseteq Bones
  BY RestStands
<1>2. /\ n \in Nat /\ DOMAIN bones = 1 .. n
      /\ \A bone \in present : \E b \in 1 .. n : bones[b] = bone
  BY <1>1, BonesListed DEF BonesOf
<1>3. named = present /\ \A b \in 1 .. n : PlaceOf(joints, bones[b]) = b
  BY <1>1, <1>2, PlaceOfABone
<1>4. Len(turn) = n /\ Len(move) = n
  BY BodyArrays
<1>5. Len(joints) = n
  BY <1>1, JointsStand DEF BonesOf
<1>6. code \in Int /\ The({code}) = code /\ Seconds(code, 30) = code
  <2>1. code \in Int
    BY ClipCodes
  <2>2. The({code}) = code
    BY DEF The
  <2> HIDE DEF code
  <2>3. QED
    BY <2>1, <2>2, SecondsAtTheStageRate
<1>7. \A b \in 1 .. n : turn[b] = Turned(clip, rest, i)[bones[b]]
  <2> SUFFICES ASSUME NEW b \in 1 .. n PROVE turn[b] = Turned(clip, rest, i)[bones[b]]
    OBVIOUS
  <2>1. bones[b] \in present
    BY <1>1, BonesListed DEF BonesOf
  <2>2. turn[b] = IF bones[b] \in DOMAIN clip.samples[i].rotations
                  THEN clip.samples[i].rotations[bones[b]] ELSE rest.rotations[bones[b]]
    BY <1>2 DEF Turns
  <2> HIDE DEF rest, bones, turn
  <2>3. QED
    BY <2>1, <2>2 DEF Turned
<1>8. \A b \in 1 .. n : bones[b] = Hips => move[b] = HeldPlace(clip, rest, i)
  <2> HIDE DEF rest
  <2>1. QED
    BY <1>2 DEF Moves
<1> HIDE DEF rest, present, bones, joints, turn, move, n, code
<1>9. /\ turned = Turned(clip, rest, i)
      /\ named \cap {Hips} = IF Hips \in present THEN {Hips} ELSE {}
  <2>1. \A bone \in present : turn[PlaceOf(joints, bone)] = Turned(clip, rest, i)[bone]
    BY <1>2, <1>3, <1>7
  <2>2. Turned(clip, rest, i) = [bone \in present |-> Turned(clip, rest, i)[bone]]
    BY DEF Turned, present
  <2> HIDE DEF named
  <2>3. turned = Turned(clip, rest, i)
    BY <1>3, <2>1, <2>2
  <2>4. QED
    BY <1>3, <2>3
<1>10. Hips \in present => turn[PlaceOf(joints, Hips)] = Turned(clip, rest, i)[Hips]
                           /\ move[PlaceOf(joints, Hips)] = HeldPlace(clip, rest, i)
  BY <1>2, <1>3, <1>7, <1>8
<1> DEFINE facing == {turn[PlaceOf(joints, bone)] : bone \in named \cap {Hips}}
           place == {move[PlaceOf(joints, bone)] : bone \in named \cap {Hips}}
<1> HIDE DEF named
<1>11. facing = Faced(clip, rest, i)
  BY <1>9, <1>10 DEF Faced, present
<1>12. place = Stood(clip, rest, i)
  BY <1>9, <1>10 DEF Stood, present
<1>13. PoseFromStageSample(joints, turn, move, 30, {code})
         = {[timestamp |-> code, rotations |-> turned, facing |-> facing, place |-> place,
             channels |-> << >>, gaze |-> {}]}
  BY <1>4, <1>5, <1>6 DEF PoseFromStageSample, named
<1> HIDE DEF turned, facing, place
<1>14. PoseFromStageSample(joints, turn, move, 30, {code}) = {Bare(clip, rest, i)}
  BY <1>9, <1>11, <1>12, <1>13 DEF Bare, PoseOf, code
<1>15. The({Bare(clip, rest, i)}) = Bare(clip, rest, i)
  BY DEF The
<1>16. QED
  BY <1>14, <1>15 DEF joints, turn, move, code, bones, present, rest

-----------------------------------------------------------------------------
(* A sample, as it is read back.                                           *)

(* The place held at a sample is the one last reported.                    *)
PlaceTold(clip, rest, i) ==
  LET told == {k \in 1 .. i : clip.samples[k].place # {}}
  IN  IF Hips \notin Present(rest) THEN {} ELSE IF told = {} THEN {rest.places[Hips]}
      ELSE clip.samples[CHOOSE k \in told : \A l \in told : l <= k].place

LEMMA PlaceIsTold ==
  ASSUME NEW clip, IsClip(clip), NEW rest, NEW i \in DOMAIN clip.samples
  PROVE  Stood(clip, rest, i) = PlaceTold(clip, rest, i)
<1> DEFINE told == {k \in 1 .. i : clip.samples[k].place # {}}
           last == CHOOSE k \in told : \A l \in told : l <= k
<1>1. Len(clip.samples) \in Nat /\ DOMAIN clip.samples = 1 .. Len(clip.samples)
  BY DEF IsClip, IsSequence
<1>2. told = {k \in Reported(clip) : k <= i}
  BY <1>1 DEF Reported
<1>3. \A k \in told : clip.samples[k].place = {The(clip.samples[k].place)}
  BY <1>1, <1>2 DEF Reported, IsClip
<1>4. Max(told) = last
  <2>1. \A k \in told : k \in Int
    BY <1>1
  <2> HIDE DEF told
  <2>2. \A k \in told : (\A l \in told : k >= l) <=> (\A l \in told : l <= k)
    BY <2>1
  <2>3. QED
    BY <2>2 DEF Max
<1>5. told # {} => last \in told
  <2>1. SUFFICES ASSUME told # {} PROVE \E k \in told : \A l \in told : l <= k
    OBVIOUS
  <2> DEFINE gaps == {i - k : k \in told}
  <2>2. gaps \subseteq Nat /\ gaps # {}
    BY <1>1, <2>1
  <2>3. PICK g \in gaps : \A h \in gaps : g <= h
    <3> HIDE DEF gaps
    <3>1. QED
      BY <2>2, SmallestIndex
  <2>4. PICK k \in told : g = i - k
    OBVIOUS
  <2>5. \A l \in told : l <= k
    <3> SUFFICES ASSUME NEW l \in told PROVE l <= k
      OBVIOUS
    <3>1. i - l \in gaps
      OBVIOUS
    <3>2. i - k <= i - l
      BY <2>3, <2>4, <3>1
    <3>3. QED
      BY <1>1, <3>2
  <2>6. QED
    BY <2>5
<1>6. HeldPlace(clip, rest, i) = IF told = {} THEN rest.places[Hips] ELSE The(clip.samples[last].place)
  <2> HIDE DEF told, last
  <2>1. QED
    BY <1>2, <1>4 DEF HeldPlace
<1>7. PlaceTold(clip, rest, i)
        = IF Hips \notin Present(rest) THEN {} ELSE IF told = {} THEN {rest.places[Hips]}
          ELSE clip.samples[last].place
  BY DEF PlaceTold
<1> HIDE DEF told, last
<1>8. QED
  BY <1>3, <1>5, <1>6, <1>7 DEF Stood

(* What is read of the channels at a sample's code.                        *)
ChannelsAt(stage, code) ==
  LET stating == {channel \in ChannelInputs(stage, AsAuthored.channels) :
                    StatedAt(channel.value, code) # {}}
      of(n)   == CHOOSE channel \in stating : n \in channel.name
  IN  [n \in UNION {c.name : c \in stating} |-> The(StatedAt(of(n).value, code))[1]]

(* The channels at a sample's code are the sample's.                       *)
LEMMA ChannelsAtACode ==
  ASSUME NEW clip, IsClip(clip), NEW stated, IsAuthorable(EmptyStage, clip, stated),
         NEW stage, stage.channels = Channelled(clip), NEW i \in DOMAIN clip.samples
  PROVE  ChannelsAt(stage, Code(clip, i)) = clip.samples[i].channels
<1> DEFINE code == Code(clip, i)
           said == clip.samples[i].channels
           stating == {channel \in ChannelInputs(stage, AsAuthored.channels) : StatedAt(channel.value, code) # {}}
           of(n) == CHOOSE channel \in stating : n \in channel.name
<1>1. \A name \in ChannelNames(clip) :
        StatedAt(AuthoredChannel(clip, name).value, code)
          = IF name \in DOMAIN said THEN {<<said[name]>>} ELSE {}
  <2> SUFFICES ASSUME NEW name \in ChannelNames(clip)
               PROVE  StatedAt(Keyframes(clip, Said(clip, name)), code)
                        = IF name \in DOMAIN said THEN {<<said[name]>>} ELSE {}
    BY ChannelIs
  <2>1. DOMAIN Said(clip, name) = Carrying(clip, name) /\ Carrying(clip, name) \subseteq DOMAIN clip.samples
    BY DEF Said, Carrying
  <2>2. StatedAt(Keyframes(clip, Said(clip, name)), code)
          = IF i \in DOMAIN Said(clip, name) THEN {<<Said(clip, name)[i]>>} ELSE {}
    BY <2>1, StatedBySome
  <2>3. i \in Carrying(clip, name) <=> name \in DOMAIN said
    BY DEF Carrying
  <2>4. i \in Carrying(clip, name) => Said(clip, name)[i] = said[name]
    BY DEF Said
  <2>5. QED
    BY <2>1, <2>2, <2>3, <2>4
<1>2. ChannelInputs(stage, AsAuthored.channels)
        = {AuthoredChannel(clip, name) : name \in ChannelNames(clip)}
  BY ChannelsAreRead DEF AsAuthored
<1>3. DOMAIN said \subseteq ChannelNames(clip)
  BY DEF ChannelNames
<1>4. said = [name \in DOMAIN said |-> said[name]]
  BY DEF IsClip
<1> HIDE DEF said, code
<1>5. stating = {AuthoredChannel(clip, name) : name \in DOMAIN said}
  BY <1>1, <1>2, <1>3
<1> HIDE DEF stating
<1>6. \A name \in DOMAIN said : AuthoredChannel(clip, name).name = {name}
  BY ChannelIs
<1>7. UNION {c.name : c \in stating} = DOMAIN said
  <2>1. \A c \in stating : c.name \subseteq DOMAIN said
    BY <1>5, <1>6
  <2>2. \A n \in DOMAIN said : AuthoredChannel(clip, n) \in stating /\ n \in AuthoredChannel(clip, n).name
    BY <1>5, <1>6
  <2>3. QED
    BY <2>1, <2>2
<1>8. \A n \in DOMAIN said : of(n) = AuthoredChannel(clip, n)
  <2> SUFFICES ASSUME NEW n \in DOMAIN said PROVE of(n) = AuthoredChannel(clip, n)
    OBVIOUS
  <2>1. AuthoredChannel(clip, n) \in stating /\ n \in AuthoredChannel(clip, n).name
    BY <1>5, <1>6
  <2>2. \A channel \in stating : n \in channel.name => channel = AuthoredChannel(clip, n)
    BY <1>5, <1>6
  <2>3. QED
    BY <2>1, <2>2
<1>9. \A n \in DOMAIN said : The(StatedAt(of(n).value, code))[1] = said[n]
  <2> SUFFICES ASSUME NEW n \in DOMAIN said PROVE The(StatedAt(of(n).value, code))[1] = said[n]
    OBVIOUS
  <2>1. StatedAt(of(n).value, code) = {<<said[n]>>}
    BY <1>1, <1>3, <1>8
  <2>2. The({<<said[n]>>}) = <<said[n]>>
    BY DEF The
  <2> HIDE DEF of
  <2>3. QED
    BY <2>1, <2>2
<1>10. ChannelsAt(stage, code) = [n \in UNION {c.name : c \in stating} |-> The(StatedAt(of(n).value, code))[1]]
  BY DEF ChannelsAt, stating
<1> HIDE DEF of
<1>11. ChannelsAt(stage, code) = [n \in DOMAIN said |-> said[n]]
  BY <1>7, <1>9, <1>10
<1>12. QED
  BY <1>4, <1>11 DEF said, code

(* What is read of the gaze there.                                         *)
LEMMA GazeAtACode ==
  ASSUME NEW clip, IsClip(clip), NEW stated, IsAuthorable(EmptyStage, clip, stated),
         NEW i \in DOMAIN clip.samples
  PROVE  /\ StatedAt(Keyframes(clip, Gazes(clip)), Code(clip, i))
              = IF clip.samples[i].gaze # {} THEN {<<The(clip.samples[i].gaze)>>} ELSE {}
         /\ UNION {Range(value) : value \in StatedAt(Keyframes(clip, Gazes(clip)), Code(clip, i))}
              = clip.samples[i].gaze
<1> DEFINE gaze == clip.samples[i].gaze
           told == StatedAt(Keyframes(clip, Gazes(clip)), Code(clip, i))
<1>1. told = IF gaze # {} THEN {<<The(gaze)>>} ELSE {}
  <2>1. DOMAIN Gazes(clip) = Gazing(clip) /\ Gazing(clip) \subseteq DOMAIN clip.samples
    BY DEF Gazes, Gazing
  <2>2. told = IF i \in DOMAIN Gazes(clip) THEN {<<Gazes(clip)[i]>>} ELSE {}
    BY <2>1, StatedBySome
  <2>3. i \in Gazing(clip) <=> gaze # {}
    BY DEF Gazing
  <2>4. i \in Gazing(clip) => Gazes(clip)[i] = The(gaze)
    BY DEF Gazes
  <2>5. QED
    BY <2>1, <2>2, <2>3, <2>4
<1>2. gaze # {} => gaze = {The(gaze)}
  BY DEF IsClip
<1> HIDE DEF told, gaze
<1>3. CASE gaze = {}
  BY <1>1, <1>3 DEF told, gaze
<1>4. CASE gaze # {}
  <2> DEFINE x == The(gaze)
  <2>1. Range(<<x>>) = {x}
    <3> HIDE DEF x
    <3>1. DOMAIN <<x>> = 1 .. 1 /\ <<x>>[1] = x /\ 1 .. 1 = {1}
      OBVIOUS
    <3>2. QED
      BY <3>1 DEF Range
  <2>2. told = {<<x>>} /\ gaze = {x}
    BY <1>1, <1>2, <1>4
  <2> HIDE DEF x
  <2>3. UNION {Range(value) : value \in {<<x>>}} = {x}
    BY <2>1
  <2>4. UNION {Range(value) : value \in told} = gaze
    BY <2>2, <2>3
  <2>5. QED
    BY <1>1, <2>4 DEF told, gaze
<1>5. QED
  BY <1>3, <1>4

(* A body with what else is read at its code.                              *)
Completed(body, channels, gaze) == [body EXCEPT !.channels = channels, !.gaze = gaze]

(* A body with its channels and gaze is the pose of all three.             *)
LEMMA CompletedPose ==
  ASSUME NEW t, NEW r, NEW f, NEW p, NEW c, NEW g, NEW channels, NEW gaze
  PROVE  Completed(PoseOf(t, r, f, p, c, g), channels, gaze) = PoseOf(t, r, f, p, channels, gaze)
<1> DEFINE body == PoseOf(t, r, f, p, c, g)
           mid == [body EXCEPT !.channels = channels]
           after == [mid EXCEPT !.gaze = gaze]
<1>1. mid = PoseOf(t, r, f, p, channels, g)
  BY DEF PoseOf
<1>2. [PoseOf(t, r, f, p, channels, g) EXCEPT !.gaze = gaze] = PoseOf(t, r, f, p, channels, gaze)
  BY DEF PoseOf
<1>3. Completed(body, channels, gaze) = after
  <2> HIDE DEF body
  <2>1. QED
    BY DEF Completed
<1> HIDE DEF mid
<1>4. after = PoseOf(t, r, f, p, channels, gaze)
  BY <1>1, <1>2
<1>5. QED
  BY <1>3, <1>4

(* At a sample's code a reader finds what the sample had.                  *)
LEMMA SampleIsRead ==
  ASSUME NEW clip, IsClip(clip), NEW stated \in Stated, IsAuthorable(EmptyStage, clip, stated),
         NEW stage, stage.channels = Channelled(clip), stage.rate = 30,
         NEW i \in DOMAIN clip.samples
  PROVE  PoseAt(stage, AuthoredBody(clip, RestOf(clip, stated)), AsAuthored, Code(clip, i))
           = Expected(clip, stated, i)
<1> DEFINE rest == RestOf(clip, stated)
           body == AuthoredBody(clip, rest)
           code == Code(clip, i)
           joints == JointsOf(BonesOf(rest), Present(rest))
<1>1. /\ body.joints = joints
      /\ body.rotations = Flat(Keyframes(clip, Turns(clip, rest)))
      /\ body.translations = Flat(Keyframes(clip, Moves(clip, rest)))
      /\ body.gaze = Keyframes(clip, Gazes(clip))
  BY BodyIs
<1>2. /\ ArrayAt(body.rotations, code) = Turns(clip, rest)[i]
      /\ ArrayAt(body.translations, code) = Moves(clip, rest)[i]
  BY <1>1, BodyArrays, ArraysAreRead
<1>3. The(PoseFromStageSample(joints, Turns(clip, rest)[i], Moves(clip, rest)[i], 30, {code}))
        = Bare(clip, rest, i)
  BY BodyIsRead
<1>4. UsableRate(stage) = 30
  BY DEF UsableRate
<1>5. ChannelsAt(stage, code) = clip.samples[i].channels
  BY ChannelsAtACode
<1>6. UNION {Range(value) : value \in StatedAt(body.gaze, code)} = clip.samples[i].gaze
  BY <1>1, GazeAtACode
<1>7. GazeInput(body, AsAuthored) = body.gaze 
  BY DEF GazeInput, AsAuthored
<1> HIDE DEF rest, body, code, joints
<1>8. PoseAt(stage, body, AsAuthored, code)
        = Completed(The(PoseFromStageSample(body.joints, ArrayAt(body.rotations, code),
                          ArrayAt(body.translations, code), UsableRate(stage), {code})),
                    ChannelsAt(stage, code),
                    UNION {Range(value) : value \in StatedAt(GazeInput(body, AsAuthored), code)})
  BY Zenon DEF PoseAt, Completed, ChannelsAt
<1>9. PoseAt(stage, body, AsAuthored, code)
        = Completed(Bare(clip, rest, i), clip.samples[i].channels, clip.samples[i].gaze)
  BY <1>1, <1>2, <1>3, <1>4, <1>5, <1>6, <1>7, <1>8, Zenon
<1>10. PoseAt(stage, body, AsAuthored, code)
         = PoseOf(code, Turned(clip, rest, i), Faced(clip, rest, i), PlaceTold(clip, rest, i),
                  clip.samples[i].channels, clip.samples[i].gaze)
  <2>1. Stood(clip, rest, i) = PlaceTold(clip, rest, i)
    BY PlaceIsTold
  <2>2. Completed(Bare(clip, rest, i), clip.samples[i].channels, clip.samples[i].gaze)
          = PoseOf(code, Turned(clip, rest, i), Faced(clip, rest, i), Stood(clip, rest, i),
                   clip.samples[i].channels, clip.samples[i].gaze)
    BY CompletedPose DEF Bare, code
  <2>3. QED
    BY <1>9, <2>1, <2>2
<1>11. Expected(clip, stated, i)
         = PoseOf(code, Turned(clip, rest, i), Faced(clip, rest, i), PlaceTold(clip, rest, i),
                  clip.samples[i].channels, clip.samples[i].gaze)
  <2> DEFINE told == {k \in 1 .. i : clip.samples[k].place # {}}
             rooted == Hips \in Present(rest)
             stood == IF ~rooted THEN {} ELSE IF told = {} THEN {rest.places[Hips]}
                      ELSE clip.samples[CHOOSE k \in told : \A l \in told : l <= k].place
  <2>1. PlaceTold(clip, rest, i) = stood
    BY DEF PlaceTold
  <2>2. Expected(clip, stated, i)
          = [timestamp |-> TimeCodeFor(clip.samples[i].timestamp), rotations |-> Turned(clip, rest, i),
             facing |-> IF rooted THEN {Turned(clip, rest, i)[Hips]} ELSE {},
             place |-> stood,
             channels |-> clip.samples[i].channels, gaze |-> clip.samples[i].gaze]
    BY Zenon DEF Expected, Turned, rest
  <2> HIDE DEF stood
  <2>3. QED
    BY <2>1, <2>2 DEF Code, Faced, PoseOf, code
<1>12. QED
  BY <1>10, <1>11 DEF rest, body, code

-----------------------------------------------------------------------------
(* The file holds the clip that was saved.                                 *)

(* The skeleton a writer authors is strict, and its parents are the        *)
(* vocabulary's.                                                           *)
LEMMA SkeletonStands ==
  ASSUME NEW clip, IsClip(clip), NEW stated \in Stated, IsAuthorable(EmptyStage, clip, stated)
  PROVE  LET stage  == Authored(EmptyStage, clip, stated)
             rest   == RestOf(clip, stated)
             joints == JointsOf(BonesOf(rest), Present(rest))
         IN  /\ stage.skeletons[1].joints = joints
             /\ joints # << >> /\ \E i \in DOMAIN joints : BoneOf(joints[i]) # NoBone
             /\ SkeletonIsStrict(stage, stage.skeletons[1])
             /\ NamesASourceRest(joints)
<1> DEFINE stage == Authored(EmptyStage, clip, stated)
           rest == RestOf(clip, stated)
           present == Present(rest)
           bones == BonesOf(rest)
           joints == JointsOf(bones, present)
           n == Len(bones)
           skeleton == stage.skeletons[1]
<1>1. present \subseteq Bones /\ present # {}
  BY RestStands
<1>2. /\ n \in Nat /\ \A bone \in present : \E b \in 1 .. n : bones[b] = bone
      /\ \A b, c \in 1 .. n : bones[b] = bones[c] => b = c
  BY <1>1, BonesListed DEF BonesOf
<1>3. /\ DOMAIN joints = 1 .. n /\ Len(joints) = n
      /\ \A b \in 1 .. n : BoneOf(joints[b]) = bones[b] /\ bones[b] # NoBone
      /\ \A b, c \in 1 .. n : joints[b] = joints[c] => b = c
  BY <1>1, JointsStand DEF BonesOf
<1>4. \A i \in 1 .. n : \E p \in 0 .. n : HangsUnder(joints, bones, present, i, p)
  BY <1>1, ParentsAgree DEF BonesOf
<1>5. stage.metric = TRUE /\ skeleton.joints = joints /\ Len(skeleton.rests) = n
  <2> DEFINE body == AuthoredBody(clip, rest)
  <2>1. body.joints = joints
    BY BodyIs
  <2>2. /\ stage.metric = TRUE /\ skeleton.joints = body.joints
        /\ \A m \in Nat : DOMAIN body.joints = 1 .. m => Len(skeleton.rests) = m
    BY AuthoredIs DEF IsWritten
  <2> HIDE DEF body, joints, skeleton, stage, n, rest
  <2>3. QED
    BY <1>2, <1>3, <2>1, <2>2
<1> HIDE DEF joints, bones, present, n, skeleton, stage
<1>6. PICK b \in 1 .. n : TRUE
  BY <1>1, <1>2
<1>7. joints # << >>
  BY <1>3, <1>6
<1>8. \E i \in DOMAIN joints : BoneOf(joints[i]) # NoBone
  BY <1>3, <1>6
<1>9. NamesASourceRest(joints)
  <2>1. {i \in DOMAIN joints : BoneOf(joints[i]) # NoBone} = 1 .. n
    BY <1>3
  <2>2. \A i, k \in 1 .. n : BoneOf(joints[i]) = BoneOf(joints[k]) => i = k
    BY <1>2, <1>3
  <2>3. QED
    BY <1>6, <2>1, <2>2 DEF NamesASourceRest
<1>10. \A i \in 1 .. n : /\ TopologyParent(joints, i) < i
                         /\ TopologyParent(joints, i) = ImmediateParent(joints, i)
  BY <1>4 DEF HangsUnder
<1>11. SkeletonIsStrict(stage, skeleton)
  BY <1>3, <1>5, <1>7, <1>10 DEF SkeletonIsStrict, TopologyIsValid
<1>12. QED
  BY <1>5, <1>7, <1>8, <1>9, <1>11 DEF joints, bones, present, stage, skeleton

(* No value of a channel is NaN: the reader refuses one.                   *)
IsSpelt(clip) ==
  \A k \in DOMAIN clip.samples, name \in ChannelNames(clip) :
    name \in DOMAIN clip.samples[k].channels => clip.samples[k].channels[name] # NaN

(* What a writer authors is readable.                                      *)
LEMMA AuthoredIsReadable ==
  ASSUME NEW clip, IsClip(clip), NEW stated \in Stated, IsAuthorable(EmptyStage, clip, stated),
         IsSpelt(clip)
  PROVE  LET stage == Authored(EmptyStage, clip, stated)
         IN  IsReadable(stage, 1, AuthoredBody(clip, RestOf(clip, stated)), AsAuthored)
<1> DEFINE stage == Authored(EmptyStage, clip, stated)
           rest == RestOf(clip, stated)
           body == AuthoredBody(clip, rest)
           joints == JointsOf(BonesOf(rest), Present(rest))
           codes == ReadCodes(stage, body, AsAuthored)
           inputs == {channel.value : channel \in ChannelInputs(stage, AsAuthored.channels)}
                       \cup {GazeInput(body, AsAuthored)}
<1>1. /\ stage.rate = 30 /\ stage.metric = TRUE /\ stage.channels = Channelled(clip)
  <2> HIDE DEF stage, rest, body, joints, codes, inputs
  <2>1. IsWritten(stage, body, clip)
    BY AuthoredIs DEF stage, rest, body
  <2>2. QED
    BY <2>1 DEF IsWritten
<1>2. body.joints = joints /\ body.gaze = Keyframes(clip, Gazes(clip))
  BY BodyIs
<1>3. /\ stage.skeletons[1].joints = joints /\ joints # << >>
      /\ \E i \in DOMAIN joints : BoneOf(joints[i]) # NoBone
  BY SkeletonStands
<1>4. codes = {Code(clip, i) : i \in DOMAIN clip.samples}
  <2> HIDE DEF stage
  <2>1. QED
    BY <1>1, CodesAreRead
<1>5. \A i \in DOMAIN clip.samples : Code(clip, i) \in Int
  BY ClipCodes
<1>6. /\ ChannelInputs(stage, AsAuthored.channels)
           = {AuthoredChannel(clip, name) : name \in ChannelNames(clip)}
      /\ ProjectionIsSound(stage, AsAuthored.channels)
  <2> HIDE DEF stage
  <2>1. QED
    BY <1>1, ChannelsAreRead DEF AsAuthored
<1>7. GazeInput(body, AsAuthored) = Keyframes(clip, Gazes(clip))
  BY <1>2 DEF GazeInput, AsAuthored
<1>8. ASSUME NEW i \in DOMAIN clip.samples, NEW name \in ChannelNames(clip)
      PROVE  <<NaN>> \notin StatedAt(AuthoredChannel(clip, name).value, Code(clip, i))
  <2> DEFINE said == Said(clip, name)
  <2>1. DOMAIN said = Carrying(clip, name) /\ Carrying(clip, name) \subseteq DOMAIN clip.samples
    BY DEF Said, Carrying
  <2>2. StatedAt(Keyframes(clip, said), Code(clip, i))
          = IF i \in DOMAIN said THEN {<<said[i]>>} ELSE {}
    BY <2>1, StatedBySome
  <2>3. i \in DOMAIN said => said[i] # NaN
    BY <2>1 DEF Said, Carrying, IsSpelt
  <2> HIDE DEF said
  <2>4. <<NaN>> \notin StatedAt(Keyframes(clip, said), Code(clip, i))
    <3>1. \A x : <<NaN>> = <<x>> => x = NaN
      OBVIOUS
    <3>2. QED
      BY <2>2, <2>3, <3>1
  <2>5. QED
    BY <2>4, ChannelIs DEF said
<1>9. ASSUME NEW i \in DOMAIN clip.samples
      PROVE  <<NaN>> \notin StatedAt(Keyframes(clip, Gazes(clip)), Code(clip, i))
  <2> DEFINE gaze == clip.samples[i].gaze
  <2>1. StatedAt(Keyframes(clip, Gazes(clip)), Code(clip, i))
          = IF gaze # {} THEN {<<The(gaze)>>} ELSE {}
    BY GazeAtACode
  <2>2. NaN \notin gaze /\ (gaze # {} => gaze = {The(gaze)})
    BY DEF IsAuthorable, IsClip
  <2> HIDE DEF gaze
  <2>3. gaze # {} => The(gaze) # NaN
    BY <2>2
  <2>4. \A x : <<NaN>> = <<x>> => x = NaN
    OBVIOUS
  <2>5. QED
    BY <2>1, <2>3, <2>4
<1> HIDE DEF stage, body, joints, codes
<1>10. \A early, late \in codes :
         early < late => Seconds(early, UsableRate(stage)) < Seconds(late, UsableRate(stage))
  <2>1. UsableRate(stage) = 30
    BY <1>1 DEF UsableRate
  <2>2. \A code \in codes : Seconds(code, 30) = code
    BY <1>4, <1>5, SecondsAtTheStageRate
  <2>3. QED
    BY <2>1, <2>2
<1>11. \A input \in inputs, code \in codes : <<NaN>> \notin StatedAt(input, code)
  <2> SUFFICES ASSUME NEW input \in inputs, NEW code \in codes
               PROVE  <<NaN>> \notin StatedAt(input, code)
    OBVIOUS
  <2>1. PICK i \in DOMAIN clip.samples : code = Code(clip, i)
    BY <1>4
  <2>2. \/ \E name \in ChannelNames(clip) : input = AuthoredChannel(clip, name).value
        \/ input = Keyframes(clip, Gazes(clip))
    BY <1>6, <1>7
  <2>3. QED
    BY <1>8, <1>9, <2>1, <2>2
<1>12. IsReadable(stage, 1, body, AsAuthored)
  BY <1>1, <1>2, <1>3, <1>6, <1>10, <1>11 DEF IsReadable, codes
<1>13. QED
  BY <1>12 DEF stage, body, rest

(* What the property says of one write.                                    *)
Carried(clip, stated) ==
  LET present == Present(RestOf(clip, stated))
      parent(answer, i) == LET p == answer.parents[i] IN IF p = 0 THEN NoBone ELSE Leaf(answer.joints[p])
  IN  \E answer \in ReadCanonicalMotionStage(Authored(EmptyStage, clip, stated), {}, "Skeleton", AsAuthored) :
        /\ answer.read.samples = [i \in DOMAIN clip.samples |-> Expected(clip, stated, i)]
        /\ \A i \in DOMAIN answer.joints :
             parent(answer, i) = NearestPresentAncestor(Leaf(answer.joints[i]), present)

(* What a writer authored is read back as the clip it was handed.          *)
LEMMA AuthoredIsCarried ==
  ASSUME NEW clip, IsClip(clip), NEW stated \in Stated, IsAuthorable(EmptyStage, clip, stated),
         IsSpelt(clip)
  PROVE  Carried(clip, stated)
<1> DEFINE stage == Authored(EmptyStage, clip, stated)
           rest == RestOf(clip, stated)
           present == Present(rest)
           bones == BonesOf(rest)
           joints == JointsOf(bones, present)
           n == Len(bones)
           body == AuthoredBody(clip, rest)
           read == ReadFrom(stage, body, AsAuthored)
           rests == stage.skeletons[1].rests
           parents == [i \in DOMAIN joints |-> ImmediateParent(joints, i)]
           answer == [read |-> read, joints |-> joints, rests |-> rests, parents |-> parents]
           expected == [i \in DOMAIN clip.samples |-> Expected(clip, stated, i)]
<1>1. /\ stage.rate = 30 /\ stage.channels = Channelled(clip)
      /\ DOMAIN stage.skeletons = {1} /\ stage.skeletons[1].path = "Skeleton"
      /\ stage.skeletons[1].source = {"Body"}
      /\ DOMAIN stage.animations = {1} /\ stage.animations[1] = body
  <2> HIDE DEF stage, rest, body
  <2>1. IsWritten(stage, body, clip)
    BY AuthoredIs DEF stage, rest, body
  <2>2. QED
    BY <2>1 DEF IsWritten
<1>2. /\ stage.skeletons[1].joints = joints
      /\ SkeletonIsStrict(stage, stage.skeletons[1])
      /\ NamesASourceRest(joints)
  BY SkeletonStands
<1>3. IsReadable(stage, 1, body, AsAuthored)
  BY AuthoredIsReadable
<1>4. body.path = "Body"
  BY BodyIs
<1>5. present \subseteq Bones
  BY RestStands
<1>6. /\ n \in Nat /\ DOMAIN joints = 1 .. n
      /\ \A b \in 1 .. n : Leaf(joints[b]) = bones[b]
  BY <1>5, BonesListed, JointsStand DEF BonesOf
<1>7. \A i \in 1 .. n : \E p \in 0 .. n : HangsUnder(joints, bones, present, i, p)
  BY <1>5, ParentsAgree DEF BonesOf
<1>8. read.samples = expected
  <2> DEFINE codes == InOrder(ReadCodes(stage, body, AsAuthored))
             samples == [i \in DOMAIN codes |-> PoseAt(stage, body, AsAuthored, codes[i])]
  <2>1. read.samples = samples
    BY DEF ReadFrom
  <2> HIDE DEF stage, read
  <2>2. codes = Times(clip)
    BY <1>1, CodesAreRead
  <2>3. \A i \in DOMAIN clip.samples : PoseAt(stage, body, AsAuthored, Code(clip, i)) = Expected(clip, stated, i)
    BY <1>1, SampleIsRead
  <2>4. DOMAIN Times(clip) = DOMAIN clip.samples /\ \A i \in DOMAIN clip.samples : Times(clip)[i] = Code(clip, i)
    BY DEF Times
  <2> HIDE DEF codes, body
  <2>5. samples = expected
    BY <2>2, <2>3, <2>4
  <2>6. QED
    BY <2>1, <2>5
<1> HIDE DEF stage, rest, present, bones, joints, n, body, read, rests
<1>9. FindSkeleton(stage, {"Skeleton"}) = {1}
  BY <1>1 DEF FindSkeleton
<1>10. AnimationOf(stage, {}, 1) = {1}
  <2>1. BoundPath(stage, {}, 1) = {"Body"}
    BY <1>1 DEF BoundPath
  <2>2. {a \in DOMAIN stage.animations : stage.animations[a].path \in BoundPath(stage, {}, 1)} = {1}
    BY <1>1, <1>4, <2>1
  <2>3. QED
    BY <2>2 DEF AnimationOf
<1>11. read \in ReadMotionStage(stage, {}, {"Skeleton"}, AsAuthored)
  BY <1>1, <1>3, <1>9, <1>10 DEF ReadMotionStage, read
<1>12. answer \in ReadCanonicalMotionStage(stage, {}, "Skeleton", AsAuthored)
  <2> DEFINE strict == {s \in FindSkeleton(stage, {"Skeleton"}) :
                          /\ SkeletonIsStrict(stage, stage.skeletons[s])
                          /\ stage.rate > 0
                          /\ NamesASourceRest(stage.skeletons[s].joints)}
             answers(s) == {[read |-> r, joints |-> stage.skeletons[s].joints,
                             rests |-> stage.skeletons[s].rests,
                             parents |-> [i \in DOMAIN stage.skeletons[s].joints |->
                                            ImmediateParent(stage.skeletons[s].joints, i)]] :
                              r \in ReadMotionStage(stage, {}, {"Skeleton"}, AsAuthored)}
  <2>1. 1 \in strict
    BY <1>1, <1>2, <1>9
  <2>2. answer \in answers(1)
    BY <1>2, <1>11 DEF rests
  <2> HIDE DEF answer
  <2>3. ReadCanonicalMotionStage(stage, {}, "Skeleton", AsAuthored) = UNION {answers(s) : s \in strict}
    BY Zenon DEF ReadCanonicalMotionStage
  <2> HIDE DEF strict, answers
  <2>4. QED
    BY <2>1, <2>2, <2>3
<1>13. answer.read.samples = expected /\ answer.joints = joints /\ answer.parents = parents
  BY <1>8
<1>14. ASSUME NEW i \in DOMAIN joints
       PROVE  (IF parents[i] = 0 THEN NoBone ELSE Leaf(joints[parents[i]]))
                = NearestPresentAncestor(Leaf(joints[i]), present)
  <2>1. PICK p \in 0 .. n : HangsUnder(joints, bones, present, i, p)
    BY <1>6, <1>7
  <2>2. parents[i] = p
    BY <2>1 DEF HangsUnder
  <2>3. Leaf(joints[i]) = bones[i] /\ (p # 0 => Leaf(joints[p]) = bones[p])
    BY <1>6
  <2> HIDE DEF parents
  <2>4. QED
    BY <2>1, <2>2, <2>3 DEF HangsUnder
<1> HIDE DEF answer, parents, expected
<1>15. \A i \in DOMAIN answer.joints :
         (LET p == answer.parents[i] IN IF p = 0 THEN NoBone ELSE Leaf(answer.joints[p]))
           = NearestPresentAncestor(Leaf(answer.joints[i]), present)
  BY <1>13, <1>14
<1>16. QED
  BY <1>12, <1>13, <1>15 DEF Carried, stage, present, rest, expected

-----------------------------------------------------------------------------
(* What was last saved is what is on disk.                                 *)

(* While a saved clip's file stands, it is what the writer authored.       *)
SavedStands ==
  \A w \in saved :
    /\ w.clip \in Clips /\ w.stated \in Stated
    /\ IsAuthorable(EmptyStage, w.clip, w.stated)
    /\ disk = Authored(EmptyStage, w.clip, w.stated)

LEMMA SavedIsThere ==
  ASSUME SavedStands, saved # {}
  PROVE  disk # None
<1>1. PICK w \in saved : TRUE
  OBVIOUS
<1>2. /\ w.clip \in Clips /\ w.stated \in Stated
      /\ disk \in AuthorMotionStage(EmptyStage, w.clip, w.stated)
  BY <1>1 DEF SavedStands, AuthorMotionStage
<1>3. QED
  BY <1>2, StagesAssumption

LEMMA WriteKeepsSaved ==
  ASSUME SavedStands, NEW clip \in Clips, NEW stated \in Stated, WriteMotionStage(clip, stated)
  PROVE  SavedStands'
<1>1. CASE IsAuthorable(EmptyStage, clip, stated)
  <2> DEFINE scratch == Authored(EmptyStage, clip, stated)
             w == [clip |-> clip, stated |-> stated]
  <2>1. AuthorMotionStage(EmptyStage, clip, stated) = {scratch}
    BY <1>1 DEF AuthorMotionStage
  <2>2. w.clip = clip /\ w.stated = stated
    OBVIOUS
  <2> HIDE DEF scratch
  <2>3. CASE Replace(scratch, clip, stated)
    <3>1. disk' = scratch /\ saved' = {w}
      BY <2>3 DEF Replace
    <3> HIDE DEF w
    <3>2. QED
      BY <1>1, <2>2, <3>1 DEF SavedStands, scratch
  <2>4. CASE FailToSave(scratch)
    <3>1. saved' = saved /\ (disk' = disk \/ disk = None)
      BY <2>4 DEF FailToSave
    <3>2. QED
      BY <3>1, SavedIsThere DEF SavedStands
  <2>5. CASE UNCHANGED <<disk, layer, saved>>
    BY <2>5 DEF SavedStands
  <2>6. QED
    BY <2>1, <2>3, <2>4, <2>5 DEF WriteMotionStage
<1>2. CASE ~IsAuthorable(EmptyStage, clip, stated)
  <2>1. UNCHANGED <<disk, layer, saved>>
    BY <1>2 DEF WriteMotionStage, AuthorMotionStage
  <2>2. QED
    BY <2>1 DEF SavedStands
<1>3. QED
  BY <1>1, <1>2

LEMMA FileKeepsSaved ==
  ASSUME SavedStands, FileNext
  PROVE  SavedStands'
<1>1. CASE \E clip \in Clips, stated \in Stated : WriteMotionStage(clip, stated)
  BY <1>1, WriteKeepsSaved
<1>2. CASE \E bake \in Bakes : AuthorSkeletonAnimation(bake)
  BY <1>2 DEF AuthorSkeletonAnimation, SavedStands
<1>3. CASE \E path \in {"Body", "Baked"} : BindInSession(path)
  BY <1>3 DEF BindInSession, SavedStands
<1>4. CASE Open
  BY <1>4 DEF Open, SavedStands
<1>5. CASE Save
  BY <1>5 DEF Save, SavedStands
<1>6. CASE Close
  BY <1>6 DEF Close, SavedStands
<1>7. QED
  BY <1>1, <1>2, <1>3, <1>4, <1>5, <1>6 DEF FileNext

LEMMA SavedHolds == ExecSpec => []SavedStands
<1>1. ExecInit => SavedStands
  BY DEF ExecInit, Init, SavedStands
<1>2. SavedStands /\ [ExecNext]_execVars => SavedStands'
  <2> SUFFICES ASSUME SavedStands, [ExecNext]_execVars
               PROVE  SavedStands'
    OBVIOUS
  <2>1. CASE FileNext
    BY <2>1, FileKeepsSaved
  <2>2. CASE \E clip \in Clips : WriteMotionStage(clip, {})
    BY <2>2, WriteKeepsSaved DEF Stated
  <2>3. CASE \E stage \in Foreign : Reload(stage)
    BY <2>3 DEF Reload, SavedStands
  <2>4. CASE Close
    BY <2>4 DEF Close, SavedStands
  <2>5. CASE UNCHANGED stageVars
    BY <2>5 DEF stageVars, SavedStands
  <2>6. QED
    BY <2>1, <2>2, <2>3, <2>4, <2>5 DEF ExecNext, execVars, ChangeTime, FeedBack, Snapshot
<1>3. QED
  BY <1>1, <1>2, PTL DEF ExecSpec

-----------------------------------------------------------------------------
(* The theorems.                                                           *)

(* Whatever is written, baked, saved, reloaded or left half done, the file *)
(* and the open layer are stages: attributes with finitely many keys and   *)
(* one animation at a path (ClipWriter.cpp:440).                           *)
THEOREM StageStaysAStage == ExecSpec => []StagesStand
<1>1. StageInv => StagesStand
  BY DEF StageInv
<1>2. QED
  BY <1>1, StageInvHolds, PTL

(* A bake that changes the layer plays, on the rig, what was handed in     *)
(* (SkeletonAnimationWriter.cpp:130).                                      *)
THEOREM BakeIsWholeOrNothing == ExecSpec => BakeIsAllOrNothing
<1>1. ASSUME StageInv, NEW bake \in Bakes, AuthorSkeletonAnimation(bake), layer' # layer
      PROVE  BakedWhole(bake)
  <2>1. IsBake(bake) /\ IsStage(layer)
    BY <1>1, StagesAssumption DEF StageInv, StagesStand, AuthorSkeletonAnimation
  <2>2. QED
    BY <1>1, <2>1, BakeIsWhole
<1>2. StageInv /\ [ExecNext]_execVars =>
        [\A bake \in Bakes :
           AuthorSkeletonAnimation(bake) /\ layer' # layer =>
             \E s \in FindSkeleton(layer', {bake.skeleton}), a \in DOMAIN layer'.animations :
               LET played == layer'.animations[a]
               IN  /\ Range(layer'.animations) \ {played} = Range(layer.animations)
                   /\ BoundPath(layer', session, s) = {played.path}
                   /\ played.joints = layer'.skeletons[s].joints
                   /\ \A i \in DOMAIN bake.samples :
                        /\ ArrayAt(played.rotations, Code(bake, i)) = bake.samples[i].rotations
                        /\ ArrayAt(played.translations, Code(bake, i)) = bake.samples[i].translations]_stageVars
  BY <1>1 DEF BakedWhole
<1>3. QED
  BY <1>2, StageInvHolds, PTL DEF ExecSpec, BakeIsAllOrNothing

(* What the sampler refuses, no node downstream answers, whatever the      *)
(* driver put in, and no blend it is a source of                           *)
(* (ExecMotionRegistration.cpp:29).                                        *)
THEOREM RefusalIsHeardEverywhere == ExecSpec => []RefusalReachesEveryNode
BY RefusalReaches, StageInvHolds, PTL

(* Exec and the reader pose the body alike wherever the rates agree and    *)
(* the arrays can tell (ClipReader.cpp:446).                               *)
THEOREM ExecReadsWhatTheReaderReads == ExecSpec => []ExecAgreesWithReader
BY ExecAgrees, StageInvHolds, PTL

(* A blend that answers pairs every weight with its own source, and no     *)
(* bone is made of anything else (ExecMotionPose.cpp:205).                 *)
THEOREM BlendIsOfItsSources == ExecSpec => []BlendPairsEachWeightWithItsClip
BY BlendPairs, StageInvHolds, PTL

(* The file a writer saved holds exactly that clip, whatever was there     *)
(* before and whoever holds the layer (ClipWriter.cpp:387).                *)
THEOREM SavedStageIsTheClip == ExecSpec => []StageCarriesTheClip
<1>1. SavedStands => StageCarriesTheClip
  <2> SUFFICES ASSUME SavedStands, NEW w \in saved, IsSpelt(w.clip)
               PROVE  Carried(w.clip, w.stated)
    BY DEF StageCarriesTheClip, IsSpelt, Carried, SavedStands
  <2>1. IsClip(w.clip) /\ w.stated \in Stated /\ IsAuthorable(EmptyStage, w.clip, w.stated)
    BY StagesAssumption DEF SavedStands
  <2>2. QED
    BY <2>1, AuthoredIsCarried
<1>2. QED
  BY <1>1, SavedHolds, PTL
=============================================================================

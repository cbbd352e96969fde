------------------------- MODULE RetargetValidation -------------------------
(***************************************************************************)
(* Validation.cpp (motionRetarget), which reads a rig, a source rest and a *)
(* map before a retargeter is built from them, and GetJointWorldTransform, *)
(* which walks a rig that nobody validated.                                *)
(***************************************************************************)
EXTENDS PoseRetargeter

Named(code, subjects) == {<<code, subject>> : subject \in subjects}

(* A slip: the walk that meets a cycle reports all of its path, what only  *)
(* leads into the cycle included.                                          *)
CycleWalkWhole(parents, seen, start) ==
  LET chain == Climb(parents, start, Cardinality(DOMAIN parents) + 1)
      again == {k \in DOMAIN chain : \E i \in 1 .. k - 1 : chain[i] = chain[k]}
      fresh == SelectSeq(chain, LAMBDA place : place \notin seen)
  IN  [path |-> Range(fresh), cyclic |-> IF again = {} THEN {} ELSE Range(fresh)]

(* One walk of CheckCycles up from start, ended by the top of the chain or *)
(* by a place already seen: what this walk itself meets again is a cycle.  *)
CycleWalk(parents, seen, start) ==
  LET chain == Climb(parents, start, Cardinality(DOMAIN parents) + 1)
      again == {k \in DOMAIN chain : chain[k] \in seen \/ \E i \in 1 .. k - 1 : chain[i] = chain[k]}
      fresh == IF again = {} THEN Len(chain) ELSE Min(again) - 1
      met   == {i \in 1 .. fresh : again # {} /\ chain[i] = chain[Min(again)]}
  IN  [path   |-> {chain[i] : i \in 1 .. fresh},
       cyclic |-> {chain[i] : i \in {k \in 1 .. fresh : \E m \in met : k >= m}}]

Visited(parents, sofar, start) ==
  LET walk == CycleWalk(parents, sofar.seen, start)
  IN  IF start \in sofar.seen THEN sofar
      ELSE [seen |-> sofar.seen \cup walk.path, cyclic |-> sofar.cyclic \cup walk.cyclic]

CheckCycles(parents, starts) ==
  LET sofar[n \in 0 .. Len(starts)] ==
        IF n = 0 THEN [seen |-> {}, cyclic |-> {}]
        ELSE Visited(parents, sofar[n - 1], starts[n])
  IN  sofar[Len(starts)].cyclic

ValidateSkeleton(skeleton) ==
  LET joints  == DOMAIN skeleton
      invalid == {j \in joints : skeleton[j] \notin joints \cup {0}}
  IN  Named("invalid-parent", invalid)
        \cup Named("hierarchy-order", {j \in joints : skeleton[j] >= j /\ j \notin invalid})
        \cup Named("hierarchy-cycle", CheckCycles(skeleton, [j \in joints |-> j]))

ValidateSourceRestPose(rest) ==
  Named("invalid-parent", {bone \in Bones : rest[bone] = Outside})
    \cup Named("hierarchy-cycle", CheckCycles(rest, Vocabulary))

ValidateRetargetConfiguration(r) ==
  [skeleton |-> ValidateSkeleton(r.skeleton),
   rest     |-> ValidateSourceRestPose(r.rest),
   map      |-> {bone \in Bones : r.map[bone] # 0 /\ ~Bound(r, bone)},
   reports  |-> RigReports(r)]

(* GetJointWorldTransform answers unless its walk leaves the rig, or is    *)
(* longer than the rig has joints.                                         *)
HasWorldTransform(skeleton, joint) ==
  LET chain == RigChain(skeleton, joint)
  IN  joint \in DOMAIN skeleton /\ skeleton[Last(chain)] = 0

-----------------------------------------------------------------------------
(* Properties.                                                             *)

(* The world orientation of a bone in the source's pose and of a joint in  *)
(* the retargeted one, as whoever evaluates them composes them.            *)
SourceRotation(b) == IF b \in pose.valid THEN pose.rotations[b] ELSE SourceRest(b)

SourceWorld(bone) ==
  Composed(Reverse(SourceChain(rig.rest, bone)), [b \in Bones |-> SourceRotation(b)])

TargetWorld(joint) == Composed(Reverse(RigChain(rig.skeleton, joint)), result.rotations)

(* The map says which chain answers to which: the bound bones above a bone *)
(* are carried by the mapped joints above its joint, in the same order.    *)
ChainsAgree(bone) ==
  LET bound  == Only(SourceChain(rig.rest, bone), BoundBones(rig))
      mapped == Only(RigChain(rig.skeleton, rig.map[bone]), Range(rig.map))
  IN  mapped = [i \in DOMAIN bound |-> rig.map[bound[i]]]

(* What a bone without a joint does is carried by the fold plan, and no    *)
(* other branch folds into this chain.                                     *)
MotionIsCarried(bone) ==
  LET chain == Range(SourceChain(rig.rest, bone))
  IN  /\ \A b \in chain : Bound(rig, b) \/ b \in Range(rig.folds) \/ SourceRotation(b) = SourceRest(b)
      /\ \A b \in Range(rig.folds) : Receiver(rig, b) \in chain => b \in chain

(* A joint that nothing drives keeps the rig's own rest, which is where    *)
(* the rest it would be corrected to may differ.                           *)
RestsAgree(bone) ==
  \A j \in Range(RigChain(rig.skeleton, rig.map[bone])) :
    j \in rig.options.reference =>
      \E b \in Bones : rig.map[b] = j /\ b \in FoldedPose(rig, pose).valid

(* What a bone's orientation has turned from its rest, in the source's     *)
(* world, its joint's has turned from its own in the target's: through     *)
(* different rests, joints only one side has, and folded chains            *)
(* (RestPose.cpp:183, PoseRetargeter.cpp:147).                             *)
WorldMotionIsTransferred ==
  result # Absent /\ DuplicateJoints(rig.map) = {} /\ IsTopologicallyOrdered(rig.skeleton) =>
    \A bone \in Bones :
      Bound(rig, bone) /\ ChainEnds(rig.rest, bone) /\ ChainsAgree(bone) /\ MotionIsCarried(bone)
          /\ RestsAgree(bone) =>
        Times(SourceWorld(bone), Inverted(SourceWorldRest(rig.rest, bone)))
          = Times(TargetWorld(rig.map[bone]), Inverted(TargetWorldRest(rig, rig.map[bone])))

(* The body's translation lands on the joint the options name; where it    *)
(* does not, the list says which bone or joint was missing for it          *)
(* (PoseRetargeter.cpp:327).                                               *)
RootMotionArrivesOrIsReported ==
  result # Absent /\ pose.hasPosition /\ rig.options.rootMode # "ignore" =>
    LET toHips   == rig.options.rootMode = "hips"
        receiver == IF toHips THEN rig.map[Hips] ELSE rig.options.rootJoint
        missing  == IF toHips THEN Diagnostic("missing-required-bone", Hips)
                    ELSE Diagnostic("invalid-root-joint", <<rig.options.rootJoint>>)
    IN  IF receiver \in DOMAIN rig.skeleton THEN result.moved = {receiver}
        ELSE result.moved = {} /\ missing \in Range(diagnostics)

(* Every bone a pose drives onto no joint is named in the list, in the     *)
(* first sample or in a later one, and a bone nothing drives is not        *)
(* (PoseRetargeter.cpp:304).                                               *)
LostBonesAreNamed ==
  [][pose' # pose =>
       LET named(list) == {list[i].subject : i \in {k \in DOMAIN list : list[k].code = "unbound-driven-bone"}}
       IN  named(diagnostics') = named(diagnostics) \cup {b \in pose'.valid : ~Bound(rig, b)}]_retargetVars

(* Two ways to look at the same malformed rig agree: a joint has no world  *)
(* transform just when validation names a joint on the way up from it      *)
(* (PoseRetargeter.cpp:112, Validation.cpp:12).                            *)
TransformsFailWhereValidationSaysSo ==
  rig # Absent =>
    LET report == ValidateRetargetConfiguration(rig)
        named  == {v[2] : v \in {v \in report.skeleton : v[1] # "hierarchy-order"}}
    IN  /\ \A j \in DOMAIN rig.skeleton :
             HasWorldTransform(rig.skeleton, j)
               <=> Range(RigChain(rig.skeleton, j)) \cap named = {}
        /\ \A b \in Bones :
             <<"hierarchy-cycle", b>> \in report.rest
               <=> b \in Range(Tail(Append(SourceChain(rig.rest, b), rig.rest[Last(SourceChain(rig.rest, b))])))
=============================================================================

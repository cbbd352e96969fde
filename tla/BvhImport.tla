----------------------------- MODULE BvhImport -----------------------------
(***************************************************************************)
(* BvhParser.cpp (libs/motionBvh) and the extraction that follows it: the  *)
(* way from a file to a rig and a clip.  The parser descends recursively;  *)
(* the joints that are open are its call stack.  Each step takes what the  *)
(* file says next, whatever it is; a refusal ends the parse and drops the  *)
(* document it was building.  A caller may also assemble a document.       *)
(***************************************************************************)
EXTENDS BvhDocument

CONSTANTS
  Names,          \* joint names a file may use
  ChannelLists,   \* what a CHANNELS line may declare
  OffsetKinds,    \* kinds of number an OFFSET may hold, "word" for no number
  HandDocuments,  \* documents assembled by hand
  MaxHierarchyDepth, MaxJoints, MaxFrames,  \* BvhParseLimits
  FramesBound,    \* bound: frames a file declares
  FrameTimes      \* what Frame Time: may say

(* A number of the motion table.                                           *)
Numbers == [from : {"row"} \X Nat \X Nat, kind : {"zero", "finite", "nonfinite"}]

ASSUME ImportAssumption ==
  /\ MaxHierarchyDepth \in Nat
  /\ MaxJoints \in Nat
  /\ MaxFrames \in Nat
  /\ FrameTimes \subseteq Instant
  /\ "" \notin Names
  /\ \A channels \in ChannelLists : IsSequence(channels)

(* A document has the types of its structure, and a number of its motion   *)
(* table is named for its place there.                                     *)
IsDocument(d) ==
  /\ IsSequence(d.joints) /\ IsSequence(d.values)
  /\ d.channelCount \in Nat /\ d.frameCount \in Nat
  /\ \A j \in DOMAIN d.joints : IsSequence(d.joints[j].channels) /\ d.joints[j].parent \in Int
  /\ \A f \in 1 .. d.frameCount, i \in 1 .. d.channelCount :
       LET place == (f - 1) * d.channelCount + i
       IN  place \in DOMAIN d.values =>
             d.values[place] \in Numbers /\ d.values[place].from = <<"row", f, i>>

ASSUME HandDocumentsAssumption == \A d \in HandDocuments : IsDocument(d)

(* What is absent is neither a refusal nor a row.                          *)
ASSUME AbsenceAssumption ==
  /\ None \notin {"ParseFailed", "NonFiniteValue", "InvalidFrameTime", "InvalidRotationOrder",
                  "FrameWidthMismatch"}
  /\ None \notin Seq(Numbers)
  /\ None \notin HandDocuments

VARIABLES
  stage,       \* "idle", "joints", "rows", "parsed", "assembled", "refused", "extracted"
  work,        \* work_, the document being built
  open,        \* the joints ReadJointBody is in, outermost first
  framesRead,  \* framesRead
  document,    \* the caller's document, None until there is one
  diagnostic,  \* the caller's diagnostic: a code, and whether it names a line
  skeleton, animation   \* the caller's, None until an extraction succeeds

importVars == <<stage, work, open, framesRead, document, diagnostic, skeleton, animation>>

NoDocument == [joints |-> << >>, channelCount |-> 0, frameCount |-> 0, frameTime |-> 0,
               values |-> << >>]

NewJoint(name, parent) ==
  [name |-> name, parent |-> parent, offset |-> None, channels |-> << >>, channelOffset |-> 0,
   endSite |-> None]

Body(j) == [joint |-> j, haveOffset |-> FALSE, haveChannels |-> FALSE]

(* static_cast<float> of a finite double: the huge ones overflow.          *)
Stored(from, kind) == Number(from, IF kind = "huge" THEN "nonfinite" ELSE kind)

OffsetOf(j, what, kind) == [i \in 1 .. 3 |-> Stored(<<what, j, i>>, kind)]

Refuse(code, line) ==
  /\ stage' = "refused"
  /\ work' = NoDocument
  /\ open' = << >>
  /\ framesRead' = 0
  /\ diagnostic' = [code |-> code, line |-> line]
  /\ UNCHANGED <<document, skeleton, animation>>

RefuseHere(code) == Refuse(code, "named")

Parsing == UNCHANGED <<framesRead, document, diagnostic, skeleton, animation>>

Init ==
  /\ stage = "idle"
  /\ work = NoDocument
  /\ open = << >>
  /\ framesRead = 0
  /\ document = None
  /\ diagnostic = None
  /\ skeleton = None
  /\ animation = None

-----------------------------------------------------------------------------
(* The hierarchy.                                                          *)

(* Any directive may be followed by something else than what it needs, or  *)
(* by the end of the file.                                                 *)
Malformed ==
  /\ stage \in {"idle", "joints", "rows"}
  /\ RefuseHere("ParseFailed")

(* A slip: the depth of the joint around the new one is checked.           *)
EnterBelow(joint) ==
  IF Len(open) > MaxHierarchyDepth
  THEN RefuseHere("ParseFailed")
  ELSE /\ stage' = "joints"
       /\ work' = [work EXCEPT !.joints = Append(@, joint)]
       /\ open' = Append(open, Body(Len(work.joints) + 1))
       /\ Parsing

(* ReadJointBody on a joint just appended.                                 *)
Enter(joint) ==
  IF Len(open) + 1 > MaxHierarchyDepth
  THEN RefuseHere("ParseFailed")
  ELSE /\ stage' = "joints"
       /\ work' = [work EXCEPT !.joints = Append(@, joint)]
       /\ open' = Append(open, Body(Len(work.joints) + 1))
       /\ Parsing

OpenRoot(name) ==
  /\ stage = "idle"
  /\ Enter(NewJoint(name, 0))

Top == open[Len(open)]

InBody == stage = "joints" /\ open # << >>

OpenJoint(name) ==
  /\ InBody
  /\ IF Len(work.joints) >= MaxJoints
     THEN RefuseHere("ParseFailed")
     ELSE Enter(NewJoint(name, Top.joint))

ReadOffset(kind) ==
  /\ InBody
  /\ IF Top.haveOffset \/ kind = "word" THEN RefuseHere("ParseFailed")
     ELSE IF kind = "nonfinite" THEN RefuseHere("NonFiniteValue")
     ELSE /\ work' = [work EXCEPT !.joints[Top.joint].offset = OffsetOf(Top.joint, "offset", kind)]
          /\ open' = [open EXCEPT ![Len(open)].haveOffset = TRUE]
          /\ UNCHANGED stage
          /\ Parsing

(* A channel name the format does not have is refused where it stands.     *)
ReadChannels(channels) ==
  /\ InBody
  /\ IF Top.haveChannels THEN RefuseHere("ParseFailed")
     ELSE IF ~(Range(channels) \subseteq Positions \cup Rotations) THEN RefuseHere("UnsupportedChannel")
     ELSE /\ work' = [work EXCEPT !.joints[Top.joint].channels = channels]
          /\ open' = [open EXCEPT ![Len(open)].haveChannels = TRUE]
          /\ UNCHANGED stage
          /\ Parsing

ReadEndSite(kind) ==
  /\ InBody
  /\ IF work.joints[Top.joint].endSite # None \/ kind = "word" THEN RefuseHere("ParseFailed")
     ELSE IF kind = "nonfinite" THEN RefuseHere("NonFiniteValue")
     ELSE /\ work' = [work EXCEPT !.joints[Top.joint].endSite = OffsetOf(Top.joint, "end", kind)]
          /\ UNCHANGED <<stage, open>>
          /\ Parsing

(* A joint needs an OFFSET.  The root's brace ends the hierarchy, and the  *)
(* columns of the motion table are dealt out.                              *)
CloseJoint ==
  /\ InBody
  /\ IF ~Top.haveOffset
     THEN RefuseHere("ParseFailed")
     ELSE /\ open' = SubSeq(open, 1, Len(open) - 1)
          /\ work' = IF Len(open) > 1 THEN work
                     ELSE [work EXCEPT !.joints = WithOffsets(@),
                                       !.channelCount = DeclaredChannels(work.joints)]
          /\ UNCHANGED stage
          /\ Parsing

-----------------------------------------------------------------------------
(* The motion section.                                                     *)

(* A Frame Time: that is no number is refused as one that is not finite is.*)
ReadMotionHeader(frames, time) ==
  /\ stage = "joints" /\ open = << >>
  /\ IF frames > MaxFrames THEN RefuseHere("ParseFailed")
     ELSE IF ~FrameTimeIsValid(time, frames) THEN RefuseHere("InvalidFrameTime")
     ELSE /\ stage' = "rows"
          /\ work' = [work EXCEPT !.frameCount = frames, !.frameTime = time]
          /\ UNCHANGED open
          /\ Parsing

(* One line that is not blank.  Its tokens are taken from the left: the    *)
(* one too many, the one that is no number and the one that is not finite  *)
(* refuse it where they stand, and then its length does.                   *)
RowRefusal(kinds) ==
  LET bad(i)  == i > work.channelCount \/ kinds[i] \in {"word", "nonfinite"}
      refused == {i \in DOMAIN kinds : bad(i)}
      first   == Min(refused)
  IN  IF framesRead >= work.frameCount THEN "ParseFailed"
      ELSE IF refused = {} /\ Len(kinds) = work.channelCount THEN None
      ELSE IF refused = {} \/ first > work.channelCount THEN "FrameWidthMismatch"
      ELSE IF kinds[first] = "word" THEN "ParseFailed"
      ELSE "NonFiniteValue"

ReadRow(kinds) ==
  /\ stage = "rows" /\ kinds # << >>
  /\ IF RowRefusal(kinds) # None
     THEN RefuseHere(RowRefusal(kinds))
     ELSE /\ work' = [work EXCEPT !.values = @ \o
                        [i \in DOMAIN kinds |-> Stored(<<"row", framesRead + 1, i>>, kinds[i])]]
          /\ framesRead' = framesRead + 1
          /\ UNCHANGED <<stage, open, document, diagnostic, skeleton, animation>>

(* The end of the file: the rows are counted, and the document is          *)
(* validated as a whole.  That refusal is about no line.                   *)
EndOfText ==
  /\ stage = "rows"
  /\ IF framesRead # work.frameCount THEN RefuseHere("ParseFailed")
     ELSE IF DocumentRefusal(work) # None THEN Refuse(DocumentRefusal(work), "none")
     ELSE /\ document' = work
          /\ stage' = "parsed"
          /\ work' = NoDocument
          /\ framesRead' = 0
          /\ UNCHANGED <<open, diagnostic, skeleton, animation>>

-----------------------------------------------------------------------------
(* After the parse.                                                        *)

Assemble(d) ==
  /\ stage = "idle"
  /\ document' = d
  /\ stage' = "assembled"
  /\ UNCHANGED <<work, open, framesRead, diagnostic, skeleton, animation>>

Extract ==
  /\ stage \in {"parsed", "assembled"}
  /\ IF ExtractionRefusal(document) # None
     THEN Refuse(ExtractionRefusal(document), "none")
     ELSE /\ skeleton' = ExtractedRig(document)
          /\ animation' = ExtractedClip(document)
          /\ stage' = "extracted"
          /\ UNCHANGED <<work, open, framesRead, document, diagnostic>>

(* What a line of the motion table may hold: numbers, one of them odd, and *)
(* one number too few or too many.                                         *)
Rows(width) ==
  LET plain(n) == [i \in 1 .. n |-> "finite"]
  IN  {plain(n) : n \in {width - 1, width, width + 1} \ {0, -1}}
        \cup {[plain(width) EXCEPT ![i] = kind] :
                i \in {width} \cap 1 .. width, kind \in {"huge", "nonfinite", "word"}}

Next ==
  \/ Malformed
  \/ \E name \in Names : OpenRoot(name) \/ OpenJoint(name)
  \/ \E kind \in OffsetKinds : ReadOffset(kind) \/ ReadEndSite(kind)
  \/ \E channels \in ChannelLists : ReadChannels(channels)
  \/ CloseJoint
  \/ \E frames \in 0 .. FramesBound, time \in FrameTimes : ReadMotionHeader(frames, time)
  \/ \E kinds \in Rows(work.channelCount) : ReadRow(kinds)
  \/ EndOfText
  \/ \E d \in HandDocuments : Assemble(d)
  \/ Extract

Spec == Init /\ [][Next]_importVars

-----------------------------------------------------------------------------
(* A document read from a file is a tree whose joints lie within the depth *)
(* limit, as the depth walk counts them; the joint limit is exceeded by    *)
(* the root alone; every row is there, and every number is finite as a     *)
(* float, not only as the double that was read.  Parser::ReadJointBody,    *)
(* Parser::Parse and ValidateBvhDocument.                                  *)
DocumentIsWithinLimits ==
  stage = "parsed" =>
    /\ \A j \in DOMAIN document.joints :
         /\ \E k \in 0 .. j - 1 : ParentWalk(document.joints, j)[k] = 1
         /\ BvhDepth(document.joints, j) < MaxHierarchyDepth
    /\ Len(document.joints) <= Larger(1, MaxJoints)
    /\ \A f \in 1 .. document.frameCount : Frame(document, f) # None
    /\ IsFiniteTuple(document.values)

(* The channels of a motion row, in the order the hierarchy declares them. *)
RowChannels(joints) ==
  LET row[n \in 0 .. Len(joints)] ==
        IF n = 0 THEN << >>
        ELSE row[n - 1] \o [i \in DOMAIN joints[n].channels |-> <<n, joints[n].channels[i]>>]
  IN  row[Len(joints)]

WrittenFor(joints, j, channel, f) ==
  {<<"row", f, i>> : i \in {i \in DOMAIN RowChannels(joints) :
                             RowChannels(joints)[i] = <<j, channel>>}}

(* Every number of an extracted clip is the one the file wrote for that    *)
(* joint, that channel and that frame, and the angles stand in the order   *)
(* the joint declares; a position the file does not animate is the one of  *)
(* the hierarchy.  A tool that reads a channel of the document finds the   *)
(* same number.  BuildLayout, ExtractBvhSource and ChannelValue, over      *)
(* documents read and assembled.                                           *)
NumbersReachTheirJoint ==
  animation # None =>
    \A j \in DOMAIN document.joints :
      LET joints == document.joints
          track  == animation.tracks[j]
      IN  /\ \A f \in DOMAIN track.translations, i \in 1 .. 3 :
               LET written == WrittenFor(joints, j, Position(<<"X", "Y", "Z">>[i]), f)
               IN  IF written = {} THEN track.translations[f][i] = joints[j].offset[i]
                   ELSE track.translations[f][i].from \in written
          /\ \A f \in DOMAIN track.eulerAngles, i \in 1 .. 3 :
               track.eulerAngles[f][i].from \in
                 WrittenFor(joints, j, <<"r", track.order[i]>>, f)
          /\ \A f \in 1 .. document.frameCount, i \in DOMAIN joints[j].channels :
               ChannelValue(document, f, j, i).from \in
                 WrittenFor(joints, j, joints[j].channels[i], f)

(* The two depth walks count a joint's ancestors on any array of joints a  *)
(* caller can assemble: a chain that never ends is no depth, and one that  *)
(* leaves the array is one for the BVH document only.                      *)
(* BvhDocument::Depth and SourceSkeleton::Depth.                           *)
DepthCountsAncestors ==
  document # None =>
    \A j \in DOMAIN document.joints :
      LET joints    == document.joints
          above(k)  == {ParentWalk(joints, k)[n] : n \in 1 .. Len(joints) + 1}
          endless   == \E k \in above(j) \cap DOMAIN joints : k \in above(k)
          ancestors == Cardinality(above(j) \cap DOMAIN joints)
      IN  /\ BvhDepth(joints, j) = IF endless THEN 0 ELSE ancestors
          /\ SourceDepth(joints, j) = IF endless \/ 0 \notin above(j) THEN 0 ELSE ancestors

(* What the parser accepts is extracted, but for what BVH allows and an    *)
(* animated rig does not: a channel declared twice, a rotation that is not *)
(* about three axes, a tip on a joint that has children.  A frame without  *)
(* a row or a number out of range never gets that far.                     *)
ParsedDocumentIsExtracted ==
  stage = "parsed" =>
    (ExtractionRefusal(document) = None <=>
       \A j \in DOMAIN document.joints :
         LET joint == document.joints[j]
         IN  /\ \A i, k \in DOMAIN joint.channels :
                  joint.channels[i] = joint.channels[k] => i = k
             /\ Cardinality(Range(joint.channels) \cap Rotations) \in {0, 3}
             /\ joint.endSite # None => ChildJoints(document.joints, j) = {})
=============================================================================

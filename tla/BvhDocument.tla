---------------------------- MODULE BvhDocument ----------------------------
(***************************************************************************)
(* BvhDocument.cpp and BvhExtract.cpp (libs/motionBvh): a BVH file as a    *)
(* value, what makes it consistent, and its extraction into a source rig   *)
(* and a source clip.  A channel is <<"p", axis>> or <<"r", axis>>, and a  *)
(* row of the motion table is the concatenation of the joints' channels in *)
(* the order the joints were declared.                                     *)
(***************************************************************************)
EXTENDS SourceRig, Subsequences, SequencesExt

Axes == {"X", "Y", "Z"}

Position(axis) == <<"p", axis>>
Positions == {Position(axis) : axis \in Axes}
Rotations == {<<"r", axis>> : axis \in Axes}

(* How many channels the first joints declare.                             *)
ChannelTotals(joints) ==
  LET total[n \in 0 .. Len(joints)] ==
        IF n = 0 THEN 0 ELSE total[n - 1] + Len(joints[n].channels)
  IN  total

DeclaredChannels(joints) == ChannelTotals(joints)[Len(joints)]

(* The column a joint's channels start at.                                 *)
ColumnsBefore(joints, j) == ChannelTotals(joints)[j - 1]

WithOffsets(joints) ==
  [j \in DOMAIN joints |-> [joints[j] EXCEPT !.channelOffset = ColumnsBefore(joints, j)]]

(* A slip: the last row is taken to be cut short.                          *)
FrameBeforeTheEnd(document, f) ==
  LET before == (f - 1) * document.channelCount
  IN  IF \/ f \notin 1 .. document.frameCount
         \/ document.channelCount = 0
         \/ before + document.channelCount >= Len(document.values)
      THEN None
      ELSE SubSeq(document.values, before + 1, before + document.channelCount)

(* BvhDocument::Frame: the row of a frame, or None.                        *)
Frame(document, f) ==
  LET before == (f - 1) * document.channelCount
  IN  IF \/ f \notin 1 .. document.frameCount
         \/ document.channelCount = 0
         \/ before + document.channelCount > Len(document.values)
      THEN None
      ELSE SubSeq(document.values, before + 1, before + document.channelCount)

(* BvhDocument::ChannelValue: the i-th declared channel of a joint.        *)
ChannelValue(document, f, j, i) ==
  LET row    == Frame(document, f)
      column == document.joints[j].channelOffset + i
  IN  IF \/ j \notin DOMAIN document.joints
         \/ i \notin DOMAIN document.joints[j].channels
         \/ row = None
         \/ column > document.channelCount
      THEN None ELSE row[column]

(* A slip: a chain of all the joints is taken for a cycle.                 *)
EagerBvhDepth(joints, j) ==
  LET up   == ParentWalk(joints, j)
      ends == {k \in 0 .. Len(joints) - 2 : up[k + 1] \notin DOMAIN joints}
  IN  IF j \notin DOMAIN joints \/ ends = {} THEN 0 ELSE Min(ends)

(* BvhDocument::Depth ends where the walk leaves the array, and gives up   *)
(* when it is longer than the array.                                       *)
BvhDepth(joints, j) ==
  LET up   == ParentWalk(joints, j)
      ends == {k \in 0 .. Len(joints) : up[k + 1] \notin DOMAIN joints}
  IN  IF j \notin DOMAIN joints \/ ends = {} THEN 0 ELSE Min(ends)

(* The code a joint is refused with, in the order ValidateBvhDocument asks.*)
JointRefusal(joints, j) ==
  LET joint == joints[j]
  IN  IF \/ j > 1 /\ joint.parent \notin 1 .. j - 1
         \/ joint.channelOffset # ColumnsBefore(joints, j)
         \/ ~(Range(joint.channels) \subseteq Positions \cup Rotations)
      THEN "ParseFailed"
      ELSE IF \/ ~IsFiniteTuple(joint.offset)
              \/ joint.endSite # None /\ ~IsFiniteTuple(joint.endSite)
      THEN "NonFiniteValue"
      ELSE None

(* ValidateBvhDocument: the first refusal, or None.                        *)
DocumentRefusal(document) ==
  LET joints  == document.joints
      refused == {j \in DOMAIN joints : JointRefusal(joints, j) # None}
  IN  IF joints = << >> \/ joints[1].parent # 0 THEN "ParseFailed"
      ELSE IF refused # {} THEN JointRefusal(joints, Min(refused))
      ELSE IF \/ document.channelCount # DeclaredChannels(joints)
              \/ Len(document.values) # document.frameCount * document.channelCount
      THEN "ParseFailed"
      ELSE IF ~FrameTimeIsValid(document.frameTime, document.frameCount) THEN "InvalidFrameTime"
      ELSE IF ~IsFiniteTuple(document.values) THEN "NonFiniteValue"
      ELSE None

-----------------------------------------------------------------------------
(* ExtractBvhSource.                                                       *)

RotationChannels(joint) == Only(joint.channels, Rotations)
DeclaredOrder(joint)    == [i \in 1 .. Len(RotationChannels(joint)) |-> RotationChannels(joint)[i][2]]

LayoutRefusal(joint) ==
  IF \E i, k \in DOMAIN joint.channels :
       i # k /\ joint.channels[i] = joint.channels[k] /\ joint.channels[i] \in Positions
  THEN "ParseFailed"
  ELSE IF RotationChannels(joint) # << >> /\ DeclaredOrder(joint) \notin AngleOrders
  THEN "InvalidRotationOrder"
  ELSE None

(* What the row of frame f holds in a joint's channel.                     *)
Column(joint, row, channel) ==
  row[joint.channelOffset + CHOOSE i \in DOMAIN joint.channels : joint.channels[i] = channel]

(* A component the file does not animate is the one the hierarchy states.  *)
Translation(joint, row) ==
  [i \in 1 .. 3 |-> LET channel == Position(<<"X", "Y", "Z">>[i])
                    IN  IF channel \in Range(joint.channels) THEN Column(joint, row, channel)
                        ELSE joint.offset[i]]

(* A slip: the angles are stored by axis, not in the order declared.       *)
AnglesByAxis(joint, row) ==
  [i \in 1 .. 3 |-> Column(joint, row, <<"r", <<"X", "Y", "Z">>[i]>>)]

Angles(joint, row) ==
  [i \in 1 .. 3 |-> Column(joint, row, RotationChannels(joint)[i])]

ExtractedTrack(document, joint) ==
  LET frames == [f \in 1 .. document.frameCount |-> f]
      moved  == Range(joint.channels) \cap Positions # {}
      turned == RotationChannels(joint) # << >>
  IN  [NoTrack EXCEPT
         !.translations = IF moved THEN [f \in DOMAIN frames |->
                                           Translation(joint, Frame(document, f))] ELSE << >>,
         !.eulerAngles  = IF turned THEN [f \in DOMAIN frames |->
                                            Angles(joint, Frame(document, f))] ELSE << >>,
         !.order = IF turned THEN DeclaredOrder(joint) ELSE @]

ExtractedRig(document) ==
  [j \in DOMAIN document.joints |->
     LET joint == document.joints[j]
     IN  [name |-> joint.name, parent |-> joint.parent, restTranslation |-> joint.offset,
          restRotation |-> None, tipOffset |-> joint.endSite]]

ExtractedClip(document) ==
  [frameCount |-> document.frameCount, frameTime |-> document.frameTime, startTime |-> 0,
   tracks |-> [j \in DOMAIN document.joints |->
                 ExtractedTrack(document, document.joints[j])]]

(* Why an extraction is refused, or None: the document, then each joint's  *)
(* channels, then a frame that has no row, then the rig and the clip.      *)
ExtractionRefusal(document) ==
  LET joints  == document.joints
      refused == {j \in DOMAIN joints : LayoutRefusal(joints[j]) # None}
      rowless == {f \in 1 .. document.frameCount : Frame(document, f) = None}
  IN  IF DocumentRefusal(document) # None THEN DocumentRefusal(document)
      ELSE IF refused # {} THEN LayoutRefusal(joints[Min(refused)])
      ELSE IF rowless # {} THEN "FrameWidthMismatch"
      ELSE IF ~AnimationIsValid(ExtractedClip(document), ExtractedRig(document)) THEN "ParseFailed"
      ELSE None
=============================================================================

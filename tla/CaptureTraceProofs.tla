------------------------- MODULE CaptureTraceProofs -------------------------
(***************************************************************************)
(* What a capture trace says, for every file: a clip that is read is one a *)
(* session can replay, holds nothing newer than its file declared, and,    *)
(* when this program wrote the file, is the clip that was written.         *)
(***************************************************************************)
EXTENDS CaptureTrace, SequenceTheorems, SharedLemmas

-----------------------------------------------------------------------------
(* Lines and poses.                                                        *)

(* A line as the reader may meet one, and as the writer writes them.       *)
IsLine(line) ==
  /\ line.key = "field" => line.subject \in Field /\ line.score \in Scores \cup {None}
  /\ line.key = "header" => line.value \in Texts

(* A content a declared version allows.                                    *)
IsContent(fields, v) ==
  IsFiniteSet(DOMAIN fields) /\ \A field \in DOMAIN fields : Since(field) <= v

Ascending(poses) ==
  \A i \in 1 .. Len(poses) : \A k \in 1 .. i - 1 : poses[k].timestamp < poses[i].timestamp

ReaderTypeOK ==
  /\ version \in 0 .. FormatVersion
  /\ source \in [HeaderKeys -> Texts]
  /\ frameRate \in Int \cup {None}
  /\ frame \in Builders \cup {None}
  /\ samples \in Seq(ReadPoses)

(* Between two lines: the finished frames ascend, the open one is after    *)
(* them, and nothing in either is newer than the version.                  *)
FramesStand ==
  /\ version = 0 => frame = None
  /\ frame = None => samples = << >>
  /\ Ascending(samples)
  /\ \A i \in 1 .. Len(samples) : IsContent(samples[i].fields, version)
  /\ frame # None =>
       /\ IsContent(frame.fields, version)
       /\ \A i \in 1 .. Len(samples) : samples[i].timestamp < frame.timestamp

ClipStands ==
  /\ animation \in ReadClips
  /\ animation.samples # << >>
  /\ Ascending(animation.samples)
  /\ \A i \in 1 .. Len(animation.samples) : IsContent(animation.samples[i].fields, version)
  /\ animation.startTime = animation.samples[1].timestamp
  /\ animation.endTime = animation.samples[Len(animation.samples)].timestamp

-----------------------------------------------------------------------------
LEMMA NoneIsNothing ==
  /\ None \notin Int
  /\ None \notin Scores
  /\ None \notin Builders
  /\ None \notin ReadClips
BY TraceNoneAssumption

(* The four ways a line is accepted, with what each one checks.            *)
LEMMA MagicIsAccepted ==
  ASSUME NEW line, Accepts(line), ReadMagic(line)
  PROVE  line.number \in 1 .. FormatVersion
BY DEF Accepts, AcceptsMagic, ReadMagic

LEMMA TimeIsAccepted ==
  ASSUME NEW line, Accepts(line), OpenFrame(line)
  PROVE  line.number \in Time /\ (frame # None => line.number > frame.timestamp)
BY DEF Accepts, AcceptsTime, OpenFrame, IsFinite

LEMMA HeaderIsAccepted ==
  ASSUME NEW line, Accepts(line), ReadHeader(line)
  PROVE  /\ frame = None
         /\ line.key = "frameRate" => line.number \in Time /\ line.number > 0
BY DEF Accepts, AcceptsHeader, AcceptsField, ReadHeader, IsFinite

LEMMA FieldIsAccepted ==
  ASSUME NEW line, Accepts(line), ReadField(line)
  PROVE  /\ frame # None
         /\ line.value = "good"
         /\ line.score # "out"
         /\ version >= Since(line.subject)
BY DEF Accepts, AcceptsHeader, AcceptsField, ReadField

LEMMA JointFieldNamesAJoint ==
  ASSUME NEW field \in Field, field[1] = "b"
  PROVE  field[2] \in Joints /\ field = <<"b", field[2]>>
BY DEF Field, LookAt, Contacts, Sequence, SourceTime

LEMMA SinceIsNatural ==
  ASSUME NEW field
  PROVE  Since(field) \in 1 .. FormatVersion
BY DEF Since, FormatVersion

(* A finished frame keeps its instant and its fields, and is a pose.       *)
LEMMA BuildIsAPose ==
  ASSUME NEW f \in Builders
  PROVE  /\ Build(f) \in ReadPoses
         /\ Build(f).timestamp = f.timestamp
         /\ Build(f).fields = f.fields
<1> DEFINE full(j) == CASE f.scores[j] # None             -> f.scores[j]
                        [] /\ f.scores[j] = None
                           /\ <<"b", j>> \in DOMAIN f.fields -> "one"
                        [] OTHER                          -> "zero"
           confidence == IF \A j \in Joints : f.scores[j] = None THEN None
                         ELSE [j \in Joints |-> full(j)]
<1>1. f.timestamp \in Time /\ f.fields \in Fields /\ f.scores \in [Joints -> Scores \cup {None}]
  BY DEF Builders
<1>2. \A j \in Joints : full(j) \in Scores
  BY <1>1 DEF Scores
<1>3. confidence \in [Joints -> Scores] \cup {None}
  BY <1>2
<1>4. Build(f) = [timestamp |-> f.timestamp, fields |-> f.fields, confidence |-> confidence]
  BY DEF Build
<1> HIDE DEF confidence
<1>5. QED
  BY <1>1, <1>3, <1>4 DEF ReadPoses

LEMMA FinishedStands ==
  ASSUME ReaderTypeOK, FramesStand
  PROVE  /\ Finished \in Seq(ReadPoses)
         /\ Ascending(Finished)
         /\ \A i \in 1 .. Len(Finished) : IsContent(Finished[i].fields, version)
         /\ Finished = << >> <=> frame = None
         /\ frame # None =>
              \A i \in 1 .. Len(Finished) : Finished[i].timestamp <= frame.timestamp
<1>1. samples \in Seq(ReadPoses) /\ Len(samples) \in Nat
  BY LenProperties DEF ReaderTypeOK
<1>2. CASE frame = None
  BY <1>1, <1>2 DEF Finished, FramesStand
<1>3. CASE frame # None
  <2> DEFINE n == Len(samples)
             pose == Build(frame)
  <2>1. frame \in Builders
    BY <1>3 DEF ReaderTypeOK
  <2>2. pose \in ReadPoses /\ pose.timestamp = frame.timestamp /\ pose.fields = frame.fields
    BY <2>1, BuildIsAPose
  <2>3. Finished = Append(samples, pose)
    BY <1>3 DEF Finished
  <2>4. frame.timestamp \in Int
    BY <2>1, TimeAssumption DEF Builders, Time
  <2> HIDE DEF pose
  <2>5. /\ Append(samples, pose) \in Seq(ReadPoses)
        /\ Append(samples, pose) # << >>
        /\ Len(Append(samples, pose)) = n + 1
        /\ \A i \in 1 .. n : Append(samples, pose)[i] = samples[i]
        /\ Append(samples, pose)[n + 1] = pose
    BY <1>1, <2>2, AppendProperties
  <2>6. \A i \in 1 .. n : /\ samples[i].timestamp < frame.timestamp
                          /\ samples[i].timestamp \in Int
    <3> SUFFICES ASSUME NEW i \in 1 .. n
                 PROVE  samples[i].timestamp < frame.timestamp /\ samples[i].timestamp \in Int
      OBVIOUS
    <3>1. samples[i] \in ReadPoses
      BY <1>1, ElementOfSeq
    <3>2. QED
      BY <1>3, <3>1, TimeAssumption DEF FramesStand, ReadPoses, Time
  <2> DEFINE all == Finished
  <2>7. /\ all \in Seq(ReadPoses) /\ all # << >> /\ Len(all) = n + 1
        /\ \A i \in 1 .. n : all[i] = samples[i]
        /\ all[n + 1] = pose
    BY <2>3, <2>5
  <2> HIDE DEF all
  <2>8. \A i \in 1 .. n + 1 : i \in 1 .. n \/ i = n + 1
    BY <1>1
  <2>9. Ascending(all)
    <3> SUFFICES ASSUME NEW i \in 1 .. n + 1, NEW k \in 1 .. i - 1
                 PROVE  all[k].timestamp < all[i].timestamp
      BY <2>7 DEF Ascending
    <3>1. k \in 1 .. n /\ all[k] = samples[k]
      BY <1>1, <2>7
    <3>2. CASE i = n + 1
      BY <2>2, <2>6, <2>7, <3>1, <3>2
    <3>3. CASE i \in 1 .. n
      <4>1. all[i] = samples[i]
        BY <2>7, <3>3
      <4>2. QED
        BY <3>1, <3>3, <4>1 DEF FramesStand, Ascending
    <3>4. QED
      BY <2>8, <3>2, <3>3
  <2>10. \A i \in 1 .. n + 1 : IsContent(all[i].fields, version)
    <3> SUFFICES ASSUME NEW i \in 1 .. n + 1 PROVE IsContent(all[i].fields, version)
      OBVIOUS
    <3>1. CASE i = n + 1
      BY <1>3, <2>2, <2>7, <3>1 DEF FramesStand
    <3>2. CASE i \in 1 .. n
      BY <2>7, <3>2 DEF FramesStand
    <3>3. QED
      BY <2>8, <3>1, <3>2
  <2>11. \A i \in 1 .. n + 1 : all[i].timestamp <= frame.timestamp
    <3> SUFFICES ASSUME NEW i \in 1 .. n + 1 PROVE all[i].timestamp <= frame.timestamp
      OBVIOUS
    <3>1. CASE i = n + 1
      BY <2>2, <2>4, <2>7, <3>1
    <3>2. CASE i \in 1 .. n
      BY <2>4, <2>6, <2>7, <3>2
    <3>3. QED
      BY <2>8, <3>1, <3>2
  <2>12. QED
    BY <1>3, <2>7, <2>9, <2>10, <2>11 DEF all
<1>4. QED
  BY <1>2, <1>3

(* A field joins a frame without taking it out of the version.             *)
LEMMA FieldsGrow ==
  ASSUME NEW fields \in Fields, IsContent(fields, version),
         NEW field \in Field, Since(field) <= version
  PROVE  LET more == Carrying(fields, field, "good")
         IN  more \in Fields /\ IsContent(more, version)
<1> DEFINE more == Carrying(fields, field, "good")
<1>1. DOMAIN fields \subseteq Field /\ fields \in [DOMAIN fields -> Values]
  BY DEF Fields
<1>2. more = [x \in {field} \cup DOMAIN fields |-> IF x = field THEN "good" ELSE fields[x]]
  BY DEF Carrying
<1> HIDE DEF more
<1>3. more \in [{field} \cup DOMAIN fields -> Values]
  BY <1>1, <1>2 DEF Values
<1>4. more \in Fields
  <2>1. {field} \cup DOMAIN fields \in SUBSET Field
    BY <1>1
  <2>2. QED
    BY <1>3, <2>1 DEF Fields
<1>5. DOMAIN more = {field} \cup DOMAIN fields
  BY <1>2
<1>6. IsFiniteSet(DOMAIN more)
  <2>1. IsFiniteSet(DOMAIN fields)
    BY DEF IsContent
  <2>2. IsFiniteSet(DOMAIN fields \cup {field})
    BY <2>1, FS_AddElement
  <2>3. DOMAIN more = DOMAIN fields \cup {field}
    BY <1>5
  <2>4. QED
    BY <2>2, <2>3
<1>7. \A x \in DOMAIN more : Since(x) <= version
  BY <1>5 DEF IsContent
<1>8. QED
  BY <1>4, <1>6, <1>7 DEF IsContent, more

-----------------------------------------------------------------------------
(* One line.                                                               *)

LEMMA ReadMagicStands ==
  ASSUME NEW line, Accepts(line), ReadMagic(line), ReaderTypeOK, FramesStand
  PROVE  ReaderTypeOK' /\ FramesStand'
<1>1. version' \in 1 .. FormatVersion
  BY MagicIsAccepted DEF ReadMagic
<1>2. frame = None /\ samples = << >>
  BY DEF ReadMagic, FramesStand
<1>3. UNCHANGED <<source, frameRate, frame, samples>>
  BY DEF ReadMagic
<1>4. ReaderTypeOK'
  BY <1>1, <1>3 DEF ReaderTypeOK, FormatVersion
<1>5. samples' = << >> /\ Len(samples') = 0
  BY <1>2, <1>3
<1>6. QED
  BY <1>1, <1>2, <1>3, <1>4, <1>5 DEF FramesStand, Ascending, FormatVersion

LEMMA OpenFrameStands ==
  ASSUME NEW line, Accepts(line), OpenFrame(line), ReaderTypeOK, FramesStand
  PROVE  ReaderTypeOK' /\ FramesStand'
<1>1. line.number \in Time /\ (frame # None => line.number > frame.timestamp)
  BY TimeIsAccepted
<1>2. /\ samples' = Finished
      /\ frame' = EmptyFrame(line.number)
      /\ UNCHANGED <<version, source, frameRate>>
      /\ version # 0
  BY DEF OpenFrame
<1>3. frame' \in Builders /\ frame'.timestamp = line.number /\ frame'.fields = << >>
  <2>1. << >> \in Fields
    BY DEF Fields
  <2>2. QED
    BY <1>1, <1>2, <2>1 DEF EmptyFrame, Builders
<1>4. /\ Finished \in Seq(ReadPoses)
      /\ Ascending(Finished)
      /\ \A i \in 1 .. Len(Finished) : IsContent(Finished[i].fields, version)
      /\ Finished = << >> <=> frame = None
      /\ frame # None =>
           \A i \in 1 .. Len(Finished) : Finished[i].timestamp <= frame.timestamp
  BY FinishedStands
<1>5. ReaderTypeOK'
  BY <1>2, <1>3, <1>4 DEF ReaderTypeOK
<1>6. frame' # None
  BY <1>3, NoneIsNothing
<1>7. IsContent(frame'.fields, version')
  BY <1>3, FS_EmptySet DEF IsContent
<1>8. \A i \in 1 .. Len(samples') : samples'[i].timestamp < frame'.timestamp
  <2> SUFFICES ASSUME NEW i \in 1 .. Len(Finished)
               PROVE  Finished[i].timestamp < line.number
    BY <1>2, <1>3
  <2>1. Finished[i] \in ReadPoses
    BY <1>4, ElementOfSeq
  <2>2. Finished[i].timestamp \in Int /\ line.number \in Int
    BY <1>1, <2>1, TimeAssumption DEF ReadPoses, Time
  <2>3. frame # None
    BY <1>4
  <2>4. frame.timestamp \in Int
    BY <2>3, TimeAssumption DEF ReaderTypeOK, Builders, Time
  <2>5. QED
    BY <1>1, <1>4, <2>2, <2>3, <2>4
<1>9. Ascending(samples')
  BY <1>2, <1>4
<1>10. QED
  BY <1>2, <1>4, <1>5, <1>6, <1>7, <1>8, <1>9 DEF FramesStand

LEMMA ReadHeaderStands ==
  ASSUME NEW line, IsLine(line), Accepts(line), ReadHeader(line), ReaderTypeOK, FramesStand
  PROVE  ReaderTypeOK' /\ FramesStand'
<1>1. UNCHANGED <<version, frame, samples>>
  BY DEF ReadHeader
<1>2. frameRate' \in Int \cup {None}
  BY HeaderIsAccepted, TimeAssumption DEF ReadHeader, ReaderTypeOK, Time
<1>3. source' \in [HeaderKeys -> Texts]
  BY DEF ReadHeader, ReaderTypeOK, IsLine, Trimmed, Texts
<1>4. QED
  BY <1>1, <1>2, <1>3 DEF ReaderTypeOK, FramesStand, Ascending

LEMMA ReadFieldStands ==
  ASSUME NEW line, IsLine(line), Accepts(line), ReadField(line), ReaderTypeOK, FramesStand
  PROVE  ReaderTypeOK' /\ FramesStand'
<1> DEFINE fields == Carrying(frame.fields, line.subject, "good")
           scores == IF line.subject[1] = "b"
                     THEN [frame.scores EXCEPT ![line.subject[2]] = line.score]
                     ELSE frame.scores
<1>1. frame # None /\ line.value = "good" /\ version >= Since(line.subject)
  BY FieldIsAccepted
<1>2. line.subject \in Field /\ line.score \in Scores \cup {None}
  BY DEF IsLine, ReadField
<1>3. UNCHANGED <<version, source, frameRate, samples>>
  BY DEF ReadField
<1>4. /\ frame \in Builders
      /\ frame.timestamp \in Time
      /\ frame.fields \in Fields
      /\ frame.scores \in [Joints -> Scores \cup {None}]
      /\ frame = [timestamp |-> frame.timestamp, fields |-> frame.fields,
                  scores |-> frame.scores]
  BY <1>1 DEF ReaderTypeOK, Builders
<1>5. IsContent(frame.fields, version)
  BY <1>1 DEF FramesStand
<1>6. fields \in Fields /\ IsContent(fields, version)
  <2>1. Since(line.subject) <= version
    BY <1>1, SinceIsNatural DEF ReaderTypeOK, FormatVersion
  <2>2. QED
    BY <1>2, <1>4, <1>5, <2>1, FieldsGrow
<1>7. scores \in [Joints -> Scores \cup {None}]
  BY <1>2, <1>4
<1>8. frame' = [timestamp |-> frame.timestamp, fields |-> fields, scores |-> scores]
  <2>1. frame' = [frame EXCEPT !.fields = fields, !.scores = scores]
    BY <1>1 DEF ReadField
  <2> HIDE DEF fields, scores
  <2>2. QED
    BY <1>4, <2>1
<1> HIDE DEF fields, scores
<1>9. frame' \in Builders
  BY <1>4, <1>6, <1>7, <1>8 DEF Builders
<1>10. ReaderTypeOK'
  BY <1>3, <1>9 DEF ReaderTypeOK
<1>11. frame' # None /\ frame'.fields = fields /\ frame'.timestamp = frame.timestamp
  BY <1>8, <1>9, NoneIsNothing
<1>12. QED
  BY <1>1, <1>3, <1>6, <1>10, <1>11 DEF FramesStand, Ascending

(* A line leaves the reader where a line can be read, or fails it.         *)
LEMMA ReadLineStands ==
  ASSUME NEW line, IsLine(line), ReadLine(line), outcome = "reading",
         ReaderTypeOK, FramesStand
  PROVE  /\ outcome' \in {"reading", "failed"}
         /\ outcome' = "reading" => ReaderTypeOK' /\ FramesStand'
<1>1. CASE line.key = "blank" /\ UNCHANGED <<locals, outcome>>
  BY <1>1 DEF ReaderTypeOK, FramesStand, Ascending, locals
<1>2. CASE outcome' = "failed"
  BY <1>2
<1>3. CASE /\ Accepts(line)
           /\ ReadMagic(line) \/ OpenFrame(line) \/ ReadHeader(line) \/ ReadField(line)
           /\ UNCHANGED outcome
  BY <1>3, ReadMagicStands, OpenFrameStands, ReadHeaderStands, ReadFieldStands
<1>4. QED
  BY <1>1, <1>2, <1>3 DEF ReadLine

-----------------------------------------------------------------------------
(* What the writer writes.                                                 *)

(* A set is listed completely, and nothing in it twice.                    *)
LEMMA SetToSeqLists ==
  ASSUME NEW S, IsFiniteSet(S)
  PROVE  /\ SetToSeq(S) \in Seq(S)
         /\ Len(SetToSeq(S)) \in Nat
         /\ \A x \in S : \E i \in 1 .. Len(SetToSeq(S)) : SetToSeq(S)[i] = x
         /\ \A i, k \in 1 .. Len(SetToSeq(S)) : SetToSeq(S)[i] = SetToSeq(S)[k] => i = k
<1> DEFINE n == Cardinality(S)
           s == SetToSeq(S)
<1>1. n \in Nat /\ ExistsBijection(1 .. n, S)
  BY FS_CardinalityType
<1>2. \E f \in [1 .. n -> S] : IsInjective(f)
  BY <1>1 DEF ExistsBijection, Bijection, Injection, IsInjective
<1>3. s \in [1 .. n -> S] /\ IsInjective(s)
  BY <1>2 DEF SetToSeq
<1> HIDE DEF s
<1>4. s \in Injection(1 .. n, S)
  BY <1>3 DEF Injection
<1>5. Cardinality(1 .. n) = n
  <2>1. Cardinality(1 .. n) = IF 1 > n THEN 0 ELSE n - 1 + 1
    BY <1>1, FS_Interval
  <2>2. QED
    BY <1>1, <2>1
<1>6. s \in Surjection(1 .. n, S)
  BY <1>4, <1>5, FS_Injection
<1>7. s \in Seq(S) /\ Len(s) = n
  BY <1>1, <1>3
<1>8. \A i, k \in 1 .. n : s[i] = s[k] => i = k
  BY <1>3 DEF IsInjective
<1>9. QED
  BY <1>1, <1>6, <1>7, <1>8 DEF Surjection, s

(* What FlattenSeq computes on the way to its result.                      *)
Flattening(blocks, n, flat) ==
  flat = [i \in 1 .. n |-> IF i = 1 THEN blocks[i] ELSE flat[i - 1] \o blocks[i]]

LEMMA FlatteningExists ==
  ASSUME NEW blocks, NEW n \in Nat
  PROVE  \E flat : Flattening(blocks, n, flat)
<1> DEFINE Stuck == {k \in Nat : ~ \E flat : Flattening(blocks, k, flat)}
<1>1. SUFFICES ASSUME Stuck # {} PROVE FALSE
  OBVIOUS
<1>2. PICK k \in Stuck : \A m \in Stuck : k <= m
  <2> HIDE DEF Stuck
  <2> SUFFICES Stuck \subseteq Nat
    BY <1>1, SmallestIndex
  <2> QED
    BY DEF Stuck
<1>3. CASE k = 0
  <2> DEFINE none == [i \in 1 .. 0 |-> blocks[i]]
  <2>1. Flattening(blocks, 0, none)
    BY DEF Flattening
  <2>2. QED
    BY <1>2, <1>3, <2>1
<1>4. CASE k # 0
  <2>1. k - 1 \in Nat /\ k - 1 \notin Stuck
    BY <1>2, <1>4
  <2>2. PICK flat : Flattening(blocks, k - 1, flat)
    BY <2>1
  <2> DEFINE last == IF k = 1 THEN blocks[k] ELSE flat[k - 1] \o blocks[k]
             longer == [i \in 1 .. k |-> IF i < k THEN flat[i] ELSE last]
  <2>3. \A i \in 1 .. k :
          longer[i] = IF i = 1 THEN blocks[i] ELSE longer[i - 1] \o blocks[i]
    <3> SUFFICES ASSUME NEW i \in 1 .. k
                 PROVE  longer[i] = IF i = 1 THEN blocks[i] ELSE longer[i - 1] \o blocks[i]
      OBVIOUS
    <3>1. CASE i = k
      <4>1. longer[k] = last /\ (k # 1 => longer[k - 1] = flat[k - 1])
        BY <1>4, <2>1
      <4>2. QED
        BY <1>4, <3>1, <4>1
    <3>2. CASE i # k
      <4>1. i \in 1 .. k - 1 /\ longer[i] = flat[i] /\ (i # 1 => longer[i - 1] = flat[i - 1])
        BY <2>1, <3>2
      <4>2. flat[i] = IF i = 1 THEN blocks[i] ELSE flat[i - 1] \o blocks[i]
        BY <2>2, <4>1 DEF Flattening
      <4>3. QED
        BY <4>1, <4>2
    <3>3. QED
      BY <3>1, <3>2
  <2>4. Flattening(blocks, k, longer)
    <3>1. longer = [i \in 1 .. k |-> longer[i]]
      OBVIOUS
    <3>2. [i \in 1 .. k |-> longer[i]]
            = [i \in 1 .. k |-> IF i = 1 THEN blocks[i] ELSE longer[i - 1] \o blocks[i]]
      BY <2>3
    <3> HIDE DEF longer
    <3>3. QED
      BY <3>1, <3>2 DEF Flattening
  <2>5. QED
    BY <1>2, <2>4
<1>5. QED
  BY <1>3, <1>4

LEMMA FlattenSeqIsLast ==
  ASSUME NEW blocks, Len(blocks) \in Nat \ {0}
  PROVE  \E flat : /\ Flattening(blocks, Len(blocks), flat)
                   /\ FlattenSeq(blocks) = flat[Len(blocks)]
<1>1. \E flat : Flattening(blocks, Len(blocks), flat)
  <2>1. Len(blocks) \in Nat
    OBVIOUS
  <2>2. QED
    BY <2>1, FlatteningExists, Zenon
<1>2. Len(blocks) # 0
  OBVIOUS
<1>3. QED
  BY <1>1, <1>2 DEF FlattenSeq, Flattening

(* Where the blocks of a flattened sequence begin.                         *)
Places(blocks, starts) ==
  /\ starts \in [0 .. Len(blocks) -> Nat]
  /\ starts[0] = 0
  /\ Len(FlattenSeq(blocks)) = starts[Len(blocks)]
  /\ \A k \in 1 .. Len(blocks) :
       /\ starts[k] = starts[k - 1] + Len(blocks[k])
       /\ starts[k] <= starts[Len(blocks)]
       /\ \A m \in 1 .. Len(blocks[k]) : FlattenSeq(blocks)[starts[k - 1] + m] = blocks[k][m]

LEMMA OneMoreBlock ==
  ASSUME NEW S, NEW before \in Seq(S), NEW block \in Seq(S), NEW both, both = before \o block
  PROVE  /\ both \in Seq(S)
         /\ Len(before) \in Nat /\ Len(both) \in Nat
         /\ Len(both) = Len(before) + Len(block)
         /\ Len(before) <= Len(both)
         /\ \A i \in 1 .. Len(before) : both[i] = before[i]
         /\ \A m \in 1 .. Len(block) : both[Len(before) + m] = block[m]
<1> DEFINE p == Len(before)
           q == Len(block)
<1>1. p \in Nat /\ q \in Nat
  BY LenProperties
<1>2. /\ both \in Seq(S)
      /\ Len(both) = p + q
      /\ \A i \in 1 .. p + q : both[i] = IF i <= p THEN before[i] ELSE block[i - p]
  BY ConcatProperties
<1> HIDE DEF p, q
<1>3. Len(both) \in Nat /\ p <= p + q
  BY <1>1, <1>2
<1>4. \A i \in 1 .. p : both[i] = before[i]
  BY <1>1, <1>2
<1>5. ASSUME NEW m \in 1 .. q
      PROVE  both[p + m] = block[m]
  <2>1. p + m \in 1 .. p + q /\ ~(p + m <= p) /\ (p + m) - p = m
    BY <1>1
  <2>2. QED
    BY <1>2, <2>1
<1>6. QED
  BY <1>1, <1>2, <1>3, <1>4, <1>5 DEF p, q

LEMMA FlattenSeqPlaces ==
  ASSUME NEW S, NEW blocks \in Seq(Seq(S))
  PROVE  /\ FlattenSeq(blocks) \in Seq(S)
         /\ \E starts : Places(blocks, starts)
<1> DEFINE n == Len(blocks)
<1>1. n \in Nat /\ \A k \in 1 .. n : blocks[k] \in Seq(S) /\ Len(blocks[k]) \in Nat
  <2>1. n \in Nat
    BY LenProperties
  <2>2. ASSUME NEW k \in 1 .. n
        PROVE  blocks[k] \in Seq(S) /\ Len(blocks[k]) \in Nat
    <3>1. blocks[k] \in Seq(S)
      BY ElementOfSeq
    <3>2. QED
      BY <3>1, LenProperties
  <2>3. QED
    BY <2>1, <2>2
<1>2. CASE n = 0
  <2>1. blocks = << >>
    BY <1>2, EmptySeq
  <2>2. FlattenSeq(blocks) = << >>
    BY <1>2, <2>1 DEF FlattenSeq
  <2>3. Places(blocks, [k \in 0 .. 0 |-> 0])
    BY <1>2, <2>2 DEF Places
  <2>4. QED
    BY <2>2, <2>3
<1>3. CASE n # 0
  <2>1. PICK flat : Flattening(blocks, n, flat) /\ FlattenSeq(blocks) = flat[n]
    BY <1>1, <1>3, FlattenSeqIsLast
  <2>2. \A k \in 1 .. n : flat[k] = IF k = 1 THEN blocks[k] ELSE flat[k - 1] \o blocks[k]
    BY <2>1 DEF Flattening
  <2> DEFINE starts == [k \in 0 .. n |-> IF k = 0 THEN 0 ELSE Len(flat[k])]
             Placed(k) ==
               /\ flat[k] \in Seq(S)
               /\ Len(flat[k]) \in Nat
               /\ starts[k] = starts[k - 1] + Len(blocks[k])
               /\ \A j \in 1 .. k :
                    /\ starts[j] <= starts[k]
                    /\ \A m \in 1 .. Len(blocks[j]) : flat[k][starts[j - 1] + m] = blocks[j][m]
             Stray == {k \in 1 .. n : ~Placed(k)}
  <2>3. \A k \in 1 .. n : Placed(k)
    <3> SUFFICES ASSUME Stray # {} PROVE FALSE
      <4> HIDE DEF Placed
      <4>1. QED
        OBVIOUS
    <3>1. PICK k \in Stray : \A j \in Stray : k <= j
      <4>1. Stray \subseteq Nat
        OBVIOUS
      <4> HIDE DEF Stray
      <4>2. QED
        BY <4>1, SmallestIndex
    <3>2. k \in 1 .. n /\ ~Placed(k)
      <4> HIDE DEF Placed
      <4>1. QED
        OBVIOUS
    <3>b. ASSUME NEW j \in 1 .. n, j < k
          PROVE  Placed(j)
      <4>1. j \in Nat /\ k \in Nat /\ ~(k <= j)
        BY <1>1, <3>2, <3>b
      <4>2. j \notin Stray
        <5> HIDE DEF Stray
        <5>1. QED
          BY <3>1, <4>1
      <4> HIDE DEF Placed
      <4>3. QED
        BY <4>2
    <3> HIDE DEF Stray
    <3>3. starts[0] = 0 /\ starts[k] = Len(flat[k])
          /\ (k # 1 => starts[k - 1] = Len(flat[k - 1]))
      BY <1>1, <3>2
    <3>4. blocks[k] \in Seq(S) /\ Len(blocks[k]) \in Nat
      BY <1>1, <3>2
    <3>5. CASE k = 1
      <4>1. flat[1] = blocks[1]
        BY <2>2, <3>2, <3>5
      <4>2. \A j \in 1 .. 1 : j = 1
        OBVIOUS
      <4> HIDE DEF starts
      <4>3. QED
        BY <3>2, <3>3, <3>4, <3>5, <4>1, <4>2
    <3>6. CASE k # 1
      <4>1. k - 1 \in 1 .. n /\ k - 1 < k
        BY <1>1, <3>2, <3>6
      <4>2. Placed(k - 1)
        <5> HIDE DEF Placed
        <5>1. QED
          BY <3>b, <4>1
      <4>3. flat[k] = flat[k - 1] \o blocks[k]
        BY <2>2, <3>2, <3>6
      <4> DEFINE before == flat[k - 1]
                 both == flat[k]
                 s == starts
      <4>4. s[k - 1] = Len(before) /\ s[k] = Len(both)
        BY <3>3, <3>6
      <4>5. before \in Seq(S) /\ Len(before) \in Nat
        BY <4>2
      <4>6. /\ both \in Seq(S)
            /\ Len(both) \in Nat
            /\ Len(both) = Len(before) + Len(blocks[k])
            /\ Len(before) <= Len(both)
            /\ \A i \in 1 .. Len(before) : both[i] = before[i]
            /\ \A m \in 1 .. Len(blocks[k]) : both[Len(before) + m] = blocks[k][m]
        <5> HIDE DEF before, both
        <5>1. both = before \o blocks[k]
          BY <4>3 DEF before, both
        <5>2. QED
          BY <3>4, <4>5, <5>1, OneMoreBlock
      <4>7. \A j \in 1 .. k - 1 :
              /\ s[j] <= Len(before)
              /\ \A m \in 1 .. Len(blocks[j]) : before[s[j - 1] + m] = blocks[j][m]
        BY <4>2, <4>4
      <4>8. ASSUME NEW j \in 1 .. k - 1
            PROVE  s[j] = s[j - 1] + Len(blocks[j]) /\ s[j - 1] \in Nat /\ s[j] \in Nat
        <5>1. j \in 1 .. n /\ j < k
          BY <1>1, <3>2
        <5>2. j # 1 => j - 1 \in 1 .. n /\ j - 1 < k
          BY <1>1, <3>2
        <5>3. Placed(j) /\ (j # 1 => Placed(j - 1))
          <6> HIDE DEF Placed
          <6>1. QED
            BY <3>b, <5>1, <5>2
        <5>4. j \in 0 .. n /\ j # 0 /\ j - 1 \in 0 .. n
          BY <1>1, <5>1
        <5>5. s[j] = s[j - 1] + Len(blocks[j])
          BY <5>3
        <5>6. s[j] = Len(flat[j]) /\ (j # 1 => s[j - 1] = Len(flat[j - 1]))
          <6>1. j - 1 # 0 \/ j = 1
            BY <5>1
          <6>2. QED
            BY <5>4, <6>1
        <5>7. s[j] \in Nat /\ (j # 1 => s[j - 1] \in Nat)
          BY <5>3, <5>6
        <5>8. s[j - 1] \in Nat
          BY <3>3, <5>7
        <5>9. QED
          BY <5>5, <5>7, <5>8
      <4>9. \A j \in 1 .. n : Len(blocks[j]) \in Nat
        BY <1>1
      <4>10. s[k] = s[k - 1] + Len(blocks[k])
        BY <4>4, <4>6
      <4> HIDE DEF s, before, both
      <4>11. ASSUME NEW j \in 1 .. k
             PROVE  /\ s[j] <= s[k]
                    /\ \A m \in 1 .. Len(blocks[j]) : both[s[j - 1] + m] = blocks[j][m]
        <5>1. CASE j = k
          <6>1. s[k] \in Nat /\ s[k] <= s[k]
            BY <4>4, <4>6
          <6>2. QED
            BY <4>4, <4>6, <5>1, <6>1
        <5>2. CASE j # k
          <6>1. j \in 1 .. k - 1 /\ j \in 1 .. n
            BY <3>2, <5>2, <1>1
          <6> DEFINE a == s[j - 1]
                     b == s[j]
                     l == Len(blocks[j])
                     p == Len(before)
                     q == Len(both)
          <6>2. l \in Nat /\ a \in Nat /\ b \in Nat /\ b = a + l /\ b <= p
            BY <4>7, <4>8, <4>9, <6>1
          <6>3. p \in Nat /\ q \in Nat /\ p <= q
            BY <4>5, <4>6
          <6>4. \A m \in 1 .. l : before[a + m] = blocks[j][m]
            BY <4>7, <6>1
          <6>5. \A i \in 1 .. p : both[i] = before[i]
            BY <4>6
          <6> HIDE DEF a, b, l, p, q
          <6>6. b <= q
            BY <6>2, <6>3
          <6>7. ASSUME NEW m \in 1 .. l
                PROVE  both[a + m] = blocks[j][m]
            <7>1. a + m \in 1 .. p
              BY <6>2, <6>3
            <7>2. QED
              BY <6>4, <6>5, <7>1
          <6>8. QED
            BY <4>4, <6>6, <6>7 DEF a, b, l, q
        <5>3. QED
          BY <5>1, <5>2
      <4>12. Placed(k)
        BY <3>2, <4>6, <4>10, <4>11 DEF s, both
      <4>13. QED
        BY <3>2, <4>12
    <3>7. QED
      BY <3>5, <3>6
  <2>4. starts \in [0 .. n -> Nat] /\ starts[0] = 0 /\ starts[n] = Len(flat[n])
    <3>1. \A k \in 1 .. n : Len(flat[k]) \in Nat
      BY <2>3
    <3>2. QED
      BY <1>1, <1>3, <3>1
  <2>5. n \in 1 .. n
    BY <1>1, <1>3
  <2>6. flat[n] \in Seq(S)
    BY <2>3, <2>5
  <2>7. Places(blocks, starts)
    <3>1. \A k \in 1 .. n :
            /\ starts[k] = starts[k - 1] + Len(blocks[k])
            /\ starts[k] <= starts[n]
            /\ \A m \in 1 .. Len(blocks[k]) : flat[n][starts[k - 1] + m] = blocks[k][m]
      BY <2>3, <2>5
    <3> HIDE DEF starts
    <3>2. QED
      BY <2>1, <2>4, <3>1 DEF Places
  <2>8. QED
    BY <2>1, <2>6, <2>7
<1>4. QED
  BY <1>2, <1>3

-----------------------------------------------------------------------------
(* The lines the writer knows.                                             *)
WriterLines ==
  {NumberLine(key, number) : key \in {"magic", "t", "frameRate"}, number \in Int}
    \cup {SubjectLine("header", <<"header", key>>, text, None) :
            key \in HeaderKeys, text \in Texts}
    \cup {SubjectLine("field", field, value, score) :
            field \in Field, value \in Values, score \in Scores \cup {None}}

LEMMA WriterLinesAreLines ==
  ASSUME NEW line \in WriterLines
  PROVE  IsLine(line) /\ line.key # "blank" /\ line.wellFormed
BY DEF WriterLines, NumberLine, SubjectLine, IsLine

LEMMA WrittenIsANumber ==
  ASSUME NEW number
  PROVE  Written(number) \in Int
<1>1. Quantum \in Nat \ {0}
  BY TraceAssumption
<1>2. CASE IsFinite(number)
  <2> DEFINE half == Quantum \div 2
  <2>1. number \in Int /\ half \in Int
    BY <1>1, <1>2, TimeAssumption DEF IsFinite, Time
  <2> HIDE DEF half
  <2> DEFINE whole == (number + half) \div Quantum
  <2>2. whole \in Int
    BY <1>1, <2>1
  <2> HIDE DEF whole
  <2>3. whole * Quantum \in Int
    BY <1>1, <2>2
  <2>4. QED
    BY <1>2, <2>3 DEF Written, whole, half
<1>3. CASE ~IsFinite(number)
  BY <1>3, TimeAssumption DEF Written, NonFinite
<1>4. QED
  BY <1>2, <1>3

Carried(pose) == SetToSeq(DOMAIN pose.fields)
Named(clip)   == SetToSeq({key \in HeaderKeys : clip.source[key] # ""})

LEMMA CarriedLists ==
  ASSUME NEW pose, IsPose(pose)
  PROVE  /\ Carried(pose) \in Seq(Field)
         /\ Len(Carried(pose)) \in Nat
         /\ \A i \in 1 .. Len(Carried(pose)) :
              Carried(pose)[i] \in DOMAIN pose.fields /\ Carried(pose)[i] \in Field
         /\ \A f \in DOMAIN pose.fields : \E i \in 1 .. Len(Carried(pose)) : Carried(pose)[i] = f
         /\ \A i, k \in 1 .. Len(Carried(pose)) : Carried(pose)[i] = Carried(pose)[k] => i = k
<1>1. IsFiniteSet(DOMAIN pose.fields) /\ DOMAIN pose.fields \subseteq Field
  BY DEF IsPose
<1>2. /\ Carried(pose) \in Seq(DOMAIN pose.fields)
      /\ Len(Carried(pose)) \in Nat
      /\ \A f \in DOMAIN pose.fields : \E i \in 1 .. Len(Carried(pose)) : Carried(pose)[i] = f
      /\ \A i, k \in 1 .. Len(Carried(pose)) : Carried(pose)[i] = Carried(pose)[k] => i = k
  BY <1>1, SetToSeqLists DEF Carried
<1>3. \A i \in 1 .. Len(Carried(pose)) : Carried(pose)[i] \in DOMAIN pose.fields
  BY <1>2, ElementOfSeq
<1>4. Carried(pose) \in Seq(Field)
  BY <1>1, <1>2, SeqMonotonic
<1>5. QED
  BY <1>1, <1>2, <1>3, <1>4

LEMMA NamedLists ==
  ASSUME NEW clip
  PROVE  /\ Named(clip) \in Seq(HeaderKeys)
         /\ Len(Named(clip)) \in Nat
         /\ \A i \in 1 .. Len(Named(clip)) :
              Named(clip)[i] \in HeaderKeys /\ clip.source[Named(clip)[i]] # ""
         /\ \A key \in HeaderKeys :
              clip.source[key] # "" => \E i \in 1 .. Len(Named(clip)) : Named(clip)[i] = key
<1> DEFINE S == {key \in HeaderKeys : clip.source[key] # ""}
<1>1. IsFiniteSet(S) /\ S \subseteq HeaderKeys
  BY TraceAssumption, FS_Subset
<1>2. Named(clip) = SetToSeq(S)
  BY DEF Named
<1> HIDE DEF S
<1>3. /\ Named(clip) \in Seq(S)
      /\ Len(Named(clip)) \in Nat
      /\ \A key \in S : \E i \in 1 .. Len(Named(clip)) : Named(clip)[i] = key
  BY <1>1, <1>2, SetToSeqLists
<1>4. \A i \in 1 .. Len(Named(clip)) : Named(clip)[i] \in S
  BY <1>3, ElementOfSeq
<1>5. Named(clip) \in Seq(HeaderKeys)
  BY <1>1, <1>3, SeqMonotonic
<1>6. QED
  BY <1>3, <1>4, <1>5 DEF S

LEMMA FrameLinesAre ==
  ASSUME NEW pose, IsPose(pose)
  PROVE  LET n == Len(Carried(pose))
         IN  /\ FrameLines(pose) \in Seq(WriterLines)
             /\ Len(FrameLines(pose)) = n + 1
             /\ FrameLines(pose)[1] = NumberLine("t", Written(pose.timestamp))
             /\ \A i \in 1 .. n : FrameLines(pose)[i + 1] = FieldLine(pose, Carried(pose)[i])
<1> DEFINE n == Len(Carried(pose))
           first == <<NumberLine("t", Written(pose.timestamp))>>
           rest == [i \in 1 .. n |-> FieldLine(pose, Carried(pose)[i])]
<1>1. FrameLines(pose) = first \o rest
  BY DEF FrameLines, Carried
<1>2. NumberLine("t", Written(pose.timestamp)) \in WriterLines
  BY WrittenIsANumber DEF WriterLines
<1>3. first \in Seq(WriterLines) /\ Len(first) = 1
      /\ first[1] = NumberLine("t", Written(pose.timestamp))
  BY <1>2
<1>4. n \in Nat
  BY CarriedLists
<1>5. \A i \in 1 .. n : FieldLine(pose, Carried(pose)[i]) \in WriterLines
  <2> SUFFICES ASSUME NEW i \in 1 .. n
               PROVE  FieldLine(pose, Carried(pose)[i]) \in WriterLines
    OBVIOUS
  <2> DEFINE field == Carried(pose)[i]
             score == IF field[1] = "b" /\ pose.confidence # None
                      THEN pose.confidence[field[2]] ELSE None
  <2>1. field \in DOMAIN pose.fields /\ field \in Field
    BY CarriedLists
  <2>2. pose.fields[field] \in Values
    BY <2>1 DEF IsPose
  <2>3. score \in Scores \cup {None}
    <3>1. field[1] = "b" => field[2] \in Joints
      BY <2>1 DEF Field, LookAt, Contacts, Sequence, SourceTime
    <3>2. pose.confidence # None => pose.confidence \in [Joints -> Scores]
      BY DEF IsPose
    <3> HIDE DEF field
    <3>3. QED
      BY <3>1, <3>2
  <2>4. FieldLine(pose, field) = SubjectLine("field", field, pose.fields[field], score)
    BY DEF FieldLine
  <2> HIDE DEF field, score
  <2>5. FieldLine(pose, field) \in WriterLines
    BY <2>1, <2>2, <2>3, <2>4 DEF WriterLines
  <2>6. QED
    BY <2>5 DEF field
<1>6. rest \in Seq(WriterLines) /\ Len(rest) = n
  BY <1>4, <1>5
<1>7. \A i \in 1 .. n : rest[i] = FieldLine(pose, Carried(pose)[i])
  OBVIOUS
<1> HIDE DEF first, rest, n
<1>8. /\ FrameLines(pose) \in Seq(WriterLines)
      /\ Len(FrameLines(pose)) = 1 + n
      /\ \A i \in 1 .. 1 : FrameLines(pose)[i] = first[i]
      /\ \A i \in 1 .. n : FrameLines(pose)[1 + i] = rest[i]
  <2>1. /\ FrameLines(pose) \in Seq(WriterLines)
        /\ Len(FrameLines(pose)) = Len(first) + Len(rest)
        /\ \A i \in 1 .. Len(first) : FrameLines(pose)[i] = first[i]
        /\ \A i \in 1 .. Len(rest) : FrameLines(pose)[Len(first) + i] = rest[i]
    <3>1. first \in Seq(WriterLines) /\ rest \in Seq(WriterLines)
      BY <1>1, <1>3, <1>6
    <3>2. QED
      BY <1>1, <3>1, OneMoreBlock
  <2>2. QED
    BY <1>1, <1>3, <1>6, <2>1
<1>9. \A i \in 1 .. n : 1 + i = i + 1
  BY <1>4
<1>10. QED
  BY <1>3, <1>4, <1>7, <1>8, <1>9 DEF n

LEMMA HeaderLinesAre ==
  ASSUME NEW clip, IsClip(clip)
  PROVE  LET h == Len(Named(clip))
         IN  /\ HeaderLines(clip) \in Seq(WriterLines)
             /\ Len(HeaderLines(clip)) = h + 2
             /\ HeaderLines(clip)[1] = NumberLine("magic", FormatVersion)
             /\ \A i \in 1 .. h :
                  HeaderLines(clip)[i + 1] =
                    SubjectLine("header", <<"header", Named(clip)[i]>>,
                                clip.source[Named(clip)[i]], None)
             /\ HeaderLines(clip)[h + 2] = NumberLine("frameRate", Written(clip.rate))
<1> DEFINE h == Len(Named(clip))
           line(i) == SubjectLine("header", <<"header", Named(clip)[i]>>,
                                  clip.source[Named(clip)[i]], None)
           first == <<NumberLine("magic", FormatVersion)>>
           named == [i \in 1 .. h |-> line(i)]
           start == first \o named
           last == <<NumberLine("frameRate", Written(clip.rate))>>
<1>1. HeaderLines(clip) = start \o last
  BY DEF HeaderLines, Named
<1>2. NumberLine("magic", FormatVersion) \in WriterLines
  BY DEF WriterLines, FormatVersion
<1>3. NumberLine("frameRate", Written(clip.rate)) \in WriterLines
  BY WrittenIsANumber DEF WriterLines
<1>4. /\ first \in Seq(WriterLines) /\ Len(first) = 1
      /\ first[1] = NumberLine("magic", FormatVersion)
  BY <1>2
<1>5. /\ last \in Seq(WriterLines) /\ Len(last) = 1
      /\ last[1] = NumberLine("frameRate", Written(clip.rate))
  BY <1>3
<1>6. h \in Nat
  BY NamedLists
<1>7. \A i \in 1 .. h : line(i) \in WriterLines
  <2> SUFFICES ASSUME NEW i \in 1 .. h PROVE line(i) \in WriterLines
    OBVIOUS
  <2> DEFINE key == Named(clip)[i]
  <2>1. key \in HeaderKeys
    BY NamedLists
  <2>2. clip.source[key] \in Texts
    BY <2>1 DEF IsClip
  <2>3. line(i) = SubjectLine("header", <<"header", key>>, clip.source[key], None)
    OBVIOUS
  <2> HIDE DEF key, line
  <2>4. QED
    BY <2>1, <2>2, <2>3 DEF WriterLines
<1> HIDE DEF line
<1>8. named \in Seq(WriterLines) /\ Len(named) = h /\ \A i \in 1 .. h : named[i] = line(i)
  BY <1>6, <1>7
<1> HIDE DEF first, named, last, h
<1>9. /\ start \in Seq(WriterLines)
      /\ Len(start) = 1 + h
      /\ \A i \in 1 .. 1 : start[i] = first[i]
      /\ \A i \in 1 .. h : start[1 + i] = named[i]
  <2> HIDE DEF start
  <2>a. start = first \o named
    BY DEF start
  <2>1. /\ start \in Seq(WriterLines)
        /\ Len(start) = Len(first) + Len(named)
        /\ \A i \in 1 .. Len(first) : start[i] = first[i]
        /\ \A i \in 1 .. Len(named) : start[Len(first) + i] = named[i]
    <3>1. first \in Seq(WriterLines) /\ named \in Seq(WriterLines)
      BY <2>a, <1>4, <1>8
    <3>2. QED
      BY <2>a, <3>1, OneMoreBlock
  <2>2. QED
    BY <2>a, <1>4, <1>8, <2>1
<1> HIDE DEF start
<1>10. /\ HeaderLines(clip) \in Seq(WriterLines)
       /\ Len(HeaderLines(clip)) = (1 + h) + 1
       /\ \A i \in 1 .. 1 + h : HeaderLines(clip)[i] = start[i]
       /\ \A i \in 1 .. 1 : HeaderLines(clip)[(1 + h) + i] = last[i]
  <2>1. /\ HeaderLines(clip) \in Seq(WriterLines)
        /\ Len(HeaderLines(clip)) = Len(start) + Len(last)
        /\ \A i \in 1 .. Len(start) : HeaderLines(clip)[i] = start[i]
        /\ \A i \in 1 .. Len(last) : HeaderLines(clip)[Len(start) + i] = last[i]
    <3>1. start \in Seq(WriterLines) /\ last \in Seq(WriterLines)
      BY <1>1, <1>5, <1>9
    <3>2. QED
      BY <1>1, <3>1, OneMoreBlock
  <2>2. QED
    BY <1>1, <1>5, <1>9, <2>1
<1>11. (1 + h) + 1 = h + 2 /\ 1 \in 1 .. 1 + h /\ \A i \in 1 .. h : i + 1 = 1 + i /\ 1 + i \in 1 .. 1 + h
  BY <1>6
<1>12. ASSUME NEW i \in 1 .. h
       PROVE  HeaderLines(clip)[i + 1] = line(i)
  <2>1. HeaderLines(clip)[1 + i] = start[1 + i]
    BY <1>10, <1>11
  <2>2. QED
    BY <1>8, <1>9, <1>11, <2>1
<1>13. HeaderLines(clip)[h + 2] = NumberLine("frameRate", Written(clip.rate))
  BY <1>5, <1>10, <1>11
<1>14. HeaderLines(clip)[1] = NumberLine("magic", FormatVersion)
  BY <1>4, <1>9, <1>10, <1>11
<1>15. QED
  BY <1>10, <1>11, <1>12, <1>13, <1>14 DEF h, line

-----------------------------------------------------------------------------
(* Where the frames of a written file begin, counted from its first frame. *)
Blocks(clip) == [k \in 1 .. Len(clip.samples) |-> FrameLines(clip.samples[k])]
Starts(clip) == CHOOSE starts : Places(Blocks(clip), starts)

FieldCount(clip, k) == Len(Carried(clip.samples[k]))

LEMMA StartsStand ==
  ASSUME NEW clip, IsClip(clip)
  PROVE  /\ FlattenSeq(Blocks(clip)) \in Seq(WriterLines)
         /\ Len(Blocks(clip)) = Len(clip.samples)
         /\ Places(Blocks(clip), Starts(clip))
         /\ \A k \in 1 .. Len(clip.samples) :
              /\ Blocks(clip)[k] = FrameLines(clip.samples[k])
              /\ FieldCount(clip, k) \in Nat
              /\ Len(Blocks(clip)[k]) = FieldCount(clip, k) + 1
<1> DEFINE n == Len(clip.samples)
<1>1. n \in Nat /\ \A k \in 1 .. n : IsPose(clip.samples[k])
  BY DEF IsClip
<1>2. \A k \in 1 .. n : /\ Blocks(clip)[k] = FrameLines(clip.samples[k])
                        /\ Blocks(clip)[k] \in Seq(WriterLines)
                        /\ FieldCount(clip, k) \in Nat
                        /\ Len(Blocks(clip)[k]) = FieldCount(clip, k) + 1
  BY <1>1, FrameLinesAre, CarriedLists DEF Blocks, FieldCount
<1>3. Blocks(clip) \in Seq(Seq(WriterLines)) /\ Len(Blocks(clip)) = n
  <2>1. Blocks(clip) \in [1 .. n -> Seq(WriterLines)]
    <3>1. DOMAIN Blocks(clip) = 1 .. n /\ Blocks(clip) = [k \in 1 .. n |-> Blocks(clip)[k]]
      BY DEF Blocks
    <3>2. QED
      BY <1>2, <3>1
  <2>2. QED
    BY <1>1, <2>1
<1>4. FlattenSeq(Blocks(clip)) \in Seq(WriterLines) /\ Places(Blocks(clip), Starts(clip))
  BY <1>3, FlattenSeqPlaces DEF Starts
<1>5. QED
  BY <1>2, <1>3, <1>4

LEMMA FramesArePlaced ==
  ASSUME NEW clip, IsClip(clip)
  PROVE  /\ Starts(clip)[0] = 0
         /\ Starts(clip) \in [0 .. Len(clip.samples) -> Nat]
         /\ Len(FlattenSeq(Blocks(clip))) = Starts(clip)[Len(clip.samples)]
         /\ \A k \in 1 .. Len(clip.samples) :
              /\ Starts(clip)[k] = Starts(clip)[k - 1] + FieldCount(clip, k) + 1
              /\ Starts(clip)[k] <= Starts(clip)[Len(clip.samples)]
              /\ \A m \in 1 .. FieldCount(clip, k) + 1 :
                   FlattenSeq(Blocks(clip))[Starts(clip)[k - 1] + m]
                     = FrameLines(clip.samples[k])[m]
<1> DEFINE n == Len(clip.samples)
           starts == Starts(clip)
           flat == FlattenSeq(Blocks(clip))
           blocks == Blocks(clip)
<1>1. Len(blocks) = n /\ Places(blocks, starts)
  BY StartsStand
<1>2. \A k \in 1 .. n : /\ blocks[k] = FrameLines(clip.samples[k])
                        /\ FieldCount(clip, k) \in Nat
                        /\ Len(blocks[k]) = FieldCount(clip, k) + 1
  BY StartsStand
<1>3. n \in Nat
  BY DEF IsClip
<1> HIDE DEF n, starts, blocks
<1>4. /\ starts \in [0 .. n -> Nat]
      /\ starts[0] = 0
      /\ Len(FlattenSeq(blocks)) = starts[n]
      /\ \A k \in 1 .. n :
           /\ starts[k] = starts[k - 1] + Len(blocks[k])
           /\ starts[k] <= starts[n]
           /\ \A m \in 1 .. Len(blocks[k]) : FlattenSeq(blocks)[starts[k - 1] + m] = blocks[k][m]
  BY <1>1 DEF Places
<1>5. ASSUME NEW k \in 1 .. n
      PROVE  /\ starts[k] = starts[k - 1] + FieldCount(clip, k) + 1
             /\ starts[k] <= starts[n]
             /\ \A m \in 1 .. FieldCount(clip, k) + 1 :
                  FlattenSeq(blocks)[starts[k - 1] + m] = FrameLines(clip.samples[k])[m]
  <2>1. starts[k - 1] \in Nat
    BY <1>3, <1>4
  <2>2. starts[k] = starts[k - 1] + Len(blocks[k])
    BY <1>4
  <2>3. FieldCount(clip, k) \in Nat /\ Len(blocks[k]) = FieldCount(clip, k) + 1
        /\ blocks[k] = FrameLines(clip.samples[k])
    BY <1>2
  <2>4. starts[k] = starts[k - 1] + FieldCount(clip, k) + 1
    BY <2>1, <2>2, <2>3
  <2>5. \A m \in 1 .. Len(blocks[k]) : FlattenSeq(blocks)[starts[k - 1] + m] = blocks[k][m]
    BY <1>4
  <2>6. QED
    BY <1>4, <2>3, <2>4, <2>5
<1>6. QED
  BY <1>4, <1>5 DEF n, starts, blocks

(* What stands on each line of a written file.                             *)
LEMMA EmittedLines ==
  ASSUME NEW clip, IsClip(clip)
  PROVE  LET file_ == Emitted(clip)
             h == Len(Named(clip))
         IN  /\ file_ \in Seq(WriterLines)
             /\ h \in Nat
             /\ Len(file_) = h + 2 + Starts(clip)[Len(clip.samples)]
             /\ \A i \in 1 .. h + 2 : file_[i] = HeaderLines(clip)[i]
             /\ \A k \in 1 .. Len(clip.samples) : \A m \in 1 .. FieldCount(clip, k) + 1 :
                  file_[(h + 2) + (Starts(clip)[k - 1] + m)] = FrameLines(clip.samples[k])[m]
<1> DEFINE h == Len(Named(clip))
           n == Len(clip.samples)
           head == HeaderLines(clip)
           body == FlattenSeq(Blocks(clip))
           all == Emitted(clip)
           starts == Starts(clip)
<1>1. all = head \o body
  BY DEF Emitted, Blocks
<1>2. head \in Seq(WriterLines) /\ Len(head) = h + 2 /\ h \in Nat
  BY HeaderLinesAre, NamedLists
<1>3. body \in Seq(WriterLines) /\ Len(body) = starts[n]
  BY StartsStand, FramesArePlaced
<1>4. n \in Nat /\ starts \in [0 .. n -> Nat]
  BY FramesArePlaced DEF IsClip
<1>5. \A k \in 1 .. n :
        /\ starts[k] = starts[k - 1] + FieldCount(clip, k) + 1
        /\ starts[k] <= starts[n]
        /\ \A m \in 1 .. FieldCount(clip, k) + 1 :
             body[starts[k - 1] + m] = FrameLines(clip.samples[k])[m]
  BY FramesArePlaced
<1>6. \A k \in 1 .. n : FieldCount(clip, k) \in Nat
  BY StartsStand
<1> HIDE DEF h, n, head, body, all, starts
<1>7. /\ all \in Seq(WriterLines)
      /\ Len(all) = Len(head) + Len(body)
      /\ \A i \in 1 .. Len(head) : all[i] = head[i]
      /\ \A m \in 1 .. Len(body) : all[Len(head) + m] = body[m]
  <2>1. head \in Seq(WriterLines) /\ body \in Seq(WriterLines)
    BY <1>2, <1>3
  <2>2. QED
    BY <1>1, <2>1, OneMoreBlock
<1>8. ASSUME NEW k \in 1 .. n, NEW m \in 1 .. FieldCount(clip, k) + 1
      PROVE  all[(h + 2) + (starts[k - 1] + m)] = FrameLines(clip.samples[k])[m]
  <2> DEFINE c == FieldCount(clip, k)
             s == starts[k - 1]
             t == starts[n]
  <2>1. s \in Nat /\ t \in Nat /\ c \in Nat
    BY <1>4, <1>6
  <2>2. starts[k] = s + c + 1 /\ starts[k] <= t
    BY <1>5
  <2>3. m \in 1 .. c + 1
    OBVIOUS
  <2> HIDE DEF c, s, t
  <2>4. s + m \in 1 .. t
    BY <2>1, <2>2, <2>3
  <2>5. all[(h + 2) + (s + m)] = body[s + m]
    BY <1>2, <1>3, <1>7, <2>4 DEF t
  <2>6. QED
    BY <1>5, <2>5 DEF s
<1>9. QED
  BY <1>2, <1>3, <1>7, <1>8 DEF h, n, head, all, starts

-----------------------------------------------------------------------------
(* What the reader holds after each line of a written file.                *)

SourceAfter(clip, i) ==
  [key \in HeaderKeys |->
     IF \E j \in 1 .. i : Named(clip)[j] = key THEN clip.source[key] ELSE ""]

Given(pose, c) == {Carried(pose)[i] : i \in 1 .. c}

BuilderAfter(pose, c) ==
  [timestamp |-> Written(pose.timestamp),
   fields    |-> [f \in Given(pose, c) |-> pose.fields[f]],
   scores    |-> [j \in Joints |->
                    IF <<"b", j>> \in Given(pose, c) /\ pose.confidence # None
                    THEN pose.confidence[j] ELSE None]]

StoredUpTo(clip, k) == [i \in 1 .. k |-> StoredPose(clip.samples[i])]

BeforeMagic ==
  /\ lineNumber = 0
  /\ version = 0
  /\ source = NoSource
  /\ frame = None
  /\ samples = << >>

InHeader ==
  \E i \in 0 .. Len(Named(written)) :
    /\ lineNumber = i + 1
    /\ version = FormatVersion
    /\ source = SourceAfter(written, i)
    /\ frame = None
    /\ samples = << >>

HeaderIsRead ==
  /\ version = FormatVersion
  /\ source = written.source
  /\ frameRate = Written(written.rate)

BeforeFrames ==
  /\ HeaderIsRead
  /\ lineNumber = Len(Named(written)) + 2
  /\ frame = None
  /\ samples = << >>

InFrame(k, c) ==
  /\ HeaderIsRead
  /\ lineNumber = Len(Named(written)) + 2 + Starts(written)[k - 1] + 1 + c
  /\ Written(written.samples[k].timestamp) \in Time
  /\ frame = BuilderAfter(written.samples[k], c)
  /\ samples = StoredUpTo(written, k - 1)

InFrames ==
  \E k \in 1 .. Len(written.samples) : \E c \in 0 .. FieldCount(written, k) : InFrame(k, c)

WriterStands ==
  /\ IsClip(written)
  /\ Writable(written)
  /\ file = SubSeq(Emitted(written), lineNumber + 1, Len(Emitted(written)))
  /\ BeforeMagic \/ InHeader \/ BeforeFrames \/ InFrames

-----------------------------------------------------------------------------
LEMMA HeadersAreRead ==
  ASSUME NEW clip, IsClip(clip)
  PROVE  SourceAfter(clip, 0) = NoSource /\ SourceAfter(clip, Len(Named(clip))) = clip.source
<1>1. clip.source \in [HeaderKeys -> Texts]
  BY DEF IsClip
<1>2. \A key \in HeaderKeys : ~ \E j \in 1 .. 0 : Named(clip)[j] = key
  OBVIOUS
<1>3. SourceAfter(clip, 0) = NoSource
  BY <1>2 DEF SourceAfter, NoSource
<1>4. \A key \in HeaderKeys : SourceAfter(clip, Len(Named(clip)))[key] = clip.source[key]
  BY NamedLists DEF SourceAfter
<1>5. SourceAfter(clip, Len(Named(clip))) = [key \in HeaderKeys |-> clip.source[key]]
  BY <1>4 DEF SourceAfter
<1>6. QED
  BY <1>1, <1>3, <1>5

LEMMA HeaderGrows ==
  ASSUME NEW clip, NEW i \in Nat, i < Len(Named(clip)), IsClip(clip), Writable(clip)
  PROVE  LET key == Named(clip)[i + 1]
         IN  [SourceAfter(clip, i) EXCEPT ![key] = Trimmed(clip.source[key])]
               = SourceAfter(clip, i + 1)
<1> DEFINE key == Named(clip)[i + 1]
           next == [SourceAfter(clip, i) EXCEPT ![key] = Trimmed(clip.source[key])]
<1>1. key \in HeaderKeys
  <2>a. Len(Named(clip)) \in Nat
    BY NamedLists
  <2>1. i + 1 \in 1 .. Len(Named(clip))
    BY <2>a
  <2>2. QED
    BY <2>1, NamedLists
<1>2. Trimmed(clip.source[key]) = clip.source[key]
  BY <1>1 DEF Writable, Trimmed
<1>3. ASSUME NEW k \in HeaderKeys
      PROVE  next[k] = SourceAfter(clip, i + 1)[k]
  <2>1. (\E j \in 1 .. i + 1 : Named(clip)[j] = k)
          <=> (\E j \in 1 .. i : Named(clip)[j] = k) \/ key = k
    <3>1. \A j \in 1 .. i + 1 : j \in 1 .. i \/ j = i + 1
      OBVIOUS
    <3>2. \A j \in 1 .. i : j \in 1 .. i + 1
      OBVIOUS
    <3>3. i + 1 \in 1 .. i + 1
      OBVIOUS
    <3>4. QED
      BY <3>1, <3>2, <3>3
  <2>2. next[k] = IF k = key THEN clip.source[key] ELSE SourceAfter(clip, i)[k]
    BY <1>1, <1>2 DEF SourceAfter
  <2> HIDE DEF next, key
  <2>3. QED
    BY <2>1, <2>2 DEF SourceAfter
<1>4. next = [k \in HeaderKeys |-> next[k]]
  BY DEF SourceAfter
<1>5. SourceAfter(clip, i + 1) = [k \in HeaderKeys |-> SourceAfter(clip, i + 1)[k]]
  BY DEF SourceAfter
<1> HIDE DEF next
<1>6. next = SourceAfter(clip, i + 1)
  BY <1>3, <1>4, <1>5
<1>7. QED
  BY <1>6 DEF next

LEMMA BuilderBegins ==
  ASSUME NEW pose
  PROVE  EmptyFrame(Written(pose.timestamp)) = BuilderAfter(pose, 0)
<1>1. Given(pose, 0) = {}
  BY DEF Given
<1>2. [f \in Given(pose, 0) |-> pose.fields[f]] = << >>
  BY <1>1
<1>3. QED
  BY <1>1, <1>2 DEF EmptyFrame, BuilderAfter

LEMMA BuilderGrows ==
  ASSUME NEW pose, IsPose(pose), NEW c \in Nat, c < Len(Carried(pose)),
         NEW line, line = FieldLine(pose, Carried(pose)[c + 1])
  PROVE  [BuilderAfter(pose, c) EXCEPT
            !.fields = Carrying(@, line.subject, line.value),
            !.scores = IF line.subject[1] = "b"
                       THEN [@ EXCEPT ![line.subject[2]] = line.score] ELSE @]
           = BuilderAfter(pose, c + 1)
<1> DEFINE field == Carried(pose)[c + 1]
           score == IF field[1] = "b" /\ pose.confidence # None
                    THEN pose.confidence[field[2]] ELSE None
           F(n) == [f \in Given(pose, n) |-> pose.fields[f]]
           S(n) == [j \in Joints |->
                      IF <<"b", j>> \in Given(pose, n) /\ pose.confidence # None
                      THEN pose.confidence[j] ELSE None]
<1>1. field \in DOMAIN pose.fields /\ field \in Field
  <2>1. c + 1 \in 1 .. Len(Carried(pose))
    BY CarriedLists
  <2>2. QED
    BY <2>1, CarriedLists
<1>2. line.subject = field /\ line.value = pose.fields[field] /\ line.score = score
  BY DEF FieldLine, SubjectLine
<1>3. Given(pose, c + 1) = {field} \cup Given(pose, c)
  <2>1. 1 .. c + 1 = (1 .. c) \cup {c + 1}
    OBVIOUS
  <2>2. QED
    BY <2>1 DEF Given
<1> HIDE DEF score
<1>4. Carrying(F(c), field, pose.fields[field]) = F(c + 1)
  <2> HIDE DEF field
  <2>1. QED
    BY <1>3 DEF Carrying
<1>5. (IF field[1] = "b" THEN [S(c) EXCEPT ![field[2]] = score] ELSE S(c)) = S(c + 1)
  <2>1. CASE field[1] = "b"
    <3>1. field[2] \in Joints /\ field = <<"b", field[2]>>
      BY <1>1, <2>1 DEF Field, LookAt, Contacts, Sequence, SourceTime
    <3>2. score = IF pose.confidence # None THEN pose.confidence[field[2]] ELSE None
      BY <2>1 DEF score
    <3> DEFINE j0 == field[2]
    <3>3. \A j \in Joints : <<"b", j>> \in Given(pose, c + 1)
                              <=> j = j0 \/ <<"b", j>> \in Given(pose, c)
      <4>1. \A j \in Joints : <<"b", j>> = field <=> j = j0
        BY <3>1
      <4> HIDE DEF field, j0
      <4>2. QED
        BY <1>3, <4>1
    <3> HIDE DEF j0
    <3>4. [S(c) EXCEPT ![j0] = score] = S(c + 1)
      <4>1. score = IF pose.confidence # None THEN pose.confidence[j0] ELSE None
        BY <3>2 DEF j0
      <4> HIDE DEF field
      <4>2. QED
        BY <3>3, <4>1
    <3>5. QED
      BY <2>1, <3>4 DEF j0
  <2>2. CASE field[1] # "b"
    <3>1. \A j \in Joints : <<"b", j>> # field
      BY <2>2
    <3>2. \A j \in Joints : <<"b", j>> \in Given(pose, c + 1) <=> <<"b", j>> \in Given(pose, c)
      <4> HIDE DEF field
      <4>1. QED
        BY <1>3, <3>1
    <3>3. S(c) = S(c + 1)
      <4> HIDE DEF field
      <4>1. QED
        BY <3>2
    <3>4. QED
      BY <2>2, <3>3
  <2>3. QED
    BY <2>1, <2>2
<1>6. BuilderAfter(pose, c) = [timestamp |-> Written(pose.timestamp), fields |-> F(c), scores |-> S(c)]
      /\ BuilderAfter(pose, c + 1)
           = [timestamp |-> Written(pose.timestamp), fields |-> F(c + 1), scores |-> S(c + 1)]
  BY DEF BuilderAfter
<1> DEFINE builder == BuilderAfter(pose, c)
           fields == Carrying(builder.fields, line.subject, line.value)
           scores == IF line.subject[1] = "b"
                     THEN [builder.scores EXCEPT ![line.subject[2]] = line.score]
                     ELSE builder.scores
<1> HIDE DEF F, S, field
<1>7. fields = F(c + 1) /\ scores = S(c + 1)
  <2>1. builder.fields = F(c) /\ builder.scores = S(c)
    BY <1>6
  <2> HIDE DEF builder
  <2>2. QED
    BY <1>2, <1>4, <1>5, <2>1
<1>8. [builder EXCEPT !.fields = fields, !.scores = scores]
        = [timestamp |-> Written(pose.timestamp), fields |-> fields, scores |-> scores]
  <2> DEFINE t == Written(pose.timestamp)
             f == F(c)
             s == S(c)
  <2>1. builder = [timestamp |-> t, fields |-> f, scores |-> s]
    BY <1>6
  <2> HIDE DEF fields, scores, builder, t, f, s
  <2> DEFINE next == [builder EXCEPT !.fields = fields, !.scores = scores]
  <2>2. next = [builder EXCEPT !.fields = fields, !.scores = scores]
    OBVIOUS
  <2> HIDE DEF next
  <2>3. next = [timestamp |-> t, fields |-> fields, scores |-> scores]
    BY <2>1, <2>2
  <2>4. QED
    BY <2>2, <2>3 DEF t
<1>9. [builder EXCEPT !.fields = fields, !.scores = scores] = BuilderAfter(pose, c + 1)
  <2> HIDE DEF fields, scores, builder
  <2>1. QED
    BY <1>6, <1>7, <1>8
<1>10. QED
  BY <1>9

LEMMA BuilderFinishes ==
  ASSUME NEW pose, IsPose(pose)
  PROVE  Build(BuilderAfter(pose, Len(Carried(pose)))) = StoredPose(pose)
<1> DEFINE all == BuilderAfter(pose, Len(Carried(pose)))
           seen == {j \in Joints : <<"b", j>> \in DOMAIN pose.fields}
           scores == [j \in Joints |-> IF j \in seen /\ pose.confidence # None
                                       THEN pose.confidence[j] ELSE None]
           kept == IF \A j \in Joints : scores[j] = None THEN None
                   ELSE [j \in Joints |-> CASE scores[j] # None       -> scores[j]
                                            [] /\ scores[j] = None
                                               /\ <<"b", j>> \in DOMAIN pose.fields -> "one"
                                            [] OTHER                  -> "zero"]
           stored == IF pose.confidence = None \/ seen = {} THEN None
                     ELSE [j \in Joints |-> IF j \in seen THEN pose.confidence[j] ELSE "zero"]
<1>1. Given(pose, Len(Carried(pose))) = DOMAIN pose.fields
  <2>1. \A x \in Given(pose, Len(Carried(pose))) : x \in DOMAIN pose.fields
    BY CarriedLists DEF Given
  <2>2. \A x \in DOMAIN pose.fields : x \in Given(pose, Len(Carried(pose)))
    BY CarriedLists DEF Given
  <2>3. QED
    BY <2>1, <2>2
<1>2. pose.fields = [f \in DOMAIN pose.fields |-> pose.fields[f]]
  BY DEF IsPose
<1>3. all = [timestamp |-> Written(pose.timestamp), fields |-> pose.fields, scores |-> scores]
  BY <1>1, <1>2 DEF BuilderAfter
<1>4. pose.confidence # None => \A j \in Joints : pose.confidence[j] \in Scores
  BY DEF IsPose
<1>5. \A j \in Joints : scores[j] # None <=> j \in seen /\ pose.confidence # None
  BY <1>4, NoneIsNothing
<1>6. (\A j \in Joints : scores[j] = None) <=> pose.confidence = None \/ seen = {}
  <2> HIDE DEF scores
  <2>1. QED
    BY <1>5
<1>7. ASSUME pose.confidence # None, NEW j \in Joints
      PROVE  (CASE scores[j] # None       -> scores[j]
                [] /\ scores[j] = None
                   /\ <<"b", j>> \in DOMAIN pose.fields -> "one"
                [] OTHER                  -> "zero")
             = IF j \in seen THEN pose.confidence[j] ELSE "zero"
  <2>1. CASE j \in seen
    <3>1. scores[j] # None /\ scores[j] = pose.confidence[j]
      BY <1>5, <1>7, <2>1
    <3>2. QED
      BY <2>1, <3>1
  <2>2. CASE j \notin seen
    <3>1. scores[j] = None /\ <<"b", j>> \notin DOMAIN pose.fields
      BY <1>5, <2>2
    <3> HIDE DEF scores
    <3>2. QED
      BY <2>2, <3>1
  <2>3. QED
    BY <2>1, <2>2
<1>8. kept = stored
  <2> HIDE DEF scores, seen
  <2>1. QED
    BY <1>6, <1>7
<1>9. Build(all) = [timestamp |-> Written(pose.timestamp), fields |-> pose.fields, confidence |-> kept]
  <2> HIDE DEF scores, all
  <2>1. all.timestamp = Written(pose.timestamp) /\ all.fields = pose.fields /\ all.scores = scores
    BY <1>3
  <2>2. QED
    BY <2>1 DEF Build
<1>10. StoredPose(pose)
         = [timestamp |-> Written(pose.timestamp), fields |-> pose.fields, confidence |-> stored]
  BY DEF StoredPose
<1> HIDE DEF kept, stored, all
<1>11. Build(all) = StoredPose(pose)
  BY <1>8, <1>9, <1>10
<1>12. QED
  BY <1>11 DEF all

LEMMA StoredGrows ==
  ASSUME NEW clip, NEW n \in Nat
  PROVE  /\ StoredUpTo(clip, 0) = << >>
         /\ Append(StoredUpTo(clip, n), StoredPose(clip.samples[n + 1])) = StoredUpTo(clip, n + 1)
<1> DEFINE T == {StoredPose(clip.samples[i]) : i \in 1 .. n + 1}
           s == StoredUpTo(clip, n)
           e == StoredPose(clip.samples[n + 1])
           t == StoredUpTo(clip, n + 1)
<1>1. \A i \in 1 .. n + 1 : StoredPose(clip.samples[i]) \in T
  OBVIOUS
<1>2. n + 1 \in Nat /\ n + 1 \in 1 .. n + 1 /\ \A i \in 1 .. n : i \in 1 .. n + 1
  OBVIOUS
<1> HIDE DEF T
<1>3. s \in Seq(T) /\ Len(s) = n /\ e \in T /\ t \in Seq(T) /\ Len(t) = n + 1
  BY <1>1, <1>2 DEF StoredUpTo
<1>4. \A i \in 1 .. n : s[i] = StoredPose(clip.samples[i])
  BY DEF StoredUpTo
<1>5. \A i \in 1 .. n + 1 : t[i] = StoredPose(clip.samples[i])
  BY DEF StoredUpTo
<1>6. t[n + 1] = e
  BY <1>2, <1>5
<1> HIDE DEF s, e, t
<1>7. /\ Append(s, e) \in Seq(T) /\ Len(Append(s, e)) = n + 1
      /\ \A i \in 1 .. n : Append(s, e)[i] = s[i]
      /\ Append(s, e)[n + 1] = e
  BY <1>3, AppendProperties
<1>8. \A i \in 1 .. n + 1 : Append(s, e)[i] = t[i]
  <2>1. \A i \in 1 .. n + 1 : i \in 1 .. n \/ i = n + 1
    OBVIOUS
  <2>2. \A i \in 1 .. n : Append(s, e)[i] = t[i]
    BY <1>2, <1>4, <1>5, <1>7
  <2>3. Append(s, e)[n + 1] = t[n + 1]
    BY <1>6, <1>7
  <2>4. QED
    BY <2>1, <2>2, <2>3
<1>9. Append(s, e) = t
  BY <1>3, <1>7, <1>8, SeqEqual
<1>10. StoredUpTo(clip, 0) = << >>
  BY DEF StoredUpTo
<1>11. QED
  BY <1>9, <1>10 DEF s, e, t

-----------------------------------------------------------------------------
LEMMA RestOfFile ==
  ASSUME IsClip(written), lineNumber \in Nat, file # << >>,
         file = SubSeq(Emitted(written), lineNumber + 1, Len(Emitted(written)))
  PROVE  /\ lineNumber + 1 \in 1 .. Len(Emitted(written))
         /\ Head(file) = Emitted(written)[lineNumber + 1]
         /\ Head(file) \in WriterLines
         /\ Tail(file) = SubSeq(Emitted(written), (lineNumber + 1) + 1, Len(Emitted(written)))
<1> DEFINE all == Emitted(written)
           n == Len(all)
<1>1. all \in Seq(WriterLines)
  BY EmittedLines
<1>2. n \in Nat
  BY <1>1, LenProperties
<1> HIDE DEF all
<1>3. file = SubSeq(all, lineNumber + 1, n)
  BY DEF all
<1>4. lineNumber + 1 \in 1 .. n
  <2> HIDE DEF n
  <2>1. ~(n < lineNumber + 1)
    BY <1>2, <1>3, SubSeqEmpty
  <2>2. QED
    BY <1>2, <2>1
<1>5. n \in lineNumber + 1 .. n
  BY <1>2, <1>4
<1>6. /\ Head(file) = all[lineNumber + 1]
      /\ Tail(file) = SubSeq(all, (lineNumber + 1) + 1, n)
  BY <1>1, <1>3, <1>4, <1>5, HeadTailOfSubSeq
<1>7. all[lineNumber + 1] \in WriterLines
  BY <1>1, <1>4, ElementOfSeq
<1>8. QED
  BY <1>4, <1>6, <1>7 DEF all

(* A line the writer wrote is taken, or it ends the reading.               *)
LEMMA WriterLineIsTaken ==
  ASSUME NEW line \in WriterLines, ReadLine(line), outcome = "reading", outcome' = "reading"
  PROVE  /\ Accepts(line)
         /\ ReadMagic(line) \/ OpenFrame(line) \/ ReadHeader(line) \/ ReadField(line)
         /\ lineNumber' = lineNumber + 1
         /\ UNCHANGED written
BY WriterLinesAreLines DEF ReadLine

LEMMA KindsOfLine ==
  ASSUME NEW key, NEW number, NEW subject, NEW value, NEW score
  PROVE  /\ NumberLine(key, number).key = key
         /\ NumberLine(key, number).number = number
         /\ SubjectLine(key, subject, value, score).key = key
         /\ SubjectLine(key, subject, value, score).subject = subject
         /\ SubjectLine(key, subject, value, score).value = value
         /\ SubjectLine(key, subject, value, score).score = score
BY DEF NumberLine, SubjectLine

LEMMA MagicStep ==
  ASSUME NEW clip, NEW line, line = NumberLine("magic", FormatVersion),
         Accepts(line), version = 0, frame = None, samples = << >>, source = NoSource,
         ReadMagic(line) \/ OpenFrame(line) \/ ReadHeader(line) \/ ReadField(line)
  PROVE  version' = FormatVersion /\ source' = NoSource /\ frame' = None /\ samples' = << >>
<1>1. line.number = FormatVersion
  BY KindsOfLine
<1>2. ReadMagic(line)
  BY DEF OpenFrame, ReadHeader, ReadField
<1>3. QED
  BY <1>1, <1>2 DEF ReadMagic

LEMMA HeaderStep ==
  ASSUME NEW line, NEW name, NEW text,
         line = SubjectLine("header", <<"header", name>>, text, None),
         version = FormatVersion,
         ReadMagic(line) \/ OpenFrame(line) \/ ReadHeader(line) \/ ReadField(line)
  PROVE  /\ source' = [source EXCEPT ![name] = Trimmed(text)]
         /\ UNCHANGED <<version, frame, samples>>
<1>1. line.key = "header" /\ line.subject = <<"header", name>> /\ line.value = text
  BY KindsOfLine
<1>2. ReadHeader(line)
  BY <1>1 DEF ReadMagic, OpenFrame, ReadField, FormatVersion
<1>3. line.subject[2] = name
  BY <1>1
<1>4. QED
  BY <1>1, <1>2, <1>3 DEF ReadHeader

LEMMA RateStep ==
  ASSUME NEW line, NEW rate, line = NumberLine("frameRate", rate),
         version = FormatVersion,
         ReadMagic(line) \/ OpenFrame(line) \/ ReadHeader(line) \/ ReadField(line)
  PROVE  frameRate' = rate /\ UNCHANGED <<version, source, frame, samples>>
<1>1. line.key = "frameRate" /\ line.number = rate
  BY KindsOfLine
<1>2. ReadHeader(line)
  BY <1>1 DEF ReadMagic, OpenFrame, ReadField, FormatVersion
<1>3. QED
  BY <1>1, <1>2 DEF ReadHeader

LEMMA TimeStep ==
  ASSUME NEW line, NEW time, line = NumberLine("t", time),
         version = FormatVersion,
         ReadMagic(line) \/ OpenFrame(line) \/ ReadHeader(line) \/ ReadField(line)
  PROVE  /\ samples' = Finished /\ frame' = EmptyFrame(time)
         /\ UNCHANGED <<version, source, frameRate>>
<1>1. line.key = "t" /\ line.number = time
  BY KindsOfLine
<1>2. OpenFrame(line)
  BY <1>1 DEF ReadMagic, ReadHeader, ReadField, FormatVersion
<1>3. QED
  BY <1>1, <1>2 DEF OpenFrame

LEMMA FieldStep ==
  ASSUME NEW line, line.key = "field",
         version = FormatVersion,
         ReadMagic(line) \/ OpenFrame(line) \/ ReadHeader(line) \/ ReadField(line)
  PROVE  /\ frame' = [frame EXCEPT
                        !.fields = Carrying(@, line.subject, line.value),
                        !.scores = IF line.subject[1] = "b"
                                   THEN [@ EXCEPT ![line.subject[2]] = line.score] ELSE @]
         /\ UNCHANGED <<version, source, frameRate, samples>>
BY DEF ReadMagic, OpenFrame, ReadHeader, ReadField, FormatVersion

-----------------------------------------------------------------------------
LEMMA MagicIsRead ==
  ASSUME IsClip(written), BeforeMagic, NEW line, line = Emitted(written)[lineNumber + 1],
         Accepts(line), lineNumber' = lineNumber + 1, UNCHANGED written,
         ReadMagic(line) \/ OpenFrame(line) \/ ReadHeader(line) \/ ReadField(line)
  PROVE  InHeader'
<1> DEFINE h == Len(Named(written))
<1>1. h \in Nat /\ line = HeaderLines(written)[1]
  <2>1. h \in Nat /\ lineNumber + 1 = 1
    BY EmittedLines DEF BeforeMagic
  <2>2. 1 \in 1 .. h + 2
    BY <2>1
  <2>3. QED
    BY <2>1, <2>2, EmittedLines
<1>2. line = NumberLine("magic", FormatVersion)
  BY <1>1, HeaderLinesAre
<1>3. version' = FormatVersion /\ source' = NoSource /\ frame' = None /\ samples' = << >>
  BY <1>2, MagicStep DEF BeforeMagic
<1>4. lineNumber' = 0 + 1 /\ 0 \in 0 .. h
  BY <1>1 DEF BeforeMagic
<1>5. source' = SourceAfter(written', 0)
  BY <1>3, HeadersAreRead
<1>6. QED
  BY <1>3, <1>4, <1>5 DEF InHeader

LEMMA HeaderIsReadOn ==
  ASSUME IsClip(written), Writable(written), InHeader,
         NEW line, line = Emitted(written)[lineNumber + 1],
         Accepts(line), lineNumber' = lineNumber + 1, UNCHANGED written,
         ReadMagic(line) \/ OpenFrame(line) \/ ReadHeader(line) \/ ReadField(line)
  PROVE  InHeader' \/ BeforeFrames'
<1> DEFINE h == Len(Named(written))
<1>1. h \in Nat
  BY EmittedLines
<1>2. PICK i \in 0 .. h :
        /\ lineNumber = i + 1
        /\ version = FormatVersion
        /\ source = SourceAfter(written, i)
        /\ frame = None
        /\ samples = << >>
  BY DEF InHeader
<1>3. i \in Nat /\ i <= h /\ lineNumber + 1 = i + 2 /\ i + 2 \in 1 .. h + 2
  BY <1>1, <1>2
<1>4. line = HeaderLines(written)[i + 2]
  BY <1>3, EmittedLines
<1>5. CASE i < h
  <2> DEFINE name == Named(written)[i + 1]
  <2>1. i + 1 \in 1 .. h /\ i + 2 = (i + 1) + 1 /\ i + 1 \in 0 .. h
    BY <1>1, <1>3, <1>5
  <2>2. line = SubjectLine("header", <<"header", name>>, written.source[name], None)
    BY <1>4, <2>1, HeaderLinesAre
  <2>3. /\ source' = [source EXCEPT ![name] = Trimmed(written.source[name])]
        /\ UNCHANGED <<version, frame, samples>>
    <3> HIDE DEF name
    <3>1. QED
      BY <1>2, <2>2, HeaderStep
  <2>4. source' = SourceAfter(written, i + 1)
    BY <1>2, <1>3, <1>5, <2>3, HeaderGrows
  <2>5. lineNumber' = (i + 1) + 1
    BY <1>2
  <2>6. InHeader'
    BY <1>2, <2>1, <2>3, <2>4, <2>5 DEF InHeader
  <2>7. QED
    BY <2>6
<1>6. CASE i = h
  <2>1. line = NumberLine("frameRate", Written(written.rate))
    BY <1>4, <1>6, HeaderLinesAre
  <2>2. frameRate' = Written(written.rate) /\ UNCHANGED <<version, source, frame, samples>>
    BY <1>2, <2>1, RateStep
  <2>3. source' = written.source
    BY <1>2, <1>6, <2>2, HeadersAreRead
  <2>4. lineNumber' = h + 2
    BY <1>3, <1>6
  <2>5. BeforeFrames'
    BY <1>2, <2>2, <2>3, <2>4 DEF BeforeFrames, HeaderIsRead
  <2>6. QED
    BY <2>5
<1>7. QED
  BY <1>3, <1>5, <1>6, <1>1

-----------------------------------------------------------------------------
(* Where the frame k ends, the next one begins.                            *)
LEMMA FrameIsNext ==
  ASSUME IsClip(written), NEW k \in 0 .. Len(written.samples),
         lineNumber = Len(Named(written)) + 2 + Starts(written)[k],
         lineNumber + 1 \in 1 .. Len(Emitted(written))
  PROVE  /\ k + 1 \in 1 .. Len(written.samples)
         /\ Emitted(written)[lineNumber + 1]
              = NumberLine("t", Written(written.samples[k + 1].timestamp))
<1> DEFINE h == Len(Named(written))
           n == Len(written.samples)
           starts == Starts(written)
           line == Emitted(written)[lineNumber + 1]
<1>1. h \in Nat /\ n \in Nat /\ starts \in [0 .. n -> Nat]
  BY EmittedLines, FramesArePlaced DEF IsClip
<1>2. Len(Emitted(written)) = h + 2 + starts[n]
  BY EmittedLines
<1>3. k < n
  <2>1. CASE k = n
    <3> DEFINE s == starts[n]
    <3>1. s \in Nat /\ lineNumber = h + 2 + s
      BY <1>1, <2>1
    <3>2. lineNumber + 1 <= h + 2 + s
      BY <1>2
    <3> HIDE DEF s, h
    <3>3. QED
      BY <1>1, <3>1, <3>2
  <2>2. QED
    BY <1>1, <2>1
<1>4. k + 1 \in 1 .. n /\ (k + 1) - 1 = k
  BY <1>1, <1>3
<1> DEFINE pose == written.samples[k + 1]
<1>5. IsPose(pose)
  BY <1>4 DEF IsClip
<1>6. FieldCount(written, k + 1) \in Nat
  BY <1>5, CarriedLists DEF FieldCount
<1>7. line = FrameLines(pose)[1]
  <2>1. 1 \in 1 .. FieldCount(written, k + 1) + 1
    BY <1>6
  <2>a. \A m \in 1 .. FieldCount(written, k + 1) + 1 :
          Emitted(written)[(h + 2) + (starts[(k + 1) - 1] + m)] = FrameLines(pose)[m]
    BY <1>4, EmittedLines
  <2>2. Emitted(written)[(h + 2) + (starts[k] + 1)] = FrameLines(pose)[1]
    BY <1>4, <2>1, <2>a
  <2>3. lineNumber + 1 = (h + 2) + (starts[k] + 1)
    BY <1>1
  <2>4. QED
    BY <2>2, <2>3
<1>8. line = NumberLine("t", Written(pose.timestamp))
  BY <1>5, <1>7, FrameLinesAre
<1>9. QED
  BY <1>4, <1>8

(* After the frame k, finished as it was stored, the next one is opened.   *)
LEMMA NextFrameIsRead ==
  ASSUME IsClip(written), HeaderIsRead, NEW k \in 0 .. Len(written.samples),
         lineNumber = Len(Named(written)) + 2 + Starts(written)[k],
         Finished = StoredUpTo(written, k),
         lineNumber + 1 \in 1 .. Len(Emitted(written)),
         NEW line, line = Emitted(written)[lineNumber + 1], Accepts(line),
         lineNumber' = lineNumber + 1, UNCHANGED written,
         ReadMagic(line) \/ OpenFrame(line) \/ ReadHeader(line) \/ ReadField(line)
  PROVE  InFrames'
<1> DEFINE h == Len(Named(written))
           n == Len(written.samples)
           starts == Starts(written)
<1>1. h \in Nat /\ n \in Nat /\ starts \in [0 .. n -> Nat]
  BY EmittedLines, FramesArePlaced DEF IsClip
<1> DEFINE pose == written.samples[k + 1]
<1>2. k + 1 \in 1 .. n /\ (k + 1) - 1 = k
  BY <1>1, FrameIsNext
<1>3. IsPose(pose)
  BY <1>2 DEF IsClip
<1>4. FieldCount(written, k + 1) \in Nat
  BY <1>3, CarriedLists DEF FieldCount
<1>5. line = NumberLine("t", Written(pose.timestamp))
  BY FrameIsNext
<1>6. /\ samples' = Finished /\ frame' = EmptyFrame(Written(pose.timestamp))
      /\ UNCHANGED <<version, source, frameRate>>
  BY <1>5, TimeStep DEF HeaderIsRead
<1>7. frame' = BuilderAfter(pose, 0)
  BY <1>6, BuilderBegins
<1>8. lineNumber' = h + 2 + starts[(k + 1) - 1] + 1 + 0
  <2> DEFINE s == starts[k]
  <2>1. s \in Nat /\ lineNumber' = (h + 2 + s) + 1
    BY <1>1
  <2> HIDE DEF s, h
  <2>2. lineNumber' = h + 2 + s + 1 + 0
    BY <1>1, <2>1
  <2>3. QED
    BY <1>2, <2>2 DEF s
<1>9. HeaderIsRead'
  BY <1>6 DEF HeaderIsRead
<1>10. samples' = StoredUpTo(written', (k + 1) - 1)
  BY <1>2, <1>6
<1>11. Written(pose.timestamp) \in Time
  <2>1. line.key = "t" /\ line.number = Written(pose.timestamp)
    BY <1>5, KindsOfLine
  <2>2. OpenFrame(line)
    BY <2>1 DEF ReadMagic, ReadHeader, ReadField, HeaderIsRead, FormatVersion
  <2>3. QED
    BY <2>1, <2>2, TimeIsAccepted
<1>a. InFrame(k + 1, 0)'
  BY <1>7, <1>8, <1>9, <1>10, <1>11 DEF InFrame
<1>12. k + 1 \in 1 .. Len(written'.samples) /\ 0 \in 0 .. FieldCount(written', k + 1)
  BY <1>2, <1>4
<1>13. QED
  BY <1>a, <1>12 DEF InFrames

(* Within a frame, the next field it carries.                              *)
LEMMA FieldIsNext ==
  ASSUME IsClip(written), NEW k \in 1 .. Len(written.samples),
         NEW c \in Nat, c < FieldCount(written, k), InFrame(k, c)
  PROVE  Emitted(written)[lineNumber + 1]
           = FieldLine(written.samples[k], Carried(written.samples[k])[c + 1])
<1> DEFINE h == Len(Named(written))
           n == Len(written.samples)
           starts == Starts(written)
           pose == written.samples[k]
           s == starts[k - 1]
           count == FieldCount(written, k)
           line == Emitted(written)[lineNumber + 1]
<1>a. h \in Nat /\ n \in Nat /\ starts \in [0 .. n -> Nat]
  BY EmittedLines, FramesArePlaced DEF IsClip
<1>1. h \in Nat /\ n \in Nat /\ starts \in [0 .. n -> Nat] /\ k - 1 \in 0 .. n
  BY <1>a
<1>2. IsPose(pose)
  BY DEF IsClip
<1>3. count \in Nat /\ count = Len(Carried(pose))
  BY <1>2, CarriedLists DEF FieldCount
<1>b. c < count /\ count \in Nat
  BY <1>3
<1>c. \A m \in 1 .. count + 1 : Emitted(written)[(h + 2) + (s + m)] = FrameLines(pose)[m]
  BY EmittedLines
<1>4. s \in Nat
  BY <1>1
<1>5. /\ HeaderIsRead
      /\ lineNumber = h + 2 + s + 1 + c
      /\ Written(pose.timestamp) \in Time
      /\ frame = BuilderAfter(pose, c)
      /\ samples = StoredUpTo(written, k - 1)
  BY DEF InFrame
<1>6. c + 2 \in 1 .. count + 1 /\ c + 1 \in 1 .. count /\ (c + 1) + 1 = c + 2
      /\ c + 1 \in 0 .. count
  <2> HIDE DEF count
  <2>1. QED
    BY <1>b
<1>7. line = FrameLines(pose)[c + 2]
  <2>1. Emitted(written)[(h + 2) + (s + (c + 2))] = FrameLines(pose)[c + 2]
    BY <1>6, <1>c
  <2>2. lineNumber + 1 = (h + 2) + (s + (c + 2))
    <3>1. lineNumber = h + 2 + s + 1 + c /\ h \in Nat
      BY <1>1, <1>5
    <3> HIDE DEF h, s
    <3>2. QED
      BY <1>4, <3>1
  <2>3. QED
    BY <2>1, <2>2
<1>8. line = FieldLine(pose, Carried(pose)[c + 1])
  BY <1>2, <1>3, <1>6, <1>7, FrameLinesAre
<1>9. QED
  BY <1>8

LEMMA FieldIsRead ==
  ASSUME IsClip(written), NEW k \in 1 .. Len(written.samples),
         NEW c \in Nat, c < FieldCount(written, k), InFrame(k, c),
         NEW line, line = Emitted(written)[lineNumber + 1],
         lineNumber' = lineNumber + 1, UNCHANGED written,
         ReadMagic(line) \/ OpenFrame(line) \/ ReadHeader(line) \/ ReadField(line)
  PROVE  InFrames'
<1> DEFINE h == Len(Named(written))
           n == Len(written.samples)
           starts == Starts(written)
           pose == written.samples[k]
           s == starts[k - 1]
           count == FieldCount(written, k)
<1>a. h \in Nat /\ n \in Nat /\ starts \in [0 .. n -> Nat]
  BY EmittedLines, FramesArePlaced DEF IsClip
<1>1. h \in Nat /\ n \in Nat /\ starts \in [0 .. n -> Nat] /\ k - 1 \in 0 .. n
  BY <1>a
<1>2. IsPose(pose)
  BY DEF IsClip
<1>3. count \in Nat /\ count = Len(Carried(pose))
  BY <1>2, CarriedLists DEF FieldCount
<1>b. c < count /\ count \in Nat
  BY <1>3
<1>4. s \in Nat
  BY <1>1
<1>5. /\ HeaderIsRead
      /\ lineNumber = h + 2 + s + 1 + c
      /\ Written(pose.timestamp) \in Time
      /\ frame = BuilderAfter(pose, c)
      /\ samples = StoredUpTo(written, k - 1)
  BY DEF InFrame
<1>6. c + 2 \in 1 .. count + 1 /\ c + 1 \in 1 .. count /\ (c + 1) + 1 = c + 2
      /\ c + 1 \in 0 .. count
  <2> HIDE DEF count
  <2>1. QED
    BY <1>b
<1>7. line = FieldLine(pose, Carried(pose)[c + 1])
  BY FieldIsNext
<1>8. line.key = "field"
  BY <1>7 DEF FieldLine, SubjectLine
<1>9. /\ frame' = [frame EXCEPT
                      !.fields = Carrying(@, line.subject, line.value),
                      !.scores = IF line.subject[1] = "b"
                                 THEN [@ EXCEPT ![line.subject[2]] = line.score] ELSE @]
       /\ UNCHANGED <<version, source, frameRate, samples>>
  BY <1>5, <1>8, FieldStep DEF HeaderIsRead
<1>10. frame' = BuilderAfter(pose, c + 1)
  <2> DEFINE old == BuilderAfter(pose, c)
             new == BuilderAfter(pose, c + 1)
  <2>1. c < Len(Carried(pose))
    BY <1>3
  <2> HIDE DEF pose
  <2>2. [old EXCEPT
           !.fields = Carrying(@, line.subject, line.value),
           !.scores = IF line.subject[1] = "b"
                      THEN [@ EXCEPT ![line.subject[2]] = line.score] ELSE @]
          = new
    BY <1>2, <1>7, <2>1, BuilderGrows
  <2>3. frame = old
    BY <1>5
  <2> HIDE DEF old, new
  <2>4. frame' = new
    BY <1>9, <2>2, <2>3
  <2>5. QED
    BY <2>4 DEF new
<1>11. lineNumber' = h + 2 + s + 1 + (c + 1)
  <2> HIDE DEF h, s
  <2>1. QED
    BY <1>1, <1>4, <1>5
<1>12. HeaderIsRead'
  BY <1>5, <1>9 DEF HeaderIsRead
<1>13. InFrame(k, c + 1)'
  BY <1>5, <1>9, <1>10, <1>11, <1>12 DEF InFrame
<1>14. QED
  BY <1>6, <1>13 DEF InFrames

(* A frame that has all its fields finishes as it was stored.              *)
LEMMA FrameFinishes ==
  ASSUME IsClip(written), NEW k \in 1 .. Len(written.samples),
         InFrame(k, FieldCount(written, k)), frame # None
  PROVE  /\ Finished = StoredUpTo(written, k)
         /\ lineNumber = Len(Named(written)) + 2 + Starts(written)[k]
<1> DEFINE h == Len(Named(written))
           n == Len(written.samples)
           starts == Starts(written)
           pose == written.samples[k]
           count == FieldCount(written, k)
<1>1. h \in Nat /\ n \in Nat /\ starts \in [0 .. n -> Nat] /\ k - 1 \in 0 .. n /\ k \in 0 .. n
  BY EmittedLines, FramesArePlaced DEF IsClip
<1>2. IsPose(pose)
  BY DEF IsClip
<1>3. count \in Nat /\ count = Len(Carried(pose))
  BY <1>2, CarriedLists DEF FieldCount
<1>4. /\ lineNumber = h + 2 + starts[k - 1] + 1 + count
      /\ frame = BuilderAfter(pose, count)
      /\ samples = StoredUpTo(written, k - 1)
  BY DEF InFrame
<1>5. Finished = Append(StoredUpTo(written, k - 1), StoredPose(pose))
  BY <1>2, <1>3, <1>4, BuilderFinishes DEF Finished
<1>6. k - 1 \in Nat /\ (k - 1) + 1 = k
  BY <1>1
<1>7. Finished = StoredUpTo(written, k)
  BY <1>5, <1>6, StoredGrows
<1>8. lineNumber = h + 2 + starts[k]
  <2>1. starts[k] = starts[k - 1] + count + 1
    BY FramesArePlaced
  <2> DEFINE s == starts[k - 1]
             t == starts[k]
  <2>2. s \in Nat /\ t \in Nat /\ t = s + count + 1 /\ lineNumber = h + 2 + s + 1 + count
    BY <1>1, <1>4, <2>1
  <2> HIDE DEF s, t, h, count
  <2>3. lineNumber = h + 2 + t
    BY <1>1, <1>3, <2>2
  <2>4. QED
    BY <2>3 DEF t
<1>9. QED
  BY <1>7, <1>8

LEMMA BuilderIsAFrame ==
  ASSUME NEW pose, IsPose(pose), NEW c \in 0 .. Len(Carried(pose)), Written(pose.timestamp) \in Time
  PROVE  BuilderAfter(pose, c) \in Builders /\ BuilderAfter(pose, c) # None
<1>1. Given(pose, c) \subseteq DOMAIN pose.fields /\ DOMAIN pose.fields \subseteq Field
  <2>1. Len(Carried(pose)) \in Nat
    BY CarriedLists
  <2>2. \A i \in 1 .. c : i \in 1 .. Len(Carried(pose))
    BY <2>1
  <2>3. QED
    BY <2>2, CarriedLists DEF Given, IsPose
<1> DEFINE fields == [f \in Given(pose, c) |-> pose.fields[f]]
           scores == [j \in Joints |-> IF <<"b", j>> \in Given(pose, c) /\ pose.confidence # None
                                       THEN pose.confidence[j] ELSE None]
<1>2. fields \in Fields
  <2>1. Given(pose, c) \in SUBSET Field
    BY <1>1
  <2>2. fields \in [Given(pose, c) -> Values]
    BY <1>1 DEF IsPose
  <2>3. QED
    BY <2>1, <2>2 DEF Fields
<1>3. scores \in [Joints -> Scores \cup {None}]
  BY DEF IsPose
<1>4. BuilderAfter(pose, c)
        = [timestamp |-> Written(pose.timestamp), fields |-> fields, scores |-> scores]
  BY DEF BuilderAfter
<1> HIDE DEF fields, scores
<1>5. BuilderAfter(pose, c) \in Builders
  BY <1>2, <1>3, <1>4 DEF Builders
<1>6. QED
  BY <1>5, NoneIsNothing

-----------------------------------------------------------------------------
(* One line of a written file, read as it was written.                     *)
LEMMA WriterLineNumber ==
  ASSUME WriterStands
  PROVE  lineNumber \in Nat
<1>1. Len(Named(written)) \in Nat
  BY NamedLists
<1>2. CASE BeforeMagic
  BY <1>2 DEF BeforeMagic
<1>3. CASE InHeader
  BY <1>1, <1>3 DEF InHeader
<1>4. CASE BeforeFrames
  BY <1>1, <1>4 DEF BeforeFrames
<1>5. CASE InFrames
  <2>1. IsClip(written)
    BY DEF WriterStands
  <2>kk. PICK k \in 1 .. Len(written.samples) : \E c \in 0 .. FieldCount(written, k) : InFrame(k, c)
    BY <1>5 DEF InFrames
  <2>2. PICK c \in 0 .. FieldCount(written, k) : InFrame(k, c)
    BY <2>kk
  <2> DEFINE s == Starts(written)[k - 1]
             h == Len(Named(written))
  <2>3. s \in Nat
    <3>1. Len(written.samples) \in Nat /\ Starts(written) \in [0 .. Len(written.samples) -> Nat]
      BY <2>1, FramesArePlaced DEF IsClip
    <3>2. k - 1 \in 0 .. Len(written.samples)
      BY <3>1
    <3>3. QED
      BY <3>1, <3>2
  <2>4. lineNumber = h + 2 + s + 1 + c
    BY <2>2 DEF InFrame
  <2>5. c \in Nat
    <3>1. IsPose(written.samples[k])
      BY <2>1 DEF IsClip
    <3>2. FieldCount(written, k) \in Nat
      BY <3>1, CarriedLists DEF FieldCount
    <3>3. QED
      BY <3>2
  <2> HIDE DEF s, h
  <2>6. h \in Nat
    BY <1>1 DEF h
  <2>7. QED
    BY <2>3, <2>4, <2>5, <2>6
<1>6. QED
  BY <1>2, <1>3, <1>4, <1>5 DEF WriterStands

LEMMA WriterStep ==
  ASSUME WriterStands, outcome = "reading", outcome' = "reading", file # << >>,
         ReadLine(Head(file)), file' = Tail(file)
  PROVE  WriterStands'
<1> DEFINE line == Emitted(written)[lineNumber + 1]
<1>1. /\ IsClip(written) /\ Writable(written) /\ lineNumber \in Nat
      /\ file = SubSeq(Emitted(written), lineNumber + 1, Len(Emitted(written)))
  BY WriterLineNumber DEF WriterStands
<1>2. /\ lineNumber + 1 \in 1 .. Len(Emitted(written))
      /\ Head(file) = line
      /\ line \in WriterLines
      /\ file' = SubSeq(Emitted(written), (lineNumber + 1) + 1, Len(Emitted(written)))
  BY <1>1, RestOfFile
<1> HIDE DEF line
<1>3. /\ Accepts(line)
      /\ ReadMagic(line) \/ OpenFrame(line) \/ ReadHeader(line) \/ ReadField(line)
      /\ lineNumber' = lineNumber + 1
      /\ UNCHANGED written
  BY <1>2, WriterLineIsTaken
<1>4. line = Emitted(written)[lineNumber + 1]
  BY DEF line
<1>a. file' = SubSeq(Emitted(written'), lineNumber' + 1, Len(Emitted(written')))
  BY <1>2, <1>3
<1>b. IsClip(written') /\ Writable(written')
  BY <1>1, <1>3
<1>c. SUFFICES BeforeMagic' \/ InHeader' \/ BeforeFrames' \/ InFrames'
  BY <1>a, <1>b DEF WriterStands
<1>5. CASE BeforeMagic
  BY <1>1, <1>3, <1>4, <1>5, MagicIsRead
<1>6. CASE InHeader
  BY <1>1, <1>3, <1>4, <1>6, HeaderIsReadOn
<1>7. CASE BeforeFrames
  <2> DEFINE h == Len(Named(written))
             n == Len(written.samples)
  <2>1. n \in Nat /\ Starts(written)[0] = 0 /\ h \in Nat
    BY <1>1, FramesArePlaced, NamedLists DEF IsClip
  <2>2. 0 \in 0 .. n
    BY <2>1
  <2>3. lineNumber = h + 2 /\ HeaderIsRead /\ frame = None /\ samples = << >>
    BY <1>7 DEF BeforeFrames
  <2>4. lineNumber = h + 2 + Starts(written)[0]
    BY <2>1, <2>3
  <2>5. Finished = StoredUpTo(written, 0)
    BY <2>3, StoredGrows DEF Finished
  <2>6. QED
    BY <1>1, <1>2, <1>3, <1>4, <2>2, <2>3, <2>4, <2>5, NextFrameIsRead
<1>8. CASE InFrames
  <2>kk. PICK k \in 1 .. Len(written.samples) : \E c \in 0 .. FieldCount(written, k) : InFrame(k, c)
    BY <1>8 DEF InFrames
  <2>1. PICK c \in 0 .. FieldCount(written, k) : InFrame(k, c)
    BY <2>kk
  <2> DEFINE count == FieldCount(written, k)
             n == Len(written.samples)
  <2>2. IsPose(written.samples[k]) /\ n \in Nat
    BY <1>1 DEF IsClip
  <2>3. count \in Nat /\ count = Len(Carried(written.samples[k]))
    BY <2>2, CarriedLists DEF FieldCount
  <2>4. CASE c = count
    <3>1. InFrame(k, FieldCount(written, k)) /\ HeaderIsRead
      BY <2>1, <2>4 DEF InFrame
    <3>2. frame # None
      <4>1. frame = BuilderAfter(written.samples[k], c)
            /\ Written(written.samples[k].timestamp) \in Time
        BY <2>1 DEF InFrame
      <4>2. c \in 0 .. Len(Carried(written.samples[k]))
        BY <2>3
      <4>3. QED
        BY <2>2, <4>1, <4>2, BuilderIsAFrame
    <3>3. /\ Finished = StoredUpTo(written, k)
          /\ lineNumber = Len(Named(written)) + 2 + Starts(written)[k]
      BY <1>1, <3>1, <3>2, FrameFinishes
    <3>4. k \in 0 .. n
      BY <2>2
    <3>5. QED
      BY <1>1, <1>2, <1>3, <1>4, <3>1, <3>3, <3>4, NextFrameIsRead
  <2>5. CASE c # count
    <3>1. c \in Nat /\ c < FieldCount(written, k)
      BY <2>3, <2>5
    <3>2. QED
      BY <1>1, <1>3, <1>4, <2>1, <3>1, FieldIsRead
  <2>6. QED
    BY <2>4, <2>5
<1>9. QED
  BY <1>5, <1>6, <1>7, <1>8 DEF WriterStands

(* A written file that is read to its end was read as far as it goes.      *)
LEMMA FileIsRead ==
  ASSUME WriterStands, file = << >>
  PROVE  /\ Len(Emitted(written)) = Len(Named(written)) + 2 + Starts(written)[Len(written.samples)]
         /\ Len(Emitted(written)) \in Nat /\ lineNumber >= Len(Emitted(written))
<1> DEFINE h == Len(Named(written))
           n == Len(written.samples)
           starts == Starts(written)
           all == Emitted(written)
<1>1. IsClip(written) /\ lineNumber \in Nat
  BY WriterLineNumber DEF WriterStands
<1>2. h \in Nat /\ n \in Nat /\ starts \in [0 .. n -> Nat]
  BY <1>1, EmittedLines, FramesArePlaced DEF IsClip
<1>3. all \in Seq(WriterLines) /\ Len(all) = h + 2 + starts[n]
  BY <1>1, EmittedLines
<1>4. Len(all) \in Nat
  BY <1>3, LenProperties
<1>5. lineNumber >= Len(all)
  <2>1. file = SubSeq(all, lineNumber + 1, Len(all))
    BY DEF WriterStands
  <2>2. ASSUME lineNumber < Len(all)
        PROVE  FALSE
    <3> DEFINE m == lineNumber + 1
    <3>1. m \in 1 .. Len(all) /\ Len(all) \in m .. Len(all)
      BY <1>1, <1>4, <2>2
    <3> HIDE DEF all, m
    <3>2. SubSeq(all, m, Len(all)) = <<all[m]>> \o SubSeq(all, m + 1, Len(all))
      BY <1>3, <3>1, SubSeqRecursiveFirst
    <3>3. \A i \in m .. Len(all) : all[i] \in WriterLines
      <4>1. \A i \in m .. Len(all) : i \in 1 .. Len(all)
        BY <1>4, <3>1
      <4>2. QED
        BY <1>3, <4>1, ElementOfSeq
    <3>4. Len(SubSeq(all, m, Len(all))) = Len(all) - m + 1
      <4>1. m \in Int /\ Len(all) \in Int /\ m <= Len(all)
        BY <1>4, <3>1
      <4>2. Len(SubSeq(all, m, Len(all))) = IF m <= Len(all) THEN Len(all) - m + 1 ELSE 0
        BY <3>3, <4>1, SubSeqProperties
      <4>3. QED
        BY <4>1, <4>2
    <3>5. Len(SubSeq(all, m, Len(all))) = 0
      <4>1. SubSeq(all, m, Len(all)) = << >>
        BY <2>1 DEF m
      <4>2. QED
        BY <4>1, EmptySeq
    <3>6. QED
      BY <1>4, <3>1, <3>4, <3>5
  <2>3. QED
    BY <1>1, <1>4, <2>2
<1>6. QED
  BY <1>3, <1>4, <1>5

(* The clip that was written, over the interval its samples span.          *)
StoredSpan(clip) ==
  [samples   |-> [i \in 1 .. Len(clip.samples) |-> StoredPose(clip.samples[i])],
   source    |-> clip.source,
   rate      |-> Written(clip.rate),
   startTime |-> Written(clip.samples[1].timestamp),
   endTime   |-> Written(clip.samples[Len(clip.samples)].timestamp)]

(* At the end of a written file every frame was finished.                  *)
LEMMA WriterEnds ==
  ASSUME WriterStands, file = << >>, version # 0, Finished # << >>
  PROVE  Assembled = StoredSpan(written)
<1> DEFINE h == Len(Named(written))
           n == Len(written.samples)
           starts == Starts(written)
           all == Emitted(written)
<1>1. IsClip(written) /\ lineNumber \in Nat
  BY WriterLineNumber DEF WriterStands
<1>2. h \in Nat /\ n \in Nat /\ starts \in [0 .. n -> Nat]
  BY <1>1, EmittedLines, FramesArePlaced DEF IsClip
<1>3. lineNumber >= Len(all) /\ Len(all) = h + 2 + starts[n]
  BY FileIsRead
<1>4. frame # None
  <2>1. CASE frame = None
    <3>1. samples = << >>
      <4>1. CASE InFrames
        <5>kk. PICK k \in 1 .. n : \E c \in 0 .. FieldCount(written, k) : InFrame(k, c)
          BY <4>1 DEF InFrames
        <5>1. PICK c \in 0 .. FieldCount(written, k) : InFrame(k, c)
          BY <5>kk
        <5>2. frame = BuilderAfter(written.samples[k], c)
              /\ Written(written.samples[k].timestamp) \in Time
          BY <5>1 DEF InFrame
        <5>3. IsPose(written.samples[k])
          BY <1>1 DEF IsClip
        <5>4. QED
          BY <2>1, <5>2, <5>3, BuilderIsAFrame DEF FieldCount
      <4>2. CASE ~InFrames
        BY <4>2 DEF WriterStands, BeforeMagic, InHeader, BeforeFrames
      <4>3. QED
        BY <4>1, <4>2
    <3>2. QED
      BY <2>1, <3>1 DEF Finished
  <2>2. QED
    BY <2>1
<1>5. InFrames
  BY <1>4 DEF WriterStands, BeforeMagic, InHeader, BeforeFrames
<1>kk. PICK k \in 1 .. n : \E c \in 0 .. FieldCount(written, k) : InFrame(k, c)
  BY <1>5 DEF InFrames
<1>6. PICK c \in 0 .. FieldCount(written, k) : InFrame(k, c)
  BY <1>kk
<1>7. k = n /\ c = FieldCount(written, k)
  <2> DEFINE count == FieldCount(written, k)
             s == starts[k - 1]
             t == starts[k]
             u == starts[n]
  <2>1. count \in Nat
    <3>1. IsPose(written.samples[k])
      BY <1>1 DEF IsClip
    <3>2. QED
      BY <3>1, CarriedLists DEF FieldCount
  <2>2. s \in Nat /\ t \in Nat /\ u \in Nat
    <3>1. k - 1 \in 0 .. n /\ k \in 0 .. n /\ n \in 0 .. n
      BY <1>2
    <3>2. QED
      BY <1>2, <3>1
  <2>3. t = s + count + 1 /\ t <= u
    BY <1>1, FramesArePlaced
  <2>4. lineNumber = h + 2 + s + 1 + c
    BY <1>6 DEF InFrame
  <2>5. k # n => t < u
    <3>1. SUFFICES ASSUME k # n PROVE t < u
      OBVIOUS
    <3> DEFINE more == FieldCount(written, k + 1)
               v == starts[k + 1]
    <3>2. k + 1 \in 1 .. n /\ (k + 1) - 1 = k /\ k + 1 \in 0 .. n
      BY <1>2, <3>1
    <3>3. starts[k + 1] = starts[(k + 1) - 1] + more + 1 /\ v <= u
      BY <1>1, <3>2, FramesArePlaced
    <3>4. more \in Nat
      <4>1. IsPose(written.samples[k + 1])
        BY <1>1, <3>2 DEF IsClip
      <4>2. QED
        BY <4>1, CarriedLists DEF FieldCount
    <3>5. v = t + more + 1
      BY <3>2, <3>3
    <3>6. v \in Nat
      BY <1>2, <3>2
    <3> HIDE DEF more, v, t, u
    <3>7. v <= u
      BY <3>3 DEF v, u
    <3>8. QED
      BY <2>2, <3>4, <3>5, <3>6, <3>7
  <2>6. c \in Nat /\ c <= count
    <3> HIDE DEF count
    <3>1. c \in 0 .. count
      BY DEF count
    <3>2. QED
      BY <2>1, <3>1
  <2>7. lineNumber >= h + 2 + u
    BY <1>3
  <2> HIDE DEF count, s, t, u, h
  <2>8. h \in Nat
    BY <1>2 DEF h
  <2>9. c = count /\ t = u
    BY <2>1, <2>2, <2>3, <2>4, <2>6, <2>7, <2>8
  <2>10. k = n
    BY <2>2, <2>5, <2>9
  <2>11. QED
    BY <2>9, <2>10 DEF count
<1>8. Finished = StoredUpTo(written, n) /\ n \in 1 .. n
  <2>1. n \in 1 .. Len(written.samples) /\ InFrame(n, FieldCount(written, n))
    BY <1>6, <1>7
  <2>2. QED
    BY <1>1, <1>4, <2>1, FrameFinishes
<1>9. source = written.source /\ frameRate = Written(written.rate)
  BY <1>6 DEF InFrame, HeaderIsRead
<1>10. frameRate # None
  BY <1>9, WrittenIsANumber, NoneIsNothing
<1>11. Len(Finished) = n /\ \A i \in 1 .. n : Finished[i] = StoredPose(written.samples[i])
  BY <1>2, <1>8 DEF StoredUpTo
<1>12. 1 \in 1 .. n
  BY <1>2, <1>8
<1>13. /\ Finished[1].timestamp = Written(written.samples[1].timestamp)
       /\ Finished[Len(Finished)].timestamp = Written(written.samples[n].timestamp)
  <2>1. \A i \in 1 .. n : Finished[i].timestamp = Written(written.samples[i].timestamp)
    <3> SUFFICES ASSUME NEW i \in 1 .. n
                 PROVE  Finished[i].timestamp = Written(written.samples[i].timestamp)
      OBVIOUS
    <3>1. Finished[i] = StoredPose(written.samples[i])
      BY <1>11
    <3> DEFINE pose == written.samples[i]
    <3> HIDE DEF pose
    <3>2. StoredPose(pose).timestamp = Written(pose.timestamp)
      BY DEF StoredPose
    <3>3. QED
      BY <3>1, <3>2 DEF pose
  <2> HIDE DEF n
  <2>2. QED
    BY <1>8, <1>11, <1>12, <2>1
<1>14. Finished = [i \in 1 .. Len(written.samples) |-> StoredPose(written.samples[i])]
  BY <1>8 DEF StoredUpTo
<1>15. QED
  BY <1>9, <1>10, <1>13, <1>14 DEF Assembled, StoredSpan

-----------------------------------------------------------------------------
(* The invariant.  A file somebody wrote by hand is read line by line as   *)
(* it comes, so nothing is left of it.                                     *)
Reading ==
  /\ ReaderTypeOK
  /\ FramesStand
  /\ origin = "hand" => file = << >>
  /\ origin = "writer" => WriterStands

TraceInv ==
  /\ outcome \in {"idle", "reading", "read", "failed"}
  /\ origin \in {"hand", "writer"}
  /\ outcome = "reading" => Reading
  /\ outcome = "read" => ClipStands /\ (origin = "writer" => animation = StoredSpan(written))
  /\ outcome # "read" => animation = None

LEMMA TraceInit ==
  ASSUME Init
  PROVE  TraceInv
BY DEF Init, TraceInv

LEMMA ReadingStarts ==
  ASSUME StartReading
  PROVE  ReaderTypeOK' /\ FramesStand'
<1>1. NoSource \in [HeaderKeys -> Texts]
  BY DEF NoSource, Texts
<1>2. << >> \in Seq(ReadPoses) /\ Len(<< >>) = 0
  BY EmptySeq
<1>3. ReaderTypeOK'
  BY <1>1, <1>2 DEF StartReading, ReaderTypeOK, FormatVersion
<1>4. samples' = << >> /\ Len(samples') = 0 /\ frame' = None
  BY <1>2 DEF StartReading
<1>5. QED
  BY <1>3, <1>4 DEF FramesStand, Ascending

LEMMA OpenByHandStep ==
  ASSUME OpenByHand, TraceInv
  PROVE  TraceInv'
<1>1. ReaderTypeOK' /\ FramesStand'
  BY ReadingStarts DEF OpenByHand
<1>2. outcome' = "reading" /\ origin' = "hand" /\ file' = << >> /\ animation' = None
  BY DEF OpenByHand, StartReading, TraceInv
<1>3. QED
  BY <1>1, <1>2 DEF TraceInv, Reading

LEMMA WriteAndReadStep ==
  ASSUME NEW clip, IsClip(clip), WriteAndRead(clip)
  PROVE  TraceInv'
<1>1. ReaderTypeOK' /\ FramesStand'
  BY ReadingStarts DEF WriteAndRead
<1>2. /\ Writable(clip) /\ StartReading /\ file' = Emitted(clip) /\ origin' = "writer"
      /\ animation' = None /\ written' = clip
  BY DEF WriteAndRead
<1>3. Emitted(clip) = SubSeq(Emitted(clip), 0 + 1, Len(Emitted(clip)))
  <2>1. Emitted(clip) \in Seq(WriterLines)
    BY EmittedLines
  <2>2. Emitted(clip) = SubSeq(Emitted(clip), 1, Len(Emitted(clip)))
    BY <2>1, SubSeqFull
  <2>3. 0 + 1 = 1
    OBVIOUS
  <2>4. QED
    BY <2>2, <2>3
<1>4. file' = SubSeq(Emitted(written'), lineNumber' + 1, Len(Emitted(written')))
  <2>1. lineNumber' = 0
    BY <1>2 DEF StartReading
  <2>2. QED
    BY <1>2, <1>3, <2>1
<1>5. BeforeMagic'
  BY <1>2 DEF StartReading, BeforeMagic
<1>6. WriterStands'
  BY <1>2, <1>4, <1>5 DEF WriterStands
<1>7. outcome' = "reading"
  BY <1>2 DEF StartReading
<1>8. QED
  BY <1>1, <1>2, <1>6, <1>7 DEF TraceInv, Reading

LEMMA ReadClipIsAClip ==
  ASSUME ClipStands
  PROVE  IsClip(animation)
<1>1. animation.samples \in Seq(ReadPoses) /\ animation.source \in [HeaderKeys -> Texts]
  BY DEF ClipStands, ReadClips
<1>2. Len(animation.samples) \in Nat
  BY <1>1, LenProperties
<1>3. ASSUME NEW i \in 1 .. Len(animation.samples)
      PROVE  IsPose(animation.samples[i])
  <2> DEFINE pose == animation.samples[i]
  <2>1. pose \in ReadPoses
    BY <1>1, ElementOfSeq
  <2>2. IsFiniteSet(DOMAIN pose.fields)
    BY DEF ClipStands, IsContent
  <2> HIDE DEF pose
  <2>3. pose.fields \in Fields /\ pose.confidence \in [Joints -> Scores] \cup {None}
    BY <2>1 DEF ReadPoses
  <2>4. DOMAIN pose.fields \subseteq Field /\ pose.fields \in [DOMAIN pose.fields -> Values]
    BY <2>3 DEF Fields
  <2>5. IsPose(pose)
    BY <2>2, <2>3, <2>4 DEF IsPose
  <2>6. QED
    BY <2>5 DEF pose
<1>4. QED
  BY <1>1, <1>2, <1>3 DEF IsClip

LEMMA ProduceStep ==
  ASSUME Produce
  PROVE  TraceInv'
BY ClipsAssumption, WriteAndReadStep DEF Produce

LEMMA NormalizeStep ==
  ASSUME Normalize, TraceInv
  PROVE  TraceInv'
BY ReadClipIsAClip, WriteAndReadStep DEF Normalize, TraceInv

LEMMA ReadHandLineStep ==
  ASSUME ReadHandLine, TraceInv
  PROVE  TraceInv'
<1>1. PICK line \in HandLines : ReadLine(line)
  BY DEF ReadHandLine
<1>2. IsLine(line)
  BY HandLinesAssumption DEF IsLine
<1>3. /\ outcome = "reading" /\ origin = "hand" /\ UNCHANGED <<file, origin, animation>>
      /\ animation = None
  BY <1>1 DEF ReadHandLine, ReadLine, TraceInv
<1>4. ReaderTypeOK /\ FramesStand /\ file = << >>
  BY <1>3 DEF TraceInv, Reading
<1>5. /\ outcome' \in {"reading", "failed"}
      /\ outcome' = "reading" => ReaderTypeOK' /\ FramesStand'
  BY <1>1, <1>2, <1>3, <1>4, ReadLineStands
<1>6. QED
  BY <1>3, <1>4, <1>5 DEF TraceInv, Reading

LEMMA ReadWrittenLineStep ==
  ASSUME ReadWrittenLine, TraceInv
  PROVE  TraceInv'
<1>1. /\ outcome = "reading" /\ origin = "writer" /\ file # << >>
      /\ ReadLine(Head(file)) /\ file' = Tail(file)
  BY DEF ReadWrittenLine
<1>2. ReaderTypeOK /\ FramesStand /\ WriterStands
  BY <1>1 DEF TraceInv, Reading
<1>3. UNCHANGED <<origin, animation>> /\ animation = None
  BY <1>1 DEF ReadLine, TraceInv
<1>4. IsLine(Head(file))
  BY <1>1, <1>2, WriterLineNumber, RestOfFile, WriterLinesAreLines DEF WriterStands
<1>5. /\ outcome' \in {"reading", "failed"}
      /\ outcome' = "reading" => ReaderTypeOK' /\ FramesStand'
  BY <1>1, <1>2, <1>4, ReadLineStands
<1>6. outcome' = "reading" => WriterStands'
  BY <1>1, <1>2, WriterStep
<1>7. QED
  BY <1>1, <1>3, <1>5, <1>6 DEF TraceInv, Reading

LEMMA DerivedRateIsANumber ==
  ASSUME NEW clip \in Seq(ReadPoses), clip # << >>
  PROVE  DerivedRate(clip) \in Int
<1> DEFINE n == Len(clip)
           span == Minus(clip[n].timestamp, clip[1].timestamp)
           number == ((n - 1) * Second) \div span
<1>1. n \in Nat \ {0}
  BY EmptySeq
<1>2. Second \in Int /\ DefaultRate \in Int
  BY TraceAssumption
<1>3. span \in Int
  <2>1. clip[n] \in ReadPoses /\ clip[1] \in ReadPoses
    <3>1. n \in 1 .. Len(clip) /\ 1 \in 1 .. Len(clip)
      BY <1>1
    <3>2. QED
      BY <3>1, ElementOfSeq
  <2> DEFINE a == clip[n].timestamp
             b == clip[1].timestamp
  <2>2. a \in Int /\ b \in Int
    BY <2>1, TimeAssumption DEF ReadPoses, Time
  <2> HIDE DEF a, b
  <2>3. Minus(a, b) \in Int
    BY <2>2, TimeAssumption DEF Minus, Finite, IsFinite, NonFinite
  <2>4. QED
    BY <2>3 DEF a, b
<1>4. DerivedRate(clip) = CASE span <= 0        -> DefaultRate
                            [] span = NonFinite -> 0
                            [] OTHER            -> Finite(number)
  BY DEF DerivedRate
<1>5. ASSUME NEW m
      PROVE  Finite(m) \in Int
  BY TimeAssumption DEF Finite, IsFinite, Time, NonFinite
<1>6. NonFinite > 0
  BY TimeAssumption DEF NonFinite
<1> HIDE DEF span, number
<1>7. CASE span <= 0
  <2>1. span # NonFinite
    BY <1>3, <1>6, <1>7, TimeAssumption DEF NonFinite
  <2>2. DerivedRate(clip) = DefaultRate
    BY <1>4, <1>7, <2>1
  <2>3. QED
    BY <1>2, <2>2
<1>8. CASE ~(span <= 0) /\ span = NonFinite
  BY <1>4, <1>8
<1>9. CASE ~(span <= 0) /\ span # NonFinite
  <2>1. DerivedRate(clip) = Finite(number)
    BY <1>4, <1>9
  <2>2. QED
    BY <1>5, <2>1
<1>10. QED
  BY <1>7, <1>8, <1>9

LEMMA AssembledStands ==
  ASSUME ReaderTypeOK, FramesStand, Finished # << >>,
         animation' = Assembled, version' = version
  PROVE  ClipStands'
<1> DEFINE all == Finished
           n == Len(all)
           rate == IF frameRate # None THEN frameRate ELSE DerivedRate(all)
<1>1. /\ all \in Seq(ReadPoses)
      /\ Ascending(all)
      /\ \A i \in 1 .. n : IsContent(all[i].fields, version)
  BY FinishedStands
<1>2. n \in Nat \ {0} /\ 1 \in 1 .. n /\ n \in 1 .. n
  BY <1>1, EmptySeq
<1>3. all[1].timestamp \in Time /\ all[n].timestamp \in Time
  <2>1. all[1] \in ReadPoses /\ all[n] \in ReadPoses
    BY <1>1, <1>2, ElementOfSeq
  <2>2. QED
    BY <2>1 DEF ReadPoses
<1>4. rate \in Int
  BY <1>1, DerivedRateIsANumber DEF ReaderTypeOK
<1>5. animation' = [samples |-> all, source |-> source, rate |-> rate,
                    startTime |-> all[1].timestamp, endTime |-> all[n].timestamp]
  BY DEF Assembled
<1>6. source \in [HeaderKeys -> Texts] /\ all # << >>
  BY DEF ReaderTypeOK
<1> HIDE DEF all, rate
<1>7. animation' \in ReadClips
  BY <1>1, <1>3, <1>4, <1>5, <1>6 DEF ReadClips
<1>8. /\ animation'.samples = all
      /\ animation'.startTime = all[1].timestamp
      /\ animation'.endTime = all[n].timestamp
  BY <1>5
<1>9. QED
  BY <1>1, <1>6, <1>7, <1>8 DEF ClipStands

LEMMA CloseStep ==
  ASSUME Close, TraceInv
  PROVE  TraceInv'
<1>1. outcome = "reading" /\ file = << >> /\ EndOfFile
  BY DEF Close
<1>2. ReaderTypeOK /\ FramesStand /\ (origin = "writer" => WriterStands) /\ animation = None
  BY <1>1 DEF TraceInv, Reading
<1>3. UNCHANGED <<origin, version, written>> /\ origin \in {"hand", "writer"}
  BY <1>1 DEF EndOfFile, locals, TraceInv
<1>4. CASE version = 0 \/ Finished = << >>
  BY <1>1, <1>2, <1>3, <1>4 DEF EndOfFile, TraceInv
<1>5. CASE ~(version = 0 \/ Finished = << >>)
  <2>1. outcome' = "read" /\ animation' = Assembled
    BY <1>1, <1>5 DEF EndOfFile
  <2>2. ClipStands'
    BY <1>2, <1>3, <1>5, <2>1, AssembledStands
  <2>3. origin' = "writer" => animation' = StoredSpan(written')
    <3>1. SUFFICES ASSUME origin = "writer" PROVE Assembled = StoredSpan(written)
      BY <1>3, <2>1
    <3>2. QED
      BY <1>1, <1>2, <1>5, <3>1, WriterEnds
  <2>4. QED
    BY <1>3, <2>1, <2>2, <2>3 DEF TraceInv
<1>6. QED
  BY <1>4, <1>5

LEMMA TraceStep ==
  ASSUME TraceInv, [Next]_traceVars
  PROVE  TraceInv'
<1>1. CASE Next
  BY <1>1, OpenByHandStep, ProduceStep, NormalizeStep, ReadHandLineStep,
     ReadWrittenLineStep, CloseStep DEF Next
<1>2. CASE UNCHANGED traceVars
  BY <1>2 DEF traceVars, locals, TraceInv, Reading, ReaderTypeOK, FramesStand, Ascending,
     ClipStands, WriterStands, BeforeMagic, InHeader, BeforeFrames, InFrames, InFrame,
     HeaderIsRead
<1>3. QED
  BY <1>1, <1>2

-----------------------------------------------------------------------------
(* In every state: the caller has a clip exactly after a read that reached *)
(* the end of its file, and that clip has frames at finite, increasing     *)
(* instants that span it (CaptureTrace.h:134).                             *)
THEOREM TraceReadsOnlyClips == Spec => []ReadClipIsATrace
<1>1. TraceInv => ReadClipIsATrace
  <2> SUFFICES ASSUME TraceInv PROVE ReadClipIsATrace
    OBVIOUS
  <2>1. animation # None <=> outcome = "read"
    BY NoneIsNothing DEF TraceInv, ClipStands
  <2>2. ASSUME outcome = "read"
        PROVE  /\ animation.samples # << >>
               /\ \A i \in 1 .. Len(animation.samples) :
                    /\ IsFinite(animation.samples[i].timestamp)
                    /\ \A k \in 1 .. i - 1 :
                         animation.samples[k].timestamp < animation.samples[i].timestamp
               /\ animation.startTime = animation.samples[1].timestamp
               /\ animation.endTime = animation.samples[Len(animation.samples)].timestamp
    <3>1. ClipStands
      BY <2>2 DEF TraceInv
    <3>2. animation.samples \in Seq(ReadPoses)
      BY <3>1 DEF ClipStands, ReadClips
    <3>3. ASSUME NEW i \in 1 .. Len(animation.samples)
          PROVE  IsFinite(animation.samples[i].timestamp)
      <4>1. animation.samples[i] \in ReadPoses
        BY <3>2, ElementOfSeq
      <4>2. QED
        BY <4>1 DEF ReadPoses, IsFinite
    <3>4. QED
      BY <3>1, <3>3 DEF ClipStands, Ascending
  <2>3. QED
    BY <2>1, <2>2 DEF ReadClipIsATrace
<1>2. QED
  BY <1>1, TraceInit, TraceStep, PTL DEF Spec

(* In every state: nothing in a clip that was read is newer than the       *)
(* version its file declared (CaptureTrace.h:81).                          *)
THEOREM TraceVersionIsAClaim == Spec => []VersionClaimsContent
<1>1. TraceInv => VersionClaimsContent
  BY DEF TraceInv, ClipStands, IsContent, VersionClaimsContent
<1>2. QED
  BY <1>1, TraceInit, TraceStep, PTL DEF Spec

(* In every state: a written file that was read gave back what was written *)
(* at the precision of the format, whatever the clip (CaptureTrace.h:148): *)
(* its samples, source and rate always, its interval when that is the one  *)
(* its samples span, and the samples' span in place of any other.          *)
THEOREM TraceReadsBack == Spec => []ReadsBackButForItsInterval
<1>1. TraceInv => ReadsBackButForItsInterval
  <2> SUFFICES ASSUME TraceInv, outcome = "read", origin = "writer"
               PROVE  /\ animation = [Stored(written) EXCEPT !.startTime = animation.startTime,
                                                             !.endTime   = animation.endTime]
                      /\ DeclaresItsSpan(written) => animation = Stored(written)
    BY DEF ReadsBackButForItsInterval
  <2> DEFINE kept == [i \in 1 .. Len(written.samples) |-> StoredPose(written.samples[i])]
             rate == Written(written.rate)
             first == Written(written.samples[1].timestamp)
             last == Written(written.samples[Len(written.samples)].timestamp)
             start == Written(written.startTime)
             end == Written(written.endTime)
  <2>1. animation = [samples |-> kept, source |-> written.source, rate |-> rate,
                     startTime |-> first, endTime |-> last]
    BY DEF TraceInv, StoredSpan
  <2>2. Stored(written) = [samples |-> kept, source |-> written.source, rate |-> rate,
                           startTime |-> start, endTime |-> end]
    BY DEF Stored
  <2>3. DeclaresItsSpan(written) => start = first /\ end = last
    BY DEF DeclaresItsSpan
  <2> HIDE DEF kept, rate, first, last, start, end
  <2>4. animation.startTime = first /\ animation.endTime = last
    BY <2>1
  <2>5. [Stored(written) EXCEPT !.startTime = first, !.endTime = last]
          = [samples |-> kept, source |-> written.source, rate |-> rate,
             startTime |-> first, endTime |-> last]
    <3>1. [[samples |-> kept, source |-> written.source, rate |-> rate,
            startTime |-> start, endTime |-> end] EXCEPT !.startTime = first]
            = [samples |-> kept, source |-> written.source, rate |-> rate,
               startTime |-> first, endTime |-> end]
      OBVIOUS
    <3>2. [[samples |-> kept, source |-> written.source, rate |-> rate,
            startTime |-> first, endTime |-> end] EXCEPT !.endTime = last]
            = [samples |-> kept, source |-> written.source, rate |-> rate,
               startTime |-> first, endTime |-> last]
      OBVIOUS
    <3>3. QED
      BY <2>2, <3>1, <3>2
  <2>6. animation = [Stored(written) EXCEPT !.startTime = animation.startTime,
                                            !.endTime   = animation.endTime]
    BY <2>1, <2>4, <2>5
  <2>7. DeclaresItsSpan(written) => animation = Stored(written)
    BY <2>1, <2>2, <2>3
  <2>8. QED
    BY <2>6, <2>7
<1>2. QED
  BY <1>1, TraceInit, TraceStep, PTL DEF Spec

-----------------------------------------------------------------------------
(* What the format can spell the reader does not refuse.                   *)

(* In the header: a name that is not empty, or the rate.                   *)
LEMMA HeaderIsNext ==
  ASSUME IsClip(written), InHeader
  PROVE  \/ \E key \in HeaderKeys :
              /\ Emitted(written)[lineNumber + 1]
                   = SubjectLine("header", <<"header", key>>, written.source[key], None)
              /\ written.source[key] # ""
         \/ Emitted(written)[lineNumber + 1] = NumberLine("frameRate", Written(written.rate))
<1> DEFINE h == Len(Named(written))
<1>1. h \in Nat
  BY EmittedLines
<1>2. PICK i \in 0 .. h : lineNumber = i + 1
  BY DEF InHeader
<1>3. lineNumber + 1 = i + 2 /\ i + 2 \in 1 .. h + 2 /\ (i = h \/ (i + 1 \in 1 .. h /\ i + 2 = (i + 1) + 1))
  BY <1>1, <1>2
<1>4. Emitted(written)[lineNumber + 1] = HeaderLines(written)[i + 2]
  BY <1>3, EmittedLines
<1>5. CASE i = h
  BY <1>4, <1>5, HeaderLinesAre
<1>6. CASE i # h
  <2> DEFINE key == Named(written)[i + 1]
  <2>1. i + 1 \in 1 .. h /\ i + 2 = (i + 1) + 1
    BY <1>3, <1>6
  <2>2. key \in HeaderKeys /\ written.source[key] # ""
    BY <2>1, NamedLists
  <2>3. HeaderLines(written)[(i + 1) + 1] = SubjectLine("header", <<"header", key>>, written.source[key], None)
    BY <2>1, HeaderLinesAre
  <2> HIDE DEF key
  <2> QED
    BY <1>4, <2>1, <2>2, <2>3
<1> QED
  BY <1>5, <1>6

(* The instant of the next frame is finite and past the one before it.     *)
LEMMA NextTimeIsAccepted ==
  ASSUME Spellable(written), NEW k, k + 1 \in 1 .. Len(written.samples), k \in Nat, version = FormatVersion,
         \/ frame = None
         \/ k >= 1 /\ frame.timestamp = Written(written.samples[k].timestamp)
  PROVE  Accepts(NumberLine("t", Written(written.samples[k + 1].timestamp)))
<1> DEFINE time == Written(written.samples[k + 1].timestamp)
           line == NumberLine("t", time)
<1>1. IsFinite(time) /\ (k + 1 > 1 => Written(written.samples[(k + 1) - 1].timestamp) < time)
  BY DEF Spellable
<1>2. line.key = "t" /\ line.number = time /\ line.wellFormed
  BY DEF NumberLine
<1>3. frame # None => time > frame.timestamp
  <2> SUFFICES ASSUME frame # None PROVE time > frame.timestamp
    OBVIOUS
  <2>1. k + 1 > 1 /\ (k + 1) - 1 = k /\ frame.timestamp = Written(written.samples[k].timestamp)
    OBVIOUS
  <2>2. Written(written.samples[k].timestamp) < time
    BY <1>1, <2>1
  <2> HIDE DEF time
  <2> QED
    BY <2>1, <2>2
<1> HIDE DEF time, line
<1>4. AcceptsTime(line)
  BY <1>1, <1>2, <1>3 DEF AcceptsTime
<1>5. version # 0
  BY DEF FormatVersion
<1>6. Accepts(line)
  BY <1>2, <1>4, <1>5 DEF Accepts
<1> QED
  BY <1>6 DEF line, time

(* A field of an open frame is one the reader takes, and is new to it.     *)
LEMMA NextFieldIsAccepted ==
  ASSUME IsClip(written), Spellable(written), NEW k \in 1 .. Len(written.samples),
         NEW c \in Nat, c < FieldCount(written, k), InFrame(k, c), frame # None
  PROVE  Accepts(FieldLine(written.samples[k], Carried(written.samples[k])[c + 1]))
<1> DEFINE pose == written.samples[k]
           field == Carried(pose)[c + 1]
           line == FieldLine(pose, field)
<1>1. IsPose(pose) /\ \A f \in DOMAIN pose.fields :
        /\ pose.fields[f] = "good"
        /\ f[1] = "b" /\ pose.confidence # None => pose.confidence[f[2]] # "out"
  BY DEF IsClip, Spellable
<1>2. frame = BuilderAfter(pose, c) /\ version = FormatVersion
  BY DEF InFrame, HeaderIsRead
<1>3. FieldCount(written, k) = Len(Carried(pose))
  BY DEF FieldCount
<1> HIDE DEF pose
<1>4. Len(Carried(pose)) \in Nat /\ c < Len(Carried(pose)) /\ c + 1 \in 1 .. Len(Carried(pose))
  BY <1>1, <1>3, CarriedLists
<1>5. field \in DOMAIN pose.fields /\ field \in Field
  BY <1>1, <1>4, CarriedLists
<1>6. field \notin Given(pose, c)
  <2> SUFFICES ASSUME NEW i \in 1 .. c, Carried(pose)[i] = field PROVE FALSE
    BY DEF Given
  <2>1. i \in 1 .. Len(Carried(pose)) /\ i # c + 1
    BY <1>4
  <2> QED
    BY <1>1, <1>4, <2>1, CarriedLists
<1>7. DOMAIN frame.fields = Given(pose, c)
  BY <1>2 DEF BuilderAfter
<1> HIDE DEF field
<1>8. /\ line.key = "field" /\ line.subject = field /\ line.value = "good" /\ line.wellFormed
      /\ line.score # "out"
  <2>1. line.score = IF field[1] = "b" /\ pose.confidence # None THEN pose.confidence[field[2]] ELSE None
    BY DEF FieldLine, SubjectLine
  <2>2. line.score # "out"
    BY <1>1, <1>5, <2>1, NoneIsNothing DEF Scores
  <2> QED
    BY <1>1, <1>5, <2>2 DEF FieldLine, SubjectLine
<1> HIDE DEF line
<1>9. Since(field) <= version
  BY <1>2 DEF Since, FormatVersion
<1>10. version # 0 /\ version \in Nat /\ Since(field) \in Nat
  BY <1>2, SinceIsNatural DEF FormatVersion
<1>11. AcceptsField(line)
  BY <1>6, <1>7, <1>8, <1>9, <1>10 DEF AcceptsField
<1>12. Accepts(line)
  BY <1>8, <1>10, <1>11 DEF Accepts
<1> QED
  BY <1>12 DEF line, field, pose

LEMMA NextLineIsAccepted ==
  ASSUME WriterStands, Spellable(written), file # << >>
  PROVE  Accepts(Head(file))
<1> DEFINE line == Emitted(written)[lineNumber + 1]
           h == Len(Named(written))
           n == Len(written.samples)
<1>1. /\ IsClip(written) /\ lineNumber \in Nat
      /\ file = SubSeq(Emitted(written), lineNumber + 1, Len(Emitted(written)))
  BY WriterLineNumber DEF WriterStands
<1>2. lineNumber + 1 \in 1 .. Len(Emitted(written)) /\ Head(file) = line
  BY <1>1, RestOfFile
<1>3. h \in Nat /\ n \in Nat
  BY <1>1, NamedLists DEF IsClip
<1> SUFFICES Accepts(line)
  BY <1>2
<1>4. CASE BeforeMagic
  <2>1. 1 \in 1 .. h + 2 /\ lineNumber + 1 = 1
    BY <1>3, <1>4 DEF BeforeMagic
  <2>2. line = NumberLine("magic", FormatVersion)
    BY <1>1, <2>1, EmittedLines, HeaderLinesAre
  <2> HIDE DEF line
  <2>3. line.key = "magic" /\ line.number = FormatVersion /\ line.wellFormed
    BY <2>2 DEF NumberLine
  <2> QED
    BY <1>4, <2>3 DEF BeforeMagic, Accepts, AcceptsMagic, FormatVersion
<1>5. CASE InHeader
  <2>1. version = FormatVersion /\ frame = None
    BY <1>5 DEF InHeader
  <2>2. CASE \E key \in HeaderKeys :
               /\ line = SubjectLine("header", <<"header", key>>, written.source[key], None)
               /\ written.source[key] # ""
    <3>1. PICK key \in HeaderKeys :
            /\ line = SubjectLine("header", <<"header", key>>, written.source[key], None)
            /\ written.source[key] # ""
      BY <2>2
    <3> HIDE DEF line
    <3>2. line.key = "header" /\ line.value # "" /\ line.wellFormed
      BY <3>1 DEF SubjectLine
    <3>3. AcceptsHeader(line)
      BY <3>2 DEF AcceptsHeader
    <3>4. version # 0 /\ frame = None
      BY <2>1 DEF FormatVersion
    <3>5. line.key # "t"
      BY <3>2
    <3> QED
      BY <3>2, <3>3, <3>4, <3>5 DEF Accepts
  <2>3. CASE line = NumberLine("frameRate", Written(written.rate))
    <3> HIDE DEF line
    <3>1. line.key = "frameRate" /\ line.number = Written(written.rate) /\ line.wellFormed
      BY <2>3 DEF NumberLine
    <3>2. AcceptsHeader(line)
      BY <3>1 DEF AcceptsHeader, Spellable
    <3>3. version # 0 /\ line.key # "t" /\ frame = None
      BY <2>1, <3>1 DEF FormatVersion
    <3> QED
      BY <3>1, <3>2, <3>3 DEF Accepts
  <2> QED
    BY <1>1, <1>5, <2>2, <2>3, HeaderIsNext
<1>6. CASE BeforeFrames
  <2>1. Starts(written)[0] = 0 /\ 0 \in 0 .. n /\ version = FormatVersion /\ frame = None /\ lineNumber = h + 2
    BY <1>1, <1>3, <1>6, FramesArePlaced DEF BeforeFrames, HeaderIsRead
  <2>2. lineNumber = h + 2 + Starts(written)[0]
    BY <1>3, <2>1
  <2>3. 0 + 1 \in 1 .. n /\ line = NumberLine("t", Written(written.samples[0 + 1].timestamp))
    BY <1>1, <1>2, <2>1, <2>2, FrameIsNext
  <2>4. Accepts(NumberLine("t", Written(written.samples[0 + 1].timestamp)))
    BY <2>1, <2>3, NextTimeIsAccepted
  <2> QED
    BY <2>3, <2>4
<1>7. CASE InFrames
  <2>1. PICK k \in 1 .. n : \E c \in 0 .. FieldCount(written, k) : InFrame(k, c)
    BY <1>7 DEF InFrames
  <2>2. PICK c \in 0 .. FieldCount(written, k) : InFrame(k, c)
    BY <2>1
  <2>3. /\ IsPose(written.samples[k]) /\ FieldCount(written, k) \in Nat
        /\ FieldCount(written, k) = Len(Carried(written.samples[k]))
    BY <1>1, CarriedLists DEF IsClip, FieldCount
  <2>4. /\ version = FormatVersion /\ frame = BuilderAfter(written.samples[k], c)
        /\ Written(written.samples[k].timestamp) \in Time
    BY <2>2 DEF InFrame, HeaderIsRead
  <2>5. frame # None /\ frame.timestamp = Written(written.samples[k].timestamp)
    BY <2>3, <2>4, BuilderIsAFrame DEF BuilderAfter
  <2>6. CASE c = FieldCount(written, k)
    <3>1. lineNumber = h + 2 + Starts(written)[k]
      BY <1>1, <2>2, <2>5, <2>6, FrameFinishes
    <3>2. k \in 0 .. n /\ k \in Nat /\ k >= 1
      BY <1>3
    <3>3. k + 1 \in 1 .. n /\ line = NumberLine("t", Written(written.samples[k + 1].timestamp))
      BY <1>1, <1>2, <3>1, <3>2, FrameIsNext
    <3>4. Accepts(NumberLine("t", Written(written.samples[k + 1].timestamp)))
      BY <2>4, <2>5, <3>2, <3>3, NextTimeIsAccepted
    <3> QED
      BY <3>3, <3>4
  <2>7. CASE c # FieldCount(written, k)
    <3>1. c \in Nat /\ c < FieldCount(written, k)
      BY <2>3, <2>7
    <3>2. line = FieldLine(written.samples[k], Carried(written.samples[k])[c + 1])
      BY <1>1, <2>2, <3>1, FieldIsNext
    <3>3. Accepts(FieldLine(written.samples[k], Carried(written.samples[k])[c + 1]))
      BY <1>1, <2>2, <2>5, <3>1, NextFieldIsAccepted
    <3> QED
      BY <3>2, <3>3
  <2> QED
    BY <2>6, <2>7
<1> QED
  BY <1>4, <1>5, <1>6, <1>7 DEF WriterStands

(* Nor does it refuse the file as a whole.                                 *)
LEMMA SpelledFileHasAFrame ==
  ASSUME WriterStands, Spellable(written), file = << >>
  PROVE  version # 0 /\ Finished # << >>
<1> DEFINE h == Len(Named(written))
           n == Len(written.samples)
           starts == Starts(written)
           s == starts[n - 1]
           t == starts[n]
<1>1. IsClip(written) /\ lineNumber \in Nat
  BY WriterLineNumber DEF WriterStands
<1>2. h \in Nat /\ n \in Nat /\ starts \in [0 .. n -> Nat]
  BY <1>1, EmittedLines, FramesArePlaced DEF IsClip
<1>3. frame # None
  <2> SUFFICES ASSUME frame = None PROVE FALSE
    OBVIOUS
  <2>1. ~InFrames
    <3> SUFFICES ASSUME InFrames PROVE FALSE
      OBVIOUS
    <3>1. PICK k \in 1 .. n : \E c \in 0 .. FieldCount(written, k) : InFrame(k, c)
      BY DEF InFrames
    <3>2. PICK c \in 0 .. FieldCount(written, k) : InFrame(k, c)
      BY <3>1
    <3>3. frame = BuilderAfter(written.samples[k], c) /\ Written(written.samples[k].timestamp) \in Time
      BY <3>2 DEF InFrame
    <3>4. IsPose(written.samples[k])
      BY <1>1 DEF IsClip
    <3> QED
      BY <3>3, <3>4, BuilderIsAFrame DEF FieldCount
  <2>2. lineNumber <= h + 2
    BY <1>2, <2>1 DEF WriterStands, BeforeMagic, InHeader, BeforeFrames
  <2>3. lineNumber >= h + 2 + t
    BY FileIsRead
  <2>4. n # 0
    BY DEF Spellable
  <2>5. n \in 1 .. n /\ n - 1 \in 0 .. n /\ n \in 0 .. n
    BY <1>2, <2>4
  <2>6. s \in Nat /\ t \in Nat
    BY <1>2, <2>5
  <2>7. FieldCount(written, n) \in Nat
    BY <1>1, <2>5, CarriedLists DEF IsClip, FieldCount
  <2>8. t = s + FieldCount(written, n) + 1
    BY <1>1, <2>5, FramesArePlaced
  <2> HIDE DEF s, t, h
  <2> QED
    BY <1>1, <1>2, <2>2, <2>3, <2>6, <2>7, <2>8 DEF h
<1>4. InFrames
  BY <1>3 DEF WriterStands, BeforeMagic, InHeader, BeforeFrames
<1>5. version = FormatVersion
  BY <1>4 DEF InFrames, InFrame, HeaderIsRead
<1>6. Finished # << >>
  <2>1. samples \in Seq(Range(samples))
    <3>1. PICK k \in 1 .. n : samples = StoredUpTo(written, k - 1)
      BY <1>4 DEF InFrames, InFrame
    <3>2. StoredUpTo(written, k - 1) = [i \in 1 .. k - 1 |-> StoredPose(written.samples[i])] /\ k - 1 \in Nat
      BY <1>2 DEF StoredUpTo
    <3> QED
      BY <3>1, <3>2 DEF Range
  <2>2. Len(Append(samples, Build(frame))) = Len(samples) + 1 /\ Len(samples) \in Nat
    BY <2>1
  <2>3. Len(<< >>) = 0
    OBVIOUS
  <2> QED
    BY <1>3, <2>2, <2>3 DEF Finished
<1> QED
  BY <1>5, <1>6 DEF FormatVersion

(* A file that the reader refused is not that of a clip the format can     *)
(* spell.                                                                  *)
SpellableIsNeverRefused ==
  origin = "writer" /\ outcome = "failed" => ~Spellable(written)

(* In every state: the file of a clip that the format can spell was not    *)
(* refused by the reader, at any line or at its end, whatever the clip     *)
(* (CaptureTrace.h:90).  SpellableIsReadBack adds that the reading ends.   *)
THEOREM TraceRefusesNothingSpelled == Spec => []SpellableIsNeverRefused
<1>1. Init => SpellableIsNeverRefused
  BY DEF Init, SpellableIsNeverRefused
<1>2. ASSUME TraceInv, SpellableIsNeverRefused, [Next]_traceVars
      PROVE  SpellableIsNeverRefused'
  <2>1. CASE OpenByHand \/ Produce \/ Normalize
    BY <2>1 DEF OpenByHand, Produce, Normalize, WriteAndRead, StartReading, SpellableIsNeverRefused
  <2>2. CASE ReadHandLine
    BY <2>2 DEF ReadHandLine, ReadLine, SpellableIsNeverRefused
  <2>3. CASE ReadWrittenLine
    <3>1. /\ outcome = "reading" /\ origin = "writer" /\ file # << >> /\ ReadLine(Head(file))
          /\ UNCHANGED written
      BY <2>3 DEF ReadWrittenLine, ReadLine
    <3>2. WriterStands
      BY <1>2, <3>1 DEF TraceInv, Reading
    <3>3. Spellable(written) => outcome' # "failed"
      BY <3>1, <3>2, NextLineIsAccepted DEF ReadLine
    <3>4. Spellable(written') <=> Spellable(written)
      BY <3>1
    <3> QED
      BY <3>3, <3>4 DEF SpellableIsNeverRefused
  <2>4. CASE Close
    <3>1. /\ outcome = "reading" /\ file = << >> /\ UNCHANGED <<origin, written>>
          /\ outcome' = "failed" => version = 0 \/ Finished = << >>
      BY <2>4 DEF Close, EndOfFile
    <3>2. origin = "writer" => WriterStands
      BY <1>2, <3>1 DEF TraceInv, Reading
    <3>3. Spellable(written') <=> Spellable(written)
      BY <3>1
    <3> QED
      BY <3>1, <3>2, <3>3, SpelledFileHasAFrame DEF SpellableIsNeverRefused
  <2>5. CASE UNCHANGED traceVars
    BY <1>2, <2>5 DEF traceVars, SpellableIsNeverRefused
  <2> QED
    BY <1>2, <2>1, <2>2, <2>3, <2>4, <2>5 DEF Next
<1> QED
  BY <1>1, <1>2, TraceInit, TraceStep, PTL DEF Spec
=============================================================================

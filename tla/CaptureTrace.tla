---------------------------- MODULE CaptureTrace ----------------------------
(***************************************************************************)
(* CaptureTrace.cpp (libs/motionRecording): the text format a capture      *)
(* session is recorded in.  ReadCaptureTrace takes a file line by line and *)
(* fails at the first line it does not accept; WriteCaptureTrace emits a   *)
(* clip with six decimals.  motion_record --normalize does one after the   *)
(* other.                                                                  *)
(*                                                                         *)
(* A frame is a partial function from fields to what was written in them.  *)
(* Text is abstract: an operand is good when the reader can take it for    *)
(* what it should be (a finite vector, a unit rotation), and a line is     *)
(* well formed when its operands are all there and nothing follows them.   *)
(***************************************************************************)
EXTENDS MotionTime, SequencesExt

CONSTANTS
  Joints,        \* the joint names
  RootFields,    \* the fields of a root line
  Channels,      \* the channel names a producer may use
  Spaced,        \* the ones that are empty or carry whitespace
  HeaderKeys,    \* provider, protocol, sourceId
  Quantum,       \* the sixth decimal, in grid steps
  Second,        \* one second, in grid steps: it scales a derived frame rate
  DefaultRate,   \* 30 Hz
  HandLines,     \* the lines a hand-written trace may hold (see Line)
  Clips,         \* the clips a producer may write (see Clip)
  MaxLines,      \* bound: lines of a hand-written trace
  None           \* std::nullopt, or no clip

ASSUME TraceAssumption ==
  /\ Quantum \in Nat \ {0}
  /\ Second \in Nat \ {0}
  /\ DefaultRate \in Nat \ {0}
  /\ MaxLines \in Nat
  /\ Spaced \subseteq Channels
  /\ IsFiniteSet(HeaderKeys)

FormatVersion == 4

LookAt     == <<"frame", "lookat">>
Contacts   == <<"frame", "contacts">>
Sequence   == <<"frame", "sequence">>
SourceTime == <<"frame", "sourceTime">>

Field ==
  ({"b"} \X Joints) \cup ({"root"} \X RootFields) \cup ({"e"} \X Channels)
    \cup {LookAt, Contacts, Sequence, SourceTime}

Values == {"good", "bad"}
Fields == UNION {[carried -> Values] : carried \in SUBSET Field}
Scores == {"zero", "half", "one", "out"}
Texts  == {"", "plain", "padded", "broken"}

(* What a frame, read or to be written, can carry.                         *)
IsPose(pose) ==
  /\ pose.fields \in [DOMAIN pose.fields -> Values]
  /\ DOMAIN pose.fields \subseteq Field
  /\ IsFiniteSet(DOMAIN pose.fields)
  /\ pose.confidence \in [Joints -> Scores] \cup {None}

IsClip(clip) ==
  /\ Len(clip.samples) \in Nat
  /\ \A i \in 1 .. Len(clip.samples) : IsPose(clip.samples[i])
  /\ clip.source \in [HeaderKeys -> Texts]

ASSUME ClipsAssumption == \A clip \in Clips : IsClip(clip)

(* A frame while it is read, a frame once it is read, and a clip.          *)
Builders  == [timestamp : Time, fields : Fields, scores : [Joints -> Scores \cup {None}]]
ReadPoses == [timestamp : Time, fields : Fields, confidence : [Joints -> Scores] \cup {None}]
ReadClips == [samples : Seq(ReadPoses), source : [HeaderKeys -> Texts], rate : Int,
              startTime : Time, endTime : Time]

(* std::nullopt is no number, no confidence, no frame and no clip.         *)
ASSUME TraceNoneAssumption ==
  /\ None \notin Int
  /\ None \notin Scores
  /\ None \notin Builders
  /\ None \notin ReadClips

(* One line of a file: its keyword and its operands.  A line is about a    *)
(* number, or about a subject (a field, a header key) and what was written *)
(* for it; a joint line may end in a confidence.                           *)
NumberLine(key, number) ==
  [key |-> key, number |-> number, subject |-> None, value |-> None, score |-> None,
   wellFormed |-> TRUE]

SubjectLine(key, subject, value, score) ==
  [key |-> key, number |-> None, subject |-> subject, value |-> value, score |-> score,
   wellFormed |-> TRUE]

BlankLine == NumberLine("blank", None)

ASSUME HandLinesAssumption ==
  \A line \in HandLines :
    /\ line.key = "field" => line.subject \in Field /\ line.score \in Scores \cup {None}
    /\ line.key = "header" => line.value \in Texts

VARIABLES
  file,         \* the lines still to be read, when the writer wrote them
  origin,       \* "hand" or "writer"
  lineNumber,   \* lineNumber
  version,      \* formatVersion, 0 while sawMagic is false
  source,       \* result.source
  frameRate,    \* frameRate
  frame,        \* frame, the builder
  samples,      \* result.samples
  outcome,      \* "idle", "reading", "read" or "failed"
  animation,    \* the caller's clip, None until a read succeeds
  written       \* history: the clip the writer was given last

locals    == <<version, source, frameRate, frame, samples>>
traceVars == <<file, origin, lineNumber, locals, outcome, animation, written>>

-----------------------------------------------------------------------------
(* What the reader accepts.                                                *)

(* The fields a frame may carry at most once.                              *)
Once(field) ==
  field[1] \in {"b", "e"} \/ field \in {LookAt, Sequence, SourceTime}

(* The format version that introduced a field.                             *)
Since(field) ==
  CASE field[1] = "e"                     -> 2
    [] field = LookAt                     -> 3
    [] field \in {Sequence, SourceTime}   -> 4
    [] OTHER                              -> 1

AcceptsMagic(line) == line.key = "magic" /\ line.number \in 1 .. FormatVersion

(* A slip: two frames at one instant are let through.                      *)
AcceptsRepeatedTime(line) ==
  /\ IsFinite(line.number)
  /\ frame # None => line.number >= frame.timestamp

AcceptsTime(line) ==
  /\ IsFinite(line.number)
  /\ frame # None => line.number > frame.timestamp

AcceptsHeader(line) ==
  \/ line.key = "frameRate" /\ IsFinite(line.number) /\ line.number > 0
  \/ line.key = "header" /\ line.value # ""

(* A slip: the version a trace declares is not held against its content.   *)
AcceptsAnyField(line) ==
  /\ line.key = "field"
  /\ line.value = "good"
  /\ line.score # "out"
  /\ Once(line.subject) => line.subject \notin DOMAIN frame.fields

(* A slip: a full confidence is taken for one past the end of the range.   *)
AcceptsOpenScores(line) ==
  /\ line.key = "field"
  /\ line.value = "good"
  /\ line.score \notin {"one", "out"}
  /\ version >= Since(line.subject)
  /\ Once(line.subject) => line.subject \notin DOMAIN frame.fields

AcceptsField(line) ==
  /\ line.key = "field"
  /\ line.value = "good"
  /\ line.score # "out"
  /\ version >= Since(line.subject)
  /\ Once(line.subject) => line.subject \notin DOMAIN frame.fields

Accepts(line) ==
  /\ line.wellFormed
  /\ CASE version = 0                                     -> AcceptsMagic(line)
       [] version # 0 /\ line.key = "t"                   -> AcceptsTime(line)
       [] version # 0 /\ line.key # "t" /\ frame = None   -> AcceptsHeader(line)
       [] OTHER                                           -> AcceptsField(line)

-----------------------------------------------------------------------------
(* What the reader does with an accepted line.                             *)

EmptyFrame(timestamp) ==
  [timestamp |-> timestamp, fields |-> << >>, scores |-> [j \in Joints |-> None]]

(* A frame with one confidence has them all: 1 where a joint was reported  *)
(* without, 0 where it was not reported.                                   *)
Build(f) ==
  [timestamp  |-> f.timestamp,
   fields     |-> f.fields,
   confidence |->
     IF \A j \in Joints : f.scores[j] = None THEN None
     ELSE [j \in Joints |-> CASE f.scores[j] # None             -> f.scores[j]
                              [] /\ f.scores[j] = None
                                 /\ <<"b", j>> \in DOMAIN f.fields -> "one"
                              [] OTHER                          -> "zero"]]

Finished == IF frame = None THEN samples ELSE Append(samples, Build(frame))

(* Free text is trimmed at both ends and kept in between.                  *)
Trimmed(text) == IF text = "padded" THEN "plain" ELSE text

ReadMagic(line) ==
  /\ version = 0
  /\ version' = line.number
  /\ UNCHANGED <<source, frameRate, frame, samples>>

OpenFrame(line) ==
  /\ version # 0
  /\ line.key = "t"
  /\ samples' = Finished
  /\ frame' = EmptyFrame(line.number)
  /\ UNCHANGED <<version, source, frameRate>>

ReadHeader(line) ==
  /\ version # 0
  /\ \/ /\ line.key = "header"
        /\ source' = [source EXCEPT ![line.subject[2]] = Trimmed(line.value)]
        /\ UNCHANGED frameRate
     \/ /\ line.key = "frameRate"
        /\ frameRate' = line.number
        /\ UNCHANGED source
  /\ UNCHANGED <<version, frame, samples>>

Carrying(fields, field, value) ==
  [f \in {field} \cup DOMAIN fields |-> IF f = field THEN value ELSE fields[f]]

(* A root field or a contact pair written twice keeps the second.          *)
ReadField(line) ==
  /\ version # 0
  /\ line.key = "field"
  /\ frame' =
       [frame EXCEPT
          !.fields = Carrying(@, line.subject, line.value),
          !.scores = IF line.subject[1] = "b"
                     THEN [@ EXCEPT ![line.subject[2]] = line.score] ELSE @]
  /\ UNCHANGED <<version, source, frameRate, samples>>

ReadLine(line) ==
  /\ lineNumber' = lineNumber + 1
  /\ \/ /\ line.key = "blank"
        /\ UNCHANGED <<locals, outcome>>
     \/ /\ line.key # "blank"
        /\ ~Accepts(line)
        /\ outcome' = "failed"
        /\ UNCHANGED locals
     \/ /\ line.key # "blank"
        /\ Accepts(line)
        /\ ReadMagic(line) \/ OpenFrame(line) \/ ReadHeader(line) \/ ReadField(line)
        /\ UNCHANGED outcome
  /\ UNCHANGED <<origin, animation, written>>

(* The rate of a trace that declares none.  It may come out as 0, when the *)
(* span overflows, and non-finite, when the span is next to nothing.       *)
DerivedRate(clip) ==
  LET span == Minus(clip[Len(clip)].timestamp, clip[1].timestamp)
  IN  CASE span <= 0        -> DefaultRate
        [] span = NonFinite -> 0
        [] OTHER            -> Finite(((Len(clip) - 1) * Second) \div span)

Assembled ==
  [samples   |-> Finished,
   source    |-> source,
   rate      |-> IF frameRate # None THEN frameRate ELSE DerivedRate(Finished),
   startTime |-> Finished[1].timestamp,
   endTime   |-> Finished[Len(Finished)].timestamp]

EndOfFile ==
  /\ IF version = 0 \/ Finished = << >>
     THEN /\ outcome' = "failed"
          /\ UNCHANGED animation
     ELSE /\ outcome' = "read"
          /\ animation' = Assembled
  /\ UNCHANGED <<file, origin, lineNumber, locals, written>>

-----------------------------------------------------------------------------
(* The writer.                                                             *)

(* A number as it is written: the nearest multiple of the quantum.         *)
Written(number) ==
  IF IsFinite(number) THEN ((number + Quantum \div 2) \div Quantum) * Quantum
  ELSE NonFinite

(* A slip: provenance is written as it came.                               *)
WritableChannels(clip) ==
  \A i \in 1 .. Len(clip.samples) :
    /\ SourceTime \in DOMAIN clip.samples[i].fields =>
         clip.samples[i].fields[SourceTime] = "good"
    /\ \A f \in DOMAIN clip.samples[i].fields : f[1] = "e" => f[2] \notin Spaced

Writable(clip) ==
  /\ \A key \in HeaderKeys : clip.source[key] \notin {"padded", "broken"}
  /\ \A i \in 1 .. Len(clip.samples) :
       /\ SourceTime \in DOMAIN clip.samples[i].fields =>
            clip.samples[i].fields[SourceTime] = "good"
       /\ \A f \in DOMAIN clip.samples[i].fields : f[1] = "e" => f[2] \notin Spaced

FieldLine(pose, field) ==
  SubjectLine("field", field, pose.fields[field],
              IF field[1] = "b" /\ pose.confidence # None
              THEN pose.confidence[field[2]] ELSE None)

(* Only what the pose carries is written, in an order that is the same for *)
(* every file.                                                             *)
FrameLines(pose) ==
  LET carried == SetToSeq(DOMAIN pose.fields)
  IN  <<NumberLine("t", Written(pose.timestamp))>>
        \o [i \in 1 .. Len(carried) |-> FieldLine(pose, carried[i])]

HeaderLines(clip) ==
  LET named == SetToSeq({key \in HeaderKeys : clip.source[key] # ""})
  IN  <<NumberLine("magic", FormatVersion)>>
        \o [i \in 1 .. Len(named) |->
              SubjectLine("header", <<"header", named[i]>>, clip.source[named[i]], None)]
        \o <<NumberLine("frameRate", Written(clip.rate))>>

Emitted(clip) ==
  HeaderLines(clip)
    \o FlattenSeq([i \in 1 .. Len(clip.samples) |-> FrameLines(clip.samples[i])])

-----------------------------------------------------------------------------
(* The calls.                                                              *)

NoSource == [key \in HeaderKeys |-> ""]

StartReading ==
  /\ lineNumber' = 0
  /\ version' = 0
  /\ source' = NoSource
  /\ frameRate' = None
  /\ frame' = None
  /\ samples' = << >>
  /\ outcome' = "reading"

OpenByHand ==
  /\ outcome = "idle"
  /\ StartReading
  /\ file' = << >>
  /\ origin' = "hand"
  /\ UNCHANGED <<animation, written>>

(* A clip is written, and the file, if there is one, is read again.  A     *)
(* clip that cannot be spelled is refused before the first byte.           *)
WriteAndRead(clip) ==
  /\ Writable(clip)
  /\ StartReading
  /\ file' = Emitted(clip)
  /\ origin' = "writer"
  /\ animation' = None
  /\ written' = clip

Produce ==
  /\ outcome = "idle"
  /\ \E clip \in Clips : WriteAndRead(clip)

Normalize ==
  /\ outcome = "read"
  /\ origin = "hand"
  /\ WriteAndRead(animation)

ReadHandLine ==
  /\ outcome = "reading"
  /\ origin = "hand"
  /\ lineNumber < MaxLines
  /\ \E line \in HandLines : ReadLine(line)
  /\ UNCHANGED file

ReadWrittenLine ==
  /\ outcome = "reading"
  /\ origin = "writer"
  /\ file # << >>
  /\ ReadLine(Head(file))
  /\ file' = Tail(file)

Close ==
  /\ outcome = "reading"
  /\ file = << >>
  /\ EndOfFile

Init ==
  /\ file = << >>
  /\ origin = "hand"
  /\ lineNumber = 0
  /\ version = 0
  /\ source = NoSource
  /\ frameRate = None
  /\ frame = None
  /\ samples = << >>
  /\ outcome = "idle"
  /\ animation = None
  /\ written = None

Next ==
  \/ OpenByHand
  \/ Produce
  \/ Normalize
  \/ ReadHandLine
  \/ ReadWrittenLine
  \/ Close

Spec == Init /\ [][Next]_traceVars /\ WF_traceVars(ReadWrittenLine \/ Close)

-----------------------------------------------------------------------------
(* What must hold.                                                         *)

(* A clip reaches the caller only from a file that was read to its end     *)
(* without an error, and then it is one a session can replay: it has a     *)
(* frame, its instants are finite and strictly increase, its span is theirs *)
(* (CaptureTrace.h:134, and what ReplaySender and ClipSource rely on).     *)
ReadClipIsATrace ==
  /\ animation # None <=> outcome = "read"
  /\ outcome = "read" =>
       /\ animation.samples # << >>
       /\ \A i \in 1 .. Len(animation.samples) :
            /\ IsFinite(animation.samples[i].timestamp)
            /\ \A k \in 1 .. i - 1 :
                 animation.samples[k].timestamp < animation.samples[i].timestamp
       /\ animation.startTime = animation.samples[1].timestamp
       /\ animation.endTime = animation.samples[Len(animation.samples)].timestamp

(* A version is a claim about content: nothing a clip holds is newer than  *)
(* the version its file declared (CaptureTrace.h:81).                      *)
VersionClaimsContent ==
  outcome = "read" =>
    \A i \in 1 .. Len(animation.samples) :
      \A field \in DOMAIN animation.samples[i].fields : Since(field) <= version

(* The clip that was written, at the precision of the format.  A score is  *)
(* kept with the joint it is about.                                        *)
StoredPose(pose) ==
  LET seen == {j \in Joints : <<"b", j>> \in DOMAIN pose.fields}
  IN  [timestamp  |-> Written(pose.timestamp),
       fields     |-> pose.fields,
       confidence |-> IF pose.confidence = None \/ seen = {} THEN None
                      ELSE [j \in Joints |->
                              IF j \in seen THEN pose.confidence[j] ELSE "zero"]]

Stored(clip) ==
  [samples   |-> [i \in 1 .. Len(clip.samples) |-> StoredPose(clip.samples[i])],
   source    |-> clip.source,
   rate      |-> Written(clip.rate),
   startTime |-> Written(clip.startTime),
   endTime   |-> Written(clip.endTime)]

(* A clip may declare an interval other than the one its samples span: a   *)
(* trace has no line for it, and the reader puts the samples' back.        *)
DeclaresItsSpan(clip) ==
  /\ clip.startTime = clip.samples[1].timestamp
  /\ clip.endTime = clip.samples[Len(clip.samples)].timestamp

(* A written file never reads back as other motion: its samples, source    *)
(* and rate are the ones that were written, to six decimals, or it is      *)
(* refused (CaptureTrace.h:148).  The interval it declared is its own too  *)
(* only when it was the one its samples span; any other is lost, silently. *)
ReadsBackButForItsInterval ==
  outcome = "read" /\ origin = "writer" =>
    /\ animation = [Stored(written) EXCEPT !.startTime = animation.startTime,
                                           !.endTime   = animation.endTime]
    /\ DeclaresItsSpan(written) => animation = Stored(written)

(* What the format can spell: distinct finite instants once rounded, a     *)
(* rate that does not round away, and values the reader takes.             *)
Spellable(clip) ==
  /\ Len(clip.samples) > 0
  /\ IsFinite(Written(clip.rate)) /\ Written(clip.rate) > 0
  /\ \A i \in 1 .. Len(clip.samples) :
       LET pose == clip.samples[i]
       IN  /\ IsFinite(Written(pose.timestamp))
           /\ i > 1 => Written(clip.samples[i - 1].timestamp) < Written(pose.timestamp)
           /\ \A field \in DOMAIN pose.fields :
                /\ pose.fields[field] = "good"
                /\ field[1] = "b" /\ pose.confidence # None =>
                     pose.confidence[field[2]] # "out"

(* A clip the format can spell is always read back: a recording is never   *)
(* lost to its own writer (CaptureTrace.h:90).                             *)
SpellableIsReadBack ==
  origin = "writer" /\ outcome = "reading" /\ Spellable(written) ~> outcome = "read"
=============================================================================

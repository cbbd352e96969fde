# usd-motion-plugins: verification project

TLA+ modules of the motion libraries under `src/libs`, of the execution plugin
under `src/plugins` and of the two tools that drive them, TLC configurations
that check them on small instances, and theorems that TLAPS checks for every
value of the constants.

The repository is a set of C++ libraries with no threads: every component is a
class or a function that a caller drives. What is hard is therefore not the
interleaving of threads but the *order of calls* on objects that keep several
pieces of history, files that end or fail anywhere, operations that must be
all-or-nothing, boundaries in time where two floating-point grids meet, and
several hierarchies (a file's, a rig's, a vocabulary's) that must be walked
together.

## 1. The system

Canonical poses flow through the libraries:

    connector --push--> LiveCaptureSource --sample--> MotionRecorder --take--> clip
                          |  conditioning                                       |
                          |  PoseFilter                                         v
                          +- PoseBuffer          CaptureTrace <--write/read-- motion_record

    BVH file -> motionBvh -> motionSource -> canonical clip -> motionUsd -> stage file
                 (rig, clip)  (profile)       |       ^                       |
                                              |    ClipSource, Resample       v
                                              +--> motionRetarget       ClipReader, execMotion

| Component | State it keeps | Operations | Talks to | What is hard | What makes it correct |
|---|---|---|---|---|---|
| `PoseBuffer` (motionSampling) | deque of poses, capacity | `Push`, `SetCapacity`, `Clear`; reads `Sample`, `SampleExtrapolated` | owned by `LiveCaptureSource` | eviction, non-finite times, boundaries of the range | ordered, bounded, a read comes from two neighbours, answers do not change |
| `LiveCaptureSource` (motionRecording) | config, buffer, filter, last accepted pose, coverage, clock offset, counters, availability | `Push`, `SetConfig`, `SetSourceMetadata`, `SetInputState`, `SetClockOffset`, `AlignClock`, `Sample`, `Reset`, `ResetStats` | pushed by a connector or a `ReplaySender`, sampled by a consumer | six pieces of history that each call touches in part | the pieces agree, nothing survives a reset, nothing is invented, counters balance, a status is true |
| `PoseFilter` (motionSampling) | last answered pose | `Apply`, `Step`, `Reset` | driven by `LiveCaptureSource` and `motion.filterPose` | seeding, joints that come and go | its state is the head of the stream |
| `MotionRecorder` | clip, report | `Record`, `Take`, `Clear` | fed with what a source answered | report and clip have different lifetimes | clips advance, the report accounts for them |
| `ReplaySender`, `motion_record` | trace, cursor, tick counter | `Advance`; the loop of `main` | opens a trace, drives source and recorder | arrival boundary on rounded times, tick count, lag | gapless clip, no frame early, clean sessions sampled, termination |
| `CaptureTrace` | a clip under construction | reader, writer | files, the session | directives out of order, all-or-nothing, six decimals | what is written reads back as itself or not at all |
| `ClipSource`, `Resample` | a clip, a start offset | `Sample`, `GetTimeRange`, `Resample` | consumers, recorder | shifted clocks, step counts, declared intervals | a status agrees with the announced range, no gap, ends kept |
| motionBvh | parser position, document | `Parse`, `Validate`, `Extract` | files, motionSource | recursion limits, failure in the middle, columns dealt out by two orders | nothing partial reaches the caller, each number reaches its joint |
| motionSource | rig, clip, profile | `Validate`, `Match`, conversion | motionBvh in, canonical clip out | unmapped joints between mapped ones, four rest policies, basis change | orientation kept, T-pose reached, translations carried or reported |
| `motion_convert` | stage of a pipeline | `main` | all of the above, motionUsd | four steps that may fail | a clip is written exactly when all succeed |
| motionRetarget | rig, map, fold plan, a shared report | `SetJointIndex`, the constructor, `Retarget`, validation | canonical clip in, rig poses out | three parent relations, cycles, missing bones | world motion is transferred, what is lost is named |
| motionUsd | a stage file, another holder's layer | writer, permissive and strict reader, bake | OpenUSD | a layer open elsewhere, failures in the middle, a rate stated twice | the file carries the clip, a bake is whole or absent |
| `execMotion` plugin | none of its own | computations over a stage | OpenExec | refusals through fan-ins, overrides | nodes agree with the reader, refusals pass on |
| motionCore | none | vocabulary, `Validation`, `Compare`, basis conversion | used by all | nearest present ancestor | the walk terminates |
| `motion_bvh_inspect`, option parsing, scripts | none | command lines | the libraries | none | none |

## 2. The modules

| Module | Models | Built on |
|---|---|---|
| `MotionTime` | doubles as times: a grid, its largest finite value, one non-finite value | |
| `MotionPose` | the canonical pose, root motion, `Interpolation.cpp` | extends `MotionTime` |
| `BoundedHistory` | abstract: what a reader of timestamps may rely on | extends `MotionTime` |
| `PoseBuffer` | `PoseBuffer.cpp`, `Bracket.h` | extends `MotionPose`, instantiates `BoundedHistory` |
| `LiveCapture`, `LiveCaptureProperties` | `LiveCaptureSource.cpp`, `Filter.cpp` as the source drives it | extends `MotionPose`, instantiates `PoseBuffer` |
| `MotionRecorder` | `MotionRecorder.cpp` | extends `MotionPose` |
| `ReplaySession`, `ReplaySessionProperties` | `main.cpp` of motion_record with `ReplaySender.cpp` | extends `LiveCapture`, instantiates `MotionRecorder` |
| `ClipPlayback` | `MotionSource.cpp`, `Resample.cpp`, recording what is played | extends `MotionRecorder`, instantiates `PoseBuffer` |
| `CaptureTrace` | `CaptureTrace.cpp`: reader, writer, normalisation | extends `MotionTime` |
| `SourceRig` | `SourceSkeleton.cpp`, `SourceAnimation.cpp` | extends `MotionTime` |
| `BvhDocument` | `BvhDocument.cpp`, `BvhExtract.cpp` | extends `SourceRig`, `Subsequences` |
| `BvhImport` | `BvhParser.cpp`, then extraction | extends `BvhDocument` |
| `Subsequences` | numbers in order, what is kept of a list | |
| `HumanJoints` | the humanoid vocabulary of `MotionPose.cpp` | extends `Subsequences` |
| `RotationWords` | rotations as words of a free group | extends `Subsequences` |
| `SourceProfile` | `SourceProfile.cpp`: validation and matching | extends `SourceRig`, `HumanJoints` |
| `CanonicalConversion` | `CanonicalConversion.cpp`, basis conversion | extends `SourceProfile`, `RotationWords` |
| `MotionConvert` | `motion_convert`, profile lookup to exit code | extends `CanonicalConversion` |
| `PoseRetargeter` | `PoseRetargeter.cpp`, `RestPose.cpp`, `RetargetMap.cpp` | extends `HumanJoints`, `RotationWords` |
| `RetargetValidation` | `Validation.cpp`, joint world transforms | extends `PoseRetargeter` |
| `MotionStage` | what USD answers, and what `ClipWriter.cpp` authors | extends `HumanJoints` |
| `StageReader` | `ClipReader.cpp`, permissive and strict | extends `MotionStage` |
| `StageFile` | the file at one path: write, bake (`SkeletonAnimationWriter.cpp`), open, save, drop | extends `StageReader` |
| `ExecMotion` | `ExecMotionRegistration.cpp`, `ExecMotionPose.cpp`, `Blend.cpp` | extends `StageFile` |
| `MCPoseBuffer`, `MCLiveCapture`, `MCReplaySession`, `MCClipPlayback`, `MCCaptureTrace`, `MCBvhImport`, `MCMotionConvert`, `MCRetargetValidation`, `MCExecMotion` | instances for TLC | |
| `PoseBufferProofs`, `CaptureProofs`, `ClipPlaybackProofs`, `CaptureTraceProofs`, `ImportProofs`, `RigProofs`, `StageProofs` | proofs about the module each is named for (`CaptureProofs`: about `LiveCapture` and `ReplaySession`; `ImportProofs`: about `BvhImport`; `RigProofs`: about `MotionConvert` and `RetargetValidation`; `StageProofs`: about `ExecMotion` and what it extends) | capture and playback instantiate the buffer's |
| `SharedLemmas` | least counterexamples, multiples of a period, numbers in order, lists, paths of the vocabulary | extends `HumanJoints` |

### How code becomes model

*Time.* A double is an integer on a grid. The operations that may leave the
finite range (`Plus`, `Minus`) return `NonFinite`, as the code's own
`std::isfinite` tests see it. `TimeLimit` stands for DBL_MAX: it is small in the
runs, so that the span of two finite timestamps does overflow, and arbitrary in
the proofs. `Tolerance` is `PoseSampleTimeTolerance`.

*Poses.* A rotation is represented by its provenance: the set of the
observations (epoch and timestamp) that shaped it, and the filter generations
that smoothed it. The empty set is a cleared bit of `validRotations`. Slerp and
smoothing join sets, except where they return one operand. So "a limb is
frozen", "a rotation from before the reset", "a rotation of two filters" are
statements about sets, and no quaternion is needed. The root keeps its flags and
one coordinate; a velocity is a displacement over a span and is never divided.

*Rotations that are composed.* Where the code multiplies and inverts rotations
(conversion, retargeting) a rotation is a reduced word over the rotations that
were given. Two words that are equal are equal rotations whatever the angles;
two that differ are different rotations for some angles. An identity of
quaternion algebra that holds of the words holds of the code.

*Numbers that are carried.* In an import a number is where it came from (joint,
row, column) and its kind: finite, too large for a float, not finite, no number.
So "each number reaches its joint" is an equation of places.

*Optional results.* Where several refusals meet (stage readers, exec nodes) an
answer is a set, empty when refused. `{}` is an attribute value with no opinion.

*Calls.* One action per public call, or one per line or directive where a
function reads a file that may end anywhere. The classes have no concurrency, so
a call is a step, and the caller may make any call next. `Push` in `LiveCapture`
is the whole of `LiveCaptureSource::Push`: validation, conditioning in its six
stages, the buffer's own `Push`, and the bookkeeping, with the branch in which
the buffer refuses left in, though `HeadTracked` shows it unreachable. `Sample`
returns `Result` and moves the counters; the last result is kept in the history
variable `answer`.

*Traces.* `CaptureTrace` reads one line per step; a line's operands are good or
not, and well formed or not. The grid has `Quantum` steps to a sixth decimal (two
instants may share their six decimals) and `Second` steps to a second; `Stored`
is the rounding of the writer, which also makes a frame rate what is read back.
A clip declares its interval apart from its samples; a trace has no line for it,
and the reader takes it from the samples (`EndOfFile`).

*BVH.* `BvhImport` takes one directive per step, and the stack of joints being
read is the parser's recursion. Whatever does not fit is a refusal, which drops
the document.

*Stages.* `MotionStage` defines what USD answers for an attribute with a default
and keys (external: held before the first and after the last key, mixed between
two). `StageFile` separates the file from the layer another holder has open on
the path, so that saving, dropping and baking meet.

*History variables* are `answer`, `epoch` (calls of `Reset`), `generation`
(calls of `SetConfig`), `observedPosition`, `handedOver`, `resampled`, `origin`,
`written` and `saved`. No guard reads them except bounds and the choice of what
a reader reads.

*Slips.* Definitions whose comment starts with "A slip" are plausible bugs of the
definition after them. No action uses them; each property is known to fail when
one of them takes the place of the code's definition.

*Session.* One tick of the loop in `main` is a run of `Deliver` steps, one for
each turn of `ReplaySender::Advance`'s loop, and then `Evaluate` or `SkipTick`.
The times of a session sit on a grid of a sixth of a microsecond, on which the
six-decimal quantum is 6 steps, the tolerance 3, and a frame interval of 20
steps has the remainder that 1/30 s has. The period of a tick is exact: the
rounding of `tick / rate` in double precision (about 1e-16) is far below a grid
step and no comparison in the instances comes within it.

## 3. The runs

| Run | Question | Bounds |
|---|---|---|
| `Buffer` | does the buffer keep its order, bound and abstract history, and answer from neighbours, under all calls? | 5 instants in -8..8 two of which are a non-finite span apart, and a non-finite one; capacities 0 to 3; no bound on the number of calls |
| `CaptureJoints` | do the pieces of joint history agree under every mix of gating, holding, smoothing, capacities, stale thresholds, refusals, restarts and retuning? | one joint, 5 timestamps one of them non-finite, 3 pushes since the last `ResetStats`, 1 reset, 1 retune, capacities 0, 1, 2 |
| `CaptureRoot` | is the status of each answer true? | 3 instants, 3 pushes, 1 sample at 5 times through 2 offsets, and availability changes |
| `Session` | what does a whole session deliver, and does it end? | traces of 1 to 3 frames, 5 shapes, 2 epochs, 3 rates, 3 lags, 4 configurations |
| `Clip` | what becomes of a clip that is shifted, resampled and recorded again? | 4 clips with right, wider, narrower and missing intervals and those a recorder took, 2 offsets, steps that do and do not divide, 2 recorded results between clears |
| `Trace` | does a trace hold what was written, or nothing? | files of at most 6 lines from every directive and every refusal of one; clips of at most two frames over 5 instants, two of them sharing six decimals, 3 rates, and clips that declare another interval than their samples span |
| `Import` | does anything partial or misplaced come out of a BVH file? | 3 joints, depth 2, 2 frames and a declared third, 4 channel lists; hand documents under every parent array of up to 3 joints with entries 0..4 |
| `Convert` | does the converted clip say what the rig said? | 4 joints, 6 parent relations, every placement of four bones, 4 rest policies, every up axis against three forward ones for either hand, 4 clips |
| `Retarget` | does the motion arrive, and is what is lost named? | 4 bones, rigs of 5 joints, 8 rig hierarchies and 7 source rests sound and malformed, 20 maps, 4 option sets, 4 poses |
| `Stage` | does a stage file carry its clip past other holders, and do exec nodes agree with the reader? | 7 clips, 2 rests, 5 foreign stages, 6 bakes, 9 blends, 2 time codes, histories of 2 |
| `SessionEpoch`, `ConvertUnder` | refuted: see section 6 | |

Why the bounds are enough. The buffer run is not bounded in calls: with
strictly increasing timestamps on a finite range the state space is finite. In
the capture runs a hazard needs, at most, a frame to hold from, one in which
the joint is missing, and one after a retune or a reset; `ResetStats` starts the
count of pushes again without touching the history, so longer histories occur as
well. Joints never interact in the code, so one is enough; the proofs of
`JointLedger` are for any number. The two capture runs split the inputs rather
than take their product because joints and root meet only in the refusal
branch, which is in both. A session needs three frames: one before, at and
after a gap; the lag of 45 steps is longer than two frames, so that ticks before
the first arrival, and ticks after the last frame, both occur. A trace refuses
at one line given what the lines before it set, which is the version, the header
and the frame: four lines reach every combination and six leave room for a
second frame. A BVH file needs a chain one joint too deep, two siblings and two
rows for columns to be mixed up. Four joints give a conversion an unmapped joint
between two mapped ones, a bone under a bound joint that is not its own, and
siblings. Five rig joints give a retarget a joint that no bone drives, a cycle
with a tail that leads into it, and a parent after its child. The names of the
bounds are `MaxPushes`, `MaxSamples`, `MaxEpoch`, `MaxGeneration`, `MaxTicks`,
`MaxLines`, `FramesBound` and `MaxHistory`; a counter is bounded in the guards of
`Next` alone (and of `Snapshot`, for the driver's history). The proofs of
section 5 use none of them.

Bounds of the order of calls: in `Clip` a clip is resampled once, before it is
played into a recording; in `Stage` a driver starts on a layer as it is on disk
that no session opinion binds, and puts in one of its two overrides at a time.

Symmetry is not used: no run has interchangeable values worth the loss of
liveness checking.

**Deadlock** is checked where a caller can always make one more call. It is not
where the program ends: `Session` and `SessionEpoch`, `Trace` and `Import` (a
file is read to its end), `Convert` and `ConvertUnder` (a tool exits).

**Fairness** is stated twice. `WF_sessionVars(SessionNext)`: the tool is one
thread that runs to its end, and a step of it is always enabled until it is done.
`WF_traceVars(ReadWrittenLine \/ Close)`: the reader is a loop over the lines of
a file, which goes on until the file ends or it refuses; nothing is assumed of
when a caller opens or writes one. The classes have no scheduler and promise
nothing of when they are called, so no liveness is stated of them.

What the properties say:

- Buffer. `HistorySpec`: it implements `BoundedHistory`.
  `AnswersComeFromNeighbours`: past the ends a read has exactly the joints of the
  boundary sample, strictly between two exactly those that either carries.
  `RetainedAnswersStable`: an answer between two retained samples never changes.
- Capture. `HeadTracked`: the last accepted pose is the buffer's newest, on which
  the comment in `Push` that calls the buffer's refusal unreachable depends.
  `FilterTracksHead`: the filter's state is exactly the head of the stream,
  and that head was smoothed under the configuration that is set now.
  `EpochIsolation`: `Reset` breaks continuity in all the pieces of history at
  once. `CoverageCoversHistory`: no joint is valid that was not observed since
  the reset. `HeldLimbIsFrozen`: a dropout under `HoldLast` keeps the rotation,
  through smoothing. `JointLedger`: every joint of an accepted frame is counted
  once, and nothing is counted for a refused one. `AnswerMatchesHistory`:
  Sampled, Held and Extrapolated mean what they say.
- Session. `ClipIsGapless`, `NoFrameBeforeItArrives`, `CleanSessionIsSampled`,
  `SessionEnds`.
- Clip. `RecordedIsAccountedFor`: every recorded pose was refused, is in the clip
  or left with one. `ResampleSpansItsSource`: both ends kept, no step too long and
  none empty. `StatusMatchesTimeRange`: Sampled exactly within the announced range.
- Trace. `ReadClipIsATrace`: a whole sound clip or nothing. `VersionClaimsContent`:
  no clip holds more than its declared version has. `ReadsBackButForItsInterval`:
  the samples, source and rate that are written come back, or nothing does, and
  the interval comes back where it is the one the samples span.
  `SpellableIsReadBack`: what the format can spell is not refused.
- Import. `DocumentIsWithinLimits`, `ParsedDocumentIsExtracted`: nothing partial
  gets through either stage. `NumbersReachTheirJoint`: the columns are dealt to
  the joints, channels and frames they were written for. `DepthCountsAncestors`:
  the walks end on every array of parents.
- Convert. `OrientationIsKept`: on every rig a bone turns on from the nearest
  bound joint above it as the source does between the two, and where the bones of
  its lineage hang in the rig as in the body (`Aligned`) its rotations compose to
  the orientation the source has at its joint. `TPoseIsReached`: aimed bones end
  in their aim, where they are aligned. `FirstFrameRestIsTheFirstFrame`,
  `EveryTranslationIsCarriedOrReported`, `BasisIsAHandedIsometry`; the last is
  also what allows rotations to be words.
- Retarget. `WorldMotionIsTransferred`: what a bone turned from its rest in the
  source's world its joint turns in the rig's, through folded chains.
  `RootMotionArrivesOrIsReported`, `LostBonesAreNamed`: what does not land is said,
  by the name of the bone or joint that is missing.
  `TransformsFailWhereValidationSaysSo`: two walks over a malformed rig agree.
- Stage. `StageCarriesTheClip`: a saved file holds exactly the clip last saved.
  `BakeIsAllOrNothing`: a bake that is made is made whole and leaves the stage's
  other animations as they were. `ExecAgreesWithReader`: the two readers of one
  stage pose the body alike. `RefusalReachesEveryNode`, `BlendPairsEachWeightWithItsClip`: no
  fan-in turns a refusal into an answer or gives a clip another's weight.

The preconditions of these are met in the runs: each property fails when a slip
stands in for one of the code's definitions.

## 4. The abstract specification

`BoundedHistory` says what a reader of timestamps may rely on: the instants
retained are the latest run of those accepted, strictly increasing, within the
limit, the newest always among them; *which* old instants go is left open.
`PoseBuffer` implements it under the mapping of samples to their timestamps, and
so does `LiveCapture` as a whole, whose `Push`, `SetConfig` and `Reset` are
`Accept`, `Resize` and `Clear` or stutters, and whose other calls all stutter.
TLC checks the first, TLAPS proves both.

The other components promise a result, not a behaviour; what they promise is
stated as a property against a definition that does not share the code's way of
computing it: `Expected` for a stage, `StoredPose` and `Stored` for a trace,
`WrittenFor` for the columns of a motion row, `RigOrientation` for a conversion,
`SourceWorld` and `TargetWorld` for a retarget.

## 5. The theorems

`PoseBufferProofs` proves of every set of candidate poses and capacities that
the buffer is well typed, ordered and bounded (`IInv`, the conjunction, is
inductive: eviction keeps a suffix of an ordered sequence, and the appended pose
was compared with the newest one, which every eviction keeps), that it
implements `BoundedHistory`, that a bracket exists and is unique in an ordered
sequence, that every answer comes from neighbours, and that retained answers
are stable.

`CaptureProofs` proves of every set of joints, frames and configurations,
with no bound on calls, that

    CaptureInv == TypeOK /\ HeadTracked /\ BufferInvariant

is inductive. None of the three is so alone: that a conditioned pose is well
formed needs the last accepted pose and the filter to be; that the buffer takes
every pose `Push` conditions needs the head to be tracked (the times were
compared with `lastAccepted`, the buffer compares with its newest); that the
head stays tracked needs the buffer not to refuse and never to evict its newest.
From it come `HistorySpec` for the intake and `AnswerMatchesHistory`.

The same module adds to that invariant, one at a time, `FilterTracksHead`,
`EpochIsolation` (with the last pose and the filter in the same epoch),
`CoverageCoversHistory`, `JointLedger` (with each joint of a frame in exactly one
of observed, held and unbound, by a cardinality argument, and the counters that
are compared never moved by a refusal), and from these `HeldLimbIsFrozen`, which
rests on the filter being at the head, and `FirstFrameIsRaw`.

It then extends those proofs to the tool that drives the intake. Each step of
the session is a `Push`, a `Sample` or neither, so `CaptureInv` is kept
(`SessionKeepsIntake`). `SessionInv` adds where the session stands and that the
head of the history is a frame already delivered. That is what `ClipIsGapless`
needs: once a frame was accepted every tick answers, and its time is later than
that of the tick before. `NoFrameBeforeItArrives` needs, besides, that
everything *in the history* had arrived (`HistoryArrived`: rotations in the
buffer and in the filter are joins of frames whose arrival time is past).
`CleanSessionIsSampled` is by `GoesCleanly`: while the trace is clean, the
number of frames sent and the number of ticks evaluated are in step, so that
each tick finds a frame within the tolerance of it. It rests on twice the
tolerance being less than a period, which the property's own definition of a
clean trace contains. `SessionRunsOut` counts what is `Remaining`, the frames to
send, the ticks to count off, the opening and the finish: every step leaves one
less of a natural number, so that no session goes on for ever, and what
`SessionEnds` adds is that a session that can take a step takes it.

`ClipPlaybackProofs` proves that `RecorderInv`, the conjunction of `TypeOK`,
`ClipAdvances` and `RecordedIsAccountedFor`, is inductive for every set of
answers: each outcome of `Record` moves the report and the clip together or
neither, which rests on a result being without a pose exactly when it is
Unavailable; `Take` moves poses from the clip to what was handed over; `Clear`
drops both sides. `PlaybackInv` adds that what was taken, and what is being
played, is a clip whose times do not decrease. From it come
`StatusMatchesTimeRange` and `ResampleSpansItsSource`, the latter an argument
about quotients: the count of steps is the ceiling of span less slack over
period, so the last whole step is strictly before the end.

`CaptureTraceProofs` proves two invariants of the reader. `TraceInv` says what a
reader in the middle of a file holds: complete frames in strictly increasing
order, and nothing that the declared version does not have, neither in them nor
in the frame under construction. It gives `ReadClipIsATrace` and
`VersionClaimsContent` for *any* sequence of lines. `WriterStands` says, when
the file is one that this program wrote, which line the reader is at, and that
what it has gathered is what the lines before that one say of the written clip:
a header of which the first n keys are known, frames of which the first n are
`Stored`, and one frame with the first n of its fields. It is by cases on the
region of the file the line is in, and gives `ReadsBackButForItsInterval`.
`TraceRefusesNothingSpelled` asks the same of the next line: when the clip can be
spelled, it is the magic, a header key, the start of a frame, a field of one or
nothing (`HeaderIsNext`, `FrameIsNext`, `FieldIsNext`), each is accepted where the
reader stands (`NextLineIsAccepted`), and the end finds a frame complete
(`SpelledFileHasAFrame`). `SpellableIsReadBack` adds that the reading ends.

`ImportProofs` proves of every limit, every list of channels and every document
assembled by hand that

    ImportInv == IdleInv /\ WorkInv /\ TableInv /\ CallerInv

is inductive. Before the first line nothing is under construction (`IdleInv`).
While the hierarchy is read every joint has a level, one more than its parent's,
which was stored before it, and within the limit; the `i`-th open joint stands
`i - 1` levels below the root, which is what makes the depth of the recursion the
depth of the joint; and only an open joint may still lack its offset (`WorkInv`).
The rows read so far fill the table, each number under the name of its place
(`TableInv`). A caller has nothing, or a document of the types of its structure
that validation accepts if it was parsed, or besides what extraction made of it
(`CallerInv`). `DocumentIsWithinLimits` follows. For `NumbersReachTheirJoint` the
column of a joint's channel is the number of channels declared before it, in the
running total of the code and in the row of `WrittenFor` alike.
`ParsedDocumentIsExtracted` goes through every refusal of `ExtractionRefusal` and
shows that a parsed document meets only those the property names.
`DepthCountsAncestors` is about any array of joints: a walk that meets no joint
twice counts the places above it, and one longer than the array has met one
twice.

`RigProofs` proves that a profile that was located and matched has
axes, and the conversion made is `Converted` of the source that was imported
(`ConvertInv`), whence `BasisIsAHandedIsometry` (the columns of the basis are
the three axes, each of them once, whatever two a profile declares) and
`FirstFrameRestIsTheFirstFrame` (under that policy a joint's first local
rotation is its rest, so its delta is the empty word and the chain of identity
deltas reduces to it).

For the retargeter it proves that `RetargetInv` is inductive: the shared list is
a list of reports, the retargeter is one that its configuration describes, and
while a result stands the root moved as that retargeter says and the list holds
its reports on the root. A report that is already in the list is not repeated
and every other one is appended, so the contents of the list after a call are
those before it and those of the call (`ReportedAllAdds`); the reports on a pose
name exactly its lost bones, whence `LostBonesAreNamed` and
`RootMotionArrivesOrIsReported`. `TransformsFailWhereValidationSaysSo` is about
walks up a map of parents of any shape. A place is on a cycle when some walk from
it returns. A walk still inside after as many steps as there are places was at
one place twice, and that place is on a cycle (`InsideMeetsACycle`,
`TwiceIsACycle`); a walk from a cycle never leaves (`CycleIsEndless`) and
returns within that many steps (`CycleIsShort`). One walk of `CheckCycles` that
starts outside what was seen adds places that are closed with it, and finds those
of them that are on a cycle (`CycleWalkFinds`): what leads into a cycle is not
named, and what was seen earlier need not be looked at again. So after all starts
it has named the places on cycles and no other (`CyclesAreFound`), in any order of
starts.

`EveryTranslationIsCarriedOrReported` follows from what a position holds: a joint
on the root path puts its own sample into every frame's (`CarriedIsPlaced`), and
what is found there was stated by a joint on that path (`PlacedIsCarried`). That a
translation is not in both places can only be said of one that is told apart from
those of other joints (`IsItsOwn`), since equal vectors are not.

`OrientationIsKept` and `TPoseIsReached` are about products along chains of any
length. That reduced words multiply associatively (`TimesAssociates`) is shown
without an induction: a product cuts as many letters as meet, so three words are
multiplied either way by comparing what the first cuts of the middle one with
what the last cuts of it: less than the middle one together, exactly it, or
more, where the two cuts overlap and what is left of the outer words meets in
turn. On it rest the inverse of a word
(`InvertedUndoes`) and that composing along a path is the product of composing
along its two parts (`ComposedThen`). The rest is about paths. The walk up from
a joint of a rig that was matched rises to its root, so the path to a joint is
the path to any joint above it and what lies between (`DescentGoesOn`,
`BonePathIs`). A bone's own path is what lies below the nearest bound joint above
it, whichever bone that carries, so on every rig it turns on from there as the
source does (`BoneTurnsOn`, for the rest `RestTurnsBones` and for the frames
`FramesTurnBones`): that is the first half of `OrientationIsKept`, and the second
adds where these turns add up in the body. In such a crossing each bone that is aligned hangs, in the rig,
under the nearest bone present above it (`BonesHangUnderBones`), so its local
rotation, composed from just below that joint, continues the orientation of that
bone; `OrientationComposes` takes the first bone down the lineage at which it
would not. For a T-pose a joint's rest is the inverse of the orientation it
inherits times the one it is to have, so rests compose to the T-pose's
orientations (`TPoseComposes`), and an aimed joint's begins with its aim.

`WorldMotionIsTransferred` compares two walks of different lengths over two rigs.
On the source's side, a bone that was given a joint, or that no joint replaces,
has a parent that is driven or is folded later, because the plan goes from the
deepest bone up (`FoldPlanStands`); a fold leaves the product along every way up
as it was (`FoldKeepsTotal`), and after the last one a bone without a joint is at
its rest (`FoldsSettle`). So along the way up from a bone only bound bones turn
anything beyond the rest (`SourceTurnsOn`), and along the way up from its joint
only driven joints do, each exactly what its bone does, whatever the rests
between them are (`TargetTurnsOn`). Where a rig keeps the order of the bones the
two ways up are ladders with the same rungs, and such ladders end at the same
product (`LaddersAgree`). The inductive invariant is `CarriedInv`: the rig's plan of
folds is the one its map calls for (`PlanStands`), and the pose's result is what
the retargeter makes of that pose.

`StageProofs` proves that disk and layer are stages whatever is written, baked,
saved, reloaded or dropped half done (`StageInv`): one animation at a path,
finitely many keys per attribute, sequences that are sequences. On that rests
`BakeIsAllOrNothing`: the samples of a bake are at codes that ascend strictly, so
the `i`-th key of the array is the `i`-th sample handed in, and a refused bake
changes nothing. `ExecAgreesWithReader` follows because both readers resolve
the same attribute at the same code: each position of a bone is the same
position. `RefusalReachesEveryNode` needs only that a refusal is the empty set
and every fan-in maps over what it is given. `BlendPairsEachWeightWithItsClip`
is by the least number of sources at which the blend and its definition differ.

`StageCarriesTheClip` is proved from `SavedStands`: as long as a saved clip is
remembered, the disk holds exactly what the writer authors for it on an empty
layer, whoever holds, bakes into or drops the open one. The rest is about that
one stage. Writer and reader put numbers and bones in the same order because
there is only one ascending list of a finite set (`OneAscent`). The path of a
present bone is that of its nearest present ancestor and the bone (`PathStep`),
so both ways to a joint's parent, USD's topology and the path without its leaf,
find the vocabulary's (`ParentsAgree`). A
writer refuses samples that share a code, so the reader's list of codes is the
samples' own (`CodesAreRead`), each attribute has at a code what the writer put
there, and a place that was not reported is the last that was (`PlaceIsTold`).

Assumptions: `TimeAssumption` (the limits are naturals), `NoneAssumption` and
`TraceNoneAssumption` and `RefusalAssumption` (the absent value is not a present
one), `JointsAssumption` (finitely many joints), `InputAssumption`,
`CandidatesAssumption`, `CapacityAssumption`, `ResultAssumption`,
`HandLinesAssumption`, `ImportAssumption`, `HandDocumentsAssumption`,
`AbsenceAssumption`, `ClipsAssumption`, `LibrariesAssumption`,
`ImportsAssumption`, `StagesAssumption`, `BlendsAssumption` (inputs have the
types of the code's structures; the default capacity is positive; a result has a
pose unless it is Unavailable; a clip that is played does not go back in time,
which `SampleClip` documents as its precondition; a foreign stage has finitely
many keys; a document assembled by hand has the types of its structure and names
each number for its place, and its channel lists are lists; clips and stated
rests name bones of the vocabulary; the absent stage is none that a writer
authors), `RetargetAssumption` (a rig's joints and the required bones are lists,
a map takes each bone to a place and a rest to a parent, a root mode is one of
three, a pose drives bones of the vocabulary and has a rotation in the slot of
each, that is a reduced word, and the bone that stands for none is not in the
vocabulary), `PlaybackAssumption` (the slack that `Resample` allows is less than
the period), `SessionAssumption` (a period is positive, a session's lag is not
negative, and the limit of extrapolation is finite), `SpanAssumption` (a
session's clock is finite to its last tick), `VocabularyAssumption` (the
vocabulary names no bone twice and has a bone's parents before the bone, as
`MotionPose.h` lists them), `LineageAssumption` (`LineageIsSound`: what is above a bone is its
parent and what is above that, up to the hips, above which there is nothing: a
fact of the table of chains, which TLC evaluates and the prover need not). TLC evaluates each of them in the runs.

Where an induction would be made the proofs take the least counterexample
(`SmallestIndex` in `SharedLemmas`) or compare a recursive function with a
closed form at the first index where they differ: the library's induction
theorems cannot be instantiated here.

Some theorems state what no run checks, being parts of an inductive invariant or
a refinement: `BufferTypeCorrect`, `BufferOrderedAndBounded`,
`CaptureBufferOrderedAndBounded`, `CaptureImplementsHistory`,
`CaptureFirstFrameIsRaw`, `RecorderTypeCorrect`, `RecorderClipAdvances`,
`SessionKeepsIntake`, `ImportInvHolds`, `RetargetInvHolds` and
`StageStaysAStage`. `TraceRefusesNothingSpelled` and `SessionRunsOut` are the
parts of `SpellableIsReadBack` and `SessionEnds` that are about single steps.

Only model-checked:

- that steps are taken (`SessionEnds`, `SpellableIsReadBack`): liveness, like
  ENABLED, is out of the prover's reach.

## 6. What the code says and does not do

Two runs are refuted by TLC.

- `SessionEpoch`: a trace whose first timestamp is rounded (0.033333) misses
  ticks, because two roundings add up to more than the tolerance.
- `ConvertUnder`: a conversion is documented to keep a chain's total orientation;
  a rig that hangs a bone under a bound joint which the humanoid does not put
  above that bone passes the match, and the bone comes out turned otherwise.

Noted without a run:

- A stopped source is documented to answer Held forever (MotionSource.h:24-25);
  with extrapolation on and a moving root it answers Extrapolated at a fixed
  distance from the last frame (LiveCaptureSource.cpp:263).
- A config change is documented not to blend two filters
  (LiveCaptureSource.h:159-161); the pose held from, already smoothed by the
  first, seeds the second (LiveCaptureSource.cpp:114).
- A derived velocity is of the raw position (LiveCaptureSource.h:57-60,
  MOTION_CONTRACT.md:344-345) and compares it with a smoothed one
  (LiveCaptureSource.cpp:127).
- A read at a sample's own timestamp returns what only its predecessor carries
  as well (LiveCaptureSource.cpp:254-257, Bracket.h:48).
- The last frame of a trace is never delivered when the rate does not divide its
  span (main.cpp:156-158 and :167).
- `CaptureTrace.h:146-150` has the writer refuse what "would produce a file that
  reads back as a different animation, or as none"; timestamps and rates are not
  checked (CaptureTrace.cpp:672-693), so it can write a file that the reader
  refuses. `SpellableIsReadBack` says exactly which clips are safe.
- A trace is documented to be "exactly a `MotionClip`" (CaptureTrace.h:9-10) and
  its writer to refuse what would read back as a different animation
  (CaptureTrace.h:148-150). A declared interval that is not the one the samples
  span is written nowhere (CaptureTrace.cpp:711-715) and silently read back as
  theirs (:618-619), so by the equality that defines a round trip
  (MotionPose.h:181-182) such a clip does read back different.
  `ReadsBackButForItsInterval` holds because it says so: everything else is kept,
  and the interval where the two agree. The kind of a clip's source is read back
  as live capture (:218), and each sample's provider, protocol and identifier as
  the header's (:636-642). The stage reader takes its interval from the samples
  as well (ClipReader.cpp:638-639).
- `CaptureTrace.h:57-59` allows at most one contacts line per frame; a repeated
  one, like a repeated root field, overwrites.
- `BvhParser.h:66-68` promises the line a refusal is about; a refusal by the
  validation of the whole document carries none (BvhParser.cpp:763-774).
- `USD_MAPPING.md:410` has `motion.blendPoses` not read the root; `LerpPose`
  blends it.
- A clip that reports no root position reads back with the root at its rest
  place, and its world orientation is not written when the hips were not
  observed: `Expected` says so.
- A failed save leaves the in-memory layer changed, or an empty file created. The
  writer does not check channel values to be finite; the reader refuses NaN.
- `AuthorSkeletonAnimation` states no rate on the animation, so
  `motion.sampleAnimation` refuses what it bakes.
- `RecordReport::Recorded()` is commented as counting poses "from real bracketing
  data" (MotionRecorder.h:34) and counts held and extrapolated ones; the contract
  has a queue report what it dropped (MOTION_CONTRACT.md:351-352) and evictions
  move no counter; the warning of `main.cpp:203-208` cannot fire, since the trace
  reader refuses such a trace (`ReadClipIsATrace`).

## 7. The plan

Done: sampling, recording and its sessions, traces, BVH import, conversion with
its tool, retargeting, stage files and the execution plugin; the proofs of
buffer, intake, session, recorder and playback, trace, import, the conversion's basis,
rests, orientations and translations, the retargeter's reports and the motion it carries
over, the validation of rigs, saved stages, bakes, readers and blends. In order of importance, next:

1. Profile files, as the reader of one more line-oriented format.
2. Confidence, channels, contacts and look-at targets in interpolation.

## 8. What is not modelled, and why

Numerical content: quaternion components, comparison tolerances, filter
coefficients, general basis matrices. It is floating-point algebra, which neither
checker can say anything useful about; what is kept is which operands a result
depends on and in what order they are composed. motionCore's `Validation` and
`Compare`: single stateless passes whose content is tolerances. Profile files: a
parser whose possible results, sound and not, are the profiles the conversion is
run with. Interpolation of confidence values, channels, contacts and look-at
targets in live capture: carried by the same code paths as joints. Metadata and
provenance beyond one value per stream. `ReplaySender::Flush` and `Rewind`, which
no program calls. `motion.identityPose`, which has no refusal. The size of a
translation in a retarget. OpenUSD and OpenExec, which are outside the
repository, but for what an attribute answers and what an authoring call may
refuse. Text formats and wording of diagnostics, command lines,
`motion_bvh_inspect`, scripts and build files.

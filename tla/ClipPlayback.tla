---------------------------- MODULE ClipPlayback ----------------------------
(***************************************************************************)
(* A finished clip put to use (libs/motionSampling): played back through   *)
(* a ClipSource, on a timeline shifted by its start offset, resampled onto *)
(* a uniform one, and recorded again.  The clip is one a recorder took, or *)
(* one a caller filled without declaring its interval.                     *)
(***************************************************************************)
EXTENDS MotionRecorder

CONSTANTS
  Clips,       \* clips a caller may hand over
  Offsets,     \* start offsets
  Periods,     \* one over the frame rates asked for; 0 stands for a rate that is not positive
  AskedTimes,  \* evaluation times
  Slack        \* the steps' 1e-9, in grid steps

(* An offset may take the clip's own time past any finite one; None is not *)
(* a pose there either.                                                    *)
ASSUME PlaybackAssumption ==
  /\ Offsets \cup AskedTimes \subseteq Time
  /\ Periods \cup {Slack} \subseteq Nat
  /\ \A period \in Periods \ {0} : Slack < period
  /\ None \notin [timestamp : Int, joints : [Joints -> Rotation], root : RootMotion,
                  source : Sources]

(* A clip a caller may hand over: its samples' times never decrease, the    *)
(* precondition of SampleClip, which does not check it.  Times may repeat. *)
NeverDecreases(samples) ==
  \A i \in 1 .. Len(samples) - 1 : samples[i].timestamp <= samples[i + 1].timestamp

MotionClip ==
  [samples : Seq(Pose), startTime : Time, endTime : Time, source : Sources \cup {None}]

ASSUME ClipsAssumption ==
  \A loaded \in Clips : loaded \in MotionClip /\ NeverDecreases(loaded.samples)

VARIABLES
  animation,     \* ClipSource::_animation
  startOffset,   \* ClipSource::_startOffset
  resampled      \* what Resample was given and what it made of it, or None

playbackVars == <<recorderVars, animation, startOffset, resampled>>

Buffer == INSTANCE PoseBuffer WITH
  samples <- clip, capacity <- 0, Candidates <- {}, Capacities <- {}, DefaultCapacity <- 1

First(samples) == samples[1].timestamp
Final(samples)  == samples[Len(samples)].timestamp

Restamped(pose, t) == [pose EXCEPT !.timestamp = t]

-----------------------------------------------------------------------------
(* ClipSource.                                                             *)

SampleClip(samples, t) ==
  IF samples = <<>> THEN [status |-> "Unavailable", lag |-> 0, pose |-> None]
  ELSE [status |-> IF t < First(samples) - Tolerance \/ t > Final(samples) + Tolerance
                   THEN "Held" ELSE "Sampled",
        lag    |-> t - Final(samples),
        pose   |-> Restamped(Buffer!SampleBracketed(samples, t), t)]

(* A slip: the consumer's time is taken for the clip's.                    *)
SampleUnshifted(t) == SampleClip(animation.samples, t)

(* On the consumer's clock.                                                *)
SourceSample(t) ==
  LET result == SampleClip(animation.samples, t - startOffset)
  IN  IF result.pose = None THEN result ELSE [result EXCEPT !.pose = Restamped(@, t)]

(* GetTimeRange, the empty set when there is none.                         *)
TimeRange ==
  IF animation.samples = <<>> THEN {}
  ELSE First(animation.samples) + startOffset .. Final(animation.samples) + startOffset

-----------------------------------------------------------------------------
(* Resample.                                                               *)

(* The interval: the declared one, or the samples' own when none is.       *)
Interval(source) ==
  IF source.endTime > source.startTime \/ source.samples = <<>>
  THEN <<source.startTime, source.endTime>>
  ELSE <<First(source.samples), Final(source.samples)>>

SampledAt(source, t) == Restamped(Buffer!SampleBracketed(source.samples, t), t)

(* A slip: the real end is left to the last whole step.                    *)
StepsOnly(source, period) ==
  LET start == Interval(source)[1]
      steps == (Interval(source)[2] - start + Slack) \div period
  IN  [i \in 1 .. steps + 1 |-> start + (i - 1) * period]

(* Uniform steps from the start, and the end when the last falls short of  *)
(* it.                                                                     *)
SampleTimes(source, period) ==
  LET start == Interval(source)[1]
      end   == Interval(source)[2]
      steps == (end - start + Slack) \div period
      times == [i \in 1 .. steps + 1 |-> start + (i - 1) * period]
  IN  IF start + steps * period < end THEN Append(times, end) ELSE times

Resample(source, period) ==
  LET whole == Interval(source)
      times == IF whole[2] <= whole[1] THEN <<whole[1]>> ELSE SampleTimes(source, period)
  IN  IF source.samples = <<>> \/ period = 0 THEN [source EXCEPT !.samples = <<>>]
      ELSE [source EXCEPT !.startTime = whole[1], !.endTime = whole[2],
                          !.samples = [i \in DOMAIN times |-> SampledAt(source, times[i])]]

-----------------------------------------------------------------------------
SetAnimation(loaded) ==
  /\ animation' = loaded
  /\ UNCHANGED <<recorderVars, startOffset, resampled>>

SetStartOffset(offset) ==
  /\ startOffset' = offset
  /\ UNCHANGED <<recorderVars, animation, resampled>>

(* What the source answers is recorded.                                    *)
Replay(t) ==
  /\ Record(SourceSample(t))
  /\ UNCHANGED <<animation, startOffset, resampled>>

ResampleAnimation(period) ==
  /\ resampled' = [from |-> animation, period |-> period, into |-> Resample(animation, period)]
  /\ animation' = resampled'.into
  /\ UNCHANGED <<recorderVars, startOffset>>

EmptyClip == Stamped(<<>>)

PlaybackInit ==
  /\ Init
  /\ animation = EmptyClip
  /\ startOffset = 0
  /\ resampled = None

(* MaxTicks bounds the results recorded; a clip is resampled once, before  *)
(* it is played into a recording.                                          *)
PlaybackNext ==
  \/ \E loaded \in Clips \cup ({taken} \ {None}) : resampled = None /\ clip = <<>> /\ SetAnimation(loaded)
  \/ \E offset \in Offsets : SetStartOffset(offset)
  \/ report.ticks < MaxTicks /\ \E t \in AskedTimes : Replay(t)
  \/ \E period \in Periods : resampled = None /\ clip = <<>> /\ ResampleAnimation(period)
  \/ /\ \/ report.ticks < MaxTicks /\ \E result \in Results : Record(result)
        \/ Take
        \/ Clear
     /\ UNCHANGED <<animation, startOffset, resampled>>

PlaybackSpec == PlaybackInit /\ [][PlaybackNext]_playbackVars

-----------------------------------------------------------------------------
(* Properties.                                                             *)

(* A resampled clip covers the interval its source covers: it starts at    *)
(* the start, reaches the end, and no two of its samples are further apart *)
(* than a step or at one time, where the number of steps is a rounded      *)
(* quotient (Resample.cpp:53).                                             *)
ResampleSpansItsSource ==
  resampled # None /\ resampled.into.samples # <<>> =>
    LET from  == resampled.from.samples
        into  == resampled.into
        s     == into.samples
        start == IF resampled.from.endTime > resampled.from.startTime
                 THEN resampled.from.startTime ELSE First(from)
        end   == IF resampled.from.endTime > resampled.from.startTime
                 THEN resampled.from.endTime ELSE Final(from)
    IN  /\ into.startTime = start /\ into.endTime = end
        /\ First(s) = start
        /\ end <= Final(s) /\ Final(s) <= end + Slack
        /\ \A i \in 1 .. Len(s) - 1 :
             s[i + 1].timestamp - s[i].timestamp \in 1 .. resampled.period

(* Whether a source says it sampled or held agrees with the time range it  *)
(* announces, on the consumer's clock, whatever clip it plays and however  *)
(* it is shifted (MotionSource.cpp:75, MotionSource.cpp:91).               *)
StatusMatchesTimeRange ==
  \A t \in AskedTimes :
    LET result == SourceSample(t)
    IN  /\ result.status = "Unavailable" <=> TimeRange = {}
        /\ result.status = "Sampled"
             <=> \E known \in TimeRange : t - known \in -Tolerance .. Tolerance
        /\ result.pose # None => result.pose.timestamp = t
=============================================================================

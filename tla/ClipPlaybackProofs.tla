-------------------------- MODULE ClipPlaybackProofs --------------------------
(***************************************************************************)
(* Proofs about MotionRecorder and ClipPlayback, for every set of answers  *)
(* and clips and with no bound on the results recorded: the clip gathered  *)
(* and the clip handed over advance strictly, the report accounts for      *)
(* every pose, a clip resampled covers what its source covers, and a       *)
(* source's status agrees with the range it announces.                     *)
(***************************************************************************)
EXTENDS ClipPlayback, SequenceTheorems, SharedLemmas, TLAPS

(* What the accounting rests on: the report has its type, and it balances. *)
RecorderInv == TypeOK /\ ClipAdvances /\ RecordedIsAccountedFor

(* What Record relies on: a ClipSource may answer with a lag that no live  *)
(* source reports, a clip's end minus a shifted time.                      *)
IsAnswer(result) ==
  /\ result.status \in Statuses
  /\ result.lag \in Int
  /\ result.pose \in Pose \cup {None}
  /\ result.pose = None <=> result.status = "Unavailable"

LEMMA ResultsAnswer == \A result \in Results : IsAnswer(result)
BY ResultAssumption, TimeAssumption DEF IsResult, IsAnswer, Instant, Time, NonFinite

(* A result with a pose is counted as recorded, one without is not.        *)
LEMMA CountProperties ==
  ASSUME NEW r \in RecordReport, NEW result, IsAnswer(result)
  PROVE  /\ Count(r, result) \in RecordReport
         /\ Count(r, result).rejected = r.rejected
         /\ Recorded(Count(r, result))
              = Recorded(r) + (IF result.pose = None THEN 0 ELSE 1)
<1> DEFINE ticked == [r EXCEPT !.ticks = @ + 1,
                               !.peakLagSeconds = Larger(@, result.lag)]
<1>1. Larger(r.peakLagSeconds, result.lag) \in Nat
  BY DEF IsAnswer, Larger, RecordReport, Counters
<1> DEFINE lag == Larger(r.peakLagSeconds, result.lag)
<1>2. /\ ticked \in RecordReport
      /\ ticked.sampled = r.sampled
      /\ ticked.held = r.held
      /\ ticked.extrapolated = r.extrapolated
      /\ ticked.unavailable = r.unavailable
      /\ ticked.rejected = r.rejected
  <2>1. lag \in Nat /\ ticked = [r EXCEPT !.ticks = @ + 1, !.peakLagSeconds = lag]
    BY <1>1
  <2>2. r \in [Counters -> Nat] /\ r.ticks \in Nat
    BY DEF RecordReport, Counters
  <2> HIDE DEF lag, ticked
  <2>3. ticked \in [Counters -> Nat]
    <3>1. [r EXCEPT !.ticks = @ + 1] \in [Counters -> Nat]
      BY <2>2
    <3>2. ticked = [[r EXCEPT !.ticks = @ + 1] EXCEPT !.peakLagSeconds = lag]
      BY <2>1, <2>2 DEF Counters
    <3> QED
      BY <2>1, <3>1, <3>2
  <2>4. /\ ticked.sampled = r.sampled
        /\ ticked.held = r.held
        /\ ticked.extrapolated = r.extrapolated
        /\ ticked.unavailable = r.unavailable
        /\ ticked.rejected = r.rejected
    BY <2>1, <2>2 DEF Counters
  <2> QED
    BY <2>3, <2>4 DEF RecordReport
<1> HIDE DEF ticked
<1>3. CASE result.status = "Sampled"
  <2>1. Count(r, result) = [ticked EXCEPT !.sampled = @ + 1]
    BY <1>3 DEF Count, ticked
  <2> QED
    BY <1>2, <1>3, <2>1 DEF IsAnswer, Recorded, RecordReport, Counters
<1>4. CASE result.status = "Held"
  <2>1. Count(r, result) = [ticked EXCEPT !.held = @ + 1]
    BY <1>4 DEF Count, ticked
  <2> QED
    BY <1>2, <1>4, <2>1 DEF IsAnswer, Recorded, RecordReport, Counters
<1>5. CASE result.status = "Extrapolated"
  <2>1. Count(r, result) = [ticked EXCEPT !.extrapolated = @ + 1]
    BY <1>5 DEF Count, ticked
  <2> QED
    BY <1>2, <1>5, <2>1 DEF IsAnswer, Recorded, RecordReport, Counters
<1>6. CASE result.status = "Unavailable"
  <2>1. Count(r, result) = [ticked EXCEPT !.unavailable = @ + 1]
    BY <1>6 DEF Count, ticked
  <2> QED
    BY <1>2, <1>6, <2>1 DEF IsAnswer, Recorded, RecordReport, Counters
<1> QED
  BY <1>3, <1>4, <1>5, <1>6 DEF IsAnswer, Statuses

(* A pose later than the last of an advancing clip extends it.             *)
LEMMA AppendAdvances ==
  ASSUME NEW s \in Seq(Pose), Advances(s), NEW pose \in Pose,
         s = <<>> \/ s[Len(s)].timestamp < pose.timestamp
  PROVE  Append(s, pose) \in Seq(Pose) /\ Advances(Append(s, pose))
<1>1. /\ Append(s, pose) \in Seq(Pose)
      /\ Len(Append(s, pose)) = Len(s) + 1
      /\ \A i \in 1 .. Len(s) : Append(s, pose)[i] = s[i]
      /\ Append(s, pose)[Len(s) + 1] = pose
      /\ Len(s) \in Nat
  BY AppendProperties, LenProperties
<1>2. ASSUME NEW i \in 1 .. Len(s)
      PROVE  Append(s, pose)[i].timestamp < Append(s, pose)[i + 1].timestamp
  <2>1. CASE i = Len(s)
    BY <1>1, <2>1, EmptySeq
  <2>2. CASE i \in 1 .. Len(s) - 1
    BY <1>1, <2>2 DEF Advances
  <2> QED
    BY <1>1, <2>1, <2>2
<1> QED
  BY <1>1, <1>2 DEF Advances

LEMMA EmptyAdvances == <<>> \in Seq(Pose) /\ Len(<<>>) = 0 /\ Advances(<<>>)
  BY EmptySeq DEF Advances

(* A clip is stamped with times and a source of its own poses.             *)
LEMMA StampedProperties ==
  ASSUME NEW s \in Seq(Pose)
  PROVE  /\ Stamped(s).samples = s
         /\ Stamped(s).startTime \in Time
         /\ Stamped(s).endTime \in Time
         /\ Stamped(s).source \in Sources \cup {None}
<1>1. CASE s = <<>>
  BY <1>1, TimeAssumption DEF Stamped, Time
<1>2. CASE s # <<>>
  <2>1. Len(s) \in Nat \ {0}
    BY <1>2, EmptySeq
  <2>2. s[1] \in Pose /\ s[Len(s)] \in Pose
    BY <2>1, ElementOfSeq
  <2> QED
    BY <1>2, <2>2 DEF Stamped, Pose
<1> QED
  BY <1>1, <1>2

LEMMA InitRecorderInv == Init => RecorderInv
  BY EmptyAdvances
     DEF Init, RecorderInv, TypeOK, ClipAdvances, RecordedIsAccountedFor,
         NoReport, RecordReport, Counters, Recorded

(* The three outcomes of Record: nothing to keep, refused, kept.           *)
LEMMA RecordStep ==
  ASSUME RecorderInv, NEW result, IsAnswer(result), Record(result)
  PROVE  RecorderInv'
<1> USE DEF RecorderInv
<1>1. IsAnswer(result)
  OBVIOUS
<1>2. /\ clip \in Seq(Pose) /\ Len(clip) \in Nat
      /\ report \in RecordReport /\ handedOver \in Nat
      /\ Advances(clip)
      /\ Recorded(report) = report.rejected + handedOver + Len(clip)
  BY LenProperties DEF TypeOK, ClipAdvances, RecordedIsAccountedFor
<1>3. UNCHANGED <<taken, handedOver>>
  BY DEF Record
<1> DEFINE counted == Count(report, result)
<1>4. /\ counted \in RecordReport
      /\ counted.rejected = report.rejected
      /\ Recorded(counted) = Recorded(report) + (IF result.pose = None THEN 0 ELSE 1)
  BY <1>1, <1>2, CountProperties
<1>5. Recorded(report) \in Nat /\ report.rejected \in Nat
  BY <1>2 DEF Recorded, RecordReport, Counters
<1> HIDE DEF counted
<1>6. CASE result.pose = None
  <2>1. report' = counted /\ clip' = clip
    BY <1>6 DEF Record, counted
  <2> QED
    BY <1>2, <1>3, <1>4, <1>5, <1>6, <2>1
       DEF TypeOK, ClipAdvances, RecordedIsAccountedFor
<1>7. CASE result.pose # None /\ DoesNotAdvance(result.pose)
  <2>1. report' = [counted EXCEPT !.rejected = @ + 1] /\ clip' = clip
    BY <1>7 DEF Record, counted
  <2>2. /\ report' \in RecordReport
        /\ report'.rejected = counted.rejected + 1
        /\ Recorded(report') = Recorded(counted)
    BY <1>4, <2>1 DEF RecordReport, Counters, Recorded
  <2>3. Recorded(report') = report'.rejected + handedOver + Len(clip)
    BY <1>2, <1>4, <1>5, <1>7, <2>2
  <2> QED
    BY <1>2, <1>3, <2>1, <2>2, <2>3
       DEF TypeOK, ClipAdvances, RecordedIsAccountedFor
<1>8. CASE result.pose # None /\ ~DoesNotAdvance(result.pose)
  <2>1. report' = counted /\ clip' = Append(clip, result.pose)
    BY <1>8 DEF Record, counted
  <2>2. result.pose \in Pose
    BY <1>1, <1>8 DEF IsAnswer
  <2>3. clip = <<>> \/ clip[Len(clip)].timestamp < result.pose.timestamp
    <3>1. ASSUME clip # <<>>  PROVE  clip[Len(clip)] \in Pose
      BY <1>2, <3>1, EmptySeq, ElementOfSeq
    <3> QED
      BY <1>8, <2>2, <3>1, TimeAssumption DEF DoesNotAdvance, Pose, Time
  <2>4. /\ clip' \in Seq(Pose)
        /\ Advances(clip')
        /\ Len(clip') = Len(clip) + 1
    BY <1>2, <2>1, <2>2, <2>3, AppendAdvances, AppendProperties
  <2>5. Recorded(report') = report'.rejected + handedOver + Len(clip')
    <3>1. Recorded(report') = Recorded(counted) /\ report'.rejected = counted.rejected
      BY <2>1
    <3>2. Recorded(counted) = Recorded(report) + 1 /\ counted.rejected = report.rejected
      BY <1>4, <1>8
    <3>3. Recorded(counted) = report.rejected + handedOver + (Len(clip) + 1)
      BY <1>2, <1>5, <3>2
    <3> QED
      BY <2>4, <3>1, <3>2, <3>3
  <2> QED
    BY <1>2, <1>3, <1>4, <2>1, <2>4, <2>5
       DEF TypeOK, ClipAdvances, RecordedIsAccountedFor
<1> QED
  BY <1>6, <1>7, <1>8

(* Taking moves poses from the clip to what was handed over.               *)
LEMMA TakeStep ==
  ASSUME RecorderInv, Take
  PROVE  RecorderInv'
<1>1. clip \in Seq(Pose) /\ Len(clip) \in Nat /\ handedOver \in Nat
  BY LenProperties DEF RecorderInv, TypeOK
<1>2. /\ taken' = Stamped(clip) /\ clip' = <<>>
      /\ handedOver' = handedOver + Len(clip) /\ report' = report
  BY DEF Take
<1>3. TypeOK'
  BY <1>1, <1>2, EmptyAdvances, StampedProperties DEF RecorderInv, TypeOK
<1>4. ClipAdvances'
  BY <1>1, <1>2, EmptyAdvances, StampedProperties DEF RecorderInv, ClipAdvances
<1>5. RecordedIsAccountedFor'
  <2>1. report.rejected \in Nat
    BY DEF RecorderInv, TypeOK, RecordReport, Counters
  <2> QED
    BY <1>1, <1>2, <2>1, EmptyAdvances DEF RecorderInv, RecordedIsAccountedFor
<1> QED
  BY <1>3, <1>4, <1>5 DEF RecorderInv

(* Clearing drops the clip and the report together.                        *)
LEMMA ClearStep ==
  ASSUME RecorderInv, Clear
  PROVE  RecorderInv'
<1>1. /\ clip' = <<>> /\ report' = NoReport /\ handedOver' = 0 /\ taken' = taken
  BY DEF Clear
<1>2. /\ NoReport \in RecordReport
      /\ Recorded(NoReport) = 0 /\ NoReport.rejected = 0
  BY DEF NoReport, RecordReport, Counters, Recorded
<1> QED
  BY <1>1, <1>2, EmptyAdvances
     DEF RecorderInv, TypeOK, ClipAdvances, RecordedIsAccountedFor

LEMMA NextRecorderInv == RecorderInv /\ [Next]_recorderVars => RecorderInv'
<1> SUFFICES ASSUME RecorderInv, [Next]_recorderVars
             PROVE  RecorderInv'
  OBVIOUS
<1>1. CASE UNCHANGED recorderVars
  BY <1>1 DEF recorderVars, RecorderInv, TypeOK, ClipAdvances, RecordedIsAccountedFor
<1>2. ASSUME NEW result \in Results, Record(result)
      PROVE  RecorderInv'
  BY <1>2, RecordStep, ResultsAnswer
<1>3. CASE Take
  BY <1>3, TakeStep
<1>4. CASE Clear
  BY <1>4, ClearStep
<1> QED
  BY <1>1, <1>2, <1>3, <1>4 DEF Next

(* The clip holds poses, the report counts in naturals, and a clip handed  *)
(* over names times and a source of its own.                               *)
THEOREM RecorderTypeCorrect == Spec => []TypeOK
<1>1. RecorderInv => TypeOK
  BY DEF RecorderInv
<1> QED
  BY <1>1, InitRecorderInv, NextRecorderInv, PTL DEF Spec

(* The clip gathered and the clip handed over advance strictly, whatever   *)
(* times the answers carry and however often the clip is taken or dropped. *)
THEOREM RecorderClipAdvances == Spec => []ClipAdvances
<1>1. RecorderInv => ClipAdvances
  BY DEF RecorderInv
<1> QED
  BY <1>1, InitRecorderInv, NextRecorderInv, PTL DEF Spec

(* Every pose the report counts was refused, is in the clip, or left with  *)
(* a clip taken before.                                                    *)
THEOREM RecorderAccountsForPoses == Spec => []RecordedIsAccountedFor
<1>1. RecorderInv => RecordedIsAccountedFor
  BY DEF RecorderInv
<1> QED
  BY <1>1, InitRecorderInv, NextRecorderInv, PTL DEF Spec

-----------------------------------------------------------------------------
(* Playback.  What PoseBufferProofs says of a bracketed read, in the names *)
(* of ClipPlayback.                                                        *)

BufferProofs == INSTANCE PoseBufferProofs WITH
  samples <- clip, capacity <- 0, Candidates <- {}, Capacities <- {}, DefaultCapacity <- 1

TimedPose == BufferProofs!TimedPose

LEMMA SamePose == BufferProofs!Pose = Pose
BY DEF BufferProofs!Pose, Pose, BufferProofs!Time, Time, BufferProofs!RootMotion,
       RootMotion, BufferProofs!Rotation, Rotation, BufferProofs!Provenance,
       Provenance, BufferProofs!Velocity, Velocity

LEMMA TimedPoses ==
  /\ TimedPose = [timestamp : Int, joints : [Joints -> Rotation], root : RootMotion,
                  source : Sources]
  /\ \A s \in Seq(Pose) : s \in Seq(TimedPose)
<1>1. TimedPose = [timestamp : Int, joints : [Joints -> Rotation], root : RootMotion,
                   source : Sources]
  BY DEF TimedPose, BufferProofs!TimedPose, BufferProofs!RootMotion,
         RootMotion, BufferProofs!Rotation, Rotation, BufferProofs!Provenance,
         Provenance, BufferProofs!Velocity, Velocity, BufferProofs!Time, Time
<1>2. \A s \in Seq(Pose) : s \in Seq(TimedPose)
  BY BufferProofs!PosesAreTimed, SamePose, TimeAssumption, NoneAssumption DEF TimedPose
<1> QED
  BY <1>1, <1>2

LEMMA SameRead == \A s, t : Buffer!SampleBracketed(s, t) = BufferProofs!SampleBracketed(s, t)
BY DEF Buffer!SampleBracketed, BufferProofs!SampleBracketed, Buffer!Newest,
       BufferProofs!Newest, Buffer!Upper, BufferProofs!Upper, Buffer!LerpPose,
       BufferProofs!LerpPose, Buffer!LerpRootMotion, BufferProofs!LerpRootMotion,
       Buffer!SlerpShortest, BufferProofs!SlerpShortest, Buffer!LerpVelocity,
       BufferProofs!LerpVelocity, Buffer!Absent, BufferProofs!Absent, Buffer!Still,
       BufferProofs!Still

LEMMA ReadIsTimed ==
  ASSUME NEW s \in Seq(TimedPose), s # <<>>, NEW t \in Int
  PROVE  Buffer!SampleBracketed(s, t) \in TimedPose
BY BufferProofs!SampleFromNeighbours, SameRead, TimeAssumption, NoneAssumption,
   SamePose DEF TimedPose, BufferProofs!PushedPose

(* Moving a pose in time keeps the rest of it.                             *)
LEMMA RestampedType ==
  ASSUME NEW pose \in TimedPose
  PROVE  /\ \A t \in Int : /\ Restamped(pose, t) \in TimedPose
                           /\ Restamped(pose, t).timestamp = t
         /\ \A t \in Time : Restamped(pose, t) \in Pose
BY TimedPoses DEF Restamped, Pose, Time

-----------------------------------------------------------------------------
(* What playback relies on: the clip a source plays is timed and in order, *)
(* wherever it came from, and its offset is a time.                        *)

TimedClip ==
  [samples : Seq(TimedPose), startTime : Int, endTime : Int,
   source : Sources \cup {None}]

Playable(c) == c \in TimedClip /\ NeverDecreases(c.samples)

PlaybackInv ==
  /\ RecorderInv
  /\ taken # None => Playable(taken)
  /\ Playable(animation)
  /\ startOffset \in Time
  /\ ResampleSpansItsSource

LEMMA TimesOf ==
  ASSUME NEW s \in Seq(TimedPose)
  PROVE  /\ Len(s) \in Nat
         /\ s # <<>> => Len(s) \in Nat \ {0}
         /\ \A i \in 1 .. Len(s) : s[i] \in TimedPose /\ s[i].timestamp \in Int
         /\ s # <<>> => First(s) \in Int /\ Final(s) \in Int
<1>1. Len(s) \in Nat /\ (s # <<>> => Len(s) \in Nat \ {0})
  BY LenProperties, EmptySeq
<1>2. ASSUME NEW i \in 1 .. Len(s)
      PROVE  s[i] \in TimedPose /\ s[i].timestamp \in Int
  <2>1. s[i] \in TimedPose
    BY ElementOfSeq
  <2> QED
    BY <2>1, TimedPoses
<1> QED
  BY <1>1, <1>2 DEF First, Final

(* A clip in order ends no earlier than it starts: a first sample later    *)
(* than its successor's would need a decrease between.                     *)
LEMMA FirstIsNotLater ==
  ASSUME NEW s \in Seq(TimedPose), s # <<>>, NeverDecreases(s)
  PROVE  First(s) <= Final(s)
<1>1. /\ Len(s) \in Nat \ {0}
      /\ \A i \in 1 .. Len(s) : s[i].timestamp \in Int
  BY TimesOf
<1> DEFINE Early == {i \in 1 .. Len(s) : s[i].timestamp < s[1].timestamp}
<1>2. CASE Early = {}
  BY <1>1, <1>2 DEF First, Final
<1>3. CASE Early # {}
  <2>1. PICK m \in Early : \A i \in Early : m <= i
    <3>1. Early \subseteq Nat
      BY <1>1
    <3> HIDE DEF Early
    <3> QED
      BY <1>3, <3>1, SmallestIndex
  <2>2. m \in 2 .. Len(s) /\ m - 1 \in 1 .. Len(s) - 1 /\ m - 1 \notin Early
    BY <1>1, <2>1
  <2>3. s[m - 1].timestamp <= s[(m - 1) + 1].timestamp /\ (m - 1) + 1 = m
    BY <2>2 DEF NeverDecreases
  <2> QED
    BY <1>1, <2>1, <2>2, <2>3
<1> QED
  BY <1>2, <1>3

LEMMA CallersClipsPlay == \A loaded \in Clips : Playable(loaded)
<1> SUFFICES ASSUME NEW loaded \in Clips
             PROVE  Playable(loaded)
  OBVIOUS
<1>1. loaded \in MotionClip /\ NeverDecreases(loaded.samples)
  BY ClipsAssumption
<1>2. loaded.samples \in Seq(TimedPose)
  BY <1>1, TimedPoses DEF MotionClip
<1> QED
  BY <1>1, <1>2 DEF Playable, TimedClip, MotionClip, Time

(* A recorded clip, stamped, plays.                                        *)
LEMMA StampedPlays ==
  ASSUME NEW s \in Seq(Pose), Advances(s)
  PROVE  Playable(Stamped(s))
<1>1. /\ Stamped(s).samples = s
      /\ Stamped(s).startTime \in Int /\ Stamped(s).endTime \in Int
      /\ Stamped(s).source \in Sources \cup {None}
  BY StampedProperties DEF Time
<1>2. s \in Seq(TimedPose)
  BY TimedPoses
<1>3. Stamped(s) \in TimedClip
  BY <1>1, <1>2 DEF Stamped, TimedClip
<1>4. NeverDecreases(s)
  <2> SUFFICES ASSUME NEW i \in 1 .. Len(s) - 1
               PROVE  s[i].timestamp <= s[i + 1].timestamp
    BY DEF NeverDecreases
  <2>1. s[i].timestamp \in Int /\ s[i + 1].timestamp \in Int
    BY <1>2, TimesOf
  <2> QED
    BY <2>1 DEF Advances
<1> QED
  BY <1>1, <1>3, <1>4 DEF Playable

-----------------------------------------------------------------------------
(* Resample.                                                               *)

(* What the instants of a resampled clip have to be.                       *)
Spans(times, start, end, period) ==
  /\ times \in Seq(Int) /\ times # <<>>
  /\ times[1] = start
  /\ end <= times[Len(times)] /\ times[Len(times)] <= end + Slack
  /\ \A i \in 1 .. Len(times) - 1 : times[i + 1] - times[i] \in 1 .. period

(* The rounded quotient overshoots by the slack at most and falls short by *)
(* less than a step, which the end then makes up.                          *)
LEMMA SampleTimesSpan ==
  ASSUME NEW source, NEW start \in Int, NEW end \in Int, start < end,
         Interval(source) = <<start, end>>, NEW period \in Periods \ {0}
  PROVE  Spans(SampleTimes(source, period), start, end, period)
<1> DEFINE steps == (end - start + Slack) \div period
           times == [i \in 1 .. steps + 1 |-> start + (i - 1) * period]
<1>1. Slack \in Nat /\ period \in Nat \ {0} /\ Slack < period
  BY PlaybackAssumption
<1>2. /\ steps \in Nat
      /\ steps * period <= end - start + Slack
      /\ end - start + Slack < steps * period + period
  <2>1. end - start + Slack \in Nat
    BY <1>1
  <2> QED
    BY <1>1, <2>1, Quotient
<1>3. SampleTimes(source, period)
        = IF start + steps * period < end THEN Append(times, end) ELSE times
  BY DEF SampleTimes
<1> HIDE DEF steps
<1>4. \A i \in Int : i * period \in Int /\ (i + 1) * period - i * period = period
  BY <1>1, Multiples
<1>5. \A i \in 1 .. steps + 1 : start + (i - 1) * period \in Int
  <2> TAKE i \in 1 .. steps + 1
  <2>1. i - 1 \in Int
    BY <1>2
  <2>2. (i - 1) * period \in Int
    BY <1>4, <2>1
  <2> QED
    BY <2>2
<1>6. times \in Seq(Int) /\ Len(times) = steps + 1
  <2>1. steps + 1 \in Nat
    BY <1>2
  <2> QED
    BY <1>5, <2>1, IsASeq, LenProperties
<1>7. times[1] = start /\ times[steps + 1] = start + steps * period
  <2>1. 1 \in 1 .. steps + 1 /\ steps + 1 \in 1 .. steps + 1
    BY <1>2
  <2>2. (1 - 1) * period = 0 /\ (steps + 1) - 1 = steps
    BY <1>1, <1>2
  <2>3. times[1] = start + (1 - 1) * period /\ times[steps + 1] = start + ((steps + 1) - 1) * period
    BY <2>1
  <2> QED
    BY <2>2, <2>3
<1>8. \A i \in 1 .. steps : times[i + 1] - times[i] = period
  <2> TAKE i \in 1 .. steps
  <2>1. i \in 1 .. steps + 1 /\ i + 1 \in 1 .. steps + 1 /\ i - 1 \in Int
    BY <1>2
  <2>2. times[i] = start + (i - 1) * period /\ times[i + 1] = start + ((i + 1) - 1) * period
    BY <2>1
  <2>3. ((i - 1) + 1) * period - (i - 1) * period = period /\ (i - 1) * period \in Int
    BY <1>4, <2>1
  <2>4. (i + 1) - 1 = (i - 1) + 1 /\ ((i - 1) + 1) * period \in Int
    BY <1>4, <2>1
  <2> QED
    BY <2>2, <2>3, <2>4
<1>9. steps * period \in Int
  BY <1>2, <1>4
<1> HIDE DEF times
<1>10. CASE start + steps * period < end
  <2> DEFINE all == Append(times, end)
  <2>1. /\ all \in Seq(Int) /\ Len(all) = steps + 2
        /\ \A i \in 1 .. steps + 1 : all[i] = times[i]
        /\ all[steps + 2] = end
    <3>1. (steps + 1) + 1 = steps + 2
      BY <1>2
    <3> QED
      BY <1>6, <3>1, AppendProperties
  <2>2. SampleTimes(source, period) = all
    BY <1>3, <1>10
  <2> HIDE DEF all
  <2>3. all[1] = start /\ all[Len(all)] = end
    BY <1>2, <1>7, <2>1
  <2>4. \A i \in 1 .. Len(all) - 1 : all[i + 1] - all[i] \in 1 .. period
    <3> TAKE i \in 1 .. Len(all) - 1
    <3>1. CASE i \in 1 .. steps
      <4>1. all[i] = times[i] /\ all[i + 1] = times[i + 1]
        BY <1>2, <2>1, <3>1
      <4> QED
        BY <1>1, <1>8, <3>1, <4>1
    <3>2. CASE i = steps + 1
      <4>1. all[i] = start + steps * period /\ all[i + 1] = end
        <5>1. i \in 1 .. steps + 1 /\ i + 1 = steps + 2
          BY <1>2, <3>2
        <5> QED
          BY <1>7, <2>1, <3>2, <5>1
      <4> QED
        BY <1>1, <1>2, <1>9, <1>10, <4>1
    <3> QED
      BY <1>2, <2>1, <3>1, <3>2
  <2>5. all # <<>>
    BY <1>2, <2>1, EmptySeq
  <2> QED
    BY <1>1, <2>1, <2>2, <2>3, <2>4, <2>5 DEF Spans
<1>11. CASE ~(start + steps * period < end)
  <2>1. SampleTimes(source, period) = times
    BY <1>3, <1>11
  <2>2. times # <<>>
    BY <1>2, <1>6, EmptySeq
  <2>3. end <= times[Len(times)] /\ times[Len(times)] <= end + Slack
    BY <1>1, <1>2, <1>6, <1>7, <1>9, <1>11
  <2>4. \A i \in 1 .. Len(times) - 1 : times[i + 1] - times[i] \in 1 .. period
    <3>1. Len(times) - 1 = steps
      BY <1>2, <1>6
    <3> QED
      BY <1>1, <1>8, <3>1
  <2> QED
    BY <1>6, <1>7, <2>1, <2>2, <2>3, <2>4 DEF Spans
<1> QED
  BY <1>10, <1>11

(* The declared interval, or the samples' own, never runs backwards.       *)
LEMMA IntervalProperties ==
  ASSUME NEW source, Playable(source), source.samples # <<>>
  PROVE  LET start == IF source.endTime > source.startTime
                      THEN source.startTime ELSE First(source.samples)
             end   == IF source.endTime > source.startTime
                      THEN source.endTime ELSE Final(source.samples)
         IN  /\ Interval(source) = <<start, end>>
             /\ start \in Int /\ end \in Int /\ start <= end
<1>1. /\ source.samples \in Seq(TimedPose) /\ NeverDecreases(source.samples)
      /\ source.startTime \in Int /\ source.endTime \in Int
  BY DEF Playable, TimedClip
<1>2. /\ First(source.samples) \in Int /\ Final(source.samples) \in Int
      /\ First(source.samples) <= Final(source.samples)
  BY <1>1, TimesOf, FirstIsNotLater
<1> QED
  BY <1>1, <1>2 DEF Interval

(* A clip of its own is resampled into what spans its interval.            *)
LEMMA ResampleProperties ==
  ASSUME NEW source, Playable(source), source.samples # <<>>,
         NEW period \in Periods \ {0},
         NEW start, NEW end, Interval(source) = <<start, end>>,
         start \in Int, end \in Int, start <= end
  PROVE  LET into == Resample(source, period)
         IN  /\ Playable(into)
             /\ into.startTime = start /\ into.endTime = end
             /\ into.samples # <<>>
             /\ First(into.samples) = start
             /\ end <= Final(into.samples) /\ Final(into.samples) <= end + Slack
             /\ \A i \in 1 .. Len(into.samples) - 1 :
                  into.samples[i + 1].timestamp - into.samples[i].timestamp \in 1 .. period
<1> DEFINE times == IF end <= start THEN <<start>> ELSE SampleTimes(source, period)
           made  == [i \in DOMAIN times |-> SampledAt(source, times[i])]
           into  == Resample(source, period)
<1>1. Slack \in Nat /\ period \in Nat \ {0}
  BY PlaybackAssumption
<1>2. Spans(times, start, end, period)
  <2>1. CASE end <= start
    <3>1. times = <<start>> /\ end = start
      BY <2>1
    <3>2. <<start>> \in Seq(Int) /\ Len(<<start>>) = 1 /\ <<start>>[1] = start
          /\ <<start>> # <<>>
      OBVIOUS
    <3> QED
      BY <1>1, <3>1, <3>2 DEF Spans
  <2>2. CASE ~(end <= start)
    BY <2>2, SampleTimesSpan
  <2> QED
    BY <2>1, <2>2
<1> HIDE DEF times
<1>3. /\ Len(times) \in Nat \ {0} /\ DOMAIN times = 1 .. Len(times)
      /\ \A i \in 1 .. Len(times) : times[i] \in Int
  <2>1. times \in Seq(Int) /\ times # <<>>
    BY <1>2 DEF Spans
  <2>2. \A i \in 1 .. Len(times) : times[i] \in Int
    BY <2>1, ElementOfSeq
  <2> QED
    BY <2>1, <2>2, LenProperties, EmptySeq
<1>4. \A i \in 1 .. Len(times) : /\ SampledAt(source, times[i]) \in TimedPose
                                 /\ SampledAt(source, times[i]).timestamp = times[i]
  <2> TAKE i \in 1 .. Len(times)
  <2>1. times[i] \in Int /\ source.samples \in Seq(TimedPose)
    BY <1>3 DEF Playable, TimedClip
  <2>2. Buffer!SampleBracketed(source.samples, times[i]) \in TimedPose
    BY <2>1, ReadIsTimed
  <2> QED
    BY <2>1, <2>2, RestampedType DEF SampledAt
<1>5. /\ made \in Seq(TimedPose) /\ Len(made) = Len(times) /\ made # <<>>
      /\ \A i \in 1 .. Len(times) : made[i].timestamp = times[i]
  <2>1. made = [i \in 1 .. Len(times) |-> SampledAt(source, times[i])]
    BY <1>3
  <2>2. made \in Seq(TimedPose)
    BY <1>3, <1>4, <2>1, IsASeq
  <2>3. Len(made) = Len(times)
    BY <1>3, <2>1, <2>2, LenProperties
  <2>4. \A i \in 1 .. Len(times) : made[i].timestamp = times[i]
    BY <1>4, <2>1
  <2> QED
    BY <1>3, <2>2, <2>3, <2>4, EmptySeq
<1>6. into = [source EXCEPT !.startTime = start, !.endTime = end, !.samples = made]
  BY DEF Resample, times
<1> HIDE DEF made, into
<1>7. /\ into.samples = made /\ into.startTime = start /\ into.endTime = end
      /\ into \in TimedClip
  BY <1>5, <1>6 DEF Playable, TimedClip
<1>8. /\ First(made) = start
      /\ end <= Final(made) /\ Final(made) <= end + Slack
      /\ \A i \in 1 .. Len(made) - 1 :
           made[i + 1].timestamp - made[i].timestamp \in 1 .. period
  <2>1. 1 \in 1 .. Len(times) /\ Len(times) \in 1 .. Len(times)
    BY <1>3
  <2>2. First(made) = times[1] /\ Final(made) = times[Len(times)]
    BY <1>5, <2>1 DEF First, Final
  <2>3. \A i \in 1 .. Len(times) - 1 :
          made[i + 1].timestamp = times[i + 1] /\ made[i].timestamp = times[i]
    BY <1>3, <1>5
  <2> QED
    BY <1>2, <1>5, <2>2, <2>3 DEF Spans
<1>9. NeverDecreases(made)
  <2> SUFFICES ASSUME NEW i \in 1 .. Len(made) - 1
               PROVE  made[i].timestamp <= made[i + 1].timestamp
    BY DEF NeverDecreases
  <2>1. made[i + 1].timestamp \in Int /\ made[i].timestamp \in Int
    BY <1>3, <1>5, TimesOf
  <2>2. made[i + 1].timestamp - made[i].timestamp \in 1 .. period
    BY <1>8
  <2> QED
    BY <1>1, <2>1, <2>2
<1>10. Playable(into)
  BY <1>7, <1>9 DEF Playable
<1> QED
  BY <1>5, <1>7, <1>8, <1>10 DEF into

(* Without samples, or at a rate that is not positive, no samples.         *)
LEMMA NothingResampled ==
  ASSUME NEW source, Playable(source), NEW period,
         source.samples = <<>> \/ period = 0
  PROVE  Playable(Resample(source, period)) /\ Resample(source, period).samples = <<>>
<1>1. Resample(source, period) = [source EXCEPT !.samples = <<>>]
  BY DEF Resample
<1>2. <<>> \in Seq(TimedPose) /\ Len(<<>>) = 0
  BY EmptySeq
<1>3. Resample(source, period) \in TimedClip /\ Resample(source, period).samples = <<>>
  BY <1>1, <1>2 DEF Playable, TimedClip
<1> QED
  BY <1>2, <1>3 DEF Playable, NeverDecreases

LEMMA ResampleStep ==
  ASSUME PlaybackInv, NEW period \in Periods, ResampleAnimation(period)
  PROVE  Playable(animation') /\ ResampleSpansItsSource'
<1> DEFINE into  == Resample(animation, period)
           start == IF animation.endTime > animation.startTime
                    THEN animation.startTime ELSE First(animation.samples)
           end   == IF animation.endTime > animation.startTime
                    THEN animation.endTime ELSE Final(animation.samples)
<1>1. Playable(animation)
  BY DEF PlaybackInv
<1>2. /\ resampled' = [from |-> animation, period |-> period, into |-> into]
      /\ animation' = into
  BY DEF ResampleAnimation
<1>3. CASE animation.samples = <<>> \/ period = 0
  <2>1. Playable(into) /\ into.samples = <<>>
    BY <1>1, <1>3, NothingResampled
  <2> HIDE DEF into
  <2>2. resampled'.into.samples = <<>>
    BY <1>2, <2>1
  <2> QED
    BY <1>2, <2>1, <2>2 DEF ResampleSpansItsSource
<1>4. CASE animation.samples # <<>> /\ period # 0
  <2>1. /\ Interval(animation) = <<start, end>>
        /\ start \in Int /\ end \in Int /\ start <= end
    BY <1>1, <1>4, IntervalProperties
  <2> HIDE DEF start, end
  <2>2. /\ Playable(into)
        /\ into.startTime = start /\ into.endTime = end
        /\ First(into.samples) = start
        /\ end <= Final(into.samples) /\ Final(into.samples) <= end + Slack
        /\ \A i \in 1 .. Len(into.samples) - 1 :
             into.samples[i + 1].timestamp - into.samples[i].timestamp \in 1 .. period
    BY <1>1, <1>4, <2>1, ResampleProperties
  <2> HIDE DEF into
  <2>3. resampled'.from = animation /\ resampled'.into = into /\ resampled'.period = period
    BY <1>2
  <2> QED
    BY <1>2, <2>2, <2>3 DEF ResampleSpansItsSource, start, end
<1> QED
  BY <1>3, <1>4

-----------------------------------------------------------------------------
(* ClipSource: what it answers a recorder may take, stamped at the time    *)
(* that was asked.                                                         *)

LEMMA SourceAnswers ==
  ASSUME Playable(animation), startOffset \in Time, NEW t \in Time
  PROVE  /\ IsAnswer(SourceSample(t))
         /\ SourceSample(t).status = SampleClip(animation.samples, t - startOffset).status
         /\ SourceSample(t).pose # None => SourceSample(t).pose.timestamp = t
<1> DEFINE s    == animation.samples
           u    == t - startOffset
           here == SampleClip(s, u)
<1>1. s \in Seq(TimedPose) /\ u \in Int /\ t \in Int
  BY DEF Playable, TimedClip, Time
<1>2. SourceSample(t)
        = IF here.pose = None THEN here
          ELSE [here EXCEPT !.pose = Restamped(here.pose, t)]
  BY DEF SourceSample
<1>3. CASE s = <<>>
  <2>1. here = [status |-> "Unavailable", lag |-> 0, pose |-> None]
    BY <1>3 DEF SampleClip
  <2> HIDE DEF here
  <2>2. SourceSample(t) = here
    BY <1>2, <2>1
  <2> QED
    BY <2>1, <2>2 DEF IsAnswer, Statuses, here
<1>4. CASE s # <<>>
  <2> DEFINE read   == Restamped(Buffer!SampleBracketed(s, u), u)
             status == IF u < First(s) - Tolerance \/ u > Final(s) + Tolerance
                       THEN "Held" ELSE "Sampled"
  <2>1. Buffer!SampleBracketed(s, u) \in TimedPose
    BY <1>1, <1>4, ReadIsTimed
  <2>2. /\ read \in TimedPose
        /\ Restamped(read, t) \in Pose /\ Restamped(read, t).timestamp = t
    <3>1. read \in TimedPose
      BY <1>1, <2>1, RestampedType
    <3> HIDE DEF read
    <3> QED
      BY <1>1, <3>1, RestampedType
  <2>3. u - Final(s) \in Int
    BY <1>1, <1>4, TimesOf
  <2>4. here = [status |-> status, lag |-> u - Final(s), pose |-> read]
    BY <1>4 DEF SampleClip
  <2> HIDE DEF here, read, status
  <2>5. here.pose = read /\ here.lag \in Int /\ here.status = status
    BY <2>3, <2>4
  <2>6. status \in {"Held", "Sampled"}
    BY DEF status
  <2>7. here.pose # None
    BY <2>2, <2>5, TimedPoses, PlaybackAssumption
  <2>8. SourceSample(t) = [here EXCEPT !.pose = Restamped(read, t)]
    BY <1>2, <2>5, <2>7
  <2>9. /\ SourceSample(t).status = here.status /\ SourceSample(t).lag = here.lag
        /\ SourceSample(t).pose = Restamped(read, t)
    BY <2>4, <2>8
  <2>10. Restamped(read, t) # None
    BY <2>2, NoneAssumption
  <2> QED
    BY <2>2, <2>5, <2>6, <2>9, <2>10 DEF IsAnswer, Statuses, here
<1> QED
  BY <1>3, <1>4

(* The announced range is empty exactly without samples, and a time is     *)
(* within tolerance of it exactly when it is not past either end by more.  *)
LEMMA StatusAgrees ==
  ASSUME Playable(animation), startOffset \in Time, NEW t \in Time
  PROVE  /\ SampleClip(animation.samples, t - startOffset).status = "Unavailable"
              <=> TimeRange = {}
         /\ SampleClip(animation.samples, t - startOffset).status = "Sampled"
              <=> \E known \in TimeRange : t - known \in -Tolerance .. Tolerance
<1> DEFINE s == animation.samples
           u == t - startOffset
<1>1. s \in Seq(TimedPose) /\ NeverDecreases(s) /\ t \in Int /\ startOffset \in Int
  BY DEF Playable, TimedClip, Time
<1>2. CASE s = <<>>
  BY <1>2 DEF SampleClip, TimeRange
<1>3. CASE s # <<>>
  <2> DEFINE a == First(s) + startOffset
             b == Final(s) + startOffset
  <2>1. /\ First(s) \in Int /\ Final(s) \in Int /\ First(s) <= Final(s)
        /\ Tolerance \in Nat
    BY <1>1, <1>3, TimesOf, FirstIsNotLater, TimeAssumption
  <2>2. a \in Int /\ b \in Int /\ a <= b
    BY <1>1, <2>1
  <2>3. TimeRange = a .. b
    BY <1>3 DEF TimeRange
  <2>4. SampleClip(s, u).status
          = IF t < a - Tolerance \/ t > b + Tolerance THEN "Held" ELSE "Sampled"
    BY <1>1, <1>3, <2>1 DEF SampleClip
  <2> HIDE DEF a, b
  <2>5. (\E known \in a .. b : t - known \in -Tolerance .. Tolerance)
          <=> ~(t < a - Tolerance \/ t > b + Tolerance)
    <3>1. ASSUME NEW known \in a .. b, t - known \in -Tolerance .. Tolerance
          PROVE  ~(t < a - Tolerance \/ t > b + Tolerance)
      BY <1>1, <2>1, <2>2, <3>1
    <3>2. ASSUME ~(t < a - Tolerance \/ t > b + Tolerance)
          PROVE  \E known \in a .. b : t - known \in -Tolerance .. Tolerance
      <4>1. CASE t < a
        <5>1. a \in a .. b /\ t - a \in -Tolerance .. Tolerance
          BY <1>1, <2>1, <2>2, <3>2, <4>1
        <5> QED
          BY <5>1
      <4>2. CASE t > b
        <5>1. b \in a .. b /\ t - b \in -Tolerance .. Tolerance
          BY <1>1, <2>1, <2>2, <3>2, <4>2
        <5> QED
          BY <5>1
      <4>3. CASE t \in a .. b
        <5>1. t - t \in -Tolerance .. Tolerance
          BY <1>1, <2>1
        <5> QED
          BY <4>3, <5>1
      <4> QED
        BY <1>1, <2>2, <4>1, <4>2, <4>3
    <3> QED
      BY <3>1, <3>2
  <2>6. TimeRange # {}
    BY <2>2, <2>3
  <2>7. SampleClip(s, u).status \in {"Held", "Sampled"}
    BY <2>4
  <2>8. SampleClip(s, u).status = "Sampled"
          <=> \E known \in TimeRange : t - known \in -Tolerance .. Tolerance
    BY <2>3, <2>4, <2>5
  <2> QED
    BY <2>6, <2>7, <2>8
<1> QED
  BY <1>2, <1>3

-----------------------------------------------------------------------------
(* The invariant of playback.                                              *)

LEMMA InitPlaybackInv == PlaybackInit => PlaybackInv
<1> SUFFICES ASSUME PlaybackInit
             PROVE  PlaybackInv
  OBVIOUS
<1>1. RecorderInv /\ taken = None
  BY InitRecorderInv DEF PlaybackInit, Init
<1>2. Playable(animation)
  BY StampedPlays, EmptyAdvances DEF PlaybackInit, EmptyClip
<1>3. startOffset \in Time /\ resampled = None
  BY TimeAssumption DEF PlaybackInit, Time
<1> QED
  BY <1>1, <1>2, <1>3 DEF PlaybackInv, ResampleSpansItsSource

(* The recorder's own calls, whatever answer it is given.                  *)
LEMMA RecorderStep ==
  ASSUME PlaybackInv, UNCHANGED <<animation, startOffset, resampled>>,
         \/ \E result : IsAnswer(result) /\ Record(result)
         \/ Take
         \/ Clear
  PROVE  PlaybackInv'
<1>1. RecorderInv
  BY DEF PlaybackInv
<1>2. RecorderInv'
  BY <1>1, RecordStep, TakeStep, ClearStep
<1>3. taken' # None => Playable(taken')
  <2>1. CASE taken' = taken
    BY <2>1 DEF PlaybackInv
  <2>2. CASE Take
    <3>1. clip \in Seq(Pose) /\ Advances(clip)
      BY <1>1 DEF RecorderInv, TypeOK, ClipAdvances
    <3> QED
      BY <2>2, <3>1, StampedPlays DEF Take
  <2> QED
    BY <2>1, <2>2 DEF Record, Clear
<1> QED
  BY <1>2, <1>3 DEF PlaybackInv, ResampleSpansItsSource

LEMMA PlaybackStep ==
  ASSUME PlaybackInv, [PlaybackNext]_playbackVars
  PROVE  PlaybackInv'
<1>1. CASE UNCHANGED playbackVars
  BY <1>1 DEF playbackVars, recorderVars, PlaybackInv, RecorderInv, TypeOK, ClipAdvances,
              RecordedIsAccountedFor, ResampleSpansItsSource
<1>2. ASSUME UNCHANGED recorderVars
      PROVE  RecorderInv' /\ taken' = taken
  BY <1>2 DEF recorderVars, PlaybackInv, RecorderInv, TypeOK, ClipAdvances,
              RecordedIsAccountedFor
<1>3. ASSUME NEW loaded \in Clips \cup ({taken} \ {None}), SetAnimation(loaded)
      PROVE  PlaybackInv'
  <2>1. Playable(loaded)
    BY CallersClipsPlay DEF PlaybackInv
  <2> QED
    BY <1>2, <1>3, <2>1 DEF SetAnimation, PlaybackInv, ResampleSpansItsSource
<1>4. ASSUME NEW offset \in Offsets, SetStartOffset(offset)
      PROVE  PlaybackInv'
  <2>1. offset \in Time
    BY PlaybackAssumption
  <2> QED
    BY <1>2, <1>4, <2>1 DEF SetStartOffset, PlaybackInv, ResampleSpansItsSource
<1>5. ASSUME NEW t \in AskedTimes, Replay(t)
      PROVE  PlaybackInv'
  <2>1. t \in Time
    BY PlaybackAssumption
  <2>2. IsAnswer(SourceSample(t))
    BY <2>1, SourceAnswers DEF PlaybackInv
  <2> QED
    BY <1>5, <2>2, RecorderStep DEF Replay
<1>6. ASSUME NEW period \in Periods, ResampleAnimation(period)
      PROVE  PlaybackInv'
  BY <1>2, <1>6, ResampleStep DEF ResampleAnimation, PlaybackInv
<1>7. ASSUME (\E result \in Results : Record(result)) \/ Take \/ Clear,
             UNCHANGED <<animation, startOffset, resampled>>
      PROVE  PlaybackInv'
  BY <1>7, RecorderStep, ResultsAnswer
<1> QED
  BY <1>1, <1>3, <1>4, <1>5, <1>6, <1>7 DEF PlaybackNext

LEMMA PlaybackAlways == PlaybackSpec => []PlaybackInv
<1>1. PlaybackInv /\ [PlaybackNext]_playbackVars => PlaybackInv'
  BY PlaybackStep
<1> QED
  BY <1>1, InitPlaybackInv, PTL DEF PlaybackSpec

(* Whatever clip a source plays, recorded, resampled or a caller's, and    *)
(* whatever it records of what it plays, the report accounts for every     *)
(* pose it counted.                                                        *)
THEOREM PlaybackAccountsForPoses == PlaybackSpec => []RecordedIsAccountedFor
<1>1. PlaybackInv => RecordedIsAccountedFor
  BY DEF PlaybackInv, RecorderInv
<1> QED
  BY <1>1, PlaybackAlways, PTL

(* A resampled clip covers its source's interval, in steps no longer than  *)
(* the one asked for, for every rate, every declared interval and every    *)
(* slack below a step.                                                     *)
THEOREM PlaybackResampleSpans == PlaybackSpec => []ResampleSpansItsSource
<1>1. PlaybackInv => ResampleSpansItsSource
  BY DEF PlaybackInv
<1> QED
  BY <1>1, PlaybackAlways, PTL

(* What a source says of an answer agrees with the range it announces, for *)
(* every clip in order and every offset.                                   *)
THEOREM PlaybackStatusMatchesRange == PlaybackSpec => []StatusMatchesTimeRange
<1>1. PlaybackInv => StatusMatchesTimeRange
  <2> SUFFICES ASSUME PlaybackInv, NEW t \in AskedTimes
               PROVE  /\ SourceSample(t).status = "Unavailable" <=> TimeRange = {}
                      /\ SourceSample(t).status = "Sampled"
                           <=> \E known \in TimeRange : t - known \in -Tolerance .. Tolerance
                      /\ SourceSample(t).pose # None => SourceSample(t).pose.timestamp = t
    BY DEF StatusMatchesTimeRange
  <2>1. t \in Time /\ Playable(animation) /\ startOffset \in Time
    BY PlaybackAssumption DEF PlaybackInv
  <2>2. SourceSample(t).status = SampleClip(animation.samples, t - startOffset).status
    BY <2>1, SourceAnswers
  <2>3. SourceSample(t).pose # None => SourceSample(t).pose.timestamp = t
    BY <2>1, SourceAnswers
  <2> QED
    BY <2>1, <2>2, <2>3, StatusAgrees
<1> QED
  BY <1>1, PlaybackAlways, PTL
=============================================================================

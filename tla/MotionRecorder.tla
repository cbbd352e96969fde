---------------------------- MODULE MotionRecorder ----------------------------
(***************************************************************************)
(* MotionRecorder (libs/motionRecording): the poses a session evaluated,   *)
(* gathered into a clip, with a report of how they were obtained.  Record  *)
(* takes what a source answered; Take hands the clip over and keeps the    *)
(* report; Clear drops both.                                               *)
(***************************************************************************)
EXTENDS MotionPose

CONSTANTS
  Results,     \* the answers a source may give (see Result)
  MaxTicks     \* bound: results recorded since the last Clear

(* A PoseSampleResult, as far as a recorder reads it: a status, a lag, and *)
(* a pose exactly when the status is not Unavailable.                      *)
Statuses == {"Sampled", "Held", "Extrapolated", "Unavailable"}

IsResult(result) ==
  /\ result.status \in Statuses
  /\ result.lag \in Instant
  /\ result.pose \in Pose \cup {None}
  /\ result.pose = None <=> result.status = "Unavailable"

ASSUME ResultAssumption ==
  /\ \A result \in Results : IsResult(result)
  /\ MaxTicks \in Nat

VARIABLES
  clip,         \* _animation.samples
  report,       \* _report
  taken,        \* what the last Take handed over, or None
  handedOver    \* history: the poses handed over since the last Clear

recorderVars == <<clip, report, taken, handedOver>>

Counters == {"ticks", "sampled", "held", "extrapolated", "unavailable", "rejected",
             "peakLagSeconds"}

RecordReport == [Counters -> Nat]
NoReport     == [c \in Counters |-> 0]

(* RecordReport::Recorded.                                                 *)
Recorded(r) == r.sampled + r.held + r.extrapolated

-----------------------------------------------------------------------------

(* Every result is counted by its status.                                  *)
Count(r, result) ==
  LET ticked == [r EXCEPT !.ticks = @ + 1,
                          !.peakLagSeconds = Larger(@, result.lag)]
  IN  CASE result.status = "Sampled"      -> [ticked EXCEPT !.sampled = @ + 1]
        [] result.status = "Held"         -> [ticked EXCEPT !.held = @ + 1]
        [] result.status = "Extrapolated" -> [ticked EXCEPT !.extrapolated = @ + 1]
        [] result.status = "Unavailable"  -> [ticked EXCEPT !.unavailable = @ + 1]

(* A pose that does not advance the clip is refused.                       *)
DoesNotAdvance(pose) ==
  clip # <<>> /\ pose.timestamp <= clip[Len(clip)].timestamp

Record(result) ==
  /\ IF result.pose = None
     THEN /\ report' = Count(report, result)
          /\ UNCHANGED clip
     ELSE IF DoesNotAdvance(result.pose)
     THEN /\ report' = [Count(report, result) EXCEPT !.rejected = @ + 1]
          /\ UNCHANGED clip
     ELSE /\ report' = Count(report, result)
          /\ clip' = Append(clip, result.pose)
  /\ UNCHANGED <<taken, handedOver>>

(* The clip is stamped with its range and with its first pose's source.    *)
Stamped(samples) ==
  [samples   |-> samples,
   startTime |-> IF samples = <<>> THEN 0 ELSE samples[1].timestamp,
   endTime   |-> IF samples = <<>> THEN 0 ELSE samples[Len(samples)].timestamp,
   source    |-> IF samples = <<>> THEN None ELSE samples[1].source]

(* A slip: the report goes with the clip.                                  *)
TakeWithReport ==
  /\ taken' = Stamped(clip)
  /\ clip' = <<>>
  /\ handedOver' = handedOver + Len(clip)
  /\ report' = NoReport

Take ==
  /\ taken' = Stamped(clip)
  /\ clip' = <<>>
  /\ handedOver' = handedOver + Len(clip)
  /\ UNCHANGED report

Clear ==
  /\ clip' = <<>>
  /\ report' = NoReport
  /\ handedOver' = 0
  /\ UNCHANGED taken

-----------------------------------------------------------------------------
Init ==
  /\ clip = <<>>
  /\ report = NoReport
  /\ taken = None
  /\ handedOver = 0

Next ==
  \/ /\ report.ticks < MaxTicks
     /\ \E result \in Results : Record(result)
  \/ Take
  \/ Clear

Spec == Init /\ [][Next]_recorderVars

-----------------------------------------------------------------------------
(* Type invariant.                                                         *)
TypeOK ==
  /\ clip \in Seq(Pose)
  /\ report \in RecordReport
  /\ handedOver \in Nat
  /\ taken # None =>
       /\ taken.samples \in Seq(Pose)
       /\ taken.startTime \in Time
       /\ taken.endTime \in Time
       /\ taken.source \in Sources \cup {None}

(* A clip, being gathered or handed over, strictly advances, so its start  *)
(* and end are its bounds and every reader's bracket search works on it.   *)
Advances(samples) ==
  \A i \in 1 .. Len(samples) - 1 : samples[i].timestamp < samples[i + 1].timestamp

ClipAdvances ==
  /\ Advances(clip)
  /\ taken # None => Advances(taken.samples)

(* The report outlives the clip it describes: every tick that produced a   *)
(* pose was refused, is in the clip, or went with a clip already taken.    *)
RecordedIsAccountedFor ==
  Recorded(report) = report.rejected + handedOver + Len(clip)
=============================================================================

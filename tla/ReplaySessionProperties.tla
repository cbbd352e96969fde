----------------------- MODULE ReplaySessionProperties -----------------------
(***************************************************************************)
(* What a motion_record session must deliver, whatever the trace, the      *)
(* rate, the lag and the intake policy, and one thing a comment says that  *)
(* it does not.                                                            *)
(***************************************************************************)
EXTENDS ReplaySession

(* What the session has gathered so far, or delivered.                     *)
Gathered == IF phase = "done" THEN taken.samples ELSE clip

(* The authored clip has no gap: once the first frame has arrived every    *)
(* tick is answered, stamped with that tick's own time and taken by the    *)
(* recorder, whatever the source held, extrapolated or evicted meanwhile.  *)
ClipIsGapless ==
  \A i \in 1 .. Len(Gathered) :
    Gathered[i].timestamp = (tick - Len(Gathered) + i - 1) * period

(* A pose is evaluated from what had arrived by its tick: replaying a      *)
(* recording behind a delivery lag shows the consumer no later frame.      *)
NoFrameBeforeItArrives ==
  \A i \in 1 .. Len(Gathered), j \in Joints :
    \A o \in Gathered[i].joints[j] :
      o[1] = "seen" =>
        o[3] <= StartTime + Gathered[i].timestamp - deliveryLag + Tolerance

(* The trace was captured at the evaluation rate, from an instant first:   *)
(* each of its timestamps is its own instant rounded by less than the      *)
(* tolerance, which tells two of those instants apart.  It is replayed     *)
(* without a lag, and no frame of it is empty.                             *)
Clean(first) ==
  /\ deliveryLag = 0
  /\ 2 * Tolerance < period
  /\ \A i \in 1 .. Len(trace) :
       /\ CarriesAnything(trace[i])
       /\ first + (i - 1) * period - Tolerance <= trace[i].timestamp
       /\ trace[i].timestamp <= first + (i - 1) * period + Tolerance

Sound == report.sampled = report.ticks /\ report.ticks = Len(trace)

(* A clean session that starts on a recorded instant answers a tick for    *)
(* every frame of the trace and every one of them from observed data: the  *)
(* rounding of the timestamps never costs a frame its tick.                *)
CleanSessionIsSampled == (phase = "done" /\ Clean(StartTime)) => Sound

(* The session comes to its end and hands over its clip.                   *)
SessionEnds == <>(phase = "done")

-----------------------------------------------------------------------------
(* MotionSource.h: a clean session must not report itself as running on    *)
(* extrapolation.  Not even when its first timestamp is itself rounded.    *)
CleanSessionInAnyEpoch ==
  (/\ phase = "done"
   /\ \E first \in StartTime - Tolerance .. StartTime + Tolerance : Clean(first)) =>
     Sound
=============================================================================

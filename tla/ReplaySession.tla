---------------------------- MODULE ReplaySession ----------------------------
(***************************************************************************)
(* A motion_record session (tools/motionRecord/src/main.cpp): a recorded   *)
(* trace is driven through a LiveCaptureSource by a ReplaySender, as a     *)
(* clock advances by one evaluation period at a time, and what the source  *)
(* answers is gathered by a MotionRecorder.                                *)
(*                                                                         *)
(* The variables of LiveCapture are the session's source, those of         *)
(* MotionRecorder its recorder.  One tick of the loop is a run of Deliver  *)
(* steps, the sender's while loop, and then one Evaluate or SkipTick.      *)
(***************************************************************************)
EXTENDS LiveCapture

CONSTANTS
  Traces,          \* the recorded traces, each a sequence of frames
  Periods,         \* the evaluation periods, one over the evaluation rate
  DeliveryLags     \* the delivery lags

(* What ReadCaptureTrace returns: at least one frame, finite timestamps    *)
(* that strictly increase.                                                 *)
IsTrace(trace) ==
  /\ trace \in Seq(Frame)
  /\ trace # <<>>
  /\ \A i \in 1 .. Len(trace) : trace[i].timestamp \in Time
  /\ \A i \in 1 .. Len(trace) - 1 : trace[i].timestamp < trace[i + 1].timestamp

(* The options motion_record accepts: a positive rate, a lag that is not   *)
(* negative, a finite extrapolation limit.                                 *)
ASSUME SessionAssumption ==
  /\ \A recorded \in Traces : IsTrace(recorded)
  /\ Periods \subseteq Nat \ {0}
  /\ DeliveryLags \subseteq Nat
  /\ \A c \in Configs : c.maxExtrapolation \in Time

(* The session's clock stays finite to its last tick: past that its number *)
(* of ticks, a size_t converted from a double, would be undefined.         *)
ASSUME SpanAssumption ==
  \A recorded \in Traces, lag \in DeliveryLags :
    LET first == recorded[1].timestamp
        last  == recorded[Len(recorded)].timestamp
    IN  {last + lag + Tolerance, last - first + lag + Tolerance} \subseteq Time

VARIABLES
  trace,         \* the trace being replayed
  period,        \* one over rate
  deliveryLag,   \* options.deliveryLag
  next,          \* ReplaySender::_next: the number of frames sent
  tick,          \* the loop's counter
  phase,         \* "opening", "running" or "done"
  clip, report, taken, handedOver   \* the MotionRecorder

Recorder == INSTANCE MotionRecorder WITH Results <- {}, MaxTicks <- 0

recorder == <<clip, report, taken, handedOver>>
schedule == <<trace, period, deliveryLag>>
sender   == <<next>>

sessionVars == <<vars, schedule, sender, tick, phase, recorder>>

StartTime == trace[1].timestamp
EndTime   == trace[Len(trace)].timestamp

(* The consumer's clock at a tick.                                         *)
Now == tick * period

(* The ticks of the session: the span in whole periods, and the tick at    *)
(* zero.                                                                   *)
TickCount == (EndTime - StartTime + deliveryLag + Tolerance) \div period + 1

(* A slip: no tolerance at the arrival boundary.                           *)
DueExactly ==
  next < Len(trace) /\ trace[next + 1].timestamp <= StartTime + Now - deliveryLag

(* A slip: everything recorded is due at once, the delivery lag unheeded.  *)
DueImmediately == next < Len(trace)

(* The next frame has arrived by this tick.                                *)
Due ==
  /\ next < Len(trace)
  /\ trace[next + 1].timestamp <= StartTime + Now - deliveryLag + Tolerance

-----------------------------------------------------------------------------
(* The source takes the trace's provenance; its clock is pinned to the     *)
(* trace's first frame.                                                    *)
Open ==
  /\ phase = "opening"
  /\ clockOffset' = StartTime
  /\ \E source \in Sources : metadata' = source
  /\ phase' = "running"
  /\ answer' = None
  /\ UNCHANGED <<intake, history, samples, capacity, config, stats, inputState,
                 schedule, sender, tick, recorder>>

(* One turn of ReplaySender::Advance's loop: the next frame is pushed, and *)
(* is sent whether or not the source takes it.                             *)
Deliver ==
  /\ phase = "running"
  /\ tick < TickCount
  /\ Due
  /\ Push(trace[next + 1])
  /\ next' = next + 1
  /\ UNCHANGED <<schedule, tick, phase, recorder>>

(* A slip: a tick before the first frame is not counted off.               *)
SkipForever ==
  /\ phase = "running"
  /\ tick < TickCount
  /\ ~Due
  /\ samples = <<>>
  /\ UNCHANGED sessionVars

(* Nothing has arrived yet: the tick is not recorded.                      *)
SkipTick ==
  /\ phase = "running"
  /\ tick < TickCount
  /\ ~Due
  /\ samples = <<>>
  /\ tick' = tick + 1
  /\ UNCHANGED <<vars, schedule, sender, phase, recorder>>

Evaluate ==
  /\ phase = "running"
  /\ tick < TickCount
  /\ ~Due
  /\ samples # <<>>
  /\ Sample(Now)
  /\ Recorder!Record(Result(Now))
  /\ tick' = tick + 1
  /\ UNCHANGED <<schedule, sender, phase>>

(* The loop is over: the clip is taken and authored, or there is none.     *)
Finish ==
  /\ phase = "running"
  /\ tick >= TickCount
  /\ Recorder!Take
  /\ phase' = "done"
  /\ UNCHANGED <<vars, schedule, sender, tick>>

-----------------------------------------------------------------------------
SessionInit ==
  /\ Init
  /\ Recorder!Init
  /\ trace \in Traces
  /\ period \in Periods
  /\ deliveryLag \in DeliveryLags
  /\ next = 0
  /\ tick = 0
  /\ phase = "opening"

SessionNext ==
  \/ Open
  \/ Deliver
  \/ SkipTick
  \/ Evaluate
  \/ Finish

(* The tool is one thread that runs to its end.                            *)
SessionSpec ==
  SessionInit /\ [][SessionNext]_sessionVars /\ WF_sessionVars(SessionNext)
=============================================================================

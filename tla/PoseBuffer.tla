----------------------------- MODULE PoseBuffer -----------------------------
(***************************************************************************)
(* PoseBuffer (libs/motionSampling): the bounded, strictly ordered history *)
(* of poses a live source samples from.  SetCapacity, Push and Clear are   *)
(* its actions; Sample and SampleExtrapolated read it.                     *)
(***************************************************************************)
EXTENDS MotionPose

CONSTANTS
  Candidates,       \* the poses a caller may push
  Capacities,       \* the capacities a caller may ask for, 0 included
  DefaultCapacity   \* PoseBuffer::DefaultCapacity

ASSUME CandidatesAssumption == Candidates \subseteq PushedPose

ASSUME CapacityAssumption ==
  /\ Capacities \subseteq Nat
  /\ DefaultCapacity \in Nat \ {0}

VARIABLES
  samples,    \* _samples, oldest first
  capacity    \* _capacity

vars == <<samples, capacity>>

-----------------------------------------------------------------------------
Newest(s) == s[Len(s)]

(* A slip of the eviction loop: pop_back.                                  *)
KeepOldest(s, n) ==
  IF Len(s) <= n THEN s ELSE SubSeq(s, 1, n)

(* pop_front until the size is within n.                                   *)
KeepNewest(s, n) ==
  IF Len(s) <= n THEN s ELSE SubSeq(s, Len(s) - n + 1, Len(s))

Accepts(pose) ==
  /\ IsFinite(pose.timestamp)
  /\ samples # <<>> =>
       /\ pose.timestamp > Newest(samples).timestamp
       /\ IsFinite(Minus(pose.timestamp, Newest(samples).timestamp))

-----------------------------------------------------------------------------
Init ==
  /\ samples = <<>>
  /\ capacity \in {IF c = 0 THEN DefaultCapacity ELSE c : c \in Capacities}

Push(pose) ==
  /\ samples' = IF Accepts(pose)
                THEN KeepNewest(Append(samples, pose), capacity)
                ELSE samples
  /\ UNCHANGED capacity

(* A capacity of zero is refused and changes nothing.                      *)
SetCapacity(c) ==
  /\ capacity' = IF c = 0 THEN capacity ELSE c
  /\ samples'  = KeepNewest(samples, capacity')

Clear ==
  /\ samples' = <<>>
  /\ UNCHANGED capacity

Next ==
  \/ \E pose \in Candidates : Push(pose)
  \/ \E c \in Capacities : SetCapacity(c)
  \/ Clear

Spec == Init /\ [][Next]_vars

-----------------------------------------------------------------------------
(* The reads.                                                              *)

(* std::lower_bound: the first sample at or after t.                       *)
Upper(s, t) ==
  CHOOSE i \in 2 .. Len(s) : s[i - 1].timestamp < t /\ t <= s[i].timestamp

(* A slip of the search: upper_bound past the bracket, one sample late.    *)
SampleBracketedLate(s, t) ==
  CASE s = <<>> -> None
    [] s # <<>> /\ t <= s[1].timestamp -> s[1]
    [] s # <<>> /\ t > s[1].timestamp /\ t >= Newest(s).timestamp -> Newest(s)
    [] OTHER -> LET lower == s[Upper(s, t) - 1]
                    upper == Newest(s)
                IN  LerpPose(lower, upper, t - lower.timestamp,
                             upper.timestamp - lower.timestamp)

(* Two adjacent samples around t, or the nearer boundary sample held.  The *)
(* guard on an empty span in the code never bites here: Upper's neighbour  *)
(* is strictly before t.                                                   *)
SampleBracketed(s, t) ==
  CASE s = <<>> -> None
    [] s # <<>> /\ t <= s[1].timestamp -> s[1]
    [] s # <<>> /\ t > s[1].timestamp /\ t >= Newest(s).timestamp -> Newest(s)
    [] OTHER -> LET lower == s[Upper(s, t) - 1]
                    upper == s[Upper(s, t)]
                IN  LerpPose(lower, upper, t - lower.timestamp,
                             upper.timestamp - lower.timestamp)

Sample(t) == IF IsFinite(t) THEN SampleBracketed(samples, t) ELSE None

(* How far past the newest sample an extrapolation may carry.              *)
Lead(t, maxLead) ==
  Smaller(t - Newest(samples).timestamp, Larger(maxLead, 0))

(* The velocity of the newest sample: the one it reports, else the one     *)
(* between the last two samples.                                           *)
LastVelocity ==
  LET newest   == Newest(samples).root
      previous == samples[Len(samples) - 1].root
  IN  CASE newest.hasLinearVelocity -> newest.linearVelocity
        [] /\ ~newest.hasLinearVelocity
           /\ Len(samples) >= 2
           /\ newest.hasPosition
           /\ previous.hasPosition ->
             [by   |-> newest.worldPosition - previous.worldPosition,
              over |-> Newest(samples).timestamp
                         - samples[Len(samples) - 1].timestamp]
        [] OTHER -> Still

(* SampleExtrapolated answers a pose, and here also how far its root was   *)
(* carried from the newest sample: the displacement times the lead, to be  *)
(* divided by the velocity's span.  The position of the answer differs     *)
(* from the newest sample's exactly when that is not zero.                 *)
SampleExtrapolated(t, maxLead) ==
  IF samples = <<>> \/ ~IsFinite(t) \/ ~IsFinite(maxLead)
  THEN [pose |-> None, carried |-> 0]
  ELSE IF t <= Newest(samples).timestamp
  THEN [pose |-> Sample(t), carried |-> 0]
  ELSE [pose    |-> [Newest(samples) EXCEPT !.timestamp = @ + Lead(t, maxLead)],
        carried |-> IF Newest(samples).root.hasPosition
                    THEN LastVelocity.by * Lead(t, maxLead)
                    ELSE 0]

-----------------------------------------------------------------------------
TypeOK ==
  /\ samples \in Seq(Pose)
  /\ capacity \in Nat \ {0}

(* The history is strictly ordered with representable spans, and bounded:  *)
(* what the binary search of Sample, and every reader after it, relies on. *)
Ordered(s) ==
  \A i \in 2 .. Len(s) :
    /\ s[i - 1].timestamp < s[i].timestamp
    /\ IsFinite(s[i].timestamp - s[i - 1].timestamp)

BufferInvariant ==
  /\ Ordered(samples)
  /\ Len(samples) <= capacity

(* Refinement: the timestamps retained behave as the bounded history.      *)
Instants(s) == [i \in 1 .. Len(s) |-> s[i].timestamp]

History == INSTANCE BoundedHistory
             WITH window <- Instants(samples), limit <- capacity

HistorySpec == History!Spec

(* An answer once given stays the answer.  While the older of two adjacent *)
(* samples is retained, neither an arrival nor an eviction changes what    *)
(* Sample says of an instant strictly between them: only a boundary hold   *)
(* may later turn into an interpolation.                                   *)
RetainedAnswersStable ==
  [][\A i \in 2 .. Len(samples), t \in Time :
       /\ samples[i - 1].timestamp < t
       /\ t < samples[i].timestamp
       /\ \E k \in 1 .. Len(samples') : samples'[k] = samples[i - 1]
       => Sample(t)' = Sample(t)]_vars

(* What an answer may be made of, a joint at a time.  Outside the range it *)
(* is the sample at that end; strictly between two samples it is theirs,   *)
(* both where both carry the joint and the one that does where only one    *)
(* does, so that no joint appears or is lost on the way; at a sample's own *)
(* instant it is that sample's, but for a joint the newer of the two lacks *)
(* and the older still holds.                                              *)
AnswersComeFromNeighbours ==
  samples # <<>> =>
    \A t \in Time, j \in Joints :
      LET answer == Sample(t).joints[j]
      IN  /\ t <= samples[1].timestamp => answer = samples[1].joints[j]
          /\ t >= Newest(samples).timestamp => answer = Newest(samples).joints[j]
          /\ \A i \in 2 .. Len(samples) :
               LET older == samples[i - 1].joints[j]
                   newer == samples[i].joints[j]
               IN  /\ samples[i - 1].timestamp < t /\ t < samples[i].timestamp
                        => answer = older \cup newer
                   /\ t = samples[i].timestamp /\ i < Len(samples)
                        => answer = IF newer = Absent THEN older ELSE newer
=============================================================================

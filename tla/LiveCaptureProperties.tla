------------------------ MODULE LiveCaptureProperties ------------------------
(***************************************************************************)
(* What the intake of LiveCapture must keep true across every order of     *)
(* calls.                                                                  *)
(***************************************************************************)
EXTENDS LiveCapture

(* The type of a Sample answer.                                            *)
Answer ==
  [status : {"Sampled", "Held", "Extrapolated", "Unavailable"}, lag : Instant,
   pose : Pose \cup {None}, captureTime : Instant, carried : Int]

(* Type invariant: every buffered, kept or smoothed pose is a finite pose. *)
TypeOK ==
  /\ config \in Config
  /\ samples \in Seq(Pose)
  /\ capacity \in Nat \ {0}
  /\ filter \in Pose \cup {None}
  /\ metadata \in Sources
  /\ lastAccepted \in Pose \cup {None}
  /\ observedJoints \subseteq Joints
  /\ clockOffset \in Instant
  /\ stats \in Stats
  /\ inputState \in InputStates
  /\ answer \in Answer \cup {None}
  /\ epoch \in Nat
  /\ generation \in Nat
  /\ observedPosition \in Int

-----------------------------------------------------------------------------
(* Invariants.                                                             *)

(* The last accepted pose is the newest buffered one, through evictions,   *)
(* capacity changes and restarts: the comment in Push calls the buffer's   *)
(* own refusal unreachable on the strength of it, and a refusal there      *)
(* would leave a conditioned frame counted that was never kept.            *)
HeadTracked ==
  lastAccepted = IF samples = <<>> THEN None ELSE Buffer!Newest(samples)

(* The history is ordered with finite spans and within its capacity.       *)
BufferInvariant == Buffer!BufferInvariant

(* A filter step the rotation owes anything to was taken under the present *)
(* configuration.                                                          *)
FilteredAsConfigured(rotation) ==
  \A o \in rotation : o[1] = "filter" => o[2] = generation

(* While it holds a state the filter stands exactly at the head: the same  *)
(* instant, and every joint of the head as the filter last answered it.    *)
(* Without smoothing it holds nothing, and what it has turned the body's   *)
(* own orientation by it turned as the present configuration asks.  So a   *)
(* filter step always has time to elapse, and starts neither from a pose   *)
(* the stream moved on from nor from another cutoff's                      *)
(* (LiveCaptureSource.cpp:53).                                             *)
FilterTracksHead ==
  filter # None =>
    /\ config.smoothing
    /\ lastAccepted # None
    /\ filter.timestamp = lastAccepted.timestamp
    /\ filter.root = lastAccepted.root
    /\ \A j \in ValidJoints(lastAccepted) : filter.joints[j] = lastAccepted.joints[j]
    /\ FilteredAsConfigured(filter.root.worldOrientation)

(* Reset breaks continuity: nothing buffered, carried forward or smoothed  *)
(* afterwards contains an observation made before it.                      *)
FromThisEpoch(rotation) ==
  \A o \in rotation : o[1] = "seen" => o[2] = epoch

PoseFromThisEpoch(pose) ==
  /\ \A j \in Joints : FromThisEpoch(pose.joints[j])
  /\ FromThisEpoch(pose.root.worldOrientation)

EpochIsolation ==
  /\ \A i \in 1 .. Len(samples) : PoseFromThisEpoch(samples[i])
  /\ filter # None => PoseFromThisEpoch(filter)

(* The coverage report covers the history: a joint that is valid anywhere  *)
(* in the buffer or in the filter's state was observed since the reset, so *)
(* no joint is ever invented by holding or by smoothing.                   *)
CoverageCoversHistory ==
  /\ \A i \in 1 .. Len(samples) : ValidJoints(samples[i]) \subseteq observedJoints
  /\ filter # None => ValidJoints(filter) \subseteq observedJoints

(* The joint counters balance: since the last ResetStats, every joint of   *)
(* every accepted frame was counted once, observed, held or unbound, and   *)
(* nothing was counted for a refused one.                                  *)
JointLedger ==
  stats.jointsObserved + stats.jointsHeld + stats.jointsUnbound
    = Cardinality(Joints) * stats.framesAccepted

(* A Sample answer says where it comes from: Sampled exactly within the    *)
(* retained range widened by the tolerance; Held repeats the boundary pose *)
(* with nothing moved; Extrapolated is past the head, keeps the head's     *)
(* joints and carries only its root, no further than the limit.            *)
MatchesHistory(a) ==
  a.pose # None =>
    LET oldest  == samples[1]
        newest  == Buffer!Newest(samples)
        inRange == /\ oldest.timestamp - Tolerance <= a.captureTime
                   /\ a.captureTime <= newest.timestamp + Tolerance
        boundary == IF a.captureTime < oldest.timestamp THEN oldest ELSE newest
    IN  /\ (a.status = "Sampled") = inRange
        /\ a.status \in {"Held", "Extrapolated"} =>
             /\ a.pose.joints = boundary.joints
             /\ a.pose.root = boundary.root
        /\ a.status = "Held" => a.carried = 0
        /\ a.status = "Extrapolated" =>
             /\ a.captureTime > newest.timestamp
             /\ a.carried # 0
             /\ \E lead \in 1 .. config.maxExtrapolation :
                  a.carried = Buffer!LastVelocity.by * lead

AnswerMatchesHistory == answer # None => MatchesHistory(answer)

-----------------------------------------------------------------------------
(* Action properties.                                                      *)

(* A joint that drops out under HoldLast freezes: the accepted pose keeps  *)
(* the rotation the pose before it had.  Smoothing leaves it there too, a  *)
(* step between equal rotations going nowhere.                             *)
HeldLimbIsFrozen ==
  [][(/\ lastAccepted # None
      /\ lastAccepted' # None
      /\ lastAccepted' # lastAccepted
      /\ config.missingJoints = "HoldLast") =>
       \A j \in ValidJoints(lastAccepted) :
         \/ lastAccepted'.joints[j] = lastAccepted.joints[j]
         \/ Seen(epoch, lastAccepted'.timestamp) \in lastAccepted'.joints[j]]_vars

(* The first pose accepted after a Reset, or ever, is what was pushed: no  *)
(* smoothing against the old epoch, no velocity from it, and no joint but  *)
(* the ones this frame observed.                                           *)
FirstFrameIsRaw ==
  [][(samples = <<>> /\ samples' # <<>>) =>
       /\ \A j \in Joints :
            lastAccepted'.joints[j] \in
              {Absent, {Seen(epoch, lastAccepted'.timestamp)}}
       /\ lastAccepted'.root.worldPosition \in {0, observedPosition'}
       /\ stats'.rootVelocitiesDerived = stats.rootVelocitiesDerived]_vars

(* Refinement: to a reader of timestamps the intake is a bounded history.  *)
HistorySpec == Buffer!HistorySpec

-----------------------------------------------------------------------------
(* What the code says of itself and does not do.                           *)
=============================================================================

----------------------------- MODULE MCClipPlayback -----------------------------
(* Instances of ClipPlayback: live answers at a few times, in any order,   *)
(* and none, clips whose declared interval is missing, wider or     *)
(* narrower than their samples, and steps that do not divide the interval.  *)
EXTENDS ClipPlayback

PoseAt(t, source) ==
  [timestamp |-> t, joints |-> [j \in Joints |-> {Seen(0, t)}],
   root |-> NoRootMotion, source |-> source]

LiveResults ==
  {[status |-> "Extrapolated", lag |-> 3, pose |-> PoseAt(t, CHOOSE s \in Sources : TRUE)] : t \in {1}}
    \cup {[status |-> "Unavailable", lag |-> 0, pose |-> None]}

Declaring(start, end, times) ==
  [samples |-> [i \in DOMAIN times |-> PoseAt(times[i], CHOOSE s \in Sources : TRUE)],
   startTime |-> start, endTime |-> end, source |-> CHOOSE s \in Sources : TRUE]

SampleClips ==
  {Declaring(0, 0, <<2, 5>>), Declaring(0, 7, <<2, 5>>), Declaring(2, 4, <<0, 3, 8>>),
   Declaring(0, 5, <<>>)}

SampleOffsets == {0, 2}
SampleTimesAsked == {-2, 1, 6}
=============================================================================

--------------------------- MODULE BoundedHistory ---------------------------
(***************************************************************************)
(* What a pose history promises its readers, whatever keeps it: the        *)
(* instants retained are the most recent run of the instants accepted      *)
(* since the last clear, in strictly increasing order, never more than the *)
(* limit, and the newest accepted instant is always among them.  Which old *)
(* instants go, and when, is left open.                                    *)
(***************************************************************************)
EXTENDS MotionTime, Sequences

VARIABLES
  window,   \* the retained instants, oldest first
  limit     \* the number of instants it may retain

vars == <<window, limit>>

Suffixes(s) == {SubSeq(s, i, Len(s)) : i \in 1 .. Len(s)}

Init ==
  /\ window = <<>>
  /\ limit \in Nat \ {0}

(* A later instant, at a representable distance, becomes the newest.       *)
Accept(t) ==
  /\ \/ window = <<>>
     \/ window[Len(window)] < t /\ IsFinite(t - window[Len(window)])
  /\ window' \in Suffixes(Append(window, t))
  /\ Len(window') <= limit
  /\ UNCHANGED limit

(* A new limit may forget old instants, never the newest.                  *)
Resize ==
  /\ limit' \in Nat \ {0}
  /\ IF window = <<>> THEN UNCHANGED window ELSE window' \in Suffixes(window)
  /\ Len(window') <= limit'

Clear ==
  /\ window' = <<>>
  /\ UNCHANGED limit

Next ==
  \/ \E t \in Time : Accept(t)
  \/ Resize
  \/ Clear

Spec == Init /\ [][Next]_vars
=============================================================================

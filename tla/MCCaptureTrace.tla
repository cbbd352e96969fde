--------------------------- MODULE MCCaptureTrace ---------------------------
(***************************************************************************)
(* Instances of CaptureTrace.  The quantum is 4 grid steps, so that two    *)
(* instants may share their six decimals, and the derived rate runs from 1 *)
(* step, which rounds to nothing, to past the largest number.              *)
(***************************************************************************)
EXTENDS CaptureTrace

Operand(subject, value) == SubjectLine("field", subject, value, None)

FieldLines ==
  {SubjectLine("field", <<"b", "hips">>, "good", score) : score \in {None, "half", "out"}}
    \cup {Operand(<<"root", "pos">>, value) : value \in {"good", "bad"}}
    \cup {Operand(field, "good") :
            field \in {<<"b", "head">>, <<"e", "smile">>, LookAt, Contacts, SourceTime}}
    \cup {[Operand(Contacts, "good") EXCEPT !.wellFormed = FALSE]}

(* Every directive, well formed, and each way one can be refused.          *)
EveryLine ==
  FieldLines
    \cup {NumberLine("magic", v) : v \in {1, 2, 3, 4, 5}}
    \cup {NumberLine("t", t) : t \in {-10, 0, 2, 12, NonFinite}}
    \cup {NumberLine("frameRate", r) : r \in {0, 1, 8}}
    \cup {SubjectLine("header", <<"header", "sourceId">>, text, None) :
            text \in {"", "plain", "padded", "broken"}}
    \cup {BlankLine, NumberLine("unknown", None)}

(* Clips as a producer may hold them.                                      *)
PosesAt(instants) ==
  {[timestamp |-> t, fields |-> fields, confidence |-> confidence] :
     t \in instants,
     fields \in {<<>>,
                (<<"b", "hips">> :> "good") @@ (<<"root", "pos">> :> "good")
                  @@ (LookAt :> "good"),
                (<<"b", "hips">> :> "bad"),
                (<<"e", "smile">> :> "good") @@ (Sequence :> "good"),
                (<<"e", "two words">> :> "good"),
                (SourceTime :> "bad")},
     confidence \in {None, [j \in Joints |-> "half"],
                    [j \in Joints |-> IF j = "hips" THEN "one" ELSE "out"],
                    [j \in Joints |-> "out"]}}

ClipOf(poses, text, clipRate) ==
  [samples |-> poses, source |-> [key \in HeaderKeys |-> text], rate |-> clipRate,
   startTime |-> IF poses = << >> THEN 0 ELSE poses[1].timestamp,
   endTime |-> IF poses = << >> THEN 0 ELSE poses[Len(poses)].timestamp]

SpanningClips ==
  {ClipOf(poses, text, clipRate) :
     poses \in {<< >>} \cup {<<p>> : p \in PosesAt({NonFinite})}
                \cup {<<p, q>> : p \in PosesAt({0}), q \in PosesAt({1, 2, 7})},
     text \in {"", "plain", "padded", "broken"},
     clipRate \in {1, 8, NonFinite}}

(* Clips that declare an interval their samples do not span.               *)
WiderClips ==
  {[ClipOf(<<p, q>>, "plain", 8) EXCEPT !.startTime = start, !.endTime = 12] :
     p \in PosesAt({0}), q \in PosesAt({2, 7}), start \in {-4, 0}}

EveryClip == SpanningClips \cup WiderClips
=============================================================================

--------------------------- MODULE RotationWords ---------------------------
(***************************************************************************)
(* Rotations composed without evaluating them: words of the free group     *)
(* over the rotations that are given.  Two words that are equal are equal  *)
(* rotations whatever the angles are, and unequal ones differ for some.    *)
(***************************************************************************)
EXTENDS Subsequences, Integers, SequencesExt, FiniteSetsExt

Identity == << >>

Turn(what, joint, frame) == <<[of |-> <<what, joint, frame>>, inverse |-> FALSE]>>

Undone(letter) == [letter EXCEPT !.inverse = ~@]

(* Undoing it twice changes no letter, and nothing in it cancels.          *)
IsWord(w) ==
  /\ IsSequence(w)
  /\ \A i \in DOMAIN w : Undone(Undone(w[i])) = w[i]
  /\ \A i \in DOMAIN w : i + 1 \in DOMAIN w => w[i] # Undone(w[i + 1])

Inverted(w) == [i \in DOMAIN w |-> Undone(w[Len(w) + 1 - i])]

(* The product, with what cancels where the two words meet cancelled.      *)
Times(w, v) ==
  LET meets(k) == \A i \in 1 .. k : w[Len(w) + 1 - i] = Undone(v[i])
      shorter  == IF Len(w) <= Len(v) THEN Len(w) ELSE Len(v)
      gone     == Max({k \in 0 .. shorter : meets(k)})
  IN  SubSeq(w, 1, Len(w) - gone) \o SubSeq(v, gone + 1, Len(v))

(* The rotations along a path, the outermost first.                        *)
Composed(path, rotations) ==
  LET turned[n \in 0 .. Len(path)] ==
        IF n = 0 THEN Identity ELSE Times(turned[n - 1], rotations[path[n]])
  IN  turned[Len(path)]
=============================================================================

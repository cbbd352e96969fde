---------------------------- MODULE Subsequences ----------------------------
(***************************************************************************)
(* Numbers in order, and the elements of a sequence that are kept: SortSeq *)
(* and SelectSeq by definitions a proof can expand.                        *)
(***************************************************************************)
EXTENDS Naturals, Sequences, FiniteSets, Functions

(* What a std::vector or an array holds is a sequence.                     *)
IsSequence(s) == s \in Seq(Range(s))

InOrder(numbers) ==
  [k \in 1 .. Cardinality(numbers) |->
     CHOOSE n \in numbers : Cardinality({m \in numbers : m <= n}) = k]

Only(seq, kept) ==
  LET places == InOrder({i \in DOMAIN seq : seq[i] \in kept})
  IN  [k \in DOMAIN places |-> seq[places[k]]]
=============================================================================

------------------------------- MODULE MCSaves -------------------------------
(* Instances of Saves for TLC. *)
EXTENDS Saves, TLC

CONSTANTS c1, c2, c3, w1, w2

\* Cards are interchangeable, and so are requests.
SaveSymmetry == Permutations(Contents) \cup Permutations(Workers)
=============================================================================

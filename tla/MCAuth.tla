-------------------------------- MODULE MCAuth --------------------------------
(* Instances of Auth for TLC. *)
EXTENDS Auth, TLC

CONSTANTS n1, n2, p1, p2, t1, t2, w1, w2

\* Tokens, passwords, names and requests are interchangeable.
AuthSymmetry == Permutations(Names) \cup Permutations(Passwords)
                  \cup Permutations(Tokens) \cup Permutations(Workers)
=============================================================================

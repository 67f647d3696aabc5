------------------------------ MODULE MCCovers ------------------------------
(***************************************************************************)
(* An instance of Covers for TLC: two games whose names differ only in      *)
(* characters imagePath replaces, and IGDB may not know the second.        *)
(***************************************************************************)
EXTENDS Covers

CONSTANTS s1, s2, b1, b2

OneFile    == {"a_b.jpg"}
SharedFile == [s \in Serials |-> "a_b.jpg"]
=============================================================================

----------------------------- MODULE MCLibrary -----------------------------
(***************************************************************************)
(* An instance of Library for TLC: one game that may be there as .iso and   *)
(* as .zso, in this order in the directory.                                *)
(***************************************************************************)
EXTENDS Library, TLC

CONSTANTS c1, c2, r1, r2

TwoForms == {"a.iso", "a.zso"}
IsoNames == {"a.iso"}
Place    == [n \in Names |-> IF n = "a.iso" THEN 1 ELSE 2]
Serial   == [n \in Names |-> "a"]

\* An empty file, and one longer than BootBytes.
EmptyAndLong == [c \in Contents |-> IF c = c1 THEN 0 ELSE 3]

Interchangeable == Permutations(Requests)
=============================================================================

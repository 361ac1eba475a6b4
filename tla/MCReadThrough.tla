---------------------------- MODULE MCReadThrough ----------------------------
(* Instances of ReadThrough for TLC. *)
EXTENDS ReadThrough, TLC

MCSymmetry == Permutations(Workers) \cup Permutations(Slots) \cup Permutations(Admins)
                  \cup Permutations(Policies)
=============================================================================

-------------------------------- MODULE Totals --------------------------------
(***************************************************************************)
(* The total of a function from a finite set to the naturals.  It is a     *)
(* cardinality, and not a recursive definition, so that TLAPS can reason   *)
(* about it (module TotalsProofs) with the library's facts about finite    *)
(* sets; TLC counts the same set.                                          *)
(***************************************************************************)
EXTENDS Integers, FiniteSets

\* One pair <<x, n>> for each of the f[x] units of each x.
Units(f, S) == UNION {{x} \X (1 .. f[x]) : x \in S}

Total(f, S) == Cardinality(Units(f, S))
=============================================================================

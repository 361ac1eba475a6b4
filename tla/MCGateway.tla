------------------------------- MODULE MCGateway -------------------------------
(* Instances of Gateway for TLC: token limits and windows. *)
EXTENDS Gateway

MCTokenLimit == [i \in Windows |-> IF i = "5h" THEN 1 ELSE 2]
\* The 5h window passes while the others still count.
MCTTL == [i \in Windows |-> IF i = "5h" THEN 1 ELSE 2]
=============================================================================

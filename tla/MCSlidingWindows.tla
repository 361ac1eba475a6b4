--------------------------- MODULE MCSlidingWindows ---------------------------
(* Instances of SlidingWindows for TLC: policies and lengths of the windows. *)
EXTENDS SlidingWindows, TLC

MCLimit == [i \in Windows |-> IF i = "5h" THEN 2 ELSE 3]
MCTTL == [i \in Windows |-> IF i = "5h" THEN 2 ELSE 3]
=============================================================================

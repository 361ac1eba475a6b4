---------------------------- MODULE MCRequestQuota ----------------------------
(* Instances of RequestQuota for TLC: policies, and the symmetry of its tasks. *)
EXTENDS RequestQuota, TLC

\* 5h is the tightest window, 30d the loosest: the usual shape of a policy.
MCLimit == [i \in Windows |-> IF i = "5h" THEN 3 ELSE IF i = "7d" THEN 4 ELSE 5]
\* 5h and 7d bind together, and a worker's fallback window holds a single request.
MCTightLimit == [i \in Windows |-> IF i = "30d" THEN 4 ELSE 3]

\* Workers are interchangeable, and so are the slots of a worker.
MCSymmetry == Permutations(Workers) \cup Permutations(Slots)
=============================================================================

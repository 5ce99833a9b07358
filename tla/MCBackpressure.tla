---------------------------- MODULE MCBackpressure ----------------------------
(* Instances of Backpressure for TLC.                                         *)
EXTENDS Backpressure

CONSTANT Closed  \* a group whose limit is set to 0

\* One permit for each of the other groups.
MCLimit == [g \in Groups |-> IF g = Closed THEN 0 ELSE 1]
=============================================================================

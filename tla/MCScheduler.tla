----------------------------- MODULE MCScheduler -----------------------------
(* The instance of Scheduler for TLC: every graph over three stage names   *)
(* (acyclic, cyclic, with unknown dependencies, with fewer stages), and    *)
(* two over four, which keep two stages waiting for a slot at once.        *)
EXTENDS Scheduler, TLC

CONSTANTS a, b, c, d

Names     == {a, b, c}
AllGraphs == UNION {[S -> SUBSET Names] : S \in SUBSET Names}

(* Four stages at once, and a join: a, b and c at once, d after a and b.    *)
Flat  == [s \in Stages |-> {}]
Join  == [s \in Stages |-> IF s = d THEN {a, b} ELSE {}]
GraphsAndForks == AllGraphs \cup {Flat, Join}

RetryA == [s \in Stages |-> IF s = a THEN 2 ELSE 0]

Good      == [status |-> "success", missing |-> FALSE, transient |-> FALSE]
TimedOut  == [status |-> "timeout", missing |-> FALSE, transient |-> TRUE]
NoProgram == [status |-> "failed", missing |-> TRUE, transient |-> TRUE]

ThreeOutcomes == {Good, TimedOut, NoProgram}
=============================================================================

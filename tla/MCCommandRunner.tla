--------------------------- MODULE MCCommandRunner ---------------------------
(* Instances of CommandRunner for TLC.                                     *)
EXTENDS CommandRunner

Tool(reads, closes, exits, forks) ==
  [found |-> TRUE, spawns |-> TRUE, reads |-> reads, closes |-> closes,
   exits |-> exits, forks |-> forks, writes |-> Nothing]

(* Every program that can be started, quiet or with more to say on one     *)
(* stream than its pipe holds and the collector keeps; and two that cannot.*)
Loud(s) == [Nothing EXCEPT ![s] = 3]
Started ==
  {[Tool(r, c, e, f) EXCEPT !.writes = w] :
     r, c, e, f \in BOOLEAN, w \in {Nothing, Loud("stdout"), Loud("stderr")}}
Any == Started \cup {[Tool(TRUE, FALSE, TRUE, FALSE) EXCEPT !.found = FALSE],
                    [Tool(TRUE, FALSE, TRUE, FALSE) EXCEPT !.spawns = FALSE]}

NeverReads  == {Tool(FALSE, FALSE, FALSE, FALSE)}
ClosesStdin == {Tool(FALSE, TRUE, TRUE, FALSE)}
=============================================================================

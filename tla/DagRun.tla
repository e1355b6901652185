------------------------------- MODULE DagRun -------------------------------
(***************************************************************************)
(* What PipelineScheduler promises (the class docstring of                 *)
(* vina/core/scheduler.py): a submitted dependency graph is executed with  *)
(* at most MaxParallel stages in progress, a stage begins only when all    *)
(* its dependencies have completed, and every stage completes at most      *)
(* once.  Retries, the semaphore and its queue are hidden: a stage is      *)
(* "active" from its first attempt to its last.                            *)
(***************************************************************************)
EXTENDS Naturals, FiniteSets, Sequences

CONSTANTS
  Stages,       \* names a stage may have
  Dags,         \* the graphs that may be submitted
  MaxParallel   \* PipelineScheduler(max_parallel)

VARIABLES
  graph,    \* the submitted graph: stage name -> names it depends on
  st,       \* progress of each stage
  order     \* names of the completed stages, in completion order

vars == <<graph, st, order>>

Completed == {s \in Stages : st[s] = "done"}
Active    == {s \in Stages : st[s] = "active"}

Init ==
  /\ graph \in Dags
  /\ st = [s \in Stages |-> "idle"]
  /\ order = <<>>

(* A stage takes a slot once everything it depends on has completed.       *)
Begin(s) ==
  /\ s \in DOMAIN graph
  /\ st[s] = "idle"
  /\ graph[s] \subseteq Completed
  /\ Cardinality(Active) < MaxParallel
  /\ st' = [st EXCEPT ![s] = "active"]
  /\ UNCHANGED <<graph, order>>

(* Its slot passes straight to a stage that was waiting for one.           *)
CompleteAndBegin(s, t) ==
  /\ st[s] = "active"
  /\ t \in DOMAIN graph
  /\ st[t] = "idle"
  /\ graph[t] \subseteq Completed
  /\ st' = [st EXCEPT ![s] = "done", ![t] = "active"]
  /\ order' = Append(order, s)
  /\ UNCHANGED graph

Complete(s) ==
  /\ st[s] = "active"
  /\ st' = [st EXCEPT ![s] = "done"]
  /\ order' = Append(order, s)
  /\ UNCHANGED graph

(* An interrupted run gives up stages it has not completed.                *)
Abandon ==
  /\ \E S \in SUBSET (Stages \ Completed) :
        st' = [s \in Stages |-> IF s \in S THEN "abandoned" ELSE st[s]]
  /\ UNCHANGED <<graph, order>>

Next ==
  \/ \E s \in Stages : Begin(s) \/ Complete(s)
  \/ \E s, t \in Stages : CompleteAndBegin(s, t)
  \/ Abandon

Spec == Init /\ [][Next]_vars
=============================================================================

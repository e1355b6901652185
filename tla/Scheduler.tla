------------------------------ MODULE Scheduler ------------------------------
(***************************************************************************)
(* PipelineScheduler.run of vina/core/scheduler.py: one asyncio task per   *)
(* stage, an asyncio.Event per stage that its dependents wait on, one      *)
(* asyncio.Semaphore(max_parallel) held from a stage's first attempt to    *)
(* its last (the back-off sleeps included), and the shared results list.   *)
(*                                                                         *)
(* A step is a stretch of a task between two awaits.  Publishing a result  *)
(* is one step: the lock of scheduler.py:206 is never held across an       *)
(* await, so acquiring it never suspends.                                  *)
(***************************************************************************)
EXTENDS Naturals, FiniteSets, Sequences

CONSTANTS
  Stages,        \* names a StageDef may have
  Dags,          \* the graphs that may be submitted: name -> deps
  MaxParallel,   \* PipelineScheduler(max_parallel)
  MaxRetries,    \* stage -> RetryConfig.max_retries (0 when retry is None)
  Outcomes,      \* the StageResults a stage's coroutine may return
  Interruptible  \* may the run be cancelled from outside (Ctrl-C)?

StageState ==
  {"success", "failed", "skipped", "empty", "timeout", "missing_dependency"}

(* What _is_retryable reads of a StageResult; "transient" says that some   *)
(* warning contains one of _TRANSIENT_PATTERNS.                            *)
Outcome == [status : StageState, missing : BOOLEAN, transient : BOOLEAN]

ASSUME SchedulerAssumption ==
  /\ IsFiniteSet(Stages)
  /\ Dags \subseteq UNION {[S -> SUBSET Stages] : S \in SUBSET Stages}
  /\ MaxParallel \in Nat \ {0}
  /\ MaxRetries \in [Stages -> Nat]
  /\ Outcomes \subseteq Outcome
  /\ Interruptible \in BOOLEAN

VARIABLES
  phase,     \* where run() itself is
  dag,       \* the submitted stages: DOMAIN dag is stage_map's key set
  pc,        \* where each stage's task is
  attempt,   \* the local variable of _run_with_retry
  permits,   \* the semaphore's free slots
  waiters,   \* tasks suspended in sem.acquire(), oldest first
  done,      \* stages whose done_events entry is set
  results,   \* the results list
  history    \* every outcome of every invocation of a stage's coroutine

vars == <<phase, dag, pc, attempt, permits, waiters, done, results, history>>

(* Stages that hold a slot: running an attempt, or asleep before the next. *)
Holders == {s \in Stages : pc[s] \in {"running", "backoff"}}

IsRetryable(o) ==
  \/ o.status = "timeout"
  \/ o.status = "failed" /\ ~o.missing /\ o.transient

(* The StageResult _run_once makes of an exception; the exception's text   *)
(* becomes a warning, so it may read as transient.                         *)
Unhandled(t) == [status |-> "failed", missing |-> FALSE, transient |-> t]

Returnable == Outcomes \cup {Unhandled(t) : t \in BOOLEAN}

Init ==
  /\ phase = "called"
  /\ dag \in Dags
  /\ pc = [s \in Stages |-> "pending"]
  /\ attempt = [s \in Stages |-> 0]
  /\ permits = MaxParallel
  /\ waiters = <<>>
  /\ done = {}
  /\ results = <<>>
  /\ history = [s \in Stages |-> <<>>]

taskVars == <<pc, attempt, permits, waiters, done, results, history>>

HasUnknownDep == \E s \in DOMAIN dag : ~(dag[s] \subseteq DOMAIN dag)

ReturnEmpty ==
  /\ phase = "called"
  /\ DOMAIN dag = {}
  /\ phase' = "returned"
  /\ UNCHANGED <<dag, taskVars>>

RejectUnknownDep ==
  /\ phase = "called"
  /\ HasUnknownDep
  /\ phase' = "rejected"
  /\ UNCHANGED <<dag, taskVars>>

Gather ==
  /\ phase = "called"
  /\ DOMAIN dag # {} /\ ~HasUnknownDep
  /\ phase' = "gathering"
  /\ UNCHANGED <<dag, taskVars>>

(* A task has seen every dependency's event and asks for a slot: it gets a *)
(* free one, unless others are already queued for it.                      *)
EligibleAnyDep(s) ==    \* mutant: one dependency's event is enough
  /\ phase = "gathering"
  /\ s \in DOMAIN dag /\ pc[s] = "pending"
  /\ dag[s] = {} \/ dag[s] \cap done # {}

Eligible(s) ==
  /\ phase = "gathering"
  /\ s \in DOMAIN dag /\ pc[s] = "pending" /\ dag[s] \subseteq done

AcquireSlotUnchecked(s) ==    \* mutant: does not wait when no slot is free
  /\ Eligible(s)
  /\ waiters = <<>>
  /\ permits' = permits - 1
  /\ pc' = [pc EXCEPT ![s] = "running"]
  /\ UNCHANGED <<phase, dag, attempt, waiters, done, results, history>>

AcquireSlot(s) ==
  /\ Eligible(s)
  /\ permits > 0 /\ waiters = <<>>
  /\ permits' = permits - 1
  /\ pc' = [pc EXCEPT ![s] = "running"]
  /\ UNCHANGED <<phase, dag, attempt, waiters, done, results, history>>

WaitForSlot(s) ==
  /\ Eligible(s)
  /\ permits = 0 \/ waiters # <<>>
  /\ waiters' = Append(waiters, s)
  /\ pc' = [pc EXCEPT ![s] = "queued"]
  /\ UNCHANGED <<phase, dag, attempt, permits, done, results, history>>

(* sem.release(): the slot goes to the oldest waiter, or back to the pool. *)
ReleaseNoWake(s, state) ==    \* mutant: nobody is woken
  /\ permits' = permits + 1
  /\ pc' = [pc EXCEPT ![s] = state]
  /\ UNCHANGED waiters

ReleaseTwice(s, state) ==    \* mutant: the slot is handed over and also freed
  /\ permits' = permits + 1
  /\ IF waiters = <<>>
     THEN pc' = [pc EXCEPT ![s] = state] /\ UNCHANGED waiters
     ELSE /\ pc' = [pc EXCEPT ![s] = state, ![Head(waiters)] = "running"]
          /\ waiters' = Tail(waiters)

Release(s, state) ==
  IF waiters = <<>>
  THEN /\ permits' = permits + 1
       /\ pc' = [pc EXCEPT ![s] = state]
       /\ UNCHANGED waiters
  ELSE /\ pc' = [pc EXCEPT ![s] = state, ![Head(waiters)] = "running"]
       /\ waiters' = Tail(waiters)
       /\ UNCHANGED permits

RetriesOnceMore(s, o) ==    \* mutant: off by one
  IsRetryable(o) /\ attempt[s] <= MaxRetries[s]

Retries(s, o) == IsRetryable(o) /\ attempt[s] < MaxRetries[s]

(* The coroutine returned a transient failure and attempts are left: the   *)
(* task sleeps, and keeps its slot.                                        *)
ScheduleRetryPublished(s, o) ==    \* mutant: every attempt's result is appended
  /\ phase = "gathering" /\ pc[s] = "running"
  /\ Retries(s, o)
  /\ history' = [history EXCEPT ![s] = Append(@, o)]
  /\ attempt' = [attempt EXCEPT ![s] = @ + 1]
  /\ pc' = [pc EXCEPT ![s] = "backoff"]
  /\ results' = Append(results, [name |-> s, outcome |-> o])
  /\ UNCHANGED <<phase, dag, permits, waiters, done>>

ScheduleRetry(s, o) ==
  /\ phase = "gathering" /\ pc[s] = "running"
  /\ Retries(s, o)
  /\ history' = [history EXCEPT ![s] = Append(@, o)]
  /\ attempt' = [attempt EXCEPT ![s] = @ + 1]
  /\ pc' = [pc EXCEPT ![s] = "backoff"]
  /\ UNCHANGED <<phase, dag, permits, waiters, done, results>>

BackoffElapsed(s) ==
  /\ phase = "gathering" /\ pc[s] = "backoff"
  /\ pc' = [pc EXCEPT ![s] = "running"]
  /\ UNCHANGED <<phase, dag, attempt, permits, waiters, done, results, history>>

(* The last attempt's result is published and the slot released.           *)
PublishSuccessOnly(s, o) ==    \* mutant: the event of a failed stage stays unset
  /\ phase = "gathering" /\ pc[s] = "running"
  /\ ~Retries(s, o)
  /\ history' = [history EXCEPT ![s] = Append(@, o)]
  /\ done' = IF o.status = "failed" THEN done ELSE done \cup {s}
  /\ results' = Append(results, [name |-> s, outcome |-> o])
  /\ Release(s, "done")
  /\ UNCHANGED <<phase, dag, attempt>>

Publish(s, o) ==
  /\ phase = "gathering" /\ pc[s] = "running"
  /\ ~Retries(s, o)
  /\ history' = [history EXCEPT ![s] = Append(@, o)]
  /\ done' = done \cup {s}
  /\ results' = Append(results, [name |-> s, outcome |-> o])
  /\ Release(s, "done")
  /\ UNCHANGED <<phase, dag, attempt>>

Return ==
  /\ phase = "gathering"
  /\ DOMAIN dag \subseteq done
  /\ phase' = "returned"
  /\ UNCHANGED <<dag, taskVars>>

(* The task running run() is cancelled: gather cancels every child.  One   *)
(* that waits for an event or a slot ends at once; one that holds a slot   *)
(* unwinds through its subprocess first.                                   *)
Interrupt ==
  /\ Interruptible
  /\ phase = "gathering"
  /\ phase' = "cancelling"
  /\ waiters' = <<>>
  /\ pc' = [s \in Stages |->
              IF s \in DOMAIN dag /\ pc[s] \in {"pending", "queued"}
              THEN "cancelled" ELSE pc[s]]
  /\ UNCHANGED <<dag, attempt, permits, done, results, history>>

UnwindPublishing(s) ==    \* mutant: _run_once swallows the cancellation
  /\ phase = "cancelling"
  /\ s \in Holders
  /\ Release(s, "cancelled")
  /\ results' = Append(results, [name |-> s, outcome |-> Unhandled(FALSE)])
  /\ UNCHANGED <<phase, dag, attempt, done, history>>

Unwind(s) ==
  /\ phase = "cancelling"
  /\ s \in Holders
  /\ Release(s, "cancelled")
  /\ UNCHANGED <<phase, dag, attempt, done, results, history>>

RaiseCancelled ==
  /\ phase = "cancelling"
  /\ Holders = {}
  /\ phase' = "cancelled"
  /\ UNCHANGED <<dag, taskVars>>

StageStep(s) ==
  \/ AcquireSlot(s) \/ WaitForSlot(s)
  \/ \E o \in Returnable : ScheduleRetry(s, o) \/ Publish(s, o)
  \/ BackoffElapsed(s)
  \/ Unwind(s)

RunStep == ReturnEmpty \/ RejectUnknownDep \/ Gather \/ Return \/ RaiseCancelled

Next == RunStep \/ Interrupt \/ \E s \in Stages : StageStep(s)

(* A task that can run is run: the event loop starves no ready callback,   *)
(* and every coroutine returns (a subprocess is bounded by its timeout).   *)
Fairness == WF_vars(RunStep) /\ \A s \in Stages : WF_vars(StageStep(s))

Spec     == Init /\ [][Next]_vars
FairSpec == Spec /\ Fairness

-----------------------------------------------------------------------------
TypeOK ==
  /\ phase \in {"called", "gathering", "returned", "rejected",
                "cancelling", "cancelled"}
  /\ dag \in Dags
  /\ pc \in [Stages -> {"pending", "queued", "running", "backoff", "done",
                        "cancelled"}]
  /\ attempt \in [Stages -> Nat]
  /\ permits \in Nat
  /\ waiters \in Seq(Stages)
  /\ done \in SUBSET Stages
  /\ results \in Seq([name : Stages, outcome : Outcome])
  /\ history \in [Stages -> Seq(Outcome)]

(* StageDef.deps, "names of stages that must complete before this one      *)
(* runs": whatever the interleaving, a stage that got past its wait has    *)
(* all its dependencies published, final result and event together.        *)
DependencyOrder ==
  \A s \in DOMAIN dag :
    pc[s] \in {"queued", "running", "backoff", "done"} =>
      \A d \in dag[s] : pc[d] = "done" /\ d \in done

(* The slots free plus the slots held is max_parallel, in every state, the *)
(* back-off sleeps and a half-unwound cancellation included: none leaks    *)
(* and none is released twice, so never more than max_parallel stages run. *)
SlotConservation == permits + Cardinality(Holders) = MaxParallel

(* No lost wake-up: while a task waits for a slot, none is free.           *)
NoIdleSlot == waiters # <<>> => permits = 0

(* On every path slots are neither lost, nor made, nor left idle.          *)
SlotDiscipline == SlotConservation /\ NoIdleSlot

(* A stage runs again only after a transient failure, at most max_retries  *)
(* times, and what is published is the outcome of its last invocation: a   *)
(* retryable one only when the retries are used up.                        *)
RetryDiscipline ==
  /\ \A s \in Stages :
       /\ Len(history[s]) <= MaxRetries[s] + 1
       /\ \A i \in 1 .. Len(history[s]) - 1 : IsRetryable(history[s][i])
  /\ \A i \in DOMAIN results :
       LET h == history[results[i].name] IN
         /\ h # <<>> /\ results[i].outcome = h[Len(h)]
         /\ IsRetryable(results[i].outcome) =>
              Len(h) = MaxRetries[results[i].name] + 1

(* The results list and the events tell the same story: one entry per      *)
(* completed stage, in an order in which dependencies come first, and a    *)
(* run that returned has an entry for every submitted stage.               *)
ResultsAgree ==
  /\ {results[i].name : i \in DOMAIN results} = done
  /\ \A i, j \in DOMAIN results :
       /\ results[i].name = results[j].name => i = j
       /\ results[i].name \in dag[results[j].name] => i < j
  /\ phase = "returned" => done = DOMAIN dag

(* Once cancelled, a run starts and publishes nothing more.                *)
CancelIsFinal ==
  [][phase = "cancelling" =>
       /\ results' = results /\ history' = history
       /\ \A s \in Stages : pc'[s] = "running" => pc[s] = "running"]_vars

(* The queue of the semaphore holds queued stages only, each once, and is  *)
(* empty once the run is being cancelled.                                  *)
QueueInv ==
  /\ \A i \in DOMAIN waiters : pc[waiters[i]] = "queued"
  /\ \A i, j \in DOMAIN waiters : waiters[i] = waiters[j] => i = j
  /\ phase \notin {"gathering", "returned"} => waiters = <<>>

(* Events are set by the stages that are done, which were all submitted.   *)
DoneInv ==
  /\ done = {s \in Stages : pc[s] = "done"}
  /\ \A s \in Stages : pc[s] # "pending" => s \in DOMAIN dag

(* Some numbering of the stages puts dependencies first.                   *)
Acyclic ==
  \E rank \in [DOMAIN dag -> 1 .. Cardinality(DOMAIN dag)] :
    \A s \in DOMAIN dag : \A d \in dag[s] \cap DOMAIN dag : rank[d] < rank[s]

Ended == phase \in {"returned", "rejected", "cancelled"}

(* Every submitted stage of an acyclic graph is eventually completed: no   *)
(* task waits for ever on an event or on a slot.                           *)
AcyclicRunsEnd == Acyclic ~> Ended

(* The promise of DagRun, kept.                                            *)
AbstractState(s) ==
  CASE pc[s] \in {"pending", "queued"}   -> "idle"
    [] pc[s] \in {"running", "backoff"}  -> "active"
    [] pc[s] = "done"                    -> "done"
    [] OTHER                             -> "abandoned"

Promise == INSTANCE DagRun WITH
  graph <- dag,
  st    <- [s \in Stages |-> AbstractState(s)],
  order <- [i \in DOMAIN results |-> results[i].name]

PromiseKept == Promise!Spec
=============================================================================

--------------------------- MODULE SchedulerProofs ---------------------------
(* Theorems about Scheduler, for every set of stages, graph, slot count,   *)
(* retry policy and set of outcomes.                                       *)
EXTENDS Scheduler, FiniteSetTheorems, SequenceTheorems, TLAPS

LEMMA GraphType ==
  ASSUME TypeOK
  PROVE  /\ DOMAIN dag \subseteq Stages
         /\ \A s \in DOMAIN dag : dag[s] \subseteq Stages
  BY SchedulerAssumption DEF TypeOK

LEMMA ReturnableType == Returnable \subseteq Outcome
<1>1. \A t \in BOOLEAN : Unhandled(t) \in Outcome
  BY DEF Unhandled, Outcome, StageState
<1>2. QED
  BY <1>1, SchedulerAssumption DEF Returnable

(* Whoever gives its slot up, the program counters and the queue stay      *)
(* well typed.                                                             *)
LEMMA ReleaseType ==
  ASSUME TypeOK, NEW s \in Stages,
         NEW state \in {"done", "cancelled"}, Release(s, state)
  PROVE  /\ pc' \in [Stages -> {"pending", "queued", "running", "backoff",
                                "done", "cancelled"}]
         /\ permits' \in Nat
         /\ waiters' \in Seq(Stages)
<1>1. CASE waiters = <<>>
  <2>1. /\ permits' = permits + 1
        /\ pc' = [pc EXCEPT ![s] = state]
        /\ waiters' = waiters
    BY <1>1 DEF Release
  <2>2. QED
    BY <2>1 DEF TypeOK
<1>2. CASE waiters # <<>>
  <2>1. Head(waiters) \in Stages /\ Tail(waiters) \in Seq(Stages)
    BY <1>2 DEF TypeOK
  <2>2. QED
    BY <1>2, <2>1 DEF Release, TypeOK
<1>3. QED
  BY <1>1, <1>2

(* The state of run() keeps its types whatever the coroutines return or    *)
(* raise; in particular the semaphore's counter never goes below zero.     *)
THEOREM TypeCorrect == Spec => []TypeOK
<1>1. Init => TypeOK
  BY SchedulerAssumption DEF Init, TypeOK
<1>2. TypeOK /\ [Next]_vars => TypeOK'
  <2> SUFFICES ASSUME TypeOK, [Next]_vars PROVE TypeOK'
    OBVIOUS
  <2>1. CASE RunStep
    BY <2>1 DEF RunStep, ReturnEmpty, RejectUnknownDep, Gather, Return,
                RaiseCancelled, taskVars, TypeOK
  <2>2. CASE Interrupt
    BY <2>2 DEF Interrupt, TypeOK
  <2>3. ASSUME NEW s \in Stages, AcquireSlot(s) PROVE TypeOK'
    BY <2>3 DEF AcquireSlot, TypeOK
  <2>4. ASSUME NEW s \in Stages, WaitForSlot(s) PROVE TypeOK'
    BY <2>4 DEF WaitForSlot, TypeOK
  <2>5. ASSUME NEW s \in Stages, NEW o \in Returnable, ScheduleRetry(s, o)
        PROVE  TypeOK'
    BY <2>5, ReturnableType DEF ScheduleRetry, TypeOK
  <2>6. ASSUME NEW s \in Stages, NEW o \in Returnable, Publish(s, o)
        PROVE  TypeOK'
    <3>1. Release(s, "done")
      BY <2>6 DEF Publish
    <3>2. o \in Outcome
      BY ReturnableType
    <3>3. QED
      BY <2>6, <3>1, <3>2, ReleaseType DEF Publish, TypeOK
  <2>7. ASSUME NEW s \in Stages, BackoffElapsed(s) PROVE TypeOK'
    BY <2>7 DEF BackoffElapsed, TypeOK
  <2>8. ASSUME NEW s \in Stages, Unwind(s) PROVE TypeOK'
    <3>1. Release(s, "cancelled")
      BY <2>8 DEF Unwind
    <3>2. QED
      BY <2>8, <3>1, ReleaseType DEF Unwind, TypeOK
  <2>9. CASE UNCHANGED vars
    BY <2>9 DEF vars, TypeOK
  <2>10. QED
    BY <2>1, <2>2, <2>3, <2>4, <2>5, <2>6, <2>7, <2>8, <2>9
    DEF Next, StageStep
<1>3. QED
  BY <1>1, <1>2, PTL DEF Spec

-----------------------------------------------------------------------------
(* Safety: dependency order, slot conservation, no idle slot.              *)

(* The inductive invariant.  DependencyOrder and SlotConservation are not  *)
(* inductive alone: that a stage granted a slot by Release was eligible,   *)
(* and held none before, is known only because the queue holds queued      *)
(* stages, each once.                                                      *)
IInv == TypeOK /\ QueueInv /\ DoneInv /\ DependencyOrder /\ SlotConservation
          /\ NoIdleSlot

LEMMA HoldersFinite ==
  ASSUME TypeOK
  PROVE  IsFiniteSet(Holders) /\ Cardinality(Holders) \in Nat
<1>1. Holders \subseteq Stages /\ IsFiniteSet(Stages)
  BY SchedulerAssumption DEF Holders
<1>2. QED
  BY <1>1, FS_Subset, FS_CardinalityType

(* Taking a slot adds one holder, giving it back removes one, and handing  *)
(* it over exchanges one for another.                                      *)
LEMMA ReleaseKeepsSlots ==
  ASSUME TypeOK, QueueInv, SlotConservation,
         NEW s \in Holders, NEW state \in {"done", "cancelled"},
         Release(s, state)
  PROVE  SlotConservation'
<1>0. s \in Stages /\ pc[s] \in {"running", "backoff"}
  BY DEF Holders
<1>1. CASE waiters = <<>>
  <2>1. permits' = permits + 1 /\ pc' = [pc EXCEPT ![s] = state]
    BY <1>1 DEF Release
  <2>2. Holders' = Holders \ {s}
    BY <1>0, <2>1 DEF Holders, TypeOK
  <2>3. Cardinality(Holders') = Cardinality(Holders) - 1
    BY <2>2, HoldersFinite, FS_RemoveElement
  <2>4. QED
    BY <2>1, <2>3, HoldersFinite, SchedulerAssumption DEF SlotConservation, TypeOK
<1>2. CASE waiters # <<>>
  <2> DEFINE h == waiters[1]
  <2>1. h \in Stages /\ pc[h] = "queued"
    BY <1>2 DEF QueueInv, TypeOK
  <2>2. permits' = permits /\ pc' = [pc EXCEPT ![s] = state, ![h] = "running"]
    BY <1>2 DEF Release, TypeOK
  <2>3. Holders' = (Holders \ {s}) \cup {h} /\ h \notin Holders
    BY <1>0, <2>1, <2>2 DEF Holders, TypeOK
  <2>4. /\ IsFiniteSet(Holders \ {s})
        /\ Cardinality(Holders \ {s}) = Cardinality(Holders) - 1
    BY HoldersFinite, FS_RemoveElement
  <2>5. Cardinality(Holders') = Cardinality(Holders)
    <3>1. h \notin Holders \ {s}
      BY <2>3
    <3>2. Cardinality((Holders \ {s}) \cup {h}) = Cardinality(Holders \ {s}) + 1
      BY <2>4, <3>1, FS_AddElement
    <3>3. QED
      BY <2>3, <2>4, <3>2, HoldersFinite
  <2>6. QED
    BY <2>2, <2>5 DEF SlotConservation
<1>3. QED
  BY <1>1, <1>2

(* The queue after a release: the head has left it, and everyone else in   *)
(* it is still queued, once.                                               *)
LEMMA ReleaseKeepsQueue ==
  ASSUME TypeOK, QueueInv, NoIdleSlot,
         NEW s \in Holders, NEW state \in {"done", "cancelled"},
         Release(s, state)
  PROVE  /\ \A i \in DOMAIN waiters' : pc'[waiters'[i]] = "queued"
         /\ \A i, j \in DOMAIN waiters' : waiters'[i] = waiters'[j] => i = j
         /\ NoIdleSlot'
<1>0. s \in Stages /\ pc[s] \in {"running", "backoff"}
  BY DEF Holders
<1>1. CASE waiters = <<>>
  BY <1>1 DEF Release, NoIdleSlot
<1>2. CASE waiters # <<>>
  <2>1. /\ waiters' = Tail(waiters) /\ permits' = permits
        /\ pc' = [pc EXCEPT ![s] = state, ![waiters[1]] = "running"]
    BY <1>2 DEF Release, TypeOK
  <2>2. \A i \in DOMAIN waiters' :
           i + 1 \in DOMAIN waiters /\ waiters'[i] = waiters[i + 1] /\ i \in Nat \ {0}
    BY <1>2, <2>1 DEF TypeOK
  <2>3. ASSUME NEW i \in DOMAIN waiters' PROVE pc'[waiters'[i]] = "queued"
    <3>1. waiters[i + 1] \in Stages /\ pc[waiters[i + 1]] = "queued"
      BY <2>2 DEF QueueInv, TypeOK
    <3>2. 1 \in DOMAIN waiters /\ waiters[i + 1] # waiters[1]
      BY <1>2, <2>2 DEF QueueInv, TypeOK
    <3>3. QED
      BY <1>0, <2>1, <2>2, <3>1, <3>2 DEF TypeOK
  <2>4. ASSUME NEW i \in DOMAIN waiters', NEW j \in DOMAIN waiters',
               waiters'[i] = waiters'[j]
        PROVE  i = j
    BY <2>2, <2>4 DEF QueueInv
  <2>5. NoIdleSlot'
    BY <1>2, <2>1 DEF NoIdleSlot
  <2>6. QED
    BY <2>3, <2>4, <2>5
<1>3. QED
  BY <1>1, <1>2

(* A release wakes only stages whose dependencies are done, and undoes no  *)
(* completed stage.                                                        *)
LEMMA ReleaseKeepsOrder ==
  ASSUME TypeOK, QueueInv, DoneInv, NEW s \in Holders,
         NEW state \in {"done", "cancelled"}, Release(s, state)
  PROVE  \A t \in Stages :
           /\ t = s => pc'[t] = state
           /\ t # s => (pc'[t] = pc[t] \/ (pc[t] = "queued" /\ pc'[t] = "running"))
<1>0. s \in Stages /\ pc[s] \in {"running", "backoff"}
  BY DEF Holders
<1>1. CASE waiters = <<>>
  BY <1>0, <1>1 DEF Release, TypeOK
<1>2. CASE waiters # <<>>
  <2>1. waiters[1] \in Stages /\ pc[waiters[1]] = "queued"
    BY <1>2 DEF QueueInv, TypeOK
  <2>2. pc' = [pc EXCEPT ![s] = state, ![waiters[1]] = "running"]
    BY <1>2 DEF Release, TypeOK
  <2>3. QED
    BY <1>0, <2>1, <2>2 DEF TypeOK
<1>3. QED
  BY <1>1, <1>2

LEMMA InitIInv == Init => IInv
<1> SUFFICES ASSUME Init PROVE IInv
  OBVIOUS
<1>1. TypeOK
  BY SchedulerAssumption DEF Init, TypeOK
<1>2. QueueInv /\ DoneInv /\ NoIdleSlot
  BY DEF Init, QueueInv, DoneInv, NoIdleSlot
<1>6. DependencyOrder
  BY <1>1, GraphType DEF Init, DependencyOrder
<1>3. Holders = {}
  BY DEF Init, Holders
<1>4. SlotConservation
  BY <1>3, FS_EmptySet, SchedulerAssumption DEF Init, SlotConservation
<1>5. QED
  BY <1>1, <1>2, <1>4, <1>6 DEF IInv

(* Steps of run() itself move no stage.                                    *)
LEMMA RunStepIInv ==
  ASSUME IInv, RunStep, TypeOK' PROVE IInv'
<1>1. UNCHANGED <<dag, taskVars>>
  BY DEF RunStep, ReturnEmpty, RejectUnknownDep, Gather, Return, RaiseCancelled
<1>2. QueueInv'
  BY <1>1 DEF IInv, QueueInv, taskVars, RunStep, ReturnEmpty, RejectUnknownDep,
              Gather, Return, RaiseCancelled
<1>3. Holders' = Holders
  BY <1>1 DEF Holders, taskVars
<1>4. QED
  BY <1>1, <1>2, <1>3 DEF IInv, DoneInv, DependencyOrder, SlotConservation,
                          NoIdleSlot, taskVars

LEMMA InterruptIInv ==
  ASSUME IInv, Interrupt, TypeOK' PROVE IInv'
<1> USE DEF IInv
<1>1. Holders' = Holders
  BY DEF Interrupt, Holders, TypeOK
<1>2. SlotConservation' /\ NoIdleSlot'
  BY <1>1 DEF Interrupt, SlotConservation, NoIdleSlot
<1>3. QueueInv'
  BY DEF Interrupt, QueueInv
<1>4. \A t \in Stages : pc'[t] = pc[t] \/ (pc[t] # "done" /\ pc'[t] = "cancelled"
                                            /\ t \in DOMAIN dag)
  BY DEF Interrupt
<1>5. DoneInv'
  BY <1>4 DEF DoneInv, Interrupt
<1>6. DependencyOrder'
  BY <1>4, GraphType DEF DependencyOrder, Interrupt
<1>7. QED
  BY <1>2, <1>3, <1>5, <1>6

LEMMA AcquireSlotIInv ==
  ASSUME IInv, NEW s \in Stages, AcquireSlot(s), TypeOK' PROVE IInv'
<1> USE DEF IInv
<1>0. /\ s \in DOMAIN dag /\ pc[s] = "pending" /\ dag[s] \subseteq done
      /\ permits > 0 /\ waiters = <<>> /\ permits' = permits - 1
      /\ pc' = [pc EXCEPT ![s] = "running"]
      /\ dag' = dag /\ waiters' = waiters /\ done' = done /\ phase' = phase
  BY DEF AcquireSlot, Eligible
<1>1. Holders' = Holders \cup {s} /\ s \notin Holders
  BY <1>0 DEF Holders, TypeOK
<1>2. Cardinality(Holders') = Cardinality(Holders) + 1
  BY <1>1, HoldersFinite, FS_AddElement
<1>3. SlotConservation'
  BY <1>0, <1>2, HoldersFinite, SchedulerAssumption DEF SlotConservation, TypeOK
<1>4. QueueInv' /\ NoIdleSlot'
  BY <1>0 DEF QueueInv, NoIdleSlot
<1>5. DoneInv'
  BY <1>0 DEF DoneInv, TypeOK
<1>6. DependencyOrder'
  BY <1>0, GraphType DEF DependencyOrder, DoneInv, TypeOK
<1>7. QED
  BY <1>3, <1>4, <1>5, <1>6

LEMMA WaitForSlotIInv ==
  ASSUME IInv, NEW s \in Stages, WaitForSlot(s), TypeOK' PROVE IInv'
<1> USE DEF IInv
<1>0. /\ phase = "gathering"
      /\ s \in DOMAIN dag /\ pc[s] = "pending" /\ dag[s] \subseteq done
      /\ permits = 0 \/ waiters # <<>>
      /\ permits' = permits /\ waiters' = Append(waiters, s)
      /\ pc' = [pc EXCEPT ![s] = "queued"]
      /\ dag' = dag /\ done' = done /\ phase' = phase
  BY DEF WaitForSlot, Eligible
<1>1. Holders' = Holders
  BY <1>0 DEF Holders, TypeOK
<1>2. SlotConservation' /\ NoIdleSlot'
  BY <1>0, <1>1 DEF SlotConservation, NoIdleSlot
<1>3. \A i \in DOMAIN waiters' :
         \/ i \in DOMAIN waiters /\ waiters'[i] = waiters[i] /\ waiters'[i] # s
            /\ waiters'[i] \in Stages
         \/ i = Len(waiters) + 1 /\ waiters'[i] = s
  <2>0. waiters \in Seq(Stages) /\ DOMAIN waiters = 1 .. Len(waiters)
    BY DEF TypeOK
  <2>1. \A i \in DOMAIN waiters : waiters[i] \in Stages /\ waiters[i] # s
    BY <1>0, <2>0 DEF QueueInv
  <2>2. /\ DOMAIN waiters' = 1 .. Len(waiters) + 1
        /\ waiters'[Len(waiters) + 1] = s
        /\ \A i \in 1 .. Len(waiters) : waiters'[i] = waiters[i]
    BY <1>0, <2>0, AppendProperties
  <2>3. Len(waiters) \in Nat
    BY <2>0, LenProperties
  <2>4. QED
    BY <2>0, <2>1, <2>2, <2>3
<1>4. QueueInv'
  <2>1. \A i \in DOMAIN waiters' : pc'[waiters'[i]] = "queued"
    <3> SUFFICES ASSUME NEW i \in DOMAIN waiters' PROVE pc'[waiters'[i]] = "queued"
      OBVIOUS
    <3>1. CASE waiters'[i] = s
      BY <1>0, <3>1 DEF TypeOK
    <3>2. CASE waiters'[i] # s
      <4>1. /\ i \in DOMAIN waiters /\ waiters'[i] = waiters[i]
            /\ waiters'[i] \in Stages
        BY <1>3, <3>2
      <4>2. pc[waiters'[i]] = "queued"
        BY <4>1 DEF QueueInv
      <4>3. pc'[waiters'[i]] = pc[waiters'[i]]
        BY <1>0, <3>2, <4>1 DEF TypeOK
      <4> QED
        BY <4>2, <4>3
    <3> QED
      BY <3>1, <3>2
  <2>2. \A i, j \in DOMAIN waiters' : waiters'[i] = waiters'[j] => i = j
    BY <1>3 DEF QueueInv
  <2>3. QED
    BY <1>0, <2>1, <2>2 DEF QueueInv
<1>5. DoneInv'
  BY <1>0 DEF DoneInv, TypeOK
<1>6. DependencyOrder'
  BY <1>0, GraphType DEF DependencyOrder, DoneInv, TypeOK
<1>7. QED
  BY <1>2, <1>4, <1>5, <1>6

(* Going to sleep before a retry, and waking up, keeps the slot.           *)
LEMMA RetryIInv ==
  ASSUME IInv, NEW s \in Stages, TypeOK',
         \/ BackoffElapsed(s)
         \/ \E o \in Returnable : ScheduleRetry(s, o)
  PROVE  IInv'
<1> USE DEF IInv
<1>0. /\ pc[s] \in {"running", "backoff"}
      /\ \E q \in {"running", "backoff"} : pc' = [pc EXCEPT ![s] = q]
      /\ UNCHANGED <<phase, dag, permits, waiters, done>>
  BY DEF BackoffElapsed, ScheduleRetry
<1>1. Holders' = Holders
  BY <1>0 DEF Holders, TypeOK
<1>2. SlotConservation' /\ NoIdleSlot'
  BY <1>0, <1>1 DEF SlotConservation, NoIdleSlot
<1>3. QueueInv'
  BY <1>0 DEF QueueInv, TypeOK
<1>4. DoneInv'
  BY <1>0 DEF DoneInv, TypeOK
<1>5. DependencyOrder'
  BY <1>0, GraphType DEF DependencyOrder, TypeOK
<1>6. QED
  BY <1>2, <1>3, <1>4, <1>5

LEMMA PublishIInv ==
  ASSUME IInv, NEW s \in Stages, NEW o \in Returnable, Publish(s, o), TypeOK'
  PROVE  IInv'
<1> USE DEF IInv
<1>0. /\ phase = "gathering" /\ phase' = phase /\ dag' = dag
      /\ pc[s] = "running" /\ s \in Holders
      /\ done' = done \cup {s} /\ Release(s, "done")
  BY DEF Publish, Holders
<1>1. SlotConservation'
  BY <1>0, ReleaseKeepsSlots
<1>2. QueueInv' /\ NoIdleSlot'
  BY <1>0, ReleaseKeepsQueue DEF QueueInv
<1>3. \A t \in Stages :
         /\ t = s => pc'[t] = "done"
         /\ t # s => (pc'[t] = pc[t] \/ (pc[t] = "queued" /\ pc'[t] = "running"))
  BY <1>0, ReleaseKeepsOrder
<1>4. DoneInv'
  BY <1>0, <1>3 DEF DoneInv
<1>5. DependencyOrder'
  BY <1>0, <1>3, GraphType DEF DependencyOrder
<1>6. QED
  BY <1>1, <1>2, <1>4, <1>5

LEMMA UnwindIInv ==
  ASSUME IInv, NEW s \in Stages, Unwind(s), TypeOK' PROVE IInv'
<1> USE DEF IInv
<1>0. /\ phase' = phase /\ phase = "cancelling" /\ dag' = dag /\ done' = done
      /\ s \in Holders /\ pc[s] \in {"running", "backoff"}
      /\ Release(s, "cancelled") /\ waiters = <<>>
  BY DEF Unwind, Holders, QueueInv
<1>1. SlotConservation'
  BY <1>0, ReleaseKeepsSlots
<1>2. waiters' = <<>>
  BY <1>0 DEF Release
<1>3. QueueInv' /\ NoIdleSlot'
  BY <1>2 DEF QueueInv, NoIdleSlot
<1>4. \A t \in Stages :
         /\ t = s => pc'[t] = "cancelled"
         /\ t # s => (pc'[t] = pc[t] \/ (pc[t] = "queued" /\ pc'[t] = "running"))
  BY <1>0, ReleaseKeepsOrder
<1>5. DoneInv'
  BY <1>0, <1>4 DEF DoneInv
<1>6. DependencyOrder'
  BY <1>0, <1>4, GraphType DEF DependencyOrder
<1>7. QED
  BY <1>1, <1>3, <1>5, <1>6

THEOREM Invariance == Spec => []IInv
<1>1. IInv /\ TypeOK' /\ [Next]_vars => IInv'
  <2> SUFFICES ASSUME IInv, TypeOK', [Next]_vars PROVE IInv'
    OBVIOUS
  <2>1. CASE UNCHANGED vars
    <3>1. Holders' = Holders
      BY <2>1 DEF vars, Holders
    <3>2. QED
      BY <2>1, <3>1 DEF vars, IInv, QueueInv, DoneInv, DependencyOrder,
                        SlotConservation, NoIdleSlot
  <2>2. QED
    BY <2>1, RunStepIInv, InterruptIInv, AcquireSlotIInv, WaitForSlotIInv,
       RetryIInv, PublishIInv, UnwindIInv
    DEF Next, StageStep
<1>2. QED
  BY <1>1, InitIInv, TypeCorrect, PTL DEF Spec

(* Whatever the graph and the interleaving, a stage past its wait has all  *)
(* its dependencies published.                                             *)
THEOREM StagesRunInDependencyOrder == Spec => []DependencyOrder
<1>1. IInv => DependencyOrder
  BY DEF IInv
<1>2. QED
  BY <1>1, Invariance, PTL

(* Slots are neither lost nor made, and nobody waits while one is free.    *)
THEOREM SlotsAreDisciplined == Spec => []SlotDiscipline
<1>1. IInv => SlotDiscipline
  BY DEF IInv, SlotDiscipline
<1>2. QED
  BY <1>1, Invariance, PTL

(* "Up to max_parallel stages run concurrently": never more, for every     *)
(* max_parallel.                                                           *)
THEOREM ParallelismIsBounded == Spec => [](Cardinality(Holders) <= MaxParallel)
<1>1. IInv => Cardinality(Holders) <= MaxParallel
  BY HoldersFinite, SchedulerAssumption DEF IInv, SlotConservation, TypeOK
<1>2. QED
  BY <1>1, Invariance, PTL

-----------------------------------------------------------------------------
(* The attempts of a stage: how many its history has, and that every one   *)
(* but the published was transient.                                        *)
AttemptInv ==
  \A s \in Stages :
    /\ attempt[s] <= MaxRetries[s]
    /\ Len(history[s]) = IF pc[s] = "done" THEN attempt[s] + 1 ELSE attempt[s]
    /\ \A i \in 1 .. attempt[s] : IsRetryable(history[s][i])

(* The published outcome of a stage is its last.                           *)
OutcomeInv ==
  \A i \in DOMAIN results :
    LET n == results[i].name IN
      /\ pc[n] = "done"
      /\ results[i].outcome = history[n][attempt[n] + 1]
      /\ IsRetryable(results[i].outcome) => attempt[n] = MaxRetries[n]

ListInv ==
  /\ {results[i].name : i \in DOMAIN results} = done
  /\ \A i, j \in DOMAIN results :
       /\ results[i].name = results[j].name => i = j
       /\ results[i].name \in dag[results[j].name] => i < j

ReturnInv == phase = "returned" => done = DOMAIN dag

PublishInv == AttemptInv /\ OutcomeInv /\ ListInv /\ ReturnInv

LEMMA ResultsType ==
  ASSUME TypeOK
  PROVE  \A i \in DOMAIN results : results[i].name \in Stages /\ results[i].outcome \in Outcome
<1> DEFINE R == [name : Stages, outcome : Outcome]
<1>1. results \in Seq(R) /\ \A x \in R : x.name \in Stages /\ x.outcome \in Outcome
  BY DEF TypeOK
<1> HIDE DEF R
<1>2. QED
  BY <1>1

(* Both lists end in what was published.                                   *)
LEMMA ResultsAppend ==
  ASSUME TypeOK, NEW s \in Stages, NEW o \in Outcome,
         results' = Append(results, [name |-> s, outcome |-> o])
  PROVE  /\ DOMAIN results = 1 .. Len(results) /\ Len(results) \in Nat
         /\ DOMAIN results' = 1 .. Len(results) + 1
         /\ \A i \in 1 .. Len(results) : results'[i] = results[i]
         /\ results'[Len(results) + 1] = [name |-> s, outcome |-> o]
<1> DEFINE R == [name : Stages, outcome : Outcome]
           r == [name |-> s, outcome |-> o]
<1>1. results \in Seq(R) /\ r \in R /\ results' = Append(results, r)
  BY DEF TypeOK
<1> HIDE DEF R, r
<1>2. /\ DOMAIN results = 1 .. Len(results) /\ Len(results) \in Nat
      /\ DOMAIN results' = 1 .. Len(results) + 1
      /\ \A i \in 1 .. Len(results) : results'[i] = results[i]
      /\ results'[Len(results) + 1] = r
  BY <1>1
<1>3. QED
  BY <1>2 DEF r

LEMMA HistoryAppend ==
  ASSUME TypeOK, NEW s \in Stages, NEW o \in Outcome,
         history' = [history EXCEPT ![s] = Append(@, o)]
  PROVE  /\ \A t \in Stages : t # s => history'[t] = history[t]
         /\ Len(history[s]) \in Nat /\ Len(history'[s]) = Len(history[s]) + 1
         /\ \A i \in 1 .. Len(history[s]) : history'[s][i] = history[s][i]
         /\ history'[s][Len(history[s]) + 1] = o
<1>1. /\ history'[s] = Append(history[s], o) /\ history[s] \in Seq(Outcome)
      /\ \A t \in Stages : t # s => history'[t] = history[t]
  BY DEF TypeOK
<1> DEFINE h == history[s]
           g == history'[s]
<1> HIDE DEF h, g
<1>2. g = Append(h, o) /\ h \in Seq(Outcome)
  BY <1>1 DEF h, g
<1>3. /\ Len(h) \in Nat /\ Len(g) = Len(h) + 1
      /\ \A i \in 1 .. Len(h) : g[i] = h[i]
      /\ g[Len(h) + 1] = o
  BY <1>2
<1>4. QED
  BY <1>1, <1>3 DEF h, g

LEMMA PublishInvInit == Init => PublishInv
<1> SUFFICES ASSUME Init PROVE PublishInv
  OBVIOUS
<1>1. AttemptInv
  <2> SUFFICES ASSUME NEW s \in Stages
      PROVE  /\ attempt[s] <= MaxRetries[s]
             /\ Len(history[s]) = IF pc[s] = "done" THEN attempt[s] + 1 ELSE attempt[s]
             /\ \A i \in 1 .. attempt[s] : IsRetryable(history[s][i])
    BY DEF AttemptInv
  <2>1. attempt[s] = 0 /\ pc[s] = "pending" /\ history[s] = <<>> /\ MaxRetries[s] \in Nat
    BY SchedulerAssumption DEF Init
  <2>2. QED
    BY <2>1
<1>2. results = <<>> /\ done = {} /\ phase = "called"
  BY DEF Init
<1>3. QED
  BY <1>1, <1>2 DEF PublishInv, OutcomeInv, ListInv, ReturnInv

(* Steps that publish nothing and count no attempt.                        *)
LEMMA QuietPublishInv ==
  ASSUME TypeOK, TypeOK', IInv, PublishInv,
         UNCHANGED <<dag, attempt, done, results, history>>,
         \A s \in Stages : pc[s] = "done" <=> pc'[s] = "done",
         phase' = "returned" => phase = "returned" \/ done = DOMAIN dag
  PROVE  PublishInv'
<1>1. AttemptInv'
  BY DEF PublishInv, AttemptInv
<1>2. OutcomeInv'
  BY ResultsType DEF PublishInv, OutcomeInv
<1>3. ListInv' /\ ReturnInv'
  BY DEF PublishInv, ListInv, ReturnInv
<1>4. QED
  BY <1>1, <1>2, <1>3 DEF PublishInv

(* A transient failure is one attempt more.                                *)
LEMMA RetryPublishInv ==
  ASSUME TypeOK, TypeOK', IInv, PublishInv, NEW s \in Stages,
         NEW o \in Returnable, ScheduleRetry(s, o)
  PROVE  PublishInv'
<1>0. /\ o \in Outcome /\ pc[s] = "running" /\ phase = "gathering" /\ phase' = phase
      /\ pc' = [pc EXCEPT ![s] = "backoff"] /\ attempt' = [attempt EXCEPT ![s] = @ + 1]
      /\ history' = [history EXCEPT ![s] = Append(@, o)]
      /\ UNCHANGED <<dag, done, results>>
      /\ IsRetryable(o) /\ attempt[s] < MaxRetries[s]
      /\ MaxRetries[s] \in Nat /\ attempt[s] \in Nat
  BY ReturnableType, SchedulerAssumption DEF ScheduleRetry, Retries, TypeOK
<1>1. /\ \A t \in Stages : t # s => history'[t] = history[t]
      /\ Len(history'[s]) = Len(history[s]) + 1
      /\ \A i \in 1 .. Len(history[s]) : history'[s][i] = history[s][i]
      /\ history'[s][Len(history[s]) + 1] = o
  BY <1>0, HistoryAppend
<1>2. Len(history[s]) = attempt[s] /\ attempt'[s] = attempt[s] + 1
  BY <1>0 DEF PublishInv, AttemptInv, TypeOK
<1>3. AttemptInv'
  <2> SUFFICES ASSUME NEW t \in Stages
      PROVE  /\ attempt'[t] <= MaxRetries[t]
             /\ Len(history'[t]) = IF pc'[t] = "done" THEN attempt'[t] + 1 ELSE attempt'[t]
             /\ \A i \in 1 .. attempt'[t] : IsRetryable(history'[t][i])
    BY DEF AttemptInv
  <2>1. CASE t # s
    <3>1. attempt'[t] = attempt[t] /\ pc'[t] = pc[t] /\ history'[t] = history[t]
      BY <1>0, <1>1, <2>1 DEF TypeOK
    <3>2. QED
      BY <3>1 DEF PublishInv, AttemptInv
  <2>2. CASE t = s
    <3>1. attempt'[s] <= MaxRetries[s] /\ pc'[s] = "backoff"
      BY <1>0, <1>2 DEF TypeOK
    <3>2. \A i \in 1 .. attempt[s] : IsRetryable(history'[s][i])
      BY <1>1, <1>2 DEF PublishInv, AttemptInv
    <3>3. IsRetryable(history'[s][attempt[s] + 1])
      BY <1>0, <1>1, <1>2
    <3>4. \A i \in 1 .. attempt'[s] : IsRetryable(history'[s][i])
      BY <1>0, <1>2, <3>2, <3>3
    <3>5. QED
      BY <1>1, <1>2, <2>2, <3>1, <3>4
  <2>3. QED
    BY <2>1, <2>2
<1>4. OutcomeInv'
  BY <1>0, <1>1, ResultsType, ZenonT(60) DEF PublishInv, OutcomeInv, TypeOK
<1>5. ListInv' /\ ReturnInv'
  BY <1>0 DEF PublishInv, ListInv, ReturnInv
<1>6. QED
  BY <1>3, <1>4, <1>5 DEF PublishInv

(* What is published is the last outcome, at the end of the list, behind   *)
(* the dependencies and before the dependents of the stage.                *)
LEMMA PublishPublishInv ==
  ASSUME TypeOK, TypeOK', IInv, PublishInv, NEW s \in Stages,
         NEW o \in Returnable, Publish(s, o)
  PROVE  PublishInv'
<1>0. /\ o \in Outcome /\ pc[s] = "running" /\ phase = "gathering" /\ phase' = phase
      /\ history' = [history EXCEPT ![s] = Append(@, o)]
      /\ results' = Append(results, [name |-> s, outcome |-> o])
      /\ done' = done \cup {s} /\ Release(s, "done") /\ attempt' = attempt /\ dag' = dag
      /\ ~Retries(s, o) /\ MaxRetries[s] \in Nat /\ attempt[s] \in Nat
  BY ReturnableType, SchedulerAssumption DEF Publish, TypeOK
<1>1. /\ \A t \in Stages : t # s => history'[t] = history[t]
      /\ Len(history'[s]) = Len(history[s]) + 1
      /\ \A i \in 1 .. Len(history[s]) : history'[s][i] = history[s][i]
      /\ history'[s][Len(history[s]) + 1] = o
  BY <1>0, HistoryAppend
<1>2. /\ DOMAIN results = 1 .. Len(results) /\ Len(results) \in Nat
      /\ DOMAIN results' = 1 .. Len(results) + 1
      /\ \A i \in 1 .. Len(results) : results'[i] = results[i]
      /\ results'[Len(results) + 1] = [name |-> s, outcome |-> o]
  BY <1>0, ResultsAppend
<1>3. pc'[s] = "done" /\ \A t \in Stages : t # s => (pc'[t] = "done" <=> pc[t] = "done")
  <2>1. /\ phase = "gathering" /\ s \in Holders
    BY <1>0 DEF Holders
  <2>2. QED
    BY <1>0, <2>1, ReleaseKeepsOrder DEF IInv
<1>4. Len(history[s]) = attempt[s]
  BY <1>0 DEF PublishInv, AttemptInv
<1>5. AttemptInv'
  <2> SUFFICES ASSUME NEW t \in Stages
      PROVE  /\ attempt'[t] <= MaxRetries[t]
             /\ Len(history'[t]) = IF pc'[t] = "done" THEN attempt'[t] + 1 ELSE attempt'[t]
             /\ \A i \in 1 .. attempt'[t] : IsRetryable(history'[t][i])
    BY DEF AttemptInv
  <2>1. CASE t # s
    BY <1>0, <1>1, <1>3, <2>1 DEF PublishInv, AttemptInv
  <2>2. CASE t = s
    <3>1. \A i \in 1 .. attempt[s] : IsRetryable(history'[s][i])
      BY <1>1, <1>4 DEF PublishInv, AttemptInv
    <3>2. QED
      BY <1>0, <1>1, <1>3, <1>4, <2>2, <3>1 DEF PublishInv, AttemptInv
  <2>3. QED
    BY <2>1, <2>2
<1>6. \A i \in 1 .. Len(results) : results[i].name \in Stages /\ results[i].name # s
                                   /\ results[i].name \in done
  BY <1>0, <1>2, ResultsType DEF PublishInv, OutcomeInv, ListInv
<1>7. OutcomeInv'
  <2> SUFFICES ASSUME NEW i \in DOMAIN results'
      PROVE  /\ pc'[results'[i].name] = "done"
             /\ results'[i].outcome =
                  history'[results'[i].name][attempt'[results'[i].name] + 1]
             /\ IsRetryable(results'[i].outcome) =>
                  attempt'[results'[i].name] = MaxRetries[results'[i].name]
    BY DEF OutcomeInv
  <2>1. CASE i \in 1 .. Len(results)
    BY <1>0, <1>1, <1>2, <1>3, <1>6, <2>1 DEF PublishInv, OutcomeInv
  <2>2. CASE i = Len(results) + 1
    <3>1. results'[i].name = s /\ results'[i].outcome = o
      BY <1>2, <2>2
    <3>2. IsRetryable(o) => attempt[s] = MaxRetries[s]
      BY <1>0 DEF Retries, PublishInv, AttemptInv
    <3>3. QED
      BY <1>0, <1>1, <1>3, <1>4, <3>1, <3>2
  <2>3. QED
    BY <1>2, <2>1, <2>2
<1>8. ListInv'
  <2>1. {results'[i].name : i \in DOMAIN results'} = done'
    <3>1. \A d \in done : \E i \in 1 .. Len(results) : d = results[i].name
      BY <1>2 DEF PublishInv, ListInv
    <3>2. \A i \in 1 .. Len(results) : results'[i].name \in done
      BY <1>2, <1>6
    <3>3. results'[Len(results) + 1].name = s
      BY <1>2
    <3>4. \A d \in done : \E i \in DOMAIN results' : d = results'[i].name
      BY <1>2, <3>1
    <3>5. \E i \in DOMAIN results' : s = results'[i].name
      BY <1>2, <3>3
    <3>6. \A i \in DOMAIN results' : results'[i].name \in done \cup {s}
      BY <1>2, <3>2, <3>3
    <3>7. QED
      BY <1>0, <3>4, <3>5, <3>6
  <2>2. s \in DOMAIN dag /\ dag[s] \subseteq done /\ s \notin done
    BY <1>0, GraphType DEF IInv, DoneInv, DependencyOrder
  <2>3. \A d \in done : d \in DOMAIN dag /\ dag[d] \subseteq done
    BY GraphType DEF IInv, DoneInv, DependencyOrder, TypeOK
  <2> SUFFICES ASSUME NEW i \in DOMAIN results', NEW j \in DOMAIN results'
      PROVE  /\ results'[i].name = results'[j].name => i = j
             /\ results'[i].name \in dag[results'[j].name] => i < j
    BY <1>0, <2>1 DEF ListInv
  <2>4. CASE i \in 1 .. Len(results) /\ j \in 1 .. Len(results)
    BY <1>2, <2>4 DEF PublishInv, ListInv
  <2>5. CASE i \in 1 .. Len(results) /\ j = Len(results) + 1
    <3>1. results'[i].name # s /\ results'[j].name = s
      BY <1>2, <1>6, <2>5
    <3>2. QED
      BY <1>2, <2>5, <3>1
  <2>6. CASE i = Len(results) + 1 /\ j \in 1 .. Len(results)
    <3>1. results'[i].name = s /\ results'[j].name = results[j].name
          /\ results[j].name \in done
      BY <1>2, <1>6, <2>6
    <3>2. QED
      BY <2>2, <2>3, <3>1
  <2>7. CASE i = Len(results) + 1 /\ j = Len(results) + 1
    <3>1. results'[i].name = s /\ results'[j].name = s
      BY <1>2, <2>7
    <3>2. QED
      BY <2>2, <2>7, <3>1
  <2>8. QED
    BY <1>2, <2>4, <2>5, <2>6, <2>7
<1>9. ReturnInv'
  BY <1>0 DEF ReturnInv
<1>10. QED
  BY <1>5, <1>7, <1>8, <1>9 DEF PublishInv

THEOREM PublishInvariance == Spec => []PublishInv
<1>1. TypeOK /\ TypeOK' /\ IInv /\ PublishInv /\ [Next]_vars => PublishInv'
  <2> SUFFICES ASSUME TypeOK, TypeOK', IInv, PublishInv, [Next]_vars
      PROVE  PublishInv'
    OBVIOUS
  <2>1. CASE UNCHANGED vars
    BY <2>1, QuietPublishInv DEF vars
  <2>2. CASE RunStep
    <3>1. /\ UNCHANGED <<dag, taskVars>>
          /\ phase' = "returned" => DOMAIN dag = {} \/ DOMAIN dag \subseteq done
      BY <2>2 DEF RunStep, ReturnEmpty, RejectUnknownDep, Gather, Return, RaiseCancelled
    <3>2. done \subseteq DOMAIN dag
      BY DEF IInv, DoneInv, TypeOK
    <3>3. QED
      BY <3>1, <3>2, QuietPublishInv DEF taskVars
  <2>3. CASE Interrupt
    BY <2>3, QuietPublishInv DEF Interrupt
  <2>4. ASSUME NEW s \in Stages, AcquireSlot(s) \/ WaitForSlot(s) \/ BackoffElapsed(s)
        PROVE  PublishInv'
    <3>1. /\ UNCHANGED <<phase, dag, attempt, done, results, history>>
          /\ pc[s] \in {"pending", "backoff"}
          /\ \E q \in {"queued", "running"} : pc' = [pc EXCEPT ![s] = q]
      BY <2>4 DEF AcquireSlot, WaitForSlot, BackoffElapsed, Eligible
    <3>2. \A t \in Stages : pc[t] = "done" <=> pc'[t] = "done"
      BY <3>1 DEF TypeOK
    <3>3. QED
      BY <3>1, <3>2, QuietPublishInv
  <2>5. ASSUME NEW s \in Stages, Unwind(s) PROVE PublishInv'
    <3>1. /\ UNCHANGED <<phase, dag, attempt, done, results, history>>
          /\ s \in Holders /\ pc[s] # "done" /\ Release(s, "cancelled")
      BY <2>5 DEF Unwind, Holders
    <3>2. \A t \in Stages : pc[t] = "done" <=> pc'[t] = "done"
      BY <3>1, ReleaseKeepsOrder DEF IInv
    <3>3. QED
      BY <3>1, <3>2, QuietPublishInv
  <2>6. QED
    BY <2>1, <2>2, <2>3, <2>4, <2>5, RetryPublishInv, PublishPublishInv
    DEF Next, StageStep
<1>2. QED
  BY <1>1, PublishInvInit, TypeCorrect, Invariance, PTL DEF Spec

(* "Retry only transient failures": for every retry policy and whatever    *)
(* the coroutines return, a stage is invoked at most max_retries + 1       *)
(* times, and its last outcome is the one published.                       *)
THEOREM RetriesAreDisciplined == Spec => []RetryDiscipline
<1>1. TypeOK /\ PublishInv => RetryDiscipline
  <2> SUFFICES ASSUME TypeOK, PublishInv PROVE RetryDiscipline
    OBVIOUS
  <2>1. \A s \in Stages : attempt[s] \in Nat /\ MaxRetries[s] \in Nat
    BY SchedulerAssumption DEF TypeOK
  <2>2. \A s \in Stages :
          /\ Len(history[s]) <= MaxRetries[s] + 1
          /\ \A i \in 1 .. Len(history[s]) - 1 : IsRetryable(history[s][i])
    BY <2>1 DEF PublishInv, AttemptInv
  <2>3. ASSUME NEW i \in DOMAIN results
        PROVE  LET h == history[results[i].name] IN
                 /\ h # <<>> /\ results[i].outcome = h[Len(h)]
                 /\ IsRetryable(results[i].outcome) =>
                      Len(h) = MaxRetries[results[i].name] + 1
    <3> DEFINE n == results[i].name
    <3>1. n \in Stages
      BY <2>3, ResultsType
    <3>2. /\ pc[n] = "done" /\ results[i].outcome = history[n][attempt[n] + 1]
          /\ IsRetryable(results[i].outcome) => attempt[n] = MaxRetries[n]
      BY <2>3 DEF PublishInv, OutcomeInv
    <3> HIDE DEF n
    <3>3. Len(history[n]) = attempt[n] + 1
      BY <3>1, <3>2 DEF PublishInv, AttemptInv
    <3>4. history[n] # <<>>
      BY <2>1, <3>1, <3>3
    <3>5. QED
      BY <3>2, <3>3, <3>4 DEF n
  <2>4. QED
    BY <2>2, <2>3 DEF RetryDiscipline
<1>2. QED
  BY <1>1, TypeCorrect, PublishInvariance, PTL

(* Each submitted stage is in the list once, behind its dependencies, when *)
(* its event is set, and all of them when run() returns.                   *)
THEOREM ResultsAndEventsAgree == Spec => []ResultsAgree
<1>1. PublishInv => ResultsAgree
  BY DEF PublishInv, ListInv, ReturnInv, ResultsAgree
<1>2. QED
  BY <1>1, PublishInvariance, PTL

(* A cancelled run starts no stage and publishes none.                     *)
THEOREM CancellationIsFinal == Spec => CancelIsFinal
<1>1. IInv /\ [Next]_vars =>
        (phase = "cancelling" =>
           /\ results' = results /\ history' = history
           /\ \A s \in Stages : pc'[s] = "running" => pc[s] = "running")
  <2> SUFFICES ASSUME IInv, [Next]_vars, phase = "cancelling"
      PROVE  /\ results' = results /\ history' = history
             /\ \A s \in Stages : pc'[s] = "running" => pc[s] = "running"
    OBVIOUS
  <2>1. CASE RunStep \/ UNCHANGED vars
    BY <2>1 DEF RunStep, ReturnEmpty, RejectUnknownDep, Gather, Return,
                RaiseCancelled, taskVars, vars
  <2>2. ASSUME NEW s \in Stages, Unwind(s)
        PROVE  /\ results' = results /\ history' = history
               /\ \A t \in Stages : pc'[t] = "running" => pc[t] = "running"
    <3>1. waiters = <<>>
      BY DEF IInv, QueueInv
    <3>2. /\ results' = results /\ history' = history
          /\ pc' = [pc EXCEPT ![s] = "cancelled"]
      BY <2>2, <3>1 DEF Unwind, Release
    <3>3. QED
      BY <3>2 DEF IInv, TypeOK
  <2>3. QED
    BY <2>1, <2>2 DEF Next, StageStep, Interrupt, AcquireSlot, WaitForSlot,
                      Eligible, BackoffElapsed, ScheduleRetry, Publish
<1>2. QED
  BY <1>1, Invariance, PTL DEF Spec, CancelIsFinal

-----------------------------------------------------------------------------
(* Refinement: every behaviour of the scheduler, seen through              *)
(* AbstractState, is one DagRun allows.                                    *)

absSt    == [s \in Stages |-> AbstractState(s)]
absOrder == [i \in DOMAIN results |-> results[i].name]

LEMMA AbstractSets ==
  ASSUME TypeOK, DoneInv
  PROVE  Promise!Completed = done /\ Promise!Active = Holders
<1>1. \A s \in Stages : /\ AbstractState(s) = "done" <=> pc[s] = "done"
                        /\ AbstractState(s) = "active" <=> pc[s] \in {"running", "backoff"}
  BY DEF AbstractState, TypeOK
<1>2. QED
  BY <1>1 DEF Promise!Completed, Promise!Active, Holders, DoneInv

LEMMA SameCardinality == \A S : Promise!Cardinality(S) = Cardinality(S)
  BY DEF Promise!Cardinality, Cardinality

LEMMA AbstractStutter ==
  ASSUME TypeOK, dag' = dag, results' = results,
         \A s \in Stages : AbstractState(s)' = AbstractState(s)
  PROVE  UNCHANGED Promise!vars
  BY DEF Promise!vars

LEMMA AbstractAppend ==
  ASSUME TypeOK, NEW s \in Stages, NEW o \in Outcome,
         results' = Append(results, [name |-> s, outcome |-> o])
  PROVE  absOrder' = Append(absOrder, s)
<1>1. /\ DOMAIN results = 1 .. Len(results) /\ Len(results) \in Nat
      /\ DOMAIN results' = 1 .. Len(results) + 1
      /\ \A i \in 1 .. Len(results) :
            results'[i] = results[i] /\ results[i].name \in Stages
      /\ results'[Len(results) + 1] = [name |-> s, outcome |-> o]
  BY ResultsAppend, ResultsType
<1>2. absOrder \in Seq(Stages) /\ Len(absOrder) = Len(results)
  <2>1. absOrder \in [1 .. Len(results) -> Stages]
    BY <1>1 DEF absOrder
  <2>2. QED
    BY <1>1, <2>1
<1>3. absOrder' = [i \in 1 .. Len(results) + 1 |->
                     IF i = Len(results) + 1 THEN s ELSE absOrder[i]]
  BY <1>1 DEF absOrder
<1>4. /\ Append(absOrder, s) \in Seq(Stages)
      /\ DOMAIN Append(absOrder, s) = 1 .. Len(results) + 1
      /\ \A i \in 1 .. Len(results) : Append(absOrder, s)[i] = absOrder[i]
      /\ Append(absOrder, s)[Len(results) + 1] = s
  BY <1>2
<1>5. Append(absOrder, s) =
        [i \in 1 .. Len(results) + 1 |->
           IF i = Len(results) + 1 THEN s ELSE absOrder[i]]
  <2> DEFINE L == Append(absOrder, s)
             n == Len(results) + 1
  <2>1. L \in [1 .. n -> Stages]
    BY <1>4, LenProperties
  <2>2. \A i \in 1 .. n : L[i] = IF i = n THEN s ELSE absOrder[i]
    BY <1>1, <1>4
  <2>3. QED
    BY <2>1, <2>2
<1>6. QED
  BY <1>3, <1>5

(* A run starts where DagRun does.                                         *)
LEMMA PromiseInit == Init => Promise!Init
<1> SUFFICES ASSUME Init PROVE Promise!Init
  OBVIOUS
<1>1. \A s \in Stages : AbstractState(s) = "idle"
  BY DEF Init, AbstractState
<1>2. [i \in DOMAIN results |-> results[i].name] = <<>>
  BY DEF Init
<1>3. QED
  BY <1>1, <1>2 DEF Init, Promise!Init

LEMMA PromiseAcquire ==
  ASSUME IInv, NEW s \in Stages, AcquireSlot(s) PROVE Promise!Begin(s)
<1>0. /\ s \in DOMAIN dag /\ pc[s] = "pending" /\ dag[s] \subseteq done
      /\ permits > 0 /\ pc' = [pc EXCEPT ![s] = "running"]
      /\ dag' = dag /\ results' = results
  BY DEF AcquireSlot, Eligible
<1>1. Cardinality(Holders) < MaxParallel
  BY <1>0, HoldersFinite, SchedulerAssumption DEF IInv, SlotConservation, TypeOK
<1>2. \A t \in Stages : AbstractState(t)' = IF t = s THEN "active" ELSE AbstractState(t)
  BY <1>0 DEF AbstractState, IInv, TypeOK
<1>3. AbstractState(s) = "idle"
  BY <1>0 DEF AbstractState
<1>4. absSt' = [absSt EXCEPT ![s] = "active"]
  BY <1>2 DEF absSt
<1>5. QED
  <2>1. dag[s] \subseteq Promise!Completed /\ Cardinality(Promise!Active) < MaxParallel
    BY <1>0, <1>1, AbstractSets DEF IInv
  <2>2. absSt[s] = "idle"
    BY <1>3 DEF absSt
  <2>3. QED
    <3>1. Promise!Begin(s) <=>
            /\ s \in DOMAIN dag /\ absSt[s] = "idle"
            /\ dag[s] \subseteq Promise!Completed
            /\ Cardinality(Promise!Active) < MaxParallel
            /\ absSt' = [absSt EXCEPT ![s] = "active"]
            /\ dag' = dag /\ absOrder' = absOrder
      BY SameCardinality DEF Promise!Begin, absSt, absOrder
    <3>2. absOrder' = absOrder
      BY <1>0 DEF absOrder
    <3>3. QED
      BY <1>0, <1>4, <2>1, <2>2, <3>1, <3>2

LEMMA PromisePublish ==
  ASSUME IInv, NEW s \in Stages, NEW o \in Returnable, Publish(s, o)
  PROVE  Promise!Complete(s) \/ \E t \in Stages : Promise!CompleteAndBegin(s, t)
<1>0. /\ pc[s] = "running" /\ dag' = dag /\ Release(s, "done") /\ o \in Outcome
      /\ results' = Append(results, [name |-> s, outcome |-> o])
  BY ReturnableType DEF Publish
<1>1. AbstractState(s) = "active"
  BY <1>0 DEF AbstractState
<1>2. absOrder' = Append(absOrder, s)
  BY <1>0, AbstractAppend DEF IInv
<1>3. CASE waiters = <<>>
  <2>1. pc' = [pc EXCEPT ![s] = "done"]
    BY <1>0, <1>3 DEF Release
  <2>2. \A t \in Stages : AbstractState(t)' = IF t = s THEN "done" ELSE AbstractState(t)
    BY <2>1 DEF AbstractState, IInv, TypeOK
  <2>3. absSt' = [absSt EXCEPT ![s] = "done"]
    BY <2>2 DEF absSt
  <2>4. QED
    BY <1>0, <1>1, <1>2, <2>3 DEF Promise!Complete, absSt, absOrder
<1>4. CASE waiters # <<>>
  <2>0. PICK t \in Stages : t = waiters[1]
    BY <1>4 DEF IInv, TypeOK
  <2>1. pc[t] = "queued" /\ t # s
    BY <1>0, <1>4, <2>0 DEF IInv, QueueInv, TypeOK
  <2>2. pc' = [pc EXCEPT ![s] = "done", ![t] = "running"]
    BY <1>0, <1>4, <2>0 DEF Release, IInv, TypeOK
  <2>3. t \in DOMAIN dag /\ dag[t] \subseteq done
    BY <2>1, GraphType DEF IInv, DoneInv, DependencyOrder
  <2>4. \A u \in Stages : AbstractState(u)' =
           IF u = t THEN "active" ELSE IF u = s THEN "done" ELSE AbstractState(u)
    BY <2>1, <2>2 DEF AbstractState, IInv, TypeOK
  <2>5. absSt' = [absSt EXCEPT ![s] = "done", ![t] = "active"]
    BY <2>1, <2>4 DEF absSt
  <2>6. AbstractState(t) = "idle"
    BY <2>1 DEF AbstractState
  <2>7. Promise!CompleteAndBegin(s, t)
    <3>1. dag[t] \subseteq Promise!Completed
      BY <2>3, AbstractSets DEF IInv
    <3>2. absSt[s] = "active" /\ absSt[t] = "idle"
      BY <1>1, <2>1, <2>6 DEF absSt
    <3>3. Promise!CompleteAndBegin(s, t) <=>
            /\ absSt[s] = "active" /\ t \in DOMAIN dag /\ absSt[t] = "idle"
            /\ dag[t] \subseteq Promise!Completed
            /\ absSt' = [absSt EXCEPT ![s] = "done", ![t] = "active"]
            /\ absOrder' = Append(absOrder, s) /\ dag' = dag
      BY DEF Promise!CompleteAndBegin, absSt, absOrder
    <3>4. QED
      BY <1>0, <1>2, <2>3, <2>5, <3>1, <3>2, <3>3
  <2>8. QED
    BY <2>7
<1>5. QED
  BY <1>3, <1>4

(* Cancelling, and unwinding, give stages up.                              *)
LEMMA PromiseAbandon ==
  ASSUME IInv, NEW S \in SUBSET Stages, dag' = dag, results' = results,
         \A t \in S : pc[t] # "done" /\ pc'[t] = "cancelled",
         \A t \in Stages \ S : pc'[t] = pc[t]
  PROVE  Promise!Abandon
<1>1. S \in SUBSET (Stages \ Promise!Completed)
  BY AbstractSets DEF IInv, DoneInv
<1>2. \A t \in Stages : AbstractState(t)' = IF t \in S THEN "abandoned" ELSE AbstractState(t)
  BY DEF AbstractState
<1>3. absSt' = [t \in Stages |-> IF t \in S THEN "abandoned" ELSE absSt[t]]
  BY <1>2 DEF absSt
<1>4. QED
  BY <1>1, <1>3 DEF Promise!Abandon, absSt

LEMMA PromiseStep == IInv /\ [Next]_vars => [Promise!Next]_(Promise!vars)
<1> SUFFICES ASSUME IInv, [Next]_vars PROVE [Promise!Next]_(Promise!vars)
  OBVIOUS
<1> USE DEF IInv
<1>1. CASE RunStep \/ UNCHANGED vars
  <2>1. pc' = pc /\ dag' = dag /\ results' = results
    BY <1>1 DEF RunStep, ReturnEmpty, RejectUnknownDep, Gather, Return,
                RaiseCancelled, taskVars, vars
  <2>2. \A s \in Stages : AbstractState(s)' = AbstractState(s)
    BY <2>1 DEF AbstractState
  <2>3. QED
    BY <2>1, <2>2, AbstractStutter
<1>2. CASE Interrupt
  <2> DEFINE S == {t \in Stages : t \in DOMAIN dag /\ pc[t] \in {"pending", "queued"}}
  <2>1. /\ dag' = dag /\ results' = results
        /\ \A t \in S : pc[t] # "done" /\ pc'[t] = "cancelled"
        /\ \A t \in Stages \ S : pc'[t] = pc[t]
    BY <1>2 DEF Interrupt
  <2>2. Promise!Abandon
    BY <2>1, PromiseAbandon
  <2>3. QED
    BY <2>2 DEF Promise!Next
<1>3. ASSUME NEW s \in Stages, AcquireSlot(s) PROVE Promise!Next
  BY <1>3, PromiseAcquire DEF Promise!Next
<1>4. ASSUME NEW s \in Stages,
             \/ WaitForSlot(s) \/ BackoffElapsed(s)
             \/ \E o \in Returnable : ScheduleRetry(s, o)
      PROVE  UNCHANGED Promise!vars
  <2>1. /\ dag' = dag /\ results' = results
        /\ \/ pc[s] = "pending" /\ pc' = [pc EXCEPT ![s] = "queued"]
           \/ pc[s] = "running" /\ pc' = [pc EXCEPT ![s] = "backoff"]
           \/ pc[s] = "backoff" /\ pc' = [pc EXCEPT ![s] = "running"]
    BY <1>4 DEF WaitForSlot, Eligible, BackoffElapsed, ScheduleRetry
  <2>2. \A t \in Stages : AbstractState(t)' = AbstractState(t)
    BY <2>1 DEF AbstractState, TypeOK
  <2>3. QED
    BY <2>1, <2>2, AbstractStutter
<1>5. ASSUME NEW s \in Stages, NEW o \in Returnable, Publish(s, o)
      PROVE  Promise!Next
  BY <1>5, PromisePublish DEF Promise!Next
<1>6. ASSUME NEW s \in Stages, Unwind(s) PROVE Promise!Next
  <2>1. /\ dag' = dag /\ results' = results /\ waiters = <<>>
        /\ pc[s] \in {"running", "backoff"} /\ Release(s, "cancelled")
    BY <1>6 DEF Unwind, Holders, QueueInv
  <2>2. pc' = [pc EXCEPT ![s] = "cancelled"]
    BY <2>1 DEF Release
  <2>3. Promise!Abandon
    <3> DEFINE S == {s}
    <3>1. /\ S \in SUBSET Stages
          /\ \A t \in S : pc[t] # "done" /\ pc'[t] = "cancelled"
          /\ \A t \in Stages \ S : pc'[t] = pc[t]
      BY <2>1, <2>2 DEF TypeOK
    <3> HIDE DEF S
    <3>2. QED
      BY <2>1, <3>1, PromiseAbandon
  <2>4. QED
    BY <2>3 DEF Promise!Next
<1>7. QED
  BY <1>1, <1>2, <1>3, <1>4, <1>5, <1>6 DEF Next, StageStep

(* The scheduler implements DagRun.                                        *)
THEOREM SchedulerImplementsDagRun == Spec => PromiseKept
<1>1. QED
  BY PromiseInit, PromiseStep, Invariance, PTL
  DEF Spec, PromiseKept, Promise!Spec
=============================================================================

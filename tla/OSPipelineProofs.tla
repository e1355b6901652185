-------------------------- MODULE OSPipelineProofs --------------------------
(***************************************************************************)
(* Theorems on OSPipeline and the registry it dispatches with, for every   *)
(* set of plugins and hook points, any number of operations, any handlers. *)
(***************************************************************************)
EXTENDS OSPipeline, SequenceTheorems, TLAPS

(* Every handler registered in a plugin's name is younger than the last    *)
(* unregistration of the plugin, and every handler still to be called was  *)
(* when the dispatch began.                                                *)
HooksOwned ==
  \A r \in hooks : r.plugin \in Plugin => r.batch >= left[r.plugin]

PendingOwned ==
  \A r \in event.pending :
    r.plugin \in Plugin => r.batch >= left[r.plugin] \/ r.plugin \in event.gone

LeftBefore == \A p \in Plugin : left[p] <= ops

(* Every handler a dispatch began with was called, is still to be called,  *)
(* or belongs to a plugin that has been disabled meanwhile.                *)
Accounted ==
  \A r \in event.snapshot :
    r \in event.called \/ r \in event.pending \/ r.plugin \in event.quiet

QuietKept == event.active => Disabled(status) \subseteq event.quiet

IdleIsEmpty == ~event.active => event.pending = {}

DispatchInv == RegistryTypeOK /\ HooksOwned /\ PendingOwned /\ LeftBefore
               /\ Accounted /\ QuietKept /\ IdleIsEmpty

(* One step of the program is one of these, seen from the registry.        *)
RegistryStep ==
  \/ UNCHANGED registryVars
  \/ \E point \in HookPoint \cup DOMAIN Given : event' = Fired(point) /\ UNCHANGED <<status, hooks, left, ops>>
  \/ event' = NoEvent /\ UNCHANGED <<status, hooks, left, ops>>
  \/ SkipDisabled
  \/ CallHandler
  \/ \E cancels \in BOOLEAN : HandlerReturns(cancels) \/ HandlerRaises(cancels)
  \/ RegistryOp

LEMMA NextIsRegistryStep == [Next]_vars => [RegistryStep]_registryVars
  BY DEF Next, Start, Progress, Fire, HookReturns, Handling, RunStages, Collect,
         Lookup, Aggregate, Correlate, Summarise, Assess, Report, PassRaises, Operate,
         HandlerAdds, HandlerTakes, HandlerAlters, Changes, RegistryStep, vars,
         registryVars

LEMMA InitialRegistry == Init => DispatchInv
  BY RegistryAssumption
  DEF Init, RegistryInit, DispatchInv, RegistryTypeOK, HooksOwned, PendingOwned,
      LeftBefore, Accounted, QuietKept, IdleIsEmpty, NoEvent

LEMMA TypedOp ==
  ASSUME RegistryTypeOK, RegistryOp
  PROVE  RegistryTypeOK'
<1> USE RegistryAssumption DEF RegistryTypeOK
<1>1. ops' \in 0 .. MaxOps
  BY DEF RegistryOp
<1>2. status' \in [Plugin -> {"absent", "enabled", "disabled"}]
  BY DEF RegistryOp, Register, Unregister, Enable, Disable, RemoveHooks, AddHook
<1>3. hooks' \in SUBSET Registration
  <2>1. CASE \E p \in Plugin : \E n \in 0 .. Len(HooksOf[p]) : Register(p, n)
    <3>p. PICK p \in Plugin : \E n \in 0 .. Len(HooksOf[p]) : Register(p, n)
      BY <2>1
    <3>1. PICK n \in 0 .. Len(HooksOf[p]) : Register(p, n)
      BY <3>p
    <3>2. \A i \in 1 .. n : HooksOf[p][i] \in [point : HookPoint, priority : Nat]
      <4>1. HooksOf[p] \in Seq([point : HookPoint, priority : Nat])
        OBVIOUS
      <4>2. Len(HooksOf[p]) \in Nat
        BY <4>1, LenProperties
      <4>3. \A i \in 1 .. n : i \in 1 .. Len(HooksOf[p])
        BY <4>2
      <4> QED
        BY <4>1, <4>3, ElementOfSeq
    <3>3. NewHooks(p, n) \subseteq Registration
      BY <3>2 DEF NewHooks, Registration
    <3> QED
      BY <3>1, <3>3 DEF Register
  <2>2. CASE \E p \in Plugin : Unregister(p) \/ Enable(p) \/ Disable(p)
    BY <2>2 DEF Unregister, Enable, Disable
  <2>3. CASE \E point \in HookPoint : RemoveHooks(point)
    BY <2>3 DEF RemoveHooks
  <2>4. CASE \E point \in HookPoint, id \in Plugin \cup {Anonymous} : AddHook(point, 0, id)
    BY <2>4 DEF AddHook, Registration
  <2> QED
    BY <2>1, <2>2, <2>3, <2>4 DEF RegistryOp
<1>5. left' \in [Plugin -> Nat]
  <2>1. CASE \E p \in Plugin : Unregister(p)
    BY <2>1 DEF Unregister
  <2>2. CASE left' = left
    BY <2>2
  <2> QED
    BY <2>1, <2>2 DEF RegistryOp, Register, Enable, Disable, RemoveHooks, AddHook
<1>4. event' \in [active : BOOLEAN, pending : SUBSET Registration,
                  running : Registration \cup {Nobody}, cancelled : BOOLEAN,
                  snapshot : SUBSET Registration, called : SUBSET Registration,
                  quiet : SUBSET Plugin, gone : SUBSET Plugin]
  BY DEF RegistryOp, Disabled
<1> QED
  BY <1>1, <1>2, <1>3, <1>4, <1>5

LEMMA OpKeepsDispatchInv ==
  ASSUME DispatchInv, RegistryOp
  PROVE  DispatchInv'
<1>1. RegistryTypeOK'
  BY TypedOp DEF DispatchInv
<1> USE RegistryAssumption DEF DispatchInv, RegistryTypeOK
<1>2. HooksOwned' /\ LeftBefore'
  <2>0. ops' = ops + 1
    BY DEF RegistryOp
  <2>1. CASE \E p \in Plugin : \E n \in 0 .. Len(HooksOf[p]) : Register(p, n)
    BY <2>0, <2>1 DEF Register, NewHooks, HooksOwned, LeftBefore
  <2>2. CASE \E p \in Plugin : Unregister(p)
    BY <2>0, <2>2 DEF Unregister, HooksOwned, LeftBefore
  <2>3. CASE \E p \in Plugin : Enable(p) \/ Disable(p)
    BY <2>0, <2>3 DEF Enable, Disable, HooksOwned, LeftBefore
  <2>4. CASE \E point \in HookPoint : RemoveHooks(point)
    BY <2>0, <2>4 DEF RemoveHooks, HooksOwned, LeftBefore
  <2>5. CASE \E point \in HookPoint, id \in Plugin \cup {Anonymous} : AddHook(point, 0, id)
    BY <2>0, <2>5 DEF AddHook, HooksOwned, LeftBefore
  <2> QED
    BY <2>1, <2>2, <2>3, <2>4, <2>5 DEF RegistryOp
<1>3. /\ event'.pending = event.pending /\ event'.snapshot = event.snapshot
      /\ event'.called = event.called /\ event'.active = event.active
      /\ event.quiet \subseteq event'.quiet /\ event.gone \subseteq event'.gone
  BY DEF RegistryOp
<1>4. event.active =>
        /\ Disabled(status') \subseteq event'.quiet
        /\ \A p \in Plugin : left'[p] # left[p] => p \in event'.gone
  BY DEF RegistryOp, Register, Unregister, Enable, Disable, RemoveHooks, AddHook
<1>5. PendingOwned'
  BY <1>3, <1>4 DEF PendingOwned, IdleIsEmpty
<1>6. Accounted' /\ QuietKept' /\ IdleIsEmpty'
  BY <1>3, <1>4 DEF Accounted, QuietKept, IdleIsEmpty, Disabled
<1> QED
  BY <1>1, <1>2, <1>5, <1>6

LEMMA StepKeepsDispatchInv ==
  ASSUME DispatchInv, [RegistryStep]_registryVars
  PROVE  DispatchInv'
<1> USE DEF DispatchInv
<1>1. CASE UNCHANGED registryVars
  BY <1>1 DEF registryVars, RegistryTypeOK, HooksOwned, PendingOwned, LeftBefore, Accounted,
              QuietKept, IdleIsEmpty
<1>2. CASE (\E point \in HookPoint \cup DOMAIN Given : event' = Fired(point))
           /\ UNCHANGED <<status, hooks, left, ops>>
  <2>1. PICK point \in HookPoint \cup DOMAIN Given : event' = Fired(point)
    BY <1>2
  <2>2. RegistryTypeOK'
    BY <1>2, <2>1 DEF RegistryTypeOK, Fired, NoEvent, Disabled
  <2>3. HooksOwned' /\ PendingOwned' /\ LeftBefore'
    BY <1>2, <2>1 DEF HooksOwned, PendingOwned, LeftBefore, Fired, NoEvent
  <2>4. Accounted' /\ QuietKept' /\ IdleIsEmpty'
    BY <1>2, <2>1 DEF Accounted, QuietKept, IdleIsEmpty, Fired, NoEvent
  <2> QED
    BY <2>2, <2>3, <2>4
<1>3. CASE event' = NoEvent /\ UNCHANGED <<status, hooks, left, ops>>
  BY <1>3 DEF RegistryTypeOK, HooksOwned, PendingOwned, LeftBefore, Accounted, QuietKept,
              IdleIsEmpty, NoEvent
<1>4. CASE SkipDisabled
  <2>1. PICK r \in event.pending :
          /\ IsOff(r)
          /\ event' = [event EXCEPT !.pending = @ \ {r}]
    BY <1>4 DEF SkipDisabled
  <2>2. r.plugin \in event.quiet
    BY <1>4, <2>1 DEF SkipDisabled, Looping, IsOff, QuietKept, Disabled
  <2>3. /\ event'.pending = event.pending \ {r} /\ event'.active = event.active
        /\ event'.snapshot = event.snapshot /\ event'.called = event.called
        /\ event'.quiet = event.quiet /\ event'.gone = event.gone
        /\ UNCHANGED <<status, hooks, left, ops>>
    BY <1>4, <2>1 DEF SkipDisabled, RegistryTypeOK
  <2>4. RegistryTypeOK'
    BY <2>1, <2>3 DEF RegistryTypeOK
  <2>5. HooksOwned' /\ PendingOwned' /\ LeftBefore' /\ QuietKept' /\ IdleIsEmpty'
    BY <2>3 DEF HooksOwned, PendingOwned, LeftBefore, QuietKept, IdleIsEmpty, Disabled
  <2>6. Accounted'
    BY <2>2, <2>3 DEF Accounted
  <2> QED
    BY <2>4, <2>5, <2>6
<1>5. CASE CallHandler
  <2>1. PICK r \in event.pending :
          event' = [event EXCEPT !.pending = @ \ {r}, !.running = r,
                                 !.called = @ \cup {r}]
    BY <1>5 DEF CallHandler
  <2>2. /\ event'.pending = event.pending \ {r} /\ event'.active = event.active
        /\ event'.snapshot = event.snapshot /\ event'.called = event.called \cup {r}
        /\ event'.quiet = event.quiet /\ event'.gone = event.gone
        /\ UNCHANGED <<status, hooks, left, ops>>
    BY <1>5, <2>1 DEF CallHandler, RegistryTypeOK
  <2>3. RegistryTypeOK'
    BY <2>1, <2>2 DEF RegistryTypeOK
  <2>4. HooksOwned' /\ PendingOwned' /\ LeftBefore' /\ QuietKept' /\ IdleIsEmpty'
    BY <2>2 DEF HooksOwned, PendingOwned, LeftBefore, QuietKept, IdleIsEmpty, Disabled
  <2>5. Accounted'
    BY <2>2 DEF Accounted
  <2> QED
    BY <2>3, <2>4, <2>5
<1>6. CASE \E cancels \in BOOLEAN : HandlerReturns(cancels) \/ HandlerRaises(cancels)
  <2>1. /\ event'.pending = event.pending /\ event'.active = event.active
        /\ event'.snapshot = event.snapshot /\ event'.called = event.called
        /\ event'.quiet = event.quiet /\ event'.gone = event.gone
        /\ UNCHANGED <<status, hooks, left, ops>>
    BY <1>6 DEF HandlerReturns, HandlerRaises, RegistryTypeOK
  <2>2. RegistryTypeOK'
    BY <1>6, <2>1 DEF HandlerReturns, HandlerRaises, RegistryTypeOK
  <2>3. HooksOwned' /\ PendingOwned' /\ LeftBefore' /\ QuietKept' /\ IdleIsEmpty'
    BY <2>1 DEF HooksOwned, PendingOwned, LeftBefore, QuietKept, IdleIsEmpty, Disabled
  <2>4. Accounted'
    BY <2>1 DEF Accounted
  <2> QED
    BY <2>2, <2>3, <2>4
<1>8. CASE RegistryOp
  BY <1>8, OpKeepsDispatchInv
<1> QED
  BY <1>1, <1>2, <1>3, <1>4, <1>5, <1>6, <1>8 DEF RegistryStep

LEMMA DispatchInvariant == Spec => []DispatchInv
<1>1. Init => DispatchInv
  BY InitialRegistry
<1>2. DispatchInv /\ [Next]_vars => DispatchInv'
  BY NextIsRegistryStep, StepKeepsDispatchInv
<1> QED
  BY <1>1, <1>2, PTL DEF Spec

(* run_hook: whatever handlers do to the registry, raise, or have done     *)
(* before, a dispatch that is not cancelled calls every handler it began   *)
(* with, except those of plugins disabled in its course.                   *)
THEOREM HandlersAreServed == Spec => []EveryHandlerServed
<1>1. DispatchInv => EveryHandlerServed
  BY DEF DispatchInv, Accounted, EveryHandlerServed, Dispatched
<1> QED
  BY <1>1, DispatchInvariant, PTL

(* unregister, add_hook, disable: no handler registered in a plugin's name *)
(* before it was last unregistered is called, except in the dispatch that  *)
(* happened in, and none of a disabled plugin.                             *)
THEOREM NoHandlerIsStray == Spec => NoStrayHandlers
<1> DEFINE Called ==
      \A r \in event'.called \ event.called : r.plugin \in Plugin =>
        /\ status[r.plugin] # "disabled"
        /\ r.batch >= left[r.plugin] \/ r.plugin \in event.gone
<1>1. DispatchInv /\ [Next]_vars => [Called]_registryVars
  <2> SUFFICES ASSUME DispatchInv, RegistryStep PROVE Called
    BY NextIsRegistryStep
  <2> USE DEF DispatchInv, RegistryTypeOK
  <2>1. CASE CallHandler
    <3>1. PICK r \in event.pending :
            ~IsOff(r) /\ event' = [event EXCEPT !.pending = @ \ {r}, !.running = r,
                                                !.called = @ \cup {r}]
      BY <2>1 DEF CallHandler
    <3>2. event'.called = event.called \cup {r}
      BY <3>1
    <3> QED
      BY <3>1, <3>2 DEF PendingOwned, IsOff
  <2>2. CASE ~CallHandler
    <3>1. event'.called \subseteq event.called
      <4>1. CASE SkipDisabled
                 \/ \E cancels \in BOOLEAN : HandlerReturns(cancels) \/ HandlerRaises(cancels)
        BY <4>1 DEF SkipDisabled, HandlerReturns, HandlerRaises
      <4>2. CASE RegistryOp
        BY <4>2 DEF RegistryOp
      <4>3. CASE \E point \in HookPoint \cup DOMAIN Given : event' = Fired(point)
        BY <4>3 DEF Fired, NoEvent
      <4>4. CASE event' = NoEvent
        BY <4>4 DEF NoEvent
      <4> QED
        BY <2>2, <4>1, <4>2, <4>3, <4>4 DEF RegistryStep, registryVars
    <3> QED
      BY <3>1
  <2> QED
    BY <2>1, <2>2
<1> QED
  BY <1>1, DispatchInvariant, PTL DEF Spec, NoStrayHandlers

-----------------------------------------------------------------------------
(* How far run() has come.                                                 *)
Returning   == {"after_pipeline", "returned"}
Reporting   == {"after_report"} \cup Returning
Assessing   == {"after_finding", "before_report", "report"} \cup Reporting
Summarising == {"before_exploitability", "assess"} \cup Assessing
Correlating == {"after_correlation", "summarise"} \cup Summarising
Aggregating == {"before_correlation", "correlate"} \cup Correlating

(* The lists hold what was made and put in and not taken out: enriched,    *)
(* once there is one.                                                      *)
ListsHold ==
  \A l \in ListName : l # "enriched" \/ pc \in Aggregating => Holds(lists[l], l)

SeenHolds == \A p \in DOMAIN seen : \A l \in Reads[p] : Holds(seen[p][l], l)

(* The passes that have run.                                               *)
DoneSoFar ==
  /\ DOMAIN seen \subseteq {"aggregate", "correlate", "summarise", "assess", "report"}
  /\ pc \notin Aggregating \cup {"raised"} => DOMAIN seen = {}
  /\ pc \in {"before_correlation", "correlate"} => DOMAIN seen \subseteq {"aggregate"}
  /\ pc \in Aggregating => "aggregate" \in DOMAIN seen
  /\ pc \in Correlating => "correlate" \in DOMAIN seen
  /\ pc \in Summarising => "summarise" \in DOMAIN seen
  /\ pc \in Assessing => "assess" \in DOMAIN seen
  /\ pc = "after_report" => "report" \in DOMAIN seen
  /\ pc \in Returning => "report" \in DOMAIN seen \/ made["findings"] \subseteq taken["findings"]

ScanTypeOK ==
  /\ pc \in {"idle", "returned", "raised"} \cup DOMAIN After
  /\ lists \in Lists /\ made \in Lists /\ put \in Lists /\ taken \in Lists
  /\ \A p \in DOMAIN seen : seen[p] \in [Reads[p] -> SUBSET Key]
  /\ edits \in 0 .. MaxChanges
  /\ event.active => pc \in DOMAIN Given
  /\ event.running # Nobody => event.active

ScanInv == RegistryTypeOK /\ ScanTypeOK /\ ListsHold /\ SeenHolds /\ DoneSoFar

LEMMA InitialScan == Init => ScanInv
<1> SUFFICES ASSUME Init PROVE ScanInv
  OBVIOUS
<1>1. RegistryTypeOK
  BY InitialRegistry DEF DispatchInv
<1>2. DOMAIN seen = {}
  BY DEF Init
<1>3. ScanTypeOK
  BY <1>2, OSPipelineAssumption
  DEF Init, ScanTypeOK, RegistryInit, NoEvent, NoLists, Lists
<1>4. ListsHold
  BY DEF Init, ListsHold, Holds, NoLists, ListName, Origin, Whole
<1>5. SeenHolds /\ DoneSoFar
  BY <1>2 DEF Init, SeenHolds, DoneSoFar, Aggregating, Correlating, Summarising,
              Assessing, Reporting, Returning
<1> QED
  BY <1>1, <1>3, <1>4, <1>5 DEF ScanInv

(* A step that leaves lists and histories alone.                           *)
Untouched == UNCHANGED <<lists, seen, made, put, taken, edits>>

LEMMA UntouchedHolds ==
  ASSUME ScanInv, Untouched, pc' \in Aggregating => pc \in Aggregating
  PROVE  ListsHold' /\ SeenHolds'
  BY DEF ScanInv, Untouched, ListsHold, SeenHolds, Holds, Whole

LEMMA ChangesKeepScanInv ==
  ASSUME ScanInv, NEW L \in SUBSET ListName, NEW out \in SUBSET Key, NEW in \in SUBSET Key,
         Changes(L, out, in)
  PROVE  ScanInv'
<1> USE DEF ScanInv
<1>0. edits' \in 0 .. MaxChanges
  <2>1. ops \in Nat
    BY RegistryAssumption DEF RegistryTypeOK
  <2>2. edits \in Nat /\ edits' = edits + 1 /\ ops + edits < MaxChanges
    BY OSPipelineAssumption DEF Changes, ScanTypeOK
  <2> QED
    BY <2>1, <2>2, OSPipelineAssumption
<1>1. /\ UNCHANGED <<pc, seen, made, event>> /\ edits' \in 0 .. MaxChanges
      /\ lists' = [l \in ListName |-> IF l \in L THEN (lists[l] \ out) \cup in ELSE lists[l]]
      /\ taken' = [l \in ListName |-> IF l \in L THEN taken[l] \cup out ELSE taken[l]]
      /\ put'   = [l \in ListName |-> IF l \in L THEN put[l] \cup in ELSE put[l]]
  BY <1>0 DEF Changes, registryVars
<1>2. RegistryTypeOK'
  BY DEF Changes, registryVars, RegistryTypeOK
<1>3. ScanTypeOK'
  BY <1>1 DEF ScanTypeOK, Lists
<1>4. ASSUME NEW l \in ListName
      PROVE  /\ taken[l] \subseteq taken'[l] /\ put[l] \subseteq put'[l]
             /\ lists[l] \ taken'[l] \subseteq lists'[l]
             /\ lists'[l] \subseteq lists[l] \cup put'[l]
  BY <1>1
<1>5. \A l \in ListName : Origin(l) \in ListName
  BY DEF Origin, ListName
<1>6. \A l \in ListName : /\ Whole(taken, l) \subseteq Whole(taken', l)
                          /\ Whole(put, l) \subseteq Whole(put', l)
  BY <1>4, <1>5 DEF Whole
<1>7. ListsHold'
  <2> SUFFICES ASSUME NEW l \in ListName, l # "enriched" \/ pc \in Aggregating
               PROVE  Holds(lists[l], l)'
    BY <1>1 DEF ListsHold
  <2>1. Holds(lists[l], l)
    BY DEF ListsHold
  <2>2. taken'[l] \subseteq Whole(taken', l) /\ put'[l] \subseteq Whole(put', l)
    BY DEF Whole
  <2> QED
    BY <1>1, <1>4, <1>6, <2>1, <2>2 DEF Holds
<1>8. SeenHolds'
  <2> SUFFICES ASSUME NEW p \in DOMAIN seen, NEW l \in Reads[p]
               PROVE  Holds(seen[p][l], l)'
    BY <1>1 DEF SeenHolds
  <2>1. l \in ListName
    BY DEF DoneSoFar, Reads, ListName
  <2>2. Holds(seen[p][l], l)
    BY DEF SeenHolds
  <2> QED
    BY <1>1, <1>6, <2>1, <2>2 DEF Holds
<1>9. DoneSoFar'
  BY <1>1, <1>4 DEF DoneSoFar, ListName
<1> QED
  BY <1>2, <1>3, <1>7, <1>8, <1>9

LEMMA HandlersKeepScanInv ==
  ASSUME ScanInv, NEW k \in Key,
         \/ HandlerAdds(k) \/ HandlerTakes(k)
         \/ \E j \in Key \ {k} : HandlerAlters(k, j)
  PROVE  ScanInv'
<1>1. \A l \in Given[pc] : {l} \in SUBSET ListName
  <2>1. pc \in DOMAIN Given
    BY DEF HandlerAdds, HandlerTakes, HandlerAlters, ScanInv, ScanTypeOK
  <2> QED
    BY <2>1 DEF Given, ListName
<1>2. {} \in SUBSET Key /\ {k} \in SUBSET Key
  OBVIOUS
<1>3. CASE HandlerAdds(k)
  BY <1>1, <1>2, <1>3, ChangesKeepScanInv DEF HandlerAdds
<1>4. CASE HandlerTakes(k)
  BY <1>1, <1>2, <1>4, ChangesKeepScanInv DEF HandlerTakes
<1>5. CASE \E j \in Key \ {k} : HandlerAlters(k, j)
  <2> DEFINE L == {l \in {"findings", "enriched"} : k \in lists[l]}
  <2>1. L \in SUBSET ListName
    BY DEF ListName
  <2>2. PICK j \in Key \ {k} : Changes(L, {k}, {j})
    BY <1>5 DEF HandlerAlters
  <2>3. {j} \in SUBSET Key
    OBVIOUS
  <2> HIDE DEF L
  <2> QED
    BY <1>2, <2>1, <2>2, <2>3, ChangesKeepScanInv
<1> QED
  BY <1>3, <1>4, <1>5

(* A pass that was given the lists was given what they should hold.        *)
LEMMA PassSees ==
  ASSUME ScanInv, Sees, UNCHANGED <<put, taken>>,
         pc \in {"aggregate", "correlate", "summarise", "assess", "report"},
         \A p \in DOMAIN seen \cup {pc} : \A l \in Reads[p] :
           made'[Origin(l)] = made[Origin(l)]
  PROVE  /\ SeenHolds'
         /\ \A p \in DOMAIN seen' : seen'[p] \in [Reads[p] -> SUBSET Key]
         /\ DOMAIN seen' = DOMAIN seen \cup {pc}
<1> USE DEF ScanInv
<1>1. /\ DOMAIN seen' = DOMAIN seen \cup {pc}
      /\ seen'[pc] = [l \in Reads[pc] |-> lists[l]]
      /\ \A p \in DOMAIN seen \ {pc} : seen'[p] = seen[p]
  BY DEF Sees
<1>2. Reads[pc] \subseteq ListName /\ ("enriched" \in Reads[pc] => pc \in Aggregating)
  BY DEF Reads, ListName, Aggregating, Correlating, Summarising, Assessing
<1>3. \A p \in DOMAIN seen' : seen'[p] \in [Reads[p] -> SUBSET Key]
  <2>1. seen'[pc] \in [Reads[pc] -> SUBSET Key]
    BY <1>1, <1>2 DEF ScanTypeOK, Lists
  <2>2. \A p \in DOMAIN seen \ {pc} : seen'[p] \in [Reads[p] -> SUBSET Key]
    BY <1>1 DEF ScanTypeOK
  <2> QED
    BY <1>1, <2>1, <2>2
<1>4. SeenHolds'
  <2> SUFFICES ASSUME NEW p \in DOMAIN seen', NEW l \in Reads[p]
               PROVE  Holds(seen[p][l], l)'
    BY DEF SeenHolds
  <2>1. made'[Origin(l)] = made[Origin(l)]
    BY <1>1
  <2>2. CASE p = pc
    <3>1. Holds(lists[l], l)
      BY <1>2, <2>2 DEF ListsHold
    <3>2. seen'[p][l] = lists[l]
      BY <1>1, <2>2
    <3> QED
      BY <2>1, <3>1, <3>2 DEF Holds, Whole
  <2>3. CASE p # pc
    <3>1. p \in DOMAIN seen /\ seen'[p] = seen[p]
      BY <1>1, <2>3
    <3>2. Holds(seen[p][l], l)
      BY <3>1 DEF SeenHolds
    <3> QED
      BY <2>1, <3>1, <3>2 DEF Holds, Whole
  <2> QED
    BY <2>2, <2>3
<1> QED
  BY <1>1, <1>3, <1>4

(* The steps of run() that only read the lists.                            *)
LEMMA ReadingKeepsScanInv ==
  ASSUME ScanInv, pc \in {"summarise", "assess", "report"}, pc' = After[pc], Sees,
         UNCHANGED <<registryVars, lists, made, put, taken, edits>>
  PROVE  ScanTypeOK' /\ ListsHold' /\ SeenHolds' /\ DoneSoFar'
<1> USE DEF ScanInv
<1>1. /\ SeenHolds'
      /\ \A p \in DOMAIN seen' : seen'[p] \in [Reads[p] -> SUBSET Key]
      /\ DOMAIN seen' = DOMAIN seen \cup {pc}
  BY PassSees
<1>2. ScanTypeOK'
  BY <1>1 DEF registryVars, ScanTypeOK, After, Given
<1>3. pc \in Aggregating
  BY DEF Aggregating, Correlating, Summarising, Assessing
<1>4. ListsHold'
  BY <1>3 DEF ListsHold, Holds, Whole
<1>5. DoneSoFar'
  BY <1>1 DEF DoneSoFar, After, Aggregating, Correlating, Summarising, Assessing,
              Reporting, Returning
<1> QED
  BY <1>1, <1>2, <1>4, <1>5

(* The steps that leave lists and histories alone.                         *)
LEMMA MovingKeepsScanInv ==
  ASSUME ScanInv, Untouched,
         event'.active => pc' \in DOMAIN Given,
         event'.running # Nobody => event'.active,
         \/ pc' = pc
         \/ pc = "idle" /\ pc' = "before_pipeline"
         \/ pc' = "raised"
         \/ pc \in DOMAIN Given \cup {"stages"} /\ pc' = After[pc]
         \/ pc = "after_finding" /\ pc' = "after_pipeline" /\ lists["findings"] = {}
  PROVE  ScanTypeOK' /\ ListsHold' /\ SeenHolds' /\ DoneSoFar'
<1> USE DEF ScanInv
<1>1. pc' \in Aggregating => pc \in Aggregating
  BY DEF After, Given, Aggregating, Correlating, Summarising, Assessing, Reporting, Returning
<1>2. ListsHold' /\ SeenHolds'
  BY <1>1, UntouchedHolds
<1>3. ScanTypeOK'
  BY DEF Untouched, ScanTypeOK, After, Given
<1>4. DoneSoFar'
  <2>1. CASE lists["findings"] = {} /\ pc = "after_finding" /\ pc' = "after_pipeline"
    <3>1. made["findings"] \subseteq taken["findings"]
      BY <2>1 DEF ListsHold, Holds, Whole, Origin, ListName
    <3> QED
      BY <2>1, <3>1
      DEF DoneSoFar, Untouched, Aggregating, Correlating, Summarising, Assessing,
          Reporting, Returning
  <2>2. CASE pc' = pc
    BY <2>2 DEF DoneSoFar, Untouched
  <2>3. CASE pc' = "raised" \/ (pc = "idle" /\ pc' = "before_pipeline")
    BY <2>3
    DEF DoneSoFar, Untouched, Aggregating, Correlating, Summarising, Assessing,
        Reporting, Returning
  <2>4. CASE pc \in DOMAIN Given \cup {"stages"} /\ pc' = After[pc]
    BY <2>4
    DEF DoneSoFar, Untouched, After, Given, Aggregating, Correlating, Summarising,
        Assessing, Reporting, Returning
  <2> QED
    BY <2>1, <2>2, <2>3, <2>4
<1> QED
  BY <1>2, <1>3, <1>4

(* The steps that make findings.                                           *)
LEMMA CollectKeepsScanInv ==
  ASSUME ScanInv, Collect
  PROVE  ScanTypeOK' /\ ListsHold' /\ SeenHolds' /\ DoneSoFar'
<1> USE OSPipelineAssumption DEF ScanInv
<1>1. PICK new \in Produced :
        /\ lists' = [lists EXCEPT !["findings"] = @ \cup new]
        /\ made' = [made EXCEPT !["findings"] = @ \cup new]
  BY DEF Collect
<1>2. pc = "collect" /\ pc' = "before_vulnerability_lookup"
  BY DEF Collect, After
<1>3. ScanTypeOK'
  BY <1>1, <1>2 DEF Collect, registryVars, ScanTypeOK, Lists, After, Given
<1>4. DOMAIN seen = {}
  BY <1>2
  DEF DoneSoFar, Aggregating, Correlating, Summarising, Assessing, Reporting, Returning
<1>5. SeenHolds' /\ DoneSoFar'
  BY <1>2, <1>4
  DEF Collect, SeenHolds, DoneSoFar, Aggregating, Correlating, Summarising, Assessing,
      Reporting, Returning
<1>6. ListsHold'
  <2>1. "enriched" \in {l \in ListName : l = "enriched"} /\ pc' \notin Aggregating
    BY <1>2
    DEF ListName, Aggregating, Correlating, Summarising, Assessing, Reporting, Returning
  <2> SUFFICES ASSUME NEW l \in ListName, l # "enriched"
               PROVE  Holds(lists[l], l)'
    BY <2>1 DEF ListsHold
  <2>2. Holds(lists[l], l)
    BY DEF ListsHold
  <2>3. Origin(l) = l
    BY DEF Origin
  <2> QED
    BY <1>1, <2>2, <2>3 DEF Collect, Holds, Whole, ScanTypeOK, Lists
<1> QED
  BY <1>3, <1>5, <1>6

LEMMA LookupKeepsScanInv ==
  ASSUME ScanInv, Lookup
  PROVE  ScanTypeOK' /\ ListsHold' /\ SeenHolds' /\ DoneSoFar'
<1> USE OSPipelineAssumption DEF ScanInv
<1>1. PICK new \in Matches \cup {{}} :
        /\ lists' = [lists EXCEPT !["findings"] = @ \cup new, !["matches"] = new]
        /\ made' = [made EXCEPT !["findings"] = @ \cup new, !["matches"] = new]
  BY DEF Lookup
<1>2. pc = "lookup" /\ pc' = "after_vulnerability_lookup"
  BY DEF Lookup, After
<1>3. ScanTypeOK'
  BY <1>1, <1>2, ZenonT(60) DEF Lookup, registryVars, ScanTypeOK, Lists, After, Given
<1>4. DOMAIN seen = {}
  BY <1>2
  DEF DoneSoFar, Aggregating, Correlating, Summarising, Assessing, Reporting, Returning
<1>5. SeenHolds' /\ DoneSoFar'
  BY <1>2, <1>4
  DEF Lookup, SeenHolds, DoneSoFar, Aggregating, Correlating, Summarising, Assessing,
      Reporting, Returning
<1>6. ListsHold'
  <2>1. pc' \notin Aggregating
    BY <1>2 DEF Aggregating, Correlating, Summarising, Assessing, Reporting, Returning
  <2> SUFFICES ASSUME NEW l \in ListName, l # "enriched"
               PROVE  Holds(lists[l], l)'
    BY <2>1 DEF ListsHold
  <2>2. Holds(lists[l], l)
    BY DEF ListsHold
  <2>3. Origin(l) = l
    BY DEF Origin
  <2> QED
    BY <1>1, <2>2, <2>3 DEF Lookup, Holds, Whole, ScanTypeOK, Lists
<1> QED
  BY <1>3, <1>5, <1>6

LEMMA AggregateKeepsScanInv ==
  ASSUME ScanInv, Aggregate
  PROVE  ScanTypeOK' /\ ListsHold' /\ SeenHolds' /\ DoneSoFar'
<1> USE DEF ScanInv
<1>1. pc = "aggregate" /\ pc' = "before_correlation"
  BY DEF Aggregate, After
<1>2. /\ SeenHolds'
      /\ \A p \in DOMAIN seen' : seen'[p] \in [Reads[p] -> SUBSET Key]
      /\ DOMAIN seen' = DOMAIN seen \cup {pc}
  BY <1>1, PassSees DEF Aggregate
<1>3. DOMAIN seen = {}
  BY <1>1
  DEF DoneSoFar, Aggregating, Correlating, Summarising, Assessing, Reporting, Returning
<1>4. ScanTypeOK'
  BY <1>1, <1>2
  DEF Aggregate, registryVars, ScanTypeOK, Lists, ListName, After, Given
<1>5. DoneSoFar'
  BY <1>1, <1>2, <1>3
  DEF Aggregate, DoneSoFar, Aggregating, Correlating, Summarising, Assessing,
      Reporting, Returning
<1>6. ListsHold'
  <2> SUFFICES ASSUME NEW l \in ListName PROVE Holds(lists[l], l)'
    BY DEF ListsHold
  <2>1. lists' = [lists EXCEPT !["enriched"] = lists["findings"]]
        /\ UNCHANGED <<made, put, taken>>
    BY DEF Aggregate
  <2>2. CASE l = "enriched"
    <3>1. Holds(lists["findings"], "findings") /\ lists'[l] = lists["findings"]
      BY <2>1, <2>2 DEF ListsHold, ListName, ScanTypeOK, Lists
    <3> QED
      BY <2>1, <2>2, <3>1 DEF Holds, Whole, Origin
  <2>3. CASE l # "enriched"
    <3>1. Holds(lists[l], l) /\ lists'[l] = lists[l]
      BY <2>1, <2>3 DEF ListsHold, ScanTypeOK, Lists
    <3> QED
      BY <2>1, <3>1 DEF Holds, Whole
  <2> QED
    BY <2>2, <2>3
<1> QED
  BY <1>2, <1>4, <1>5, <1>6

LEMMA CorrelateKeepsScanInv ==
  ASSUME ScanInv, Correlate
  PROVE  ScanTypeOK' /\ ListsHold' /\ SeenHolds' /\ DoneSoFar'
<1> USE DEF ScanInv
<1>1. pc = "correlate" /\ pc' = "after_correlation"
  BY DEF Correlate, After
<1>2. PICK chained \in SUBSET lists["enriched"] :
        /\ lists' = [lists EXCEPT !["paths"] = chained]
        /\ made' = [made EXCEPT !["paths"] = chained]
  BY DEF Correlate
<1>3. chained \in SUBSET Key
  BY DEF ScanTypeOK, Lists, ListName
<1>4. DOMAIN seen \subseteq {"aggregate"}
  BY <1>1 DEF DoneSoFar
<1>5. \A p \in DOMAIN seen \cup {pc} : \A l \in Reads[p] : made'[Origin(l)] = made[Origin(l)]
  <2>1. \A p \in DOMAIN seen \cup {pc} : \A l \in Reads[p] : l \in {"findings", "enriched"}
    BY <1>1, <1>4 DEF Reads
  <2>2. \A l \in {"findings", "enriched"} : Origin(l) = "findings"
    BY DEF Origin
  <2>3. made'["findings"] = made["findings"]
    BY <1>2 DEF ScanTypeOK, Lists, ListName
  <2> QED
    BY <2>1, <2>2, <2>3
<1>6. /\ SeenHolds'
      /\ \A p \in DOMAIN seen' : seen'[p] \in [Reads[p] -> SUBSET Key]
      /\ DOMAIN seen' = DOMAIN seen \cup {pc}
  BY <1>1, <1>5, PassSees DEF Correlate
<1>7. ScanTypeOK'
  BY <1>1, <1>2, <1>3, <1>6
  DEF Correlate, registryVars, ScanTypeOK, Lists, ListName, After, Given
<1>8. DoneSoFar'
  BY <1>1, <1>4, <1>6
  DEF Correlate, DoneSoFar, Aggregating, Correlating, Summarising, Assessing,
      Reporting, Returning
<1>9. ListsHold'
  <2> SUFFICES ASSUME NEW l \in ListName PROVE Holds(lists[l], l)'
    BY DEF ListsHold
  <2>1. UNCHANGED <<put, taken>>
    BY DEF Correlate
  <2>2. CASE l = "paths"
    <3>1. lists'[l] = chained /\ made'[l] = chained
      BY <1>2, <2>2 DEF ScanTypeOK, Lists
    <3> QED
      BY <2>2, <3>1 DEF Holds, Whole, Origin
  <2>3. CASE l # "paths"
    <3>1. Holds(lists[l], l)
      BY <1>1 DEF ListsHold, Aggregating
    <3>2. lists'[l] = lists[l] /\ made'[Origin(l)] = made[Origin(l)]
      BY <1>2, <2>3 DEF ScanTypeOK, Lists, Origin, ListName
    <3> QED
      BY <2>1, <3>1, <3>2 DEF Holds, Whole
  <2> QED
    BY <2>2, <2>3
<1> QED
  BY <1>6, <1>7, <1>8, <1>9

LEMMA StepKeepsScanInv ==
  ASSUME ScanInv, [Next]_vars, RegistryTypeOK'
  PROVE  ScanInv'
<1> SUFFICES ScanTypeOK' /\ ListsHold' /\ SeenHolds' /\ DoneSoFar'
  BY DEF ScanInv
<1>t. /\ event.active => pc \in DOMAIN Given
      /\ event.running # Nobody => event.active
  BY DEF ScanInv, ScanTypeOK
<1>1. CASE UNCHANGED vars
  BY <1>t, <1>1, MovingKeepsScanInv DEF vars, registryVars, scanVars, Untouched
<1>2. CASE Start
  BY <1>t, <1>2, MovingKeepsScanInv DEF Start, registryVars, Untouched, Given
<1>3. CASE Fire
  BY <1>3, MovingKeepsScanInv DEF Fire, Fired, NoEvent, scanVars, Untouched
<1>4. CASE HookReturns
  BY <1>4, MovingKeepsScanInv DEF HookReturns, NoEvent, Untouched
<1>5. CASE Operate
  <2>1. event'.active = event.active /\ event'.running = event.running
    BY <1>5 DEF Operate, RegistryOp, ScanInv, RegistryTypeOK
  <2> QED
    BY <1>t, <1>5, <2>1, MovingKeepsScanInv DEF Operate, scanVars, Untouched
<1>6. CASE Handling /\ UNCHANGED scanVars
  <2>1. event'.active = event.active /\ (event'.running # Nobody => event'.active)
    BY <1>t, <1>6
    DEF Handling, SkipDisabled, CallHandler, HandlerReturns, HandlerRaises, Looping,
        ScanInv, RegistryTypeOK
  <2> QED
    BY <1>t, <1>6, <2>1, MovingKeepsScanInv DEF scanVars, Untouched
<1>7. CASE PassRaises
  <2>1. ~event'.active /\ event'.running = Nobody
    BY <1>t, <1>7 DEF PassRaises, registryVars, Reads, Given
  <2> QED
    BY <1>7, <2>1, MovingKeepsScanInv DEF PassRaises, Untouched
<1>8. CASE RunStages
  <2>1. ~event'.active /\ event'.running = Nobody
    BY <1>t, <1>8 DEF RunStages, registryVars, Given
  <2> QED
    BY <1>8, <2>1, MovingKeepsScanInv DEF RunStages, Untouched
<1>9. CASE \E k \in Key : HandlerAdds(k) \/ HandlerTakes(k)
                          \/ \E j \in Key \ {k} : HandlerAlters(k, j)
  BY <1>9, HandlersKeepScanInv DEF ScanInv
<1>10. CASE Summarise \/ Assess \/ Report
  BY <1>10, ReadingKeepsScanInv DEF Summarise, Assess, Report
<1> QED
  BY <1>1, <1>2, <1>3, <1>4, <1>5, <1>6, <1>7, <1>8, <1>9, <1>10, CollectKeepsScanInv,
     LookupKeepsScanInv, AggregateKeepsScanInv, CorrelateKeepsScanInv DEF Next, Progress

LEMMA ScanInvariant == Spec => []ScanInv
<1>1. Init => ScanInv
  BY InitialScan
<1>2. ScanInv /\ [Next]_vars /\ DispatchInv' => ScanInv'
  BY StepKeepsScanInv DEF DispatchInv
<1> QED
  BY <1>1, <1>2, DispatchInvariant, PTL DEF Spec

(* Every state of a scan is well-typed, and a hook is dispatched only at   *)
(* its place in run().                                                     *)
THEOREM OSTypeCorrect == Spec => []OSTypeOK
<1>1. ScanInv => OSTypeOK
  BY DEF ScanInv, ScanTypeOK, DoneSoFar, OSTypeOK, Reads
<1> QED
  BY <1>1, ScanInvariant, PTL

(* OSPipeline.run: whatever handlers do to the lists, every pass of a scan *)
(* that returns was given what was found, matched and chained before it    *)
(* and not taken out by a handler, and nothing else but what handlers put  *)
(* in.                                                                     *)
THEOREM FindingsReachTheReport == Spec => []EveryPassSeesAll
<1>1. ScanInv => EveryPassSeesAll
  BY DEF ScanInv, SeenHolds, DoneSoFar, EveryPassSeesAll, Aggregating, Correlating,
         Summarising, Assessing, Reporting, Returning
<1> QED
  BY <1>1, ScanInvariant, PTL
=============================================================================

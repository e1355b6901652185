----------------------------- MODULE OSPipeline -----------------------------
(***************************************************************************)
(* OSPipeline.run of vina/scanners/os/os_pipeline.py: the stages, then the *)
(* passes over their findings, with a hook before and after most of them.  *)
(* Four lists are handed on: findings, enriched, the matches of the lookup *)
(* and the attack paths. The handlers of a hook get some of them and may   *)
(* change them in place. What a handler assigns anew in event.data is not  *)
(* read by the pipeline.                                                   *)
(*                                                                         *)
(* The stages run on the scheduler (see Scheduler): they are one step,     *)
(* before which the program may operate on the registry. A list is the set *)
(* of the keys in it: for a finding, enriched or not, what the aggregator  *)
(* compares (title, target, source_stage); for a match the key of the      *)
(* finding made of it; for a path that of a finding it starts from. Taking *)
(* one of two equal elements changes nothing here.                         *)
(***************************************************************************)
EXTENDS PluginRegistry

CONSTANTS
  Key,        \* keys of findings
  Produced,   \* the sets of findings the stages may yield
  Matches,    \* the sets of matches the vulnerability lookup may yield
  Malformed,  \* keys that stand for objects a pass cannot read
  MaxChanges  \* bound: operations on the registry and changes of the lists, together

ListName == {"findings", "enriched", "matches", "paths"}

(* What run() does, in order.                                              *)
After ==
  [before_pipeline             |-> "stages",
   stages                      |-> "before_finding",
   before_finding              |-> "collect",
   collect                     |-> "before_vulnerability_lookup",
   before_vulnerability_lookup |-> "lookup",
   lookup                      |-> "after_vulnerability_lookup",
   after_vulnerability_lookup  |-> "aggregate",
   aggregate                   |-> "before_correlation",
   before_correlation          |-> "correlate",
   correlate                   |-> "after_correlation",
   after_correlation           |-> "summarise",
   summarise                   |-> "before_exploitability",
   before_exploitability       |-> "assess",
   assess                      |-> "after_finding",
   after_finding               |-> "before_report",
   before_report               |-> "report",
   report                      |-> "after_report",
   after_report                |-> "after_pipeline",
   after_pipeline              |-> "returned"]

(* The lists in the data of each hook's event.                             *)
Given ==
  [before_pipeline             |-> {},
   before_finding              |-> {"findings"},
   before_vulnerability_lookup |-> {"findings"},
   after_vulnerability_lookup  |-> {"findings", "matches"},
   before_correlation          |-> {"enriched"},
   after_correlation           |-> {"enriched", "paths"},
   before_exploitability       |-> {"enriched", "paths", "matches"},
   after_finding               |-> {"findings", "enriched"},
   before_report               |-> {"enriched", "paths", "matches"},
   after_report                |-> {"enriched"},
   after_pipeline              |-> {"findings"}]

(* The lists each pass reads.                                              *)
Reads ==
  [lookup    |-> {"findings"},
   aggregate |-> {"findings"},
   correlate |-> {"enriched"},
   summarise |-> {"paths"},
   assess    |-> ListName,
   report    |-> {"enriched", "paths", "matches"}]

ASSUME OSPipelineAssumption ==
  /\ HookPoint \subseteq DOMAIN Given
  /\ Produced \subseteq SUBSET Key /\ Matches \subseteq SUBSET Key
  /\ Malformed \subseteq Key
  /\ MaxChanges \in Nat

VARIABLES
  pc,     \* "idle", a step of run(), "returned" or "raised"
  lists,  \* the lists by name
  seen,   \* for each pass that has run (but the lookup), what it was given
  made,   \* history: what the stages and passes put in each list,
  put,    \* what handlers put there
  taken,  \* and what they took out
  edits   \* changes handlers have made

scanVars == <<pc, lists, seen, made, put, taken, edits>>
vars == <<registryVars, scanVars>>

NoLists == [l \in ListName |-> {}]

Init ==
  /\ RegistryInit
  /\ pc = "idle"
  /\ lists = NoLists /\ made = NoLists /\ put = NoLists /\ taken = NoLists
  /\ seen = <<>>
  /\ edits = 0

-----------------------------------------------------------------------------
Start ==
  /\ pc = "idle"
  /\ pc' = "before_pipeline"
  /\ UNCHANGED <<registryVars, lists, seen, made, put, taken, edits>>

(* Hooks: run_hook is entered, works through its handlers, and returns;    *)
(* "if findings" guards the three steps of the report.                     *)
Fire ==
  /\ pc \in DOMAIN Given /\ ~event.active
  /\ event' = Fired(pc)
  /\ UNCHANGED <<status, hooks, left, ops, scanVars>>

HookReturnsActive ==    \* mutant: the event is not left behind
  /\ pc \in DOMAIN Given /\ Dispatched
  /\ pc' = After[pc]
  /\ UNCHANGED <<registryVars, lists, seen, made, put, taken, edits>>

HookReturns ==
  /\ pc \in DOMAIN Given /\ Dispatched
  /\ event' = NoEvent
  /\ pc' = IF pc = "after_finding" /\ lists["findings"] = {}
           THEN "after_pipeline" ELSE After[pc]
  /\ UNCHANGED <<status, hooks, left, ops, lists, seen, made, put, taken, edits>>

Handling == SkipDisabled \/ CallHandler
            \/ \E cancels \in BOOLEAN : HandlerReturns(cancels) \/ HandlerRaises(cancels)

(* A handler changes the elements of the lists in L: k goes out, j comes   *)
(* in, or one of them only.                                                *)
Changes(L, out, in) ==
  /\ ops + edits < MaxChanges /\ edits' = edits + 1
  /\ lists' = [l \in ListName |-> IF l \in L THEN (lists[l] \ out) \cup in ELSE lists[l]]
  /\ taken' = [l \in ListName |-> IF l \in L THEN taken[l] \cup out ELSE taken[l]]
  /\ put'   = [l \in ListName |-> IF l \in L THEN put[l] \cup in ELSE put[l]]
  /\ UNCHANGED <<registryVars, pc, seen, made>>

HandlerAdds(k) ==
  /\ event.running # Nobody
  /\ \E l \in Given[pc] : Changes({l}, {}, {k})

HandlerTakes(k) ==
  /\ event.running # Nobody
  /\ \E l \in Given[pc] : k \in lists[l] /\ Changes({l}, {k}, {})

(* An enriched finding wraps the finding it was made of: who has one in    *)
(* hand and changes its key changes it in both lists.                      *)
HandlerAlters(k, j) ==
  /\ event.running # Nobody
  /\ \E l \in Given[pc] \cap {"findings", "enriched"} : k \in lists[l]
  /\ Changes({l \in {"findings", "enriched"} : k \in lists[l]}, {k}, {j})

(* The registry changes while the program has not called run yet or awaits *)
(* the stages, and while a handler runs.                                   *)
Operate ==
  /\ pc \in {"idle", "stages"} \/ event.running # Nobody
  /\ ops + edits < MaxChanges
  /\ RegistryOp
  /\ UNCHANGED scanVars

-----------------------------------------------------------------------------
(* The passes. One that meets an object it cannot read raises, and so may  *)
(* the report when it cannot be written; run() does not catch that.        *)

Readable == \A l \in Reads[pc] : lists[l] \cap Malformed = {}

PassRaises ==
  /\ pc \in DOMAIN Reads
  /\ ~Readable \/ pc = "report"
  /\ pc' = "raised"
  /\ UNCHANGED <<registryVars, lists, seen, made, put, taken, edits>>

RunStages ==
  /\ pc = "stages" /\ pc' = After[pc]
  /\ UNCHANGED <<registryVars, lists, seen, made, put, taken, edits>>

Collect ==
  /\ pc = "collect" /\ pc' = After[pc]
  /\ \E new \in Produced :
       /\ lists' = [lists EXCEPT !["findings"] = @ \cup new]
       /\ made' = [made EXCEPT !["findings"] = @ \cup new]
  /\ UNCHANGED <<registryVars, seen, put, taken, edits>>

(* Without findings there is no inventory and no lookup.                   *)
LookupAside ==    \* mutant: the matches are kept, not added to the findings
  /\ pc = "lookup" /\ Readable /\ pc' = After[pc]
  /\ \E new \in Matches \cup {{}} :
       /\ lists["findings"] = {} => new = {}
       /\ lists' = [lists EXCEPT !["matches"] = new]
       /\ made' = [made EXCEPT !["findings"] = @ \cup new, !["matches"] = new]
  /\ UNCHANGED <<registryVars, seen, put, taken, edits>>

Lookup ==
  /\ pc = "lookup" /\ Readable /\ pc' = After[pc]
  /\ \E new \in Matches \cup {{}} :
       /\ lists["findings"] = {} => new = {}
       /\ lists' = [lists EXCEPT !["findings"] = @ \cup new, !["matches"] = new]
       /\ made' = [made EXCEPT !["findings"] = @ \cup new, !["matches"] = new]
  /\ UNCHANGED <<registryVars, seen, put, taken, edits>>

(* A pass is given the lists it reads.                                     *)
Sees ==
  seen' = [p \in DOMAIN seen \cup {pc} |->
             IF p = pc THEN [l \in Reads[pc] |-> lists[l]] ELSE seen[p]]

(* The aggregator drops repeated keys, enrichment keeps them.              *)
Aggregate ==
  /\ pc = "aggregate" /\ Readable /\ pc' = After[pc]
  /\ Sees
  /\ lists' = [lists EXCEPT !["enriched"] = lists["findings"]]
  /\ UNCHANGED <<registryVars, made, put, taken, edits>>

(* Which findings are chained to paths depends on what is in them.         *)
Correlate ==
  /\ pc = "correlate" /\ Readable /\ pc' = After[pc]
  /\ Sees
  /\ \E chained \in SUBSET lists["enriched"] :
       /\ lists' = [lists EXCEPT !["paths"] = chained]
       /\ made' = [made EXCEPT !["paths"] = chained]
  /\ UNCHANGED <<registryVars, put, taken, edits>>

(* compute_correlation_stats                                               *)
Summarise ==
  /\ pc = "summarise" /\ Readable /\ pc' = After[pc]
  /\ Sees
  /\ UNCHANGED <<registryVars, lists, made, put, taken, edits>>

(* Whether the assessment looks at a finding depends on others.            *)
Assess ==
  /\ pc = "assess" /\ pc' = After[pc]
  /\ Sees
  /\ UNCHANGED <<registryVars, lists, made, put, taken, edits>>

Report ==
  /\ pc = "report" /\ Readable /\ pc' = After[pc]
  /\ Sees
  /\ UNCHANGED <<registryVars, lists, made, put, taken, edits>>

Progress == Fire \/ HookReturns \/ (Handling /\ UNCHANGED scanVars)
            \/ RunStages \/ Collect \/ Lookup \/ Aggregate \/ Correlate
            \/ Summarise \/ Assess \/ Report \/ PassRaises

Next == Start \/ Progress \/ Operate
        \/ \E k \in Key : HandlerAdds(k) \/ HandlerTakes(k)
                          \/ \E j \in Key \ {k} : HandlerAlters(k, j)

Spec == Init /\ [][Next]_vars

(* Passes and handlers are synchronous code that ends, and the scheduler's *)
(* run ends (Scheduler, AcyclicRunsEnd).                                   *)
FairSpec == Spec /\ WF_vars(Progress)

-----------------------------------------------------------------------------
Lists == [ListName -> SUBSET Key]

OSTypeOK ==
  /\ RegistryTypeOK
  /\ pc \in {"idle", "returned", "raised"} \cup DOMAIN After
  /\ lists \in Lists /\ made \in Lists /\ put \in Lists /\ taken \in Lists
  /\ DOMAIN seen \subseteq DOMAIN Reads
  /\ \A p \in DOMAIN seen : seen[p] \in [Reads[p] -> SUBSET Key]
  /\ edits \in 0 .. MaxChanges
  /\ event.active => pc \in DOMAIN Given

(* The enriched findings come from the findings, and change with both.     *)
Origin(l) == IF l = "enriched" THEN "findings" ELSE l
Whole(history, l) == history[l] \cup history[Origin(l)]

(* A list has all that was made for it and not taken out, and nothing that *)
(* was not made for it or put in.                                          *)
Holds(list, l) == /\ made[Origin(l)] \ Whole(taken, l) \subseteq list
                  /\ list \subseteq made[Origin(l)] \cup Whole(put, l)

(* Whatever the stages found, the lookup matched and correlation chained,  *)
(* and no handler took out, every pass after that was given: aggregation,  *)
(* correlation, statistics, assessment and report; and they were given     *)
(* nothing else but what handlers had put in. A scan returns without a     *)
(* report only if handlers had taken out whatever was found.               *)
EveryPassSeesAll ==
  pc = "returned" =>
    /\ \A p \in DOMAIN seen : \A l \in Reads[p] : Holds(seen[p][l], l)
    /\ {"aggregate", "correlate", "summarise", "assess"} \subseteq DOMAIN seen
    /\ "report" \in DOMAIN seen \/ made["findings"] \subseteq taken["findings"]

(* A scan ends, whatever its handlers do to the registry, to the dispatch  *)
(* they are part of and to the lists.                                      *)
ScanEnds == (pc = "before_pipeline") ~> (pc \in {"returned", "raised"})
=============================================================================

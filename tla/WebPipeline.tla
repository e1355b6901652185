----------------------------- MODULE WebPipeline -----------------------------
(***************************************************************************)
(* WebPipeline.run of vina/pipeline/web_pipeline.py over one target: the   *)
(* ten stage coroutines, the _results dict they share, the checkpoint they *)
(* record to, and the process they run in, which may be killed at any      *)
(* moment and launched again, plainly, with --resume or with --force.      *)
(*                                                                         *)
(* The scheduler is used through its abstraction DagRun: a stage begins    *)
(* when its dependencies are done and a slot is free.  A coroutine awaits  *)
(* only its tool, so what precedes and what follows that await are one     *)
(* step each; a path with no await is a single step.                       *)
(***************************************************************************)
EXTENDS Checkpoint, FiniteSets, Sequences

Stage == {"subfinder", "httpx", "gau", "waybackurls", "naabu", "whatweb",
          "katana", "nmap", "url_aggregator", "nuclei"}

STAGE_DEPS ==
  [s \in Stage |->
     CASE s = "subfinder"                       -> {}
       [] s \in {"httpx", "gau", "waybackurls"} -> {"subfinder"}
       [] s \in {"naabu", "whatweb", "katana"}  -> {"httpx"}
       [] s = "nmap"                            -> {"naabu"}
       [] s = "url_aggregator"                  -> {"katana", "gau", "waybackurls"}
       [] s = "nuclei"                          -> {"url_aggregator"}]

(* Every stage but url_aggregator runs an external tool.                   *)
ToolStage == Stage \ {"url_aggregator"}

(* The stages whose output list _finish stores, and restore_outputs        *)
(* brings back; and, for the stages fed by such a list, which one.         *)
ListStage == {"subfinder", "httpx", "naabu"}
Source ==
  [s \in {"httpx", "gau", "waybackurls", "naabu", "whatweb", "katana", "nmap"} |->
     IF s \in {"naabu", "whatweb", "katana"} THEN "httpx"
     ELSE IF s = "nmap" THEN "naabu" ELSE "subfinder"]

MAX_PARALLEL == 4

(* Plainly, with --resume, or with --force.                                *)
Mode == {"fresh", "resume", "force"}

(* How a tool's run ends: useful records (whatever else happened), none    *)
(* with exit code 0, none with another code (a warning may make that       *)
(* transient), none before the timeout, gone since the preflight check; or *)
(* the module raises, which the text of the exception may make transient.  *)
Exceptions  == {"raises", "raises_transient"}
ToolOutcome == {"records", "empty", "failed", "transient", "timeout", "missing"}
                 \cup Exceptions

CONSTANTS
  Behaviour,     \* stage -> the outcomes its tool may have
  Installations, \* the sets of tools that may be installed
  Launches,      \* bound: for each launch, how the command may be given
  MaxRetries,    \* bound: RetryConfig.max_retries (2 in the code)
  TornWrites     \* may a kill tear the checkpoint file?

ASSUME WebPipelineAssumption ==
  /\ Stages = Stage
  /\ Behaviour \in [ToolStage -> SUBSET ToolOutcome]
  /\ Installations \subseteq SUBSET ToolStage
  /\ Launches \in Seq(SUBSET Mode)
  /\ MaxRetries \in Nat
  /\ TornWrites \in BOOLEAN
  /\ FailingSaves \subseteq Steps

VARIABLES
  phase,      \* "down", "up", or "returned": the process
  launches,   \* how often it was launched
  mode,       \* how it was launched last
  installed,  \* the tools the dependency checker finds
  completed,  \* the local variable _completed
  st,         \* each stage's progress in the scheduler
  attempt,    \* the retry counter of _run_with_retry
  status,     \* status of each stage's published StageResult
  shared,     \* _results: subdomains, alive_hosts, open_ports
  object,     \* _results: the modules' result objects
  raised,     \* history: stages whose published result stands for an exception
  acked       \* history: stages whose latest execution ended well, as long
              \* as the checkpoint file was not torn or cleared since and
              \* the process did not end before a write that recorded them

runVars == <<phase, launches, mode, installed, completed, st, attempt, status,
             shared, object>>
historyVars == <<raised, acked>>
vars == <<runVars, cpVars, historyVars>>

Init ==
  /\ phase = "down" /\ launches = 0 /\ mode = "fresh"
  /\ installed = {} /\ completed = {}
  /\ st = [s \in Stage |-> "idle"]
  /\ attempt = [s \in Stage |-> 0]
  /\ status = [s \in Stage |-> "none"]
  /\ shared = [l \in ListStage |-> "absent"]
  /\ object = [s \in Stage |-> "absent"]
  /\ entries = Blank /\ disk = Missing /\ unsaved = {}
  /\ raised = {} /\ acked = {}

-----------------------------------------------------------------------------
NothingDone ==
  /\ st' = [s \in Stage |-> "idle"]
  /\ attempt' = [s \in Stage |-> 0]
  /\ status' = [s \in Stage |-> "none"]
  /\ object' = [s \in Stage |-> "absent"]
  /\ raised' = {}

(* A new process: constructor, clear() with --force, and with --resume the *)
(* completed stages and the outputs of every entry, failed ones included.  *)
Launch(m, tools) ==
  /\ phase # "up" /\ launches < Len(Launches)
  /\ m \in Launches[launches + 1]
  /\ phase' = "up" /\ launches' = launches + 1
  /\ mode' = m /\ installed' = tools
  /\ NothingDone
  /\ IF m = "force"
     THEN entries' = Blank /\ Save("clear", Blank)
     ELSE entries' = Loaded /\ disk' = disk /\ unsaved' = {}
  /\ IF m = "resume" /\ Exists
     THEN /\ completed' = {s \in Stage : SuccessfullyCompleted(Loaded, s)}
          /\ shared' = [l \in ListStage |-> Loaded[l].outputs]
     ELSE /\ completed' = {}
          /\ shared' = [l \in ListStage |-> "absent"]
  /\ acked' = IF m = "force" THEN {} ELSE acked

Active == {s \in Stage : st[s] \in {"running", "backoff"}}

(* A dependency counts as finished however it ended.                       *)
DepsSucceeded(s) ==    \* mutant: waits for a success
  \A d \in STAGE_DEPS[s] : st[d] = "done" /\ status[d] = "success"
DepsDone(s) == \A d \in STAGE_DEPS[s] : st[d] = "done"

Begins(s) ==
  /\ phase = "up" /\ st[s] = "idle" /\ DepsDone(s)
  /\ Cardinality(Active) < MAX_PARALLEL

HasInput(s) ==
  /\ s \in DOMAIN Source => shared[Source[s]] = "data"
  /\ s = "url_aggregator" => object["katana"] # "absent"
  /\ s = "nuclei" => object["url_aggregator"] = "data"

Published(s, result) ==
  /\ st' = [st EXCEPT ![s] = "done"]
  /\ status' = [status EXCEPT ![s] = result]

Unlaunched == UNCHANGED <<phase, launches, mode, installed, completed>>

(* _finish: the outputs recorded with a list stage are what _results holds *)
(* under its key, an empty list when it holds nothing.                     *)
RecordedIfWell(s, result, lists) ==    \* mutant: failures are not recorded
  /\ IF result \in {"success", "empty", "skipped"}
     THEN /\ RecordStage(s, result, IF s \notin ListStage THEN "absent"
                                    ELSE IF lists[s] = "data" THEN "data" ELSE "empty")
          /\ acked' = acked \cup {s}
     ELSE UNCHANGED <<cpVars, acked>>
  /\ UNCHANGED raised

Recorded(s, result, lists) ==
  /\ RecordStage(s, result, IF s \notin ListStage THEN "absent"
                            ELSE IF lists[s] = "data" THEN "data" ELSE "empty")
  /\ acked' = IF result \in {"success", "empty", "skipped"}
              THEN acked \cup {s} ELSE acked \ {s}
  /\ UNCHANGED raised

(* "Skipping completed stage": the result is rebuilt from the checkpoint.  *)
RestoreRecording(s) ==    \* mutant: the restored stage is recorded as skipped
  /\ Begins(s) /\ s \in completed
  /\ Published(s, "skipped")
  /\ Recorded(s, "skipped", shared)
  /\ Unlaunched /\ UNCHANGED <<attempt, shared, object>>

Restore(s) ==
  /\ Begins(s) /\ s \in completed
  /\ Published(s, entries[s].status)
  /\ Unlaunched /\ UNCHANGED <<attempt, shared, object, cpVars, historyVars>>

(* Nothing to work on.                                                     *)
Skip(s) ==
  /\ Begins(s) /\ s \notin completed /\ ~HasInput(s)
  /\ Published(s, "skipped")
  /\ Recorded(s, "skipped", shared)
  /\ Unlaunched /\ UNCHANGED <<attempt, shared, object>>

ToolMissing(s) ==
  /\ Begins(s) /\ s \in ToolStage \ completed /\ HasInput(s)
  /\ s \notin installed
  /\ Published(s, "missing_dependency")
  /\ Recorded(s, "missing_dependency", shared)
  /\ Unlaunched /\ UNCHANGED <<attempt, shared, object>>

(* The input list is read and the tool is started.                         *)
RunToolAgain(s) ==    \* mutant: the tool of a completed stage is run as well
  /\ Begins(s) /\ s \in ToolStage /\ HasInput(s)
  /\ s \in installed
  /\ st' = [st EXCEPT ![s] = "running"]
  /\ Unlaunched /\ UNCHANGED <<attempt, status, shared, object, cpVars, historyVars>>

RunTool(s) ==
  /\ Begins(s) /\ s \in ToolStage \ completed /\ HasInput(s)
  /\ s \in installed
  /\ st' = [st EXCEPT ![s] = "running"]
  /\ Unlaunched /\ UNCHANGED <<attempt, status, shared, object, cpVars, historyVars>>

(* UrlAggregatorModule.run has no await.  It reads the three result        *)
(* objects; katana's was tested, an absent one of the others raises.       *)
UrlSources == {"katana", "gau", "waybackurls"}

Aggregate ==
  LET s == "url_aggregator"
      merged == IF \E u \in UrlSources : object[u] = "data" THEN "data" ELSE "empty"
      result == IF merged = "data" THEN "success" ELSE "empty"
  IN /\ Begins(s) /\ s \notin completed /\ HasInput(s)
     /\ \A u \in UrlSources : object[u] # "absent"
     /\ object' = [object EXCEPT ![s] = merged]
     /\ Published(s, result)
     /\ Recorded(s, result, shared)
     /\ Unlaunched /\ UNCHANGED <<attempt, shared>>

AggregateRaises ==
  LET s == "url_aggregator"
  IN /\ Begins(s) /\ s \notin completed /\ HasInput(s)
     /\ \E u \in UrlSources : object[u] = "absent"
     /\ Published(s, "failed")
     /\ raised' = raised \cup {s} /\ acked' = acked \ {s}
     /\ Unlaunched /\ UNCHANGED <<attempt, shared, object, cpVars>>

ResultOf(o) ==
  CASE o = "records"   -> "success"
    [] o = "transient" -> "failed"
    [] o = "missing"   -> "missing_dependency"
    [] OTHER           -> o

IsRetryable(o) == o \in {"timeout", "transient", "raises_transient"}

RetriesOnceMore(s) == attempt[s] <= MaxRetries    \* mutant
RetriesLeft(s) == attempt[s] < MaxRetries

(* The tool has ended: the coroutine stores what it found, records the     *)
(* stage, and returns; the scheduler retries it or publishes the result.   *)
Stores(s, found) ==
  /\ object' = [object EXCEPT ![s] = found]
  /\ shared' = IF s \in ListStage THEN [shared EXCEPT ![s] = found] ELSE shared

FinishKeepingOutputs(s, o) ==    \* mutant: a failed stage leaves its key alone,
  LET found == IF o = "records" THEN "data" ELSE object[s]    \* and data stays
  IN /\ phase = "up" /\ st[s] = "running" /\ o \in Behaviour[s] \ Exceptions
     /\ object' = [object EXCEPT ![s] = found]
     /\ shared' = IF s \in ListStage THEN [shared EXCEPT ![s] = "data"] ELSE shared
     /\ Recorded(s, ResultOf(o), shared')
     /\ IF IsRetryable(o) /\ RetriesLeft(s)
        THEN /\ st' = [st EXCEPT ![s] = "backoff"]
             /\ attempt' = [attempt EXCEPT ![s] = @ + 1]
             /\ UNCHANGED status
        ELSE Published(s, ResultOf(o)) /\ UNCHANGED attempt
     /\ Unlaunched

Finish(s, o) ==
  LET found == IF o = "records" THEN "data" ELSE "empty"
  IN /\ phase = "up" /\ st[s] = "running" /\ o \in Behaviour[s] \ Exceptions
     /\ Stores(s, found)
     /\ Recorded(s, ResultOf(o), shared')
     /\ IF IsRetryable(o) /\ RetriesLeft(s)
        THEN /\ st' = [st EXCEPT ![s] = "backoff"]
             /\ attempt' = [attempt EXCEPT ![s] = @ + 1]
             /\ UNCHANGED status
        ELSE Published(s, ResultOf(o)) /\ UNCHANGED attempt
     /\ Unlaunched

(* The module raised: _run_once turns that into a FAILED result, which is  *)
(* retried like any other; _finish is never reached, nothing is recorded.  *)
Raise(s, o) ==
  /\ phase = "up" /\ st[s] = "running" /\ o \in Behaviour[s] \cap Exceptions
  /\ IF IsRetryable(o) /\ RetriesLeft(s)
     THEN /\ st' = [st EXCEPT ![s] = "backoff"]
          /\ attempt' = [attempt EXCEPT ![s] = @ + 1]
          /\ UNCHANGED <<status, raised>>
     ELSE Published(s, "failed") /\ raised' = raised \cup {s} /\ UNCHANGED attempt
  /\ acked' = acked \ {s}
  /\ Unlaunched /\ UNCHANGED <<shared, object, cpVars>>

Retry(s) ==
  /\ phase = "up" /\ st[s] = "backoff"
  /\ st' = [st EXCEPT ![s] = "running"]
  /\ Unlaunched /\ UNCHANGED <<attempt, status, shared, object, cpVars, historyVars>>

(* All stages are done: findings are collected from the result objects,    *)
(* reports are written and run() returns.                                  *)
Return ==
  /\ phase = "up"
  /\ \A s \in Stage : st[s] = "done"
  /\ phase' = "returned" /\ acked' = acked \ unsaved
  /\ UNCHANGED <<launches, mode, installed, completed, st, attempt, status,
                 shared, object, cpVars, raised>>

(* The process is killed between two steps, in the middle of a save of one *)
(* of its stages, or while --force clears the checkpoint.                  *)
Killed ==
  /\ phase' = "down" /\ NothingDone
  /\ completed' = {} /\ shared' = [l \in ListStage |-> "absent"] /\ entries' = Blank
  /\ UNCHANGED <<mode, installed, unsaved>>

Crash ==
  /\ phase = "up"
  /\ Killed /\ acked' = acked \ unsaved
  /\ UNCHANGED <<launches, disk>>

Saves(s) ==
  \/ st[s] = "running"
  \/ Begins(s) /\ s \notin completed /\ (HasInput(s) => s \notin installed)

CrashWhileSaving ==
  /\ TornWrites
  /\ phase = "up" /\ \E s \in Stage : Saves(s)
  /\ Killed /\ disk' = Torn /\ acked' = {}
  /\ UNCHANGED launches

CrashWhileClearing ==
  /\ TornWrites
  /\ phase # "up" /\ launches < Len(Launches) /\ "force" \in Launches[launches + 1]
  /\ Killed /\ disk' = Torn /\ acked' = {}
  /\ launches' = launches + 1

StageStep(s) ==
  \/ Restore(s) \/ Skip(s) \/ ToolMissing(s) \/ RunTool(s)
  \/ \E o \in ToolOutcome : Finish(s, o) \/ Raise(s, o)
  \/ Retry(s)

Progress == Return \/ Aggregate \/ AggregateRaises \/ \E s \in Stage : StageStep(s)

Next ==
  \/ \E m \in Mode, tools \in Installations : Launch(m, tools)
  \/ Progress
  \/ Crash \/ CrashWhileSaving \/ CrashWhileClearing

Spec == Init /\ [][Next]_vars

(* Tools end (their runner enforces a timeout) and the loop runs what is   *)
(* ready; nobody is obliged to launch the program, or to kill it.          *)
FairSpec == Spec /\ WF_vars(Progress)

-----------------------------------------------------------------------------
WebTypeOK ==
  /\ CheckpointTypeOK
  /\ phase \in {"down", "up", "returned"}
  /\ launches \in 0 .. Len(Launches)
  /\ mode \in Mode
  /\ installed \in SUBSET ToolStage
  /\ completed \in SUBSET Stage
  /\ st \in [Stage -> {"idle", "running", "backoff", "done"}]
  /\ attempt \in [Stage -> 0 .. MaxRetries]
  /\ status \in [Stage -> Status]
  /\ shared \in [ListStage -> Value]
  /\ object \in [Stage -> Value]
  /\ raised \in SUBSET Stage
  /\ acked \in SUBSET Stage

(* A list restored from the checkpoint or left in _results by an earlier   *)
(* attempt never outlives the stage's success: data is vouched for by a    *)
(* success entry, and a stage's tool runs only on the data of an upstream  *)
(* stage that this run reports as a success.                               *)
DataOnlyFromSuccess ==
  /\ \A l \in ListStage :
       /\ entries[l].outputs = "data" <=> entries[l].status = "success"
       /\ disk.entries[l].outputs = "data" <=> disk.entries[l].status = "success"
  /\ \A s \in DOMAIN Source :
       st[s] \in {"running", "backoff"} => status[Source[s]] = "success"

(* "Skip stages that completed successfully in a previous run": such a     *)
(* stage is never run again and ends with the status it had, even when a   *)
(* stage it depends on is run again beside it.                             *)
CompletedStagesRest ==
  phase # "down" => \A s \in completed :
    /\ st[s] \in {"idle", "done"}
    /\ entries[s].status \in {"success", "empty", "skipped"}
    /\ st[s] = "done" => status[s] = entries[s].status

(* When the run returns, the checkpoint and the reported results agree,    *)
(* stages that failed, timed out or lost their tool included, and disagree *)
(* only about stages whose last attempt raised, all reported as failed; a  *)
(* write that failed is made good by the next one, of whatever stage.      *)
CheckpointAgrees ==
  phase = "returned" /\ unsaved = {} =>
    \A s \in Stage :
      disk.entries[s].status # status[s] => s \in raised /\ status[s] = "failed"

(* Progress survives: unless the file was torn, a resumed process knows as *)
(* completed every stage whose latest execution, in whichever process, had *)
(* ended well, except those recorded by failed writes only.                *)
ResumeKeepsProgress ==
  phase = "up" /\ mode = "resume" /\ (\A s \in Stage : st[s] = "idle") =>
    acked \subseteq completed

(* A resumed run never changes the entry of a stage that was completed.    *)
CompletedEntriesKept ==
  [][phase = "up" /\ phase' = "up" /\ mode = "resume" =>
       \A s \in completed : entries'[s] = entries[s]]_vars

(* However the tools behave and whichever are missing, a run that is not   *)
(* killed returns.                                                         *)
RunsEnd == (phase = "up") ~> (phase # "up")

-----------------------------------------------------------------------------
(* A statement of the documentation that the code does not keep.           *)

(* "Serializable output data needed to reconstruct shared state on resume" *)
(* (checkpoint.py:35): after a resume, a crawl that succeeded feeds the    *)
(* aggregation, as it does in a run that was not interrupted.              *)
CrawlFeedsAggregation ==
  phase = "returned" /\ status["katana"] = "success" =>
    status["url_aggregator"] # "skipped"
=============================================================================

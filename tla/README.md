# VINA in TLA+

VINA is a command-line vulnerability scanner. It runs external tools (subfinder,
httpx, katana, nuclei, ...) or read-only host commands as the stages of a
dependency graph, collects their findings, looks versions up in a vulnerability
database, correlates and scores the result, and writes reports. This directory
holds TLA+ models of the parts in which order, concurrency, failure, a restart or
arithmetic decides what the program does, the TLC configurations that check them
on small instances, and proofs, checked by TLAPS, that hold for every value of the
parameters.

`PROJECT.json` lists components, runs, mutants, the mapping from definitions to
source lines, the hazards and the theorems. This file explains them.

## 1. Inventory

### Components

| Component | Source (`src/vina/`) | State | Operations |
|---|---|---|---|
| Pipeline scheduler | `core/scheduler.py`, `models/stages.py` | per run: one task, one `Event` and one retry counter per stage, a semaphore, the `results` list | `run`, `_run_stage`, `_run_with_retry`, `_run_once` |
| Checkpoint manager | `core/checkpoint.py` | `_data` in memory, one JSON file per target | constructor/`_load`, `clear`, `record_stage`, `_save`, `is_successfully_completed`, `get_stage_outputs`, `restore_outputs` |
| Web pipeline | `pipeline/web_pipeline.py` | `_results` (shared by the stages), `_completed`, the checkpoint | `run`, ten stage coroutines, `_finish`, `_restore_result` |
| Web scanner modules | `scanners/web/*.py` | none of their own | `run` of each module, `UrlAggregatorModule.run` |
| Command runner | `core/runner.py` | per call: the process, its pipes, two collector tasks, a timer | `run` and its three exception handlers, `_collect_stream` |
| Feed cache and updater | `core/feed_manager.py` | SQLite tables `feed_entries`, `feed_sources`, `feed_metadata` | `update_all`, `update_single`, `FeedUpdater.update`, `clear_all`, `verify_integrity` |
| Plugin registry, hooks | `plugins/*.py` | plugins, enabled flags, hooks, capabilities | `register`, `unregister`, `enable`, `disable`, `run_hook`, discovery |
| OS pipeline | `scanners/os/os_pipeline.py` | `_results`, lists of findings, plugin outputs | 28 stages below one root, then hooks and post-processing |
| OS scanners | `scanners/os/**/*.py` | per stage: the results of its commands, findings, records, warnings | `run` of 58 scanners in 28 stages |
| Vulnerability intelligence | `core/vuln_intel.py` | a global database behind a lock; an immutable engine | version comparison, pattern matching, inventory, lookup, scores, `get_default_db`, `reload_db` |
| Findings, aggregation | `models/findings.py`, `core/aggregator.py`, `pipeline/aggregator.py` | finished lists | `make_finding`, deduplication, statistics |
| Knowledge enrichment | `core/knowledge.py` | none between calls | 158 rules, `enrich_finding` |
| Correlation engine | `core/correlation.py` | none between calls | 51 rules, matching, score of a path, statistics |
| Exploitability engine | `core/exploitability.py` | per run: what the findings tell of the host | assessments of matches, paths and findings, summary |
| Dependency checker | `core/dependency.py` | class-level cache | `check`, `resolve` |
| The rest | CLI, configuration, reports, parsers, AI analyzer, legacy modules | none that outlives a call | formatting, parsing, one-shot calls |

### Interaction

The command line builds a pipeline object and calls its `run`. The web pipeline
and the OS pipeline both hand a list of `StageDef`s to the **scheduler**, which
runs each stage's coroutine as an asyncio task. The coroutines share one dict,
`_results`; a stage reads what its dependencies wrote there. Each coroutine asks
the **dependency checker** for its tool and calls the tool's module, which calls
the **command runner**, which starts the process and awaits it. A web stage that
ends records itself with the **checkpoint manager**, which rewrites its file at
once; a later process started with `--resume` loads that file and skips what it
shows as completed. The stages of a host scan are the **OS scanners**: each asks a
series of commands, judges their texts and returns findings. After the scheduler
returns, the OS pipeline collects the findings from the result objects, runs
**vulnerability intelligence** over them, then aggregation, knowledge,
correlation and exploitability, with plugin hooks in between, and reports. The
**feed updater** is run by its own commands and keeps its own cache.

Everything in one process runs on one event loop: two tasks interleave only at
`await`. A step of a model is therefore the stretch between two awaits, and code
without an await is one step. What happens outside (processes, servers, kills,
other commands on the same SQLite file) interleaves with any of these steps. The
default vulnerability database is guarded by a `threading.Lock`: there a step is
what one thread does between two accesses to shared state.

### What is hard, and what correctness means

| Component | Hard to test | Must hold |
|---|---|---|
| Scheduler | order of publications against waits; slot bookkeeping across retries and cancellation; cycles | a stage starts after its dependencies are published; slots are conserved and never idle while a stage waits; retries only after transient failures and at most `max_retries`; one result per stage; the run ends; nothing starts after a cancellation |
| Checkpoint, web pipeline | a kill anywhere, in a write too; writes that fail; restored data beside re-executed stages; missing tools and failures half-way | progress survives; completed stages rest; stages consume data of successful stages only; the checkpoint agrees with the report; every run ends |
| Command runner | exit racing the timer; cancellation at any await, in handlers too; pipes held by others | no process survives the call; a completed result is genuine and whole; the call ends |
| Feeds | every statement commits on its own; failures and kills half-way; freshness beside withdrawn entries | each source is as reported and its row is of the payload it holds; the checksum and the totals fit the contents; a command ends |
| Plugins | handlers that register, unregister or raise during dispatch | a failure never stops a scan; what is unregistered no longer runs |
| OS pipeline | hooks between stages of post-processing | each pass sees what the previous one produced |
| OS scanners | commands that are missing, time out or print half an answer, in any combination | silence is not evidence; alternatives serve; losses are told; the stage's state fits what happened |
| Vulnerability intelligence | boundary versions; reload racing first use | comparison orders versions; the matched interval is the written one; a reload is seen |
| Correlation, knowledge, exploitability | several tables of rules and bonuses that act on one list of findings; what is dropped as a duplicate | no finding hides what another one shows; no score moves without a reason |

The line of each hazard is in `PROJECT.json`, with the properties that would catch
it going wrong, or the reason why none does.

## 2. Modules

| Module | Models | Builds on |
|---|---|---|
| `DagRun` | the promise of the scheduler: which stages are active, in what order they complete | |
| `Scheduler` | `PipelineScheduler.run` with semaphore, queue, retries, cancellation | refines `DagRun` |
| `Checkpoint` | `CheckpointManager`: entries, file, load, record, torn and failed writes | |
| `WebPipeline` | `WebPipeline.run`: ten coroutines, launches, kills | extends `Checkpoint`, uses the scheduler through the begin rule of `DagRun` |
| `CommandRunner` | one call of `AsyncCommandRunner.run` and the process it starts | |
| `FeedUpdate` | the feed tables, the update commands, servers, kills | |
| `PluginRegistry` | the registry's operations and the loop of `run_hook` | |
| `OSPipeline` | `OSPipeline.run`: hooks, stages, passes over the findings, report | extends `PluginRegistry` |
| `HostCommands` | what a scanner works on: commands, their fate and their text | |
| `HostStorage`, `HostNetwork`, `HostAuth`, `HostBoot`, `HostPlatform`, `HostDesktop`, `HostPackages` | the scanners of the nine groups (`scanners/os/*_security/`, ...) | `HostCommands` |
| `HostInventory`, `HostExposure`, `HostKernel` | the stages of one scanner each | `HostCommands` |
| `HostScanners` | a stage at work: its scanners in turn, their commands in turn, warnings and the stage's state | all the Host modules |
| `Versions` | `compare_versions`, `VersionPattern`, `_parse_version_pattern` | |
| `Findings` | `make_finding`'s identifiers, `FindingAggregator`; helpers on sequences | |
| `VulnEngine` | `VulnerabilityEngine.run`: inventory, lookup, match, score, statistics, matches as findings | `Versions`, `Findings` |
| `KnowledgeRules`, `Knowledge` | the rules of the knowledge base and `EnrichmentEngine` | `Findings` |
| `CorrelationRules`, `Correlation` | the rules of attack paths and `CorrelationEngine`, with the statistics | `Knowledge` |
| `Exploitability` | `ExploitabilityEngine` and the summary | `Correlation` |
| `Analysis` | the passes of `OSPipeline.run` over the findings of one scan | `VulnEngine`, `Exploitability` |
| `DefaultDatabase` | `get_default_db`, `reload_db` and their lock | |
| `VulnIntel` | lookups by several threads while the files change; scans of a host with more and more to find | composes `Analysis` and `DefaultDatabase`, refines the latter |
| `SchedulerProofs`, `WebPipelineProofs`, `CommandRunnerProofs`, `FeedUpdateProofs`, `OSPipelineProofs`, `HostScannersProofs`, `VulnEngineProofs`, `VulnIntelProofs` | theorems | the module they are named after; `VulnEngineProofs` covers `Versions` too, `VulnIntelProofs` what `VulnIntel` composes |
| `MC*` | constants of the instances TLC checks | the module they are named after |

Definitions marked `\* mutant` are wrong variants of the definition after them, the
way a plausible bug would change it. Substituted for the right one, each makes the
property listed beside it in `PROJECT.json` fail, which shows that the property can.

### Scheduler

`pc[s]` is where stage `s`'s task is: `pending` (waiting for its dependencies'
events, `scheduler.py:192-193`), `queued` in `sem.acquire()`, `running` an attempt,
`backoff` (asleep before the next, with its slot), `done` or `cancelled`. `done`
is the set of events that are set, `permits` and `waiters` are the semaphore as
asyncio implements it: `release` hands the slot to the oldest waiter, and a task
that comes later queues behind it. `Publish` is the whole end of a stage: append
to `results`, set the event, release the slot. The lock around it is never held
across an await, so acquiring it does not suspend and it needs no variable. What a
coroutine returned is chosen freely from `Outcomes`; an exception becomes the
failed result that `_run_once` makes of it, and may or may not read as transient.
`Interrupt` is the cancellation of the task that called `run`, as Ctrl-C does it:
`gather` cancels all children; those that hold a slot unwind one at a time.

Two things are assumed of callers. Stage names are unique: the graph is a function
of the name, as `stage_map` is. And a coroutine does not raise `CancelledError` of
its own accord; section 5 shows that the command runner can, which the
scheduler's `except Exception` does not catch.

### Checkpoint and WebPipeline

An entry keeps a status and what it stores of the outputs: nothing, an empty list
or data. The file is missing, torn or holds all entries; a torn file loads as
none, as `_load` does. `Save` is `_save`: the write succeeds, or, for the steps in
`FailingSaves`, an `OSError` leaves the file as it was or truncated; the code logs
it and goes on, and the next good write brings everything back. `unsaved` is a
history variable: the writes the file has missed since the last good one.

`Launch` is a new process: the constructor reads the file, `--force` blanks it,
`--resume` computes `_completed` and merges the outputs of all entries into
`_results`. Each stage coroutine is a handful of actions: `Restore` (completed
earlier), `Skip` (no input), `ToolMissing`, `RunTool` (up to the await) and
`Finish` (from the await on: store, record, return; and what the scheduler then
does with the result, publish it or retry). `Raise` is a module that raises: the
scheduler makes a failed result of the exception, retries it when its text reads as
transient, and `_finish` is never reached. A kill leaves nothing of the process
but the file; it may come in the middle of any write, the one of `--force` too.
`Aggregate` and `AggregateRaises` are the one stage without a tool. The tables
`STAGE_DEPS`, `Source` and `ListStage` are the graph, which list each stage reads,
and which lists are stored.

`acked` is a history variable: the stages whose latest execution, in any process,
ended well, as long as the file was not torn or cleared since; it is compared
with what a resumed process believes. `raised`, another, says which published
results stand for an exception and not for what a coroutine recorded.

### CommandRunner

`pc` names the await the coroutine is at: starting the process (`spawning`, and
`closing` when asyncio cleans up after a cancellation there), feeding stdin, waiting
for the process, awaiting the stdout and then the stderr collector, or one of the awaits of the
three handlers. The program is chosen from records that say whether it reads its
input, may close it unread, ends by itself, or leaves a descendant that inherits
the pipes (`heir`). `process.wait()` is asyncio's: it returns once the process has
exited, whoever still holds the pipes; the collectors end only when nobody holds
them. Output is counted in blocks: `written` by the program or its descendant,
`unread` in a pipe of `PipeSize`, `kept` by a collector that has `ByteLimit` and
drains the rest, in chunks of any size. A full pipe blocks the program, which, as
the worst case, reads nothing before its output is taken. `CancelBody` and `CancelHandler` are a cancellation
at any await, and cancel the awaited collector with it.

### FeedUpdate

`entries`, `row`, `checksum`, `total` and `offline` are the tables. A payload is a
list of CVEs that may name one twice, as two OSV advisories may: the table keeps
one row of it, the source row counts two. A checksum is what it was made from, a
total what was counted. `update_all` works through the sources
in sorted order, `update_single` has one. A source is skipped, still fresh, not
modified, failed after `MAX_RETRIES` attempts, or fetched, deleted, inserted entry
by entry, and recorded; each database call commits, so each is a step.
`AttemptFails` is an exception that `update` catches, anywhere from the request to
the source row: the next attempt starts over, with what this one committed left in
the table. `Abort` is a kill or an exception that is not caught, at any step;
`clear` is three commits; `Publish` is a server that changes its payload,
`TtlExpires` is time. History variables: `before` (the contents when the command
started) and `torn` (the sources whose entries were deleted and whose row is still
the one from before).

### PluginRegistry and OSPipeline

`status` is `_plugins` and `_enabled` together, which always have the same keys;
`hooks` is the set of registrations, and `Precedes` is the order the stable sort by
priority gives them. `event` is the dispatch under way: the handlers of the copy
still to be called, the one that is running, whether the event was cancelled.
`run_hook` and its handlers are synchronous, so while a dispatch is under way
operations come from the running handler only; otherwise they come from whoever
runs before the scan or while it awaits its stages. A registration that raises has
added some of its hooks, from none to all. `pc` is the step of `run`, `After` their
order, `Given` the lists each hook's handlers get: findings, enriched findings,
matches, attack paths. Handlers may change them in place: `HandlerAdds`,
`HandlerTakes`, and `HandlerAlters`, which changes a finding's key in both lists, as
an enriched finding wraps the finding it was made of. A list is the set of the keys
in it. `Reads` says what each pass reads and `seen` what it was given; `made`, `put`
and `taken` are history: what the program put in each list, and what handlers put in
and took out. `add_hook` takes any plugin id, registered or not, or none. The stages are one step: they share no
data, how they are scheduled is `Scheduler`'s matter and what they do is
`HostScanners`'. A pass that meets an object it cannot read raises, as does a report
that cannot be written, and `run` does not catch that.

### HostScanners

A scanner is a record: `asks`, its commands in the order of the code; `says`, what
the text of each may be, as a set of sets of *facts*, the things the scanner looks
for in it; `partial`, the commands whose text is read whatever the exit code, also when they
timed out, with what they had printed by then;
`certain`, probes that are no commands. A result is "ok", "failed" (another
exit code), marked "missing" or "timeout", or "broken": the program could not be
spawned or met an unexpected error, and the result has no exit code. A predicate
beside it gives the condition under which a command is asked at all, and an operator its findings, as titles
that hold for given results. Stages share no state and the scheduler runs each
once, so one behaviour is one stage, chosen at the start: `Ask` is one command
awaited, `Skip` one that the code does not run, `Assess` the judgement of a
scanner after its last command, with its warnings, and after the last scanner of a
group the stage's record; `Raise` is the one place where text can make a scanner
raise (`int(minlen)`, `auth_security/pam.py:199`).

Every combination of answers of a stage with twenty commands is out of reach, so a
behaviour has a *ground*, what commands usually do (answer with nothing
remarkable, or all be missing, time out or break), and at most `NewsBound` commands
do anything else; one does of `kernel_hardening`, which judges each command by
itself, and of `ssh`, which judges only one. Every pair of remarkable answers in any
other stage is among the behaviours, on each ground.

### VulnIntel

A version is an epoch and two lists of parts, numbers or text; of a text only its
place in the character order counts, below or above the digits. A pattern is as
written: a wildcard with its numbers, a range, or a list of operators and
versions. `ParsePattern` translates it, with the stripping of trailing dots and
zeros that the code does before it counts. The engine's operators follow
`VulnerabilityEngine.run`: inventory from findings, lookup by vendor and product,
matching, risk in hundredths, the order of matches, statistics.

`DefaultDatabase` is the global with its lock: a thread's `pc` is between which
accesses of `get_default_db` and `reload_db` it is, `files` the version of the
files on disk, and a database is known by the version it was read from.
`VulnIntel` lets each thread that has got a database run the engine over the
findings of the host; hiding engine and reports it implements `DatabaseSpec`.

Of a finding the engines look at stage, category, severity, target and confidence,
and for words in its title and evidence. A text is therefore the set of *phrases* of
the engines that it contains (in lower case, as all of them compare), with the
component and version it gives away, if any; what the binaries of GTFOBins named in
its texts are is part of the finding. A rule is a record of the phrases, stages and
categories it asks for and of the bonuses it adds, one per rule of the code and in
its order where order matters. `Analyse` puts the passes together as `OSPipeline.run`
does: inventory, matches, findings from matches, enrichment, correlation,
assessment, each over all findings, and the statistics over the deduplicated ones.
A score is an integer number of tenths, computed as a fraction and rounded to even,
as `round()` does it. `found` is the set of batches of findings that the host shows;
`NextScan` adds one and analyses the host anew, with the database as it was shipped,
as a later `vina os` would. Between scans nothing else is kept, so what two
analyses have in common is all that can be asked of them.
## 3. Runs

| Run | Question | Instance |
|---|---|---|
| `scheduler` | dependency order, slots, retries, results, cancellation, termination, refinement of `DagRun` | every graph over three names (acyclic, cyclic, with unknown dependencies, smaller) and two over four; 2 slots; 2 retries for one stage and none for the others; success, timeout and missing program; interrupted at any moment |
| `web` | what a kill, a torn or a failed write and a resume do to checkpoint and shared data; a run returns whatever fails | all ten stages; whatweb is not installed, host discovery may fail for a moment, no port is open, gau may raise (once or for good), nuclei times out or lost its tool after the check; one retry; the save of one stage may fail; first with `--force`, killed at any step or in the middle of a write, then again plainly or with `--resume` |
| `runner` | no process left, genuine results, termination | all 16 kinds of program that can be started, quiet or with output on either stream that exceeds pipe and limit (3 blocks to 2), two that cannot; three sizes of input, up to two cancellations |
| `feed_update` | reported sources, checksum, source rows, termination | three sources (one disabled, one with an ETag), two payloads for one of them, of which one names a CVE twice, two attempts, two commands of any kind, caught failures and aborts at any step, clearings |
| `os_scan` | dispatch under changes of the registry, what the passes are given when handlers change the lists, termination | two plugins that meet at a hook point in the opposite order of their ids, one with a handler elsewhere, and a third point for added hooks; these points hand out all four lists; one finding, one match, one unreadable object; three operations by anyone or changes by handlers, together |
| `host_scan` | what scanners conclude from commands that never ran | all 28 stages with their 58 scanners; commands that answer, or are all missing, all hang or all break off; up to two exceptions (one in `kernel_hardening` and in `ssh`) |
| `vuln_intel` | reloads; ranges; what the analysis of a scan keeps and how its scores move | two threads, three versions of the files, one of them no JSON; three hosts, one with twelve versions of one package; every form of pattern; a host scanned again and again, with eleven batches of findings, among them several rules of sudo with one title in every order |

Five more runs each check one documented statement that does not hold (section 5).

Bounds and why they are enough. Two slots for three or four stages is the smallest
instance in which a slot is contended, handed over and queued for, and four stages
at once put two into the queue. Two retries tell
"at most" from "exactly once", beside stages that have none. A second launch sees
all that a first one can leave; a third starts from a file of the same kinds. One
failing write, of the aggregation, has recorded stages before it and more to come
after it, in the same process and in the next. In `web` three stages vary:
`httpx`, on whose result other branches depend at two levels, a source of URLs
that the aggregation can find missing, and the last stage; a stage that fails in
one launch and is run again in the next, below or beside restored ones, is among
the behaviours. Two cancellations reach every handler of the runner from the body
and leave it again. Two sources that are updated make "one failed, one replaced"
possible, in both orders since either may fail, and the second command sees what
the first, complete or cut short, left. Two payloads that overlap let an entry be
withdrawn, kept or added. In `os_scan` three operations register both plugins and
let a handler of one act on the other, or register one twice and remove it; or one
operation and two changes empty `findings` before the report, or put something in and
take something else out at different places. In
`host_scan` a finding depends on at most two remarkable answers at a time, with
few exceptions, and a fallback on one source that answers while the others do
not. Two threads show every race of two calls for the global, which is all the
lock is for; three versions of the files allow a reload of good, bad and good
ones. The threads look up three fixed hosts (`LookedUp`); the growing scans are of a
host of their own, since a scan looks its software up on one thread. Its batches are
findings the scanners really make: one for each kind of assessment, two
countermeasures, an exposed port, a package with two known vulnerabilities (one with
an exploit), and the findings that fire rules of one, two and three parts, with one
another and across batches. Every set of the eleven is reached, by every order of
additions, and the result for each of the 1024 sets without sudo's further rules was
compared with that of the Python engines: paths, scores, order and counts agree, but for ties in the last digit
of two averages, where a float falls on either side.

Deadlock checking is off except in `vuln_intel`: a run that returned, a call that
ended and a cache nobody updates are meant to stop. That nothing stops too early is
what the liveness properties say.

**Fairness.** The event loop starves no ready callback, so steps of the coroutines
are weakly fair. A stage's coroutine returns because its tool is bounded by the
runner's timeout, so in `Scheduler` and `WebPipeline` the end of a tool is fair.
In `CommandRunner` the timer fires, SIGKILL is delivered, and a program that reads
or exits at all does so in time; a program that does neither is given no fairness,
and neither are forking, closing the input, or the end of a descendant. In
`FeedUpdate` HTTP requests have a timeout, so the updating steps are fair.
In `OSPipeline` passes and handlers are synchronous code that ends: a handler that
never returns does stop a scan, and is excluded. In `HostScanners` every command
is bounded by the runner's timeout. Launches, kills, cancellations, server changes
and the TTL never are, and `VulnIntel` states no fairness and no liveness: what
threads wait for there is a lock that no call keeps across a wait.

## 4. What the passing runs show

* `DependencyOrder`, `ResultsAgree`: in no interleaving of publications, retries
  and waits does a stage pass its wait before every dependency has its final
  result in the list and its event set; the list is in dependency order and has
  one entry per stage.
* `SlotDiscipline`: on every path, a slot is neither lost nor made, and is not idle
  while someone waits.
* `RetryDiscipline`: what is published is the outcome of the last invocation, and
  a transient failure is published only when the retries are used up.
* `AcyclicRunsEnd`, `CancelIsFinal`, `PromiseKept`: an acyclic graph's run ends, a
  cancelled one starts and publishes nothing more, and all of it refines `DagRun`.
* `DataOnlyFromSuccess`: although `restore_outputs` merges failed entries too, a
  tool runs only on data of a stage that this run reports as a success.
* `CompletedStagesRest`, `CompletedEntriesKept`, `ResumeKeepsProgress`: a resumed
  process knows every stage that had ended well and was written, runs none of
  them, and keeps their entries, also when a stage upstream of them is run again
  beside them. A torn write loses all progress, by design of `_load`, until the
  next good one; `ResumeKeepsProgress` says that nothing else does.
* `CheckpointAgrees`: file and report differ only in stages whose last attempt
  raised (failed, timed-out and missing ones agree), and in
  what was recorded since a write failed.
* `RunsEnd`: no combination of missing tools and failures leaves a stage waiting.
* `NoProcessLeftRunning`, `CompletedIsGenuine`: whichever way a call ends, the
  process has exited or SIGKILL is on its way, and a completed result is that of a
  process that ended by itself and whose output was read to the end, the beginning of
  it kept and the rest flagged.
* `RunEnds`, `CancellationEnds`: a program that takes its input, if only after it
  has filled its pipes, and leaves no descendant with them costs at most the timeout;
  a cancelled call ends for every program.
* `EachSourceAsReported`, `ReturnedIsVerified`, `RowsMatchEntries`, `UpdateEnds`:
  a source reported as a success holds what was fetched, withdrawn entries removed,
  and one reported otherwise what it held before, unless an attempt failed between
  its delete and its row: then it holds a part of one payload, behind the old row.
  After every command that returned `verify_integrity` holds and the totals fit.
* `EveryHandlerServed`, `NoStrayHandlers`: whatever a handler does to the registry
  and whether it raises, the others of the dispatch get their turn unless it
  cancels or disables them; partial, repeated and undone registrations, and hooks that
  others add in a plugin's name, leave no handler behind that is called after the
  plugin was unregistered. (A hook that names a plugin which is not registered is
  called, as the tests of the registry expect.) The exception is stated in the
  property: the plugin that a handler unregisters is still called in the same dispatch.
* `EveryPassSeesAll`, `ScanEnds`: whatever handlers add to the lists, take out or alter,
  what was found, matched or chained and not taken out is counted, correlated,
  assessed and reported, nothing else is but what handlers put in, and a scan ends.
  That a scan which found something writes no report takes a handler that empties
  `findings`.
* `NoAlarmFromSilence`: had a command that was lost gone on, whatever it said besides
  what it had printed by then, every finding would still be there, but for those
  listed in `BlindAlarms`. The
  list is long: 18 scanners take an empty answer for "not configured" and report it as a
  finding when the program is not installed. The property pins it down: no
  scanner outside it does, and none does it with another finding.
* `FallbackServes`, `LossIsTold`: one of several alternative
  commands is enough for a stage to have records; a stage of one scanner warns of
  every command that is missing or times out, while those of groups (and
  `environment`) need not, and no stage warns of a command that was lost because it
  could not be spawned or met an unexpected error, whose result has no exit code
  (`services.py:89`); a state of "missing" or "timeout" means that some command was
  lost in just that way. `HostTypeOK`
  ties a scanner's answers to the commands it has asked so far.
* `ReloadIsSeen`: no call returns a database older than the last `reload_db` before
  it, although the global is read twice without the lock.
* `RangesAreIntervals`, `IntelTypeOK`: an entry of the database with one affected
  pattern, of any form but `!=`, and no fixed one reports an interval of the installed
  versions of its product (when results are not capped); and scores stay within 100,
  however many matches there are.
* `FindingsOnlyAdd`: each pass drops what it takes for a duplicate, by a title, an
  identifier or the target of a path, and none of that ever hides a match, a path
  or an assessed subject that a scan with less to find reported. A finding of a path
  gives way only to one of the same stage, target and title of which the knowledge
  base says the same (tags, GTFOBins, technique, confidence of the rules). Of findings
  that share these a path does show only one, and a scan that finds more may
  show another: `sudo -l` with two lines `NOPASSWD: ALL` makes two findings with one id,
  of which the path, and the reader, get the evidence of the first.
* `ScoresMoveForAReason`: when more is found, a score falls only if a countermeasure
  is newly recognised, or a path's findings are less certain on average; it rises
  only if the host is newly exposed, or a path has more findings behind it. The
  reasons are the host's, as the code takes them: a countermeasure lowers the scores of
  all paths. What counts as recognising one is another matter: that an installed
  nginx is taken for NX (section 5) is a reason here, and no property objects.

## 5. Where code and documentation disagree

Each of these is a run that checks one documented statement and for which TLC finds
a counterexample; `PROJECT.json` quotes the lines.

* `web_lost_crawl`: the checkpoint stores outputs of three stages only; after a
  resume `url_aggregator` and `nuclei` are skipped although katana succeeded
  (`CrawlFeedsAggregation`). The findings of restored stages are missing from the
  report for the same reason.
* `runner_timeout`: feeding stdin is not covered by the timeout "for the entire
  invocation" (`TimeoutCoversInvocation`). A descendant that keeps the pipes open
  defeats it as well, at the await of the collectors.
* `runner_raises`: a tool that closes its input unread can make `run` raise
  `CancelledError` though nobody cancelled it (`RaisesOnlyIfCancelled`).
* `feed_torn`: a refresh that fails or is cut short after the delete loses entries
  behind a source row that stays fresh, so later updates answer "no update" and
  store a matching checksum (`AtomicWrites`).
* `vuln_wildcard`: `3.0.*`, a pattern of the shipped database, is read as
  `>=3.0.0,<4.0.0`: the zero before the wildcard is stripped before the parts are
  counted (`WildcardKeepsPrefix`).

Seen on the way, and without a run of its own:

* Scheduler: the validation at the head of `run` accepts cyclic graphs, whose stages
  then wait for each other (both pipelines have fixed acyclic ones).
* Web: with gau or waybackurls missing, the aggregation raises on the absent result
  (`web_pipeline.py:303`) and the URLs katana found are not scanned. `_safe_name`
  gives different targets one checkpoint file. Recon's `_save_subdomains` writes
  into the package's own output directory.
* Feeds: `is_offline` is cleared even if every feed failed (`feed_manager.py:1032`).
* Exploitability: a countermeasure is recognised by words anywhere in the evidence of
  any finding, and `"nx" in ev` (`exploitability.py:178`) holds for every finding about
  nginx: installing it is reported as NX and halves the score of every attack path,
  against `README.md:363`, "Existing countermeasures that reduce exploitability". The
  model has this (the batch `NginxPackage` of `MCVulnIntel`).
* Plugins: registering a plugin twice doubles its handlers; no command discovers
  plugins, and the report engines are built when the module is imported, before
  any plugin can register rules.
* OS pipeline: it builds its `VulnerabilityEngine()` without feed data; the
  aggregator's deduplication reaches the statistics only
  (`os_pipeline.py:495-506`, against `docs/ARCHITECTURE_GUIDE.md:58`).
* OS scanners: a stage whose every command timed out may be recorded as a success
  because a scanner reported the silence (`network_security/firewall.py:94`). The
  scanners of groups almost never warn of lost commands, and no scanner of one that
  could not be spawned: it has no exit code, and only codes "not in (0, None)" are
  told (`services.py:89`). `perm[3]` is one place off
  in `cron.py:192`, `privilege_escalation.py:563` and `auth_security/polkit.py:85`.
  `processes.py:136` asks `ps -ef` and never reads it. A `minlen` that is no number
  ends the stage `auth_security` (`pam.py:199`). `kptr_restrict` is expected to be 1
  in `kernel.py:67` and 2 in `kernel_hardening.py:61`. Docker's check for privileged
  containers never holds. `2>/dev/null` and `"$LD_PRELOAD"` are passed to programs
  as they stand, since no shell is involved. The credential configuration files of
  `secrets.py:244-248` are never looked up.
* Vulnerability intelligence: `_default_engine` (`vuln_intel.py:811`) keeps its first
  database across reloads. `get_default_db` can return `None` when a reload comes
  between its last two reads, and `VulnerabilityEngine()` then fails an assertion.
  A bare version in `fixed_versions` means exactly that version. `*` matches [0,1).
  A wildcard behind an operator or in a list (`>=6.*`) makes `int()` raise
  (`vuln_intel.py:327`), or a bound that is no version; no shipped pattern has one.
  Several fields of `VulnEngineConfig` are never read. The comparison is not
  transitive for revisions that begin with punctuation below the digits.
* Correlation: the rules for vulnerabilities ask for the stage `vuln_intel`
  (`correlation.py:904`, for one), but the findings made of matches carry
  `vuln_intel/<source>` (`vuln_intel.py:110`), so none of these four rules ever fires.
  "SELinux is permissive" is looked for in titles, where the scanner writes "SELinux is
  in permissive mode" (`kernel_hardening.py:290`). A path that gains a finding may lose
  score, since the average confidence falls.
* Exploitability: the evidence `selinux=0 enforcing=0` of `boot_security/kernel_params.py:87` is read as SELinux
  enforcing; and an AppArmor that is enabled (`apparmor_enabled=Y`) as none. No scanner
  says anything of the kernel lockdown or of running as root. `30 - priv_w` (line 718)
  gives more points the more privileges an attack needs. Each match is assessed
  twice, once as a match and once as the finding made of it. A host is never
  "network adjacent", since ports are only noted of findings that make it internet
  facing.
* Dependency checker: the cache is keyed by logical name (`dependency.py:56`), so a
  second configuration of the same tool is not looked at.

## 6. Theorems

Proofs are by induction over steps. For each module a strengthening `IInv` of the
wanted invariants is shown to hold initially and to be preserved by every action;
temporal steps are PTL. The only assumptions are the named `ASSUME`s on constants
(`SchedulerAssumption`, `WebPipelineAssumption`, `CommandRunnerAssumption`,
`FeedUpdateAssumption`, `RegistryAssumption`, `OSPipelineAssumption`,
`StagesAssumption`, `DefaultDatabaseAssumption`, `VulnEngineAssumption`,
`VulnIntelAssumption`): types,
finiteness of stage names and payloads, at least one slot, at least one attempt,
distinct sources, a thread that is not "nobody", findings and entries that come in
lists and carry numbers where the code computes with them. TLC evaluates them in every
run. A theorem that needs more says so in its own hypotheses.

* **Scheduler** (any finite set of stages, any graphs, cyclic ones included, any
  number of slots, retries and outcomes): `TypeCorrect`,
  `StagesRunInDependencyOrder`, `SlotsAreDisciplined`, `ParallelismIsBounded`,
  `RetriesAreDisciplined`, `ResultsAndEventsAgree`, `CancellationIsFinal`, and
  `SchedulerImplementsDagRun`, the refinement. The strengthening adds `QueueInv` (the queue holds queued stages,
  each once, and is empty outside a run) and `DoneInv` (events set are exactly the
  stages done, all of which were submitted). Without `QueueInv` the hand-over in
  `Release` could wake a stage that holds a slot and the count would be off; without
  `DoneInv` a set event says nothing about the stage. Retries and results rest on a
  second invariant, `PublishInv`: attempts fit the retries used (`AttemptInv`), the
  last outcome of a stage is what was or will be published (`OutcomeInv`), the list
  has each completed stage once and behind its dependencies (`ListInv`), and is
  complete on return (`ReturnInv`).
* **WebPipeline** (any tools, installations, launches, kills and failing writes):
  `WebTypeCorrect`, `DataComesFromSuccess`, `CompletedStagesAreNotRepeated`,
  `ReportAndCheckpointAgree`, `ProgressSurvives`, `CompletedEntriesAreKept`. The
  strengthening says of the file what each step may rely on: entries vouch for
  their outputs (data only behind a success), memory and file differ only in the
  missed writes, every stage of `acked` that was written is in the file, and the
  lists in memory are those of stages done or completed.
* **CommandRunner** (any programs, outputs, inputs, sizes of pipe and buffer, number
  of cancellations):
  `RunnerTypeCorrect`, `NoProcessIsLeftRunning`, `CompletionIsGenuine`. The
  strengthening ties the position of the coroutine to the process (in the body
  nobody has signalled it; past `wait()` it has exited; in a handler it is not
  running), says that a collector is done only at the end of an empty pipe, and what
  its buffer and flag are at any moment (`BufferInv`).
* **FeedUpdate** (any list of sources, payloads, commands, kills):
  `FeedTypeCorrect`, `SourcesAreAsReported`, `ReturnedCacheIsVerified`,
  `RowsAreOfTheEntries`. The strengthening says that the sources still to do are
  distinct and hold what they held or a part of one payload, that the one being
  replaced is torn and holds what is inserted so far, that nothing was deleted of a
  source that is switched off, and that what the aggregate metadata was made from
  has not changed since.
* **PluginRegistry, OSPipeline** (any plugins, hooks, operations, findings,
  handlers): `HandlersAreServed`, `NoHandlerIsStray`, `OSTypeCorrect`,
  `FindingsReachTheReport`. Two inductive invariants: `DispatchInv` accounts for
  every handler of the copy (called, waiting, or of a plugin disabled meanwhile) and
  for the age of every handler registered or waiting, which is younger than the last
  unregistration of its plugin; `ScanInv` says what each list holds, with the history
  of what was made, put in and taken out, and what each pass behind `pc` was given. Every step of the program is shown to be a step of the registry
  (`NextIsRegistryStep`), so the first is proved without looking at the passes.
* **HostScanners** (any stages of the 28, grounds, number of commands that do
  something unusual): `HostTypeCorrect`, `FindingsRestOnAnswers`,
  `SilenceRaisesNoAlarm`, `LossesAreTold`, `FallbackAlwaysServes`. The argument has two
  halves. One goes scanner by scanner, 58 of them: what a scanner finds in the answers
  that came it finds whatever the lost commands would have said (`Silence`), and one
  source with something to say gives records (`OneSourceServes`). The other follows the
  stage: `PlaceInv` says where it is, `ResultsInv` that each command is asked once, in
  order, and that those still to come are unasked, `ResultsInv` also that the text of a lost
  command is empty, but for the five commands whose text is read whatever the exit
  code; `LossInv` that the history knows of every loss a result tells of, and that a
  stage with a missing or timed out command still holds a result that says so, of
  which it warns when it assesses. `FindingsRestOnAnswers` is stronger than what the
  run evaluates: any number of lost commands go on at once, at any moment.
* **Versions** (all versions): `CompareAntisymmetric`. For versions whose upstream
  part and revision begin with a number, or with text that sorts after the digits
  (`Usual`): `CompareTransitive`, `ConstraintIsInterval`, `PatternIsInterval`. A list
  of parts is compared at the first place where the two differ, a missing part
  counting as a zero; the proofs compare those first places for three versions and
  split on what stands there. Two lists that begin alike have numbers and texts at the
  same places; of two that do not, the one led by a number is the lesser.
* **DefaultDatabase, VulnIntel** (any threads, changes of the files, hosts,
  contents; in `VulnIntelProofs`): `ReloadsAreSeen`, `LookupsUseDefaultDatabase` (the
  refinement) and `LookupsSeeReloads`, which follows from the two. The strengthening
  says that the global, and what a thread is about to publish under the lock, are not
  older than the last reset, and what a thread returns not older than the reset it
  began with. `HostInv` says that what a thread reports is what `Run` makes of some
  batches of findings in some version of the contents, `AnalysisInv` that the analysis
  is what the passes make of some findings. What holds of every such value then holds
  of every state:
  * `ReportsAreIntervals`: `RangesAreIntervals` for every host and contents whose
    versions are of the usual forms (`UsualVersions`, which the instance TLC checks
    meets). The hypothesis is needed: on other texts the comparison of the code is no
    order. The proof carries `PatternIsInterval` through inventory, lookup, match,
    deduplication and sorting: a component that is installed and in the interval is
    looked up under the same name, meets the same entry, and is not taken for another
    match.
  * `IntelTypeCorrect`: `IntelTypeOK`. What it needs beyond types is that risks and
    scores are clamped after the sums, products, means and shares that make them, for
    any number of matches. It goes through every pass: enrichment, matches, paths,
    assessments.
  * `ScansOnlyAdd`: `FindingsOnlyAdd`, if findings with one title have the same
    phrases in it and name the same GTFOBins binaries (`Alike(Shown)`: of all findings
    a scan can come to show, those made of matches included; the batches that TLC
    scans meet it), and findings with one id are of one stage, target, title and
    category (`Told(Shown)`, which they meet too): an id says the first three unless it
    is empty, and empty it is only if one of them is. The first half of `Alike` is what a title is; the second is
    needed, because the code takes the binaries from title and evidence, assesses only
    the first finding of a title, and names the assessment after the first binary of
    the first finding of that title that has any: an earlier one with other evidence would change
    the name. The proof shows for each pass that what it drops as a duplicate is
    replaced: components and matches only by one with the same key (`FirstsOfEquals`), a
    finding of a path by one with the same id (`CollectedHolds`), of which enrichment
    therefore says the same (`OneStandsForAnother`), a path by none, because no two rules of the
    table share an identifier (`RulesAreApart`), an assessed finding by one that gives
    the same subject or a match that is assessed itself (`TitleStaysAssessed`). `ScanInv`
    says which batches an analysis is of, which the step from one scan to the next needs.
* **Exploitability** (any path, vulnerability, host; in `VulnIntelProofs`):
  `MeasuresNeverHelpAPath` and `MeasuresNeverHelpAVulnerability`. One more recognised
  countermeasure never raises a score: the part of `ScoresMoveForAReason` that is
  arithmetic of one assessment. Shares, products, rounding to even and clamping are
  each shown to be monotone, and the sum over the matches, a fold, to be an integer.

Sums and flattened lists are chosen functions that follow a recurrence, here as in the
community modules. That one exists is proved in `VulnEngineProofs` (`SummingExists`,
`FlatteningExists`) without a theorem of induction: the lengths for which it fails
would have a least one (`UpFromZero`, from the library's well-founded naturals).

**Model-checked only.** Liveness under fairness (`AcyclicRunsEnd`, `RunsEnd`,
`RunEnds`, `CancellationEnds`, `UpdateEnds`, `ScanEnds`) and anything about ENABLED
are out of the prover's reach. `ScoresMoveForAReason` compares the scores of two
analyses in both directions, down to the average confidence of a path and the contents
of its context; its arithmetic is proved for one assessment (the two theorems above),
the comparison of two hosts TLC alone checks.
## 7. Not modelled

Parsing of tool output, message wording and classification of errors, durations
and time stamps, report layout, argument parsing and configuration: data without
control. The legacy pipeline is a straight line of calls. The AI analyzer is a
prompt and one request. Of knowledge, correlation and exploitability, the texts
(explanations, remedies, references, steps), and the rules that plugins add; of the
aggregation, the grouping and sorting for reports. Of the
plugin registry, the capability lists, the flag shown by `plugin_list`, hooks run
by handlers and discovery are left out. Of vulnerability intelligence, the NVD and
OSV providers with their own cache, which nothing uses, and the database built
from feeds, which only tests ask for. Two update commands at the same time are not
modelled: one command at a time works on the cache. A pattern with a wildcard behind an operator or in a list has no form in `Versions`.
The dependency checker's cache is left out: programs do not
appear or vanish during a run of the models, so a cached answer is the answer.
Of the OS scanners, severities, wording and the JSON file each stage writes.

## 8. Plan

Done, in this order:

1. `DagRun`, `Scheduler`: every scan runs on it. Refinement, invariants, proofs.
2. `Checkpoint`, `WebPipeline`: kill and resume over the real graph, then writes
   that fail. Invariants, proofs.
3. `CommandRunner`: every tool goes through it. Invariants, proofs.
4. `FeedUpdate`: sources, checksum, kills. Invariants, proofs.
5. `PluginRegistry`, `OSPipeline`: hooks that change the registry while it
   dispatches, handlers that raise, the passes around the stages. Proofs.
6. `HostScanners` and the modules of its scanners.
7. `Versions`, `VulnEngine`, `DefaultDatabase`, `VulnIntel`. Proofs.
8. `Findings`, `Knowledge`, `Correlation`, `Exploitability`, `Analysis`: no finding
   that is added hides another, no score moves without a reason. Proofs.

Left:

9. Two concurrent commands in `FeedUpdate`.
10. `DependencyChecker`: the class-level cache under two configurations.

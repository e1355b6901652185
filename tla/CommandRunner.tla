---------------------------- MODULE CommandRunner ----------------------------
(***************************************************************************)
(* One call of AsyncCommandRunner.run of vina/core/runner.py: the external *)
(* process it starts, the two tasks that drain its output, the timeout,    *)
(* and the cancellation that may reach the coroutine at any await.  The    *)
(* steps of the coroutine are the stretches of code between two awaits.    *)
(* process.wait() is asyncio's: it returns once the process has exited,    *)
(* whoever still holds its pipes.  Output is counted in blocks: a pipe     *)
(* holds PipeSize of them and a collector keeps ByteLimit of them.         *)
(***************************************************************************)
EXTENDS Naturals, FiniteSets

Streams == {"stdout", "stderr"}

(* What the external program is like.                                      *)
ToolKind == [found     : BOOLEAN,   \* shutil.which knows the command
             spawns    : BOOLEAN,   \* create_subprocess_exec succeeds
             reads     : BOOLEAN,   \* it reads its standard input
             closes    : BOOLEAN,   \* it may close its standard input unread
             exits     : BOOLEAN,   \* it ends by itself
             forks     : BOOLEAN,   \* it leaves a descendant with its pipes
             writes    : [Streams -> Nat]]  \* its output, and its descendant's

CONSTANTS
  Tools,       \* the programs considered
  Inputs,      \* input_text: "none", "fits" the pipe, or "exceeds" it
  PipeSize,    \* blocks of output that fit a pipe
  ByteLimit,   \* _STREAM_BYTE_LIMIT, in blocks
  MaxCancels   \* bound: cancellations of the calling task

ASSUME CommandRunnerAssumption ==
  /\ Tools \subseteq ToolKind
  /\ Inputs \subseteq {"none", "fits", "exceeds"}
  /\ PipeSize \in Nat \ {0} /\ ByteLimit \in Nat
  /\ MaxCancels \in Nat

VARIABLES
  tool,      \* the program called
  input,     \* the input it is given
  pc,        \* what the coroutine awaits
  proc,      \* "none", "running", "killed" (SIGKILL sent) or "exited"
  code,      \* its exit status, by itself ("own") or by "signal"
  heir,      \* a descendant that holds stdout and stderr: "none" or "alive"
  stdin,     \* "closed", "full" (bytes unread), "drained" or "broken"
  written,   \* blocks written to each stream
  unread,    \* blocks of them that are still in the pipe
  reader,    \* the _collect_stream tasks
  kept,      \* their buffers
  truncated, \* their flags: something did not fit the buffer
  timer,     \* the wait_for of timeout_seconds
  cancels,   \* how often the caller has cancelled
  result     \* the CommandResult

pipeVars == <<written, unread, kept, truncated>>
vars == <<tool, input, pc, proc, code, heir, stdin, pipeVars, reader, timer, cancels,
          result>>

(* Where the coroutine can be: in create_subprocess_exec, or in the clean- *)
(* up of that when it is cancelled; in the body of the try statement; in   *)
(* one of its three handlers; or gone.                                     *)
Spawning == {"spawning", "closing"}
Body    == {"feed", "wait", "stdout", "stderr"}
Handler == {"reap", "late_stdout", "late_stderr", "failing", "cancelling"}
Ended   == {"returned", "raised"}

Nothing == [s \in Streams |-> 0]
Never   == [s \in Streams |-> FALSE]
Result(kind, c, output, cut) ==
  [kind |-> kind, code |-> c, output |-> output, truncated |-> cut]
NoResult == Result("none", "none", Nothing, Never)
NoOutput(kind) == Result(kind, "none", Nothing, Never)

Init ==
  /\ tool \in Tools /\ input \in Inputs
  /\ pc = "start"
  /\ proc = "none" /\ code = "none" /\ heir = "none" /\ stdin = "closed"
  /\ written = Nothing /\ unread = Nothing /\ kept = Nothing /\ truncated = Never
  /\ reader = [s \in Streams |-> "none"]
  /\ timer = "off" /\ cancels = 0
  /\ result = NoResult

-----------------------------------------------------------------------------
(* The program and the operating system.                                   *)
toolVars == <<proc, code, heir, stdin>>
runVars  == <<tool, input, pc, reader, timer, cancels, result>>
ioVars   == <<toolVars, pipeVars>>

AllWritten == \A s \in Streams : written[s] = tool.writes[s]

(* A full pipe blocks whoever writes to it.                                *)
Writes(s) ==
  /\ proc = "running" \/ heir = "alive"
  /\ written[s] < tool.writes[s] /\ unread[s] < PipeSize
  /\ written' = [written EXCEPT ![s] = @ + 1]
  /\ unread' = [unread EXCEPT ![s] = @ + 1]
  /\ UNCHANGED <<kept, truncated, toolVars, runVars>>

(* The worst case: it reads nothing before its output is taken.            *)
ToolReads ==
  /\ proc = "running" /\ tool.reads /\ stdin = "full" /\ AllWritten
  /\ stdin' = "drained"
  /\ UNCHANGED <<proc, code, heir, pipeVars>> /\ UNCHANGED runVars

ToolCloses ==
  /\ proc = "running" /\ tool.closes /\ stdin = "full"
  /\ stdin' = "broken"
  /\ UNCHANGED <<proc, code, heir, pipeVars>> /\ UNCHANGED runVars

ToolForks ==
  /\ proc = "running" /\ tool.forks
  /\ heir' = "alive"
  /\ UNCHANGED <<proc, code, stdin, pipeVars>> /\ UNCHANGED runVars

HeirExits ==
  /\ heir = "alive"
  /\ heir' = "none"
  /\ UNCHANGED <<proc, code, stdin, pipeVars>> /\ UNCHANGED runVars

Gone(c) ==
  /\ proc' = "exited" /\ code' = c
  /\ stdin' = IF stdin = "full" THEN "broken" ELSE stdin
  /\ UNCHANGED <<heir, pipeVars>> /\ UNCHANGED runVars

ToolExits == proc = "running" /\ tool.exits /\ AllWritten /\ Gone("own")
ToolDies  == proc = "killed" /\ Gone("signal")

Environment ==
  \/ \E s \in Streams : Writes(s)
  \/ ToolReads \/ ToolCloses \/ ToolForks \/ HeirExits \/ ToolExits \/ ToolDies

(* End of file: every holder of the write end of the pipes is gone.        *)
PipesClosed == proc = "exited" /\ heir = "none"

(* _collect_stream: a chunk is what the pipe holds, or less; it keeps the  *)
(* first ByteLimit blocks, and drains the rest up to the end of file.      *)
Smaller(m, n) == IF m < n THEN m ELSE n

Chunk(s, n) ==
  /\ reader[s] = "reading" /\ n \in 1 .. unread[s]
  /\ unread' = [unread EXCEPT ![s] = @ - n]

CollectorReadsLate(s, n) ==    \* mutant: reads when the process has exited
  /\ proc = "exited" /\ Chunk(s, n)
  /\ kept' = [kept EXCEPT ![s] = Smaller(@ + n, ByteLimit)]
  /\ truncated' = [truncated EXCEPT ![s] = @ \/ n > ByteLimit - kept[s]]
  /\ UNCHANGED <<written, toolVars, runVars>>

CollectorReadsUntold(s, n) ==    \* mutant: a chunk that fits in part is not told
  /\ Chunk(s, n)
  /\ kept' = [kept EXCEPT ![s] = Smaller(@ + n, ByteLimit)]
  /\ truncated' = [truncated EXCEPT ![s] = @ \/ kept[s] = ByteLimit]
  /\ UNCHANGED <<written, toolVars, runVars>>

CollectorReads(s, n) ==
  /\ Chunk(s, n)
  /\ kept' = [kept EXCEPT ![s] = Smaller(@ + n, ByteLimit)]
  /\ truncated' = [truncated EXCEPT ![s] = @ \/ n > ByteLimit - kept[s]]
  /\ UNCHANGED <<written, toolVars, runVars>>

CollectorEnds(s) ==
  /\ reader[s] = "reading" /\ PipesClosed /\ unread[s] = 0
  /\ reader' = [reader EXCEPT ![s] = "done"]
  /\ UNCHANGED <<tool, input, pc, timer, cancels, result>> /\ UNCHANGED ioVars

Collects(s) == CollectorEnds(s) \/ \E n \in 1 .. PipeSize : CollectorReads(s, n)

TimerExpires ==
  /\ timer = "armed"
  /\ timer' = "expired"
  /\ UNCHANGED <<tool, input, pc, reader, cancels, result>> /\ UNCHANGED ioVars

-----------------------------------------------------------------------------
(* The coroutine.                                                          *)
Return(r) == pc' = "returned" /\ result' = r
Goto(l)   == pc' = l /\ UNCHANGED result

Missing ==
  /\ pc = "start" /\ ~tool.found
  /\ Return(NoOutput("missing_executable"))
  /\ UNCHANGED <<tool, input, reader, timer, cancels>> /\ UNCHANGED ioVars

SpawnFails ==
  /\ pc = "start" /\ tool.found /\ ~tool.spawns
  /\ Return(NoOutput("error"))
  /\ UNCHANGED <<tool, input, reader, timer, cancels>> /\ UNCHANGED ioVars

(* create_subprocess_exec has started the program and awaits its pipes.    *)
Spawn ==
  /\ pc = "start" /\ tool.found /\ tool.spawns
  /\ proc' = "running"
  /\ Goto("spawning")
  /\ UNCHANGED <<tool, input, code, heir, stdin, pipeVars, reader, timer, cancels>>

(* wait_for(process.wait(), timeout_seconds): the only timed await.        *)
Arm == timer' = "armed"

(* The collectors are started, and the input is written.                   *)
Spawned ==
  /\ pc = "spawning"
  /\ reader' = [s \in Streams |-> "reading"]
  /\ stdin' = IF input = "none" THEN "closed"
              ELSE IF proc = "exited" THEN "broken"
              ELSE IF input = "fits" THEN "drained" ELSE "full"
  /\ IF input = "none" THEN Goto("wait") /\ Arm ELSE Goto("feed") /\ UNCHANGED timer
  /\ UNCHANGED <<tool, input, proc, code, heir, pipeVars, cancels>>

(* write, drain, close and wait_closed, which ignores errors.              *)
InputTaken ==
  /\ pc = "feed" /\ stdin \in {"drained", "broken"}
  /\ Goto("wait") /\ Arm
  /\ stdin' = "closed"
  /\ UNCHANGED <<tool, input, proc, code, heir, pipeVars, reader, cancels>>

KillUnchecked == proc' = "killed"    \* mutant: forgets that it may be gone
Kill == proc' = IF proc = "running" THEN "killed" ELSE proc

(* drain raises BrokenPipeError or ConnectionResetError: the last handler. *)
DrainFails ==
  /\ pc = "feed" /\ stdin = "broken"
  /\ Goto("failing") /\ Kill
  /\ UNCHANGED <<tool, input, code, heir, stdin, pipeVars, reader, timer, cancels>>

ProcessExited ==
  /\ pc = "wait" /\ proc = "exited"
  /\ Goto("stdout") /\ timer' = "off"
  /\ UNCHANGED <<tool, input, reader, cancels>> /\ UNCHANGED ioVars

StdoutCollected ==
  /\ pc = "stdout" /\ reader["stdout"] = "done"
  /\ Goto("stderr")
  /\ UNCHANGED <<tool, input, reader, timer, cancels>> /\ UNCHANGED ioVars

Completes ==
  /\ pc = "stderr" /\ reader["stderr"] = "done"
  /\ Return(Result("completed", code, kept, truncated))
  /\ UNCHANGED <<tool, input, reader, timer, cancels>> /\ UNCHANGED ioVars

(* except TimeoutError: kill, wait at most five seconds, collect.          *)
TimesOutNoKill ==    \* mutant
  /\ pc = "wait" /\ timer = "expired"
  /\ Goto("reap")
  /\ UNCHANGED <<tool, input, toolVars, pipeVars, reader, timer, cancels>>

TimesOut ==
  /\ pc = "wait" /\ timer = "expired"
  /\ Goto("reap") /\ Kill
  /\ UNCHANGED <<tool, input, code, heir, stdin, pipeVars, reader, timer, cancels>>

(* The process went away at the same moment: kill raises.                  *)
TimesOutOnNobody ==
  /\ pc = "wait" /\ timer = "expired" /\ PipesClosed
  /\ Return(NoOutput("timed_out"))
  /\ UNCHANGED <<tool, input, reader, timer, cancels>> /\ UNCHANGED ioVars

(* The process is gone, or the five seconds are over.                      *)
Reaped ==
  /\ pc = "reap"
  /\ Goto("late_stdout")
  /\ UNCHANGED <<tool, input, reader, timer, cancels>> /\ UNCHANGED ioVars

LateStdout ==
  /\ pc = "late_stdout" /\ reader["stdout"] = "done"
  /\ Goto("late_stderr")
  /\ UNCHANGED <<tool, input, reader, timer, cancels>> /\ UNCHANGED ioVars

LateStderr ==
  /\ pc = "late_stderr" /\ reader["stderr"] = "done"
  /\ Return(Result("timed_out", "none", kept, truncated))
  /\ UNCHANGED <<tool, input, reader, timer, cancels>> /\ UNCHANGED ioVars

(* The tail the other two handlers share: each collector is cancelled and  *)
(* awaited under suppress(Exception), which lets the CancelledError of a   *)
(* collector that had not ended through.                                   *)
CancelCollectors(r) ==
  \/ /\ \A s \in Streams : reader[s] = "done"
     /\ pc' = IF r = NoResult THEN "raised" ELSE "returned"
     /\ result' = r
     /\ UNCHANGED reader
  \/ /\ reader["stdout"] # "done"
     /\ pc' = "raised" /\ UNCHANGED result
     /\ reader' = [reader EXCEPT !["stdout"] = "cancelled"]
  \/ /\ reader["stdout"] = "done" /\ reader["stderr"] # "done"
     /\ pc' = "raised" /\ UNCHANGED result
     /\ reader' = [reader EXCEPT !["stderr"] = "cancelled"]

Fails ==
  /\ pc = "failing" /\ proc = "exited"
  /\ CancelCollectors(NoOutput("error"))
  /\ UNCHANGED <<tool, input, timer, cancels>> /\ UNCHANGED ioVars

GivesUp ==
  /\ pc = "cancelling" /\ proc = "exited"
  /\ CancelCollectors(NoResult)
  /\ UNCHANGED <<tool, input, timer, cancels>> /\ UNCHANGED ioVars

-----------------------------------------------------------------------------
(* The caller cancels.  In create_subprocess_exec, which only OSError is   *)
(* caught of, asyncio closes the transport (which kills the process),      *)
(* awaits its end and raises; a second cancellation cuts that short.       *)
CancelSpawn ==
  /\ pc = "spawning" /\ cancels < MaxCancels
  /\ cancels' = cancels + 1
  /\ Goto("closing") /\ Kill
  /\ UNCHANGED <<tool, input, code, heir, stdin, pipeVars, reader, timer>>

Closed ==
  /\ pc = "closing" /\ proc = "exited"
  /\ Goto("raised")
  /\ UNCHANGED <<tool, input, reader, timer, cancels>> /\ UNCHANGED ioVars

(* Elsewhere the task that is awaited is cancelled with the coroutine.     *)
Awaited ==
  CASE pc \in {"stdout", "late_stdout"} -> {"stdout"}
    [] pc \in {"stderr", "late_stderr"} -> {"stderr"}
    [] OTHER -> {}

DropAwaited ==
  reader' = [s \in Streams |->
               IF s \in Awaited /\ reader[s] = "reading" THEN "cancelled"
               ELSE reader[s]]

CancelBodyNoKill ==    \* mutant: except CancelledError without process.kill()
  /\ pc \in Body /\ cancels < MaxCancels
  /\ cancels' = cancels + 1
  /\ Goto("cancelling") /\ DropAwaited
  /\ UNCHANGED <<tool, input, toolVars, pipeVars, timer>>

CancelBody ==
  /\ pc \in Body /\ cancels < MaxCancels
  /\ cancels' = cancels + 1
  /\ Goto("cancelling") /\ Kill /\ DropAwaited
  /\ UNCHANGED <<tool, input, code, heir, stdin, pipeVars, timer>>

(* A cancellation during a handler leaves it at once.                      *)
CancelHandler ==
  /\ pc \in Handler \cup {"closing"} /\ cancels < MaxCancels
  /\ cancels' = cancels + 1
  /\ Goto("raised") /\ DropAwaited
  /\ UNCHANGED <<tool, input, timer>> /\ UNCHANGED ioVars

Coroutine ==
  \/ Missing \/ SpawnFails \/ Spawn \/ Spawned \/ Closed
  \/ InputTaken \/ DrainFails \/ ProcessExited \/ StdoutCollected \/ Completes
  \/ TimesOut \/ TimesOutOnNobody \/ Reaped \/ LateStdout \/ LateStderr
  \/ Fails \/ GivesUp

Next ==
  \/ Environment
  \/ \E s \in Streams : Collects(s)
  \/ TimerExpires
  \/ Coroutine
  \/ CancelSpawn \/ CancelBody \/ CancelHandler

Spec == Init /\ [][Next]_vars

(* The event loop runs what is ready; time passes; the kernel delivers     *)
(* SIGKILL; a tool that writes, reads its input or ends by itself does so  *)
(* in time, unless it waits for its output to be taken.                    *)
Fairness ==
  /\ WF_vars(Coroutine)
  /\ WF_vars(TimerExpires)
  /\ \A s \in Streams : WF_vars(Collects(s)) /\ WF_vars(Writes(s))
  /\ WF_vars(ToolReads) /\ WF_vars(ToolExits) /\ WF_vars(ToolDies)

FairSpec == Spec /\ Fairness

-----------------------------------------------------------------------------
RunnerTypeOK ==
  /\ tool \in Tools /\ input \in Inputs
  /\ pc \in {"start"} \cup Spawning \cup Body \cup Handler \cup Ended
  /\ proc \in {"none", "running", "killed", "exited"}
  /\ code \in {"none", "own", "signal"}
  /\ proc = "exited" <=> code # "none"
  /\ heir \in {"none", "alive"}
  /\ stdin \in {"closed", "full", "drained", "broken"}
  /\ written \in [Streams -> Nat] /\ unread \in [Streams -> 0 .. PipeSize]
  /\ kept \in [Streams -> 0 .. ByteLimit] /\ truncated \in [Streams -> BOOLEAN]
  /\ reader \in [Streams -> {"none", "reading", "done", "cancelled"}]
  /\ timer \in {"off", "armed", "expired"}
  /\ cancels \in 0 .. MaxCancels
  /\ result \in [kind : {"none", "missing_executable", "error", "completed", "timed_out"},
                 code : {"none", "own", "signal"},
                 output : [Streams -> 0 .. ByteLimit], truncated : [Streams -> BOOLEAN]]

(* However the call ends, by a result, a timeout, an error or any number   *)
(* of cancellations, the process has exited or SIGKILL is on its way.      *)
NoProcessLeftRunning == pc \in Ended => proc # "running"

(* A result that claims an exit status is the report of a process that     *)
(* ended by itself, read until nobody could write to it any more: of what  *)
(* it and its descendants wrote it holds the first ByteLimit blocks, in    *)
(* whatever chunks they came, and says so exactly when that is not all.  A *)
(* result without an exit status never claims one.                         *)
CompletedIsGenuine ==
  /\ result.kind = "completed" =>
       /\ result.code = "own" /\ code = "own"
       /\ PipesClosed
       /\ \A s \in Streams :
            /\ result.output[s] = Smaller(written[s], ByteLimit)
            /\ result.truncated[s] <=> written[s] > ByteLimit
  /\ result.kind \in {"timed_out", "error"} => result.code = "none"

(* A program that reads what it is sent, if only after writing more than   *)
(* its pipes hold, and leaves no descendant behind costs its caller at     *)
(* most the timeout, even if it never ends.                                *)
WellBehaved == ~tool.forks /\ (tool.reads \/ input # "exceeds")
RunEnds == (pc # "start" /\ WellBehaved) ~> (pc \in Ended)

(* Whatever the program, a cancellation ends the call.                     *)
CancellationEnds == (cancels > 0) ~> (pc \in Ended)

-----------------------------------------------------------------------------
(* Statements of the documentation that the code does not keep.            *)

(* "Wall-clock timeout for the entire invocation; when exceeded the        *)
(* process will be terminated" (runner.py:192).                            *)
TimeoutCoversInvocation == (proc = "running") ~> (pc \in Ended)

(* "Returns CommandResult" (runner.py:204): the only other way out is the  *)
(* caller's own cancellation.                                              *)
RaisesOnlyIfCancelled == pc = "raised" => cancels > 0
=============================================================================

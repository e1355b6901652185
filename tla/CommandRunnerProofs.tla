------------------------- MODULE CommandRunnerProofs -------------------------
(* Safety of AsyncCommandRunner.run, for every set of programs and inputs  *)
(* and any number of cancellations.                                        *)
EXTENDS CommandRunner, TLAPS

(* What the position of the coroutine says of the process: before the      *)
(* spawn there is none; in the body nobody has signalled it; past the body *)
(* or past wait(), or when asyncio cleans up, it is not running.           *)
ProcessFollowsPc ==
  /\ pc = "start" => proc = "none" /\ cancels = 0
  /\ pc \in Body \cup {"spawning"} => proc \in {"running", "exited"} /\ code # "signal"
  /\ pc \in {"stdout", "stderr"} => proc = "exited"
  /\ pc \in {"closing", "failing", "cancelling", "reap", "late_stdout", "late_stderr"}
           \cup Ended => proc # "running"

(* A collector ends at the end of file only, and there is no way back.     *)
CollectorsSeeTheEnd ==
  /\ heir = "alive" => proc # "none"
  /\ \A s \in Streams : reader[s] = "done" => PipesClosed /\ unread[s] = 0
  /\ pc = "stderr" => reader["stdout"] = "done"

(* A buffer holds the beginning of what was taken from the pipe.           *)
BufferInv ==
  \A s \in Streams :
    /\ unread[s] <= written[s]
    /\ kept[s] = Smaller(written[s] - unread[s], ByteLimit)
    /\ truncated[s] <=> written[s] - unread[s] > ByteLimit

IInv == /\ RunnerTypeOK /\ ProcessFollowsPc /\ CollectorsSeeTheEnd /\ BufferInv
        /\ NoProcessLeftRunning /\ CompletedIsGenuine
        /\ pc \notin Ended => result = NoResult

USE DEF Streams, Spawning, Body, Handler, Ended, toolVars, pipeVars, runVars, ioVars

LEMMA Results ==
  /\ Nothing \in [Streams -> 0 .. ByteLimit] /\ Nothing \in [Streams -> 0 .. PipeSize]
  /\ Never \in [Streams -> BOOLEAN]
  /\ NoResult.kind = "none"
  /\ \A kind, c, output, cut :
       Result(kind, c, output, cut) =
         [kind |-> kind, code |-> c, output |-> output, truncated |-> cut]
  /\ \A kind : NoOutput(kind) = Result(kind, "none", Nothing, Never)
  /\ NoResult = Result("none", "none", Nothing, Never)
  BY CommandRunnerAssumption DEF Nothing, Never, NoResult, NoOutput, Result

LEMMA Initially == Init => IInv
<1> SUFFICES ASSUME Init PROVE IInv
  OBVIOUS
<1> USE CommandRunnerAssumption, Results
<1>1. RunnerTypeOK
  BY DEF Init, RunnerTypeOK
<1>2. ProcessFollowsPc /\ CollectorsSeeTheEnd
  BY DEF Init, ProcessFollowsPc, CollectorsSeeTheEnd
<1>3. NoProcessLeftRunning /\ CompletedIsGenuine
  BY DEF Init, NoProcessLeftRunning, CompletedIsGenuine
<1>4. BufferInv
  BY DEF Init, BufferInv, Smaller, Nothing, Never
<1> QED
  BY <1>1, <1>2, <1>3, <1>4 DEF Init, IInv

-----------------------------------------------------------------------------
(* A step at the pipes moves nothing else; once they are closed nobody     *)
(* writes, and a collector that is done has nothing left to read.          *)
LEMMA Flowing ==
  ASSUME IInv, NEW s \in Streams,
         UNCHANGED <<tool, input, pc, proc, code, heir, stdin, reader, timer, cancels,
                     result>>,
         written' \in [Streams -> Nat], unread' \in [Streams -> 0 .. PipeSize],
         kept' \in [Streams -> 0 .. ByteLimit], truncated' \in [Streams -> BOOLEAN],
         PipesClosed => written' = written,
         reader[s] # "done",
         \A x \in Streams \ {s} : unread'[x] = unread[x],
         BufferInv'
  PROVE  IInv'
<1>1. RunnerTypeOK'
  BY DEF IInv, RunnerTypeOK
<1>2. ProcessFollowsPc' /\ NoProcessLeftRunning'
  BY DEF IInv, ProcessFollowsPc, NoProcessLeftRunning
<1>3. CollectorsSeeTheEnd'
  BY DEF IInv, CollectorsSeeTheEnd, PipesClosed
<1>4. CompletedIsGenuine'
  BY DEF IInv, CompletedIsGenuine, PipesClosed
<1> QED
  BY <1>1, <1>2, <1>3, <1>4 DEF IInv, NoResult, Result, Nothing, Never

LEMMA Writing ==
  ASSUME IInv, NEW s \in Streams, Writes(s)
  PROVE  IInv'
<1> USE CommandRunnerAssumption
<1>1. /\ written \in [Streams -> Nat] /\ unread \in [Streams -> 0 .. PipeSize]
      /\ kept \in [Streams -> 0 .. ByteLimit] /\ truncated \in [Streams -> BOOLEAN]
      /\ unread[s] < PipeSize
  BY DEF IInv, RunnerTypeOK, Writes
<1>2. /\ written' \in [Streams -> Nat] /\ unread' \in [Streams -> 0 .. PipeSize]
      /\ written'[s] = written[s] + 1 /\ unread'[s] = unread[s] + 1
      /\ \A x \in Streams \ {s} : written'[x] = written[x] /\ unread'[x] = unread[x]
      /\ kept' = kept /\ truncated' = truncated
  BY <1>1 DEF Writes
<1>3. BufferInv'
  BY <1>1, <1>2 DEF IInv, BufferInv, Smaller
<1>4. ~PipesClosed /\ reader[s] # "done"
  BY DEF IInv, RunnerTypeOK, CollectorsSeeTheEnd, PipesClosed, Writes
<1> QED
  BY <1>1, <1>2, <1>3, <1>4, Flowing DEF Writes

LEMMA Reading ==
  ASSUME IInv, NEW s \in Streams, NEW n \in 1 .. PipeSize, CollectorReads(s, n)
  PROVE  IInv'
<1> USE CommandRunnerAssumption
<1>1. /\ written \in [Streams -> Nat] /\ unread \in [Streams -> 0 .. PipeSize]
      /\ kept \in [Streams -> 0 .. ByteLimit] /\ truncated \in [Streams -> BOOLEAN]
      /\ n \in 1 .. unread[s] /\ reader[s] = "reading"
  BY DEF IInv, RunnerTypeOK, CollectorReads, Chunk
<1>2. /\ unread' \in [Streams -> 0 .. PipeSize]
      /\ written' = written /\ unread'[s] = unread[s] - n
      /\ \A x \in Streams \ {s} :
           unread'[x] = unread[x] /\ kept'[x] = kept[x] /\ truncated'[x] = truncated[x]
      /\ kept' \in [Streams -> 0 .. ByteLimit] /\ truncated' \in [Streams -> BOOLEAN]
      /\ kept'[s] = Smaller(kept[s] + n, ByteLimit)
      /\ truncated'[s] = (truncated[s] \/ n > ByteLimit - kept[s])
  BY <1>1 DEF CollectorReads, Chunk, Smaller
<1>3. BufferInv'
  BY <1>1, <1>2 DEF IInv, BufferInv, Smaller
<1> QED
  BY <1>1, <1>2, <1>3, Flowing DEF CollectorReads

(* Every other step leaves what was written and read alone.                *)
LEMMA Preserved == IInv /\ [Next]_vars => IInv'
<1> SUFFICES ASSUME IInv, [Next]_vars PROVE IInv'
  OBVIOUS
<1> DEFINE Pipes == UNCHANGED <<written, unread, kept, truncated>>
<1>0. ASSUME NEW s \in Streams, Writes(s) \/ \E n \in 1 .. PipeSize : CollectorReads(s, n)
      PROVE  IInv'
  BY <1>0, Writing, Reading
<1>a. Pipes => BufferInv'
  BY DEF IInv, BufferInv
<1> USE CommandRunnerAssumption, Results
    DEF IInv, RunnerTypeOK, ProcessFollowsPc, CollectorsSeeTheEnd,
        NoProcessLeftRunning, CompletedIsGenuine, PipesClosed
<1>1. CASE ToolReads \/ ToolCloses \/ ToolForks \/ HeirExits \/ ToolExits \/ ToolDies
  <2>1. CASE ToolReads \/ ToolCloses
    BY <1>a, <2>1 DEF ToolReads, ToolCloses
  <2>2. CASE ToolForks
    BY <1>a, <2>2 DEF ToolForks
  <2>3. CASE HeirExits
    BY <1>a, <2>3 DEF HeirExits
  <2>4. CASE ToolExits \/ ToolDies
    BY <1>a, <2>4 DEF ToolExits, ToolDies, Gone
  <2> QED
    BY <1>1, <2>1, <2>2, <2>3, <2>4
<1>2. ASSUME NEW s \in Streams, CollectorEnds(s) PROVE IInv'
  BY <1>a, <1>2 DEF CollectorEnds
<1>3. CASE TimerExpires
  BY <1>a, <1>3 DEF TimerExpires
<1>4. CASE Missing \/ SpawnFails
  BY <1>a, <1>4 DEF Missing, SpawnFails, Return
<1>5. CASE Spawn \/ Spawned \/ Closed
  BY <1>a, <1>5 DEF Spawn, Spawned, Closed, Goto, Arm
<1>6. CASE InputTaken \/ DrainFails
  BY <1>a, <1>6 DEF InputTaken, DrainFails, Goto, Arm, Kill
<1>7. CASE ProcessExited \/ StdoutCollected
  BY <1>a, <1>7 DEF ProcessExited, StdoutCollected, Goto
<1>8. CASE Completes
  BY <1>a, <1>8 DEF Completes, Return, BufferInv
<1>9. CASE TimesOut \/ Reaped \/ LateStdout
  BY <1>a, <1>9 DEF TimesOut, Reaped, LateStdout, Goto, Kill
<1>10. CASE TimesOutOnNobody \/ LateStderr
  BY <1>a, <1>10 DEF TimesOutOnNobody, LateStderr, Return
<1>11. CASE Fails \/ GivesUp
  BY <1>a, <1>11 DEF Fails, GivesUp, CancelCollectors
<1>12. CASE CancelSpawn
  BY <1>a, <1>12 DEF CancelSpawn, Goto, Kill
<1>13. CASE CancelBody
  BY <1>a, <1>13 DEF CancelBody, Goto, Kill, DropAwaited, Awaited
<1>14. CASE CancelHandler
  BY <1>a, <1>14 DEF CancelHandler, Goto, DropAwaited, Awaited
<1>15. CASE UNCHANGED vars
  BY <1>a, <1>15 DEF vars
<1> QED
  BY <1>0, <1>1, <1>2, <1>3, <1>4, <1>5, <1>6, <1>7, <1>8, <1>9, <1>10, <1>11,
     <1>12, <1>13, <1>14, <1>15 DEF Next, Coroutine, Environment, Collects

LEMMA Invariance == Spec => []IInv
  BY Initially, Preserved, PTL DEF Spec

(* The state of a call keeps its types: in particular an exit status is    *)
(* known exactly when the process has exited.                              *)
THEOREM RunnerTypeCorrect == Spec => []RunnerTypeOK
<1>1. IInv => RunnerTypeOK
  BY DEF IInv
<1> QED
  BY <1>1, Invariance, PTL

(* "ensure processes are terminated": whichever way the call ends, after   *)
(* any number of cancellations in any place, no process is left running.   *)
THEOREM NoProcessIsLeftRunning == Spec => []NoProcessLeftRunning
<1>1. IInv => NoProcessLeftRunning
  BY DEF IInv
<1> QED
  BY <1>1, Invariance, PTL

(* A result with an exit status is that of a process that ended by itself, *)
(* with the beginning of all its output, and says when that is not all.    *)
THEOREM CompletionIsGenuine == Spec => []CompletedIsGenuine
<1>1. IInv => CompletedIsGenuine
  BY DEF IInv
<1> QED
  BY <1>1, Invariance, PTL
=============================================================================

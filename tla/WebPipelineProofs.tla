------------------------- MODULE WebPipelineProofs -------------------------
(***************************************************************************)
(* Theorems on WebPipeline and the checkpoint under it: for any behaviour   *)
(* of the tools, any installations, sequence of launches, number of         *)
(* retries, kills and writes that fail.                                     *)
(***************************************************************************)
EXTENDS WebPipeline, TLAPS

Ok == {"success", "empty", "skipped"}

(* The stages a file shows as completed to whoever loads it.                *)
OkInFile == {s \in Stage : disk.kind = "file" /\ disk.entries[s].status \in Ok}

FileInv ==
  /\ disk.kind # "file" => disk.entries = Blank
  /\ phase # "down" /\ unsaved = {} => disk.entries = entries

(* An entry has data exactly if its stage succeeded.                        *)
VouchedFor(e) == \A l \in ListStage : e[l].outputs = "data" <=> e[l].status = "success"

(* The shared lists hold data of a stage that this run has reported as a    *)
(* success, or will when it restores it.                                    *)
SharedInv ==
  \A l \in ListStage :
    shared[l] = "data" <=>
      IF st[l] = "done" THEN status[l] = "success"
      ELSE l \in completed /\ entries[l].status = "success"

(* A tool runs on a list whose stage is done and was a success.             *)
InputInv ==
  \A s \in DOMAIN Source :
    st[s] \in {"running", "backoff"} =>
      st[Source[s]] = "done" /\ status[Source[s]] = "success"

RestInv ==
  \A s \in completed :
    /\ st[s] \in {"idle", "done"}
    /\ entries[s].status \in Ok
    /\ st[s] = "done" => status[s] = entries[s].status

(* A stage that is done was recorded with its status, or its last attempt   *)
(* raised and it is reported as failed.                                     *)
AgreeInv ==
  /\ \A s \in Stage \ raised : st[s] = "done" => status[s] = entries[s].status
  /\ \A s \in raised : st[s] = "done" /\ status[s] = "failed"

ReturnedInv == phase = "returned" => \A s \in Stage : st[s] = "done"

(* What ended well is in the file, or in memory and in the next write.      *)
AckInv ==
  /\ acked \subseteq {s \in Stage : entries[s].status \in Ok} \/ phase # "up"
  /\ acked \ unsaved \subseteq OkInFile
  /\ phase # "up" => acked \subseteq OkInFile

IInv ==
  /\ WebTypeOK /\ FileInv /\ VouchedFor(entries) /\ VouchedFor(disk.entries)
  /\ SharedInv /\ InputInv /\ RestInv /\ AgreeInv /\ ReturnedInv /\ AckInv
  /\ ResumeKeepsProgress

-----------------------------------------------------------------------------
LEMMA Graph ==
  /\ ListStage \subseteq Stage /\ ToolStage \subseteq Stage
  /\ DOMAIN Source \subseteq Stage
  /\ "url_aggregator" \in Stage \ (ListStage \cup ToolStage \cup DOMAIN Source)
  /\ "clear" \notin Stage
  /\ STAGE_DEPS \in [Stage -> SUBSET Stage]
  /\ \A s \in DOMAIN Source :
       Source[s] \in ListStage /\ Source[s] \in STAGE_DEPS[s] /\ Source[s] # s
  BY DEF ListStage, ToolStage, Source, Stage, STAGE_DEPS

LEMMA BlankFacts ==
  /\ Blank \in [Stage -> Entry]
  /\ \A s \in Stage : Blank[s].status = "none" /\ Blank[s].outputs = "absent"
  /\ VouchedFor(Blank)
<1> USE WebPipelineAssumption
<1>1. NoEntry \in Entry /\ NoEntry.status = "none" /\ NoEntry.outputs = "absent"
  BY DEF NoEntry, Entry, Status, Value
<1>2. Blank = [s \in Stage |-> NoEntry]
  BY DEF Blank
<1> QED
  BY <1>1, <1>2, Graph DEF VouchedFor

(* What _load gives a new process.                                          *)
LEMMA LoadedFacts ==
  ASSUME WebTypeOK, FileInv, VouchedFor(disk.entries)
  PROVE  /\ Loaded = disk.entries
         /\ Loaded \in [Stage -> Entry]
         /\ VouchedFor(Loaded)
<1> USE WebPipelineAssumption
<1>1. Loaded = disk.entries
  BY DEF Loaded, FileInv
<1>2. disk.entries \in [Stage -> Entry]
  BY DEF WebTypeOK, CheckpointTypeOK
<1> QED
  BY <1>1, <1>2

(* record_stage, whatever becomes of the write.                             *)
LEMMA Recording ==
  ASSUME WebTypeOK, FileInv, VouchedFor(entries), VouchedFor(disk.entries), AckInv,
         phase = "up", NEW s \in Stage,
         NEW result \in Status, NEW lists \in [ListStage -> Value],
         s \in ListStage => (lists[s] = "data" <=> result = "success"),
         Recorded(s, result, lists)
  PROVE  /\ entries' \in [Stage -> Entry]
         /\ \A x \in Stage \ {s} : entries'[x] = entries[x]
         /\ entries'[s].status = result
         /\ CheckpointTypeOK' /\ acked' \in SUBSET Stage
         /\ VouchedFor(entries') /\ VouchedFor(disk'.entries)
         /\ disk'.kind # "file" => disk'.entries = Blank
         /\ unsaved' = {} => disk'.entries = entries'
         /\ acked' \subseteq {x \in Stage : entries'[x].status \in Ok}
         /\ acked' \ unsaved' \subseteq OkInFile'
<1> USE WebPipelineAssumption, Graph
<1> DEFINE out == IF s \notin ListStage THEN "absent"
                  ELSE IF lists[s] = "data" THEN "data" ELSE "empty"
           new == [status |-> result, outputs |-> out]
<1>1. /\ entries \in [Stage -> Entry] /\ disk.entries \in [Stage -> Entry]
      /\ disk.kind \in {"missing", "torn", "file"}
      /\ disk = [kind |-> disk.kind, entries |-> disk.entries]
      /\ unsaved \in SUBSET Steps /\ acked \in SUBSET Stage
  BY DEF WebTypeOK, CheckpointTypeOK
<1>2. out \in Value /\ (s \in ListStage => (out = "data" <=> result = "success"))
  BY DEF Value
<1>3. new \in Entry /\ new.status = result /\ new.outputs = out
  BY <1>2 DEF Entry
<1>4. entries' = [entries EXCEPT ![s] = new]
  BY DEF Recorded, RecordStage, Updated
<1>5. /\ entries' \in [Stage -> Entry] /\ entries'[s] = new
      /\ \A x \in Stage \ {s} : entries'[x] = entries[x]
  BY <1>1, <1>3, <1>4
<1>6. VouchedFor(entries')
  BY <1>2, <1>3, <1>5 DEF VouchedFor
<1>7. acked' = IF result \in Ok THEN acked \cup {s} ELSE acked \ {s}
  BY DEF Recorded, Ok
<1>8. /\ acked' \in SUBSET Stage
      /\ acked' \subseteq {x \in Stage : entries'[x].status \in Ok}
  BY <1>1, <1>3, <1>5, <1>7 DEF AckInv
<1>9. Save(s, entries')
  BY DEF Recorded, RecordStage
<1>10. CASE disk' = Saved(entries') /\ unsaved' = {}
  <2>1. disk'.kind = "file" /\ disk'.entries = entries'
    BY <1>10 DEF Saved
  <2>2. CheckpointTypeOK'
    BY <1>5, <1>10 DEF CheckpointTypeOK, Saved
  <2>3. acked' \ unsaved' \subseteq OkInFile'
    BY <1>8, <2>1 DEF OkInFile
  <2> QED
    BY <1>3, <1>5, <1>6, <1>8, <1>10, <2>1, <2>2, <2>3
<1>11. CASE disk' = disk /\ unsaved' = unsaved \cup {s}
  <2>1. CheckpointTypeOK'
    BY <1>1, <1>5, <1>11 DEF CheckpointTypeOK, Steps
  <2>2. acked' \ unsaved' \subseteq OkInFile'
    BY <1>7, <1>11 DEF AckInv, OkInFile
  <2> QED
    BY <1>3, <1>5, <1>6, <1>8, <1>11, <2>1, <2>2 DEF FileInv
<1>12. CASE disk' = Torn /\ unsaved' = Steps
  <2>1. disk'.kind = "torn" /\ disk'.entries = Blank
    BY <1>12 DEF Torn
  <2>2. CheckpointTypeOK'
    BY <1>5, <1>12, BlankFacts DEF CheckpointTypeOK, Torn
  <2>3. acked' \ unsaved' \subseteq OkInFile'
    BY <1>8, <1>12 DEF Steps
  <2> QED
    BY <1>3, <1>5, <1>6, <1>8, <1>12, <2>1, <2>2, <2>3, BlankFacts DEF Steps
<1> QED
  BY <1>9, <1>10, <1>11, <1>12 DEF Save

-----------------------------------------------------------------------------
(* Initial state, launches and the ends of a process.                       *)

LEMMA Initially == Init => IInv
<1> SUFFICES ASSUME Init PROVE IInv
  OBVIOUS
<1> USE WebPipelineAssumption, Graph, BlankFacts
<1>1. Missing.kind = "missing" /\ Missing.entries = Blank
  BY DEF Missing
<1>2. WebTypeOK
  <2>1. CheckpointTypeOK
    BY <1>1 DEF Init, CheckpointTypeOK, Missing, Steps
  <2> QED
    BY <2>1 DEF Init, WebTypeOK, Mode, Status, Value
<1>3. OkInFile = {} /\ FileInv /\ VouchedFor(entries) /\ VouchedFor(disk.entries)
  BY <1>1 DEF Init, FileInv, OkInFile
<1>4. SharedInv /\ InputInv /\ RestInv /\ AgreeInv /\ ReturnedInv
  BY DEF Init, SharedInv, InputInv, RestInv, AgreeInv, ReturnedInv
<1>5. AckInv /\ ResumeKeepsProgress
  BY DEF Init, AckInv, ResumeKeepsProgress
<1> QED
  BY <1>2, <1>3, <1>4, <1>5 DEF IInv

LEMMA Launching ==
  ASSUME IInv, NEW m \in Mode, NEW tools \in Installations, Launch(m, tools)
  PROVE  IInv'
<1> USE WebPipelineAssumption, Graph, BlankFacts
<1>1. WebTypeOK /\ FileInv /\ VouchedFor(disk.entries) /\ AckInv /\ phase # "up"
  BY DEF IInv, Launch
<1>2. /\ Loaded = disk.entries /\ Loaded \in [Stage -> Entry] /\ VouchedFor(Loaded)
  BY <1>1, LoadedFacts
<1>3. /\ phase' = "up" /\ launches' \in 0 .. Len(Launches) /\ mode' = m
      /\ installed' = tools
      /\ st' = [s \in Stage |-> "idle"] /\ attempt' = [s \in Stage |-> 0]
      /\ status' = [s \in Stage |-> "none"] /\ object' = [s \in Stage |-> "absent"]
      /\ raised' = {}
  BY <1>1 DEF Launch, NothingDone, WebTypeOK
<1>4. /\ CheckpointTypeOK' /\ VouchedFor(entries') /\ VouchedFor(disk'.entries)
      /\ disk'.kind # "file" => disk'.entries = Blank
      /\ unsaved' = {} => disk'.entries = entries'
  <2>1. CheckpointTypeOK /\ disk.kind \in {"missing", "torn", "file"}
    BY <1>1 DEF WebTypeOK, CheckpointTypeOK
  <2>2. CASE m # "force"
    BY <1>1, <1>2, <2>1, <2>2 DEF Launch, FileInv, CheckpointTypeOK
  <2>3. CASE m = "force"
    <3>1. entries' = Blank /\ Save("clear", Blank)
      BY <2>3 DEF Launch
    <3>2. CASE disk' = Saved(Blank) /\ unsaved' = {}
      BY <3>1, <3>2 DEF Saved, CheckpointTypeOK
    <3>3. CASE disk' = disk /\ unsaved' = unsaved \cup {"clear"}
      BY <1>1, <2>1, <3>1, <3>3 DEF CheckpointTypeOK, Steps, FileInv
    <3>4. CASE disk' = Torn /\ unsaved' = Steps
      BY <3>1, <3>4 DEF Torn, CheckpointTypeOK, Steps
    <3> QED
      BY <3>1, <3>2, <3>3, <3>4 DEF Save
  <2> QED
    BY <2>2, <2>3
<1>5. /\ completed' \in SUBSET Stage
      /\ \A s \in completed' : entries'[s].status \in Ok
      /\ shared' \in [ListStage -> Value]
      /\ \A l \in ListStage :
           shared'[l] = "data" <=> l \in completed' /\ entries'[l].status = "success"
  <2>1. CASE m = "resume" /\ Exists
    <3>1. /\ entries' = Loaded /\ shared' = [l \in ListStage |-> Loaded[l].outputs]
          /\ completed' = {s \in Stage : Loaded[s].status \in Ok}
      BY <2>1 DEF Launch, SuccessfullyCompleted, OkStatus, Ok
    <3>2. \A l \in ListStage : Loaded[l].outputs \in Value
      BY <1>2 DEF Entry
    <3> QED
      BY <1>2, <3>1, <3>2 DEF VouchedFor, Ok
  <2>2. CASE ~(m = "resume" /\ Exists)
    BY <2>2 DEF Launch, Value
  <2> QED
    BY <2>1, <2>2
<1>6. AckInv' /\ acked' \in SUBSET Stage
  <2>1. acked \subseteq OkInFile
    BY <1>1 DEF AckInv
  <2>2. CASE m # "force"
    <3>1. entries' = disk.entries /\ disk' = disk /\ acked' = acked
      BY <1>2, <2>2 DEF Launch
    <3> QED
      BY <1>3, <2>1, <3>1 DEF AckInv, OkInFile
  <2>3. CASE m = "force"
    BY <1>3, <2>3 DEF Launch, AckInv
  <2> QED
    BY <2>2, <2>3
<1>7. ResumeKeepsProgress'
  <2> SUFFICES ASSUME m = "resume" PROVE acked' \subseteq completed'
    BY <1>3 DEF ResumeKeepsProgress
  <2>1. acked' = acked /\ acked \subseteq OkInFile
    BY <1>1 DEF AckInv, Launch
  <2>2. CASE Exists
    <3>1. completed' = {s \in Stage : Loaded[s].status \in Ok}
      BY <2>2 DEF Launch, SuccessfullyCompleted, OkStatus, Ok
    <3> QED
      BY <1>2, <2>1, <3>1 DEF OkInFile
  <2>3. CASE ~Exists
    BY <2>1, <2>3 DEF Exists, OkInFile
  <2> QED
    BY <2>2, <2>3
<1>8. WebTypeOK'
  <2>1. installed' \in SUBSET ToolStage
    BY <1>3
  <2> QED
    BY <1>3, <1>4, <1>5, <1>6, <2>1 DEF WebTypeOK, Status, Value
<1>9. FileInv' /\ SharedInv' /\ InputInv' /\ RestInv' /\ AgreeInv' /\ ReturnedInv'
  BY <1>3, <1>4, <1>5 DEF FileInv, SharedInv, InputInv, RestInv, AgreeInv, ReturnedInv
<1> QED
  BY <1>4, <1>6, <1>7, <1>8, <1>9 DEF IInv

(* The process returns.                                                     *)
LEMMA Returning ==
  ASSUME IInv, Return
  PROVE  IInv'
<1>1. WebTypeOK /\ CheckpointTypeOK
  BY DEF IInv, WebTypeOK
<1>2. /\ phase = "up" /\ phase' = "returned" /\ acked' = acked \ unsaved
      /\ UNCHANGED <<launches, mode, installed, completed, st, attempt, status,
                     shared, object, entries, disk, unsaved, raised>>
  BY DEF Return, cpVars
<1>3. WebTypeOK'
  BY <1>1, <1>2 DEF WebTypeOK, CheckpointTypeOK
<1>4. FileInv' /\ AckInv' /\ ResumeKeepsProgress'
  BY <1>2 DEF IInv, FileInv, AckInv, OkInFile, ResumeKeepsProgress
<1>5. SharedInv' /\ InputInv' /\ RestInv' /\ AgreeInv' /\ ReturnedInv'
  BY <1>2 DEF IInv, SharedInv, InputInv, RestInv, AgreeInv, ReturnedInv, Return
<1> QED
  BY <1>2, <1>3, <1>4, <1>5 DEF IInv, VouchedFor

(* The process is killed: the file is as it was, or torn.                   *)
LEMMA Dying ==
  ASSUME IInv, Killed, launches' \in 0 .. Len(Launches),
         \/ phase = "up" /\ disk' = disk /\ acked' = acked \ unsaved
         \/ disk' = Torn /\ acked' = {}
  PROVE  IInv'
<1> USE WebPipelineAssumption, Graph, BlankFacts
<1>1. /\ WebTypeOK /\ CheckpointTypeOK
      /\ disk \in [kind : {"missing", "torn", "file"}, entries : [Stage -> Entry]]
  BY DEF IInv, WebTypeOK, CheckpointTypeOK
<1>2. /\ phase' = "down" /\ entries' = Blank /\ completed' = {} /\ raised' = {}
      /\ st' = [s \in Stage |-> "idle"] /\ attempt' = [s \in Stage |-> 0]
      /\ status' = [s \in Stage |-> "none"] /\ object' = [s \in Stage |-> "absent"]
      /\ shared' = [l \in ListStage |-> "absent"]
      /\ UNCHANGED <<mode, installed, unsaved>>
  BY DEF Killed, NothingDone
<1>3. Torn.kind = "torn" /\ Torn.entries = Blank
  BY DEF Torn
<1>4. /\ disk' \in [kind : {"missing", "torn", "file"}, entries : [Stage -> Entry]]
      /\ acked' \in SUBSET Stage
      /\ VouchedFor(disk'.entries)
      /\ disk'.kind # "file" => disk'.entries = Blank
  BY <1>1, <1>3 DEF Torn, WebTypeOK, IInv, FileInv
<1>5. CheckpointTypeOK'
  BY <1>1, <1>2, <1>4 DEF CheckpointTypeOK
<1>6. WebTypeOK'
  BY <1>1, <1>2, <1>4, <1>5 DEF WebTypeOK, Status, Value
<1>7. FileInv' /\ AckInv' /\ ResumeKeepsProgress'
  BY <1>2, <1>4 DEF IInv, FileInv, AckInv, OkInFile, ResumeKeepsProgress
<1>8. SharedInv' /\ InputInv' /\ RestInv' /\ AgreeInv' /\ ReturnedInv'
  BY <1>2 DEF SharedInv, InputInv, RestInv, AgreeInv, ReturnedInv
<1> QED
  BY <1>2, <1>4, <1>6, <1>7, <1>8 DEF IInv

Kill == Crash \/ CrashWhileSaving \/ CrashWhileClearing

LEMMA Killing ==
  ASSUME IInv, Kill
  PROVE  IInv'
<1>1. launches' \in 0 .. Len(Launches)
  BY WebPipelineAssumption
     DEF IInv, WebTypeOK, Kill, Crash, CrashWhileSaving, CrashWhileClearing
<1> QED
  BY <1>1, Dying DEF Kill, Crash, CrashWhileSaving, CrashWhileClearing

-----------------------------------------------------------------------------
(* Steps of the stages.  What a step of a stage s leaves alone.             *)

OnlyStage(s) ==
  /\ phase = "up" /\ phase' = "up"
  /\ s \in Stage \ completed /\ st[s] # "done"
  /\ \A d \in STAGE_DEPS[s] : st[s] # "idle" \/ st[d] = "done"
  /\ UNCHANGED <<launches, mode, installed, completed>>
  /\ st' \in [Stage -> {"idle", "running", "backoff", "done"}] /\ st'[s] # "idle"
  /\ status' \in [Stage -> Status]
  /\ \A x \in Stage \ {s} : st'[x] = st[x] /\ status'[x] = status[x]
  /\ st'[s] = "done" \/ status'[s] = status[s]
  /\ attempt' \in [Stage -> 0 .. MaxRetries]
  /\ object' \in [Stage -> Value]

(* A step that starts the tool of a stage, or is a retry, or the end of an  *)
(* attempt that raised, which may be retried.                               *)
LEMMA Unrecorded ==
  ASSUME IInv, NEW s \in Stage, OnlyStage(s),
         UNCHANGED <<shared, entries, disk, unsaved>>,
         \/ /\ st'[s] = "done" /\ status'[s] = "failed" /\ acked' = acked \ {s}
            /\ raised' = raised \cup {s}
         \/ st[s] = "running" /\ st'[s] = "backoff" /\ acked' = acked \ {s} /\ raised' = raised
         \/ /\ st'[s] = "running" /\ acked' = acked /\ raised' = raised
            /\ s \in DOMAIN Source =>
                 st[Source[s]] = "done" /\ status[Source[s]] = "success"
  PROVE  IInv'
<1> USE WebPipelineAssumption, Graph
<1>1. /\ WebTypeOK /\ CheckpointTypeOK
      /\ st \in [Stage -> {"idle", "running", "backoff", "done"}]
      /\ status \in [Stage -> Status] /\ acked \in SUBSET Stage
      /\ completed \in SUBSET Stage
  BY DEF IInv, WebTypeOK
<1>2. /\ \A x \in Stage \ {s} : st'[x] = st[x] /\ status'[x] = status[x]
      /\ st' \in [Stage -> {"idle", "running", "backoff", "done"}]
      /\ status' \in [Stage -> Status]
  BY <1>1 DEF OnlyStage
<1>3. WebTypeOK'
  <2>1. raised' \in SUBSET Stage /\ acked' \in SUBSET Stage
    BY DEF IInv, WebTypeOK
  <2> QED
    BY <1>1, <1>2, <2>1 DEF WebTypeOK, CheckpointTypeOK, OnlyStage
<1>4. SharedInv'
  <2> SUFFICES ASSUME NEW l \in ListStage
               PROVE  shared'[l] = "data" <=>
                        IF st'[l] = "done" THEN status'[l] = "success"
                        ELSE l \in completed' /\ entries'[l].status = "success"
    BY DEF SharedInv
  <2>1. /\ completed' = completed /\ s \notin completed /\ st[s] # "done"
        /\ shared[l] = "data" <=>
             IF st[l] = "done" THEN status[l] = "success"
             ELSE l \in completed /\ entries[l].status = "success"
    BY DEF IInv, SharedInv, OnlyStage
  <2>2. CASE l = s
    BY <2>1, <2>2
  <2>3. CASE l # s
    BY <1>2, <2>1, <2>3
  <2> QED
    BY <2>2, <2>3
<1>5. InputInv'
  BY <1>1, <1>2 DEF IInv, InputInv, OnlyStage
<1>6. RestInv' /\ AgreeInv'
  <2>1. /\ completed' = completed /\ s \notin completed
        /\ \A x \in Stage \ {s} :
             st'[x] = st[x] /\ status'[x] = status[x] /\ entries'[x] = entries[x]
    BY <1>2 DEF OnlyStage
  <2>2. RestInv'
    BY <1>1, <2>1 DEF IInv, RestInv
  <2>3. s \notin raised
    BY DEF IInv, AgreeInv, OnlyStage
  <2>4. /\ \A x \in Stage \ raised : st[x] = "done" => status[x] = entries[x].status
        /\ \A x \in raised : st[x] = "done" /\ status[x] = "failed"
        /\ raised \subseteq Stage
    BY DEF IInv, AgreeInv, WebTypeOK
  <2>5. /\ raised' = raised \/ raised' = raised \cup {s}
        /\ s \in raised' => st'[s] = "done" /\ status'[s] = "failed"
        /\ st'[s] = "done" => s \in raised'
    BY <2>3
  <2>6. ASSUME NEW x \in Stage \ raised', st'[x] = "done" PROVE status'[x] = entries'[x].status
    <3>1. x # s /\ x \in Stage \ raised
      BY <2>5, <2>6
    <3> QED
      BY <2>1, <2>4, <2>6, <3>1
  <2>7. ASSUME NEW x \in raised' PROVE st'[x] = "done" /\ status'[x] = "failed"
    <3>1. CASE x = s
      BY <2>5, <2>7, <3>1
    <3>2. CASE x # s
      <4>1. x \in Stage \ {s} /\ x \in raised
        BY <2>4, <2>5, <2>7, <3>2
      <4> QED
        BY <2>1, <2>4, <4>1
    <3> QED
      BY <3>1, <3>2
  <2>8. AgreeInv'
    BY <2>6, <2>7, Zenon DEF AgreeInv
  <2> QED
    BY <2>2, <2>8
<1>7. AckInv'
  BY DEF IInv, AckInv, OkInFile, OnlyStage
<1>8. ResumeKeepsProgress' /\ ReturnedInv'
  BY DEF ResumeKeepsProgress, ReturnedInv, OnlyStage
<1>9. FileInv' /\ VouchedFor(entries') /\ VouchedFor(disk'.entries)
  BY DEF IInv, FileInv, VouchedFor, OnlyStage
<1> QED
  BY <1>3, <1>4, <1>5, <1>6, <1>7, <1>8, <1>9 DEF IInv

(* A step that records the stage: with a result that is published, or with  *)
(* one that is retried.                                                     *)
LEMMA RecordedStep ==
  ASSUME IInv, NEW s \in Stage, OnlyStage(s), NEW result \in Status,
         Recorded(s, result, shared'),
         shared' \in [ListStage -> Value],
         \A l \in ListStage \ {s} : shared'[l] = shared[l],
         s \in ListStage => (shared'[s] = "data" <=> result = "success"),
         \/ st'[s] = "done" /\ status'[s] = result
         \/ st[s] = "running" /\ st'[s] = "backoff" /\ result # "success"
  PROVE  IInv'
<1> USE WebPipelineAssumption, Graph
<1>1. /\ WebTypeOK /\ CheckpointTypeOK
      /\ st \in [Stage -> {"idle", "running", "backoff", "done"}]
      /\ status \in [Stage -> Status] /\ acked \in SUBSET Stage
      /\ completed \in SUBSET Stage
  BY DEF IInv, WebTypeOK
<1>2. /\ \A x \in Stage \ {s} : st'[x] = st[x] /\ status'[x] = status[x]
      /\ st' \in [Stage -> {"idle", "running", "backoff", "done"}]
      /\ status' \in [Stage -> Status]
  BY <1>1 DEF OnlyStage
<1>3. /\ entries' \in [Stage -> Entry]
      /\ \A x \in Stage \ {s} : entries'[x] = entries[x]
      /\ entries'[s].status = result
      /\ CheckpointTypeOK' /\ acked' \in SUBSET Stage
      /\ VouchedFor(entries') /\ VouchedFor(disk'.entries)
      /\ disk'.kind # "file" => disk'.entries = Blank
      /\ unsaved' = {} => disk'.entries = entries'
      /\ acked' \subseteq {x \in Stage : entries'[x].status \in Ok}
      /\ acked' \ unsaved' \subseteq OkInFile'
  BY Recording DEF IInv, OnlyStage
<1>4. WebTypeOK'
  BY <1>1, <1>2, <1>3 DEF WebTypeOK, OnlyStage, Recorded
<1>5. SharedInv'
  <2> SUFFICES ASSUME NEW l \in ListStage
               PROVE  shared'[l] = "data" <=>
                        IF st'[l] = "done" THEN status'[l] = "success"
                        ELSE l \in completed' /\ entries'[l].status = "success"
    BY DEF SharedInv
  <2>1. /\ completed' = completed /\ s \notin completed /\ st[s] # "done"
        /\ shared[l] = "data" <=>
             IF st[l] = "done" THEN status[l] = "success"
             ELSE l \in completed /\ entries[l].status = "success"
    BY DEF IInv, SharedInv, OnlyStage
  <2>2. CASE l = s
    BY <2>1, <2>2
  <2>3. CASE l # s
    BY <1>2, <1>3, <2>1, <2>3
  <2> QED
    BY <2>2, <2>3
<1>6. InputInv'
  BY <1>1, <1>2 DEF IInv, InputInv, OnlyStage
<1>7. RestInv' /\ AgreeInv'
  <2>1. /\ completed' = completed /\ s \notin completed
        /\ \A x \in Stage \ {s} :
             st'[x] = st[x] /\ status'[x] = status[x] /\ entries'[x] = entries[x]
    BY <1>2, <1>3 DEF OnlyStage
  <2>2. RestInv'
    BY <1>1, <2>1 DEF IInv, RestInv
  <2>3. s \notin raised /\ raised' = raised
    BY DEF IInv, AgreeInv, OnlyStage, Recorded
  <2>4. /\ \A x \in Stage \ raised : st[x] = "done" => status[x] = entries[x].status
        /\ \A x \in raised : x \in Stage \ {s} /\ st[x] = "done" /\ status[x] = "failed"
    BY <2>3 DEF IInv, AgreeInv, WebTypeOK
  <2>5. st'[s] = "done" => status'[s] = entries'[s].status
    BY <1>3
  <2>6. ASSUME NEW x \in Stage \ raised', st'[x] = "done"
        PROVE  status'[x] = entries'[x].status
    BY <2>1, <2>3, <2>4, <2>5, <2>6
  <2>7. \A x \in raised' : st'[x] = "done" /\ status'[x] = "failed"
    BY <2>1, <2>3, <2>4
  <2>8. AgreeInv'
    BY <2>6, <2>7 DEF AgreeInv
  <2> QED
    BY <2>2, <2>8
<1>8. AckInv' /\ FileInv'
  BY <1>3 DEF AckInv, FileInv, OnlyStage
<1>9. ResumeKeepsProgress' /\ ReturnedInv'
  BY DEF ResumeKeepsProgress, ReturnedInv, OnlyStage
<1> QED
  BY <1>3, <1>4, <1>5, <1>6, <1>7, <1>8, <1>9 DEF IInv

(* A stage that was completed earlier is published with the status it had.  *)
LEMMA Restoring ==
  ASSUME IInv, NEW s \in Stage, Restore(s)
  PROVE  IInv'
<1> USE WebPipelineAssumption, Graph
<1>1. /\ WebTypeOK /\ CheckpointTypeOK
      /\ st \in [Stage -> {"idle", "running", "backoff", "done"}]
      /\ status \in [Stage -> Status] /\ entries[s].status \in Status /\ s \in completed
      /\ st[s] = "idle" /\ phase = "up"
  BY DEF IInv, WebTypeOK, CheckpointTypeOK, Entry, Restore, Begins
<1>2. /\ st' = [st EXCEPT ![s] = "done"]
      /\ status' = [status EXCEPT ![s] = entries[s].status]
      /\ UNCHANGED <<phase, launches, mode, installed, completed, attempt, shared, object,
                     entries, disk, unsaved, raised, acked>>
  BY DEF Restore, Published, Unlaunched, cpVars, historyVars
<1>3. WebTypeOK'
  BY <1>1, <1>2 DEF WebTypeOK, CheckpointTypeOK
<1>4. SharedInv' /\ InputInv'
  BY <1>1, <1>2 DEF IInv, SharedInv, InputInv
<1>5. RestInv' /\ AgreeInv'
  <2>1. s \notin raised
    BY <1>1 DEF IInv, AgreeInv
  <2> QED
    BY <1>1, <1>2, <2>1 DEF IInv, RestInv, AgreeInv
<1>6. AckInv' /\ FileInv' /\ VouchedFor(entries') /\ VouchedFor(disk'.entries)
  BY <1>2 DEF IInv, AckInv, FileInv, OkInFile
<1>7. ResumeKeepsProgress' /\ ReturnedInv'
  BY <1>1, <1>2 DEF ResumeKeepsProgress, ReturnedInv
<1> QED
  BY <1>3, <1>4, <1>5, <1>6, <1>7 DEF IInv

LEMMA NoDataYet ==
  ASSUME IInv, NEW s \in ListStage, s \notin completed, st[s] # "done"
  PROVE  shared[s] # "data"
  BY DEF IInv, SharedInv

(* A stage that is ready, or whose tool runs, steps alone.                  *)
LEMMA Beginning ==
  ASSUME IInv, NEW s \in Stage, Begins(s)
  PROVE  /\ phase = "up" /\ st[s] = "idle"
         /\ \A d \in STAGE_DEPS[s] : st[d] = "done"
  BY DEF Begins, DepsDone

(* A stage that awaits nothing is over in one step.                         *)
LEMMA OverAtOnce ==
  ASSUME IInv, NEW s \in Stage, Begins(s), s \notin completed, Unlaunched,
         UNCHANGED <<attempt, shared>>, object' \in [Stage -> Value],
         NEW result \in Status, s \in ListStage => result # "success",
         Published(s, result), Recorded(s, result, shared)
  PROVE  IInv'
<1> USE WebPipelineAssumption, Graph
<1>1. WebTypeOK
  BY DEF IInv
<1>2. OnlyStage(s)
  BY <1>1, Beginning DEF OnlyStage, Published, Unlaunched, WebTypeOK, Status
<1>3. Recorded(s, result, shared')
  BY DEF Recorded
<1>4. st'[s] = "done" /\ status'[s] = result
  BY <1>1 DEF Published, WebTypeOK
<1>5. shared' \in [ListStage -> Value]
  BY <1>1 DEF WebTypeOK
<1>6. s \in ListStage => (shared'[s] = "data" <=> result = "success")
  BY <1>1, <1>2, NoDataYet DEF OnlyStage
<1> QED
  BY <1>2, <1>3, <1>4, <1>5, <1>6, RecordedStep

LEMMA Skipping ==
  ASSUME IInv, NEW s \in Stage, Skip(s) \/ ToolMissing(s)
  PROVE  IInv'
<1>1. /\ Begins(s) /\ s \notin completed /\ Unlaunched
      /\ UNCHANGED <<attempt, shared>> /\ object' \in [Stage -> Value]
  BY DEF IInv, WebTypeOK, Skip, ToolMissing
<1>2. PICK result \in {"skipped", "missing_dependency"} :
        Published(s, result) /\ Recorded(s, result, shared)
  BY DEF Skip, ToolMissing
<1>3. result \in Status /\ result # "success"
  BY DEF Status
<1> QED
  BY <1>1, <1>2, <1>3, OverAtOnce

LEMMA Aggregating ==
  ASSUME IInv, Aggregate
  PROVE  IInv'
<1>1. /\ Begins("url_aggregator") /\ "url_aggregator" \notin completed /\ Unlaunched
      /\ UNCHANGED <<attempt, shared>>
  BY DEF Aggregate
<1>2. PICK result \in {"success", "empty"} :
        /\ Published("url_aggregator", result)
        /\ Recorded("url_aggregator", result, shared)
  BY DEF Aggregate
<1>3. object' \in [Stage -> Value]
  BY DEF IInv, Aggregate, WebTypeOK, Value
<1>4. result \in Status
  BY DEF Status
<1> QED
  BY <1>1, <1>2, <1>3, <1>4, OverAtOnce, Graph

(* A module raises.                                                         *)
LEMMA RaisedStep ==
  ASSUME IInv, NEW s \in Stage, phase = "up", s \notin completed, Unlaunched,
         \/ st[s] = "running"
         \/ st[s] = "idle" /\ \A d \in STAGE_DEPS[s] : st[d] = "done",
         UNCHANGED <<attempt, shared, object, cpVars>>, acked' = acked \ {s},
         raised' = raised \cup {s},
         Published(s, "failed")
  PROVE  IInv'
<1> USE WebPipelineAssumption, Graph
<1>1. WebTypeOK
  BY DEF IInv
<1>2. OnlyStage(s) /\ st'[s] = "done" /\ status'[s] = "failed"
  BY <1>1 DEF OnlyStage, Published, Unlaunched, WebTypeOK, Status
<1> QED
  BY <1>1, <1>2, Unrecorded DEF cpVars

LEMMA Raising ==
  ASSUME IInv, NEW s \in Stage, NEW o \in ToolOutcome, Raise(s, o)
  PROVE  IInv'
<1>1. /\ WebTypeOK /\ phase = "up" /\ st[s] = "running" /\ s \notin completed
      /\ Unlaunched /\ UNCHANGED <<shared, object, cpVars>> /\ acked' = acked \ {s}
  BY DEF IInv, RestInv, Raise
<1>2. CASE IsRetryable(o) /\ RetriesLeft(s)
  <2>1. /\ st' = [st EXCEPT ![s] = "backoff"] /\ attempt' = [attempt EXCEPT ![s] = @ + 1]
        /\ UNCHANGED <<status, raised>>
    BY <1>2 DEF Raise
  <2>2. attempt' \in [Stage -> 0 .. MaxRetries]
    BY <1>1, <1>2, <2>1, WebPipelineAssumption DEF RetriesLeft, WebTypeOK
  <2>3. OnlyStage(s) /\ st'[s] = "backoff"
    BY <1>1, <2>1, <2>2 DEF OnlyStage, Unlaunched, WebTypeOK
  <2> QED
    BY <1>1, <2>1, <2>3, Unrecorded DEF cpVars
<1>3. CASE ~(IsRetryable(o) /\ RetriesLeft(s))
  <2>1. Published(s, "failed") /\ raised' = raised \cup {s} /\ attempt' = attempt
    BY <1>3 DEF Raise
  <2> QED
    BY <1>1, <2>1, RaisedStep
<1> QED
  BY <1>2, <1>3

LEMMA AggregationRaising ==
  ASSUME IInv, AggregateRaises
  PROVE  IInv'
<1>1. /\ Begins("url_aggregator") /\ "url_aggregator" \notin completed /\ Unlaunched
      /\ UNCHANGED <<attempt, shared, object, cpVars>>
      /\ acked' = acked \ {"url_aggregator"} /\ raised' = raised \cup {"url_aggregator"}
      /\ Published("url_aggregator", "failed")
  BY DEF AggregateRaises
<1> QED
  BY <1>1, Beginning, RaisedStep, Graph

(* A tool is started, for the first time or again.                          *)
LEMMA Starting ==
  ASSUME IInv, NEW s \in Stage, RunTool(s) \/ Retry(s)
  PROVE  IInv'
<1> USE WebPipelineAssumption, Graph
<1>1. /\ WebTypeOK /\ phase = "up" /\ s \notin completed /\ Unlaunched
      /\ st[s] \in {"idle", "backoff"}
      /\ st[s] # "idle" \/ \A d \in STAGE_DEPS[s] : st[d] = "done"
      /\ UNCHANGED <<attempt, status, object>>
      /\ st' = [st EXCEPT ![s] = "running"]
  BY Beginning DEF IInv, RestInv, RunTool, Retry, Begins
<1>2. s \in DOMAIN Source => st[Source[s]] = "done" /\ status[Source[s]] = "success"
  <2> SUFFICES ASSUME s \in DOMAIN Source
               PROVE  st[Source[s]] = "done" /\ status[Source[s]] = "success"
    OBVIOUS
  <2>1. CASE RunTool(s)
    <3>1. st[Source[s]] = "done" /\ shared[Source[s]] = "data"
      BY <2>1, Beginning DEF RunTool, HasInput
    <3> QED
      BY <3>1 DEF IInv, SharedInv
  <2>2. CASE Retry(s)
    BY <2>2 DEF IInv, InputInv, Retry
  <2> QED
    BY <2>1, <2>2
<1>3. OnlyStage(s) /\ st'[s] = "running"
  BY <1>1 DEF OnlyStage, Unlaunched, WebTypeOK
<1>4. UNCHANGED <<shared, entries, disk, unsaved>> /\ acked' = acked /\ raised' = raised
  BY DEF RunTool, Retry, cpVars, historyVars
<1>5. /\ st'[s] = "running" /\ acked' = acked /\ raised' = raised
      /\ s \in DOMAIN Source => st[Source[s]] = "done" /\ status[Source[s]] = "success"
  BY <1>2, <1>3, <1>4
<1> QED
  BY <1>3, <1>4, <1>5, Unrecorded

(* A tool has ended.                                                        *)
LEMMA Finishing ==
  ASSUME IInv, NEW s \in Stage, NEW o \in ToolOutcome, Finish(s, o)
  PROVE  IInv'
<1> USE WebPipelineAssumption, Graph
<1> DEFINE found == IF o = "records" THEN "data" ELSE "empty"
<1>1. /\ WebTypeOK /\ phase = "up" /\ st[s] = "running" /\ s \notin completed
      /\ Unlaunched
      /\ o \in ToolOutcome \ Exceptions /\ Stores(s, found)
      /\ Recorded(s, ResultOf(o), shared')
  BY DEF IInv, RestInv, Finish
<1>2. /\ ResultOf(o) \in Status /\ (ResultOf(o) = "success" <=> found = "data")
      /\ IsRetryable(o) => ResultOf(o) # "success"
  BY <1>1 DEF ResultOf, IsRetryable, Status, ToolOutcome, Exceptions
<1>3. found \in Value /\ object' \in [Stage -> Value] /\ shared' \in [ListStage -> Value]
  BY <1>1 DEF Stores, WebTypeOK, Value
<1>4. /\ \A l \in ListStage \ {s} : shared'[l] = shared[l]
      /\ s \in ListStage => (shared'[s] = "data" <=> ResultOf(o) = "success")
  BY <1>1, <1>2 DEF Stores, WebTypeOK
<1>5. /\ OnlyStage(s)
      /\ \/ st'[s] = "done" /\ status'[s] = ResultOf(o)
         \/ st[s] = "running" /\ st'[s] = "backoff" /\ ResultOf(o) # "success"
  <2>1. CASE IsRetryable(o) /\ RetriesLeft(s)
    <3>1. /\ st' = [st EXCEPT ![s] = "backoff"]
          /\ attempt' = [attempt EXCEPT ![s] = @ + 1]
          /\ status' = status
      BY <2>1 DEF Finish
    <3>2. attempt' \in [Stage -> 0 .. MaxRetries]
      BY <1>1, <2>1, <3>1 DEF RetriesLeft, WebTypeOK
    <3> QED
      BY <1>1, <1>2, <1>3, <2>1, <3>1, <3>2 DEF OnlyStage, Unlaunched, WebTypeOK
  <2>2. CASE ~(IsRetryable(o) /\ RetriesLeft(s))
    <3>1. Published(s, ResultOf(o)) /\ attempt' = attempt
      BY <2>2 DEF Finish
    <3> QED
      BY <1>1, <1>2, <1>3, <3>1 DEF OnlyStage, Published, Unlaunched, WebTypeOK
  <2> QED
    BY <2>1, <2>2
<1> QED
  BY <1>1, <1>2, <1>3, <1>4, <1>5, RecordedStep

LEMMA Stepping == IInv /\ [Next]_vars => IInv'
<1> SUFFICES ASSUME IInv, [Next]_vars PROVE IInv'
  OBVIOUS
<1>1. CASE \E m \in Mode, tools \in Installations : Launch(m, tools)
  BY <1>1, Launching
<1>2. CASE Return \/ Kill
  BY <1>2, Returning, Killing
<1>3. CASE Aggregate \/ AggregateRaises
  BY <1>3, Aggregating, AggregationRaising
<1>4. CASE \E s \in Stage : StageStep(s)
  <2>1. PICK s \in Stage : StageStep(s)
    BY <1>4
  <2>2. CASE \E o \in ToolOutcome : Finish(s, o) \/ Raise(s, o)
    BY <2>2, Finishing, Raising
  <2>3. CASE Restore(s)
    BY <2>3, Restoring
  <2>4. CASE Skip(s) \/ ToolMissing(s)
    BY <2>4, Skipping
  <2>5. CASE RunTool(s) \/ Retry(s)
    BY <2>5, Starting
  <2> QED
    BY <2>1, <2>2, <2>3, <2>4, <2>5 DEF StageStep
<1>5. CASE UNCHANGED vars
  <2>1. UNCHANGED <<phase, launches, mode, installed, completed, st, attempt, status,
                   shared, object, entries, disk, unsaved, raised, acked>>
    BY <1>5 DEF vars, runVars, cpVars, historyVars
  <2> QED
    BY <2>1 DEF IInv, WebTypeOK, CheckpointTypeOK, FileInv, VouchedFor, SharedInv,
                InputInv,
       RestInv, AgreeInv, ReturnedInv, AckInv, OkInFile, ResumeKeepsProgress
<1> QED
  BY <1>1, <1>2, <1>3, <1>4, <1>5 DEF Next, Progress, Kill

THEOREM WebInvariance == Spec => []IInv
  BY Initially, Stepping, PTL DEF Spec

-----------------------------------------------------------------------------
(* Type correctness; in particular no stage is retried more than MaxRetries *)
(* times.                                                                   *)
THEOREM WebTypeCorrect == Spec => []WebTypeOK
<1>1. IInv => WebTypeOK
  BY DEF IInv
<1> QED
  BY <1>1, WebInvariance, PTL

(* Whatever a resume merges into the shared lists, a tool runs on data of a *)
(* stage that this run reports as a success only.                           *)
THEOREM DataComesFromSuccess == Spec => []DataOnlyFromSuccess
<1>1. IInv => DataOnlyFromSuccess
  BY Graph DEF IInv, VouchedFor, InputInv, DataOnlyFromSuccess
<1> QED
  BY <1>1, WebInvariance, PTL

(* A stage that was completed when its process started is not run again.    *)
THEOREM CompletedStagesAreNotRepeated == Spec => []CompletedStagesRest
<1>1. IInv => CompletedStagesRest
  BY DEF IInv, RestInv, Ok, CompletedStagesRest
<1> QED
  BY <1>1, WebInvariance, PTL

(* What a run that returned reports of a stage is in the file, unless its   *)
(* last attempt raised, or writes failed at the end.                        *)
THEOREM ReportAndCheckpointAgree == Spec => []CheckpointAgrees
<1>1. IInv => CheckpointAgrees
  <2> SUFFICES ASSUME IInv, phase = "returned", unsaved = {}, NEW s \in Stage,
                      disk.entries[s].status # status[s]
               PROVE  s \in raised /\ status[s] = "failed"
    BY DEF CheckpointAgrees
  <2>1. disk.entries = entries /\ st[s] = "done"
    BY DEF IInv, FileInv, ReturnedInv
  <2> QED
    BY <2>1 DEF IInv, AgreeInv
<1> QED
  BY <1>1, WebInvariance, PTL

(* No kill and no failed write costs more than the stages recorded since    *)
(* the last good write.                                                     *)
THEOREM ProgressSurvives == Spec => []ResumeKeepsProgress
<1>1. IInv => ResumeKeepsProgress
  BY DEF IInv
<1> QED
  BY <1>1, WebInvariance, PTL

(* No step of a run changes the entry of a stage that was completed before  *)
(* the run.                                                                  *)
THEOREM CompletedEntriesAreKept == Spec => CompletedEntriesKept
<1> DEFINE Kept == \A x \in completed : entries'[x] = entries[x]
<1>1. ASSUME IInv, NEW s \in Stage, s \notin completed, NEW result, NEW lists,
             Recorded(s, result, lists)
      PROVE  Kept
  <2>1. completed \in SUBSET Stage /\ entries \in [Stage -> Entry]
    BY <1>1, WebPipelineAssumption DEF IInv, WebTypeOK, CheckpointTypeOK
  <2>2. PICK new : entries' = [entries EXCEPT ![s] = new]
    BY <1>1 DEF Recorded, RecordStage, Updated
  <2> QED
    BY <1>1, <2>1, <2>2
<1>2. ASSUME IInv, [Next]_vars, phase = "up", phase' = "up" PROVE Kept
  <2>1. CASE \E m \in Mode, tools \in Installations : Launch(m, tools)
    BY <1>2, <2>1 DEF Launch
  <2>2. CASE Return \/ Kill \/ AggregateRaises \/ UNCHANGED vars
    BY <1>2, <2>2 DEF Return, Kill, Killed, Crash, CrashWhileSaving, CrashWhileClearing,
       AggregateRaises, vars, cpVars
  <2>3. CASE Aggregate
    <3>1. /\ "url_aggregator" \notin completed
          /\ \E result : Recorded("url_aggregator", result, shared)
      BY <2>3 DEF Aggregate
    <3> QED
      BY <1>1, <1>2, <3>1, Graph
  <2>4. ASSUME NEW s \in Stage, StageStep(s) PROVE Kept
    <3>1. CASE Restore(s) \/ RunTool(s) \/ (\E o \in ToolOutcome : Raise(s, o)) \/ Retry(s)
      BY <3>1 DEF Restore, RunTool, Raise, Retry, cpVars
    <3>2. CASE Skip(s) \/ ToolMissing(s)
      <4>1. s \notin completed /\ \E result : Recorded(s, result, shared)
        BY <3>2 DEF Skip, ToolMissing
      <4> QED
        BY <1>1, <1>2, <4>1
    <3>3. CASE \E o \in ToolOutcome : Finish(s, o)
      <4>1. s \notin completed /\ \E result, lists : Recorded(s, result, lists)
        BY <1>2, <3>3 DEF IInv, RestInv, Finish
      <4> QED
        BY <1>1, <1>2, <4>1
    <3> QED
      BY <2>4, <3>1, <3>2, <3>3 DEF StageStep
  <2> QED
    BY <1>2, <2>1, <2>2, <2>3, <2>4 DEF Next, Progress, Kill
<1>3. IInv /\ [Next]_vars =>
        [phase = "up" /\ phase' = "up" /\ mode = "resume" =>
           \A s \in completed : entries'[s] = entries[s]]_vars
  BY <1>2
<1> QED
  BY <1>3, WebInvariance, PTL DEF Spec, CompletedEntriesKept
=============================================================================

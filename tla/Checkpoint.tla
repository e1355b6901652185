------------------------------ MODULE Checkpoint ------------------------------
(***************************************************************************)
(* CheckpointManager of vina/core/checkpoint.py: the stage entries it      *)
(* holds in memory (self._data) and the JSON file they are written to,     *)
(* whole, after every stage.  write_text truncates the file and then       *)
(* writes it: a process killed in between, or a disk that is full, leaves  *)
(* a torn file, which _load reads as no checkpoint at all.  A write that   *)
(* fails is only logged, and the next one writes everything again.         *)
(***************************************************************************)
EXTENDS Naturals

CONSTANTS
  Stages,       \* stage names
  FailingSaves  \* bound: the steps whose write may fail

(* StageState, and "none" for a stage without an entry.                    *)
Status == {"none", "success", "failed", "skipped", "empty", "timeout",
           "missing_dependency"}

(* The outputs dict of an entry: not there, an empty list, or data.        *)
Value == {"absent", "empty", "data"}
Entry == [status : Status, outputs : Value]

VARIABLES
  entries,   \* self._data["stages"]
  disk,      \* the checkpoint file
  unsaved    \* history: the writes the file has missed since the last good one

cpVars == <<entries, disk, unsaved>>

NoEntry == [status |-> "none", outputs |-> "absent"]
Blank   == [s \in Stages |-> NoEntry]

Missing   == [kind |-> "missing", entries |-> Blank]
Torn      == [kind |-> "torn", entries |-> Blank]
Saved(e)  == [kind |-> "file", entries |-> e]

(* _load, called by the constructor: a missing or unreadable file and a    *)
(* blank one look the same.                                                *)
Loaded == IF disk.kind = "file" THEN disk.entries ELSE Blank

Exists == disk.kind # "missing"

Updated(s, status, outputs) ==
  [entries EXCEPT ![s] = [status |-> status, outputs |-> outputs]]

(* _save: the file is written, or OSError leaves it as it was or truncated. *)
Steps == Stages \cup {"clear"}

Save(step, e) ==
  \/ disk' = Saved(e) /\ unsaved' = {}
  \/ step \in FailingSaves /\ disk' = disk /\ unsaved' = unsaved \cup {step}
  \/ step \in FailingSaves /\ disk' = Torn /\ unsaved' = Steps

(* record_stage: the entry in memory, then the whole file.                 *)
RecordStageUnsaved(s, status, outputs) ==    \* mutant: no _save
  /\ entries' = Updated(s, status, outputs)
  /\ UNCHANGED <<disk, unsaved>>

RecordStage(s, status, outputs) ==
  /\ entries' = Updated(s, status, outputs)
  /\ Save(s, entries')

(* is_successfully_completed                                               *)
OkStatus == {"success", "empty", "skipped"}

SuccessfullyCompleted(e, s) == e[s].status \in OkStatus

CheckpointTypeOK ==
  /\ entries \in [Stages -> Entry]
  /\ disk \in [kind : {"missing", "torn", "file"}, entries : [Stages -> Entry]]
  /\ unsaved \in SUBSET Steps
=============================================================================

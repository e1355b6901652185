-------------------------- MODULE DefaultDatabase --------------------------
(***************************************************************************)
(* The default vulnerability database of vina/core/vuln_intel.py: a global  *)
(* that get_default_db fills on first use (one look at it without the lock,  *)
(* one under the lock, and a last one to return it) and reload_db empties,   *)
(* called from any thread while the files it is read from change.            *)
(***************************************************************************)
EXTENDS Naturals

CONSTANTS
  Thread,
  MaxFiles,  \* bound: how many versions of the files there are
  Malformed  \* the versions that json.loads refuses

NoBody == "nobody"
None   == 0  \* a database is known by the version of the files it was read from
Raised == MaxFiles + 1

ASSUME DefaultDatabaseAssumption ==
  /\ NoBody \notin Thread
  /\ MaxFiles \in Nat \ {0}
  /\ Malformed \subseteq 1 .. MaxFiles

VARIABLES
  files,     \* the version of the files on disk
  default,   \* _DEFAULT_DB
  lock,      \* who holds _DEFAULT_DB_LOCK
  pc,        \* where each thread is
  loaded,    \* the database a thread has read, not yet published
  got,       \* what its last call of get_default_db returned
  lastReset, \* the files' version when reload_db last emptied the global
  since      \* lastReset when the thread's call of get_default_db began

dbvars == <<files, default, lock, pc, loaded, got, lastReset, since>>

DatabaseInit ==
  /\ files = 1 /\ default = None /\ lock = NoBody /\ lastReset = 0
  /\ pc = [t \in Thread |-> "idle"]
  /\ loaded = [t \in Thread |-> None]
  /\ got = [t \in Thread |-> None]
  /\ since = [t \in Thread |-> 0]

Goto(t, place) == pc' = [pc EXCEPT ![t] = place]
Returns(t, db) == Goto(t, "returned") /\ got' = [got EXCEPT ![t] = db]

-----------------------------------------------------------------------------
(* get_default_db. *)

Call(t) ==
  /\ pc[t] = "idle" /\ Goto(t, "check")
  /\ since' = [since EXCEPT ![t] = lastReset]
  /\ UNCHANGED <<files, default, lock, loaded, got, lastReset>>

Check(t) ==
  /\ pc[t] = "check" /\ Goto(t, IF default # None THEN "return" ELSE "lock")
  /\ UNCHANGED <<files, default, lock, loaded, got, lastReset, since>>

(* The second look, under the lock, which is kept only to load.             *)
Acquire(t) ==
  /\ pc[t] = "lock" /\ lock = NoBody
  /\ IF default # None THEN Returns(t, default) /\ UNCHANGED lock
     ELSE lock' = t /\ Goto(t, "load") /\ UNCHANGED got
  /\ UNCHANGED <<files, default, loaded, lastReset, since>>

(* A file that is not JSON raises; the with statement frees the lock.       *)
Load(t) ==
  /\ pc[t] = "load"
  /\ IF files \in Malformed
     THEN Returns(t, Raised) /\ lock' = NoBody /\ UNCHANGED loaded
     ELSE Goto(t, "publish") /\ loaded' = [loaded EXCEPT ![t] = files] /\ UNCHANGED <<lock, got>>
  /\ UNCHANGED <<files, default, lastReset, since>>

Publish(t) ==
  /\ pc[t] = "publish" /\ Goto(t, "return")
  /\ default' = loaded[t] /\ lock' = NoBody
  /\ UNCHANGED <<files, loaded, got, lastReset, since>>

(* The global is read once more, without the lock.                          *)
Return(t) ==
  /\ pc[t] = "return" /\ Returns(t, default)
  /\ UNCHANGED <<files, default, lock, loaded, lastReset, since>>

-----------------------------------------------------------------------------
(* reload_db empties the global under the lock and then calls get_default_db. *)

CallReload(t) ==
  /\ pc[t] = "idle" /\ Goto(t, "reset")
  /\ UNCHANGED <<files, default, lock, loaded, got, lastReset, since>>

\* mutant: the global is emptied without taking the lock
ResetUnlocked(t) ==
  /\ pc[t] = "reset" /\ Goto(t, "check")
  /\ default' = None /\ lastReset' = files
  /\ since' = [since EXCEPT ![t] = files]
  /\ UNCHANGED <<files, lock, loaded, got>>

Reset(t) ==
  /\ pc[t] = "reset" /\ lock = NoBody /\ Goto(t, "check")
  /\ default' = None /\ lastReset' = files
  /\ since' = [since EXCEPT ![t] = files]
  /\ UNCHANGED <<files, lock, loaded, got>>

ChangeFiles ==
  /\ files < MaxFiles /\ files' = files + 1
  /\ UNCHANGED <<default, lock, pc, loaded, got, lastReset, since>>

(* The caller has what it asked for and goes on.                            *)
Leave(t) ==
  /\ pc[t] = "returned" /\ Goto(t, "idle")
  /\ UNCHANGED <<files, default, lock, loaded, got, lastReset, since>>

Step(t) ==
  \/ Call(t) \/ Check(t) \/ Acquire(t) \/ Load(t) \/ Publish(t) \/ Return(t)
  \/ CallReload(t) \/ Reset(t)

DatabaseNext == ChangeFiles \/ \E t \in Thread : Step(t) \/ Leave(t)

DatabaseSpec == DatabaseInit /\ [][DatabaseNext]_dbvars

-----------------------------------------------------------------------------
Places == {"idle", "check", "lock", "load", "publish", "return", "reset", "returned"}

(* Type correctness. *)
DatabaseTypeOK ==
  /\ files \in 1 .. MaxFiles
  /\ default \in 0 .. MaxFiles
  /\ lock \in Thread \cup {NoBody}
  /\ pc \in [Thread -> Places]
  /\ loaded \in [Thread -> 0 .. MaxFiles]
  /\ got \in [Thread -> 0 .. Raised]
  /\ lastReset \in 0 .. MaxFiles
  /\ since \in [Thread -> 0 .. MaxFiles]

(* A reload is seen: a database that get_default_db returns was read from    *)
(* files no older than those of the last reload_db that had emptied the      *)
(* global when the call began.                                               *)
ReloadIsSeen ==
  \A t \in Thread : pc[t] = "returned" => got[t] \in {None, Raised} \cup (since[t] .. MaxFiles)
=============================================================================

------------------------------ MODULE FeedUpdate ------------------------------
(***************************************************************************)
(* The vulnerability feed cache of vina/core/feed_manager.py: the tables   *)
(* of its SQLite file, and FeedScheduler.update_all / update_single with   *)
(* FeedUpdater.update, which refresh it source by source.  Every database  *)
(* call commits on its own, so each is a step, and what another process    *)
(* reads or a kill leaves behind is the state between two steps.           *)
(***************************************************************************)
EXTENDS Naturals, Sequences

CONSTANTS
  Order,        \* the configured sources, sorted by feed type
  Contents,     \* source -> the payloads its server may have, as lists of CVEs
  Disabled,     \* sources that are switched off
  Conditional,  \* sources configured with an ETag: they may answer 304
  MAX_RETRIES,
  MaxCommands   \* bound: update commands

Sources == {Order[i] : i \in DOMAIN Order}

(* What a list of entries leaves in the table, whose key is CVE and source. *)
Rows(batch) == {batch[i] : i \in DOMAIN batch}

Payloads == UNION {Contents[s] : s \in Sources}
Cves     == UNION {Rows(batch) : batch \in Payloads}

ASSUME FeedUpdateAssumption ==
  /\ Order \in Seq(Sources)    \* FeedScheduler keeps its sources by name
  /\ \A i, j \in 1 .. Len(Order) : Order[i] = Order[j] => i = j
  /\ \A s \in Sources : Contents[s] # {}
  /\ \A batch \in Payloads : batch \in Seq(Rows(batch))
  /\ Disabled \subseteq Sources /\ Conditional \subseteq Sources
  /\ MAX_RETRIES \in Nat \ {0} /\ MaxCommands \in Nat

VARIABLES
  entries,   \* feed_entries, by source
  row,       \* feed_sources: is there a row, is it younger than the TTL, its count
  checksum,  \* feed_metadata: the contents the stored checksum was made from
  total,     \* feed_metadata: the contents total_entries was counted from
  offline,   \* feed_metadata: is_offline
  remote,    \* what each server has now
  pc,        \* where the command is
  command,   \* "all" or "single"
  force,     \* its force flag
  todo,      \* the sources not yet dealt with
  attempt,   \* loop variable of FeedUpdater.update
  body,      \* the batch last parsed for each source by this command
  inserted,  \* how many of the current source's batch are inserted
  outcome,   \* status of each source's UpdateResult
  commands,  \* how many commands were started
  before,    \* history: the entries when the command started
  torn       \* history: the sources whose entries were deleted, and whose row
             \* is still the one from before

dbVars     == <<entries, row, checksum, total, offline>>
localVars  == <<command, force, todo, attempt, body, inserted, outcome>>
historyVars == <<commands, before, torn>>
vars == <<dbVars, remote, pc, localVars, historyVars>>

NoRow    == [exists |-> FALSE, fresh |-> FALSE, count |-> 0]
Row(n)   == [exists |-> TRUE, fresh |-> TRUE, count |-> n]
NoDigest == [made |-> FALSE, of |-> [s \in Sources |-> {}]]
Digest   == [made |-> TRUE, of |-> entries]

Init ==
  /\ entries = [s \in Sources |-> {}]
  /\ row = [s \in Sources |-> NoRow]
  /\ checksum = NoDigest /\ total = entries /\ offline = "unset"
  /\ remote \in {r \in [Sources -> Payloads] : \A s \in Sources : r[s] \in Contents[s]}
  /\ pc = "idle" /\ command = "all" /\ force = FALSE /\ todo = <<>>
  /\ attempt = 1 /\ body = [s \in Sources |-> <<>>] /\ inserted = 0
  /\ outcome = [s \in Sources |-> "none"]
  /\ commands = 0 /\ before = entries /\ torn = {}

-----------------------------------------------------------------------------
(* A command starts.                                                       *)
Start(cmd, f, sources) ==
  /\ pc \in {"idle", "returned"} /\ commands < MaxCommands
  /\ commands' = commands + 1 /\ before' = entries
  /\ pc' = "source" /\ command' = cmd /\ force' = f /\ todo' = sources
  /\ attempt' = 1 /\ inserted' = 0
  /\ body' = [s \in Sources |-> <<>>]
  /\ outcome' = [s \in Sources |-> "none"]
  /\ UNCHANGED <<dbVars, remote, torn>>

UpdateAll(f)       == Start("all", f, Order)
UpdateSingle(s, f) == Start("single", f, <<s>>)

(* FeedUpdater.update returns: on to the next source.                      *)
Done(s, status) ==
  /\ pc' = "source" /\ todo' = Tail(todo)
  /\ outcome' = [outcome EXCEPT ![s] = status]
  /\ attempt' = 1 /\ inserted' = 0
  /\ UNCHANGED <<command, force, commands, before, remote>>

Current(s) == todo # <<>> /\ s = Head(todo)
Working(s) == pc = "source" /\ Current(s)

SkipDisabled(s) ==
  /\ Working(s) /\ s \in Disabled
  /\ Done(s, "skipped")
  /\ UNCHANGED <<dbVars, body, torn>>

UsesCache(s) == ~force /\ row[s].exists /\ row[s].fresh

StillFresh(s) ==
  /\ Working(s) /\ s \notin Disabled /\ UsesCache(s)
  /\ Done(s, "no_update")
  /\ UNCHANGED <<dbVars, body, torn>>

MustFetch(s) == Working(s) /\ s \notin Disabled /\ ~UsesCache(s)

NotModified(s) ==
  /\ MustFetch(s) /\ s \in Conditional
  /\ row' = [row EXCEPT ![s] = Row(IF row[s].exists THEN row[s].count ELSE 0)]
  /\ Done(s, "no_update")
  /\ UNCHANGED <<entries, checksum, total, offline, body, torn>>

Fetch(s) ==
  /\ MustFetch(s)
  /\ body' = [body EXCEPT ![s] = remote[s]]
  /\ pc' = "parsed"
  /\ UNCHANGED <<dbVars, remote, command, force, todo, attempt, inserted, outcome,
                 historyVars>>

GivesUpLate == attempt > MAX_RETRIES    \* mutant: one attempt too many
GivesUp == attempt = MAX_RETRIES

(* One of the errors that are caught: of the request or the parser, or     *)
(* later of the database calls (a CVE with half a surrogate pair parses,   *)
(* and is a ValueError when it is stored).  What the attempt has committed *)
(* stays, and the next attempt starts with the request.                    *)
AttemptFailsForever(s) ==    \* mutant: starts over when the attempts are used up
  /\ MustFetch(s) \/ (pc \in {"parsed", "inserting"} /\ Current(s))
  /\ attempt' = IF GivesUp THEN 1 ELSE attempt + 1
  /\ pc' = "source" /\ inserted' = 0
  /\ UNCHANGED <<dbVars, remote, command, force, todo, body, outcome, historyVars>>

AttemptFails(s) ==
  /\ MustFetch(s) \/ (pc \in {"parsed", "inserting"} /\ Current(s))
  /\ IF GivesUp
     THEN Done(s, "failed")
     ELSE /\ attempt' = attempt + 1 /\ pc' = "source" /\ inserted' = 0
          /\ UNCHANGED <<todo, outcome, command, force, commands, before, remote>>
  /\ UNCHANGED <<dbVars, body, torn>>

(* delete_source_entries, then batch_upsert, one commit per entry.         *)
DeleteNothing(s) ==    \* mutant: the new entries are added to the old ones
  /\ pc = "parsed" /\ Current(s)
  /\ pc' = "inserting" /\ torn' = torn \cup {s}
  /\ UNCHANGED <<dbVars, remote, command, force, todo, attempt, body, inserted, outcome,
                 commands, before>>

Delete(s) ==
  /\ pc = "parsed" /\ Current(s)
  /\ entries' = [entries EXCEPT ![s] = {}]
  /\ pc' = "inserting" /\ torn' = torn \cup {s}
  /\ UNCHANGED <<row, checksum, total, offline, remote, command, force, todo, attempt,
                 body, inserted, outcome, commands, before>>

Insert(s) ==
  /\ pc = "inserting" /\ Current(s) /\ inserted < Len(body[s])
  /\ entries' = [entries EXCEPT ![s] = @ \cup {body[s][inserted + 1]}]
  /\ inserted' = inserted + 1
  /\ UNCHANGED <<row, checksum, total, offline, remote, pc, command, force, todo,
                 attempt, body, outcome, historyVars>>

RecordSourceEarly(s) ==    \* mutant: the row is written before the entries
  /\ pc = "inserting" /\ Current(s)
  /\ row' = [row EXCEPT ![s] = Row(Len(body[s]))]
  /\ torn' = torn \ {s}
  /\ Done(s, "success")
  /\ UNCHANGED <<entries, checksum, total, offline, body>>

RecordSource(s) ==
  /\ pc = "inserting" /\ Current(s) /\ inserted = Len(body[s])
  /\ row' = [row EXCEPT ![s] = Row(Len(body[s]))]
  /\ torn' = torn \ {s}
  /\ Done(s, "success")
  /\ UNCHANGED <<entries, checksum, total, offline, body>>

(* The aggregate metadata: total_entries and checksum, and for update_all  *)
(* is_offline.  Counting is modelled by what is counted.                   *)
CountTotal ==
  /\ pc = "source" /\ todo = <<>>
  /\ total' = entries
  /\ pc' = "counted"
  /\ UNCHANGED <<entries, row, checksum, offline, remote, localVars, historyVars>>

StoreChecksumAllOnly ==    \* mutant: update_single leaves the checksum alone
  /\ pc = "counted"
  /\ checksum' = IF command = "all" THEN Digest ELSE checksum
  /\ pc' = IF command = "all" THEN "checked" ELSE "returned"
  /\ UNCHANGED <<entries, row, total, offline, remote, localVars, historyVars>>

StoreChecksum ==
  /\ pc = "counted"
  /\ checksum' = Digest
  /\ pc' = IF command = "all" THEN "checked" ELSE "returned"
  /\ UNCHANGED <<entries, row, total, offline, remote, localVars, historyVars>>

GoOnline ==
  /\ pc = "checked"
  /\ offline' = "false"
  /\ pc' = "returned"
  /\ UNCHANGED <<entries, row, checksum, total, remote, localVars, historyVars>>

(* The locals of an update go with its process, or when it has returned.   *)
Forget ==
  /\ command' = "all" /\ force' = FALSE /\ todo' = <<>>
  /\ attempt' = 1 /\ body' = [s \in Sources |-> <<>>] /\ inserted' = 0
  /\ outcome' = [s \in Sources |-> "none"]

(* An error that is not caught (sqlite3.Error, a KeyError of a parser), or *)
(* a kill: the command is over, what it has committed stays.               *)
Abort ==
  /\ pc \notin {"idle", "returned"}
  /\ pc' = "idle" /\ Forget
  /\ UNCHANGED <<dbVars, remote, historyVars>>

(* clear: a script of three deletes, each a commit of its own.             *)
ClearEntries ==
  /\ pc \in {"idle", "returned"}
  /\ entries' = [s \in Sources |-> {}]
  /\ torn' = {s \in Sources : row[s].exists}
  /\ pc' = "clearing_sources" /\ Forget
  /\ UNCHANGED <<row, checksum, total, offline, remote, commands, before>>

ClearSources ==
  /\ pc = "clearing_sources"
  /\ row' = [s \in Sources |-> NoRow]
  /\ torn' = {}
  /\ pc' = "clearing_metadata"
  /\ UNCHANGED <<entries, checksum, total, offline, remote, localVars, commands, before>>

ClearMetadata ==
  /\ pc = "clearing_metadata"
  /\ checksum' = NoDigest /\ total' = [s \in Sources |-> {}] /\ offline' = "unset"
  /\ pc' = "idle"
  /\ UNCHANGED <<entries, row, remote, localVars, historyVars>>

ClearCache == ClearEntries \/ ClearSources \/ ClearMetadata

(* Outside: a server publishes, time passes.                               *)
Publish(s, c) ==
  /\ c \in Contents[s] \ {remote[s]}
  /\ remote' = [remote EXCEPT ![s] = c]
  /\ UNCHANGED <<dbVars, pc, localVars, historyVars>>

TtlExpires(s) ==
  /\ row[s].fresh
  /\ row' = [row EXCEPT ![s].fresh = FALSE]
  /\ UNCHANGED <<entries, checksum, total, offline, remote, pc, localVars,
                 historyVars>>

SourceStep(s) ==
  \/ SkipDisabled(s) \/ StillFresh(s) \/ NotModified(s) \/ Fetch(s) \/ AttemptFails(s)
  \/ Delete(s) \/ Insert(s) \/ RecordSource(s)

Updating ==
  CountTotal \/ StoreChecksum \/ GoOnline \/ \E s \in Sources : SourceStep(s)

Next ==
  \/ \E f \in BOOLEAN : UpdateAll(f) \/ \E s \in Sources : UpdateSingle(s, f)
  \/ Updating
  \/ Abort \/ ClearCache
  \/ \E s \in Sources : TtlExpires(s) \/ \E c \in Contents[s] : Publish(s, c)

Spec == Init /\ [][Next]_vars

(* A command that runs keeps running: requests have a timeout.             *)
FairSpec == Spec /\ WF_vars(Updating)

-----------------------------------------------------------------------------
Content == [Sources -> SUBSET Cves]

FeedTypeOK ==
  /\ entries \in Content /\ before \in Content
  /\ row \in [Sources -> [exists : BOOLEAN, fresh : BOOLEAN, count : Nat]]
  /\ checksum \in [made : BOOLEAN, of : Content]
  /\ total \in Content
  /\ offline \in {"unset", "false"}
  /\ DOMAIN remote = Sources /\ \A s \in Sources : remote[s] \in Contents[s]
  /\ pc \in {"idle", "source", "parsed", "inserting", "counted", "checked", "returned",
             "clearing_sources", "clearing_metadata"}
  /\ command \in {"all", "single"} /\ force \in BOOLEAN
  /\ todo \in Seq(Sources)
  /\ attempt \in 1 .. MAX_RETRIES
  /\ DOMAIN body = Sources /\ \A s \in Sources : body[s] \in Contents[s] \cup {<<>>}
  /\ inserted \in Nat
  /\ outcome \in [Sources -> {"none", "skipped", "no_update", "failed", "success"}]
  /\ commands \in 0 .. MaxCommands
  /\ torn \subseteq Sources

(* While an update runs, and when it has returned, a source reported as a  *)
(* success holds exactly what was fetched for it, the entries a server has *)
(* withdrawn included, and one that was skipped holds what it held before. *)
(* So does one that is fresh, unmodified or failed, unless an attempt got  *)
(* past the delete: then its row is still the old one, and what it holds   *)
(* is part of one payload of its server, never a mixture of two.           *)
EachSourceAsReported ==
  pc \notin {"idle", "clearing_sources", "clearing_metadata"} =>
    \A s \in Sources :
      /\ outcome[s] = "success" => entries[s] = Rows(body[s])
      /\ outcome[s] = "skipped" => entries[s] = before[s]
      /\ outcome[s] \in {"no_update", "failed"} =>
           \/ entries[s] = before[s]
           \/ s \in torn /\ \E batch \in Contents[s] : entries[s] \subseteq Rows(batch)

VerifyIntegrity == checksum.made => checksum.of = entries

(* After any command that returned, of either kind and whatever became of  *)
(* its sources, verify_integrity holds and total_entries is the number of  *)
(* entries there are.                                                      *)
ReturnedIsVerified ==
  pc = "returned" =>
    VerifyIntegrity /\ total = entries

(* A source that is not torn holds a whole payload of its server, and its  *)
(* row the length of that payload, or it holds nothing and its row says    *)
(* so: no failure, retry, kill, 304 answer or clearing in between breaks   *)
(* that, and a torn source stays known as such until it is replaced.       *)
RowsMatchEntries ==
  \A s \in Sources \ torn :
    \/ entries[s] = {} /\ row[s].count = 0
    \/ \E batch \in Contents[s] : entries[s] = Rows(batch) /\ row[s].count = Len(batch)

(* A command ends, whatever the servers do.                                *)
UpdateEnds == (pc = "source") ~> (pc \in {"idle", "returned"})

-----------------------------------------------------------------------------
(* Statements of the documentation that the code does not keep.            *)

(* "Supports atomic writes" (feed_manager.py:260): when an update returns, *)
(* a source holds one of the payloads of its server, whatever happened to  *)
(* earlier attempts and commands.                                          *)
AtomicWrites ==
  pc = "returned" =>
    \A s \in Sources :
      row[s].exists => \E batch \in Contents[s] : entries[s] = Rows(batch)
=============================================================================

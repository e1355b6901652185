-------------------------- MODULE FeedUpdateProofs --------------------------
(* Safety of the feed cache for every list of sources, every payload they  *)
(* may serve and any number of commands, kills and aborts.                 *)
EXTENDS FeedUpdate, SequenceTheorems, TLAPS

UpdateRuns == pc \notin {"idle", "clearing_sources", "clearing_metadata"}

(* The sources still to do are different and have no outcome yet.          *)
TodoIsOpen ==
  /\ \A i, j \in 1 .. Len(todo) : todo[i] = todo[j] => i = j
  /\ \A i \in 1 .. Len(todo) : outcome[todo[i]] = "none"

(* What a source holds as long as no attempt on it succeeds.               *)
Kept(s) ==
  \/ entries[s] = before[s]
  \/ s \in torn /\ \E batch \in Contents[s] : entries[s] \subseteq Rows(batch)

OpenIsKept == UpdateRuns => \A s \in Sources : outcome[s] = "none" => Kept(s)

(* The source being replaced holds what is inserted so far.                *)
Inserted(s, n) == {body[s][i] : i \in 1 .. n}

ReplacedSoFar ==
  pc = "inserting" =>
    \A s \in Sources : Current(s) =>
      s \in torn /\ inserted <= Len(body[s]) /\ entries[s] = Inserted(s, inserted)

(* The aggregate metadata is written from entries that stay as they are.   *)
AggregateIsCurrent ==
  /\ pc \in {"counted", "checked", "returned"} => total = entries
  /\ pc \in {"checked", "returned"} => checksum.made /\ checksum.of = entries

NoRowNoCount == \A s \in Sources : ~row[s].exists => row[s].count = 0

ClearedFirst == pc = "clearing_sources" => \A s \in Sources : entries[s] = {}

TodoAtWork ==
  pc \in {"parsed", "inserting"} => todo # <<>> /\ Head(todo) \notin Disabled

DisabledIsUntouched ==
  UpdateRuns => \A s \in Disabled : entries[s] = before[s]

NoneInserted == pc # "inserting" => inserted = 0

IInv == /\ FeedTypeOK /\ TodoIsOpen /\ OpenIsKept /\ ReplacedSoFar
        /\ AggregateIsCurrent /\ NoRowNoCount /\ ClearedFirst /\ TodoAtWork
        /\ DisabledIsUntouched /\ NoneInserted /\ RowsMatchEntries
        /\ EachSourceAsReported

-----------------------------------------------------------------------------
LEMMA BatchFacts ==
  ASSUME NEW s \in Sources, NEW batch \in Contents[s] \cup {<<>>}
  PROVE  /\ Len(batch) \in Nat /\ DOMAIN batch = 1 .. Len(batch)
         /\ Rows(batch) \subseteq Cves
         /\ \E c \in Contents[s] : Rows(batch) \subseteq Rows(c)
<1>2. CASE batch = <<>>
  BY <1>2, FeedUpdateAssumption DEF Rows
<1>3. CASE batch \in Contents[s]
  <2>1. batch \in Payloads
    BY <1>3 DEF Payloads
  <2>2. batch \in Seq(Rows(batch))
    BY <2>1, FeedUpdateAssumption
  <2>3. Len(batch) \in Nat /\ DOMAIN batch = 1 .. Len(batch)
    BY <2>2, LenProperties
  <2> QED
    BY <1>3, <2>1, <2>3 DEF Cves
<1> QED
  BY <1>2, <1>3

LEMMA InsertedFacts ==
  ASSUME FeedTypeOK, NEW s \in Sources
  PROVE  /\ Len(body[s]) \in Nat
         /\ Inserted(s, 0) = {} /\ Inserted(s, Len(body[s])) = Rows(body[s])
         /\ \A n \in Nat : n <= Len(body[s]) =>
              /\ Inserted(s, n) \subseteq Cves
              /\ \E c \in Contents[s] : Inserted(s, n) \subseteq Rows(c)
         /\ \A n \in Nat : n < Len(body[s]) =>
              Inserted(s, n + 1) = Inserted(s, n) \cup {body[s][n + 1]}
<1>1. /\ Len(body[s]) \in Nat /\ DOMAIN body[s] = 1 .. Len(body[s])
      /\ Rows(body[s]) \subseteq Cves
      /\ \E c \in Contents[s] : Rows(body[s]) \subseteq Rows(c)
  BY BatchFacts DEF FeedTypeOK
<1>2. Inserted(s, 0) = {} /\ Inserted(s, Len(body[s])) = Rows(body[s])
  BY <1>1 DEF Inserted, Rows
<1>3. \A n \in Nat : n <= Len(body[s]) => Inserted(s, n) \subseteq Rows(body[s])
  BY <1>1 DEF Inserted, Rows
<1>4. ASSUME NEW n \in Nat, n < Len(body[s])
      PROVE  Inserted(s, n + 1) = Inserted(s, n) \cup {body[s][n + 1]}
  <2>1. 1 .. (n + 1) = (1 .. n) \cup {n + 1}
    OBVIOUS
  <2> QED
    BY <2>1 DEF Inserted
<1> QED
  BY <1>1, <1>2, <1>3, <1>4

LEMMA TailFacts ==
  ASSUME NEW q \in Seq(Sources), q # <<>>
  PROVE  /\ Head(q) \in Sources /\ Head(q) = q[1] /\ 1 \in 1 .. Len(q)
         /\ Tail(q) \in Seq(Sources)
         /\ \A i \in 1 .. Len(Tail(q)) : i + 1 \in 1 .. Len(q) /\ Tail(q)[i] = q[i + 1]
<1>1. Len(q) \in Nat /\ Len(q) # 0
  BY LenProperties
<1>2. Len(Tail(q)) = Len(q) - 1 /\ Tail(q) \in Seq(Sources) /\ Head(q) \in Sources
  BY HeadTailProperties
<1>3. \A i \in 1 .. Len(Tail(q)) : Tail(q)[i] = q[i + 1]
  BY HeadTailProperties
<1> QED
  BY <1>1, <1>2, <1>3

LEMMA Initially == Init => IInv
<1> SUFFICES ASSUME Init PROVE IInv
  OBVIOUS
<1> USE FeedUpdateAssumption DEF Init
<1>1. FeedTypeOK
  <2>1. entries \in Content /\ before \in Content /\ total \in Content
    BY DEF Content
  <2>2. row \in [Sources -> [exists : BOOLEAN, fresh : BOOLEAN, count : Nat]]
    BY DEF NoRow
  <2>3. checksum \in [made : BOOLEAN, of : Content]
    BY DEF NoDigest, Content
  <2>4. /\ DOMAIN remote = Sources /\ \A s \in Sources : remote[s] \in Contents[s]
        /\ DOMAIN body = Sources /\ \A s \in Sources : body[s] \in Contents[s] \cup {<<>>}
        /\ todo \in Seq(Sources)
        /\ outcome \in [Sources -> {"none", "skipped", "no_update", "failed", "success"}]
    OBVIOUS
  <2>5. attempt \in 1 .. MAX_RETRIES /\ commands \in 0 .. MaxCommands /\ inserted \in Nat
    OBVIOUS
  <2>6. force \in BOOLEAN /\ torn \subseteq Sources
    OBVIOUS
  <2> QED
    BY <2>1, <2>2, <2>3, <2>4, <2>5, <2>6 DEF FeedTypeOK
<1>2. TodoIsOpen /\ OpenIsKept /\ ReplacedSoFar /\ EachSourceAsReported /\ TodoAtWork
  BY DEF TodoIsOpen, OpenIsKept, UpdateRuns, ReplacedSoFar, EachSourceAsReported,
         TodoAtWork
<1>3. AggregateIsCurrent /\ NoRowNoCount /\ ClearedFirst /\ NoneInserted
                         /\ DisabledIsUntouched
  BY DEF AggregateIsCurrent, NoRowNoCount, NoRow, ClearedFirst, NoneInserted,
         DisabledIsUntouched, UpdateRuns
<1>4. RowsMatchEntries
  BY DEF RowsMatchEntries, NoRow
<1> QED
  BY <1>1, <1>2, <1>3, <1>4 DEF IInv

-----------------------------------------------------------------------------
(* What FeedUpdater.update leaves behind when it returns.                  *)
LEMMA DoneFacts ==
  ASSUME IInv, todo # <<>>, NEW s \in Sources, s = Head(todo),
         NEW status \in {"skipped", "no_update", "failed", "success"},
         Done(s, status)
  PROVE  /\ outcome[s] = "none" /\ inserted' = 0
         /\ todo' \in Seq(Sources) /\ TodoIsOpen'
         /\ outcome' \in [Sources -> {"none", "skipped", "no_update", "failed", "success"}]
         /\ outcome'[s] = status
         /\ \A t \in Sources \ {s} : outcome'[t] = outcome[t]
         /\ attempt' \in 1 .. MAX_RETRIES
<1> USE FeedUpdateAssumption DEF IInv, FeedTypeOK, Done
<1>1. /\ Head(todo) = todo[1] /\ 1 \in 1 .. Len(todo) /\ Tail(todo) \in Seq(Sources)
      /\ \A i \in 1 .. Len(Tail(todo)) :
           i + 1 \in 1 .. Len(todo) /\ Tail(todo)[i] = todo[i + 1]
  BY TailFacts
<1>2. outcome[s] = "none"
  BY <1>1 DEF TodoIsOpen
<1>3. /\ outcome' \in [Sources -> {"none", "skipped", "no_update", "failed", "success"}]
      /\ outcome'[s] = status
      /\ \A t \in Sources \ {s} : outcome'[t] = outcome[t]
  OBVIOUS
<1>4. \A i, j \in 1 .. Len(Tail(todo)) : Tail(todo)[i] = Tail(todo)[j] => i = j
  <2> TAKE i, j \in 1 .. Len(Tail(todo))
  <2>1. i \in Int /\ j \in Int
    OBVIOUS
  <2> QED
    BY <1>1, <2>1 DEF TodoIsOpen
<1>5. \A i \in 1 .. Len(Tail(todo)) :
        Tail(todo)[i] \in Sources \ {s} /\ outcome[Tail(todo)[i]] = "none"
  <2> TAKE i \in 1 .. Len(Tail(todo))
  <2>1. i \in Int /\ i >= 1
    OBVIOUS
  <2>2. todo[i + 1] \in Sources /\ todo[i + 1] # todo[1]
    BY <1>1, <2>1 DEF TodoIsOpen
  <2> QED
    BY <1>1, <2>2 DEF TodoIsOpen
<1>6. TodoIsOpen'
  BY <1>3, <1>4, <1>5 DEF TodoIsOpen
<1> QED
  BY <1>1, <1>2, <1>3, <1>6

(* A source that is done without success.                                  *)
LEMMA DoneUntouched ==
  ASSUME IInv, NEW s \in Sources, Current(s), pc \in {"source", "parsed", "inserting"},
         NEW status \in {"skipped", "no_update", "failed"}, Done(s, status),
         status = "skipped" => entries[s] = before[s],
         UNCHANGED <<entries, body, torn, checksum, total, offline>>,
         row' \in [Sources -> [exists : BOOLEAN, fresh : BOOLEAN, count : Nat]],
         \A t \in Sources : /\ row'[t].count = row[t].count
                            /\ row[t].exists => row'[t].exists
  PROVE  IInv'
<1>1. /\ todo' \in Seq(Sources) /\ TodoIsOpen'
      /\ outcome' \in [Sources -> {"none", "skipped", "no_update", "failed", "success"}]
      /\ outcome[s] = "none" /\ outcome'[s] = status
      /\ \A t \in Sources \ {s} : outcome'[t] = outcome[t]
      /\ attempt' \in 1 .. MAX_RETRIES /\ inserted' = 0
  BY DoneFacts DEF Current
<1> USE DEF IInv, Done
<1>2. FeedTypeOK'
  BY <1>1 DEF FeedTypeOK, Content
<1>3. /\ ReplacedSoFar' /\ AggregateIsCurrent' /\ NoRowNoCount' /\ ClearedFirst'
      /\ TodoAtWork' /\ NoneInserted' /\ DisabledIsUntouched'
  BY <1>1 DEF ReplacedSoFar, AggregateIsCurrent, NoRowNoCount, ClearedFirst, TodoAtWork,
              NoneInserted, DisabledIsUntouched, UpdateRuns
<1>4. RowsMatchEntries'
  BY DEF RowsMatchEntries
<1>5. \A t \in Sources : outcome[t] = "none" => Kept(t)
  BY DEF OpenIsKept, UpdateRuns
<1>6. \A t \in Sources : Kept(t)' <=> Kept(t)
  BY DEF Kept
<1>7. OpenIsKept'
  BY <1>1, <1>5, <1>6 DEF OpenIsKept
<1>8. EachSourceAsReported'
  <2>1. Kept(s)
    BY <1>1, <1>5
  <2> QED
    BY <1>1, <2>1 DEF EachSourceAsReported, Kept
<1> QED
  BY <1>1, <1>2, <1>3, <1>4, <1>7, <1>8

-----------------------------------------------------------------------------
LEMMA StartPreserves ==
  ASSUME IInv, NEW cmd \in {"all", "single"}, NEW f \in BOOLEAN,
         NEW sources \in Seq(Sources), Start(cmd, f, sources),
         \A i, j \in 1 .. Len(sources) : sources[i] = sources[j] => i = j
  PROVE  IInv'
<1> USE FeedUpdateAssumption DEF IInv, Start, dbVars
<1>1. FeedTypeOK'
  BY DEF FeedTypeOK, Content
<1>2. /\ ReplacedSoFar' /\ NoRowNoCount' /\ ClearedFirst' /\ TodoAtWork'
      /\ NoneInserted' /\ DisabledIsUntouched'
      /\ AggregateIsCurrent'
  BY DEF ReplacedSoFar, NoRowNoCount, ClearedFirst, TodoAtWork, NoneInserted,
         DisabledIsUntouched, UpdateRuns,
         AggregateIsCurrent
<1>3. TodoIsOpen'
  <2>1. \A i \in 1 .. Len(sources) : sources[i] \in Sources
    OBVIOUS
  <2> QED
    BY <2>1 DEF TodoIsOpen
<1>4. OpenIsKept' /\ EachSourceAsReported'
  BY DEF OpenIsKept, EachSourceAsReported, Kept
<1>5. RowsMatchEntries'
  BY DEF RowsMatchEntries
<1> QED
  BY <1>1, <1>2, <1>3, <1>4, <1>5

LEMMA FetchPreserves ==
  ASSUME IInv, NEW s \in Sources, Fetch(s)
  PROVE  IInv'
<1> USE DEF IInv, Fetch, MustFetch, Working, dbVars, historyVars
<1>1. outcome[s] = "none"
  BY TailFacts DEF FeedTypeOK, TodoIsOpen, Current
<1>2. /\ DOMAIN body' = Sources /\ body'[s] = remote[s]
      /\ \A t \in Sources \ {s} : body'[t] = body[t]
  BY DEF FeedTypeOK
<1>3. FeedTypeOK'
  BY <1>2 DEF FeedTypeOK, Content
<1>4. /\ TodoIsOpen' /\ AggregateIsCurrent' /\ NoRowNoCount' /\ TodoAtWork'
      /\ ReplacedSoFar' /\ ClearedFirst' /\ NoneInserted' /\ DisabledIsUntouched'
      /\ RowsMatchEntries'
  BY DEF TodoIsOpen, AggregateIsCurrent, NoRowNoCount, TodoAtWork, ReplacedSoFar,
         ClearedFirst, NoneInserted, DisabledIsUntouched, UpdateRuns, RowsMatchEntries,
         Current
<1>5. OpenIsKept'
  BY DEF OpenIsKept, UpdateRuns, Kept
<1>6. EachSourceAsReported'
  BY <1>1, <1>2 DEF EachSourceAsReported
<1> QED
  BY <1>3, <1>4, <1>5, <1>6

LEMMA AttemptFailsPreserves ==
  ASSUME IInv, NEW s \in Sources, AttemptFails(s)
  PROVE  IInv'
<1> USE DEF AttemptFails, MustFetch, Working, dbVars
<1>1. CASE GivesUp
  <2>1. row \in [Sources -> [exists : BOOLEAN, fresh : BOOLEAN, count : Nat]]
    BY DEF IInv, FeedTypeOK
  <2> QED
    BY <1>1, <2>1, DoneUntouched
<1>2. CASE ~GivesUp
  <2> USE <1>2, FeedUpdateAssumption DEF IInv
  <2>1. attempt' \in 1 .. MAX_RETRIES
    BY DEF GivesUp, FeedTypeOK
  <2>2. FeedTypeOK'
    BY <2>1 DEF FeedTypeOK, Content
  <2>3. /\ TodoIsOpen' /\ ReplacedSoFar' /\ AggregateIsCurrent' /\ NoRowNoCount'
        /\ ClearedFirst' /\ TodoAtWork' /\ NoneInserted' /\ DisabledIsUntouched'
        /\ RowsMatchEntries'
    BY DEF TodoIsOpen, ReplacedSoFar, AggregateIsCurrent, NoRowNoCount, ClearedFirst,
           TodoAtWork, NoneInserted, DisabledIsUntouched, UpdateRuns, RowsMatchEntries
  <2>4. OpenIsKept' /\ EachSourceAsReported'
    BY DEF OpenIsKept, UpdateRuns, Kept, EachSourceAsReported
  <2> QED
    BY <2>2, <2>3, <2>4
<1> QED
  BY <1>1, <1>2

LEMMA DeletePreserves ==
  ASSUME IInv, NEW s \in Sources, Delete(s)
  PROVE  IInv'
<1> USE DEF IInv, Delete
<1>1. /\ entries' \in Content /\ entries'[s] = {}
      /\ \A t \in Sources \ {s} : entries'[t] = entries[t]
  BY DEF FeedTypeOK, Content
<1>2. FeedTypeOK'
  BY <1>1 DEF FeedTypeOK, Content
<1>3. /\ TodoIsOpen' /\ AggregateIsCurrent' /\ NoRowNoCount' /\ TodoAtWork'
      /\ ClearedFirst' /\ NoneInserted'
  BY DEF TodoIsOpen, AggregateIsCurrent, NoRowNoCount, TodoAtWork, ClearedFirst,
         NoneInserted
<1>4. RowsMatchEntries'
  BY <1>1 DEF RowsMatchEntries
<1>5. outcome[s] = "none"
  BY TailFacts DEF FeedTypeOK, TodoIsOpen, Current
<1>6. ReplacedSoFar'
  <2>1. inserted = 0 /\ Inserted(s, 0) = {} /\ Len(body[s]) \in Nat
    BY InsertedFacts DEF NoneInserted
  <2>2. Inserted(s, inserted)' = {}
    BY <2>1 DEF Inserted
  <2>3. s \in torn' /\ inserted' <= Len(body'[s])
    BY <2>1
  <2>4. entries'[s] = Inserted(s, inserted)'
    BY <1>1, <2>2
  <2>5. \A t \in Sources : Current(t)' => t = s
    BY DEF Current
  <2> QED
    BY <2>3, <2>4, <2>5 DEF ReplacedSoFar
<1>7. OpenIsKept' /\ EachSourceAsReported'
  <2>1. Kept(s)'
    BY <1>1, FeedUpdateAssumption DEF Kept
  <2>2. \A t \in Sources \ {s} : Kept(t) => Kept(t)'
    BY <1>1 DEF Kept
  <2> QED
    BY <1>1, <1>5, <2>1, <2>2 DEF OpenIsKept, EachSourceAsReported, UpdateRuns
<1>8. DisabledIsUntouched'
  BY <1>1, FeedUpdateAssumption
  DEF DisabledIsUntouched, UpdateRuns, Current, TodoAtWork
<1> QED
  BY <1>2, <1>3, <1>4, <1>6, <1>7, <1>8

LEMMA InsertPreserves ==
  ASSUME IInv, NEW s \in Sources, Insert(s)
  PROVE  IInv'
<1> USE DEF IInv, Insert, historyVars
<1>1. /\ inserted \in Nat /\ Len(body[s]) \in Nat /\ s \in torn
      /\ entries[s] = Inserted(s, inserted)
  BY InsertedFacts DEF ReplacedSoFar, FeedTypeOK
<1>2. /\ Inserted(s, inserted + 1) = entries[s] \cup {body[s][inserted + 1]}
      /\ Inserted(s, inserted + 1) \subseteq Cves
      /\ \E c \in Contents[s] : Inserted(s, inserted + 1) \subseteq Rows(c)
  <2>1. inserted + 1 \in Nat /\ inserted + 1 <= Len(body[s]) /\ inserted < Len(body[s])
    BY <1>1
  <2>2. /\ \A n \in Nat : n <= Len(body[s]) =>
             /\ Inserted(s, n) \subseteq Cves
             /\ \E c \in Contents[s] : Inserted(s, n) \subseteq Rows(c)
        /\ \A n \in Nat : n < Len(body[s]) =>
             Inserted(s, n + 1) = Inserted(s, n) \cup {body[s][n + 1]}
    BY InsertedFacts
  <2> HIDE DEF IInv, Insert
  <2>3. Inserted(s, inserted + 1) = Inserted(s, inserted) \cup {body[s][inserted + 1]}
    BY <1>1, <2>1, <2>2
  <2>4. /\ Inserted(s, inserted + 1) \subseteq Cves
        /\ \E c \in Contents[s] : Inserted(s, inserted + 1) \subseteq Rows(c)
    BY <2>1, <2>2
  <2> QED
    BY <1>1, <2>3, <2>4
<1>3. /\ entries' \in Content /\ entries'[s] = Inserted(s, inserted + 1)
      /\ \A t \in Sources \ {s} : entries'[t] = entries[t]
  BY <1>2 DEF FeedTypeOK, Content
<1>4. FeedTypeOK'
  BY <1>3 DEF FeedTypeOK, Content
<1>5. /\ TodoIsOpen' /\ AggregateIsCurrent' /\ NoRowNoCount' /\ TodoAtWork'
      /\ ClearedFirst' /\ NoneInserted'
  BY DEF TodoIsOpen, AggregateIsCurrent, NoRowNoCount, TodoAtWork, ClearedFirst,
         NoneInserted
<1>6. RowsMatchEntries'
  BY <1>1, <1>3 DEF RowsMatchEntries
<1>7. outcome[s] = "none"
  BY TailFacts DEF FeedTypeOK, TodoIsOpen, Current
<1>8. ReplacedSoFar'
  <2>2. Inserted(s, inserted)' = Inserted(s, inserted + 1)
    BY DEF Inserted
  <2> QED
    BY <1>1, <1>3, <2>2 DEF ReplacedSoFar, Current
<1>9. OpenIsKept' /\ EachSourceAsReported'
  <2>1. Kept(s)'
    BY <1>1, <1>2, <1>3 DEF Kept
  <2>2. \A t \in Sources \ {s} : Kept(t) => Kept(t)'
    BY <1>3 DEF Kept
  <2> QED
    BY <1>3, <1>7, <2>1, <2>2 DEF OpenIsKept, EachSourceAsReported, UpdateRuns
<1>10. DisabledIsUntouched'
  BY <1>3, FeedUpdateAssumption
  DEF DisabledIsUntouched, UpdateRuns, Current, TodoAtWork
<1> QED
  BY <1>4, <1>5, <1>6, <1>8, <1>9, <1>10

LEMMA RecordSourcePreserves ==
  ASSUME IInv, NEW s \in Sources, RecordSource(s)
  PROVE  IInv'
<1> USE DEF IInv, RecordSource
<1>1. /\ todo' \in Seq(Sources) /\ TodoIsOpen'
      /\ outcome' \in [Sources -> {"none", "skipped", "no_update", "failed", "success"}]
      /\ outcome'[s] = "success"
      /\ \A t \in Sources \ {s} : outcome'[t] = outcome[t]
      /\ attempt' \in 1 .. MAX_RETRIES /\ inserted' = 0
  BY DoneFacts DEF Current
<1>2. Len(body[s]) \in Nat /\ entries[s] = Rows(body[s])
  BY InsertedFacts DEF ReplacedSoFar
<1>3. /\ row' \in [Sources -> [exists : BOOLEAN, fresh : BOOLEAN, count : Nat]]
      /\ row'[s].exists /\ row'[s].count = Len(body[s])
      /\ \A t \in Sources \ {s} : row'[t] = row[t]
  BY <1>2 DEF FeedTypeOK, Row
<1> USE DEF Done
<1>4. FeedTypeOK'
  BY <1>1, <1>3 DEF FeedTypeOK, Content
<1>5. /\ AggregateIsCurrent' /\ NoRowNoCount' /\ TodoAtWork' /\ ReplacedSoFar'
      /\ ClearedFirst' /\ NoneInserted' /\ DisabledIsUntouched'
  BY <1>1, <1>3 DEF AggregateIsCurrent, NoRowNoCount, TodoAtWork, ReplacedSoFar,
                    ClearedFirst, NoneInserted, DisabledIsUntouched, UpdateRuns
<1>6. RowsMatchEntries'
  <2>1. CASE body[s] = <<>>
    <3>1. Len(body[s]) = 0 /\ Rows(body[s]) = {}
      BY <2>1 DEF Rows
    <3> QED
      BY <1>2, <1>3, <3>1 DEF RowsMatchEntries
  <2>2. CASE body[s] \in Contents[s]
    BY <1>2, <1>3, <2>2 DEF RowsMatchEntries
  <2> QED
    BY <2>1, <2>2 DEF FeedTypeOK
<1>7. OpenIsKept' /\ EachSourceAsReported'
  <2>1. \A t \in Sources \ {s} : Kept(t) => Kept(t)'
    BY DEF Kept
  <2> QED
    BY <1>1, <1>2, <2>1 DEF OpenIsKept, EachSourceAsReported, UpdateRuns
<1> QED
  BY <1>1, <1>4, <1>5, <1>6, <1>7

LEMMA AggregatePreserves ==
  ASSUME IInv, CountTotal \/ StoreChecksum \/ GoOnline
  PROVE  IInv'
<1> USE DEF IInv, CountTotal, StoreChecksum, GoOnline, Digest, localVars, historyVars
<1>1. FeedTypeOK'
  <2>0. checksum \in [made : BOOLEAN, of : Content] /\ entries \in Content
    BY DEF FeedTypeOK
  <2>1. checksum' \in [made : BOOLEAN, of : Content]
    <3>1. CASE StoreChecksum
      <4>1. checksum' = [made |-> TRUE, of |-> entries]
        BY <3>1
      <4> HIDE DEF StoreChecksum, Digest, CountTotal, GoOnline
      <4> QED
        BY <4>1, <2>0
    <3>2. CASE CountTotal \/ GoOnline
      BY <2>0, <3>2
    <3> QED
      BY <3>1, <3>2
  <2>2. total' \in Content /\ offline' \in {"unset", "false"}
    BY DEF FeedTypeOK
  <2>3. UNCHANGED <<entries, row, remote, localVars, historyVars>>
    OBVIOUS
  <2>4. pc' \in {"counted", "checked", "returned"}
    OBVIOUS
  <2> QED
    BY <2>1, <2>2, <2>3, <2>4 DEF FeedTypeOK, Content
<1>2. AggregateIsCurrent'
  BY DEF AggregateIsCurrent
<1>3. /\ TodoIsOpen' /\ NoRowNoCount' /\ TodoAtWork' /\ ReplacedSoFar' /\ ClearedFirst'
      /\ NoneInserted' /\ DisabledIsUntouched' /\ RowsMatchEntries'
  BY DEF TodoIsOpen, NoRowNoCount, TodoAtWork, ReplacedSoFar, ClearedFirst, NoneInserted,
         DisabledIsUntouched, UpdateRuns,
         RowsMatchEntries
<1>4. OpenIsKept' /\ EachSourceAsReported'
  BY DEF OpenIsKept, UpdateRuns, Kept, EachSourceAsReported
<1> QED
  BY <1>1, <1>2, <1>3, <1>4

(* A command that is over has no sources left to speak of.                 *)
LEMMA ForgetFacts ==
  ASSUME IInv, Forget
  PROVE  /\ todo' \in Seq(Sources) /\ TodoIsOpen' /\ inserted' = 0
         /\ outcome' \in [Sources -> {"none", "skipped", "no_update", "failed", "success"}]
         /\ attempt' \in 1 .. MAX_RETRIES /\ command' = "all" /\ force' = FALSE
         /\ DOMAIN body' = Sources
         /\ \A s \in Sources : body'[s] \in Contents[s] \cup {<<>>}
  BY FeedUpdateAssumption DEF Forget, TodoIsOpen

LEMMA AbortPreserves ==
  ASSUME IInv, Abort
  PROVE  IInv'
<1>1. /\ todo' \in Seq(Sources) /\ TodoIsOpen' /\ inserted' = 0
      /\ outcome' \in [Sources -> {"none", "skipped", "no_update", "failed", "success"}]
      /\ attempt' \in 1 .. MAX_RETRIES /\ command' = "all" /\ force' = FALSE
      /\ DOMAIN body' = Sources /\ \A s \in Sources : body'[s] \in Contents[s] \cup {<<>>}
  BY ForgetFacts DEF Abort
<1> USE <1>1 DEF IInv, Abort, dbVars, historyVars
<1>2. FeedTypeOK'
  BY DEF FeedTypeOK, Content
<1>3. /\ OpenIsKept' /\ ReplacedSoFar' /\ AggregateIsCurrent' /\ NoRowNoCount'
      /\ ClearedFirst' /\ TodoAtWork' /\ NoneInserted' /\ DisabledIsUntouched'
      /\ EachSourceAsReported'
  BY DEF OpenIsKept, UpdateRuns, ReplacedSoFar, AggregateIsCurrent, NoRowNoCount,
         ClearedFirst, TodoAtWork, NoneInserted, DisabledIsUntouched, UpdateRuns,
         EachSourceAsReported
<1>4. RowsMatchEntries'
  BY DEF RowsMatchEntries
<1> QED
  BY <1>2, <1>3, <1>4

LEMMA ClearCachePreserves ==
  ASSUME IInv, ClearCache
  PROVE  IInv'
<1>1. CASE ClearEntries
  <2>1. /\ todo' \in Seq(Sources) /\ TodoIsOpen' /\ inserted' = 0
        /\ outcome' \in [Sources -> {"none", "skipped", "no_update", "failed", "success"}]
        /\ attempt' \in 1 .. MAX_RETRIES /\ command' = "all" /\ force' = FALSE
        /\ DOMAIN body' = Sources
        /\ \A s \in Sources : body'[s] \in Contents[s] \cup {<<>>}
    BY <1>1, ForgetFacts DEF ClearEntries
  <2> USE <1>1, <2>1 DEF IInv, ClearEntries
  <2>2. FeedTypeOK'
    BY DEF FeedTypeOK, Content
  <2>3. /\ OpenIsKept' /\ ReplacedSoFar' /\ AggregateIsCurrent' /\ NoRowNoCount'
        /\ ClearedFirst' /\ TodoAtWork' /\ NoneInserted' /\ DisabledIsUntouched'
        /\ EachSourceAsReported'
    BY DEF OpenIsKept, UpdateRuns, ReplacedSoFar, AggregateIsCurrent, NoRowNoCount,
           ClearedFirst, TodoAtWork, NoneInserted, DisabledIsUntouched, UpdateRuns,
           EachSourceAsReported
  <2>4. RowsMatchEntries'
    BY DEF RowsMatchEntries, NoRowNoCount
  <2> QED
    BY <2>2, <2>3, <2>4
<1>2. CASE ClearSources
  <2> USE <1>2 DEF IInv, ClearSources, localVars
  <2>1. FeedTypeOK'
    BY DEF FeedTypeOK, Content, NoRow
  <2>2. /\ TodoIsOpen' /\ OpenIsKept' /\ ReplacedSoFar' /\ AggregateIsCurrent'
        /\ NoRowNoCount' /\ ClearedFirst' /\ TodoAtWork' /\ NoneInserted'
        /\ DisabledIsUntouched'
        /\ EachSourceAsReported'
    BY DEF TodoIsOpen, OpenIsKept, UpdateRuns, ReplacedSoFar, AggregateIsCurrent,
           NoRowNoCount, NoRow, ClearedFirst, TodoAtWork, NoneInserted,
           DisabledIsUntouched, UpdateRuns, EachSourceAsReported
  <2>3. RowsMatchEntries'
    BY DEF RowsMatchEntries, ClearedFirst, NoRow
  <2> QED
    BY <2>1, <2>2, <2>3
<1>3. CASE ClearMetadata
  <2> USE <1>3 DEF IInv, ClearMetadata, localVars, historyVars
  <2>1. checksum' \in [made : BOOLEAN, of : Content] /\ total' \in Content
    BY DEF NoDigest, Content
  <2>2. FeedTypeOK'
    BY <2>1 DEF FeedTypeOK, Content
  <2>3. /\ TodoIsOpen' /\ OpenIsKept' /\ ReplacedSoFar' /\ AggregateIsCurrent'
        /\ NoRowNoCount' /\ ClearedFirst' /\ TodoAtWork' /\ NoneInserted'
        /\ DisabledIsUntouched'
        /\ EachSourceAsReported' /\ RowsMatchEntries'
    BY DEF TodoIsOpen, OpenIsKept, UpdateRuns, ReplacedSoFar, AggregateIsCurrent,
           NoRowNoCount, ClearedFirst, TodoAtWork, NoneInserted, DisabledIsUntouched,
           UpdateRuns, EachSourceAsReported,
           RowsMatchEntries
  <2> QED
    BY <2>2, <2>3
<1> QED
  BY <1>1, <1>2, <1>3 DEF ClearCache

LEMMA OutsidePreserves ==
  ASSUME IInv, NEW s \in Sources,
         TtlExpires(s) \/ \E c \in Contents[s] : Publish(s, c)
  PROVE  IInv'
<1> USE DEF IInv, TtlExpires, Publish, dbVars, localVars, historyVars
<1>1. /\ row' \in [Sources -> [exists : BOOLEAN, fresh : BOOLEAN, count : Nat]]
      /\ \A t \in Sources : row'[t].count = row[t].count /\ row'[t].exists = row[t].exists
  <2>1. CASE TtlExpires(s)
    BY <2>1 DEF FeedTypeOK
  <2>2. CASE row' = row
    BY <2>2 DEF FeedTypeOK
  <2> QED
    BY <2>1, <2>2
<1>2. DOMAIN remote' = Sources /\ \A t \in Sources : remote'[t] \in Contents[t]
  <2>1. CASE TtlExpires(s)
    BY <2>1 DEF FeedTypeOK
  <2>2. ASSUME NEW c \in Contents[s], Publish(s, c)
        PROVE  DOMAIN remote' = Sources /\ \A t \in Sources : remote'[t] \in Contents[t]
    BY <2>2 DEF FeedTypeOK
  <2> QED
    BY <2>1, <2>2
<1>3. FeedTypeOK'
  BY <1>1, <1>2 DEF FeedTypeOK, Content
<1>4. /\ TodoIsOpen' /\ AggregateIsCurrent' /\ ClearedFirst' /\ TodoAtWork'
      /\ NoneInserted' /\ DisabledIsUntouched'
  BY DEF TodoIsOpen, AggregateIsCurrent, ClearedFirst, TodoAtWork, NoneInserted,
         DisabledIsUntouched, UpdateRuns
<1>5. NoRowNoCount' /\ RowsMatchEntries'
  BY <1>1 DEF NoRowNoCount, RowsMatchEntries
<1>6. OpenIsKept' /\ EachSourceAsReported'
  BY DEF OpenIsKept, UpdateRuns, Kept, EachSourceAsReported
<1>7. ReplacedSoFar'
  BY DEF ReplacedSoFar, Current, Inserted
<1> QED
  BY <1>3, <1>4, <1>5, <1>6, <1>7

-----------------------------------------------------------------------------
LEMMA Preserved == IInv /\ [Next]_vars => IInv'
<1> SUFFICES ASSUME IInv, [Next]_vars PROVE IInv'
  OBVIOUS
<1>1. ASSUME NEW f \in BOOLEAN, UpdateAll(f) PROVE IInv'
  BY <1>1, StartPreserves, FeedUpdateAssumption DEF UpdateAll
<1>2. ASSUME NEW f \in BOOLEAN, NEW s \in Sources, UpdateSingle(s, f) PROVE IInv'
  <2>1. <<s>> \in Seq(Sources) /\ \A i, j \in 1 .. Len(<<s>>) : <<s>>[i] = <<s>>[j] => i = j
    OBVIOUS
  <2> QED
    BY <1>2, <2>1, StartPreserves DEF UpdateSingle
<1>3. ASSUME NEW s \in Sources, SkipDisabled(s) \/ StillFresh(s) PROVE IInv'
  <2>1. row \in [Sources -> [exists : BOOLEAN, fresh : BOOLEAN, count : Nat]]
    BY DEF IInv, FeedTypeOK
  <2>2. CASE SkipDisabled(s)
    <3>1. entries[s] = before[s]
      BY <2>2 DEF IInv, DisabledIsUntouched, UpdateRuns, SkipDisabled, Working
    <3> QED
      BY <2>1, <2>2, <3>1, DoneUntouched DEF SkipDisabled, Working, dbVars
  <2>3. CASE StillFresh(s)
    BY <2>1, <2>3, DoneUntouched DEF StillFresh, Working, dbVars
  <2> QED
    BY <1>3, <2>2, <2>3
<1>4. ASSUME NEW s \in Sources, NotModified(s) PROVE IInv'
  <2>1. /\ row' \in [Sources -> [exists : BOOLEAN, fresh : BOOLEAN, count : Nat]]
        /\ \A t \in Sources : /\ row'[t].count = row[t].count
                              /\ row[t].exists => row'[t].exists
    BY <1>4 DEF IInv, FeedTypeOK, NoRowNoCount, NotModified, Row
  <2> QED
    BY <1>4, <2>1, DoneUntouched DEF NotModified, MustFetch, Working
<1>5. ASSUME NEW s \in Sources, SourceStep(s) PROVE IInv'
  BY <1>3, <1>4, <1>5, FetchPreserves, AttemptFailsPreserves, DeletePreserves,
     InsertPreserves, RecordSourcePreserves DEF SourceStep
<1>6. CASE Updating
  BY <1>5, <1>6, AggregatePreserves DEF Updating
<1>7. CASE Abort \/ ClearCache
  BY <1>7, AbortPreserves, ClearCachePreserves
<1>8. ASSUME NEW s \in Sources, TtlExpires(s) \/ \E c \in Contents[s] : Publish(s, c)
      PROVE  IInv'
  BY <1>8, OutsidePreserves
<1>9. CASE UNCHANGED vars
  <2> USE <1>9 DEF vars, dbVars, localVars, historyVars, IInv
  <2>1. FeedTypeOK'
    BY DEF FeedTypeOK, Content
  <2>2. TodoIsOpen' /\ OpenIsKept' /\ DisabledIsUntouched' /\ EachSourceAsReported'
    BY DEF TodoIsOpen, OpenIsKept, DisabledIsUntouched, UpdateRuns, Kept,
           EachSourceAsReported
  <2>3. ReplacedSoFar'
    BY DEF ReplacedSoFar, Current, Inserted
  <2>4. /\ AggregateIsCurrent' /\ NoRowNoCount' /\ ClearedFirst' /\ TodoAtWork'
        /\ NoneInserted' /\ DisabledIsUntouched' /\ RowsMatchEntries'
    BY DEF AggregateIsCurrent, NoRowNoCount, ClearedFirst, TodoAtWork, NoneInserted,
           DisabledIsUntouched, UpdateRuns,
           RowsMatchEntries
  <2> QED
    BY <2>1, <2>2, <2>3, <2>4
<1> QED
  BY <1>1, <1>2, <1>5, <1>6, <1>7, <1>8, <1>9 DEF Next

LEMMA Invariance == Spec => []IInv
  BY Initially, Preserved, PTL DEF Spec

(* The cache and the locals of a command keep their types, the remaining   *)
(* attempts their range.                                                   *)
THEOREM FeedTypeCorrect == Spec => []FeedTypeOK
<1>1. IInv => FeedTypeOK
  BY DEF IInv
<1> QED
  BY <1>1, Invariance, PTL

(* A source reported as a success holds what was fetched, all of it and    *)
(* nothing else; any other holds what it held when the command started,    *)
(* or, with an attempt that got past the delete, part of one payload.      *)
THEOREM SourcesAreAsReported == Spec => []EachSourceAsReported
<1>1. IInv => EachSourceAsReported
  BY DEF IInv
<1> QED
  BY <1>1, Invariance, PTL

(* verify_integrity succeeds after every command that returned.            *)
THEOREM ReturnedCacheIsVerified == Spec => []ReturnedIsVerified
<1>1. IInv => ReturnedIsVerified
  BY DEF IInv, AggregateIsCurrent, ReturnedIsVerified, VerifyIntegrity
<1> QED
  BY <1>1, Invariance, PTL

(* The row and the entries of a source that is not torn are of one payload. *)
THEOREM RowsAreOfTheEntries == Spec => []RowsMatchEntries
<1>1. IInv => RowsMatchEntries
  BY DEF IInv
<1> QED
  BY <1>1, Invariance, PTL
=============================================================================

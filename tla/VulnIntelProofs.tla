-------------------------- MODULE VulnIntelProofs ---------------------------
(* Proofs about the vulnerability intelligence, for any threads, contents of *)
(* the files and hosts. No call returns a default database older than the   *)
(* last reload, and the lookups never see more of it than that. What a lookup *)
(* reports of a product has no gaps, no measure of a host raises what a path *)
(* or a vulnerability of it is given, no score leaves its bounds, and a scan  *)
(* that finds more reports more.                                            *)
EXTENDS VulnIntel, VulnEngineProofs

(* Who loads holds the lock.                                                *)
LoaderHoldsLock == \A t \in Thread : pc[t] \in {"load", "publish"} => lock = t

(* What is published, or read and about to be, is no older than the last    *)
(* reload: no load is under way while the global is emptied.                *)
NothingStale ==
  /\ lastReset <= files
  /\ default # None => lastReset <= default
  /\ \A t \in Thread : /\ since[t] <= lastReset
                       /\ pc[t] = "publish" => lastReset <= loaded[t] /\ loaded[t] # None

IInv == DatabaseTypeOK /\ LoaderHoldsLock /\ NothingStale /\ ReloadIsSeen

LEMMA InitIInv == DatabaseInit => IInv
  BY DefaultDatabaseAssumption
     DEF DatabaseInit, IInv, DatabaseTypeOK, LoaderHoldsLock, NothingStale, ReloadIsSeen, Places, Raised, None

LEMMA CallIInv ==
  ASSUME IInv, NEW t \in Thread, Call(t) \/ Check(t) \/ CallReload(t) \/ Leave(t)
  PROVE  IInv'
<1> USE DefaultDatabaseAssumption
    DEF IInv, DatabaseTypeOK, Places, Goto, Call, Check, CallReload, Leave, None, Raised
<1>1. DatabaseTypeOK'
  OBVIOUS
<1>2. LoaderHoldsLock'
  BY DEF LoaderHoldsLock
<1>3. NothingStale'
  BY DEF NothingStale
<1>4. ReloadIsSeen'
  BY DEF ReloadIsSeen
<1> QED
  BY <1>1, <1>2, <1>3, <1>4

LEMMA AcquireIInv ==
  ASSUME IInv, NEW t \in Thread, Acquire(t)
  PROVE  IInv'
<1> USE DefaultDatabaseAssumption
    DEF IInv, DatabaseTypeOK, Places, Goto, Returns, Acquire, None, Raised
<1>1. DatabaseTypeOK'
  OBVIOUS
<1>2. LoaderHoldsLock'
  BY DEF LoaderHoldsLock, NoBody
<1>3. NothingStale'
  BY DEF NothingStale
<1>4. ReloadIsSeen'
  BY DEF ReloadIsSeen, NothingStale
<1> QED
  BY <1>1, <1>2, <1>3, <1>4

LEMMA LoadIInv ==
  ASSUME IInv, NEW t \in Thread, Load(t)
  PROVE  IInv'
<1> USE DefaultDatabaseAssumption
    DEF IInv, DatabaseTypeOK, Places, Goto, Returns, Load, None, Raised
<1>1. DatabaseTypeOK'
  OBVIOUS
<1>2. LoaderHoldsLock'
  BY DEF LoaderHoldsLock
<1>3. NothingStale'
  BY DEF NothingStale
<1>4. ReloadIsSeen'
  BY DEF ReloadIsSeen
<1> QED
  BY <1>1, <1>2, <1>3, <1>4

LEMMA PublishIInv ==
  ASSUME IInv, NEW t \in Thread, Publish(t) \/ Return(t)
  PROVE  IInv'
<1> USE DefaultDatabaseAssumption
    DEF IInv, DatabaseTypeOK, Places, Goto, Returns, Publish, Return, None, Raised
<1>1. DatabaseTypeOK'
  OBVIOUS
<1>2. LoaderHoldsLock'
  BY DEF LoaderHoldsLock
<1>3. NothingStale'
  BY DEF NothingStale
<1>4. ReloadIsSeen'
  BY DEF ReloadIsSeen, NothingStale
<1> QED
  BY <1>1, <1>2, <1>3, <1>4

(* The step the lock is for: nobody is loading when the global is emptied.  *)
LEMMA ResetIInv ==
  ASSUME IInv, NEW t \in Thread, Reset(t)
  PROVE  IInv'
<1> USE DefaultDatabaseAssumption
    DEF IInv, DatabaseTypeOK, Places, Goto, Reset, None, Raised
<1>1. DatabaseTypeOK'
  OBVIOUS
<1>2. LoaderHoldsLock'
  BY DEF LoaderHoldsLock
<1>3. \A u \in Thread : pc[u] # "publish" /\ pc'[u] # "publish"
  BY DEF LoaderHoldsLock
<1>4. NothingStale'
  BY <1>3 DEF NothingStale
<1>5. ReloadIsSeen'
  BY DEF ReloadIsSeen
<1> QED
  BY <1>1, <1>2, <1>4, <1>5

LEMMA FilesIInv == IInv /\ ChangeFiles => IInv'
  BY DefaultDatabaseAssumption
     DEF IInv, DatabaseTypeOK, LoaderHoldsLock, NothingStale, ReloadIsSeen, ChangeFiles, Raised, None

(* IInv is an invariant of every instance.                                  *)
THEOREM DatabaseInvariance == DatabaseSpec => []IInv
<1>1. IInv /\ [DatabaseNext]_dbvars => IInv'
  <2> SUFFICES ASSUME IInv, [DatabaseNext]_dbvars PROVE IInv'
    OBVIOUS
  <2>1. CASE ChangeFiles
    BY <2>1, FilesIInv
  <2>2. ASSUME NEW t \in Thread, Step(t) \/ Leave(t) PROVE IInv'
    BY <2>2, CallIInv, AcquireIInv, LoadIInv, PublishIInv, ResetIInv DEF Step
  <2>3. CASE UNCHANGED dbvars
    BY <2>3 DEF dbvars, IInv, DatabaseTypeOK, LoaderHoldsLock, NothingStale, ReloadIsSeen
  <2> QED
    BY <2>1, <2>2, <2>3 DEF DatabaseNext
<1> QED
  BY InitIInv, <1>1, PTL DEF DatabaseSpec

(* Whatever the threads do and however often the files change, what         *)
(* get_default_db returns is no older than the last reload before the call. *)
THEOREM ReloadsAreSeen == DatabaseSpec => []ReloadIsSeen
<1>1. IInv => ReloadIsSeen
  BY DEF IInv
<1> QED
  BY <1>1, DatabaseInvariance, PTL

-----------------------------------------------------------------------------
(* The lookups of any number of threads, whatever hosts they look at,       *)
(* implement the default database on its own.                               *)
THEOREM LookupsUseDefaultDatabase == Spec => DatabaseSpec
<1>1. Init => DatabaseInit
  BY DEF Init
<1>2. [Next]_vars => [DatabaseNext]_dbvars
  BY DEF Next, vars, dbvars, DatabaseNext, Lookups, NextScan, scanvars
<1> QED
  BY <1>1, <1>2, PTL DEF Spec, DatabaseSpec

(* So a lookup that starts after a reload never uses an older database.     *)
THEOREM LookupsSeeReloads == Spec => []ReloadIsSeen
  BY LookupsUseDefaultDatabase, ReloadsAreSeen, PTL

-----------------------------------------------------------------------------
(* What threads report.                                                     *)

(* The findings of a host are those of its batches.                         *)
LEMMA FindingsOfFacts ==
  ASSUME NEW batches
  PROVE  /\ FindingsOf(batches) \in Seq(AllFindings)
         /\ \A f : f \in Range(FindingsOf(batches))
                     <=> \E i \in DOMAIN Batches : i \in batches /\ f \in Range(Batches[i])
<1> DEFINE shown == [i \in DOMAIN Batches |-> IF i \in batches THEN Batches[i] ELSE <<>>]
<1>1. shown \in Seq(Seq(AllFindings)) /\ DOMAIN shown = DOMAIN Batches
  <2>1. Len(Batches) \in Nat /\ DOMAIN Batches = 1 .. Len(Batches)
        /\ \A i \in 1 .. Len(Batches) : Batches[i] \in Seq(AllFindings)
    BY VulnIntelAssumption
  <2>2. shown \in [1 .. Len(Batches) -> Seq(AllFindings)] /\ DOMAIN shown = DOMAIN Batches
    BY <2>1
  <2> HIDE DEF shown
  <2> QED
    BY <2>1, <2>2, IsASequence, Zenon
<1>2. \A i \in DOMAIN Batches : shown[i] = IF i \in batches THEN Batches[i] ELSE <<>>
  OBVIOUS
<1>3. FindingsOf(batches) = FlattenSeq(shown)
  BY DEF FindingsOf
<1> HIDE DEF shown
<1>4. /\ FlattenSeq(shown) \in Seq(AllFindings)
      /\ Range(FlattenSeq(shown)) = UNION {Range(shown[i]) : i \in DOMAIN shown}
  BY <1>1, FlattenFacts, Zenon
<1>5. \A f : f \in Range(FindingsOf(batches)) <=> \E i \in DOMAIN Batches : f \in Range(shown[i])
  BY <1>1, <1>3, <1>4, Zenon
<1>6. Range(<<>>) = {}
  BY DEF Range
<1>7. \A f : \A i \in DOMAIN Batches :
        f \in Range(shown[i]) <=> i \in batches /\ f \in Range(Batches[i])
  BY <1>2, <1>6
<1> QED
  BY <1>3, <1>4, <1>5, <1>7, Zenon

(* A host that shows no batch has no findings.                              *)
LEMMA NoBatches == FindingsOf({}) = <<>>
<1>1. \A f : f \notin Range(FindingsOf({}))
  <2>1. \A batches : \A f : f \in Range(FindingsOf(batches)) => \E i : i \in batches
    BY FindingsOfFacts, Zenon
  <2> QED
    BY <2>1
<1>2. FindingsOf({}) \in Seq(AllFindings)
  BY FindingsOfFacts, Zenon
<1>3. DOMAIN FindingsOf({}) = {}
  BY <1>1, Zenon DEF Range
<1> DEFINE none == FindingsOf({})
<1>4. none \in Seq(AllFindings) /\ DOMAIN none = {}
  BY <1>2, <1>3
<1> HIDE DEF none
<1>5. none = <<>>
  BY <1>4
<1> QED
  BY <1>5 DEF none

(* Every report is what a lookup of some host in some contents comes to.    *)
ReportOf(database, batches) ==
  LET inventory == BuildSoftwareInventory(FindingsOf(batches))
      matches   == Run(Contents[database], inventory)
  IN [outcome |-> "done", database |-> database, inventory |-> inventory, matches |-> matches,
      stats |-> ComputeVulnStats(matches, Len(inventory))]
NoLookup ==
  {NoReport} \cup {[NoReport EXCEPT !.outcome = o] : o \in {"AssertionError", "JSONDecodeError"}}
ReportsOf(database) == {ReportOf(database, batches) : batches \in SUBSET (DOMAIN Batches)}
Reports == NoLookup \cup UNION {ReportsOf(database) : database \in 1 .. MaxFiles}

HostInv == found \subseteq DOMAIN Batches /\ report \in [Thread -> Reports]

(* A call that ends leaves a report of what it returned.                    *)
LEMMA LookupReports ==
  ASSUME IInv, HostInv, NEW t \in Thread, Lookups(t)
  PROVE  report' \in [Thread -> Reports]
<1> DEFINE new == IF got[t] = None THEN [NoReport EXCEPT !.outcome = "AssertionError"]
                  ELSE IF got[t] = Raised THEN [NoReport EXCEPT !.outcome = "JSONDecodeError"]
                  ELSE ReportOf(got[t], found)
<1>1. report' = [report EXCEPT ![t] = new]
  BY DEF Lookups, ReportOf
<1>2. got[t] \in 0 .. Raised
  BY DEF IInv, DatabaseTypeOK
<1>3. ASSUME got[t] # None, got[t] # Raised PROVE ReportOf(got[t], found) \in Reports
  <2>1. got[t] \in 1 .. MaxFiles
    BY <1>2, <1>3, DefaultDatabaseAssumption DEF None, Raised
  <2>2. found \in SUBSET (DOMAIN Batches)
    BY DEF HostInv
  <2>3. ReportOf(got[t], found) \in ReportsOf(got[t])
    BY <2>2, Zenon DEF ReportsOf
  <2>4. ReportsOf(got[t]) \subseteq Reports
    BY <2>1, Zenon DEF Reports
  <2> QED
    BY <2>3, <2>4, Zenon
<1>4. /\ [NoReport EXCEPT !.outcome = "AssertionError"] \in Reports
      /\ [NoReport EXCEPT !.outcome = "JSONDecodeError"] \in Reports
  BY Zenon DEF Reports, NoLookup
<1>5. new \in Reports
  <2> HIDE DEF Reports
  <2>1. CASE got[t] = None
    BY <1>4, <2>1, Zenon
  <2>2. CASE got[t] = Raised /\ got[t] # None
    BY <1>4, <2>2, Zenon
  <2>3. CASE got[t] # None /\ got[t] # Raised
    BY <1>3, <2>3, Zenon
  <2> QED
    BY <2>1, <2>2, <2>3, Zenon
<1> HIDE DEF new
<1> QED
  BY <1>1, <1>5, Zenon DEF HostInv

(* The batches a host shows are batches there are, and what each thread     *)
(* reports is what a lookup comes to.                                       *)
THEOREM HostInvariance == Spec => []HostInv
<1>1. Init => HostInv
  <2> SUFFICES ASSUME Init PROVE HostInv
    OBVIOUS
  <2>1. found \subseteq DOMAIN Batches
    BY VulnIntelAssumption DEF Init
  <2>2. NoReport \in Reports
    BY Zenon DEF Reports, NoLookup
  <2> QED
    BY <2>1, <2>2, Zenon DEF Init, HostInv
<1>2. IInv /\ HostInv /\ [Next]_vars => HostInv'
  <2> SUFFICES ASSUME IInv, HostInv, [Next]_vars PROVE HostInv'
    OBVIOUS
  <2>1. NoReport \in Reports
    BY Zenon DEF Reports, NoLookup
  <2>2. ASSUME NEW t \in Thread, found' = found, report' = [report EXCEPT ![t] = NoReport]
        PROVE  HostInv'
    BY <2>1, <2>2, Zenon DEF HostInv
  <2>3. ASSUME NEW t \in Thread, Lookups(t) PROVE HostInv'
    <3>1. report' \in [Thread -> Reports]
      BY <2>3, LookupReports, Zenon
    <3> QED
      BY <2>3, <3>1 DEF HostInv, Lookups, scanvars
  <2>4. ASSUME NEW batch \in DOMAIN Batches, NextScan(batch) PROVE HostInv'
    BY <2>4, Zenon DEF HostInv, NextScan
  <2>5. ASSUME UNCHANGED <<found, report>> PROVE HostInv'
    BY <2>5, Zenon DEF HostInv
  <2> QED
    BY <2>2, <2>3, <2>4, <2>5 DEF Next, vars, scanvars
<1>3. Spec => []IInv
  BY LookupsUseDefaultDatabase, DatabaseInvariance, PTL
<1> QED
  BY <1>1, <1>2, <1>3, PTL DEF Spec

-----------------------------------------------------------------------------
(* The versions that a report calls vulnerable.                             *)

(* The versions that the findings show and the database names are of the usual *)
(* forms: on others the comparison of the code is no order, and ranges may have *)
(* gaps.                                                                    *)
UsualVersions ==
  /\ \A f \in AllFindings : {f.title.version, f.evidence.version} \subseteq Usual \cup {NoVersion}
  /\ \A vuln \in AllEntries : \A p \in vuln.affected : \A c \in ParsePattern(p) :
       c \in Constraint /\ c.version \in Usual

(* A component has no vendor, and its version is that of a finding.         *)
LEMMA ComponentFacts ==
  ASSUME UsualVersions, NEW comp \in {ComponentFromFinding(f) : f \in AllFindings}
  PROVE  comp.vendor = NoName /\ comp.version \in Usual \cup {NoVersion}
  BY DEF UsualVersions, ComponentFromFinding, ComponentVersion

(* One pattern matches an interval.                                         *)
LEMMA MatchedInterval ==
  ASSUME UsualVersions, NEW vuln \in AllEntries, Seamless(vuln),
         NEW u \in Usual, NEW v \in Usual, NEW w \in Usual,
         MatchVersion(u, vuln), MatchVersion(w, vuln), Compare(u, v) <= 0, Compare(v, w) <= 0
  PROVE  MatchVersion(v, vuln)
<1>1. PICK p \in vuln.affected : /\ vuln.affected = {p}
                                 /\ \A c \in ParsePattern(p) : c.operator # "!="
  BY DEF Seamless
<1>2. VersionMatches(u, p) /\ VersionMatches(w, p)
  BY <1>1 DEF MatchVersion
<1>3. \A c \in ParsePattern(p) : c \in Constraint /\ c.version \in Usual /\ c.operator # "!="
  BY <1>1 DEF UsualVersions
<1>4. VersionMatches(v, p)
  BY <1>2, <1>3, PatternIsInterval
<1> QED
  BY <1>1, <1>4 DEF MatchVersion, Seamless

(* What is reported of a product was found by the lookup of its name.       *)
LEMMA ReportedFacts ==
  ASSUME UsualVersions, NEW entries \in Seq(AllEntries), NEW findings \in Seq(AllFindings),
         MaxResults = 0, NEW vuln
  PROVE  LET inventory == BuildSoftwareInventory(findings)
             reported == Reported(Run(entries, inventory), vuln)
         IN \A u : u \in reported <=> \E comp \in Range(inventory) :
              /\ u = comp.version /\ u \in Usual /\ comp.name = vuln.product /\ comp.vendor = NoName
              /\ vuln \in Range(Lookup(entries, comp)) /\ MatchVersion(u, vuln)
<1> DEFINE inventory == BuildSoftwareInventory(findings)
           C == {ComponentFromFinding(f) : f \in AllFindings}
           matches == Run(entries, inventory)
           Hit(comp, u) == /\ u = comp.version /\ u \in Usual /\ comp.name = vuln.product
                           /\ comp.vendor = NoName
                           /\ vuln \in Range(Lookup(entries, comp)) /\ MatchVersion(u, vuln)
<1>1. inventory \in Seq(C)
  BY InventoryFacts, Zenon
<1> HIDE DEF inventory
<1>2. \A comp \in Range(inventory) : comp \in C
  BY <1>1 DEF Range
<1>3. \A comp \in C : comp.vendor = NoName /\ comp.version \in Usual \cup {NoVersion}
  BY ComponentFacts, Zenon
<1> HIDE DEF C
<1>4. Rated(AllEntries)
  BY VulnIntelAssumption, Zenon DEF Rated
<1>5. \A m : m \in Range(matches) <=>
         \E comp \in Range(inventory) : m \in Range(MatchesOf(entries, comp))
  BY <1>1, <1>4, RunFacts, Zenon
<1> HIDE DEF matches
<1>6. \A comp \in C : \A m : m \in Range(MatchesOf(entries, comp)) <=>
         /\ comp.version # NoVersion
         /\ \E x \in Range(Lookup(entries, comp)) :
              MatchVersion(comp.version, x) /\ m = MatchOf(x, comp)
  BY <1>4, MatchesFacts, Zenon
<1>7. NoVersion \notin Usual
  BY DEF NoVersion, Usual, Version
<1>8. ASSUME NEW u \in Reported(matches, vuln)
      PROVE  \E comp \in Range(inventory) : Hit(comp, u)
  <2>1. PICK m \in Range(matches) : m.vuln = vuln /\ u = m.component.version
    BY Zenon DEF Reported
  <2>2. PICK comp \in Range(inventory) : m \in Range(MatchesOf(entries, comp))
    BY <1>5, <2>1
  <2>3. PICK x \in Range(Lookup(entries, comp)) :
          MatchVersion(comp.version, x) /\ m = MatchOf(x, comp)
    BY <1>2, <1>6, <2>2
  <2>4. m.vuln = x /\ m.component = comp
    BY <2>3 DEF MatchOf
  <2>5. comp.version # NoVersion
    BY <1>2, <1>6, <2>2
  <2>6. x.product = comp.name
    BY LookupFacts, <2>3
  <2> QED
    BY <1>2, <1>3, <2>1, <2>3, <2>4, <2>5, <2>6
<1>9. ASSUME NEW comp \in Range(inventory), NEW u, Hit(comp, u)
      PROVE  u \in Reported(matches, vuln)
  <2> DEFINE m == MatchOf(vuln, comp)
  <2>1. comp.version # NoVersion /\ comp \in C
    BY <1>2, <1>7, <1>9
  <2>2. m \in Range(MatchesOf(entries, comp))
    BY <1>6, <1>9, <2>1, Zenon
  <2>3. m \in Range(matches)
    BY <1>5, <2>2
  <2>4. m.vuln = vuln /\ m.component = comp
    BY DEF MatchOf
  <2> QED
    BY <1>9, <2>3, <2>4, Zenon DEF Reported
<1>10. \A u : u \in Reported(matches, vuln) <=> \E comp \in Range(inventory) : Hit(comp, u)
  BY <1>8, <1>9, Zenon
<1> QED
  BY <1>10, Zenon DEF inventory, matches

(* The lookup of the version in between found the same entry, and one pattern *)
(* matches all versions between two that it matches.                        *)
LEMMA ReportHasNoGaps ==
  ASSUME UsualVersions, NEW entries \in Seq(AllEntries), NEW findings \in Seq(AllFindings),
         MaxResults = 0, NEW vuln \in Range(entries), Seamless(vuln),
         NEW inventory, inventory = BuildSoftwareInventory(findings),
         NEW reported, reported = Reported(Run(entries, inventory), vuln),
         NEW v \in Installed(inventory, vuln.product) \ reported
  PROVE  \/ \A u \in reported : Compare(u, v) > 0
         \/ \A w \in reported : Compare(v, w) > 0
<1>1. SUFFICES ASSUME NEW u \in reported, ~ (Compare(u, v) > 0),
                      NEW w \in reported, ~ (Compare(v, w) > 0)
               PROVE  FALSE
  OBVIOUS
<1> DEFINE Hit(comp, x) == /\ x = comp.version /\ x \in Usual /\ comp.name = vuln.product
                           /\ comp.vendor = NoName
                           /\ vuln \in Range(Lookup(entries, comp)) /\ MatchVersion(x, vuln)
<1>2. \A x : x \in reported <=> \E comp \in Range(inventory) : Hit(comp, x)
  BY ReportedFacts, Zenon
<1>3. PICK c \in Range(inventory) : Hit(c, u)
  BY <1>1, <1>2, Zenon
<1>4. PICK d \in Range(inventory) : Hit(d, w)
  BY <1>1, <1>2, Zenon
<1>5. PICK comp \in Range(inventory) : /\ comp.name = vuln.product /\ v = comp.version
                                      /\ comp.version # NoVersion
  BY Zenon DEF Installed
<1> DEFINE C == {ComponentFromFinding(f) : f \in AllFindings}
<1>6. comp \in C
  <2>1. inventory \in Seq(C)
    BY InventoryFacts, Zenon
  <2> HIDE DEF C
  <2> QED
    BY <2>1 DEF Range
<1>7. comp.vendor = NoName /\ v \in Usual
  <2>1. comp.vendor = NoName /\ comp.version \in Usual \cup {NoVersion}
    BY <1>6, ComponentFacts, Zenon
  <2> QED
    BY <1>5, <2>1
<1>8. Lookup(entries, comp) = Lookup(entries, c)
  BY <1>3, <1>5, <1>7, LookupByName, Zenon
<1>9. u \in Usual /\ w \in Usual /\ MatchVersion(u, vuln) /\ MatchVersion(w, vuln)
  BY <1>3, <1>4, Zenon
<1>10. Compare(u, v) <= 0 /\ Compare(v, w) <= 0
  <2>1. u \in Version /\ v \in Version /\ w \in Version
    BY <1>7, <1>9 DEF Usual
  <2>2. Compare(u, v) \in {-1, 0, 1} /\ Compare(v, w) \in {-1, 0, 1}
    BY <2>1, CompareAntisymmetric
  <2> QED
    BY <1>1, <2>2
<1>11. vuln \in AllEntries
  BY DEF Range
<1>12. MatchVersion(v, vuln)
  BY <1>7, <1>9, <1>10, <1>11, MatchedInterval
<1>13. Hit(comp, v)
  BY <1>3, <1>5, <1>7, <1>8, <1>12, Zenon
<1> HIDE DEF Hit
<1>14. v \in reported
  BY <1>2, <1>13, Zenon
<1> QED
  BY <1>14

(* Whatever hosts the threads look at and whatever the database holds: of the *)
(* usual versions of a product, one between two that a report calls vulnerable *)
(* because of an entry with one affected pattern is called vulnerable too.  *)
THEOREM ReportsAreIntervals ==
  ASSUME UsualVersions
  PROVE  Spec => []RangesAreIntervals
<1>1. HostInv => RangesAreIntervals
  <2> SUFFICES ASSUME HostInv, NEW t \in Thread, report[t].outcome = "done", MaxResults = 0,
                      NEW vuln \in Range(Contents[report[t].database]), Seamless(vuln),
                      NEW v \in Installed(report[t].inventory, vuln.product)
                                 \ Reported(report[t].matches, vuln)
               PROVE  \/ \A u \in Reported(report[t].matches, vuln) : Compare(u, v) > 0
                      \/ \A w \in Reported(report[t].matches, vuln) : Compare(v, w) > 0
    BY Zenon DEF RangesAreIntervals
  <2>1. report[t] \in Reports
    BY Zenon DEF HostInv
  <2>2. \A r \in NoLookup : r.outcome # "done"
    BY DEF NoLookup, NoReport
  <2>3. PICK k \in 1 .. MaxFiles, batches \in SUBSET (DOMAIN Batches) :
          report[t] = ReportOf(k, batches)
    BY <2>1, <2>2, Zenon DEF Reports, ReportsOf
  <2> DEFINE entries   == Contents[k]
             findings  == FindingsOf(batches)
             inventory == BuildSoftwareInventory(findings)
             matches   == Run(entries, inventory)
             reported  == Reported(matches, vuln)
  <2>4. /\ report[t].database = k /\ report[t].inventory = inventory
        /\ report[t].matches = matches
    BY <2>3 DEF ReportOf
  <2>5. entries \in Seq(AllEntries)
    BY VulnIntelAssumption
  <2>6. findings \in Seq(AllFindings)
    BY FindingsOfFacts
  <2>7. vuln \in Range(entries)
    BY <2>4, Zenon
  <2>8. v \in Installed(inventory, vuln.product) \ reported
    BY <2>4, Zenon
  <2> HIDE DEF entries, findings
  <2>9. \/ \A u \in reported : Compare(u, v) > 0
        \/ \A w \in reported : Compare(v, w) > 0
    BY <2>5, <2>6, <2>7, <2>8, ReportHasNoGaps, Zenon
  <2> QED
    BY <2>4, <2>9, Zenon
<1> QED
  BY <1>1, HostInvariance, PTL

-----------------------------------------------------------------------------
(* One more measure on a host never raises a score: half of the reasons that *)
(* ScoresMoveForAReason asks of a run, for every path, match and host.      *)

LEMMA ClampMonotone ==
  ASSUME NEW m \in Int, NEW n \in Int, m <= n
  PROVE  Clamp(m) <= Clamp(n)
  BY DEF Clamp

LEMMA ProductMonotone ==
  ASSUME NEW s \in Nat, NEW m \in Int, NEW n \in Int, m <= n
  PROVE  s * m \in Int /\ s * n \in Int /\ s * m <= s * n
  OBVIOUS

LEMMA RemainingMonotone ==
  ASSUME NEW before, NEW after, before.mitigations \subseteq after.mitigations
  PROVE  /\ Remaining(before) \in Nat
         /\ Remaining(after) \in Nat
         /\ Remaining(after) <= Remaining(before)
<1>1. /\ Has(before, "kernel_lockdown") => Has(after, "kernel_lockdown")
      /\ AccessControlled(before) => AccessControlled(after)
      /\ Has(before, "aslr") => Has(after, "aslr")
      /\ Blocked(before) => Blocked(after)
  BY DEF Has, AccessControlled, Blocked
<1> DEFINE Times(share, flag, percent) == IF flag THEN (share * percent) \div 100 ELSE share
<1>2. ASSUME NEW x \in Nat, NEW y \in Nat, y <= x, NEW f, NEW g, f => g
      PROVE  \A percent \in {30, 50, 70, 85} :
             /\ Times(x, f, percent) \in Nat /\ Times(y, g, percent) \in Nat
             /\ Times(y, g, percent) <= Times(x, f, percent)
  BY <1>2, SMT
<1> DEFINE Lockdown(c) == Times(100000, Has(c, "kernel_lockdown"), 30)
           Control(c)  == Times(Lockdown(c), AccessControlled(c), 70)
           Aslr(c)     == Times(Control(c), Has(c, "aslr"), 85)
<1>3. \A c : Remaining(c) = Times(Aslr(c), Blocked(c), 50)
  BY DEF Remaining
<1>4. Lockdown(before) \in Nat /\ Lockdown(after) \in Nat /\ Lockdown(after) <= Lockdown(before)
  BY <1>1, SMT
<1> HIDE DEF Times, Lockdown
<1>5. Control(before) \in Nat /\ Control(after) \in Nat /\ Control(after) <= Control(before)
  BY <1>1, <1>2, <1>4, SMT
<1> HIDE DEF Control
<1>6. Aslr(before) \in Nat /\ Aslr(after) \in Nat /\ Aslr(after) <= Aslr(before)
  BY <1>1, <1>2, <1>5, SMT
<1> HIDE DEF Aslr
<1>7. QED
  BY <1>1, <1>2, <1>3, <1>6, SMT

(* What the matches add to a path is a number.                              *)
LEMMA BoostFacts ==
  ASSUME NEW M, NEW matches \in Seq(M), NEW path
  PROVE  VulnerabilityBoost(path, matches) \in Int
<1> DEFINE Boost(m) == (IF m.vuln.kev \/ m.vuln.exploit THEN 100 ELSE 0)
                       + (IF m.vuln.product \in path.products THEN 50 ELSE 0)
           boosts == [i \in DOMAIN matches |-> Boost(matches[i])]
<1>1. VulnerabilityBoost(path, matches) = SumOf(boosts)
  BY DEF VulnerabilityBoost, Total
<1>2. \A m : Boost(m) \in Int
  OBVIOUS
<1> HIDE DEF Boost
<1>3. boosts \in [DOMAIN matches -> Int]
  BY <1>2, Zenon
<1> HIDE DEF boosts
<1>4. boosts \in Seq(Int)
  BY <1>3, MapFacts, Zenon
<1> QED
  BY <1>1, <1>4, SumOfNumbers, Zenon

(* Attack paths: os_pipeline.py gives the engine the paths and the matches of *)
(* one scan.                                                                *)
THEOREM MeasuresNeverHelpAPath ==
  ASSUME NEW path, path.score \in Nat,
         NEW M, NEW matches \in Seq(M),
         NEW before, NEW after, before.mitigations \subseteq after.mitigations
  PROVE  AssessAttackPath(path, matches, after).score
           <= AssessAttackPath(path, matches, before).score
<1> DEFINE b == path.score * Remaining(before)
           a == path.score * Remaining(after)
<1>1. a \in Int /\ b \in Int /\ a <= b
  BY RemainingMonotone, ProductMonotone, SMT
<1> HIDE DEF a, b
<1>2. /\ Rounded(a, 100000) \in Int /\ Rounded(b, 100000) \in Int
      /\ Rounded(a, 100000) <= Rounded(b, 100000)
  BY <1>1, SMT DEF Rounded
<1>3. VulnerabilityBoost(path, matches) \in Int
  BY BoostFacts, Zenon
<1>4. Clamp(Rounded(a, 100000) + VulnerabilityBoost(path, matches))
        <= Clamp(Rounded(b, 100000) + VulnerabilityBoost(path, matches))
  BY <1>2, <1>3, ClampMonotone, SMT
<1>5. QED
  BY <1>4, SMT DEF AssessAttackPath, a, b

(* Vulnerabilities: the sum keeps its other terms, and no more of them are  *)
(* negative.                                                                *)
THEOREM MeasuresNeverHelpAVulnerability ==
  ASSUME NEW vuln, vuln.confidence \in Nat, vuln.cvss_v3 \in Nat, vuln.epss \in Nat,
         NEW before, NEW after, before.mitigations \subseteq after.mitigations,
         after.internetFacing = before.internetFacing, after.privileges = before.privileges
  PROVE  ScoreVulnerability(vuln, after) <= ScoreVulnerability(vuln, before)
<1>1. /\ MitigationPoints(vuln, before) \in Int /\ MitigationPoints(vuln, after) \in Int
      /\ MitigationPoints(vuln, after) <= MitigationPoints(vuln, before)
  <2>1. /\ Has(before, "kernel_lockdown") => Has(after, "kernel_lockdown")
        /\ AccessControlled(before) => AccessControlled(after)
        /\ Has(before, "aslr") => Has(after, "aslr")
    BY DEF Has, AccessControlled
  <2>2. QED
    BY <2>1, SMT DEF MitigationPoints
<1> DEFINE needs   == Prerequisites(vuln, before)
           rest    == (IF before.internetFacing THEN 70 + 15 ELSE 25)
                      + (30 - PrivilegeWeights[RequiredPrivileges(vuln)]) + MaturityPoints(vuln)
                      + PublicExploitPoints(vuln)
           Raw(c)  == rest + MitigationPoints(vuln, c)
           Sum(c)  == (Raw(c) * needs.total + 10 * needs.satisfied) * vuln.confidence
<1>2. needs = Prerequisites(vuln, after)
  BY DEF Prerequisites
<1>3. needs.total \in {2, 3, 4} /\ needs.satisfied \in Nat
  BY SMT DEF Prerequisites
<1>4. rest \in Int
  BY SMT DEF PrivilegeWeights, RequiredPrivileges, MaturityPoints, PublicExploitPoints
<1>5. /\ ScoreVulnerability(vuln, before) = Clamp(Rounded(Sum(before), 10 * needs.total))
      /\ ScoreVulnerability(vuln, after) = Clamp(Rounded(Sum(after), 10 * needs.total))
  BY <1>2 DEF ScoreVulnerability
<1> HIDE DEF needs, rest
<1>6. /\ Raw(before) * needs.total + 10 * needs.satisfied \in Int
      /\ Raw(after) * needs.total + 10 * needs.satisfied \in Int
      /\ Raw(after) * needs.total + 10 * needs.satisfied
           <= Raw(before) * needs.total + 10 * needs.satisfied
  BY <1>1, <1>3, <1>4, SMT
<1> HIDE DEF Raw
<1>7. Sum(before) \in Int /\ Sum(after) \in Int /\ Sum(after) <= Sum(before)
  BY <1>6, ProductMonotone, SMT
<1> HIDE DEF Sum
<1>8. /\ Rounded(Sum(before), 10 * needs.total) \in Int
      /\ Rounded(Sum(after), 10 * needs.total) \in Int
      /\ Rounded(Sum(after), 10 * needs.total) <= Rounded(Sum(before), 10 * needs.total)
  <2>1. CASE needs.total = 2
    BY <1>7, <2>1, SMT DEF Rounded
  <2>2. CASE needs.total = 3
    BY <1>7, <2>2, SMT DEF Rounded
  <2>3. CASE needs.total = 4
    BY <1>7, <2>3, SMT DEF Rounded
  <2>4. QED
    BY <1>3, <2>1, <2>2, <2>3
<1>9. QED
  BY <1>5, <1>8, ClampMonotone

-----------------------------------------------------------------------------
(* Scores stay within their bounds: the confidence of rules and findings, the *)
(* points of the correlation rules, the sums and the rounding.              *)

(* The confidences that the knowledge rules name.                           *)
Levels            == {30, 40, 50, 70, 75, 80, 85, 90, 95}
Confident(rule)   == rule.confidence \in Levels
Confidents(rules) == \A rule \in rules : Confident(rule)

LEMMA LevelsAre == /\ 30 \in Levels /\ 40 \in Levels /\ 50 \in Levels /\ 70 \in Levels /\ 75 \in Levels
                   /\ 80 \in Levels /\ 85 \in Levels /\ 90 \in Levels /\ 95 \in Levels
  BY DEF Levels

LEMMA RulesAreConfident ==
  /\ \A rule \in ALL_RULES : rule.confidence \in 0 .. 100
  /\ BIN_001.confidence \in 0 .. 100
<1>1. /\ \A r, patterns, stages, categories, tags, c :
           r = Attack(patterns, stages, categories, tags, c) => (c \in Levels => Confident(r))
      /\ \A r, patterns, stages, categories, tags, c :
           r = Topic(patterns, stages, categories, tags, c) => (c \in Levels => Confident(r))
  BY DEF Attack, Topic, KnowledgeRule, Confident
<1>2. Confidents(PRIVILEGE_ESCALATION_RULES)
  BY <1>1, LevelsAre, ZenonT(30) DEF Confidents, PRIVILEGE_ESCALATION_RULES
<1>3. Confidents(CAPABILITY_RULES)
  BY <1>1, LevelsAre, ZenonT(30) DEF Confidents, CAPABILITY_RULES
<1>4. Confidents(SSH_RULES)
  BY <1>1, LevelsAre, ZenonT(30) DEF Confidents, SSH_RULES
<1>5. Confidents(DOCKER_RULES)
  BY <1>1, LevelsAre, ZenonT(30) DEF Confidents, DOCKER_RULES
<1>6. Confidents(KERNEL_RULES)
  BY <1>1, LevelsAre, ZenonT(30) DEF Confidents, KERNEL_RULES
<1>7. Confidents(KERNEL_HARDENING_RULES)
  BY <1>1, LevelsAre, ZenonT(30) DEF Confidents, KERNEL_HARDENING_RULES
<1>8. Confidents(WRITABLE_RULES)
  BY <1>1, LevelsAre, ZenonT(30) DEF Confidents, WRITABLE_RULES
<1>9. Confidents(SECRETS_RULES)
  BY <1>1, LevelsAre, ZenonT(30) DEF Confidents, SECRETS_RULES
<1>10. Confidents(AUTH_RULES)
  BY <1>1, LevelsAre, ZenonT(30) DEF Confidents, AUTH_RULES
<1>11. Confidents(AUTH_SECURITY_RULES)
  BY <1>1, LevelsAre, ZenonT(30) DEF Confidents, AUTH_SECURITY_RULES
<1>12. Confidents(PROCESS_RULES)
  BY <1>1, LevelsAre, ZenonT(30) DEF Confidents, PROCESS_RULES
<1>13. Confidents(PACKAGE_RULES)
  BY <1>1, LevelsAre, ZenonT(30) DEF Confidents, PACKAGE_RULES
<1>14. Confidents(SERVICE_RULES)
  BY <1>1, LevelsAre, ZenonT(30) DEF Confidents, SERVICE_RULES
<1>15. Confidents(CRON_RULES)
  BY <1>1, LevelsAre, ZenonT(30) DEF Confidents, CRON_RULES
<1>16. Confidents(SUSPICIOUS_BINARY_RULES)
  BY <1>1, LevelsAre, ZenonT(30) DEF Confidents, SUSPICIOUS_BINARY_RULES
<1>17. Confidents(FILESYSTEM_RULES)
  BY <1>1, LevelsAre, ZenonT(30) DEF Confidents, FILESYSTEM_RULES
<1>18. Confidents(NETWORK_SECURITY_RULES)
  BY <1>1, LevelsAre, ZenonT(30) DEF Confidents, NETWORK_SECURITY_RULES
<1>19. Confidents(BOOT_SECURITY_RULES)
  BY <1>1, LevelsAre, ZenonT(30) DEF Confidents, BOOT_SECURITY_RULES
<1>20. Confidents(GUI_SECURITY_RULES)
  BY <1>1, LevelsAre, ZenonT(30) DEF Confidents, GUI_SECURITY_RULES
<1>21. Confidents(MONITORING_RULES)
  BY <1>1, LevelsAre, ZenonT(30) DEF Confidents, MONITORING_RULES
<1>22. Confidents(CRYPTO_RULES)
  BY <1>1, LevelsAre, ZenonT(30) DEF Confidents, CRYPTO_RULES
<1>23. Confidents(CONTAINER_RULES)
  BY <1>1, LevelsAre, ZenonT(30) DEF Confidents, CONTAINER_RULES
<1>24. \A rule \in ALL_RULES : Confident(rule)
  BY <1>2, <1>3, <1>4, <1>5, <1>6, <1>7, <1>8, <1>9, <1>10, <1>11, <1>12, <1>13, <1>14, <1>15,
     <1>16, <1>17, <1>18, <1>19, <1>20, <1>21, <1>22, <1>23, Zenon DEF ALL_RULES, Confidents
<1>25. Confident(BIN_001)
  <2>1. \E rule : rule \in SUSPICIOUS_BINARY_RULES
    BY Zenon DEF SUSPICIOUS_BINARY_RULES
  <2> QED
    BY <1>16, <2>1, Zenon DEF BIN_001, Confidents
<1> QED
  BY <1>24, <1>25 DEF Confident, Levels

(* Of the confidences of the rules that match a finding, there is a greatest. *)
LEMMA EnrichmentFacts ==
  ASSUME NEW f
  PROVE  EnrichFinding(f).finding = f /\ EnrichFinding(f).score \in 0 .. 100
<1> DEFINE matched == {rule \in ALL_RULES : RuleMatches(rule, f)}
           bins    == IF matched = {} THEN <<>> ELSE f.binaries
           sources == IF bins = <<>> THEN matched ELSE matched \cup {BIN_001}
           scores  == {0} \cup {rule.confidence : rule \in sources}
<1>1. /\ EnrichFinding(f).finding = f
      /\ EnrichFinding(f).score = CHOOSE c \in scores : \A other \in scores : c >= other
  BY DEF EnrichFinding
<1>2. \A rule \in sources : rule.confidence \in 0 .. 100
  BY RulesAreConfident, Zenon
<1> HIDE DEF sources
<1>3. scores \in SUBSET (0 .. 100) /\ scores # {}
  BY <1>2
<1> HIDE DEF scores
<1>4. \E c \in scores : \A other \in scores : c >= other
  BY <1>3, GreatestExists
<1> QED
  BY <1>1, <1>3, <1>4

(* What scoring a path takes for granted of a correlation rule.             *)
IsList(s)    == \E S : s \in Seq(S)
Points       == {0, 5, 7, 8, 9, 10, 12, 15, 18, 20}
Grades       == {"medium", "high", "critical"}
IsRule(rule) == /\ SeverityWeights[rule.severity] \in Int
                /\ rule.exploit \in Int /\ rule.credential \in Int
                /\ rule.persistence \in Int /\ rule.gtfo \in Int
                /\ IsList(rule.required) /\ IsList(rule.optional)
Ruled(rules) == IsList(rules) /\ \A rule \in Range(rules) : IsRule(rule)

LEMMA PointsAre == /\ 0 \in Points /\ 5 \in Points /\ 7 \in Points /\ 8 \in Points /\ 9 \in Points
                   /\ 10 \in Points /\ 12 \in Points /\ 15 \in Points /\ 18 \in Points /\ 20 \in Points
  BY DEF Points

LEMMA ListsAre == /\ IsList(<<>>) /\ \A a : IsList(<<a>>)
                  /\ \A a, b : IsList(<<a, b>>)
                  /\ \A a, b, c : IsList(<<a, b, c>>)
<1>1. <<>> \in Seq({})
  OBVIOUS
<1>2. \A a : <<a>> \in Seq({a})
  OBVIOUS
<1>3. \A a, b : <<a, b>> \in Seq({a, b})
  OBVIOUS
<1>4. \A a, b, c : <<a, b, c>> \in Seq({a, b, c})
  OBVIOUS
<1> QED
  BY <1>1, <1>2, <1>3, <1>4, Zenon DEF IsList

LEMMA RuleIsRule ==
  \A id, type, severity, products, a, b, c, d, required, optional :
    severity \in Grades =>
      (a \in Points => (b \in Points => (c \in Points => (d \in Points =>
        (IsList(required) => (IsList(optional) =>
          IsRule(Rule(id, type, severity, products, <<a, b, c, d>>, required, optional))))))))
  BY DEF Points, Grades, IsRule, Rule, SeverityWeights

LEMMA GradesAre == "medium" \in Grades /\ "high" \in Grades /\ "critical" \in Grades
  BY DEF Grades

LEMMA RuledLists ==
  /\ \A a, b : IsRule(a) => (IsRule(b) => Ruled(<<a, b>>))
  /\ \A a, b, c : IsRule(a) => (IsRule(b) => (IsRule(c) => Ruled(<<a, b, c>>)))
  /\ \A a, b, c, d :
       IsRule(a) => (IsRule(b) => (IsRule(c) => (IsRule(d) => Ruled(<<a, b, c, d>>))))
  /\ \A a, b, c, d, e :
       IsRule(a) => (IsRule(b) => (IsRule(c) => (IsRule(d) => (IsRule(e) =>
         Ruled(<<a, b, c, d, e>>)))))
<1> DEFINE Lawful(S) == \A x \in S : IsRule(x)
<1>1. \A S, s : Lawful(S) => (s \in Seq(S) => Ruled(s))
  <2> SUFFICES ASSUME NEW S, NEW s \in Seq(S), \A x \in S : IsRule(x) PROVE Ruled(s)
    OBVIOUS
  <2>1. \A x \in Range(s) : x \in S
    BY DEF Range
  <2> QED
    BY <2>1, Zenon DEF Ruled, IsList
<1> HIDE DEF Lawful
<1>2. \A a, b : <<a, b>> \in Seq({a, b})
  OBVIOUS
<1>3. \A a, b, c : <<a, b, c>> \in Seq({a, b, c})
  OBVIOUS
<1>4. \A a, b, c, d : <<a, b, c, d>> \in Seq({a, b, c, d})
  OBVIOUS
<1>5. \A a, b, c, d, e : <<a, b, c, d, e>> \in Seq({a, b, c, d, e})
  OBVIOUS
<1>6. ASSUME NEW a, NEW b, IsRule(a), IsRule(b)
      PROVE  Ruled(<<a, b>>)
  <2>1. Lawful({a, b})
    BY <1>6, Zenon DEF Lawful
  <2> QED
    BY <1>1, <1>2, <2>1, Zenon
<1>7. ASSUME NEW a, NEW b, NEW c, IsRule(a), IsRule(b), IsRule(c)
      PROVE  Ruled(<<a, b, c>>)
  <2>1. Lawful({a, b, c})
    BY <1>7, Zenon DEF Lawful
  <2> QED
    BY <1>1, <1>3, <2>1, Zenon
<1>8. ASSUME NEW a, NEW b, NEW c, NEW d, IsRule(a), IsRule(b), IsRule(c), IsRule(d)
      PROVE  Ruled(<<a, b, c, d>>)
  <2>1. Lawful({a, b, c, d})
    BY <1>8, Zenon DEF Lawful
  <2> QED
    BY <1>1, <1>4, <2>1, Zenon
<1>9. ASSUME NEW a, NEW b, NEW c, NEW d, NEW e, IsRule(a), IsRule(b), IsRule(c), IsRule(d), IsRule(e)
      PROVE  Ruled(<<a, b, c, d, e>>)
  <2>1. Lawful({a, b, c, d, e})
    BY <1>9, Zenon DEF Lawful
  <2> QED
    BY <1>1, <1>5, <2>1, Zenon
<1> QED
  BY <1>6, <1>7, <1>8, <1>9, Zenon

LEMMA RulesAreRules == Ruled(CORRELATION_RULES)
<1>1. \A s, t : Ruled(s) => (Ruled(t) => Ruled(s \o t))
  <2> SUFFICES ASSUME NEW s, NEW t, Ruled(s), Ruled(t) PROVE Ruled(s \o t)
    BY Zenon
  <2>1. PICK S, T : s \in Seq(S) /\ t \in Seq(T)
    BY Zenon DEF Ruled, IsList
  <2> DEFINE U == S \cup T
  <2>2. s \in Seq(U) /\ t \in Seq(U)
    BY <2>1
  <2> HIDE DEF U
  <2>3. s \o t \in Seq(U) /\ Range(s \o t) = Range(s) \cup Range(t)
    BY <2>2, ConcatFacts, Zenon
  <2> QED
    BY <2>3, Zenon DEF Ruled, IsList
<1>2. Ruled(PrivilegeEscalationRules)
  BY RuleIsRule, RuledLists, GradesAre, PointsAre, ListsAre, ZenonT(30) DEF PrivilegeEscalationRules
<1>3. Ruled(PersistenceAndContainerRules)
  BY RuleIsRule, RuledLists, GradesAre, PointsAre, ListsAre, ZenonT(30) DEF PersistenceAndContainerRules
<1>4. Ruled(LateralMovementRules)
  BY RuleIsRule, RuledLists, GradesAre, PointsAre, ListsAre, ZenonT(30) DEF LateralMovementRules
<1>5. Ruled(KernelHardeningRules)
  BY RuleIsRule, RuledLists, GradesAre, PointsAre, ListsAre, ZenonT(30) DEF KernelHardeningRules
<1>6. Ruled(RemoteLoginRules)
  BY RuleIsRule, RuledLists, GradesAre, PointsAre, ListsAre, ZenonT(30) DEF RemoteLoginRules
<1>7. Ruled(AccountRules)
  BY RuleIsRule, RuledLists, GradesAre, PointsAre, ListsAre, ZenonT(30) DEF AccountRules
<1>8. Ruled(SingleFindingRules)
  BY RuleIsRule, RuledLists, GradesAre, PointsAre, ListsAre, ZenonT(30) DEF SingleFindingRules
<1>9. Ruled(VulnerabilityRules)
  BY RuleIsRule, RuledLists, GradesAre, PointsAre, ListsAre, ZenonT(30) DEF VulnerabilityRules
<1>10. Ruled(PackageRules)
  BY RuleIsRule, RuledLists, GradesAre, PointsAre, ListsAre, ZenonT(30) DEF PackageRules
<1>11. Ruled(NetworkRules)
  BY RuleIsRule, RuledLists, GradesAre, PointsAre, ListsAre, ZenonT(30) DEF NetworkRules
<1>12. Ruled(BootRules)
  BY RuleIsRule, RuledLists, GradesAre, PointsAre, ListsAre, ZenonT(30) DEF BootRules
<1>13. Ruled(GuiRules)
  BY RuleIsRule, RuledLists, GradesAre, PointsAre, ListsAre, ZenonT(30) DEF GuiRules
<1>14. Ruled(FilesystemRules)
  BY RuleIsRule, RuledLists, GradesAre, PointsAre, ListsAre, ZenonT(30) DEF FilesystemRules
<1>15. Ruled(MonitoringRules)
  BY RuleIsRule, RuledLists, GradesAre, PointsAre, ListsAre, ZenonT(30) DEF MonitoringRules
<1>16. Ruled(CryptoRules)
  BY RuleIsRule, RuledLists, GradesAre, PointsAre, ListsAre, ZenonT(30) DEF CryptoRules
<1>17. Ruled(ContainerRules)
  BY RuleIsRule, RuledLists, GradesAre, PointsAre, ListsAre, ZenonT(30) DEF ContainerRules
<1> QED
  BY <1>1, <1>2, <1>3, <1>4, <1>5, <1>6, <1>7, <1>8, <1>9, <1>10, <1>11, <1>12, <1>13, <1>14, <1>15,
     <1>16, <1>17, Zenon DEF CORRELATION_RULES

-----------------------------------------------------------------------------
(* Attack paths.                                                            *)

(* The score and the confidence that enriched findings give to an average.  *)
Weighed(E) == \A ef \in E : ef.score \in Int /\ ef.finding.confidence \in Int

LEMMA RoundedFacts ==
  ASSUME NEW n \in Int, NEW d \in Nat \ {0}
  PROVE  Rounded(n, d) \in Int
<1>1. n \div d \in Int /\ n % d \in Int
  OBVIOUS
<1> DEFINE whole == n \div d
           part  == n % d
<1>2. Rounded(n, d)
        = IF 2 * part > d \/ (2 * part = d /\ whole % 2 = 1) THEN whole + 1 ELSE whole
  BY DEF Rounded
<1>3. whole \in Int
  BY <1>1
<1> HIDE DEF whole, part
<1> QED
  BY <1>2, <1>3

LEMMA ClampFacts == \A n \in Int : Clamp(n) \in Marks
  BY DEF Clamp, Marks

LEMMA MarksAreNumbers == \A n \in Marks : n \in Int
  BY DEF Marks

LEMMA MatchedByFacts ==
  ASSUME NEW E, NEW enriched \in Seq(E), NEW matcher
  PROVE  MatchedBy(matcher, enriched) \in Seq(E)
<1> DEFINE keep == {i \in DOMAIN enriched : FindingMatches(matcher, enriched[i])}
<1>1. MatchedBy(matcher, enriched) = Kept(enriched, keep)
  BY DEF MatchedBy, Selected
<1>2. keep \subseteq DOMAIN enriched
  OBVIOUS
<1> HIDE DEF keep
<1> QED
  BY <1>1, <1>2, KeptIsPart, Zenon

(* The findings of a path are findings.                                     *)
LEMMA CollectedFacts ==
  ASSUME NEW E, NEW enriched \in Seq(E), NEW rule, IsRule(rule)
  PROVE  CollectMatchedFindings(rule, enriched) \in Seq(E)
<1> DEFINE matchers == rule.required \o rule.optional
           parts == [i \in DOMAIN matchers |-> MatchedBy(matchers[i], enriched)]
           all == FlattenSeq(parts)
           key == [i \in DOMAIN all |-> Id(all[i].finding)]
<1>1. CollectMatchedFindings(rule, enriched) = FirstsBy(all, key)
  BY DEF CollectMatchedFindings, FirstOfEach
<1>2. PICK M : matchers \in Seq(M)
  <2>1. PICK S, T : rule.required \in Seq(S) /\ rule.optional \in Seq(T)
    BY Zenon DEF IsRule, IsList
  <2> DEFINE p == rule.required
             q == rule.optional
  <2>2. p \in Seq(S) /\ q \in Seq(T)
    BY <2>1
  <2> HIDE DEF p, q, parts, all, key
  <2>3. p \in Seq(S \cup T) /\ q \in Seq(S \cup T)
    BY <2>2
  <2>4. p \o q \in Seq(S \cup T)
    BY <2>3, ConcatFacts, Zenon
  <2> QED
    BY <2>4, Zenon DEF p, q
<1> HIDE DEF matchers
<1>3. parts \in [DOMAIN matchers -> Seq(E)]
  BY MatchedByFacts, Zenon
<1> HIDE DEF parts
<1>4. parts \in Seq(Seq(E))
  BY <1>2, <1>3, MapFacts, Zenon
<1>5. all \in Seq(E)
  BY <1>4, FlattenFacts, Zenon
<1> HIDE DEF all, key
<1> QED
  BY <1>1, <1>5, FirstsFacts, Zenon

(* An average is a fraction, even of nothing.                               *)
LEMMA AverageFacts ==
  ASSUME NEW E, Weighed(E), NEW matched \in Seq(E)
  PROVE  AverageConfidence(matched)[1] \in Int /\ AverageConfidence(matched)[2] \in Nat \ {0}
<1> DEFINE Own(ef) == IF ef.score # 0 THEN ef.score ELSE ef.finding.confidence
           keep    == {i \in DOMAIN matched : Own(matched[i]) # NoConfidence}
           known   == Kept(matched, keep)
           owns    == [i \in DOMAIN known |-> Own(known[i])]
<1>1. AverageConfidence(matched) = IF known = <<>> THEN <<50, 1>> ELSE <<SumOf(owns), Len(known)>>
  BY DEF AverageConfidence, Selected, Total
<1>2. known \in Seq(E)
  <2>1. keep \subseteq DOMAIN matched
    OBVIOUS
  <2> HIDE DEF keep
  <2> QED
    BY <2>1, KeptIsPart, Zenon
<1> HIDE DEF known
<1>3. owns \in [DOMAIN known -> Int]
  <2>1. \A ef \in E : Own(ef) \in Int
    BY Zenon DEF Weighed
  <2>2. \A i \in DOMAIN known : known[i] \in E
    BY <1>2
  <2> QED
    BY <2>1, <2>2, Zenon
<1> HIDE DEF owns
<1>4. SumOf(owns) \in Int
  BY <1>2, <1>3, MapFacts, SumOfNumbers, Zenon
<1>5. known # <<>> => Len(known) \in Nat \ {0}
  BY <1>2
<1> QED
  BY <1>1, <1>4, <1>5

LEMMA PathScore ==
  ASSUME NEW rule, IsRule(rule), NEW average, average[1] \in Int, average[2] \in Nat \ {0},
         NEW count \in Nat, NEW has
  PROVE  ComputeRiskScore(rule, average, count, has) \in Marks
<1> DEFINE Given(flag, points) == IF flag THEN points ELSE 0
           several == IF 3 * count < 10 THEN 3 * count ELSE 10
           whole == SeverityWeights[rule.severity] + several
               + Given(has.gtfo, 10) + Given(has.exploit, 8)
               + Given(has.credential, 8) + Given(has.persistence, 6)
               + rule.gtfo + rule.exploit + rule.credential + rule.persistence
           n == 20 * average[2] * whole + 3 * average[1]
           d == 2 * average[2]
<1>1. ComputeRiskScore(rule, average, count, has) = Clamp(Rounded(n, d))
  BY DEF ComputeRiskScore
<1>2. whole \in Int
  <2>1. several \in Int
    OBVIOUS
  <2>2. /\ Given(has.gtfo, 10) \in Int /\ Given(has.exploit, 8) \in Int
        /\ Given(has.credential, 8) \in Int /\ Given(has.persistence, 6) \in Int
    OBVIOUS
  <2> HIDE DEF several, Given
  <2> QED
    BY <2>1, <2>2 DEF IsRule
<1> HIDE DEF whole
<1>3. n \in Int /\ d \in Nat \ {0}
  <2>1. 20 * average[2] \in Int
    OBVIOUS
  <2>2. \A x, y \in Int : x * y \in Int
    OBVIOUS
  <2>3. 20 * average[2] * whole \in Int /\ 3 * average[1] \in Int
    BY <1>2, <2>1, <2>2
  <2> QED
    BY <2>3
<1> HIDE DEF n, d
<1>4. Rounded(n, d) \in Int
  BY <1>3, RoundedFacts
<1> QED
  BY <1>1, <1>4, ClampFacts, Zenon

(* Every path that correlation reports.                                     *)
IsPath(path) == path.score \in Marks

LEMMA CorrelateFacts ==
  ASSUME NEW E, Weighed(E), NEW enriched \in Seq(E)
  PROVE  \E P : Correlate(enriched) \in Seq(P) /\ \A path \in P : IsPath(path)
<1> DEFINE rules == CORRELATION_RULES
           keep == {k \in DOMAIN rules : \A i \in DOMAIN rules[k].required :
                                           MatchedBy(rules[k].required[i], enriched) # <<>>}
           fired == Kept(rules, keep)
           R == Range(rules)
           P == {BuildPath(rule, enriched) : rule \in R}
           built == [k \in DOMAIN fired |-> BuildPath(fired[k], enriched)]
           key == [k \in DOMAIN built |-> built[k].id]
<1>1. Correlate(enriched) = FirstsBy(built, key)
  BY DEF Correlate, Selected, FirstOfEach
<1>2. rules \in Seq(R) /\ \A rule \in R : IsRule(rule)
  <2> HIDE DEF rules
  <2>1. IsList(rules) /\ \A rule \in Range(rules) : IsRule(rule)
    BY RulesAreRules, Zenon DEF Ruled, rules
  <2>2. PICK S : rules \in Seq(S)
    BY <2>1, Zenon DEF IsList
  <2> QED
    BY <2>1, <2>2 DEF Range
<1>3. keep \subseteq DOMAIN rules
  OBVIOUS
<1> HIDE DEF keep, R, rules
<1>4. fired \in Seq(R)
  BY <1>2, <1>3, KeptIsPart, Zenon
<1> HIDE DEF fired
<1>5. built \in [DOMAIN fired -> P]
  <2>1. \A k \in DOMAIN fired : fired[k] \in R
    BY <1>4
  <2> QED
    BY <2>1, Zenon
<1> HIDE DEF built
<1>6. built \in Seq(P)
  BY <1>4, <1>5, MapFacts, Zenon
<1>7. ASSUME NEW rule \in R PROVE IsPath(BuildPath(rule, enriched))
  <2> DEFINE matched == CollectMatchedFindings(rule, enriched)
             average == AverageConfidence(matched)
  <2>1. IsRule(rule)
    BY <1>2
  <2>2. matched \in Seq(E)
    BY <2>1, CollectedFacts, Zenon
  <2>3. BuildPath(rule, enriched).score
          = ComputeRiskScore(rule, average, Len(matched), Indicators(rule, matched))
    BY DEF BuildPath
  <2> HIDE DEF matched
  <2>4. average[1] \in Int /\ average[2] \in Nat \ {0}
    BY <2>2, AverageFacts, Zenon
  <2> HIDE DEF average
  <2>5. Len(matched) \in Nat
    BY <2>2
  <2>6. ComputeRiskScore(rule, average, Len(matched), Indicators(rule, matched)) \in Marks
    BY <2>1, <2>4, <2>5, PathScore, Zenon
  <2> QED
    BY <2>3, <2>6 DEF IsPath
<1>8. \A path \in P : IsPath(path)
  BY <1>7, Zenon
<1> HIDE DEF P, key
<1>9. FirstsBy(built, key) \in Seq(P)
  BY <1>6, FirstsFacts, Zenon
<1> QED
  BY <1>1, <1>8, <1>9, Zenon

-----------------------------------------------------------------------------
(* Assessments.                                                             *)

IsMarked(a) == a.score \in Marks

(* A match, a path and a finding are given scores within the bounds.        *)
LEMMA VulnerabilityScored ==
  ASSUME NEW vuln, vuln.confidence \in Nat, NEW context
  PROVE  ScoreVulnerability(vuln, context) \in Marks
<1> DEFINE needs == Prerequisites(vuln, context)
           raw   == (IF context.internetFacing THEN 70 + 15 ELSE 25)
                    + (30 - PrivilegeWeights[RequiredPrivileges(vuln)]) + MaturityPoints(vuln)
                    + PublicExploitPoints(vuln) + MitigationPoints(vuln, context)
           n     == (raw * needs.total + 10 * needs.satisfied) * vuln.confidence
           d     == 10 * needs.total
<1>1. ScoreVulnerability(vuln, context) = Clamp(Rounded(n, d))
  BY DEF ScoreVulnerability
<1>2. needs.total \in {2, 3, 4} /\ needs.satisfied \in Nat
  BY SMT DEF Prerequisites
<1>3. raw \in Int
  <2>1. /\ PrivilegeWeights[RequiredPrivileges(vuln)] \in Int /\ MaturityPoints(vuln) \in Int
        /\ PublicExploitPoints(vuln) \in Int
    BY SMT DEF PrivilegeWeights, RequiredPrivileges, MaturityPoints, PublicExploitPoints
  <2>2. MitigationPoints(vuln, context) \in Int
    BY SMT DEF MitigationPoints
  <2> QED
    BY <2>1, <2>2
<1> HIDE DEF needs, raw
<1>4. n \in Int /\ d \in Nat \ {0}
  <2>1. raw * needs.total \in Int /\ 10 * needs.satisfied \in Int
    BY <1>2, <1>3
  <2>2. \A x, y \in Int : x * y \in Int
    OBVIOUS
  <2> QED
    BY <1>2, <2>1, <2>2
<1> HIDE DEF n, d
<1>5. Rounded(n, d) \in Int
  BY <1>4, RoundedFacts
<1> QED
  BY <1>1, <1>5, ClampFacts, Zenon

LEMMA MatchScored ==
  ASSUME NEW E, Rated(E), NEW C, NEW match \in MatchSet(E, C), NEW context
  PROVE  IsMarked(AssessVulnerability(match, context))
<1>1. match.vuln \in E
  BY Zenon DEF MatchSet
<1>2. match.vuln.confidence \in Nat
  BY <1>1 DEF Rated
<1>3. ScoreVulnerability(match.vuln, context) \in Marks
  BY <1>2, VulnerabilityScored, Zenon
<1> QED
  BY <1>3, Zenon DEF IsMarked, AssessVulnerability

LEMMA PathScored ==
  ASSUME NEW path, IsPath(path), NEW M, NEW matches \in Seq(M), NEW context
  PROVE  IsMarked(AssessAttackPath(path, matches, context))
<1> DEFINE n == path.score * Remaining(context)
           rounded == Rounded(n, 100000)
           boost == VulnerabilityBoost(path, matches)
<1>1. AssessAttackPath(path, matches, context).score = Clamp(rounded + boost)
  BY DEF AssessAttackPath
<1>2. n \in Int
  <2>1. Remaining(context) \in Int /\ path.score \in Int
    <3>1. context.mitigations \subseteq context.mitigations
      OBVIOUS
    <3>2. Remaining(context) \in Nat
      BY <3>1, RemainingMonotone, Zenon
    <3>3. path.score \in Int
      BY MarksAreNumbers, Zenon DEF IsPath
    <3> QED
      BY <3>2, <3>3
  <2>2. \A x, y \in Int : x * y \in Int
    OBVIOUS
  <2> QED
    BY <2>1, <2>2
<1> HIDE DEF n
<1>3. rounded \in Int
  BY <1>2, RoundedFacts
<1>4. boost \in Int
  BY BoostFacts, Zenon
<1> HIDE DEF rounded, boost
<1>5. rounded + boost \in Int
  BY <1>3, <1>4
<1>6. Clamp(rounded + boost) \in Marks
  BY <1>5, ClampFacts, Zenon
<1> QED
  BY <1>1, <1>6, Zenon DEF IsMarked

LEMMA FindingScored ==
  ASSUME NEW f, NEW points \in Int
  PROVE  IsMarked(Scored(f, points))
  BY DEF IsMarked, Scored, Marks

(* One assessment of a finding, or none.                                    *)
LEMMA FindingAssessed ==
  ASSUME NEW E, Rated(E), NEW C, NEW matches \in Seq(MatchSet(E, C)),
         NEW f, NEW findings, NEW enriched, NEW context
  PROVE  LET A == AssessFinding(f, findings, enriched, matches, context)
         IN IsFiniteSet(A) /\ \A a \in A : IsMarked(a)
<1> DEFINE Fine(A) == IsFiniteSet(A) /\ \A a \in A : IsMarked(a)
<1>1. Fine({}) /\ \A a : IsMarked(a) => Fine({a})
  BY FS_EmptySet, FS_Singleton
<1>2. \A flag : \A points \in Int : If(flag, points) \in Int
  BY DEF If
<1> HIDE DEF Fine
<1>3. Fine({AssessSuid(f, findings, enriched, context)})
  <2> DEFINE hasGtfo      == SameTitle(f, enriched) # <<>>
             writablePath == \E other \in Range(findings) : InTitle(other, "writable")
             points == If(hasGtfo, 20) + 40 + If(writablePath, 20)
                       - If(Has(context, "aslr"), 10) - If(context.privileges.isRoot, 20)
  <2>1. AssessSuid(f, findings, enriched, context) = Scored(f, points)
    BY DEF AssessSuid
  <2> HIDE DEF hasGtfo, writablePath
  <2>2. points \in Int
    BY <1>2
  <2> HIDE DEF points
  <2> QED
    BY <1>1, <2>1, <2>2, FindingScored, Zenon
<1>4. Fine(AssessGtfo(f, enriched, context))
  <2> DEFINE same   == SameTitle(f, enriched)
             points == 65 + If(context.privileges.passwordlessSudo, 20) - If(Has(context, "aslr"), 5)
             a == [subject |-> <<"gtfobins", same[1].gtfoBins[1]>>, score |-> 10 * points]
  <2>1. AssessGtfo(f, enriched, context) = IF same = <<>> THEN {} ELSE {a}
    BY DEF AssessGtfo
  <2>2. 10 * points \in Marks
    BY DEF If, Marks
  <2> HIDE DEF same, points
  <2>3. IsMarked(a)
    BY <2>2, Zenon DEF IsMarked
  <2> HIDE DEF a
  <2> QED
    BY <1>1, <2>1, <2>3, Zenon
<1>5. Fine({AssessWritablePath(f, enriched, context)})
  <2> DEFINE gtfo   == \E ef \in Range(enriched) : ef.gtfoBins # <<>>
             points == 50 + If(gtfo, 20) + If(context.privileges.sudo, 10)
  <2>1. AssessWritablePath(f, enriched, context) = Scored(f, points)
    BY DEF AssessWritablePath
  <2> HIDE DEF gtfo
  <2>2. points \in Int
    BY <1>2
  <2> HIDE DEF points
  <2> QED
    BY <1>1, <2>1, <2>2, FindingScored, Zenon
<1>6. Fine({AssessPasswordlessSudo(f, context)}) /\ Fine({AssessDockerSocket(f, context)})
  <2> DEFINE sudo   == 80 - If(AccessControlled(context), 15)
             socket == 90 - If(Has(context, "selinux_enforcing"), 10)
  <2>1. /\ AssessPasswordlessSudo(f, context) = Scored(f, sudo)
        /\ AssessDockerSocket(f, context) = Scored(f, socket)
    BY DEF AssessPasswordlessSudo, AssessDockerSocket
  <2>2. sudo \in Int /\ socket \in Int
    BY <1>2
  <2> HIDE DEF sudo, socket
  <2> QED
    BY <1>1, <2>1, <2>2, FindingScored, Zenon
<1>7. Fine(AssessCveFinding(f, matches, context))
  <2> DEFINE M     == MatchSet(E, C)
             keep  == {i \in DOMAIN matches : InTitle(f, matches[i].vuln.cve)}
             named == Kept(matches, keep)
  <2>1. AssessCveFinding(f, matches, context)
          = IF named = <<>> THEN {} ELSE {AssessVulnerability(named[1], context)}
    BY DEF AssessCveFinding, Selected
  <2>2. keep \subseteq DOMAIN matches
    OBVIOUS
  <2> HIDE DEF keep, M
  <2>3. named \in Seq(M)
    BY <2>2, KeptIsPart, Zenon DEF M
  <2> HIDE DEF named
  <2>4. named # <<>> => named[1] \in M
    BY <2>3
  <2>5. named # <<>> => IsMarked(AssessVulnerability(named[1], context))
    BY <2>4, MatchScored, Zenon DEF M
  <2> QED
    BY <1>1, <2>1, <2>5, Zenon
<1>8. Fine(AssessFinding(f, findings, enriched, matches, context))
  BY <1>1, <1>3, <1>4, <1>5, <1>6, <1>7, Zenon DEF AssessFinding
<1> QED
  BY <1>8, Zenon DEF Fine

-----------------------------------------------------------------------------
(* What is reported of a host that shows more.                               *)

(* Where equal keys mean equal elements, nothing is lost.                    *)
LEMMA FirstsOfEquals ==
  ASSUME NEW S, NEW s \in Seq(S), NEW key,
         \A i, j \in DOMAIN s : key[i] = key[j] => s[i] = s[j]
  PROVE  Range(FirstsBy(s, key)) = Range(s)
<1>1. Range(FirstsBy(s, key)) \subseteq Range(s)
  BY FirstsFacts, Zenon
<1>2. ASSUME NEW i \in DOMAIN s PROVE s[i] \in Range(FirstsBy(s, key))
  <2>1. PICK j \in 1 .. i : key[j] = key[i] /\ s[j] \in Range(FirstsBy(s, key))
    BY FirstsFacts, Zenon
  <2>2. j \in DOMAIN s
    OBVIOUS
  <2> QED
    BY <2>1, <2>2
<1> QED
  BY <1>1, <1>2 DEF Range

(* The inventory has every component that the findings name.                 *)
LEMMA InventoryHolds ==
  ASSUME NEW F, NEW findings \in Seq(F)
  PROVE  \A comp : comp \in Range(BuildSoftwareInventory(findings)) <=>
           \E f \in Range(findings) : ComponentName(f) # NoName /\ comp = ComponentFromFinding(f)
<1> DEFINE keep == {i \in DOMAIN findings : ComponentName(findings[i]) # NoName}
           named == Kept(findings, keep)
           comps == [i \in DOMAIN named |-> ComponentFromFinding(named[i])]
           key == [i \in DOMAIN comps |-> <<comps[i].name, comps[i].version>>]
           C == {ComponentFromFinding(f) : f \in F}
<1>1. BuildSoftwareInventory(findings) = FirstsBy(comps, key)
  BY DEF BuildSoftwareInventory, Selected, FirstOfEach
<1>2. keep \subseteq DOMAIN findings
  OBVIOUS
<1>3. \A f : f \in Standing(findings, keep)
               <=> f \in Range(findings) /\ ComponentName(f) # NoName
  BY Zenon DEF Standing, Range
<1> HIDE DEF keep
<1>4. named \in Seq(F) /\ Range(named) = Standing(findings, keep)
  BY <1>2, KeptIsPart, Zenon
<1> HIDE DEF named
<1>5. comps \in [DOMAIN named -> C]
  <2>1. \A i \in DOMAIN named : named[i] \in F
    BY <1>4
  <2> QED
    BY <2>1, Zenon
<1>6. \A comp : comp \in Range(comps) <=> \E f \in Range(named) : comp = ComponentFromFinding(f)
  BY Zenon DEF Range
<1>7. \A i, j \in DOMAIN comps : key[i] = key[j] => comps[i] = comps[j]
  BY DEF ComponentFromFinding
<1> HIDE DEF comps, key, C
<1>8. comps \in Seq(C)
  BY <1>4, <1>5, MapFacts, Zenon
<1>9. Range(FirstsBy(comps, key)) = Range(comps)
  BY <1>7, <1>8, FirstsOfEquals, Zenon
<1> QED
  BY <1>1, <1>3, <1>4, <1>6, <1>9, Zenon

(* With more findings a run has every match it had.                          *)
LEMMA MoreMatches ==
  ASSUME NEW E, Rated(E), NEW entries \in Seq(E), MaxResults = 0,
         NEW F, NEW few \in Seq(F), NEW many \in Seq(F), Range(few) \subseteq Range(many)
  PROVE  Range(Run(entries, BuildSoftwareInventory(few)))
           \subseteq Range(Run(entries, BuildSoftwareInventory(many)))
<1> DEFINE C == {ComponentFromFinding(f) : f \in F}
           fewer == BuildSoftwareInventory(few)
           more  == BuildSoftwareInventory(many)
<1>1. fewer \in Seq(C) /\ more \in Seq(C)
  BY InventoryFacts, Zenon
<1>2. Range(fewer) \subseteq Range(more)
  BY InventoryHolds, ZenonT(60)
<1> HIDE DEF C, fewer, more
<1>3. /\ \A m : m \in Range(Run(entries, fewer)) <=>
           \E comp \in Range(fewer) : m \in Range(MatchesOf(entries, comp))
      /\ \A m : m \in Range(Run(entries, more)) <=>
           \E comp \in Range(more) : m \in Range(MatchesOf(entries, comp))
  BY <1>1, RunFacts, Zenon
<1>4. Range(Run(entries, fewer)) \subseteq Range(Run(entries, more))
  BY <1>2, <1>3, Zenon
<1> QED
  BY <1>4 DEF fewer, more

(* A matcher gives the findings it fits, in their order.                     *)
LEMMA MatchedByHolds ==
  ASSUME NEW E, NEW enriched \in Seq(E), NEW matcher
  PROVE  /\ \A ef : ef \in Range(MatchedBy(matcher, enriched))
                      <=> ef \in Range(enriched) /\ FindingMatches(matcher, ef)
         /\ MatchedBy(matcher, enriched) # <<>>
              <=> \E ef \in Range(enriched) : FindingMatches(matcher, ef)
<1> DEFINE keep == {i \in DOMAIN enriched : FindingMatches(matcher, enriched[i])}
           kept == MatchedBy(matcher, enriched)
<1>1. kept = Kept(enriched, keep)
  BY DEF MatchedBy, Selected
<1>2. keep \subseteq DOMAIN enriched
  OBVIOUS
<1>3. \A ef : ef \in Standing(enriched, keep)
                <=> ef \in Range(enriched) /\ FindingMatches(matcher, ef)
  BY Zenon DEF Standing, Range
<1> HIDE DEF keep
<1>4. Range(Kept(enriched, keep)) = Standing(enriched, keep)
  BY <1>2, KeptIsPart, Zenon
<1>5. kept \in Seq(E)
  BY MatchedByFacts, Zenon
<1>6. \A ef : ef \in Range(kept) <=> ef \in Range(enriched) /\ FindingMatches(matcher, ef)
  BY <1>1, <1>3, <1>4, Zenon
<1> HIDE DEF kept
<1>7. kept # <<>> <=> \E ef : ef \in Range(kept)
  <2>1. kept # <<>> => 1 \in DOMAIN kept
    BY <1>5
  <2>2. kept = <<>> => DOMAIN kept = {}
    BY <1>5
  <2> QED
    BY <2>1, <2>2, Zenon DEF Range
<1> QED
  BY <1>6, <1>7, Zenon DEF kept

(* A path has the findings that a matcher of its rule fits, as far as ids tell. *)
Fitting(rule, enriched) ==
  {ef \in Range(enriched) : \E i \in DOMAIN (rule.required \o rule.optional) :
                              FindingMatches((rule.required \o rule.optional)[i], ef)}

(* Its findings are dropped only behind others of the same id.               *)
LEMMA CollectedHolds ==
  ASSUME NEW E, NEW enriched \in Seq(E), NEW rule, IsRule(rule)
  PROVE  /\ {Id(ef.finding) : ef \in Range(CollectMatchedFindings(rule, enriched))}
              = {Id(ef.finding) : ef \in Fitting(rule, enriched)}
         /\ Range(CollectMatchedFindings(rule, enriched)) \subseteq Range(enriched)
<1> DEFINE matchers == rule.required \o rule.optional
           parts == [i \in DOMAIN matchers |-> MatchedBy(matchers[i], enriched)]
           all == FlattenSeq(parts)
           key == [i \in DOMAIN all |-> Id(all[i].finding)]
<1>1. CollectMatchedFindings(rule, enriched) = FirstsBy(all, key)
  BY DEF CollectMatchedFindings, FirstOfEach
<1>2. PICK M : matchers \in Seq(M)
  <2>1. PICK S, T : rule.required \in Seq(S) /\ rule.optional \in Seq(T)
    BY Zenon DEF IsRule, IsList
  <2> DEFINE p == rule.required
             q == rule.optional
  <2>2. p \in Seq(S) /\ q \in Seq(T)
    BY <2>1
  <2> HIDE DEF p, q, parts, all, key
  <2>3. p \in Seq(S \cup T) /\ q \in Seq(S \cup T)
    BY <2>2
  <2>4. p \o q \in Seq(S \cup T)
    BY <2>3, ConcatFacts, Zenon
  <2> QED
    BY <2>4, Zenon DEF p, q
<1>3. \A ef : ef \in Fitting(rule, enriched)
                <=> \E i \in DOMAIN matchers : ef \in Range(enriched) /\ FindingMatches(matchers[i], ef)
  BY Zenon DEF Fitting
<1> HIDE DEF matchers
<1>4. parts \in [DOMAIN matchers -> Seq(E)]
  BY MatchedByFacts, Zenon
<1>5. \A i \in DOMAIN matchers : \A ef :
        ef \in Range(parts[i]) <=> ef \in Range(enriched) /\ FindingMatches(matchers[i], ef)
  BY MatchedByHolds, Zenon
<1> HIDE DEF parts
<1>6. parts \in Seq(Seq(E)) /\ DOMAIN parts = DOMAIN matchers
  BY <1>2, <1>4, MapFacts, Zenon
<1>7. all \in Seq(E) /\ Range(all) = UNION {Range(parts[i]) : i \in DOMAIN parts}
  BY <1>6, FlattenFacts, Zenon
<1> HIDE DEF all
<1>8. \A ef : ef \in Range(all) <=> ef \in Fitting(rule, enriched)
  BY <1>3, <1>5, <1>6, <1>7, Zenon
<1>9. ASSUME NEW ef \in Range(all)
      PROVE  \E other \in Range(FirstsBy(all, key)) : Id(other.finding) = Id(ef.finding)
  <2>1. PICK i \in DOMAIN all : ef = all[i]
    BY Zenon DEF Range
  <2>2. i \in DOMAIN key /\ key[i] = Id(ef.finding)
    BY <2>1
  <2> HIDE DEF key
  <2>3. PICK j \in 1 .. i : key[j] = key[i] /\ all[j] \in Range(FirstsBy(all, key))
    BY <1>7, FirstsFacts, Zenon
  <2>4. j \in DOMAIN all
    BY <1>7
  <2>5. key[j] = Id(all[j].finding)
    BY <2>4 DEF key
  <2> QED
    BY <2>2, <2>3, <2>5
<1> HIDE DEF key
<1>10. Range(FirstsBy(all, key)) \subseteq Range(all)
  BY <1>7, FirstsFacts, Zenon
<1>11. {Id(ef.finding) : ef \in Range(CollectMatchedFindings(rule, enriched))}
         = {Id(ef.finding) : ef \in Fitting(rule, enriched)}
  BY <1>1, <1>8, <1>9, <1>10, Zenon
<1>12. Range(CollectMatchedFindings(rule, enriched)) \subseteq Range(enriched)
  BY <1>1, <1>3, <1>8, <1>10, Zenon
<1> QED
  BY <1>11, <1>12

-----------------------------------------------------------------------------
(* No two rules share an identifier.                                         *)
Ids(rules)   == {rule.id : rule \in Range(rules)}
Apart(rules) == IsList(rules) /\ \A rule, other \in Range(rules) : rule.id = other.id => rule = other

(* A list of rules whose identifiers differ, one by one, is apart.           *)
LEMMA ApartLists ==
  /\ \A s, a, b : s = <<a, b>> =>
       (a.id # b.id =>
         Apart(s) /\ Ids(s) = {a.id, b.id})
  /\ \A s, a, b, c : s = <<a, b, c>> =>
       (a.id # b.id /\ a.id # c.id /\ b.id # c.id =>
         Apart(s) /\ Ids(s) = {a.id, b.id, c.id})
  /\ \A s, a, b, c, d : s = <<a, b, c, d>> =>
       (a.id # b.id /\ a.id # c.id /\ a.id # d.id /\ b.id # c.id /\ b.id # d.id /\ c.id # d.id =>
         Apart(s) /\ Ids(s) = {a.id, b.id, c.id, d.id})
  /\ \A s, a, b, c, d, e : s = <<a, b, c, d, e>> =>
       (a.id # b.id /\ a.id # c.id /\ a.id # d.id /\ a.id # e.id /\ b.id # c.id /\ b.id # d.id /\ b.id # e.id /\ c.id # d.id /\ c.id # e.id /\ d.id # e.id =>
         Apart(s) /\ Ids(s) = {a.id, b.id, c.id, d.id, e.id})
<1>1. \A a, b : Range(<<a, b>>) = {a, b} /\ IsList(<<a, b>>)
  <2>1. \A a, b : Range(<<a, b>>) = {a, b}
    BY DEF Range
  <2>2. \A a, b : <<a, b>> \in Seq({a, b})
    OBVIOUS
  <2> QED
    BY <2>1, <2>2, ZenonT(60) DEF IsList
<1>2. \A a, b, c : Range(<<a, b, c>>) = {a, b, c} /\ IsList(<<a, b, c>>)
  <2>1. \A a, b, c : Range(<<a, b, c>>) = {a, b, c}
    BY DEF Range
  <2>2. \A a, b, c : <<a, b, c>> \in Seq({a, b, c})
    OBVIOUS
  <2> QED
    BY <2>1, <2>2, ZenonT(60) DEF IsList
<1>3. \A a, b, c, d : Range(<<a, b, c, d>>) = {a, b, c, d} /\ IsList(<<a, b, c, d>>)
  <2>1. \A a, b, c, d : Range(<<a, b, c, d>>) = {a, b, c, d}
    BY DEF Range
  <2>2. \A a, b, c, d : <<a, b, c, d>> \in Seq({a, b, c, d})
    OBVIOUS
  <2> QED
    BY <2>1, <2>2, ZenonT(60) DEF IsList
<1>4. \A a, b, c, d, e : Range(<<a, b, c, d, e>>) = {a, b, c, d, e} /\ IsList(<<a, b, c, d, e>>)
  <2> SUFFICES ASSUME NEW a, NEW b, NEW c, NEW d, NEW e
               PROVE  Range(<<a, b, c, d, e>>) = {a, b, c, d, e} /\ IsList(<<a, b, c, d, e>>)
    BY Zenon
  <2>1. Range(<<a, b, c, d, e>>) = {a, b, c, d, e}
    BY DEF Range
  <2>2. <<a, b, c, d, e>> \in Seq({a, b, c, d, e})
    OBVIOUS
  <2> QED
    BY <2>1, <2>2, ZenonT(60) DEF IsList
<1> QED
  BY <1>1, <1>2, <1>3, <1>4 DEF Apart, Ids

(* So are two lists that share none.                                         *)
LEMMA JoinedApart ==
  \A s, t : Apart(s) => (Apart(t) => (Ids(s) \cap Ids(t) = {} =>
    Apart(s \o t) /\ Ids(s \o t) = Ids(s) \cup Ids(t)))
<1> SUFFICES ASSUME NEW s, NEW t, Apart(s), Apart(t), Ids(s) \cap Ids(t) = {}
             PROVE  Apart(s \o t) /\ Ids(s \o t) = Ids(s) \cup Ids(t)
  BY Zenon
<1>1. PICK S, T : s \in Seq(S) /\ t \in Seq(T)
  BY Zenon DEF Apart, IsList
<1> DEFINE U == S \cup T
<1>2. s \in Seq(U) /\ t \in Seq(U)
  BY <1>1
<1> HIDE DEF U
<1>3. s \o t \in Seq(U) /\ Range(s \o t) = Range(s) \cup Range(t)
  BY <1>2, ConcatFacts, ZenonT(60)
<1>4. IsList(s \o t)
  BY <1>3, Zenon DEF IsList
<1>5. Ids(s \o t) = Ids(s) \cup Ids(t)
  BY <1>3 DEF Ids
<1>6. ASSUME NEW rule \in Range(s \o t), NEW other \in Range(s \o t), rule.id = other.id
      PROVE  rule = other
  <2>1. rule \in Range(s) <=> other \in Range(s)
    BY <1>3, <1>6, Zenon DEF Ids
  <2>2. CASE rule \in Range(s) /\ other \in Range(s)
    BY <1>6, <2>2 DEF Apart
  <2>3. CASE rule \in Range(t) /\ other \in Range(t)
    BY <1>6, <2>3 DEF Apart
  <2> QED
    BY <1>3, <2>1, <2>2, <2>3, Zenon
<1> QED
  BY <1>4, <1>5, <1>6, Zenon DEF Apart

(* So is the table of rules, list by list (correlation.py).                  *)
LEMMA RulesAreApart == Apart(CORRELATION_RULES)
<1>1. Apart(PrivilegeEscalationRules) /\ Ids(PrivilegeEscalationRules) = {"AP-PE-001", "AP-PE-002", "AP-PE-003", "AP-PE-004", "AP-PE-005"}
  <2>1. PrivilegeEscalationRules = <<PrivilegeEscalationRules[1], PrivilegeEscalationRules[2], PrivilegeEscalationRules[3], PrivilegeEscalationRules[4], PrivilegeEscalationRules[5]>>
    BY DEF PrivilegeEscalationRules
  <2>2. /\ PrivilegeEscalationRules[1].id = "AP-PE-001"
        /\ PrivilegeEscalationRules[2].id = "AP-PE-002"
        /\ PrivilegeEscalationRules[3].id = "AP-PE-003"
        /\ PrivilegeEscalationRules[4].id = "AP-PE-004"
        /\ PrivilegeEscalationRules[5].id = "AP-PE-005"
    BY DEF Rule, PrivilegeEscalationRules
  <2>3. Apart(PrivilegeEscalationRules) /\ Ids(PrivilegeEscalationRules) = {PrivilegeEscalationRules[1].id, PrivilegeEscalationRules[2].id, PrivilegeEscalationRules[3].id, PrivilegeEscalationRules[4].id, PrivilegeEscalationRules[5].id}
    BY <2>1, <2>2, ApartLists
  <2> QED
    BY <2>2, <2>3
<1>2. Apart(PersistenceAndContainerRules) /\ Ids(PersistenceAndContainerRules) = {"AP-PERSIST-001", "AP-CONTAINER-001", "AP-CONTAINER-002"}
  <2>1. PersistenceAndContainerRules = <<PersistenceAndContainerRules[1], PersistenceAndContainerRules[2], PersistenceAndContainerRules[3]>>
    BY DEF PersistenceAndContainerRules
  <2>2. /\ PersistenceAndContainerRules[1].id = "AP-PERSIST-001"
        /\ PersistenceAndContainerRules[2].id = "AP-CONTAINER-001"
        /\ PersistenceAndContainerRules[3].id = "AP-CONTAINER-002"
    BY DEF Rule, PersistenceAndContainerRules
  <2>3. Apart(PersistenceAndContainerRules) /\ Ids(PersistenceAndContainerRules) = {PersistenceAndContainerRules[1].id, PersistenceAndContainerRules[2].id, PersistenceAndContainerRules[3].id}
    BY <2>1, <2>2, ApartLists
  <2> QED
    BY <2>2, <2>3
<1>3. Apart(LateralMovementRules) /\ Ids(LateralMovementRules) = {"AP-LM-001", "AP-LM-002", "AP-LM-003"}
  <2>1. LateralMovementRules = <<LateralMovementRules[1], LateralMovementRules[2], LateralMovementRules[3]>>
    BY DEF LateralMovementRules
  <2>2. /\ LateralMovementRules[1].id = "AP-LM-001"
        /\ LateralMovementRules[2].id = "AP-LM-002"
        /\ LateralMovementRules[3].id = "AP-LM-003"
    BY DEF Rule, LateralMovementRules
  <2>3. Apart(LateralMovementRules) /\ Ids(LateralMovementRules) = {LateralMovementRules[1].id, LateralMovementRules[2].id, LateralMovementRules[3].id}
    BY <2>1, <2>2, ApartLists
  <2> QED
    BY <2>2, <2>3
<1>4. Apart(KernelHardeningRules) /\ Ids(KernelHardeningRules) = {"AP-KH-001", "AP-KH-002", "AP-KH-003"}
  <2>1. KernelHardeningRules = <<KernelHardeningRules[1], KernelHardeningRules[2], KernelHardeningRules[3]>>
    BY DEF KernelHardeningRules
  <2>2. /\ KernelHardeningRules[1].id = "AP-KH-001"
        /\ KernelHardeningRules[2].id = "AP-KH-002"
        /\ KernelHardeningRules[3].id = "AP-KH-003"
    BY DEF Rule, KernelHardeningRules
  <2>3. Apart(KernelHardeningRules) /\ Ids(KernelHardeningRules) = {KernelHardeningRules[1].id, KernelHardeningRules[2].id, KernelHardeningRules[3].id}
    BY <2>1, <2>2, ApartLists
  <2> QED
    BY <2>2, <2>3
<1>5. Apart(RemoteLoginRules) /\ Ids(RemoteLoginRules) = {"AP-AUTH-001", "AP-AUTH-002", "AP-AUTH-003", "AP-AUTH-004"}
  <2>1. RemoteLoginRules = <<RemoteLoginRules[1], RemoteLoginRules[2], RemoteLoginRules[3], RemoteLoginRules[4]>>
    BY DEF RemoteLoginRules
  <2>2. /\ RemoteLoginRules[1].id = "AP-AUTH-001"
        /\ RemoteLoginRules[2].id = "AP-AUTH-002"
        /\ RemoteLoginRules[3].id = "AP-AUTH-003"
        /\ RemoteLoginRules[4].id = "AP-AUTH-004"
    BY DEF Rule, RemoteLoginRules
  <2>3. Apart(RemoteLoginRules) /\ Ids(RemoteLoginRules) = {RemoteLoginRules[1].id, RemoteLoginRules[2].id, RemoteLoginRules[3].id, RemoteLoginRules[4].id}
    BY <2>1, <2>2, ApartLists
  <2> QED
    BY <2>2, <2>3
<1>6. Apart(AccountRules) /\ Ids(AccountRules) = {"AP-AUTH-005", "AP-AUTH-006", "AP-AUTH-007", "AP-AUTH-008"}
  <2>1. AccountRules = <<AccountRules[1], AccountRules[2], AccountRules[3], AccountRules[4]>>
    BY DEF AccountRules
  <2>2. /\ AccountRules[1].id = "AP-AUTH-005"
        /\ AccountRules[2].id = "AP-AUTH-006"
        /\ AccountRules[3].id = "AP-AUTH-007"
        /\ AccountRules[4].id = "AP-AUTH-008"
    BY DEF Rule, AccountRules
  <2>3. Apart(AccountRules) /\ Ids(AccountRules) = {AccountRules[1].id, AccountRules[2].id, AccountRules[3].id, AccountRules[4].id}
    BY <2>1, <2>2, ApartLists
  <2> QED
    BY <2>2, <2>3
<1>7. Apart(SingleFindingRules) /\ Ids(SingleFindingRules) = {"AP-EXPLOIT-001", "AP-CRED-001", "AP-LM-004", "AP-PE-006"}
  <2>1. SingleFindingRules = <<SingleFindingRules[1], SingleFindingRules[2], SingleFindingRules[3], SingleFindingRules[4]>>
    BY DEF SingleFindingRules
  <2>2. /\ SingleFindingRules[1].id = "AP-EXPLOIT-001"
        /\ SingleFindingRules[2].id = "AP-CRED-001"
        /\ SingleFindingRules[3].id = "AP-LM-004"
        /\ SingleFindingRules[4].id = "AP-PE-006"
    BY DEF Rule, SingleFindingRules
  <2>3. Apart(SingleFindingRules) /\ Ids(SingleFindingRules) = {SingleFindingRules[1].id, SingleFindingRules[2].id, SingleFindingRules[3].id, SingleFindingRules[4].id}
    BY <2>1, <2>2, ApartLists
  <2> QED
    BY <2>2, <2>3
<1>8. Apart(VulnerabilityRules) /\ Ids(VulnerabilityRules) = {"AP-VULN-SSH-001", "AP-VULN-DOCKER-001", "AP-VULN-KERNEL-001", "AP-VULN-CRED-001"}
  <2>1. VulnerabilityRules = <<VulnerabilityRules[1], VulnerabilityRules[2], VulnerabilityRules[3], VulnerabilityRules[4]>>
    BY DEF VulnerabilityRules
  <2>2. /\ VulnerabilityRules[1].id = "AP-VULN-SSH-001"
        /\ VulnerabilityRules[2].id = "AP-VULN-DOCKER-001"
        /\ VulnerabilityRules[3].id = "AP-VULN-KERNEL-001"
        /\ VulnerabilityRules[4].id = "AP-VULN-CRED-001"
    BY DEF Rule, VulnerabilityRules
  <2>3. Apart(VulnerabilityRules) /\ Ids(VulnerabilityRules) = {VulnerabilityRules[1].id, VulnerabilityRules[2].id, VulnerabilityRules[3].id, VulnerabilityRules[4].id}
    BY <2>1, <2>2, ApartLists
  <2> QED
    BY <2>2, <2>3
<1>9. Apart(PackageRules) /\ Ids(PackageRules) = {"AP-PKG-001", "AP-PKG-002", "AP-PKG-003", "AP-PKG-004"}
  <2>1. PackageRules = <<PackageRules[1], PackageRules[2], PackageRules[3], PackageRules[4]>>
    BY DEF PackageRules
  <2>2. /\ PackageRules[1].id = "AP-PKG-001"
        /\ PackageRules[2].id = "AP-PKG-002"
        /\ PackageRules[3].id = "AP-PKG-003"
        /\ PackageRules[4].id = "AP-PKG-004"
    BY DEF Rule, PackageRules
  <2>3. Apart(PackageRules) /\ Ids(PackageRules) = {PackageRules[1].id, PackageRules[2].id, PackageRules[3].id, PackageRules[4].id}
    BY <2>1, <2>2, ApartLists
  <2> QED
    BY <2>2, <2>3
<1>10. Apart(NetworkRules) /\ Ids(NetworkRules) = {"AP-NET-001", "AP-NET-002", "AP-NET-003"}
  <2>1. NetworkRules = <<NetworkRules[1], NetworkRules[2], NetworkRules[3]>>
    BY DEF NetworkRules
  <2>2. /\ NetworkRules[1].id = "AP-NET-001"
        /\ NetworkRules[2].id = "AP-NET-002"
        /\ NetworkRules[3].id = "AP-NET-003"
    BY DEF Rule, NetworkRules
  <2>3. Apart(NetworkRules) /\ Ids(NetworkRules) = {NetworkRules[1].id, NetworkRules[2].id, NetworkRules[3].id}
    BY <2>1, <2>2, ApartLists
  <2> QED
    BY <2>2, <2>3
<1>11. Apart(BootRules) /\ Ids(BootRules) = {"AP-BOOT-001", "AP-BOOT-002", "AP-BOOT-003"}
  <2>1. BootRules = <<BootRules[1], BootRules[2], BootRules[3]>>
    BY DEF BootRules
  <2>2. /\ BootRules[1].id = "AP-BOOT-001"
        /\ BootRules[2].id = "AP-BOOT-002"
        /\ BootRules[3].id = "AP-BOOT-003"
    BY DEF Rule, BootRules
  <2>3. Apart(BootRules) /\ Ids(BootRules) = {BootRules[1].id, BootRules[2].id, BootRules[3].id}
    BY <2>1, <2>2, ApartLists
  <2> QED
    BY <2>2, <2>3
<1>12. Apart(GuiRules) /\ Ids(GuiRules) = {"AP-GUI-001", "AP-GUI-002"}
  <2>1. GuiRules = <<GuiRules[1], GuiRules[2]>>
    BY DEF GuiRules
  <2>2. /\ GuiRules[1].id = "AP-GUI-001"
        /\ GuiRules[2].id = "AP-GUI-002"
    BY DEF Rule, GuiRules
  <2>3. Apart(GuiRules) /\ Ids(GuiRules) = {GuiRules[1].id, GuiRules[2].id}
    BY <2>1, <2>2, ApartLists
  <2> QED
    BY <2>2, <2>3
<1>13. Apart(FilesystemRules) /\ Ids(FilesystemRules) = {"AP-FS-001", "AP-FS-002"}
  <2>1. FilesystemRules = <<FilesystemRules[1], FilesystemRules[2]>>
    BY DEF FilesystemRules
  <2>2. /\ FilesystemRules[1].id = "AP-FS-001"
        /\ FilesystemRules[2].id = "AP-FS-002"
    BY DEF Rule, FilesystemRules
  <2>3. Apart(FilesystemRules) /\ Ids(FilesystemRules) = {FilesystemRules[1].id, FilesystemRules[2].id}
    BY <2>1, <2>2, ApartLists
  <2> QED
    BY <2>2, <2>3
<1>14. Apart(MonitoringRules) /\ Ids(MonitoringRules) = {"AP-MON-001", "AP-MON-002"}
  <2>1. MonitoringRules = <<MonitoringRules[1], MonitoringRules[2]>>
    BY DEF MonitoringRules
  <2>2. /\ MonitoringRules[1].id = "AP-MON-001"
        /\ MonitoringRules[2].id = "AP-MON-002"
    BY DEF Rule, MonitoringRules
  <2>3. Apart(MonitoringRules) /\ Ids(MonitoringRules) = {MonitoringRules[1].id, MonitoringRules[2].id}
    BY <2>1, <2>2, ApartLists
  <2> QED
    BY <2>2, <2>3
<1>15. Apart(CryptoRules) /\ Ids(CryptoRules) = {"AP-CRYPT-001", "AP-CRYPT-002"}
  <2>1. CryptoRules = <<CryptoRules[1], CryptoRules[2]>>
    BY DEF CryptoRules
  <2>2. /\ CryptoRules[1].id = "AP-CRYPT-001"
        /\ CryptoRules[2].id = "AP-CRYPT-002"
    BY DEF Rule, CryptoRules
  <2>3. Apart(CryptoRules) /\ Ids(CryptoRules) = {CryptoRules[1].id, CryptoRules[2].id}
    BY <2>1, <2>2, ApartLists
  <2> QED
    BY <2>2, <2>3
<1>16. Apart(ContainerRules) /\ Ids(ContainerRules) = {"AP-CONT-001", "AP-CONT-002", "AP-CONT-003"}
  <2>1. ContainerRules = <<ContainerRules[1], ContainerRules[2], ContainerRules[3]>>
    BY DEF ContainerRules
  <2>2. /\ ContainerRules[1].id = "AP-CONT-001"
        /\ ContainerRules[2].id = "AP-CONT-002"
        /\ ContainerRules[3].id = "AP-CONT-003"
    BY DEF Rule, ContainerRules
  <2>3. Apart(ContainerRules) /\ Ids(ContainerRules) = {ContainerRules[1].id, ContainerRules[2].id, ContainerRules[3].id}
    BY <2>1, <2>2, ApartLists
  <2> QED
    BY <2>2, <2>3
<1> DEFINE s1 == PrivilegeEscalationRules
           s2 == s1 \o PersistenceAndContainerRules
           s3 == s2 \o LateralMovementRules
           s4 == s3 \o KernelHardeningRules
           s5 == s4 \o RemoteLoginRules
           s6 == s5 \o AccountRules
           s7 == s6 \o SingleFindingRules
           s8 == s7 \o VulnerabilityRules
           s9 == s8 \o PackageRules
           s10 == s9 \o NetworkRules
           s11 == s10 \o BootRules
           s12 == s11 \o GuiRules
           s13 == s12 \o FilesystemRules
           s14 == s13 \o MonitoringRules
           s15 == s14 \o CryptoRules
           s16 == s15 \o ContainerRules
<1> HIDE DEF s1, s2, s3, s4, s5, s6, s7, s8, s9, s10, s11, s12, s13, s14, s15, s16
<1>17. Apart(s1) /\ Ids(s1) = Ids(PrivilegeEscalationRules)
  BY <1>1 DEF s1
<1>18. Apart(s2) /\ Ids(s2) = Ids(s1) \cup Ids(PersistenceAndContainerRules)
  <2>1. Ids(s1) \cap Ids(PersistenceAndContainerRules) = {}
    BY <1>1, <1>2, <1>17
  <2> QED
    BY <1>2, <1>17, <2>1, JoinedApart, Zenon DEF s2
<1>19. Apart(s3) /\ Ids(s3) = Ids(s2) \cup Ids(LateralMovementRules)
  <2>1. Ids(s2) \cap Ids(LateralMovementRules) = {}
    BY <1>1, <1>2, <1>3, <1>17, <1>18
  <2> QED
    BY <1>3, <1>18, <2>1, JoinedApart, Zenon DEF s3
<1>20. Apart(s4) /\ Ids(s4) = Ids(s3) \cup Ids(KernelHardeningRules)
  <2>1. Ids(s3) \cap Ids(KernelHardeningRules) = {}
    BY <1>1, <1>2, <1>3, <1>4, <1>17, <1>18, <1>19
  <2> QED
    BY <1>4, <1>19, <2>1, JoinedApart, Zenon DEF s4
<1>21. Apart(s5) /\ Ids(s5) = Ids(s4) \cup Ids(RemoteLoginRules)
  <2>1. Ids(s4) \cap Ids(RemoteLoginRules) = {}
    BY <1>1, <1>2, <1>3, <1>4, <1>5, <1>17, <1>18, <1>19, <1>20
  <2> QED
    BY <1>5, <1>20, <2>1, JoinedApart, Zenon DEF s5
<1>22. Apart(s6) /\ Ids(s6) = Ids(s5) \cup Ids(AccountRules)
  <2>1. Ids(s5) \cap Ids(AccountRules) = {}
    BY <1>1, <1>2, <1>3, <1>4, <1>5, <1>6, <1>17, <1>18, <1>19, <1>20, <1>21
  <2> QED
    BY <1>6, <1>21, <2>1, JoinedApart, Zenon DEF s6
<1>23. Apart(s7) /\ Ids(s7) = Ids(s6) \cup Ids(SingleFindingRules)
  <2>1. Ids(s6) \cap Ids(SingleFindingRules) = {}
    BY <1>1, <1>2, <1>3, <1>4, <1>5, <1>6, <1>7, <1>17, <1>18, <1>19, <1>20, <1>21, <1>22
  <2> QED
    BY <1>7, <1>22, <2>1, JoinedApart, Zenon DEF s7
<1>24. Apart(s8) /\ Ids(s8) = Ids(s7) \cup Ids(VulnerabilityRules)
  <2>1. Ids(s7) \cap Ids(VulnerabilityRules) = {}
    BY <1>1, <1>2, <1>3, <1>4, <1>5, <1>6, <1>7, <1>8, <1>17, <1>18, <1>19, <1>20, <1>21, <1>22, <1>23
  <2> QED
    BY <1>8, <1>23, <2>1, JoinedApart, Zenon DEF s8
<1>25. Apart(s9) /\ Ids(s9) = Ids(s8) \cup Ids(PackageRules)
  <2>1. Ids(s8) \cap Ids(PackageRules) = {}
    BY <1>1, <1>2, <1>3, <1>4, <1>5, <1>6, <1>7, <1>8, <1>9, <1>17, <1>18, <1>19, <1>20, <1>21, <1>22, <1>23, <1>24
  <2> QED
    BY <1>9, <1>24, <2>1, JoinedApart, Zenon DEF s9
<1>26. Apart(s10) /\ Ids(s10) = Ids(s9) \cup Ids(NetworkRules)
  <2>1. Ids(s9) \cap Ids(NetworkRules) = {}
    BY <1>1, <1>2, <1>3, <1>4, <1>5, <1>6, <1>7, <1>8, <1>9, <1>10, <1>17, <1>18, <1>19, <1>20, <1>21, <1>22, <1>23, <1>24, <1>25
  <2> QED
    BY <1>10, <1>25, <2>1, JoinedApart, Zenon DEF s10
<1>27. Apart(s11) /\ Ids(s11) = Ids(s10) \cup Ids(BootRules)
  <2>1. Ids(s10) \cap Ids(BootRules) = {}
    BY <1>1, <1>2, <1>3, <1>4, <1>5, <1>6, <1>7, <1>8, <1>9, <1>10, <1>11, <1>17, <1>18, <1>19, <1>20, <1>21, <1>22, <1>23, <1>24, <1>25, <1>26
  <2> QED
    BY <1>11, <1>26, <2>1, JoinedApart, Zenon DEF s11
<1>28. Apart(s12) /\ Ids(s12) = Ids(s11) \cup Ids(GuiRules)
  <2>1. Ids(s11) \cap Ids(GuiRules) = {}
    BY <1>1, <1>2, <1>3, <1>4, <1>5, <1>6, <1>7, <1>8, <1>9, <1>10, <1>11, <1>12, <1>17, <1>18, <1>19, <1>20, <1>21, <1>22, <1>23, <1>24, <1>25, <1>26, <1>27
  <2> QED
    BY <1>12, <1>27, <2>1, JoinedApart, Zenon DEF s12
<1>29. Apart(s13) /\ Ids(s13) = Ids(s12) \cup Ids(FilesystemRules)
  <2>1. Ids(s12) \cap Ids(FilesystemRules) = {}
    BY <1>1, <1>2, <1>3, <1>4, <1>5, <1>6, <1>7, <1>8, <1>9, <1>10, <1>11, <1>12, <1>13, <1>17, <1>18, <1>19, <1>20, <1>21, <1>22, <1>23, <1>24, <1>25, <1>26, <1>27, <1>28
  <2> QED
    BY <1>13, <1>28, <2>1, JoinedApart, Zenon DEF s13
<1>30. Apart(s14) /\ Ids(s14) = Ids(s13) \cup Ids(MonitoringRules)
  <2>1. Ids(s13) \cap Ids(MonitoringRules) = {}
    BY <1>1, <1>2, <1>3, <1>4, <1>5, <1>6, <1>7, <1>8, <1>9, <1>10, <1>11, <1>12, <1>13, <1>14, <1>17, <1>18, <1>19, <1>20, <1>21, <1>22, <1>23, <1>24, <1>25, <1>26, <1>27, <1>28, <1>29
  <2> QED
    BY <1>14, <1>29, <2>1, JoinedApart, Zenon DEF s14
<1>31. Apart(s15) /\ Ids(s15) = Ids(s14) \cup Ids(CryptoRules)
  <2>1. Ids(s14) \cap Ids(CryptoRules) = {}
    BY <1>1, <1>2, <1>3, <1>4, <1>5, <1>6, <1>7, <1>8, <1>9, <1>10, <1>11, <1>12, <1>13, <1>14, <1>15, <1>17, <1>18, <1>19, <1>20, <1>21, <1>22, <1>23, <1>24, <1>25, <1>26, <1>27, <1>28, <1>29, <1>30
  <2> QED
    BY <1>15, <1>30, <2>1, JoinedApart, Zenon DEF s15
<1>32. Apart(s16) /\ Ids(s16) = Ids(s15) \cup Ids(ContainerRules)
  <2>1. Ids(s15) \cap Ids(ContainerRules) = {}
    BY <1>1, <1>2, <1>3, <1>4, <1>5, <1>6, <1>7, <1>8, <1>9, <1>10, <1>11, <1>12, <1>13, <1>14, <1>15, <1>16, <1>17, <1>18, <1>19, <1>20, <1>21, <1>22, <1>23, <1>24, <1>25, <1>26, <1>27, <1>28, <1>29, <1>30, <1>31
  <2> QED
    BY <1>16, <1>31, <2>1, JoinedApart, Zenon DEF s16
<1> QED
  BY <1>32 DEF CORRELATION_RULES, s1, s2, s3, s4, s5, s6, s7, s8, s9, s10, s11, s12, s13, s14, s15, s16

(* A rule fires when each of its required matchers fits a finding, and what   *)
(* correlation reports is the path of every rule that fires.                  *)
Fires(rule, enriched) ==
  \A i \in DOMAIN rule.required : \E ef \in Range(enriched) : FindingMatches(rule.required[i], ef)

(* No path that a rule gives is taken for a duplicate of another rule's.      *)
LEMMA CorrelateHolds ==
  ASSUME NEW E, NEW enriched \in Seq(E)
  PROVE  \A path : path \in Range(Correlate(enriched)) <=>
           \E rule \in Range(CORRELATION_RULES) :
             Fires(rule, enriched) /\ path = BuildPath(rule, enriched)
<1> DEFINE rules == CORRELATION_RULES
           keep == {k \in DOMAIN rules : \A i \in DOMAIN rules[k].required :
                                           MatchedBy(rules[k].required[i], enriched) # <<>>}
           fired == Kept(rules, keep)
           R == Range(rules)
           P == {BuildPath(rule, enriched) : rule \in R}
           built == [k \in DOMAIN fired |-> BuildPath(fired[k], enriched)]
           key == [k \in DOMAIN built |-> built[k].id]
<1>1. Correlate(enriched) = FirstsBy(built, key)
  BY DEF Correlate, Selected, FirstOfEach
<1>2. rules \in Seq(R) /\ \A rule, other \in R : rule.id = other.id => rule = other
  <2> HIDE DEF rules
  <2>1. IsList(rules) /\ \A rule, other \in R : rule.id = other.id => rule = other
    BY RulesAreApart, Zenon DEF Apart, rules
  <2>2. PICK S : rules \in Seq(S)
    BY <2>1, Zenon DEF IsList
  <2> QED
    BY <2>1, <2>2 DEF Range
<1>3. keep \subseteq DOMAIN rules
  OBVIOUS
<1>4. \A rule : rule \in Standing(rules, keep) <=> rule \in R /\ Fires(rule, enriched)
  <2> HIDE DEF rules
  <2>1. \A k \in DOMAIN rules : k \in keep <=> Fires(rules[k], enriched)
    BY MatchedByHolds, Zenon DEF Fires
  <2> HIDE DEF keep
  <2> QED
    BY <1>3, <2>1 DEF Standing, Range
<1> HIDE DEF keep, R, rules
<1>5. fired \in Seq(R) /\ Range(fired) = Standing(rules, keep)
  BY <1>2, <1>3, KeptIsPart, Zenon
<1> HIDE DEF fired
<1>6. \A k \in DOMAIN fired : fired[k] \in R
  BY <1>5
<1>7. built \in [DOMAIN fired -> P]
  BY <1>6, Zenon
<1>8. \A path : path \in Range(built) <=> \E rule \in Range(fired) : path = BuildPath(rule, enriched)
  BY Zenon DEF Range
<1>9. \A i, j \in DOMAIN built : key[i] = key[j] => built[i] = built[j]
  <2> SUFFICES ASSUME NEW i \in DOMAIN fired, NEW j \in DOMAIN fired,
                      BuildPath(fired[i], enriched).id = BuildPath(fired[j], enriched).id
               PROVE  BuildPath(fired[i], enriched) = BuildPath(fired[j], enriched)
    BY Zenon
  <2>1. fired[i].id = fired[j].id
    BY DEF BuildPath
  <2> QED
    BY <1>2, <1>6, <2>1, Zenon
<1> HIDE DEF built, P, key
<1>10. built \in Seq(P)
  BY <1>5, <1>7, MapFacts, Zenon
<1>11. Range(FirstsBy(built, key)) = Range(built)
  BY <1>9, <1>10, FirstsOfEquals, Zenon
<1>12. \A path : path \in Range(Correlate(enriched)) <=>
           \E rule \in R : Fires(rule, enriched) /\ path = BuildPath(rule, enriched)
  BY <1>1, <1>4, <1>5, <1>8, <1>11, Zenon
<1> QED
  BY <1>12 DEF R, rules

(* A path of the same rule with a finding of every id that the path had.     *)
Resumes(later, path) ==
  /\ later.rule = path.rule
  /\ {Id(ef.finding) : ef \in Range(path.findings)}
       \subseteq {Id(ef.finding) : ef \in Range(later.findings)}
Among(path, E) == Range(path.findings) \subseteq E

(* With more findings correlation resumes every path it had.                 *)
LEMMA MorePaths ==
  ASSUME NEW E, NEW fewer \in Seq(E), NEW more \in Seq(E), Range(fewer) \subseteq Range(more)
  PROVE  \A path \in Range(Correlate(fewer)) : \E later \in Range(Correlate(more)) :
           Resumes(later, path) /\ Among(path, Range(fewer)) /\ Among(later, Range(more))
<1> TAKE path \in Range(Correlate(fewer))
<1>1. PICK rule \in Range(CORRELATION_RULES) : Fires(rule, fewer) /\ path = BuildPath(rule, fewer)
  BY CorrelateHolds, Zenon
<1>2. Fires(rule, more)
  BY <1>1, Zenon DEF Fires
<1>3. BuildPath(rule, more) \in Range(Correlate(more))
  BY <1>2, CorrelateHolds, Zenon
<1>4. IsRule(rule)
  BY RulesAreRules, Zenon DEF Ruled
<1>5. Fitting(rule, fewer) \subseteq Fitting(rule, more)
  BY Zenon DEF Fitting
<1>6. {Id(ef.finding) : ef \in Range(CollectMatchedFindings(rule, fewer))}
        \subseteq {Id(ef.finding) : ef \in Range(CollectMatchedFindings(rule, more))}
  <2>1. {Id(ef.finding) : ef \in Fitting(rule, fewer)} \subseteq {Id(ef.finding) : ef \in Fitting(rule, more)}
    BY <1>5, Zenon
  <2> QED
    BY <1>4, <2>1, CollectedHolds, Zenon
<1>7. /\ BuildPath(rule, fewer).rule = BuildPath(rule, more).rule
      /\ BuildPath(rule, fewer).findings = CollectMatchedFindings(rule, fewer)
      /\ BuildPath(rule, more).findings = CollectMatchedFindings(rule, more)
  BY DEF BuildPath
<1>8. Resumes(BuildPath(rule, more), path)
  BY <1>1, <1>6, <1>7 DEF Resumes
<1>9. Among(path, Range(fewer)) /\ Among(BuildPath(rule, more), Range(more))
  <2>1. /\ Range(CollectMatchedFindings(rule, fewer)) \subseteq Range(fewer)
        /\ Range(CollectMatchedFindings(rule, more)) \subseteq Range(more)
    BY <1>4, CollectedHolds, Zenon
  <2> QED
    BY <1>1, <1>7, <2>1, Zenon DEF Among
<1> QED
  BY <1>3, <1>8, <1>9, Zenon

-----------------------------------------------------------------------------
(* What is assessed.                                                        *)

(* The findings whose titles call for an assessment, one of each title.      *)
Notable(f) == {"suid", "gtfo", "writable", "passwordless", "docker socket", "cve-"}
                \cap f.title.phrases # {}
TitlesOf(findings) ==
  LET noted == Kept(findings, {i \in DOMAIN findings : Notable(findings[i])})
  IN FirstsBy(noted, [i \in DOMAIN noted |-> noted[i].title.text])
RulesOf(paths) == FirstsBy(paths, [i \in DOMAIN paths |-> paths[i].rule])

(* Of the findings with a notable title one is taken.                        *)
LEMMA TitlesHold ==
  ASSUME NEW F, NEW findings \in Seq(F)
  PROVE  /\ TitlesOf(findings) \in Seq(F)
         /\ \A f \in Range(TitlesOf(findings)) : f \in Range(findings) /\ Notable(f)
         /\ \A f \in Range(findings) : Notable(f) =>
              \E g \in Range(TitlesOf(findings)) : g.title.text = f.title.text
<1> DEFINE keep == {i \in DOMAIN findings : Notable(findings[i])}
           noted == Kept(findings, keep)
           key == [i \in DOMAIN noted |-> noted[i].title.text]
<1>1. TitlesOf(findings) = FirstsBy(noted, key)
  BY DEF TitlesOf
<1>2. keep \subseteq DOMAIN findings
  OBVIOUS
<1>3. \A f : f \in Standing(findings, keep) <=> f \in Range(findings) /\ Notable(f)
  BY Zenon DEF Standing, Range
<1> HIDE DEF keep
<1>4. noted \in Seq(F) /\ Range(noted) = Standing(findings, keep)
  BY <1>2, KeptIsPart, Zenon
<1> HIDE DEF noted
<1>5. FirstsBy(noted, key) \in Seq(F) /\ Range(FirstsBy(noted, key)) \subseteq Range(noted)
  BY <1>4, FirstsFacts, Zenon
<1>6. ASSUME NEW f \in Range(noted)
      PROVE  \E g \in Range(FirstsBy(noted, key)) : g.title.text = f.title.text
  <2>1. PICK i \in DOMAIN noted : f = noted[i]
    BY Zenon DEF Range
  <2>2. PICK j \in 1 .. i : key[j] = key[i] /\ noted[j] \in Range(FirstsBy(noted, key))
    <3> HIDE DEF key
    <3> QED
      BY <1>4, FirstsFacts, Zenon
  <2>3. j \in DOMAIN noted
    BY <1>4
  <2> QED
    BY <2>1, <2>2, <2>3
<1> QED
  BY <1>1, <1>3, <1>4, <1>5, <1>6, Zenon

(* Of the paths of a rule one is taken.                                      *)
LEMMA RulesHold ==
  ASSUME NEW P, NEW paths \in Seq(P)
  PROVE  /\ RulesOf(paths) \in Seq(P) /\ Range(RulesOf(paths)) \subseteq Range(paths)
         /\ \A p \in Range(paths) : \E q \in Range(RulesOf(paths)) : q.rule = p.rule
<1> DEFINE key == [i \in DOMAIN paths |-> paths[i].rule]
<1>1. RulesOf(paths) = FirstsBy(paths, key)
  BY DEF RulesOf
<1>2. FirstsBy(paths, key) \in Seq(P) /\ Range(FirstsBy(paths, key)) \subseteq Range(paths)
  BY FirstsFacts, Zenon
<1>3. ASSUME NEW p \in Range(paths)
      PROVE  \E q \in Range(FirstsBy(paths, key)) : q.rule = p.rule
  <2>1. PICK i \in DOMAIN paths : p = paths[i]
    BY Zenon DEF Range
  <2>2. PICK j \in 1 .. i : key[j] = key[i] /\ paths[j] \in Range(FirstsBy(paths, key))
    <3> HIDE DEF key
    <3> QED
      BY FirstsFacts, Zenon
  <2>3. j \in DOMAIN paths
    OBVIOUS
  <2> QED
    BY <2>1, <2>2, <2>3
<1> QED
  BY <1>1, <1>2, <1>3, Zenon

(* What is assessed: every match, one path of each rule, one finding of each  *)
(* title; and it is given a score within the bounds.                         *)
LEMMA AssessHolds ==
  ASSUME NEW F, NEW findings \in Seq(F), NEW enriched,
         NEW P, \A path \in P : IsPath(path), NEW paths \in Seq(P),
         NEW E, Rated(E), NEW C, NEW matches \in Seq(MatchSet(E, C))
  PROVE  /\ \A a \in Range(Assess(findings, enriched, paths, matches)) : IsMarked(a)
         /\ \A a : a \in Range(Assess(findings, enriched, paths, matches)) <=>
              \/ \E m \in Range(matches) : a = AssessVulnerability(m, Context(findings))
              \/ \E p \in Range(RulesOf(paths)) : a = AssessAttackPath(p, matches, Context(findings))
              \/ \E f \in Range(TitlesOf(findings)) :
                   a \in AssessFinding(f, findings, enriched, matches, Context(findings))
<1> DEFINE M       == MatchSet(E, C)
           context == Context(findings)
           apart   == RulesOf(paths)
           titles  == TitlesOf(findings)
           Of1(m)  == AssessVulnerability(m, context)
           Of2(p)  == AssessAttackPath(p, matches, context)
           Of3(f)  == AssessFinding(f, findings, enriched, matches, context)
           A       == {Of1(m) : m \in M} \cup {Of2(p) : p \in P} \cup UNION {Of3(f) : f \in F}
           first   == [i \in DOMAIN matches |-> Of1(matches[i])]
           second  == [i \in DOMAIN apart |-> Of2(apart[i])]
           parts   == [i \in DOMAIN titles |-> SetToSeq(Of3(titles[i]))]
           third   == FlattenSeq(parts)
           all     == first \o second \o third
           key     == [i \in DOMAIN all |-> all[i].score]
<1>1. Assess(findings, enriched, paths, matches) = SortedBy(all, key)
  BY DEF Assess, Selected, FirstOfEach, Descending, TitlesOf, RulesOf, Notable
<1>2. /\ \A m \in M : IsMarked(Of1(m))
      /\ \A p \in P : IsMarked(Of2(p))
      /\ \A f \in F : IsFiniteSet(Of3(f)) /\ \A a \in Of3(f) : IsMarked(a)
  <2>1. \A m \in M : IsMarked(Of1(m))
    BY MatchScored, Zenon
  <2>2. \A p \in P : IsMarked(Of2(p))
    BY PathScored, Zenon
  <2>3. ASSUME NEW f \in F PROVE IsFiniteSet(Of3(f)) /\ \A a \in Of3(f) : IsMarked(a)
    BY FindingAssessed, Zenon
  <2> QED
    BY <2>1, <2>2, <2>3, Zenon
<1>3. apart \in Seq(P) /\ titles \in Seq(F)
  BY RulesHold, TitlesHold, Zenon
<1> HIDE DEF context, apart, titles, M, Of1, Of2, Of3
<1>4. \A a \in A : IsMarked(a)
  BY <1>2, Zenon
<1>5. first \in Seq(A) /\ \A a : a \in Range(first) <=> \E m \in Range(matches) : a = Of1(m)
  <2>1. matches \in Seq(M)
    BY DEF M
  <2>2. \A i \in DOMAIN matches : matches[i] \in M
    BY <2>1
  <2>3. first \in [DOMAIN matches -> A]
    BY <2>2, Zenon
  <2>4. \A a : a \in Range(first) <=> \E m \in Range(matches) : a = Of1(m)
    BY Zenon DEF Range
  <2> HIDE DEF first, A
  <2> QED
    BY <2>1, <2>3, <2>4, MapFacts, Zenon
<1>6. second \in Seq(A) /\ \A a : a \in Range(second) <=> \E p \in Range(apart) : a = Of2(p)
  <2>1. \A i \in DOMAIN apart : apart[i] \in P
    BY <1>3
  <2>2. second \in [DOMAIN apart -> A]
    BY <2>1, Zenon
  <2>3. \A a : a \in Range(second) <=> \E p \in Range(apart) : a = Of2(p)
    BY Zenon DEF Range
  <2> HIDE DEF second, A
  <2> QED
    BY <1>3, <2>2, <2>3, MapFacts, Zenon
<1>7. third \in Seq(A) /\ \A a : a \in Range(third) <=> \E f \in Range(titles) : a \in Of3(f)
  <2>1. ASSUME NEW f \in F PROVE SetToSeq(Of3(f)) \in Seq(A) /\ Range(SetToSeq(Of3(f))) = Of3(f)
    <3>1. IsFiniteSet(Of3(f))
      BY <1>2, Zenon
    <3>2. SetToSeq(Of3(f)) \in Seq(Of3(f)) /\ Range(SetToSeq(Of3(f))) = Of3(f)
      BY <3>1, SetToSeqFacts, Zenon
    <3>3. Of3(f) \subseteq A
      BY Zenon
    <3> HIDE DEF A
    <3> QED
      BY <3>2, <3>3
  <2> HIDE DEF A
  <2>2. \A i \in DOMAIN titles : titles[i] \in F
    BY <1>3
  <2>3. parts \in [DOMAIN titles -> Seq(A)]
    BY <2>1, <2>2, Zenon
  <2>4. \A i \in DOMAIN titles : Range(parts[i]) = Of3(titles[i])
    BY <2>1, <2>2, Zenon
  <2> HIDE DEF parts
  <2>5. parts \in Seq(Seq(A)) /\ DOMAIN parts = DOMAIN titles
    BY <1>3, <2>3, MapFacts, Zenon
  <2>6. third \in Seq(A) /\ Range(third) = UNION {Range(parts[i]) : i \in DOMAIN parts}
    BY <2>5, FlattenFacts, Zenon
  <2> HIDE DEF third
  <2>7. \A a : a \in Range(third) <=> \E i \in DOMAIN titles : a \in Of3(titles[i])
    BY <2>4, <2>5, <2>6, Zenon
  <2> QED
    BY <2>6, <2>7, Zenon DEF Range
<1> HIDE DEF first, second, third, A
<1>8. all \in Seq(A) /\ Range(all) = Range(first) \cup Range(second) \cup Range(third)
  <2>1. first \o second \in Seq(A) /\ Range(first \o second) = Range(first) \cup Range(second)
    <3>1. first \in Seq(A) /\ second \in Seq(A)
      BY <1>5, <1>6, Zenon
    <3> QED
      BY <3>1, ConcatFacts, ZenonT(60)
  <2> DEFINE both == first \o second
  <2>2. both \in Seq(A) /\ Range(both) = Range(first) \cup Range(second)
    BY <2>1
  <2> HIDE DEF both
  <2>3. third \in Seq(A)
    BY <1>7
  <2>4. both \o third \in Seq(A) /\ Range(both \o third) = Range(both) \cup Range(third)
    BY <2>2, <2>3, ConcatFacts
  <2> QED
    BY <2>2, <2>4 DEF both
<1> HIDE DEF all
<1>9. \A i \in DOMAIN all : IsMarked(all[i])
  BY <1>4, <1>8
<1>10. \A i \in DOMAIN all : key[i] \in Int
  BY <1>9, MarksAreNumbers, Zenon DEF IsMarked
<1> HIDE DEF key
<1>11. Range(SortedBy(all, key)) = Range(all)
  BY <1>8, <1>10, SortedFacts, Zenon
<1>12. \A a \in Range(all) : IsMarked(a)
  BY <1>9, Zenon DEF Range
<1>13. \A a : a \in Range(all) <=> \/ \E m \in Range(matches) : a = Of1(m)
                                   \/ \E p \in Range(apart) : a = Of2(p)
                                   \/ \E f \in Range(titles) : a \in Of3(f)
  BY <1>5, <1>6, <1>7, <1>8, Zenon
<1>14. \A a : a \in Range(Assess(findings, enriched, paths, matches))
                <=> \/ \E m \in Range(matches) : a = Of1(m)
                    \/ \E p \in Range(apart) : a = Of2(p)
                    \/ \E f \in Range(titles) : a \in Of3(f)
  BY <1>1, <1>11, <1>13, Zenon
<1>15. \A a \in Range(Assess(findings, enriched, paths, matches)) : IsMarked(a)
  BY <1>1, <1>11, <1>12, Zenon
<1> QED
  BY <1>14, <1>15, Zenon DEF context, apart, titles, Of1, Of2, Of3

(* Enrichment takes the findings one by one.                                 *)
LEMMA EnrichAllHolds ==
  ASSUME NEW F, NEW all \in Seq(F)
  PROVE  /\ EnrichAll(all) \in Seq({EnrichFinding(f) : f \in F})
         /\ \A ef : ef \in Range(EnrichAll(all)) <=> \E f \in Range(all) : ef = EnrichFinding(f)
<1> DEFINE W == {EnrichFinding(f) : f \in F}
           enriched == EnrichAll(all)
<1>1. \A i \in DOMAIN all : all[i] \in F
  OBVIOUS
<1>2. enriched \in [DOMAIN all -> W]
  BY <1>1, Zenon DEF EnrichAll
<1>3. \A ef : ef \in Range(enriched) <=> \E f \in Range(all) : ef = EnrichFinding(f)
  BY Zenon DEF EnrichAll, Range
<1> HIDE DEF enriched, W
<1>4. enriched \in Seq(W)
  BY <1>2, MapFacts, Zenon
<1> QED
  BY <1>3, <1>4 DEF W, enriched

(* The findings of a scan and those made of its matches.                     *)
HoldsAll(all, findings, matches) ==
  \A f : f \in Range(all) <=> f \in Range(findings) \/ \E m \in Range(matches) : f = ToFinding(m)
AllOf(findings, matches) == findings \o [i \in DOMAIN matches |-> ToFinding(matches[i])]

(* All that is enriched is a finding of the scanners or made of a match.      *)
LEMMA AllFit ==
  ASSUME NEW F, NEW findings \in Seq(F), NEW M, NEW matches \in Seq(M),
         NEW G, F \subseteq G, \A m \in M : ToFinding(m) \in G
  PROVE  AllOf(findings, matches) \in Seq(G) /\ HoldsAll(AllOf(findings, matches), findings, matches)
<1> DEFINE made == [i \in DOMAIN matches |-> ToFinding(matches[i])]
<1>1. \A i \in DOMAIN matches : matches[i] \in M
  OBVIOUS
<1>2. made \in [DOMAIN matches -> G]
  BY <1>1, Zenon
<1>3. \A f : f \in Range(made) <=> \E m \in Range(matches) : f = ToFinding(m)
  BY Zenon DEF Range
<1> HIDE DEF made
<1>5. made \in Seq(G)
  BY <1>2, MapFacts, Zenon
<1>6. findings \in Seq(G)
  OBVIOUS
<1>7. findings \o made \in Seq(G) /\ Range(findings \o made) = Range(findings) \cup Range(made)
  BY <1>5, <1>6, ConcatFacts, ZenonT(60)
<1> QED
  BY <1>3, <1>7, Zenon DEF AllOf, HoldsAll, made

(* A list has a first element or is empty.                                   *)
LEMMA NonEmpty ==
  ASSUME NEW S, NEW s \in Seq(S)
  PROVE  /\ s # <<>> <=> \E x : x \in Range(s)
         /\ s # <<>> => s[1] \in Range(s)
<1>1. s # <<>> => 1 \in DOMAIN s
  OBVIOUS
<1>2. s = <<>> => DOMAIN s = {}
  OBVIOUS
<1> QED
  BY <1>1, <1>2, Zenon DEF Range

-----------------------------------------------------------------------------
(* Findings with one title have its phrases in common, and name the same      *)
(* GTFOBins binaries.                                                       *)
Alike(F) == \A f, g \in F : f.title.text = g.title.text =>
              f.title.phrases = g.title.phrases /\ f.binaries = g.binaries

(* Findings with one id are of one stage, target, title and category.        *)
Told(F) == \A f, g \in F : Id(f) = Id(g) =>
             /\ f.stage = g.stage /\ f.target = g.target /\ f.title.text = g.title.text
             /\ f.category = g.category

(* So the knowledge base says the same of them.                              *)
LEMMA OneStandsForAnother ==
  ASSUME NEW F, Alike(F), Told(F), NEW f \in F, NEW g \in F, Id(f) = Id(g)
  PROVE  StandsFor(EnrichFinding(f), EnrichFinding(g))
<1> DEFINE Matched(h) == {rule \in ALL_RULES : RuleMatches(rule, h)}
<1>1. /\ f.stage = g.stage /\ f.target = g.target /\ f.title.text = g.title.text
      /\ f.category = g.category
  BY Zenon DEF Told
<1>2. f.title.phrases = g.title.phrases /\ f.binaries = g.binaries
  BY <1>1, Zenon DEF Alike
<1>3. Matched(f) = Matched(g)
  <2>1. \A rule : RuleMatches(rule, f) <=> RuleMatches(rule, g)
    BY <1>1, <1>2, Zenon DEF RuleMatches
  <2> QED
    BY <2>1, Zenon
<1> DEFINE m       == Matched(g)
           b       == g.binaries
           bins    == IF m = {} THEN <<>> ELSE b
           sources == IF bins = <<>> THEN m ELSE m \cup {BIN_001}
           scores  == {0} \cup {rule.confidence : rule \in sources}
           attack  == \E rule \in sources : rule.attack
           tags    == UNION {rule.tags : rule \in m}
           score   == CHOOSE c \in scores : \A other \in scores : c >= other
           Enriched(h) == [finding |-> h, gtfoBins |-> bins, attack |-> attack, tags |-> tags,
                           score |-> score]
<1>4. EnrichFinding(g) = Enriched(g)
  BY DEF EnrichFinding
<1>5. EnrichFinding(f) = Enriched(f)
  <2>1. \A h : Matched(h) = m /\ h.binaries = b => EnrichFinding(h) = Enriched(h)
    <3> HIDE DEF m, b
    <3> QED
      BY Zenon DEF EnrichFinding
  <2> QED
    BY <1>2, <1>3, <2>1
<1> HIDE DEF bins, attack, tags, score
<1>6. [EnrichFinding(f) EXCEPT !.finding = g] = EnrichFinding(g)
  BY <1>4, <1>5
<1>7. EnrichFinding(f).finding = f /\ EnrichFinding(g).finding = g
  BY <1>4, <1>5
<1> QED
  BY <1>1, <1>6, <1>7 DEF StandsFor

(* A path of the same rule with one that stands for each finding of the path.  *)
Continues(later, path) ==
  /\ later.rule = path.rule
  /\ \A ef \in Range(path.findings) : \E other \in Range(later.findings) : StandsFor(other, ef)

(* What an assessment of a GTFOBins title looks up is one of its findings.    *)
LEMMA SameTitleHolds ==
  ASSUME NEW F, NEW all \in Seq(F), NEW f
  PROVE  LET same == SameTitle(f, EnrichAll(all))
         IN /\ same # <<>> <=> \E h \in Range(all) : /\ h.title.text = f.title.text
                                                     /\ EnrichFinding(h).gtfoBins # <<>>
            /\ same # <<>> => \E h \in Range(all) : /\ h.title.text = f.title.text
                                                    /\ same[1].gtfoBins = h.binaries
<1> DEFINE W == {EnrichFinding(g) : g \in F}
           enriched == EnrichAll(all)
           keep == {i \in DOMAIN enriched : /\ enriched[i].finding.title.text = f.title.text
                                            /\ enriched[i].gtfoBins # <<>>}
           same == SameTitle(f, EnrichAll(all))
<1>1. same = Kept(enriched, keep)
  BY DEF SameTitle, Selected
<1>2. keep \subseteq DOMAIN enriched
  OBVIOUS
<1>3. enriched \in Seq(W) /\ \A ef : ef \in Range(enriched) <=> \E h \in Range(all) : ef = EnrichFinding(h)
  BY EnrichAllHolds, Zenon
<1>4. \A h : /\ EnrichFinding(h).finding = h
             /\ EnrichFinding(h).gtfoBins # <<>> => EnrichFinding(h).gtfoBins = h.binaries
  BY DEF EnrichFinding
<1> HIDE DEF enriched, W
<1>5. \A ef : ef \in Standing(enriched, keep)
                <=> /\ ef \in Range(enriched) /\ ef.finding.title.text = f.title.text
                    /\ ef.gtfoBins # <<>>
  BY Zenon DEF Standing, Range
<1> HIDE DEF keep
<1>6. same \in Seq(W) /\ Range(same) = Standing(enriched, keep)
  BY <1>1, <1>2, <1>3, KeptIsPart, Zenon
<1> HIDE DEF same
<1>7. \A ef : ef \in Range(same)
                <=> \E h \in Range(all) : /\ ef = EnrichFinding(h) /\ h.title.text = f.title.text
                                          /\ EnrichFinding(h).gtfoBins # <<>>
  <2>1. ASSUME NEW ef \in Range(same)
        PROVE  \E h \in Range(all) : /\ ef = EnrichFinding(h) /\ h.title.text = f.title.text
                                     /\ EnrichFinding(h).gtfoBins # <<>>
    <3>1. ef \in Range(enriched) /\ ef.finding.title.text = f.title.text /\ ef.gtfoBins # <<>>
      BY <1>5, <1>6, Zenon
    <3>2. PICK h \in Range(all) : ef = EnrichFinding(h)
      BY <1>3, <3>1, Zenon
    <3> QED
      BY <1>4, <3>1, <3>2
  <2>2. ASSUME NEW h \in Range(all), h.title.text = f.title.text, EnrichFinding(h).gtfoBins # <<>>
        PROVE  EnrichFinding(h) \in Range(same)
    <3> DEFINE ef == EnrichFinding(h)
    <3>1. ef \in Range(enriched)
      BY <1>3, Zenon
    <3>2. ef.finding.title.text = f.title.text /\ ef.gtfoBins # <<>>
      BY <1>4, <2>2
    <3> HIDE DEF ef
    <3>3. ef \in Range(same)
      BY <1>5, <1>6, <3>1, <3>2, Zenon
    <3> QED
      BY <3>3 DEF ef
  <2> QED
    BY <2>1, <2>2, Zenon
<1>8. same # <<>> <=> \E ef : ef \in Range(same)
  BY <1>6, NonEmpty, Zenon
<1>9. same # <<>> => same[1] \in Range(same)
  BY <1>6, NonEmpty, Zenon
<1>10. same # <<>> => \E h \in Range(all) : h.title.text = f.title.text /\ same[1].gtfoBins = h.binaries
  <2> SUFFICES ASSUME same # <<>>
               PROVE  \E h \in Range(all) : h.title.text = f.title.text /\ same[1].gtfoBins = h.binaries
    BY Zenon
  <2>1. PICK h \in Range(all) : /\ same[1] = EnrichFinding(h) /\ h.title.text = f.title.text
                                /\ EnrichFinding(h).gtfoBins # <<>>
    BY <1>7, <1>9, Zenon
  <2>2. same[1].gtfoBins = h.binaries
    BY <1>4, <2>1
  <2> QED
    BY <2>1, <2>2, Zenon
<1>11. same # <<>> <=> \E h \in Range(all) : /\ h.title.text = f.title.text
                                             /\ EnrichFinding(h).gtfoBins # <<>>
  BY <1>7, <1>8, Zenon
<1> QED
  BY <1>10, <1>11 DEF same

(* A title that has been assessed is still assessed when more is found, as what *)
(* it was before; or it named a match, which is assessed by itself.          *)
LEMMA TitleStaysAssessed ==
  ASSUME NEW F, Alike(F), NEW few \in Seq(F), NEW many \in Seq(F), Range(few) \subseteq Range(many),
         NEW f \in F, NEW g \in F, f.title.text = g.title.text,
         NEW M, NEW matches \in Seq(M), NEW later, NEW before, NEW after,
         NEW was, was = AssessFinding(f, few, EnrichAll(few), matches, before), NEW a \in was,
         NEW now, now = AssessFinding(g, many, EnrichAll(many), later, after)
  PROVE  \/ \E b \in now : b.subject = a.subject
         \/ \E m \in Range(matches) : a = AssessVulnerability(m, before)
<1> DEFINE same  == SameTitle(f, EnrichAll(few))
           same2 == SameTitle(g, EnrichAll(many))
<1>1. \A phrase : InTitle(f, phrase) <=> InTitle(g, phrase)
  BY Zenon DEF Alike, InTitle
<1>2. \A x, y : Scored(f, x).subject = Scored(g, y).subject
  BY DEF Scored
<1>3. ASSUME a \in AssessGtfo(f, EnrichAll(few), before)
      PROVE  \E b \in AssessGtfo(g, EnrichAll(many), after) : b.subject = a.subject
  <2>1. same # <<>> /\ a.subject = <<"gtfobins", same[1].gtfoBins[1]>>
    BY <1>3 DEF AssessGtfo
  <2>2. /\ same # <<>> <=> \E h \in Range(few) : /\ h.title.text = f.title.text
                                                 /\ EnrichFinding(h).gtfoBins # <<>>
        /\ same # <<>> => \E h \in Range(few) : /\ h.title.text = f.title.text
                                                /\ same[1].gtfoBins = h.binaries
    BY SameTitleHolds, Zenon
  <2>3. /\ same2 # <<>> <=> \E h \in Range(many) : /\ h.title.text = g.title.text
                                                   /\ EnrichFinding(h).gtfoBins # <<>>
        /\ same2 # <<>> => \E h \in Range(many) : /\ h.title.text = g.title.text
                                                  /\ same2[1].gtfoBins = h.binaries
    BY SameTitleHolds
  <2>4. same2 # <<>>
    BY <2>1, <2>2, <2>3
  <2>5. PICK h \in Range(few) : h.title.text = f.title.text /\ same[1].gtfoBins = h.binaries
    BY <2>1, <2>2, Zenon
  <2>6. PICK k \in Range(many) : k.title.text = g.title.text /\ same2[1].gtfoBins = k.binaries
    BY <2>4, <2>3, Zenon
  <2>7. h \in F /\ k \in F
    BY DEF Range
  <2>8. same[1].gtfoBins = same2[1].gtfoBins
    BY <2>5, <2>6, <2>7 DEF Alike
  <2>9. \E b \in AssessGtfo(g, EnrichAll(many), after) :
          b.subject = <<"gtfobins", same2[1].gtfoBins[1]>>
    BY <2>4 DEF AssessGtfo
  <2> HIDE DEF same, same2
  <2> QED
    BY <2>1, <2>8, <2>9
<1>4. ASSUME a \in AssessCveFinding(f, matches, before)
      PROVE  \E m \in Range(matches) : a = AssessVulnerability(m, before)
  <2> DEFINE keep  == {i \in DOMAIN matches : InTitle(f, matches[i].vuln.cve)}
             named == Kept(matches, keep)
  <2>1. AssessCveFinding(f, matches, before)
          = IF named = <<>> THEN {} ELSE {AssessVulnerability(named[1], before)}
    BY DEF AssessCveFinding, Selected
  <2>2. keep \subseteq DOMAIN matches
    OBVIOUS
  <2>3. \A x \in Standing(matches, keep) : x \in Range(matches)
    BY Zenon DEF Standing, Range
  <2> HIDE DEF keep
  <2>4. named \in Seq(M) /\ Range(named) = Standing(matches, keep)
    BY <2>2, KeptIsPart, Zenon
  <2> HIDE DEF named
  <2>5. named # <<>> => named[1] \in Range(matches)
    BY <2>3, <2>4, NonEmpty, Zenon
  <2> QED
    BY <1>4, <2>1, <2>5
<1> HIDE DEF same, same2
<1>5. a \in AssessFinding(f, few, EnrichAll(few), matches, before)
  OBVIOUS
<1>6. \/ \E b \in AssessFinding(g, many, EnrichAll(many), later, after) : b.subject = a.subject
      \/ \E m \in Range(matches) : a = AssessVulnerability(m, before)
  <2>1. CASE InTitle(f, "suid")
    BY <1>1, <1>2, <1>5, <2>1, ZenonT(60) DEF AssessFinding, AssessSuid
  <2>2. CASE ~InTitle(f, "suid") /\ InTitle(f, "gtfo")
    BY <1>1, <1>3, <1>5, <2>2, ZenonT(60) DEF AssessFinding
  <2>3. CASE ~InTitle(f, "suid") /\ ~InTitle(f, "gtfo")
    BY <1>1, <1>2, <1>4, <1>5, <2>3, ZenonT(60)
    DEF AssessFinding, AssessWritablePath, AssessPasswordlessSudo, AssessDockerSocket
  <2> QED
    BY <2>1, <2>2, <2>3, Zenon
<1> QED
  BY <1>6

(* The findings that a scan may come to show.                                *)
Components == {ComponentFromFinding(f) : f \in {g \in AllFindings : ComponentName(g) # NoName}}
Made(vuln) == {ToFinding(MatchOf(vuln, comp)) : comp \in Components}
Shown      == AllFindings \cup UNION {Made(vuln) : vuln \in AllEntries}

(* The entries carry numbers, as the engine supposes.                        *)
LEMMA EntriesAreRated == Rated(AllEntries)
  BY VulnIntelAssumption, Zenon DEF Rated

(* What is made of a match is among them.                                    *)
LEMMA ShownMatches ==
  \A m \in MatchSet(AllEntries, Components) : ToFinding(m) \in Shown
<1> SUFFICES ASSUME NEW m \in MatchSet(AllEntries, Components) PROVE ToFinding(m) \in Shown
  OBVIOUS
<1>1. m.vuln \in AllEntries /\ m.component \in Components
  BY Zenon DEF MatchSet
<1> DEFINE vuln == m.vuln
           comp == m.component
<1>2. ToFinding(m) = ToFinding(MatchOf(vuln, comp))
  BY DEF ToFinding, MatchOf
<1>3. vuln \in AllEntries /\ comp \in Components
  BY <1>1
<1> HIDE DEF vuln, comp
<1>4. ToFinding(MatchOf(vuln, comp)) \in Shown
  <2>1. ToFinding(MatchOf(vuln, comp)) \in Made(vuln)
    BY <1>3, Zenon DEF Made
  <2> QED
    BY <1>3, <2>1, Zenon DEF Shown
<1> QED
  BY <1>2, <1>4

(* What the passes of one scan work on.                                      *)
LEMMA PassesFacts ==
  ASSUME NEW findings \in Seq(AllFindings), NEW entries \in Seq(AllEntries),
         NEW matches, matches = Run(entries, BuildSoftwareInventory(findings)),
         NEW all, all = AllOf(findings, matches)
  PROVE  /\ Analyse(entries, findings).matches = matches
         /\ Analyse(entries, findings).paths = Correlate(EnrichAll(all))
         /\ Analyse(entries, findings).assessments
              = Assess(all, EnrichAll(all), Correlate(EnrichAll(all)), matches)
         /\ matches \in Seq(MatchSet(AllEntries, Components)) /\ all \in Seq(Shown)
         /\ \E P : Correlate(EnrichAll(all)) \in Seq(P) /\ \A path \in P : IsPath(path)
<1> DEFINE W == {EnrichFinding(f) : f \in Shown}
<1>1. /\ Analyse(entries, findings).matches = matches
      /\ Analyse(entries, findings).paths = Correlate(EnrichAll(all))
      /\ Analyse(entries, findings).assessments
           = Assess(all, EnrichAll(all), Correlate(EnrichAll(all)), matches)
  BY DEF Analyse, AfterInventory, AfterLookup, AfterAggregation, AfterEnrichment, AfterCorrelation,
         Outcome, AllOf
<1>2. matches \in Seq(MatchSet(AllEntries, Components))
  <2>1. BuildSoftwareInventory(findings) \in Seq(Components)
    <3> DEFINE C == {ComponentFromFinding(f) : f \in AllFindings}
               inventory == BuildSoftwareInventory(findings)
    <3>1. inventory \in Seq(C)
      BY InventoryFacts, Zenon
    <3>2. \A f \in Range(findings) : f \in AllFindings
      BY DEF Range
    <3>3. \A comp \in Range(inventory) : comp \in Components
      BY <3>2, InventoryHolds, Zenon DEF Components
    <3> HIDE DEF C, inventory
    <3>4. inventory \in Seq(Components)
      BY <3>1, <3>3 DEF Range
    <3> QED
      BY <3>4 DEF inventory
  <2> QED
    BY <2>1, EntriesAreRated, RunFacts, Zenon
<1>3. all \in Seq(Shown)
  <2> DEFINE M == MatchSet(AllEntries, Components)
  <2>1. AllFindings \subseteq Shown
    BY Zenon DEF Shown
  <2>2. \A m \in M : ToFinding(m) \in Shown
    BY ShownMatches, Zenon
  <2> HIDE DEF M
  <2>3. matches \in Seq(M)
    BY <1>2 DEF M
  <2> QED
    BY <2>1, <2>2, <2>3, AllFit, Zenon
<1>4. \A f \in Shown : f.confidence \in Int
  <2>1. ASSUME NEW f \in AllFindings PROVE f.confidence \in Int
    <3>1. f.confidence \in Nat \cup {NoConfidence}
      BY VulnIntelAssumption, Zenon
    <3> QED
      BY <3>1 DEF NoConfidence
  <2>2. ASSUME NEW vuln \in AllEntries, NEW comp PROVE ToFinding(MatchOf(vuln, comp)).confidence \in Int
    <3>1. vuln.confidence \in Nat
      BY EntriesAreRated DEF Rated
    <3>2. ToFinding(MatchOf(vuln, comp)).confidence = vuln.confidence
      BY DEF ToFinding, MatchOf
    <3> QED
      BY <3>1, <3>2
  <2>3. ASSUME NEW f \in Shown PROVE f.confidence \in Int
    <3>1. CASE f \in AllFindings
      BY <2>1, <3>1, Zenon
    <3>2. ASSUME NEW vuln \in AllEntries, NEW comp \in Components, f = ToFinding(MatchOf(vuln, comp))
          PROVE  f.confidence \in Int
      BY <2>2, <3>2
    <3> QED
      BY <3>1, <3>2, Zenon DEF Shown, Made
  <2> QED
    BY <2>3, Zenon
<1>5. Weighed(W)
  <2>1. ASSUME NEW f \in Shown
        PROVE  EnrichFinding(f).score \in Int /\ EnrichFinding(f).finding.confidence \in Int
    <3>1. EnrichFinding(f).finding = f /\ EnrichFinding(f).score \in 0 .. 100
      BY EnrichmentFacts, Zenon
    <3>2. \A n \in 0 .. 100 : n \in Int
      OBVIOUS
    <3> QED
      BY <1>4, <3>1, <3>2, Zenon
  <2> QED
    BY <2>1, Zenon DEF Weighed
<1>6. EnrichAll(all) \in Seq(W)
  BY <1>3, EnrichAllHolds, Zenon
<1> HIDE DEF W
<1>7. \E P : Correlate(EnrichAll(all)) \in Seq(P) /\ \A path \in P : IsPath(path)
  BY <1>5, <1>6, CorrelateFacts, Zenon
<1> QED
  BY <1>1, <1>2, <1>3, <1>7

(* The scores of an analysis are within the bounds.                          *)
LEMMA AnalyseFacts ==
  ASSUME NEW findings \in Seq(AllFindings), NEW entries \in Seq(AllEntries)
  PROVE  /\ \A path \in Range(Analyse(entries, findings).paths) : IsPath(path)
         /\ \A a \in Range(Analyse(entries, findings).assessments) : IsMarked(a)
<1> DEFINE matches  == Run(entries, BuildSoftwareInventory(findings))
           all      == AllOf(findings, matches)
           enriched == EnrichAll(all)
           paths    == Correlate(enriched)
           M        == MatchSet(AllEntries, Components)
<1>1. /\ Analyse(entries, findings).paths = paths
      /\ Analyse(entries, findings).assessments = Assess(all, enriched, paths, matches)
      /\ matches \in Seq(M) /\ all \in Seq(Shown)
      /\ \E P : paths \in Seq(P) /\ \A path \in P : IsPath(path)
  BY PassesFacts, Zenon
<1> HIDE DEF matches, all, enriched, paths
<1>2. PICK P : paths \in Seq(P) /\ \A path \in P : IsPath(path)
  BY <1>1, Zenon
<1>3. \A path \in Range(paths) : IsPath(path)
  BY <1>2 DEF Range
<1>4. \A a \in Range(Assess(all, enriched, paths, matches)) : IsMarked(a)
  BY <1>1, <1>2, EntriesAreRated, AssessHolds, Zenon DEF M
<1> QED
  BY <1>1, <1>3, <1>4, Zenon

(* More findings and more matches are more to enrich.                        *)
LEMMA MoreToEnrich ==
  ASSUME NEW F, NEW few \in Seq(F), NEW many \in Seq(F), Range(few) \subseteq Range(many),
         NEW M, NEW fewer \in Seq(M), NEW more \in Seq(M), Range(fewer) \subseteq Range(more)
  PROVE  Range(AllOf(few, fewer)) \subseteq Range(AllOf(many, more))
<1> DEFINE G == F \cup {ToFinding(m) : m \in M}
<1>1. F \subseteq G /\ \A m \in M : ToFinding(m) \in G
  BY Zenon
<1> HIDE DEF G
<1>2. HoldsAll(AllOf(few, fewer), few, fewer) /\ HoldsAll(AllOf(many, more), many, more)
  BY <1>1, AllFit, Zenon
<1> QED
  BY <1>2, Zenon DEF HoldsAll

(* More to enrich is more to correlate.                                      *)
LEMMA MoreToCorrelate ==
  ASSUME NEW F, Alike(F), Told(F), NEW few \in Seq(F), NEW many \in Seq(F), Range(few) \subseteq Range(many)
  PROVE  \A path \in Range(Correlate(EnrichAll(few))) :
           \E later \in Range(Correlate(EnrichAll(many))) : Continues(later, path)
<1> DEFINE W     == {EnrichFinding(f) : f \in F}
           fewer == EnrichAll(few)
           more  == EnrichAll(many)
<1>1. fewer \in Seq(W) /\ \A ef : ef \in Range(fewer) <=> \E f \in Range(few) : ef = EnrichFinding(f)
  BY EnrichAllHolds, Zenon
<1>2. more \in Seq(W) /\ \A ef : ef \in Range(more) <=> \E f \in Range(many) : ef = EnrichFinding(f)
  BY EnrichAllHolds, Zenon
<1> HIDE DEF W, fewer, more
<1>3. Range(fewer) \subseteq Range(more)
  BY <1>1, <1>2, Zenon
<1>4. ASSUME NEW path \in Range(Correlate(fewer))
      PROVE  \E later \in Range(Correlate(more)) : Continues(later, path)
  <2>1. fewer \in Seq(W) /\ more \in Seq(W)
    BY <1>1, <1>2, Zenon
  <2>2. PICK later \in Range(Correlate(more)) :
          Resumes(later, path) /\ Among(path, Range(fewer)) /\ Among(later, Range(more))
    BY <1>3, <2>1, MorePaths, Zenon
  <2>3. ASSUME NEW ef \in Range(path.findings)
        PROVE  \E other \in Range(later.findings) : StandsFor(other, ef)
    <3>1. PICK other \in Range(later.findings) : Id(other.finding) = Id(ef.finding)
      <4>1. Id(ef.finding) \in {Id(x.finding) : x \in Range(path.findings)}
        OBVIOUS
      <4>2. Id(ef.finding) \in {Id(x.finding) : x \in Range(later.findings)}
        BY <2>2, <4>1, Zenon DEF Resumes
      <4> QED
        BY <4>2
    <3>2. /\ \E f \in Range(few) : ef = EnrichFinding(f)
          /\ \E g \in Range(many) : other = EnrichFinding(g)
      BY <1>1, <1>2, <2>2, Zenon DEF Among
    <3>3. PICK f \in F : ef = EnrichFinding(f)
      BY <3>2 DEF Range
    <3>4. PICK g \in F : other = EnrichFinding(g)
      BY <3>2 DEF Range
    <3>5. ef.finding = f /\ other.finding = g
      BY <3>3, <3>4, EnrichmentFacts, Zenon
    <3>6. Id(g) = Id(f)
      BY <3>1, <3>5
    <3>7. StandsFor(EnrichFinding(g), EnrichFinding(f))
      BY <3>6, OneStandsForAnother, Zenon
    <3> QED
      BY <3>3, <3>4, <3>7, Zenon
  <2>4. later.rule = path.rule
    BY <2>2, Zenon DEF Resumes
  <2> QED
    BY <2>3, <2>4, Zenon DEF Continues
<1> QED
  BY <1>4, Zenon DEF fewer, more

(* What the last pass is given: findings, matches and paths.                 *)
Matches               == MatchSet(AllEntries, Components)
Follow(others, paths) == \A path \in Range(paths) : \E other \in Range(others) : other.rule = path.rule
AreShown(findings)    == findings \in Seq(Shown)
AreMatches(matches)   == matches \in Seq(Matches)
ArePaths(paths)       == \E P : paths \in Seq(P) /\ \A path \in P : IsPath(path)

(* Every subject that is assessed stays one when there is more to assess.    *)
LEMMA MoreIsAssessed ==
  ASSUME Alike(Shown), NEW few, AreShown(few), NEW many, AreShown(many), Range(few) \subseteq Range(many),
         NEW paths, ArePaths(paths), NEW others, ArePaths(others),
         Follow(others, paths),
         NEW fewer, AreMatches(fewer), NEW more, AreMatches(more), Range(fewer) \subseteq Range(more),
         NEW before, before = Assess(few, EnrichAll(few), paths, fewer),
         NEW after, after = Assess(many, EnrichAll(many), others, more)
  PROVE  \A a \in Range(before) : \E b \in Range(after) : b.subject = a.subject
<1> DEFINE c1 == Context(few)
           c2 == Context(many)
<1>1. /\ few \in Seq(Shown) /\ many \in Seq(Shown)
      /\ fewer \in Seq(Matches) /\ more \in Seq(Matches)
  BY Zenon DEF AreShown, AreMatches
<1>2. PICK P : paths \in Seq(P) /\ \A path \in P : IsPath(path)
  BY Zenon DEF ArePaths
<1>3. PICK Q : others \in Seq(Q) /\ \A path \in Q : IsPath(path)
  BY Zenon DEF ArePaths
<1>4. \A a : a \in Range(before)
        <=> \/ \E m \in Range(fewer) : a = AssessVulnerability(m, c1)
            \/ \E p \in Range(RulesOf(paths)) : a = AssessAttackPath(p, fewer, c1)
            \/ \E f \in Range(TitlesOf(few)) : a \in AssessFinding(f, few, EnrichAll(few), fewer, c1)
  BY <1>2, <1>1, AssessHolds, EntriesAreRated, Zenon DEF Matches
<1>5. \A a : a \in Range(after)
        <=> \/ \E m \in Range(more) : a = AssessVulnerability(m, c2)
            \/ \E p \in Range(RulesOf(others)) : a = AssessAttackPath(p, more, c2)
            \/ \E f \in Range(TitlesOf(many)) : a \in AssessFinding(f, many, EnrichAll(many), more, c2)
  BY <1>3, <1>1, AssessHolds, EntriesAreRated, Zenon DEF Matches
<1> HIDE DEF c1, c2
<1>6. ASSUME NEW m \in Range(fewer)
      PROVE  \E b \in Range(after) : b.subject = AssessVulnerability(m, c1).subject
  <2>1. AssessVulnerability(m, c2) \in Range(after)
    BY <1>5, Zenon
  <2>2. AssessVulnerability(m, c2).subject = AssessVulnerability(m, c1).subject
    BY DEF AssessVulnerability
  <2> QED
    BY <2>1, <2>2, Zenon
<1>7. ASSUME NEW p \in Range(RulesOf(paths))
      PROVE  \E b \in Range(after) : b.subject = AssessAttackPath(p, fewer, c1).subject
  <2>1. p \in Range(paths)
    BY <1>2, RulesHold, Zenon
  <2>2. PICK other \in Range(others) : other.rule = p.rule
    BY <2>1, Zenon DEF Follow
  <2>3. PICK q \in Range(RulesOf(others)) : q.rule = other.rule
    BY <1>3, RulesHold
  <2>4. AssessAttackPath(q, more, c2) \in Range(after)
    BY <1>5, Zenon
  <2>5. AssessAttackPath(q, more, c2).subject = AssessAttackPath(p, fewer, c1).subject
    BY <2>2, <2>3 DEF AssessAttackPath
  <2> QED
    BY <2>4, <2>5, Zenon
<1>8. ASSUME NEW f \in Range(TitlesOf(few)), NEW a \in AssessFinding(f, few, EnrichAll(few), fewer, c1)
      PROVE  \E b \in Range(after) : b.subject = a.subject
  <2>1. f \in Range(few) /\ Notable(f)
    BY <1>1, TitlesHold, Zenon
  <2>2. \E g \in Range(TitlesOf(many)) : g.title.text = f.title.text
    <3>1. f \in Range(many) /\ Notable(f)
      BY <2>1, Zenon
    <3>2. \A h \in Range(many) : Notable(h) =>
            \E g \in Range(TitlesOf(many)) : g.title.text = h.title.text
      BY <1>1, TitlesHold, SMTT(30)
    <3> QED
      BY <3>1, <3>2, Zenon
  <2>3. PICK g \in Range(TitlesOf(many)) : g.title.text = f.title.text
    BY <2>2, Zenon
  <2>4. g \in Range(many)
    BY <1>1, TitlesHold, Zenon
  <2>5. f \in Shown /\ g \in Shown
    BY <1>1, <2>1, <2>4 DEF Range
  <2>6. f.title.text = g.title.text
    BY <2>3
  <2> DEFINE was == AssessFinding(f, few, EnrichAll(few), fewer, c1)
             now == AssessFinding(g, many, EnrichAll(many), more, c2)
  <2>7. \A b : b \in now => b \in Range(after)
    BY <1>5, Zenon
  <2>8. /\ was = AssessFinding(f, few, EnrichAll(few), fewer, c1) /\ a \in was
        /\ now = AssessFinding(g, many, EnrichAll(many), more, c2)
    OBVIOUS
  <2> HIDE DEF was, now
  <2>9. \/ \E b \in now : b.subject = a.subject
        \/ \E m \in Range(fewer) : a = AssessVulnerability(m, c1)
    BY <2>5, <2>6, <2>8, <1>1, TitleStaysAssessed, Z3
  <2> QED
    BY <1>6, <2>7, <2>9
<1>9. ASSUME NEW a \in Range(before) PROVE \E b \in Range(after) : b.subject = a.subject
  BY <1>4, <1>6, <1>7, <1>8, <1>9
<1> QED
  BY <1>9, Zenon

(* A scan that finds more than another reports all that the other reports.    *)
LEMMA MoreIsReported ==
  ASSUME Alike(Shown), Told(Shown), MaxResults = 0, NEW entries \in Seq(AllEntries),
         NEW few \in Seq(AllFindings), NEW many \in Seq(AllFindings), Range(few) \subseteq Range(many),
         NEW before, before = Analyse(entries, few), NEW after, after = Analyse(entries, many)
  PROVE  /\ Range(before.matches) \subseteq Range(after.matches)
         /\ \A path \in Range(before.paths) : \E later \in Range(after.paths) : Continues(later, path)
         /\ Subjects(before) \subseteq Subjects(after)
<1> DEFINE m1 == Run(entries, BuildSoftwareInventory(few))
           m2 == Run(entries, BuildSoftwareInventory(many))
           f1 == AllOf(few, m1)
           f2 == AllOf(many, m2)
           p1 == Correlate(EnrichAll(f1))
           p2 == Correlate(EnrichAll(f2))
<1>1. /\ before.matches = m1 /\ before.paths = p1
      /\ before.assessments = Assess(f1, EnrichAll(f1), p1, m1)
      /\ m1 \in Seq(Matches) /\ f1 \in Seq(Shown)
      /\ \E P : p1 \in Seq(P) /\ \A path \in P : IsPath(path)
  BY PassesFacts, Zenon DEF Matches
<1>2. /\ after.matches = m2 /\ after.paths = p2
      /\ after.assessments = Assess(f2, EnrichAll(f2), p2, m2)
      /\ m2 \in Seq(Matches) /\ f2 \in Seq(Shown)
      /\ \E P : p2 \in Seq(P) /\ \A path \in P : IsPath(path)
  BY PassesFacts, Zenon DEF Matches
<1>3. Range(m1) \subseteq Range(m2)
  BY EntriesAreRated, MoreMatches, Zenon
<1> HIDE DEF m1, m2
<1>4. Range(f1) \subseteq Range(f2)
  <2>1. m1 \in Seq(Matches) /\ m2 \in Seq(Matches)
    BY <1>1, <1>2, Zenon
  <2> QED
    BY <1>3, <2>1, MoreToEnrich, Zenon
<1> HIDE DEF f1, f2
<1>5. \A path \in Range(p1) : \E later \in Range(p2) : Continues(later, path)
  <2>1. f1 \in Seq(Shown) /\ f2 \in Seq(Shown)
    BY <1>1, <1>2, Zenon
  <2> QED
    BY <1>4, <2>1, MoreToCorrelate, Zenon
<1> HIDE DEF p1, p2
<1>6. ArePaths(p1) /\ ArePaths(p2)
  BY <1>1, <1>2, Zenon DEF ArePaths
<1>8. Follow(p2, p1)
  BY <1>5, Zenon DEF Continues, Follow
<1>9. {a.subject : a \in Range(before.assessments)} \subseteq {a.subject : a \in Range(after.assessments)}
  <2>1. AreShown(f1) /\ AreShown(f2) /\ AreMatches(m1) /\ AreMatches(m2)
    BY <1>1, <1>2, Zenon DEF AreShown, AreMatches
  <2>2. /\ before.assessments = Assess(f1, EnrichAll(f1), p1, m1)
        /\ after.assessments = Assess(f2, EnrichAll(f2), p2, m2)
    BY <1>1, <1>2, Zenon
  <2> DEFINE b == before.assessments
             a == after.assessments
  <2>3. /\ b = Assess(f1, EnrichAll(f1), p1, m1)
        /\ a = Assess(f2, EnrichAll(f2), p2, m2)
    BY <2>2
  <2> HIDE DEF a, b
  <2>4. \A x \in Range(b) : \E y \in Range(a) : y.subject = x.subject
    BY <1>3, <1>4, <1>6, <1>8, <2>1, <2>3, MoreIsAssessed
  <2> QED
    BY <2>4 DEF a, b
<1> QED
  BY <1>1, <1>2, <1>3, <1>5, <1>9, Zenon DEF Subjects

-----------------------------------------------------------------------------
(* What is analysed and what is reported.                                   *)

(* The analysis is that of a host, by the files as they first were.         *)
AnalysisInv == \E findings \in Seq(AllFindings) : analysis = Analyse(Contents[1], findings)

(* Every scan leaves the analysis of what it found.                         *)
THEOREM AnalysisInvariance == Spec => []AnalysisInv
<1>1. Init => AnalysisInv
  <2>1. <<>> \in Seq(AllFindings)
    OBVIOUS
  <2> QED
    BY <2>1, Zenon DEF Init, AnalysisInv
<1>2. AnalysisInv /\ [Next]_vars => AnalysisInv'
  <2> SUFFICES ASSUME AnalysisInv, [Next]_vars PROVE AnalysisInv'
    OBVIOUS
  <2>1. ASSUME analysis' = analysis PROVE AnalysisInv'
    BY <2>1 DEF AnalysisInv
  <2>2. ASSUME NEW batch, NextScan(batch) PROVE AnalysisInv'
    <3>1. FindingsOf(found') \in Seq(AllFindings)
      BY FindingsOfFacts, Zenon
    <3>2. analysis' = Analyse(Contents[1], FindingsOf(found'))
      BY <2>2, Zenon DEF NextScan
    <3> QED
      BY <3>1, <3>2, Zenon DEF AnalysisInv
  <2> QED
    BY <2>1, <2>2 DEF Next, vars, scanvars, Lookups
<1> QED
  BY <1>1, <1>2, PTL DEF Spec

(* Reports name an outcome, and their scores are within the bounds.         *)
LEMMA ReportsAreTyped ==
  ASSUME NEW r \in Reports
  PROVE  /\ r.outcome \in {"none", "done", "AssertionError", "JSONDecodeError"}
         /\ r.stats.overall \in Risks
         /\ \A i \in DOMAIN r.matches : r.matches[i].risk \in Risks
<1> DEFINE Typed(x) == /\ x.outcome \in {"none", "done", "AssertionError", "JSONDecodeError"}
                       /\ x.stats.overall \in Risks
                       /\ \A i \in DOMAIN x.matches : x.matches[i].risk \in Risks
           C == {ComponentFromFinding(f) : f \in AllFindings}
           M == MatchSet(AllEntries, C)
<1>1. ASSUME NEW x \in NoLookup PROVE Typed(x)
  <2>1. /\ x.stats = ComputeVulnStats(<<>>, 0) /\ x.matches = <<>>
        /\ x.outcome \in {"none", "AssertionError", "JSONDecodeError"}
    BY <1>1 DEF NoLookup, NoReport
  <2>2. <<>> \in Seq(M)
    OBVIOUS
  <2>3. ComputeVulnStats(<<>>, 0).overall \in Risks
    BY <2>2, StatsFacts, Zenon
  <2> QED
    BY <2>1, <2>3
<1>2. ASSUME NEW k \in 1 .. MaxFiles, NEW batches PROVE Typed(ReportOf(k, batches))
  <2> DEFINE entries   == Contents[k]
             findings  == FindingsOf(batches)
             inventory == BuildSoftwareInventory(findings)
             matches   == Run(entries, inventory)
             stats     == ComputeVulnStats(matches, Len(inventory))
  <2>1. /\ ReportOf(k, batches).outcome = "done"
        /\ ReportOf(k, batches).matches = matches
        /\ ReportOf(k, batches).stats = stats
    BY DEF ReportOf
  <2>2. entries \in Seq(AllEntries)
    BY VulnIntelAssumption
  <2>3. findings \in Seq(AllFindings)
    BY FindingsOfFacts
  <2> HIDE DEF entries, findings
  <2>4. inventory \in Seq(C)
    BY <2>3, InventoryFacts, Zenon
  <2> HIDE DEF inventory
  <2>5. matches \in Seq(M)
    <3>1. Rated(AllEntries)
      BY VulnIntelAssumption, Zenon DEF Rated
    <3> QED
      BY <2>2, <2>4, <3>1, RunFacts, Zenon
  <2> HIDE DEF matches
  <2>6. stats.overall \in Risks
    BY <2>5, StatsFacts, Zenon
  <2>7. \A i \in DOMAIN matches : matches[i].risk \in Risks
    <3>1. \A m \in M : m.risk \in Risks
      BY Zenon DEF MatchSet
    <3> HIDE DEF M
    <3>2. \A i \in DOMAIN matches : matches[i] \in M
      BY <2>5
    <3> QED
      BY <3>1, <3>2, Zenon
  <2> HIDE DEF stats
  <2> QED
    BY <2>1, <2>6, <2>7, Zenon
<1> HIDE DEF Typed
<1>3. Typed(r)
  <2>1. CASE r \in NoLookup
    BY <1>1, <2>1, Zenon
  <2>2. CASE r \notin NoLookup
    <3>1. PICK k \in 1 .. MaxFiles, batches \in SUBSET (DOMAIN Batches) : r = ReportOf(k, batches)
      BY <2>2, Zenon DEF Reports, ReportsOf
    <3> QED
      BY <1>2, <3>1, Zenon
  <2> QED
    BY <2>1, <2>2
<1> QED
  BY <1>3, Zenon DEF Typed

(* Type correctness, whatever a host shows: the overall risk and the risk   *)
(* of each match stay between 0 and 100, and so does the score of           *)
(* every path and of every assessment, however much the scans find.         *)
THEOREM IntelTypeCorrect == Spec => []IntelTypeOK
<1>1. IInv /\ HostInv /\ AnalysisInv => IntelTypeOK
  <2> SUFFICES ASSUME IInv, HostInv, AnalysisInv PROVE IntelTypeOK
    OBVIOUS
  <2>1. DatabaseTypeOK
    BY DEF IInv
  <2>2. ASSUME NEW t \in Thread
        PROVE  /\ report[t].outcome \in {"none", "done", "AssertionError", "JSONDecodeError"}
               /\ report[t].stats.overall \in Risks
               /\ \A i \in DOMAIN report[t].matches : report[t].matches[i].risk \in Risks
    <3>1. report[t] \in Reports
      BY Zenon DEF HostInv
    <3> QED
      BY <3>1, ReportsAreTyped, Zenon
  <2>3. /\ \A path \in Range(analysis.paths) : path.score \in Marks
        /\ \A a \in Range(analysis.assessments) : a.score \in Marks
    <3>1. PICK findings \in Seq(AllFindings) : analysis = Analyse(Contents[1], findings)
      BY DEF AnalysisInv
    <3>2. Contents[1] \in Seq(AllEntries)
      BY VulnIntelAssumption, DefaultDatabaseAssumption
    <3> QED
      BY <3>1, <3>2, AnalyseFacts, Zenon DEF IsPath, IsMarked
  <2>4. found \subseteq DOMAIN Batches
    BY DEF HostInv
  <2> QED
    BY <2>1, <2>2, <2>3, <2>4, Zenon DEF IntelTypeOK
<1>2. Spec => []IInv
  BY LookupsUseDefaultDatabase, DatabaseInvariance, PTL
<1> QED
  BY <1>1, <1>2, HostInvariance, AnalysisInvariance, PTL

-----------------------------------------------------------------------------
(* What was found stays found.                                              *)

(* A scan's analysis is that of what was found.                              *)
ScanInv == found \notin LookedUp => analysis = Analyse(Contents[1], FindingsOf(found))

(* It is so after every scan.                                               *)
LEMMA ScanInvariant == Spec => []ScanInv
<1>1. Init => ScanInv
  <2> SUFFICES ASSUME Init, found \notin LookedUp PROVE analysis = Analyse(Contents[1], FindingsOf(found))
    BY DEF ScanInv
  <2>1. found = {} /\ analysis = Analyse(Contents[1], <<>>)
    BY DEF Init
  <2> QED
    BY <2>1, NoBatches
<1>2. ScanInv /\ [Next]_vars => ScanInv'
  <2> SUFFICES ASSUME ScanInv, [Next]_vars PROVE ScanInv'
    OBVIOUS
  <2>1. CASE UNCHANGED scanvars
    BY <2>1 DEF ScanInv, scanvars
  <2>2. ASSUME NEW batch, NextScan(batch) PROVE ScanInv'
    BY <2>2 DEF ScanInv, NextScan
  <2>3. UNCHANGED scanvars \/ \E batch : NextScan(batch)
    BY Zenon DEF Next, Lookups, vars, scanvars
  <2> QED
    BY <2>1, <2>2, <2>3
<1> QED
  BY <1>1, <1>2, PTL DEF Spec

(* What was found stays found: unless findings with one title differ in the   *)
(* binaries that they name, or findings with one id in stage, target, title or *)
(* category, a scan that finds more than the one before still reports every     *)
(* match and every attack path, with each of its findings or one of the same    *)
(* stage, target and title of which the knowledge base says the same, and        *)
(* assesses every match, path and title it assessed. (os_pipeline.py:470-525)   *)
THEOREM ScansOnlyAdd ==
  ASSUME Alike(Shown), Told(Shown)
  PROVE  Spec => FindingsOnlyAdd
<1> DEFINE Adds == /\ Range(analysis.matches) \subseteq Range(analysis'.matches)
                   /\ \A path \in Range(analysis.paths) : \E later \in Range(analysis'.paths) :
                        /\ later.rule = path.rule
                        /\ \A ef \in Range(path.findings) :
                             \E other \in Range(later.findings) : StandsFor(other, ef)
                   /\ Subjects(analysis) \subseteq Subjects(analysis')
<1>1. ScanInv /\ AnalysisInv /\ [Next]_vars => [MaxResults = 0 => Adds]_vars
  <2> SUFFICES ASSUME ScanInv, AnalysisInv, Next, MaxResults = 0 PROVE Adds \/ UNCHANGED vars
    OBVIOUS
  <2>1. CASE UNCHANGED scanvars
    <3>1. analysis' = analysis
      BY <2>1 DEF scanvars
    <3>2. PICK findings \in Seq(AllFindings) : analysis = Analyse(Contents[1], findings)
      BY DEF AnalysisInv
    <3>3. Contents[1] \in Seq(AllEntries)
      BY VulnIntelAssumption, DefaultDatabaseAssumption
    <3> DEFINE entries == Contents[1]
               same    == analysis
    <3>4. entries \in Seq(AllEntries) /\ same = Analyse(entries, findings)
      BY <3>2, <3>3
    <3> HIDE DEF entries, same
    <3>5. /\ Range(same.matches) \subseteq Range(same.matches)
          /\ \A path \in Range(same.paths) : \E later \in Range(same.paths) : Continues(later, path)
          /\ Subjects(same) \subseteq Subjects(same)
      BY <3>4, MoreIsReported, Zenon
    <3> QED
      BY <3>1, <3>5, Zenon DEF same, Continues
  <2>2. ASSUME NEW batch, NextScan(batch) PROVE Adds
    <3> DEFINE few  == FindingsOf(found)
               many == FindingsOf(found')
    <3>1. /\ analysis = Analyse(Contents[1], few)
          /\ analysis' = Analyse(Contents[1], many)
          /\ found \subseteq found'
      BY <2>2 DEF ScanInv, NextScan
    <3>2. few \in Seq(AllFindings) /\ many \in Seq(AllFindings) /\ Range(few) \subseteq Range(many)
      BY <3>1, FindingsOfFacts, Zenon
    <3>3. Contents[1] \in Seq(AllEntries)
      BY VulnIntelAssumption, DefaultDatabaseAssumption
    <3> DEFINE entries == Contents[1]
               before  == analysis
               after   == analysis'
    <3>4. /\ entries \in Seq(AllEntries)
          /\ before = Analyse(entries, few) /\ after = Analyse(entries, many)
      BY <3>1, <3>3, Zenon
    <3> HIDE DEF few, many, entries, before, after
    <3>5. /\ Range(before.matches) \subseteq Range(after.matches)
          /\ \A path \in Range(before.paths) : \E later \in Range(after.paths) : Continues(later, path)
          /\ Subjects(before) \subseteq Subjects(after)
      BY <3>2, <3>4, MoreIsReported, Zenon
    <3> QED
      BY <3>5, Zenon DEF before, after, Continues
  <2>3. UNCHANGED scanvars \/ \E batch : NextScan(batch)
    BY Zenon DEF Next, Lookups, vars, scanvars
  <2> QED
    BY <2>1, <2>2, <2>3, Zenon
<1> HIDE DEF Adds
<1>2. Spec => [][MaxResults = 0 => Adds]_vars
  BY <1>1, ScanInvariant, AnalysisInvariance, PTL DEF Spec
<1> QED
  BY <1>2 DEF FindingsOnlyAdd, Adds
=============================================================================

------------------------------ MODULE VulnIntel ------------------------------
(***************************************************************************)
(* The vulnerability intelligence in use. Either several threads look up the *)
(* software of a host in the default database they get, while others reload   *)
(* it; or the same host is scanned again and again, each time with more to     *)
(* find, and each scan is analysed as a whole.                                *)
(***************************************************************************)
EXTENDS Analysis, DefaultDatabase

CONSTANTS
  Batches,   \* findings that come and go together, in the order of the stages
  LookedUp,  \* the hosts, as sets of batches, whose lookups by threads are followed
  Contents   \* what the files hold, one version after the other

AllFindings == UNION {Range(Batches[i]) : i \in DOMAIN Batches}
AllEntries  == UNION {Range(Contents[k]) : k \in DOMAIN Contents}

ASSUME VulnIntelAssumption ==
  /\ Batches \in Seq(Seq(AllFindings))
  /\ LookedUp \subseteq SUBSET DOMAIN Batches
  /\ Contents \in Seq(Seq(AllEntries)) /\ Len(Contents) = MaxFiles
  /\ \A f \in AllFindings : f.confidence \in Nat \cup {NoConfidence}
  /\ \A vuln \in AllEntries : {vuln.cvss_v3, vuln.cvss_v4, vuln.epss, vuln.confidence} \subseteq Nat

VARIABLES
  found,    \* the batches that this host shows
  analysis, \* what the last scan made of them
  report    \* what each thread's lookup came to, until its next call

scanvars == <<found, analysis>>
vars     == <<files, default, lock, pc, loaded, got, lastReset, since, found, analysis, report>>

(* The findings of the stages' results, in the order of result_keys.          *)
FindingsOf(batches) ==
  FlattenSeq([i \in DOMAIN Batches |-> IF i \in batches THEN Batches[i] ELSE <<>>])

NoReport == [outcome |-> "none", database |-> 0, inventory |-> <<>>, matches |-> <<>>,
             stats |-> ComputeVulnStats(<<>>, 0)]

Init ==
  /\ DatabaseInit
  /\ found \in LookedUp \cup {{}}
  /\ analysis = Analyse(Contents[1], <<>>)
  /\ report = [t \in Thread |-> NoReport]

(* Another scan of the host, by a process of its own, which loads the files    *)
(* as they first were: it finds what the last one found and one batch more.    *)
NextScan(batch) ==
  /\ found \notin LookedUp
  /\ found' = found \cup {batch}
  /\ analysis' = Analyse(Contents[1], FindingsOf(found'))
  /\ UNCHANGED <<files, default, lock, pc, loaded, got, lastReset, since, report>>

(* VulnerabilityEngine() asserts that there is a database, and runs.        *)
Lookups(t) ==
  /\ Leave(t) /\ UNCHANGED scanvars
  /\ LET inventory == BuildSoftwareInventory(FindingsOf(found))
         matches   == Run(Contents[got[t]], inventory)
     IN report' = [report EXCEPT ![t] =
          IF got[t] = None THEN [NoReport EXCEPT !.outcome = "AssertionError"]
          ELSE IF got[t] = Raised THEN [NoReport EXCEPT !.outcome = "JSONDecodeError"]
          ELSE [outcome |-> "done", database |-> got[t], inventory |-> inventory,
                matches |-> matches,
                stats |-> ComputeVulnStats(matches, Len(inventory))]]

Next ==
  \/ \E t \in Thread : /\ found \in LookedUp /\ Step(t) /\ UNCHANGED scanvars
                       /\ report' = [report EXCEPT ![t] = NoReport]
  \/ \E t \in Thread : Lookups(t)
  \/ found \in LookedUp /\ ChangeFiles /\ UNCHANGED <<scanvars, report>>
  \/ \E batch \in DOMAIN Batches \ UNION LookedUp : NextScan(batch)

Spec == Init /\ [][Next]_vars

-----------------------------------------------------------------------------
Marks == 0 .. 1000  \* of a path or an assessment, in tenths

(* Type correctness, with scores that stay between 0 and 100 however many    *)
(* matches there are.                                                        *)
IntelTypeOK ==
  /\ DatabaseTypeOK
  /\ \A t \in Thread :
       /\ report[t].outcome \in {"none", "done", "AssertionError", "JSONDecodeError"}
       /\ report[t].stats.overall \in Risks
       /\ \A i \in DOMAIN report[t].matches : report[t].matches[i].risk \in Risks
  /\ found \subseteq DOMAIN Batches
  /\ \A path \in Range(analysis.paths) : path.score \in Marks
  /\ \A a \in Range(analysis.assessments) : a.score \in Marks

(* In a path a finding may stand for another: itself, or one of the same       *)
(* stage, target and title of which the knowledge base says the same.          *)
StandsFor(other, ef) ==
  /\ other.finding.stage = ef.finding.stage /\ other.finding.target = ef.finding.target
  /\ other.finding.title.text = ef.finding.title.text
  /\ [other EXCEPT !.finding = ef.finding] = ef

(* What was found stays found: a scan that finds more than the one before     *)
(* still reports every match, every attack path, and assesses every match,     *)
(* path and title that it assessed. No finding of a path is dropped for one    *)
(* with which it has less in common than stage, target, title and what the     *)
(* knowledge base adds; of findings that share these a path has one, whose     *)
(* evidence, severity and confidence may not be those of the one it had.        *)
(* (os_pipeline.py:470-525, each pass drops what it takes for a duplicate.)     *)
FindingsOnlyAdd ==
  [][ MaxResults = 0 =>
        /\ Range(analysis.matches) \subseteq Range(analysis'.matches)
        /\ \A path \in Range(analysis.paths) : \E later \in Range(analysis'.paths) :
             /\ later.rule = path.rule
             /\ \A ef \in Range(path.findings) :
                  \E other \in Range(later.findings) : StandsFor(other, ef)
        /\ Subjects(analysis) \subseteq Subjects(analysis') ]_vars

(* The measures that may lower a score, and what may raise one apart from the  *)
(* findings of a path.                                                         *)
Countermeasures(a) ==
  (a.context.mitigations \cap {"aslr", "nx", "selinux_enforcing", "apparmor_enforcing", "kernel_lockdown"})
    \cup (IF a.context.privileges.isRoot THEN {"root"} ELSE {})
Exposure(a) ==
  [internetFacing |-> a.context.internetFacing, privileges |-> a.context.privileges,
   matches |-> Len(a.matches), gtfo |-> {ef \in Range(a.enriched) : ef.gtfoBins # <<>>},
   writable |-> \E ef \in Range(a.enriched) : InTitle(ef.finding, "writable")]
Average(a, subject) == {p.average : p \in {q \in Range(a.paths) : subject = <<"path", q.rule>>}}

(* No score moves without a reason: it falls only when a countermeasure is     *)
(* newly recognised or a path's findings are less certain on average, and it    *)
(* rises only when the host is newly exposed or the path has more behind it.     *)
ScoresMoveForAReason ==
  [][ \A s \in Subjects(analysis) \cap Subjects(analysis') :
        \A before \in Scores(analysis, s), after \in Scores(analysis', s) :
          /\ after < before =>
               \/ \E c \in Countermeasures(analysis') : c \notin Countermeasures(analysis)
               \/ \E p \in Average(analysis, s), q \in Average(analysis', s) :
                    q[1] * p[2] < p[1] * q[2]
          /\ after > before =>
               \/ Exposure(analysis') # Exposure(analysis)
               \/ \E p \in Range(analysis.paths), q \in Range(analysis'.paths) :
                    /\ <<"path", p.rule>> = s /\ q.rule = p.rule
                    /\ Len(q.findings) > Len(p.findings) ]_vars

(* Whatever its form, one affected pattern covers an interval of versions:   *)
(* of the versions of a product on a host, one between two that a report     *)
(* calls vulnerable is called vulnerable too.                                 *)
Reported(matches, vuln) ==
  {m.component.version : m \in {x \in Range(matches) : x.vuln = vuln}}
Installed(inventory, name) ==
  {comp.version : comp \in {x \in Range(inventory) : x.name = name /\ x.version # NoVersion}}
Seamless(vuln) ==
  /\ vuln.fixed = {}
  /\ \E p \in vuln.affected : /\ vuln.affected = {p}
                             /\ \A c \in ParsePattern(p) : c.operator # "!="

RangesAreIntervals ==
  \A t \in Thread : report[t].outcome = "done" /\ MaxResults = 0 =>
    \A vuln \in {x \in Range(Contents[report[t].database]) : Seamless(x)} :
      LET reported == Reported(report[t].matches, vuln)
      IN \A v \in Installed(report[t].inventory, vuln.product) \ reported :
           \/ \A u \in reported : Compare(u, v) > 0
           \/ \A w \in reported : Compare(v, w) > 0

(* "6.1.*" stands for >=6.1.0,<6.2.0: a version that a wildcard pattern       *)
(* matches begins with the pattern's numbers, as far as it has any.           *)
WildcardKeepsPrefix ==
  \A t \in Thread : \A i \in DOMAIN report[t].matches :
    LET m       == report[t].matches[i]
        version == m.component.version.upstream
    IN \A p \in m.vuln.affected :
         m.vuln.affected = {p} /\ p.form = "wildcard" =>
           \A j \in 1 .. Len(p.numbers) :
             2 * j - 1 <= Len(version) => version[2 * j - 1] = <<"int", p.numbers[j]>>
=============================================================================

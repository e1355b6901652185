----------------------------- MODULE VulnEngine -----------------------------
(***************************************************************************)
(* What the vulnerability engine of vina/core/vuln_intel.py reports of the  *)
(* software of a host: the inventory made from findings, the lookup of each *)
(* component, the match of its version, the score and the statistics.       *)
(* Names are taken in lower case, as the code compares them.                *)
(***************************************************************************)
EXTENDS Versions, Findings

CONSTANT MaxResults  \* VulnEngineConfig.max_results, 0 for no limit

ASSUME VulnEngineAssumption == MaxResults \in Nat

-----------------------------------------------------------------------------
(* From findings to software components.                                    *)

(* What the evidence of a finding says of a component, then what its title   *)
(* adds: a name only if the evidence has none, a version likewise.           *)
ComponentName(f)    == IF f.evidence.name # NoName THEN f.evidence.name ELSE f.title.name
ComponentVersion(f) ==
  IF f.evidence.version # NoVersion THEN f.evidence.version ELSE f.title.version
ComponentFromFinding(f) ==
  [name |-> ComponentName(f), version |-> ComponentVersion(f), vendor |-> NoName]

BuildSoftwareInventory(findings) ==
  LET Named(f) == ComponentName(f) # NoName
      NameAndVersion(comp) == <<comp.name, comp.version>>
      named == Selected(findings, Named)
  IN FirstOfEach([i \in DOMAIN named |-> ComponentFromFinding(named[i])], NameAndVersion)

-----------------------------------------------------------------------------
(* The lookup of one component, and the engine's run over all of them.      *)

Cve(vuln) == vuln.cve

Lookup(entries, comp) ==
  LET ByVendor(vuln) == /\ comp.vendor # NoName /\ vuln.vendor = comp.vendor
                        /\ vuln.product = comp.name
      ByProduct(vuln) == vuln.product = comp.name
  IN FirstOfEach(Selected(entries, ByVendor) \o Selected(entries, ByProduct), Cve)

MatchVersion(v, vuln) ==
  /\ vuln.affected # {} => \E p \in vuln.affected : VersionMatches(v, p)
  /\ ~\E p \in vuln.fixed : VersionMatches(v, p)

(* The score in hundredths. An entry has a CVSS 3 base score and one of CVSS 4,  *)
(* which counts where the other is 0, both in tenths; epss and confidence are in  *)
(* hundredths.                                                                   *)
Risks == 0 .. 10000
ComputeRisk(vuln) ==
  LET cvss  == IF vuln.cvss_v3 # 0 THEN vuln.cvss_v3 ELSE vuln.cvss_v4
      score == 60 * cvss + 15 * vuln.epss + (IF vuln.kev THEN 1000 ELSE 0)
               + (IF vuln.exploit THEN 1000 ELSE 0) + 5 * vuln.confidence
  IN IF score > 10000 THEN 10000 ELSE score

MatchesOf(entries, comp) ==
  IF comp.version = NoVersion THEN <<>>
  ELSE LET Affected(vuln) == MatchVersion(comp.version, vuln)
           found == Selected(Lookup(entries, comp), Affected)
       IN [i \in DOMAIN found |->
             [vuln |-> found[i], component |-> comp, risk |-> ComputeRisk(found[i])]]

Run(entries, inventory) ==
  LET Risk(m) == m.risk
      all == Descending(FlattenSeq([i \in DOMAIN inventory |-> MatchesOf(entries, inventory[i])]),
                        Risk)
  IN IF MaxResults > 0 /\ Len(all) > MaxResults THEN SubSeq(all, 1, MaxResults) ELSE all

(* A match as a finding of a stage of its own. Its title is that of the CVE,   *)
(* its evidence names CVE, component and versions.                            *)
ToFinding(match) ==
  [stage |-> "vuln_intel/local", category |-> "vulnerability", severity |-> match.vuln.severity,
   target |-> match.component.name, confidence |-> match.vuln.confidence, binaries |-> <<>>,
   title |-> [text |-> match.vuln.cve, phrases |-> {"cve-", match.vuln.cve} \cup match.vuln.phrases,
              name |-> NoName, version |-> NoVersion],
   evidence |-> [phrases |-> match.vuln.evidence, name |-> match.component.name,
                 version |-> match.component.version]]

(* compute_vuln_stats: counts, and the mean risk raised by two for each match. *)
\* mutant: the score is not capped
UncappedStats(matches, components) ==
  LET Risk(m)     == m.risk
      Kev(m)      == m.vuln.kev
      Exploit(m)  == m.vuln.exploit
      Critical(m) == m.vuln.severity = "critical"
      total    == Total(matches, Risk)
      penalty  == IF 2 * Len(matches) < 30 THEN 200 * Len(matches) ELSE 3000
      overall  == total \div Len(matches) + penalty
  IN [total |-> Len(matches), components |-> components,
      critical |-> HowMany(matches, Critical), kev |-> HowMany(matches, Kev),
      exploits |-> HowMany(matches, Exploit),
      overall |-> IF matches = <<>> THEN 0 ELSE overall]

ComputeVulnStats(matches, components) ==
  LET Risk(m)     == m.risk
      Kev(m)      == m.vuln.kev
      Exploit(m)  == m.vuln.exploit
      Critical(m) == m.vuln.severity = "critical"
      total    == Total(matches, Risk)
      penalty  == IF 2 * Len(matches) < 30 THEN 200 * Len(matches) ELSE 3000
      overall  == total \div Len(matches) + penalty
  IN [total |-> Len(matches), components |-> components,
      critical |-> HowMany(matches, Critical), kev |-> HowMany(matches, Kev),
      exploits |-> HowMany(matches, Exploit),
      overall |-> IF matches = <<>> THEN 0 ELSE IF overall > 10000 THEN 10000 ELSE overall]
=============================================================================

------------------------------ MODULE Analysis ------------------------------
(***************************************************************************)
(* What a host scan makes of its findings, from the lookup to the report:    *)
(* the end of OSPipeline.run in vina/scanners/os/os_pipeline.py, as far as    *)
(* the engines go. The hooks between the passes are in OSPipeline.            *)
(***************************************************************************)
EXTENDS VulnEngine, Exploitability

(* What a scan comes to, from what each pass returned.                        *)
Outcome(inventory, matches, all, enriched, paths, assessments) ==
  [context |-> Context(all), matches |-> matches,
   vulnStats |-> ComputeVulnStats(matches, Len(inventory)),
   statistics |-> Statistics(AddFindings(all)),
   enriched |-> enriched, paths |-> paths, pathStats |-> ComputeCorrelationStats(paths),
   assessments |-> assessments, summary |-> ComputeExploitabilitySummary(assessments)]

(* The passes, each given what those before it returned. Findings made of     *)
(* matches come last; enrichment, correlation and assessment see every        *)
(* finding, only the statistics drop duplicates.                              *)
AfterCorrelation(inventory, matches, all, enriched, paths) ==
  Outcome(inventory, matches, all, enriched, paths, Assess(all, enriched, paths, matches))
AfterEnrichment(inventory, matches, all, enriched) ==
  AfterCorrelation(inventory, matches, all, enriched, Correlate(enriched))
AfterAggregation(inventory, matches, all) ==
  AfterEnrichment(inventory, matches, all, EnrichAll(all))
AfterLookup(findings, inventory, matches) ==
  AfterAggregation(inventory, matches,
                   findings \o [i \in DOMAIN matches |-> ToFinding(matches[i])])
AfterInventory(entries, findings, inventory) ==
  AfterLookup(findings, inventory, Run(entries, inventory))
Analyse(entries, findings) ==
  AfterInventory(entries, findings, BuildSoftwareInventory(findings))

Subjects(analysis) == {a.subject : a \in Range(analysis.assessments)}
Scores(analysis, subject) ==
  {a.score : a \in {b \in Range(analysis.assessments) : b.subject = subject}}
=============================================================================

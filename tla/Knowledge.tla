------------------------------ MODULE Knowledge ------------------------------
(***************************************************************************)
(* The enrichment of findings in vina/core/knowledge.py. Explanations,       *)
(* remedies and references are left out: no later step looks at them.        *)
(***************************************************************************)
EXTENDS Findings, KnowledgeRules

RuleMatches(rule, f) ==
  /\ rule.stages # Anywhere => f.stage \in rule.stages
  /\ rule.categories # AnyCategory => f.category \in rule.categories
  /\ rule.patterns \cap f.title.phrases # {}

(* The first, and only, rule for suspicious binaries: it fills what the rules *)
(* of a finding with GTFOBins binaries in its texts have left open.           *)
BIN_001 == CHOOSE rule \in SUSPICIOUS_BINARY_RULES : TRUE

(* A finding that no rule matches stays as it is, its binaries unnoticed.     *)
EnrichFinding(f) ==
  LET matched == {rule \in ALL_RULES : RuleMatches(rule, f)}
      bins    == IF matched = {} THEN <<>> ELSE f.binaries
      sources == IF bins = <<>> THEN matched ELSE matched \cup {BIN_001}
      scores  == {0} \cup {rule.confidence : rule \in sources}
  IN [finding |-> f, gtfoBins |-> bins,
      attack |-> \E rule \in sources : rule.attack,
      tags |-> UNION {rule.tags : rule \in matched},
      score |-> CHOOSE c \in scores : \A other \in scores : c >= other]

EnrichAll(findings) == [i \in DOMAIN findings |-> EnrichFinding(findings[i])]
=============================================================================

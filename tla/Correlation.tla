----------------------------- MODULE Correlation -----------------------------
(***************************************************************************)
(* Attack paths from enriched findings, as vina/core/correlation.py builds   *)
(* them. Scores are in tenths, as the code rounds them, and confidences in   *)
(* hundredths; an average is kept as a fraction. The floats of the code may   *)
(* fall to the other side of a tie, by one in the last digit of an average.   *)
(***************************************************************************)
EXTENDS Knowledge, CorrelationRules

SeverityWeights == [info |-> 5, low |-> 20, medium |-> 45, high |-> 70, critical |-> 90]

(* To the nearest whole number, and from halfway to the even one, as round().  *)
Rounded(numerator, denominator) ==
  LET whole == numerator \div denominator
      twice == 2 * (numerator % denominator)
  IN IF twice > denominator \/ (twice = denominator /\ whole % 2 = 1) THEN whole + 1 ELSE whole
Clamp(score) == IF score < 0 THEN 0 ELSE IF score > 1000 THEN 1000 ELSE score

-----------------------------------------------------------------------------
FindingMatches(matcher, ef) ==
  /\ matcher.phrase \in ef.finding.title.phrases
  /\ matcher.stage # "" => ef.finding.stage = matcher.stage
  /\ matcher.category # "" => ef.finding.category = matcher.category

MatchedBy(matcher, enriched) ==
  LET Matched(ef) == FindingMatches(matcher, ef) IN Selected(enriched, Matched)

(* The findings of a path: those of every matcher, one of each id.           *)
CollectMatchedFindings(rule, enriched) ==
  LET matchers == rule.required \o rule.optional
      IdOf(ef) == Id(ef.finding)
  IN FirstOfEach(FlattenSeq([i \in DOMAIN matchers |-> MatchedBy(matchers[i], enriched)]), IdOf)

(* Of the rules' confidence, else the finding's own, where there is one.      *)
AverageConfidence(matched) ==
  LET Own(ef)   == IF ef.score # 0 THEN ef.score ELSE ef.finding.confidence
      Known(ef) == Own(ef) # NoConfidence
      known     == Selected(matched, Known)
  IN IF known = <<>> THEN <<50, 1>> ELSE <<Total(known, Own), Len(known)>>

(* What in the findings, or in the rule itself, raises the score of a path.   *)
Indicators(rule, matched) ==
  LET Tagged(tags) == \E ef \in Range(matched) : ef.tags \cap tags # {}
  IN [gtfo |-> \E ef \in Range(matched) : ef.gtfoBins # <<>>,
      exploit |-> rule.exploit > 0 \/ \E ef \in Range(matched) : ef.attack,
      credential |-> rule.credential > 0 \/ Tagged({"credential", "secret", "password"}),
      persistence |-> rule.persistence > 0 \/ Tagged({"persistence", "cron", "systemd"})]

ComputeRiskScore(rule, average, matchedCount, has) ==
  LET Points(flag, points) == IF flag THEN points ELSE 0
      whole == SeverityWeights[rule.severity]
               + (IF 3 * matchedCount < 10 THEN 3 * matchedCount ELSE 10)
               + Points(has.gtfo, 10) + Points(has.exploit, 8)
               + Points(has.credential, 8) + Points(has.persistence, 6)
               + rule.gtfo + rule.exploit + rule.credential + rule.persistence
  IN Clamp(Rounded(20 * average[2] * whole + 3 * average[1], 2 * average[2]))

(* The id of a path names the rule and one of its findings' targets; which    *)
(* one is left to the order of a set.                                         *)
BuildPath(rule, enriched) ==
  LET matched == CollectMatchedFindings(rule, enriched)
      average == AverageConfidence(matched)
      targets == {ef.finding.target : ef \in Range(matched)} \ {""}
  IN [id |-> <<rule.id, targets>>, rule |-> rule.id, type |-> rule.type,
      severity |-> rule.severity, products |-> rule.products, average |-> average,
      findings |-> matched,
      score |-> ComputeRiskScore(rule, average, Len(matched), Indicators(rule, matched))]

Correlate(enriched) ==
  LET AllRequiredMatched(rule) ==
        \A i \in DOMAIN rule.required : MatchedBy(rule.required[i], enriched) # <<>>
      fired == Selected(CORRELATION_RULES, AllRequiredMatched)
      PathId(path) == path.id
  IN FirstOfEach([k \in DOMAIN fired |-> BuildPath(fired[k], enriched)], PathId)

-----------------------------------------------------------------------------
ComputeCorrelationStats(paths) ==
  LET Count(severity) == Cardinality({k \in DOMAIN paths : paths[k].severity = severity})
      scores == {0} \cup {path.score : path \in Range(paths)}
      present == {SeverityKey(path.severity) : path \in Range(paths)}
      Confidence(path) == Rounded(path.average[1], path.average[2])
      Weight(path) == SeverityWeights[path.severity]
  IN [totalPaths |-> Len(paths), bySeverity |-> [s \in Range(Severities) |-> Count(s)],
      highestSeverity |-> IF paths = <<>> THEN ""
                          ELSE Severities[CHOOSE k \in present : \A l \in present : k >= l],
      highestScore |-> CHOOSE s \in scores : \A other \in scores : s >= other,
      averageConfidence |-> IF paths = <<>> THEN 0 ELSE Rounded(Total(paths, Confidence), Len(paths)),
      overallRisk |-> IF paths = <<>> THEN 0 ELSE Rounded(10 * Total(paths, Weight), Len(paths))]
=============================================================================

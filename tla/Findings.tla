------------------------------ MODULE Findings ------------------------------
(***************************************************************************)
(* The findings of vina/models/findings.py and their aggregation in         *)
(* vina/core/aggregator.py. Of a text a finding keeps what later engines    *)
(* look for in it: the phrases it contains, in lower case, and the name and  *)
(* version of a component it may give away.                                  *)
(***************************************************************************)
EXTENDS Integers, FiniteSets, SequencesExt

Severities == <<"info", "low", "medium", "high", "critical">>  \* in rising order
SeverityKey(severity) == IF Contains(Severities, severity)
                         THEN CHOOSE k \in DOMAIN Severities : Severities[k] = severity ELSE 0

NoName       == ""
NoVersion    == [epoch |-> -1, upstream |-> <<>>, debian |-> <<>>]  \* an empty string
NoConfidence == -1                                                  \* None

\* mutant: the id does not say which title
UntitledId(f) == IF f.stage = "" \/ f.target = "" THEN <<>> ELSE <<f.stage, f.target>>

(* What make_finding derives: no id unless stage, target and title are given. *)
Id(f) == IF f.stage = "" \/ f.target = "" \/ f.title.text = "" THEN <<>>
         ELSE <<f.stage, f.target, f.title.text>>

-----------------------------------------------------------------------------
(* The elements of s at the places of keep, in their order.                  *)
Kept(s, keep) ==
  LET place == [i \in keep |-> Cardinality({j \in keep : j <= i})]
  IN [k \in 1 .. Cardinality(keep) |-> s[CHOOSE i \in keep : place[i] = k]]
Selected(s, Test(_)) == Kept(s, {i \in DOMAIN s : Test(s[i])})

(* s without the elements whose key an earlier element has.                  *)
FirstsBy(s, key)       == Kept(s, {i \in DOMAIN s : \A j \in 1 .. i - 1 : key[j] # key[i]})
FirstOfEach(s, Key(_)) == FirstsBy(s, [i \in DOMAIN s |-> Key(s[i])])

(* s sorted by falling key; elements with the same key keep their order.      *)
SortedBy(s, key) ==
  LET Before(i, j) == key[i] > key[j] \/ (key[i] = key[j] /\ i < j)
      place == [i \in DOMAIN s |-> 1 + Cardinality({j \in DOMAIN s : Before(j, i)})]
  IN [k \in DOMAIN s |-> s[CHOOSE i \in DOMAIN s : place[i] = k]]
Descending(s, Key(_)) == SortedBy(s, [i \in DOMAIN s |-> Key(s[i])])

SumOf(numbers) ==
  LET sum[n \in 0 .. Len(numbers)] == IF n = 0 THEN 0 ELSE sum[n - 1] + numbers[n]
  IN sum[Len(numbers)]
Total(s, Value(_))  == SumOf([i \in DOMAIN s |-> Value(s[i])])

HowMany(s, Test(_)) == Cardinality({i \in DOMAIN s : Test(s[i])})

-----------------------------------------------------------------------------
AggregationKey(f) == <<f.title.text, f.target, f.stage>>
AddFindings(findings) == FirstOfEach(findings, AggregationKey)

(* The counts of a host scan, whose findings name no hosts or URLs.           *)
Statistics(findings) ==
  LET Of(severity) == {i \in DOMAIN findings : findings[i].severity = severity}
  IN [total |-> Len(findings),
      bySeverity |-> [s \in Range(Severities) |-> Cardinality(Of(s))],
      byCategory |-> [c \in {f.category : f \in Range(findings)} |->
                        Cardinality({i \in DOMAIN findings : findings[i].category = c})],
      stages |-> Cardinality({f.stage : f \in Range(findings)} \ {""})]
=============================================================================

--------------------------- MODULE Exploitability ---------------------------
(***************************************************************************)
(* The assessments of vina/core/exploitability.py: how easily the           *)
(* vulnerabilities, attack paths and findings of a host can be exploited.    *)
(* Scores are in tenths. Left out are the texts of an assessment, its own     *)
(* confidence, and what is looked up from its score or type alone (vector,   *)
(* access, time, reasons): nothing else of the scan depends on them.         *)
(***************************************************************************)
EXTENDS Correlation

-----------------------------------------------------------------------------
(* The host, as far as its findings tell.                                    *)

InTitle(f, phrase)    == phrase \in f.title.phrases
InEvidence(f, phrase) == phrase \in f.evidence.phrases

(* The measures some finding stands for.                                     *)
CheckMitigations(findings) ==
  LET Shows(f, name) ==
        CASE name = "aslr" -> InTitle(f, "aslr is enabled") \/ InEvidence(f, "randomize_va_space=2")
          [] name = "nx" -> InEvidence(f, "nx") \/ InEvidence(f, "noexec")
          [] name = "selinux_enforcing" -> InEvidence(f, "selinux") /\ InEvidence(f, "enforcing")
          [] name = "apparmor_enforcing" -> \/ InEvidence(f, "apparmor") /\ InEvidence(f, "enforcing")
                                            \/ InEvidence(f, "apparmor enabled")
          [] name = "kernel_lockdown" -> InEvidence(f, "lockdown") \/ InTitle(f, "kernel lockdown")
          [] name = "ptrace_restricted" -> /\ InEvidence(f, "ptrace")
                                           /\ InEvidence(f, "restricted") \/ InEvidence(f, "1")
          [] name = "containerized" -> InTitle(f, "container") \/ f.stage = "docker"
          [] name = "non_root_user" -> InTitle(f, "non-root") \/ InEvidence(f, "non-root user")
  IN {name \in {"aslr", "nx", "selinux_enforcing", "apparmor_enforcing", "kernel_lockdown",
                "ptrace_restricted", "containerized", "non_root_user"} :
        \E f \in Range(findings) : Shows(f, name)}

InternetFacing(findings) ==
  \E f \in Range(findings) :
    \/ \E phrase \in {"port 22", "port 80", "port 443", "http", "port: <number>",
                      "internet", "external"} : InEvidence(f, phrase)
    \/ InTitle(f, "ssh") /\ InTitle(f, "port")

Privileges(findings) ==
  LET Titled1(phrase) == \E f \in Range(findings) : InTitle(f, phrase)
      passwordless == Titled1("passwordless sudo") \/ Titled1("nopasswd")
  IN [isRoot |-> Titled1("running as root") \/ Titled1("current user: root"),
      passwordlessSudo |-> passwordless,
      sudo |-> \/ passwordless
               \/ \E f \in Range(findings) : InTitle(f, "sudo") /\ InTitle(f, "configured")]

(* Exposed ports are only noted of findings that also make the host internet *)
(* facing, so a host is never merely adjacent.                               *)
Context(findings) ==
  [mitigations |-> CheckMitigations(findings), internetFacing |-> InternetFacing(findings),
   privileges |-> Privileges(findings)]

Has(context, name)       == name \in context.mitigations
AccessControlled(context) == Has(context, "selinux_enforcing") \/ Has(context, "apparmor_enforcing")

-----------------------------------------------------------------------------
(* Vulnerabilities.                                                          *)

RequiredPrivileges(vuln) ==
  IF vuln.cvss_v3 >= 90 \/ vuln.cvss_v3 < 40 THEN "none"
  ELSE IF vuln.cvss_v3 >= 70 THEN "low" ELSE "high"
PrivilegeWeights == [none |-> 30, low |-> 20, high |-> 10]

MaturityPoints(vuln) ==
  IF vuln.sources \/ vuln.kev THEN 25 ELSE IF vuln.exploit THEN 20 ELSE IF vuln.epss >= 50 THEN 15 ELSE 5
PublicExploitPoints(vuln) ==
  IF vuln.kev THEN 20 ELSE IF vuln.exploit THEN 15 ELSE IF vuln.epss >= 50 THEN 10 ELSE 0

\* mutant: the sign of what ASLR is worth is lost
RewardedMitigation(vuln, context) ==
  (IF Has(context, "aslr") THEN 5 ELSE 0)
  - (IF Has(context, "kernel_lockdown") /\ vuln.product = "linux-kernel" THEN 15 ELSE 0)
  - (IF AccessControlled(context) THEN 10 ELSE 0)

MitigationPoints(vuln, context) ==
  - (IF Has(context, "aslr") THEN 5 ELSE 0)
  - (IF Has(context, "kernel_lockdown") /\ vuln.product = "linux-kernel" THEN 15 ELSE 0)
  - (IF AccessControlled(context) THEN 10 ELSE 0)

(* Component and version are always given; the network only counts when it is *)
(* there, and a privilege is within reach of root and of who may use sudo.     *)
Prerequisites(vuln, context) ==
  LET needsPrivilege == RequiredPrivileges(vuln) # "none"
      network  == IF context.internetFacing THEN 1 ELSE 0
      hasRoot  == context.privileges.isRoot \/ context.privileges.sudo
  IN [total |-> 2 + network + (IF needsPrivilege THEN 1 ELSE 0),
      satisfied |-> 2 + network + (IF needsPrivilege /\ hasRoot THEN 1 ELSE 0)]

ScoreVulnerability(vuln, context) ==
  LET raw == (IF context.internetFacing THEN 70 + 15 ELSE 25)
             + (30 - PrivilegeWeights[RequiredPrivileges(vuln)]) + MaturityPoints(vuln)
             + PublicExploitPoints(vuln) + MitigationPoints(vuln, context)
      needs == Prerequisites(vuln, context)
  IN Clamp(Rounded((raw * needs.total + 10 * needs.satisfied) * vuln.confidence, 10 * needs.total))

AssessVulnerability(match, context) ==
  [subject |-> <<"vulnerability", match.vuln.cve, match.component.name, match.component.version>>,
   score |-> ScoreVulnerability(match.vuln, context)]

-----------------------------------------------------------------------------
(* Attack paths.                                                             *)

(* Any of five measures is reported as blocking the path.                    *)
Blocked(context) ==
  AccessControlled(context) \/ Has(context, "aslr") \/ Has(context, "nx")

(* The share of a path's score that is left, in hundred thousandths.         *)
Remaining(context) ==
  LET Times(share, flag, percent) == IF flag THEN (share * percent) \div 100 ELSE share
      afterLockdown == Times(100000, Has(context, "kernel_lockdown"), 30)
      afterControl  == Times(afterLockdown, AccessControlled(context), 70)
      afterAslr     == Times(afterControl, Has(context, "aslr"), 85)
  IN Times(afterAslr, Blocked(context), 50)

(* Every vulnerability of the host with an exploit raises every path, and one  *)
(* of a product in the path's title raises that path.                          *)
VulnerabilityBoost(path, matches) ==
  LET Boost(m) == (IF m.vuln.kev \/ m.vuln.exploit THEN 100 ELSE 0)
                  + (IF m.vuln.product \in path.products THEN 50 ELSE 0)
  IN Total(matches, Boost)

AssessAttackPath(path, matches, context) ==
  [subject |-> <<"path", path.rule>>,
   score |-> Clamp(Rounded(path.score * Remaining(context), 100000)
                   + VulnerabilityBoost(path, matches))]

-----------------------------------------------------------------------------
(* Single findings. A score in points is turned into tenths at the end.      *)

Scored(f, points) ==
  [subject |-> <<"finding", f.title.text>>,
   score |-> 10 * (IF points > 100 THEN 100 ELSE IF points < 0 THEN 0 ELSE points)]
If(flag, points) == IF flag THEN points ELSE 0

SameTitle(f, enriched) ==
  LET Same(ef) == ef.finding.title.text = f.title.text /\ ef.gtfoBins # <<>>
  IN Selected(enriched, Same)

AssessSuid(f, findings, enriched, context) ==
  LET hasGtfo      == SameTitle(f, enriched) # <<>>
      writablePath == \E other \in Range(findings) : InTitle(other, "writable")
  IN Scored(f, If(hasGtfo, 20) + 40 + If(writablePath, 20)
               - If(Has(context, "aslr"), 10) - If(context.privileges.isRoot, 20))

AssessGtfo(f, enriched, context) ==
  LET points == 65 + If(context.privileges.passwordlessSudo, 20) - If(Has(context, "aslr"), 5)
      same   == SameTitle(f, enriched)
  IN IF same = <<>> THEN {}
     ELSE {[subject |-> <<"gtfobins", same[1].gtfoBins[1]>>, score |-> 10 * points]}

AssessWritablePath(f, enriched, context) ==
  Scored(f, 50 + If(\E ef \in Range(enriched) : ef.gtfoBins # <<>>, 20)
            + If(context.privileges.sudo, 10))

AssessPasswordlessSudo(f, context) == Scored(f, 80 - If(AccessControlled(context), 15))
AssessDockerSocket(f, context)     == Scored(f, 90 - If(Has(context, "selinux_enforcing"), 10))

(* A finding made of a match is assessed once more, as the match it names.    *)
AssessCveFinding(f, matches, context) ==
  LET Named(m) == InTitle(f, m.vuln.cve)
      named    == Selected(matches, Named)
  IN IF named = <<>> THEN {} ELSE {AssessVulnerability(named[1], context)}

(* What the first phrase that fits asks for: one assessment or none.          *)
AssessFinding(f, findings, enriched, matches, context) ==
  IF InTitle(f, "suid") THEN {AssessSuid(f, findings, enriched, context)}
  ELSE IF InTitle(f, "gtfo") THEN AssessGtfo(f, enriched, context)
  ELSE IF InTitle(f, "writable") /\ (InTitle(f, "path") \/ InTitle(f, "system"))
    THEN {AssessWritablePath(f, enriched, context)}
  ELSE IF InTitle(f, "passwordless") THEN {AssessPasswordlessSudo(f, context)}
  ELSE IF InTitle(f, "docker socket") THEN {AssessDockerSocket(f, context)}
  ELSE IF InTitle(f, "cve-") THEN AssessCveFinding(f, matches, context)
  ELSE {}

-----------------------------------------------------------------------------
(* ExploitabilityEngine.run: every match, one path of each title, one finding *)
(* of each title, the easiest to exploit first. No two rules share a title.   *)
Assess(findings, enriched, paths, matches) ==
  LET context    == Context(findings)
      RuleOf(p)  == p.rule
      TitleOf(f) == f.title.text
      Notable(f) == {"suid", "gtfo", "writable", "passwordless", "docker socket", "cve-"}
                      \cap f.title.phrases # {}
      apart  == FirstOfEach(paths, RuleOf)
      titles == FirstOfEach(Selected(findings, Notable), TitleOf)
      Score(a) == a.score
  IN Descending(
       [i \in DOMAIN matches |-> AssessVulnerability(matches[i], context)]
       \o [i \in DOMAIN apart |-> AssessAttackPath(apart[i], matches, context)]
       \o FlattenSeq([i \in DOMAIN titles |->
            SetToSeq(AssessFinding(titles[i], findings, enriched, matches, context))]),
       Score)

ComputeExploitabilitySummary(assessments) ==
  LET Between(low, high) == Cardinality({k \in DOMAIN assessments :
                              low <= assessments[k].score /\ assessments[k].score < high})
      Score(a) == a.score
  IN [total |-> Len(assessments), critical |-> Between(750, 1001), high |-> Between(550, 750),
      medium |-> Between(350, 550), low |-> Between(0, 350),
      average |-> IF assessments = <<>> THEN 0
                  ELSE Rounded(Total(assessments, Score), Len(assessments)),
      highest |-> IF assessments = <<>> THEN 0 ELSE assessments[1].score]
=============================================================================

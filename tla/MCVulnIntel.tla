---------------------------- MODULE MCVulnIntel ----------------------------
(* Instances of VulnIntel for TLC: one host with every kind of version of    *)
(* one package, one with a kernel, one with nothing to look up; and a host   *)
(* that is scanned again and again, with eleven batches of findings to find.     *)
EXTENDS VulnIntel

Letter  == <<"str", 5>>
Hyphen  == <<"str", -3>>
Plain(ns)     == Dotted(ns)
Suffixed(ns)  == [Dotted(ns) EXCEPT !.upstream = Append(@, Letter)]
Revised(ns, r) == [Dotted(ns) EXCEPT !.debian = r]

VersionList == <<
  Plain(<<1, 1, 1>>), Suffixed(<<1, 1, 1>>), Plain(<<3>>), Plain(<<3, 0>>), Plain(<<3, 0, 2>>),
  Revised(<<3, 0, 2>>, <<<<"int", 0>>, Letter, <<"int", 1>>>>), Revised(<<3, 0, 2>>, <<Letter>>),
  Plain(<<3, 0, 10>>), Plain(<<3, 0, 0, 1>>), Plain(<<3, 1>>), Plain(<<3, 5, 0>>),
  [Dotted(<<0, 9>>) EXCEPT !.epoch = 1] >>

(* A finding of a stage: its title, the phrases of the engines in the title     *)
(* and in the evidence.                                                         *)
Says(stage, category, severity, title, phrases, evidence) ==
  [stage |-> stage, category |-> category, severity |-> severity, target |-> "localhost",
   confidence |-> NoConfidence, binaries |-> <<>>,
   title |-> [text |-> title, phrases |-> phrases, name |-> NoName, version |-> NoVersion],
   evidence |-> [phrases |-> evidence, name |-> NoName, version |-> NoVersion]]

Written(v) == ToString(<<v.epoch, v.upstream, v.debian>>)

Package(name, v, evidence) ==
  [Says("packages", "package", "info", "installed: " \o name \o Written(v), {"installed:"}, evidence)
     EXCEPT !.title.name = name, !.title.version = v]
Kernel(v) ==
  [Says("kernel", "system", "info", "kernel: " \o Written(v), {"kernel"}, {"1"})
     EXCEPT !.evidence.name = "linux-kernel", !.evidence.version = v,
            !.title.name = "linux-kernel"]

OpensslPackages == [i \in DOMAIN VersionList |-> Package("openssl", VersionList[i], {"1"})]
KernelPackages  == << Kernel(Plain(<<6, 7, 1>>)), Package("sudo", NoVersion, {}),
                      Kernel(Plain(<<6, 7, 1>>)), Package("openssl", Plain(<<3, 0, 2>>), {}) >>

Aslr == <<Says("kernel", "security_control", "info", "aslr is enabled",
       {"aslr is enabled"},
       {"randomize_va_space=2"})>>
Selinux == <<Says("kernel_hardening", "security_control", "info", "selinux is enforcing",
       {},
       {"selinux", "enforcing"})>>
WritablePath == <<Says("environment", "misconfiguration", "high", "writable path entries (1)",
       {"path", "writable", "writable path", "writable path entries"},
       {})>>
NginxPackage == <<Package("nginx", Plain(<<1, 18, 0>>), {"nx", "1"})>>
Cron == <<Says("cron", "scheduled_task", "medium", "root cron job: /usr/local/bin/backup.sh",
       {"root cron job:"},
       {}),
  Says("cron", "misconfiguration", "high", "writable files in /etc/cron.d",
       {"writable", "writable files in /etc/cron."},
       {})>>
Docker == <<Says("docker", "misconfiguration", "critical", "docker socket is world-writable",
       {"docker", "docker socket", "docker socket is world-writable", "writable"},
       {"1"}),
  Says("docker", "misconfiguration", "high", "users in docker group: dev",
       {"docker", "users in docker group"},
       {})>>
SshKey == <<Says("secrets", "secret", "high", "ssh key found: /root/.ssh/id_rsa",
       {"ssh", "ssh key found"},
       {})>>
Suid == <<[Says("privilege_escalation", "suid_binary", "high", "suid binary: /usr/bin/find",
       {"binary", "suid", "suid binary"},
       {})
   EXCEPT !.binaries = <<"find">>]>>
Gtfo == <<[Says("auth_security", "misconfiguration", "high", "gtfobins suid binary: /usr/bin/find",
       {"binary", "gtfo", "gtfobins", "gtfobins suid binary", "suid", "suid binary"},
       {})
   EXCEPT !.binaries = <<"find">>, !.confidence = 85]>>
(* Rules of sudo: one title for every rule that allows all commands, whoever     *)
(* it is for, and another for a rule that allows some.                          *)
SudoRule(commands, severity, evidence) ==
  Says("privilege_escalation", "sudo_rule", severity, "nopasswd sudo: " \o commands,
       {"nopasswd", "nopasswd sudo", "nopasswd sudo: " \o commands, "sudo"},
       evidence)
Sudo     == <<SudoRule("all commands", "critical", {})>>
SudoMore == <<SudoRule("specific commands", "high", {}), SudoRule("all commands", "critical", {"1"})>>
SshPort == <<[Says("network_security", "vulnerability", "medium", "exposed remote service: ssh (port 22)",
       {"exposed", "exposed remote service:", "exposed remote service: ssh", "port", "ssh"},
       {"port: <number>"})
   EXCEPT !.confidence = 90]>>

AllBatches == << OpensslPackages, KernelPackages, SshKey,
                 Aslr, Selinux, WritablePath, NginxPackage, Cron, Docker, Suid, SudoMore, Sudo, Gtfo, SshPort >>
AllHosts   == {{1}, {2}, {3}}

Bound(op, v) == [operator |-> op, version |-> v]
List(cs)    == [form |-> "list", constraints |-> cs]
Wildcard(ns) == [form |-> "wildcard", numbers |-> ns]

Entry(cve, product, affected, fixed) ==
  [cve |-> cve, vendor |-> product, product |-> product, affected |-> affected, fixed |-> fixed,
   severity |-> "critical", kev |-> TRUE, exploit |-> TRUE, sources |-> TRUE, cvss_v3 |-> 98,
   cvss_v4 |-> 0, epss |-> 97, confidence |-> 95, phrases |-> {},
   evidence |-> IF product = "nginx" THEN {"nx", "1"} ELSE {"1"}]
Mild(e) == [e EXCEPT !.severity = "low", !.kev = FALSE, !.exploit = FALSE, !.sources = FALSE,
                     !.cvss_v3 = 31, !.cvss_v4 = 93]

Shipped == <<
  Entry("cve-1", "openssl", {List({Bound("<", Plain(<<3, 0, 7>>))})}, {}),
  Mild(Entry("cve-2", "openssl", {List({Bound(">=", Suffixed(<<1, 1, 1>>)), Bound("<", Plain(<<3, 0, 2>>))})}, {})),
  Entry("cve-3", "openssl", {[form |-> "range", from |-> <<3, 0, 0>>, to |-> <<3, 0, 10>>]}, {}),
  Entry("cve-4", "openssl", {Wildcard(<<3, 0>>)}, {}),
  Mild(Entry("cve-6", "openssl", {List({Bound("=", Plain(<<3, 0, 2>>))})}, {})),
  Entry("cve-7", "openssl", {List({Bound("<", Plain(<<3, 1>>))}), List({Bound("=", Plain(<<1, 1, 1>>))})},
        {List({Bound("=", Plain(<<3, 0, 2>>))})}),
  Entry("cve-8", "linux-kernel", {Wildcard(<<6, 7>>)}, {}),
  Mild(Entry("cve-1", "openssl", {}, {})),
  [Entry("cve-2023-44487", "nginx", {List({Bound("<", Plain(<<1, 25, 3>>))})}, {})
     EXCEPT !.severity = "high", !.cvss_v3 = 75, !.epss = 59],
  [Mild(Entry("cve-2021-23017", "nginx", {List({Bound("<", Plain(<<1, 21, 0>>))})}, {}))
     EXCEPT !.severity = "high", !.cvss_v3 = 75, !.epss = 2, !.confidence = 85] >>
Updated == << [Entry("cve-9", "openssl", {}, {List({Bound("=", Plain(<<3, 5, 0>>))})})
                 EXCEPT !.cvss_v3 = 0, !.cvss_v4 = 93] >>

ThreeVersions == <<Shipped, <<>>, Updated>>
OneVersion    == <<Shipped>>
=============================================================================

----------------------------- MODULE HostNetwork ----------------------------
(***************************************************************************)
(* The scanners of vina/scanners/os/network_security.                      *)
(***************************************************************************)
EXTENDS HostCommands

Firewall == Scanner(<<"ufw", "firewall_cmd", "iptables", "nft">>,
  [ufw          |-> SUBSET {"active"},
   firewall_cmd |-> SUBSET {"running"},
   iptables     |-> SUBSET {"rules"},
   nft          |-> SUBSET {"ruleset"}])

FirewallFindings(r) ==
  LET active == \/ Says(r, "ufw", "active")     \/ Says(r, "firewall_cmd", "running")
                \/ Says(r, "iptables", "rules") \/ Says(r, "nft", "ruleset")
  IN  IF active THEN {"firewall_enabled"} ELSE {"no_firewall"}

(* One sysctl command asks for all keys; the text is the set of keys whose *)
(* value is not the expected one.                                          *)
SysctlKeys ==
  {"v4.ip_forward", "v6.forwarding", "v4.source_route", "v6.source_route",
   "v4.redirects", "v6.redirects", "v4.log_martians", "v4.syncookies",
   "v4.all.rp_filter", "v4.default.rp_filter",
   "v4.all.send_redirects", "v4.default.send_redirects"}

Routing ==
  Scanner(<<"sysctl">>, [sysctl |-> {{}, SysctlKeys} \union OneOf(SysctlKeys)])

RoutingFindings(r) == r["sysctl"].text

Dns == Scanner(<<"resolv_conf">>,
               [resolv_conf |-> SUBSET {"public_ns", "private_ns", "edns"}])

DnsFindings(r) ==
  LET nameserver == Says(r, "resolv_conf", "public_ns") \/ Says(r, "resolv_conf", "private_ns")
  IN  UNION {Raised("no_nameserver", ~nameserver),
             Raised("public_dns",    Says(r, "resolv_conf", "public_ns")),
             Raised("no_edns",       nameserver /\ ~Says(r, "resolv_conf", "edns"))}

(* Sockets as ss prints them.  strip("[]") leaves "::]" of "[::]", which   *)
(* is not among the wildcard addresses.                                    *)
Addresses == {"127.0.0.1", "0.0.0.0", "[::]"}
DBPort == {3306}
RemotePort == {22, 23}
WebPort == {80}
MailPort == {25}
Sockets == (DBPort \union RemotePort \union WebPort \union MailPort) \X Addresses

IsWildcard(address) == address \in {"0.0.0.0", "::", "*"}

Listening == Scanner(<<"ss">>,
  [ss |-> {S \in SUBSET Sockets : Cardinality(S) <= 2}])

RemoteSeverity(port, address) ==
  IF port \in {21, 23} THEN IF IsWildcard(address) THEN "critical" ELSE "high"
                       ELSE IF IsWildcard(address) THEN "high" ELSE "medium"

ListeningFindings(r) ==
  LET On(ports) == {s \in r["ss"].text : s[1] \in ports}
  IN  UNION {
        {<<"privileged", s[1], "info">> : s \in On(0..1023)},
        {<<"database", s[1], IF IsWildcard(s[2]) THEN "high" ELSE "low">> : s \in On(DBPort)},
        {<<"remote", s[1], RemoteSeverity(s[1], s[2])>> : s \in On(RemotePort)},
        {<<"web", s[1], "info">> : s \in On(WebPort)},
        {<<"mail", s[1], "info">> : s \in On(MailPort)}}

NetworkScanners ==
  [firewall |-> Firewall, routing |-> Routing, dns |-> Dns, listening |-> Listening]

NetworkFindings(s, r) ==
  CASE s = "firewall"  -> FirewallFindings(r)
    [] s = "routing"   -> RoutingFindings(r)
    [] s = "dns"       -> DnsFindings(r)
    [] s = "listening" -> ListeningFindings(r)
=============================================================================

---------------------------- MODULE HostPlatform ----------------------------
(***************************************************************************)
(* The scanners of vina/scanners/os/container_security, crypto_security    *)
(* and monitoring_security.                                                *)
(***************************************************************************)
EXTENDS HostCommands

(* Containers ------------------------------------------------------------ *)
Runtimes == Scanner(<<"pgrep_dockerd", "pgrep_kubelet", "pgrep_crio", "daemon_json", "kubelet_config">>,
  [pgrep_dockerd |-> {{}}, pgrep_kubelet |-> {{}}, pgrep_crio |-> {{}},
   daemon_json |-> SUBSET {"userns-remap"}, kubelet_config |-> SUBSET {"anonymous"}])

RuntimesAsks(c, r) ==
  CASE c = "daemon_json"    -> Succeeded(r, "pgrep_dockerd")
    [] c = "kubelet_config" -> Succeeded(r, "pgrep_kubelet")
    [] OTHER                -> TRUE

RuntimesFindings(r) == UNION {
  Raised("no_userns",         /\ Succeeded(r, "pgrep_dockerd")
                              /\ ~Says(r, "daemon_json", "userns-remap")),
  Raised("anonymous_kubelet", Says(r, "kubelet_config", "anonymous"))}

Namespaces == Scanner(<<"apparmor", "sestatus", "seccomp">>,
  [apparmor |-> SUBSET {"y"}, sestatus |-> SUBSET {"enabled"}, seccomp |-> {{}}])

NamespacesFindings(r) == UNION {
  Raised("no_lsm",     ~Says(r, "apparmor", "y") /\ ~Says(r, "sestatus", "enabled")),
  Raised("no_seccomp", ~Succeeded(r, "seccomp"))}

Virtualization == Scanner(<<"lsmod">>, [lsmod |-> SUBSET {"kvm", "vboxdrv", "vmw_", "vmci"}])

VirtualizationFindings(r) == Raised("hypervisor", r["lsmod"].text # {})

ContainerScanners ==
  [runtimes |-> Runtimes, namespaces |-> Namespaces, virtualization |-> Virtualization]

ContainerFindings(s, r) ==
  CASE s = "runtimes"       -> RuntimesFindings(r)
    [] s = "namespaces"     -> NamespacesFindings(r)
    [] s = "virtualization" -> VirtualizationFindings(r)

(* Cryptography ---------------------------------------------------------- *)
(* "MinProtocol = TLSv1" is also a prefix of "MinProtocol = TLSv1.2".      *)
LegacyProtocols == {"TLSv1", "TLSv1.2", "SSLv3"}

SslCerts == Scanner(<<"find_keys", "stat_key", "openssl_cnf">>,
  [find_keys |-> SUBSET {"key"}, stat_key |-> OneOf(Modes),
   openssl_cnf |-> {{}} \union OneOf(LegacyProtocols)])

SslCertsAsks(c, r) == c = "stat_key" => Says(r, "find_keys", "key")

SslCertsFindings(r) == UNION {
  Raised("open_keys",       ModeAbove(r, "stat_key", 640)),
  Raised("legacy_protocol", r["openssl_cnf"].text \intersect LegacyProtocols # {})}

SshCiphers == Scanner(<<"sshd_config">>,
  [sshd_config |-> SUBSET {"weak_cipher", "weak_mac", "strong_cipher"}])

SshCiphersFindings(r) == UNION {
  Raised("weak_ciphers", Says(r, "sshd_config", "weak_cipher")),
  Raised("weak_macs",    Says(r, "sshd_config", "weak_mac"))}

KernelCrypto == Scanner(<<"fips", "entropy">>,
  [fips |-> {{"0"}, {"1"}}, entropy |-> {{"256"}, {"4096"}, {"not_a_number"}}])

KernelCryptoFindings(r) == UNION {
  Raised("no_fips",     ~Says(r, "fips", "1")),
  Raised("low_entropy", Says(r, "entropy", "256"))}

KernelCryptoWarns(r) == Says(r, "entropy", "not_a_number")

CryptoScanners ==
  [ssl_certs |-> SslCerts, ssh_ciphers |-> SshCiphers, kernel_crypto |-> KernelCrypto]

CryptoFindings(s, r) ==
  CASE s = "ssl_certs"     -> SslCertsFindings(r)
    [] s = "ssh_ciphers"   -> SshCiphersFindings(r)
    [] s = "kernel_crypto" -> KernelCryptoFindings(r)

(* Monitoring ------------------------------------------------------------ *)
Auditing == Scanner(<<"pgrep_auditd", "auditctl", "journald_conf">>,
  [pgrep_auditd |-> {{}}, auditctl |-> SUBSET {"always_exit", "execve"},
   journald_conf |-> {{}, {"text"}, {"text", "persistent"}}])

AuditingAsks(c, r) == c = "auditctl" => Succeeded(r, "pgrep_auditd")

AuditingFindings(r) == UNION {
  Raised("no_auditd",  ~Succeeded(r, "pgrep_auditd")),
  Raised("no_execve",  /\ Succeeded(r, "pgrep_auditd")
                       /\ ~(Says(r, "auditctl", "always_exit") /\ Says(r, "auditctl", "execve"))),
  Raised("volatile_journal", /\ Says(r, "journald_conf", "text")
                             /\ ~Says(r, "journald_conf", "persistent"))}

Syslog == Scanner(<<"rsyslog_conf", "logrotate_conf">>,
  [rsyslog_conf |-> SUBSET {"@"}, logrotate_conf |-> SUBSET {"compress"}])

SyslogFindings(r) == UNION {
  Raised("no_forwarding",  ~Says(r, "rsyslog_conf", "@")),
  Raised("no_compression", ~Says(r, "logrotate_conf", "compress"))}

TimeSync == Scanner(<<"timedatectl">>,
  [timedatectl |-> SUBSET {"synchronized:yes", "service:active"}])

TimeSyncFindings(r) == Raised("no_time_sync", r["timedatectl"].text = {})

Agents == Scanner(<<"pgrep_fail2ban", "pgrep_wazuh", "pgrep_ossec">>,
  [pgrep_fail2ban |-> {{}}, pgrep_wazuh |-> {{}}, pgrep_ossec |-> {{}}])

AgentsFindings(r) == UNION {
  Raised("no_fail2ban", ~Succeeded(r, "pgrep_fail2ban")),
  Raised("no_hids",     ~Succeeded(r, "pgrep_wazuh") /\ ~Succeeded(r, "pgrep_ossec"))}

MonitoringScanners ==
  [auditing |-> Auditing, syslog |-> Syslog, time_sync |-> TimeSync, agents |-> Agents]

MonitoringFindings(s, r) ==
  CASE s = "auditing"  -> AuditingFindings(r)
    [] s = "syslog"    -> SyslogFindings(r)
    [] s = "time_sync" -> TimeSyncFindings(r)
    [] s = "agents"    -> AgentsFindings(r)

PlatformAsks(s, c, r) ==
  CASE s = "runtimes"  -> RuntimesAsks(c, r)
    [] s = "ssl_certs" -> SslCertsAsks(c, r)
    [] s = "auditing"  -> AuditingAsks(c, r)
    [] OTHER           -> TRUE
=============================================================================

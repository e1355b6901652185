-------------------------- MODULE CorrelationRules --------------------------
(***************************************************************************)
(* The rules of vina/core/correlation.py: identifier, type of attack,       *)
(* severity, the products of the vulnerability database that the title      *)
(* names, the bonuses <<exploitability, credential, persistence, GTFOBins>>, *)
(* and the matchers of the required and of the optional findings. No rule    *)
(* asks for a minimal severity.                                              *)
(***************************************************************************)
EXTENDS Integers, Sequences

Of(phrase, stage, category) == [phrase |-> phrase, stage |-> stage, category |-> category]
In(stage, phrase) == Of(phrase, stage, "")
Titled(phrase)    == Of(phrase, "", "")

Rule(id, type, severity, products, bonus, required, optional) ==
  [id |-> id, type |-> type, severity |-> severity, products |-> products,
   exploit |-> bonus[1], credential |-> bonus[2], persistence |-> bonus[3], gtfo |-> bonus[4],
   required |-> required, optional |-> optional]

PrivilegeEscalationRules == <<
  Rule("AP-PE-001", "privilege_escalation", "critical", {"sudo"}, <<15, 0, 10, 0>>,
       <<Titled("nopasswd sudo"), In("cron", "writable files in /etc/cron.")>>, <<>>),
  Rule("AP-PE-002", "privilege_escalation", "critical", {"sudo", "systemd"}, <<15, 0, 10, 0>>,
       <<Titled("nopasswd sudo"), Titled("writable systemd unit")>>, <<>>),
  Rule("AP-PE-003", "privilege_escalation", "critical", {"sudo"}, <<15, 0, 5, 0>>,
       <<Titled("nopasswd sudo"), Titled("writable path entries")>>, <<>>),
  Rule("AP-PE-004", "privilege_escalation", "high", {}, <<10, 0, 0, 15>>,
       <<Titled("suid binary")>>,
       <<Titled("suid binary")>>),
  Rule("AP-PE-005", "privilege_escalation", "high", {}, <<10, 0, 0, 10>>,
       <<Titled("capability:")>>, <<>>) >>

PersistenceAndContainerRules == <<
  Rule("AP-PERSIST-001", "persistence", "critical", {}, <<10, 0, 15, 0>>,
       <<Titled("writable files in /etc/cron."), Titled("root cron job:")>>, <<>>),
  Rule("AP-CONTAINER-001", "container_escape", "critical", {}, <<15, 0, 0, 0>>,
       <<Titled("users in docker group"), Titled("docker socket is world-writable")>>, <<>>),
  Rule("AP-CONTAINER-002", "container_escape", "critical", {}, <<15, 0, 0, 0>>,
       <<Titled("privileged container:"), Titled("docker socket is world-writable")>>, <<>>) >>

LateralMovementRules == <<
  Rule("AP-LM-001", "lateral_movement", "high", {}, <<8, 12, 0, 0>>,
       <<In("secrets", "ssh key found")>>,
       <<Titled("credentials in config:"), Titled(".env file found"), Titled("private-key:")>>),
  Rule("AP-LM-002", "lateral_movement", "high", {}, <<12, 0, 0, 0>>,
       <<Titled("ssh root login is permitted"), Titled("ssh password authentication is enabled")>>, <<>>),
  Rule("AP-LM-003", "lateral_movement", "high", {}, <<10, 0, 0, 0>>,
       <<Titled("ssh root login is permitted"), Titled("failed logins:")>>, <<>>) >>

KernelHardeningRules == <<
  Rule("AP-KH-001", "privilege_escalation", "high", {}, <<0, 0, 7, 0>>,
       <<Titled("secure boot is disabled")>>,
       <<In("kernel_hardening", "selinux is permissive"),
         In("kernel_hardening", "selinux is disabled"),
         In("kernel_hardening", "apparmor is disabled")>>),
  Rule("AP-KH-002", "exploitation", "high", {}, <<5, 0, 0, 0>>,
       <<In("kernel_hardening", "cpu vulnerable to")>>,
       <<In("kernel_hardening", "selinux is disabled"),
         In("kernel_hardening", "apparmor is disabled"),
         In("kernel_hardening", "selinux is permissive")>>),
  Rule("AP-KH-003", "privilege_escalation", "critical", {}, <<9, 0, 0, 0>>,
       <<In("kernel_hardening", "ebpf is accessible")>>,
       <<In("kernel_hardening", "selinux is disabled"),
         In("kernel_hardening", "selinux is permissive"),
         In("kernel_hardening", "apparmor is disabled")>>) >>

RemoteLoginRules == <<
  Rule("AP-AUTH-001", "lateral_movement", "critical", {}, <<15, 0, 0, 0>>,
       <<Titled("ssh password authentication is enabled"),
         Titled("ssh root login is permitted"),
         Titled("pam account lockout not configured")>>, <<>>),
  Rule("AP-AUTH-002", "privilege_escalation", "critical", {"sudo"}, <<15, 0, 0, 15>>,
       <<Titled("nopasswd sudo"), Titled("gtfobins")>>, <<>>),
  Rule("AP-AUTH-003", "privilege_escalation", "high", {}, <<10, 0, 0, 0>>,
       <<Titled("pam password quality module not configured"), Titled("empty password for user")>>, <<>>),
  Rule("AP-AUTH-004", "lateral_movement", "high", {}, <<8, 12, 0, 0>>,
       <<Titled("credential exposure:")>>,
       <<Titled("ssh password authentication is enabled"), In("secrets", "ssh key found")>>) >>

AccountRules == <<
  Rule("AP-AUTH-005", "privilege_escalation", "high", {}, <<10, 0, 0, 0>>,
       <<Titled("path contains world-writable directories"), Titled("ssh root login is permitted")>>, <<>>),
  Rule("AP-AUTH-006", "privilege_escalation", "high", {}, <<10, 0, 0, 0>>,
       <<Titled("ld_preload environment variable is set"), Titled("suid binary")>>, <<>>),
  Rule("AP-AUTH-007", "credential_exposure", "critical", {}, <<10, 15, 0, 0>>,
       <<Titled("weak password hash for user"), Titled("incorrect permissions on /etc/shadow")>>, <<>>),
  Rule("AP-AUTH-008", "privilege_escalation", "critical", {"sudo"}, <<15, 0, 15, 0>>,
       <<Titled("writable polkit rule file"), Titled("nopasswd sudo")>>, <<>>) >>

SingleFindingRules == <<
  Rule("AP-EXPLOIT-001", "exploitation", "medium", {}, <<8, 0, 0, 0>>,
       <<Titled("aslr is disabled")>>,
       <<Of("expected", "kernel", "security_control")>>),
  Rule("AP-CRED-001", "credential_exposure", "high", {}, <<0, 12, 5, 0>>,
       <<Titled("sensitive env variable:"), Titled("writable path entries")>>, <<>>),
  Rule("AP-LM-004", "lateral_movement", "high", {}, <<8, 10, 0, 0>>,
       <<Titled("private-key:")>>,
       <<Titled("ssh key found")>>),
  Rule("AP-PE-006", "privilege_escalation", "high", {}, <<8, 0, 0, 0>>,
       <<Titled("writable system directories"), Titled("suid binary")>>, <<>>) >>

VulnerabilityRules == <<
  Rule("AP-VULN-SSH-001", "lateral_movement", "critical", {"openssh"}, <<15, 10, 0, 0>>,
       <<In("vuln_intel", "cve-"),
         Titled("ssh password authentication is enabled"),
         Titled("ssh root login is permitted")>>, <<>>),
  Rule("AP-VULN-DOCKER-001", "container_escape", "critical", {}, <<15, 0, 0, 5>>,
       <<In("vuln_intel", "cve-"), Titled("docker socket is world-writable")>>, <<>>),
  Rule("AP-VULN-KERNEL-001", "privilege_escalation", "critical", {}, <<15, 0, 0, 10>>,
       <<In("vuln_intel", "cve-"), Titled("capability:")>>, <<>>),
  Rule("AP-VULN-CRED-001", "exploitation", "critical", {}, <<15, 15, 0, 0>>,
       <<In("vuln_intel", "cve-"), In("secrets", "ssh key found")>>,
       <<Titled("credentials in config:"), Titled(".env file found")>>) >>

PackageRules == <<
  Rule("AP-PKG-001", "lateral_movement", "high", {"openssh"}, <<12, 0, 0, 0>>,
       <<In("packages_security", "openssh-server"), In("services", "ssh service is active")>>, <<>>),
  Rule("AP-PKG-002", "privilege_escalation", "high", {"sudo"}, <<12, 0, 0, 0>>,
       <<In("packages_security", "sudo"), In("sudo", "sudo is available")>>, <<>>),
  Rule("AP-PKG-003", "privilege_escalation", "medium", {}, <<8, 0, 0, 0>>,
       <<In("packages_security", "kernel"), In("kernel", "kernel version mismatch")>>, <<>>),
  Rule("AP-PKG-004", "lateral_movement", "high", {}, <<10, 0, 0, 0>>,
       <<In("packages_security", "openssl"), In("services", "service is active")>>, <<>>) >>

NetworkRules == <<
  Rule("AP-NET-001", "lateral_movement", "critical", {}, <<0, 15, 0, 0>>,
       <<In("network_security", "exposed database service:"), In("auth_security", "password")>>, <<>>),
  Rule("AP-NET-002", "lateral_movement", "high", {}, <<12, 0, 0, 0>>,
       <<In("network_security", "exposed remote service: ssh"), In("ssh", "passwordauthentication")>>, <<>>),
  Rule("AP-NET-003", "lateral_movement", "high", {}, <<10, 0, 0, 0>>,
       <<In("network_security", "firewall is disabled or has no rules"),
         In("network_security", "exposed")>>, <<>>) >>

BootRules == <<
  Rule("AP-BOOT-001", "root_compromise", "critical", {}, <<15, 0, 0, 0>>,
       <<In("boot_security", "secure boot"),
         In("boot_security", "disabled in kernel boot parameters")>>, <<>>),
  Rule("AP-BOOT-002", "persistence", "high", {}, <<0, 0, 15, 0>>,
       <<In("boot_security", "grub configuration file permissions are too open"),
         In("boot_security", "world-writable files detected in /boot")>>, <<>>),
  Rule("AP-BOOT-003", "root_compromise", "high", {}, <<12, 0, 0, 0>>,
       <<In("boot_security", "uefi secure boot is disabled"), In("packages_security", "unsigned")>>, <<>>) >>

GuiRules == <<
  Rule("AP-GUI-001", "lateral_movement", "critical", {}, <<0, 15, 0, 0>>,
       <<In("gui_security", "automatic login"), In("gui_security", "vnc server")>>, <<>>),
  Rule("AP-GUI-002", "privilege_escalation", "high", {}, <<10, 0, 0, 0>>,
       <<In("gui_security", "legacy x11 windowing"), In("gui_security", "polkit rule")>>, <<>>) >>

FilesystemRules == <<
  Rule("AP-FS-001", "privilege_escalation", "high", {}, <<12, 0, 0, 0>>,
       <<In("privilege_escalation", "writable path"), In("storage_security", "suid/sgid")>>, <<>>),
  Rule("AP-FS-002", "root_compromise", "critical", {}, <<15, 0, 0, 0>>,
       <<In("storage_security", "permissions are too open"), In("storage_security", "suid/sgid")>>, <<>>) >>

MonitoringRules == <<
  Rule("AP-MON-001", "root_compromise", "critical", {}, <<15, 0, 0, 0>>,
       <<In("monitoring_security", "auditd"), In("storage_security", "suid/sgid")>>, <<>>),
  Rule("AP-MON-002", "lateral_movement", "high", {}, <<10, 0, 0, 0>>,
       <<In("monitoring_security", "syslog"), In("network_security", "exposed")>>, <<>>) >>

CryptoRules == <<
  Rule("AP-CRYPT-001", "lateral_movement", "high", {}, <<12, 0, 0, 0>>,
       <<In("crypto_security", "ssh ciphers"), In("network_security", "exposed")>>, <<>>),
  Rule("AP-CRYPT-002", "lateral_movement", "medium", {"openssl"}, <<8, 0, 0, 0>>,
       <<In("crypto_security", "openssl configured with legacy tls/ssl"),
         In("network_security", "exposed")>>, <<>>) >>

ContainerRules == <<
  Rule("AP-CONT-001", "root_compromise", "critical", {"sudo"}, <<20, 0, 0, 0>>,
       <<In("docker", "docker"), In("privilege_escalation", "sudo")>>, <<>>),
  Rule("AP-CONT-002", "root_compromise", "critical", {}, <<18, 0, 0, 0>>,
       <<In("docker", "privileged container"), In("storage_security", "mount options")>>, <<>>),
  Rule("AP-CONT-003", "root_compromise", "high", {}, <<15, 0, 0, 0>>,
       <<In("container_security", "no active linux security module"),
         In("storage_security", "suid/sgid")>>, <<>>) >>

(* In the order of the list, which is the order the paths are reported in.   *)
CORRELATION_RULES ==
  PrivilegeEscalationRules \o PersistenceAndContainerRules \o LateralMovementRules
  \o KernelHardeningRules \o RemoteLoginRules \o AccountRules
  \o SingleFindingRules \o VulnerabilityRules \o PackageRules
  \o NetworkRules \o BootRules \o GuiRules
  \o FilesystemRules \o MonitoringRules \o CryptoRules
  \o ContainerRules
=============================================================================

--------------------------- MODULE KnowledgeRules ---------------------------
(***************************************************************************)
(* The rules of vina/core/knowledge.py: the phrases one of which a title    *)
(* must contain, the stages and categories a rule is limited to, the tags   *)
(* later engines look at, and the confidence in hundredths. Attack rules    *)
(* name a MITRE technique, Topic rules do not.                              *)
(***************************************************************************)
EXTENDS Integers

Anywhere    == {}  \* no limit to certain stages
AnyCategory == {}

KnowledgeRule(attack, patterns, stages, categories, tags, confidence) ==
  [attack |-> attack, patterns |-> patterns, stages |-> stages, categories |-> categories,
   tags |-> tags, confidence |-> confidence]
Attack(patterns, stages, categories, tags, confidence) ==
  KnowledgeRule(TRUE, patterns, stages, categories, tags, confidence)
Topic(patterns, stages, categories, tags, confidence) ==
  KnowledgeRule(FALSE, patterns, stages, categories, tags, confidence)

PRIVILEGE_ESCALATION_RULES == {
  Attack({"nopasswd sudo: all commands"}, Anywhere, AnyCategory, {}, 95),
  Attack({"nopasswd sudo: specific commands"}, Anywhere, AnyCategory, {}, 85),
  Attack({"password sudo: all commands"}, Anywhere, AnyCategory, {}, 75),
  Attack({"suid binary"}, Anywhere, AnyCategory, {}, 80) }

CAPABILITY_RULES == {
  Attack({"capability:"}, Anywhere, AnyCategory, {}, 80) }

SSH_RULES == {
  Attack({"ssh root login is permitted"}, Anywhere, AnyCategory, {}, 90),
  Attack({"ssh password authentication is enabled"}, Anywhere, AnyCategory, {"password"}, 85),
  Attack({"ssh password authentication is disabled"}, Anywhere, AnyCategory, {}, 50),
  Topic({"ssh public key authentication is enabled"}, Anywhere, AnyCategory, {}, 50) }

DOCKER_RULES == {
  Attack({"docker socket is world-writable"}, Anywhere, AnyCategory, {}, 95),
  Attack({"users in docker group"}, Anywhere, AnyCategory, {}, 90),
  Attack({"privileged container:"}, Anywhere, AnyCategory, {}, 90),
  Topic({"docker is installed"}, Anywhere, AnyCategory, {}, 30) }

KERNEL_RULES == {
  Attack({"aslr is disabled"}, Anywhere, AnyCategory, {}, 90),
  Topic({"aslr is enabled"}, Anywhere, AnyCategory, {}, 50),
  Attack({"expected"}, {"kernel"}, {"security_control"}, {}, 75) }

KERNEL_HARDENING_RULES == {
  Attack({"secure boot is disabled"}, {"kernel_hardening"}, AnyCategory, {}, 85),
  Attack({"selinux is permissive", "selinux is disabled"}, {"kernel_hardening"}, AnyCategory, {}, 85),
  Attack({"apparmor is disabled"}, {"kernel_hardening"}, AnyCategory, {}, 85),
  Attack({"seccomp is not available", "seccomp available without"}, {"kernel_hardening"}, AnyCategory, {}, 80),
  Attack({"ebpf is accessible to unprivileged users"}, {"kernel_hardening"}, AnyCategory, {}, 90),
  Attack({"cpu vulnerable to"}, {"kernel_hardening"}, {"vulnerability"}, {}, 85),
  Attack({"user namespaces are enabled"}, {"kernel_hardening"}, AnyCategory, {}, 70),
  Attack({"sensitive kernel module loaded"}, {"kernel_hardening"}, {"kernel_module"}, {}, 50) }

WRITABLE_RULES == {
  Attack({"writable path entries"}, Anywhere, AnyCategory, {}, 90),
  Attack({"writable files in /etc/cron."}, Anywhere, AnyCategory, {"cron"}, 90),
  Attack({"writable systemd unit"}, Anywhere, AnyCategory, {"systemd"}, 90),
  Attack({"writable system directories"}, Anywhere, AnyCategory, {}, 70),
  Attack({"root cron job:"}, Anywhere, AnyCategory, {"cron"}, 70) }

SECRETS_RULES == {
  Attack({"ssh key found"}, Anywhere, AnyCategory, {"credential", "secret"}, 85),
  Attack({".env file found"}, Anywhere, AnyCategory, {"credential", "secret"}, 85),
  Attack({"private-key:", "private-key found", "private key"}, Anywhere, AnyCategory, {"credential"}, 85),
  Attack({"credentials in config:"}, Anywhere, AnyCategory, {"credential", "password", "secret"}, 90),
  Attack({"sensitive env variable:"}, Anywhere, AnyCategory, {"credential", "secret"}, 70) }

AUTH_RULES == {
  Attack({"failed logins:"}, Anywhere, AnyCategory, {}, 80),
  Attack({"direct root logins:"}, Anywhere, AnyCategory, {}, 85),
  Topic({"high sudo usage:"}, Anywhere, AnyCategory, {}, 40) }

AUTH_SECURITY_RULES == {
  Attack({"pam password quality module not configured"}, {"auth_security"}, AnyCategory, {"password"}, 85),
  Attack({"pam account lockout not configured"}, {"auth_security"}, AnyCategory, {}, 85),
  Topic({"pam password history not configured"}, {"auth_security"}, AnyCategory, {"password"}, 70),
  Attack({"pam password hashing algorithm is weak"}, {"auth_security"}, AnyCategory, {"password"}, 85),
  Attack({"empty password for user"}, {"auth_security"}, AnyCategory, {"password"}, 95),
  Attack({"weak password hash for user"}, {"auth_security"}, AnyCategory, {"credential", "password"}, 85),
  Topic({"incorrect permissions on /etc/shadow"}, {"auth_security"}, AnyCategory, {"credential"}, 95),
  Topic({"incorrect permissions on /etc/passwd"}, {"auth_security"}, AnyCategory, {}, 80),
  Attack({"credential exposure:"}, {"auth_security"}, {"misconfiguration"}, {"credential", "secret"}, 85),
  Attack({"ssh agent forwarding detected"}, {"auth_security"}, AnyCategory, {"credential"}, 70),
  Attack({"path contains world-writable directories"}, {"auth_security"}, AnyCategory, {}, 85),
  Attack({"world-writable scripts in system paths"}, {"auth_security"}, AnyCategory, {}, 85),
  Attack({"sgid binaries detected"}, {"auth_security"}, AnyCategory, {}, 70),
  Attack({"gtfobins suid binary"}, {"auth_security"}, AnyCategory, {}, 85),
  Attack({"gtfobins binary with capabilities"}, {"auth_security"}, AnyCategory, {}, 85),
  Attack({"writable polkit rule file"}, {"auth_security"}, AnyCategory, {}, 90),
  Attack({"dangerous polkit action"}, {"auth_security"}, AnyCategory, {}, 70),
  Attack({"ld_preload environment variable is set"}, {"auth_security"}, AnyCategory, {}, 70),
  Attack({"ld_library_path environment variable is set"}, {"auth_security"}, AnyCategory, {}, 70),
  Topic({"incorrect permissions on /etc/passwd"}, {"auth_security"}, AnyCategory, {}, 80) }

PROCESS_RULES == {
  Attack({"suspicious process:"}, Anywhere, AnyCategory, {}, 85),
  Topic({"high number of root processes"}, Anywhere, AnyCategory, {}, 50) }

PACKAGE_RULES == {
  Topic({"installed:"}, {"packages"}, AnyCategory, {}, 40),
  Topic({"potentially unstable apt source"}, Anywhere, AnyCategory, {}, 75),
  Topic({"insecure http repository:"}, {"packages_security"}, AnyCategory, {}, 85),
  Topic({"unsigned package repository override:"}, {"packages_security"}, AnyCategory, {}, 90),
  Topic({"deprecated gpg keyring file used:"}, {"packages_security"}, AnyCategory, {}, 90),
  Topic({"expired repository gpg keys"}, {"packages_security"}, AnyCategory, {}, 80),
  Topic({"weak gpg signing keys"}, {"packages_security"}, AnyCategory, {}, 75),
  Topic({"duplicate repository:"}, {"packages_security"}, AnyCategory, {}, 75),
  Topic({"modified package files detected"}, {"packages_security"}, AnyCategory, {}, 80),
  Topic({"unsigned rpm packages detected"}, {"packages_security"}, AnyCategory, {}, 85),
  Topic({"orphaned packages detected"}, {"packages_security"}, AnyCategory, {}, 75),
  Topic({"broken or partially installed packages"}, {"packages_security"}, AnyCategory, {}, 90),
  Topic({"potential typosquatting package:"}, {"packages_security"}, AnyCategory, {}, 80),
  Topic({"suspicious repository tld/domain"}, {"packages_security"}, AnyCategory, {}, 85),
  Topic({"manually installed binaries in system path"}, {"packages_security"}, AnyCategory, {}, 90),
  Topic({"untrusted shell installer command execution"}, {"packages_security"}, AnyCategory, {}, 85) }

SERVICE_RULES == {
  Attack({"suspicious execstart:"}, Anywhere, AnyCategory, {"systemd"}, 90),
  Topic({"enabled service:"}, {"systemd"}, AnyCategory, {"systemd"}, 30) }

CRON_RULES == {
  Attack({"writable entries in /etc/cron."}, Anywhere, AnyCategory, {"cron"}, 90) }

SUSPICIOUS_BINARY_RULES == {
  Attack({"suid binary", "capability:", "gtfobins", "binary"}, Anywhere, AnyCategory, {}, 80) }

FILESYSTEM_RULES == {
  Attack({"sgid binary:", "sgid binary"}, Anywhere, AnyCategory, {}, 75),
  Topic({"/etc/passwd permissions are too open"}, {"storage_security"}, AnyCategory, {}, 95),
  Topic({"/etc/shadow permissions are too open"}, {"storage_security"}, AnyCategory, {}, 95),
  Topic({"/etc/sudoers permissions are too open"}, {"storage_security"}, AnyCategory, {}, 90),
  Topic({"suid/sgid files detected"}, {"storage_security"}, AnyCategory, {}, 90),
  Topic({"insecure mount options on /tmp:"}, {"storage_security"}, AnyCategory, {}, 90),
  Topic({"insecure mount options on /dev/shm:"}, {"storage_security"}, AnyCategory, {}, 90),
  Topic({"nfs exports configured with no_root_squash"}, {"storage_security"}, AnyCategory, {}, 95),
  Topic({"samba public/guest share access enabled"}, {"storage_security"}, AnyCategory, {}, 90),
  Topic({"system lacks full-disk encryption (luks)"}, {"storage_security"}, AnyCategory, {}, 90),
  Topic({"unencrypted swap space configured"}, {"storage_security"}, AnyCategory, {}, 90),
  Topic({"file integrity monitoring (fim) not configured"}, {"storage_security"}, AnyCategory, {}, 90),
  Topic({"immutable system configuration files detected"}, {"storage_security"}, AnyCategory, {}, 85) }

NETWORK_SECURITY_RULES == {
  Topic({"firewall is disabled or has no rules"}, {"network_security"}, AnyCategory, {}, 90),
  Topic({"sysctl net.ipv4.ip_forward is misconfigured"}, {"network_security"}, AnyCategory, {}, 90),
  Topic({"sysctl net.ipv6.conf.all.forwarding is misconfigured"}, {"network_security"}, AnyCategory, {}, 90),
  Topic({"sysctl net.ipv4.conf.all.accept_source_route is misconfigured"}, {"network_security"}, AnyCategory, {}, 90),
  Topic({"sysctl net.ipv6.conf.all.accept_source_route is misconfigured"}, {"network_security"}, AnyCategory, {}, 90),
  Topic({"sysctl net.ipv4.conf.all.accept_redirects is misconfigured"}, {"network_security"}, AnyCategory, {}, 90),
  Topic({"sysctl net.ipv6.conf.all.accept_redirects is misconfigured"}, {"network_security"}, AnyCategory, {}, 90),
  Topic({"sysctl net.ipv4.conf.all.log_martians is misconfigured"}, {"network_security"}, AnyCategory, {}, 90),
  Topic({"sysctl net.ipv4.tcp_syncookies is misconfigured"}, {"network_security"}, AnyCategory, {}, 90),
  Topic({"sysctl net.ipv4.conf.all.rp_filter is misconfigured"}, {"network_security"}, AnyCategory, {}, 90),
  Topic({"sysctl net.ipv4.conf.default.rp_filter is misconfigured"}, {"network_security"}, AnyCategory, {}, 90),
  Topic({"sysctl net.ipv4.conf.all.send_redirects is misconfigured"}, {"network_security"}, AnyCategory, {}, 90),
  Topic({"sysctl net.ipv4.conf.default.send_redirects is misconfigured"}, {"network_security"}, AnyCategory, {}, 90),
  Topic({"no dns nameservers configured"}, {"network_security"}, AnyCategory, {}, 90),
  Topic({"insecure public dns resolvers configured"}, {"network_security"}, AnyCategory, {}, 85),
  Topic({"dnssec validation or edns0 options not enforced"}, {"network_security"}, AnyCategory, {}, 80),
  Topic({"exposed database service:"}, {"network_security"}, AnyCategory, {}, 90),
  Topic({"exposed remote service:"}, {"network_security"}, AnyCategory, {}, 90),
  Topic({"privileged port listening:"}, {"network_security"}, AnyCategory, {}, 90),
  Topic({"active web service:"}, {"network_security"}, AnyCategory, {}, 90),
  Topic({"active mail service:"}, {"network_security"}, AnyCategory, {}, 90) }

BOOT_SECURITY_RULES == {
  Topic({"grub configuration file not found"}, {"boot_security"}, AnyCategory, {}, 80),
  Topic({"grub configuration file permissions are too open"}, {"boot_security"}, AnyCategory, {}, 90),
  Topic({"grub configuration file is not owned by root"}, {"boot_security"}, AnyCategory, {}, 90),
  Topic({"grub bootloader is not password protected"}, {"boot_security"}, AnyCategory, {"password"}, 90),
  Topic({"all grub boot entries are unrestricted"}, {"boot_security"}, AnyCategory, {"password"}, 90),
  Topic({"system booted in legacy bios mode (no secure boot)"}, {"boot_security"}, AnyCategory, {}, 90),
  Topic({"uefi secure boot is disabled"}, {"boot_security"}, AnyCategory, {}, 90),
  Topic({"vulnerable kernel boot parameter:"}, {"boot_security"}, AnyCategory, {}, 95),
  Topic({"kernel speculative execution mitigations are disabled"}, {"boot_security"}, AnyCategory, {}, 90),
  Topic({"selinux disabled in kernel boot parameters"}, {"boot_security"}, AnyCategory, {}, 90),
  Topic({"apparmor disabled in kernel boot parameters"}, {"boot_security"}, AnyCategory, {}, 90),
  Topic({"root shell spawned on systemd emergency/rescue mode without password"}, {"boot_security"}, AnyCategory, {"systemd"}, 90),
  Topic({"boot files not owned by root"}, {"boot_security"}, AnyCategory, {}, 90),
  Topic({"world-writable files detected in /boot"}, {"boot_security"}, AnyCategory, {}, 95),
  Topic({"initramfs image permissions are too permissive"}, {"boot_security"}, AnyCategory, {}, 90) }

GUI_SECURITY_RULES == {
  Topic({"gdm automatic login enabled in"}, {"gui_security"}, AnyCategory, {}, 90),
  Topic({"lightdm automatic login enabled in"}, {"gui_security"}, AnyCategory, {}, 90),
  Topic({"lightdm guest session enabled in"}, {"gui_security"}, AnyCategory, {}, 90),
  Topic({"sddm automatic login configured in"}, {"gui_security"}, AnyCategory, {}, 90),
  Topic({"legacy x11 windowing system active"}, {"gui_security"}, AnyCategory, {}, 85),
  Topic({"active vnc server session detected"}, {"gui_security"}, AnyCategory, {}, 90),
  Topic({"insecure security layer configured in xrdp"}, {"gui_security"}, AnyCategory, {}, 90),
  Topic({"weak encryption level configured in xrdp"}, {"gui_security"}, AnyCategory, {}, 90),
  Topic({"firefox security bypasses are allowed in policy"}, {"gui_security"}, AnyCategory, {}, 90),
  Topic({"pkexec binary is not owned by root"}, {"gui_security"}, AnyCategory, {}, 95),
  Topic({"polkit rule allows passwordless privilege escalation in"}, {"gui_security"}, AnyCategory, {}, 90) }

MONITORING_RULES == {
  Topic({"auditd auditing daemon is not running"}, {"monitoring_security"}, AnyCategory, {}, 90),
  Topic({"audit rules do not track process execution (execve)"}, {"monitoring_security"}, AnyCategory, {}, 85),
  Topic({"systemd journald storage is not persistent"}, {"monitoring_security"}, AnyCategory, {}, 90),
  Topic({"syslog remote log forwarding is not configured"}, {"monitoring_security"}, AnyCategory, {}, 90),
  Topic({"logrotate compression is disabled"}, {"monitoring_security"}, AnyCategory, {}, 90),
  Topic({"system time synchronization is inactive"}, {"monitoring_security"}, AnyCategory, {}, 90),
  Topic({"fail2ban brute-force protection is not running"}, {"monitoring_security"}, AnyCategory, {}, 90),
  Topic({"no active host intrusion detection system (hids) resolved"}, {"monitoring_security"}, AnyCategory, {}, 85) }

CRYPTO_RULES == {
  Topic({"ssl/tls private keys have insecure permissions"}, {"crypto_security"}, AnyCategory, {}, 95),
  Topic({"openssl configured with legacy tls/ssl protocol support"}, {"crypto_security"}, AnyCategory, {}, 90),
  Topic({"insecure ssh ciphers enabled"}, {"crypto_security"}, AnyCategory, {}, 95),
  Topic({"insecure ssh mac algorithms enabled"}, {"crypto_security"}, AnyCategory, {}, 95),
  Topic({"kernel fips mode is disabled"}, {"crypto_security"}, AnyCategory, {}, 85),
  Topic({"low available kernel entropy:"}, {"crypto_security"}, AnyCategory, {}, 90) }

CONTAINER_RULES == {
  Topic({"docker user namespace remapping is disabled"}, {"container_security"}, AnyCategory, {}, 90),
  Topic({"kubelet anonymous authentication is enabled"}, {"container_security"}, AnyCategory, {}, 90),
  Topic({"no active linux security module (lsm) resolved"}, {"container_security"}, AnyCategory, {}, 90),
  Topic({"kernel lacks seccomp system call filtering support"}, {"container_security"}, AnyCategory, {}, 85),
  Topic({"virtualization hypervisor modules active:"}, {"container_security"}, AnyCategory, {}, 90) }

(* All rules; the plugins' come after these and are not modelled.           *)
ALL_RULES ==
  UNION {PRIVILEGE_ESCALATION_RULES, CAPABILITY_RULES, SSH_RULES,
         DOCKER_RULES, KERNEL_RULES, KERNEL_HARDENING_RULES,
         WRITABLE_RULES, SECRETS_RULES, AUTH_RULES,
         AUTH_SECURITY_RULES, PROCESS_RULES, PACKAGE_RULES,
         SERVICE_RULES, CRON_RULES, SUSPICIOUS_BINARY_RULES,
         FILESYSTEM_RULES, NETWORK_SECURITY_RULES, BOOT_SECURITY_RULES,
         GUI_SECURITY_RULES, MONITORING_RULES, CRYPTO_RULES,
         CONTAINER_RULES}
=============================================================================

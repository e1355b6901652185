----------------------------- MODULE HostKernel -----------------------------
(***************************************************************************)
(* The stages kernel and kernel_hardening.  Both ask sysctl for one key    *)
(* after another and compare the value with the one their table expects;   *)
(* a command of that kind is named after its key.                          *)
(***************************************************************************)
EXTENDS HostCommands

KernelTable ==
  [randomize_va_space |-> 2, ptrace_scope |-> 1, all_rp_filter |-> 1, default_rp_filter |-> 1,
   tcp_syncookies |-> 1, ip_forward |-> 0, v6_forwarding |-> 0, accept_redirects |-> 0,
   send_redirects |-> 0, kptr_restrict |-> 1, dmesg_restrict |-> 1]

HardeningTable ==
  [randomize_va_space |-> 2, kptr_restrict |-> 2, dmesg_restrict |-> 1, kexec_load_disabled |-> 1,
   unprivileged_bpf_disabled |-> 1, bpf_jit_enable |-> 0, ptrace_scope |-> 1,
   perf_event_paranoid |-> 3, panic_on_oops |-> 1, max_user_namespaces |-> 0,
   protected_hardlinks |-> 1, protected_symlinks |-> 1, suid_dumpable |-> 0, core_uses_pid |-> 1,
   ip_forward |-> 0, send_redirects |-> 0, default_send_redirects |-> 0, accept_redirects |-> 0,
   secure_redirects |-> 0, accept_source_route |-> 0, v6_accept_redirects |-> 0,
   all_rp_filter |-> 1, default_rp_filter |-> 1, tcp_syncookies |-> 1, log_martians |-> 1]

(* What sysctl -n prints: one value, the expected one first of all.        *)
Values == 0..3

(* The keys whose command succeeded with another value than expected.      *)
Deviating(table, r) == {key \in DOMAIN table : Succeeded(r, key) /\ r[key].text # {table[key]}}

KernelCommands ==
  <<"uname_r", "uname_s", "uname_m", "lsmod", "sysctl_aslr", "sysctl_ptrace",
    "randomize_va_space", "ptrace_scope", "all_rp_filter", "default_rp_filter", "tcp_syncookies",
    "ip_forward", "v6_forwarding", "accept_redirects", "send_redirects", "kptr_restrict",
    "dmesg_restrict">>

Kernel == Scanner(KernelCommands,
  [c \in {KernelCommands[i] : i \in 1..Len(KernelCommands)} |->
     CASE c = "lsmod"                          -> SUBSET {"ext4", "nfs"}
       [] c = "uname_r"                        -> SUBSET {"release"}
       [] c \in {"uname_s", "uname_m"}         -> {{}}
       [] c \in {"sysctl_aslr", "sysctl_ptrace"} \union DOMAIN KernelTable -> OneOf(Values)])

KernelRecords(r) == r["lsmod"].text

KernelFindings(r) ==
  Deviating(KernelTable, r) \union UNION {
    Raised("kernel_release",   Says(r, "uname_r", "release")),
    Raised("aslr_on",          Says(r, "sysctl_aslr", 2)),
    Raised("aslr_off",         Succeeded(r, "sysctl_aslr") /\ ~Says(r, "sysctl_aslr", 2)),
    Raised("sensitive_module", Says(r, "lsmod", "nfs"))}

(* Two of the twelve files under cpu/vulnerabilities.  boot_config is the  *)
(* kernel's configuration: text with more than one line is taken for       *)
(* compressed, because a line feed is not printable.                       *)
Mitigations == {"spectre_v2", "mds"}

HardeningCommands ==
  <<"uname_r", "randomize_va_space", "kptr_restrict", "dmesg_restrict", "kexec_load_disabled",
    "unprivileged_bpf_disabled", "bpf_jit_enable", "ptrace_scope", "perf_event_paranoid",
    "panic_on_oops", "max_user_namespaces", "protected_hardlinks", "protected_symlinks",
    "suid_dumpable", "core_uses_pid", "ip_forward", "send_redirects", "default_send_redirects",
    "accept_redirects", "secure_redirects", "accept_source_route", "v6_accept_redirects",
    "all_rp_filter", "default_rp_filter", "tcp_syncookies", "log_martians", "mokutil",
    "sestatus", "getenforce", "aa_status", "apparmor_enabled", "lsmod", "spectre_v2", "mds",
    "boot_config">>

KernelHardening == Scanner(HardeningCommands,
  [c \in {HardeningCommands[i] : i \in 1..Len(HardeningCommands)} |->
     CASE c \in DOMAIN HardeningTable -> OneOf(Values)
       [] c \in {"uname_r", "sestatus", "aa_status"} -> {{}}
       [] c = "mokutil"          -> {{}, {"enabled"}, {"disabled"}}
       [] c = "getenforce"       -> {{}, {"enforcing"}, {"permissive"}, {"disabled"}}
       [] c = "apparmor_enabled" -> SUBSET {"Y"}
       [] c = "lsmod"            -> SUBSET {"ext4", "bluetooth"}
       [] c \in Mitigations      -> {{}, {"vulnerable"}, {"mitigation"}}
       [] c = "boot_config"      -> {{}, {"lines"}, {"lines", "SECCOMP=y"}, {"SECCOMP=y"}}])

SeccompFindings(r) == UNION {
  Raised("no_seccomp", Succeeded(r, "boot_config") /\ r["boot_config"].text = {}),
  Raised("seccomp",    r["boot_config"].text = {"SECCOMP=y"})}

AccessControlFindings(r) == UNION {
  Raised("secure_boot_on",     Says(r, "mokutil", "enabled")),
  Raised("secure_boot_off",    Says(r, "mokutil", "disabled")),
  Raised("selinux_enforcing",  Says(r, "getenforce", "enforcing")),
  Raised("selinux_permissive", Says(r, "getenforce", "permissive")),
  Raised("selinux_disabled",   Says(r, "getenforce", "disabled")),
  Raised("apparmor_on",        Says(r, "apparmor_enabled", "Y")),
  Raised("apparmor_off",       Succeeded(r, "apparmor_enabled") /\ ~Says(r, "apparmor_enabled", "Y"))}

UnprivilegedFindings(r) == UNION {
  Raised("ebpf_restricted",     Says(r, "unprivileged_bpf_disabled", 1)),
  Raised("ebpf_open",           Succeeded(r, "unprivileged_bpf_disabled")
                                /\ ~Says(r, "unprivileged_bpf_disabled", 1)),
  Raised("user_namespaces_on",  Succeeded(r, "max_user_namespaces")
                                /\ ~Says(r, "max_user_namespaces", 0)),
  Raised("user_namespaces_off", Says(r, "max_user_namespaces", 0))}

MitigationFindings(r) == {c \in Mitigations : Says(r, c, "vulnerable")}

HardeningFindings(r) ==
  UNION {Deviating(HardeningTable, r), SeccompFindings(r), AccessControlFindings(r),
         UnprivilegedFindings(r), MitigationFindings(r),
         Raised("sensitive_module", Says(r, "lsmod", "bluetooth"))}
=============================================================================

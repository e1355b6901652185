---------------------------- MODULE HostScanners ----------------------------
(***************************************************************************)
(* A stage of the host scan at work.  A stage is one scanner, or a group   *)
(* of scanners that run in turn; a scanner awaits its commands one after   *)
(* another and then judges their texts.  Stages share no state, so each    *)
(* behaviour is one stage.                                                 *)
(*                                                                         *)
(* Most of what a command may do is usual: it prints nothing remarkable,   *)
(* or, on a host where nothing works, it is missing or times out.  At most *)
(* NewsBound commands of a stage do anything else; at most one does of     *)
(* kernel_hardening, which judges each of its many commands by itself, and *)
(* of ssh, which judges one command only.                                  *)
(***************************************************************************)
EXTENDS HostStorage, HostNetwork, HostAuth, HostBoot, HostPlatform, HostDesktop,
        HostPackages, HostInventory, HostExposure, HostKernel

CONSTANTS Stages,      \* the stages that may run
          Grounds,     \* what commands do when nothing unusual happens
          NewsBound    \* bound on the unusual answers of a stage

Groups ==
  [storage_security    |-> <<"permissions", "mounts", "encryption", "integrity">>,
   network_security    |-> <<"firewall", "routing", "dns", "listening">>,
   auth_security       |-> <<"pam", "password", "credentials", "sessions", "polkit",
                             "privesc_enhanced">>,
   boot_security       |-> <<"grub", "secure_boot", "kernel_params", "boot_files">>,
   container_security  |-> <<"runtimes", "namespaces", "virtualization">>,
   crypto_security     |-> <<"ssl_certs", "ssh_ciphers", "kernel_crypto">>,
   monitoring_security |-> <<"auditing", "syslog", "time_sync", "agents">>,
   gui_security        |-> <<"desktop", "remote_desktop", "browsers", "gui_polkit">>,
   packages_security   |-> <<"managers", "repositories", "package_integrity",
                             "supply_chain", "inventory">>]

ExposureScanners ==
  [privilege_escalation |-> PrivilegeEscalation, ssh |-> Ssh, cron |-> Cron, systemd |-> Systemd,
   docker |-> Docker, environment |-> Environment, secrets |-> Secrets,
   kernel |-> Kernel, kernel_hardening |-> KernelHardening]

Exposed(s, r) ==
  CASE s = "privilege_escalation" -> PrivilegeEscalationFindings(r)
    [] s = "ssh"                  -> SshFindings(r)
    [] s = "cron"                 -> CronFindings(r)
    [] s = "systemd"              -> SystemdFindings(r)
    [] s = "docker"               -> DockerFindings(r)
    [] s = "environment"          -> EnvironmentFindings(r)
    [] s = "secrets"              -> SecretsFindings(r)
    [] s = "kernel"               -> KernelFindings(r)
    [] s = "kernel_hardening"     -> HardeningFindings(r)

ASSUME StagesAssumption ==
  /\ Stages \subseteq DOMAIN Groups \union DOMAIN InventoryScanners \union DOMAIN ExposureScanners
  /\ Grounds \subseteq {"ok"} \union Lost
  /\ NewsBound \in Nat

Parts(st) == IF st \in DOMAIN Groups THEN Groups[st] ELSE <<st>>

ScannerOf(s) ==
  CASE s \in DOMAIN StorageScanners    -> StorageScanners[s]
    [] s \in DOMAIN NetworkScanners    -> NetworkScanners[s]
    [] s \in DOMAIN AuthScanners       -> AuthScanners[s]
    [] s \in DOMAIN BootScanners       -> BootScanners[s]
    [] s \in DOMAIN ContainerScanners  -> ContainerScanners[s]
    [] s \in DOMAIN CryptoScanners     -> CryptoScanners[s]
    [] s \in DOMAIN MonitoringScanners -> MonitoringScanners[s]
    [] s \in DOMAIN GuiScanners        -> GuiScanners[s]
    [] s \in DOMAIN PackagesScanners   -> PackagesScanners[s]
    [] s \in DOMAIN InventoryScanners  -> InventoryScanners[s]
    [] s \in DOMAIN ExposureScanners   -> ExposureScanners[s]

FindingsOf(s, r) ==
  CASE s \in DOMAIN StorageScanners    -> StorageFindings(s, r)
    [] s \in DOMAIN NetworkScanners    -> NetworkFindings(s, r)
    [] s \in DOMAIN AuthScanners       -> AuthFindings(s, r)
    [] s \in DOMAIN BootScanners       -> BootFindings(s, r)
    [] s \in DOMAIN ContainerScanners  -> ContainerFindings(s, r)
    [] s \in DOMAIN CryptoScanners     -> CryptoFindings(s, r)
    [] s \in DOMAIN MonitoringScanners -> MonitoringFindings(s, r)
    [] s \in DOMAIN GuiScanners        -> GuiFindings(s, r)
    [] s \in DOMAIN PackagesScanners   -> PackagesFindings(s, r)
    [] s \in DOMAIN InventoryScanners  -> StageFindings(s, r)
    [] s \in DOMAIN ExposureScanners   -> Exposed(s, r)

(* Is the command asked at all, given the answers before it?               *)
IsAsked(s, c, r) ==
  CASE s \in DOMAIN StorageScanners    -> s = "encryption" => EncryptionAsks(c, r)
    [] s \in DOMAIN AuthScanners       -> AuthAsks(s, c, r)
    [] s \in DOMAIN BootScanners       -> BootAsks(s, c, r)
    [] s \in DOMAIN GuiScanners        -> GuiAsks(s, c, r)
    [] s \in DOMAIN PackagesScanners   -> PackagesAsks(s, c, r)
    [] s \in DOMAIN InventoryScanners  -> InventoryAsks(s, c, r)
    [] s \in DOMAIN ContainerScanners \union DOMAIN CryptoScanners \union DOMAIN MonitoringScanners
                                       -> PlatformAsks(s, c, r)
    [] OTHER                           -> TRUE

(* What a stage counts as its records: findings, for a group and for the   *)
(* two stages that have nothing else.                                      *)
RecordsOf(s, r) ==
  CASE s \in DOMAIN InventoryScanners -> InventoryRecords(s, r)
    [] s = "ssh"                      -> SshRecords(r)
    [] s = "cron"                     -> CronRecords(r)
    [] s = "systemd"                  -> SystemdRecords(r)
    [] s = "docker"                   -> DockerRecords(r)
    [] s = "environment"              -> EnvironmentRecords(r)
    [] s = "secrets"                  -> SecretsRecords(r)
    [] s = "kernel"                   -> KernelRecords(r)
    [] OTHER                          -> FindingsOf(s, r)

(* packages_security hands the packages of its first scanner to two of the *)
(* later ones, which do not ask for them again.                            *)
HandedTo(s) ==
  CASE s = "supply_chain" -> {"pip"} [] s = "inventory" -> {"dpkg"} [] OTHER -> {}
-----------------------------------------------------------------------------
VARIABLES
  stage,     \* the stage
  ground,    \* what its commands usually do
  news,      \* how many did something else
  part,      \* the scanner at work, as an index into Parts(stage)
  step,      \* its next command
  r,         \* the results of its commands
  handed,    \* the results of the packages scanner that later ones use
  reports,   \* the scanners of the stage that reported a finding or record
  told,      \* a warning was added
  lost,      \* how commands were lost (history)
  primary,   \* the result that stands for the stage: the first scanner's
  status     \* "running", then the StageState

vars == <<stage, ground, news, part, step, r, handed, reports, told, lost, primary, status>>

Now       == Parts(stage)[part]
Commands  == ScannerOf(Now).asks
Working   == status = "running" /\ part <= Len(Parts(stage))
AllAsked  == Working /\ step > Len(Commands)

NoAnswers(s) == [c \in DOMAIN ScannerOf(s).says |-> Unasked]
NoResult == Result("failed", {})

Init ==
  /\ stage \in Stages
  /\ ground \in Grounds
  /\ news = 0
  /\ part = 1
  /\ step = 1
  /\ r = NoAnswers(Parts(stage)[1])
  /\ handed = [m \in {"dpkg", "pip"} |-> Unasked]
  /\ reports = {}
  /\ told = FALSE
  /\ lost = {}
  /\ primary = NoResult
  /\ status = "running"

(* What the runner may return for a command.  A text is kept with an error *)
(* only where the scanner reads it in spite of the exit code; that of a    *)
(* command that timed out is what it had printed by then.                  *)
Answers(s, c) ==
  LET texts == ScannerOf(s).says[c]
  IN  {Result("ok", t) : t \in texts}
        \union (IF c \in ScannerOf(s).certain THEN {Result("failed", {})}
                ELSE {Result(f, {}) : f \in Lost \union {"failed"}})
        \union (IF c \in ScannerOf(s).partial
                THEN {Result(f, t) : f \in {"failed", "timeout"}, t \in texts} ELSE {})

Usual(s, c) ==
  IF ground \in Lost /\ c \notin ScannerOf(s).certain THEN Result(ground, {})
  ELSE LET texts == ScannerOf(s).says[c]
       IN  Result("ok", IF {} \in texts THEN {} ELSE CHOOSE t \in texts : TRUE)

Unusual(st) == IF st \in {"kernel_hardening", "ssh"} /\ NewsBound > 1 THEN 1 ELSE NewsBound

Ask ==
  LET c == Commands[step]
  IN  /\ Working
      /\ step <= Len(Commands)
      /\ c \notin HandedTo(Now)
      /\ IsAsked(Now, c, r)
      /\ \E answer \in Answers(Now, c) :
           /\ answer = Usual(Now, c) \/ news < Unusual(stage)
           /\ r' = [r EXCEPT ![c] = answer]
           /\ news' = IF answer = Usual(Now, c) THEN news ELSE news + 1
           /\ lost' = lost \union ({answer.fate} \intersect Lost)
      /\ step' = step + 1
      /\ UNCHANGED <<stage, ground, part, handed, reports, told, primary, status>>

\* mutant: the lists of packages are handed over in the wrong order
SwappedHandOver(c) == handed[CHOOSE m \in DOMAIN handed : m # c]
HandedOver(c) == handed[c]

Skip ==
  LET c == Commands[step]
  IN  /\ Working
      /\ step <= Len(Commands)
      /\ c \notin HandedTo(Now) => ~IsAsked(Now, c, r)
      /\ r' = IF c \in HandedTo(Now) THEN [r EXCEPT ![c] = HandedOver(c)] ELSE r
      /\ step' = step + 1
      /\ UNCHANGED <<stage, ground, news, part, handed, reports, told, lost, primary, status>>

(* The warnings.  The stages of one scanner warn of every command that is  *)
(* missing, timed out or exited with another code than 0, but for the      *)
(* probes of PATH; a result without an exit code is none of these.  Most   *)
(* of them warn when they have found nothing; of the scanners in groups    *)
(* only a few ever warn.                                                   *)
Unwarned == {"stat_1", "ls_1", "stat_2", "ls_2"}
WarnsIfEmpty ==
  DOMAIN InventoryScanners \union {"privilege_escalation", "ssh", "cron", "systemd", "environment", "secrets"}

\* mutant: a command that timed out gives no warning
QuietTimeouts(res) ==
  \E c \in DOMAIN res \ Unwarned : res[c].fate \in {"missing", "failed"}
CommandWarned(res) ==
  \E c \in DOMAIN res \ Unwarned : res[c].fate \in Marked \union {"failed"}

NothingFound(s, res) ==
  /\ s \in WarnsIfEmpty
  /\ RecordsOf(s, res) = {}
  /\ s = "ssh"  => ~Says(res, "auth_root", "key")
  /\ s = "cron" => res["ls_cron_d"].text = {} /\ res["ls_cron_daily"].text = {}

Warned(s, res) ==
  IF s \in DOMAIN InventoryScanners \union DOMAIN ExposureScanners
  THEN \/ CommandWarned(res)
       \/ NothingFound(s, res)
       \/ s = "docker" /\ ~Says(res, "which_docker", "path")
  ELSE CASE s = "credentials"   -> res["find"].fate \in Marked \/ CredentialsFindings(res) = {}
         [] s = "polkit"        -> \E d \in {"ls_share", "ls_etc"} : res[d].fate = "missing"
         [] s = "secure_boot"   -> SecureBootWarns(res)
         [] s = "kernel_crypto" -> KernelCryptoWarns(res)
         [] s = "browsers"      -> BrowsersWarns(res)
         [] OTHER               -> FALSE

(* A CommandResult is never false, so "a or b or c" is always a.  Two      *)
(* scanners take their first success.                                      *)
FirstSuccess(s, res) ==
  LET asks == ScannerOf(s).asks
      good == {i \in 1..Len(asks) : Succeeded(res, asks[i])}
  IN  IF good = {} THEN NoResult
      ELSE res[asks[CHOOSE i \in good : \A j \in good : i <= j]]

PrimaryOf(s, res) ==
  CASE s \in {"pam", "managers"} -> FirstSuccess(s, res)
    [] s = "grub"    -> res[GrubPrimary(res)]
    [] s = "desktop" -> res["find_lightdm"]
    [] s = "docker"  -> res["docker_ps"]
    [] s = "secrets" -> res["find_pem"]
    [] OTHER         -> res[ScannerOf(s).asks[1]]

\* mutant: a command that failed counts as one that is not installed
BlamesFailure(result, found) ==
  IF result.fate \in {"missing", "failed"} THEN "missing_dependency"
  ELSE IF found THEN "success"
  ELSE IF result.fate = "timeout" THEN "timeout" ELSE "empty"

(* determine_stage_status, from the primary result and the records.        *)
DetermineStatus(result, found) ==
  CASE result.fate = "missing"                -> "missing_dependency"
    [] result.fate = "timeout" /\ found       -> "success"
    [] result.fate = "timeout" /\ ~found      -> "timeout"
    [] result.fate \notin Marked /\ found     -> "success"
    [] result.fate = "ok" /\ ~found           -> "empty"
    [] result.fate \notin Marked \union {"ok"} /\ ~found -> "failed"

(* The scanner judges what it read; the last one of a stage is followed by *)
(* the stage's record.                                                     *)
Assess ==
  LET counts == IF RecordsOf(Now, r) # {} THEN {Now} ELSE {}
      first  == IF part = 1 THEN PrimaryOf(Now, r) ELSE primary
      more   == part < Len(Parts(stage))
  IN  /\ AllAsked
      /\ Now = "pam" => ~PamRaises(r)
      /\ reports' = reports \union counts
      /\ told' = (told \/ Warned(Now, r))
      /\ primary' = first
      /\ handed' = IF Now = "managers" THEN [m \in {"dpkg", "pip"} |-> r[m]] ELSE handed
      /\ IF more
         THEN /\ part' = part + 1
              /\ step' = 1
              /\ r' = NoAnswers(Parts(stage)[part + 1])
              /\ UNCHANGED status
         ELSE /\ status' = DetermineStatus(first, reports \union counts # {})
              /\ UNCHANGED <<part, step, r>>
      /\ UNCHANGED <<stage, ground, news, lost>>

(* A scanner that raises takes its whole stage with it: the scanners after *)
(* it never run, and what the ones before it found is gone.                *)
Raise ==
  /\ AllAsked
  /\ Now = "pam"
  /\ PamRaises(r)
  /\ status' = "failed"
  /\ reports' = {}
  /\ told' = TRUE
  /\ primary' = NoResult
  /\ UNCHANGED <<stage, ground, news, part, step, r, handed, lost>>

Next == Ask \/ Skip \/ Assess \/ Raise

Spec == Init /\ [][Next]_vars /\ WF_vars(Next)
-----------------------------------------------------------------------------
(* Only the commands before the next one have been asked, and every text   *)
(* is one its command may print.                                           *)
HostTypeOK ==
  /\ stage \in Stages
  /\ ground \in Grounds
  /\ news \in 0..NewsBound
  /\ part \in 1..Len(Parts(stage))
  /\ step \in 1..Len(Commands) + 1
  /\ \A i \in 1..Len(Commands) :
       \/ r[Commands[i]] = Unasked
       \/ /\ i < step
          /\ r[Commands[i]].fate \in Fates
          /\ r[Commands[i]].text = {} \/ r[Commands[i]].text \in ScannerOf(Now).says[Commands[i]]
  /\ reports \subseteq {Parts(stage)[i] : i \in 1..part}
  /\ told \in BOOLEAN
  /\ lost \subseteq Lost
  /\ status \in {"running", "success", "empty", "failed", "timeout", "missing_dependency"}

(* What the scanners conclude from silence: most of it says that something *)
(* is absent or not configured.                                            *)
BlindAlarms(s) ==
  CASE s = "encryption"    -> {"no_luks", "plain_swap"}
    [] s = "integrity"     -> {"no_fim"}
    [] s = "firewall"      -> {"no_firewall"}
    [] s = "dns"           -> {"no_nameserver"}
    [] s = "password"      -> {<<"no_min_age", u>> : u \in Users}
    [] s = "polkit"        -> {"no_rules"}
    [] s = "grub"          -> {"grub_not_found", "no_password"}
    [] s = "secure_boot"   -> {"secure_boot_off"}
    [] s = "runtimes"      -> {"no_userns"}
    [] s = "namespaces"    -> {"no_lsm", "no_seccomp"}
    [] s = "kernel_crypto" -> {"no_fips"}
    [] s = "auditing"      -> {"no_auditd", "no_execve"}
    [] s = "syslog"        -> {"no_forwarding", "no_compression"}
    [] s = "time_sync"     -> {"no_time_sync"}
    [] s = "agents"        -> {"no_fail2ban", "no_hids"}
    [] s = "desktop"       -> {<<"legacy_x11", "-">>}
    [] s = "supply_chain"  -> {"untracked"}
    [] s = "ssh"           -> {"unrestricted"}
    [] OTHER               -> {}

(* A command that did not run to its end is no evidence: had it gone on,   *)
(* whatever it said besides what it had printed already, the scanner would *)
(* have reported all that it reports now.  The exceptions are all in       *)
(* BlindAlarms.                                                            *)
NoAlarmFromSilence ==
  AllAsked => \A c \in {k \in DOMAIN r : r[k].fate \in Lost} :
    \A t \in {u \in ScannerOf(Now).says[c] : r[c].text \subseteq u} :
      FindingsOf(Now, r) \ FindingsOf(Now, [r EXCEPT ![c] = Result("ok", t)])
        \subseteq BlindAlarms(Now)

(* Commands of which one is enough to fill the records, and the command    *)
(* that is asked in vain (see Processes).                                  *)
Sources(s) ==
  CASE s = "system_info" -> {"hostname", "kernel_version", "architecture", "distribution", "whoami"}
    [] s = "services"    -> {"list_units", "list_files", "service_status"}
    [] s = "users"       -> {"getent_passwd", "cat_passwd"}
    [] s = "network"     -> {"ip_addr", "ifconfig"}
    [] s = "sudo"        -> {"sudo_l", "cat_sudoers", "cat_dropin"}
    [] s = "processes"   -> {"ps_aux"}
    [] s = "logs"        -> {"auth_log", "secure_log", "messages", "syslog"}
    [] OTHER             -> {}

(* A stage with alternative sources has records as soon as one source has  *)
(* any, even when all the others are missing, fail or time out.            *)
FallbackServes ==
  AllAsked => \A c \in Sources(Now) :
    (/\ Succeeded(r, c)
     /\ r[c].text \ {"chatter"} # {}
     /\ \A d \in Sources(Now) \ {c} : ~Succeeded(r, d))
      => RecordsOf(Now, r) # {}

(* A stage of one scanner does not end without a warning when a command of *)
(* it was missing or timed out; the groups, and the probes of PATH, keep   *)
(* quiet, and nothing is promised of a command that was lost for lack of   *)
(* an exit code.  And a stage recorded as missing its program, or as timed *)
(* out, did lose a command that way, whichever of its results stands for   *)
(* it.                                                                     *)
LossIsTold ==
  /\ status # "running" /\ lost \intersect Marked # {}
       => told \/ stage \in DOMAIN Groups \union {"environment"}
  /\ status = "missing_dependency" => "missing" \in lost
  /\ status = "timeout" => "timeout" \in lost

=============================================================================

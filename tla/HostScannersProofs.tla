------------------------- MODULE HostScannersProofs -------------------------
(***************************************************************************)
(* Theorems on HostScanners, for every set of stages, every behaviour of   *)
(* the host and every number of unusual answers.                           *)
(*                                                                         *)
(* The first half is about the scanners alone: what a scanner concludes    *)
(* when a lost command is asked again, and that its commands are listed    *)
(* once each.  The second half is about a stage at work.                   *)
(***************************************************************************)
EXTENDS HostScanners, TLAPS

(* Every scanner has a name of its own.                                    *)
Named ==
  UNION {DOMAIN StorageScanners, DOMAIN NetworkScanners, DOMAIN AuthScanners,
         DOMAIN BootScanners, DOMAIN ContainerScanners, DOMAIN CryptoScanners,
         DOMAIN MonitoringScanners, DOMAIN GuiScanners, DOMAIN PackagesScanners,
         DOMAIN InventoryScanners, DOMAIN ExposureScanners}

(* What is now known of a command besides what was known: nothing, or what *)
(* it answers although it was lost before; if its text had been read so    *)
(* far, what more it says.                                                 *)
Informs(was, is)   == is = was \/ (was.fate \in Lost /\ was.text = {})
Continues(was, is) == is = was \/ (was.fate \in Lost /\ was.text \subseteq is.text)

(* The results after differ from those before only where a command that    *)
(* can be lost was lost.                                                   *)
Informed(scanner, before, after) ==
  \A c \in DOMAIN scanner.says :
    IF c \in scanner.partial THEN Continues(before[c], after[c])
    ELSE IF c \in scanner.certain THEN after[c] = before[c]
    ELSE Informs(before[c], after[c])

(* Every text is one that its command may print.                           *)
Heard(scanner, res) ==
  \A c \in DOMAIN scanner.says : res[c].text \in scanner.says[c] \union {{}}

LEMMA SameMode ==
  ASSUME NEW before, NEW after, NEW c, Informs(before[c], after[c]), Succeeded(before, c)
  PROVE  /\ Succeeded(after, c)
         /\ ModeOf(after, c) = ModeOf(before, c)
<1>1. before[c] = after[c]
  BY DEF Informs, Succeeded, Lost, Marked
<1> QED
  BY <1>1 DEF ModeOf, Succeeded

LEMMA ModeStays ==
  ASSUME NEW before, NEW after, NEW c, NEW limit, Informs(before[c], after[c]),
         ModeAbove(before, c, limit)
  PROVE  ModeAbove(after, c, limit)
BY SameMode DEF ModeAbove

-----------------------------------------------------------------------------
(* What each scanner concludes from silence.                               *)
(* The scanners of storage_security.                                       *)
LEMMA StorageSilence ==
  ASSUME NEW before, NEW after
  PROVE  \A s \in DOMAIN StorageScanners :
           Informed(StorageScanners[s], before, after)
             => StorageFindings(s, before) \ StorageFindings(s, after) \subseteq BlindAlarms(s)
<1>1. ASSUME Informed(Permissions, before, after)
      PROVE  PermissionsFindings(before) \subseteq PermissionsFindings(after)
  <2>1. \A limit : \A c \in DOMAIN Permissions.says :
          ModeAbove(before, c, limit) => ModeAbove(after, c, limit)
    BY <1>1, ModeStays DEF Informed, Permissions, Scanner
  <2> QED
    BY <1>1, <2>1, SMT DEF Informed, Informs, Continues, Lost, Marked, Permissions, Scanner, PermissionsFindings,
       Raised, Says
<1>2. ASSUME Informed(Mounts, before, after)
      PROVE  MountsFindings(before) \subseteq MountsFindings(after)
  BY <1>2, SMT DEF Informed, Informs, Continues, Lost, Marked, Mounts, MountsFindings, Scanner, Raised, Says
<1>3. ASSUME Informed(Encryption, before, after)
      PROVE  EncryptionFindings(before) \ EncryptionFindings(after)
               \subseteq {"no_luks", "plain_swap"}
  BY <1>3, SMT DEF Informed, Informs, Continues, Lost, Marked, Encryption, EncryptionFindings, Scanner, Raised,
     Says
<1>4. ASSUME Informed(Integrity, before, after)
      PROVE  IntegrityFindings(before) \ IntegrityFindings(after)
               \subseteq {"no_fim"}
  BY <1>4, SMT DEF Informed, Informs, Continues, Lost, Marked, Integrity, IntegrityFindings, Scanner, Raised,
     Succeeded, Says
<1> QED
  BY <1>1, <1>2, <1>3, <1>4 DEF StorageScanners, StorageFindings, BlindAlarms

(* The scanners of network_security.                                       *)
LEMMA NetworkSilence ==
  ASSUME NEW before, NEW after
  PROVE  \A s \in DOMAIN NetworkScanners :
           Informed(NetworkScanners[s], before, after)
             => NetworkFindings(s, before) \ NetworkFindings(s, after) \subseteq BlindAlarms(s)
<1>1. ASSUME Informed(Firewall, before, after)
      PROVE  FirewallFindings(before) \ FirewallFindings(after)
               \subseteq {"no_firewall"}
  BY <1>1, SMT DEF Informed, Informs, Continues, Lost, Marked, Firewall, FirewallFindings, Scanner, Says
<1>2. ASSUME Informed(Routing, before, after)
      PROVE  RoutingFindings(before) \subseteq RoutingFindings(after)
  BY <1>2, SMT DEF Informed, Informs, Continues, Lost, Marked, Routing, RoutingFindings, Scanner, SysctlKeys
<1>3. ASSUME Informed(Dns, before, after)
      PROVE  DnsFindings(before) \ DnsFindings(after)
               \subseteq {"no_nameserver"}
  BY <1>3, SMT DEF Informed, Informs, Continues, Lost, Marked, Dns, DnsFindings, Scanner, Says, Raised
<1>4. ASSUME Informed(Listening, before, after)
      PROVE  ListeningFindings(before) \subseteq ListeningFindings(after)
  BY <1>4, SMT DEF Informed, Informs, Continues, Lost, Marked, Listening, ListeningFindings, Scanner, IsWildcard,
     RemoteSeverity
<1> QED
  BY <1>1, <1>2, <1>3, <1>4 DEF NetworkScanners, NetworkFindings, BlindAlarms

(* The scanners of auth_security.                                          *)
LEMMA AuthSilence ==
  ASSUME NEW before, NEW after
  PROVE  \A s \in DOMAIN AuthScanners :
           Heard(AuthScanners[s], before) /\ Informed(AuthScanners[s], before, after)
             => AuthFindings(s, before) \ AuthFindings(s, after) \subseteq BlindAlarms(s)
<1>1. ASSUME Informed(Pam, before, after)
      PROVE  PamFindings(before) \subseteq PamFindings(after)
  BY <1>1, SMT DEF Informed, Informs, Continues, Lost, Marked, Pam, PamFindings, Scanner, PamFiles, PamModules,
     PamLimits, PamFilesRead, Raised, Succeeded
<1>2. ASSUME Heard(Password, before), Informed(Password, before, after)
      PROVE  PasswordFindings(before) \ PasswordFindings(after)
               \subseteq {<<"no_min_age", u>> : u \in Users}
  <2>0. \A c \in {"passwd", "shadow", "stat_passwd", "stat_shadow"} : Informs(before[c], after[c])
    BY <1>2 DEF Informed, Password, Scanner
  <2>1. \A c \in {"stat_passwd", "stat_shadow"} :
          Succeeded(before, c) => Succeeded(after, c) /\ ModeOf(after, c) = ModeOf(before, c)
    BY <2>0, SameMode
  <2>2. before["passwd"].text \subseteq Users
    BY <1>2 DEF Heard, Password, Scanner
  <2>3. /\ before["passwd"].text \subseteq after["passwd"].text
        /\ before["shadow"].text \subseteq after["shadow"].text
    BY <2>0 DEF Informs
  <2> DEFINE known(res) == PasswordEntries(res) \intersect res["shadow"].text
             of(res, what, how) == {<<what, e[1]>> : e \in {k \in known(res) : k[2] = how}}
             wrong(res, c, modes) == Succeeded(res, c) /\ ModeOf(res, c) \notin modes
             files(res) ==
               Raised(<<"passwd_mode", "-">>, wrong(res, "stat_passwd", {<<6, 4, 4>>, <<4, 4, 4>>}))
                 \union Raised(<<"shadow_mode", "-">>,
                   wrong(res, "stat_shadow", {<<0, 0, 0>>, <<4, 0, 0>>, <<6, 0, 0>>, <<6, 4, 0>>}))
             hashes(res) ==
               UNION {of(res, "empty_password", "empty_hash"), of(res, "weak_hash", "weak_hash"),
                      of(res, "max_age", "max_age_over_90")}
             ages(res) == {<<"no_min_age", u>> :
                             u \in {v \in res["passwd"].text : <<v, "min_age">> \notin known(res)}}
  <2>4. \A res : PasswordFindings(res) = UNION {files(res), hashes(res), ages(res)}
    BY DEF PasswordFindings
  <2>5. files(before) \subseteq files(after)
    BY <2>1, SMT DEF Raised
  <2>6. hashes(before) \subseteq hashes(after)
    BY <2>3 DEF PasswordEntries
  <2>7. ages(before) \subseteq {<<"no_min_age", u>> : u \in Users}
    BY <2>2
  <2> QED
    <3> HIDE DEF files, hashes, ages
    <3> QED
    BY <2>4, <2>5, <2>6, <2>7
<1>3. ASSUME Informed(Credentials, before, after)
      PROVE  CredentialsFindings(before) \subseteq CredentialsFindings(after)
  BY <1>3, SMT DEF Informed, Informs, Continues, Lost, Marked, Credentials, CredentialsFindings, Scanner
<1>4. ASSUME Informed(Sessions, before, after)
      PROVE  SessionsFindings(before) \subseteq SessionsFindings(after)
  BY <1>4, SMT DEF Informed, Informs, Continues, Lost, Marked, Sessions, SessionsFindings, Scanner, Raised, Says
<1>5. ASSUME Informed(Polkit, before, after)
      PROVE  PolkitFindings(before) \ PolkitFindings(after)
               \subseteq {"no_rules"}
  BY <1>5, SMT DEF Informed, Informs, Continues, Lost, Marked, Polkit, PolkitFindings, Scanner, Says, Raised
<1>6. ASSUME Informed(PrivescEnhanced, before, after)
      PROVE  PrivescEnhancedFindings(before) \subseteq PrivescEnhancedFindings(after)
  <2>1. Succeeded(before, "stat_dir")
          => Succeeded(after, "stat_dir") /\ ModeOf(after, "stat_dir") = ModeOf(before, "stat_dir")
    BY <1>6, SameMode DEF Informed, PrivescEnhanced, Scanner
  <2>2. SearchPathFindings(before) \subseteq SearchPathFindings(after)
    BY <1>6, <2>1, SMT
       DEF Informed, Informs, PrivescEnhanced, Scanner, SearchPathFindings, Raised, Says, Lost
  <2>3. BinaryFindings(before) \subseteq BinaryFindings(after)
    BY <1>6, <2>1, SMT
       DEF Informed, Informs, PrivescEnhanced, Scanner, BinaryFindings, Raised, Says, Lost
  <2> QED
    BY <2>2, <2>3 DEF PrivescEnhancedFindings
<1> QED
  BY <1>1, <1>2, <1>3, <1>4, <1>5, <1>6 DEF AuthScanners, AuthFindings, BlindAlarms

(* The scanners of boot_security.                                          *)
LEMMA BootSilence ==
  ASSUME NEW before, NEW after
  PROVE  \A s \in DOMAIN BootScanners :
           Informed(BootScanners[s], before, after)
             => BootFindings(s, before) \ BootFindings(s, after) \subseteq BlindAlarms(s)
<1>1. ASSUME Informed(Grub, before, after)
      PROVE  GrubFindings(before) \ GrubFindings(after)
               \subseteq {"grub_not_found", "no_password"}
  <2>1. \A c \in {"stat_grub", "stat_grub2"} :
          ModeAbove(before, c, 600) => ModeAbove(after, c, 600)
    BY <1>1, ModeStays DEF Informed, Grub, Scanner
  <2> QED
    BY <1>1, <2>1, SMT DEF Informed, Informs, Continues, Lost, Marked, Grub, Scanner, GrubFindings, GrubFound,
       Raised, Says, Succeeded
<1>2. ASSUME Informed(SecureBoot, before, after)
      PROVE  SecureBootFindings(before) \ SecureBootFindings(after)
               \subseteq {"secure_boot_off"}
  BY <1>2, SMT DEF Informed, Informs, Continues, Lost, Marked, SecureBoot, SecureBootFindings, Scanner, Succeeded,
     Says, Raised
<1>3. ASSUME Informed(KernelParams, before, after)
      PROVE  KernelParamsFindings(before) \subseteq KernelParamsFindings(after)
  BY <1>3, SMT DEF Informed, Informs, Continues, Lost, Marked, KernelParams, KernelParamsFindings, Scanner
<1>4. ASSUME Informed(BootFiles, before, after)
      PROVE  BootFilesFindings(before) \subseteq BootFilesFindings(after)
  <2>1. ModeAbove(before, "stat_initrd", 600) => ModeAbove(after, "stat_initrd", 600)
    BY <1>4, ModeStays DEF Informed, BootFiles, Scanner
  <2> QED
    BY <1>4, <2>1, SMT DEF Informed, Informs, Continues, Lost, Marked, BootFiles, Scanner, BootFilesFindings,
       Raised, Says
<1> QED
  BY <1>1, <1>2, <1>3, <1>4 DEF BootScanners, BootFindings, BlindAlarms

(* The scanners of container_security.                                     *)
LEMMA ContainerSilence ==
  ASSUME NEW before, NEW after
  PROVE  \A s \in DOMAIN ContainerScanners :
           Informed(ContainerScanners[s], before, after)
             => ContainerFindings(s, before) \ ContainerFindings(s, after) \subseteq BlindAlarms(s)
<1>1. ASSUME Informed(Runtimes, before, after)
      PROVE  RuntimesFindings(before) \ RuntimesFindings(after)
               \subseteq {"no_userns"}
  BY <1>1, SMT DEF Informed, Informs, Continues, Lost, Marked, Runtimes, RuntimesFindings, Scanner, Raised,
     Succeeded, Says
<1>2. ASSUME Informed(Namespaces, before, after)
      PROVE  NamespacesFindings(before) \ NamespacesFindings(after)
               \subseteq {"no_lsm", "no_seccomp"}
  BY <1>2, SMT DEF Informed, Informs, Continues, Lost, Marked, Namespaces, NamespacesFindings, Scanner, Raised,
     Says, Succeeded
<1>3. ASSUME Informed(Virtualization, before, after)
      PROVE  VirtualizationFindings(before) \subseteq VirtualizationFindings(after)
  BY <1>3, SMT DEF Informed, Informs, Continues, Lost, Marked, Virtualization, VirtualizationFindings, Scanner,
     Raised
<1> QED
  BY <1>1, <1>2, <1>3 DEF ContainerScanners, ContainerFindings, BlindAlarms

(* The scanners of crypto_security.                                        *)
LEMMA CryptoSilence ==
  ASSUME NEW before, NEW after
  PROVE  \A s \in DOMAIN CryptoScanners :
           Informed(CryptoScanners[s], before, after)
             => CryptoFindings(s, before) \ CryptoFindings(s, after) \subseteq BlindAlarms(s)
<1>1. ASSUME Informed(SslCerts, before, after)
      PROVE  SslCertsFindings(before) \subseteq SslCertsFindings(after)
  <2>1. ModeAbove(before, "stat_key", 640) => ModeAbove(after, "stat_key", 640)
    BY <1>1, ModeStays DEF Informed, SslCerts, Scanner
  <2> QED
    BY <1>1, <2>1, SMT DEF Informed, Informs, Continues, Lost, Marked, SslCerts, Scanner, SslCertsFindings,
       Raised
<1>2. ASSUME Informed(SshCiphers, before, after)
      PROVE  SshCiphersFindings(before) \subseteq SshCiphersFindings(after)
  BY <1>2, SMT DEF Informed, Informs, Continues, Lost, Marked, SshCiphers, SshCiphersFindings, Scanner, Raised,
     Says
<1>3. ASSUME Informed(KernelCrypto, before, after)
      PROVE  KernelCryptoFindings(before) \ KernelCryptoFindings(after)
               \subseteq {"no_fips"}
  BY <1>3, SMT DEF Informed, Informs, Continues, Lost, Marked, KernelCrypto, KernelCryptoFindings, Scanner, Raised,
     Says
<1> QED
  BY <1>1, <1>2, <1>3 DEF CryptoScanners, CryptoFindings, BlindAlarms

(* The scanners of monitoring_security.                                    *)
LEMMA MonitoringSilence ==
  ASSUME NEW before, NEW after
  PROVE  \A s \in DOMAIN MonitoringScanners :
           Informed(MonitoringScanners[s], before, after)
             => MonitoringFindings(s, before) \ MonitoringFindings(s, after) \subseteq BlindAlarms(s)
<1>1. ASSUME Informed(Auditing, before, after)
      PROVE  AuditingFindings(before) \ AuditingFindings(after)
               \subseteq {"no_auditd", "no_execve"}
  BY <1>1, SMT DEF Informed, Informs, Continues, Lost, Marked, Auditing, AuditingFindings, Scanner, Raised,
     Succeeded, Says
<1>2. ASSUME Informed(Syslog, before, after)
      PROVE  SyslogFindings(before) \ SyslogFindings(after)
               \subseteq {"no_forwarding", "no_compression"}
  BY <1>2, SMT DEF Informed, Informs, Continues, Lost, Marked, Syslog, SyslogFindings, Scanner, Raised, Says
<1>3. ASSUME Informed(TimeSync, before, after)
      PROVE  TimeSyncFindings(before) \ TimeSyncFindings(after)
               \subseteq {"no_time_sync"}
  BY <1>3, SMT DEF Informed, Informs, Continues, Lost, Marked, TimeSync, TimeSyncFindings, Scanner, Raised
<1>4. ASSUME Informed(Agents, before, after)
      PROVE  AgentsFindings(before) \ AgentsFindings(after)
               \subseteq {"no_fail2ban", "no_hids"}
  BY <1>4, SMT DEF Informed, Informs, Continues, Lost, Marked, Agents, AgentsFindings, Scanner, Raised, Succeeded
<1> QED
  BY <1>1, <1>2, <1>3, <1>4 DEF MonitoringScanners, MonitoringFindings, BlindAlarms

(* The scanners of gui_security.                                           *)
LEMMA GuiSilence ==
  ASSUME NEW before, NEW after
  PROVE  \A s \in DOMAIN GuiScanners :
           Informed(GuiScanners[s], before, after)
             => GuiFindings(s, before) \ GuiFindings(s, after) \subseteq BlindAlarms(s)
<1>1. ASSUME Informed(DesktopScanner, before, after)
      PROVE  DesktopFindings(before) \ DesktopFindings(after)
               \subseteq {<<"legacy_x11", "-">>}
  BY <1>1, SMT DEF Informed, Informs, Continues, Lost, Marked, DesktopScanner, DesktopFindings, Scanner, Says,
     Raised, Succeeded
<1>2. ASSUME Informed(RemoteDesktop, before, after)
      PROVE  RemoteDesktopFindings(before) \subseteq RemoteDesktopFindings(after)
  BY <1>2, SMT DEF Informed, Informs, Continues, Lost, Marked, RemoteDesktop, RemoteDesktopFindings, Scanner,
     Raised, Succeeded, Says
<1>3. ASSUME Informed(Browsers, before, after)
      PROVE  BrowsersFindings(before) \subseteq BrowsersFindings(after)
  BY <1>3, SMT DEF Informed, Informs, Continues, Lost, Marked, Browsers, BrowsersFindings, Scanner, Raised, Says
<1>4. ASSUME Informed(GuiPolkit, before, after)
      PROVE  GuiPolkitFindings(before) \subseteq GuiPolkitFindings(after)
  BY <1>4, SMT DEF Informed, Informs, Continues, Lost, Marked, GuiPolkit, GuiPolkitFindings, Scanner, Raised, Says
<1> QED
  BY <1>1, <1>2, <1>3, <1>4 DEF GuiScanners, GuiFindings, BlindAlarms

(* The scanners of packages_security.                                      *)
LEMMA PackagesSilence ==
  ASSUME NEW before, NEW after
  PROVE  \A s \in DOMAIN PackagesScanners :
           Informed(PackagesScanners[s], before, after)
             => PackagesFindings(s, before) \ PackagesFindings(s, after) \subseteq BlindAlarms(s)
<1>1. ASSUME Informed(PackageManagers, before, after)
      PROVE  PackageManagersFindings(before) \subseteq PackageManagersFindings(after)
  BY <1>1, SMT DEF Informed, Informs, Continues, Lost, Marked, PackageManagers, PackageManagersFindings, Scanner,
     Managers, ActiveManagers, Succeeded
<1>2. ASSUME Informed(Repositories, before, after)
      PROVE  RepositoriesFindings(before) \subseteq RepositoriesFindings(after)
  BY <1>2, SMT DEF Informed, Informs, Continues, Lost, Marked, Repositories, RepositoriesFindings, Scanner, Raised,
     Says
<1>3. ASSUME Informed(PackageIntegrity, before, after)
      PROVE  PackageIntegrityFindings(before) \subseteq PackageIntegrityFindings(after)
  BY <1>3, SMT DEF Informed, Informs, Continues, Lost, Marked, PackageIntegrity, PackageIntegrityFindings, Scanner,
     Raised, Says
<1>4. ASSUME Informed(SupplyChain, before, after)
      PROVE  SupplyChainFindings(before) \ SupplyChainFindings(after)
               \subseteq {"untracked"}
  BY <1>4, SMT DEF Informed, Informs, Continues, Lost, Marked, SupplyChain, SupplyChainFindings, Scanner, Raised,
     Says, Succeeded
<1>5. ASSUME Informed(Inventory, before, after)
      PROVE  InventoryFindings(before) \subseteq InventoryFindings(after)
  BY <1>5, SMT DEF Informed, Informs, Continues, Lost, Marked, Inventory, InventoryFindings, Scanner, Raised, Says
<1> QED
  BY <1>1, <1>2, <1>3, <1>4, <1>5 DEF PackagesScanners, PackagesFindings, BlindAlarms

(* The scanners of the stages that take an inventory, three of which judge what they read. *)
LEMMA InventorySilence ==
  ASSUME NEW before, NEW after
  PROVE  \A s \in DOMAIN InventoryScanners :
           Informed(InventoryScanners[s], before, after)
             => StageFindings(s, before) \ StageFindings(s, after) \subseteq BlindAlarms(s)
<1>1. ASSUME Informed(Processes, before, after)
      PROVE  ProcessesFindings(before) \subseteq ProcessesFindings(after)
  BY <1>1, SMT DEF Informed, Informs, Continues, Lost, Marked, Processes, ProcessesFindings, Scanner
<1>2. ASSUME Informed(PackagesStage, before, after)
      PROVE  PackagesStageFindings(before) \subseteq PackagesStageFindings(after)
  BY <1>2, SMT DEF Informed, Informs, Continues, Lost, Marked, PackagesStage, PackagesStageFindings, Scanner,
     Raised, Says
<1>3. ASSUME Informed(Logs, before, after)
      PROVE  LogsFindings(before) \subseteq LogsFindings(after)
  BY <1>3, SMT DEF Informed, Informs, Continues, Lost, Marked, Logs, LogsFindings, Scanner, LogsRecords
<1> QED
  BY <1>1, <1>2, <1>3 DEF InventoryScanners, StageFindings, BlindAlarms

(* The scanners of the stages in HostExposure and HostKernel.              *)
LEMMA ExposureSilence ==
  ASSUME NEW before, NEW after
  PROVE  \A s \in DOMAIN ExposureScanners :
           Informed(ExposureScanners[s], before, after)
             => Exposed(s, before) \ Exposed(s, after) \subseteq BlindAlarms(s)
<1>1. ASSUME Informed(PrivilegeEscalation, before, after)
      PROVE  PrivilegeEscalationFindings(before) \subseteq PrivilegeEscalationFindings(after)
  BY <1>1, SMT DEF Informed, Informs, Continues, Lost, Marked, PrivilegeEscalation, PrivilegeEscalationFindings,
     Scanner, BinariesToRoot, SudoToRoot, UnitsToRoot, JobsToRoot, Raised, Says, WritableEntry
<1>2. ASSUME Informed(Ssh, before, after)
      PROVE  SshFindings(before) \ SshFindings(after)
               \subseteq {"unrestricted"}
  BY <1>2, SMT DEF Informed, Informs, Continues, Lost, Marked, Ssh, SshFindings, Scanner, SshLoginSettings,
     SshLimitSettings, Raised, Says
<1>3. ASSUME Informed(Cron, before, after)
      PROVE  CronFindings(before) \subseteq CronFindings(after)
  BY <1>3, SMT DEF Informed, Informs, Continues, Lost, Marked, Cron, CronFindings, Scanner, Raised, Says,
     WritableEntry
<1>4. ASSUME Informed(Systemd, before, after)
      PROVE  SystemdFindings(before) \subseteq SystemdFindings(after)
  BY <1>4, SMT DEF Informed, Informs, Continues, Lost, Marked, Systemd, SystemdFindings, Scanner, Raised, Says
<1>5. ASSUME Informed(Docker, before, after)
      PROVE  DockerFindings(before) \subseteq DockerFindings(after)
  BY <1>5, SMT DEF Informed, Informs, Continues, Lost, Marked, Docker, DockerFindings, Scanner, Raised, Says
<1>6. ASSUME Informed(Environment, before, after)
      PROVE  EnvironmentFindings(before) \subseteq EnvironmentFindings(after)
  BY <1>6, SMT DEF Informed, Informs, Continues, Lost, Marked, Environment, EnvironmentFindings, Scanner,
     EnvironmentRecords, Raised, Says
<1>7. ASSUME Informed(Secrets, before, after)
      PROVE  SecretsFindings(before) \subseteq SecretsFindings(after)
  BY <1>7, SMT DEF Informed, Informs, Continues, Lost, Marked, Secrets, SecretsFindings, Scanner, SecretCommands,
     SecretsRecords
<1>8. ASSUME Informed(Kernel, before, after)
      PROVE  KernelFindings(before) \subseteq KernelFindings(after)
  BY <1>8, SMT DEF Informed, Informs, Continues, Lost, Marked, Kernel, KernelFindings, Scanner, KernelCommands,
     KernelTable, Deviating, Raised, Says, Succeeded
<1>9. ASSUME Informed(KernelHardening, before, after)
      PROVE  HardeningFindings(before) \subseteq HardeningFindings(after)
  <2>1. \A i \in 1..Len(HardeningCommands) :
          Informs(before[HardeningCommands[i]], after[HardeningCommands[i]])
    BY <1>9 DEF Informed, KernelHardening, Scanner
  <2>2. \A c \in {"boot_config", "mokutil", "getenforce", "apparmor_enabled", "lsmod",
                 "spectre_v2", "mds"} \union DOMAIN HardeningTable :
          Informs(before[c], after[c])
    BY <2>1, SMT DEF HardeningCommands, HardeningTable
  <2>3. Deviating(HardeningTable, before) \subseteq Deviating(HardeningTable, after)
    BY <2>2 DEF Deviating, Informs, Lost, Marked, Succeeded
  <2>4. SeccompFindings(before) \subseteq SeccompFindings(after)
    BY <2>2, SMT DEF SeccompFindings, Informs, Lost, Marked, Raised, Succeeded
  <2>5. AccessControlFindings(before) \subseteq AccessControlFindings(after)
    BY <2>2, SMT DEF AccessControlFindings, Informs, Lost, Marked, Raised, Succeeded, Says
  <2>6. UnprivilegedFindings(before) \subseteq UnprivilegedFindings(after)
    BY <2>2, SMT DEF UnprivilegedFindings, Informs, Lost, Marked, Raised, Succeeded, Says, HardeningTable
  <2>7. MitigationFindings(before) \subseteq MitigationFindings(after)
    BY <2>2, SMT DEF MitigationFindings, Mitigations, Informs, Lost, Marked, Raised, Succeeded, Says
  <2> QED
    BY <2>2, <2>3, <2>4, <2>5, <2>6, <2>7, SMT DEF HardeningFindings, Informs, Lost, Marked, Raised, Says
<1> QED
  <2>1. \A s \in DOMAIN ExposureScanners :
          s # "ssh" /\ Informed(ExposureScanners[s], before, after)
            => Exposed(s, before) \subseteq Exposed(s, after)
    BY <1>1, <1>3, <1>4, <1>5, <1>6, <1>7, <1>8, <1>9 DEF ExposureScanners, Exposed
  <2>2. Exposed("ssh", before) = SshFindings(before) /\ Exposed("ssh", after) = SshFindings(after)
    BY DEF Exposed
  <2>3. BlindAlarms("ssh") = {"unrestricted"}
    BY DEF BlindAlarms
  <2> QED
    BY <1>2, <2>1, <2>2, <2>3 DEF ExposureScanners

(* The name decides which scanner, and whose findings.                     *)
LEMMA NamedScanner ==
  /\ \A s \in DOMAIN StorageScanners :
       /\ ScannerOf(s) = StorageScanners[s]
       /\ \A res : FindingsOf(s, res) = StorageFindings(s, res)
  /\ \A s \in DOMAIN NetworkScanners :
       /\ ScannerOf(s) = NetworkScanners[s]
       /\ \A res : FindingsOf(s, res) = NetworkFindings(s, res)
  /\ \A s \in DOMAIN AuthScanners :
       /\ ScannerOf(s) = AuthScanners[s]
       /\ \A res : FindingsOf(s, res) = AuthFindings(s, res)
  /\ \A s \in DOMAIN BootScanners :
       /\ ScannerOf(s) = BootScanners[s]
       /\ \A res : FindingsOf(s, res) = BootFindings(s, res)
  /\ \A s \in DOMAIN ContainerScanners :
       /\ ScannerOf(s) = ContainerScanners[s]
       /\ \A res : FindingsOf(s, res) = ContainerFindings(s, res)
  /\ \A s \in DOMAIN CryptoScanners :
       /\ ScannerOf(s) = CryptoScanners[s]
       /\ \A res : FindingsOf(s, res) = CryptoFindings(s, res)
  /\ \A s \in DOMAIN MonitoringScanners :
       /\ ScannerOf(s) = MonitoringScanners[s]
       /\ \A res : FindingsOf(s, res) = MonitoringFindings(s, res)
  /\ \A s \in DOMAIN GuiScanners :
       /\ ScannerOf(s) = GuiScanners[s]
       /\ \A res : FindingsOf(s, res) = GuiFindings(s, res)
  /\ \A s \in DOMAIN PackagesScanners :
       /\ ScannerOf(s) = PackagesScanners[s]
       /\ \A res : FindingsOf(s, res) = PackagesFindings(s, res)
  /\ \A s \in DOMAIN InventoryScanners :
       /\ ScannerOf(s) = InventoryScanners[s]
       /\ \A res : FindingsOf(s, res) = StageFindings(s, res)
  /\ \A s \in DOMAIN ExposureScanners :
       /\ ScannerOf(s) = ExposureScanners[s]
       /\ \A res : FindingsOf(s, res) = Exposed(s, res)
<1>1. \A s \in DOMAIN StorageScanners :
       /\ ScannerOf(s) = StorageScanners[s]
       /\ \A res : FindingsOf(s, res) = StorageFindings(s, res)
  BY DEF ScannerOf, FindingsOf, StorageScanners, NetworkScanners, AuthScanners, BootScanners,
         ContainerScanners, CryptoScanners, MonitoringScanners, GuiScanners, PackagesScanners,
         InventoryScanners, ExposureScanners
<1>2. \A s \in DOMAIN NetworkScanners :
       /\ ScannerOf(s) = NetworkScanners[s]
       /\ \A res : FindingsOf(s, res) = NetworkFindings(s, res)
  BY DEF ScannerOf, FindingsOf, StorageScanners, NetworkScanners, AuthScanners, BootScanners,
         ContainerScanners, CryptoScanners, MonitoringScanners, GuiScanners, PackagesScanners,
         InventoryScanners, ExposureScanners
<1>3. \A s \in DOMAIN AuthScanners :
       /\ ScannerOf(s) = AuthScanners[s]
       /\ \A res : FindingsOf(s, res) = AuthFindings(s, res)
  BY DEF ScannerOf, FindingsOf, StorageScanners, NetworkScanners, AuthScanners, BootScanners,
         ContainerScanners, CryptoScanners, MonitoringScanners, GuiScanners, PackagesScanners,
         InventoryScanners, ExposureScanners
<1>4. \A s \in DOMAIN BootScanners :
       /\ ScannerOf(s) = BootScanners[s]
       /\ \A res : FindingsOf(s, res) = BootFindings(s, res)
  BY DEF ScannerOf, FindingsOf, StorageScanners, NetworkScanners, AuthScanners, BootScanners,
         ContainerScanners, CryptoScanners, MonitoringScanners, GuiScanners, PackagesScanners,
         InventoryScanners, ExposureScanners
<1>5. \A s \in DOMAIN ContainerScanners :
       /\ ScannerOf(s) = ContainerScanners[s]
       /\ \A res : FindingsOf(s, res) = ContainerFindings(s, res)
  BY DEF ScannerOf, FindingsOf, StorageScanners, NetworkScanners, AuthScanners, BootScanners,
         ContainerScanners, CryptoScanners, MonitoringScanners, GuiScanners, PackagesScanners,
         InventoryScanners, ExposureScanners
<1>6. \A s \in DOMAIN CryptoScanners :
       /\ ScannerOf(s) = CryptoScanners[s]
       /\ \A res : FindingsOf(s, res) = CryptoFindings(s, res)
  BY DEF ScannerOf, FindingsOf, StorageScanners, NetworkScanners, AuthScanners, BootScanners,
         ContainerScanners, CryptoScanners, MonitoringScanners, GuiScanners, PackagesScanners,
         InventoryScanners, ExposureScanners
<1>7. \A s \in DOMAIN MonitoringScanners :
       /\ ScannerOf(s) = MonitoringScanners[s]
       /\ \A res : FindingsOf(s, res) = MonitoringFindings(s, res)
  BY DEF ScannerOf, FindingsOf, StorageScanners, NetworkScanners, AuthScanners, BootScanners,
         ContainerScanners, CryptoScanners, MonitoringScanners, GuiScanners, PackagesScanners,
         InventoryScanners, ExposureScanners
<1>8. \A s \in DOMAIN GuiScanners :
       /\ ScannerOf(s) = GuiScanners[s]
       /\ \A res : FindingsOf(s, res) = GuiFindings(s, res)
  BY DEF ScannerOf, FindingsOf, StorageScanners, NetworkScanners, AuthScanners, BootScanners,
         ContainerScanners, CryptoScanners, MonitoringScanners, GuiScanners, PackagesScanners,
         InventoryScanners, ExposureScanners
<1>9. \A s \in DOMAIN PackagesScanners :
       /\ ScannerOf(s) = PackagesScanners[s]
       /\ \A res : FindingsOf(s, res) = PackagesFindings(s, res)
  BY DEF ScannerOf, FindingsOf, StorageScanners, NetworkScanners, AuthScanners, BootScanners,
         ContainerScanners, CryptoScanners, MonitoringScanners, GuiScanners, PackagesScanners,
         InventoryScanners, ExposureScanners
<1>10. \A s \in DOMAIN InventoryScanners :
       /\ ScannerOf(s) = InventoryScanners[s]
       /\ \A res : FindingsOf(s, res) = StageFindings(s, res)
  BY DEF ScannerOf, FindingsOf, StorageScanners, NetworkScanners, AuthScanners, BootScanners,
         ContainerScanners, CryptoScanners, MonitoringScanners, GuiScanners, PackagesScanners,
         InventoryScanners, ExposureScanners
<1>11. \A s \in DOMAIN ExposureScanners :
       /\ ScannerOf(s) = ExposureScanners[s]
       /\ \A res : FindingsOf(s, res) = Exposed(s, res)
  BY DEF ScannerOf, FindingsOf, StorageScanners, NetworkScanners, AuthScanners, BootScanners,
         ContainerScanners, CryptoScanners, MonitoringScanners, GuiScanners, PackagesScanners,
         InventoryScanners, ExposureScanners
<1> QED
  BY <1>1, <1>2, <1>3, <1>4, <1>5, <1>6, <1>7, <1>8, <1>9, <1>10, <1>11

(* Whatever the lost commands of a scanner would have answered, what it    *)
(* found without them stands, but for its blind alarms.                    *)
LEMMA Silence ==
  ASSUME NEW before, NEW after, NEW s \in Named,
         Heard(ScannerOf(s), before), Informed(ScannerOf(s), before, after)
  PROVE  FindingsOf(s, before) \ FindingsOf(s, after) \subseteq BlindAlarms(s)
BY NamedScanner, StorageSilence, NetworkSilence, AuthSilence, BootSilence, ContainerSilence,
   CryptoSilence, MonitoringSilence, GuiSilence, PackagesSilence, InventorySilence,
   ExposureSilence DEF Named

-----------------------------------------------------------------------------
(* A scanner asks at least one command, none of them twice, and knows what *)
(* each may say.                                                           *)
WellFormed(scanner) ==
  /\ Len(scanner.asks) \in Nat \ {0}
  /\ \A i \in 1..Len(scanner.asks) : scanner.asks[i] \in DOMAIN scanner.says
  /\ \A i, j \in 1..Len(scanner.asks) : scanner.asks[i] = scanner.asks[j] => i = j

LEMMA WellFormedStorage == \A s \in DOMAIN StorageScanners : WellFormed(StorageScanners[s])
<1>1. WellFormed(Permissions)
  BY SMT DEF WellFormed, Permissions, Scanner
<1>2. WellFormed(Mounts)
  BY SMT DEF WellFormed, Mounts, Scanner
<1>3. WellFormed(Encryption)
  BY SMT DEF WellFormed, Encryption, Scanner
<1>4. WellFormed(Integrity)
  BY SMT DEF WellFormed, Integrity, Scanner
<1> QED
  BY <1>1, <1>2, <1>3, <1>4 DEF StorageScanners

LEMMA WellFormedNetwork == \A s \in DOMAIN NetworkScanners : WellFormed(NetworkScanners[s])
<1>1. WellFormed(Firewall)
  BY SMT DEF WellFormed, Firewall, Scanner
<1>2. WellFormed(Routing)
  BY SMT DEF WellFormed, Routing, Scanner
<1>3. WellFormed(Dns)
  BY SMT DEF WellFormed, Dns, Scanner
<1>4. WellFormed(Listening)
  BY SMT DEF WellFormed, Listening, Scanner
<1> QED
  BY <1>1, <1>2, <1>3, <1>4 DEF NetworkScanners

LEMMA WellFormedAuth == \A s \in DOMAIN AuthScanners : WellFormed(AuthScanners[s])
<1>1. WellFormed(Pam)
  BY SMT DEF WellFormed, Pam, Scanner
<1>2. WellFormed(Password)
  BY SMT DEF WellFormed, Password, Scanner
<1>3. WellFormed(Credentials)
  BY SMT DEF WellFormed, Credentials, Scanner
<1>4. WellFormed(Sessions)
  BY SMT DEF WellFormed, Sessions, Scanner
<1>5. WellFormed(Polkit)
  BY SMT DEF WellFormed, Polkit, Scanner
<1>6. WellFormed(PrivescEnhanced)
  BY SMT DEF WellFormed, PrivescEnhanced, Scanner
<1> QED
  BY <1>1, <1>2, <1>3, <1>4, <1>5, <1>6 DEF AuthScanners

LEMMA WellFormedBoot == \A s \in DOMAIN BootScanners : WellFormed(BootScanners[s])
<1>1. WellFormed(Grub)
  BY SMT DEF WellFormed, Grub, Scanner
<1>2. WellFormed(SecureBoot)
  BY SMT DEF WellFormed, SecureBoot, Scanner
<1>3. WellFormed(KernelParams)
  BY SMT DEF WellFormed, KernelParams, Scanner
<1>4. WellFormed(BootFiles)
  BY SMT DEF WellFormed, BootFiles, Scanner
<1> QED
  BY <1>1, <1>2, <1>3, <1>4 DEF BootScanners

LEMMA WellFormedContainer == \A s \in DOMAIN ContainerScanners : WellFormed(ContainerScanners[s])
<1>1. WellFormed(Runtimes)
  BY SMT DEF WellFormed, Runtimes, Scanner
<1>2. WellFormed(Namespaces)
  BY SMT DEF WellFormed, Namespaces, Scanner
<1>3. WellFormed(Virtualization)
  BY SMT DEF WellFormed, Virtualization, Scanner
<1> QED
  BY <1>1, <1>2, <1>3 DEF ContainerScanners

LEMMA WellFormedCrypto == \A s \in DOMAIN CryptoScanners : WellFormed(CryptoScanners[s])
<1>1. WellFormed(SslCerts)
  BY SMT DEF WellFormed, SslCerts, Scanner
<1>2. WellFormed(SshCiphers)
  BY SMT DEF WellFormed, SshCiphers, Scanner
<1>3. WellFormed(KernelCrypto)
  BY SMT DEF WellFormed, KernelCrypto, Scanner
<1> QED
  BY <1>1, <1>2, <1>3 DEF CryptoScanners

LEMMA WellFormedMonitoring == \A s \in DOMAIN MonitoringScanners : WellFormed(MonitoringScanners[s])
<1>1. WellFormed(Auditing)
  BY SMT DEF WellFormed, Auditing, Scanner
<1>2. WellFormed(Syslog)
  BY SMT DEF WellFormed, Syslog, Scanner
<1>3. WellFormed(TimeSync)
  BY SMT DEF WellFormed, TimeSync, Scanner
<1>4. WellFormed(Agents)
  BY SMT DEF WellFormed, Agents, Scanner
<1> QED
  BY <1>1, <1>2, <1>3, <1>4 DEF MonitoringScanners

LEMMA WellFormedGui == \A s \in DOMAIN GuiScanners : WellFormed(GuiScanners[s])
<1>1. WellFormed(DesktopScanner)
  BY SMT DEF WellFormed, DesktopScanner, Scanner
<1>2. WellFormed(RemoteDesktop)
  BY SMT DEF WellFormed, RemoteDesktop, Scanner
<1>3. WellFormed(Browsers)
  BY SMT DEF WellFormed, Browsers, Scanner
<1>4. WellFormed(GuiPolkit)
  BY SMT DEF WellFormed, GuiPolkit, Scanner
<1> QED
  BY <1>1, <1>2, <1>3, <1>4 DEF GuiScanners

LEMMA WellFormedPackages == \A s \in DOMAIN PackagesScanners : WellFormed(PackagesScanners[s])
<1>1. WellFormed(PackageManagers)
  BY SMT DEF WellFormed, PackageManagers, Scanner, Managers
<1>2. WellFormed(Repositories)
  BY SMT DEF WellFormed, Repositories, Scanner
<1>3. WellFormed(PackageIntegrity)
  BY SMT DEF WellFormed, PackageIntegrity, Scanner
<1>4. WellFormed(SupplyChain)
  BY SMT DEF WellFormed, SupplyChain, Scanner
<1>5. WellFormed(Inventory)
  BY SMT DEF WellFormed, Inventory, Scanner
<1> QED
  BY <1>1, <1>2, <1>3, <1>4, <1>5 DEF PackagesScanners

LEMMA WellFormedInventory == \A s \in DOMAIN InventoryScanners : WellFormed(InventoryScanners[s])
<1>1. WellFormed(SystemInfo)
  BY SMT DEF WellFormed, SystemInfo, Scanner, Texts
<1>2. WellFormed(Services)
  BY SMT DEF WellFormed, Services, Scanner
<1>3. WellFormed(UsersStage)
  BY SMT DEF WellFormed, UsersStage, Scanner
<1>4. WellFormed(Filesystem)
  BY SMT DEF WellFormed, Filesystem, Scanner
<1>5. WellFormed(NetworkStage)
  BY SMT DEF WellFormed, NetworkStage, Scanner
<1>6. WellFormed(Capabilities)
  BY SMT DEF WellFormed, Capabilities, Scanner
<1>7. WellFormed(Sudo)
  BY SMT DEF WellFormed, Sudo, Scanner
<1>8. WellFormed(Processes)
  BY SMT DEF WellFormed, Processes, Scanner
<1>9. WellFormed(PackagesStage)
  BY SMT DEF WellFormed, PackagesStage, Scanner
<1>10. WellFormed(Logs)
  BY SMT DEF WellFormed, Logs, Scanner
<1> QED
  BY <1>1, <1>2, <1>3, <1>4, <1>5, <1>6, <1>7, <1>8, <1>9, <1>10 DEF InventoryScanners

LEMMA WellFormedExposure == \A s \in DOMAIN ExposureScanners : WellFormed(ExposureScanners[s])
<1>1. WellFormed(PrivilegeEscalation)
  BY SMT DEF WellFormed, PrivilegeEscalation, Scanner
<1>2. WellFormed(Ssh)
  BY SMT DEF WellFormed, Ssh, Scanner
<1>3. WellFormed(Cron)
  BY SMT DEF WellFormed, Cron, Scanner
<1>4. WellFormed(Systemd)
  BY SMT DEF WellFormed, Systemd, Scanner
<1>5. WellFormed(Docker)
  BY SMT DEF WellFormed, Docker, Scanner
<1>6. WellFormed(Environment)
  BY SMT DEF WellFormed, Environment, Scanner
<1>7. WellFormed(Secrets)
  BY SMT DEF WellFormed, Secrets, Scanner, SecretCommands
<1>8. WellFormed(Kernel)
  BY SMT DEF WellFormed, Kernel, Scanner, KernelCommands, KernelTable
<1>9. WellFormed(KernelHardening)
  BY SMT DEF WellFormed, KernelHardening, Scanner, HardeningCommands, HardeningTable,
     Mitigations
<1> QED
  BY <1>1, <1>2, <1>3, <1>4, <1>5, <1>6, <1>7, <1>8, <1>9 DEF ExposureScanners

LEMMA NamedIsWellFormed == \A s \in Named : WellFormed(ScannerOf(s))
BY NamedScanner, WellFormedStorage, WellFormedNetwork, WellFormedAuth, WellFormedBoot,
   WellFormedContainer, WellFormedCrypto, WellFormedMonitoring, WellFormedGui,
   WellFormedPackages, WellFormedInventory, WellFormedExposure DEF Named

-----------------------------------------------------------------------------
(* The scanners of a stage.                                                *)
LEMMA PartsAreNamed ==
  ASSUME NEW st \in Stages
  PROVE  /\ Len(Parts(st)) \in Nat \ {0}
         /\ \A i \in 1..Len(Parts(st)) : Parts(st)[i] \in Named
         /\ st \notin DOMAIN Groups =>
              /\ Parts(st) = <<st>>
              /\ st \in DOMAIN InventoryScanners \union DOMAIN ExposureScanners
<1>1. CASE st \in DOMAIN Groups
  <2>1. Len(Groups[st]) \in Nat \ {0}
    BY <1>1, SMT DEF Groups
  <2>2. \A i \in 1..Len(Groups[st]) : Groups[st][i] \in Named
    <3>1. \A i \in 1..Len(Groups.storage_security) :
            Groups.storage_security[i] \in DOMAIN StorageScanners
      BY SMT DEF Groups, StorageScanners
    <3>2. \A i \in 1..Len(Groups.network_security) :
            Groups.network_security[i] \in DOMAIN NetworkScanners
      BY SMT DEF Groups, NetworkScanners
    <3>3. \A i \in 1..Len(Groups.auth_security) :
            Groups.auth_security[i] \in DOMAIN AuthScanners
      BY SMT DEF Groups, AuthScanners
    <3>4. \A i \in 1..Len(Groups.boot_security) :
            Groups.boot_security[i] \in DOMAIN BootScanners
      BY SMT DEF Groups, BootScanners
    <3>5. \A i \in 1..Len(Groups.container_security) :
            Groups.container_security[i] \in DOMAIN ContainerScanners
      BY SMT DEF Groups, ContainerScanners
    <3>6. \A i \in 1..Len(Groups.crypto_security) :
            Groups.crypto_security[i] \in DOMAIN CryptoScanners
      BY SMT DEF Groups, CryptoScanners
    <3>7. \A i \in 1..Len(Groups.monitoring_security) :
            Groups.monitoring_security[i] \in DOMAIN MonitoringScanners
      BY SMT DEF Groups, MonitoringScanners
    <3>8. \A i \in 1..Len(Groups.gui_security) :
            Groups.gui_security[i] \in DOMAIN GuiScanners
      BY SMT DEF Groups, GuiScanners
    <3>9. \A i \in 1..Len(Groups.packages_security) :
            Groups.packages_security[i] \in DOMAIN PackagesScanners
      BY SMT DEF Groups, PackagesScanners
    <3>10. DOMAIN Groups =
             {"storage_security", "network_security", "auth_security", "boot_security",
              "container_security", "crypto_security", "monitoring_security", "gui_security",
              "packages_security"}
      BY DEF Groups
    <3> QED
      BY <1>1, <3>1, <3>2, <3>3, <3>4, <3>5, <3>6, <3>7, <3>8, <3>9, <3>10 DEF Named
  <2> QED
    BY <1>1, <2>1, <2>2 DEF Parts
<1>2. CASE st \notin DOMAIN Groups
  <2>1. st \in DOMAIN InventoryScanners \union DOMAIN ExposureScanners
    BY <1>2, StagesAssumption
  <2>2. Parts(st) = <<st>>
    BY <1>2 DEF Parts
  <2> QED
    BY <1>2, <2>1, <2>2 DEF Named
<1> QED
  BY <1>1, <1>2

(* What the packages scanner hands over is what its takers would have read *)
(* themselves.                                                             *)
LEMMA HandedIsKnown ==
  /\ \A s \in Named : \A c \in HandedTo(s) :
       /\ c \in {"dpkg", "pip"}
       /\ ScannerOf(s).says[c] = Lists(c)
       /\ c \notin ScannerOf(s).certain
  /\ \A m \in {"dpkg", "pip"} :
       /\ m \in DOMAIN ScannerOf("managers").says
       /\ ScannerOf("managers").says[m] = Lists(m)
       /\ m \notin ScannerOf("managers").partial
<1>1. /\ ScannerOf("managers") = PackageManagers
      /\ ScannerOf("supply_chain") = SupplyChain
      /\ ScannerOf("inventory") = Inventory
  BY NamedScanner DEF PackagesScanners
<1>2. ASSUME NEW s \in Named, NEW c \in HandedTo(s)
      PROVE  (s = "supply_chain" /\ c = "pip") \/ (s = "inventory" /\ c = "dpkg")
  BY <1>2 DEF HandedTo
<1>3. /\ SupplyChain.says["pip"] = Lists("pip") /\ SupplyChain.certain = {}
      /\ Inventory.says["dpkg"] = Lists("dpkg") /\ Inventory.certain = {}
  BY SMT DEF SupplyChain, Inventory, Scanner
<1>4. \A m \in {"dpkg", "pip"} :
        /\ m \in DOMAIN PackageManagers.says
        /\ PackageManagers.says[m] = Lists(m)
        /\ m \notin PackageManagers.partial
  BY SMT DEF PackageManagers, Scanner, Managers
<1> QED
  BY <1>1, <1>2, <1>3, <1>4

(* The probes of PATH are the environment's alone.                         *)
LEMMA OthersAreWarnedOf ==
  ASSUME NEW s \in (DOMAIN InventoryScanners \union DOMAIN ExposureScanners) \ {"environment"}
  PROVE  DOMAIN ScannerOf(s).says \intersect Unwarned = {}
<1>1. /\ DOMAIN SystemInfo.says \intersect Unwarned = {}
      /\ DOMAIN Services.says \intersect Unwarned = {}
      /\ DOMAIN UsersStage.says \intersect Unwarned = {}
      /\ DOMAIN Filesystem.says \intersect Unwarned = {}
      /\ DOMAIN NetworkStage.says \intersect Unwarned = {}
      /\ DOMAIN Capabilities.says \intersect Unwarned = {}
      /\ DOMAIN Sudo.says \intersect Unwarned = {}
      /\ DOMAIN Processes.says \intersect Unwarned = {}
      /\ DOMAIN PackagesStage.says \intersect Unwarned = {}
      /\ DOMAIN Logs.says \intersect Unwarned = {}
  BY SMT DEF Unwarned, Scanner, Texts, SystemInfo, Services, UsersStage, Filesystem,
     NetworkStage, Capabilities, Sudo, Processes, PackagesStage, Logs
<1>2. /\ DOMAIN PrivilegeEscalation.says \intersect Unwarned = {}
      /\ DOMAIN Ssh.says \intersect Unwarned = {}
      /\ DOMAIN Cron.says \intersect Unwarned = {}
      /\ DOMAIN Systemd.says \intersect Unwarned = {}
      /\ DOMAIN Docker.says \intersect Unwarned = {}
  BY SMT DEF Unwarned, Scanner, PrivilegeEscalation, Ssh, Cron, Systemd, Docker
<1>3. DOMAIN Secrets.says \intersect Unwarned = {}
  BY SMT DEF Unwarned, Scanner, Secrets, SecretCommands
<1>4. DOMAIN Kernel.says \intersect Unwarned = {}
  BY SMT DEF Unwarned, Scanner, Kernel, KernelCommands
<1>5. DOMAIN KernelHardening.says \intersect Unwarned = {}
  BY SMT DEF Unwarned, Scanner, KernelHardening, HardeningCommands
<1>6. CASE s \in DOMAIN InventoryScanners
  BY <1>1, <1>6, NamedScanner DEF InventoryScanners
<1>7. CASE s \in DOMAIN ExposureScanners
  BY <1>2, <1>3, <1>4, <1>5, <1>7, NamedScanner DEF ExposureScanners
<1> QED
  BY <1>6, <1>7

(* The result that stands for a stage is one of its scanner's, or none.    *)
LEMMA LeastIndex ==
  ASSUME NEW S \in SUBSET (1..9), S # {}
  PROVE  \E i \in S : \A j \in S : i <= j
<1> SUFFICES ASSUME \A i \in S : \E j \in S : j < i
             PROVE  FALSE
  OBVIOUS
<1>1. S \intersect 1..3 = {}
  OBVIOUS
<1>2. S \intersect 4..6 = {}
  BY <1>1
<1>3. S \intersect 7..9 = {}
  BY <1>1, <1>2
<1>4. \A i \in 1..9 : i \in 1..3 \/ i \in 4..6 \/ i \in 7..9
  OBVIOUS
<1> QED
  BY <1>1, <1>2, <1>3, <1>4

LEMMA FirstSuccessIsAResult ==
  ASSUME NEW s \in {"pam", "managers"}, NEW res
  PROVE  \/ FirstSuccess(s, res) = NoResult
         \/ \E c \in DOMAIN ScannerOf(s).says : FirstSuccess(s, res) = res[c]
<1> DEFINE asks == ScannerOf(s).asks
           good == {i \in 1..Len(asks) : Succeeded(res, asks[i])}
           first == CHOOSE i \in good : \A j \in good : i <= j
<1>1. 1..Len(asks) \subseteq 1..9
  <2>1. ScannerOf("pam") = Pam /\ ScannerOf("managers") = PackageManagers
    BY NamedScanner DEF AuthScanners, PackagesScanners
  <2>2. Len(Pam.asks) = 4 /\ Len(PackageManagers.asks) = 9
    BY SMT DEF Pam, PackageManagers, Scanner
  <2>3. Len(asks) \in 1..9
    <3>1. s = "pam" \/ s = "managers"
      OBVIOUS
    <3> QED
      BY <2>1, <2>2, <3>1
  <2>4. \A n \in 1..9 : 1..n \subseteq 1..9
    OBVIOUS
  <2> QED
    BY <2>3, <2>4
<1>2. \A i \in 1..Len(asks) : asks[i] \in DOMAIN ScannerOf(s).says
  BY NamedIsWellFormed DEF WellFormed, Named, AuthScanners, PackagesScanners
<1>3. CASE good = {}
  BY <1>3 DEF FirstSuccess
<1>4. CASE good # {}
  <2>1. \E i \in good : \A j \in good : i <= j
    <3>1. good \in SUBSET (1..9)
      BY <1>1
    <3> HIDE DEF good
    <3> QED
      BY <1>4, <3>1, LeastIndex
  <2>2. first \in 1..Len(asks)
    BY <2>1
  <2>3. FirstSuccess(s, res) = res[asks[first]]
    BY <1>4 DEF FirstSuccess
  <2> QED
    BY <1>2, <2>2, <2>3
<1> QED
  BY <1>3, <1>4

LEMMA PrimaryIsAResult ==
  ASSUME NEW s \in Named, NEW res
  PROVE  \/ PrimaryOf(s, res) = NoResult
         \/ \E c \in DOMAIN ScannerOf(s).says : PrimaryOf(s, res) = res[c]
<1>1. CASE s \in {"pam", "managers"}
  BY <1>1, FirstSuccessIsAResult DEF PrimaryOf
<1>2. CASE s \in {"grub", "desktop", "docker", "secrets"}
  <2>1. /\ ScannerOf("grub") = Grub /\ ScannerOf("desktop") = DesktopScanner
        /\ ScannerOf("docker") = Docker /\ ScannerOf("secrets") = Secrets
    BY NamedScanner DEF BootScanners, GuiScanners, ExposureScanners
  <2>2. /\ "cat_cfg" \in DOMAIN Grub.says /\ "stat_grub2" \in DOMAIN Grub.says
        /\ "find_lightdm" \in DOMAIN DesktopScanner.says
        /\ "docker_ps" \in DOMAIN Docker.says
    BY SMT DEF Grub, DesktopScanner, Docker, Scanner
  <2>3. "find_pem" \in DOMAIN Secrets.says
    BY SMT DEF Secrets, Scanner, SecretCommands
  <2> QED
    BY <1>2, <2>1, <2>2, <2>3 DEF PrimaryOf, GrubPrimary
<1>3. CASE s \notin {"pam", "managers", "grub", "desktop", "docker", "secrets"}
  <2>1. ScannerOf(s).asks[1] \in DOMAIN ScannerOf(s).says
    <3>1. WellFormed(ScannerOf(s))
      BY NamedIsWellFormed
    <3> QED
      BY <3>1 DEF WellFormed
  <2>2. PrimaryOf(s, res) = res[ScannerOf(s).asks[1]]
    BY <1>3 DEF PrimaryOf
  <2> QED
    BY <2>1, <2>2
<1> QED
  BY <1>1, <1>2, <1>3

(* One source is enough for records.                                       *)
LEMMA OneSourceServes ==
  ASSUME NEW s \in Named, NEW res, Heard(ScannerOf(s), res),
         NEW c \in Sources(s), Succeeded(res, c), res[c].text \ {"chatter"} # {},
         \A d \in Sources(s) \ {c} : ~Succeeded(res, d)
  PROVE  RecordsOf(s, res) # {}
<1>1. s \in {"system_info", "services", "users", "network", "sudo", "processes", "logs"}
  BY DEF Sources
<1>2. /\ s \in DOMAIN InventoryScanners
      /\ ScannerOf(s) = InventoryScanners[s]
  BY <1>1, NamedScanner DEF InventoryScanners
<1>3. RecordsOf(s, res) = InventoryRecords(s, res)
  BY <1>1, <1>2 DEF RecordsOf
<1>4. CASE s = "system_info"
  <2>1. Heard(SystemInfo, res)
    BY <1>2, <1>4 DEF InventoryScanners
  <2>2. c \in {"hostname", "kernel_version", "architecture", "distribution", "whoami"}
    BY <1>4 DEF Sources
  <2>3. res[c].text \subseteq {"text"}
    BY <2>1, <2>2, SMT DEF Heard, SystemInfo, Scanner, Texts
  <2>4. Says(res, c, "text")
    BY <2>3 DEF Says
  <2> QED
    BY <1>3, <1>4, <2>2, <2>4 DEF InventoryRecords, SystemInfoRecords
<1>5. CASE s = "services"
  BY <1>3, <1>5 DEF Sources, InventoryRecords, ServicesRecords
<1>6. CASE s = "users"
  BY <1>3, <1>6 DEF Sources, InventoryRecords, UsersRecords, PasswdText
<1>7. CASE s = "network"
  <2>1. Heard(NetworkStage, res)
    BY <1>2, <1>7 DEF InventoryScanners
  <2>2. /\ res["ip_addr"].text \subseteq {"chatter", "eth0"}
        /\ res["ifconfig"].text \subseteq {"eth0"}
    BY <2>1, SMT DEF Heard, NetworkStage, Scanner
  <2>3. NetworkRecords(res) # {}
    BY <1>7, <2>2 DEF Sources, NetworkRecords, Preferred
  <2> QED
    BY <1>3, <1>7, <2>3 DEF InventoryRecords
<1>8. CASE s = "sudo"
  BY <1>3, <1>8 DEF Sources, InventoryRecords, SudoRecords, SudoKnown
<1>9. CASE s = "processes"
  BY <1>3, <1>9 DEF Sources, InventoryRecords, ProcessesRecords
<1>10. CASE s = "logs"
  BY <1>3, <1>10 DEF Sources, InventoryRecords, LogsRecords
<1> QED
  BY <1>1, <1>4, <1>5, <1>6, <1>7, <1>8, <1>9, <1>10
-----------------------------------------------------------------------------
(* A result as the scanner's record keeps it: not asked for yet, or with a *)
(* text that the command may print.                                        *)
Legal(result, texts) ==
  \/ result = Unasked
  \/ result.fate \in Fates /\ result.text \in texts \union {{}}

(* A command that is lost could be, and only of some is the text read.     *)
Excused(scanner, c, result) ==
  result.fate \in Lost => \/ c \in scanner.partial
                          \/ c \notin scanner.certain /\ result.text = {}

(* The inductive invariant, in three parts.  Where the stage is:           *)
PlaceInv ==
  /\ stage \in Stages
  /\ ground \in Grounds
  /\ news \in 0..NewsBound
  /\ part \in 1..Len(Parts(stage))
  /\ step \in 1..Len(Commands) + 1
  /\ reports \subseteq {Parts(stage)[i] : i \in 1..part}
  /\ told \in BOOLEAN
  /\ lost \subseteq Lost
  /\ status \in {"running", "success", "empty", "failed", "timeout", "missing_dependency"}

(* What it has read: nothing yet of the commands that are still to come,   *)
(* and a text of a lost command only where the scanner reads it.           *)
ResultsInv ==
  /\ DOMAIN r = DOMAIN ScannerOf(Now).says
  /\ \A c \in DOMAIN r : Legal(r[c], ScannerOf(Now).says[c])
  /\ \A c \in DOMAIN r : Excused(ScannerOf(Now), c, r[c])
  /\ \A i \in step..Len(Commands) : r[Commands[i]] = Unasked
  /\ \A m \in {"dpkg", "pip"} :
       /\ Legal(handed[m], Lists(m))
       /\ handed[m].fate \in Lost => handed[m].text = {}

(* And of losses: no result tells of one that the history does not know,   *)
(* and a stage that will have to warn still holds a result that says so.   *)
Known(result) == result.fate \in Lost => result.fate \in lost
Notable == lost \intersect Marked # {}
LossInv ==
  /\ \A c \in DOMAIN r : Known(r[c])
  /\ \A m \in {"dpkg", "pip"} : Known(handed[m])
  /\ Known(primary)
  /\ status = "running" /\ Notable /\ stage \notin DOMAIN Groups \union {"environment"}
       => \E c \in DOMAIN r \ Unwarned : r[c].fate \in Marked
  /\ LossIsTold

HostInv == PlaceInv /\ ResultsInv /\ LossInv

LEMMA UnaskedIsNoLoss == Unasked.fate \notin Lost /\ NoResult.fate \notin Lost
BY DEF Unasked, NoResult, Result, Lost, Marked

LEMMA AnswersAreLegal ==
  ASSUME NEW s, NEW c, NEW answer \in Answers(s, c)
  PROVE  /\ Legal(answer, ScannerOf(s).says[c])
         /\ Excused(ScannerOf(s), c, answer)
BY SMT DEF Answers, Legal, Excused, Result, Fates, Lost, Marked

LEMMA InitialHost == Init => HostInv
<1> SUFFICES ASSUME Init
             PROVE  HostInv
  OBVIOUS
<1>1. /\ Len(Parts(stage)) \in Nat \ {0}
      /\ Now \in Named
  BY PartsAreNamed DEF Init, Now
<1>2. WellFormed(ScannerOf(Now))
  BY <1>1, NamedIsWellFormed
<1>3. PlaceInv
  <2>1. step \in 1..Len(Commands) + 1
    BY <1>2, SMT DEF Init, Commands, WellFormed
  <2>2. part \in 1..Len(Parts(stage)) /\ news \in 0..NewsBound
    BY <1>1, StagesAssumption DEF Init
  <2> QED
    BY <2>1, <2>2 DEF Init, PlaceInv
<1>4. r = [c \in DOMAIN ScannerOf(Now).says |-> Unasked]
  BY DEF Init, NoAnswers, Now
<1>5. ResultsInv
  BY <1>2, <1>4, UnaskedIsNoLoss DEF Init, ResultsInv, Legal, Excused, Commands, WellFormed
<1>6. LossInv
  BY <1>4, UnaskedIsNoLoss DEF Init, LossInv, LossIsTold, Known, Notable
<1> QED
  BY <1>3, <1>5, <1>6 DEF HostInv

(* What every step starts from.                                            *)
LEMMA AtWork ==
  ASSUME HostInv
  PROVE  /\ Len(Parts(stage)) \in Nat \ {0}
         /\ \A i \in 1..Len(Parts(stage)) : Parts(stage)[i] \in Named
         /\ Now \in Named
         /\ WellFormed(ScannerOf(Now))
         /\ Heard(ScannerOf(Now), r)
<1>1. /\ Len(Parts(stage)) \in Nat \ {0}
      /\ \A i \in 1..Len(Parts(stage)) : Parts(stage)[i] \in Named
      /\ Now \in Named
  BY PartsAreNamed DEF HostInv, PlaceInv, Now
<1>2. Heard(ScannerOf(Now), r)
  BY DEF HostInv, ResultsInv, Heard, Legal, Unasked
<1> QED
  BY <1>1, <1>2, NamedIsWellFormed

LEMMA AskKeeps == HostInv /\ Ask => HostInv'
<1> SUFFICES ASSUME HostInv, Ask
             PROVE  HostInv'
  OBVIOUS
<1> DEFINE c == Commands[step]
<1>1. PICK answer \in Answers(Now, c) :
        /\ answer = Usual(Now, c) \/ news < Unusual(stage)
        /\ r' = [r EXCEPT ![c] = answer]
        /\ news' = IF answer = Usual(Now, c) THEN news ELSE news + 1
        /\ lost' = lost \union ({answer.fate} \intersect Lost)
  BY DEF Ask
<1>2. /\ status = "running" /\ step' = step + 1
      /\ UNCHANGED <<stage, ground, part, handed, reports, told, primary, status>>
      /\ c \notin HandedTo(Now)
  BY DEF Ask, Working
<1>3. /\ Len(Commands) \in Nat
      /\ step \in 1..Len(Commands)
      /\ c \in DOMAIN ScannerOf(Now).says
      /\ \A i \in 1..Len(Commands) : Commands[i] = c => i = step
  BY AtWork, SMT DEF HostInv, PlaceInv, Ask, Commands, WellFormed
<1>4. Now' = Now /\ Commands' = Commands
  BY <1>2 DEF Now, Commands
<1>5. DOMAIN r' = DOMAIN r /\ \A d \in DOMAIN r : r'[d] = IF d = c THEN answer ELSE r[d]
  BY <1>1
<1>6. PlaceInv'
  <2>1. news' \in 0..NewsBound
    BY <1>1, StagesAssumption DEF HostInv, PlaceInv, Unusual
  <2>2. step' \in 1..Len(Commands') + 1
    BY <1>2, <1>3, <1>4
  <2>3. lost' \subseteq Lost
    BY <1>1 DEF HostInv, PlaceInv
  <2> QED
    BY <1>2, <2>1, <2>2, <2>3 DEF HostInv, PlaceInv
<1>7. ResultsInv'
  <2>1. /\ Legal(answer, ScannerOf(Now).says[c])
        /\ Excused(ScannerOf(Now), c, answer)
    BY <1>1, AnswersAreLegal
  <2>2. \A i \in step + 1..Len(Commands) :
          /\ Commands[i] \in DOMAIN r
          /\ Commands[i] # c
          /\ r[Commands[i]] = Unasked
    BY <1>3, AtWork, SMT DEF HostInv, ResultsInv, WellFormed, Commands
  <2> QED
    BY <1>2, <1>4, <1>5, <2>1, <2>2 DEF HostInv, ResultsInv
<1>8. LossInv'
  <2>1. ASSUME Notable', stage \notin DOMAIN Groups \union {"environment"}
        PROVE  \E d \in DOMAIN r \ Unwarned : r'[d].fate \in Marked
    <3>1. CASE Notable
      <4>1. PICK d \in DOMAIN r \ Unwarned : r[d].fate \in Marked
        BY <1>2, <2>1, <3>1 DEF HostInv, LossInv
      <4>2. r[c] = Unasked
        BY <1>3 DEF HostInv, ResultsInv
      <4> QED
        BY <1>5, <4>1, <4>2, UnaskedIsNoLoss DEF Lost
    <3>2. CASE answer.fate \in Marked
      <4>1. Now = stage /\ stage \in (DOMAIN InventoryScanners \union DOMAIN ExposureScanners)
                                       \ {"environment"}
        BY <2>1, PartsAreNamed, SMT DEF HostInv, PlaceInv, Now
      <4>2. c \notin Unwarned
        BY <1>3, <4>1, OthersAreWarnedOf
      <4> QED
        BY <1>3, <1>5, <3>2, <4>2 DEF HostInv, ResultsInv
    <3> QED
      BY <1>1, <2>1, <3>1, <3>2 DEF Notable
  <2>2. lost \subseteq lost' /\ Known(answer)'
    BY <1>1 DEF Known
  <2>3. (\A d \in DOMAIN r : Known(r[d]))'
    BY <1>5, <2>2 DEF HostInv, LossInv, Known
  <2>4. /\ \A m \in {"dpkg", "pip"} : Known(handed[m])'
        /\ Known(primary)'
    BY <1>2, <2>2 DEF HostInv, LossInv, Known
  <2>5. LossIsTold'
    BY <1>2 DEF LossIsTold
  <2> QED
    BY <1>2, <1>5, <2>1, <2>3, <2>4, <2>5 DEF LossInv
<1> QED
  BY <1>6, <1>7, <1>8 DEF HostInv

LEMMA SkipKeeps == HostInv /\ Skip => HostInv'
<1> SUFFICES ASSUME HostInv, Skip
             PROVE  HostInv'
  OBVIOUS
<1> DEFINE c == Commands[step]
<1>1. /\ status = "running" /\ step' = step + 1
      /\ UNCHANGED <<stage, ground, news, part, handed, reports, told, lost, primary, status>>
      /\ r' = IF c \in HandedTo(Now) THEN [r EXCEPT ![c] = handed[c]] ELSE r
  BY DEF Skip, Working, HandedOver
<1>2. /\ Len(Commands) \in Nat
      /\ step \in 1..Len(Commands)
      /\ c \in DOMAIN ScannerOf(Now).says
      /\ \A i \in 1..Len(Commands) : Commands[i] = c => i = step
  BY AtWork, SMT DEF HostInv, PlaceInv, Skip, Commands, WellFormed
<1>3. Now' = Now /\ Commands' = Commands
  BY <1>1 DEF Now, Commands
<1>4. /\ DOMAIN r' = DOMAIN r
      /\ \A d \in DOMAIN r : \/ r'[d] = r[d]
                             \/ d = c /\ c \in HandedTo(Now) /\ r'[d] = handed[c]
  BY <1>1
<1>5. c \in HandedTo(Now) =>
        /\ c \in {"dpkg", "pip"}
        /\ ScannerOf(Now).says[c] = Lists(c)
        /\ c \notin ScannerOf(Now).certain
  BY AtWork, HandedIsKnown
<1>6. PlaceInv'
  <2>1. step' \in 1..Len(Commands') + 1
    BY <1>1, <1>2, <1>3
  <2> QED
    BY <1>1, <2>1 DEF HostInv, PlaceInv
<1>7. ResultsInv'
  <2>1. \A i \in step + 1..Len(Commands) :
          /\ Commands[i] \in DOMAIN r
          /\ Commands[i] # c
          /\ r[Commands[i]] = Unasked
    BY <1>2, AtWork, SMT DEF HostInv, ResultsInv, WellFormed, Commands
  <2>2. \A m \in {"dpkg", "pip"} :
          /\ Legal(handed[m], Lists(m))
          /\ handed[m].fate \in Lost => handed[m].text = {}
    BY DEF HostInv, ResultsInv
  <2>3. \A d \in DOMAIN r : Excused(ScannerOf(Now), d, r'[d])
    BY <1>4, <1>5, <2>2 DEF HostInv, ResultsInv, Excused
  <2> QED
    BY <1>1, <1>3, <1>4, <1>5, <2>1, <2>2, <2>3 DEF HostInv, ResultsInv
<1>8. LossInv'
  <2>1. ASSUME Notable, stage \notin DOMAIN Groups \union {"environment"}
        PROVE  \E d \in DOMAIN r' \ Unwarned : r'[d].fate \in Marked
    <3>1. PICK d \in DOMAIN r \ Unwarned : r[d].fate \in Marked
      BY <1>1, <2>1 DEF HostInv, LossInv
    <3>2. r[c] = Unasked
      BY <1>2 DEF HostInv, ResultsInv
    <3> QED
      BY <1>4, <3>1, <3>2, UnaskedIsNoLoss DEF Lost
  <2>2. \A d \in DOMAIN r' : Known(r'[d])
    BY <1>4, <1>5 DEF HostInv, LossInv
  <2> QED
    BY <1>1, <2>1, <2>2 DEF HostInv, LossInv, LossIsTold, Known, Notable
<1> QED
  BY <1>6, <1>7, <1>8 DEF HostInv

LEMMA StatusOfStage ==
  ASSUME NEW result, NEW found \in BOOLEAN
  PROVE  /\ DetermineStatus(result, found)
              \in {"success", "empty", "failed", "timeout", "missing_dependency"}
         /\ DetermineStatus(result, found) = "missing_dependency" => result.fate = "missing"
         /\ DetermineStatus(result, found) = "timeout" => result.fate = "timeout"
<1>1. CASE result.fate = "missing"
  BY <1>1 DEF DetermineStatus, Marked
<1>2. CASE result.fate = "timeout"
  BY <1>2 DEF DetermineStatus, Marked
<1>3. CASE result.fate \notin Marked
  BY <1>3 DEF DetermineStatus, Marked
<1> QED
  BY <1>1, <1>2, <1>3 DEF Marked

LEMMA AssessKeeps == HostInv /\ Assess => HostInv'
<1> SUFFICES ASSUME HostInv, Assess
             PROVE  HostInv'
  OBVIOUS
<1> DEFINE first == IF part = 1 THEN PrimaryOf(Now, r) ELSE primary
           more  == part < Len(Parts(stage))
           found == reports' # {}
<1>1. /\ status = "running"
      /\ reports' \subseteq reports \union {Now}
      /\ told' = (told \/ Warned(Now, r))
      /\ primary' = first
      /\ handed' = IF Now = "managers" THEN [m \in {"dpkg", "pip"} |-> r[m]] ELSE handed
      /\ UNCHANGED <<stage, ground, news, lost>>
  BY DEF Assess, AllAsked, Working
<1>2. Known(first)
  <2>1. \A d \in DOMAIN ScannerOf(Now).says : Known(r[d])
    BY DEF HostInv, ResultsInv, LossInv
  <2>2. Known(PrimaryOf(Now, r))
    <3>1. Known(NoResult)
      BY UnaskedIsNoLoss DEF Known
    <3> QED
      BY <2>1, <3>1, AtWork, PrimaryIsAResult
  <2>3. Known(primary)
    BY DEF HostInv, LossInv
  <2> QED
    BY <2>2, <2>3
<1>3. \A m \in {"dpkg", "pip"} :
        /\ Legal(handed'[m], Lists(m))
        /\ handed'[m].fate \in Lost => handed'[m].text = {}
        /\ Known(handed'[m])
  <2>1. CASE Now = "managers"
    <3>1. \A m \in {"dpkg", "pip"} : handed'[m] = r[m]
      BY <1>1, <2>1
    <3>2. \A m \in {"dpkg", "pip"} : /\ m \in DOMAIN r
                                     /\ ScannerOf(Now).says[m] = Lists(m)
                                     /\ m \notin ScannerOf(Now).partial
      BY <2>1, HandedIsKnown DEF HostInv, ResultsInv
    <3> QED
      BY <3>1, <3>2 DEF HostInv, ResultsInv, LossInv, Excused
  <2>2. CASE Now # "managers"
    BY <1>1, <2>2 DEF HostInv, ResultsInv, LossInv
  <2> QED
    BY <2>1, <2>2
<1>4. told' \in BOOLEAN /\ reports' \subseteq {Parts(stage)[i] : i \in 1..part}
  <2>1. Now \in {Parts(stage)[i] : i \in 1..part}
    BY AtWork DEF HostInv, PlaceInv, Now
  <2>2. told' \in BOOLEAN
    BY <1>1
  <2> QED
    BY <1>1, <2>1, <2>2 DEF HostInv, PlaceInv
<1>5. CASE more
  <2>1. /\ part' = part + 1
        /\ step' = 1
        /\ r' = NoAnswers(Parts(stage)[part + 1])
        /\ status' = "running"
    BY <1>1, <1>5 DEF Assess
  <2>2. part + 1 \in 1..Len(Parts(stage)) /\ 1..part \subseteq 1..part + 1
    BY <1>5, AtWork DEF HostInv, PlaceInv
  <2>3. /\ Now' = Parts(stage)[part + 1]
        /\ Now' \in Named
    BY <1>1, <2>1, <2>2, AtWork DEF Now
  <2>4. /\ WellFormed(ScannerOf(Now'))
        /\ Commands' = ScannerOf(Now').asks
    BY <2>3, NamedIsWellFormed DEF Commands
  <2>5. r' = [d \in DOMAIN ScannerOf(Now').says |-> Unasked]
    BY <2>1, <2>3 DEF NoAnswers
  <2>6. stage \in DOMAIN Groups
    <3>1. CASE stage \notin DOMAIN Groups
      <4>1. Len(Parts(stage)) = 1
        BY <3>1, PartsAreNamed, SMT DEF HostInv, PlaceInv
      <4> QED
        BY <1>5, <4>1 DEF HostInv, PlaceInv
    <3> QED
      BY <3>1
  <2>7. PlaceInv'
    <3>1. step' \in 1..Len(Commands') + 1
      BY <2>1, <2>4, SMT DEF WellFormed
    <3>2. reports' \subseteq {Parts(stage)[i] : i \in 1..part + 1}
      BY <1>4, <2>2
    <3> QED
      BY <1>1, <1>4, <2>1, <2>2, <3>1, <3>2 DEF HostInv, PlaceInv
  <2>8. ResultsInv'
    BY <1>3, <2>1, <2>4, <2>5, UnaskedIsNoLoss DEF ResultsInv, Legal, Excused, WellFormed
  <2>9. LossInv'
    BY <1>1, <1>2, <1>3, <2>1, <2>5, <2>6, UnaskedIsNoLoss DEF LossInv, LossIsTold, Known
  <2> QED
    BY <2>7, <2>8, <2>9 DEF HostInv
<1>6. CASE ~more
  <2>1. /\ status' = DetermineStatus(first, found)
        /\ UNCHANGED <<part, step, r>>
    BY <1>1, <1>6 DEF Assess
  <2>2. Now' = Now /\ Commands' = Commands
    BY <1>1, <2>1 DEF Now, Commands
  <2>3. /\ status' \in {"success", "empty", "failed", "timeout", "missing_dependency"}
        /\ status' = "missing_dependency" => "missing" \in lost
        /\ status' = "timeout" => "timeout" \in lost
    <3>1. found \in BOOLEAN
      OBVIOUS
    <3> HIDE DEF found, first
    <3> QED
      BY <1>2, <2>1, <3>1, StatusOfStage DEF Known, Lost, Marked
  <2>4. PlaceInv'
    BY <1>1, <1>4, <2>1, <2>2, <2>3 DEF HostInv, PlaceInv
  <2>5. ResultsInv'
    BY <1>3, <2>1, <2>2 DEF HostInv, ResultsInv
  <2>6. ASSUME Notable, stage \notin DOMAIN Groups \union {"environment"}
        PROVE  told'
    <3>1. PICK d \in DOMAIN r \ Unwarned : r[d].fate \in Marked
      BY <1>1, <2>6 DEF HostInv, LossInv
    <3>2. CommandWarned(r)
      BY <3>1 DEF CommandWarned
    <3>3. Now = stage /\ stage \in DOMAIN InventoryScanners \union DOMAIN ExposureScanners
      BY <2>6, PartsAreNamed, SMT DEF HostInv, PlaceInv, Now
    <3>4. Warned(Now, r)
      BY <3>2, <3>3 DEF Warned
    <3> QED
      BY <1>1, <3>4
  <2>7. LossInv'
    BY <1>1, <1>2, <1>3, <2>1, <2>3, <2>6 DEF HostInv, LossInv, LossIsTold, Known, Notable
  <2> QED
    BY <2>4, <2>5, <2>7 DEF HostInv
<1> QED
  BY <1>5, <1>6

LEMMA RaiseKeeps == HostInv /\ Raise => HostInv'
<1> SUFFICES ASSUME HostInv, Raise
             PROVE  HostInv'
  OBVIOUS
<1>1. /\ status' = "failed" /\ reports' = {} /\ told' = TRUE /\ primary' = NoResult
      /\ UNCHANGED <<stage, ground, news, part, step, r, handed, lost>>
  BY DEF Raise
<1>2. Now' = Now /\ Commands' = Commands
  BY <1>1 DEF Now, Commands
<1>3. PlaceInv'
  BY <1>1, <1>2 DEF HostInv, PlaceInv
<1>4. ResultsInv'
  BY <1>1, <1>2 DEF HostInv, ResultsInv
<1>5. LossInv'
  BY <1>1, UnaskedIsNoLoss DEF HostInv, LossInv, LossIsTold, Known
<1> QED
  BY <1>3, <1>4, <1>5 DEF HostInv

LEMMA StutterKeeps == HostInv /\ UNCHANGED vars => HostInv'
BY DEF HostInv, PlaceInv, ResultsInv, LossInv, LossIsTold, Known, Notable, Now, Commands, vars

(* The invariant holds of every stage at every moment.                     *)
THEOREM HostInvariant == Spec => []HostInv
<1>1. HostInv /\ [Next]_vars => HostInv'
  BY AskKeeps, SkipKeeps, AssessKeeps, RaiseKeeps, StutterKeeps DEF Next
<1> QED
  BY InitialHost, <1>1, PTL DEF Spec

(* Type correctness: only the commands before the next one have been       *)
(* asked, and every text is one its command may print, the package lists   *)
(* that one scanner hands to another included.                             *)
THEOREM HostTypeCorrect == Spec => []HostTypeOK
<1>1. HostInv => HostTypeOK
  <2> SUFFICES ASSUME HostInv
               PROVE  HostTypeOK
    OBVIOUS
  <2>1. ASSUME NEW i \in 1..Len(Commands)
        PROVE  \/ r[Commands[i]] = Unasked
               \/ /\ i < step
                  /\ r[Commands[i]].fate \in Fates
                  /\ \/ r[Commands[i]].text = {}
                     \/ r[Commands[i]].text \in ScannerOf(Now).says[Commands[i]]
    <3>1. Commands[i] \in DOMAIN r
      BY AtWork, <2>1 DEF HostInv, ResultsInv, WellFormed, Commands
    <3>2. Legal(r[Commands[i]], ScannerOf(Now).says[Commands[i]])
      BY <3>1 DEF HostInv, ResultsInv
    <3>3. r[Commands[i]] = Unasked \/ i < step
      <4>1. Len(Commands) \in Nat
        BY AtWork DEF WellFormed, Commands
      <4>2. i < step \/ i \in step..Len(Commands)
        BY <2>1, <4>1 DEF HostInv, PlaceInv
      <4> QED
        BY <4>2 DEF HostInv, ResultsInv
    <3> QED
      BY <3>2, <3>3 DEF Legal
  <2> QED
    BY <2>1 DEF HostInv, PlaceInv, HostTypeOK
<1> QED
  BY HostInvariant, <1>1, PTL

(* A stage of one scanner never ends in silence after a command of it was  *)
(* missing or timed out (of one that was lost for lack of an exit code     *)
(* nothing is promised), and one recorded as missing its program, or as    *)
(* timed out, did lose a command that way.                                 *)
THEOREM LossesAreTold == Spec => []LossIsTold
<1>1. HostInv => LossIsTold
  BY DEF HostInv, LossInv
<1> QED
  BY HostInvariant, <1>1, PTL

(* More than the runs check: let any number of the lost commands go on     *)
(* after all, whatever they like to say, even while the scanner is asking. *)
(* Every finding stands, but for those the scanner draws from silence.     *)
NothingFromSilence ==
  \A after : Informed(ScannerOf(Now), r, after)
               => FindingsOf(Now, r) \ FindingsOf(Now, after) \subseteq BlindAlarms(Now)

(* Every finding rests on what was heard, not on what was lost.            *)
THEOREM FindingsRestOnAnswers == Spec => []NothingFromSilence
<1>1. HostInv => NothingFromSilence
  BY AtWork, Silence DEF NothingFromSilence
<1> QED
  BY HostInvariant, <1>1, PTL

(* A command that did not run to its end is no evidence: whatever it would *)
(* have said besides what it had printed, the findings stand, but for those *)
(* the scanner draws from silence.                                         *)
THEOREM SilenceRaisesNoAlarm == Spec => []NoAlarmFromSilence
<1>1. HostInv /\ NothingFromSilence => NoAlarmFromSilence
  <2> SUFFICES ASSUME HostInv, NothingFromSilence,
                      NEW c \in DOMAIN r, r[c].fate \in Lost,
                      NEW t \in ScannerOf(Now).says[c], r[c].text \subseteq t
               PROVE  FindingsOf(Now, r) \ FindingsOf(Now, [r EXCEPT ![c] = Result("ok", t)])
                        \subseteq BlindAlarms(Now)
    BY DEF NoAlarmFromSilence
  <2> DEFINE after == [r EXCEPT ![c] = Result("ok", t)]
  <2>1. \A d \in DOMAIN r : d # c => after[d] = r[d]
    OBVIOUS
  <2>2. Excused(ScannerOf(Now), c, r[c])
    BY DEF HostInv, ResultsInv
  <2>3. DOMAIN r = DOMAIN ScannerOf(Now).says
    BY DEF HostInv, ResultsInv
  <2>6. after[c].text = t
    BY DEF Result
  <2> HIDE DEF after
  <2>4. Informed(ScannerOf(Now), r, after)
    BY <2>1, <2>2, <2>3, <2>6 DEF Informed, Informs, Continues, Excused
  <2>5. FindingsOf(Now, r) \ FindingsOf(Now, after) \subseteq BlindAlarms(Now)
    BY <2>4 DEF NothingFromSilence
  <2> QED
    BY <2>5 DEF after
<1> QED
  BY HostInvariant, FindingsRestOnAnswers, <1>1, PTL

(* A stage with alternative sources has records as soon as one of them has *)
(* any, even when all the others are missing, fail or time out.            *)
THEOREM FallbackAlwaysServes == Spec => []FallbackServes
<1>1. HostInv => FallbackServes
  BY AtWork, OneSourceServes DEF FallbackServes
<1> QED
  BY HostInvariant, <1>1, PTL

=============================================================================

---------------------------- MODULE HostInventory ----------------------------
(***************************************************************************)
(* The stages of vina/scanners/os that take an inventory of the host: what *)
(* each asks, its records and its findings.  They run all their commands   *)
(* before they read a text, but for those of an Asks operator.             *)
(***************************************************************************)
EXTENDS HostCommands

Texts(cs) == [c \in cs |-> SUBSET {"text"}]

\* mutant: the second command counts only when the first one is not installed
OnlyIfMissing(r, first, second) ==
  IF r[first].fate # "missing" THEN r[first].text ELSE r[second].text

(* The command whose text counts: the first, unless it was no success or   *)
(* printed nothing.                                                        *)
Preferred(r, first, second) ==
  IF Succeeded(r, first) /\ r[first].text # {} THEN r[first].text ELSE r[second].text

SystemInfo == Scanner(
  <<"hostname", "kernel", "kernel_version", "architecture", "distribution", "uptime",
    "whoami", "cpu", "memory">>,
  Texts({"hostname", "kernel", "kernel_version", "architecture", "distribution", "uptime",
         "whoami", "cpu", "memory"}))

(* One record or none.                                                     *)
SystemInfoRecords(r) ==
  {"system_info" : c \in {k \in {"hostname", "kernel_version", "architecture",
                                 "distribution", "whoami"} : Says(r, k, "text")}}

Services == Scanner(<<"list_units", "list_files", "service_status">>,
  [list_units |-> SUBSET {"ssh", "cron"}, list_files |-> SUBSET {"ssh", "cups"},
   service_status |-> SUBSET {"ssh"}])

ServicesRecords(r) ==
  LET merged == r["list_units"].text \union r["list_files"].text
  IN  IF merged # {} THEN merged ELSE r["service_status"].text

(* Users: getent if it succeeded, even with nothing to say, else the file; *)
(* id is asked for each user when no group has a member, until it is found *)
(* to be missing.                                                          *)
UsersStage == Scanner(
  <<"getent_passwd", "getent_group", "cat_passwd", "cat_group", "id_root", "id_svc">>,
  [getent_passwd |-> SUBSET {"root", "svc"}, getent_group |-> SUBSET {"member"},
   cat_passwd |-> SUBSET {"root", "svc"}, cat_group |-> SUBSET {"member"},
   id_root |-> SUBSET {"groups"}, id_svc |-> SUBSET {"groups"}])

PasswdText(r) ==
  IF Succeeded(r, "getent_passwd") THEN r["getent_passwd"].text ELSE r["cat_passwd"].text
GroupText(r) ==
  IF Succeeded(r, "getent_group") THEN r["getent_group"].text ELSE r["cat_group"].text

UsersAsks(c, r) ==
  /\ c \in {"id_root", "id_svc"} => GroupText(r) = {}
  /\ c = "id_root" => "root" \in PasswdText(r)
  /\ c = "id_svc"  => "svc" \in PasswdText(r) /\ r["id_root"].fate # "missing"

UsersRecords(r) == PasswdText(r)

(* File systems: a path that find prints replaces the mount point of the   *)
(* same path.                                                              *)
Filesystem == Scanner(<<"mount", "df", "find_writable", "find_suid", "stat">>,
  [mount |-> SUBSET {"/", "/tmp"}, df |-> SUBSET {"/", "/boot"},
   find_writable |-> SUBSET {"/tmp"}, find_suid |-> SUBSET {"/bin/su"},
   stat |-> SUBSET {"mode"}])

FilesystemAsks(c, r) == c = "stat" => r["mount"].text # {}

FilesystemRecords(r) ==
  LET found  == r["find_writable"].text \union r["find_suid"].text
      mounts == r["mount"].text \union r["df"].text
  IN  {<<p, "mount">> : p \in mounts \ found} \union {<<p, "found">> : p \in found}

(* Interfaces, sockets and routes, each from one of two commands.          *)
NetworkStage == Scanner(<<"ip_addr", "ifconfig", "ip_route", "route_n", "ss", "netstat">>,
  [ip_addr  |-> {{}, {"chatter"}, {"eth0", "chatter"}}, ifconfig |-> SUBSET {"eth0"},
   ip_route |-> SUBSET {"default"}, route_n |-> SUBSET {"default"},
   ss |-> SUBSET {"tcp_22"}, netstat |-> SUBSET {"tcp_22"}])

NetworkRecords(r)  == Preferred(r, "ip_addr", "ifconfig") \intersect {"eth0"}
ListeningPorts(r)  == Preferred(r, "ss", "netstat")
NetworkRoutes(r)   == Preferred(r, "ip_route", "route_n")

Capabilities == Scanner(<<"getcap", "stat">>,
  [getcap |-> SUBSET {"/bin/ping", "/opt/tool"}, stat |-> SUBSET {"mode"}])
CapabilitiesAsks(c, r) == c = "stat" => r["getcap"].text # {}
CapabilitiesRecords(r) == r["getcap"].text

(* Sudo: the rules of sudo -l, else those of /etc/sudoers, else those of   *)
(* the files under /etc/sudoers.d.                                         *)
Sudo == Scanner(<<"sudo_l", "cat_sudoers", "ls_sudoers_d", "cat_dropin">>,
  [sudo_l |-> SUBSET {"rule"}, cat_sudoers |-> SUBSET {"rule"},
   ls_sudoers_d |-> SUBSET {"file"}, cat_dropin |-> SUBSET {"rule"}])

SudoKnown(r) ==
  IF r["sudo_l"].text # {} THEN r["sudo_l"].text ELSE r["cat_sudoers"].text
SudoAsks(c, r) == c = "cat_dropin" => SudoKnown(r) = {} /\ Says(r, "ls_sudoers_d", "file")
SudoRecords(r) == SudoKnown(r) \union r["cat_dropin"].text

(* Processes: ps -ef is asked, but a CommandResult is never false, so the  *)
(* text that is read is always that of ps aux.                             *)
Processes == Scanner(<<"ps_aux", "ps_ef">>,
  LET lines == SUBSET {"init", "netcat", "/tmp/job", "51_root"}
  IN  [ps_aux |-> lines, ps_ef |-> lines])

ProcessesRecords(r)  == r["ps_aux"].text
ProcessesFindings(r) == r["ps_aux"].text \ {"init"}

PackagesStage == Scanner(<<"dpkg_l", "apt_sources", "apt_sources_d", "apt_mark">>,
  [dpkg_l |-> SUBSET {"libc6", "telnetd"}, apt_sources |-> SUBSET {"stable", "sid"},
   apt_sources_d |-> SUBSET {"file"}, apt_mark |-> SUBSET {"held"}])

PackagesRecords(r)  == r["dpkg_l"].text
PackagesStageFindings(r) == UNION {
  Raised("sensitive_package", Says(r, "dpkg_l", "telnetd")),
  Raised("unstable_source",   Says(r, "apt_sources", "sid"))}

(* Logs: the four files are read; of last and lastb nothing is.            *)
Logs ==
  LET events == SUBSET {"failed_login", "root_login", "many_sudo"}
  IN  Scanner(<<"auth_log", "secure_log", "messages", "syslog", "lastb", "last">>,
        [auth_log |-> events, secure_log |-> events, messages |-> {{}, {"failed_login"}},
         syslog |-> {{}, {"root_login"}}, lastb |-> SUBSET {"text"}, last |-> SUBSET {"text"}])

LogsRecords(r) ==
  UNION {r[c].text : c \in {"auth_log", "secure_log", "messages", "syslog"}}
LogsFindings(r) == LogsRecords(r)

InventoryScanners ==
  [system_info |-> SystemInfo, services |-> Services, users |-> UsersStage,
   filesystem |-> Filesystem, network |-> NetworkStage, capabilities |-> Capabilities,
   sudo |-> Sudo, processes |-> Processes, packages |-> PackagesStage, logs |-> Logs]

InventoryAsks(s, c, r) ==
  CASE s = "users"        -> UsersAsks(c, r)
    [] s = "filesystem"   -> FilesystemAsks(c, r)
    [] s = "capabilities" -> CapabilitiesAsks(c, r)
    [] s = "sudo"         -> SudoAsks(c, r)
    [] OTHER              -> TRUE

InventoryRecords(s, r) ==
  CASE s = "system_info"  -> SystemInfoRecords(r)
    [] s = "services"     -> ServicesRecords(r)
    [] s = "users"        -> UsersRecords(r)
    [] s = "filesystem"   -> FilesystemRecords(r)
    [] s = "network"      -> NetworkRecords(r)
    [] s = "capabilities" -> CapabilitiesRecords(r)
    [] s = "sudo"         -> SudoRecords(r)
    [] s = "processes"    -> ProcessesRecords(r)
    [] s = "packages"     -> PackagesRecords(r)
    [] s = "logs"         -> LogsRecords(r)

StageFindings(s, r) ==
  CASE s = "processes" -> ProcessesFindings(r)
    [] s = "packages"  -> PackagesStageFindings(r)
    [] s = "logs"      -> LogsFindings(r)
    [] OTHER           -> {}
=============================================================================

---------------------------- MODULE HostExposure ----------------------------
(***************************************************************************)
(* The stages of vina/scanners/os that look for ways to a higher privilege *)
(* and for what is left in the open.                                       *)
(***************************************************************************)
EXTENDS HostCommands

(* ls -l: the scanners test perm[3], which is the owner's execute bit, for *)
(* "w"; a file that its group or others may write is in the second set.    *)
OwnerExecute == {"x", "-"}
Listing == {{}} \union {{bit} : bit \in OwnerExecute} \union {{bit, "loose"} : bit \in OwnerExecute}
WritableEntry(r, c) == Says(r, c, "w")

(* Privilege escalation: two of the five cron directories.                 *)
PrivilegeEscalation == Scanner(
  <<"suid", "getcap", "sudo_l", "writable_dirs", "systemctl", "crontab_l", "cat_crontab",
    "ls_cron_d", "ls_cron_daily">>,
  [suid |-> SUBSET {"/bin/su"}, getcap |-> SUBSET {"/bin/ping"},
   sudo_l |-> SUBSET {"nopasswd_all", "nopasswd", "password_all"},
   writable_dirs |-> SUBSET {"/etc/x", "/tmp"}, systemctl |-> SUBSET {"service"},
   crontab_l |-> SUBSET {"job"}, cat_crontab |-> SUBSET {"job"},
   ls_cron_d |-> Listing, ls_cron_daily |-> Listing])

BinariesToRoot(r) == r["suid"].text \union r["getcap"].text
SudoToRoot(r) == r["sudo_l"].text
UnitsToRoot(r) == UNION {
  Raised("writable_dirs",    Says(r, "writable_dirs", "/etc/x")),
  Raised("systemd_services", Says(r, "systemctl", "service"))}
JobsToRoot(r) == UNION {
  Raised("cron_jobs",        Says(r, "crontab_l", "job") \/ Says(r, "cat_crontab", "job")),
  Raised("cron.d",           WritableEntry(r, "ls_cron_d")),
  Raised("cron.daily",       WritableEntry(r, "ls_cron_daily"))}

PrivilegeEscalationFindings(r) ==
  BinariesToRoot(r) \union SudoToRoot(r) \union UnitsToRoot(r) \union JobsToRoot(r)

(* sshd_config is read whatever cat's exit code.  The first two keywords   *)
(* are compared with their case, the others without.                       *)
SshSettings ==
  {"PermitRootLogin_yes", "permitrootlogin_yes", "PasswordAuthentication_yes",
   "PasswordAuthentication_no", "PermitEmptyPasswords_yes", "MaxAuthTries_5",
   "LoginGraceTime_0", "weak_Ciphers", "AllowUsers"}

Ssh ==
  [Scanner(<<"sshd_config", "ssh_config", "ls_ssh", "auth_root", "known_hosts">>,
     [sshd_config |-> SUBSET SshSettings, ssh_config |-> {{}}, ls_ssh |-> {{}},
      auth_root |-> SUBSET {"key"}, known_hosts |-> SUBSET {"host"}])
   EXCEPT !.partial = {"sshd_config"}]

SshRecords(r)  == r["sshd_config"].text
SshLoginSettings ==
  {"PermitRootLogin_yes", "PasswordAuthentication_yes", "PasswordAuthentication_no",
   "PermitEmptyPasswords_yes"}
SshLimitSettings == {"MaxAuthTries_5", "LoginGraceTime_0", "weak_Ciphers"}

SshFindings(r) ==
  (r["sshd_config"].text \intersect (SshLoginSettings \union SshLimitSettings))
    \union Raised("unrestricted", ~Says(r, "sshd_config", "AllowUsers"))

(* Cron: the entries of both crontabs; the directories are no records.     *)
Cron ==
  [Scanner(<<"cat_crontab", "crontab_l", "ls_cron_d", "ls_cron_daily">>,
     [cat_crontab |-> SUBSET {"root_curl", "backup"}, crontab_l |-> SUBSET {"job"},
      ls_cron_d |-> Listing, ls_cron_daily |-> Listing])
   EXCEPT !.partial = {"ls_cron_d", "ls_cron_daily"}]

CronRecords(r)  == r["cat_crontab"].text \union r["crontab_l"].text
CronFindings(r) == UNION {
  Raised("root_job",   Says(r, "cat_crontab", "root_curl")),
  Raised("cron.d",     WritableEntry(r, "ls_cron_d")),
  Raised("cron.daily", WritableEntry(r, "ls_cron_daily"))}

(* exec_start of a service is never filled, so no ExecStart is suspicious. *)
Systemd == Scanner(<<"list_units", "list_timers", "find_writable">>,
  [list_units |-> SUBSET {"sshd_enabled", "cron_enabled", "sshd_disabled"},
   list_timers |-> SUBSET {"timer"}, find_writable |-> SUBSET {"unit"}])

SystemdRecords(r)  == r["list_units"].text
SystemdFindings(r) == UNION {
  Raised("enabled_service", Says(r, "list_units", "sshd_enabled")),
  Raised("writable_unit",   Says(r, "find_writable", "unit"))}

(* Docker: no container is ever found privileged, whatever inspect says.   *)
Docker ==
  [Scanner(<<"which_docker", "docker_ps", "docker_inspect", "stat_sock", "ls_sock", "getent_group">>,
     [which_docker |-> SUBSET {"path"}, docker_ps |-> SUBSET {"container"},
      docker_inspect |-> SUBSET {"privileged"}, stat_sock |-> {{}},
      ls_sock |-> SUBSET {"world_writable"}, getent_group |-> SUBSET {"member"}])
   EXCEPT !.partial = {"ls_sock"}]

DockerRecords(r)  == r["docker_ps"].text
DockerFindings(r) == UNION {
  Raised("installed",   Says(r, "which_docker", "path")),
  Raised("open_socket", Says(r, "ls_sock", "world_writable")),
  Raised("docker_group", Says(r, "getent_group", "member"))}

(* Environment: /etc/environment is parsed only if env had something to    *)
(* say; every entry of PATH (two here) is asked for with stat and ls.      *)
Environment == Scanner(
  <<"env", "cat_env", "cat_profile", "cat_bashrc", "stat_1", "ls_1", "stat_2", "ls_2">>,
  [env |-> SUBSET {"HOME", "DB_PASSWORD"}, cat_env |-> SUBSET {"LANG", "API_TOKEN"},
   cat_profile |-> {{}}, cat_bashrc |-> {{}}, stat_1 |-> {{}}, ls_1 |-> SUBSET {"writable"},
   stat_2 |-> {{}}, ls_2 |-> SUBSET {"writable"}])

EnvironmentRecords(r) ==
  IF r["env"].text = {} THEN {} ELSE r["env"].text \union r["cat_env"].text
EnvironmentFindings(r) ==
  (EnvironmentRecords(r) \intersect {"DB_PASSWORD", "API_TOKEN"})
    \union Raised("writable_path", Says(r, "ls_1", "writable") \/ Says(r, "ls_2", "writable"))

(* Secrets: the results of the last three commands are looked up under     *)
(* names they are not stored under, so no credential file is ever read.    *)
SecretCommands ==
  <<"ls_ssh", "ssh_id_rsa", "ssh_authorized", "ssh_config", "find_pem", "find_key", "ls_ssl",
    "my_cnf", "netrc", "pgpass", "find_env">>
Secrets == Scanner(SecretCommands,
  [c \in {SecretCommands[i] : i \in 1..Len(SecretCommands)} |->
     IF c \in {"ls_ssh", "ls_ssl"} THEN {{}} ELSE SUBSET {c}])

SecretsRecords(r) ==
  UNION {r[c].text : c \in {"ssh_id_rsa", "ssh_authorized", "ssh_config",
                            "find_pem", "find_key", "find_env"}}
SecretsFindings(r) == SecretsRecords(r)
=============================================================================

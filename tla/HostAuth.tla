------------------------------ MODULE HostAuth ------------------------------
(***************************************************************************)
(* The scanners of vina/scanners/os/auth_security.                         *)
(***************************************************************************)
EXTENDS HostCommands

(* PAM: both directories are listed, every listed file is read, and each   *)
(* file is judged by itself.  A listing's text is read whatever its exit   *)
(* code.  Two files of /etc/pam.d stand for all.                           *)
PamFiles == {"common_password", "sshd"}
PamRules ==
  {{}, {"unix"}, {"unix", "strong_hash"}, {"pwquality", "pwhistory"},
   {"pwquality", "minlen_short", "retry_high", "weak_credit"},
   {"faillock", "deny_high", "unlock_short", "pwhistory", "remember_small"},
   {"pwquality", "faillock", "pwhistory", "unix", "strong_hash"},
   {"pwquality", "minlen_not_a_number"}}

Pam ==
  [Scanner(<<"ls_pam_d", "ls_pam_configs", "common_password", "sshd">>,
     [ls_pam_d |-> SUBSET PamFiles, ls_pam_configs |-> {{}},
      common_password |-> PamRules, sshd |-> PamRules])
   EXCEPT !.partial = {"ls_pam_d"}]

PamAsks(c, r) == c \in PamFiles => Says(r, "ls_pam_d", c)

PamModules(rules) == UNION {
  Raised("no_pwquality",  "pwquality" \notin rules),
  Raised("short_minlen",  "minlen_short" \in rules),
  Raised("no_faillock",   "faillock" \notin rules),
  Raised("no_pwhistory",  "pwhistory" \notin rules),
  Raised("weak_hash",     "unix" \in rules /\ "strong_hash" \notin rules)}

PamLimits(rules) == UNION {
  Raised("high_deny",     "faillock" \in rules /\ "deny_high" \in rules),
  Raised("short_unlock",  "faillock" \in rules /\ "unlock_short" \in rules),
  Raised("small_history", "pwhistory" \in rules /\ "remember_small" \in rules),
  Raised("high_retry",    "pwquality" \in rules /\ "retry_high" \in rules),
  Raised("weak_credit",   "pwquality" \in rules /\ "weak_credit" \in rules)}

PamFilesRead(r) == {f \in PamFiles : Succeeded(r, f) /\ r[f].text # {}}
PamFindings(r) ==
  UNION {PamModules(r[f].text) \union PamLimits(r[f].text) : f \in PamFilesRead(r)}

(* int(minlen) stands outside the try blocks around the other numbers.     *)
PamRaises(r) == \E f \in PamFilesRead(r) : "minlen_not_a_number" \in r[f].text

(* Passwords: the users of /etc/passwd joined with what /etc/shadow says.  *)
Users == {"root", "svc"}
ShadowLines == {<<"root", "empty_hash">>, <<"root", "min_age">>, <<"svc", "weak_hash">>,
                <<"svc", "min_age">>, <<"svc", "max_age_over_90">>}

Password == Scanner(<<"passwd", "shadow", "stat_passwd", "stat_shadow">>,
  [passwd |-> SUBSET Users, shadow |-> SUBSET ShadowLines,
   stat_passwd |-> OneOf({<<4, 0, 2>>, <<6, 4, 4>>}),
   stat_shadow |-> OneOf({<<4, 0, 2>>, <<6, 4, 0>>})])

PasswordEntries(r) == r["passwd"].text \X {"empty_hash", "weak_hash", "min_age", "max_age_over_90"}

PasswordFindings(r) ==
  LET known == PasswordEntries(r) \intersect r["shadow"].text
      wrong(c, modes) == Succeeded(r, c) /\ ModeOf(r, c) \notin modes
  IN  UNION {
        Raised(<<"passwd_mode", "-">>, wrong("stat_passwd", {<<6, 4, 4>>, <<4, 4, 4>>})),
        Raised(<<"shadow_mode", "-">>,
               wrong("stat_shadow", {<<0, 0, 0>>, <<4, 0, 0>>, <<6, 0, 0>>, <<6, 4, 0>>})),
        {<<"empty_password", e[1]>> : e \in {k \in known : k[2] = "empty_hash"}},
        {<<"weak_hash", e[1]>>      : e \in {k \in known : k[2] = "weak_hash"}},
        {<<"max_age", e[1]>>        : e \in {k \in known : k[2] = "max_age_over_90"}},
        {<<"no_min_age", u>> : u \in {v \in r["passwd"].text : <<v, "min_age">> \notin known}}}

(* Credentials: each file that find prints is read and searched.           *)
Credentials == Scanner(<<"find", "cat_env", "cat_proc">>,
  [find |-> SUBSET {"/srv/.env", "/proc/1/.env"},
   cat_env |-> SUBSET {"password", "aws_secret_key"}, cat_proc |-> SUBSET {"password"}])

(* _IGNORE_PATHS: what lies under /proc is not read.                       *)
CredentialsAsks(c, r) ==
  CASE c = "cat_env"  -> Says(r, "find", "/srv/.env")
    [] c = "cat_proc" -> FALSE
    [] OTHER          -> TRUE

CredentialsFindings(r) == r["cat_env"].text \union r["cat_proc"].text

Sessions == Scanner(
  <<"who", "w", "last", "profile", "history", "environ", "issue", "issue_net",
    "motd", "securetty">>,
  [who |-> SUBSET {"root"}, w |-> {{}}, last |-> {{}},
   profile |-> {{"text"}, {"text", "TMOUT"}}, history |-> SUBSET {"over_500_lines"},
   environ |-> SUBSET {"SSH_AUTH_SOCK"}, issue |-> SUBSET {"\\r"},
   issue_net |-> SUBSET {"\\r"}, motd |-> {{}}, securetty |-> SUBSET {"pts"}])

SessionsFindings(r) == UNION {
  Raised("ssh_agent",       Says(r, "environ", "SSH_AUTH_SOCK")),
  Raised("large_history",   Says(r, "history", "over_500_lines")),
  Raised("no_tmout",        Says(r, "profile", "text") /\ ~Says(r, "profile", "TMOUT")),
  Raised("banner_leak",     Says(r, "issue", "\\r")),
  Raised("net_banner_leak", Says(r, "issue_net", "\\r")),
  Raised("root_terminals",  Says(r, "securetty", "pts")),
  Raised("root_session",    Says(r, "who", "root"))}

(* Polkit: two of the four directories, one rule file in each.  Of the     *)
(* file's mode the character at index 3 is tested for "w"; that is the     *)
(* owner's execute bit, "x" or "-".                                        *)
Polkit == Scanner(<<"ls_share", "cat_share", "ls_etc", "cat_etc">>,
  LET listing == {{}, {"rules", "x"}, {"rules", "-"}}
  IN  [ls_share |-> listing, cat_share |-> SUBSET {"action_id"},
       ls_etc   |-> listing, cat_etc   |-> SUBSET {"action_id"}])

PolkitAsks(c, r) ==
  CASE c = "cat_share" -> Says(r, "ls_share", "rules")
    [] c = "cat_etc"   -> Says(r, "ls_etc", "rules")
    [] OTHER           -> TRUE

PolkitFindings(r) ==
  LET some(fact, commands) == \E c \in commands : Says(r, c, fact)
  IN  UNION {Raised("writable_rules",   some("w", {"ls_share", "ls_etc"})),
             Raised("dangerous_action", some("action_id", {"cat_share", "cat_etc"})),
             Raised("no_rules",         ~some("rules", {"ls_share", "ls_etc"}))}

(* Privilege escalation.  The runner executes echo without a shell: it     *)
(* prints its argument, the literal "$PATH" or "$LD_PRELOAD".  The last    *)
(* digit of the mode is tested for being odd.  getcap lists one file.      *)
PrivescEnhanced == Scanner(
  <<"find_sgid", "find_suid", "find_writable", "timers", "getcap", "echo_path", "stat_dir",
    "echo_ld_preload", "echo_ld_library_path", "capsh">>,
  [find_sgid |-> SUBSET {"binary"}, find_suid |-> SUBSET {"gtfobin"},
   find_writable |-> SUBSET {"system_path"}, timers |-> SUBSET {"timer"},
   getcap |-> SUBSET {"gtfobin", "dangerous_cap"},
   echo_path |-> {{"text"}}, stat_dir |-> OneOf({<<7, 5, 5>>, <<7, 7, 7>>}),
   echo_ld_preload |-> {{"text"}}, echo_ld_library_path |-> {{"text"}},
   capsh |-> SUBSET {"dangerous_bounding", "ambient"}])

PrivescEnhancedAsks(c, r) == c = "stat_dir" => Says(r, "echo_path", "text")

SearchPathFindings(r) == UNION {
  Raised("sgid",             Says(r, "find_sgid", "binary")),
  Raised("writable_scripts", Says(r, "find_writable", "system_path")),
  Raised("timers",           Says(r, "timers", "timer")),
  Raised("writable_path",    /\ Says(r, "echo_path", "absolute")
                             /\ Succeeded(r, "stat_dir") /\ ModeOf(r, "stat_dir")[3] % 2 = 1),
  Raised("ld_preload",       Says(r, "echo_ld_preload", "text")),
  Raised("ld_library_path",  Says(r, "echo_ld_library_path", "text"))}

BinaryFindings(r) == UNION {
  Raised("gtfobins_suid",    Says(r, "find_suid", "gtfobin")),
  Raised("gtfobins_cap",     Says(r, "getcap", "gtfobin")),
  Raised("dangerous_cap",    Says(r, "getcap", "dangerous_cap") /\ ~Says(r, "getcap", "gtfobin")),
  Raised("bounding_set",     Says(r, "capsh", "dangerous_bounding")),
  Raised("ambient_set",      Says(r, "capsh", "ambient"))}

PrivescEnhancedFindings(r) == SearchPathFindings(r) \union BinaryFindings(r)

AuthScanners ==
  [pam |-> Pam, password |-> Password, credentials |-> Credentials,
   sessions |-> Sessions, polkit |-> Polkit, privesc_enhanced |-> PrivescEnhanced]

AuthAsks(s, c, r) ==
  CASE s = "pam"              -> PamAsks(c, r)
    [] s = "credentials"      -> CredentialsAsks(c, r)
    [] s = "polkit"           -> PolkitAsks(c, r)
    [] s = "privesc_enhanced" -> PrivescEnhancedAsks(c, r)
    [] OTHER                  -> TRUE

AuthFindings(s, r) ==
  CASE s = "pam"              -> PamFindings(r)
    [] s = "password"         -> PasswordFindings(r)
    [] s = "credentials"      -> CredentialsFindings(r)
    [] s = "sessions"         -> SessionsFindings(r)
    [] s = "polkit"           -> PolkitFindings(r)
    [] s = "privesc_enhanced" -> PrivescEnhancedFindings(r)
=============================================================================

------------------------------ MODULE HostBoot ------------------------------
(***************************************************************************)
(* The scanners of vina/scanners/os/boot_security.                         *)
(***************************************************************************)
EXTENDS HostCommands

(* GRUB: the paths are tried until stat finds one (two of six here), then  *)
(* the file is read.                                                       *)
Grub == Scanner(<<"stat_grub", "stat_grub2", "cat_cfg">>,
  LET stat == {{m, owner} : m \in {<<4, 0, 2>>, <<6, 0, 0>>, <<6, 4, 4>>},
                            owner \in {<<"root">>, <<"other">>}}
  IN  [stat_grub |-> stat, stat_grub2 |-> stat,
       cat_cfg |-> {{}, {"entry"}, {"password", "entry"},
                    {"entry", "unrestricted"}, {"password", "entry", "unrestricted"},
                    {"password", "entry", "unrestricted", "restricted"}}])

GrubAsks(c, r) ==
  CASE c = "stat_grub2" -> ~Succeeded(r, "stat_grub")
    [] c = "cat_cfg"    -> Succeeded(r, "stat_grub") \/ Succeeded(r, "stat_grub2")
    [] OTHER            -> TRUE

GrubFound(r) == {c \in {"stat_grub", "stat_grub2"} : Succeeded(r, c)}

GrubFindings(r) ==
  IF GrubFound(r) = {}
  THEN {"grub_not_found"}
  ELSE UNION {
    Raised("cfg_open",     \E c \in GrubFound(r) : ModeAbove(r, c, 600)),
    Raised("cfg_owner",    \E c \in GrubFound(r) : <<"root">> \notin r[c].text),
    Raised("no_password",  ~Says(r, "cat_cfg", "password")),
    Raised("unrestricted", /\ Says(r, "cat_cfg", "password")
                           /\ Says(r, "cat_cfg", "unrestricted")
                           /\ ~Says(r, "cat_cfg", "restricted"))}

(* The command whose result becomes command_result.                        *)
GrubPrimary(r) ==
  IF GrubFound(r) # {} THEN "cat_cfg" ELSE "stat_grub2"

(* Secure Boot: a path is probed first, without a command ("efi_dir").     *)
SecureBoot ==
  [Scanner(<<"efi_dir", "sb_state", "bootctl", "efibootmgr", "pk">>,
     [efi_dir |-> {{}}, sb_state |-> {{}, {"text"}, {"text", "enabled"}},
      bootctl |-> SUBSET {"enabled"}, efibootmgr |-> SUBSET {"Boot"},
      pk |-> SUBSET {"PK"}])
   EXCEPT !.certain = {"efi_dir"}]

SecureBootAsks(c, r) ==
  /\ c # "efi_dir" => Succeeded(r, "efi_dir")
  /\ c = "bootctl" => ~Says(r, "sb_state", "text")

SecureBootFindings(r) ==
  IF ~Succeeded(r, "efi_dir")
  THEN {"legacy_bios"}
  ELSE LET enabled == Says(r, "sb_state", "enabled") \/ Says(r, "bootctl", "enabled")
       IN  UNION {Raised("secure_boot_off", ~enabled), Raised("secure_boot_on", enabled),
                  Raised("custom_keys", Says(r, "pk", "PK"))}

SecureBootWarns(r) == Succeeded(r, "efi_dir") /\ ~Says(r, "efibootmgr", "Boot")

KernelParams == Scanner(<<"cmdline", "grep_sulogin", "cat_units">>,
  [cmdline |-> SUBSET {"init=/bin/sh", "mitigations=off", "selinux=0", "apparmor=0"},
   grep_sulogin |-> {{}}, cat_units |-> SUBSET {"ExecStart=-/bin/sh"}])

KernelParamsFindings(r) == r["cmdline"].text \union r["cat_units"].text

(* One initramfs image; find prints it with its mode, which stat is asked  *)
(* for again.                                                              *)
BootFiles == Scanner(<<"find_owners", "find_writable", "find_initrd", "stat_initrd">>,
  [find_owners |-> SUBSET {"file"}, find_writable |-> SUBSET {"file"},
   find_initrd |-> SUBSET {"file"}, stat_initrd |-> OneOf(Modes)])

BootFilesAsks(c, r) == c = "stat_initrd" => Says(r, "find_initrd", "file")

BootFilesFindings(r) == UNION {
  Raised("not_root_owned", Says(r, "find_owners", "file")),
  Raised("world_writable", Says(r, "find_writable", "file")),
  Raised("initramfs_open", ModeAbove(r, "stat_initrd", 600))}

BootScanners ==
  [grub |-> Grub, secure_boot |-> SecureBoot,
   kernel_params |-> KernelParams, boot_files |-> BootFiles]

BootAsks(s, c, r) ==
  CASE s = "grub"        -> GrubAsks(c, r)
    [] s = "secure_boot" -> SecureBootAsks(c, r)
    [] s = "boot_files"  -> BootFilesAsks(c, r)
    [] OTHER             -> TRUE

BootFindings(s, r) ==
  CASE s = "grub"          -> GrubFindings(r)
    [] s = "secure_boot"   -> SecureBootFindings(r)
    [] s = "kernel_params" -> KernelParamsFindings(r)
    [] s = "boot_files"    -> BootFilesFindings(r)
=============================================================================

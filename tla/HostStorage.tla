----------------------------- MODULE HostStorage ----------------------------
(***************************************************************************)
(* The scanners of vina/scanners/os/storage_security.                      *)
(***************************************************************************)
EXTENDS HostCommands

Permissions == Scanner(<<"stat_passwd", "stat_shadow", "stat_sudoers", "find_suid">>,
  [stat_passwd |-> OneOf(Modes), stat_shadow |-> OneOf(Modes),
   stat_sudoers |-> OneOf(Modes), find_suid |-> SUBSET {"suid"}])

PermissionsFindings(r) == UNION {
  Raised("passwd_open",  ModeAbove(r, "stat_passwd", 644)),
  Raised("shadow_open",  ModeAbove(r, "stat_shadow", 640)),
  Raised("sudoers_open", ModeAbove(r, "stat_sudoers", 440)),
  Raised("suid_files",   Says(r, "find_suid", "suid"))}

Mounts == Scanner(<<"mounts", "exports", "smb_conf">>,
  [mounts   |-> SUBSET {"tmp_unrestricted", "shm_unrestricted"},
   exports  |-> SUBSET {"no_root_squash"},
   smb_conf |-> SUBSET {"guest_ok", "public"}])

MountsFindings(r) == UNION {
  Raised("tmp_options",  Says(r, "mounts", "tmp_unrestricted")),
  Raised("shm_options",  Says(r, "mounts", "shm_unrestricted")),
  Raised("nfs_root",     Says(r, "exports", "no_root_squash")),
  Raised("samba_guest",  Says(r, "smb_conf", "guest_ok") \/ Says(r, "smb_conf", "public"))}

Encryption == Scanner(<<"lsblk", "swaps", "crypttab">>,
  [lsblk    |-> SUBSET {"crypt"},
   swaps    |-> {{}, {"swap"}, {"swap", "dm-"}},
   crypttab |-> SUBSET {"swap"}])

EncryptionAsks(c, r) == c = "crypttab" => Says(r, "swaps", "swap")

EncryptionFindings(r) == UNION {
  Raised("no_luks",    ~Says(r, "lsblk", "crypt")),
  Raised("plain_swap", /\ Says(r, "swaps", "swap")
                       /\ ~Says(r, "swaps", "dm-")
                       /\ ~Says(r, "crypttab", "swap"))}

Integrity == Scanner(<<"which_aide", "which_tripwire", "lsattr">>,
  [which_aide |-> {{}}, which_tripwire |-> {{}}, lsattr |-> SUBSET {"immutable"}])

\* mutant: the test for immutable files is turned round
NothingProtected(r) == UNION {
  Raised("no_fim",    ~Succeeded(r, "which_aide") /\ ~Succeeded(r, "which_tripwire")),
  Raised("immutable", ~Says(r, "lsattr", "immutable"))}

IntegrityFindings(r) == UNION {
  Raised("no_fim",    ~Succeeded(r, "which_aide") /\ ~Succeeded(r, "which_tripwire")),
  Raised("immutable", Says(r, "lsattr", "immutable"))}

StorageScanners ==
  [permissions |-> Permissions, mounts |-> Mounts,
   encryption |-> Encryption, integrity |-> Integrity]

StorageFindings(s, r) ==
  CASE s = "permissions" -> PermissionsFindings(r)
    [] s = "mounts"      -> MountsFindings(r)
    [] s = "encryption"  -> EncryptionFindings(r)
    [] s = "integrity"   -> IntegrityFindings(r)
=============================================================================

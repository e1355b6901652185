---------------------------- MODULE HostPackages ----------------------------
(***************************************************************************)
(* The scanners of vina/scanners/os/packages_security.  The packages that  *)
(* the first one lists are handed to supply_chain and inventory, the       *)
(* repositories of the second to inventory: these two start from the       *)
(* results of the others, which r holds under the same command names.      *)
(***************************************************************************)
EXTENDS HostCommands

(* Package managers.  A package is a name; "openssl-1.1" and "python-3.8"  *)
(* are past their end of life, "reqests" is close to a popular name.       *)
(* cargo prints "name v1.0:" and its parser skips lines that end in ":".   *)
Managers == {"dpkg", "rpm", "snap", "flatpak", "pip", "npm", "cargo", "gem"}
Lists(manager) ==
  CASE manager = "dpkg" -> SUBSET {"openssl-1.1", "python-3.8"}
    [] manager = "pip"  -> {{}, {"reqests"}}
    [] OTHER            -> {{}, {"text"}}

PackageManagers == Scanner(
  <<"dpkg", "rpm", "snap", "flatpak", "pip", "npm", "cargo", "gem", "go">>,
  [c \in Managers \union {"go"} |-> IF c = "go" THEN {{}} ELSE Lists(c)])

ActiveManagers(r) ==
  {m \in Managers : Succeeded(r, m) /\ r[m].text # {}}
    \union {m \in {"go"} : Succeeded(r, m)}

PackagesOf(r) ==
  UNION {r[m].text : m \in ActiveManagers(r) \ {"cargo"}} \ {"text"}

PackageManagersFindings(r) == ActiveManagers(r)

(* Repositories: sources.list, and one file of sources.list.d.             *)
Repos == {"official", "http", "third_party", "trusted=yes", "listed_twice"}
Repositories == Scanner(
  <<"sources_list", "ls_sources_d", "cat_source", "stat_gpg", "apt_key">>,
  [sources_list |-> SUBSET Repos, ls_sources_d |-> SUBSET {"list"},
   cat_source |-> {{}, {"official"}, {"http", "third_party"}},
   stat_gpg |-> SUBSET {"over_32_bytes"}, apt_key |-> SUBSET {"expired", "weak"}])

RepositoriesAsks(c, r) == c = "cat_source" => Says(r, "ls_sources_d", "list")

RepositoriesFindings(r) ==
  LET first  == r["sources_list"].text
      second == r["cat_source"].text
  IN  UNION {
        Raised("unsigned",    "trusted=yes" \in first \union second),
        Raised("http",        "http" \in first \union second),
        Raised("third_party", "third_party" \in first \union second),
        Raised("duplicate",   first \intersect second # {} \/ "listed_twice" \in first),
        Raised("old_keyring", Says(r, "stat_gpg", "over_32_bytes")),
        Raised("expired_key", Says(r, "apt_key", "expired")),
        Raised("weak_key",    Says(r, "apt_key", "weak"))}

(* debsums exits with an error when it has something to report.            *)
PackageIntegrity ==
  [Scanner(<<"showhold", "dpkg_audit", "debsums", "deborphan", "rpm_sig">>,
     [c \in {"showhold", "dpkg_audit", "debsums", "deborphan", "rpm_sig"} |-> SUBSET {"text"}])
   EXCEPT !.partial = {"debsums"}]

PackageIntegrityFindings(r) == UNION {
  Raised("held",     Says(r, "showhold", "text")),
  Raised("broken",   Says(r, "dpkg_audit", "text")),
  Raised("modified", Says(r, "debsums", "text")),
  Raised("orphaned", Says(r, "deborphan", "text")),
  Raised("unsigned", Says(r, "rpm_sig", "text"))}

(* Supply chain.  dpkg -S fails for a file that no package owns, and when  *)
(* it cannot be run.  The second history file is read only if the first    *)
(* one shows no installer.                                                 *)
SupplyChain == Scanner(
  <<"pip", "sources_list", "ls_local_bin", "dpkg_S", "bash_history", "zsh_history">>,
  [pip |-> Lists("pip"), sources_list |-> SUBSET {".xyz"}, ls_local_bin |-> SUBSET {"binary"},
   dpkg_S |-> {{}}, bash_history |-> SUBSET {"curl|sh"}, zsh_history |-> SUBSET {"curl|sh"}])

SupplyChainAsks(c, r) ==
  /\ c = "dpkg_S"      => Says(r, "ls_local_bin", "binary")
  /\ c = "zsh_history" => ~Says(r, "bash_history", "curl|sh")

SupplyChainFindings(r) == UNION {
  Raised("typosquat",      Says(r, "pip", "reqests")),
  Raised("suspicious_tld", Says(r, "sources_list", ".xyz")),
  Raised("untracked",      Says(r, "ls_local_bin", "binary") /\ ~Succeeded(r, "dpkg_S")),
  Raised("piped_install",  \E c \in {"bash_history", "zsh_history"} : Says(r, c, "curl|sh"))}

Inventory == Scanner(<<"dpkg", "os_release">>,
  [dpkg |-> Lists("dpkg"), os_release |-> {{}, {"ubuntu", "18.04"}, {"ubuntu"}, {"18.04"}}])

InventoryFindings(r) == UNION {
  Raised("eol_openssl", Says(r, "dpkg", "openssl-1.1")),
  Raised("eol_python",  Says(r, "dpkg", "python-3.8")),
  Raised("eol_ubuntu",  Says(r, "os_release", "ubuntu") /\ Says(r, "os_release", "18.04"))}

PackagesScanners ==
  [managers |-> PackageManagers, repositories |-> Repositories,
   package_integrity |-> PackageIntegrity, supply_chain |-> SupplyChain,
   inventory |-> Inventory]

PackagesAsks(s, c, r) ==
  CASE s = "repositories" -> RepositoriesAsks(c, r)
    [] s = "supply_chain" -> SupplyChainAsks(c, r)
    [] OTHER              -> TRUE

PackagesFindings(s, r) ==
  CASE s = "managers"          -> PackageManagersFindings(r)
    [] s = "repositories"      -> RepositoriesFindings(r)
    [] s = "package_integrity" -> PackageIntegrityFindings(r)
    [] s = "supply_chain"      -> SupplyChainFindings(r)
    [] s = "inventory"         -> InventoryFindings(r)
=============================================================================

---------------------------- MODULE HostDesktop -----------------------------
(***************************************************************************)
(* The scanners of vina/scanners/os/gui_security.                          *)
(***************************************************************************)
EXTENDS HostCommands

(* Display managers: the main file of each, and one file of its drop-in    *)
(* directory if find lists it.  One of three GDM paths.                    *)
DesktopScanner == Scanner(
  <<"gdm_conf", "find_lightdm", "lightdm_conf", "lightdm_dropin", "find_sddm",
    "sddm_conf", "sddm_dropin", "pgrep_xorg", "pgrep_wayland">>,
  [gdm_conf |-> SUBSET {"AutomaticLoginEnable"}, find_lightdm |-> SUBSET {"file"},
   lightdm_conf |-> SUBSET {"autologin-user", "allow-guest"},
   lightdm_dropin |-> SUBSET {"autologin-user", "allow-guest"},
   find_sddm |-> SUBSET {"file"}, sddm_conf |-> SUBSET {"[Autologin]"},
   sddm_dropin |-> SUBSET {"[Autologin]"}, pgrep_xorg |-> {{}}, pgrep_wayland |-> {{}}])

DesktopAsks(c, r) ==
  /\ c = "lightdm_dropin" => Says(r, "find_lightdm", "file")
  /\ c = "sddm_dropin"    => Says(r, "find_sddm", "file")

DesktopFindings(r) ==
  LET Configured(files, option) == {<<option, c>> : c \in {f \in files : Says(r, f, option)}}
  IN  UNION {
        Configured({"gdm_conf"}, "AutomaticLoginEnable"),
        Configured({"lightdm_conf", "lightdm_dropin"}, "autologin-user"),
        Configured({"lightdm_conf", "lightdm_dropin"}, "allow-guest"),
        Configured({"sddm_conf", "sddm_dropin"}, "[Autologin]"),
        Raised(<<"legacy_x11", "-">>,
               Succeeded(r, "pgrep_xorg") /\ ~Succeeded(r, "pgrep_wayland"))}

RemoteDesktop == Scanner(<<"pgrep_vnc", "xrdp_ini">>,
  [pgrep_vnc |-> {{}}, xrdp_ini |-> SUBSET {"security_layer=rdp", "crypt_level=low"}])

RemoteDesktopFindings(r) == UNION {
  Raised("vnc",        Succeeded(r, "pgrep_vnc")),
  Raised("rdp_layer",  Says(r, "xrdp_ini", "security_layer=rdp")),
  Raised("weak_crypt", Says(r, "xrdp_ini", "crypt_level=low"))}

(* Browsers: the Firefox paths are tried until one has text (two of three  *)
(* here); the Chromium policies are read but nothing is reported of them.  *)
Browsers ==
  LET policy == {{}, {"text"}, {"text", "bypasses"}, {"text", "not_json"}}
  IN  Scanner(<<"firefox_etc", "firefox_lib", "find_chromium", "chromium_policy">>,
        [firefox_etc |-> policy, firefox_lib |-> policy,
         find_chromium |-> SUBSET {"file"}, chromium_policy |-> policy])

BrowsersAsks(c, r) ==
  /\ c = "firefox_lib"     => ~Says(r, "firefox_etc", "text")
  /\ c = "chromium_policy" => Says(r, "find_chromium", "file")

BrowsersFindings(r) == UNION {
  Raised("bypasses", \E c \in {"firefox_etc", "firefox_lib"} : Says(r, c, "bypasses"))}

BrowsersWarns(r) ==
  \E c \in {"firefox_etc", "firefox_lib", "chromium_policy"} : Says(r, c, "not_json")

GuiPolkit == Scanner(<<"stat_pkexec", "find_rules", "cat_rule">>,
  [stat_pkexec |-> {{}, {"root"}, {"other"}}, find_rules |-> SUBSET {"file"},
   cat_rule |-> SUBSET {"Result.YES", "auth_admin"}])

GuiPolkitAsks(c, r) == c = "cat_rule" => Says(r, "find_rules", "file")

GuiPolkitFindings(r) == UNION {
  Raised("pkexec_owner", Says(r, "stat_pkexec", "other")),
  Raised("passwordless", Says(r, "cat_rule", "Result.YES") /\ ~Says(r, "cat_rule", "auth_admin"))}

GuiScanners ==
  [desktop |-> DesktopScanner, remote_desktop |-> RemoteDesktop,
   browsers |-> Browsers, gui_polkit |-> GuiPolkit]

GuiAsks(s, c, r) ==
  CASE s = "desktop"    -> DesktopAsks(c, r)
    [] s = "browsers"   -> BrowsersAsks(c, r)
    [] s = "gui_polkit" -> GuiPolkitAsks(c, r)
    [] OTHER            -> TRUE

GuiFindings(s, r) ==
  CASE s = "desktop"        -> DesktopFindings(r)
    [] s = "remote_desktop" -> RemoteDesktopFindings(r)
    [] s = "browsers"       -> BrowsersFindings(r)
    [] s = "gui_polkit"     -> GuiPolkitFindings(r)
=============================================================================

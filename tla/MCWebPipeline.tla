---------------------------- MODULE MCWebPipeline ----------------------------
(* Instances of WebPipeline for TLC.  The whole ten-stage graph is always  *)
(* there; what varies is how the tools may end and which are installed.    *)
EXTENDS WebPipeline

AllInstalled == {ToolStage}
NoWhatweb == {ToolStage \ {"whatweb"}}

Reliable == [s \in ToolStage |-> {"records"}]

(* Discovery may fail for a moment, no port is open, a source of URLs may  *)
(* raise, the last stage times out or has lost its tool.                   *)
Flaky ==
  [s \in ToolStage |->
     CASE s = "httpx"   -> {"records", "transient"}
       [] s = "naabu"   -> {"empty"}
       [] s = "gau"     -> {"records", "raises_transient"}
       [] s = "nuclei"  -> {"timeout", "missing"}
       [] OTHER         -> {"records"}]

Resumed == <<{"fresh"}, {"resume"}>>

(* Whatever was there is cleared first; then plainly or with --resume.     *)
Twice == <<{"force"}, {"fresh", "resume"}>>
=============================================================================

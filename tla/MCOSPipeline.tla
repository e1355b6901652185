---------------------------- MODULE MCOSPipeline ----------------------------
(* An instance of OSPipeline for TLC: two plugins with handlers at the     *)
(* same hook point in the opposite order of their ids, one of them with    *)
(* a handler elsewhere as well; at a third point hooks are only added.     *)
EXTENDS OSPipeline

Hook(pt, n) == [point |-> pt, priority |-> n]

TwoPlugins ==
  [p \in {"a", "b"} |->
     IF p = "a"
     THEN <<Hook("after_vulnerability_lookup", 5), Hook("after_correlation", 0)>>
     ELSE <<Hook("after_vulnerability_lookup", 0)>>]

NothingOrOne == {{}, {"port"}}
MaybeCve     == {{"cve"}}
=============================================================================

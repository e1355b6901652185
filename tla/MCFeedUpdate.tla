---------------------------- MODULE MCFeedUpdate ----------------------------
(* Instances of FeedUpdate for TLC: NVD, whose server replaces its CVEs by *)
(* one that it names twice, CISA KEV, and EPSS, which is switched off.     *)
EXTENDS FeedUpdate

ThreeSources == <<"nvd", "cisa_kev", "epss">>
OneSource  == <<"nvd">>

Served == [s \in {"nvd", "cisa_kev", "epss"} |->
             IF s = "nvd" THEN {<<1, 2>>, <<3, 3>>} ELSE {<<1>>}]
=============================================================================

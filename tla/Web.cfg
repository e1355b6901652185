\* Killed at any point, one write may fail, launched again plainly or with --resume.
SPECIFICATION FairSpec
CONSTANTS
  Stages = {"subfinder", "httpx", "gau", "waybackurls", "naabu", "whatweb", "katana", "nmap", "url_aggregator", "nuclei"}
  Behaviour <- Flaky
  Installations <- NoWhatweb
  Launches <- Twice
  MaxRetries = 1
  FailingSaves = {"url_aggregator"}
  TornWrites = TRUE
INVARIANTS WebTypeOK DataOnlyFromSuccess CompletedStagesRest CheckpointAgrees ResumeKeepsProgress
PROPERTIES CompletedEntriesKept RunsEnd
CHECK_DEADLOCK FALSE

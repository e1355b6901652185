\* A reliable run, killed and resumed.
SPECIFICATION Spec
CONSTANTS
  Stages = {"subfinder", "httpx", "gau", "waybackurls", "naabu", "whatweb", "katana", "nmap", "url_aggregator", "nuclei"}
  Behaviour <- Reliable
  Installations <- AllInstalled
  Launches <- Resumed
  MaxRetries = 0
  FailingSaves = {}
  TornWrites = FALSE
INVARIANT CrawlFeedsAggregation
CHECK_DEADLOCK FALSE

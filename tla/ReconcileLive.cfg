CONSTANTS
  Sandboxes = {s1}
  MaxFailures = 2
  Limits <- LimitsLive
SPECIFICATION FairSpec
PROPERTIES Converges

\* Two deployments in a first wave that waits for a second one.
SPECIFICATION LiveSpec
CONSTANTS
  NoVersion = NoVersion
  Latest = Latest
  Config <- TwinConfigs
  Overlapping <- NoConfigs
  Content <- TwinContent
  Replacement <- TwinReplacement
  MaxEdits <- TwinEdits
  Newest <- TwinNewest
  Horizon = 1
PROPERTIES
  Converges

\* Six configurations, three versions; overlapping reconciles for Pair and Solo. Pair
\* and Solo, and Backward and Hasty, replace each other once.
SPECIFICATION LiveSpec
CONSTANTS
  NoVersion = NoVersion
  Latest = Latest
  Config <- LivenessConfigs
  Overlapping <- OverlappingConfigs
  Content <- LivenessContent
  Replacement <- LivenessReplacement
  MaxEdits <- LivenessEdits
  Newest <- LivenessNewest
  Horizon = 1
PROPERTIES
  Converges

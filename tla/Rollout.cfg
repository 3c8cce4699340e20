\* Eight configurations of two or three deployments, two versions or three; Pair and
\* Solo replace each other twice, Forward, Backward and Hasty once.
SPECIFICATION HistorySpec
CONSTANTS
  NoVersion = NoVersion
  Latest = Latest
  Config <- SafetyConfigs
  Content <- SafetyContent
  Replacement <- SafetyReplacement
  MaxEdits <- SafetyEdits
  Newest <- SafetyNewest
  Horizon = 1
INVARIANTS
  TypeOK
  ReportsTruthful
  NeverAhead
PROPERTIES
  BakedEverywhere
  FirstWaveWaits
  NeverBack

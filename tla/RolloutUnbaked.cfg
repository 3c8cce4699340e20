\* A deployment that follows two without a bake time.
SPECIFICATION HistorySpec
CONSTANTS
  NoVersion = NoVersion
  Latest = Latest
  Config <- UnbakedConfigs
  Content <- UnbakedContent
  Replacement <- UnbakedReplacement
  MaxEdits <- UnbakedEdits
  Newest <- UnbakedNewest
  Horizon = 1
PROPERTIES
  BakedEverywhere

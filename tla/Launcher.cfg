CONSTANTS
  l1 = l1
  l2 = l2
  Launches = {l1, l2}
  Scenes <- MCScenes
  MaxPolls = 1
  PresetFiles <- MCPresetFiles
  RulesFiles = {"rules.yaml"}
  Typed <- MCTyped
  Orders <- MCOrders
  Schemeless = {"pf.example"}
  Numerals <- MCNumerals
  RefusedRedis = {"r.example"}
  UnknownLocales = {"xx_XX"}
SPECIFICATION FairSpec
INVARIANTS GuardrailWired MenuLaunchBoots PatternsLoaded
PROPERTIES OnlyOwnStopped EveryLaunchEnds
CHECK_DEADLOCK FALSE

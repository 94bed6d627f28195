SPECIFICATION Spec
CONSTANTS
  TableOrder <- MCOrder
  TranslationKeys <- MCTranslations
  Data <- MCData
  PoolSizes = {1, 2}
  MaxChanges = 1
  MaxFaults = 1
  MaxBacklog = 2
INVARIANTS RememberedIsLoaded SyncAnswerIsOwn ClientMirrors
PROPERTY CatchesUp

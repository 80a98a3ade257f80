\* Four networks; one run may be cut off.
SPECIFICATION Spec
CONSTANTS
  Networks <- MCNetworks
  Configs <- MCConfigs
  InitialStates <- MCInitialStates
  Tags <- MCTags
  Operated <- MCOperated
  Retried <- MCRetried
  MaxRetried = 4
  MaxCrashes = 1
INVARIANT RatesAsConfigured
PROPERTIES ImplementsHandover EventuallyGoverned MarketsGoLive
CHECK_DEADLOCK FALSE

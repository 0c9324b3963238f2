CONSTANTS
  MAX_CHANNEL_COUNT = 2
  ISR_SIZE = 2
  HostInputs <- MCControlInputs
  MaxTrace = 4
SPECIFICATION FairSpec
INVARIANT ConfigInProgramOrder
PROPERTY EventuallyFinished

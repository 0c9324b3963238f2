CONSTANTS
  MAX_CHANNEL_COUNT = 2
  ISR_SIZE = 2
  HostInputs <- MCHostInputs
  MaxTrace = 4
SPECIFICATION Spec
INVARIANTS
  TypeOK
  StalledExact
  ReceiveNeverThrows
  BlockedUntilServed
  DeliveryInOrder
  CompletedIsDelivered
  EOCIsLast
PROPERTY OneCompletionPerTick

SPECIFICATION GenericSpec
CONSTANTS
  Device <- MCDevice
  Accesses <- MCAccesses
  max_size = 1
  wr_low = 2
  wr_high = 8
  nREFI = 22
  SendCycles = {3, 2, 1}
  MaxReq = 3
INVARIANTS GenericTypeOK NoRequestLost RefreshBeforeNext
PROPERTIES WritesInOrder EverythingServed

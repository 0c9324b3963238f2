CONSTANTS
  Banks = {0, 1}
  Inputs <- MCRefresh
  max_size = 2
  wr_low = 2
  wr_high = 8
  m_num_ranks = 1
  MaxReq = 3
SPECIFICATION FairSpec
INVARIANTS
  ActiveRowKept
PROPERTIES
  EveryRequestServed

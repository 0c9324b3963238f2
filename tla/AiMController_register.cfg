CONSTANTS
  Banks = {0, 1}
  Inputs <- MCRegister
  max_size = 2
  wr_low = 2
  wr_high = 8
  m_num_ranks <- NoRank
  MaxReq = 4
SPECIFICATION Spec
INVARIANTS
  AiMIssuedInOrder
PROPERTIES
  ImplementsChannel

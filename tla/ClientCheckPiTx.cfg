SPECIFICATION Spec
CHECK_DEADLOCK FALSE
CONSTANTS
  MaxCalls = 3
  MaxPackets = 2
  MaxTime = 4
  MaxPrints = 1
INVARIANTS TxRateIsOfBytesSent

SPECIFICATION FairSpec
CHECK_DEADLOCK FALSE
CONSTANTS
  Workers = {w1}
  Jobs = {c1, c2}
  max_queued_requests_ = 1
  keep_alive_max_count_ = 2
  FD_SETSIZE = 2
  MaxAddresses = 1
  MaxFaults = 1
INVARIANTS OneOwner NothingAfterListen CloseIsAnnounced
PROPERTIES AcceptedIsClosed StopEndsListen

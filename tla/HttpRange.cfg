SPECIFICATION Spec
CHECK_DEADLOCK FALSE
CONSTANTS
  Requests <- MCRequests
  MaxRequests = 1
  keep_alive_max_count_ = 2
  payload_max_length_ = 2
  read_buff_size_ = 2
  BodySize = 2
INVARIANTS RangeIsInContent

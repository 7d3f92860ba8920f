SPECIFICATION Spec
CHECK_DEADLOCK FALSE
CONSTANTS
  read_buff_size_ = 4
  CPPHTTPLIB_RECV_BUFSIZ = 5
  fixed_buffer_size_ = 2
  CPPHTTPLIB_HEADER_MAX_LENGTH = 20
  CPPHTTPLIB_RANGE_MAX_COUNT = 4
  ULONG_MAX = 65535
INVARIANTS FormAsSent ReadAsSent RangesRight RoundTrips PathsRight

\* Two sizes of events and an unwanted channel; room for two events in the queue.
CONSTANTS
  Magic = 99
  Radix = 1000
  ChannelLimit = 2
  Arrivals <- MCArrivals
  Unwanted <- MCUnwanted
  MaxMessages = 3
  EventSize = 2
  MaxQueueSize = 7
  FileNames = {0, 1}
  Flag = Flag
  None = None
  Speeds = {0, 2}
  StartTime = 1
  MaxTime = 3
SPECIFICATION Spec
INVARIANTS Accounted Replayed OneToken NeverEarly SeekLands
PROPERTIES LoggerServes EventuallyPlayed
\* the recording and the playing end
CHECK_DEADLOCK FALSE

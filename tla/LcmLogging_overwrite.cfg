CONSTANTS
  Magic = 99
  Radix = 1000
  ChannelLimit = 2
  Arrivals <- MCArrivals
  Unwanted <- MCUnwanted
  MaxMessages = 3
  EventSize = 2
  MaxQueueSize = 7
  FileNames = {0, 1}
  Flag = Flag
  None = None
  Speeds = {0, 2}
  StartTime = 1
  MaxTime = 3
SPECIFICATION Spec
PROPERTIES NeverOverwrites
\* the recording and the playing end
CHECK_DEADLOCK FALSE

CONSTANTS
  MaxCalls = 3
  MaxFaults = 2
  LastUnit = 2
  BLOCK = 2
  PAGE = 8
  SMALL = 2
  LARGE = 4
  Platforms <- AllPlatforms
  Buses <- MCBuses
  Machines <- MCMachines
  Memories <- MCMemories
SPECIFICATION Spec
INVARIANTS ArgumentsArrive OwnReply RoutesRight ChannelClosed
CHECK_DEADLOCK FALSE

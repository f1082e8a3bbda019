CONSTANTS
  Threads = {"t1", "t2"}
  Objects = {"o1", "o2"}
  AddressSpace <- MCAddressSpace
  Regions <- MCRegions
  Used <- MCUsed
  MaxSize = 2
  Servers = {"s1", "s2"}
  Messages = {1, 2}
  TextLen <- MCTextLen
SPECIFICATION MCSpec
INVARIANTS MappingIsKnown ShownWasWritten
PROPERTIES SearchEnds EveryLogIsShown
CHECK_DEADLOCK FALSE

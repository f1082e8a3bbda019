CONSTANTS
  o1 = o1
  o2 = o2
  Objects = {o1, o2}
  Port = Port
  NoObject = NoObject
  Handles = {1, 2, 3}
  MaxMade = 5
  Requests <- SmallRequests
  Replies <- SmallReplies
  Words = 64
  Names <- MCNames
  Lower <- MCLower
  FileSystems = {"fs1", "fs2"}
  Paths = {"p"}
  Lengths = {1, 2}
  Moves <- MCMoves
  Half = 2
  MaxFiles = 3
  MaxPos = 2
  MaxPath = 7
  Chars = {"/", ":", "a"}
  Args <- MCArgs
SYMMETRY SameObjects
SPECIFICATION MCSpec
INVARIANTS HandleIsOwn NothingElseLeaks PortIsOpen RequestArrives ReplyArrives
INVARIANTS DescriptorNamesItsFile OffsetIsPosition PathIsSplit
CHECK_DEADLOCK FALSE

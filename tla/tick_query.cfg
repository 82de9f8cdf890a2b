\* Two components that use the projects, of which one goes: a tick goes by unread.
SPECIFICATION Spec
CONSTANTS
  Facilities = {"wind", "coal"}
  Clicks = {1, 2, 3}
  Fields = {"wind", "coal"}
  Values = {1, 3}
  Room = 2
  MaxEntered = 3
  Options = {1, 2}
  MaxChoices = 2
  Resolutions = {1, 2, 4}
  Widths = {1, 3}
  MaxDatapoints = 3
  Block = 2
  BufferLength = 3
  FirstTicks = {0, 13}
  LastTicks = {2, 14}
  MaxSpan = 1
  MaxMishaps = 1
  Chats = {"a", "b"}
  PageSize = 1
  MaxPosted = 2
  MaxSent = 1
  MaxSelected = 2
  EndOfTime = 4
  MaxTimeout = 2
  MaxMoves = 1
  MaxActs = 2
  MaxJoined = 2
  MaxCalls = 4
  MaxReads = 2
  Components = {"bar", "dialog"}
  Orders = {1}
  MaxTicks = 2
  MaxDrops = 1
  NoData = NoData
INVARIANTS
  EveryTickShown
CHECK_DEADLOCK FALSE

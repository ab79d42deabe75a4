CONSTANTS
  HeadSize = 2
  BodySizes = {0, 2}
  MaxPackets = 2
  Room = 2
  MTU = 3
  HeadTime = 0
  Errnos = {"none", "again", "other"}
  Clients = {c1, c2}
  Slots = {s1, s2}
  LastService = 2
  MaxAsks = 2
  NoSocket = nosocket
  Calls = {"put", "get", "input", "output", "pwd", "sql"}
  Faults = {"open", "write", "read", "memory", "wait", "execwait"}
  MaxCalls = 3
  MaxBlocks = 2
  MaxFaults = 2
  Cursors = {k1, k2, k3}
  StatusSize = 7
  MaxDebts = 2
  Refusals = {"prepare", "rpc", "begin"}
  Unbegun = FALSE
  Bytes = {"esc", "newline", "dlm", "quote", "half", "n", "G"}
  Widths = {2, 4}
  MaxBytes = 4
  HalfBits = 2
  Inits = {0, 3}
  LastPara = 1
  Sizes = {8, 9}
  MaxLinks = 3
  BodyLengths = {0, 1, 100, 20000, 32735, 32770, 66000}
  MaxPacks = 3
  Texts <- TextValues
  MaxDepth = 3
  ColumnTypes = {"char", "clob", "byte", "tiny", "int", "time", "double", "struct"}
  TypeBits <- Narrow
  ColumnNames <- PatternNames
  Tables <- TableNames
  Owners = {"", "own"}
  Wheres <- Conditions
  MaxFields = 2
  MaxStated = 1
SPECIFICATION ViewSpec
CHECK_DEADLOCK FALSE
INVARIANTS WireSafe SessionsApart ServedAfterLogin AnswersMatch StoredIsRead BoundExactly
  TextsStand FramesAgree
PROPERTIES ReadEnds AnsweredOrEnded CallReturns

CONSTANTS
  TreeKeys = {1, 2, 3, 4, 5, 6, 7}
  Kept = {4}
  Values = {0, 2, 4}
  MaxLength = 6
  HashKeys = {a, b, c}
  MaxRows = 4
  Blocks = {i1, i2}
  Links = {0, 1, 2}
  Lists = {"ready", "free"}
  Path = "path"
  Movers = {t1}
  Twice = FALSE
  Nil = nil
  BITS = 3
  DigitBits = 2
  Radix = 5
  MaxWords = 2
  EdgeWords = {0, 1, 7}
  ROTORSZ = 8
  Turn = 4
  KeySeeds = {0, 13}
  KeyChars = {1, 6}
  MaxText = 3
  Kinds = {"tiny", "short", "int", "int64", "ldouble", "bytes", "struct"}
  Names = {"a", "b", "c"}
  MaxColumns = 3
  Pointers = {"c"}
  Raw = {"b"}
  Hidden = {"b"}
  Procs = {p1}
  Writers = {w1, w2}
  Cycle = 2
  LastDay = 2
  MaxLines = 3
  NoFile = nofile
  LinkKeys = {n1, n2, n3}
  LinkValues = {1, 2}
  FirstSize = 3
  HashRange = {2, 5}
  PrintSize = 4
  ListSize = 3
  Lengths = {0, 3, 11}
  MaxGathered = 17
  DNodes = {7, 8}
  Nums = {0, 2}
  MaxCfgLines = 3
  MaxOpen = 1
  CwordBits = 9
  Unmatched = 6
  LzEnd = 4
  Slots = 2
  HashValues = 5
  MaxMatch = 12
  ByteSize = 48
  ShortSize = 40
  OffsetBits <- OffsetWidths
  LengthBits <- LengthWidths
  LzTexts <- LzParts
  ESC = 2
  Shorts = 2
  LongLengths = 4
  Near = 4
  Far = 8
  LowByte = 4
  Third = 5
  Slip = 8
  Enough = 2
  ZipTexts <- ZipParts
  Jsons = {j1, j2, j3}
  Members = {m1}
  MaxItems = 1
  MaxHeld = 2
  LaterBytes = {0, 85, 255}
  CrcLength = 3
  LengthWidth = 10
  Pieces = {1, 3, 4, 52, 67, 76}
  MaxPieces = 4
  Junk <- Ones
  DesKeys <- SomeKeys
  Passwords <- SomePasswords
  Numbers <- SomeNumbers
  family <- SomeFamily
  IdChars = {"a", "b"}
  Environment <- OldEnvironment
  EnvLines <- SomeEnvLines
  Labels = {"x", "y"}
  Crcs <- LabelCrcs
  KeyLines <- SomeKeyLines
  AuthLines <- SomeAuthLines
  MaxConfLines = 3
  SrvNames = {"n1", "n2", "n3", "n4", "n5"}
  NameSums <- SumsOfNames
  MaxServices = 5
  Events = {1, 2}
  EventOf <- TurnedEvents
  Status <- SomeStatus
  PathLengths = {1, 2, 5}
  MaxListed = 3
  BlockSize = 8
  Black = 2
  FileNames <- SomeFiles
  MaxPackages = 2
SPECIFICATION DataSpec
CHECK_DEADLOCK FALSE
INVARIANTS TreeRight LookupsRight CryptoRight PatternAgrees LinesKept
PROPERTIES ImplementsLines

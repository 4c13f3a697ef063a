CONSTANTS
  PartsChecked = {"cursors", "numbers", "hashes", "codecs", "dates", "files", "lines", "buffers", "arrays", "links", "caches", "blocks", "atomics", "documents", "arguments"}
  TextBytes = {65, 97, 32}
  TextLen = 4
  DigitBytes = {48, 57, 49, 97, 71}
  WordBits = 6
  ByteBase = 2
  SizeMax = 5
  MaxBlock = 4
  Data <- MCData
  a1 = a1
  a2 = a2
  ListItem = {1, 2}
  ListName = {a1, a2}
  item_size = 3
  SizeLimit = 15
  MaxItems = 3
  MaxMemory = 5
  d1 = d1
  d2 = d2
  d3 = d3
  d4 = d4
  Node = {d1, d2, d3, d4}
  AList = {a1, a2}
  k1 = k1
  k2 = k2
  k3 = k3
  v1 = v1
  v2 = v2
  v3 = v3
  n1 = n1
  n2 = n2
  n3 = n3
  CacheKey = {k1, k2, k3}
  KeyCopy = {1, 2}
  CacheValue = {v1, v2, v3}
  CacheNode = {n1, n2, n3}
  MaxCapacity = 2
  PageId = {1, 2, 3}
  PageSize = 12
  HeaderSize = 4
  BinShift = 2
  BinCount = 2
  ParentBlocks = 1
  RequestSizes = {3, 5, 9, 12}
  NumberBits = 5
  MaxFrequency = 9
  NS_PER_SEC = 10
  MaxKeyLen = 30
  MaxBytes = 58
  Seeds = {0, 1, 2}
  BlockChars = {65, 66, 102, 47, 61, 0, 45}
  MarkBytes = {239, 187, 191, 254, 255, 0, 65}
  SizeBits = 8
  Years = {1970, 1999, 2000}
  MonthDays <- MCMonthDays
  Times <- MCTimes
  LocalOffset = 3600
  Zones <- MCZones
  Noise = {"0", "7", "-", ":", " ", "Z", "T", "."}
  EntryPaths <- MCEntryPaths
  FileLen = 3
  OpenTags <- MCOpenTags
  MaxInner = 5
  MaxAttributes = 2
  MaxNameLen = 2
  max_depth = 3
  MaxMessage = 6
  MaxSubject = 12
  MaxSize = 64
  Options = {"a", "b", "q"}
  InString = {"a", "b"}
  WithArgument = {"b"}
  Unknown = "z"
  MaxArgs = 3
SPECIFICATION Spec
INVARIANTS BufferIsSequence ArrayIsSequence LinksAreSequences MemoryExact AtomicsAreSequential NumbersExact TextsAndFilesExact
PROPERTY ImplementsCache
CHECK_DEADLOCK FALSE

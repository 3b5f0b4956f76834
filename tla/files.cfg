CONSTANTS
  p1 = p1
  p2 = p2
  n1 = n1
  n2 = n2
  Procs = {p1, p2}
  Names = {n1, n2}
  ninodes = 4
  NINODE = 3
  NFILE = 2
  NOFILE = 2
  Paths <- MCPaths
  Programs <- MCPrograms
  FirstTypes = {"none", "file", "dir"}
  DfProcs = {p1, p2}
  DfNames = {n1, n2}
  NINODES = 2
  NDATA = 3
  DfDirect = 1
  DfIndirect = 1
  NFILES = 1
  GroupCalls = 2
  NDIRECT = 1
  NINDIRECT = 3
  FSSIZE = 72
  nmeta = 3
  BPB = 16
  BlockUnits = 2
  WriteReserve = 10
  Files = {"f", "h"}
  MaxBlocks <- MCMaxBlocks
  ImageBlocks <- MCImage
  Letters = {"a", "b"}
  Slash = "/"
  Nul = "0"
  DIRSIZ = 2
  NameSize = 2
  PathMax = 4
SPECIFICATION FilesSpec
INVARIANTS ReferencesKept NamesFormTree CrashLeavesClean BlocksKept NamesMatch
CHECK_DEADLOCK FALSE

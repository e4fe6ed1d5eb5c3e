SPECIFICATION FairSpec
CONSTANTS
  Programs = {"upload", "upload dirs", "redirect", "sum", "sum once", "encode", "get", "old get"}
  Clients = {c1, c2, c3}
  NoClient = NoClient
  Workers = 2
  Layouts <- SomeLayouts
  FileData <- TwoChunks
  Ports = {1, 2}
  MaxRuns <- SomeRuns
  MaxKilled <- SomeKilled
INVARIANTS TypeOK UploadsWhole RedirectFinds OneProcessEach
PROPERTIES SessionsEnd
CHECK_DEADLOCK FALSE

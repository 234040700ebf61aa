CONSTANTS
  Docs = {"d1", "d2", "d3"}
  DocSize <- MCDocSize
  ExplainSize = 1
  SepSize = 1
  CrlfSize = 1
  ChunkSize = 3
  MaxDocs = 3
  NULL = NULL
  NoToken = NoToken
  Paths <- MCPaths
  CollMax = 1
  NumBufSize = 3
  LLongMax = 7
SPECIFICATION Spec
INVARIANT IdIsTheNumberSent

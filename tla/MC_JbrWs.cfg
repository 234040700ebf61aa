\* Every configuration, upgrade request and outcome, then up to two frames.
\* facil.io calls on_close when http_upgrade2ws fails, as its header says.
CONSTANTS
  Words <- MCWords
  MaxWords = 3
  MaxKeyLen = 1
  CollMax = 1
  NumBufSize = 3
  IdBits = 6
  MaxMsgs = 2
  OnCloseOnFailure = TRUE
  NULL = NULL
SPECIFICATION Spec
INVARIANT WctxReleased

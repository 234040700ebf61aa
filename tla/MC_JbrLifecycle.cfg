\* One closer that may call jbr_shutdown twice, both start modes; closers
\* shut down a non-blocking server only.
CONSTANTS
  c1 = c1
  c2 = c2
  Closers <- MCClosers
  MaxCalls = 2
  CloseBlocking = FALSE
  NULL = NULL
SPECIFICATION Spec
INVARIANTS
  TypeOK
  NoDoubleFree
  NoUseAfterFree
PROPERTIES
  StartSeesListenOutcome
  NonBlockingStartReturns
  ShutdownReturns
  ImplementsServer

\* A thread calls jbr_shutdown on the handle of a blocking-mode server.
CONSTANTS
  c1 = c1
  c2 = c2
  Closers <- MCClosers
  MaxCalls = 1
  CloseBlocking = TRUE
  NULL = NULL
SPECIFICATION Spec
INVARIANT NoUseAfterFree

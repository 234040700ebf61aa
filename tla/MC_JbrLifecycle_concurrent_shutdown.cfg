\* Two threads call jbr_shutdown on the same published handle.
CONSTANTS
  c1 = c1
  c2 = c2
  Closers <- MCTwoClosers
  MaxCalls = 1
  CloseBlocking = FALSE
  NULL = NULL
SPECIFICATION Spec
INVARIANT NoDoubleFree

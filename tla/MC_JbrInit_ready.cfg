CONSTANTS
  t1 = t1
  t2 = t2
  Callers <- MCCallers
  RegisterMayFail = TRUE
SPECIFICATION Spec
INVARIANT ReadyWhenReturned

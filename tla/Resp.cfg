SPECIFICATION Spec
CONSTANTS
  Conn = {c1, c2}
  EventLoop = {l1, l2}
  k1 = k1
  k2 = k2
  v1 = v1
  v2 = v2
  Key = {k1, k2}
  None = None
  Err = Err
  CommandOf <- MCCommandOf
  c1 = c1
  c2 = c2
  maxArgs = 3
  MaxCmds = 3
INVARIANTS Owned Answered 
SYMMETRY RespSymmetry
CHECK_DEADLOCK FALSE

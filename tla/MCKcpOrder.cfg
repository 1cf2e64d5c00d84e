CONSTANTS
  Mss = 2
  Snd_wnd = 4
  Rcv_wnd = 3
  AckRoom = 4
  Sizes = {1, 3, 4}
  MaxData = 1
  MaxSn = 3
  MaxSegments = 1
SPECIFICATION Spec
INVARIANT NextIsMoved
CHECK_DEADLOCK FALSE

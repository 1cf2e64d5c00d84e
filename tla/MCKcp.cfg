CONSTANTS
  Mss = 2
  Snd_wnd = 3
  Rcv_wnd = 2
  AckRoom = 3
  Sizes = {2, 5}
  MaxData = 7
  MaxSn = 2
  MaxSegments = 1
SPECIFICATION Spec
INVARIANTS Inv UnackedKept ReceivedInOrder
CHECK_DEADLOCK FALSE

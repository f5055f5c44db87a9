SPECIFICATION LateSpec
CONSTANTS
  Frame = {f1, f2, f3}
  TxBuf = 3
  Mss = 2
  Word = 12
  Iss = 10
  Wnd = {0, 1, 2}
  InitWnd = 2
  StreamLen = 5
  RingSize = 3
SYMMETRY FrameSymmetry
CHECK_DEADLOCK FALSE
INVARIANT SentExact

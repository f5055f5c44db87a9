SPECIFICATION Spec
CONSTANTS
  Conn = {c1}
  RxBufSize = 8
  ThreadRxBuf = 8
  RxAvail = 7
  Mss = 3
  Word = 20
  Irs = 15
  AckRing = 4
  Budget = 3
  StreamLen = 13
  RingSize = 3
CHECK_DEADLOCK FALSE
INVARIANTS ReadsStream BufferConserved NothingHeldBack  WindowReopens TrimExact

SPECIFICATION Spec
CONSTANTS
  Word = 7
  Mss = 2
  TxBuf = 5
  Short = 4
  Weight = 3
  RexmitInts = 2
  RtoMin = 2
  RttInit = 1
  MaxRtt = 3
  WinBits = 3
  RttNs = 2
  LinkGbps = 4
  Kbps = 2
  MinRate = 2
  MaxRate = 6
  Sizes = {2}
  Rtts = {2}
  MaxAcked = 2
  MaxDrops = 1
PROPERTY StallEnds

SPECIFICATION FairSpec
CONSTANTS
  Msg = {m1, m2, m3}
  Size = 2
  Laps = 2
  NoMsg = NoMsg
INVARIANTS NoDataRace ParityExact
PROPERTIES StaysNonEmpty EveryMessageTaken ImplementsFifo

SPECIFICATION Spec
CONSTANTS
  Thread = {t1, t2}
  NrSlabs = 2
  PerSlab = 1
  UsersMax = 2
  FrameSize = 2
  Stale = Stale
INVARIANTS SlabOwnedOnce BufferOnce ProdInBounds
PROPERTIES NothingLost

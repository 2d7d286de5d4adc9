SPECIFICATION Spec
CONSTANTS
  NINODES = 3
  NDIRECT = 1
  NINDIRECT = 2
  METABLOCKS = 2
  SIZE = 10
  PerBlock = 2
  Name = {"a", "b"}
  Kinds <- AllKinds
  Images <- ImagesOf
INVARIANTS JudgesRight NothingAccepted BitmapExact MkfsMakesGood
CHECK_DEADLOCK FALSE

SPECIFICATION Spec
CONSTANTS
  Contents <- SmallContents
  Olds <- SmallOlds
  News <- SmallNews
  MaxLen = 4
INVARIANT WindowOccursOnce
CHECK_DEADLOCK FALSE

\* Calls stop at MaxLen, a bound of the model: such a file is not a deadlock.
SPECIFICATION Spec
CONSTANTS
  Contents <- SmallContents
  Olds <- SmallOlds
  News <- SmallNews
  MaxLen = 4
INVARIANT TypeOK
PROPERTIES
  OneEditOnePlace
  PasteNeverLands
  CountIsReplacements
  WindowIsAccepted
  AnchorCoversLine
CHECK_DEADLOCK FALSE

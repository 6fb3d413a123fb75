SPECIFICATION StepFairSpec
CONSTANTS
  Statuses <- MCStatuses
  HintMs <- MCHintMs
  HintS <- MCHintS
  Codes = {0, 1}
  Asked <- MCAsked
  Saids <- MCSaids
  Intents <- MCIntents
INVARIANTS
  TypeOK
  StepTypeOK
  WaitIsBounded
  BusyIsRetried
  AnswerIsFresh
  AnswerIsOwn
  CutIsWeaker
  BlockIsWhole
  VerdictIsOwn
  NoRequestLeft
PROPERTIES
  NoFileLeft
  WaitServesHint
  Returns
  StepEnds
CHECK_DEADLOCK FALSE

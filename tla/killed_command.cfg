SPECIFICATION StepSpec
CONSTANTS
  Statuses <- MCStatuses
  HintMs <- MCHintMs
  HintS <- MCHintS
  Codes = {0, 1}
  Asked <- MCAsked
  Saids <- MCSaids
  Intents <- MCIntents
INVARIANT KeptMeansExited
CHECK_DEADLOCK FALSE

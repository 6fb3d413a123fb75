SPECIFICATION Spec
CONSTANTS
  a = a
  b = b
  n = n
  p1 = p1
  p2 = p2
  NoFile = NoFile
  NoPattern = NoPattern
  Files = {a, b, n}
  Tracked = {a, b}
  Pages <- MCPages
  Gates = {"check", "verify", "build"}
  Drafts <- MCDrafts
  Torn <- MCTorn
  InitDisk <- MCDisks
  CheckCmd = TRUE
  Patterns = {p1, p2}
  Sniffed = {p1}
  Replies <- MCReplies
  Stray = {"unusable"}
  MaxSteps = 6
INVARIANT NoGreenOverBroken
CHECK_DEADLOCK FALSE

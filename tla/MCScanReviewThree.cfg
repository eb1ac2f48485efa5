SPECIFICATION Spec
CONSTANTS
  A = A
  B = B
  C = C
  s1 = s1
  s2 = s2
  q1 = q1
  q2 = q2
  Nobody = Nobody
  Stranger = Stranger
  Piles = {A, B, C}
  Pages <- MCPages3
  PileOf <- MCPileOf3
  Code <- MCCode3
  Items = {q1}
  Written = {}
  Students = {s1}
  Retakes = {}
  MaxTries = 1
  ReadBy <- MCReadOnce
  OtherPaper = {2}
  PageCodes = TRUE
  BubbleReads <- MCOne
  VisionReads <- MCVision
  Overrides = {"none"}
  EarlyConfirm = FALSE
  MayFail = FALSE
CHECK_DEADLOCK FALSE
INVARIANTS NewestSignedWins
PROPERTIES KeepsThePromise

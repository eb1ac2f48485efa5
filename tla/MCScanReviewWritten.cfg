SPECIFICATION FairSpec
CONSTANTS
  A = A
  B = B
  C = C
  s1 = s1
  s2 = s2
  q1 = q1
  q2 = q2
  Nobody = Nobody
  Stranger = Stranger
  Piles = {A}
  Pages <- MCPages2
  PileOf <- MCOnePile
  Code <- MCCode2
  Items = {q1}
  Written = {q1}
  Students = {s1}
  Retakes = {2}
  MaxTries = 1
  ReadBy <- MCReadOnce
  OtherPaper = {}
  PageCodes = FALSE
  BubbleReads <- MCOne
  VisionReads <- MCVerdict
  Overrides = {}
  EarlyConfirm = TRUE
  MayFail = FALSE
CHECK_DEADLOCK FALSE
PROPERTIES SigningWaitsForGrader PileIsRead GradingEnds

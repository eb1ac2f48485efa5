SPECIFICATION Spec
CONSTANTS
  A = A
  B = B
  C = C
  s1 = s1
  s2 = s2
  q1 = q1
  q2 = q2
  Nobody = Nobody
  Stranger = Stranger
  Piles = {A}
  Pages <- MCPages2
  PileOf <- MCOnePile
  Code <- MCCode2
  Items = {q1}
  Written = {q1}
  Students = {s1}
  Retakes = {}
  MaxTries = 2
  ReadBy <- MCReadTwice
  OtherPaper = {}
  PageCodes = TRUE
  BubbleReads <- MCOne
  VisionReads <- MCVerdict
  Overrides = {}
  EarlyConfirm = FALSE
  MayFail = TRUE
CHECK_DEADLOCK FALSE
INVARIANTS SignedIsSettled OnlyStraysOverrun

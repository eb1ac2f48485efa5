SPECIFICATION Spec
CONSTANTS
  book = book
  made = made
  note1 = note1
  lea = lea
  noah = noah
  r1 = r1
  r2 = r2
  Exercises = {book, made}
  FromModel = {made}
  Notes = {note1}
  Students = {lea, noah}
  ItemLists <- MCItemLists
  BatchPlans <- MCBatchPlans
  BatchNotes <- MCBatchNotes
  Renders = {r1, r2}
  Piles = {p1}
  MaxGeneration = 2
  Nothing = Nothing
CHECK_DEADLOCK FALSE
SYMMETRY MCSymmetry
INVARIANTS PaperWasApproved StaleOnlyIfOvertaken

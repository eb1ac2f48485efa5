SPECIFICATION FairSpec
CONSTANTS
  p1 = p1
  p2 = p2
  Requests = {p1, p2}
  MayDie = {p1}
  MaxJobs = 1
  MaxKills = 2
  Nobody = Nobody
CHECK_DEADLOCK FALSE
INVARIANTS SuccessHasItsResult OneRunAtATime
PROPERTIES AnsweredJobEnds

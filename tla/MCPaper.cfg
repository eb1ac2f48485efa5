CONSTANTS
    lea = lea  noah = noah  zoe = zoe
    t1 = t1  t2 = t2  t3 = t3  t4 = t4  t5 = t5  m1 = m1  o1 = o1  o2 = o2
    UsableHeight = 13400
    ItemsPerPage = 5
    NoFigure = NoFigure
    Unreadable = Unreadable
    Pupils <- MCPupils
    Strangers = {zoe}
    UidRow <- MCUidRow
    Exercises = {t1, t2, t3, t4, t5, m1, o1, o2}
    Editions = {1, 2}
    Says <- MCSays
    Plans = {1, 2}
    ListOf <- MCListOf
    FirstEdition = 1
    FirstPlan = 1
    Layouts = {"v1", "v2"}
    Ink <- MCInk
    Written <- MCWritten
    Shots <- MCShots
    Uploads <- MCUploads
    Retakes <- MCRetakes
    NonceOf <- MCNonceOf
    Copies <- MCCopies
    MaxGeneration = 2
    MaxActs = 3
    Nothing = Nothing
SPECIFICATION Spec
CHECK_DEADLOCK FALSE
INVARIANTS PagesHold NeverSomeoneElse AnswersAreTrue NoAnswerIsMissed DuplicatesAreFlagged
PROPERTIES CorrectionsFollowTheirQuestion

CONSTANTS
    anna = anna  beat = beat  c1 = c1  c2 = c2  g1 = g1  e1 = e1
    bad = bad  nothing = nothing  stmt1 = stmt1  stmt2 = stmt2
    MaxTargets = 2
    MaxStretch = 1
    Teachers = {anna, beat}
    Clicks = {c1, c2}
    Regenerations = {g1}
    Roster <- MCRoster
    Leavers = {3}
    Corpus <- MCCorpus
    CorpusCovers <- MCCorpusCovers
    Evidence <- MCEvidence
    Requests <- MCRequests
    Groupings <- MCGroupings
    Statements <- MCStatements
    Answers <- MCAnswers
    Malformed = bad
    BatchMax = 2
    MaxCrashes <- MCMaxCrashes
    MaxReviewed = 1
    Nothing = nothing
SPECIFICATION Spec
SYMMETRY TeacherSymmetry
CHECK_DEADLOCK FALSE
INVARIANTS NothingTwice RejectedNeverReturns EveryPupilIsServed
PROPERTIES ReplacementTakesThePlace

CONSTANTS
    r1 = r1  r2 = r2  x1 = x1  x2 = x2
    algebra = algebra  primer = primer  coded = coded  scan = scan
    Rows = {r1, r2}
    Readers = {x1, x2}
    Library = {algebra, primer, coded, scan}
    Book <- MCBook
    Emitted <- MCEmitted
    Themes <- MCThemes
    MAX_EXTRACTION_CHUNKS = 3
    MAX_SECTION_CHUNKS = 3
    MaxDeliveries = 2
    MaxFaults = 1
    MaxActs = 3
    Nothing = Nothing
SPECIFICATION Spec
CHECK_DEADLOCK FALSE
INVARIANTS EveryExerciseHasItsPlace NothingTranscribedTwice ShelfIsHonest BooksAreDivided
PROPERTIES PushedIsIngested

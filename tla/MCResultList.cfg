SPECIFICATION ListSpec
CONSTANTS
    m1 = m1
    m2 = m2
    none = none
    broken = broken
    Requests = {q1, q2}
    Movies <- MoviesDef
    Answers <- AnswersDef
    Posterless <- PosterlessDef
    Unlinked <- UnlinkedDef
    NoMovie = NoMovie
    NoPoster = NoPoster
    NoImage = NoImage
    Cells = {c1, c2}
    Loads = {l1, l2}
    NoLoad = NoLoad
    MaxWork = 2
INVARIANTS
    SettledRows
    CellIsItsRow
    PosterIsTheRows
PROPERTIES
    TapOpensTheRow
    BannerLeaves
CHECK_DEADLOCK FALSE

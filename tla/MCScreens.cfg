SPECIFICATION ScreensSpec
CONSTANTS
    Movies = {m1, m2}
    NoMovie = NoMovie
    MaxPages = 9
INVARIANTS
    ProfileIsOnScreen
    CoverIsOverARoot
    ReviewsLieOnTheirMovie
    BackInPlace
    ButtonFollowsTexts
CHECK_DEADLOCK TRUE

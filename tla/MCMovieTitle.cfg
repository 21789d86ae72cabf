SPECIFICATION Spec
CONSTANTS
    Titles <- TheTitles
INVARIANTS
    CollectionPathIsOdd
CHECK_DEADLOCK FALSE

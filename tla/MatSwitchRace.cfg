SPECIFICATION Spec
CONSTANTS
    Names <- MCNames
    Info <- MCInfo
    Initial = {"logo", "main", "v1"}
    Lines <- RaceLines
    CanFail = {}
    MainProducts = {}
    MaxLines = 2
INVARIANTS CurrentPlays

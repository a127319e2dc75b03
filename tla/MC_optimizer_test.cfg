\* The spec's algorithm against the second vector of the unit test.
CONSTANTS
    DowntrackInputs <- MCDowntracks
    SpeedInputs <- MCSpeeds
    AccelInputs <- MCAccels
SPECIFICATION Spec
CHECK_DEADLOCK FALSE
INVARIANTS
    MatchesAnchorTest

\* optimize_speed on every short input and on the unit test's two vectors.
CONSTANTS
    DowntrackInputs <- MCDowntracks
    SpeedInputs <- MCSpeeds
    AccelInputs <- MCAccels
SPECIFICATION Spec
\* A call returns: the final states have no successor.
CHECK_DEADLOCK FALSE
INVARIANTS
    TypeOK
    FeasibleFromAnchor
    MatchesReference

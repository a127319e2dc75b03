\* The spec's anchor rule against the spec's own feasibility guarantee.
CONSTANTS
    DowntrackInputs <- MCDowntracks
    SpeedInputs <- MCSpeeds
    AccelInputs <- MCAccels
SPECIFICATION Spec
CHECK_DEADLOCK FALSE
INVARIANTS
    KinematicallyFeasible

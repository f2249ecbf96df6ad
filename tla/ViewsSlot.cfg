SPECIFICATION Spec
CONSTANTS
    Templates <- Slots
    Outcomes = {"ok"}
INVARIANT SwapsAreSelfContained
CHECK_DEADLOCK FALSE

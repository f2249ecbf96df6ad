SPECIFICATION Spec
CONSTANTS
    Templates <- Pages
    Outcomes = {"ok", "error", "redirect"}
INVARIANTS
    PollsInTurn
    ContentFits
    SwapsFindTheirRegion
    NoLostWakeup
    PageSettles
PROPERTY LateContentArrives
CHECK_DEADLOCK FALSE

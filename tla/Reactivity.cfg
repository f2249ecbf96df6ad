SPECIFICATION Spec
CONSTANTS
    Signals <- ThreeSignals
    MaxValue = 1
    PageBindings <- Page
    RegionBindings <- Region
    Programs <- AllPrograms
    Handlers <- Clicks
    PageReads <- PageNeeds
    RegionReads <- RegionNeeds
    MaxRuns = 2
INVARIANTS
    QuietMeansConsistent
    ReleasedAreForgotten
    ContentKeepsUp
PROPERTY FlushEnds
CHECK_DEADLOCK FALSE

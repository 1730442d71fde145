\* A NO GO, then exhaustion: is the correction developed before the merge?
CONSTANTS
    MaxIterations = 1
    Unregistered = Unregistered
    MaxRuns = 3
    MaxStops = 2
    MaxReverts = 0
SPECIFICATION Spec
INVARIANT CorrectedBeforeMerge
CHECK_DEADLOCK FALSE

\* One item, gated or not: three runs, one stop, one revert, two corrections.
CONSTANTS
    MaxIterations = 2
    Unregistered = Unregistered
    MaxRuns = 3
    MaxStops = 1
    MaxReverts = 1
SPECIFICATION Spec
INVARIANTS
    TypeOK
    DoneIsMerged
    NoGoCapped
    MergeNeedsApproval
    MergedVerified
    EffectsJournaledOnce
    ContinuedOncePerResume
PROPERTIES
    ImplementsLifecycle
    RunTerminates
CHECK_DEADLOCK FALSE

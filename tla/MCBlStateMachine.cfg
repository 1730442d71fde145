\* Two processes interleaving transitions on one backlog item.
CONSTANTS
    Bls = {b1}
    Callers = {c1, c2}
    Unregistered = Unregistered
    Idle = Idle
    MaxEvents = 6
SYMMETRY CallerSymmetry
SPECIFICATION Spec
INVARIANTS
    TypeOK
    JournalIsChain
    IterationMatchesJournal
PROPERTY IllegalOnlyByRace
CHECK_DEADLOCK FALSE

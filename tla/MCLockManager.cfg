\* Two workers on a provider with two slots, one time to live.
CONSTANTS
    Owners = {o1, o2}
    repo = repo
    slot0 = slot0
    slot1 = slot1
    Resources <- ProviderSlots
    Requests <- ProviderRequest
    Ttls = {2}
    NoLock = NoLock
    MaxTime = 4
    MaxHeld = 2
SYMMETRY OwnerSymmetry
SPECIFICATION Spec
INVARIANTS
    TypeOK
    MutualExclusion
    NoLeak
CHECK_DEADLOCK FALSE

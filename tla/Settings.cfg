SPECIFICATION Spec
CONSTANTS
    Apps = {mail, news}
    Icons = {i1}
    MaxChanges = 1
    MaxStops = 0
    MaxRestarts = 1
    Panels = {p1}
    MaxFailures = 1

INVARIANTS
    TypeOK
    IdleListIsSaved
    
    BlockHoldsUnlessSaveFails
PROPERTIES
    MirrorConverges
    ListKept

SPECIFICATION AppListSpec
CONSTANTS
    Apps = {mail, news}
    Icons = {i1, i2}
    MaxChanges = 3
    MaxStops = 1
    MaxRestarts = 1

INVARIANTS
    AppListTypeOK
    MirrorCatchesUp
    MirrorAtRest
PROPERTIES
    MirrorConverges
CHECK_DEADLOCK FALSE

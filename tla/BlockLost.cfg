SPECIFICATION Spec
CONSTANTS
    Apps = {mail}
    Icons = {i1}
    MaxChanges = 0
    MaxStops = 0
    MaxRestarts = 1
    Panels = {}
    MaxFailures = 1

INVARIANTS
    BlockSurvivesRestart

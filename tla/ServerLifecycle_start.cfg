SPECIFICATION Spec
CONSTANTS
    Topics = 2
    Attempts = 2
    Migrations = 2
    Statements = 2
    MaxDrops = 2
    MaxCrashes = 1
    MaxWork = 1
INVARIANTS SchemaIsVersions NoTopicForgotten MemoryClosedLast
PROPERTIES SignalEnds
CHECK_DEADLOCK FALSE

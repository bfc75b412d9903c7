SPECIFICATION Spec
CONSTANTS
    task1 = task1
    task2 = task2
    task3 = task3
    Tasks <- ThreeTasks
    Presets <- OnePreset
    MaxFaults = 2
INVARIANTS
    OnlyFaultsDamage
    SerialBatchesKeepEdits
PROPERTIES
    LoneRestoreUndoes
CHECK_DEADLOCK FALSE

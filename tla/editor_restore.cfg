CONSTANTS MaxSlots = 2 PoolSize = 2 MaxAsks = 2 MaxEdits = 1 MaxEditorVisits = 2
SPECIFICATION EditorSpec

PROPERTY RestoreKeepsDraft
CHECK_DEADLOCK FALSE

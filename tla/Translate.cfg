SPECIFICATION Spec
CONSTANTS
    Documents <- MCDocuments
    Values <- MCValues
    MaxHops = 3
    ToolLists <- MCToolLists
CHECK_DEADLOCK FALSE
INVARIANTS SchemasKept CallsKept

PROPERTIES Relayed

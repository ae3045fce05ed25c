SPECIFICATION Either
CONSTANTS
    Clients = {c1, c2}
    Documents <- MCDocuments
    Scripts <- MCScripts
    Schemas <- MCSchemas
    Operations <- MCOperations
    Trusted <- MCTrusted
    Enforce = FALSE
    Parallel = 1
    MaxOps = 3
    MaxDepth = 4
    CacheEntries = 1
    Analyse <- Analysis
    Execution <- Executed
    ExportsOf <- CollectExports
    Combined <- MergeStageResults
    Messages <- MCMessages
    Methods <- MCMethods
    RecursionLimit = 3
    MaxPlanDepth = 2
    MaxFieldNumber = 9
    MaxRecords = 3
    MaxAnswered = 0
CHECK_DEADLOCK FALSE
INVARIANTS StagedAsOne ExportsSeen LimitsKept HeadersCombined PathsAgree

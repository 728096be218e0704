CONSTANTS
    Logs <- MCLogs
    Batches <- MCBatches
    RulePool <- MCRulePool
    Registries <- MCRegistries
    Queries <- MCQueries
    MaxTx = 2
    MaxRules = 5
    Now = 5
    MAX_SELECTIVE_LOOKUPS = 2
    MAX_SELECTIVE_ENTITY_LOOKUPS = 3
SPECIFICATION Spec
INVARIANTS
    AnswerIsMeaning
    BetweenRegistries
PROPERTIES
    RegisterExact
CHECK_DEADLOCK FALSE

SPECIFICATION Spec
CONSTANTS
    a = a
    b = b
    Clips = {a, b}
    Batches <- MCBatches
    Phrases <- MCPhrases
    Images = {m, n}
    Named = {paris}
    SttSlots = 1
    TtsSlots = 1
    MaxRetries = 1
    CacheLimit = 1
    Callers = {1, 2}
    MaxCalls = 3
    MaxFaults = 1
INVARIANTS BatchInOrder OwnAnswer
PROPERTIES CallsReturn
CHECK_DEADLOCK FALSE

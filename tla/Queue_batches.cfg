SPECIFICATION Spec
CONSTANTS
    Stocks = {1, 2}
    Known = {1}
    Fresh = {2}
    Chunks = 3
    Kinds = {"history", "rebuild"}
    BatchSize = 2
    MaxAttempts = 2
    Breaker = 2
    MaxEvents = 1
INVARIANTS SettledTruly
PROPERTIES QueueDrains

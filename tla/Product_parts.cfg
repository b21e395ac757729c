SPECIFICATION Spec
CONSTANTS
    s1 = s1
    s2 = s2
    s3 = s3
    Pool <- TwoStocks
    MinBars = 1
    MaxBars = 5
    Bars <- StrategyBars
    Budget = 100
    Invested = 98
    Slippage = 1
    FeeRate = 1
    LeastFee = 2
    StampRate = 5
    Sessions = {"s1", "s2"}
    MaxTurns = 2
    MaxLoads = 1
    Fragments = 2
    ToolIters = 2
    LimiterBurst = 1
    Texts <- MCTexts
    ChunkSize = 4
    Overlap = 1
    MaxDocs = 2
    TopK = 2
INVARIANTS  ScoringSound BacktestSound  KnowledgeSound
  
CHECK_DEADLOCK FALSE

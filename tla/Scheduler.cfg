SPECIFICATION FairSpec
CONSTANTS
    ticker = ticker
    trigger1 = trigger1
    trigger2 = trigger2
    Callers <- AllCallers
    Ticker <- ticker
    Nobody = Nobody
    Rise = 2
    Fall = 3
    MaxStreak = 4
INVARIANTS TypeOK Hysteresis ToldWhenIdle
PROPERTIES FlipsOnThreshold ReportsAreNews TruthIsReported ImplementsVerdict

\* Every position has four shares, of which a rung sells one.
SPECIFICATION Spec
CONSTANTS
    Prices = {42, 44, 46, 48, 50}
    StopPct = 4
    TargetPct = 10
    Strategies <- mcStrategies
    Reward <- mcReward
    Percent <- mcPercent
    RiskAction <- mcAction
    Capital = 1000
    RiskPct = 1
    MaxPositionPct = 20
    MinTrade = 10
    ReservePct = 60
    MaxOpen = 2
    CooldownBars = 1
    MaxLosses = 2
    LossCooldown = 2
    ProfitCooldown = 0
    LastBar = 4
    NoReply = NoReply
INVARIANTS NeverOversold StopGuardsUntilSpent LimitsKept
PROPERTY StopOnlyTightens
CHECK_DEADLOCK FALSE

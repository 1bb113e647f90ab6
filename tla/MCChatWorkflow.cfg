\* Two assets, two rules, two settings.
SPECIFICATION WorkflowSpec
CONSTANTS
    Assets = {a, b}
    Rules = {r1, r2}
    Risks = {k1, k2}
    DefaultRisk = k1
    NoAsset = NoAsset  NoPlan = NoPlan  NoRow = NoRow  NoFile = NoFile  NoResult = NoResult
INVARIANT BacktestsTheStrategy
PROPERTY ConfirmationAssembles
CHECK_DEADLOCK FALSE

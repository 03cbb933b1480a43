SPECIFICATION WorkSpec
CONSTANTS
    t1 = t1
    t2 = t2
    r1 = r1
    r2 = r2
    x = x
    y = y
    N = 2
    Window = 1
    Slots = 2
    NoProgress = 2
    Revisions = 2
    MaxLeaves = 1
    Checks = {t1}
    ModelOf <- OneModel
    CheckLimit = 1
    Jobs = {t1, t2}
    ArticleOf <- OwnArticle
    JobLimit = 2
    Inputs = {x, y}
    RecoveryLimit = 1
    Calls = 2
    Routes = {r1}
    BaseSends = 2
    Ceiling = 3
    MaxEpoch = 2
    FewCalls = 1
    Suppliers = {r1, r2}
    FewSends = 1
    LargeCeiling = 4
    ManyEpochs = 3
INVARIANTS PaidWorkSound SpendBounded OneInputOneResult PublishedWhole FinishedTurnsKept CapturesOnce
PROPERTIES NeverRepeatsUnknown KnownOutcomeFinal LoopEnds
CHECK_DEADLOCK FALSE

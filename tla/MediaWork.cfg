SPECIFICATION MediaSpec
CONSTANTS
    e1 = e1
    e2 = e2
    a1 = a1
    v1 = v1
    r1 = r1
    r2 = r2
    h1 = h1
    h2 = h2
    h3 = h3
    Assets = {a1, v1}
    Runs = {r1, r2}
    Maker <- FirstMakes
    IsFrame <- FirstIsFrame
    MaxFaults = 2
    Exports = {e1, e2}
    Asks <- Formats
    Downloads = {}
    MaxAttempts = 2
    MaxDownloads = 1
    JobFor = 2
    LeaseFor = 1
    RetryFor = 1
    KeepFor = 1
    DownloadFor = 1
    PinFor = 3
    SweepAfter = 3
    ManyLive = 2
    LargeBudget = 2
    FewLive = 1
    SmallBudget = 1
    Count = 3
    SendLimit = 2
    MaxRuns = 2
    Holders = {h1, h2, h3}
    MaxSlots = 2
    TTL = 2
SYMMETRY Alike
INVARIANTS OnePinnedPublisher LimitsRespected PinnedIsOnDisk TranscriptInOrder LaneExclusive
CHECK_DEADLOCK FALSE

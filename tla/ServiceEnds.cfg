CONSTANTS
    v1 = v1
    s1 = s1
    p1 = p1
    a1 = a1
    v2 = v2
    r1 = r1
    Requests = {q1, q2}
    Runs = {1, 2, 3}
    Sources = {v1}
    LocalSources = {}
    Snapshots = {s1}
    SourceOf <- OneVideo
    Retainable = {s1}
    Bases = {b1}
    MaxPending = 2
    NoRun = 0
    NoRequest = NoRequest
    NoSnapshot = NoSnapshot
    Exports = {e1}
    Asks <- OneAsk
    Downloads = {d1, d2}
    MaxAttempts = 2
    MaxLive = 1
    Budget = 1
    MaxDownloads = 1
    JobFor = 2
    LeaseFor = 1
    RetryFor = 1
    KeepFor = 4
    DownloadFor = 1
    PinFor = 3
    SweepAfter = 3
    AnswerLost = TRUE
    Checks = {p1}
    ModelOf <- OneModel
    CheckLimit = 1
    Assets = {a1, v2}
    Makers = {r1, r2}
    Maker <- FirstMakes
    IsFrame <- FirstIsFrame
    MaxFaults = 1
    Count = 3
    WindowSends = 1
    MaxRuns = 1
SPECIFICATION ServiceSpec
CHECK_DEADLOCK FALSE
PROPERTIES EveryRequestEnds CleanupSparesReady EveryExportEnds EveryFileGoes EveryTaskEnds EveryAssetGoes TranscribeReturns

SPECIFICATION Spec
CONSTANTS
    e1 = e1
    d1 = d1
    Exports = {e1}
    Asks <- OneAsk
    Downloads = {d1}
    MaxAttempts = 2
    MaxLive = 1
    Budget = 1
    MaxDownloads = 1
    JobFor = 2
    LeaseFor = 1
    RetryFor = 1
    KeepFor = 1
    DownloadFor = 1
    PinFor = 3
    SweepAfter = 3
    AnswerLost = TRUE
INVARIANT CommittedCopyKept

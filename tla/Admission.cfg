SPECIFICATION AdmissionSpec
CONSTANTS
    a = a
    b = b
    p = p
    q = q
    home = home
    Nobody = Nobody
    NoRun = NoRun
    Tabs = {a, b}
    Questions = {p, q}
    MaxSends = 3
    MaxTurns = 2
    MaxDeletes = 1
    Runs = {p, q}
    Kind <- Preparations
    TaskSlots = {a, b}
    Process <- OneProcess
    VideoSlots = 2
    SourceSlots = 1
    MaxEpoch = 1
    MaxGeneration = 1
    Faults = {"stall"}
    FaultBudget = 1
    Events = {}
    Sessions = {a, b}
    Address <- OneAddress
    Burst <- Bursts
    Every <- Rates
    MaxTime = 5
SYMMETRY Alike
INVARIANTS CapacityRespected SentOnce ThreadInStep RatesKept
PROPERTY SameKeySameTurn
CHECK_DEADLOCK FALSE

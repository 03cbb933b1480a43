---------------------------- MODULE ServiceEnds ----------------------------
(* What must come to an end: requests and the runs they share (extended    *)
(* here), an export with its downloads, the check of a model, the files of *)
(* runs, a transcription.  They share nothing, so a behaviour stays in the *)
(* case it starts in, and the others rest.                                 *)
EXTENDS RequestSharing

CONSTANTS
    Exports, Asks, Downloads, MaxAttempts, MaxLive, Budget, MaxDownloads,  \* Exports
    JobFor, LeaseFor, RetryFor, KeepFor, DownloadFor, PinFor, SweepAfter, AnswerLost,
    Checks, ModelOf, CheckLimit,                                \* PaidTasks
    Assets, Makers, Maker, IsFrame, MaxFaults,                  \* AssetStore
    Count, WindowSends, MaxRuns                                 \* Transcription

VARIABLES
    case,
    copy, pin, file, exec, dl, doomed, unprotected,             \* Exports
    check, task, worked, calls,                                 \* PaidTasks
    run, asset, refs, place, aged, janitor, faults,             \* AssetStore
    op, call, fed, worker, results                              \* Transcription

exportVars == <<copy, pin, file, exec, dl, doomed, unprotected>>
taskVars == <<check, task, worked, calls>>
assetVars == <<run, asset, refs, place, aged, janitor, faults>>
textVars == <<op, call, fed, worker, results>>

Export == INSTANCE Exports WITH row <- copy

Probe == INSTANCE PaidTasks WITH
    Tasks <- Checks, Kind <- [t \in Checks |-> "probe"], About <- ModelOf,
    MaxLive <- CheckLimit, row <- check, exec <- worked

\* NewFiles has the initial state of Files with a janitor of its own.
Files == INSTANCE AssetStore WITH Runs <- Makers, file <- place, old <- aged
NewFiles == INSTANCE AssetStore WITH
    Runs <- Makers, file <- place, old <- aged, janitor <- Files!Idle

Text == INSTANCE Transcription WITH SendLimit <- WindowSends

ASSUME ServiceAssumption ==
    /\ Export!ConstantsOK /\ Probe!ConstantsOK /\ Files!ConstantsOK /\ Text!ConstantsOK

\* A component that is not of the case rests where none of its fair actions is
\* enabled: in its initial state, if need be with a janitor that is away.
ServiceInit ==
    /\ case \in {"sharing", "export", "probe", "files", "text"}
    /\ Init /\ Export!Init /\ Probe!Init /\ Text!Init /\ NewFiles!Init
    /\ janitor = [Files!Idle EXCEPT !.phase = IF case = "files" THEN "idle" ELSE "away"]

ServiceNext ==
    /\ UNCHANGED case
    /\ \/ case = "sharing" /\ UNCHANGED <<exportVars, taskVars, assetVars, textVars>> /\ Next
       \/ case = "export" /\ UNCHANGED <<vars, taskVars, assetVars, textVars>> /\ Export!Next
       \/ case = "probe" /\ UNCHANGED <<vars, exportVars, assetVars, textVars>> /\ Probe!Next
       \/ case = "files" /\ UNCHANGED <<vars, exportVars, taskVars, textVars>> /\ Files!Next
       \/ case = "text" /\ UNCHANGED <<vars, exportVars, taskVars, assetVars>> /\ Text!Next

serviceVars == <<case, vars, exportVars, taskVars, assetVars, textVars>>

ServiceSpec ==
    /\ ServiceInit /\ [][ServiceNext]_serviceVars
    /\ Fairness /\ Export!Fairness /\ Probe!Fairness /\ Files!Fairness /\ Text!Fairness

-----------------------------------------------------------------------------
\* The properties of the components; that of the requests is EveryRequestEnds.
CleanupSparesReady == Export!CleanupSparesReady
EveryExportEnds == Export!EveryExportEnds
EveryFileGoes == Export!EveryFileGoes
EveryTaskEnds == Probe!EveryTaskEnds
EveryAssetGoes == Files!EveryAssetGoes
TranscribeReturns == Text!TranscribeReturns
=============================================================================

----------------------------- MODULE MediaWork -----------------------------
(* What works on files and slots: the files of runs (AssetStore, extended  *)
(* here), exports that are retried, exports that compete for places and    *)
(* disk, the transcription of a run and the slots of the generation lane.  *)
(* They share nothing, so a behaviour stays in the case it starts in, and  *)
(* the others rest.                                                        *)
EXTENDS AssetStore

CONSTANTS
    Exports, Asks, Downloads, MaxAttempts, MaxDownloads, JobFor, LeaseFor,  \* Exports
    RetryFor, KeepFor, DownloadFor, PinFor, SweepAfter,
    ManyLive, LargeBudget,      \* room for all that is retried
    FewLive, SmallBudget,       \* what exports compete for
    Count, SendLimit, MaxRuns,                                  \* Transcription
    Holders, MaxSlots, TTL                                      \* ResourceLanes

VARIABLES
    case,
    row, pin, place, exec, dl, doomed, unprotected,             \* Exports
    op, call, fed, worker, results,                             \* Transcription
    limit, key, lease, holder                                   \* ResourceLanes

exportVars == <<row, pin, place, exec, dl, doomed, unprotected>>
textVars == <<op, call, fed, worker, results>>
laneVars == <<limit, key, lease, holder>>

\* Exports with retries, lost leases and lost answers.
Retried == INSTANCE Exports WITH
    MaxLive <- ManyLive, Budget <- LargeBudget, AnswerLost <- TRUE, file <- place

\* Exports for few places and little disk.
Crowded == INSTANCE Exports WITH
    MaxLive <- FewLive, Budget <- SmallBudget, AnswerLost <- FALSE, file <- place

Text == INSTANCE Transcription

Lanes == INSTANCE ResourceLanes

ASSUME MediaAssumption ==
    /\ Retried!ConstantsOK /\ Crowded!ConstantsOK /\ ConstantsOK
    /\ Text!ConstantsOK /\ Lanes!ConstantsOK

MediaInit ==
    /\ \/ case = "retried" /\ Retried!Init
       \/ case \in {"crowded", "assets", "text", "lanes"} /\ Crowded!Init
    /\ Init /\ Text!Init /\ Lanes!Init /\ (case = "lanes" \/ limit = 1)

MediaNext ==
    /\ UNCHANGED case
    /\ \/ /\ UNCHANGED <<vars, textVars, laneVars>>
          /\ \/ case = "retried" /\ Retried!Next
             \/ case = "crowded" /\ Crowded!Next
       \/ case = "assets" /\ UNCHANGED <<exportVars, textVars, laneVars>> /\ Next
       \/ case = "text" /\ UNCHANGED <<exportVars, vars, laneVars>> /\ Text!Next
       \/ case = "lanes" /\ UNCHANGED <<exportVars, vars, textVars>> /\ Lanes!Next

mediaVars == <<case, exportVars, vars, textVars, laneVars>>

MediaSpec == MediaInit /\ [][MediaNext]_mediaVars

-----------------------------------------------------------------------------
TypesOK ==
    /\ case = "retried" => Retried!TypeOK
    /\ case = "crowded" => Crowded!TypeOK
    /\ TypeOK /\ Text!TypeOK /\ Lanes!TypeOK

\* The properties of the components, each in the case that can break it;
\* that of the assets case is PinnedIsOnDisk. LimitsRespected also says that
\* every component is well typed.
OnePinnedPublisher == case = "retried" => Retried!OnePinnedPublisher
LimitsRespected == TypesOK /\ (case = "crowded" => Crowded!LimitsRespected)
TranscriptInOrder == case = "text" => Text!TranscriptInOrder
LaneExclusive == case = "lanes" => Lanes!LaneExclusive
=============================================================================

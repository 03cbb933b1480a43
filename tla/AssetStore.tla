----------------------------- MODULE AssetStore -----------------------------
(* Files of runs: how a frame or a video becomes an asset, what keeps it,  *)
(* and how the janitor and the owner of the service remove it.  Every      *)
(* transaction holds the control lock; files are moved and removed outside *)
(* of it.                                                                  *)
EXTENDS Naturals, FiniteSets

CONSTANTS
    Assets, Runs,
    Maker,          \* of an asset: the run that makes it
    IsFrame,        \* of an asset: a frame, or else a video or its audio
    MaxFaults       \* bound on failed removals and deaths of the janitor

ConstantsOK ==
    /\ Maker \in [Assets -> Runs] /\ IsFrame \in [Assets -> BOOLEAN]
    /\ MaxFaults \in Nat /\ {"article", "answer"} \cap Runs = {}

VARIABLES
    run,            \* of a run: live, late (past its deadline) or over
    asset,          \* of an asset: the state of its row, and its expiry
    refs,           \* of an asset: who pins it
    file,           \* of an asset: where its bytes are
    old,            \* files that were not written for two hours
    janitor,        \* who holds the deletion lease: phase, work list, keys
    faults

vars == <<run, asset, refs, file, old, janitor, faults>>

Idle == [phase |-> "idle", todo |-> {}, done |-> {}, sweeps |-> FALSE, known |-> {}]
Frames == {a \in Assets : IsFrame[a]}

Init ==
    /\ run = [r \in Runs |-> "live"]
    /\ asset = [a \in Assets |-> [state |-> "none", expired |-> FALSE, waits |-> FALSE]]
    /\ refs = [a \in Assets |-> {}] /\ file = [a \in Assets |-> "none"]
    /\ old = {} /\ janitor = Idle /\ faults = 0

(*************************** Runs and their files **************************)
UndatedFence(r) == run[r] # "over"      \* mutant: the deadline is not looked at
Fence(r) == run[r] = "live"

Write(a) ==
    /\ file[a] = "none" /\ Fence(Maker[a])
    /\ file' = [file EXCEPT ![a] = "work"]
    /\ UNCHANGED <<run, asset, refs, old, janitor, faults>>

\* The rename keeps the time of the last write and looks at no lease.
Own(a) ==
    /\ file[a] = "work"
    /\ file' = [file EXCEPT ![a] = "assets"]
    /\ UNCHANGED <<run, asset, refs, old, janitor, faults>>

\* The execution has just seen the file at its place.
AddAsset(a) ==
    /\ file[a] # "none" /\ file[a] # "work" /\ asset[a].state = "none" /\ Fence(Maker[a])
    /\ asset' = [asset EXCEPT ![a].state = "ready"]
    /\ refs' = [refs EXCEPT ![a] = {Maker[a]}]
    /\ UNCHANGED <<run, file, old, janitor, faults>>

Pinnable(a) == asset[a].state = "ready"

\* Another run reads the frame, finds it cached, or inherits it with a draft.
Pin(r, a) ==
    /\ Fence(r) /\ Pinnable(a) /\ r \notin refs[a]
    /\ refs' = [refs EXCEPT ![a] = @ \cup {r}]
    /\ UNCHANGED <<run, asset, file, old, janitor, faults>>

Released(r) == [a \in Assets |-> refs[a] \ {r}]

(* Publish and CompleteAnswer: all images must be ready; the article keeps *)
(* them for good, the answer for thirty days.                              *)
Publish(r, owner, images) ==
    /\ Fence(r) /\ images \subseteq Frames /\ \A a \in images : Pinnable(a)
    /\ refs' = [a \in Assets |-> Released(r)[a] \cup IF a \in images THEN {owner} ELSE {}]
    /\ run' = [run EXCEPT ![r] = "over"]
    /\ UNCHANGED <<asset, file, old, janitor, faults>>

DeadlinePasses(r) ==
    /\ run[r] = "live" /\ run' = [run EXCEPT ![r] = "late"]
    /\ UNCHANGED <<asset, refs, file, old, janitor, faults>>

\* The run is terminated, or five minutes after its deadline its pins expire.
RunEnds(r) ==
    /\ run[r] # "over" /\ run' = [run EXCEPT ![r] = "over"]
    /\ refs' = Released(r)
    /\ UNCHANGED <<asset, file, old, janitor, faults>>

AnswerExpires(a) ==
    /\ "answer" \in refs[a]
    /\ refs' = [refs EXCEPT ![a] = @ \ {"answer"}]
    /\ UNCHANGED <<run, asset, file, old, janitor, faults>>

FrameExpires(a) ==
    /\ IsFrame[a] /\ asset[a].state = "ready" /\ ~asset[a].expired
    /\ asset' = [asset EXCEPT ![a].expired = TRUE]
    /\ UNCHANGED <<run, refs, file, old, janitor, faults>>

\* Nothing that a run wrote is two hours old before its deadline, and no
\* sweep takes that long.
GrowsOld(a) ==
    /\ janitor.phase # "sweep"
    /\ file[a] \in {"work", "assets"} /\ a \notin old /\ run[Maker[a]] # "live"
    /\ old' = old \cup {a}
    /\ UNCHANGED <<run, asset, refs, file, janitor, faults>>

(*********************** The removal of known assets ***********************)
Free(a) == refs[a] = {}

ReadyRemovable(a) ==        \* mutant: a removal that failed is not tried again
    Free(a) /\ asset[a].state = "ready" /\ IsFrame[a] /\ asset[a].expired

Removable(a) ==
    /\ Free(a) /\ ~asset[a].waits
    /\ \/ asset[a].state = "deleting"
       \/ asset[a].state = "ready" /\ IsFrame[a] /\ asset[a].expired

Marked(set) ==
    [a \in Assets |-> IF a \in set THEN [asset[a] EXCEPT !.state = "deleting"] ELSE asset[a]]

CleanupAssets ==
    /\ janitor.phase = "idle"
    /\ LET todo == {a \in Assets : Removable(a)} IN
       /\ asset' = Marked(todo)
       /\ janitor' = [Idle EXCEPT !.phase = "unlink", !.todo = todo, !.sweeps = TRUE]
    /\ UNCHANGED <<run, refs, file, old, faults>>

\* The originals of the source, all of them, while nothing uses them.
DeleteVideo ==
    /\ janitor.phase = "idle" /\ \A r \in Runs : run[r] = "over"
    /\ LET originals == {a \in Assets \ Frames : asset[a].state \notin {"none", "deleted"}} IN
       /\ originals # {} /\ \A a \in originals : Free(a)
       /\ asset' = [a \in Assets |-> IF a \in originals
                      THEN [asset[a] EXCEPT !.state = "deleting", !.waits = FALSE] ELSE asset[a]]
       /\ janitor' = [Idle EXCEPT !.phase = "unlink", !.todo = originals]
    /\ UNCHANGED <<run, refs, file, old, faults>>

\* os.Remove; a file that is not there counts as removed.
Unlink(a) ==
    /\ janitor.phase = "unlink" /\ a \in janitor.todo /\ a \notin janitor.done
    /\ \/ /\ file' = [file EXCEPT ![a] = "gone"]
          /\ janitor' = [janitor EXCEPT !.done = @ \cup {a}]
          /\ UNCHANGED <<asset, faults>>
       \/ \* Deleted(failure): the asset waits for its next attempt
          /\ faults < MaxFaults /\ faults' = faults + 1
          /\ asset' = [asset EXCEPT ![a].waits = TRUE]
          /\ janitor' = [janitor EXCEPT !.todo = @ \ {a}]
          /\ UNCHANGED file
    /\ UNCHANGED <<run, refs, old>>

Deleted(a) ==
    /\ janitor.phase = "unlink" /\ a \in janitor.done
    /\ asset' = [asset EXCEPT ![a].state = IF @ = "deleting" THEN "deleted" ELSE @,
                              ![a].waits = FALSE]
    /\ janitor' = [janitor EXCEPT !.done = @ \ {a}, !.todo = @ \ {a}]
    /\ UNCHANGED <<run, refs, file, old, faults>>

WaitEnds(a) ==
    /\ asset[a].waits /\ asset' = [asset EXCEPT ![a].waits = FALSE]
    /\ UNCHANGED <<run, refs, file, old, janitor, faults>>

(**************************** The orphan sweep *****************************)
KnownStorageKeys ==
    /\ janitor.phase = "unlink" /\ janitor.todo = {}
    /\ janitor' = IF janitor.sweeps
          THEN [Idle EXCEPT !.phase = "sweep",
                  !.known = {a \in Assets : asset[a].state \notin {"none", "deleted"}}]
          ELSE Idle
    /\ UNCHANGED <<run, asset, refs, file, old, faults>>

Orphan(a) ==
    /\ a \in old
    /\ \/ file[a] = "assets" /\ a \notin janitor.known
       \/ file[a] = "work" /\ run[Maker[a]] = "over"

Sweep(a) ==
    /\ janitor.phase = "sweep" /\ Orphan(a)
    /\ file' = [file EXCEPT ![a] = "gone"]
    /\ UNCHANGED <<run, asset, refs, old, janitor, faults>>

\* The walk may have passed a file before it became an orphan.
SweepDone ==
    /\ janitor.phase = "sweep" /\ \A a \in Assets : ~Orphan(a)
    /\ janitor' = Idle
    /\ UNCHANGED <<run, asset, refs, file, old, faults>>

JanitorDies ==
    /\ janitor.phase # "idle" /\ faults < MaxFaults
    /\ janitor' = Idle /\ faults' = faults + 1
    /\ UNCHANGED <<run, asset, refs, file, old>>

(****************************** Specification ******************************)
Janitor ==
    \/ CleanupAssets \/ KnownStorageKeys \/ SweepDone
    \/ \E a \in Assets : Unlink(a) \/ Deleted(a) \/ Sweep(a)

Next ==
    \/ Janitor \/ DeleteVideo \/ JanitorDies
    \/ \E a \in Assets :
         \/ Write(a) \/ Own(a) \/ AddAsset(a) \/ AnswerExpires(a)
         \/ FrameExpires(a) \/ GrowsOld(a) \/ WaitEnds(a)
    \/ \E r \in Runs :
         \/ DeadlinePasses(r) \/ RunEnds(r)
         \/ \E a \in Assets : Pin(r, a)
         \/ \E owner \in {"article", "answer"}, images \in SUBSET Frames : Publish(r, owner, images)

(* The clean-up is a task of every five minutes; a removal fails a bounded *)
(* number of times; the clock runs, between two sweeps too (SF).           *)
Fairness ==
    /\ WF_vars(Janitor)
    /\ \A a \in Assets : WF_vars(FrameExpires(a)) /\ SF_vars(GrowsOld(a)) /\ WF_vars(WaitEnds(a))

Spec == Init /\ [][Next]_vars /\ Fairness

(******************************* Properties ********************************)
TypeOK ==
    /\ run \in [Runs -> {"live", "late", "over"}]
    /\ asset \in [Assets -> [state : {"none", "ready", "deleting", "deleted"},
                             expired : BOOLEAN, waits : BOOLEAN]]
    /\ refs \in [Assets -> SUBSET (Runs \cup {"article", "answer"})]
    /\ file \in [Assets -> {"none", "work", "assets", "gone"}]
    /\ old \subseteq Assets /\ faults \in 0 .. MaxFaults
    /\ janitor \in [phase : {"idle", "unlink", "sweep"}, todo : SUBSET Assets,
                    done : SUBSET Assets, sweeps : BOOLEAN, known : SUBSET Assets]

(* What is ready is on disk, and what a run, an answer or an article pins  *)
(* is ready: neither the janitor, whose lists are as old as its last look, *)
(* nor the owner's deletion ever takes it.                                 *)
PinnedIsOnDisk ==
    \A a \in Assets :
        /\ asset[a].state = "ready" => file[a] = "assets"
        /\ refs[a] # {} => asset[a].state = "ready"

(* Every file of a frame that nobody keeps goes, and so does every file    *)
(* that a stopped execution left without a row.                            *)
EveryAssetGoes ==
    \A a \in Assets :
        /\ asset[a].state = "ready" /\ IsFrame[a] ~> file[a] = "gone" \/ refs[a] # {}
        /\ file[a] \in {"work", "assets"} /\ asset[a].state = "none" /\ run[Maker[a]] = "over"
              ~> file[a] = "gone"
=============================================================================

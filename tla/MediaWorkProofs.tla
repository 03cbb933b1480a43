-------------------------- MODULE MediaWorkProofs --------------------------
(***************************************************************************)
(* What media work rests on.  What is pinned is on disk, for every number  *)
(* of assets and runs: the removal and the sweep work from lists that are  *)
(* out of date, and what makes them safe is that a listed asset stays      *)
(* free, and that a file a live run may still register is never old.       *)
(* No two calls on time share a slot of the generation lane (Lanes), for   *)
(* every number of calls and slots.  And a transcript has every window of  *)
(* the audio in source order (Text), for every number of windows.  The     *)
(* last part says so, and what is proved of exports, of their composition. *)
(***************************************************************************)
EXTENDS MediaWork, Integers, SequenceTheorems, WellFoundedInduction, TLAPS

\* What the janitor's work list names is still being deleted.
ListsHold ==
  /\ janitor.done \subseteq janitor.todo
  /\ \A a \in janitor.todo : asset[a].state = "deleting"

\* Files of live runs are young, and a lost one is nobody's to register.
YoungWhileLive ==
  \A a \in Assets :
    /\ run[Maker[a]] = "live" => a \notin old
    /\ file[a] = "gone" /\ asset[a].state = "none" => run[Maker[a]] # "live"

\* A ready asset that the sweep does not know was made after its list.
SweepKnows ==
  janitor.phase = "sweep" =>
    \A a \in Assets : asset[a].state = "ready" => a \in janitor.known \/ a \notin old

AssetInv == TypeOK /\ PinnedIsOnDisk /\ ListsHold /\ YoungWhileLive /\ SweepKnows

Lists == [phase : {"idle", "unlink", "sweep"}, todo : SUBSET Assets,
          done : SUBSET Assets, sweeps : BOOLEAN, known : SUBSET Assets]
Rows == [state : {"none", "ready", "deleting", "deleted"}, expired : BOOLEAN, waits : BOOLEAN]

LEMMA AssetInit == ASSUME ConstantsOK, Init PROVE AssetInv
BY DEF ConstantsOK, Init, AssetInv, TypeOK, PinnedIsOnDisk, ListsHold, YoungWhileLive, SweepKnows, Idle

\* Steps of a run on one of its files.
LEMMA FilesStep ==
  ASSUME ConstantsOK, AssetInv, NEW a \in Assets, Write(a) \/ Own(a) \/ AddAsset(a)
  PROVE  AssetInv'
<1> USE DEF AssetInv, ConstantsOK
<1>1. CASE Write(a)
  BY <1>1 DEF Write, TypeOK, PinnedIsOnDisk, ListsHold, YoungWhileLive, SweepKnows
<1>2. CASE Own(a)
  BY <1>2 DEF Own, TypeOK, PinnedIsOnDisk, ListsHold, YoungWhileLive, SweepKnows
<1>3. CASE AddAsset(a)
  <2>1. file[a] = "assets" /\ a \notin old
    BY <1>3 DEF AddAsset, Fence, TypeOK, YoungWhileLive
  <2>2. TypeOK'
    <3>1. asset' = [asset EXCEPT ![a].state = "ready"] /\ refs' = [refs EXCEPT ![a] = {Maker[a]}]
      BY <1>3 DEF AddAsset
    <3>2. Maker[a] \in Runs
      OBVIOUS
    <3>3. asset' \in [Assets -> Rows]
      BY <3>1 DEF TypeOK, Rows
    <3>4. refs' \in [Assets -> SUBSET (Runs \cup {"article", "answer"})]
      BY <3>1, <3>2 DEF TypeOK
    <3> QED BY <1>3, <3>3, <3>4 DEF AddAsset, TypeOK, Rows
  <2>3. PinnedIsOnDisk' /\ ListsHold' /\ YoungWhileLive' /\ SweepKnows'
    BY <1>3, <2>1 DEF AddAsset, TypeOK, PinnedIsOnDisk, ListsHold, YoungWhileLive, SweepKnows
  <2> QED BY <2>2, <2>3
<1> QED BY <1>1, <1>2, <1>3

\* Pins come to what is ready, and go.
LEMMA PinStep ==
  ASSUME ConstantsOK, AssetInv, NEW a \in Assets, NEW r \in Runs, Pin(r, a) \/ AnswerExpires(a)
  PROVE  AssetInv'
<1> USE DEF AssetInv
<1>1. UNCHANGED <<run, asset, file, old, janitor, faults>>
  BY DEF Pin, AnswerExpires
<1>2. refs' \in [Assets -> SUBSET (Runs \cup {"article", "answer"})]
  BY DEF Pin, AnswerExpires, TypeOK
<1>3. \A x \in Assets : refs'[x] # {} => asset[x].state = "ready"
  BY DEF Pin, AnswerExpires, Pinnable, TypeOK, PinnedIsOnDisk
<1> QED BY <1>1, <1>2, <1>3 DEF TypeOK, PinnedIsOnDisk, ListsHold, YoungWhileLive, SweepKnows

LEMMA RunStep ==
  ASSUME ConstantsOK, AssetInv, NEW r \in Runs,
         \/ DeadlinePasses(r) \/ RunEnds(r)
         \/ \E owner \in {"article", "answer"}, images \in SUBSET Frames : Publish(r, owner, images)
  PROVE  AssetInv'
<1> USE DEF AssetInv, ConstantsOK
<1>1. UNCHANGED <<asset, file, old, janitor, faults>>
  BY DEF DeadlinePasses, RunEnds, Publish
<1>2. /\ run' \in [Runs -> {"live", "late", "over"}]
      /\ \A x \in Runs : run'[x] = "live" => run[x] = "live"
  BY DEF DeadlinePasses, RunEnds, Publish, TypeOK
<1>3. /\ refs' \in [Assets -> SUBSET (Runs \cup {"article", "answer"})]
      /\ \A x \in Assets : refs'[x] # {} => asset[x].state = "ready"
  <2>1. CASE DeadlinePasses(r)
    BY <2>1 DEF DeadlinePasses, TypeOK, PinnedIsOnDisk
  <2>2. CASE RunEnds(r)
    BY <2>2 DEF RunEnds, Released, TypeOK, PinnedIsOnDisk
  <2>3. ASSUME NEW owner \in {"article", "answer"}, NEW images \in SUBSET Frames,
               Publish(r, owner, images)
        PROVE  <1>3!1 /\ <1>3!2
    <3>1. refs' = [x \in Assets |-> Released(r)[x] \cup IF x \in images THEN {owner} ELSE {}]
      BY <2>3 DEF Publish
    <3>2. \A x \in Assets : Released(r)[x] = refs[x] \ {r}
      BY DEF Released
    <3>3. \A x \in images : asset[x].state = "ready"
      BY <2>3 DEF Publish, Pinnable
    <3> QED BY <3>1, <3>2, <3>3 DEF TypeOK, PinnedIsOnDisk
  <2> QED BY <2>1, <2>2, <2>3
<1>4. TypeOK' /\ PinnedIsOnDisk'
  BY <1>1, <1>2, <1>3 DEF TypeOK, PinnedIsOnDisk
<1>5. ListsHold' /\ SweepKnows'
  BY <1>1 DEF ListsHold, SweepKnows
<1>6. YoungWhileLive'
  BY <1>1, <1>2 DEF YoungWhileLive
<1> QED BY <1>4, <1>5, <1>6

LEMMA ClockStep ==
  ASSUME ConstantsOK, AssetInv, NEW a \in Assets, FrameExpires(a) \/ GrowsOld(a) \/ WaitEnds(a)
  PROVE  AssetInv'
<1> USE DEF AssetInv, ConstantsOK
<1>1. CASE FrameExpires(a) \/ WaitEnds(a)
  <2>1. UNCHANGED <<run, refs, file, old, janitor, faults>>
    BY <1>1 DEF FrameExpires, WaitEnds
  <2>2. asset \in [Assets -> Rows]
    BY DEF TypeOK, Rows
  <2>3. \/ asset' = [asset EXCEPT ![a].expired = TRUE]
        \/ asset' = [asset EXCEPT ![a].waits = FALSE]
    BY <1>1 DEF FrameExpires, WaitEnds
  <2>4. asset' \in [Assets -> Rows] /\ \A x \in Assets : asset'[x].state = asset[x].state
    <3>1. CASE asset' = [asset EXCEPT ![a].expired = TRUE]
      BY <2>2, <3>1 DEF Rows
    <3>2. CASE asset' = [asset EXCEPT ![a].waits = FALSE]
      BY <2>2, <3>2 DEF Rows
    <3> QED BY <2>3, <3>1, <3>2
  <2> QED BY <2>1, <2>4 DEF TypeOK, Rows, PinnedIsOnDisk, ListsHold, YoungWhileLive, SweepKnows
<1>2. CASE GrowsOld(a)
  BY <1>2 DEF GrowsOld, TypeOK, PinnedIsOnDisk, ListsHold, YoungWhileLive, SweepKnows
<1> QED BY <1>1, <1>2

\* What is put on the list is free, and is being deleted from then on.
LEMMA Marking ==
  ASSUME ConstantsOK, AssetInv, NEW todo \in SUBSET Assets, NEW sweeps \in BOOLEAN,
         \A a \in todo : refs[a] = {},
         asset' \in [Assets -> Rows],
         \A a \in todo : asset'[a].state = "deleting",
         \A a \in Assets \ todo : asset'[a] = asset[a],
         \A a \in todo : asset[a].state # "none",
         janitor' = [phase |-> "unlink", todo |-> todo, done |-> {}, sweeps |-> sweeps, known |-> {}],
         UNCHANGED <<run, refs, file, old, faults>>
  PROVE  AssetInv'
<1> USE DEF AssetInv
<1>1. janitor'.phase = "unlink" /\ janitor'.todo = todo /\ janitor'.done = {}
  OBVIOUS
<1>2. TypeOK'
  BY DEF TypeOK, Rows
<1>3. PinnedIsOnDisk'
  <2> SUFFICES ASSUME NEW a \in Assets
               PROVE  /\ asset'[a].state = "ready" => file[a] = "assets"
                      /\ refs[a] # {} => asset'[a].state = "ready"
    BY DEF PinnedIsOnDisk
  <2>1. CASE a \in todo
    BY <2>1
  <2>2. CASE a \notin todo
    BY <2>2 DEF PinnedIsOnDisk
  <2> QED BY <2>1, <2>2
<1>4. ListsHold'
  BY <1>1 DEF ListsHold
<1>6. SweepKnows'
  BY <1>1 DEF SweepKnows
<1>5. YoungWhileLive'
  <2> SUFFICES ASSUME NEW a \in Assets
               PROVE  /\ run[Maker[a]] = "live" => a \notin old
                      /\ file[a] = "gone" /\ asset'[a].state = "none" => run[Maker[a]] # "live"
    BY DEF YoungWhileLive
  <2>1. CASE a \in todo
    BY <2>1 DEF YoungWhileLive
  <2>2. CASE a \notin todo
    BY <2>2 DEF YoungWhileLive
  <2> QED BY <2>1, <2>2
<1> QED BY <1>2, <1>3, <1>4, <1>5, <1>6

LEMMA MarkStep ==
  ASSUME ConstantsOK, AssetInv, CleanupAssets \/ DeleteVideo
  PROVE  AssetInv'
<1>0. asset \in [Assets -> Rows]
  BY DEF AssetInv, TypeOK, Rows
<1>1. CASE CleanupAssets
  <2> DEFINE todo == {a \in Assets : Removable(a)}
  <2>1. /\ asset' = Marked(todo)
        /\ janitor' = [Idle EXCEPT !.phase = "unlink", !.todo = todo, !.sweeps = TRUE]
        /\ UNCHANGED <<run, refs, file, old, faults>>
    BY <1>1 DEF CleanupAssets
  <2>2. todo \in SUBSET Assets
    OBVIOUS
  <2>3. \A a \in todo : refs[a] = {} /\ asset[a].state # "none"
    BY DEF Removable, Free
  <2> HIDE DEF todo
  <2>4. \A a \in Assets : asset'[a] = IF a \in todo THEN [asset[a] EXCEPT !.state = "deleting"] ELSE asset[a]
    BY <2>1 DEF Marked
  <2>5. asset' \in [Assets -> Rows]
    BY <1>0, <2>1, <2>2 DEF Marked, Rows
  <2>6. \A a \in todo : asset'[a].state = "deleting"
    BY <1>0, <2>2, <2>4 DEF Rows
  <2>7. janitor' = [phase |-> "unlink", todo |-> todo, done |-> {}, sweeps |-> TRUE, known |-> {}]
    BY <2>1 DEF Idle
  <2> QED BY <2>1, <2>2, <2>3, <2>4, <2>5, <2>6, <2>7, Marking
<1>2. CASE DeleteVideo
  <2> DEFINE todo == {a \in Assets \ Frames : asset[a].state \notin {"none", "deleted"}}
  <2>1. /\ \A a \in todo : Free(a)
        /\ asset' = [a \in Assets |-> IF a \in todo
             THEN [asset[a] EXCEPT !.state = "deleting", !.waits = FALSE] ELSE asset[a]]
        /\ janitor' = [Idle EXCEPT !.phase = "unlink", !.todo = todo]
        /\ UNCHANGED <<run, refs, file, old, faults>>
    BY <1>2 DEF DeleteVideo
  <2>2. todo \in SUBSET Assets
    OBVIOUS
  <2>3. \A a \in todo : refs[a] = {} /\ asset[a].state # "none"
    BY <2>1 DEF Free
  <2> HIDE DEF todo
  <2>4. \A a \in Assets : asset'[a] = IF a \in todo
             THEN [asset[a] EXCEPT !.state = "deleting", !.waits = FALSE] ELSE asset[a]
    BY <2>1
  <2>5. asset' \in [Assets -> Rows]
    BY <1>0, <2>1, <2>2 DEF Rows
  <2>6. \A a \in todo : asset'[a].state = "deleting"
    BY <1>0, <2>2, <2>4 DEF Rows
  <2>7. janitor' = [phase |-> "unlink", todo |-> todo, done |-> {}, sweeps |-> FALSE, known |-> {}]
    BY <2>1 DEF Idle
  <2> QED BY <2>1, <2>2, <2>3, <2>4, <2>5, <2>6, <2>7, Marking
<1> QED BY <1>1, <1>2

\* One asset leaves the disk, or waits, or leaves the list.
LEMMA Unlisting ==
  ASSUME ConstantsOK, AssetInv, NEW a \in Assets,
         janitor.phase = "unlink", a \in janitor.todo,
         asset' \in [Assets -> Rows], asset'[a].state \in {"deleting", "deleted"},
         \A x \in Assets \ {a} : asset'[x] = asset[x],
         file' \in [Assets -> {"none", "work", "assets", "gone"}],
         \A x \in Assets \ {a} : file'[x] = file[x],
         janitor' \in Lists, janitor'.phase = "unlink",
         janitor'.done \subseteq janitor'.todo, janitor'.todo \subseteq janitor.todo,
         a \in janitor'.todo => asset'[a].state = "deleting",
         faults' \in 0 .. MaxFaults, UNCHANGED <<run, refs, old>>
  PROVE  AssetInv'
<1> USE DEF AssetInv
<1>1. asset[a].state = "deleting" /\ refs[a] = {}
  BY DEF ListsHold, PinnedIsOnDisk
<1>2. TypeOK'
  BY DEF TypeOK, Rows, Lists
<1>3. \A x \in Assets \ {a} : asset'[x].state = asset[x].state
  OBVIOUS
<1>4. PinnedIsOnDisk'
  BY <1>1, <1>3 DEF PinnedIsOnDisk
<1>5. YoungWhileLive'
  BY <1>3 DEF YoungWhileLive
<1>6. SweepKnows'
  BY DEF SweepKnows
<1>7. ListsHold'
  BY <1>3 DEF ListsHold, TypeOK
<1> QED BY <1>2, <1>4, <1>5, <1>6, <1>7

LEMMA UnlinkStep ==
  ASSUME ConstantsOK, AssetInv, NEW a \in Assets, Unlink(a) \/ Deleted(a)
  PROVE  AssetInv'
<1>0. /\ asset \in [Assets -> Rows] /\ janitor \in Lists /\ faults \in 0 .. MaxFaults
      /\ file \in [Assets -> {"none", "work", "assets", "gone"}]
      /\ MaxFaults \in Nat
  BY DEF AssetInv, TypeOK, Rows, Lists, ConstantsOK
<1>1. janitor.phase = "unlink" /\ a \in janitor.todo /\ asset[a].state = "deleting"
      /\ janitor.done \subseteq janitor.todo
  BY DEF Unlink, Deleted, AssetInv, ListsHold
<1>2. UNCHANGED <<run, refs, old>>
  BY DEF Unlink, Deleted
<1>3. CASE Unlink(a) /\ UNCHANGED <<asset, faults>>
  <2>1. \/ /\ file' = [file EXCEPT ![a] = "gone"]
           /\ janitor' = [janitor EXCEPT !.done = @ \cup {a}]
        \/ faults' = faults + 1
    BY <1>3 DEF Unlink
  <2>2. file' = [file EXCEPT ![a] = "gone"] /\ janitor' = [janitor EXCEPT !.done = @ \cup {a}]
    BY <1>0, <1>3, <2>1
  <2>3. /\ janitor' \in Lists /\ janitor'.phase = "unlink" /\ janitor'.todo = janitor.todo
        /\ janitor'.done \subseteq janitor'.todo
    BY <1>0, <1>1, <2>2 DEF Lists
  <2>4. /\ file' \in [Assets -> {"none", "work", "assets", "gone"}]
        /\ \A x \in Assets \ {a} : file'[x] = file[x]
    BY <1>0, <2>2
  <2>5. asset' = asset /\ faults' = faults
    BY <1>3
  <2> QED BY <1>0, <1>1, <1>2, <2>3, <2>4, <2>5, Unlisting
<1>4. CASE /\ faults < MaxFaults /\ faults' = faults + 1 /\ file' = file
           /\ asset' = [asset EXCEPT ![a].waits = TRUE]
           /\ janitor' = [janitor EXCEPT !.todo = @ \ {a}] /\ a \notin janitor.done
  <2>1. /\ janitor' \in Lists /\ janitor'.phase = "unlink" /\ janitor'.todo = janitor.todo \ {a}
        /\ janitor'.done \subseteq janitor'.todo
    BY <1>0, <1>1, <1>4 DEF Lists
  <2>2. /\ asset' \in [Assets -> Rows] /\ asset'[a].state = "deleting"
        /\ \A x \in Assets \ {a} : asset'[x] = asset[x]
    BY <1>0, <1>1, <1>4 DEF Rows
  <2>3. faults' \in 0 .. MaxFaults
    BY <1>0, <1>4
  <2>4. file' = file
    BY <1>4
  <2> QED BY <1>0, <1>1, <1>2, <2>1, <2>2, <2>3, <2>4, Unlisting
<1>5. CASE Deleted(a)
  <2>1. /\ asset' = [asset EXCEPT ![a].state = IF @ = "deleting" THEN "deleted" ELSE @,
                                  ![a].waits = FALSE]
        /\ janitor' = [janitor EXCEPT !.done = @ \ {a}, !.todo = @ \ {a}]
        /\ UNCHANGED <<file, faults>>
    BY <1>5 DEF Deleted
  <2>2. /\ janitor' \in Lists /\ janitor'.phase = "unlink" /\ janitor'.todo = janitor.todo \ {a}
        /\ janitor'.done \subseteq janitor'.todo
    BY <1>0, <1>1, <2>1 DEF Lists
  <2>3. /\ asset' \in [Assets -> Rows] /\ asset'[a].state = "deleted"
        /\ \A x \in Assets \ {a} : asset'[x] = asset[x]
    BY <1>0, <1>1, <2>1 DEF Rows
  <2>4. file' = file /\ faults' = faults
    BY <2>1
  <2> QED BY <1>0, <1>1, <1>2, <2>2, <2>3, <2>4, Unlisting
<1> QED BY <1>3, <1>4, <1>5 DEF Unlink

LEMMA SweepStep ==
  ASSUME ConstantsOK, AssetInv,
         KnownStorageKeys \/ SweepDone \/ JanitorDies \/ \E a \in Assets : Sweep(a)
  PROVE  AssetInv'
<1> USE DEF AssetInv, ConstantsOK
<1>1. CASE KnownStorageKeys \/ SweepDone \/ JanitorDies
  <2>1. UNCHANGED <<run, asset, refs, file, old>> /\ faults' \in 0 .. MaxFaults
    BY <1>1 DEF KnownStorageKeys, SweepDone, JanitorDies, TypeOK
  <2> DEFINE keys == {a \in Assets : asset[a].state \notin {"none", "deleted"}}
  <2>2. \/ janitor' = Idle
        \/ janitor' = [Idle EXCEPT !.phase = "sweep", !.known = keys]
    BY <1>1 DEF KnownStorageKeys, SweepDone, JanitorDies
  <2>3. keys \subseteq Assets /\ \A a \in Assets : asset[a].state = "ready" => a \in keys
    OBVIOUS
  <2> HIDE DEF keys
  <2>4. /\ janitor' \in Lists /\ janitor'.todo = {} /\ janitor'.done = {}
        /\ janitor'.phase = "sweep" => janitor'.known = keys
    <3>1. CASE janitor' = Idle
      BY <3>1 DEF Idle, Lists
    <3>2. CASE janitor' = [Idle EXCEPT !.phase = "sweep", !.known = keys]
      <4>1. janitor' = [phase |-> "sweep", todo |-> {}, done |-> {}, sweeps |-> FALSE, known |-> keys]
        BY <3>2 DEF Idle
      <4> QED BY <2>3, <4>1 DEF Lists
    <3> QED BY <2>2, <3>1, <3>2
  <2>5. TypeOK'
    BY <2>1, <2>4 DEF TypeOK, Lists
  <2>6. SweepKnows'
    BY <2>1, <2>3, <2>4 DEF SweepKnows
  <2> QED BY <2>1, <2>4, <2>5, <2>6 DEF PinnedIsOnDisk, ListsHold, YoungWhileLive
<1>2. ASSUME NEW a \in Assets, Sweep(a) PROVE AssetInv'
  <2>1. a \in old /\ asset[a].state # "ready"
    BY <1>2 DEF Sweep, Orphan, SweepKnows, PinnedIsOnDisk
  <2>2. run[Maker[a]] # "live"
    BY <2>1 DEF YoungWhileLive
  <2> QED BY <1>2, <2>1, <2>2 DEF Sweep, TypeOK, PinnedIsOnDisk, ListsHold, YoungWhileLive, SweepKnows
<1> QED BY <1>1, <1>2

LEMMA AssetNext == ASSUME ConstantsOK, AssetInv, [Next]_vars PROVE AssetInv'
<1>1. CASE UNCHANGED vars
  BY <1>1 DEF vars, AssetInv, TypeOK, PinnedIsOnDisk, ListsHold, YoungWhileLive, SweepKnows
<1>2. CASE Next
  <2>1. \/ CleanupAssets \/ DeleteVideo
        \/ KnownStorageKeys \/ SweepDone \/ JanitorDies
        \/ \E a \in Assets : Unlink(a) \/ Deleted(a) \/ Sweep(a)
        \/ \E a \in Assets :
             \/ Write(a) \/ Own(a) \/ AddAsset(a) \/ AnswerExpires(a)
             \/ FrameExpires(a) \/ GrowsOld(a) \/ WaitEnds(a)
        \/ \E r \in Runs : DeadlinePasses(r) \/ RunEnds(r)
        \/ \E r \in Runs, a \in Assets : Pin(r, a)
        \/ \E r \in Runs : \E owner \in {"article", "answer"}, images \in SUBSET Frames :
             Publish(r, owner, images)
    BY <1>2 DEF Next, Janitor
  <2>2. CASE CleanupAssets \/ DeleteVideo
    BY <2>2, MarkStep
  <2>3. CASE KnownStorageKeys \/ SweepDone \/ JanitorDies
    BY <2>3, SweepStep
  <2>4. CASE \E a \in Assets : Unlink(a) \/ Deleted(a) \/ Sweep(a)
    BY <2>4, UnlinkStep, SweepStep
  <2>5. ASSUME NEW a \in Assets,
               \/ Write(a) \/ Own(a) \/ AddAsset(a) \/ AnswerExpires(a)
               \/ FrameExpires(a) \/ GrowsOld(a) \/ WaitEnds(a)
        PROVE  AssetInv'
    <3>1. CASE Write(a) \/ Own(a) \/ AddAsset(a)
      BY <3>1, FilesStep
    <3>2. CASE AnswerExpires(a)
      <4>1. Maker[a] \in Runs
        BY DEF ConstantsOK
      <4> QED BY <3>2, <4>1, PinStep
    <3>3. CASE FrameExpires(a) \/ GrowsOld(a) \/ WaitEnds(a)
      BY <3>3, ClockStep
    <3> QED BY <2>5, <3>1, <3>2, <3>3
  <2>6. CASE \E r \in Runs : DeadlinePasses(r) \/ RunEnds(r)
    BY <2>6, RunStep
  <2>7. CASE \E r \in Runs, a \in Assets : Pin(r, a)
    BY <2>7, PinStep
  <2>8. CASE \E r \in Runs : \E owner \in {"article", "answer"}, images \in SUBSET Frames :
               Publish(r, owner, images)
    BY <2>8, RunStep
  <2> QED BY <2>1, <2>2, <2>3, <2>4, <2>5, <2>6, <2>7, <2>8
<1> QED BY <1>1, <1>2

(* Whatever the janitor's lists, the owner's deletion, crashes and failed  *)
(* removals do, what a run, an answer or an article pins is ready and on   *)
(* disk: store/cleanup.go:10-67 with media/cleanup.go:12-99.               *)
THEOREM NothingPinnedIsLost ==
  ASSUME ConstantsOK PROVE Spec => [](TypeOK /\ PinnedIsOnDisk)
<1>1. Init => AssetInv
  BY AssetInit
<1>2. AssetInv /\ [Next]_vars => AssetInv'
  BY AssetNext
<1>3. AssetInv => TypeOK /\ PinnedIsOnDisk
  BY DEF AssetInv
<1> QED BY <1>1, <1>2, <1>3, PTL DEF Spec

-----------------------------------------------------------------------------
(* The slots of the generation lane. *)

\* An execution that renewed in time is the owner of its lease, which lasts at
\* least as long as the renewal loop has time left.
Covered(h) ==
  LET grant == lease[holder[h].slot] IN
  grant.owner = h /\ grant.left + holder[h].since >= TTL

AllCovered == \A h \in Holders : Lanes!OnTime(h) => Covered(h)

LanesInv == Lanes!TypeOK /\ AllCovered

LEMMA MinOfTwo ==
  ASSUME NEW a \in Nat, NEW b \in Nat
  PROVE  Lanes!Min({a, b}) = IF a <= b THEN a ELSE b
BY DEF Lanes!Min

Grants == [owner : Holders \cup {"nobody"}, left : 0 .. TTL]
Standings ==
  [phase : {"seek", "keyed", "hold", "stop", "unkey", "gone"}, slot : Lanes!Slots,
   since : 0 .. TTL + 1]

LEMMA InitLanes == Lanes!ConstantsOK /\ Lanes!Init => LanesInv
BY DEF Lanes!ConstantsOK, Lanes!Init, LanesInv, Lanes!TypeOK, AllCovered, Lanes!OnTime, Lanes!At, Lanes!Idle, Lanes!Free, Lanes!Slots

LEMMA LeasesStand ==
  ASSUME AllCovered, UNCHANGED lease,
         \A h \in Holders : Lanes!OnTime(h)' => Lanes!OnTime(h) /\ holder'[h] = holder[h]
  PROVE  AllCovered'
BY DEF AllCovered, Covered

\* Every step keeps the types.
LEMMA StepTypes ==
  ASSUME Lanes!ConstantsOK, Lanes!TypeOK, [Lanes!Next]_Lanes!vars
  PROVE  Lanes!TypeOK'
<1> USE DEF Lanes!ConstantsOK
<1>1. /\ limit \in 1 .. MaxSlots /\ key \in [Lanes!Slots -> Grants] /\ lease \in [Lanes!Slots -> Grants]
      /\ holder \in [Holders -> Standings]
  BY DEF Lanes!TypeOK, Grants, Standings
<1>2. Lanes!Free \in Grants /\ \A h \in Holders : Lanes!Taken(h) \in Grants
  BY DEF Lanes!Free, Lanes!Taken, Grants
<1>3. 0 \in Lanes!Slots /\ Lanes!Idle \in Standings
  BY DEF Lanes!Slots, Lanes!Idle, Standings
<1>4. SUFFICES /\ limit' \in 1 .. MaxSlots /\ key' \in [Lanes!Slots -> Grants]
               /\ lease' \in [Lanes!Slots -> Grants] /\ holder' \in [Holders -> Standings]
  BY DEF Lanes!TypeOK, Grants, Standings
<1>5. \A h \in Holders : Lanes!Unkeyed(h) \in [Lanes!Slots -> Grants]
  BY <1>1, <1>2 DEF Lanes!Unkeyed
<1> DEFINE Phases == {"keyed", "hold", "stop", "unkey", "gone"}
<1>6. ASSUME NEW h \in Holders
      PROVE  /\ \A phase \in Phases :
                 [holder EXCEPT ![h].phase = phase] \in [Holders -> Standings]
             /\ \A phase \in Phases :
                 [holder EXCEPT ![h].phase = phase, ![h].since = 0] \in [Holders -> Standings]
             /\ [holder EXCEPT ![h].since = 0] \in [Holders -> Standings]
             /\ [holder EXCEPT ![h] = Lanes!Idle] \in [Holders -> Standings]
             /\ [holder EXCEPT ![h] = [Lanes!Idle EXCEPT !.phase = "gone"]] \in [Holders -> Standings]
  <2>1. holder[h] \in Standings
    BY <1>1
  <2>2. \A v \in Standings : /\ \A phase \in Phases : [v EXCEPT !.phase = phase] \in Standings
                             /\ [v EXCEPT !.since = 0] \in Standings
    BY DEF Standings
  <2>3. \A phase \in Phases : [holder EXCEPT ![h].phase = phase] \in [Holders -> Standings]
    BY <1>1, <2>1, <2>2
  <2>4. [holder EXCEPT ![h].since = 0] \in [Holders -> Standings]
    BY <1>1, <2>1, <2>2
  <2>5. ASSUME NEW phase \in Phases
        PROVE  [holder EXCEPT ![h].phase = phase, ![h].since = 0] \in [Holders -> Standings]
    <3>1. [[holder[h] EXCEPT !.phase = phase] EXCEPT !.since = 0] \in Standings
      BY <2>1, <2>2
    <3> QED BY <1>1, <3>1
  <2>6. [Lanes!Idle EXCEPT !.phase = "gone"] \in Standings
    BY <1>3, <2>2
  <2>7. /\ [holder EXCEPT ![h] = [Lanes!Idle EXCEPT !.phase = "gone"]] \in [Holders -> Standings]
        /\ [holder EXCEPT ![h] = Lanes!Idle] \in [Holders -> Standings]
    BY <1>1, <1>3, <2>6
  <2> QED BY <2>3, <2>4, <2>5, <2>7
<1> DEFINE Stands == [Holders -> Standings]
<1>moves. ASSUME NEW h \in Holders
       PROVE  /\ \A phase \in Phases : Lanes!Go(h, phase) => holder' \in Stands
              /\ Lanes!Leave(h) => holder' \in Stands
              /\ holder' = [holder EXCEPT ![h].phase = "hold", ![h].since = 0] => holder' \in Stands
              /\ holder' = [holder EXCEPT ![h].since = 0] => holder' \in Stands
              /\ holder' = [holder EXCEPT ![h] = Lanes!Idle] => holder' \in Stands
  <2>1. ASSUME NEW phase \in Phases, Lanes!Go(h, phase) PROVE holder' \in Stands
    BY <1>6, <2>1 DEF Lanes!Go
  <2>2. Lanes!Leave(h) => holder' \in Stands
    <3>1. [holder EXCEPT ![h] = [Lanes!Idle EXCEPT !.phase = "gone"]] \in Stands
      BY <1>6
    <3> QED BY <3>1 DEF Lanes!Leave
  <2>3. holder' = [holder EXCEPT ![h].phase = "hold", ![h].since = 0] => holder' \in Stands
    <3>1. "hold" \in Phases
      OBVIOUS
    <3>2. [holder EXCEPT ![h].phase = "hold", ![h].since = 0] \in Stands
      BY <1>6, <3>1
    <3> QED BY <3>2
  <2>4. /\ holder' = [holder EXCEPT ![h].since = 0] => holder' \in Stands
        /\ holder' = [holder EXCEPT ![h] = Lanes!Idle] => holder' \in Stands
    <3>1. [holder EXCEPT ![h].since = 0] \in Stands /\ [holder EXCEPT ![h] = Lanes!Idle] \in Stands
      BY <1>6
    <3> QED BY <3>1
  <2> QED BY <2>1, <2>2, <2>3, <2>4
<1>7. ASSUME NEW h \in Holders, Lanes!TakeKey(h) PROVE <1>4!1
  BY <1>1, <1>2, <1>7 DEF Lanes!TakeKey, Standings
<1>8. ASSUME NEW h \in Holders, Lanes!TakeLease(h) PROVE <1>4!1
  <2>1. limit' \in 1 .. MaxSlots /\ key' \in [Lanes!Slots -> Grants]
    BY <1>1, <1>5, <1>8 DEF Lanes!TakeLease
  <2>2. lease' \in [Lanes!Slots -> Grants]
    BY <1>1, <1>2, <1>8 DEF Lanes!TakeLease
  <2>3. holder' \in [Holders -> Standings]
    BY <1>8, <1>moves DEF Lanes!TakeLease
  <2> QED BY <2>1, <2>2, <2>3
<1>9. ASSUME NEW h \in Holders, Lanes!DropKey(h) PROVE <1>4!1
  <2>1. holder' \in [Holders -> Standings]
    BY <1>9, <1>moves DEF Lanes!DropKey
  <2> QED BY <1>1, <1>5, <1>9, <2>1 DEF Lanes!DropKey
<1>10. ASSUME NEW h \in Holders, Lanes!Renew(h) PROVE <1>4!1
  <2>1. limit' \in 1 .. MaxSlots /\ key' \in [Lanes!Slots -> Grants] /\ lease' \in [Lanes!Slots -> Grants]
    BY <1>1, <1>2, <1>10 DEF Lanes!Renew
  <2>2. holder' \in [Holders -> Standings]
    BY <1>10, <1>moves DEF Lanes!Renew
  <2> QED BY <2>1, <2>2
<1>11. ASSUME NEW h \in Holders, Lanes!Stop(h) \/ Lanes!Unkey(h) \/ Lanes!Crash(h) PROVE <1>4!1
  <2>1. limit' \in 1 .. MaxSlots /\ key' \in [Lanes!Slots -> Grants] /\ lease' \in [Lanes!Slots -> Grants]
    BY <1>1, <1>5, <1>11 DEF Lanes!Stop, Lanes!Unkey, Lanes!Crash
  <2>2. holder' \in [Holders -> Standings]
    BY <1>11, <1>moves DEF Lanes!Stop, Lanes!Unkey, Lanes!Crash
  <2> QED BY <2>1, <2>2
<1>12. ASSUME NEW h \in Holders, Lanes!Release(h) PROVE <1>4!1
  <2>1. limit' \in 1 .. MaxSlots /\ key' \in [Lanes!Slots -> Grants] /\ lease' \in [Lanes!Slots -> Grants]
    BY <1>1, <1>2, <1>12 DEF Lanes!Release, Lanes!Released
  <2>2. holder' \in [Holders -> Standings]
    BY <1>6, <1>12 DEF Lanes!Release
  <2> QED BY <2>1, <2>2
<1>13. ASSUME NEW s \in Lanes!Slots, Lanes!RedisLost(s) PROVE <1>4!1
  BY <1>1, <1>2, <1>13 DEF Lanes!RedisLost
<1>14. CASE Lanes!SaveExecutionSettings
  BY <1>1, <1>14 DEF Lanes!SaveExecutionSettings
<1>15. CASE Lanes!Tick
  <2>1. \A grant \in Grants : Lanes!Aged(grant) \in Grants
    BY <1>2 DEF Lanes!Aged, Grants
  <2>2. \A n \in 0 .. TTL + 1 : Lanes!Min({n + 1, TTL + 1}) \in 0 .. TTL + 1
    BY MinOfTwo
  <2>3. \A h \in Holders : holder'[h] \in Standings
    BY <1>1, <1>15, <2>2 DEF Lanes!Tick, Standings
  <2> QED BY <1>1, <1>15, <2>1, <2>3 DEF Lanes!Tick
<1>16. CASE UNCHANGED Lanes!vars
  BY <1>1, <1>16 DEF Lanes!vars
<1> QED BY <1>7, <1>8, <1>9, <1>10, <1>11, <1>12, <1>13, <1>14, <1>15, <1>16 DEF Lanes!Next

\* Every step leaves who is on time covered.
LEMMA StepCovered ==
  ASSUME Lanes!ConstantsOK, Lanes!TypeOK, AllCovered, [Lanes!Next]_Lanes!vars
  PROVE  AllCovered'
<1> USE DEF Lanes!ConstantsOK
<1>1. /\ lease \in [Lanes!Slots -> Grants] /\ holder \in [Holders -> Standings]
  BY DEF Lanes!TypeOK, Grants, Standings
<1>2. ASSUME NEW h \in Holders, Lanes!TakeKey(h) \/ Lanes!DropKey(h) \/ Lanes!Stop(h) \/ Lanes!Unkey(h) \/ Lanes!Crash(h)
      PROVE  AllCovered'
  <2>1. UNCHANGED lease /\ \A g \in Holders \ {h} : holder'[g] = holder[g]
    BY <1>1, <1>2 DEF Lanes!TakeKey, Lanes!DropKey, Lanes!Stop, Lanes!Unkey, Lanes!Crash, Lanes!Go, Lanes!Leave
  <2>2. holder'[h].phase # "hold"
    BY <1>1, <1>2 DEF Lanes!TakeKey, Lanes!DropKey, Lanes!Stop, Lanes!Unkey, Lanes!Crash, Lanes!Go, Lanes!Leave, Lanes!Idle, Standings
  <2> QED BY <2>1, <2>2, LeasesStand DEF Lanes!OnTime, Lanes!At
<1>3. ASSUME NEW h \in Holders, Lanes!TakeLease(h) PROVE AllCovered'
  <2> DEFINE s == holder[h].slot
  <2>1. /\ s \in Lanes!Slots /\ lease[s].owner = "nobody"
        /\ lease' = [lease EXCEPT ![s] = Lanes!Taken(h)]
    BY <1>1, <1>3 DEF Lanes!TakeLease, Lanes!Live, Standings
  <2>2. ASSUME NEW g \in Holders \ {h}, Lanes!OnTime(g)' PROVE Covered(g)'
    <3>1. holder'[g] = holder[g]
      BY <1>1, <1>3 DEF Lanes!TakeLease, Lanes!Leave
    <3>2. Covered(g)
      BY <2>2, <3>1 DEF AllCovered, Lanes!OnTime, Lanes!At
    <3>3. holder[g].slot # s
      BY <2>1, <3>2 DEF Covered
    <3> QED BY <1>1, <2>1, <3>1, <3>2, <3>3 DEF Covered
  <2>3. ASSUME Lanes!OnTime(h)' PROVE Covered(h)'
    <3>1. holder' = [holder EXCEPT ![h].phase = "hold", ![h].since = 0]
      BY <1>1, <1>3, <2>3 DEF Lanes!TakeLease, Lanes!Leave, Lanes!OnTime, Lanes!At, Lanes!Idle
    <3>2. holder'[h].slot = s /\ holder'[h].since = 0
      BY <1>1, <3>1 DEF Standings
    <3> QED BY <1>1, <2>1, <3>2 DEF Covered, Lanes!Taken
  <2> QED BY <2>2, <2>3 DEF AllCovered
<1>4. ASSUME NEW h \in Holders, Lanes!Renew(h) PROVE AllCovered'
  <2> DEFINE s == holder[h].slot
  <2>1. s \in Lanes!Slots
    BY <1>1 DEF Standings
  <2>2. CASE UNCHANGED lease /\ Lanes!Go(h, "stop")
    <3>1. holder'[h].phase = "stop" /\ \A g \in Holders \ {h} : holder'[g] = holder[g]
      BY <1>1, <2>2 DEF Lanes!Go, Standings
    <3> QED BY <2>2, <3>1, LeasesStand DEF Lanes!OnTime, Lanes!At
  <2>3. CASE /\ lease[s].owner = h /\ lease' = [lease EXCEPT ![s] = Lanes!Taken(h)]
             /\ holder' = [holder EXCEPT ![h].since = 0]
    <3>1. /\ holder'[h].slot = s /\ holder'[h].since = 0
          /\ \A g \in Holders \ {h} : holder'[g] = holder[g]
      BY <1>1, <2>3 DEF Standings
    <3>2. Covered(h)'
      BY <1>1, <2>1, <2>3, <3>1 DEF Covered, Lanes!Taken
    <3>3. ASSUME NEW g \in Holders \ {h}, Lanes!OnTime(g)' PROVE Covered(g)'
      <4>1. Covered(g)
        BY <3>1, <3>3 DEF AllCovered, Lanes!OnTime, Lanes!At
      <4>2. holder[g].slot # s
        BY <2>3, <4>1 DEF Covered
      <4> QED BY <1>1, <2>3, <3>1, <4>1, <4>2 DEF Covered
    <3> QED BY <3>2, <3>3 DEF AllCovered
  <2> QED BY <1>4, <2>2, <2>3 DEF Lanes!Renew
<1>5. ASSUME NEW h \in Holders, Lanes!Release(h) PROVE AllCovered'
  <2> DEFINE s == holder[h].slot
  <2>1. /\ s \in Lanes!Slots /\ holder'[h].phase = "unkey"
        /\ \A g \in Holders \ {h} : holder'[g] = holder[g]
    BY <1>1, <1>5 DEF Lanes!Release, Standings
  <2>2. ASSUME NEW g \in Holders, Lanes!OnTime(g)' PROVE Covered(g)'
    <3>1. g # h /\ holder'[g] = holder[g]
      BY <2>1, <2>2 DEF Lanes!OnTime, Lanes!At
    <3>2. Covered(g)
      BY <2>2, <3>1 DEF AllCovered, Lanes!OnTime, Lanes!At
    <3>3. lease'[holder[g].slot] = lease[holder[g].slot]
      BY <1>1, <1>5, <3>1, <3>2 DEF Lanes!Release, Lanes!Released, Covered, Standings
    <3> QED BY <3>1, <3>2, <3>3 DEF Covered
  <2> QED BY <2>2 DEF AllCovered
<1>6. CASE Lanes!Tick
  <2>1. ASSUME NEW g \in Holders, Lanes!OnTime(g)' PROVE Covered(g)'
    <3> DEFINE s == holder[g].slot
    <3>1. /\ holder'[g].phase = holder[g].phase /\ holder'[g].slot = s /\ s \in Lanes!Slots
          /\ holder[g].since \in Nat
      BY <1>1, <1>6 DEF Lanes!Tick, Standings
    <3>2. holder'[g].since = Lanes!Min({holder[g].since + 1, TTL + 1})
      BY <1>1, <1>6, <2>1, <3>1 DEF Lanes!Tick, Lanes!OnTime, Lanes!At, Standings
    <3>3. holder'[g].since = holder[g].since + 1
      <4>1. holder'[g].since < TTL
        BY <2>1 DEF Lanes!OnTime
      <4>2. /\ holder[g].since + 1 \in Nat /\ TTL + 1 \in Nat /\ TTL \in Nat
        BY <3>1
      <4>3. holder'[g].since
              = IF holder[g].since + 1 <= TTL + 1 THEN holder[g].since + 1 ELSE TTL + 1
        BY <3>2, <4>2, MinOfTwo
      <4> QED BY <4>1, <4>2, <4>3
    <3>4. Covered(g) /\ holder[g].since + 1 < TTL
      BY <2>1, <3>1, <3>3 DEF AllCovered, Lanes!OnTime, Lanes!At
    <3>5. lease[s].left > 1 /\ lease[s].left \in Nat
      BY <1>1, <3>1, <3>4 DEF Covered, Grants
    <3>6. lease'[s] = [lease[s] EXCEPT !.left = @ - 1]
      BY <1>1, <1>6, <3>1, <3>5 DEF Lanes!Tick, Lanes!Aged
    <3>7. lease'[s].owner = lease[s].owner /\ lease'[s].left = lease[s].left - 1
      BY <1>1, <3>1, <3>6 DEF Grants
    <3> QED BY <3>1, <3>3, <3>4, <3>5, <3>7 DEF Covered
  <2> QED BY <2>1 DEF AllCovered
<1>7. ASSUME NEW s \in Lanes!Slots, Lanes!RedisLost(s) PROVE AllCovered'
  BY <1>7, LeasesStand DEF Lanes!RedisLost, Lanes!OnTime, Lanes!At
<1>8. CASE Lanes!SaveExecutionSettings \/ UNCHANGED Lanes!vars
  BY <1>8, LeasesStand DEF Lanes!SaveExecutionSettings, Lanes!vars, Lanes!OnTime, Lanes!At
<1> QED BY <1>2, <1>3, <1>4, <1>5, <1>6, <1>7, <1>8 DEF Lanes!Next

\* Whatever Redis forgets, whichever answer is lost and however late a renewal comes:
\* two calls that renewed their leases in time never share a slot.
THEOREM LanesExclude ==
  ASSUME Lanes!ConstantsOK
  PROVE  Lanes!Spec => []Lanes!LaneExclusive
<1>1. Lanes!Init => LanesInv
  BY InitLanes
<1>2. LanesInv /\ [Lanes!Next]_Lanes!vars => LanesInv'
  BY StepTypes, StepCovered DEF LanesInv
<1>3. LanesInv => Lanes!LaneExclusive
  BY DEF LanesInv, AllCovered, Covered, Lanes!LaneExclusive
<1> QED BY <1>1, <1>2, <1>3, PTL DEF Lanes!Spec

-----------------------------------------------------------------------------
(* Transcripts.                                                            *)

\* A nonempty set of naturals with an upper bound has a maximum.
LEMMA Largest ==
  ASSUME NEW N \in Nat, NEW S \in SUBSET (0 .. N), S # {}
  PROVE  Text!Max(S) \in S /\ \A n \in S : Text!Max(S) >= n
<1> DEFINE T == {N - n : n \in S}
           R == OpToRel(<, Nat)
<1>1. T \subseteq Nat /\ T # {}
  <2>1. \A y \in T : y \in Nat
    OBVIOUS
  <2>2. PICK n \in S : TRUE
    OBVIOUS
  <2>3. N - n \in T
    OBVIOUS
  <2> QED BY <2>1, <2>3
<1>2. PICK x \in T : \A y \in T : ~(<<y, x>> \in R)
  BY <1>1, NatLessThanWellFounded, WFMin, Zenon
<1>3. \A y \in T : ~(y < x)
  BY <1>1, <1>2 DEF OpToRel
<1>4. x \in Nat /\ \A n \in S : n \in Nat /\ ~(N - n < x)
  BY <1>1, <1>3
<1>5. \A n \in S : N - x >= n
  BY <1>4
<1>6. N - x \in S
  OBVIOUS
<1> QED BY <1>5, <1>6 DEF Text!Max

\* The first n windows in source order.
First(n) == [k \in 1 .. n |-> k - 1]

Answers == [window : Text!Windows, failed : BOOLEAN]
Calls == [phase : {"ready", "collect", "returned", "failed"}, run : 0 .. MaxRuns,
          next : 0 .. Count, pending : SUBSET Text!Windows, text : Seq(Text!Windows),
          failed : BOOLEAN, cancelled : BOOLEAN]
Hands == [phase : {"idle", "cut", "begin", "sent", "result", "gone"},
          window : Text!Windows, local : 0 .. 1, failed : BOOLEAN]
Sends == [submissions : 0 .. SendLimit, done : BOOLEAN]

TextTyped ==
  /\ op \in [Text!Windows -> Sends] /\ call \in Calls
  /\ fed \in [n : 0 .. Count, open : BOOLEAN]
  /\ worker \in [Text!Workers -> Hands]
  /\ results \in Seq(Answers) /\ Len(results) <= 2

\* The text is a beginning of the transcript, and all that was joined, or may be
\* joined yet, is recorded: what waits for a gap, is in the channel or in the
\* hands of a worker.
TextInv ==
  /\ TextTyped
  /\ call.text = First(call.next)
  /\ call.phase = "returned" => call.next = Count
  /\ \A i \in 0 .. call.next - 1 : op[i].done
  /\ \A i \in call.pending : op[i].done
  /\ \A j \in 1 .. Len(results) : results[j].failed \/ op[results[j].window].done
  /\ \A w \in Text!Workers :
       worker[w].phase = "result" => worker[w].failed \/ op[worker[w].window].done

\* What is joined prolongs the text in source order.
LEMMA Beginnings ==
  ASSUME Text!ConstantsOK, NEW n \in 0 .. Count, NEW e \in n .. Count
  PROVE  /\ First(n) \in Seq(Text!Windows)
         /\ First(n) \o [k \in 1 .. e - n |-> n + k - 1] = First(e)
<1> DEFINE more == [k \in 1 .. e - n |-> n + k - 1]
<1>1. Count \in Nat \ {0} /\ n \in Nat /\ e \in Nat /\ e - n \in Nat
  BY DEF Text!ConstantsOK
<1>2. /\ First(n) \in [1 .. n -> Text!Windows] /\ First(e) \in [1 .. e -> Text!Windows]
      /\ more \in [1 .. e - n -> Text!Windows]
  BY <1>1 DEF First, Text!Windows
<1>3. \A S, m, f : m \in Nat /\ f \in [1 .. m -> S] => f \in Seq(S) /\ Len(f) = m
  OBVIOUS
<1>4. /\ First(n) \in Seq(Text!Windows) /\ First(e) \in Seq(Text!Windows)
      /\ more \in Seq(Text!Windows)
      /\ Len(First(n)) = n /\ Len(First(e)) = e /\ Len(more) = e - n
  BY <1>1, <1>2, <1>3
<1>5. \A k \in 1 .. n : First(n)[k] = k - 1
  BY DEF First
<1>6. \A k \in 1 .. e : First(e)[k] = k - 1
  BY DEF First
<1>7. \A k \in 1 .. e - n : more[k] = n + k - 1
  OBVIOUS
<1> HIDE DEF more
<1> DEFINE both == First(n) \o more
<1>8. /\ both \in Seq(Text!Windows) /\ Len(both) = e
      /\ \A k \in 1 .. e : both[k] = IF k <= n THEN First(n)[k] ELSE more[k - n]
  <2>1. /\ both \in Seq(Text!Windows) /\ Len(both) = Len(First(n)) + Len(more)
        /\ \A k \in 1 .. Len(First(n)) + Len(more) :
             both[k] = IF k <= Len(First(n)) THEN First(n)[k] ELSE more[k - Len(First(n))]
    BY <1>4, ConcatProperties
  <2>2. n + (e - n) = e
    BY <1>1
  <2> HIDE DEF both
  <2> QED BY <1>4, <2>1, <2>2
<1> HIDE DEF both
<1>9. \A k \in 1 .. e : both[k] = First(e)[k]
  BY <1>1, <1>5, <1>6, <1>7, <1>8
<1>10. both = First(e)
  BY <1>4, <1>8, <1>9, SeqEqual
<1> QED BY <1>4, <1>10 DEF both, more

\* What arrived is joined up to the first window that is still missing.
LEMMA JoinedText ==
  ASSUME Text!ConstantsOK, TextInv, NEW got \in SUBSET Text!Windows, \A i \in got : op[i].done
  PROVE  LET c == Text!Joined(got) IN
         /\ c \in Calls /\ c.text = First(c.next) /\ c.pending \subseteq got
         /\ c.phase = call.phase /\ \A i \in 0 .. c.next - 1 : op[i].done
<1> DEFINE n == call.next
           ends == {m \in n .. Count : n .. m - 1 \subseteq got}
           end == Text!Max(ends)
<1>1. Count \in Nat \ {0} /\ n \in 0 .. Count /\ n \in Nat /\ call \in Calls
  BY DEF TextInv, TextTyped, Calls, Text!ConstantsOK
<1>2. end \in ends
  <2>1. ends \in SUBSET (0 .. Count)
    BY <1>1
  <2>2. n \in ends
    BY <1>1
  <2> HIDE DEF ends
  <2> QED BY <1>1, <2>1, <2>2, Largest
<1>3. end \in n .. Count /\ n .. end - 1 \subseteq got
  BY <1>2
<1>4. Text!Joined(got) = [call EXCEPT !.pending = got \ (n .. end - 1), !.next = end,
                           !.text = @ \o [k \in 1 .. end - n |-> n + k - 1]]
  BY DEF Text!Joined
<1> HIDE DEF end
<1>5. call.text \o [k \in 1 .. end - n |-> n + k - 1] = First(end)
  BY <1>1, <1>3, Beginnings DEF TextInv
<1>6. end \in 0 .. Count /\ First(end) \in Seq(Text!Windows)
  <2>1. end \in 0 .. Count /\ end \in end .. Count
    BY <1>1, <1>3
  <2> QED BY <2>1, Beginnings
<1>7. \A i \in 0 .. end - 1 : op[i].done
  <2>1. \A i \in 0 .. end - 1 : i \in 0 .. n - 1 \/ i \in n .. end - 1
    BY <1>1, <1>3
  <2> QED BY <1>3, <2>1 DEF TextInv
<1> DEFINE left == got \ (n .. end - 1)
<1>8. left \in SUBSET Text!Windows /\ left \subseteq got
  OBVIOUS
<1> HIDE DEF left, n
<1>9. Text!Joined(got) = [call EXCEPT !.pending = left, !.next = end, !.text = First(end)]
  BY <1>4, <1>5 DEF left, n
<1> QED BY <1>1, <1>6, <1>7, <1>8, <1>9 DEF Calls

LEMMA InitText == ASSUME Text!ConstantsOK, Text!Init PROVE TextInv
<1>1. Count \in Nat \ {0} /\ MaxRuns \in Nat /\ SendLimit \in Nat /\ 0 \in Text!Windows
  BY DEF Text!ConstantsOK, Text!Windows
<1>2. First(0) = <<>>
  BY DEF First
<1>3. Text!Resting \in Hands /\ Text!Blank \in Calls
  BY <1>1 DEF Text!Resting, Text!Blank, Hands, Calls
<1>4. TextTyped
  BY <1>1, <1>3 DEF TextTyped, Text!Init, Sends
<1> QED BY <1>1, <1>2, <1>4 DEF TextInv, Text!Init, Text!Blank, Text!Resting

\* One worker moves, and what was recorded stays so.
LEMMA HandMoves ==
  ASSUME Text!ConstantsOK, TextInv, NEW w \in Text!Workers, NEW h \in Hands,
         worker' = [worker EXCEPT ![w] = h],
         op' \in [Text!Windows -> Sends], \A i \in Text!Windows : op[i].done => op'[i].done,
         h.phase = "result" => h.failed \/ op'[h.window].done,
         fed' \in [n : 0 .. Count, open : BOOLEAN], call' = call, results' = results
  PROVE  TextInv'
<1>1. worker \in [Text!Workers -> Hands] /\ call \in Calls /\ results \in Seq(Answers)
  BY DEF TextInv, TextTyped
<1>2. worker' \in [Text!Workers -> Hands] /\ worker'[w] = h
      /\ \A x \in Text!Workers \ {w} : worker'[x] = worker[x]
  BY <1>1
<1>3. TextTyped'
  BY <1>1, <1>2 DEF TextInv, TextTyped, Text!Windows, Text!Workers, Sends, Hands, Answers, Calls
<1>4. \A x \in Text!Workers : worker[x].window \in Text!Windows
  BY <1>1 DEF Hands
<1>5. \A x \in Text!Workers :
        worker'[x].phase = "result" => worker'[x].failed \/ op'[worker'[x].window].done
  BY <1>2, <1>4 DEF TextInv
<1>6. 0 .. call.next - 1 \subseteq Text!Windows /\ call.pending \subseteq Text!Windows
  <2>1. Count \in Nat /\ call.next \in 0 .. Count /\ call.pending \subseteq Text!Windows
    BY <1>1 DEF Calls, Text!ConstantsOK
  <2> QED BY <2>1 DEF Text!Windows
<1>7. \A j \in 1 .. Len(results) : results[j].window \in Text!Windows
  <2>1. ASSUME NEW j \in 1 .. Len(results) PROVE results[j] \in Answers
    BY <1>1, ElementOfSeq
  <2> QED BY <2>1 DEF Answers
<1>8. /\ \A i \in 0 .. call.next - 1 : op'[i].done
      /\ \A i \in call.pending : op'[i].done
      /\ \A j \in 1 .. Len(results) : results[j].failed \/ op'[results[j].window].done
  BY <1>6, <1>7 DEF TextInv
<1> QED BY <1>3, <1>5, <1>8 DEF TextInv, First, Text!Workers

\* The collector moves without a result, the run begins or ends.
LEMMA CallMoves ==
  ASSUME TextInv, call' \in Calls, op' = op, results' \in {results, <<>>},
         \/ call'.next = call.next /\ call'.text = call.text /\ call'.pending = call.pending
         \/ call'.next = 0 /\ call'.text = <<>> /\ call'.pending = {},
         call'.phase = "returned" => call'.next = Count,
         fed' \in [n : 0 .. Count, open : BOOLEAN],
         \/ worker' = worker
         \/ \E h \in Hands : h.phase # "result" /\ worker' = [w \in Text!Workers |-> h]
  PROVE  TextInv'
<1>1. Len(<<>>) = 0 /\ <<>> \in Seq(Answers) /\ First(0) = <<>>
  BY DEF First
<1>2. TextTyped'
  <2>1. worker' \in [Text!Workers -> Hands] /\ op' \in [Text!Windows -> Sends]
    BY DEF TextInv, TextTyped
  <2>2. results' \in Seq(Answers) /\ Len(results') <= 2
    <3>1. results \in Seq(Answers) /\ Len(results) <= 2
      BY DEF TextInv, TextTyped
    <3>2. CASE results' = results
      BY <3>1, <3>2
    <3>3. CASE results' = <<>>
      BY <1>1, <3>3
    <3> QED BY <3>2, <3>3
  <2> QED BY <2>1, <2>2 DEF TextTyped, Text!Windows, Text!Workers, Sends, Hands, Answers, Calls
<1>3. call'.text = First(call'.next) /\ \A i \in 0 .. call'.next - 1 : op'[i].done
  BY <1>1 DEF TextInv
<1>4. \A i \in call'.pending : op'[i].done
  BY DEF TextInv
<1>5. \A j \in 1 .. Len(results') : results'[j].failed \/ op'[results'[j].window].done
  BY <1>1 DEF TextInv
<1>6. \A w \in Text!Workers :
        worker'[w].phase = "result" => worker'[w].failed \/ op'[worker'[w].window].done
  BY DEF TextInv
<1> QED BY <1>2, <1>3, <1>4, <1>5, <1>6 DEF TextInv, First, Text!Workers

\* A worker takes a window, cuts it, sends it, or delivers its result.
LEMMA WorkKeeps ==
  ASSUME Text!ConstantsOK, TextInv, NEW w \in Text!Workers, Text!Work(w)
  PROVE  TextInv'
<1>1. /\ worker \in [Text!Workers -> Hands] /\ worker[w] \in Hands
      /\ op \in [Text!Windows -> Sends] /\ fed \in [n : 0 .. Count, open : BOOLEAN]
      /\ results \in Seq(Answers) /\ call \in Calls
  BY DEF TextInv, TextTyped
<1>2. Count \in Nat \ {0} /\ 0 \in Text!Windows /\ Text!Resting \in Hands
  BY DEF Text!ConstantsOK, Text!Windows, Text!Resting, Hands
<1>3. ASSUME Text!Feed(w) PROVE TextInv'
  <2> DEFINE h == [Text!Resting EXCEPT !.phase = "cut", !.window = fed.n]
  <2>1. h \in Hands /\ h.phase # "result"
    <3>1. fed.n \in Text!Windows
      BY <1>1, <1>2, <1>3 DEF Text!Feed, Text!Windows
    <3> QED BY <1>2, <3>1 DEF Text!Resting, Hands
  <2>2. /\ worker' = [worker EXCEPT ![w] = h] /\ op' = op /\ call' = call /\ results' = results
        /\ fed' \in [n : 0 .. Count, open : BOOLEAN]
    BY <1>1, <1>2, <1>3 DEF Text!Feed
  <2> HIDE DEF h
  <2> QED BY <1>1, <2>1, <2>2, HandMoves
<1>4. ASSUME Text!WorkerEnds(w) PROVE TextInv'
  <2>1. /\ worker' = [worker EXCEPT ![w] = Text!Resting] /\ op' = op /\ call' = call
        /\ results' = results /\ fed' = fed /\ Text!Resting.phase # "result"
    BY <1>4 DEF Text!WorkerEnds, Text!Resting
  <2> QED BY <1>1, <1>2, <2>1, HandMoves
\* What a worker yields, of a window that is recorded if it did not fail.
<1>5. ASSUME NEW failed \in BOOLEAN, Text!Yield(w, failed),
             call' = call, results' = results, fed' = fed,
             op' \in [Text!Windows -> Sends], \A i \in Text!Windows : op[i].done => op'[i].done,
             failed \/ op'[worker[w].window].done
      PROVE  TextInv'
  <2> DEFINE h == [worker[w] EXCEPT !.phase = "result", !.failed = failed]
  <2>1. h \in Hands /\ h.failed = failed /\ h.window = worker[w].window
    BY <1>1 DEF Hands
  <2>2. worker' = [worker EXCEPT ![w] = h]
    BY <1>1, <1>5 DEF Text!Yield, Hands
  <2> HIDE DEF h
  <2> QED BY <1>1, <1>5, <2>1, <2>2, HandMoves
\* A worker goes on with its window.
<1>6. ASSUME NEW phase \in {"begin", "sent"}, NEW local \in 0 .. 1,
             worker' = [worker EXCEPT ![w] = [worker[w] EXCEPT !.phase = phase, !.local = local]],
             call' = call, results' = results, fed' = fed,
             op' \in [Text!Windows -> Sends], \A i \in Text!Windows : op[i].done => op'[i].done
      PROVE  TextInv'
  <2> DEFINE h == [worker[w] EXCEPT !.phase = phase, !.local = local]
  <2>1. h \in Hands /\ h.phase # "result"
    BY <1>1 DEF Hands
  <2> HIDE DEF h
  <2>2. worker' = [worker EXCEPT ![w] = h]
    BY <1>6 DEF h
  <2> QED BY <1>1, <1>6, <2>1, <2>2, HandMoves
<1>7. ASSUME NEW phase \in {"begin", "sent"}, worker' = [worker EXCEPT ![w].phase = phase]
      PROVE  \E local \in 0 .. 1 :
               worker' = [worker EXCEPT ![w] = [worker[w] EXCEPT !.phase = phase, !.local = local]]
  <2>1. worker[w].local \in 0 .. 1
    BY <1>1 DEF Hands
  <2>2. [worker[w] EXCEPT !.phase = phase]
          = [worker[w] EXCEPT !.phase = phase, !.local = worker[w].local]
    BY <1>1 DEF Hands
  <2> QED BY <1>7, <2>1, <2>2
<1>8. worker[w].window \in Text!Windows
  BY <1>1 DEF Hands
<1>9. ASSUME Text!Cut(w) PROVE TextInv'
  <2>1. op' = op /\ call' = call /\ results' = results /\ fed' = fed
    BY <1>9 DEF Text!Cut
  <2>2. CASE worker' = [worker EXCEPT ![w].phase = "begin"]
    BY <1>1, <1>6, <1>7, <2>1, <2>2
  <2>3. CASE Text!Yield(w, FALSE) /\ op[worker[w].window].done
    BY <1>1, <1>5, <2>1, <2>3
  <2>4. CASE Text!Yield(w, TRUE)
    BY <1>1, <1>5, <2>1, <2>4
  <2> QED BY <1>9, <2>2, <2>3, <2>4 DEF Text!Cut
<1>10. ASSUME Text!Begin(w) PROVE TextInv'
  <2>1. call' = call /\ results' = results /\ fed' = fed
    BY <1>10 DEF Text!Begin
  <2> DEFINE i == worker[w].window
  <2>2. op' = op \/ (op[i].submissions < SendLimit /\ op' = [op EXCEPT ![i].submissions = @ + 1])
    BY <1>10 DEF Text!Begin
  <2>3. op' \in [Text!Windows -> Sends] /\ \A j \in Text!Windows : op[j].done => op'[j].done
    <3>1. SendLimit \in Nat
      BY DEF Text!ConstantsOK
    <3> DEFINE sent == [op[i] EXCEPT !.submissions = @ + 1]
    <3>2. op[i] \in Sends
      BY <1>1, <1>8
    <3>3. op[i].submissions < SendLimit => sent \in Sends /\ sent.done = op[i].done
      BY <3>1, <3>2 DEF Sends
    <3>4. op' = op \/ (op[i].submissions < SendLimit /\ op' = [op EXCEPT ![i] = sent])
      BY <1>1, <1>8, <2>2
    <3> HIDE DEF sent, i
    <3> QED BY <1>1, <3>3, <3>4
  <2>4. CASE worker' = [worker EXCEPT ![w].phase = "sent"]
    BY <1>6, <1>7, <2>1, <2>3, <2>4
  <2>5. CASE Text!Yield(w, TRUE)
    BY <1>5, <2>1, <2>3, <2>5
  <2> QED BY <1>10, <2>4, <2>5 DEF Text!Begin
<1>11. ASSUME Text!Answer(w) PROVE TextInv'
  <2>1. /\ call' = call /\ results' = results /\ fed' = fed
        /\ op' = [op EXCEPT ![worker[w].window].done = TRUE]
    BY <1>11 DEF Text!Answer
  <2>2. /\ op' \in [Text!Windows -> Sends] /\ op'[worker[w].window].done
        /\ \A j \in Text!Windows : op[j].done => op'[j].done
    BY <1>1, <1>8, <2>1 DEF Sends
  <2>3. PICK failed \in BOOLEAN : Text!Yield(w, failed)
    BY <1>11 DEF Text!Answer
  <2> QED BY <1>5, <2>1, <2>2, <2>3
<1>12. ASSUME Text!Unanswered(w) \/ Text!Refused(w) PROVE TextInv'
  <2>1. op' = op /\ call' = call /\ results' = results /\ fed' = fed
    BY <1>12 DEF Text!Unanswered, Text!Refused
  <2>2. CASE Text!Yield(w, TRUE)
    BY <1>1, <1>5, <2>1, <2>2
  <2>3. CASE worker' = [worker EXCEPT ![w].phase = "begin", ![w].local = 1]
    <3>1. worker' = [worker EXCEPT ![w] = [worker[w] EXCEPT !.phase = "begin", !.local = 1]]
      BY <1>1, <2>3
    <3> QED BY <1>1, <1>6, <2>1, <3>1
  <2> QED BY <1>12, <2>2, <2>3 DEF Text!Unanswered, Text!Refused
<1>13. ASSUME Text!Deliver(w) PROVE TextInv'
  <2>1. op' = op /\ call' = call /\ fed' = fed /\ worker[w].phase = "result"
    BY <1>13 DEF Text!Deliver, Text!At
  <2>2. [Text!Resting EXCEPT !.phase = "idle"] \in Hands
        /\ [Text!Resting EXCEPT !.phase = "idle"].phase # "result" /\ Text!Resting.phase # "result"
    BY <1>2 DEF Text!Resting, Hands
  <2>3. PICK h \in Hands : worker' = [worker EXCEPT ![w] = h] /\ h.phase # "result"
    BY <1>2, <1>13, <2>2 DEF Text!Deliver
  <2>4. CASE results' = results
    BY <1>1, <2>1, <2>3, <2>4, HandMoves
  <2>5. CASE /\ Len(results) < 2
             /\ results' = Append(results, [window |-> worker[w].window, failed |-> worker[w].failed])
    <3> DEFINE a == [window |-> worker[w].window, failed |-> worker[w].failed]
    <3>1. a \in Answers
      BY <1>1 DEF Hands, Answers
    <3>2. a.failed \/ op[a.window].done
      BY <2>1 DEF TextInv
    <3> HIDE DEF a
    <3>3. results' = Append(results, a)
      BY <2>5 DEF a
    <3>4. /\ results' \in Seq(Answers) /\ Len(results') = Len(results) + 1 /\ Len(results) \in Nat
          /\ \A j \in 1 .. Len(results) : results'[j] = results[j]
          /\ results'[Len(results) + 1] = a
      BY <1>1, <3>1, <3>3
    <3>5. \A j \in 1 .. Len(results') : results'[j].failed \/ op[results'[j].window].done
      <4>1. ASSUME NEW j \in 1 .. Len(results') PROVE j \in 1 .. Len(results) \/ j = Len(results) + 1
        BY <3>4
      <4> QED BY <3>2, <3>4, <4>1 DEF TextInv
    <3>6. worker' \in [Text!Workers -> Hands] /\ worker'[w] = h
          /\ \A x \in Text!Workers \ {w} : worker'[x] = worker[x]
      BY <1>1, <2>3
    <3>7. Len(results') <= 2
      BY <2>5, <3>4
    <3>8. TextTyped'
      BY <1>1, <2>1, <3>4, <3>6, <3>7 DEF TextTyped, Text!Windows, Text!Workers, Sends, Hands, Answers, Calls
    <3>9. \A x \in Text!Workers :
            worker'[x].phase = "result" => worker'[x].failed \/ op'[worker'[x].window].done
      BY <2>1, <2>3, <3>6 DEF TextInv
    <3> QED BY <2>1, <3>5, <3>8, <3>9 DEF TextInv, First, Text!Workers
  <2> QED BY <1>13, <2>4, <2>5 DEF Text!Deliver
<1> QED BY <1>3, <1>4, <1>9, <1>10, <1>11, <1>12, <1>13 DEF Text!Work

\* The collector takes a result from the channel.
LEMMA CollectKeeps ==
  ASSUME Text!ConstantsOK, TextInv, Text!Collect
  PROVE  TextInv'
<1> DEFINE r == Head(results)
           got == call.pending \cup {r.window}
           joined == Text!Joined(got)
           rest == Tail(results)
<1>1. /\ results \in Seq(Answers) /\ results # <<>> /\ results' = rest /\ call \in Calls
      /\ op' = op /\ fed' = fed /\ worker' = worker /\ call.phase = "collect"
  BY DEF Text!Collect, TextInv, TextTyped
<1>2. /\ r = results[1] /\ 1 \in 1 .. Len(results) /\ Len(results) \in Nat
      /\ rest \in Seq(Answers) /\ Len(rest) = Len(results) - 1
      /\ \A j \in 1 .. Len(rest) : rest[j] = results[j + 1] /\ j + 1 \in 1 .. Len(results)
  BY <1>1, HeadTailProperties, EmptySeq
<1>3. r \in Answers /\ (r.failed \/ op[r.window].done)
  <2>1. r \in Answers
    BY <1>1, HeadTailProperties
  <2> QED BY <1>2, <2>1 DEF TextInv
<1>4. /\ call' \in Calls /\ call'.text = First(call'.next) /\ call'.phase = "collect"
      /\ \A i \in 0 .. call'.next - 1 : op[i].done
      /\ \A i \in call'.pending : op[i].done
  <2>1. CASE r.failed
    <3>1. call' = [call EXCEPT !.failed = TRUE, !.cancelled = @ \/ ~call.failed]
      BY <2>1 DEF Text!Collect
    <3>2. /\ call' \in Calls /\ call'.next = call.next /\ call'.text = call.text
          /\ call'.pending = call.pending /\ call'.phase = call.phase
      BY <1>1, <3>1 DEF Calls
    <3> QED BY <1>1, <3>2 DEF TextInv
  <2>2. CASE ~r.failed
    <3>1. got \in SUBSET Text!Windows /\ \A i \in got : op[i].done
      <4>1. r.window \in Text!Windows /\ op[r.window].done
        BY <1>3, <2>2 DEF Answers
      <4>2. call.pending \subseteq Text!Windows /\ \A i \in call.pending : op[i].done
        BY <1>1 DEF TextInv, Calls
      <4> QED BY <4>1, <4>2
    <3>2. /\ joined \in Calls /\ joined.text = First(joined.next) /\ joined.pending \subseteq got
          /\ joined.phase = call.phase /\ \A i \in 0 .. joined.next - 1 : op[i].done
      <4> HIDE DEF got
      <4> QED BY <3>1, JoinedText
    <3>3. \/ call' = joined
          \/ call' = [joined EXCEPT !.failed = TRUE, !.cancelled = @ \/ ~joined.failed]
      BY <2>2 DEF Text!Collect
    <3> HIDE DEF joined, got
    <3>4. /\ call' \in Calls /\ call'.next = joined.next /\ call'.text = joined.text
          /\ call'.pending = joined.pending /\ call'.phase = joined.phase
      BY <3>2, <3>3 DEF Calls
    <3> QED BY <1>1, <3>1, <3>2, <3>4
  <2> QED BY <2>1, <2>2
<1> HIDE DEF r, got, joined, rest
<1>5. \A j \in 1 .. Len(rest) : rest[j].failed \/ op[rest[j].window].done
  BY <1>2 DEF TextInv
<1>6. TextTyped'
  <2>1. Len(rest) <= 2
    BY <1>2 DEF TextInv, TextTyped
  <2> QED BY <1>1, <1>2, <1>4, <2>1 DEF TextInv, TextTyped, Text!Windows, Text!Workers, Sends, Hands, Answers, Calls
<1> QED BY <1>1, <1>4, <1>5, <1>6 DEF TextInv, First, Text!Workers

LEMMA NextText ==
  ASSUME Text!ConstantsOK, TextInv, [Text!Next]_Text!vars
  PROVE  TextInv'
<1>1. /\ call \in Calls /\ fed \in [n : 0 .. Count, open : BOOLEAN]
      /\ call.phase = "returned" => call.next = Count
  BY DEF TextInv, TextTyped
<1>2. Count \in Nat \ {0} /\ 0 \in Text!Windows /\ Text!Blank \in Calls
  BY DEF Text!ConstantsOK, Text!Windows, Text!Blank, Calls
<1>3. /\ Text!Resting \in Hands /\ Text!Resting.phase # "result"
      /\ [Text!Resting EXCEPT !.phase = "idle"] \in Hands
      /\ [Text!Resting EXCEPT !.phase = "idle"].phase # "result"
  <2>1. Text!Resting \in Hands /\ Text!Resting.phase # "result"
    BY <1>2 DEF Text!Resting, Hands
  <2>2. \A h \in Hands : /\ [h EXCEPT !.phase = "idle"] \in Hands
                         /\ [h EXCEPT !.phase = "idle"].phase # "result"
    BY DEF Hands
  <2> QED BY <2>1, <2>2
<1>4. ASSUME NEW phase \in {"ready", "collect", "returned", "failed"}, NEW cancelled \in BOOLEAN,
             call' = [call EXCEPT !.phase = phase, !.cancelled = cancelled],
             phase = "returned" => call.next = Count,
             op' = op, fed' = fed, worker' = worker, results' = results
      PROVE  TextInv'
  <2>1. /\ call' \in Calls /\ call'.next = call.next /\ call'.text = call.text
        /\ call'.pending = call.pending /\ call'.phase = phase
    BY <1>1, <1>4 DEF Calls
  <2> QED BY <1>1, <1>4, <2>1, CallMoves
<1>5. call.run \in 0 .. MaxRuns /\ MaxRuns \in Nat
  BY <1>1 DEF Calls, Text!ConstantsOK
<1>6. ASSUME Text!Start PROVE TextInv'
  <2>1. call.run + 1 \in 0 .. MaxRuns
    BY <1>5, <1>6 DEF Text!Start
  <2>2. /\ call' = [Text!Blank EXCEPT !.phase = "collect", !.run = call.run + 1]
        /\ fed' = [n |-> 0, open |-> TRUE] /\ op' = op /\ results' = results
        /\ worker' = [w \in Text!Workers |-> [Text!Resting EXCEPT !.phase = "idle"]]
    BY <1>6 DEF Text!Start
  <2>3. fed' \in [n : 0 .. Count, open : BOOLEAN]
    BY <1>2, <2>2
  <2>4. /\ call' \in Calls /\ call'.next = 0 /\ call'.text = <<>>
        /\ call'.pending = {} /\ call'.phase = "collect"
    BY <1>2, <2>1, <2>2 DEF Calls, Text!Blank
  <2> QED BY <1>3, <2>2, <2>3, <2>4, CallMoves
<1>7. ASSUME Text!Crash PROVE TextInv'
  <2>1. /\ call' = [Text!Blank EXCEPT !.run = call.run]
        /\ fed' = [n |-> 0, open |-> FALSE] /\ op' = op /\ results' = <<>>
        /\ worker' = [w \in Text!Workers |-> Text!Resting]
    BY <1>7 DEF Text!Crash
  <2>2. fed' \in [n : 0 .. Count, open : BOOLEAN]
    BY <1>2, <2>1
  <2>3. /\ call' \in Calls /\ call'.next = 0 /\ call'.text = <<>>
        /\ call'.pending = {} /\ call'.phase = "ready"
    BY <1>2, <1>5, <2>1 DEF Calls, Text!Blank
  <2> QED BY <1>3, <2>1, <2>2, <2>3, CallMoves
<1>8. ASSUME Text!Return PROVE TextInv'
  <2>1. PICK phase \in {"ready", "returned", "failed"} :
          /\ call' = [call EXCEPT !.phase = phase, !.cancelled = TRUE]
          /\ phase = "returned" => call.next = Count
    BY <1>8 DEF Text!Return
  <2>2. op' = op /\ fed' = fed /\ worker' = worker /\ results' = results
    BY <1>8 DEF Text!Return
  <2> QED BY <1>4, <2>1, <2>2
<1>9. ASSUME Text!Cancelled PROVE TextInv'
  <2>1. /\ call' = [call EXCEPT !.phase = "collect", !.cancelled = TRUE]
        /\ op' = op /\ fed' = fed /\ worker' = worker /\ results' = results
    BY <1>1, <1>9 DEF Text!Cancelled, Calls
  <2> QED BY <1>4, <2>1
<1>10. ASSUME Text!FeederEnds \/ UNCHANGED Text!vars PROVE TextInv'
  <2>1. /\ call' = call /\ op' = op /\ worker' = worker /\ results' = results
        /\ fed' \in [n : 0 .. Count, open : BOOLEAN]
    BY <1>1, <1>10 DEF Text!FeederEnds, Text!vars
  <2> QED BY <1>1, <2>1, CallMoves
<1> QED
  BY <1>6, <1>7, <1>8, <1>9, <1>10, WorkKeeps, CollectKeeps DEF Text!Next

LEMMA TextFollows ==
  ASSUME Text!ConstantsOK, TextInv
  PROVE  Text!TypeOK /\ Text!TranscriptInOrder
<1>1. call.phase = "returned" => \A i \in Text!Windows : op[i].done
  BY DEF TextInv, Text!Windows
<1>2. Text!TypeOK
  BY DEF TextInv, TextTyped, Text!TypeOK, Sends, Calls, Hands
<1> QED BY <1>1, <1>2 DEF TextInv, First, Text!TranscriptInOrder

\* At every moment the text is the first windows in source order, each once, and
\* a transcript that is returned has all of them, each recorded: for any number
\* of windows, submissions and executions, in whatever order the workers end and
\* wherever an execution is cut off (Service.Transcribe).
THEOREM TextInOrder == Text!ConstantsOK => (Text!Spec => []Text!TranscriptInOrder)
<1>1. Text!ConstantsOK /\ Text!Init => TextInv
  BY InitText
<1>2. Text!ConstantsOK /\ TextInv /\ [Text!Next]_Text!vars => TextInv'
  BY NextText
<1>3. Text!ConstantsOK => (TextInv => Text!TranscriptInOrder)
  BY TextFollows
<1>4. SUFFICES ASSUME Text!ConstantsOK PROVE Text!Spec => []Text!TranscriptInOrder
  OBVIOUS
<1> QED BY <1>1, <1>2, <1>3, <1>4, PTL DEF Text!Spec

-----------------------------------------------------------------------------
(* The composition: what is proved of the parts holds beside the others.   *)

\* The proofs about exports, for those that are retried and those that compete.
Retries == INSTANCE ExportsProofs WITH
  MaxLive <- ManyLive, Budget <- LargeBudget, AnswerLost <- TRUE, file <- place
Crowd == INSTANCE ExportsProofs WITH
  MaxLive <- FewLive, Budget <- SmallBudget, AnswerLost <- FALSE, file <- place

\* Two instances of one module are the same.
LEMMA RetriedInit ==
  /\ Retried!ConstantsOK => Retries!ConstantsOK
  /\ Retried!Init => Retries!Init
BY DEF
  Retried!ConstantsOK, Retries!ConstantsOK, Retried!Init, Retries!Init,
  Retried!IsFiniteSet, Retries!IsFiniteSet, Retried!NoRow, Retries!NoRow,
  Retried!Files, Retries!Files, Retried!Absent, Retries!Absent, Retried!Idle,
  Retries!Idle

LEMMA RetriedNext == Retried!Next => Retries!Next
BY DEF
  Retried!Next, Retries!Next, Retried!CreateExport, Retries!CreateExport,
  Retried!ReadExpired, Retries!ReadExpired, Retried!ClaimExport, Retries!ClaimExport,
  Retried!RemoveExpired, Retries!RemoveExpired, Retried!AskDownload,
  Retries!AskDownload, Retried!Files, Retries!Files, Retried!Work, Retries!Work,
  Retried!Crash, Retries!Crash, Retried!SweepLook, Retries!SweepLook,
  Retried!SweepRemove, Retries!SweepRemove, Retried!Download, Retries!Download,
  Retried!ServerCrash, Retries!ServerCrash, Retried!PendingExports,
  Retries!PendingExports, Retried!ExpiredExportFiles, Retries!ExpiredExportFiles,
  Retried!Tick, Retries!Tick, Retried!LockFree, Retries!LockFree, Retried!Reusable,
  Retries!Reusable, Retried!Admitted, Retries!Admitted, Retried!NoRow, Retries!NoRow,
  Retried!Claimable, Retries!Claimable, Retried!Lesser, Retries!Lesser, Retried!Copy,
  Retries!Copy, Retried!Absent, Retries!Absent, Retried!Gone, Retries!Gone,
  Retried!Idle, Retries!Idle, Retried!Place, Retries!Place, Retried!FinishReady,
  Retries!FinishReady, Retried!FinishRefused, Retries!FinishRefused, Retried!Discard,
  Retries!Discard, Retried!FinishFailed, Retries!FinishFailed, Retried!Sweepable,
  Retries!Sweepable, Retried!ExportFileProtected, Retries!ExportFileProtected,
  Retried!CheckDownload, Retries!CheckDownload, Retried!LeaseDownload,
  Retries!LeaseDownload, Retried!OpenDownload, Retries!OpenDownload,
  Retried!EndDownload, Retries!EndDownload, Retried!Overdue, Retries!Overdue,
  Retried!Removable, Retries!Removable, Retried!Less, Retries!Less, Retried!Live,
  Retries!Live, Retried!Cardinality, Retries!Cardinality, Retried!SessionOf,
  Retries!SessionOf, Retried!Charged, Retries!Charged, Retried!Fence, Retries!Fence,
  Retried!FailedRow, Retries!FailedRow, Retried!PinsKept, Retries!PinsKept,
  Retried!Downloadable, Retries!Downloadable, Retried!Pending, Retries!Pending,
  Retried!InDownload, Retries!InDownload, Retried!IsFiniteSet, Retries!IsFiniteSet,
  Retried!Leases, Retries!Leases

LEMMA RetriedTypes == Retries!TypeOK => Retried!TypeOK
BY DEF
  Retried!TypeOK, Retries!TypeOK, Retried!Statuses, Retries!Statuses, Retried!Files,
  Retries!Files, Retried!Absent, Retries!Absent, Retried!Pending, Retries!Pending,
  Retried!Gone, Retries!Gone

LEMMA RetriedProperty == Retries!OnePinnedPublisher => Retried!OnePinnedPublisher
BY DEF
  Retried!OnePinnedPublisher, Retries!OnePinnedPublisher, Retried!Files, Retries!Files,
  Retried!Fence, Retries!Fence

LEMMA CrowdedInit ==
  /\ Crowded!ConstantsOK => Crowd!ConstantsOK
  /\ Crowded!Init => Crowd!Init
BY DEF
  Crowded!ConstantsOK, Crowd!ConstantsOK, Crowded!Init, Crowd!Init,
  Crowded!IsFiniteSet, Crowd!IsFiniteSet, Crowded!NoRow, Crowd!NoRow, Crowded!Files,
  Crowd!Files, Crowded!Absent, Crowd!Absent, Crowded!Idle, Crowd!Idle

LEMMA CrowdedNext == Crowded!Next => Crowd!Next
BY DEF
  Crowded!Next, Crowd!Next, Crowded!CreateExport, Crowd!CreateExport,
  Crowded!ReadExpired, Crowd!ReadExpired, Crowded!ClaimExport, Crowd!ClaimExport,
  Crowded!RemoveExpired, Crowd!RemoveExpired, Crowded!AskDownload, Crowd!AskDownload,
  Crowded!Files, Crowd!Files, Crowded!Work, Crowd!Work, Crowded!Crash, Crowd!Crash,
  Crowded!SweepLook, Crowd!SweepLook, Crowded!SweepRemove, Crowd!SweepRemove,
  Crowded!Download, Crowd!Download, Crowded!ServerCrash, Crowd!ServerCrash,
  Crowded!PendingExports, Crowd!PendingExports, Crowded!ExpiredExportFiles,
  Crowd!ExpiredExportFiles, Crowded!Tick, Crowd!Tick, Crowded!LockFree, Crowd!LockFree,
  Crowded!Reusable, Crowd!Reusable, Crowded!Admitted, Crowd!Admitted, Crowded!NoRow,
  Crowd!NoRow, Crowded!Claimable, Crowd!Claimable, Crowded!Lesser, Crowd!Lesser,
  Crowded!Copy, Crowd!Copy, Crowded!Absent, Crowd!Absent, Crowded!Gone, Crowd!Gone,
  Crowded!Idle, Crowd!Idle, Crowded!Place, Crowd!Place, Crowded!FinishReady,
  Crowd!FinishReady, Crowded!FinishRefused, Crowd!FinishRefused, Crowded!Discard,
  Crowd!Discard, Crowded!FinishFailed, Crowd!FinishFailed, Crowded!Sweepable,
  Crowd!Sweepable, Crowded!ExportFileProtected, Crowd!ExportFileProtected,
  Crowded!CheckDownload, Crowd!CheckDownload, Crowded!LeaseDownload,
  Crowd!LeaseDownload, Crowded!OpenDownload, Crowd!OpenDownload, Crowded!EndDownload,
  Crowd!EndDownload, Crowded!Overdue, Crowd!Overdue, Crowded!Removable,
  Crowd!Removable, Crowded!Less, Crowd!Less, Crowded!Live, Crowd!Live,
  Crowded!Cardinality, Crowd!Cardinality, Crowded!SessionOf, Crowd!SessionOf,
  Crowded!Charged, Crowd!Charged, Crowded!Fence, Crowd!Fence, Crowded!FailedRow,
  Crowd!FailedRow, Crowded!PinsKept, Crowd!PinsKept, Crowded!Downloadable,
  Crowd!Downloadable, Crowded!Pending, Crowd!Pending, Crowded!InDownload,
  Crowd!InDownload, Crowded!IsFiniteSet, Crowd!IsFiniteSet, Crowded!Leases,
  Crowd!Leases

LEMMA CrowdedTypes == Crowd!TypeOK => Crowded!TypeOK
BY DEF
  Crowded!TypeOK, Crowd!TypeOK, Crowded!Statuses, Crowd!Statuses, Crowded!Files,
  Crowd!Files, Crowded!Absent, Crowd!Absent, Crowded!Pending, Crowd!Pending,
  Crowded!Gone, Crowd!Gone

LEMMA CrowdedProperty == Crowd!LimitsRespected => Crowded!LimitsRespected
BY DEF
  Crowded!LimitsRespected, Crowd!LimitsRespected, Crowded!Cardinality,
  Crowd!Cardinality, Crowded!Live, Crowd!Live, Crowded!Charged, Crowd!Charged,
  Crowded!SessionOf, Crowd!SessionOf, Crowded!IsFiniteSet, Crowd!IsFiniteSet,
  Crowded!Pending, Crowd!Pending, Crowded!Gone, Crowd!Gone

\* What is kept of the exports of either case, and of the others in every case.
CasesInv ==
  /\ case = "retried" => Retries!ExportsInv
  /\ case = "crowded" => Crowd!ExportsInv

LEMMA CasesKept == MediaSpec => []CasesInv
<1>1. Retries!ConstantsOK /\ Crowd!ConstantsOK
  BY MediaAssumption, RetriedInit, CrowdedInit
<1>2. ASSUME MediaInit PROVE CasesInv
  <2>1. /\ case = "retried" => Retries!Init
        /\ case = "crowded" => Crowd!Init
    BY <1>2, RetriedInit, CrowdedInit DEF MediaInit
  <2> QED BY <1>1, <2>1, Retries!InitExports, Crowd!InitExports DEF CasesInv
<1>3. ASSUME CasesInv, [MediaNext]_mediaVars PROVE CasesInv'
  <2>1. /\ case' = case
        /\ case = "retried" => Retried!Next \/ UNCHANGED exportVars
        /\ case = "crowded" => Crowded!Next \/ UNCHANGED exportVars
    BY <1>3 DEF MediaNext, mediaVars
  <2>2. UNCHANGED exportVars => UNCHANGED Retries!vars /\ UNCHANGED Crowd!vars
    BY DEF exportVars, Retries!vars, Crowd!vars
  <2>3. /\ case = "retried" => [Retries!Next]_Retries!vars
        /\ case = "crowded" => [Crowd!Next]_Crowd!vars
    BY <2>1, <2>2, RetriedNext, CrowdedNext
  <2> QED BY <1>1, <1>3, <2>1, <2>3, Retries!NextExports, Crowd!NextExports DEF CasesInv
<1> QED BY <1>2, <1>3, PTL DEF MediaSpec

OthersInv == AssetInv /\ TextInv /\ LanesInv

LEMMA OthersKept == MediaSpec => []OthersInv
<1>1. ConstantsOK /\ Text!ConstantsOK /\ Lanes!ConstantsOK
  BY MediaAssumption
<1>2. MediaInit => OthersInv
  BY <1>1, AssetInit, InitText, InitLanes DEF MediaInit, OthersInv
<1>3. OthersInv /\ [MediaNext]_mediaVars => OthersInv'
  <2>1. [MediaNext]_mediaVars => [Next]_vars /\ [Text!Next]_Text!vars /\ [Lanes!Next]_Lanes!vars
    BY DEF MediaNext, mediaVars, textVars, laneVars, Text!vars, Lanes!vars
  <2> QED BY <1>1, <2>1, AssetNext, NextText, StepTypes, StepCovered DEF OthersInv, LanesInv
<1> QED BY <1>2, <1>3, PTL DEF MediaSpec

\* Beside all other work on files, of the executions of an export that may still
\* publish there is one, and the images it needs are pinned (Claim, exports.go).
THEOREM OnePublisherAmongAll == MediaSpec => []OnePinnedPublisher
<1>1. Retries!ExportsInv => Retried!OnePinnedPublisher
  BY MediaAssumption, RetriedInit, RetriedProperty, Retries!PublisherPinned DEF Retries!ExportsInv
<1>2. CasesInv => OnePinnedPublisher
  BY <1>1 DEF CasesInv, OnePinnedPublisher
<1> QED BY <1>2, CasesKept, PTL

\* Every component keeps its types, and exports that compete stay within their bounds.
THEOREM LimitsAmongAll == MediaSpec => []LimitsRespected
<1>1. OthersInv => TypeOK /\ Text!TypeOK /\ Lanes!TypeOK
  BY MediaAssumption, TextFollows DEF OthersInv, AssetInv, LanesInv
<1>2. CasesInv => /\ case = "retried" => Retried!TypeOK
                  /\ case = "crowded" => Crowded!TypeOK /\ Crowded!LimitsRespected
  BY RetriedTypes, CrowdedTypes, CrowdedProperty
  DEF CasesInv, Retries!ExportsInv, Crowd!ExportsInv
<1>3. CasesInv /\ OthersInv => LimitsRespected
  BY <1>1, <1>2 DEF LimitsRespected, TypesOK
<1> QED BY <1>3, CasesKept, OthersKept, PTL

\* Beside all other work, a transcript is joined in source order, each window once.
THEOREM TextAmongAll == MediaSpec => []TranscriptInOrder
<1>1. OthersInv => TranscriptInOrder
  BY MediaAssumption, TextFollows DEF OthersInv, TranscriptInOrder
<1> QED BY <1>1, OthersKept, PTL

\* Beside all other work, no two calls on time share a slot of the lane.
THEOREM LanesAmongAll == MediaSpec => []LaneExclusive
<1>1. LanesInv => Lanes!LaneExclusive
  BY DEF LanesInv, AllCovered, Covered, Lanes!LaneExclusive
<1>2. OthersInv => LaneExclusive
  BY <1>1 DEF OthersInv, LaneExclusive
<1> QED BY <1>2, OthersKept, PTL
=============================================================================

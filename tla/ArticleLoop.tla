---------------------------- MODULE ArticleLoop ----------------------------
(* The author's loop of an article run under the current, delivery-first   *)
(* policy: a logical slot per model call, whose input is frozen before the *)
(* slot is reserved, whose answer is kept by the operation ledger and      *)
(* whose effect is a turn.  An execution may leave between any two writes; *)
(* the next one continues from the checkpoint and the finished operations. *)
EXTENDS Naturals, FiniteSets, FiniteSetsExt

CONSTANTS
    N,              \* parts of the transcript
    Window,         \* parts a call selects at most after a broken answer
    Slots,          \* calls the run may reserve
    NoProgress,     \* calls in a row that may change nothing
    Revisions,      \* versions of the draft
    MaxLeaves       \* bound on executions that end early

ConstantsOK ==
    /\ {N, Window, Slots, NoProgress, Revisions} \subseteq Nat \ {0}
    /\ MaxLeaves \in Nat

VARIABLES
    status,         \* of the run
    article,        \* what was published
    cp,             \* the checkpoint: calls, the pending call and the loop
    frozen,         \* of a slot: its frozen input, none at first
    called,         \* of a slot: the call that was reserved, none at first
    answer,         \* of a slot: the model's answer
    draft,          \* version and contents of the latest article_draft
    saved,          \* of a slot: what its write of the draft did
    visual,         \* of a capture: its receipt, the captures really made,
                    \* and whether one of them left an image
    turn,           \* of a slot: the loop when its turn was finished
    exec,           \* the execution: where it is, and its own checkpoint
    leaves

disk == <<cp, frozen, called, answer, draft, saved, visual, turn>>
vars == <<status, article, disk, exec, leaves>>

Parts == 1 .. N
SlotSet == 0 .. Slots - 1
Overview == Slots                    \* the capture before the first call
Captures == SlotSet \cup {Overview}
Frame(c) == N + 1 + c
FrameSet == {Frame(c) : c \in Captures}
Nothing == {}                        \* no contents
None == [tool |-> "none"]

NoInput == [parts |-> {}, frames |-> {}]
FirstLoop ==
    [read |-> {}, seen |-> {}, frames |-> {}, next |-> {}, pixels |-> {},
     closed |-> FALSE, recovering |-> FALSE, candidate |-> Nothing, version |-> 0,
     noProgress |-> 0, overview |-> FALSE]
FirstCheckpoint == [calls |-> 0, pending |-> {}, loop |-> FirstLoop]

\* Nothing was done for the run.
Untouched ==
    /\ article = Nothing /\ cp = FirstCheckpoint
    /\ frozen = [s \in SlotSet |-> {}] /\ called = [s \in SlotSet |-> {}] /\ answer = [s \in SlotSet |-> None]
    /\ draft = [version |-> 0, items |-> {}] /\ saved = [s \in SlotSet |-> "none"]
    /\ visual = [c \in Captures |-> [receipt |-> "none", shots |-> 0, image |-> FALSE]]
    /\ turn = [s \in SlotSet |-> {}]
    /\ exec = [at |-> "out", mem |-> FirstCheckpoint, shoot |-> Overview]
    /\ leaves = 0

Init == status = "running" /\ Untouched

L == exec.mem.loop
Call == CHOOSE p \in exec.mem.pending : TRUE
Slot == Call.slot
At(place) == exec.at = place
Goto(place) == exec' = [exec EXCEPT !.at = place]
GotoWith(place, loop) == exec' = [exec EXCEPT !.at = place, !.mem.loop = loop]

(************************* An execution and its end ************************)
\* The claim carries the checkpoint.
Begin ==
    /\ At("out") /\ status = "running"
    /\ exec' = [exec EXCEPT !.at = "top", !.mem = cp]
    /\ UNCHANGED <<status, article, disk, leaves>>

\* Crash, lost lease, or a failure that is left to the run's retry.
Leave ==
    /\ ~At("out") /\ leaves < MaxLeaves
    /\ Goto("out") /\ leaves' = leaves + 1
    /\ UNCHANGED <<status, article, disk>>

\* loopStop; not even one part may fit what an input holds.
Stop ==
    /\ \/ /\ At("top") /\ L.candidate = Nothing /\ exec.mem.pending = {}
          /\ \/ exec.mem.calls >= Slots
             \/ L.noProgress >= NoProgress
             \/ draft.version >= Revisions
             \/ L.overview
       \/ At("answered") /\ answer[Slot].tool = "stop"
    /\ status' = "failed" /\ Goto("out")
    /\ UNCHANGED <<article, disk, leaves>>

(************************ What the next call is given **********************)
\* From two parts before the last one that the draft cites.
Continuation ==
    LET cited == draft.items \cap Parts IN
    IF cited = {} \/ Max(cited) = N THEN Parts
    ELSE {p \in Parts : p + 2 >= Max(cited)}

\* Everything, unless something was asked for or the last answer was broken.
Default == L.next = {} /\ ~L.recovering

First(n, parts) == {p \in parts : Cardinality({q \in parts : q < p}) < n}

Selected ==
    LET asked == IF L.next # {} THEN L.next ELSE Continuation IN
    IF Default THEN Parts ELSE IF L.recovering THEN First(Window, asked) ELSE asked

\* What does not fit is halved, down to one part.
Halves(parts) ==
    {First(n, parts) : n \in {Cardinality(parts) \div 2 ^ k : k \in 0 .. N} \ {0}}

(* What a call may be given.  How much fits is not known from checkpoint    *)
(* and draft: the rest of the input holds the records of captures, which    *)
(* are in memory only until the checkpoint is saved, and what is left of    *)
(* the time and the images.                                                 *)
Deliverable == {Selected} \cup Halves(IF Default THEN Continuation ELSE Selected)

\* Frames that a save or a view asked for, or else those not yet seen.
Pixels ==
    IF L.closed THEN {}
    ELSE IF L.pixels # {} THEN L.pixels
    ELSE IF L.recovering THEN {} ELSE L.frames \ L.seen

(* prepareLoopCall and freezeModelInput.  An image that cannot be read now *)
(* is left out, and all images are before the parts are narrowed.  An      *)
(* input that was frozen before is kept, but the call is the one prepared  *)
(* now.                                                                    *)
Ready ==
    /\ At("top") /\ exec.mem.pending = {} /\ L.candidate = Nothing
    /\ exec.mem.calls < Slots /\ L.noProgress < NoProgress

Prepare ==
    /\ Ready /\ L.overview /\ draft.version < Revisions
    /\ \E readable \in SUBSET Pixels, parts \in Deliverable :
          LET s == exec.mem.calls
              input == [parts |-> parts, frames |-> readable] IN
          /\ parts # Selected => readable = {}
          /\ frozen' = [frozen EXCEPT ![s] = IF @ = {} THEN {input} ELSE @]
          /\ exec' = [exec EXCEPT !.at = "prepared",
                !.mem.pending = {[slot |-> s, input |-> input]},
                !.mem.loop.next = {}, !.mem.loop.pixels = {}]
    /\ UNCHANGED <<status, article, cp, called, answer, draft, saved, visual, turn, leaves>>

UncountedReserved == exec.mem                    \* mutant: the slot is not counted
Reserved == [exec.mem EXCEPT !.calls = @ + 1]

Reserve ==
    /\ At("prepared")
    /\ cp' = Reserved /\ exec' = [exec EXCEPT !.at = "top", !.mem = Reserved]
    /\ called' = [called EXCEPT ![Slot] = {Call.input}]
    /\ UNCHANGED <<status, article, frozen, answer, draft, saved, visual, turn, leaves>>

(************************** The call and its answer ************************)
Forgotten == [exec.mem EXCEPT !.pending = {}]    \* mutant: the turn is not restored
Recovered == [calls |-> exec.mem.calls, pending |-> {},
              loop |-> CHOOSE l \in turn[Slot] : TRUE]

\* "Completed local turn recovery precedes generation and action replay."
RecoverTurn ==
    /\ At("top") /\ exec.mem.pending # {} /\ turn[Slot] # {}
    /\ cp' = Recovered /\ exec' = [exec EXCEPT !.mem = Recovered]
    /\ UNCHANGED <<status, article, frozen, called, answer, draft, saved, visual, turn, leaves>>

Answers ==
    [tool : {"save"}, item : Parts \cup FrameSet, then : {"go on", "look", "finish"}]
    \cup [tool : {"read"}, part : Parts] \cup [tool : {"reload"}, frame : FrameSet]
    \cup [tool : {"finish", "view", "state", "malformed", "stop"}]

Generates == At("top") /\ exec.mem.pending # {} /\ turn[Slot] = {}

(* Generate: an answer that was kept is used again.  What the answer       *)
(* brought is marked as read before it is applied.                         *)
Generate ==
    /\ Generates
    /\ IF answer[Slot] # None THEN UNCHANGED answer
       ELSE \E a \in Answers : answer' = [answer EXCEPT ![Slot] = a]
    /\ GotoWith("answered", [L EXCEPT !.read = @ \cup Call.input.parts,
                                      !.seen = @ \cup Call.input.frames])
    /\ UNCHANGED <<status, article, cp, frozen, called, draft, saved, visual, turn, leaves>>

(* recoverLoopFailure: the output was cut off or the input was too large,  *)
(* or the run may send no more images.  Every other failure leaves.        *)
GenerateFails ==
    /\ Generates /\ answer[Slot] = None
    /\ \/ GotoWith("applied", [L EXCEPT !.noProgress = @ + 1])
       \/ Call.input.frames # {} /\ GotoWith("applied", [L EXCEPT !.closed = TRUE, !.pixels = {}])
    /\ UNCHANGED <<status, article, disk, leaves>>

(*************************** The answer is applied *************************)
\* Whether the call brought something new, by what was known before it.
Evidence ==
    \/ ~(Call.input.parts \subseteq cp.loop.read)
    \/ ~(Call.input.frames \subseteq cp.loop.seen)

Count(loop, progress) ==
    [loop EXCEPT !.noProgress = IF progress \/ Evidence THEN 0 ELSE @ + 1]

NoneUnread(loop) == {}                          \* mutant: coverage is not asked for
Unread(loop) == Parts \ loop.read

\* validateLoopArticle, of what the draft holds.
Valid(loop) == draft.items \cap Parts # {} /\ draft.items \cap FrameSet \subseteq loop.seen

\* freezeLoopCandidate
Freezable(loop) == Unread(loop) = {} /\ Valid(loop)
WithCandidate(loop) ==
    IF Freezable(loop)
    THEN [loop EXCEPT !.candidate = draft.items, !.version = draft.version]
    ELSE [loop EXCEPT !.next = IF Unread(loop) = {} THEN @ ELSE Unread(loop)]

(* saveLoopSections and SaveArticleDraft: what is cited must have been     *)
(* delivered; a slot that already wrote gets its receipt back.             *)
Written ==
    LET item == answer[Slot].item IN
    IF saved[Slot] # "none" THEN saved[Slot]
    ELSE IF item \notin L.read \cup L.seen THEN "rejected"
    ELSE IF item \in draft.items THEN "unchanged" ELSE "changed"

SaveDraft ==
    /\ At("answered") /\ answer[Slot].tool = "save"
    /\ LET a == answer[Slot] IN
       /\ draft' = IF Written = "changed" /\ saved[Slot] = "none"
                   THEN [version |-> draft.version + 1, items |-> draft.items \cup {a.item}]
                   ELSE draft
       /\ saved' = [saved EXCEPT ![Slot] = Written]
       /\ exec' = [exec EXCEPT
             !.at = IF a.then = "look" /\ Written # "rejected" THEN "visual" ELSE "written",
             !.shoot = Slot,
             !.mem.loop = IF Written = "changed"
                          THEN [L EXCEPT !.candidate = Nothing, !.version = 0] ELSE L]
    /\ UNCHANGED <<status, article, cp, frozen, called, answer, visual, turn, leaves>>

\* The rest of a save or a view; only this write's receipt asks for the candidate.
Complete ==
    /\ At("written")
    /\ LET a == answer[Slot]
           saves == a.tool = "save"
           ends == saves /\ a.then = "finish" /\ saved[Slot] # "rejected" IN
       GotoWith("applied",
         Count(IF ends THEN WithCandidate(L) ELSE L,
               saves /\ (saved[Slot] = "changed" \/ (ends /\ Freezable(L)))))
    /\ UNCHANGED <<status, article, disk, leaves>>

ApplyOther ==
    /\ At("answered")
    /\ LET a == answer[Slot] IN
       \/ a.tool = "finish" /\ GotoWith("applied", Count(WithCandidate(L), Freezable(L)))
       \/ a.tool = "read" /\ GotoWith("applied", Count([L EXCEPT !.next = {a.part}], FALSE))
       \/ /\ a.tool = "reload"
          /\ GotoWith("applied", Count([L EXCEPT !.pixels = @ \cup ({a.frame} \cap L.frames)], FALSE))
       \/ a.tool = "state" /\ GotoWith("applied", Count(L, FALSE))
       \/ /\ a.tool = "malformed"
          /\ GotoWith("applied", Count([L EXCEPT !.recovering = TRUE], FALSE))
       \/ a.tool = "view" /\ exec' = [exec EXCEPT !.at = "visual", !.shoot = Slot]
    /\ UNCHANGED <<status, article, disk, leaves>>

(********************* Captures, each with its receipt *********************)
\* prepareLoopFrames: images that are there already will do.
PrepareFrames ==
    /\ Ready /\ ~L.overview
    /\ LET there == {Frame(c) : c \in {c \in Captures : visual[c].image}} IN
       exec' = IF there # {}
               THEN [exec EXCEPT !.mem.loop.frames = there, !.mem.loop.overview = TRUE]
               ELSE [exec EXCEPT !.at = "visual", !.shoot = Overview]
    /\ UNCHANGED <<status, article, disk, leaves>>

Shown == {Frame(exec.shoot)}

\* The receipt is in memory, too.
Resume(frames) ==
    exec' = [exec EXCEPT
        !.at = IF exec.shoot = Overview THEN "top" ELSE "written",
        !.mem.loop = [L EXCEPT !.frames = @ \cup frames,
            !.pixels = IF exec.shoot = Overview THEN @
                       ELSE IF answer[exec.shoot].tool = "view" THEN frames
                       ELSE @ \cup frames,
            !.overview = TRUE]]

Receipt(text) == visual' = [visual EXCEPT ![exec.shoot].receipt = text]

NeverInterrupted == FALSE           \* mutant: what was begun is begun again
Interrupted == visual[exec.shoot].receipt = "started"

BeginCapture ==
    /\ At("visual") /\ visual[exec.shoot].receipt \in {"none", "started"} /\ ~Interrupted
    /\ Receipt("started") /\ Goto("shooting")
    /\ UNCHANGED <<status, article, cp, frozen, called, answer, draft, saved, turn, leaves>>

\* "A worker interrupted in ffmpeg charges the attempted work and skips it."
OmitCapture ==
    /\ At("visual") /\ Interrupted
    /\ Receipt("empty") /\ Resume({})
    /\ UNCHANGED <<status, article, cp, frozen, called, answer, draft, saved, turn, leaves>>

ReplayCapture ==
    /\ At("visual") /\ visual[exec.shoot].receipt \in {"frames", "empty"}
    /\ Resume(IF visual[exec.shoot].receipt = "frames" THEN Shown ELSE {})
    /\ UNCHANGED <<status, article, disk, leaves>>

Shoot ==
    /\ At("shooting") /\ Goto("shot")
    /\ \E image \in BOOLEAN :
          visual' = [visual EXCEPT ![exec.shoot].shots = @ + 1, ![exec.shoot].image = image]
    /\ UNCHANGED <<status, article, cp, frozen, called, answer, draft, saved, turn, leaves>>

\* The budget may refuse the capture, or its time end after the image was kept.
EndCapture ==
    /\ At("shooting") \/ At("shot")
    /\ \/ At("shot") /\ visual[exec.shoot].image /\ Receipt("frames") /\ Resume(Shown)
       \/ Receipt("empty") /\ Resume({})
    /\ UNCHANGED <<status, article, cp, frozen, called, answer, draft, saved, turn, leaves>>

(******************** The end of a turn and publication ********************)
FinishTurn ==
    /\ At("applied")
    /\ turn' = [turn EXCEPT ![Slot] = {L}]
    /\ exec' = [exec EXCEPT !.at = "finished"]
    /\ UNCHANGED <<status, article, cp, frozen, called, answer, draft, saved, visual, leaves>>

Persist ==
    /\ At("finished")
    /\ cp' = [exec.mem EXCEPT !.pending = {}]
    /\ exec' = [exec EXCEPT !.at = "top", !.mem.pending = {}]
    /\ UNCHANGED <<status, article, frozen, called, answer, draft, saved, visual, turn, leaves>>

(* publishLoopCandidate and verifyDeliveryPublication: what is published   *)
(* is the latest draft, as the checkpoint names it.                        *)
Publish ==
    /\ At("top") /\ L.candidate # Nothing /\ exec.mem.pending = {}
    /\ Goto("out")
    /\ IF /\ draft.items = L.candidate /\ Valid(L)
          /\ cp.loop.candidate = draft.items /\ cp.loop.version = draft.version
       THEN status' = "succeeded" /\ article' = draft.items
       ELSE status' = "failed" /\ UNCHANGED article
    /\ UNCHANGED <<disk, leaves>>

Step ==
    \/ Begin \/ Stop \/ PrepareFrames \/ Prepare \/ Reserve \/ RecoverTurn
    \/ Generate \/ GenerateFails \/ SaveDraft \/ Complete \/ ApplyOther
    \/ BeginCapture \/ OmitCapture \/ ReplayCapture \/ Shoot \/ EndCapture
    \/ FinishTurn \/ Persist \/ Publish

Next == Step \/ Leave

(* A run that has no execution is claimed again, and an execution that is  *)
(* not ended goes on.                                                      *)
Fairness == WF_vars(Step)

Spec == Init /\ [][Next]_vars /\ Fairness

(******************************* Properties ********************************)
Loops ==
    [read : SUBSET Parts, seen : SUBSET FrameSet, frames : SUBSET FrameSet,
     next : SUBSET Parts, pixels : SUBSET FrameSet, closed : BOOLEAN,
     recovering : BOOLEAN, candidate : SUBSET (Parts \cup FrameSet),
     version : 0 .. Revisions, noProgress : 0 .. NoProgress, overview : BOOLEAN]

TypeOK ==
    /\ status \in {"running", "succeeded", "failed"}
    /\ cp.calls \in 0 .. Slots /\ cp.loop \in Loops /\ exec.mem.loop \in Loops
    /\ cp.pending = {} \/ \E p \in cp.pending : cp.pending = {p} /\ p.slot \in SlotSet
    /\ draft.version \in 0 .. Revisions /\ draft.items \subseteq Parts \cup FrameSet
    /\ \A s \in SlotSet : \A one \in {frozen[s], called[s], turn[s]} : Cardinality(one) <= 1
    /\ \A s \in SlotSet : saved[s] \in {"none", "changed", "unchanged", "rejected"}
    /\ leaves \in 0 .. MaxLeaves

\* What the slots that were answered had, of their inputs or of their calls.
Sent == {s \in SlotSet : answer[s] # None}
PartsOf(inputs) == UNION {i.parts : i \in UNION {inputs[s] : s \in Sent}}
FramesOf(inputs) == UNION {i.frames : i \in UNION {inputs[s] : s \in Sent}}

\* Slots whose call is not the input that was frozen for them.
Strayed == {s \in SlotSet : called[s] # {} /\ called[s] # frozen[s]}

(* Whatever happens between two writes, the published article is the       *)
(* latest draft, nothing of it lost, every part of the transcript and      *)
(* every frame it cites was in a call that the model answered, and the     *)
(* calls are the inputs that were sent, except for at most one slot for    *)
(* each execution that ended early.                                        *)
PublishedWhole ==
    /\ status = "succeeded" =>
          /\ article = draft.items /\ article # Nothing
          /\ Parts \subseteq PartsOf(called) /\ article \cap FrameSet \subseteq FramesOf(called)
    /\ Cardinality(Strayed) <= leaves

(* "Delivery still binds the exact saved candidate to its frozen sources   *)
(* and the actual pixels delivered to the author" (store/                  *)
(* article_delivery.go:12).  The comment promises both, this asks for one: *)
(* the inputs that were sent held the transcript, or the pixels.           *)
DeliveryBinds ==
    status = "succeeded" =>
        Parts \subseteq PartsOf(frozen) \/ article \cap FrameSet \subseteq FramesOf(frozen)

(* A turn that was finished is never forgotten: its marks survive in every *)
(* later checkpoint, and a slot wrote the draft for one answer only.       *)
FinishedTurnsKept ==
    /\ \A s \in SlotSet : cp.calls > s + 1 =>
          \A l \in turn[s] : l.read \subseteq cp.loop.read /\ l.seen \subseteq cp.loop.seen
    /\ draft.version = Cardinality({s \in SlotSet : saved[s] = "changed"})

(* No capture is made twice, however often its execution is interrupted.   *)
CapturesOnce == \A c \in Captures : visual[c].shots <= 1

(* Every run of the loop ends, published or stopped.                       *)
LoopEnds == <>(status # "running")
=============================================================================

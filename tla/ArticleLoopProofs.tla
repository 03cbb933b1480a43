-------------------------- MODULE ArticleLoopProofs --------------------------
(***************************************************************************)
(* What the author's loop keeps over executions that end between any two   *)
(* writes, for every transcript, selection of a call and number of slots,  *)
(* revisions and crashes: the published article is the latest draft of an  *)
(* author whose calls held the whole transcript, finished turns are kept   *)
(* and no capture is made twice.  An execution has the checkpoint's loop   *)
(* or one with more marks, every mark stands for something that was in a   *)
(* call that was answered, and a call is the input that was frozen unless  *)
(* an execution ended before it was reserved.  The last part says so, and  *)
(* what is proved of the calls of runs and of tasks that pay once, of      *)
(* their composition (ModelWork).                                          *)
(***************************************************************************)
EXTENDS ModelWork, FiniteSetTheorems, TLAPS

LoopSet ==
  [read : SUBSET Parts, seen : SUBSET FrameSet, frames : SUBSET FrameSet,
   next : SUBSET Parts, pixels : SUBSET FrameSet, closed : BOOLEAN, recovering : BOOLEAN,
   candidate : SUBSET (Parts \cup FrameSet), version : Nat, noProgress : Nat, overview : BOOLEAN]
InputSet == [parts : SUBSET Parts, frames : SUBSET FrameSet]
CallSet == [slot : SlotSet, input : InputSet]
Checkpoints == [calls : Nat, pending : SUBSET CallSet, loop : LoopSet]
Snapping == {"visual", "shooting", "shot"}
Handling == {"answered", "applied", "written", "finished"}
Places == {"out", "top", "prepared"} \cup Snapping \cup Handling

LoopTypes ==
  /\ status \in {"running", "succeeded", "failed"}
  /\ cp \in Checkpoints
  /\ exec \in [at : Places, mem : Checkpoints, shoot : Captures]
  /\ frozen \in [SlotSet -> SUBSET InputSet] /\ called \in [SlotSet -> SUBSET InputSet]
  /\ answer \in [SlotSet -> Answers \cup {None}]
  /\ draft \in [version : Nat, items : SUBSET (Parts \cup FrameSet)]
  /\ saved \in [SlotSet -> {"none", "changed", "unchanged", "rejected"}]
  /\ visual \in [Captures -> [receipt : {"none", "started", "frames", "empty"},
                              shots : Nat, image : BOOLEAN]]
  /\ turn \in [SlotSet -> SUBSET LoopSet]

\* A capture is made between two writes of its receipt, and is begun once.
CapturesInv ==
  /\ \A c \in Captures : visual[c].shots <= 1 /\ (visual[c].receipt = "none" => visual[c].shots = 0)
  /\ At("shooting") => visual[exec.shoot].receipt = "started" /\ visual[exec.shoot].shots = 0

VersionInv == draft.version = Cardinality({s \in SlotSet : saved[s] = "changed"})

\* Where an execution is, and which call is pending there.
PlacesInv ==
  /\ status # "running" => At("out")
  /\ cp.pending # {} => \E p \in CallSet : cp.pending = {p} /\ cp.calls = p.slot + 1
  /\ ~At("out") => exec.mem.calls = cp.calls
  /\ At("prepared") => cp.pending = {}
  /\ At("prepared") => \E p \in CallSet : exec.mem.pending = {p} /\ p.slot = cp.calls
  /\ ~At("out") /\ ~At("prepared") => exec.mem.pending = cp.pending
  /\ exec.at \in Handling => cp.pending # {}
  /\ exec.at \in Snapping => (exec.shoot = Overview <=> cp.pending = {})

Marks(l, m) == l.read \subseteq m.read /\ l.seen \subseteq m.seen
Answered(x) ==
  \E s \in SlotSet : answer[s] # None /\ \E i \in called[s] : x \in i.parts \cup i.frames
Sound(l) ==
  /\ \A x \in l.read \cup l.seen : Answered(x)
  /\ l.candidate # {} => Parts \subseteq l.read

\* The inputs of the slots, of which the next one may have been frozen before, and
\* the calls that were reserved.
InputsInv ==
  /\ \A s \in SlotSet :
       /\ (\A i, j \in frozen[s] : i = j) /\ \A i, j \in called[s] : i = j
       /\ s < cp.calls => frozen[s] # {} /\ called[s] # {}
       /\ s >= cp.calls => answer[s] = None /\ turn[s] = {} /\ called[s] = {}
       /\ s > cp.calls \/ (s = cp.calls /\ cp.pending # {}) => frozen[s] = {}
  /\ \A p \in cp.pending : called[p.slot] = {p.input}
  /\ At("prepared") => \A p \in exec.mem.pending : frozen[p.slot] # {}

\* What an article needs of the calls.
Published == Parts \cup (article \cap FrameSet)

\* The loops of execution, checkpoint and turns.
MarksInv ==
  /\ Sound(cp.loop)
  /\ ~At("out") => Sound(L) /\ Marks(cp.loop, L)
  /\ \A s \in SlotSet :
       /\ \A l, m \in turn[s] : l = m
       /\ \A l \in turn[s] :
            /\ Sound(l)
            /\ s + 1 < cp.calls \/ cp.pending = {} => Marks(l, cp.loop)
            /\ s + 1 = cp.calls /\ cp.pending # {} => Marks(cp.loop, l)
  /\ At("finished") => turn[Slot] = {L}
  /\ status = "succeeded" => article = draft.items /\ article # Nothing
                             /\ \A x \in Published : Answered(x)

LoopInv == LoopTypes /\ CapturesInv /\ VersionInv /\ PlacesInv /\ InputsInv /\ MarksInv

Execs == [at : Places, mem : Checkpoints, shoot : Captures]

LEMMA LoopConstants ==
  ASSUME ConstantsOK
  PROVE  /\ Slots \in Nat \ {0} /\ N \in Nat /\ 0 \in SlotSet
         /\ Overview \in Captures /\ Overview \notin SlotSet /\ SlotSet \subseteq Captures
         /\ IsFiniteSet(SlotSet)
         /\ \A c \in Captures : Frame(c) \in FrameSet
<1>1. Slots \in Nat \ {0} /\ N \in Nat
  BY DEF ConstantsOK
<1>2. IsFiniteSet(SlotSet)
  BY <1>1, FS_Interval DEF SlotSet
<1> QED BY <1>1, <1>2 DEF SlotSet, Overview, Captures, FrameSet

LEMMA AnswerFields ==
  ASSUME NEW a \in Answers \cup {None}
  PROVE  /\ a.tool = "save" => a.item \in Parts \cup FrameSet
         /\ a.tool = "read" => a.part \in Parts
<1>1. CASE a \in [tool : {"save"}, item : Parts \cup FrameSet, then : {"go on", "look", "finish"}]
  BY <1>1
<1>2. CASE a \in [tool : {"read"}, part : Parts]
  BY <1>2
<1>3. CASE a \in [tool : {"reload"}, frame : FrameSet]
  BY <1>3
<1>4. CASE a \in [tool : {"finish", "view", "state", "malformed", "stop"}]
  BY <1>4
<1>5. CASE a = None
  BY <1>5 DEF None
<1> QED BY <1>1, <1>2, <1>3, <1>4, <1>5 DEF Answers

\* What the ways to move an execution leave of it.
LEMMA GotoFacts ==
  ASSUME LoopTypes, NEW place \in Places, Goto(place)
  PROVE  /\ exec' \in Execs /\ exec'.at = place
         /\ exec'.mem = exec.mem /\ exec'.shoot = exec.shoot
BY DEF LoopTypes, Goto, Execs

LEMMA MemFacts ==
  ASSUME LoopTypes, NEW place \in Places, NEW loop \in LoopSet, NEW shoot \in Captures,
         exec' = [exec EXCEPT !.at = place, !.shoot = shoot, !.mem.loop = loop]
  PROVE  /\ exec' \in Execs /\ exec'.at = place /\ exec'.shoot = shoot
         /\ exec'.mem.calls = exec.mem.calls /\ exec'.mem.pending = exec.mem.pending
         /\ exec'.mem.loop = loop
<1>1. exec \in Execs /\ exec.mem \in Checkpoints
  BY DEF LoopTypes, Execs
<1>2. [exec.mem EXCEPT !.loop = loop] \in Checkpoints
  BY <1>1 DEF Checkpoints
<1>3. exec' = [at |-> place, mem |-> [exec.mem EXCEPT !.loop = loop], shoot |-> shoot]
  BY <1>1 DEF Execs
<1> QED BY <1>1, <1>2, <1>3 DEF Execs, Checkpoints

LEMMA GotoWithFacts ==
  ASSUME LoopTypes, NEW place \in Places, NEW loop \in LoopSet, GotoWith(place, loop)
  PROVE  /\ exec' \in Execs /\ exec'.at = place /\ exec'.shoot = exec.shoot
         /\ exec'.mem.calls = exec.mem.calls /\ exec'.mem.pending = exec.mem.pending
         /\ exec'.mem.loop = loop
<1>1. exec \in Execs /\ exec.shoot \in Captures
  BY DEF LoopTypes, Execs
<1>2. exec' = [exec EXCEPT !.at = place, !.shoot = exec.shoot, !.mem.loop = loop]
  BY <1>1 DEF GotoWith, Execs
<1> QED BY <1>1, <1>2, MemFacts

\* The call that is pending while an answer is handled.
LEMMA PendingCall ==
  ASSUME LoopTypes, PlacesInv, ~At("out"), ~At("prepared"), exec.mem.pending # {}
  PROVE  /\ Call \in CallSet /\ Slot \in SlotSet /\ Slot + 1 = cp.calls
         /\ cp.pending = {Call} /\ exec.mem.pending = {Call}
<1>1. PICK p \in CallSet : cp.pending = {p} /\ cp.calls = p.slot + 1 /\ exec.mem.pending = {p}
  BY DEF PlacesInv
<1>2. Call = p
  BY <1>1 DEF Call
<1> QED BY <1>1, <1>2 DEF Slot, CallSet

LEMMA HandledCall ==
  ASSUME LoopTypes, PlacesInv, exec.at \in Handling
  PROVE  /\ Call \in CallSet /\ Slot \in SlotSet /\ Slot + 1 = cp.calls
         /\ cp.pending = {Call} /\ exec.mem.pending = {Call}
         /\ cp.pending # {} /\ exec.mem.calls = cp.calls
<1>1. ~At("out") /\ ~At("prepared") /\ exec.mem.pending # {}
  BY DEF Handling, At, PlacesInv
<1> QED BY <1>1, PendingCall DEF PlacesInv

LEMMA LoopOfExec ==
  ASSUME LoopTypes
  PROVE  /\ L \in LoopSet /\ cp.loop \in LoopSet /\ exec.mem \in Checkpoints
         /\ exec \in Execs /\ cp \in Checkpoints
BY DEF LoopTypes, Checkpoints, L, Execs

-----------------------------------------------------------------------------
LEMMA LoopTypesInit == ASSUME ConstantsOK, Untouched, status \in {"running", "failed"} PROVE LoopTypes
<1> USE LoopConstants
<1>1. FirstLoop \in LoopSet
  BY DEF FirstLoop, LoopSet, Nothing
<1>2. FirstCheckpoint \in Checkpoints
  BY <1>1 DEF FirstCheckpoint, Checkpoints
<1>3. exec \in Execs
  BY <1>2 DEF Untouched, Execs, Places
<1>4. answer \in [SlotSet -> Answers \cup {None}] /\ frozen \in [SlotSet -> SUBSET InputSet]
      /\ called \in [SlotSet -> SUBSET InputSet] /\ turn \in [SlotSet -> SUBSET LoopSet]
  BY DEF Untouched
<1>5. visual \in [Captures -> [receipt : {"none", "started", "frames", "empty"},
                              shots : Nat, image : BOOLEAN]]
  BY DEF Untouched
<1> QED BY <1>2, <1>3, <1>4, <1>5 DEF Untouched, LoopTypes, Execs

\* The steps that move only the execution and its captures.
LEMMA TypesExec ==
  ASSUME LoopTypes, exec' \in Execs, UNCHANGED <<cp, frozen, called, answer, draft, saved, turn>>,
         status' \in {"running", "succeeded", "failed"},
         visual' \in [Captures -> [receipt : {"none", "started", "frames", "empty"},
                                   shots : Nat, image : BOOLEAN]]
  PROVE  LoopTypes'
BY DEF LoopTypes, Execs

LEMMA CountType ==
  ASSUME NEW loop \in LoopSet, NEW progress \in BOOLEAN
  PROVE  /\ Count(loop, progress) \in LoopSet
         /\ Count(loop, progress).read = loop.read
         /\ Count(loop, progress).seen = loop.seen
         /\ Count(loop, progress).candidate = loop.candidate
<1>1. [loop EXCEPT !.noProgress = 0] \in LoopSet /\ [loop EXCEPT !.noProgress = @ + 1] \in LoopSet
  BY DEF LoopSet
<1>2. Count(loop, progress) = [loop EXCEPT !.noProgress = 0]
      \/ Count(loop, progress) = [loop EXCEPT !.noProgress = @ + 1]
  BY DEF Count
<1> QED BY <1>1, <1>2 DEF LoopSet

LEMMA CandidateType ==
  ASSUME LoopTypes, NEW loop \in LoopSet
  PROVE  /\ WithCandidate(loop) \in LoopSet
         /\ WithCandidate(loop).read = loop.read /\ WithCandidate(loop).seen = loop.seen
         /\ WithCandidate(loop).candidate = loop.candidate \/ Parts \subseteq loop.read
<1>1. CASE Freezable(loop)
  <2>1. WithCandidate(loop) = [loop EXCEPT !.candidate = draft.items, !.version = draft.version]
    BY <1>1 DEF WithCandidate
  <2>2. Parts \subseteq loop.read
    BY <1>1 DEF Freezable, Unread
  <2> QED BY <2>1, <2>2 DEF LoopSet, LoopTypes
<1>2. CASE ~Freezable(loop)
  <2>1. \E next \in SUBSET Parts : WithCandidate(loop) = [loop EXCEPT !.next = next]
    BY <1>2 DEF WithCandidate, Unread, LoopSet
  <2> QED BY <2>1 DEF LoopSet
<1> QED BY <1>1, <1>2

-----------------------------------------------------------------------------
\* A step of the execution alone, to a place where it has what it needs.
Moves ==
  /\ UNCHANGED <<article, status, cp, frozen, called, answer, draft, saved, turn>>
  /\ exec'.at \notin {"prepared", "finished"}
  /\ exec'.at # "out" =>
       /\ status = "running" /\ exec'.mem.calls = cp.calls /\ exec'.mem.pending = cp.pending
       /\ Sound(exec'.mem.loop) /\ Marks(cp.loop, exec'.mem.loop)
  /\ exec'.at \in Handling => cp.pending # {}
  /\ exec'.at \in Snapping => (exec'.shoot = Overview <=> cp.pending = {})

LEMMA MovesKeep ==
  ASSUME LoopInv, Moves
  PROVE  PlacesInv' /\ InputsInv' /\ MarksInv' /\ VersionInv'
<1>1. /\ status' = status /\ cp' = cp /\ frozen' = frozen /\ called' = called /\ answer' = answer
      /\ draft' = draft /\ saved' = saved /\ turn' = turn /\ article' = article
  BY DEF Moves
<1>2. PlacesInv'
  BY <1>1 DEF LoopInv, Moves, PlacesInv, At
<1>3. InputsInv'
  <2>1. ~At("prepared")'
    BY DEF Moves, At
  <2> QED BY <1>1, <2>1 DEF LoopInv, InputsInv, At
<1>4. MarksInv'
  <2>1. \A x : Answered(x)' <=> Answered(x)
    BY <1>1 DEF Answered
  <2>2. \A l : Sound(l) => (\A x \in l.read \cup l.seen : Answered(x)') /\ (l.candidate # {} => Parts \subseteq l.read)
    BY <2>1 DEF Sound
  <2>3. Sound(cp.loop)' /\ \A s \in SlotSet : \A l \in turn[s] : Sound(l)'
    BY <1>1, <2>2 DEF LoopInv, MarksInv, Sound
  <2>4. ~At("out")' => Sound(L)' /\ Marks(cp.loop, L)'
    BY <1>1, <2>2 DEF Moves, At, L, Sound, Marks
  <2>5. ~At("finished")'
    BY DEF Moves, At
  <2>6. \A s \in SlotSet :
          /\ \A l, m \in turn[s] : l = m
          /\ \A l \in turn[s] :
               /\ s + 1 < cp.calls \/ cp.pending = {} => Marks(l, cp.loop)
               /\ s + 1 = cp.calls /\ cp.pending # {} => Marks(cp.loop, l)
    BY DEF LoopInv, MarksInv
  <2>7. \A s \in SlotSet : \A l \in turn[s] : s \in SlotSet /\ Marks(l, cp.loop)' = Marks(l, cp.loop)
          /\ Marks(cp.loop, l)' = Marks(cp.loop, l)
    BY <1>1 DEF Marks
  <2>8. (status = "succeeded" => article = draft.items /\ article # Nothing
                                  /\ \A x \in Published : Answered(x))'
    BY <1>1, <2>1 DEF LoopInv, MarksInv, Nothing, Published
  <2> QED BY <1>1, <2>3, <2>4, <2>5, <2>6, <2>7, <2>8 DEF MarksInv
<1>5. VersionInv'
  BY <1>1 DEF LoopInv, VersionInv
<1> QED BY <1>2, <1>3, <1>4, <1>5

\* A loop with the marks of the one in hand may take its place.
LEMMA LikeL ==
  ASSUME LoopInv, ~At("out"), NEW loop \in LoopSet,
         loop.read = L.read, loop.seen = L.seen,
         loop.candidate = L.candidate \/ loop.candidate = {} \/ Parts \subseteq L.read
  PROVE  Sound(loop) /\ Marks(cp.loop, loop)
BY DEF LoopInv, MarksInv, Sound, Marks

LEMMA BeginMoves == ASSUME LoopInv, Begin PROVE exec' \in Execs /\ Moves /\ visual' = visual
<1>1. /\ UNCHANGED <<status, article, disk, leaves>> /\ At("out") /\ status = "running"
      /\ exec' = [exec EXCEPT !.at = "top", !.mem = cp]
  BY DEF Begin
<1>2. exec' = [at |-> "top", mem |-> cp, shoot |-> exec.shoot] /\ cp \in Checkpoints
      /\ exec.shoot \in Captures
  BY <1>1 DEF LoopInv, LoopTypes
<1>3. exec' \in Execs
  BY <1>2 DEF Execs, Places
<1>4. Sound(cp.loop) /\ Marks(cp.loop, cp.loop)
  BY DEF LoopInv, MarksInv, Marks
<1> QED BY <1>1, <1>2, <1>3, <1>4 DEF Moves, disk, Handling, Snapping

LEMMA LeaveMoves == ASSUME LoopInv, Leave PROVE exec' \in Execs /\ Moves /\ visual' = visual
<1>1. UNCHANGED <<status, article, disk>> /\ Goto("out")
  BY DEF Leave
<1>2. exec'.at = "out" /\ exec' \in Execs
  BY <1>1, GotoFacts DEF LoopInv, Places
<1> QED BY <1>1, <1>2 DEF Moves, disk, Handling, Snapping

\* A step from a place with a pending call to another, with the same marks.
LEMMA HandledMoves ==
  ASSUME LoopInv, NEW place \in {"answered", "applied", "written"}, NEW loop \in LoopSet,
         ~At("out"), ~At("prepared"), exec.mem.pending # {},
         GotoWith(place, loop), Sound(loop), Marks(cp.loop, loop),
         UNCHANGED <<status, article, cp, frozen, called, answer, draft, saved, turn>>
  PROVE  exec' \in Execs /\ Moves
<1>1. /\ exec' \in Execs /\ exec'.at = place /\ exec'.mem.loop = loop
      /\ exec'.mem.calls = exec.mem.calls /\ exec'.mem.pending = exec.mem.pending
  BY GotoWithFacts DEF LoopInv, Places, Handling
<1>2. /\ exec.mem.calls = cp.calls /\ exec.mem.pending = cp.pending /\ status = "running"
  BY DEF LoopInv, PlacesInv
<1> QED BY <1>1, <1>2 DEF Moves, Handling, Snapping

LEMMA PrepareFramesMoves ==
  ASSUME ConstantsOK, LoopInv, PrepareFrames PROVE exec' \in Execs /\ Moves /\ visual' = visual
<1> DEFINE there == {Frame(c) : c \in {c \in Captures : visual[c].image}}
<1>0. /\ UNCHANGED <<status, article, disk, leaves>> /\ At("top") /\ exec.mem.pending = {}
      /\ exec' = IF there # {}
                 THEN [exec EXCEPT !.mem.loop.frames = there, !.mem.loop.overview = TRUE]
                 ELSE [exec EXCEPT !.at = "visual", !.shoot = Overview]
  BY DEF PrepareFrames, Ready
<1>1. /\ LoopTypes /\ L \in LoopSet /\ exec \in Execs /\ exec.mem \in Checkpoints
  BY LoopOfExec DEF LoopInv
<1>2. cp.pending = {} /\ exec.mem.calls = cp.calls /\ status = "running" /\ ~At("out")
  BY <1>0 DEF LoopInv, PlacesInv, At
<1>3. CASE there # {}
  <2> DEFINE loop == [L EXCEPT !.frames = there, !.overview = TRUE]
  <2>1. there \in SUBSET FrameSet
    BY LoopConstants
  <2> HIDE DEF there
  <2>2. loop \in LoopSet /\ loop.read = L.read /\ loop.seen = L.seen
        /\ loop.candidate = L.candidate
    BY <1>1, <2>1 DEF LoopSet
  <2>3. exec' = [exec EXCEPT !.at = "top", !.shoot = exec.shoot, !.mem.loop = loop]
    BY <1>0, <1>1, <1>3 DEF Execs, Checkpoints, L, LoopSet, At
  <2>4. exec.shoot \in Captures /\ "top" \in Places
    BY <1>1 DEF Execs, Places
  <2>5. Sound(loop) /\ Marks(cp.loop, loop)
    BY <1>2, <2>2, LikeL
  <2> HIDE DEF loop
  <2>6. /\ exec' \in Execs /\ exec'.at = "top"
        /\ exec'.mem.calls = exec.mem.calls /\ exec'.mem.pending = exec.mem.pending
        /\ exec'.mem.loop = loop
    BY <1>1, <2>2, <2>3, <2>4, MemFacts
  <2> QED BY <1>0, <1>2, <2>2, <2>5, <2>6 DEF Moves, disk, Handling, Snapping
<1>4. CASE there = {}
  <2> HIDE DEF there
  <2>1. exec' = [at |-> "visual", mem |-> exec.mem, shoot |-> Overview]
    BY <1>0, <1>1, <1>4 DEF Execs
  <2>2. exec' \in Execs
    BY <1>1, <2>1, LoopConstants DEF Execs, Places, Snapping
  <2>3. Sound(L) /\ Marks(cp.loop, L)
    BY <1>2 DEF LoopInv, MarksInv
  <2>4. exec'.at = "visual" /\ exec'.mem = exec.mem /\ exec'.shoot = Overview
    BY <2>1
  <2>5. Sound(exec'.mem.loop) /\ Marks(cp.loop, exec'.mem.loop)
    BY <1>2, <2>3, <2>4 DEF L
  <2> QED BY <1>0, <1>2, <2>2, <2>4, <2>5 DEF Moves, disk, Handling, Snapping
<1> QED BY <1>3, <1>4

LEMMA GenerateFailsMoves ==
  ASSUME LoopInv, GenerateFails PROVE exec' \in Execs /\ Moves /\ visual' = visual
<1>1. /\ UNCHANGED <<status, article, disk, leaves>> /\ At("top") /\ exec.mem.pending # {}
      /\ \/ GotoWith("applied", [L EXCEPT !.noProgress = @ + 1])
         \/ GotoWith("applied", [L EXCEPT !.closed = TRUE, !.pixels = {}])
  BY DEF GenerateFails, Generates
<1>2. L \in LoopSet /\ ~At("out") /\ ~At("prepared")
  BY <1>1, LoopOfExec DEF LoopInv, At
<1>3. \A loop \in {[L EXCEPT !.noProgress = @ + 1], [L EXCEPT !.closed = TRUE, !.pixels = {}]} :
        /\ loop \in LoopSet /\ loop.read = L.read
        /\ loop.seen = L.seen /\ loop.candidate = L.candidate
  <2> DEFINE a == [L EXCEPT !.noProgress = @ + 1]
             b == [L EXCEPT !.closed = TRUE, !.pixels = {}]
  <2>1. a \in LoopSet /\ a.read = L.read /\ a.seen = L.seen /\ a.candidate = L.candidate
    BY <1>2 DEF LoopSet
  <2>2. b \in LoopSet
    BY <1>2 DEF LoopSet
  <2>3. b.read = L.read /\ b.seen = L.seen /\ b.candidate = L.candidate
    BY <1>2 DEF LoopSet
  <2> QED BY <2>1, <2>2, <2>3
<1>4. PICK loop \in {[L EXCEPT !.noProgress = @ + 1], [L EXCEPT !.closed = TRUE, !.pixels = {}]} :
        GotoWith("applied", loop)
  BY <1>1
<1>5. Sound(loop) /\ Marks(cp.loop, loop) /\ loop \in LoopSet
  BY <1>2, <1>3, LikeL
<1> QED BY <1>1, <1>2, <1>4, <1>5, HandledMoves DEF disk

LEMMA CompleteMoves ==
  ASSUME LoopInv, Complete PROVE exec' \in Execs /\ Moves /\ visual' = visual
<1>1. UNCHANGED <<status, article, disk, leaves>> /\ At("written")
  BY DEF Complete
<1>2. PICK loop \in {L, WithCandidate(L)}, progress \in BOOLEAN :
        GotoWith("applied", Count(loop, progress))
  BY DEF Complete
<1>3. /\ LoopTypes /\ L \in LoopSet /\ ~At("out") /\ ~At("prepared") /\ exec.mem.pending # {}
  BY <1>1, LoopOfExec, HandledCall DEF LoopInv, At, Handling
<1>4. /\ Count(loop, progress) \in LoopSet /\ Count(loop, progress).read = L.read
      /\ Count(loop, progress).seen = L.seen
      /\ Count(loop, progress).candidate = L.candidate \/ Parts \subseteq L.read
  BY <1>3, CandidateType, CountType
<1> QED BY <1>1, <1>2, <1>3, <1>4, LikeL, HandledMoves DEF disk

LEMMA ApplyOtherMoves ==
  ASSUME LoopInv, ApplyOther PROVE exec' \in Execs /\ Moves /\ visual' = visual
<1> DEFINE a == answer[Slot]
<1>0. UNCHANGED <<status, article, disk, leaves>> /\ At("answered")
  BY DEF ApplyOther
<1>1. /\ LoopTypes /\ L \in LoopSet /\ ~At("out") /\ ~At("prepared") /\ exec.mem.pending # {}
      /\ Slot \in SlotSet /\ cp.pending # {} /\ Slot + 1 = cp.calls
  BY <1>0, LoopOfExec, HandledCall DEF LoopInv, At, Handling
<1>2. \A loop \in LoopSet, progress \in BOOLEAN :
        /\ loop.read = L.read /\ loop.seen = L.seen
        /\ loop.candidate = L.candidate \/ Parts \subseteq L.read
        /\ GotoWith("applied", Count(loop, progress))
        => exec' \in Execs /\ Moves
  <2> SUFFICES ASSUME NEW loop \in LoopSet, NEW progress \in BOOLEAN,
                      loop.read = L.read, loop.seen = L.seen,
                      loop.candidate = L.candidate \/ Parts \subseteq L.read,
                      GotoWith("applied", Count(loop, progress))
               PROVE  exec' \in Execs /\ Moves
    OBVIOUS
  <2>1. /\ Count(loop, progress) \in LoopSet /\ Count(loop, progress).read = L.read
        /\ Count(loop, progress).seen = L.seen
        /\ Count(loop, progress).candidate = L.candidate \/ Parts \subseteq L.read
    BY CountType
  <2>2. Sound(Count(loop, progress)) /\ Marks(cp.loop, Count(loop, progress))
    BY <1>1, <2>1, LikeL
  <2> QED BY <1>0, <1>1, <2>1, <2>2, HandledMoves DEF disk
<1>3. CASE a.tool = "finish"
  <2>1. GotoWith("applied", Count(WithCandidate(L), Freezable(L)))
    BY <1>3 DEF ApplyOther
  <2>2. Freezable(L) \in BOOLEAN
    BY DEF Freezable, Valid
  <2> QED BY <1>0, <1>1, <1>2, <2>1, <2>2, CandidateType DEF disk
<1>4. CASE a.tool = "read"
  <2>1. GotoWith("applied", Count([L EXCEPT !.next = {a.part}], FALSE))
    BY <1>4 DEF ApplyOther
  <2>2. a \in Answers \cup {None}
    BY <1>1 DEF LoopTypes
  <2>3. a.part \in Parts
    BY <1>4, <2>2, AnswerFields
  <2> HIDE DEF a
  <2> DEFINE loop == [L EXCEPT !.next = {a.part}]
  <2>4. /\ loop \in LoopSet /\ loop.read = L.read /\ loop.seen = L.seen
        /\ loop.candidate = L.candidate
    BY <1>1, <2>3 DEF LoopSet
  <2> HIDE DEF loop
  <2>5. GotoWith("applied", Count(loop, FALSE))
    BY <2>1 DEF loop
  <2> QED BY <1>0, <1>2, <2>4, <2>5 DEF disk
<1>5. CASE a.tool = "reload"
  <2> DEFINE loop == [L EXCEPT !.pixels = @ \cup ({a.frame} \cap L.frames)]
  <2>1. GotoWith("applied", Count(loop, FALSE))
    BY <1>5 DEF ApplyOther
  <2>2. /\ loop \in LoopSet /\ loop.read = L.read /\ loop.seen = L.seen
        /\ loop.candidate = L.candidate
    BY <1>1 DEF LoopSet
  <2> HIDE DEF loop
  <2> QED BY <1>0, <1>2, <2>1, <2>2 DEF disk
<1>6. CASE a.tool = "state"
  <2>1. GotoWith("applied", Count(L, FALSE))
    BY <1>6 DEF ApplyOther
  <2> QED BY <1>0, <1>1, <1>2, <2>1 DEF disk
<1>7. CASE a.tool = "malformed"
  <2> DEFINE loop == [L EXCEPT !.recovering = TRUE]
  <2>1. GotoWith("applied", Count(loop, FALSE))
    BY <1>7 DEF ApplyOther
  <2>2. loop \in LoopSet
    BY <1>1 DEF LoopSet
  <2>3. loop.read = L.read /\ loop.seen = L.seen /\ loop.candidate = L.candidate
    BY <1>1 DEF LoopSet
  <2> HIDE DEF loop
  <2> QED BY <1>0, <1>2, <2>1, <2>2, <2>3 DEF disk
<1>8. CASE exec' = [exec EXCEPT !.at = "visual", !.shoot = Slot]
  <2>1. exec \in Execs /\ Slot \in Captures /\ Slot # Overview
    BY <1>1, LoopOfExec DEF Captures, Overview, SlotSet
  <2>2. exec' = [at |-> "visual", mem |-> exec.mem, shoot |-> Slot]
    BY <1>8, <2>1 DEF Execs
  <2>3. /\ exec'.at = "visual" /\ exec'.mem = exec.mem /\ exec'.shoot = Slot
    BY <2>2
  <2>4. exec' \in Execs
    BY <2>1, <2>2 DEF Execs, Places, Snapping
  <2>5. /\ Sound(exec'.mem.loop) /\ Marks(cp.loop, exec'.mem.loop) /\ exec.mem.calls = cp.calls
        /\ exec.mem.pending = cp.pending /\ status = "running"
    BY <1>1, <2>3 DEF LoopInv, MarksInv, PlacesInv, L
  <2>6. exec'.shoot # Overview /\ cp.pending # {}
    BY <1>1, <2>1, <2>3
  <2> QED BY <1>0, <2>3, <2>4, <2>5, <2>6 DEF Moves, disk, Handling, Snapping
<1> QED BY <1>0, <1>3, <1>4, <1>5, <1>6, <1>7, <1>8 DEF ApplyOther, disk

\* A capture that is begun, made or given up, and the loop that goes on after it.
LEMMA SnapMoves ==
  ASSUME ConstantsOK, LoopInv, exec.at \in Snapping, NEW place \in Snapping, Goto(place),
         UNCHANGED <<status, article, cp, frozen, called, answer, draft, saved, turn>>
  PROVE  exec' \in Execs /\ Moves
<1>1. exec' \in Execs /\ exec'.at = place /\ exec'.mem = exec.mem /\ exec'.shoot = exec.shoot
  BY GotoFacts DEF LoopInv, Places
<1>2. ~At("out") /\ ~At("prepared")
  BY DEF At, Snapping
<1>3. /\ exec.mem.calls = cp.calls /\ exec.mem.pending = cp.pending /\ status = "running"
      /\ Sound(exec.mem.loop) /\ Marks(cp.loop, exec.mem.loop)
      /\ exec.shoot = Overview <=> cp.pending = {}
  BY <1>2 DEF LoopInv, PlacesInv, MarksInv, L
<1> QED BY <1>1, <1>3 DEF Moves, Handling, Snapping

LEMMA ResumeMoves ==
  ASSUME ConstantsOK, LoopInv, exec.at \in Snapping, NEW new \in SUBSET FrameSet, Resume(new),
         UNCHANGED <<status, article, cp, frozen, called, answer, draft, saved, turn>>
  PROVE  exec' \in Execs /\ Moves
<1> DEFINE place == IF exec.shoot = Overview THEN "top" ELSE "written"
           pixels == IF exec.shoot = Overview THEN L.pixels
                     ELSE IF answer[exec.shoot].tool = "view" THEN new
                     ELSE L.pixels \cup new
           loop == [L EXCEPT !.frames = @ \cup new, !.pixels = pixels, !.overview = TRUE]
<1>1. LoopTypes /\ L \in LoopSet /\ exec \in Execs /\ ~At("out") /\ ~At("prepared")
  BY LoopOfExec DEF LoopInv, At, Snapping
<1>2. pixels \in SUBSET FrameSet
  BY <1>1 DEF LoopSet
<1>3. GotoWith(place, loop)
  BY <1>1 DEF Resume, GotoWith, LoopSet
<1> HIDE DEF pixels
<1>4. /\ loop \in LoopSet /\ loop.read = L.read /\ loop.seen = L.seen
      /\ loop.candidate = L.candidate
  BY <1>1, <1>2 DEF LoopSet
<1> HIDE DEF loop
<1>5. Sound(loop) /\ Marks(cp.loop, loop)
  BY <1>1, <1>4, LikeL
<1>6. /\ exec' \in Execs /\ exec'.at = place /\ exec'.mem.loop = loop
      /\ exec'.mem.calls = exec.mem.calls /\ exec'.mem.pending = exec.mem.pending
  BY <1>1, <1>3, <1>4, GotoWithFacts DEF Places, Handling
<1>7. /\ exec.mem.calls = cp.calls /\ exec.mem.pending = cp.pending /\ status = "running"
      /\ exec.shoot = Overview <=> cp.pending = {}
  BY <1>1 DEF LoopInv, PlacesInv
<1> QED BY <1>4, <1>5, <1>6, <1>7 DEF Moves, Handling, Snapping

Photos == [receipt : {"none", "started", "frames", "empty"}, shots : Nat, image : BOOLEAN]

LEMMA CaptureMoves ==
  ASSUME ConstantsOK, LoopInv,
         BeginCapture \/ OmitCapture \/ ReplayCapture \/ Shoot \/ EndCapture
  PROVE  exec' \in Execs /\ Moves /\ visual' \in [Captures -> Photos] /\ CapturesInv'
<1>0. /\ visual \in [Captures -> Photos] /\ exec \in Execs /\ exec.shoot \in Captures
      /\ Shown \in SUBSET FrameSet
      /\ \A c \in Captures : visual[c].shots <= 1 /\ (visual[c].receipt = "none" => visual[c].shots = 0)
  BY LoopConstants, LoopOfExec DEF LoopInv, LoopTypes, CapturesInv, Photos, Execs, Shown
<1>1. exec.at \in Snapping
  BY DEF BeginCapture, OmitCapture, ReplayCapture, Shoot, EndCapture, At, Snapping
<1>2. ASSUME NEW text \in {"started", "frames", "empty"}, Receipt(text)
      PROVE  /\ visual' \in [Captures -> Photos] /\ visual'[exec.shoot].receipt = text
             /\ visual'[exec.shoot].shots = visual[exec.shoot].shots
             /\ \A c \in Captures : visual'[c].shots <= 1
                                    /\ (visual'[c].receipt = "none" => visual'[c].shots = 0)
  <2>1. visual' = [visual EXCEPT ![exec.shoot] = [visual[exec.shoot] EXCEPT !.receipt = text]]
    BY <1>0, <1>2 DEF Receipt
  <2>2. /\ [visual[exec.shoot] EXCEPT !.receipt = text] \in Photos
        /\ [visual[exec.shoot] EXCEPT !.receipt = text].receipt = text
        /\ [visual[exec.shoot] EXCEPT !.receipt = text].shots = visual[exec.shoot].shots
    BY <1>0 DEF Photos
  <2> QED BY <1>0, <2>1, <2>2
<1>3. CASE BeginCapture
  <2>1. /\ Receipt("started") /\ Goto("shooting") /\ visual[exec.shoot].receipt = "none"
        /\ UNCHANGED <<status, article, cp, frozen, called, answer, draft, saved, turn>>
    BY <1>3 DEF BeginCapture, Interrupted
  <2>2. exec'.at = "shooting" /\ exec'.shoot = exec.shoot
    BY <2>1, GotoFacts DEF LoopInv, Places, Snapping
  <2>3. CapturesInv'
    BY <1>0, <1>2, <2>1, <2>2 DEF CapturesInv, At
  <2> QED BY <1>1, <1>2, <2>1, <2>3, SnapMoves DEF Snapping
<1>4. ASSUME NEW text \in {"frames", "empty"}, Receipt(text),
             NEW new \in SUBSET FrameSet, Resume(new),
             UNCHANGED <<status, article, cp, frozen, called, answer, draft, saved, turn>>
      PROVE  exec' \in Execs /\ Moves /\ visual' \in [Captures -> Photos] /\ CapturesInv'
  <2>1. exec' \in Execs /\ Moves
    BY <1>1, <1>4, ResumeMoves
  <2>2. exec'.at # "shooting"
    BY <1>0, <1>4 DEF Resume, Execs
  <2> QED BY <1>2, <1>4, <2>1, <2>2 DEF CapturesInv, At
<1>5. CASE OmitCapture
  BY <1>4, <1>5 DEF OmitCapture
<1>6. CASE ReplayCapture
  <2>1. PICK new \in SUBSET FrameSet : Resume(new)
    BY <1>0, <1>6 DEF ReplayCapture
  <2>2. UNCHANGED <<status, article, disk>>
    BY <1>6 DEF ReplayCapture
  <2>3. exec' \in Execs /\ Moves
    BY <1>1, <2>1, <2>2, ResumeMoves DEF disk
  <2>4. exec'.at # "shooting"
    BY <1>0, <2>1 DEF Resume, Execs
  <2> QED BY <1>0, <2>2, <2>3, <2>4 DEF CapturesInv, At, disk
<1>7. CASE Shoot
  <2>1. /\ At("shooting") /\ Goto("shot")
        /\ UNCHANGED <<status, article, cp, frozen, called, answer, draft, saved, turn>>
    BY <1>7 DEF Shoot
  <2>2. visual[exec.shoot].shots = 0 /\ visual[exec.shoot].receipt = "started"
    BY <2>1 DEF LoopInv, CapturesInv
  <2>3. PICK image \in BOOLEAN : visual' =
          [visual EXCEPT ![exec.shoot].shots = @ + 1, ![exec.shoot].image = image]
    BY <1>7 DEF Shoot
  <2>4. /\ visual'[exec.shoot] \in Photos
        /\ visual'[exec.shoot].shots = 1 /\ visual'[exec.shoot].receipt = "started"
        /\ \A c \in Captures : c # exec.shoot => visual'[c] = visual[c]
    <3> DEFINE shot == [visual[exec.shoot] EXCEPT !.shots = @ + 1, !.image = image]
    <3>0. visual[exec.shoot] \in Photos
      BY <1>0
    <3>1. shot.shots = 1 /\ shot.receipt = "started"
      BY <2>2, <3>0 DEF Photos
    <3>2. shot \in Photos
      <4>1. [visual[exec.shoot] EXCEPT !.shots = @ + 1] \in Photos
        BY <3>0 DEF Photos
      <4>2. [[visual[exec.shoot] EXCEPT !.shots = @ + 1] EXCEPT !.image = image] \in Photos
        BY <4>1 DEF Photos
      <4>3. shot = [[visual[exec.shoot] EXCEPT !.shots = @ + 1] EXCEPT !.image = image]
        OBVIOUS
      <4> QED BY <4>2, <4>3
    <3>3. visual' = [visual EXCEPT ![exec.shoot] = shot]
      BY <1>0, <2>3 DEF Photos
    <3> HIDE DEF shot
    <3> QED BY <1>0, <3>1, <3>2, <3>3
  <2>5. visual' \in [Captures -> Photos]
    BY <1>0, <2>3, <2>4
  <2>6. exec'.at = "shot"
    BY <2>1, GotoFacts DEF LoopInv, Places, Snapping
  <2>7. CapturesInv'
    BY <1>0, <2>4, <2>6 DEF CapturesInv, At
  <2> QED BY <1>1, <2>1, <2>5, <2>7, SnapMoves DEF Snapping
<1>8. CASE EndCapture
  BY <1>0, <1>4, <1>8 DEF EndCapture
<1> QED BY <1>3, <1>5, <1>6, <1>7, <1>8

LEMMA MovesInv ==
  ASSUME ConstantsOK, LoopInv,
         \/ Begin \/ Leave \/ PrepareFrames \/ GenerateFails \/ Complete \/ ApplyOther
         \/ BeginCapture \/ OmitCapture \/ ReplayCapture \/ Shoot \/ EndCapture
  PROVE  LoopInv'
<1>1. CASE BeginCapture \/ OmitCapture \/ ReplayCapture \/ Shoot \/ EndCapture
  <2>1. exec' \in Execs /\ Moves /\ visual' \in [Captures -> Photos] /\ CapturesInv'
    BY <1>1, CaptureMoves
  <2>2. LoopTypes'
    BY <2>1, TypesExec DEF LoopInv, LoopTypes, Moves, Photos
  <2> QED BY <2>1, <2>2, MovesKeep DEF LoopInv
<1>2. CASE Begin \/ Leave \/ PrepareFrames \/ GenerateFails \/ Complete \/ ApplyOther
  <2>1. exec' \in Execs /\ Moves /\ visual' = visual
    BY <1>2, BeginMoves, LeaveMoves, PrepareFramesMoves, GenerateFailsMoves, CompleteMoves,
       ApplyOtherMoves
  <2>2. exec'.at # "shooting"
    <3>1. CASE Begin \/ Leave
      BY <3>1, LoopOfExec DEF Begin, Leave, Goto, LoopInv, Execs
    <3>2. CASE PrepareFrames
      BY <3>2, LoopOfExec DEF PrepareFrames, Ready, At, LoopInv, Execs
    <3>3. CASE GenerateFails \/ Complete \/ ApplyOther
      BY <3>3, LoopOfExec DEF GenerateFails, Complete, ApplyOther, GotoWith, LoopInv, Execs
    <3> QED BY <1>2, <3>1, <3>2, <3>3
  <2>3. CapturesInv'
    BY <2>1, <2>2 DEF LoopInv, CapturesInv, At
  <2>4. LoopTypes'
    BY <2>1, TypesExec DEF LoopInv, LoopTypes, Moves
  <2> QED BY <2>1, <2>3, <2>4, MovesKeep DEF LoopInv
<1> QED BY <1>1, <1>2

\* The run ends.
LEMMA EndInv == ASSUME LoopInv, Stop \/ Publish PROVE LoopInv'
<1>1. /\ UNCHANGED <<cp, frozen, called, answer, draft, saved, visual, turn>> /\ Goto("out") /\ ~At("out")
      /\ status' \in {"succeeded", "failed"}
      /\ status' = "succeeded" => /\ ~At("out") /\ article' = draft.items
                                  /\ draft.items = L.candidate /\ L.candidate # {}
                                  /\ draft.items \cap FrameSet \subseteq L.seen
  BY DEF Stop, Publish, disk, At, Nothing, Valid
<1>2. exec'.at = "out" /\ exec' \in Execs
  BY <1>1, GotoFacts DEF LoopInv, Places
<1>3. LoopTypes' /\ CapturesInv' /\ VersionInv'
  <2>1. LoopTypes'
    BY <1>1, <1>2 DEF LoopInv, LoopTypes, Execs
  <2> QED BY <1>1, <1>2, <2>1 DEF LoopInv, CapturesInv, VersionInv, At
<1>4. PlacesInv'
  BY <1>1, <1>2 DEF LoopInv, PlacesInv, At, Handling, Snapping
<1>5. InputsInv'
  BY <1>1, <1>2 DEF LoopInv, InputsInv, At
<1>6. MarksInv'
  <2>1. \A x : Answered(x)' <=> Answered(x)
    BY <1>1 DEF Answered
  <2>2. \A l : Sound(l)' <=> Sound(l)
    BY <2>1 DEF Sound
  <2>3. Sound(cp.loop)' /\ \A s \in SlotSet : \A l \in turn[s] : Sound(l)'
    BY <1>1, <2>1, <2>2 DEF LoopInv, MarksInv, Sound
  <2>4. \A s \in SlotSet : \A l \in turn[s] : /\ Marks(l, cp.loop)' = Marks(l, cp.loop)
                                              /\ Marks(cp.loop, l)' = Marks(cp.loop, l)
    BY <1>1 DEF Marks
  <2>5. \A s \in SlotSet :
          /\ \A l, m \in turn[s] : l = m
          /\ \A l \in turn[s] :
               /\ s + 1 < cp.calls \/ cp.pending = {} => Marks(l, cp.loop)
               /\ s + 1 = cp.calls /\ cp.pending # {} => Marks(cp.loop, l)
    BY DEF LoopInv, MarksInv
  <2>6. (status = "succeeded" => article = draft.items /\ article # Nothing
                                  /\ \A x \in Published : Answered(x))'
    <3>1. CASE status' = "succeeded"
      <4>1. Sound(L)
        BY <1>1, <3>1 DEF LoopInv, MarksInv
      <4>2. Published' \subseteq L.read \cup L.seen
        BY <1>1, <3>1, <4>1 DEF Sound, Published
      <4> QED BY <1>1, <2>1, <3>1, <4>1, <4>2 DEF Sound, Nothing
    <3> QED BY <3>1
  <2>7. At("out")' /\ ~At("finished")'
    BY <1>2 DEF At
  <2> QED BY <1>1, <2>3, <2>4, <2>5, <2>6, <2>7 DEF MarksInv
<1> QED BY <1>3, <1>4, <1>5, <1>6 DEF LoopInv

\* The pending call ends: its turn is the loop of the checkpoint.
LEMMA CloseInv ==
  ASSUME LoopInv, LoopTypes', cp.pending # {}, status = "running",
         NEW k \in SlotSet, k + 1 = cp.calls, NEW m \in LoopSet, turn[k] = {m},
         cp' = [calls |-> cp.calls, pending |-> {}, loop |-> m],
         exec'.at = "top", exec'.mem = cp',
         UNCHANGED <<status, article, frozen, called, answer, draft, saved, visual, turn>>
  PROVE  LoopInv'
<1>0. /\ cp'.calls = cp.calls /\ cp'.pending = {} /\ cp'.loop = m /\ cp.calls \in Nat
      /\ SlotSet \subseteq Nat
  BY DEF LoopInv, LoopTypes, Checkpoints, SlotSet
<1>1. CapturesInv' /\ VersionInv'
  BY DEF LoopInv, CapturesInv, VersionInv, At
<1>2. PlacesInv'
  BY <1>0 DEF LoopInv, PlacesInv, At, Handling, Snapping
<1>3. InputsInv'
  BY <1>0 DEF LoopInv, InputsInv, At
<1>4. MarksInv'
  <2>1. \A x : Answered(x)' <=> Answered(x)
    BY DEF Answered
  <2>2. Sound(m) /\ Marks(cp.loop, m)
    BY DEF LoopInv, MarksInv
  <2>3. Sound(cp.loop)' /\ Sound(L)' /\ Marks(cp.loop, L)'
    BY <1>0, <2>1, <2>2 DEF Sound, L, Marks
  <2>4. ASSUME NEW s \in SlotSet, NEW l \in turn[s]
        PROVE  Sound(l)' /\ Marks(l, m)
    <3>1. Sound(l)'
      BY <2>1, <2>4 DEF LoopInv, MarksInv, Sound
    <3>2. CASE s = k
      BY <2>4, <3>1, <3>2 DEF Marks
    <3>3. CASE s # k
      <4>0. ~(s >= cp.calls)
        BY <2>4 DEF LoopInv, InputsInv
      <4>1. s < cp.calls
        BY <1>0, <4>0
      <4>2. s + 1 < cp.calls
        BY <1>0, <3>3, <4>1
      <4>3. Marks(l, cp.loop)
        BY <2>4, <4>2 DEF LoopInv, MarksInv
      <4> QED BY <2>2, <3>1, <4>3 DEF Marks
    <3> QED BY <3>2, <3>3
  <2>5. \A s \in SlotSet : \A l, n \in turn[s] : l = n
    BY DEF LoopInv, MarksInv
  <2>6. \A s \in SlotSet : \A l \in turn[s] : Marks(l, cp.loop)'
    BY <1>0, <2>4 DEF Marks
  <2> QED BY <1>0, <2>3, <2>4, <2>5, <2>6 DEF MarksInv, At
<1> QED BY <1>1, <1>2, <1>3, <1>4 DEF LoopInv

LEMMA RecoverTurnInv == ASSUME LoopInv, RecoverTurn PROVE LoopInv'
<1>1. /\ At("top") /\ exec.mem.pending # {} /\ turn[Slot] # {}
      /\ cp' = Recovered /\ exec' = [exec EXCEPT !.mem = Recovered]
      /\ UNCHANGED <<status, article, frozen, called, answer, draft, saved, visual, turn, leaves>>
  BY DEF RecoverTurn
<1>2. LoopTypes /\ ~At("out") /\ ~At("prepared") /\ exec \in Execs
  BY <1>1, LoopOfExec DEF LoopInv, At
<1>3. /\ Slot \in SlotSet /\ Slot + 1 = cp.calls /\ cp.pending # {}
      /\ status = "running" /\ exec.mem.calls = cp.calls
  BY <1>1, <1>2, PendingCall DEF LoopInv, PlacesInv
<1>4. PICK k \in SlotSet : k = Slot
  BY <1>3
<1>5. PICK m \in LoopSet : turn[k] = {m}
  BY <1>1, <1>2, <1>4 DEF LoopInv, MarksInv, LoopTypes
<1>6. Recovered = [calls |-> cp.calls, pending |-> {}, loop |-> m]
  BY <1>3, <1>4, <1>5 DEF Recovered
<1>7. Recovered \in Checkpoints
  BY <1>2, <1>6, LoopOfExec DEF Checkpoints
<1>8. exec' = [at |-> "top", mem |-> Recovered, shoot |-> exec.shoot]
  BY <1>1, <1>2 DEF Execs, At
<1>9. LoopTypes'
  BY <1>1, <1>2, <1>7, <1>8 DEF LoopTypes, Execs
<1> QED BY <1>1, <1>3, <1>4, <1>5, <1>6, <1>8, <1>9, CloseInv

LEMMA PersistInv == ASSUME LoopInv, Persist PROVE LoopInv'
<1>1. /\ At("finished") /\ cp' = [exec.mem EXCEPT !.pending = {}]
      /\ exec' = [exec EXCEPT !.at = "top", !.mem.pending = {}]
      /\ UNCHANGED <<status, article, frozen, called, answer, draft, saved, visual, turn, leaves>>
  BY DEF Persist
<1>2. LoopTypes /\ exec \in Execs /\ exec.mem \in Checkpoints /\ L \in LoopSet /\ ~At("out")
  BY <1>1, LoopOfExec DEF LoopInv, At
<1>3. /\ Slot \in SlotSet /\ Slot + 1 = cp.calls /\ cp.pending # {}
      /\ status = "running" /\ exec.mem.calls = cp.calls
  BY <1>1, <1>2, HandledCall DEF LoopInv, PlacesInv, At, Handling
<1>4. PICK k \in SlotSet : k = Slot
  BY <1>3
<1>5. PICK m \in LoopSet : m = L /\ turn[k] = {m}
  BY <1>1, <1>2, <1>4 DEF LoopInv, MarksInv
<1>6. cp' = [calls |-> cp.calls, pending |-> {}, loop |-> m]
  BY <1>1, <1>2, <1>3, <1>5 DEF Checkpoints, L
<1>7. cp' \in Checkpoints
  BY <1>2, <1>6, LoopOfExec DEF Checkpoints
<1>8. exec' = [at |-> "top", mem |-> cp', shoot |-> exec.shoot]
  BY <1>1, <1>2 DEF Execs
<1>9. LoopTypes'
  BY <1>1, <1>2, <1>7, <1>8 DEF LoopTypes, Execs, Places
<1> QED BY <1>1, <1>3, <1>4, <1>5, <1>6, <1>8, <1>9, CloseInv

\* The slot is reserved: the prepared call becomes the pending one.
LEMMA ReserveInv == ASSUME ConstantsOK, LoopInv, Reserve PROVE LoopInv'
<1>1. /\ At("prepared") /\ cp' = Reserved /\ exec' = [exec EXCEPT !.at = "top", !.mem = Reserved]
      /\ called' = [called EXCEPT ![Slot] = {Call.input}]
      /\ UNCHANGED <<status, article, frozen, answer, draft, saved, visual, turn, leaves>>
  BY DEF Reserve
<1>2. LoopTypes /\ exec \in Execs /\ exec.mem \in Checkpoints /\ L \in LoopSet /\ ~At("out")
      /\ exec.at = "prepared"
  BY <1>1, LoopOfExec DEF LoopInv, At
<1>3. PICK p \in CallSet : exec.mem.pending = {p} /\ p.slot = cp.calls
  BY <1>1 DEF LoopInv, PlacesInv
<1>4. /\ p.slot \in SlotSet /\ cp.pending = {} /\ status = "running" /\ exec.mem.calls = cp.calls
      /\ cp.calls \in Nat /\ SlotSet \subseteq Nat
  BY <1>1, <1>2, <1>3 DEF LoopInv, PlacesInv, CallSet, LoopTypes, Checkpoints, SlotSet
<1>5. Reserved = [calls |-> cp.calls + 1, pending |-> {p}, loop |-> L]
  BY <1>2, <1>3, <1>4 DEF Reserved, Checkpoints, L
<1>6. Reserved \in Checkpoints
  BY <1>2, <1>4, <1>5 DEF Checkpoints
<1>7. exec' = [at |-> "top", mem |-> Reserved, shoot |-> exec.shoot]
  BY <1>1, <1>2 DEF Execs
<1>0. /\ called' \in [SlotSet -> SUBSET InputSet] /\ called'[p.slot] = {p.input}
      /\ \A s \in SlotSet : s # p.slot => called'[s] = called[s]
  <2>1. Call = p
    BY <1>3 DEF Call
  <2>2. {p.input} \in SUBSET InputSet /\ called \in [SlotSet -> SUBSET InputSet]
    BY <1>2 DEF CallSet, LoopTypes
  <2> QED BY <1>1, <1>4, <2>1, <2>2 DEF Slot
<1>8. LoopTypes'
  BY <1>0, <1>1, <1>2, <1>6, <1>7 DEF LoopTypes, Execs, Places
<1>9. CapturesInv' /\ VersionInv'
  BY <1>1, <1>7 DEF LoopInv, CapturesInv, VersionInv, At
<1>10. cp'.calls = cp.calls + 1 /\ cp'.pending = {p} /\ cp'.loop = L
       /\ exec'.mem = cp' /\ exec'.at = "top" /\ L' = L
  BY <1>1, <1>5, <1>7 DEF L
<1>11. PlacesInv'
  BY <1>1, <1>3, <1>4, <1>10 DEF PlacesInv, At, Handling, Snapping
<1>12. InputsInv'
  <2>1. \A s \in SlotSet :
          /\ \A i, j \in frozen[s] : i = j
          /\ s < cp.calls => frozen[s] # {} /\ called[s] # {}
          /\ s >= cp.calls => answer[s] = None /\ turn[s] = {} /\ called[s] = {}
          /\ s > cp.calls => frozen[s] = {}
    BY DEF LoopInv, InputsInv
  <2>2. frozen[p.slot] # {}
    BY <1>1, <1>3 DEF LoopInv, InputsInv
  <2>3. \A s \in SlotSet : \A i, j \in called'[s] : i = j
    BY <1>0 DEF LoopInv, InputsInv
  <2>4. \A s \in SlotSet :
          /\ s < cp.calls + 1 => frozen[s] # {} /\ called'[s] # {}
          /\ s >= cp.calls + 1 => answer[s] = None /\ turn[s] = {} /\ called'[s] = {}
                                  /\ frozen[s] = {}
    BY <1>0, <1>3, <1>4, <2>1, <2>2
  <2>5. ~At("prepared")'
    BY <1>10 DEF At
  <2>6. ASSUME NEW s \in SlotSet PROVE s > cp.calls + 1 \/ s = cp.calls + 1 => s >= cp.calls + 1
    <3>1. s \in Nat /\ cp.calls \in Nat
      BY <1>4
    <3> QED BY <3>1
  <2>7. \A q \in cp'.pending : called'[q.slot] = {q.input}
    BY <1>0, <1>10
  <2>8. \A s \in SlotSet :
          /\ (\A i, j \in frozen'[s] : i = j) /\ \A i, j \in called'[s] : i = j
          /\ s < cp'.calls => frozen'[s] # {} /\ called'[s] # {}
          /\ s >= cp'.calls => answer'[s] = None /\ turn'[s] = {} /\ called'[s] = {}
          /\ s > cp'.calls \/ s = cp'.calls => frozen'[s] = {}
    BY <1>1, <1>10, <2>1, <2>3, <2>4, <2>6
  <2> QED BY <2>5, <2>7, <2>8 DEF InputsInv
<1>13. MarksInv'
  <2>1. \A x : Answered(x) => Answered(x)'
    <3>1. answer[p.slot] = None
      BY <1>3, <1>4 DEF LoopInv, InputsInv
    <3> QED BY <1>0, <1>1, <3>1 DEF Answered
  <2>2. Sound(L) /\ Marks(cp.loop, L)
    BY <1>2 DEF LoopInv, MarksInv
  <2>3. Sound(cp.loop)' /\ Sound(L)' /\ Marks(cp.loop, L)'
    BY <1>10, <2>1, <2>2 DEF Sound, Marks
  <2>4. ASSUME NEW s \in SlotSet, NEW l \in turn[s]
        PROVE  Sound(l)' /\ Marks(l, L) /\ s + 1 < cp.calls + 1
    <3>1. Sound(l)'
      BY <2>1, <2>4 DEF LoopInv, MarksInv, Sound
    <3>2. Marks(l, cp.loop)
      BY <1>4, <2>4 DEF LoopInv, MarksInv
    <3>3. s < cp.calls
      BY <1>4, <2>4 DEF LoopInv, InputsInv
    <3> QED BY <1>4, <2>2, <3>1, <3>2, <3>3 DEF Marks
  <2>5. \A s \in SlotSet : \A l, n \in turn[s] : l = n
    BY DEF LoopInv, MarksInv
  <2>6. \A s \in SlotSet : \A l \in turn[s] : Marks(l, cp.loop)' /\ s + 1 < cp'.calls
    BY <1>10, <2>4 DEF Marks
  <2>7. \A s \in SlotSet : s + 1 < cp'.calls => s + 1 # cp'.calls
    BY <1>4, <1>10
  <2>8. ~At("finished")' /\ status' # "succeeded"
    BY <1>1, <1>4, <1>10 DEF At
  <2> QED BY <1>1, <2>3, <2>4, <2>5, <2>6, <2>7, <2>8 DEF MarksInv
<1> QED BY <1>8, <1>9, <1>11, <1>12, <1>13 DEF LoopInv

\* The turn of the pending call is the loop in hand.
LEMMA FinishTurnInv == ASSUME ConstantsOK, LoopInv, FinishTurn PROVE LoopInv'
<1>1. /\ At("applied") /\ turn' = [turn EXCEPT ![Slot] = {L}]
      /\ exec' = [exec EXCEPT !.at = "finished"]
      /\ UNCHANGED <<status, article, cp, frozen, called, answer, draft, saved, visual, leaves>>
  BY DEF FinishTurn
<1>2. LoopTypes /\ exec \in Execs /\ L \in LoopSet /\ ~At("out") /\ exec.at = "applied"
  BY <1>1, LoopOfExec DEF LoopInv, At
<1>3. /\ Slot \in SlotSet /\ Slot + 1 = cp.calls /\ cp.pending # {} /\ cp.pending = {Call}
      /\ status = "running" /\ exec.mem.calls = cp.calls /\ exec.mem.pending = cp.pending
  BY <1>1, <1>2, HandledCall DEF LoopInv, PlacesInv, At, Handling
<1>4. PICK k \in SlotSet : k = Slot
  BY <1>3
<1>5. PICK m \in LoopSet : m = L
  BY <1>2
<1>6. turn' = [turn EXCEPT ![k] = {m}] /\ turn'[k] = {m} /\ \A s \in SlotSet : s # k => turn'[s] = turn[s]
  BY <1>1, <1>2, <1>4, <1>5 DEF LoopTypes
<1>7. exec' \in Execs /\ exec'.at = "finished" /\ exec'.mem = exec.mem /\ exec'.shoot = exec.shoot
  BY <1>1, <1>2 DEF Execs, Places, Handling
<1>8. L' = m /\ Slot' = k
  BY <1>4, <1>5, <1>7 DEF L, Slot, Call
<1>9. LoopTypes'
  <2>1. {m} \in SUBSET LoopSet /\ turn \in [SlotSet -> SUBSET LoopSet]
    BY <1>2 DEF LoopTypes
  <2>2. turn' \in [SlotSet -> SUBSET LoopSet]
    BY <1>6, <2>1
  <2> QED BY <1>1, <1>2, <1>7, <2>2 DEF LoopTypes, Execs
<1>10. CapturesInv' /\ VersionInv'
  BY <1>1, <1>7 DEF LoopInv, CapturesInv, VersionInv, At
<1>11. PlacesInv'
  BY <1>1, <1>2, <1>3, <1>7 DEF LoopInv, PlacesInv, At, Handling, Snapping
<1>12. k + 1 = cp.calls /\ cp.calls \in Nat /\ SlotSet \subseteq Nat
  BY <1>2, <1>3, <1>4 DEF LoopTypes, Checkpoints, SlotSet
<1>13. InputsInv'
  <2>1. \A s \in SlotSet : s >= cp.calls => turn'[s] = {}
    BY <1>6, <1>12 DEF LoopInv, InputsInv
  <2>2. ~At("prepared")'
    BY <1>7 DEF At
  <2> QED BY <1>1, <2>1, <2>2 DEF LoopInv, InputsInv, At
<1>14. MarksInv'
  <2>1. \A x : Answered(x)' <=> Answered(x)
    BY <1>1 DEF Answered
  <2>2. Sound(m) /\ Marks(cp.loop, m)
    BY <1>2, <1>5 DEF LoopInv, MarksInv
  <2>3. Sound(cp.loop)' /\ Sound(m)' /\ Sound(L)' /\ Marks(cp.loop, L)'
    BY <1>1, <1>8, <2>1, <2>2 DEF Sound, Marks, LoopInv, MarksInv
  <2>4. ASSUME NEW s \in SlotSet
        PROVE  /\ \A l, n \in turn'[s] : l = n
               /\ \A l \in turn'[s] :
                    /\ Sound(l)'
                    /\ s + 1 < cp.calls => Marks(l, cp.loop)
                    /\ s + 1 = cp.calls => Marks(cp.loop, l)
    <3>1. CASE s = k
      BY <1>6, <1>12, <2>2, <2>3, <3>1
    <3>2. CASE s # k
      <4>1. turn'[s] = turn[s]
        BY <1>6, <3>2
      <4>2. \A l \in turn[s] : Sound(l)
        BY DEF LoopInv, MarksInv
      <4>3. \A l \in turn[s] : Sound(l)'
        BY <2>1, <4>2 DEF Sound
      <4> QED BY <1>3, <4>1, <4>3 DEF LoopInv, MarksInv
    <3> QED BY <3>1, <3>2
  <2>5. \A s \in SlotSet : \A l \in turn'[s] : /\ Marks(l, cp.loop)' = Marks(l, cp.loop)
                                               /\ Marks(cp.loop, l)' = Marks(cp.loop, l)
    BY <1>1 DEF Marks
  <2>6. (At("finished") => turn[Slot] = {L})' /\ status' # "succeeded"
    BY <1>1, <1>3, <1>6, <1>8
  <2> QED BY <1>1, <1>3, <2>3, <2>4, <2>5, <2>6 DEF MarksInv
<1> QED BY <1>9, <1>10, <1>11, <1>13, <1>14 DEF LoopInv

\* The model answers, and what its input held is marked as read.
LEMMA GenerateInv == ASSUME ConstantsOK, LoopInv, Generate PROVE LoopInv'
<1>1. /\ At("top") /\ exec.mem.pending # {} /\ turn[Slot] = {}
      /\ GotoWith("answered", [L EXCEPT !.read = @ \cup Call.input.parts,
                                        !.seen = @ \cup Call.input.frames])
      /\ UNCHANGED <<status, article, cp, frozen, called, draft, saved, visual, turn, leaves>>
  BY DEF Generate, Generates
<1>2. LoopTypes /\ exec \in Execs /\ L \in LoopSet /\ ~At("out") /\ ~At("prepared")
  BY <1>1, LoopOfExec DEF LoopInv, At
<1>3. /\ Slot \in SlotSet /\ Slot + 1 = cp.calls /\ cp.pending # {} /\ cp.pending = {Call}
      /\ Call \in CallSet
      /\ status = "running" /\ exec.mem.calls = cp.calls /\ exec.mem.pending = cp.pending
  BY <1>1, <1>2, PendingCall DEF LoopInv, PlacesInv
<1>4. PICK k \in SlotSet, p \in CallSet : k = Slot /\ p = Call
  BY <1>3
<1>5. PICK m \in LoopSet : /\ m.read = L.read \cup p.input.parts
                           /\ m.seen = L.seen \cup p.input.frames
                           /\ m.candidate = L.candidate /\ GotoWith("answered", m)
  <2> DEFINE m == [L EXCEPT !.read = @ \cup p.input.parts, !.seen = @ \cup p.input.frames]
  <2>1. p.input.parts \in SUBSET Parts /\ p.input.frames \in SUBSET FrameSet
    BY DEF CallSet, InputSet
  <2>2. /\ m.read = L.read \cup p.input.parts /\ m.seen = L.seen \cup p.input.frames
        /\ m.candidate = L.candidate
    BY <1>2 DEF LoopSet
  <2>3. m \in LoopSet
    BY <1>2, <2>1 DEF LoopSet
  <2>4. GotoWith("answered", m)
    BY <1>1, <1>4
  <2> HIDE DEF m
  <2> QED BY <2>2, <2>3, <2>4
<1>6. exec' \in Execs /\ exec'.at = "answered" /\ exec'.mem.calls = cp.calls
      /\ exec'.mem.pending = cp.pending /\ exec'.mem.loop = m /\ exec'.shoot = exec.shoot
  BY <1>2, <1>3, <1>5, GotoWithFacts DEF Places, Handling
<1>7. answer' \in [SlotSet -> Answers \cup {None}] /\ answer'[k] # None
      /\ \A s \in SlotSet : s # k => answer'[s] = answer[s]
  <2>1. answer \in [SlotSet -> Answers \cup {None}]
    BY <1>2 DEF LoopTypes
  <2>2. CASE answer[k] # None
    BY <1>4, <2>1, <2>2 DEF Generate
  <2>3. CASE answer[k] = None
    <3>1. PICK a \in Answers : answer' = [answer EXCEPT ![k] = a]
      BY <1>4, <2>3 DEF Generate
    <3>2. a # None
      <4>1. a.tool # "none"
        BY DEF Answers
      <4> QED BY <4>1 DEF None
    <3> QED BY <2>1, <3>1, <3>2
  <2> QED BY <2>2, <2>3
<1>8. LoopTypes'
  BY <1>1, <1>2, <1>6, <1>7 DEF LoopTypes, Execs
<1>9. CapturesInv' /\ VersionInv'
  BY <1>1, <1>6 DEF LoopInv, CapturesInv, VersionInv, At
<1>10. PlacesInv'
  BY <1>1, <1>3, <1>6 DEF LoopInv, PlacesInv, At, Handling, Snapping
<1>11. k + 1 = cp.calls /\ cp.calls \in Nat /\ SlotSet \subseteq Nat /\ cp.pending = {p} /\ p.slot = k
  BY <1>2, <1>3, <1>4 DEF LoopTypes, Checkpoints, SlotSet, Slot
<1>12. InputsInv'
  <2>1. \A s \in SlotSet : s >= cp.calls => answer'[s] = None
    BY <1>7, <1>11 DEF LoopInv, InputsInv
  <2>2. ~At("prepared")'
    BY <1>6 DEF At
  <2> QED BY <1>1, <2>1, <2>2 DEF LoopInv, InputsInv, At
<1>13. MarksInv'
  <2>1. \A x : Answered(x) => Answered(x)'
    BY <1>1, <1>7 DEF Answered
  <2>2. \A x \in p.input.parts \cup p.input.frames : Answered(x)'
    <3>1. called[k] = {p.input}
      BY <1>11 DEF LoopInv, InputsInv
    <3> QED BY <1>1, <1>7, <3>1 DEF Answered
  <2>3. Sound(L) /\ Marks(cp.loop, L)
    BY <1>2 DEF LoopInv, MarksInv
  <2>4. Sound(m)' /\ Marks(cp.loop, m)
    BY <1>5, <2>1, <2>2, <2>3 DEF Sound, Marks
  <2>5. L' = m
    BY <1>6 DEF L
  <2>6. Sound(cp.loop)' /\ Sound(L)' /\ Marks(cp.loop, L)'
    BY <1>1, <2>1, <2>4, <2>5 DEF Sound, Marks, LoopInv, MarksInv
  <2>7. ASSUME NEW s \in SlotSet, NEW l \in turn[s]
        PROVE  /\ Sound(l)' /\ Marks(l, cp.loop)' = Marks(l, cp.loop)
               /\ Marks(cp.loop, l)' = Marks(cp.loop, l)
    <3>1. Sound(l)
      BY <2>7 DEF LoopInv, MarksInv
    <3> QED BY <1>1, <2>1, <3>1 DEF Sound, Marks
  <2>8. \A s \in SlotSet :
          /\ \A l, n \in turn[s] : l = n
          /\ \A l \in turn[s] :
               /\ s + 1 < cp.calls \/ cp.pending = {} => Marks(l, cp.loop)
               /\ s + 1 = cp.calls /\ cp.pending # {} => Marks(cp.loop, l)
    BY DEF LoopInv, MarksInv
  <2>9. ~At("finished")' /\ status' # "succeeded"
    BY <1>1, <1>3, <1>6 DEF At
  <2> QED BY <1>1, <2>6, <2>7, <2>8, <2>9 DEF MarksInv
<1> QED BY <1>8, <1>9, <1>10, <1>12, <1>13 DEF LoopInv

LEMMA DeliverableType == ASSUME ConstantsOK, LoopTypes PROVE Deliverable \subseteq SUBSET Parts
<1>1. L \in LoopSet
  BY LoopOfExec
<1>2. Continuation \in SUBSET Parts /\ Selected \in SUBSET Parts
  BY <1>1 DEF Selected, First, Continuation, LoopSet
<1>3. \A parts \in SUBSET Parts : Halves(parts) \subseteq SUBSET Parts
  BY DEF Halves, First
<1>4. Halves(IF Default THEN Continuation ELSE Selected) \subseteq SUBSET Parts
  BY <1>2, <1>3
<1> QED BY <1>2, <1>4 DEF Deliverable

\* An input is frozen, unless an earlier execution froze one, whatever it holds.
LEMMA PrepareInv == ASSUME ConstantsOK, LoopInv, Prepare PROVE LoopInv'
<1>1. /\ At("top") /\ exec.mem.pending = {} /\ exec.mem.calls < Slots
      /\ UNCHANGED <<status, article, cp, called, answer, draft, saved, visual, turn, leaves>>
  BY DEF Prepare, Ready
<1>2. LoopTypes /\ exec \in Execs /\ L \in LoopSet /\ exec.mem \in Checkpoints
      /\ ~At("out") /\ ~At("prepared")
  BY <1>1, LoopOfExec DEF LoopInv, At
<1>3. /\ cp.pending = {} /\ exec.mem.calls = cp.calls /\ status = "running"
  BY <1>1, <1>2 DEF LoopInv, PlacesInv
<1>4. PICK k \in SlotSet : k = cp.calls
  BY <1>1, <1>2, <1>3, LoopConstants DEF SlotSet, LoopTypes, Checkpoints
<1>5. PICK input \in InputSet :
        /\ frozen' = [frozen EXCEPT ![k] = IF @ = {} THEN {input} ELSE @]
        /\ exec' = [exec EXCEPT !.at = "prepared",
              !.mem.pending = {[slot |-> k, input |-> input]},
              !.mem.loop.next = {}, !.mem.loop.pixels = {}]
  <2>1. PICK readable \in SUBSET Pixels, parts \in Deliverable :
          LET s == exec.mem.calls
              input == [parts |-> parts, frames |-> readable] IN
          /\ frozen' = [frozen EXCEPT ![s] = IF @ = {} THEN {input} ELSE @]
          /\ exec' = [exec EXCEPT !.at = "prepared",
                !.mem.pending = {[slot |-> s, input |-> input]},
                !.mem.loop.next = {}, !.mem.loop.pixels = {}]
    BY DEF Prepare
  <2>2. Pixels \in SUBSET FrameSet
    BY <1>2 DEF Pixels, LoopSet
  <2>3. [parts |-> parts, frames |-> readable] \in InputSet
    BY <1>2, <2>2, DeliverableType DEF InputSet
  <2> QED BY <1>3, <1>4, <2>1, <2>3
<1>6. PICK p \in CallSet : p = [slot |-> k, input |-> input] /\ p.slot = k /\ p.input = input
  <2>1. [slot |-> k, input |-> input] \in CallSet
    BY DEF CallSet
  <2> QED BY <2>1
<1>7. PICK m \in LoopSet : m = [L EXCEPT !.next = {}, !.pixels = {}] /\ m.read = L.read
                           /\ m.seen = L.seen /\ m.candidate = L.candidate
  <2>1. [L EXCEPT !.next = {}, !.pixels = {}] \in LoopSet
    BY <1>2 DEF LoopSet
  <2> QED BY <1>2, <2>1 DEF LoopSet
<1>8. exec' = [at |-> "prepared", mem |-> [calls |-> cp.calls, pending |-> {p}, loop |-> m],
               shoot |-> exec.shoot]
  BY <1>2, <1>3, <1>5, <1>6, <1>7 DEF Execs, Checkpoints, L
<1>9. exec' \in Execs
  <2>1. [calls |-> cp.calls, pending |-> {p}, loop |-> m] \in Checkpoints
    BY <1>2 DEF Checkpoints, LoopTypes
  <2> QED BY <1>2, <1>8, <2>1 DEF Execs, Places
<1>10. /\ frozen' \in [SlotSet -> SUBSET InputSet] /\ frozen'[k] # {}
       /\ \A i, j \in frozen'[k] : i = j
       /\ \A s \in SlotSet : s # k => frozen'[s] = frozen[s]
  <2>1. frozen \in [SlotSet -> SUBSET InputSet]
    BY <1>2 DEF LoopTypes
  <2>2. \A i, j \in frozen[k] : i = j
    BY <1>4 DEF LoopInv, InputsInv
  <2> QED BY <1>5, <2>1, <2>2
<1>11. LoopTypes'
  BY <1>1, <1>2, <1>9, <1>10 DEF LoopTypes, Execs
<1>12. CapturesInv' /\ VersionInv'
  BY <1>1, <1>8 DEF LoopInv, CapturesInv, VersionInv, At
<1>13. PlacesInv'
  BY <1>1, <1>3, <1>4, <1>6, <1>8 DEF PlacesInv, At, Handling, Snapping
<1>14. InputsInv'
  <2>1. \A s \in SlotSet :
          /\ \A i, j \in frozen'[s] : i = j
          /\ s < cp.calls => frozen'[s] # {}
          /\ s > cp.calls => frozen'[s] = {}
    BY <1>4, <1>10 DEF LoopInv, InputsInv
  <2>2. exec'.mem.pending = {p}
    BY <1>8
  <2>3. \A s \in SlotSet :
          /\ \A i, j \in called[s] : i = j
          /\ s < cp.calls => called[s] # {}
          /\ s >= cp.calls => answer[s] = None /\ turn[s] = {} /\ called[s] = {}
    BY DEF LoopInv, InputsInv
  <2>4. \A q \in exec'.mem.pending : frozen'[q.slot] # {}
    BY <1>6, <1>10, <2>2
  <2> QED BY <1>1, <1>3, <2>1, <2>3, <2>4 DEF InputsInv
<1>15. MarksInv'
  <2>1. \A x : Answered(x)' <=> Answered(x)
    BY <1>1 DEF Answered
  <2>2. Sound(m) /\ Marks(cp.loop, m)
    BY <1>2, <1>7 DEF LoopInv, MarksInv, Sound, Marks
  <2>3. L' = m
    BY <1>8 DEF L
  <2>4. Sound(cp.loop)' /\ Sound(L)' /\ Marks(cp.loop, L)'
    BY <1>1, <2>1, <2>2, <2>3 DEF Sound, Marks, LoopInv, MarksInv
  <2>5. ASSUME NEW s \in SlotSet, NEW l \in turn[s]
        PROVE  Sound(l)' /\ Marks(l, cp.loop)' /\ Marks(l, cp.loop)
    <3>1. Sound(l) /\ Marks(l, cp.loop)
      BY <1>3, <2>5 DEF LoopInv, MarksInv
    <3> QED BY <1>1, <2>1, <3>1 DEF Sound, Marks
  <2>6. \A s \in SlotSet : \A l, n \in turn[s] : l = n
    BY DEF LoopInv, MarksInv
  <2>7. ~At("finished")' /\ status' # "succeeded"
    BY <1>1, <1>3, <1>8 DEF At
  <2> QED BY <1>1, <1>3, <2>4, <2>5, <2>6, <2>7 DEF MarksInv
<1> QED BY <1>11, <1>12, <1>13, <1>14, <1>15 DEF LoopInv

\* A slot writes the draft once.
LEMMA SaveDraftInv == ASSUME ConstantsOK, LoopInv, SaveDraft PROVE LoopInv'
<1>1. /\ At("answered") /\ answer[Slot].tool = "save"
      /\ UNCHANGED <<status, article, cp, frozen, called, answer, visual, turn, leaves>>
  BY DEF SaveDraft
<1>2. LoopTypes /\ exec \in Execs /\ L \in LoopSet /\ ~At("out") /\ ~At("prepared")
      /\ exec.at = "answered"
  BY <1>1, LoopOfExec DEF LoopInv, At
<1>3. /\ Slot \in SlotSet /\ Slot + 1 = cp.calls /\ cp.pending # {}
      /\ status = "running" /\ exec.mem.calls = cp.calls /\ exec.mem.pending = cp.pending
  BY <1>1, <1>2, HandledCall DEF LoopInv, PlacesInv, At, Handling
<1>4. PICK k \in SlotSet, w \in {"none", "changed", "unchanged", "rejected"},
           item \in Parts \cup FrameSet :
        k = Slot /\ w = Written /\ item = answer[k].item
  <2>1. answer[Slot] \in Answers \cup {None}
    BY <1>2, <1>3 DEF LoopTypes
  <2>2. answer[Slot].item \in Parts \cup FrameSet
    BY <1>1, <2>1, AnswerFields
  <2>3. Written \in {"none", "changed", "unchanged", "rejected"}
    <3>1. saved[Slot] \in {"none", "changed", "unchanged", "rejected"}
      BY <1>2, <1>3 DEF LoopTypes
    <3> QED BY <3>1 DEF Written
  <2> QED BY <1>3, <2>2, <2>3
<1>5. /\ draft' = IF w = "changed" /\ saved[k] = "none"
                  THEN [version |-> draft.version + 1, items |-> draft.items \cup {item}] ELSE draft
      /\ saved' = [saved EXCEPT ![k] = w]
      /\ saved[k] # "none" => w = saved[k]
  <2>1. saved[k] # "none" => w = saved[k]
    BY <1>4 DEF Written
  <2>2. Written = w /\ Slot = k /\ answer[k].item = item
    BY <1>4
  <2>3. /\ draft' = IF w = "changed" /\ saved[k] = "none"
                    THEN [version |-> draft.version + 1, items |-> draft.items \cup {item}] ELSE draft
        /\ saved' = [saved EXCEPT ![k] = w]
    BY <2>2 DEF SaveDraft
  <2> QED BY <2>1, <2>3
<1>6. PICK m \in LoopSet, place \in {"visual", "written"} :
        /\ m.read = L.read /\ m.seen = L.seen
        /\ m.candidate = L.candidate \/ m.candidate = {}
        /\ exec' = [exec EXCEPT !.at = place, !.shoot = k, !.mem.loop = m]
  <2> DEFINE m == IF w = "changed" THEN [L EXCEPT !.candidate = Nothing, !.version = 0] ELSE L
             place == IF answer[k].then = "look" /\ w # "rejected"
                      THEN "visual" ELSE "written"
  <2>1. exec' = [exec EXCEPT !.at = place, !.shoot = k, !.mem.loop = m]
    BY <1>4 DEF SaveDraft
  <2>2. /\ m \in LoopSet /\ m.read = L.read /\ m.seen = L.seen
        /\ m.candidate = L.candidate \/ m.candidate = {}
    BY <1>2 DEF LoopSet, Nothing
  <2>3. place \in {"visual", "written"}
    OBVIOUS
  <2> HIDE DEF m, place
  <2> QED BY <2>1, <2>2, <2>3
<1>7. exec' \in Execs /\ exec'.at = place /\ exec'.shoot = k /\ exec'.mem.calls = cp.calls
      /\ exec'.mem.pending = cp.pending /\ exec'.mem.loop = m
  <2>1. place \in Places /\ k \in Captures
    BY LoopConstants DEF Places, Handling, Snapping
  <2>2. /\ exec' \in Execs /\ exec'.at = place /\ exec'.shoot = k
        /\ exec'.mem.calls = exec.mem.calls /\ exec'.mem.pending = exec.mem.pending
        /\ exec'.mem.loop = m
    BY <1>2, <1>6, <2>1, MemFacts
  <2> QED BY <1>3, <2>2
<1>8. LoopTypes'
  <2>1. saved' \in [SlotSet -> {"none", "changed", "unchanged", "rejected"}]
    BY <1>2, <1>5 DEF LoopTypes
  <2>2. draft' \in [version : Nat, items : SUBSET (Parts \cup FrameSet)]
    <3>1. /\ draft \in [version : Nat, items : SUBSET (Parts \cup FrameSet)]
          /\ draft.version + 1 \in Nat /\ draft.items \cup {item} \in SUBSET (Parts \cup FrameSet)
      BY <1>2 DEF LoopTypes
    <3> QED BY <1>5, <3>1
  <2> QED BY <1>1, <1>2, <1>7, <2>1, <2>2 DEF LoopTypes, Execs
<1>9. CapturesInv'
  BY <1>1, <1>7 DEF LoopInv, CapturesInv, At
<1>10. VersionInv'
  <2> DEFINE changed == {s \in SlotSet : saved[s] = "changed"}
  <2>1. draft.version = Cardinality(changed) /\ IsFiniteSet(changed)
    BY LoopConstants, FS_Subset DEF LoopInv, VersionInv
  <2>2. CASE w = "changed" /\ saved[k] = "none"
    <3>1. {s \in SlotSet : saved'[s] = "changed"} = changed \cup {k} /\ k \notin changed
      BY <1>2, <1>5, <2>2 DEF LoopTypes
    <3>2. draft'.version = draft.version + 1
      BY <1>5, <2>2
    <3> QED BY <2>1, <3>1, <3>2, FS_AddElement DEF VersionInv
  <2>3. CASE ~(w = "changed" /\ saved[k] = "none")
    <3>1. {s \in SlotSet : saved'[s] = "changed"} = changed
      BY <1>2, <1>5, <2>3 DEF LoopTypes
    <3>2. draft' = draft
      BY <1>5, <2>3
    <3> QED BY <2>1, <3>1, <3>2 DEF VersionInv
  <2> QED BY <2>2, <2>3
<1>11. PlacesInv'
  BY <1>1, <1>3, <1>7, LoopConstants DEF LoopInv, PlacesInv, At, Handling, Snapping
<1>12. InputsInv'
  <2>1. \A s \in SlotSet : s = cp.calls => frozen[s] = {}
    BY <1>3 DEF LoopInv, InputsInv
  <2>2. ~At("prepared")' /\ ~At("top")'
    BY <1>7 DEF At
  <2> QED BY <1>1, <1>3, <2>1, <2>2 DEF LoopInv, InputsInv, At
<1>13. MarksInv'
  <2>1. \A x : Answered(x)' <=> Answered(x)
    BY <1>1 DEF Answered
  <2>2. Sound(m) /\ Marks(cp.loop, m)
    BY <1>2, <1>6, LikeL
  <2>3. L' = m
    BY <1>7 DEF L
  <2>4. Sound(cp.loop)' /\ Sound(L)' /\ Marks(cp.loop, L)'
    BY <1>1, <2>1, <2>2, <2>3 DEF Sound, Marks, LoopInv, MarksInv
  <2>5. ASSUME NEW s \in SlotSet, NEW l \in turn[s]
        PROVE  /\ Sound(l)' /\ Marks(l, cp.loop)' = Marks(l, cp.loop)
               /\ Marks(cp.loop, l)' = Marks(cp.loop, l)
    <3>1. Sound(l)
      BY <2>5 DEF LoopInv, MarksInv
    <3> QED BY <1>1, <2>1, <3>1 DEF Sound, Marks
  <2>6. \A s \in SlotSet :
          /\ \A l, n \in turn[s] : l = n
          /\ \A l \in turn[s] :
               /\ s + 1 < cp.calls \/ cp.pending = {} => Marks(l, cp.loop)
               /\ s + 1 = cp.calls /\ cp.pending # {} => Marks(cp.loop, l)
    BY DEF LoopInv, MarksInv
  <2>7. ~At("finished")' /\ status' # "succeeded"
    BY <1>1, <1>3, <1>7 DEF At
  <2> QED BY <1>1, <2>4, <2>5, <2>6, <2>7 DEF MarksInv
<1> QED BY <1>8, <1>9, <1>10, <1>11, <1>12, <1>13 DEF LoopInv

LEMMA LoopInit == ASSUME ConstantsOK, Untouched, status \in {"running", "failed"} PROVE LoopInv
<1>1. LoopTypes
  BY LoopTypesInit
<1>2. /\ cp = FirstCheckpoint /\ exec.at = "out"
      /\ frozen = [s \in SlotSet |-> {}] /\ called = [s \in SlotSet |-> {}]
      /\ answer = [s \in SlotSet |-> None]
      /\ draft.version = 0 /\ saved = [s \in SlotSet |-> "none"]
      /\ visual = [c \in Captures |-> [receipt |-> "none", shots |-> 0, image |-> FALSE]]
      /\ turn = [s \in SlotSet |-> {}]
  BY DEF Untouched
<1>3. cp.calls = 0 /\ cp.pending = {} /\ cp.loop = FirstLoop
  BY <1>2 DEF FirstCheckpoint
<1>4. CapturesInv
  BY <1>2 DEF CapturesInv, At
<1>5. VersionInv
  <2>1. {s \in SlotSet : saved[s] = "changed"} = {}
    BY <1>2
  <2> QED BY <1>2, <2>1, FS_EmptySet DEF VersionInv
<1>6. PlacesInv
  BY <1>2, <1>3 DEF PlacesInv, At, Handling, Snapping
<1>7. InputsInv
  <2>1. \A s \in SlotSet : s \in Nat
    BY DEF SlotSet
  <2> QED BY <1>2, <1>3, <2>1 DEF InputsInv, At, Snapping
<1>8. MarksInv
  <2>1. Sound(cp.loop)
    BY <1>3 DEF Sound, FirstLoop, Nothing
  <2> QED BY <1>2, <2>1 DEF MarksInv, At
<1> QED BY <1>1, <1>4, <1>5, <1>6, <1>7, <1>8 DEF LoopInv

LEMMA LoopStutter == ASSUME LoopInv, UNCHANGED vars PROVE LoopInv'
<1>1. /\ status' = status /\ article' = article /\ cp' = cp /\ frozen' = frozen /\ called' = called
      /\ answer' = answer /\ draft' = draft /\ saved' = saved /\ visual' = visual
      /\ turn' = turn /\ exec' = exec
  BY DEF vars, disk
<1>2. LoopTypes' /\ CapturesInv' /\ VersionInv' /\ PlacesInv'
  BY <1>1 DEF LoopInv, LoopTypes, CapturesInv, VersionInv, PlacesInv, At
<1>3. InputsInv'
  BY <1>1 DEF LoopInv, InputsInv, At
<1>4. MarksInv'
  BY <1>1 DEF LoopInv, MarksInv, At, L, Slot, Call, Sound, Marks, Answered, Published
<1> QED BY <1>2, <1>3, <1>4 DEF LoopInv

LEMMA LoopNext == ConstantsOK /\ LoopInv /\ [Next]_vars => LoopInv'
BY MovesInv, EndInv, RecoverTurnInv, PersistInv, ReserveInv, FinishTurnInv, GenerateInv,
   PrepareInv, SaveDraftInv, LoopStutter DEF Next, Step

LEMMA LoopInductive == ASSUME ConstantsOK PROVE Spec => []LoopInv
<1>1. Init => LoopInv
  BY LoopInit DEF Init
<1>2. LoopInv /\ [Next]_vars => LoopInv'
  BY LoopNext
<1> QED BY <1>1, <1>2, PTL DEF Spec

-----------------------------------------------------------------------------
(* The limits of the loop: calls, versions of the draft and calls in a row *)
(* that change nothing.                                                    *)

Within(l) == l.noProgress <= NoProgress /\ l.version <= Revisions
Calling == {"top", "answered", "written"} \cup Snapping

LimitsInv ==
  /\ leaves \in 0 .. MaxLeaves /\ cp.calls <= Slots /\ draft.version <= Revisions
  /\ Within(cp.loop) /\ Within(L) /\ \A s \in SlotSet : \A l \in turn[s] : Within(l)
  /\ \A s \in SlotSet : s >= cp.calls => saved[s] = "none"
  /\ At("prepared") => draft.version < Revisions /\ L.noProgress < NoProgress
  /\ cp.pending # {} =>
       /\ cp.loop.noProgress < NoProgress
       /\ \A p \in cp.pending : saved[p.slot] = "none" => draft.version < Revisions
       /\ exec.at \in Calling => L.noProgress < NoProgress

LEMMA LimitsInit == ASSUME ConstantsOK, Untouched, status \in {"running", "failed"} PROVE LimitsInv
<1>1. /\ leaves = 0 /\ cp = FirstCheckpoint /\ draft.version = 0 /\ exec.at = "out"
      /\ exec.mem = FirstCheckpoint /\ saved = [s \in SlotSet |-> "none"]
      /\ turn = [s \in SlotSet |-> {}]
  BY DEF Untouched
<1>2. cp.calls = 0 /\ cp.pending = {} /\ cp.loop = FirstLoop /\ L = FirstLoop
  BY <1>1 DEF FirstCheckpoint, L
<1>3. Within(FirstLoop)
  BY DEF Within, FirstLoop, ConstantsOK
<1> QED BY <1>1, <1>2, <1>3 DEF LimitsInv, ConstantsOK, At

\* A step that changes only the execution and its captures.
LEMMA LimitsMove ==
  ASSUME LimitsInv, UNCHANGED <<cp, draft, saved, turn>>, leaves' \in 0 .. MaxLeaves,
         exec'.at # "prepared", Within(exec'.mem.loop),
         cp.pending # {} /\ exec'.at \in Calling => exec'.mem.loop.noProgress < NoProgress
  PROVE  LimitsInv'
<1>1. cp' = cp /\ draft' = draft /\ saved' = saved /\ turn' = turn /\ L' = exec'.mem.loop
  BY DEF L
<1> QED BY <1>1 DEF LimitsInv, At, Within

LEMMA LimitsGoto ==
  ASSUME LoopInv, LimitsInv, UNCHANGED <<cp, draft, saved, turn>>, leaves' \in 0 .. MaxLeaves,
         NEW place \in Places \ {"prepared"}, Goto(place),
         place \in Calling => exec.at \in Calling
  PROVE  LimitsInv'
<1>1. exec'.at = place /\ exec'.mem = exec.mem
  BY GotoFacts DEF LoopInv
<1>2. Within(L) /\ (cp.pending # {} /\ exec.at \in Calling => L.noProgress < NoProgress)
  BY DEF LimitsInv
<1> QED BY <1>1, <1>2, LimitsMove DEF L

LEMMA LimitsGotoWith ==
  ASSUME LoopInv, LimitsInv, UNCHANGED <<cp, draft, saved, turn, leaves>>,
         NEW place \in Places \ {"prepared"}, NEW loop \in LoopSet, GotoWith(place, loop),
         Within(loop),
         cp.pending # {} /\ place \in Calling => loop.noProgress < NoProgress
  PROVE  LimitsInv'
<1>1. exec'.at = place /\ exec'.mem.loop = loop
  BY GotoWithFacts DEF LoopInv
<1>2. leaves' \in 0 .. MaxLeaves
  BY DEF LimitsInv
<1> QED BY <1>1, <1>2, LimitsMove

LEMMA CountLimits ==
  ASSUME ConstantsOK, NEW loop \in LoopSet, NEW progress \in BOOLEAN,
         loop.noProgress < NoProgress, loop.version <= Revisions
  PROVE  Count(loop, progress) \in LoopSet /\ Within(Count(loop, progress))
<1>1. NoProgress \in Nat /\ loop.noProgress \in Nat
  BY DEF ConstantsOK, LoopSet
<1>2. Count(loop, progress) = [loop EXCEPT !.noProgress = 0]
      \/ Count(loop, progress) = [loop EXCEPT !.noProgress = loop.noProgress + 1]
  BY DEF Count
<1>3. /\ [loop EXCEPT !.noProgress = 0].noProgress = 0
      /\ [loop EXCEPT !.noProgress = 0].version = loop.version
      /\ [loop EXCEPT !.noProgress = loop.noProgress + 1].noProgress = loop.noProgress + 1
      /\ [loop EXCEPT !.noProgress = loop.noProgress + 1].version = loop.version
  BY DEF LoopSet
<1>4. Count(loop, progress) \in LoopSet
  BY CountType
<1>5. Within([loop EXCEPT !.noProgress = 0])
  BY <1>1, <1>3 DEF Within
<1>6. Within([loop EXCEPT !.noProgress = loop.noProgress + 1])
  BY <1>1, <1>3 DEF Within
<1> QED BY <1>2, <1>4, <1>5, <1>6

LEMMA CandidateLimits ==
  ASSUME LoopInv, LimitsInv, NEW loop \in LoopSet, loop.version <= Revisions
  PROVE  /\ WithCandidate(loop) \in LoopSet /\ WithCandidate(loop).noProgress = loop.noProgress
         /\ WithCandidate(loop).version <= Revisions
<1>1. WithCandidate(loop) \in LoopSet
  BY CandidateType DEF LoopInv
<1>2. CASE Freezable(loop)
  <2>1. WithCandidate(loop) = [loop EXCEPT !.candidate = draft.items, !.version = draft.version]
    BY <1>2 DEF WithCandidate
  <2> QED BY <1>1, <2>1 DEF LoopSet, LimitsInv
<1>3. CASE ~Freezable(loop)
  <2>1. \E next \in SUBSET Parts : WithCandidate(loop) = [loop EXCEPT !.next = next]
    BY <1>3 DEF WithCandidate, Unread, LoopSet
  <2> QED BY <1>1, <2>1 DEF LoopSet
<1> QED BY <1>2, <1>3

\* What a step makes of the loop in hand.
LEMMA LoopInHand ==
  ASSUME LoopTypes, NEW place, NEW loop, NEW shoot,
         exec' = [exec EXCEPT !.at = place, !.shoot = shoot, !.mem.loop = loop]
         \/ exec' = [exec EXCEPT !.mem.loop = loop] \/ GotoWith(place, loop)
  PROVE  exec'.at \in {place, exec.at} /\ exec'.mem.loop = loop
<1>1. exec \in Execs /\ exec.mem \in Checkpoints
  BY LoopOfExec
<1>2. [exec.mem EXCEPT !.loop = loop].loop = loop
  BY <1>1 DEF Checkpoints
<1> QED BY <1>1, <1>2 DEF Execs, GotoWith

\* The bounds of what is compared.
LEMMA LimitTypes ==
  ASSUME ConstantsOK, LoopInv
  PROVE  /\ NoProgress \in Nat /\ Revisions \in Nat /\ Slots \in Nat /\ MaxLeaves \in Nat
         /\ L \in LoopSet /\ L.noProgress \in Nat /\ L.version \in Nat
         /\ draft.version \in Nat /\ cp.calls \in Nat
BY LoopOfExec DEF ConstantsOK, LoopInv, LoopTypes, LoopSet, Checkpoints

LEMMA LimitsAway ==
  ASSUME ConstantsOK, LoopInv, LimitsInv, Begin \/ Leave \/ Stop \/ Publish
  PROVE  LimitsInv'
<1>1. CASE Begin
  <2>1. /\ UNCHANGED <<cp, draft, saved, turn, leaves>> /\ exec' = [exec EXCEPT !.at = "top", !.mem = cp]
    BY <1>1 DEF Begin, disk
  <2>2. exec'.at = "top" /\ exec'.mem.loop = cp.loop
    BY <2>1, LoopOfExec DEF LoopInv, Execs
  <2> QED BY <2>1, <2>2, LimitsMove DEF LimitsInv
<1>2. CASE Leave
  <2>1. /\ UNCHANGED <<cp, draft, saved, turn>> /\ Goto("out") /\ leaves' \in 0 .. MaxLeaves
    BY <1>2, LimitTypes DEF Leave, disk, LimitsInv
  <2> QED BY <2>1, LimitsGoto DEF Places, Calling, Snapping
<1>3. CASE Stop \/ Publish
  <2>1. UNCHANGED <<cp, draft, saved, turn, leaves>> /\ Goto("out")
    BY <1>3 DEF Stop, Publish, disk
  <2>2. leaves' \in 0 .. MaxLeaves
    BY <2>1 DEF LimitsInv
  <2> QED BY <2>1, <2>2, LimitsGoto DEF Places, Calling, Snapping
<1> QED BY <1>1, <1>2, <1>3

LEMMA LimitsCaptures ==
  ASSUME ConstantsOK, LoopInv, LimitsInv,
         BeginCapture \/ OmitCapture \/ ReplayCapture \/ Shoot \/ EndCapture
  PROVE  LimitsInv'
<1>1. /\ exec.at \in Snapping /\ UNCHANGED <<cp, draft, saved, turn, leaves>>
      /\ leaves' \in 0 .. MaxLeaves
  BY DEF BeginCapture, OmitCapture, ReplayCapture, Shoot, EndCapture, At, Snapping, disk, LimitsInv
<1>2. CASE Goto("shooting") \/ Goto("shot")
  BY <1>1, <1>2, LimitsGoto DEF Places, Calling, Snapping
<1>3. ASSUME NEW new, Resume(new) PROVE LimitsInv'
  <2>1. exec \in Execs /\ exec.mem \in Checkpoints /\ L \in LoopSet
    BY LoopOfExec DEF LoopInv
  <2>2. PICK pixels : exec' = [exec EXCEPT
          !.at = IF exec.shoot = Overview THEN "top" ELSE "written",
          !.mem.loop = [L EXCEPT !.frames = @ \cup new, !.pixels = pixels, !.overview = TRUE]]
    BY <1>3 DEF Resume
  <2> DEFINE loop == [L EXCEPT !.frames = @ \cup new, !.pixels = pixels, !.overview = TRUE]
  <2>3. loop.noProgress = L.noProgress /\ loop.version = L.version
    BY <2>1 DEF LoopSet
  <2>4. exec'.at \in {"top", "written"} /\ exec'.mem.loop = loop
    BY <2>1, <2>2 DEF Execs, Checkpoints
  <2> HIDE DEF loop
  <2>5. Within(exec'.mem.loop)
    BY <2>3, <2>4 DEF Within, LimitsInv
  <2>6. cp.pending # {} => exec'.mem.loop.noProgress < NoProgress
    BY <1>1, <2>3, <2>4 DEF LimitsInv, Calling
  <2> QED BY <1>1, <2>4, <2>5, <2>6, LimitsMove
<1> QED BY <1>2, <1>3 DEF BeginCapture, OmitCapture, ReplayCapture, Shoot, EndCapture

LEMMA LimitsCall ==
  ASSUME ConstantsOK, LoopInv, LimitsInv,
         PrepareFrames \/ Generate \/ GenerateFails \/ Complete \/ ApplyOther
  PROVE  LimitsInv'
<1>1. /\ UNCHANGED <<cp, draft, saved, turn, leaves>> /\ leaves' \in 0 .. MaxLeaves
  BY DEF PrepareFrames, Generate, GenerateFails, Complete, ApplyOther, disk, LimitsInv
<1>2. L \in LoopSet /\ exec \in Execs /\ exec.mem \in Checkpoints /\ LoopTypes
  BY LoopOfExec DEF LoopInv
<1>3. Within(L) /\ (cp.pending # {} /\ exec.at \in Calling => L.noProgress < NoProgress)
  BY DEF LimitsInv
<1>4. CASE PrepareFrames
  <2>1. PICK there :
          \/ exec' = [exec EXCEPT !.mem.loop.frames = there, !.mem.loop.overview = TRUE]
          \/ exec' = [exec EXCEPT !.at = "visual", !.shoot = Overview]
    BY <1>4 DEF PrepareFrames
  <2>2. exec.at = "top" /\ cp.pending = {}
    BY <1>4 DEF PrepareFrames, Ready, At, LoopInv, PlacesInv
  <2>3. CASE exec' = [exec EXCEPT !.at = "visual", !.shoot = Overview]
    <3>1. exec'.at = "visual" /\ exec'.mem.loop = L
      BY <1>2, <2>3 DEF Execs, L
    <3> QED BY <1>1, <1>3, <2>2, <3>1, LimitsMove
  <2>4. CASE exec' = [exec EXCEPT !.mem.loop.frames = there, !.mem.loop.overview = TRUE]
    <3> DEFINE loop == [L EXCEPT !.frames = there, !.overview = TRUE]
    <3>1. loop.noProgress = L.noProgress /\ loop.version = L.version
      BY <1>2 DEF LoopSet
    <3>2. exec' = [exec EXCEPT !.mem.loop = loop]
      BY <1>2, <2>4 DEF Execs, Checkpoints, L, LoopSet
    <3> HIDE DEF loop
    <3>3. exec'.at = "top" /\ exec'.mem.loop = loop
      BY <1>2, <2>2, <3>2, LoopInHand DEF Execs
    <3> QED BY <1>1, <1>3, <2>2, <3>1, <3>3, LimitsMove DEF Within
  <2> QED BY <2>1, <2>3, <2>4
<1>5. CASE Generate
  <2>1. /\ exec.at = "top"
        /\ \E r, s : GotoWith("answered", [L EXCEPT !.read = r, !.seen = s])
    BY <1>5 DEF Generate, Generates, At
  <2>2. PICK loop : /\ loop.noProgress = L.noProgress /\ loop.version = L.version
                    /\ GotoWith("answered", loop)
    <3>1. PICK r, s : GotoWith("answered", [L EXCEPT !.read = r, !.seen = s])
      BY <2>1
    <3>2. /\ [L EXCEPT !.read = r, !.seen = s].noProgress = L.noProgress
          /\ [L EXCEPT !.read = r, !.seen = s].version = L.version
      BY <1>2 DEF LoopSet
    <3> QED BY <3>1, <3>2
  <2>3. exec'.at = "answered" /\ exec'.mem.loop = loop
    BY <1>2, <2>2, LoopInHand DEF GotoWith, Execs
  <2> QED BY <1>1, <1>3, <2>1, <2>2, <2>3, LimitsMove DEF Within, Calling
<1>6. CASE GenerateFails
  <2>1. /\ exec.at = "top" /\ cp.pending # {}
        /\ \/ GotoWith("applied", [L EXCEPT !.noProgress = @ + 1])
           \/ GotoWith("applied", [L EXCEPT !.closed = TRUE, !.pixels = {}])
    BY <1>6 DEF GenerateFails, Generates, At, LoopInv, PlacesInv
  <2>2. /\ exec'.mem.loop.noProgress \in {L.noProgress, L.noProgress + 1}
        /\ exec'.mem.loop.version = L.version /\ exec'.at = "applied"
    <3>1. ASSUME NEW loop, loop.noProgress \in {L.noProgress, L.noProgress + 1},
                 loop.version = L.version, GotoWith("applied", loop)
          PROVE  /\ exec'.mem.loop.noProgress \in {L.noProgress, L.noProgress + 1}
                 /\ exec'.mem.loop.version = L.version /\ exec'.at = "applied"
      <4>1. exec'.at = "applied" /\ exec'.mem.loop = loop
        BY <1>2, <3>1, LoopInHand DEF GotoWith, Execs
      <4> QED BY <3>1, <4>1
    <3>2. CASE GotoWith("applied", [L EXCEPT !.noProgress = @ + 1])
      <4> DEFINE loop == [L EXCEPT !.noProgress = @ + 1]
      <4>1. loop.noProgress = L.noProgress + 1 /\ loop.version = L.version
        BY <1>2 DEF LoopSet
      <4>2. GotoWith("applied", loop)
        BY <3>2
      <4> HIDE DEF loop
      <4> QED BY <3>1, <4>1, <4>2
    <3>3. CASE GotoWith("applied", [L EXCEPT !.closed = TRUE, !.pixels = {}])
      <4> DEFINE loop == [L EXCEPT !.closed = TRUE, !.pixels = {}]
      <4>1. loop.noProgress = L.noProgress /\ loop.version = L.version
        BY <1>2 DEF LoopSet
      <4>2. GotoWith("applied", loop)
        BY <3>3
      <4> HIDE DEF loop
      <4> QED BY <3>1, <4>1, <4>2
    <3> QED BY <2>1, <3>2, <3>3
  <2>3. L.noProgress < NoProgress
    BY <1>3, <2>1 DEF Calling
  <2>4. Within(exec'.mem.loop)
    BY <1>3, <2>2, <2>3, LimitTypes DEF Within
  <2> QED BY <1>1, <2>2, <2>4, LimitsMove DEF Calling, Snapping
<1>7. ASSUME NEW loop \in LoopSet, NEW progress \in BOOLEAN, loop.noProgress = L.noProgress,
             loop.version <= Revisions, GotoWith("applied", Count(loop, progress)),
             exec.at \in {"answered", "written"}
      PROVE  LimitsInv'
  <2>1. L.noProgress < NoProgress
    BY <1>2, <1>3, <1>7, HandledCall DEF Calling, Handling, LoopInv
  <2>2. Count(loop, progress) \in LoopSet /\ Within(Count(loop, progress))
    BY <1>7, <2>1, CountLimits
  <2> QED BY <1>1, <1>7, <2>2, LimitsGotoWith DEF Places, Handling, Calling, Snapping
<1>8. /\ L.version <= Revisions /\ WithCandidate(L) \in LoopSet
      /\ WithCandidate(L).noProgress = L.noProgress /\ WithCandidate(L).version <= Revisions
  BY <1>2, <1>3, CandidateLimits DEF Within
<1>9. CASE Complete
  <2>1. PICK progress \in BOOLEAN : /\ exec.at = "written"
                                    /\ GotoWith("applied", Count(WithCandidate(L), progress))
                                       \/ GotoWith("applied", Count(L, progress))
    BY <1>9 DEF Complete, At
  <2> QED BY <1>2, <1>7, <1>8, <2>1
<1>10. CASE ApplyOther
  <2>1. exec.at = "answered"
    BY <1>10 DEF ApplyOther, At
  <2>2. CASE GotoWith("applied", Count(WithCandidate(L), Freezable(L)))
    <3>1. Freezable(L) \in BOOLEAN
      BY DEF Freezable, Valid
    <3> QED BY <1>7, <1>8, <2>1, <2>2, <3>1
  <2>3. ASSUME NEW loop \in LoopSet, loop.noProgress = L.noProgress, loop.version = L.version,
               GotoWith("applied", Count(loop, FALSE))
        PROVE  LimitsInv'
    BY <1>7, <1>8, <2>1, <2>3
  <2>4. ASSUME NEW part \in Parts, GotoWith("applied", Count([L EXCEPT !.next = {part}], FALSE))
        PROVE  LimitsInv'
    <3>1. /\ [L EXCEPT !.next = {part}] \in LoopSet
          /\ [L EXCEPT !.next = {part}].noProgress = L.noProgress
          /\ [L EXCEPT !.next = {part}].version = L.version
      BY <1>2 DEF LoopSet
    <3> QED BY <2>3, <2>4, <3>1
  <2>5. ASSUME NEW frame, GotoWith("applied", Count([L EXCEPT !.pixels = @ \cup ({frame} \cap L.frames)], FALSE))
        PROVE  LimitsInv'
    <3> DEFINE loop == [L EXCEPT !.pixels = @ \cup ({frame} \cap L.frames)]
    <3>1. loop \in LoopSet /\ loop.noProgress = L.noProgress /\ loop.version = L.version
      BY <1>2 DEF LoopSet
    <3> HIDE DEF loop
    <3>2. GotoWith("applied", Count(loop, FALSE))
      BY <2>5 DEF loop
    <3> QED BY <2>3, <3>1, <3>2
  <2>6. CASE GotoWith("applied", Count(L, FALSE))
    BY <1>2, <2>3, <2>6
  <2>7. CASE GotoWith("applied", Count([L EXCEPT !.recovering = TRUE], FALSE))
    <3>1. /\ [L EXCEPT !.recovering = TRUE] \in LoopSet
          /\ [L EXCEPT !.recovering = TRUE].noProgress = L.noProgress
          /\ [L EXCEPT !.recovering = TRUE].version = L.version
      BY <1>2 DEF LoopSet
    <3> QED BY <2>3, <2>7, <3>1
  <2>8. CASE exec' = [exec EXCEPT !.at = "visual", !.shoot = Slot]
    <3>1. exec'.at = "visual" /\ exec'.mem.loop = L
      BY <1>2, <2>8 DEF Execs, L
    <3> QED BY <1>1, <1>3, <2>1, <3>1, LimitsMove DEF Calling
  <2>9. answer[Slot].tool = "read" => answer[Slot].part \in Parts
    <3>1. answer[Slot] \in Answers \cup {None}
      BY <1>2, <2>1, HandledCall DEF LoopInv, LoopTypes, Handling
    <3> QED BY <3>1, AnswerFields
  <2> QED BY <1>10, <2>2, <2>4, <2>5, <2>6, <2>7, <2>8, <2>9 DEF ApplyOther
<1> QED BY <1>4, <1>5, <1>6, <1>9, <1>10

LEMMA LimitsReserved ==
  ASSUME ConstantsOK, LoopInv, LimitsInv, Prepare \/ Reserve
  PROVE  LimitsInv'
<1>1. L \in LoopSet /\ exec \in Execs /\ exec.mem \in Checkpoints /\ LoopTypes
      /\ NoProgress \in Nat /\ L.noProgress \in Nat
  BY LoopOfExec, LimitTypes DEF LoopInv
<1>2. CASE Prepare
  <2>1. /\ exec.at = "top" /\ draft.version < Revisions /\ L.noProgress < NoProgress
        /\ UNCHANGED <<cp, draft, saved, turn, leaves>>
        /\ \E call : exec' = [exec EXCEPT !.at = "prepared", !.mem.pending = call,
              !.mem.loop.next = {}, !.mem.loop.pixels = {}]
    BY <1>2 DEF Prepare, Ready, At
  <2>2. PICK call : exec' = [exec EXCEPT !.at = "prepared", !.mem.pending = call,
          !.mem.loop.next = {}, !.mem.loop.pixels = {}]
    BY <2>1
  <2> DEFINE loop == [L EXCEPT !.next = {}, !.pixels = {}]
  <2>3. loop.noProgress = L.noProgress /\ loop.version = L.version
    BY <1>1 DEF LoopSet
  <2>4. exec'.at = "prepared" /\ exec'.mem.loop = loop
    BY <1>1, <2>2 DEF Execs, Checkpoints, L
  <2> HIDE DEF loop
  <2>5. L' = loop /\ ~(exec'.at \in Calling)
    BY <2>4 DEF L, Calling, Snapping
  <2> QED BY <2>1, <2>3, <2>4, <2>5 DEF LimitsInv, Within, At
<1>3. CASE Reserve
  <2>1. /\ At("prepared") /\ cp' = Reserved /\ exec' = [exec EXCEPT !.at = "top", !.mem = Reserved]
        /\ UNCHANGED <<draft, saved, turn, leaves>>
    BY <1>3 DEF Reserve
  <2>2. PICK p \in CallSet : exec.mem.pending = {p} /\ p.slot = cp.calls
    BY <2>1 DEF LoopInv, PlacesInv
  <2>3. p.slot \in SlotSet /\ cp.calls < Slots /\ cp.calls \in Nat /\ Slots \in Nat
        /\ exec.mem.calls = cp.calls /\ SlotSet \subseteq Nat
    BY <1>1, <2>1, <2>2, LimitTypes DEF CallSet, SlotSet, LoopInv, PlacesInv, At
  <2>4. cp'.calls = cp.calls + 1 /\ cp'.pending = {p} /\ cp'.loop = L
    BY <1>1, <2>1, <2>2, <2>3 DEF Reserved, Checkpoints, L
  <2>5. exec'.at = "top" /\ L' = L
    BY <1>1, <2>1, <2>4 DEF Execs, L
  <2>6. draft.version < Revisions /\ L.noProgress < NoProgress
    BY <2>1 DEF LimitsInv
  <2> QED BY <2>1, <2>3, <2>4, <2>5, <2>6 DEF LimitsInv, Within, At
<1> QED BY <1>2, <1>3

LEMMA LimitsTurn ==
  ASSUME ConstantsOK, LoopInv, LimitsInv, RecoverTurn \/ FinishTurn \/ Persist
  PROVE  LimitsInv'
<1>1. L \in LoopSet /\ exec \in Execs /\ exec.mem \in Checkpoints /\ LoopTypes
  BY LoopOfExec DEF LoopInv
<1>2. UNCHANGED <<draft, saved, leaves>>
  BY DEF RecoverTurn, FinishTurn, Persist
<1>3. Slot \in SlotSet /\ exec.mem.calls = cp.calls
  <2>1. CASE RecoverTurn
    <3>1. At("top") /\ exec.mem.pending # {}
      BY <2>1 DEF RecoverTurn
    <3> QED BY <1>1, <3>1, PendingCall DEF LoopInv, At, PlacesInv
  <2>2. CASE FinishTurn \/ Persist
    BY <1>1, <2>2, HandledCall DEF FinishTurn, Persist, LoopInv, At, Handling
  <2> QED BY <2>1, <2>2
<1>4. CASE RecoverTurn
  <2>1. /\ cp' = Recovered /\ exec' = [exec EXCEPT !.mem = Recovered]
        /\ turn[Slot] # {} /\ turn' = turn /\ exec.at = "top"
    BY <1>4 DEF RecoverTurn, At
  <2>2. PICK l \in turn[Slot] : l = (CHOOSE m \in turn[Slot] : TRUE)
    BY <2>1
  <2>3. cp' = [calls |-> cp.calls, pending |-> {}, loop |-> l]
    BY <1>3, <2>1, <2>2 DEF Recovered
  <2>4. L' = l /\ exec'.at = "top"
    BY <1>1, <2>1, <2>3 DEF Execs, L
  <2>5. Within(l)
    BY <1>3 DEF LimitsInv
  <2> QED BY <1>2, <2>1, <2>3, <2>4, <2>5 DEF LimitsInv, Within, At
<1>5. CASE FinishTurn
  <2>1. /\ cp' = cp /\ turn' = [turn EXCEPT ![Slot] = {L}] /\ exec' = [exec EXCEPT !.at = "finished"]
    BY <1>5 DEF FinishTurn
  <2>2. L' = L /\ exec'.at = "finished" /\ Within(L)
    BY <1>1, <2>1 DEF Execs, L, LimitsInv
  <2>3. \A s \in SlotSet : \A l \in turn'[s] : l = L \/ l \in turn[s]
    BY <1>1, <1>3, <2>1 DEF LoopTypes
  <2>4. \A s \in SlotSet : \A l \in turn'[s] : Within(l)
    BY <2>2, <2>3 DEF LimitsInv
  <2> QED BY <1>2, <2>1, <2>2, <2>4 DEF LimitsInv, Within, At, Calling, Snapping
<1>6. CASE Persist
  <2>1. /\ cp' = [exec.mem EXCEPT !.pending = {}] /\ turn' = turn
        /\ exec' = [exec EXCEPT !.at = "top", !.mem.pending = {}]
    BY <1>6 DEF Persist
  <2>2. cp'.calls = cp.calls /\ cp'.pending = {} /\ cp'.loop = L
    BY <1>1, <1>3, <2>1 DEF Checkpoints, L
  <2>3. L' = L /\ exec'.at = "top" /\ Within(L)
    BY <1>1, <2>1 DEF Execs, Checkpoints, L, LimitsInv
  <2> QED BY <1>2, <2>1, <2>2, <2>3 DEF LimitsInv, Within, At
<1> QED BY <1>4, <1>5, <1>6

LEMMA LimitsSave == ASSUME ConstantsOK, LoopInv, LimitsInv, SaveDraft PROVE LimitsInv'
<1>1. L \in LoopSet /\ exec \in Execs /\ LoopTypes /\ exec.at = "answered"
      /\ UNCHANGED <<cp, turn, leaves>> /\ 0 <= Revisions
      /\ draft.version \in Nat /\ Revisions \in Nat /\ cp.calls \in Nat
  BY LoopOfExec, LimitTypes DEF LoopInv, SaveDraft, At
<1>2. /\ Slot \in SlotSet /\ Slot + 1 = cp.calls /\ cp.pending = {Call}
  BY <1>1, HandledCall DEF LoopInv, Handling
<1>3. PICK k \in SlotSet, w \in {Written}, item \in {answer[Slot].item} :
        /\ k = Slot
        /\ draft' = IF w = "changed" /\ saved[k] = "none"
                    THEN [version |-> draft.version + 1, items |-> draft.items \cup {item}] ELSE draft
        /\ saved' = [saved EXCEPT ![k] = w]
  BY <1>2 DEF SaveDraft
<1>4. k + 1 = cp.calls /\ \A p \in cp.pending : p.slot = k
  BY <1>2, <1>3 DEF Slot
<1>5. saved[k] = "none" => draft.version < Revisions
  BY <1>2, <1>4 DEF LimitsInv
<1>6. /\ saved'[k] # "none" /\ \A s \in SlotSet : s # k => saved'[s] = saved[s]
  <2>1. w # "none"
    BY <1>3 DEF Written
  <2> QED BY <1>1, <1>3, <2>1 DEF LoopTypes
<1>7. draft'.version <= Revisions
  BY <1>1, <1>3, <1>5 DEF LimitsInv
<1>8. exec'.at \in {"visual", "written"} /\ Within(L') /\ L'.noProgress = L.noProgress
  <2>1. PICK place \in {"visual", "written"}, loop \in {[L EXCEPT !.candidate = Nothing, !.version = 0], L} :
          exec' = [exec EXCEPT !.at = place, !.shoot = Slot, !.mem.loop = loop]
    BY DEF SaveDraft
  <2>2. loop.noProgress = L.noProgress /\ loop.version \in {0, L.version}
    BY <1>1, <2>1 DEF LoopSet
  <2>3. L' = loop
    BY <1>1, <2>1, LoopInHand DEF L
  <2>4. exec'.at = place
    BY <1>1, <2>1 DEF Execs
  <2> QED BY <1>1, <2>2, <2>3, <2>4 DEF Within, LimitsInv
<1>9. cp.pending # {} => L.noProgress < NoProgress
  BY <1>1 DEF LimitsInv, Calling
<1>10. \A s \in SlotSet : s >= cp.calls => saved'[s] = "none"
  <2>1. \A s \in SlotSet : s >= cp.calls => s # k
    BY <1>1, <1>4 DEF SlotSet
  <2> QED BY <1>6, <2>1 DEF LimitsInv
<1> QED BY <1>1, <1>4, <1>6, <1>7, <1>8, <1>9, <1>10 DEF LimitsInv, Within, At

LEMMA LimitsNext == ASSUME ConstantsOK, LoopInv, LimitsInv, [Next]_vars PROVE LimitsInv'
<1>1. CASE Next
  BY <1>1, LimitsAway, LimitsCaptures, LimitsCall, LimitsReserved, LimitsTurn, LimitsSave
     DEF Next, Step
<1>2. CASE UNCHANGED vars
  <2>1. /\ cp' = cp /\ draft' = draft /\ saved' = saved /\ turn' = turn /\ exec' = exec
        /\ leaves' = leaves
    BY <1>2 DEF vars, disk
  <2> QED BY <2>1 DEF LimitsInv, At, L, Within
<1> QED BY <1>1, <1>2

-----------------------------------------------------------------------------
(* A call may differ from the input that was frozen for its slot only if   *)
(* an execution ended between the two, and that is one slot for each.      *)

\* The slot's call is the one prepared now, and its input was frozen so.
Held(s) == At("prepared") /\ \E p \in exec.mem.pending : p.slot = s /\ frozen[s] = {p.input}

\* Slots that strayed, or whose frozen input no execution holds any longer.
Loose ==
  {s \in SlotSet : frozen[s] # {} /\ called[s] # frozen[s] /\ ~(called[s] = {} /\ Held(s))}

StrayInv == leaves \in Nat /\ Cardinality(Loose) <= leaves

LEMMA StrayInit == ASSUME ConstantsOK, Untouched PROVE StrayInv
<1>1. Loose = {}
  BY DEF Untouched, Loose
<1>2. leaves = 0
  BY DEF Untouched
<1> QED BY <1>1, <1>2, FS_EmptySet DEF StrayInv

LEMMA FewerLoose ==
  ASSUME ConstantsOK, StrayInv, Loose' \subseteq Loose, leaves' = leaves
  PROVE  StrayInv'
<1>1. IsFiniteSet(Loose)
  BY LoopConstants, FS_Subset DEF Loose
<1>2. Cardinality(Loose') <= Cardinality(Loose) /\ Cardinality(Loose) \in Nat
      /\ Cardinality(Loose') \in Nat
  BY <1>1, FS_Subset, FS_CardinalityType
<1> QED BY <1>2 DEF StrayInv

\* A prepared call is that of the next slot, which was not reserved.
LEMMA NextCall ==
  ASSUME LoopInv, At("prepared")
  PROVE  \E p \in CallSet : /\ exec.mem.pending = {p} /\ p.slot \in SlotSet
                            /\ called[p.slot] = {} /\ Call = p
<1>1. PICK p \in CallSet : exec.mem.pending = {p} /\ p.slot = cp.calls
  BY DEF LoopInv, PlacesInv
<1>2. p.slot \in SlotSet /\ cp.calls \in Nat
  BY DEF CallSet, LoopInv, LoopTypes, Checkpoints
<1>3. called[p.slot] = {}
  BY <1>1, <1>2 DEF LoopInv, InputsInv
<1> QED BY <1>1, <1>2, <1>3 DEF Call

LEMMA StrayLeave == ASSUME ConstantsOK, LoopInv, StrayInv, Leave PROVE StrayInv'
<1>1. UNCHANGED <<frozen, called>> /\ leaves' = leaves + 1
  BY DEF Leave, disk
<1>2. IsFiniteSet(Loose) /\ Cardinality(Loose) \in Nat
  BY LoopConstants, FS_Subset, FS_CardinalityType DEF Loose
<1>3. \E s : Loose' \subseteq Loose \cup {s}
  <2>1. CASE At("prepared")
    <3>1. PICK p \in CallSet : exec.mem.pending = {p}
      BY <2>1, NextCall
    <3>2. \A s \in SlotSet : s # p.slot => ~Held(s)
      BY <3>1 DEF Held
    <3> QED BY <1>1, <3>2 DEF Loose
  <2>2. CASE ~At("prepared")
    BY <1>1, <2>2 DEF Loose, Held
  <2> QED BY <2>1, <2>2
<1>4. PICK s : Loose' \subseteq Loose \cup {s}
  BY <1>3
<1>5. IsFiniteSet(Loose \cup {s}) /\ Cardinality(Loose \cup {s}) \in Nat
      /\ Cardinality(Loose \cup {s}) <= Cardinality(Loose) + 1
  BY <1>2, FS_AddElement, FS_CardinalityType
<1>6. Cardinality(Loose') <= Cardinality(Loose \cup {s}) /\ Cardinality(Loose') \in Nat
  BY <1>4, <1>5, FS_Subset, FS_CardinalityType
<1> QED BY <1>1, <1>2, <1>5, <1>6 DEF StrayInv

LEMMA StrayPrepare == ASSUME ConstantsOK, LoopInv, StrayInv, Prepare PROVE StrayInv'
<1>1. PICK input :
        LET k == exec.mem.calls IN
        /\ frozen' = [frozen EXCEPT ![k] = IF @ = {} THEN {input} ELSE @]
        /\ exec' = [exec EXCEPT !.at = "prepared",
              !.mem.pending = {[slot |-> k, input |-> input]},
              !.mem.loop.next = {}, !.mem.loop.pixels = {}]
  BY DEF Prepare
<1>2. At("top") /\ UNCHANGED <<called, leaves>>
  BY DEF Prepare, Ready
<1> DEFINE k == exec.mem.calls
           p == [slot |-> k, input |-> input]
<1>3. exec'.at = "prepared" /\ exec'.mem.pending = {p}
  BY <1>1, LoopOfExec DEF LoopInv, Execs, Checkpoints
<1>4. frozen \in [SlotSet -> SUBSET InputSet]
  BY DEF LoopInv, LoopTypes
<1>5. ASSUME NEW s \in Loose' PROVE s \in Loose
  <2>1. s \in SlotSet /\ called[s] # frozen'[s] /\ frozen'[s] # {} /\ ~(called[s] = {} /\ Held(s)')
    BY <1>2, <1>5 DEF Loose
  <2>2. frozen'[s] = frozen[s]
    <3>1. CASE s = k /\ frozen[k] = {}
      <4>1. frozen'[s] = {input}
        BY <1>1, <1>4, <2>1, <3>1
      <4>2. Held(s)'
        BY <1>3, <3>1, <4>1 DEF Held, At
      <4>3. called[s] = {}
        BY <2>1, <3>1 DEF LoopInv, InputsInv, PlacesInv, LoopTypes, Checkpoints, At, SlotSet
      <4> QED BY <2>1, <4>2, <4>3
    <3>2. CASE ~(s = k /\ frozen[k] = {})
      BY <1>1, <1>4, <2>1, <3>2
    <3> QED BY <3>1, <3>2
  <2>3. ~Held(s)
    BY <1>2 DEF Held, At
  <2> QED BY <2>1, <2>2, <2>3 DEF Loose
<1> QED BY <1>2, <1>5, FewerLoose

LEMMA StrayReserve == ASSUME ConstantsOK, LoopInv, StrayInv, Reserve PROVE StrayInv'
<1>1. At("prepared") /\ UNCHANGED <<frozen, leaves>>
      /\ called' = [called EXCEPT ![Slot] = {Call.input}]
  BY DEF Reserve
<1>2. PICK p \in CallSet : /\ exec.mem.pending = {p} /\ p.slot \in SlotSet
                          /\ called[p.slot] = {} /\ Call = p
  BY <1>1, NextCall
<1>3. /\ called'[p.slot] = {p.input}
      /\ \A s \in SlotSet : s # p.slot => called'[s] = called[s]
  BY <1>1, <1>2 DEF Slot, LoopInv, LoopTypes
<1>4. ASSUME NEW s \in Loose' PROVE s \in Loose
  <2>1. s \in SlotSet /\ called'[s] # frozen[s] /\ frozen[s] # {}
    BY <1>1, <1>4 DEF Loose
  <2>2. CASE s = p.slot
    <3>1. ~Held(s)
      BY <1>2, <1>3, <2>1, <2>2 DEF Held
    <3> QED BY <1>2, <2>1, <2>2, <3>1 DEF Loose
  <2>3. CASE s # p.slot
    <3>1. ~Held(s)
      BY <1>2, <2>3 DEF Held
    <3> QED BY <1>3, <2>1, <2>3, <3>1 DEF Loose
  <2> QED BY <2>2, <2>3
<1> QED BY <1>1, <1>4, FewerLoose

LEMMA StrayNext == ASSUME ConstantsOK, LoopInv, StrayInv, [Next]_vars PROVE StrayInv'
<1>1. CASE Leave \/ Prepare \/ Reserve
  BY <1>1, StrayLeave, StrayPrepare, StrayReserve
<1>2. CASE UNCHANGED vars
  <2>1. Loose' = Loose /\ leaves' = leaves
    BY <1>2 DEF vars, disk, Loose, Held, At
  <2> QED BY <2>1, FewerLoose
<1>3. CASE /\ ~(Leave \/ Prepare \/ Reserve) /\ Next
  <2>1. UNCHANGED <<frozen, called, leaves>> /\ ~At("prepared")
    BY <1>3 DEF Next, Step, Begin, Stop, PrepareFrames, RecoverTurn, Generate, Generates, GenerateFails,
       SaveDraft, Complete, ApplyOther, BeginCapture, OmitCapture, ReplayCapture, Shoot,
       EndCapture, FinishTurn, Persist, Publish, Ready, At, disk
  <2>2. Loose' \subseteq Loose
    BY <2>1 DEF Loose, Held
  <2> QED BY <2>1, <2>2, FewerLoose
<1> QED BY <1>1, <1>2, <1>3

-----------------------------------------------------------------------------
LEMMA CapturesFollow == LoopInv => CapturesOnce
BY DEF LoopInv, CapturesInv, CapturesOnce

LEMMA TurnsFollow == LoopInv => FinishedTurnsKept
<1> SUFFICES ASSUME LoopInv PROVE FinishedTurnsKept
  OBVIOUS
<1>1. ASSUME NEW s \in SlotSet, cp.calls > s + 1, NEW l \in turn[s]
      PROVE  l.read \subseteq cp.loop.read /\ l.seen \subseteq cp.loop.seen
  <2>1. s + 1 < cp.calls
    BY <1>1 DEF LoopInv, LoopTypes, Checkpoints, SlotSet
  <2> QED BY <1>1, <2>1 DEF LoopInv, MarksInv, Marks
<1> QED BY <1>1 DEF FinishedTurnsKept, LoopInv, VersionInv

LEMMA WholeFollows == LoopInv /\ StrayInv /\ ConstantsOK => PublishedWhole
<1> SUFFICES ASSUME LoopInv, StrayInv, ConstantsOK PROVE PublishedWhole
  OBVIOUS
<1>1. Cardinality(Strayed) <= leaves
  <2>1. Strayed \subseteq Loose
    <3>1. ASSUME NEW s \in SlotSet, called[s] # {} PROVE frozen[s] # {}
      <4>1. s \in Nat /\ cp.calls \in Nat
        BY DEF LoopInv, LoopTypes, Checkpoints, SlotSet
      <4>2. ~(s >= cp.calls)
        BY <3>1 DEF LoopInv, InputsInv
      <4>3. s < cp.calls
        BY <4>1, <4>2
      <4> QED BY <4>3 DEF LoopInv, InputsInv
    <3> QED BY <3>1 DEF Strayed, Loose
  <2>3. Loose \subseteq SlotSet /\ Strayed \subseteq SlotSet
    BY DEF Strayed, Loose
  <2>4. IsFiniteSet(Loose) /\ IsFiniteSet(Strayed)
    BY <2>3, LoopConstants, FS_Subset
  <2>2. Cardinality(Strayed) <= Cardinality(Loose) /\ Cardinality(Strayed) \in Nat
        /\ Cardinality(Loose) \in Nat
    BY <2>1, <2>4, FS_Subset, FS_CardinalityType
  <2> QED BY <2>2 DEF StrayInv
<1>2. ASSUME NEW x, Answered(x)
      PROVE  /\ x \in Parts => x \in PartsOf(called)
             /\ x \in FrameSet => x \in FramesOf(called)
  <2>0. PICK s \in SlotSet : answer[s] # None /\ \E i \in called[s] : x \in i.parts \cup i.frames
    BY <1>2 DEF Answered
  <2>1. PICK i \in called[s] : x \in i.parts \cup i.frames
    BY <2>0
  <2>2. i.parts \subseteq Parts /\ i.frames \subseteq FrameSet
    <3>1. called[s] \subseteq InputSet
      BY DEF LoopInv, LoopTypes
    <3> QED BY <3>1 DEF InputSet
  <2>3. Parts \cap FrameSet = {}
    <3>1. N \in Nat /\ Slots \in Nat
      BY LoopConstants
    <3>2. ASSUME NEW c \in Captures PROVE Frame(c) > N /\ Frame(c) \in Nat
      <4>1. c \in Nat
        BY <3>1 DEF Captures, SlotSet, Overview
      <4> QED BY <3>1, <4>1 DEF Frame
    <3>3. ASSUME NEW f \in FrameSet, f \in Parts PROVE FALSE
      BY <3>1, <3>2, <3>3 DEF FrameSet, Parts
    <3> QED BY <3>3
  <2>4. s \in Sent /\ i \in UNION {called[t] : t \in Sent}
    BY <2>0 DEF Sent
  <2>5. x \in i.parts => x \in PartsOf(called)
    BY <2>4 DEF PartsOf
  <2>6. x \in i.frames => x \in FramesOf(called)
    BY <2>4 DEF FramesOf
  <2> QED BY <2>1, <2>2, <2>3, <2>5, <2>6
<1>3. CASE status = "succeeded"
  <2>1. article = draft.items /\ article # Nothing /\ \A x \in Published : Answered(x)
    BY <1>3 DEF LoopInv, MarksInv
  <2> QED BY <1>1, <1>2, <2>1 DEF PublishedWhole, Published
<1> QED BY <1>1, <1>3 DEF PublishedWhole

LEMMA LimitsTyped == ConstantsOK /\ LoopInv /\ LimitsInv => TypeOK
<1> SUFFICES ASSUME ConstantsOK, LoopInv, LimitsInv PROVE TypeOK
  OBVIOUS
<1>1. /\ LoopTypes /\ L \in LoopSet /\ cp.loop \in LoopSet /\ cp \in Checkpoints
      /\ NoProgress \in Nat /\ Revisions \in Nat /\ Slots \in Nat
  BY LoopOfExec, LimitTypes DEF LoopInv
<1>2. \A l \in LoopSet : Within(l) => l \in Loops
  BY <1>1 DEF LoopSet, Loops, Within
<1>3. cp.loop \in Loops /\ exec.mem.loop \in Loops
  BY <1>1, <1>2 DEF LimitsInv, L
<1>4. cp.calls \in 0 .. Slots /\ draft.version \in 0 .. Revisions
      /\ draft.items \subseteq Parts \cup FrameSet
  BY <1>1 DEF LimitsInv, LoopTypes, Checkpoints
<1>5. cp.pending = {} \/ \E p \in cp.pending : cp.pending = {p} /\ p.slot \in SlotSet
  BY DEF LoopInv, PlacesInv, CallSet
<1>6. ASSUME NEW S, \A x, y \in S : x = y PROVE Cardinality(S) <= 1
  <2>1. CASE S = {}
    BY <2>1, FS_EmptySet
  <2>2. CASE S # {}
    <3>1. PICK x \in S : S = {x}
      BY <1>6, <2>2
    <3> QED BY <3>1, FS_Singleton
  <2> QED BY <2>1, <2>2
<1>7. \A s \in SlotSet : /\ Cardinality(frozen[s]) <= 1 /\ Cardinality(called[s]) <= 1
                        /\ Cardinality(turn[s]) <= 1
  BY <1>6 DEF LoopInv, InputsInv, MarksInv
<1> QED BY <1>1, <1>3, <1>4, <1>5, <1>7 DEF TypeOK, LoopTypes, LimitsInv

(* No capture is made twice, however often its execution is interrupted: a *)
(* capture begins after its receipt was written (captureDeliveryVisual).   *)
THEOREM CapturedOnce == ASSUME ConstantsOK PROVE Spec => []CapturesOnce
BY CapturesFollow, LoopInductive, PTL

(* A turn that was finished is never forgotten: its marks are in every     *)
(* later checkpoint, and the version of the draft counts the slots that    *)
(* changed it (FinishTurn, RecoverTurn and SaveArticleDraft).              *)
THEOREM TurnsAreKept == ASSUME ConstantsOK PROVE Spec => []FinishedTurnsKept
BY TurnsFollow, LoopInductive, PTL

(* What publishLoopCandidate publishes is the latest draft, not empty, and *)
(* every part of the transcript and every frame it cites was in a call     *)
(* that the model answered.  The call is the input that was frozen for its *)
(* slot, but in as many slots as executions ended early (runArticleLoop    *)
(* goes on with the call it prepared whatever freezeModelInput returned).  *)
THEOREM WholePublished == ASSUME ConstantsOK PROVE Spec => []PublishedWhole
<1>1. Init => StrayInv
  BY StrayInit DEF Init
<1>2. LoopInv /\ StrayInv /\ [Next]_vars => StrayInv'
  BY StrayNext
<1>3. LoopInv /\ StrayInv => PublishedWhole
  BY WholeFollows
<1> QED BY <1>1, <1>2, <1>3, LoopInductive, PTL DEF Spec

(* TypeOK, with its bounds: the loop reserves at most Slots calls, makes   *)
(* at most Revisions versions of its draft and at most NoProgress calls in *)
(* a row that change nothing, over every execution (runArticleLoop, which  *)
(* compares them before it prepares a call).                               *)
THEOREM LoopTypeCorrect == ASSUME ConstantsOK PROVE Spec => []TypeOK
<1>1. Init => LimitsInv
  BY LimitsInit DEF Init
<1>2. LoopInv /\ LimitsInv /\ [Next]_vars => LimitsInv'
  BY LimitsNext
<1>3. LoopInv /\ LimitsInv => TypeOK
  BY LimitsTyped
<1> QED BY <1>1, <1>2, <1>3, LoopInductive, PTL DEF Spec

-----------------------------------------------------------------------------
(* The composition: what is proved of the parts holds beside the others.   *)

\* The proofs about tasks and calls, for those of ModelWork.
Checking == INSTANCE PaidTasksProofs WITH
  Tasks <- Checks, Kind <- [t \in Checks |-> "probe"], About <- ModelOf,
  MaxLive <- CheckLimit, exec <- worked, calls <- paid
Reviewing == INSTANCE PaidTasksProofs WITH
  Tasks <- Jobs, Kind <- [t \in Jobs |-> "review"], About <- ArticleOf,
  MaxLive <- JobLimit, exec <- worked, calls <- paid
Asking == INSTANCE PaidTasksProofs WITH
  Tasks <- Jobs, Kind <- [t \in Jobs |-> "questions"], About <- ArticleOf,
  MaxLive <- JobLimit, exec <- worked, calls <- paid
Spends == INSTANCE ModelCallsProofs WITH frozen <- asked, exec <- caller
Routed == INSTANCE ModelCallsProofs WITH
  Calls <- FewCalls, Routes <- Suppliers, BaseSends <- FewSends, Ceiling <- LargeCeiling,
  MaxEpoch <- ManyEpochs, run <- run2, eligible <- eligible2, frozen <- asked2,
  op <- op2, sent <- sent2, exec <- caller2

\* Two instances of one module are the same.
LEMMA CheckStart ==
  /\ Probe!ConstantsOK => Checking!ConstantsOK
  /\ Probe!Init => Checking!Init
BY DEF
  Probe!ConstantsOK, Checking!ConstantsOK, Probe!Init, Checking!Init,
  Probe!IsFiniteSet, Checking!IsFiniteSet, Probe!NoRow, Checking!NoRow, Probe!NoExec,
  Checking!NoExec

LEMMA CheckSteps == Probe!Next => Checking!Next
BY DEF
  Probe!Next, Checking!Next, Probe!Pending, Checking!Pending, Probe!Create,
  Checking!Create, Probe!QueueUnasked, Checking!QueueUnasked, Probe!Claim,
  Checking!Claim, Probe!ClaimBusy, Checking!ClaimBusy, Probe!ClaimNothing,
  Checking!ClaimNothing, Probe!Touch, Checking!Touch, Probe!BeginSubmission,
  Checking!BeginSubmission, Probe!Send, Checking!Send, Probe!Answer, Checking!Answer,
  Probe!Interrupt, Checking!Interrupt, Probe!Finish, Checking!Finish, Probe!Dies,
  Checking!Dies, Probe!Redeliver, Checking!Redeliver, Probe!Drop, Checking!Drop,
  Probe!DeadlinePasses, Checking!DeadlinePasses, Probe!Silence, Checking!Silence,
  Probe!Expire, Checking!Expire, Probe!Cardinality, Checking!Cardinality, Probe!Live,
  Checking!Live, Probe!Queued, Checking!Queued, Probe!Claimable, Checking!Claimable,
  Probe!Busy, Checking!Busy, Probe!Waiting, Checking!Waiting, Probe!vars,
  Checking!vars, Probe!Fence, Checking!Fence, Probe!SendLimit, Checking!SendLimit,
  Probe!End, Checking!End, Probe!Ending, Checking!Ending, Probe!NoExec,
  Checking!NoExec, Probe!Overdue, Checking!Overdue, Probe!Expired, Checking!Expired,
  Probe!IsFiniteSet, Checking!IsFiniteSet, Probe!NoRow, Checking!NoRow, Probe!Cut,
  Checking!Cut

LEMMA CheckHolds ==
  /\ Checking!TypeOK => Probe!TypeOK
  /\ Checking!ReportsAreTrue => Probe!ReportsAreTrue
BY DEF
  Probe!TypeOK, Checking!TypeOK, Probe!ReportsAreTrue, Checking!ReportsAreTrue,
  Probe!Waiting, Checking!Waiting, Probe!Ended, Checking!Ended, Probe!Cut, Checking!Cut

LEMMA ReviewStart ==
  /\ Reviews!ConstantsOK => Reviewing!ConstantsOK
  /\ Reviews!Init => Reviewing!Init
BY DEF
  Reviews!ConstantsOK, Reviewing!ConstantsOK, Reviews!Init, Reviewing!Init,
  Reviews!IsFiniteSet, Reviewing!IsFiniteSet, Reviews!NoRow, Reviewing!NoRow,
  Reviews!NoExec, Reviewing!NoExec

LEMMA ReviewSteps == Reviews!Next => Reviewing!Next
BY DEF
  Reviews!Next, Reviewing!Next, Reviews!Pending, Reviewing!Pending, Reviews!Create,
  Reviewing!Create, Reviews!QueueUnasked, Reviewing!QueueUnasked, Reviews!Claim,
  Reviewing!Claim, Reviews!ClaimBusy, Reviewing!ClaimBusy, Reviews!ClaimNothing,
  Reviewing!ClaimNothing, Reviews!Touch, Reviewing!Touch, Reviews!BeginSubmission,
  Reviewing!BeginSubmission, Reviews!Send, Reviewing!Send, Reviews!Answer,
  Reviewing!Answer, Reviews!Interrupt, Reviewing!Interrupt, Reviews!Finish,
  Reviewing!Finish, Reviews!Dies, Reviewing!Dies, Reviews!Redeliver,
  Reviewing!Redeliver, Reviews!Drop, Reviewing!Drop, Reviews!DeadlinePasses,
  Reviewing!DeadlinePasses, Reviews!Silence, Reviewing!Silence, Reviews!Expire,
  Reviewing!Expire, Reviews!Cardinality, Reviewing!Cardinality, Reviews!Live,
  Reviewing!Live, Reviews!Queued, Reviewing!Queued, Reviews!Claimable,
  Reviewing!Claimable, Reviews!Busy, Reviewing!Busy, Reviews!Waiting,
  Reviewing!Waiting, Reviews!vars, Reviewing!vars, Reviews!Fence, Reviewing!Fence,
  Reviews!SendLimit, Reviewing!SendLimit, Reviews!End, Reviewing!End, Reviews!Ending,
  Reviewing!Ending, Reviews!NoExec, Reviewing!NoExec, Reviews!Overdue,
  Reviewing!Overdue, Reviews!Expired, Reviewing!Expired, Reviews!IsFiniteSet,
  Reviewing!IsFiniteSet, Reviews!NoRow, Reviewing!NoRow, Reviews!Cut, Reviewing!Cut

LEMMA ReviewHolds ==
  /\ Reviewing!TypeOK => Reviews!TypeOK
  /\ Reviewing!ReportsAreTrue => Reviews!ReportsAreTrue
BY DEF
  Reviews!TypeOK, Reviewing!TypeOK, Reviews!ReportsAreTrue, Reviewing!ReportsAreTrue,
  Reviews!Waiting, Reviewing!Waiting, Reviews!Ended, Reviewing!Ended, Reviews!Cut,
  Reviewing!Cut

LEMMA QuestionStart ==
  /\ Questions!ConstantsOK => Asking!ConstantsOK
  /\ Questions!Init => Asking!Init
BY DEF
  Questions!ConstantsOK, Asking!ConstantsOK, Questions!Init, Asking!Init,
  Questions!IsFiniteSet, Asking!IsFiniteSet, Questions!NoRow, Asking!NoRow,
  Questions!NoExec, Asking!NoExec

LEMMA QuestionSteps == Questions!Next => Asking!Next
BY DEF
  Questions!Next, Asking!Next, Questions!Pending, Asking!Pending, Questions!Create,
  Asking!Create, Questions!QueueUnasked, Asking!QueueUnasked, Questions!Claim,
  Asking!Claim, Questions!ClaimBusy, Asking!ClaimBusy, Questions!ClaimNothing,
  Asking!ClaimNothing, Questions!Touch, Asking!Touch, Questions!BeginSubmission,
  Asking!BeginSubmission, Questions!Send, Asking!Send, Questions!Answer, Asking!Answer,
  Questions!Interrupt, Asking!Interrupt, Questions!Finish, Asking!Finish,
  Questions!Dies, Asking!Dies, Questions!Redeliver, Asking!Redeliver, Questions!Drop,
  Asking!Drop, Questions!DeadlinePasses, Asking!DeadlinePasses, Questions!Silence,
  Asking!Silence, Questions!Expire, Asking!Expire, Questions!Cardinality,
  Asking!Cardinality, Questions!Live, Asking!Live, Questions!Queued, Asking!Queued,
  Questions!Claimable, Asking!Claimable, Questions!Busy, Asking!Busy,
  Questions!Waiting, Asking!Waiting, Questions!vars, Asking!vars, Questions!Fence,
  Asking!Fence, Questions!SendLimit, Asking!SendLimit, Questions!End, Asking!End,
  Questions!Ending, Asking!Ending, Questions!NoExec, Asking!NoExec, Questions!Overdue,
  Asking!Overdue, Questions!Expired, Asking!Expired, Questions!IsFiniteSet,
  Asking!IsFiniteSet, Questions!NoRow, Asking!NoRow, Questions!Cut, Asking!Cut

LEMMA QuestionHolds ==
  /\ Asking!TypeOK => Questions!TypeOK
  /\ Asking!ReportsAreTrue => Questions!ReportsAreTrue
BY DEF
  Questions!TypeOK, Asking!TypeOK, Questions!ReportsAreTrue, Asking!ReportsAreTrue,
  Questions!Waiting, Asking!Waiting, Questions!Ended, Asking!Ended, Questions!Cut,
  Asking!Cut

LEMMA SpendStart ==
  /\ Spending!ConstantsOK => Spends!ConstantsOK
  /\ Spending!Init => Spends!Init
BY DEF
  Spending!ConstantsOK, Spends!ConstantsOK, Spending!Init, Spends!Init,
  Spending!IsFiniteSet, Spends!IsFiniteSet, Spending!Keys, Spends!Keys, Spending!NoOp,
  Spends!NoOp, Spending!Epochs, Spends!Epochs, Spending!NoExec, Spends!NoExec

LEMMA SpendSteps == Spending!Next => Spends!Next
BY DEF
  Spending!Next, Spends!Next, Spending!Epochs, Spends!Epochs, Spending!LookAtInput,
  Spends!LookAtInput, Spending!FreezeInput, Spends!FreezeInput, Spending!BeginCall,
  Spends!BeginCall, Spending!AskOutcome, Spends!AskOutcome, Spending!BeginSubmission,
  Spends!BeginSubmission, Spending!RoutesExhausted, Spends!RoutesExhausted,
  Spending!ScheduleRecovery, Spends!ScheduleRecovery, Spending!Send, Spends!Send,
  Spending!Answer, Spends!Answer, Spending!SaveResult, Spends!SaveResult,
  Spending!Checkpoint, Spends!Checkpoint, Spending!Interrupt, Spends!Interrupt,
  Spending!Keys, Spends!Keys, Spending!RecoveryDue, Spends!RecoveryDue, Spending!Claim,
  Spends!Claim, Spending!ChangeRoute, Spends!ChangeRoute, Spending!At, Spends!At,
  Spending!Fence, Spends!Fence, Spending!Go, Spends!Go, Spending!Leave, Spends!Leave,
  Spending!NextCall, Spends!NextCall, Spending!Known, Spends!Known, Spending!GiveUp,
  Spends!GiveUp, Spending!Affordable, Spends!Affordable, Spending!Limit, Spends!Limit,
  Spending!Cardinality, Spends!Cardinality, Spending!Base, Spends!Base,
  Spending!Observed, Spends!Observed, Spending!NoExec, Spends!NoExec, Spending!Rest,
  Spends!Rest, Spending!Spent, Spends!Spent, Spending!Max, Spends!Max, Spending!Min,
  Spends!Min, Spending!IsFiniteSet, Spends!IsFiniteSet, Spending!Submissions,
  Spends!Submissions

LEMMA SpendHolds ==
  /\ Spends!TypeOK => Spending!TypeOK
  /\ Spends!SpendBounded => Spending!SpendBounded
  /\ Spends!OneInputOneResult => Spending!OneInputOneResult
BY DEF
  Spending!TypeOK, Spends!TypeOK, Spending!SpendBounded, Spends!SpendBounded,
  Spending!OneInputOneResult, Spends!OneInputOneResult, Spending!Epochs, Spends!Epochs,
  Spending!Keys, Spends!Keys, Spending!Most, Spends!Most, Spending!Spent, Spends!Spent,
  Spending!Cardinality, Spends!Cardinality, Spending!Max, Spends!Max,
  Spending!Submissions, Spends!Submissions, Spending!IsFiniteSet, Spends!IsFiniteSet

LEMMA RouteStart ==
  /\ Routing!ConstantsOK => Routed!ConstantsOK
  /\ Routing!Init => Routed!Init
BY DEF
  Routing!ConstantsOK, Routed!ConstantsOK, Routing!Init, Routed!Init,
  Routing!IsFiniteSet, Routed!IsFiniteSet, Routing!Keys, Routed!Keys, Routing!NoOp,
  Routed!NoOp, Routing!Epochs, Routed!Epochs, Routing!NoExec, Routed!NoExec

LEMMA RouteSteps == Routing!Next => Routed!Next
BY DEF
  Routing!Next, Routed!Next, Routing!Epochs, Routed!Epochs, Routing!LookAtInput,
  Routed!LookAtInput, Routing!FreezeInput, Routed!FreezeInput, Routing!BeginCall,
  Routed!BeginCall, Routing!AskOutcome, Routed!AskOutcome, Routing!BeginSubmission,
  Routed!BeginSubmission, Routing!RoutesExhausted, Routed!RoutesExhausted,
  Routing!ScheduleRecovery, Routed!ScheduleRecovery, Routing!Send, Routed!Send,
  Routing!Answer, Routed!Answer, Routing!SaveResult, Routed!SaveResult,
  Routing!Checkpoint, Routed!Checkpoint, Routing!Interrupt, Routed!Interrupt,
  Routing!Keys, Routed!Keys, Routing!RecoveryDue, Routed!RecoveryDue, Routing!Claim,
  Routed!Claim, Routing!ChangeRoute, Routed!ChangeRoute, Routing!At, Routed!At,
  Routing!Fence, Routed!Fence, Routing!Go, Routed!Go, Routing!Leave, Routed!Leave,
  Routing!NextCall, Routed!NextCall, Routing!Known, Routed!Known, Routing!GiveUp,
  Routed!GiveUp, Routing!Affordable, Routed!Affordable, Routing!Limit, Routed!Limit,
  Routing!Cardinality, Routed!Cardinality, Routing!Base, Routed!Base, Routing!Observed,
  Routed!Observed, Routing!NoExec, Routed!NoExec, Routing!Rest, Routed!Rest,
  Routing!Spent, Routed!Spent, Routing!Max, Routed!Max, Routing!Min, Routed!Min,
  Routing!IsFiniteSet, Routed!IsFiniteSet, Routing!Submissions, Routed!Submissions

LEMMA RouteHolds ==
  /\ Routed!TypeOK => Routing!TypeOK
  /\ Routed!SpendBounded => Routing!SpendBounded
BY DEF
  Routing!TypeOK, Routed!TypeOK, Routing!SpendBounded, Routed!SpendBounded,
  Routing!Epochs, Routed!Epochs, Routing!Keys, Routed!Keys, Routing!Most, Routed!Most,
  Routing!Spent, Routed!Spent, Routing!Cardinality, Routed!Cardinality, Routing!Max,
  Routed!Max, Routing!Submissions, Routed!Submissions, Routing!IsFiniteSet,
  Routed!IsFiniteSet

\* Whether a call is repeated does not depend on the kind of the tasks.
LEMMA SameRepeats ==
  /\ Probe!RepeatsUnknown => Checking!RepeatsUnknown
  /\ Reviews!RepeatsUnknown => Reviewing!RepeatsUnknown /\ Asking!RepeatsUnknown
  /\ Spending!RepeatsKnown => Spends!RepeatsKnown
BY DEF Probe!RepeatsUnknown, Checking!RepeatsUnknown, Reviews!RepeatsUnknown,
       Reviewing!RepeatsUnknown, Asking!RepeatsUnknown, Spending!RepeatsKnown,
       Spends!RepeatsKnown, Spending!Keys, Spends!Keys

LEMMA SameAtFirst == Reviews!Init => Questions!Init
BY DEF Reviews!Init, Questions!Init, Reviews!NoRow, Questions!NoRow, Reviews!NoExec,
       Questions!NoExec

\* What is kept of the tasks of each case, and of the calls and the loop in every case.
WorkInv ==
  /\ case = "probe" => Checking!TaskInv
  /\ case = "reviews" => Reviewing!TaskInv
  /\ case = "questions" => Asking!TaskInv
  /\ Spends!CallInv /\ Spends!SpendInv /\ Spends!Few
  /\ Routed!CallInv /\ Routed!SpendInv /\ Routed!Few
  /\ LoopInv /\ LimitsInv /\ StrayInv

LEMMA WorkConstants ==
  /\ Checking!ConstantsOK /\ Reviewing!ConstantsOK /\ Asking!ConstantsOK
  /\ Spends!ConstantsOK /\ Routed!ConstantsOK /\ ConstantsOK
BY WorkAssumption, CheckStart, ReviewStart, QuestionStart, SpendStart, RouteStart

LEMMA WorkStart == WorkInit => WorkInv
<1> SUFFICES ASSUME WorkInit PROVE WorkInv
  OBVIOUS
<1>1. /\ case = "probe" => Checking!Init
      /\ case = "reviews" => Reviewing!Init
      /\ case = "questions" => Asking!Init
      /\ Spends!Init /\ Routed!Init
  BY SameAtFirst, CheckStart, ReviewStart, QuestionStart, SpendStart, RouteStart DEF WorkInit
<1>2. /\ case = "probe" => Checking!TaskInv
      /\ case = "reviews" => Reviewing!TaskInv
      /\ case = "questions" => Asking!TaskInv
  BY <1>1, WorkConstants, Checking!TaskInit, Reviewing!TaskInit, Asking!TaskInit
<1>3. Spends!CallInv /\ Spends!SpendInv /\ Spends!Few
  BY <1>1, WorkConstants, Spends!CallInit, Spends!SpendInit, Spends!FewInit
<1>4. Routed!CallInv /\ Routed!SpendInv /\ Routed!Few
  BY <1>1, WorkConstants, Routed!CallInit, Routed!SpendInit, Routed!FewInit
<1>5. LoopInv /\ LimitsInv /\ StrayInv
  <2>1. Untouched /\ status \in {"running", "failed"}
    BY DEF WorkInit
  <2> QED BY <2>1, WorkConstants, LoopInit, LimitsInit, StrayInit
<1> QED BY <1>2, <1>3, <1>4, <1>5 DEF WorkInv

\* Every component takes a step of its own or rests.
LEMMA WorkSteps ==
  ASSUME [WorkNext]_workVars
  PROVE  /\ case' = case
         /\ case = "probe" => [Checking!Next]_Checking!vars
         /\ case = "reviews" => [Reviewing!Next]_Reviewing!vars
         /\ case = "questions" => [Asking!Next]_Asking!vars
         /\ case \in {"probe", "reviews", "questions"} \/ UNCHANGED taskVars
         /\ [Spends!Next]_Spends!vars /\ [Routed!Next]_Routed!vars /\ [Next]_vars
<1>1. /\ case' = case
      /\ case = "probe" => Probe!Next \/ UNCHANGED taskVars
      /\ case = "reviews" => Reviews!Next \/ UNCHANGED taskVars
      /\ case = "questions" => Questions!Next \/ UNCHANGED taskVars
      /\ case \in {"probe", "reviews", "questions"} \/ UNCHANGED taskVars
      /\ Spending!Next \/ UNCHANGED spendVars
      /\ Routing!Next \/ UNCHANGED routeVars
      /\ [Next]_vars
  BY DEF WorkNext, workVars
<1>2. UNCHANGED taskVars =>
        UNCHANGED Checking!vars /\ UNCHANGED Reviewing!vars /\ UNCHANGED Asking!vars
  BY DEF taskVars, Checking!vars, Reviewing!vars, Asking!vars
<1>3. /\ UNCHANGED spendVars => UNCHANGED Spends!vars
      /\ UNCHANGED routeVars => UNCHANGED Routed!vars
  BY DEF spendVars, routeVars, Spends!vars, Routed!vars
<1> QED BY <1>1, <1>2, <1>3, CheckSteps, ReviewSteps, QuestionSteps, SpendSteps, RouteSteps

LEMMA WorkStep == WorkInv /\ [WorkNext]_workVars => WorkInv'
<1> SUFFICES ASSUME WorkInv, [WorkNext]_workVars PROVE WorkInv'
  OBVIOUS
<1>1. /\ case = "probe" => Checking!TaskInv'
      /\ case = "reviews" => Reviewing!TaskInv'
      /\ case = "questions" => Asking!TaskInv'
  BY WorkSteps, WorkConstants, Checking!TaskNext, Reviewing!TaskNext, Asking!TaskNext DEF WorkInv
<1>2. Spends!CallInv' /\ Spends!SpendInv' /\ Spends!Few'
  BY WorkSteps, WorkConstants, Spends!CallNext, Spends!SpendNext, Spends!FewNext DEF WorkInv
<1>3. Routed!CallInv' /\ Routed!SpendInv' /\ Routed!Few'
  BY WorkSteps, WorkConstants, Routed!CallNext, Routed!SpendNext, Routed!FewNext DEF WorkInv
<1>4. LoopInv' /\ LimitsInv' /\ StrayInv'
  BY WorkSteps, WorkConstants, LoopNext, LimitsNext, StrayNext DEF WorkInv
<1> QED BY <1>1, <1>2, <1>3, <1>4, WorkSteps DEF WorkInv

LEMMA WorkKept == WorkSpec => []WorkInv
BY WorkStart, WorkStep, PTL DEF WorkSpec

\* Beside all other work for models: what rows report of their calls is true, calls over
\* several suppliers keep to their bounds, and every component keeps its types.
THEOREM WorkIsSound == WorkSpec => []PaidWorkSound
<1>1. ASSUME WorkInv PROVE PaidWorkSound
  <2>1. /\ case = "probe" => Checking!TypeOK /\ Checking!ReportsAreTrue
        /\ case = "reviews" => Reviewing!TypeOK /\ Reviewing!ReportsAreTrue
        /\ case = "questions" => Asking!TypeOK /\ Asking!ReportsAreTrue
    BY <1>1, WorkConstants, Checking!RowsTrue, Reviewing!RowsTrue, Asking!RowsTrue DEF WorkInv
  <2>2. Spends!TypeOK /\ Routed!TypeOK /\ Routed!SpendBounded
    BY <1>1, WorkConstants, Spends!FewTyped, Routed!FewTyped, Routed!SpendSafe DEF WorkInv
  <2>3. TypeOK
    BY <1>1, WorkConstants, LimitsTyped DEF WorkInv
  <2> QED BY <2>1, <2>2, <2>3, CheckHolds, ReviewHolds, QuestionHolds, SpendHolds, RouteHolds
      DEF PaidWorkSound, TypesOK
<1> QED BY <1>1, WorkKept, PTL

\* A run never pays for more than its ceiling, nothing leaves uncounted, and only a few
\* calls get their one extra send.
THEOREM SpendingAmongAll == WorkSpec => []SpendBounded
<1>1. WorkInv => SpendBounded
  BY WorkConstants, Spends!SpendSafe, SpendHolds DEF WorkInv, SpendBounded
<1> QED BY <1>1, WorkKept, PTL

\* All that leaves for a call carries its frozen input, and all executions that go past
\* it have used one result.
THEOREM InputsAmongAll == WorkSpec => []OneInputOneResult
<1>1. WorkInv => OneInputOneResult
  <2>1. WorkInv => Spends!OneInputOneResult
    BY DEF WorkInv, Spends!CallInv, Spends!OneInputOneResult, Spends!KeyOK, Spends!ExecOK
  <2> QED BY <2>1, SpendHolds DEF OneInputOneResult
<1> QED BY <1>1, WorkKept, PTL

\* A recorded outcome is never paid for again.
THEOREM OutcomesAmongAll == WorkSpec => KnownOutcomeFinal
<1>1. WorkInv /\ [WorkNext]_workVars => [~Spending!RepeatsKnown]_spendVars
  BY WorkSteps, WorkConstants, Spends!KnownKept, SameRepeats DEF WorkInv
<1> QED BY <1>1, WorkKept, PTL DEF WorkSpec, KnownOutcomeFinal

\* No call is authorised while the outcome of the last one is unknown.
THEOREM RepeatsAmongAll == WorkSpec => NeverRepeatsUnknown
<1> DEFINE Once == IF case = "probe" THEN ~Probe!RepeatsUnknown ELSE ~Reviews!RepeatsUnknown
<1>1. WorkInv /\ [WorkNext]_workVars => [Once]_taskVars
  <2> SUFFICES ASSUME WorkInv, [WorkNext]_workVars, ~UNCHANGED taskVars PROVE Once
    OBVIOUS
  <2>1. CASE case = "probe"
    BY <2>1, WorkSteps, WorkConstants, Checking!NoRepeat, SameRepeats DEF WorkInv
  <2>2. CASE case = "reviews"
    BY <2>2, WorkSteps, WorkConstants, Reviewing!NoRepeat, SameRepeats DEF WorkInv
  <2>3. CASE case = "questions"
    BY <2>3, WorkSteps, WorkConstants, Asking!NoRepeat, SameRepeats DEF WorkInv
  <2> QED BY <2>1, <2>2, <2>3, WorkSteps
<1>2. NeverRepeatsUnknown <=> [][Once]_taskVars
  BY PTL DEF NeverRepeatsUnknown
<1> HIDE DEF Once
<1> QED BY <1>1, <1>2, WorkKept, PTL DEF WorkSpec

\* What is proved of the loop holds of it beside the others.
THEOREM LoopAmongAll ==
  WorkSpec => [](PublishedWhole /\ FinishedTurnsKept /\ CapturesOnce)
<1>1. WorkInv => PublishedWhole /\ FinishedTurnsKept /\ CapturesOnce
  BY WorkConstants, WholeFollows, TurnsFollow, CapturesFollow DEF WorkInv
<1> QED BY <1>1, WorkKept, PTL
=============================================================================

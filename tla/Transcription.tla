--------------------------- MODULE Transcription ---------------------------
(* Service.Transcribe: a feeder hands the windows of the audio to two      *)
(* workers over an unbuffered channel, a collector joins their results in  *)
(* source order.  The ledger of operations outlives the execution.         *)
EXTENDS Integers, SequencesExt

CONSTANTS
    Count,      \* windows of 60 s
    SendLimit,  \* 3: submissions of one operation
    MaxRuns     \* bound of the exploration: executions of the run

ConstantsOK == Count \in Nat \ {0} /\ SendLimit \in Nat \ {0} /\ MaxRuns \in Nat \ {0}

VARIABLES
    op,         \* of a window: its row in the ledger of operations
    call,       \* of the collector: next, pending, text, first error
    fed,        \* of the feeder: windows handed out, and whether it ended
    worker,     \* of a worker: phase, window, local sends
    results     \* the channel of capacity 2

vars == <<op, call, fed, worker, results>>

Windows == 0 .. Count - 1
Workers == 1 .. Min({2, Count})
Resting == [phase |-> "gone", window |-> 0, local |-> 0, failed |-> FALSE]
Blank == [phase |-> "ready", run |-> 0, next |-> 0, pending |-> {}, text |-> <<>>,
          failed |-> FALSE, cancelled |-> FALSE]

Init ==
    /\ op = [i \in Windows |-> [submissions |-> 0, done |-> FALSE]]
    /\ call = Blank /\ fed = [n |-> 0, open |-> FALSE]
    /\ worker = [w \in Workers |-> Resting] /\ results = <<>>

At(w, phase) == worker[w].phase = phase

\* An execution of the run reaches the transcription.
Start ==
    /\ call.phase = "ready" /\ call.run < MaxRuns /\ ~fed.open
    /\ call' = [Blank EXCEPT !.phase = "collect", !.run = call.run + 1]
    /\ fed' = [n |-> 0, open |-> TRUE]
    /\ worker' = [w \in Workers |-> [Resting EXCEPT !.phase = "idle"]]
    /\ UNCHANGED <<op, results>>

\* An unbuffered send and its receiver move together.
Feed(w) ==
    /\ fed.open /\ fed.n < Count /\ At(w, "idle")
    /\ worker' = [worker EXCEPT ![w] = [Resting EXCEPT !.phase = "cut", !.window = fed.n]]
    /\ fed' = [fed EXCEPT !.n = @ + 1]
    /\ UNCHANGED <<op, call, results>>

Deaf == fed.n = Count       \* mutant: the feeder does not hear the cancellation
FeederDone == fed.n = Count \/ call.cancelled
FeederEnds ==
    /\ fed.open /\ FeederDone
    /\ fed' = [fed EXCEPT !.open = FALSE] /\ UNCHANGED <<op, call, worker, results>>

WorkerEnds(w) ==
    /\ At(w, "idle") /\ ~fed.open
    /\ worker' = [worker EXCEPT ![w] = Resting] /\ UNCHANGED <<op, call, fed, results>>

Yield(w, failed) ==
    worker' = [worker EXCEPT ![w].phase = "result", ![w].failed = failed]

\* The checkpoint of an earlier execution, or ffmpeg cuts the window.
Cut(w) ==
    LET done == op[worker[w].window].done IN
    /\ At(w, "cut")
    /\ \/ done /\ ~call.cancelled /\ Yield(w, FALSE)
       \/ ~done /\ ~call.cancelled /\ worker' = [worker EXCEPT ![w].phase = "begin"]
       \/ Yield(w, TRUE)
    /\ UNCHANGED <<op, call, fed, results>>

\* BeginOperation counts the submission before it leaves.
Begin(w) ==
    LET i == worker[w].window IN
    /\ At(w, "begin")
    /\ \/ /\ ~call.cancelled /\ op[i].submissions < SendLimit
          /\ op' = [op EXCEPT ![i].submissions = @ + 1]
          /\ \/ worker' = [worker EXCEPT ![w].phase = "sent"]
             \/ Yield(w, TRUE)
       \/ Yield(w, TRUE) /\ UNCHANGED op
    /\ UNCHANGED <<call, fed, results>>

\* A result is recorded before it is used; the answer of the record may be lost.
Answer(w) ==
    /\ At(w, "sent") /\ ~call.cancelled
    /\ op' = [op EXCEPT ![worker[w].window].done = TRUE]
    /\ \E failed \in BOOLEAN : Yield(w, failed)
    /\ UNCHANGED <<call, fed, results>>

\* No answer: once more in this execution if it was the first submission ever.
Unanswered(w) ==
    /\ At(w, "sent")
    /\ IF op[worker[w].window].submissions < 2 /\ worker[w].local = 0
       THEN worker' = [worker EXCEPT ![w].phase = "begin", ![w].local = 1]
       ELSE Yield(w, TRUE)
    /\ UNCHANGED <<op, call, fed, results>>

\* Another status than 200, an answer that does not parse, a failed record.
Refused(w) ==
    /\ At(w, "sent") /\ Yield(w, TRUE)
    /\ UNCHANGED <<op, call, fed, results>>

\* After a cancellation the result is delivered or dropped.
Deliver(w) ==
    /\ At(w, "result")
    /\ \/ /\ Len(results) < 2
          /\ results' = Append(results, [window |-> worker[w].window, failed |-> worker[w].failed])
          /\ worker' = [worker EXCEPT ![w] =
                IF worker[w].failed THEN Resting ELSE [Resting EXCEPT !.phase = "idle"]]
       \/ /\ call.cancelled /\ worker' = [worker EXCEPT ![w] = Resting]
          /\ UNCHANGED results
    /\ UNCHANGED <<op, call, fed>>

AsTheyCome(got) ==                      \* mutant: results are joined on arrival
    [call EXCEPT !.text = @ \o SetToSeq(got), !.next = @ + Cardinality(got)]
\* What arrived is joined up to the first window that is still missing.
Joined(got) ==
    LET end == Max({n \in call.next .. Count : call.next .. n - 1 \subseteq got}) IN
    [call EXCEPT !.pending = got \ (call.next .. end - 1), !.next = end,
                 !.text = @ \o [k \in 1 .. end - call.next |-> call.next + k - 1]]

\* The first error cancels; a progress report that fails is one.
Collect ==
    /\ call.phase = "collect" /\ results # <<>> /\ results' = Tail(results)
    /\ LET r == Head(results)
           failing(c) == [c EXCEPT !.failed = TRUE, !.cancelled = @ \/ ~c.failed]
           joined == Joined(call.pending \cup {r.window})
       IN  IF r.failed THEN call' = failing(call)
           ELSE \/ call' = joined
                \/ joined.next > call.next /\ call' = failing(joined)
    /\ UNCHANGED <<op, fed, worker>>

\* Twenty minutes, a lost lease or a cancelled run.
Cancelled ==
    /\ call.phase = "collect" /\ ~call.cancelled
    /\ call' = [call EXCEPT !.cancelled = TRUE] /\ UNCHANGED <<op, fed, worker, results>>

\* The channel is closed when both workers have ended.  What failed or was
\* cancelled is left to another execution, or ends the run.
Return ==
    /\ call.phase = "collect" /\ results = <<>> /\ \A w \in Workers : At(w, "gone")
    /\ \E phase \in IF call.failed \/ call.cancelled THEN {"ready", "failed"}
                     ELSE {IF call.next = Count THEN "returned" ELSE "failed"} :
        call' = [call EXCEPT !.phase = phase, !.cancelled = TRUE]
    /\ UNCHANGED <<op, fed, worker, results>>

Crash ==
    /\ call.phase = "collect"
    /\ call' = [Blank EXCEPT !.run = call.run] /\ fed' = [n |-> 0, open |-> FALSE]
    /\ worker' = [w \in Workers |-> Resting] /\ results' = <<>> /\ UNCHANGED op

Work(w) ==
    \/ Feed(w) \/ WorkerEnds(w) \/ Cut(w) \/ Begin(w) \/ Answer(w)
    \/ Unanswered(w) \/ Refused(w) \/ Deliver(w)
Next == Start \/ FeederEnds \/ (\E w \in Workers : Work(w)) \/ Collect \/ Cancelled \/ Return \/ Crash

\* Goroutines run; every wait for a remote side has a timeout.
Fairness ==
    /\ WF_vars(FeederEnds) /\ WF_vars(Collect) /\ WF_vars(Return)
    /\ \A w \in {1, 2} : WF_vars(w \in Workers /\ Work(w))
Spec == Init /\ [][Next]_vars /\ Fairness

-----------------------------------------------------------------------------
(* The channel holds at most two results, the counts stay in their bounds. *)
TypeOK ==
    /\ op \in [Windows -> [submissions : 0 .. SendLimit, done : BOOLEAN]]
    /\ call \in [phase : {"ready", "collect", "returned", "failed"}, run : 0 .. MaxRuns,
                 next : 0 .. Count, pending : SUBSET Windows, text : Seq(Windows),
                 failed : BOOLEAN, cancelled : BOOLEAN]
    /\ fed \in [n : 0 .. Count, open : BOOLEAN]
    /\ worker \in [Workers -> [phase : {"idle", "cut", "begin", "sent", "result", "gone"},
                               window : Windows, local : 0 .. 1, failed : BOOLEAN]]
    /\ Len(results) <= 2

(* At every moment the text is the first windows in source order, each     *)
(* once, and a transcript that is returned has all of them, each recorded, *)
(* in whatever order the two workers ended and whatever an earlier         *)
(* execution left behind (asr.go:40-106).                                  *)
TranscriptInOrder ==
    /\ call.text = [k \in 1 .. call.next |-> k - 1]
    /\ call.phase = "returned" => call.next = Count /\ \A i \in Windows : op[i].done

(* Transcribe returns and leaves no goroutine behind, also when a worker   *)
(* ends early and nobody takes what the feeder offers (asr.go:66-75).      *)
TranscribeReturns ==
    call.phase = "collect" ~> (call.phase # "collect" /\ ~fed.open)
=============================================================================

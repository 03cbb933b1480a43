----------------------------- MODULE PaidTasks -----------------------------
(* Tasks that pay a provider once and are never repeated: the check of a   *)
(* model ("probe"), the review of an article and its suggested questions.  *)
(* A row per task, one task in the broker, one execution in a worker, and  *)
(* what has left for the provider.                                         *)
EXTENDS Naturals, FiniteSets

CONSTANTS
    Tasks,
    Kind,           \* of a task: "probe", "review" or "questions"
    About,          \* the model it checks, or the article
    MaxLive         \* how many of a kind may wait or run

ConstantsOK ==
    /\ IsFiniteSet(Tasks) /\ MaxLive \in Nat
    /\ Kind \in [Tasks -> {"probe", "review", "questions"}]

VARIABLES
    row,            \* status, submissions; late: the deadline has passed;
                    \* silent: nothing was written for sixty seconds
    task,           \* of the broker, whose identity is the row's
    exec,           \* the execution: phase and, when it ends, why
    calls           \* sent to the provider; open: the last is unanswered

vars == <<row, task, exec, calls>>

Waiting == {"queued", "running"}
Ended == {"good", "bad", "unknown"}
Cut == {"timeout", "interrupted", "connection"}
NoRow == [status |-> "none", submissions |-> 0, late |-> FALSE, silent |-> FALSE]
Queued == [NoRow EXCEPT !.status = "queued"]
NoExec == [phase |-> "none", code |-> "ok"]

Init ==
    /\ row = [t \in Tasks |-> NoRow] /\ task = [t \in Tasks |-> "none"]
    /\ exec = [t \in Tasks |-> NoExec]
    /\ calls = [t \in Tasks |-> [sent |-> 0, open |-> FALSE]]

SendLimit(t) == IF Kind[t] = "probe" THEN 3 ELSE 1

QueuedOverdue(t) == row[t].status = "queued" /\ row[t].late   \* mutant: a lost worker is not
Overdue(t) ==
    /\ row[t].status \in Waiting
    /\ row[t].late \/ (Kind[t] = "probe" /\ row[t].status = "running" /\ row[t].silent)

HopefulExpired(t) == [row[t] EXCEPT !.status = "bad"]   \* mutant: never unknown

\* The row that expiry leaves: a paid call may have had its effect.
Expired(t) ==
    [row[t] EXCEPT !.status =
        IF Kind[t] = "probe" /\ @ = "running" /\ row[t].submissions > 0
        THEN "unknown" ELSE "bad"]

Expire(k) ==
    [t \in Tasks |-> IF Kind[t] = k /\ Overdue(t) THEN Expired(t) ELSE row[t]]

Live(rows, k) == {t \in Tasks : Kind[t] = k /\ rows[t].status \in Waiting}

\* CreateProbe and CreateArticleReview expire first, in their transaction.
Create(t) ==
    LET rows == Expire(Kind[t]) IN
    /\ Kind[t] # "questions" /\ row[t].status = "none"
    /\ Cardinality(Live(rows, Kind[t])) < MaxLive
    /\ \A u \in Live(rows, Kind[t]) : About[u] # About[t]
    /\ row' = [rows EXCEPT ![t] = Queued]
    /\ UNCHANGED <<task, exec, calls>>

\* Publication queues the automatic review and the questions, unlimited.
QueueUnasked(t) ==
    /\ Kind[t] # "probe" /\ row[t].status = "none"
    /\ row' = [row EXCEPT ![t] = Queued]
    /\ UNCHANGED <<task, exec, calls>>

(* The dispatcher: PendingProbes, PendingArticleReviews and                *)
(* PendingArticleQuestions.  The broker knows a task by its identity for a *)
(* day, so that a second one is refused.                                   *)
Pending(k) ==
    /\ row' = Expire(k)
    /\ task' = [t \in Tasks |->
          IF Kind[t] = k /\ row'[t].status = "queued" /\ task[t] = "none"
          THEN "queued" ELSE task[t]]
    /\ UNCHANGED <<exec, calls>>

(*************************** The claim of a task ***************************)
RetriedClaimable(t) ==   \* mutant: an interrupted execution is begun again
    \/ row[t].status = "queued" /\ ~row[t].late
    \/ row[t].status = "running" /\ row[t].silent /\ exec[t].phase = "none"

Claimable(t) == row[t].status = "queued" /\ ~row[t].late

\* Reviews and questions run one at a time.
Busy(t) ==
    /\ Kind[t] # "probe"
    /\ \E u \in Tasks : Kind[u] = Kind[t] /\ row[u].status = "running" /\ ~row[u].late

Claim(t) ==
    /\ task[t] = "queued" /\ Claimable(t) /\ ~Busy(t)
    /\ row' = [(IF Kind[t] = "review" THEN Expire("review") ELSE row)
                  EXCEPT ![t].status = "running", ![t].late = FALSE, ![t].silent = FALSE]
    /\ task' = [task EXCEPT ![t] = "active"]
    /\ exec' = [exec EXCEPT ![t] = [phase |-> "ready", code |-> "ok"]]
    /\ UNCHANGED calls

\* What the broker delivers again: a probe that is still somebody's.
ClaimBusy(t) ==
    /\ task[t] = "queued"
    /\ IF Claimable(t) THEN Busy(t)
       ELSE Kind[t] = "probe" /\ row[t].status \in Waiting /\ ~row[t].late
    /\ UNCHANGED vars

ClaimNothing(t) ==
    /\ task[t] = "queued" /\ ~Claimable(t)
    /\ ~(Kind[t] = "probe" /\ row[t].status \in Waiting /\ ~row[t].late)
    /\ task' = [task EXCEPT ![t] = "gone"]
    /\ row' = IF Kind[t] = "review" THEN Expire("review") ELSE row
    /\ UNCHANGED <<exec, calls>>

(****************************** The execution ******************************)
\* The only execution of a row is that of its first epoch.
Fence(t) == row[t].status = "running" /\ ~row[t].late

End(t, code) == [exec EXCEPT ![t] = [phase |-> "finishing", code |-> code]]

Touch(t) ==
    /\ Kind[t] = "probe" /\ exec[t].phase # "none" /\ Fence(t) /\ row[t].silent
    /\ row' = [row EXCEPT ![t].silent = FALSE]
    /\ UNCHANGED <<task, exec, calls>>

(* A submission is counted before it is sent; the model may have been      *)
(* disabled meanwhile, or the answer of the commit be lost.                *)
BeginSubmission(t) ==
    /\ exec[t].phase = "ready"
    /\ \/ /\ Fence(t) /\ row[t].submissions < SendLimit(t)
          /\ row' = [row EXCEPT ![t].submissions = @ + 1, ![t].silent = FALSE]
          /\ exec' \in {[exec EXCEPT ![t].phase = "reserved"], End(t, "known")}
       \/ /\ exec' = End(t, "known")
          /\ UNCHANGED row
    /\ UNCHANGED <<task, calls>>

Send(t) ==
    /\ exec[t].phase = "reserved"
    /\ exec' = [exec EXCEPT ![t].phase = "sent"]
    /\ calls' = [calls EXCEPT ![t] = [sent |-> @.sent + 1, open |-> TRUE]]
    /\ UNCHANGED <<row, task>>

\* A probe may have a further call to make.
Answer(t) ==
    /\ exec[t].phase = "sent"
    /\ \/ /\ exec' \in {End(t, "ok"), End(t, "known")} \cup
                IF Kind[t] = "probe" THEN {[exec EXCEPT ![t].phase = "ready"]} ELSE {}
          /\ calls' = [calls EXCEPT ![t].open = FALSE]
       \/ \* the connection breaks before the answer is complete
          /\ exec' = End(t, "connection")
          /\ UNCHANGED calls
    /\ UNCHANGED <<row, task>>

\* The deadline, a refused touch, or the end of the process' context.
Interrupt(t) ==
    /\ exec[t].phase \in {"ready", "reserved", "sent"}
    /\ exec' = End(t, IF row[t].late THEN "timeout" ELSE "interrupted")
    /\ UNCHANGED <<row, task, calls>>

Ending(t) ==
    IF exec[t].code = "ok" /\ (Kind[t] = "probe" => ~row[t].late) THEN "good"
    ELSE IF Kind[t] = "probe" /\ exec[t].code \in Cut \cup {"ok"}
            /\ row[t].submissions > 0 THEN "unknown" ELSE "bad"

(* FinishProbe, FinishArticleReview and FinishArticleQuestions: the row    *)
(* must still be running; its deadline does not matter.                    *)
Finish(t) ==
    /\ exec[t].phase = "finishing"
    /\ row' = IF row[t].status = "running"
              THEN [row EXCEPT ![t].status = Ending(t)] ELSE row
    /\ exec' = [exec EXCEPT ![t] = NoExec]
    /\ task' = [task EXCEPT ![t] = IF @ = "active" THEN "gone" ELSE @]
    /\ UNCHANGED calls

\* The database does not answer in time, or the process is gone.
Dies(t) ==
    /\ exec[t].phase # "none"
    /\ exec' = [exec EXCEPT ![t] = NoExec]
    /\ UNCHANGED <<row, task, calls>>

(**************************** Broker and clocks ****************************)
Redeliver(t) ==
    /\ task[t] = "active"
    /\ task' = [task EXCEPT ![t] = "queued"]
    /\ UNCHANGED <<row, exec, calls>>

\* Retries exhausted, the task's own deadline, or lost with its data.
Drop(t) ==
    /\ task[t] \in {"queued", "active"}
    /\ task' \in {[task EXCEPT ![t] = "gone"], [task EXCEPT ![t] = "none"]}
    /\ UNCHANGED <<row, exec, calls>>

DeadlinePasses(t) ==
    /\ row[t].status \in Waiting /\ ~row[t].late
    /\ row' = [row EXCEPT ![t].late = TRUE]
    /\ UNCHANGED <<task, exec, calls>>

Silence(t) ==
    /\ Kind[t] = "probe" /\ row[t].status = "running" /\ ~row[t].silent
    /\ row' = [row EXCEPT ![t].silent = TRUE]
    /\ UNCHANGED <<task, exec, calls>>

Next ==
    \/ \E k \in {Kind[t] : t \in Tasks} : Pending(k)
    \/ \E t \in Tasks :
         \/ Create(t) \/ QueueUnasked(t) \/ Claim(t) \/ ClaimBusy(t) \/ ClaimNothing(t)
         \/ Touch(t) \/ BeginSubmission(t) \/ Send(t) \/ Answer(t)
         \/ Interrupt(t) \/ Finish(t) \/ Dies(t)
         \/ Redeliver(t) \/ Drop(t) \/ DeadlinePasses(t) \/ Silence(t)

(* The dispatcher is a ticker and the clock runs: nothing else is assumed. *)
Fairness ==
    /\ \A k \in {Kind[t] : t \in Tasks} : WF_vars(Pending(k))
    /\ \A t \in Tasks : WF_vars(DeadlinePasses(t))

Spec == Init /\ [][Next]_vars /\ Fairness

(******************************* Properties ********************************)
TypeOK ==
    /\ row \in [Tasks -> [status : Waiting \cup Ended \cup {"none"},
                          submissions : 0 .. 3, late : BOOLEAN, silent : BOOLEAN]]
    /\ task \in [Tasks -> {"none", "queued", "active", "gone"}]
    /\ exec \in [Tasks -> [phase : {"none", "ready", "reserved", "sent", "finishing"},
                           code : Cut \cup {"ok", "known"}]]
    /\ calls \in [Tasks -> [sent : 0 .. 3, open : BOOLEAN]]

RepeatsUnknown ==
    \E t \in Tasks : row'[t].submissions > row[t].submissions /\ calls[t].open

(* No call is authorised for a task one of whose calls was never answered: *)
(* "Never replay an unknown physical model outcome after a process crash"  *)
(* (probes.go:87).                                                         *)
NeverRepeatsUnknown == [][~RepeatsUnknown]_vars

(* What the row reports of its calls is true: each was counted before it   *)
(* left, a result was answered, and a probe that is said to have failed    *)
(* has no call whose outcome nobody knows.                                 *)
ReportsAreTrue ==
    \A t \in Tasks :
        /\ calls[t].sent <= row[t].submissions
        /\ row[t].status = "good" => calls[t].sent > 0 /\ ~calls[t].open
        /\ row[t].status = "bad" /\ Kind[t] = "probe" => ~calls[t].open

(* Every task ends, whatever becomes of broker and worker.                 *)
EveryTaskEnds ==
    \A t \in Tasks : row[t].status = "queued" ~> row[t].status \in Ended
=============================================================================

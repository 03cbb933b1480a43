--------------------------- MODULE PaidTasksProofs ---------------------------
(***************************************************************************)
(* A paid call whose outcome nobody knows is never repeated, and what a    *)
(* row reports of its calls is true, for every number of tasks.  A row has *)
(* one execution in its life: it counts a call before it sends it, and     *)
(* whatever it reports as known it has seen answered.                      *)
(***************************************************************************)
EXTENDS PaidTasks, TLAPS

\* Before its claim a row has neither execution nor calls.
Fresh(t) ==
  row[t].status \in {"none", "queued"} =>
    exec[t].phase = "none" /\ row[t].submissions = 0 /\ calls[t].sent = 0 /\ ~calls[t].open

\* A call that is about to leave is counted already.
Counted(t) ==
  /\ calls[t].sent <= row[t].submissions
  /\ exec[t].phase = "reserved" => calls[t].sent < row[t].submissions
  /\ exec[t].phase = "sent" => calls[t].sent > 0
  /\ calls[t].open => calls[t].sent > 0

\* What the execution is about to report it has seen.
Seen(t) ==
  /\ exec[t].phase \in {"ready", "reserved"} => ~calls[t].open
  /\ exec[t].phase = "finishing" /\ exec[t].code \in {"ok", "known"} => ~calls[t].open
  /\ exec[t].phase = "finishing" /\ exec[t].code = "ok" => calls[t].sent > 0

\* What has been reported stays true: an execution that is still at work after
\* its row expired may only send what was counted.
Reported(t) ==
  /\ row[t].status = "good" => exec[t].phase = "none" /\ calls[t].sent > 0 /\ ~calls[t].open
  /\ row[t].status = "bad" /\ Kind[t] = "probe" =>
        ~calls[t].open /\ exec[t].phase \notin {"reserved", "sent"}

TaskInv == TypeOK /\ \A t \in Tasks : Fresh(t) /\ Counted(t) /\ Seen(t) /\ Reported(t)

Rows == [status : Waiting \cup Ended \cup {"none"},
         submissions : 0 .. 3, late : BOOLEAN, silent : BOOLEAN]
Execs == [phase : {"none", "ready", "reserved", "sent", "finishing"},
          code : Cut \cup {"ok", "known"}]
Sums == [sent : 0 .. 3, open : BOOLEAN]

LEMMA TaskInit == ASSUME ConstantsOK, Init PROVE TaskInv
BY DEF Init, TaskInv, TypeOK, Fresh, Counted, Seen, Reported, NoRow, NoExec, Waiting, Ended, Cut

\* The parts of the invariant about one task.
TaskOK(t) == Fresh(t) /\ Counted(t) /\ Seen(t) /\ Reported(t)

\* Rows that expire, and rows that do not change.
LEMMA ExpireKeeps ==
  ASSUME ConstantsOK, TaskInv, NEW k, NEW t \in Tasks
  PROVE  /\ Expire(k)[t] \in Rows
         /\ Expire(k)[t] = row[t] \/ (Overdue(t) /\ Expire(k)[t] = Expired(t))
<1>1. row[t] \in Rows
  BY DEF TaskInv, TypeOK, Rows
<1>2. Expired(t) \in Rows
  BY <1>1 DEF Expired, Rows, Ended
<1> QED BY <1>1, <1>2 DEF Expire

LEMMA ExpiredTrue ==
  ASSUME ConstantsOK, TaskInv, NEW t \in Tasks, Overdue(t)
  PROVE  /\ Expired(t).submissions = row[t].submissions
         /\ Expired(t).status \in {"bad", "unknown"}
         /\ Expired(t).status = "bad" /\ Kind[t] = "probe" =>
               ~calls[t].open /\ exec[t].phase \notin {"reserved", "sent"}
<1>1. /\ row[t] \in Rows /\ calls[t] \in Sums /\ row[t].status \in Waiting
  BY DEF TaskInv, TypeOK, Rows, Sums, Overdue
<1>2. Expired(t).submissions = row[t].submissions /\ Expired(t).status \in {"bad", "unknown"}
  BY <1>1 DEF Expired, Rows
<1>3. ASSUME Expired(t).status = "bad", Kind[t] = "probe"
      PROVE  ~calls[t].open /\ exec[t].phase \notin {"reserved", "sent"}
  <2>1. row[t].status = "queued" \/ row[t].submissions = 0
    BY <1>1, <1>3 DEF Expired, Rows, Waiting
  <2>2. CASE row[t].status = "queued"
    BY <2>2 DEF TaskInv, Fresh
  <2>3. CASE row[t].submissions = 0
    BY <1>1, <2>3 DEF TaskInv, Counted, Sums
  <2> QED BY <2>1, <2>2, <2>3
<1> QED BY <1>2, <1>3

\* A step that leaves executions and calls alone keeps a task if its row is
\* kept, expires, changes its clocks, or is queued.
LEMMA RowStep ==
  ASSUME ConstantsOK, TaskInv, NEW t \in Tasks, exec'[t] = exec[t], calls'[t] = calls[t],
         \/ row'[t] = row[t]
         \/ Overdue(t) /\ row'[t] = Expired(t)
         \/ /\ row'[t].status = row[t].status /\ row'[t].submissions = row[t].submissions
         \/ row[t].status = "none" /\ row'[t] = Queued
  PROVE  TaskOK(t)'
<1>1. TaskOK(t)
  BY DEF TaskInv, TaskOK
<1>2. CASE row'[t].status = row[t].status /\ row'[t].submissions = row[t].submissions
  BY <1>1, <1>2 DEF TaskOK, Fresh, Counted, Seen, Reported
<1>3. CASE Overdue(t) /\ row'[t] = Expired(t)
  BY <1>1, <1>3, ExpiredTrue DEF TaskOK, Fresh, Counted, Seen, Reported
<1>4. CASE row[t].status = "none" /\ row'[t] = Queued
  BY <1>1, <1>4 DEF TaskOK, Fresh, Counted, Seen, Reported, Queued, NoRow
<1> QED BY <1>2, <1>3, <1>4

\* Create, QueueUnasked, Pending, Touch, the clocks and the broker.
LEMMA RowSteps ==
  ASSUME ConstantsOK, TaskInv,
         \/ \E k \in {Kind[u] : u \in Tasks} : Pending(k)
         \/ \E t \in Tasks :
              \/ Create(t) \/ QueueUnasked(t) \/ ClaimBusy(t) \/ ClaimNothing(t) \/ Touch(t)
              \/ Redeliver(t) \/ Drop(t) \/ DeadlinePasses(t) \/ Silence(t)
  PROVE  TaskInv'
<1>1. exec' = exec /\ calls' = calls
  BY DEF Pending, Create, QueueUnasked, ClaimBusy, ClaimNothing, Touch, Redeliver, Drop,
         DeadlinePasses, Silence, vars
<1>2. task' \in [Tasks -> {"none", "queued", "active", "gone"}]
  <2>1. task \in [Tasks -> {"none", "queued", "active", "gone"}]
    BY DEF TaskInv, TypeOK
  <2> QED BY <2>1
  DEF Pending, Create, QueueUnasked, ClaimBusy, ClaimNothing, Touch, Redeliver, Drop,
         DeadlinePasses, Silence, vars
<1>3. /\ row' = [u \in Tasks |-> row'[u]]
      /\ \A u \in Tasks :
           /\ row'[u] \in Rows
           /\ \/ row'[u] = row[u]
              \/ Overdue(u) /\ row'[u] = Expired(u)
              \/ /\ row'[u].status = row[u].status /\ row'[u].submissions = row[u].submissions
              \/ row[u].status = "none" /\ row'[u] = Queued
  <2>0. row \in [Tasks -> Rows] /\ Queued \in Rows
    <3>1. row \in [Tasks -> Rows]
      BY DEF TaskInv, TypeOK, Rows
    <3>2. Queued \in Rows
      <4>1. NoRow \in Rows
        BY DEF NoRow, Rows
      <4> QED BY <4>1 DEF Queued, Rows, Waiting
    <3> QED BY <3>1, <3>2
  <2>1. ASSUME NEW k, row' = Expire(k) PROVE <1>3
    <3>1. row' = [u \in Tasks |-> row'[u]]
      BY <2>1 DEF Expire
    <3> QED BY <2>1, <3>1, ExpireKeeps
  <2>2. ASSUME NEW t \in Tasks, Create(t) PROVE <1>3
    <3>1. /\ row' = [Expire(Kind[t]) EXCEPT ![t] = Queued] /\ row[t].status = "none"
      BY <2>2 DEF Create
    <3>2. DOMAIN Expire(Kind[t]) = Tasks
      BY DEF Expire
    <3> QED BY <2>0, <3>1, <3>2, ExpireKeeps
  <2>3. ASSUME NEW t \in Tasks, QueueUnasked(t) PROVE <1>3
    BY <2>0, <2>3 DEF QueueUnasked
  <2>4. ASSUME NEW t \in Tasks, Touch(t) \/ DeadlinePasses(t) \/ Silence(t) PROVE <1>3
    <3>1. \/ row' = [row EXCEPT ![t].silent = FALSE]
          \/ row' = [row EXCEPT ![t].silent = TRUE]
          \/ row' = [row EXCEPT ![t].late = TRUE]
      BY <2>4 DEF Touch, DeadlinePasses, Silence
    <3>2. CASE row' = [row EXCEPT ![t].silent = FALSE]
      BY <2>0, <3>2 DEF Rows
    <3>3. CASE row' = [row EXCEPT ![t].silent = TRUE]
      BY <2>0, <3>3 DEF Rows
    <3>4. CASE row' = [row EXCEPT ![t].late = TRUE]
      BY <2>0, <3>4 DEF Rows
    <3> QED BY <3>1, <3>2, <3>3, <3>4
  <2>5. ASSUME row' = row PROVE <1>3
    BY <2>0, <2>5
  <2> QED BY <2>1, <2>2, <2>3, <2>4, <2>5
  DEF Pending, ClaimBusy, ClaimNothing, Redeliver, Drop, vars
<1>4. TypeOK'
  BY <1>1, <1>2, <1>3 DEF TaskInv, TypeOK, Rows
<1>5. \A u \in Tasks : TaskOK(u)'
  BY <1>1, <1>3, RowStep
<1> QED BY <1>4, <1>5 DEF TaskInv, TaskOK

LEMMA ClaimStep ==
  ASSUME ConstantsOK, TaskInv, NEW t \in Tasks, Claim(t)
  PROVE  TaskInv'
<1> DEFINE rows == IF Kind[t] = "review" THEN Expire("review") ELSE row
<1>1. \A u \in Tasks : rows[u] \in Rows
                       /\ (rows[u] = row[u] \/ (Overdue(u) /\ rows[u] = Expired(u)))
  <2>1. row \in [Tasks -> Rows]
    BY DEF TaskInv, TypeOK, Rows
  <2> QED BY <2>1, ExpireKeeps
<1>2. DOMAIN rows = Tasks
  BY DEF Expire, TaskInv, TypeOK
<1>3. row' = [rows EXCEPT ![t].status = "running", ![t].late = FALSE, ![t].silent = FALSE]
  BY DEF Claim
<1>4. row[t].status = "queued" /\ rows[t] = row[t]
  BY <1>1 DEF Claim, Claimable, Overdue
<1> HIDE DEF rows
<1>5. /\ exec' = [exec EXCEPT ![t] = [phase |-> "ready", code |-> "ok"]]
      /\ task' = [task EXCEPT ![t] = "active"] /\ calls' = calls
  BY DEF Claim
<1>6. row' \in [Tasks -> Rows]
  <2>1. row' = [u \in Tasks |-> row'[u]]
    BY <1>2, <1>3
  <2>2. ASSUME NEW u \in Tasks, u # t PROVE row'[u] \in Rows
    BY <1>1, <1>2, <1>3, <2>2
  <2>3. row'[t] = [rows[t] EXCEPT !.status = "running", !.late = FALSE, !.silent = FALSE]
    BY <1>2, <1>3
  <2>4. rows[t] \in Rows
    BY <1>1
  <2>5. row'[t] \in Rows
    BY <2>3, <2>4 DEF Rows, Waiting
  <2> QED BY <2>1, <2>2, <2>5
<1>7. TypeOK'
  BY <1>5, <1>6 DEF TaskInv, TypeOK, Rows
<1>8. TaskOK(t)'
  <2>1. /\ row'[t].status = "running" /\ row'[t].submissions = row[t].submissions
    BY <1>1, <1>2, <1>3, <1>4 DEF Rows
  <2>2. exec'[t].phase = "ready"
    BY <1>5 DEF TaskInv, TypeOK
  <2> QED BY <1>4, <1>5, <2>1, <2>2 DEF TaskInv, TaskOK, Fresh, Counted, Seen, Reported
<1>9. ASSUME NEW u \in Tasks, u # t PROVE TaskOK(u)'
  <2>1. row'[u] = rows[u] /\ exec'[u] = exec[u] /\ calls'[u] = calls[u]
    BY <1>2, <1>3, <1>5, <1>9 DEF TaskInv, TypeOK
  <2> QED BY <1>1, <2>1, RowStep
<1> QED BY <1>7, <1>8, <1>9 DEF TaskInv, TaskOK

\* A step of the execution of one task.
LEMMA ExecStep ==
  ASSUME ConstantsOK, TaskInv, NEW t \in Tasks,
         BeginSubmission(t) \/ Send(t) \/ Answer(t) \/ Interrupt(t) \/ Finish(t) \/ Dies(t)
  PROVE  TaskInv'
<1>0. /\ row \in [Tasks -> Rows] /\ exec \in [Tasks -> Execs] /\ calls \in [Tasks -> Sums]
      /\ task \in [Tasks -> {"none", "queued", "active", "gone"}]
      /\ TaskOK(t)
  BY DEF TaskInv, TypeOK, Rows, Execs, Sums, TaskOK
<1>1. \A u \in Tasks \ {t} : row'[u] = row[u] /\ exec'[u] = exec[u] /\ calls'[u] = calls[u]
  BY <1>0 DEF BeginSubmission, Send, Answer, Interrupt, Finish, Dies, End
<1>2. /\ DOMAIN row' = Tasks /\ row' = [u \in Tasks |-> row'[u]]
      /\ DOMAIN exec' = Tasks /\ exec' = [u \in Tasks |-> exec'[u]]
      /\ DOMAIN calls' = Tasks /\ calls' = [u \in Tasks |-> calls'[u]]
      /\ task' \in [Tasks -> {"none", "queued", "active", "gone"}]
  BY <1>0 DEF BeginSubmission, Send, Answer, Interrupt, Finish, Dies, End
<1>3. row'[t] \in Rows /\ exec'[t] \in Execs /\ calls'[t] \in Sums /\ TaskOK(t)'
  <2> USE <1>0 DEF Rows, Execs, Sums, TaskOK, Fresh, Counted, Seen, Reported
  <2>1. CASE BeginSubmission(t)
    <3>1. /\ exec[t].phase = "ready" /\ calls' = calls
          /\ exec'[t] \in {[exec[t] EXCEPT !.phase = "reserved"], [phase |-> "finishing", code |-> "known"]}
      BY <2>1 DEF BeginSubmission, End
    <3>2. CASE row' = row /\ exec'[t] = [phase |-> "finishing", code |-> "known"]
      BY <3>1, <3>2
    <3>3. CASE /\ Fence(t) /\ row[t].submissions < SendLimit(t)
               /\ row' = [row EXCEPT ![t].submissions = @ + 1, ![t].silent = FALSE]
      <4>1. /\ row'[t].status = "running" /\ row[t].status = "running"
            /\ row'[t].submissions = row[t].submissions + 1
            /\ row'[t].late = row[t].late /\ row'[t].silent = FALSE
            /\ row'[t] = [status |-> "running", submissions |-> row[t].submissions + 1,
                          late |-> row[t].late, silent |-> FALSE]
        BY <3>3 DEF Fence
      <4>2. row[t].submissions + 1 \in 0 .. 3 /\ row[t].submissions \in 0 .. 3
        BY <3>3 DEF SendLimit
      <4>3. row'[t] \in Rows
        BY <4>1, <4>2 DEF Waiting
      <4>4. /\ exec'[t] \in Execs /\ exec'[t].phase \in {"reserved", "finishing"}
            /\ exec'[t].phase = "finishing" => exec'[t].code = "known"
        BY <3>1
      <4>5. calls[t].sent \in 0 .. 3 /\ calls'[t] = calls[t]
        BY <3>1
      <4>6. calls[t].sent <= row[t].submissions /\ ~calls[t].open
        BY <3>1
      <4>7. Fresh(t)' /\ Counted(t)'
        BY <4>1, <4>2, <4>4, <4>5, <4>6
      <4>8. Seen(t)' /\ Reported(t)'
        BY <4>1, <4>4, <4>5, <4>6
      <4> QED BY <4>3, <4>4, <4>5, <4>7, <4>8
    <3> QED BY <2>1, <3>1, <3>2, <3>3 DEF BeginSubmission, End
  <2>2. CASE Send(t)
    <3>1. /\ row' = row /\ exec[t].phase = "reserved" /\ exec'[t] = [exec[t] EXCEPT !.phase = "sent"]
          /\ calls'[t] = [sent |-> calls[t].sent + 1, open |-> TRUE]
      BY <2>2 DEF Send
    <3>2. calls[t].sent < row[t].submissions
      BY <3>1
    <3> QED BY <3>1, <3>2
  <2>3. CASE Answer(t)
    <3>1. row' = row /\ exec[t].phase = "sent" /\ calls[t].sent > 0
      BY <2>3 DEF Answer
    <3>2. CASE /\ exec'[t] \in {[phase |-> "finishing", code |-> "ok"],
                    [phase |-> "finishing", code |-> "known"], [exec[t] EXCEPT !.phase = "ready"]}
               /\ calls'[t] = [calls[t] EXCEPT !.open = FALSE]
      <4>1. calls'[t] \in Sums /\ calls'[t].sent = calls[t].sent /\ ~calls'[t].open
        <5>1. calls[t] \in [sent : 0 .. 3, open : BOOLEAN]
          BY <1>0 DEF Sums
        <5>2. calls'[t] = [sent |-> calls[t].sent, open |-> FALSE]
          BY <3>2, <5>1
        <5> QED BY <5>1, <5>2 DEF Sums
      <4>2. /\ exec'[t] \in Execs /\ exec'[t].phase \in {"finishing", "ready"}
        <5>1. CASE exec'[t] = [phase |-> "finishing", code |-> "ok"]
          BY <5>1
        <5>2. CASE exec'[t] = [phase |-> "finishing", code |-> "known"]
          BY <5>2
        <5>3. CASE exec'[t] = [exec[t] EXCEPT !.phase = "ready"]
          BY <5>3
        <5> QED BY <3>2, <5>1, <5>2, <5>3
      <4>3. row[t].status # "good"
        BY <3>1
      <4> QED BY <3>1, <4>1, <4>2, <4>3
    <3>3. CASE exec'[t] = [phase |-> "finishing", code |-> "connection"] /\ calls' = calls
      BY <3>1, <3>3 DEF Cut
    <3> QED BY <2>3, <3>2, <3>3 DEF Answer, End
  <2>4. CASE Interrupt(t)
    <3>1. /\ row' = row /\ calls' = calls
          /\ \E c \in {"timeout", "interrupted"} : exec'[t] = [phase |-> "finishing", code |-> c]
      BY <2>4 DEF Interrupt, End
    <3>2. exec[t].phase # "none"
      BY <2>4 DEF Interrupt
    <3> QED BY <3>1, <3>2 DEF Cut
  <2>5. CASE Finish(t)
    <3>1. /\ exec[t].phase = "finishing" /\ exec'[t] = NoExec /\ calls' = calls
          /\ row'[t] = IF row[t].status = "running" THEN [row[t] EXCEPT !.status = Ending(t)] ELSE row[t]
      BY <2>5 DEF Finish
    <3>2. NoExec \in Execs /\ NoExec.phase = "none"
      BY DEF NoExec, Cut
    <3>3. CASE row[t].status # "running"
      BY <3>1, <3>2, <3>3
    <3>4. CASE row[t].status = "running"
      <4>1. /\ Ending(t) \in Ended
            /\ Ending(t) = "good" => exec[t].code = "ok"
            /\ Ending(t) = "bad" /\ Kind[t] = "probe" =>
                  exec[t].code = "known" \/ row[t].submissions = 0
        BY DEF Ending, Ended, Cut
      <4>2. row[t].submissions = 0 => ~calls[t].open
        OBVIOUS
      <4> QED BY <3>1, <3>2, <3>4, <4>1, <4>2 DEF Ended
    <3> QED BY <3>3, <3>4
  <2>6. CASE Dies(t)
    <3>1. row' = row /\ calls' = calls /\ exec'[t] = NoExec /\ exec[t].phase # "none"
      BY <2>6 DEF Dies
    <3> QED BY <3>1 DEF NoExec, Cut
  <2> QED BY <2>1, <2>2, <2>3, <2>4, <2>5, <2>6
<1>4. TypeOK'
  <2>1. \A u \in Tasks : row'[u] \in Rows /\ exec'[u] \in Execs /\ calls'[u] \in Sums
    BY <1>0, <1>1, <1>3
  <2> QED BY <1>2, <2>1 DEF TypeOK, Rows, Execs, Sums
<1>5. ASSUME NEW u \in Tasks PROVE TaskOK(u)'
  BY <1>1, <1>3, RowStep
<1> QED BY <1>4, <1>5 DEF TaskInv, TaskOK

LEMMA TaskNext == ASSUME ConstantsOK, TaskInv, [Next]_vars PROVE TaskInv'
<1>1. CASE UNCHANGED vars
  BY <1>1 DEF vars, TaskInv, TypeOK, Fresh, Counted, Seen, Reported
<1>2. CASE Next
  BY <1>2, RowSteps, ClaimStep, ExecStep DEF Next
<1> QED BY <1>1, <1>2

\* Only the execution that has nothing unanswered adds a submission.
LEMMA NoRepeat == ASSUME ConstantsOK, TaskInv, [Next]_vars PROVE ~RepeatsUnknown
<1> SUFFICES ASSUME NEW t \in Tasks, row'[t].submissions > row[t].submissions, calls[t].open
             PROVE  FALSE
  BY DEF RepeatsUnknown
<1>0. row \in [Tasks -> Rows]
  BY DEF TaskInv, TypeOK, Rows
<1>1. ASSUME NEW k, NEW rows, rows = Expire(k) \/ rows = row
      PROVE  DOMAIN rows = Tasks /\ rows[t].submissions = row[t].submissions
  <2>1. DOMAIN Expire(k) = Tasks
    BY DEF Expire
  <2>2. Expire(k)[t].submissions = row[t].submissions
    BY ExpireKeeps, ExpiredTrue
  <2> QED BY <1>0, <1>1, <2>1, <2>2
<1>2. row' # row
  <2>1. row[t].submissions \in 0 .. 3
    BY <1>0 DEF Rows
  <2> QED BY <2>1
<1>3. ASSUME NEW k, Pending(k) PROVE FALSE
  BY <1>0, <1>1, <1>3 DEF Pending, Rows
<1>4. ASSUME NEW u \in Tasks, BeginSubmission(u) PROVE FALSE
  <2>1. u = t /\ exec[t].phase = "ready"
    BY <1>0, <1>4 DEF BeginSubmission, Rows
  <2> QED BY <2>1 DEF TaskInv, Seen
<1>5. ASSUME NEW u \in Tasks, Claim(u) PROVE FALSE
  <2> DEFINE rows == IF Kind[u] = "review" THEN Expire("review") ELSE row
  <2>1. row' = [rows EXCEPT ![u].status = "running", ![u].late = FALSE, ![u].silent = FALSE]
    BY <1>5 DEF Claim
  <2>2. DOMAIN rows = Tasks /\ rows[t].submissions = row[t].submissions
    BY <1>1
  <2>3. row[u].status = "queued" /\ ~row[u].late
    BY <1>5 DEF Claim, Claimable
  <2>4. rows[u] = row[u]
    BY <2>3, ExpireKeeps DEF Overdue
  <2> HIDE DEF rows
  <2>5. row'[t].submissions = rows[t].submissions
    <3>1. CASE u = t
      <4>1. row'[t] = [row[t] EXCEPT !.status = "running", !.late = FALSE, !.silent = FALSE]
        BY <2>1, <2>2, <2>4, <3>1
      <4>2. row[t] \in Rows
        BY <1>0
      <4> QED BY <2>2, <4>1, <4>2 DEF Rows
    <3>2. CASE u # t
      BY <2>1, <2>2, <3>2
    <3> QED BY <3>1, <3>2
  <2> QED BY <1>0, <2>2, <2>5 DEF Rows
<1>6. ASSUME NEW u \in Tasks, Create(u) \/ QueueUnasked(u) PROVE FALSE
  <2>1. PICK rows : /\ rows = Expire(Kind[u]) \/ rows = row
                    /\ row' = [rows EXCEPT ![u] = Queued]
    BY <1>6 DEF Create, QueueUnasked
  <2>2. row'[t] = Queued \/ row'[t] = rows[t]
    BY <1>1, <2>1
  <2>3. Queued.submissions = 0
    BY DEF Queued, NoRow
  <2>4. row[t].submissions \in 0 .. 3 /\ rows[t].submissions = row[t].submissions
    BY <1>0, <1>1, <2>1 DEF Rows
  <2> QED BY <2>2, <2>3, <2>4
<1>7. ASSUME NEW u \in Tasks, ClaimNothing(u) PROVE FALSE
  BY <1>0, <1>1, <1>7 DEF ClaimNothing, Rows
<1>8. ASSUME NEW u \in Tasks, Touch(u) \/ DeadlinePasses(u) \/ Silence(u) \/ Finish(u) PROVE FALSE
  <2>1. \/ row' = [row EXCEPT ![u].silent = FALSE]
        \/ row' = [row EXCEPT ![u].silent = TRUE]
        \/ row' = [row EXCEPT ![u].late = TRUE]
        \/ row' = [row EXCEPT ![u].status = Ending(u)]
        \/ row' = row
    BY <1>8 DEF Touch, DeadlinePasses, Silence, Finish
  <2>2. row'[t].submissions = row[t].submissions /\ row[t].submissions \in 0 .. 3
    BY <1>0, <2>1 DEF Rows
  <2> QED BY <2>2
<1>9. ASSUME NEW u \in Tasks,
             \/ ClaimBusy(u) \/ Send(u) \/ Answer(u) \/ Interrupt(u) \/ Dies(u)
             \/ Redeliver(u) \/ Drop(u)
      PROVE  FALSE
  BY <1>2, <1>9 DEF ClaimBusy, Send, Answer, Interrupt, Dies, Redeliver, Drop, vars
<1> QED BY <1>2, <1>3, <1>4, <1>5, <1>6, <1>7, <1>8, <1>9 DEF Next, vars

LEMMA RowsTrue == TaskInv => TypeOK /\ ReportsAreTrue
BY DEF TaskInv, ReportsAreTrue, Counted, Reported

(* What rows report of paid calls is true: FinishProbe, expireProbes and   *)
(* the finish of reviews and questions (store/probes.go:95-184).           *)
THEOREM RowsTellTheTruth == ASSUME ConstantsOK PROVE Spec => [](TypeOK /\ ReportsAreTrue)
<1>1. Init => TaskInv
  BY TaskInit
<1>2. TaskInv /\ [Next]_vars => TaskInv'
  BY TaskNext
<1>3. TaskInv => TypeOK /\ ReportsAreTrue
  BY RowsTrue
<1> QED BY <1>1, <1>2, <1>3, PTL DEF Spec

(* No call is authorised while the last one's outcome is unknown, by no    *)
(* redelivery, restart or expiry: "Never replay an unknown physical model  *)
(* outcome after a process crash" (store/probes.go:87).                    *)
THEOREM UnknownNeverRepeated == ASSUME ConstantsOK PROVE Spec => NeverRepeatsUnknown
<1>1. Init => TaskInv
  BY TaskInit
<1>2. TaskInv /\ [Next]_vars => TaskInv'
  BY TaskNext
<1>3. TaskInv /\ [Next]_vars => [~RepeatsUnknown]_vars
  BY NoRepeat
<1> QED BY <1>1, <1>2, <1>3, PTL DEF Spec, NeverRepeatsUnknown
=============================================================================

-------------------------- MODULE SubmissionLimiter --------------------------
(* The token buckets that bound submissions by session, by address and     *)
(* over all of them. One script on the Redis server checks every bucket of *)
(* a submission before it takes from any, by the clock of that server,     *)
(* which may be set back. The buckets of generations and of questions have *)
(* keys of their own and are alike.                                        *)
(*                                                                         *)
(* A bucket of dimension d holds Burst[d] tokens and regains one in        *)
(* Every[d] ticks; it is kept in ticks, so that a token is Every[d].       *)
EXTENDS Integers, FiniteSetsExt

CONSTANTS Sessions, Address, Burst, Every, MaxTime

Dimensions == {"session", "ip", "all"}
Key(d, s) == CASE d = "session" -> <<d, s>> [] d = "ip" -> <<d, Address[s]>> [] d = "all" -> <<d>>
Buckets == {Key(d, s) : d \in Dimensions, s \in Sessions}

\* TokenBucket.Valid.
ConstantsOK ==
    /\ DOMAIN Address = Sessions /\ MaxTime \in Nat
    /\ {Burst, Every} \subseteq [Dimensions -> Nat \ {0}]

VARIABLES
    now,       \* the clock of the Redis server
    bucket,    \* the hashes in Redis: ticks, time of the last take, expiry
    elapsed,   \* ticks that passed in truth, bounded by MaxTime
    back,      \* the clock was set back, once at most
    admitted   \* submissions let through, by bucket

limitVars == <<now, bucket, elapsed, back, admitted>>

Absent == [ticks |-> 0, updated |-> 0, expires |-> 0]
Full(k) == Burst[k[1]] * Every[k[1]]

Init ==
    /\ now = MaxTime /\ bucket = [k \in Buckets |-> Absent]
    /\ elapsed = 0 /\ back = FALSE /\ admitted = [k \in Buckets |-> 0]

\* A key whose time is up reads as absent and is removed at some moment; the
\* clock may be set back before.
Present(k, time) == bucket[k] # Absent /\ time <= bucket[k].expires
Stamp(k, time) == IF Present(k, time) THEN Max({time, bucket[k].updated}) ELSE time
Ticks(k, time) ==
    IF Present(k, time)
    THEN Min({Full(k), bucket[k].ticks + Max({0, time - bucket[k].updated})})
    ELSE Full(k)

\* How long the slowest bucket of a submission needs for a token.
Lack(k, time) ==
    IF Ticks(k, time) < Every[k[1]]
    THEN Every[k[1]] - Ticks(k, time) + (Stamp(k, time) - time)
    ELSE 0
KeysOf(s) == {Key(d, s) : d \in Dimensions}
Wait(s, time) == Max({Lack(k, time) : k \in KeysOf(s)})

\* Mistake: the key lives as long as one token takes.
TokenLifetime(k) == Every[k[1]]
Lifetime(k) == Full(k)

Taken(k) ==
    [ticks |-> Ticks(k, now) - Every[k[1]], updated |-> Stamp(k, now),
     expires |-> now + Lifetime(k)]

\* takeTokens takes one token of each bucket, or none. When its answer is
\* lost, the submission is refused all the same (Check).
Take(s) ==
    /\ Wait(s, now) = 0
    /\ bucket' = [k \in Buckets |-> IF k \in KeysOf(s) THEN Taken(k) ELSE bucket[k]]
    /\ \/ admitted' = [k \in Buckets |-> admitted[k] + IF k \in KeysOf(s) THEN 1 ELSE 0]
       \/ UNCHANGED admitted
    /\ UNCHANGED <<now, elapsed, back>>

Purge(k) ==
    /\ bucket[k] # Absent /\ ~Present(k, now)
    /\ bucket' = [bucket EXCEPT ![k] = Absent]
    /\ UNCHANGED <<now, elapsed, back, admitted>>

Tick ==
    /\ elapsed < MaxTime
    /\ now' = now + 1 /\ elapsed' = elapsed + 1
    /\ UNCHANGED <<bucket, back, admitted>>

SetBack ==
    /\ ~back /\ back' = TRUE
    /\ \E time \in 0..(now - 1) : now' = time
    /\ UNCHANGED <<bucket, elapsed, admitted>>

Next == (\E s \in Sessions : Take(s)) \/ (\E k \in Buckets : Purge(k)) \/ Tick \/ SetBack

Spec == Init /\ [][Next]_limitVars

-----------------------------------------------------------------------------
TypeOK ==
    /\ now \in 0..(2 * MaxTime) /\ elapsed \in 0..MaxTime /\ back \in BOOLEAN
    /\ \A k \in Buckets :
          /\ bucket[k] \in [ticks : 0..Full(k), updated : Nat, expires : Nat]
          /\ admitted[k] \in Nat

\* No bucket lets more through than its burst and what the time regained,
\* whatever becomes of the clock, the keys and the answers (takeTokens).
RateBounded ==
    \A k \in Buckets : admitted[k] * Every[k[1]] <= Full(k) + elapsed

\* Whoever is refused and waits as told finds a token if nobody else takes
\* one, and no sooner unless the clock was set back, which makes keys expire
\* early (the hint of takeTokens).
HintHonest ==
    \A s \in Sessions :
        LET wait == Wait(s, now)
        IN  /\ wait > 0 => Wait(s, now + wait) = 0
            /\ wait > 0 /\ ~back => Wait(s, now + wait - 1) > 0
=============================================================================

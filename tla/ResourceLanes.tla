---------------------------- MODULE ResourceLanes ----------------------------
(* The slots of the generation lane.  A holder needs a key of Redis, which *)
(* is a hint, and a lease of PostgreSQL, which decides; both run out by a  *)
(* clock of their own and both are renewed by the holder's renewal loop.   *)
EXTENDS Naturals, FiniteSets, FiniteSetsExt

CONSTANTS
    Holders,    \* acquisitions, each with an owner of its own
    MaxSlots,   \* bound of the exploration for max_video_running
    TTL         \* 60 s, in ticks: of the key and of the lease

ConstantsOK ==
    /\ MaxSlots \in Nat \ {0} /\ TTL \in Nat \ {0}
    /\ IsFiniteSet(Holders) /\ "nobody" \notin Holders

VARIABLES
    limit,      \* max_video_running
    key,        \* of a slot: the key of Redis
    lease,      \* of a slot: the row of resource_leases
    holder      \* of an acquisition: where Acquire stands

vars == <<limit, key, lease, holder>>

Slots == 0 .. MaxSlots - 1
Free == [owner |-> "nobody", left |-> 0]
Taken(h) == [owner |-> h, left |-> TTL]
Idle == [phase |-> "seek", slot |-> 0, since |-> 0]

Init ==
    /\ limit \in 1 .. MaxSlots
    /\ key = [s \in Slots |-> Free] /\ lease = [s \in Slots |-> Free]
    /\ holder = [h \in Holders |-> Idle]

At(h, phase) == holder[h].phase = phase
Go(h, phase) == holder' = [holder EXCEPT ![h].phase = phase]
Leave(h) == holder' = [holder EXCEPT ![h] = [Idle EXCEPT !.phase = "gone"]]
Live(s) == lease[s].owner # "nobody"

\* Slots above a newly lowered limit count until their call has ended.
Available == Cardinality({s \in Slots : Live(s)}) < limit

ByName(s, h) == Free                    \* mutant: whoever holds the slot
\* Both releases name the owner: what another one holds by now is left alone.
Released(s, h) == IF lease[s].owner = h THEN Free ELSE lease[s]
Unkeyed(h) ==
    [s \in Slots |-> IF s = holder[h].slot /\ key[s].owner = h THEN Free ELSE key[s]]

\* SetNX, on the slots below the limit that was read.
TakeKey(h) ==
    /\ At(h, "seek")
    /\ \E s \in Slots :
        /\ s < limit /\ key[s].owner = "nobody"
        /\ key' = [key EXCEPT ![s] = Taken(h)]
        /\ holder' = [holder EXCEPT ![h] = [phase |-> "keyed", slot |-> s, since |-> 0]]
    /\ UNCHANGED <<limit, lease>>

\* AcquireResource: a lease that ran out gives way, a live one does not.
TakeLease(h) ==
    /\ At(h, "keyed") /\ Available
    /\ LET s == holder[h].slot IN
        /\ ~Live(s)
        /\ lease' = [lease EXCEPT ![s] = Taken(h)]
        /\ \/ /\ holder' = [holder EXCEPT ![h].phase = "hold", ![h].since = 0]
              /\ UNCHANGED key
           \/ Leave(h) /\ key' = Unkeyed(h)        \* its answer was lost
    /\ UNCHANGED limit

\* Refused, the key is given back and the next slot is tried; an error, such as
\* the fence of a run that was taken over, ends it.
DropKey(h) ==
    /\ At(h, "keyed")
    /\ key' = Unkeyed(h)
    /\ \/ Leave(h)
       \/ holder' = [holder EXCEPT ![h] = Idle] /\ (~Available \/ Live(holder[h].slot))
    /\ UNCHANGED <<limit, lease>>

\* Each ten seconds: the key, then the lease.
Renew(h) ==
    LET s == holder[h].slot IN
    /\ At(h, "hold") /\ key[s].owner = h
    /\ key' = [key EXCEPT ![s] = Taken(h)]
    /\ \/ /\ lease[s].owner = h
          /\ lease' = [lease EXCEPT ![s] = Taken(h)]
          /\ holder' = [holder EXCEPT ![h].since = 0]
       \/ UNCHANGED lease /\ Go(h, "stop")
    /\ UNCHANGED limit

\* A renewal that finds another owner or an error, or the run is cancelled.
Stop(h) ==
    /\ At(h, "hold") /\ Go(h, "stop")
    /\ UNCHANGED <<limit, key, lease>>

\* release, called in a `defer`: the lease, then the key; each may fail.
Release(h) ==
    /\ holder[h].phase \in {"hold", "stop"}
    /\ holder' = [holder EXCEPT ![h].phase = "unkey", ![h].since = 0]
    /\ \/ lease' = [lease EXCEPT ![holder[h].slot] = Released(holder[h].slot, h)]
       \/ UNCHANGED lease
    /\ UNCHANGED <<limit, key>>

Unkey(h) ==
    /\ At(h, "unkey") /\ Leave(h)
    /\ key' \in {Unkeyed(h), key}
    /\ UNCHANGED <<limit, lease>>

Crash(h) ==
    /\ holder[h].phase \in {"keyed", "hold", "stop", "unkey"}
    /\ Leave(h) /\ UNCHANGED <<limit, key, lease>>

RedisLost(s) ==
    /\ key[s] # Free /\ key' = [key EXCEPT ![s] = Free]
    /\ UNCHANGED <<limit, lease, holder>>

SaveExecutionSettings ==
    /\ limit' \in (1 .. MaxSlots) \ {limit}
    /\ UNCHANGED <<key, lease, holder>>

\* A row that ran out is as good as none: it can be neither renewed nor in the way.
Aged(grant) == IF grant.left <= 1 THEN Free ELSE [grant EXCEPT !.left = @ - 1]

\* A renewal loop may miss any number of its turns.
Tick ==
    /\ \/ \E s \in Slots : key[s].left > 0 \/ lease[s].left > 0
       \/ \E h \in Holders : At(h, "hold") /\ holder[h].since <= TTL
    /\ key' = [s \in Slots |-> Aged(key[s])]
    /\ lease' = [s \in Slots |-> Aged(lease[s])]
    /\ holder' = [h \in Holders |->
        IF At(h, "hold") THEN [holder[h] EXCEPT !.since = Min({@ + 1, TTL + 1})] ELSE holder[h]]
    /\ UNCHANGED limit

Next ==
    \/ \E h \in Holders :
        \/ TakeKey(h) \/ TakeLease(h) \/ DropKey(h) \/ Renew(h) \/ Stop(h)
        \/ Release(h) \/ Unkey(h) \/ Crash(h)
    \/ \E s \in Slots : RedisLost(s)
    \/ SaveExecutionSettings \/ Tick
Spec == Init /\ [][Next]_vars

-----------------------------------------------------------------------------
(* Keys and leases name an acquisition with the time they have left. *)
TypeOK ==
    /\ limit \in 1 .. MaxSlots
    /\ {key, lease} \subseteq
        [Slots -> [owner : Holders \cup {"nobody"}, left : 0 .. TTL]]
    /\ holder \in [Holders ->
        [phase : {"seek", "keyed", "hold", "stop", "unkey", "gone"},
         slot : Slots, since : 0 .. TTL + 1]]

(* Of the calls that hold one slot, at most one renewed its lease in time: *)
(* whatever Redis forgets and whoever is late, no two calls whose renewal  *)
(* loops run share a slot (manager.go:86, resources.go:10-58).             *)
OnTime(h) == At(h, "hold") /\ holder[h].since < TTL
LaneExclusive ==
    \A g, h \in Holders :
        OnTime(g) /\ OnTime(h) /\ holder[g].slot = holder[h].slot => g = h

=============================================================================

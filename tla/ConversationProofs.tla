-------------------------- MODULE ConversationProofs --------------------------
(* A conversation stays one thread, and no question becomes two turns, for  *)
(* any number of tabs, questions, submissions, turns and deleted keys; and  *)
(* the rates that bound what visitors submit are kept.                      *)
EXTENDS Admission, Integers, FiniteSets, TLAPS

Asked ==
  [ask : Questions \cup {"retry"}, of : Slots, key : Keys,
   status : {"live", "done", "failed"}, whole : BOOLEAN]
Records == [state : {"absent", "fresh", "over", "gone"}, body : Bodies, turn : Slots]
Writes == {Nothing} \cup [key : Keys, body : Bodies]
Views ==
  [last : Slots, seen : SUBSET Turns, sent : 0..MaxSends, key : 0..MaxSends,
   slot : Slots, reply : [code : Codes, turn : Slots]]
Posts == [tab : Tabs, sent : Keys, key : Keys, body : Bodies, whole : BOOLEAN]

LEMMA Shapes ==
  TypeOK <=> /\ turns \in Seq(Asked) /\ Len(turns) <= MaxTurns
             /\ conv \in [last : Slots, active : Slots]
             /\ rows \in [Keys -> Records] /\ kept \in [Tabs -> [Slots -> Writes]]
             /\ tab \in [Tabs -> Views] /\ posts \subseteq Posts
             /\ sends \in 0..MaxSends /\ deletes \in 0..MaxDeletes
BY DEF TypeOK, Asked, Records, Writes, Views, Posts

-----------------------------------------------------------------------------
(* The inductive invariant. *)

\* What a tab lists, and what it was answered, are turns.
TabsKnow ==
  \A t \in Tabs : /\ tab[t].seen \subseteq DOMAIN turns
                  /\ tab[t].reply.code = "accepted" => tab[t].reply.turn \in DOMAIN turns

\* A remembered key made the turn of its row.
RowsKnow ==
  \A k \in Keys : Remembered(k) =>
    rows[k].turn \in DOMAIN turns /\ turns[rows[k].turn].key = k

\* Somebody has the body that a key stands for: a request under way, the storage
\* of a tab, or the server.
Carries(k, body) ==
  \/ \E p \in posts : p.key = k /\ p.body = body
  \/ \E t \in Tabs, s \in Slots : kept[t][s] = [key |-> k, body |-> body]
  \/ rows[k].state # "absent" /\ rows[k].body = body

KeysKnown == \A k \in Keys : \A body \in Bodies : Carries(k, body) => k <= sends
OneBody ==
  \A k \in Keys : \A b, c \in Bodies : Carries(k, b) /\ Carries(k, c) => b = c

\* A submission either retries the last turn its tab knew, or, if the tab listed
\* all turns up to that one, asks what none of them asked.
PostsSound ==
  \A p \in posts :
    /\ p.body.of \in {0, p.body.expected}
    /\ p.whole /\ p.body.of = 0 =>
         \A n \in 1..p.body.expected : n \in DOMAIN turns /\ turns[n].ask # p.body.ask

\* A turn retries an earlier one.
TurnsSound == \A n \in DOMAIN turns : turns[n].of < n

ConversationInv ==
  /\ TypeOK /\ ThreadInStep
  /\ TabsKnow /\ RowsKnow /\ KeysKnown /\ OneBody
  /\ PostsSound /\ TurnsSound /\ SentOnce

-----------------------------------------------------------------------------
(* What the steps leave. *)

\* A submission carries a new key, or one that its tab keeps for the same body.
SubmitsAs(t, slot, body, key) ==
  /\ key = sends + 1 \/ kept[t][slot] = [key |-> key, body |-> body]
  /\ sends + 1 \in Keys /\ sends' = sends + 1
  /\ kept' = [kept EXCEPT ![t][slot] = [key |-> key, body |-> body]]
  /\ posts' = posts \cup {[tab |-> t, sent |-> sends + 1, key |-> key, body |-> body,
                           whole |-> tab[t].seen = 1..body.expected]}
  /\ tab' = [tab EXCEPT ![t].sent = sends + 1, ![t].key = key, ![t].slot = slot,
                        ![t].reply = NoReply]
  /\ UNCHANGED <<turns, conv, rows, deletes>>

LEMMA SubmitKeys ==
  ASSUME ConstantsOK, TypeOK, NEW t \in Tabs, NEW slot \in Slots, NEW body \in Bodies,
         Submit(t, slot, body)
  PROVE  \E key \in Keys : SubmitsAs(t, slot, body, key)
<1>1. sends < MaxSends
  BY DEF Submit
<1>2. sends \in Nat /\ sends + 1 \in Keys /\ kept[t][slot] \in Writes
  BY <1>1, Shapes DEF ConstantsOK, Keys
<1>3. PICK key \in {sends + 1} \cup (IF Reusable(kept[t][slot], body) THEN {kept[t][slot].key} ELSE {}) :
        /\ sends' = sends + 1
        /\ kept' = [kept EXCEPT ![t][slot] = [key |-> key, body |-> body]]
        /\ posts' = posts \cup {[tab |-> t, sent |-> sends + 1, key |-> key, body |-> body,
                                 whole |-> tab[t].seen = 1..body.expected]}
        /\ tab' = [tab EXCEPT ![t].sent = sends + 1, ![t].key = key, ![t].slot = slot,
                              ![t].reply = NoReply]
        /\ UNCHANGED <<turns, conv, rows, deletes>>
  BY DEF Submit
<1>4. key \in Keys /\ (key = sends + 1 \/ kept[t][slot] = [key |-> key, body |-> body])
  <2>1. CASE key = sends + 1
    BY <1>2, <2>1
  <2>2. CASE Reusable(kept[t][slot], body) /\ key = kept[t][slot].key
    <3>1. kept[t][slot] \in [key : Keys, body : Bodies] /\ kept[t][slot].body = body
      BY <1>2, <2>2 DEF Writes, Reusable
    <3> QED BY <2>2, <3>1
  <2> QED BY <2>1, <2>2
<1>5. SubmitsAs(t, slot, body, key)
  BY <1>2, <1>3, <1>4 DEF SubmitsAs
<1> QED BY <1>4, <1>5

LEMMA Submits ==
  ASSUME ConstantsOK, TypeOK, TabsKnow, NEW t \in Tabs,
         Retry(t) \/ \E q \in Questions : Send(t, q)
  PROVE  \E slot \in Slots, body \in Bodies :
           /\ Submit(t, slot, body)
           /\ body.of \in {0, body.expected}
           /\ body.of = 0 => \A n \in tab[t].seen : turns[n].ask # body.ask
<1>1. tab[t] \in Views /\ 0 \in Slots
  BY Shapes DEF Slots, ConstantsOK
<1>2. tab[t].last \in Slots
  BY <1>1 DEF Views
<1>3. ASSUME NEW q \in Questions, Send(t, q)
      PROVE  \E slot \in Slots, body \in Bodies :
               /\ Submit(t, slot, body)
               /\ body.of \in {0, body.expected}
               /\ body.of = 0 => \A n \in tab[t].seen : turns[n].ask # body.ask
  <2> DEFINE body == [ask |-> q, of |-> 0, expected |-> tab[t].last]
  <2>1. body \in Bodies
    BY <1>1, <1>2 DEF Bodies
  <2>2. Submit(t, 0, body) /\ \A n \in tab[t].seen : turns[n].ask # body.ask
    BY <1>3 DEF Send
  <2>3. body.of = 0
    OBVIOUS
  <2> QED BY <1>1, <2>1, <2>2, <2>3
<1>4. CASE Retry(t)
  <2> DEFINE n == tab[t].last
             body == [ask |-> "retry", of |-> n, expected |-> n]
  <2>1. body \in Bodies
    BY <1>1, <1>2 DEF Bodies
  <2>2. Submit(t, n, body) /\ n \in tab[t].seen
    BY <1>4 DEF Retry
  <2>3. body.of = n /\ body.expected = n /\ n # 0
    BY <1>1, <2>2 DEF Views, Turns
  <2> QED BY <1>2, <2>1, <2>2, <2>3
<1> QED BY <1>3, <1>4

\* Every submission is one of these.
Asks(t) ==
  \E slot \in Slots, body \in Bodies, key \in Keys :
    /\ SubmitsAs(t, slot, body, key)
    /\ body.of \in {0, body.expected}
    /\ body.of = 0 => \A n \in tab[t].seen : turns[n].ask # body.ask

LEMMA Asking ==
  ASSUME ConstantsOK, TypeOK, TabsKnow, NEW t \in Tabs,
         Retry(t) \/ \E q \in Questions : Send(t, q)
  PROVE  Asks(t)
BY Submits, SubmitKeys DEF Asks

LEMMA NextKinds ==
  ASSUME ConstantsOK, TypeOK, TabsKnow, [Next]_convVars
  PROVE  \/ \E t \in Tabs : Load(t) \/ Hear(t) \/ Asks(t)
         \/ \E p \in posts : Handle(p)
         \/ \E n \in DOMAIN turns : End(n)
         \/ \E k \in Keys : Cleanup(k)
         \/ UNCHANGED convVars
BY Asking DEF Next

-----------------------------------------------------------------------------
(* Types. *)

LEMMA LoadedViews ==
  ASSUME ConstantsOK, TypeOK, NEW v \in Views
  PROVE  Loads(v) \subseteq Views
<1>1. /\ conv.last \in Slots /\ DOMAIN turns = 1..Len(turns) /\ Len(turns) \in Nat
      /\ Len(turns) <= MaxTurns
  BY Shapes
<1>2. DOMAIN turns \in SUBSET Turns
  BY <1>1 DEF Turns, ConstantsOK
<1>3. /\ [v EXCEPT !.last = conv.last] \in Views
      /\ [v EXCEPT !.last = conv.last, !.seen = DOMAIN turns] \in Views
  BY <1>1, <1>2 DEF Views
<1> QED BY <1>3 DEF Loads

LEMMA OverViews ==
  ASSUME ConstantsOK, NEW v \in Views
  PROVE  Over(v) \in Views /\ \A n \in Turns : Installed(v, n) \in Views
<1>1. NoReply \in [code : Codes, turn : Slots] /\ 0 \in Slots /\ 0 \in 0..MaxSends
  BY DEF NoReply, Codes, Slots, ConstantsOK
<1>2. Over(v) \in Views
  BY <1>1 DEF Over, Views
<1>3. ASSUME NEW n \in Turns PROVE Installed(v, n) \in Views
  <2>1. n \in Slots
    BY DEF Turns, Slots, ConstantsOK
  <2> QED BY <2>1 DEF Installed, Views
<1> QED BY <1>2, <1>3

\* A tab hears an answer: its submission is over, and its slot may be forgotten.
LEMMA Hears ==
  ASSUME ConstantsOK, TypeOK, TabsKnow, NEW t \in Tabs, Hear(t)
  PROVE  /\ \E v \in Views :
              /\ tab' = [tab EXCEPT ![t] = v]
              /\ v.reply = NoReply /\ v.seen \subseteq DOMAIN turns
         /\ kept' = kept \/ \E s \in Slots : Forget(t, s)
         /\ UNCHANGED <<turns, conv, rows, posts, sends, deletes>>
<1> DEFINE v == tab[t]
<1>1. v \in Views /\ v.seen \subseteq DOMAIN turns /\ v.slot \in Slots
  BY Shapes DEF TabsKnow, Views
<1>2. /\ Over(v) \in Views /\ Over(v).reply = NoReply /\ Over(v).seen = v.seen
  BY <1>1, OverViews DEF Over, Views
<1>3. UNCHANGED <<turns, conv, rows, posts, sends, deletes>>
  BY DEF Hear
<1>4. DOMAIN turns = 1..Len(turns) /\ Len(turns) \in Nat /\ Len(turns) <= MaxTurns
  BY Shapes
<1>5. CASE HearAccepted(t)
  <2> DEFINE n == v.reply.turn
  <2>1. n \in DOMAIN turns /\ n \in Turns
    BY <1>4, <1>5 DEF HearAccepted, TabsKnow, Turns, ConstantsOK
  <2>2. Installed(v, n) \in Views /\ Installed(v, n).seen = v.seen \cup {n}
    BY <1>1, <2>1, OverViews DEF Installed, Views
  <2>3. /\ Over(Installed(v, n)) \in Views /\ Over(Installed(v, n)).reply = NoReply
        /\ Over(Installed(v, n)).seen = Installed(v, n).seen
    BY <2>2, OverViews DEF Over, Views
  <2>4. /\ tab' = [tab EXCEPT ![t] = Over(Installed(v, n))]
        /\ kept' = kept \/ Forget(t, v.slot)
    BY <1>5 DEF HearAccepted
  <2> QED BY <1>1, <1>3, <2>1, <2>2, <2>3, <2>4
<1>6. CASE HearChanged(t)
  <2>1. PICK w \in Loads(Over(v)) : tab' = [tab EXCEPT ![t] = w]
    BY <1>6 DEF HearChanged
  <2>2. w \in Views
    BY <1>2, <2>1, LoadedViews
  <2>3. w.reply = NoReply /\ w.seen \subseteq DOMAIN turns
    BY <1>1, <1>2, <2>1 DEF Loads, Views
  <2> QED BY <1>1, <1>3, <1>6, <2>1, <2>2, <2>3 DEF HearChanged
<1>7. CASE HearRefusal(t) \/ HearBroken(t) \/ HearNothing(t)
  <2>1. tab' = [tab EXCEPT ![t] = Over(v)] /\ (kept' = kept \/ Forget(t, v.slot))
    BY <1>7 DEF HearRefusal, HearBroken, HearNothing
  <2> QED BY <1>1, <1>2, <1>3, <2>1
<1> QED BY <1>5, <1>6, <1>7 DEF Hear

\* An answer touches nothing else of the tab that waits for it.
LEMMA Responding ==
  ASSUME TypeOK, NEW p \in posts, NEW reply \in [code : Codes, turn : Slots], Respond(p, reply)
  PROVE  /\ posts' = posts \ {p} /\ tab' \in [Tabs -> Views]
         /\ \A t \in Tabs : /\ tab'[t].seen = tab[t].seen
                            /\ tab'[t].reply = reply \/ tab'[t].reply = tab[t].reply
<1>1. tab \in [Tabs -> Views] /\ p \in Posts
  BY Shapes
<1>2. [tab[p.tab] EXCEPT !.reply = reply] \in Views
  BY <1>1 DEF Views, Posts
<1>3. posts' = posts \ {p}
  BY DEF Respond
<1>4. CASE tab' = tab
  BY <1>1, <1>3, <1>4
<1>5. CASE tab' = [tab EXCEPT ![p.tab].reply = reply]
  <2>1. tab' \in [Tabs -> Views]
    BY <1>1, <1>2, <1>5
  <2>2. \A t \in Tabs : /\ tab'[t].seen = tab[t].seen
                        /\ tab'[t].reply = reply \/ tab'[t].reply = tab[t].reply
    BY <1>1, <1>5 DEF Views
  <2> QED BY <1>3, <2>1, <2>2
<1> QED BY <1>4, <1>5 DEF Respond

\* What the server does with a submission.
LEMMA Handling ==
  ASSUME ConstantsOK, TypeOK, NEW p \in posts, Handle(p)
  PROVE  \E reply \in [code : Codes, turn : Slots] :
           /\ Respond(p, reply) /\ UNCHANGED <<kept, sends, deletes>>
           /\ \/ /\ UNCHANGED <<turns, conv>> /\ Remembered(p.key)
                 /\ \E state \in {"fresh", "over"} :
                      /\ rows' = [rows EXCEPT ![p.key].state = state]
                      /\ reply.code = Replay(p, state)
                      /\ reply.code = "accepted" => reply.turn = rows[p.key].turn
              \/ UNCHANGED <<turns, conv, rows>> /\ reply.code # "accepted"
              \/ HandleAccepted(p)
                  /\ (reply.code = "accepted" => reply.turn = Len(turns) + 1)
<1>1. p \in Posts /\ 0 \in Slots /\ rows \in [Keys -> Records]
  BY Shapes DEF Slots, ConstantsOK
<1>2. UNCHANGED <<kept, sends, deletes>>
  BY DEF Handle
<1>3. CASE HandleAgain(p)
  <2>1. PICK state \in {rows[p.key].state, "over"} :
          /\ rows' = [rows EXCEPT ![p.key].state = state]
          /\ IF Replay(p, state) = "accepted"
             THEN Respond(p, View(rows[p.key].turn))
             ELSE Respond(p, Refusal(Replay(p, state)))
    BY <1>3 DEF HandleAgain
  <2>2. state \in {"fresh", "over"} /\ Remembered(p.key) /\ UNCHANGED <<turns, conv>>
    BY <1>3, <2>1 DEF HandleAgain, Remembered
  <2>3. Replay(p, state) \in {"expired", "conflict", "accepted"}
    BY DEF Replay
  <2>4. CASE Replay(p, state) = "accepted"
    <3>1. View(rows[p.key].turn) \in [code : Codes, turn : Slots]
      BY <1>1 DEF View, Codes, Posts, Records
    <3>2. View(rows[p.key].turn).code = "accepted" /\ View(rows[p.key].turn).turn = rows[p.key].turn
      BY DEF View
    <3> QED BY <1>2, <2>1, <2>2, <2>4, <3>1, <3>2
  <2>5. CASE Replay(p, state) # "accepted"
    <3>1. Refusal(Replay(p, state)) \in [code : Codes, turn : Slots]
      BY <1>1, <2>3 DEF Refusal, Codes
    <3>2. Refusal(Replay(p, state)).code = Replay(p, state)
      BY DEF Refusal
    <3> QED BY <1>2, <2>1, <2>2, <2>5, <3>1, <3>2
  <2> QED BY <2>4, <2>5
<1>4. CASE HandleRejected(p)
  <2>1. PICK code \in {"changed", "refused"} : Respond(p, Refusal(code))
    BY <1>4 DEF HandleRejected
  <2>2. Refusal(code) \in [code : Codes, turn : Slots] /\ Refusal(code).code # "accepted"
    BY <1>1, <2>1 DEF Refusal, Codes
  <2> QED BY <1>2, <1>4, <2>1, <2>2 DEF HandleRejected
<1>5. CASE HandleAccepted(p)
  <2>1. Len(turns) + 1 \in Slots
    BY <1>5, Shapes DEF HandleAccepted, Admitted, Slots, ConstantsOK
  <2>2. /\ View(Len(turns) + 1) \in [code : Codes, turn : Slots]
        /\ Refusal("refused") \in [code : Codes, turn : Slots]
        /\ Refusal("refused").code # "accepted" /\ View(Len(turns) + 1).turn = Len(turns) + 1
    BY <1>1, <2>1 DEF Refusal, View, Codes
  <2>3. Respond(p, View(Len(turns) + 1)) \/ Respond(p, Refusal("refused"))
    BY <1>5 DEF HandleAccepted
  <2> QED BY <1>2, <1>5, <2>2, <2>3
<1> QED BY <1>3, <1>4, <1>5 DEF Handle

\* Only an accepted submission and the end of a run change the thread.
LEMMA ThreadSteps ==
  ASSUME ConstantsOK, TypeOK, TabsKnow, [Next]_convVars
  PROVE  \/ UNCHANGED <<turns, conv>>
         \/ \E p \in posts : HandleAccepted(p)
         \/ \E n \in DOMAIN turns : End(n)
<1>1. ASSUME NEW t \in Tabs, Load(t) \/ Hear(t) \/ Asks(t) PROVE UNCHANGED <<turns, conv>>
  BY <1>1 DEF Load, Hear, Asks, SubmitsAs
<1>2. ASSUME NEW p \in posts, Handle(p) PROVE UNCHANGED <<turns, conv>> \/ HandleAccepted(p)
  BY <1>2 DEF Handle, HandleAgain, HandleRejected
<1>3. ASSUME NEW k \in Keys, Cleanup(k) PROVE UNCHANGED <<turns, conv>>
  BY <1>3 DEF Cleanup
<1>4. CASE UNCHANGED convVars
  BY <1>4 DEF convVars
<1> QED BY <1>1, <1>2, <1>3, <1>4, NextKinds

\* Turns are only appended, and only their status changes.
LEMMA TurnsStay ==
  ASSUME ConstantsOK, TypeOK, TabsKnow, [Next]_convVars
  PROVE  /\ turns' \in Seq(Asked) /\ Len(turns') <= MaxTurns
         /\ \A n \in DOMAIN turns :
              /\ n \in DOMAIN turns' /\ turns'[n].ask = turns[n].ask /\ turns'[n].of = turns[n].of
              /\ turns'[n].key = turns[n].key /\ turns'[n].whole = turns[n].whole
<1>1. turns \in Seq(Asked) /\ Len(turns) <= MaxTurns
  BY Shapes
<1>2. CASE UNCHANGED turns
  BY <1>1, <1>2
<1>3. ASSUME NEW p \in posts, HandleAccepted(p)
      PROVE  /\ turns' \in Seq(Asked) /\ Len(turns') <= MaxTurns
             /\ \A n \in DOMAIN turns : n \in DOMAIN turns' /\ turns'[n] = turns[n]
  <2> DEFINE turn == [ask |-> p.body.ask, of |-> p.body.of, status |-> "live",
                      key |-> p.key, whole |-> p.whole]
  <2>1. p \in Posts
    BY Shapes
  <2>2. turn \in Asked
    BY <2>1 DEF Posts, Bodies, Asked
  <2>3. turns' = Append(turns, turn) /\ Len(turns) < MaxTurns
    BY <1>3 DEF HandleAccepted, Admitted
  <2> HIDE DEF turn
  <2>4. turns' \in Seq(Asked) /\ Len(turns') = Len(turns) + 1
    BY <1>1, <2>2, <2>3
  <2>5. \A n \in DOMAIN turns : n \in DOMAIN turns' /\ turns'[n] = turns[n]
    BY <1>1, <2>2, <2>3
  <2> QED BY <1>1, <2>3, <2>4, <2>5 DEF ConstantsOK
<1>4. ASSUME NEW n \in DOMAIN turns, End(n)
      PROVE  /\ turns' \in Seq(Asked) /\ Len(turns') <= MaxTurns
             /\ \A m \in DOMAIN turns :
                  /\ m \in DOMAIN turns' /\ turns'[m].ask = turns[m].ask /\ turns'[m].of = turns[m].of
                  /\ turns'[m].key = turns[m].key /\ turns'[m].whole = turns[m].whole
  <2>1. PICK s \in {"done", "failed"} : turns' = [turns EXCEPT ![n].status = s]
    BY <1>4 DEF End
  <2>2. [turns[n] EXCEPT !.status = s] \in Asked
    <3>1. turns[n] \in Asked
      BY <1>1
    <3> QED BY <3>1 DEF Asked
  <2>3. turns' \in Seq(Asked) /\ Len(turns') = Len(turns) /\ DOMAIN turns' = DOMAIN turns
    BY <1>1, <2>1, <2>2
  <2>4. \A m \in DOMAIN turns : turns[m] \in Asked
    BY <1>1
  <2>5. \A m \in DOMAIN turns :
          /\ turns'[m].ask = turns[m].ask /\ turns'[m].of = turns[m].of
          /\ turns'[m].key = turns[m].key /\ turns'[m].whole = turns[m].whole
    BY <1>1, <2>1, <2>4 DEF Asked
  <2> QED BY <1>1, <2>3, <2>5
<1>5. \/ UNCHANGED turns
      \/ \E p \in posts : HandleAccepted(p)
      \/ \E n \in DOMAIN turns : End(n)
  BY ThreadSteps
<1> QED BY <1>2, <1>3, <1>4, <1>5
LEMMA StepTypes ==
  ASSUME ConstantsOK, TypeOK, TabsKnow, [Next]_convVars
  PROVE  TypeOK'
<1>1. /\ conv \in [last : Slots, active : Slots]
      /\ rows \in [Keys -> Records] /\ kept \in [Tabs -> [Slots -> Writes]]
      /\ tab \in [Tabs -> Views] /\ posts \subseteq Posts
      /\ sends \in 0..MaxSends /\ deletes \in 0..MaxDeletes
  BY Shapes
<1>2. turns' \in Seq(Asked) /\ Len(turns') <= MaxTurns
  BY TurnsStay
<1>3. SUFFICES /\ conv' \in [last : Slots, active : Slots]
               /\ rows' \in [Keys -> Records] /\ kept' \in [Tabs -> [Slots -> Writes]]
               /\ tab' \in [Tabs -> Views] /\ posts' \subseteq Posts
               /\ sends' \in 0..MaxSends /\ deletes' \in 0..MaxDeletes
  BY <1>2 DEF TypeOK, Asked, Records, Writes, Views, Posts
<1>4. ASSUME NEW t \in Tabs, Load(t) PROVE <1>3!1
  <2>1. PICK v \in Loads(tab[t]) : tab' = [tab EXCEPT ![t] = v]
    BY <1>4 DEF Load
  <2>2. v \in Views
    BY <1>1, <2>1, LoadedViews
  <2>3. tab' \in [Tabs -> Views]
    BY <1>1, <2>1, <2>2
  <2> QED BY <1>1, <1>4, <2>3 DEF Load
<1>5. ASSUME NEW t \in Tabs, Hear(t) PROVE <1>3!1
  <2>1. tab' \in [Tabs -> Views]
    <3>1. PICK v \in Views : tab' = [tab EXCEPT ![t] = v]
      BY <1>5, Hears
    <3> QED BY <1>1, <3>1
  <2>2. kept' \in [Tabs -> [Slots -> Writes]]
    <3>1. Nothing \in Writes
      BY DEF Writes
    <3>2. kept' = kept \/ \E s \in Slots : kept' = [kept EXCEPT ![t][s] = Nothing]
      BY <1>5, Hears DEF Forget
    <3> QED BY <1>1, <3>1, <3>2
  <2>3. UNCHANGED <<turns, conv, rows, posts, sends, deletes>>
    BY <1>5, Hears
  <2> QED BY <1>1, <2>1, <2>2, <2>3
<1>6. ASSUME NEW t \in Tabs, Asks(t) PROVE <1>3!1
  <2>1. PICK slot \in Slots, body \in Bodies, key \in Keys : SubmitsAs(t, slot, body, key)
    BY <1>6 DEF Asks
  <2>2. sends + 1 \in Keys /\ sends + 1 \in 0..MaxSends /\ key \in 0..MaxSends
    BY <1>1, <2>1 DEF SubmitsAs, Keys, ConstantsOK
  <2>3. kept' \in [Tabs -> [Slots -> Writes]]
    <3>1. [key |-> key, body |-> body] \in Writes
      BY DEF Writes
    <3> QED BY <1>1, <2>1, <3>1 DEF SubmitsAs
  <2>4. tab' \in [Tabs -> Views]
    <3> DEFINE v == [tab[t] EXCEPT !.sent = sends + 1, !.key = key, !.slot = slot, !.reply = NoReply]
    <3>1. NoReply \in [code : Codes, turn : Slots]
      BY DEF NoReply, Codes, Slots, ConstantsOK
    <3>2. v \in Views
      BY <1>1, <2>2, <3>1 DEF Views
    <3>3. tab' = [tab EXCEPT ![t] = v]
      BY <1>1, <2>1 DEF SubmitsAs
    <3> HIDE DEF v
    <3> QED BY <1>1, <3>2, <3>3
  <2>5. posts' \subseteq Posts
    <3> DEFINE whole == tab[t].seen = 1..body.expected
               post == [tab |-> t, sent |-> sends + 1, key |-> key, body |-> body, whole |-> whole]
    <3>1. whole \in BOOLEAN
      OBVIOUS
    <3>2. posts' = posts \cup {post}
      BY <2>1 DEF SubmitsAs
    <3> HIDE DEF whole
    <3>3. post \in Posts
      BY <2>2, <3>1 DEF Posts
    <3> QED BY <1>1, <3>2, <3>3
  <2> QED BY <1>1, <2>1, <2>2, <2>3, <2>4, <2>5 DEF SubmitsAs
<1>7. ASSUME NEW p \in posts, Handle(p) PROVE <1>3!1
  <2>1. PICK reply \in [code : Codes, turn : Slots] :
           /\ Respond(p, reply) /\ UNCHANGED <<kept, sends, deletes>>
           /\ \/ UNCHANGED conv /\ \E state \in {"fresh", "over"} :
                                     rows' = [rows EXCEPT ![p.key].state = state]
              \/ UNCHANGED <<conv, rows>>
              \/ HandleAccepted(p)
    BY <1>7, Handling
  <2>2. posts' \subseteq Posts /\ tab' \in [Tabs -> Views]
    BY <1>1, <2>1, Responding
  <2>3. p \in Posts
    BY <1>1
  <2>4. CASE UNCHANGED conv /\ \E state \in {"fresh", "over"} :
                                   rows' = [rows EXCEPT ![p.key].state = state]
    <3>1. PICK state \in {"fresh", "over"} : rows' = [rows EXCEPT ![p.key].state = state]
      BY <2>4
    <3>2. [rows[p.key] EXCEPT !.state = state] \in Records
      BY <1>1, <2>3, <3>1 DEF Posts, Records
    <3>3. rows' \in [Keys -> Records]
      BY <1>1, <3>1, <3>2
    <3> QED BY <1>1, <2>1, <2>2, <2>4, <3>3
  <2>5. CASE HandleAccepted(p)
    <3> DEFINE n == Len(turns) + 1
    <3>1. n \in Slots
      BY <2>5, Shapes DEF HandleAccepted, Admitted, Slots, ConstantsOK
    <3>2. [state |-> "fresh", body |-> p.body, turn |-> n] \in Records
      BY <2>3, <3>1 DEF Posts, Records
    <3>3. rows' = [rows EXCEPT ![p.key] = [state |-> "fresh", body |-> p.body, turn |-> n]]
      BY <2>5 DEF HandleAccepted
    <3>4. conv' = [last |-> n, active |-> n]
      BY <2>5 DEF HandleAccepted
    <3> HIDE DEF n
    <3>5. rows' \in [Keys -> Records]
      BY <1>1, <3>2, <3>3
    <3>6. conv' \in [last : Slots, active : Slots]
      BY <3>1, <3>4
    <3> QED BY <1>1, <2>1, <2>2, <3>5, <3>6
  <2>6. CASE UNCHANGED <<conv, rows>>
    BY <1>1, <2>1, <2>2, <2>6
  <2> QED BY <2>1, <2>4, <2>5, <2>6
<1>8. ASSUME NEW n \in DOMAIN turns, End(n) PROVE <1>3!1
  <2>1. [conv EXCEPT !.active = 0] \in [last : Slots, active : Slots]
    BY <1>1 DEF Slots, ConstantsOK
  <2>2. conv' \in [last : Slots, active : Slots]
    BY <1>1, <1>8, <2>1 DEF End
  <2> QED BY <1>1, <1>8, <2>2 DEF End
<1>9. ASSUME NEW k \in Keys, Cleanup(k) PROVE <1>3!1
  <2>1. [rows[k] EXCEPT !.state = "gone"] \in Records
    BY <1>1 DEF Records
  <2>2. rows' = [rows EXCEPT ![k] = [rows[k] EXCEPT !.state = "gone"]]
    BY <1>1, <1>9 DEF Cleanup
  <2>3. rows' \in [Keys -> Records]
    BY <1>1, <2>1, <2>2
  <2>4. deletes' \in 0..MaxDeletes
    BY <1>1, <1>9 DEF Cleanup, ConstantsOK
  <2> QED BY <1>1, <1>9, <2>3, <2>4 DEF Cleanup
<1>10. CASE UNCHANGED convVars
  BY <1>1, <1>10 DEF convVars
<1> QED BY <1>4, <1>5, <1>6, <1>7, <1>8, <1>9, <1>10, NextKinds

-----------------------------------------------------------------------------
(* The thread. *)

\* The server appends a turn only when none runs, and points at it.
LEMMA StepThread ==
  ASSUME ConstantsOK, TypeOK, TabsKnow, ThreadInStep, [Next]_convVars
  PROVE  ThreadInStep'
<1>1. /\ turns \in Seq(Asked) /\ conv \in [last : Slots, active : Slots]
      /\ DOMAIN turns = 1..Len(turns) /\ Len(turns) \in Nat
  BY Shapes
<1>2. CASE UNCHANGED <<turns, conv>>
  BY <1>2 DEF ThreadInStep, Running
<1>3. ASSUME NEW p \in posts, HandleAccepted(p) PROVE ThreadInStep'
  <2> DEFINE n == Len(turns) + 1
             turn == [ask |-> p.body.ask, of |-> p.body.of, status |-> "live",
                      key |-> p.key, whole |-> p.whole]
  <2>1. conv.active = 0 /\ turns' = Append(turns, turn) /\ conv' = [last |-> n, active |-> n]
    BY <1>3 DEF HandleAccepted, Admitted, InProgress
  <2>2. p \in Posts
    BY Shapes
  <2>3. turn \in Asked /\ turn.status = "live"
    BY <2>2 DEF Posts, Bodies, Asked
  <2> HIDE DEF turn
  <2>4. /\ Len(turns') = n /\ DOMAIN turns' = 1..n /\ turns'[n] = turn
        /\ \A m \in 1..Len(turns) : turns'[m] = turns[m]
    BY <1>1, <2>1, <2>3
  <2>5. \A m \in 1..Len(turns) : turns[m].status # "live"
    BY <1>1, <2>1 DEF ThreadInStep, Running
  <2>6. ASSUME NEW m \in DOMAIN turns' PROVE Running(m)' <=> conv'.active = m
    <3>1. CASE m = n
      BY <2>1, <2>3, <2>4, <3>1 DEF Running
    <3>2. CASE m \in 1..Len(turns)
      BY <1>1, <2>1, <2>4, <2>5, <3>2 DEF Running
    <3> QED BY <1>1, <2>4, <3>1, <3>2
  <2> QED BY <2>1, <2>4, <2>6 DEF ThreadInStep
<1>4. ASSUME NEW n \in DOMAIN turns, End(n) PROVE ThreadInStep'
  <2>1. conv.active = n /\ n # 0
    BY <1>1, <1>4 DEF End, ThreadInStep
  <2>2. PICK s \in {"done", "failed"} : turns' = [turns EXCEPT ![n].status = s]
    BY <1>4 DEF End
  <2>3. conv'.active = 0 /\ conv'.last = conv.last
    BY <1>1, <1>4, <2>1 DEF End
  <2>4. \A m \in DOMAIN turns : turns[m] \in Asked
    BY <1>1
  <2>5. /\ Len(turns') = Len(turns) /\ DOMAIN turns' = DOMAIN turns
        /\ turns'[n].status # "live" /\ \A m \in DOMAIN turns \ {n} : turns'[m] = turns[m]
    BY <1>1, <2>2, <2>4 DEF Asked
  <2>6. \A m \in DOMAIN turns' : ~Running(m)'
    BY <2>1, <2>5 DEF Running, ThreadInStep
  <2>7. \A m \in DOMAIN turns' : conv'.active # m
    BY <1>1, <2>3, <2>5
  <2>8. conv'.last = Len(turns')
    BY <2>3, <2>5 DEF ThreadInStep
  <2> QED BY <2>6, <2>7, <2>8 DEF ThreadInStep
<1>5. \/ UNCHANGED <<turns, conv>>
      \/ \E p \in posts : HandleAccepted(p)
      \/ \E n \in DOMAIN turns : End(n)
  BY ThreadSteps
<1> QED BY <1>2, <1>3, <1>4, <1>5

-----------------------------------------------------------------------------
(* What is known of the turns. *)

LEMMA StepKnown ==
  ASSUME ConstantsOK, TypeOK, TabsKnow, RowsKnow, [Next]_convVars
  PROVE  TabsKnow' /\ RowsKnow'
<1>1. /\ rows \in [Keys -> Records] /\ tab \in [Tabs -> Views] /\ posts \subseteq Posts
      /\ turns \in Seq(Asked)
  BY Shapes
<1>2. \A n \in DOMAIN turns : n \in DOMAIN turns' /\ turns'[n].key = turns[n].key
  BY TurnsStay
<1>3. RowsKnow' \/ rows' # rows
  BY <1>2 DEF RowsKnow, Remembered
<1>4. TabsKnow' \/ tab' # tab
  BY <1>2 DEF TabsKnow
<1>5. ASSUME NEW t \in Tabs, NEW v, tab' = [tab EXCEPT ![t] = v], v.seen \subseteq DOMAIN turns,
             v.reply = NoReply \/ v.reply = tab[t].reply
      PROVE  TabsKnow'
  <2>1. ASSUME NEW u \in Tabs, u # t
        PROVE  tab'[u] = tab[u]
    BY <1>1, <1>5, <2>1
  <2>2. tab'[t] = v
    BY <1>1, <1>5
  <2>3. v.reply.code = "accepted" => v.reply.turn \in DOMAIN turns
    BY <1>5 DEF TabsKnow, NoReply
  <2> QED BY <1>2, <1>5, <2>1, <2>2, <2>3 DEF TabsKnow
<1>6. ASSUME NEW t \in Tabs, Load(t) PROVE TabsKnow' /\ RowsKnow'
  <2>1. PICK v \in Loads(tab[t]) : tab' = [tab EXCEPT ![t] = v]
    BY <1>6 DEF Load
  <2>2. v.seen \subseteq DOMAIN turns /\ v.reply = tab[t].reply
    BY <1>1, <2>1 DEF Loads, Views, TabsKnow
  <2> QED BY <1>3, <1>5, <1>6, <2>1, <2>2 DEF Load
<1>7. ASSUME NEW t \in Tabs, Hear(t) PROVE TabsKnow' /\ RowsKnow'
  <2>1. PICK v \in Views : /\ tab' = [tab EXCEPT ![t] = v]
                          /\ v.reply = NoReply /\ v.seen \subseteq DOMAIN turns
    BY <1>7, Hears
  <2> QED BY <1>3, <1>5, <1>7, <2>1 DEF Hear
<1>8. ASSUME NEW t \in Tabs, Asks(t) PROVE TabsKnow' /\ RowsKnow'
  <2>1. PICK slot \in Slots, body \in Bodies, key \in Keys : SubmitsAs(t, slot, body, key)
    BY <1>8 DEF Asks
  <2> DEFINE v == [tab[t] EXCEPT !.sent = sends + 1, !.key = key, !.slot = slot, !.reply = NoReply]
  <2>2. v.seen = tab[t].seen /\ v.reply = NoReply
    BY <1>1 DEF Views
  <2>3. tab' = [tab EXCEPT ![t] = v]
    BY <1>1, <2>1 DEF SubmitsAs
  <2> HIDE DEF v
  <2>4. rows' = rows
    BY <2>1 DEF SubmitsAs
  <2>5. TabsKnow'
    BY <1>5, <2>2, <2>3 DEF TabsKnow
  <2> QED BY <1>3, <2>4, <2>5
<1>9. ASSUME NEW p \in posts, Handle(p) PROVE TabsKnow' /\ RowsKnow'
  <2>1. PICK reply \in [code : Codes, turn : Slots] :
           /\ Respond(p, reply)
           /\ \/ /\ Remembered(p.key)
                 /\ \E state \in {"fresh", "over"} :
                      /\ rows' = [rows EXCEPT ![p.key].state = state]
                      /\ reply.code = "accepted" => reply.turn = rows[p.key].turn
              \/ UNCHANGED rows /\ reply.code # "accepted"
              \/ HandleAccepted(p) /\ (reply.code = "accepted" => reply.turn = Len(turns) + 1)
    BY <1>9, Handling
  <2>2. \A t \in Tabs : /\ tab'[t].seen = tab[t].seen
                        /\ tab'[t].reply = reply \/ tab'[t].reply = tab[t].reply
    BY <2>1, Responding
  <2>3. p \in Posts /\ p.key \in Keys
    BY <1>1 DEF Posts
  <2>4. TabsKnow' \/ ~(reply.code = "accepted" => reply.turn \in DOMAIN turns')
    BY <1>2, <2>2 DEF TabsKnow
  <2>5. CASE /\ Remembered(p.key)
             /\ \E state \in {"fresh", "over"} :
                  /\ rows' = [rows EXCEPT ![p.key].state = state]
                  /\ reply.code = "accepted" => reply.turn = rows[p.key].turn
    <3>1. \A k \in Keys : rows'[k].turn = rows[k].turn /\ (k # p.key => rows'[k] = rows[k])
      BY <1>1, <2>3, <2>5 DEF Records
    <3>2. RowsKnow'
      BY <1>2, <2>5, <3>1 DEF RowsKnow, Remembered
    <3>3. reply.code = "accepted" => reply.turn \in DOMAIN turns'
      BY <1>2, <2>3, <2>5 DEF RowsKnow
    <3> QED BY <2>4, <3>2, <3>3
  <2>6. CASE UNCHANGED rows /\ reply.code # "accepted"
    BY <1>3, <2>4, <2>6
  <2>7. CASE HandleAccepted(p) /\ (reply.code = "accepted" => reply.turn = Len(turns) + 1)
    <3> DEFINE n == Len(turns) + 1
               turn == [ask |-> p.body.ask, of |-> p.body.of, status |-> "live",
                        key |-> p.key, whole |-> p.whole]
    <3>1. /\ turns' = Append(turns, turn)
          /\ rows' = [rows EXCEPT ![p.key] = [state |-> "fresh", body |-> p.body, turn |-> n]]
      BY <2>7 DEF HandleAccepted
    <3>2. turn.key = p.key /\ turn \in Asked
      BY <2>3 DEF Posts, Bodies, Asked
    <3> HIDE DEF turn
    <3>3. n \in DOMAIN turns' /\ turns'[n].key = p.key
      BY <1>1, <3>1, <3>2
    <3>4. rows'[p.key].turn = n /\ \A k \in Keys \ {p.key} : rows'[k] = rows[k]
      BY <1>1, <2>3, <3>1
    <3>5. RowsKnow'
      BY <1>2, <3>3, <3>4 DEF RowsKnow, Remembered
    <3> QED BY <2>4, <2>7, <3>3, <3>5
  <2> QED BY <2>1, <2>5, <2>6, <2>7
<1>10. ASSUME NEW k \in Keys, Cleanup(k) PROVE TabsKnow' /\ RowsKnow'
  <2>1. rows'[k].state = "gone" /\ \A l \in Keys \ {k} : rows'[l] = rows[l]
    BY <1>1, <1>10 DEF Cleanup, Records
  <2>2. RowsKnow'
    BY <1>2, <2>1 DEF RowsKnow, Remembered
  <2> QED BY <1>4, <1>10, <2>2 DEF Cleanup
<1>11. CASE UNCHANGED <<rows, tab>>
  BY <1>3, <1>4, <1>11
<1> QED BY <1>6, <1>7, <1>8, <1>9, <1>10, <1>11, NextKinds DEF End, convVars

-----------------------------------------------------------------------------
(* One key stands for one body. *)

\* A step gives no key a body it did not have, except a submission's own key.
LEMMA CarriedBefore ==
  ASSUME ConstantsOK, TypeOK, TabsKnow, [Next]_convVars, NEW k \in Keys, NEW b \in Bodies,
         Carries(k, b)'
  PROVE  \/ Carries(k, b) /\ sends' >= sends
         \/ \E t \in Tabs, slot \in Slots : SubmitsAs(t, slot, b, k)
<1>1. /\ rows \in [Keys -> Records] /\ kept \in [Tabs -> [Slots -> Writes]] /\ posts \subseteq Posts
      /\ sends \in Nat
  BY Shapes DEF ConstantsOK
<1>2. CASE UNCHANGED <<rows, kept, posts, sends>>
  BY <1>1, <1>2 DEF Carries
<1>3. ASSUME NEW t \in Tabs, Hear(t) PROVE Carries(k, b) /\ sends' >= sends
  <2>1. /\ UNCHANGED <<rows, posts, sends>>
        /\ kept' = kept \/ \E s \in Slots : kept' = [kept EXCEPT ![t][s] = Nothing]
    BY <1>3, Hears DEF Forget
  <2>2. Nothing # [key |-> k, body |-> b]
    BY DEF Nothing, Keys
  <2>3. \A u \in Tabs, s \in Slots :
          kept'[u][s] = [key |-> k, body |-> b] => kept[u][s] = [key |-> k, body |-> b]
    BY <1>1, <2>1, <2>2
  <2> QED BY <1>1, <2>1, <2>3 DEF Carries
<1>4. ASSUME NEW t \in Tabs, Asks(t)
      PROVE  \/ Carries(k, b) /\ sends' >= sends
             \/ \E slot \in Slots : SubmitsAs(t, slot, b, k)
  <2>1. PICK slot \in Slots, body \in Bodies, key \in Keys : SubmitsAs(t, slot, body, key)
    BY <1>4 DEF Asks
  <2>2. CASE k = key /\ b = body
    BY <2>1, <2>2
  <2>3. CASE ~(k = key /\ b = body)
    <3>1. \A p \in posts' : p.key = k /\ p.body = b => p \in posts
      BY <2>1, <2>3 DEF SubmitsAs
    <3>2. [key |-> key, body |-> body] # [key |-> k, body |-> b]
      BY <2>3
    <3>3. kept' = [kept EXCEPT ![t][slot] = [key |-> key, body |-> body]]
      BY <2>1 DEF SubmitsAs
    <3>4. \A u \in Tabs, s \in Slots :
          kept'[u][s] = [key |-> k, body |-> b] => kept[u][s] = [key |-> k, body |-> b]
      BY <1>1, <3>2, <3>3
    <3>5. rows' = rows /\ sends' = sends + 1
      BY <2>1 DEF SubmitsAs
    <3> QED BY <1>1, <3>1, <3>4, <3>5 DEF Carries
  <2> QED BY <2>2, <2>3
<1>5. ASSUME NEW p \in posts, Handle(p) PROVE Carries(k, b) /\ sends' >= sends
  <2>1. PICK reply \in [code : Codes, turn : Slots] :
           /\ Respond(p, reply) /\ UNCHANGED <<kept, sends>>
           /\ \/ /\ Remembered(p.key)
                 /\ \E state \in {"fresh", "over"} : rows' = [rows EXCEPT ![p.key].state = state]
              \/ UNCHANGED rows
              \/ HandleAccepted(p)
    BY <1>5, Handling
  <2>2. posts' \subseteq posts
    BY <2>1, Responding
  <2>3. p.key \in Keys
    BY <1>1 DEF Posts
  <2>4. rows'[k].state # "absent" /\ rows'[k].body = b => Carries(k, b)
    <3>1. CASE /\ Remembered(p.key)
               /\ \E state \in {"fresh", "over"} : rows' = [rows EXCEPT ![p.key].state = state]
      <4>1. rows'[k].body = rows[k].body /\ (k # p.key => rows'[k] = rows[k])
        BY <1>1, <2>3, <3>1 DEF Records
      <4> QED BY <3>1, <4>1 DEF Carries, Remembered
    <3>2. CASE HandleAccepted(p)
      <4>1. rows'[p.key].body = p.body /\ (k # p.key => rows'[k] = rows[k])
        BY <1>1, <2>3, <3>2 DEF HandleAccepted
      <4> QED BY <4>1 DEF Carries
    <3>3. CASE UNCHANGED rows
      BY <3>3 DEF Carries
    <3> QED BY <2>1, <3>1, <3>2, <3>3
  <2>5. (\E q \in posts' : q.key = k /\ q.body = b) => Carries(k, b)
    BY <2>2 DEF Carries
  <2>6. (\E t \in Tabs, s \in Slots : kept'[t][s] = [key |-> k, body |-> b]) => Carries(k, b)
    BY <2>1 DEF Carries
  <2> QED BY <1>1, <2>1, <2>4, <2>5, <2>6 DEF Carries
<1>6. ASSUME NEW l \in Keys, Cleanup(l) PROVE Carries(k, b) /\ sends' >= sends
  <2>1. /\ UNCHANGED <<kept, posts, sends>> /\ rows[l].state # "absent"
        /\ rows'[k].body = rows[k].body /\ (k # l => rows'[k] = rows[k])
    BY <1>1, <1>6 DEF Cleanup, Remembered, Records
  <2> QED BY <1>1, <2>1 DEF Carries
<1> QED BY <1>2, <1>3, <1>4, <1>5, <1>6, NextKinds DEF Load, End, convVars

LEMMA StepBodies ==
  ASSUME ConstantsOK, TypeOK, TabsKnow, KeysKnown, OneBody, [Next]_convVars
  PROVE  KeysKnown' /\ OneBody'
<1>1. sends \in Nat
  BY Shapes DEF ConstantsOK
<1>2. kept \in [Tabs -> [Slots -> Writes]]
  BY Shapes
<1>3. ASSUME NEW t \in Tabs, NEW slot \in Slots, NEW body \in Bodies, NEW key \in Keys,
             SubmitsAs(t, slot, body, key)
      PROVE  /\ key <= sends + 1 /\ sends' = sends + 1
             /\ \A c \in Bodies : Carries(key, c) => c = body
  <2>1. CASE key = sends + 1
    BY <1>1, <1>3, <2>1 DEF KeysKnown, SubmitsAs
  <2>2. CASE kept[t][slot] = [key |-> key, body |-> body]
    <3>1. Carries(key, body)
      BY <2>2 DEF Carries
    <3>2. key <= sends
      BY <3>1 DEF KeysKnown
    <3>3. \A c \in Bodies : Carries(key, c) => c = body
      BY <3>1 DEF OneBody
    <3> QED BY <1>1, <1>3, <3>2, <3>3 DEF SubmitsAs, Keys
  <2> QED BY <1>3, <2>1, <2>2 DEF SubmitsAs
<1>4. ASSUME NEW k \in Keys, NEW b \in Bodies, Carries(k, b)' PROVE k <= sends'
  <2>1. CASE Carries(k, b) /\ sends' >= sends
    <3>1. k <= sends
      BY <2>1 DEF KeysKnown
    <3>2. sends' \in Nat
      BY StepTypes, Shapes DEF TypeOK, ConstantsOK
    <3> QED BY <1>1, <2>1, <3>1, <3>2 DEF Keys
  <2>2. CASE \E t \in Tabs, slot \in Slots : SubmitsAs(t, slot, b, k)
    BY <1>3, <2>2
  <2> QED BY <1>4, <2>1, <2>2, CarriedBefore
<1>5. ASSUME NEW k \in Keys, NEW b \in Bodies, NEW c \in Bodies, Carries(k, b)', Carries(k, c)'
      PROVE  b = c
  <2>1. Carries(k, b) \/ \E t \in Tabs, slot \in Slots : SubmitsAs(t, slot, b, k)
    BY <1>5, CarriedBefore
  <2>2. Carries(k, c) \/ \E t \in Tabs, slot \in Slots : SubmitsAs(t, slot, c, k)
    BY <1>5, CarriedBefore
  <2>3. CASE Carries(k, b) /\ Carries(k, c)
    BY <2>3 DEF OneBody
  <2>4. CASE \E t \in Tabs, slot \in Slots : SubmitsAs(t, slot, b, k)
    <3>1. CASE Carries(k, c)
      BY <1>3, <2>4, <3>1
    <3>2. CASE \E t \in Tabs, slot \in Slots : SubmitsAs(t, slot, c, k)
      <4>1. PICK t \in Tabs, slot \in Slots : SubmitsAs(t, slot, b, k)
        BY <2>4
      <4>2. PICK u \in Tabs, other \in Slots : SubmitsAs(u, other, c, k)
        BY <3>2
      <4>3. kept'[t][slot] = [key |-> k, body |-> b] /\ kept'[u][other] = [key |-> k, body |-> c]
        BY <1>2, <4>1, <4>2 DEF SubmitsAs
      <4>4. CASE t = u /\ slot = other
        BY <4>3, <4>4
      <4>5. CASE t # u \/ slot # other
        <5>1. kept'[t][slot] = kept[t][slot]
          BY <1>2, <4>2, <4>5 DEF SubmitsAs
        <5>2. Carries(k, b)
          BY <4>3, <5>1 DEF Carries
        <5> QED BY <1>3, <4>2, <5>2
      <4> QED BY <4>4, <4>5
    <3> QED BY <2>2, <3>1, <3>2
  <2>5. CASE Carries(k, b) /\ \E t \in Tabs, slot \in Slots : SubmitsAs(t, slot, c, k)
    BY <1>3, <2>5
  <2> QED BY <2>1, <2>2, <2>3, <2>4, <2>5
<1> QED BY <1>4, <1>5 DEF KeysKnown, OneBody

-----------------------------------------------------------------------------
(* One question, one turn. *)

LEMMA StepPosts ==
  ASSUME ConstantsOK, TypeOK, TabsKnow, PostsSound, [Next]_convVars
  PROVE  PostsSound'
<1>1. /\ tab \in [Tabs -> Views] /\ posts \subseteq Posts /\ DOMAIN turns = 1..Len(turns)
  BY Shapes
<1>2. \A n \in DOMAIN turns : n \in DOMAIN turns' /\ turns'[n].ask = turns[n].ask
  BY TurnsStay
<1>3. CASE posts' \subseteq posts
  <2>1. \A p \in posts' : p.body.expected \in Slots
    BY <1>1, <1>3 DEF Posts, Bodies
  <2> QED BY <1>2, <1>3, <2>1 DEF PostsSound
<1>4. ASSUME NEW t \in Tabs, Asks(t) PROVE PostsSound'
  <2>1. PICK slot \in Slots, body \in Bodies, key \in Keys :
          /\ SubmitsAs(t, slot, body, key)
          /\ body.of \in {0, body.expected}
          /\ body.of = 0 => \A n \in tab[t].seen : turns[n].ask # body.ask
    BY <1>4 DEF Asks
  <2>2. ASSUME NEW p \in posts'
        PROVE  /\ p.body.of \in {0, p.body.expected}
               /\ p.whole /\ p.body.of = 0 =>
                    \A n \in 1..p.body.expected : n \in DOMAIN turns' /\ turns'[n].ask # p.body.ask
    <3>1. CASE p \in posts
      BY <1>2, <3>1 DEF PostsSound
    <3>2. CASE p = [tab |-> t, sent |-> sends + 1, key |-> key, body |-> body,
                    whole |-> tab[t].seen = 1..body.expected]
      <4>1. p.body = body /\ (p.whole <=> tab[t].seen = 1..body.expected)
        BY <3>2
      <4>2. tab[t].seen \subseteq DOMAIN turns
        BY DEF TabsKnow
      <4> QED BY <1>2, <2>1, <4>1, <4>2
    <3> QED BY <2>1, <2>2, <3>1, <3>2 DEF SubmitsAs
  <2> QED BY <2>2 DEF PostsSound
<1>5. ASSUME NEW p \in posts, Handle(p) PROVE posts' \subseteq posts
  BY <1>5, Handling, Responding
<1>6. ASSUME NEW t \in Tabs, Hear(t) PROVE posts' \subseteq posts
  BY <1>6 DEF Hear
<1> QED BY <1>3, <1>4, <1>5, <1>6, NextKinds DEF Load, End, Cleanup, convVars

\* A turn that is appended retries the last one, or asks what its tab, which knew
\* the last turn, saw nobody ask.
LEMMA StepTurns ==
  ASSUME ConstantsOK, TypeOK, TabsKnow, ThreadInStep, PostsSound, TurnsSound, SentOnce,
         [Next]_convVars
  PROVE  TurnsSound' /\ SentOnce'
<1>1. turns \in Seq(Asked) /\ DOMAIN turns = 1..Len(turns) /\ Len(turns) \in Nat
  BY Shapes
<1>2. ASSUME DOMAIN turns' = DOMAIN turns PROVE TurnsSound' /\ SentOnce'
  <2>1. \A n \in DOMAIN turns : /\ turns'[n].ask = turns[n].ask /\ turns'[n].of = turns[n].of
                               /\ turns'[n].whole = turns[n].whole
    BY TurnsStay
  <2> QED BY <1>2, <2>1 DEF TurnsSound, SentOnce
<1>3. ASSUME NEW p \in posts, HandleAccepted(p) PROVE TurnsSound' /\ SentOnce'
  <2> DEFINE n == Len(turns) + 1
             turn == [ask |-> p.body.ask, of |-> p.body.of, status |-> "live",
                      key |-> p.key, whole |-> p.whole]
  <2>1. /\ turns' = Append(turns, turn) /\ conv.last = p.body.expected
    BY <1>3 DEF HandleAccepted, Admitted, HistoryChanged
  <2>2. p \in Posts
    BY Shapes
  <2>3. /\ turn \in Asked /\ turn.ask = p.body.ask /\ turn.of = p.body.of
        /\ turn.whole = p.whole
    BY <2>2 DEF Posts, Bodies, Asked
  <2>4. p.body.expected = Len(turns) /\ p.body.of \in {0, Len(turns)}
    BY <2>1 DEF ThreadInStep, PostsSound
  <2> HIDE DEF turn
  <2>5. /\ DOMAIN turns' = 1..n /\ turns'[n] = turn
        /\ \A m \in 1..Len(turns) : turns'[m] = turns[m]
    BY <1>1, <2>1, <2>3
  <2>6. TurnsSound'
    BY <1>1, <2>3, <2>4, <2>5 DEF TurnsSound
  <2>7. ASSUME NEW m \in 1..Len(turns), turns[m].ask = turn.ask, turns[m].of = turn.of
        PROVE  ~turn.whole
    <3>1. CASE p.body.of = 0
      BY <2>3, <2>4, <2>7, <3>1 DEF PostsSound
    <3>2. CASE p.body.of = Len(turns)
      BY <1>1, <2>3, <2>7, <3>2 DEF TurnsSound
    <3> QED BY <2>4, <3>1, <3>2
  <2>8. ASSUME NEW i \in DOMAIN turns', NEW j \in DOMAIN turns', i < j,
               turns'[i].ask = turns'[j].ask, turns'[i].of = turns'[j].of
        PROVE  ~turns'[j].whole
    <3>1. i \in 1..Len(turns) /\ (j = n \/ j \in 1..Len(turns))
      BY <1>1, <2>5, <2>8
    <3>2. CASE j = n
      BY <2>5, <2>7, <2>8, <3>1, <3>2
    <3>3. CASE j \in 1..Len(turns)
      BY <1>1, <2>5, <2>8, <3>1, <3>3 DEF SentOnce
    <3> QED BY <3>1, <3>2, <3>3
  <2> QED BY <2>6, <2>8 DEF SentOnce
<1>4. ASSUME NEW n \in DOMAIN turns, End(n) PROVE DOMAIN turns' = DOMAIN turns
  BY <1>1, <1>4 DEF End
<1>5. \/ UNCHANGED turns
      \/ \E p \in posts : HandleAccepted(p)
      \/ \E n \in DOMAIN turns : End(n)
  BY ThreadSteps
<1> QED BY <1>2, <1>3, <1>4, <1>5

-----------------------------------------------------------------------------
(* The theorems. *)

LEMMA InitConversation == ConstantsOK /\ Init => ConversationInv
<1> SUFFICES ASSUME ConstantsOK, Init PROVE ConversationInv
  OBVIOUS
<1>1. /\ turns = <<>> /\ conv = [last |-> 0, active |-> 0] /\ posts = {} /\ sends = 0
      /\ deletes = 0 /\ Len(turns) = 0 /\ DOMAIN turns = {}
  BY DEF Init
<1>2. 0 \in Slots /\ NoRow \in Records /\ Nothing \in Writes /\ Blank \in Views
  BY DEF Slots, NoRow, Records, Bodies, Writes, Blank, Views, NoReply, Codes, ConstantsOK
<1>3. TypeOK
  <2>1. turns \in Seq(Asked) /\ Len(turns) <= MaxTurns
    BY <1>1 DEF ConstantsOK
  <2>2. /\ rows \in [Keys -> Records] /\ kept \in [Tabs -> [Slots -> Writes]] /\ tab \in [Tabs -> Views]
    BY <1>2 DEF Init
  <2>3. sends \in 0..MaxSends /\ deletes \in 0..MaxDeletes
    BY <1>1 DEF ConstantsOK
  <2> QED BY <1>1, <1>2, <2>1, <2>2, <2>3, Shapes
<1>4. ThreadInStep /\ TurnsSound /\ SentOnce /\ PostsSound
  BY <1>1 DEF ThreadInStep, TurnsSound, SentOnce, PostsSound
<1>5. TabsKnow
  BY DEF Init, TabsKnow, Blank, NoReply
<1>6. RowsKnow
  BY DEF Init, RowsKnow, Remembered, NoRow
<1>7. \A k \in Keys : \A body \in Bodies : ~Carries(k, body)
  <2>1. \A k \in Keys : \A body \in Bodies : Nothing # [key |-> k, body |-> body]
    BY DEF Nothing, Keys
  <2> QED BY <1>1, <2>1 DEF Init, Carries, NoRow
<1> QED BY <1>3, <1>4, <1>5, <1>6, <1>7 DEF ConversationInv, KeysKnown, OneBody

LEMMA NextConversation ==
  ConstantsOK /\ ConversationInv /\ [Next]_convVars => ConversationInv'
BY StepTypes, StepThread, StepKnown, StepBodies, StepPosts, StepTurns DEF ConversationInv

LEMMA ConversationKept ==
  ASSUME ConstantsOK
  PROVE  Spec => []ConversationInv
<1>1. Init => ConversationInv
  BY InitConversation
<1>2. ConversationInv /\ [Next]_convVars => ConversationInv'
  BY NextConversation
<1> QED BY <1>1, <1>2, PTL DEF Spec

\* However the tabs' submissions interleave and whatever is lost, late or sent again:
\* the running turn is the last one and the conversation points at it until its end.
THEOREM OneThread ==
  ASSUME ConstantsOK
  PROVE  Spec => []ThreadInStep
<1>1. ConversationInv => ThreadInStep
  BY DEF ConversationInv
<1> QED BY <1>1, ConversationKept, PTL

\* A question that a tab asked with the whole list before it becomes one turn, and a
\* failed turn is retried once, whatever is lost, late or sent again.
THEOREM AskedOnce ==
  ASSUME ConstantsOK
  PROVE  Spec => []SentOnce
<1>1. ConversationInv => SentOnce
  BY DEF ConversationInv
<1> QED BY <1>1, ConversationKept, PTL

\* What a submission with a remembered key is answered.
RepeatAnswered(p) ==
  LET reply == tab'[p.tab].reply
  IN  \/ rows'[p.key].state = "over" /\ reply.code = "expired"
      \/ reply.code = "accepted" /\ turns[reply.turn].key = p.key

LEMMA Repeats ==
  ASSUME ConstantsOK, ConversationInv, NEW p \in posts, Handle(p),
         Remembered(p.key), tab[p.tab].sent = p.sent
  PROVE  RepeatAnswered(p)
<1>1. /\ p \in Posts /\ p.key \in Keys /\ p.tab \in Tabs /\ p.body \in Bodies
      /\ rows \in [Keys -> Records] /\ tab \in [Tabs -> Views]
  BY Shapes DEF ConversationInv, Posts
<1>2. HandleAgain(p)
  BY DEF Handle, HandleRejected, HandleAccepted
<1>3. PICK state \in {rows[p.key].state, "over"} :
        /\ rows' = [rows EXCEPT ![p.key].state = state]
        /\ IF Replay(p, state) = "accepted"
           THEN Respond(p, View(rows[p.key].turn))
           ELSE Respond(p, Refusal(Replay(p, state)))
  BY <1>2 DEF HandleAgain
<1>4. rows'[p.key].state = state /\ state \in {"fresh", "over"}
  BY <1>1, <1>3 DEF Records, Remembered
<1>5. \A reply : Respond(p, reply) => tab'[p.tab].reply = reply
  BY <1>1 DEF Respond, Views
<1>6. CASE state = "over"
  <2>1. Replay(p, state) = "expired"
    BY <1>6 DEF Replay
  <2>2. tab'[p.tab].reply = Refusal("expired")
    BY <1>3, <1>5, <2>1
  <2> QED BY <1>4, <1>6, <2>2 DEF RepeatAnswered, Refusal
<1>7. CASE state = "fresh"
  <2>1. Carries(p.key, p.body) /\ Carries(p.key, rows[p.key].body)
    BY <1>1 DEF Carries, Remembered
  <2>2. rows[p.key].body = p.body
    BY <1>1, <2>1 DEF ConversationInv, OneBody, Records
  <2>3. Replay(p, state) = "accepted"
    BY <1>7, <2>2 DEF Replay
  <2>4. tab'[p.tab].reply = View(rows[p.key].turn)
    BY <1>3, <1>5, <2>3
  <2>5. turns[rows[p.key].turn].key = p.key
    BY <1>1 DEF ConversationInv, RowsKnow
  <2> QED BY <2>4, <2>5 DEF RepeatAnswered, View
<1> QED BY <1>4, <1>6, <1>7

\* A submission that made a turn is answered with that turn when it comes again,
\* whatever happened since, until its key runs out.
THEOREM SameAnswer ==
  ASSUME ConstantsOK
  PROVE  Spec => SameKeySameTurn
<1> DEFINE Answered ==
      \A p \in posts \ posts' :
        (Remembered(p.key) /\ tab[p.tab].sent = p.sent /\ tab' # tab) => RepeatAnswered(p)
<1>1. ASSUME ConversationInv, [Next]_convVars PROVE Answered
  <2>1. TypeOK /\ TabsKnow
    BY <1>1 DEF ConversationInv
  <2>2. ASSUME NEW p \in posts \ posts' PROVE Handle(p)
    <3>1. ASSUME NEW q \in posts, Handle(q) PROVE q = p
      <4>1. posts' = posts \ {q}
        BY <2>1, <3>1, Handling, Responding
      <4> QED BY <2>2, <4>1
    <3>2. ASSUME NEW t \in Tabs, Load(t) \/ Hear(t) \/ Asks(t) PROVE posts \subseteq posts'
      BY <3>2 DEF Load, Hear, Asks, SubmitsAs
    <3> QED BY <1>1, <2>1, <2>2, <3>1, <3>2, NextKinds DEF End, Cleanup, convVars
  <2> QED BY <1>1, <2>2, Repeats
<1>2. ConversationInv /\ [Next]_convVars => [Answered]_convVars
  BY <1>1
<1>3. SameKeySameTurn <=> [][Answered]_convVars
  BY PTL DEF SameKeySameTurn, RepeatAnswered
<1> HIDE DEF Answered
<1> QED BY <1>2, <1>3, ConversationKept, PTL DEF Spec

-----------------------------------------------------------------------------
(* The rates of submissions.                                               *)

Rate(k) == Every[k[1]]

\* What bucket k let through, in ticks, and what it holds never exceed its burst
\* and the time that passed; once it may be forgotten, what it let through does
\* not exceed that time.  It is kept for as long as it takes to fill.
Accounted(k) ==
  LET b == bucket[k]
      used == admitted[k] * Rate(k)
  IN  IF b = Limits!Absent THEN used <= elapsed
      ELSE /\ b.expires <= b.updated + Limits!Full(k)
           /\ used + b.ticks <= Limits!Full(k) + elapsed
           /\ used + b.ticks + now - b.expires <= elapsed
           /\ ~back => b.updated <= now /\ b.expires = b.updated + Limits!Full(k)

LimitsInv ==
  /\ Limits!TypeOK /\ now <= MaxTime + elapsed /\ DOMAIN bucket = Limits!Buckets
  /\ \A k \in Limits!Buckets : Accounted(k)

LEMMA LargerOfTwo ==
  ASSUME NEW a \in Int, NEW b \in Int
  PROVE  Limits!Max({a, b}) = IF a <= b THEN b ELSE a
BY DEF Limits!Max

LEMMA SmallerOfTwo ==
  ASSUME NEW a \in Int, NEW b \in Int
  PROVE  Limits!Min({a, b}) = IF a <= b THEN a ELSE b
BY DEF Limits!Min

LEMMA LargestOfThree ==
  ASSUME NEW a \in Int, NEW b \in Int, NEW c \in Int
  PROVE  Limits!Max({a, b, c}) \in {a, b, c} /\ \A x \in {a, b, c} : Limits!Max({a, b, c}) >= x
<1>1. \E x \in {a, b, c} : \A y \in {a, b, c} : x >= y
  <2>1. CASE a >= b /\ a >= c
    BY <2>1
  <2>2. CASE b >= a /\ b >= c
    BY <2>2
  <2>3. CASE c >= a /\ c >= b
    BY <2>3
  <2> QED BY <2>1, <2>2, <2>3
<1> QED BY <1>1 DEF Limits!Max

\* A bucket holds at least one token.
LEMMA Sizes ==
  ASSUME Limits!ConstantsOK, NEW k \in Limits!Buckets
  PROVE  /\ Rate(k) \in Nat \ {0} /\ Limits!Full(k) \in Nat /\ Rate(k) <= Limits!Full(k)
<1>1. k[1] \in Limits!Dimensions
  <2>1. PICK d \in Limits!Dimensions, s \in Sessions : k = Limits!Key(d, s)
    BY DEF Limits!Buckets
  <2> QED BY <2>1 DEF Limits!Key, Limits!Dimensions
<1>2. Rate(k) \in Nat \ {0} /\ Burst[k[1]] \in Nat \ {0}
  BY <1>1 DEF Rate, Limits!ConstantsOK
<1>3. \A x, y \in Nat \ {0} : x * y \in Nat /\ y <= x * y
  <2>1. \A x, y \in Nat \ {0} : x * y = (x - 1) * y + y /\ (x - 1) * y \in Nat
    OBVIOUS
  <2> QED BY <2>1
<1> QED BY <1>2, <1>3 DEF Limits!Full, Rate

\* What bucket k holds for a submission at some time.
LEMMA Holds ==
  ASSUME Limits!ConstantsOK, LimitsInv, NEW k \in Limits!Buckets, NEW time \in Nat
  PROVE  LET b == bucket[k] IN
         /\ b.ticks \in 0 .. Limits!Full(k) /\ b.updated \in Nat /\ b.expires \in Nat
         /\ Limits!Ticks(k, time) \in 0 .. Limits!Full(k)
         /\ Limits!Stamp(k, time) \in Nat /\ Limits!Stamp(k, time) >= time
         /\ IF Limits!Present(k, time)
            THEN IF b.updated <= time
                 THEN /\ Limits!Stamp(k, time) = time
                      /\ Limits!Ticks(k, time) =
                           IF b.ticks + (time - b.updated) <= Limits!Full(k)
                           THEN b.ticks + (time - b.updated) ELSE Limits!Full(k)
                 ELSE Limits!Stamp(k, time) = b.updated /\ Limits!Ticks(k, time) = b.ticks
            ELSE Limits!Stamp(k, time) = time /\ Limits!Ticks(k, time) = Limits!Full(k)
<1> DEFINE b == bucket[k]
           F == Limits!Full(k)
<1>1. F \in Nat
  BY Sizes
<1>2. b.ticks \in 0 .. F /\ b.updated \in Nat /\ b.expires \in Nat
  BY DEF LimitsInv, Limits!TypeOK
<1>3. CASE ~Limits!Present(k, time)
  BY <1>1, <1>2, <1>3 DEF Limits!Stamp, Limits!Ticks
<1>4. CASE Limits!Present(k, time)
  <2>1. /\ Limits!Stamp(k, time) = Limits!Max({time, b.updated})
        /\ Limits!Ticks(k, time) = Limits!Min({F, b.ticks + Limits!Max({0, time - b.updated})})
    BY <1>4 DEF Limits!Stamp, Limits!Ticks
  <2>2. Limits!Stamp(k, time) = IF time <= b.updated THEN b.updated ELSE time
    BY <1>2, <2>1, LargerOfTwo
  <2>3. Limits!Max({0, time - b.updated}) = IF 0 <= time - b.updated THEN time - b.updated ELSE 0
    BY <1>2, LargerOfTwo
  <2> DEFINE gain == Limits!Max({0, time - b.updated})
  <2>4. gain \in Nat
    BY <1>2, <2>3
  <2> HIDE DEF gain, F
  <2>5. Limits!Ticks(k, time) = IF F <= b.ticks + gain THEN F ELSE b.ticks + gain
    <3>1. Limits!Min({F, b.ticks + gain}) = IF F <= b.ticks + gain THEN F ELSE b.ticks + gain
      BY <1>1, <1>2, <2>4, SmallerOfTwo
    <3> QED BY <2>1, <3>1 DEF gain
  <2>6. Limits!Ticks(k, time) \in 0 .. F
    BY <1>1, <1>2, <2>4, <2>5
  <2>7. gain = IF b.updated <= time THEN time - b.updated ELSE 0
    BY <1>2, <2>3 DEF gain
  <2> HIDE DEF b
  <2>8. IF b.updated <= time
        THEN /\ Limits!Stamp(k, time) = time
             /\ Limits!Ticks(k, time) =
                  IF b.ticks + (time - b.updated) <= F THEN b.ticks + (time - b.updated) ELSE F
        ELSE Limits!Stamp(k, time) = b.updated /\ Limits!Ticks(k, time) = b.ticks
    BY <1>1, <1>2, <2>2, <2>5, <2>7
  <2>9. Limits!Stamp(k, time) \in Nat /\ Limits!Stamp(k, time) >= time
    BY <1>2, <2>2
  <2> QED BY <1>2, <1>4, <2>6, <2>8, <2>9 DEF F, b
<1> QED BY <1>3, <1>4

\* What a bucket may give is accounted for.
LEMMA Covers ==
  ASSUME Limits!ConstantsOK, LimitsInv, NEW k \in Limits!Buckets
  PROVE  /\ admitted[k] * Rate(k) \in Nat
         /\ admitted[k] * Rate(k) + Limits!Ticks(k, now) <= Limits!Full(k) + elapsed
         /\ ~back => Limits!Stamp(k, now) = now
<1> DEFINE used == admitted[k] * Rate(k)
           b == bucket[k]
           F == Limits!Full(k)
<1>1. used \in Nat
  <2>1. admitted[k] \in Nat /\ Rate(k) \in Nat
    BY Sizes DEF LimitsInv, Limits!TypeOK
  <2> QED BY <2>1
<1>2. now \in Nat /\ elapsed \in Nat /\ F \in Nat
  BY Sizes DEF LimitsInv, Limits!TypeOK, Limits!ConstantsOK
<1>3. /\ b.ticks \in 0 .. F /\ b.updated \in Nat /\ b.expires \in Nat
      /\ IF Limits!Present(k, now)
         THEN IF b.updated <= now
              THEN /\ Limits!Stamp(k, now) = now
                   /\ Limits!Ticks(k, now) =
                        IF b.ticks + (now - b.updated) <= F
                        THEN b.ticks + (now - b.updated) ELSE F
              ELSE Limits!Stamp(k, now) = b.updated /\ Limits!Ticks(k, now) = b.ticks
         ELSE Limits!Stamp(k, now) = now /\ Limits!Ticks(k, now) = F
  BY <1>2, Holds
<1>4. IF b = Limits!Absent THEN used <= elapsed
      ELSE /\ b.expires <= b.updated + F
           /\ used + b.ticks <= F + elapsed
           /\ used + b.ticks + now - b.expires <= elapsed
           /\ ~back => b.updated <= now /\ b.expires = b.updated + F
  BY DEF LimitsInv, Accounted
<1>5. Limits!Present(k, now) <=> b # Limits!Absent /\ now <= b.expires
  BY DEF Limits!Present
<1> HIDE DEF used, b, F
<1>6. used + Limits!Ticks(k, now) <= F + elapsed
  BY <1>1, <1>2, <1>3, <1>4, <1>5
<1>7. ~back => Limits!Stamp(k, now) = now
  BY <1>1, <1>2, <1>3, <1>4, <1>5
<1> QED BY <1>1, <1>6, <1>7 DEF used, F

\* How long a submission waits is the longest that one of its buckets needs.
LEMMA WaitsForTheSlowest ==
  ASSUME Limits!ConstantsOK, LimitsInv, NEW s \in Sessions, NEW time \in Nat
  PROVE  /\ Limits!KeysOf(s) \subseteq Limits!Buckets
         /\ \A k \in Limits!KeysOf(s) :
              Limits!Lack(k, time) \in Nat /\ Limits!Lack(k, time) <= Limits!Wait(s, time)
         /\ \E k \in Limits!KeysOf(s) : Limits!Wait(s, time) = Limits!Lack(k, time)
<1>1. Limits!KeysOf(s) \subseteq Limits!Buckets
  BY DEF Limits!KeysOf, Limits!Buckets
<1>2. \A k \in Limits!KeysOf(s) : Limits!Lack(k, time) \in Nat
  <2>1. ASSUME NEW k \in Limits!KeysOf(s) PROVE Limits!Lack(k, time) \in Nat
    <3>1. k \in Limits!Buckets
      BY <1>1
    <3>2. Rate(k) \in Nat /\ Limits!Full(k) \in Nat
      BY <3>1, Sizes
    <3>3. /\ Limits!Ticks(k, time) \in 0 .. Limits!Full(k)
          /\ Limits!Stamp(k, time) \in Nat /\ Limits!Stamp(k, time) >= time
      BY <3>1, Holds
    <3> QED BY <3>2, <3>3 DEF Limits!Lack, Rate
  <2> QED BY <2>1
<1>3. PICK k1, k2, k3 : Limits!KeysOf(s) = {k1, k2, k3}
  BY DEF Limits!KeysOf, Limits!Dimensions
<1> DEFINE a == Limits!Lack(k1, time)
           b == Limits!Lack(k2, time)
           c == Limits!Lack(k3, time)
<1>4. a \in Int /\ b \in Int /\ c \in Int
  BY <1>2, <1>3
<1>5. {Limits!Lack(k, time) : k \in Limits!KeysOf(s)} = {a, b, c}
  BY <1>3
<1>6. Limits!Wait(s, time) = Limits!Max({a, b, c})
  BY <1>5 DEF Limits!Wait
<1> HIDE DEF a, b, c
<1>7. Limits!Wait(s, time) \in {a, b, c} /\ \A x \in {a, b, c} : Limits!Wait(s, time) >= x
  <2>1. Limits!Max({a, b, c}) \in {a, b, c} /\ \A x \in {a, b, c} : Limits!Max({a, b, c}) >= x
    BY <1>4, LargestOfThree
  <2> QED BY <1>6, <2>1
<1>8. \A k \in Limits!KeysOf(s) : Limits!Lack(k, time) \in {a, b, c}
  BY <1>3 DEF a, b, c
<1>9. \A x \in {a, b, c} : x <= Limits!Wait(s, time)
  BY <1>4, <1>7
<1>10. \E k \in Limits!KeysOf(s) : Limits!Wait(s, time) = Limits!Lack(k, time)
  BY <1>3, <1>7 DEF a, b, c
<1> QED BY <1>1, <1>2, <1>8, <1>9, <1>10

LEMMA InitLimits == ASSUME Limits!ConstantsOK, Limits!Init PROVE LimitsInv
<1>1. \A k \in Limits!Buckets : Limits!Full(k) \in Nat /\ Rate(k) \in Nat
  BY Sizes
<1>2. \A k \in Limits!Buckets : Accounted(k)
  BY <1>1 DEF Limits!Init, Accounted
<1>3. now = MaxTime /\ elapsed = 0 /\ back = FALSE /\ MaxTime \in Nat
  BY DEF Limits!ConstantsOK, Limits!Init
<1>4. \A k \in Limits!Buckets :
        /\ bucket[k] \in [ticks : 0 .. Limits!Full(k), updated : Nat, expires : Nat]
        /\ admitted[k] \in Nat
  BY <1>1 DEF Limits!Init, Limits!Absent
<1>5. now \in 0 .. 2 * MaxTime /\ elapsed \in 0 .. MaxTime /\ now <= MaxTime + elapsed
  BY <1>3
<1>6. DOMAIN bucket = Limits!Buckets /\ back \in BOOLEAN
  BY DEF Limits!Init
<1> QED BY <1>2, <1>4, <1>5, <1>6 DEF LimitsInv, Limits!TypeOK

\* A token is taken of bucket k, and the submission is let through or not.
LEMMA TakenAccounted ==
  ASSUME Limits!ConstantsOK, LimitsInv, NEW s \in Sessions, Limits!Take(s),
         NEW k \in Limits!KeysOf(s)
  PROVE  /\ bucket'[k] \in [ticks : 0 .. Limits!Full(k), updated : Nat, expires : Nat]
         /\ admitted'[k] \in Nat /\ Accounted(k)'
<1> DEFINE F == Limits!Full(k)
           E == Rate(k)
           used == admitted[k] * E
           ticks == Limits!Ticks(k, now)
           stamp == Limits!Stamp(k, now)
<1>0. k \in Limits!Buckets
  BY DEF Limits!KeysOf, Limits!Buckets
<1>1. E \in Nat \ {0} /\ F \in Nat /\ E <= F
  BY <1>0, Sizes
<1>2. now \in Nat /\ elapsed \in Nat /\ admitted[k] \in Nat /\ back \in BOOLEAN
  BY <1>0 DEF LimitsInv, Limits!TypeOK, Limits!ConstantsOK
<1>3. ticks \in 0 .. F /\ stamp \in Nat /\ stamp >= now
  BY <1>0, <1>2, Holds
<1>4. used \in Nat /\ used + ticks <= F + elapsed /\ (~back => stamp = now)
  BY <1>0, Covers
<1>5. ticks >= E
  <2>1. Limits!Lack(k, now) = 0
    <3>1. Limits!Lack(k, now) \in Nat /\ Limits!Lack(k, now) <= 0
      BY <1>2, WaitsForTheSlowest DEF Limits!Take
    <3> QED BY <3>1
  <2> HIDE DEF ticks, stamp, E
  <2>2. Limits!Lack(k, now) = IF ticks < E THEN E - ticks + (stamp - now) ELSE 0
    BY DEF Limits!Lack, Rate, ticks, stamp, E
  <2> QED BY <1>1, <1>2, <1>3, <2>1, <2>2
<1>6. bucket'[k] = [ticks |-> ticks - E, updated |-> stamp, expires |-> now + F]
  BY <1>0 DEF Limits!Take, Limits!Taken, Limits!Lifetime, Rate
<1>7. /\ now' = now /\ elapsed' = elapsed /\ back' = back
      /\ admitted'[k] = admitted[k] \/ admitted'[k] = admitted[k] + 1
  BY <1>0 DEF Limits!Take
<1>8. admitted'[k] * E \in Nat /\ admitted'[k] * E <= used + E
  <2> HIDE DEF E
  <2>1. (admitted[k] + 1) * E = admitted[k] * E + E
    BY <1>1, <1>2
  <2> HIDE DEF used
  <2>2. CASE admitted'[k] = admitted[k]
    BY <1>1, <1>4, <2>2 DEF used
  <2>3. CASE admitted'[k] = admitted[k] + 1
    BY <1>1, <1>4, <2>1, <2>3 DEF used
  <2> QED BY <1>7, <2>2, <2>3
<1> DEFINE spent == admitted'[k] * E
<1> HIDE DEF E, F, ticks, stamp, used, spent
<1>9. /\ bucket'[k].ticks = ticks - E /\ bucket'[k].updated = stamp
      /\ bucket'[k].expires = now + F
  BY <1>6
<1>10. bucket'[k] # Limits!Absent
  <2>1. now + F # 0
    BY <1>1, <1>2
  <2> QED BY <1>9, <2>1 DEF Limits!Absent
<1>11. spent \in Nat /\ spent <= used + E
  BY <1>8 DEF spent
<1>12. /\ now + F <= stamp + F
       /\ spent + (ticks - E) <= F + elapsed
       /\ spent + (ticks - E) + now - (now + F) <= elapsed
  BY <1>1, <1>2, <1>3, <1>4, <1>11
<1>13. Accounted(k)'
  <2>1. /\ bucket'[k].expires <= bucket'[k].updated + F
        /\ spent + bucket'[k].ticks <= F + elapsed'
        /\ spent + bucket'[k].ticks + now' - bucket'[k].expires <= elapsed'
        /\ ~back' => bucket'[k].updated <= now' /\ bucket'[k].expires = bucket'[k].updated + F
    BY <1>2, <1>4, <1>7, <1>9, <1>12
  <2> QED BY <1>10, <2>1 DEF Accounted, spent, E, F, Rate, Limits!Full, Limits!Absent
<1>14. bucket'[k] \in [ticks : 0 .. F, updated : Nat, expires : Nat]
  <2>1. ticks - E \in 0 .. F /\ now + F \in Nat
    BY <1>1, <1>2, <1>3, <1>5
  <2> QED BY <1>3, <1>6, <2>1
<1> QED BY <1>2, <1>7, <1>13, <1>14 DEF F

LEMMA NextLimits ==
  ASSUME Limits!ConstantsOK, LimitsInv, [Limits!Next]_Limits!limitVars
  PROVE  LimitsInv'
<1>1. /\ now \in Nat /\ elapsed \in 0 .. MaxTime /\ back \in BOOLEAN /\ MaxTime \in Nat
      /\ now <= MaxTime + elapsed /\ DOMAIN bucket = Limits!Buckets
  BY DEF LimitsInv, Limits!TypeOK, Limits!ConstantsOK
<1>2. ASSUME NEW k \in Limits!Buckets
      PROVE  /\ bucket[k] \in [ticks : 0 .. Limits!Full(k), updated : Nat, expires : Nat]
             /\ admitted[k] \in Nat /\ admitted[k] * Rate(k) \in Nat /\ Limits!Full(k) \in Nat
             /\ Accounted(k)
  BY Sizes, Covers DEF LimitsInv, Limits!TypeOK
<1>3. \A k \in Limits!Buckets : /\ Limits!Full(k)' = Limits!Full(k) /\ Rate(k)' = Rate(k)
  BY DEF Limits!Full, Rate
<1>4. CASE \E s \in Sessions : Limits!Take(s)
  <2>1. PICK s \in Sessions : Limits!Take(s)
    BY <1>4
  <2>2. ASSUME NEW k \in Limits!Buckets
        PROVE  /\ bucket'[k] \in [ticks : 0 .. Limits!Full(k), updated : Nat, expires : Nat]
               /\ admitted'[k] \in Nat /\ Accounted(k)'
    <3>1. CASE k \in Limits!KeysOf(s)
      BY <2>1, <3>1, TakenAccounted
    <3>2. CASE k \notin Limits!KeysOf(s)
      <4>1. bucket'[k] = bucket[k] /\ elapsed' = elapsed /\ now' = now /\ back' = back
        BY <2>1, <3>2 DEF Limits!Take
      <4>2. admitted'[k] = admitted[k]
        BY <1>2, <2>1, <3>2 DEF Limits!Take
      <4> QED BY <1>2, <4>1, <4>2 DEF Accounted, Limits!Full, Rate, Limits!Absent
    <3> QED BY <3>1, <3>2
  <2>3. now' = now /\ elapsed' = elapsed /\ back' = back
    BY <2>1 DEF Limits!Take
  <2>4. DOMAIN bucket' = Limits!Buckets
    BY <2>1 DEF Limits!Take
  <2> QED BY <1>1, <2>2, <2>3, <2>4 DEF LimitsInv, Limits!TypeOK, Limits!Full, Limits!Buckets
<1>5. CASE \E k \in Limits!Buckets : Limits!Purge(k)
  <2>1. PICK g \in Limits!Buckets : Limits!Purge(g)
    BY <1>5
  <2>2. /\ now' = now /\ elapsed' = elapsed /\ back' = back /\ admitted' = admitted
        /\ bucket[g] # Limits!Absent /\ now > bucket[g].expires
        /\ bucket' = [bucket EXCEPT ![g] = Limits!Absent]
    BY <1>1, <1>2, <2>1 DEF Limits!Purge, Limits!Present
  <2>3. ASSUME NEW k \in Limits!Buckets, k # g PROVE bucket'[k] = bucket[k]
    BY <2>2, <2>3
  <2>4. bucket'[g] = Limits!Absent /\ DOMAIN bucket' = Limits!Buckets
    BY <1>1, <2>2
  <2>5. ASSUME NEW k \in Limits!Buckets
        PROVE  /\ bucket'[k] \in [ticks : 0 .. Limits!Full(k), updated : Nat, expires : Nat]
               /\ Accounted(k)'
    <3>1. CASE k # g
      <4>1. bucket'[k] = bucket[k]
        BY <2>3, <3>1
      <4> QED BY <1>2, <2>2, <4>1 DEF Accounted, Limits!Full, Rate, Limits!Absent
    <3>2. CASE k = g
      <4>1. admitted[g] * Rate(g) <= elapsed
        <5> DEFINE used == admitted[g] * Rate(g)
        <5>1. used \in Nat /\ bucket[g].ticks \in Nat /\ bucket[g].expires \in Nat
          BY <1>2
        <5>2. used + bucket[g].ticks + now - bucket[g].expires <= elapsed
          BY <1>2, <2>2 DEF Accounted
        <5> HIDE DEF used
        <5>3. used <= elapsed
          BY <1>1, <2>2, <5>1, <5>2
        <5> QED BY <5>3 DEF used
      <4>2. Accounted(g)'
        BY <2>2, <2>4, <4>1 DEF Accounted, Rate, Limits!Absent
      <4> QED BY <1>2, <2>4, <3>2, <4>2 DEF Limits!Absent
    <3> QED BY <3>1, <3>2
  <2> QED BY <1>1, <1>2, <2>2, <2>4, <2>5 DEF LimitsInv, Limits!TypeOK, Limits!Full, Limits!Buckets
<1>6. CASE Limits!Tick \/ Limits!SetBack \/ UNCHANGED Limits!limitVars
  <2>1. /\ bucket' = bucket /\ admitted' = admitted
        /\ \/ elapsed < MaxTime /\ now' = now + 1 /\ elapsed' = elapsed + 1 /\ back' = back
           \/ now' \in 0 .. now - 1 /\ elapsed' = elapsed /\ back' = TRUE
           \/ now' = now /\ elapsed' = elapsed /\ back' = back
    BY <1>6 DEF Limits!Tick, Limits!SetBack, Limits!limitVars
  <2>2. ASSUME NEW k \in Limits!Buckets PROVE Accounted(k)'
    <3> DEFINE used == admitted[k] * Rate(k)
               b == bucket[k]
               F == Limits!Full(k)
    <3>1. /\ used \in Nat /\ F \in Nat /\ b.ticks \in 0 .. F /\ b.updated \in Nat
          /\ b.expires \in Nat
      BY <1>2
    <3>2. IF b = Limits!Absent THEN used <= elapsed
          ELSE /\ b.expires <= b.updated + F
               /\ used + b.ticks <= F + elapsed
               /\ used + b.ticks + now - b.expires <= elapsed
               /\ ~back => b.updated <= now /\ b.expires = b.updated + F
      BY <1>2 DEF Accounted
    <3> HIDE DEF used, b, F
    <3>3. IF b = Limits!Absent THEN used <= elapsed'
          ELSE /\ b.expires <= b.updated + F
               /\ used + b.ticks <= F + elapsed'
               /\ used + b.ticks + now' - b.expires <= elapsed'
               /\ ~back' => b.updated <= now' /\ b.expires = b.updated + F
      <4>1. elapsed' \in Nat /\ now' \in Nat /\ elapsed <= elapsed'
            /\ now' - now <= elapsed' - elapsed
        BY <1>1, <2>1
      <4>2. ~back' => ~back /\ now <= now'
        BY <1>1, <2>1
      <4>3. CASE b = Limits!Absent
        BY <1>1, <3>1, <3>2, <4>1, <4>3
      <4>4. CASE b # Limits!Absent
        <5>1. used + b.ticks <= F + elapsed'
          BY <1>1, <3>1, <3>2, <4>1, <4>4
        <5>2. used + b.ticks + now' - b.expires <= elapsed'
          <6>1. used + b.ticks + now - b.expires <= elapsed
            BY <3>2, <4>4
          <6>2. \A x, y, n1, n2, e1, e2 \in Int :
                   x + n1 - y <= e1 /\ n2 - n1 <= e2 - e1 => x + n2 - y <= e2
            OBVIOUS
          <6>3. used + b.ticks \in Int /\ b.expires \in Int
            BY <3>1
          <6>4. {now, now', elapsed, elapsed'} \subseteq Int
            BY <1>1, <4>1
          <6> QED BY <4>1, <6>1, <6>2, <6>3, <6>4
        <5>3. ~back' => b.updated <= now' /\ b.expires = b.updated + F
          BY <1>1, <3>1, <3>2, <4>1, <4>2, <4>4
        <5> QED BY <3>2, <4>4, <5>1, <5>2, <5>3
      <4> QED BY <4>3, <4>4
    <3> QED BY <2>1, <3>3 DEF Accounted, used, b, F, Rate, Limits!Full, Limits!Absent
  <2>3. /\ now' \in 0 .. 2 * MaxTime /\ elapsed' \in 0 .. MaxTime /\ back' \in BOOLEAN
        /\ now' <= MaxTime + elapsed'
    <3>1. now' \in Nat /\ elapsed' \in 0 .. MaxTime /\ now' <= MaxTime + elapsed'
      BY <1>1, <2>1
    <3>2. now' \in 0 .. 2 * MaxTime
      <4>1. MaxTime + MaxTime = 2 * MaxTime
        BY <1>1
      <4>2. \A m, n, e \in Int : e <= m /\ n <= m + e => n <= m + m
        OBVIOUS
      <4>3. MaxTime \in Int /\ elapsed' \in Int /\ now' \in Int /\ elapsed' <= MaxTime
        BY <1>1, <3>1
      <4>4. now' <= MaxTime + MaxTime
        BY <3>1, <4>2, <4>3
      <4> QED BY <1>1, <3>1, <4>1, <4>4
    <3> QED BY <1>1, <2>1, <3>1, <3>2
  <2> QED BY <1>2, <2>1, <2>2, <2>3 DEF LimitsInv, Limits!TypeOK, Limits!Full, Limits!Buckets
<1> QED BY <1>4, <1>5, <1>6 DEF Limits!Next

LEMMA LimitsInvariant == Limits!ConstantsOK => (Limits!Spec => []LimitsInv)
<1>1. Limits!ConstantsOK /\ Limits!Init => LimitsInv
  BY InitLimits
<1>2. Limits!ConstantsOK /\ LimitsInv /\ [Limits!Next]_Limits!limitVars => LimitsInv'
  BY NextLimits
<1>3. SUFFICES ASSUME Limits!ConstantsOK PROVE Limits!Spec => []LimitsInv
  OBVIOUS
<1> QED BY <1>1, <1>2, <1>3, PTL DEF Limits!Spec

LEMMA RatesFollow ==
  ASSUME Limits!ConstantsOK, LimitsInv
  PROVE  Limits!RateBounded
<1>1. ASSUME NEW k \in Limits!Buckets
      PROVE  admitted[k] * Rate(k) <= Limits!Full(k) + elapsed
  <2>1. /\ admitted[k] * Rate(k) \in Nat
        /\ admitted[k] * Rate(k) + Limits!Ticks(k, now) <= Limits!Full(k) + elapsed
    BY Covers
  <2>2. now \in Nat /\ elapsed \in Nat /\ Limits!Full(k) \in Nat
    BY Sizes DEF LimitsInv, Limits!TypeOK, Limits!ConstantsOK
  <2>3. Limits!Ticks(k, now) \in 0 .. Limits!Full(k)
    BY <2>2, Holds
  <2> QED BY <2>1, <2>2, <2>3
<1> QED BY <1>1 DEF Limits!RateBounded, Rate

\* No bucket lets more through than its burst and what the time regained: for
\* any number of sessions and addresses, any rates, any times at which keys are
\* removed, answers are lost or the clock is set back (takeTokens).
THEOREM RatesHold == Limits!ConstantsOK => (Limits!Spec => []Limits!RateBounded)
<1>1. Limits!ConstantsOK => (LimitsInv => Limits!RateBounded)
  BY RatesFollow
<1>2. SUFFICES ASSUME Limits!ConstantsOK PROVE Limits!Spec => []Limits!RateBounded
  OBVIOUS
<1> QED BY <1>1, <1>2, LimitsInvariant, PTL

LEMMA HintFollows ==
  ASSUME Limits!ConstantsOK, LimitsInv, NEW s \in Sessions, Limits!Wait(s, now) > 0
  PROVE  /\ Limits!Wait(s, now + Limits!Wait(s, now)) = 0
         /\ ~back => Limits!Wait(s, now + Limits!Wait(s, now) - 1) > 0
<1> DEFINE w == Limits!Wait(s, now)
           then == now + w
           before == now + w - 1
           Needs(k, time) == IF Limits!Ticks(k, time) < Rate(k)
                             THEN Rate(k) - Limits!Ticks(k, time) + (Limits!Stamp(k, time) - time)
                             ELSE 0
<1>1. now \in Nat
  BY DEF LimitsInv, Limits!TypeOK, Limits!ConstantsOK
<1>2. /\ Limits!KeysOf(s) \subseteq Limits!Buckets
      /\ \A k \in Limits!KeysOf(s) : Limits!Lack(k, now) \in Nat /\ Limits!Lack(k, now) <= w
      /\ \E k \in Limits!KeysOf(s) : w = Limits!Lack(k, now)
  BY <1>1, WaitsForTheSlowest
<1>3. w \in Nat /\ w > 0
  BY <1>2
<1> HIDE DEF w
<1>4. then \in Nat /\ then = now + w /\ before \in Nat /\ before = now + w - 1
  BY <1>1, <1>3
<1> HIDE DEF then, before
<1>5. \A k, time : Limits!Lack(k, time) = Needs(k, time)
  BY DEF Limits!Lack, Rate
<1>6. ASSUME NEW k \in Limits!KeysOf(s) PROVE Limits!Lack(k, then) = 0
  <2> DEFINE b == bucket[k]
             F == Limits!Full(k)
             E == Rate(k)
             t1 == Limits!Ticks(k, now)
             t2 == Limits!Ticks(k, then)
             s1 == Limits!Stamp(k, now)
             s2 == Limits!Stamp(k, then)
  <2>1. k \in Limits!Buckets
    BY <1>2
  <2>2. E \in Nat \ {0} /\ F \in Nat /\ E <= F
    BY <2>1, Sizes
  <2>3. /\ b.ticks \in 0 .. F /\ b.updated \in Nat /\ b.expires \in Nat
        /\ IF Limits!Present(k, now)
           THEN IF b.updated <= now
                THEN s1 = now /\ t1 = IF b.ticks + (now - b.updated) <= F
                                      THEN b.ticks + (now - b.updated) ELSE F
                ELSE s1 = b.updated /\ t1 = b.ticks
           ELSE s1 = now /\ t1 = F
    BY <1>1, <2>1, Holds
  <2>4. IF Limits!Present(k, then)
        THEN IF b.updated <= then
             THEN t2 = IF b.ticks + (then - b.updated) <= F
                       THEN b.ticks + (then - b.updated) ELSE F
             ELSE t2 = b.ticks
        ELSE t2 = F
    BY <1>4, <2>1, Holds
  <2>5. Limits!Present(k, then) => Limits!Present(k, now)
    BY <1>1, <1>3, <1>4, <2>3 DEF Limits!Present
  <2>6. (IF t1 < E THEN E - t1 + (s1 - now) ELSE 0) <= w
    BY <1>2, <1>5
  <2> HIDE DEF b, F, E, t1, t2, s1
  <2>7. t2 >= E
    BY <1>1, <1>3, <1>4, <2>2, <2>3, <2>4, <2>5, <2>6
  <2>8. t2 \in Nat
    BY <1>1, <1>3, <1>4, <2>2, <2>3, <2>4
  <2>9. ~(t2 < E)
    BY <2>2, <2>7, <2>8
  <2> QED BY <1>5, <2>9 DEF t2, E
<1>7. Limits!Wait(s, then) = 0
  <2>1. \E k \in Limits!KeysOf(s) : Limits!Wait(s, then) = Limits!Lack(k, then)
    BY <1>4, WaitsForTheSlowest
  <2> QED BY <1>6, <2>1
<1>8. ASSUME ~back PROVE Limits!Wait(s, before) > 0
  <2>1. PICK k \in Limits!KeysOf(s) : w = Limits!Lack(k, now)
    BY <1>2
  <2> DEFINE b == bucket[k]
             F == Limits!Full(k)
             E == Rate(k)
             t1 == Limits!Ticks(k, now)
             t2 == Limits!Ticks(k, before)
             s1 == Limits!Stamp(k, now)
             s2 == Limits!Stamp(k, before)
  <2>2. k \in Limits!Buckets
    BY <1>2
  <2>3. E \in Nat \ {0} /\ F \in Nat /\ E <= F
    BY <2>2, Sizes
  <2>4. /\ b.ticks \in 0 .. F /\ b.updated \in Nat /\ b.expires \in Nat
        /\ IF Limits!Present(k, now)
           THEN IF b.updated <= now
                THEN s1 = now /\ t1 = IF b.ticks + (now - b.updated) <= F
                                      THEN b.ticks + (now - b.updated) ELSE F
                ELSE s1 = b.updated /\ t1 = b.ticks
           ELSE s1 = now /\ t1 = F
    BY <1>1, <2>2, Holds
  <2>5. s2 \in Nat /\ s2 >= before
    BY <1>4, <2>2, Holds
  <2>6. IF Limits!Present(k, before)
        THEN IF b.updated <= before
             THEN t2 = IF b.ticks + (before - b.updated) <= F
                       THEN b.ticks + (before - b.updated) ELSE F
             ELSE t2 = b.ticks
        ELSE t2 = F
    BY <1>4, <2>2, Holds
  <2>7. w = IF t1 < E THEN E - t1 + (s1 - now) ELSE 0
    BY <1>5, <2>1
  <2>8. Accounted(k)
    BY <2>2 DEF LimitsInv
  <2>9. /\ Limits!Present(k, now) => b.updated <= now /\ b.expires = b.updated + F
        /\ Limits!Present(k, now) <=> b # Limits!Absent /\ now <= b.expires
        /\ Limits!Present(k, before) <=> b # Limits!Absent /\ before <= b.expires
    BY <1>8, <2>8 DEF Accounted, Limits!Present
  <2> HIDE DEF b, F, E, t1, t2, s1, s2
  <2>10. Limits!Present(k, now) /\ t1 = b.ticks + (now - b.updated) /\ s1 = now /\ w = E - t1
    BY <1>1, <1>3, <1>4, <2>3, <2>4, <2>7, <2>9
  <2>11. Limits!Present(k, before)
    BY <1>1, <1>3, <1>4, <2>3, <2>4, <2>9, <2>10
  <2>12. t2 = E - 1
    BY <1>1, <1>3, <1>4, <2>3, <2>4, <2>6, <2>9, <2>10, <2>11
  <2>13. Limits!Lack(k, before) > 0
    <3>1. E - t2 + (s2 - before) > 0 /\ t2 < E
      BY <1>1, <1>3, <1>4, <2>3, <2>5, <2>12
    <3> QED BY <1>5, <3>1 DEF t2, E, s2
  <2>14. /\ Limits!Lack(k, before) \in Nat
         /\ Limits!Lack(k, before) <= Limits!Wait(s, before)
    BY <1>4, WaitsForTheSlowest
  <2>15. Limits!Wait(s, before) \in Nat
    <3>1. \E j \in Limits!KeysOf(s) :
            /\ Limits!Wait(s, before) = Limits!Lack(j, before)
            /\ Limits!Lack(j, before) \in Nat
      BY <1>4, WaitsForTheSlowest
    <3> QED BY <3>1
  <2> QED BY <2>13, <2>14, <2>15
<1> QED BY <1>7, <1>8 DEF w, then, before

LEMMA HintsFollow ==
  ASSUME Limits!ConstantsOK, LimitsInv
  PROVE  Limits!HintHonest
BY HintFollows DEF Limits!HintHonest

\* Whoever is refused and waits as told finds a token if nobody else takes one,
\* and unless the clock was set back finds none before (the hint of takeTokens).
THEOREM HintsAreHonest == Limits!ConstantsOK => (Limits!Spec => []Limits!HintHonest)
<1>1. Limits!ConstantsOK => (LimitsInv => Limits!HintHonest)
  BY HintsFollow
<1>2. SUFFICES ASSUME Limits!ConstantsOK PROVE Limits!Spec => []Limits!HintHonest
  OBVIOUS
<1> QED BY <1>1, <1>2, LimitsInvariant, PTL

-----------------------------------------------------------------------------
(* The composition: what is proved of the parts holds beside the others.   *)

\* The proofs about runs, for the runs of Admission.
Lifecycle == INSTANCE RunLifecycleProofs WITH Slots <- TaskSlots

\* Two instances of one module are the same.
LEMMA SameInit == Capacity!Init => Lifecycle!Init
BY DEF
  Capacity!Init, Lifecycle!Init, Capacity!Epochs, Lifecycle!Epochs,
  Capacity!Generations, Lifecycle!Generations, Capacity!NoTask, Lifecycle!NoTask,
  Capacity!Idle, Lifecycle!Idle, Capacity!NoProbe, Lifecycle!NoProbe

LEMMA SameNext == Capacity!Next => Lifecycle!Next
BY DEF
  Capacity!Next, Lifecycle!Next, Capacity!Request, Lifecycle!Request,
  Capacity!Generations, Lifecycle!Generations, Capacity!Dispatch, Lifecycle!Dispatch,
  Capacity!OutboxRetry, Lifecycle!OutboxRetry, Capacity!Redeliver, Lifecycle!Redeliver,
  Capacity!LoseTask, Lifecycle!LoseTask, Capacity!Take, Lifecycle!Take,
  Capacity!Handle, Lifecycle!Handle, Capacity!Heartbeat, Lifecycle!Heartbeat,
  Capacity!Checkpoint, Lifecycle!Checkpoint, Capacity!Disturbance,
  Lifecycle!Disturbance, Capacity!Observe, Lifecycle!Observe, Capacity!Repair,
  Lifecycle!Repair, Capacity!LeaseExpires, Lifecycle!LeaseExpires,
  Capacity!DeadlinePasses, Lifecycle!DeadlinePasses, Capacity!Create, Lifecycle!Create,
  Capacity!Join, Lifecycle!Join, Capacity!Cancel, Lifecycle!Cancel,
  Capacity!OutboxClaim, Lifecycle!OutboxClaim, Capacity!Enqueue, Lifecycle!Enqueue,
  Capacity!OutboxDelivered, Lifecycle!OutboxDelivered, Capacity!Fault, Lifecycle!Fault,
  Capacity!jobVars, Lifecycle!jobVars, Capacity!NoFault, Lifecycle!NoFault,
  Capacity!RepairLimit, Lifecycle!RepairLimit, Capacity!NoTask, Lifecycle!NoTask,
  Capacity!Claim, Lifecycle!Claim, Capacity!ReadBack, Lifecycle!ReadBack,
  Capacity!FinishRun, Lifecycle!FinishRun, Capacity!WorkFails, Lifecycle!WorkFails,
  Capacity!Save, Lifecycle!Save, Capacity!Ack, Lifecycle!Ack, Capacity!Working,
  Lifecycle!Working, Capacity!Fence, Lifecycle!Fence, Capacity!MoveTo,
  Lifecycle!MoveTo, Capacity!planVars, Lifecycle!planVars, Capacity!workVars,
  Lifecycle!workVars, Capacity!queueVars, Lifecycle!queueVars, Capacity!holdVars,
  Lifecycle!holdVars, Capacity!ClaimError, Lifecycle!ClaimError, Capacity!SaveError,
  Lifecycle!SaveError, Capacity!Shutdown, Lifecycle!Shutdown, Capacity!Crash,
  Lifecycle!Crash, Capacity!Live, Lifecycle!Live, Capacity!NoProbe, Lifecycle!NoProbe,
  Capacity!TaskView, Lifecycle!TaskView, Capacity!RepairCanceled,
  Lifecycle!RepairCanceled, Capacity!RepairTooLate, Lifecycle!RepairTooLate,
  Capacity!RepairRestoreLost, Lifecycle!RepairRestoreLost, Capacity!RepairWake,
  Lifecycle!RepairWake, Capacity!RepairEnded, Lifecycle!RepairEnded,
  Capacity!RepairMissing, Lifecycle!RepairMissing, Capacity!RepairNothing,
  Lifecycle!RepairNothing, Capacity!Executing, Lifecycle!Executing,
  Capacity!ActiveRestores, Lifecycle!ActiveRestores, Capacity!ClaimSkip,
  Lifecycle!ClaimSkip, Capacity!ClaimCanceled, Lifecycle!ClaimCanceled,
  Capacity!ClaimTooLate, Lifecycle!ClaimTooLate, Capacity!ClaimDeferred,
  Lifecycle!ClaimDeferred, Capacity!ClaimGranted, Lifecycle!ClaimGranted,
  Capacity!ClaimExhausted, Lifecycle!ClaimExhausted, Capacity!FencedEnds,
  Lifecycle!FencedEnds, Capacity!SuspendRefused, Lifecycle!SuspendRefused,
  Capacity!SuspendCanceled, Lifecycle!SuspendCanceled, Capacity!Suspend,
  Lifecycle!Suspend, Capacity!WaitForActiveRestore, Lifecycle!WaitForActiveRestore,
  Capacity!WaitForNewRestore, Lifecycle!WaitForNewRestore, Capacity!RestoreRefused,
  Lifecycle!RestoreRefused, Capacity!FailFenced, Lifecycle!FailFenced,
  Capacity!FailCanceled, Lifecycle!FailCanceled, Capacity!FailRetry,
  Lifecycle!FailRetry, Capacity!FailFinal, Lifecycle!FailFinal, Capacity!Idle,
  Lifecycle!Idle, Capacity!Terminal, Lifecycle!Terminal, Capacity!Repairable,
  Lifecycle!Repairable, Capacity!Terminate, Lifecycle!Terminate, Capacity!Forget,
  Lifecycle!Forget, Capacity!TooLate, Lifecycle!TooLate, Capacity!OnTime,
  Lifecycle!OnTime, Capacity!Lost, Lifecycle!Lost, Capacity!Redispatch,
  Lifecycle!Redispatch, Capacity!Unattended, Lifecycle!Unattended,
  Capacity!Undelivered, Lifecycle!Undelivered, Capacity!Probed, Lifecycle!Probed,
  Capacity!Delivered, Lifecycle!Delivered, Capacity!Current, Lifecycle!Current,
  Capacity!Claimable, Lifecycle!Claimable, Capacity!HasCapacity, Lifecycle!HasCapacity,
  Capacity!ClaimFailures, Lifecycle!ClaimFailures, Capacity!MaxRetries,
  Lifecycle!MaxRetries, Capacity!ClaimClosed, Lifecycle!ClaimClosed, Capacity!Settled,
  Lifecycle!Settled, Capacity!Failing, Lifecycle!Failing, Capacity!Release,
  Lifecycle!Release, Capacity!JoinableRestores, Lifecycle!JoinableRestores,
  Capacity!FailOwns, Lifecycle!FailOwns, Capacity!CloseAttempts,
  Lifecycle!CloseAttempts, Capacity!Cardinality, Lifecycle!Cardinality,
  Capacity!Occupying, Lifecycle!Occupying, Capacity!IsSource, Lifecycle!IsSource,
  Capacity!Needed, Lifecycle!Needed, Capacity!Epochs, Lifecycle!Epochs,
  Capacity!IsFiniteSet, Lifecycle!IsFiniteSet

LEMMA SamePlaces == Lifecycle!CapacityRespected => Capacity!CapacityRespected
BY DEF
  Capacity!CapacityRespected, Lifecycle!CapacityRespected, Capacity!Cardinality,
  Lifecycle!Cardinality, Capacity!Occupying, Lifecycle!Occupying, Capacity!IsSource,
  Lifecycle!IsSource, Capacity!IsFiniteSet, Lifecycle!IsFiniteSet

\* A behaviour is in the case of the runs, or it is not.
LEMMA RunCase ==
  /\ AdmissionInit /\ case = "capacity" => Lifecycle!Init
  /\ case = "capacity" /\ [AdmissionNext]_admissionVars
       => (case = "capacity")' /\ [Lifecycle!Next]_Lifecycle!vars
  /\ ~(case = "capacity") /\ [AdmissionNext]_admissionVars => ~(case = "capacity")'
<1>1. AdmissionInit /\ case = "capacity" => Lifecycle!Init
  BY SameInit DEF AdmissionInit
<1>2. ASSUME [AdmissionNext]_admissionVars
      PROVE  case' = case /\ (case = "capacity" => Capacity!Next \/ UNCHANGED runVars)
  BY <1>2 DEF AdmissionNext, admissionVars
<1>3. UNCHANGED runVars => UNCHANGED Lifecycle!vars
  BY DEF runVars, Lifecycle!vars, Lifecycle!jobVars, Lifecycle!holdVars, Lifecycle!planVars,
         Lifecycle!workVars, Lifecycle!queueVars
<1> QED BY <1>1, <1>2, <1>3, SameNext

\* Beside whatever visitors do, leases that are live never number more than the
\* slots, nor those of sources more than theirs (Claim, execution.go).
THEOREM PlacesKept ==
  ASSUME IsFiniteSet(Runs)
  PROVE  AdmissionSpec => []CapacityRespected
<1>1. Lifecycle!IsFiniteSet(Runs)
  BY DEF IsFiniteSet, Lifecycle!IsFiniteSet
<1>2. Lifecycle!Spec => []Lifecycle!CapacityRespected
  BY <1>1, Lifecycle!SlotsSuffice, AdmissionAssumption
  DEF Capacity!Kinds, Lifecycle!Kinds, Capacity!FaultKinds, Lifecycle!FaultKinds
<1>3. /\ Lifecycle!CapacityRespected => CapacityRespected
      /\ ~(case = "capacity") => CapacityRespected
  BY SamePlaces DEF CapacityRespected
<1> QED BY RunCase, <1>2, <1>3, PTL DEF AdmissionSpec, Lifecycle!Spec

\* Beside the others, conversations and buckets stay well typed, and buckets let
\* through what they should, with hints that are true (takeTokens).
THEOREM RatesAmongAll == AdmissionSpec => []RatesKept
<1>1. ConstantsOK /\ Limits!ConstantsOK
  BY AdmissionAssumption
<1> DEFINE Kept == ConversationInv /\ LimitsInv
<1>2. AdmissionInit => Kept
  BY <1>1, InitConversation, InitLimits DEF AdmissionInit
<1>3. Kept /\ [AdmissionNext]_admissionVars => Kept'
  <2>1. [AdmissionNext]_admissionVars => [Next]_convVars /\ [Limits!Next]_Limits!limitVars
    BY DEF AdmissionNext, admissionVars, limitVars, Limits!limitVars
  <2> QED BY <1>1, <2>1, NextConversation, NextLimits
<1>4. Kept => RatesKept
  BY <1>1, RatesFollow, HintsFollow DEF RatesKept, ConversationInv, LimitsInv
<1> QED BY <1>2, <1>3, <1>4, PTL DEF AdmissionSpec
=============================================================================

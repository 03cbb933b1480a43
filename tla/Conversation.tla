---------------------------- MODULE Conversation ----------------------------
(* One conversation about an article: the questions a visitor asks in one  *)
(* tab or another, the requests that carry them, and the server that       *)
(* answers. A submission has an idempotency key, which its tab keeps until *)
(* it knows the outcome, and names the last turn the tab knew. Responses   *)
(* are lost, requests arrive late, pages are loaded anew, keys run out.    *)
(*                                                                         *)
(* A turn is its number. The run that answers a turn is abstracted to its  *)
(* end (RunLifecycle); limits and invalid questions to a free refusal.     *)
EXTENDS Naturals, Sequences

CONSTANTS Tabs, Questions, MaxSends, MaxTurns, MaxDeletes

ConstantsOK == {MaxSends, MaxTurns, MaxDeletes} \subseteq Nat /\ "retry" \notin Questions

VARIABLES
    turns,   \* qa_turns in order: what was asked, of which turn, its status;
             \* and, of the submission, its key and whether its tab listed
             \* every turn up to the one it named
    conv,    \* qa_conversations: last and active turn, 0 for none
    rows,    \* idempotency: the state of each key and the turn it made
    kept,    \* each tab's sessionStorage: the pending write of each slot
    tab,     \* each tab: what it knows and the submission it waits for
    posts,   \* requests no handler has seen yet
    sends,   \* submissions so far, bounded by MaxSends
    deletes  \* keys the cleanup deleted, bounded by MaxDeletes

convVars == <<turns, conv, rows, kept, tab, posts, sends, deletes>>

Turns == 1..MaxTurns
Keys == 1..MaxSends

\* The slot of questions, and one for the retry of each turn.
Slots == 0..MaxTurns
Bodies == [ask : Questions \cup {"retry"}, of : Slots, expected : Slots]
Nothing == [key |-> 0]
NoReply == [code |-> "none", turn |-> 0]
Codes == {"none", "accepted", "expired", "conflict", "changed", "refused"}

\* A tab that lists nothing and waits for nothing.
Blank == [last |-> 0, seen |-> {},
          sent |-> 0, key |-> 0, slot |-> 0, reply |-> NoReply]
NoRow == [state |-> "absent", body |-> [ask |-> "retry", of |-> 0, expected |-> 0], turn |-> 0]

Init ==
    /\ turns = <<>> /\ conv = [last |-> 0, active |-> 0]
    /\ rows = [k \in Keys |-> NoRow]
    /\ kept = [t \in Tabs |-> [s \in Slots |-> Nothing]]
    /\ tab = [t \in Tabs |-> Blank]
    /\ posts = {} /\ sends = 0 /\ deletes = 0

Running(n) == turns[n].status = "live"

-----------------------------------------------------------------------------
(* A tab. *)

\* What a tab knows after a load: everything, the conversation without the
\* list of its turns when the second read fails, or what it knew.
Loads(v) ==
    {v,
     [v EXCEPT !.last = conv.last],
     [v EXCEPT !.last = conv.last, !.seen = DOMAIN turns]}

\* The panel opens: it loads the conversation, also while a submission waits.
\* A page that is loaded anew no longer waits (HearNothing) and loads, too; the
\* storage of its tab stays.
Load(t) ==
    /\ \E v \in Loads(tab[t]) : tab' = [tab EXCEPT ![t] = v]
    /\ UNCHANGED <<turns, conv, rows, kept, posts, sends, deletes>>

\* Mistake: a key is used again for its slot.
KeyOfSlot(write, body) == write # Nothing

\* A key is used again for the same body.
Reusable(write, body) == write # Nothing /\ write.body = body

\* The window of a kept write, counted by the page anew with each submission,
\* may have ended, or the write be lost with a page that has no storage.
Submit(t, slot, body) ==
    \E key \in {sends + 1} \cup (IF Reusable(kept[t][slot], body) THEN {kept[t][slot].key} ELSE {}) :
        /\ sends < MaxSends
        /\ sends' = sends + 1
        /\ kept' = [kept EXCEPT ![t][slot] = [key |-> key, body |-> body]]
        /\ posts' = posts \cup {[tab |-> t, sent |-> sends + 1, key |-> key, body |-> body,
                                 whole |-> tab[t].seen = 1..body.expected]}
        /\ tab' = [tab EXCEPT ![t].sent = sends + 1, ![t].key = key, ![t].slot = slot,
                              ![t].reply = NoReply]
        /\ UNCHANGED <<turns, conv, rows, deletes>>

\* No turn the tab lists may run; its stream, or the next load, shows the end
\* at some later moment, which is when the tab turns idle.
Idle(t) == tab[t].sent = 0 /\ \A n \in tab[t].seen : ~Running(n)

\* A visitor does not ask what the list shows as asked.
Send(t, q) ==
    /\ Idle(t)
    /\ \A n \in tab[t].seen : turns[n].ask # q
    /\ Submit(t, 0, [ask |-> q, of |-> 0, expected |-> tab[t].last])

Retry(t) ==
    LET n == tab[t].last
    IN  /\ Idle(t)
        /\ n \in tab[t].seen /\ turns[n].status = "failed"
        /\ Submit(t, n, [ask |-> "retry", of |-> n, expected |-> n])

Forget(t, slot) == kept' = [kept EXCEPT ![t][slot] = Nothing]

Installed(v, n) == [v EXCEPT !.last = n, !.seen = @ \cup {n}]
Over(v) == [v EXCEPT !.sent = 0, !.key = 0, !.slot = 0, !.reply = NoReply]

\* The key is forgotten only if the slot still holds it.
HearAccepted(t) ==
    LET v == tab[t]
    IN  /\ v.reply.code = "accepted"
        /\ tab' = [tab EXCEPT ![t] = Over(Installed(v, v.reply.turn))]
        /\ IF kept[t][v.slot].key = v.key THEN Forget(t, v.slot) ELSE UNCHANGED kept

\* The conversation is not what the tab knew: it loads it again.
HearChanged(t) ==
    /\ tab[t].reply.code = "changed"
    /\ Forget(t, tab[t].slot)
    /\ \E v \in Loads(Over(tab[t])) : tab' = [tab EXCEPT ![t] = v]

\* A refusal that cannot be repeated drops the slot.
HearRefusal(t) ==
    /\ tab[t].reply.code \in {"expired", "conflict", "refused"}
    /\ tab' = [tab EXCEPT ![t] = Over(tab[t])]
    /\ Forget(t, tab[t].slot)

\* A response whose body breaks off is no network error to the page.
HearBroken(t) ==
    /\ tab[t].reply # NoReply
    /\ tab' = [tab EXCEPT ![t] = Over(tab[t])]
    /\ Forget(t, tab[t].slot)

\* No response, or a refusal that can be repeated (429, 503): the write stays
\* kept; it may have arrived or still arrive.
HearNothing(t) ==
    /\ tab[t].sent # 0
    /\ tab' = [tab EXCEPT ![t] = Over(tab[t])]
    /\ UNCHANGED kept

Hear(t) ==
    /\ HearAccepted(t) \/ HearChanged(t) \/ HearRefusal(t) \/ HearBroken(t) \/ HearNothing(t)
    /\ UNCHANGED <<turns, conv, rows, posts, sends, deletes>>

-----------------------------------------------------------------------------
(* The server. *)

Remembered(k) == rows[k].state \in {"fresh", "over"}

\* A key that was fresh may have run out when its submission comes again.
Replay(p, state) ==
    CASE state = "over" -> "expired"
      [] state = "fresh" /\ rows[p.key].body # p.body -> "conflict"
      [] OTHER -> "accepted"

\* Mistakes: the last turn is not compared, the running turn not looked for.
HistoryIgnored(p) == FALSE
ProgressIgnored == FALSE

HistoryChanged(p) == conv.last # p.body.expected
InProgress == conv.active # 0
Retried(p) == p.body.of # 0
RetryAllowed(p) == Retried(p) => turns[p.body.of].status = "failed"

Admitted(p) ==
    /\ ~HistoryChanged(p) /\ ~InProgress
    /\ RetryAllowed(p) /\ Len(turns) < MaxTurns

\* The response reaches a tab that still waits for this very request.
Respond(p, reply) ==
    /\ posts' = posts \ {p}
    /\ tab' = IF tab[p.tab].sent = p.sent THEN [tab EXCEPT ![p.tab].reply = reply] ELSE tab
Refusal(code) == [code |-> code, turn |-> 0]
View(n) == [code |-> "accepted", turn |-> n]

HandleAgain(p) ==
    /\ Remembered(p.key)
    /\ UNCHANGED <<turns, conv>>
    /\ \E state \in {rows[p.key].state, "over"} :
          /\ rows' = [rows EXCEPT ![p.key].state = state]
          /\ IF Replay(p, state) = "accepted"
             THEN Respond(p, View(rows[p.key].turn))
             ELSE Respond(p, Refusal(Replay(p, state)))

\* A limit or an invalid question may refuse what passes these checks; a
\* limit leaves the tab as it waits, as if no response came.
HandleRejected(p) ==
    /\ ~Remembered(p.key)
    /\ UNCHANGED <<turns, conv, rows>>
    /\ Respond(p, Refusal(IF HistoryChanged(p) \/ InProgress THEN "changed" ELSE "refused"))

\* The turn, its run, the pointers and the key are one transaction. The
\* handler reads the turn back; when that fails, or the commit's own outcome
\* is lost, it answers with an error.
HandleAccepted(p) ==
    LET n == Len(turns) + 1
    IN  /\ ~Remembered(p.key) /\ Admitted(p)
        /\ turns' = Append(turns, [ask |-> p.body.ask, of |-> p.body.of, status |-> "live",
                                   key |-> p.key, whole |-> p.whole])
        /\ conv' = [last |-> n, active |-> n]
        /\ rows' = [rows EXCEPT ![p.key] = [state |-> "fresh", body |-> p.body, turn |-> n]]
        /\ Respond(p, View(n)) \/ Respond(p, Refusal("refused"))

Handle(p) ==
    /\ HandleAgain(p) \/ HandleRejected(p) \/ HandleAccepted(p)
    /\ UNCHANGED <<kept, sends, deletes>>

\* The run of a turn ends.
End(n) ==
    /\ Running(n)
    /\ \E s \in {"done", "failed"} : turns' = [turns EXCEPT ![n].status = s]
    /\ conv' = IF conv.active = n THEN [conv EXCEPT !.active = 0] ELSE conv
    /\ UNCHANGED <<rows, kept, tab, posts, sends, deletes>>

\* The cleanup deletes a key after thirty days, when no request that carried
\* it is under way.
Cleanup(k) ==
    /\ deletes < MaxDeletes /\ Remembered(k)
    /\ (\A p \in posts : p.key # k) /\ (\A t \in Tabs : tab[t].key # k)
    /\ deletes' = deletes + 1
    /\ rows' = [rows EXCEPT ![k].state = "gone"]
    /\ UNCHANGED <<turns, conv, kept, tab, posts, sends>>

Next ==
    \/ \E t \in Tabs : Load(t) \/ Retry(t) \/ Hear(t)
    \/ \E t \in Tabs, q \in Questions : Send(t, q)
    \/ \E p \in posts : Handle(p)
    \/ \E n \in DOMAIN turns : End(n)
    \/ \E k \in Keys : Cleanup(k)

Spec == Init /\ [][Next]_convVars

-----------------------------------------------------------------------------
TypeOK ==
    /\ turns \in Seq([ask : Questions \cup {"retry"}, of : Slots, key : Keys,
                      status : {"live", "done", "failed"}, whole : BOOLEAN])
    /\ Len(turns) <= MaxTurns /\ conv \in [last : Slots, active : Slots]
    /\ rows \in [Keys -> [state : {"absent", "fresh", "over", "gone"}, body : Bodies, turn : Slots]]
    /\ kept \in [Tabs -> [Slots -> {Nothing} \cup [key : Keys, body : Bodies]]]
    /\ tab \in [Tabs -> [last : Slots, seen : SUBSET Turns,
                         sent : 0..MaxSends, key : 0..MaxSends, slot : Slots,
                         reply : [code : Codes, turn : Slots]]]
    /\ posts \subseteq [tab : Tabs, sent : Keys, key : Keys, body : Bodies, whole : BOOLEAN]
    /\ sends \in 0..MaxSends /\ deletes \in 0..MaxDeletes

\* A question becomes one turn and a failed turn is retried once, whatever
\* is lost, late, sent again or asked in another tab (CreateTurn, send, report):
\* unless the tab had loaded the conversation without all of its turns.
SentOnce ==
    \A i, j \in DOMAIN turns :
        (i < j /\ turns[i].ask = turns[j].ask /\ turns[i].of = turns[j].of)
            => ~turns[j].whole

\* Turns are answered one at a time: the running one is the last, and the
\* conversation points at it until its end (CreateTurn, settle).
ThreadInStep ==
    /\ conv.last = Len(turns)
    /\ \A n \in DOMAIN turns : Running(n) <=> conv.active = n

\* A submission that made a turn is answered with that turn when it is sent
\* again, whatever happened since, until its key runs out (replay, send).
SameKeySameTurn ==
    [][\A p \in posts \ posts' :
           (Remembered(p.key) /\ tab[p.tab].sent = p.sent /\ tab' # tab) =>
               LET reply == tab'[p.tab].reply
               IN  \/ rows'[p.key].state = "over" /\ reply.code = "expired"
                   \/ reply.code = "accepted" /\ turns[reply.turn].key = p.key]_convVars
=============================================================================

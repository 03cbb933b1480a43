----------------------------- MODULE ModelWork -----------------------------
(* What spends calls to models: the author's loop of an article (extended  *)
(* here), the calls of a run, once under a tight ceiling and once over     *)
(* several suppliers, and the tasks that pay once.  They share nothing, so *)
(* a behaviour stays in the case it starts in, and the others rest.        *)
EXTENDS ArticleLoop

CONSTANTS
    Checks, ModelOf, CheckLimit, Jobs, ArticleOf, JobLimit,     \* PaidTasks
    Inputs, RecoveryLimit,                                      \* ModelCalls
    Calls, Routes, BaseSends, Ceiling, MaxEpoch,
    FewCalls, Suppliers, FewSends, LargeCeiling, ManyEpochs

VARIABLES
    case,
    row, task, worked, paid,                                    \* PaidTasks
    run, eligible, asked, op, sent, caller,                     \* Spending
    run2, eligible2, asked2, op2, sent2, caller2                \* Routing

taskVars == <<row, task, worked, paid>>
spendVars == <<run, eligible, asked, op, sent, caller>>
routeVars == <<run2, eligible2, asked2, op2, sent2, caller2>>

\* Checks of models, with up to three calls each.
Probe == INSTANCE PaidTasks WITH
    Tasks <- Checks, Kind <- [t \in Checks |-> "probe"], About <- ModelOf,
    MaxLive <- CheckLimit, exec <- worked, calls <- paid

\* Reviews of articles, or their questions: one runs at a time.
Reviews == INSTANCE PaidTasks WITH
    Tasks <- Jobs, Kind <- [t \in Jobs |-> "review"], About <- ArticleOf,
    MaxLive <- JobLimit, exec <- worked, calls <- paid
Questions == INSTANCE PaidTasks WITH
    Tasks <- Jobs, Kind <- [t \in Jobs |-> "questions"], About <- ArticleOf,
    MaxLive <- JobLimit, exec <- worked, calls <- paid

\* Calls under a ceiling that not all of their sends fit.
Spending == INSTANCE ModelCalls WITH frozen <- asked, exec <- caller

\* Fewer calls over several suppliers.
Routing == INSTANCE ModelCalls WITH
    Calls <- FewCalls, Routes <- Suppliers, BaseSends <- FewSends, Ceiling <- LargeCeiling,
    MaxEpoch <- ManyEpochs, run <- run2, eligible <- eligible2, frozen <- asked2,
    op <- op2, sent <- sent2, exec <- caller2

ASSUME WorkAssumption ==
    /\ Probe!ConstantsOK /\ Reviews!ConstantsOK /\ Questions!ConstantsOK
    /\ Spending!ConstantsOK /\ Routing!ConstantsOK /\ ConstantsOK

\* A loop that rests is over, so that its fairness asks for nothing.
WorkInit ==
    /\ case \in {"probe", "reviews", "questions", "spending", "routing", "loop"}
    /\ (case = "probe" /\ Probe!Init) \/ (case # "probe" /\ Reviews!Init)
    /\ Spending!Init /\ Routing!Init /\ (case = "routing" \/ eligible2 = Suppliers)
    /\ Untouched /\ status = IF case = "loop" THEN "running" ELSE "failed"

WorkNext ==
    /\ UNCHANGED case
    /\ \/ /\ UNCHANGED <<spendVars, routeVars, vars>>
          /\ \/ case = "probe" /\ Probe!Next
             \/ case = "reviews" /\ Reviews!Next
             \/ case = "questions" /\ Questions!Next
       \/ case = "spending" /\ UNCHANGED <<taskVars, routeVars, vars>> /\ Spending!Next
       \/ case = "routing" /\ UNCHANGED <<taskVars, spendVars, vars>> /\ Routing!Next
       \/ case = "loop" /\ UNCHANGED <<taskVars, spendVars, routeVars>> /\ Next

workVars == <<case, taskVars, spendVars, routeVars, vars>>

WorkSpec == WorkInit /\ [][WorkNext]_workVars /\ Fairness

-----------------------------------------------------------------------------
TypesOK ==
    /\ case = "probe" => Probe!TypeOK
    /\ case = "reviews" => Reviews!TypeOK
    /\ case = "questions" => Questions!TypeOK
    /\ case = "loop" => TypeOK
    /\ case = "spending" => Spending!TypeOK
    /\ case = "routing" => Routing!TypeOK

\* The properties of the components, each in the cases that can break it; those
\* of the loop are PublishedWhole, FinishedTurnsKept, CapturesOnce and LoopEnds.
\* PaidWorkSound: what rows report is true, calls over several suppliers keep to
\* their bounds, and every component is well typed.
PaidWorkSound ==
    /\ TypesOK
    /\ case = "probe" => Probe!ReportsAreTrue
    /\ case = "reviews" => Reviews!ReportsAreTrue
    /\ case = "questions" => Questions!ReportsAreTrue
    /\ case = "routing" => Routing!SpendBounded
SpendBounded == Spending!SpendBounded
OneInputOneResult == Spending!OneInputOneResult
KnownOutcomeFinal == [][~Spending!RepeatsKnown]_spendVars
NeverRepeatsUnknown ==
    [][IF case = "probe" THEN ~Probe!RepeatsUnknown ELSE ~Reviews!RepeatsUnknown]_taskVars
=============================================================================

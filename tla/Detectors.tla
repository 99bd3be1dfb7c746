------------------------------ MODULE Detectors ------------------------------
(***************************************************************************)
(* What the detectors of domain/rules.py are for, stated over the whole    *)
(* log, against what they conclude from the context the gate builds: the   *)
(* last rows of the log, and counters kept next to it.                     *)
(*                                                                         *)
(* One worker uses guard() (sdk.py): it waits for each answer, and reports *)
(* at most one outcome for each of its calls that reached the log.  The    *)
(* executor judges beside it whenever its threads get to it.               *)
(***************************************************************************)
EXTENDS ControlPlane

\* What the worker is waiting for.
ServerThreads == Cardinality(GateActive) + Cardinality(ReportActive)

\* guard runs a call that was allowed, and offline a LOW one; it reports once.
Ran(c) ==
    /\ gate[c].pc = "done"
    /\ \/ gate[c].answer = "allow"
       \/ gate[c].answer \in {"unavailable", "lost"} /\ gate[c].tool \in LowTools

\* The worker ran the call it asked for last, and has not reported that.
OutcomeOwed ==
    \E i \in DOMAIN events :
        /\ events[i].kind = "proposed" /\ Ran(events[i].by)
        /\ \A j \in DOMAIN events :
               j > i => events[j].kind \notin {"proposed", "outcome"}

OneWorker ==
    /\ ServerThreads' <= 1
    /\ \A p \in Reports : report[p].pc = "new" /\ report'[p].kind = "outcome" =>
           OutcomeOwed

\* The worker ends when it likes, with reports it never sent.
WorkerEnds ==
    /\ \A c \in Calls : gate[c].pc = "done"
    /\ ServerThreads = 0
    /\ now = MaxClock
    /\ UNCHANGED vars

SerialNext == (Next /\ OneWorker) \/ WorkerEnds

SerialSpec == Init /\ [][SerialNext]_vars

-----------------------------------------------------------------------------
(* The detectors over the log, at the moment call c consults its rules.    *)

\* The calls asked for so far, this one included.
ProposedBy(c) == {i \in 1 .. gate[c].seq : events[i].kind = "proposed"}

\* This call and the n named ones before it.
Compares(c) == {i \in ProposedBy(c) : i = gate[c].seq \/ IsNamed(events[i])}

Latest(c, n) == {i \in Compares(c) : Cardinality({j \in Compares(c) : j > i}) <= n}

LoopInLog(c) ==
    \E i \in Latest(c, LoopWindow) :
        Cardinality({j \in Latest(c, LoopWindow) :
            events[j].tool = events[i].tool /\ events[j].args = events[i].args})
        >= LoopRepeats

CallRateInLog(c) ==
    Cardinality({i \in ProposedBy(c) :
        i < gate[c].seq /\ events[i].at >= gate[c].at - Minute}) > CallRatePerMinute

Outcomes == {i \in DOMAIN events : events[i].kind = "outcome"}

BudgetInLog ==
    \/ Replayed(events).tokens > BudgetTokens
    \/ Replayed(events).cost > BudgetCost

ErrorStreakInLog ==
    Cardinality({i \in Outcomes :
        \A j \in Outcomes : j >= i => events[j].says = "failed"}) >= ErrorStreakLimit

\* A JUDGE row, or the SYSTEM row of a verdict that came too late.
IsVerdict(row) == row.kind \in {"judge", "system"}

\* The judges wrote at most one row for each call of the history, and for the
\* call it begins in.  Judging a HIGH call writes one; a LOW call is judged in
\* the background, once in JudgeEvery, and its one or two rows come later.
FewVerdicts(history) ==
    Cardinality({i \in DOMAIN history : IsVerdict(history[i])})
    <= Cardinality({i \in DOMAIN history : IsProposal(history[i])}) + 1

AllNamed(history) ==
    \A i \in DOMAIN history : IsProposal(history[i]) => IsNamed(history[i])

\* From a bounded number of rows, and from counters maintained row by row, no
\* detector fires that the whole log does not justify.  None that it justifies
\* stays silent while the executor keeps up (FewVerdicts): then the factor of
\* gate.py _EVENTS_PER_CALL covers the rows of every call the threshold needs.
DetectorsSeeTheLog ==
    \A c \in Calls : gate[c].pc = "rules" =>
        LET ctx == Context(gate[c])
        IN  /\ Budget(ctx)      <=> BudgetInLog
            /\ ErrorStreak(ctx) <=> ErrorStreakInLog
            /\ Loop(ctx)     => LoopInLog(c)
            /\ CallRate(ctx) => CallRateInLog(c)
            /\ FewVerdicts(ctx.history) =>
                   /\ CallRateInLog(c) => CallRate(ctx)
                   /\ AllNamed(ctx.history) /\ LoopInLog(c) => Loop(ctx)

\* rules.py, loop: "loop_window counts TOOL CALLS (PROPOSED events), not log
\* rows".
LoopWindowCountsCalls ==
    \A c \in Calls : gate[c].pc = "rules" /\ LoopInLog(c) => Loop(Context(gate[c]))
=============================================================================

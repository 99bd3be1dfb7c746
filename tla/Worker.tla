------------------------------- MODULE Worker -------------------------------
(***************************************************************************)
(* sdk.py: guard(), the worker's side of a gate call, over a transport     *)
(* that may lose the request, the answer, or the report.                   *)
(*                                                                         *)
(* worker[c] is the guard() whose gate call is gate[c] and whose outcome   *)
(* report, if c is also in Reports, is report[c].  The server runs as in   *)
(* ControlPlane; a request reaches it at any time after it was posted,     *)
(* even after the worker stopped waiting, or never.  Reports outside Calls *)
(* are the worker's heartbeats and the usage it reports itself.            *)
(***************************************************************************)
EXTENDS ControlPlane

VARIABLE worker

workerVars == <<vars, worker>>

GuardPcs == {"idle", "gate", "act", "report", "done"}

\* `over` is a ghost: the budget was exceeded when guard() was called.
Guards ==
    [pc : GuardPcs, tool : Tools \cup {None}, args : Args \cup {None},
     over : BOOLEAN, ran : BOOLEAN, ok : BOOLEAN]

NewGuard == [pc |-> "idle", tool |-> None, args |-> None,
             over |-> FALSE, ran |-> FALSE, ok |-> FALSE]

WorkerInit == Init /\ worker = [c \in Calls |-> NewGuard]

-----------------------------------------------------------------------------
\* Plausible bug: a worker that lost contact goes on working.
OfflineOpen(tool) == "allow"

\* _offline_decision: the tiering without a server.
OfflineDecision(tool) == IF RiskOf(tool) = "high" THEN "deny" ELSE "allow"

\* guard raises RunFrozen or ToolRefused, or goes on to the action.
Obey(g, decision) ==
    IF decision = "allow" THEN [g EXCEPT !.pc = "act"] ELSE [g EXCEPT !.pc = "done"]

OverBudget == run.tokens > BudgetTokens \/ run.cost > BudgetCost

\* guard, gate: the call is posted.
GuardCall(c) ==
    /\ worker[c].pc = "idle"
    /\ \E tool \in Tools, args \in Args :
        worker' = [worker EXCEPT ![c] =
            [@ EXCEPT !.pc = "gate", !.tool = tool, !.args = args, !.over = OverBudget]]

\* A decision, a 409 that raises RunTerminated, or a 503 that tiers offline.
GateReply(c) ==
    /\ worker[c].pc = "gate"
    /\ gate[c].pc = "done"
    /\ worker' = [worker EXCEPT ![c] =
            CASE gate[c].answer \in Decisions    -> Obey(@, gate[c].answer)
              [] gate[c].answer = "terminated"   -> [@ EXCEPT !.pc = "done"]
              [] gate[c].answer = "unavailable"  -> Obey(@, OfflineDecision(@.tool))
              [] gate[c].answer = "lost"         -> Obey(@, OfflineDecision(@.tool))]

\* ConnectionError, whatever the server did or is still going to do.
ConnectionLost(c) ==
    /\ worker[c].pc = "gate"
    /\ worker' = [worker EXCEPT ![c] = Obey(@, OfflineDecision(@.tool))]

\* action() returns or raises; either way its outcome is reported.
RunTool(c) ==
    /\ worker[c].pc = "act"
    /\ \E ok \in BOOLEAN :
        worker' = [worker EXCEPT ![c] =
            [@ EXCEPT !.pc = "report", !.ran = TRUE, !.ok = ok]]

\* _try_post: guard ends whether or not the report arrived.
GuardReturns(c) ==
    /\ worker[c].pc = "report"
    /\ worker' = [worker EXCEPT ![c].pc = "done"]

-----------------------------------------------------------------------------
\* What reaches the server was posted: a gate call with its tool and
\* arguments, an outcome with its ok flag and, guard passing none, no usage.
OnlyPosted ==
    /\ \A c \in Calls : gate[c].pc = "new" /\ gate'[c].pc # "new" =>
        /\ worker[c].pc # "idle"
        /\ gate'[c].tool = worker[c].tool
        /\ gate'[c].args = worker[c].args
    /\ \A c \in Calls \cap Reports : report[c].pc = "new" /\ report'[c].pc # "new" =>
        /\ worker[c].ran
        /\ report'[c].kind = "outcome"
        /\ report'[c].ok = worker[c].ok
        /\ report'[c].tokens = 0
        /\ report'[c].cost = 0

\* Every guard() returned and the server is idle; what it never received
\* stays lost.
WorkersDone ==
    /\ \A c \in Calls : worker[c].pc = "done"
    /\ GateActive = {} /\ ReportActive = {} /\ RequestActive = {} /\ JobActive = {}
    /\ UNCHANGED workerVars

WorkerNext ==
    \/ \E c \in Calls :
        \/ GuardCall(c) /\ UNCHANGED vars
        \/ GateReply(c) /\ UNCHANGED vars
        \/ ConnectionLost(c) /\ UNCHANGED vars
        \/ RunTool(c) /\ UNCHANGED vars
        \/ GuardReturns(c) /\ UNCHANGED vars
    \/ Next /\ OnlyPosted /\ UNCHANGED worker
    \/ WorkersDone

WorkerSpec == WorkerInit /\ [][WorkerNext]_workerVars

-----------------------------------------------------------------------------
\* Safe mode: a HIGH tool runs only for a call that the server allowed, on a
\* healthy run that this call's own judging cleared, whatever was lost on the
\* way (sdk.py _offline_decision and gate.py _consult_judge together).
HighRunsWereCleared ==
    \A c \in Calls : worker[c].ran /\ RiskOf(worker[c].tool) = "high" =>
        \E i, j \in DOMAIN events :
            /\ events[i].kind = "decision" /\ events[i].by = c
            /\ events[i].says = "allow" /\ events[i].tool = worker[c].tool
            /\ events[j].kind = "judge" /\ events[j].by = c
            /\ events[j].says = "clear"
            /\ j < i /\ events[j].rev = events[i].rev
            /\ StateAt(events[i].rev) = "healthy"

\* Rules judge counters read before the decision: once the budget is spent,
\* no HIGH tool that is asked for runs, through any conflict, recovery,
\* release or loss of contact (gate.py _apply_rules, sdk.py).
BudgetStopsHighCalls ==
    \A c \in Calls : worker[c].over /\ RiskOf(worker[c].tool) = "high" =>
        ~worker[c].ran
=============================================================================

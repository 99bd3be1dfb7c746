-------------------------------- MODULE Api --------------------------------
(***************************************************************************)
(* api.py: the handlers that write.  complete, release and terminate read  *)
(* the run, build the move with machine.py and commit it; heartbeat and    *)
(* outcome read the clock and make one store call.                         *)
(***************************************************************************)
EXTENDS Store

CONSTANTS
    Requests,    \* POST .../complete, .../release, .../terminate
    Reports,     \* POST .../heartbeat, .../outcome
    Usage        \* the <<tokens, cost_cents>> an outcome may report

ASSUME ApiAssumption == Usage \subseteq Nat \X Nat

VARIABLES
    request,    \* request[q]: the thread of a state-changing request
    report      \* report[p]: the thread of a telemetry request

apiVars == <<request, report>>

RequestPcs == {"new", "clock", "commit", "done"}

\* "illegal" and "conflict" are both a 409.
RequestAnswers == {"none", "ok", "illegal", "conflict", "unavailable", "lost"}

RequestThreads ==
    [pc : RequestPcs, op : Operations \cup {None}, target : States,
     snap : Snapshots, at : Nat, answer : RequestAnswers]

ReportAnswers == {"none", "ok", "invalid", "unavailable", "lost"}

ReportThreads ==
    [pc : {"new", "commit", "done"}, kind : {"heartbeat", "outcome", "-"},
     at : Nat, ok : BOOLEAN, tokens : Nat, cost : Nat, answer : ReportAnswers]

NewRequest ==
    [pc |-> "new", op |-> None, target |-> "terminated", snap |-> NoSnapshot,
     at |-> 0, answer |-> "none"]

NewReport ==
    [pc |-> "new", kind |-> "-", at |-> 0, ok |-> TRUE, tokens |-> 0,
     cost |-> 0, answer |-> "none"]

ApiInit ==
    /\ request = [q \in Requests |-> NewRequest]
    /\ report = [p \in Reports |-> NewReport]

-----------------------------------------------------------------------------
Answered(q, answer) ==
    [NewRequest EXCEPT !.pc = "done", !.op = q.op, !.target = q.target,
                       !.answer = answer]

\* ReleaseRequest.target may be any RunState; the others end the run.
RequestRead(q) ==
    /\ request[q].pc = "new"
    /\ \E op \in Operations, target \in States :
        /\ op # "release" => target = "terminated"
        /\ request' = [request EXCEPT ![q] =
               [@ EXCEPT !.pc = "clock", !.op = op, !.target = target, !.snap = Read]]
    /\ UNCHANGED <<run, transitions, events, now, report>>

\* The clock, then the machine: IllegalTransition ends the request.
RequestClock(q) ==
    /\ request[q].pc = "clock"
    /\ request' = [request EXCEPT ![q] =
            IF Permitted(@.op, @.snap.row.state, @.target)
            THEN [@ EXCEPT !.pc = "commit", !.at = now]
            ELSE Answered(@, "illegal")]
    /\ UNCHANGED <<run, transitions, events, now, report>>

RequestCommit(q) ==
    LET t == request[q]
    IN  /\ t.pc = "commit"
        /\ \/ /\ Fresh(t.snap)
              /\ RecordStateChange(t.snap, t.target, CauseOf(t.op), ActorOf(t.op), t.at)
              /\ request' = [request EXCEPT ![q] = Answered(t, "ok")]
           \/ /\ ~Fresh(t.snap)
              /\ Conflict
              /\ request' = [request EXCEPT ![q] = Answered(t, "conflict")]
        /\ UNCHANGED <<events, now, report>>

-----------------------------------------------------------------------------
Reported(p, answer) == [NewReport EXCEPT !.pc = "done", !.answer = answer]

ReportClock(p) ==
    /\ report[p].pc = "new"
    /\ \/ report' = [report EXCEPT ![p] =
              [@ EXCEPT !.pc = "commit", !.kind = "heartbeat", !.at = now]]
       \/ \E ok \in BOOLEAN, use \in Usage :
              report' = [report EXCEPT ![p] =
                  [@ EXCEPT !.pc = "commit", !.kind = "outcome", !.at = now,
                            !.ok = ok, !.tokens = use[1], !.cost = use[2]]]
    /\ UNCHANGED <<run, transitions, events, now, request>>

HeartbeatCommit(p) ==
    /\ report[p].pc = "commit"
    /\ report[p].kind = "heartbeat"
    /\ TouchHeartbeat(report[p].at)
    /\ report' = [report EXCEPT ![p] = Reported(@, "ok")]
    /\ UNCHANGED <<transitions, events, now, request>>

\* InvalidUsage (422): nothing is written when a counter would overflow.
OutcomeCommit(p) ==
    LET t == report[p]
    IN  /\ t.pc = "commit"
        /\ t.kind = "outcome"
        /\ \/ /\ CountersFit(t.ok, t.tokens, t.cost)
              /\ RecordOutcome(t.ok, t.tokens, t.cost, t.at)
              /\ report' = [report EXCEPT ![p] = Reported(t, "ok")]
           \/ /\ ~CountersFit(t.ok, t.tokens, t.cost)
              /\ report' = [report EXCEPT ![p] = Reported(t, "invalid")]
              /\ UNCHANGED <<run, events>>
        /\ UNCHANGED <<transitions, now, request>>

RequestSteps(q) == RequestClock(q) \/ RequestCommit(q)

ReportSteps(p) == HeartbeatCommit(p) \/ OutcomeCommit(p)
=============================================================================

---------------------------- MODULE ControlPlane ----------------------------
(***************************************************************************)
(* The control plane around one run: gate calls, the background judging    *)
(* they queue, reapers, state-changing requests and telemetry, all against *)
(* the one store, with store outages and crashes of the process.           *)
(***************************************************************************)
EXTENDS Gate, Reaper, Api

CONSTANT MaxFaults    \* bound: outages and crashes of one behaviour

ASSUME FaultAssumption == MaxFaults \in Nat

VARIABLE faults       \* how many there were

vars == <<run, transitions, events, now, gate, job, queue, sweep,
          request, report, faults>>

Init == StoreInit /\ GateInit /\ ReaperInit /\ ApiInit /\ faults = 0

-----------------------------------------------------------------------------
(* Faults.                                                                 *)

\* The threads that are running a handler.
GateActive == {c \in Calls : gate[c].pc \notin {"new", "done"}}
RequestActive == {q \in Requests : request[q].pc \notin {"new", "done"}}
ReportActive == {p \in Reports : report[p].pc \notin {"new", "done"}}
JobActive == {c \in Calls : job[c].pc \notin {"none", "done", "lost"}}

\* Whatever a fault does to the threads, the store keeps what was committed.
Faulty ==
    /\ faults < MaxFaults
    /\ faults' = faults + 1
    /\ UNCHANGED <<run, transitions, events, now>>

\* sqlite3 fails on a thread's next call of the store: the call does nothing
\* and StoreUnavailable ends the thread (503; a job or a sweep just stops).
GateOutage == \E c \in GateActive :
    /\ Faulty
    /\ gate' = [gate EXCEPT ![c] = Return(@, "unavailable")]
    /\ UNCHANGED <<job, queue, sweep, request, report>>

JobOutage == \E c \in Calls :
    /\ Faulty
    /\ \/ TakeJob(c)
       \/ c \in Busy /\ UNCHANGED queue
    /\ job' = [job EXCEPT ![c] = [NoJob EXCEPT !.pc = "lost"]]
    /\ UNCHANGED <<gate, sweep, request, report>>

SweepOutage == \E r \in Reapers :
    /\ Faulty
    /\ sweep[r].pc # "idle"
    /\ sweep' = [sweep EXCEPT ![r] = Idle]
    /\ UNCHANGED <<gate, job, queue, request, report>>

RequestOutage == \E q \in RequestActive :
    /\ Faulty
    /\ request' = [request EXCEPT ![q] = Answered(@, "unavailable")]
    /\ UNCHANGED <<gate, job, queue, sweep, report>>

ReportOutage == \E p \in ReportActive :
    /\ Faulty
    /\ report' = [report EXCEPT ![p] = Reported(@, "unavailable")]
    /\ UNCHANGED <<gate, job, queue, sweep, request>>

\* The process dies: every thread and the executor's queue with it.
Crash ==
    /\ Faulty
    /\ gate' = [c \in Calls |->
           IF c \in GateActive THEN Return(gate[c], "lost") ELSE gate[c]]
    /\ job' = [c \in Calls |->
           IF c \in JobActive THEN [NoJob EXCEPT !.pc = "lost"] ELSE job[c]]
    /\ queue' = <<>>
    /\ sweep' = [r \in Reapers |-> Idle]
    /\ request' = [q \in Requests |->
           IF q \in RequestActive THEN Answered(request[q], "lost") ELSE request[q]]
    /\ report' = [p \in Reports |->
           IF p \in ReportActive THEN Reported(report[p], "lost") ELSE report[p]]

-----------------------------------------------------------------------------
(* The composition.                                                        *)

GateAlone == UNCHANGED <<sweep, request, report, faults>>
ReaperAlone == UNCHANGED <<gate, job, queue, request, report, faults>>
ApiAlone == UNCHANGED <<gate, job, queue, sweep, faults>>

\* Every call and request was answered and the clock is at its bound.
Quiescent ==
    /\ \A c \in Calls : gate[c].pc = "done" /\ job[c].pc \in {"none", "done", "lost"}
    /\ \A q \in Requests : request[q].pc = "done"
    /\ \A p \in Reports : report[p].pc = "done"
    /\ now = MaxClock
    /\ UNCHANGED vars

Next ==
    \/ \E c \in Calls :
        \/ GateRead(c) /\ GateAlone
        \/ GateClock(c) /\ GateAlone
        \/ GateHistory(c) /\ GateAlone
        \/ GatePropose(c) /\ GateAlone
        \/ GateRules(c) /\ GateAlone
        \/ GateApply(c) /\ GateAlone
        \/ GateJudge(c) /\ GateAlone
        \/ GateEscalate(c) /\ GateAlone
        \/ GateSample(c) /\ GateAlone
        \/ GateRecord(c) /\ GateAlone
        \/ JobRead(c) /\ GateAlone
        \/ JobClock(c) /\ GateAlone
        \/ JobJudge(c) /\ GateAlone
        \/ JobEscalate(c) /\ GateAlone
        \/ JobDiscard(c) /\ GateAlone
    \/ \E r \in Reapers :
        \/ SweepClock(r) /\ ReaperAlone
        \/ SweepSelect(r) /\ ReaperAlone
        \/ SweepCommit(r) /\ ReaperAlone
    \/ \E q \in Requests :
        \/ RequestRead(q) /\ ApiAlone
        \/ RequestClock(q) /\ ApiAlone
        \/ RequestCommit(q) /\ ApiAlone
    \/ \E p \in Reports :
        \/ ReportClock(p) /\ ApiAlone
        \/ HeartbeatCommit(p) /\ ApiAlone
        \/ OutcomeCommit(p) /\ ApiAlone
    \/ GateOutage
    \/ JobOutage
    \/ SweepOutage
    \/ RequestOutage
    \/ ReportOutage
    \/ Crash
    \/ Tick /\ UNCHANGED <<run, transitions, events, gate, job, queue, sweep,
                           request, report, faults>>
    \/ Quiescent

Spec == Init /\ [][Next]_vars

\* A thread that has started a handler goes on: a thread of the server or of
\* the executor is scheduled, SQLite's lock is released at every COMMIT, and
\* the judge's transport timeout bounds each wait for it.  Nothing makes a
\* client call, the clock advance, or a sweep start.
Fairness ==
    /\ \A c \in Calls : WF_vars(GateSteps(c) /\ GateAlone)
    /\ \A c \in Calls : WF_vars(JobSteps(c) /\ GateAlone)
    /\ \A q \in Requests : WF_vars(RequestSteps(q) /\ ApiAlone)
    /\ \A p \in Reports : WF_vars(ReportSteps(p) /\ ApiAlone)

FairSpec == Spec /\ Fairness

-----------------------------------------------------------------------------
(* Invariants.                                                             *)

\* The store, and every local variable of every thread, has its type.
TypeOK ==
    /\ run \in RunRows
    /\ transitions \in Seq(TransitionRows)
    /\ events \in Seq(EventRows)
    /\ now \in Nat
    /\ gate \in [Calls -> GateThreads]
    /\ job \in [Calls -> Jobs]
    /\ queue \in Seq(Calls)
    /\ sweep \in [Reapers -> Sweeps]
    /\ request \in [Requests -> RequestThreads]
    /\ report \in [Reports -> ReportThreads]
    /\ faults \in Nat

\* The state in force at a revision.
StateAt(rev) == IF rev = 0 THEN "healthy" ELSE transitions[rev].to

SinceAt(rev) == IF rev = 0 THEN 0 ELSE transitions[rev].at

\* The audit rows are an unbroken chain from registration to the state the
\* run is in, whatever threads wrote them (sqlite_store.py: a transition
\* without the revision check would overwrite a newer state with an old one).
AuditExplainsState ==
    /\ run.state = StateAt(Revision)
    /\ run.since = SinceAt(Revision)
    /\ \A i \in DOMAIN transitions : transitions[i].from = StateAt(i - 1)

\* Audit rows are dated in the order they were committed, although each date
\* is read by a thread some time before its commit.
AuditTimesAdvance ==
    \A i \in DOMAIN transitions : SinceAt(i - 1) <= transitions[i].at

\* An automatic recovery comes a full interval after the move before it, not
\* after some older move that the recovering thread happened to read.
RecoveryWaits ==
    \A i \in DOMAIN transitions :
        transitions[i].cause = "clean_interval" =>
            /\ transitions[i].from = "degraded"
            /\ transitions[i].at - SinceAt(i - 1) >= RecoveryInterval

\* One escalation for silence per timeout window, however many sweeps overlap.
SilenceWaits ==
    \A i \in DOMAIN transitions :
        transitions[i].cause = "heartbeat_timeout" =>
            transitions[i].at - SinceAt(i - 1) >= HeartbeatTimeout

\* A decision is recorded against the state in force at that moment: FREEZE
\* on a frozen run, nothing on a terminated one, and a HIGH call is allowed
\* only on a healthy run its own judge cleared at that same revision.
AnswersFitTheRun ==
    \A i \in DOMAIN events :
        LET e == events[i]
            s == StateAt(e.rev)
        IN  e.kind = "decision" =>
                /\ s # "terminated"
                /\ s = "frozen" => e.says = "freeze"
                /\ e.says = "allow" /\ e.tool \notin LowTools =>
                       /\ s = "healthy"
                       /\ \E j \in 1 .. i - 1 :
                              /\ events[j].kind = "judge"
                              /\ events[j].by = e.by
                              /\ events[j].says = "clear"
                              /\ events[j].rev = e.rev

\* Every JudgeEvery-th LOW proposal, in log order, whose call is allowed is queued
\* for judging and no other LOW proposal is, however concurrent calls count.
CadenceExact ==
    \A i \in DOMAIN events :
        LET c       == events[i].by
            ordinal == Cardinality({j \in 1 .. i : events[j].kind = "proposed"
                                                /\ events[j].tool \in LowTools})
            due     == ordinal % JudgeEvery = 0
        IN  events[i].kind = "proposed" /\ events[i].tool \in LowTools =>
                /\ job[c].pc # "none" => due
                /\ gate[c].answer = "allow" => (due => job[c].pc # "none")

\* When the loop rule fires, some signature really was proposed LoopRepeats
\* times: the proposal being decided is never counted twice.
LoopFiringsAreReal ==
    \A c \in Calls :
        gate[c].cause = "loop" =>
            \E tool \in Tools, args \in Args :
                Cardinality({i \in DOMAIN events :
                    events[i].kind = "proposed" /\ events[i].tool = tool
                                    /\ events[i].args = args}) >= LoopRepeats

\* The usage counters, and what one more row of the log adds to them.
Counters(row) == [tokens |-> row.tokens, cost |-> row.cost,
                  calls |-> row.calls, errors |-> row.errors]

Counted(sum, e) ==
    IF e.kind # "outcome" THEN sum
    ELSE [tokens |-> sum.tokens + e.tokens, cost |-> sum.cost + e.cost,
          calls |-> sum.calls + 1,
          errors |-> IF e.says = "ok" THEN 0 ELSE sum.errors + 1]

\* The counters that someone who reads the log from its start arrives at.
Replayed(log) ==
    LET upTo[n \in 0 .. Len(log)] ==
            IF n = 0 THEN Counters(NewRun) ELSE Counted(upTo[n - 1], log[n])
    IN  upTo[Len(log)]

\* The counters the rules read are the log replayed: no outcome is lost or
\* counted twice by concurrent reports and state changes, and none is stored
\* that SQLite could not hold (record_outcome).
CountersMatchLog ==
    /\ Counters(run) = Replayed(events)
    /\ \A f \in {"tokens", "cost", "calls", "errors"} : run[f] <= MaxCounter

-----------------------------------------------------------------------------
(* Action properties.                                                      *)

\* A judge that objected is never overruled by a lost race: when its thread
\* is done with the verdict, the run has moved from the state that was judged.
AdverseVerdictBinds ==
    [][\A c \in Calls :
        /\ gate[c].pc = "escalate" /\ gate'[c].pc = "record" =>
               gate[c].snap.rev < Len(transitions') /\ gate'[c].want = "deny"
        /\ job[c].pc = "escalate" /\ job'[c].pc \in {"discard", "done"} =>
               job[c].snap.rev < Len(transitions')]_vars

\* A reaper escalates only a run that is silent when it commits, even if the
\* worker reported between the selection and the commit.
ReaperActsOnSilence ==
    [][\A i \in DOMAIN transitions' \ DOMAIN transitions :
        transitions'[i].cause = "heartbeat_timeout" =>
            transitions'[i].at - run.heartbeat > HeartbeatTimeout]_vars

\* Reports that arrive in the wrong order never make a live worker look older.
HeartbeatNeverRewinds == [][run'.heartbeat >= run.heartbeat]_vars

-----------------------------------------------------------------------------
(* Liveness.                                                               *)

\* Every gate call that was accepted is answered.
EveryCallAnswered ==
    \A c \in Calls : gate[c].pc # "new" ~> gate[c].pc = "done"

\* Every queued judging runs to its end, or is lost with the process.
QueuedJudgingEnds ==
    \A c \in Calls : job[c].pc = "queued" ~> job[c].pc \in {"done", "lost"}

-----------------------------------------------------------------------------
(* Refinement: what the operator reads, the state and the audit rows, is a *)
(* behaviour of the containment ladder.                                    *)

LadderSpec == INSTANCE ContainmentLadder WITH
    state <- run.state, audit <- transitions

RefinesLadder == LadderSpec!Spec

-----------------------------------------------------------------------------
(* What the documents say and the code does not do.                        *)

\* Design specification: "the third identical request is refused before it
\* runs rather than after".
LoopedCallRefused ==
    \A c \in Calls :
        gate[c].pc = "done" /\ gate[c].cause = "loop" => gate[c].answer # "allow"

\* ADR-0002: recovery comes after an interval with "no rule firing and no
\* adverse judge verdict".
RecoveryMeansClean ==
    \A k \in DOMAIN transitions, i \in DOMAIN events :
        /\ transitions[k].cause = "clean_interval"
        /\ events[i].kind = "judge" /\ events[i].says \in Adverse
        => ~(/\ transitions[k].at - RecoveryInterval < events[i].at
             /\ events[i].at <= transitions[k].at
             /\ events[i].rev < k)

\* decide: "Every call appends a PROPOSED event and a DECISION event,
\* whatever the answer".
EveryProposalDecided ==
    \A i \in DOMAIN events :
        LET c == events[i].by
        IN  events[i].kind = "proposed" /\ gate[c].pc = "done" =>
                \E j \in DOMAIN events :
                    events[j].kind = "decision" /\ events[j].by = c
=============================================================================

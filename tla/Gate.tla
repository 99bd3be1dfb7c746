-------------------------------- MODULE Gate --------------------------------
(***************************************************************************)
(* gate.py: decide(), the thread of one POST /runs/{id}/gate, and          *)
(* _judge_now(), the background judging it may queue.                      *)
(*                                                                         *)
(* A thread is a program counter and the local variables of the handler.   *)
(* Every action is one call of the store, the clock or the judge together  *)
(* with the code up to the next one, so other threads interleave exactly   *)
(* where they can.  The judge answers anything: its verdict is chosen      *)
(* freely in the step that appends it to the log.                          *)
(***************************************************************************)
EXTENDS Store, Rules

CONSTANTS
    RecoveryInterval,    \* settings.recovery_interval
    JudgeTrajectory,     \* settings.judge_trajectory_events
    JudgeEvery,          \* settings.judge_background_every
    JudgeWorkers,        \* threads of the executor; 0: no background scheduler
    JudgeAnswers         \* what judge.evaluate may return, or "unavailable"

ASSUME GateAssumption ==
    /\ RecoveryInterval \in Nat
    /\ JudgeTrajectory \in Nat \ {0}     \* config.py rejects 0
    /\ JudgeEvery \in Nat \ {0}          \* config.py rejects 0
    /\ JudgeWorkers \in Nat
    /\ JudgeAnswers \subseteq Severities \cup {"unavailable"}

VARIABLES
    gate,    \* gate[c]: the thread of gate call c
    job,     \* job[c]: the background judging that call c queued
    queue    \* the executor's queue, FIFO

gateVars == <<gate, job, queue>>

-----------------------------------------------------------------------------
GatePcs == {"new", "clock", "history", "propose", "rules", "apply", "judge",
            "escalate", "sample", "record", "done"}

\* "terminated" is a 409, "unavailable" a 503, "lost" no answer at all.
Answers == Decisions \cup {"terminated", "unavailable", "lost", "none"}

GateThreads ==
    [pc : GatePcs, tool : Tools \cup {None}, args : Args \cup {None},
     snap : Snapshots, at : Nat, seen : Nat, seq : Nat,
     cause : Causes \cup {None}, want : Decisions \cup {None}, answer : Answers]

JobPcs == {"none", "queued", "clock", "judge", "escalate", "discard",
           "done", "lost"}

Jobs == [pc : JobPcs, snap : Snapshots, at : Nat]

NewThread ==
    [pc |-> "new", tool |-> None, args |-> None, snap |-> NoSnapshot, at |-> 0,
     seen |-> 0, seq |-> 0, cause |-> None, want |-> None, answer |-> "none"]

NoJob == [pc |-> "none", snap |-> NoSnapshot, at |-> 0]

GateInit ==
    /\ gate = [c \in Calls |-> NewThread]
    /\ job = [c \in Calls |-> NoJob]
    /\ queue = <<>>

-----------------------------------------------------------------------------
(* Steps of a thread, as functions of its local variables.                 *)

\* decide returns or raises: its local variables go; what was asked, which
\* rule fired and what was answered are kept for the properties.
Return(t, answer) ==
    [NewThread EXCEPT !.pc = "done", !.tool = t.tool, !.args = t.args,
                      !.cause = t.cause, !.answer = answer]

ToRecord(t, decision) == [t EXCEPT !.pc = "record", !.want = decision]

\* Plausible bug: DEGRADED does not refuse a HIGH call that the judge clears.
RouteToJudge(t) ==
    IF t.snap.row.state = "frozen" THEN ToRecord(t, "freeze")
    ELSE IF RiskOf(t.tool) = "low" THEN [t EXCEPT !.pc = "sample"]
    ELSE [t EXCEPT !.pc = "judge"]

\* After the rules: FROZEN, then DEGRADED + HIGH, then the judge for HIGH.
\* A LOW call goes on to the sampling of background judging.
Route(t) ==
    IF t.snap.row.state = "frozen" THEN ToRecord(t, "freeze")
    ELSE IF RiskOf(t.tool) = "low" THEN [t EXCEPT !.pc = "sample"]
    ELSE IF t.snap.row.state = "degraded" THEN ToRecord(t, "deny")
    ELSE [t EXCEPT !.pc = "judge"]

\* Plausible bug: as many rows as the call_rate threshold has calls.
RowsPerThreshold ==
    CHOOSE n \in {LoopWindow, JudgeTrajectory, CallRatePerMinute + 1} :
        n >= LoopWindow /\ n >= JudgeTrajectory /\ n >= CallRatePerMinute + 1

HistoryLimit ==
    LET rows == 4 * (CallRatePerMinute + 1)    \* _EVENTS_PER_CALL
    IN  CHOOSE n \in {LoopWindow, JudgeTrajectory, rows} :
            n >= LoopWindow /\ n >= JudgeTrajectory /\ n >= rows

\* Plausible bug: read after the proposal was recorded, it counts it twice.
WholeLog(seen) == LastRows(events, HistoryLimit)

\* recent_events as it was read, before the proposal was recorded.
History(seen) == LastRows(SubSeq(events, 1, seen), HistoryLimit)

Context(t) ==
    [run |-> t.snap.row, tool |-> t.tool, args |-> t.args,
     history |-> History(t.seen), transitions |-> transitions, now |-> t.at]

RecoveryDue(t) ==
    /\ t.snap.row.state = "degraded"
    /\ t.at - t.snap.row.since >= RecoveryInterval

\* The move _apply_rules makes: escalate with the rule, or auto_recover.
RuleTarget(t) ==
    IF t.cause = "clean_interval" THEN "healthy" ELSE NextRung(t.snap.row.state)

\* Plausible bug: try the same write again.
Retry(t) == t

\* except ConcurrentStateChange: the call is denied.
OnConflict(t) == ToRecord(t, "deny")

-----------------------------------------------------------------------------
(* decide, one action per step.                                            *)

\* get_run; a TERMINATED run raises RunTerminated.
GateRead(c) ==
    /\ gate[c].pc = "new"
    /\ \E tool \in Tools, args \in Args :
        LET t == [gate[c] EXCEPT !.tool = tool, !.args = args, !.snap = Read]
        IN  gate' = [gate EXCEPT ![c] =
                IF run.state = "terminated" THEN Return(t, "terminated")
                ELSE [t EXCEPT !.pc = "clock"]]
    /\ UNCHANGED <<run, transitions, events, now, job, queue>>

GateClock(c) ==
    /\ gate[c].pc = "clock"
    /\ gate' = [gate EXCEPT ![c].pc = "history", ![c].at = now]
    /\ UNCHANGED <<run, transitions, events, now, job, queue>>

\* recent_events, before this proposal is in the log.
GateHistory(c) ==
    /\ gate[c].pc = "history"
    /\ gate' = [gate EXCEPT ![c].pc = "propose", ![c].seen = Len(events)]
    /\ UNCHANGED <<run, transitions, events, now, job, queue>>

\* Append PROPOSED; a run that was read FROZEN skips the rules.
GatePropose(c) ==
    /\ gate[c].pc = "propose"
    /\ AppendEvent([Event("proposed", c, "-") EXCEPT
            !.tool = gate[c].tool, !.args = gate[c].args, !.at = gate[c].at])
    /\ LET t == [gate[c] EXCEPT !.seq = Len(events) + 1]
       IN  gate' = [gate EXCEPT ![c] =
               IF t.snap.row.state = "frozen" THEN ToRecord(t, "freeze")
               ELSE [t EXCEPT !.pc = "rules"]]
    /\ UNCHANGED <<run, transitions, now, job, queue>>

\* _apply_rules up to its write: the audit rows are read here.
GateRules(c) ==
    /\ gate[c].pc = "rules"
    /\ \E rule \in RuleNames \cup {None} :
        /\ IsFirstFiring(rule, Context(gate[c]))
        /\ LET t == gate[c]
           IN  gate' = [gate EXCEPT ![c] =
                   IF rule # None
                   THEN [t EXCEPT !.pc = "apply", !.cause = rule]
                   ELSE IF RecoveryDue(t)
                   THEN [t EXCEPT !.pc = "apply", !.cause = "clean_interval"]
                   ELSE Route(t)]
    /\ UNCHANGED <<run, transitions, events, now, job, queue>>

\* record_state_change for the rule or the recovery.
GateApply(c) ==
    LET t == gate[c]
    IN  /\ t.pc = "apply"
        /\ \/ /\ Fresh(t.snap)
              /\ RecordStateChange(t.snap, RuleTarget(t), t.cause, "system", t.at)
              /\ gate' = [gate EXCEPT ![c] = Route([t EXCEPT !.snap = Read'])]
           \/ /\ ~Fresh(t.snap)
              /\ Conflict
              /\ gate' = [gate EXCEPT ![c] = OnConflict(t)]
        /\ UNCHANGED <<events, now, job, queue>>

\* judge.evaluate, as long as it takes, then the JUDGE row.
GateJudge(c) ==
    /\ gate[c].pc = "judge"
    /\ \E verdict \in JudgeAnswers :
        /\ AppendEvent([Event("judge", c, verdict) EXCEPT !.at = gate[c].at])
        /\ gate' = [gate EXCEPT ![c] =
               IF verdict = "unavailable" THEN ToRecord(@, "deny")
               ELSE IF verdict \in Adverse THEN [@ EXCEPT !.pc = "escalate"]
               ELSE ToRecord(@, "allow")]
    /\ UNCHANGED <<run, transitions, now, job, queue>>

\* record_state_change for an adverse verdict; denied whether or not it wins.
GateEscalate(c) ==
    LET t == gate[c]
    IN  /\ t.pc = "escalate"
        /\ \/ /\ Fresh(t.snap)
              /\ RecordStateChange(t.snap, NextRung(t.snap.row.state),
                                   "judge", "system", t.at)
              /\ gate' = [gate EXCEPT ![c] =
                      ToRecord([t EXCEPT !.snap = Read'], "deny")]
           \/ /\ ~Fresh(t.snap)
              /\ Conflict
              /\ gate' = [gate EXCEPT ![c] = OnConflict(t)]
        /\ UNCHANGED <<events, now, job, queue>>

\* _maybe_judge_in_background: every JudgeEvery-th LOW proposal is queued.
GateSample(c) ==
    /\ gate[c].pc = "sample"
    /\ gate' = [gate EXCEPT ![c] = ToRecord(@, "allow")]
    /\ IF JudgeWorkers > 0 /\ CountProposals(gate[c].seq) % JudgeEvery = 0
       THEN /\ queue' = Append(queue, c)
            /\ job' = [job EXCEPT ![c].pc = "queued"]
       ELSE UNCHANGED <<job, queue>>
    /\ UNCHANGED <<run, transitions, events, now>>

\* record_decision, in one transaction with the check of the state.
GateRecord(c) ==
    LET t        == gate[c]
        decision == FinalDecision(t.want, t.snap)
    IN  /\ t.pc = "record"
        /\ IF run.state = "terminated"
           THEN /\ gate' = [gate EXCEPT ![c] = Return(t, "terminated")]
                /\ UNCHANGED events
           ELSE /\ AppendEvent([Event("decision", c, decision) EXCEPT
                       !.tool = t.tool, !.args = t.args, !.at = t.at])
                /\ gate' = [gate EXCEPT ![c] = Return(t, decision)]
        /\ UNCHANGED <<run, transitions, now, job, queue>>

GateSteps(c) ==
    \/ GateClock(c) \/ GateHistory(c) \/ GatePropose(c) \/ GateRules(c)
    \/ GateApply(c) \/ GateJudge(c) \/ GateEscalate(c) \/ GateSample(c)
    \/ GateRecord(c)

-----------------------------------------------------------------------------
(* _judge_now on a thread of the executor.                                 *)

\* Plausible bug: a worker that finished a job is not given another.
EverBusy == {c \in Calls : job[c].pc \notin {"none", "queued"}}

Busy == {c \in Calls : job[c].pc \in {"clock", "judge", "escalate", "discard"}}

\* A free worker takes the oldest job.
TakeJob(c) ==
    /\ queue # <<>>
    /\ c = Head(queue)
    /\ Cardinality(Busy) < JudgeWorkers
    /\ queue' = Tail(queue)

JobRead(c) ==
    /\ TakeJob(c)
    /\ job' = [job EXCEPT ![c].pc = "clock", ![c].snap = Read]
    /\ UNCHANGED <<run, transitions, events, now, gate>>

JobClock(c) ==
    /\ job[c].pc = "clock"
    /\ job' = [job EXCEPT ![c].pc = "judge", ![c].at = now]
    /\ UNCHANGED <<run, transitions, events, now, gate, queue>>

\* The thread is free again.
Finished(j) == [NoJob EXCEPT !.pc = "done"]

\* An adverse verdict escalates only from the states of ESCALATIONS.
JobJudge(c) ==
    /\ job[c].pc = "judge"
    /\ \E verdict \in JudgeAnswers :
        /\ AppendEvent([Event("judge", c, verdict) EXCEPT !.at = job[c].at])
        /\ job' = [job EXCEPT ![c] =
               IF /\ verdict \in Adverse
                  /\ @.snap.row.state \in DOMAIN Escalations
               THEN [@ EXCEPT !.pc = "escalate"]
               ELSE Finished(@)]
    /\ UNCHANGED <<run, transitions, now, gate, queue>>

JobEscalate(c) ==
    LET j == job[c]
    IN  /\ j.pc = "escalate"
        /\ \/ /\ Fresh(j.snap)
              /\ RecordStateChange(j.snap, NextRung(j.snap.row.state),
                                   "judge", "system", j.at)
              /\ job' = [job EXCEPT ![c] = Finished(@)]
           \/ /\ ~Fresh(j.snap)
              /\ Conflict
              /\ job' = [job EXCEPT ![c].pc = "discard"]
        /\ UNCHANGED <<events, now, gate, queue>>

\* stale_judge_verdict_discarded
JobDiscard(c) ==
    /\ job[c].pc = "discard"
    /\ AppendEvent([Event("system", c, "stale") EXCEPT !.at = job[c].at])
    /\ job' = [job EXCEPT ![c] = Finished(@)]
    /\ UNCHANGED <<run, transitions, now, gate, queue>>

JobSteps(c) ==
    JobRead(c) \/ JobClock(c) \/ JobJudge(c) \/ JobEscalate(c) \/ JobDiscard(c)
=============================================================================

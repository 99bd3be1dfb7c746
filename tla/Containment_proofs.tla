------------------------- MODULE Containment_proofs -------------------------
(***************************************************************************)
(* The audit rows of ControlPlane, and that ControlPlane implements        *)
(* ContainmentLadder, for every value of the constants.                    *)
(*                                                                         *)
(* The argument: a snapshot is always the run as it was at the snapshot's  *)
(* revision, and a thread's date is never older than its snapshot.  A      *)
(* commit that passes the revision check therefore moves the run from the  *)
(* very rung, and dates the move after the very move, that the thread saw. *)
(***************************************************************************)
EXTENDS ControlPlane_proofs

StateIn(audit, rev) == IF rev = 0 THEN "healthy" ELSE audit[rev].to

SinceIn(audit, rev) == IF rev = 0 THEN 0 ELSE audit[rev].at

\* A snapshot is the run as it was at its revision.
Coherent(snap, audit) ==
    /\ snap.rev \in 0 .. Len(audit)
    /\ snap.row.state = StateIn(audit, snap.rev)
    /\ snap.row.since = SinceIn(audit, snap.rev)

\* A thread reads the run, then the clock: once it has, its date is not older.
Dated(t) == t.pc \notin {"queued", "clock"}

Order(t, audit, clock) ==
    /\ Coherent(t.snap, audit)
    /\ t.at <= clock
    /\ Dated(t) => t.snap.row.since <= t.at

\* A reaper reads the clock first; Reapable compares the two.
SweepOrder(s, audit, clock) ==
    /\ Coherent(s.snap, audit)
    /\ s.at <= clock

\* What is claimed of the audit rows, and that none is dated in the future.
Audit ==
    /\ AuditExplainsState
    /\ AuditTimesAdvance
    /\ RecoveryWaits
    /\ SilenceWaits
    /\ \A i \in DOMAIN transitions : transitions[i].at <= now

Ordered ==
    /\ \A c \in Calls : Order(gate[c], transitions, now)
    /\ \A c \in Calls : Order(job[c], transitions, now)
    /\ \A r \in Reapers : SweepOrder(sweep[r], transitions, now)
    /\ \A q \in Requests : Order(request[q], transitions, now)

\* The inductive invariant.
IInv == Typed /\ Audit /\ Ordered

-----------------------------------------------------------------------------
(* What a step does to the run.                                            *)

\* The moves a handler may ask for, dated by a thread that saw `row`.
LegalMove(row, to, cause, actor, at) ==
    \/ /\ row.state \in DOMAIN Escalations
       /\ to = NextRung(row.state)
       /\ cause \in RuleNames \cup {"judge"}
       /\ actor = "system"
    \/ /\ row.state \in DOMAIN Escalations
       /\ to = NextRung(row.state)
       /\ cause = "heartbeat_timeout"
       /\ actor = "system"
       /\ at - row.since >= HeartbeatTimeout
    \/ /\ row.state = "degraded"
       /\ to = "healthy"
       /\ cause = "clean_interval"
       /\ actor = "system"
       /\ at - row.since >= RecoveryInterval
    \/ \E op \in Operations :
           /\ Permitted(op, row.state, to)
           /\ cause = CauseOf(op)
           /\ actor = ActorOf(op)

\* Telemetry, log rows and the steps that only move a thread.
StoreStays ==
    /\ run'.state = run.state
    /\ run'.since = run.since
    /\ transitions' = transitions
    /\ now' \in {now, now + 1}

\* A commit that passed the revision check.
StoreMoves(snap, to, cause, actor, at) ==
    /\ Coherent(snap, transitions)
    /\ snap.row.since <= at
    /\ at <= now
    /\ Fresh(snap)
    /\ LegalMove(snap.row, to, cause, actor, at)
    /\ RecordStateChange(snap, to, cause, actor, at)
    /\ now' = now

StoreSteps ==
    \/ StoreStays
    \/ \E snap \in Snapshots, to \in States, cause \in Causes, actor \in Actors,
          at \in Nat : StoreMoves(snap, to, cause, actor, at)

LEMMA MovesAreSteps ==
    ASSUME NEW snap \in Snapshots, NEW to \in States, NEW cause \in Causes,
           NEW actor \in Actors, NEW at \in Nat,
           StoreMoves(snap, to, cause, actor, at)
    PROVE  StoreSteps
BY DEF StoreSteps

\* Nothing about the run or the audit rows changes, whatever the threads do.
LEMMA QuietSteps ==
    ASSUME Typed, UNCHANGED <<run, transitions, now>>
    PROVE  StoreSteps
BY DEF StoreSteps, StoreStays, Typed, TypeOK

LEMMA GateApplyMoves ==
    ASSUME Typed, NEW c \in Calls, GateApply(c), Order(gate[c], transitions, now)
    PROVE  StoreSteps
<1> DEFINE t == gate[c]
<1>1. t \in GateThreads /\ GateFits(t) /\ t.pc = "apply"
  BY GateThread DEF GateApply
<1>2. t.snap \in Snapshots /\ t.at \in Nat
  BY <1>1 DEF GateThreads
<1>3. /\ t.snap.row.state \in DOMAIN Escalations
      /\ RuleTarget(t) \in States /\ t.cause \in Causes
  BY <1>1, RuleTargetType DEF GateFits, States, Causes
<1>4. CASE Fresh(t.snap) /\ RecordStateChange(t.snap, RuleTarget(t), t.cause, "system", t.at)
  <2>1. LegalMove(t.snap.row, RuleTarget(t), t.cause, "system", t.at)
    BY <1>1, <1>3 DEF LegalMove, GateFits, RuleTarget, RecoveryDue, RuleNames
  <2>2. StoreMoves(t.snap, RuleTarget(t), t.cause, "system", t.at)
    BY <1>1, <1>4, <2>1 DEF StoreMoves, Order, Dated, GateApply
  <2>3. "system" \in Actors
    BY DEF Actors
  <2> QED
    BY <1>2, <1>3, <2>2, <2>3, MovesAreSteps
<1>5. CASE Conflict
  BY <1>5, QuietSteps DEF Conflict, GateApply
<1> QED
  BY <1>4, <1>5 DEF GateApply

\* An escalation on a verdict, whichever thread judged.
LEMMA VerdictMoves ==
    ASSUME Typed, NEW t, t.snap \in Snapshots, t.at \in Nat,
           t.snap.row.state \in DOMAIN Escalations,
           t.pc = "escalate", Order(t, transitions, now), now' = now,
           Fresh(t.snap),
           RecordStateChange(t.snap, NextRung(t.snap.row.state), "judge", "system", t.at)
    PROVE  StoreSteps
<1>1. NextRung(t.snap.row.state) \in States
  BY NextRungType
<1>2. "judge" \in Causes /\ "system" \in Actors
  BY DEF Causes, Actors
<1>3. LegalMove(t.snap.row, NextRung(t.snap.row.state), "judge", "system", t.at)
  BY DEF LegalMove
<1>4. StoreMoves(t.snap, NextRung(t.snap.row.state), "judge", "system", t.at)
  BY <1>3 DEF StoreMoves, Order, Dated
<1> QED
  BY <1>1, <1>2, <1>4, MovesAreSteps

LEMMA GateEscalateMoves ==
    ASSUME Typed, NEW c \in Calls, GateEscalate(c), Order(gate[c], transitions, now)
    PROVE  StoreSteps
<1> DEFINE t == gate[c]
<1>1. t \in GateThreads /\ GateFits(t) /\ t.pc = "escalate"
  BY GateThread DEF GateEscalate
<1>2. /\ t.snap \in Snapshots /\ t.at \in Nat
      /\ t.snap.row.state \in DOMAIN Escalations
  BY <1>1 DEF GateThreads, GateFits, Escalations
<1>3. CASE /\ Fresh(t.snap)
           /\ RecordStateChange(t.snap, NextRung(t.snap.row.state), "judge",
                                "system", t.at)
  BY <1>1, <1>2, <1>3, VerdictMoves DEF GateEscalate
<1>4. CASE Conflict
  BY <1>4, QuietSteps DEF Conflict, GateEscalate
<1> QED
  BY <1>3, <1>4 DEF GateEscalate

LEMMA JobEscalateMoves ==
    ASSUME Typed, NEW c \in Calls, JobEscalate(c), Order(job[c], transitions, now)
    PROVE  StoreSteps
<1> DEFINE t == job[c]
<1>1. t \in Jobs /\ JobFits(t) /\ t.pc = "escalate"
  BY JobThread DEF JobEscalate
<1>2. /\ t.snap \in Snapshots /\ t.at \in Nat
      /\ t.snap.row.state \in DOMAIN Escalations
  BY <1>1 DEF Jobs, JobFits
<1>3. CASE /\ Fresh(t.snap)
           /\ RecordStateChange(t.snap, NextRung(t.snap.row.state), "judge",
                                "system", t.at)
  BY <1>1, <1>2, <1>3, VerdictMoves DEF JobEscalate
<1>4. CASE Conflict
  BY <1>4, QuietSteps DEF Conflict, JobEscalate
<1> QED
  BY <1>3, <1>4 DEF JobEscalate

LEMMA SweepCommitMoves ==
    ASSUME Typed, NEW r \in Reapers, SweepCommit(r),
           SweepOrder(sweep[r], transitions, now)
    PROVE  StoreSteps
<1> DEFINE s == sweep[r]
           to == NextRung(s.snap.row.state)
<1>1. s \in Sweeps /\ SweepFits(s) /\ s.pc = "commit"
  BY SweepThread DEF SweepCommit
<1>2. /\ s.snap \in Snapshots /\ s.at \in Nat /\ s.snap.row.since \in Nat
  BY <1>1 DEF Sweeps, Snapshots, RunRows
<1>3. /\ s.snap.row.state \in DOMAIN Escalations
      /\ s.at - s.snap.row.since >= HeartbeatTimeout
      /\ s.snap.row.since <= s.at
  BY <1>1, <1>2, Numbers DEF SweepFits, Reapable
<1>4. CASE Fresh(s.snap) /\ RecordStateChange(s.snap, to, "heartbeat_timeout", "system", s.at)
  <2>1. to \in States /\ "heartbeat_timeout" \in Causes /\ "system" \in Actors
    BY <1>3, NextRungType DEF Causes, Actors
  <2>2. LegalMove(s.snap.row, to, "heartbeat_timeout", "system", s.at)
    BY <1>3 DEF LegalMove
  <2>3. StoreMoves(s.snap, to, "heartbeat_timeout", "system", s.at)
    BY <1>3, <1>4, <2>2 DEF StoreMoves, SweepOrder, SweepCommit
  <2> QED
    BY <1>2, <2>1, <2>3, MovesAreSteps
<1>5. CASE Conflict
  BY <1>5, QuietSteps DEF Conflict, SweepCommit
<1> QED
  BY <1>4, <1>5 DEF SweepCommit

LEMMA RequestCommitMoves ==
    ASSUME Typed, NEW q \in Requests, RequestCommit(q),
           Order(request[q], transitions, now)
    PROVE  StoreSteps
<1> DEFINE t == request[q]
<1>1. t \in RequestThreads /\ RequestFits(t) /\ t.pc = "commit"
  BY RequestThread DEF RequestCommit
<1>2. t.snap \in Snapshots /\ t.at \in Nat /\ t.target \in States
  BY <1>1 DEF RequestThreads
<1>3. /\ t.op \in Operations
      /\ Permitted(t.op, t.snap.row.state, t.target)
  BY <1>1 DEF RequestFits
<1>4. CauseOf(t.op) \in Causes /\ ActorOf(t.op) \in Actors
  BY <1>3 DEF CauseOf, ActorOf, Operations, Causes, Actors
<1>5. CASE /\ Fresh(t.snap)
           /\ RecordStateChange(t.snap, t.target, CauseOf(t.op), ActorOf(t.op), t.at)
  <2>1. LegalMove(t.snap.row, t.target, CauseOf(t.op), ActorOf(t.op), t.at)
    BY <1>3 DEF LegalMove
  <2>2. StoreMoves(t.snap, t.target, CauseOf(t.op), ActorOf(t.op), t.at)
    BY <1>1, <1>5, <2>1 DEF StoreMoves, Order, Dated, RequestCommit
  <2> QED
    BY <1>2, <1>4, <2>2, MovesAreSteps
<1>6. CASE Conflict
  BY <1>6, QuietSteps DEF Conflict, RequestCommit
<1> QED
  BY <1>5, <1>6 DEF RequestCommit

\* An outcome is no move.
LEMMA CountersOnly ==
    ASSUME run \in RunRows, NEW tokens, NEW cost, NEW errors, NEW heartbeat,
           run' = [run EXCEPT !.tokens = @ + tokens, !.cost = @ + cost,
                              !.calls = @ + 1, !.errors = errors,
                              !.heartbeat = heartbeat]
    PROVE  run'.state = run.state /\ run'.since = run.since
BY DEF RunRows

\* Every step of the system is telemetry, bookkeeping, or one legal move.
LEMMA StoreStepsOnly ==
    ASSUME IInv, [Next]_vars
    PROVE  StoreSteps
<1>1. /\ Typed
      /\ \A c \in Calls : Order(gate[c], transitions, now)
      /\ \A c \in Calls : Order(job[c], transitions, now)
      /\ \A r \in Reapers : SweepOrder(sweep[r], transitions, now)
      /\ \A q \in Requests : Order(request[q], transitions, now)
  BY DEF IInv, Ordered
<1>2. ASSUME NEW c \in Calls, GateRead(c) \/ GateSteps(c) \/ JobSteps(c)
      PROVE  StoreSteps
  <2>1. CASE GateApply(c) \/ GateEscalate(c) \/ JobEscalate(c)
    BY <1>1, <2>1, GateApplyMoves, GateEscalateMoves, JobEscalateMoves
  <2>2. CASE \/ GateRead(c) \/ GateClock(c) \/ GateHistory(c) \/ GatePropose(c)
             \/ GateRules(c) \/ GateJudge(c) \/ GateSample(c) \/ GateRecord(c)
             \/ JobRead(c) \/ JobClock(c) \/ JobJudge(c) \/ JobDiscard(c)
    <3>1. UNCHANGED <<run, transitions, now>>
      BY <2>2 DEF GateRead, GateClock, GateHistory, GatePropose, GateRules,
                  GateJudge, GateSample, GateRecord, JobRead, JobClock, JobJudge,
                  JobDiscard
    <3> QED
      BY <1>1, <3>1, QuietSteps
  <2> QED
    BY <1>2, <2>1, <2>2 DEF GateSteps, JobSteps
<1>3. ASSUME NEW r \in Reapers, SweepClock(r) \/ SweepSelect(r) \/ SweepCommit(r)
      PROVE  StoreSteps
  BY <1>1, <1>3, SweepCommitMoves, QuietSteps DEF SweepClock, SweepSelect
<1>4. ASSUME NEW q \in Requests, RequestRead(q) \/ RequestSteps(q)
      PROVE  StoreSteps
  BY <1>1, <1>4, RequestCommitMoves, QuietSteps
     DEF RequestRead, RequestSteps, RequestClock
<1>5. ASSUME NEW p \in Reports, ReportClock(p) \/ ReportSteps(p)
      PROVE  StoreSteps
  <2>1. CASE ReportClock(p)
    BY <1>1, <2>1, QuietSteps DEF ReportClock
  <2>2. CASE HeartbeatCommit(p)
    BY <1>1, <2>2
       DEF HeartbeatCommit, TouchHeartbeat, StoreSteps, StoreStays, Typed, TypeOK,
           RunRows
  <2>3. CASE OutcomeCommit(p)
    <3> DEFINE t == report[p]
    <3>1. CASE RecordOutcome(t.ok, t.tokens, t.cost, t.at)
      <4>1. run'.state = run.state /\ run'.since = run.since
        BY <1>1, <3>1, CountersOnly DEF RecordOutcome, Typed, TypeOK
      <4> QED
        BY <1>1, <2>3, <4>1 DEF OutcomeCommit, StoreSteps, StoreStays, Typed, TypeOK
    <3>2. CASE UNCHANGED <<run, events>>
      BY <1>1, <2>3, <3>2, QuietSteps DEF OutcomeCommit
    <3> QED
      BY <2>3, <3>1, <3>2 DEF OutcomeCommit
  <2> QED
    BY <1>5, <2>1, <2>2, <2>3 DEF ReportSteps
<1>6. CASE Tick /\ UNCHANGED <<run, transitions, events, gate, job, queue, sweep,
                               request, report, faults>>
  BY <1>1, <1>6 DEF Tick, StoreSteps, StoreStays, Typed, TypeOK
<1>7. CASE Fault \/ UNCHANGED vars
  BY <1>1, <1>7, QuietSteps, FaultFrame DEF Faulty, vars
<1> QED
  BY <1>2, <1>3, <1>4, <1>5, <1>6, <1>7, NextCases
     DEF GateNext, ReaperNext, ApiNext, Quiescent

-----------------------------------------------------------------------------
(* The audit rows.                                                         *)

\* What is at a revision stays there.
LEMMA CoherentStays ==
    ASSUME transitions \in Seq(TransitionRows), StoreSteps,
           NEW snap, Coherent(snap, transitions)
    PROVE  Coherent(snap, transitions')
<1>1. ASSUME transitions' = transitions
      PROVE  Coherent(snap, transitions')
  BY <1>1
<1>2. ASSUME NEW row \in TransitionRows, transitions' = Append(transitions, row)
      PROVE  Coherent(snap, transitions')
  <2>1. /\ Len(transitions') = Len(transitions) + 1
        /\ \A i \in 1 .. Len(transitions) : transitions'[i] = transitions[i]
    BY <1>2
  <2>2. Len(transitions) \in Nat
    OBVIOUS
  <2> QED
    BY <2>1, <2>2 DEF Coherent, StateIn, SinceIn
<1>3. CASE StoreStays
  BY <1>1, <1>3 DEF StoreStays
<1>4. ASSUME NEW s \in Snapshots, NEW to \in States, NEW cause \in Causes,
             NEW actor \in Actors, NEW at \in Nat, StoreMoves(s, to, cause, actor, at)
      PROVE  Coherent(snap, transitions')
  <2> DEFINE row == [from |-> s.row.state, to |-> to, cause |-> cause,
                     actor |-> actor, at |-> at]
  <2>1. row \in TransitionRows
    BY DEF TransitionRows, Snapshots, RunRows
  <2>2. transitions' = Append(transitions, row)
    BY <1>4 DEF StoreMoves, RecordStateChange
  <2> QED
    BY <1>2, <2>1, <2>2
<1> QED
  BY <1>3, <1>4 DEF StoreSteps

\* A snapshot that is still current has the row's rung and its date.
LEMMA FreshMeansCurrent ==
    ASSUME Audit, NEW snap, Coherent(snap, transitions), Fresh(snap)
    PROVE  /\ snap.row.state = StateAt(Revision)
           /\ snap.row.since = SinceAt(Revision)
           /\ snap.row.state = run.state
           /\ snap.row.since = run.since
BY DEF Audit, AuditExplainsState, Coherent, Fresh, StateIn, SinceIn, StateAt,
       SinceAt, Revision

LEMMA AuditStays ==
    ASSUME Typed, Audit, StoreStays
    PROVE  Audit'
<1>1. \A i \in DOMAIN transitions : transitions[i] \in TransitionRows
  BY DEF Typed, TypeOK
<1>2. \A i \in DOMAIN transitions : transitions[i].at <= now'
  BY <1>1 DEF Audit, StoreStays, Typed, TypeOK, TransitionRows
<1>3. AuditExplainsState'
  BY DEF StoreStays, Audit, AuditExplainsState, StateAt, SinceAt, Revision
<1>4. AuditTimesAdvance'
  BY DEF StoreStays, Audit, AuditTimesAdvance, SinceAt
<1>5. RecoveryWaits' /\ SilenceWaits'
  BY DEF StoreStays, Audit, RecoveryWaits, SilenceWaits, SinceAt
<1>6. transitions' = transitions
  BY DEF StoreStays
<1> QED
  BY <1>2, <1>3, <1>4, <1>5, <1>6 DEF Audit

LEMMA AuditMoves ==
    ASSUME Typed, Audit,
           NEW snap \in Snapshots, NEW to \in States, NEW cause \in Causes,
           NEW actor \in Actors, NEW at \in Nat,
           StoreMoves(snap, to, cause, actor, at)
    PROVE  Audit'
<1> DEFINE n   == Len(transitions)
           row == [from |-> snap.row.state, to |-> to, cause |-> cause,
                   actor |-> actor, at |-> at]
<1>1. transitions \in Seq(TransitionRows) /\ n \in Nat /\ DOMAIN transitions = 1 .. n
  BY DEF Typed, TypeOK
<1>2. /\ transitions' = Append(transitions, row)
      /\ Len(transitions') = n + 1
      /\ DOMAIN transitions' = 1 .. n + 1
      /\ \A i \in 1 .. n : transitions'[i] = transitions[i]
      /\ transitions'[n + 1] = row
  BY <1>1 DEF StoreMoves, RecordStateChange
<1>3. /\ \A i \in 0 .. n : StateAt(i)' = StateAt(i)
      /\ \A i \in 0 .. n : SinceAt(i)' = SinceAt(i)
  BY <1>1, <1>2 DEF StateAt, SinceAt
<1>4. row.from = StateAt(n) /\ snap.row.since = SinceAt(n)
  BY FreshMeansCurrent DEF StoreMoves, Revision
<1>5. AuditExplainsState'
  <2>1. run'.state = to /\ run'.since = at
    BY DEF StoreMoves, RecordStateChange, Typed, TypeOK, RunRows
  <2>2. run'.state = StateAt(Revision)' /\ run'.since = SinceAt(Revision)'
    BY <1>1, <1>2, <2>1 DEF StateAt, SinceAt, Revision
  <2>3. \A i \in 1 .. n + 1 : transitions'[i].from = StateAt(i - 1)'
    <3> TAKE i \in 1 .. n + 1
    <3>1. CASE i = n + 1
      BY <1>1, <1>2, <1>3, <1>4, <3>1
    <3>2. CASE i \in 1 .. n
      <4>1. transitions[i].from = StateAt(i - 1) /\ i - 1 \in 0 .. n
        BY <1>1, <3>2 DEF Audit, AuditExplainsState
      <4> QED
        BY <1>2, <1>3, <3>2, <4>1
    <3> QED
      BY <1>1, <3>1, <3>2
  <2> QED
    BY <1>2, <2>2, <2>3 DEF AuditExplainsState
<1>6. AuditTimesAdvance'
  <2> SUFFICES ASSUME NEW i \in 1 .. n + 1
               PROVE  SinceAt(i - 1)' <= transitions'[i].at
    BY <1>2 DEF AuditTimesAdvance
  <2>1. CASE i = n + 1
    BY <1>1, <1>2, <1>3, <1>4, <2>1 DEF StoreMoves
  <2>2. CASE i \in 1 .. n
    <3>1. SinceAt(i - 1) <= transitions[i].at /\ i - 1 \in 0 .. n
      BY <1>1, <2>2 DEF Audit, AuditTimesAdvance
    <3> QED
      BY <1>2, <1>3, <2>2, <3>1
  <2> QED
    BY <1>1, <2>1, <2>2
<1>7. RecoveryWaits'
  <2> SUFFICES ASSUME NEW i \in 1 .. n + 1, transitions'[i].cause = "clean_interval"
               PROVE  /\ transitions'[i].from = "degraded"
                      /\ transitions'[i].at - SinceAt(i - 1)' >= RecoveryInterval
    BY <1>2 DEF RecoveryWaits
  <2>1. CASE i = n + 1
    <3>1. cause = "clean_interval"
      BY <1>2, <2>1
    <3>2. row.from = "degraded" /\ at - snap.row.since >= RecoveryInterval
      BY <3>1 DEF StoreMoves, LegalMove, RuleNames, CauseOf, Operations
    <3> QED
      BY <1>1, <1>2, <1>3, <1>4, <2>1, <3>2
  <2>2. CASE i \in 1 .. n
    <3>1. /\ transitions[i].from = "degraded"
          /\ transitions[i].at - SinceAt(i - 1) >= RecoveryInterval
          /\ i - 1 \in 0 .. n
      BY <1>1, <1>2, <2>2 DEF Audit, RecoveryWaits
    <3> QED
      BY <1>2, <1>3, <2>2, <3>1
  <2> QED
    BY <1>1, <2>1, <2>2
<1>8. SilenceWaits'
  <2> SUFFICES ASSUME NEW i \in 1 .. n + 1, transitions'[i].cause = "heartbeat_timeout"
               PROVE  transitions'[i].at - SinceAt(i - 1)' >= HeartbeatTimeout
    BY <1>2 DEF SilenceWaits
  <2>1. CASE i = n + 1
    <3>1. cause = "heartbeat_timeout"
      BY <1>2, <2>1
    <3>2. at - snap.row.since >= HeartbeatTimeout
      BY <3>1 DEF StoreMoves, LegalMove, RuleNames, CauseOf, Operations
    <3> QED
      BY <1>1, <1>2, <1>3, <1>4, <2>1, <3>2
  <2>2. CASE i \in 1 .. n
    <3>1. transitions[i].at - SinceAt(i - 1) >= HeartbeatTimeout /\ i - 1 \in 0 .. n
      BY <1>1, <1>2, <2>2 DEF Audit, SilenceWaits
    <3> QED
      BY <1>2, <1>3, <2>2, <3>1
  <2> QED
    BY <1>1, <2>1, <2>2
<1>9. \A i \in DOMAIN transitions' : transitions'[i].at <= now'
  BY <1>1, <1>2 DEF Audit, StoreMoves
<1> QED
  BY <1>5, <1>6, <1>7, <1>8, <1>9 DEF Audit

-----------------------------------------------------------------------------
(* The threads.                                                            *)

\* What a step may do to a thread's snapshot and its date: keep both, end the
\* handler, read the run, read the clock, or commit a move and read it back.
Advances(t, u) ==
    \/ /\ u.snap = t.snap
       /\ u.at = t.at
       /\ Dated(u) => Dated(t)
    \/ u.snap = NoSnapshot /\ u.at = 0
    \/ u.snap = Read /\ u.at = t.at /\ ~Dated(u)
    \/ u.snap = t.snap /\ u.at = now
    \/ /\ u.snap = [row |-> run', rev |-> Len(transitions')]
       /\ u.at = t.at
       /\ run'.since = t.at

\* No run reached its rung in the future, as far as any thread can tell.
LEMMA CoherentIsPast ==
    ASSUME Typed, Audit, NEW snap, Coherent(snap, transitions)
    PROVE  snap.row.since \in Nat /\ snap.row.since <= now
<1>1. /\ now \in Nat
      /\ Len(transitions) \in Nat
      /\ DOMAIN transitions = 1 .. Len(transitions)
      /\ \A i \in DOMAIN transitions : transitions[i] \in TransitionRows
  BY DEF Typed, TypeOK
<1>4. \A i \in DOMAIN transitions : transitions[i].at \in Nat
  BY <1>1 DEF TransitionRows
<1>2. CASE snap.rev = 0
  BY <1>1, <1>2 DEF Coherent, SinceIn
<1>3. CASE snap.rev # 0
  <2>1. snap.rev \in DOMAIN transitions /\ snap.row.since = transitions[snap.rev].at
    BY <1>1, <1>3 DEF Coherent, SinceIn
  <2> QED
    BY <1>4, <1>1, <2>1 DEF Audit
<1> QED
  BY <1>2, <1>3

LEMMA ReadIsCoherent ==
    ASSUME Typed, Audit
    PROVE  Coherent(Read, transitions)
<1>1. Len(transitions) \in 0 .. Len(transitions)
  BY DEF Typed, TypeOK
<1> QED
  BY <1>1
     DEF Audit, AuditExplainsState, Read, Revision, Coherent, StateIn, SinceIn,
         StateAt, SinceAt

LEMMA NoSnapshotIsCoherent ==
    ASSUME Typed
    PROVE  Coherent(NoSnapshot, transitions)
<1>1. 0 \in 0 .. Len(transitions)
  BY DEF Typed, TypeOK
<1> QED
  BY <1>1 DEF NoSnapshot, NewRun, Coherent, StateIn, SinceIn

LEMMA StoreStepsClock ==
    ASSUME Typed, StoreSteps
    PROVE  now \in Nat /\ now' \in Nat /\ now <= now'
BY DEF StoreSteps, StoreStays, StoreMoves, Typed, TypeOK

LEMMA CoherentAdvances ==
    ASSUME Typed, Audit, Typed', Audit', StoreSteps,
           NEW t, NEW u, Coherent(t.snap, transitions), Advances(t, u)
    PROVE  Coherent(u.snap, transitions')
<1>1. transitions \in Seq(TransitionRows)
  BY DEF Typed, TypeOK
<1>2. CASE u.snap = t.snap \/ u.snap = NoSnapshot \/ u.snap = Read
  BY <1>1, <1>2, CoherentStays, NoSnapshotIsCoherent, ReadIsCoherent
<1>3. CASE u.snap = [row |-> run', rev |-> Len(transitions')]
  <2>1. Len(transitions') \in 0 .. Len(transitions')
    BY DEF Typed, TypeOK
  <2> QED
    BY <1>3, <2>1
       DEF Audit, AuditExplainsState, Revision, Coherent, StateIn, SinceIn,
           StateAt, SinceAt
<1> QED
  BY <1>2, <1>3 DEF Advances

LEMMA OrderAdvances ==
    ASSUME Typed, Audit, Typed', Audit', StoreSteps,
           NEW t, NEW u, t.at \in Nat, Order(t, transitions, now), Advances(t, u)
    PROVE  Order(u, transitions', now')
<1>1. now \in Nat /\ now' \in Nat /\ now <= now'
  BY StoreStepsClock
<1>2. Coherent(u.snap, transitions')
  BY CoherentAdvances DEF Order
<1>3. t.snap.row.since \in Nat /\ t.snap.row.since <= now
  BY CoherentIsPast DEF Order
<1>4. u.at <= now'
  BY <1>1 DEF Advances, Order
<1>5. Dated(u) => u.snap.row.since <= u.at
  <2>1. CASE u.snap = t.snap /\ u.at = t.at /\ (Dated(u) => Dated(t))
    BY <2>1 DEF Order
  <2>2. CASE u.snap = NoSnapshot /\ u.at = 0
    BY <2>2 DEF NoSnapshot, NewRun
  <2>3. CASE u.snap = t.snap /\ u.at = now
    BY <1>3, <2>3
  <2>4. CASE /\ u.snap = [row |-> run', rev |-> Len(transitions')]
             /\ u.at = t.at
             /\ run'.since = t.at
    BY <2>4
  <2> QED
    BY <2>1, <2>2, <2>3, <2>4 DEF Advances
<1> QED
  BY <1>2, <1>4, <1>5 DEF Order

LEMMA ReadIsTypedNext ==
    ASSUME Typed'
    PROVE  Read' \in Snapshots
BY DEF Typed, TypeOK, Read, Revision, Snapshots

\* A gate thread, through its own steps.
LEMMA GateAdvances ==
    ASSUME Typed, Typed', NEW c \in Calls, GateRead(c) \/ GateSteps(c)
    PROVE  Advances(gate[c], gate'[c])
<1> DEFINE t == gate[c]
           u == gate'[c]
<1>1. /\ t \in GateThreads
      /\ \A v : gate' = [gate EXCEPT ![c] = v] => u = v
  BY GateThread DEF Typed, TypeOK
<1>2. \A s \in GateThreads : \A a : Return(s, a).snap = NoSnapshot /\ Return(s, a).at = 0
  BY DEF Return, NewThread
<1>3. \A s \in GateThreads : \A d :
          ToRecord(s, d).snap = s.snap /\ ToRecord(s, d).at = s.at
  BY DEF ToRecord, GateThreads
<1>4. \A s \in GateThreads : Route(s).snap = s.snap /\ Route(s).at = s.at
  BY <1>3 DEF Route, GateThreads
<1>5. CASE GateRead(c)
  <2>1. PICK tool \in Tools, args \in Args :
          u = IF run.state = "terminated"
              THEN Return([t EXCEPT !.tool = tool, !.args = args, !.snap = Read],
                          "terminated")
              ELSE [[t EXCEPT !.tool = tool, !.args = args, !.snap = Read]
                      EXCEPT !.pc = "clock"]
    BY <1>1, <1>5 DEF GateRead
  <2>2. CASE run.state = "terminated"
    BY <2>1, <2>2 DEF Return, NewThread, Advances
  <2>3. CASE run.state # "terminated"
    <3>1. u.snap = Read /\ u.at = t.at /\ ~Dated(u)
      BY <1>1, <2>1, <2>3 DEF GateThreads, Dated
    <3> QED
      BY <3>1 DEF Advances
  <2> QED
    BY <2>2, <2>3
<1>6. CASE GateClock(c)
  <2>1. u.snap = t.snap /\ u.at = now
    BY <1>6, <1>1 DEF GateClock, Typed, TypeOK, GateThreads
  <2> QED
    BY <2>1 DEF Advances
<1>7. CASE GateHistory(c) \/ GatePropose(c) \/ GateRules(c) \/ GateJudge(c)
           \/ GateSample(c)
  <2>1. u.snap = t.snap /\ u.at = t.at
    <3>1. CASE GateHistory(c)
      BY <1>1, <3>1 DEF GateHistory, GateThreads
    <3>2. CASE GatePropose(c)
      BY <1>1, <1>3, <3>2 DEF GatePropose, GateThreads
    <3>3. CASE GateRules(c)
      BY <1>1, <1>4, <3>3 DEF GateRules, GateThreads
    <3>4. CASE GateJudge(c)
      BY <1>1, <1>3, <3>4 DEF GateJudge, GateThreads
    <3>5. CASE GateSample(c)
      BY <1>1, <1>3, <3>5 DEF GateSample
    <3> QED
      BY <1>7, <3>1, <3>2, <3>3, <3>4, <3>5
  <2>2. Dated(t)
    BY <1>7 DEF Dated, GateHistory, GatePropose, GateRules, GateJudge, GateSample
  <2> QED
    BY <2>1, <2>2 DEF Advances
<1>8. CASE GateApply(c) \/ GateEscalate(c)
  <2> DEFINE s == [t EXCEPT !.snap = Read']
  <2>1. Dated(t) /\ t.at \in Nat
    BY <1>1, <1>8 DEF Dated, GateApply, GateEscalate, GateThreads
  <2>2. CASE u = OnConflict(t)
    BY <1>1, <1>3, <2>1, <2>2 DEF OnConflict, Advances
  <2>3. CASE /\ run' = [run EXCEPT !.state = run'.state, !.since = t.at]
             /\ u \in {Route(s), ToRecord(s, "deny")}
    <3>1. Read' \in Snapshots
      BY ReadIsTypedNext
    <3>2. s \in GateThreads /\ s.snap = Read' /\ s.at = t.at
      BY <1>1, <3>1 DEF GateThreads
    <3>5. /\ Route(s).snap = s.snap /\ Route(s).at = s.at
          /\ ToRecord(s, "deny").snap = s.snap /\ ToRecord(s, "deny").at = s.at
      BY <1>3, <1>4, <3>2
    <3>3. u.snap = Read' /\ u.at = t.at
      BY <2>3, <3>2, <3>5
    <3>4. run'.since = t.at
      BY <2>3 DEF Typed, TypeOK, RunRows
    <3> QED
      BY <3>3, <3>4 DEF Advances, Read, Revision
  <2>4. run \in RunRows /\ \A to : [run EXCEPT !.state = to, !.since = t.at].state = to
    BY DEF Typed, TypeOK, RunRows
  <2>5. CASE GateApply(c)
    BY <1>1, <2>2, <2>3, <2>4, <2>5 DEF GateApply, RecordStateChange
  <2>6. CASE GateEscalate(c)
    BY <1>1, <2>2, <2>3, <2>4, <2>6 DEF GateEscalate, RecordStateChange
  <2> QED
    BY <1>8, <2>5, <2>6
<1>9. CASE GateRecord(c)
  <2>1. \E answer : gate' = [gate EXCEPT ![c] = Return(t, answer)]
    BY <1>9 DEF GateRecord
  <2>2. PICK answer : u = Return(t, answer)
    BY <1>1, <2>1
  <2> QED
    BY <1>1, <1>2, <2>2 DEF Advances
<1> QED
  BY <1>5, <1>6, <1>7, <1>8, <1>9 DEF GateSteps

LEMMA JobAdvances ==
    ASSUME Typed, NEW c \in Calls, JobSteps(c)
    PROVE  Advances(job[c], job'[c])
<1> DEFINE t == job[c]
           u == job'[c]
<1>1. /\ t \in Jobs
      /\ \A v : job' = [job EXCEPT ![c] = v] => u = v
  BY JobThread DEF Typed, TypeOK
<1>2. \A j : Finished(j).snap = NoSnapshot /\ Finished(j).at = 0
  BY DEF Finished, NoJob
<1>3. CASE JobRead(c)
  <2>1. u.snap = Read /\ u.at = t.at /\ ~Dated(u)
    BY <1>1, <1>3 DEF Dated, JobRead, Jobs, Typed, TypeOK
  <2> QED
    BY <2>1 DEF Advances
<1>4. CASE JobClock(c)
  <2>1. u.snap = t.snap /\ u.at = now
    BY <1>1, <1>4 DEF JobClock, Jobs, Typed, TypeOK
  <2> QED
    BY <2>1 DEF Advances
<1>5. ASSUME Dated(t),
             \/ job' = [job EXCEPT ![c] = Finished(@)]
             \/ job' = [job EXCEPT ![c] = [@ EXCEPT !.pc = "escalate"]]
             \/ job' = [job EXCEPT ![c] = [@ EXCEPT !.pc = "discard"]]
      PROVE  Advances(t, u)
  <2>1. \/ u.snap = NoSnapshot /\ u.at = 0
        \/ u.snap = t.snap /\ u.at = t.at
    BY <1>1, <1>2, <1>5 DEF Jobs
  <2> QED
    BY <1>5, <2>1 DEF Advances
<1>6. CASE JobJudge(c)
  BY <1>5, <1>6 DEF Dated, JobJudge
<1>7. CASE JobEscalate(c)
  BY <1>5, <1>7 DEF Dated, JobEscalate
<1>8. CASE JobDiscard(c)
  BY <1>5, <1>8 DEF Dated, JobDiscard
<1> QED
  BY <1>3, <1>4, <1>6, <1>7, <1>8 DEF JobSteps

LEMMA RequestAdvances ==
    ASSUME Typed, NEW q \in Requests, RequestRead(q) \/ RequestSteps(q)
    PROVE  Advances(request[q], request'[q])
<1> DEFINE t == request[q]
           u == request'[q]
<1>1. /\ t \in RequestThreads
      /\ \A v : request' = [request EXCEPT ![q] = v] => u = v
  BY RequestThread DEF Typed, TypeOK
<1>2. \A s, a : Answered(s, a).snap = NoSnapshot /\ Answered(s, a).at = 0
  BY DEF Answered, NewRequest
<1>3. CASE RequestRead(q)
  <2>1. PICK op \in Operations, target \in States :
          u = [t EXCEPT !.pc = "clock", !.op = op, !.target = target, !.snap = Read]
    BY <1>1, <1>3 DEF RequestRead
  <2>2. u.snap = Read /\ u.at = t.at /\ ~Dated(u)
    BY <1>1, <2>1 DEF Dated, RequestThreads
  <2> QED
    BY <2>2 DEF Advances
<1>4. CASE RequestClock(q)
  <2>1. \/ u = Answered(t, "illegal")
        \/ u = [t EXCEPT !.pc = "commit", !.at = now]
    BY <1>1, <1>4 DEF RequestClock
  <2>2. [t EXCEPT !.pc = "commit", !.at = now].snap = t.snap
    BY <1>1 DEF RequestThreads
  <2>3. [t EXCEPT !.pc = "commit", !.at = now].at = now
    BY <1>1 DEF RequestThreads
  <2>4. Answered(t, "illegal").snap = NoSnapshot /\ Answered(t, "illegal").at = 0
    BY <1>2
  <2> QED
    BY <2>1, <2>2, <2>3, <2>4 DEF Advances
<1>5. CASE RequestCommit(q)
  <2>1. \/ request' = [request EXCEPT ![q] = Answered(t, "ok")]
        \/ request' = [request EXCEPT ![q] = Answered(t, "conflict")]
    BY <1>5 DEF RequestCommit
  <2>2. u = Answered(t, "ok") \/ u = Answered(t, "conflict")
    BY <1>1, <2>1
  <2>3. u.snap = NoSnapshot /\ u.at = 0
    BY <1>2, <2>2
  <2> QED
    BY <2>3 DEF Advances
<1> QED
  BY <1>3, <1>4, <1>5 DEF RequestSteps

\* A reaper reads the clock before the run.
LEMMA SweepAdvances ==
    ASSUME Typed, NEW r \in Reapers,
           SweepClock(r) \/ SweepSelect(r) \/ SweepCommit(r)
    PROVE  /\ sweep'[r].snap \in {sweep[r].snap, NoSnapshot, Read}
           /\ sweep'[r].at \in {sweep[r].at, 0, now}
<1> DEFINE t == sweep[r]
           u == sweep'[r]
<1>1. t \in Sweeps /\ (\A v : sweep' = [sweep EXCEPT ![r] = v] => u = v)
  BY SweepThread DEF Typed, TypeOK
<1>2. Idle.snap = NoSnapshot /\ Idle.at = 0
  BY DEF Idle
<1>3. CASE SweepClock(r)
  BY <1>1, <1>3 DEF SweepClock, Sweeps, Typed, TypeOK
<1>4. CASE SweepSelect(r)
  BY <1>1, <1>2, <1>4 DEF SweepSelect, Sweeps
<1>5. CASE SweepCommit(r)
  BY <1>1, <1>2, <1>5 DEF SweepCommit
<1> QED
  BY <1>3, <1>4, <1>5

LEMMA FaultAdvances ==
    ASSUME Typed, Fault
    PROVE  /\ \A c \in Calls : \/ gate'[c] = gate[c]
                               \/ gate'[c].snap = NoSnapshot /\ gate'[c].at = 0
           /\ \A c \in Calls : \/ job'[c] = job[c]
                               \/ job'[c].snap = NoSnapshot /\ job'[c].at = 0
           /\ \A r \in Reapers : \/ sweep'[r] = sweep[r]
                                 \/ sweep'[r].snap = NoSnapshot /\ sweep'[r].at = 0
           /\ \A q \in Requests : \/ request'[q] = request[q]
                                  \/ request'[q].snap = NoSnapshot /\ request'[q].at = 0
<1>1. /\ \A t, a : Return(t, a).snap = NoSnapshot /\ Return(t, a).at = 0
      /\ \A t, a : Answered(t, a).snap = NoSnapshot /\ Answered(t, a).at = 0
      /\ Idle.snap = NoSnapshot /\ Idle.at = 0
      /\ [NoJob EXCEPT !.pc = "lost"].snap = NoSnapshot
      /\ [NoJob EXCEPT !.pc = "lost"].at = 0
  BY DEF Return, NewThread, Answered, NewRequest, Idle, NoJob
<1>2. CASE Crash
  BY <1>1, <1>2 DEF Crash
<1>3. /\ DOMAIN gate = Calls /\ DOMAIN job = Calls
      /\ DOMAIN sweep = Reapers /\ DOMAIN request = Requests
  BY DEF Typed, TypeOK
<1>4. CASE GateOutage
  BY <1>1, <1>3, <1>4 DEF GateOutage
<1>5. CASE JobOutage
  BY <1>1, <1>3, <1>5 DEF JobOutage
<1>6. CASE SweepOutage
  BY <1>1, <1>3, <1>6 DEF SweepOutage
<1>7. CASE RequestOutage
  BY <1>1, <1>3, <1>7 DEF RequestOutage
<1>8. CASE ReportOutage
  BY <1>8 DEF ReportOutage
<1> QED
  BY <1>2, <1>4, <1>5, <1>6, <1>7, <1>8 DEF Fault, Outage

LEMMA OrderedNext ==
    ASSUME IInv, [Next]_vars, Typed', Audit', StoreSteps
    PROVE  Ordered'
<1>1. Typed /\ Audit /\ Ordered
  BY DEF IInv
<1>2. ASSUME NEW t, NEW u, t.at \in Nat, Order(t, transitions, now),
             \/ u = t
             \/ u.snap = NoSnapshot /\ u.at = 0
             \/ Advances(t, u)
      PROVE  Order(u, transitions', now')
  <2>1. Advances(t, u)
    BY <1>2 DEF Advances
  <2> QED
    BY <1>1, <1>2, <2>1, OrderAdvances
<1>3. ASSUME NEW c \in Calls
      PROVE  Order(gate'[c], transitions', now')
  <2>1. gate[c].at \in Nat /\ Order(gate[c], transitions, now)
    BY <1>1, GateThread DEF Ordered, GateThreads
  <2>2. \/ gate'[c] = gate[c]
        \/ gate'[c].snap = NoSnapshot /\ gate'[c].at = 0
        \/ Advances(gate[c], gate'[c])
    <3>1. CASE GateRead(c) \/ GateSteps(c)
      BY <1>1, <3>1, GateAdvances
    <3>2. ASSUME NEW d \in Calls \ {c}, GateRead(d) \/ GateSteps(d)
          PROVE  gate'[c] = gate[c]
      <4>1. DOMAIN gate = Calls
        BY <1>1 DEF Typed, TypeOK
      <4> QED
        BY <3>2, <4>1
           DEF GateRead, GateSteps, GateClock, GateHistory, GatePropose, GateRules,
               GateApply, GateJudge, GateEscalate, GateSample, GateRecord
    <3>3. ASSUME NEW d \in Calls, JobSteps(d)
          PROVE  gate'[c] = gate[c]
      BY <3>3 DEF JobSteps, JobRead, JobClock, JobJudge, JobEscalate, JobDiscard
    <3>4. CASE Fault
      BY <1>1, <3>4, FaultAdvances
    <3>5. CASE UNCHANGED gate
      BY <3>5
    <3> QED
      BY <3>1, <3>2, <3>3, <3>4, <3>5, NextCases
         DEF GateNext, ReaperAlone, ApiAlone, Quiescent, vars
  <2> QED
    BY <1>2, <2>1, <2>2
<1>4. ASSUME NEW c \in Calls
      PROVE  Order(job'[c], transitions', now')
  <2>1. job[c].at \in Nat /\ Order(job[c], transitions, now)
    BY <1>1, JobThread DEF Ordered, Jobs
  <2>2. \/ job'[c] = job[c]
        \/ job'[c].snap = NoSnapshot /\ job'[c].at = 0
        \/ Advances(job[c], job'[c])
    <3>1. CASE JobSteps(c)
      BY <1>1, <3>1, JobAdvances
    <3>2. ASSUME NEW d \in Calls \ {c}, JobSteps(d)
          PROVE  job'[c] = job[c]
      <4>1. DOMAIN job = Calls
        BY <1>1 DEF Typed, TypeOK
      <4> QED
        BY <3>2, <4>1
           DEF JobSteps, JobRead, JobClock, JobJudge, JobEscalate, JobDiscard
    <3>3. ASSUME NEW d \in Calls, GateRead(d) \/ GateSteps(d)
          PROVE  job'[c] = job[c] \/ Advances(job[c], job'[c])
      <4>1. CASE UNCHANGED job
        BY <4>1
      <4>2. CASE job' = [job EXCEPT ![d].pc = "queued"]
        <5>1. job[c] \in Jobs /\ DOMAIN job = Calls
          BY <1>1 DEF Typed, TypeOK
        <5>2. \/ job'[c] = job[c]
              \/ /\ job'[c].snap = job[c].snap
                 /\ job'[c].at = job[c].at
                 /\ job'[c].pc = "queued"
          BY <4>2, <5>1 DEF Jobs
        <5> QED
          BY <5>2 DEF Advances, Dated
      <4> QED
        BY <3>3, <4>1, <4>2
           DEF GateRead, GateSteps, GateClock, GateHistory, GatePropose, GateRules,
               GateApply, GateJudge, GateEscalate, GateSample, GateRecord
    <3>4. CASE Fault
      BY <1>1, <3>4, FaultAdvances
    <3>5. CASE UNCHANGED job
      BY <3>5
    <3> QED
      BY <3>1, <3>2, <3>3, <3>4, <3>5, NextCases
         DEF GateNext, ReaperAlone, ApiAlone, Quiescent, vars
  <2> QED
    BY <1>2, <2>1, <2>2
<1>5. ASSUME NEW q \in Requests
      PROVE  Order(request'[q], transitions', now')
  <2>1. request[q].at \in Nat /\ Order(request[q], transitions, now)
    BY <1>1, RequestThread DEF Ordered, RequestThreads
  <2>2. \/ request'[q] = request[q]
        \/ request'[q].snap = NoSnapshot /\ request'[q].at = 0
        \/ Advances(request[q], request'[q])
    <3>1. CASE RequestRead(q) \/ RequestSteps(q)
      BY <1>1, <3>1, RequestAdvances
    <3>2. ASSUME NEW d \in Requests \ {q}, RequestRead(d) \/ RequestSteps(d)
          PROVE  request'[q] = request[q]
      <4>1. DOMAIN request = Requests
        BY <1>1 DEF Typed, TypeOK
      <4> QED
        BY <3>2, <4>1 DEF RequestRead, RequestSteps, RequestClock, RequestCommit
    <3>3. ASSUME NEW p \in Reports, ReportClock(p) \/ ReportSteps(p)
          PROVE  request'[q] = request[q]
      BY <3>3 DEF ReportClock, ReportSteps, HeartbeatCommit, OutcomeCommit
    <3>4. CASE Fault
      BY <1>1, <3>4, FaultAdvances
    <3>5. CASE UNCHANGED request
      BY <3>5
    <3> QED
      BY <3>1, <3>2, <3>3, <3>4, <3>5, NextCases
         DEF ApiNext, ReaperAlone, GateAlone, Quiescent, vars
  <2> QED
    BY <1>2, <2>1, <2>2
<1>6. ASSUME NEW r \in Reapers
      PROVE  SweepOrder(sweep'[r], transitions', now')
  <2>1. sweep[r].at \in Nat /\ SweepOrder(sweep[r], transitions, now)
    BY <1>1, SweepThread DEF Ordered, Sweeps
  <2>2. /\ sweep'[r].snap \in {sweep[r].snap, NoSnapshot, Read}
        /\ sweep'[r].at \in {sweep[r].at, 0, now}
    <3>1. CASE SweepClock(r) \/ SweepSelect(r) \/ SweepCommit(r)
      BY <1>1, <3>1, SweepAdvances
    <3>2. ASSUME NEW d \in Reapers \ {r},
                 SweepClock(d) \/ SweepSelect(d) \/ SweepCommit(d)
          PROVE  sweep'[r] = sweep[r]
      <4>1. DOMAIN sweep = Reapers
        BY <1>1 DEF Typed, TypeOK
      <4> QED
        BY <3>2, <4>1 DEF SweepClock, SweepSelect, SweepCommit
    <3>3. CASE Fault
      BY <1>1, <3>3, FaultAdvances
    <3>4. CASE UNCHANGED sweep
      BY <3>4
    <3> QED
      BY <3>1, <3>2, <3>3, <3>4, NextCases
         DEF ReaperNext, ApiAlone, GateAlone, Quiescent, vars
  <2>3. Coherent(sweep'[r].snap, transitions')
    <3>1. /\ Coherent(sweep[r].snap, transitions)
          /\ Coherent(NoSnapshot, transitions)
          /\ Coherent(Read, transitions)
      BY <1>1, <2>1, NoSnapshotIsCoherent, ReadIsCoherent DEF SweepOrder
    <3>2. transitions \in Seq(TransitionRows)
      BY <1>1 DEF Typed, TypeOK
    <3> QED
      BY <2>2, <3>1, <3>2, CoherentStays
  <2>4. sweep'[r].at <= now'
    <3>1. now \in Nat /\ now' \in Nat /\ now <= now'
      BY <1>1, StoreStepsClock
    <3> QED
      BY <2>1, <2>2, <3>1 DEF SweepOrder
  <2> QED
    BY <2>3, <2>4 DEF SweepOrder
<1> QED
  BY <1>3, <1>4, <1>5, <1>6 DEF Ordered

-----------------------------------------------------------------------------
(* The invariant and what it gives.                                        *)

LEMMA InitOrdered == Init => IInv
<1> SUFFICES ASSUME Init PROVE IInv
  OBVIOUS
<1>1. Typed
  BY InitTyped
<1>2. run = NewRun /\ transitions = <<>> /\ now = 0
  BY DEF Init, StoreInit
<1>3. Audit
  BY <1>2
     DEF Audit, AuditExplainsState, AuditTimesAdvance, RecoveryWaits, SilenceWaits,
         NewRun, StateAt, SinceAt, Revision
<1>4. Coherent(NoSnapshot, transitions) /\ NoSnapshot.row.since = 0
  BY <1>1, NoSnapshotIsCoherent DEF NoSnapshot, NewRun
<1>5. Ordered
  BY <1>2, <1>4
     DEF Init, GateInit, ReaperInit, ApiInit, NewThread, NoJob, NewRequest, Idle,
         Ordered, Order, SweepOrder
<1> QED
  BY <1>1, <1>3, <1>5 DEF IInv

LEMMA NextOrdered ==
    ASSUME IInv, [Next]_vars
    PROVE  IInv' /\ StoreSteps
<1>1. StoreSteps
  BY StoreStepsOnly
<1>2. Typed'
  BY NextTyped DEF IInv
<1>3. Audit'
  BY <1>1, AuditStays, AuditMoves DEF IInv, StoreSteps
<1> QED
  BY <1>1, <1>2, <1>3, OrderedNext DEF IInv

LEMMA Invariance == Spec => []IInv
<1>1. Init => IInv
  BY InitOrdered
<1>2. IInv /\ [Next]_vars => IInv'
  BY NextOrdered
<1> QED
  BY <1>1, <1>2, PTL DEF Spec

\* The audit rows are an unbroken chain from registration to the state the run
\* is in: no commit overwrites another, because record_state_change compares
\* the revision, and every handler passes the one it read.
THEOREM AuditIsComplete == Spec => []AuditExplainsState
<1>1. IInv => AuditExplainsState
  BY DEF IInv, Audit
<1> QED
  BY <1>1, Invariance, PTL

\* Audit rows are dated in the order they were committed, because a thread
\* reads the clock after the run, or compares the two (reaper.py).
THEOREM AuditIsDated == Spec => []AuditTimesAdvance
<1>1. IInv => AuditTimesAdvance
  BY DEF IInv, Audit
<1> QED
  BY <1>1, Invariance, PTL

\* An automatic recovery comes a full recovery_interval after the move before
\* it, whatever the recovering thread read and how long ago (_apply_rules).
THEOREM RecoveryIsSpaced == Spec => []RecoveryWaits
<1>1. IInv => RecoveryWaits
  BY DEF IInv, Audit
<1> QED
  BY <1>1, Invariance, PTL

\* Escalations for silence are a full heartbeat_timeout apart, however many
\* sweeps overlap (reaper.py).
THEOREM SilenceIsSpaced == Spec => []SilenceWaits
<1>1. IInv => SilenceWaits
  BY DEF IInv, Audit
<1> QED
  BY <1>1, Invariance, PTL

-----------------------------------------------------------------------------
(* Refinement.                                                             *)

LEMMA InitLadder == Init => LadderSpec!Init
BY DEF Init, StoreInit, NewRun, LadderSpec!Init

\* The rung the ladder knows of is the one record_state_change found.
LEMMA MovesAreLadderMoves ==
    ASSUME IInv, NEW snap \in Snapshots, NEW to \in States, NEW cause \in Causes,
           NEW actor \in Actors, NEW at \in Nat,
           StoreMoves(snap, to, cause, actor, at)
    PROVE  /\ LadderSpec!Move(to, cause, actor, at)
           /\ at \in 0 .. now
           /\ LegalMove([state |-> run.state, since |-> LadderSpec!Since],
                        to, cause, actor, at)
<1>1. Typed /\ Audit
  BY DEF IInv
<1>2. /\ snap.row.state = run.state
      /\ snap.row.since = SinceAt(Revision)
  BY <1>1, FreshMeansCurrent DEF StoreMoves
<1>3. /\ transitions \in Seq(TransitionRows)
      /\ now \in Nat
      /\ run \in RunRows
  BY <1>1 DEF Typed, TypeOK
<1>4. LadderSpec!Since = SinceAt(Revision)
  BY <1>3 DEF LadderSpec!Since, SinceAt, Revision
<1>5. snap.row.since \in Nat
  BY DEF Snapshots, RunRows
<1>6. at \in LadderSpec!Since .. now /\ at \in 0 .. now
  BY <1>2, <1>3, <1>4, <1>5 DEF StoreMoves
<1>7. /\ run'.state = to
      /\ transitions' = Append(transitions,
             [from |-> run.state, to |-> to, cause |-> cause, actor |-> actor,
              at |-> at])
      /\ now' = now
  BY <1>2, <1>3 DEF StoreMoves, RecordStateChange, RunRows
<1>8. LegalMove(snap.row, to, cause, actor, at)
  BY DEF StoreMoves
<1> QED
  BY <1>2, <1>4, <1>6, <1>7, <1>8 DEF LadderSpec!Move, LegalMove

LEMMA MovesAreLadderSteps ==
    ASSUME IInv, NEW snap \in Snapshots, NEW to \in States, NEW cause \in Causes,
           NEW actor \in Actors, NEW at \in Nat,
           StoreMoves(snap, to, cause, actor, at)
    PROVE  LadderSpec!Next
<1> DEFINE row == [state |-> run.state, since |-> LadderSpec!Since]
<1>1. /\ LadderSpec!Move(to, cause, actor, at)
      /\ at \in 0 .. now
      /\ LegalMove(row, to, cause, actor, at)
  BY MovesAreLadderMoves
<1>2. CASE /\ run.state \in DOMAIN Escalations
           /\ to = NextRung(run.state)
           /\ cause \in RuleNames \cup {"judge"}
           /\ actor = "system"
  <2>1. LadderSpec!OneRungUp(to) /\ to \in {"degraded", "frozen"}
    BY <1>2, NextRungType DEF LadderSpec!OneRungUp
  <2>2. cause \in LadderSpec!Evidence
    BY <1>2 DEF LadderSpec!Evidence, RuleNames
  <2> QED
    BY <1>1, <1>2, <2>1, <2>2 DEF LadderSpec!Escalate, LadderSpec!Next
<1>3. CASE /\ run.state \in DOMAIN Escalations
           /\ to = NextRung(run.state)
           /\ cause = "heartbeat_timeout"
           /\ actor = "system"
           /\ at - LadderSpec!Since >= HeartbeatTimeout
  <2>1. LadderSpec!OneRungUp(to) /\ to \in {"degraded", "frozen"}
    BY <1>3, NextRungType DEF LadderSpec!OneRungUp
  <2> QED
    BY <1>1, <1>3, <2>1 DEF LadderSpec!Silence, LadderSpec!Next
<1>4. CASE /\ run.state = "degraded"
           /\ to = "healthy"
           /\ cause = "clean_interval"
           /\ actor = "system"
           /\ at - LadderSpec!Since >= RecoveryInterval
  BY <1>1, <1>4 DEF LadderSpec!Recover, LadderSpec!Next
<1>5. ASSUME NEW op \in Operations,
             Permitted(op, run.state, to),
             cause = CauseOf(op),
             actor = ActorOf(op)
      PROVE  LadderSpec!Next
  <2>1. CASE op = "complete"
    <3>1. /\ run.state \in {"healthy", "degraded"} /\ to = "terminated"
          /\ cause = "completed" /\ actor = "system"
      BY <1>5, <2>1 DEF Permitted, CompletableFrom, CauseOf, ActorOf
    <3> QED
      BY <1>1, <3>1 DEF LadderSpec!Complete, LadderSpec!Next
  <2>2. CASE op = "release"
    <3>1. /\ run.state = "frozen" /\ to \in {"healthy", "degraded"}
          /\ cause = "release" /\ actor = "human"
      BY <1>5, <2>2 DEF Permitted, ReleaseTargets, CauseOf, ActorOf
    <3> QED
      BY <1>1, <3>1 DEF LadderSpec!Release, LadderSpec!Next
  <2>3. CASE op = "terminate"
    <3>1. /\ run.state # "terminated" /\ to = "terminated"
          /\ cause = "terminated" /\ actor = "human"
      BY <1>5, <2>3 DEF Permitted, TerminableFrom, CauseOf, ActorOf
    <3> QED
      BY <1>1, <3>1 DEF LadderSpec!Terminate, LadderSpec!Next
  <2> QED
    BY <1>5, <2>1, <2>2, <2>3 DEF Operations
<1> QED
  BY <1>1, <1>2, <1>3, <1>4, <1>5 DEF LegalMove

LEMMA NextLadder ==
    ASSUME IInv, [Next]_vars
    PROVE  [LadderSpec!Next]_(LadderSpec!vars)
<1>1. StoreSteps
  BY NextOrdered
<1>2. CASE StoreStays
  BY <1>2 DEF StoreStays, LadderSpec!Next, LadderSpec!Tick, LadderSpec!vars
<1>3. ASSUME NEW snap \in Snapshots, NEW to \in States, NEW cause \in Causes,
             NEW actor \in Actors, NEW at \in Nat,
             StoreMoves(snap, to, cause, actor, at)
      PROVE  LadderSpec!Next
  BY <1>3, MovesAreLadderSteps
<1> QED
  BY <1>1, <1>2, <1>3 DEF StoreSteps

\* What an operator reads of a run, its state and its audit rows, is always a
\* behaviour of the containment ladder: one rung up at a time and on evidence,
\* down only after a full interval or by a human, and never out of TERMINATED.
THEOREM ImplementsLadder == Spec => RefinesLadder
<1>1. Init => LadderSpec!Init
  BY InitLadder
<1>2. IInv /\ [Next]_vars => [LadderSpec!Next]_(LadderSpec!vars)
  BY NextLadder
<1> QED
  BY <1>1, <1>2, Invariance, PTL DEF Spec, LadderSpec!Spec, RefinesLadder
=============================================================================

--------------------------- MODULE Silence_proofs ---------------------------
(***************************************************************************)
(* Heartbeats and the reaper of ControlPlane, for every value of the       *)
(* constants.                                                              *)
(***************************************************************************)
EXTENDS Containment_proofs

\* A reaper that goes on to commit read a run that was silent for longer than
\* the timeout.
SawSilence(s) ==
    s.pc = "commit" => s.at - s.snap.row.heartbeat > HeartbeatTimeout

SInv == IInv /\ \A r \in Reapers : SawSilence(sweep[r])

\* A row the audit gains for silence, and what the run was then.
SilenceRow ==
    \A row \in TransitionRows :
        transitions' = Append(transitions, row) /\ row.cause = "heartbeat_timeout" =>
            row.at - run.heartbeat > HeartbeatTimeout

LEMMA InitSilence == Init => SInv
<1> SUFFICES ASSUME Init PROVE SInv
  OBVIOUS
<1>1. \A r \in Reapers : sweep[r] = Idle
  BY DEF Init, ReaperInit
<1>2. Idle.pc = "idle"
  BY DEF Idle
<1> QED
  BY <1>1, <1>2, InitOrdered DEF SInv, SawSilence

LEMMA SelectSaw ==
    ASSUME Typed, NEW r \in Reapers, SweepSelect(r)
    PROVE  SawSilence(sweep'[r])
<1> DEFINE s == sweep[r]
           u == [s EXCEPT !.pc = "commit", !.snap = Read]
<1>1. s \in Sweeps /\ StoreTyped /\ Read \in Snapshots
  BY SweepThread, StoreIsTyped, ReadType DEF Typed
<1>2. \/ sweep'[r] = Idle
      \/ HeartbeatStale(s.at - HeartbeatTimeout) /\ sweep'[r] = u
  BY DEF SweepSelect, Typed, TypeOK
<1>3. CASE sweep'[r] = Idle
  BY <1>3 DEF SawSilence, Idle
<1>4. CASE HeartbeatStale(s.at - HeartbeatTimeout) /\ sweep'[r] = u
  <2>1. u.at = s.at /\ u.snap.row.heartbeat = run.heartbeat
    BY <1>1 DEF Sweeps, Read
  <2>2. run.heartbeat \in Nat /\ s.at \in Nat
    BY <1>1 DEF StoreTyped, RunRows, Sweeps
  <2>3. run.heartbeat < s.at - HeartbeatTimeout
    BY <1>4 DEF HeartbeatStale
  <2>4. s.at - run.heartbeat > HeartbeatTimeout
    BY <2>2, <2>3, Numbers
  <2> QED
    BY <1>4, <2>1, <2>4 DEF SawSilence
<1> QED
  BY <1>2, <1>3, <1>4

LEMMA NextSaw ==
    ASSUME SInv, [Next]_vars, NEW r \in Reapers
    PROVE  SawSilence(sweep'[r])
<1>1. Typed /\ DOMAIN sweep = Reapers /\ SawSilence(sweep[r])
  BY DEF SInv, IInv, Typed, TypeOK
<1>2. SawSilence(Idle)
  BY DEF SawSilence, Idle
<1>3. CASE SweepClock(r)
  <2>1. sweep'[r].pc = "select"
    BY <1>1, <1>3, SweepThread DEF SweepClock, Sweeps
  <2> QED
    BY <2>1 DEF SawSilence
<1>4. CASE SweepSelect(r)
  BY <1>1, <1>4, SelectSaw
<1>5. CASE SweepCommit(r)
  BY <1>1, <1>2, <1>5 DEF SweepCommit
<1>6. ASSUME NEW d \in Reapers \ {r}, SweepClock(d) \/ SweepSelect(d) \/ SweepCommit(d)
      PROVE  SawSilence(sweep'[r])
  BY <1>1, <1>6 DEF SweepClock, SweepSelect, SweepCommit
<1>7. CASE Fault
  <2>1. sweep'[r] = sweep[r] \/ sweep'[r] = Idle
    <3>1. CASE SweepOutage
      BY <1>1, <3>1 DEF SweepOutage
    <3>2. CASE GateOutage \/ JobOutage \/ RequestOutage \/ ReportOutage
      BY <3>2 DEF GateOutage, JobOutage, RequestOutage, ReportOutage
    <3>3. CASE Crash
      BY <3>3 DEF Crash
    <3> QED
      BY <1>7, <3>1, <3>2, <3>3 DEF Fault, Outage
  <2> QED
    BY <1>1, <1>2, <2>1
<1>8. CASE UNCHANGED sweep
  BY <1>1, <1>8
<1> QED
  BY <1>3, <1>4, <1>5, <1>6, <1>7, <1>8, NextCases
     DEF ReaperNext, GateAlone, ApiAlone, Quiescent, vars

LEMMA SilenceInvariance == Spec => []SInv
<1>1. Init => SInv
  BY InitSilence
<1>2. SInv /\ [Next]_vars => SInv'
  BY NextOrdered, NextSaw DEF SInv
<1> QED
  BY <1>1, <1>2, PTL DEF Spec

-----------------------------------------------------------------------------
(* Who writes the audit rows.                                              *)

\* A committed move whose cause is not silence is none of a reaper.
LEMMA OtherCause ==
    ASSUME transitions \in Seq(TransitionRows),
           NEW snap \in Snapshots, NEW to \in States, NEW cause \in Causes,
           NEW actor \in Actors, NEW at \in Nat,
           RecordStateChange(snap, to, cause, actor, at),
           cause = "heartbeat_timeout" => at - run.heartbeat > HeartbeatTimeout
    PROVE  SilenceRow
<1> DEFINE new == [from |-> snap.row.state, to |-> to, cause |-> cause,
                   actor |-> actor, at |-> at]
<1>1. new \in TransitionRows
  BY DEF TransitionRows, Snapshots, RunRows
<1>2. transitions' = Append(transitions, new)
  BY DEF RecordStateChange
<1>3. \A row \in TransitionRows :
        transitions' = Append(transitions, row) => row = new
  BY <1>1, <1>2
<1> QED
  BY <1>3 DEF SilenceRow

\* No row is gained.
LEMMA NoRow ==
    ASSUME transitions \in Seq(TransitionRows), transitions' = transitions
    PROVE  SilenceRow
<1>1. \A row \in TransitionRows : transitions' # Append(transitions, row)
  <2>1. \A row \in TransitionRows :
          Len(Append(transitions, row)) = Len(transitions) + 1
    OBVIOUS
  <2> QED
    BY <2>1
<1> QED
  BY <1>1 DEF SilenceRow

LEMMA SweepCommitRow ==
    ASSUME SInv, NEW r \in Reapers, SweepCommit(r)
    PROVE  SilenceRow
<1> DEFINE s == sweep[r]
<1>1. /\ s \in Sweeps /\ SweepFits(s) /\ s.pc = "commit" /\ SawSilence(s)
      /\ transitions \in Seq(TransitionRows)
  BY SweepThread DEF SInv, IInv, SweepCommit, Typed, TypeOK
<1>2. CASE Conflict
  BY <1>1, <1>2, NoRow DEF Conflict
<1>3. CASE /\ SameHeartbeat(s.snap)
           /\ RecordStateChange(s.snap, NextRung(s.snap.row.state),
                                "heartbeat_timeout", "system", s.at)
  <2>1. s.at - run.heartbeat > HeartbeatTimeout
    BY <1>1, <1>3 DEF SawSilence, SameHeartbeat
  <2>2. s.snap.row.state \in DOMAIN Escalations
    BY <1>1 DEF SweepFits, Reapable
  <2>3. /\ NextRung(s.snap.row.state) \in States
        /\ "heartbeat_timeout" \in Causes /\ "system" \in Actors
    BY <2>2, NextRungType DEF Causes, Actors
  <2> QED
    BY <1>1, <1>3, <2>1, <2>3, OtherCause DEF Sweeps
<1> QED
  BY <1>2, <1>3 DEF SweepCommit

LEMMA GateRow ==
    ASSUME SInv, NEW c \in Calls, GateRead(c) \/ GateSteps(c) \/ JobSteps(c)
    PROVE  SilenceRow
<1>1. /\ Typed /\ transitions \in Seq(TransitionRows)
      /\ gate[c] \in GateThreads /\ GateFits(gate[c])
      /\ job[c] \in Jobs /\ JobFits(job[c])
  BY GateThread, JobThread DEF SInv, IInv, Typed, TypeOK
<1>2. CASE transitions' = transitions
  BY <1>1, <1>2, NoRow
<1>3. ASSUME NEW t, t.snap \in Snapshots, t.at \in Nat,
             t.snap.row.state \in DOMAIN Escalations,
             RecordStateChange(t.snap, NextRung(t.snap.row.state), "judge",
                               "system", t.at)
      PROVE  SilenceRow
  <2>1. /\ NextRung(t.snap.row.state) \in States
        /\ "judge" \in Causes /\ "system" \in Actors
    BY <1>3, NextRungType DEF Causes, Actors
  <2> QED
    BY <1>1, <1>3, <2>1, OtherCause
<1>4. CASE GateApply(c)
  <2> DEFINE t == gate[c]
  <2>1. /\ t.snap.row.state \in DOMAIN Escalations
        /\ t.cause \in RuleNames \cup {"clean_interval"}
    BY <1>1, <1>4 DEF GateApply, GateFits
  <2>2. /\ RuleTarget(t) \in States /\ t.cause \in Causes
        /\ t.cause # "heartbeat_timeout" /\ "system" \in Actors
    BY <1>1, <1>4, RuleTargetType DEF GateApply, RuleNames, Causes, States, Actors
  <2>3. CASE RecordStateChange(t.snap, RuleTarget(t), t.cause, "system", t.at)
    BY <1>1, <2>2, <2>3, OtherCause DEF GateThreads
  <2> QED
    BY <1>2, <1>4, <2>3 DEF GateApply, Conflict
<1>5. CASE GateEscalate(c)
  <2>1. gate[c].snap.row.state \in DOMAIN Escalations
    BY <1>1, <1>5 DEF GateEscalate, GateFits, Escalations
  <2> QED
    BY <1>1, <1>2, <1>3, <1>5, <2>1 DEF GateEscalate, Conflict, GateThreads
<1>6. CASE JobEscalate(c)
  <2>1. job[c].snap.row.state \in DOMAIN Escalations
    BY <1>1, <1>6 DEF JobEscalate, JobFits
  <2> QED
    BY <1>1, <1>2, <1>3, <1>6, <2>1 DEF JobEscalate, Conflict, Jobs
<1>7. CASE \/ GateRead(c) \/ GateClock(c) \/ GateHistory(c) \/ GatePropose(c)
           \/ GateRules(c) \/ GateJudge(c) \/ GateSample(c) \/ GateRecord(c)
           \/ JobRead(c) \/ JobClock(c) \/ JobJudge(c) \/ JobDiscard(c)
  BY <1>2, <1>7
     DEF GateRead, GateClock, GateHistory, GatePropose, GateRules, GateJudge,
         GateSample, GateRecord, JobRead, JobClock, JobJudge, JobDiscard
<1> QED
  BY <1>4, <1>5, <1>6, <1>7 DEF GateSteps, JobSteps

LEMMA ApiRow ==
    ASSUME SInv, ApiNext
    PROVE  SilenceRow
<1>1. Typed /\ transitions \in Seq(TransitionRows)
  BY DEF SInv, IInv, Typed, TypeOK
<1>2. CASE transitions' = transitions
  BY <1>1, <1>2, NoRow
<1>3. ASSUME NEW q \in Requests, RequestCommit(q)
      PROVE  SilenceRow
  <2> DEFINE t == request[q]
  <2>1. t \in RequestThreads /\ t.op \in Operations
    BY <1>1, <1>3, RequestThread DEF RequestCommit, RequestFits
  <2>2. /\ CauseOf(t.op) \in Causes /\ CauseOf(t.op) # "heartbeat_timeout"
        /\ ActorOf(t.op) \in Actors
    BY <2>1 DEF CauseOf, ActorOf, Operations, Causes, Actors
  <2>3. CASE RecordStateChange(t.snap, t.target, CauseOf(t.op), ActorOf(t.op), t.at)
    BY <1>1, <2>1, <2>2, <2>3, OtherCause DEF RequestThreads
  <2> QED
    BY <1>2, <1>3, <2>3 DEF RequestCommit, Conflict
<1> QED
  BY <1>2, <1>3
     DEF ApiNext, RequestRead, RequestSteps, RequestClock, ReportClock, ReportSteps,
         HeartbeatCommit, OutcomeCommit

LEMMA NextRow ==
    ASSUME SInv, [Next]_vars
    PROVE  SilenceRow
<1>1. Typed /\ transitions \in Seq(TransitionRows)
  BY DEF SInv, IInv, Typed, TypeOK
<1>2. CASE transitions' = transitions
  BY <1>1, <1>2, NoRow
<1>3. CASE GateNext
  BY <1>3, GateRow DEF GateNext
<1>4. CASE ReaperNext
  BY <1>2, <1>4, SweepCommitRow DEF ReaperNext, SweepClock, SweepSelect
<1>5. CASE ApiNext
  BY <1>5, ApiRow
<1>6. CASE \/ Fault \/ Quiescent \/ UNCHANGED vars
           \/ UNCHANGED <<run, transitions, events, gate, job, queue, sweep,
                          request, report, faults>>
  BY <1>2, <1>6, FaultFrame DEF Faulty, Quiescent, vars
<1> QED
  BY <1>3, <1>4, <1>5, <1>6, NextCases

\* A reaper escalates only a run that is silent when it commits, however long
\* ago it selected it: a heartbeat in between makes record_state_change refuse.
THEOREM ReaperHitsOnlySilence == Spec => ReaperActsOnSilence
<1>1. SInv /\ SInv' /\ [Next]_vars =>
        [\A i \in DOMAIN transitions' \ DOMAIN transitions :
            transitions'[i].cause = "heartbeat_timeout" =>
                transitions'[i].at - run.heartbeat > HeartbeatTimeout]_vars
  <2> SUFFICES ASSUME SInv, SInv', [Next]_vars,
                      NEW i \in DOMAIN transitions' \ DOMAIN transitions,
                      transitions'[i].cause = "heartbeat_timeout"
               PROVE  transitions'[i].at - run.heartbeat > HeartbeatTimeout
    OBVIOUS
  <2>1. StoreSteps /\ SilenceRow /\ transitions \in Seq(TransitionRows)
    BY NextOrdered, NextRow DEF SInv, IInv, Typed, TypeOK
  <2>2. PICK row \in TransitionRows : transitions' = Append(transitions, row)
    <3>1. CASE StoreStays
      BY <3>1 DEF StoreStays
    <3>2. ASSUME NEW snap \in Snapshots, NEW to \in States, NEW cause \in Causes,
                 NEW actor \in Actors, NEW at \in Nat,
                 StoreMoves(snap, to, cause, actor, at)
          PROVE  \E row \in TransitionRows : transitions' = Append(transitions, row)
      <4>1. [from |-> snap.row.state, to |-> to, cause |-> cause, actor |-> actor,
             at |-> at] \in TransitionRows
        BY DEF TransitionRows, Snapshots, RunRows
      <4> QED
        BY <3>2, <4>1 DEF StoreMoves, RecordStateChange
    <3> QED
      BY <2>1, <3>1, <3>2 DEF StoreSteps
  <2>3. transitions'[i] = row
    BY <2>1, <2>2
  <2> QED
    BY <2>1, <2>2, <2>3 DEF SilenceRow
<1> QED
  BY <1>1, SilenceInvariance, PTL DEF Spec, ReaperActsOnSilence

-----------------------------------------------------------------------------
(* Heartbeats.                                                             *)

\* A commit of a move leaves the heartbeat as it is.
LEMMA MoveKeepsHeartbeat ==
    ASSUME run \in RunRows, NEW snap, NEW to, NEW cause, NEW actor, NEW at,
           RecordStateChange(snap, to, cause, actor, at) \/ Conflict
    PROVE  run'.heartbeat = run.heartbeat
BY DEF RecordStateChange, Conflict, RunRows

LEMMA LatestIsLater ==
    ASSUME run \in RunRows, NEW at \in Nat
    PROVE  LatestHeartbeat(at) >= run.heartbeat
BY DEF LatestHeartbeat, RunRows

LEMMA ReportKeepsHeartbeat ==
    ASSUME Typed, NEW p \in Reports, ReportClock(p) \/ ReportSteps(p)
    PROVE  run'.heartbeat >= run.heartbeat
<1> DEFINE t == report[p]
<1>1. run \in RunRows /\ t.at \in Nat /\ run.heartbeat \in Nat
  BY ReportThread DEF Typed, TypeOK, ReportThreads, RunRows
<1>2. CASE UNCHANGED run
  BY <1>1, <1>2
<1>3. CASE HeartbeatCommit(p)
  <2>1. run'.heartbeat = LatestHeartbeat(t.at)
    BY <1>1, <1>3 DEF HeartbeatCommit, TouchHeartbeat, RunRows
  <2> QED
    BY <1>1, <2>1, LatestIsLater
<1>4. CASE RecordOutcome(t.ok, t.tokens, t.cost, t.at)
  <2>1. run'.heartbeat = LatestHeartbeat(t.at)
    BY <1>1, <1>4 DEF RecordOutcome, RunRows
  <2> QED
    BY <1>1, <2>1, LatestIsLater
<1> QED
  BY <1>2, <1>3, <1>4 DEF ReportClock, ReportSteps, OutcomeCommit

\* Reports that commit in the wrong order never make a live worker look older:
\* record_outcome and touch_heartbeat keep the latest date, and no other
\* statement writes it.
THEOREM HeartbeatsAdvance == Spec => HeartbeatNeverRewinds
<1>1. IInv /\ [Next]_vars => [run'.heartbeat >= run.heartbeat]_vars
  <2> SUFFICES ASSUME IInv, [Next]_vars
               PROVE  run'.heartbeat >= run.heartbeat
    OBVIOUS
  <2>1. Typed /\ run \in RunRows /\ run.heartbeat \in Nat
    BY DEF IInv, Typed, TypeOK, RunRows
  <2>2. CASE UNCHANGED run
    BY <2>1, <2>2
  <2>3. ASSUME NEW snap, NEW to, NEW cause, NEW actor, NEW at,
               RecordStateChange(snap, to, cause, actor, at) \/ Conflict
        PROVE  run'.heartbeat >= run.heartbeat
    BY <2>1, <2>3, MoveKeepsHeartbeat
  <2>4. ASSUME NEW c \in Calls, GateRead(c) \/ GateSteps(c) \/ JobSteps(c)
        PROVE  run'.heartbeat >= run.heartbeat
    BY <2>2, <2>3, <2>4
       DEF GateRead, GateSteps, GateClock, GateHistory, GatePropose, GateRules,
           GateApply, GateJudge, GateEscalate, GateSample, GateRecord, JobSteps,
           JobRead, JobClock, JobJudge, JobEscalate, JobDiscard
  <2>5. ASSUME NEW r \in Reapers, SweepClock(r) \/ SweepSelect(r) \/ SweepCommit(r)
        PROVE  run'.heartbeat >= run.heartbeat
    BY <2>2, <2>3, <2>5 DEF SweepClock, SweepSelect, SweepCommit
  <2>6. ASSUME NEW q \in Requests, RequestRead(q) \/ RequestSteps(q)
        PROVE  run'.heartbeat >= run.heartbeat
    BY <2>2, <2>3, <2>6 DEF RequestRead, RequestSteps, RequestClock, RequestCommit
  <2>7. ASSUME NEW p \in Reports, ReportClock(p) \/ ReportSteps(p)
        PROVE  run'.heartbeat >= run.heartbeat
    BY <2>1, <2>7, ReportKeepsHeartbeat
  <2>8. CASE \/ Fault \/ Quiescent \/ UNCHANGED vars
             \/ UNCHANGED <<run, transitions, events, gate, job, queue, sweep,
                            request, report, faults>>
    BY <2>2, <2>8, FaultFrame DEF Faulty, Quiescent, vars
  <2> QED
    BY <2>4, <2>5, <2>6, <2>7, <2>8, NextCases DEF GateNext, ReaperNext, ApiNext
<1> QED
  BY <1>1, Invariance, PTL DEF Spec, HeartbeatNeverRewinds
=============================================================================

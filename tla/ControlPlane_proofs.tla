------------------------ MODULE ControlPlane_proofs ------------------------
(***************************************************************************)
(* Theorems about ControlPlane, for every value of its constants.          *)
(***************************************************************************)
EXTENDS ControlPlane, TLAPS

(***************************************************************************)
(* What each thread's local variables say at each step, whatever the other *)
(* threads did since: a move is only ever built from a rung that has it.   *)
(***************************************************************************)
GateFits(t) ==
    /\ t.pc \in {"clock", "history", "propose"} => t.snap.row.state # "terminated"
    /\ t.pc \in {"rules", "apply"} => t.snap.row.state \in DOMAIN Escalations
    /\ t.pc = "apply" => \/ t.cause \in RuleNames
                         \/ t.cause = "clean_interval" /\ RecoveryDue(t)
    /\ t.pc \in {"judge", "escalate"} => t.snap.row.state = "healthy"
    /\ t.pc = "record" => t.want \in Decisions

JobFits(j) == j.pc = "escalate" => j.snap.row.state \in DOMAIN Escalations

SweepFits(s) == s.pc = "commit" => Reapable(s.at, s.snap.row)

RequestFits(t) ==
    /\ t.pc \in {"clock", "commit"} => t.op \in Operations
    /\ t.pc = "commit" => Permitted(t.op, t.snap.row.state, t.target)

Fits ==
    /\ \A c \in Calls : GateFits(gate[c]) /\ JobFits(job[c])
    /\ \A r \in Reapers : SweepFits(sweep[r])
    /\ \A q \in Requests : RequestFits(request[q])

-----------------------------------------------------------------------------
(* The steps, by who takes them.                                           *)

GateNext == \E c \in Calls : GateRead(c) \/ GateSteps(c) \/ JobSteps(c)

ReaperNext == \E r \in Reapers : SweepClock(r) \/ SweepSelect(r) \/ SweepCommit(r)

ApiNext ==
    \/ \E q \in Requests : RequestRead(q) \/ RequestSteps(q)
    \/ \E p \in Reports : ReportClock(p) \/ ReportSteps(p)

Outage == GateOutage \/ JobOutage \/ SweepOutage \/ RequestOutage \/ ReportOutage

Fault == Outage \/ Crash

LEMMA NextCases ==
    ASSUME Next
    PROVE  \/ GateNext /\ GateAlone
           \/ ReaperNext /\ ReaperAlone
           \/ ApiNext /\ ApiAlone
           \/ Tick /\ UNCHANGED <<run, transitions, events, gate, job, queue, sweep,
                                  request, report, faults>>
           \/ Fault
           \/ Quiescent
<1>1. ASSUME NEW c \in Calls,
             \/ GateRead(c) \/ GateClock(c) \/ GateHistory(c) \/ GatePropose(c)
             \/ GateRules(c) \/ GateApply(c) \/ GateJudge(c) \/ GateEscalate(c)
             \/ GateSample(c) \/ GateRecord(c)
             \/ JobRead(c) \/ JobClock(c) \/ JobJudge(c) \/ JobEscalate(c)
             \/ JobDiscard(c)
      PROVE  GateNext
  BY <1>1 DEF GateNext, GateSteps, JobSteps
<1>2. ASSUME NEW r \in Reapers, SweepClock(r) \/ SweepSelect(r) \/ SweepCommit(r)
      PROVE  ReaperNext
  BY <1>2 DEF ReaperNext
<1>3. ASSUME NEW q \in Requests, RequestRead(q) \/ RequestClock(q) \/ RequestCommit(q)
      PROVE  ApiNext
  BY <1>3 DEF ApiNext, RequestSteps
<1>4. ASSUME NEW p \in Reports, ReportClock(p) \/ HeartbeatCommit(p) \/ OutcomeCommit(p)
      PROVE  ApiNext
  BY <1>4 DEF ApiNext, ReportSteps
<1> QED
  BY <1>1, <1>2, <1>3, <1>4 DEF Next, Fault, Outage

LEMMA FaultFrame ==
    ASSUME Fault
    PROVE  Faulty
BY DEF Fault, Outage, GateOutage, JobOutage, SweepOutage, RequestOutage,
       ReportOutage, Crash

-----------------------------------------------------------------------------
(* The types, without the definitions of the threads.                      *)

StoreTyped ==
    /\ run \in RunRows
    /\ transitions \in Seq(TransitionRows)
    /\ events \in Seq(EventRows)
    /\ now \in Nat

\* Every constant of an assumption that the proofs use as a number is one.
LEMMA Numbers ==
    /\ RecoveryInterval \in Nat
    /\ HeartbeatTimeout \in Nat
    /\ MaxCounter \in Nat
BY GateAssumption, ReaperAssumption, StoreAssumption

\* A rung that has a next one, has it among the states.
LEMMA NextRungType ==
    ASSUME NEW s \in DOMAIN Escalations
    PROVE  /\ s \in {"healthy", "degraded"}
           /\ NextRung(s) = IF s = "healthy" THEN "degraded" ELSE "frozen"
           /\ NextRung(s) \in States
BY DEF Escalations, NextRung, States

\* get_run returns a snapshot of the right type.
LEMMA ReadType == StoreTyped => Read \in Snapshots
BY DEF StoreTyped, Read, Revision, Snapshots

\* A commit of record_state_change keeps the store typed.
LEMMA ChangeType ==
    ASSUME StoreTyped,
           NEW snap \in Snapshots, NEW to \in States, NEW cause \in Causes,
           NEW actor \in Actors, NEW at \in Nat,
           RecordStateChange(snap, to, cause, actor, at),
           UNCHANGED <<events, now>>
    PROVE  StoreTyped'
<1>1. run' \in RunRows
  BY DEF StoreTyped, RecordStateChange, RunRows
<1>2. snap.row.state \in States
  BY DEF Snapshots, RunRows
<1>3. [from |-> snap.row.state, to |-> to, cause |-> cause, actor |-> actor,
       at |-> at] \in TransitionRows
  BY <1>2 DEF TransitionRows
<1>4. transitions' \in Seq(TransitionRows)
  BY <1>3 DEF StoreTyped, RecordStateChange
<1> QED
  BY <1>1, <1>4 DEF StoreTyped

\* Appending a row of the log keeps the store typed.
LEMMA AppendType ==
    ASSUME StoreTyped, NEW row \in EventRows, AppendEvent(row),
           UNCHANGED <<run, transitions, now>>
    PROVE  StoreTyped'
BY DEF StoreTyped, AppendEvent

\* The row every kind of log entry starts from.
LEMMA EventType ==
    ASSUME StoreTyped, NEW kind \in EventKinds, NEW by \in Calls \cup {None},
           NEW says \in Says
    PROVE  Event(kind, by, says) \in EventRows
BY DEF StoreTyped, Event, EventRows, Revision

LEMMA NoSnapshotType == NoSnapshot \in Snapshots
BY DEF NoSnapshot, Snapshots, NewRun, RunRows, States

-----------------------------------------------------------------------------
(* Typed is inductive: frames, one per kind of thread.                     *)

Typed == TypeOK /\ Fits

LEMMA StoreIsTyped == TypeOK => StoreTyped
BY DEF TypeOK, StoreTyped

\* A step of one gate call that leaves it typed leaves everything typed.
LEMMA GateFrame ==
    ASSUME Typed, NEW c \in Calls, NEW t \in GateThreads, GateFits(t),
           gate' = [gate EXCEPT ![c] = t], StoreTyped',
           UNCHANGED <<job, queue, sweep, request, report>>,
           faults' = faults \/ faults' \in Nat
    PROVE  Typed'
<1>1. TypeOK'
  BY DEF Typed, TypeOK, StoreTyped
<1>2. \A d \in Calls : GateFits(gate'[d])
  BY DEF Typed, TypeOK, Fits
<1>3. Fits'
  BY <1>2 DEF Typed, Fits
<1> QED
  BY <1>1, <1>3 DEF Typed

\* A step of one background judging.
LEMMA JobFrame ==
    ASSUME Typed, NEW c \in Calls, NEW j \in Jobs, JobFits(j),
           job' = [job EXCEPT ![c] = j], queue' \in Seq(Calls), StoreTyped',
           UNCHANGED <<gate, sweep, request, report>>,
           faults' = faults \/ faults' \in Nat
    PROVE  Typed'
<1>1. TypeOK'
  BY DEF Typed, TypeOK, StoreTyped
<1>2. \A d \in Calls : JobFits(job'[d])
  BY DEF Typed, TypeOK, Fits
<1>3. Fits'
  BY <1>2 DEF Typed, Fits
<1> QED
  BY <1>1, <1>3 DEF Typed

\* A step of one reaper.
LEMMA SweepFrame ==
    ASSUME Typed, NEW r \in Reapers, NEW s \in Sweeps, SweepFits(s),
           sweep' = [sweep EXCEPT ![r] = s], StoreTyped',
           UNCHANGED <<gate, job, queue, request, report>>,
           faults' = faults \/ faults' \in Nat
    PROVE  Typed'
<1>1. TypeOK'
  BY DEF Typed, TypeOK, StoreTyped
<1>2. \A d \in Reapers : SweepFits(sweep'[d])
  BY DEF Typed, TypeOK, Fits
<1>3. Fits'
  BY <1>2 DEF Typed, Fits
<1> QED
  BY <1>1, <1>3 DEF Typed

\* A step of one request.
LEMMA RequestFrame ==
    ASSUME Typed, NEW q \in Requests, NEW t \in RequestThreads, RequestFits(t),
           request' = [request EXCEPT ![q] = t], StoreTyped',
           UNCHANGED <<gate, job, queue, sweep, report>>,
           faults' = faults \/ faults' \in Nat
    PROVE  Typed'
<1>1. TypeOK'
  BY DEF Typed, TypeOK, StoreTyped
<1>2. \A d \in Requests : RequestFits(request'[d])
  BY DEF Typed, TypeOK, Fits
<1>3. Fits'
  BY <1>2 DEF Typed, Fits
<1> QED
  BY <1>1, <1>3 DEF Typed

\* A step of one report.
LEMMA ReportFrame ==
    ASSUME Typed, NEW p \in Reports, NEW t \in ReportThreads,
           report' = [report EXCEPT ![p] = t], StoreTyped',
           UNCHANGED <<gate, job, queue, sweep, request>>,
           faults' = faults \/ faults' \in Nat
    PROVE  Typed'
<1>1. TypeOK'
  BY DEF Typed, TypeOK, StoreTyped
<1>2. Fits'
  BY DEF Typed, Fits
<1> QED
  BY <1>1, <1>2 DEF Typed

-----------------------------------------------------------------------------
(* Typed is inductive: the steps of a gate call.                           *)

LEMMA ReturnType ==
    ASSUME NEW t \in GateThreads, NEW answer \in Answers
    PROVE  Return(t, answer) \in GateThreads /\ GateFits(Return(t, answer))
<1>1. NewThread \in GateThreads
  BY NoSnapshotType DEF NewThread, GateThreads, GatePcs, Answers
<1>2. Return(t, answer) \in GateThreads
  BY <1>1 DEF Return, GateThreads, GatePcs
<1>3. Return(t, answer).pc = "done"
  BY <1>1 DEF Return, GateThreads
<1> QED
  BY <1>2, <1>3 DEF GateFits

LEMMA RecordType ==
    ASSUME NEW t \in GateThreads, NEW d \in Decisions
    PROVE  ToRecord(t, d) \in GateThreads /\ GateFits(ToRecord(t, d))
<1>1. ToRecord(t, d) \in GateThreads
  BY DEF ToRecord, GateThreads, GatePcs
<1>2. ToRecord(t, d).pc = "record" /\ ToRecord(t, d).want = d
  BY DEF ToRecord, GateThreads
<1> QED
  BY <1>1, <1>2 DEF GateFits

\* Whatever Route does with a run that is not terminated fits.
LEMMA RouteType ==
    ASSUME NEW t \in GateThreads, t.snap.row.state # "terminated"
    PROVE  Route(t) \in GateThreads /\ GateFits(Route(t))
<1>1. t.snap.row.state \in States
  BY DEF GateThreads, Snapshots, RunRows
<1>2. CASE t.snap.row.state = "frozen"
  BY <1>2, RecordType DEF Route, Decisions
<1>3. CASE t.snap.row.state # "frozen" /\ RiskOf(t.tool) = "low"
  <2> DEFINE u == [t EXCEPT !.pc = "sample"]
  <2>1. u \in GateThreads /\ u.pc = "sample"
    BY DEF GateThreads, GatePcs
  <2> QED
    BY <1>3, <2>1 DEF Route, GateFits
<1>4. CASE t.snap.row.state = "degraded" /\ RiskOf(t.tool) # "low"
  BY <1>4, RecordType DEF Route, Decisions
<1>5. CASE t.snap.row.state = "healthy" /\ RiskOf(t.tool) # "low"
  <2> DEFINE u == [t EXCEPT !.pc = "judge"]
  <2>1. u \in GateThreads /\ u.pc = "judge" /\ u.snap = t.snap
    BY DEF GateThreads, GatePcs
  <2> QED
    BY <1>5, <2>1 DEF Route, GateFits
<1> QED
  BY <1>1, <1>2, <1>3, <1>4, <1>5 DEF States

LEMMA GateReadTyped ==
    ASSUME Typed, NEW c \in Calls, GateRead(c), GateAlone
    PROVE  Typed'
<1>1. PICK tool \in Tools, args \in Args :
        gate' = [gate EXCEPT ![c] =
            IF run.state = "terminated"
            THEN Return([gate[c] EXCEPT !.tool = tool, !.args = args, !.snap = Read],
                        "terminated")
            ELSE [[gate[c] EXCEPT !.tool = tool, !.args = args, !.snap = Read]
                    EXCEPT !.pc = "clock"]]
  BY DEF GateRead
<1> DEFINE t == [gate[c] EXCEPT !.tool = tool, !.args = args, !.snap = Read]
           u == [t EXCEPT !.pc = "clock"]
<1>2. StoreTyped /\ Read \in Snapshots
  BY StoreIsTyped, ReadType DEF Typed
<1>3. t \in GateThreads /\ t.snap = Read
  BY <1>2 DEF Typed, TypeOK, GateThreads
<1>4. StoreTyped'
  BY <1>2 DEF GateRead, StoreTyped
<1>5. CASE run.state = "terminated"
  <2>1. Return(t, "terminated") \in GateThreads /\ GateFits(Return(t, "terminated"))
    BY <1>3, ReturnType DEF Answers
  <2> QED
    BY <1>1, <1>4, <1>5, <2>1, GateFrame DEF GateRead, GateAlone
<1>6. CASE run.state # "terminated"
  <2>1. u \in GateThreads /\ u.pc = "clock" /\ u.snap.row.state # "terminated"
    BY <1>3, <1>6 DEF GateThreads, GatePcs, Read
  <2>2. GateFits(u)
    BY <2>1 DEF GateFits
  <2> QED
    BY <1>1, <1>4, <1>6, <2>1, <2>2, GateFrame DEF GateRead, GateAlone
<1> QED
  BY <1>5, <1>6

\* The thread of a typed state.
LEMMA GateThread ==
    ASSUME Typed, NEW c \in Calls
    PROVE  gate[c] \in GateThreads /\ GateFits(gate[c])
BY DEF Typed, TypeOK, Fits

LEMMA GateClockTyped ==
    ASSUME Typed, NEW c \in Calls, GateClock(c), GateAlone
    PROVE  Typed'
<1> DEFINE t == [gate[c] EXCEPT !.pc = "history", !.at = now]
<1>1. t \in GateThreads /\ GateFits(t)
  BY GateThread DEF GateClock, GateFits, GateThreads, GatePcs, Typed, TypeOK
<1>2. gate' = [gate EXCEPT ![c] = t]
  BY DEF GateClock
<1>3. StoreTyped'
  BY StoreIsTyped DEF GateClock, StoreTyped, Typed
<1> QED
  BY <1>1, <1>2, <1>3, GateFrame DEF GateClock, GateAlone

LEMMA GateHistoryTyped ==
    ASSUME Typed, NEW c \in Calls, GateHistory(c), GateAlone
    PROVE  Typed'
<1> DEFINE t == [gate[c] EXCEPT !.pc = "propose", !.seen = Len(events)]
<1>0. Len(events) \in Nat
  BY DEF Typed, TypeOK
<1>1. t \in GateThreads /\ GateFits(t)
  BY <1>0, GateThread DEF GateHistory, GateFits, GateThreads, GatePcs
<1>2. gate' = [gate EXCEPT ![c] = t]
  BY DEF GateHistory
<1>3. StoreTyped'
  BY StoreIsTyped DEF GateHistory, StoreTyped, Typed
<1> QED
  BY <1>1, <1>2, <1>3, GateFrame DEF GateHistory, GateAlone

LEMMA GateProposeTyped ==
    ASSUME Typed, NEW c \in Calls, GatePropose(c), GateAlone
    PROVE  Typed'
<1> DEFINE row == [Event("proposed", c, "-") EXCEPT
                     !.tool = gate[c].tool, !.args = gate[c].args, !.at = gate[c].at]
           t == [gate[c] EXCEPT !.seq = Len(events) + 1]
           u == [t EXCEPT !.pc = "rules"]
<1>1. StoreTyped /\ Len(events) + 1 \in Nat
  BY StoreIsTyped DEF Typed, StoreTyped
<1>2. gate[c] \in GateThreads /\ GateFits(gate[c])
  BY GateThread
<1>3. Event("proposed", c, "-") \in EventRows
  BY <1>1, EventType DEF EventKinds, Says
<1>4. row \in EventRows
  BY <1>2, <1>3 DEF EventRows, GateThreads
<1>5. StoreTyped'
  BY <1>1, <1>4, AppendType DEF GatePropose
<1>6. t \in GateThreads /\ t.snap = gate[c].snap
  BY <1>1, <1>2 DEF GateThreads
<1>7. t.snap.row.state \in States \ {"terminated"}
  BY <1>2, <1>6 DEF GatePropose, GateFits, GateThreads, Snapshots, RunRows
<1>8. CASE t.snap.row.state = "frozen"
  BY <1>5, <1>6, <1>8, RecordType, GateFrame DEF GatePropose, GateAlone, Decisions
<1>9. CASE t.snap.row.state # "frozen"
  <2>1. u \in GateThreads /\ u.pc = "rules" /\ u.snap = t.snap
    BY <1>6 DEF GateThreads, GatePcs
  <2>2. GateFits(u)
    BY <2>1, <1>7, <1>9 DEF GateFits, States, Escalations
  <2> QED
    BY <1>5, <1>9, <2>1, <2>2, GateFrame DEF GatePropose, GateAlone
<1> QED
  BY <1>8, <1>9

LEMMA GateRulesTyped ==
    ASSUME Typed, NEW c \in Calls, GateRules(c), GateAlone
    PROVE  Typed'
<1> DEFINE t == gate[c]
<1>1. PICK rule \in RuleNames \cup {None} :
        gate' = [gate EXCEPT ![c] =
            IF rule # None THEN [t EXCEPT !.pc = "apply", !.cause = rule]
            ELSE IF RecoveryDue(t)
                 THEN [t EXCEPT !.pc = "apply", !.cause = "clean_interval"]
                 ELSE Route(t)]
  BY DEF GateRules
<1>2. StoreTyped'
  BY StoreIsTyped DEF GateRules, StoreTyped, Typed
<1>3. /\ t \in GateThreads
      /\ t.snap.row.state \in DOMAIN Escalations
  BY GateThread DEF GateRules, GateFits
<1>4. CASE rule # None
  <2> DEFINE u == [t EXCEPT !.pc = "apply", !.cause = rule]
  <2>1. u \in GateThreads /\ u.pc = "apply" /\ u.cause = rule /\ u.snap = t.snap
    BY <1>3, <1>4 DEF GateThreads, GatePcs, Causes
  <2>2. GateFits(u)
    BY <1>3, <1>4, <2>1 DEF GateFits
  <2> QED
    BY <1>1, <1>2, <1>4, <2>1, <2>2, GateFrame DEF GateRules, GateAlone
<1>5. CASE rule = None /\ RecoveryDue(t)
  <2> DEFINE u == [t EXCEPT !.pc = "apply", !.cause = "clean_interval"]
  <2>1. /\ u \in GateThreads /\ u.pc = "apply" /\ u.cause = "clean_interval"
        /\ u.snap = t.snap /\ u.at = t.at
    BY <1>3 DEF GateThreads, GatePcs, Causes
  <2>2. GateFits(u)
    BY <1>3, <1>5, <2>1 DEF GateFits, RecoveryDue
  <2> QED
    BY <1>1, <1>2, <1>5, <2>1, <2>2, GateFrame DEF GateRules, GateAlone
<1>6. CASE rule = None /\ ~RecoveryDue(t)
  <2>1. Route(t) \in GateThreads /\ GateFits(Route(t))
    BY <1>3, RouteType, NextRungType
  <2> QED
    BY <1>1, <1>2, <1>6, <2>1, GateFrame DEF GateRules, GateAlone
<1> QED
  BY <1>4, <1>5, <1>6

\* The move of _apply_rules exists, and never ends the run.
LEMMA RuleTargetType ==
    ASSUME Typed, NEW c \in Calls, gate[c].pc = "apply"
    PROVE  /\ RuleTarget(gate[c]) \in {"healthy", "degraded", "frozen"}
           /\ gate[c].cause \in RuleNames \cup {"clean_interval"}
           /\ gate[c].snap.row.state \in {"healthy", "degraded"}
BY GateThread, NextRungType DEF GateFits, RuleTarget

LEMMA GateApplyTyped ==
    ASSUME Typed, NEW c \in Calls, GateApply(c), GateAlone
    PROVE  Typed'
<1> DEFINE t  == gate[c]
           to == RuleTarget(t)
<1>1. /\ t \in GateThreads
      /\ to \in {"healthy", "degraded", "frozen"}
      /\ t.cause \in Causes
  BY GateThread, RuleTargetType DEF GateApply, Causes
<1>2. CASE Fresh(t.snap) /\ RecordStateChange(t.snap, to, t.cause, "system", t.at)
           /\ gate' = [gate EXCEPT ![c] = Route([t EXCEPT !.snap = Read'])]
  <2>1. StoreTyped'
    BY <1>1, <1>2, ChangeType, StoreIsTyped
       DEF GateApply, GateThreads, States, Actors, Typed
  <2>2. Read' \in Snapshots
    BY <2>1, ReadType DEF StoreTyped, Read, Revision, Snapshots
  <2> DEFINE u == [t EXCEPT !.snap = Read']
  <2>3. u \in GateThreads /\ u.snap = Read'
    BY <1>1, <2>2 DEF GateThreads
  <2>4. u.snap.row.state = to
    <3>1. run'.state = to
      BY <1>2 DEF RecordStateChange, Typed, TypeOK, RunRows
    <3>2. Read'.row = run'
      BY DEF Read
    <3> QED
      BY <2>3, <3>1, <3>2
  <2>5. Route(u) \in GateThreads /\ GateFits(Route(u))
    BY <1>1, <2>3, <2>4, RouteType
  <2> QED
    BY <1>2, <2>1, <2>5, GateFrame DEF GateApply, GateAlone
<1>3. CASE Conflict /\ gate' = [gate EXCEPT ![c] = OnConflict(t)]
  <2>1. StoreTyped'
    BY <1>3, StoreIsTyped DEF GateApply, Conflict, StoreTyped, Typed
  <2>2. OnConflict(t) \in GateThreads /\ GateFits(OnConflict(t))
    BY <1>1, RecordType DEF OnConflict, Decisions
  <2> QED
    BY <1>3, <2>1, <2>2, GateFrame DEF GateApply, GateAlone
<1> QED
  BY <1>2, <1>3 DEF GateApply

LEMMA GateJudgeTyped ==
    ASSUME Typed, NEW c \in Calls, GateJudge(c), GateAlone
    PROVE  Typed'
<1> DEFINE t == gate[c]
           u == [t EXCEPT !.pc = "escalate"]
<1>1. PICK verdict \in JudgeAnswers :
        /\ AppendEvent([Event("judge", c, verdict) EXCEPT !.at = t.at])
        /\ gate' = [gate EXCEPT ![c] =
               IF verdict = "unavailable" THEN ToRecord(t, "deny")
               ELSE IF verdict \in Adverse THEN u ELSE ToRecord(t, "allow")]
  BY DEF GateJudge
<1>2. t \in GateThreads /\ t.snap.row.state = "healthy"
  BY GateThread DEF GateJudge, GateFits
<1>3. Event("judge", c, verdict) \in EventRows
  BY StoreIsTyped, EventType, GateAssumption DEF EventKinds, Says, Severities, Typed
<1>4. [Event("judge", c, verdict) EXCEPT !.at = t.at] \in EventRows
  BY <1>2, <1>3 DEF EventRows, GateThreads
<1>5. StoreTyped'
  BY <1>1, <1>4, StoreIsTyped, AppendType DEF GateJudge, Typed
<1>6. /\ ToRecord(t, "deny") \in GateThreads /\ GateFits(ToRecord(t, "deny"))
      /\ ToRecord(t, "allow") \in GateThreads /\ GateFits(ToRecord(t, "allow"))
  BY <1>2, RecordType DEF Decisions
<1>7. u \in GateThreads /\ GateFits(u)
  BY <1>2 DEF GateThreads, GatePcs, GateFits
<1>8. CASE verdict = "unavailable"
  BY <1>1, <1>5, <1>6, <1>8, GateFrame DEF GateJudge, GateAlone
<1>9. CASE verdict # "unavailable" /\ verdict \in Adverse
  BY <1>1, <1>5, <1>7, <1>9, GateFrame DEF GateJudge, GateAlone
<1>10. CASE verdict # "unavailable" /\ verdict \notin Adverse
  BY <1>1, <1>5, <1>6, <1>10, GateFrame DEF GateJudge, GateAlone
<1> QED
  BY <1>8, <1>9, <1>10

LEMMA GateEscalateTyped ==
    ASSUME Typed, NEW c \in Calls, GateEscalate(c), GateAlone
    PROVE  Typed'
<1> DEFINE t  == gate[c]
           to == NextRung(t.snap.row.state)
<1>1. t \in GateThreads /\ to = "degraded"
  BY GateThread, NextRungType DEF GateEscalate, GateFits, Escalations, NextRung
<1>2. CASE Fresh(t.snap) /\ RecordStateChange(t.snap, to, "judge", "system", t.at)
           /\ gate' = [gate EXCEPT ![c] = ToRecord([t EXCEPT !.snap = Read'], "deny")]
  <2>0. t.snap \in Snapshots /\ t.at \in Nat /\ to \in States
    BY <1>1 DEF GateThreads, States
  <2>1. StoreTyped'
    <3>1. StoreTyped /\ UNCHANGED <<events, now>>
      BY StoreIsTyped DEF GateEscalate, Typed
    <3>2. "judge" \in Causes /\ "system" \in Actors
      BY DEF Causes, Actors
    <3> QED
      BY <1>2, <2>0, <3>1, <3>2, ChangeType
  <2>2. Read' \in Snapshots
    BY <2>1 DEF StoreTyped, Read, Revision, Snapshots
  <2> DEFINE u == [t EXCEPT !.snap = Read']
  <2>3. u \in GateThreads
    BY <1>1, <2>2 DEF GateThreads
  <2>4. ToRecord(u, "deny") \in GateThreads /\ GateFits(ToRecord(u, "deny"))
    BY <2>3, RecordType DEF Decisions
  <2> QED
    BY <1>2, <2>1, <2>4, GateFrame DEF GateEscalate, GateAlone
<1>3. CASE Conflict /\ gate' = [gate EXCEPT ![c] = OnConflict(t)]
  <2>1. StoreTyped'
    BY <1>3, StoreIsTyped DEF GateEscalate, Conflict, StoreTyped, Typed
  <2>2. OnConflict(t) \in GateThreads /\ GateFits(OnConflict(t))
    BY <1>1, RecordType DEF OnConflict, Decisions
  <2> QED
    BY <1>3, <2>1, <2>2, GateFrame DEF GateEscalate, GateAlone
<1> QED
  BY <1>2, <1>3 DEF GateEscalate

LEMMA GateSampleTyped ==
    ASSUME Typed, NEW c \in Calls, GateSample(c), GateAlone
    PROVE  Typed'
<1> DEFINE t == ToRecord(gate[c], "allow")
<1>1. t \in GateThreads /\ GateFits(t)
  BY GateThread, RecordType DEF Decisions
<1>2. /\ gate' = [gate EXCEPT ![c] = t]
      /\ UNCHANGED <<run, transitions, events, now, sweep, request, report, faults>>
  BY DEF GateSample, GateAlone
<1>3. job' \in [Calls -> Jobs] /\ queue' \in Seq(Calls) /\ \A d \in Calls : JobFits(job'[d])
  <2>1. CASE UNCHANGED <<job, queue>>
    BY <2>1 DEF Typed, TypeOK, Fits
  <2>2. CASE queue' = Append(queue, c) /\ job' = [job EXCEPT ![c].pc = "queued"]
    <3> DEFINE j == [job[c] EXCEPT !.pc = "queued"]
    <3>1. job \in [Calls -> Jobs] /\ job[c] \in Jobs
      BY DEF Typed, TypeOK
    <3>2. j \in Jobs /\ j.pc = "queued"
      BY <3>1 DEF Jobs, JobPcs
    <3>3. job' = [job EXCEPT ![c] = j]
      BY <2>2
    <3>4. JobFits(j)
      BY <3>2 DEF JobFits
    <3>5. \A d \in Calls : JobFits(job'[d])
      BY <3>1, <3>3, <3>4 DEF Typed, Fits
    <3>6. queue' \in Seq(Calls)
      BY <2>2 DEF Typed, TypeOK
    <3>7. job' \in [Calls -> Jobs]
      BY <3>1, <3>2, <3>3
    <3> QED
      BY <3>5, <3>6, <3>7
  <2> QED
    BY <2>1, <2>2 DEF GateSample
<1>4. TypeOK'
  BY <1>1, <1>2, <1>3 DEF Typed, TypeOK
<1>5. \A d \in Calls : GateFits(gate'[d])
  BY <1>1, <1>2 DEF Typed, TypeOK, Fits
<1>6. Fits'
  BY <1>2, <1>3, <1>5 DEF Typed, Fits
<1> QED
  BY <1>4, <1>6 DEF Typed

\* record_decision answers with a decision.
LEMMA FinalDecisionType ==
    ASSUME NEW want \in Decisions, NEW snap
    PROVE  FinalDecision(want, snap) \in Decisions
BY DEF FinalDecision, Decisions

LEMMA GateRecordTyped ==
    ASSUME Typed, NEW c \in Calls, GateRecord(c), GateAlone
    PROVE  Typed'
<1> DEFINE t == gate[c]
           decision == FinalDecision(t.want, t.snap)
           row == [Event("decision", c, decision) EXCEPT
                     !.tool = t.tool, !.args = t.args, !.at = t.at]
<1>1. t \in GateThreads /\ t.want \in Decisions
  BY GateThread DEF GateRecord, GateFits
<1>2. decision \in Decisions
  BY <1>1, FinalDecisionType
<1>3. CASE gate' = [gate EXCEPT ![c] = Return(t, "terminated")] /\ UNCHANGED events
  <2>1. StoreTyped'
    BY <1>3, StoreIsTyped DEF GateRecord, StoreTyped, Typed
  <2>2. Return(t, "terminated") \in GateThreads /\ GateFits(Return(t, "terminated"))
    BY <1>1, ReturnType DEF Answers
  <2> QED
    BY <1>3, <2>1, <2>2, GateFrame DEF GateRecord, GateAlone
<1>4. CASE AppendEvent(row) /\ gate' = [gate EXCEPT ![c] = Return(t, decision)]
  <2>1. Event("decision", c, decision) \in EventRows
    BY <1>2, StoreIsTyped, EventType DEF EventKinds, Says, Typed
  <2>2. row \in EventRows
    BY <1>1, <2>1 DEF EventRows, GateThreads
  <2>3. StoreTyped'
    BY <1>4, <2>2, StoreIsTyped, AppendType DEF GateRecord, Typed
  <2>4. Return(t, decision) \in GateThreads /\ GateFits(Return(t, decision))
    BY <1>1, <1>2, ReturnType DEF Answers
  <2> QED
    BY <1>4, <2>3, <2>4, GateFrame DEF GateRecord, GateAlone
<1> QED
  BY <1>3, <1>4 DEF GateRecord

-----------------------------------------------------------------------------
(* Typed is inductive: the steps of a background judging.                  *)

LEMMA JobThread ==
    ASSUME Typed, NEW c \in Calls
    PROVE  job[c] \in Jobs /\ JobFits(job[c]) /\ queue \in Seq(Calls)
BY DEF Typed, TypeOK, Fits

LEMMA FinishedType ==
    ASSUME NEW j
    PROVE  Finished(j) \in Jobs /\ JobFits(Finished(j))
<1>1. NoJob \in Jobs
  BY NoSnapshotType DEF NoJob, Jobs, JobPcs
<1>2. Finished(j) \in Jobs /\ Finished(j).pc = "done"
  BY <1>1 DEF Finished, Jobs, JobPcs
<1> QED
  BY <1>2 DEF JobFits

LEMMA TakeType ==
    ASSUME Typed, NEW c \in Calls, TakeJob(c)
    PROVE  queue' \in Seq(Calls)
<1>1. queue \in Seq(Calls) /\ queue # <<>> /\ queue' = Tail(queue)
  BY JobThread DEF TakeJob
<1> QED
  BY <1>1

LEMMA JobReadTyped ==
    ASSUME Typed, NEW c \in Calls, JobRead(c), GateAlone
    PROVE  Typed'
<1> DEFINE j == [job[c] EXCEPT !.pc = "clock", !.snap = Read]
<1>1. StoreTyped /\ Read \in Snapshots
  BY StoreIsTyped, ReadType DEF Typed
<1>2. StoreTyped'
  BY <1>1 DEF JobRead, TakeJob, StoreTyped
<1>3. j \in Jobs /\ j.pc = "clock"
  BY <1>1, JobThread DEF Jobs, JobPcs
<1>4. JobFits(j)
  BY <1>3 DEF JobFits
<1>5. queue' \in Seq(Calls)
  BY TakeType DEF JobRead
<1>6. job' = [job EXCEPT ![c] = j]
  BY DEF JobRead
<1> QED
  BY <1>2, <1>3, <1>4, <1>5, <1>6, JobFrame DEF JobRead, TakeJob, GateAlone

LEMMA JobClockTyped ==
    ASSUME Typed, NEW c \in Calls, JobClock(c), GateAlone
    PROVE  Typed'
<1> DEFINE j == [job[c] EXCEPT !.pc = "judge", !.at = now]
<1>1. StoreTyped'
  BY StoreIsTyped DEF JobClock, StoreTyped, Typed
<1>2. j \in Jobs /\ j.pc = "judge"
  BY JobThread DEF Jobs, JobPcs, Typed, TypeOK
<1>3. JobFits(j)
  BY <1>2 DEF JobFits
<1>4. job' = [job EXCEPT ![c] = j]
  BY DEF JobClock
<1> QED
  BY <1>1, <1>2, <1>3, <1>4, JobThread, JobFrame DEF JobClock, GateAlone

LEMMA JobJudgeTyped ==
    ASSUME Typed, NEW c \in Calls, JobJudge(c), GateAlone
    PROVE  Typed'
<1> DEFINE j == [job[c] EXCEPT !.pc = "escalate"]
<1>1. PICK verdict \in JudgeAnswers :
        /\ AppendEvent([Event("judge", c, verdict) EXCEPT !.at = job[c].at])
        /\ job' = [job EXCEPT ![c] =
               IF verdict \in Adverse /\ job[c].snap.row.state \in DOMAIN Escalations
               THEN j ELSE Finished(job[c])]
  BY DEF JobJudge
<1>2. job[c] \in Jobs /\ queue' \in Seq(Calls)
  BY JobThread DEF JobJudge
<1>3. Event("judge", c, verdict) \in EventRows
  BY StoreIsTyped, EventType, GateAssumption DEF EventKinds, Says, Severities, Typed
<1>4. [Event("judge", c, verdict) EXCEPT !.at = job[c].at] \in EventRows
  BY <1>2, <1>3 DEF EventRows, Jobs
<1>5. StoreTyped'
  BY <1>1, <1>4, StoreIsTyped, AppendType DEF JobJudge, Typed
<1>6. CASE verdict \in Adverse /\ job[c].snap.row.state \in DOMAIN Escalations
  <2>1. j \in Jobs /\ j.snap = job[c].snap
    BY <1>2 DEF Jobs, JobPcs
  <2>2. JobFits(j)
    BY <1>6, <2>1 DEF JobFits
  <2> QED
    BY <1>1, <1>2, <1>5, <1>6, <2>1, <2>2, JobFrame DEF JobJudge, GateAlone
<1>7. CASE ~(verdict \in Adverse /\ job[c].snap.row.state \in DOMAIN Escalations)
  BY <1>1, <1>2, <1>5, <1>7, FinishedType, JobFrame DEF JobJudge, GateAlone
<1> QED
  BY <1>6, <1>7

LEMMA JobEscalateTyped ==
    ASSUME Typed, NEW c \in Calls, JobEscalate(c), GateAlone
    PROVE  Typed'
<1> DEFINE j  == job[c]
           to == NextRung(j.snap.row.state)
           k  == [j EXCEPT !.pc = "discard"]
<1>1. j \in Jobs /\ to \in States /\ queue' \in Seq(Calls)
  BY JobThread, NextRungType DEF JobEscalate, JobFits
<1>2. j.snap \in Snapshots /\ j.at \in Nat
  BY <1>1 DEF Jobs
<1>3. StoreTyped /\ UNCHANGED <<events, now>>
  BY StoreIsTyped DEF JobEscalate, Typed
<1>4. CASE Fresh(j.snap) /\ RecordStateChange(j.snap, to, "judge", "system", j.at)
           /\ job' = [job EXCEPT ![c] = Finished(j)]
  <2>1. "judge" \in Causes /\ "system" \in Actors
    BY DEF Causes, Actors
  <2>2. StoreTyped'
    BY <1>1, <1>2, <1>3, <1>4, <2>1, ChangeType
  <2> QED
    BY <1>1, <1>4, <2>2, FinishedType, JobFrame DEF JobEscalate, GateAlone
<1>5. CASE Conflict /\ job' = [job EXCEPT ![c].pc = "discard"]
  <2>1. StoreTyped'
    BY <1>3, <1>5 DEF Conflict, StoreTyped
  <2>2. k \in Jobs /\ k.pc = "discard"
    BY <1>1 DEF Jobs, JobPcs
  <2>3. JobFits(k)
    BY <2>2 DEF JobFits
  <2>4. job' = [job EXCEPT ![c] = k]
    BY <1>5
  <2> QED
    BY <1>1, <2>1, <2>2, <2>3, <2>4, JobFrame DEF JobEscalate, GateAlone
<1> QED
  BY <1>4, <1>5 DEF JobEscalate

LEMMA JobDiscardTyped ==
    ASSUME Typed, NEW c \in Calls, JobDiscard(c), GateAlone
    PROVE  Typed'
<1> DEFINE row == [Event("system", c, "stale") EXCEPT !.at = job[c].at]
<1>1. job[c] \in Jobs /\ queue' \in Seq(Calls)
  BY JobThread DEF JobDiscard
<1>2. Event("system", c, "stale") \in EventRows
  BY StoreIsTyped, EventType DEF EventKinds, Says, Typed
<1>3. row \in EventRows
  BY <1>1, <1>2 DEF EventRows, Jobs
<1>4. StoreTyped'
  BY <1>3, StoreIsTyped, AppendType DEF JobDiscard, Typed
<1> QED
  BY <1>1, <1>4, FinishedType, JobFrame DEF JobDiscard, GateAlone

-----------------------------------------------------------------------------
(* Typed is inductive: the steps of a reaper.                              *)

LEMMA IdleType == Idle \in Sweeps /\ SweepFits(Idle)
BY NoSnapshotType DEF Idle, Sweeps, SweepPcs, SweepFits

LEMMA SweepThread ==
    ASSUME Typed, NEW r \in Reapers
    PROVE  sweep[r] \in Sweeps /\ SweepFits(sweep[r])
BY DEF Typed, TypeOK, Fits

LEMMA SweepClockTyped ==
    ASSUME Typed, NEW r \in Reapers, SweepClock(r), ReaperAlone
    PROVE  Typed'
<1> DEFINE s == [sweep[r] EXCEPT !.pc = "select", !.at = now]
<1>1. StoreTyped'
  BY StoreIsTyped DEF SweepClock, StoreTyped, Typed
<1>2. s \in Sweeps /\ s.pc = "select"
  BY SweepThread DEF Sweeps, SweepPcs, Typed, TypeOK
<1>3. SweepFits(s) /\ sweep' = [sweep EXCEPT ![r] = s]
  BY <1>2 DEF SweepFits, SweepClock
<1> QED
  BY <1>1, <1>2, <1>3, SweepFrame DEF ReaperAlone

LEMMA SweepSelectTyped ==
    ASSUME Typed, NEW r \in Reapers, SweepSelect(r), ReaperAlone
    PROVE  Typed'
<1> DEFINE s == [sweep[r] EXCEPT !.pc = "commit", !.snap = Read]
<1>1. StoreTyped /\ Read \in Snapshots
  BY StoreIsTyped, ReadType DEF Typed
<1>2. StoreTyped'
  BY <1>1 DEF SweepSelect, StoreTyped
<1>3. CASE Reapable(sweep[r].at, run) /\ sweep' = [sweep EXCEPT ![r] = s]
  <2>1. s \in Sweeps /\ s.at = sweep[r].at /\ s.snap = Read
    BY <1>1, SweepThread DEF Sweeps, SweepPcs
  <2>2. SweepFits(s)
    BY <1>3, <2>1 DEF SweepFits, Read
  <2> QED
    BY <1>2, <1>3, <2>1, <2>2, SweepFrame DEF ReaperAlone
<1>4. CASE sweep' = [sweep EXCEPT ![r] = Idle]
  BY <1>2, <1>4, IdleType, SweepFrame DEF ReaperAlone
<1> QED
  BY <1>3, <1>4 DEF SweepSelect

LEMMA SweepCommitTyped ==
    ASSUME Typed, NEW r \in Reapers, SweepCommit(r), ReaperAlone
    PROVE  Typed'
<1> DEFINE s  == sweep[r]
           to == NextRung(s.snap.row.state)
<1>1. s \in Sweeps /\ to \in States
  BY SweepThread, NextRungType DEF SweepCommit, SweepFits, Reapable
<1>2. s.snap \in Snapshots /\ s.at \in Nat
  BY <1>1 DEF Sweeps
<1>3. StoreTyped /\ UNCHANGED <<events, now>> /\ sweep' = [sweep EXCEPT ![r] = Idle]
  BY StoreIsTyped DEF SweepCommit, Typed
<1>4. StoreTyped'
  <2>1. CASE RecordStateChange(s.snap, to, "heartbeat_timeout", "system", s.at)
    <3>1. "heartbeat_timeout" \in Causes /\ "system" \in Actors
      BY DEF Causes, Actors
    <3> QED
      BY <1>1, <1>2, <1>3, <2>1, <3>1, ChangeType
  <2>2. CASE Conflict
    BY <1>3, <2>2 DEF Conflict, StoreTyped
  <2> QED
    BY <2>1, <2>2 DEF SweepCommit
<1> QED
  BY <1>3, <1>4, IdleType, SweepFrame DEF ReaperAlone

-----------------------------------------------------------------------------
(* Typed is inductive: requests and reports.                               *)

LEMMA RequestThread ==
    ASSUME Typed, NEW q \in Requests
    PROVE  request[q] \in RequestThreads /\ RequestFits(request[q])
BY DEF Typed, TypeOK, Fits

LEMMA AnsweredType ==
    ASSUME NEW t \in RequestThreads, NEW answer \in RequestAnswers
    PROVE  Answered(t, answer) \in RequestThreads /\ RequestFits(Answered(t, answer))
<1>1. NewRequest \in RequestThreads
  BY NoSnapshotType DEF NewRequest, RequestThreads, RequestPcs, RequestAnswers, States
<1>2. Answered(t, answer) \in RequestThreads /\ Answered(t, answer).pc = "done"
  BY <1>1 DEF Answered, RequestThreads, RequestPcs
<1> QED
  BY <1>2 DEF RequestFits

LEMMA RequestReadTyped ==
    ASSUME Typed, NEW q \in Requests, RequestRead(q), ApiAlone
    PROVE  Typed'
<1>1. PICK op \in Operations, target \in States :
        request' = [request EXCEPT ![q] =
            [request[q] EXCEPT !.pc = "clock", !.op = op, !.target = target,
                               !.snap = Read]]
  BY DEF RequestRead
<1> DEFINE t == [request[q] EXCEPT !.pc = "clock", !.op = op, !.target = target,
                                   !.snap = Read]
<1>2. StoreTyped /\ Read \in Snapshots
  BY StoreIsTyped, ReadType DEF Typed
<1>3. StoreTyped'
  BY <1>2 DEF RequestRead, StoreTyped
<1>4. t \in RequestThreads /\ t.pc = "clock" /\ t.op = op
  BY <1>2, RequestThread DEF RequestThreads, RequestPcs
<1>5. RequestFits(t)
  BY <1>4 DEF RequestFits
<1> QED
  BY <1>1, <1>3, <1>4, <1>5, RequestFrame DEF RequestRead, ApiAlone

LEMMA RequestClockTyped ==
    ASSUME Typed, NEW q \in Requests, RequestClock(q), ApiAlone
    PROVE  Typed'
<1> DEFINE t == request[q]
           u == [t EXCEPT !.pc = "commit", !.at = now]
<1>1. t \in RequestThreads /\ t.op \in Operations
  BY RequestThread DEF RequestClock, RequestFits
<1>2. StoreTyped'
  BY StoreIsTyped DEF RequestClock, StoreTyped, Typed
<1>3. CASE Permitted(t.op, t.snap.row.state, t.target)
  <2>1. /\ u \in RequestThreads /\ u.op = t.op /\ u.snap = t.snap
        /\ u.target = t.target
    BY <1>1 DEF RequestThreads, RequestPcs, Typed, TypeOK
  <2>2. RequestFits(u)
    BY <1>1, <1>3, <2>1 DEF RequestFits
  <2> QED
    BY <1>2, <1>3, <2>1, <2>2, RequestFrame DEF RequestClock, ApiAlone
<1>4. CASE ~Permitted(t.op, t.snap.row.state, t.target)
  <2>1. Answered(t, "illegal") \in RequestThreads /\ RequestFits(Answered(t, "illegal"))
    BY <1>1, AnsweredType DEF RequestAnswers
  <2> QED
    BY <1>2, <1>4, <2>1, RequestFrame DEF RequestClock, ApiAlone
<1> QED
  BY <1>3, <1>4

LEMMA RequestCommitTyped ==
    ASSUME Typed, NEW q \in Requests, RequestCommit(q), ApiAlone
    PROVE  Typed'
<1> DEFINE t == request[q]
<1>1. t \in RequestThreads /\ t.op \in Operations
  BY RequestThread DEF RequestCommit, RequestFits
<1>2. t.snap \in Snapshots /\ t.at \in Nat /\ t.target \in States
  BY <1>1 DEF RequestThreads
<1>3. CauseOf(t.op) \in Causes /\ ActorOf(t.op) \in Actors
  BY <1>1 DEF CauseOf, ActorOf, Operations, Causes, Actors
<1>4. StoreTyped /\ UNCHANGED <<events, now, report>>
  BY StoreIsTyped DEF RequestCommit, Typed
<1>5. CASE /\ RecordStateChange(t.snap, t.target, CauseOf(t.op), ActorOf(t.op), t.at)
           /\ request' = [request EXCEPT ![q] = Answered(t, "ok")]
  <2>1. StoreTyped'
    BY <1>2, <1>3, <1>4, <1>5, ChangeType
  <2>2. Answered(t, "ok") \in RequestThreads /\ RequestFits(Answered(t, "ok"))
    BY <1>1, AnsweredType DEF RequestAnswers
  <2> QED
    BY <1>4, <1>5, <2>1, <2>2, RequestFrame DEF ApiAlone
<1>6. CASE Conflict /\ request' = [request EXCEPT ![q] = Answered(t, "conflict")]
  <2>1. StoreTyped'
    BY <1>4, <1>6 DEF Conflict, StoreTyped
  <2>2. Answered(t, "conflict") \in RequestThreads /\ RequestFits(Answered(t, "conflict"))
    BY <1>1, AnsweredType DEF RequestAnswers
  <2> QED
    BY <1>4, <1>6, <2>1, <2>2, RequestFrame DEF ApiAlone
<1> QED
  BY <1>5, <1>6 DEF RequestCommit

LEMMA ReportThread ==
    ASSUME Typed, NEW p \in Reports
    PROVE  report[p] \in ReportThreads
BY DEF Typed, TypeOK

LEMMA ReportedType ==
    ASSUME NEW t, NEW answer \in ReportAnswers
    PROVE  Reported(t, answer) \in ReportThreads
<1>1. NewReport \in ReportThreads
  BY DEF NewReport, ReportThreads, ReportAnswers
<1> QED
  BY <1>1 DEF Reported, ReportThreads

LEMMA ReportClockTyped ==
    ASSUME Typed, NEW p \in Reports, ReportClock(p), ApiAlone
    PROVE  Typed'
<1> DEFINE t == report[p]
           h == [t EXCEPT !.pc = "commit", !.kind = "heartbeat", !.at = now]
           o(ok, use) == [t EXCEPT !.pc = "commit", !.kind = "outcome", !.at = now,
                                   !.ok = ok, !.tokens = use[1], !.cost = use[2]]
<1>1. t \in ReportThreads /\ now \in Nat
  BY ReportThread DEF Typed, TypeOK
<1>2. StoreTyped'
  BY StoreIsTyped DEF ReportClock, StoreTyped, Typed
<1>3. CASE report' = [report EXCEPT ![p] = h]
  <2>1. h \in ReportThreads
    BY <1>1 DEF ReportThreads
  <2> QED
    BY <1>2, <1>3, <2>1, ReportFrame DEF ReportClock, ApiAlone
<1>4. ASSUME NEW ok \in BOOLEAN, NEW use \in Usage,
             report' = [report EXCEPT ![p] = o(ok, use)]
      PROVE  Typed'
  <2>1. use[1] \in Nat /\ use[2] \in Nat
    BY ApiAssumption
  <2>2. o(ok, use) \in ReportThreads
    BY <1>1, <2>1 DEF ReportThreads
  <2> QED
    BY <1>2, <1>4, <2>2, ReportFrame DEF ReportClock, ApiAlone
<1> QED
  BY <1>3, <1>4 DEF ReportClock

\* The later of two times is a time.
LEMMA LatestType ==
    ASSUME StoreTyped, NEW at \in Nat
    PROVE  LatestHeartbeat(at) \in Nat
BY DEF StoreTyped, RunRows, LatestHeartbeat

LEMMA HeartbeatCommitTyped ==
    ASSUME Typed, NEW p \in Reports, HeartbeatCommit(p), ApiAlone
    PROVE  Typed'
<1>1. report[p] \in ReportThreads /\ StoreTyped
  BY ReportThread, StoreIsTyped DEF Typed
<1>2. LatestHeartbeat(report[p].at) \in Nat
  BY <1>1, LatestType DEF ReportThreads
<1>3. StoreTyped'
  BY <1>1, <1>2 DEF HeartbeatCommit, TouchHeartbeat, StoreTyped, RunRows
<1>4. Reported(report[p], "ok") \in ReportThreads
  BY ReportedType DEF ReportAnswers
<1> QED
  BY <1>3, <1>4, ReportFrame DEF HeartbeatCommit, ApiAlone

\* The row an outcome leaves.
LEMMA CountedType ==
    ASSUME StoreTyped, NEW tokens \in Nat, NEW cost \in Nat,
           NEW errors \in Nat, NEW heartbeat \in Nat
    PROVE  [run EXCEPT !.tokens = @ + tokens, !.cost = @ + cost, !.calls = @ + 1,
                       !.errors = errors, !.heartbeat = heartbeat] \in RunRows
<1>1. run.tokens \in Nat /\ run.cost \in Nat /\ run.calls \in Nat
  BY DEF StoreTyped, RunRows
<1>2. run.tokens + tokens \in Nat /\ run.cost + cost \in Nat /\ run.calls + 1 \in Nat
  BY <1>1
<1> QED
  BY <1>2 DEF StoreTyped, RunRows

LEMMA OutcomeCommitTyped ==
    ASSUME Typed, NEW p \in Reports, OutcomeCommit(p), ApiAlone
    PROVE  Typed'
<1> DEFINE t == report[p]
           row == [Event("outcome", None, IF t.ok THEN "ok" ELSE "failed")
                     EXCEPT !.tokens = t.tokens, !.cost = t.cost, !.at = t.at]
<1>1. t \in ReportThreads /\ StoreTyped
  BY ReportThread, StoreIsTyped DEF Typed
<1>2. t.tokens \in Nat /\ t.cost \in Nat /\ t.at \in Nat /\ t.ok \in BOOLEAN
  BY <1>1 DEF ReportThreads
<1>3. CASE /\ RecordOutcome(t.ok, t.tokens, t.cost, t.at)
           /\ report' = [report EXCEPT ![p] = Reported(t, "ok")]
  <2>1. LatestHeartbeat(t.at) \in Nat
    BY <1>1, <1>2, LatestType
  <2>2. NextErrors(t.ok) \in Nat
    BY <1>1, <1>2 DEF NextErrors, StoreTyped, RunRows
  <2>3. run' \in RunRows
    BY <1>1, <1>2, <1>3, <2>1, <2>2, CountedType DEF RecordOutcome
  <2>4. Event("outcome", None, IF t.ok THEN "ok" ELSE "failed") \in EventRows
    BY <1>1, EventType DEF EventKinds, Says
  <2>5. row \in EventRows
    BY <1>2, <2>4 DEF EventRows
  <2>6. StoreTyped'
    BY <1>1, <1>3, <2>3, <2>5
       DEF RecordOutcome, AppendEvent, OutcomeCommit, StoreTyped
  <2>7. Reported(t, "ok") \in ReportThreads
    BY ReportedType DEF ReportAnswers
  <2> QED
    BY <1>3, <2>6, <2>7, ReportFrame DEF ApiAlone, OutcomeCommit
<1>4. CASE /\ report' = [report EXCEPT ![p] = Reported(t, "invalid")]
           /\ UNCHANGED <<run, events>>
  <2>1. StoreTyped'
    BY <1>1, <1>4 DEF OutcomeCommit, StoreTyped
  <2>2. Reported(t, "invalid") \in ReportThreads
    BY ReportedType DEF ReportAnswers
  <2> QED
    BY <1>4, <2>1, <2>2, ReportFrame DEF ApiAlone, OutcomeCommit
<1> QED
  BY <1>3, <1>4 DEF OutcomeCommit

-----------------------------------------------------------------------------
(* Typed is inductive: faults.                                             *)

LEMMA LostJobType ==
    /\ [NoJob EXCEPT !.pc = "lost"] \in Jobs
    /\ JobFits([NoJob EXCEPT !.pc = "lost"])
<1> DEFINE j == [NoJob EXCEPT !.pc = "lost"]
<1>1. NoJob \in Jobs
  BY NoSnapshotType DEF NoJob, Jobs, JobPcs
<1>2. j \in Jobs /\ j.pc = "lost"
  BY <1>1 DEF Jobs, JobPcs
<1>3. JobFits(j)
  BY <1>2 DEF JobFits
<1> QED
  BY <1>2, <1>3

LEMMA CrashTyped ==
    ASSUME Typed, Crash, UNCHANGED <<run, transitions, events, now>>, faults' \in Nat
    PROVE  Typed'
<1>1. \A c \in Calls : gate'[c] \in GateThreads /\ GateFits(gate'[c])
  <2> TAKE c \in Calls
  <2>1. gate[c] \in GateThreads /\ GateFits(gate[c])
    BY GateThread
  <2>2. Return(gate[c], "lost") \in GateThreads /\ GateFits(Return(gate[c], "lost"))
    BY <2>1, ReturnType DEF Answers
  <2> QED
    BY <2>1, <2>2 DEF Crash
<1>2. \A c \in Calls : job'[c] \in Jobs /\ JobFits(job'[c])
  BY JobThread, LostJobType DEF Crash
<1>3. \A r \in Reapers : sweep'[r] \in Sweeps /\ SweepFits(sweep'[r])
  BY IdleType DEF Crash
<1>4. \A q \in Requests : request'[q] \in RequestThreads /\ RequestFits(request'[q])
  <2> TAKE q \in Requests
  <2>1. request[q] \in RequestThreads /\ RequestFits(request[q])
    BY RequestThread
  <2>2. /\ Answered(request[q], "lost") \in RequestThreads
        /\ RequestFits(Answered(request[q], "lost"))
    BY <2>1, AnsweredType DEF RequestAnswers
  <2> QED
    BY <2>1, <2>2 DEF Crash
<1>5. \A p \in Reports : report'[p] \in ReportThreads
  <2> TAKE p \in Reports
  <2>1. report[p] \in ReportThreads /\ Reported(report[p], "lost") \in ReportThreads
    BY ReportThread, ReportedType DEF ReportAnswers
  <2> QED
    BY <2>1 DEF Crash
<1>6. /\ gate' \in [Calls -> GateThreads]
      /\ job' \in [Calls -> Jobs]
      /\ sweep' \in [Reapers -> Sweeps]
      /\ request' \in [Requests -> RequestThreads]
      /\ report' \in [Reports -> ReportThreads]
      /\ queue' \in Seq(Calls)
  BY <1>1, <1>2, <1>3, <1>4, <1>5 DEF Crash
<1>7. TypeOK'
  BY <1>6 DEF Typed, TypeOK
<1>8. Fits'
  BY <1>1, <1>2, <1>3, <1>4 DEF Fits
<1> QED
  BY <1>7, <1>8 DEF Typed


\* A fault leaves the store as it is.
LEMMA FaultStore ==
    ASSUME Typed, Fault
    PROVE  StoreTyped' /\ faults' \in Nat
BY StoreIsTyped, FaultFrame DEF Typed, TypeOK, Faulty, StoreTyped

LEMMA OutageTyped ==
    ASSUME Typed, StoreTyped', faults' \in Nat, Outage
    PROVE  Typed'
<1>1. ASSUME NEW c \in Calls, gate' = [gate EXCEPT ![c] = Return(@, "unavailable")],
             UNCHANGED <<job, queue, sweep, request, report>>
      PROVE  Typed'
  <2>1. /\ Return(gate[c], "unavailable") \in GateThreads
        /\ GateFits(Return(gate[c], "unavailable"))
    BY GateThread, ReturnType DEF Answers
  <2> QED
    BY <1>1, <2>1, GateFrame
<1>2. ASSUME NEW c \in Calls, job' = [job EXCEPT ![c] = [NoJob EXCEPT !.pc = "lost"]],
             TakeJob(c) \/ UNCHANGED queue,
             UNCHANGED <<gate, sweep, request, report>>
      PROVE  Typed'
  <2>1. CASE TakeJob(c)
    BY <1>2, <2>1, TakeType, LostJobType, JobFrame
  <2>2. CASE UNCHANGED queue
    BY <1>2, <2>2, JobThread, LostJobType, JobFrame
  <2> QED
    BY <1>2, <2>1, <2>2
<1>3. ASSUME NEW r \in Reapers, sweep' = [sweep EXCEPT ![r] = Idle],
             UNCHANGED <<gate, job, queue, request, report>>
      PROVE  Typed'
  BY <1>3, IdleType, SweepFrame
<1>4. ASSUME NEW q \in Requests,
             request' = [request EXCEPT ![q] = Answered(@, "unavailable")],
             UNCHANGED <<gate, job, queue, sweep, report>>
      PROVE  Typed'
  <2>1. /\ Answered(request[q], "unavailable") \in RequestThreads
        /\ RequestFits(Answered(request[q], "unavailable"))
    BY RequestThread, AnsweredType DEF RequestAnswers
  <2> QED
    BY <1>4, <2>1, RequestFrame
<1>5. ASSUME NEW p \in Reports,
             report' = [report EXCEPT ![p] = Reported(@, "unavailable")],
             UNCHANGED <<gate, job, queue, sweep, request>>
      PROVE  Typed'
  <2>1. Reported(report[p], "unavailable") \in ReportThreads
    BY ReportedType DEF ReportAnswers
  <2> QED
    BY <1>5, <2>1, ReportFrame
<1> QED
  BY <1>1, <1>2, <1>3, <1>4, <1>5
     DEF Outage, GateOutage, JobOutage, SweepOutage, RequestOutage, ReportOutage,
         GateActive, Busy, RequestActive, ReportActive

-----------------------------------------------------------------------------
(* Typed is inductive: the whole system.                                   *)

LEMMA InitTyped == Init => Typed
<1> SUFFICES ASSUME Init PROVE Typed
  OBVIOUS
<1> USE DEF Init, StoreInit, GateInit, ReaperInit, ApiInit
<1>1. NewRun \in RunRows
  BY DEF NewRun, RunRows, States
<1>2. NewThread \in GateThreads /\ NoJob \in Jobs /\ Idle \in Sweeps
  BY NoSnapshotType, IdleType
     DEF NewThread, GateThreads, GatePcs, Answers, NoJob, Jobs, JobPcs
<1>3. NewRequest \in RequestThreads /\ NewReport \in ReportThreads
  BY NoSnapshotType
     DEF NewRequest, RequestThreads, RequestPcs, RequestAnswers, States,
         NewReport, ReportThreads, ReportAnswers
<1>4. /\ gate \in [Calls -> GateThreads]
      /\ job \in [Calls -> Jobs]
      /\ sweep \in [Reapers -> Sweeps]
      /\ request \in [Requests -> RequestThreads]
      /\ report \in [Reports -> ReportThreads]
  BY <1>2, <1>3
<1>5. TypeOK
  BY <1>1, <1>4 DEF TypeOK
<1>6. Fits
  BY DEF Fits, GateFits, JobFits, SweepFits, RequestFits, NewThread, NoJob, Idle,
         NewRequest
<1> QED
  BY <1>5, <1>6 DEF Typed

LEMMA GateNextTyped ==
    ASSUME Typed, GateNext, GateAlone
    PROVE  Typed'
BY GateReadTyped, GateClockTyped, GateHistoryTyped, GateProposeTyped,
   GateRulesTyped, GateApplyTyped, GateJudgeTyped, GateEscalateTyped,
   GateSampleTyped, GateRecordTyped, JobReadTyped, JobClockTyped, JobJudgeTyped,
   JobEscalateTyped, JobDiscardTyped
   DEF GateNext, GateSteps, JobSteps

LEMMA ReaperNextTyped ==
    ASSUME Typed, ReaperNext, ReaperAlone
    PROVE  Typed'
BY SweepClockTyped, SweepSelectTyped, SweepCommitTyped DEF ReaperNext

LEMMA ApiNextTyped ==
    ASSUME Typed, ApiNext, ApiAlone
    PROVE  Typed'
BY RequestReadTyped, RequestClockTyped, RequestCommitTyped, ReportClockTyped,
   HeartbeatCommitTyped, OutcomeCommitTyped
   DEF ApiNext, RequestSteps, ReportSteps

LEMMA NextTyped ==
    ASSUME Typed, [Next]_vars
    PROVE  Typed'
<1>1. CASE GateNext /\ GateAlone
  BY <1>1, GateNextTyped
<1>2. CASE ReaperNext /\ ReaperAlone
  BY <1>2, ReaperNextTyped
<1>3. CASE ApiNext /\ ApiAlone
  BY <1>3, ApiNextTyped
<1>4. CASE Tick /\ UNCHANGED <<run, transitions, events, gate, job, queue, sweep,
                               request, report, faults>>
  BY <1>4 DEF Tick, Typed, TypeOK, Fits
<1>5. CASE Fault
  <2>1. StoreTyped' /\ faults' \in Nat /\ UNCHANGED <<run, transitions, events, now>>
    BY <1>5, FaultStore, FaultFrame DEF Faulty
  <2> QED
    BY <1>5, <2>1, OutageTyped, CrashTyped DEF Fault
<1>6. CASE UNCHANGED vars
  BY <1>6 DEF vars, Typed, TypeOK, Fits
<1> QED
  BY <1>1, <1>2, <1>3, <1>4, <1>5, <1>6, NextCases DEF Quiescent

\* Whatever the instance, the store and every thread keep their types: no
\* handler, in any interleaving, with outages and crashes, writes a state, a
\* cause, a decision or a counter outside its domain, or builds a move from a
\* rung that has none.
THEOREM TypeCorrect == Spec => []TypeOK
<1>1. Init => Typed
  BY InitTyped
<1>2. Typed /\ [Next]_vars => Typed'
  BY NextTyped
<1>3. Typed => TypeOK
  BY DEF Typed
<1> QED
  BY <1>1, <1>2, <1>3, PTL DEF Spec
=============================================================================

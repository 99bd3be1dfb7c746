--------------------------- MODULE Answers_proofs ---------------------------
(***************************************************************************)
(* The answers of ControlPlane, for every value of the constants: no       *)
(* DECISION contradicts the state in force when it is recorded, and no     *)
(* adverse verdict is overruled.                                           *)
(*                                                                         *)
(* The argument: a thread wants to allow a HIGH call only if it read the   *)
(* run HEALTHY and its judge's row says "clear"; record_decision keeps     *)
(* that answer only at the revision the thread read; and at one revision   *)
(* there is one state.                                                     *)
(***************************************************************************)
EXTENDS Containment_proofs

\* A judge cleared call c at revision rev, in a row before row n.
ClearedBefore(log, n, c, rev) ==
    \E j \in 1 .. n - 1 :
        /\ log[j].kind = "judge"
        /\ log[j].by = c
        /\ log[j].says = "clear"
        /\ log[j].rev = rev

\* AnswersFitTheRun for one row, of any log and audit.
RowFits(log, audit, i) ==
    LET e == log[i]
        s == StateIn(audit, e.rev)
    IN  /\ e.rev \in 0 .. Len(audit)
        /\ e.kind = "decision" =>
            /\ s # "terminated"
            /\ s = "frozen" => e.says = "freeze"
            /\ e.says = "allow" /\ e.tool \notin LowTools =>
                   s = "healthy" /\ ClearedBefore(log, i, e.by, e.rev)

\* What a thread that wants to allow has established.
Cleared(t, c, log, audit) ==
    /\ t.pc = "sample" => t.tool \in LowTools
    /\ t.pc = "record" /\ t.want = "allow" =>
        \/ t.tool \in LowTools
        \/ /\ t.snap.row.state = "healthy"
           /\ t.snap.rev = Len(audit) =>
                  ClearedBefore(log, Len(log) + 1, c, t.snap.rev)

\* The log holds the decision that allowed tool for call c.
Allowed(log, c, tool) ==
    \E i \in DOMAIN log :
        /\ log[i].kind = "decision"
        /\ log[i].by = c
        /\ log[i].says = "allow"
        /\ log[i].tool = tool

\* A call that was answered "allow" has it in the log.
Recorded(t, c, log) ==
    /\ t.pc = "done" <=> t.answer # "none"
    /\ t.answer = "allow" => Allowed(log, c, t.tool)

\* The inductive invariant.
AInv ==
    /\ IInv
    /\ \A i \in DOMAIN events : RowFits(events, transitions, i)
    /\ \A c \in Calls : Cleared(gate[c], c, events, transitions)
    /\ \A c \in Calls : Recorded(gate[c], c, events)

-----------------------------------------------------------------------------
(* The log and the audit rows only grow, and never in the same step.       *)

AuditGrows ==
    /\ Len(transitions') > Len(transitions)
    /\ \A i \in 1 .. Len(transitions) : transitions'[i] = transitions[i]

\* The row of the log that asks for call c.
ProposalOf(row, c) ==
    /\ row.by = c
    /\ row.tool = gate[c].tool /\ row.args = gate[c].args /\ row.at = gate[c].at

\* A row other than a decision, and the step that appends its kind.
NoteOnly ==
    \E row \in EventRows :
        /\ row.kind # "decision"
        /\ row.kind = "proposed" => \E c \in Calls :
               GatePropose(c) /\ ProposalOf(row, c)
        /\ row.kind = "judge" => \E c \in Calls : GateJudge(c) \/ JobJudge(c)
        /\ row.kind = "system" => \E c \in Calls : JobDiscard(c)
        /\ row.kind = "outcome" => \E p \in Reports : OutcomeCommit(p)
        /\ row.rev = Len(transitions)
        /\ events' = Append(events, row)

\* The decision of call c.
DecisionOf(c) ==
    \E row \in EventRows :
        /\ row.kind = "decision"
        /\ row.by = c
        /\ row.rev = Len(transitions)
        /\ row.tool = gate[c].tool
        /\ row.says = FinalDecision(gate[c].want, gate[c].snap)
        /\ gate'[c].answer = row.says
        /\ events' = Append(events, row)

LogSteps ==
    \/ events' = events /\ (transitions' = transitions \/ AuditGrows)
    \/ NoteOnly /\ transitions' = transitions
    \/ /\ transitions' = transitions
       /\ \E c \in Calls : gate[c].pc = "record" /\ run.state # "terminated"
                           /\ DecisionOf(c)

\* What an event's constructor leaves as it is.
LEMMA EventFields ==
    ASSUME NEW kind, NEW call, NEW says
    PROVE  /\ Event(kind, call, says).kind = kind
           /\ Event(kind, call, says).by = call
           /\ Event(kind, call, says).says = says
           /\ Event(kind, call, says).rev = Len(transitions)
BY DEF Event, Revision

LEMMA MovesGrow ==
    ASSUME Typed, StoreSteps
    PROVE  transitions' = transitions \/ AuditGrows
<1>1. transitions \in Seq(TransitionRows)
  BY DEF Typed, TypeOK
<1>2. ASSUME NEW snap \in Snapshots, NEW to \in States, NEW cause \in Causes,
             NEW actor \in Actors, NEW at \in Nat, StoreMoves(snap, to, cause, actor, at)
      PROVE  AuditGrows
  <2> DEFINE row == [from |-> snap.row.state, to |-> to, cause |-> cause,
                     actor |-> actor, at |-> at]
  <2>1. row \in TransitionRows
    BY DEF TransitionRows, Snapshots, RunRows
  <2>2. transitions' = Append(transitions, row)
    BY <1>2 DEF StoreMoves, RecordStateChange
  <2> QED
    BY <1>1, <2>1, <2>2 DEF AuditGrows
<1> QED
  BY <1>2 DEF StoreSteps, StoreStays

\* What record_decision appends.
LEMMA GateDecides ==
    ASSUME Typed, NEW c \in Calls, GateRecord(c), run.state # "terminated"
    PROVE  DecisionOf(c) /\ gate[c].pc = "record" /\ transitions' = transitions
<1> DEFINE t == gate[c]
           decision == FinalDecision(t.want, t.snap)
           row == [Event("decision", c, decision) EXCEPT
                      !.tool = t.tool, !.args = t.args, !.at = t.at]
<1>1. /\ t \in GateThreads
      /\ StoreTyped
      /\ \A v : gate' = [gate EXCEPT ![c] = v] => gate'[c] = v
  BY GateThread, StoreIsTyped DEF Typed, TypeOK
<1>2. decision \in Decisions
  BY GateThread, FinalDecisionType DEF GateRecord, GateFits
<1>3. Event("decision", c, decision) \in EventRows
  BY <1>1, <1>2, EventType DEF EventKinds, Says
<1>4. /\ row \in EventRows /\ row.kind = "decision" /\ row.by = c
      /\ row.rev = Len(transitions) /\ row.tool = t.tool /\ row.says = decision
  <2> DEFINE e == Event("decision", c, decision)
  <2>1. /\ e.kind = "decision" /\ e.by = c /\ e.says = decision
        /\ e.rev = Len(transitions)
    BY EventFields
  <2> HIDE DEF e, decision
  <2> QED
    BY <1>1, <1>3, <2>1 DEF e, EventRows, GateThreads
<1>5. gate'[c] = Return(t, decision)
  BY <1>1 DEF GateRecord
<1>6. gate'[c].answer = decision
  BY <1>5 DEF Return, NewThread
<1>7. events' = Append(events, row) /\ transitions' = transitions /\ t.pc = "record"
  BY DEF GateRecord, AppendEvent
<1> QED
  BY <1>4, <1>6, <1>7 DEF DecisionOf

LEMMA GateLogs ==
    ASSUME Typed, NEW c \in Calls, GateRead(c) \/ GateSteps(c), StoreSteps
    PROVE  LogSteps
<1> DEFINE t == gate[c]
<1>1. /\ t \in GateThreads
      /\ events \in Seq(EventRows)
      /\ StoreTyped
      /\ \A v : gate' = [gate EXCEPT ![c] = v] => gate'[c] = v
  BY GateThread, StoreIsTyped DEF Typed, TypeOK
<1>2. CASE \/ GateRead(c) \/ GateClock(c) \/ GateHistory(c) \/ GateRules(c)
           \/ GateSample(c) \/ GateApply(c) \/ GateEscalate(c)
  <2>1. events' = events
    BY <1>2 DEF GateRead, GateClock, GateHistory, GateRules, GateSample, GateApply,
                GateEscalate
  <2> QED
    BY <2>1, MovesGrow DEF LogSteps
<1>3. CASE GatePropose(c)
  <2> DEFINE row == [Event("proposed", c, "-") EXCEPT
                        !.tool = t.tool, !.args = t.args, !.at = t.at]
  <2>1. /\ row \in EventRows /\ row.kind = "proposed" /\ row.rev = Len(transitions)
        /\ ProposalOf(row, c)
    <3> DEFINE e == Event("proposed", c, "-")
    <3>1. e \in EventRows
      BY <1>1, EventType DEF EventKinds, Says
    <3>2. e.kind = "proposed" /\ e.by = c /\ e.rev = Len(transitions)
      BY EventFields
    <3> HIDE DEF e
    <3> QED
      BY <1>1, <3>1, <3>2 DEF e, EventRows, GateThreads, ProposalOf
  <2>2. events' = Append(events, row) /\ transitions' = transitions
    BY <1>3 DEF GatePropose, AppendEvent
  <2> HIDE DEF row
  <2> QED
    BY <1>3, <2>1, <2>2 DEF LogSteps, NoteOnly
<1>4. CASE GateJudge(c)
  <2>1. PICK verdict \in JudgeAnswers :
          AppendEvent([Event("judge", c, verdict) EXCEPT !.at = t.at])
    BY <1>4 DEF GateJudge
  <2> DEFINE row == [Event("judge", c, verdict) EXCEPT !.at = t.at]
  <2>2. row \in EventRows /\ row.kind = "judge" /\ row.rev = Len(transitions)
    <3> DEFINE e == Event("judge", c, verdict)
    <3>1. e \in EventRows
      BY <1>1, EventType, GateAssumption DEF EventKinds, Says
    <3>2. e.kind = "judge" /\ e.rev = Len(transitions)
      BY EventFields
    <3> HIDE DEF e
    <3> QED
      BY <1>1, <3>1, <3>2 DEF e, EventRows, GateThreads
  <2>3. events' = Append(events, row) /\ transitions' = transitions
    BY <1>4, <2>1 DEF GateJudge, AppendEvent
  <2> QED
    BY <1>4, <2>2, <2>3 DEF LogSteps, NoteOnly
<1>5. CASE GateRecord(c)
  <2>1. CASE run.state = "terminated"
    BY <1>5, <2>1 DEF GateRecord, LogSteps
  <2>2. CASE run.state # "terminated"
    BY <1>5, <2>2, GateDecides DEF LogSteps
  <2> QED
    BY <2>1, <2>2
<1> QED
  BY <1>2, <1>3, <1>4, <1>5 DEF GateSteps

LEMMA JobLogs ==
    ASSUME Typed, NEW c \in Calls, JobSteps(c), StoreSteps
    PROVE  LogSteps
<1> DEFINE t == job[c]
<1>1. t \in Jobs /\ StoreTyped
  BY JobThread, StoreIsTyped DEF Typed
<1>2. CASE JobRead(c) \/ JobClock(c) \/ JobEscalate(c)
  <2>1. events' = events
    BY <1>2 DEF JobRead, JobClock, JobEscalate
  <2> QED
    BY <2>1, MovesGrow DEF LogSteps
<1>3. ASSUME NEW kind \in {"judge", "system"}, NEW says \in Says,
             AppendEvent([Event(kind, c, says) EXCEPT !.at = t.at]),
             kind = "judge" => JobJudge(c), kind = "system" => JobDiscard(c),
             transitions' = transitions
      PROVE  LogSteps
  <2> DEFINE row == [Event(kind, c, says) EXCEPT !.at = t.at]
  <2>1. Event(kind, c, says) \in EventRows
    BY <1>1, EventType DEF EventKinds
  <2>2. /\ row \in EventRows /\ row.kind = kind
        /\ row.rev = Len(transitions)
    <3> DEFINE e == Event(kind, c, says)
    <3>1. e.kind = kind /\ e.rev = Len(transitions)
      BY EventFields
    <3> HIDE DEF e
    <3> QED
      BY <1>1, <2>1, <3>1 DEF e, EventRows, Jobs
  <2> QED
    BY <1>3, <2>2 DEF AppendEvent, LogSteps, NoteOnly
<1>4. CASE JobJudge(c)
  <2>1. JudgeAnswers \subseteq Says
    BY GateAssumption DEF Says
  <2> QED
    BY <1>3, <1>4, <2>1 DEF JobJudge
<1>5. CASE JobDiscard(c)
  BY <1>3, <1>5 DEF JobDiscard, Says
<1> QED
  BY <1>2, <1>4, <1>5 DEF JobSteps

LEMMA ApiLogs ==
    ASSUME Typed, ApiNext, StoreSteps
    PROVE  LogSteps
<1>1. StoreTyped
  BY StoreIsTyped DEF Typed
<1>2. ASSUME NEW q \in Requests, RequestRead(q) \/ RequestSteps(q)
      PROVE  LogSteps
  <2>1. events' = events
    BY <1>2 DEF RequestRead, RequestSteps, RequestClock, RequestCommit
  <2> QED
    BY <2>1, MovesGrow DEF LogSteps
<1>3. ASSUME NEW p \in Reports, ReportClock(p) \/ HeartbeatCommit(p)
      PROVE  LogSteps
  <2>1. events' = events
    BY <1>3 DEF ReportClock, HeartbeatCommit
  <2> QED
    BY <2>1, MovesGrow DEF LogSteps
<1>4. ASSUME NEW p \in Reports, OutcomeCommit(p)
      PROVE  LogSteps
  <2> DEFINE t == report[p]
             says == IF t.ok THEN "ok" ELSE "failed"
             row == [Event("outcome", None, says) EXCEPT
                        !.tokens = t.tokens, !.cost = t.cost, !.at = t.at]
  <2>1. CASE UNCHANGED <<run, events>>
    BY <2>1, MovesGrow DEF LogSteps
  <2>2. CASE RecordOutcome(t.ok, t.tokens, t.cost, t.at)
    <3>1. t.tokens \in Nat /\ t.cost \in Nat /\ t.at \in Nat
      BY ReportThread DEF ReportThreads
    <3>2. Event("outcome", None, says) \in EventRows
      BY <1>1, EventType DEF EventKinds, Says
    <3>3. /\ row \in EventRows /\ row.kind = "outcome"
          /\ row.rev = Len(transitions)
      <4> DEFINE e == Event("outcome", None, says)
      <4>1. e.kind = "outcome" /\ e.rev = Len(transitions)
        BY EventFields
      <4> HIDE DEF e
      <4> QED
        BY <3>1, <3>2, <4>1 DEF e, EventRows
    <3>4. events' = Append(events, row) /\ transitions' = transitions
      BY <1>4, <2>2 DEF OutcomeCommit, RecordOutcome, AppendEvent
    <3> QED
      BY <1>4, <3>3, <3>4 DEF LogSteps, NoteOnly
  <2> QED
    BY <1>4, <2>1, <2>2 DEF OutcomeCommit
<1> QED
  BY <1>2, <1>3, <1>4 DEF ApiNext, ReportSteps

LEMMA NextLogs ==
    ASSUME Typed, [Next]_vars, StoreSteps
    PROVE  LogSteps
<1>1. CASE GateNext
  BY <1>1, GateLogs, JobLogs DEF GateNext
<1>2. CASE ApiNext
  BY <1>2, ApiLogs
<1>3. CASE \/ ReaperNext \/ Fault \/ Quiescent \/ UNCHANGED vars
           \/ UNCHANGED <<run, transitions, events, gate, job, queue, sweep,
                          request, report, faults>>
  <2>1. events' = events
    BY <1>3, FaultFrame
       DEF ReaperNext, SweepClock, SweepSelect, SweepCommit, Faulty, Quiescent, vars
  <2> QED
    BY <2>1, MovesGrow DEF LogSteps
<1> QED
  BY <1>1, <1>2, <1>3, NextCases

-----------------------------------------------------------------------------
(* The rows of the log.                                                    *)

\* What the past of the log and of the audit rows established, stays.
LEMMA RowStays ==
    ASSUME Typed, LogSteps, NEW i \in DOMAIN events,
           RowFits(events, transitions, i)
    PROVE  RowFits(events', transitions', i)
<1>1. events \in Seq(EventRows) /\ transitions \in Seq(TransitionRows)
  BY DEF Typed, TypeOK
<1>2. /\ \A j \in 1 .. i : events'[j] = events[j]
      /\ i \in Nat
      /\ events'[i] = events[i]
  <2>1. \/ events' = events
        \/ \E row \in EventRows : events' = Append(events, row)
    BY DEF LogSteps, NoteOnly, DecisionOf
  <2> QED
    BY <1>1, <2>1
<1>3. \A rev \in 0 .. Len(transitions) :
        /\ rev \in 0 .. Len(transitions')
        /\ StateIn(transitions', rev) = StateIn(transitions, rev)
  BY <1>1 DEF LogSteps, AuditGrows, StateIn
<1>4. \A c, rev : ClearedBefore(events, i, c, rev) => ClearedBefore(events', i, c, rev)
  BY <1>2 DEF ClearedBefore
<1> QED
  BY <1>2, <1>3, <1>4 DEF RowFits

\* At the revision a thread read, the run is in the state it read.
LEMMA SameRevisionSameState ==
    ASSUME IInv, NEW snap, Coherent(snap, transitions), snap.rev = Revision
    PROVE  snap.row.state = run.state /\ Fresh(snap)
BY DEF IInv, Audit, AuditExplainsState, Coherent, Fresh, StateIn, StateAt, Revision

LEMMA DecisionFits ==
    ASSUME AInv, NEW c \in Calls, gate[c].pc = "record", run.state # "terminated",
           DecisionOf(c), transitions' = transitions
    PROVE  RowFits(events', transitions', Len(events'))
<1> DEFINE t == gate[c]
           n == Len(events)
<1>1. events \in Seq(EventRows) /\ transitions \in Seq(TransitionRows) /\ n \in Nat
  BY DEF AInv, IInv, Typed, TypeOK
<1>2. PICK row \in EventRows :
        /\ row.kind = "decision"
        /\ row.by = c
        /\ row.rev = Len(transitions)
        /\ row.tool = t.tool
        /\ row.says = FinalDecision(t.want, t.snap)
        /\ events' = Append(events, row)
  BY DEF DecisionOf
<1>3. /\ Len(events') = n + 1
      /\ events'[n + 1] = row
      /\ \A j \in 1 .. n : events'[j] = events[j]
  BY <1>1, <1>2
<1>4. StateIn(transitions, Len(transitions)) = run.state
  BY DEF AInv, IInv, Audit, AuditExplainsState, StateAt, StateIn, Revision
<1>5. run.state = "frozen" => row.says = "freeze"
  BY <1>2 DEF FinalDecision
<1>6. ASSUME row.says = "allow", row.tool \notin LowTools
      PROVE  run.state = "healthy" /\ ClearedBefore(events', n + 1, c, Len(transitions))
  <2>1. t.want = "allow" /\ t.snap.rev = Revision
    BY <1>2, <1>6 DEF FinalDecision
  <2>2. Coherent(t.snap, transitions)
    BY DEF AInv, IInv, Ordered, Order
  <2>3. t.snap.row.state = run.state
    BY <2>1, <2>2, SameRevisionSameState DEF AInv
  <2>4. /\ t.snap.row.state = "healthy"
        /\ ClearedBefore(events, n + 1, c, t.snap.rev)
    BY <1>2, <1>6, <2>1 DEF AInv, Cleared, Revision
  <2> QED
    BY <1>1, <1>3, <2>1, <2>3, <2>4 DEF ClearedBefore, Revision
<1>7. Len(transitions) \in 0 .. Len(transitions')
  BY <1>1
<1> QED
  BY <1>2, <1>3, <1>4, <1>5, <1>6, <1>7 DEF RowFits

LEMMA RowsFit ==
    ASSUME AInv, LogSteps
    PROVE  \A i \in DOMAIN events' : RowFits(events', transitions', i)
<1>1. /\ Typed
      /\ events \in Seq(EventRows) /\ transitions \in Seq(TransitionRows)
  BY DEF AInv, IInv, Typed, TypeOK
<1>2. \A i \in DOMAIN events : RowFits(events', transitions', i)
  BY <1>1, RowStays DEF AInv
<1>3. CASE events' = events
  BY <1>2, <1>3
<1>4. CASE NoteOnly /\ transitions' = transitions
  <2>1. PICK row \in EventRows :
          /\ row.kind # "decision"
          /\ row.rev = Len(transitions)
          /\ events' = Append(events, row)
    BY <1>4 DEF NoteOnly
  <2>2. /\ DOMAIN events' = DOMAIN events \cup {Len(events')}
        /\ events'[Len(events')] = row
    BY <1>1, <2>1
  <2>3. RowFits(events', transitions', Len(events'))
    BY <1>1, <1>4, <2>1, <2>2 DEF RowFits
  <2> QED
    BY <1>2, <2>2, <2>3
<1>5. ASSUME NEW c \in Calls, gate[c].pc = "record", run.state # "terminated",
             DecisionOf(c), transitions' = transitions
      PROVE  \A i \in DOMAIN events' : RowFits(events', transitions', i)
  <2>1. DOMAIN events' = DOMAIN events \cup {Len(events')}
    BY <1>1, <1>5 DEF DecisionOf
  <2>2. RowFits(events', transitions', Len(events'))
    BY <1>5, DecisionFits
  <2> QED
    BY <1>2, <2>1, <2>2
<1> QED
  BY <1>3, <1>4, <1>5 DEF LogSteps

-----------------------------------------------------------------------------
(* The threads.                                                            *)

\* What a thread that does not move established, stays.
LEMMA ClearedStays ==
    ASSUME Typed, LogSteps, NEW t, NEW c, Coherent(t.snap, transitions),
           Cleared(t, c, events, transitions)
    PROVE  Cleared(t, c, events', transitions')
<1>1. events \in Seq(EventRows) /\ transitions \in Seq(TransitionRows)
  BY DEF Typed, TypeOK
<1>2. /\ Len(events) \in Nat /\ Len(events') \in Nat
      /\ Len(events') >= Len(events)
      /\ \A j \in 1 .. Len(events) : events'[j] = events[j]
  <2>1. \/ events' = events
        \/ \E row \in EventRows : events' = Append(events, row)
    BY DEF LogSteps, NoteOnly, DecisionOf
  <2> QED
    BY <1>1, <2>1
<1>3. ASSUME NEW rev, ClearedBefore(events, Len(events) + 1, c, rev)
      PROVE  ClearedBefore(events', Len(events') + 1, c, rev)
  BY <1>2, <1>3 DEF ClearedBefore
<1>4. t.snap.rev = Len(transitions') => t.snap.rev = Len(transitions)
  BY <1>1 DEF LogSteps, AuditGrows, Coherent
<1> QED
  BY <1>3, <1>4 DEF Cleared

LEMMA AllowedStays ==
    ASSUME Typed, LogSteps, NEW c, NEW tool, Allowed(events, c, tool)
    PROVE  Allowed(events', c, tool)
<1>1. events \in Seq(EventRows)
  BY DEF Typed, TypeOK
<1>2. \A i \in DOMAIN events : i \in DOMAIN events' /\ events'[i] = events[i]
  BY <1>1 DEF LogSteps, NoteOnly, DecisionOf
<1> QED
  BY <1>2 DEF Allowed

\* A thread that is not about to allow has nothing to establish.
LEMMA NothingToClear ==
    ASSUME NEW t, NEW c, NEW log, NEW audit,
           t.pc # "sample", t.pc = "record" => t.want # "allow"
    PROVE  Cleared(t, c, log, audit)
BY DEF Cleared

LEMMA RouteClears ==
    ASSUME NEW t \in GateThreads, NEW c, NEW log, NEW audit
    PROVE  Cleared(Route(t), c, log, audit)
<1>1. CASE t.snap.row.state = "frozen"
  BY <1>1 DEF Route, ToRecord, GateThreads, Cleared
<1>2. CASE t.snap.row.state # "frozen" /\ RiskOf(t.tool) = "low"
  <2>1. Route(t).pc = "sample" /\ Route(t).tool = t.tool
    BY <1>2 DEF Route, GateThreads
  <2>2. t.tool \in LowTools
    BY <1>2 DEF RiskOf, LowTools
  <2> QED
    BY <2>1, <2>2 DEF Cleared
<1>3. CASE t.snap.row.state # "frozen" /\ RiskOf(t.tool) # "low"
  BY <1>3 DEF Route, ToRecord, GateThreads, Cleared
<1> QED
  BY <1>1, <1>2, <1>3

LEMMA GateClears ==
    ASSUME AInv, Typed', NEW c \in Calls, GateRead(c) \/ GateSteps(c)
    PROVE  Cleared(gate'[c], c, events', transitions')
<1> DEFINE t == gate[c]
           u == gate'[c]
<1>1. /\ t \in GateThreads /\ GateFits(t)
      /\ \A v : gate' = [gate EXCEPT ![c] = v] => u = v
      /\ Typed
  BY GateThread DEF AInv, IInv, Typed, TypeOK
<1>a. \A s \in GateThreads : \A d :
        /\ ToRecord(s, d).pc = "record" /\ ToRecord(s, d).want = d
        /\ ToRecord(s, d).snap = s.snap /\ ToRecord(s, d).tool = s.tool
  BY DEF ToRecord, GateThreads
<1>b. \A s, a : Return(s, a).pc = "done"
  BY DEF Return, NewThread
<1>2. CASE GateRead(c)
  <2>1. PICK tool \in Tools, args \in Args :
          u = IF run.state = "terminated"
              THEN Return([t EXCEPT !.tool = tool, !.args = args, !.snap = Read],
                          "terminated")
              ELSE [[t EXCEPT !.tool = tool, !.args = args, !.snap = Read]
                      EXCEPT !.pc = "clock"]
    BY <1>1, <1>2 DEF GateRead
  <2>2. u.pc = "done" \/ u.pc = "clock"
    BY <1>1, <1>b, <2>1 DEF GateThreads
  <2> QED
    BY <2>2, NothingToClear
<1>3. CASE GateClock(c) \/ GateHistory(c)
  <2>1. u.pc = "history" \/ u.pc = "propose"
    BY <1>1, <1>3 DEF GateClock, GateHistory, GateThreads, Typed, TypeOK
  <2> QED
    BY <2>1, NothingToClear
<1>4. CASE GatePropose(c)
  <2> DEFINE s == [t EXCEPT !.seq = Len(events) + 1]
  <2>4. Len(events) + 1 \in Nat
    BY <1>1 DEF Typed, TypeOK
  <2>2. s \in GateThreads
    BY <1>1, <2>4 DEF GateThreads
  <2>3. u \in {ToRecord(s, "freeze"), [s EXCEPT !.pc = "rules"]}
    BY <1>1, <1>4 DEF GatePropose
  <2> HIDE DEF s
  <2>5. [s EXCEPT !.pc = "rules"].pc = "rules"
    BY <2>2 DEF GateThreads
  <2>1. u.pc = "rules" \/ (u.pc = "record" /\ u.want = "freeze")
    <3>1. CASE u = ToRecord(s, "freeze")
      BY <1>a, <2>2, <3>1
    <3>2. CASE u = [s EXCEPT !.pc = "rules"]
      BY <2>5, <3>2
    <3> QED
      BY <2>3, <3>1, <3>2
  <2> QED
    BY <2>1, NothingToClear
<1>5. CASE GateRules(c)
  <2>2. PICK cause : u \in {[t EXCEPT !.pc = "apply", !.cause = cause], Route(t)}
    BY <1>1, <1>5 DEF GateRules
  <2>1. u.pc = "apply" \/ u = Route(t)
    BY <1>1, <2>2 DEF GateThreads
  <2> QED
    BY <1>1, <2>1, NothingToClear, RouteClears
<1>6. CASE GateApply(c)
  <2>1. [t EXCEPT !.snap = Read'] \in GateThreads
    BY <1>1, ReadIsTypedNext DEF GateThreads
  <2>2. u = OnConflict(t) \/ u = Route([t EXCEPT !.snap = Read'])
    BY <1>1, <1>6 DEF GateApply
  <2>3. OnConflict(t).pc = "record" /\ OnConflict(t).want = "deny"
    BY <1>1 DEF OnConflict, ToRecord, GateThreads
  <2> QED
    BY <2>1, <2>2, <2>3, NothingToClear, RouteClears
<1>7. CASE GateJudge(c)
  <2>1. PICK verdict \in JudgeAnswers :
          /\ AppendEvent([Event("judge", c, verdict) EXCEPT !.at = t.at])
          /\ u = IF verdict = "unavailable" THEN ToRecord(t, "deny")
                 ELSE IF verdict \in Adverse THEN [t EXCEPT !.pc = "escalate"]
                 ELSE ToRecord(t, "allow")
    BY <1>1, <1>7 DEF GateJudge
  <2>2. CASE verdict = "unavailable" \/ verdict \in Adverse
    <3>1. u.pc = "escalate" \/ (u.pc = "record" /\ u.want = "deny")
      BY <1>1, <2>1, <2>2 DEF ToRecord, GateThreads
    <3> QED
      BY <3>1, NothingToClear
  <2>3. CASE verdict \notin Adverse \cup {"unavailable"}
    <3> DEFINE e == Event("judge", c, verdict)
               row == [e EXCEPT !.at = t.at]
    <3>1. verdict = "clear"
      BY <2>3, GateAssumption DEF Adverse, Severities
    <3>2. u.pc = "record" /\ u.snap = t.snap
      BY <1>1, <2>1, <2>3 DEF ToRecord, GateThreads
    <3>3. t.snap.row.state = "healthy"
      BY <1>1, <1>7 DEF GateJudge, GateFits
    <3>4. /\ e.kind = "judge" /\ e.by = c /\ e.says = "clear"
          /\ e.rev = Len(transitions)
      BY <3>1, EventFields
    <3>5. e \in EventRows
      BY <1>1, <3>1, EventType, StoreIsTyped DEF EventKinds, Says, Severities, Typed
    <3>6. events' = Append(events, row) /\ transitions' = transitions
      BY <1>7, <2>1 DEF GateJudge, AppendEvent
    <3> HIDE DEF e
    <3>7. /\ row.kind = "judge" /\ row.by = c /\ row.says = "clear"
          /\ row.rev = Len(transitions)
      BY <3>4, <3>5 DEF EventRows
    <3>8. events \in Seq(EventRows) /\ row \in EventRows
      BY <1>1, <3>5 DEF Typed, TypeOK, EventRows, GateThreads
    <3> HIDE DEF row
    <3>9. Len(events') = Len(events) + 1 /\ events'[Len(events')] = row
      BY <3>6, <3>8
    <3>10. ClearedBefore(events', Len(events') + 1, c, Len(transitions))
      BY <3>7, <3>8, <3>9 DEF ClearedBefore
    <3> QED
      BY <3>2, <3>3, <3>6, <3>10 DEF Cleared
  <2> QED
    BY <2>2, <2>3
<1>8. CASE GateEscalate(c)
  <2>1. Read' \in Snapshots
    BY ReadIsTypedNext
  <2>2. u.pc = "record" /\ u.want = "deny"
    <3>1. [t EXCEPT !.snap = Read'] \in GateThreads
      BY <1>1, <2>1 DEF GateThreads
    <3>2. u = ToRecord([t EXCEPT !.snap = Read'], "deny") \/ u = ToRecord(t, "deny")
      BY <1>1, <1>8 DEF GateEscalate, OnConflict
    <3> QED
      BY <1>1, <1>a, <3>1, <3>2
  <2> QED
    BY <2>2, NothingToClear
<1>9. CASE GateSample(c)
  <2>1. u.pc = "record" /\ u.tool = t.tool
    <3>1. u = ToRecord(t, "allow")
      BY <1>1, <1>9 DEF GateSample
    <3> QED
      BY <1>1, <1>a, <3>1
  <2>2. t.tool \in LowTools
    BY <1>9 DEF GateSample, AInv, Cleared
  <2> QED
    BY <2>1, <2>2 DEF Cleared
<1>10. CASE GateRecord(c)
  <2>1. \E answer : gate' = [gate EXCEPT ![c] = Return(t, answer)]
    BY <1>10 DEF GateRecord
  <2>2. u.pc = "done"
    BY <1>1, <2>1 DEF Return, NewThread
  <2> QED
    BY <2>2, NothingToClear
<1> QED
  BY <1>2, <1>3, <1>4, <1>5, <1>6, <1>7, <1>8, <1>9, <1>10 DEF GateSteps

\* What a gate call was asked never changes, and only record_decision allows.
LEMMA GateKeeps ==
    ASSUME Typed, Typed', NEW c \in Calls, GateRead(c) \/ GateSteps(c)
    PROVE  /\ gate[c].pc # "done" /\ gate'[c].pc # "new"
           /\ gate[c].pc # "new" => gate'[c].tool = gate[c].tool
           /\ gate'[c].pc # "done" => gate'[c].answer = gate[c].answer
           /\ gate'[c].pc = "done" => gate'[c].answer # "none"
           /\ gate'[c].pc = "done" /\ gate'[c].answer = "allow" =>
                  gate[c].pc = "record" /\ DecisionOf(c)
<1> DEFINE t == gate[c]
           u == gate'[c]
           Decides == t.pc = "record" /\ DecisionOf(c)
           Same(s) == s.tool = t.tool /\ s.answer = t.answer
           Keeps == Same(u) /\ u.pc \notin {"new", "done"}
<1>1. /\ t \in GateThreads
      /\ \A v : gate' = [gate EXCEPT ![c] = v] => u = v
      /\ Read' \in Snapshots /\ Len(events) + 1 \in Nat /\ now \in Nat
  BY GateThread, ReadIsTypedNext DEF Typed, TypeOK
<1>a. \A s \in GateThreads : Same(s) => \A d :
        Same(ToRecord(s, d)) /\ ToRecord(s, d).pc = "record"
  BY DEF ToRecord, GateThreads
<1>b. \A s \in GateThreads : Same(s) =>
        Same(Route(s)) /\ Route(s).pc \in {"record", "sample", "judge"}
  BY <1>a DEF Route, GateThreads
<1>c. \A s, a : /\ Return(s, a).pc = "done" /\ Return(s, a).answer = a
                /\ Return(s, a).tool = s.tool
  BY DEF Return, NewThread
<1>2. CASE GateRead(c)
  <2>1. PICK tool \in Tools, args \in Args :
          u = IF run.state = "terminated"
              THEN Return([t EXCEPT !.tool = tool, !.args = args, !.snap = Read],
                          "terminated")
              ELSE [[t EXCEPT !.tool = tool, !.args = args, !.snap = Read]
                      EXCEPT !.pc = "clock"]
    BY <1>1, <1>2 DEF GateRead
  <2>2. t.pc = "new"
    BY <1>2 DEF GateRead
  <2>3. CASE run.state = "terminated"
    BY <1>c, <2>1, <2>2, <2>3
  <2>4. CASE run.state # "terminated"
    BY <1>1, <2>1, <2>2, <2>4 DEF GateThreads
  <2> QED
    BY <2>3, <2>4
<1>3. ASSUME Keeps, t.pc \notin {"new", "done"}
      PROVE  /\ t.pc # "done" /\ u.pc # "new"
             /\ t.pc # "new" => u.tool = t.tool
             /\ u.pc # "done" => u.answer = t.answer
             /\ u.pc = "done" => u.answer # "none"
             /\ u.pc = "done" /\ u.answer = "allow" => Decides
  BY <1>3
<1>4. CASE GateClock(c) \/ GateHistory(c)
  <2>2. Keeps
    BY <1>1, <1>4 DEF GateClock, GateHistory, GateThreads, Typed, TypeOK
  <2> QED
    BY <1>3, <1>4, <2>2 DEF GateClock, GateHistory
<1>5. CASE GatePropose(c)
  <2> DEFINE s == [t EXCEPT !.seq = Len(events) + 1]
  <2>1. s \in GateThreads /\ Same(s)
    BY <1>1 DEF GateThreads
  <2>2. u = ToRecord(s, "freeze") \/ u = [s EXCEPT !.pc = "rules"]
    BY <1>1, <1>5 DEF GatePropose
  <2> HIDE DEF s
  <2>3. CASE u = ToRecord(s, "freeze")
    BY <1>3, <1>5, <1>a, <2>1, <2>3 DEF GatePropose
  <2>4. CASE u = [s EXCEPT !.pc = "rules"]
    <3>1. Keeps
      BY <2>1, <2>4 DEF GateThreads
    <3> QED
      BY <1>3, <1>5, <3>1 DEF GatePropose
  <2> QED
    BY <2>2, <2>3, <2>4
<1>6. CASE GateRules(c)
  <2>1. PICK cause : u \in {[t EXCEPT !.pc = "apply", !.cause = cause], Route(t)}
    BY <1>1, <1>6 DEF GateRules
  <2>2. CASE u = [t EXCEPT !.pc = "apply", !.cause = cause]
    <3>1. Keeps
      BY <1>1, <2>2 DEF GateThreads
    <3> QED
      BY <1>3, <1>6, <3>1 DEF GateRules
  <2>3. CASE u = Route(t)
    BY <1>1, <1>3, <1>6, <1>b, <2>3 DEF GateRules
  <2> QED
    BY <2>1, <2>2, <2>3
<1>7. CASE GateApply(c) \/ GateEscalate(c)
  <2> DEFINE s == [t EXCEPT !.snap = Read']
  <2>1. s \in GateThreads /\ Same(s)
    BY <1>1 DEF GateThreads
  <2>2. u \in {ToRecord(t, "deny"), Route(s), ToRecord(s, "deny")}
    <3>1. CASE GateApply(c)
      BY <1>1, <3>1 DEF GateApply, OnConflict
    <3>2. CASE GateEscalate(c)
      BY <1>1, <3>2 DEF GateEscalate, OnConflict
    <3> QED
      BY <1>7, <3>1, <3>2
  <2> HIDE DEF s
  <2>3. Keeps
    BY <1>1, <1>a, <1>b, <2>1, <2>2
  <2> QED
    BY <1>3, <1>7, <2>3 DEF GateApply, GateEscalate
<1>8. CASE GateJudge(c)
  <2>1. PICK d : u = ToRecord(t, d) \/ u = [t EXCEPT !.pc = "escalate"]
    BY <1>1, <1>8 DEF GateJudge
  <2>2. CASE u = ToRecord(t, d)
    BY <1>1, <1>3, <1>8, <1>a, <2>2 DEF GateJudge
  <2>3. CASE u = [t EXCEPT !.pc = "escalate"]
    <3>1. Keeps
      BY <1>1, <2>3 DEF GateThreads
    <3> QED
      BY <1>3, <1>8, <3>1 DEF GateJudge
  <2> QED
    BY <2>1, <2>2, <2>3
<1>9. CASE GateSample(c)
  <2>1. u = ToRecord(t, "allow")
    BY <1>1, <1>9 DEF GateSample
  <2> QED
    BY <1>1, <1>3, <1>9, <1>a, <2>1 DEF GateSample
<1>10. CASE GateRecord(c)
  <2>1. t.pc = "record"
    BY <1>10 DEF GateRecord
  <2>2. CASE run.state = "terminated"
    <3>1. u = Return(t, "terminated")
      BY <1>1, <1>10, <2>2 DEF GateRecord
    <3> QED
      BY <1>c, <2>1, <3>1
  <2>3. CASE run.state # "terminated"
    <3>1. u = Return(t, FinalDecision(t.want, t.snap))
      BY <1>1, <1>10, <2>3 DEF GateRecord
    <3>2. DecisionOf(c)
      BY <1>10, <2>3, GateDecides
    <3>3. FinalDecision(t.want, t.snap) # "none"
      BY <2>1, GateThread, FinalDecisionType DEF GateFits, Decisions
    <3> QED
      BY <1>c, <2>1, <3>1, <3>2, <3>3
  <2> QED
    BY <2>2, <2>3
<1> QED
  BY <1>2, <1>4, <1>5, <1>6, <1>7, <1>8, <1>9, <1>10 DEF GateSteps

\* A thread that no step of the gate moves is as it was, or was ended by a fault.
LEMMA GateOthers ==
    ASSUME Typed, [Next]_vars, NEW c \in Calls
    PROVE  \/ GateRead(c) \/ GateSteps(c)
           \/ gate'[c] = gate[c]
           \/ /\ c \in GateActive
              /\ \E answer \in {"unavailable", "lost"} :
                     gate'[c] = Return(gate[c], answer)
<1>1. DOMAIN gate = Calls
  BY DEF Typed, TypeOK
<1>2. ASSUME NEW d \in Calls \ {c}, GateRead(d) \/ GateSteps(d)
      PROVE  gate'[c] = gate[c]
  BY <1>1, <1>2
     DEF GateRead, GateSteps, GateClock, GateHistory, GatePropose, GateRules,
         GateApply, GateJudge, GateEscalate, GateSample, GateRecord
<1>3. ASSUME NEW d \in Calls, JobSteps(d)
      PROVE  gate'[c] = gate[c]
  BY <1>3 DEF JobSteps, JobRead, JobClock, JobJudge, JobEscalate, JobDiscard
<1>4. CASE Fault
  <2>1. CASE GateOutage
    BY <1>1, <2>1 DEF GateOutage
  <2>2. CASE JobOutage \/ SweepOutage \/ RequestOutage \/ ReportOutage
    BY <2>2 DEF JobOutage, SweepOutage, RequestOutage, ReportOutage
  <2>3. CASE Crash
    BY <2>3 DEF Crash
  <2> QED
    BY <1>4, <2>1, <2>2, <2>3 DEF Fault, Outage
<1>5. CASE UNCHANGED gate
  BY <1>5
<1> QED
  BY <1>2, <1>3, <1>4, <1>5, NextCases
     DEF GateNext, ReaperAlone, ApiAlone, Quiescent, vars

LEMMA NextAnswers ==
    ASSUME AInv, [Next]_vars
    PROVE  AInv' /\ LogSteps
<1>1. IInv' /\ StoreSteps
  BY NextOrdered DEF AInv
<1>2. Typed /\ Typed'
  BY <1>1 DEF AInv, IInv
<1>3. LogSteps
  BY <1>1, <1>2, NextLogs
<1>4. \A i \in DOMAIN events' : RowFits(events', transitions', i)
  BY <1>3, RowsFit
<1>5. \A t, a : Return(t, a).pc = "done" /\ Return(t, a).answer = a
  BY DEF Return, NewThread
<1>6. ASSUME NEW c \in Calls
      PROVE  Cleared(gate'[c], c, events', transitions')
  <2>1. CASE GateRead(c) \/ GateSteps(c)
    BY <1>2, <2>1, GateClears
  <2>2. CASE gate'[c] = gate[c]
    <3>1. Coherent(gate[c].snap, transitions)
      BY DEF AInv, IInv, Ordered, Order
    <3> QED
      BY <1>2, <1>3, <2>2, <3>1, ClearedStays DEF AInv
  <2>3. ASSUME NEW a, gate'[c] = Return(gate[c], a)
        PROVE  Cleared(gate'[c], c, events', transitions')
    BY <1>5, <2>3, NothingToClear
  <2> QED
    BY <1>2, <2>1, <2>2, <2>3, GateOthers
<1>7. ASSUME NEW c \in Calls
      PROVE  Recorded(gate'[c], c, events')
  <2>1. CASE GateRead(c) \/ GateSteps(c)
    <3>1. /\ gate[c].pc # "done"
          /\ gate'[c].pc # "done" => gate'[c].answer = gate[c].answer
          /\ gate'[c].pc = "done" => gate'[c].answer # "none"
          /\ gate'[c].pc = "done" /\ gate'[c].answer = "allow" =>
                 gate[c].pc = "record" /\ DecisionOf(c)
          /\ gate[c].pc # "new" => gate'[c].tool = gate[c].tool
      BY <1>2, <2>1, GateKeeps
    <3>2. gate[c].answer = "none"
      BY <3>1 DEF AInv, Recorded
    <3>3. ASSUME gate'[c].answer = "allow"
          PROVE  Allowed(events', c, gate'[c].tool)
      <4>1. DecisionOf(c)
        BY <3>1, <3>2, <3>3
      <4>2. gate[c].pc # "new"
        BY <3>1, <3>2, <3>3
      <4>3. events \in Seq(EventRows)
        BY <1>2 DEF Typed, TypeOK
      <4>4. PICK row \in EventRows :
              /\ row.kind = "decision" /\ row.by = c /\ row.tool = gate[c].tool
              /\ gate'[c].answer = row.says
              /\ events' = Append(events, row)
        BY <4>1 DEF DecisionOf
      <4>5. Len(events') \in DOMAIN events' /\ events'[Len(events')] = row
        BY <4>3, <4>4
      <4> QED
        BY <3>1, <3>3, <4>2, <4>4, <4>5 DEF Allowed
    <3> QED
      BY <3>1, <3>2, <3>3 DEF Recorded
  <2>2. CASE gate'[c] = gate[c]
    BY <1>2, <1>3, <2>2, AllowedStays DEF AInv, Recorded
  <2>3. ASSUME NEW a \in {"unavailable", "lost"}, gate'[c] = Return(gate[c], a)
        PROVE  Recorded(gate'[c], c, events')
    BY <1>5, <2>3 DEF Recorded
  <2> QED
    BY <1>2, <2>1, <2>2, <2>3, GateOthers
<1> QED
  BY <1>1, <1>3, <1>4, <1>6, <1>7 DEF AInv

LEMMA InitAnswers == Init => AInv
<1> SUFFICES ASSUME Init PROVE AInv
  OBVIOUS
<1>1. events = <<>>
  BY DEF Init, StoreInit
<1>2. \A c \in Calls : gate[c] = NewThread
  BY DEF Init, GateInit
<1>3. NewThread.pc = "new" /\ NewThread.answer = "none"
  BY DEF NewThread
<1> QED
  BY <1>1, <1>2, <1>3, InitOrdered DEF AInv, Cleared, Recorded

LEMMA AnswersInvariance == Spec => []AInv
<1>1. Init => AInv
  BY InitAnswers
<1>2. AInv /\ [Next]_vars => AInv'
  BY NextAnswers
<1> QED
  BY <1>1, <1>2, PTL DEF Spec

LEMMA RowsGiveAnswers == AInv => AnswersFitTheRun
<1> SUFFICES ASSUME AInv PROVE AnswersFitTheRun
  OBVIOUS
<1>1. events \in Seq(EventRows)
  BY DEF AInv, IInv, Typed, TypeOK
<1>2. ASSUME NEW i \in DOMAIN events, events[i].kind = "decision"
      PROVE  /\ StateAt(events[i].rev) # "terminated"
             /\ StateAt(events[i].rev) = "frozen" => events[i].says = "freeze"
             /\ events[i].says = "allow" /\ events[i].tool \notin LowTools =>
                    /\ StateAt(events[i].rev) = "healthy"
                    /\ ClearedBefore(events, i, events[i].by, events[i].rev)
  <2>1. RowFits(events, transitions, i)
    BY DEF AInv
  <2>2. StateIn(transitions, events[i].rev) = StateAt(events[i].rev)
    BY DEF StateIn, StateAt
  <2> QED
    BY <1>2, <2>1, <2>2 DEF RowFits
<1> QED
  BY <1>1, <1>2 DEF AnswersFitTheRun, ClearedBefore

\* A decision is recorded against the state in force at that moment: FREEZE on
\* a frozen run, nothing on a terminated one, and a HIGH call is allowed only on
\* a healthy run that its own judge cleared at that revision, whatever other
\* threads committed in the meantime (decide, record_decision).
THEOREM AnswersAreJustified == Spec => []AnswersFitTheRun
BY AnswersInvariance, RowsGiveAnswers, PTL

-----------------------------------------------------------------------------
(* Verdicts.                                                               *)

\* A snapshot that is not fresh is of an older revision.
LEMMA NotFreshIsOlder ==
    ASSUME IInv, NEW snap, Coherent(snap, transitions), ~Fresh(snap)
    PROVE  snap.rev < Len(transitions)
<1>1. snap.rev # Revision
  BY SameRevisionSameState
<1>2. snap.rev \in 0 .. Len(transitions) /\ Len(transitions) \in Nat
  BY DEF Coherent, IInv, Typed, TypeOK
<1> QED
  BY <1>1, <1>2 DEF Revision

\* Whether a verdict's escalation commits or loses, the revision has moved on.
LEMMA VerdictIsPast ==
    ASSUME IInv, NEW t, t.snap \in Snapshots, t.at \in Nat,
           t.snap.row.state \in DOMAIN Escalations, Coherent(t.snap, transitions),
           \/ /\ Fresh(t.snap)
              /\ RecordStateChange(t.snap, NextRung(t.snap.row.state), "judge",
                                   "system", t.at)
           \/ ~Fresh(t.snap) /\ Conflict
    PROVE  t.snap.rev < Len(transitions')
<1> DEFINE row == [from |-> t.snap.row.state, to |-> NextRung(t.snap.row.state),
                   cause |-> "judge", actor |-> "system", at |-> t.at]
<1>1. transitions \in Seq(TransitionRows)
  BY DEF IInv, Typed, TypeOK
<1>2. CASE ~Fresh(t.snap) /\ Conflict
  BY <1>2, NotFreshIsOlder DEF Conflict
<1>3. CASE Fresh(t.snap) /\ transitions' = Append(transitions, row)
  <2>1. row \in TransitionRows
    BY NextRungType DEF TransitionRows, Snapshots, RunRows, Causes, Actors
  <2>2. Len(transitions') = Len(transitions) + 1 /\ Len(transitions) \in Nat
    BY <1>1, <1>3, <2>1
  <2> QED
    BY <1>3, <2>2 DEF Fresh, Revision
<1> QED
  BY <1>2, <1>3 DEF RecordStateChange

LEMMA GateVerdictBinds ==
    ASSUME IInv, Typed', [Next]_vars, NEW c \in Calls,
           gate[c].pc = "escalate", gate'[c].pc = "record"
    PROVE  gate[c].snap.rev < Len(transitions') /\ gate'[c].want = "deny"
<1> DEFINE t == gate[c]
<1>1. /\ t \in GateThreads /\ Typed
      /\ \A v : gate' = [gate EXCEPT ![c] = v] => gate'[c] = v
      /\ Coherent(t.snap, transitions)
      /\ Read' \in Snapshots
  BY GateThread, ReadIsTypedNext DEF IInv, Typed, TypeOK, Ordered, Order
<1>2. \A a : Return(t, a).pc = "done"
  BY DEF Return, NewThread
<1>3. GateEscalate(c)
  <2>1. GateRead(c) \/ GateSteps(c)
    BY <1>1, <1>2, GateOthers
  <2> QED
    BY <2>1 DEF GateRead, GateSteps, GateClock, GateHistory, GatePropose, GateRules,
                GateApply, GateJudge, GateSample, GateRecord
<1>4. t.snap.rev < Len(transitions')
  <2>1. \/ Fresh(t.snap) /\ RecordStateChange(t.snap, NextRung(t.snap.row.state),
                                              "judge", "system", t.at)
        \/ ~Fresh(t.snap) /\ Conflict
    BY <1>3 DEF GateEscalate
  <2>2. t.snap.row.state \in DOMAIN Escalations
    BY GateThread, <1>1 DEF GateFits, Escalations
  <2> QED
    BY <1>1, <2>1, <2>2, VerdictIsPast DEF GateThreads
<1>5. gate'[c].want = "deny"
  <2>1. [t EXCEPT !.snap = Read'] \in GateThreads
    BY <1>1 DEF GateThreads
  <2>2. \/ gate'[c] = ToRecord([t EXCEPT !.snap = Read'], "deny")
        \/ gate'[c] = ToRecord(t, "deny")
    BY <1>1, <1>3 DEF GateEscalate, OnConflict
  <2> HIDE DEF t
  <2>3. \A s \in GateThreads : ToRecord(s, "deny").want = "deny"
    BY DEF ToRecord, GateThreads
  <2> QED
    BY <1>1, <2>1, <2>2, <2>3
<1> QED
  BY <1>4, <1>5

LEMMA JobVerdictBinds ==
    ASSUME IInv, [Next]_vars, NEW c \in Calls,
           job[c].pc = "escalate", job'[c].pc \in {"discard", "done"}
    PROVE  job[c].snap.rev < Len(transitions')
<1> DEFINE j == job[c]
<1>1. /\ j \in Jobs /\ Typed
      /\ DOMAIN job = Calls
      /\ Coherent(j.snap, transitions)
  BY JobThread DEF IInv, Typed, TypeOK, Ordered, Order
<1>2. ASSUME NEW d \in Calls, GateRead(d) \/ GateSteps(d)
      PROVE  job'[c].pc \in {job[c].pc, "queued"}
  <2>1. UNCHANGED job \/ job' = [job EXCEPT ![d].pc = "queued"]
    BY <1>2 DEF GateRead, GateSteps, GateClock, GateHistory, GatePropose, GateRules,
                GateApply, GateJudge, GateEscalate, GateSample, GateRecord
  <2> QED
    BY <1>1, <2>1 DEF Jobs
<1>3. ASSUME NEW d \in Calls \ {c}, JobSteps(d)
      PROVE  job'[c] = job[c]
  BY <1>1, <1>3 DEF JobSteps, JobRead, JobClock, JobJudge, JobEscalate, JobDiscard
<1>4. ASSUME Fault
      PROVE  job'[c] = job[c] \/ job'[c].pc = "lost"
  <2>1. [NoJob EXCEPT !.pc = "lost"].pc = "lost"
    BY DEF NoJob
  <2>2. CASE JobOutage
    BY <1>1, <2>1, <2>2 DEF JobOutage
  <2>3. CASE GateOutage \/ SweepOutage \/ RequestOutage \/ ReportOutage
    BY <2>3 DEF GateOutage, SweepOutage, RequestOutage, ReportOutage
  <2>4. CASE Crash
    BY <2>1, <2>4 DEF Crash
  <2> QED
    BY <1>4, <2>2, <2>3, <2>4 DEF Fault, Outage
<1>5. JobSteps(c)
  BY <1>2, <1>3, <1>4, NextCases
     DEF GateNext, ReaperAlone, ApiAlone, Quiescent, vars
<1>6. JobEscalate(c) \/ JobRead(c)
  BY <1>5 DEF JobSteps, JobClock, JobJudge, JobDiscard
<1>7. CASE JobRead(c)
  <2>1. job'[c].pc = "clock"
    BY <1>1, <1>7 DEF JobRead, Jobs
  <2> QED
    BY <2>1
<1>8. CASE JobEscalate(c)
  <2>1. \/ Fresh(j.snap) /\ RecordStateChange(j.snap, NextRung(j.snap.row.state),
                                              "judge", "system", j.at)
        \/ ~Fresh(j.snap) /\ Conflict
    BY <1>8 DEF JobEscalate
  <2>2. j.snap.row.state \in DOMAIN Escalations
    BY <1>1, JobThread DEF JobFits
  <2> QED
    BY <1>1, <2>1, <2>2, VerdictIsPast DEF Jobs
<1> QED
  BY <1>6, <1>7, <1>8

\* A judge that objected is never overruled by a lost race: when the call's or
\* the background thread is done with the verdict, the run has moved on from the
\* revision that was judged, and the call is denied.
THEOREM VerdictsBind == Spec => AdverseVerdictBinds
<1>1. IInv /\ IInv' /\ [Next]_vars =>
        [\A c \in Calls :
            /\ gate[c].pc = "escalate" /\ gate'[c].pc = "record" =>
                   gate[c].snap.rev < Len(transitions') /\ gate'[c].want = "deny"
            /\ job[c].pc = "escalate" /\ job'[c].pc \in {"discard", "done"} =>
                   job[c].snap.rev < Len(transitions')]_vars
  BY GateVerdictBinds, JobVerdictBinds DEF IInv
<1> QED
  BY <1>1, Invariance, PTL DEF Spec, AdverseVerdictBinds
=============================================================================

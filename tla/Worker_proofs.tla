--------------------------- MODULE Worker_proofs ----------------------------
(***************************************************************************)
(* The workers of Worker, over any transport, for every value of the       *)
(* constants.                                                              *)
(***************************************************************************)
EXTENDS Worker, Answers_proofs

-----------------------------------------------------------------------------
(* Whatever workers do, the server is the one of ControlPlane.             *)

LEMMA WorkerStepsAreServerSteps ==
    ASSUME [WorkerNext]_workerVars
    PROVE  [Next]_vars
BY DEF WorkerNext, WorkersDone, workerVars

\* Workers, late or lost messages add nothing the server could not do alone:
\* what is proved of Spec holds with workers attached.
THEOREM WorkersAddNothing == WorkerSpec => Spec
<1>1. WorkerInit => Init
  BY DEF WorkerInit
<1>2. [WorkerNext]_workerVars => [Next]_vars
  BY WorkerStepsAreServerSteps
<1> QED
  BY <1>1, <1>2, PTL DEF WorkerSpec, Spec

-----------------------------------------------------------------------------
(* What a guard() has established about its call.                          *)

GuardFits(g, t, c, log) ==
    /\ t.pc # "new" => g.pc # "idle" /\ t.tool = g.tool
    /\ g.pc = "idle" => ~g.ran
    /\ (g.pc = "act" \/ g.ran) /\ RiskOf(g.tool) = "high" => Allowed(log, c, g.tool)

WInv ==
    /\ AInv
    /\ worker \in [Calls -> Guards]
    /\ \A c \in Calls : GuardFits(worker[c], gate[c], c, events)

LEMMA InitGuards == WorkerInit => WInv
<1> SUFFICES ASSUME WorkerInit PROVE WInv
  OBVIOUS
<1>1. worker = [c \in Calls |-> NewGuard] /\ AInv
  BY InitAnswers DEF WorkerInit
<1>2. NewGuard \in Guards /\ NewGuard.pc = "idle" /\ ~NewGuard.ran
  BY DEF NewGuard, Guards, GuardPcs
<1>3. \A c \in Calls : gate[c].pc = "new"
  BY DEF WorkerInit, Init, GateInit, NewThread
<1> QED
  BY <1>1, <1>2, <1>3 DEF WInv, GuardFits

\* A tool that safe mode allows is LOW, whatever was lost.
LEMMA ObeyFits ==
    ASSUME NEW g \in Guards, NEW c, NEW t, NEW log, NEW d,
           g.pc = "gate", GuardFits(g, t, c, log),
           d = "allow" /\ RiskOf(g.tool) = "high" => Allowed(log, c, g.tool)
    PROVE  Obey(g, d) \in Guards /\ GuardFits(Obey(g, d), t, c, log)
<1>1. CASE d = "allow"
  BY <1>1 DEF Obey, Guards, GuardPcs, GuardFits
<1>2. CASE d # "allow"
  BY <1>2 DEF Obey, Guards, GuardPcs, GuardFits
<1> QED
  BY <1>1, <1>2

LEMMA OfflineFits ==
    ASSUME NEW tool
    PROVE  OfflineDecision(tool) = "allow" => RiskOf(tool) # "high"
BY DEF OfflineDecision

\* A worker's own step.
LEMMA GuardSteps ==
    ASSUME WInv, NEW c \in Calls, UNCHANGED vars,
           \/ GuardCall(c) \/ GateReply(c) \/ ConnectionLost(c) \/ RunTool(c)
           \/ GuardReturns(c)
    PROVE  WInv'
<1> DEFINE g == worker[c]
           t == gate[c]
<1>1. /\ g \in Guards /\ GuardFits(g, t, c, events)
      /\ Recorded(t, c, events) /\ t \in GateThreads
  BY GateThread DEF WInv, AInv, IInv
<1>2. AInv'
  <2>1. [Next]_vars
    OBVIOUS
  <2> QED
    BY <2>1, NextAnswers DEF WInv
<1>3. SUFFICES \E h \in Guards : /\ worker' = [worker EXCEPT ![c] = h]
                                 /\ GuardFits(h, t, c, events)
  <2>1. gate' = gate /\ events' = events
    BY DEF vars
  <2> QED
    BY <1>2, <2>1 DEF WInv
<1>4. CASE GuardCall(c)
  <2>1. PICK tool \in Tools, args \in Args :
          worker' = [worker EXCEPT ![c] =
              [g EXCEPT !.pc = "gate", !.tool = tool, !.args = args, !.over = OverBudget]]
    BY <1>4 DEF GuardCall
  <2> DEFINE h == [g EXCEPT !.pc = "gate", !.tool = tool, !.args = args,
                            !.over = OverBudget]
  <2>2. g.pc = "idle" /\ t.pc = "new" /\ ~g.ran
    BY <1>1, <1>4 DEF GuardCall, GuardFits
  <2>3. OverBudget \in BOOLEAN
    BY DEF OverBudget
  <2>4. h \in Guards /\ h.pc = "gate" /\ h.ran = g.ran
    BY <1>1, <2>3 DEF Guards, GuardPcs
  <2> QED
    BY <2>1, <2>2, <2>4 DEF GuardFits
<1>5. ASSUME NEW d, g.pc = "gate", worker' = [worker EXCEPT ![c] = Obey(g, d)],
             d = "allow" /\ RiskOf(g.tool) = "high" => Allowed(events, c, g.tool)
      PROVE  \E h \in Guards : /\ worker' = [worker EXCEPT ![c] = h]
                               /\ GuardFits(h, t, c, events)
  BY <1>1, <1>5, ObeyFits
<1>6. CASE GateReply(c)
  <2>1. /\ g.pc = "gate" /\ t.pc = "done"
        /\ t.answer \in Answers \ {"none"}
        /\ t.tool = g.tool
    BY <1>1, <1>6 DEF GateReply, Recorded, GuardFits, GateThreads
  <2>2. CASE t.answer \in Decisions
    <3>1. worker' = [worker EXCEPT ![c] = Obey(g, t.answer)]
      BY <1>6, <2>2 DEF GateReply, Decisions
    <3>2. t.answer = "allow" => Allowed(events, c, g.tool)
      BY <1>1, <2>1 DEF Recorded
    <3> QED
      BY <1>5, <2>1, <3>1, <3>2
  <2>3. CASE t.answer = "terminated"
    <3>1. worker' = [worker EXCEPT ![c] = [g EXCEPT !.pc = "done"]]
      BY <1>6, <2>3 DEF GateReply, Decisions
    <3>2. [g EXCEPT !.pc = "done"] \in Guards
      BY <1>1 DEF Guards, GuardPcs
    <3>3. GuardFits([g EXCEPT !.pc = "done"], t, c, events)
      BY <1>1, <2>1 DEF Guards, GuardFits
    <3> QED
      BY <3>1, <3>2, <3>3
  <2>4. CASE t.answer \in {"unavailable", "lost"}
    <3>1. worker' = [worker EXCEPT ![c] = Obey(g, OfflineDecision(g.tool))]
      BY <1>6, <2>4 DEF GateReply, Decisions
    <3> QED
      BY <1>5, <2>1, <3>1, OfflineFits
  <2> QED
    BY <2>1, <2>2, <2>3, <2>4 DEF Answers
<1>7. CASE ConnectionLost(c)
  BY <1>5, <1>7, OfflineFits DEF ConnectionLost
<1>8. CASE RunTool(c)
  <2>1. PICK ok \in BOOLEAN :
          worker' = [worker EXCEPT ![c] = [g EXCEPT !.pc = "report", !.ran = TRUE, !.ok = ok]]
    BY <1>8 DEF RunTool
  <2> DEFINE h == [g EXCEPT !.pc = "report", !.ran = TRUE, !.ok = ok]
  <2>2. h \in Guards /\ h.pc = "report" /\ h.tool = g.tool /\ g.pc = "act"
    BY <1>1, <1>8 DEF Guards, GuardPcs, RunTool
  <2>3. GuardFits(h, t, c, events)
    BY <1>1, <2>2 DEF GuardFits
  <2> QED
    BY <2>1, <2>2, <2>3
<1>9. CASE GuardReturns(c)
  <2> DEFINE h == [g EXCEPT !.pc = "done"]
  <2>1. worker' = [worker EXCEPT ![c] = h] /\ g.pc = "report"
    BY <1>1, <1>9 DEF GuardReturns, WInv, Guards
  <2>2. h \in Guards /\ h.pc = "done" /\ h.tool = g.tool /\ h.ran = g.ran
    BY <1>1 DEF Guards, GuardPcs
  <2>3. GuardFits(h, t, c, events)
    BY <1>1, <2>1, <2>2 DEF GuardFits
  <2> QED
    BY <2>1, <2>2, <2>3
<1> QED
  BY <1>4, <1>6, <1>7, <1>8, <1>9

\* The server's step, on requests that workers posted.
LEMMA ServerSteps ==
    ASSUME WInv, Next, OnlyPosted, UNCHANGED worker
    PROVE  WInv'
<1>1. AInv' /\ LogSteps /\ Typed /\ Typed'
  BY NextAnswers DEF WInv, AInv, IInv
<1>2. ASSUME NEW c \in Calls
      PROVE  GuardFits(worker'[c], gate'[c], c, events')
  <2>1. GuardFits(worker[c], gate[c], c, events) /\ worker'[c] = worker[c]
    BY DEF WInv
  <2>2. gate'[c].pc # "new" => worker[c].pc # "idle" /\ gate'[c].tool = worker[c].tool
    <3>1. CASE gate[c].pc = "new"
      BY <3>1 DEF OnlyPosted
    <3>2. CASE gate[c].pc # "new"
      <4>1. \A a : Return(gate[c], a).tool = gate[c].tool
        BY DEF Return, NewThread
      <4>2. gate'[c].tool = gate[c].tool
        BY <1>1, <3>2, <4>1, GateOthers, GateKeeps
      <4> QED
        BY <2>1, <3>2, <4>2 DEF GuardFits
    <3> QED
      BY <3>1, <3>2
  <2>3. Allowed(events, c, worker[c].tool) => Allowed(events', c, worker[c].tool)
    BY <1>1, AllowedStays
  <2> QED
    BY <2>1, <2>2, <2>3 DEF GuardFits
<1> QED
  BY <1>1, <1>2 DEF WInv

LEMMA NextGuards ==
    ASSUME WInv, [WorkerNext]_workerVars
    PROVE  WInv'
<1>1. CASE UNCHANGED workerVars
  <2>1. [Next]_vars
    BY <1>1 DEF workerVars
  <2>2. AInv'
    BY <2>1, NextAnswers DEF WInv
  <2> QED
    BY <1>1, <2>2 DEF WInv, workerVars, vars
<1>2. CASE Next /\ OnlyPosted /\ UNCHANGED worker
  BY <1>2, ServerSteps
<1>3. ASSUME NEW c \in Calls, UNCHANGED vars,
             \/ GuardCall(c) \/ GateReply(c) \/ ConnectionLost(c) \/ RunTool(c)
             \/ GuardReturns(c)
      PROVE  WInv'
  BY <1>3, GuardSteps
<1> QED
  BY <1>1, <1>2, <1>3 DEF WorkerNext, WorkersDone

LEMMA GuardsInvariance == WorkerSpec => []WInv
<1>1. WorkerInit => WInv
  BY InitGuards
<1>2. WInv /\ [WorkerNext]_workerVars => WInv'
  BY NextGuards
<1> QED
  BY <1>1, <1>2, PTL DEF WorkerSpec

\* A worker that was refused, cut off or answered late never runs a HIGH tool:
\* if it ran, the log has the server's permission for this call, on a healthy
\* run its own judge cleared at that revision (sdk.py guard, gate.py decide).
THEOREM SafeModeIsSafe == WorkerSpec => []HighRunsWereCleared
<1>1. WInv => HighRunsWereCleared
  <2> SUFFICES ASSUME WInv, NEW c \in Calls, worker[c].ran,
                      RiskOf(worker[c].tool) = "high"
               PROVE  \E i, j \in DOMAIN events :
                          /\ events[i].kind = "decision" /\ events[i].by = c
                          /\ events[i].says = "allow"
                          /\ events[i].tool = worker[c].tool
                          /\ events[j].kind = "judge" /\ events[j].by = c
                          /\ events[j].says = "clear"
                          /\ j < i /\ events[j].rev = events[i].rev
                          /\ StateAt(events[i].rev) = "healthy"
    BY DEF HighRunsWereCleared
  <2>1. Allowed(events, c, worker[c].tool)
    BY DEF WInv, GuardFits
  <2>2. worker[c].tool \notin LowTools
    BY DEF RiskOf, LowTools
  <2>3. PICK i \in DOMAIN events :
          /\ events[i].kind = "decision" /\ events[i].by = c
          /\ events[i].says = "allow" /\ events[i].tool = worker[c].tool
    BY <2>1 DEF Allowed
  <2>4. RowFits(events, transitions, i) /\ events \in Seq(EventRows)
    BY DEF WInv, AInv, IInv, Typed, TypeOK
  <2>5. /\ StateIn(transitions, events[i].rev) = "healthy"
        /\ ClearedBefore(events, i, c, events[i].rev)
    BY <2>2, <2>3, <2>4 DEF RowFits
  <2>6. PICK j \in 1 .. i - 1 :
          /\ events[j].kind = "judge" /\ events[j].by = c
          /\ events[j].says = "clear" /\ events[j].rev = events[i].rev
    BY <2>5 DEF ClearedBefore
  <2>7. j \in DOMAIN events /\ j < i
    BY <2>4, <2>6
  <2>8. StateAt(events[i].rev) = "healthy"
    BY <2>5 DEF StateAt, StateIn
  <2> QED
    BY <2>3, <2>6, <2>7, <2>8
<1> QED
  BY <1>1, GuardsInvariance, PTL

-----------------------------------------------------------------------------
(* Budgets.                                                                *)

OverIn(row) == row.tokens > BudgetTokens \/ row.cost > BudgetCost

\* A HIGH call that was asked for over budget, on its way to a refusal.
Stopped(t) ==
    /\ t.pc \in {"clock", "history", "propose", "rules"} => OverIn(t.snap.row)
    /\ t.pc = "apply" => t.cause \in RuleNames
    /\ t.pc \notin {"sample", "judge", "escalate"}
    /\ t.pc = "record" => t.want # "allow"
    /\ t.answer # "allow"

BudgetFits(g, t) ==
    g.over => /\ OverIn(run)
              /\ RiskOf(g.tool) = "high" => Stopped(t) /\ g.pc # "act" /\ ~g.ran

BInv == WInv /\ \A c \in Calls : BudgetFits(worker[c], gate[c])

\* Counters never go down, so a run that is over its budget stays over it.
LEMMA BudgetStaysSpent ==
    ASSUME Typed, [Next]_vars, OverIn(run)
    PROVE  OverIn(run')
<1>1. run \in RunRows
  BY DEF Typed, TypeOK
<1>2. ASSUME run'.tokens >= run.tokens, run'.cost >= run.cost,
             run'.tokens \in Nat, run'.cost \in Nat
      PROVE  OverIn(run')
  BY <1>1, <1>2, RulesAssumption DEF OverIn, RunRows
<1>3. CASE UNCHANGED run
  BY <1>3
<1>4. ASSUME NEW snap, NEW to, NEW cause, NEW actor, NEW at,
             RecordStateChange(snap, to, cause, actor, at) \/ Conflict
      PROVE  OverIn(run')
  <2>1. run'.tokens = run.tokens /\ run'.cost = run.cost
    BY <1>1, <1>4 DEF RecordStateChange, Conflict, RunRows
  <2> QED
    BY <2>1 DEF OverIn
<1>5. ASSUME NEW c \in Calls, GateRead(c) \/ GateSteps(c) \/ JobSteps(c)
      PROVE  OverIn(run')
  BY <1>3, <1>4, <1>5
     DEF GateRead, GateSteps, GateClock, GateHistory, GatePropose, GateRules,
         GateApply, GateJudge, GateEscalate, GateSample, GateRecord, JobSteps,
         JobRead, JobClock, JobJudge, JobEscalate, JobDiscard
<1>6. ASSUME NEW r \in Reapers, SweepClock(r) \/ SweepSelect(r) \/ SweepCommit(r)
      PROVE  OverIn(run')
  BY <1>3, <1>4, <1>6 DEF SweepClock, SweepSelect, SweepCommit
<1>7. ASSUME NEW q \in Requests, RequestRead(q) \/ RequestSteps(q)
      PROVE  OverIn(run')
  BY <1>3, <1>4, <1>7 DEF RequestRead, RequestSteps, RequestClock, RequestCommit
<1>8. ASSUME NEW p \in Reports, ReportClock(p) \/ ReportSteps(p)
      PROVE  OverIn(run')
  <2> DEFINE t == report[p]
  <2>1. CASE UNCHANGED run
    BY <2>1
  <2>2. CASE HeartbeatCommit(p)
    <3>1. run'.tokens = run.tokens /\ run'.cost = run.cost
      BY <1>1, <2>2 DEF HeartbeatCommit, TouchHeartbeat, RunRows
    <3> QED
      BY <3>1 DEF OverIn
  <2>3. CASE RecordOutcome(t.ok, t.tokens, t.cost, t.at)
    <3>1. t.tokens \in Nat /\ t.cost \in Nat
      BY ReportThread DEF ReportThreads
    <3>2. run'.tokens = run.tokens + t.tokens /\ run'.cost = run.cost + t.cost
      BY <1>1, <2>3 DEF RecordOutcome, RunRows
    <3> QED
      BY <1>1, <1>2, <3>1, <3>2 DEF RunRows
  <2> QED
    BY <1>8, <2>1, <2>2, <2>3 DEF ReportClock, ReportSteps, OutcomeCommit
<1>9. CASE \/ Fault \/ Quiescent \/ UNCHANGED vars
           \/ UNCHANGED <<run, transitions, events, gate, job, queue, sweep,
                          request, report, faults>>
  BY <1>3, <1>9, FaultFrame DEF Faulty, Quiescent, vars
<1> QED
  BY <1>5, <1>6, <1>7, <1>8, <1>9, NextCases DEF GateNext, ReaperNext, ApiNext

\* The rules of a run over its budget: some rule fires.
LEMMA BudgetFires ==
    ASSUME NEW rule, NEW t, IsFirstFiring(rule, Context(t)), OverIn(t.snap.row)
    PROVE  rule # None /\ rule \in RuleNames
<1>1. Context(t).run = t.snap.row
  BY DEF Context
<1>2. Fires("budget", Context(t))
  BY <1>1 DEF Fires, Budget, OverIn
<1>3. "budget" \in RuleNames
  BY DEF RuleNames
<1> QED
  BY <1>2, <1>3 DEF IsFirstFiring

LEMMA StoppedSteps ==
    ASSUME Typed, Typed', NEW c \in Calls, GateRead(c) \/ GateSteps(c), OverIn(run),
           Stopped(gate[c]), Recorded(gate[c], c, events),
           gate[c].pc # "new" => RiskOf(gate[c].tool) = "high"
    PROVE  Stopped(gate'[c])
<1> DEFINE t == gate[c]
           u == gate'[c]
<1>1. /\ t \in GateThreads /\ GateFits(t)
      /\ \A v : gate' = [gate EXCEPT ![c] = v] => u = v
      /\ Read' \in Snapshots /\ Len(events) + 1 \in Nat
  BY GateThread, ReadIsTypedNext DEF Typed, TypeOK
<1>2. \A s \in GateThreads : \A d :
        /\ ToRecord(s, d).pc = "record" /\ ToRecord(s, d).want = d
        /\ ToRecord(s, d).answer = s.answer
  BY DEF ToRecord, GateThreads
<1>3. t.answer = "none"
  BY <1>1, GateKeeps DEF Recorded
<1>4. CASE GateRead(c)
  <2>1. PICK tool \in Tools, args \in Args :
          u = IF run.state = "terminated"
              THEN Return([t EXCEPT !.tool = tool, !.args = args, !.snap = Read],
                          "terminated")
              ELSE [[t EXCEPT !.tool = tool, !.args = args, !.snap = Read]
                      EXCEPT !.pc = "clock"]
    BY <1>1, <1>4 DEF GateRead
  <2>2. CASE run.state = "terminated"
    BY <2>1, <2>2 DEF Return, NewThread, Stopped
  <2>3. CASE run.state # "terminated"
    <3>1. u.pc = "clock" /\ u.snap = Read /\ u.answer = t.answer
      BY <1>1, <2>1, <2>3 DEF GateThreads
    <3>2. Read.row = run
      BY DEF Read
    <3> QED
      BY <1>3, <3>1, <3>2 DEF Stopped
  <2> QED
    BY <2>2, <2>3
<1>5. CASE GateClock(c) \/ GateHistory(c)
  <2>1. /\ u.pc \in {"history", "propose"} /\ u.snap = t.snap /\ u.answer = t.answer
        /\ t.pc \in {"clock", "history"}
    BY <1>1, <1>5 DEF GateClock, GateHistory, GateThreads, Typed, TypeOK
  <2> QED
    BY <1>3, <2>1 DEF Stopped
<1>6. CASE GatePropose(c)
  <2> DEFINE s == [t EXCEPT !.seq = Len(events) + 1]
  <2>1. s \in GateThreads /\ s.snap = t.snap /\ s.answer = t.answer
    BY <1>1 DEF GateThreads
  <2>2. u = ToRecord(s, "freeze") \/ u = [s EXCEPT !.pc = "rules"]
    BY <1>1, <1>6 DEF GatePropose
  <2>3. t.pc = "propose"
    BY <1>6 DEF GatePropose
  <2> HIDE DEF s
  <2>4. CASE u = ToRecord(s, "freeze")
    BY <1>2, <1>3, <2>1, <2>4 DEF Stopped
  <2>5. CASE u = [s EXCEPT !.pc = "rules"]
    <3>1. u.pc = "rules" /\ u.snap = t.snap /\ u.answer = t.answer
      BY <2>1, <2>5 DEF GateThreads
    <3> QED
      BY <1>3, <2>3, <3>1 DEF Stopped
  <2> QED
    BY <2>2, <2>4, <2>5
<1>7. CASE GateRules(c)
  <2>1. t.pc = "rules" /\ OverIn(t.snap.row)
    BY <1>7 DEF GateRules, Stopped
  <2>2. PICK rule : /\ rule \in RuleNames
                    /\ u = [t EXCEPT !.pc = "apply", !.cause = rule]
    BY <1>1, <1>7, <2>1, BudgetFires DEF GateRules
  <2>3. u.pc = "apply" /\ u.cause = rule /\ u.answer = t.answer
    BY <1>1, <2>2 DEF GateThreads
  <2> QED
    BY <1>3, <2>2, <2>3 DEF Stopped
<1>8. CASE GateApply(c)
  <2> DEFINE s == [t EXCEPT !.snap = Read']
  <2>1. /\ t.pc = "apply" /\ t.cause \in RuleNames /\ RiskOf(t.tool) = "high"
        /\ t.snap.row.state \in DOMAIN Escalations
    BY <1>1, <1>8 DEF GateApply, Stopped, GateFits
  <2>2. RuleTarget(t) \in {"degraded", "frozen"}
    BY <2>1, NextRungType DEF RuleTarget, RuleNames
  <2>3. CASE u = OnConflict(t)
    BY <1>1, <1>2, <1>3, <2>3 DEF OnConflict, Stopped
  <2>4. CASE /\ RecordStateChange(t.snap, RuleTarget(t), t.cause, "system", t.at)
             /\ u = Route(s)
    <3>1. run'.state = RuleTarget(t)
      BY <2>4 DEF RecordStateChange, Typed, TypeOK, RunRows
    <3>2. Read'.row.state = run'.state
      BY DEF Read
    <3>3. /\ s \in GateThreads /\ s.tool = t.tool /\ s.answer = t.answer
          /\ s.snap = Read'
      BY <1>1 DEF GateThreads
    <3> HIDE DEF s
    <3>4. Route(s) = ToRecord(s, "freeze") \/ Route(s) = ToRecord(s, "deny")
      BY <2>1, <2>2, <3>1, <3>2, <3>3 DEF Route
    <3> QED
      BY <1>2, <1>3, <2>4, <3>3, <3>4 DEF Stopped
  <2> QED
    BY <1>1, <1>8, <2>3, <2>4 DEF GateApply
<1>9. CASE GateJudge(c) \/ GateEscalate(c) \/ GateSample(c)
  BY <1>9 DEF GateJudge, GateEscalate, GateSample, Stopped
<1>10. CASE GateRecord(c)
  <2>1. t.want # "allow" /\ t.pc = "record"
    BY <1>10 DEF GateRecord, Stopped
  <2>2. FinalDecision(t.want, t.snap) # "allow"
    BY <2>1 DEF FinalDecision
  <2>3. u = Return(t, "terminated") \/ u = Return(t, FinalDecision(t.want, t.snap))
    BY <1>1, <1>10 DEF GateRecord
  <2>4. \A a : Return(t, a).pc = "done" /\ Return(t, a).answer = a
    BY DEF Return, NewThread
  <2>5. u.pc = "done" /\ u.answer # "allow"
    BY <2>2, <2>3, <2>4
  <2> QED
    BY <2>5 DEF Stopped
<1> QED
  BY <1>4, <1>5, <1>6, <1>7, <1>8, <1>9, <1>10 DEF GateSteps

LEMMA InitBudget == WorkerInit => BInv
<1> SUFFICES ASSUME WorkerInit PROVE BInv
  OBVIOUS
<1>1. worker = [c \in Calls |-> NewGuard] /\ WInv
  BY InitGuards DEF WorkerInit
<1>2. NewGuard.over = FALSE
  BY DEF NewGuard
<1> QED
  BY <1>1, <1>2 DEF BInv, BudgetFits

LEMMA GuardBudget ==
    ASSUME BInv, NEW c \in Calls, UNCHANGED vars,
           \/ GuardCall(c) \/ GateReply(c) \/ ConnectionLost(c) \/ RunTool(c)
           \/ GuardReturns(c)
    PROVE  BudgetFits(worker'[c], gate[c])
<1> DEFINE g == worker[c]
           t == gate[c]
<1>1. /\ g \in Guards /\ GuardFits(g, t, c, events) /\ BudgetFits(g, t)
      /\ Recorded(t, c, events) /\ t \in GateThreads
      /\ \A h : worker' = [worker EXCEPT ![c] = h] => worker'[c] = h
  BY GateThread DEF BInv, WInv, AInv, IInv
<1>2. CASE GuardCall(c)
  <2>1. PICK tool \in Tools, args \in Args :
          worker'[c] =
              [g EXCEPT !.pc = "gate", !.tool = tool, !.args = args, !.over = OverBudget]
    BY <1>1, <1>2 DEF GuardCall
  <2>2. g.pc = "idle" /\ t.pc = "new" /\ ~g.ran
    BY <1>1, <1>2 DEF GuardCall, GuardFits
  <2>3. t.answer = "none"
    BY <1>1, <2>2 DEF Recorded
  <2>4. worker'[c].pc = "gate" /\ worker'[c].ran = g.ran /\ worker'[c].over = OverBudget
    BY <1>1, <2>1 DEF Guards
  <2> QED
    BY <2>2, <2>3, <2>4 DEF BudgetFits, Stopped, OverBudget, OverIn
<1>3. ASSUME NEW d, worker'[c] = Obey(g, d),
             RiskOf(g.tool) = "high" => (g.over => d # "allow")
      PROVE  BudgetFits(worker'[c], t)
  <2> DEFINE h == worker'[c]
  <2>1. /\ h.over = g.over /\ h.tool = g.tool /\ h.ran = g.ran
        /\ d # "allow" => h.pc = "done"
    BY <1>1, <1>3 DEF Obey, Guards
  <2> QED
    BY <1>1, <1>3, <2>1 DEF BudgetFits
<1>4. CASE GateReply(c)
  <2>1. t.pc = "done" /\ t.answer \in Answers \ {"none"}
    BY <1>1, <1>4 DEF GateReply, Recorded, GateThreads
  <2>2. CASE t.answer \in Decisions
    <3>1. worker'[c] = Obey(g, t.answer)
      BY <1>1, <1>4, <2>2 DEF GateReply, Decisions
    <3> QED
      BY <1>1, <1>3, <3>1 DEF BudgetFits, Stopped
  <2>3. CASE t.answer = "terminated"
    <3>1. worker'[c] = [g EXCEPT !.pc = "done"]
      BY <1>1, <1>4, <2>3 DEF GateReply, Decisions
    <3> QED
      BY <1>1, <3>1 DEF Guards, BudgetFits
  <2>4. CASE t.answer \in {"unavailable", "lost"}
    <3>1. worker'[c] = Obey(g, OfflineDecision(g.tool))
      BY <1>1, <1>4, <2>4 DEF GateReply, Decisions
    <3> QED
      BY <1>3, <3>1, OfflineFits
  <2> QED
    BY <2>1, <2>2, <2>3, <2>4 DEF Answers
<1>5. CASE ConnectionLost(c)
  <2>1. worker'[c] = Obey(g, OfflineDecision(g.tool))
    BY <1>1, <1>5 DEF ConnectionLost
  <2> QED
    BY <1>3, <2>1, OfflineFits
<1>6. CASE RunTool(c) \/ GuardReturns(c)
  <2>1. \/ g.pc = "act" /\ worker'[c].over = g.over /\ worker'[c].tool = g.tool
        \/ worker'[c].pc = "done" /\ worker'[c].over = g.over
           /\ worker'[c].tool = g.tool /\ worker'[c].ran = g.ran
    <3>1. CASE RunTool(c)
      <4>1. PICK ok \in BOOLEAN :
              worker'[c] = [g EXCEPT !.pc = "report", !.ran = TRUE, !.ok = ok]
        BY <1>1, <3>1 DEF RunTool
      <4> QED
        BY <1>1, <3>1, <4>1 DEF RunTool, Guards
    <3>2. CASE GuardReturns(c)
      <4>1. worker'[c] = [g EXCEPT !.pc = "done"]
        BY <3>2, <1>1 DEF GuardReturns, BInv, WInv, Guards
      <4> QED
        BY <1>1, <4>1 DEF Guards
    <3> QED
      BY <1>6, <3>1, <3>2
  <2> QED
    BY <1>1, <2>1 DEF BudgetFits
<1> QED
  BY <1>2, <1>4, <1>5, <1>6

LEMMA ServerBudget ==
    ASSUME BInv, Next, OnlyPosted, UNCHANGED worker, NEW c \in Calls
    PROVE  BudgetFits(worker[c], gate[c])'
<1> DEFINE g == worker[c]
           t == gate[c]
           u == gate'[c]
<1>1. /\ Typed /\ Typed' /\ GuardFits(g, t, c, events) /\ BudgetFits(g, t)
      /\ Recorded(t, c, events)
  BY NextAnswers DEF BInv, WInv, AInv, IInv
<1>2. SUFFICES ASSUME g.over PROVE OverIn(run') /\ (RiskOf(g.tool) = "high" => Stopped(u))
  BY <1>1 DEF BudgetFits
<1>3. OverIn(run) /\ OverIn(run')
  BY <1>1, <1>2, BudgetStaysSpent DEF BudgetFits
<1>4. ASSUME RiskOf(g.tool) = "high" PROVE Stopped(u)
  <2>1. Stopped(t) /\ (t.pc # "new" => RiskOf(t.tool) = "high")
    BY <1>1, <1>2, <1>4 DEF BudgetFits, GuardFits
  <2>2. CASE GateRead(c) \/ GateSteps(c)
    BY <1>1, <1>3, <2>1, <2>2, StoppedSteps
  <2>3. CASE u = t
    BY <2>1, <2>3
  <2>4. ASSUME NEW a \in {"unavailable", "lost"}, u = Return(t, a)
        PROVE  Stopped(u)
    <3>1. u.pc = "done" /\ u.answer = a
      BY <2>4 DEF Return, NewThread
    <3> QED
      BY <3>1 DEF Stopped
  <2> QED
    BY <1>1, <2>2, <2>3, <2>4, GateOthers
<1> QED
  BY <1>3, <1>4

LEMMA NextBudget ==
    ASSUME BInv, [WorkerNext]_workerVars
    PROVE  BInv'
<1>1. WInv' /\ DOMAIN worker = Calls
  BY NextGuards DEF BInv, WInv
<1>2. SUFFICES ASSUME NEW c \in Calls PROVE BudgetFits(worker[c], gate[c])'
  BY <1>1 DEF BInv
<1>3. CASE UNCHANGED workerVars
  <2>1. run' = run /\ gate' = gate /\ worker' = worker
    BY <1>3 DEF workerVars, vars
  <2>2. BudgetFits(worker[c], gate[c])
    BY DEF BInv
  <2> QED
    BY <2>1, <2>2 DEF BudgetFits
<1>4. CASE Next /\ OnlyPosted /\ UNCHANGED worker
  BY <1>4, ServerBudget
<1>5. ASSUME NEW d \in Calls, UNCHANGED vars,
             \/ GuardCall(d) \/ GateReply(d) \/ ConnectionLost(d) \/ RunTool(d)
             \/ GuardReturns(d)
      PROVE  BudgetFits(worker[c], gate[c])'
  <2>1. run' = run /\ gate' = gate
    BY <1>5 DEF vars
  <2>2. BudgetFits(worker'[c], gate[c])
    <3>1. CASE c = d
      BY <1>5, <3>1, GuardBudget
    <3>2. CASE c # d
      <4>1. worker'[c] = worker[c]
        BY <1>1, <1>5, <3>2 DEF GuardCall, GateReply, ConnectionLost, RunTool, GuardReturns
      <4> QED
        BY <4>1 DEF BInv
    <3> QED
      BY <3>1, <3>2
  <2> QED
    BY <2>1, <2>2 DEF BudgetFits
<1> QED
  BY <1>3, <1>4, <1>5 DEF WorkerNext, WorkersDone

\* Once the budget is spent, no HIGH tool that is asked for runs: the rule fires
\* on every path of decide, and neither a conflict, a recovery, a release nor a
\* lost connection opens another (gate.py _apply_rules, sdk.py).
THEOREM BudgetIsFinal == WorkerSpec => []BudgetStopsHighCalls
<1>1. WorkerInit => BInv
  BY InitBudget
<1>2. BInv /\ [WorkerNext]_workerVars => BInv'
  BY NextBudget
<1>3. BInv => BudgetStopsHighCalls
  BY DEF BInv, BudgetFits, BudgetStopsHighCalls
<1> QED
  BY <1>1, <1>2, <1>3, PTL DEF WorkerSpec
=============================================================================

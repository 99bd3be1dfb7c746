--------------------------- MODULE Cadence_proofs ---------------------------
(***************************************************************************)
(* The sampling of background judging in ControlPlane, for every cadence   *)
(* and any number of calls.                                                *)
(*                                                                         *)
(* The argument: the log only grows, so the ordinal of a proposal is fixed *)
(* when it is appended; each call appends one proposal and samples it by   *)
(* its own sequence number.                                                *)
(***************************************************************************)
EXTENDS Answers_proofs

\* The steps of decide up to its proposal, and those after it.
Early == {"new", "clock", "history", "propose"}
Late  == {"rules", "apply", "judge", "escalate", "sample", "record"}

\* Row i of the log is the proposal of call c.
Proposal(log, c, i) ==
    i \in DOMAIN log /\ log[i].kind = "proposed" /\ log[i].by = c

LowUpTo(log, n) == {i \in 1 .. n : log[i].kind = "proposed" /\ log[i].tool \in LowTools}

\* The proposals up to row n complete a period of the cadence.
DueAt(log, n) == Cardinality(LowUpTo(log, n)) % JudgeEvery = 0

\* What a thread keeps while its call is decided.
SameCall(t, u) ==
    /\ u.seq = t.seq /\ u.seen = t.seen
    /\ u.tool = t.tool /\ u.args = t.args /\ u.at = t.at

\* The proposal of a call, as its thread remembers it.
Asked(t, c, log) ==
    /\ t.pc \in Early => \A i \in DOMAIN log : ~Proposal(log, c, i)
    /\ t.pc \in Late =>
        /\ Proposal(log, c, t.seq) /\ t.seen < t.seq
        /\ log[t.seq].tool = t.tool /\ log[t.seq].args = t.args
        /\ log[t.seq].at = t.at
        /\ \A i \in DOMAIN log : Proposal(log, c, i) => i = t.seq
    /\ t.pc = "propose" => t.seen \in 0 .. Len(log)
    /\ t.pc \in Early \cup Late /\ t.pc # "new" => t.tool \in Tools /\ t.args \in Args
    /\ t.pc = "judge" => t.tool \notin LowTools

\* Whether it was queued.
Sampled(t, j, c, log) ==
    /\ t.pc \in Early \/ t.pc \in Late \ {"record"} => j.pc = "none"
    /\ j.pc # "none" =>
        \A i \in DOMAIN log : Proposal(log, c, i) => DueAt(log, i)
    /\ (t.pc = "record" /\ t.want = "allow") \/ t.answer = "allow" =>
        \A i \in DOMAIN log :
            Proposal(log, c, i) /\ log[i].tool \in LowTools /\ DueAt(log, i) =>
                j.pc # "none"

\* What the log holds of the calls.
PInv ==
    /\ AInv
    /\ \A i \in DOMAIN events : events[i].kind = "proposed" =>
           events[i].by \in Calls /\ events[i].tool \in Tools /\ events[i].args \in Args
    /\ \A c \in Calls : Asked(gate[c], c, events)

\* The inductive invariant.
CInv ==
    /\ PInv
    /\ \A k \in DOMAIN queue : job[queue[k]].pc # "none"
    /\ \A c \in Calls : Sampled(gate[c], job[c], c, events)

-----------------------------------------------------------------------------
(* What stays of the log.                                                  *)

LogGrows ==
    /\ events' \in Seq(EventRows)
    /\ Len(events') >= Len(events)
    /\ \A i \in 1 .. Len(events) : events'[i] = events[i]

LEMMA LogStepsGrow ==
    ASSUME Typed, LogSteps
    PROVE  LogGrows
<1>1. events \in Seq(EventRows)
  BY DEF Typed, TypeOK
<1>2. \/ events' = events
      \/ \E row \in EventRows : events' = Append(events, row)
  BY DEF LogSteps, NoteOnly, DecisionOf
<1> QED
  BY <1>1, <1>2 DEF LogGrows

LEMMA DueStays ==
    ASSUME Typed, LogGrows, NEW i \in DOMAIN events
    PROVE  DueAt(events', i) = DueAt(events, i)
<1>1. i \in Nat /\ i <= Len(events) /\ Len(events) \in Nat
  BY DEF Typed, TypeOK
<1>2. LowUpTo(events', i) = LowUpTo(events, i)
  BY <1>1 DEF LogGrows, LowUpTo
<1> QED
  BY <1>2 DEF DueAt

\* The proposals of a call are those there were, unless it proposes now.
LEMMA SameProposals ==
    ASSUME Typed, LogSteps, NEW c \in Calls, ~GatePropose(c)
    PROVE  \A i : Proposal(events', c, i) =>
               /\ Proposal(events, c, i)
               /\ events'[i] = events[i]
<1>1. events \in Seq(EventRows)
  BY DEF Typed, TypeOK
<1>2. CASE events' = events
  BY <1>2 DEF Proposal
<1>3. ASSUME NEW row \in EventRows, events' = Append(events, row),
             row.kind = "proposed" => row.by # c
      PROVE  \A i : Proposal(events', c, i) =>
               /\ Proposal(events, c, i)
               /\ events'[i] = events[i]
  BY <1>1, <1>3 DEF Proposal
<1> QED
  BY <1>2, <1>3 DEF LogSteps, NoteOnly, DecisionOf, ProposalOf

LEMMA KeptProposals ==
    ASSUME Typed, LogGrows, NEW c
    PROVE  \A i : Proposal(events, c, i) =>
               /\ i \in DOMAIN events /\ Proposal(events', c, i)
               /\ events'[i] = events[i]
<1>1. events \in Seq(EventRows) /\ DOMAIN events = 1 .. Len(events)
      /\ Len(events) \in Nat
  BY DEF Typed, TypeOK
<1>2. DOMAIN events' = 1 .. Len(events') /\ Len(events') \in Nat
  BY DEF LogGrows
<1> QED
  BY <1>1, <1>2 DEF LogGrows, Proposal

\* A thread that stays where it is, or is ended by a fault, has asked what it
\* had asked, and so has one that goes on to a later step.
LEMMA AskedStays ==
    ASSUME Typed, LogSteps, NEW c \in Calls, ~GatePropose(c),
           NEW t, NEW u, Asked(t, c, events),
           u.pc \in Early => t.pc \in Early,
           u.pc \in Late => t.pc \in Late /\ SameCall(t, u),
           u.pc = "propose" => u.seen \in 0 .. Len(events),
           u.pc \in Early /\ u.pc # "new" => u.tool \in Tools /\ u.args \in Args,
           u.pc = "judge" => u.tool \notin LowTools
    PROVE  Asked(u, c, events')
<1>1. LogGrows
  BY LogStepsGrow
<1>2. u.pc = "propose" => u.seen \in 0 .. Len(events')
  BY <1>1 DEF LogGrows, Typed, TypeOK
<1> QED
  BY <1>1, <1>2, SameProposals, KeptProposals DEF Asked, SameCall, Early, Late

LEMMA SampledStays ==
    ASSUME Typed, LogSteps, NEW c \in Calls, ~GatePropose(c),
           NEW t, NEW u, NEW j, NEW k, Sampled(t, j, c, events),
           u.pc \in Early \/ u.pc \in Late \ {"record"} =>
               t.pc \in Early \/ t.pc \in Late \ {"record"},
           (u.pc = "record" /\ u.want = "allow") \/ u.answer = "allow" =>
               (t.pc = "record" /\ t.want = "allow") \/ t.answer = "allow",
           j.pc = "none" <=> k.pc = "none"
    PROVE  Sampled(u, k, c, events')
<1>1. LogGrows
  BY LogStepsGrow
<1>2. \A i \in DOMAIN events' : Proposal(events', c, i) =>
        /\ i \in DOMAIN events /\ Proposal(events, c, i)
        /\ events'[i] = events[i]
        /\ DueAt(events', i) = DueAt(events, i)
  BY <1>1, SameProposals, DueStays DEF Proposal
<1> QED
  BY <1>2 DEF Sampled

-----------------------------------------------------------------------------
(* What a step of the gate does to its thread.                             *)

\* Neither LOW nor HIGH calls get both: only a HIGH one goes to the judge.
LEMMA RouteAsks ==
    ASSUME NEW t \in GateThreads
    PROVE  LET u == Route(t)
           IN  /\ u.pc \in {"sample", "judge", "record"}
               /\ SameCall(t, u) /\ u.answer = t.answer
               /\ u.pc = "record" => u.want # "allow"
               /\ u.pc = "judge" => u.tool \notin LowTools
<1>1. CASE t.snap.row.state = "frozen"
  BY <1>1 DEF Route, ToRecord, GateThreads, SameCall
<1>2. CASE t.snap.row.state # "frozen" /\ RiskOf(t.tool) = "low"
  BY <1>2 DEF Route, GateThreads, SameCall
<1>3. CASE t.snap.row.state # "frozen" /\ RiskOf(t.tool) # "low"
  <2>1. t.tool \notin LowTools
    BY <1>3 DEF RiskOf, LowTools
  <2> QED
    BY <1>3, <2>1 DEF Route, ToRecord, GateThreads, SameCall
<1> QED
  BY <1>1, <1>2, <1>3

\* One step further, as the thread and its row see it.
Onward(t, u) ==
    \/ /\ t.pc \in Early /\ u.pc \in Early \ {"new"}
       /\ u.pc = "propose" => u.seen = Len(events)
       /\ IF t.pc = "new" THEN u.tool \in Tools /\ u.args \in Args
          ELSE u.tool = t.tool /\ u.args = t.args
    \/ /\ t.pc \in Late \ {"record"}
       /\ u.pc \in Late
       /\ SameCall(t, u)
       /\ u.pc = "judge" => u.tool \notin LowTools
       /\ u.pc = "record" => u.want # "allow" \/ t.pc \in {"sample", "judge"}
    \/ /\ u.pc = "done"
       /\ u.answer = "allow" => t.pc = "record" /\ t.want = "allow"

LEMMA GateGoesOn ==
    ASSUME Typed, Typed', NEW c \in Calls, GateRead(c) \/ GateSteps(c),
           ~GatePropose(c)
    PROVE  Onward(gate[c], gate'[c])
<1> DEFINE t == gate[c]
           u == gate'[c]
<1>1. /\ t \in GateThreads
      /\ \A v : gate' = [gate EXCEPT ![c] = v] => u = v
      /\ Read' \in Snapshots /\ Len(events) \in Nat /\ now \in Nat
  BY GateThread, ReadIsTypedNext DEF Typed, TypeOK
<1>2. \A s \in GateThreads : \A d :
        LET v == ToRecord(s, d)
        IN  v.pc = "record" /\ v.want = d /\ SameCall(s, v)
  BY DEF ToRecord, GateThreads, SameCall
<1>3. \A s, a : Return(s, a).pc = "done" /\ Return(s, a).answer = a
  BY DEF Return, NewThread
<1>4. CASE GateRead(c)
  <2>1. t.pc = "new" /\ \/ \E s : u = Return(s, "terminated")
                        \/ u.pc = "clock" /\ u.tool \in Tools /\ u.args \in Args
    <3>1. PICK tool \in Tools, args \in Args :
            u = IF run.state = "terminated"
                THEN Return([t EXCEPT !.tool = tool, !.args = args, !.snap = Read],
                            "terminated")
                ELSE [[t EXCEPT !.tool = tool, !.args = args, !.snap = Read]
                        EXCEPT !.pc = "clock"]
      BY <1>1, <1>4 DEF GateRead
    <3> QED
      BY <1>1, <1>4, <3>1 DEF GateRead, GateThreads
  <2> QED
    BY <1>3, <2>1 DEF Onward, Early
<1>5. CASE GateClock(c) \/ GateHistory(c)
  <2>1. /\ t.pc \in {"clock", "history"} /\ u.pc \in {"history", "propose"}
        /\ u.pc = "propose" => u.seen = Len(events)
        /\ u.tool = t.tool /\ u.args = t.args
    BY <1>1, <1>5 DEF GateClock, GateHistory, GateThreads, Typed, TypeOK
  <2> QED
    BY <2>1 DEF Onward, Early
<1>6. CASE GateRules(c)
  <2>1. PICK cause : u \in {[t EXCEPT !.pc = "apply", !.cause = cause], Route(t)}
    BY <1>1, <1>6 DEF GateRules
  <2>2. t.pc = "rules"
    BY <1>6 DEF GateRules
  <2>3. CASE u = [t EXCEPT !.pc = "apply", !.cause = cause]
    BY <1>1, <2>2, <2>3 DEF Onward, Late, GateThreads, SameCall
  <2>4. CASE u = Route(t)
    BY <1>1, <2>2, <2>4, RouteAsks DEF Onward, Late
  <2> QED
    BY <2>1, <2>3, <2>4
<1>7. CASE GateApply(c) \/ GateEscalate(c)
  <2> DEFINE s == [t EXCEPT !.snap = Read']
  <2>1. s \in GateThreads /\ SameCall(t, s)
    BY <1>1 DEF GateThreads, SameCall
  <2>2. u \in {ToRecord(t, "deny"), Route(s), ToRecord(s, "deny")}
    <3>1. CASE GateApply(c)
      BY <1>1, <3>1 DEF GateApply, OnConflict
    <3>2. CASE GateEscalate(c)
      BY <1>1, <3>2 DEF GateEscalate, OnConflict
    <3> QED
      BY <1>7, <3>1, <3>2
  <2>3. t.pc \in {"apply", "escalate"}
    BY <1>7 DEF GateApply, GateEscalate
  <2> HIDE DEF s
  <2>4. CASE u \in {ToRecord(t, "deny"), ToRecord(s, "deny")}
    BY <1>1, <1>2, <2>1, <2>3, <2>4 DEF Onward, Late, SameCall
  <2>5. CASE u = Route(s)
    BY <2>1, <2>3, <2>5, RouteAsks DEF Onward, Late, SameCall
  <2> QED
    BY <2>2, <2>4, <2>5
<1>8. CASE GateJudge(c)
  <2>1. PICK d : u = ToRecord(t, d) \/ u = [t EXCEPT !.pc = "escalate"]
    BY <1>1, <1>8 DEF GateJudge
  <2>2. t.pc = "judge"
    BY <1>8 DEF GateJudge
  <2>3. CASE u = ToRecord(t, d)
    BY <1>1, <1>2, <2>2, <2>3 DEF Onward, Late
  <2>4. CASE u = [t EXCEPT !.pc = "escalate"]
    BY <1>1, <2>2, <2>4 DEF Onward, Late, GateThreads, SameCall
  <2> QED
    BY <2>1, <2>3, <2>4
<1>9. CASE GateSample(c)
  <2>1. t.pc = "sample" /\ u = ToRecord(t, "allow")
    BY <1>1, <1>9 DEF GateSample
  <2> QED
    BY <1>1, <1>2, <2>1 DEF Onward, Late
<1>10. CASE GateRecord(c)
  <2>1. t.pc = "record" /\ u \in {Return(t, "terminated"),
                                  Return(t, FinalDecision(t.want, t.snap))}
    BY <1>1, <1>10 DEF GateRecord
  <2>2. FinalDecision(t.want, t.snap) = "allow" => t.want = "allow"
    BY DEF FinalDecision
  <2> QED
    BY <1>3, <2>1, <2>2 DEF Onward
<1> QED
  BY <1>4, <1>5, <1>6, <1>7, <1>8, <1>9, <1>10 DEF GateSteps

-----------------------------------------------------------------------------
(* What a step does to the queue and to a judging.                         *)

\* The executor takes a job that was queued.
LEMMA TakenWasQueued ==
    ASSUME CInv, NEW c \in Calls, TakeJob(c)
    PROVE  /\ job[c].pc # "none"
           /\ \A k \in DOMAIN queue' : \E m \in DOMAIN queue : queue'[k] = queue[m]
<1>1. queue \in Seq(Calls)
  BY DEF CInv, PInv, AInv, IInv, Typed, TypeOK
<1>2. queue # <<>> /\ c = Head(queue) /\ queue' = Tail(queue)
  BY DEF TakeJob
<1>3. 1 \in DOMAIN queue /\ c = queue[1]
  BY <1>1, <1>2
<1>4. \A k \in DOMAIN Tail(queue) :
        k + 1 \in DOMAIN queue /\ Tail(queue)[k] = queue[k + 1]
  BY <1>1, <1>2
<1> QED
  BY <1>2, <1>3, <1>4 DEF CInv

\* What is sampled now.
Queues(c) ==
    /\ GateSample(c)
    /\ JudgeWorkers > 0 /\ CountProposals(gate[c].seq) % JudgeEvery = 0
    /\ queue' = Append(queue, c)

\* No other step starts a judging, and none undoes one.
LEMMA JobGoesOn ==
    ASSUME CInv, [Next]_vars, NEW c \in Calls
    PROVE  \/ job[c].pc = "none" <=> job'[c].pc = "none"
           \/ Queues(c) /\ job'[c].pc # "none"
<1>1. job \in [Calls -> Jobs] /\ job[c] \in Jobs
  BY DEF CInv, PInv, AInv, IInv, Typed, TypeOK
<1>2. ASSUME NEW d \in Calls, GateRead(d) \/ GateSteps(d), ~GateSample(d)
      PROVE  job' = job
  BY <1>2 DEF GateRead, GateSteps, GateClock, GateHistory, GatePropose, GateRules,
              GateApply, GateJudge, GateEscalate, GateRecord
<1>3. ASSUME NEW d \in Calls, GateSample(d)
      PROVE  \/ job'[c] = job[c]
             \/ Queues(c) /\ job'[c].pc # "none"
  BY <1>1, <1>3 DEF GateSample, Queues, Jobs
<1>4. ASSUME NEW d \in Calls, JobSteps(d)
      PROVE  job[c].pc = "none" <=> job'[c].pc = "none"
  <2>1. \A j : Finished(j).pc = "done"
    BY DEF Finished, NoJob
  <2>2. CASE JobRead(d)
    BY <1>1, <2>2, TakenWasQueued DEF JobRead, Jobs
  <2>3. CASE JobClock(d)
    BY <1>1, <2>3 DEF JobClock, Jobs
  <2>4. CASE JobJudge(d)
    BY <1>1, <2>1, <2>4 DEF JobJudge, Jobs
  <2>5. CASE JobEscalate(d)
    BY <1>1, <2>1, <2>5 DEF JobEscalate, Jobs
  <2>6. CASE JobDiscard(d)
    BY <1>1, <2>1, <2>6 DEF JobDiscard, Jobs
  <2> QED
    BY <1>4, <2>2, <2>3, <2>4, <2>5, <2>6 DEF JobSteps
<1>5. CASE Fault
  <2>1. [NoJob EXCEPT !.pc = "lost"].pc = "lost"
    BY DEF NoJob
  <2>2. CASE GateOutage \/ SweepOutage \/ RequestOutage \/ ReportOutage
    BY <2>2 DEF GateOutage, SweepOutage, RequestOutage, ReportOutage
  <2>3. CASE JobOutage
    <3>1. PICK d \in Calls : /\ TakeJob(d) \/ d \in Busy
                             /\ job' = [job EXCEPT ![d] = [NoJob EXCEPT !.pc = "lost"]]
      BY <2>3 DEF JobOutage
    <3>2. job[d].pc # "none"
      BY <3>1, TakenWasQueued DEF Busy
    <3> QED
      BY <1>1, <2>1, <3>1, <3>2
  <2>4. CASE Crash
    BY <2>1, <2>4 DEF Crash, JobActive
  <2> QED
    BY <1>5, <2>2, <2>3, <2>4 DEF Fault, Outage
<1>6. CASE UNCHANGED job
  BY <1>6
<1> QED
  BY <1>2, <1>3, <1>4, <1>5, <1>6, NextCases
     DEF GateNext, ReaperAlone, ApiAlone, Quiescent, vars

LEMMA JobQueued ==
    ASSUME CInv, NEW c \in Calls, Queues(c)
    PROVE  job'[c].pc # "none"
<1>1. job \in [Calls -> Jobs] /\ job[c] \in Jobs
  BY DEF CInv, PInv, AInv, IInv, Typed, TypeOK
<1> QED
  BY <1>1 DEF Queues, GateSample, Jobs

LEMMA QueueGoesOn ==
    ASSUME CInv, [Next]_vars
    PROVE  \A k \in DOMAIN queue' : job'[queue'[k]].pc # "none"
<1>1. queue \in Seq(Calls) /\ \A k \in DOMAIN queue : queue[k] \in Calls
  BY DEF CInv, PInv, AInv, IInv, Typed, TypeOK
<1>2. \A k \in DOMAIN queue : job'[queue[k]].pc # "none"
  BY <1>1, JobGoesOn DEF CInv
<1>3. ASSUME NEW d \in Calls, Queues(d)
      PROVE  \A k \in DOMAIN queue' : job'[queue'[k]].pc # "none"
  <2>1. job'[d].pc # "none"
    BY <1>3, JobQueued
  <2> QED
    BY <1>1, <1>2, <1>3, <2>1 DEF Queues
<1>4. ASSUME NEW d \in Calls, TakeJob(d)
      PROVE  \A k \in DOMAIN queue' : job'[queue'[k]].pc # "none"
  BY <1>2, <1>4, TakenWasQueued
<1>5. CASE queue' = queue \/ queue' = <<>>
  BY <1>2, <1>5
<1>6. ASSUME NEW d \in Calls, GateRead(d) \/ GateSteps(d)
      PROVE  Queues(d) \/ queue' = queue
  BY <1>6 DEF GateRead, GateSteps, GateClock, GateHistory, GatePropose, GateRules,
              GateApply, GateJudge, GateEscalate, GateRecord, GateSample, Queues
<1>7. ASSUME NEW d \in Calls, JobSteps(d)
      PROVE  TakeJob(d) \/ queue' = queue
  BY <1>7 DEF JobSteps, JobRead, JobClock, JobJudge, JobEscalate, JobDiscard
<1>8. CASE Fault
  <2>1. queue' = queue \/ queue' = <<>> \/ \E d \in Calls : TakeJob(d)
    BY <1>8 DEF Fault, Outage, GateOutage, JobOutage, SweepOutage, RequestOutage,
                ReportOutage, Crash
  <2> QED
    BY <1>4, <1>5, <2>1
<1> QED
  BY <1>3, <1>4, <1>5, <1>6, <1>7, <1>8, NextCases
     DEF GateNext, ReaperAlone, ApiAlone, Quiescent, vars

-----------------------------------------------------------------------------
(* The invariant is inductive.                                             *)

LEMMA ProposedRow ==
    ASSUME Typed, NEW c \in Calls, GatePropose(c)
    PROVE  \E row \in EventRows : /\ events' = Append(events, row)
                                  /\ row.kind = "proposed" /\ ProposalOf(row, c)
<1> DEFINE t == gate[c]
           e == Event("proposed", c, "-")
           row == [e EXCEPT !.tool = t.tool, !.args = t.args, !.at = t.at]
<1>1. e \in EventRows
  BY StoreIsTyped, EventType DEF Typed, EventKinds, Says
<1>2. e.kind = "proposed" /\ e.by = c
  BY EventFields
<1>3. events' = Append(events, row)
  BY DEF GatePropose, AppendEvent
<1> HIDE DEF e
<1>4. row \in EventRows /\ row.kind = "proposed" /\ ProposalOf(row, c)
  BY <1>1, <1>2, GateThread DEF EventRows, GateThreads, ProposalOf
<1> QED
  BY <1>3, <1>4

\* The thread that proposes keeps where its row went.
LEMMA ProposingNow ==
    ASSUME PInv, NEW c \in Calls, GatePropose(c)
    PROVE  /\ Asked(gate'[c], c, events')
           /\ gate'[c].pc \in {"record", "rules"}
           /\ gate'[c].pc = "record" => gate'[c].want = "freeze"
<1> DEFINE t == gate[c]
           u == gate'[c]
           s == [t EXCEPT !.seq = Len(events) + 1]
<1>1. /\ t \in GateThreads /\ events \in Seq(EventRows) /\ Len(events) \in Nat
      /\ \A v : gate' = [gate EXCEPT ![c] = v] => u = v
  BY GateThread DEF PInv, AInv, IInv, Typed, TypeOK
<1>2. /\ s \in GateThreads /\ s.seq = Len(events) + 1 /\ s.seen = t.seen
      /\ s.tool = t.tool /\ s.args = t.args /\ s.at = t.at
  BY <1>1 DEF GateThreads
<1>3. u = ToRecord(s, "freeze") \/ u = [s EXCEPT !.pc = "rules"]
  BY <1>1 DEF GatePropose
<1> HIDE DEF s
<1>4. /\ u.pc \in {"record", "rules"} /\ u.seq = Len(events) + 1 /\ u.seen = t.seen
      /\ u.tool = t.tool /\ u.args = t.args /\ u.at = t.at
      /\ u.pc = "record" => u.want = "freeze"
  BY <1>2, <1>3 DEF ToRecord, GateThreads
<1>5. /\ t.pc = "propose" /\ t.seen <= Len(events) /\ t.seen \in Nat
      /\ t.tool \in Tools /\ t.args \in Args
      /\ \A i \in DOMAIN events : ~Proposal(events, c, i)
  BY <1>1 DEF GatePropose, PInv, Asked, Early, GateThreads
<1>6. PICK row \in EventRows : /\ events' = Append(events, row)
                              /\ row.kind = "proposed" /\ ProposalOf(row, c)
  BY ProposedRow DEF PInv, AInv, IInv
<1>7. /\ \A i \in DOMAIN events' : Proposal(events', c, i) => i = Len(events) + 1
      /\ Proposal(events', c, Len(events) + 1)
      /\ events'[Len(events) + 1] = row
  BY <1>1, <1>5, <1>6 DEF Proposal, ProposalOf
<1> QED
  BY <1>1, <1>4, <1>5, <1>6, <1>7 DEF Asked, Early, Late, ProposalOf

LEMMA NextProposals ==
    ASSUME PInv, [Next]_vars
    PROVE  PInv'
<1>1. AInv' /\ LogSteps
  BY NextAnswers DEF PInv
<1>2. Typed /\ Typed'
  BY <1>1 DEF PInv, AInv, IInv
<1>3. ASSUME NEW i \in DOMAIN events', events'[i].kind = "proposed"
      PROVE  /\ events'[i].by \in Calls
             /\ events'[i].tool \in Tools /\ events'[i].args \in Args
  <2>1. events \in Seq(EventRows)
    BY <1>2 DEF Typed, TypeOK
  <2>2. \A c \in Calls : GatePropose(c) => gate[c].tool \in Tools /\ gate[c].args \in Args
    BY DEF PInv, Asked, GatePropose, Early
  <2>3. \/ events' = events
        \/ \E row \in EventRows :
            /\ events' = Append(events, row)
            /\ row.kind = "proposed" =>
                   row.by \in Calls /\ row.tool \in Tools /\ row.args \in Args
    BY <1>1, <2>2 DEF LogSteps, NoteOnly, DecisionOf, ProposalOf
  <2> QED
    BY <1>3, <2>1, <2>3 DEF PInv
<1>4. ASSUME NEW c \in Calls
      PROVE  Asked(gate'[c], c, events')
  <2> DEFINE t == gate[c]
             u == gate'[c]
  <2>1. Asked(t, c, events)
    BY DEF PInv
  <2>2. CASE GatePropose(c)
    BY <2>2, ProposingNow
  <2>3. CASE (GateRead(c) \/ GateSteps(c)) /\ ~GatePropose(c)
    <3>1. Onward(t, u)
      BY <1>2, <2>3, GateGoesOn
    <3>2. Len(events) \in Nat
      BY <1>2 DEF Typed, TypeOK
    <3>3. u.pc = "propose" => u.seen \in 0 .. Len(events)
      BY <3>1, <3>2 DEF Onward, Late
    <3>4. u.pc \in Early /\ u.pc # "new" => u.tool \in Tools /\ u.args \in Args
      BY <2>1, <3>1 DEF Onward, Asked, Early, Late
    <3> QED
      BY <1>1, <1>2, <2>1, <2>3, <3>1, <3>3, <3>4, AskedStays
         DEF Onward, Early, Late
  <2>4. CASE u = t /\ ~GatePropose(c)
    <3>1. /\ t.pc = "judge" => t.tool \notin LowTools
          /\ t.pc = "propose" => t.seen \in 0 .. Len(events)
          /\ t.pc \in Early /\ t.pc # "new" => t.tool \in Tools /\ t.args \in Args
      BY <2>1 DEF Asked
    <3> QED
      BY <1>1, <1>2, <2>1, <2>4, <3>1, AskedStays DEF SameCall
  <2>5. ASSUME NEW a \in {"unavailable", "lost"}, u = Return(t, a), ~GatePropose(c)
        PROVE  Asked(u, c, events')
    <3>1. u.pc = "done"
      BY <2>5 DEF Return, NewThread
    <3> QED
      BY <1>1, <1>2, <2>1, <2>5, <3>1, AskedStays DEF Early, Late
  <2> QED
    BY <1>2, <2>2, <2>3, <2>4, <2>5, GateOthers DEF GateSteps
<1> QED
  BY <1>1, <1>3, <1>4 DEF PInv

\* A LOW call is queued exactly if its proposal is due.
LEMMA SamplingNow ==
    ASSUME CInv, LogSteps, NEW c \in Calls, GateSample(c), JudgeWorkers > 0,
           Asked(gate'[c], c, events')
    PROVE  Sampled(gate'[c], job'[c], c, events')
<1> DEFINE t == gate[c]
           u == gate'[c]
<1>1. /\ t \in GateThreads /\ events \in Seq(EventRows) /\ Len(events) \in Nat
      /\ \A v : gate' = [gate EXCEPT ![c] = v] => u = v
      /\ job \in [Calls -> Jobs] /\ job[c] \in Jobs
  BY GateThread DEF CInv, PInv, AInv, IInv, Typed, TypeOK
<1>2. t.pc = "sample" /\ u = ToRecord(t, "allow") /\ events' = events
  BY <1>1 DEF GateSample
<1>3. u.pc = "record" /\ u.seq = t.seq
  BY <1>1, <1>2 DEF ToRecord, GateThreads
<1>4. \A i \in DOMAIN events' : Proposal(events', c, i) => i = t.seq
  BY <1>3 DEF Asked, Late
<1>5. t.seq \in DOMAIN events
  BY <1>2 DEF CInv, PInv, Asked, Late, Proposal
<1>6. {i \in DOMAIN events : i <= t.seq /\ events[i].kind = "proposed"
                              /\ events[i].tool \in LowTools} = LowUpTo(events, t.seq)
  BY <1>1, <1>5 DEF LowUpTo
<1>7. CountProposals(t.seq) % JudgeEvery = 0 <=> DueAt(events', t.seq)
  BY <1>2, <1>6 DEF CountProposals, DueAt
<1>8. job[c].pc = "none"
  BY <1>2 DEF CInv, Sampled, Late
<1>9. job'[c].pc # "none" <=> DueAt(events', t.seq)
  BY <1>1, <1>7, <1>8 DEF GateSample, Jobs
<1> QED
  BY <1>3, <1>4, <1>9 DEF Sampled, Early

LEMMA NextCadence ==
    ASSUME JudgeWorkers > 0, CInv, [Next]_vars
    PROVE  CInv'
<1>1. AInv' /\ LogSteps
  BY NextAnswers DEF CInv, PInv
<1>2. Typed /\ Typed'
  BY <1>1 DEF CInv, PInv, AInv, IInv
<1>3. PInv'
  BY NextProposals DEF CInv
<1>4. \A k \in DOMAIN queue' : job'[queue'[k]].pc # "none"
  BY QueueGoesOn
<1>5. ASSUME NEW c \in Calls
      PROVE  Sampled(gate'[c], job'[c], c, events')
  <2> DEFINE t == gate[c]
             u == gate'[c]
  <2>1. Asked(t, c, events) /\ Sampled(t, job[c], c, events) /\ Asked(u, c, events')
    BY <1>3 DEF CInv, PInv
  <2>2. \/ job[c].pc = "none" <=> job'[c].pc = "none"
        \/ GateSample(c)
    BY JobGoesOn DEF Queues
  <2>3. u.answer = "allow" => u.pc = "done"
    BY <1>1 DEF AInv, Recorded
  <2>4. CASE GatePropose(c)
    <3>1. job[c].pc = "none" /\ job' = job
      BY <2>1, <2>4 DEF GatePropose, Sampled, Early
    <3>2. u.pc \in {"record", "rules"} /\ (u.pc = "record" => u.want = "freeze")
      BY <2>4, ProposingNow DEF CInv
    <3> QED
      BY <2>3, <3>1, <3>2 DEF Sampled
  <2>5. CASE (GateRead(c) \/ GateSteps(c)) /\ ~GatePropose(c)
    <3>1. Onward(t, u)
      BY <1>2, <2>5, GateGoesOn
    <3>2. Asked(u, c, events')
      BY <2>1
    <3>3. CASE GateSample(c)
      BY <1>1, <3>2, <3>3, SamplingNow
    <3>4. CASE t.pc = "judge"
      <4>1. job[c].pc = "none" /\ t.tool \notin LowTools
        BY <2>1, <3>4 DEF Asked, Sampled, Late
      <4>2. \/ u.pc \in Late /\ u.tool = t.tool
            \/ u.pc = "done" /\ u.answer # "allow"
        BY <3>1, <3>4 DEF Onward, SameCall, Early, Late
      <4>3. job'[c].pc = "none"
        BY <2>2, <3>4, <4>1 DEF GateSample
      <4> HIDE DEF t, u
      <4>4. ASSUME u.pc \in Late, NEW i \in DOMAIN events', Proposal(events', c, i)
            PROVE  events'[i].tool \notin LowTools
        <5>1. i = u.seq /\ events'[u.seq].tool = u.tool
          BY <3>2, <4>4 DEF Asked
        <5>2. u.tool = t.tool
          BY <4>2, <4>4 DEF Late
        <5> QED
          BY <4>1, <5>1, <5>2
      <4>5. Sampled(u, job'[c], c, events')
        BY <2>3, <4>2, <4>3, <4>4 DEF Sampled, Late
      <4> QED
        BY <3>2, <4>5 DEF u
    <3>5. CASE ~GateSample(c) /\ t.pc # "judge"
      <4>1. t.pc # "sample"
        BY <2>5, <3>5 DEF GateRead, GateSteps, GateClock, GateHistory, GateRules,
                          GateApply, GateJudge, GateEscalate, GateRecord
      <4>2. u.pc \in Early \/ u.pc \in Late \ {"record"} =>
              t.pc \in Early \/ t.pc \in Late \ {"record"}
        BY <3>1 DEF Onward, Early, Late
      <4>3. (u.pc = "record" /\ u.want = "allow") \/ u.answer = "allow" =>
              (t.pc = "record" /\ t.want = "allow") \/ t.answer = "allow"
        BY <2>3, <3>1, <3>5, <4>1 DEF Onward, Early, Late
      <4>4. job[c].pc = "none" <=> job'[c].pc = "none"
        BY <2>2, <3>5
      <4> HIDE DEF t, u
      <4>5. Sampled(u, job'[c], c, events')
        BY <1>1, <1>2, <2>1, <2>5, <4>2, <4>3, <4>4, SampledStays
      <4> QED
        BY <3>2, <4>5 DEF t, u
    <3> QED
      BY <3>2, <3>3, <3>4, <3>5
  <2>6. CASE u = t /\ ~GatePropose(c) /\ ~GateSample(c)
    BY <1>1, <1>2, <2>1, <2>2, <2>6, SampledStays
  <2>7. ASSUME NEW a \in {"unavailable", "lost"}, u = Return(t, a),
               ~GatePropose(c), ~GateSample(c)
        PROVE  Sampled(u, job'[c], c, events')
    <3>1. u.pc = "done" /\ u.answer = a
      BY <2>7 DEF Return, NewThread
    <3> QED
      BY <1>1, <1>2, <2>1, <2>2, <2>7, <3>1, SampledStays DEF Early, Late
  <2> QED
    BY <1>2, <2>4, <2>5, <2>6, <2>7, GateOthers DEF GateSteps
<1> QED
  BY <1>3, <1>4, <1>5 DEF CInv

LEMMA InitProposals == Init => PInv
<1> SUFFICES ASSUME Init PROVE PInv
  OBVIOUS
<1>1. events = <<>> /\ \A c \in Calls : gate[c] = NewThread
  BY DEF Init, StoreInit, GateInit
<1>2. NewThread.pc = "new"
  BY DEF NewThread
<1>3. \A c \in Calls : Asked(gate[c], c, events)
  BY <1>1, <1>2 DEF Asked, Late
<1> QED
  BY <1>1, <1>3, InitAnswers DEF PInv

LEMMA InitCadence == Init => CInv
<1> SUFFICES ASSUME Init PROVE CInv
  OBVIOUS
<1>1. events = <<>> /\ queue = <<>>
  BY DEF Init, StoreInit, GateInit
<1>2. \A c \in Calls : gate[c] = NewThread /\ job[c] = NoJob
  BY DEF Init, GateInit
<1>3. NewThread.pc = "new" /\ NewThread.answer = "none" /\ NoJob.pc = "none"
  BY DEF NewThread, NoJob
<1>4. \A c \in Calls : Sampled(gate[c], job[c], c, events)
  BY <1>1, <1>2, <1>3 DEF Sampled, Late
<1> QED
  BY <1>1, <1>4, InitProposals DEF CInv

\* With an executor, every JudgeEvery-th LOW proposal in log order whose call is
\* allowed is queued for judging and no other LOW proposal is, for every cadence and
\* however many calls count while others append (_maybe_judge_in_background,
\* count_proposals).
THEOREM CadenceIsExact ==
    ASSUME JudgeWorkers > 0
    PROVE  Spec => []CadenceExact
<1>1. CInv => CadenceExact
  <2> SUFFICES ASSUME CInv, NEW i \in DOMAIN events,
                      events[i].kind = "proposed", events[i].tool \in LowTools
               PROVE  LET c == events[i].by
                      IN  /\ job[c].pc # "none" => DueAt(events, i)
                          /\ gate[c].answer = "allow" =>
                                 (DueAt(events, i) => job[c].pc # "none")
    BY DEF CadenceExact, DueAt, LowUpTo
  <2>1. events[i].by \in Calls /\ Proposal(events, events[i].by, i)
    BY DEF CInv, PInv, Proposal
  <2> QED
    BY <2>1 DEF CInv, Sampled
<1>2. Init => CInv
  BY InitCadence
<1>3. CInv /\ [Next]_vars => CInv'
  BY NextCadence
<1> QED
  BY <1>1, <1>2, <1>3, PTL DEF Spec
=============================================================================

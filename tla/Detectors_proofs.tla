-------------------------- MODULE Detectors_proofs --------------------------
(***************************************************************************)
(* What the detectors conclude, against the whole log, for every value of  *)
(* the constants.                                                          *)
(*                                                                         *)
(* The counters: every replay of the log arrives at those of the run, a    *)
(* fact each step carries one row further.  The loop rule: the rows it     *)
(* compares stand for different proposals of the log.  One worker: between *)
(* two decisions, or two outcomes, the log has a proposal, so unless the   *)
(* judges write more a history that is cut holds a call for every four     *)
(* rows, as many as any threshold asks for.                                *)
(***************************************************************************)
EXTENDS Detectors, Cadence_proofs, FiniteSetTheorems

-----------------------------------------------------------------------------
(* The counters and the log.                                               *)

\* upTo is the replay of the log, row by row.
IsReplay(upTo, log) ==
    upTo = [n \in 0 .. Len(log) |->
                IF n = 0 THEN Counters(NewRun) ELSE Counted(upTo[n - 1], log[n])]

\* There is a replay, and every one arrives at the counters of the run.
ReplayFits ==
    /\ \E upTo : IsReplay(upTo, events)
    /\ \A upTo : IsReplay(upTo, events) => upTo[Len(events)] = Counters(run)

CountersHold ==
    \A f \in {"tokens", "cost", "calls", "errors"} : run[f] <= MaxCounter

\* The inductive invariant of the counters.
LInv == AInv /\ ReplayFits /\ CountersHold

LEMMA ReplayedIs ==
    ASSUME NEW log, \E upTo : IsReplay(upTo, log)
    PROVE  \E upTo : IsReplay(upTo, log) /\ Replayed(log) = upTo[Len(log)]
<1> DEFINE f == CHOOSE upTo : IsReplay(upTo, log)
<1>1. IsReplay(f, log)
  OBVIOUS
<1>2. Replayed(log) = f[Len(log)]
  BY DEF Replayed, IsReplay
<1> QED
  BY <1>1, <1>2

\* A row more is a step of the replay more.
LEMMA ReplayGrows ==
    ASSUME NEW log \in Seq(EventRows), NEW e \in EventRows, NEW sum,
           \E upTo : IsReplay(upTo, log),
           \A upTo : IsReplay(upTo, log) => upTo[Len(log)] = sum
    PROVE  /\ \E upTo : IsReplay(upTo, Append(log, e))
           /\ \A upTo : IsReplay(upTo, Append(log, e)) =>
                  upTo[Len(Append(log, e))] = Counted(sum, e)
<1> DEFINE new == Append(log, e)
<1>0. PICK n : n = Len(log)
  OBVIOUS
<1>1. /\ n \in Nat /\ Len(new) = n + 1 /\ new[n + 1] = e
      /\ \A i \in 1 .. n : new[i] = log[i]
  BY <1>0
<1>2. PICK old : IsReplay(old, log)
  OBVIOUS
<1>3. /\ DOMAIN old = 0 .. n /\ old[n] = sum
      /\ \A i \in 0 .. n : old[i] = IF i = 0 THEN Counters(NewRun)
                                    ELSE Counted(old[i - 1], log[i])
  BY <1>0, <1>1, <1>2 DEF IsReplay
<1>4. \E upTo : IsReplay(upTo, new)
  <2> DEFINE g == [i \in 0 .. n + 1 |-> IF i = n + 1 THEN Counted(old[n], e) ELSE old[i]]
  <2>1. \A i \in 0 .. n + 1 :
            g[i] = IF i = 0 THEN Counters(NewRun) ELSE Counted(g[i - 1], new[i])
    BY <1>1, <1>3
  <2>2. IsReplay(g, new)
    BY <1>1, <2>1 DEF IsReplay
  <2> QED
    BY <2>2
<1>5. ASSUME NEW upTo, IsReplay(upTo, new)
      PROVE  upTo[n + 1] = Counted(sum, e)
  <2> DEFINE g == [i \in 0 .. n |-> upTo[i]]
  <2>1. \A i \in 0 .. n + 1 :
            upTo[i] = IF i = 0 THEN Counters(NewRun) ELSE Counted(upTo[i - 1], new[i])
    BY <1>1, <1>5 DEF IsReplay
  <2>2. \A i \in 0 .. n :
            g[i] = IF i = 0 THEN Counters(NewRun) ELSE Counted(g[i - 1], log[i])
    BY <1>1, <2>1
  <2>3. IsReplay(g, log)
    BY <1>0, <2>2 DEF IsReplay
  <2>4. g[n] = sum
    BY <1>0, <2>3
  <2> QED
    BY <1>1, <2>1, <2>4
<1> QED
  BY <1>1, <1>4, <1>5

-----------------------------------------------------------------------------
(* What a step does to the counters.                                       *)

LEMMA CountersStay ==
    ASSUME Typed, [Next]_vars, \A p \in Reports : ~OutcomeCommit(p)
    PROVE  Counters(run') = Counters(run)
<1>1. run \in RunRows
  BY DEF Typed, TypeOK
<1>2. CASE UNCHANGED run
  BY <1>2
<1>3. ASSUME NEW snap, NEW to, NEW cause, NEW actor, NEW at,
             RecordStateChange(snap, to, cause, actor, at) \/ Conflict
      PROVE  Counters(run') = Counters(run)
  BY <1>1, <1>3 DEF RecordStateChange, Conflict, RunRows, Counters
<1>4. ASSUME NEW c \in Calls, GateRead(c) \/ GateSteps(c) \/ JobSteps(c)
      PROVE  Counters(run') = Counters(run)
  BY <1>2, <1>3, <1>4
     DEF GateRead, GateSteps, GateClock, GateHistory, GatePropose, GateRules,
         GateApply, GateJudge, GateEscalate, GateSample, GateRecord, JobSteps,
         JobRead, JobClock, JobJudge, JobEscalate, JobDiscard
<1>5. ASSUME NEW r \in Reapers, SweepClock(r) \/ SweepSelect(r) \/ SweepCommit(r)
      PROVE  Counters(run') = Counters(run)
  BY <1>2, <1>3, <1>5 DEF SweepClock, SweepSelect, SweepCommit
<1>6. ASSUME NEW q \in Requests, RequestRead(q) \/ RequestSteps(q)
      PROVE  Counters(run') = Counters(run)
  BY <1>2, <1>3, <1>6 DEF RequestRead, RequestSteps, RequestClock, RequestCommit
<1>7. ASSUME NEW p \in Reports, ReportClock(p) \/ HeartbeatCommit(p)
      PROVE  Counters(run') = Counters(run)
  BY <1>1, <1>2, <1>7 DEF ReportClock, HeartbeatCommit, TouchHeartbeat, RunRows, Counters
<1>8. CASE \/ Fault \/ Quiescent \/ UNCHANGED vars
           \/ UNCHANGED <<run, transitions, events, gate, job, queue, sweep,
                          request, report, faults>>
  BY <1>2, <1>8, FaultFrame DEF Faulty, Quiescent, vars
<1> QED
  BY <1>4, <1>5, <1>6, <1>7, <1>8, NextCases
     DEF GateNext, ReaperNext, ApiNext, ReportSteps

\* An outcome that fits adds to the counters what its row says.
LEMMA OutcomeCounts ==
    ASSUME Typed, NEW p \in Reports, OutcomeCommit(p)
    PROVE  \/ UNCHANGED <<run, events>>
           \/ /\ CountersHold'
              /\ \E row \in EventRows :
                     /\ row.kind = "outcome" /\ row.says \in {"ok", "failed"}
                     /\ events' = Append(events, row)
                     /\ Counters(run') = Counted(Counters(run), row)
<1> DEFINE t == report[p]
           says == IF t.ok THEN "ok" ELSE "failed"
           e == Event("outcome", None, says)
           row == [e EXCEPT !.tokens = t.tokens, !.cost = t.cost, !.at = t.at]
<1>1. /\ run \in RunRows /\ StoreTyped
      /\ t.tokens \in Nat /\ t.cost \in Nat /\ t.at \in Nat /\ t.ok \in BOOLEAN
  BY ReportThread, StoreIsTyped DEF Typed, TypeOK, ReportThreads
<1>2. CASE UNCHANGED <<run, events>>
  BY <1>2
<1>3. CASE CountersFit(t.ok, t.tokens, t.cost) /\ RecordOutcome(t.ok, t.tokens, t.cost, t.at)
  <2>1. e \in EventRows /\ e.kind = "outcome" /\ e.says = says
    BY <1>1, EventType, EventFields DEF EventKinds, Says
  <2>2. events' = Append(events, row)
    BY <1>3 DEF RecordOutcome, AppendEvent
  <2>3. NextErrors(t.ok) \in Nat
    BY <1>1 DEF NextErrors, RunRows
  <2>4. /\ run'.tokens = run.tokens + t.tokens /\ run'.cost = run.cost + t.cost
        /\ run'.calls = run.calls + 1 /\ run'.errors = NextErrors(t.ok)
    BY <1>1, <1>3 DEF RecordOutcome, RunRows
  <2>5. CountersHold'
    BY <1>3, <2>4 DEF CountersHold, CountersFit
  <2> HIDE DEF e
  <2>6. /\ row \in EventRows /\ row.kind = "outcome" /\ row.says = says
        /\ row.tokens = t.tokens /\ row.cost = t.cost
    BY <1>1, <2>1 DEF EventRows
  <2>7. Counted(Counters(run), row) = Counters(run')
    BY <1>1, <2>4, <2>6 DEF Counted, Counters, NextErrors
  <2> QED
    BY <2>2, <2>5, <2>6, <2>7
<1> QED
  BY <1>2, <1>3 DEF OutcomeCommit

LEMMA NextReplay ==
    ASSUME LInv, [Next]_vars
    PROVE  LInv'
<1>1. AInv' /\ LogSteps
  BY NextAnswers DEF LInv
<1>2. Typed /\ run \in RunRows /\ run' \in RunRows /\ events \in Seq(EventRows)
  BY <1>1 DEF LInv, AInv, IInv, Typed, TypeOK
<1>3. ASSUME NEW row \in EventRows, events' = Append(events, row),
             Counters(run') = Counted(Counters(run), row)
      PROVE  ReplayFits'
  BY <1>2, <1>3, ReplayGrows DEF LInv, ReplayFits
<1>4. ASSUME Counters(run') = Counters(run)
      PROVE  CountersHold'
  BY <1>2, <1>4 DEF LInv, CountersHold, Counters, RunRows
<1>5. CASE \A p \in Reports : ~OutcomeCommit(p)
  <2>1. Counters(run') = Counters(run)
    BY <1>2, <1>5, CountersStay
  <2>2. \/ events' = events
        \/ \E row \in EventRows : row.kind # "outcome" /\ events' = Append(events, row)
    BY <1>1, <1>5 DEF LogSteps, NoteOnly, DecisionOf
  <2>3. CASE events' = events
    BY <1>1, <1>4, <2>1, <2>3 DEF LInv, ReplayFits
  <2>4. ASSUME NEW row \in EventRows, row.kind # "outcome", events' = Append(events, row)
        PROVE  ReplayFits'
    BY <1>3, <2>1, <2>4 DEF Counted
  <2> QED
    BY <1>1, <1>4, <2>1, <2>2, <2>3, <2>4 DEF LInv
<1>6. ASSUME NEW p \in Reports, OutcomeCommit(p)
      PROVE  LInv'
  <2>1. CASE UNCHANGED <<run, events>>
    BY <1>1, <2>1 DEF LInv, ReplayFits, CountersHold
  <2>2. CASE ~UNCHANGED <<run, events>>
    BY <1>1, <1>2, <1>3, <1>6, <2>2, OutcomeCounts DEF LInv
  <2> QED
    BY <2>1, <2>2
<1> QED
  BY <1>5, <1>6

LEMMA InitReplay == Init => LInv
<1> SUFFICES ASSUME Init PROVE LInv
  OBVIOUS
<1>1. events = <<>> /\ run = NewRun
  BY DEF Init, StoreInit
<1>2. Len(<<>>) = 0 /\ 0 .. 0 = {0}
  OBVIOUS
<1>3. IsReplay([n \in 0 .. 0 |-> Counters(NewRun)], events)
  BY <1>1, <1>2 DEF IsReplay
<1>4. \A upTo : IsReplay(upTo, events) => upTo[0] = Counters(NewRun)
  BY <1>1, <1>2 DEF IsReplay
<1>5. CountersHold
  BY <1>1, StoreAssumption DEF CountersHold, NewRun
<1> QED
  BY <1>1, <1>2, <1>3, <1>4, <1>5, InitAnswers DEF LInv, ReplayFits

\* The counters of a run are its log replayed, and none has passed what SQLite
\* stores, however reports and state changes interleave (record_outcome,
\* record_state_change).
THEOREM CountersAreTheLog == Spec => []CountersMatchLog
<1>1. LInv => CountersMatchLog
  BY ReplayedIs DEF LInv, ReplayFits, CountersHold, CountersMatchLog
<1> QED
  BY <1>1, InitReplay, NextReplay, PTL DEF Spec

-----------------------------------------------------------------------------
(* Counting rows.                                                          *)

LEMMA InjectionBounds ==
    ASSUME NEW S, NEW T, IsFiniteSet(T), NEW f \in [S -> T],
           \A x, y \in S : f[x] = f[y] => x = y
    PROVE  /\ IsFiniteSet(S)
           /\ Cardinality(S) \in Nat /\ Cardinality(T) \in Nat
           /\ Cardinality(S) <= Cardinality(T)
<1>1. f \in Injection(S, T)
  BY DEF Injection, IsInjective
<1>2. IsFiniteSet(S) /\ Cardinality(S) <= Cardinality(T)
  BY <1>1, FS_Injection
<1> QED
  BY <1>2, FS_CardinalityType

LEMMA LogIsFinite ==
    ASSUME Typed, NEW S, S \subseteq DOMAIN events
    PROVE  IsFiniteSet(S) /\ Cardinality(S) \in Nat
<1>1. DOMAIN events = 1 .. Len(events) /\ Len(events) \in Nat
  BY DEF Typed, TypeOK
<1>2. IsFiniteSet(1 .. Len(events))
  BY <1>1, FS_Interval
<1>3. IsFiniteSet(S)
  BY <1>1, <1>2, FS_Subset
<1> QED
  BY <1>3, FS_CardinalityType

\* The limit on the history is four rows for each call the rate allows, and
\* one call more, or a larger one.
LEMMA LimitCovers ==
    /\ HistoryLimit \in Nat
    /\ HistoryLimit >= 4 * (CallRatePerMinute + 1)
<1> DEFINE rows == 4 * (CallRatePerMinute + 1)
           P(n) == n >= LoopWindow /\ n >= JudgeTrajectory /\ n >= rows
<1>1. LoopWindow \in Nat /\ JudgeTrajectory \in Nat /\ rows \in Nat
  BY RulesAssumption, GateAssumption
<1>2. \E n \in {LoopWindow, JudgeTrajectory, rows} : P(n)
  <2> HIDE DEF rows
  <2> QED
    BY <1>1
<1>3. HistoryLimit = CHOOSE n \in {LoopWindow, JudgeTrajectory, rows} : P(n)
  BY DEF HistoryLimit
<1>4. HistoryLimit \in {LoopWindow, JudgeTrajectory, rows} /\ P(HistoryLimit)
  <2> HIDE DEF rows, P
  <2> QED
    BY <1>2, <1>3
<1> QED
  BY <1>1, <1>4

\* What the history leaves out of the first rows of the log.
Omitted(seen) == IF seen > HistoryLimit THEN seen - HistoryLimit ELSE 0

LEMMA HistoryIs ==
    ASSUME Typed, NEW seen \in 0 .. Len(events)
    PROVE  /\ Omitted(seen) \in 0 .. seen
           /\ DOMAIN History(seen) = 1 .. seen - Omitted(seen)
           /\ \A i \in 1 .. seen - Omitted(seen) :
                  History(seen)[i] = events[Omitted(seen) + i]
<1>1. events \in Seq(EventRows) /\ Len(events) \in Nat /\ HistoryLimit \in Nat
  BY LimitCovers DEF Typed, TypeOK
<1> DEFINE s == SubSeq(events, 1, seen)
<1>2. s \in Seq(EventRows) /\ Len(s) = seen /\ \A i \in 1 .. seen : s[i] = events[i]
  BY <1>1
<1>3. History(seen) = LastRows(s, HistoryLimit)
  BY DEF History
<1> HIDE DEF s
<1> DEFINE first == IF seen > HistoryLimit THEN seen - HistoryLimit + 1 ELSE 1
<1>4. History(seen) = SubSeq(s, first, seen)
  BY <1>2, <1>3 DEF LastRows
<1>5. first = Omitted(seen) + 1 /\ Omitted(seen) \in 0 .. seen
  BY <1>1 DEF Omitted
<1> HIDE DEF first
<1>6. /\ Len(History(seen)) = seen - Omitted(seen)
      /\ DOMAIN History(seen) = 1 .. seen - Omitted(seen)
      /\ \A i \in 1 .. seen - Omitted(seen) : History(seen)[i] = s[first + i - 1]
  BY <1>2, <1>4, <1>5
<1>7. \A i \in 1 .. seen - Omitted(seen) :
          first + i - 1 = Omitted(seen) + i /\ Omitted(seen) + i \in 1 .. seen
  BY <1>5
<1> QED
  BY <1>2, <1>5, <1>6, <1>7

-----------------------------------------------------------------------------
(* The loop rule.                                                          *)

\* Where the log has what the rule compares: its own proposal, or a row of
\* the history.
RowOf(t, i) == IF i = 0 THEN t.seq ELSE Omitted(t.seen) + i

\* The rows that the rule compares.
Compared(t) == LastProposals(History(t.seen), LoopWindow) \cup {0}

\* They are proposals, each with its signature, and all different.
LEMMA ComparedRows ==
    ASSUME PInv, NEW c \in Calls, gate[c].pc = "rules"
    PROVE  LET t == gate[c]
           IN  /\ t.seq \in DOMAIN events /\ t.seen \in 0 .. t.seq - 1
               /\ \A i \in Compared(t) :
                    /\ i \in Nat /\ i <= t.seen - Omitted(t.seen)
                    /\ RowOf(t, i) \in 1 .. t.seq
                    /\ RowOf(t, i) \in DOMAIN events
                    /\ events[RowOf(t, i)].kind = "proposed"
                    /\ Signature(Context(t), i)
                         = <<events[RowOf(t, i)].tool, events[RowOf(t, i)].args>>
               /\ \A i, j \in Compared(t) : RowOf(t, i) = RowOf(t, j) => i = j
<1> DEFINE t == gate[c]
           o == Omitted(t.seen)
<1>1. t \in GateThreads /\ Typed /\ DOMAIN events = 1 .. Len(events) /\ Len(events) \in Nat
  BY GateThread DEF PInv, AInv, IInv, Typed, TypeOK
<1>2. /\ Proposal(events, c, t.seq) /\ t.seen < t.seq
      /\ events[t.seq].tool = t.tool /\ events[t.seq].args = t.args
  BY DEF PInv, Asked, Late
<1>3. t.seq \in 1 .. Len(events) /\ t.seen \in Nat /\ t.seq \in Nat
  BY <1>1, <1>2 DEF Proposal, GateThreads
<1>4. t.seen \in 0 .. Len(events) /\ t.seen \in 0 .. t.seq - 1
  BY <1>1, <1>2, <1>3
<1>5. /\ o \in 0 .. t.seen
      /\ DOMAIN History(t.seen) = 1 .. t.seen - o
      /\ \A i \in 1 .. t.seen - o : History(t.seen)[i] = events[o + i]
  BY <1>1, <1>4, HistoryIs
<1>6. /\ Context(t).history = History(t.seen)
      /\ Context(t).tool = t.tool /\ Context(t).args = t.args
  BY DEF Context
<1> HIDE DEF o
<1>7. ASSUME NEW i \in Compared(t)
      PROVE  /\ i \in Nat /\ i <= t.seen - o
             /\ i = 0 \/ o + i \in 1 .. t.seen
             /\ RowOf(t, i) \in 1 .. t.seq
             /\ events[RowOf(t, i)].kind = "proposed"
             /\ Signature(Context(t), i)
                  = <<events[RowOf(t, i)].tool, events[RowOf(t, i)].args>>
  <2>1. CASE i = 0
    BY <1>2, <1>3, <1>4, <1>5, <1>6, <2>1 DEF RowOf, Signature, Proposal
  <2>2. CASE i # 0
    <3>1. i \in 1 .. t.seen - o /\ History(t.seen)[i].kind = "proposed"
      BY <1>5, <2>2 DEF Compared, LastProposals, IsNamed, IsProposal
    <3>2. o + i \in 1 .. t.seen /\ o + i \in 1 .. t.seq
      BY <1>3, <1>4, <1>5, <3>1
    <3>3. events[o + i] = History(t.seen)[i]
      BY <1>5, <3>1
    <3>4. RowOf(t, i) = o + i
      BY <2>2 DEF RowOf, o
    <3>5. Signature(Context(t), i) = <<History(t.seen)[i].tool, History(t.seen)[i].args>>
      BY <1>6, <2>2 DEF Signature
    <3> QED
      BY <3>1, <3>2, <3>3, <3>4, <3>5
  <2> QED
    BY <2>1, <2>2
<1>8. \A i, j \in Compared(t) : RowOf(t, i) = RowOf(t, j) => i = j
  BY <1>3, <1>4, <1>5, <1>7 DEF RowOf, o
<1> QED
  BY <1>1, <1>3, <1>4, <1>7, <1>8 DEF o

\* How often a signature was proposed.
Repeats(tool, args) ==
    {i \in DOMAIN events : events[i].kind = "proposed" /\ events[i].tool = tool
                           /\ events[i].args = args}

Repeated ==
    \E tool \in Tools, args \in Args : Cardinality(Repeats(tool, args)) >= LoopRepeats

LEMMA LoopIsReal ==
    ASSUME PInv, NEW c \in Calls, gate[c].pc = "rules", Loop(Context(gate[c]))
    PROVE  Repeated
<1> DEFINE t == gate[c]
           Same(i) == {j \in Compared(t) : Signature(Context(t), j)
                                             = Signature(Context(t), i)}
<1>1. Compared(t) = LastProposals(Context(t).history, LoopWindow) \cup {0}
  BY DEF Compared, Context
<1>2. PICK i \in Compared(t) : Cardinality(Same(i)) >= LoopRepeats
  BY <1>1 DEF Loop
<1>3. PICK tool, args : tool = events[RowOf(t, i)].tool /\ args = events[RowOf(t, i)].args
  OBVIOUS
<1>4. /\ RowOf(t, i) \in DOMAIN events /\ events[RowOf(t, i)].kind = "proposed"
      /\ Signature(Context(t), i) = <<tool, args>>
  BY <1>3, ComparedRows
<1>5. tool \in Tools /\ args \in Args
  BY <1>3, <1>4 DEF PInv
<1>6. Typed
  BY DEF PInv, AInv, IInv
<1> DEFINE f == [j \in Same(i) |-> RowOf(t, j)]
<1>7. f \in [Same(i) -> Repeats(tool, args)]
  <2>1. ASSUME NEW j \in Same(i)
        PROVE  RowOf(t, j) \in Repeats(tool, args)
    <3>1. /\ RowOf(t, j) \in DOMAIN events /\ events[RowOf(t, j)].kind = "proposed"
          /\ <<events[RowOf(t, j)].tool, events[RowOf(t, j)].args>> = <<tool, args>>
      BY <1>4, ComparedRows
    <3> QED
      BY <3>1 DEF Repeats
  <2> QED
    BY <2>1
<1>8. \A j, k \in Same(i) : f[j] = f[k] => j = k
  BY ComparedRows
<1>9. IsFiniteSet(Repeats(tool, args))
  BY <1>6, LogIsFinite DEF Repeats
<1> HIDE DEF f, Same
<1>10. /\ Cardinality(Same(i)) <= Cardinality(Repeats(tool, args))
       /\ Cardinality(Same(i)) \in Nat /\ Cardinality(Repeats(tool, args)) \in Nat
  BY <1>7, <1>8, <1>9, InjectionBounds
<1>11. Cardinality(Repeats(tool, args)) >= LoopRepeats
  BY <1>2, <1>10, RulesAssumption
<1> QED
  BY <1>5, <1>11 DEF Repeated

LEMMA RepeatedStays ==
    ASSUME Typed, Typed', LogGrows, Repeated
    PROVE  Repeated'
<1>1. PICK tool \in Tools, args \in Args : Cardinality(Repeats(tool, args)) >= LoopRepeats
  BY DEF Repeated
<1>2. /\ DOMAIN events = 1 .. Len(events) /\ Len(events) \in Nat
      /\ DOMAIN events' = 1 .. Len(events') /\ Len(events') \in Nat
  BY DEF Typed, TypeOK
<1>3. Repeats(tool, args) \subseteq Repeats(tool, args)'
  BY <1>2 DEF Repeats, LogGrows
<1>4. IsFiniteSet(Repeats(tool, args)') /\ Repeats(tool, args)' \subseteq DOMAIN events'
  <2>1. IsFiniteSet(1 .. Len(events'))
    BY <1>2, FS_Interval
  <2>2. Repeats(tool, args)' \subseteq 1 .. Len(events')
    BY <1>2 DEF Repeats
  <2> QED
    BY <1>2, <2>1, <2>2, FS_Subset
<1>5. /\ Cardinality(Repeats(tool, args)) <= Cardinality(Repeats(tool, args)')
      /\ Cardinality(Repeats(tool, args)) \in Nat
      /\ Cardinality(Repeats(tool, args)') \in Nat
  BY <1>3, <1>4, FS_Subset, FS_CardinalityType
<1> QED
  BY <1>1, <1>5, RulesAssumption DEF Repeated

\* A thread learns which rule fired from the rules, and keeps it.
LEMMA CauseGoesOn ==
    ASSUME Typed, [Next]_vars, NEW c \in Calls, gate'[c].cause = "loop"
    PROVE  \/ gate[c].cause = "loop"
           \/ gate[c].pc = "rules" /\ Loop(Context(gate[c]))
<1> DEFINE t == gate[c]
           u == gate'[c]
<1>1. /\ t \in GateThreads
      /\ \A v : gate' = [gate EXCEPT ![c] = v] => u = v
  BY GateThread DEF Typed, TypeOK
<1>2. \A s, d : Return(s, d).cause = s.cause
  BY DEF Return, NewThread
<1>3. \A s \in GateThreads : \A d : ToRecord(s, d).cause = s.cause
  BY DEF ToRecord, GateThreads
<1>4. \A s \in GateThreads : Route(s).cause = s.cause
  BY <1>3 DEF Route, GateThreads
<1>5. ASSUME Read' \in Snapshots
      PROVE  /\ [t EXCEPT !.snap = Read'] \in GateThreads
             /\ [t EXCEPT !.snap = Read'].cause = t.cause
  BY <1>1, <1>5 DEF GateThreads
<1>6. CASE GateRead(c) \/ GateClock(c) \/ GateHistory(c) \/ GatePropose(c)
  <2>1. CASE GateRead(c)
    <3>1. PICK tool \in Tools, args \in Args :
            u = IF run.state = "terminated"
                THEN Return([t EXCEPT !.tool = tool, !.args = args, !.snap = Read],
                            "terminated")
                ELSE [[t EXCEPT !.tool = tool, !.args = args, !.snap = Read]
                        EXCEPT !.pc = "clock"]
      BY <1>1, <2>1 DEF GateRead
    <3> DEFINE s == [t EXCEPT !.tool = tool, !.args = args, !.snap = Read]
    <3>2. Read \in Snapshots
      BY StoreIsTyped, ReadType DEF Typed
    <3>3. s \in GateThreads /\ s.cause = t.cause
      BY <1>1, <3>2 DEF GateThreads
    <3>4. u = Return(s, "terminated") \/ u = [s EXCEPT !.pc = "clock"]
      BY <3>1
    <3> HIDE DEF s
    <3> QED
      BY <1>2, <3>3, <3>4 DEF GateThreads
  <2>2. CASE GateClock(c) \/ GateHistory(c)
    BY <1>1, <2>2 DEF GateClock, GateHistory, GateThreads, Typed, TypeOK
  <2>3. CASE GatePropose(c)
    <3> DEFINE s == [t EXCEPT !.seq = Len(events) + 1]
    <3>0. Len(events) + 1 \in Nat
      BY DEF Typed, TypeOK
    <3>1. s \in GateThreads /\ s.cause = t.cause
      BY <1>1, <3>0 DEF GateThreads
    <3>2. u = ToRecord(s, "freeze") \/ u = [s EXCEPT !.pc = "rules"]
      BY <1>1, <2>3 DEF GatePropose
    <3> HIDE DEF s
    <3> QED
      BY <1>3, <3>1, <3>2 DEF GateThreads
  <2> QED
    BY <1>6, <2>1, <2>2, <2>3
<1>7. CASE GateRules(c)
  <2>1. PICK rule \in RuleNames \cup {None} :
          /\ IsFirstFiring(rule, Context(t))
          /\ u = IF rule # None THEN [t EXCEPT !.pc = "apply", !.cause = rule]
                 ELSE IF RecoveryDue(t)
                 THEN [t EXCEPT !.pc = "apply", !.cause = "clean_interval"]
                 ELSE Route(t)
    BY <1>1, <1>7 DEF GateRules
  <2>2. t.pc = "rules"
    BY <1>7 DEF GateRules
  <2>3. CASE rule # None
    <3>1. u.cause = rule
      BY <1>1, <2>1, <2>3 DEF GateThreads
    <3>2. Fires("loop", Context(t))
      BY <2>1, <2>3, <3>1 DEF IsFirstFiring
    <3>3. Loop(Context(t))
      BY <3>2 DEF Fires
    <3> QED
      BY <2>2, <3>3
  <2>4. CASE rule = None
    BY <1>1, <1>4, <2>1, <2>4 DEF GateThreads
  <2> QED
    BY <2>3, <2>4
<1>8. CASE GateApply(c) \/ GateEscalate(c)
  <2> DEFINE s == [t EXCEPT !.snap = Read']
  <2>1. Read' \in Snapshots
    BY ReadIsTypedNext, NextTyped DEF Typed
  <2>2. s \in GateThreads /\ s.cause = t.cause
    BY <1>5, <2>1
  <2>3. u \in {ToRecord(t, "deny"), Route(s), ToRecord(s, "deny")}
    <3>1. CASE GateApply(c)
      BY <1>1, <3>1 DEF GateApply, OnConflict
    <3>2. CASE GateEscalate(c)
      BY <1>1, <3>2 DEF GateEscalate, OnConflict
    <3> QED
      BY <1>8, <3>1, <3>2
  <2> HIDE DEF s
  <2> QED
    BY <1>1, <1>3, <1>4, <2>2, <2>3
<1>9. CASE GateJudge(c) \/ GateSample(c) \/ GateRecord(c)
  <2>1. \/ \E d : u = ToRecord(t, d) \/ u = Return(t, d)
        \/ u = [t EXCEPT !.pc = "escalate"]
    BY <1>1, <1>9 DEF GateJudge, GateSample, GateRecord
  <2>2. [t EXCEPT !.pc = "escalate"].cause = t.cause
    BY <1>1 DEF GateThreads
  <2>3. ASSUME NEW d, u = ToRecord(t, d) \/ u = Return(t, d)
        PROVE  u.cause = t.cause
    BY <1>1, <1>2, <1>3, <2>3
  <2> QED
    BY <2>1, <2>2, <2>3
<1>10. CASE u = t
  BY <1>10
<1>11. ASSUME NEW a, u = Return(t, a)
       PROVE  u.cause = t.cause
  BY <1>2, <1>11
<1> QED
  BY <1>6, <1>7, <1>8, <1>9, <1>10, <1>11, GateOthers DEF GateSteps

LoopInv == PInv /\ LoopFiringsAreReal

\* When the loop rule fires, the log holds that many proposals of one tool with
\* the same arguments: the window, read before the call's own row was appended,
\* never counts it twice, whatever other calls append meanwhile (decide, loop).
THEOREM LoopsAreReal == Spec => []LoopFiringsAreReal
<1>1. LoopFiringsAreReal <=> \A c \in Calls : gate[c].cause = "loop" => Repeated
  BY DEF LoopFiringsAreReal, Repeated, Repeats
<1>2. Init => LoopInv
  <2>1. NewThread.cause = None
    BY DEF NewThread
  <2>2. None # "loop"
    BY CauseAssumption DEF Causes, RuleNames
  <2>3. Init => \A c \in Calls : gate[c].cause # "loop"
    BY <2>1, <2>2 DEF Init, GateInit
  <2> QED
    BY <1>1, <2>3, InitProposals DEF LoopInv
<1>3. LoopInv /\ [Next]_vars => LoopInv'
  <2> SUFFICES ASSUME LoopInv, [Next]_vars
               PROVE  LoopInv'
    OBVIOUS
  <2>1. PInv' /\ LogSteps
    BY NextProposals, NextAnswers DEF LoopInv, PInv
  <2>2. Typed /\ Typed' /\ LogGrows
    BY <2>1, LogStepsGrow DEF LoopInv, PInv, AInv, IInv
  <2>3. ASSUME NEW c \in Calls, gate'[c].cause = "loop"
        PROVE  Repeated'
    <3>1. Repeated
      BY <1>1, <2>2, <2>3, CauseGoesOn, LoopIsReal DEF LoopInv
    <3> QED
      BY <2>2, <3>1, RepeatedStays
  <2>4. LoopFiringsAreReal'
    BY <2>3 DEF LoopFiringsAreReal, Repeated, Repeats
  <2> QED
    BY <2>1, <2>4 DEF LoopInv
<1> QED
  BY <1>2, <1>3, PTL DEF Spec, LoopInv

-----------------------------------------------------------------------------
(* One worker: the threads of the server take turns.                       *)

\* The worker waits for one answer at a time.
Alone ==
    /\ \A c, d \in GateActive : c = d
    /\ \A p, q \in ReportActive : p = q
    /\ GateActive = {} \/ ReportActive = {}

\* Row i of the log is a call, and no row of this kind stands behind it.
OpenCall(log, i, kind) ==
    /\ log[i].kind = "proposed"
    /\ \A j \in DOMAIN log : j > i => log[j].kind # kind

\* A decision, or an outcome, stands behind a call that had none before it.
OwnCall(log, i, kind) ==
    \E p \in 1 .. i - 1 :
        /\ log[p].kind = "proposed"
        /\ \A j \in p + 1 .. i - 1 : log[j].kind # kind

OncePerCall ==
    \A i \in DOMAIN events : \A kind \in {"decision", "outcome"} :
        events[i].kind = kind => OwnCall(events, i, kind)

\* Proposals are dated in the order they are in.
NoLater(log, at) ==
    \A i \in DOMAIN log : log[i].kind = "proposed" => log[i].at <= at

LogDated ==
    /\ NoLater(events, now)
    /\ \A i, j \in DOMAIN events :
        /\ i <= j /\ events[i].kind = "proposed" /\ events[j].kind = "proposed"
        => events[i].at <= events[j].at

NoCalls(log, first, last) == \A i \in first .. last : log[i].kind # "proposed"

\* Where a thread is in the log, and what it knows of the run: no call is asked
\* for behind its back, and it is decided once.
InTurn(t) ==
    /\ t.pc = "propose" => t.seen <= Len(events) /\ NoCalls(events, t.seen + 1, Len(events))
    /\ t.pc = "rules" => t.seen <= t.seq - 1 /\ NoCalls(events, t.seen + 1, t.seq - 1)
    /\ t.pc \in {"rules", "apply", "sample", "judge", "escalate", "record"} =>
           t.seq \in DOMAIN events /\ OpenCall(events, t.seq, "decision")
    /\ t.pc \in {"clock", "history", "propose", "rules"} =>
           Counters(t.snap.row) = Counters(run)
    /\ t.pc \in {"history", "propose"} => t.at <= now /\ NoLater(events, t.at)

\* The failures since the last success, or since the start.
Streak == {i \in Outcomes : \A j \in Outcomes : j >= i => events[j].says = "failed"}

StreakFits == run.errors = Cardinality(Streak)

\* A report is about a call that has no outcome yet.
ReportsFollow ==
    \A p \in Reports : report[p].pc = "commit" /\ report[p].kind = "outcome" =>
        \E i \in DOMAIN events : OpenCall(events, i, "outcome")

\* The inductive invariant of one worker.
TurnInv ==
    /\ PInv /\ LInv
    /\ StreakFits
    /\ Alone
    /\ OncePerCall
    /\ LogDated
    /\ \A c \in Calls : InTurn(gate[c])
    /\ ReportsFollow

-----------------------------------------------------------------------------
(* Counting the rows of a log.                                             *)

LEMMA SameCount ==
    ASSUME NEW S, NEW T, IsFiniteSet(T), NEW f \in [S -> T],
           \A x, y \in S : f[x] = f[y] => x = y,
           \A y \in T : \E x \in S : f[x] = y
    PROVE  IsFiniteSet(S) /\ Cardinality(S) = Cardinality(T) /\ Cardinality(S) \in Nat
<1>1. /\ IsFiniteSet(S)
      /\ Cardinality(S) \in Nat /\ Cardinality(T) \in Nat
      /\ Cardinality(S) <= Cardinality(T)
  BY InjectionBounds
<1> DEFINE g == [y \in T |-> CHOOSE x \in S : f[x] = y]
<1>2. \A y \in T : g[y] \in S /\ f[g[y]] = y
  OBVIOUS
<1>3. g \in [T -> S] /\ \A x, y \in T : g[x] = g[y] => x = y
  BY <1>2
<1> HIDE DEF g
<1>4. Cardinality(T) <= Cardinality(S)
  BY <1>1, <1>3, InjectionBounds
<1> QED
  BY <1>1, <1>4

\* Rows S of a history, which begins behind row o and ends with row n, are
\* rows T of the log.
AreRows(S, T, o, n) ==
    /\ S \subseteq 1 .. n - o /\ T \subseteq o + 1 .. n
    /\ \A i \in 1 .. n - o : i \in S <=> o + i \in T

LEMMA SameRows ==
    ASSUME NEW o \in Nat, NEW n \in Nat, NEW S, NEW T, AreRows(S, T, o, n)
    PROVE  /\ IsFiniteSet(T) /\ Cardinality(T) \in Nat
           /\ Cardinality(S) = Cardinality(T)
<1> DEFINE f == [i \in S |-> o + i]
<1>0. /\ S \subseteq 1 .. n - o /\ T \subseteq o + 1 .. n
      /\ \A i \in 1 .. n - o : i \in S <=> o + i \in T
  BY DEF AreRows
<1>1. IsFiniteSet(T) /\ Cardinality(T) \in Nat
  <2>1. IsFiniteSet(o + 1 .. n)
    BY FS_Interval
  <2> QED
    BY <1>0, <2>1, FS_Subset, FS_CardinalityType
<1>2. f \in [S -> T]
  BY <1>0
<1>3. \A x, y \in S : f[x] = f[y] => x = y
  <2> SUFFICES ASSUME NEW x \in S, NEW y \in S, f[x] = f[y] PROVE x = y
    OBVIOUS
  <2>1. x \in Int /\ y \in Int /\ o + x = o + y
    BY <1>0
  <2> QED
    BY <2>1
<1>4. \A y \in T : \E x \in S : f[x] = y
  <2> SUFFICES ASSUME NEW y \in T PROVE \E x \in S : f[x] = y
    OBVIOUS
  <2>1. y - o \in 1 .. n - o /\ o + (y - o) = y
    BY <1>0
  <2> QED
    BY <1>0, <2>1
<1> HIDE DEF f
<1> QED
  BY <1>1, <1>2, <1>3, <1>4, SameCount

\* Sets that are at most one in number.
LEMMA AtMostOne ==
    ASSUME NEW S, IsFiniteSet(S), Cardinality(S) <= 1
    PROVE  \A x, y \in S : x = y
<1> SUFFICES ASSUME NEW x \in S, NEW y \in S, x # y PROVE FALSE
  OBVIOUS
<1> DEFINE P == {x} \cup {y}
<1>1. IsFiniteSet({x}) /\ Cardinality({x}) = 1
  BY FS_Singleton
<1>2. IsFiniteSet(P) /\ Cardinality(P) = 2
  <2>1. y \notin {x}
    OBVIOUS
  <2>2. Cardinality({x} \cup {y}) = Cardinality({x}) + 1 /\ IsFiniteSet({x} \cup {y})
    BY <1>1, <2>1, FS_AddElement, Zenon
  <2> QED
    BY <1>1, <2>2
<1>3. P \in SUBSET S
  OBVIOUS
<1> HIDE DEF P
<1>4. Cardinality(P) <= Cardinality(S) /\ Cardinality(S) \in Nat
  BY <1>3, FS_Subset, FS_CardinalityType
<1> QED
  BY <1>2, <1>4

\* Rows first to last of this kind.
OfKind(kind, first, last) == {i \in first .. last : events[i].kind = kind}

LEMMA KindsAreFinite ==
    ASSUME NEW kind, NEW first \in Int, NEW last \in Int
    PROVE  /\ IsFiniteSet(OfKind(kind, first, last))
           /\ Cardinality(OfKind(kind, first, last)) \in Nat
<1>1. IsFiniteSet(first .. last)
  BY FS_Interval
<1> QED
  BY <1>1, FS_Subset, FS_CardinalityType DEF OfKind

\* Between two decisions, or two outcomes, there is a call: any part of the log
\* holds at most one more of them than calls.
LEMMA OneMore ==
    ASSUME Typed, OncePerCall, NEW kind \in {"decision", "outcome"},
           NEW o \in Nat, NEW n \in Nat, n <= Len(events)
    PROVE  Cardinality(OfKind(kind, o + 1, n))
             <= Cardinality(OfKind("proposed", o + 1, n)) + 1
<1> DEFINE K == OfKind(kind, o + 1, n)
           P == OfKind("proposed", o + 1, n)
           Asks(i, p) == /\ p \in 1 .. i - 1 /\ events[p].kind = "proposed"
                         /\ \A j \in p + 1 .. i - 1 : events[j].kind # kind
           w == [i \in K |-> CHOOSE p \in Nat : Asks(i, p)]
           f == [i \in K |-> IF w[i] > o THEN w[i] ELSE 0]
<1>1. /\ \A i \in K : i \in o + 1 .. n /\ i \in DOMAIN events /\ events[i].kind = kind
      /\ kind # "proposed"
  <2>1. DOMAIN events = 1 .. Len(events) /\ Len(events) \in Nat
    BY DEF Typed, TypeOK
  <2> QED
    BY <2>1 DEF OfKind
<1>2. ASSUME NEW i \in K
      PROVE  w[i] \in Nat /\ Asks(i, w[i])
  <2>1. OwnCall(events, i, kind) /\ i \in Nat
    BY <1>1 DEF OncePerCall
  <2>2. PICK p \in 1 .. i - 1 : Asks(i, p)
    BY <2>1 DEF OwnCall
  <2>3. p \in Nat
    BY <2>1
  <2> HIDE DEF Asks, K
  <2> QED
    BY <2>2, <2>3
<1>3. ASSUME NEW i \in K, NEW j \in K, i < j
      PROVE  w[j] >= i /\ w[i] < i
  <2>1. /\ w[i] \in 1 .. i - 1 /\ w[j] \in 1 .. j - 1
        /\ \A k \in w[j] + 1 .. j - 1 : events[k].kind # kind
    BY <1>2, <1>3
  <2>2. i \in Nat /\ j \in Nat /\ events[i].kind = kind
    BY <1>1, <1>3
  <2> HIDE DEF w, K
  <2> QED
    BY <1>3, <2>1, <2>2
<1>4. f \in [K -> P \cup {0}]
  <2> SUFFICES ASSUME NEW i \in K PROVE f[i] \in P \cup {0}
    OBVIOUS
  <2>1. w[i] \in 1 .. i - 1 /\ events[w[i]].kind = "proposed" /\ i \in o + 1 .. n
    BY <1>1, <1>2
  <2>2. w[i] > o => w[i] \in P
    BY <2>1 DEF OfKind
  <2> HIDE DEF w, K, P
  <2> QED
    BY <2>2
<1>5. ASSUME NEW i \in K, NEW j \in K, i < j
      PROVE  f[i] # f[j]
  <2>1. i \in Nat /\ i > o
    BY <1>1
  <2> HIDE DEF w, K, Asks
  <2>2. w[j] >= i /\ w[i] < i /\ w[i] \in Nat /\ w[j] \in Nat
    BY <1>2, <1>3, <1>5
  <2>3. w[j] > o /\ w[i] # w[j] /\ w[j] # 0
    BY <2>1, <2>2
  <2> QED
    BY <2>3
<1>6. \A x, y \in K : f[x] = f[y] => x = y
  <2> SUFFICES ASSUME NEW x \in K, NEW y \in K, x # y PROVE f[x] # f[y]
    OBVIOUS
  <2>1. x < y \/ y < x
    BY <1>1
  <2> HIDE DEF f, K
  <2> QED
    BY <1>5, <2>1
<1>7. /\ IsFiniteSet(P \cup {0}) /\ Cardinality(P \cup {0}) = Cardinality(P) + 1
  <2>1. 0 \notin P
    BY DEF OfKind
  <2>2. IsFiniteSet(P)
    BY KindsAreFinite
  <2> HIDE DEF P
  <2> QED
    BY <2>1, <2>2, FS_AddElement
<1> HIDE DEF f, K, P
<1> QED
  BY <1>4, <1>6, <1>7, InjectionBounds DEF K, P

LEMMA UnionBounds ==
    ASSUME NEW S, NEW T, IsFiniteSet(S), IsFiniteSet(T)
    PROVE  /\ IsFiniteSet(S \cup T)
           /\ Cardinality(S \cup T) <= Cardinality(S) + Cardinality(T)
           /\ Cardinality(S) \in Nat /\ Cardinality(T) \in Nat
           /\ Cardinality(S \cup T) \in Nat
<1>1. /\ IsFiniteSet(S \cup T)
      /\ Cardinality(S \cup T) = Cardinality(S) + Cardinality(T) - Cardinality(S \cap T)
  BY FS_Union
<1>2. IsFiniteSet(S \cap T)
  BY FS_Subset
<1>3. /\ Cardinality(S) \in Nat /\ Cardinality(T) \in Nat
      /\ Cardinality(S \cap T) \in Nat /\ Cardinality(S \cup T) \in Nat
  BY <1>1, <1>2, FS_CardinalityType
<1> QED
  BY <1>1, <1>3

\* Hence m times four rows hold m calls, if the judges wrote no more.
LEMMA EnoughProposals ==
    ASSUME Typed, OncePerCall, NEW o \in Nat, NEW m \in Nat, NEW n \in Nat,
           o + 4 * m <= n, n <= Len(events),
           Cardinality({i \in o + 1 .. n : IsVerdict(events[i])})
             <= Cardinality(OfKind("proposed", o + 1, n)) + 1
    PROVE  Cardinality(OfKind("proposed", o + 1, n)) >= m
<1> DEFINE All == o + 1 .. n
           P == OfKind("proposed", o + 1, n)
           D == OfKind("decision", o + 1, n)
           O == OfKind("outcome", o + 1, n)
           V == {i \in o + 1 .. n : IsVerdict(events[i])}
<1>1. All = (P \cup D) \cup (O \cup V)
  <2>1. \A row \in EventRows : row.kind \in EventKinds
    BY DEF EventRows
  <2>2. \A i \in All : events[i].kind \in EventKinds
    BY <2>1 DEF Typed, TypeOK
  <2> QED
    BY <2>2 DEF OfKind, IsVerdict, EventKinds
<1>2. IsFiniteSet(P) /\ IsFiniteSet(D) /\ IsFiniteSet(O) /\ IsFiniteSet(V)
  <2>1. IsFiniteSet(All)
    BY FS_Interval
  <2> QED
    BY <2>1, KindsAreFinite, FS_Subset
<1>3. Cardinality(All) = n - o
  <2>1. Cardinality(o + 1 .. n) = IF o + 1 > n THEN 0 ELSE n - (o + 1) + 1
    BY FS_Interval
  <2> QED
    BY <2>1
<1>4. Cardinality(D) <= Cardinality(P) + 1 /\ Cardinality(O) <= Cardinality(P) + 1
  BY OneMore
<1>5. Cardinality(V) <= Cardinality(P) + 1
  OBVIOUS
<1> HIDE DEF All, P, D, O, V
<1>6. /\ IsFiniteSet(P \cup D) /\ IsFiniteSet(O \cup V)
      /\ Cardinality(P \cup D) <= Cardinality(P) + Cardinality(D)
      /\ Cardinality(O \cup V) <= Cardinality(O) + Cardinality(V)
      /\ Cardinality(P) \in Nat /\ Cardinality(D) \in Nat
      /\ Cardinality(O) \in Nat /\ Cardinality(V) \in Nat
  BY <1>2, UnionBounds
<1>7. /\ Cardinality(P \cup D) \in Nat /\ Cardinality(O \cup V) \in Nat
      /\ Cardinality((P \cup D) \cup (O \cup V))
           <= Cardinality(P \cup D) + Cardinality(O \cup V)
  BY <1>6, UnionBounds
<1>8. n - o <= Cardinality(P \cup D) + Cardinality(O \cup V)
  BY <1>1, <1>3, <1>7
<1>9. n - o <= Cardinality(P) + Cardinality(D) + Cardinality(O) + Cardinality(V)
  BY <1>6, <1>7, <1>8
<1>10. 4 * m <= 4 * Cardinality(P) + 3
  BY <1>4, <1>5, <1>6, <1>9
<1>11. Cardinality(P) >= m
  BY <1>6, <1>10
<1> QED
  BY <1>11 DEF P

-----------------------------------------------------------------------------
(* What a call in turn sees when it consults its rules.                    *)

\* No call was asked for between its history and its own row, the history is
\* the rows before, up to the limit, and its snapshot has the counters.
View(t) ==
    LET o == Omitted(t.seen)
    IN  /\ Typed /\ OncePerCall /\ LogDated
        /\ DOMAIN events = 1 .. Len(events) /\ Len(events) \in Nat
        /\ t.seen \in Nat /\ t.seq \in Nat /\ t.seen < t.seq /\ t.seq <= Len(events)
        /\ NoCalls(events, t.seen + 1, t.seq - 1)
        /\ o \in 0 .. t.seen
        /\ o = 0 \/ t.seen - o = HistoryLimit
        /\ DOMAIN History(t.seen) = 1 .. t.seen - o
        /\ \A i \in 1 .. t.seen - o : History(t.seen)[i] = events[o + i]
        /\ events[t.seq].kind = "proposed"
        /\ Counters(t.snap.row) = Counters(run)

LEMMA AtTheRules ==
    ASSUME TurnInv, NEW c \in Calls, gate[c].pc = "rules"
    PROVE  View(gate[c])
<1> DEFINE t == gate[c]
<1>1. Typed /\ t \in GateThreads /\ InTurn(t) /\ OncePerCall /\ LogDated
  BY GateThread DEF TurnInv, PInv, AInv, IInv
<1>2. /\ DOMAIN events = 1 .. Len(events) /\ Len(events) \in Nat
      /\ t.seen \in Nat /\ t.seq \in Nat
  BY <1>1 DEF Typed, TypeOK, GateThreads
<1>3. /\ t.seen <= t.seq - 1 /\ t.seq \in DOMAIN events
      /\ NoCalls(events, t.seen + 1, t.seq - 1)
      /\ events[t.seq].kind = "proposed"
      /\ Counters(t.snap.row) = Counters(run)
  BY <1>1 DEF InTurn, OpenCall
<1>4. t.seen \in 0 .. Len(events) /\ t.seen < t.seq /\ t.seq <= Len(events)
  BY <1>2, <1>3
<1>5. /\ Omitted(t.seen) \in 0 .. t.seen
      /\ DOMAIN History(t.seen) = 1 .. t.seen - Omitted(t.seen)
      /\ \A i \in 1 .. t.seen - Omitted(t.seen) :
             History(t.seen)[i] = events[Omitted(t.seen) + i]
  BY <1>1, <1>4, HistoryIs
<1>6. Omitted(t.seen) = 0 \/ t.seen - Omitted(t.seen) = HistoryLimit
  BY <1>2, LimitCovers DEF Omitted
<1> QED
  BY <1>1, <1>2, <1>3, <1>4, <1>5, <1>6 DEF View

\* The calls asked for so far are those before the history was read, and its own.
LEMMA AskedSoFar ==
    ASSUME NEW c \in Calls, View(gate[c])
    PROVE  ProposedBy(c) = OfKind("proposed", 1, gate[c].seen) \cup {gate[c].seq}
<1> DEFINE t == gate[c]
<1>1. /\ t.seen \in Nat /\ t.seq \in Nat /\ t.seen < t.seq
      /\ \A i \in t.seen + 1 .. t.seq - 1 : events[i].kind # "proposed"
      /\ events[t.seq].kind = "proposed"
  BY DEF View, NoCalls
<1>2. \A i \in 1 .. t.seq : i \in 1 .. t.seen \/ i \in t.seen + 1 .. t.seq - 1 \/ i = t.seq
  BY <1>1
<1>3. 1 .. t.seen \subseteq 1 .. t.seq /\ t.seq \in 1 .. t.seq
  BY <1>1
<1> QED
  BY <1>1, <1>2, <1>3 DEF ProposedBy, OfKind

\* A history that is cut holds as many calls as the rate allows, and one more.
LEMMA CutHistoryIsLong ==
    ASSUME NEW c \in Calls, View(gate[c]),
           FewVerdicts(History(gate[c].seen)), Omitted(gate[c].seen) # 0
    PROVE  LET S == OfKind("proposed", Omitted(gate[c].seen) + 1, gate[c].seen)
           IN  /\ IsFiniteSet(S) /\ Cardinality(S) \in Nat
               /\ Cardinality(S) >= CallRatePerMinute + 1
<1> DEFINE n == gate[c].seen
           o == Omitted(gate[c].seen)
           m == CallRatePerMinute + 1
           h == History(gate[c].seen)
           P == OfKind("proposed", o + 1, n)
           V == {i \in o + 1 .. n : IsVerdict(events[i])}
           SeenP == {i \in DOMAIN h : IsProposal(h[i])}
           SeenV == {i \in DOMAIN h : IsVerdict(h[i])}
<1>1. /\ Typed /\ OncePerCall /\ n \in Nat /\ o \in 0 .. n
      /\ n - o = HistoryLimit /\ n <= Len(events)
      /\ DOMAIN h = 1 .. n - o
      /\ \A i \in 1 .. n - o : h[i] = events[o + i]
  BY DEF View
<1>2. m \in Nat /\ HistoryLimit \in Nat /\ HistoryLimit >= 4 * m
  BY LimitCovers, RulesAssumption
<1>3. Cardinality(SeenV) <= Cardinality(SeenP) + 1
  BY DEF FewVerdicts
<1>4. /\ SeenP \subseteq 1 .. n - o /\ SeenV \subseteq 1 .. n - o
      /\ P \subseteq o + 1 .. n /\ V \subseteq o + 1 .. n
  BY <1>1 DEF OfKind
<1>5. \A i \in 1 .. n - o : o + i \in o + 1 .. n
  BY <1>1
<1>6. /\ \A i \in 1 .. n - o : i \in SeenP <=> o + i \in P
      /\ \A i \in 1 .. n - o : i \in SeenV <=> o + i \in V
  BY <1>1, <1>5 DEF OfKind, IsProposal
<1> HIDE DEF m, o, n, h, P, V, SeenP, SeenV
<1>7. o \in Nat /\ n \in Nat /\ o + 4 * m <= n
  BY <1>1, <1>2
<1>8. /\ IsFiniteSet(P) /\ Cardinality(P) \in Nat
      /\ Cardinality(SeenP) = Cardinality(P) /\ Cardinality(SeenV) = Cardinality(V)
  <2>1. AreRows(SeenP, P, o, n) /\ AreRows(SeenV, V, o, n)
    BY <1>4, <1>6 DEF AreRows
  <2> QED
    BY <1>7, <2>1, SameRows
<1>9. Cardinality(V) <= Cardinality(P) + 1
  BY <1>3, <1>8
<1>10. Cardinality(P) >= m
  BY <1>1, <1>2, <1>7, <1>9, EnoughProposals DEF P, V
<1> QED
  BY <1>8, <1>10 DEF P, m, o, n

LEMMA CallRateIsInLog ==
    ASSUME TurnInv, NEW c \in Calls, gate[c].pc = "rules"
    PROVE  /\ CallRate(Context(gate[c])) => CallRateInLog(c)
           /\ FewVerdicts(History(gate[c].seen)) /\ CallRateInLog(c)
                => CallRate(Context(gate[c]))
<1> DEFINE t == gate[c]
           n == t.seen
           o == Omitted(t.seen)
           h == History(t.seen)
           since == t.at - Minute
           R == CallRatePerMinute
           Seen == {i \in DOMAIN h : IsProposal(h[i]) /\ h[i].at >= since}
           All == {i \in ProposedBy(c) : i < t.seq /\ events[i].at >= since}
           Kept == {i \in All : i > o}
           KeptOnes == OfKind("proposed", o + 1, n)
<1>0. View(t)
  BY AtTheRules
<1>1. /\ Typed /\ LogDated /\ DOMAIN events = 1 .. Len(events) /\ Len(events) \in Nat
      /\ n \in Nat /\ t.seq \in Nat /\ n < t.seq /\ t.seq <= Len(events)
      /\ o \in 0 .. n
      /\ DOMAIN h = 1 .. n - o
      /\ \A i \in 1 .. n - o : h[i] = events[o + i]
  BY <1>0 DEF View
<1>2. CallRate(Context(t)) <=> Cardinality(Seen) > R
  BY DEF CallRate, Context
<1>3. CallRateInLog(c) <=> Cardinality(All) > R
  BY DEF CallRateInLog
<1>4. R \in Nat
  BY RulesAssumption
<1>5. All = {i \in 1 .. n : events[i].kind = "proposed" /\ events[i].at >= since}
  BY <1>0, <1>1, AskedSoFar DEF OfKind
<1>6. IsFiniteSet(All) /\ Cardinality(All) \in Nat
  <2>1. All \subseteq DOMAIN events
    BY <1>1, <1>5
  <2> QED
    BY <1>1, <2>1, LogIsFinite
<1>7. /\ Seen \subseteq 1 .. n - o /\ Kept \subseteq o + 1 .. n
      /\ \A i \in 1 .. n - o : i \in Seen <=> o + i \in Kept
  <2>1. Seen \subseteq 1 .. n - o
    BY <1>1
  <2>2. Kept \subseteq o + 1 .. n
    BY <1>1, <1>5
  <2>3. \A i \in 1 .. n - o : o + i \in 1 .. n /\ o + i > o
    BY <1>1
  <2>4. \A i \in 1 .. n - o : i \in Seen <=> o + i \in Kept
    BY <1>1, <1>5, <2>3 DEF IsProposal
  <2> QED
    BY <2>1, <2>2, <2>4
<1> HIDE DEF Seen
<1>8. Cardinality(Seen) = Cardinality(Kept) /\ Cardinality(Kept) \in Nat
  <2>1. o \in Nat /\ n \in Nat
    BY <1>1
  <2> HIDE DEF Kept, o, n
  <2>2. AreRows(Seen, Kept, o, n)
    BY <1>7 DEF AreRows
  <2> QED
    BY <2>1, <2>2, SameRows
<1>9. IsFiniteSet(Kept) /\ Cardinality(Kept) <= Cardinality(All)
  BY <1>6, FS_Subset
<1>10. CallRate(Context(t)) => CallRateInLog(c)
  <2> HIDE DEF All, Kept
  <2> QED
    BY <1>2, <1>3, <1>4, <1>6, <1>8, <1>9
<1>11. ASSUME FewVerdicts(h), Cardinality(All) > R
       PROVE  Cardinality(Seen) > R
  <2>1. CASE Kept = All
    BY <1>8, <1>11, <2>1
  <2>2. CASE Kept # All
    <3>1. PICK k \in All : k <= o
      BY <1>1, <1>5, <2>2
    <3>2. k \in 1 .. n /\ events[k].kind = "proposed" /\ events[k].at >= since
      BY <1>5
    <3>3. o # 0 /\ o \in Nat
      BY <1>1, <3>1, <3>2
    <3>4. Cardinality(KeptOnes) \in Nat /\ Cardinality(KeptOnes) >= R + 1
      BY <1>0, <1>11, <3>3, CutHistoryIsLong
    <3>5. KeptOnes \subseteq Kept
      <4> SUFFICES ASSUME NEW i \in o + 1 .. n, events[i].kind = "proposed"
                   PROVE  i \in 1 .. n /\ i > o /\ events[i].at >= since
        BY <1>5 DEF OfKind
      <4>1. i \in 1 .. n /\ i > o /\ k <= i
        BY <1>1, <3>1, <3>2
      <4>2. k \in DOMAIN events /\ i \in DOMAIN events
        BY <1>1, <3>2, <4>1
      <4>3. events[k].at <= events[i].at
        BY <1>1, <3>2, <4>1, <4>2 DEF LogDated
      <4>4. \A j \in DOMAIN events : events[j].at \in Nat
        <5>1. \A row \in EventRows : row.at \in Nat
          BY DEF EventRows
        <5> QED
          BY <1>1, <5>1 DEF Typed, TypeOK
      <4>5. t.at \in Nat /\ Minute \in Nat
        BY <1>1, GateThread, RulesAssumption DEF GateThreads
      <4>6. events[i].at >= since
        BY <3>2, <4>2, <4>3, <4>4, <4>5
      <4> QED
        BY <4>1, <4>6
    <3> HIDE DEF KeptOnes, Kept, All
    <3>6. Cardinality(KeptOnes) <= Cardinality(Kept)
      BY <1>9, <3>5, FS_Subset
    <3> QED
      BY <1>4, <1>8, <3>4, <3>6
  <2> QED
    BY <2>1, <2>2
<1> QED
  BY <1>2, <1>3, <1>10, <1>11

\* The named calls of the history.
Recent(t) ==
    {i \in 1 .. t.seen - Omitted(t.seen) : IsNamed(events[Omitted(t.seen) + i])}

\* Where the log has a row of the history, the calls after it are those of the
\* history and the call itself.
LEMMA CallsSince ==
    ASSUME NEW c \in Calls, View(gate[c]), NEW i \in Recent(gate[c])
    PROVE  LET t == gate[c]
               later == {j \in Recent(t) : j > i}
           IN  /\ Cardinality(later) \in Nat
               /\ Cardinality({k \in Compares(c) : k > Omitted(t.seen) + i})
                    = Cardinality(later) + 1
<1> DEFINE t == gate[c]
           n == t.seen
           o == Omitted(t.seen)
           later == {j \in Recent(t) : j > i}
           T == {k \in o + i + 1 .. n : IsNamed(events[k])}
           since == {k \in Compares(c) : k > o + i}
<1>1. n \in Nat /\ t.seq \in Nat /\ n < t.seq /\ o \in 0 .. n
  BY DEF View
<1>2. i \in 1 .. n - o
  BY DEF Recent
<1>3. since = T \cup {t.seq}
  <2>1. Compares(c) = {k \in 1 .. n : IsNamed(events[k])} \cup {t.seq}
    <3>1. ProposedBy(c) = OfKind("proposed", 1, n) \cup {t.seq}
      BY AskedSoFar
    <3> QED
      BY <1>1, <3>1 DEF Compares, OfKind, IsNamed, IsProposal
  <2>2. t.seq > o + i
    BY <1>1, <1>2
  <2>3. \A k \in 1 .. n : k > o + i <=> k \in o + i + 1 .. n
    BY <1>1, <1>2
  <2>4. o + i + 1 .. n \subseteq 1 .. n
    BY <1>1, <1>2
  <2> QED
    BY <2>1, <2>2, <2>3, <2>4
<1>4. /\ later \subseteq 1 .. n - o /\ T \subseteq o + 1 .. n
      /\ \A j \in 1 .. n - o : j \in later <=> o + j \in T
  <2>1. later \subseteq 1 .. n - o
    BY DEF Recent
  <2>2. T \subseteq o + 1 .. n
    BY <1>1, <1>2
  <2>3. \A j \in 1 .. n - o : j > i <=> o + j \in o + i + 1 .. n
    BY <1>1, <1>2
  <2>4. \A j \in 1 .. n - o : j \in later <=> o + j \in T
    BY <2>3 DEF Recent
  <2> QED
    BY <2>1, <2>2, <2>4
<1>5. t.seq \notin T
  BY <1>1, <1>2
<1> HIDE DEF T, later, since, o, n
<1>6. /\ IsFiniteSet(T) /\ Cardinality(T) \in Nat
      /\ Cardinality(later) = Cardinality(T)
  <2>1. AreRows(later, T, o, n) /\ o \in Nat
    BY <1>1, <1>4 DEF AreRows
  <2> QED
    BY <1>1, <2>1, SameRows
<1>7. Cardinality(T \cup {t.seq}) = Cardinality(T) + 1
  BY <1>5, <1>6, FS_AddElement
<1> QED
  BY <1>3, <1>6, <1>7 DEF later, since, o, n

\* The rows the rule compares are some of those it should compare, and all of
\* them if the history is long enough.
LEMMA ComparedIsLatest ==
    ASSUME LoopWindow \in 1 .. CallRatePerMinute + 1,
           TurnInv, NEW c \in Calls, gate[c].pc = "rules"
    PROVE  /\ \A i \in Compared(gate[c]) : RowOf(gate[c], i) \in Latest(c, LoopWindow)
           /\ FewVerdicts(History(gate[c].seen)) /\ AllNamed(History(gate[c].seen)) =>
                  \A k \in Latest(c, LoopWindow) :
                      \E i \in Compared(gate[c]) : RowOf(gate[c], i) = k
<1> DEFINE t == gate[c]
           n == t.seen
           o == Omitted(t.seen)
           h == History(t.seen)
           w == LoopWindow
           R == CallRatePerMinute
           later(i) == {j \in Recent(t) : j > i}
           since(k) == {j \in Compares(c) : j > k}
<1>0. View(t)
  BY AtTheRules
<1>1. /\ Typed /\ DOMAIN events = 1 .. Len(events) /\ Len(events) \in Nat
      /\ n \in Nat /\ t.seq \in Nat /\ n < t.seq /\ t.seq <= Len(events)
      /\ o \in 0 .. n
      /\ DOMAIN h = 1 .. n - o
      /\ \A i \in 1 .. n - o : h[i] = events[o + i]
      /\ events[t.seq].kind = "proposed"
  BY <1>0 DEF View
<1>2. w \in Nat /\ w # 0 /\ R \in Nat /\ w <= R + 1
  BY RulesAssumption
<1>3. Compared(t) = {i \in Recent(t) : Cardinality(later(i)) < w} \cup {0}
  <2>1. {i \in DOMAIN h : IsNamed(h[i])} = Recent(t)
    BY <1>1 DEF Recent
  <2>2. LastProposals(h, w) = {i \in Recent(t) : Cardinality(later(i)) < w}
    BY <1>2, <2>1 DEF LastProposals
  <2> QED
    BY <2>2 DEF Compared
<1>4. \A i \in Recent(t) : i \in 1 .. n - o /\ RowOf(t, i) = o + i
  BY DEF Recent, RowOf
<1>5. \A i \in Recent(t) :
        /\ Cardinality(later(i)) \in Nat
        /\ Cardinality(since(o + i)) = Cardinality(later(i)) + 1
  BY <1>0, CallsSince
<1>6. /\ \A k : k \in Compares(c) <=>
                   (k \in 1 .. n /\ IsNamed(events[k])) \/ k = t.seq
      /\ Compares(c) \subseteq DOMAIN events
  <2>1. ProposedBy(c) = OfKind("proposed", 1, n) \cup {t.seq}
    BY <1>0, AskedSoFar
  <2>2. \A k : k \in Compares(c) <=> (k \in 1 .. n /\ IsNamed(events[k])) \/ k = t.seq
    BY <1>1, <2>1 DEF Compares, OfKind, IsNamed, IsProposal
  <2> QED
    BY <1>1, <2>2
<1>7. \A i \in Recent(t) : o + i \in Compares(c)
  <2>1. \A i \in 1 .. n - o : o + i \in 1 .. n
    BY <1>1
  <2> QED
    BY <1>4, <1>6, <2>1 DEF Recent
<1>8. Latest(c, w) = {k \in Compares(c) : Cardinality(since(k)) <= w}
  BY DEF Latest
<1>9. t.seq \in Latest(c, w)
  <2>1. \A k \in Compares(c) : ~(k > t.seq)
    BY <1>1, <1>6
  <2>2. t.seq \in Compares(c) /\ since(t.seq) = {}
    BY <1>6, <2>1
  <2>3. Cardinality(since(t.seq)) = 0
    BY <2>2, FS_EmptySet
  <2> HIDE DEF since, t, w
  <2> QED
    BY <1>2, <1>8, <2>2, <2>3
<1>10. ASSUME NEW i \in Compared(t)
       PROVE  RowOf(t, i) \in Latest(c, w)
  <2> HIDE DEF later, since
  <2>1. CASE i = 0
    BY <1>9, <2>1 DEF RowOf
  <2>2. CASE i # 0
    BY <1>2, <1>3, <1>4, <1>5, <1>7, <1>8, <2>2
  <2> QED
    BY <2>1, <2>2
<1>11. ASSUME FewVerdicts(h), AllNamed(h), NEW k \in Latest(c, w)
       PROVE  k > o
  <2> SUFFICES ASSUME k <= o PROVE FALSE
    BY <1>1, <1>6, <1>8
  <2> DEFINE S == OfKind("proposed", o + 1, n)
  <2>1. k \in Int /\ o # 0 /\ Cardinality(since(k)) <= w
    BY <1>1, <1>6, <1>8
  <2>2. IsFiniteSet(S) /\ Cardinality(S) \in Nat /\ Cardinality(S) >= R + 1
    BY <1>0, <1>11, <2>1, CutHistoryIsLong
  <2>3. t.seq \notin S
    BY <1>1 DEF OfKind
  <2>4. ASSUME NEW j \in S
        PROVE  j \in since(k)
    <3>1. j \in o + 1 .. n /\ events[j].kind = "proposed"
      BY DEF OfKind
    <3>2. j - o \in 1 .. n - o /\ o + (j - o) = j /\ j \in 1 .. n /\ j > k
      BY <1>1, <2>1, <3>1
    <3>3. h[j - o] = events[j] /\ j - o \in DOMAIN h
      BY <1>1, <3>2
    <3>4. IsNamed(events[j])
      BY <1>11, <3>1, <3>3 DEF AllNamed, IsProposal
    <3> QED
      BY <1>6, <3>2, <3>4
  <2>5. t.seq \in since(k)
    BY <1>1, <1>6, <2>1
  <2>6. IsFiniteSet(since(k)) /\ Cardinality(since(k)) \in Nat
    <3>1. since(k) \subseteq DOMAIN events
      BY <1>6
    <3> QED
      BY <1>1, <3>1, LogIsFinite
  <2> HIDE DEF S, since
  <2>7. Cardinality(S \cup {t.seq}) = Cardinality(S) + 1
    BY <2>2, <2>3, FS_AddElement
  <2>8. S \cup {t.seq} \in SUBSET since(k)
    BY <2>4, <2>5
  <2>9. Cardinality(S \cup {t.seq}) <= Cardinality(since(k))
    BY <2>6, <2>8, FS_Subset
  <2> QED
    BY <1>2, <2>1, <2>2, <2>6, <2>7, <2>9
<1> HIDE DEF later, since
<1>12. ASSUME FewVerdicts(h), AllNamed(h), NEW k \in Latest(c, w)
       PROVE  \E i \in Compared(t) : RowOf(t, i) = k
  <2>1. CASE k = t.seq
    BY <1>3, <2>1 DEF RowOf
  <2>2. CASE k # t.seq
    <3>1. k \in 1 .. n /\ IsNamed(events[k]) /\ k > o
      BY <1>6, <1>8, <1>11, <1>12, <2>2
    <3>2. k - o \in 1 .. n - o /\ o + (k - o) = k
      BY <1>1, <3>1
    <3>3. k - o \in Recent(t)
      BY <3>1, <3>2 DEF Recent
    <3>4. Cardinality(since(k)) <= w
      BY <1>8
    <3>5. Cardinality(since(k)) = Cardinality(later(k - o)) + 1
      BY <1>5, <3>2, <3>3
    <3>6. Cardinality(later(k - o)) < w
      BY <1>2, <1>5, <3>3, <3>4, <3>5
    <3> QED
      BY <1>3, <1>4, <3>2, <3>3, <3>6
  <2> QED
    BY <2>1, <2>2
<1> QED
  BY <1>10, <1>12

LEMMA LoopIsInLog ==
    ASSUME LoopWindow \in 1 .. CallRatePerMinute + 1,
           TurnInv, NEW c \in Calls, gate[c].pc = "rules"
    PROVE  /\ Loop(Context(gate[c])) => LoopInLog(c)
           /\ /\ FewVerdicts(History(gate[c].seen)) /\ AllNamed(History(gate[c].seen))
              /\ LoopInLog(c)
              => Loop(Context(gate[c]))
<1> DEFINE t == gate[c]
           L == Latest(c, LoopWindow)
           Same(i) == {j \in Compared(t) : Signature(Context(t), j)
                                             = Signature(Context(t), i)}
           Equal(k) == {j \in L : events[j].tool = events[k].tool
                                  /\ events[j].args = events[k].args}
           Whole == FewVerdicts(History(t.seen)) /\ AllNamed(History(t.seen))
<1>1. Loop(Context(t)) <=> \E i \in Compared(t) : Cardinality(Same(i)) >= LoopRepeats
  BY DEF Loop, Compared, Context
<1>2. LoopInLog(c) <=> \E k \in L : Cardinality(Equal(k)) >= LoopRepeats
  BY DEF LoopInLog
<1>3. /\ \A i \in Compared(t) : RowOf(t, i) \in L
      /\ Whole => \A k \in L : \E i \in Compared(t) : RowOf(t, i) = k
  BY ComparedIsLatest
<1>4. /\ \A i \in Compared(t) :
            Signature(Context(t), i)
              = <<events[RowOf(t, i)].tool, events[RowOf(t, i)].args>>
      /\ \A i, j \in Compared(t) : RowOf(t, i) = RowOf(t, j) => i = j
  BY ComparedRows DEF TurnInv
<1>5. \A k : IsFiniteSet(Equal(k)) /\ Cardinality(Equal(k)) \in Nat
  <2>1. /\ Typed /\ DOMAIN events = 1 .. Len(events)
        /\ t.seq \in Nat /\ Len(events) \in Nat /\ t.seq <= Len(events)
    BY AtTheRules DEF View
  <2>2. 1 .. t.seq \subseteq DOMAIN events
    BY <2>1
  <2>3. \A k : Equal(k) \subseteq DOMAIN events
    BY <2>2 DEF Latest, Compares, ProposedBy
  <2> HIDE DEF Equal
  <2> QED
    BY <2>1, <2>3, LogIsFinite
<1>6. ASSUME NEW i \in Compared(t)
      PROVE  /\ Cardinality(Same(i)) \in Nat
             /\ Cardinality(Same(i)) <= Cardinality(Equal(RowOf(t, i)))
             /\ Whole => Cardinality(Same(i)) = Cardinality(Equal(RowOf(t, i)))
  <2> DEFINE f == [j \in Same(i) |-> RowOf(t, j)]
             T == Equal(RowOf(t, i))
  <2>1. f \in [Same(i) -> T]
    BY <1>3, <1>4
  <2>2. \A x, y \in Same(i) : f[x] = f[y] => x = y
    BY <1>4
  <2>3. Whole => \A k \in T : \E j \in Same(i) : f[j] = k
    BY <1>3, <1>4
  <2>4. IsFiniteSet(T)
    BY <1>5
  <2> HIDE DEF f, T, Same, Equal, Whole
  <2>5. Cardinality(Same(i)) \in Nat /\ Cardinality(Same(i)) <= Cardinality(T)
    BY <2>1, <2>2, <2>4, InjectionBounds
  <2>6. Whole => Cardinality(Same(i)) = Cardinality(T)
    BY <2>1, <2>2, <2>3, <2>4, SameCount
  <2> QED
    BY <2>5, <2>6 DEF T
<1> HIDE DEF Same, Equal, L
<1>7. ASSUME Loop(Context(t))
      PROVE  LoopInLog(c)
  <2>1. PICK i \in Compared(t) : Cardinality(Same(i)) >= LoopRepeats
    BY <1>1, <1>7
  <2>2. PICK k : k = RowOf(t, i)
    OBVIOUS
  <2>3. k \in L
    BY <1>3, <2>2
  <2>4. /\ Cardinality(Same(i)) \in Nat /\ Cardinality(Equal(k)) \in Nat
        /\ Cardinality(Same(i)) <= Cardinality(Equal(k))
    BY <1>5, <1>6, <2>2
  <2>5. Cardinality(Equal(k)) >= LoopRepeats
    BY <2>1, <2>4, RulesAssumption
  <2> QED
    BY <1>2, <2>3, <2>5
<1>8. Whole /\ LoopInLog(c) => Loop(Context(t))
  BY <1>1, <1>2, <1>3, <1>6
<1> QED
  BY <1>7, <1>8

\* The four detectors together.
LEMMA RulesSeeTheLog ==
    ASSUME LoopWindow \in 1 .. CallRatePerMinute + 1, TurnInv
    PROVE  DetectorsSeeTheLog
<1> SUFFICES ASSUME NEW c \in Calls, gate[c].pc = "rules"
             PROVE  LET ctx == Context(gate[c])
                    IN  /\ Budget(ctx)      <=> BudgetInLog
                        /\ ErrorStreak(ctx) <=> ErrorStreakInLog
                        /\ Loop(ctx)     => LoopInLog(c)
                        /\ CallRate(ctx) => CallRateInLog(c)
                        /\ FewVerdicts(ctx.history) =>
                               /\ CallRateInLog(c) => CallRate(ctx)
                               /\ AllNamed(ctx.history) /\ LoopInLog(c) => Loop(ctx)
  BY DEF DetectorsSeeTheLog
<1> DEFINE row == gate[c].snap.row
<1>1. /\ Counters(row) = Counters(run) /\ Context(gate[c]).run = row
      /\ Context(gate[c]).history = History(gate[c].seen)
  BY AtTheRules DEF View, Context
<1>2. row.tokens = run.tokens /\ row.cost = run.cost /\ row.errors = run.errors
  BY <1>1 DEF Counters
<1>3. Replayed(events) = Counters(run)
  BY ReplayedIs DEF TurnInv, LInv, ReplayFits
<1>4. Replayed(events).tokens = run.tokens /\ Replayed(events).cost = run.cost
  BY <1>3 DEF Counters
<1>5. Budget(Context(gate[c])) <=> BudgetInLog
  BY <1>1, <1>2, <1>4 DEF Budget, BudgetInLog
<1>6. run.errors = Cardinality({i \in Outcomes :
          \A j \in Outcomes : j >= i => events[j].says = "failed"})
  BY DEF TurnInv, StreakFits, Streak
<1>7. ErrorStreak(Context(gate[c])) <=> ErrorStreakInLog
  BY <1>1, <1>2, <1>6 DEF ErrorStreak, ErrorStreakInLog
<1>8. /\ CallRate(Context(gate[c])) => CallRateInLog(c)
      /\ FewVerdicts(History(gate[c].seen)) /\ CallRateInLog(c)
           => CallRate(Context(gate[c]))
  BY CallRateIsInLog
<1>9. /\ Loop(Context(gate[c])) => LoopInLog(c)
      /\ /\ FewVerdicts(History(gate[c].seen)) /\ AllNamed(History(gate[c].seen))
         /\ LoopInLog(c)
         => Loop(Context(gate[c]))
  BY LoopIsInLog
<1> QED
  BY <1>1, <1>5, <1>7, <1>8, <1>9

-----------------------------------------------------------------------------
(* The threads stay one at a time.                                         *)

LEMMA FewAreFinite ==
    ASSUME NEW S, \A x, y \in S : x = y
    PROVE  IsFiniteSet(S)
<1>1. CASE S = {}
  BY <1>1, FS_EmptySet
<1>2. CASE S # {}
  <2>1. PICK x : S = {x}
    BY <1>2
  <2> QED
    BY <2>1, FS_Singleton
<1> QED
  BY <1>1, <1>2

LEMMA OneOfTwo ==
    ASSUME NEW A, NEW B, IsFiniteSet(A), IsFiniteSet(B),
           Cardinality(A) + Cardinality(B) <= 1
    PROVE  /\ \A x, y \in A : x = y
           /\ \A x, y \in B : x = y
           /\ A = {} \/ B = {}
<1>1. Cardinality(A) \in Nat /\ Cardinality(B) \in Nat
  BY FS_CardinalityType
<1>2. (A = {} <=> Cardinality(A) = 0) /\ (B = {} <=> Cardinality(B) = 0)
  BY FS_EmptySet
<1>3. /\ Cardinality(A) <= 1 /\ Cardinality(B) <= 1
      /\ Cardinality(A) = 0 \/ Cardinality(B) = 0
  BY <1>1
<1>4. (\A x, y \in A : x = y) /\ (\A x, y \in B : x = y)
  BY <1>3, AtMostOne
<1> QED
  BY <1>2, <1>3, <1>4

\* Only the start of a call or of a report adds a thread.
LEMMA GateStarts ==
    ASSUME Typed, [Next]_vars, NEW c \in Calls,
           gate'[c].pc \notin {"new", "done"}, gate[c].pc \in {"new", "done"}
    PROVE  GateRead(c)
<1>1. \A t, a : Return(t, a).pc = "done"
  BY DEF Return, NewThread
<1>2. ~GateSteps(c)
  BY DEF GateSteps, GateClock, GateHistory, GatePropose, GateRules,
         GateApply, GateJudge, GateEscalate, GateSample, GateRecord
<1> QED
  BY <1>1, <1>2, GateOthers

LEMMA ReportStarts ==
    ASSUME Typed, [Next]_vars, NEW p \in Reports,
           report'[p] # report[p], report'[p].pc # "done"
    PROVE  ReportClock(p)
<1>1. DOMAIN report = Reports
  BY DEF Typed, TypeOK
<1>2. \A t, a : Reported(t, a).pc = "done"
  BY DEF Reported, NewReport
<1>3. ASSUME NEW q \in Reports, ReportClock(q), q # p
      PROVE  FALSE
  BY <1>1, <1>3 DEF ReportClock
<1>4. ASSUME NEW q \in Reports, ReportSteps(q)
      PROVE  FALSE
  BY <1>1, <1>2, <1>4 DEF ReportSteps, HeartbeatCommit, OutcomeCommit
<1>5. ASSUME NEW q \in Requests, RequestRead(q) \/ RequestSteps(q)
      PROVE  FALSE
  BY <1>5 DEF RequestRead, RequestSteps, RequestClock, RequestCommit
<1>6. CASE Fault
  <2>1. CASE GateOutage \/ JobOutage \/ SweepOutage \/ RequestOutage
    BY <2>1 DEF GateOutage, JobOutage, SweepOutage, RequestOutage
  <2>2. CASE ReportOutage
    BY <1>1, <1>2, <2>2 DEF ReportOutage
  <2>3. CASE Crash
    BY <1>2, <2>3 DEF Crash
  <2> QED
    BY <1>6, <2>1, <2>2, <2>3 DEF Fault, Outage
<1>7. ~UNCHANGED report
  OBVIOUS
<1> QED
  BY <1>3, <1>4, <1>5, <1>6, <1>7, NextCases
     DEF ApiNext, GateAlone, ReaperAlone, Quiescent, vars

LEMMA ActiveIsFinite ==
    ASSUME Typed, Alone, [Next]_vars
    PROVE  IsFiniteSet(GateActive') /\ IsFiniteSet(ReportActive')
<1>1. DOMAIN gate = Calls /\ DOMAIN report = Reports
  BY DEF Typed, TypeOK
<1>2. IsFiniteSet(GateActive) /\ IsFiniteSet(ReportActive)
  BY FewAreFinite DEF Alone
<1>3. IsFiniteSet(GateActive' \ GateActive)
  <2> DEFINE S == GateActive' \ GateActive
  <2>1. \A c \in S : c \in Calls /\ GateRead(c) /\ gate'[c] # gate[c]
    BY GateStarts DEF GateActive
  <2>2. \A c, d \in S : c = d
    BY <1>1, <2>1 DEF GateRead
  <2> HIDE DEF S
  <2> QED
    BY <2>2, FewAreFinite DEF S
<1>4. IsFiniteSet(ReportActive' \ ReportActive)
  <2> DEFINE S == ReportActive' \ ReportActive
  <2>1. \A p \in S : p \in Reports /\ ReportClock(p) /\ report'[p] # report[p]
    BY ReportStarts DEF ReportActive
  <2>2. \A p, q \in S : p = q
    BY <1>1, <2>1 DEF ReportClock
  <2> HIDE DEF S
  <2> QED
    BY <2>2, FewAreFinite DEF S
<1>5. /\ IsFiniteSet(GateActive \cup (GateActive' \ GateActive))
      /\ IsFiniteSet(ReportActive \cup (ReportActive' \ ReportActive))
  BY <1>2, <1>3, <1>4, FS_Union
<1>6. /\ GateActive' \subseteq GateActive \cup (GateActive' \ GateActive)
      /\ ReportActive' \subseteq ReportActive \cup (ReportActive' \ ReportActive)
  OBVIOUS
<1> QED
  BY <1>5, <1>6, FS_Subset

LEMMA StaysAlone ==
    ASSUME Typed, Alone, [Next]_vars, ServerThreads' <= 1
    PROVE  Alone'
<1>1. IsFiniteSet(GateActive') /\ IsFiniteSet(ReportActive')
  BY ActiveIsFinite
<1>2. Cardinality(GateActive') + Cardinality(ReportActive') <= 1
  BY DEF ServerThreads
<1>3. /\ \A x, y \in GateActive' : x = y
      /\ \A x, y \in ReportActive' : x = y
      /\ GateActive' = {} \/ ReportActive' = {}
  BY <1>1, <1>2, OneOfTwo
<1> QED
  BY <1>3 DEF Alone

-----------------------------------------------------------------------------
(* What a step appends.                                                    *)

LEMMA ProposalAppended ==
    ASSUME Typed, NEW c \in Calls, GatePropose(c)
    PROVE  \E row \in EventRows :
               /\ row.kind = "proposed" /\ row.at = gate[c].at
               /\ events' = Append(events, row)
<1> DEFINE e == Event("proposed", c, "-")
           t == gate[c]
           row == [e EXCEPT !.tool = t.tool, !.args = t.args, !.at = t.at]
<1>1. t \in GateThreads
  BY GateThread
<1>2. e \in EventRows /\ e.kind = "proposed"
  BY StoreIsTyped, EventType, EventFields DEF EventKinds, Says, Typed
<1>3. events' = Append(events, row)
  BY DEF GatePropose, AppendEvent
<1> HIDE DEF e
<1>4. row \in EventRows /\ row.kind = "proposed" /\ row.at = t.at
  BY <1>1, <1>2 DEF EventRows, GateThreads
<1> QED
  BY <1>3, <1>4

LEMMA VerdictAppended ==
    ASSUME Typed, NEW c \in Calls, GateJudge(c)
    PROVE  \E row \in EventRows : row.kind = "judge" /\ events' = Append(events, row)
<1> DEFINE e(v) == Event("judge", c, v)
           t == gate[c]
<1>1. t \in GateThreads
  BY GateThread
<1>2. PICK v \in JudgeAnswers : events' = Append(events, [e(v) EXCEPT !.at = t.at])
  BY DEF GateJudge, AppendEvent
<1>3. e(v) \in EventRows /\ e(v).kind = "judge"
  BY StoreIsTyped, EventType, EventFields, GateAssumption DEF EventKinds, Says, Typed
<1> HIDE DEF e
<1>4. [e(v) EXCEPT !.at = t.at] \in EventRows /\ [e(v) EXCEPT !.at = t.at].kind = "judge"
  BY <1>1, <1>3 DEF EventRows, GateThreads
<1> QED
  BY <1>2, <1>4

\* What the executor appends, whenever it gets to it, is a verdict.
LEMMA JobWrites ==
    ASSUME Typed, NEW c \in Calls, JobSteps(c)
    PROVE  \/ events' = events
           \/ \E row \in EventRows : IsVerdict(row) /\ events' = Append(events, row)
<1> DEFINE e(kind, v) == Event(kind, c, v)
           j == job[c]
<1>1. j.at \in Nat
  BY DEF Typed, TypeOK, Jobs
<1>2. CASE JobJudge(c)
  <2>1. PICK v \in JudgeAnswers :
            events' = Append(events, [e("judge", v) EXCEPT !.at = j.at])
    BY <1>2 DEF JobJudge, AppendEvent
  <2>2. e("judge", v) \in EventRows /\ e("judge", v).kind = "judge"
    BY StoreIsTyped, EventType, EventFields, GateAssumption DEF EventKinds, Says, Typed
  <2> HIDE DEF e, j
  <2>3. /\ [e("judge", v) EXCEPT !.at = j.at] \in EventRows
        /\ [e("judge", v) EXCEPT !.at = j.at].kind = "judge"
    BY <1>1, <2>2 DEF EventRows
  <2> QED
    BY <2>1, <2>3 DEF IsVerdict
<1>3. CASE JobDiscard(c)
  <2>1. events' = Append(events, [e("system", "stale") EXCEPT !.at = j.at])
    BY <1>3 DEF JobDiscard, AppendEvent
  <2>2. e("system", "stale") \in EventRows /\ e("system", "stale").kind = "system"
    BY StoreIsTyped, EventType, EventFields DEF EventKinds, Says, Typed
  <2> HIDE DEF e, j
  <2>3. /\ [e("system", "stale") EXCEPT !.at = j.at] \in EventRows
        /\ [e("system", "stale") EXCEPT !.at = j.at].kind = "system"
    BY <1>1, <2>2 DEF EventRows
  <2> QED
    BY <2>1, <2>3 DEF IsVerdict
<1>4. CASE JobRead(c) \/ JobClock(c) \/ JobEscalate(c)
  BY <1>4 DEF JobRead, JobClock, JobEscalate
<1> QED
  BY <1>2, <1>3, <1>4 DEF JobSteps

\* The row a step appends is one that may come next.
MayFollow(row) ==
    /\ \A kind \in {"decision", "outcome"} : row.kind = kind =>
           \E i \in DOMAIN events : OpenCall(events, i, kind)
    /\ row.kind = "proposed" => row.at <= now /\ NoLater(events, row.at)

LEMMA RowsFollow ==
    ASSUME TurnInv, [Next]_vars
    PROVE  \/ events' = events
           \/ \E row \in EventRows : MayFollow(row) /\ events' = Append(events, row)
<1>1. LogSteps
  BY NextAnswers DEF TurnInv, LInv
<1>2. \A c \in Calls : InTurn(gate[c])
  BY DEF TurnInv
<1>3. CASE NoteOnly
  <2>1. PICK row \in EventRows :
          /\ row.kind # "decision"
          /\ row.kind = "proposed" => \E c \in Calls :
                 GatePropose(c) /\ ProposalOf(row, c)
          /\ row.kind = "outcome" => \E p \in Reports : OutcomeCommit(p)
          /\ events' = Append(events, row)
    BY <1>3 DEF NoteOnly
  <2>2. row.kind = "outcome" => \E i \in DOMAIN events : OpenCall(events, i, "outcome")
    BY <2>1 DEF OutcomeCommit, TurnInv, ReportsFollow
  <2>3. row.kind = "proposed" => row.at <= now /\ NoLater(events, row.at)
    BY <1>2, <2>1 DEF GatePropose, ProposalOf, InTurn
  <2> QED
    BY <2>1, <2>2, <2>3 DEF MayFollow
<1>4. ASSUME NEW c \in Calls, gate[c].pc = "record", DecisionOf(c)
      PROVE  \E row \in EventRows : MayFollow(row) /\ events' = Append(events, row)
  <2>1. PICK row \in EventRows : row.kind = "decision" /\ events' = Append(events, row)
    BY <1>4 DEF DecisionOf
  <2>2. gate[c].seq \in DOMAIN events /\ OpenCall(events, gate[c].seq, "decision")
    BY <1>2, <1>4 DEF InTurn
  <2> QED
    BY <2>1, <2>2 DEF MayFollow
<1> QED
  BY <1>1, <1>3, <1>4 DEF LogSteps

\* A call that is open stays open until such a row is appended.
LEMMA OpenStays ==
    ASSUME Typed, NEW row \in EventRows, events' = Append(events, row),
           NEW kind, row.kind # kind,
           NEW i \in DOMAIN events, OpenCall(events, i, kind)
    PROVE  i \in DOMAIN events' /\ OpenCall(events', i, kind)
<1>1. PICK n : n = Len(events)
  OBVIOUS
<1>2. /\ n \in Nat /\ DOMAIN events' = 1 .. n + 1 /\ DOMAIN events = 1 .. n
      /\ events'[n + 1] = row
      /\ \A j \in 1 .. n : events'[j] = events[j]
  BY <1>1 DEF Typed, TypeOK
<1>3. \A j \in 1 .. n + 1 : j \in 1 .. n \/ j = n + 1
  BY <1>2
<1> QED
  BY <1>2, <1>3 DEF OpenCall

LEMMA OrderStays ==
    ASSUME TurnInv, [Next]_vars
    PROVE  OncePerCall' /\ LogDated'
<1>1. Typed /\ Typed' /\ now <= now' /\ now \in Nat /\ now' \in Nat
  <2>1. PInv'
    BY NextProposals DEF TurnInv
  <2>2. Typed /\ Typed' /\ StoreSteps
    BY <2>1, StoreStepsOnly DEF TurnInv, PInv, AInv, IInv
  <2> QED
    BY <2>2, StoreStepsClock
<1>2. events \in Seq(EventRows) /\ Len(events) \in Nat /\ DOMAIN events = 1 .. Len(events)
  BY <1>1 DEF Typed, TypeOK
<1>3. \A row \in EventRows : row.at \in Nat
  BY DEF EventRows
<1>4. \A i \in DOMAIN events : events[i].at \in Nat
  BY <1>2, <1>3
<1>5. OncePerCall /\ LogDated
  BY DEF TurnInv
<1>6. CASE events' = events
  <2>1. OncePerCall'
    BY <1>5, <1>6 DEF OncePerCall
  <2>2. NoLater(events', now')
    BY <1>1, <1>4, <1>5, <1>6 DEF LogDated, NoLater
  <2> QED
    BY <1>5, <1>6, <2>1, <2>2 DEF LogDated
<1>7. ASSUME NEW row \in EventRows, MayFollow(row), events' = Append(events, row)
      PROVE  OncePerCall' /\ LogDated'
  <2>0. PICK n : n = Len(events)
    OBVIOUS
  <2>1. /\ n \in Nat /\ DOMAIN events' = 1 .. n + 1 /\ DOMAIN events = 1 .. n
        /\ events'[n + 1] = row
        /\ \A i \in 1 .. n : events'[i] = events[i]
    BY <1>2, <1>7, <2>0
  <2>2. \A i \in 1 .. n + 1 : i \in 1 .. n \/ i = n + 1
    BY <2>1
  <2>3. ASSUME NEW i \in 1 .. n, NEW kind, OwnCall(events, i, kind)
        PROVE  OwnCall(events', i, kind)
    <3>1. PICK p \in 1 .. i - 1 :
              /\ events[p].kind = "proposed"
              /\ \A j \in p + 1 .. i - 1 : events[j].kind # kind
      BY <2>3 DEF OwnCall
    <3>2. p \in 1 .. n /\ p + 1 .. i - 1 \subseteq 1 .. n
      BY <2>1, <3>1
    <3>3. events'[p].kind = "proposed"
      BY <2>1, <3>1, <3>2
    <3>4. \A j \in p + 1 .. i - 1 : events'[j].kind # kind
      BY <2>1, <3>1, <3>2
    <3> QED
      BY <3>3, <3>4 DEF OwnCall
  <2>4. ASSUME NEW kind \in {"decision", "outcome"}, row.kind = kind,
               NEW m \in Nat, m = n + 1
        PROVE  OwnCall(events', m, kind)
    <3>1. PICK i \in DOMAIN events : OpenCall(events, i, kind)
      BY <1>7, <2>4 DEF MayFollow
    <3>2. i \in 1 .. n /\ m - 1 = n /\ events'[i].kind = "proposed"
      BY <2>1, <2>4, <3>1 DEF OpenCall
    <3>3. ASSUME NEW j \in i + 1 .. m - 1
          PROVE  events'[j].kind # kind
      <4>1. j \in 1 .. n /\ j > i
        BY <2>1, <3>2
      <4> QED
        BY <2>1, <3>1, <4>1 DEF OpenCall
    <3>4. i \in 1 .. m - 1
      BY <3>2
    <3> QED
      BY <3>2, <3>3, <3>4 DEF OwnCall
  <2>5. OncePerCall'
    <3> SUFFICES ASSUME NEW i \in 1 .. n + 1, NEW kind \in {"decision", "outcome"},
                        events'[i].kind = kind
                 PROVE  OwnCall(events', i, kind)
      BY <2>1 DEF OncePerCall
    <3>1. CASE i \in 1 .. n
      BY <1>5, <2>1, <2>3, <3>1 DEF OncePerCall
    <3>2. CASE i = n + 1
      <4>1. n + 1 \in Nat /\ row.kind = kind
        BY <2>1, <3>2
      <4> QED
        BY <2>4, <3>2, <4>1
    <3> QED
      BY <2>2, <3>1, <3>2
  <2>6. row.kind = "proposed" => row.at <= now /\ NoLater(events, row.at)
    BY <1>7 DEF MayFollow
  <2>7. NoLater(events', now')
    BY <1>1, <1>3, <1>4, <1>5, <2>1, <2>2, <2>6 DEF LogDated, NoLater
  <2>8. ASSUME NEW i \in 1 .. n + 1, NEW j \in 1 .. n + 1, i <= j,
               events'[i].kind = "proposed", events'[j].kind = "proposed"
        PROVE  events'[i].at <= events'[j].at
    <3>1. CASE j \in 1 .. n
      <4>1. i \in 1 .. n
        BY <2>1, <2>8, <3>1
      <4> QED
        BY <1>5, <2>1, <2>8, <3>1, <4>1 DEF LogDated
    <3>2. CASE j = n + 1 /\ i \in 1 .. n
      BY <2>1, <2>6, <2>8, <3>2 DEF NoLater
    <3>3. CASE j = n + 1 /\ i = n + 1
      BY <1>3, <2>1, <3>3
    <3> QED
      BY <2>2, <3>1, <3>2, <3>3
  <2> QED
    BY <2>1, <2>5, <2>7, <2>8 DEF LogDated
<1> QED
  BY <1>6, <1>7, RowsFollow

-----------------------------------------------------------------------------
(* The streak of failures.                                                 *)

LEMMA StreakStays ==
    ASSUME LInv, StreakFits, [Next]_vars
    PROVE  StreakFits'
<1>1. Typed /\ LogSteps /\ run \in RunRows
  BY NextAnswers DEF LInv, AInv, IInv, Typed, TypeOK
<1>2. events \in Seq(EventRows) /\ Len(events) \in Nat /\ DOMAIN events = 1 .. Len(events)
  BY <1>1 DEF Typed, TypeOK
<1>3. CASE events' = events /\ Counters(run') = Counters(run)
  <2>1. Streak' = Streak
    BY <1>3 DEF Streak, Outcomes
  <2>2. run'.errors = run.errors
    BY <1>3 DEF Counters
  <2> QED
    BY <2>1, <2>2 DEF StreakFits
<1>4. ASSUME NEW row \in EventRows, events' = Append(events, row),
             Counters(run') = Counted(Counters(run), row),
             row.kind = "outcome" => row.says \in {"ok", "failed"}
      PROVE  StreakFits'
  <2>0. PICK n : n = Len(events)
    OBVIOUS
  <2>1. /\ n \in Nat /\ DOMAIN events' = 1 .. n + 1 /\ DOMAIN events = 1 .. n
        /\ events'[n + 1] = row
        /\ \A i \in 1 .. n : events'[i] = events[i]
    BY <1>2, <1>4, <2>0
  <2>2. \A i : i \in 1 .. n + 1 <=> i \in 1 .. n \/ i = n + 1
    BY <2>1
  <2>3. /\ Outcomes \subseteq 1 .. n
        /\ Outcomes' = IF row.kind = "outcome" THEN Outcomes \cup {n + 1} ELSE Outcomes
    BY <2>1, <2>2 DEF Outcomes
  <2>4. IsFiniteSet(Streak) /\ Cardinality(Streak) \in Nat /\ n + 1 \notin Streak
    <3>1. Streak \subseteq DOMAIN events
      BY <2>1, <2>3 DEF Streak
    <3> QED
      BY <1>1, <2>1, <3>1, LogIsFinite
  <2>5. run.errors = Cardinality(Streak)
    BY DEF StreakFits
  <2>6. CASE row.kind # "outcome"
    <3>1. Streak' = Streak
      BY <2>1, <2>3, <2>6 DEF Streak
    <3>2. run'.errors = run.errors
      BY <1>4, <2>6 DEF Counters, Counted
    <3> QED
      BY <2>5, <3>1, <3>2 DEF StreakFits
  <2>7. CASE row.kind = "outcome" /\ row.says = "ok"
    <3>1. n + 1 \in Outcomes' /\ \A i \in Outcomes' : n + 1 >= i
      BY <2>1, <2>3, <2>7
    <3>2. Streak' = {}
      BY <2>1, <2>7, <3>1 DEF Streak
    <3>3. run'.errors = 0
      BY <1>4, <2>7 DEF Counters, Counted
    <3> QED
      BY <3>2, <3>3, FS_EmptySet DEF StreakFits
  <2>8. CASE row.kind = "outcome" /\ row.says = "failed"
    <3>1. Streak' = Streak \cup {n + 1}
      <4>1. ASSUME NEW i \in Outcomes
            PROVE  i \in Streak' <=> i \in Streak
        BY <2>1, <2>3, <2>8 DEF Streak
      <4>2. n + 1 \in Streak'
        BY <2>1, <2>3, <2>8 DEF Streak
      <4>3. Streak' \subseteq Outcomes \cup {n + 1} /\ Streak \subseteq Outcomes
        BY <2>3, <2>8 DEF Streak
      <4> QED
        BY <4>1, <4>2, <4>3
    <3>2. Cardinality(Streak') = Cardinality(Streak) + 1
      BY <2>4, <3>1, FS_AddElement
    <3>3. run'.errors = run.errors + 1
      BY <1>4, <2>8 DEF Counters, Counted
    <3> QED
      BY <2>5, <3>2, <3>3 DEF StreakFits
  <2> QED
    BY <1>4, <2>6, <2>7, <2>8
<1>5. CASE \A p \in Reports : ~OutcomeCommit(p)
  <2>1. Counters(run') = Counters(run)
    BY <1>1, <1>5, CountersStay
  <2>2. \/ events' = events
        \/ \E row \in EventRows : row.kind # "outcome" /\ events' = Append(events, row)
    BY <1>1, <1>5 DEF LogSteps, NoteOnly, DecisionOf
  <2> QED
    BY <1>3, <1>4, <2>1, <2>2 DEF Counted
<1>6. ASSUME NEW p \in Reports, OutcomeCommit(p)
      PROVE  StreakFits'
  <2>1. CASE UNCHANGED <<run, events>>
    BY <1>3, <2>1
  <2>2. CASE ~UNCHANGED <<run, events>>
    BY <1>1, <1>4, <1>6, <2>2, OutcomeCounts
  <2> QED
    BY <2>1, <2>2
<1> QED
  BY <1>5, <1>6

-----------------------------------------------------------------------------
(* The turn of a call.                                                     *)

LEMMA TurnGoesOn ==
    ASSUME TurnInv, Typed', NEW c \in Calls, GateRead(c) \/ GateSteps(c)
    PROVE  InTurn(gate[c])'
<1> DEFINE t == gate[c]
           u == gate'[c]
<1>1. /\ Typed /\ t \in GateThreads /\ InTurn(t)
      /\ \A v : gate' = [gate EXCEPT ![c] = v] => u = v
      /\ events \in Seq(EventRows) /\ Len(events) \in Nat
      /\ DOMAIN events = 1 .. Len(events) /\ now \in Nat
  BY GateThread DEF TurnInv, PInv, AInv, IInv, Typed, TypeOK
<1>2. \A s \in GateThreads : \A d :
        ToRecord(s, d).pc = "record" /\ ToRecord(s, d).seq = s.seq
  BY DEF ToRecord, GateThreads
<1>3. \A s, a : Return(s, a).pc = "done"
  BY DEF Return, NewThread
<1>4. \A s \in GateThreads :
        Route(s).pc \in {"sample", "judge", "record"} /\ Route(s).seq = s.seq
  BY RouteAsks DEF SameCall
<1>5. CASE u.pc = "done"
  BY <1>5 DEF InTurn
<1>6. CASE GateRead(c)
  <2>1. PICK tool \in Tools, args \in Args :
          u = IF run.state = "terminated"
              THEN Return([t EXCEPT !.tool = tool, !.args = args, !.snap = Read],
                          "terminated")
              ELSE [[t EXCEPT !.tool = tool, !.args = args, !.snap = Read]
                      EXCEPT !.pc = "clock"]
    BY <1>1, <1>6 DEF GateRead
  <2>2. u.pc = "done" \/ (u.pc = "clock" /\ u.snap = Read)
    BY <1>1, <1>3, <2>1 DEF GateThreads
  <2>3. run' = run /\ Read.row = run
    BY <1>6 DEF GateRead, Read
  <2> QED
    BY <1>5, <2>2, <2>3 DEF InTurn
<1>7. CASE GateClock(c)
  <2>1. /\ u.pc = "history" /\ u.at = now /\ u.snap = t.snap /\ t.pc = "clock"
        /\ run' = run /\ events' = events /\ now' = now
    BY <1>1, <1>7 DEF GateClock, GateThreads, Typed, TypeOK
  <2>2. NoLater(events, now)
    BY DEF TurnInv, LogDated
  <2>3. NoLater(events, now)'
    BY <2>1, <2>2
  <2> QED
    BY <1>1, <2>1, <2>2 DEF InTurn
<1>8. CASE GateHistory(c)
  <2>1. /\ u.pc = "propose" /\ u.at = t.at /\ u.snap = t.snap /\ t.pc = "history"
        /\ u.seen = Len(events)
        /\ run' = run /\ events' = events /\ now' = now
    BY <1>1, <1>8 DEF GateHistory, GateThreads, Typed, TypeOK
  <2>2. u.seen <= Len(events) /\ NoCalls(events, u.seen + 1, Len(events))
    BY <1>1, <2>1 DEF NoCalls
  <2> QED
    BY <1>1, <2>1, <2>2 DEF InTurn
<1>10. CASE GatePropose(c)
  <2> DEFINE s == [t EXCEPT !.seq = Len(events) + 1]
  <2>1. PICK row \in EventRows : row.kind = "proposed" /\ events' = Append(events, row)
    BY <1>1, <1>10, ProposalAppended
  <2>2. PICK n : n = Len(events)
    OBVIOUS
  <2>3. /\ n \in Nat /\ DOMAIN events' = 1 .. n + 1 /\ events'[n + 1] = row
        /\ \A i \in 1 .. n : events'[i] = events[i]
    BY <1>1, <2>1, <2>2
  <2>4. s \in GateThreads /\ s.seq = n + 1 /\ s.seen = t.seen /\ s.snap = t.snap
    <3>1. /\ s \in GateThreads /\ s.seq = Len(events) + 1
          /\ s.seen = t.seen /\ s.snap = t.snap
      BY <1>1 DEF GateThreads
    <3> HIDE DEF s
    <3> QED
      BY <2>2, <3>1
  <2>5. u = ToRecord(s, "freeze") \/ u = [s EXCEPT !.pc = "rules"]
    BY <1>1, <1>10 DEF GatePropose
  <2>6. /\ t.pc = "propose" /\ run' = run
        /\ t.seen <= n /\ NoCalls(events, t.seen + 1, n)
        /\ Counters(t.snap.row) = Counters(run)
    BY <1>1, <1>10, <2>2 DEF GatePropose, InTurn
  <2>7. n + 1 \in DOMAIN events' /\ OpenCall(events', n + 1, "decision")
    BY <2>1, <2>3 DEF OpenCall
  <2> HIDE DEF s
  <2>8. CASE u = ToRecord(s, "freeze")
    <3>1. u.pc = "record" /\ u.seq = n + 1
      BY <1>2, <2>4, <2>8
    <3> QED
      BY <2>7, <3>1 DEF InTurn
  <2>9. CASE u = [s EXCEPT !.pc = "rules"]
    <3>1. u.pc = "rules" /\ u.seq = n + 1 /\ u.seen = t.seen /\ u.snap = t.snap
      BY <2>4, <2>9 DEF GateThreads
    <3>2. t.seen \in Nat /\ n + 1 - 1 = n
      BY <1>1, <2>3 DEF GateThreads
    <3>3. NoCalls(events', t.seen + 1, n)
      <4>1. t.seen + 1 .. n \subseteq 1 .. n
        BY <2>3, <3>2
      <4> QED
        BY <2>3, <2>6, <4>1 DEF NoCalls
    <3>4. u.seen <= u.seq - 1 /\ NoCalls(events', u.seen + 1, u.seq - 1)
      BY <2>3, <2>6, <3>1, <3>2, <3>3
    <3>5. Counters(u.snap.row) = Counters(run')
      BY <2>6, <3>1
    <3> QED
      BY <2>7, <3>1, <3>4, <3>5 DEF InTurn
  <2> QED
    BY <2>5, <2>8, <2>9
<1>11. ASSUME t.pc \in {"rules", "apply", "sample", "judge", "escalate"},
              u.pc \in {"apply", "sample", "judge", "escalate", "record"}, u.seq = t.seq,
              \/ events' = events
              \/ \E row \in EventRows : row.kind = "judge" /\ events' = Append(events, row)
       PROVE  InTurn(gate[c])'
  <2>1. t.seq \in DOMAIN events /\ OpenCall(events, t.seq, "decision")
    BY <1>1, <1>11 DEF InTurn
  <2>2. t.seq \in DOMAIN events' /\ OpenCall(events', t.seq, "decision")
    <3>1. CASE events' = events
      BY <2>1, <3>1
    <3>2. ASSUME NEW row \in EventRows, row.kind = "judge", events' = Append(events, row)
          PROVE  t.seq \in DOMAIN events' /\ OpenCall(events', t.seq, "decision")
      BY <1>1, <2>1, <3>2, OpenStays
    <3> QED
      BY <1>11, <3>1, <3>2
  <2> QED
    BY <1>11, <2>2 DEF InTurn
<1>12. CASE GateRules(c)
  <2>1. PICK cause : u \in {[t EXCEPT !.pc = "apply", !.cause = cause], Route(t)}
    BY <1>1, <1>12 DEF GateRules
  <2>2. t.pc = "rules" /\ events' = events
    BY <1>12 DEF GateRules
  <2>3. u.pc \in {"apply", "sample", "judge", "record"} /\ u.seq = t.seq
    BY <1>1, <1>4, <2>1 DEF GateThreads
  <2> QED
    BY <1>11, <2>2, <2>3
<1>13. CASE GateApply(c) \/ GateEscalate(c)
  <2> DEFINE s == [t EXCEPT !.snap = Read']
  <2>1. s \in GateThreads /\ s.seq = t.seq
    BY <1>1, ReadIsTypedNext DEF GateThreads
  <2>2. /\ t.pc \in {"apply", "escalate"} /\ events' = events
        /\ u \in {ToRecord(t, "deny"), Route(s), ToRecord(s, "deny")}
    <3>1. CASE GateApply(c)
      BY <1>1, <3>1 DEF GateApply, OnConflict
    <3>2. CASE GateEscalate(c)
      BY <1>1, <3>2 DEF GateEscalate, OnConflict
    <3> QED
      BY <1>13, <3>1, <3>2
  <2> HIDE DEF s
  <2>3. u.pc \in {"sample", "judge", "record"} /\ u.seq = t.seq
    BY <1>1, <1>2, <1>4, <2>1, <2>2
  <2> QED
    BY <1>11, <2>2, <2>3
<1>14. CASE GateJudge(c)
  <2>1. PICK d : u = ToRecord(t, d) \/ u = [t EXCEPT !.pc = "escalate"]
    BY <1>1, <1>14 DEF GateJudge
  <2>2. u.pc \in {"record", "escalate"} /\ u.seq = t.seq
    BY <1>1, <1>2, <2>1 DEF GateThreads
  <2>3. \E row \in EventRows : row.kind = "judge" /\ events' = Append(events, row)
    BY <1>1, <1>14, VerdictAppended
  <2>4. t.pc = "judge"
    BY <1>14 DEF GateJudge
  <2> QED
    BY <1>11, <2>2, <2>3, <2>4
<1>15. CASE GateSample(c)
  <2>1. t.pc = "sample" /\ events' = events /\ u = ToRecord(t, "allow")
    BY <1>1, <1>15 DEF GateSample
  <2> QED
    BY <1>1, <1>2, <1>11, <2>1
<1>16. CASE GateRecord(c)
  <2>1. PICK a : u = Return(t, a)
    BY <1>1, <1>16 DEF GateRecord
  <2> QED
    BY <1>3, <1>5, <2>1
<1> QED
  BY <1>6, <1>7, <1>8, <1>10, <1>12, <1>13, <1>14, <1>15, <1>16 DEF GateSteps

\* While a call is decided, nothing else writes but the executor, its verdicts.
LEMMA OthersWait ==
    ASSUME TurnInv, [Next]_vars, NEW c \in GateActive, ~GateSteps(c)
    PROVE  /\ Counters(run') = Counters(run)
           /\ \/ events' = events
              \/ \E row \in EventRows : IsVerdict(row) /\ events' = Append(events, row)
<1>1. Typed /\ Alone /\ c \in Calls
  BY DEF TurnInv, PInv, AInv, IInv, GateActive
<1>2. ASSUME NEW d \in Calls, GateSteps(d)
      PROVE  FALSE
  <2>1. d \in GateActive
    BY <1>2 DEF GateActive, GateSteps, GateClock, GateHistory, GatePropose, GateRules,
                GateApply, GateJudge, GateEscalate, GateSample, GateRecord
  <2> QED
    BY <1>1, <1>2, <2>1 DEF Alone
<1>3. ASSUME NEW p \in Reports, OutcomeCommit(p)
      PROVE  FALSE
  <2>1. p \in ReportActive
    BY <1>3 DEF OutcomeCommit, ReportActive
  <2> QED
    BY <1>1, <2>1 DEF Alone
<1>4. Counters(run') = Counters(run)
  BY <1>1, <1>3, CountersStay
<1>5. ASSUME NEW d \in Calls, GateRead(d)
      PROVE  events' = events
  BY <1>5 DEF GateRead
<1>6. ASSUME ReaperNext
      PROVE  events' = events
  BY <1>6 DEF ReaperNext, SweepClock, SweepSelect, SweepCommit
<1>7. ASSUME ApiNext
      PROVE  events' = events
  BY <1>3, <1>7 DEF ApiNext, RequestRead, RequestSteps, RequestClock, RequestCommit,
                    ReportClock, ReportSteps, HeartbeatCommit
<1>8. Fault => events' = events
  BY FaultFrame DEF Faulty
<1>9. CASE \E d \in Calls : JobSteps(d)
  BY <1>1, <1>4, <1>9, JobWrites
<1>10. CASE ~ \E d \in Calls : JobSteps(d)
  <2>1. events' = events
    BY <1>1, <1>2, <1>5, <1>6, <1>7, <1>8, <1>10, NextCases
       DEF GateNext, Quiescent, vars
  <2> QED
    BY <1>4, <2>1
<1> QED
  BY <1>9, <1>10

\* A verdict behind its back changes nothing for the call in turn.
LEMMA VerdictKeepsTurn ==
    ASSUME Typed, NEW t \in GateThreads, InTurn(t), Counters(run') = Counters(run),
           now \in Nat, now' \in Nat, now <= now',
           NEW row \in EventRows, IsVerdict(row), events' = Append(events, row), t' = t
    PROVE  InTurn(t)'
<1>1. PICK n : n = Len(events)
  OBVIOUS
<1>2. /\ n \in Nat /\ Len(events') = n + 1
      /\ DOMAIN events' = 1 .. n + 1 /\ DOMAIN events = 1 .. n
      /\ events'[n + 1] = row
      /\ \A i \in 1 .. n : events'[i] = events[i]
  BY <1>1 DEF Typed, TypeOK
<1>3. t.seen \in Nat /\ t.seq \in Nat /\ t.at \in Nat
  BY DEF GateThreads
<1>4. row.kind \notin {"proposed", "decision"}
  BY DEF IsVerdict
<1>5. ASSUME t.pc = "propose"
      PROVE  t.seen <= Len(events') /\ NoCalls(events', t.seen + 1, Len(events'))
  <2>1. t.seen <= n /\ NoCalls(events, t.seen + 1, n)
    BY <1>1, <1>5 DEF InTurn
  <2>2. \A i \in t.seen + 1 .. n + 1 :
            (i \in 1 .. n /\ i \in t.seen + 1 .. n) \/ i = n + 1
    BY <1>2, <1>3
  <2> QED
    BY <1>2, <1>3, <1>4, <2>1, <2>2 DEF NoCalls
<1>6. ASSUME t.pc = "rules"
      PROVE  t.seen <= t.seq - 1 /\ NoCalls(events', t.seen + 1, t.seq - 1)
  <2>1. /\ t.seen <= t.seq - 1 /\ NoCalls(events, t.seen + 1, t.seq - 1)
        /\ t.seq \in 1 .. n
    BY <1>2, <1>6 DEF InTurn
  <2>2. t.seen + 1 .. t.seq - 1 \subseteq 1 .. n
    BY <1>2, <1>3, <2>1
  <2> QED
    BY <1>2, <2>1, <2>2 DEF NoCalls
<1>7. ASSUME t.pc \in {"rules", "apply", "sample", "judge", "escalate", "record"}
      PROVE  t.seq \in DOMAIN events' /\ OpenCall(events', t.seq, "decision")
  <2>1. t.seq \in DOMAIN events /\ OpenCall(events, t.seq, "decision")
    BY <1>7 DEF InTurn
  <2> QED
    BY <1>4, <2>1, OpenStays
<1>8. ASSUME t.pc \in {"history", "propose"}
      PROVE  t.at <= now' /\ NoLater(events', t.at)
  <2>1. t.at <= now /\ NoLater(events, t.at)
    BY <1>8 DEF InTurn
  <2>2. \A i \in 1 .. n + 1 : i \in 1 .. n \/ i = n + 1
    BY <1>2
  <2> QED
    BY <1>2, <1>3, <1>4, <2>1, <2>2 DEF NoLater
<1>9. t.pc \in {"clock", "history", "propose", "rules"} =>
          Counters(t.snap.row) = Counters(run')
  BY DEF InTurn
<1> QED
  BY <1>5, <1>6, <1>7, <1>8, <1>9 DEF InTurn

LEMMA TurnWaits ==
    ASSUME TurnInv, [Next]_vars, NEW c \in Calls, ~GateRead(c), ~GateSteps(c)
    PROVE  InTurn(gate[c])'
<1>1. Typed /\ InTurn(gate[c]) /\ gate[c] \in GateThreads
  BY GateThread DEF TurnInv, PInv, AInv, IInv
<1>2. now \in Nat /\ now' \in Nat /\ now <= now'
  BY <1>1, StoreStepsOnly, StoreStepsClock DEF TurnInv, PInv, AInv, IInv
<1>3. \A t, a : Return(t, a).pc = "done"
  BY DEF Return, NewThread
<1>4. CASE gate'[c].pc \in {"new", "done"}
  BY <1>4 DEF InTurn
<1>5. CASE gate'[c].pc \notin {"new", "done"}
  <2>1. gate'[c] = gate[c]
    BY <1>1, <1>3, <1>5, GateOthers
  <2>2. c \in GateActive
    BY <1>5, <2>1 DEF GateActive
  <2>3. /\ Counters(run') = Counters(run)
        /\ \/ events' = events
           \/ \E row \in EventRows : IsVerdict(row) /\ events' = Append(events, row)
    BY <2>2, OthersWait
  <2>4. CASE events' = events
    <3>1. gate[c].at <= now => gate[c].at <= now'
      BY <1>1, <1>2 DEF GateThreads
    <3> QED
      BY <1>1, <2>1, <2>3, <2>4, <3>1 DEF InTurn
  <2>5. ASSUME NEW row \in EventRows, IsVerdict(row), events' = Append(events, row)
        PROVE  InTurn(gate[c])'
    BY <1>1, <1>2, <2>1, <2>3, <2>5, VerdictKeepsTurn
  <2> QED
    BY <2>3, <2>4, <2>5
<1> QED
  BY <1>4, <1>5

LEMMA ReportsStayBehind ==
    ASSUME TurnInv, [Next]_vars, OneWorker \/ UNCHANGED vars
    PROVE  ReportsFollow'
<1>0. Typed /\ Alone /\ ReportsFollow /\ LogSteps
  BY NextAnswers DEF TurnInv, PInv, AInv, IInv, LInv
<1> SUFFICES ASSUME NEW p \in Reports, report'[p].pc = "commit",
                    report'[p].kind = "outcome"
             PROVE  \E i \in DOMAIN events' : OpenCall(events', i, "outcome")
  BY DEF ReportsFollow
<1>1. CASE report'[p] = report[p]
  <2>1. PICK i \in DOMAIN events : OpenCall(events, i, "outcome")
    BY <1>0, <1>1 DEF ReportsFollow
  <2>2. \A q \in ReportActive : q = p
    BY <1>0, <1>1 DEF Alone, ReportActive
  <2>3. ASSUME NEW q \in Reports, OutcomeCommit(q)
        PROVE  FALSE
    <3>1. q = p
      BY <2>2, <2>3 DEF OutcomeCommit, ReportActive
    <3>2. \E a : report'[p] = Reported(report[p], a)
      BY <1>0, <2>3, <3>1 DEF OutcomeCommit, Typed, TypeOK
    <3>3. report'[p].pc = "done"
      BY <3>2 DEF Reported, NewReport
    <3> QED
      BY <3>3
  <2>4. \/ events' = events
        \/ \E row \in EventRows : row.kind # "outcome" /\ events' = Append(events, row)
    BY <1>0, <2>3 DEF LogSteps, NoteOnly, DecisionOf
  <2>5. CASE events' = events
    BY <2>1, <2>5
  <2>6. ASSUME NEW row \in EventRows, row.kind # "outcome", events' = Append(events, row)
        PROVE  i \in DOMAIN events' /\ OpenCall(events', i, "outcome")
    BY <1>0, <2>1, <2>6, OpenStays
  <2> QED
    BY <2>4, <2>5, <2>6
<1>2. CASE report'[p] # report[p]
  <2>1. ReportClock(p)
    BY <1>0, <1>2, ReportStarts
  <2>2. report[p].pc = "new" /\ events' = events
    BY <2>1 DEF ReportClock
  <2>3. OneWorker
    BY <1>2 DEF vars
  <2>4. OutcomeOwed
    BY <2>2, <2>3 DEF OneWorker
  <2>5. \E i \in DOMAIN events : OpenCall(events, i, "outcome")
    BY <2>4 DEF OutcomeOwed, OpenCall
  <2> QED
    BY <2>2, <2>5
<1> QED
  BY <1>1, <1>2

LEMMA InitTurn == Init => TurnInv
<1> SUFFICES ASSUME Init PROVE TurnInv
  OBVIOUS
<1>1. /\ events = <<>> /\ run.errors = 0
      /\ \A c \in Calls : gate[c].pc = "new"
      /\ \A p \in Reports : report[p].pc = "new"
  BY DEF Init, StoreInit, GateInit, ApiInit, NewRun, NewThread, NewReport
<1>2. PInv /\ LInv
  BY InitProposals, InitReplay
<1>3. Streak = {}
  BY <1>1 DEF Streak, Outcomes
<1>4. StreakFits
  BY <1>1, <1>3, FS_EmptySet DEF StreakFits
<1>5. GateActive = {} /\ ReportActive = {}
  BY <1>1 DEF GateActive, ReportActive
<1>6. Alone
  BY <1>5 DEF Alone
<1>7. OncePerCall /\ LogDated
  BY <1>1 DEF OncePerCall, LogDated, NoLater
<1>8. (\A c \in Calls : InTurn(gate[c])) /\ ReportsFollow
  BY <1>1 DEF InTurn, ReportsFollow
<1> QED
  BY <1>1, <1>2, <1>4, <1>6, <1>7, <1>8 DEF TurnInv

LEMMA NextTurn ==
    ASSUME TurnInv, [SerialNext]_vars
    PROVE  TurnInv'
<1>1. [Next]_vars /\ (OneWorker \/ UNCHANGED vars)
  BY DEF SerialNext, WorkerEnds
<1>2. PInv' /\ LInv' /\ Typed /\ Typed'
  BY <1>1, NextProposals, NextReplay DEF TurnInv, PInv, AInv, IInv
<1>3. StreakFits'
  BY <1>1, StreakStays DEF TurnInv
<1>4. Alone'
  <2>1. CASE OneWorker
    BY <1>1, <1>2, <2>1, StaysAlone DEF TurnInv, OneWorker
  <2>2. CASE UNCHANGED vars
    <3>1. GateActive' = GateActive /\ ReportActive' = ReportActive
      BY <2>2 DEF vars, GateActive, ReportActive
    <3> QED
      BY <2>2, <3>1 DEF vars, TurnInv, Alone
  <2> QED
    BY <1>1, <2>1, <2>2
<1>5. OncePerCall' /\ LogDated'
  BY <1>1, OrderStays
<1>6. ASSUME NEW c \in Calls
      PROVE  InTurn(gate[c])'
  BY <1>1, <1>2, TurnGoesOn, TurnWaits
<1>7. ReportsFollow'
  BY <1>1, ReportsStayBehind
<1> QED
  BY <1>2, <1>3, <1>4, <1>5, <1>6, <1>7 DEF TurnInv

\* One worker waits for its answers and reports each call once; the executor
\* judges beside it whenever it likes, and anything may fail.  Then no detector
\* fires that the whole log does not justify, however many calls went before: the
\* last rows and the counters prove too much for none of them.  Budget and error
\* streak never miss either.  Call rate and loop miss nothing as long as the
\* history holds at most one judge's or stale row per call, and one more: the four
\* rows per call of gate.py _EVENTS_PER_CALL are enough then, provided that the
\* loop window is no longer than the calls the rate threshold fetches
\* (_history_limit).
THEOREM HistorySuffices ==
    ASSUME LoopWindow \in 1 .. CallRatePerMinute + 1
    PROVE  SerialSpec => []DetectorsSeeTheLog
<1>1. TurnInv => DetectorsSeeTheLog
  BY RulesSeeTheLog
<1>2. Init => TurnInv
  BY InitTurn
<1>3. TurnInv /\ [SerialNext]_vars => TurnInv'
  BY NextTurn
<1> QED
  BY <1>1, <1>2, <1>3, PTL DEF SerialSpec
=============================================================================

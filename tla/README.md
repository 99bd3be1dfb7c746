# Verification of the agent quarantine control plane

TLA+ models of `src/quarantine/`, the TLC runs that check them on small
instances, and TLAPS proofs of the results that matter most for every instance.

The control plane decides, for every tool call an agent run proposes, whether
the call may go ahead, and moves the run up and down a *quarantine ladder*
(HEALTHY, DEGRADED, FROZEN, TERMINATED) as rules, a judge model, silence, or a
human say. Everything it knows is in one SQLite file; every handler reads the
run, thinks (sometimes for seconds, while a judge answers), and writes back. What
makes it hard is that many handlers do so at once for the same run.

## 1. Inventory

| Part | State it keeps | Operations | Model |
|---|---|---|---|
| Ladder: `domain/states.py`, `domain/machine.py` | none (a transition table) | `escalate`, `auto_recover`, `release`, `complete`, `terminate` | `Ladder`, `ContainmentLadder` |
| Registry: `domain/registry.py` | none (a table of tool risks) | `risk_of` | `Ladder` |
| Records: `domain/models.py` | none | `Run`, `Event`, `Transition` | `Store` |
| Rules: `domain/rules.py` | none (pure functions) | six detectors, `first_firing` | `Rules`, `Detectors` |
| Gate: `gate.py` | the local variables of each call; the executor's queue | `decide`, `_judge_now` | `Gate` |
| Store: `sqlite_store.py`, `store.py` | rows of `runs`, `transitions`, `events` | one method per transaction | `Store` (one run), `Fleet` (the tables) |
| Reaper: `reaper.py` | the local variables of each sweep | `sweep` | `Reaper` (one run), `Fleet` (its loop) |
| HTTP API: `api.py` | the local variables of each request | register, gate, outcome, heartbeat, complete, release, terminate, reads | `Api` (writers), `Fleet` (register, `run_detail`) |
| Process: `main.py` | a pool of two threads for background judging | `build` | `ControlPlane` |
| Clock: `clock.py` | wall-clock time | `now` | `Store` |
| Judge: `judge.py` | none (an HTTP call) | `evaluate` | its answers, in `Gate` |
| Worker SDK: `sdk.py` | the local variables of each `guard()` | `guard`, `gate`, `report`, `heartbeat`, `complete` | `Worker` |
| Settings: `config.py` | none | `from_env` | its two checks, as assumptions of `Gate` |
| Errors: `errors.py` | none | exceptions | the answers of the threads |

**How the parts interact.** A worker's SDK posts to the API. The API's gate
handler calls `Gate.decide`, which calls the store, the clock, the rules, the
judge, the machine and the store again, and may hand a background judging to the
executor. The worker obeys the answer or, when it gets none, decides by the tool's
risk alone. A reaper and the other handlers call the clock, the machine and the
store. No part calls back; the parts meet in the store, and only there. Each
store method is one transaction of SQLite, which has a single writer: methods are
atomic and anything may run between two of them.

**What is hard.**

* *Stale snapshots.* Every writer bases its move on a row it read some steps (or
  a judge's timeout) ago. `record_state_change` compares a revision token, the
  state, and for the reaper the heartbeat, under the write lock, and
  `record_decision` compares them once more for the answer.
* *Round trips.* A run can be degraded and recovered while a thread waits, so
  the state alone does not tell that anything happened.
* *Dates.* Threads read the clock before they commit, in different orders
  (`reaper.py` reads it before the rows), and intervals between dates decide
  recoveries and escalations.
* *Order of reads and appends.* The history is read before the proposal is
  appended, the cadence of background judging is counted after it, both while
  other calls append.
* *The transport.* A request, its answer or a report can be lost or come late; the
  worker then goes by its own tiering while the server may still decide otherwise.
* *Measures.* Thresholds count calls, the history is fetched in log rows: a factor
  (`_EVENTS_PER_CALL`) must cover every row a call can write.
* *Several runs.* One sweep escalates many runs from one clock reading and one
  SELECT; transitions share one id sequence while revisions are per run; an
  operator's page comes from two sessions.
* *Faults.* The store can fail between any two steps (`StoreUnavailable`), and
  the process can die with its threads and its in-memory queue.

**What makes each part correct.** Ladder: only the moves of its table, in
sequence, spaced as documented. Store: the audit rows explain the state; the
counters are the log; telemetry never rewinds. Gate: an answer never contradicts
the state in force; an objection is never overruled by a race; the cadence and
the loop count are exact; a call that is accepted is answered. Reaper: one rung
per timeout, only for a run that is silent when it commits, and no run skipped for
another's sake. API: a request
that lost a race changes nothing. Rules: each detector computes its definition.
SDK: a worker cut off from the server runs no HIGH tool the server did not clear.

`PROJECT.json` lists the hazards, each at its line with the properties that
would catch it.

## 2. Modules

```
Ladder --- Rules ----.
 | \                  \
 |  Store ---------- Gate --.                    .--- Worker --- MCWorker        (TLC)
 |     \---- Reaper ---------ControlPlane ------+
 |      \--- Api -----------/      |             `--- Detectors --- MCControlPlane (TLC)
 |                          ContainmentLadder
 |                                 |
 `------------ Fleet --------------'--- MCFleet                                  (TLC)

proofs:  ControlPlane_proofs --- Containment_proofs --- Silence_proofs
                                                 `----- Answers_proofs --- Cadence_proofs --- Detectors_proofs
                                                                    `----- Worker_proofs
         Fleet_proofs
```

* **`Ladder`** has no variables: the states, decisions, severities and causes,
  the escalation and release tables, `Permitted` (which moves `machine.py` builds
  and which raise `IllegalTransition`), and the registry's `RiskOf`.
* **`Rules`** has the six detectors as predicates of a context (row, tool, args,
  history, audit rows, time) and `IsFirstFiring`, the order of `RULES`.
* **`Store`** has the run's row, its audit rows, its log and the clock, and one
  operator per store method saying what that transaction does.
* **`Gate`** has `decide` as a thread per call. Each action is one call of the
  store, the clock or the judge with the code up to the next one:
  `GateRead` (`get_run`, terminated runs refused), `GateClock`, `GateHistory`
  (`recent_events`), `GatePropose`, `GateRules` (audit rows read, first rule or
  recovery chosen), `GateApply` (the escalation or recovery, then routing by state
  and risk), `GateJudge` (the verdict and its JUDGE row), `GateEscalate`,
  `GateSample` (cadence of background judging), `GateRecord`
  (`record_decision`). `JobRead` ... `JobDiscard` are `_judge_now` on a worker
  of the executor.
* **`Reaper`** has `sweep` as `SweepClock`, `SweepSelect`, `SweepCommit`.
* **`Api`** has complete, release and terminate as `RequestRead`,
  `RequestClock`, `RequestCommit`, and heartbeat and outcome as `ReportClock`
  and a commit.
* **`ControlPlane`** composes them, adds store outages (one per kind of thread)
  and crashes, states fairness, the properties and the refinement.
* **`ContainmentLadder`** is what all of it promises about one run: `state`,
  `audit`, `now`, and seven actions. `ControlPlane` implements it under
  `state <- run.state, audit <- transitions`.
* **`Worker`** has `guard()` as a thread per call on top of `ControlPlane`:
  `GuardCall` posts, `GateReply` obeys a decision, a 409 or a 503, `ConnectionLost`
  goes by `_offline_decision`, `RunTool` runs the action, `GuardReturns` ends it
  whether or not its report arrived. `OnlyPosted` constrains the server's steps to
  requests that were posted; such a request may arrive at any later time, or never.
* **`Detectors`** restricts `ControlPlane` to one worker that calls one tool at a time and
  reports each call at most once, with the executor judging beside it whenever its threads
  get to it. It states what four detectors are for over the whole log, to be compared with
  what they conclude from the bounded context the gate builds.
* **`Fleet`** has the tables of several runs: registration, the sweep's loop over what
  one SELECT returned, a store outage that cuts it short, and `run_detail`. What other
  handlers do to a run is one legal move there, or a report.
* **`MCControlPlane`**, **`MCWorker`**, **`MCFleet`** give values to constants that a
  configuration cannot write. They hold no property.

Modelling decisions a reader should know:

* *One run in `ControlPlane`, several in `Fleet`.* Runs share no row; rules, counters,
  revisions and audits are per run. What they share is the executor (its workers are
  modelled, with as many queued judgings as there are calls), the sweep and the
  sequence of audit ids (both in `Fleet`). `Fleet` lets any other handler commit any
  legal, dated move; that no handler does anything else is `ImplementsLadder`.
* *Revision.* The code's `state_revision` is the id of the run's last audit row,
  compared only for equality; in `ControlPlane`, with one run, it is the number of
  audit rows, in `Fleet` the id as the code has it.
* *Heartbeats* are ISO texts in the database, all in UTC and of one format, so that
  `MAX` and `<` on the texts are those of the times; the model compares times.
* *Ghosts.* In `Worker`, `over` (the budget was spent when `guard()` was
  called); in `Fleet`, `selected` (what a sweep began with). On log rows, `by`
  (the call a row was written for) and `rev` (the revision at which it was
  written) are not columns; no action reads them. A DECISION's payload does
  hold its revision.
* *The judge* answers anything in `JudgeAnswers`, in the step that appends its
  row. The trajectory it is shown is not modelled, since its answer does not
  depend on it here. Its latency is the time other threads may run before that
  step.
* *Sequence numbers.* `Gate._append` reads `next_seq`, but `append_event`
  allocates the number inside its INSERT; the read is advisory and left out.
* *Time* advances by `Tick`, at any moment and never backwards, in whole units.
  `SystemClock` is `datetime.now`, which an operating system may set back; that
  is outside the model.
* *Faults.* An outage makes a thread's next store call do nothing and end the
  thread with 503; the effects it committed before remain. A crash ends every
  thread and empties the queue; the store remains. The process is back at once.
* *Texts* (reasons, previews, digests, actors' names, the judge's rationale) are
  left out; a tool's arguments are a member of `Args`, the equality of digests.
* *Unnamed tools.* A gate request may name the tool "", which `loop` skips in the log
  (rules.py:46) and still compares as the call at hand. `Unnamed` is that name; it is
  unclassified, hence HIGH. `serial` has such a tool.

## 3. Runs

| Run | Instance | What it shows |
|---|---|---|
| `races_and_faults` | 2 calls (LOW or HIGH), each may queue a judging, 1 request, 1 outage or crash, loop rule at 2 | `TypeOK`; `AuditExplainsState`: the audit rows are a chain that ends in the present state; `AnswersFitTheRun`: no DECISION contradicts the state in force when it is recorded, and a HIGH call is allowed only on a HEALTHY run its own judge cleared at that revision; `RefinesLadder`: every behaviour is one of `ContainmentLadder` |
| `stale_verdict` | 3 HIGH calls, recovery after 1 | `AuditTimesAdvance`, `RecoveryWaits`: with one call holding a verdict while the others degrade and recover the run, dates stay in order and a recovery waits a full interval |
| `background` | 3 LOW calls, every 2nd queued, a judge that objects, 1 report, loop rule at 2 | `CadenceExact`: every second LOW proposal whose call is allowed is queued and no other LOW one, however counting interleaves; `LoopFiringsAreReal`: the loop rule fires only if a signature was proposed that often; `AdverseVerdictBinds`: an objection is dropped only if the run has moved from the state that was judged |
| `silence` | 2 reapers, 2 reports, 1 outage or crash, 3 ticks, counters up to 3 | `SilenceWaits`: one rung per timeout window; `ReaperActsOnSilence`: never against a worker that reported before the commit; `HeartbeatNeverRewinds`; `CountersMatchLog`: the counters are the log replayed and never exceed the bound; `RefinesLadder` |
| `serial` | one worker, 4 calls of a LOW and of an unnamed tool, 3 outcomes, every 2nd LOW call judged by a thread of the executor, a history of 8 rows | `DetectorsSeeTheLog`: although the log outgrows the history, no detector fires that the whole log does not justify; budget and error streak miss nothing; loop and call rate miss nothing while the executor keeps up (`FewVerdicts`) |
| `worker` | 2 guards of a HIGH tool, 1 report that spends the budget, 1 outage or crash, any loss | `HighRunsWereCleared`: a HIGH tool runs only if the server cleared and allowed it; `BudgetStopsHighCalls`: none runs that was asked for after the budget was spent; `AdverseVerdictBinds`: telemetry does not make an objection conflict |
| `fleet` | 2 runs, 1 sweeper, 1 read, 1 foreign move, 1 outage | `FleetTypeOK`; `SweptRunsSettled`: no sweep that comes to its end skips a run because of another; `DetailExplains`: the operator's page explains the state it shows; `EachRunClimbsTheLadder`: each run alone refines `ContainmentLadder`; `DueRunEscalated`: a silent run does not stay due |
| `liveness` | 2 calls, 1 worker of the executor, 1 fault, `FairSpec` | `EveryCallAnswered`, `QueuedJudgingEnds` |
| `looped_low_call` | 3 LOW calls with equal arguments | a document's claim, violated (below) |
| `recovery_not_clean` | 3 HIGH calls | a document's claim, violated |
| `terminated_race` | 1 call, 1 request | a document's claim, violated |
| `loop_window` | 4 equal LOW calls with their outcomes, window 4, rate threshold 1 | a comment's claim, violated |

**Bounds, and why they are enough.** `MaxClock` stops the clock, `MaxFaults` and
`MaxOutages` count faults, `MaxMoves` the foreign moves of `fleet`; each call, guard,
request and report is made once; reapers sweep again and again. Nothing else is
bounded: logs are as long as the calls make them. The hazards need at most three
actors (one waiting with a snapshot, one that moves the run, one that moves it back)
and one interval; each run has at least the actors its hazard needs, and thresholds
of 1, 2 or 3 so that an interval or a streak elapses within the clock. In `serial`
four calls of up to three rows, and the rows of two judgings, outgrow a history of eight. `MaxCounter = 3` with some
reports of 2 makes the counter bound bite on the second report. In `fleet`, two runs
suffice for one to stand in the other's way, and its sweep can end by the clock, by
an outage in the middle, or by a conflict. A threshold of 9 switches a rule off where
a run is about something else. The mutants (one per property and run, in `PROJECT.json`)
are a check of all that: each is a bug someone could write in the mapped code, and the
run of that property finds it. The theorems of section 5 remove the bounds.

Calls are symmetric in the safety runs, calls and reports in `serial` and
`loop_window`, reports in `silence`; the two runs with liveness properties use no
symmetry. Runs have no deadlock: when all is answered and the clock is at its bound,
`Quiescent` (`WorkersDone`, `WorkerEnds`) stutters.

**Fairness.** `FairSpec` is weakly fair to each thread that has started: a thread
of the server or the executor is scheduled, SQLite's lock is free after every
COMMIT, and the judge's transport timeout bounds its answer (a timeout is the
answer "unavailable"). Nothing is assumed of clients, the clock, sweeps or faults,
so the liveness properties say that what was *accepted* ends, and a queued judging
may end by being lost with its process. `FairFleetSpec` is weakly fair to each
sweeper: a deployment that runs the reaper calls `sweep` over and over. That is an
assumption about the deployment, since `main.py` schedules none (README.md:232 of the
repository says so); `DueRunEscalated` shows what such a schedule would give, against
outages that end a sweep between two runs.

## 4. What the code does and its documents do not say

* **A looping LOW call is allowed.** The design specification
  (`docs/superpowers/specs/2026-09-17-agent-quarantine-design.md:197-198`)
  says the third identical request "is refused before it runs". `decide` moves
  the run to DEGRADED and then allows the call, since a LOW tool is allowed
  there. Run `looped_low_call`, property `LoopedCallRefused`.
* **A recovery can have an adverse verdict in its interval.** ADR-0002:77-78
  says an interval is clean if there was no rule firing and no adverse verdict.
  `_apply_rules` looks at the date of the last transition; a verdict whose
  escalation lost its race left none. Run `recovery_not_clean`, property
  `RecoveryMeansClean`.
* **A proposal may stay undecided.** `decide` says (gate.py:54) that every call
  appends a PROPOSED and a DECISION row. If the run is terminated in between,
  `record_decision` raises before it appends. Run `terminated_race`, property
  `EveryProposalDecided`.
* **The loop window can hold fewer calls than it says.** rules.py:40-44 says that
  `loop_window` counts calls and not log rows. `_history_limit` (gate.py:218) fetches
  it as rows, without the factor of four, so that a window larger than the rate
  threshold's rows shrinks. The default settings (10 and 60) are not affected. Run
  `loop_window`, property `LoopWindowCountsCalls`.

## 5. Proofs

`tlapm` checks these for all values of the constants, from the constants'
named assumptions (numbers are naturals, risks are risks, `None` is no tool,
call, digest or cause; `JudgeTrajectory` and `JudgeEvery` are not 0, as
`config.py` demands). Every invariant and every action property that a passing
run checks is here:

| Theorem | States |
|---|---|
| `TypeCorrect` (`ControlPlane_proofs`) | `Spec => []TypeOK` |
| `AuditIsComplete` (`Containment_proofs`) | `Spec => []AuditExplainsState` |
| `AuditIsDated` | `Spec => []AuditTimesAdvance` |
| `RecoveryIsSpaced` | `Spec => []RecoveryWaits` |
| `SilenceIsSpaced` | `Spec => []SilenceWaits` |
| `ImplementsLadder` | `Spec => RefinesLadder` |
| `ReaperHitsOnlySilence` (`Silence_proofs`) | `Spec => ReaperActsOnSilence` |
| `HeartbeatsAdvance` | `Spec => HeartbeatNeverRewinds` |
| `AnswersAreJustified` (`Answers_proofs`) | `Spec => []AnswersFitTheRun` |
| `VerdictsBind` | `Spec => AdverseVerdictBinds` |
| `CadenceIsExact` (`Cadence_proofs`) | `Spec => []CadenceExact`, given an executor (`JudgeWorkers > 0`): every `JudgeEvery`-th LOW proposal whose call is allowed is queued, and no other LOW one |
| `CountersAreTheLog` (`Detectors_proofs`) | `Spec => []CountersMatchLog` |
| `LoopsAreReal` | `Spec => []LoopFiringsAreReal` |
| `HistorySuffices` | `SerialSpec => []DetectorsSeeTheLog`, given a loop window of 1 to `CallRatePerMinute + 1` calls; background judging and faults included |
| `WorkersAddNothing` (`Worker_proofs`) | `WorkerSpec => Spec` |
| `SafeModeIsSafe` | `WorkerSpec => []HighRunsWereCleared` |
| `BudgetIsFinal` | `WorkerSpec => []BudgetStopsHighCalls` |
| `FleetIsTyped` (`Fleet_proofs`) | `FleetSpec => []FleetTypeOK` |
| `DetailsExplain` | `FleetSpec => []DetailExplains` |
| `SweptRunsAreSettled` | `FleetSpec => []SweptRunsSettled` |
| `EachRunClimbs` | `FleetSpec => EachRunClimbsTheLadder` |

*The argument.* `TypeOK` is not inductive: `NextRung` and `CauseOf` have a value
only where the thread's program counter says so. `Typed` adds `Fits`: at each step
a thread's variables allow what the next one does with them (the rules run only on
a rung that has a next one, a request commits only a permitted move, and so on).
A *frame* lemma per kind of thread reduces each action to the thread it moves and
the store.

`IInv` adds what makes optimistic concurrency right. Every snapshot is *coherent*,
the run as it was at the snapshot's revision, whatever has happened since; and a
thread that has read the clock has a date that is not older than its snapshot
(a reaper reads the clock first, and `Reapable` compares the two). `StoreStepsOnly`
shows that each step leaves state, since and audit alone or is one `StoreMoves`, a
legal move by a coherent snapshot that passed `Fresh`; `FreshMeansCurrent` that such
a snapshot has the state and the date of the last audit row. The four audit
invariants and the refinement follow from those two facts alone. `IInv` was
model-checked on the instances of `races_and_faults`, `stale_verdict` and `silence`
before it was proved. The others add to it:

* `SInv`: a reaper that goes on to commit read a silent run. Its commit compares the
  heartbeat, so the run is silent still.
* `AInv`: every row of the log carries the revision it was written at, and what it
  says of that revision stays true, since the audit rows only grow. A thread that
  wants to allow a HIGH call read the run HEALTHY and has its own judge's "clear" in
  the log; `record_decision` keeps the answer only at the revision the thread read,
  and at one revision there is one state. `VerdictsBind` needs only coherence: a
  snapshot that is no longer fresh is older than the last move, and moves change
  the state.
* `CInv` (on `AInv`): the log only grows, so the ordinal of a proposal is fixed when
  it is appended; a call appends one proposal, samples it by its own sequence number,
  and no other step makes or unmakes a judging.
* `WInv` (on `AInv`): a guard that acts on a HIGH tool has an ALLOW of that tool in
  the log, because the offline decision never allows one. `BInv`: counters never go
  down, so every snapshot a call reads after the budget was spent shows it, and the
  first rule fires on each of its tries.
* `PInv` (on `AInv`) is what the log holds of the calls: one proposal each, with the
  tool and the digest its thread remembers, later than the rows its history was read
  from. `CInv` above and the two below rest on it.
* `LInv` (on `AInv`): there is a replay of the log, and every replay arrives at the
  counters of the run. What a recursive definition computes cannot be proved by
  induction over the log, so the invariant carries it along the behaviour instead: each
  step appends at most one row, and an outcome adds to the counters what its row says.
* `LoopInv` (on `PInv`): when the loop rule fires, the rows it compared, the call's own
  proposal among them, are mapped one to one to proposals of the log with the same
  signature, which stay there.
* `TurnInv` (on `PInv` and `LInv`, for one worker): at most one thread of the server
  runs for it (`Alone`), and no call is asked for between a call's reading of the history
  and its decision (`InTurn`), though judges may append rows there and anywhere else.
  Between two decisions, or two outcomes, stands a proposal (`OncePerCall`), proposals are
  dated in order (`LogDated`), a call's snapshot still has the run's counters when the
  rules read it, and the counter of errors is the length of the streak (`StreakFits`). So
  rows that hold `P` proposals hold at most `P + 1` decisions and as many outcomes, and
  with at most `P + 1` rows of judges they are at most `4 P + 3`: a history of
  `4 (CallRatePerMinute + 1)` rows that is cut holds at least `CallRatePerMinute + 1`
  calls. If a call within the minute was cut off, all calls of the history are within the
  minute and the rate is exceeded with or without it; the rows of a loop window of that
  length are all in the history. Neither condition is an artefact. Run `loop_window`
  (section 4) shows the loop rule wrong beyond the bound on the window. When judges write
  more, the call rate can be blind: with a threshold of one call and every LOW call judged,
  the log `P D P J D J O P D J O P` (proposals, decisions, judgings, outcomes) has its
  fourth call read the eight rows before it, which hold one proposal of three. With the
  defaults (60 calls, every 10th judged) that takes a backlog of some sixty judgings. That
  no detector fires without cause needs neither, since the history is the end of the log.
* `FInv` (for `Fleet`): what a sweep selected is the run as it was; if none of that
  run's audit rows is newer, then its revision and its state are what they were and
  only a newer heartbeat can have made the commit fail.
* `RInv` (on `FInv`): each run's audit rows, ranked by their ids, are a chain in which a
  move starts where the one before it ended, and its last row explains the state in the
  run's own row, so that one more row is one more at the end of its run's chain and none
  of another's. A page that has read the run and not yet its audit rows holds a row no
  newer than the run's, still explained by the chain: `DetailsExplain` needs that the
  run is read first, since rows added between the two reads can only prolong the chain.
  `EachRunClimbs` maps each step to one move of one run's ladder and a stutter of the
  others.

`RInv` was checked on the instance of `fleet`, and `TurnInv` on those of `serial` and
`loop_window`, before they were proved. So that they can be reasoned about, the filters
and slices of `Rules` and the audit rows of one run in `Fleet` are sets of indices and
functions on them, not `SelectSeq` or folds: an operator that takes an operator is
opaque to the installed provers.

*Only model-checked*: `EveryCallAnswered`, `QueuedJudgingEnds` and `DueRunEscalated`,
since liveness under fairness is out of the prover's reach, and of course the four
violations of section 4. No recursive operator is used in the
proved modules; `Replayed` is a recursive function.

*What the properties leave open.* `AnswersFitTheRun` and `AdverseVerdictBinds` judge
decisions and objections that were dropped by threads which lived: an adverse verdict
whose thread a fault ended stays in the log and nothing applies it. `QueuedJudgingEnds`
counts a judging lost with its process as ended. `SweptRunsSettled` says nothing of a
sweep that an outage ended, and `EachRunClimbsTheLadder`, a safety property, nothing of
a run that is skipped: that every due run is dealt with in the end is `DueRunEscalated`.
`CadenceExact` says nothing of calls that ended otherwise than allowed. `DetectorsSeeTheLog`
is about one worker of a run; several at once are in `background` (`LoopFiringsAreReal`)
and `worker` (`BudgetStopsHighCalls`).

## 6. Not modelled

* Authentication, HTTP parsing and the console: requests are those of operators who
  passed `_operator`; nothing else depends on them.
* The judge's prompt and the parsing of its answer are text for an external model;
  every failure is `JudgeUnavailable`, which the model has as an answer.
* `Settings.from_env` and start-up: parsing; the two values it validates are
  assumptions of `Gate`.
* `list_runs` and `trajectory`: reads of one statement, whose answer is a state the
  invariants describe.
* The schema and its migrations; `save_run` and `append_transition`, which no code
  under `quarantine/` calls and which would bypass the revision check.
* The clock being set back (above).

What is left to do: the answers of several processes over one database file (the
store's locking would allow it; two executors would count cadences together), the
trajectory a judge is shown when concurrent calls push its own proposal out of the
window, and a reference definition of `flap` and `wall_clock` beside the four
detectors compared now.

## 7. Reading and running

Start with `ContainmentLadder`, then `Store` and `Gate`, then the properties in
`ControlPlane`; `Worker`, `Detectors` and `Fleet` are read on their own after that. To
run: `tlc -config <run>.cfg <module>.tla` with the module `PROJECT.json` names for the
run (`MCControlPlane`, `MCWorker` for `worker`, `MCFleet` for `fleet`), and
`tlapm <module>_proofs.tla`.

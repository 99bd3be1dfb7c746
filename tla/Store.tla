------------------------------- MODULE Store -------------------------------
(***************************************************************************)
(* The run store (sqlite_store.py, store.py) for one run, and the clock.   *)
(*                                                                         *)
(* SQLite has a single writer: each method below is one implicit           *)
(* transaction or one BEGIN IMMEDIATE ... COMMIT, so it is one atomic step *)
(* of whichever thread calls it, and any other thread may run between two  *)
(* calls.  The operators say what a call does to the store; the modules    *)
(* that extend this one say which thread calls it when.                    *)
(*                                                                         *)
(* Runs never share a row, so one run is modelled.  Its log `events` is    *)
(* append-only, hence seq = MAX(seq) + 1 is the position of a row.  Its    *)
(* `state_revision` is the id of its last transition: an opaque token      *)
(* compared only for equality, here the number of transitions.             *)
(***************************************************************************)
EXTENDS Ladder, Sequences, FiniteSets

CONSTANTS
    Calls,        \* gate calls: who asked, recorded in the ghost field `by`
    Args,         \* args_digest values
    MaxCounter,   \* store.MAX_COUNTER, 2^63 - 1 in the code
    MaxClock      \* bound: the clock stops here

ASSUME StoreAssumption ==
    /\ MaxCounter \in Nat
    /\ MaxClock \in Nat
    /\ None \notin Calls \cup Args

VARIABLES
    run,          \* the row of `runs`
    transitions,  \* the audit rows, oldest first
    events,       \* the log rows, oldest first
    now           \* what clock.now() returns

storeVars == <<run, transitions, events>>

-----------------------------------------------------------------------------
RunRows ==
    [state : States, since : Nat, heartbeat : Nat,
     tokens : Nat, cost : Nat, calls : Nat, errors : Nat]

TransitionRows ==
    [from : States, to : States, cause : Causes, actor : Actors, at : Nat]

EventKinds == {"proposed", "decision", "outcome", "judge", "system"}

\* What the payload of a row says, as far as a property can tell.
Says == Decisions \cup Severities \cup {"unavailable", "ok", "failed", "stale", "-"}

\* `by` and, except in a DECISION, `rev` are ghosts: the call a row was
\* written for and the revision when it was written.
EventRows ==
    [kind : EventKinds, by : Calls \cup {None}, tool : Tools \cup {None},
     args : Args \cup {None}, says : Says, tokens : Nat, cost : Nat,
     at : Nat, rev : Nat]

\* What a thread keeps of get_run: the row and its state_revision.
Snapshots == [row : RunRows, rev : Nat]

-----------------------------------------------------------------------------
(* register, create_run: HEALTHY, no counters, the clock read once.        *)
NewRun ==
    [state |-> "healthy", since |-> 0, heartbeat |-> 0,
     tokens |-> 0, cost |-> 0, calls |-> 0, errors |-> 0]

StoreInit ==
    /\ run = NewRun
    /\ transitions = <<>>
    /\ events = <<>>
    /\ now = 0

NoSnapshot == [row |-> NewRun, rev |-> 0]

Revision == Len(transitions)

\* RUN_SELECT: the row together with its revision.
Read == [row |-> run, rev |-> Revision]

Event(kind, call, says) ==
    [kind |-> kind, by |-> call, tool |-> None, args |-> None, says |-> says,
     tokens |-> 0, cost |-> 0, at |-> 0, rev |-> Revision]

\* append_event: seq is allocated inside the INSERT.
AppendEvent(row) == events' = Append(events, row)

-----------------------------------------------------------------------------
(* record_state_change: the only writer of the state.                      *)

\* Plausible bugs: no check lets a stale decision overwrite a newer one; the
\* state alone does not tell a round trip; the whole row loses to telemetry.
Unchecked(snap) == TRUE

SameState(snap) == run.state = snap.row.state

SameRow(snap) == snap.rev = Revision /\ run = snap.row

\* The revision check and the from_state check, under the write lock.
Fresh(snap) ==
    /\ snap.rev = Revision
    /\ run.state = snap.row.state

\* Plausible bug: the reaper does not pass it.
HeartbeatIgnored(snap) == TRUE

\* expected_heartbeat, which only the reaper passes.
SameHeartbeat(snap) == run.heartbeat = snap.row.heartbeat

\* The UPDATE of the row and the INSERT of its audit row.
RecordStateChange(snap, to, cause, actor, at) ==
    /\ run' = [run EXCEPT !.state = to, !.since = at]
    /\ transitions' = Append(transitions,
            [from |-> snap.row.state, to |-> to, cause |-> cause,
             actor |-> actor, at |-> at])

\* ConcurrentStateChange: the transaction rolls back.
Conflict == UNCHANGED <<run, transitions>>

-----------------------------------------------------------------------------
(* record_decision: the answer that is recorded, given the one asked for.  *)

\* Plausible bug: trusts the snapshot the decision was based on.
DecisionAsAsked(want, snap) == want

FinalDecision(want, snap) ==
    IF run.state = "frozen" THEN "freeze"
    ELSE IF want = "allow" /\ snap.rev # Revision THEN "deny"
    ELSE want

-----------------------------------------------------------------------------
(* record_outcome and touch_heartbeat.                                     *)

\* Plausible bug: the last writer wins.
ArrivalTime(at) == at

LatestHeartbeat(at) == IF run.heartbeat > at THEN run.heartbeat ELSE at

TouchHeartbeat(at) == run' = [run EXCEPT !.heartbeat = LatestHeartbeat(at)]

\* Plausible bug: a success does not end the streak.
ErrorsSoFar(ok) == IF ok THEN run.errors ELSE run.errors + 1

NextErrors(ok) == IF ok THEN 0 ELSE run.errors + 1

\* No counter would pass the largest integer SQLite stores.
CountersFit(ok, tokens, cost) ==
    /\ run.tokens + tokens <= MaxCounter
    /\ run.cost + cost <= MaxCounter
    /\ run.calls + 1 <= MaxCounter
    /\ NextErrors(ok) <= MaxCounter

RecordOutcome(ok, tokens, cost, at) ==
    /\ run' = [run EXCEPT !.tokens = @ + tokens, !.cost = @ + cost,
                          !.calls = @ + 1, !.errors = NextErrors(ok),
                          !.heartbeat = LatestHeartbeat(at)]
    /\ AppendEvent([Event("outcome", None, IF ok THEN "ok" ELSE "failed")
                        EXCEPT !.tokens = tokens, !.cost = cost, !.at = at])

-----------------------------------------------------------------------------
\* Plausible bug: counts the proposals that concurrent calls added since.
CountToNow(seq) ==
    Cardinality({i \in DOMAIN events :
        events[i].kind = "proposed" /\ events[i].tool \in LowTools})

\* count_proposals(through_seq, low_tools).
CountProposals(seq) ==
    Cardinality({i \in DOMAIN events :
        /\ i <= seq
        /\ events[i].kind = "proposed"
        /\ events[i].tool \in LowTools})

\* runs_with_stale_heartbeat(cutoff), for this run.
HeartbeatStale(cutoff) ==
    /\ run.heartbeat < cutoff
    /\ run.state # "terminated"

-----------------------------------------------------------------------------
\* Wall-clock time passes.
Tick ==
    /\ now < MaxClock
    /\ now' = now + 1
=============================================================================

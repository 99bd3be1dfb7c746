-------------------------------- MODULE Fleet --------------------------------
(***************************************************************************)
(* Several runs in one store: registration (api.py register), the reaper's *)
(* loop over the runs (reaper.py sweep), and the operator's two-session    *)
(* read of one of them (api.py run_detail).                                *)
(*                                                                         *)
(* `audit` is the transitions table of all runs: the id of a row is its    *)
(* position, and the revision of a run is the id of its own last row.      *)
(* What the other handlers do to a run is here one step, a legal move;     *)
(* that they do nothing else is what ControlPlane shows of each run.       *)
(***************************************************************************)
EXTENDS Ladder, Sequences, FiniteSets

CONSTANTS
    Runs,                \* run ids
    Sweepers,            \* processes that call sweep
    Views,               \* GET /runs/{id}
    HeartbeatTimeout,    \* settings.heartbeat_timeout
    RecoveryInterval,    \* settings.recovery_interval
    MaxClock,            \* bound: the clock stops here
    MaxMoves,            \* bound: moves by other handlers
    MaxOutages           \* bound: store outages

ASSUME FleetAssumption ==
    /\ HeartbeatTimeout \in Nat /\ RecoveryInterval \in Nat
    /\ MaxClock \in Nat /\ MaxMoves \in Nat /\ MaxOutages \in Nat
    /\ None \notin Runs
    /\ None \notin [state : States, since : Nat, heartbeat : Nat]

VARIABLES
    row,       \* row[r]: the row of run r, None before it is registered
    audit,     \* the transitions table
    now,       \* what clock.now() returns
    sweep,     \* sweep[s]: the thread of sweeper s
    view,      \* view[v]: the thread of an operator's read
    moves, outages

fleetVars == <<row, audit, now, sweep, view, moves, outages>>

-----------------------------------------------------------------------------
Rows == [state : States, since : Nat, heartbeat : Nat]

AuditRows == [run : Runs, from : States, to : States, cause : Causes,
              actor : Actors, at : Nat]

\* A run as runs_with_stale_heartbeat returns it.
Selections == [run : Runs, row : Rows, rev : Nat]

\* `selected` is a ghost: what the sweep began with.
SweepThreads ==
    [pc : {"idle", "select", "loop"}, at : Nat,
     todo : SUBSET Selections, selected : SUBSET Selections]

ViewThreads ==
    [pc : {"new", "rows", "done", "failed"}, run : Runs \cup {None},
     row : Rows \cup {None}, rows : Seq(AuditRows)]

NoSweep == [pc |-> "idle", at |-> 0, todo |-> {}, selected |-> {}]

NewView == [pc |-> "new", run |-> None, row |-> None, rows |-> <<>>]

FleetInit ==
    /\ row = [r \in Runs |-> None]
    /\ audit = <<>>
    /\ now = 0
    /\ sweep = [s \in Sweepers |-> NoSweep]
    /\ view = [v \in Views |-> NewView]
    /\ moves = 0
    /\ outages = 0

-----------------------------------------------------------------------------
Registered == {r \in Runs : row[r] # None}

\* Plausible bug: the WHERE run_id clause is missing.
EveryRow(r) == audit

\* The ids of the rows WHERE run_id = r.
IdsOf(r) == {i \in DOMAIN audit : audit[i].run = r}

\* How many of them come no later than id i.
Rank(r, i) == Cardinality({j \in IdsOf(r) : j <= i})

\* transitions(run_id), ORDER BY id.
RowsOf(r) ==
    [k \in 1 .. Cardinality(IdsOf(r)) |->
        audit[CHOOSE i \in IdsOf(r) : Rank(r, i) = k]]

\* Plausible bug: one version for the whole table.
TableRevision(r) == Len(audit)

\* RUN_SELECT: MAX(id) of the run's own transitions, or 0.
Revision(r) ==
    CHOOSE n \in 0 .. Len(audit) :
        /\ n > 0 => audit[n].run = r
        /\ \A i \in n + 1 .. Len(audit) : audit[i].run # r

\* record_state_change for run r: the row and its audit row.
Move(r, to, cause, actor, at) ==
    /\ row' = [row EXCEPT ![r].state = to, ![r].since = at]
    /\ audit' = Append(audit, [run |-> r, from |-> row[r].state, to |-> to,
                               cause |-> cause, actor |-> actor, at |-> at])

-----------------------------------------------------------------------------
\* register: HEALTHY, the clock read once.
Register(r) ==
    /\ row[r] = None
    /\ row' = [row EXCEPT ![r] =
            [state |-> "healthy", since |-> now, heartbeat |-> now]]
    /\ UNCHANGED <<audit, now, sweep, view, moves, outages>>

\* heartbeat or outcome, dated when its handler read the clock.
Telemetry(r) ==
    /\ r \in Registered
    /\ \E at \in row[r].heartbeat + 1 .. now :
        row' = [row EXCEPT ![r].heartbeat = at]
    /\ UNCHANGED <<audit, now, sweep, view, moves, outages>>

\* What the gate, a judging or a request may commit, dated since the last move.
OtherMove(r) ==
    /\ r \in Registered
    /\ moves < MaxMoves
    /\ moves' = moves + 1
    /\ \E at \in row[r].since .. now :
        \/ /\ row[r].state \in DOMAIN Escalations
           /\ Move(r, NextRung(row[r].state), "judge", "system", at)
        \/ /\ row[r].state = "degraded"
           /\ at - row[r].since >= RecoveryInterval
           /\ Move(r, "healthy", "clean_interval", "system", at)
        \/ \E op \in Operations, to \in States :
               /\ Permitted(op, row[r].state, to)
               /\ Move(r, to, CauseOf(op), ActorOf(op), at)
    /\ UNCHANGED <<now, sweep, view, outages>>

-----------------------------------------------------------------------------
(* sweep.                                                                  *)

\* runs_with_stale_heartbeat(cutoff).
Stale(r, cutoff) ==
    /\ r \in Registered
    /\ row[r].heartbeat < cutoff
    /\ row[r].state # "terminated"

\* Plausible bug: only a HEALTHY run can fall silent.
OnlyHealthy(x, at) == x.state = "healthy" /\ at - x.since >= HeartbeatTimeout

\* Plausible bug: a second pass escalates at once.
NoSpacing(x, at) == x.state \in DOMAIN Escalations

\* The two `continue`s.
OnLadderAndSpaced(x, at) ==
    /\ x.state \in DOMAIN Escalations
    /\ at - x.since >= HeartbeatTimeout

SweepClock(s) ==
    /\ sweep[s].pc = "idle"
    /\ sweep' = [sweep EXCEPT ![s].pc = "select", ![s].at = now]
    /\ UNCHANGED <<row, audit, now, view, moves, outages>>

\* One SELECT; the rows come in no promised order.
SweepSelect(s) ==
    /\ sweep[s].pc = "select"
    /\ LET at  == sweep[s].at
           due == {r \in Runs : /\ Stale(r, at - HeartbeatTimeout)
                                /\ OnLadderAndSpaced(row[r], at)}
           sel == {[run |-> r, row |-> row[r], rev |-> Revision(r)] : r \in due}
       IN  sweep' = [sweep EXCEPT ![s] =
               [@ EXCEPT !.pc = "loop", !.todo = sel, !.selected = sel]]
    /\ UNCHANGED <<row, audit, now, view, moves, outages>>

\* The next selected run: commit its escalation, or `continue` on a conflict.
SweepCommit(s) ==
    /\ sweep[s].pc = "loop"
    /\ \E x \in sweep[s].todo :
        LET unchanged == /\ Revision(x.run) = x.rev
                         /\ row[x.run].state = x.row.state
                         /\ row[x.run].heartbeat = x.row.heartbeat
        IN  /\ \/ /\ unchanged
                  /\ Move(x.run, NextRung(x.row.state), "heartbeat_timeout",
                          "system", sweep[s].at)
               \/ /\ ~unchanged
                  /\ UNCHANGED <<row, audit>>
            /\ sweep' = [sweep EXCEPT ![s].todo = @ \ {x}]
    /\ UNCHANGED <<now, view, moves, outages>>

SweepEnd(s) ==
    /\ sweep[s].pc = "loop"
    /\ sweep[s].todo = {}
    /\ sweep' = [sweep EXCEPT ![s] = NoSweep]
    /\ UNCHANGED <<row, audit, now, view, moves, outages>>

\* StoreUnavailable leaves the loop: the runs still to do wait for a sweep.
SweepOutage(s) ==
    /\ outages < MaxOutages
    /\ outages' = outages + 1
    /\ \/ sweep[s].pc = "select"
       \/ sweep[s].pc = "loop" /\ sweep[s].todo # {}
    /\ sweep' = [sweep EXCEPT ![s] = NoSweep]
    /\ UNCHANGED <<row, audit, now, view, moves>>

-----------------------------------------------------------------------------
(* run_detail: get_run, then transitions, each in a session of its own.    *)

DetailRun(v) ==
    /\ view[v].pc = "new"
    /\ \E r \in Runs : view' = [view EXCEPT ![v] =
            IF r \in Registered
            THEN [@ EXCEPT !.pc = "rows", !.run = r, !.row = row[r]]
            ELSE [@ EXCEPT !.pc = "failed"]]
    /\ UNCHANGED <<row, audit, now, sweep, moves, outages>>

DetailRows(v) ==
    /\ view[v].pc = "rows"
    /\ view' = [view EXCEPT ![v].pc = "done", ![v].rows = RowsOf(view[v].run)]
    /\ UNCHANGED <<row, audit, now, sweep, moves, outages>>

-----------------------------------------------------------------------------
FleetTick ==
    /\ now < MaxClock
    /\ now' = now + 1
    /\ UNCHANGED <<row, audit, sweep, view, moves, outages>>

SweepSteps(s) == SweepClock(s) \/ SweepSelect(s) \/ SweepCommit(s) \/ SweepEnd(s)

FleetNext ==
    \/ \E r \in Runs : Register(r) \/ Telemetry(r) \/ OtherMove(r)
    \/ \E s \in Sweepers :
           \/ SweepClock(s) \/ SweepSelect(s) \/ SweepCommit(s)
           \/ SweepEnd(s) \/ SweepOutage(s)
    \/ \E v \in Views : DetailRun(v) \/ DetailRows(v)
    \/ FleetTick

FleetSpec == FleetInit /\ [][FleetNext]_fleetVars

\* A deployment that runs the reaper calls sweep over and over, and sweep is
\* one sequential thread; main.py schedules none.
FairFleetSpec == FleetSpec /\ \A s \in Sweepers : WF_fleetVars(SweepSteps(s))

-----------------------------------------------------------------------------
\* The store, and every local variable of every thread, has its type.
FleetTypeOK ==
    /\ row \in [Runs -> Rows \cup {None}]
    /\ audit \in Seq(AuditRows)
    /\ now \in Nat
    /\ sweep \in [Sweepers -> SweepThreads]
    /\ view \in [Views -> ViewThreads]
    /\ moves \in Nat /\ outages \in Nat

\* A sweep settles every run it comes to: since it was selected the run was
\* moved, by this sweep or by someone else, or its worker reported.  No other
\* run's containment, committed in between, makes it skip one.
SweptRunsSettled ==
    \A s \in Sweepers : \A x \in sweep[s].selected \ sweep[s].todo :
        \/ \E i \in DOMAIN audit : i > x.rev /\ audit[i].run = x.run
        \/ row[x.run].heartbeat > x.row.heartbeat

\* run_detail never shows a state without the rows that led to it: the rows
\* are an unbroken chain of this run's moves, one of which, or registration,
\* put it in the state shown at the time shown.
DetailExplains ==
    \A v \in Views : view[v].pc = "done" =>
        LET rows == view[v].rows
        IN  /\ \A i \in DOMAIN rows :
                   rows[i].from = IF i = 1 THEN "healthy" ELSE rows[i - 1].to
            /\ \/ /\ view[v].row.state = "healthy"
                  /\ \A i \in DOMAIN rows : view[v].row.since <= rows[i].at
               \/ \E i \in DOMAIN rows : /\ rows[i].to = view[v].row.state
                                         /\ rows[i].at = view[v].row.since

-----------------------------------------------------------------------------
(* Every run of the fleet, on its own, climbs the abstract ladder.         *)

\* The rows of one run, as the ladder writes them.
MovesOf(r) ==
    LET rows == RowsOf(r)
    IN  [i \in DOMAIN rows |->
            [from |-> rows[i].from, to |-> rows[i].to, cause |-> rows[i].cause,
             actor |-> rows[i].actor, at |-> rows[i].at]]

LadderOf(r) == INSTANCE ContainmentLadder WITH
    state <- IF row[r] = None THEN "healthy" ELSE row[r].state,
    audit <- MovesOf(r)

\* Sweeping many runs with one clock reading and one SELECT never moves any
\* of them in a way the ladder does not allow, whatever happens to the others.
EachRunClimbsTheLadder ==
    [][\A r \in Runs : [LadderOf(r)!Next]_(LadderOf(r)!vars)]_fleetVars

-----------------------------------------------------------------------------
\* Silent for longer than a timeout, and a timeout since its last move.
Due(r) ==
    /\ r \in Registered
    /\ row[r].state \in {"healthy", "degraded"}
    /\ now - row[r].heartbeat > HeartbeatTimeout
    /\ now - row[r].since >= HeartbeatTimeout

\* Silence is treated as misbehaviour: a run that is due does not stay due,
\* whichever runs share the sweep and wherever an outage cuts it short.
DueRunEscalated == \A r \in Runs : Due(r) ~> ~Due(r)
=============================================================================

------------------------------- MODULE Reaper -------------------------------
(***************************************************************************)
(* reaper.py: sweep(), for one run.  A reaper is whatever process a        *)
(* deployment schedules to call it; main.py schedules none.                *)
(***************************************************************************)
EXTENDS Store

CONSTANTS
    Reapers,            \* processes that call sweep, {} as main.py wires it
    HeartbeatTimeout    \* settings.heartbeat_timeout

ASSUME ReaperAssumption == HeartbeatTimeout \in Nat

VARIABLE sweep    \* sweep[r]: the thread of reaper r

SweepPcs == {"idle", "select", "commit"}

Sweeps == [pc : SweepPcs, at : Nat, snap : Snapshots]

Idle == [pc |-> "idle", at |-> 0, snap |-> NoSnapshot]

ReaperInit == sweep = [r \in Reapers |-> Idle]

-----------------------------------------------------------------------------
\* Plausible bug: without the spacing a second pass escalates at once.
NoSpacing(at, row) == row.state \in DOMAIN Escalations

\* A run on the ladder, one escalation per timeout window.
Reapable(at, row) ==
    /\ row.state \in DOMAIN Escalations
    /\ at - row.since >= HeartbeatTimeout

\* The clock is read before the runs are.
SweepClock(r) ==
    /\ sweep[r].pc = "idle"
    /\ sweep' = [sweep EXCEPT ![r].pc = "select", ![r].at = now]
    /\ UNCHANGED <<run, transitions, events, now>>

\* runs_with_stale_heartbeat, then the two `continue`s.
SweepSelect(r) ==
    /\ sweep[r].pc = "select"
    /\ sweep' = [sweep EXCEPT ![r] =
            IF /\ HeartbeatStale(@.at - HeartbeatTimeout)
               /\ Reapable(@.at, run)
            THEN [@ EXCEPT !.pc = "commit", !.snap = Read]
            ELSE Idle]
    /\ UNCHANGED <<run, transitions, events, now>>

\* record_state_change with expected_heartbeat; a conflict is skipped.
SweepCommit(r) ==
    LET s == sweep[r]
    IN  /\ s.pc = "commit"
        /\ \/ /\ Fresh(s.snap)
              /\ SameHeartbeat(s.snap)
              /\ RecordStateChange(s.snap, NextRung(s.snap.row.state),
                                   "heartbeat_timeout", "system", s.at)
           \/ /\ ~(Fresh(s.snap) /\ SameHeartbeat(s.snap))
              /\ Conflict
        /\ sweep' = [sweep EXCEPT ![r] = Idle]
        /\ UNCHANGED <<events, now>>
=============================================================================

------------------------- MODULE ContainmentLadder -------------------------
(***************************************************************************)
(* What the control plane promises about containment, with no threads, no  *)
(* store and no log of calls: a run is on one rung of the ladder, and      *)
(* `audit` is the list of moves that brought it there.                     *)
(*                                                                         *)
(*   - the system climbs one rung at a time, on a detector, an adverse     *)
(*     verdict, or silence, and silence only a full timeout after the      *)
(*     previous move;                                                      *)
(*   - the system steps down only from DEGRADED, and only a full recovery  *)
(*     interval after the previous move;                                   *)
(*   - a human, and no one else, takes a run out of FROZEN, to one of the  *)
(*     two lower rungs or to its end;                                      *)
(*   - nothing leaves TERMINATED;                                          *)
(*   - moves are dated, never in the future and never before an earlier    *)
(*     move.                                                               *)
(***************************************************************************)
EXTENDS Integers, Sequences

CONSTANTS RecoveryInterval, HeartbeatTimeout

VARIABLES state, audit, now

vars == <<state, audit, now>>

Init ==
    /\ state = "healthy"
    /\ audit = <<>>
    /\ now = 0

\* When the run reached its present rung; 0 is when it was registered.
Since == IF audit = <<>> THEN 0 ELSE audit[Len(audit)].at

\* A move decided at some time since the last one.
Move(to, cause, actor, at) ==
    /\ at \in Since .. now
    /\ state' = to
    /\ audit' = Append(audit,
          [from |-> state, to |-> to, cause |-> cause, actor |-> actor, at |-> at])
    /\ now' = now

OneRungUp(to) ==
    \/ state = "healthy" /\ to = "degraded"
    \/ state = "degraded" /\ to = "frozen"

Evidence ==
    {"budget", "loop", "error_streak", "wall_clock", "call_rate", "flap", "judge"}

Escalate == \E to \in {"degraded", "frozen"}, cause \in Evidence, at \in 0 .. now :
    /\ OneRungUp(to)
    /\ Move(to, cause, "system", at)

Silence == \E to \in {"degraded", "frozen"}, at \in 0 .. now :
    /\ OneRungUp(to)
    /\ at - Since >= HeartbeatTimeout
    /\ Move(to, "heartbeat_timeout", "system", at)

Recover == \E at \in 0 .. now :
    /\ state = "degraded"
    /\ at - Since >= RecoveryInterval
    /\ Move("healthy", "clean_interval", "system", at)

Release == \E to \in {"healthy", "degraded"}, at \in 0 .. now :
    /\ state = "frozen"
    /\ Move(to, "release", "human", at)

Complete == \E at \in 0 .. now :
    /\ state \in {"healthy", "degraded"}
    /\ Move("terminated", "completed", "system", at)

Terminate == \E at \in 0 .. now :
    /\ state # "terminated"
    /\ Move("terminated", "terminated", "human", at)

Tick ==
    /\ now' = now + 1
    /\ UNCHANGED <<state, audit>>

Next == Escalate \/ Silence \/ Recover \/ Release \/ Complete \/ Terminate \/ Tick

Spec == Init /\ [][Next]_vars
=============================================================================

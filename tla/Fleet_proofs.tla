---------------------------- MODULE Fleet_proofs ----------------------------
(***************************************************************************)
(* Sweeps over any number of runs, for every value of Fleet's constants.   *)
(*                                                                         *)
(* The argument: what a sweep selected is the run as it was, so if no      *)
(* audit row of that run is newer, its revision and its state are the same *)
(* still, and the commit can only fail for a newer heartbeat (FInv).       *)
(* The rows of one run grow by one row at a time, each a lawful, dated     *)
(* move from where the row before it ended, and agree with the run (RInv): *)
(* so a page that reads a run and then its rows finds the move that put    *)
(* it where it is, and each run alone climbs the ladder.                   *)
(***************************************************************************)
EXTENDS Fleet, FiniteSetTheorems, SequenceTheorems, TLAPS

\* n is the id of the last audit row of run r, or 0.
IsRevision(r, n) ==
    /\ n \in 0 .. Len(audit)
    /\ n > 0 => audit[n].run = r
    /\ \A i \in n + 1 .. Len(audit) : audit[i].run # r

Moved(x) == \E i \in DOMAIN audit : i > x.rev /\ audit[i].run = x.run

\* What is known of a selected run.
SelectionFits(x) ==
    /\ row[x.run] \in Rows
    /\ x.rev <= Len(audit)
    /\ row[x.run].heartbeat >= x.row.heartbeat
    /\ \/ Moved(x)
       \/ /\ IsRevision(x.run, x.rev)
          /\ row[x.run].state = x.row.state
          /\ row[x.run].since = x.row.since

Settled(x) == Moved(x) \/ row[x.run].heartbeat > x.row.heartbeat

FleetTyped ==
    /\ row \in [Runs -> Rows \cup {None}]
    /\ audit \in Seq(AuditRows)
    /\ now \in Nat
    /\ sweep \in [Sweepers -> SweepThreads]

SweepFits(s) ==
    /\ sweep[s].todo \subseteq sweep[s].selected
    /\ \A x \in sweep[s].selected : SelectionFits(x)
    /\ \A x \in sweep[s].selected \ sweep[s].todo : Settled(x)
    /\ \A x \in sweep[s].selected : x.row.state \in DOMAIN Escalations

SweepsFit == \A s \in Sweepers : SweepFits(s)

HasRevision == \A r \in Runs : \E n \in 0 .. Len(audit) : IsRevision(r, n)

FInv == FleetTyped /\ HasRevision /\ SweepsFit

-----------------------------------------------------------------------------
\* There is one last row, and Revision is its id.
LEMMA RevisionIs ==
    ASSUME FleetTyped, HasRevision, NEW r \in Runs
    PROVE  /\ IsRevision(r, Revision(r))
           /\ \A n : IsRevision(r, n) => n = Revision(r)
<1>1. Len(audit) \in Nat
  BY DEF FleetTyped
<1>2. PICK n \in 0 .. Len(audit) : IsRevision(r, n)
  BY DEF HasRevision
<1>3. IsRevision(r, Revision(r))
  BY <1>2 DEF Revision, IsRevision
<1>4. ASSUME NEW m, NEW k, IsRevision(r, m), IsRevision(r, k)
      PROVE  ~(m < k)
  BY <1>1, <1>4 DEF IsRevision
<1>5. ASSUME NEW m, IsRevision(r, m)
      PROVE  m = Revision(r)
  <2>1. ~(m < Revision(r)) /\ ~(Revision(r) < m)
    BY <1>3, <1>4, <1>5
  <2> QED
    BY <1>1, <1>3, <1>5, <2>1 DEF IsRevision
<1> QED
  BY <1>3, <1>5

\* What a step may do to the rows: report, register, or move one run.
Reports == \E r \in Runs, h \in Nat :
    /\ row[r] \in Rows /\ h >= row[r].heartbeat
    /\ row' = [row EXCEPT ![r].heartbeat = h]
    /\ audit' = audit

Registers == \E r \in Runs, new \in Rows :
    /\ row[r] = None
    /\ row' = [row EXCEPT ![r] = new]
    /\ audit' = audit

Moves(r) == \E new \in AuditRows, x \in Rows :
    /\ new.run = r
    /\ row[r] \in Rows
    /\ x.heartbeat = row[r].heartbeat
    /\ row' = [row EXCEPT ![r] = x]
    /\ audit' = Append(audit, new)

RowSteps ==
    \/ UNCHANGED <<row, audit>>
    \/ Reports
    \/ Registers
    \/ \E r \in Runs : Moves(r)

LEMMA NextRungIsState ==
    ASSUME NEW s \in DOMAIN Escalations
    PROVE  NextRung(s) \in States
BY DEF Escalations, NextRung, States

LEMMA MoveMoves ==
    ASSUME FleetTyped, NEW r \in Runs, row[r] \in Rows, NEW to \in States,
           NEW cause \in Causes, NEW actor \in Actors, NEW at \in Nat,
           Move(r, to, cause, actor, at)
    PROVE  Moves(r)
<1> DEFINE new == [run |-> r, from |-> row[r].state, to |-> to, cause |-> cause,
                   actor |-> actor, at |-> at]
           x == [row[r] EXCEPT !.state = to, !.since = at]
<1>1. new \in AuditRows /\ new.run = r
  BY DEF AuditRows, Rows
<1>2. x \in Rows /\ x.heartbeat = row[r].heartbeat
  BY DEF Rows
<1>3. row' = [row EXCEPT ![r] = x]
  BY DEF Move, FleetTyped
<1>4. audit' = Append(audit, new)
  BY DEF Move
<1> QED
  BY <1>1, <1>2, <1>3, <1>4 DEF Moves

LEMMA Known ==
    ASSUME FleetTyped, NEW r \in Registered
    PROVE  r \in Runs /\ row[r] \in Rows
BY DEF FleetTyped, Registered

LEMMA OtherMoveMoves ==
    ASSUME FleetTyped, NEW r \in Runs, OtherMove(r)
    PROVE  Moves(r)
<1>1. row[r] \in Rows /\ row[r].since \in Nat /\ now \in Nat
  BY Known DEF OtherMove, Rows, FleetTyped
<1>2. PICK at \in row[r].since .. now :
        \/ /\ row[r].state \in DOMAIN Escalations
           /\ Move(r, NextRung(row[r].state), "judge", "system", at)
        \/ Move(r, "healthy", "clean_interval", "system", at)
        \/ \E op \in Operations, to \in States :
               Move(r, to, CauseOf(op), ActorOf(op), at)
  BY DEF OtherMove
<1>3. at \in Nat
  BY <1>1
<1>4. /\ {"judge", "clean_interval"} \subseteq Causes
      /\ {"system", "human"} \subseteq Actors /\ "healthy" \in States
  BY DEF Causes, Actors, States
<1>5. CASE /\ row[r].state \in DOMAIN Escalations
           /\ Move(r, NextRung(row[r].state), "judge", "system", at)
  BY <1>1, <1>3, <1>4, <1>5, NextRungIsState, MoveMoves
<1>6. CASE Move(r, "healthy", "clean_interval", "system", at)
  BY <1>1, <1>3, <1>4, <1>6, MoveMoves
<1>7. ASSUME NEW op \in Operations, NEW to \in States,
             Move(r, to, CauseOf(op), ActorOf(op), at)
      PROVE  Moves(r)
  <2>1. CauseOf(op) \in Causes /\ ActorOf(op) \in Actors
    BY DEF CauseOf, ActorOf, Operations, Causes, Actors
  <2> QED
    BY <1>1, <1>3, <1>7, <2>1, MoveMoves
<1> QED
  BY <1>2, <1>5, <1>6, <1>7

-----------------------------------------------------------------------------
(* What a step of the rows leaves true.                                    *)

LEMMA RowsTyped ==
    ASSUME FleetTyped, RowSteps
    PROVE  row' \in [Runs -> Rows \cup {None}] /\ audit' \in Seq(AuditRows)
<1>1. CASE Reports
  <2>1. PICK r \in Runs, h \in Nat : /\ row[r] \in Rows
                                     /\ row' = [row EXCEPT ![r].heartbeat = h]
                                     /\ audit' = audit
    BY <1>1 DEF Reports
  <2>2. [row[r] EXCEPT !.heartbeat = h] \in Rows
    BY <2>1 DEF Rows
  <2> QED
    BY <2>1, <2>2 DEF FleetTyped
<1>2. CASE Registers \/ \E r \in Runs : Moves(r)
  BY <1>2 DEF Registers, Moves, FleetTyped
<1>3. CASE UNCHANGED <<row, audit>>
  BY <1>3 DEF FleetTyped
<1> QED
  BY <1>1, <1>2, <1>3 DEF RowSteps

LEMMA RevisionStays ==
    ASSUME FleetTyped, HasRevision, RowSteps
    PROVE  HasRevision'
<1>1. CASE audit' = audit
  BY <1>1 DEF HasRevision, IsRevision
<1>2. ASSUME NEW new \in AuditRows, audit' = Append(audit, new)
      PROVE  HasRevision'
  <2>1. /\ Len(audit) \in Nat /\ Len(audit') = Len(audit) + 1
        /\ audit'[Len(audit) + 1] = new
        /\ \A i \in 1 .. Len(audit) : audit'[i] = audit[i]
    BY <1>2 DEF FleetTyped
  <2>2. ASSUME NEW r \in Runs
        PROVE  \E n \in 0 .. Len(audit') : IsRevision(r, n)'
    <3>1. CASE new.run = r
      <4>1. PICK last \in 1 .. Len(audit') : last = Len(audit) + 1
        BY <2>1
      <4>2. audit'[last].run = r
        BY <2>1, <3>1, <4>1
      <4>3. last + 1 .. Len(audit') = {} /\ last \in 0 .. Len(audit')
        BY <2>1, <4>1
      <4> QED
        BY <4>2, <4>3 DEF IsRevision
    <3>2. CASE new.run # r
      <4>1. PICK n \in 0 .. Len(audit) : IsRevision(r, n)
        BY DEF HasRevision
      <4>2. n \in 0 .. Len(audit') /\ (n > 0 => audit'[n].run = r)
        BY <2>1, <4>1 DEF IsRevision
      <4>3. ASSUME NEW i \in n + 1 .. Len(audit')
            PROVE  audit'[i].run # r
        BY <2>1, <3>2, <4>1 DEF IsRevision
      <4> QED
        BY <4>2, <4>3 DEF IsRevision
    <3> QED
      BY <3>1, <3>2
  <2> QED
    BY <2>2 DEF HasRevision
<1> QED
  BY <1>1, <1>2 DEF RowSteps, Reports, Registers, Moves

\* A selection stays what was selected, and a settled run settled.
LEMMA SelectionStays ==
    ASSUME FleetTyped, RowSteps, NEW x \in Selections, SelectionFits(x)
    PROVE  SelectionFits(x)' /\ (Settled(x) => Settled(x)')
<1>1. /\ x.run \in Runs /\ x.rev \in Nat /\ x.row.heartbeat \in Nat
      /\ row[x.run] \in Rows /\ row[x.run].heartbeat \in Nat
      /\ Len(audit) \in Nat /\ DOMAIN row = Runs
  BY DEF Selections, Rows, SelectionFits, FleetTyped
<1>2. CASE UNCHANGED <<row, audit>>
  BY <1>2 DEF SelectionFits, Settled, Moved, IsRevision
<1>3. ASSUME audit' = audit, row'[x.run] \in Rows,
             row'[x.run].state = row[x.run].state,
             row'[x.run].since = row[x.run].since,
             row'[x.run].heartbeat >= row[x.run].heartbeat
      PROVE  SelectionFits(x)' /\ (Settled(x) => Settled(x)')
  <2>1. row'[x.run].heartbeat \in Nat
    BY <1>3 DEF Rows
  <2>2. Moved(x)' = Moved(x) /\ IsRevision(x.run, x.rev)' = IsRevision(x.run, x.rev)
    BY <1>3 DEF Moved, IsRevision
  <2> QED
    BY <1>1, <1>3, <2>1, <2>2 DEF SelectionFits, Settled
<1>4. CASE Reports
  <2>1. PICK r \in Runs, h \in Nat :
          /\ row[r] \in Rows /\ h >= row[r].heartbeat
          /\ row' = [row EXCEPT ![r].heartbeat = h]
          /\ audit' = audit
    BY <1>4 DEF Reports
  <2>2. CASE r = x.run
    <3>1. row'[x.run] = [row[x.run] EXCEPT !.heartbeat = h]
      BY <1>1, <2>1, <2>2
    <3> QED
      BY <1>1, <1>3, <2>1, <2>2, <3>1 DEF Rows
  <2>3. CASE r # x.run
    BY <1>1, <1>3, <2>1, <2>3
  <2> QED
    BY <2>2, <2>3
<1>5. CASE Registers
  <2>1. row'[x.run] = row[x.run] /\ audit' = audit
    <3>1. None \notin Rows
      BY FleetAssumption DEF Rows
    <3> QED
      BY <1>1, <1>5, <3>1 DEF Registers
  <2> QED
    BY <1>1, <1>3, <2>1
<1>6. ASSUME NEW r \in Runs, Moves(r)
      PROVE  SelectionFits(x)' /\ (Settled(x) => Settled(x)')
  <2>1. PICK new \in AuditRows, y \in Rows :
          /\ new.run = r /\ y.heartbeat = row[r].heartbeat
          /\ row' = [row EXCEPT ![r] = y]
          /\ audit' = Append(audit, new)
    BY <1>6 DEF Moves
  <2>2. /\ Len(audit') = Len(audit) + 1
        /\ audit'[Len(audit) + 1] = new
        /\ DOMAIN audit' = 1 .. Len(audit) + 1 /\ DOMAIN audit = 1 .. Len(audit)
        /\ \A i \in 1 .. Len(audit) : audit'[i] = audit[i]
    BY <1>1, <2>1 DEF FleetTyped
  <2>3. /\ row'[x.run] \in Rows
        /\ row'[x.run].heartbeat = row[x.run].heartbeat
        /\ r # x.run => row'[x.run] = row[x.run]
    BY <1>1, <2>1
  <2>4. Moved(x) => Moved(x)'
    BY <1>1, <2>2 DEF Moved
  <2>5. r = x.run => Moved(x)'
    BY <1>1, <2>1, <2>2 DEF Moved, SelectionFits
  <2>6. r # x.run /\ IsRevision(x.run, x.rev) => IsRevision(x.run, x.rev)'
    BY <1>1, <2>1, <2>2 DEF IsRevision
  <2>7. x.rev <= Len(audit')
    BY <1>1, <2>2 DEF SelectionFits
  <2> QED
    BY <1>1, <2>3, <2>4, <2>5, <2>6, <2>7 DEF SelectionFits, Settled
<1> QED
  BY <1>2, <1>4, <1>5, <1>6 DEF RowSteps

-----------------------------------------------------------------------------
(* The invariant is inductive.                                             *)

LEMMA FirstFleet == FleetInit => FInv
<1> SUFFICES ASSUME FleetInit PROVE FInv
  OBVIOUS
<1>1. FleetTyped
  BY DEF FleetInit, FleetTyped, SweepThreads, NoSweep
<1>2. Len(audit) = 0 /\ DOMAIN audit = {}
  BY DEF FleetInit
<1>3. HasRevision
  BY <1>2 DEF HasRevision, IsRevision
<1>4. SweepsFit
  BY DEF FleetInit, SweepsFit, SweepFits, NoSweep
<1> QED
  BY <1>1, <1>3, <1>4 DEF FInv

\* Whatever the rows do, a sweep that takes no step still fits.
LEMMA SweepStays ==
    ASSUME FInv, RowSteps, NEW s \in Sweepers, sweep'[s] = sweep[s]
    PROVE  SweepFits(s)'
<1>1. SweepFits(s) /\ sweep[s].selected \subseteq Selections
  BY DEF FInv, SweepsFit, FleetTyped, SweepThreads
<1>2. \A x \in sweep[s].selected :
        SelectionFits(x)' /\ (Settled(x) => Settled(x)')
  BY <1>1, SelectionStays DEF SweepFits, FInv
<1> QED
  BY <1>1, <1>2 DEF SweepFits

LEMMA RowsStep ==
    ASSUME FInv, RowSteps, now' \in Nat, sweep' = sweep
    PROVE  FInv'
<1>1. FleetTyped' /\ HasRevision'
  BY RowsTyped, RevisionStays DEF FInv, FleetTyped
<1>2. SweepsFit'
  BY SweepStays DEF SweepsFit
<1> QED
  BY <1>1, <1>2 DEF FInv

LEMMA OneSweep ==
    ASSUME FInv, RowSteps, now' = now, NEW s \in Sweepers, NEW t \in SweepThreads,
           sweep' = [sweep EXCEPT ![s] = t], SweepFits(s)'
    PROVE  FInv'
<1>1. FleetTyped' /\ HasRevision'
  BY RowsTyped, RevisionStays DEF FInv, FleetTyped
<1>2. ASSUME NEW u \in Sweepers, u # s
      PROVE  SweepFits(u)'
  BY <1>2, SweepStays DEF FInv, FleetTyped
<1> QED
  BY <1>1, <1>2 DEF FInv, SweepsFit

LEMMA RegisterStep ==
    ASSUME FInv, NEW r \in Runs, Register(r)
    PROVE  FInv'
<1>1. Registers
  BY DEF Register, Registers, Rows, FInv, FleetTyped, States
<1> QED
  BY <1>1, RowsStep DEF Register, RowSteps, FInv, FleetTyped

LEMMA TelemetryStep ==
    ASSUME FInv, NEW r \in Runs, Telemetry(r)
    PROVE  FInv'
<1>1. row[r] \in Rows /\ row[r].heartbeat \in Nat /\ now \in Nat
  BY Known DEF Telemetry, FInv, FleetTyped, Rows
<1>2. PICK at \in row[r].heartbeat + 1 .. now :
        row' = [row EXCEPT ![r].heartbeat = at]
  BY DEF Telemetry
<1>3. at \in Nat /\ at >= row[r].heartbeat
  BY <1>1
<1>4. Reports
  BY <1>1, <1>2, <1>3 DEF Reports, Telemetry
<1> QED
  BY <1>4, RowsStep DEF Telemetry, RowSteps, FInv, FleetTyped

LEMMA OtherStep ==
    ASSUME FInv, NEW r \in Runs, OtherMove(r)
    PROVE  FInv'
BY OtherMoveMoves, RowsStep DEF OtherMove, RowSteps, FInv, FleetTyped

LEMMA SweepClockStep ==
    ASSUME FInv, NEW s \in Sweepers, SweepClock(s)
    PROVE  FInv'
<1> DEFINE t == [sweep[s] EXCEPT !.pc = "select", !.at = now]
<1>1. t \in SweepThreads /\ sweep' = [sweep EXCEPT ![s] = t]
  BY DEF SweepClock, SweepThreads, FInv, FleetTyped
<1>2. RowSteps /\ now' = now
  BY DEF SweepClock, RowSteps
<1>3. sweep'[s].todo = sweep[s].todo /\ sweep'[s].selected = sweep[s].selected
  BY <1>1 DEF SweepThreads, FInv, FleetTyped
<1>4. UNCHANGED <<row, audit>>
  BY DEF SweepClock
<1>5. SweepFits(s)'
  BY <1>3, <1>4 DEF FInv, SweepsFit, SweepFits, SelectionFits, Settled,
                    Moved, IsRevision
<1> QED
  BY <1>1, <1>2, <1>5, OneSweep

\* A run that was just selected is the run as it is.
LEMMA SweepSelectStep ==
    ASSUME FInv, NEW s \in Sweepers, SweepSelect(s)
    PROVE  FInv'
<1> DEFINE at  == sweep[s].at
           due == {r \in Runs : /\ Stale(r, at - HeartbeatTimeout)
                                /\ OnLadderAndSpaced(row[r], at)}
           sel == {[run |-> r, row |-> row[r], rev |-> Revision(r)] : r \in due}
           t   == [sweep[s] EXCEPT !.pc = "loop", !.todo = sel, !.selected = sel]
<1>1. ASSUME NEW r \in due
      PROVE  /\ [run |-> r, row |-> row[r], rev |-> Revision(r)] \in Selections
             /\ SelectionFits([run |-> r, row |-> row[r], rev |-> Revision(r)])
             /\ row[r].state \in DOMAIN Escalations
  <2>1. r \in Runs /\ row[r] \in Rows /\ row[r].heartbeat \in Nat
    BY Known DEF Stale, FInv, Rows
  <2>2. row[r].state \in DOMAIN Escalations
    BY DEF OnLadderAndSpaced
  <2>3. IsRevision(r, Revision(r)) /\ Len(audit) \in Nat
    BY <2>1, RevisionIs DEF FInv, FleetTyped
  <2>4. Revision(r) \in Nat /\ Revision(r) <= Len(audit)
    BY <2>3 DEF IsRevision
  <2> QED
    BY <2>1, <2>2, <2>3, <2>4 DEF Selections, SelectionFits
<1> HIDE DEF due
<1>2. \A x \in sel : /\ x \in Selections /\ SelectionFits(x)
                     /\ x.row.state \in DOMAIN Escalations
  BY <1>1
<1> HIDE DEF sel
<1>3. sel \subseteq Selections
  BY <1>2
<1>4. sweep[s] \in SweepThreads /\ sweep \in [Sweepers -> SweepThreads]
  BY DEF FInv, FleetTyped
<1>5. t \in SweepThreads /\ t.todo = sel /\ t.selected = sel
  BY <1>3, <1>4 DEF SweepThreads
<1>6. sweep' = [sweep EXCEPT ![s] = t]
  BY DEF SweepSelect, sel, due
<1>7. UNCHANGED <<row, audit>> /\ now' = now /\ RowSteps
  BY DEF SweepSelect, RowSteps
<1>8. sweep'[s].todo = sel /\ sweep'[s].selected = sel
  BY <1>4, <1>5, <1>6
<1>9. SweepFits(s)'
  BY <1>2, <1>7, <1>8 DEF SweepFits, SelectionFits, Moved, IsRevision
<1> QED
  BY <1>5, <1>6, <1>7, <1>9, OneSweep

\* The commit of one selected run; the others keep what is known of them.
LEMMA SweepCommitStep ==
    ASSUME FInv, NEW s \in Sweepers, SweepCommit(s)
    PROVE  FInv'
<1>1. /\ sweep[s] \in SweepThreads /\ sweep \in [Sweepers -> SweepThreads]
      /\ SweepFits(s) /\ Len(audit) \in Nat
  BY DEF FInv, FleetTyped, SweepsFit
<1>2. PICK x \in sweep[s].todo :
        /\ \/ /\ Move(x.run, NextRung(x.row.state), "heartbeat_timeout",
                      "system", sweep[s].at)
           \/ /\ ~ /\ Revision(x.run) = x.rev
                   /\ row[x.run].state = x.row.state
                   /\ row[x.run].heartbeat = x.row.heartbeat
              /\ UNCHANGED <<row, audit>>
        /\ sweep' = [sweep EXCEPT ![s].todo = @ \ {x}]
  BY DEF SweepCommit
<1>3. /\ x \in Selections /\ x \in sweep[s].selected /\ SelectionFits(x)
      /\ x.row.state \in DOMAIN Escalations
  BY <1>1, <1>2 DEF SweepThreads, SweepFits
<1>4. /\ x.run \in Runs /\ x.rev \in Nat /\ x.row.heartbeat \in Nat
      /\ row[x.run] \in Rows /\ row[x.run].heartbeat \in Nat
  BY <1>3 DEF Selections, Rows, SelectionFits
<1> DEFINE t == [sweep[s] EXCEPT !.todo = @ \ {x}]
<1>5. t \in SweepThreads /\ sweep' = [sweep EXCEPT ![s] = t]
  BY <1>1, <1>2 DEF SweepThreads
<1>6. now' = now
  BY DEF SweepCommit
<1>7. RowSteps /\ Settled(x)'
  <2>1. CASE Move(x.run, NextRung(x.row.state), "heartbeat_timeout",
                  "system", sweep[s].at)
    <3>1. /\ NextRung(x.row.state) \in States /\ sweep[s].at \in Nat
          /\ "heartbeat_timeout" \in Causes /\ "system" \in Actors
      BY <1>1, <1>3, NextRungIsState DEF SweepThreads, Causes, Actors
    <3>2. Moves(x.run)
      BY <1>4, <2>1, <3>1, MoveMoves DEF FInv
    <3>3. PICK new \in AuditRows : new.run = x.run /\ audit' = Append(audit, new)
      BY <3>2 DEF Moves
    <3>4. /\ Len(audit) + 1 \in DOMAIN audit' /\ Len(audit) + 1 > x.rev
          /\ audit'[Len(audit) + 1].run = x.run
      BY <1>1, <1>3, <1>4, <3>3 DEF SelectionFits, FInv, FleetTyped
    <3> QED
      BY <1>4, <3>2, <3>4 DEF RowSteps, Settled, Moved
  <2>2. CASE /\ ~ /\ Revision(x.run) = x.rev
                  /\ row[x.run].state = x.row.state
                  /\ row[x.run].heartbeat = x.row.heartbeat
             /\ UNCHANGED <<row, audit>>
    <3>1. Settled(x)
      <4>1. CASE Moved(x)
        BY <4>1 DEF Settled
      <4>2. CASE ~Moved(x)
        <5>1. Revision(x.run) = x.rev /\ row[x.run].state = x.row.state
          BY <1>3, <1>4, <4>2, RevisionIs DEF SelectionFits, FInv
        <5>2. row[x.run].heartbeat >= x.row.heartbeat
          BY <1>3 DEF SelectionFits
        <5> QED
          BY <1>4, <2>2, <5>1, <5>2 DEF Settled
      <4> QED
        BY <4>1, <4>2
    <3> QED
      BY <2>2, <3>1 DEF RowSteps, Settled, Moved
  <2> QED
    BY <1>2, <2>1, <2>2
<1>8. SweepFits(s)'
  <2>1. /\ sweep'[s].todo = sweep[s].todo \ {x}
        /\ sweep'[s].selected = sweep[s].selected
    BY <1>1, <1>5
  <2>2. \A y \in sweep[s].selected :
          SelectionFits(y)' /\ (Settled(y) => Settled(y)')
    BY <1>1, <1>7, SelectionStays DEF SweepThreads, SweepFits, FInv
  <2> QED
    BY <1>1, <1>7, <2>1, <2>2 DEF SweepFits
<1> HIDE DEF t
<1> QED
  BY <1>5, <1>6, <1>7, <1>8, OneSweep

LEMMA SweepStopStep ==
    ASSUME FInv, NEW s \in Sweepers, SweepEnd(s) \/ SweepOutage(s)
    PROVE  FInv'
<1>1. /\ sweep' = [sweep EXCEPT ![s] = NoSweep]
      /\ UNCHANGED <<row, audit, now>>
  BY DEF SweepEnd, SweepOutage
<1>2. sweep'[s].todo = {} /\ sweep'[s].selected = {} /\ NoSweep \in SweepThreads
  BY <1>1 DEF FInv, FleetTyped, NoSweep, SweepThreads
<1>3. SweepFits(s)'
  BY <1>2 DEF SweepFits
<1> QED
  BY <1>1, <1>2, <1>3, OneSweep DEF RowSteps

LEMMA FleetStep == FInv /\ [FleetNext]_fleetVars => FInv'
<1> SUFFICES ASSUME FInv, [FleetNext]_fleetVars PROVE FInv'
  OBVIOUS
<1>1. now \in Nat
  BY DEF FInv, FleetTyped
<1>2. CASE UNCHANGED fleetVars
  BY <1>1, <1>2, RowsStep DEF fleetVars, RowSteps
<1>3. CASE FleetTick
  BY <1>1, <1>3, RowsStep DEF FleetTick, RowSteps
<1>4. ASSUME NEW v \in Views, DetailRun(v) \/ DetailRows(v)
      PROVE  FInv'
  BY <1>1, <1>4, RowsStep DEF DetailRun, DetailRows, RowSteps
<1> QED
  BY <1>2, <1>3, <1>4, RegisterStep, TelemetryStep, OtherStep, SweepClockStep,
     SweepSelectStep, SweepCommitStep, SweepStopStep DEF FleetNext

\* Each pass of the reaper settles every run it comes to, with any number of
\* runs and of sweepers: it never passes one over because another was moved.
THEOREM SweptRunsAreSettled == FleetSpec => []SweptRunsSettled
<1>1. FInv => SweptRunsSettled
  BY DEF FInv, SweepsFit, SweepFits, SweptRunsSettled, Settled, Moved
<1> QED
  BY <1>1, FirstFleet, FleetStep, PTL DEF FleetSpec

-----------------------------------------------------------------------------
(* The rows of one run, in the order of their ids.                         *)

\* Every place in that order is taken.
Ranked(r) ==
    \A k \in 1 .. Cardinality(IdsOf(r)) : \E i \in IdsOf(r) : Rank(r, i) = k

LEMMA IdsAreFinite ==
    ASSUME FleetTyped, NEW r \in Runs
    PROVE  /\ IsFiniteSet(IdsOf(r)) /\ Cardinality(IdsOf(r)) \in Nat
           /\ \A i \in IdsOf(r) : Rank(r, i) \in Nat /\ Rank(r, i) <= Cardinality(IdsOf(r))
<1>1. IsFiniteSet(1 .. Len(audit)) /\ IdsOf(r) \subseteq 1 .. Len(audit)
  BY FS_Interval DEF FleetTyped, IdsOf
<1>2. IsFiniteSet(IdsOf(r)) /\ Cardinality(IdsOf(r)) \in Nat
  BY <1>1, FS_Subset, FS_CardinalityType
<1>3. ASSUME NEW i \in IdsOf(r)
      PROVE  Rank(r, i) \in Nat /\ Rank(r, i) <= Cardinality(IdsOf(r))
  <2>1. {j \in IdsOf(r) : j <= i} \subseteq IdsOf(r)
    OBVIOUS
  <2> QED
    BY <1>2, <2>1, FS_Subset, FS_CardinalityType DEF Rank
<1> QED
  BY <1>2, <1>3

\* RowsOf picks, for each place, a row of that run.
LEMMA RowsAreRows ==
    ASSUME FleetTyped, NEW r \in Runs, Ranked(r)
    PROVE  /\ RowsOf(r) \in Seq(AuditRows)
           /\ Len(RowsOf(r)) = Cardinality(IdsOf(r))
           /\ \A k \in 1 .. Cardinality(IdsOf(r)) :
                  (CHOOSE i \in IdsOf(r) : Rank(r, i) = k) \in IdsOf(r)
<1> DEFINE Nth(k) == CHOOSE i \in IdsOf(r) : Rank(r, i) = k
<1>1. ASSUME NEW k \in 1 .. Cardinality(IdsOf(r))
      PROVE  Nth(k) \in IdsOf(r)
  BY DEF Ranked
<1>2. \A k \in 1 .. Cardinality(IdsOf(r)) : audit[Nth(k)] \in AuditRows
  <2>1. \A i \in IdsOf(r) : audit[i] \in AuditRows
    BY DEF IdsOf, FleetTyped
  <2> HIDE DEF Nth
  <2> QED
    BY <1>1, <2>1
<1>3. RowsOf(r) = [k \in 1 .. Cardinality(IdsOf(r)) |-> audit[Nth(k)]]
  BY DEF RowsOf
<1>4. Cardinality(IdsOf(r)) \in Nat
  BY IdsAreFinite
<1> HIDE DEF Nth
<1>5. RowsOf(r) \in Seq(AuditRows) /\ Len(RowsOf(r)) = Cardinality(IdsOf(r))
  BY <1>2, <1>3, <1>4
<1> QED
  BY <1>1, <1>5 DEF Nth

\* A row of another run changes nothing, a row of this run comes last.
LEMMA RowsGrow ==
    ASSUME FleetTyped, NEW r \in Runs, Ranked(r),
           NEW new \in AuditRows, audit' = Append(audit, new)
    PROVE  /\ Ranked(r)'
           /\ RowsOf(r)' = IF new.run = r THEN Append(RowsOf(r), new) ELSE RowsOf(r)
<1> DEFINE c == Cardinality(IdsOf(r))
<1>0. PICK n : n = Len(audit) + 1
  OBVIOUS
<1>1. /\ Len(audit) \in Nat /\ n \in Nat /\ n = Len(audit) + 1
      /\ DOMAIN audit = 1 .. Len(audit) /\ DOMAIN audit' = 1 .. n
      /\ audit'[n] = new /\ \A i \in 1 .. Len(audit) : audit'[i] = audit[i]
  BY <1>0 DEF FleetTyped
<1>2. /\ IsFiniteSet(IdsOf(r)) /\ c \in Nat
      /\ \A i \in IdsOf(r) : Rank(r, i) \in Nat /\ Rank(r, i) <= c
  BY IdsAreFinite
<1>3. IdsOf(r) \subseteq 1 .. Len(audit) /\ n \notin IdsOf(r)
  BY <1>1 DEF IdsOf
<1>4. CASE new.run # r
  <2>1. IdsOf(r)' = IdsOf(r)
    BY <1>1, <1>4 DEF IdsOf
  <2>2. \A i : Rank(r, i)' = Rank(r, i)
    BY <2>1 DEF Rank
  <2>3. Ranked(r)'
    BY <2>1, <2>2 DEF Ranked
  <2> DEFINE Nth(k) == CHOOSE i \in IdsOf(r) : Rank(r, i) = k
  <2>4. \A k \in 1 .. c : audit'[Nth(k)] = audit[Nth(k)]
    BY <1>1, <1>3, RowsAreRows
  <2>5. /\ RowsOf(r)' = [k \in 1 .. c |-> audit'[Nth(k)]]
        /\ RowsOf(r) = [k \in 1 .. c |-> audit[Nth(k)]]
    BY <2>1, <2>2 DEF RowsOf, Rank
  <2> HIDE DEF Nth, c
  <2>6. RowsOf(r)' = RowsOf(r)
    BY <2>4, <2>5
  <2> QED
    BY <1>4, <2>3, <2>6
<1>5. CASE new.run = r
  <2>1. IdsOf(r)' = IdsOf(r) \cup {n}
    BY <1>1, <1>5 DEF IdsOf
  <2>2. Cardinality(IdsOf(r)') = c + 1
    BY <1>2, <1>3, <2>1, FS_AddElement
  <2>3. Rank(r, n)' = c + 1
    <3>1. {j \in IdsOf(r)' : j <= n} = IdsOf(r)'
      BY <1>1, <1>3, <2>1
    <3> QED
      BY <2>2, <3>1 DEF Rank
  <2>4. ASSUME NEW i \in IdsOf(r)
        PROVE  Rank(r, i)' = Rank(r, i)
    <3>1. {j \in IdsOf(r)' : j <= i} = {j \in IdsOf(r) : j <= i}
      BY <1>1, <1>3, <2>1
    <3> QED
      BY <3>1 DEF Rank
  <2>5. Ranked(r)'
    <3>1. ASSUME NEW k \in 1 .. c + 1
          PROVE  \E i \in IdsOf(r)' : Rank(r, i)' = k
      <4>1. CASE k = c + 1
        BY <2>1, <2>3, <4>1
      <4>2. CASE k # c + 1
        <5>1. k \in 1 .. c
          BY <1>2, <4>2
        <5>2. PICK i \in IdsOf(r) : Rank(r, i) = k
          BY <5>1 DEF Ranked
        <5> QED
          BY <2>1, <2>4, <5>2
      <4> QED
        BY <4>1, <4>2
    <3> QED
      BY <2>2, <3>1 DEF Ranked
  <2> DEFINE Nth(k) == CHOOSE i \in IdsOf(r) : Rank(r, i) = k
             NthNew(k) == CHOOSE i \in IdsOf(r)' : Rank(r, i)' = k
  <2>6. ASSUME NEW k \in 1 .. c
        PROVE  audit'[NthNew(k)] = audit[Nth(k)]
    <3> DEFINE P == {i \in IdsOf(r) : Rank(r, i) = k}
               Q == {i \in IdsOf(r)' : Rank(r, i)' = k}
    <3>1. P = Q
      <4>1. n \notin Q
        BY <1>2, <2>3
      <4> QED
        BY <2>1, <2>4, <4>1
    <3>2. Nth(k) = CHOOSE i : i \in P
      OBVIOUS
    <3>3. NthNew(k) = CHOOSE i : i \in Q
      OBVIOUS
    <3>4. NthNew(k) = Nth(k)
      BY <3>1, <3>2, <3>3
    <3>5. Nth(k) \in IdsOf(r)
      BY RowsAreRows
    <3> HIDE DEF Nth, NthNew
    <3> QED
      BY <1>1, <1>3, <3>4, <3>5
  <2>7. NthNew(c + 1) = n
    <3>1. n \in IdsOf(r)'
      BY <2>1
    <3>2. ASSUME NEW i \in IdsOf(r)', Rank(r, i)' = c + 1
          PROVE  i = n
      BY <1>2, <2>1, <2>4, <3>2
    <3> QED
      BY <2>3, <3>1, <3>2
  <2>8. RowsOf(r)' = [k \in 1 .. c + 1 |-> audit'[NthNew(k)]]
    BY <2>2 DEF RowsOf
  <2>9. RowsOf(r) \in Seq(AuditRows) /\ Len(RowsOf(r)) = c
    BY RowsAreRows
  <2>13. RowsOf(r) = [k \in 1 .. c |-> audit[Nth(k)]]
    BY DEF RowsOf
  <2> HIDE DEF Nth, NthNew, c
  <2>10. ASSUME NEW k \in 1 .. c + 1
         PROVE  audit'[NthNew(k)] = IF k = c + 1 THEN new ELSE RowsOf(r)[k]
    <3>1. k # c + 1 => k \in 1 .. c
      BY <1>2
    <3> QED
      BY <1>1, <2>6, <2>7, <2>13, <3>1
  <2>11. /\ RowsOf(r)' \in Seq(AuditRows) /\ Len(RowsOf(r)') = c + 1
         /\ \A k \in 1 .. c + 1 :
                RowsOf(r)'[k] = IF k = c + 1 THEN new ELSE RowsOf(r)[k]
    <3>1. ASSUME NEW k \in 1 .. c + 1
          PROVE  audit'[NthNew(k)] \in AuditRows
      <4>1. k # c + 1 => k \in 1 .. c
        BY <1>2
      <4>2. k # c + 1 => RowsOf(r)[k] \in AuditRows
        BY <2>9, <4>1
      <4> QED
        BY <2>10, <4>2
    <3>2. c + 1 \in Nat
      BY <1>2
    <3>3. RowsOf(r)' \in [1 .. c + 1 -> AuditRows]
      BY <2>8, <3>1
    <3>4. RowsOf(r)' \in Seq(AuditRows) /\ Len(RowsOf(r)') = c + 1
      BY <3>2, <3>3
    <3>5. \A k \in 1 .. c + 1 : RowsOf(r)'[k] = audit'[NthNew(k)]
      BY <2>8
    <3> QED
      BY <2>10, <3>4, <3>5
  <2>12. RowsOf(r)' = Append(RowsOf(r), new)
    <3>1. /\ Append(RowsOf(r), new) \in Seq(AuditRows)
          /\ Len(Append(RowsOf(r), new)) = c + 1
          /\ \A k \in 1 .. c + 1 : Append(RowsOf(r), new)[k]
                                  = IF k = c + 1 THEN new ELSE RowsOf(r)[k]
      BY <1>2, <2>9
    <3> QED
      BY <2>11, <3>1, SeqEqual
  <2> QED
    BY <1>5, <2>5, <2>12
<1> QED
  BY <1>4, <1>5

LEMMA RowsKeep ==
    ASSUME NEW r \in Runs, Ranked(r), audit' = audit
    PROVE  Ranked(r)' /\ RowsOf(r)' = RowsOf(r)
BY DEF Ranked, RowsOf, IdsOf, Rank

-----------------------------------------------------------------------------
(* What each run's rows say of the run, and what a reader has seen of them. *)

\* The row of a run agrees with the last of its audit rows.
RunFits(r) ==
    LET rows == RowsOf(r)
    IN  /\ row[r] = None => rows = <<>>
        /\ row[r] # None =>
               /\ row[r].since <= now
               /\ row[r].state = IF rows = <<>> THEN "healthy" ELSE rows[Len(rows)].to
               /\ rows # <<>> => row[r].since = rows[Len(rows)].at

\* Each move starts where the one before it ended.
Chained(rows) ==
    \A i \in DOMAIN rows :
        rows[i].from = IF i = 1 THEN "healthy" ELSE rows[i - 1].to

\* The rows say how the run came to be as it was read.
Explains(rows, x) ==
    \/ /\ x.state = "healthy"
       /\ \A i \in DOMAIN rows : x.since <= rows[i].at
    \/ \E i \in DOMAIN rows : rows[i].to = x.state /\ rows[i].at = x.since

ViewFits(v) ==
    /\ view[v].pc = "rows" => \E r \in Runs :
           /\ view[v].run = r
           /\ row[r] \in Rows /\ view[v].row \in Rows
           /\ view[v].row.since <= row[r].since
           /\ Explains(RowsOf(r), view[v].row)
    /\ view[v].pc = "done" =>
           Chained(view[v].rows) /\ Explains(view[v].rows, view[v].row)

\* What was selected had been where it was for a timeout already.
SweepTimed(s) ==
    /\ sweep[s].at <= now
    /\ \A x \in sweep[s].selected : sweep[s].at - x.row.since >= HeartbeatTimeout

ViewsTyped == view \in [Views -> ViewThreads] /\ moves \in Nat /\ outages \in Nat

RunsFit == \A r \in Runs : Ranked(r) /\ RunFits(r) /\ Chained(RowsOf(r))

RInv ==
    /\ FInv
    /\ ViewsTyped
    /\ RunsFit
    /\ \A s \in Sweepers : SweepTimed(s)
    /\ \A v \in Views : ViewFits(v)

-----------------------------------------------------------------------------
(* Every move of a run is a dated move of the ladder.                      *)

\* What may be written after a run in state x, since some time.
Climbs(x, new) ==
    /\ x \in {"healthy", "degraded"}
    /\ new.to = NextRung(x)
    /\ new.actor = "system"

Lawful(x, since, new) ==
    \/ Climbs(x, new) /\ new.cause = "judge"
    \/ /\ Climbs(x, new) /\ new.cause = "heartbeat_timeout"
       /\ new.at - since >= HeartbeatTimeout
    \/ /\ x = "degraded" /\ new.to = "healthy"
       /\ new.cause = "clean_interval" /\ new.actor = "system"
       /\ new.at - since >= RecoveryInterval
    \/ \E op \in Operations :
           /\ Permitted(op, x, new.to)
           /\ new.cause = CauseOf(op) /\ new.actor = ActorOf(op)

LawfulMove(r, new) ==
    /\ row[r] \in Rows
    /\ new \in AuditRows
    /\ new.run = r /\ new.from = row[r].state
    /\ new.at \in row[r].since .. now
    /\ Lawful(row[r].state, row[r].since, new)
    /\ row' = [row EXCEPT ![r].state = new.to, ![r].since = new.at]
    /\ audit' = Append(audit, new)

LEMMA MoveIsLawful ==
    ASSUME FleetTyped, NEW r \in Runs, row[r] \in Rows, NEW to \in States,
           NEW cause \in Causes, NEW actor \in Actors,
           NEW at \in row[r].since .. now,
           Move(r, to, cause, actor, at),
           Lawful(row[r].state, row[r].since,
                  [run |-> r, from |-> row[r].state, to |-> to, cause |-> cause,
                   actor |-> actor, at |-> at])
    PROVE  \E new : LawfulMove(r, new)
<1> DEFINE new == [run |-> r, from |-> row[r].state, to |-> to, cause |-> cause,
                   actor |-> actor, at |-> at]
<1>1. at \in Nat
  BY DEF Rows, FleetTyped
<1>2. new \in AuditRows /\ new.run = r /\ new.from = row[r].state
  BY <1>1 DEF AuditRows, Rows
<1>3. /\ row' = [row EXCEPT ![r].state = new.to, ![r].since = new.at]
      /\ audit' = Append(audit, new) /\ new.at \in row[r].since .. now
  BY DEF Move
<1>4. Lawful(row[r].state, row[r].since, new)
  OBVIOUS
<1> HIDE DEF new
<1> QED
  BY <1>2, <1>3, <1>4 DEF LawfulMove

LEMMA OtherMoveIsLawful ==
    ASSUME FleetTyped, NEW r \in Runs, OtherMove(r)
    PROVE  \E new : LawfulMove(r, new)
<1>1. row[r] \in Rows
  BY Known DEF OtherMove
<1>2. PICK at \in row[r].since .. now :
        \/ /\ row[r].state \in DOMAIN Escalations
           /\ Move(r, NextRung(row[r].state), "judge", "system", at)
        \/ /\ row[r].state = "degraded"
           /\ at - row[r].since >= RecoveryInterval
           /\ Move(r, "healthy", "clean_interval", "system", at)
        \/ \E op \in Operations, to \in States :
               /\ Permitted(op, row[r].state, to)
               /\ Move(r, to, CauseOf(op), ActorOf(op), at)
  BY DEF OtherMove
<1>3. /\ {"judge", "clean_interval"} \subseteq Causes
      /\ {"system", "human"} \subseteq Actors /\ "healthy" \in States
  BY DEF Causes, Actors, States
<1>4. CASE /\ row[r].state \in DOMAIN Escalations
           /\ Move(r, NextRung(row[r].state), "judge", "system", at)
  <2>1. NextRung(row[r].state) \in States /\ row[r].state \in {"healthy", "degraded"}
    BY <1>4, NextRungIsState DEF Escalations
  <2>2. Lawful(row[r].state, row[r].since,
               [run |-> r, from |-> row[r].state, to |-> NextRung(row[r].state),
                cause |-> "judge", actor |-> "system", at |-> at])
    BY <2>1 DEF Lawful, Climbs
  <2> QED
    BY <1>1, <1>3, <1>4, <2>1, <2>2, MoveIsLawful
<1>5. CASE /\ row[r].state = "degraded"
           /\ at - row[r].since >= RecoveryInterval
           /\ Move(r, "healthy", "clean_interval", "system", at)
  <2>1. Lawful(row[r].state, row[r].since,
               [run |-> r, from |-> row[r].state, to |-> "healthy",
                cause |-> "clean_interval", actor |-> "system", at |-> at])
    BY <1>5 DEF Lawful
  <2> QED
    BY <1>1, <1>3, <1>5, <2>1, MoveIsLawful
<1>6. ASSUME NEW op \in Operations, NEW to \in States,
             Permitted(op, row[r].state, to),
             Move(r, to, CauseOf(op), ActorOf(op), at)
      PROVE  \E new : LawfulMove(r, new)
  <2>1. CauseOf(op) \in Causes /\ ActorOf(op) \in Actors
    BY DEF CauseOf, ActorOf, Operations, Causes, Actors
  <2>2. Lawful(row[r].state, row[r].since,
               [run |-> r, from |-> row[r].state, to |-> to,
                cause |-> CauseOf(op), actor |-> ActorOf(op), at |-> at])
    BY <1>6 DEF Lawful
  <2> QED
    BY <1>1, <1>6, <2>1, <2>2, MoveIsLawful
<1> QED
  BY <1>2, <1>4, <1>5, <1>6

\* A sweep that finds its selection unchanged finds it as long in its state.
LEMMA SweepMoveIsLawful ==
    ASSUME FInv, NEW s \in Sweepers, SweepTimed(s), SweepCommit(s)
    PROVE  \/ UNCHANGED <<row, audit>>
           \/ \E r \in Runs : \E new : LawfulMove(r, new)
<1>1. sweep[s] \in SweepThreads /\ SweepFits(s) /\ Len(audit) \in Nat /\ FleetTyped
  BY DEF FInv, FleetTyped, SweepsFit
<1>2. PICK x \in sweep[s].todo :
        \/ UNCHANGED <<row, audit>>
        \/ /\ Revision(x.run) = x.rev
           /\ Move(x.run, NextRung(x.row.state), "heartbeat_timeout",
                   "system", sweep[s].at)
  BY DEF SweepCommit
<1>3. /\ x \in Selections /\ SelectionFits(x)
      /\ x.row.state \in DOMAIN Escalations
      /\ sweep[s].at - x.row.since >= HeartbeatTimeout /\ sweep[s].at <= now
  BY <1>1, <1>2 DEF SweepThreads, SweepFits, SweepTimed
<1>4. /\ x.run \in Runs /\ x.rev \in Nat /\ row[x.run] \in Rows
      /\ x.row.since \in Nat /\ sweep[s].at \in Nat /\ HeartbeatTimeout \in Nat
      /\ now \in Nat
  BY <1>1, <1>3, FleetAssumption
     DEF Selections, Rows, SelectionFits, SweepThreads, FleetTyped
<1>5. ASSUME Revision(x.run) = x.rev,
             Move(x.run, NextRung(x.row.state), "heartbeat_timeout",
                  "system", sweep[s].at)
      PROVE  \E new : LawfulMove(x.run, new)
  <2>1. IsRevision(x.run, x.rev)
    BY <1>1, <1>4, <1>5, RevisionIs DEF FInv
  <2>2. ~Moved(x)
    BY <1>1, <1>4, <2>1 DEF IsRevision, Moved, FleetTyped
  <2>3. row[x.run].state = x.row.state /\ row[x.run].since = x.row.since
    BY <1>3, <2>2 DEF SelectionFits
  <2>4. sweep[s].at \in row[x.run].since .. now
    BY <1>3, <1>4, <2>3
  <2>5. /\ NextRung(row[x.run].state) \in States
        /\ row[x.run].state \in {"healthy", "degraded"}
        /\ "heartbeat_timeout" \in Causes /\ "system" \in Actors
    BY <1>3, <2>3, NextRungIsState DEF Causes, Actors, Escalations
  <2>6. Lawful(row[x.run].state, row[x.run].since,
               [run |-> x.run, from |-> row[x.run].state,
                to |-> NextRung(row[x.run].state), cause |-> "heartbeat_timeout",
                actor |-> "system", at |-> sweep[s].at])
    BY <1>3, <2>3, <2>5 DEF Lawful, Climbs
  <2> QED
    BY <1>1, <1>4, <1>5, <2>3, <2>4, <2>5, <2>6, MoveIsLawful
<1> QED
  BY <1>2, <1>4, <1>5
-----------------------------------------------------------------------------
(* The rows of the runs stay in step with the runs.                        *)

\* Telemetry, a registration, or nothing: no run moves.
NoMove ==
    /\ audit' = audit
    /\ row' \in [Runs -> Rows \cup {None}]
    /\ \A r \in Runs :
           \/ row'[r] = row[r]
           \/ /\ row[r] \in Rows /\ row'[r] \in Rows
              /\ row'[r].state = row[r].state /\ row'[r].since = row[r].since
           \/ /\ row[r] = None /\ row'[r] \in Rows
              /\ row'[r].state = "healthy" /\ row'[r].since <= now

LEMMA RunTyped ==
    ASSUME FleetTyped, NEW r \in Runs
    PROVE  /\ row[r] # None => row[r] \in Rows
           /\ row[r] \in Rows => row[r] # None /\ row[r].since \in Nat
           /\ now \in Nat
BY FleetAssumption DEF FleetTyped, Rows

LEMMA NoMoveStep ==
    ASSUME FleetTyped, RunsFit, NoMove, now' \in Nat, now' >= now
    PROVE  RunsFit'
<1> SUFFICES ASSUME NEW r \in Runs
             PROVE  (Ranked(r) /\ RunFits(r) /\ Chained(RowsOf(r)))'
  BY DEF RunsFit
<1>1. Ranked(r) /\ RunFits(r) /\ Chained(RowsOf(r))
  BY DEF RunsFit
<1>2. Ranked(r)' /\ RowsOf(r)' = RowsOf(r)
  BY <1>1, RowsKeep DEF NoMove
<1>3. Chained(RowsOf(r))'
  BY <1>1, <1>2 DEF Chained
<1>4. row[r] # None => row[r].since \in Nat
  BY RunTyped
<1>5. now \in Nat /\ None \notin Rows
  BY FleetAssumption DEF FleetTyped, Rows
<1>6. RunFits(r)'
  <2>1. CASE row'[r] = row[r]
    BY <1>1, <1>2, <1>4, <1>5, <2>1 DEF RunFits
  <2>2. CASE /\ row[r] \in Rows /\ row'[r] \in Rows
             /\ row'[r].state = row[r].state /\ row'[r].since = row[r].since
    BY <1>1, <1>2, <1>4, <1>5, <2>2 DEF RunFits
  <2>3. CASE /\ row[r] = None /\ row'[r] \in Rows
             /\ row'[r].state = "healthy" /\ row'[r].since <= now
    <3>1. row'[r].since \in Nat
      BY <2>3 DEF Rows
    <3>2. RowsOf(r) = <<>>
      BY <1>1, <2>3 DEF RunFits
    <3>3. row'[r].since <= now'
      BY <1>5, <2>3, <3>1
    <3> QED
      BY <1>2, <1>5, <2>3, <3>2, <3>3 DEF RunFits
  <2> QED
    BY <2>1, <2>2, <2>3 DEF NoMove
<1> QED
  BY <1>2, <1>3, <1>6

\* What a move leaves of each run.
LEMMA MovedRows ==
    ASSUME FleetTyped, RunsFit, NEW r \in Runs, NEW new, LawfulMove(r, new),
           NEW q \in Runs
    PROVE  /\ Ranked(q)'
           /\ q # r => row'[q] = row[q] /\ RowsOf(q)' = RowsOf(q)
           /\ q = r => /\ RowsOf(q)' = Append(RowsOf(q), new)
                       /\ row'[q] \in Rows
                       /\ row'[q].state = new.to /\ row'[q].since = new.at
<1>1. Ranked(q)
  BY DEF RunsFit
<1>2. new \in AuditRows /\ new.run = r /\ audit' = Append(audit, new)
  BY DEF LawfulMove
<1>3. /\ Ranked(q)'
      /\ RowsOf(q)' = IF new.run = q THEN Append(RowsOf(q), new) ELSE RowsOf(q)
  BY <1>1, <1>2, RowsGrow
<1>4. /\ q # r => row'[q] = row[q]
      /\ row'[r] = [row[r] EXCEPT !.state = new.to, !.since = new.at]
  BY DEF LawfulMove, FleetTyped
<1>5. row[r] \in Rows /\ new.to \in States /\ new.at \in Nat
  BY DEF LawfulMove, AuditRows
<1>6. /\ row'[r] \in Rows /\ row'[r].state = new.to /\ row'[r].since = new.at
  BY <1>4, <1>5 DEF Rows
<1> QED
  BY <1>2, <1>3, <1>4, <1>6

LEMMA LawfulMoveStep ==
    ASSUME FleetTyped, RunsFit, NEW r \in Runs, NEW new, LawfulMove(r, new),
           now' = now
    PROVE  RunsFit'
<1> SUFFICES ASSUME NEW q \in Runs
             PROVE  (Ranked(q) /\ RunFits(q) /\ Chained(RowsOf(q)))'
  BY DEF RunsFit
<1>1. /\ Ranked(q)'
      /\ q # r => row'[q] = row[q] /\ RowsOf(q)' = RowsOf(q)
      /\ q = r => /\ RowsOf(q)' = Append(RowsOf(q), new)
                  /\ row'[q] \in Rows
                  /\ row'[q].state = new.to /\ row'[q].since = new.at
  BY MovedRows
<1>2. Ranked(q) /\ RunFits(q) /\ Chained(RowsOf(q))
  BY DEF RunsFit
<1>3. CASE q # r
  BY <1>1, <1>2, <1>3 DEF RunFits, Chained
<1>4. CASE q = r
  <2>1. RowsOf(r) \in Seq(AuditRows)
    BY <1>2, <1>4, RowsAreRows
  <2>2. PICK n : n = Len(RowsOf(r))
    OBVIOUS
  <2>3. /\ n \in Nat /\ DOMAIN RowsOf(r) = 1 .. n
        /\ DOMAIN RowsOf(r)' = 1 .. n + 1 /\ Len(RowsOf(r)') = n + 1
        /\ RowsOf(r)'[n + 1] = new
        /\ \A i \in 1 .. n : RowsOf(r)'[i] = RowsOf(r)[i]
        /\ RowsOf(r)' # <<>>
        /\ RowsOf(r) = <<>> <=> n = 0
    BY <1>1, <1>4, <2>1, <2>2 DEF LawfulMove
  <2>4. /\ row[r] \in Rows /\ row[r] # None /\ row'[r] # None
        /\ new.from = row[r].state /\ new.at \in row[r].since .. now
    BY <1>1, <1>4, FleetAssumption DEF LawfulMove, Rows
  <2>5. RunFits(r)'
    <3>1. new.at <= now'
      BY <2>4, RunTyped
    <3> QED
      BY <1>1, <1>4, <2>3, <2>4, <3>1 DEF RunFits
  <2>6. new.from = IF n = 0 THEN "healthy" ELSE RowsOf(r)[n].to
    BY <1>2, <1>4, <2>2, <2>3, <2>4 DEF RunFits
  <2>7. ASSUME NEW i \in 1 .. n + 1
        PROVE  RowsOf(r)'[i].from = IF i = 1 THEN "healthy" ELSE RowsOf(r)'[i - 1].to
    <3>1. CASE i = n + 1
      <4>1. i # 1 => i - 1 \in 1 .. n
        BY <2>3, <3>1
      <4> QED
        BY <2>3, <2>6, <3>1, <4>1
    <3>2. CASE i # n + 1
      <4>1. i \in 1 .. n /\ (i # 1 => i - 1 \in 1 .. n)
        BY <2>3, <3>2
      <4> QED
        BY <1>2, <1>4, <2>3, <4>1 DEF Chained
    <3> QED
      BY <3>1, <3>2
  <2>8. Chained(RowsOf(r))'
    BY <2>3, <2>7 DEF Chained
  <2> QED
    BY <1>1, <1>4, <2>5, <2>8
<1> QED
  BY <1>3, <1>4

\* What explains a row goes on explaining it: new rows are dated later.
LEMMA StillExplained ==
    ASSUME FleetTyped, RunsFit, NEW r \in Runs, NEW x \in Rows, row[r] \in Rows,
           x.since <= row[r].since, Explains(RowsOf(r), x),
           NoMove \/ \E q \in Runs : \E new : LawfulMove(q, new)
    PROVE  /\ row'[r] \in Rows
           /\ x.since <= row'[r].since /\ Explains(RowsOf(r), x)'
<1>1. x.since \in Nat /\ row[r].since \in Nat /\ None \notin Rows
  BY FleetAssumption DEF Rows
<1>2. CASE NoMove
  <2>1. RowsOf(r)' = RowsOf(r)
    BY <1>2, RowsKeep DEF NoMove, RunsFit
  <2>2. row'[r] \in Rows /\ row'[r].since = row[r].since
    BY <1>1, <1>2 DEF NoMove
  <2> QED
    BY <2>1, <2>2 DEF Explains
<1>3. ASSUME NEW q \in Runs, NEW new, LawfulMove(q, new)
      PROVE  /\ row'[r] \in Rows
             /\ x.since <= row'[r].since /\ Explains(RowsOf(r), x)'
  <2>1. /\ q # r => row'[r] = row[r] /\ RowsOf(r)' = RowsOf(r)
        /\ q = r => /\ RowsOf(r)' = Append(RowsOf(r), new)
                    /\ row'[r] \in Rows
                    /\ row'[r].state = new.to /\ row'[r].since = new.at
    BY <1>3, MovedRows
  <2>2. CASE q # r
    BY <2>1, <2>2 DEF Explains
  <2>3. CASE q = r
    <3>1. new.at \in row[r].since .. now /\ now \in Nat
      BY <1>3, <2>3 DEF LawfulMove, FleetTyped
    <3>2. x.since <= new.at
      BY <1>1, <3>1
    <3>3. RowsOf(r) \in Seq(AuditRows)
      BY RowsAreRows DEF RunsFit
    <3>4. PICK n : n = Len(RowsOf(r))
      OBVIOUS
    <3>5. /\ n \in Nat /\ DOMAIN RowsOf(r) = 1 .. n
          /\ DOMAIN RowsOf(r)' = 1 .. n + 1
          /\ RowsOf(r)'[n + 1] = new
          /\ \A i \in 1 .. n : RowsOf(r)'[i] = RowsOf(r)[i]
      BY <1>3, <2>1, <2>3, <3>3, <3>4 DEF LawfulMove
    <3>6. CASE /\ x.state = "healthy"
               /\ \A i \in DOMAIN RowsOf(r) : x.since <= RowsOf(r)[i].at
      <4>1. ASSUME NEW i \in 1 .. n + 1
            PROVE  x.since <= RowsOf(r)'[i].at
        <5>1. i = n + 1 \/ i \in 1 .. n
          BY <3>5
        <5> QED
          BY <3>2, <3>5, <3>6, <5>1
      <4> QED
        BY <2>1, <2>3, <3>2, <3>5, <3>6, <4>1 DEF Explains
    <3>7. ASSUME NEW i \in DOMAIN RowsOf(r),
                 RowsOf(r)[i].to = x.state, RowsOf(r)[i].at = x.since
          PROVE  Explains(RowsOf(r), x)'
      <4>1. i \in DOMAIN RowsOf(r)' /\ RowsOf(r)'[i] = RowsOf(r)[i]
        BY <3>5, <3>7
      <4> QED
        BY <3>7, <4>1 DEF Explains
    <3> QED
      BY <2>1, <2>3, <3>2, <3>6, <3>7 DEF Explains
  <2> QED
    BY <2>1, <2>2, <2>3
<1> QED
  BY <1>2, <1>3
-----------------------------------------------------------------------------
(* RInv is inductive.                                                      *)

LEMMA FirstRuns == FleetInit => RInv
<1> SUFFICES ASSUME FleetInit PROVE RInv
  OBVIOUS
<1>1. FInv
  BY FirstFleet
<1>2. ViewsTyped
  BY DEF FleetInit, ViewsTyped, ViewThreads, NewView
<1>3. ASSUME NEW r \in Runs
      PROVE  Ranked(r) /\ RunFits(r) /\ Chained(RowsOf(r))
  <2>1. IdsOf(r) = {} /\ row[r] = None
    BY DEF FleetInit, IdsOf
  <2>2. Cardinality(IdsOf(r)) = 0
    BY <2>1, FS_EmptySet
  <2>3. RowsOf(r) = <<>>
    BY <2>2 DEF RowsOf
  <2> QED
    BY <2>1, <2>2, <2>3 DEF Ranked, RunFits, Chained
<1>4. \A s \in Sweepers : SweepTimed(s)
  BY DEF FleetInit, SweepTimed, NoSweep
<1>5. \A v \in Views : ViewFits(v)
  BY DEF FleetInit, ViewFits, NewView
<1> QED
  BY <1>1, <1>2, <1>3, <1>4, <1>5 DEF RInv, RunsFit

\* A read in progress, or done, whatever the runs do meanwhile.
LEMMA ViewStays ==
    ASSUME RInv, NEW v \in Views, view'[v] = view[v],
           NoMove \/ \E q \in Runs : \E new : LawfulMove(q, new)
    PROVE  ViewFits(v)'
<1>1. ViewFits(v) /\ FleetTyped /\ RunsFit
  BY DEF RInv, FInv
<1>2. CASE view[v].pc = "rows"
  <2>1. PICK r \in Runs :
          /\ view[v].run = r
          /\ row[r] \in Rows /\ view[v].row \in Rows
          /\ view[v].row.since <= row[r].since
          /\ Explains(RowsOf(r), view[v].row)
    BY <1>1, <1>2 DEF ViewFits
  <2>2. PICK x : x = view[v].row
    OBVIOUS
  <2>3. /\ row'[r] \in Rows
        /\ x.since <= row'[r].since /\ Explains(RowsOf(r), x)'
    BY <1>1, <2>1, <2>2, StillExplained
  <2> QED
    BY <1>2, <2>1, <2>2, <2>3 DEF ViewFits, Explains
<1>3. CASE view[v].pc # "rows"
  BY <1>1, <1>3 DEF ViewFits, Chained, Explains
<1> QED
  BY <1>2, <1>3

\* Every step moves no run, or one run lawfully; the clock never goes back.
LEMMA StepsAreLawful ==
    ASSUME RInv, [FleetNext]_fleetVars
    PROVE  \/ NoMove /\ now' \in {now, now + 1}
           \/ now' = now /\ \E q \in Runs : \E new : LawfulMove(q, new)
<1>1. /\ FleetTyped /\ now \in Nat /\ row \in [Runs -> Rows \cup {None}]
  BY DEF RInv, FInv, FleetTyped
<1>2. ASSUME UNCHANGED <<row, audit>>
      PROVE  NoMove
  BY <1>1, <1>2 DEF NoMove
<1>3. CASE UNCHANGED fleetVars
  BY <1>2, <1>3 DEF fleetVars
<1>4. CASE FleetTick
  BY <1>2, <1>4 DEF FleetTick
<1>5. ASSUME NEW r \in Runs, Register(r)
      PROVE  NoMove /\ now' = now
  <2> DEFINE x == [state |-> "healthy", since |-> now, heartbeat |-> now]
  <2>1. x \in Rows /\ x.state = "healthy" /\ x.since <= now
    BY <1>1 DEF Rows, States
  <2> HIDE DEF x
  <2>2. row[r] = None /\ row' = [row EXCEPT ![r] = x] /\ audit' = audit /\ now' = now
    BY <1>5 DEF Register, x
  <2> QED
    BY <1>1, <2>1, <2>2 DEF NoMove
<1>6. ASSUME NEW r \in Runs, Telemetry(r)
      PROVE  NoMove /\ now' = now
  <2>1. r \in Runs /\ row[r] \in Rows /\ row[r].heartbeat \in Nat
    BY <1>1, <1>6, Known DEF Telemetry, Rows
  <2>2. PICK at \in row[r].heartbeat + 1 .. now :
          row' = [row EXCEPT ![r].heartbeat = at]
    BY <1>6 DEF Telemetry
  <2>3. at \in Nat
    BY <1>1, <2>1
  <2> DEFINE x == [row[r] EXCEPT !.heartbeat = at]
  <2>4. x \in Rows /\ x.state = row[r].state /\ x.since = row[r].since
    BY <2>1, <2>3 DEF Rows
  <2>5. row' = [row EXCEPT ![r] = x]
    BY <1>1, <2>2
  <2> HIDE DEF x
  <2>6. audit' = audit /\ now' = now
    BY <1>6 DEF Telemetry
  <2> QED
    BY <1>1, <2>1, <2>4, <2>5, <2>6 DEF NoMove
<1>7. ASSUME NEW r \in Runs, OtherMove(r)
      PROVE  now' = now /\ \E new : LawfulMove(r, new)
  BY <1>1, <1>7, OtherMoveIsLawful DEF OtherMove
<1>8. ASSUME NEW s \in Sweepers, SweepCommit(s)
      PROVE  /\ now' = now
             /\ NoMove \/ \E q \in Runs : \E new : LawfulMove(q, new)
  BY <1>2, <1>8, SweepMoveIsLawful DEF RInv, SweepCommit
<1>9. ASSUME NEW s \in Sweepers,
             SweepClock(s) \/ SweepSelect(s) \/ SweepEnd(s) \/ SweepOutage(s)
      PROVE  NoMove /\ now' = now
  BY <1>2, <1>9 DEF SweepClock, SweepSelect, SweepEnd, SweepOutage
<1>10. ASSUME NEW v \in Views, DetailRun(v) \/ DetailRows(v)
       PROVE  NoMove /\ now' = now
  BY <1>2, <1>10 DEF DetailRun, DetailRows
<1> QED
  BY <1>3, <1>4, <1>5, <1>6, <1>7, <1>8, <1>9, <1>10 DEF FleetNext

LEMMA SweepsStayTimed ==
    ASSUME RInv, [FleetNext]_fleetVars, NEW s \in Sweepers
    PROVE  SweepTimed(s)'
<1>1. /\ SweepTimed(s) /\ now \in Nat /\ now' \in Nat /\ now' >= now
      /\ sweep \in [Sweepers -> SweepThreads] /\ sweep[s].at \in Nat
  BY StepsAreLawful DEF RInv, FInv, FleetTyped, SweepThreads
<1>2. ASSUME sweep'[s] = sweep[s]
      PROVE  SweepTimed(s)'
  BY <1>1, <1>2 DEF SweepTimed
<1>3. CASE sweep' = sweep
  BY <1>2, <1>3
<1>4. ASSUME NEW u \in Sweepers, SweepClock(u)
      PROVE  SweepTimed(s)'
  <2>1. CASE u = s
    <3>1. /\ sweep'[s].at = now /\ sweep'[s].selected = sweep[s].selected
          /\ now' = now
      BY <1>1, <1>4, <2>1 DEF SweepClock, SweepThreads
    <3>2. \A x \in sweep[s].selected : sweep[s].at - x.row.since >= HeartbeatTimeout
      BY <1>1 DEF SweepTimed
    <3>3. \A x \in sweep[s].selected : x.row.since \in Nat
      BY <1>1 DEF SweepThreads, Selections, Rows
    <3>4. \A x \in sweep[s].selected : now - x.row.since >= HeartbeatTimeout
      BY <1>1, <3>2, <3>3, FleetAssumption DEF SweepTimed
    <3> QED
      BY <1>1, <3>1, <3>4 DEF SweepTimed
  <2>2. CASE u # s
    BY <1>1, <1>2, <1>4, <2>2 DEF SweepClock
  <2> QED
    BY <2>1, <2>2
<1>5. ASSUME NEW u \in Sweepers, SweepSelect(u)
      PROVE  SweepTimed(s)'
  <2>1. CASE u = s
    <3> DEFINE at  == sweep[s].at
               due == {r \in Runs : /\ Stale(r, at - HeartbeatTimeout)
                                    /\ OnLadderAndSpaced(row[r], at)}
               sel == {[run |-> r, row |-> row[r], rev |-> Revision(r)] : r \in due}
    <3>1. \A x \in sel : at - x.row.since >= HeartbeatTimeout
      BY DEF OnLadderAndSpaced
    <3> HIDE DEF sel, due
    <3>2. sweep' = [sweep EXCEPT ![s] =
                      [@ EXCEPT !.pc = "loop", !.todo = sel, !.selected = sel]]
      BY <1>5, <2>1 DEF SweepSelect, sel, due
    <3>3. sweep'[s].at = at /\ sweep'[s].selected = sel
      BY <1>1, <3>2 DEF SweepThreads
    <3> QED
      BY <1>1, <3>1, <3>3 DEF SweepTimed
  <2>2. CASE u # s
    BY <1>1, <1>2, <1>5, <2>2 DEF SweepSelect
  <2> QED
    BY <2>1, <2>2
<1>6. ASSUME NEW u \in Sweepers, SweepCommit(u)
      PROVE  SweepTimed(s)'
  <2>1. sweep'[s].at = sweep[s].at /\ sweep'[s].selected = sweep[s].selected
    BY <1>1, <1>6 DEF SweepCommit, SweepThreads
  <2> QED
    BY <1>1, <2>1 DEF SweepTimed
<1>7. ASSUME NEW u \in Sweepers, SweepEnd(u) \/ SweepOutage(u)
      PROVE  SweepTimed(s)'
  <2>1. sweep' = [sweep EXCEPT ![u] = NoSweep]
    BY <1>7 DEF SweepEnd, SweepOutage
  <2>2. CASE u = s
    <3>1. sweep'[s] = NoSweep
      BY <1>1, <2>1, <2>2
    <3> QED
      BY <1>1, <3>1 DEF SweepTimed, NoSweep
  <2>3. CASE u # s
    BY <1>1, <1>2, <2>1, <2>3
  <2> QED
    BY <2>2, <2>3
<1> QED
  BY <1>3, <1>4, <1>5, <1>6, <1>7
     DEF FleetNext, fleetVars, Register, Telemetry, OtherMove, FleetTick,
         DetailRun, DetailRows

\* The first of the two reads, then the second.
LEMMA ViewsStep ==
    ASSUME RInv, [FleetNext]_fleetVars
    PROVE  ViewsTyped' /\ \A v \in Views : ViewFits(v)'
<1>1. /\ ViewsTyped /\ FleetTyped /\ RunsFit /\ row \in [Runs -> Rows \cup {None}]
      /\ view \in [Views -> ViewThreads]
  BY DEF RInv, FInv, FleetTyped, ViewsTyped
<1>2. NoMove \/ \E q \in Runs : \E new : LawfulMove(q, new)
  BY StepsAreLawful
<1>3. ASSUME NEW v \in Views, NEW u \in Views, u # v,
             DetailRun(u) \/ DetailRows(u)
      PROVE  view'[v] = view[v]
  BY <1>1, <1>3 DEF DetailRun, DetailRows
<1>4. ASSUME NEW v \in Views, DetailRun(v)
      PROVE  ViewsTyped' /\ ViewFits(v)'
  <2>1. UNCHANGED <<row, audit>> /\ UNCHANGED <<moves, outages>>
    BY <1>4 DEF DetailRun
  <2>2. PICK r \in Runs : view' = [view EXCEPT ![v] =
            IF r \in Registered
            THEN [@ EXCEPT !.pc = "rows", !.run = r, !.row = row[r]]
            ELSE [@ EXCEPT !.pc = "failed"]]
    BY <1>4 DEF DetailRun
  <2>3. CASE r \in Registered
    <3>1. row[r] \in Rows /\ row[r] # None /\ row[r].since \in Nat
      BY <1>1, <2>3, Known DEF Rows, Registered
    <3> DEFINE w == [view[v] EXCEPT !.pc = "rows", !.run = r, !.row = row[r]]
    <3>2. /\ w \in ViewThreads /\ w.pc = "rows" /\ w.run = r /\ w.row = row[r]
      BY <1>1, <3>1 DEF ViewThreads
    <3>3. view' = [view EXCEPT ![v] = w]
      BY <2>2, <2>3
    <3> HIDE DEF w
    <3>4. view' \in [Views -> ViewThreads] /\ view'[v] = w
      BY <1>1, <3>2, <3>3
    <3>5. RunFits(r) /\ RowsOf(r) \in Seq(AuditRows)
      BY <1>1, RowsAreRows DEF RunsFit
    <3>6. PICK x : x = row[r]
      OBVIOUS
    <3>7. Explains(RowsOf(r), x)
      <4>1. PICK n : n = Len(RowsOf(r))
        OBVIOUS
      <4>2. /\ n \in Nat /\ DOMAIN RowsOf(r) = 1 .. n
            /\ RowsOf(r) # <<>> => n \in 1 .. n
            /\ RowsOf(r) = <<>> => DOMAIN RowsOf(r) = {}
        BY <3>5, <4>1
      <4> QED
        BY <3>1, <3>5, <3>6, <4>1, <4>2 DEF RunFits, Explains
    <3>8. RowsOf(r)' = RowsOf(r)
      BY <1>1, <2>1, RowsKeep DEF RunsFit
    <3>9. /\ view'[v].run = r /\ view'[v].row = x /\ view'[v].pc = "rows"
          /\ row'[r] = x /\ x \in Rows /\ x.since \in Nat
          /\ Explains(RowsOf(r), x)'
      BY <2>1, <3>1, <3>2, <3>4, <3>6, <3>7, <3>8 DEF Explains
    <3>10. ViewFits(v)'
      BY <3>9 DEF ViewFits, Explains
    <3> QED
      BY <1>1, <2>1, <3>4, <3>10 DEF ViewsTyped
  <2>4. CASE r \notin Registered
    <3>1. /\ view' \in [Views -> ViewThreads] /\ view'[v].pc = "failed"
      BY <1>1, <2>2, <2>4 DEF ViewThreads
    <3> QED
      BY <1>1, <2>1, <3>1 DEF ViewsTyped, ViewFits
  <2> QED
    BY <2>3, <2>4
<1>5. ASSUME NEW v \in Views, DetailRows(v)
      PROVE  ViewsTyped' /\ ViewFits(v)'
  <2>1. UNCHANGED <<row, audit, moves, outages>> /\ view[v].pc = "rows"
    BY <1>5 DEF DetailRows
  <2>2. PICK r \in Runs : view[v].run = r /\ Explains(RowsOf(r), view[v].row)
    BY <2>1 DEF RInv, ViewFits
  <2>3. RowsOf(r) \in Seq(AuditRows) /\ Chained(RowsOf(r))
    BY <1>1, <2>2, RowsAreRows DEF RunsFit
  <2> DEFINE w == [view[v] EXCEPT !.pc = "done", !.rows = RowsOf(r)]
  <2>4. /\ w \in ViewThreads /\ w.pc = "done" /\ w.rows = RowsOf(r)
        /\ w.row = view[v].row
    BY <1>1, <2>3 DEF ViewThreads
  <2>5. view' = [view EXCEPT ![v] = w]
    BY <1>5, <2>2 DEF DetailRows
  <2> HIDE DEF w
  <2>6. view' \in [Views -> ViewThreads] /\ view'[v] = w
    BY <1>1, <2>4, <2>5
  <2> QED
    BY <1>1, <2>1, <2>2, <2>3, <2>4, <2>6
       DEF ViewsTyped, ViewFits, Chained, Explains
<1>6. CASE UNCHANGED view /\ moves' \in Nat /\ outages' \in Nat
  BY <1>1, <1>2, <1>6, ViewStays DEF ViewsTyped
<1>7. CASE \E u \in Views : DetailRun(u) \/ DetailRows(u)
  BY <1>2, <1>3, <1>4, <1>5, <1>7, ViewStays
<1>8. moves \in Nat /\ outages \in Nat
  BY <1>1 DEF ViewsTyped
<1>9. ASSUME NEW r \in Runs, Register(r) \/ Telemetry(r) \/ OtherMove(r)
      PROVE  UNCHANGED view /\ moves' \in Nat /\ outages' \in Nat
  BY <1>8, <1>9 DEF Register, Telemetry, OtherMove
<1>10. ASSUME NEW s \in Sweepers,
              \/ SweepClock(s) \/ SweepSelect(s) \/ SweepCommit(s)
              \/ SweepEnd(s) \/ SweepOutage(s)
       PROVE  UNCHANGED view /\ moves' \in Nat /\ outages' \in Nat
  BY <1>8, <1>10
     DEF SweepClock, SweepSelect, SweepCommit, SweepEnd, SweepOutage
<1>11. CASE FleetTick \/ UNCHANGED fleetVars
  BY <1>6, <1>8, <1>11 DEF FleetTick, fleetVars
<1> QED
  BY <1>6, <1>7, <1>9, <1>10, <1>11 DEF FleetNext

LEMMA RunsStep == RInv /\ [FleetNext]_fleetVars => RInv'
<1> SUFFICES ASSUME RInv, [FleetNext]_fleetVars PROVE RInv'
  OBVIOUS
<1>1. FInv'
  BY FleetStep DEF RInv
<1>2. RunsFit'
  BY StepsAreLawful, NoMoveStep, LawfulMoveStep DEF RInv, FInv, FleetTyped
<1> QED
  BY <1>1, <1>2, SweepsStayTimed, ViewsStep DEF RInv

-----------------------------------------------------------------------------
(* The theorems.                                                           *)

\* Every variable of the fleet, and every local variable of its threads,
\* keeps its type with any number of runs, sweepers and readers.
THEOREM FleetIsTyped == FleetSpec => []FleetTypeOK
<1>1. RInv => FleetTypeOK
  BY DEF RInv, FInv, FleetTyped, ViewsTyped, FleetTypeOK
<1> QED
  BY <1>1, FirstRuns, RunsStep, PTL DEF FleetSpec

\* run_detail reads the run and its rows in two sessions, and still never
\* shows a state without the rows that led to it, whatever commits between.
THEOREM DetailsExplain == FleetSpec => []DetailExplains
<1>1. RInv => DetailExplains
  BY DEF RInv, ViewFits, DetailExplains, Chained, Explains
<1> QED
  BY <1>1, FirstRuns, RunsStep, PTL DEF FleetSpec

\* A run nobody moves does nothing that the ladder could see but grow older.
LEMMA NoMoveIsNoMove ==
    ASSUME RInv, NEW r \in Runs, NoMove, now' \in {now, now + 1}
    PROVE  [LadderOf(r)!Next]_(LadderOf(r)!vars)
<1>1. RowsOf(r)' = RowsOf(r)
  BY RowsKeep DEF NoMove, RInv, RunsFit
<1>2. MovesOf(r)' = MovesOf(r)
  BY <1>1 DEF MovesOf
<1>3. (IF row'[r] = None THEN "healthy" ELSE row'[r].state)
      = (IF row[r] = None THEN "healthy" ELSE row[r].state)
  BY FleetAssumption DEF NoMove, Rows
<1> QED
  BY <1>2, <1>3 DEF LadderOf!Next, LadderOf!Tick, LadderOf!vars

\* The moves of a run in the words of the ladder.
LEMMA MovesAreDated ==
    ASSUME RInv, NEW r \in Runs, row[r] \in Rows
    PROVE  /\ LadderOf(r)!Since \in Nat
           /\ LadderOf(r)!Since <= row[r].since
<1>1. /\ RunFits(r) /\ RowsOf(r) \in Seq(AuditRows)
      /\ row[r] # None /\ row[r].since \in Nat
  BY RowsAreRows, RunTyped DEF RInv, FInv, RunsFit
<1>2. PICK n : n = Len(RowsOf(r))
  OBVIOUS
<1>3. n \in Nat /\ DOMAIN RowsOf(r) = 1 .. n
  BY <1>1, <1>2
<1>4. CASE RowsOf(r) = <<>>
  <2>1. MovesOf(r) = <<>>
    BY <1>4 DEF MovesOf
  <2> QED
    BY <1>1, <2>1 DEF LadderOf!Since
<1>5. CASE RowsOf(r) # <<>>
  <2>1. n \in 1 .. n /\ n # 0
    BY <1>1, <1>2, <1>3, <1>5
  <2>2. DOMAIN MovesOf(r) = 1 .. n /\ MovesOf(r)[n].at = RowsOf(r)[n].at
    BY <1>3, <2>1 DEF MovesOf
  <2>3. Len(MovesOf(r)) = n /\ MovesOf(r) # <<>>
    BY <1>3, <2>1, <2>2
  <2>4. RowsOf(r)[n].at = row[r].since
    BY <1>1, <1>2, <1>5 DEF RunFits
  <2> QED
    BY <1>1, <2>2, <2>3, <2>4 DEF LadderOf!Since
<1> QED
  BY <1>4, <1>5

LEMMA MovesGrow ==
    ASSUME RInv, NEW r \in Runs, NEW new, LawfulMove(r, new)
    PROVE  MovesOf(r)' = Append(MovesOf(r),
               [from |-> new.from, to |-> new.to, cause |-> new.cause,
                actor |-> new.actor, at |-> new.at])
<1> DEFINE Named(x) == [from |-> x.from, to |-> x.to, cause |-> x.cause,
                        actor |-> x.actor, at |-> x.at]
           T == [from : States, to : States, cause : Causes, actor : Actors, at : Nat]
<1>1. RowsOf(r)' = Append(RowsOf(r), new) /\ RowsOf(r) \in Seq(AuditRows)
  BY MovedRows, RowsAreRows DEF RInv, FInv, RunsFit
<1>2. new \in AuditRows /\ \A x \in AuditRows : Named(x) \in T
  BY DEF LawfulMove, AuditRows
<1>3. PICK n : n = Len(RowsOf(r))
  OBVIOUS
<1>4. MovesOf(r) = [i \in 1 .. n |-> Named(RowsOf(r)[i])]
  BY <1>1, <1>3 DEF MovesOf
<1>5. /\ n \in Nat /\ RowsOf(r)' \in Seq(AuditRows)
      /\ DOMAIN RowsOf(r)' = 1 .. n + 1 /\ RowsOf(r)'[n + 1] = new
      /\ \A i \in 1 .. n : RowsOf(r)'[i] = RowsOf(r)[i]
      /\ \A i \in 1 .. n : RowsOf(r)[i] \in AuditRows
      /\ \A i \in 1 .. n + 1 : RowsOf(r)'[i] \in AuditRows
  BY <1>1, <1>2, <1>3
<1>6. MovesOf(r)' = [i \in 1 .. n + 1 |-> Named(RowsOf(r)'[i])]
  BY <1>5 DEF MovesOf
<1>7. \A i \in 1 .. n + 1 : Named(RowsOf(r)'[i])
                            = IF i = n + 1 THEN Named(new) ELSE Named(RowsOf(r)[i])
  <2>1. \A i \in 1 .. n + 1 : i # n + 1 => i \in 1 .. n
    BY <1>5
  <2> QED
    BY <1>5, <2>1
<1>8. MovesOf(r) \in Seq(T) /\ Len(MovesOf(r)) = n
  <2>1. \A i \in 1 .. n : Named(RowsOf(r)[i]) \in T
    BY <1>2, <1>5
  <2> HIDE DEF Named, T
  <2> QED
    BY <1>4, <1>5, <2>1
<1>9. MovesOf(r)' \in Seq(T) /\ Len(MovesOf(r)') = n + 1
  <2>1. \A i \in 1 .. n + 1 : Named(RowsOf(r)'[i]) \in T
    BY <1>2, <1>5
  <2>2. n + 1 \in Nat
    BY <1>5
  <2> HIDE DEF Named, T
  <2> QED
    BY <1>6, <2>1, <2>2
<1>10. Named(new) \in T
  BY <1>2
<1> HIDE DEF Named, T
<1>11. /\ Append(MovesOf(r), Named(new)) \in Seq(T)
       /\ Len(Append(MovesOf(r), Named(new))) = n + 1
       /\ \A i \in 1 .. n + 1 : Append(MovesOf(r), Named(new))[i]
                              = IF i = n + 1 THEN Named(new) ELSE MovesOf(r)[i]
  BY <1>5, <1>8, <1>10
<1>12. \A i \in 1 .. n + 1 : MovesOf(r)'[i] = Append(MovesOf(r), Named(new))[i]
  <2>1. \A i \in 1 .. n + 1 : i # n + 1 => i \in 1 .. n
    BY <1>5
  <2> QED
    BY <1>4, <1>6, <1>7, <1>11, <2>1
<1>13. MovesOf(r)' = Append(MovesOf(r), Named(new))
  BY <1>9, <1>11, <1>12, SeqEqual
<1> QED
  BY <1>13 DEF Named

\* A lawful move is one of the ladder's.
LEMMA LawfulMoveClimbs ==
    ASSUME RInv, NEW r \in Runs, NEW new, LawfulMove(r, new), now' = now
    PROVE  LadderOf(r)!Next
<1>1. /\ row[r] \in Rows /\ row[r] # None /\ now \in Nat /\ row[r].since \in Nat
      /\ new.from = row[r].state /\ new.at \in row[r].since .. now
      /\ new \in AuditRows /\ FleetTyped /\ RunsFit
  BY RunTyped DEF LawfulMove, RInv, FInv
<1>2. row'[r] # None /\ row'[r].state = new.to
  BY <1>1, MovedRows, FleetAssumption DEF Rows
<1>3. LadderOf(r)!Since \in Nat /\ LadderOf(r)!Since <= row[r].since
  BY <1>1, MovesAreDated
<1>4. PICK at : at = new.at
  OBVIOUS
<1>5. at \in 0 .. now /\ at \in LadderOf(r)!Since .. now
  BY <1>1, <1>3, <1>4
<1>6. LadderOf(r)!Move(new.to, new.cause, new.actor, at)
  BY <1>1, <1>2, <1>4, <1>5, MovesGrow DEF LadderOf!Move
<1>7. (IF row[r] = None THEN "healthy" ELSE row[r].state) = row[r].state
  BY <1>1
<1>8. /\ HeartbeatTimeout \in Nat /\ RecoveryInterval \in Nat
      /\ \A k \in Nat : at - row[r].since >= k => at - LadderOf(r)!Since >= k
  BY <1>1, <1>3, <1>5, FleetAssumption
<1>9. CASE Climbs(row[r].state, new) /\ new.cause = "judge"
  <2>1. LadderOf(r)!OneRungUp(new.to) /\ new.to \in {"degraded", "frozen"}
    BY <1>7, <1>9 DEF Climbs, NextRung, Escalations, LadderOf!OneRungUp
  <2>2. LadderOf(r)!Escalate
    BY <1>5, <1>6, <1>9, <2>1 DEF Climbs, LadderOf!Escalate, LadderOf!Evidence
  <2> QED
    BY <2>2 DEF LadderOf!Next
<1>10. CASE /\ Climbs(row[r].state, new) /\ new.cause = "heartbeat_timeout"
            /\ new.at - row[r].since >= HeartbeatTimeout
  <2>1. LadderOf(r)!OneRungUp(new.to) /\ new.to \in {"degraded", "frozen"}
    BY <1>7, <1>10 DEF Climbs, NextRung, Escalations, LadderOf!OneRungUp
  <2>2. LadderOf(r)!Silence
    BY <1>4, <1>5, <1>6, <1>8, <1>10, <2>1 DEF Climbs, LadderOf!Silence
  <2> QED
    BY <2>2 DEF LadderOf!Next
<1>11. CASE /\ row[r].state = "degraded" /\ new.to = "healthy"
            /\ new.cause = "clean_interval" /\ new.actor = "system"
            /\ new.at - row[r].since >= RecoveryInterval
  <2>1. LadderOf(r)!Recover
    BY <1>4, <1>5, <1>6, <1>7, <1>8, <1>11 DEF LadderOf!Recover
  <2> QED
    BY <2>1 DEF LadderOf!Next
<1>12. ASSUME NEW op \in Operations, Permitted(op, row[r].state, new.to),
              new.cause = CauseOf(op), new.actor = ActorOf(op)
       PROVE  LadderOf(r)!Next
  <2>1. CASE op = "complete"
    <3>1. /\ row[r].state \in {"healthy", "degraded"} /\ new.to = "terminated"
          /\ new.cause = "completed" /\ new.actor = "system"
      BY <1>12, <2>1 DEF Permitted, CompletableFrom, CauseOf, ActorOf
    <3>2. LadderOf(r)!Complete
      BY <1>5, <1>6, <1>7, <3>1 DEF LadderOf!Complete
    <3> QED
      BY <3>2 DEF LadderOf!Next
  <2>2. CASE op = "release"
    <3>1. /\ row[r].state = "frozen" /\ new.to \in {"healthy", "degraded"}
          /\ new.cause = "release" /\ new.actor = "human"
      BY <1>12, <2>2 DEF Permitted, ReleaseTargets, CauseOf, ActorOf
    <3>2. LadderOf(r)!Release
      BY <1>5, <1>6, <1>7, <3>1 DEF LadderOf!Release
    <3> QED
      BY <3>2 DEF LadderOf!Next
  <2>3. CASE op = "terminate"
    <3>1. /\ row[r].state # "terminated" /\ new.to = "terminated"
          /\ new.cause = "terminated" /\ new.actor = "human"
      BY <1>12, <2>3 DEF Permitted, TerminableFrom, CauseOf, ActorOf
    <3>2. LadderOf(r)!Terminate
      BY <1>5, <1>6, <1>7, <3>1 DEF LadderOf!Terminate
    <3> QED
      BY <3>2 DEF LadderOf!Next
  <2> QED
    BY <2>1, <2>2, <2>3 DEF Operations
<1> QED
  BY <1>9, <1>10, <1>11, <1>12 DEF LawfulMove, Lawful

\* Whatever sweeps, handlers and outages do to the others, each run climbs
\* the abstract ladder: every step is one of its moves, or none at all.
THEOREM EachRunClimbs == FleetSpec => EachRunClimbsTheLadder
<1>1. ASSUME RInv, [FleetNext]_fleetVars, NEW r \in Runs
      PROVE  [LadderOf(r)!Next]_(LadderOf(r)!vars)
  <2>1. CASE NoMove /\ now' \in {now, now + 1}
    BY <1>1, <2>1, NoMoveIsNoMove
  <2>2. ASSUME now' = now, NEW q \in Runs, NEW new, LawfulMove(q, new)
        PROVE  [LadderOf(r)!Next]_(LadderOf(r)!vars)
    <3>1. CASE q = r
      BY <1>1, <2>2, <3>1, LawfulMoveClimbs
    <3>2. CASE q # r
      <4>1. row'[r] = row[r] /\ RowsOf(r)' = RowsOf(r)
        BY <1>1, <2>2, <3>2, MovedRows DEF RInv, FInv
      <4>2. MovesOf(r)' = MovesOf(r)
        BY <4>1 DEF MovesOf
      <4> QED
        BY <2>2, <4>1, <4>2 DEF LadderOf!vars
    <3> QED
      BY <3>1, <3>2
  <2> QED
    BY <1>1, <2>1, <2>2, StepsAreLawful
<1>2. RInv /\ [FleetNext]_fleetVars =>
          [\A r \in Runs : [LadderOf(r)!Next]_(LadderOf(r)!vars)]_fleetVars
  BY <1>1
<1> QED
  BY <1>2, FirstRuns, RunsStep, PTL DEF FleetSpec, EachRunClimbsTheLadder
=============================================================================

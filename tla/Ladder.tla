------------------------------- MODULE Ladder -------------------------------
(***************************************************************************)
(* The vocabulary of the control plane and its transition table:           *)
(* domain/states.py, domain/machine.py and domain/registry.py.             *)
(*                                                                         *)
(* machine.py builds the row of every state change; it does not apply it.  *)
(* What it decides is which moves exist, and what cause and actor they are *)
(* recorded with.  That table is all there is here: no variable.           *)
(***************************************************************************)
EXTENDS Integers

CONSTANTS
    Tools,        \* the tool names a worker may propose
    ToolRisks,    \* the registry: a function from some of Tools to Risks
    None          \* the absent value of an optional field

Risks == {"low", "high"}

ASSUME RegistryAssumption ==
    /\ \A t \in DOMAIN ToolRisks : ToolRisks[t] \in Risks
    /\ None \notin Tools

-----------------------------------------------------------------------------
States     == {"healthy", "degraded", "frozen", "terminated"}
Decisions  == {"allow", "deny", "freeze"}
Severities == {"clear", "concern", "severe"}

\* verdict.severity >= Severity.CONCERN
Adverse == {"concern", "severe"}

RuleNames ==
    {"budget", "loop", "error_streak", "wall_clock", "call_rate", "flap"}

Causes == RuleNames \cup
    {"judge", "clean_interval", "heartbeat_timeout",
     "release", "completed", "terminated"}

ASSUME CauseAssumption == None \notin Causes

Actors == {"system", "human"}

\* registry.risk_of: a name the table does not hold is HIGH.
RiskOf(tool) ==
    IF tool \in DOMAIN ToolRisks THEN ToolRisks[tool] ELSE "high"

LowTools == {t \in DOMAIN ToolRisks : ToolRisks[t] = "low"}

-----------------------------------------------------------------------------
(* The permitted transitions.  Anything absent is rejected.                *)

Escalations ==
    [s \in {"healthy", "degraded"} |->
        IF s = "healthy" THEN "degraded" ELSE "frozen"]

NextRung(s) == Escalations[s]

ReleaseTargets == [s \in {"frozen"} |-> {"degraded", "healthy"}]

CompletableFrom == {"healthy", "degraded"}

TerminableFrom == {"healthy", "degraded", "frozen"}

\* The three operations a client asks for by name.
Operations == {"complete", "release", "terminate"}

\* Plausible bug, here to check that the properties notice it: a release that
\* does not ask where the run is.
PermittedFromAnywhere(op, from, to) ==
    \/ op \in {"complete", "terminate"} /\ from \in TerminableFrom /\ to = "terminated"
    \/ op = "release" /\ to \in {"degraded", "healthy"}

\* Whether machine.complete / release / terminate builds a row, or raises
\* IllegalTransition.
Permitted(op, from, to) ==
    \/ /\ op = "complete"
       /\ from \in CompletableFrom
       /\ to = "terminated"
    \/ /\ op = "release"
       /\ from \in DOMAIN ReleaseTargets
       /\ to \in ReleaseTargets[from]
    \/ /\ op = "terminate"
       /\ from \in TerminableFrom
       /\ to = "terminated"

\* Plausible bug: the operation's name instead of the cause the audit uses.
OperationName(op) == op

CauseOf(op) ==
    CASE op = "complete"  -> "completed"
      [] op = "release"   -> "release"
      [] op = "terminate" -> "terminated"

ActorOf(op) == IF op = "complete" THEN "system" ELSE "human"
=============================================================================

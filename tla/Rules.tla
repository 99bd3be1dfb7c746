------------------------------- MODULE Rules -------------------------------
(***************************************************************************)
(* The deterministic detectors of domain/rules.py: pure predicates over a  *)
(* context the gate assembles,                                             *)
(*                                                                         *)
(*   ctx = [run, tool, args, history, transitions, now]                    *)
(*                                                                         *)
(* run is the row the gate read first, history the log rows it read before *)
(* it recorded this proposal, transitions the audit rows it read after.    *)
(* The limits of the run (budget, deadline) are fixed when it is           *)
(* registered and are constants here.                                      *)
(***************************************************************************)
EXTENDS Ladder, Sequences, FiniteSets

CONSTANTS
    LoopRepeats, LoopWindow,          \* settings.loop_repeats, .loop_window
    ErrorStreakLimit,                 \* settings.error_streak
    CallRatePerMinute, Minute,        \* settings.call_rate_per_minute
    FlapDegradations, FlapWindow,     \* settings.flap_degradations, .flap_window
    BudgetTokens, BudgetCost,         \* run.budget_tokens, .budget_cost_cents
    Deadline,                         \* run.deadline_at
    Unnamed                           \* the tool name "", which api.py accepts

ASSUME RulesAssumption ==
    \A n \in {LoopRepeats, LoopWindow, ErrorStreakLimit, CallRatePerMinute,
              Minute, FlapDegradations, FlapWindow, BudgetTokens, BudgetCost,
              Deadline} : n \in Nat

-----------------------------------------------------------------------------
\* The last n elements, what ORDER BY seq DESC LIMIT n reads.
LastRows(s, n) == SubSeq(s, IF Len(s) > n THEN Len(s) - n + 1 ELSE 1, Len(s))

IsProposal(row) == row.kind = "proposed"

\* "" is false: the loop rule, and only it, passes such a proposal over.
IsNamed(row) == IsProposal(row) /\ row.tool # Unnamed

\* The slice [-n:] of the named proposals of a history, as the set of their
\* indices: with n = 0 Python returns all of them.
LastProposals(history, n) ==
    LET proposals == {i \in DOMAIN history : IsNamed(history[i])}
    IN  {i \in proposals :
            n = 0 \/ Cardinality({j \in proposals : j > i}) < n}

Budget(ctx) ==
    \/ ctx.run.tokens > BudgetTokens
    \/ ctx.run.cost > BudgetCost

\* What is compared of row i of the history; 0 is the proposed call.
Signature(ctx, i) ==
    IF i = 0 THEN <<ctx.tool, ctx.args>>
    ELSE <<ctx.history[i].tool, ctx.history[i].args>>

\* The repeats of any signature count, not only those of the proposed call.
Loop(ctx) ==
    LET counted == LastProposals(ctx.history, LoopWindow) \cup {0}
    IN  \E i \in counted :
            Cardinality({j \in counted : Signature(ctx, j) = Signature(ctx, i)})
                >= LoopRepeats

ErrorStreak(ctx) == ctx.run.errors >= ErrorStreakLimit

WallClock(ctx) == ctx.now > Deadline

CallRate(ctx) ==
    Cardinality({i \in DOMAIN ctx.history :
                    /\ IsProposal(ctx.history[i])
                    /\ ctx.history[i].at >= ctx.now - Minute}) > CallRatePerMinute

Flap(ctx) ==
    Cardinality({i \in DOMAIN ctx.transitions :
                    /\ ctx.transitions[i].from = "healthy"
                    /\ ctx.transitions[i].to = "degraded"
                    /\ ctx.transitions[i].at >= ctx.now - FlapWindow})
        >= FlapDegradations

-----------------------------------------------------------------------------
\* rules.RULES and first_firing: the first to fire names the cause.
RuleOrder == <<"budget", "loop", "error_streak", "wall_clock", "call_rate", "flap">>

Fires(rule, ctx) ==
    \/ rule = "budget"       /\ Budget(ctx)
    \/ rule = "loop"         /\ Loop(ctx)
    \/ rule = "error_streak" /\ ErrorStreak(ctx)
    \/ rule = "wall_clock"   /\ WallClock(ctx)
    \/ rule = "call_rate"    /\ CallRate(ctx)
    \/ rule = "flap"         /\ Flap(ctx)

\* rule is first_firing(ctx); None when no rule fires.
IsFirstFiring(rule, ctx) ==
    IF rule = None
    THEN \A r \in RuleNames : ~Fires(r, ctx)
    ELSE /\ rule \in RuleNames
         /\ Fires(rule, ctx)
         /\ \A i, j \in DOMAIN RuleOrder :
                RuleOrder[i] = rule /\ j < i => ~Fires(RuleOrder[j], ctx)
=============================================================================

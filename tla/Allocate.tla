----------------------------- MODULE Allocate -----------------------------
(* The ledger of an orchestrator round (orchestrator.rs: effective_weight, *)
(* water_fill, allocate_budgets): a global budget of tokens split among    *)
(* agents, by weight, between a floor and a demand of each.                *)
(*                                                                         *)
(* The code bisects a real multiplier lambda; here lambda is the integer l *)
(* in units of 1/Scale of a weight's unit, and budgets are fractions over  *)
(* l, so that every comparison is exact.  A weight is an integer too:      *)
(* twentieths of priority, tenths of role, quarters of boost.              *)
EXTENDS Integers, FiniteSets, Functions

CONSTANTS
  Agents,        \* the agents of the round, at least one
  MinAgent,      \* options.min_agent_budget
  Priorities,    \* what callers may pass, in twentieths of 1.0
  Demands,       \* tokens a transcript may need
  Budgets,       \* global budgets callers may ask for
  Signals,       \* how many feedback signals a caller may report at a time
  Scale,         \* grid of the multiplier
  MaxSteps,      \* bound of the bisection: 200
  MaxRounds      \* bound of the model on rounds

ASSUME AllocateAssumption ==
  /\ IsFiniteSet(Agents) /\ Agents # {}
  /\ MinAgent \in Nat /\ MaxRounds \in Nat
  /\ Priorities \subseteq Int /\ Demands \subseteq Nat /\ Budgets \subseteq Nat
  /\ Signals \subseteq Nat
  /\ Scale \in Nat \ {0} /\ MaxSteps \in Nat \ {0}
  /\ \A d \in Demands : d < 32 * Scale  \* the first lambda is out of their reach

Strategies == {"uniform", "water_filling"}
RoleTenths == [supervisor |-> 15, critic |-> 12, worker |-> 10, other |-> 10,
               memory |-> 8]
Roles == DOMAIN RoleTenths

VARIABLES
  request,   \* what compile_multi_agent passes on: roles, demands, the budget...
  heard,     \* per agent, the signals its feedback counts
  lately,    \* the agents whose feedback grew since the last ledger
  lo, hi,    \* the bisection's bracket
  steps,     \* its iterations
  phase,     \* "asked", "bisecting" or "answered"
  ledger,    \* per agent, allocated_budget
  rounds

vars == <<request, heard, lately, lo, hi, steps, phase, ledger, rounds>>

Smaller(m, n) == IF m <= n THEN m ELSE n
Larger(m, n) == IF m >= n THEN m ELSE n
\* Mutant: clamped from above only.
ClampHigh(n, low, high) == Smaller(n, high)

Clamp(n, low, high) == Smaller(Larger(n, low), high)

---------------------------------------------------------------------------
(* What an agent brings.                                                   *)

\* Mutant: feedback counted against the agent it is about.
BoostInverted(a) == 16 - Smaller(4 + heard[a], 12)

Boost(a) == Smaller(4 + heard[a], 12)
Weight(a) ==
  Larger(request.priority[a], 1) * RoleTenths[request.role[a]] * Boost(a)
Floor(a) == Smaller(MinAgent, request.demand[a])
Floors == [a \in Agents |-> Floor(a)]

\* Mutant: feedback left out of the shares.
ShareUnboosted(a, l) ==
  Clamp(Larger(request.priority[a], 1) * RoleTenths[request.role[a]] * 4 * Scale - l,
        Floor(a) * l, request.demand[a] * l)

\* alloc_at: agent a's clamped share at l, as a fraction over l.
Share(a, l) ==
  Clamp(Weight(a) * Scale - l, Floor(a) * l, request.demand[a] * l)
TooMuch(l) == SumFunction([a \in Agents |-> Share(a, l)]) > request.budget * l

Heaviest(a) == \A b \in Agents : Weight(b) <= Weight(a)
Unit == 800          \* a weight of 1.0

\* The grid stands for the real multiplier of the code: where its steps are
\* no coarser than this, one of them moves no share by a token.
FineGrid ==
  \A d, e \in Demands : Cardinality(Agents) * d * (e + 1) <= 32 * Scale

\* The widths of a bracket that is halved again and again, from the first on;
\* MaxSteps halvings of the widest bracket leave a single step of the grid.
Widths(first) ==
  LET width[k \in 0..MaxSteps] == IF k = 0 THEN first ELSE (width[k - 1] + 1) \div 2
  IN width
EnoughSteps ==
  \A p \in Priorities : Widths((360 * Larger(p, 1) + Unit) * Scale)[MaxSteps] <= 1

Requests ==
  [strategy: Strategies, role: [Agents -> Roles], priority: [Agents -> Priorities],
   demand: [Agents -> Demands], budget: Budgets]

Init ==
  /\ request \in Requests
  /\ heard = [a \in Agents |-> 0]
  /\ lately = {}
  /\ lo = 0 /\ hi = 0 /\ steps = 0
  /\ phase = "asked"
  /\ ledger = [a \in Agents |-> 0]
  /\ rounds = 0

---------------------------------------------------------------------------
(* One call of allocate_budgets.                                           *)

Answer(shares) ==
  /\ ledger' = shares
  /\ lately' = {}
  /\ phase' = "answered"
  /\ rounds' = rounds + 1
  /\ UNCHANGED <<request, heard>>

Plenty == SumFunction(request.demand) <= request.budget
Scarce == SumFunction(Floors) >= request.budget

Uniform ==
  /\ phase = "asked" /\ request.strategy = "uniform"
  /\ Answer([a \in Agents |-> request.budget \div Cardinality(Agents)])
  /\ UNCHANGED <<lo, hi, steps>>

\* The two answers water_fill gives without a search.
Outright ==
  /\ phase = "asked" /\ request.strategy = "water_filling"
  /\ \/ Plenty /\ Answer(request.demand)
     \/ ~Plenty /\ Scarce /\ Answer(Floors)
  /\ UNCHANGED <<lo, hi, steps>>

Search ==
  /\ phase = "asked" /\ request.strategy = "water_filling"
  /\ ~Plenty /\ ~Scarce
  /\ lo' = 1
  /\ \E a \in Agents : Heaviest(a) /\ hi' = (2 * Weight(a) + Unit) * Scale
  /\ steps' = 0
  /\ phase' = "bisecting"
  /\ UNCHANGED <<request, heard, lately, ledger, rounds>>

\* The loop ends when the bracket is as narrow as its numbers tell.
Narrow == hi - lo <= 1 \/ steps >= MaxSteps

Bisect ==
  /\ phase = "bisecting" /\ ~Narrow
  /\ LET mid == (lo + hi) \div 2 IN
       \/ TooMuch(mid) /\ lo' = mid /\ hi' = hi
       \/ ~TooMuch(mid) /\ hi' = mid /\ lo' = lo
  /\ steps' = steps + 1
  /\ UNCHANGED <<request, heard, lately, phase, ledger, rounds>>

\* Mutant: shares rounded to the nearest token, not down.
FillNearest ==
  /\ phase = "bisecting" /\ Narrow
  /\ Answer([a \in Agents |-> (2 * Share(a, hi) + hi) \div (2 * hi)])
  /\ UNCHANGED <<lo, hi, steps>>

Fill ==
  /\ phase = "bisecting" /\ Narrow
  /\ Answer([a \in Agents |-> Share(a, hi) \div hi])
  /\ UNCHANGED <<lo, hi, steps>>

\* The caller: the same agents again, one of them with more feedback.
Feedback(a) ==
  /\ phase = "answered" /\ rounds < MaxRounds
  /\ \E s \in Signals : heard' = [heard EXCEPT ![a] = @ + s]
  /\ lately' = {a}
  /\ phase' = "asked"
  /\ UNCHANGED <<request, lo, hi, steps, ledger, rounds>>

Next == Uniform \/ Outright \/ Search \/ Bisect \/ Fill \/ \E a \in Agents : Feedback(a)

Spec == Init /\ [][Next]_vars

---------------------------------------------------------------------------
(* Properties.                                                             *)

TypeOK ==
  /\ request \in Requests
  /\ heard \in [Agents -> Nat]
  /\ lately \subseteq Agents
  /\ lo \in Nat /\ hi \in Nat /\ steps \in 0..MaxSteps
  /\ phase \in {"asked", "bisecting", "answered"}
  /\ phase = "bisecting" => request.strategy = "water_filling"
  /\ ledger \in [Agents -> Nat]
  /\ rounds \in Nat

Answered == phase = "answered" /\ request.strategy = "water_filling"
Filled == Answered /\ ~Plenty /\ ~Scarce

\* While water_fill searches, the budget lies between its two ends: the
\* answer read off hi cannot exceed it, one read off lo would.
Bracketed == phase = "bisecting" => TooMuch(lo) /\ ~TooMuch(hi)

\* When the floors fit the budget, the whole ledger does, and the rounding
\* down of each share leaves at most a token per agent unspent.
Spent ==
  Answered /\ ~Scarce =>
    /\ SumFunction(ledger) <= request.budget
    /\ ~Plenty => request.budget - SumFunction(ledger) <= Cardinality(Agents)

\* Water-filling starves no agent below its floor and gives none more than its
\* transcript needs, whichever of water_fill's three returns answered.
Bounded ==
  Answered => \A a \in Agents : ledger[a] \in Floor(a)..request.demand[a]

\* The shares the search rounds down are the optimum of sum w ln(1 + b), whose
\* slopes w / (1 + b) are even where no floor and no demand holds a share. Of the
\* tokens that can be seen as far as rounding lets them: give an agent below its
\* demand the one token rounding may have kept from it, and its next one adds to
\* that sum less than the last one of an agent above its floor. The token rounding
\* kept may be worth more: weights 640, 1200, 640 with 9 tokens in demand each
\* share 16 as 3, 8, 3, and one moved to an end raises the sum.
EvenMargins ==
  Filled =>
    \A a, b \in Agents :
      ledger[a] < request.demand[a] /\ ledger[b] > Floor(b) =>
        Weight(a) * (ledger[b] + 1) < Weight(b) * (ledger[a] + 2)

\* Feedback moves the ledger toward the agent it is about and away from the
\* others: from one round to the next the agent loses no more than the token
\* of a rounding, and they gain nothing.
RegretPays ==
  [][ phase' = "answered" /\ phase # "answered" =>
        \A a \in lately :
          /\ ledger'[a] >= ledger[a] - 1
          /\ \A b \in Agents \ lately : ledger'[b] <= ledger[b] ]_vars

\* "never allocates more than the global budget" (docs/MULTI_AGENT_RESEARCH.md
\* on allocate_budgets).
LedgerWithinBudget == phase = "answered" => SumFunction(ledger) <= request.budget

=============================================================================

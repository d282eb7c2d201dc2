------------------------------ MODULE LabPlanner ------------------------------
(***************************************************************************)
(* The bounded planner of the lab (lab/planner.py) over the finite model   *)
(* of a diagnosis (lab/model.py).                                          *)
(*                                                                         *)
(* propose searches the value of what remains to be observed, with a memo  *)
(* and under a ceiling of expansions that all branches of one search       *)
(* share: where the search stops depends on the order in which it went.    *)
(* propose_excluding leaves probes out that the host cannot obtain.        *)
(*                                                                         *)
(* The code's values are exact fractions, expectations over a posterior.   *)
(* Each is here multiplied by the total weight of that posterior, which    *)
(* makes it a natural number: the probability of an outcome is the ratio   *)
(* of two totals, so a continuation is the plain sum over its outcomes.    *)
(* Probes and decisions are numbers, in the order of their ids, and so are *)
(* worlds, in the order of the posterior.                                  *)
(***************************************************************************)
EXTENDS Integers, FiniteSets, FiniteSetsExt

CONSTANTS
  WorldCount, ProbeCount, DecisionCount,
  OutcomeIds,
  Models,       \* diagnosis models: weight, table, cost, loss and needs
  MaxBudget, MaxHorizon,
  Ceilings,     \* the max_expansions that calls pass
  NoPlan

Worlds == 1..WorldCount
Probes == 1..ProbeCount
Decisions == 1..DecisionCount
NoProbe == 0

\* Tables are complete, weights positive, and one decision needs nothing.
ClosedModel(m) ==
  /\ m.weight \in [Worlds -> Nat \ {0}]
  /\ m.table \in [Probes -> [Worlds -> OutcomeIds]]
  /\ m.cost \in [Probes -> Nat]
  /\ m.loss \in [Decisions -> [Worlds -> Nat]]
  /\ m.needs \in [Decisions -> SUBSET (Probes \X OutcomeIds)]
  /\ \E d \in Decisions : m.needs[d] = {}

ASSUME PlanBounds ==
  /\ {WorldCount, ProbeCount, DecisionCount, MaxBudget, MaxHorizon} \subseteq Nat
  /\ WorldCount > 0 /\ Ceilings \subseteq Nat \ {0}
ASSUME ModelsAreClosed == \A m \in Models : ClosedModel(m)

VARIABLES
  model,      \* the sealed model
  posterior,  \* the worlds that the episode has left
  satisfied,  \* the pairs of probe and outcome that it observed
  plan        \* the last plan, or NoPlan

episode == <<model, posterior, satisfied>>
planning == <<episode, plan>>

-----------------------------------------------------------------------------
(* The model.                                                              *)

\* What is left of an episode: worlds, observed pairs and budget.
Node == [worlds : SUBSET Worlds, pairs : SUBSET (Probes \X OutcomeIds), budget : 0..MaxBudget]

Total(m, worlds) == MapThenSumSet(LAMBDA w : m.weight[w], worlds)
Loss(m, worlds, d) == MapThenSumSet(LAMBDA w : m.weight[w] * m.loss[d][w], worlds)

\* Mutant: a low loss makes up for missing evidence.
AnyDecision(m, pairs) == Decisions

Admissible(m, pairs) == {d \in Decisions : m.needs[d] \subseteq pairs}

Stop(m, node) == Min({Loss(m, node.worlds, d) : d \in Admissible(m, node.pairs)})

\* Ties go to the smallest id.
StopDecision(m, node) ==
  Min({d \in Admissible(m, node.pairs) : Loss(m, node.worlds, d) = Stop(m, node)})

ProbesOf(pairs) == {pair[1] : pair \in pairs}

\* Mutant: the prior is filtered, not what is left of it.
SplitAnew(m, worlds, p, o) == {w \in Worlds : m.table[p][w] = o}

Split(m, worlds, p, o) == {w \in worlds : m.table[p][w] = o}
OutcomesOf(m, worlds, p) == {m.table[p][w] : w \in worlds}

\* What is left once a probe had an outcome.
Child(m, node, p, o) ==
  [worlds |-> Split(m, node.worlds, p, o), pairs |-> node.pairs \cup {<<p, o>>},
   budget |-> node.budget - m.cost[p]]

Candidates(m, node, excluded) ==
  {p \in Probes \ (ProbesOf(node.pairs) \cup excluded) : m.cost[p] <= node.budget}

-----------------------------------------------------------------------------
(* The search.                                                             *)

\* What one search carries from branch to branch.
Env ==
  [memo : SUBSET [node : Node, horizon : 0..MaxHorizon, value : Nat],
   used : Nat, exhausted : BOOLEAN]

\* Mutant: two paths to one posterior share their memo.
KeyOfWorlds(node) == [node EXCEPT !.pairs = {}]

Key(node) == node

Noted(env, node, horizon, value) ==
  [env EXCEPT !.memo = @ \cup {[node |-> Key(node), horizon |-> horizon, value |-> value]}]

Memo(env, node, horizon) == {n \in env.memo : n.node = Key(node) /\ n.horizon = horizon}

\* Mutant: the ceiling is noticed one expansion late.
CeilingMetLate(env, ceiling) == env.used > ceiling

CeilingMet(env, ceiling) == env.used >= ceiling

\* The worlds at which an outcome of a probe first shows.
Openers(m, worlds, p) ==
  {w \in worlds : \A v \in worlds : m.table[p][v] = m.table[p][w] => w <= v}

\* An outcome of a probe: its search goes on with the memo, the count and
\* the flag of those before.
TryOutcome(below, m, node, p, w, before) ==
  IF w \notin Openers(m, node.worlds, p) THEN before
  ELSE LET rest == below[[node |-> Child(m, node, p, m.table[p][w]), env |-> before.env]]
       IN  [value |-> before.value + rest.value, env |-> rest.env]

\* The value of acquiring a probe: its outcomes one after the other.
Try(below, m, node, p, env) ==
  LET tried[w \in 0..WorldCount] ==
        IF w = 0 THEN [value |-> m.cost[p] * Total(m, node.worlds), env |-> env]
        ELSE TryOutcome(below, m, node, p, w, tried[w - 1])
  IN  tried[WorldCount]

\* Only a lower value takes the place of an earlier one.
Compare(below, m, node, excluded, p, best) ==
  IF p \notin Candidates(m, node, excluded) THEN best
  ELSE LET tried == Try(below, m, node, p, best.env)
       IN  [value |-> IF tried.value < best.value THEN tried.value ELSE best.value,
            probe |-> IF tried.value < best.value THEN p ELSE best.probe,
            values |-> best.values \cup {<<p, tried.value>>},
            env |-> tried.env]

Answer(value, env) == [value |-> value, probe |-> NoProbe, values |-> {}, env |-> env]

\* The best of stopping and of every candidate, in the order of their ids.
Best(below, m, node, excluded, env) ==
  LET best[p \in 0..ProbeCount] ==
        IF p = 0 THEN Answer(Stop(m, node), env)
        ELSE Compare(below, m, node, excluded, p, best[p - 1])
  IN  best[ProbeCount]

\* Once the ceiling is met every further node is worth its stopping value.
Visit(below, m, ceiling, excluded, horizon, node, env) ==
  LET stopped(e) == Answer(Stop(m, node), Noted(e, node, horizon, Stop(m, node)))
      noted == Memo(env, node, horizon)
  IN  IF noted # {} THEN Answer((CHOOSE n \in noted : TRUE).value, env)
      ELSE IF horizon = 0 \/ env.exhausted THEN stopped(env)
      ELSE IF CeilingMet(env, ceiling) THEN stopped([env EXCEPT !.exhausted = TRUE])
      ELSE LET best == Best(below, m, node, excluded, [env EXCEPT !.used = @ + 1])
           IN  [best EXCEPT !.env = Noted(@, node, horizon, best.value)]

Level(below, m, ceiling, excluded, horizon) ==
  [call \in [node : Node, env : Env] |->
     Visit(below, m, ceiling, excluded, horizon, call.node, call.env)]

\* A search of some horizon goes on in searches of one less.
Plan(m, ceiling, excluded, horizon) ==
  LET search[h \in 0..MaxHorizon] ==
        Level(IF h = 0 THEN <<>> ELSE search[h - 1], m, ceiling, excluded, h)
  IN  search[horizon]

NewEnv == [memo |-> {}, used |-> 0, exhausted |-> FALSE]

-----------------------------------------------------------------------------
PlanInit ==
  /\ model \in Models
  /\ posterior = Worlds /\ satisfied = {} /\ plan = NoPlan

\* The episode goes on: an outcome of a probe filters the posterior.
Observe(p) ==
  /\ p \notin ProbesOf(satisfied)
  /\ \E o \in OutcomesOf(model, posterior, p) :
       /\ posterior' = Split(model, posterior, p, o)
       /\ satisfied' = satisfied \cup {<<p, o>>}
  /\ plan' = NoPlan
  /\ UNCHANGED model

\* Where a plan begins.
Root(budget) == [worlds |-> posterior, pairs |-> satisfied, budget |-> budget]

\* propose, and propose_excluding when the host names probes.  A call keeps
\* nothing, so that one plan of each episode is enough.
Propose(budget, horizon, ceiling, excluded) ==
  /\ plan = NoPlan
  /\ LET best == Plan(model, ceiling, excluded, horizon)[[node |-> Root(budget), env |-> NewEnv]]
     IN  plan' =
           [budget |-> budget, horizon |-> horizon, ceiling |-> ceiling, excluded |-> excluded,
            used |-> best.env.used, exhausted |-> best.env.exhausted,
            value |-> best.value, probe |-> best.probe, values |-> best.values,
            decision |-> StopDecision(model, Root(budget))]
  /\ UNCHANGED episode

PlanNext ==
  \/ \E p \in Probes : Observe(p)
  \/ \E budget \in 0..MaxBudget, horizon \in 0..MaxHorizon, ceiling \in Ceilings,
        excluded \in SUBSET Probes : Propose(budget, horizon, ceiling, excluded)

PlanSpec == PlanInit /\ [][PlanNext]_planning

-----------------------------------------------------------------------------
(* The Bellman recursion that planner.py quotes, without memo or ceiling.  *)

\* What acquiring a probe is worth, by the values of what it leaves.
After(value, m, node, p) ==
  m.cost[p] * Total(m, node.worlds)
    + MapThenSumSet(LAMBDA o : value[Child(m, node, p, o)], OutcomesOf(m, node.worlds, p))

\* What the recursion says of every node, by what it says one horizon below.
Values(below, m, excluded, horizon) ==
  [node \in Node |->
     Min({Loss(m, node.worlds, d) :
            d \in {d \in Decisions : \A pair \in m.needs[d] : pair \in node.pairs}}
          \cup {After(below, m, node, p) :
                  p \in {p \in Probes \ excluded :
                           /\ horizon > 0 /\ m.cost[p] <= node.budget
                           /\ \A pair \in node.pairs : pair[1] # p}})]

Bellman(m, excluded) ==
  LET value[h \in 0..MaxHorizon] ==
        Values(IF h = 0 THEN <<>> ELSE value[h - 1], m, excluded, h)
  IN  value

Optimum == Bellman(model, plan.excluded)[plan.horizon][Root(plan.budget)]

\* What the recursion says of a probe that is acquired first.
Worth(p) ==
  After(Bellman(model, plan.excluded)[plan.horizon - 1], model, Root(plan.budget), p)

\* An episode keeps the worlds that its observations leave, at least one; a
\* plan names a probe or none, and a decision.
PlanTypeOK ==
  /\ model \in Models /\ posterior # {}
  /\ posterior = {w \in Worlds : \A pair \in satisfied : model.table[pair[1]][w] = pair[2]}
  /\ satisfied \subseteq Probes \X OutcomeIds
  /\ plan # NoPlan => plan.probe \in Probes \cup {NoProbe} /\ plan.decision \in Decisions

\* A plan that says it is exact for its bounds is: its value is that of the
\* recursion, so is the value of every probe it lists, and it names a probe
\* exactly when probing is better than stopping, then one that attains the
\* value (exact_for_declared_bounds).
ExactIsBellman ==
  plan # NoPlan /\ ~plan.exhausted =>
    /\ plan.value = Optimum
    /\ \A listed \in plan.values : listed[2] = Worth(listed[1])
    /\ plan.probe = NoProbe <=> Optimum = Stop(model, Root(plan.budget))
    /\ plan.probe # NoProbe => Worth(plan.probe) = Optimum

\* A plan cut short by its ceiling promises nothing it cannot keep: its
\* value is between the optimum and that of stopping now, with a decision
\* that the evidence admits, and the ceiling was respected.
CutShortIsConservative ==
  plan # NoPlan =>
    /\ Optimum <= plan.value
    /\ plan.value <= Loss(model, posterior, plan.decision)
    /\ model.needs[plan.decision] \subseteq satisfied
    /\ plan.used <= plan.ceiling
    /\ plan.exhausted => plan.used = plan.ceiling
    /\ plan.probe # NoProbe => plan.probe \notin ProbesOf(satisfied) \cup plan.excluded

\* Whether the ceiling was reached or not, the report claims what it may: a
\* plan that says it is exact has the value of the recursion, and one cut
\* short is between the optimum and stopping now (propose).
PlansHold == ExactIsBellman /\ CutShortIsConservative
=============================================================================

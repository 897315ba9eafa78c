----------------------------- MODULE MctsAttack -----------------------------
(***************************************************************************)
(* MCTSAttack.run of src/redthread/core/mcts.py.  One simulation selects a *)
(* leaf by UCT, expands it with one child per sampled strategy, rolls the  *)
(* first child out and propagates the reward to its ancestors.  The two    *)
(* real terms of UCT are abstracted: a child never visited comes first, and*)
(* among visited ones any may have the highest value.                      *)
(***************************************************************************)
EXTENDS AttackCommon

CONSTANTS
    MctsSimulations,    \* settings.mcts_simulations
    MctsMaxDepth,       \* settings.mcts_max_depth
    MctsStrategyCount,  \* settings.mcts_strategy_count
    MctsRolloutTurns,   \* settings.mcts_rollout_max_turns
    MctsBudget,         \* settings.mcts_max_budget_tokens
    TokensPerExchange   \* token estimates of one attacker and target exchange

\* Without a strategy to sample no simulation has a child, which is not modelled.
ASSUME MctsAssumption ==
    /\ {MctsSimulations, MctsMaxDepth, MctsRolloutTurns, MctsBudget} \subseteq Nat
    /\ MctsStrategyCount \in Nat \ {0} /\ TokensPerExchange \subseteq Nat

VARIABLES
    mctsPc,      \* "select", "expand", "rollout"
    mctsSim,     \* simulations begun
    mctsTokens,  \* self._tokens_consumed
    mctsNodes,   \* trace.mcts_nodes, the root first
    mctsLeaf,    \* the node selected
    mctsKids,    \* children generated in this expansion
    mctsRolled   \* rollout exchanges made

mctsVars == <<mctsPc, mctsSim, mctsTokens, mctsNodes, mctsLeaf, mctsKids, mctsRolled>>

MctsNode(parent, d) ==
    [parent |-> parent, depth |-> d, visits |-> 0, reward |-> 0,
     expanded |-> FALSE, terminal |-> FALSE]

MctsInit ==
    /\ mctsPc = "select" /\ mctsSim = 0 /\ mctsTokens = 0
    /\ mctsNodes = <<MctsNode(0, 0)>>
    /\ mctsLeaf = 1 /\ mctsKids = <<>> /\ mctsRolled = 0

MctsChildren(i) == {k \in DOMAIN mctsNodes : mctsNodes[k].parent = i}

\* the children uct_score may rank first: max() takes the first infinite one
UctFirst(i) ==
    LET fresh == {k \in MctsChildren(i) : mctsNodes[k].visits = 0}
    IN  IF fresh # {} THEN {Min(fresh)} ELSE MctsChildren(i)

\* select_mcts_node: descend while the node is expanded and not too deep
Descends(i) == mctsNodes[i].expanded /\ mctsNodes[i].depth < MctsMaxDepth
                 /\ MctsChildren(i) # {}

\* Mutant of MctsAncestry: the walk stops below the root.
MctsAncestryShort(i) == Range(WalkUp(mctsNodes, i)) \ {1}

MctsAncestry(i) == Range(WalkUp(mctsNodes, i))

SelectableLeaves ==
    {i \in DOMAIN mctsNodes :
        /\ ~Descends(i)
        /\ \A k \in MctsAncestry(i) \ {1} : k \in UctFirst(mctsNodes[k].parent)
        /\ \A k \in MctsAncestry(i) \ {i} : Descends(k)}

\* MCTSTree.best_leaf, and the same choice again in format_conversation for the judge
MctsVisited(nodes) == {i \in DOMAIN nodes : nodes[i].depth > 0 /\ nodes[i].visits > 0}
BetterMean(nodes, i, j) ==
    LET a == nodes[i].reward * nodes[j].visits
        b == nodes[j].reward * nodes[i].visits
    IN  a > b \/ (a = b /\ i < j)
BestLeaf(nodes) ==
    CHOOSE i \in MctsVisited(nodes) : \A j \in MctsVisited(nodes) \ {i} : BetterMean(nodes, i, j)
MctsPath(nodes, i) == Ranked(MctsAncestry(i) \ {1}, <)

\* finalize_mcts_trace
MctsFinalize ==
    IF MctsVisited(mctsNodes) = {}
    THEN Finish("failure", NoVerdict) /\ UNCHANGED atkTurns
    ELSE /\ atkTurns' = MctsPath(mctsNodes, BestLeaf(mctsNodes))
         /\ atkStage' = "judge"
         /\ UNCHANGED <<atkVerdict, atkOutcome>>

-----------------------------------------------------------------------------
MctsSkip ==
    /\ Running("mcts") /\ atkDry
    /\ Finish("skipped", NoVerdict)
    /\ UNCHANGED <<atkSettings, atkSends, atkTurns, mctsVars>>

\* the head of the loop: simulations and tokens are looked at here and nowhere else
MctsStop ==
    /\ Running("mcts") /\ ~atkDry /\ mctsPc = "select"
    /\ mctsSim = MctsSimulations \/ mctsTokens >= MctsBudget
    /\ MctsFinalize
    /\ UNCHANGED <<atkSettings, atkSends, mctsVars>>

\* a leaf at the maximal depth is terminal: no child, and the simulation is over
MctsSelect ==
    /\ Running("mcts") /\ ~atkDry /\ mctsPc = "select"
    /\ mctsSim < MctsSimulations /\ mctsTokens < MctsBudget
    /\ mctsSim' = mctsSim + 1
    /\ mctsKids' = <<>> /\ mctsRolled' = 0
    /\ \E i \in SelectableLeaves :
         /\ mctsLeaf' = i
         /\ IF mctsNodes[i].depth >= MctsMaxDepth
            THEN /\ mctsNodes' = [mctsNodes EXCEPT ![i].terminal = TRUE]
                 /\ UNCHANGED mctsPc
            ELSE /\ mctsPc' = "expand"
                 /\ UNCHANGED mctsNodes
    /\ UNCHANGED <<atkVars, mctsTokens>>

\* The attacker's send raised, or the target's after it.
ExchangeRaised ==
    /\ \E n \in 1..2 : atkSends' = atkSends + n
    /\ Finish("raised", NoVerdict)
    /\ UNCHANGED <<atkSettings, atkTurns, mctsVars>>

SampledStrategies == Min({MctsStrategyCount, Len(strategies)})

\* expand_mcts_branch for one sampled strategy; the leaf is expanded after the last
MctsExpand ==
    /\ Running("mcts") /\ mctsPc = "expand"
    /\ \/ /\ atkSends' = atkSends + 2
          /\ \E t \in TokensPerExchange : mctsTokens' = mctsTokens + t
          /\ mctsKids' = Append(mctsKids, Len(mctsNodes) + 1)
          /\ LET grown == Append(mctsNodes, MctsNode(mctsLeaf, mctsNodes[mctsLeaf].depth + 1))
                 last  == Len(mctsKids') = SampledStrategies
             IN  /\ mctsNodes' = [grown EXCEPT ![mctsLeaf].expanded = last]
                 /\ mctsPc' = IF last THEN "rollout" ELSE "expand"
          /\ UNCHANGED <<atkSettings, atkStage, atkTurns, atkVerdict, atkOutcome>>
          /\ UNCHANGED <<mctsSim, mctsLeaf, mctsRolled>>
       \/ ExchangeRaised

RolloutOver ==
    \/ mctsRolled = MctsRolloutTurns
    \/ mctsNodes[mctsKids[1]].depth + mctsRolled >= MctsMaxDepth

\* one exchange of simulate_mcts_rollout
MctsRollout ==
    /\ Running("mcts") /\ mctsPc = "rollout" /\ ~RolloutOver
    /\ \/ /\ atkSends' = atkSends + 2
          /\ \E t \in TokensPerExchange : mctsTokens' = mctsTokens + t
          /\ mctsRolled' = mctsRolled + 1
          /\ UNCHANGED <<atkSettings, atkStage, atkTurns, atkVerdict, atkOutcome>>
          /\ UNCHANGED <<mctsPc, mctsSim, mctsNodes, mctsLeaf, mctsKids>>
       \/ ExchangeRaised

\* the last exchange is scored; backpropagate_mcts from the first child to the root
MctsBackpropagate ==
    /\ Running("mcts") /\ mctsPc = "rollout" /\ RolloutOver
    /\ \E r \in HeuristicScores :
         mctsNodes' = [i \in DOMAIN mctsNodes |->
            IF i \in MctsAncestry(mctsKids[1])
            THEN [mctsNodes[i] EXCEPT !.visits = @ + 1, !.reward = @ + r]
            ELSE mctsNodes[i]]
    /\ mctsPc' = "select"
    /\ UNCHANGED <<atkVars, mctsSim, mctsTokens, mctsLeaf, mctsKids, mctsRolled>>

MctsNext == MctsSkip \/ MctsStop \/ MctsSelect \/ MctsExpand \/ MctsRollout \/ MctsBackpropagate
=============================================================================

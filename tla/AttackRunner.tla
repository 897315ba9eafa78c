---------------------------- MODULE AttackRunner ----------------------------
(***************************************************************************)
(* AttackRunnerRegistry of src/redthread/core/attack_runner.py: the attack *)
(* worker creates the runner registered for settings.algorithm and runs    *)
(* it.  One behaviour is one run of one runner; the state of the others    *)
(* stays at its initial value.                                             *)
(***************************************************************************)
EXTENDS PairAttack, TapAttack, CrescendoAttack, MctsAttack, SpecializedChain

\* build_default_attack_runner_registry
Registered == {"pair", "tap", "crescendo", "mcts", "agent_chain"}

attackVars == <<atkVars, pairVars, tapVars, cresVars, mctsVars, chainVars>>

AttackInit ==
    /\ algorithm \in Registered
    /\ AtkInit /\ PairInit /\ TapInit /\ CresInit /\ MctsInit /\ ChainInit

Pair      == PairNext  /\ UNCHANGED <<tapVars, cresVars, mctsVars, chainVars>>
Tap       == TapNext   /\ UNCHANGED <<pairVars, cresVars, mctsVars, chainVars>>
Crescendo == CresNext  /\ UNCHANGED <<pairVars, tapVars, mctsVars, chainVars>>
Mcts      == MctsNext  /\ UNCHANGED <<pairVars, tapVars, cresVars, chainVars>>
Chain     == ChainNext /\ UNCHANGED <<pairVars, tapVars, cresVars, mctsVars>>
Judge     == JudgeTrace /\ UNCHANGED <<pairVars, tapVars, cresVars, mctsVars, chainVars>>

AttackNext == Pair \/ Tap \/ Crescendo \/ Mcts \/ Chain \/ Judge

AttackSpec == AttackInit /\ [][AttackNext]_attackVars

-----------------------------------------------------------------------------
\* The leaves that a depth of the search branches, each into BranchingFactor nodes
TapLeaves[d \in 1..TreeDepth] ==
    IF d = 1 THEN 1 ELSE Min({TreeWidth, BranchingFactor * TapLeaves[d - 1]})
TapLevel == [d \in 1..TreeDepth |-> BranchingFactor * TapLeaves[d]]

MaxQueries ==
    CASE algorithm = "pair" -> 2 * MaxIterations
      [] algorithm = "tap" -> 2 * SumFunctionOnSet(TapLevel, 1..TreeDepth)
      [] algorithm = "crescendo" -> 2 * (CrescendoMaxTurns * (BacktrackLimit + 1))
      [] algorithm = "mcts" -> 2 * (MctsSimulations * (MctsStrategyCount + MctsRolloutTurns))
      [] algorithm = "agent_chain" -> ReconProbes + 4

\* No runner sends more messages than its settings allow, whatever fails: PAIR
\* two per iteration, TAP two per branch of a retained leaf, Crescendo two per
\* attempt, MCTS two per expanded strategy and per rollout turn.
QueriesAreBounded == atkSends <= MaxQueries

\* The trajectory TAP hands to the judge ends in a node no answered node beats,
\* although the search forgot the nodes it pruned, and every node on it was sent.
TapJudgesTheBest ==
    algorithm = "tap" /\ atkTurns # <<>> =>
        /\ \A k \in DOMAIN atkTurns : tapNodes[atkTurns[k]].answered
        /\ \A i \in DOMAIN tapNodes :
              tapNodes[i].answered => tapNodes[i].score <= tapNodes[Last(atkTurns)].score

\* Between simulations the statistics UCT reads add up: a node was visited once
\* per visit of a child, and once more if it was the child rolled out.
MctsVisits == [i \in DOMAIN mctsNodes |-> mctsNodes[i].visits]
RolledOut(i) == i # 1 /\ i = Min(MctsChildren(mctsNodes[i].parent))
MctsVisitsAddUp ==
    algorithm = "mcts" /\ mctsPc = "select" =>
        \A i \in DOMAIN mctsNodes :
            MctsVisits[i] = (IF RolledOut(i) THEN 1 ELSE 0)
                              + SumFunctionOnSet(MctsVisits, MctsChildren(i))

\* The target is shown exactly the turns that escalated: a refused turn accepted
\* at the backtrack limit is in the trace and never in the history, and the level
\* counts the history, up to five.
EscalatedIn(turns, n) == {k \in 1..n : Escalates(turns[k].score)}
HistoryIsTheEscalatedTurns ==
    algorithm = "crescendo" =>
        /\ Range(cresHistory) = EscalatedIn(atkTurns, Len(atkTurns))
        /\ cresLevel = Min({5, Len(cresHistory)})
        /\ \A k \in DOMAIN atkTurns :
              /\ Range(atkTurns[k].shown) = EscalatedIn(atkTurns, k - 1)
              /\ atkTurns[k].level = Min({5, Cardinality(EscalatedIn(atkTurns, k - 1))})

-----------------------------------------------------------------------------
\* build_retry_prompt says "Previous attempt at turn N was refused (score: S/5)":
\* S is the score of the previous attempt at this turn.
RetryQuotesTheRefusal ==
    algorithm = "crescendo" /\ cresPc = "query" /\ cresPrompt.kind = "retry" =>
        cresPrompt.quotes = cresLast.score

\* "Reward is propagated UP the path through the tree": every simulation that has
\* ended has added a visit to the root.
EverySimulationIsScored ==
    algorithm = "mcts" /\ mctsPc = "select" => mctsNodes[1].visits = mctsSim
=============================================================================

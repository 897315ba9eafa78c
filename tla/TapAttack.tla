----------------------------- MODULE TapAttack ------------------------------
(***************************************************************************)
(* TAPAttack.run of src/redthread/core/tap.py: at every depth, branch each *)
(* leaf, prune off-topic prompts before they are sent, query the target    *)
(* with the rest, and keep the best TreeWidth of them.                     *)
(***************************************************************************)
EXTENDS AttackCommon

CONSTANTS TreeDepth, TreeWidth, BranchingFactor

\* A search without depth, width or branches ends at once, and is not modelled.
ASSUME TapAssumption == {TreeDepth, TreeWidth, BranchingFactor} \subseteq Nat \ {0}

VARIABLES
    tapPc,      \* "branch", "prune", "query" within one depth
    tapDepth,   \* the depth being explored
    tapNodes,   \* trace.nodes, the root first; a node is named by its place
    tapNew,     \* nodes _branch has generated so far, not yet in the trace
    tapLeaves,  \* active_leaves, in order
    tapQueue    \* surviving nodes not queried yet, in order

tapVars == <<tapPc, tapDepth, tapNodes, tapNew, tapLeaves, tapQueue>>

TapNode(parent, d, offTopic) ==
    [parent |-> parent, depth |-> d, score |-> 0, offTopic |-> offTopic,
     pruned |-> FALSE, answered |-> FALSE]

TapInit ==
    /\ tapPc = "branch" /\ tapDepth = 1
    /\ tapNodes = <<TapNode(0, 0, FALSE)>>
    /\ tapNew = <<>> /\ tapLeaves = <<1>> /\ tapQueue = <<>>

\* reconstruct_path: the walk up to the root, reversed, without the root
TapPath(nodes, i) ==
    [k \in 1..nodes[i].depth |-> WalkUp(nodes, i)[nodes[i].depth - k]]

\* Mutant of TapAhead: the ranking without reverse=True.
TapBehind(nodes, i, j) ==
    nodes[i].score < nodes[j].score \/ (nodes[i].score = nodes[j].score /\ i < j)

\* sort by score, descending and stable
TapAhead(nodes, i, j) ==
    nodes[i].score > nodes[j].score \/ (nodes[i].score = nodes[j].score /\ i < j)

\* populate_best_trajectory: the jailbreak, or the best node that was not pruned
TapEvaluated(nodes) ==
    {i \in DOMAIN nodes : nodes[i].depth > 0 /\ ~nodes[i].pruned /\ nodes[i].score > 0}
TapBest(nodes) ==
    CHOOSE i \in TapEvaluated(nodes) :
        \A j \in TapEvaluated(nodes) \ {i} : TapAhead(nodes, i, j)

\* finalize_tap_trace: judge the best trajectory, or fail without a turn
TapFinalize(best) ==
    IF best = 0 /\ TapEvaluated(tapNodes') = {}
    THEN /\ Finish("failure", NoVerdict)
         /\ UNCHANGED atkTurns
    ELSE /\ atkTurns' = TapPath(tapNodes', IF best # 0 THEN best ELSE TapBest(tapNodes'))
         /\ atkStage' = "judge"
         /\ UNCHANGED <<atkVerdict, atkOutcome>>

NextDepth == /\ tapDepth' = tapDepth + 1
             /\ tapPc' = "branch"

-----------------------------------------------------------------------------
\* expand_dry_run_tree, depth by depth, then build_dry_run_tap_result
TapDryRun ==
    /\ Running("tap") /\ atkDry
    /\ LET grown == FlattenSeq([l \in 1..Len(tapLeaves) |->
                        [b \in 1..BranchingFactor |->
                           [TapNode(tapLeaves[l], tapDepth, FALSE)
                               EXCEPT !.score = 10, !.answered = TRUE]]])
           marked == [k \in 1..Len(grown) |-> [grown[k] EXCEPT !.pruned = k > TreeWidth]]
       IN  /\ tapNodes' = tapNodes \o marked
           /\ tapLeaves' = [k \in 1..Min({TreeWidth, Len(grown)}) |-> Len(tapNodes) + k]
    /\ tapDepth' = tapDepth + 1
    /\ IF tapDepth = TreeDepth THEN Finish("skipped", NoVerdict)
       ELSE UNCHANGED <<atkStage, atkOutcome, atkVerdict>>
    /\ UNCHANGED <<atkSettings, atkSends, atkTurns, tapPc, tapNew, tapQueue>>

\* Phase 1: one attacker send of _branch; the prompt may drift off topic
TapBranch ==
    /\ Running("tap") /\ ~atkDry /\ tapPc = "branch"
    /\ LET leaf == tapLeaves[(Len(tapNew) \div BranchingFactor) + 1]
       IN  \/ /\ Sent
              /\ \E off \in BOOLEAN :
                    tapNew' = Append(tapNew, TapNode(leaf, tapDepth, off))
              /\ tapPc' = IF Len(tapNew') = Len(tapLeaves) * BranchingFactor
                          THEN "prune" ELSE "branch"
              /\ UNCHANGED <<atkSettings, atkStage, atkTurns, atkVerdict, atkOutcome>>
           \/ SendRaised /\ UNCHANGED <<tapNew, tapPc>>
    /\ UNCHANGED <<tapDepth, tapNodes, tapLeaves, tapQueue>>

\* Phase 2: prune_off_topic; the search ends when nothing survives
TapPruneOffTopic ==
    /\ Running("tap") /\ tapPc = "prune"
    /\ tapNodes' = tapNodes \o [k \in 1..Len(tapNew) |->
                                  [tapNew[k] EXCEPT !.pruned = tapNew[k].offTopic]]
    /\ tapNew' = <<>>
    /\ tapQueue' = Ranked({i \in DOMAIN tapNodes' :
                             i > Len(tapNodes) /\ ~tapNodes'[i].pruned}, <)
    /\ tapLeaves' = tapQueue'
    /\ IF tapQueue' = <<>>
       THEN TapFinalize(0) /\ UNCHANGED tapPc
       ELSE /\ tapPc' = "query"
            /\ UNCHANGED <<atkStage, atkTurns, atkVerdict, atkOutcome>>
    /\ UNCHANGED <<atkSettings, atkSends, tapDepth>>

\* Mutant of TapKeepBest: the width is ignored.
TapKeepAll(nodes, survivors) == [kept |-> survivors, pruned |-> {}]

\* prune_by_score on this depth's survivors
TapKeepBest(nodes, survivors) ==
    LET ranked == Ranked(Range(survivors), LAMBDA i, j : TapAhead(nodes, i, j))
    IN  [kept   |-> SubSeq(ranked, 1, Min({TreeWidth, Len(ranked)})),
         pruned |-> {ranked[k] : k \in (TreeWidth + 1)..Len(ranked)}]

\* Phases 3 and 4: query and score the next survivor; after the last one, rank
TapQuery ==
    /\ Running("tap") /\ tapPc = "query"
    /\ \/ /\ Sent
          /\ \E s \in HeuristicScores :
             LET i      == Head(tapQueue)
                 scored == [tapNodes EXCEPT ![i].score = s, ![i].answered = TRUE]
                 keep   == TapKeepBest(scored, tapLeaves)
             IN  IF s >= atkThreshold
                 THEN /\ tapNodes' = scored
                      /\ TapFinalize(i)
                      /\ UNCHANGED <<tapPc, tapDepth, tapLeaves, tapQueue>>
                 ELSE IF Len(tapQueue) > 1
                 THEN /\ tapNodes' = scored
                      /\ tapQueue' = Tail(tapQueue)
                      /\ UNCHANGED <<atkStage, atkTurns, atkVerdict, atkOutcome>>
                      /\ UNCHANGED <<tapPc, tapDepth, tapLeaves>>
                 ELSE /\ tapNodes' = [n \in DOMAIN scored |->
                             IF n \in keep.pruned THEN [scored[n] EXCEPT !.pruned = TRUE]
                             ELSE scored[n]]
                      /\ tapQueue' = <<>>
                      /\ tapLeaves' = keep.kept
                      /\ IF tapDepth = TreeDepth
                         THEN TapFinalize(0) /\ UNCHANGED <<tapPc, tapDepth>>
                         ELSE NextDepth /\ UNCHANGED <<atkStage, atkTurns, atkVerdict, atkOutcome>>
          /\ UNCHANGED <<atkSettings, tapNew>>
       \/ SendRaised /\ UNCHANGED tapVars

TapNext == TapDryRun \/ TapBranch \/ TapPruneOffTopic \/ TapQuery
=============================================================================

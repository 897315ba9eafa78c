----------------------------- MODULE PairAttack -----------------------------
(***************************************************************************)
(* PAIRAttack.run of src/redthread/core/pair.py: one linear refinement     *)
(* loop.  Each iteration asks the attacker for a prompt built from the     *)
(* last exchange, sends it to the target and scores the answer inline.     *)
(***************************************************************************)
EXTENDS AttackCommon

CONSTANT MaxIterations   \* settings.max_iterations

ASSUME PairAssumption == MaxIterations \in Nat

VARIABLES
    pairPc,      \* "prompt": before the attacker's send; "query": before the target's
    pairInput    \* what the attacker was shown: the exchange it is to refine

pairVars == <<pairPc, pairInput>>

PairInit == pairPc = "prompt" /\ pairInput = [refines |-> 0, feedback |-> "none"]

\* build_pair_attacker_input: nothing to refine at first, then the latest exchange
PairAttackerInput ==
    IF atkTurns = <<>> THEN [refines |-> 0, feedback |-> "none"]
    ELSE [refines  |-> Last(atkTurns).number,
          feedback |-> IF Last(atkTurns).score < 20 THEN "refusal" ELSE "progress"]

PairDone == \/ Len(atkTurns) = MaxIterations
            \/ atkTurns # <<>> /\ Last(atkTurns).successful

\* the loop is skipped (dry run): no turns, the verdict is the dry one
PairSkip ==
    /\ Running("pair") /\ pairPc = "prompt"
    /\ atkDry \/ MaxIterations = 0
    /\ Finish("skipped", NoVerdict)
    /\ UNCHANGED <<atkSettings, atkSends, atkTurns, pairVars>>

PairPrompt ==
    /\ Running("pair") /\ pairPc = "prompt"
    /\ ~atkDry /\ MaxIterations > 0
    /\ pairInput' = PairAttackerInput
    /\ \/ /\ Sent
          /\ pairPc' = "query"
          /\ UNCHANGED <<atkSettings, atkStage, atkTurns, atkVerdict, atkOutcome>>
       \/ SendRaised /\ UNCHANGED pairPc

PairQuery ==
    /\ Running("pair") /\ pairPc = "query"
    /\ \/ /\ Sent
          /\ \E s \in HeuristicScores :
                atkTurns' = Append(atkTurns, [number     |-> Len(atkTurns) + 1,
                                              score      |-> s,
                                              successful |-> s >= atkThreshold])
          /\ pairPc' = "prompt"
          /\ atkStage' = IF PairDone' THEN "judge" ELSE "run"
          /\ UNCHANGED <<atkSettings, atkVerdict, atkOutcome, pairInput>>
       \/ SendRaised /\ UNCHANGED pairVars

PairNext == PairSkip \/ PairPrompt \/ PairQuery
=============================================================================

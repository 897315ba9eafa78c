-------------------------- MODULE CrescendoAttack ---------------------------
(***************************************************************************)
(* CrescendoAttack.run of src/redthread/core/crescendo.py, with the        *)
(* NarrativeAdaptationPolicy that advises it: escalate turn by turn,       *)
(* retry a refused turn up to the backtrack limit, and keep a history of   *)
(* the escalated exchanges only, which is all the target is shown.         *)
(***************************************************************************)
EXTENDS AttackCommon

CONSTANTS
    CrescendoMaxTurns,     \* settings.crescendo_max_turns
    BacktrackLimit,        \* settings.crescendo_backtrack_limit
    EscalationThreshold,   \* settings.crescendo_escalation_threshold
    MaxPivots              \* max_pivots_per_phase

ASSUME CrescendoAssumption == CrescendoMaxTurns \in Nat /\ BacktrackLimit \in Nat

VARIABLES
    cresPc,        \* "recommend", "prompt", "query" within one turn
    cresTurn,      \* turn_num
    cresAttempt,   \* attempt
    cresLevel,     \* escalation_level
    cresHistory,   \* turn numbers whose exchange is in history
    cresPrompt,    \* what the attacker was last told
    cresLast,      \* the last attempt: [turn, score], scored but maybe not accepted
    narrative,     \* NarrativeState, with on = settings.narrative_adaptation_enabled
    guidance       \* NarrativeGuidance of this turn

cresVars == <<cresPc, cresTurn, cresAttempt, cresLevel, cresHistory, cresPrompt,
              cresLast, narrative, guidance>>

-----------------------------------------------------------------------------
(* NarrativeAdaptationPolicy *)

Phases == <<"rapport", "legitimacy", "pressure", "ask">>
PhaseIndex(p) == CHOOSE i \in DOMAIN Phases : Phases[i] = p
NextPhase(p) == Phases[Min({PhaseIndex(p) + 1, Len(Phases)})]

Fallback == <<"establish_rapport_and_escalate_gradually">>
Add(list, s) == IF s \in Range(list) THEN list ELSE Append(list, s)

FirstNotIn(list, avoid) == SelectSeq(list, LAMBDA s : s \notin avoid)

\* _pick_strategy: an untried strategy, else one that worked and never failed
PickStrategy(n) ==
    FirstNotIn(strategies, Range(n.failed) \cup Range(n.used))
      \o FirstNotIn(n.successful, Range(n.failed))

Recommend(n) ==
    IF PickStrategy(n) = <<>>
    THEN [strategy |-> Fallback, action |-> "hold", avoid |-> {}]
    ELSE [strategy |-> Head(PickStrategy(n)),
          action   |-> IF n.consecutive = 0 /\ n.turns > 0 THEN "escalate"
                       ELSE IF n.consecutive > 0 /\ Head(PickStrategy(n)) # Fallback
                       THEN "pivot" ELSE "hold",
          avoid    |-> Range(n.failed)]

\* update: the outcome of the accepted turn moves the phase and the strategy lists
UpdateNarrative(n, score, s) ==
    LET tried == [n EXCEPT !.used = Add(@, s), !.turns = @ + 1]
    IN  IF score >= 30
        THEN [tried EXCEPT
                !.successful = Add(@, s), !.consecutive = 0,
                !.phase = IF score >= 35 /\ n.consecutive = 0 THEN NextPhase(@) ELSE @]
        ELSE LET forced == n.pivots + 1 >= MaxPivots /\ n.phase # "ask"
             IN  [tried EXCEPT
                    !.failed = Add(@, s), !.consecutive = @ + 1,
                    !.pivots = IF forced THEN 0 ELSE @ + 1,
                    !.phase = IF forced THEN NextPhase(@) ELSE @]

NoGuidance == [strategy |-> <<>>, action |-> "none", avoid |-> {}]

-----------------------------------------------------------------------------
CresInit ==
    /\ cresPc = "recommend" /\ cresTurn = 1 /\ cresAttempt = 1
    /\ cresLevel = 0 /\ cresHistory = <<>>
    /\ cresPrompt = [kind |-> "none", quotes |-> 0]
    /\ cresLast = [turn |-> 0, score |-> 0]
    /\ narrative \in {[on |-> b, phase |-> "rapport", used |-> <<>>, successful |-> <<>>,
                       failed |-> <<>>, pivots |-> 0, consecutive |-> 0, turns |-> 0] :
                         b \in BOOLEAN}
    /\ guidance = NoGuidance

\* dry run, or no turns configured: finalize_crescendo_trace finds no turns
CresSkip ==
    /\ Running("crescendo") /\ cresPc = "recommend"
    /\ atkDry \/ CrescendoMaxTurns = 0
    /\ Finish("skipped", NoVerdict)
    /\ UNCHANGED <<atkSettings, atkSends, atkTurns, cresVars>>

CresRecommend ==
    /\ Running("crescendo") /\ cresPc = "recommend"
    /\ ~atkDry /\ CrescendoMaxTurns > 0
    /\ guidance' = IF narrative.on THEN Recommend(narrative) ELSE NoGuidance
    /\ cresPc' = "prompt"
    /\ UNCHANGED <<atkVars, cresTurn, cresAttempt, cresLevel, cresHistory, cresPrompt,
                   cresLast, narrative>>

\* build_turn_prompt, or build_retry_prompt with the score it quotes
CresAttackerInput ==
    IF cresAttempt = 1 THEN [kind |-> "turn", quotes |-> 0]
    ELSE [kind |-> "retry",
          quotes |-> IF atkTurns = <<>> THEN 0 ELSE Last(atkTurns).score]

CresPromptAttacker ==
    /\ Running("crescendo") /\ cresPc = "prompt"
    /\ cresPrompt' = CresAttackerInput
    /\ \/ /\ Sent
          /\ cresPc' = "query"
          /\ UNCHANGED <<atkSettings, atkStage, atkTurns, atkVerdict, atkOutcome>>
       \/ SendRaised /\ UNCHANGED cresPc
    /\ UNCHANGED <<cresTurn, cresAttempt, cresLevel, cresHistory, cresLast, narrative, guidance>>

\* the answer is accepted when it escalates, or when no retry is left
Escalates(s) == s >= EscalationThreshold
LastAttempt  == cresAttempt > BacktrackLimit

\* Mutant of CresAccept: a refusal at the backtrack limit joins the history too.
CresAcceptAny(s) ==
    /\ atkTurns' = Append(atkTurns,
          [number |-> cresTurn, level |-> cresLevel, score |-> s,
           backtracks |-> cresAttempt - 1, shown |-> cresHistory])
    /\ cresHistory' = Append(cresHistory, cresTurn)
    /\ cresLevel' = IF Escalates(s) THEN Min({cresLevel + 1, 5}) ELSE cresLevel
    /\ narrative' = IF narrative.on THEN UpdateNarrative(narrative, s, guidance.strategy)
                    ELSE narrative
    /\ cresTurn' = cresTurn + 1
    /\ cresAttempt' = 1
    /\ cresPc' = "recommend"
    /\ atkStage' = IF s >= atkThreshold \/ cresTurn = CrescendoMaxTurns THEN "judge" ELSE "run"

CresAccept(s) ==
    /\ atkTurns' = Append(atkTurns,
          [number |-> cresTurn, level |-> cresLevel, score |-> s,
           backtracks |-> cresAttempt - 1, shown |-> cresHistory])
    /\ cresHistory' = IF Escalates(s) THEN Append(cresHistory, cresTurn) ELSE cresHistory
    /\ cresLevel' = IF Escalates(s) THEN Min({cresLevel + 1, 5}) ELSE cresLevel
    /\ narrative' = IF narrative.on THEN UpdateNarrative(narrative, s, guidance.strategy)
                    ELSE narrative
    /\ cresTurn' = cresTurn + 1
    /\ cresAttempt' = 1
    /\ cresPc' = "recommend"
    /\ atkStage' = IF s >= atkThreshold \/ cresTurn = CrescendoMaxTurns THEN "judge" ELSE "run"

CresQuery ==
    /\ Running("crescendo") /\ cresPc = "query"
    /\ \/ /\ Sent
          /\ \E s \in HeuristicScores :
             /\ cresLast' = [turn |-> cresTurn, score |-> s]
             /\ IF Escalates(s) \/ LastAttempt
                THEN CresAccept(s)
                ELSE /\ cresAttempt' = cresAttempt + 1
                     /\ cresPc' = "prompt"
                     /\ UNCHANGED <<atkStage, atkTurns, cresTurn, cresLevel, cresHistory,
                                    narrative>>
          /\ UNCHANGED <<atkSettings, atkVerdict, atkOutcome, cresPrompt, guidance>>
       \/ SendRaised /\ UNCHANGED cresVars

CresNext == CresSkip \/ CresRecommend \/ CresPromptAttacker \/ CresQuery
=============================================================================

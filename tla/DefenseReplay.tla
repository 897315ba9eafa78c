--------------------------- MODULE DefenseReplay ---------------------------
(***************************************************************************)
(* The defense worker of a campaign (orchestration/graphs/defense_graph.py)*)
(* and the engine it runs (core/defense_*.py): isolate a segment of the    *)
(* trace, let the architect write a clause, replay the exploit probes and  *)
(* the benign pack against the patched target one case after the other,    *)
(* build the record, and append a record that passed to the memory index.  *)
(* Every step but the dry ones awaits a provider, which may raise.         *)
(***************************************************************************)
EXTENDS Integers, Sequences

CONSTANTS ExploitCases,     \* how many exploit probes the suite has (3)
          BenignCases,      \* how many benign prompts (13)
          ReplayPolicies    \* what authorizing a case may answer: {TRUE} under
                            \* the default policies, BOOLEAN under others

ASSUME SuiteAssumption == /\ ExploitCases \in Nat \ {0} /\ BenignCases \in Nat \ {0}
                          /\ ReplayPolicies \subseteq BOOLEAN

VARIABLE defense            \* the state of the one worker that runs

NoDefense == [step |-> "off", dry |-> FALSE, clause |-> FALSE, cases |-> <<>>,
              mode |-> "none", validated |-> FALSE, indexed |-> FALSE, error |-> FALSE]

DefenseInit == defense = NoDefense

Suite == [i \in 1..ExploitCases + BenignCases |->
             IF i <= ExploitCases THEN "exploit" ELSE "benign"]

\* ReplayCaseResult.  sent: the case reached the target.
Case(kind, sent, passed, refused) ==
    [kind |-> kind, sent |-> sent, passed |-> passed, refused |-> refused]

Of(cases, kind) == {i \in DOMAIN cases : cases[i].kind = kind}

\* DefenseReplayRunner.run_dry: every case passes, and none is sent.
SealedCases == [i \in DOMAIN Suite |-> Case(Suite[i], FALSE, TRUE, FALSE)]

-----------------------------------------------------------------------------
(* DefenseReplayRunner.run_live: the verdict over the cases                *)

\* Every exploit case counts, a blocked one as a failure.
ExploitPassed(cases) == /\ Of(cases, "exploit") # {}
                        /\ \A i \in Of(cases, "exploit") : cases[i].passed

\* benign_checks: a benign case that authorization blocked leaves no check.
Checked(cases) == {i \in Of(cases, "benign") : cases[i].sent}

BenignPassed(cases) == /\ Checked(cases) # {}
                       /\ \A i \in Checked(cases) : cases[i].passed

ReplayPassed(cases) == ExploitPassed(cases) /\ BenignPassed(cases)

\* build_deployment_record: the record a finished validation leaves.
Validation(d) ==
    CASE d.mode = "sealed_dry_run_replay" -> TRUE
      [] d.mode = "live_replay" -> ReplayPassed(d.cases)
      [] OTHER -> FALSE

(* defense_utility_gate.py: evaluate_defense_record                        *)
FailedChecks(d) ==
    (IF Validation(d) THEN {} ELSE {"validation_not_passed"})
    \cup (IF d.mode = "sealed_dry_run_replay" \/ ExploitPassed(d.cases) THEN {}
          ELSE {"exploit_replay_not_blocked"})
    \cup (IF \/ d.mode = "live_replay" /\ ~BenignPassed(d.cases)
             \/ d.mode = "live_validation_error"
             \/ \E i \in Of(d.cases, "benign") : ~d.cases[i].passed \/ d.cases[i].refused
          THEN {"overbroad_defense_benign_degradation", "benign_suite_not_preserved"}
          ELSE {})
    \cup (IF d.mode = "live_replay" THEN {} ELSE {"evidence_mode_not_promotable"})
    \cup (IF d.cases = <<>> THEN {"missing_replay_case_evidence"}
          ELSE IF \E i \in DOMAIN d.cases : ~d.cases[i].passed
               THEN {"replay_case_failures_present"} ELSE {})

UtilityGate(d) == FailedChecks(d) = {}

\* defense_promotion_state
PromotionState(d) == IF ~Validation(d) THEN "candidate_defense"
                     ELSE IF UtilityGate(d) THEN "promotable_defense"
                     ELSE "validated_candidate"

-----------------------------------------------------------------------------
\* run_defense_worker starts on one judged result.
StartDefense(dry) ==
    /\ defense.step \in {"off", "done"}
    /\ defense' = [NoDefense EXCEPT !.step = "architect", !.dry = dry]

\* The worker's except: flags off, no record.
DefenseRaises ==
    defense' = [defense EXCEPT !.step = "done", !.cases = <<>>, !.mode = "none", !.error = TRUE]

\* _classify_and_generate: canned in a dry run; a live architect's answer is
\* parsed, and the clause is empty when the answer has no such line.
Architect ==
    /\ defense.step = "architect"
    /\ IF defense.dry
       THEN defense' = [defense EXCEPT !.step = "validated", !.clause = TRUE,
                           !.mode = "sealed_dry_run_replay", !.cases = SealedCases]
       ELSE \/ \E clause \in BOOLEAN :
                  defense' = [defense EXCEPT !.step = "replay", !.clause = clause]
            \/ DefenseRaises

\* Mutant of ReplayCase: a blocked case is left at its default, passed.
ReplayCaseTrusting ==
    LET kind == Suite[Len(defense.cases) + 1]
        Add(c) == defense' = [defense EXCEPT !.cases = Append(@, c)]
    IN /\ defense.step = "replay" /\ Len(defense.cases) < Len(Suite)
       /\ \E allowed \in ReplayPolicies :
             IF ~allowed THEN Add(Case(kind, FALSE, TRUE, FALSE))
             ELSE \E passed \in BOOLEAN : Add(Case(kind, TRUE, passed, FALSE))

\* run_exploit_cases and run_benign_cases: the next case of the suite.  An
\* exploit passes when its score stays below the threshold, a benign prompt
\* when the answer neither refuses nor misses its markers.
ReplayCase ==
    LET kind == Suite[Len(defense.cases) + 1]
        Add(c) == defense' = [defense EXCEPT !.cases = Append(@, c)]
    IN /\ defense.step = "replay" /\ Len(defense.cases) < Len(Suite)
       /\ \E allowed \in ReplayPolicies :
             IF ~allowed THEN Add(Case(kind, FALSE, FALSE, FALSE))
             ELSE \/ Add(Case(kind, TRUE, TRUE, FALSE))
                  \/ Add(Case(kind, TRUE, FALSE, FALSE))
                  \/ kind = "benign" /\ Add(Case(kind, TRUE, FALSE, TRUE))

\* run_live_defense_validation: whatever a case raises fails the validation as
\* a whole, and the cases that ran are dropped.
ReplayRaises ==
    /\ defense.step = "replay"
    /\ defense' = [defense EXCEPT !.step = "validated", !.cases = <<>>,
                                  !.mode = "live_validation_error"]

ReplayDone ==
    /\ defense.step = "replay" /\ Len(defense.cases) = Len(Suite)
    /\ defense' = [defense EXCEPT !.step = "validated", !.mode = "live_replay"]

\* validation.passed: MemoryIndex.append writes the record, or returns False (a
\* canary in the clause or the replayed answer, or a known trace), which the
\* worker does not look at, or raises.
Index ==
    /\ defense.step = "validated"
    /\ IF Validation(defense)
       THEN \/ \E written \in BOOLEAN :
                  defense' = [defense EXCEPT !.step = "done", !.validated = TRUE,
                                             !.indexed = written]
            \/ DefenseRaises
       ELSE defense' = [defense EXCEPT !.step = "done"]

DefenseStep == Architect \/ ReplayCase \/ ReplayRaises \/ ReplayDone \/ Index
=============================================================================

------------------------------ MODULE Campaign ------------------------------
(***************************************************************************)
(* A campaign: RedThreadEngine.run and the supervisor graph under it.  The *)
(* guardrails of earlier campaigns are injected, one attack worker per     *)
(* persona runs concurrently and sends through LiveSend (one message here: *)
(* the turns of a runner are in AttackRunner; records are those of these   *)
(* messages), a barrier collects them, the judge re-evaluates and the      *)
(* defense worker (DefenseReplay) works on one result after the other, and *)
(* the finalizer and the engine write the report.  Candidates stay in the  *)
(* memory index and an operator may make one active between two campaigns. *)
(***************************************************************************)
EXTENDS LiveSend, DefenseReplay

CONSTANTS Prompts,          \* the system prompts campaigns are configured with
          Padded,           \* those a strip() changes
          MaxCampaigns      \* bound on the campaigns of a behaviour

ASSUME CampaignAssumption == Padded \subseteq Prompts /\ MaxCampaigns \in Nat

Personas == Senders

VARIABLES camp,      \* stage, settings and prompt of the current campaign
          worker,    \* [Personas -> the state of its attack worker]
          results,   \* attack_results, in the order the workers ended
          judged,    \* judged_results
          tally,     \* the counters of SupervisorState
          report,    \* metadata of the CampaignResult
          memory,    \* deployments: the records of the memory index
          broken     \* every worker that really failed (history)

campVars == <<camp, worker, results, judged, tally, report, memory, broken>>
vars == <<sendVars, defense, campVars>>

NoTally == [attackTotal |-> 0, attackFailures |-> 0, judgeTotal |-> 0, judgeFailures |-> 0,
            defenseTotal |-> 0, defenseFailures |-> 0, validated |-> 0, errors |-> 0]

NoReport == [there |-> FALSE, results |-> 0, degraded |-> FALSE, errors |-> 0, validated |-> 0,
             records |-> 0, failedRecords |-> 0, tagged |-> 0, contained |-> FALSE]

-----------------------------------------------------------------------------
(* Prompts.  A prompt is its base text and the clauses appended to it;     *)
(* raw: the text still has the white space that strip() removes.           *)

Plain(base) == [base |-> base, raw |-> base \in Padded, clauses |-> {}]

\* GuardrailLoader._compute_prompt_hash strips; build_deployment_record does not.
LoaderScope(prompt) == [prompt EXCEPT !.raw = FALSE]
RecordScope(prompt) == prompt

\* load_scoped_guardrail_records for this base prompt
Loaded(base) == {m \in memory : m.active /\ m.scope = LoaderScope(Plain(base))}

\* inject_guardrails: append_guardrails_to_system_prompt ends in strip().
Injected(base) ==
    IF Loaded(base) = {} THEN Plain(base)
    ELSE [base |-> base, raw |-> FALSE, clauses |-> {m.trace : m \in Loaded(base)}]

-----------------------------------------------------------------------------
CampInit ==
    /\ camp = [stage |-> "idle", run |-> 0, dry |-> FALSE, chain |-> FALSE,
               prompt |-> Plain(CHOOSE b \in Prompts : TRUE), at |-> 0]
    /\ worker = [p \in Personas |-> "off"]
    /\ results = <<>> /\ judged = <<>>
    /\ tally = NoTally /\ report = NoReport
    /\ memory = {} /\ broken = {}

Init == SendInit /\ DefenseInit /\ CampInit

Ended == camp.stage \in {"idle", "done", "failed"}

\* RedThreadEngine.run, RedThreadSupervisor.invoke: a fresh state and a fresh
\* list of records, and the prompt with the guardrails in scope.
Start ==
    /\ Ended /\ camp.run < MaxCampaigns
    /\ \E base \in Prompts, dry \in BOOLEAN, chain \in BOOLEAN :
          camp' = [stage |-> "personas", run |-> camp.run + 1, dry |-> dry, chain |-> chain,
                   prompt |-> Injected(base), at |-> 0]
    /\ worker' = [p \in Personas |-> "off"]
    /\ sends' = [s \in Senders |-> Idle] /\ records' = <<>>
    /\ defense' = NoDefense
    /\ results' = <<>> /\ judged' = <<>> /\ tally' = NoTally /\ report' = NoReport
    /\ broken' = {}
    /\ UNCHANGED memory

\* An exception that no node catches: the task fails, run() raises.
CampaignFails ==
    /\ camp.stage = "personas" /\ ~camp.dry
    /\ camp' = [camp EXCEPT !.stage = "failed"]
    /\ UNCHANGED <<sendVars, defense, worker, results, judged, tally, report, memory, broken>>

\* generate_personas_node, fan_out_attack_workers: one worker per persona; with
\* no persona the graph has nothing to run and ends without a report.
FanOut ==
    /\ camp.stage = "personas"
    /\ \E ps \in SUBSET Personas :
          /\ worker' = [p \in Personas |-> IF p \in ps THEN "running" ELSE "off"]
          /\ camp' = [camp EXCEPT !.stage = IF ps = {} THEN "done" ELSE "attacking"]
    /\ UNCHANGED <<sendVars, defense, results, judged, tally, report, memory, broken>>

-----------------------------------------------------------------------------
(* The attack workers                                                      *)

Running(p) == camp.stage = "attacking" /\ worker[p] = "running"

\* The runner sends its next message.
Send(p) ==
    /\ Running(p) /\ ~camp.dry
    /\ Issue(p)
    /\ UNCHANGED <<defense, campVars>>

\* The provider's and the retry loop's steps.
Provider(p) ==
    /\ Running(p) /\ SendStep(p)
    /\ UNCHANGED <<defense, campVars>>

\* Mutant of Merge: the reducer keeps the newer list.
MergeNewest(old, new) == new

\* merge_lists: the worker's output is added to what the others left.
Merge(old, new) == old \o new

\* A worker's output: whether there is a result, its outcome and the error.
Output(p, there, outcome, jailbreak, error) ==
    [persona |-> p, there |-> there, outcome |-> outcome, jailbreak |-> jailbreak,
     turns |-> outcome = "played", error |-> error]

Leave(p, out) ==
    /\ worker' = [worker EXCEPT ![p] = "done"]
    /\ results' = Merge(results, <<out>>)
    /\ UNCHANGED <<records, defense, camp, judged, tally, report, memory>>

\* The runner returns; a trace without turns is no jailbreak, and a specialized
\* chain leaves the verdict to the judge.
WorkerDone(p) ==
    /\ Running(p)
    /\ camp.dry \/ sends[p].at = "ok"
    /\ \E jailbreak \in BOOLEAN, outcome \in {"skipped", "played"} :
          /\ camp.dry => outcome = "skipped"
          /\ jailbreak => outcome = "played" /\ ~camp.chain
          /\ Leave(p, Output(p, TRUE, outcome, jailbreak, "none"))
    /\ UNCHANGED <<sends, broken>>

\* A send raises.  A runner lets it through: no result, and str(exc), which may
\* be empty.  The chain reports its phase errors in a result.
WorkerRaises(p) ==
    /\ Running(p) /\ sends[p].at = "failed"
    /\ IF camp.chain
       THEN Leave(p, Output(p, TRUE, "error", FALSE, "text"))
       ELSE \E error \in {"text", "empty"} :
               Leave(p, Output(p, FALSE, "none", FALSE, error))
    /\ broken' = broken \cup {<<"attack", p>>}
    /\ UNCHANGED sends

\* Mutant of WorkerTimeout: a call that waits for the provider is not cancelled.
WorkerTimeoutShielded(p) ==
    /\ Running(p) /\ ~camp.dry /\ ~camp.chain /\ sends[p].at # "waiting"
    /\ \/ Cancel(p)
       \/ sends[p].at \in {"idle", "ok", "failed"} /\ UNCHANGED sends
    /\ Leave(p, Output(p, TRUE, "error", FALSE, "text"))
    /\ broken' = broken \cup {<<"attack", p>>}

\* asyncio.wait_for: the deadline cancels the runner in whatever it awaits.
WorkerTimeout(p) ==
    /\ Running(p) /\ ~camp.dry /\ ~camp.chain
    /\ \/ Cancel(p)
       \/ sends[p].at \in {"idle", "ok", "failed"} /\ UNCHANGED sends
    /\ Leave(p, Output(p, TRUE, "error", FALSE, "text"))
    /\ broken' = broken \cup {<<"attack", p>>}

-----------------------------------------------------------------------------
(* The nodes after the barrier                                             *)

HasResult(r) == r.there
Inputs == SelectSeq(results, HasResult)
CountOf(seq, P(_)) == Cardinality({i \in DOMAIN seq : P(seq[i])})

\* Mutant of Failed: only an error with a text counts.
FailedByText(r) == r.error = "text"

Failed(r) == r.error = "text" \/ ~r.there

\* collect_results_node: an error with a text, or no result, is a failure.
Collect ==
    /\ camp.stage = "attacking"
    /\ \A p \in Personas : worker[p] # "running"
    /\ tally' = [tally EXCEPT
          !.attackTotal = Len(results),
          !.attackFailures = CountOf(results, Failed),
          !.errors = CountOf(results, LAMBDA r : r.error = "text")]
    /\ camp' = [camp EXCEPT !.stage = "judging", !.at = 1]
    /\ sends' = [s \in Senders |-> Idle]     \* the runners are gone
    /\ UNCHANGED <<records, defense, worker, results, judged, report, memory, broken>>

Judged(r, status, jailbreak) == [persona |-> r.persona, status |-> status,
                                 jailbreak |-> jailbreak, turns |-> r.turns]

Pass(out, failed) ==
    /\ judged' = Append(judged, out)
    /\ tally' = [tally EXCEPT !.judgeFailures = @ + (IF failed THEN 1 ELSE 0),
                              !.errors = @ + (IF failed THEN 1 ELSE 0)]
    /\ camp' = [camp EXCEPT !.at = @ + 1]
    /\ UNCHANGED <<sendVars, defense, worker, results, report, memory>>

\* run_judge_worker without a judge call
JudgeSkips ==
    LET r == Inputs[camp.at] IN
    /\ camp.stage = "judging" /\ camp.at <= Len(Inputs)
    /\ camp.dry \/ r.outcome = "error" \/ ~r.turns
    /\ Pass(Judged(r, "passthrough", r.jailbreak), FALSE)
    /\ UNCHANGED broken

Evaluates(r) == ~camp.dry /\ r.outcome # "error" /\ r.turns

\* JudgeAgent.evaluate: its verdict replaces the one of the attack.
JudgeRules ==
    LET r == Inputs[camp.at] IN
    /\ camp.stage = "judging" /\ camp.at <= Len(Inputs) /\ Evaluates(r)
    /\ \E jailbreak \in BOOLEAN : Pass(Judged(r, "re_evaluated", jailbreak), FALSE)
    /\ UNCHANGED broken

\* The judge raises: the result goes on with the verdict it came with.
JudgeRaises ==
    LET r == Inputs[camp.at] IN
    /\ camp.stage = "judging" /\ camp.at <= Len(Inputs) /\ Evaluates(r)
    /\ Pass(Judged(r, "judge_error", r.jailbreak), TRUE)
    /\ broken' = broken \cup {<<"judge", r.persona>>}

Jailbreaks == SelectSeq(judged, LAMBDA r : r.jailbreak)

\* judge_all_results_node returns; analyze_agentic_security_node; route_to_defense
Route ==
    /\ camp.stage = "judging" /\ camp.at > Len(Inputs)
    /\ tally' = [tally EXCEPT !.judgeTotal = Len(Inputs)]
    /\ camp' = [camp EXCEPT !.at = 1, !.stage = IF Jailbreaks = <<>> THEN "finalize"
                                                ELSE "defending"]
    /\ UNCHANGED <<sendVars, defense, worker, results, judged, report, memory, broken>>

Defend ==
    /\ camp.stage = "defending" /\ camp.at <= Len(Jailbreaks)
    /\ defense.step = "off" /\ StartDefense(camp.dry)
    /\ UNCHANGED <<sendVars, campVars>>

DefenseRuns ==
    /\ camp.stage = "defending" /\ DefenseStep
    /\ memory' = IF defense'.indexed
                 THEN memory \cup {[trace |-> <<camp.run, Jailbreaks[camp.at].persona>>,
                                    scope |-> RecordScope(camp.prompt), active |-> FALSE]}
                 ELSE memory
    /\ UNCHANGED <<sendVars, camp, worker, results, judged, tally, report, broken>>

\* defense_synthesis_node: one output counted.
Defended ==
    LET One(b) == IF b THEN 1 ELSE 0 IN
    /\ camp.stage = "defending" /\ defense.step = "done"
    /\ tally' = [tally EXCEPT !.defenseTotal = @ + 1,
                              !.defenseFailures = @ + One(defense.error),
                              !.errors = @ + One(defense.error),
                              !.validated = @ + One(defense.validated)]
    /\ camp' = [camp EXCEPT !.at = @ + 1,
                   !.stage = IF camp.at = Len(Jailbreaks) THEN "finalize" ELSE @]
    /\ defense' = NoDefense
    /\ broken' = IF defense.error THEN broken \cup {<<"defense", Jailbreaks[camp.at].persona>>}
                 ELSE broken
    /\ UNCHANGED <<sendVars, worker, results, judged, report, memory>>

\* finalize_node, build_runtime_summary
Finalize ==
    /\ camp.stage = "finalize"
    /\ report' = [report EXCEPT !.there = TRUE, !.results = Len(judged),
          !.degraded = tally.attackFailures + tally.judgeFailures + tally.defenseFailures > 0,
          !.errors = tally.errors, !.validated = tally.validated]
    /\ camp' = [camp EXCEPT !.stage = "telemetry"]
    /\ UNCHANGED <<sendVars, defense, worker, results, judged, tally, memory, broken>>

\* run_telemetry_pass: what it raises inside is swallowed, a target that cannot
\* be built is not, and fails the campaign after its work.
TelemetryFails ==
    /\ camp.stage = "telemetry" /\ ~camp.dry
    /\ camp' = [camp EXCEPT !.stage = "failed"]
    /\ UNCHANGED <<sendVars, defense, worker, results, judged, tally, report, memory, broken>>

\* build_execution_truth_summary
FailedSends(rs) == CountOf(rs, LAMBDA r : ~r.success)

\* _attach_execution_truth, merge_live_canary_report; complete, write_transcript
Complete ==
    LET Tagged == {i \in DOMAIN records : records[i].tagged} IN
    /\ camp.stage = "telemetry"
    /\ report' = [report EXCEPT !.records = Len(records),
          !.failedRecords = FailedSends(records),
          !.tagged = Cardinality(Tagged),
          !.contained = \A i \in Tagged : Boundary(records[i].seam) # "execution_boundary"]
    /\ camp' = [camp EXCEPT !.stage = "done"]
    /\ UNCHANGED <<sendVars, defense, worker, results, judged, tally, memory, broken>>

\* Outside: promotion makes a candidate an active guardrail (Promotion.tla).
Activate ==
    /\ Ended /\ \E m \in memory : ~m.active /\ memory' = (memory \ {m}) \cup {[m EXCEPT !.active = TRUE]}
    /\ UNCHANGED <<sendVars, defense, camp, worker, results, judged, tally, report, broken>>

WorkerStep(p) == Provider(p) \/ Send(p) \/ WorkerDone(p) \/ WorkerRaises(p)

Node == \/ FanOut \/ Collect \/ JudgeSkips \/ JudgeRules \/ Route \/ Defend \/ DefenseRuns
        \/ Defended \/ Finalize \/ Complete

Next == \/ Start \/ CampaignFails \/ Node \/ JudgeRaises \/ TelemetryFails \/ Activate
        \/ \E p \in Personas : WorkerStep(p) \/ WorkerTimeout(p)

Spec == Init /\ [][Next]_vars
=============================================================================

# RedThread in TLA+

RedThread is a red-teaming harness for language-model agents: campaigns attack
a target, confirmed jailbreaks lead to synthesized defenses, and validated
defenses become guardrails of production.  Around it runs *autoresearch*: a
daemon that mutates the attack code, evaluates it, and emits proposals that an
operator accepts, rejects and promotes.

This directory holds TLA+ models of the parts of RedThread that keep state
across processes and crashes, of a campaign and the attack algorithms in it, and
of the parts beside them that decide what may be sent, published or alerted; their
model-checking configurations for TLC, and proofs checked by TLAPS.  Source paths below are relative to
`src/src/redthread/` unless they begin with `docs/` or `tests/`.

* [Inventory](#inventory)
* [Plan](#plan)
* [The research daemon](#the-research-daemon)
* [The memory index](#the-memory-index)
* [Promotion](#promotion)
* [Source mutation](#source-mutation)
* [Research batches](#research-batches)
* [Attack algorithms](#attack-algorithms)
* [A campaign](#a-campaign)
* [The security monitor](#the-security-monitor)
* [Authorization](#authorization)
* [GEPA](#gepa)
* [The material vault](#the-material-vault)
* [Personas](#personas)
* [Runs](#runs)
* [Bounds](#bounds)
* [Fairness](#fairness)
* [Proofs](#proofs)
* [What the code does not keep](#what-the-code-does-not-keep)
* [Not modelled](#not-modelled)

## Inventory

| Component | State | Operations | What is hard, and what makes it correct |
|---|---|---|---|
| Research daemon (`research/daemon*.py`) | `session.lock`, `heartbeat.json`, `daemon_state.json` | start, resume, run_once, stop | several processes on the same files, read and write-back in separate steps, crashes, stale locks; justified halts and cooldowns, the wait for a review, only accepted proposals promoted, answered stop requests |
| Phase 3 harness (`research/phase3.py`, `git_ops.py`) | `session.json`, `proposals/*.json`, git branch and tree | start_session, run_cycle, accept_latest, reject_latest | several files and git written one after the other; the tree and the proposal agree |
| Source mutation (`research/source_mutation_*.py`) | candidates, forward and reverse patches, fingerprints, the tree | generate_and_apply, revert_candidate, apply_candidate, live_state | crash between artifact and patch, "latest" by random name; a revert restores what was there |
| Research batches (`research/baseline.py`, `supervisor.py`, `runner.py`, `ledger.py`, `calibration.py`) | batch checkpoints, `results.tsv`, the baseline registry, the modules a process has imported | run_batch, run_cycle, run_baseline, append, load_calibration | resumption from a checkpoint; nothing counted twice or mixed |
| Promotion (`research/promotion*.py`) | manifest, checkpoint, validation, result of each promotion | promote_latest, with and without dry run; resumption by the daemon | cached files, overlapping runs, crashes; only cleared evidence of accepted proposals becomes active |
| Memory index (`memory/index.py`, `file_locks.py`) | `MEMORY.md`, `deployments.jsonl` | append, readers | concurrent processes, death inside the lock, two files; append-once, the files agree |
| Guardrail loader (`core/guardrail_loader.py`) | none | inject_guardrails | three reads with writers in between; only active guardrails are injected and none is lost |
| Consolidation (`memory/consolidation.py`) | none of its own | run | appends for log entries that hold a full result, which no log of the program has |
| Campaign graph (`engine.py`, `orchestration/supervisor_*.py`, `graphs/`) | the graph's state, the execution records | planning, attack, judge and defense workers, finalize, telemetry pass | fan-out and barriers, deadlines, failing workers, merged counters; no worker is lost and the report says what failed |
| Attack algorithms (`core/pair.py`, `tap*.py`, `crescendo.py`, `mcts*.py`, `orchestration/agents/`) | conversation, tree, budgets | run | backtracking, pruning, budgets, backpropagation, on any scores and failures |
| Live sends (`pyrit_adapters/`, `orchestration/canary_containment.py`) | execution records | send, with guards, retry, fallback and cancellation | repetition of what was already sent; each outcome is recorded once, and tagged text stays inside |
| Defense synthesis and replay (`core/defense_*.py`, `graphs/defense_graph.py`) | one validation, its record | isolate, synthesize, replay, index | cases that are blocked or raise; a candidate is promotable only after a whole replay |
| Authorization (`tools/authorization/`) | none, policies are constants | authorize | the order of the checks and of the policies; nobody gains by understating |
| Telemetry and security daemon (`telemetry/`, `daemon/`) | `telemetry.db`, the fitted detector, follow-up tasks | warm-up, probe, measure, stop | restarts over an old store, failed probes, Ctrl-C, tasks beside the loop; alerts rest on evidence and the monitor ends |
| GEPA (`research/gepa_*.py`) | `autoresearch/runtime/gepa` | three optimisation lanes and the shadow harness | files written one after the other by runs that fail or are killed; only a gated frontier is published, the ledger is whole |
| Material vault (`benchmarks/material_*.py`, `replay.py`) | texts and manifests of the vault | import, inventory, replay, hand-off | check and use apart, imports in between; only text that two reviewers approved is sent |
| Personas (`personas/`) | the batch of a campaign, `adaptive-persona-weighting-plan.json` | plan, generate, repair, weigh | a plan that earlier results or an operator wrote changes the next batch; no layer of the fixture is left out |
| Evaluation, launch readiness, benchmarks' scoring, reporting, configuration | results in files | pipelines | mostly sequential; presentation and data |

The parts interact through files.  A research *cycle* runs campaigns whose
defense workers append to the research memory index; the cycle ends in a
*proposal* that lists the traces that are new.  The operator accepts it
(a git commit) or rejects it (a hard reset).  *Promotion* replays the gates over
the research records of an accepted proposal and appends them to the production
memory index as `active_guardrail`; ordinary campaigns append
`validated_candidate` records to the same index.  The *guardrail loader* of every campaign reads
that index.  The *daemon* runs cycles, waits for reviews, and resumes
interrupted promotions.

## Plan

Done, in this order:

1. `ResearchDaemon` -- the daemon, its lock, its recovery, and the operator beside it.
2. `GuardrailLog`, `MemoryIndex` -- the log that production memory promises to
   be, and the index that implements it; the loader reads it.
3. `PromotionBoundary`, `Promotion` -- the boundary between research and
   production, and promotion composed with the index that implements it.
4. `SourceMutation` -- candidates, patches and reverts over a git work tree,
   with the daemon's recovery, the operator's review and edits.
5. `ResearchBatch` -- the batches, checkpoints and ledger of a research cycle,
   across crashes, failures and mutations.
6. `AttackCommon`, `PairAttack`, `TapAttack`, `CrescendoAttack`, `MctsAttack`,
   `SpecializedChain`, `AttackRunner` -- the attack algorithms.
7. `LiveSend`, `DefenseReplay`, `Campaign` -- a send, the defense worker, and the
   campaign that is composed of both.
8. `SecurityMonitor`, `Authorization`, `Gepa`, `MaterialVault`, `PersonaBatch`.
9. Proofs of the inductive invariants of 1 to 5 and of both refinements, of a
   campaign and of the vault, and of the authorization engine for every set of actions
   and policies; of every safety property that the passing runs check, but `ControlGate`.

Next:

1. `LaunchReadiness`: the order of its gates, and the agentic review of a campaign
   as a client of `Authorization`.

Composition: `Promotion` extends `MemoryIndex`; `ResearchDaemon` has its own
coarse view of promotion (started, finished) and of the tree (clean, dirty), and
stays separate from `Promotion` and `SourceMutation`, for the products are out of
TLC's reach.  `SourceMutation` in turn has the daemon's steps that touch the tree,
without its lock and its loop, and `ResearchBatch` has what lies inside the one
step `Evaluate` of the daemon.  `Campaign` extends `LiveSend` and `DefenseReplay`;
a campaign's workers send one message each there, for what an algorithm sends
after it is the subject of `AttackRunner`.  `IndependentMC` and `ServicesMC` are no
compositions: they put modules that share no state into one run (see [Runs](#runs)).

## The research daemon

`ResearchDaemon.tla`; instances in `ResearchDaemonMC.tla`.

Variables are the files: `lock`, `fresh` (the heartbeat is at most 60 seconds
old), `state` (`daemon_state.json`), `review`, `recommended` and `latest` (the
proposals), `checkpointed`, `finished`, `top` (the promotions, `top` being the
directory that sorts last), `session`, `dirty` (git).  `proc[d]` is the
location and the local variables of daemon `d`, `op` the operator's command
under way.  `approved` is a history variable.

A step is what a process does between two reads or writes of shared files.
`start()` is `Start`, `CheckLock`, `WriteLock`, `BeatIdle`, `InitState`,
`Pause` or `Begin`, then the loop `Poll`, `run_once`, `Cycled`, and `Release`.
`run_once()` is `RunOnce`, `Reopen`, `Gates`, and one of `ResumePromotion` and
`FinishPromotion`, `DirtyCycle`, `Mutate`, `Evaluate`, `Rewrite`; it ends in
`Record` and `RecordBeat`, or in `FailRevert` and `FailSave`.  `Interrupt` is
Ctrl-C anywhere (the `finally` releases the lock), `Crash` a kill.  The operator's
`stop`, `accept`, `reject` and `promote` are two steps each.

Abstractions: the tree is clean or dirty; what `live_state` says about a dirty
tree, and whether a revert cleans it, is chosen freely, for the candidate that is
looked at (`source_mutation_resume.py:14-19`) need not be the one that is reverted
(`source_mutation_worker.py:70-79`); the operator runs one command at a time; the
failure counter saturates where the daemon
halts; files are read and written whole; runs of the operator's own
`research phase3/4/5/6 cycle` beside a daemon are left out.

## The memory index

`MemoryIndex.tla`; `GuardrailLog.tla` is what it promises.

`markdown` and `deployments` are the two files, as sequences; `lock` is the
holder of the sidecar lock of `deployments.jsonl`; `writer[w]` is the call of
`append()` that process `w` is in.  `CallAppend` is the canary check and the call;
`Refuse` and `Enter` take the lock and check for duplicates; `WriteEntry` and
`WriteRecord` write the two files in the code's order; `Die` is the death of a
process, whose lock the kernel drops.  `LoadRecords`, `LookForRecords` and
`LoadFallback` are the three reads of `inject_guardrails`.

All records have one target and have passed their validation; the lock of
`MEMORY.md` is taken only inside the other one and is not modelled.

## Promotion

`Promotion.tla` extends `MemoryIndex`; `PromotionBoundary.tla` is what it promises.

Variables: the research memory (`research`, a set of traces) and the cycle that
writes it, the proposals (`plane`, `recommended`, `sound`, `eligible`,
`latest`), the trail of each promotion (`manifest`, `step`, `validation`,
`result`), and the runs of `promote_latest()` (`promoter`).  `approved`,
`cleared` and `intended` are history variables.

A run is `Begin` (by the operator or, in `DaemonResumes`, by the daemon),
`CheckResult`, `WriteManifest`, `CheckpointManifest`, `Validate`, and, if there is
no validation yet, `SaveValidation` and `CheckpointReplay`; then `ReadRecords`,
one `AppendRecord` / append / `AppendReturns` per record, `AppendsDone`,
`WriteResult`, `CheckpointResult`.  It may die anywhere.  `sound` stands for the
lanes and the control gate, which depend on the proposal only; `Strong` is the
set of traces whose record passes `evaluate_defense_record`, so
`BuildValidation` is `_validation_status` over `eligible_records`.

A writer that is no promoter is a campaign beside it, which appends candidates to
the same production memory under traces of its own.  The loader does not move in
this composition.

## Source mutation

`SourceMutation.tla`; instances in `SourceMutationMC.tla`.

`tree`, `head` and `base` are the work tree, the last commit and the commit that
`session.json` names; a file is the text a human wrote and the number of
mutations laid over it.  `stored` is the artifact directory: the patches are
there as soon as a candidate is, `status` is `candidate.json` and `manifest` the
manifest.  `proposal` is the latest one, `call` the mutation, dirty cycle or
revert under way, `review` the operator's command under way.  `newest`, `raced`
and `managed` are history variables; `managed` says that only the daemon mutated
and reverted so far, and no review overlapped a call of its.

`generate_and_apply()` is `Generate`, `WriteCandidate`, `WriteManifest`, `Apply`,
`MarkApplied`, and the cycle behind it ends in `Propose` or `EvaluationFails`.
`HandleDirtyCycle` and `HandleFailure` are the daemon's methods of these names;
`RevertLatest` is the revert command of phase 5 or 6; both kinds of revert go on
with `CheckRevert`, `Rewrite`, `MarkReverted`.  `Accept`, `MarkAccepted`, `SaveBase`
are the three writes of `accept_latest()`, `Reject` and `HardReset` the two of
`reject_latest()`.  `Edit` is the operator's editor.

Names are numbers that are used in any order, for the code's are random and are
compared as strings.  Two facts that came out of the translation:
`live_state()` compares the tree with the reverse patch before it compares
fingerprints of the same content, so it never answers `generated`, and the
daemon's call of `apply_candidate()` is not reachable; and the failure handler
reverts the candidate whose name sorts last, which need not be the one in the
tree (`RevertsTheMostRecent`).  `EditsSurvive`, `Undoable` and `NeverStacked`
say what that may not lead to; none of them assumes anything of the names.

## Research batches

`ResearchBatch.tla`; an instance in `ResearchBatchMC.tla`.

`made` is the list of the campaigns so far, each with the code it ran on and its
outcome; a campaign is its number in it.  `tree` is the mutation on the disk and
`imported` the one whose modules the daemon's process has imported: the daemon runs
campaigns in its own process (`research/baseline.py:47`), on modules that Python
imports once (`core/attack_runner.py:61-79`) and nothing reloads.  `checkpoints`, `ledger`
and `registry` are the files; `ranked` is what `rank()` would answer for that
ledger.  `cycle` is the cycle under way: the batches still to run (`todo`), what
the current one has (`done`), the control limit it loaded, the lanes' summaries.

A cycle is `Begin` (on a new mutation, or on what a crash left in the tree), then
for every batch `LoadCheckpoint`, `RunObjective` and `SaveCheckpoint` for each
missing objective, `FinishBatch` (the checkpoint is removed) and `AppendRow`;
`Calibrate` after the first baseline, `Propose` at the end.  `OperatorBaseline` is
`research baseline`, between two cycles and in a process of its own: another
row, from which limits are derived, and a checkpoint of its own.  `Fail` is an
exception anywhere, with the daemon's revert; `Crash` a kill; `Restart` a daemon that
was stopped and is started again, with modules imported anew.

Abstractions: a campaign's scores are whether it breached the target, so the
average attack success rate stands for both control limits; the average of a ledger
row is rounded to the decimals of the file (`Scale`), the one it is compared with is
not.  The limit of a set of baselines (`LimitOf`) is the code's: the configured one,
the maximum, and the mean plus two standard deviations; the 95th percentile lies below
the maximum.  All attack modules are imported with the first campaign: in the code
each is when its algorithm is first used, and `prompt_profiles` when the daemon
starts, so that some proposals are evaluated rightly that are not here, and others
wrongly that are rightly here.  Which of two ranked slugs comes first depends on scores, so any order of the
slugs in the rows is explored.  The decision row is left out, for nothing reads
it.

## Attack algorithms

`AttackRunner.tla` starts one algorithm (`settings.algorithm`) and ends with
`JudgeTrace`, the judge's verdict on the trace.  `AttackCommon.tla` has what they
share: the settings, `atkStage` (the loop, the judge, the end), `atkTurns` (the
trace), `atkVerdict`, `atkOutcome`, and `atkSends`, which counts the messages.
Every send may raise, and then the run ends as the code says.

| Module | Code | Steps |
|---|---|---|
| `PairAttack` | `core/pair.py` | `PairPrompt` (the attacker refines), `PairQuery` (target, inline score, early stop) |
| `TapAttack` | `core/tap*.py` | per depth `TapBranch`, `TapPruneOffTopic`, and `TapQuery`, which ends in the pruning to the width and in the choice of the trace |
| `CrescendoAttack` | `core/crescendo.py`, `narrative_adaptation.py` | `CresRecommend` (the adaptation policy), `CresPromptAttacker`, `CresQuery` with escalation, backtracking and acceptance after the last retry |
| `MctsAttack` | `core/mcts*.py` | `MctsSelect`, `MctsExpand`, `MctsRollout`, `MctsBackpropagate`, `MctsStop` at the budget |
| `SpecializedChain` | `orchestration/agents/` | `ReconProbe`, `SocialPhase`, `ExploitPhase`, with the errors each leaves behind |

Scores are ten times the code's.  The inline score is `HeuristicScore` of what the
answer contains, so it is 1, 2, 2.5 or 4; with the default `success_threshold` of
4.5 no loop stops early, and 4.0 is in the instance for the other branch.  What a
prompt says is abstracted to what it is built from: the previous answer it quotes,
the strategy, the phase.  UCT compares two real terms, which are replaced by
what is certain of them: a child never visited comes first, and among visited
ones any may win.

## A campaign

`Campaign.tla` extends `LiveSend.tla` and `DefenseReplay.tla`; an instance and the
properties are in `CampaignMC.tla`.

`camp` is the stage and the settings of the current campaign, `worker` the attack
worker of each persona, `results`, `judged` and `tally` the fields of
`SupervisorState` that workers merge into, `report` the metadata of the result,
`memory` the records of the index.  `broken`, the workers that really failed, is a
history variable.  `Start` injects the guardrails and plans; `FanOut` launches the
workers; `Send` and `Provider` are steps inside a worker, which ends in `WorkerDone`,
`WorkerRaises` or `WorkerTimeout`; `Collect` is the barrier.  Then `JudgeSkips`, `JudgeRules` or
`JudgeRaises` per result, `Route`, `Defend`, `DefenseRuns`, `Defended` per confirmed
jailbreak, `Finalize`, `TelemetryFails`, `Complete`.  `Activate` is the operator
between two campaigns.

`LiveSend` is one send.  `sends[s]` is where coroutine `s` is, with its request, the
calls it made and how many messages the provider got; `records` are the execution records.
`Issue` is everything up to the first await: `StoppedEarly` (the interceptor),
`Refused` (containment), `Guarded` (the target's own guard) or `Call`, which in the
fallback for targets without metadata writes its record before the call is made.
`Deliver` and `Answer` are the provider, `Transient` and `Retry` the retry wrapper,
`Raises` any other error, `Cancel` the worker's deadline.

`DefenseReplay` is the one defense worker at work: `Architect` (the clause, which may
be empty), `ReplayCase` for each case of the suite, `ReplayRaises`, `ReplayDone` (the
validation and the gates) and `Index`.

Facts to know when reading the properties: a send that is cancelled leaves no
record, the fallback's record says `success` before the answer is known, judge and
defense calls have no deadline (so `CampaignEnds` is about the attack stage and
what follows it when every provider answers), and `agent_chain` campaigns have no
deadline in their workers either.

## The security monitor

`SecurityMonitor.tla` is `SecurityGuardDaemon` (`daemon/monitor.py`) over
`telemetry/`.  `mon` is the running process: where it is, the prompts still to send,
the size of the fitted baseline, the cooldown and the stop flag, which live in memory
only.  `tasks` are the follow-up campaigns it has launched, `store` is `telemetry.db`:
samples per canary, healthy or drifted, samples without embedding, and the saved
baseline.

`MonitorStart` loads or begins a warm-up, `WarmupProbe`, `WarmedUp`; a round is `Probe` for
each canary or `RoundFails`, then `Measure` (the agent stability index, the alert,
the cooldown, the follow-up) and `NextRound` or `CooldownEnds`.  `Stop` and `Interrupt`
end the loop through `LoopEnds`, `Cancelled` and `Shutdown`, which cancels the tasks
(`TaskCancelled`).  `MonitorDies` is a kill; a later `MonitorStart` finds the store.

The index is the code's weighted sum, of which only response consistency is
computed: the other three are measured on organic interactions, which nothing in the
code records, and default to 100.  Their weights add up to 70 of 100, so with the default
threshold of 60 no alert is raised; the instance has 85.

## Authorization

`Authorization.tla` is `AuthorizationEngine.authorize` (`tools/authorization/`), with
the catalogue, the lineage checks, the presets and the default policies.  `engine`
is its policies and the last question and answer.  `Decide` has the checks in the code's
order: risky capabilities of derived lineage and arguments no schema accepts, policies that
deny, that escalate, the scope, policies that allow, lineage, approvals; and around them the
sensitivity of the catalogue, by which an action that understates its target is not allowed.  The catalogue is asked for the capability, the
name of the tool and some arguments.  Argument values are *kinds* (a path below a scratch directory, a
path that climbs out, a domain on the list), for this is what the patterns tell apart.

## GEPA

`Gepa.tla` has the three optimisation lanes (`scripts/spikes/`) and the shadow
harness over one directory, `disk`; `spike` is the run in progress and `pool` what
the optimizer holds.  `Start`, then the optimizer (external, constrained to what the
adapter lets it do: `Refuse`, `Reflect`, `Validate`), `RunnerFails`, `Optimized`, the control gate
`EvaluateControl`, `WriteFrontier`, `ApplySource` and `WriteSummary`; the shadow
harness is `Propose`, `ShadowScore`, `ShadowFile`, `ShadowAppend`, `ShadowDone`.
`Kill` is a crash between any two files.  The source lane applies its result
without a control gate, and no lane calls `validate_splits()`.

## The material vault

`MaterialVault.tla`: `material` and `manifest` are the files of the vault, both
possibly absent or torn, for they are written in place.  `importer` is
`materials import` (`BeginImport` with its admission checks, `CopyFile`, `BuildManifest`,
`OpenManifest`, `WriteManifest`, `ImporterDies`), `replay` a replay (`BeginReplay`,
`LoadManifest`, `ReloadManifest`, `CheckDigest`, `SendMaterial`).  The two classes of
material, redacted and replay seed, share one manifest per fixture.  Between any
two steps of a replay an import may replace the text or the manifest.  `vouched` is
a history variable: the texts that two reviewers approved for a target.

## Personas

`PersonaBatch.tla`: `batch` is one campaign's profiles (`shares`, one per persona), the
personas generated so far and their judged results; `planFile` is
`adaptive-persona-weighting-plan.json`.  `BatchStart` deals the layers of the fixture out
(`prompting_layer_profiles_for_batch`), with the plan of an earlier campaign, with one the
operator edited, or with none; `DryPersona`, `LivePersona`, `Malformed` and
`GenerationRaises` are the generator and its three attempts, `Outcome` a judged result or
a worker that failed, `Report` the telemetry and the plan derived from it.  A layer is the
strategy hint that stands for it; weights are in hundredths; prompts, names and the
taxonomy of personas are data.

## Runs

| Run | What it checks | Instance |
|---|---|---|
| DaemonStop | `StateJustified`, `StopAnswered` | 1 daemon, stop and accept |
| DaemonLive | `PromotedWasApproved`, `WaitsForTheReview`, `ReviewResumes`, `LockRecovered` | 1 daemon, accept, reject and promote, dry runs, 1 crash |
| DaemonExclusive | `MutualExclusion`: violated | 2 daemons |
| PromotionSafety | `AuditSound`, `FinishedMeansWritten` | 2 overlapping promoters, 1 proposal, weak evidence, a canary trace, 1 crash |
| PromotionBeside | `BoundaryKept`, `InterruptedIsFinished` | promotion beside a campaign, 1 crash |
| SourceMutation | `Undoable`, `NeverStacked`, `EditsSurvive`, `CommitsTheTested` | 2 files, 2 candidates, 1 edit, 1 crash |
| ResearchBatch | `WholeBatches`, `ControlGate`, `EvidenceIsCounted`, `SavedWorkCounts` | 3 cycles or baselines of the operator, 2 objectives, 1 crash or exception |
| BatchMeasured | `MeasuredOnItsTree`: violated | 2 cycles, no crash |
| Campaign | `NoWorkerLost`, `DegradedIsTrue`, `SendsAreRecorded`, `PromotableWasReplayed`, `TaggedStaysInside`, `CampaignEnds` | 2 personas, 1 retry, a suite of 1 exploit and 2 benign cases |
| Services | memory index: `EveryClauseIsNoted`, `AppendsOnce`, `EveryCallReturns`, and, until a process dies, `InjectedStaysInjected` | 2 writers, 3 traces with 2 clauses, 1 crash |
| | security monitor: `AlertsAreEvidenced`, `MonitorEnds` | 1 canary, 2 warm-up prompts, 3 rounds, 1 task, 2 starts |
| MonitorFatal | `ToleratesProbeFailures`: violated | a warm-up probe that fails |
| Independent | attacks: `QueriesAreBounded`, `TapJudgesTheBest`, `MctsVisitsAddUp`, `HistoryIsTheEscalatedTurns` | trees of depth 3, 3 Crescendo turns, 4 simulations |
| | authorization: `SpoofNeverHelps`, `DenialIgnoresOrder` | every enumerated action under eight lists of policies, the default ones in three orders |
| | GEPA: `ArtifactsAreWhole` (`FrontierIsComplete`, `FrontierIsOpened`, `LedgerIsWhole`) | 4 candidates, 2 objectives, budget 6, three plans of runs |
| | vault: `OnlyApprovedTextIsSent`, `ReadyIffReplayable` | 2 fixtures, 3 texts, 2 importers, 1 replay |
| | personas: `EveryLayerIsTried` | 2 campaigns of 2 or 3 personas, 3 layers, one plan of the operator's own |

What each property says stands above its definition.  `Independent` is five
state machines that share nothing: the variable `subject` says which of them a
behaviour is about, and the others stay in their initial states, so each is explored
completely and none is multiplied with another.  `Services` is two more of them, with
the fairness each has on its own.

The runs that end in a violation, and the properties that are violated in the same
way, are explained in [What the code does not keep](#what-the-code-does-not-keep).
`PromotionPair.cfg` checks the properties of `PromotionSafety` for two
proposals and one promoter; it passes, and is kept beside the runs.

`DaemonExclusive` uses the symmetry of daemons and of proposals, `SourceMutation`
that of its files, `Independent` that of its importers; runs with a liveness
property use none.  Deadlock is checked, except where the modelled thing really
ends: in `Campaign` (the last campaign is over), `Services` and `MonitorFatal`
(the last start of the monitor has ended) and `Independent` (an attack has its verdict).

## Bounds

* The passing runs of the daemon have one daemon and one proposal: what they add to the
  theorems is about answers.  Whatever a second daemon or proposal does to
  `StateJustified` and `PromotedWasApproved` is proved, for any number of either, as
  `WaitsForTheReview` is for one daemon and any number of proposals; two daemons or two
  proposals are out of TLC's reach in a run that ends.  `PromotionPair.cfg` checks two
  proposals for promotion; a third adds no case, for the code looks
  at the latest, at the one a file names, and at the last directory.
* `MaxCrashes` bounds deaths.  One crash between any two steps, followed by a
  second run, is the case all recovery code is about; two are used where the
  state space allows.
* Two writers for a lock, two promoters for a trail: the interleavings in which
  one overtakes the other.  With two promoters there is one proposal, with two
  proposals (`PromotionPair.cfg`) one promoter.
* Three traces, two with the same clause: a trace that is refused as a
  duplicate, a clause that is not noted twice, and one that is new.
* Two files and two candidates: two mutations of one file (the second is laid
  over the first), and of two files.  One edit at any moment is the race a revert
  may lose.  Both files are attack sources there; a defense source (phase 6) in
  place of one is an instance of `SourceMutationMC` as well.
* Three research cycles: one dies or fails, one takes over its checkpoints, and
  one follows on a changed ranking; or one or two of them are baselines of the
  operator, so that a limit rests on two rows that differ.  One interruption,
  a crash or an exception anywhere.  Two objectives in both packs and lanes of one
  (the code has lanes of two and packs of four): the lanes may swap their
  objectives between two cycles.  `OutcomesOf` lets one objective be breached
  sometimes and the other never, so that a control lane may be better than, as
  good as and worse than its baseline.  `ConfigLimit` is the code's default, 0.10, and
  `Scale` keeps two decimals of an average where the file keeps six; two objectives
  need one.
* Two personas: two workers that end in either order, one of which fails while the
  other does not.  One retry: a message that is delivered twice.  One exploit and two
  benign cases: each kind present, and one case of a kind failing where another
  passes (the code's suite has three exploits, which is `ExploitCases`).
* `Requests` of a campaign are the combinations of door, label, tag, preset, fallback
  and interception that runners and adapters make; one is refused by the locked adapter, and
  one, of a legacy target, is refused without a record.
* `MaxIterations` 3, trees of depth 3, width 1 and branching 2, three Crescendo turns with
  one retry, four simulations of depth 2 under a budget that they may
  exhaust: each loop ends at its bound, at its budget and early.
* Monitor: a window of 4 with 2 warm-up samples, so that an alert needs two rounds;
  with `Neighbors` 1 and two warm-up prompts, of which one may fail, there are the fit
  that succeeds and the one that raises; a second start finds what the first one left.
* GEPA: the seed, a candidate that the sealed validator passes, one whose side information
  is not clean, and one outside the allow-list; `MCPlans` are the prompt lane alone, two shadow
  runs on one ledger, and the defense lane followed by the one without a gate.
* Vault: `MCJobs` has an import that is approved and may be replayed on the local target, one
  approved for a live target with the override and one without, two whose reviewers do not
  count, and a redacted one; three texts tell the approved one, another approved one and one
  never approved.
* Personas: batches of 2 and of 3 for profiles of up to three layers, so that a persona gets
  several layers, one, or one that another has too; the second campaign may use the plan the
  first one left; the edited plan has the least weight the code takes (0.25) and no entry
  for some layers.
* `FailuresToHalt` (3) and `FailuresToCool` (2) are the code's own constants.

The theorems hold without any of these bounds.

## Fairness

`FairSpec` of the daemon assumes that a running daemon takes its next step (an
event loop that runs nothing else) and that the clock passes the 60 seconds of
the heartbeat and the cooldown's deadline.  Nothing is assumed of the operator,
except in `DaemonLive`: an operator who keeps trying `research resume`.

The index assumes that a process inside `append()` goes on; since the kernel
drops the lock of the dead, and the lock is held only on the way to a write,
weak fairness is enough.

`FairSpec` of promotion assumes that runs go on, and that a daemon that finds an
interrupted promotion resumes it, which is what `run_once` does first in every
pass.

`FairSpec` of a campaign assumes that the event loop runs the nodes of the graph, that a
worker whose runner has returned ends, and that the deadline of `asyncio.wait_for`
fires.  It assumes nothing of a provider that an attack worker calls: this is what
the deadline is for.  Of the judge's and the defense worker's calls, which have none, it
assumes that they return.

`MonitorFairness` is about `LoopEnds`, `Cancelled`, `Shutdown` and `TaskCancelled`,
the steps of an ending that wait for no provider.

## Proofs

Each `*Proofs` module states inductive invariants, shows that they hold
initially and that every action keeps them, one lemma per action or kind of
action, and derives the properties.

`ResearchDaemonProofs` (from `ConstantsAssumption`): `IInv` adds to the
properties that every *copy* of the state that a process will write back is
justified, and that a promotion under way is of an approved proposal; without
the first, a stop command could write an unjustified halt back.  `TheWaitIsKept` has the
hypothesis `OneDaemon`, for `MutualExclusion` fails.  Its invariant is `WaitInv`: while the file
says `awaiting_review` the daemon is not at work, and what it saves later waits as well; one
lemma says of every action where the daemon is after it (`Movements`, `Control`).

`PromotionProofs` (from `IndexAssumption` and `PromotionAssumption`) is about the memory index
and about promotion, which writes to it.  Of the index, `IndexInv` says that who is past
the duplicate check holds the lock and its trace is still unrecorded, and that
who is about to write a record finds its clause in `MEMORY.md`.  From it:
`IndexImplementsLog`, the refinement.  `OnlyActiveInjected` and `NoGuardrailLost`
are about behaviours up to the first death of a process (`crashes = 0`), for after
one they are false; their invariant is `CalmInv`.

The proofs about promotion reuse the lemmas about the
index, one for each of its steps, and follow a trace through `Inv`: the
validation a run holds in memory passed the gates; what it will write, and what
`append()` is writing for it, was cleared for its approved proposal; what it
counts as written is active.  `PromotionKeepsBoundary` maps every step to a step
of `PromotionBoundary` or to none; that an activation happens *once* comes from the
lock of the index.  `CoverInv` follows the traces that are *not* there yet: a validation,
on disk or in the hands of a run, lists every eligible trace of its proposal, and each of them
is still ahead of the run, or under way, or kept (recorded, noted or a canary); what is kept stays
kept, whichever run put it there.

`SourceMutationProofs` (from `MutationAssumption`): `Inv` adds to `Undoable` which
artifacts are on disk at each step of a call; the order in which
`generate_and_apply()` writes them is what makes `Apply` and `Rewrite` safe.  One
lemma covers each kind of step: artifacts, tree, call, operator.  `PatchInv` (a patch
is its file before and after, and a call that will write a file holds the text that is there,
or lost a race with an edit) gives `EditsSurvive`.  `WorkflowInv` gives the two properties of
the daemon's workflow: as long as it is followed, at most one mutation lies over the last
commit, the newest, whichever candidate the daemon takes for it (`TopInv`); a call that is
about to apply finds nothing in its way (`StepsInv`); and while a review is due nothing runs, and
every file is as it was tested or as a human left it (`PendingInv`).

`ResearchBatchProofs` (from `BatchAssumption`): `Inv` says where each campaign is -- in one
row, or in one checkpoint and perhaps in the hands of the cycle that loaded it
(`PlaceInv`); that what a cycle has run is counted or in its hands
(`EvidenceInv`); and that a row that is about to be written has no checkpoint left.  A lemma
per action says what the step moves, a lemma per part of the invariant that no step breaks it.
`BatchInv` says that saved and held campaigns are of different objectives of their own
batch, and that a cycle holds all of the checkpoint it resumed: so the next objective is none of
the saved ones, and a finished batch has them all, which is what its row keeps
(`RowsAreWhole`).  `ControlGate` is only model-checked: its standard deviations are beyond
the provers.

`CampaignProofs` (from `SendAssumption` and `SuiteAssumption`) has three invariants,
one for each part of the composition.  `SendsInv` says of each coroutine which requests may
have come past which guard, so that a delivered message was not one to be
contained; `DefenseInv` that the cases replayed so far are a prefix of the suite and that each
is what its outcome says (`Consistent`); `DegradedInv` follows the
evidence of a failure from the outputs of the workers through the counters into the report,
where `broken` is empty at every stage if and only if there is no such evidence.
`RecordInv` says where in a send its record is written, and that no other step writes one: every
record is of a send that came that far, once.  `LostInv` says that each
worker that ended left one output, that from the barrier on the counters are the lengths of
what was merged, and that verdicts come in the order of the results.

`AttackProofs` (from `AttackAssumption` and an assumption per algorithm, which say of the
settings that they are natural numbers, and positive where the model leaves an empty search
out) has an invariant per algorithm.  `CresHistoryInv` says of every turn at which level and
with which history it was asked.  `MctsInv` says that the nodes are a tree in the order they
were made (`MctsTree`) and that the visits of a node are those of its children and its own
(`MctsCounts`); expansion adds nodes without visits, backpropagation changes the sums of the
nodes on one path, and a node's rollout is the one of its parent's first child.  `TapInv` says
what is known of the nodes at each step of a depth: the queue is the unpruned leaves, each
once; a node that is asked is below answered nodes only; no answered, unpruned node has
reached the threshold while the search goes on.  So the best of them is the one whose path the
judge gets (`TheBest`).  `QueriesInv` counts what was sent against what is left: turns, attempts,
simulations times children and rollout turns, and for TAP the branches of all depths so far,
where at most `TreeWidth` leaves are kept.

`FoldProofs` is what those proofs need of folds and no library states.  The library's
induction theorems take an operator as a parameter, which the provers cannot instantiate;
`NaturalsAreIn` and `SubsetsAreIn` say the same of *sets* (a set of naturals that has 0 and,
with a number, the next one, has them all) and follow from the well-foundedness of `<`, which
takes none.  From them: the functions that the folds of the community modules choose exist
(`SumTable`), so `SumFunctionOnSet` is the sum, whatever the order of the members (`SumOf`,
`SumSame`, `SumChange`, `SumOrder`); a finite set in a linear order can be listed in that order
(`LinesCanBeSorted`), so `Ranked` is the sorted list; a recursive function on an interval exists
(`StepsExist`).

`IndependentProofs` is about the parts that share no state with the others.  Of the vault
(from `VaultAssumption`), `VaultInv` says that the seed file of a
fixture is only ever written by an import that was signed for it (`SeedFiles`,
`SeedImports`), that a manifest names a file of its own fixture, and that a replay under way
reads that file.  The digests play no part in that argument; they do in the second one:
`ReadyInv` says that a readable manifest passed its own gate when it was built and lies
where its fixture's belongs, so that the inventory, which trusts the manifest, and the
replay, which checks it again, ask the same of it.
Of authorization (from `InputAssumption`), `EngineInv` says that the answer is
`Decide` of the question under the policies, and the three theorems are about
`Decide`, for every set of actions and every set of policy lists.  `DenialIgnoresOrder`
compares every two lists of the same policies: each rule but the last choice between
grants asks whether *some* policy of the list says something (`OrderIsUnseen`).
`TrustMonotone`, that a less trusted action never gets more, is in no run.
Of the personas (from `PersonaAssumption`: the fields have different layers and the layers
different names, and an edited plan has a weight for each layer it names, the bound of the
loader's schema), `BatchInv` says that the shares of a batch under way have every layer of
the profile (`Shared`) and that each persona generated so far has its share (`Covered`).
`SharesAreDealt` is why, for every plan: both orders list all the layers (`LinesCanBeSorted`),
a weight of 0.25 still deals one (`RepeatsOnce`), position `k` falls to persona `k % n`, and a
persona that gets none takes one that another has.
Of the monitor (from `MonitorAssumption`: finitely many answers, and a threshold that is one,
at most 100, which the settings do not bound), nothing has to be carried from step to step but
the shape of the store and of the tasks (`MonitorInv`); the argument is about the scores.
`AlikeScores100` says that a canary that was always answered alike scores 100, since `n`
equal answers have `n * (n - 1)` equal pairs, and `AlertsNeedTwoAnswers` that the index is 100
when every canary does.
Of GEPA (from `CandidateAssumption`: finitely many candidates and objectives, and a campaign
that measures a rate and a score), `GepaInv` carries that the best candidate is the best
average of the pool until the frontier is written (`BestInv`) and what a shadow candidate has
left on the disk by each of its steps (`ShadowInv`).  That a frontier loses nothing is
`FrontierCovers` (of those that beat a candidate, the one with the highest total is beaten by
none) and `FrontierHasBest`; that it has the candidate the gate let through is
`BestIsOnFrontier` (who beats it would have a higher average); that its weights add up is
`WeightsAddUp`, the sum by members turned into a sum by objectives, where the leaders of each
divide one share without a rest.

Also proved, and not in a run because they are types or parts of what a run checks:
the type invariants, `OnlyStrongActive` of promotion, `CountedOnce` of the batches,
`InjectsOnlyActive` of the loader, `BatchesFit`.

Some proofs did not go through at first, and for good reasons.
`SendsAreRecorded` asked for a record of every send the controlled adapter refuses;
`adapters/controlled.py` records nothing for a legacy target.  `ReadyIffReplayable` needs what
`VaultAssumption` now says of the fixtures' strategy and risk, which the
parser of the source fixes.  `HistoryIsTheEscalatedTurns` had the level of a turn equal to the
number of escalated turns before it; it stops at five, which three turns do not reach.  An
MCTS exchange is two sends, either of which may raise, and was counted as one; a Crescendo run
with no turns ends as a dry run does.

Only model-checked: every liveness property (fairness and `ENABLED` are beyond
the prover), and `ControlGate`.

## What the code does not keep

Three of the checked runs end in a counterexample; each contradicts a statement of
the repository that `PROJECT.json` quotes.

| Run | Property | What happens |
|---|---|---|
| DaemonExclusive | `MutualExclusion` | check and write of the lock are two steps (`research/daemon_runtime.py:53-67`): two daemons both find it free; and a daemon that does not beat for a minute loses its lock while it runs |
| BatchMeasured | `MeasuredOnItsTree` | the daemon runs the campaigns of its second proposal on the attack modules that it imported for the first one (`research/baseline.py:47`) |
| MonitorFatal | `ToleratesProbeFailures` | one failed warm-up probe leaves as many samples as neighbours, the fit of the baseline raises outside the tolerant loop (`telemetry/drift.py:56`), and every later start ends the same way |

The properties below are stated in the modules and violated as well.  To
reproduce one, put it in the place of the properties of the configuration (with
`CHECK_DEADLOCK FALSE`), and give the constants in brackets the values there.
`CampaignScope.cfg` has the last one in it already.

| Configuration | Property | What happens |
|---|---|---|
| ResearchDaemonExclusive.cfg | `ReviewGate` | a stop request hides `awaiting_review` from `run_once` |
| ResearchDaemonExclusive.cfg | `StaleMeansDead` | the heartbeat is written at the end of a step only |
| ResearchDaemonExclusive.cfg | `HaltFreezesTree` | the loop goes on after `halted` |
| ResearchDaemonExclusive.cfg (`{d1}`, `{p1, p2}`, the operator's `promote` as well, 1 crash) | `ResumesTheInterrupted` | the latest proposal is promoted, not the interrupted one |
| ResearchDaemonStop.cfg | `StopStops` | a step that completes overwrites the stop request |
| Services.cfg | `OnlyActiveGuardrails` | a crash between the files, and the legacy fallback injects a candidate |
| PromotionBeside.cfg | `AuditComplete` | a repeated run does not list what the dead one wrote |
| PromotionBeside.cfg | `SuccessMeansActive` | a dry run's result stands in for the real promotion |
| PromotionBeside.cfg | `OnlyIntendedActive` | a crashed dry run is resumed for real |
| PromotionPair.cfg | `OnlyLinkedRecords` | no eligible traces means all of them |
| SourceMutationSafety.cfg | `RevertsTheMostRecent` | the latest candidate is the one whose random name sorts last |
| ResearchBatchSafety.cfg | `CountedIsEligible` | a batch resumed after a crash counts breaches whose traces are not eligible |
| ResearchBatchSafety.cfg (`Three` for both packs, `WeaknessOfThree`) | `NoWorseThanABaseline` | with the operator's baseline beside the daemon's, mean and two standard deviations let a control lane pass that is worse than both |
| ResearchBatchSafety.cfg (`Three` for both packs, `WeaknessOfThree`) | `NoWorseIsAccepted` | the ledger rounds the baseline's average down, and an equal control lane is refused |
| Independent.cfg | `RetryQuotesTheRefusal` | the retry prompt quotes the score of the last accepted turn, not of the refused attempt (`core/crescendo.py:117`) |
| Independent.cfg | `EverySimulationIsScored` | a simulation that selects a leaf at the maximal depth ends there, without a reward |
| Independent.cfg | `MembersPassedControl` | only the best candidate is run on the control objectives, and its result admits the whole frontier (`research/gepa_frontier.py:40`) |
| Independent.cfg | `SuccessIsCredited` | the telemetry recreates the profiles of a batch without the plan that made them (`personas/outcomes.py:106`), and a jailbreak raises the weight of another persona's layers; without a plan it is credited right (`UnplannedIsCredited`) |
| Independent.cfg (`Jobs <- MCReimports`) | `SuggestedCommandsWork` | a command is suggested for a fixture of the other source, which the replay refuses |
| Independent.cfg (`Jobs <- MCReimports`) | `SentIsWhatWasHashed`, `HandoffNamesTheSent` | an import between check and use changes what a replay sends, and what it reports |
| Campaign.cfg | `ConfirmedOnly` | a result whose judge raised keeps the verdict of the attack, and gets a defense for it |
| Campaign.cfg (`ReplayPolicies <- MCDefault`) | `CandidatesAreIndexed` | `append()` may answer that it wrote nothing (a canary, a known trace), and the worker counts a validated candidate all the same |
| CampaignScope.cfg | `ScopedByBasePrompt` | records are scoped by the prompt with the clauses in it, the loader asks for the base prompt (`core/guardrail_loader.py:54`) |

Where a property fails in general and holds under an assumption, a passing run or a
proof shows the latter: `OnlyActiveInjected` until a process dies, `WaitsForTheReview` of one
daemon, `NeverStacked` and `CommitsTheTested` in the daemon's workflow; and the boundary and
the strength of the evidence hold in spite of all of them.  All of these are proved.

## Not modelled

* Of the parts above: torn JSON files of the daemon and of promotion (artifacts are
  written in place, not renamed; the vault has them); the crash gap of the research memory,
  which is a set in `Promotion`; concurrent research cycles, and a baseline that the operator
  runs during one; the experiment batches of `research run` and the cycles of `research
  supervise`, which add rows but no baselines of another kind; more than one command of the
  operator, and more than one mutation call, at a time; the contents of templates, the allow-list of target files and
  the text scan of the phase 6 validator (a candidate passes or is rejected);
  `research phase3 start`, which branches.
* Of a campaign: its planning node, the transcript and the report files,
  runtime budgets, the agentic review (`orchestration/agentic_security_runtime.py`) and the
  reports of canary flow: they are computed from finished results and change nothing that
  another part reads.
* Of the adapters: building the targets.  Of telemetry: the statistics, the ARIMA
  forecast.  Of the benchmarks: scoring, and the
  campaigns of a suite, which are sequential.
* Consolidation: it appends only for log entries with a `full_result`
  (`memory/consolidation.py:150`), which no log that the program writes has.
* Whole parts: launch readiness, reporting and exporters, configuration.  They
  are passes over given data that keep no state.  Rubrics, prompts, report
  formats and the dashboard are data or presentation.

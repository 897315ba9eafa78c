---------------------------- MODULE ResearchBatch ----------------------------
(***************************************************************************)
(* The research cycle behind a proposal (research/phase3.py, supervisor.py,*)
(* baseline.py, checkpoints.py, ledger.py, calibration.py, history.py): a  *)
(* baseline where there is none yet, then one batch of campaigns per lane, *)
(* each resumed from its checkpoint, counted in a row of results.tsv, and  *)
(* judged against the control limit that the baselines set.  The daemon    *)
(* repeats it on one mutation after another; it crashes or fails anywhere. *)
(* Between its cycles the operator records baselines of his own.           *)
(*                                                                         *)
(* A campaign is its number.  Its score is whether the target was breached;*)
(* a breach may leave a validated defense, whose trace goes to the research*)
(* memory.  The limits on the attack success rate and on the score work    *)
(* alike, and a breach stands for both.  One batch runs at a time.         *)
(***************************************************************************)
EXTENDS Naturals, Sequences, FiniteSets, SequencesExt, FiniteSetsExt

CONSTANTS
  Benchmark,    \* the slugs of config.benchmark_objectives, in order
  Experiment,   \* the slugs of config.experiment_objectives, in order
  LaneSize,     \* objectives of the offense and of the regression lane
  Scale,        \* the decimals of an average: 10^6 for six of them
  ConfigLimit,  \* config.control_max_average_asr, in the units of Scale
  None,
  OutcomesOf,   \* the outcomes explored of an objective's campaigns
  MaxCycles,    \* bound on the cycles explored
  MaxInterruptions  \* bound on the crashes and exceptions explored

Lanes == <<"offense", "regression", "control">>
\* "baseline" is that of a cycle, "phase1" that of `research baseline` (and of
\* `research run --baseline-first`); each has a checkpoint of its own.
Batches == ToSet(Lanes) \cup {"baseline", "phase1"}
Slugs == ToSet(Benchmark) \cup ToSet(Experiment)
Outcomes == {"blocked", "breached", "defended"}

ASSUME BatchAssumption ==
  /\ Benchmark \in Seq(Slugs) /\ Experiment \in Seq(Slugs)
  /\ IsInjective(Benchmark) /\ IsInjective(Experiment) /\ Benchmark # <<>>
  /\ LaneSize \in Nat \ {0} /\ Scale \in Nat \ {0} /\ ConfigLimit \in Nat
  /\ OutcomesOf \in [Slugs -> SUBSET Outcomes]
  /\ MaxCycles \in Nat /\ MaxInterruptions \in Nat

VARIABLES
  tree,         \* the mutation that was applied last
  dirty,        \* it is neither committed nor reverted
  imported,     \* the mutation in the modules that the daemon's process runs, or None
  made,         \* the campaigns so far
  checkpoints,  \* checkpoints/phase1-baseline.json and phase2-*.json
  ledger,       \* results.tsv
  ranked,       \* ObjectiveHistoryAnalyzer.rank() of that ledger
  registry,     \* baseline_registry.json: the control limit, or None
  cycle,        \* the cycle under way
  proposals,    \* the proposals, in the order of their times
  cycles, interruptions

diskVars == <<checkpoints, ledger, ranked, registry>>
treeVars == <<tree, dirty, imported>>
boundVars == <<cycles, interruptions>>
vars == <<treeVars, made, diskVars, cycle, proposals, boundVars>>

NoCycle == [pc |-> "idle", before |-> 0, lanes |-> [l \in ToSet(Lanes) |-> <<>>],
            todo |-> <<>>, done |-> <<>>, limit |-> None,
            summaries |-> [l \in ToSet(Lanes) |-> <<>>]]

Init ==
  /\ tree = 0
  /\ dirty = FALSE
  /\ imported = None
  /\ made = <<>>
  /\ checkpoints = [b \in Batches |-> None]
  /\ ledger = <<>>
  /\ ranked = <<>>
  /\ registry = None
  /\ cycle = NoCycle
  /\ proposals = <<>>
  /\ cycles = 0
  /\ interruptions = 0

-----------------------------------------------------------------------------
SlugsOf(campaigns) == [i \in DOMAIN campaigns |-> made[campaigns[i]].slug]

\* The traces in the research memory are those of the defended campaigns.
Traces == {c \in DOMAIN made : made[c].outcome = "defended"}

Breaches(campaigns) == Cardinality({i \in DOMAIN campaigns : made[campaigns[i]].outcome # "blocked"})

\* _pick: the ranked slugs of the pool, then the rest of it in its own order.
Pick(ranking, pool, count) ==
  LET ordered == SelectSeq(ranking, LAMBDA s : s \in ToSet(pool))
      rest == SelectSeq(pool, LAMBDA s : s \notin ToSet(ordered))
      all == ordered \o rest
  IN SubSeq(all, 1, IF count < Len(all) THEN count ELSE Len(all))

\* _dynamic_lanes
DynamicLanes ==
  LET offense == Pick(ranked, Experiment, LaneSize)
      remaining == SelectSeq(Experiment, LAMBDA s : s \notin ToSet(offense))
      pool == IF remaining = <<>> THEN Experiment ELSE remaining
  IN [l \in ToSet(Lanes) |-> CASE l = "offense" -> offense
                               [] l = "regression" -> Pick(ranked, pool, LaneSize)
                               [] l = "control" -> Benchmark]

Counted == UNION {ToSet(ledger[i].campaigns) : i \in DOMAIN ledger}

\* The rows whose mode is "baseline".
BaselineRows == {i \in DOMAIN ledger : ledger[i].batch \in {"baseline", "phase1"}}

\* The average of a row, rounded to the ledger's decimals.
Average(row) == (2 * Scale * Breaches(row.campaigns) + Len(row.campaigns)) \div (2 * Len(row.campaigns))

\* The mean plus two standard deviations of the averages of these rows, in the
\* units of Scale: the root is that of n^2 times the variance of 2x.
TwoDeviations(rows) ==
  LET n == Cardinality(rows)
      sum == MapThenSumSet(LAMBDA i : Average(ledger[i]), rows)
      squares == MapThenSumSet(LAMBDA i : Average(ledger[i]) * Average(ledger[i]), rows)
      root == Max({k \in 0..(n * Scale) : k * k <= 4 * (n * squares - sum * sum)})
  IN (sum + root) \div n

\* The limit that the rows set: the 95th percentile is no more than their maximum.
LimitOf(rows) ==
  Max({ConfigLimit, TwoDeviations(rows)} \cup {Average(ledger[i]) : i \in rows})

\* Mutant of Calibration: derived anew, and from the rows of every mode.
CalibrationOfLedger == IF ledger = <<>> THEN None ELSE LimitOf(DOMAIN ledger)

\* load_calibration: the registry, or what the baselines in the ledger give, or
\* nothing.
Calibration ==
  IF registry # None THEN registry ELSE IF BaselineRows = {} THEN None ELSE LimitOf(BaselineRows)

Batch == Head(cycle.todo)
Objectives == IF Batch \in ToSet(Lanes) THEN cycle.lanes[Batch] ELSE Benchmark

-----------------------------------------------------------------------------
AwaitsReview == proposals # <<>> /\ Last(proposals).status = "pending"

\* The daemon mutates a clean tree and goes on from a dirty one.  phase3.run_cycle
\* ranks, assigns the lanes, notes which traces are known; the supervisor loads
\* the calibration.
Begin ==
  /\ cycle.pc = "idle"
  /\ cycles < MaxCycles
  /\ ~AwaitsReview
  /\ cycles' = cycles + 1
  /\ tree' = IF dirty THEN tree ELSE tree + 1
  /\ dirty' = TRUE
  /\ registry' = Calibration
  /\ cycle' = [NoCycle EXCEPT
       !.pc = "load", !.before = Len(made), !.lanes = DynamicLanes, !.limit = Calibration,
       !.todo = IF BaselineRows = {} THEN <<"baseline">> \o Lanes ELSE Lanes]
  /\ UNCHANGED <<imported, made, checkpoints, ledger, ranked, proposals, interruptions>>

\* `research baseline`: the benchmark in a process of its own, and one row.
OperatorBaseline ==
  /\ cycle.pc = "idle"
  /\ cycles < MaxCycles
  /\ cycles' = cycles + 1
  /\ cycle' = [NoCycle EXCEPT !.pc = "load", !.before = Len(made), !.todo = <<"phase1">>]
  /\ UNCHANGED <<treeVars, made, diskVars, proposals, interruptions>>

\* Mutant of Resumable: whatever the batch was about.
ResumableAny(checkpoint) == checkpoint # None

\* Mutant of Resumable: only where something is left to do.
ResumableUnfinished(checkpoint) ==
  /\ checkpoint # None
  /\ checkpoint.objectives = Objectives
  /\ Len(checkpoint.campaigns) < Len(Objectives)

\* _load_checkpoint: an existing one counts if it is about the same objectives.
Resumable(checkpoint) == checkpoint # None /\ checkpoint.objectives = Objectives

LoadCheckpoint ==
  /\ cycle.pc = "load"
  /\ cycle' = [cycle EXCEPT !.pc = "run", !.done =
       IF Resumable(checkpoints[Batch]) THEN checkpoints[Batch].campaigns ELSE <<>>]
  /\ UNCHANGED <<treeVars, made, diskVars, proposals, boundVars>>

\* The places of the objectives that are not completed.
Missing == {i \in 1..Len(Objectives) : Objectives[i] \notin ToSet(SlugsOf(cycle.done))}

\* run_objective of the first of them; the campaign has written its traces when
\* it returns.  The daemon runs it in its own process, on the attack modules that
\* it imported for its first campaign and never reloads; the operator's command
\* imports them anew.
RunObjective ==
  /\ cycle.pc = "run"
  /\ Missing # {}
  /\ LET slug == Objectives[Min(Missing)]
         code == IF Batch = "phase1" \/ imported = None THEN tree ELSE imported
     IN /\ \E outcome \in OutcomesOf[slug] :
             made' = Append(made, [slug |-> slug, code |-> code, outcome |-> outcome])
        /\ imported' = IF Batch = "phase1" THEN imported ELSE code
  /\ cycle' = [cycle EXCEPT !.pc = "save"]
  /\ UNCHANGED <<tree, dirty, diskVars, proposals, boundVars>>

SaveCheckpoint ==
  /\ cycle.pc = "save"
  /\ LET done == Append(cycle.done, Len(made)) IN
       /\ checkpoints' = [checkpoints EXCEPT ![Batch] = [objectives |-> Objectives, campaigns |-> done]]
       /\ cycle' = [cycle EXCEPT !.pc = "run", !.done = done]
  /\ UNCHANGED <<treeVars, made, ledger, ranked, registry, proposals, boundVars>>

\* The summary is made and the checkpoint is removed, before the row is written.
FinishBatch ==
  /\ cycle.pc = "run"
  /\ Missing = {}
  /\ checkpoints' = [checkpoints EXCEPT ![Batch] = None]
  /\ cycle' = [cycle EXCEPT !.pc = "append"]
  /\ UNCHANGED <<treeVars, made, ledger, ranked, registry, proposals, boundVars>>

\* The slugs that rank() finds in the rows of lanes, in an order that depends on
\* their scores.
RankedSlugs(rows) ==
  UNION {ToSet(SlugsOf(rows[i].campaigns)) : i \in {j \in DOMAIN rows : rows[j].batch \in ToSet(Lanes)}}

AppendRow ==
  /\ cycle.pc = "append"
  /\ ledger' = Append(ledger, [batch |-> Batch, objectives |-> Objectives, campaigns |-> cycle.done])
  /\ \/ /\ Batch = "phase1"
        /\ cycle' = NoCycle
        /\ UNCHANGED ranked
     \/ /\ Batch = "baseline"
        /\ cycle' = [cycle EXCEPT !.pc = "calibrate"]
        /\ UNCHANGED ranked
     \/ /\ Batch \in ToSet(Lanes)
        /\ cycle' = [cycle EXCEPT !.pc = IF Len(cycle.todo) > 1 THEN "load" ELSE "decide",
                                  !.todo = Tail(@), !.summaries[Batch] = cycle.done]
        /\ ranked' \in SetToSeqs(RankedSlugs(ledger'))
  /\ UNCHANGED <<treeVars, made, checkpoints, registry, proposals, boundVars>>

\* The control limits of the first baseline are there for its own cycle.
Calibrate ==
  /\ cycle.pc = "calibrate"
  /\ registry' = Calibration
  /\ cycle' = [cycle EXCEPT !.pc = "load", !.limit = Calibration, !.todo = Tail(@)]
  /\ UNCHANGED <<treeVars, made, checkpoints, ledger, ranked, proposals, boundVars>>

\* The control lane's own average is not rounded, and the configured limit stands
\* in for a missing calibration.
Within(campaigns, limit) == Scale * Breaches(campaigns) <= limit * Len(campaigns)

ControlOk ==
  Within(cycle.summaries["control"], IF cycle.limit = None THEN ConfigLimit ELSE cycle.limit)

\* Mutant of Eligible: the traces that are there.
EligibleAll == Traces

\* _proposal_trace_ids: the traces that were not known before the cycle.
Eligible == {c \in Traces : c > cycle.before}

\* _decide; the row of the decision is counted by nobody, and left out.
Propose ==
  /\ cycle.pc = "decide"
  /\ proposals' = Append(proposals,
       [tree |-> tree, accepted |-> ControlOk, summaries |-> cycle.summaries,
        eligible |-> Eligible, status |-> "pending"])
  /\ cycle' = NoCycle
  /\ UNCHANGED <<treeVars, made, diskVars, boundVars>>

\* The operator accepts (a commit) or rejects (a hard reset) what is pending.
Review ==
  /\ cycle.pc = "idle"
  /\ AwaitsReview
  /\ proposals' = [proposals EXCEPT ![Len(proposals)].status = "reviewed"]
  /\ dirty' = FALSE
  /\ UNCHANGED <<tree, imported, made, diskVars, cycle, boundVars>>

-----------------------------------------------------------------------------
\* An exception ends the cycle, and the daemon's failure handler reverts the
\* mutation, unless the revert fails; the operator's command just ends.
Fail ==
  /\ cycle.pc # "idle"
  /\ interruptions < MaxInterruptions
  /\ interruptions' = interruptions + 1
  /\ cycle' = NoCycle
  /\ dirty' \in IF cycle.todo = <<"phase1">> THEN {dirty} ELSE {FALSE, dirty}
  /\ UNCHANGED <<tree, imported, made, diskVars, proposals, cycles>>

\* The next daemon is a new process.
Crash ==
  /\ cycle.pc # "idle"
  /\ interruptions < MaxInterruptions
  /\ interruptions' = interruptions + 1
  /\ cycle' = NoCycle
  /\ imported' = IF cycle.todo = <<"phase1">> THEN imported ELSE None
  /\ UNCHANGED <<tree, dirty, made, diskVars, proposals, cycles>>

\* The daemon was stopped and is started again.
Restart ==
  /\ cycle.pc = "idle"
  /\ imported # None
  /\ imported' = None
  /\ UNCHANGED <<tree, dirty, made, diskVars, cycle, proposals, boundVars>>

\* The daemon polls.
Poll == cycle.pc = "idle" /\ UNCHANGED vars

Next ==
  \/ Begin
  \/ OperatorBaseline
  \/ LoadCheckpoint
  \/ RunObjective
  \/ SaveCheckpoint
  \/ FinishBatch
  \/ AppendRow
  \/ Calibrate
  \/ Propose
  \/ Review
  \/ Fail
  \/ Crash
  \/ Restart
  \/ Poll

Spec == Init /\ [][Next]_vars

-----------------------------------------------------------------------------
Campaigns == Seq(DOMAIN made)

Checkpoint == [objectives : Seq(Slugs), campaigns : Campaigns]

Row == [batch : Batches, objectives : Seq(Slugs), campaigns : Campaigns]

Proposal == [tree : 0..tree, accepted : BOOLEAN, summaries : [ToSet(Lanes) -> Campaigns],
             eligible : SUBSET DOMAIN made, status : {"pending", "reviewed"}]

Cycle == [pc : {"idle", "load", "run", "save", "append", "calibrate", "decide"},
          before : 0..Len(made), lanes : [ToSet(Lanes) -> Seq(Slugs)], todo : Seq(Batches),
          done : Campaigns, limit : Nat \cup {None}, summaries : [ToSet(Lanes) -> Campaigns]]

\* Every file and the cycle in memory hold values of their types.
TypeOK ==
  /\ tree \in Nat /\ dirty \in BOOLEAN /\ imported \in Nat \cup {None}
  /\ made \in Seq([slug : Slugs, code : 0..tree, outcome : Outcomes])
  /\ checkpoints \in [Batches -> Checkpoint \cup {None}]
  /\ ledger \in Seq(Row)
  /\ ranked \in Seq(Slugs)
  /\ registry \in Nat \cup {None}
  /\ cycle \in Cycle
  /\ proposals \in Seq(Proposal)
  /\ cycles \in 0..MaxCycles /\ interruptions \in 0..MaxInterruptions

\* No campaign is counted twice, however often its batch was resumed: the rows
\* from which objectives are ranked and limits derived are disjoint.
CountedOnce == \A i \in DOMAIN ledger :
  /\ IsInjective(ledger[i].campaigns)
  /\ \A j \in DOMAIN ledger :
       i # j => ToSet(ledger[i].campaigns) \cap ToSet(ledger[j].campaigns) = {}

Named(objectives) == {objectives[k] : k \in 1..Len(objectives)}

\* However its batch was interrupted, dealt anew and resumed, a row is about one
\* campaign per objective of the batch: its average is one over the whole batch.
WholeBatches == \A i \in DOMAIN ledger :
  /\ IsInjective(SlugsOf(ledger[i].campaigns))
  /\ ToSet(SlugsOf(ledger[i].campaigns)) = Named(ledger[i].objectives)

BaselineAverages == {Average(ledger[i]) : i \in BaselineRows}

\* A proposal is recommended only if its control lane keeps to the configured
\* limit, or is no further above the worst baseline than the baselines in the
\* ledger lie apart, whoever recorded them and when.
ControlGate == \A i \in DOMAIN proposals :
  proposals[i].accepted =>
    \/ Within(proposals[i].summaries["control"], ConfigLimit)
    \/ /\ BaselineRows # {}
       /\ Within(proposals[i].summaries["control"], 2 * Max(BaselineAverages) - Min(BaselineAverages))

\* A trace that is eligible for promotion comes from a campaign that a row
\* counts, and is so in one proposal only: what a dead or failed cycle left in
\* the research memory is nobody's evidence.
EvidenceIsCounted == \A i \in DOMAIN proposals :
  /\ proposals[i].eligible \subseteq Counted
  /\ \A k \in DOMAIN proposals : i # k => proposals[i].eligible \cap proposals[k].eligible = {}

\* What a checkpoint of the same objectives has completed is not run again.
SavedWorkCounts ==
  [][made' # made /\ checkpoints[Batch] # None /\ checkpoints[Batch].objectives = Objectives
       => Last(made').slug \notin ToSet(SlugsOf(checkpoints[Batch].campaigns))]_vars

\* What SourceMutationHarness says of a cycle, "generate one source mutation, then
\* evaluate it": whatever a proposal counts was measured on the mutation that the
\* proposal is about.
MeasuredOnItsTree == \A i \in DOMAIN proposals, l \in ToSet(Lanes) :
  \A c \in ToSet(proposals[i].summaries[l]) : made[c].code = proposals[i].tree

\* A recommended control lane did no worse than some baseline, or keeps to the
\* configured limit; the two standard deviations allow for more.
NoWorseThanABaseline == \A i \in DOMAIN proposals :
  proposals[i].accepted =>
    \/ Within(proposals[i].summaries["control"], ConfigLimit)
    \/ \E j \in BaselineRows :
         Breaches(proposals[i].summaries["control"]) <= Breaches(ledger[j].campaigns)

\* The breaches that a proposal counts are eligible with it; those of a batch
\* that was resumed after a crash are not.
CountedIsEligible == \A i \in DOMAIN proposals, l \in ToSet(Lanes) :
  ToSet(proposals[i].summaries[l]) \cap Traces \subseteq proposals[i].eligible

\* A control lane that did no worse than the baseline is within the limits; but
\* those come from the ledger, which rounds down as well as up.
NoWorseIsAccepted == \A i \in DOMAIN proposals :
  (\E j \in BaselineRows :
     Breaches(proposals[i].summaries["control"]) <= Breaches(ledger[j].campaigns))
  => proposals[i].accepted

=============================================================================

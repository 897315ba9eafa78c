-------------------------------- MODULE Gepa --------------------------------
(***************************************************************************)
(* The GEPA lanes of research/: three spikes that hand an adapter to the   *)
(* external optimizer, take its best candidate and write their artifacts   *)
(* (prompt profiles with a Pareto frontier, defense prompts, source        *)
(* templates), and the dependency-free shadow harness.  One lane runs at a *)
(* time; a run may raise or be killed anywhere and be started again over   *)
(* the files of the run before.                                            *)
(*                                                                         *)
(* A candidate is what it sets its components to.  Rates are in halves,    *)
(* judge scores whole, an objective's score in fiftieths.                  *)
(***************************************************************************)
EXTENDS Integers, Sequences, FiniteSetsExt, Functions

CONSTANTS Candidates,  \* the components the optimizer may propose
          Seed,        \* the prompts in place
          Stray,       \* candidates that set a component off the allowlist
          Sealed,      \* candidates the sealed defense validator passes
          Leaky,       \* shadow candidates whose side information is not clean
          Train, Val, Control,  \* objective slugs of the three splits
          Results,     \* what a campaign may measure
          MaxAsr, MaxScore,     \* control_max_average_asr, control_max_average_score
          Budget,      \* max_metric_calls, max_candidates
          Plans        \* bound: the lanes run one after another

ASSUME CandidateAssumption ==
    /\ Seed \in Candidates
    /\ Stray \subseteq Candidates /\ Seed \notin Stray
    /\ IsFiniteSet(Candidates) /\ IsFiniteSet(Train) /\ IsFiniteSet(Val)
    /\ Results \subseteq [asr : Nat, score : Nat]

VARIABLES spike,    \* the run in progress
          pool,     \* val_aggregate_subscores: candidate -> objective -> score
          disk      \* autoresearch/runtime/gepa

gepaVars == <<spike, pool, disk>>

Lanes   == {"prompt", "defense", "source", "shadow"}
NoPool  == [c \in {} |-> [o \in Val |-> 0]]

Off == [lane |-> "none", at |-> "off", calls |-> 0, best |-> Seed, gate |-> FALSE,
        scores |-> [o \in Train |-> 0], plan |-> <<>>]

GepaInit ==
    /\ \E plan \in Plans : spike = [Off EXCEPT !.plan = plan]
    /\ pool = NoPool
    /\ disk = [snapshots |-> {}, sideInfo |-> {}, files |-> {}, ledger |-> {},
               frontier |-> [of |-> NoPool, members |-> {}, weights |-> [c \in {} |-> 0],
                             best |-> Seed, gate |-> FALSE],
               summary |-> [lane |-> "none", best |-> Seed, gate |-> FALSE],
               source |-> "clean"]

-----------------------------------------------------------------------------
(* gepa_score.py, gepa_pareto.py                                           *)

\* normalize_objective: 0.6 of the rate and 0.4 of the score over five
Normalize(r) == 15 * Min({r.asr, 2}) + 4 * Min({r.score, 5})

Total(f) == SumFunction(f)

\* _evaluate_control and control_gate_passed: the averages of no result are 0.
ControlHolds(m) ==
    /\ Total([o \in DOMAIN m |-> m[o].asr]) <= MaxAsr * Cardinality(DOMAIN m)
    /\ Total([o \in DOMAIN m |-> m[o].score]) <= MaxScore * Cardinality(DOMAIN m)

Axis(f, slug) == IF slug \in DOMAIN f THEN f[slug] ELSE 0

\* dominates: a missing axis counts as 0.
Dominates(f, g) ==
    LET slugs == DOMAIN f \cup DOMAIN g
    IN /\ \A s \in slugs : Axis(f, s) >= Axis(g, s)
       /\ \E s \in slugs : Axis(f, s) > Axis(g, s)

\* pareto_frontier
Frontier(p) == {c \in DOMAIN p : ~ \E d \in DOMAIN p \ {c} : Dominates(p[d], p[c])}

\* objective_leaders: who of a frontier has the best score of one objective
Leaders(p, front, slug) ==
    {c \in front : \A d \in front : Axis(p[c], slug) >= Axis(p[d], slug)}

\* selection_weights: one each, and one per objective shared by its leaders.
\* In units of 1 / Share.
Share ==
    LET product[n \in 0..Cardinality(Candidates)] == IF n = 0 THEN 1 ELSE n * product[n - 1]
    IN product[Cardinality(Candidates)]
SharedLead(p, front, c, slug) ==
    IF c \in Leaders(p, front, slug) THEN Share \div Cardinality(Leaders(p, front, slug)) ELSE 0
Weights(p, front) ==
    [c \in front |->
        Share + SumFunction([s \in UNION {DOMAIN p[d] : d \in front} |-> SharedLead(p, front, c, s)])]

-----------------------------------------------------------------------------
(* The runners of the lanes: one candidate on some objectives              *)

\* The sealed validator's verdict is the same on every objective.
Verdict(c) == IF c \in Sealed THEN [asr |-> 2, score |-> 5] ELSE [asr |-> 0, score |-> 0]

\* A campaign under the candidate's profile snapshot measures anything, and so
\* may the table of a source template's family be filled.
Measures(lane, c, slugs) ==
    IF lane = "defense" THEN {[o \in slugs |-> Verdict(c)]} ELSE [slugs -> Results]

\* assert_allowlisted, assert_defense_allowlisted, assert_source_candidate
Listed(c) == c \notin Stray

\* What a runner leaves on disk before it measures
Snapshotted(c) == [disk EXCEPT !.snapshots = @ \cup {c}]

Fails == [Off EXCEPT !.plan = spike.plan]

-----------------------------------------------------------------------------
(* The spikes: gepa_phase1, gepa_defense_phase3, gepa_source_phase4        *)

Start(lane) ==
    /\ spike.at = "off" /\ spike.plan # <<>> /\ lane = Head(spike.plan)
    /\ spike' = [Off EXCEPT !.lane = lane, !.plan = Tail(spike.plan),
                            !.at = IF lane = "shadow" THEN "proposing" ELSE "optimizing"]
    /\ pool' = NoPool
    /\ UNCHANGED disk

\* The adapter's evaluate refuses a stray candidate; the exception ends the run.
Refuse(c) ==
    /\ spike.at = "optimizing" /\ ~Listed(c)
    /\ spike' = Fails
    /\ pool' = NoPool
    /\ UNCHANGED disk

\* evaluate on a minibatch, with the redacted traces for the reflection model
Reflect(c) ==
    /\ spike.at = "optimizing" /\ spike.calls < Budget
    /\ Listed(c)
    /\ spike' = [spike EXCEPT !.calls = @ + 1]
    /\ disk' = Snapshotted(c)
    /\ UNCHANGED pool

\* evaluate on the whole validation set puts the candidate into the pool.
Validate(c) ==
    /\ spike.at = "optimizing" /\ spike.calls < Budget
    /\ Listed(c) /\ c \notin DOMAIN pool
    /\ \E m \in Measures(spike.lane, c, Val) :
          pool' = [d \in DOMAIN pool \cup {c} |->
                      IF d = c THEN [o \in Val |-> Normalize(m[o])] ELSE pool[d]]
    /\ spike' = [spike EXCEPT !.calls = @ + Cardinality(Val)]
    /\ disk' = Snapshotted(c)

\* A campaign raises in the middle of a batch; nothing on the way catches it.
RunnerFails(c) ==
    /\ spike.at \in {"optimizing", "control"} /\ spike.lane = "prompt"
    /\ Listed(c) /\ (spike.at = "control" => c = spike.best)
    /\ spike' = Fails
    /\ disk' = Snapshotted(c)
    /\ pool' = NoPool

\* gepa.optimize returns: the best candidate is the best average of the pool.
Optimized ==
    /\ spike.at = "optimizing" /\ DOMAIN pool # {}
    /\ \E c \in DOMAIN pool :
          /\ \A d \in DOMAIN pool : Total(pool[c]) >= Total(pool[d])
          /\ spike' = [spike EXCEPT !.best = c,
                                    !.at = IF spike.lane = "source" THEN "applying" ELSE "control"]
    /\ UNCHANGED <<pool, disk>>

\* The gate of a spike: control limits for prompts; for defenses evidence on
\* every control objective, and at least one.
Gate(lane, m) ==
    IF lane = "prompt" THEN ControlHolds(m)
    ELSE DOMAIN m # {} /\ \A o \in DOMAIN m : m[o].asr >= 2 /\ m[o].score >= 5

\* The best candidate, and no other, is run on the control objectives.
EvaluateControl ==
    /\ spike.at = "control"
    /\ \E m \in Measures(spike.lane, spike.best, Control) :
          spike' = [spike EXCEPT !.gate = Gate(spike.lane, m),
                                 !.at = IF spike.lane = "prompt" THEN "frontier" ELSE "summary"]
    /\ disk' = IF Control = {} THEN disk ELSE Snapshotted(spike.best)
    /\ UNCHANGED pool

\* build_frontier_payload: a failed gate clears the frontier.
Published(p, gate) == IF gate THEN Frontier(p) ELSE {}

WriteFrontier ==
    /\ spike.at = "frontier"
    /\ LET front == Published(pool, spike.gate)
       IN disk' = [disk EXCEPT !.frontier = [of |-> pool, members |-> front,
                                             weights |-> Weights(pool, front),
                                             best |-> spike.best, gate |-> spike.gate]]
    /\ spike' = [spike EXCEPT !.at = "summary"]
    /\ UNCHANGED pool

\* The source lane: no control run and no gate; the worker patches the tree,
\* or raises when the template's old text is gone.
ApplySource ==
    /\ spike.at = "applying"
    /\ \/ /\ disk' = [disk EXCEPT !.source = "patched"]
          /\ spike' = [spike EXCEPT !.at = "summary"]
          /\ pool' = pool
       \/ /\ spike' = Fails /\ pool' = NoPool
          /\ disk' = disk

WriteSummary ==
    /\ spike.at = "summary"
    /\ disk' = [disk EXCEPT !.summary = [lane |-> spike.lane, best |-> spike.best,
                                         gate |-> spike.gate]]
    /\ spike' = Fails
    /\ pool' = NoPool

-----------------------------------------------------------------------------
(* gepa_shadow.py: the harness takes the candidates as they are proposed   *)

\* run and the first half of _process.  The budget is checked before the
\* candidate is looked at; the snapshot is written before it is evaluated.
Propose(c) ==
    /\ spike.at = "proposing"
    /\ IF spike.calls >= Budget \/ ~Listed(c)
       THEN spike' = Fails /\ UNCHANGED disk
       ELSE /\ spike' = [spike EXCEPT !.at = "scoring", !.best = c, !.calls = @ + 1]
            /\ disk' = Snapshotted(c)
    /\ UNCHANGED pool

\* score_candidate: a failed gate zeroes every score.
Scored(gate, m) == [o \in Train |-> IF gate THEN Normalize(m[o]) ELSE 0]

\* The evaluations, the score and the side information.
ShadowScore ==
    /\ spike.at = "scoring"
    /\ \E m \in [Train -> Results], k \in [Control -> Results] :
          IF spike.best \in Leaky
          THEN spike' = Fails /\ UNCHANGED disk
          ELSE /\ spike' = [spike EXCEPT !.at = "recording", !.gate = ControlHolds(k),
                                         !.scores = Scored(ControlHolds(k), m)]
               /\ disk' = [disk EXCEPT !.sideInfo = @ \cup {spike.best}]
    /\ UNCHANGED pool

Row == [cand |-> spike.best, gate |-> spike.gate, scores |-> spike.scores,
        accepted |-> spike.gate /\ Total(spike.scores) > 0]

\* Mutant of ShadowFile: the row is there and the candidate's file is not.
RowWithoutFile ==
    /\ spike.at = "recording"
    /\ disk' = [disk EXCEPT !.ledger = @ \cup {Row}]
    /\ spike' = [spike EXCEPT !.at = "appending"]
    /\ UNCHANGED pool

\* The candidate's file
ShadowFile ==
    /\ spike.at = "recording"
    /\ disk' = [disk EXCEPT !.files = @ \cup {spike.best}]
    /\ spike' = [spike EXCEPT !.at = "appending"]
    /\ UNCHANGED pool

\* _append_ledger
ShadowAppend ==
    /\ spike.at = "appending"
    /\ disk' = [disk EXCEPT !.ledger = @ \cup {Row}]
    /\ spike' = [spike EXCEPT !.at = "proposing"]
    /\ UNCHANGED pool

ShadowDone ==
    /\ spike.at = "proposing"
    /\ spike' = Fails
    /\ pool' = NoPool
    /\ UNCHANGED disk

\* The process is killed.
Kill ==
    /\ spike.at # "off"
    /\ spike' = Fails
    /\ pool' = NoPool
    /\ UNCHANGED disk

GepaNext ==
    \/ \E lane \in Lanes : Start(lane)
    \/ \E c \in Candidates :
          Refuse(c) \/ Reflect(c) \/ Validate(c) \/ RunnerFails(c) \/ Propose(c)
    \/ Optimized \/ EvaluateControl \/ WriteFrontier \/ ApplySource \/ WriteSummary
    \/ ShadowScore \/ ShadowFile \/ ShadowAppend \/ ShadowDone \/ Kill

GepaSpec == GepaInit /\ [][GepaNext]_gepaVars

-----------------------------------------------------------------------------
Members == disk.frontier.members

\* The frontier a spike publishes loses nothing: each candidate that is not on
\* it is beaten everywhere by one that is, every objective's best score is on
\* it, and its selection weights hand out one share per member and objective.
FrontierIsComplete ==
    disk.frontier.gate =>
       LET of == disk.frontier.of
       IN /\ \A c \in DOMAIN of \ Members : \E d \in Members : Dominates(of[d], of[c])
          /\ \A o \in Val : \E d \in Members : \A c \in DOMAIN of : of[d][o] >= of[c][o]
          /\ Total(disk.frontier.weights) = Share * (Cardinality(Members) + Cardinality(Val))

\* A frontier is published only when the control run of one of its own members
\* held in the same run, whatever artifacts an earlier run left behind.
FrontierIsOpened ==
    Members # {} => disk.frontier.gate /\ disk.frontier.best \in Members

\* What the ledger lists is all there: snapshot, clean side information and
\* candidate file; and what it calls accepted scored on a training objective.
LedgerIsWhole ==
    \A row \in disk.ledger :
       /\ row.cand \in disk.snapshots \cap disk.sideInfo \cap disk.files
       /\ row.cand \notin Stray \cup Leaky
       /\ row.accepted => row.gate /\ \E o \in Train : row.scores[o] > 0

\* Whatever runs failed or were killed, and in whatever order, what the directory
\* holds is what a reader takes it for.
ArtifactsAreWhole == FrontierIsComplete /\ FrontierIsOpened /\ LedgerIsWhole
=============================================================================

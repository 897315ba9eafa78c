--------------------------- MODULE MaterialVault ---------------------------
(***************************************************************************)
(* The private vault of reviewed benchmark prompts (benchmarks/): the      *)
(* import of a reviewed file, the inventory that tells the operator what   *)
(* may be replayed, and the approved replay of one fixture against the     *)
(* sealed local target.  Every command is a process of its own; all of     *)
(* them share the files of one collection of the vault:                    *)
(*                                                                         *)
(*   <class>/<fixture>.txt      the text, one file per material class      *)
(*   manifests/<fixture>.json   who reviewed it, its digest, its targets;  *)
(*                              one file for both classes                  *)
(*                                                                         *)
(* A file is opened, which empties it, and then written.  A digest is      *)
(* known by the content it was taken of.                                   *)
(***************************************************************************)
EXTENDS FiniteSets, Integers

CONSTANTS
  Fixtures,       \* the fixtures of both benchmark sources
  SpiritualSpell, \* those that load_spiritual_spell_fixtures() returns
  RiskOf,         \* the risk plugin each fixture names
  StrategyOf,     \* and its strategy
  Texts,          \* what a reviewed file can hold
  Blank,          \* the reviewer name made of spaces
  Jobs,           \* what an operator asks an import for
  Targets,        \* the target ids a replay is asked for
  Importers,      \* processes that import
  Replayers       \* processes that replay

Classes == {"redacted", "approved_replay_seed"}

ASSUME VaultAssumption ==
  /\ SpiritualSpell \subseteq Fixtures
  /\ \A job \in Jobs :
       job.fixture \in Fixtures /\ job.text \in Texts /\ job.class \in Classes
  \* _record and _risk_mapping of the Spiritual Spell source
  /\ \A f \in SpiritualSpell :
       /\ StrategyOf[f] = "static_seed_replay"
       /\ RiskOf[f] \in {"system_prompt_leakage", "unsafe_tool_use", "prompt_injection"}

VARIABLES
  material,  \* the text file of a class and a fixture
  manifest,  \* the manifest of a fixture
  importer,  \* import_reviewed_material() in each importer
  replay,    \* run_approved_jailbreak_replay() in each replayer
  vouched    \* history: the texts that two reviewers approved for a fixture

vaultVars == <<material, manifest, importer, replay, vouched>>

\* A text file: all of a text, or what is there while it is written.
Whole(t) == [text |-> t, whole |-> TRUE]
Part(t)  == [text |-> t, whole |-> FALSE]
Absent   == [absent |-> TRUE]
Torn     == [torn |-> TRUE]
Readable(file) == file \notin {Absent, Torn}

Idle   == [pc |-> "idle"]
NoPlay == [pc |-> "idle", sent |-> Absent]

VaultInit ==
  /\ material = [file \in Classes \X Fixtures |-> Absent]
  /\ manifest = [f \in Fixtures |-> Absent]
  /\ importer = [i \in Importers |-> Idle]
  /\ replay = [r \in Replayers |-> NoPlay]
  /\ vouched = [f \in Fixtures |-> {}]

-----------------------------------------------------------------------------
(***************************************************************************)
(* The reviewer gates                                                      *)
(***************************************************************************)
\* Mutant of TwoReviewers: one is enough.
OneReviewer(names) == names \ {Blank} # {}

\* _validate_reviewer_gate: blank names do not count.
TwoReviewers(names) == Cardinality(names \ {Blank}) >= 2

\* validate_review_gate of the manifest model: reviewed_by counts as it is.
ManifestGate(m) ==
  m.class = "approved_replay_seed" =>
     Cardinality((m.reviewers \ {Blank}) \cup {m.by}) >= 2

\* Mutant of MaterialRef: one file for both classes.
OneMaterialRef(class, f) == <<"approved_replay_seed", f>>

MaterialRef(class, f) == <<class, f>>

-----------------------------------------------------------------------------
(***************************************************************************)
(* import_reviewed_material()                                              *)
(***************************************************************************)
\* What the command refuses before it touches the vault.
Admitted(job) ==
  /\ job.targets # {}
  /\ job.nonlocal \/ job.targets = {"local-dev"}
  /\ job.class = "approved_replay_seed" => TwoReviewers(job.reviewers \cup {job.by})

\* shutil.copyfile opens the destination and then fills it.
BeginImport(i, job) ==
  LET file == MaterialRef(job.class, job.fixture) IN
  /\ importer[i] = Idle
  /\ Admitted(job)
  /\ importer' = [importer EXCEPT ![i] = [pc |-> "copy", job |-> job]]
  /\ material' = [material EXCEPT ![file] = Part(job.text)]
  /\ vouched' = IF Cardinality((job.reviewers \cup {job.by}) \ {Blank}) >= 2
                   /\ job.class = "approved_replay_seed"
                THEN [vouched EXCEPT ![job.fixture] = @ \cup {job.text}]
                ELSE vouched
  /\ UNCHANGED <<manifest, replay>>

CopyFile(i) ==
  /\ importer[i].pc = "copy"
  /\ LET job == importer[i].job IN
     material' = [material EXCEPT ![MaterialRef(job.class, job.fixture)] = Whole(job.text)]
  /\ importer' = [importer EXCEPT ![i].pc = "digest"]
  /\ UNCHANGED <<manifest, replay, vouched>>

\* The digest is that of the file in the vault, whoever wrote it last.
BuildManifest(i) ==
  LET job == importer[i].job
      ref == MaterialRef(job.class, job.fixture)
      new == [fixture |-> job.fixture, ref |-> ref, digest |-> material[ref],
              class |-> job.class, by |-> job.by, reviewers |-> job.reviewers \cup {job.by},
              targets |-> job.targets]
  IN
  /\ importer[i].pc = "digest"
  /\ importer' = [importer EXCEPT ![i] = IF ManifestGate(new)
                                         THEN [pc |-> "open", job |-> job, new |-> new]
                                         ELSE Idle]
  /\ UNCHANGED <<material, manifest, replay, vouched>>

OpenManifest(i) ==
  /\ importer[i].pc = "open"
  /\ manifest' = [manifest EXCEPT ![importer[i].job.fixture] = Torn]
  /\ importer' = [importer EXCEPT ![i].pc = "write"]
  /\ UNCHANGED <<material, replay, vouched>>

WriteManifest(i) ==
  /\ importer[i].pc = "write"
  /\ manifest' = [manifest EXCEPT ![importer[i].job.fixture] = importer[i].new]
  /\ importer' = [importer EXCEPT ![i] = Idle]
  /\ UNCHANGED <<material, replay, vouched>>

\* The process dies: the vault stays as it is.
ImporterDies(i) ==
  /\ importer[i] # Idle
  /\ importer' = [importer EXCEPT ![i] = Idle]
  /\ UNCHANGED <<material, manifest, replay, vouched>>

-----------------------------------------------------------------------------
(***************************************************************************)
(* The plan of a replay: build_campaign_plan() and the catalogs            *)
(***************************************************************************)
\* built_in_risk_plugins: the strategies a plugin falls back to
Defaults ==
  [cross_session_data_leak     |-> {"crescendo", "static_seed_replay"},
   prompt_injection            |-> {"tap", "crescendo", "gs_mcts"},
   sensitive_data_exfiltration |-> {"pair", "crescendo", "gs_mcts"},
   system_prompt_leakage       |-> {"pair", "tap", "static_seed_replay"},
   unauthorized_action         |-> {"crescendo", "gs_mcts"},
   unsafe_tool_use             |-> {"tap", "gs_mcts", "static_seed_replay"}]

\* built_in_attack_strategies: the plugins a strategy is for
Fits ==
  [crescendo          |-> {"cross_session_data_leak", "prompt_injection",
                           "sensitive_data_exfiltration", "unauthorized_action"},
   gs_mcts            |-> {"prompt_injection", "sensitive_data_exfiltration",
                           "unauthorized_action", "unsafe_tool_use"},
   pair               |-> {"sensitive_data_exfiltration", "system_prompt_leakage"},
   static_seed_replay |-> DOMAIN Defaults,
   tap                |-> {"prompt_injection", "system_prompt_leakage", "unsafe_tool_use"}]

\* _select_strategies: the strategies of each planned risk.
Planned(risks, include) ==
  [p \in risks |-> {s \in IF include # {} THEN include ELSE Defaults[p] : p \in Fits[s]}]

\* The plan for one fixture: an unknown name and a risk that is left without a
\* strategy are errors.
PlanBuilt(f) ==
  /\ RiskOf[f] \in DOMAIN Defaults
  /\ StrategyOf[f] \in DOMAIN Fits
  /\ Planned({RiskOf[f]}, {StrategyOf[f]})[RiskOf[f]] # {}

\* _select_risk of the static runner: replay is planned for the fixture's risk.
StaticReplayPlanned(f) ==
  /\ PlanBuilt(f)
  /\ "static_seed_replay" \in Planned({RiskOf[f]}, {StrategyOf[f]})[RiskOf[f]]

-----------------------------------------------------------------------------
(***************************************************************************)
(* run_approved_jailbreak_replay()                                         *)
(***************************************************************************)
\* approve_fixture_for_replay: the fixture becomes executable as the manifest
\* says, or the replay ends.
Approves(f, m) ==
  /\ Readable(m) /\ ManifestGate(m)
  /\ m.class = "approved_replay_seed"
  /\ "local-dev" \in m.targets
  /\ TwoReviewers(m.reviewers)
  /\ m.fixture = f

\* _validate_fixture_manifest, of the approved fixture and the manifest as it
\* is read for the second time
StillMatches(f, first, m) ==
  /\ Readable(m) /\ ManifestGate(m)
  /\ m.fixture = f
  /\ m.ref = first.ref
  /\ m.class = "approved_replay_seed"
  /\ "local-dev" \in m.targets

\* Mutant of DigestMatches: the manifest was verified at the import.
DigestUnchecked(m) == material[m.ref] # Absent

DigestMatches(m) == material[m.ref] = m.digest

RefuseReplay(r) == replay' = [replay EXCEPT ![r] = NoPlay]

\* The fixture, its source, the target and the manifest are the operator's.
BeginReplay(r, f, ref, target) ==
  /\ replay[r].pc = "idle"
  /\ IF f \in SpiritualSpell /\ target = "local-dev"
     THEN replay' = [replay EXCEPT ![r] = [pc |-> "load", fixture |-> f, manifest |-> ref,
                                           sent |-> Absent]]
     ELSE RefuseReplay(r)
  /\ UNCHANGED <<material, manifest, importer, vouched>>

LoadManifest(r) ==
  LET m == manifest[replay[r].manifest] IN
  /\ replay[r].pc = "load"
  /\ IF Approves(replay[r].fixture, m)
     THEN replay' = [replay EXCEPT ![r] = [pc |-> "reload", fixture |-> replay[r].fixture,
                                           manifest |-> replay[r].manifest, first |-> m,
                                           sent |-> Absent]]
     ELSE RefuseReplay(r)
  /\ UNCHANGED <<material, manifest, importer, vouched>>

\* resolve_reviewed_material reads the manifest again.
ReloadManifest(r) ==
  LET m == manifest[replay[r].manifest] IN
  /\ replay[r].pc = "reload"
  /\ IF StillMatches(replay[r].fixture, replay[r].first, m)
     THEN replay' = [replay EXCEPT ![r] = [pc |-> "digest", fixture |-> replay[r].fixture,
                                           first |-> replay[r].first, second |-> m,
                                           sent |-> Absent]]
     ELSE RefuseReplay(r)
  /\ UNCHANGED <<material, manifest, importer, vouched>>

CheckDigest(r) ==
  /\ replay[r].pc = "digest"
  /\ IF DigestMatches(replay[r].second)
     THEN replay' = [replay EXCEPT ![r].pc = "send"]
     ELSE RefuseReplay(r)
  /\ UNCHANGED <<material, manifest, importer, vouched>>

\* The bundle of a finished replay.  The verdict is a refusal, so the regression
\* handoff has no case: it names the digest of the first manifest.
Bundle(r, text) == [pc |-> "idle", fixture |-> replay[r].fixture,
                    checked |-> replay[r].second.digest,
                    handoff |-> replay[r].first.digest, sent |-> text]

\* load_prompt_material reads the file a second time; the plan is built and
\* its one prompt goes to the local target.
SendMaterial(r) ==
  /\ replay[r].pc = "send"
  /\ IF StaticReplayPlanned(replay[r].fixture)
     THEN replay' = [replay EXCEPT ![r] = Bundle(r, material[replay[r].first.ref])]
     ELSE RefuseReplay(r)
  /\ UNCHANGED <<material, manifest, importer, vouched>>

-----------------------------------------------------------------------------
(***************************************************************************)
(* list_benchmark_material_manifests()                                     *)
(***************************************************************************)
\* _hash_status; the command can be told to skip it.
HashStatus(m, checked) ==
  IF ~checked THEN "not_checked"
  ELSE IF material[m.ref] = Absent THEN "missing"
  ELSE IF material[m.ref] # m.digest THEN "mismatch" ELSE "verified"

\* Mutant of RowReady: a hash that was not checked will do.
RowReadyUnchecked(m) ==
  /\ m.class = "approved_replay_seed"
  /\ TwoReviewers(m.reviewers)
  /\ HashStatus(m, TRUE) # "missing"
  /\ "local-dev" \in m.targets

\* material_inventory_row_is_ready: the row gets a replay command.
RowReady(m) ==
  /\ m.class = "approved_replay_seed"
  /\ TwoReviewers(m.reviewers)
  /\ HashStatus(m, TRUE) = "verified"
  /\ "local-dev" \in m.targets

\* The inventory loads every manifest, so one that is torn ends the command.
Inventoried(f) == Readable(manifest[f]) /\ \A g \in Fixtures : manifest[g] # Torn

-----------------------------------------------------------------------------
ImportStep(i) ==
  \/ \E job \in Jobs : BeginImport(i, job)
  \/ CopyFile(i) \/ BuildManifest(i) \/ OpenManifest(i) \/ WriteManifest(i)
  \/ ImporterDies(i)

ReplayStep(r) ==
  \/ \E f, ref \in Fixtures, t \in Targets : BeginReplay(r, f, ref, t)
  \/ LoadManifest(r) \/ ReloadManifest(r) \/ CheckDigest(r) \/ SendMaterial(r)

VaultNext == (\E i \in Importers : ImportStep(i)) \/ (\E r \in Replayers : ReplayStep(r))

VaultSpec == VaultInit /\ [][VaultNext]_vaultVars

-----------------------------------------------------------------------------
\* What reaches the target is a text, or the part of one that was on disk at
\* that moment, that two named reviewers approved for this fixture, whatever
\* imports of either class run or die meanwhile (resolve_reviewed_material).
OnlyApprovedTextIsSent ==
  \A r \in Replayers :
     replay[r].sent # Absent => replay[r].sent.text \in vouched[replay[r].fixture]

\* An inventory row that is ready for replay would be replayed if the vault
\* stayed as it is.
Replayable(f) ==
  LET m == manifest[f] IN
  /\ f \in SpiritualSpell
  /\ Approves(f, m) /\ StillMatches(f, m, m) /\ DigestMatches(m)
  /\ StaticReplayPlanned(f)

\* The inventory and the replay, which share no gate but the reviewers', agree
\* at every moment on which fixtures of the Spiritual Spell source are ready.
ReadyIffReplayable ==
  \A f \in SpiritualSpell : Inventoried(f) => (RowReady(manifest[f]) <=> Replayable(f))

\* material_inventory_suggested_replay_commands: a command is suggested only
\* for what can be replayed, of either source.
SuggestedCommandsWork ==
  \A f \in Fixtures : Inventoried(f) /\ RowReady(manifest[f]) => Replayable(f)

\* The decision page of the vault: a hash mismatch blocks the replay, so what
\* is sent is what the manifest names.
SentIsWhatWasHashed ==
  \A r \in Replayers : replay[r].sent # Absent => replay[r].sent = replay[r].checked

\* The same, of the digest that the report hands to the regression suite.
HandoffNamesTheSent ==
  \A r \in Replayers : replay[r].sent # Absent => replay[r].sent = replay[r].handoff
=============================================================================

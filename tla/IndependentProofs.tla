------------------------- MODULE IndependentProofs --------------------------
(***************************************************************************)
(* Proofs about the parts that share no state with a campaign or with each *)
(* other: the authorization engine, the vault of reviewed material, the    *)
(* batches of personas, the security monitor and the GEPA lanes.           *)
(***************************************************************************)
EXTENDS Authorization, MaterialVault, PersonaBatch, SecurityMonitor, Gepa, FoldProofs, TLAPS

-----------------------------------------------------------------------------
(***************************************************************************)
(* Authorization, for every action and every list of policies.  The answer *)
(* is a function of the action and the policies, so the invariant only     *)
(* ties it to Decide; the rest is about Decide.                            *)
(***************************************************************************)
Decisions == {"deny", "escalate", "allow"}

\* The engine holds an action it may be asked and the decision on it.
EngineInv ==
    /\ engine = [policies |-> engine.policies, asked |-> engine.asked,
                 answer |-> engine.answer]
    /\ engine.policies \in PolicyLists
    /\ Answered => /\ engine.asked \in Actions
                   /\ engine.answer = Decide(engine.asked, engine.policies)

\* The order of the three decisions, spelled out.
LEMMA RankOrder ==
    ASSUME NEW c \in Decisions, NEW d \in Decisions
    PROVE  /\ Rank(c) \in 0..2
           /\ Rank("deny") <= Rank(d)
           /\ Rank(c) <= Rank(c)
  BY DEF Rank, Decisions

\* Every rule ends in one of the three decisions, the guard keeps it there.
LEMMA DecideDecides ==
    ASSUME NEW a, NEW ps
    PROVE  /\ Ruled(a, ps) \in Decisions
           /\ Decide(a, ps) \in Decisions
  BY DEF Ruled, Decide, Guarded, Decisions

\* The guard never lets an understated action through.
LEMMA GuardCaps ==
    ASSUME NEW d \in Decisions
    PROVE  /\ Guarded(d, TRUE) \in {"deny", "escalate"}
           /\ Guarded(d, TRUE) = "escalate" => d = "escalate"
  BY DEF Guarded, Decisions

\* An understated action is judged as the honest one, and then guarded.
LEMMA SpoofIsCapped ==
    ASSUME NEW a \in Actions, NEW ps, InputAssumption, Spoofed(a)
    PROVE  LET honest == [a EXCEPT !.sensitivity = Authoritative(a)]
           IN /\ Decide(a, ps) # "allow"
              /\ Rank(Decide(a, ps)) <= Rank(Decide(honest, ps))
  <1> DEFINE honest == [a EXCEPT !.sensitivity = Authoritative(a)]
  <1> SUFFICES Decide(a, ps) # "allow" /\ Rank(Decide(a, ps)) <= Rank(Decide(honest, ps))
    OBVIOUS
  <1>1. /\ honest.role = a.role /\ honest.cap = a.cap /\ honest.tool = a.tool
        /\ honest.args = a.args
        /\ honest.trust = a.trust /\ honest.sensitivity = Authoritative(a)
    BY DEF InputAssumption, ActionAssumption
  <1> HIDE DEF honest
  <1>2. Authoritative(honest) = Authoritative(a)
    BY <1>1 DEF Authoritative
  <1>3. ~Spoofed(honest)
    <2>1. Level(honest.sensitivity) = Level(Authoritative(honest))
      BY <1>1, <1>2
    <2>2. Level(honest.sensitivity) \in Int
      BY DEF Level
    <2> QED BY <2>1, <2>2 DEF Spoofed
  <1>4. Raised(a) = honest /\ Raised(honest) = honest
    BY <1>3 DEF Raised, honest
  <1>5. ArgumentsValid(honest, ps) <=> ArgumentsValid(a, ps)
    BY <1>1 DEF ArgumentsValid, Concerns, KeysMatch, Within
  <1>6. CASE \/ a.trust # "trusted" /\ a.cap \in HighRisk
             \/ ~ArgumentsValid(a, ps)
    <2>1. Decide(a, ps) = "deny"
      BY <1>6 DEF Decide
    <2>2. Decide(honest, ps) \in Decisions
      BY DecideDecides
    <2> QED BY <2>1, <2>2, RankOrder DEF Decisions
  <1>7. CASE ~(\/ a.trust # "trusted" /\ a.cap \in HighRisk
               \/ ~ArgumentsValid(a, ps))
    <2> DEFINE d == Ruled(honest, ps)
    <2>1. Decide(a, ps) = Guarded(d, TRUE)
      BY <1>4, <1>7 DEF Decide
    <2>2. Decide(honest, ps) = d
      BY <1>1, <1>3, <1>4, <1>5, <1>7 DEF Decide, Guarded
    <2>3. d \in Decisions
      BY DecideDecides
    <2>5. Decide(a, ps) = "deny" \/ (Decide(a, ps) = "escalate" /\ d = "escalate")
      BY <2>1, <2>3, GuardCaps
    <2> QED BY <2>2, <2>3, <2>5, RankOrder DEF Decisions
  <1> QED BY <1>6, <1>7

\* Lineage narrows: what a rule says of a derived action is never more than
\* what it says of the trusted one.
LEMMA LineageNarrows ==
    ASSUME NEW a \in Actions, NEW ps \in PolicyLists, InputAssumption
    PROVE  Rank(Decide(a, ps)) <= Rank(Decide([a EXCEPT !.trust = "trusted"], ps))
  <1> DEFINE t == [a EXCEPT !.trust = "trusted"]
  <1>1. /\ t.role = a.role /\ t.cap = a.cap /\ t.tool = a.tool /\ t.args = a.args
        /\ t.effect = a.effect
        /\ t.sensitivity = a.sensitivity /\ t.trust = "trusted"
    BY DEF InputAssumption, ActionAssumption
  <1>2. CASE a.trust = "trusted"
    <2>1. t = a
      BY <1>2 DEF InputAssumption, ActionAssumption
    <2> QED BY <2>1, DecideDecides, RankOrder
  <1>3. CASE a.trust # "trusted"
    <2>1. Authoritative(t) = Authoritative(a)
      BY <1>1 DEF Authoritative
    <2>2. Spoofed(t) <=> Spoofed(a)
      BY <1>1, <2>1 DEF Spoofed
    <2>3. ArgumentsValid(t, ps) <=> ArgumentsValid(a, ps)
      BY <1>1 DEF ArgumentsValid, Concerns, KeysMatch, Within
    <2> DEFINE x == Raised(a)
               y == Raised(t)
    <2>4. /\ y.role = x.role /\ y.cap = x.cap /\ y.args = x.args /\ y.effect = x.effect
          /\ y.sensitivity = x.sensitivity /\ y.trust = "trusted" /\ x.trust # "trusted"
      BY <1>1, <1>3, <2>1, <2>2 DEF Raised, InputAssumption, ActionAssumption
    <2> HIDE DEF x, y
    <2>5. \A i \in DOMAIN ps : Denies(y, ps[i]) => Denies(x, ps[i])
      BY <2>4 DEF Denies, InputAssumption, PolicyAssumption
    <2>6. \A p : Matches(y, p) <=> Matches(x, p)
      BY <2>4 DEF Matches, Concerns, InPaths, InDomains, KeysMatch
    <2>7. \A k : Grants(y, ps, k) = Grants(x, ps, k)
      BY <2>6 DEF Grants
    <2>8. OutOfScope(y, ps) <=> OutOfScope(x, ps)
      BY <2>4, <2>6 DEF OutOfScope, Concerns
    <2>9. FirstAllows(y, ps) <=> FirstAllows(x, ps)
      BY <2>4, <2>7 DEF FirstAllows
    <2>10. Ruled(x, ps) = "deny" \/ Ruled(x, ps) = Ruled(y, ps)
      BY <2>4, <2>5, <2>7, <2>8, <2>9 DEF Ruled
    <2>11. Decide(a, ps) = "deny" \/ Decide(a, ps) = Decide(t, ps)
      BY <1>1, <2>2, <2>3, <2>10 DEF Decide, Guarded, x, y
    <2> QED BY <2>11, DecideDecides, RankOrder
  <1> QED BY <1>2, <1>3

\* Every rule but the choice among grants asks whether some policy of the list
\* says something, so it cannot see the order.
LEMMA OrderIsUnseen ==
    ASSUME NEW a, NEW ps, NEW qs, PoliciesOf(qs) = PoliciesOf(ps), ~Spoofed(a)
    PROVE  Decide(a, ps) = "deny" <=> Decide(a, qs) = "deny"
  <1>1. /\ \A i \in DOMAIN ps : \E j \in DOMAIN qs : qs[j] = ps[i]
        /\ \A j \in DOMAIN qs : \E i \in DOMAIN ps : qs[j] = ps[i]
    BY DEF PoliciesOf
  <1>2. ArgumentsValid(a, ps) <=> ArgumentsValid(a, qs)
    <2>1. (\E i \in DOMAIN ps : Concerns(a, ps[i])) <=> (\E i \in DOMAIN qs : Concerns(a, qs[i]))
      BY <1>1
    <2>2. (\A i \in DOMAIN ps : Concerns(a, ps[i]) =>
              KeysMatch(a, ps[i]) /\ Within(a.args, ps[i].schema))
          <=> (\A i \in DOMAIN qs : Concerns(a, qs[i]) =>
              KeysMatch(a, qs[i]) /\ Within(a.args, qs[i].schema))
      BY <1>1
    <2> QED BY <2>1, <2>2 DEF ArgumentsValid
  <1>3. (\E i \in DOMAIN ps : Denies(a, ps[i])) <=> (\E i \in DOMAIN qs : Denies(a, qs[i]))
    BY <1>1
  <1>4. \A k : Grants(a, ps, k) = {} <=> Grants(a, qs, k) = {}
    BY <1>1 DEF Grants
  <1>5. OutOfScope(a, ps) <=> OutOfScope(a, qs)
    BY <1>1 DEF OutOfScope
  <1>6. Ruled(a, ps) = "deny" <=> Ruled(a, qs) = "deny"
    BY <1>3, <1>4, <1>5 DEF Ruled
  <1>7. Raised(a) = a
    BY DEF Raised
  <1> QED BY <1>2, <1>6, <1>7 DEF Decide, Guarded

-----------------------------------------------------------------------------
\* The engine answers what Decide says of the action it was asked.
LEMMA EngineAnswers == AuthorizationSpec => []EngineInv
  <1>1. AuthorizationInit => EngineInv
    BY DEF AuthorizationInit, EngineInv, Answered
  <1>2. EngineInv /\ [AuthorizationNext]_engine => EngineInv'
    BY DEF EngineInv, AuthorizationNext, Authorize, Answered
  <1> QED BY <1>1, <1>2, PTL DEF AuthorizationSpec

\* Understating the sensitivity of a target never pays, under any policies.
THEOREM AlwaysSpoofNeverHelps == AuthorizationSpec => []SpoofNeverHelps
  <1>1. EngineInv => SpoofNeverHelps
    BY InputAssumption, SpoofIsCapped DEF EngineInv, SpoofNeverHelps, Ask
  <1> QED BY <1>1, EngineAnswers, PTL

\* Untrusted lineage never widens what an actor may do.
THEOREM AlwaysTrustMonotone == AuthorizationSpec => []TrustMonotone
  <1>1. EngineInv => TrustMonotone
    BY InputAssumption, LineageNarrows DEF EngineInv, TrustMonotone, Ask
  <1> QED BY <1>1, EngineAnswers, PTL

\* A truthful action is denied by every engine with these policies, in whatever
\* order, or by none.
THEOREM AlwaysDenialIgnoresOrder == AuthorizationSpec => []DenialIgnoresOrder
  <1>1. EngineInv => DenialIgnoresOrder
    BY OrderIsUnseen DEF EngineInv, DenialIgnoresOrder
  <1> QED BY <1>1, EngineAnswers, PTL

-----------------------------------------------------------------------------
(***************************************************************************)
(* The vault.  What a replay sends was approved by two reviewers for its   *)
(* fixture: for every set of fixtures, texts, import jobs, targets and     *)
(* processes, and whatever dies.  The digests play no part in it: the seed *)
(* file of a fixture is only ever written by an import that two reviewers  *)
(* signed, and a replay reaches no other file.                             *)
(***************************************************************************)
SeedClass == "approved_replay_seed"

Files == {Absent} \cup {Whole(t) : t \in Texts} \cup {Part(t) : t \in Texts}

\* The fields of a manifest are those of the job it was built for.
Manifests ==
  [fixture : Fixtures, ref : Classes \X Fixtures, digest : Files, class : Classes,
   by : {job.by : job \in Jobs}, reviewers : {job.reviewers \cup {job.by} : job \in Jobs},
   targets : {job.targets : job \in Jobs}]

Importing1 == [pc : {"copy", "digest"}, job : Jobs]
Importing2 == [pc : {"open", "write"}, job : Jobs, new : Manifests]

Loading   == [pc : {"load"}, fixture : Fixtures, manifest : Fixtures, sent : {Absent}]
Reloading == [pc : {"reload"}, fixture : Fixtures, manifest : Fixtures, first : Manifests,
              sent : {Absent}]
Resolved  == [pc : {"digest", "send"}, fixture : Fixtures, first : Manifests,
              second : Manifests, sent : {Absent}]
Played    == [pc : {"idle"}, fixture : Fixtures, checked : Files, handoff : Files,
              sent : Files]

VaultTypes ==
  /\ material \in [Classes \X Fixtures -> Files]
  /\ manifest \in [Fixtures -> Manifests \cup {Absent, Torn}]
  /\ importer \in [Importers -> {Idle} \cup Importing1 \cup Importing2]
  /\ replay \in [Replayers -> {NoPlay} \cup Loading \cup Reloading \cup Resolved \cup Played]
  /\ vouched \in [Fixtures -> SUBSET Texts]

\* A manifest names the file of its own class and fixture.
Own(m) == m.ref = <<m.class, m.fixture>>

ManifestsAreOwn ==
  /\ \A f \in Fixtures : Readable(manifest[f]) => Own(manifest[f])
  /\ \A i \in Importers : importer[i].pc \in {"open", "write"} => Own(importer[i].new)

\* The seed file of a fixture holds an approved text, or a part of one.
SeedFiles ==
  \A f \in Fixtures :
    material[<<SeedClass, f>>] # Absent => material[<<SeedClass, f>>].text \in vouched[f]

\* And what an import copies into it is approved.
SeedImports ==
  \A i \in Importers :
    importer[i].pc = "copy" /\ importer[i].job.class = SeedClass =>
      importer[i].job.text \in vouched[importer[i].job.fixture]

\* Once approved, a replay will read the seed file of its fixture.
ReplaysReadSeeds ==
  \A r \in Replayers :
    replay[r].pc \in {"reload", "digest", "send"} =>
      replay[r].first.ref = <<SeedClass, replay[r].fixture>>

VaultInv ==
  VaultTypes /\ ManifestsAreOwn /\ SeedFiles /\ SeedImports /\ ReplaysReadSeeds
  /\ OnlyApprovedTextIsSent

\* The empty vault.
LEMMA VaultInitInv == ASSUME VaultInit PROVE VaultInv
<1>1. VaultTypes
  BY DEF VaultInit, VaultTypes, Files
<1>2. ManifestsAreOwn /\ SeedFiles /\ SeedImports
  BY DEF VaultInit, ManifestsAreOwn, SeedFiles, SeedImports, Readable, Idle, SeedClass, Classes
<1>3. ReplaysReadSeeds /\ OnlyApprovedTextIsSent
  BY DEF VaultInit, ReplaysReadSeeds, OnlyApprovedTextIsSent, NoPlay
<1> QED  BY <1>1, <1>2, <1>3 DEF VaultInv

-----------------------------------------------------------------------------
(***************************************************************************)
(* Imports                                                                 *)
(***************************************************************************)
\* The seed file is opened by an approved import only.
LEMMA BeginImportInv ==
  ASSUME VaultAssumption, VaultInv, NEW i \in Importers, NEW job \in Jobs, BeginImport(i, job)
  PROVE  VaultInv'
<1> USE DEF VaultInv, BeginImport, MaterialRef
<1>0. job.fixture \in Fixtures /\ job.text \in Texts /\ job.class \in Classes
  BY DEF VaultAssumption
<1>1. VaultTypes'
  <2>1. Part(job.text) \in Files  BY <1>0 DEF Files
  <2>2. vouched' \in [Fixtures -> SUBSET Texts]  BY <1>0 DEF VaultTypes
  <2>3. importer' \in [Importers -> {Idle} \cup Importing1 \cup Importing2]
    BY DEF VaultTypes, Importing1
  <2>4. material' \in [Classes \X Fixtures -> Files]  BY <1>0, <2>1 DEF VaultTypes
  <2> QED  BY <2>2, <2>3, <2>4 DEF VaultTypes
<1>2. ManifestsAreOwn'
  BY DEF ManifestsAreOwn, VaultTypes
<1>3. job.class = SeedClass => job.text \in vouched'[job.fixture]
  BY <1>0 DEF Admitted, TwoReviewers, VaultTypes, SeedClass
<1>4. \A f \in Fixtures : vouched[f] \subseteq vouched'[f]
  BY <1>0 DEF VaultTypes
<1>5. SeedFiles'
  <2>1. ASSUME NEW f \in Fixtures, material'[<<SeedClass, f>>] # Absent
        PROVE  material'[<<SeedClass, f>>].text \in vouched'[f]
    <3>1. CASE <<SeedClass, f>> = <<job.class, job.fixture>>
      <4>1. material'[<<SeedClass, f>>] = Part(job.text)
        BY <1>0, <3>1 DEF VaultTypes
      <4> QED  BY <3>1, <4>1, <1>3 DEF Part
    <3>2. CASE <<SeedClass, f>> # <<job.class, job.fixture>>
      <4>1. material'[<<SeedClass, f>>] = material[<<SeedClass, f>>]
        BY <3>2 DEF VaultTypes
      <4> QED  BY <2>1, <4>1, <1>4 DEF SeedFiles
    <3> QED  BY <3>1, <3>2
  <2> QED  BY <2>1 DEF SeedFiles
<1>6. SeedImports'
  <2>1. ASSUME NEW j \in Importers, importer'[j].pc = "copy", importer'[j].job.class = SeedClass
        PROVE  importer'[j].job.text \in vouched'[importer'[j].job.fixture]
    <3>1. CASE j = i
      BY <2>1, <3>1, <1>3 DEF VaultTypes
    <3>2. CASE j # i
      <4>1. importer'[j] = importer[j]  BY <3>2 DEF VaultTypes
      <4>2. importer[j].job.fixture \in Fixtures
        BY <2>1, <4>1 DEF VaultTypes, VaultAssumption, Idle, Importing1, Importing2
      <4> QED  BY <2>1, <4>1, <4>2, <1>4 DEF SeedImports
    <3> QED  BY <3>1, <3>2
  <2> QED  BY <2>1 DEF SeedImports
<1>7. ReplaysReadSeeds'
  BY DEF ReplaysReadSeeds
<1>8. OnlyApprovedTextIsSent'
  <2>1. \A r \in Replayers : replay[r].sent # Absent => replay[r].fixture \in Fixtures
    BY DEF VaultTypes, NoPlay, Loading, Reloading, Resolved, Played
  <2> QED  BY <1>4, <2>1 DEF OnlyApprovedTextIsSent
<1> QED  BY <1>1, <1>2, <1>5, <1>6, <1>7, <1>8

\* The rest of the copy.
LEMMA CopyFileInv ==
  ASSUME VaultAssumption, VaultInv, NEW i \in Importers, CopyFile(i)
  PROVE  VaultInv'
<1> USE DEF VaultInv
<1> DEFINE job == importer[i].job
<1>0. importer[i] \in Importing1 /\ importer[i].pc = "copy"
  BY DEF CopyFile, VaultTypes, Idle, Importing1, Importing2
<1>1. job \in Jobs /\ job.fixture \in Fixtures /\ job.text \in Texts /\ job.class \in Classes
  BY <1>0 DEF VaultAssumption, Importing1
<1>2. material' = [material EXCEPT ![<<job.class, job.fixture>>] = Whole(job.text)]
  BY DEF CopyFile, MaterialRef
<1>3. importer' = [importer EXCEPT ![i].pc = "digest"] /\ vouched' = vouched
      /\ manifest' = manifest /\ replay' = replay
  BY DEF CopyFile
<1> HIDE DEF job
<1>4. VaultTypes'
  <2>1. Whole(job.text) \in Files  BY <1>1 DEF Files
  <2>2. material' \in [Classes \X Fixtures -> Files]  BY <1>1, <1>2, <2>1 DEF VaultTypes
  <2>3. importer' \in [Importers -> {Idle} \cup Importing1 \cup Importing2]
    BY <1>0, <1>3 DEF VaultTypes, Importing1
  <2> QED  BY <1>3, <2>2, <2>3 DEF VaultTypes
<1>5. ManifestsAreOwn'
  BY <1>0, <1>3 DEF ManifestsAreOwn, VaultTypes, Importing1
<1>6. SeedFiles'
  <2>1. ASSUME NEW f \in Fixtures, material'[<<SeedClass, f>>] # Absent
        PROVE  material'[<<SeedClass, f>>].text \in vouched'[f]
    <3>1. CASE <<SeedClass, f>> = <<job.class, job.fixture>>
      <4>1. material'[<<SeedClass, f>>] = Whole(job.text)
        BY <1>1, <1>2, <3>1 DEF VaultTypes
      <4>2. job.text \in vouched[job.fixture]
        BY <1>0, <3>1 DEF SeedImports, job
      <4> QED  BY <3>1, <4>1, <4>2, <1>3 DEF Whole
    <3>2. CASE <<SeedClass, f>> # <<job.class, job.fixture>>
      <4>1. material'[<<SeedClass, f>>] = material[<<SeedClass, f>>]
        BY <1>2, <3>2 DEF VaultTypes
      <4> QED  BY <2>1, <4>1, <1>3 DEF SeedFiles
    <3> QED  BY <3>1, <3>2
  <2> QED  BY <2>1 DEF SeedFiles
<1>7. SeedImports'
  BY <1>0, <1>3 DEF SeedImports, VaultTypes, Importing1
<1>8. ReplaysReadSeeds' /\ OnlyApprovedTextIsSent'
  BY <1>3 DEF ReplaysReadSeeds, OnlyApprovedTextIsSent
<1> QED  BY <1>4, <1>5, <1>6, <1>7, <1>8

\* The manifest that is built names the file that was copied.
LEMMA BuildManifestInv ==
  ASSUME VaultAssumption, VaultInv, NEW i \in Importers, BuildManifest(i)
  PROVE  VaultInv'
<1> USE DEF VaultInv
<1> DEFINE job == importer[i].job
           ref == <<job.class, job.fixture>>
           new == [fixture |-> job.fixture, ref |-> ref, digest |-> material[ref],
                   class |-> job.class, by |-> job.by,
                   reviewers |-> job.reviewers \cup {job.by}, targets |-> job.targets]
<1>0. importer[i] \in Importing1
  BY DEF BuildManifest, VaultTypes, Idle, Importing1, Importing2
<1>1. job \in Jobs /\ job.fixture \in Fixtures /\ job.class \in Classes
  BY <1>0 DEF VaultAssumption, Importing1
<1>2. new \in Manifests /\ Own(new)
  <2>1. material[ref] \in Files  BY <1>1 DEF VaultTypes
  <2> QED  BY <1>1, <2>1 DEF Manifests, Own
<1>3. /\ importer' = [importer EXCEPT ![i] = IF ManifestGate(new)
                                             THEN [pc |-> "open", job |-> job, new |-> new]
                                             ELSE Idle]
      /\ UNCHANGED <<material, manifest, replay, vouched>>
  BY DEF BuildManifest, MaterialRef
<1>4. [pc |-> "open", job |-> job, new |-> new] \in Importing2
  BY <1>1, <1>2 DEF Importing2
<1> HIDE DEF job, ref, new
<1>5. VaultTypes'
  BY <1>3, <1>4 DEF VaultTypes
<1>6. ManifestsAreOwn'
  BY <1>2, <1>3 DEF ManifestsAreOwn, VaultTypes, Idle
<1>7. SeedFiles' /\ SeedImports'
  BY <1>3 DEF SeedFiles, SeedImports, VaultTypes, Idle
<1>8. ReplaysReadSeeds' /\ OnlyApprovedTextIsSent'
  BY <1>3 DEF ReplaysReadSeeds, OnlyApprovedTextIsSent
<1> QED  BY <1>5, <1>6, <1>7, <1>8

\* Opening the manifest tears it, writing it fills it.
LEMMA OpenManifestInv ==
  ASSUME VaultInv, NEW i \in Importers, OpenManifest(i)
  PROVE  VaultInv'
<1> USE DEF VaultInv, OpenManifest
<1>0. importer[i] \in Importing2
  BY DEF VaultTypes, Idle, Importing1, Importing2
<1>1. VaultTypes'
  <2>1. importer' \in [Importers -> {Idle} \cup Importing1 \cup Importing2]
    BY <1>0 DEF VaultTypes, Importing2
  <2> QED  BY <2>1 DEF VaultTypes
<1>2. ManifestsAreOwn'
  BY <1>0 DEF ManifestsAreOwn, VaultTypes, Importing2, Readable
<1>3. SeedFiles' /\ SeedImports'
  BY <1>0 DEF SeedFiles, SeedImports, VaultTypes, Importing2
<1>4. ReplaysReadSeeds' /\ OnlyApprovedTextIsSent'
  BY DEF ReplaysReadSeeds, OnlyApprovedTextIsSent
<1> QED  BY <1>1, <1>2, <1>3, <1>4

LEMMA WriteManifestInv ==
  ASSUME VaultInv, NEW i \in Importers, WriteManifest(i)
  PROVE  VaultInv'
<1> USE DEF VaultInv, WriteManifest
<1>0. importer[i] \in Importing2 /\ Own(importer[i].new)
  BY DEF VaultTypes, Idle, Importing1, Importing2, ManifestsAreOwn
<1>1. VaultTypes'
  BY <1>0 DEF VaultTypes, Importing2
<1>2. ManifestsAreOwn'
  BY <1>0 DEF ManifestsAreOwn, VaultTypes, Idle
<1>3. SeedFiles' /\ SeedImports'
  BY DEF SeedFiles, SeedImports, VaultTypes, Idle
<1>4. ReplaysReadSeeds' /\ OnlyApprovedTextIsSent'
  BY DEF ReplaysReadSeeds, OnlyApprovedTextIsSent
<1> QED  BY <1>1, <1>2, <1>3, <1>4

LEMMA ImporterDiesInv ==
  ASSUME VaultInv, NEW i \in Importers, ImporterDies(i)
  PROVE  VaultInv'
<1> USE DEF VaultInv, ImporterDies
<1>1. VaultTypes' /\ ManifestsAreOwn'
  BY DEF VaultTypes, ManifestsAreOwn, Idle
<1>2. SeedFiles' /\ SeedImports'
  BY DEF SeedFiles, SeedImports, VaultTypes, Idle
<1>3. ReplaysReadSeeds' /\ OnlyApprovedTextIsSent'
  BY DEF ReplaysReadSeeds, OnlyApprovedTextIsSent
<1> QED  BY <1>1, <1>2, <1>3

-----------------------------------------------------------------------------
(***************************************************************************)
(* Replays                                                                 *)
(***************************************************************************)
\* A replay leaves the vault alone: its own record is all there is to check.
LEMMA ReplayInv ==
  ASSUME VaultInv, NEW r \in Replayers, NEW play,
         replay' = [replay EXCEPT ![r] = play],
         UNCHANGED <<material, manifest, importer, vouched>>,
         play \in {NoPlay} \cup Loading \cup Reloading \cup Resolved \cup Played,
         play.pc \in {"reload", "digest", "send"} => play.first.ref = <<SeedClass, play.fixture>>,
         play.sent # Absent => play.sent.text \in vouched[play.fixture]
  PROVE  VaultInv'
<1> USE DEF VaultInv
<1>1. VaultTypes'  BY DEF VaultTypes
<1>2. ManifestsAreOwn' /\ SeedFiles' /\ SeedImports'
  BY DEF ManifestsAreOwn, SeedFiles, SeedImports
<1>3. ReplaysReadSeeds'  BY DEF VaultTypes, ReplaysReadSeeds
<1>4. OnlyApprovedTextIsSent'  BY DEF VaultTypes, OnlyApprovedTextIsSent
<1> QED  BY <1>1, <1>2, <1>3, <1>4

LEMMA RefusedInv ==
  ASSUME VaultInv, NEW r \in Replayers, RefuseReplay(r),
         UNCHANGED <<material, manifest, importer, vouched>>
  PROVE  VaultInv'
<1>1. NoPlay.pc = "idle" /\ NoPlay.sent = Absent  BY DEF NoPlay
<1> QED  BY <1>1, ReplayInv DEF RefuseReplay

LEMMA BeginReplayInv ==
  ASSUME VaultInv, NEW r \in Replayers, NEW f \in Fixtures, NEW ref \in Fixtures, NEW target,
         BeginReplay(r, f, ref, target)
  PROVE  VaultInv'
<1> DEFINE play == [pc |-> "load", fixture |-> f, manifest |-> ref, sent |-> Absent]
<1>1. play \in Loading /\ play.pc = "load" /\ play.sent = Absent  BY DEF Loading
<1>2. UNCHANGED <<material, manifest, importer, vouched>>  BY DEF BeginReplay
<1>3. \/ replay' = [replay EXCEPT ![r] = play]
      \/ RefuseReplay(r)
  BY DEF BeginReplay
<1> HIDE DEF play
<1> QED  BY <1>1, <1>2, <1>3, ReplayInv, RefusedInv

\* An approved manifest names the seed file of the fixture.
LEMMA LoadManifestInv ==
  ASSUME VaultInv, NEW r \in Replayers, LoadManifest(r)
  PROVE  VaultInv'
<1> DEFINE m == manifest[replay[r].manifest]
           play == [pc |-> "reload", fixture |-> replay[r].fixture,
                    manifest |-> replay[r].manifest, first |-> m, sent |-> Absent]
<1>1. UNCHANGED <<material, manifest, importer, vouched>>  BY DEF LoadManifest
<1>2. CASE Approves(replay[r].fixture, m)
  <2>1. replay[r] \in Loading
    BY DEF LoadManifest, VaultInv, VaultTypes, NoPlay, Loading, Reloading, Resolved, Played
  <2>2. m \in Manifests
    BY <1>2, <2>1 DEF Approves, Readable, VaultInv, VaultTypes, Loading
  <2>3. m.ref = <<SeedClass, replay[r].fixture>>
    BY <1>2, <2>1 DEF Approves, VaultInv, ManifestsAreOwn, Own, Loading, SeedClass
  <2>4. play \in Reloading /\ play.sent = Absent /\ play.first.ref = <<SeedClass, play.fixture>>
    BY <2>1, <2>2, <2>3 DEF Loading, Reloading
  <2>5. replay' = [replay EXCEPT ![r] = play]  BY <1>2 DEF LoadManifest
  <2> HIDE DEF play
  <2> QED  BY <1>1, <2>4, <2>5, ReplayInv
<1>3. CASE ~Approves(replay[r].fixture, m)
  BY <1>1, <1>3, RefusedInv DEF LoadManifest
<1> QED  BY <1>2, <1>3

LEMMA ReloadManifestInv ==
  ASSUME VaultInv, NEW r \in Replayers, ReloadManifest(r)
  PROVE  VaultInv'
<1> DEFINE m == manifest[replay[r].manifest]
           play == [pc |-> "digest", fixture |-> replay[r].fixture,
                    first |-> replay[r].first, second |-> m, sent |-> Absent]
<1>1. UNCHANGED <<material, manifest, importer, vouched>>  BY DEF ReloadManifest
<1>2. CASE StillMatches(replay[r].fixture, replay[r].first, m)
  <2>1. replay[r] \in Reloading /\ replay[r].pc = "reload"
    BY DEF ReloadManifest, VaultInv, VaultTypes, NoPlay, Loading, Reloading, Resolved, Played
  <2>2. m \in Manifests
    BY <1>2, <2>1 DEF StillMatches, Readable, VaultInv, VaultTypes, Reloading
  <2>3. replay[r].first.ref = <<SeedClass, replay[r].fixture>>
    BY <2>1 DEF VaultInv, ReplaysReadSeeds
  <2>4. play \in Resolved /\ play.sent = Absent /\ play.first.ref = <<SeedClass, play.fixture>>
    BY <2>1, <2>2, <2>3 DEF Resolved, Reloading
  <2>5. replay' = [replay EXCEPT ![r] = play]  BY <1>2 DEF ReloadManifest
  <2> HIDE DEF play
  <2> QED  BY <1>1, <2>4, <2>5, ReplayInv
<1>3. CASE ~StillMatches(replay[r].fixture, replay[r].first, m)
  BY <1>1, <1>3, RefusedInv DEF ReloadManifest
<1> QED  BY <1>2, <1>3

LEMMA CheckDigestInv ==
  ASSUME VaultInv, NEW r \in Replayers, CheckDigest(r)
  PROVE  VaultInv'
<1> DEFINE play == [replay[r] EXCEPT !.pc = "send"]
<1>1. UNCHANGED <<material, manifest, importer, vouched>>  BY DEF CheckDigest
<1>2. CASE DigestMatches(replay[r].second)
  <2>1. replay[r] \in Resolved /\ replay[r].pc = "digest"
    BY DEF CheckDigest, VaultInv, VaultTypes, NoPlay, Loading, Reloading, Resolved, Played
  <2>2. replay[r].first.ref = <<SeedClass, replay[r].fixture>>
    BY <2>1 DEF VaultInv, ReplaysReadSeeds
  <2>3. play \in Resolved /\ play.sent = Absent /\ play.first.ref = <<SeedClass, play.fixture>>
    BY <2>1, <2>2 DEF Resolved
  <2>4. replay' = [replay EXCEPT ![r] = play]  BY <1>2 DEF CheckDigest
  <2> HIDE DEF play
  <2> QED  BY <1>1, <2>3, <2>4, ReplayInv
<1>3. CASE ~DigestMatches(replay[r].second)
  BY <1>1, <1>3, RefusedInv DEF CheckDigest
<1> QED  BY <1>2, <1>3

\* What is read for the send is the seed file, as it is at that moment.
LEMMA SendMaterialInv ==
  ASSUME VaultInv, NEW r \in Replayers, SendMaterial(r)
  PROVE  VaultInv'
<1> DEFINE text == material[replay[r].first.ref]
           play == Bundle(r, text)
<1>1. UNCHANGED <<material, manifest, importer, vouched>>  BY DEF SendMaterial
<1>2. CASE StaticReplayPlanned(replay[r].fixture)
  <2>1. replay[r] \in Resolved /\ replay[r].pc = "send"
    BY DEF SendMaterial, VaultInv, VaultTypes, NoPlay, Loading, Reloading, Resolved, Played
  <2>2. replay[r].first.ref = <<SeedClass, replay[r].fixture>> /\ replay[r].fixture \in Fixtures
    BY <2>1 DEF VaultInv, ReplaysReadSeeds, Resolved
  <2>3. text \in Files
    BY <2>2 DEF VaultInv, VaultTypes, SeedClass, Classes
  <2>4. text # Absent => text.text \in vouched[replay[r].fixture]
    BY <2>2 DEF VaultInv, SeedFiles
  <2> HIDE DEF text
  <2>5. play \in Played /\ play.sent = text /\ play.pc = "idle"
        /\ play.fixture = replay[r].fixture
    BY <2>1, <2>3 DEF Bundle, Played, Resolved, Manifests
  <2>6. replay' = [replay EXCEPT ![r] = play]  BY <1>2 DEF SendMaterial, text
  <2> HIDE DEF play
  <2> QED  BY <1>1, <2>4, <2>5, <2>6, ReplayInv
<1>3. CASE ~StaticReplayPlanned(replay[r].fixture)
  BY <1>1, <1>3, RefusedInv DEF SendMaterial
<1> QED  BY <1>2, <1>3

-----------------------------------------------------------------------------
\* Every step of the vault keeps the invariant.
LEMMA VaultNextInv == ASSUME VaultAssumption, VaultInv, [VaultNext]_vaultVars PROVE VaultInv'
<1>1. CASE \E i \in Importers : ImportStep(i)
  BY <1>1, BeginImportInv, CopyFileInv, BuildManifestInv, OpenManifestInv, WriteManifestInv,
     ImporterDiesInv DEF ImportStep
<1>2. CASE \E r \in Replayers : ReplayStep(r)
  BY <1>2, BeginReplayInv, LoadManifestInv, ReloadManifestInv, CheckDigestInv,
     SendMaterialInv DEF ReplayStep
<1>3. CASE UNCHANGED vaultVars
  BY <1>3 DEF vaultVars, VaultInv, VaultTypes, ManifestsAreOwn, SeedFiles, SeedImports,
              ReplaysReadSeeds, OnlyApprovedTextIsSent
<1> QED  BY <1>1, <1>2, <1>3 DEF VaultNext

\* resolve_reviewed_material: what is sent, whole or in part, is a text that two
\* named reviewers approved for the fixture, whatever imports run or die meanwhile.
THEOREM VaultSendsApprovedText == VaultSpec => []OnlyApprovedTextIsSent
<1>1. VaultInv => OnlyApprovedTextIsSent  BY DEF VaultInv
<1> QED  BY VaultAssumption, VaultInitInv, VaultNextInv, <1>1, PTL DEF VaultSpec

-----------------------------------------------------------------------------
(***************************************************************************)
(* The inventory and the replay                                            *)
(***************************************************************************)
\* A manifest passed its own gate, and its file was there when it was built.
Sound(m) == ManifestGate(m) /\ m.digest # Absent

\* A manifest is where its fixture's belongs; a file that is being imported is there.
ReadyInv ==
  /\ \A f \in Fixtures : Readable(manifest[f]) =>
       Sound(manifest[f]) /\ manifest[f].fixture = f
  /\ \A i \in Importers :
       /\ importer[i].pc \in {"copy", "digest"} =>
            material[<<importer[i].job.class, importer[i].job.fixture>>] # Absent
       /\ importer[i].pc \in {"open", "write"} =>
            Sound(importer[i].new) /\ importer[i].new.fixture = importer[i].job.fixture

LEMMA TextsAreThere == \A t : Whole(t) # Absent /\ Part(t) # Absent
<1>1. DOMAIN Absent = {"absent"}  BY DEF Absent
<1>2. ASSUME NEW t PROVE DOMAIN Whole(t) = {"text", "whole"} /\ DOMAIN Part(t) = {"text", "whole"}
  BY DEF Whole, Part
<1>3. {"absent"} # {"text", "whole"}  OBVIOUS
<1> QED  BY <1>1, <1>2, <1>3

LEMMA ReadyInit == ASSUME VaultInit PROVE ReadyInv
  BY DEF VaultInit, ReadyInv, Readable, Idle

\* A file is written, and whatever is there stays there.
LEMMA ReadyWrites ==
  ASSUME VaultAssumption, VaultInv, ReadyInv, NEW i \in Importers,
         (\E job \in Jobs : BeginImport(i, job)) \/ CopyFile(i)
  PROVE  ReadyInv'
<1>1. UNCHANGED manifest  BY DEF BeginImport, CopyFile
<1>2. PICK job \in Jobs : /\ importer'[i].job = job /\ importer'[i].pc \in {"copy", "digest"}
                          /\ \/ material' = [material EXCEPT ![<<job.class, job.fixture>>] = Part(job.text)]
                             \/ material' = [material EXCEPT ![<<job.class, job.fixture>>] = Whole(job.text)]
  <2>1. CASE \E job \in Jobs : BeginImport(i, job)
    <3>1. PICK job \in Jobs : BeginImport(i, job)  BY <2>1
    <3>2. /\ importer' = [importer EXCEPT ![i] = [pc |-> "copy", job |-> job]]
          /\ material' = [material EXCEPT ![<<job.class, job.fixture>>] = Part(job.text)]
      BY <3>1 DEF BeginImport, MaterialRef
    <3>3. importer'[i] = [pc |-> "copy", job |-> job]  BY <3>2 DEF VaultInv, VaultTypes
    <3>4. importer'[i].job = job /\ importer'[i].pc = "copy"  BY <3>3
    <3> QED  BY <3>2, <3>4
  <2>2. CASE CopyFile(i)
    <3>1. importer[i] \in Importing1
      BY <2>2 DEF CopyFile, VaultInv, VaultTypes, Idle, Importing1, Importing2
    <3> DEFINE job == importer[i].job
    <3>2. job \in Jobs  BY <3>1 DEF Importing1
    <3>3. /\ importer' = [importer EXCEPT ![i].pc = "digest"]
          /\ material' = [material EXCEPT ![<<job.class, job.fixture>>] = Whole(job.text)]
      BY <2>2 DEF CopyFile, MaterialRef
    <3>4. importer'[i].job = job /\ importer'[i].pc = "digest"
      BY <3>1, <3>3 DEF VaultInv, VaultTypes, Importing1
    <3> QED  BY <3>2, <3>3, <3>4
  <2> QED  BY <2>1, <2>2
<1>3. \A j \in Importers \ {i} : importer'[j] = importer[j]
  BY DEF BeginImport, CopyFile, VaultInv, VaultTypes
<1>4. job.class \in Classes /\ job.fixture \in Fixtures  BY DEF VaultAssumption
<1>5. /\ material'[<<job.class, job.fixture>>] # Absent
      /\ \A file \in Classes \X Fixtures : material[file] # Absent => material'[file] # Absent
  BY <1>2, <1>4, TextsAreThere DEF VaultInv, VaultTypes
<1>6. ASSUME NEW j \in Importers, importer'[j].pc \in {"copy", "digest"}
      PROVE  material'[<<importer'[j].job.class, importer'[j].job.fixture>>] # Absent
  <2>1. CASE j = i  BY <1>2, <1>5, <2>1
  <2>2. CASE j # i
    <3>1. importer'[j] = importer[j]  BY <1>3, <2>2
    <3>2. importer[j].job \in Jobs
      BY <1>6, <3>1 DEF VaultInv, VaultTypes, Idle, Importing1, Importing2
    <3>3. <<importer[j].job.class, importer[j].job.fixture>> \in Classes \X Fixtures
      BY <3>2 DEF VaultAssumption
    <3> QED  BY <1>5, <1>6, <3>1, <3>3 DEF ReadyInv
  <2> QED  BY <2>1, <2>2
<1>7. ASSUME NEW j \in Importers, importer'[j].pc \in {"open", "write"}
      PROVE  Sound(importer'[j].new) /\ importer'[j].new.fixture = importer'[j].job.fixture
  <2>1. j # i  BY <1>2, <1>7
  <2> QED  BY <1>3, <1>7, <2>1 DEF ReadyInv
<1>8. \A f \in Fixtures : Readable(manifest'[f]) => Sound(manifest'[f]) /\ manifest'[f].fixture = f
  BY <1>1 DEF ReadyInv
<1> QED  BY <1>6, <1>7, <1>8 DEF ReadyInv

\* The manifest is built of what is there, and ends the import if its gate does not hold.
LEMMA ReadyBuilds ==
  ASSUME VaultInv, ReadyInv, NEW i \in Importers, BuildManifest(i) PROVE ReadyInv'
<1> DEFINE job == importer[i].job
           ref == <<job.class, job.fixture>>
           new == [fixture |-> job.fixture, ref |-> ref, digest |-> material[ref],
                   class |-> job.class, by |-> job.by,
                   reviewers |-> job.reviewers \cup {job.by}, targets |-> job.targets]
           open == [pc |-> "open", job |-> job, new |-> new]
<1>1. /\ importer[i].pc = "digest" /\ UNCHANGED <<material, manifest>>
      /\ importer' = [importer EXCEPT ![i] = IF ManifestGate(new) THEN open ELSE Idle]
  BY DEF BuildManifest, MaterialRef
<1>2. new.digest # Absent /\ new.fixture = job.fixture  BY <1>1 DEF ReadyInv
<1>3. open.pc = "open" /\ open.new = new /\ open.job = job /\ Idle.pc = "idle"  BY DEF Idle
<1> HIDE DEF open, new, job
<1>4. ASSUME NEW j \in Importers
      PROVE  importer'[j] = importer[j] \/ importer'[j] = Idle \/ (importer'[j] = open /\ ManifestGate(new))
  <2> DEFINE next == IF ManifestGate(new) THEN open ELSE Idle
  <2>1. importer' = [importer EXCEPT ![i] = next]  BY <1>1
  <2>2. next = Idle \/ (next = open /\ ManifestGate(new))  OBVIOUS
  <2> HIDE DEF next
  <2>3. importer'[j] = importer[j] \/ importer'[j] = next
    BY <2>1 DEF VaultInv, VaultTypes
  <2> QED  BY <2>2, <2>3
<1>5. ManifestGate(new) => Sound(open.new) /\ open.new.fixture = open.job.fixture
  BY <1>2, <1>3 DEF Sound
<1> QED  BY <1>1, <1>3, <1>4, <1>5 DEF ReadyInv

\* And goes where the manifest of its fixture belongs.
LEMMA ReadyStores ==
  ASSUME VaultAssumption, VaultInv, ReadyInv, NEW i \in Importers,
         OpenManifest(i) \/ WriteManifest(i) \/ ImporterDies(i)
  PROVE  ReadyInv'
<1>1. UNCHANGED material  BY DEF OpenManifest, WriteManifest, ImporterDies
<1>2. CASE OpenManifest(i)
  <2>1. \A f \in Fixtures : manifest'[f] = manifest[f] \/ manifest'[f] = Torn
    BY <1>2 DEF OpenManifest, VaultInv, VaultTypes
  <2>2. \A j \in Importers : \/ importer'[j] = importer[j]
                             \/ /\ importer[j].pc = "open" /\ importer'[j].pc = "write"
                                /\ importer'[j].new = importer[j].new
                                /\ importer'[j].job = importer[j].job
    BY <1>2 DEF OpenManifest, VaultInv, VaultTypes, Idle, Importing1, Importing2
  <2> QED  BY <1>1, <2>1, <2>2 DEF ReadyInv, Readable
<1>3. CASE WriteManifest(i)
  <2>1. /\ importer[i].pc = "write"
        /\ manifest' = [manifest EXCEPT ![importer[i].job.fixture] = importer[i].new]
        /\ importer' = [importer EXCEPT ![i] = Idle]
    BY <1>3 DEF WriteManifest
  <2>2. \A f \in Fixtures : \/ manifest'[f] = manifest[f]
                            \/ f = importer[i].job.fixture /\ manifest'[f] = importer[i].new
    BY <2>1 DEF VaultInv, VaultTypes
  <2>3. Sound(importer[i].new) /\ importer[i].new.fixture = importer[i].job.fixture
    BY <2>1 DEF ReadyInv
  <2>4. \A j \in Importers : importer'[j] = importer[j] \/ importer'[j].pc = "idle"
    BY <2>1 DEF VaultInv, VaultTypes, Idle
  <2> QED  BY <1>1, <2>2, <2>3, <2>4 DEF ReadyInv
<1>4. CASE ImporterDies(i)
  BY <1>1, <1>4 DEF ImporterDies, ReadyInv, VaultInv, VaultTypes, Idle
<1> QED  BY <1>2, <1>3, <1>4

LEMMA ReadyStep ==
  ASSUME VaultAssumption, VaultInv, ReadyInv, [VaultNext]_vaultVars PROVE ReadyInv'
<1>1. CASE \E i \in Importers : ImportStep(i)
  BY <1>1, ReadyWrites, ReadyBuilds, ReadyStores DEF ImportStep
<1>2. CASE (\E r \in Replayers : ReplayStep(r)) \/ UNCHANGED vaultVars
  <2>1. UNCHANGED <<material, manifest, importer>>
    BY <1>2 DEF ReplayStep, BeginReplay, LoadManifest, ReloadManifest, CheckDigest, SendMaterial,
                vaultVars
  <2> QED  BY <2>1 DEF ReadyInv
<1> QED  BY <1>1, <1>2 DEF VaultNext

\* What the catalogs plan for a fixture of this source includes the replay.
LEMMA SpiritualSpellIsPlanned ==
  ASSUME VaultAssumption, NEW f \in SpiritualSpell PROVE StaticReplayPlanned(f)
<1> DEFINE p == RiskOf[f]
           s == "static_seed_replay"
<1>1. StrategyOf[f] = s /\ p \in {"system_prompt_leakage", "unsafe_tool_use", "prompt_injection"}
  BY DEF VaultAssumption
<1>2. p \in DOMAIN Defaults  BY <1>1 DEF Defaults
<1>3. s \in DOMAIN Fits /\ Fits[s] = DOMAIN Defaults  BY DEF Fits
<1>4. Planned({p}, {s})[p] = {x \in {s} : p \in Fits[x]}  BY DEF Planned
<1>5. s \in Planned({p}, {s})[p]  BY <1>2, <1>3, <1>4
<1> QED  BY <1>1, <1>2, <1>3, <1>5 DEF StaticReplayPlanned, PlanBuilt

LEMMA ReadyIsReplayable ==
  ASSUME VaultAssumption, VaultInv, ReadyInv PROVE ReadyIffReplayable
<1> SUFFICES ASSUME NEW f \in SpiritualSpell, Readable(manifest[f])
             PROVE  RowReady(manifest[f]) <=> Replayable(f)
  BY DEF ReadyIffReplayable, Inventoried
<1> DEFINE m == manifest[f]
<1>1. f \in Fixtures  BY DEF VaultAssumption
<1>2. Sound(m) /\ m.fixture = f  BY <1>1 DEF ReadyInv
<1>3. StaticReplayPlanned(f)  BY SpiritualSpellIsPlanned
<1>4. HashStatus(m, TRUE) = "verified" <=> DigestMatches(m)
  BY <1>2 DEF HashStatus, DigestMatches, Sound
<1> HIDE DEF m
<1>5. RowReady(m) <=> Approves(f, m) /\ StillMatches(f, m, m) /\ DigestMatches(m)
  BY <1>2, <1>4 DEF RowReady, Approves, StillMatches, Sound, m
<1> QED  BY <1>3, <1>5 DEF Replayable, m

\* The inventory says that a fixture is ready exactly when a replay of it would pass,
\* whatever has been imported, torn or left behind: the gate of the manifest, which
\* only the replay looks at, was passed when it was written, and a digest was taken of
\* a file that is there.
THEOREM VaultReadyIsReplayable == VaultSpec => []ReadyIffReplayable
<1> QED
  BY VaultAssumption, VaultInitInv, VaultNextInv, ReadyInit, ReadyStep, ReadyIsReplayable,
     PTL DEF VaultSpec

-----------------------------------------------------------------------------
(***************************************************************************)
(* Personas: the layers of a profile are sorted, repeated by weight and    *)
(* dealt to a batch; no weight, count or repair loses one.                 *)
(***************************************************************************)
\* A list in an order has every member.
LEMMA ListedInOrder ==
  ASSUME NEW S, IsFiniteSet(S), NEW R, InLine(S, R)
  PROVE  InOrder(S, R) \in Seq(S) /\ Range(InOrder(S, R)) = S
<1>1. \E q : Sorted(q, S, R)  BY LinesCanBeSorted DEF Sortable
<1>2. Sorted(InOrder(S, R), S, R)  BY <1>1 DEF InOrder, Sorted
<1> QED  BY <1>2, SortedHasAll

\* A plan with a number for every layer it names, as a plan file has.
Weighs(plan) == \A l \in DOMAIN plan : plan[l] \in Int

\* A plan gives every layer a number, 1 by default.
LEMMA WeightsAre == ASSUME NEW plan, Weighs(plan), NEW l PROVE WeightIn(plan, l) \in Int
BY DEF Weighs, WeightIn

\* Both orders put the layers of a profile in a line: the fields have different layers
\* and two layers have different names.
LEMMA LayersInLine ==
  ASSUME NEW profile \in SUBSET Layers
  PROVE  /\ IsFiniteSet(profile) /\ InLine(profile, FieldOrder)
         /\ \A plan : Weighs(plan) => InLine(profile, WeightOrder(plan))
<1> DEFINE n == Len(LayerFields)
<1>1. n \in Nat /\ DOMAIN LayerFields = 1..n /\ LayerFields \in [1..n -> Layers]
  BY PersonaAssumption
<1>2. \A l \in Layers : \E i \in 1..n : LayerFields[i] = l
  BY <1>1 DEF Layers, ToSet
<1>3. \A i, j \in 1..n : LayerFields[i] = LayerFields[j] => i = j
  BY <1>1, PersonaAssumption
<1> HIDE DEF n
<1>4. IsFiniteSet(Layers)
  <2>1. LayerFields \in Surjection(1..n, Layers)  BY <1>1, <1>2 DEF Surjection
  <2>2. IsFiniteSet(1..n)  BY <1>1, FS_Interval
  <2> QED  BY <2>1, <2>2, FS_Surjection
<1>5. IsFiniteSet(profile)  BY <1>4, FS_Subset
<1>6. InLine(profile, FieldOrder)
  <2>1. \A i, j \in 1..n : <<LayerFields[i], LayerFields[j]>> \in FieldOrder <=> i < j
    <3> SUFFICES ASSUME NEW i \in 1..n, NEW j \in 1..n
                 PROVE <<LayerFields[i], LayerFields[j]>> \in FieldOrder <=> i < j
      OBVIOUS
    <3>1. <<LayerFields[i], LayerFields[j]>> \in Layers \X Layers  BY <1>1
    <3>2. ASSUME <<LayerFields[i], LayerFields[j]>> \in FieldOrder PROVE i < j
      <4>1. PICK a, b \in 1..n : a < b /\ LayerFields[a] = LayerFields[i] /\ LayerFields[b] = LayerFields[j]
        BY <1>1, <3>2 DEF FieldOrder
      <4>2. a = i /\ b = j  BY <1>3, <4>1
      <4> QED  BY <4>1, <4>2
    <3>3. ASSUME i < j PROVE <<LayerFields[i], LayerFields[j]>> \in FieldOrder
      BY <1>1, <3>1, <3>3 DEF FieldOrder
    <3> QED  BY <3>2, <3>3
  <2>2. ASSUME NEW x \in profile, NEW y \in profile
        PROVE  <<x, y>> \in FieldOrder \/ <<y, x>> \in FieldOrder \/ x = y
    <3>1. PICK i \in 1..n : LayerFields[i] = x  BY <1>2
    <3>2. PICK j \in 1..n : LayerFields[j] = y  BY <1>2
    <3>3. i < j \/ j < i \/ i = j  OBVIOUS
    <3> QED  BY <2>1, <3>1, <3>2, <3>3
  <2>3. ASSUME NEW x \in profile, NEW y \in profile, NEW z \in profile,
               <<x, y>> \in FieldOrder, <<y, z>> \in FieldOrder
        PROVE  <<x, z>> \in FieldOrder
    <3>1. PICK i \in 1..n : LayerFields[i] = x  BY <1>2
    <3>2. PICK j \in 1..n : LayerFields[j] = y  BY <1>2
    <3>3. PICK k \in 1..n : LayerFields[k] = z  BY <1>2
    <3>4. i < j /\ j < k  BY <2>1, <2>3, <3>1, <3>2, <3>3
    <3>5. i < k  BY <3>4
    <3> QED  BY <2>1, <3>1, <3>3, <3>5
  <2>4. ASSUME NEW x \in profile PROVE <<x, x>> \notin FieldOrder
    <3>1. PICK i \in 1..n : LayerFields[i] = x  BY <1>2
    <3> QED  BY <2>1, <3>1
  <2> QED  BY <2>2, <2>3, <2>4 DEF InLine
<1>7. ASSUME NEW plan, Weighs(plan) PROVE InLine(profile, WeightOrder(plan))
  <2>1. \A k, l \in profile : <<k, l>> \in WeightOrder(plan) <=>
           \/ WeightIn(plan, k) > WeightIn(plan, l)
           \/ WeightIn(plan, k) = WeightIn(plan, l) /\ LayerRank[k] < LayerRank[l]
    BY DEF WeightOrder
  <2>2. ASSUME NEW l \in profile PROVE WeightIn(plan, l) \in Int /\ LayerRank[l] \in Int
    BY <1>7, WeightsAre, PersonaAssumption
  <2>3. \A k, l \in profile : LayerRank[k] = LayerRank[l] => k = l
    <3>1. \A k, l \in Layers : LayerRank[k] = LayerRank[l] => k = l  BY PersonaAssumption
    <3> QED  BY <3>1
  <2> QED  BY <2>1, <2>2, <2>3 DEF InLine
<1> QED  BY <1>5, <1>6, <1>7

\* However small its weight, a layer is dealt at least once.
LEMMA RepeatsOnce == ASSUME NEW plan, Weighs(plan), NEW l PROVE Repeats(plan, l) \in Nat \ {0}
<1> DEFINE r == Rounded(WeightIn(plan, l))
<1>1. r \in Int  BY WeightsAre DEF Rounded
<1> HIDE DEF r
<1>2. Max({1, r}) = IF 1 <= r THEN r ELSE 1  BY <1>1, MaxOfTwo
<1> QED  BY <1>1, <1>2 DEF Repeats, r

\* The sequence that is dealt has every layer of the profile and no other.
LEMMA LayersAreListed ==
  ASSUME NEW profile \in SUBSET Layers, profile # {}, NEW plan, Weighs(plan)
  PROVE  /\ LayerSequence(profile, plan) \in Seq(profile)
         /\ profile \subseteq Range(LayerSequence(profile, plan))
<1>1. /\ IsFiniteSet(profile) /\ InLine(profile, FieldOrder)
      /\ InLine(profile, WeightOrder(plan))
  BY LayersInLine
<1>2. CASE DOMAIN plan = {}
  <2>1. LayerSequence(profile, plan) = InOrder(profile, FieldOrder)  BY <1>2 DEF LayerSequence
  <2> QED  BY <1>1, <2>1, ListedInOrder
<1>3. CASE DOMAIN plan # {}
  <2> DEFINE sorted == InOrder(profile, WeightOrder(plan))
             times == [i \in DOMAIN sorted |-> Repeats(plan, sorted[i])]
             n == Len(sorted)
             seqs == [i \in DOMAIN sorted |-> [k \in 1..Repeats(plan, sorted[i]) |-> sorted[i]]]
  <2>1. LayerSequence(profile, plan) = FlattenSeq(seqs)  BY <1>3 DEF LayerSequence
  <2>2. sorted \in Seq(profile) /\ Range(sorted) = profile  BY <1>1, ListedInOrder
  <2> HIDE DEF sorted
  <2>3. n \in Nat /\ DOMAIN sorted = 1..n /\ n # 0
    <3>1. n \in Nat /\ DOMAIN sorted = 1..n  BY <2>2
    <3>2. PICK l \in profile : TRUE  OBVIOUS
    <3>3. PICK i \in DOMAIN sorted : sorted[i] = l  BY <2>2, <3>2 DEF Range
    <3> QED  BY <3>1, <3>3
  <2> HIDE DEF n
  <2>4. ASSUME NEW i \in 1..n
        PROVE  seqs[i] \in Seq(profile) /\ sorted[i] \in Range(seqs[i])
    <3> DEFINE r == Repeats(plan, sorted[i])
    <3>1. r \in Nat \ {0}  BY RepeatsOnce
    <3>2. sorted[i] \in profile  BY <2>2, <2>3
    <3>3. seqs[i] = [k \in 1..r |-> sorted[i]]  BY <2>3
    <3> HIDE DEF r, seqs
    <3>4. seqs[i] \in [1..r -> profile]  BY <3>2, <3>3
    <3>5. seqs[i] \in Seq(profile)  BY <3>1, <3>4
    <3>6. 1 \in 1..r /\ DOMAIN seqs[i] = 1..r /\ seqs[i][1] = sorted[i]  BY <3>1, <3>3
    <3> QED  BY <3>5, <3>6 DEF Range
  <2>5. seqs \in [1..n -> Seq(profile)]
    <3>1. seqs = [i \in 1..n |-> seqs[i]]  BY <2>3
    <3> HIDE DEF seqs
    <3> QED  BY <2>4, <3>1
  <2> HIDE DEF seqs
  <2>6. FlattenSeq(seqs) \in Seq(profile)  BY <2>3, <2>5, FlattenLength
  <2>7. \A i \in 1..n : sorted[i] \in Range(FlattenSeq(seqs))
    <3>1. \A i \in 1..n : Range(seqs[i]) \subseteq Range(FlattenSeq(seqs))  BY <2>3, <2>5, FlattenHas
    <3> QED  BY <2>4, <3>1
  <2>8. profile \subseteq Range(FlattenSeq(seqs))  BY <2>2, <2>3, <2>7 DEF Range
  <2> QED  BY <2>1, <2>6, <2>8
<1> QED  BY <1>2, <1>3

\* What a batch is planned for: every layer is in a share, and no share is empty.
Shared(shares, profile, n) ==
  /\ shares \in [1..n -> SUBSET Layers]
  /\ \A l \in profile : \E i \in 1..n : l \in shares[i]
  /\ profile # {} => \A i \in 1..n : shares[i] # {}

\* The shares that are dealt to n personas are such a plan, whatever the weights.
LEMMA SharesAreDealt ==
  ASSUME NEW profile \in SUBSET Layers, NEW n \in Nat \ {0}, NEW plan, Weighs(plan)
  PROVE  Shared(ProfilesForBatch(profile, n, plan), profile, n)
<1> DEFINE layers == LayerSequence(profile, plan)
           shares == ProfilesForBatch(profile, n, plan)
           m == Len(layers)
<1>1. CASE profile = {} \/ n = 1 \/ m <= 1
  <2>1. shares = [i \in 1..n |-> profile]  BY <1>1 DEF ProfilesForBatch
  <2>2. 1 \in 1..n  OBVIOUS
  <2> HIDE DEF shares
  <2>3. shares \in [1..n -> SUBSET Layers]  BY <2>1
  <2>4. \A i \in 1..n : shares[i] = profile  BY <2>1
  <2>5. Shared(shares, profile, n)  BY <2>2, <2>3, <2>4 DEF Shared
  <2> QED  BY <2>5 DEF shares
<1>2. CASE profile # {} /\ ~(n = 1 \/ m <= 1)
  <2>1. shares = [i \in 1..n |-> IF Dealt(layers, n, i) # {} THEN Dealt(layers, n, i)
                                 ELSE {layers[((i - 1) % m) + 1]}]
    BY <1>2 DEF ProfilesForBatch
  <2>2. layers \in Seq(profile) /\ profile \subseteq Range(layers)  BY <1>2, LayersAreListed
  <2> HIDE DEF layers
  <2>3. m \in Nat /\ DOMAIN layers = 1..m /\ \A k \in 1..m : layers[k] \in profile
    BY <2>2
  <2>4. m > 1  BY <1>2, <2>3
  <2> HIDE DEF m, shares
  <2>5. ASSUME NEW i \in 1..n PROVE shares[i] # {} /\ shares[i] \in SUBSET profile
    <3>1. CASE Dealt(layers, n, i) # {}
      <4>1. shares[i] = Dealt(layers, n, i)  BY <2>1, <3>1
      <4>2. Dealt(layers, n, i) \subseteq profile  BY <2>3 DEF Dealt
      <4> QED  BY <3>1, <4>1, <4>2
    <3>2. CASE Dealt(layers, n, i) = {}
      <4>1. shares[i] = {layers[((i - 1) % m) + 1]}  BY <2>1, <3>2
      <4>2. (i - 1) % m \in 0..(m - 1)  BY <2>4, <2>3
      <4>3. ((i - 1) % m) + 1 \in 1..m  BY <4>2, <2>3
      <4> QED  BY <2>3, <4>1, <4>3
    <3> QED  BY <3>1, <3>2
  <2>6. ASSUME NEW l \in profile PROVE \E i \in 1..n : l \in shares[i]
    <3>1. PICK k \in 1..m : layers[k] = l  BY <2>2, <2>3 DEF Range
    <3> DEFINE r == (k - 1) % n
    <3>2. r \in 0..(n - 1)  OBVIOUS
    <3> DEFINE i == r + 1
    <3>3. i \in 1..n /\ i - 1 = r  BY <3>2
    <3>4. l \in Dealt(layers, n, i)
      <4>1. k \in {j \in DOMAIN layers : (j - 1) % n = i - 1}  BY <2>3, <3>3
      <4> QED  BY <3>1, <4>1 DEF Dealt
    <3> HIDE DEF i, r
    <3>5. shares[i] = Dealt(layers, n, i)  BY <2>1, <3>3, <3>4
    <3> QED  BY <3>3, <3>4, <3>5
  <2>7. shares \in [1..n -> SUBSET Layers]
    <3>1. shares = [i \in 1..n |-> shares[i]]  BY <2>1
    <3>2. \A i \in 1..n : shares[i] \in SUBSET Layers  BY <2>5
    <3> QED  BY <3>1, <3>2
  <2>8. Shared(shares, profile, n)  BY <2>5, <2>6, <2>7 DEF Shared
  <2> QED  BY <2>8 DEF shares
<1> QED  BY <1>1, <1>2

\* The rows that the outcomes of a batch are counted from.
Judged == [jailbreak : BOOLEAN, high : BOOLEAN,
           outcome : {"error", "skipped", "partial", "failure"}]
Outcomes == [there : BOOLEAN, label : {WeakLabel(r) : r \in Judged}]

\* What a batch is, as far as the proof needs it.
BatchShape ==
  /\ batch = [at |-> batch.at, number |-> batch.number, dry |-> batch.dry,
              profile |-> batch.profile, plan |-> batch.plan, shares |-> batch.shares,
              personas |-> batch.personas, attempt |-> batch.attempt,
              results |-> batch.results]
  /\ batch.at \in {"idle", "generate", "attack", "reported"}
  /\ batch.results \in Seq(Outcomes)

\* The personas of a batch cover the first shares, and all of them from the attack on.
Covered(shares, personas, n) ==
  /\ personas \in Seq(SUBSET Layers) /\ Len(personas) <= n
  /\ \A i \in 1..Len(personas) : shares[i] \subseteq personas[i]

\* A batch under way was planned for n personas: it has fewer until it goes to attack.
BatchInv ==
  /\ BatchShape /\ Weighs(planFile)
  /\ batch.at # "idle" =>
       \E n \in Nat \ {0} :
         /\ Shared(batch.shares, batch.profile, n)
         /\ Covered(batch.shares, batch.personas, n)
         /\ batch.at = "generate" => Len(batch.personas) < n
         /\ batch.at # "generate" => Len(batch.personas) = n

\* A covered plan has every layer in some persona.
LEMMA LayersTried == BatchInv => EveryLayerIsTried
<1> SUFFICES ASSUME BatchInv, batch.at \in {"attack", "reported"}
             PROVE  /\ batch.profile \subseteq UNION ToSet(batch.personas)
                    /\ \A i \in DOMAIN batch.personas :
                          /\ batch.shares[i] \subseteq batch.personas[i]
                          /\ batch.profile # {} => batch.shares[i] # {}
  BY DEF EveryLayerIsTried
<1>1. PICK n \in Nat \ {0} :
        /\ Shared(batch.shares, batch.profile, n)
        /\ Covered(batch.shares, batch.personas, n)
        /\ Len(batch.personas) = n
  BY DEF BatchInv
<1>2. DOMAIN batch.personas = 1..n /\ \A i \in 1..n : batch.shares[i] \subseteq batch.personas[i]
  BY <1>1 DEF Covered
<1>3. \A l \in batch.profile : \E i \in 1..n : l \in batch.personas[i]
  BY <1>1, <1>2 DEF Shared
<1>4. \A i \in 1..n : batch.personas[i] \in ToSet(batch.personas)  BY <1>2 DEF ToSet
<1> QED  BY <1>1, <1>2, <1>3, <1>4 DEF Shared

LEMMA BatchStarts == BatchInit => BatchInv
<1> SUFFICES ASSUME BatchInit PROVE BatchInv  OBVIOUS
<1>1. BatchShape
  <2>1. <<>> \in Seq(Outcomes)  OBVIOUS
  <2> QED  BY <2>1 DEF BatchInit, NoBatch, BatchShape
<1>2. Weighs(planFile) /\ batch.at = "idle"  BY DEF BatchInit, NoBatch, NoPlan, Weighs
<1> QED  BY <1>1, <1>2 DEF BatchInv

\* Back to nothing, when a campaign ends.
LEMMA BatchGone ==
  ASSUME BatchInv, batch' = [NoBatch EXCEPT !.number = batch.number], UNCHANGED planFile
  PROVE  BatchInv'
<1>1. <<>> \in Seq(Outcomes)  OBVIOUS
<1>2. BatchShape'  BY <1>1 DEF NoBatch, BatchShape
<1>3. batch'.at = "idle" /\ Weighs(planFile')  BY DEF NoBatch, BatchInv, Weighs
<1> QED  BY <1>2, <1>3 DEF BatchInv

LEMMA BatchIsDealt == BatchInv /\ BatchStart => BatchInv'
<1> SUFFICES ASSUME BatchInv, BatchStart PROVE BatchInv'  OBVIOUS
<1>1. PICK profile \in LayerProfiles, n \in BatchSizes, dry \in BOOLEAN,
           plan \in EditedPlans \cup {NoPlan, planFile} :
        batch' = [NoBatch EXCEPT !.at = "generate", !.number = batch.number + 1,
                     !.dry = dry, !.profile = profile, !.plan = plan,
                     !.shares = ProfilesForBatch(profile, n, plan)]
  BY DEF BatchStart
<1>2. UNCHANGED planFile /\ Weighs(planFile)  BY DEF BatchStart, BatchInv
<1>3. Weighs(plan)
  <2>1. CASE plan \in EditedPlans
    <3>1. \A l \in DOMAIN plan : plan[l] \in Nat  BY <2>1, PersonaAssumption
    <3> QED  BY <3>1 DEF Weighs
  <2>2. CASE plan = NoPlan  BY <2>2 DEF NoPlan, Weighs
  <2>3. CASE plan = planFile  BY <1>2, <2>3
  <2> QED  BY <2>1, <2>2, <2>3
<1>4. profile \in SUBSET Layers /\ n \in Nat \ {0}  BY PersonaAssumption
<1>5. Shared(ProfilesForBatch(profile, n, plan), profile, n)  BY <1>3, <1>4, SharesAreDealt
<1>6. /\ batch'.shares = ProfilesForBatch(profile, n, plan) /\ batch'.profile = profile
      /\ batch'.personas = <<>> /\ batch'.at = "generate" /\ batch'.results = <<>>
      /\ BatchShape'
  <2> DEFINE shares == ProfilesForBatch(profile, n, plan)
  <2>1. batch' = [NoBatch EXCEPT !.at = "generate", !.number = batch.number + 1,
                     !.dry = dry, !.profile = profile, !.plan = plan, !.shares = shares]
    BY <1>1
  <2> HIDE DEF shares
  <2>2. /\ batch'.shares = shares /\ batch'.profile = profile
        /\ batch'.personas = <<>> /\ batch'.at = "generate" /\ batch'.results = <<>>
        /\ batch' = [at |-> batch'.at, number |-> batch'.number, dry |-> batch'.dry,
              profile |-> batch'.profile, plan |-> batch'.plan, shares |-> batch'.shares,
              personas |-> batch'.personas, attempt |-> batch'.attempt,
              results |-> batch'.results]
    BY <2>1 DEF NoBatch
  <2>3. <<>> \in Seq(Outcomes)  OBVIOUS
  <2>4. BatchShape'  BY <2>2, <2>3 DEF BatchShape
  <2> QED  BY <2>2, <2>4 DEF shares
<1>7. Covered(batch'.shares, batch'.personas, n) /\ Len(batch'.personas) < n
  <2>1. <<>> \in Seq(SUBSET Layers) /\ Len(<<>>) = 0  OBVIOUS
  <2> QED  BY <1>4, <1>6, <2>1 DEF Covered
<1>8. Shared(batch'.shares, batch'.profile, n)  BY <1>5, <1>6
<1>9. Weighs(planFile')  BY <1>2 DEF Weighs
<1> QED  BY <1>4, <1>6, <1>7, <1>8, <1>9 DEF BatchInv

\* A persona that covers its share.
LEMMA PersonaIsAdded ==
  ASSUME BatchInv, batch.at = "generate", UNCHANGED planFile,
         NEW hints \in SUBSET Layers, Share1 \subseteq hints, Generated(hints)
  PROVE  BatchInv'
<1>1. PICK n \in Nat \ {0} :
        /\ Shared(batch.shares, batch.profile, n)
        /\ Covered(batch.shares, batch.personas, n)
        /\ Len(batch.personas) < n
  BY DEF BatchInv
<1> DEFINE k == Len(batch.personas)
<1>2. k \in Nat /\ k + 1 \in 1..n /\ batch.personas \in Seq(SUBSET Layers)
  BY <1>1 DEF Covered
<1>3. Len(batch.shares) = n  BY <1>1 DEF Shared
<1>4. /\ batch'.personas = Append(batch.personas, hints)
      /\ batch'.at = IF k + 1 = n THEN "attack" ELSE "generate"
      /\ batch'.shares = batch.shares /\ batch'.profile = batch.profile
      /\ batch'.results = batch.results
      /\ BatchShape'
  <2>1. BatchShape  BY DEF BatchInv
  <2>2. batch' = [batch EXCEPT !.personas = Append(@, hints), !.attempt = 1,
                     !.at = IF k + 1 = n THEN "attack" ELSE @]
    BY <1>3 DEF Generated
  <2> HIDE DEF k
  <2>3. /\ batch'.personas = Append(batch.personas, hints)
        /\ batch'.at = IF k + 1 = n THEN "attack" ELSE "generate"
        /\ batch'.shares = batch.shares /\ batch'.profile = batch.profile
        /\ batch'.results = batch.results
        /\ batch' = [at |-> batch'.at, number |-> batch'.number, dry |-> batch'.dry,
              profile |-> batch'.profile, plan |-> batch'.plan, shares |-> batch'.shares,
              personas |-> batch'.personas, attempt |-> batch'.attempt,
              results |-> batch'.results]
    BY <2>1, <2>2 DEF BatchShape
  <2>4. BatchShape'  BY <2>1, <2>3 DEF BatchShape
  <2> QED  BY <2>3, <2>4
<1>5. /\ Append(batch.personas, hints) \in Seq(SUBSET Layers)
      /\ Len(Append(batch.personas, hints)) = k + 1
      /\ \A i \in 1..k : Append(batch.personas, hints)[i] = batch.personas[i]
      /\ Append(batch.personas, hints)[k + 1] = hints
  BY <1>2
<1> HIDE DEF k
<1>6. batch.shares[k + 1] \subseteq hints  BY DEF Share1, k
<1>7. \A i \in 1..k : batch.shares[i] \subseteq batch.personas[i]  BY <1>1 DEF Covered, k
<1>8. \A i \in 1..(k + 1) : batch'.shares[i] \subseteq batch'.personas[i]
  <2>1. \A i \in 1..(k + 1) : i \in 1..k \/ i = k + 1  BY <1>2
  <2> QED  BY <1>4, <1>5, <1>6, <1>7, <2>1
<1>9. Covered(batch'.shares, batch'.personas, n)
  <2>1. k + 1 <= n  BY <1>2
  <2> QED  BY <1>4, <1>5, <1>8, <2>1 DEF Covered
<1>10. Shared(batch'.shares, batch'.profile, n)  BY <1>1, <1>4
<1>11. Len(batch'.personas) = k + 1  BY <1>4, <1>5
<1>12. /\ batch'.at = "generate" => Len(batch'.personas) < n
       /\ batch'.at # "generate" => Len(batch'.personas) = n
  BY <1>2, <1>4, <1>11
<1>13. Weighs(planFile')  BY DEF BatchInv, Weighs
<1> QED  BY <1>4, <1>9, <1>10, <1>12, <1>13 DEF BatchInv

\* Steps that leave the shares and the personas as they are.
LEMMA BatchGoesOn ==
  ASSUME BatchInv, BatchShape', Weighs(planFile'),
         batch'.profile = batch.profile, batch'.shares = batch.shares,
         batch'.personas = batch.personas, batch.at # "idle",
         (batch'.at = "generate") <=> (batch.at = "generate")
  PROVE  BatchInv'
<1>1. PICK n \in Nat \ {0} :
         /\ Shared(batch.shares, batch.profile, n)
         /\ Covered(batch.shares, batch.personas, n)
         /\ batch.at = "generate" => Len(batch.personas) < n
         /\ batch.at # "generate" => Len(batch.personas) = n
  BY DEF BatchInv
<1>2. /\ Shared(batch'.shares, batch'.profile, n)
      /\ Covered(batch'.shares, batch'.personas, n)
      /\ batch'.at = "generate" => Len(batch'.personas) < n
      /\ batch'.at # "generate" => Len(batch'.personas) = n
  BY <1>1
<1> QED  BY <1>2 DEF BatchInv

LEMMA OutcomeIsKept == BatchInv /\ Outcome => BatchInv'
<1> SUFFICES ASSUME BatchInv, Outcome PROVE BatchInv'  OBVIOUS
<1>1. PICK r : /\ r \in Outcomes
               /\ batch' = [batch EXCEPT !.results = Append(@, r)]
  <2>1. PICK there \in BOOLEAN, jailbreak \in BOOLEAN, high \in BOOLEAN,
             outcome \in {"error", "skipped", "partial", "failure"} :
          batch' = [batch EXCEPT !.results = Append(@,
             [there |-> there, label |-> WeakLabel([jailbreak |-> jailbreak, high |-> high,
                                                    outcome |-> outcome])])]
    BY ZenonT(30) DEF Outcome
  <2> DEFINE r == [there |-> there,
                   label |-> WeakLabel([jailbreak |-> jailbreak, high |-> high,
                                        outcome |-> outcome])]
  <2>2. [jailbreak |-> jailbreak, high |-> high, outcome |-> outcome] \in Judged
    BY DEF Judged
  <2>3. r \in Outcomes  BY <2>2 DEF Outcomes
  <2> QED  BY <2>1, <2>3
<1>2. batch.at = "attack" /\ UNCHANGED planFile  BY DEF Outcome
<1>3. BatchShape  BY DEF BatchInv
<1>4. Append(batch.results, r) \in Seq(Outcomes)
  <2>1. batch.results \in Seq(Outcomes)  BY <1>3 DEF BatchShape
  <2> QED  BY <1>1, <2>1
<1>5. /\ batch'.at = batch.at /\ batch'.results = Append(batch.results, r)
      /\ batch'.shares = batch.shares /\ batch'.profile = batch.profile
      /\ batch'.personas = batch.personas
      /\ batch' = [at |-> batch'.at, number |-> batch'.number, dry |-> batch'.dry,
              profile |-> batch'.profile, plan |-> batch'.plan, shares |-> batch'.shares,
              personas |-> batch'.personas, attempt |-> batch'.attempt,
              results |-> batch'.results]
  BY <1>1, <1>3 DEF BatchShape
<1>6. BatchShape'  BY <1>3, <1>4, <1>5 DEF BatchShape
<1>7. Weighs(planFile')  BY <1>2 DEF BatchInv, Weighs
<1> QED  BY <1>2, <1>5, <1>6, <1>7, BatchGoesOn

\* The weights that a report writes are numbers.
LEMMA ReportWeighs == ASSUME BatchInv, NEW l PROVE LayerWeight(l) \in Int
<1> DEFINE m == Len(batch.results)
           S(label) == {i \in Observed : Covers(i, l) /\ batch.results[i].label = label}
<1>1. m \in Nat /\ DOMAIN batch.results = 1..m  BY DEF BatchInv, BatchShape
<1>2. Observed \subseteq 1..m  BY <1>1 DEF Observed
<1> HIDE DEF m
<1>3. ASSUME NEW label PROVE Cardinality(S(label)) \in Nat
  <2>1. S(label) \subseteq 1..m  BY <1>2
  <2> HIDE DEF S
  <2> QED  BY <1>1, <2>1, Parts
<1> DEFINE x == 100 + 200 * Cardinality(S("confirmed_jailbreak")) + 75 * Cardinality(S("near_miss"))
<1>4. x \in Int
  <2> DEFINE a == Cardinality(S("confirmed_jailbreak"))
             b == Cardinality(S("near_miss"))
  <2>1. a \in Nat /\ b \in Nat  BY <1>3
  <2> HIDE DEF a, b
  <2>2. 100 + 200 * a + 75 * b \in Int  BY <2>1
  <2> QED  BY <2>2 DEF a, b
<1>5. LayerWeight(l) = Max({25, x})  BY DEF LayerWeight
<1> HIDE DEF x
<1>6. Max({25, x}) = IF 25 <= x THEN x ELSE 25  BY <1>4, MaxOfTwo
<1> QED  BY <1>4, <1>5, <1>6

LEMMA ReportIsWritten == BatchInv /\ Report => BatchInv'
<1> SUFFICES ASSUME BatchInv, Report PROVE BatchInv'  OBVIOUS
<1>1. CASE batch' = [NoBatch EXCEPT !.number = batch.number] /\ UNCHANGED planFile
  BY <1>1, BatchGone
<1>2. CASE /\ planFile' = [l \in EnabledLayers |-> LayerWeight(l)]
           /\ batch' = [batch EXCEPT !.at = "reported"]
  <2>1. batch.at = "attack" /\ BatchShape  BY DEF Report, BatchInv
  <2>2. /\ batch'.at = "reported" /\ batch'.results = batch.results
        /\ batch'.shares = batch.shares /\ batch'.profile = batch.profile
        /\ batch'.personas = batch.personas
        /\ batch' = [at |-> batch'.at, number |-> batch'.number, dry |-> batch'.dry,
              profile |-> batch'.profile, plan |-> batch'.plan, shares |-> batch'.shares,
              personas |-> batch'.personas, attempt |-> batch'.attempt,
              results |-> batch'.results]
    BY <1>2, <2>1 DEF BatchShape
  <2>3. BatchShape'  BY <2>1, <2>2 DEF BatchShape
  <2>4. Weighs(planFile')
    <3>1. \A l : LayerWeight(l) \in Int  BY ReportWeighs
    <3> QED  BY <1>2, <3>1 DEF Weighs
  <2> QED  BY <2>1, <2>2, <2>3, <2>4, BatchGoesOn
<1> QED  BY <1>1, <1>2 DEF Report

LEMMA BatchStays == BatchInv /\ [BatchNext]_batchVars => BatchInv'
<1> SUFFICES ASSUME BatchInv, [BatchNext]_batchVars PROVE BatchInv'  OBVIOUS
<1>0. ASSUME batch.at = "generate" PROVE Share1 \in SUBSET Layers
  <2>1. PICK n \in Nat \ {0} : /\ Shared(batch.shares, batch.profile, n)
                               /\ Covered(batch.shares, batch.personas, n)
                               /\ Len(batch.personas) < n
    BY <1>0 DEF BatchInv
  <2>2. Len(batch.personas) + 1 \in 1..n  BY <2>1 DEF Covered
  <2> QED  BY <2>1, <2>2 DEF Shared, Share1
<1>1. CASE BatchStart  BY <1>1, BatchIsDealt
<1>2. CASE DryPersona  BY <1>0, <1>2, PersonaIsAdded DEF DryPersona
<1>3. CASE LivePersona
  <2>1. PICK hints \in Unasked : Generated(Repaired(hints, Share1))  BY <1>3 DEF LivePersona
  <2>2. batch.at = "generate" /\ UNCHANGED planFile  BY <1>3 DEF LivePersona
  <2>3. Share1 \subseteq Repaired(hints, Share1) /\ Repaired(hints, Share1) \in SUBSET Layers
    <3>1. hints \in SUBSET Layers  BY PersonaAssumption
    <3> QED  BY <1>0, <2>2, <3>1 DEF Repaired
  <2> QED  BY <2>1, <2>2, <2>3, PersonaIsAdded
<1>4. CASE Malformed
  <2>1. CASE batch.attempt = 3  BY <1>4, <2>1, BatchGone DEF Malformed
  <2>2. CASE batch.attempt # 3
    <3>1. batch.at = "generate" /\ UNCHANGED planFile /\ batch' = [batch EXCEPT !.attempt = @ + 1]
      BY <1>4, <2>2 DEF Malformed
    <3>2. BatchShape  BY DEF BatchInv
    <3>3. /\ batch'.at = batch.at /\ batch'.results = batch.results
          /\ batch'.shares = batch.shares /\ batch'.profile = batch.profile
          /\ batch'.personas = batch.personas
          /\ batch' = [at |-> batch'.at, number |-> batch'.number, dry |-> batch'.dry,
              profile |-> batch'.profile, plan |-> batch'.plan, shares |-> batch'.shares,
              personas |-> batch'.personas, attempt |-> batch'.attempt,
              results |-> batch'.results]
      BY <3>1, <3>2 DEF BatchShape
    <3>4. BatchShape'  BY <3>2, <3>3 DEF BatchShape
    <3>5. Weighs(planFile')  BY <3>1 DEF BatchInv, Weighs
    <3> QED  BY <3>1, <3>3, <3>4, <3>5, BatchGoesOn
  <2> QED  BY <2>1, <2>2
<1>5. CASE GenerationRaises  BY <1>5, BatchGone DEF GenerationRaises
<1>6. CASE Outcome  BY <1>6, OutcomeIsKept
<1>7. CASE Report  BY <1>7, ReportIsWritten
<1>8. CASE UNCHANGED batchVars  BY <1>8 DEF batchVars, BatchInv, BatchShape
<1> QED  BY <1>1, <1>2, <1>3, <1>4, <1>5, <1>6, <1>7, <1>8 DEF BatchNext

\* A batch that is sent to attack tries every layer of its fixture, and every persona
\* the layers it was planned for: for every profile, batch size and plan file
\* (batch_planning.py, quality.py).
THEOREM EveryBatchTriesAll == BatchSpec => []EveryLayerIsTried
<1>1. BatchSpec => []BatchInv  BY BatchStarts, BatchStays, PTL DEF BatchSpec
<1> QED  BY <1>1, LayersTried, PTL

-----------------------------------------------------------------------------
(***************************************************************************)
(* The security monitor: what an alert says about the answers it is        *)
(* computed from.                                                          *)
(***************************************************************************)
\* What the store and the tasks are, which is all that the argument needs to carry.
StoreInv ==
  /\ store = [seen |-> store.seen, bare |-> store.bare, baseline |-> store.baseline]
  /\ store.seen \in [CanaryIds -> [Answers -> Nat]]
MonitorInv ==
  /\ StoreInv
  /\ tasks = [t \in 1..MaxTasks |-> tasks[t]]
  /\ \A t \in 1..MaxTasks : tasks[t] = [at |-> tasks[t].at, todo |-> tasks[t].todo]

\* A canary that is always answered alike is scored 100.
LEMMA AlikeScores100 ==
  ASSUME StoreInv, NEW c \in Compared(store),
         ~\E a, b \in Answers : a # b /\ store.seen[c][a] > 0 /\ store.seen[c][b] > 0
  PROVE  Similarity(c, store) = 100
<1> DEFINE seen == store.seen[c]
           n == SumFunctionOnSet(seen, Answers)
           alike == [a \in Answers |-> seen[a] * (seen[a] - 1)]
<1>1. seen \in [Answers -> Nat] /\ IsFiniteSet(Answers)
  BY MonitorAssumption DEF StoreInv, Compared
<1>2. Embedded(c, store) = n
  <2>1. DOMAIN seen = Answers  BY <1>1
  <2> QED  BY <2>1, SumOverDomain DEF Embedded
<1>3. n >= 2  BY <1>2 DEF Compared
<1>4. Similarity(c, store) = (100 * SumFunctionOnSet(alike, Answers)) \div (n * (n - 1))
  <2>1. DOMAIN alike = Answers  OBVIOUS
  <2>2. SumFunction(alike) = SumFunctionOnSet(alike, Answers)  BY <2>1, SumOverDomain
  <2> QED  BY <1>2, <2>2 DEF Similarity
<1>5. \A a, b \in Answers : a # b => ~(seen[a] > 0 /\ seen[b] > 0)  OBVIOUS
<1> HIDE DEF seen
<1>6. \A a \in Answers : seen[a] \in Nat  BY <1>1
<1>7. PICK a \in Answers : seen[a] > 0
  <2> SUFFICES ASSUME \A a \in Answers : ~(seen[a] > 0) PROVE FALSE  OBVIOUS
  <2>1. \A a \in Answers : seen[a] = 0  BY <1>6
  <2>2. n = 0 * Cardinality(Answers)  BY <1>1, <2>1, SumOfSame
  <2>3. Cardinality(Answers) \in Nat  BY <1>1, FS_CardinalityType
  <2> QED  BY <1>3, <2>2, <2>3
<1>8. \A b \in Answers \ {a} : seen[b] = 0
  <2> SUFFICES ASSUME NEW b \in Answers \ {a} PROVE seen[b] = 0  OBVIOUS
  <2>1. ~(seen[b] > 0) /\ seen[b] \in Nat  BY <1>5, <1>6, <1>7
  <2> QED  BY <2>1
<1>9. n = seen[a]
  <2>1. seen[a] \in Int  BY <1>6
  <2> QED  BY <1>1, <1>8, <2>1, SumOfOne
<1>10. SumFunctionOnSet(alike, Answers) = n * (n - 1)
  <2>1. alike[a] = n * (n - 1) /\ n \in Nat  BY <1>6, <1>9
  <2>2. n * (n - 1) \in Int  BY <2>1
  <2>3. \A b \in Answers \ {a} : alike[b] = 0
    <3> SUFFICES ASSUME NEW b \in Answers \ {a} PROVE alike[b] = 0  OBVIOUS
    <3>1. alike[b] = seen[b] * (seen[b] - 1)  OBVIOUS
    <3>2. seen[b] = 0  BY <1>8
    <3>3. 0 * (0 - 1) = 0  OBVIOUS
    <3> QED  BY <3>1, <3>2, <3>3
  <2> HIDE DEF alike, n
  <2> QED  BY <1>1, <2>1, <2>2, <2>3, SumOfOne
<1> DEFINE p == n * (n - 1)
<1>11. p \in Nat \ {0}
  <2>1. n \in Nat  BY <1>6, <1>9
  <2> HIDE DEF n
  <2>2. n - 1 \in Nat \ {0} /\ n \in Nat \ {0}  BY <2>1, <1>3
  <2>3. \A x, y \in Nat \ {0} : x * y \in Nat \ {0}  OBVIOUS
  <2> QED  BY <2>2, <2>3
<1>12. Similarity(c, store) = (100 * p) \div p  BY <1>4, <1>10
<1> HIDE DEF p
<1>13. (100 * p) \div p = 100  BY <1>11
<1> QED  BY <1>12, <1>13

\* So is the index, when every canary is.
LEMMA AlertsNeedTwoAnswers ==
  ASSUME StoreInv, IsAlert(store)
  PROVE  \E c \in CanaryIds, a, b \in Answers :
            a # b /\ store.seen[c][a] > 0 /\ store.seen[c][b] > 0
<1> SUFFICES ASSUME ~\E c \in CanaryIds, a, b \in Answers :
                         a # b /\ store.seen[c][a] > 0 /\ store.seen[c][b] > 0
             PROVE  FALSE
  OBVIOUS
<1> DEFINE C == Compared(store)
           f == [c \in C |-> Similarity(c, store)]
<1>1. \A c \in C : f[c] = 100
  <2> SUFFICES ASSUME NEW c \in C PROVE f[c] = 100  OBVIOUS
  <2>1. c \in CanaryIds  BY DEF Compared
  <2>2. Similarity(c, store) = 100  BY <2>1, AlikeScores100
  <2> QED  BY <2>2
<1>2. IsFiniteSet(C)
  <2>1. IsFiniteSet(1..WarmupCount) /\ IsFiniteSet((WarmupCount + 1)..(WarmupCount + ProbeCount))
    BY MonitorAssumption, FS_Interval
  <2>2. IsFiniteSet(CanaryIds)  BY <2>1, FS_Union DEF CanaryIds, WarmIds, Probes
  <2>3. C \subseteq CanaryIds  BY DEF Compared
  <2> HIDE DEF C
  <2> QED  BY <2>2, <2>3, FS_Subset
<1>3. ResponseConsistency(store) = 100
  <2>1. CASE C = {}  BY <2>1 DEF ResponseConsistency
  <2>2. CASE C # {}
    <3> DEFINE n == Cardinality(C)
    <3>1. ResponseConsistency(store) = SumFunctionOnSet(f, C) \div n
      <4>1. DOMAIN f = C  OBVIOUS
      <4>2. SumFunction(f) = SumFunctionOnSet(f, C)  BY <4>1, SumOverDomain
      <4> QED  BY <2>2, <4>2 DEF ResponseConsistency
    <3> HIDE DEF C
    <3>2. n \in Nat \ {0}  BY <1>2, <2>2, FS_CardinalityType, FS_EmptySet
    <3> HIDE DEF f
    <3>3. SumFunctionOnSet(f, C) = 100 * n  BY <1>1, <1>2, SumOfSame
    <3> HIDE DEF n
    <3>4. (100 * n) \div n = 100  BY <3>2
    <3> QED  BY <3>1, <3>3, <3>4
  <2> QED  BY <2>1, <2>2
<1>4. Overall(store) = 100  BY <1>3 DEF Overall, Defaulted
<1> QED  BY <1>4, MonitorAssumption DEF IsAlert

LEMMA MonitorStarts == MonitorInit => MonitorInv
BY DEF MonitorInit, MonitorInv, StoreInv

\* Recording an answer keeps the shape of the store.
LEMMA RecordsKeepShape ==
  ASSUME StoreInv, NEW c, store' \in Records(c, store)
  PROVE  StoreInv'
<1>1. CASE store' = [store EXCEPT !.bare = @ + 1]  BY <1>1 DEF StoreInv
<1>2. CASE \E a \in Answers : store' = [store EXCEPT !.seen[c][a] = @ + 1]
  <2>1. PICK a \in Answers : store' = [store EXCEPT !.seen[c][a] = @ + 1]  BY <1>2
  <2> DEFINE row == [store.seen[c] EXCEPT ![a] = @ + 1]
             seen == [store.seen EXCEPT ![c] = row]
  <2>2. store' = [store EXCEPT !.seen = seen]  BY <2>1
  <2>3. seen \in [CanaryIds -> [Answers -> Nat]]
    <3>1. CASE c \in CanaryIds
      <4>1. store.seen[c] \in [Answers -> Nat]  BY <3>1 DEF StoreInv
      <4>2. row \in [Answers -> Nat]  BY <4>1
      <4> HIDE DEF row
      <4> QED  BY <4>2 DEF StoreInv
    <3>2. CASE c \notin CanaryIds
      <4> HIDE DEF row
      <4> QED  BY <3>2 DEF StoreInv
    <3> QED  BY <3>1, <3>2
  <2> HIDE DEF seen
  <2> QED  BY <2>2, <2>3 DEF StoreInv
<1> QED  BY <1>1, <1>2 DEF Records

\* The tasks keep their shape.
TasksKept == /\ tasks' = [t \in 1..MaxTasks |-> tasks'[t]]
             /\ \A t \in 1..MaxTasks : tasks'[t] = [at |-> tasks'[t].at, todo |-> tasks'[t].todo]

LEMMA MonitorStays == MonitorInv /\ [MonitorNext]_monitorVars => MonitorInv'
<1> SUFFICES ASSUME MonitorInv, [MonitorNext]_monitorVars PROVE StoreInv' /\ TasksKept
  BY DEF MonitorInv, TasksKept
<1> USE DEF MonitorInv
<1>0. ASSUME UNCHANGED store PROVE StoreInv'  BY <1>0 DEF StoreInv
<1>t. ASSUME UNCHANGED tasks PROVE TasksKept  BY <1>t DEF TasksKept
<1>1. CASE MonitorStart  BY <1>0, <1>t, <1>1 DEF MonitorStart
<1>2. CASE WarmupProbe
  <2>1. StoreInv'
    <3>1. CASE store' = store  BY <1>0, <3>1
    <3>2. CASE store' # store  BY <1>2, <3>2, RecordsKeepShape DEF WarmupProbe
    <3> QED  BY <3>1, <3>2
  <2> QED  BY <1>2, <1>t, <2>1 DEF WarmupProbe
<1>3. CASE WarmedUp
  <2>1. StoreInv'  BY <1>3 DEF WarmedUp, Saved, StoreInv
  <2> QED  BY <1>3, <1>t, <2>1 DEF WarmedUp
<1>4. CASE Probe  BY <1>4, <1>t, RecordsKeepShape DEF Probe
<1>5. CASE RoundFails \/ CooldownEnds \/ NextRound \/ LoopEnds \/ Cancelled \/ Stop \/ Interrupt
  BY <1>0, <1>t, <1>5 DEF RoundFails, CooldownEnds, NextRound, LoopEnds, Cancelled, Stop, Interrupt
<1>6. CASE Measure
  <2>1. TasksKept
    <3>1. CASE UNCHANGED tasks  BY <1>t, <3>1
    <3>2. CASE \E t \in 1..MaxTasks : tasks' = [tasks EXCEPT ![t] = [at |-> "running", todo |-> Probes]]
      BY <3>2 DEF TasksKept
    <3> QED  BY <1>6, <3>1, <3>2 DEF Measure
  <2> QED  BY <1>0, <1>6, <2>1 DEF Measure
<1>7. CASE Shutdown
  <2>1. TasksKept  BY <1>7 DEF Shutdown, CancelActiveTasks, ActiveTasks, TasksKept
  <2> QED  BY <1>0, <1>7, <2>1 DEF Shutdown
<1>8. CASE MonitorDies
  <2>1. TasksKept  BY <1>8 DEF MonitorDies, TasksKept
  <2> QED  BY <1>0, <1>8, <2>1 DEF MonitorDies
<1>9. ASSUME NEW t \in 1..MaxTasks, TaskProbe(t) PROVE StoreInv' /\ TasksKept
  <2>1. StoreInv'  BY <1>9, RecordsKeepShape DEF TaskProbe
  <2>2. TasksKept  BY <1>9 DEF TaskProbe, TasksKept
  <2> QED  BY <2>1, <2>2
<1>10. ASSUME NEW t \in 1..MaxTasks, TaskDone(t) \/ TaskCancelled(t) PROVE StoreInv' /\ TasksKept
  <2>1. TasksKept  BY <1>10 DEF TaskDone, TaskCancelled, TasksKept
  <2> QED  BY <1>0, <1>10, <2>1 DEF TaskDone, TaskCancelled
<1>11. CASE UNCHANGED monitorVars  BY <1>0, <1>t, <1>11 DEF monitorVars
<1> QED
  BY <1>1, <1>2, <1>3, <1>4, <1>5, <1>6, <1>7, <1>8, <1>9, <1>10, <1>11 DEF MonitorNext, Step

\* Only a measurement that calls for it starts a campaign.
LEMMA OnlyAlertsLaunch ==
  ASSUME MonitorInv, MonitorNext, NEW t \in 1..MaxTasks, tasks[t].at = "none",
         tasks'[t].at = "running"
  PROVE  IsAlert(store)
<1> USE DEF MonitorInv
<1>1. CASE Measure  BY <1>1 DEF Measure, Launches
<1>2. CASE Shutdown  BY <1>2 DEF Shutdown, CancelActiveTasks, ActiveTasks
<1>3. CASE MonitorDies  BY <1>3 DEF MonitorDies
<1>4. ASSUME NEW u \in 1..MaxTasks, TaskProbe(u) PROVE FALSE
  <2>1. tasks[u].at = "running" /\ tasks' = [tasks EXCEPT ![u].todo = tasks'[u].todo]
    BY <1>4 DEF TaskProbe
  <2> QED  BY <2>1
<1>5. ASSUME NEW u \in 1..MaxTasks, TaskDone(u) \/ TaskCancelled(u) PROVE FALSE
  BY <1>5 DEF TaskDone, TaskCancelled
<1>6. CASE UNCHANGED tasks  BY <1>6
<1> QED
  BY <1>1, <1>2, <1>3, <1>4, <1>5, <1>6
     DEF MonitorNext, Step, MonitorStart, WarmupProbe, WarmedUp, Probe, RoundFails, CooldownEnds,
         NextRound, LoopEnds, Cancelled, Stop, Interrupt

\* A follow-up campaign is only started on evidence, for any number of canaries, answers,
\* rounds and restarts: the index stays at 100 while every canary has one answer
\* (telemetry/scoring.py, asi.py, daemon/monitor.py).
THEOREM CampaignsNeedEvidence == MonitorSpec => AlertsAreEvidenced
<1>1. MonitorInv /\ [MonitorNext]_monitorVars =>
        [\A t \in 1..MaxTasks : tasks[t].at = "none" /\ tasks'[t].at = "running" =>
            /\ TotalRecords(store) >= Window
            /\ \E c \in CanaryIds, a, b \in Answers :
                  a # b /\ store.seen[c][a] > 0 /\ store.seen[c][b] > 0]_monitorVars
  <2> SUFFICES ASSUME MonitorInv, MonitorNext, NEW t \in 1..MaxTasks,
                      tasks[t].at = "none", tasks'[t].at = "running"
               PROVE  /\ TotalRecords(store) >= Window
                      /\ \E c \in CanaryIds, a, b \in Answers :
                            a # b /\ store.seen[c][a] > 0 /\ store.seen[c][b] > 0
    OBVIOUS
  <2>1. IsAlert(store)  BY OnlyAlertsLaunch
  <2>2. StoreInv  BY DEF MonitorInv
  <2> QED  BY <2>1, <2>2, AlertsNeedTwoAnswers DEF IsAlert
<1> QED  BY <1>1, MonitorStarts, MonitorStays, PTL DEF MonitorSpec, AlertsAreEvidenced

-----------------------------------------------------------------------------
(***************************************************************************)
(* GEPA: what the lanes write.  First what a frontier and its weights are, *)
(* then the invariant: a run that fails or is killed leaves the artifacts  *)
(* of the runs before whole.                                               *)
(***************************************************************************)
\* A pool: validated candidates with a score for each objective.
PoolOk(p) == DOMAIN p \subseteq Candidates /\ \A c \in DOMAIN p : p[c] \in [Val -> Nat]

\* The candidates of a pool are finitely many.
LEMMA PoolIsFinite ==
  ASSUME NEW p, PoolOk(p), NEW S \in SUBSET DOMAIN p
  PROVE  IsFiniteSet(S) /\ Cardinality(S) \in Nat /\ Cardinality(S) <= Cardinality(Candidates)
         /\ (S # {} => Cardinality(S) >= 1) /\ Cardinality(Candidates) \in Nat
<1>1. S \subseteq Candidates /\ IsFiniteSet(Candidates)  BY CandidateAssumption DEF PoolOk
<1>2. IsFiniteSet(S) /\ Cardinality(S) <= Cardinality(Candidates)  BY <1>1, FS_Subset
<1>3. Cardinality(S) \in Nat /\ Cardinality(Candidates) \in Nat  BY <1>1, <1>2, FS_CardinalityType
<1>4. S # {} => Cardinality(S) # 0  BY <1>2, FS_EmptySet
<1> QED  BY <1>2, <1>3, <1>4

\* The total of a score table is a sum over the validation objectives.
LEMMA TotalIs ==
  ASSUME NEW f \in [Val -> Nat]
  PROVE  Total(f) = SumFunctionOnSet(f, Val) /\ Total(f) \in Int
<1>1. DOMAIN f = Val /\ \A o \in Val : f[o] \in Int  OBVIOUS
<1>2. IsFiniteSet(Val)  BY CandidateAssumption
<1>3. SumFunctionOnSet(f, Val) \in Int  BY <1>1, <1>2, SumOf
<1>4. Total(f) = SumFunctionOnSet(f, DOMAIN f)  BY SumOverDomain DEF Total
<1> QED  BY <1>1, <1>3, <1>4

\* Between scores of the same objectives no axis is missing.
LEMMA DominatesIs ==
  ASSUME NEW f \in [Val -> Nat], NEW g \in [Val -> Nat]
  PROVE  Dominates(f, g) <=> /\ \A o \in Val : f[o] >= g[o]
                             /\ \E o \in Val : f[o] > g[o]
<1>1. DOMAIN f = Val /\ DOMAIN g = Val  OBVIOUS
<1>2. \A o \in Val : Axis(f, o) = f[o] /\ Axis(g, o) = g[o]  BY <1>1 DEF Axis
<1> QED  BY <1>1, <1>2 DEF Dominates

\* What dominates adds up to more.
LEMMA DominatesMore ==
  ASSUME NEW f \in [Val -> Nat], NEW g \in [Val -> Nat], Dominates(f, g)
  PROVE  Total(f) > Total(g)
<1>1. \A o \in Val : g[o] \in Int /\ f[o] \in Int /\ g[o] <= f[o]  BY DominatesIs
<1>2. PICK o \in Val : g[o] < f[o]  BY DominatesIs
<1>3. IsFiniteSet(Val)  BY CandidateAssumption
<1>4. SumFunctionOnSet(g, Val) < SumFunctionOnSet(f, Val)  BY <1>1, <1>2, <1>3, SumGrows
<1>5. Total(f) = SumFunctionOnSet(f, Val) /\ Total(g) = SumFunctionOnSet(g, Val)  BY TotalIs
<1> QED  BY <1>1, <1>3, <1>4, <1>5, SumOf

\* What beats one that beats another beats that one too.
LEMMA DominatesTurns ==
  ASSUME NEW f \in [Val -> Nat], NEW g \in [Val -> Nat], NEW h \in [Val -> Nat],
         Dominates(f, g), Dominates(g, h)
  PROVE  Dominates(f, h)
<1>1. /\ \A o \in Val : f[o] >= g[o]
      /\ \A o \in Val : g[o] >= h[o]
  BY DominatesIs
<1>2. PICK o \in Val : f[o] > g[o]  BY DominatesIs
<1>3. \A q \in Val : f[q] \in Nat /\ g[q] \in Nat /\ h[q] \in Nat  OBVIOUS
<1>4. \A q \in Val : f[q] >= h[q]  BY <1>1, <1>3
<1>5. f[o] > h[o]  BY <1>1, <1>2, <1>3
<1> QED  BY <1>4, <1>5, DominatesIs

\* Who is not on the frontier is beaten by one who is: the best of those that beat it is.
LEMMA FrontierCovers ==
  ASSUME NEW p, PoolOk(p), NEW c \in DOMAIN p \ Frontier(p)
  PROVE  \E d \in Frontier(p) : Dominates(p[d], p[c])
<1> DEFINE D == {d \in DOMAIN p : Dominates(p[d], p[c])}
           f == [d \in DOMAIN p |-> Total(p[d])]
<1>0. \A d \in DOMAIN p : p[d] \in [Val -> Nat] /\ Total(p[d]) \in Int  BY TotalIs DEF PoolOk
<1>1. D # {}  BY DEF Frontier
<1>2. PICK d \in D : \A e \in D : f[d] >= f[e]
  <2>1. IsFiniteSet(D)  BY PoolIsFinite
  <2>2. \A d \in D : f[d] \in Int  BY <1>0
  <2> HIDE DEF D, f
  <2> QED  BY <1>1, <2>1, <2>2, HighestIsIn
<1>3. ASSUME d \notin Frontier(p) PROVE FALSE
  <2>1. PICK e \in DOMAIN p : Dominates(p[e], p[d])  BY <1>3 DEF Frontier
  <2>2. e \in D  BY <1>0, <2>1, DominatesTurns
  <2>3. Total(p[d]) >= Total(p[e])  BY <1>2, <2>2
  <2>4. Total(p[e]) > Total(p[d])  BY <1>0, <2>1, DominatesMore
  <2> QED  BY <1>0, <2>3, <2>4
<1> QED  BY <1>3

\* The best score of each objective is on the frontier, and there is one.
LEMMA FrontierHasBest ==
  ASSUME NEW p, PoolOk(p), DOMAIN p # {}
  PROVE  /\ Frontier(p) # {} /\ Frontier(p) \subseteq DOMAIN p
         /\ \A o \in Val : \E d \in Frontier(p) : \A c \in DOMAIN p : p[d][o] >= p[c][o]
<1>0. \A d \in DOMAIN p : p[d] \in [Val -> Nat]  BY DEF PoolOk
<1>1. Frontier(p) \subseteq DOMAIN p  BY DEF Frontier
<1>2. Frontier(p) # {}
  <2>1. PICK c \in DOMAIN p : TRUE  OBVIOUS
  <2> QED  BY <2>1, FrontierCovers
<1>3. ASSUME NEW o \in Val
      PROVE  \E d \in Frontier(p) : \A c \in DOMAIN p : p[d][o] >= p[c][o]
  <2> DEFINE f == [d \in DOMAIN p |-> p[d][o]]
  <2>1. PICK c \in DOMAIN p : \A e \in DOMAIN p : f[c] >= f[e]
    <3>1. IsFiniteSet(DOMAIN p)  BY PoolIsFinite
    <3>2. \A d \in DOMAIN p : f[d] \in Int  BY <1>0
    <3> HIDE DEF f
    <3> QED  BY <3>1, <3>2, HighestIsIn
  <2>2. CASE c \in Frontier(p)  BY <2>1, <2>2
  <2>3. CASE c \notin Frontier(p)
    <3>1. PICK d \in Frontier(p) : Dominates(p[d], p[c])  BY <2>3, FrontierCovers
    <3>2. p[d][o] >= p[c][o] /\ d \in DOMAIN p  BY <1>0, <1>1, <3>1, DominatesIs
    <3>3. \A e \in DOMAIN p : p[d][o] >= p[e][o]
      <4> SUFFICES ASSUME NEW e \in DOMAIN p PROVE p[d][o] >= p[e][o]  OBVIOUS
      <4>1. p[c][o] >= p[e][o]  BY <2>1
      <4>2. p[c][o] \in Nat /\ p[d][o] \in Nat /\ p[e][o] \in Nat  BY <1>0, <3>2
      <4> QED  BY <3>2, <4>1, <4>2
    <3> QED  BY <3>3
  <2> QED  BY <2>2, <2>3
<1> QED  BY <1>1, <1>2, <1>3

\* The best average of a pool is on its frontier.
LEMMA BestIsOnFrontier ==
  ASSUME NEW p, PoolOk(p), NEW c \in DOMAIN p, \A d \in DOMAIN p : Total(p[c]) >= Total(p[d])
  PROVE  c \in Frontier(p)
<1> SUFFICES ASSUME c \notin Frontier(p) PROVE FALSE  OBVIOUS
<1>1. PICK d \in DOMAIN p : Dominates(p[d], p[c])  BY DEF Frontier
<1>2. p[c] \in [Val -> Nat] /\ p[d] \in [Val -> Nat]  BY DEF PoolOk
<1>3. Total(p[d]) > Total(p[c])  BY <1>1, <1>2, DominatesMore
<1>4. Total(p[d]) \in Int /\ Total(p[c]) \in Int  BY <1>2, TotalIs
<1>5. Total(p[c]) >= Total(p[d])  OBVIOUS
<1> QED  BY <1>3, <1>4, <1>5

-----------------------------------------------------------------------------
\* A share can be split among any number of candidates.
LEMMA ShareSplits ==
  ASSUME NEW k \in 1..Cardinality(Candidates)
  PROVE  /\ Share \in Nat /\ Share \div k \in Nat
         /\ (Share \div k) * k = Share
<1> DEFINE N == Cardinality(Candidates)
           W(h) == h = [n \in 0..N |-> IF n = 0 THEN 1 ELSE n * h[n - 1]]
           h == CHOOSE h : W(h)
           g == [xi \in Nat \X Int |-> IF xi[2] \in Nat THEN xi[2] * xi[1] ELSE 0]
<1>1. N \in Nat  BY CandidateAssumption, FS_CardinalityType
<1>2. g \in [Nat \X Int -> Nat]
  <2>1. \A x, i \in Nat : i * x \in Nat  OBVIOUS
  <2>2. \A xi \in Nat \X Int : (IF xi[2] \in Nat THEN xi[2] * xi[1] ELSE 0) \in Nat  BY <2>1
  <2> QED  BY <2>2
<1>s. Share = h[N]  BY DEF Share
<1> HIDE DEF N
<1>3. Stepped(Nat, 1, g, 0, 0 + N) /\ 0 + N = N
  <2>1. 0 \in Int /\ 1 \in Nat  OBVIOUS
  <2> HIDE DEF g
  <2>2. \A m \in Nat : Stepped(Nat, 1, g, 0, 0 + m)  BY <1>2, <2>1, StepsExist, Zenon
  <2> QED  BY <1>1, <2>2
<1>4. PICK f \in [0..N -> Nat] : Steps(f, 1, g, 0, N)  BY <1>3 DEF Stepped
<1>5. W(f)
  <2>1. ASSUME NEW n \in 0..N PROVE f[n] = IF n = 0 THEN 1 ELSE n * f[n - 1]
    <3> HIDE DEF g
    <3>1. f[n] = IF n = 0 THEN 1 ELSE g[<<f[n - 1], n>>]  BY <1>4 DEF Steps
    <3>2. ASSUME n # 0 PROVE g[<<f[n - 1], n>>] = n * f[n - 1]
      <4>1. n - 1 \in 0..N /\ n \in Int /\ n \in Nat  BY <1>1, <3>2
      <4>2. f[n - 1] \in Nat  BY <4>1
      <4>3. \A x \in Nat : g[<<x, n>>] = n * x  BY <4>1 DEF g
      <4> QED  BY <4>2, <4>3
    <3> QED  BY <3>1, <3>2
  <2>2. f = [n \in 0..N |-> f[n]]  OBVIOUS
  <2> QED  BY <2>1, <2>2
<1>6. W(h)  BY <1>5
<1> HIDE DEF g, h
<1> DEFINE A == {n \in Nat : n \in 0..N => /\ h[n] \in Nat
                                          /\ \A j \in 1..n : \E m \in Nat : h[n] = m * j}
<1>7. 0 \in A
  <2>1. h[0] = 1  BY <1>1, <1>6
  <2>2. \A j \in 1..0 : FALSE  OBVIOUS
  <2> QED  BY <2>1, <2>2
<1>8. ASSUME NEW n \in Nat, n \in A PROVE n + 1 \in A
  <2> SUFFICES ASSUME n + 1 \in 0..N
               PROVE  /\ h[n + 1] \in Nat
                      /\ \A j \in 1..(n + 1) : \E m \in Nat : h[n + 1] = m * j
    OBVIOUS
  <2>1. n \in 0..N /\ n + 1 # 0 /\ (n + 1) - 1 = n  BY <1>1
  <2>2. h[n + 1] = (n + 1) * h[n]  BY <1>6, <2>1
  <2>3. h[n] \in Nat /\ \A j \in 1..n : \E m \in Nat : h[n] = m * j  BY <1>8, <2>1
  <2>4. \A x, y \in Nat : x * y \in Nat  OBVIOUS
  <2>5. h[n + 1] \in Nat  BY <2>2, <2>3, <2>4
  <2>6. ASSUME NEW j \in 1..n PROVE \E m \in Nat : h[n + 1] = m * j
    <3>1. PICK m \in Nat : h[n] = m * j  BY <2>3
    <3>2. (n + 1) * m \in Nat  BY <2>4
    <3>3. (n + 1) * (m * j) = ((n + 1) * m) * j  OBVIOUS
    <3> QED  BY <2>2, <3>1, <3>2, <3>3
  <2>7. h[n + 1] = h[n] * (n + 1)  BY <2>2, <2>3
  <2>8. \A j \in 1..(n + 1) : j \in 1..n \/ j = n + 1  OBVIOUS
  <2> QED  BY <2>3, <2>5, <2>6, <2>7, <2>8
<1>9. \A n \in Nat : n \in A
  <2> HIDE DEF A
  <2> QED  BY <1>7, <1>8, NaturalsAreIn
<1>10. h[N] \in Nat /\ \A j \in 1..N : \E m \in Nat : h[N] = m * j
  <2>1. N \in A
    <3> HIDE DEF A
    <3> QED  BY <1>1, <1>9
  <2>2. N \in 0..N  BY <1>1
  <2> QED  BY <2>1, <2>2
<1>11. k \in 1..N /\ k \in Nat \ {0}  BY DEF N
<1>12. PICK m \in Nat : Share = m * k  BY <1>10, <1>11, <1>s
<1>13. (m * k) \div k = m  BY <1>11
<1> QED  BY <1>10, <1>12, <1>13, <1>s

\* The leaders of an objective get one share between them.
LEMMA LeadersShare ==
  ASSUME NEW p, PoolOk(p), NEW front \in SUBSET DOMAIN p, front # {}, NEW o \in Val,
         NEW f, \A c \in front : f[c] = SharedLead(p, front, c, o)
  PROVE  SumFunctionOnSet(f, front) = Share
<1> DEFINE L == Leaders(p, front, o)
           k == Cardinality(L)
<1>1. IsFiniteSet(front)  BY PoolIsFinite
<1>2. \A c \in front : p[c] \in [Val -> Nat] /\ Axis(p[c], o) \in Nat  BY DEF PoolOk, Axis
<1>3. L \subseteq front /\ L # {}
  <2> DEFINE a == [c \in front |-> Axis(p[c], o)]
  <2>1. \A c \in front : a[c] \in Int  BY <1>2
  <2>2. PICK c \in front : \A d \in front : a[c] >= a[d]
    <3> HIDE DEF a
    <3> QED  BY <1>1, <2>1, HighestIsIn
  <2>3. c \in L  BY <2>2 DEF Leaders
  <2> QED  BY <2>3 DEF Leaders
<1>4. \A c \in front : f[c] = IF c \in L THEN Share \div k ELSE 0  BY DEF SharedLead
<1> HIDE DEF L
<1>5. k \in 1..Cardinality(Candidates)
  <2>1. L \in SUBSET DOMAIN p  BY <1>3
  <2>2. /\ k \in Nat /\ k <= Cardinality(Candidates) /\ k >= 1
        /\ Cardinality(Candidates) \in Nat
    BY <1>3, <2>1, PoolIsFinite
  <2> QED  BY <2>2
<1>6. Share \div k \in Nat /\ (Share \div k) * k = Share  BY <1>5, ShareSplits
<1> DEFINE u == Share \div k
<1>7. u \in Nat /\ \A c \in front : f[c] = IF c \in L THEN u ELSE 0  BY <1>4, <1>6
<1>8. u * k = Share  BY <1>6
<1> HIDE DEF u
<1>9. SumFunctionOnSet(f, front) = u * Cardinality(L)  BY <1>1, <1>3, <1>7, SumOfPart
<1> QED  BY <1>8, <1>9

\* The weights of a frontier hand out one share per member and one per objective.
LEMMA WeightsAddUp ==
  ASSUME NEW p, PoolOk(p), NEW front \in SUBSET DOMAIN p, front # {}
  PROVE  Total(Weights(p, front)) = Share * (Cardinality(front) + Cardinality(Val))
<1> DEFINE g == [cv \in front \X Val |-> SharedLead(p, front, cv[1], cv[2])]
           row(c) == [v \in Val |-> g[<<c, v>>]]
           column(v) == [c \in front |-> g[<<c, v>>]]
           rows == [c \in front |-> SumFunctionOnSet(row(c), Val)]
           columns == [v \in Val |-> SumFunctionOnSet(column(v), front)]
           ones == [c \in front |-> Share]
           w == Weights(p, front)
<1>1. IsFiniteSet(front) /\ IsFiniteSet(Val) /\ Cardinality(front) \in Nat /\ Cardinality(Val) \in Nat
  BY PoolIsFinite, CandidateAssumption, FS_CardinalityType
<1>2. Share \in Nat
  <2>1. Cardinality(front) \in 1..Cardinality(Candidates)
    <3>1. /\ Cardinality(front) <= Cardinality(Candidates) /\ Cardinality(front) >= 1
          /\ Cardinality(Candidates) \in Nat
      BY PoolIsFinite
    <3> QED  BY <1>1, <3>1
  <2> QED  BY <2>1, ShareSplits
<1>3. ASSUME NEW c, NEW v PROVE SharedLead(p, front, c, v) \in Nat
  <2> DEFINE L == Leaders(p, front, v)
             k == Cardinality(L)
  <2>1. CASE c \notin L  BY <2>1 DEF SharedLead
  <2>2. CASE c \in L
    <3>1. L \in SUBSET DOMAIN p /\ L # {}  BY <2>2 DEF Leaders
    <3> HIDE DEF L
    <3>2. /\ k \in Nat /\ k <= Cardinality(Candidates) /\ k >= 1
          /\ Cardinality(Candidates) \in Nat
      BY <3>1, PoolIsFinite
    <3>3. k \in 1..Cardinality(Candidates)  BY <3>2
    <3>4. Share \div k \in Nat  BY <3>3, ShareSplits
    <3> QED  BY <2>2, <3>4 DEF SharedLead, L
  <2> QED  BY <2>1, <2>2
<1>4. g \in [front \X Val -> Int]  BY <1>3
<1>5. UNION {DOMAIN p[d] : d \in front} = Val
  <2>1. \A d \in front : DOMAIN p[d] = Val  BY DEF PoolOk
  <2>2. PICK d \in front : TRUE  OBVIOUS
  <2> QED  BY <2>1, <2>2
<1>6. w = [c \in front |-> Share + SumFunction([s \in Val |-> SharedLead(p, front, c, s)])]
  BY <1>5 DEF Weights
<1>7. ASSUME NEW c \in front PROVE w[c] = ones[c] + rows[c] /\ ones[c] \in Int /\ rows[c] \in Int
  <2> DEFINE r == [s \in Val |-> SharedLead(p, front, c, s)]
  <2>1. r = row(c)  OBVIOUS
  <2>2. SumFunction(r) = SumFunctionOnSet(r, Val)
    <3>1. DOMAIN r = Val  OBVIOUS
    <3> HIDE DEF r
    <3> QED  BY <3>1, SumOverDomain
  <2>3. SumFunctionOnSet(r, Val) \in Int
    <3>1. \A s \in Val : r[s] \in Int  BY <1>3
    <3> HIDE DEF r
    <3> QED  BY <1>1, <3>1, SumOf
  <2>4. w[c] = Share + SumFunction(r)  BY <1>6
  <2>5. rows[c] = SumFunctionOnSet(r, Val)  BY <2>1
  <2>6. ones[c] = Share  OBVIOUS
  <2> HIDE DEF r, w, rows, ones
  <2> QED  BY <1>2, <2>2, <2>3, <2>4, <2>5, <2>6
<1>8. DOMAIN w = front  BY <1>6
<1>9. Total(w) = SumFunctionOnSet(w, front)  BY <1>8, SumOverDomain DEF Total
<1>10. SumFunctionOnSet(w, front) = SumFunctionOnSet(ones, front) + SumFunctionOnSet(rows, front)
  <2> HIDE DEF w, ones, rows
  <2> QED  BY <1>1, <1>7, SumOfBoth
<1>11. SumFunctionOnSet(ones, front) = Share * Cardinality(front)
  <2>1. \A c \in front : ones[c] = Share  OBVIOUS
  <2> HIDE DEF ones
  <2> QED  BY <1>1, <1>2, <2>1, SumOfSame
<1>12. SumFunctionOnSet(rows, front) = SumFunctionOnSet(columns, Val)
  <2> HIDE DEF g
  <2> QED  BY <1>1, <1>4, SumsTurn, Zenon
<1>13. SumFunctionOnSet(columns, Val) = Share * Cardinality(Val)
  <2>1. \A v \in Val : columns[v] = Share
    <3> SUFFICES ASSUME NEW v \in Val PROVE columns[v] = Share  OBVIOUS
    <3> DEFINE f == column(v)
    <3>1. \A c \in front : f[c] = SharedLead(p, front, c, v)  OBVIOUS
    <3>2. columns[v] = SumFunctionOnSet(f, front)  OBVIOUS
    <3> HIDE DEF f, columns
    <3>3. SumFunctionOnSet(f, front) = Share  BY <3>1, LeadersShare
    <3> QED  BY <3>2, <3>3
  <2> HIDE DEF columns
  <2> QED  BY <1>1, <1>2, <2>1, SumOfSame
<1> HIDE DEF w, ones, rows, columns
<1> DEFINE m == Cardinality(front)
           n == Cardinality(Val)
<1>14. m \in Nat /\ n \in Nat  BY <1>1
<1>15. Total(w) = Share * m + Share * n  BY <1>9, <1>10, <1>11, <1>12, <1>13
<1> HIDE DEF m, n
<1>16. Share * m + Share * n = Share * (m + n)  BY <1>2, <1>14
<1> QED  BY <1>15, <1>16 DEF w, m, n

-----------------------------------------------------------------------------
\* The records that the lanes run on keep their fields.
SpikeIs(s) ==
    s = [lane |-> s.lane, at |-> s.at, calls |-> s.calls, best |-> s.best, gate |-> s.gate,
         scores |-> s.scores, plan |-> s.plan]
DiskIs(d) ==
    d = [snapshots |-> d.snapshots, sideInfo |-> d.sideInfo, files |-> d.files,
         ledger |-> d.ledger, frontier |-> d.frontier, summary |-> d.summary,
         source |-> d.source]

\* The best candidate is the best average of the pool until the frontier is written.
BestInv ==
    spike.at \in {"control", "frontier"} =>
       /\ spike.best \in DOMAIN pool
       /\ \A d \in DOMAIN pool : Total(pool[spike.best]) >= Total(pool[d])

\* What a shadow candidate has left behind by the time its row is written.
ShadowInv ==
    /\ spike.at \in {"scoring", "recording", "appending"} =>
          spike.best \in disk.snapshots \ Stray
    /\ spike.at \in {"recording", "appending"} => spike.best \in disk.sideInfo \ Leaky
    /\ spike.at = "appending" => spike.best \in disk.files

RunInv == /\ SpikeIs(spike) /\ DiskIs(disk) /\ PoolOk(pool)
          /\ spike.scores \in [Train -> Int]
          /\ BestInv /\ ShadowInv
GepaInv == RunInv /\ ArtifactsAreWhole

\* A step that only adds to what is on the disk, and no row.
DiskGoesOn ==
    /\ DiskIs(disk') /\ disk'.frontier = disk.frontier /\ disk'.ledger = disk.ledger
    /\ disk.snapshots \subseteq disk'.snapshots /\ disk.sideInfo \subseteq disk'.sideInfo
    /\ disk.files \subseteq disk'.files

\* Nothing that only adds to the disk breaks what is on it.
LEMMA StillWhole == ASSUME ArtifactsAreWhole, DiskGoesOn PROVE ArtifactsAreWhole'
<1>1. FrontierIsComplete'  BY DEF ArtifactsAreWhole, FrontierIsComplete, DiskGoesOn, Members
<1>2. FrontierIsOpened'  BY DEF ArtifactsAreWhole, FrontierIsOpened, DiskGoesOn, Members
<1>3. LedgerIsWhole'  BY DEF ArtifactsAreWhole, LedgerIsWhole, DiskGoesOn
<1> QED  BY <1>1, <1>2, <1>3 DEF ArtifactsAreWhole

\* A step that does not write goes on from the disk as it is.
LEMMA DiskStays == ASSUME DiskIs(disk), UNCHANGED disk PROVE DiskGoesOn
BY DEF DiskIs, DiskGoesOn

\* A snapshot only adds to what is on the disk.
LEMMA DiskIsSnapshotted ==
  ASSUME DiskIs(disk), NEW c, disk' = Snapshotted(c)
  PROVE  DiskGoesOn /\ c \in disk'.snapshots
<1>1. disk' = [snapshots |-> disk.snapshots \cup {c}, sideInfo |-> disk.sideInfo,
               files |-> disk.files, ledger |-> disk.ledger, frontier |-> disk.frontier,
               summary |-> disk.summary, source |-> disk.source]
  BY DEF Snapshotted, DiskIs
<1> QED  BY <1>1 DEF DiskGoesOn, DiskIs

\* A run starts from a pool without candidates.
LEMMA NoPoolOk == PoolOk(NoPool)
BY DEF NoPool, PoolOk

\* A spike that is not running, whatever is left of the plan.
Zeros == [o \in Train |-> 0]
LEMMA OffIs ==
  ASSUME NEW plan, NEW s, s = [Off EXCEPT !.plan = plan]
  PROVE  SpikeIs(s) /\ s.at = "off" /\ s.scores \in [Train -> Int]
<1>1. Off = [lane |-> "none", at |-> "off", calls |-> 0, best |-> Seed, gate |-> FALSE,
             scores |-> Zeros, plan |-> <<>>]
  BY DEF Off, Zeros
<1>2. s = [lane |-> "none", at |-> "off", calls |-> 0, best |-> Seed, gate |-> FALSE,
           scores |-> Zeros, plan |-> plan]
  BY <1>1
<1> HIDE DEF Zeros
<1>3. /\ s.lane = "none" /\ s.at = "off" /\ s.calls = 0 /\ s.best = Seed /\ s.gate = FALSE
      /\ s.scores = Zeros /\ s.plan = plan
  BY <1>2
<1>4. Zeros \in [Train -> Int]  BY DEF Zeros
<1> QED  BY <1>2, <1>3, <1>4 DEF SpikeIs

\* A run that is over, whatever ended it, leaves what it had written.
LEMMA RunIsOver ==
  ASSUME GepaInv, spike' = Fails, pool' = pool \/ pool' = NoPool, DiskGoesOn
  PROVE  GepaInv'
<1>1. /\ SpikeIs(spike)' /\ spike'.at = "off" /\ spike'.scores \in [Train -> Int]
  <2>1. spike' = [Off EXCEPT !.plan = spike.plan]  BY DEF Fails
  <2> QED  BY <2>1, OffIs DEF SpikeIs
<1>2. PoolOk(pool')  BY NoPoolOk DEF GepaInv, RunInv
<1>3. PoolOk(pool)'  BY <1>2 DEF PoolOk
<1>4. DiskIs(disk)'  BY DEF DiskGoesOn, DiskIs
<1>5. BestInv' /\ ShadowInv'  BY <1>1 DEF BestInv, ShadowInv
<1>6. ArtifactsAreWhole'  BY StillWhole DEF GepaInv
<1> QED  BY <1>1, <1>3, <1>4, <1>5, <1>6 DEF GepaInv, RunInv

\* A step of a run that goes on, without a row.
LEMMA RunGoesOn ==
  ASSUME GepaInv, SpikeIs(spike'), PoolOk(pool'), DiskGoesOn, spike'.scores \in [Train -> Int],
         BestInv', ShadowInv'
  PROVE  GepaInv'
<1>1. SpikeIs(spike)' /\ PoolOk(pool)' /\ DiskIs(disk)'
  BY DEF SpikeIs, PoolOk, DiskGoesOn, DiskIs
<1>2. ArtifactsAreWhole'  BY StillWhole DEF GepaInv
<1> QED  BY <1>1, <1>2 DEF GepaInv, RunInv

\* At the start there are no artifacts.
LEMMA GepaStarts == GepaInit => GepaInv
<1> SUFFICES ASSUME GepaInit PROVE GepaInv  OBVIOUS
<1>1. /\ SpikeIs(spike) /\ spike.at = "off" /\ spike.scores \in [Train -> Int]
  <2>1. PICK plan \in Plans : spike = [Off EXCEPT !.plan = plan]  BY DEF GepaInit
  <2> QED  BY <2>1, OffIs
<1>2. DiskIs(disk) /\ disk.ledger = {} /\ disk.frontier.gate = FALSE /\ disk.frontier.members = {}
  BY DEF GepaInit, DiskIs
<1>3. PoolOk(pool)  BY NoPoolOk DEF GepaInit
<1>4. BestInv /\ ShadowInv  BY <1>1 DEF BestInv, ShadowInv
<1>5. ArtifactsAreWhole
  BY <1>2 DEF ArtifactsAreWhole, FrontierIsComplete, FrontierIsOpened, LedgerIsWhole, Members
<1> QED  BY <1>1, <1>2, <1>3, <1>4, <1>5 DEF GepaInv, RunInv

\* What is measured is a rate and a score.
LEMMA NormalizeIs == ASSUME NEW r \in [asr : Nat, score : Nat] PROVE Normalize(r) \in Nat
<1>1. r.asr \in Nat /\ r.score \in Nat  OBVIOUS
<1>2. Min({r.asr, 2}) = (IF r.asr <= 2 THEN r.asr ELSE 2)
  BY <1>1, MinOfTwo
<1>3. Min({r.score, 5}) = (IF r.score <= 5 THEN r.score ELSE 5)
  BY <1>1, MinOfTwo
<1>4. Min({r.asr, 2}) \in Nat /\ Min({r.score, 5}) \in Nat  BY <1>1, <1>2, <1>3
<1> QED  BY <1>4 DEF Normalize

\* Whatever a lane measures of a candidate has a score.
LEMMA MeasuredIs ==
  ASSUME NEW lane, NEW c, NEW slugs, NEW m \in Measures(lane, c, slugs), NEW o \in slugs
  PROVE  Normalize(m[o]) \in Nat
<1>1. m[o] \in [asr : Nat, score : Nat]
  <2>1. CASE lane = "defense"
    <3>1. m[o] = Verdict(c)  BY <2>1 DEF Measures
    <3> QED  BY <3>1 DEF Verdict
  <2>2. CASE lane # "defense"
    <3>1. m \in [slugs -> Results]  BY <2>2 DEF Measures
    <3> QED  BY <3>1, CandidateAssumption
  <2> QED  BY <2>1, <2>2
<1> QED  BY <1>1, NormalizeIs

\* A validated candidate joins the pool with a score for each objective.
LEMMA ValidateStays ==
  ASSUME GepaInv, NEW c \in Candidates, Validate(c)
  PROVE  GepaInv'
<1>1. PICK m \in Measures(spike.lane, c, Val) :
        pool' = [d \in DOMAIN pool \cup {c} |->
                    IF d = c THEN [o \in Val |-> Normalize(m[o])] ELSE pool[d]]
  BY DEF Validate
<1>2. SpikeIs(spike) /\ PoolOk(pool) /\ spike.scores \in [Train -> Int] /\ DiskIs(disk)
  BY DEF GepaInv, RunInv
<1>3. PoolOk(pool')
  <2>1. [o \in Val |-> Normalize(m[o])] \in [Val -> Nat]
    <3>1. \A o \in Val : Normalize(m[o]) \in Nat  BY MeasuredIs
    <3> QED  BY <3>1
  <2> DEFINE s == [o \in Val |-> Normalize(m[o])]
  <2>2. pool' = [d \in DOMAIN pool \cup {c} |-> IF d = c THEN s ELSE pool[d]]  BY <1>1
  <2> HIDE DEF s
  <2>3. s \in [Val -> Nat]  BY <2>1 DEF s
  <2> QED  BY <1>2, <2>2, <2>3 DEF PoolOk
<1>4. /\ spike' = [lane |-> spike.lane, at |-> spike.at, calls |-> spike.calls + Cardinality(Val),
                   best |-> spike.best, gate |-> spike.gate, scores |-> spike.scores,
                   plan |-> spike.plan]
      /\ spike.at = "optimizing"
  BY <1>2 DEF Validate, SpikeIs
<1>5. SpikeIs(spike') /\ spike'.at = "optimizing" /\ spike'.scores \in [Train -> Int]
  BY <1>2, <1>4 DEF SpikeIs
<1>6. BestInv' /\ ShadowInv'  BY <1>5 DEF BestInv, ShadowInv
<1>7. DiskGoesOn  BY <1>2, DiskIsSnapshotted DEF Validate
<1> QED  BY <1>3, <1>5, <1>6, <1>7, RunGoesOn

\* The parts of the invariant, by name
LEMMA RunIsGiven ==
  ASSUME GepaInv
  PROVE  /\ SpikeIs(spike) /\ PoolOk(pool) /\ DiskIs(disk)
         /\ spike.scores \in [Train -> Int] /\ BestInv /\ ShadowInv
BY DEF GepaInv, RunInv

\* A lane starts without a best candidate.
LEMMA StartStays == ASSUME GepaInv, NEW lane, Start(lane) PROVE GepaInv'
<1> DEFINE goes == IF lane = "shadow" THEN "proposing" ELSE "optimizing"
           plan == Tail(spike.plan)
<1>1. spike' = [Off EXCEPT !.lane = lane, !.plan = plan, !.at = goes]  BY DEF Start
<1>2. goes \in {"proposing", "optimizing"}  OBVIOUS
<1> HIDE DEF goes, plan
<1>3. Off = [lane |-> "none", at |-> "off", calls |-> 0, best |-> Seed, gate |-> FALSE,
             scores |-> Zeros, plan |-> <<>>]
  BY DEF Off, Zeros
<1>4. spike' = [lane |-> lane, at |-> goes, calls |-> 0, best |-> Seed, gate |-> FALSE,
                scores |-> Zeros, plan |-> plan]
  BY <1>1, <1>3
<1>5. Zeros \in [Train -> Int]  BY DEF Zeros
<1> HIDE DEF Zeros
<1>6. /\ spike'.lane = lane /\ spike'.at = goes /\ spike'.calls = 0 /\ spike'.best = Seed
      /\ spike'.gate = FALSE /\ spike'.scores = Zeros /\ spike'.plan = plan
  BY <1>4
<1>7. SpikeIs(spike') /\ spike'.scores \in [Train -> Int]  BY <1>4, <1>5, <1>6 DEF SpikeIs
<1>8. BestInv' /\ ShadowInv'  BY <1>2, <1>6 DEF BestInv, ShadowInv
<1>9. PoolOk(pool')  BY NoPoolOk DEF Start
<1>10. DiskGoesOn  BY RunIsGiven, DiskStays DEF Start
<1> QED  BY <1>7, <1>8, <1>9, <1>10, RunGoesOn

\* A minibatch leaves a snapshot.
LEMMA ReflectStays == ASSUME GepaInv, NEW c, Reflect(c) PROVE GepaInv'
<1>1. SpikeIs(spike) /\ PoolOk(pool) /\ DiskIs(disk) /\ spike.scores \in [Train -> Int]
  BY RunIsGiven
<1>2. /\ spike' = [lane |-> spike.lane, at |-> spike.at, calls |-> spike.calls + 1,
                   best |-> spike.best, gate |-> spike.gate, scores |-> spike.scores,
                   plan |-> spike.plan]
      /\ spike.at = "optimizing"
  BY <1>1 DEF Reflect, SpikeIs
<1>3. SpikeIs(spike') /\ spike'.at = "optimizing" /\ spike'.scores \in [Train -> Int]
  BY <1>1, <1>2 DEF SpikeIs
<1>4. BestInv' /\ ShadowInv'  BY <1>3 DEF BestInv, ShadowInv
<1>5. DiskGoesOn  BY <1>1, DiskIsSnapshotted DEF Reflect
<1>6. PoolOk(pool')  BY <1>1 DEF Reflect
<1> QED  BY <1>3, <1>4, <1>5, <1>6, RunGoesOn

\* The best candidate is the best average of the pool,
LEMMA OptimizedStays == ASSUME GepaInv, Optimized PROVE GepaInv'
<1> DEFINE goes == IF spike.lane = "source" THEN "applying" ELSE "control"
<1>1. SpikeIs(spike) /\ PoolOk(pool) /\ DiskIs(disk) /\ spike.scores \in [Train -> Int]
  BY RunIsGiven
<1>2. PICK c \in DOMAIN pool :
        /\ \A d \in DOMAIN pool : Total(pool[c]) >= Total(pool[d])
        /\ spike' = [spike EXCEPT !.best = c, !.at = goes]
  BY Zenon DEF Optimized
<1>3. goes \in {"applying", "control"}  OBVIOUS
<1> HIDE DEF goes
<1>4. spike' = [lane |-> spike.lane, at |-> goes, calls |-> spike.calls, best |-> c,
                gate |-> spike.gate, scores |-> spike.scores, plan |-> spike.plan]
  BY <1>1, <1>2 DEF SpikeIs
<1>5. /\ SpikeIs(spike') /\ spike'.at = goes /\ spike'.best = c
      /\ spike'.scores \in [Train -> Int]
  BY <1>1, <1>4 DEF SpikeIs
<1>6. UNCHANGED <<pool, disk>>  BY Zenon DEF Optimized
<1>7. BestInv'  BY <1>2, <1>5, <1>6 DEF BestInv
<1>8. ShadowInv'  BY <1>3, <1>5 DEF ShadowInv
<1>9. DiskGoesOn /\ PoolOk(pool')  BY <1>1, <1>6, DiskStays
<1> QED  BY <1>5, <1>7, <1>8, <1>9, RunGoesOn

\* and stays it through the control run.
LEMMA ControlStays == ASSUME GepaInv, EvaluateControl PROVE GepaInv'
<1> DEFINE goes == IF spike.lane = "prompt" THEN "frontier" ELSE "summary"
<1>1. SpikeIs(spike) /\ PoolOk(pool) /\ DiskIs(disk) /\ spike.scores \in [Train -> Int] /\ BestInv
  BY RunIsGiven
<1>2. PICK m \in Measures(spike.lane, spike.best, Control) :
        spike' = [spike EXCEPT !.gate = Gate(spike.lane, m), !.at = goes]
  BY Zenon DEF EvaluateControl
<1>3. goes \in {"frontier", "summary"}  OBVIOUS
<1> HIDE DEF goes
<1>4. spike' = [lane |-> spike.lane, at |-> goes, calls |-> spike.calls, best |-> spike.best,
                gate |-> Gate(spike.lane, m), scores |-> spike.scores, plan |-> spike.plan]
  BY <1>1, <1>2 DEF SpikeIs
<1>5. /\ SpikeIs(spike') /\ spike'.at = goes /\ spike'.best = spike.best
      /\ spike'.scores \in [Train -> Int]
  BY <1>1, <1>4 DEF SpikeIs
<1>6. UNCHANGED pool /\ spike.at = "control"  BY DEF EvaluateControl
<1>7. BestInv'  BY <1>1, <1>5, <1>6 DEF BestInv
<1>8. ShadowInv'  BY <1>3, <1>5 DEF ShadowInv
<1>9. DiskGoesOn
  <2>1. disk' = disk \/ disk' = Snapshotted(spike.best)  BY DEF EvaluateControl
  <2> QED  BY <1>1, <2>1, DiskStays, DiskIsSnapshotted
<1>10. PoolOk(pool')  BY <1>1, <1>6
<1> QED  BY <1>5, <1>7, <1>8, <1>9, <1>10, RunGoesOn

\* What is published is whole, and it is published through the gate.
LEMMA PublishStays == ASSUME GepaInv, WriteFrontier PROVE GepaInv'
<1> DEFINE front == Published(pool, spike.gate)
           shares == Weights(pool, front)
           published == [of |-> pool, members |-> front, weights |-> shares,
                         best |-> spike.best, gate |-> spike.gate]
<1>1. SpikeIs(spike) /\ PoolOk(pool) /\ DiskIs(disk) /\ spike.scores \in [Train -> Int]
      /\ BestInv /\ ShadowInv
  BY RunIsGiven
<1>2. /\ disk' = [disk EXCEPT !.frontier = published]
      /\ spike' = [spike EXCEPT !.at = "summary"]
      /\ UNCHANGED pool /\ spike.at = "frontier"
  BY DEF WriteFrontier
<1>3. /\ spike.best \in DOMAIN pool
      /\ \A d \in DOMAIN pool : Total(pool[spike.best]) >= Total(pool[d])
  BY <1>1, <1>2 DEF BestInv
<1>4. spike' = [lane |-> spike.lane, at |-> "summary", calls |-> spike.calls, best |-> spike.best,
                gate |-> spike.gate, scores |-> spike.scores, plan |-> spike.plan]
  BY <1>1, <1>2 DEF SpikeIs
<1>5. SpikeIs(spike') /\ spike'.at = "summary" /\ spike'.scores \in [Train -> Int]
  BY <1>1, <1>4 DEF SpikeIs
<1>6. BestInv' /\ ShadowInv'  BY <1>5 DEF BestInv, ShadowInv
<1>7. /\ published.of = pool /\ published.members = front /\ published.weights = shares
      /\ published.best = spike.best /\ published.gate = spike.gate
  OBVIOUS
<1>8. CASE spike.gate
  <2>1. front = Frontier(pool)  BY <1>8 DEF Published
  <2>2. \A c \in DOMAIN pool \ front : \E d \in front : Dominates(pool[d], pool[c])
    BY <1>1, <2>1, FrontierCovers
  <2>3. /\ front # {} /\ front \subseteq DOMAIN pool
        /\ \A o \in Val : \E d \in front : \A c \in DOMAIN pool : pool[d][o] >= pool[c][o]
    BY <1>1, <1>3, <2>1, FrontierHasBest
  <2>4. Total(shares) = Share * (Cardinality(front) + Cardinality(Val))
    <3>1. front \in SUBSET DOMAIN pool  BY <2>3
    <3> HIDE DEF front
    <3> QED  BY <1>1, <2>3, <3>1, WeightsAddUp
  <2>5. spike.best \in front  BY <1>1, <1>3, <2>1, BestIsOnFrontier
  <2> HIDE DEF front, shares, published
  <2>6. /\ disk' = [snapshots |-> disk.snapshots, sideInfo |-> disk.sideInfo, files |-> disk.files,
                    ledger |-> disk.ledger, frontier |-> published, summary |-> disk.summary,
                    source |-> disk.source]
    BY <1>1, <1>2 DEF DiskIs
  <2>7. /\ DiskIs(disk') /\ disk'.frontier = published /\ disk'.ledger = disk.ledger
        /\ disk'.snapshots = disk.snapshots /\ disk'.sideInfo = disk.sideInfo
        /\ disk'.files = disk.files
    BY <2>6 DEF DiskIs
  <2>8. FrontierIsComplete'
    BY <1>7, <2>2, <2>3, <2>4, <2>7 DEF FrontierIsComplete, Members
  <2>9. FrontierIsOpened'  BY <1>7, <1>8, <2>5, <2>7 DEF FrontierIsOpened, Members
  <2>10. LedgerIsWhole'  BY <2>7 DEF GepaInv, ArtifactsAreWhole, LedgerIsWhole
  <2>11. RunInv'  BY <1>1, <1>2, <1>5, <1>6, <2>7 DEF RunInv, SpikeIs, DiskIs, PoolOk
  <2> QED  BY <2>8, <2>9, <2>10, <2>11 DEF GepaInv, ArtifactsAreWhole
<1>9. CASE ~spike.gate
  <2>1. front = {}  BY <1>9 DEF Published
  <2> HIDE DEF front, shares, published
  <2>6. /\ disk' = [snapshots |-> disk.snapshots, sideInfo |-> disk.sideInfo, files |-> disk.files,
                    ledger |-> disk.ledger, frontier |-> published, summary |-> disk.summary,
                    source |-> disk.source]
    BY <1>1, <1>2 DEF DiskIs
  <2>7. /\ DiskIs(disk') /\ disk'.frontier = published /\ disk'.ledger = disk.ledger
        /\ disk'.snapshots = disk.snapshots /\ disk'.sideInfo = disk.sideInfo
        /\ disk'.files = disk.files
    BY <2>6 DEF DiskIs
  <2>8. FrontierIsComplete'  BY <1>7, <1>9, <2>7 DEF FrontierIsComplete
  <2>9. FrontierIsOpened'  BY <1>7, <2>1, <2>7 DEF FrontierIsOpened, Members
  <2>10. LedgerIsWhole'  BY <2>7 DEF GepaInv, ArtifactsAreWhole, LedgerIsWhole
  <2>11. RunInv'  BY <1>1, <1>2, <1>5, <1>6, <2>7 DEF RunInv, SpikeIs, DiskIs, PoolOk
  <2> QED  BY <2>8, <2>9, <2>10, <2>11 DEF GepaInv, ArtifactsAreWhole
<1> QED  BY <1>8, <1>9

\* The source lane patches the tree or raises.
LEMMA ApplyStays == ASSUME GepaInv, ApplySource PROVE GepaInv'
<1>1. SpikeIs(spike) /\ PoolOk(pool) /\ DiskIs(disk) /\ spike.scores \in [Train -> Int]
  BY RunIsGiven
<1>2. CASE spike' = Fails /\ pool' = NoPool /\ disk' = disk
  BY <1>1, <1>2, DiskStays, RunIsOver
<1>3. CASE /\ disk' = [disk EXCEPT !.source = "patched"]
           /\ spike' = [spike EXCEPT !.at = "summary"]
           /\ pool' = pool
  <2>1. spike' = [lane |-> spike.lane, at |-> "summary", calls |-> spike.calls,
                  best |-> spike.best, gate |-> spike.gate, scores |-> spike.scores,
                  plan |-> spike.plan]
    BY <1>1, <1>3 DEF SpikeIs
  <2>2. SpikeIs(spike') /\ spike'.at = "summary" /\ spike'.scores \in [Train -> Int]
    BY <1>1, <2>1 DEF SpikeIs
  <2>3. disk' = [snapshots |-> disk.snapshots, sideInfo |-> disk.sideInfo, files |-> disk.files,
                 ledger |-> disk.ledger, frontier |-> disk.frontier, summary |-> disk.summary,
                 source |-> "patched"]
    BY <1>1, <1>3 DEF DiskIs
  <2>4. DiskGoesOn  BY <2>3 DEF DiskGoesOn, DiskIs
  <2>5. BestInv' /\ ShadowInv'  BY <2>2 DEF BestInv, ShadowInv
  <2>6. PoolOk(pool')  BY <1>1, <1>3
  <2> QED  BY <2>2, <2>4, <2>5, <2>6, RunGoesOn
<1> QED  BY <1>2, <1>3 DEF ApplySource

\* The summary is the last that a spike writes.
LEMMA SummaryStays == ASSUME GepaInv, WriteSummary PROVE GepaInv'
<1> DEFINE written == [lane |-> spike.lane, best |-> spike.best, gate |-> spike.gate]
<1>1. DiskIs(disk)  BY RunIsGiven
<1>2. disk' = [disk EXCEPT !.summary = written]  BY DEF WriteSummary
<1> HIDE DEF written
<1>3. disk' = [snapshots |-> disk.snapshots, sideInfo |-> disk.sideInfo, files |-> disk.files,
               ledger |-> disk.ledger, frontier |-> disk.frontier, summary |-> written,
               source |-> disk.source]
  BY <1>1, <1>2 DEF DiskIs
<1>4. DiskGoesOn  BY <1>3 DEF DiskGoesOn, DiskIs
<1> QED  BY <1>4, RunIsOver DEF WriteSummary

\* The lanes' other ways to end
LEMMA EndStays ==
  ASSUME GepaInv, NEW c, Refuse(c) \/ RunnerFails(c) \/ ShadowDone \/ Kill
  PROVE  GepaInv'
<1>1. DiskIs(disk)  BY RunIsGiven
<1>2. spike' = Fails /\ pool' = NoPool  BY DEF Refuse, RunnerFails, ShadowDone, Kill
<1>3. disk' = disk \/ disk' = Snapshotted(c)  BY DEF Refuse, RunnerFails, ShadowDone, Kill
<1>4. DiskGoesOn  BY <1>1, <1>3, DiskStays, DiskIsSnapshotted
<1> QED  BY <1>2, <1>4, RunIsOver

\* A shadow candidate has its snapshot before it is evaluated,
LEMMA ProposeStays == ASSUME GepaInv, NEW c, Propose(c) PROVE GepaInv'
<1>1. SpikeIs(spike) /\ PoolOk(pool) /\ DiskIs(disk) /\ spike.scores \in [Train -> Int]
  BY RunIsGiven
<1>2. UNCHANGED pool /\ PoolOk(pool')  BY <1>1 DEF Propose
<1>3. CASE spike.calls >= Budget \/ ~Listed(c)
  BY <1>1, <1>2, <1>3, DiskStays, RunIsOver DEF Propose
<1>4. CASE ~(spike.calls >= Budget \/ ~Listed(c))
  <2>1. /\ spike' = [spike EXCEPT !.at = "scoring", !.best = c, !.calls = @ + 1]
        /\ disk' = Snapshotted(c) /\ c \notin Stray
    BY <1>4 DEF Propose, Listed
  <2>2. spike' = [lane |-> spike.lane, at |-> "scoring", calls |-> spike.calls + 1,
                  best |-> c, gate |-> spike.gate, scores |-> spike.scores,
                  plan |-> spike.plan]
    BY <1>1, <2>1 DEF SpikeIs
  <2>3. /\ SpikeIs(spike') /\ spike'.at = "scoring" /\ spike'.best = c
        /\ spike'.scores \in [Train -> Int]
    BY <1>1, <2>2 DEF SpikeIs
  <2>4. DiskGoesOn /\ c \in disk'.snapshots  BY <1>1, <2>1, DiskIsSnapshotted
  <2>5. BestInv' /\ ShadowInv'  BY <2>1, <2>3, <2>4 DEF BestInv, ShadowInv
  <2> QED  BY <1>2, <2>3, <2>4, <2>5, RunGoesOn
<1> QED  BY <1>3, <1>4

\* its side information before its row,
LEMMA ScoreStays == ASSUME GepaInv, ShadowScore PROVE GepaInv'
<1>1. /\ SpikeIs(spike) /\ PoolOk(pool) /\ DiskIs(disk) /\ spike.scores \in [Train -> Int]
      /\ ShadowInv
  BY RunIsGiven
<1>2. UNCHANGED pool /\ PoolOk(pool') /\ spike.at = "scoring"  BY <1>1 DEF ShadowScore
<1>3. CASE spike.best \in Leaky
  BY <1>1, <1>2, <1>3, DiskStays, RunIsOver DEF ShadowScore
<1>4. CASE spike.best \notin Leaky
  <2>1. PICK m \in [Train -> Results], k \in [Control -> Results] :
          /\ spike' = [spike EXCEPT !.at = "recording", !.gate = ControlHolds(k),
                                    !.scores = Scored(ControlHolds(k), m)]
          /\ disk' = [disk EXCEPT !.sideInfo = @ \cup {spike.best}]
    BY <1>4, Zenon DEF ShadowScore
  <2> DEFINE gate == ControlHolds(k)
             scores == Scored(gate, m)
  <2>2. scores \in [Train -> Int]
    <3>1. \A o \in Train : m[o] \in [asr : Nat, score : Nat]  BY CandidateAssumption
    <3>2. \A o \in Train : Normalize(m[o]) \in Nat  BY <3>1, NormalizeIs
    <3> HIDE DEF gate
    <3> QED  BY <3>2 DEF Scored
  <2> HIDE DEF gate, scores
  <2>3. spike' = [lane |-> spike.lane, at |-> "recording", calls |-> spike.calls,
                  best |-> spike.best, gate |-> gate, scores |-> scores, plan |-> spike.plan]
    BY <1>1, <2>1 DEF SpikeIs, gate, scores
  <2>4. /\ SpikeIs(spike') /\ spike'.at = "recording" /\ spike'.best = spike.best
        /\ spike'.scores \in [Train -> Int]
    BY <2>2, <2>3 DEF SpikeIs
  <2>5. disk' = [snapshots |-> disk.snapshots, sideInfo |-> disk.sideInfo \cup {spike.best},
                 files |-> disk.files, ledger |-> disk.ledger, frontier |-> disk.frontier,
                 summary |-> disk.summary, source |-> disk.source]
    BY <1>1, <2>1 DEF DiskIs
  <2>6. DiskGoesOn /\ spike.best \in disk'.sideInfo  BY <2>5 DEF DiskGoesOn, DiskIs
  <2>7. spike.best \in disk'.snapshots \ Stray
    BY <1>1, <1>2, <2>6 DEF ShadowInv, DiskGoesOn
  <2>8. BestInv' /\ ShadowInv'  BY <1>4, <2>4, <2>6, <2>7 DEF BestInv, ShadowInv
  <2> QED  BY <1>2, <2>4, <2>6, <2>8, RunGoesOn
<1> QED  BY <1>3, <1>4

\* and its file as well.
LEMMA FileStays == ASSUME GepaInv, ShadowFile PROVE GepaInv'
<1>1. /\ SpikeIs(spike) /\ PoolOk(pool) /\ DiskIs(disk) /\ spike.scores \in [Train -> Int]
      /\ ShadowInv
  BY RunIsGiven
<1>2. UNCHANGED pool /\ PoolOk(pool') /\ spike.at = "recording"  BY <1>1 DEF ShadowFile
<1>3. spike' = [lane |-> spike.lane, at |-> "appending", calls |-> spike.calls,
                best |-> spike.best, gate |-> spike.gate, scores |-> spike.scores,
                plan |-> spike.plan]
  BY <1>1 DEF ShadowFile, SpikeIs
<1>4. /\ SpikeIs(spike') /\ spike'.at = "appending" /\ spike'.best = spike.best
      /\ spike'.scores \in [Train -> Int]
  BY <1>1, <1>3 DEF SpikeIs
<1>5. disk' = [snapshots |-> disk.snapshots, sideInfo |-> disk.sideInfo,
               files |-> disk.files \cup {spike.best}, ledger |-> disk.ledger,
               frontier |-> disk.frontier, summary |-> disk.summary, source |-> disk.source]
  BY <1>1 DEF ShadowFile, DiskIs
<1>6. DiskGoesOn /\ spike.best \in disk'.files  BY <1>5 DEF DiskGoesOn, DiskIs
<1>7. BestInv' /\ ShadowInv'
  BY <1>1, <1>2, <1>4, <1>6 DEF BestInv, ShadowInv, DiskGoesOn
<1> QED  BY <1>2, <1>4, <1>6, <1>7, RunGoesOn

\* Scores that add up to more than nothing are not all nothing.
LEMMA SomethingScored ==
  ASSUME NEW f \in [Train -> Int], Total(f) > 0
  PROVE  \E o \in Train : f[o] > 0
<1> SUFFICES ASSUME \A o \in Train : ~(f[o] > 0) PROVE FALSE  OBVIOUS
<1>1. IsFiniteSet(Train)  BY CandidateAssumption
<1>2. Total(f) = SumFunctionOnSet(f, Train)
  <2>1. DOMAIN f = Train  OBVIOUS
  <2> QED  BY <2>1, SumOverDomain DEF Total
<1>3. \A o \in Train : f[o] \in Int /\ Zeros[o] \in Int /\ Zeros[o] = 0 /\ f[o] <= Zeros[o]
  BY DEF Zeros
<1> HIDE DEF Zeros
<1>4. SumFunctionOnSet(f, Train) <= SumFunctionOnSet(Zeros, Train)  BY <1>1, <1>3, SumOrder
<1>5. SumFunctionOnSet(Zeros, Train) = 0 * Cardinality(Train)  BY <1>1, <1>3, SumOfSame
<1>6. Cardinality(Train) \in Nat  BY <1>1, FS_CardinalityType
<1>7. SumFunctionOnSet(f, Train) \in Int  BY <1>1, <1>3, SumOf
<1> QED  BY <1>2, <1>4, <1>5, <1>6, <1>7

\* So a row lists what is there.
LEMMA AppendStays == ASSUME GepaInv, ShadowAppend PROVE GepaInv'
<1>1. /\ SpikeIs(spike) /\ PoolOk(pool) /\ DiskIs(disk) /\ spike.scores \in [Train -> Int]
      /\ ShadowInv
  BY RunIsGiven
<1>2. UNCHANGED pool /\ PoolOk(pool') /\ spike.at = "appending"  BY <1>1 DEF ShadowAppend
<1>3. spike' = [lane |-> spike.lane, at |-> "proposing", calls |-> spike.calls,
                best |-> spike.best, gate |-> spike.gate, scores |-> spike.scores,
                plan |-> spike.plan]
  BY <1>1 DEF ShadowAppend, SpikeIs
<1>4. SpikeIs(spike') /\ spike'.at = "proposing" /\ spike'.scores \in [Train -> Int]
  BY <1>1, <1>3 DEF SpikeIs
<1>5. BestInv' /\ ShadowInv'  BY <1>4 DEF BestInv, ShadowInv
<1>6. /\ Row.cand = spike.best /\ Row.scores = spike.scores
      /\ (Row.accepted => Row.gate /\ Total(spike.scores) > 0)
  BY DEF Row
<1>7. Row.accepted => Row.gate /\ \E o \in Train : Row.scores[o] > 0
  BY <1>1, <1>6, SomethingScored
<1>8. disk' = [disk EXCEPT !.ledger = @ \cup {Row}]  BY DEF ShadowAppend
<1>9. disk' = [snapshots |-> disk.snapshots, sideInfo |-> disk.sideInfo, files |-> disk.files,
               ledger |-> disk.ledger \cup {Row}, frontier |-> disk.frontier,
               summary |-> disk.summary, source |-> disk.source]
  BY <1>1, <1>8 DEF DiskIs
<1>10. /\ DiskIs(disk') /\ disk'.ledger = disk.ledger \cup {Row}
       /\ disk'.frontier = disk.frontier /\ disk'.snapshots = disk.snapshots
       /\ disk'.sideInfo = disk.sideInfo /\ disk'.files = disk.files
  BY <1>9 DEF DiskIs
<1>11. /\ Row.cand \in disk.snapshots \cap disk.sideInfo \cap disk.files
       /\ Row.cand \notin Stray \cup Leaky
  BY <1>1, <1>2, <1>6 DEF ShadowInv
<1>12. FrontierIsComplete' /\ FrontierIsOpened'
  BY <1>10 DEF GepaInv, ArtifactsAreWhole, FrontierIsComplete, FrontierIsOpened, Members
<1>13. LedgerIsWhole'
  BY <1>7, <1>10, <1>11 DEF GepaInv, ArtifactsAreWhole, LedgerIsWhole
<1>14. RunInv'  BY <1>2, <1>4, <1>5, <1>10 DEF RunInv, SpikeIs, DiskIs, PoolOk
<1> QED  BY <1>12, <1>13, <1>14 DEF GepaInv, ArtifactsAreWhole

\* Every step keeps the invariant.
LEMMA GepaStays == GepaInv /\ [GepaNext]_gepaVars => GepaInv'
<1> SUFFICES ASSUME GepaInv, [GepaNext]_gepaVars PROVE GepaInv'  OBVIOUS
<1>1. CASE UNCHANGED gepaVars
  <2>1. spike' = spike /\ pool' = pool /\ disk' = disk  BY <1>1 DEF gepaVars
  <2> QED  BY <2>1 DEF GepaInv, RunInv, SpikeIs, DiskIs, PoolOk, BestInv, ShadowInv,
                       ArtifactsAreWhole, FrontierIsComplete, FrontierIsOpened, LedgerIsWhole,
                       Members
<1>2. CASE \E lane \in Lanes : Start(lane)  BY <1>2, StartStays
<1>3. CASE \E c \in Candidates :
             Refuse(c) \/ Reflect(c) \/ Validate(c) \/ RunnerFails(c) \/ Propose(c)
  <2>1. PICK c \in Candidates :
          Refuse(c) \/ Reflect(c) \/ Validate(c) \/ RunnerFails(c) \/ Propose(c)
    BY <1>3
  <2> QED  BY <2>1, EndStays, ReflectStays, ValidateStays, ProposeStays
<1>4. CASE Optimized \/ EvaluateControl \/ WriteFrontier \/ ApplySource \/ WriteSummary
  BY <1>4, OptimizedStays, ControlStays, PublishStays, ApplyStays, SummaryStays
<1>5. CASE ShadowScore \/ ShadowFile \/ ShadowAppend
  BY <1>5, ScoreStays, FileStays, AppendStays
<1>6. CASE ShadowDone \/ Kill  BY <1>6, EndStays
<1> QED  BY <1>1, <1>2, <1>3, <1>4, <1>5, <1>6 DEF GepaNext

\* Whatever runs failed or were killed, the frontier on the disk is the whole
\* frontier of a pool whose best candidate held on the control objectives, and a row
\* of the ledger lists what is there (gepa_pareto.py, gepa_shadow.py).
THEOREM ArtifactsStayWhole == GepaSpec => []ArtifactsAreWhole
<1>1. GepaInv => ArtifactsAreWhole  BY DEF GepaInv
<1> QED  BY <1>1, GepaStarts, GepaStays, PTL DEF GepaSpec
=============================================================================

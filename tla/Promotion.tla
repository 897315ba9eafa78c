----------------------------- MODULE Promotion -----------------------------
(***************************************************************************)
(* Promotion of research evidence into production memory (research/        *)
(* promotion*.py), composed with the production memory index that it       *)
(* writes.  A promotion of a proposal leaves a trail of files, each        *)
(* written whole, in its directory:                                        *)
(*                                                                         *)
(*   manifest -> checkpoint -> validation -> checkpoint                    *)
(*            -> (production memory) -> result -> checkpoint               *)
(*                                                                         *)
(* A second run reuses the manifest and the validation it finds, and stops *)
(* at a result unless it is a dry run.  Runs are started by the operator   *)
(* and, for an interrupted promotion, by the research daemon.  They may    *)
(* overlap, and die anywhere.  A research cycle appends its evidence to    *)
(* the research memory while promotions run.  Campaigns write the same     *)
(* production memory with trace ids of their own.                          *)
(***************************************************************************)
EXTENDS MemoryIndex

CONSTANTS
  Promoters,      \* writers that run promotions; the others run campaigns
  Proposals,      \* Phase 3 proposals: a bound on those emitted
  ResearchTraces, \* the traces of research campaigns
  Strong,         \* those whose record passes evaluate_defense_record
  Rank            \* the order of the promotion directories (their names are hashes)

ASSUME PromotionAssumption ==
  /\ Promoters \subseteq Writers
  /\ None \notin Proposals
  /\ ResearchTraces \subseteq Traces
  /\ Strong \subseteq ResearchTraces
  /\ Rank \in [Proposals -> Nat]

VARIABLES
  research,     \* the traces recorded in the research memory
  cycle,        \* known_trace_ids when the running research cycle began
  plane,        \* research_plane_status of each proposal
  recommended,  \* the proposals the supervisor accepted
  sound,        \* those whose lanes are complete and whose control gate passes
  eligible,     \* eligible_trace_ids of each proposal
  latest,       \* the newest proposal
  manifest,     \* the proposals that have a promotion manifest
  step,         \* the step of each promotion checkpoint
  validation,   \* promotion_validation.json of each proposal
  result,       \* promotion_result.json of each proposal
  promoter,     \* the run of promote_latest() each promoter is in
  approved,     \* history: the proposals the operator accepted
  cleared,      \* history: the traces that passed a validation of each proposal
  intended      \* history: the proposals the operator promoted, not dry-run

cycleVars == <<research, cycle>>
planeVars == <<plane, recommended, sound, eligible, latest, approved>>
trailVars == <<manifest, step, validation, result, cleared>>
promotionVars == <<cycleVars, planeVars, trailVars, promoter, intended>>
vars == <<indexVars, promotionVars>>

Planes == {"absent", "pending", "accepted", "rejected"}
Steps == {"absent", "manifest_written", "replay_complete", "production_write_complete"}

Validation == [status : {"absent", "validated", "failed"}, ids : SUBSET ResearchTraces]
NoValidation == [status |-> "absent", ids |-> {}]

Result == [status : {"absent", "validated", "failed"}, ids : SUBSET ResearchTraces, dry : BOOLEAN]
NoResult == [status |-> "absent", ids |-> {}, dry |-> FALSE]

Locations == {"off", "check", "manifest", "checkpoint", "validate", "save", "replayed",
              "write", "append", "appending", "result", "final"}

\* The local variables of a run: what it read or built stays with it, whatever
\* becomes of the files.
Local == [pc : Locations, proposal : Proposals \cup {None}, dry : BOOLEAN,
          valid : Validation, todo : SUBSET ResearchTraces, trace : ResearchTraces \cup {None},
          written : SUBSET ResearchTraces]

Off == [pc |-> "off", proposal |-> None, dry |-> FALSE, valid |-> NoValidation,
        todo |-> {}, trace |-> None, written |-> {}]

At(w, location) == promoter[w].pc = location
Become(w, local) == promoter' = [promoter EXCEPT ![w] = local]
Goto(w, location) == Become(w, [promoter[w] EXCEPT !.pc = location])

Init ==
  /\ IndexInit
  /\ research = {}
  /\ cycle = None
  /\ plane = [p \in Proposals |-> "absent"]
  /\ recommended = {}
  /\ sound = {}
  /\ eligible = [p \in Proposals |-> {}]
  /\ latest = None
  /\ manifest = {}
  /\ step = [p \in Proposals |-> "absent"]
  /\ validation = [p \in Proposals |-> NoValidation]
  /\ result = [p \in Proposals |-> NoResult]
  /\ promoter = [w \in Promoters |-> Off]
  /\ approved = {}
  /\ cleared = [p \in Proposals |-> {}]
  /\ intended = {}

-----------------------------------------------------------------------------
(***************************************************************************)
(* The research plane: cycles and the operator's review                    *)
(***************************************************************************)
CycleBegins ==
  /\ cycle = None
  /\ \E p \in Proposals : plane[p] = "absent"
  /\ cycle' = [before |-> research]
  /\ UNCHANGED <<indexVars, research, planeVars, trailVars, promoter, intended>>

\* A campaign of the cycle confirms a jailbreak and records its defense.
CampaignRecords(t) ==
  /\ cycle # None
  /\ research' = research \cup {t}
  /\ UNCHANGED <<indexVars, cycle, planeVars, trailVars, promoter, intended>>

\* The end of run_cycle.  The traces that are new since it began belong to the
\* proposal; there may be none.
EmitProposal(p, isRecommended, isSound) ==
  /\ cycle # None
  /\ plane[p] = "absent"
  /\ cycle' = None
  /\ plane' = [plane EXCEPT ![p] = "pending"]
  /\ recommended' = IF isRecommended THEN recommended \cup {p} ELSE recommended
  /\ sound' = IF isSound THEN sound \cup {p} ELSE sound
  /\ eligible' = [eligible EXCEPT ![p] = research \ cycle.before]
  /\ latest' = p
  /\ UNCHANGED <<indexVars, research, approved, trailVars, promoter, intended>>

\* The cycle dies or fails: what its campaigns recorded stays.
CycleFails ==
  /\ cycle # None
  /\ cycle' = None
  /\ UNCHANGED <<indexVars, research, planeVars, trailVars, promoter, intended>>

\* accept_latest and reject_latest look at the recommendation, not at the plane.
Accept ==
  /\ latest \in recommended
  /\ plane' = [plane EXCEPT ![latest] = "accepted"]
  /\ approved' = approved \cup {latest}
  /\ UNCHANGED <<indexVars, cycleVars, recommended, sound, eligible, latest, trailVars,
                 promoter, intended>>

Reject ==
  /\ latest # None
  /\ plane' = [plane EXCEPT ![latest] = "rejected"]
  /\ UNCHANGED <<indexVars, cycleVars, recommended, sound, eligible, latest, approved,
                 trailVars, promoter, intended>>

-----------------------------------------------------------------------------
(***************************************************************************)
(* promote_latest()                                                        *)
(***************************************************************************)
\* Mutant of LatestAccepted: a pending proposal will do.
LatestNotRejected == latest # None /\ plane[latest] \in {"pending", "accepted"}

LatestAccepted == latest # None /\ plane[latest] = "accepted"

Begin(w, dry) ==
  /\ At(w, "off")
  /\ LatestAccepted
  /\ Become(w, [Off EXCEPT !.pc = "check", !.proposal = latest, !.dry = dry])
  /\ UNCHANGED <<indexVars, cycleVars, planeVars, trailVars>>

OperatorPromotes(w, dry) ==
  /\ Begin(w, dry)
  /\ intended' = IF dry THEN intended ELSE intended \cup {latest}

Started == {p \in Proposals : step[p] # "absent"}

\* The promotion whose directory sorts last has a checkpoint and no result.
Interrupted(p) ==
  /\ p \in Started
  /\ \A q \in Started : Rank[q] <= Rank[p]
  /\ result[p].status = "absent"

\* resume_promotion_if_needed: some promotion is interrupted, the latest
\* accepted proposal is promoted.
DaemonResumes(w) ==
  /\ \E p \in Proposals : Interrupted(p)
  /\ Begin(w, FALSE)
  /\ UNCHANGED intended

\* A result that is there ends the run, unless it is a dry run.
CheckResult(w) ==
  /\ At(w, "check")
  /\ IF result[promoter[w].proposal].status # "absent" /\ ~promoter[w].dry
     THEN Become(w, Off)
     ELSE Goto(w, "manifest")
  /\ UNCHANGED <<indexVars, cycleVars, planeVars, trailVars, intended>>

\* _write_manifest: all it freezes is part of the proposal.
WriteManifest(w) ==
  /\ At(w, "manifest")
  /\ manifest' = manifest \cup {promoter[w].proposal}
  /\ Goto(w, "checkpoint")
  /\ UNCHANGED <<indexVars, cycleVars, planeVars, step, validation, result, cleared, intended>>

Checkpoint(w, from, name, to) ==
  /\ At(w, from)
  /\ step' = [step EXCEPT ![promoter[w].proposal] = name]
  /\ Become(w, to)
  /\ UNCHANGED <<indexVars, cycleVars, planeVars, manifest, validation, result, cleared, intended>>

CheckpointManifest(w) ==
  Checkpoint(w, "checkpoint", "manifest_written", [promoter[w] EXCEPT !.pc = "validate"])

\* eligible_records: a proposal without eligible traces gets every record.
EligibleRecords(p) == IF eligible[p] = {} THEN research ELSE research \cap eligible[p]

\* build_promotion_validation.
BuildValidation(p) ==
  [status |-> IF /\ p \in recommended
                 /\ p \in sound
                 /\ eligible[p] \subseteq research
                 /\ EligibleRecords(p) \subseteq Strong
              THEN "validated" ELSE "failed",
   ids |-> EligibleRecords(p)]

\* Mutant of Validate: a validation that is there ends the run.
ValidateOnce(w) ==
  LET p == promoter[w].proposal
  IN  /\ At(w, "validate")
      /\ Become(w, IF validation[p].status # "absent"
                   THEN Off
                   ELSE [promoter[w] EXCEPT !.pc = "save", !.valid = BuildValidation(p)])
      /\ UNCHANGED <<indexVars, cycleVars, planeVars, trailVars, intended>>

\* _write_validation: a validation that is there is taken as it is.
Validate(w) ==
  LET p == promoter[w].proposal
  IN  /\ At(w, "validate")
      /\ Become(w, IF validation[p].status # "absent"
                   THEN [promoter[w] EXCEPT !.pc = "write", !.valid = validation[p]]
                   ELSE [promoter[w] EXCEPT !.pc = "save", !.valid = BuildValidation(p)])
      /\ UNCHANGED <<indexVars, cycleVars, planeVars, trailVars, intended>>

SaveValidation(w) ==
  LET p == promoter[w].proposal
      valid == promoter[w].valid
  IN  /\ At(w, "save")
      /\ validation' = [validation EXCEPT ![p] = valid]
      /\ cleared' = IF valid.status = "validated" THEN [cleared EXCEPT ![p] = @ \cup valid.ids]
                                                 ELSE cleared
      /\ Goto(w, "replayed")
      /\ UNCHANGED <<indexVars, cycleVars, planeVars, manifest, step, result, intended>>

CheckpointReplay(w) ==
  Checkpoint(w, "replayed", "replay_complete", [promoter[w] EXCEPT !.pc = "write"])

\* _write_production reads the records again.
ReadRecords(w) ==
  /\ At(w, "write")
  /\ Become(w, IF promoter[w].valid.status # "validated" \/ promoter[w].dry
               THEN [promoter[w] EXCEPT !.pc = "result"]
               ELSE [promoter[w] EXCEPT !.pc = "append",
                       !.todo = promoter[w].valid.ids \cap EligibleRecords(promoter[w].proposal)])
  /\ UNCHANGED <<indexVars, cycleVars, planeVars, trailVars, intended>>

\* append_records: one call of append() after the other.
AppendRecord(w, t) ==
  /\ At(w, "append")
  /\ t \in promoter[w].todo
  /\ CallAppend(w, t, "active_guardrail")
  /\ Become(w, [promoter[w] EXCEPT !.pc = "appending", !.trace = t, !.todo = @ \ {t}])
  /\ UNCHANGED <<loaderVars, cycleVars, planeVars, trailVars, intended>>

\* Mutant of AppendReturns: the answer of append() is not looked at.
AppendReturnsAny(w) ==
  /\ At(w, "appending")
  /\ writer[w].pc = "idle"
  /\ Become(w, [promoter[w] EXCEPT !.pc = "append", !.trace = None,
                  !.written = @ \cup {promoter[w].trace}])
  /\ writer' = [writer EXCEPT ![w] = NoCall]
  /\ UNCHANGED <<fileVars, lock, crashes, loaderVars, cycleVars, planeVars, trailVars, intended>>

\* The answer is used and forgotten.
AppendReturns(w) ==
  /\ At(w, "appending")
  /\ writer[w].pc = "idle"
  /\ Become(w, [promoter[w] EXCEPT !.pc = "append", !.trace = None,
                  !.written = IF writer[w].wrote THEN @ \cup {promoter[w].trace} ELSE @])
  /\ writer' = [writer EXCEPT ![w] = NoCall]
  /\ UNCHANGED <<fileVars, lock, crashes, loaderVars, cycleVars, planeVars, trailVars, intended>>

\* Mutant of AppendsDone: the records are not written to the last.
AppendsDoneSoon(w) ==
  /\ At(w, "append")
  /\ Goto(w, "result")
  /\ UNCHANGED <<indexVars, cycleVars, planeVars, trailVars, intended>>

AppendsDone(w) ==
  /\ At(w, "append")
  /\ promoter[w].todo = {}
  /\ Goto(w, "result")
  /\ UNCHANGED <<indexVars, cycleVars, planeVars, trailVars, intended>>

WriteResult(w) ==
  /\ At(w, "result")
  /\ result' = [result EXCEPT ![promoter[w].proposal] =
       [status |-> promoter[w].valid.status, ids |-> promoter[w].written, dry |-> promoter[w].dry]]
  /\ Goto(w, "final")
  /\ UNCHANGED <<indexVars, cycleVars, planeVars, manifest, step, validation, cleared, intended>>

CheckpointResult(w) == Checkpoint(w, "final", "production_write_complete", Off)

PromoterDies(w) ==
  /\ Die(w)
  /\ ~At(w, "off")
  /\ Become(w, Off)
  /\ UNCHANGED <<loaderVars, cycleVars, planeVars, trailVars, intended>>

\* A run goes on by itself.
RunStep(w) ==
  \/ CheckResult(w)
  \/ WriteManifest(w)
  \/ CheckpointManifest(w)
  \/ Validate(w)
  \/ SaveValidation(w)
  \/ CheckpointReplay(w)
  \/ ReadRecords(w)
  \/ \E t \in ResearchTraces : AppendRecord(w, t)
  \/ AppendStep(w) /\ UNCHANGED <<loaderVars, promotionVars>>
  \/ AppendReturns(w)
  \/ AppendsDone(w)
  \/ WriteResult(w)
  \/ CheckpointResult(w)

-----------------------------------------------------------------------------
(***************************************************************************)
(* The other writers of production memory: a campaign indexes validated    *)
(* candidates.  (The consolidation command would append too, but of log    *)
(* lines with a "full_result", which no log of the program has.)           *)
(***************************************************************************)
NeighbourWrites(w) ==
  /\ w \in Writers \ Promoters
  /\ \E t \in Traces \ ResearchTraces : CallAppend(w, t, "validated_candidate")
  /\ UNCHANGED <<loaderVars, promotionVars>>

NeighbourRuns(w) ==
  /\ w \in Writers \ Promoters
  /\ \/ AppendStep(w)
     \/ writer[w].pc # "idle" /\ Die(w)
  /\ UNCHANGED <<loaderVars, promotionVars>>

Next ==
  \/ CycleBegins
  \/ \E t \in ResearchTraces : CampaignRecords(t)
  \/ \E p \in Proposals, isRecommended, isSound \in BOOLEAN : EmitProposal(p, isRecommended, isSound)
  \/ CycleFails
  \/ Accept
  \/ Reject
  \/ \E w \in Promoters :
       \/ \E dry \in BOOLEAN : OperatorPromotes(w, dry)
       \/ DaemonResumes(w)
       \/ RunStep(w)
       \/ PromoterDies(w)
  \/ \E w \in Writers : NeighbourWrites(w) \/ NeighbourRuns(w)

Spec == Init /\ [][Next]_vars

\* Processes that run keep running, and a daemon comes back to an interrupted
\* promotion each time it is started.
FairSpec ==
  /\ Spec
  /\ \A w \in Promoters : WF_vars(RunStep(w)) /\ WF_vars(DaemonResumes(w))
  /\ \A w \in Writers \ Promoters : WF_vars(AppendStep(w) /\ UNCHANGED <<loaderVars, promotionVars>>)

-----------------------------------------------------------------------------
TypeOK ==
  /\ IndexTypeOK
  /\ research \subseteq ResearchTraces
  /\ cycle \in [before : SUBSET ResearchTraces] \cup {None}
  /\ plane \in [Proposals -> Planes]
  /\ recommended \subseteq Proposals
  /\ sound \subseteq Proposals
  /\ eligible \in [Proposals -> SUBSET ResearchTraces]
  /\ latest \in Proposals \cup {None}
  /\ manifest \subseteq Proposals
  /\ step \in [Proposals -> Steps]
  /\ validation \in [Proposals -> Validation]
  /\ result \in [Proposals -> Result]
  /\ promoter \in [Promoters -> Local]
  /\ approved \subseteq Proposals
  /\ cleared \in [Proposals -> SUBSET ResearchTraces]
  /\ intended \subseteq Proposals

\* The research evidence that is active in production.
Promoted == Active \cap ResearchTraces

\* Evidence that would not pass the utility gate never becomes active, in
\* whatever run, after whatever crash, from whichever cached validation.
OnlyStrongActive == Promoted \subseteq Strong

\* A result claims only what production memory holds, and a dry run nothing:
\* although results are written long after the records, and rewritten.
AuditSound == \A p \in Proposals :
  /\ result[p].ids \subseteq Promoted
  /\ result[p].dry => result[p].ids = {}

\* Where a validated promotion has its result, each of the proposal's own
\* traces is in production memory, as a record or at least in MEMORY.md, unless
\* the canary policy keeps it out: the runs that died before lost nothing.
FinishedMeansWritten == \A p \in Proposals :
  (result[p].status = "validated" /\ ~result[p].dry)
    => eligible[p] \ Canaries \subseteq Recorded \cup Noted

\* Promotion keeps the boundary between research and production.
Boundary == INSTANCE PromotionBoundary WITH Evidence <- ResearchTraces, active <- Promoted
BoundaryKept == Boundary!Spec

\* An interrupted promotion is brought to its result, as long as its proposal
\* stays the latest accepted one and its directory the last one.
InterruptedIsFinished == \A p \in Proposals :
  (Interrupted(p) /\ LatestAccepted /\ latest = p)
    ~> ~(Interrupted(p) /\ LatestAccepted /\ latest = p)

-----------------------------------------------------------------------------
(***************************************************************************)
(* What docs and tests say and the code does not keep                      *)
(***************************************************************************)
\* Promoting a proposal appends only records linked to it.
OnlyLinkedRecords == \A p \in Proposals : result[p].ids \subseteq eligible[p]

\* A promotion that the daemon resumes was started by the operator: what is
\* active belongs to a proposal that was promoted, not only dry-run.
OnlyIntendedActive ==
  Promoted \subseteq UNION {cleared[p] : p \in intended}

\* Results are the audit record of promotion: when no run is under way, every
\* trace promoted for a finished promotion is listed in a result.
AuditComplete ==
  (\A w \in Promoters : At(w, "off")) =>
    \A p \in Proposals :
      (result[p].status # "absent" /\ ~result[p].dry) =>
        Promoted \cap eligible[p] \subseteq UNION {result[q].ids : q \in Proposals}

\* A real run that ends with a validated result left the proposal's guardrails
\* active (except for the traces the canary policy blocks).
SuccessMeansActive ==
  [][\A w \in Promoters :
       LET p == promoter[w].proposal
       IN  (/\ CheckResult(w) \/ CheckpointResult(w)
            /\ promoter'[w].pc = "off"
            /\ ~promoter[w].dry
            /\ result[p].status = "validated")
           => eligible[p] \ Canaries \subseteq Active]_vars

=============================================================================

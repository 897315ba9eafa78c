--------------------------- MODULE SourceMutation ---------------------------
(***************************************************************************)
(* Source mutation (research/source_mutation_*.py, phase5.py, phase6.py)   *)
(* on a git work tree: a candidate's patches, its metadata and its         *)
(* manifest are stored, the tree is patched, the cycle is evaluated and a  *)
(* proposal comes out, which the operator accepts (a commit) or rejects (a *)
(* hard reset).  The daemon finds a dirty tree after a crash and goes on   *)
(* from it, and reverts the latest candidate after a failure.              *)
(*                                                                         *)
(* A candidate's name is random, and "latest" is the name that sorts last. *)
(* A file's content is the text a human wrote and the number of mutations  *)
(* laid over it; the templates of one file are not told apart.  Equal      *)
(* fingerprints are equal contents.  One mutation call runs at a time; the *)
(* operator reviews and edits at any moment.                               *)
(***************************************************************************)
EXTENDS Naturals

CONSTANTS
  Files,        \* the target files of the templates
  PhaseOf,      \* "phase5" for the attack sources, "phase6" for the defense's
  Names,        \* the random part of the candidates' names
  None,         \* no candidate, no proposal
  MaxEdits,     \* bound on the operator's edits explored
  MaxCrashes    \* bound on the crashes explored

Phases == {"phase5", "phase6"}

VARIABLES
  tree,         \* the work tree
  head,         \* the tree of the branch's last commit
  base,         \* the tree of session.base_commit
  stored,       \* autoresearch/runtime/mutations
  proposal,     \* the latest proposal
  call,         \* the mutation, dirty cycle or revert under way
  review,       \* the operator's accept or reject under way
  edits,        \* edits so far
  crashes,      \* crashes so far
  newest,       \* history: the candidate generated last
  raced,        \* history: files the operator wrote since the call read them
  managed       \* history: the daemon's workflow, see below

gitVars == <<tree, head, base>>
boundVars == <<edits, crashes>>
historyVars == <<newest, raced, managed>>
vars == <<gitVars, stored, proposal, call, review, boundVars, historyVars>>

Content == [text : Nat, layers : Nat]
Tree == [Files -> Content]

\* template.old is replaced by template.new, once.
Mutated(c) == [c EXCEPT !.layers = @ + 1]

\* The patches are there as soon as there is anything; candidate.json has a
\* status, and the manifest the fingerprints of both contents.
Candidate == [file : Files, before : Content, after : Content, manifest : BOOLEAN,
              status : {"unlisted", "generated", "applied", "reverted", "rejected"}]

\* tested: the tree the lanes ran on, a history of the proposal.
Proposal == [by : {"daemon", "operator"}, recommended : BOOLEAN, tested : Tree,
             status : {"pending", "accepted", "rejected"}]

Call == [by : {"daemon", "operator"}, name : Names \cup {None}, tested : Tree,
         pc : {"idle", "patched", "listed", "apply", "applied", "evaluate",
               "failed", "revert", "rewrite", "reverted"}]

\* The operator's command holds the proposal it read.
Review == [pc : {"idle", "committed", "marked", "reset"}, proposal : Proposal \cup {None},
           commit : Tree]

ASSUME MutationAssumption ==
  /\ Names \subseteq Nat
  /\ None \notin Names \cup Candidate \cup Proposal
  /\ PhaseOf \in [Files -> Phases]
  /\ MaxEdits \in Nat
  /\ MaxCrashes \in Nat

Untouched == [f \in Files |-> [text |-> 0, layers |-> 0]]

NoCall == [by |-> "daemon", name |-> None, tested |-> Untouched, pc |-> "idle"]
NoReview == [pc |-> "idle", proposal |-> None, commit |-> Untouched]

Init ==
  /\ tree = Untouched
  /\ head = Untouched
  /\ base = Untouched
  /\ stored = [n \in Names |-> None]
  /\ proposal = None
  /\ call = NoCall
  /\ review = NoReview
  /\ edits = 0
  /\ crashes = 0
  /\ newest = None
  /\ raced = {}
  /\ managed = TRUE

-----------------------------------------------------------------------------
\* has_non_artifact_changes: the artifacts are ignored by git.
Dirty == tree # head

\* The candidates whose candidate.json the glob finds.
Listed == {n \in Names : stored[n] # None /\ stored[n].status # "unlisted"}
ListedOf(phase) == {n \in Listed : PhaseOf[stored[n].file] = phase}

IsLast(n, S) == n \in S /\ \A m \in S : m <= n

\* live_state reads the manifest first and raises without it.  It asks for the
\* reverse patch before it asks for the fingerprints of the same content, so
\* "generated" is never its answer, and apply_candidate is never reached.
LiveState(n) ==
  CASE ~stored[n].manifest -> "raises"
    [] stored[n].manifest /\ tree[stored[n].file] = stored[n].before -> "reverted"
    [] stored[n].manifest /\ tree[stored[n].file] = stored[n].after -> "applied"
    [] OTHER -> "diverged"

\* Mutant of AwaitsReview: a restarted daemon forgets what it waited for.
AwaitsReviewForgotten == FALSE

\* The daemon waits for the review of the proposals it emitted.
AwaitsReview == proposal # None /\ proposal.by = "daemon" /\ proposal.status = "pending"

Return == call' = NoCall

\* An exception ends the operator's command; the daemon handles it.
Raise == call' = IF call.by = "daemon" THEN [call EXCEPT !.pc = "failed"] ELSE NoCall

-----------------------------------------------------------------------------
(***************************************************************************)
(* generate_and_apply, and the evaluation behind it                        *)
(***************************************************************************)

\* Mutant of Generate: the daemon does not look whether the tree is clean.
GenerateDirty(by, f, n) ==
  /\ call.pc = "idle"
  /\ by = "daemon" => ~AwaitsReview /\ PhaseOf[f] = "phase5"
  /\ stored[n] = None
  /\ stored' = [stored EXCEPT ![n] =
       [file |-> f, before |-> tree[f], after |-> Mutated(tree[f]), manifest |-> FALSE,
        status |-> "unlisted"]]
  /\ call' = [NoCall EXCEPT !.by = by, !.name = n, !.pc = "patched"]
  /\ newest' = n
  /\ raced' = {}
  /\ managed' = (managed /\ by = "daemon" /\ review.pc = "idle")
  /\ UNCHANGED <<gitVars, proposal, review, boundVars>>

\* The template's file is read and both patches are written.  (A template that
\* changes nothing raises before anything is written.)  The daemon mutates a
\* clean tree only; the phase 5 and 6 commands do not look.
Generate(by, f, n) ==
  /\ call.pc = "idle"
  /\ by = "daemon" => ~Dirty /\ ~AwaitsReview /\ PhaseOf[f] = "phase5"
  /\ stored[n] = None
  /\ stored' = [stored EXCEPT ![n] =
       [file |-> f, before |-> tree[f], after |-> Mutated(tree[f]), manifest |-> FALSE,
        status |-> "unlisted"]]
  /\ call' = [NoCall EXCEPT !.by = by, !.name = n, !.pc = "patched"]
  /\ newest' = n
  /\ raced' = {}
  /\ managed' = (managed /\ by = "daemon" /\ review.pc = "idle")
  /\ UNCHANGED <<gitVars, proposal, review, boundVars>>

WriteCandidate ==
  /\ call.pc = "patched"
  /\ \E valid \in BOOLEAN :
       stored' = [stored EXCEPT ![call.name].status = IF valid THEN "generated" ELSE "rejected"]
  /\ call' = [call EXCEPT !.pc = "listed"]
  /\ UNCHANGED <<gitVars, proposal, review, boundVars, historyVars>>

\* Mutant of WriteManifest: the patch is applied before the manifest is stored.
WriteManifestLate ==
  /\ call.pc = "listed"
  /\ IF stored[call.name].status = "rejected"
     THEN Raise /\ UNCHANGED <<tree, stored>>
     ELSE \/ /\ tree[stored[call.name].file] # stored[call.name].after
             /\ tree' = [tree EXCEPT ![stored[call.name].file] = stored[call.name].after]
             /\ UNCHANGED <<stored, call>>
          \/ /\ tree[stored[call.name].file] = stored[call.name].after
             /\ stored' = [stored EXCEPT ![call.name].manifest = TRUE]
             /\ call' = [call EXCEPT !.pc = "apply"]
             /\ UNCHANGED tree
  /\ UNCHANGED <<head, base, proposal, review, boundVars, historyVars>>

WriteManifest ==
  /\ call.pc = "listed"
  /\ stored' = [stored EXCEPT ![call.name].manifest = TRUE]
  /\ IF stored[call.name].status = "rejected" THEN Raise
                                              ELSE call' = [call EXCEPT !.pc = "apply"]
  /\ UNCHANGED <<gitVars, proposal, review, boundVars, historyVars>>

Apply ==
  /\ call.pc = "apply"
  /\ tree' = [tree EXCEPT ![stored[call.name].file] = stored[call.name].after]
  /\ call' = [call EXCEPT !.pc = "applied"]
  /\ UNCHANGED <<head, base, stored, proposal, review, boundVars, historyVars>>

MarkApplied ==
  /\ call.pc = "applied"
  /\ stored' = [stored EXCEPT ![call.name].status = "applied"]
  /\ call' = [call EXCEPT !.pc = "evaluate", !.tested = tree]
  /\ UNCHANGED <<gitVars, proposal, review, boundVars, historyVars>>

\* phase3.run_cycle, and the harness's second write of the proposal.
Propose ==
  /\ call.pc = "evaluate"
  /\ \E recommended \in BOOLEAN :
       proposal' = [by |-> call.by, recommended |-> recommended, tested |-> call.tested,
                    status |-> "pending"]
  /\ Return
  /\ UNCHANGED <<gitVars, stored, review, boundVars, historyVars>>

\* A lane or the supervisor raises.
EvaluationFails ==
  /\ call.pc = "evaluate"
  /\ Raise
  /\ UNCHANGED <<gitVars, stored, proposal, review, boundVars, historyVars>>

-----------------------------------------------------------------------------
(***************************************************************************)
(* The daemon on a dirty tree, and its failure handler                     *)
(***************************************************************************)

\* _handle_dirty_cycle: the last candidate does not explain the tree, or the
\* tree is evaluated as it is, unless a proposal about it waits for a review.
HandleDirtyCycle ==
  /\ call.pc = "idle"
  /\ Dirty
  /\ ~AwaitsReview
  /\ \/ /\ \E n \in Listed : IsLast(n, Listed) /\ LiveState(n) \in {"raises", "diverged"}
        /\ call' = [NoCall EXCEPT !.pc = "failed"]
     \/ /\ \A n \in Listed : IsLast(n, Listed) => LiveState(n) \in {"applied", "reverted"}
        /\ proposal # None => proposal.status # "pending"
        /\ call' = [NoCall EXCEPT !.pc = "evaluate", !.tested = tree]
  /\ managed' = (managed /\ review.pc = "idle")
  /\ UNCHANGED <<gitVars, stored, proposal, review, boundVars, newest, raced>>

\* _handle_failure: the daemon's mutator works for phase 5.
HandleFailure ==
  /\ call.pc = "failed"
  /\ \/ /\ Dirty
        /\ \E n \in ListedOf("phase5") :
             /\ IsLast(n, ListedOf("phase5"))
             /\ call' = [NoCall EXCEPT !.pc = "revert", !.name = n]
     \/ (~Dirty \/ ListedOf("phase5") = {}) /\ Return
  /\ UNCHANGED <<gitVars, stored, proposal, review, boundVars, historyVars>>

-----------------------------------------------------------------------------
(***************************************************************************)
(* revert_candidate                                                        *)
(***************************************************************************)

\* The operator's revert command of either phase.
RevertLatest(phase) ==
  /\ call.pc = "idle"
  /\ \E n \in ListedOf(phase) :
       /\ IsLast(n, ListedOf(phase))
       /\ call' = [NoCall EXCEPT !.by = "operator", !.pc = "revert", !.name = n]
  /\ managed' = FALSE
  /\ UNCHANGED <<gitVars, stored, proposal, review, boundVars, newest, raced>>

\* Mutant of CheckRevert: the file is not compared with the applied content.
CheckRevertBlind ==
  /\ call.pc = "revert"
  /\ raced' = {}
  /\ LET c == stored[call.name] IN
     \/ tree[c.file] = c.before /\ call' = [call EXCEPT !.pc = "reverted"]
     \/ tree[c.file] # c.before /\ ~c.manifest /\ Return
     \/ tree[c.file] # c.before /\ c.manifest /\ call' = [call EXCEPT !.pc = "rewrite"]
  /\ UNCHANGED <<gitVars, stored, proposal, review, boundVars, newest, managed>>

\* The reverse patch is there already; or the manifest is not, or the file is
\* not as the candidate left it, which raises; or the file may be rewritten.
CheckRevert ==
  /\ call.pc = "revert"
  /\ raced' = {}
  /\ LET c == stored[call.name] IN
     \/ tree[c.file] = c.before /\ call' = [call EXCEPT !.pc = "reverted"]
     \/ tree[c.file] # c.before /\ (~c.manifest \/ tree[c.file] # c.after) /\ Return
     \/ tree[c.file] # c.before /\ c.manifest /\ tree[c.file] = c.after
          /\ call' = [call EXCEPT !.pc = "rewrite"]
  /\ UNCHANGED <<gitVars, stored, proposal, review, boundVars, newest, managed>>

Rewrite ==
  /\ call.pc = "rewrite"
  /\ tree' = [tree EXCEPT ![stored[call.name].file] = stored[call.name].before]
  /\ call' = [call EXCEPT !.pc = "reverted"]
  /\ UNCHANGED <<head, base, stored, proposal, review, boundVars, historyVars>>

MarkReverted ==
  /\ call.pc = "reverted"
  /\ stored' = [stored EXCEPT ![call.name].status = "reverted"]
  /\ Return
  /\ UNCHANGED <<gitVars, proposal, review, boundVars, historyVars>>

-----------------------------------------------------------------------------
(***************************************************************************)
(* The operator                                                            *)
(***************************************************************************)

\* accept_latest looks at the recommendation only, and commits what is there.
Accept ==
  /\ review.pc = "idle"
  /\ proposal # None
  /\ proposal.recommended
  /\ Dirty
  /\ head' = tree
  /\ review' = [pc |-> "committed", proposal |-> proposal, commit |-> tree]
  /\ managed' = (managed /\ call.pc = "idle")
  /\ UNCHANGED <<tree, base, stored, proposal, call, boundVars, newest, raced>>

\* The proposal that was read is written, and so becomes the latest by its time.
MarkAccepted ==
  /\ review.pc = "committed"
  /\ proposal' = [review.proposal EXCEPT !.status = "accepted"]
  /\ review' = [review EXCEPT !.pc = "marked"]
  /\ UNCHANGED <<gitVars, stored, call, boundVars, historyVars>>

SaveBase ==
  /\ review.pc = "marked"
  /\ base' = review.commit
  /\ review' = NoReview
  /\ UNCHANGED <<tree, head, stored, proposal, call, boundVars, historyVars>>

Reject ==
  /\ review.pc = "idle"
  /\ proposal # None
  /\ proposal' = [proposal EXCEPT !.status = "rejected"]
  /\ review' = [NoReview EXCEPT !.pc = "reset"]
  /\ managed' = (managed /\ call.pc = "idle")
  /\ UNCHANGED <<gitVars, stored, call, boundVars, newest, raced>>

HardReset ==
  /\ review.pc = "reset"
  /\ tree' = base
  /\ head' = base
  /\ review' = NoReview
  /\ raced' = IF call.pc = "idle" THEN {} ELSE Files
  /\ managed' = (managed /\ call.pc = "idle")
  /\ UNCHANGED <<base, stored, proposal, call, boundVars, newest>>

\* The operator edits a file.
Edit(f) ==
  /\ edits < MaxEdits
  /\ edits' = edits + 1
  /\ tree' = [tree EXCEPT ![f] = [text |-> edits + 1, layers |-> 0]]
  /\ raced' = IF call.pc = "idle" THEN {} ELSE raced \cup {f}
  /\ UNCHANGED <<head, base, stored, proposal, call, review, crashes, newest, managed>>

-----------------------------------------------------------------------------
\* A process dies.
CrashCall ==
  /\ call.pc # "idle"
  /\ crashes < MaxCrashes
  /\ crashes' = crashes + 1
  /\ Return
  /\ UNCHANGED <<gitVars, stored, proposal, review, edits, historyVars>>

CrashReview ==
  /\ review.pc # "idle"
  /\ crashes < MaxCrashes
  /\ crashes' = crashes + 1
  /\ review' = NoReview
  /\ UNCHANGED <<gitVars, stored, proposal, call, edits, historyVars>>

Mutation ==
  \/ \E by \in {"daemon", "operator"}, f \in Files, n \in Names : Generate(by, f, n)
  \/ WriteCandidate
  \/ WriteManifest
  \/ Apply
  \/ MarkApplied
  \/ Propose
  \/ EvaluationFails

Recovery ==
  \/ HandleDirtyCycle
  \/ HandleFailure
  \/ \E phase \in Phases : RevertLatest(phase)
  \/ CheckRevert
  \/ Rewrite
  \/ MarkReverted

Operator ==
  \/ Accept
  \/ MarkAccepted
  \/ SaveBase
  \/ Reject
  \/ HardReset
  \/ \E f \in Files : Edit(f)

Next == Mutation \/ Recovery \/ Operator \/ CrashCall \/ CrashReview

Spec == Init /\ [][Next]_vars

-----------------------------------------------------------------------------
TypeOK ==
  /\ tree \in Tree
  /\ head \in Tree
  /\ base \in Tree
  /\ stored \in [Names -> Candidate \cup {None}]
  /\ proposal \in Proposal \cup {None}
  /\ call \in Call
  /\ review \in Review
  /\ edits \in 0..MaxEdits
  /\ crashes \in 0..MaxCrashes
  /\ newest \in Names \cup {None}
  /\ raced \subseteq Files
  /\ managed \in BOOLEAN

Edited(c) == c.layers = 0 /\ c.text \in 1..edits

\* A stored candidate, complete with its manifest, accounts for the content.
Explained(f) ==
  \E n \in Listed :
    /\ stored[n].file = f
    /\ stored[n].manifest
    /\ tree[f] \in {stored[n].before, stored[n].after}

\* Write-ahead: whatever the mutation calls left in the work tree, wherever they
\* died, can be inspected and undone from the artifacts on disk.
Undoable ==
  \A f \in Files : tree[f] = head[f] \/ Edited(tree[f]) \/ Explained(f)

\* What a human wrote into a file is replaced by a hard reset, by another edit,
\* or by a call that read the file before the operator wrote it; never by a patch that is
\* applied or reverted later.
EditsSurvive ==
  [][\A f \in Files : tree'[f].text # tree[f].text =>
       \/ edits' # edits
       \/ review.pc = "reset"
       \/ f \in raced]_vars

\* The workflow (managed): only the daemon mutates and reverts, and no review
\* overlaps a call of its.  The names sort in any order, the operator edits at
\* any moment and reviews what and when he likes between the calls, and every
\* process may die.  Then, through the failures and reverts of any candidate,
\* the tree holds one mutation the last commit does not have at most, it is the
\* newest, and it lies on what was committed: nothing is mutated or evaluated
\* on top of a mutation nobody accepted.
NeverStacked ==
  managed => \A f \in Files : tree[f].layers > head[f].layers =>
    /\ newest # None
    /\ stored[newest].file = f
    /\ tree[f] = Mutated(head[f])

\* In that workflow a waiting proposal that is accepted commits, of every file,
\* what was evaluated or what a human wrote into it since.
CommitsTheTested ==
  [][/\ managed'
     /\ head' # head
     /\ review'.pc = "committed"
     /\ proposal.status = "pending"
     => \A f \in Files : head'[f] = proposal.tested[f] \/ Edited(head'[f])]_vars

\* Without it: the candidate that a failure reverts is the one made last.
RevertsTheMostRecent ==
  [][call'.pc = "revert" /\ call.pc # "revert" /\ call'.by = "daemon" => call'.name = newest]_vars

=============================================================================

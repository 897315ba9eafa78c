------------------------ MODULE SourceMutationProofs ------------------------
(***************************************************************************)
(* Source mutation for any number of files, candidates, edits and crashes: *)
(* the state keeps its types, and the artifacts on disk account for        *)
(* whatever the calls left in the tree.  The invariant says how far the    *)
(* artifacts are behind each step of a call: no step writes the tree       *)
(* before candidate.json and the manifest are stored.                      *)
(***************************************************************************)
EXTENDS SourceMutation, TLAPS

\* How complete the candidate in hand is at each step.
ArtifactsInv ==
  /\ call.pc \in {"patched", "listed", "apply", "applied", "revert", "rewrite", "reverted"} =>
       call.name # None /\ stored[call.name] # None
  /\ call.pc \in {"listed", "apply", "applied", "revert", "rewrite", "reverted"} =>
       stored[call.name].status # "unlisted"
  /\ call.pc \in {"apply", "applied", "rewrite"} => stored[call.name].manifest

\* A commit and a proposal are in hand where they will be written.
ReviewInv == review.pc = "committed" => review.proposal # None

Inv == TypeOK /\ ArtifactsInv /\ ReviewInv /\ Undoable

-----------------------------------------------------------------------------
\* A mutated content is a content.
LEMMA MutatedType == ASSUME NEW c \in Content PROVE Mutated(c) \in Content
  BY DEF Mutated, Content

\* The program starts without artifacts and with a clean tree.
LEMMA InitInv == Init => Inv
<1> USE MutationAssumption
<1>1. Untouched \in Tree
  BY DEF Untouched, Tree, Content
<1>2. NoCall \in Call /\ NoReview \in Review
  BY <1>1 DEF NoCall, Call, NoReview, Review
<1>3. NoCall.pc = "idle" /\ NoReview.pc = "idle"
  BY DEF NoCall, NoReview
<1>4. ASSUME Init PROVE TypeOK
  BY <1>1, <1>2, <1>4 DEF Init, TypeOK
<1>5. ASSUME Init PROVE ArtifactsInv /\ ReviewInv /\ Undoable
  BY <1>3, <1>5 DEF Init, ArtifactsInv, ReviewInv, Undoable
<1> QED
  BY <1>4, <1>5 DEF Inv

\* What was explained stays explained while its file is left alone and the
\* candidates keep their patches, their manifests and their place in the list.
LEMMA ExplainedStays ==
  ASSUME NEW f \in Files, Explained(f), tree'[f] = tree[f],
         \A n \in Listed : /\ n \in Listed'
                           /\ stored'[n].file = stored[n].file
                           /\ stored'[n].before = stored[n].before
                           /\ stored'[n].after = stored[n].after
                           /\ stored[n].manifest => stored'[n].manifest
  PROVE  Explained(f)'
  BY DEF Explained

\* Steps that touch neither the git tree nor the candidates.
LEMMA QuietStep ==
  ASSUME Undoable, UNCHANGED <<tree, head, stored, edits>>
  PROVE  Undoable'
  BY DEF Undoable, Explained, Edited, Listed

\* The two things a call without a candidate in hand may turn into.
LEMMA IdleCall ==
  ASSUME TypeOK
  PROVE  /\ NoCall \in Call /\ NoCall.pc = "idle"
         /\ NoReview \in Review /\ NoReview.pc = "idle"
<1>1. Untouched \in Tree
  BY DEF Untouched, Tree, Content
<1> QED
  BY <1>1 DEF NoCall, Call, NoReview, Review

\* An exception leaves no candidate in hand.
LEMMA RaiseType ==
  ASSUME TypeOK, Raise
  PROVE  call' \in Call /\ call'.pc \in {"idle", "failed"}
<1>1. CASE call.by = "daemon"
  BY <1>1 DEF Raise, TypeOK, Call
<1>2. CASE call.by # "daemon"
  BY <1>2, IdleCall DEF Raise
<1> QED
  BY <1>1, <1>2

-----------------------------------------------------------------------------
\* A candidate whose status changes keeps its patches and stays in the list.
LEMMA StatusChange ==
  ASSUME Inv, NEW n \in Names, stored[n] # None,
         NEW s \in {"generated", "applied", "reverted", "rejected"},
         stored' = [stored EXCEPT ![n].status = s]
  PROVE  /\ stored' \in [Names -> Candidate \cup {None}]
         /\ stored'[n] # None /\ stored'[n].status = s
         /\ stored'[n].manifest = stored[n].manifest
         /\ \A m \in Names \ {n} : stored'[m] = stored[m]
         /\ \A m \in Listed : /\ m \in Listed'
                              /\ stored'[m].file = stored[m].file
                              /\ stored'[m].before = stored[m].before
                              /\ stored'[m].after = stored[m].after
                              /\ stored[m].manifest => stored'[m].manifest
<1> USE MutationAssumption
<1>1. stored \in [Names -> Candidate \cup {None}] /\ stored[n] \in Candidate
  BY DEF Inv, TypeOK
<1>2. stored'[n] = [stored[n] EXCEPT !.status = s] /\ \A m \in Names \ {n} : stored'[m] = stored[m]
  BY <1>1
<1>3. stored'[n] \in Candidate
  BY <1>1, <1>2 DEF Candidate
<1>4. stored' \in [Names -> Candidate \cup {None}]
  BY <1>1, <1>2, <1>3
<1>5. /\ stored'[n].status = s
      /\ stored'[n].manifest = stored[n].manifest
      /\ stored'[n].file = stored[n].file
      /\ stored'[n].before = stored[n].before
      /\ stored'[n].after = stored[n].after
  BY <1>1, <1>2 DEF Candidate
<1>6. stored'[n] # None
  BY <1>3
<1>7. \A m \in Listed : m \in Listed'
  BY <1>2, <1>5, <1>6 DEF Listed
<1> QED
  BY <1>2, <1>4, <1>5, <1>6, <1>7 DEF Listed

\* Nothing that explains a file is lost while only a candidate's status changes.
LEMMA UndoableStays ==
  ASSUME Undoable, UNCHANGED <<tree, head, edits>>,
         \A n \in Listed : /\ n \in Listed'
                           /\ stored'[n].file = stored[n].file
                           /\ stored'[n].before = stored[n].before
                           /\ stored'[n].after = stored[n].after
                           /\ stored[n].manifest => stored'[n].manifest
  PROVE  Undoable'
<1> SUFFICES ASSUME NEW f \in Files
             PROVE  (tree[f] = head[f] \/ Edited(tree[f]) \/ Explained(f))'
  BY DEF Undoable
<1>1. CASE Explained(f)
  BY <1>1, ExplainedStays
<1> QED
  BY <1>1 DEF Undoable, Edited

\* Patching one file with a listed candidate's content keeps the tree explained.
LEMMA PatchStep ==
  ASSUME Inv, NEW n \in Listed, stored[n].manifest,
         NEW c \in {stored[n].before, stored[n].after},
         tree' = [tree EXCEPT ![stored[n].file] = c], UNCHANGED <<head, stored, edits>>
  PROVE  tree' \in Tree /\ Undoable'
<1> USE MutationAssumption
<1>1. stored[n] \in Candidate
  BY DEF Inv, TypeOK, Listed
<1>2. c \in Content /\ stored[n].file \in Files
  BY <1>1 DEF Candidate
<1>3. tree \in [Files -> Content]
  BY DEF Inv, TypeOK, Tree
<1>4. tree' \in Tree
  BY <1>2, <1>3 DEF Tree
<1>5. UNCHANGED Listed
  BY DEF Listed
<1> SUFFICES ASSUME NEW f \in Files
             PROVE  (tree[f] = head[f] \/ Edited(tree[f]) \/ Explained(f))'
  BY <1>4 DEF Undoable
<1>6. CASE f = stored[n].file
  BY <1>3, <1>5, <1>6 DEF Explained
<1>7. CASE f # stored[n].file
  <2>1. tree'[f] = tree[f]
    BY <1>3, <1>7
  <2>2. CASE Explained(f)
    BY <1>5, <2>1, <2>2, ExplainedStays
  <2> QED
    BY <2>1, <2>2 DEF Inv, Undoable, Edited
<1> QED
  BY <1>6, <1>7

-----------------------------------------------------------------------------
\* generate_and_apply stores a new candidate, not yet in the list.
LEMMA GenerateStep ==
  ASSUME Inv, NEW by \in {"daemon", "operator"}, NEW f \in Files, NEW n \in Names,
         Generate(by, f, n)
  PROVE  Inv'
<1> USE MutationAssumption
<1> DEFINE new == [file |-> f, before |-> tree[f], after |-> Mutated(tree[f]),
                   manifest |-> FALSE, status |-> "unlisted"]
<1>1. tree[f] \in Content /\ Mutated(tree[f]) \in Content
  BY MutatedType DEF Inv, TypeOK, Tree
<1>2. new \in Candidate
  BY <1>1 DEF Candidate
<1>3. stored[n] = None /\ stored \in [Names -> Candidate \cup {None}] /\ stored' = [stored EXCEPT ![n] = new]
  BY DEF Inv, TypeOK, Generate
<1>4. stored'[n] = new /\ \A m \in Names \ {n} : stored'[m] = stored[m]
  BY <1>3
<1>5. call' \in Call /\ call'.pc = "patched" /\ call'.name = n
  BY IdleCall DEF Inv, Generate, Call
<1>6. UNCHANGED <<tree, head, base, proposal, review, edits, crashes>>
  BY DEF Generate, gitVars, boundVars
<1>7. newest' \in Names \cup {None} /\ raced' \subseteq Files /\ managed' \in BOOLEAN
  BY DEF Inv, TypeOK, Generate
<1>8. TypeOK'
  BY <1>2, <1>3, <1>5, <1>6, <1>7 DEF Inv, TypeOK
<1>9. ArtifactsInv'
  BY <1>2, <1>4, <1>5 DEF ArtifactsInv
<1>10. \A m \in Listed : m \in Listed' /\ stored'[m] = stored[m]
  BY <1>3, <1>4 DEF Listed
<1>11. Undoable'
  BY <1>6, <1>10, UndoableStays DEF Inv
<1> QED
  BY <1>6, <1>8, <1>9, <1>11 DEF Inv, ReviewInv

\* The metadata, the manifest and the two marks of a candidate's status.
LEMMA ArtifactStep ==
  ASSUME Inv, WriteCandidate \/ WriteManifest \/ MarkApplied \/ MarkReverted
  PROVE  Inv'
<1> USE MutationAssumption
<1> DEFINE n == call.name
<1>1. n \in Names /\ stored[n] # None /\ stored[n] \in Candidate
  <2>1. call.pc \in {"patched", "listed", "applied", "reverted"} /\ call \in Call
    BY DEF WriteCandidate, WriteManifest, MarkApplied, MarkReverted, Inv, TypeOK
  <2> QED
    BY <2>1 DEF Inv, TypeOK, ArtifactsInv, Call
<1>2. UNCHANGED <<tree, head, base, proposal, review, edits, crashes, newest, raced, managed>>
  BY DEF WriteCandidate, WriteManifest, MarkApplied, MarkReverted, gitVars, boundVars, historyVars
<1>3. tree \in Tree /\ call \in Call /\ stored \in [Names -> Candidate \cup {None}]
  BY DEF Inv, TypeOK
<1>4. CASE WriteCandidate
  <2>1. PICK s \in {"generated", "rejected"} : stored' = [stored EXCEPT ![n].status = s]
    BY <1>4 DEF WriteCandidate
  <2>2. call' \in Call /\ call'.name = n /\ call'.pc = "listed"
    BY <1>3, <1>4 DEF WriteCandidate, Call
  <2>3. TypeOK'
    BY <1>1, <1>2, <2>1, <2>2, StatusChange DEF Inv, TypeOK
  <2>4. ArtifactsInv'
    BY <1>1, <2>1, <2>2, StatusChange DEF ArtifactsInv
  <2>5. Undoable'
    BY <1>1, <1>2, <2>1, StatusChange, UndoableStays DEF Inv
  <2> QED
    BY <1>2, <2>3, <2>4, <2>5 DEF Inv, ReviewInv
<1>5. CASE WriteManifest
  <2>1. stored' = [stored EXCEPT ![n].manifest = TRUE] /\ stored[n].status # "unlisted" /\ call.pc = "listed"
    BY <1>5 DEF WriteManifest, Inv, ArtifactsInv
  <2>2. /\ stored'[n] = [stored[n] EXCEPT !.manifest = TRUE]
        /\ \A m \in Names \ {n} : stored'[m] = stored[m]
    BY <1>1, <1>3, <2>1
  <2>3. stored'[n] \in Candidate /\ stored'[n].manifest
    BY <1>1, <2>2 DEF Candidate
  <2>4. /\ stored'[n].status = stored[n].status /\ stored'[n].file = stored[n].file
        /\ stored'[n].before = stored[n].before /\ stored'[n].after = stored[n].after
    BY <1>1, <2>2 DEF Candidate
  <2>5. call' \in Call /\ (call'.pc \in {"idle", "failed"} \/ (call'.pc = "apply" /\ call'.name = n))
    <3>1. CASE Raise
      BY <3>1, RaiseType DEF Inv
    <3>2. CASE call' = [call EXCEPT !.pc = "apply"]
      BY <1>3, <3>2 DEF Call
    <3> QED
      BY <1>5, <3>1, <3>2 DEF WriteManifest
  <2>6. TypeOK'
    BY <1>1, <1>2, <1>3, <2>1, <2>2, <2>3, <2>5 DEF Inv, TypeOK
  <2>7. ArtifactsInv'
    <3>1. stored'[n] # None /\ stored'[n].status # "unlisted" /\ stored'[n].manifest
      BY <2>1, <2>3, <2>4
    <3>2. CASE call'.pc \in {"idle", "failed"}
      BY <3>2 DEF ArtifactsInv
    <3>3. CASE call'.pc = "apply" /\ call'.name = n
      <4>1. call'.name # None
        BY <1>1, <3>3
      <4> QED
        BY <3>1, <3>3, <4>1 DEF ArtifactsInv
    <3> QED
      BY <2>5, <3>2, <3>3
  <2>8. Listed' = Listed
    BY <1>1, <2>1, <2>2, <2>3, <2>4 DEF Listed
  <2>9. Undoable'
    BY <1>2, <2>2, <2>3, <2>4, <2>8, UndoableStays DEF Inv, Listed
  <2> QED
    BY <1>2, <2>6, <2>7, <2>9 DEF Inv, ReviewInv
<1>6. CASE MarkApplied
  <2>1. stored' = [stored EXCEPT ![n].status = "applied"]
    BY <1>6 DEF MarkApplied
  <2>2. call' \in Call /\ call'.pc = "evaluate"
    BY <1>3, <1>6 DEF MarkApplied, Call
  <2>3. TypeOK'
    BY <1>1, <1>2, <2>1, <2>2, StatusChange DEF Inv, TypeOK
  <2>4. ArtifactsInv'
    BY <2>2 DEF ArtifactsInv
  <2>5. Undoable'
    BY <1>1, <1>2, <2>1, StatusChange, UndoableStays DEF Inv
  <2> QED
    BY <1>2, <2>3, <2>4, <2>5 DEF Inv, ReviewInv
<1>7. CASE MarkReverted
  <2>1. stored' = [stored EXCEPT ![n].status = "reverted"]
    BY <1>7 DEF MarkReverted
  <2>2. call' \in Call /\ call'.pc = "idle"
    BY <1>7, IdleCall DEF MarkReverted, Return, Inv
  <2>3. TypeOK'
    BY <1>1, <1>2, <2>1, <2>2, StatusChange DEF Inv, TypeOK
  <2>4. ArtifactsInv'
    BY <2>2 DEF ArtifactsInv
  <2>5. Undoable'
    BY <1>1, <1>2, <2>1, StatusChange, UndoableStays DEF Inv
  <2> QED
    BY <1>2, <2>3, <2>4, <2>5 DEF Inv, ReviewInv
<1> QED
  BY <1>4, <1>5, <1>6, <1>7

\* The forward patch and the reverse patch: both of a listed candidate.
LEMMA TreeStep ==
  ASSUME Inv, Apply \/ Rewrite
  PROVE  Inv'
<1> USE MutationAssumption
<1> DEFINE n == call.name
<1>1. call \in Call /\ call.pc \in {"apply", "rewrite"}
  BY DEF Inv, TypeOK, Apply, Rewrite
<1>2. n \in Listed /\ stored[n].manifest
  BY <1>1 DEF Inv, ArtifactsInv, Listed, Call
<1>3. UNCHANGED <<head, base, stored, proposal, review, edits, crashes, newest, raced, managed>>
  BY DEF Apply, Rewrite, boundVars, historyVars
<1>4. tree' \in Tree /\ Undoable'
  <2>1. \/ tree' = [tree EXCEPT ![stored[n].file] = stored[n].after]
        \/ tree' = [tree EXCEPT ![stored[n].file] = stored[n].before]
    BY DEF Apply, Rewrite
  <2> QED
    BY <1>2, <1>3, <2>1, PatchStep
<1>5. call' \in Call /\ call'.name = n /\ call'.pc \in {"applied", "reverted"}
  BY <1>1 DEF Apply, Rewrite, Call
<1>6. TypeOK'
  BY <1>3, <1>4, <1>5 DEF Inv, TypeOK
<1>7. ArtifactsInv'
  BY <1>1, <1>3, <1>5 DEF Inv, ArtifactsInv
<1> QED
  BY <1>3, <1>4, <1>6, <1>7 DEF Inv, ReviewInv

\* Steps of a call that write neither the tree nor the artifacts.
LEMMA CallStep ==
  ASSUME Inv,
         \/ Propose \/ EvaluationFails \/ HandleDirtyCycle \/ HandleFailure
         \/ CheckRevert \/ CrashCall \/ \E phase \in Phases : RevertLatest(phase)
  PROVE  Inv'
<1> USE MutationAssumption
<1>1. UNCHANGED <<tree, head, base, stored, review, edits>>
  BY DEF Propose, EvaluationFails, HandleDirtyCycle, HandleFailure, CheckRevert, CrashCall,
         RevertLatest, gitVars, boundVars
<1>2. call \in Call /\ NoCall \in Call /\ NoCall.pc = "idle" /\ tree \in Tree
  BY IdleCall DEF Inv, TypeOK
<1>3. /\ newest' \in Names \cup {None} /\ raced' \subseteq Files /\ managed' \in BOOLEAN
      /\ crashes' \in 0..MaxCrashes
  <2>1. newest' = newest /\ (raced' = raced \/ raced' = {})
    BY DEF Propose, EvaluationFails, HandleDirtyCycle, HandleFailure, CheckRevert, CrashCall,
           RevertLatest, historyVars
  <2>2. crashes' = crashes \/ (crashes < MaxCrashes /\ crashes' = crashes + 1)
    BY DEF Propose, EvaluationFails, HandleDirtyCycle, HandleFailure, CheckRevert, CrashCall,
           RevertLatest, boundVars
  <2>3. /\ newest \in Names \cup {None} /\ raced \subseteq Files /\ managed \in BOOLEAN
        /\ crashes \in 0..MaxCrashes
    BY DEF Inv, TypeOK
  <2>4. crashes' \in 0..MaxCrashes
    BY <2>2, <2>3
  <2>5. managed' \in BOOLEAN
    <3>1. CASE HandleDirtyCycle
      BY <3>1 DEF HandleDirtyCycle
    <3>2. CASE ~HandleDirtyCycle
      <4>1. managed' = managed \/ managed' = FALSE
        BY <3>2 DEF Propose, EvaluationFails, HandleFailure, CheckRevert, CrashCall, RevertLatest,
                    historyVars
      <4> QED
        BY <2>3, <4>1
    <3> QED
      BY <3>1, <3>2
  <2> QED
    BY <2>1, <2>3, <2>4, <2>5
<1>4. proposal' \in Proposal \cup {None}
  <2>1. CASE Propose
    BY <1>2, <2>1 DEF Propose, Proposal, Call
  <2>2. CASE ~Propose
    BY <2>2 DEF EvaluationFails, HandleDirtyCycle, HandleFailure, CheckRevert, CrashCall,
                RevertLatest, Inv, TypeOK
  <2> QED
    BY <2>1, <2>2
<1>5. /\ call' \in Call
      /\ \/ call'.pc \in {"idle", "failed", "evaluate"}
         \/ /\ call'.name \in Listed
            /\ call'.pc \in {"revert", "reverted", "rewrite"}
            /\ call'.pc = "rewrite" => stored[call'.name].manifest
  <2>1. CASE Propose \/ CrashCall
    BY <1>2, <2>1 DEF Propose, CrashCall, Return
  <2>2. CASE EvaluationFails
    BY <2>2, RaiseType DEF EvaluationFails, Inv
  <2>3. CASE HandleDirtyCycle
    <3>1. CASE call' = [NoCall EXCEPT !.pc = "failed"]
      BY <1>2, <3>1 DEF Call
    <3>2. CASE call' = [NoCall EXCEPT !.pc = "evaluate", !.tested = tree]
      BY <1>2, <3>2 DEF Call
    <3> QED
      BY <2>3, <3>1, <3>2 DEF HandleDirtyCycle
  <2>4. CASE HandleFailure
    <3>1. CASE Return
      BY <1>2, <3>1 DEF Return
    <3>2. CASE ~Return
      <4>1. PICK n \in Listed : call' = [NoCall EXCEPT !.pc = "revert", !.name = n]
        BY <2>4, <3>2 DEF HandleFailure, ListedOf
      <4> QED
        BY <1>2, <4>1 DEF Call, Listed
    <3> QED
      BY <3>1, <3>2
  <2>5. CASE CheckRevert
    <3>1. call.name \in Listed
      BY <1>2, <2>5 DEF CheckRevert, Inv, ArtifactsInv, Listed, Call
    <3>2. CASE call' = [call EXCEPT !.pc = "reverted"]
      BY <1>2, <3>1, <3>2 DEF Call
    <3>3. CASE call' = [call EXCEPT !.pc = "rewrite"] /\ stored[call.name].manifest
      BY <1>2, <3>1, <3>3 DEF Call
    <3>4. CASE Return
      BY <1>2, <3>4 DEF Return
    <3> QED
      BY <2>5, <3>2, <3>3, <3>4 DEF CheckRevert
  <2>6. CASE \E phase \in Phases : RevertLatest(phase)
    <3>1. PICK n \in Listed : call' = [NoCall EXCEPT !.by = "operator", !.pc = "revert", !.name = n]
      BY <2>6 DEF RevertLatest, ListedOf
    <3> QED
      BY <1>2, <3>1 DEF Call, Listed
  <2> QED
    BY <2>1, <2>2, <2>3, <2>4, <2>5, <2>6
<1>6. TypeOK'
  BY <1>1, <1>3, <1>4, <1>5 DEF Inv, TypeOK
<1>7. ArtifactsInv'
  BY <1>1, <1>5 DEF ArtifactsInv, Listed
<1>8. Undoable'
  BY <1>1, QuietStep DEF Inv
<1> QED
  BY <1>1, <1>6, <1>7, <1>8 DEF Inv, ReviewInv

\* The operator's steps: a commit and a reset leave a clean tree, an edit is
\* nobody's mutation.
LEMMA OperatorStep ==
  ASSUME Inv, Operator \/ CrashReview
  PROVE  Inv'
<1> USE MutationAssumption
<1>1. UNCHANGED <<stored, call>>
  BY DEF Operator, Accept, MarkAccepted, SaveBase, Reject, HardReset, Edit, CrashReview
<1>2. review \in Review /\ NoReview \in Review /\ NoReview.pc = "idle" /\ tree \in Tree
  BY IdleCall DEF Inv, TypeOK
<1>3. ArtifactsInv'
  BY <1>1 DEF Inv, ArtifactsInv
<1>4. CASE Accept
  <2>1. UNCHANGED <<tree, base, proposal, edits, crashes, newest, raced>> /\ head' = tree
    BY <1>4 DEF Accept, boundVars
  <2>2. review' \in Review /\ review'.proposal # None
    BY <1>2, <1>4 DEF Accept, Review, Inv, TypeOK
  <2>3. managed' \in BOOLEAN
    BY <1>4 DEF Accept, Inv, TypeOK
  <2> QED
    BY <1>1, <1>2, <1>3, <2>1, <2>2, <2>3 DEF Inv, TypeOK, ReviewInv, Undoable
<1>5. CASE MarkAccepted
  <2>1. UNCHANGED <<tree, head, base, edits, crashes, newest, raced, managed>>
    BY <1>5 DEF MarkAccepted, gitVars, boundVars, historyVars
  <2>2. review.proposal \in Proposal
    BY <1>2, <1>5 DEF MarkAccepted, Review, Inv, ReviewInv
  <2>3. proposal' \in Proposal
    BY <1>5, <2>2 DEF MarkAccepted, Proposal
  <2>4. review' \in Review /\ review'.pc = "marked"
    BY <1>2, <1>5 DEF MarkAccepted, Review
  <2>5. Undoable'
    BY <1>1, <2>1, QuietStep DEF Inv
  <2> QED
    BY <1>1, <1>3, <2>1, <2>3, <2>4, <2>5 DEF Inv, TypeOK, ReviewInv
<1>6. CASE SaveBase
  <2>1. UNCHANGED <<tree, head, proposal, edits, crashes, newest, raced, managed>>
    BY <1>6 DEF SaveBase, boundVars, historyVars
  <2>2. base' \in Tree /\ review' = NoReview
    BY <1>2, <1>6 DEF SaveBase, Review
  <2>3. Undoable'
    BY <1>1, <2>1, QuietStep DEF Inv
  <2> QED
    BY <1>1, <1>2, <1>3, <2>1, <2>2, <2>3 DEF Inv, TypeOK, ReviewInv
<1>7. CASE Reject
  <2>1. UNCHANGED <<tree, head, base, edits, crashes, newest, raced>>
    BY <1>7 DEF Reject, gitVars, boundVars
  <2>2. proposal \in Proposal
    BY <1>7 DEF Reject, Inv, TypeOK
  <2>3. proposal' \in Proposal /\ managed' \in BOOLEAN
    BY <1>7, <2>2 DEF Reject, Proposal, Inv, TypeOK
  <2>4. review' \in Review /\ review'.pc = "reset"
    BY <1>2, <1>7 DEF Reject, Review
  <2>5. Undoable'
    BY <1>1, <2>1, QuietStep DEF Inv
  <2> QED
    BY <1>1, <1>3, <2>1, <2>3, <2>4, <2>5 DEF Inv, TypeOK, ReviewInv
<1>8. CASE HardReset
  <2>1. /\ UNCHANGED <<base, proposal, edits, crashes, newest>>
        /\ tree' = base /\ head' = base /\ review' = NoReview
    BY <1>8 DEF HardReset, boundVars
  <2>2. raced' \subseteq Files /\ managed' \in BOOLEAN
    BY <1>8 DEF HardReset, Inv, TypeOK
  <2> QED
    BY <1>1, <1>2, <1>3, <2>1, <2>2 DEF Inv, TypeOK, ReviewInv, Undoable
<1>9. CASE \E f \in Files : Edit(f)
  <2>1. PICK f \in Files : Edit(f)
    BY <1>9
  <2>2. /\ UNCHANGED <<head, base, stored, proposal, review, crashes, newest>>
        /\ edits' = edits + 1 /\ edits \in Nat /\ edits' \in 0..MaxEdits
        /\ tree' = [tree EXCEPT ![f] = [text |-> edits + 1, layers |-> 0]]
        /\ raced' \subseteq Files /\ managed' \in BOOLEAN
    <3>1. edits \in 0..MaxEdits /\ raced \subseteq Files /\ managed \in BOOLEAN
      BY DEF Inv, TypeOK
    <3>2. /\ UNCHANGED <<head, base, stored, proposal, review, crashes, newest>>
          /\ edits < MaxEdits /\ edits' = edits + 1 /\ managed' = managed
          /\ tree' = [tree EXCEPT ![f] = [text |-> edits + 1, layers |-> 0]]
          /\ raced' = {} \/ raced' = raced \cup {f}
      BY <2>1 DEF Edit
    <3>3. edits \in Nat /\ edits' \in 0..MaxEdits
      BY <3>1, <3>2
    <3> QED
      BY <3>1, <3>2, <3>3
  <2>3. [text |-> edits + 1, layers |-> 0] \in Content
    BY <2>2 DEF Content
  <2>4. tree' \in Tree /\ tree \in [Files -> Content]
    BY <1>2, <2>2, <2>3 DEF Tree
  <2>5. TypeOK'
    BY <1>1, <2>2, <2>4 DEF Inv, TypeOK
  <2>6. ASSUME NEW g \in Files
        PROVE  (tree[g] = head[g] \/ Edited(tree[g]) \/ Explained(g))'
    <3>1. CASE g = f
      <4>1. tree'[g] = [text |-> edits + 1, layers |-> 0]
        BY <2>2, <2>4, <3>1
      <4> QED
        BY <2>2, <4>1 DEF Edited
    <3>2. CASE g # f
      <4>1. tree'[g] = tree[g]
        BY <2>2, <2>4, <3>2
      <4>2. tree[g] = head[g] \/ Edited(tree[g]) \/ Explained(g)
        BY DEF Inv, Undoable
      <4>3. CASE Explained(g)
        BY <1>1, <4>1, <4>3 DEF Explained, Listed
      <4>4. CASE Edited(tree[g])
        BY <2>2, <4>1, <4>4 DEF Edited
      <4> QED
        BY <2>2, <4>1, <4>2, <4>3, <4>4
    <3> QED
      BY <3>1, <3>2
  <2> QED
    BY <1>3, <2>2, <2>5, <2>6 DEF Inv, ReviewInv, Undoable
<1>10. CASE CrashReview
  <2>1. /\ UNCHANGED <<tree, head, base, stored, proposal, call, edits, newest, raced>>
        /\ review' = NoReview /\ managed' \in BOOLEAN /\ crashes' \in 0..MaxCrashes
    BY <1>10 DEF CrashReview, gitVars, historyVars, Inv, TypeOK
  <2>2. Undoable'
    BY <2>1, QuietStep DEF Inv
  <2> QED
    BY <1>2, <1>3, <2>1, <2>2 DEF Inv, TypeOK, ReviewInv
<1> QED
  BY <1>4, <1>5, <1>6, <1>7, <1>8, <1>9, <1>10 DEF Operator

-----------------------------------------------------------------------------
\* The invariant of source mutation: whatever dies, whoever edits, whichever
\* name sorts last, every step finds the artifacts that earlier steps stored.
THEOREM MutationInvariant == Spec => []Inv
<1>1. Inv /\ [Next]_vars => Inv'
  <2> SUFFICES ASSUME Inv, [Next]_vars PROVE Inv'
    OBVIOUS
  <2>1. CASE UNCHANGED vars
    <3>1. UNCHANGED <<tree, head, base, stored, proposal, call, review, edits, crashes,
                      newest, raced, managed>>
      BY <2>1 DEF vars, gitVars, boundVars, historyVars
    <3>2. Undoable'
      BY <3>1, QuietStep DEF Inv
    <3> QED
      BY <3>1, <3>2 DEF Inv, TypeOK, ArtifactsInv, ReviewInv
  <2>2. CASE Mutation
    BY <2>2, GenerateStep, ArtifactStep, TreeStep, CallStep DEF Mutation
  <2>3. CASE Recovery
    BY <2>3, ArtifactStep, TreeStep, CallStep DEF Recovery
  <2>4. CASE Operator \/ CrashReview
    BY <2>4, OperatorStep
  <2>5. CASE CrashCall
    BY <2>5, CallStep
  <2> QED
    BY <2>1, <2>2, <2>3, <2>4, <2>5 DEF Next
<1> QED
  BY <1>1, InitInv, PTL DEF Spec

\* Trees, artifacts, proposals and calls keep their types.
THEOREM MutationTypeCorrect == Spec => []TypeOK
<1>1. Inv => TypeOK
  BY DEF Inv
<1> QED
  BY <1>1, MutationInvariant, PTL

\* Write-ahead: whatever the mutation calls left in the work tree can be
\* inspected and undone from the artifacts on disk, for any number of files,
\* candidates, edits and crashes.
THEOREM TreeIsUndoable == Spec => []Undoable
<1>1. Inv => Undoable
  BY DEF Inv
<1> QED
  BY <1>1, MutationInvariant, PTL

-----------------------------------------------------------------------------
(***************************************************************************)
(* What a patch carries is the text that was in the file when it was made. *)
(***************************************************************************)
Patches == \A n \in Names : stored[n] # None => stored[n].after = Mutated(stored[n].before)

\* A call that will write a file holds the text that is there, or lost a race.
TextInv ==
  call.pc \in {"patched", "listed", "apply", "rewrite"} =>
    LET c == stored[call.name] IN tree[c.file].text = c.before.text \/ c.file \in raced

PatchInv == Patches /\ TextInv

\* A step after which the candidates are the same, but for status and manifest.
SameCandidates == \A n \in Names :
  /\ stored[n] = None => stored'[n] = None
  /\ stored[n] # None =>
       /\ stored'[n] # None
       /\ stored'[n].file = stored[n].file
       /\ stored'[n].before = stored[n].before
       /\ stored'[n].after = stored[n].after
       /\ stored[n].status # "unlisted" => stored'[n].status # "unlisted"

\* A step that stores nothing is one.
LEMMA StoredSame == UNCHANGED stored => SameCandidates
  BY DEF SameCandidates

\* So are the steps that write the metadata, the manifest and the marks.
LEMMA ArtifactsSame ==
  ASSUME Inv, WriteCandidate \/ WriteManifest \/ MarkApplied \/ MarkReverted
  PROVE  SameCandidates
<1> USE MutationAssumption
<1> DEFINE n == call.name
<1>1. n \in Names /\ stored[n] # None /\ stored[n] \in Candidate
      /\ stored \in [Names -> Candidate \cup {None}]
  <2>1. call.pc \in {"patched", "listed", "applied", "reverted"} /\ call \in Call
    BY DEF WriteCandidate, WriteManifest, MarkApplied, MarkReverted, Inv, TypeOK
  <2> QED
    BY <2>1 DEF Inv, TypeOK, ArtifactsInv, Call
<1>2. CASE WriteManifest
  <2>1. stored' = [stored EXCEPT ![n].manifest = TRUE]
    BY <1>2 DEF WriteManifest
  <2>2. stored'[n] = [stored[n] EXCEPT !.manifest = TRUE] /\ \A m \in Names \ {n} : stored'[m] = stored[m]
    BY <1>1, <2>1
  <2>3. /\ stored'[n] \in Candidate
        /\ stored'[n].file = stored[n].file /\ stored'[n].before = stored[n].before
        /\ stored'[n].after = stored[n].after /\ stored'[n].status = stored[n].status
    BY <1>1, <2>2 DEF Candidate
  <2> HIDE DEF n
  <2> QED
    BY <1>1, <2>2, <2>3 DEF SameCandidates
<1>3. CASE ~WriteManifest
  <2>1. PICK s \in {"generated", "applied", "reverted", "rejected"} :
          stored' = [stored EXCEPT ![n].status = s]
    BY <1>3 DEF WriteCandidate, MarkApplied, MarkReverted
  <2>2. stored'[n] = [stored[n] EXCEPT !.status = s] /\ \A m \in Names \ {n} : stored'[m] = stored[m]
    BY <1>1, <2>1
  <2>3. /\ stored'[n] \in Candidate
        /\ stored'[n].file = stored[n].file /\ stored'[n].before = stored[n].before
        /\ stored'[n].after = stored[n].after /\ stored'[n].status # "unlisted"
    BY <1>1, <2>2 DEF Candidate
  <2> HIDE DEF n
  <2> QED
    BY <1>1, <2>2, <2>3 DEF SameCandidates
<1> QED
  BY <1>2, <1>3

\* Nobody but generate_and_apply adds a candidate.
LEMMA OthersStoreNothing ==
  ASSUME Inv, [Next]_vars, ~(\E by \in {"daemon", "operator"}, f \in Files, n \in Names : Generate(by, f, n))
  PROVE  SameCandidates
<1>1. CASE WriteCandidate \/ WriteManifest \/ MarkApplied \/ MarkReverted
  BY <1>1, ArtifactsSame
<1>2. CASE ~(WriteCandidate \/ WriteManifest \/ MarkApplied \/ MarkReverted)
  <2>1. UNCHANGED stored
    BY <1>2 DEF Next, vars, Mutation, Recovery, Operator, Apply, Propose, EvaluationFails,
       HandleDirtyCycle, HandleFailure, RevertLatest, CheckRevert, Rewrite, Accept, MarkAccepted,
       SaveBase, Reject, HardReset, Edit, CrashCall, CrashReview
  <2> QED
    BY <2>1, StoredSame
<1> QED
  BY <1>1, <1>2

\* A patch never changes what it does.
LEMMA PatchesStay ==
  ASSUME Inv, Patches, [Next]_vars
  PROVE  Patches'
<1> USE MutationAssumption
<1>1. ASSUME NEW by \in {"daemon", "operator"}, NEW f \in Files, NEW n \in Names, Generate(by, f, n)
      PROVE  Patches'
  <2> DEFINE new == [file |-> f, before |-> tree[f], after |-> Mutated(tree[f]),
                     manifest |-> FALSE, status |-> "unlisted"]
  <2>1. stored' = [stored EXCEPT ![n] = new] /\ stored \in [Names -> Candidate \cup {None}]
    BY <1>1 DEF Generate, Inv, TypeOK
  <2>2. new.after = Mutated(new.before)
    OBVIOUS
  <2> HIDE DEF new
  <2>3. \A m \in Names : stored'[m] = IF m = n THEN new ELSE stored[m]
    BY <2>1
  <2> QED
    BY <2>2, <2>3 DEF Patches
<1>2. CASE ~(\E by \in {"daemon", "operator"}, f \in Files, n \in Names : Generate(by, f, n))
  <2>1. SameCandidates
    BY <1>2, OthersStoreNothing
  <2> QED
    BY <2>1 DEF Patches, SameCandidates
<1> QED
  BY <1>1, <1>2

\* The candidate in hand, and its two contents, which have the same text.
LEMMA InHand ==
  ASSUME Inv, Patches, call.pc \in {"patched", "listed", "apply", "applied", "revert", "rewrite", "reverted"}
  PROVE  /\ call.name \in Names /\ stored[call.name] # None /\ stored[call.name] \in Candidate
         /\ stored[call.name].file \in Files
         /\ stored[call.name].after.text = stored[call.name].before.text
<1> DEFINE n == call.name
<1>1. n \in Names /\ stored[n] # None /\ stored[n] \in Candidate
  BY DEF Inv, TypeOK, ArtifactsInv, Call
<1>2. stored[n].before \in Content /\ stored[n].file \in Files
  BY <1>1 DEF Candidate
<1>3. Mutated(stored[n].before).text = stored[n].before.text
  BY <1>2 DEF Mutated, Content
<1> QED
  BY <1>1, <1>2, <1>3 DEF Patches

\* A call reads before it writes, and the operator who comes in between is noted.
LEMMA TextStays ==
  ASSUME Inv, Patches, TextInv, [Next]_vars
  PROVE  TextInv'
<1> USE MutationAssumption
<1>t. tree \in [Files -> Content] /\ call \in Call /\ stored \in [Names -> Candidate \cup {None}]
  BY DEF Inv, TypeOK, Tree
<1>i. NoCall.pc = "idle"
  BY DEF NoCall
<1>1. ASSUME NEW by \in {"daemon", "operator"}, NEW f \in Files, NEW n \in Names, Generate(by, f, n)
      PROVE  TextInv'
  <2> DEFINE new == [file |-> f, before |-> tree[f], after |-> Mutated(tree[f]),
                     manifest |-> FALSE, status |-> "unlisted"]
  <2>1. stored' = [stored EXCEPT ![n] = new] /\ UNCHANGED tree
        /\ call' = [NoCall EXCEPT !.by = by, !.name = n, !.pc = "patched"]
    BY <1>1 DEF Generate, gitVars
  <2>2. stored'[n] = new /\ call'.name = n
    BY <1>t, <2>1 DEF NoCall
  <2>3. stored'[n].file = f /\ stored'[n].before = tree[f]
    BY <2>2
  <2> HIDE DEF new
  <2> QED
    BY <2>1, <2>2, <2>3 DEF TextInv
<1>2. CASE WriteCandidate \/ WriteManifest
  <2>1. /\ call.pc \in {"patched", "listed"} /\ UNCHANGED <<tree, raced>>
        /\ call' = [call EXCEPT !.pc = "listed"] \/ call' = [call EXCEPT !.pc = "apply"] \/ Raise
    BY <1>2 DEF WriteCandidate, WriteManifest, gitVars, historyVars
  <2>2. call'.pc \in {"patched", "listed", "apply", "rewrite"} => call'.name = call.name
    BY <1>t, <2>1, RaiseType DEF Call, Inv
  <2>3. /\ call.name \in Names /\ stored[call.name] # None
        /\ tree[stored[call.name].file].text = stored[call.name].before.text
             \/ stored[call.name].file \in raced
    BY <2>1, InHand DEF TextInv
  <2>4. stored'[call.name].file = stored[call.name].file /\ stored'[call.name].before = stored[call.name].before
    BY <1>2, <2>3, ArtifactsSame DEF SameCandidates
  <2> QED
    BY <2>1, <2>2, <2>3, <2>4 DEF TextInv
<1>3. CASE CheckRevert
  <2>1. /\ call.pc = "revert" /\ UNCHANGED <<tree, stored>>
        /\ \/ call' = [call EXCEPT !.pc = "reverted"] \/ call' = NoCall
           \/ /\ call' = [call EXCEPT !.pc = "rewrite"]
              /\ tree[stored[call.name].file] = stored[call.name].after
    BY <1>3 DEF CheckRevert, Return, gitVars
  <2>2. CASE call' = [call EXCEPT !.pc = "rewrite"] /\ tree[stored[call.name].file] = stored[call.name].after
    <3>1. call'.name = call.name
      BY <1>t, <2>2 DEF Call
    <3>2. tree[stored[call.name].file].text = stored[call.name].before.text
      BY <2>1, <2>2, InHand
    <3> QED
      BY <2>1, <3>1, <3>2 DEF TextInv
  <2>3. CASE call' = [call EXCEPT !.pc = "reverted"] \/ call' = NoCall
    <3>1. call'.pc \in {"reverted", "idle"}
      BY <1>t, <1>i, <2>3 DEF Call
    <3> QED
      BY <3>1 DEF TextInv
  <2> QED
    BY <2>1, <2>2, <2>3
<1>4. CASE \/ Apply \/ MarkApplied \/ Propose \/ EvaluationFails \/ HandleDirtyCycle \/ HandleFailure
           \/ (\E phase \in Phases : RevertLatest(phase)) \/ Rewrite \/ MarkReverted \/ CrashCall
  <2>1. CASE Apply
    <3>1. call'.pc = "applied"
      BY <1>t, <2>1 DEF Apply, Call
    <3> QED
      BY <3>1 DEF TextInv
  <2>2. CASE MarkApplied
    <3>1. call'.pc = "evaluate"
      BY <1>t, <2>2 DEF MarkApplied, Call
    <3> QED
      BY <3>1 DEF TextInv
  <2>3. CASE Rewrite
    <3>1. call'.pc = "reverted"
      BY <1>t, <2>3 DEF Rewrite, Call
    <3> QED
      BY <3>1 DEF TextInv
  <2>4. CASE EvaluationFails
    <3>1. call'.pc \in {"idle", "failed"}
      BY <2>4, RaiseType DEF EvaluationFails, Inv
    <3> QED
      BY <3>1 DEF TextInv
  <2>5. CASE HandleDirtyCycle
    <3>1. call'.pc \in {"failed", "evaluate"}
      BY <2>5 DEF HandleDirtyCycle, NoCall
    <3> QED
      BY <3>1 DEF TextInv
  <2>6. CASE HandleFailure \/ \E phase \in Phases : RevertLatest(phase)
    <3>1. call'.pc \in {"revert", "idle"}
      BY <1>i, <2>6 DEF HandleFailure, RevertLatest, Return, NoCall
    <3> QED
      BY <3>1 DEF TextInv
  <2>7. CASE Propose \/ MarkReverted \/ CrashCall
    <3>1. call'.pc = "idle"
      BY <1>i, <2>7 DEF Propose, MarkReverted, CrashCall, Return
    <3> QED
      BY <3>1 DEF TextInv
  <2> QED
    BY <1>4, <2>1, <2>2, <2>3, <2>4, <2>5, <2>6, <2>7
<1>5. CASE UNCHANGED vars \/ Accept \/ MarkAccepted \/ SaveBase \/ Reject \/ CrashReview
  <2>1. UNCHANGED <<tree, stored, call, raced>>
    BY <1>5 DEF vars, Accept, MarkAccepted, SaveBase, Reject, CrashReview, gitVars, historyVars
  <2> QED
    BY <2>1 DEF TextInv
<1>6. CASE HardReset
  <2>1. UNCHANGED <<stored, call>> /\ raced' = IF call.pc = "idle" THEN {} ELSE Files
    BY <1>6 DEF HardReset
  <2>2. CASE call.pc = "idle"
    BY <2>1, <2>2 DEF TextInv
  <2>3. CASE call.pc # "idle"
    BY <2>1, <2>3, InHand DEF TextInv
  <2> QED
    BY <2>2, <2>3
<1>7. ASSUME NEW f \in Files, Edit(f)
      PROVE  TextInv'
  <2>1. UNCHANGED <<stored, call>> /\ raced' = IF call.pc = "idle" THEN {} ELSE raced \cup {f}
    BY <1>7 DEF Edit
  <2>2. \A g \in Files : g # f => tree'[g] = tree[g]
    BY <1>t, <1>7 DEF Edit
  <2>3. CASE call.pc \notin {"patched", "listed", "apply", "rewrite"}
    BY <2>1, <2>3 DEF TextInv
  <2>4. CASE call.pc \in {"patched", "listed", "apply", "rewrite"}
    <3>1. stored[call.name].file \in Files
      BY <2>4, InHand
    <3>2. CASE stored[call.name].file = f
      BY <2>1, <2>4, <3>2 DEF TextInv
    <3>3. CASE stored[call.name].file # f
      <4>1. tree'[stored[call.name].file] = tree[stored[call.name].file]
        BY <2>2, <3>1, <3>3
      <4> QED
        BY <2>1, <2>4, <4>1 DEF TextInv
    <3> QED
      BY <3>2, <3>3
  <2> QED
    BY <2>3, <2>4
<1> QED
  BY <1>1, <1>2, <1>3, <1>4, <1>5, <1>6, <1>7 DEF Next, Mutation, Recovery, Operator

\* So a patch replaces the text of a file only where the operator came in between.
LEMMA PatchKeepsText ==
  ASSUME Inv, Patches, TextInv, [Next]_vars, NEW f \in Files, tree'[f].text # tree[f].text
  PROVE  edits' # edits \/ review.pc = "reset" \/ f \in raced
<1> USE MutationAssumption
<1>t. tree \in [Files -> Content] /\ edits \in Nat
  BY DEF Inv, TypeOK, Tree
<1>1. CASE Apply \/ Rewrite
  <2> DEFINE c == stored[call.name]
  <2>1. /\ call.pc \in {"apply", "rewrite"}
        /\ tree' = [tree EXCEPT ![c.file] = c.after] \/ tree' = [tree EXCEPT ![c.file] = c.before]
    BY <1>1 DEF Apply, Rewrite
  <2>2. c.file \in Files /\ c.after.text = c.before.text
    BY <2>1, InHand
  <2>3. f = c.file
    BY <1>t, <2>1, <2>2
  <2>4. tree'[f].text = c.before.text
    BY <1>t, <2>1, <2>2, <2>3
  <2> QED
    BY <2>1, <2>3, <2>4 DEF TextInv
<1>2. CASE HardReset
  BY <1>2 DEF HardReset
<1>3. CASE \E g \in Files : Edit(g)
  <2>1. edits' = edits + 1
    BY <1>3 DEF Edit
  <2> QED
    BY <1>t, <2>1
<1>4. CASE ~(Apply \/ Rewrite \/ HardReset \/ \E g \in Files : Edit(g))
  <2>1. UNCHANGED tree
    BY <1>4 DEF Next, vars, Mutation, Recovery, Operator, Generate, WriteCandidate, WriteManifest,
       MarkApplied, MarkReverted, Propose, EvaluationFails, HandleDirtyCycle, HandleFailure,
       RevertLatest, CheckRevert, Accept, MarkAccepted, SaveBase, Reject, CrashCall, CrashReview,
       gitVars
  <2> QED
    BY <2>1
<1> QED
  BY <1>1, <1>2, <1>3, <1>4

\* What a human wrote into a file is replaced by a hard reset, by another edit,
\* or by a call that read the file before it was written; a patch that is applied
\* or reverted later keeps it, however calls, crashes and reviews interleave.
THEOREM NoEditLost == Spec => EditsSurvive
<1>1. Init => PatchInv
  BY DEF Init, PatchInv, Patches, TextInv, NoCall
<1>2. Inv /\ PatchInv /\ [Next]_vars => PatchInv'
  BY PatchesStay, TextStays DEF PatchInv
<1>3. Inv /\ PatchInv /\ [Next]_vars =>
        [\A f \in Files : tree'[f].text # tree[f].text =>
           \/ edits' # edits
           \/ review.pc = "reset"
           \/ f \in raced]_vars
  BY PatchKeepsText DEF PatchInv
<1>4. Spec => []PatchInv
  BY <1>1, <1>2, MutationInvariant, PTL DEF Spec
<1> QED
  BY <1>3, <1>4, MutationInvariant, PTL DEF Spec, EditsSurvive
-----------------------------------------------------------------------------
(***************************************************************************)
(* The daemon's workflow: the names sort in any order, the operator edits  *)
(* at any moment, every process may die                                    *)
(***************************************************************************)
\* Only the daemon made calls and proposals.
ByDaemon ==
  /\ call.by = "daemon"
  /\ proposal # None => proposal.by = "daemon"
  /\ review.proposal # None => review.proposal.by = "daemon"

\* The mutation the last commit does not have is the newest and on top of it.
TopInv == \A f \in Files : tree[f].layers > head[f].layers =>
  /\ newest # None /\ stored[newest] # None
  /\ stored[newest].file = f
  /\ tree[f] = Mutated(head[f])

\* The tree has no mutation the last commit does not have.
Unstacked == \A f \in Files : tree[f].layers <= head[f].layers

\* Every file is as in t, or as a human left it.
SameOrEdited(t) == \A f \in Files : tree[f] = t[f] \/ Edited(tree[f])

\* What a call is about to do to the tree, and what it tests; it meets no review.
StepsInv ==
  /\ call.pc \in {"patched", "listed", "apply"} =>
       /\ Unstacked
       /\ call.name = newest
       /\ stored[newest].before = head[stored[newest].file]
  /\ call.pc = "rewrite" =>
       stored[call.name].before.layers <= head[stored[call.name].file].layers
  /\ call.pc = "evaluate" => SameOrEdited(call.tested)
  /\ call.pc # "idle" => review.pc = "idle"

\* While a review is due, the daemon waits and only edits touch what was tested.
PendingInv ==
  proposal # None /\ proposal.status = "pending" =>
    call.pc = "idle" /\ review.pc # "reset" /\ SameOrEdited(proposal.tested)

FollowedInv == ByDaemon /\ TopInv /\ StepsInv /\ PendingInv

WorkflowInv == managed => FollowedInv

\* What one step leaves of it, when it touches neither the tree nor the names.
LEMMA StandsStill ==
  ASSUME Inv, TopInv, SameCandidates, UNCHANGED <<tree, head, newest>>
  PROVE  TopInv'
<1>1. newest # None => newest \in Names
  BY DEF Inv, TypeOK
<1> QED
  BY <1>1 DEF TopInv, SameCandidates

\* Whatever the call does next, nothing is pending while it does.
LEMMA NothingPending ==
  ASSUME FollowedInv, call.pc # "idle"
  PROVE  proposal = None \/ proposal.status # "pending"
BY DEF FollowedInv, PendingInv

\* Steps of a call that only look, mark or give up.
LEMMA LookingOn ==
  ASSUME Inv, FollowedInv, SameCandidates, UNCHANGED <<tree, head, newest, proposal, review>>,
         call.pc # "idle" \/ proposal = None \/ proposal.status # "pending",
         call'.by = "daemon", StepsInv'
  PROVE  FollowedInv'
<1>1. TopInv'
  BY StandsStill DEF FollowedInv
<1>2. ByDaemon'
  BY DEF FollowedInv, ByDaemon
<1>3. PendingInv'
  BY NothingPending DEF PendingInv
<1> QED
  BY <1>1, <1>2, <1>3 DEF FollowedInv

\* The daemon makes a new candidate: from the last commit, with nothing pending.
LEMMA GenerateFollows ==
  ASSUME Inv, WorkflowInv, managed', NEW by \in {"daemon", "operator"}, NEW f \in Files, NEW n \in Names,
         Generate(by, f, n)
  PROVE  FollowedInv'
<1> USE MutationAssumption
<1> DEFINE new == [file |-> f, before |-> tree[f], after |-> Mutated(tree[f]),
                   manifest |-> FALSE, status |-> "unlisted"]
<1>t. tree \in [Files -> Content] /\ stored \in [Names -> Candidate \cup {None}]
  BY DEF Inv, TypeOK, Tree
<1>1. /\ managed /\ by = "daemon" /\ tree = head /\ ~AwaitsReview /\ review.pc = "idle"
      /\ stored' = [stored EXCEPT ![n] = new] /\ newest' = n
      /\ call' = [NoCall EXCEPT !.by = by, !.name = n, !.pc = "patched"]
      /\ UNCHANGED <<tree, head, proposal, review>>
  BY DEF Generate, Dirty, gitVars
<1>2. FollowedInv
  BY <1>1 DEF WorkflowInv
<1>3. call'.by = "daemon" /\ call'.name = n /\ call'.pc = "patched"
  BY <1>1 DEF NoCall
<1>4. stored'[n] = new
  BY <1>t, <1>1
<1>5. new.file = f /\ new.before = tree[f]
  OBVIOUS
<1> HIDE DEF new
<1>6. \A g \in Files : tree[g].layers \in Nat
  BY <1>t DEF Content
<1>7. ByDaemon'
  BY <1>1, <1>2, <1>3 DEF FollowedInv, ByDaemon
<1>8. Unstacked'
  BY <1>1, <1>6 DEF Unstacked
<1>9. TopInv'
  BY <1>1, <1>6 DEF TopInv
<1>10. StepsInv'
  BY <1>1, <1>3, <1>4, <1>5, <1>8 DEF StepsInv
<1>11. PendingInv'
  BY <1>1, <1>2 DEF FollowedInv, ByDaemon, AwaitsReview, PendingInv
<1> QED
  BY <1>7, <1>9, <1>10, <1>11 DEF FollowedInv

\* An exception of the daemon's call is the daemon's to handle.
LEMMA RaiseFollows ==
  ASSUME Inv, FollowedInv, Raise
  PROVE  call'.by = "daemon" /\ call'.pc \in {"idle", "failed"}
<1>1. call' = [call EXCEPT !.pc = "failed"] /\ call \in Call
  BY DEF Raise, FollowedInv, ByDaemon, Inv, TypeOK
<1> QED
  BY <1>1 DEF FollowedInv, ByDaemon, Call

\* The artifacts are written, the tree waits.
LEMMA ArtifactsFollow ==
  ASSUME Inv, WorkflowInv, managed', WriteCandidate \/ WriteManifest \/ MarkApplied \/ MarkReverted
  PROVE  FollowedInv'
<1>t. call \in Call
  BY DEF Inv, TypeOK
<1>1. /\ UNCHANGED <<tree, head, newest, proposal, review>> /\ managed
      /\ call.pc \in {"patched", "listed", "applied", "reverted"}
  BY DEF WriteCandidate, WriteManifest, MarkApplied, MarkReverted, gitVars, historyVars
<1>2. FollowedInv /\ SameCandidates
  BY <1>1, ArtifactsSame DEF WorkflowInv
<1>3. StepsInv /\ call.by = "daemon" /\ review.pc = "idle"
  BY <1>1, <1>2 DEF FollowedInv, ByDaemon, StepsInv
<1>4. call.name \in Names /\ stored[call.name] # None
      /\ stored'[call.name].before = stored[call.name].before
      /\ stored'[call.name].file = stored[call.name].file
  <2>1. call.name \in Names /\ stored[call.name] # None
    BY <1>1, <1>t DEF Inv, TypeOK, ArtifactsInv, Call
  <2> QED
    BY <1>2, <2>1 DEF SameCandidates
<1>5. ASSUME call.pc \in {"patched", "listed"}, call'.pc \in {"listed", "apply"}, call'.name = call.name
      PROVE  StepsInv'
  <2>1. Unstacked /\ call.name = newest /\ stored[newest].before = head[stored[newest].file]
    BY <1>3, <1>5 DEF StepsInv
  <2>2. Unstacked'
    BY <1>1, <2>1 DEF Unstacked
  <2> QED
    BY <1>1, <1>3, <1>4, <1>5, <2>1, <2>2 DEF StepsInv
<1>6. call'.by = "daemon" /\ StepsInv'
  <2>1. CASE WriteCandidate
    <3>1. call.pc = "patched" /\ call'.pc = "listed" /\ call'.name = call.name /\ call'.by = call.by
      BY <1>t, <2>1 DEF WriteCandidate, Call
    <3> QED
      BY <1>3, <1>5, <3>1
  <2>2. CASE WriteManifest
    <3>1. call.pc = "listed" /\ (Raise \/ call' = [call EXCEPT !.pc = "apply"])
      BY <2>2 DEF WriteManifest
    <3>2. CASE Raise
      <4>1. call'.by = "daemon" /\ call'.pc \in {"idle", "failed"}
        BY <1>2, <3>2, RaiseFollows
      <4> QED
        BY <1>1, <1>3, <4>1 DEF StepsInv
    <3>3. CASE call' = [call EXCEPT !.pc = "apply"]
      <4>1. call'.pc = "apply" /\ call'.name = call.name /\ call'.by = call.by
        BY <1>t, <3>3 DEF Call
      <4> QED
        BY <1>3, <1>5, <3>1, <4>1
    <3> QED
      BY <3>1, <3>2, <3>3
  <2>3. CASE MarkApplied
    <3>1. call'.pc = "evaluate" /\ call'.tested = tree /\ call'.by = call.by
      BY <1>t, <2>3 DEF MarkApplied, Call
    <3>2. SameOrEdited(call.tested)'
      BY <1>1, <3>1 DEF SameOrEdited
    <3> QED
      BY <1>1, <1>3, <3>1, <3>2 DEF StepsInv
  <2>4. CASE MarkReverted
    <3>1. call'.pc = "idle" /\ call'.by = "daemon"
      BY <2>4 DEF MarkReverted, Return, NoCall
    <3> QED
      BY <3>1 DEF StepsInv
  <2> QED
    BY <2>1, <2>2, <2>3, <2>4
<1> QED
  BY <1>1, <1>2, <1>6, LookingOn

\* The forward patch goes on top of the last commit; a reverse patch, of whichever
\* candidate sorts last, takes layers away.
LEMMA PatchesFollow ==
  ASSUME Inv, Patches, WorkflowInv, managed', Apply \/ Rewrite
  PROVE  FollowedInv'
<1> DEFINE c == stored[call.name]
<1>t. call \in Call /\ tree \in [Files -> Content] /\ head \in [Files -> Content]
  BY DEF Inv, TypeOK, Tree
<1>1. /\ UNCHANGED <<head, stored, newest, proposal, review>> /\ managed
      /\ call.pc \in {"apply", "rewrite"}
  BY DEF Apply, Rewrite, historyVars
<1>2. FollowedInv
  BY <1>1 DEF WorkflowInv
<1>3. /\ call.name \in Names /\ c # None /\ c.file \in Files
      /\ c.before \in Content /\ c.after \in Content /\ c.after = Mutated(c.before)
  <2>1. call.name \in Names /\ c # None /\ c \in Candidate
    BY <1>1, InHand
  <2> QED
    BY <2>1 DEF Candidate, Patches
<1>4. call'.by = "daemon" /\ call'.pc \in {"applied", "reverted"} /\ review.pc = "idle"
  BY <1>t, <1>1, <1>2 DEF Apply, Rewrite, Call, FollowedInv, ByDaemon, StepsInv
<1>5. ByDaemon' /\ StepsInv'
  BY <1>1, <1>2, <1>4 DEF FollowedInv, ByDaemon, StepsInv
<1>6. PendingInv'
  BY <1>1, <1>2, NothingPending DEF PendingInv
<1>7. TopInv'
  <2>1. CASE Apply
    <3>1. /\ tree' = [tree EXCEPT ![c.file] = c.after]
          /\ Unstacked /\ call.name = newest /\ c.before = head[c.file]
      BY <1>2, <2>1 DEF Apply, FollowedInv, StepsInv
    <3> SUFFICES ASSUME NEW f \in Files, tree'[f].layers > head[f].layers
                 PROVE  newest # None /\ stored[newest] # None /\ stored[newest].file = f
                        /\ tree'[f] = Mutated(head[f])
      BY <1>1 DEF TopInv
    <3>2. CASE f = c.file
      BY <1>t, <1>3, <3>1, <3>2, MutationAssumption
    <3>3. CASE f # c.file
      <4>1. tree'[f] = tree[f] /\ tree[f].layers \in Nat /\ head[f].layers \in Nat
        BY <1>t, <3>1, <3>3 DEF Content
      <4> QED
        BY <3>1, <4>1 DEF Unstacked
    <3> QED
      BY <3>2, <3>3
  <2>2. CASE Rewrite
    <3>1. /\ tree' = [tree EXCEPT ![c.file] = c.before]
          /\ c.before.layers <= head[c.file].layers
      BY <1>2, <2>2 DEF Rewrite, FollowedInv, StepsInv
    <3> SUFFICES ASSUME NEW f \in Files, tree'[f].layers > head[f].layers
                 PROVE  newest # None /\ stored[newest] # None /\ stored[newest].file = f
                        /\ tree'[f] = Mutated(head[f])
      BY <1>1 DEF TopInv
    <3>2. f # c.file
      <4>1. c.before.layers \in Nat /\ head[c.file].layers \in Nat
        BY <1>t, <1>3 DEF Content
      <4>2. tree'[c.file] = c.before
        BY <1>t, <1>3, <3>1
      <4> QED
        BY <3>1, <4>1, <4>2
    <3>3. tree'[f] = tree[f]
      BY <1>t, <3>1, <3>2
    <3> QED
      BY <1>2, <3>3 DEF FollowedInv, TopInv
  <2> QED
    BY <2>1, <2>2
<1> QED
  BY <1>5, <1>6, <1>7 DEF FollowedInv

\* A reverse patch that may be applied ends at or below the last commit.
LEMMA RevertsDown ==
  ASSUME Inv, Patches, TopInv, NEW n \in Names, stored[n] # None,
         tree[stored[n].file] = stored[n].after
  PROVE  stored[n].before.layers <= head[stored[n].file].layers
<1> DEFINE f == stored[n].file
<1>1. /\ f \in Files /\ stored[n].before \in Content
      /\ tree[f] \in Content /\ head[f] \in Content
  <2>1. stored[n] \in Candidate
    BY DEF Inv, TypeOK
  <2> QED
    BY <2>1 DEF Candidate, Inv, TypeOK, Tree
<1>2. tree[f].layers = stored[n].before.layers + 1
  BY <1>1 DEF Patches, Mutated, Content
<1>3. tree[f].layers > head[f].layers => tree[f].layers = head[f].layers + 1
  BY <1>1 DEF TopInv, Mutated, Content
<1>4. tree[f].layers \in Nat /\ head[f].layers \in Nat /\ stored[n].before.layers \in Nat
  BY <1>1 DEF Content
<1> HIDE DEF f
<1>5. stored[n].before.layers <= head[f].layers
  BY <1>2, <1>3, <1>4
<1> QED
  BY <1>5 DEF f

\* The rest of a call: it evaluates, fails, is recovered or dies.
LEMMA CallsFollow ==
  ASSUME Inv, Patches, WorkflowInv, managed',
         \/ EvaluationFails \/ HandleDirtyCycle \/ HandleFailure \/ CheckRevert \/ CrashCall
  PROVE  FollowedInv'
<1>t. call \in Call
  BY DEF Inv, TypeOK
<1>i. NoCall.pc = "idle" /\ NoCall.by = "daemon"
  BY DEF NoCall
<1>1. UNCHANGED <<tree, head, stored, newest, proposal, review>> /\ managed
  BY DEF EvaluationFails, HandleDirtyCycle, HandleFailure, CheckRevert, CrashCall, gitVars, historyVars
<1>2. FollowedInv /\ SameCandidates
  BY <1>1, StoredSame DEF WorkflowInv
<1>3. call.by = "daemon" /\ StepsInv
  BY <1>2 DEF FollowedInv, ByDaemon
<1>4. call.pc # "idle" \/ proposal = None \/ proposal.status # "pending"
  <2>1. CASE HandleDirtyCycle
    BY <1>2, <2>1 DEF HandleDirtyCycle, AwaitsReview, FollowedInv, ByDaemon
  <2>2. CASE ~HandleDirtyCycle
    BY <2>2 DEF EvaluationFails, HandleFailure, CheckRevert, CrashCall
  <2> QED
    BY <2>1, <2>2
<1>5. call'.by = "daemon" /\ StepsInv'
  <2>1. CASE EvaluationFails
    <3>1. call'.by = "daemon" /\ call'.pc \in {"idle", "failed"} /\ review.pc = "idle"
      BY <1>2, <1>3, <2>1, RaiseFollows DEF EvaluationFails, StepsInv
    <3> QED
      BY <1>1, <3>1 DEF StepsInv
  <2>2. CASE HandleDirtyCycle
    <3>1. /\ call'.by = "daemon" /\ review.pc = "idle"
          /\ call'.pc = "failed" \/ (call'.pc = "evaluate" /\ call'.tested = tree)
      BY <2>2 DEF HandleDirtyCycle, NoCall
    <3>2. call'.pc = "evaluate" => SameOrEdited(call.tested)'
      BY <1>1, <3>1 DEF SameOrEdited
    <3> QED
      BY <1>1, <3>1, <3>2 DEF StepsInv
  <2>3. CASE HandleFailure
    <3>1. call'.by = "daemon" /\ call'.pc \in {"idle", "revert"}
      <4>1. CASE Return
        BY <1>i, <4>1 DEF Return
      <4>2. CASE ~Return
        BY <2>3, <4>2 DEF HandleFailure, NoCall
      <4> QED
        BY <4>1, <4>2
    <3>2. review.pc = "idle"
      BY <1>3, <2>3 DEF HandleFailure, StepsInv
    <3> QED
      BY <1>1, <3>1, <3>2 DEF StepsInv
  <2>4. CASE CheckRevert
    <3>1. /\ call.pc = "revert"
          /\ \/ call' = [call EXCEPT !.pc = "reverted"] \/ call' = NoCall
             \/ /\ call' = [call EXCEPT !.pc = "rewrite"]
                /\ tree[stored[call.name].file] = stored[call.name].after
      BY <2>4 DEF CheckRevert, Return
    <3>2. /\ call'.by = "daemon" /\ review.pc = "idle"
          /\ \/ call'.pc \in {"reverted", "idle"}
             \/ /\ call'.pc = "rewrite" /\ call'.name = call.name
                /\ tree[stored[call.name].file] = stored[call.name].after
      BY <1>t, <1>i, <1>3, <3>1 DEF Call, StepsInv
    <3>3. call.name \in Names /\ stored[call.name] # None
      BY <3>1, InHand
    <3>4. call'.pc = "rewrite" => stored[call.name].before.layers <= head[stored[call.name].file].layers
      BY <1>2, <3>2, <3>3, RevertsDown DEF FollowedInv
    <3> QED
      BY <1>1, <3>2, <3>4 DEF StepsInv
  <2>5. CASE CrashCall
    BY <1>i, <2>5 DEF CrashCall, Return, StepsInv
  <2> QED
    BY <2>1, <2>2, <2>3, <2>4, <2>5
<1> QED
  BY <1>1, <1>2, <1>4, <1>5, LookingOn

\* The proposal that comes out is about the tree as it is, but for edits.
LEMMA ProposeFollows ==
  ASSUME Inv, WorkflowInv, managed', Propose
  PROVE  FollowedInv'
<1>1. /\ UNCHANGED <<tree, head, stored, newest, review, edits>> /\ managed
      /\ call.pc = "evaluate" /\ call' = NoCall
  BY DEF Propose, gitVars, historyVars, boundVars, Return
<1>2. FollowedInv /\ SameCandidates
  BY <1>1, StoredSame DEF WorkflowInv
<1>3. proposal'.by = "daemon" /\ proposal'.tested = call.tested
  BY <1>2 DEF Propose, FollowedInv, ByDaemon
<1>4. call'.pc = "idle" /\ call'.by = "daemon"
  BY <1>1 DEF NoCall
<1>5. TopInv'
  BY <1>1, <1>2, StandsStill DEF FollowedInv
<1>6. SameOrEdited(call.tested) /\ review.pc = "idle"
  BY <1>1, <1>2 DEF FollowedInv, StepsInv
<1>7. SameOrEdited(proposal.tested)'
  BY <1>1, <1>3, <1>6 DEF SameOrEdited, Edited
<1>8. ByDaemon' /\ StepsInv' /\ PendingInv'
  BY <1>1, <1>2, <1>3, <1>4, <1>6, <1>7 DEF FollowedInv, ByDaemon, StepsInv, PendingInv
<1> QED
  BY <1>5, <1>8 DEF FollowedInv

\* A commit and a reset leave a clean tree.
LEMMA CleanTop ==
  ASSUME Inv, tree' = head', head' \in Tree
  PROVE  TopInv'
<1>1. \A f \in Files : head'[f].layers \in Nat
  BY DEF Tree, Content
<1> QED
  BY <1>1 DEF TopInv

\* The operator's review leaves the daemon's work as it was, or takes all of it.
LEMMA ReviewFollows ==
  ASSUME Inv, WorkflowInv, managed',
         Accept \/ MarkAccepted \/ SaveBase \/ Reject \/ HardReset \/ CrashReview
  PROVE  FollowedInv'
<1>n. NoReview.pc = "idle" /\ NoReview.proposal = None
  BY DEF NoReview
<1>1. UNCHANGED <<stored, call, newest, edits>> /\ SameCandidates /\ managed
  <2>1. UNCHANGED <<stored, call, newest, edits>> /\ managed
    BY DEF Accept, MarkAccepted, SaveBase, Reject, HardReset, CrashReview, historyVars, boundVars
  <2> QED
    BY <2>1, StoredSame
<1>2. FollowedInv
  BY <1>1 DEF WorkflowInv
<1>3. call.pc = "idle"
  BY <1>2 DEF Accept, MarkAccepted, SaveBase, Reject, HardReset, CrashReview, FollowedInv, StepsInv
<1>4. StepsInv'
  BY <1>1, <1>3 DEF StepsInv
<1>5. CASE Accept
  <2>1. /\ UNCHANGED <<tree, proposal>> /\ head' = tree /\ head' \in Tree
        /\ review'.pc = "committed" /\ review'.proposal = proposal /\ proposal # None
    BY <1>5 DEF Accept, Inv, TypeOK
  <2>2. ByDaemon'
    BY <1>1, <1>2, <2>1 DEF FollowedInv, ByDaemon
  <2>3. PendingInv'
    BY <1>1, <1>2, <2>1 DEF FollowedInv, PendingInv, SameOrEdited, Edited
  <2>4. TopInv'
    BY <2>1, CleanTop
  <2> QED
    BY <1>4, <2>2, <2>3, <2>4 DEF FollowedInv
<1>6. CASE MarkAccepted
  <2>1. /\ UNCHANGED <<tree, head>> /\ review.proposal # None /\ review \in Review
        /\ proposal' = [review.proposal EXCEPT !.status = "accepted"]
        /\ review' = [review EXCEPT !.pc = "marked"]
    BY <1>6 DEF MarkAccepted, gitVars, Inv, ReviewInv, TypeOK
  <2>2. review.proposal \in Proposal /\ review'.proposal = review.proposal
    BY <2>1 DEF Review
  <2>3. proposal'.by = review.proposal.by /\ proposal'.status = "accepted"
    BY <2>1, <2>2 DEF Proposal
  <2>4. TopInv'
    BY <1>1, <1>2, <2>1, StandsStill DEF FollowedInv
  <2>5. ByDaemon' /\ PendingInv'
    BY <1>1, <1>2, <2>1, <2>2, <2>3 DEF FollowedInv, ByDaemon, PendingInv
  <2> QED
    BY <1>4, <2>4, <2>5 DEF FollowedInv
<1>7. CASE SaveBase \/ CrashReview
  <2>1. UNCHANGED <<tree, head, proposal>> /\ review' = NoReview
    BY <1>7 DEF SaveBase, CrashReview, gitVars
  <2>2. TopInv'
    BY <1>1, <1>2, <2>1, StandsStill DEF FollowedInv
  <2>3. ByDaemon'
    BY <1>n, <1>1, <1>2, <2>1 DEF FollowedInv, ByDaemon
  <2>4. PendingInv'
    BY <1>n, <1>1, <1>2, <2>1 DEF FollowedInv, PendingInv, SameOrEdited, Edited
  <2> QED
    BY <1>4, <2>2, <2>3, <2>4 DEF FollowedInv
<1>8. CASE Reject
  <2>1. /\ UNCHANGED <<tree, head>> /\ proposal # None
        /\ proposal' = [proposal EXCEPT !.status = "rejected"] /\ review'.proposal = None
    BY <1>8 DEF Reject, gitVars, NoReview
  <2>2. proposal'.by = proposal.by /\ proposal'.status = "rejected"
    BY <2>1 DEF Inv, TypeOK, Proposal
  <2>3. TopInv'
    BY <1>1, <1>2, <2>1, StandsStill DEF FollowedInv
  <2>4. ByDaemon' /\ PendingInv'
    BY <1>1, <1>2, <2>1, <2>2 DEF FollowedInv, ByDaemon, PendingInv
  <2> QED
    BY <1>4, <2>3, <2>4 DEF FollowedInv
<1>9. CASE HardReset
  <2>1. /\ tree' = base /\ head' = base /\ base \in Tree /\ UNCHANGED proposal
        /\ review' = NoReview /\ review.pc = "reset"
    BY <1>9 DEF HardReset, Inv, TypeOK
  <2>2. TopInv'
    BY <2>1, CleanTop
  <2>3. ByDaemon' /\ PendingInv'
    BY <1>n, <1>1, <1>2, <2>1 DEF FollowedInv, ByDaemon, PendingInv
  <2> QED
    BY <1>4, <2>2, <2>3 DEF FollowedInv
<1> QED
  BY <1>5, <1>6, <1>7, <1>8, <1>9

\* An edit takes the mutations out of a file, at any moment.
LEMMA EditFollows ==
  ASSUME Inv, WorkflowInv, managed', NEW f \in Files, Edit(f)
  PROVE  FollowedInv'
<1>t. tree \in [Files -> Content] /\ head \in [Files -> Content] /\ edits \in Nat
  BY MutationAssumption DEF Inv, TypeOK, Tree
<1>1. /\ UNCHANGED <<stored, call, newest, head, proposal, review>> /\ managed
      /\ edits' = edits + 1
      /\ tree' = [tree EXCEPT ![f] = [text |-> edits + 1, layers |-> 0]]
  BY DEF Edit
<1>2. FollowedInv
  BY <1>1 DEF WorkflowInv
<1>3. tree'[f].layers = 0 /\ tree'[f].text = edits' /\ edits' \in Nat /\ edits' > 0
  BY <1>t, <1>1
<1>4. \A g \in Files : g # f => tree'[g] = tree[g]
  BY <1>t, <1>1
<1>5. \A g \in Files : head[g].layers \in Nat
  BY <1>t DEF Content
<1>6. TopInv'
  BY <1>1, <1>2, <1>3, <1>4, <1>5 DEF FollowedInv, TopInv
<1>7. Unstacked => Unstacked'
  BY <1>1, <1>3, <1>4, <1>5 DEF Unstacked
<1>8. ASSUME NEW t, SameOrEdited(t)
      PROVE  \A g \in Files : tree'[g] = t[g] \/ (tree'[g].layers = 0 /\ tree'[g].text \in 1..edits')
  <2> SUFFICES ASSUME NEW g \in Files
               PROVE  tree'[g] = t[g] \/ (tree'[g].layers = 0 /\ tree'[g].text \in 1..edits')
    OBVIOUS
  <2>1. CASE g = f
    BY <1>3, <2>1
  <2>2. CASE g # f
    <3>1. tree'[g] = tree[g] /\ (tree[g] = t[g] \/ Edited(tree[g]))
      BY <1>4, <1>8, <2>2 DEF SameOrEdited
    <3>2. 1..edits \subseteq 1..edits'
      BY <1>t, <1>1
    <3> QED
      BY <3>1, <3>2 DEF Edited
  <2> QED
    BY <2>1, <2>2
<1>9. SameOrEdited(call.tested) => SameOrEdited(call.tested)'
  BY <1>1, <1>8 DEF SameOrEdited, Edited
<1>10. SameOrEdited(proposal.tested) => SameOrEdited(proposal.tested)'
  BY <1>1, <1>8 DEF SameOrEdited, Edited
<1>11. StepsInv'
  BY <1>1, <1>2, <1>7, <1>9 DEF FollowedInv, StepsInv
<1>12. ByDaemon' /\ PendingInv'
  BY <1>1, <1>2, <1>10 DEF FollowedInv, ByDaemon, PendingInv
<1> QED
  BY <1>6, <1>11, <1>12 DEF FollowedInv

\* A workflow that is followed keeps its invariant, and one that was left is left
\* for good.
LEMMA WorkflowStays ==
  ASSUME Inv, Patches, WorkflowInv, [Next]_vars
  PROVE  WorkflowInv'
<1> SUFFICES ASSUME managed' PROVE FollowedInv'
  BY DEF WorkflowInv
<1>1. CASE UNCHANGED vars
  <2>1. UNCHANGED <<tree, head, stored, proposal, call, review, newest, managed, edits>>
    BY <1>1 DEF vars, gitVars, historyVars, boundVars
  <2>2. FollowedInv
    BY <2>1 DEF WorkflowInv
  <2> QED
    BY <2>1, <2>2 DEF FollowedInv, ByDaemon, TopInv, StepsInv, PendingInv, Unstacked, SameOrEdited,
                      Edited
<1>2. ~(\E phase \in Phases : RevertLatest(phase))
  BY DEF RevertLatest
<1> QED
  BY <1>1, <1>2, GenerateFollows, ArtifactsFollow, PatchesFollow, CallsFollow, ProposeFollows,
     ReviewFollows, EditFollows DEF Next, Mutation, Recovery, Operator

\* The invariant of the workflow.
LEMMA WorkflowHolds == Spec => [](Patches /\ WorkflowInv)
<1>1. Init => Patches /\ WorkflowInv
  <2> SUFFICES ASSUME Init PROVE Patches /\ FollowedInv
    BY DEF WorkflowInv
  <2>1. ByDaemon /\ StepsInv /\ PendingInv /\ Patches
    BY DEF Init, Patches, ByDaemon, StepsInv, PendingInv, NoCall, NoReview
  <2>2. TopInv
    BY DEF Init, TopInv, Untouched
  <2> QED
    BY <2>1, <2>2 DEF FollowedInv
<1>2. Inv /\ (Patches /\ WorkflowInv) /\ [Next]_vars => (Patches /\ WorkflowInv)'
  BY PatchesStay, WorkflowStays
<1> QED
  BY <1>1, <1>2, MutationInvariant, PTL DEF Spec

\* In the daemon's workflow, whatever order the random names sort in, whatever
\* is edited meanwhile and whichever candidate a failure reverts, the tree holds
\* one mutation the last commit does not have at most: the newest, on top of it.
THEOREM NoMutationOnAnother == Spec => []NeverStacked
<1>1. Patches /\ WorkflowInv => NeverStacked
  BY DEF WorkflowInv, FollowedInv, TopInv, NeverStacked
<1> QED
  BY <1>1, WorkflowHolds, PTL

\* What an acceptance of a waiting proposal commits, in that workflow, is of every
\* file what the lanes ran on or what a human wrote into it.
THEOREM AcceptsWhatWasTested == Spec => CommitsTheTested
<1>1. Inv /\ (Patches /\ WorkflowInv) /\ [Next]_vars =>
        [/\ managed'
         /\ head' # head
         /\ review'.pc = "committed"
         /\ proposal.status = "pending"
         => \A f \in Files : head'[f] = proposal.tested[f] \/ Edited(head'[f])]_vars
  <2> SUFFICES ASSUME Inv, WorkflowInv, [Next]_vars, managed', head' # head,
                      review'.pc = "committed", proposal.status = "pending"
               PROVE  \A f \in Files : head'[f] = proposal.tested[f] \/ Edited(head'[f])
    OBVIOUS
  <2>1. Accept \/ HardReset
    BY DEF Next, vars, Mutation, Recovery, Operator, Generate, WriteCandidate, WriteManifest, Apply,
       MarkApplied, MarkReverted, Propose, EvaluationFails, HandleDirtyCycle, HandleFailure,
       RevertLatest, CheckRevert, Rewrite, MarkAccepted, SaveBase, Reject, Edit, CrashCall,
       CrashReview, gitVars
  <2>2. ~HardReset
    <3>1. HardReset => review' = NoReview
      BY DEF HardReset
    <3>2. NoReview.pc = "idle"
      BY DEF NoReview
    <3> QED
      BY <3>1, <3>2
  <2>3. proposal # None /\ managed /\ head' = tree
    BY <2>1, <2>2 DEF Accept
  <2>4. SameOrEdited(proposal.tested)
    BY <2>3 DEF WorkflowInv, FollowedInv, PendingInv
  <2> QED
    BY <2>3, <2>4 DEF SameOrEdited
<1> QED
  BY <1>1, WorkflowHolds, MutationInvariant, PTL DEF Spec, CommitsTheTested

=============================================================================

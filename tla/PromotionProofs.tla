-------------------------- MODULE PromotionProofs ---------------------------
(***************************************************************************)
(* Proofs about the memory index and about promotion, which writes to it.  *)
(***************************************************************************)
EXTENDS Promotion, TLAPS

-----------------------------------------------------------------------------
(***************************************************************************)
(* The memory index, for every number of writers, traces and crashes.  The *)
(* invariant: who is past the duplicate check holds the lock and its trace *)
(* is still unrecorded; who is about to write a record finds its clause in *)
(* MEMORY.md.                                                              *)
(***************************************************************************)
NotedClauses == {ClauseOf[t] : t \in Noted}

Inside(w) == writer[w].pc \in {"entry", "record"}

\* The holder of the lock is alone, and what it checked still holds.
LockInv == \A w \in Writers :
  Inside(w) => lock = w /\ writer[w].record.trace \notin Recorded

\* An entry is there before its record.
EntryInv == \A w \in Writers :
  writer[w].pc = "record" => ClauseOf[writer[w].record.trace] \in NotedClauses

IndexInv == IndexTypeOK /\ LockInv /\ EntryInv /\ EveryClauseIsNoted

-----------------------------------------------------------------------------
\* Appending one element adds it to what a sequence holds, and nothing else.
LEMMA AppendFacts ==
  ASSUME NEW S, NEW s \in Seq(S), NEW e \in S
  PROVE  /\ Append(s, e) \in Seq(S)
         /\ Append(s, e) # <<>>
         /\ DOMAIN s = 1..Len(s)
         /\ Len(s) \in Nat
         /\ DOMAIN Append(s, e) = 1..(Len(s) + 1)
         /\ \A i \in 1..Len(s) : Append(s, e)[i] = s[i]
         /\ Append(s, e)[Len(s) + 1] = e
OBVIOUS

\* Writing an entry adds its trace to the noted ones.
LEMMA NotedGrows ==
  ASSUME IndexTypeOK, NEW t \in Traces, markdown' = Append(markdown, t)
  PROVE  Noted' = Noted \cup {t}
<1>1. markdown \in Seq(Traces)
  BY DEF IndexTypeOK
<1> QED
  BY <1>1, AppendFacts DEF Noted

\* Writing a record adds its trace to the recorded ones.
LEMMA RecordedGrows ==
  ASSUME IndexTypeOK, NEW r \in Record, deployments' = Append(deployments, r)
  PROVE  /\ Recorded' = Recorded \cup {r.trace}
         /\ deployments' # <<>>
         /\ \A i \in DOMAIN deployments :
              i \in DOMAIN deployments' /\ deployments'[i] = deployments[i]
<1>1. deployments \in Seq(Record)
  BY DEF IndexTypeOK
<1>2. deployments' # <<>> /\ DOMAIN deployments = 1..Len(deployments)
      /\ Len(deployments) \in Nat /\ DOMAIN deployments' = 1..(Len(deployments) + 1)
      /\ (\A i \in 1..Len(deployments) : deployments'[i] = deployments[i])
      /\ deployments'[Len(deployments) + 1] = r
  BY <1>1, AppendFacts
<1> QED
  BY <1>2 DEF Recorded

\* The traces in the two files are traces.
LEMMA FilesHoldTraces ==
  ASSUME IndexTypeOK
  PROVE  /\ Recorded \subseteq Traces
         /\ Noted \subseteq Traces
         /\ Active \subseteq Recorded
<1>1. markdown \in Seq(Traces) /\ deployments \in Seq(Record)
  BY DEF IndexTypeOK
<1>2. \A i \in DOMAIN markdown : markdown[i] \in Traces
  BY <1>1
<1>3. \A i \in DOMAIN deployments : deployments[i] \in Record
  BY <1>1
<1> QED
  BY <1>2, <1>3 DEF Recorded, Noted, Active, Record

\* A clause that append() takes to be there already can be read in MEMORY.md.
LEMMA LoadedIsNoted ==
  ASSUME IndexTypeOK, EveryClauseIsNoted
  PROVE  Loaded \subseteq NotedClauses
BY FilesHoldTraces DEF Loaded, NotedClauses, EveryClauseIsNoted

-----------------------------------------------------------------------------
\* One step of a call keeps the invariant.  Promotion takes these steps too.
LEMMA AppendKeepsInv ==
  ASSUME IndexInv, NEW w \in Writers, AppendStep(w), UNCHANGED loaderVars
  PROVE  IndexInv'
<1> USE IndexAssumption DEF Inside
<1>0. IndexTypeOK /\ LockInv /\ EntryInv /\ EveryClauseIsNoted
  BY DEF IndexInv
<1>t. writer \in [Writers -> Call] /\ lock \in Writers \cup {None} /\ None \notin Writers
  BY <1>0 DEF IndexTypeOK
<1>r. writer[w].pc # "idle" => writer[w].record \in Record /\ writer[w].record.trace \in Traces
  BY <1>0, <1>t DEF IndexTypeOK, Call, Record
<1>1. CASE Refuse(w)
  <2>1. UNCHANGED <<fileVars, lock, crashes>> /\ writer' = [writer EXCEPT ![w] = [NoCall EXCEPT !.wrote = FALSE]]
    BY <1>1 DEF Refuse, Answer
  <2>2. IndexTypeOK'
    BY <2>1, <1>0, <1>t DEF IndexTypeOK, fileVars, loaderVars, NoCall, Call
  <2>3. UNCHANGED <<Recorded, Noted>>
    BY <2>1 DEF fileVars, Recorded, Noted
  <2>4. LockInv' /\ EntryInv'
    BY <2>1, <2>3, <1>0, <1>t DEF LockInv, EntryInv, NotedClauses, NoCall, Call
  <2>5. EveryClauseIsNoted'
    BY <2>3, <1>0 DEF EveryClauseIsNoted
  <2> QED
    BY <2>2, <2>4, <2>5 DEF IndexInv
<1>2. CASE Enter(w)
  <2>1. /\ writer[w].pc = "wait" /\ lock = None /\ ~IsDuplicate(writer[w].record.trace)
        /\ lock' = w /\ UNCHANGED <<fileVars, crashes>>
        /\ writer' = [writer EXCEPT ![w].pc =
                 IF IsDuplicateClause(writer[w].record.trace) THEN "record" ELSE "entry"]
    BY <1>2 DEF Enter
  <2>2. IndexTypeOK'
    BY <2>1, <1>0, <1>t DEF IndexTypeOK, fileVars, loaderVars, Call
  <2>3. \A v \in Writers : ~Inside(v)
    BY <2>1, <1>0, <1>t DEF LockInv
  <2>4. writer[w].record.trace \notin Recorded
    <3>1. CASE deployments # <<>>
      BY <2>1, <3>1 DEF IsDuplicate
    <3>2. CASE deployments = <<>>
      <4>1. DOMAIN deployments = {}
        BY <3>2
      <4> QED
        BY <4>1 DEF Recorded
    <3> QED
      BY <3>1, <3>2
  <2>5. LockInv'
    BY <2>1, <2>3, <2>4, <1>t DEF LockInv, fileVars, Recorded, Call
  <2>6. EntryInv'
    <3>1. IsDuplicateClause(writer[w].record.trace) => ClauseOf[writer[w].record.trace] \in NotedClauses
      BY <1>0, LoadedIsNoted DEF IsDuplicateClause
    <3> QED
      BY <2>1, <2>3, <3>1, <1>t DEF EntryInv, fileVars, NotedClauses, Noted, Call
  <2>7. EveryClauseIsNoted'
    BY <2>1, <1>0 DEF EveryClauseIsNoted, fileVars, Recorded, Noted
  <2> QED
    BY <2>2, <2>5, <2>6, <2>7 DEF IndexInv
<1>3. CASE WriteEntry(w)
  <2>1. /\ writer[w].pc = "entry" /\ markdown' = Append(markdown, writer[w].record.trace)
        /\ writer' = [writer EXCEPT ![w].pc = "record"] /\ UNCHANGED <<deployments, lock, crashes>>
    BY <1>3 DEF WriteEntry
  <2>2. IndexTypeOK'
    <3>1. markdown' \in Seq(Traces)
      BY <2>1, <1>0, <1>r, AppendFacts DEF IndexTypeOK
    <3> QED
      BY <2>1, <3>1, <1>0, <1>t DEF IndexTypeOK, loaderVars, Call
  <2>3. Noted' = Noted \cup {writer[w].record.trace}
    BY <2>1, <1>0, <1>r, NotedGrows
  <2>4. LockInv'
    BY <2>1, <1>0, <1>t DEF LockInv, Recorded, Call
  <2>5. NotedClauses \subseteq NotedClauses' /\ ClauseOf[writer[w].record.trace] \in NotedClauses'
    BY <2>3 DEF NotedClauses
  <2>6. EntryInv'
    BY <2>1, <2>5, <1>0, <1>t DEF EntryInv, Call
  <2>7. UNCHANGED Recorded
    BY <2>1 DEF Recorded
  <2>8. EveryClauseIsNoted'
    BY <2>3, <2>7, <1>0 DEF EveryClauseIsNoted
  <2> QED
    BY <2>2, <2>4, <2>6, <2>8 DEF IndexInv
<1>4. CASE WriteRecord(w)
  <2>1. /\ writer[w].pc = "record" /\ deployments' = Append(deployments, writer[w].record)
        /\ lock' = None /\ writer' = [writer EXCEPT ![w] = [NoCall EXCEPT !.wrote = TRUE]]
        /\ UNCHANGED <<markdown, crashes>>
    BY <1>4 DEF WriteRecord, Answer
  <2>2. IndexTypeOK'
    <3>1. deployments' \in Seq(Record)
      BY <2>1, <1>0, <1>r, AppendFacts DEF IndexTypeOK
    <3> QED
      BY <2>1, <3>1, <1>0, <1>t DEF IndexTypeOK, loaderVars, Call, NoCall
  <2>3. Recorded' = Recorded \cup {writer[w].record.trace}
    BY <2>1, <1>0, <1>r, RecordedGrows
  <2>4. LockInv'
    <3>1. \A v \in Writers : v # w => ~Inside(v)
      BY <2>1, <1>0, <1>t DEF LockInv
    <3> QED
      BY <2>1, <3>1, <1>t DEF LockInv, NoCall, Call
  <2>5. UNCHANGED Noted
    BY <2>1 DEF Noted
  <2>6. EntryInv' /\ EveryClauseIsNoted'
    BY <2>1, <2>3, <2>5, <1>0, <1>t DEF EntryInv, EveryClauseIsNoted, NotedClauses, NoCall, Call
  <2> QED
    BY <2>2, <2>4, <2>6 DEF IndexInv
<1> QED
  BY <1>1, <1>2, <1>3, <1>4 DEF AppendStep

\* So does the beginning of a call,
LEMMA CallKeepsInv ==
  ASSUME IndexInv, NEW w \in Writers, NEW t \in Traces, NEW status \in GuardrailStatuses,
         CallAppend(w, t, status), UNCHANGED loaderVars
  PROVE  IndexInv'
<1> DEFINE r == [trace |-> t, status |-> status]
           call == IF t \in Canaries THEN NoCall ELSE [pc |-> "wait", record |-> r, wrote |-> FALSE]
<1>1. /\ UNCHANGED <<fileVars, lock, crashes>> /\ writer[w].pc = "idle"
      /\ writer' = [writer EXCEPT ![w] = call]
  BY DEF CallAppend
<1>2. r \in Record
  BY DEF Record
<1>3. call \in Call /\ call.pc \notin {"entry", "record"} /\ (call.pc # "idle" => call.record # None)
  BY <1>2, IndexAssumption DEF Call, NoCall
<1> HIDE DEF r, call
<1>4. IndexTypeOK'
  BY <1>1, <1>3 DEF IndexInv, IndexTypeOK, fileVars, loaderVars
<1>5. UNCHANGED <<Recorded, Noted>>
  BY <1>1 DEF fileVars, Recorded, Noted
<1>6. LockInv' /\ EntryInv'
  BY <1>1, <1>3, <1>5 DEF IndexInv, IndexTypeOK, LockInv, EntryInv, Inside, NotedClauses
<1>7. EveryClauseIsNoted'
  BY <1>5 DEF IndexInv, EveryClauseIsNoted
<1> QED
  BY <1>4, <1>6, <1>7 DEF IndexInv

\* the death of a process,
LEMMA DieKeepsInv ==
  ASSUME IndexInv, NEW w \in Writers, Die(w), UNCHANGED loaderVars
  PROVE  IndexInv'
<1> USE IndexAssumption
<1>1. /\ UNCHANGED fileVars /\ writer' = [writer EXCEPT ![w] = NoCall]
      /\ lock' = (IF lock = w THEN None ELSE lock)
      /\ crashes < MaxCrashes /\ crashes' = crashes + 1
  BY DEF Die
<1>2. IndexTypeOK'
  BY <1>1 DEF IndexInv, IndexTypeOK, fileVars, loaderVars, NoCall, Call
<1>3. UNCHANGED <<Recorded, Noted>>
  BY <1>1 DEF fileVars, Recorded, Noted
<1>4. LockInv' /\ EntryInv'
  BY <1>1, <1>3 DEF IndexInv, IndexTypeOK, LockInv, EntryInv, Inside, NotedClauses, NoCall
<1>5. EveryClauseIsNoted'
  BY <1>3 DEF IndexInv, EveryClauseIsNoted
<1> QED
  BY <1>2, <1>4, <1>5 DEF IndexInv

\* and a campaign that loads its guardrails.
LEMMA InjectKeepsInv ==
  ASSUME IndexInv, Inject
  PROVE  IndexInv'
<1>1. UNCHANGED <<fileVars, lock, writer, crashes>>
  BY DEF Inject
<1>2. UNCHANGED <<Recorded, Noted>>
  BY <1>1 DEF fileVars, Recorded, Noted
<1>3. Active \subseteq Traces /\ Loaded \subseteq Clauses
  BY FilesHoldTraces, IndexAssumption DEF IndexInv, Loaded
<1>4. injected' \subseteq Clauses /\ loader' \in {"idle", "none", "fallback"}
  BY <1>3, IndexAssumption DEF Inject, LoadRecords, LookForRecords, LoadFallback, IndexInv, IndexTypeOK
<1>5. IndexTypeOK'
  BY <1>1, <1>4 DEF IndexInv, IndexTypeOK, fileVars
<1>6. LockInv' /\ EntryInv' /\ EveryClauseIsNoted'
  BY <1>1, <1>2 DEF IndexInv, LockInv, EntryInv, EveryClauseIsNoted, NotedClauses, Inside
<1> QED
  BY <1>5, <1>6 DEF IndexInv

\* A step of somebody else keeps the invariant of the index.
LEMMA StutterKeepsInv ==
  ASSUME IndexInv, UNCHANGED indexVars
  PROVE  IndexInv'
BY DEF indexVars, fileVars, loaderVars, IndexInv, IndexTypeOK, LockInv, EntryInv,
   EveryClauseIsNoted, NotedClauses, Inside, Recorded, Noted

-----------------------------------------------------------------------------
\* The invariant holds in every reachable state of the index.
THEOREM IndexInvariant == IndexSpec => []IndexInv
<1>1. IndexInit => IndexInv
  <2> SUFFICES ASSUME IndexInit PROVE IndexInv
    OBVIOUS
  <2>1. IndexTypeOK
    BY IndexAssumption DEF IndexInit, IndexTypeOK, Call, NoCall
  <2>2. DOMAIN deployments = {}
    BY DEF IndexInit
  <2>3. Recorded = {}
    BY <2>2 DEF Recorded
  <2>4. LockInv /\ EntryInv
    BY DEF IndexInit, LockInv, EntryInv, Inside, NoCall
  <2>5. EveryClauseIsNoted
    BY <2>3 DEF EveryClauseIsNoted
  <2> QED
    BY <2>1, <2>4, <2>5 DEF IndexInv
<1>2. IndexInv /\ [IndexNext]_indexVars => IndexInv'
  BY AppendKeepsInv, CallKeepsInv, DieKeepsInv, InjectKeepsInv, StutterKeepsInv DEF IndexNext
<1> QED
  BY <1>1, <1>2, PTL DEF IndexSpec

\* Whatever the interleaving of calls and crashes: the files hold what they
\* should, and only one process is inside the lock.
THEOREM IndexTypeCorrect == IndexSpec => []IndexTypeOK
<1>1. IndexInv => IndexTypeOK
  BY DEF IndexInv
<1> QED
  BY <1>1, IndexInvariant, PTL

\* A clause that a record carries can always be read in MEMORY.md.
THEOREM ClausesAreNoted == IndexSpec => []EveryClauseIsNoted
<1>1. IndexInv => EveryClauseIsNoted
  BY DEF IndexInv
<1> QED
  BY <1>1, IndexInvariant, PTL

-----------------------------------------------------------------------------
\* A step of the index is a step of the log, or none: this is where the lock
\* pays, for what the duplicate check saw must still hold at the write.
LEMMA AppendStepLogs ==
  ASSUME IndexInv, NEW w \in Writers, AppendStep(w)
  PROVE  Log!Next \/ UNCHANGED deployments
<1>1. CASE Refuse(w) \/ Enter(w) \/ WriteEntry(w)
  BY <1>1 DEF Refuse, Enter, WriteEntry, fileVars
<1>2. CASE WriteRecord(w)
  <2>1. writer[w].pc = "record" /\ deployments' = Append(deployments, writer[w].record)
    BY <1>2 DEF WriteRecord
  <2>2. writer[w].record \in Record /\ writer[w].record.trace \notin Recorded
    BY <2>1 DEF IndexInv, IndexTypeOK, LockInv, Inside, Call
  <2>3. writer[w].record \in Log!Record /\ ~Log!Logged(writer[w].record.trace)
    BY <2>2 DEF Record, Recorded, Log!Record, Log!Logged
  <2> QED
    BY <2>1, <2>3 DEF Log!Next, Log!Add
<1> QED
  BY <1>1, <1>2 DEF AppendStep

\* The index implements the log: records are only added, one at a time, and
\* never twice for a trace.
THEOREM IndexImplementsLog == IndexSpec => AppendsOnce
<1>1. IndexInit => Log!Init
  BY DEF IndexInit, Log!Init
<1>2. IndexInv /\ [IndexNext]_indexVars => [Log!Next]_deployments
  <2> SUFFICES ASSUME IndexInv, [IndexNext]_indexVars
               PROVE  Log!Next \/ UNCHANGED deployments
    OBVIOUS
  <2>1. CASE UNCHANGED indexVars
    BY <2>1 DEF indexVars, fileVars
  <2>2. CASE \E w \in Writers : AppendStep(w)
    BY <2>2, AppendStepLogs
  <2>3. CASE \E w \in Writers : (\E t \in Traces, status \in GuardrailStatuses : CallAppend(w, t, status)) \/ Die(w)
    BY <2>3 DEF CallAppend, Die, fileVars
  <2>4. CASE Inject
    BY <2>4 DEF Inject, fileVars
  <2> QED
    BY <2>1, <2>2, <2>3, <2>4 DEF IndexNext
<1> QED
  BY <1>1, <1>2, IndexInvariant, PTL DEF IndexSpec, AppendsOnce, Log!Spec

-----------------------------------------------------------------------------
\* What holds as long as no process dies: outside the lock MEMORY.md is never
\* ahead of an empty deployments.jsonl.
NoLoneEntry == deployments = <<>> /\ lock = None => Noted = {}

CalmInv ==
  /\ NoLoneEntry
  /\ OnlyActiveGuardrails
  /\ loader # "idle" => injected = {}

\* An active record stays where it is, so what it justifies stays justified.
LEMMA RecordsStay ==
  ASSUME IndexInv, NEW w \in Writers, AppendStep(w), UNCHANGED loaderVars, CalmInv
  PROVE  CalmInv'
<1> USE IndexAssumption
<1>t. writer \in [Writers -> Call] /\ None \notin Writers
  BY DEF IndexInv, IndexTypeOK
<1>1. CASE Refuse(w) \/ Enter(w)
  <2>1. UNCHANGED <<deployments, markdown, injected, loader>> /\ (lock' = None => lock = None)
    BY <1>1 DEF Refuse, Enter, fileVars, loaderVars
  <2>2. UNCHANGED Noted
    BY <2>1 DEF Noted
  <2> QED
    BY <2>1, <2>2 DEF CalmInv, NoLoneEntry, OnlyActiveGuardrails
<1>2. CASE WriteEntry(w)
  <2>1. UNCHANGED <<deployments, injected, loader>> /\ lock' # None
    BY <1>2, <1>t DEF WriteEntry, IndexInv, LockInv, Inside, loaderVars
  <2> QED
    BY <2>1 DEF CalmInv, NoLoneEntry, OnlyActiveGuardrails
<1>3. CASE WriteRecord(w)
  <2>1. deployments' = Append(deployments, writer[w].record) /\ writer[w].record \in Record
    BY <1>3 DEF WriteRecord, IndexInv, IndexTypeOK, Call
  <2>2. /\ deployments' # <<>>
        /\ \A i \in DOMAIN deployments : i \in DOMAIN deployments' /\ deployments'[i] = deployments[i]
    BY <2>1, RecordedGrows DEF IndexInv
  <2>3. UNCHANGED <<injected, loader>>
    BY DEF loaderVars
  <2>4. OnlyActiveGuardrails'
    BY <2>2, <2>3 DEF CalmInv, OnlyActiveGuardrails
  <2> QED
    BY <2>2, <2>3, <2>4 DEF CalmInv, NoLoneEntry
<1> QED
  BY <1>1, <1>2, <1>3 DEF AppendStep

\* A campaign injects active clauses, and all of those it found before.
LEMMA InjectIsJustified ==
  ASSUME IndexInv, Inject, CalmInv
  PROVE  CalmInv' /\ injected \subseteq injected'
<1>1. UNCHANGED <<deployments, markdown, lock>>
  BY DEF Inject, fileVars
<1>2. NoLoneEntry'
  BY <1>1 DEF CalmInv, NoLoneEntry, Noted
<1>3. \A c \in {ClauseOf[t] : t \in Active} : \E i \in DOMAIN deployments :
        ClauseOf[deployments[i].trace] = c /\ deployments[i].status = "active_guardrail"
  BY DEF Active
<1>4. injected \subseteq {ClauseOf[t] : t \in Active}
  BY DEF CalmInv, OnlyActiveGuardrails, Active
<1>5. CASE LoadRecords
  <2>1. CASE Active = {}
    <3>1. UNCHANGED injected /\ injected = {}
      BY <1>4, <1>5, <2>1 DEF LoadRecords
    <3> QED
      BY <1>1, <1>2, <3>1 DEF CalmInv, OnlyActiveGuardrails
  <2>2. CASE Active # {}
    <3>1. injected' = {ClauseOf[t] : t \in Active} /\ loader' = "idle"
      BY <1>5, <2>2 DEF LoadRecords
    <3> QED
      BY <1>1, <1>2, <1>3, <1>4, <3>1 DEF CalmInv, OnlyActiveGuardrails
  <2> QED
    BY <2>1, <2>2
<1>6. CASE LookForRecords
  <2>1. injected = {} /\ injected' = {}
    BY <1>6 DEF LookForRecords, CalmInv
  <2> QED
    BY <1>1, <1>2, <2>1 DEF CalmInv, OnlyActiveGuardrails
<1>7. CASE LoadFallback
  <2>1. injected = {} /\ injected' = Loaded /\ loader' = "idle" /\ lock = None
    BY <1>7 DEF LoadFallback, CalmInv
  <2>2. Loaded \subseteq {ClauseOf[t] : t \in Active}
    BY <2>1 DEF Loaded, CalmInv, NoLoneEntry
  <2> QED
    BY <1>1, <1>2, <1>3, <2>1, <2>2 DEF CalmInv, OnlyActiveGuardrails
<1> QED
  BY <1>5, <1>6, <1>7 DEF Inject

\* Any step, as long as no process has died.
LEMMA CalmStep ==
  ASSUME IndexInv, crashes = 0 => CalmInv, [IndexNext]_indexVars, crashes' = 0
  PROVE  CalmInv' /\ injected \subseteq injected'
<1>1. \A w \in Writers : ~Die(w)
  BY DEF Die, IndexInv, IndexTypeOK
<1>2. CASE UNCHANGED indexVars
  BY <1>2 DEF indexVars, fileVars, loaderVars, CalmInv, NoLoneEntry, OnlyActiveGuardrails, Noted
<1>3. CASE Inject
  BY <1>3, InjectIsJustified DEF Inject
<1>4. CASE \E w \in Writers : AppendStep(w) /\ UNCHANGED loaderVars
  <2>1. UNCHANGED crashes
    BY <1>4 DEF AppendStep, Refuse, Enter, WriteEntry, WriteRecord
  <2> QED
    BY <1>4, <2>1, RecordsStay DEF loaderVars
<1>5. CASE UNCHANGED loaderVars /\
           \E w \in Writers, t \in Traces, status \in GuardrailStatuses : CallAppend(w, t, status)
  <2>1. UNCHANGED <<fileVars, lock, loaderVars, crashes>>
    BY <1>5 DEF CallAppend
  <2> QED
    BY <2>1 DEF fileVars, loaderVars, CalmInv, NoLoneEntry, OnlyActiveGuardrails, Noted
<1> QED
  BY <1>1, <1>2, <1>3, <1>4, <1>5 DEF IndexNext

\* As long as no process has died, a campaign injects only clauses that a record
\* makes active guardrails, never those of a candidate.
THEOREM OnlyActiveInjected == IndexSpec => []InjectsOnlyActive
<1>1. IndexInit => (crashes = 0 => CalmInv)
  BY DEF IndexInit, CalmInv, NoLoneEntry, OnlyActiveGuardrails, Noted
<1>2. IndexInv /\ (crashes = 0 => CalmInv) /\ [IndexNext]_indexVars => (crashes = 0 => CalmInv)'
  BY CalmStep
<1>3. (crashes = 0 => CalmInv) => InjectsOnlyActive
  BY DEF CalmInv, InjectsOnlyActive
<1> QED
  BY <1>1, <1>2, <1>3, IndexInvariant, PTL DEF IndexSpec

\* As long as no process has died, what one campaign injects all later ones inject.
THEOREM NoGuardrailLost == IndexSpec => InjectedStaysInjected
<1>1. IndexInit => (crashes = 0 => CalmInv)
  BY DEF IndexInit, CalmInv, NoLoneEntry, OnlyActiveGuardrails, Noted
<1>2. IndexInv /\ (crashes = 0 => CalmInv) /\ [IndexNext]_indexVars =>
        (crashes = 0 => CalmInv)' /\ [crashes' = 0 => injected \subseteq injected']_indexVars
  BY CalmStep
<1> QED
  BY <1>1, <1>2, IndexInvariant, PTL DEF IndexSpec, InjectedStaysInjected

-----------------------------------------------------------------------------
(***************************************************************************)
(* Promotion, for every number of promoters, campaigns, proposals, traces  *)
(* and crashes.  The invariant follows a trace on its way: the validation  *)
(* a run holds in memory passed the gates; what it still has to write, and *)
(* what append() is writing for it, was cleared for its proposal; what it  *)
(* counts as written is active.                                            *)
(***************************************************************************)
Busy(call) == call.pc # "idle"

\* A proposal that is or was accepted went through accept_latest.
AcceptedInv == \A p \in Proposals : plane[p] = "accepted" => p \in approved

TrailInv == \A p \in Proposals :
  /\ validation[p].status = "validated" => validation[p].ids \subseteq cleared[p]
  /\ cleared[p] \subseteq Strong

\* What a run holds in its local variables, given what was approved and cleared.
RunOK(run, approvals, clearance) ==
  /\ run.pc # "off" => run.proposal \in approvals
  /\ run.pc = "save" /\ run.valid.status = "validated" => run.valid.ids \subseteq Strong
  /\ run.pc \in {"replayed", "write"} /\ run.valid.status = "validated"
       => run.valid.ids \subseteq clearance[run.proposal]
  /\ run.pc \in {"append", "appending"} => ~run.dry /\ run.todo \subseteq clearance[run.proposal]
  /\ run.pc = "appending" => run.trace \in clearance[run.proposal]
  /\ run.dry => run.written = {}

RunInv == \A w \in Promoters : RunOK(promoter[w], approved, cleared)

\* What a run and its call of append() have to do with each other.
CallOK(run, call, done) ==
  /\ run.written \subseteq done
  /\ run.pc # "appending" => ~Busy(call)
  /\ run.pc = "appending" /\ Busy(call)
       => call.record = [trace |-> run.trace, status |-> "active_guardrail"]
  /\ run.pc = "appending" /\ ~Busy(call) /\ call.wrote => run.trace \in done

CallInv == \A w \in Promoters : CallOK(promoter[w], writer[w], Promoted)

NeighbourInv == \A w \in Writers \ Promoters :
  Busy(writer[w]) => writer[w].record.trace \notin ResearchTraces

PromotedInv == \A t \in Promoted : \E p \in Proposals : t \in cleared[p]

Inv ==
  /\ TypeOK
  /\ IndexInv
  /\ AcceptedInv
  /\ TrailInv
  /\ RunInv
  /\ CallInv
  /\ NeighbourInv
  /\ PromotedInv
  /\ AuditSound

TrailTypeOK ==
  /\ manifest \subseteq Proposals
  /\ step \in [Proposals -> Steps]
  /\ validation \in [Proposals -> Validation]
  /\ result \in [Proposals -> Result]
  /\ cleared \in [Proposals -> SUBSET ResearchTraces]
  /\ intended \subseteq Proposals

PlaneTypeOK ==
  /\ research \subseteq ResearchTraces
  /\ cycle \in [before : SUBSET ResearchTraces] \cup {None}
  /\ plane \in [Proposals -> Planes]
  /\ recommended \subseteq Proposals
  /\ sound \subseteq Proposals
  /\ eligible \in [Proposals -> SUBSET ResearchTraces]
  /\ latest \in Proposals \cup {None}
  /\ approved \subseteq Proposals

-----------------------------------------------------------------------------
\* The type invariant in its three parts.
LEMMA Types == TypeOK <=> IndexTypeOK /\ PlaneTypeOK /\ TrailTypeOK /\ promoter \in [Promoters -> Local]
BY DEF TypeOK, PlaneTypeOK, TrailTypeOK

\* What was right to hold stays right when more is approved and cleared.
LEMMA RunStaysOK ==
  ASSUME NEW run \in Local, NEW A1 \in SUBSET Proposals, NEW A2 \in SUBSET Proposals,
         NEW C1, NEW C2, A1 \subseteq A2,
         \A p \in Proposals : C1[p] \subseteq C2[p],
         RunOK(run, A1, C1)
  PROVE  RunOK(run, A2, C2)
<1>1. CASE run.pc = "off"
  BY <1>1 DEF RunOK
<1>2. CASE run.pc # "off"
  <2>1. run.proposal \in Proposals /\ run.proposal \in A2
    BY <1>2 DEF RunOK
  <2>2. C1[run.proposal] \subseteq C2[run.proposal]
    BY <2>1
  <2> QED
    BY <2>1, <2>2 DEF RunOK
<1> QED
  BY <1>1, <1>2

\* and when more became active.
LEMMA CallStaysOK ==
  ASSUME NEW run, NEW call, NEW done1, NEW done2, done1 \subseteq done2, CallOK(run, call, done1)
  PROVE  CallOK(run, call, done2)
BY DEF CallOK

\* While the index does nothing, the same evidence is active.
LEMMA QuietIndex ==
  ASSUME IndexInv, UNCHANGED indexVars
  PROVE  IndexInv' /\ UNCHANGED Promoted /\ UNCHANGED writer
BY StutterKeepsInv DEF indexVars, fileVars, Promoted, Active

\* A step of one run keeps the invariant, when what it leaves behind is right.
LEMMA RunKeepsInv ==
  ASSUME Inv, NEW w \in Promoters, NEW local \in Local,
         promoter' = [promoter EXCEPT ![w] = local],
         UNCHANGED <<cycleVars, planeVars>>,
         IndexInv', \A v \in Writers : v # w => writer'[v] = writer[v],
         Promoted \subseteq Promoted', PromotedInv',
         TrailTypeOK', \A p \in Proposals : cleared[p] \subseteq cleared'[p],
         TrailInv', AuditSound',
         RunOK(local, approved, cleared'), CallOK(local, writer'[w], Promoted')
  PROVE  Inv'
<1> USE PromotionAssumption
<1>t. promoter \in [Promoters -> Local] /\ approved \in SUBSET Proposals
  BY DEF Inv, TypeOK
<1>1. TypeOK'
  <2>1. IndexTypeOK'
    BY DEF IndexInv
  <2>2. PlaneTypeOK'
    BY DEF Inv, TypeOK, PlaneTypeOK, cycleVars, planeVars
  <2>3. promoter' \in [Promoters -> Local]
    BY <1>t
  <2> QED
    BY <2>1, <2>2, <2>3 DEF TypeOK, PlaneTypeOK, TrailTypeOK
<1>2. AcceptedInv'
  BY DEF Inv, AcceptedInv, planeVars
<1>3. RunInv'
  <2> SUFFICES ASSUME NEW v \in Promoters PROVE RunOK(promoter'[v], approved', cleared')
    BY DEF RunInv
  <2>1. approved' = approved
    BY DEF planeVars
  <2>2. CASE v = w
    BY <1>t, <2>1, <2>2
  <2>3. CASE v # w
    <3>1. promoter'[v] = promoter[v] /\ promoter[v] \in Local
      BY <1>t, <2>3
    <3>2. RunOK(promoter[v], approved, cleared)
      BY DEF Inv, RunInv
    <3> QED
      BY <1>t, <2>1, <3>1, <3>2, RunStaysOK
  <2> QED
    BY <2>2, <2>3
<1>4. CallInv'
  <2> SUFFICES ASSUME NEW v \in Promoters PROVE CallOK(promoter'[v], writer'[v], Promoted')
    BY DEF CallInv
  <2>1. CASE v = w
    BY <1>t, <2>1
  <2>2. CASE v # w
    <3>1. promoter'[v] = promoter[v] /\ writer'[v] = writer[v]
      BY <1>t, <2>2
    <3>2. CallOK(promoter[v], writer[v], Promoted)
      BY DEF Inv, CallInv
    <3> QED
      BY <3>1, <3>2, CallStaysOK
  <2> QED
    BY <2>1, <2>2
<1>5. NeighbourInv'
  BY DEF Inv, NeighbourInv
<1> QED
  BY <1>1, <1>2, <1>3, <1>4, <1>5 DEF Inv

\* A step of a run that touches no file.
LEMMA LocalKeepsInv ==
  ASSUME Inv, NEW w \in Promoters, NEW local \in Local,
         promoter' = [promoter EXCEPT ![w] = local],
         UNCHANGED <<indexVars, cycleVars, planeVars, trailVars>>,
         intended' \subseteq Proposals,
         RunOK(local, approved, cleared), CallOK(local, writer[w], Promoted)
  PROVE  Inv'
<1>1. IndexInv' /\ UNCHANGED Promoted /\ UNCHANGED writer
  BY QuietIndex DEF Inv
<1>2. UNCHANGED <<manifest, step, validation, result, cleared>>
  BY DEF trailVars
<1>3. TrailTypeOK'
  BY <1>2 DEF Inv, TypeOK, TrailTypeOK
<1>4. TrailInv' /\ AuditSound' /\ PromotedInv'
  BY <1>1, <1>2 DEF Inv, TrailInv, AuditSound, PromotedInv
<1> QED
  BY <1>1, <1>2, <1>3, <1>4, RunKeepsInv
-----------------------------------------------------------------------------
\* What the invariant says of one run.
LEMMA Standing ==
  ASSUME Inv, NEW w \in Promoters
  PROVE  /\ promoter[w] \in Local
         /\ RunOK(promoter[w], approved, cleared)
         /\ CallOK(promoter[w], writer[w], Promoted)
BY DEF Inv, TypeOK, RunInv, CallInv

\* A promoter without a run has no local variables.
LEMMA OffIsLocal == Off \in Local
BY DEF Off, Local, Locations, NoValidation, Validation

\* A run that begins, by the operator's hand or the daemon's, works on an
\* approved proposal.
LEMMA BeginKeepsInv ==
  ASSUME Inv, NEW w \in Promoters, NEW dry \in BOOLEAN, Begin(w, dry),
         intended' = intended \/ intended' = intended \cup {latest}
  PROVE  Inv'
<1> DEFINE local == [Off EXCEPT !.pc = "check", !.proposal = latest, !.dry = dry]
<1>1. /\ At(w, "off") /\ LatestAccepted
      /\ promoter' = [promoter EXCEPT ![w] = local]
      /\ UNCHANGED <<indexVars, cycleVars, planeVars, trailVars>>
  BY DEF Begin, Become
<1>2. latest \in Proposals /\ latest \in approved
  BY <1>1 DEF Inv, TypeOK, AcceptedInv, LatestAccepted
<1>3. local \in Local
  BY <1>2 DEF Off, Local, Locations, NoValidation, Validation
<1>4. RunOK(local, approved, cleared)
  BY <1>2 DEF RunOK, Off
<1>5. CallOK(local, writer[w], Promoted)
  BY <1>1, Standing DEF CallOK, Off, At
<1>6. intended' \subseteq Proposals
  BY <1>2 DEF Inv, TypeOK
<1> HIDE DEF local
<1> QED
  BY <1>1, <1>3, <1>4, <1>5, <1>6, LocalKeepsInv

\* A run that looks for a result keeps the invariant.
LEMMA CheckResultKeepsInv ==
  ASSUME Inv, NEW w \in Promoters, CheckResult(w)
  PROVE  Inv'
<1> DEFINE local == IF result[promoter[w].proposal].status # "absent" /\ ~promoter[w].dry
                    THEN Off ELSE [promoter[w] EXCEPT !.pc = "manifest"]
<1>1. /\ At(w, "check") /\ promoter' = [promoter EXCEPT ![w] = local]
      /\ UNCHANGED <<indexVars, cycleVars, planeVars, trailVars, intended>>
  BY DEF CheckResult, Become, Goto
<1>2. local \in Local
  BY Standing, OffIsLocal DEF Local, Locations
<1>3. RunOK(local, approved, cleared)
  BY <1>1, Standing DEF RunOK, At, Off, Local
<1>4. CallOK(local, writer[w], Promoted)
  BY <1>1, Standing DEF CallOK, At, Off, Local
<1>5. intended' \subseteq Proposals
  BY <1>1 DEF Inv, TypeOK
<1> HIDE DEF local
<1> QED
  BY <1>1, <1>2, <1>3, <1>4, <1>5, LocalKeepsInv

\* A validation built now has only strong evidence, if it passes.
LEMMA BuildIsStrong ==
  ASSUME Inv, NEW p \in Proposals
  PROVE  /\ BuildValidation(p) \in Validation
         /\ BuildValidation(p).status = "validated" => BuildValidation(p).ids \subseteq Strong
<1>1. EligibleRecords(p) \in SUBSET ResearchTraces
  BY DEF EligibleRecords, Inv, TypeOK
<1> QED
  BY <1>1 DEF BuildValidation, Validation

\* What a run takes for the validation passed the gates, whether it was built or
\* read from the file another run left.
LEMMA ValidateKeepsInv ==
  ASSUME Inv, NEW w \in Promoters, Validate(w)
  PROVE  Inv'
<1> DEFINE p == promoter[w].proposal
           local == IF validation[p].status # "absent"
                    THEN [promoter[w] EXCEPT !.pc = "write", !.valid = validation[p]]
                    ELSE [promoter[w] EXCEPT !.pc = "save", !.valid = BuildValidation(p)]
<1>1. /\ At(w, "validate") /\ promoter' = [promoter EXCEPT ![w] = local]
      /\ UNCHANGED <<indexVars, cycleVars, planeVars, trailVars, intended>>
  BY DEF Validate, Become
<1>2. p \in Proposals /\ p \in approved
  BY <1>1, Standing DEF RunOK, At, Inv, TypeOK
<1>3. validation[p] \in Validation
      /\ (validation[p].status = "validated" => validation[p].ids \subseteq cleared[p])
  BY <1>2 DEF Inv, TypeOK, TrailInv
<1>4. local \in Local
  BY <1>2, <1>3, BuildIsStrong, Standing DEF Local, Locations
<1>5. RunOK(local, approved, cleared)
  <2>1. CASE validation[p].status # "absent"
    <3>1. local = [promoter[w] EXCEPT !.pc = "write", !.valid = validation[p]]
      BY <2>1
    <3>2. local.pc = "write" /\ local.valid = validation[p] /\ local.proposal = p
          /\ local.dry = promoter[w].dry /\ local.written = promoter[w].written
      BY <3>1, Standing DEF Local
    <3> QED
      BY <1>2, <1>3, <3>2, Standing DEF RunOK
  <2>2. CASE validation[p].status = "absent"
    <3>1. local = [promoter[w] EXCEPT !.pc = "save", !.valid = BuildValidation(p)]
      BY <2>2
    <3>2. local.pc = "save" /\ local.valid = BuildValidation(p) /\ local.proposal = p
          /\ local.dry = promoter[w].dry /\ local.written = promoter[w].written
      BY <3>1, Standing DEF Local
    <3> QED
      BY <1>2, <3>2, BuildIsStrong, Standing DEF RunOK
  <2> QED
    BY <2>1, <2>2
<1>6. CallOK(local, writer[w], Promoted)
  <2>1. local.pc # "appending" /\ local.written = promoter[w].written
    BY Standing DEF Local
  <2> QED
    BY <1>1, <2>1, Standing DEF CallOK, At
<1>7. intended' \subseteq Proposals
  BY <1>1 DEF Inv, TypeOK
<1> HIDE DEF local
<1> QED
  BY <1>1, <1>4, <1>5, <1>6, <1>7, LocalKeepsInv

\* What a run decides to write was cleared for its proposal.
LEMMA ReadRecordsKeepsInv ==
  ASSUME Inv, NEW w \in Promoters, ReadRecords(w)
  PROVE  Inv'
<1> DEFINE ids == promoter[w].valid.ids \cap EligibleRecords(promoter[w].proposal)
           local == IF promoter[w].valid.status # "validated" \/ promoter[w].dry
                    THEN [promoter[w] EXCEPT !.pc = "result"]
                    ELSE [promoter[w] EXCEPT !.pc = "append", !.todo = ids]
<1>1. /\ At(w, "write") /\ promoter' = [promoter EXCEPT ![w] = local]
      /\ UNCHANGED <<indexVars, cycleVars, planeVars, trailVars, intended>>
  BY DEF ReadRecords, Become
<1>2. ids \subseteq promoter[w].valid.ids /\ promoter[w].valid.ids \subseteq ResearchTraces
  BY Standing DEF Local, Validation
<1>3. local \in Local
  BY <1>2, Standing DEF Local, Locations
<1>4. RunOK(local, approved, cleared)
  <2>1. promoter[w].valid.status = "validated" => promoter[w].valid.ids \subseteq cleared[promoter[w].proposal]
    BY <1>1, Standing DEF RunOK, At
  <2>2. promoter[w].proposal \in approved /\ (promoter[w].dry => promoter[w].written = {})
    BY <1>1, Standing DEF RunOK, At
  <2> HIDE DEF ids
  <2>3. local.proposal = promoter[w].proposal /\ local.dry = promoter[w].dry /\ local.written = promoter[w].written
    BY Standing DEF Local
  <2>4. CASE promoter[w].valid.status # "validated" \/ promoter[w].dry
    <3>1. local.pc = "result"
      BY <2>4, Standing DEF Local
    <3> QED
      BY <2>2, <2>3, <3>1 DEF RunOK
  <2>5. CASE ~(promoter[w].valid.status # "validated" \/ promoter[w].dry)
    <3>1. local.pc = "append" /\ local.todo = ids
      BY <2>5, Standing DEF Local
    <3> QED
      BY <1>2, <2>1, <2>2, <2>3, <2>5, <3>1 DEF RunOK
  <2> QED
    BY <2>4, <2>5
<1>5. CallOK(local, writer[w], Promoted)
  <2>1. local.pc # "appending" /\ local.written = promoter[w].written
    BY Standing DEF Local
  <2> QED
    BY <1>1, <2>1, Standing DEF CallOK, At
<1>6. intended' \subseteq Proposals
  BY <1>1 DEF Inv, TypeOK
<1> HIDE DEF local
<1> QED
  BY <1>1, <1>3, <1>4, <1>5, <1>6, LocalKeepsInv

\* A run that has written its records keeps the invariant.
LEMMA AppendsDoneKeepsInv ==
  ASSUME Inv, NEW w \in Promoters, AppendsDone(w)
  PROVE  Inv'
<1> DEFINE local == [promoter[w] EXCEPT !.pc = "result"]
<1>1. /\ At(w, "append") /\ promoter' = [promoter EXCEPT ![w] = local]
      /\ UNCHANGED <<indexVars, cycleVars, planeVars, trailVars, intended>>
  BY DEF AppendsDone, Become, Goto
<1>2. local \in Local
  BY Standing DEF Local, Locations
<1>3. RunOK(local, approved, cleared)
  BY <1>1, Standing DEF RunOK, At, Local
<1>4. CallOK(local, writer[w], Promoted)
  BY <1>1, Standing DEF CallOK, At, Local
<1>5. intended' \subseteq Proposals
  BY <1>1 DEF Inv, TypeOK
<1> HIDE DEF local
<1> QED
  BY <1>1, <1>2, <1>3, <1>4, <1>5, LocalKeepsInv

-----------------------------------------------------------------------------
\* A step of a run that writes to its trail and leaves the index alone.
LEMMA TrailKeepsInv ==
  ASSUME Inv, NEW w \in Promoters, NEW local \in Local,
         promoter' = [promoter EXCEPT ![w] = local],
         UNCHANGED <<indexVars, cycleVars, planeVars, intended>>,
         manifest' \subseteq Proposals, step' \in [Proposals -> Steps],
         validation' \in [Proposals -> Validation], result' \in [Proposals -> Result],
         cleared' \in [Proposals -> SUBSET ResearchTraces],
         \A p \in Proposals : cleared[p] \subseteq cleared'[p],
         TrailInv', AuditSound',
         RunOK(local, approved, cleared'), CallOK(local, writer[w], Promoted)
  PROVE  Inv'
<1>1. IndexInv' /\ UNCHANGED Promoted /\ UNCHANGED writer
  BY QuietIndex DEF Inv
<1>2. TrailTypeOK'
  BY DEF Inv, TypeOK, TrailTypeOK
<1>3. PromotedInv'
  BY <1>1 DEF Inv, PromotedInv
<1> QED
  BY <1>1, <1>2, <1>3, RunKeepsInv

\* What such a step finds.
LEMMA TrailStanding ==
  ASSUME Inv, NEW w \in Promoters, ~At(w, "off")
  PROVE  /\ promoter[w].proposal \in Proposals
         /\ promoter[w].proposal \in approved
         /\ manifest \subseteq Proposals
         /\ step \in [Proposals -> Steps]
         /\ validation \in [Proposals -> Validation]
         /\ result \in [Proposals -> Result]
         /\ cleared \in [Proposals -> SUBSET ResearchTraces]
         /\ TrailInv
         /\ AuditSound
BY Standing DEF Inv, TypeOK, RunOK, At

\* So does a run that writes its manifest,
LEMMA WriteManifestKeepsInv ==
  ASSUME Inv, NEW w \in Promoters, WriteManifest(w)
  PROVE  Inv'
<1> DEFINE local == [promoter[w] EXCEPT !.pc = "checkpoint"]
<1>1. /\ At(w, "manifest") /\ promoter' = [promoter EXCEPT ![w] = local]
      /\ manifest' = manifest \cup {promoter[w].proposal}
      /\ UNCHANGED <<indexVars, cycleVars, planeVars, step, validation, result, cleared, intended>>
  BY DEF WriteManifest, Become, Goto
<1>2. ~At(w, "off")
  BY <1>1 DEF At
<1>3. local \in Local
  BY Standing DEF Local, Locations
<1>4. RunOK(local, approved, cleared)
  BY <1>1, Standing DEF RunOK, At, Local
<1>5. CallOK(local, writer[w], Promoted)
  BY <1>1, Standing DEF CallOK, At, Local
<1>6. TrailInv' /\ AuditSound'
  BY <1>1, <1>2, TrailStanding, QuietIndex DEF Inv, TrailInv, AuditSound
<1> HIDE DEF local
<1> QED
  BY <1>1, <1>2, <1>3, <1>4, <1>5, <1>6, TrailStanding, TrailKeepsInv

\* a run that writes a checkpoint of any step,
LEMMA CheckpointKeepsInv ==
  ASSUME Inv, NEW w \in Promoters, NEW from \in Locations \ {"off", "appending"},
         NEW name \in Steps, NEW to \in Local, Checkpoint(w, from, name, to),
         RunOK(to, approved, cleared), CallOK(to, writer[w], Promoted)
  PROVE  Inv'
<1>1. /\ At(w, from) /\ promoter' = [promoter EXCEPT ![w] = to]
      /\ step' = [step EXCEPT ![promoter[w].proposal] = name]
      /\ UNCHANGED <<indexVars, cycleVars, planeVars, manifest, validation, result, cleared, intended>>
  BY DEF Checkpoint, Become
<1>2. ~At(w, "off")
  BY <1>1 DEF At
<1>3. TrailInv' /\ AuditSound'
  BY <1>1, <1>2, TrailStanding, QuietIndex DEF Inv, TrailInv, AuditSound
<1>4. step' \in [Proposals -> Steps]
  BY <1>1, <1>2, TrailStanding
<1> QED
  BY <1>1, <1>2, <1>3, <1>4, TrailStanding, TrailKeepsInv

\* and so the three that promote_latest() writes.
LEMMA CheckpointsKeepInv ==
  ASSUME Inv, NEW w \in Promoters,
         CheckpointManifest(w) \/ CheckpointReplay(w) \/ CheckpointResult(w)
  PROVE  Inv'
<1> USE DEF Steps, Locations
<1>1. CASE CheckpointManifest(w)
  <2> DEFINE local == [promoter[w] EXCEPT !.pc = "validate"]
  <2>1. At(w, "checkpoint") /\ Checkpoint(w, "checkpoint", "manifest_written", local)
    BY <1>1 DEF CheckpointManifest, Checkpoint
  <2>2. local \in Local /\ RunOK(local, approved, cleared) /\ CallOK(local, writer[w], Promoted)
    BY <2>1, Standing DEF Local, RunOK, CallOK, At
  <2> HIDE DEF local
  <2> QED
    BY <2>1, <2>2, CheckpointKeepsInv
<1>2. CASE CheckpointReplay(w)
  <2> DEFINE local == [promoter[w] EXCEPT !.pc = "write"]
  <2>1. At(w, "replayed") /\ Checkpoint(w, "replayed", "replay_complete", local)
    BY <1>2 DEF CheckpointReplay, Checkpoint
  <2>2. local \in Local /\ RunOK(local, approved, cleared) /\ CallOK(local, writer[w], Promoted)
    BY <2>1, Standing DEF Local, RunOK, CallOK, At
  <2> HIDE DEF local
  <2> QED
    BY <2>1, <2>2, CheckpointKeepsInv
<1>3. CASE CheckpointResult(w)
  <2>1. At(w, "final") /\ Checkpoint(w, "final", "production_write_complete", Off)
    BY <1>3 DEF CheckpointResult, Checkpoint
  <2>2. Off \in Local /\ RunOK(Off, approved, cleared)
    BY OffIsLocal DEF RunOK, Off
  <2>3. CallOK(Off, writer[w], Promoted)
    BY <2>1, Standing DEF CallOK, Off, At
  <2> QED
    BY <2>1, <2>2, <2>3, CheckpointKeepsInv
<1> QED
  BY <1>1, <1>2, <1>3
\* A validation that is saved clears its traces, and nothing is cleared otherwise.
LEMMA SaveValidationKeepsInv ==
  ASSUME Inv, NEW w \in Promoters, SaveValidation(w)
  PROVE  Inv'
<1> DEFINE p == promoter[w].proposal
           valid == promoter[w].valid
           local == [promoter[w] EXCEPT !.pc = "replayed"]
<1>1. /\ At(w, "save") /\ promoter' = [promoter EXCEPT ![w] = local]
      /\ validation' = [validation EXCEPT ![p] = valid]
      /\ cleared' = IF valid.status = "validated" THEN [cleared EXCEPT ![p] = @ \cup valid.ids] ELSE cleared
      /\ UNCHANGED <<indexVars, cycleVars, planeVars, manifest, step, result, intended>>
  BY DEF SaveValidation, Become, Goto
<1>2. ~At(w, "off")
  BY <1>1 DEF At
<1>3. p \in Proposals /\ valid \in Validation /\ valid.ids \subseteq ResearchTraces
  BY <1>2, TrailStanding, Standing DEF Local, Validation
<1>4. valid.status = "validated" => valid.ids \subseteq Strong
  BY <1>1, Standing DEF RunOK, At
<1>5. /\ validation' \in [Proposals -> Validation]
      /\ cleared' \in [Proposals -> SUBSET ResearchTraces]
      /\ \A q \in Proposals : cleared[q] \subseteq cleared'[q]
      /\ valid.status = "validated" => valid.ids \subseteq cleared'[p]
  BY <1>1, <1>2, <1>3, TrailStanding
<1>6. TrailInv'
  <2> SUFFICES ASSUME NEW q \in Proposals
               PROVE  /\ validation'[q].status = "validated" => validation'[q].ids \subseteq cleared'[q]
                      /\ cleared'[q] \subseteq Strong
    BY DEF TrailInv
  <2>1. cleared[q] \subseteq Strong /\ (validation[q].status = "validated" => validation[q].ids \subseteq cleared[q])
    BY <1>2, TrailStanding DEF TrailInv
  <2>2. cleared'[q] \subseteq Strong
    BY <1>1, <1>2, <1>3, <1>4, <2>1, TrailStanding
  <2>3. CASE q = p
    BY <1>1, <1>2, <1>5, <2>2, <2>3, TrailStanding
  <2>4. CASE q # p
    <3>1. validation'[q] = validation[q] /\ cleared[q] \subseteq cleared'[q]
      BY <1>1, <1>2, <1>5, <2>4, TrailStanding
    <3> QED
      BY <2>1, <2>2, <3>1
  <2> QED
    BY <2>3, <2>4
<1>7. AuditSound'
  BY <1>1, <1>2, TrailStanding, QuietIndex DEF Inv, AuditSound
<1>8. local \in Local
  BY Standing DEF Local, Locations
<1>9. RunOK(local, approved, cleared')
  <2>1. /\ local.pc = "replayed" /\ local.proposal = p /\ local.valid = valid
        /\ local.dry = promoter[w].dry /\ local.written = promoter[w].written
    BY Standing DEF Local
  <2> QED
    BY <1>1, <1>5, <2>1, Standing DEF RunOK, At
<1>10. CallOK(local, writer[w], Promoted)
  BY <1>1, Standing DEF CallOK, At, Local
<1>11. manifest' \subseteq Proposals /\ step' \in [Proposals -> Steps] /\ result' \in [Proposals -> Result]
  BY <1>1, <1>2, TrailStanding
<1> HIDE DEF local, valid, p
<1> QED
  BY <1>1, <1>5, <1>6, <1>7, <1>8, <1>9, <1>10, <1>11, TrailKeepsInv

\* A result that is written claims what its run counted as written.
LEMMA WriteResultKeepsInv ==
  ASSUME Inv, NEW w \in Promoters, WriteResult(w)
  PROVE  Inv'
<1> DEFINE p == promoter[w].proposal
           new == [status |-> promoter[w].valid.status, ids |-> promoter[w].written, dry |-> promoter[w].dry]
           local == [promoter[w] EXCEPT !.pc = "final"]
<1>1. /\ At(w, "result") /\ promoter' = [promoter EXCEPT ![w] = local]
      /\ result' = [result EXCEPT ![p] = new]
      /\ UNCHANGED <<indexVars, cycleVars, planeVars, manifest, step, validation, cleared, intended>>
  BY DEF WriteResult, Become, Goto
<1>2. ~At(w, "off")
  BY <1>1 DEF At
<1>3. p \in Proposals /\ new \in Result
  BY <1>2, TrailStanding, Standing DEF Local, Validation, Result
<1>4. new.ids \subseteq Promoted /\ (new.dry => new.ids = {})
  BY Standing DEF RunOK, CallOK
<1>5. result' \in [Proposals -> Result]
  BY <1>1, <1>2, <1>3, TrailStanding
<1>6. AuditSound'
  <2>1. UNCHANGED Promoted
    BY <1>1, QuietIndex DEF Inv
  <2> SUFFICES ASSUME NEW q \in Proposals
               PROVE  result'[q].ids \subseteq Promoted /\ (result'[q].dry => result'[q].ids = {})
    BY <2>1 DEF AuditSound
  <2>2. result'[q] = new \/ result'[q] = result[q]
    BY <1>1, <1>2, TrailStanding
  <2> HIDE DEF new
  <2> QED
    BY <1>4, <2>2, <1>2, TrailStanding DEF AuditSound
<1>7. TrailInv'
  BY <1>1, <1>2, TrailStanding DEF TrailInv
<1>8. local \in Local
  BY Standing DEF Local, Locations
<1>9. RunOK(local, approved, cleared)
  BY <1>1, Standing DEF RunOK, At, Local
<1>10. CallOK(local, writer[w], Promoted)
  BY <1>1, Standing DEF CallOK, At, Local
<1> HIDE DEF local, new, p
<1> QED
  BY <1>1, <1>2, <1>5, <1>6, <1>7, <1>8, <1>9, <1>10, TrailStanding, TrailKeepsInv

-----------------------------------------------------------------------------
\* Which records an append() step makes active.
LEMMA ActiveGrows ==
  ASSUME IndexInv, NEW w \in Writers, AppendStep(w)
  PROVE  /\ Active \subseteq Active'
         /\ Active' \subseteq Active \cup {writer[w].record.trace}
         /\ UNCHANGED Active \/ WriteRecord(w)
         /\ WriteRecord(w) /\ writer[w].record.status = "active_guardrail"
              => writer[w].record.trace \in Active'
<1>1. CASE Refuse(w) \/ Enter(w) \/ WriteEntry(w)
  <2>1. UNCHANGED deployments
    BY <1>1 DEF Refuse, Enter, WriteEntry, fileVars
  <2>2. UNCHANGED Active
    BY <2>1 DEF Active
  <2>3. ~WriteRecord(w)
    BY <1>1 DEF Refuse, Enter, WriteEntry, WriteRecord
  <2> QED
    BY <2>2, <2>3
<1>2. CASE WriteRecord(w)
  <2> DEFINE r == writer[w].record
  <2>1. deployments' = Append(deployments, r) /\ r \in Record /\ deployments \in Seq(Record)
    BY <1>2 DEF WriteRecord, IndexInv, IndexTypeOK, Call
  <2> HIDE DEF r
  <2>2. DOMAIN deployments = 1..Len(deployments) /\ Len(deployments) \in Nat
        /\ DOMAIN deployments' = 1..(Len(deployments) + 1)
        /\ (\A i \in 1..Len(deployments) : deployments'[i] = deployments[i])
        /\ deployments'[Len(deployments) + 1] = r
    BY <2>1, AppendFacts
  <2>3. Active' = Active \cup (IF r.status = "active_guardrail" THEN {r.trace} ELSE {})
    BY <2>2 DEF Active
  <2> QED
    BY <1>2, <2>3 DEF r
<1> QED
  BY <1>1, <1>2 DEF AppendStep

\* What append() does for a run: nothing but to write what the run asked for.
LEMMA RunAppendKeepsInv ==
  ASSUME Inv, NEW w \in Promoters, AppendStep(w), UNCHANGED <<loaderVars, promotionVars>>
  PROVE  Inv'
<1> USE PromotionAssumption
<1> DEFINE run == promoter[w]
<1>w. w \in Writers /\ writer \in [Writers -> Call]
  BY DEF Inv, IndexInv, IndexTypeOK
<1>1. UNCHANGED <<cycleVars, planeVars, manifest, step, validation, result, cleared, promoter, intended>>
  BY DEF promotionVars, trailVars
<1>2. IndexInv'
  BY <1>w, AppendKeepsInv DEF Inv
<1>3. Busy(writer[w]) /\ \A v \in Writers : v # w => writer'[v] = writer[v]
  BY <1>w DEF AppendStep, Refuse, Enter, WriteEntry, WriteRecord, Answer, Busy
<1>4. /\ run.pc = "appending"
      /\ writer[w].record = [trace |-> run.trace, status |-> "active_guardrail"]
      /\ run.trace \in cleared[run.proposal] /\ run.proposal \in Proposals
  BY <1>3, Standing, TrailStanding DEF CallOK, RunOK, At
<1>5. Promoted \subseteq Promoted' /\ Promoted' \subseteq Promoted \cup {run.trace}
  BY <1>w, <1>4, ActiveGrows DEF Inv, Promoted
<1>6. PromotedInv'
  BY <1>1, <1>4, <1>5 DEF Inv, PromotedInv
<1>7. CallOK(run, writer'[w], Promoted')
  <2>1. run.written \subseteq Promoted'
    BY <1>5, Standing DEF CallOK
  <2>2. Busy(writer'[w]) => writer'[w].record = writer[w].record
    BY <1>w DEF AppendStep, Refuse, Enter, WriteEntry, WriteRecord, Answer, Busy, Call, NoCall
  <2>3. ~Busy(writer'[w]) /\ writer'[w].wrote => WriteRecord(w)
    BY <1>w DEF AppendStep, Refuse, Enter, WriteEntry, WriteRecord, Answer, Busy, Call, NoCall
  <2>4. run.trace \in ResearchTraces
    BY <1>1, <1>4 DEF Inv, TypeOK
  <2>5. WriteRecord(w) => run.trace \in Promoted'
    BY <1>w, <1>4, <2>4, ActiveGrows DEF Inv, Promoted
  <2> QED
    BY <1>4, <2>1, <2>2, <2>3, <2>5 DEF CallOK
<1>8. TrailTypeOK' /\ TrailInv'
  BY <1>1 DEF Inv, TypeOK, TrailTypeOK, TrailInv
<1>9. AuditSound'
  BY <1>1, <1>5 DEF Inv, AuditSound
<1>10. promoter' = [promoter EXCEPT ![w] = run] /\ run \in Local /\ RunOK(run, approved, cleared')
  BY <1>1, Standing DEF Inv, TypeOK
<1> HIDE DEF run
<1> QED
  BY <1>1, <1>2, <1>3, <1>5, <1>6, <1>7, <1>8, <1>9, <1>10, RunKeepsInv

\* A step of a run that begins or ends a call of append(), or dies in it.
LEMMA CallStepKeepsInv ==
  ASSUME Inv, NEW w \in Promoters, NEW local \in Local,
         promoter' = [promoter EXCEPT ![w] = local],
         UNCHANGED <<fileVars, cycleVars, planeVars, trailVars, intended>>,
         IndexInv', \A v \in Writers : v # w => writer'[v] = writer[v],
         RunOK(local, approved, cleared), CallOK(local, writer'[w], Promoted)
  PROVE  Inv'
<1>1. UNCHANGED Promoted
  BY DEF fileVars, Promoted, Active
<1>2. UNCHANGED <<manifest, step, validation, result, cleared, intended>>
  BY DEF trailVars
<1>3. TrailTypeOK' /\ TrailInv'
  BY <1>2 DEF Inv, TypeOK, TrailTypeOK, TrailInv
<1>4. AuditSound' /\ PromotedInv'
  BY <1>1, <1>2 DEF Inv, AuditSound, PromotedInv
<1> QED
  BY <1>1, <1>2, <1>3, <1>4, RunKeepsInv

\* A run asks append() only for a trace that was cleared.
LEMMA AppendRecordKeepsInv ==
  ASSUME Inv, NEW w \in Promoters, NEW t \in ResearchTraces, AppendRecord(w, t)
  PROVE  Inv'
<1> USE PromotionAssumption
<1> DEFINE local == [promoter[w] EXCEPT !.pc = "appending", !.trace = t, !.todo = @ \ {t}]
           r == [trace |-> t, status |-> "active_guardrail"]
<1>w. w \in Writers /\ writer \in [Writers -> Call] /\ t \in Traces
  BY DEF Inv, IndexInv, IndexTypeOK
<1>1. /\ At(w, "append") /\ t \in promoter[w].todo
      /\ CallAppend(w, t, "active_guardrail")
      /\ promoter' = [promoter EXCEPT ![w] = local]
      /\ UNCHANGED <<loaderVars, cycleVars, planeVars, trailVars, intended>>
  BY DEF AppendRecord, Become
<1>2. IndexInv'
  BY <1>w, <1>1, CallKeepsInv DEF Inv, GuardrailStatuses
<1>3. /\ UNCHANGED fileVars /\ \A v \in Writers : v # w => writer'[v] = writer[v]
      /\ writer'[w] = IF t \in Canaries THEN NoCall ELSE [pc |-> "wait", record |-> r, wrote |-> FALSE]
  BY <1>w, <1>1 DEF CallAppend
<1>4. local \in Local
  BY Standing DEF Local, Locations
<1>5. /\ local.pc = "appending" /\ local.trace = t /\ local.todo \subseteq promoter[w].todo
      /\ local.proposal = promoter[w].proposal /\ local.dry = promoter[w].dry
      /\ local.written = promoter[w].written
  BY Standing DEF Local
<1>6. RunOK(local, approved, cleared)
  BY <1>1, <1>5, Standing DEF RunOK, At
<1>7. CallOK(local, writer'[w], Promoted)
  <2>1. promoter[w].written \subseteq Promoted
    BY Standing DEF CallOK
  <2>2. CASE t \in Canaries
    BY <1>3, <1>5, <2>1, <2>2 DEF CallOK, NoCall, Busy
  <2>3. CASE t \notin Canaries
    <3>1. writer'[w] = [pc |-> "wait", record |-> r, wrote |-> FALSE]
      BY <1>3, <2>3
    <3> QED
      BY <1>5, <2>1, <3>1 DEF CallOK, Busy
  <2> QED
    BY <2>2, <2>3
<1> HIDE DEF local
<1> QED
  BY <1>1, <1>2, <1>3, <1>4, <1>6, <1>7, CallStepKeepsInv

\* A run counts a trace as written when append() said so, and then it is active.
LEMMA AppendReturnsKeepsInv ==
  ASSUME Inv, NEW w \in Promoters, AppendReturns(w)
  PROVE  Inv'
<1> USE PromotionAssumption, IndexAssumption
<1> DEFINE run == promoter[w]
           local == [run EXCEPT !.pc = "append", !.trace = None,
                       !.written = IF writer[w].wrote THEN @ \cup {run.trace} ELSE @]
<1>w. w \in Writers /\ writer \in [Writers -> Call]
  BY DEF Inv, IndexInv, IndexTypeOK
<1>1. /\ At(w, "appending") /\ writer[w].pc = "idle"
      /\ promoter' = [promoter EXCEPT ![w] = local]
      /\ writer' = [writer EXCEPT ![w] = NoCall]
      /\ UNCHANGED <<fileVars, lock, crashes, loaderVars, cycleVars, planeVars, trailVars, intended>>
  BY DEF AppendReturns, Become
<1>2. IndexInv'
  <2>1. IndexTypeOK'
    BY <1>1 DEF Inv, IndexInv, IndexTypeOK, fileVars, loaderVars, NoCall, Call
  <2>2. UNCHANGED <<Recorded, Noted>>
    BY <1>1 DEF fileVars, Recorded, Noted
  <2>3. LockInv' /\ EntryInv'
    BY <1>1, <2>2 DEF Inv, IndexInv, IndexTypeOK, LockInv, EntryInv, Inside, NotedClauses, NoCall
  <2>4. EveryClauseIsNoted'
    BY <2>2 DEF Inv, IndexInv, EveryClauseIsNoted
  <2> QED
    BY <2>1, <2>3, <2>4 DEF IndexInv
<1>3. (\A v \in Writers : v # w => writer'[v] = writer[v]) /\ writer'[w] = NoCall
  BY <1>w, <1>1
<1>4. /\ run \in Local /\ run.trace \in ResearchTraces /\ run.proposal \in approved
      /\ ~run.dry /\ run.todo \subseteq cleared[run.proposal]
  <2>1. ~At(w, "off")
    BY <1>1 DEF At
  <2> QED
    BY <1>1, <2>1, Standing, TrailStanding DEF RunOK, At
<1>5. local \in Local
  BY <1>4 DEF Local, Locations
<1>6. /\ local.pc = "append" /\ local.todo = run.todo /\ local.proposal = run.proposal
      /\ local.dry = run.dry
      /\ local.written = IF writer[w].wrote THEN run.written \cup {run.trace} ELSE run.written
  BY <1>4 DEF Local
<1>7. RunOK(local, approved, cleared)
  BY <1>4, <1>6 DEF RunOK
<1>8. CallOK(local, writer'[w], Promoted)
  <2>1. CallOK(run, writer[w], Promoted)
    BY Standing
  <2>2. run.pc = "appending" /\ ~Busy(writer[w])
    BY <1>1 DEF At, Busy
  <2> HIDE DEF run, local
  <2>3. run.written \subseteq Promoted /\ (writer[w].wrote => run.trace \in Promoted)
    BY <2>1, <2>2 DEF CallOK
  <2>4. local.written \subseteq Promoted
    BY <1>6, <2>3
  <2>5. local.pc # "appending" /\ ~Busy(writer'[w])
    BY <1>3, <1>6 DEF NoCall, Busy
  <2> QED
    BY <2>4, <2>5 DEF CallOK
<1> HIDE DEF local
<1> QED
  BY <1>1, <1>2, <1>3, <1>5, <1>7, <1>8, CallStepKeepsInv

\* A run that dies takes nothing along but its local variables.
LEMMA PromoterDiesKeepsInv ==
  ASSUME Inv, NEW w \in Promoters, PromoterDies(w)
  PROVE  Inv'
<1> USE PromotionAssumption
<1>w. w \in Writers /\ writer \in [Writers -> Call]
  BY DEF Inv, IndexInv, IndexTypeOK
<1>1. /\ Die(w) /\ promoter' = [promoter EXCEPT ![w] = Off]
      /\ UNCHANGED <<loaderVars, cycleVars, planeVars, trailVars, intended>>
  BY DEF PromoterDies, Become
<1>2. IndexInv'
  BY <1>w, <1>1, DieKeepsInv DEF Inv
<1>3. /\ UNCHANGED fileVars /\ writer'[w] = NoCall
      /\ \A v \in Writers : v # w => writer'[v] = writer[v]
  BY <1>w, <1>1 DEF Die
<1>4. RunOK(Off, approved, cleared) /\ CallOK(Off, writer'[w], Promoted)
  BY <1>3 DEF RunOK, CallOK, Off, NoCall, Busy
<1> QED
  BY <1>1, <1>2, <1>3, <1>4, OffIsLocal, CallStepKeepsInv

-----------------------------------------------------------------------------
\* A step of a campaign keeps the invariant
\* when it activates no research evidence.
LEMMA BesideKeepsInv ==
  ASSUME Inv, NEW w \in Writers \ Promoters, UNCHANGED promotionVars,
         IndexInv', \A v \in Writers : v # w => writer'[v] = writer[v],
         UNCHANGED Promoted,
         Busy(writer'[w]) => writer'[w].record.trace \notin ResearchTraces
  PROVE  Inv'
<1> USE PromotionAssumption
<1>1. UNCHANGED <<research, cycle, plane, recommended, sound, eligible, latest, approved,
                  manifest, step, validation, result, cleared, promoter, intended>>
  BY DEF promotionVars, cycleVars, planeVars, trailVars
<1>2. TypeOK'
  <2>1. IndexTypeOK'
    BY DEF IndexInv
  <2> QED
    BY <1>1, <2>1 DEF Inv, TypeOK
<1>3. AcceptedInv' /\ TrailInv' /\ RunInv' /\ AuditSound' /\ PromotedInv'
  BY <1>1 DEF Inv, AcceptedInv, TrailInv, RunInv, AuditSound, PromotedInv
<1>4. CallInv'
  BY <1>1 DEF Inv, CallInv
<1>5. NeighbourInv'
  BY DEF Inv, NeighbourInv
<1> QED
  BY <1>2, <1>3, <1>4, <1>5 DEF Inv

\* That is so when it calls append(),
LEMMA NeighbourWritesKeepsInv ==
  ASSUME Inv, NEW w \in Writers, NeighbourWrites(w)
  PROVE  Inv'
<1>1. w \in Writers \ Promoters /\ UNCHANGED <<loaderVars, promotionVars>>
  BY DEF NeighbourWrites
<1>2. PICK t \in Traces \ ResearchTraces, status \in GuardrailStatuses : CallAppend(w, t, status)
  BY DEF NeighbourWrites, GuardrailStatuses
<1>3. IndexInv'
  BY <1>1, <1>2, CallKeepsInv DEF Inv
<1>4. /\ UNCHANGED fileVars /\ \A v \in Writers : v # w => writer'[v] = writer[v]
      /\ writer'[w] = IF t \in Canaries THEN NoCall
                      ELSE [pc |-> "wait", record |-> [trace |-> t, status |-> status], wrote |-> FALSE]
  BY <1>2 DEF CallAppend, Inv, IndexInv, IndexTypeOK
<1>5. UNCHANGED Promoted
  BY <1>4 DEF fileVars, Promoted, Active
<1>6. Busy(writer'[w]) => writer'[w].record.trace \notin ResearchTraces
  BY <1>4 DEF Busy, NoCall
<1> QED
  BY <1>1, <1>3, <1>4, <1>5, <1>6, BesideKeepsInv

\* and when append() runs, or dies.
LEMMA NeighbourRunsKeepsInv ==
  ASSUME Inv, NEW w \in Writers, NeighbourRuns(w)
  PROVE  Inv'
<1>1. w \in Writers \ Promoters /\ UNCHANGED <<loaderVars, promotionVars>>
  BY DEF NeighbourRuns
<1>w. writer \in [Writers -> Call]
  BY DEF Inv, IndexInv, IndexTypeOK
<1>2. CASE AppendStep(w)
  <2>1. IndexInv'
    BY <1>1, <1>2, AppendKeepsInv DEF Inv
  <2>2. Busy(writer[w]) /\ \A v \in Writers : v # w => writer'[v] = writer[v]
    BY <1>w, <1>2 DEF AppendStep, Refuse, Enter, WriteEntry, WriteRecord, Answer, Busy
  <2>3. writer[w].record.trace \notin ResearchTraces
    BY <1>1, <2>2 DEF Inv, NeighbourInv
  <2>4. UNCHANGED Promoted
    BY <1>2, <2>3, ActiveGrows DEF Inv, Promoted
  <2>5. Busy(writer'[w]) => writer'[w].record = writer[w].record
    BY <1>w, <1>2 DEF AppendStep, Refuse, Enter, WriteEntry, WriteRecord, Answer, Busy, Call, NoCall
  <2> QED
    BY <1>1, <2>1, <2>2, <2>3, <2>4, <2>5, BesideKeepsInv
<1>3. CASE Die(w)
  <2>1. IndexInv'
    BY <1>1, <1>3, DieKeepsInv DEF Inv
  <2>2. /\ UNCHANGED fileVars /\ writer'[w] = NoCall
        /\ \A v \in Writers : v # w => writer'[v] = writer[v]
    BY <1>w, <1>3 DEF Die
  <2>3. UNCHANGED Promoted
    BY <2>2 DEF fileVars, Promoted, Active
  <2>4. ~Busy(writer'[w])
    BY <2>2 DEF Busy, NoCall
  <2> QED
    BY <1>1, <2>1, <2>2, <2>3, <2>4, BesideKeepsInv
<1> QED
  BY <1>2, <1>3 DEF NeighbourRuns

-----------------------------------------------------------------------------
\* A step of the research plane keeps the invariant when it accepts only what
\* it also approves.
LEMMA PlaneKeepsInv ==
  ASSUME Inv, UNCHANGED <<indexVars, trailVars, promoter, intended>>,
         PlaneTypeOK', AcceptedInv', approved \subseteq approved'
  PROVE  Inv'
<1>1. IndexInv' /\ UNCHANGED Promoted /\ UNCHANGED writer
  BY QuietIndex DEF Inv
<1>2. UNCHANGED <<manifest, step, validation, result, cleared>>
  BY DEF trailVars
<1>3. TypeOK'
  <2>1. IndexTypeOK'
    BY <1>1 DEF IndexInv
  <2> QED
    BY <1>2, <2>1 DEF Inv, TypeOK, PlaneTypeOK
<1>4. TrailInv' /\ CallInv' /\ NeighbourInv' /\ PromotedInv' /\ AuditSound'
  BY <1>1, <1>2 DEF Inv, TrailInv, CallInv, NeighbourInv, PromotedInv, AuditSound
<1>5. RunInv'
  <2> SUFFICES ASSUME NEW v \in Promoters PROVE RunOK(promoter[v], approved', cleared)
    BY <1>2 DEF RunInv
  <2>1. approved \in SUBSET Proposals /\ approved' \in SUBSET Proposals
    BY DEF Inv, TypeOK, PlaneTypeOK
  <2> QED
    BY <2>1, Standing, RunStaysOK
<1> QED
  BY <1>1, <1>3, <1>4, <1>5 DEF Inv

\* The steps of a cycle and of the operator's review are such steps.
LEMMA PlaneStepKeepsInv ==
  ASSUME Inv,
         \/ CycleBegins \/ CycleFails \/ Accept \/ Reject
         \/ \E t \in ResearchTraces : CampaignRecords(t)
         \/ \E p \in Proposals, isRecommended, isSound \in BOOLEAN :
              EmitProposal(p, isRecommended, isSound)
  PROVE  Inv'
<1> USE PromotionAssumption
<1>t. PlaneTypeOK /\ AcceptedInv
  BY DEF Inv, TypeOK, PlaneTypeOK
<1>1. CASE CycleBegins
  <2>1. /\ UNCHANGED <<indexVars, trailVars, promoter, intended, research>> /\ UNCHANGED planeVars
        /\ cycle' = [before |-> research]
    BY <1>1 DEF CycleBegins
  <2>2. PlaneTypeOK' /\ AcceptedInv' /\ approved \subseteq approved'
    BY <1>t, <2>1 DEF PlaneTypeOK, AcceptedInv, planeVars
  <2> QED
    BY <2>1, <2>2, PlaneKeepsInv
<1>2. CASE \E t \in ResearchTraces : CampaignRecords(t)
  <2>1. /\ UNCHANGED <<indexVars, trailVars, promoter, intended, cycle>> /\ UNCHANGED planeVars
        /\ research' \subseteq ResearchTraces
    BY <1>t, <1>2 DEF CampaignRecords, PlaneTypeOK
  <2>2. PlaneTypeOK' /\ AcceptedInv' /\ approved \subseteq approved'
    BY <1>t, <2>1 DEF PlaneTypeOK, AcceptedInv, planeVars
  <2> QED
    BY <2>1, <2>2, PlaneKeepsInv
<1>3. CASE CycleFails
  <2>1. /\ UNCHANGED <<indexVars, trailVars, promoter, intended, research>> /\ UNCHANGED planeVars
        /\ cycle' = None
    BY <1>3 DEF CycleFails
  <2>2. PlaneTypeOK' /\ AcceptedInv' /\ approved \subseteq approved'
    BY <1>t, <2>1 DEF PlaneTypeOK, AcceptedInv, planeVars
  <2> QED
    BY <2>1, <2>2, PlaneKeepsInv
<1>4. CASE Accept
  <2>1. /\ latest \in recommended /\ plane' = [plane EXCEPT ![latest] = "accepted"]
        /\ approved' = approved \cup {latest}
        /\ UNCHANGED <<indexVars, trailVars, promoter, intended, research, cycle,
                       recommended, sound, eligible, latest>>
    BY <1>4 DEF Accept, cycleVars
  <2>2. PlaneTypeOK' /\ AcceptedInv' /\ approved \subseteq approved'
    BY <1>t, <2>1 DEF PlaneTypeOK, AcceptedInv, Planes
  <2> QED
    BY <2>1, <2>2, PlaneKeepsInv
<1>5. CASE Reject
  <2>1. /\ latest # None /\ plane' = [plane EXCEPT ![latest] = "rejected"]
        /\ UNCHANGED <<indexVars, trailVars, promoter, intended, research, cycle,
                       recommended, sound, eligible, latest, approved>>
    BY <1>5 DEF Reject, cycleVars
  <2>2. PlaneTypeOK' /\ AcceptedInv' /\ approved \subseteq approved'
    BY <1>t, <2>1 DEF PlaneTypeOK, AcceptedInv, Planes
  <2> QED
    BY <2>1, <2>2, PlaneKeepsInv
<1>6. ASSUME NEW p \in Proposals, NEW isRecommended \in BOOLEAN, NEW isSound \in BOOLEAN,
             EmitProposal(p, isRecommended, isSound)
      PROVE  Inv'
  <2>1. /\ cycle' = None /\ plane' = [plane EXCEPT ![p] = "pending"]
        /\ recommended' \subseteq recommended \cup {p} /\ sound' \subseteq sound \cup {p}
        /\ eligible' = [eligible EXCEPT ![p] = research \ cycle.before] /\ latest' = p
        /\ UNCHANGED <<indexVars, research, approved, trailVars, promoter, intended>>
    BY <1>6 DEF EmitProposal
  <2>2. PlaneTypeOK' /\ AcceptedInv' /\ approved \subseteq approved'
    BY <1>t, <2>1 DEF PlaneTypeOK, AcceptedInv, Planes
  <2> QED
    BY <2>1, <2>2, PlaneKeepsInv
<1> QED
  BY <1>1, <1>2, <1>3, <1>4, <1>5, <1>6

-----------------------------------------------------------------------------
\* Nothing has happened yet, and nothing is wrong.
LEMMA InitHasInv == Init => Inv
<1> SUFFICES ASSUME Init PROVE Inv
  OBVIOUS
<1> USE PromotionAssumption, IndexAssumption
<1>1. IndexTypeOK
  BY DEF Init, IndexInit, IndexTypeOK, Call, NoCall
<1>2. DOMAIN deployments = {}
  BY DEF Init, IndexInit
<1>3. Recorded = {} /\ Promoted = {}
  BY <1>2 DEF Recorded, Promoted, Active
<1>4. LockInv /\ EntryInv /\ EveryClauseIsNoted
  BY <1>3 DEF Init, IndexInit, LockInv, EntryInv, EveryClauseIsNoted, Inside, NoCall
<1>5. PlaneTypeOK
  BY DEF Init, PlaneTypeOK, Planes
<1>6. TrailTypeOK
  BY DEF Init, TrailTypeOK, Steps, NoValidation, Validation, NoResult, Result
<1>7. TypeOK
  BY <1>1, <1>5, <1>6, OffIsLocal, Types DEF Init
<1>8. AcceptedInv /\ TrailInv /\ AuditSound
  BY DEF Init, AcceptedInv, TrailInv, AuditSound, NoValidation, NoResult
<1>9. RunInv
  BY DEF Init, RunInv, RunOK, Off
<1>10. CallInv /\ NeighbourInv
  BY DEF Init, IndexInit, CallInv, CallOK, NeighbourInv, Off, NoCall, Busy
<1>11. PromotedInv
  BY <1>3 DEF PromotedInv
<1> QED
  BY <1>1, <1>4, <1>7, <1>8, <1>9, <1>10, <1>11 DEF Inv, IndexInv

\* A step of a run keeps the invariant, whatever it is.
LEMMA RunStepKeepsInv ==
  ASSUME Inv, NEW w \in Promoters, RunStep(w)
  PROVE  Inv'
BY CheckResultKeepsInv, WriteManifestKeepsInv, CheckpointsKeepInv, ValidateKeepsInv,
   SaveValidationKeepsInv, ReadRecordsKeepsInv, AppendRecordKeepsInv, RunAppendKeepsInv,
   AppendReturnsKeepsInv, AppendsDoneKeepsInv, WriteResultKeepsInv
   DEF RunStep

\* Nobody's step breaks the invariant.
LEMMA NextKeepsInv == Inv /\ [Next]_vars => Inv'
<1> SUFFICES ASSUME Inv, [Next]_vars PROVE Inv'
  OBVIOUS
<1>1. CASE UNCHANGED vars
  <2>1. UNCHANGED <<indexVars, trailVars, promoter, intended>> /\ UNCHANGED <<cycleVars, planeVars>>
    BY <1>1 DEF vars, promotionVars
  <2>2. PlaneTypeOK' /\ AcceptedInv' /\ approved \subseteq approved'
    BY <2>1 DEF Inv, TypeOK, PlaneTypeOK, AcceptedInv, cycleVars, planeVars
  <2> QED
    BY <2>1, <2>2, PlaneKeepsInv
<1>2. CASE \/ CycleBegins \/ CycleFails \/ Accept \/ Reject
           \/ \E t \in ResearchTraces : CampaignRecords(t)
           \/ \E p \in Proposals, isRecommended, isSound \in BOOLEAN :
                EmitProposal(p, isRecommended, isSound)
  BY <1>2, PlaneStepKeepsInv
<1>3. ASSUME NEW w \in Promoters, NEW dry \in BOOLEAN, OperatorPromotes(w, dry)
      PROVE  Inv'
  BY <1>3, BeginKeepsInv DEF OperatorPromotes
<1>4. ASSUME NEW w \in Promoters, DaemonResumes(w)
      PROVE  Inv'
  BY <1>4, BeginKeepsInv DEF DaemonResumes
<1>5. ASSUME NEW w \in Promoters, RunStep(w) \/ PromoterDies(w)
      PROVE  Inv'
  BY <1>5, RunStepKeepsInv, PromoterDiesKeepsInv
<1>6. ASSUME NEW w \in Writers, NeighbourWrites(w) \/ NeighbourRuns(w)
      PROVE  Inv'
  BY <1>6, NeighbourWritesKeepsInv, NeighbourRunsKeepsInv
<1> QED
  BY <1>1, <1>2, <1>3, <1>4, <1>5, <1>6 DEF Next

\* The invariant holds however promotions, cycles, reviews, campaigns and
\* crashes interleave.
THEOREM PromotionInvariant == Spec => []Inv
BY InitHasInv, NextKeepsInv, PTL DEF Spec

\* Files and runs hold what they should.
THEOREM PromotionTypeCorrect == Spec => []TypeOK
<1>1. Inv => TypeOK
  BY DEF Inv
<1> QED
  BY <1>1, PromotionInvariant, PTL

\* Research evidence that would not pass the utility gate never becomes an
\* active guardrail: no run of promote_latest(), resumed, repeated or racing
\* another one, gets it past the replay of the gates.
THEOREM OnlyStrongPromoted == Spec => []OnlyStrongActive
<1>1. Inv => OnlyStrongActive
  BY DEF Inv, PromotedInv, TrailInv, OnlyStrongActive
<1> QED
  BY <1>1, PromotionInvariant, PTL

\* What a promotion result claims to have written is active in production
\* memory for good, and a dry run claims nothing.
THEOREM AuditIsSound == Spec => []AuditSound
<1>1. Inv => AuditSound
  BY DEF Inv
<1> QED
  BY <1>1, PromotionInvariant, PTL

-----------------------------------------------------------------------------
\* Nothing that the boundary is about changes.
LEMMA BoundaryStays ==
  ASSUME UNCHANGED deployments, UNCHANGED <<approved, cleared>>
  PROVE  UNCHANGED Boundary!vars
BY DEF Boundary!vars, Promoted, Active

\* A step of append() activates what its run was cleared to write, or nothing.
LEMMA AppendActivates ==
  ASSUME Inv, NEW w \in Writers, AppendStep(w), UNCHANGED promotionVars
  PROVE  Boundary!Next \/ UNCHANGED Boundary!vars
<1>1. UNCHANGED <<approved, cleared, promoter>>
  BY DEF promotionVars, planeVars, trailVars
<1>2. CASE ~WriteRecord(w)
  <2>1. UNCHANGED Active
    BY <1>2, ActiveGrows DEF Inv
  <2> QED
    BY <1>1, <2>1 DEF Boundary!vars, Promoted
<1>3. CASE WriteRecord(w)
  <2> DEFINE t == writer[w].record.trace
  <2>1. Busy(writer[w]) /\ t \notin Recorded
    BY <1>3 DEF WriteRecord, Busy, Inv, IndexInv, LockInv, Inside
  <2>2. Active \subseteq Active' /\ Active' \subseteq Active \cup {t} /\ Active \subseteq Recorded
    BY ActiveGrows DEF Inv, Active, Recorded
  <2>3. CASE t \notin ResearchTraces
    BY <1>1, <2>2, <2>3 DEF Boundary!vars, Promoted
  <2>4. CASE t \in ResearchTraces
    <3>1. w \in Promoters
      BY <2>1, <2>4 DEF Inv, NeighbourInv
    <3>2. /\ promoter[w].pc = "appending" /\ promoter[w].proposal \in Proposals
          /\ writer[w].record = [trace |-> promoter[w].trace, status |-> "active_guardrail"]
          /\ promoter[w].trace \in cleared[promoter[w].proposal]
      BY <2>1, <3>1, Standing, TrailStanding DEF CallOK, RunOK, At
    <3>3. t \in cleared[promoter[w].proposal] /\ t \in Active'
      BY <1>3, <3>2, ActiveGrows DEF Inv
    <3>4. t \notin Promoted /\ Promoted' = Promoted \cup {t}
      BY <2>1, <2>2, <2>4, <3>3 DEF Promoted
    <3>5. Boundary!Activate(t)
      BY <1>1, <3>2, <3>3, <3>4 DEF Boundary!Activate
    <3> QED
      BY <2>4, <3>5 DEF Boundary!Next
  <2> QED
    BY <2>3, <2>4
<1> QED
  BY <1>2, <1>3

\* What a run does is a step of the boundary, or none.
LEMMA RunStepAtBoundary ==
  ASSUME Inv, NEW w \in Promoters, RunStep(w)
  PROVE  Boundary!Next \/ UNCHANGED Boundary!vars
<1> USE PromotionAssumption
<1>1. CASE AppendStep(w) /\ UNCHANGED <<loaderVars, promotionVars>>
  BY <1>1, AppendActivates
<1>2. CASE SaveValidation(w)
  <2> DEFINE p == promoter[w].proposal
             valid == promoter[w].valid
  <2>1. /\ At(w, "save") /\ UNCHANGED <<indexVars, planeVars>>
        /\ cleared' = IF valid.status = "validated" THEN [cleared EXCEPT ![p] = @ \cup valid.ids] ELSE cleared
    BY <1>2 DEF SaveValidation
  <2>2. UNCHANGED approved /\ UNCHANGED Promoted
    BY <2>1 DEF planeVars, indexVars, fileVars, Promoted, Active
  <2>3. p \in Proposals /\ p \in approved /\ valid.ids \in SUBSET ResearchTraces
    BY <2>1, Standing, TrailStanding DEF At, Local, Validation
  <2> HIDE DEF p, valid
  <2>4. CASE valid.status = "validated"
    <3>1. Boundary!Clear(p, valid.ids)
      BY <2>1, <2>2, <2>3, <2>4 DEF Boundary!Clear
    <3> QED
      BY <2>3, <3>1 DEF Boundary!Next
  <2>5. CASE valid.status # "validated"
    BY <2>1, <2>2, <2>5 DEF Boundary!vars
  <2> QED
    BY <2>4, <2>5
<1>3. CASE \/ CheckResult(w) \/ WriteManifest(w) \/ Validate(w) \/ ReadRecords(w)
           \/ AppendsDone(w) \/ WriteResult(w)
           \/ CheckpointManifest(w) \/ CheckpointReplay(w) \/ CheckpointResult(w)
  <2>1. UNCHANGED deployments /\ UNCHANGED <<approved, cleared>>
    BY <1>3 DEF CheckResult, WriteManifest, Validate, ReadRecords, AppendsDone, WriteResult,
       CheckpointManifest, CheckpointReplay, CheckpointResult, Checkpoint,
       indexVars, fileVars, planeVars, trailVars
  <2> QED
    BY <2>1, BoundaryStays
<1>4. CASE \E t \in ResearchTraces : AppendRecord(w, t)
  <2>1. UNCHANGED deployments /\ UNCHANGED <<approved, cleared>>
    BY <1>4 DEF AppendRecord, CallAppend, fileVars, planeVars, trailVars
  <2> QED
    BY <2>1, BoundaryStays
<1>5. CASE AppendReturns(w)
  <2>1. UNCHANGED deployments /\ UNCHANGED <<approved, cleared>>
    BY <1>5 DEF AppendReturns, fileVars, planeVars, trailVars
  <2> QED
    BY <2>1, BoundaryStays
<1> QED
  BY <1>1, <1>2, <1>3, <1>4, <1>5 DEF RunStep

\* So is every other step.
LEMMA NextAtBoundary == Inv /\ [Next]_vars => [Boundary!Next]_(Boundary!vars)
<1> SUFFICES ASSUME Inv, [Next]_vars PROVE Boundary!Next \/ UNCHANGED Boundary!vars
  OBVIOUS
<1>1. CASE Accept
  <2>1. latest \in Proposals
    BY <1>1 DEF Accept, Inv, TypeOK
  <2>2. UNCHANGED Promoted
    BY <1>1 DEF Accept, indexVars, fileVars, Promoted, Active
  <2>3. Boundary!Approve(latest)
    BY <1>1, <2>2 DEF Accept, trailVars, Boundary!Approve
  <2> QED
    BY <2>1, <2>3 DEF Boundary!Next
<1>2. ASSUME NEW w \in Promoters, RunStep(w)
      PROVE  Boundary!Next \/ UNCHANGED Boundary!vars
  BY <1>2, RunStepAtBoundary
<1>3. ASSUME NEW w \in Writers, NeighbourRuns(w)
      PROVE  Boundary!Next \/ UNCHANGED Boundary!vars
  <2>1. CASE AppendStep(w)
    BY <1>3, <2>1, AppendActivates DEF NeighbourRuns
  <2>2. CASE Die(w)
    <3>1. UNCHANGED deployments /\ UNCHANGED <<approved, cleared>>
      BY <1>3, <2>2 DEF NeighbourRuns, Die, fileVars, promotionVars, planeVars, trailVars
    <3> QED
      BY <3>1, BoundaryStays
  <2> QED
    BY <1>3, <2>1, <2>2 DEF NeighbourRuns
<1>4. ASSUME NEW w \in Writers, NeighbourWrites(w)
      PROVE  Boundary!Next \/ UNCHANGED Boundary!vars
  <2>1. UNCHANGED deployments /\ UNCHANGED <<approved, cleared>>
    BY <1>4 DEF NeighbourWrites, CallAppend, fileVars, promotionVars, planeVars, trailVars
  <2> QED
    BY <2>1, BoundaryStays
<1>5. ASSUME NEW w \in Promoters,
             PromoterDies(w) \/ DaemonResumes(w) \/ \E dry \in BOOLEAN : OperatorPromotes(w, dry)
      PROVE  Boundary!Next \/ UNCHANGED Boundary!vars
  <2>1. UNCHANGED deployments /\ UNCHANGED <<approved, cleared>>
    BY <1>5 DEF PromoterDies, Die, DaemonResumes, OperatorPromotes, Begin,
       indexVars, fileVars, planeVars, trailVars
  <2> QED
    BY <2>1, BoundaryStays
<1>6. CASE \/ UNCHANGED vars
           \/ CycleBegins \/ CycleFails \/ Reject
           \/ \E t \in ResearchTraces : CampaignRecords(t)
           \/ \E p \in Proposals, isRecommended, isSound \in BOOLEAN :
                EmitProposal(p, isRecommended, isSound)
  <2>1. UNCHANGED deployments /\ UNCHANGED <<approved, cleared>>
    BY <1>6 DEF CycleBegins, CycleFails, Reject, CampaignRecords, EmitProposal, vars,
       indexVars, fileVars, promotionVars, planeVars, trailVars
  <2> QED
    BY <2>1, BoundaryStays
<1> QED
  BY <1>1, <1>2, <1>3, <1>4, <1>5, <1>6 DEF Next

\* Promotion keeps the boundary between research and production: only a trace
\* cleared for an accepted proposal is activated, once, and for good.
THEOREM PromotionKeepsBoundary == Spec => BoundaryKept
<1>1. Init => Boundary!Init
  BY DEF Init, IndexInit, Boundary!Init, Promoted, Active
<1> QED
  BY <1>1, NextAtBoundary, PromotionInvariant, PTL DEF Spec, BoundaryKept, Boundary!Spec
-----------------------------------------------------------------------------
(***************************************************************************)
(* A finished promotion lost nothing.  The way of a trace that belongs to  *)
(* a proposal: the validation names it, a run owes it to production memory *)
(* until append() answers, and an answer means that it is there.           *)
(***************************************************************************)
\* What need not be written any more.
Kept == Recorded \cup Noted \cup Canaries

\* What a proposal is about is settled before anything is done with it.
SettledInv == \A p \in Proposals :
  /\ eligible[p] \subseteq research
  /\ plane[p] = "absent" => /\ p \notin approved /\ p # latest
                            /\ validation[p].status = "absent" /\ result[p].status = "absent"

FilesCover == \A p \in Proposals :
  /\ validation[p].status = "validated" => eligible[p] \subseteq validation[p].ids
  /\ result[p].status = "validated" /\ ~result[p].dry => eligible[p] \subseteq Kept

\* What a run has validated, still owes, or has delivered.
RunCovers(run, call, traces, kept) ==
  /\ run.pc \in {"save", "replayed", "write"} /\ run.valid.status = "validated"
       => traces[run.proposal] \subseteq run.valid.ids
  /\ run.pc = "append" => traces[run.proposal] \subseteq run.todo \cup kept
  /\ run.pc = "appending" => traces[run.proposal] \subseteq run.todo \cup {run.trace} \cup kept
  /\ run.pc = "appending" /\ ~Busy(call) => run.trace \in kept
  /\ run.pc = "result" /\ run.valid.status = "validated" /\ ~run.dry
       => traces[run.proposal] \subseteq kept

RunsCover == \A w \in Promoters : RunCovers(promoter[w], writer[w], eligible, Kept)

CoverInv == SettledInv /\ FilesCover /\ RunsCover

\* What is kept stays kept.
LEMMA AppendKeepsTraces ==
  ASSUME Inv, NEW w \in Writers, AppendStep(w)
  PROVE  /\ Kept \subseteq Kept'
         /\ writer'[w].pc = "idle" => writer[w].record.trace \in Kept'
         /\ Busy(writer[w])
<1>t. IndexTypeOK /\ writer \in [Writers -> Call]
  BY DEF Inv, IndexInv, IndexTypeOK
<1>r. Busy(writer[w])
  BY DEF AppendStep, Refuse, Enter, WriteEntry, WriteRecord, Busy
<1>s. writer[w].record \in Record /\ writer[w].record.trace \in Traces
  BY <1>t, <1>r DEF IndexTypeOK, Call, Record, Busy
<1>1. CASE Refuse(w)
  <2>1. UNCHANGED <<markdown, deployments>> /\ IsDuplicate(writer[w].record.trace)
    BY <1>1 DEF Refuse, fileVars
  <2>2. UNCHANGED Kept
    BY <2>1 DEF Kept, Recorded, Noted
  <2>3. writer[w].record.trace \in Kept
    BY <2>1 DEF IsDuplicate, Kept
  <2> QED
    BY <1>r, <2>2, <2>3
<1>2. CASE Enter(w)
  <2>1. UNCHANGED <<markdown, deployments>>
    BY <1>2 DEF Enter, fileVars
  <2>2. UNCHANGED Kept
    BY <2>1 DEF Kept, Recorded, Noted
  <2>3. writer'[w].pc # "idle"
    BY <1>t, <1>2 DEF Enter, Call
  <2> QED
    BY <1>r, <2>2, <2>3
<1>3. CASE WriteEntry(w)
  <2>1. Noted' = Noted \cup {writer[w].record.trace}
    BY <1>t, <1>s, <1>3, NotedGrows DEF WriteEntry
  <2>2. UNCHANGED Recorded
    BY <1>3 DEF WriteEntry, Recorded
  <2>3. writer'[w].pc # "idle"
    BY <1>t, <1>3 DEF WriteEntry, Call
  <2> QED
    BY <1>r, <2>1, <2>2, <2>3 DEF Kept
<1>4. CASE WriteRecord(w)
  <2>1. Recorded' = Recorded \cup {writer[w].record.trace}
    BY <1>t, <1>s, <1>4, RecordedGrows DEF WriteRecord
  <2>2. UNCHANGED Noted
    BY <1>4 DEF WriteRecord, Noted
  <2> QED
    BY <1>r, <2>1, <2>2 DEF Kept
<1> QED
  BY <1>1, <1>2, <1>3, <1>4 DEF AppendStep

\* With the files of the index, what is kept stays the same.
LEMMA QuietFiles ==
  ASSUME UNCHANGED fileVars
  PROVE  UNCHANGED Kept
BY DEF fileVars, Kept, Recorded, Noted

\* What a run covers it covers when more is kept.
LEMMA RunStillCovers ==
  ASSUME NEW run, NEW call, NEW traces, NEW kept1, NEW kept2, kept1 \subseteq kept2,
         RunCovers(run, call, traces, kept1)
  PROVE  RunCovers(run, call, traces, kept2)
BY DEF RunCovers

\* A step of one run, which leaves the research plane and the results alone.
LEMMA RunKeepsCover ==
  ASSUME Inv, CoverInv, NEW w \in Promoters, NEW local,
         promoter' = [promoter EXCEPT ![w] = local],
         UNCHANGED <<research, planeVars>>,
         \A v \in Promoters : v # w => writer'[v] = writer[v],
         Kept \subseteq Kept', SettledInv', FilesCover',
         RunCovers(local, writer'[w], eligible, Kept')
  PROVE  CoverInv'
<1>1. promoter \in [Promoters -> Local] /\ UNCHANGED eligible
  BY DEF Inv, TypeOK, planeVars
<1>2. ASSUME NEW v \in Promoters
      PROVE  RunCovers(promoter'[v], writer'[v], eligible, Kept')
  <2>1. CASE v = w
    BY <1>1, <2>1
  <2>2. CASE v # w
    <3>1. promoter'[v] = promoter[v] /\ writer'[v] = writer[v]
      BY <1>1, <2>2
    <3>2. RunCovers(promoter[v], writer[v], eligible, Kept)
      BY DEF CoverInv, RunsCover
    <3> QED
      BY <3>1, <3>2, RunStillCovers
  <2> QED
    BY <2>1, <2>2
<1>3. RunsCover'
  BY <1>1, <1>2 DEF RunsCover
<1> QED
  BY <1>3 DEF CoverInv

\* With the trail unchanged, the files still cover what they covered.
LEMMA FilesStillCover ==
  ASSUME CoverInv, UNCHANGED <<research, planeVars, validation, result>>, Kept \subseteq Kept'
  PROVE  SettledInv' /\ FilesCover'
<1>1. UNCHANGED <<plane, eligible, latest, approved>>
  BY DEF planeVars
<1> QED
  BY <1>1 DEF CoverInv, SettledInv, FilesCover

\* What the invariant says of a run and of the proposal it works on.
LEMMA CoverStanding ==
  ASSUME Inv, CoverInv, NEW w \in Promoters
  PROVE  /\ RunCovers(promoter[w], writer[w], eligible, Kept)
         /\ ~At(w, "off") =>
              /\ promoter[w].proposal \in Proposals
              /\ eligible[promoter[w].proposal] \subseteq research
              /\ plane[promoter[w].proposal] # "absent"
              /\ validation[promoter[w].proposal].status = "validated"
                   => eligible[promoter[w].proposal] \subseteq validation[promoter[w].proposal].ids
BY TrailStanding DEF CoverInv, RunsCover, SettledInv, FilesCover
\* A step of a run that writes neither a validation nor a result nor the index.
LEMMA LocalKeepsCover ==
  ASSUME Inv, CoverInv, NEW w \in Promoters, NEW local,
         promoter' = [promoter EXCEPT ![w] = local],
         UNCHANGED <<fileVars, research, planeVars, validation, result>>,
         \A v \in Promoters : v # w => writer'[v] = writer[v],
         RunCovers(local, writer'[w], eligible, Kept)
  PROVE  CoverInv'
<1>1. UNCHANGED Kept
  BY QuietFiles
<1>2. SettledInv' /\ FilesCover'
  BY <1>1, FilesStillCover
<1> QED
  BY <1>1, <1>2, RunKeepsCover

\* A run that is at none of these places has nothing to cover.
LEMMA NothingToCover ==
  ASSUME NEW run, NEW call, NEW traces, NEW kept,
         run.pc \notin {"save", "replayed", "write", "append", "appending", "result"}
  PROVE  RunCovers(run, call, traces, kept)
BY DEF RunCovers

\* The steps of a run that only take it to its next place.
LEMMA SmallStepsKeepCover ==
  ASSUME Inv, CoverInv, NEW w \in Promoters,
         \/ \E dry \in BOOLEAN : Begin(w, dry)
         \/ CheckResult(w) \/ WriteManifest(w)
         \/ CheckpointManifest(w) \/ CheckpointResult(w) \/ PromoterDies(w)
  PROVE  CoverInv'
<1> USE PromotionAssumption
<1>t. promoter[w] \in Local /\ w \in Writers /\ writer \in [Writers -> Call]
  BY Standing DEF Inv, IndexInv, IndexTypeOK
<1>1. PICK local : /\ promoter' = [promoter EXCEPT ![w] = local]
                   /\ local.pc \notin {"save", "replayed", "write", "append", "appending", "result"}
  <2>1. CASE \E dry \in BOOLEAN : Begin(w, dry)
    <3>1. PICK dry \in BOOLEAN : Begin(w, dry)
      BY <2>1
    <3>2. [Off EXCEPT !.pc = "check", !.proposal = latest, !.dry = dry].pc = "check"
      BY DEF Off
    <3> QED
      BY <3>1, <3>2 DEF Begin, Become
  <2>2. CASE CheckResult(w)
    <3>1. Off.pc = "off" /\ [promoter[w] EXCEPT !.pc = "manifest"].pc = "manifest"
      BY <1>t DEF Off, Local
    <3> QED
      BY <2>2, <3>1 DEF CheckResult, Become, Goto
  <2>3. CASE WriteManifest(w)
    <3>1. [promoter[w] EXCEPT !.pc = "checkpoint"].pc = "checkpoint"
      BY <1>t DEF Local
    <3> QED
      BY <2>3, <3>1 DEF WriteManifest, Become, Goto
  <2>4. CASE CheckpointManifest(w)
    <3>1. [promoter[w] EXCEPT !.pc = "validate"].pc = "validate"
      BY <1>t DEF Local
    <3> QED
      BY <2>4, <3>1 DEF CheckpointManifest, Checkpoint, Become
  <2>5. CASE CheckpointResult(w) \/ PromoterDies(w)
    <3>1. Off.pc = "off"
      BY DEF Off
    <3> QED
      BY <2>5, <3>1 DEF CheckpointResult, Checkpoint, PromoterDies, Become
  <2> QED
    BY <2>1, <2>2, <2>3, <2>4, <2>5
<1>2. UNCHANGED <<fileVars, research, planeVars, validation, result>>
  BY DEF Begin, CheckResult, WriteManifest, CheckpointManifest, CheckpointResult, Checkpoint,
     PromoterDies, Die, indexVars, cycleVars, trailVars
<1>3. \A v \in Promoters : v # w => writer'[v] = writer[v]
  <2>1. UNCHANGED writer \/ writer' = [writer EXCEPT ![w] = NoCall]
    BY DEF Begin, CheckResult, WriteManifest, CheckpointManifest, CheckpointResult, Checkpoint,
       PromoterDies, Die, indexVars
  <2> QED
    BY <1>t, <2>1
<1>4. RunCovers(local, writer'[w], eligible, Kept)
  BY <1>1, NothingToCover
<1> QED
  BY <1>1, <1>2, <1>3, <1>4, LocalKeepsCover

\* A validation that passes names every trace of its proposal.
LEMMA BuildNamesAll ==
  ASSUME Inv, NEW p \in Proposals, eligible[p] \subseteq research
  PROVE  eligible[p] \subseteq EligibleRecords(p) /\ eligible[p] \subseteq BuildValidation(p).ids
<1>1. eligible[p] \subseteq EligibleRecords(p)
  BY DEF EligibleRecords
<1> QED
  BY <1>1 DEF BuildValidation

\* The validation a run takes names them all,
LEMMA ValidateKeepsCover ==
  ASSUME Inv, CoverInv, NEW w \in Promoters, Validate(w) \/ CheckpointReplay(w)
  PROVE  CoverInv'
<1> DEFINE p == promoter[w].proposal
<1>t. promoter[w] \in Local
  BY Standing
<1>1. ~At(w, "off")
  BY DEF Validate, CheckpointReplay, Checkpoint, At
<1>2. /\ p \in Proposals /\ eligible[p] \subseteq research
      /\ validation[p].status = "validated" => eligible[p] \subseteq validation[p].ids
      /\ RunCovers(promoter[w], writer[w], eligible, Kept)
  BY <1>1, CoverStanding
<1>3. UNCHANGED <<fileVars, research, planeVars, validation, result>> /\ UNCHANGED writer
  BY DEF Validate, CheckpointReplay, Checkpoint, indexVars, cycleVars, trailVars
<1>4. CASE Validate(w) /\ validation[p].status # "absent"
  <2> DEFINE local == [promoter[w] EXCEPT !.pc = "write", !.valid = validation[p]]
  <2>1. promoter' = [promoter EXCEPT ![w] = local]
    BY <1>4 DEF Validate, Become
  <2>2. local.pc = "write" /\ local.valid = validation[p] /\ local.proposal = p
    BY <1>t DEF Local
  <2> HIDE DEF local
  <2>3. RunCovers(local, writer'[w], eligible, Kept)
    BY <1>2, <2>2 DEF RunCovers
  <2> QED
    BY <1>3, <2>1, <2>3, LocalKeepsCover
<1>5. CASE Validate(w) /\ validation[p].status = "absent"
  <2> DEFINE local == [promoter[w] EXCEPT !.pc = "save", !.valid = BuildValidation(p)]
  <2>1. promoter' = [promoter EXCEPT ![w] = local]
    BY <1>5 DEF Validate, Become
  <2>2. local.pc = "save" /\ local.valid = BuildValidation(p) /\ local.proposal = p
    BY <1>t DEF Local
  <2>3. eligible[p] \subseteq BuildValidation(p).ids
    BY <1>2, BuildNamesAll
  <2> HIDE DEF local, p
  <2>4. RunCovers(local, writer'[w], eligible, Kept)
    BY <2>2, <2>3 DEF RunCovers
  <2> QED
    BY <1>3, <2>1, <2>4, LocalKeepsCover
<1>6. CASE CheckpointReplay(w)
  <2> DEFINE local == [promoter[w] EXCEPT !.pc = "write"]
  <2>1. promoter' = [promoter EXCEPT ![w] = local] /\ promoter[w].pc = "replayed"
    BY <1>6 DEF CheckpointReplay, Checkpoint, Become, At
  <2>2. local.pc = "write" /\ local.valid = promoter[w].valid /\ local.proposal = p
    BY <1>t DEF Local
  <2> HIDE DEF local
  <2>3. RunCovers(local, writer'[w], eligible, Kept)
    BY <1>2, <2>1, <2>2 DEF RunCovers
  <2> QED
    BY <1>3, <2>1, <2>3, LocalKeepsCover
<1> QED
  BY <1>4, <1>5, <1>6
\* and so does the one it saves.
LEMMA SaveKeepsCover ==
  ASSUME Inv, CoverInv, NEW w \in Promoters, SaveValidation(w)
  PROVE  CoverInv'
<1> DEFINE p == promoter[w].proposal
           local == [promoter[w] EXCEPT !.pc = "replayed"]
<1>1. /\ promoter[w].pc = "save" /\ promoter' = [promoter EXCEPT ![w] = local]
      /\ validation' = [validation EXCEPT ![p] = promoter[w].valid]
      /\ UNCHANGED <<fileVars, research, planeVars, result>> /\ UNCHANGED writer
  BY DEF SaveValidation, Become, Goto, At, indexVars, cycleVars
<1>2. ~At(w, "off")
  BY <1>1 DEF At
<1>3. /\ p \in Proposals /\ plane[p] # "absent"
      /\ RunCovers(promoter[w], writer[w], eligible, Kept)
      /\ validation \in [Proposals -> Validation]
  BY <1>2, CoverStanding, TrailStanding
<1>4. UNCHANGED Kept /\ UNCHANGED <<plane, eligible, latest, approved>>
  BY <1>1, QuietFiles DEF planeVars
<1>5. promoter[w].valid.status = "validated" => eligible[p] \subseteq promoter[w].valid.ids
  BY <1>1, <1>3 DEF RunCovers
<1>6. \A q \in Proposals : validation'[q] = IF q = p THEN promoter[w].valid ELSE validation[q]
  BY <1>1, <1>3
<1>7. SettledInv'
  BY <1>1, <1>3, <1>4, <1>6 DEF CoverInv, SettledInv
<1>8. FilesCover'
  BY <1>1, <1>4, <1>5, <1>6 DEF CoverInv, FilesCover
<1>9. local.pc = "replayed" /\ local.valid = promoter[w].valid /\ local.proposal = p
  BY Standing DEF Local
<1> HIDE DEF local, p
<1>10. RunCovers(local, writer'[w], eligible, Kept')
  BY <1>5, <1>9 DEF RunCovers
<1> QED
  BY <1>1, <1>4, <1>7, <1>8, <1>10, RunKeepsCover

\* A run owes all of them to the index; without writes it claims nothing.
LEMMA ReadRecordsKeepsCover ==
  ASSUME Inv, CoverInv, NEW w \in Promoters, ReadRecords(w)
  PROVE  CoverInv'
<1> DEFINE p == promoter[w].proposal
           valid == promoter[w].valid
<1>t. promoter[w] \in Local
  BY Standing
<1>1. /\ promoter[w].pc = "write" /\ UNCHANGED writer
      /\ UNCHANGED <<fileVars, research, planeVars, validation, result>>
  BY DEF ReadRecords, At, indexVars, cycleVars, trailVars
<1>2. ~At(w, "off")
  BY <1>1 DEF At
<1>3. /\ p \in Proposals /\ eligible[p] \subseteq research
      /\ RunCovers(promoter[w], writer[w], eligible, Kept)
  BY <1>2, CoverStanding
<1>4. CASE valid.status # "validated" \/ promoter[w].dry
  <2> DEFINE local == [promoter[w] EXCEPT !.pc = "result"]
  <2>1. promoter' = [promoter EXCEPT ![w] = local]
    BY <1>4 DEF ReadRecords, Become
  <2>2. local.pc = "result" /\ local.valid = valid /\ local.dry = promoter[w].dry
    BY <1>t DEF Local
  <2> HIDE DEF local, valid
  <2>3. RunCovers(local, writer'[w], eligible, Kept)
    BY <1>4, <2>2 DEF RunCovers
  <2> QED
    BY <1>1, <2>1, <2>3, LocalKeepsCover
<1>5. CASE ~(valid.status # "validated" \/ promoter[w].dry)
  <2> DEFINE ids == valid.ids \cap EligibleRecords(p)
             local == [promoter[w] EXCEPT !.pc = "append", !.todo = ids]
  <2>1. promoter' = [promoter EXCEPT ![w] = local]
    BY <1>5 DEF ReadRecords, Become
  <2>2. local.pc = "append" /\ local.todo = ids /\ local.proposal = p
    BY <1>t DEF Local
  <2>3. eligible[p] \subseteq valid.ids
    BY <1>1, <1>3, <1>5 DEF RunCovers
  <2>4. eligible[p] \subseteq ids
    BY <1>3, <2>3, BuildNamesAll
  <2> HIDE DEF local, ids, p
  <2>5. RunCovers(local, writer'[w], eligible, Kept)
    BY <2>2, <2>4 DEF RunCovers
  <2> QED
    BY <1>1, <2>1, <2>5, LocalKeepsCover
<1> QED
  BY <1>4, <1>5

\* A call that is made for a trace, and a run that has no more calls to make.
LEMMA CallsKeepCover ==
  ASSUME Inv, CoverInv, NEW w \in Promoters,
         AppendsDone(w) \/ \E t \in ResearchTraces : AppendRecord(w, t)
  PROVE  CoverInv'
<1> DEFINE p == promoter[w].proposal
<1> USE PromotionAssumption
<1>t. promoter[w] \in Local /\ w \in Writers /\ writer \in [Writers -> Call]
  BY Standing DEF Inv, IndexInv, IndexTypeOK
<1>1. promoter[w].pc = "append"
  BY DEF AppendsDone, AppendRecord, At
<1>2. eligible[p] \subseteq promoter[w].todo \cup Kept
  BY <1>1, CoverStanding DEF RunCovers
<1>3. UNCHANGED <<fileVars, research, planeVars, validation, result>>
  BY DEF AppendsDone, AppendRecord, CallAppend, indexVars, cycleVars, trailVars
<1>4. CASE AppendsDone(w)
  <2> DEFINE local == [promoter[w] EXCEPT !.pc = "result"]
  <2>1. promoter' = [promoter EXCEPT ![w] = local] /\ promoter[w].todo = {} /\ UNCHANGED writer
    BY <1>4 DEF AppendsDone, Goto, Become, indexVars
  <2>2. local.pc = "result" /\ local.proposal = p
    BY <1>t DEF Local
  <2> HIDE DEF local, p
  <2>3. RunCovers(local, writer'[w], eligible, Kept)
    BY <1>2, <2>1, <2>2 DEF RunCovers
  <2> QED
    BY <1>3, <2>1, <2>3, LocalKeepsCover
<1>5. ASSUME NEW t \in ResearchTraces, AppendRecord(w, t)
      PROVE  CoverInv'
  <2> DEFINE local == [promoter[w] EXCEPT !.pc = "appending", !.trace = t, !.todo = @ \ {t}]
  <2>1. promoter' = [promoter EXCEPT ![w] = local]
    BY <1>5 DEF AppendRecord, Become
  <2>2. /\ \A v \in Promoters : v # w => writer'[v] = writer[v]
        /\ writer'[w].pc = "idle" => t \in Canaries
    BY <1>t, <1>5 DEF AppendRecord, CallAppend
  <2>3. /\ local.pc = "appending" /\ local.proposal = p /\ local.trace = t
        /\ local.todo = promoter[w].todo \ {t}
    BY <1>t DEF Local
  <2> HIDE DEF local, p
  <2>4. RunCovers(local, writer'[w], eligible, Kept)
    BY <1>2, <2>2, <2>3 DEF RunCovers, Busy, Kept
  <2> QED
    BY <1>3, <2>1, <2>2, <2>4, LocalKeepsCover
<1> QED
  BY <1>4, <1>5

\* An answer of append() means that the trace is kept,
LEMMA RunAppendKeepsCover ==
  ASSUME Inv, CoverInv, NEW w \in Promoters, AppendStep(w), UNCHANGED <<loaderVars, promotionVars>>
  PROVE  CoverInv'
<1> USE PromotionAssumption
<1> DEFINE run == promoter[w]
<1>w. w \in Writers /\ writer \in [Writers -> Call] /\ promoter \in [Promoters -> Local]
  BY DEF Inv, TypeOK, IndexInv, IndexTypeOK
<1>1. UNCHANGED <<research, planeVars, validation, result>> /\ UNCHANGED promoter
  BY DEF promotionVars, cycleVars, trailVars
<1>2. promoter' = [promoter EXCEPT ![w] = run]
  BY <1>w, <1>1
<1>3. /\ Kept \subseteq Kept'
      /\ writer'[w].pc = "idle" => writer[w].record.trace \in Kept'
      /\ Busy(writer[w])
  BY <1>w, AppendKeepsTraces
<1>4. \A v \in Promoters : v # w => writer'[v] = writer[v]
  BY <1>w DEF AppendStep, Refuse, Enter, WriteEntry, WriteRecord, Answer
<1>5. run.pc = "appending" /\ writer[w].record.trace = run.trace
  <2>1. CallOK(run, writer[w], Promoted)
    BY Standing
  <2>2. /\ run.pc = "appending"
        /\ writer[w].record = [trace |-> run.trace, status |-> "active_guardrail"]
    BY <1>3, <2>1 DEF CallOK
  <2> HIDE DEF run
  <2> QED
    BY <2>2
<1>6. RunCovers(run, writer[w], eligible, Kept)
  BY CoverStanding
<1> HIDE DEF run
<1>7. RunCovers(run, writer'[w], eligible, Kept')
  BY <1>3, <1>5, <1>6 DEF RunCovers, Busy
<1>8. SettledInv' /\ FilesCover'
  BY <1>1, <1>3, FilesStillCover
<1> QED
  BY <1>1, <1>2, <1>3, <1>4, <1>7, <1>8, RunKeepsCover

\* and the run that gets it owes the trace no more.
LEMMA AppendReturnsKeepsCover ==
  ASSUME Inv, CoverInv, NEW w \in Promoters, AppendReturns(w)
  PROVE  CoverInv'
<1> USE PromotionAssumption
<1> DEFINE run == promoter[w]
           local == [run EXCEPT !.pc = "append", !.trace = None,
                       !.written = IF writer[w].wrote THEN @ \cup {run.trace} ELSE @]
<1>w. w \in Writers /\ writer \in [Writers -> Call] /\ run \in Local
  BY Standing DEF Inv, IndexInv, IndexTypeOK
<1>1. /\ run.pc = "appending" /\ ~Busy(writer[w])
      /\ promoter' = [promoter EXCEPT ![w] = local]
      /\ writer' = [writer EXCEPT ![w] = NoCall]
      /\ UNCHANGED <<fileVars, research, planeVars, validation, result>>
  BY DEF AppendReturns, Become, At, Busy, cycleVars, trailVars
<1>2. local.pc = "append" /\ local.todo = run.todo /\ local.proposal = run.proposal
  BY <1>w DEF Local
<1>3. \A v \in Promoters : v # w => writer'[v] = writer[v]
  BY <1>w, <1>1
<1>4. RunCovers(run, writer[w], eligible, Kept)
  BY CoverStanding
<1> HIDE DEF local, run
<1>5. RunCovers(local, writer'[w], eligible, Kept)
  BY <1>1, <1>2, <1>4 DEF RunCovers
<1> QED
  BY <1>1, <1>3, <1>5, LocalKeepsCover

\* So a result that says validated is written when all is kept.
LEMMA WriteResultKeepsCover ==
  ASSUME Inv, CoverInv, NEW w \in Promoters, WriteResult(w)
  PROVE  CoverInv'
<1> DEFINE p == promoter[w].proposal
           new == [status |-> promoter[w].valid.status, ids |-> promoter[w].written, dry |-> promoter[w].dry]
           local == [promoter[w] EXCEPT !.pc = "final"]
<1>1. /\ promoter[w].pc = "result" /\ promoter' = [promoter EXCEPT ![w] = local]
      /\ result' = [result EXCEPT ![p] = new]
      /\ UNCHANGED <<fileVars, research, planeVars, validation>> /\ UNCHANGED writer
  BY DEF WriteResult, Become, Goto, At, indexVars, cycleVars
<1>2. ~At(w, "off")
  BY <1>1 DEF At
<1>3. /\ p \in Proposals /\ plane[p] # "absent"
      /\ RunCovers(promoter[w], writer[w], eligible, Kept)
      /\ result \in [Proposals -> Result]
  BY <1>2, CoverStanding, TrailStanding
<1>4. UNCHANGED Kept /\ UNCHANGED <<plane, eligible, latest, approved>>
  BY <1>1, QuietFiles DEF planeVars
<1>5. new.status = "validated" /\ ~new.dry => eligible[p] \subseteq Kept
  BY <1>1, <1>3 DEF RunCovers
<1> HIDE DEF new
<1>6. \A q \in Proposals : result'[q] = IF q = p THEN new ELSE result[q]
  BY <1>1, <1>3
<1>7. SettledInv'
  BY <1>1, <1>3, <1>4, <1>6 DEF CoverInv, SettledInv
<1>8. FilesCover'
  BY <1>1, <1>4, <1>5, <1>6 DEF CoverInv, FilesCover
<1>9. local.pc = "final"
  BY Standing DEF Local
<1> HIDE DEF local, p
<1>10. RunCovers(local, writer'[w], eligible, Kept')
  BY <1>9, NothingToCover
<1> QED
  BY <1>1, <1>4, <1>7, <1>8, <1>10, RunKeepsCover
\* What the other writers of the index do.
LEMMA BesideKeepsCover ==
  ASSUME Inv, CoverInv, NEW w \in Writers, NeighbourWrites(w) \/ NeighbourRuns(w)
  PROVE  CoverInv'
<1> USE PromotionAssumption
<1>w. w \notin Promoters /\ writer \in [Writers -> Call]
  BY DEF NeighbourWrites, NeighbourRuns, Inv, IndexInv, IndexTypeOK
<1>1. UNCHANGED <<research, planeVars, validation, result>> /\ UNCHANGED promoter /\ UNCHANGED eligible
  BY DEF NeighbourWrites, NeighbourRuns, promotionVars, cycleVars, planeVars, trailVars
<1>2. Kept \subseteq Kept'
  <2>1. CASE NeighbourRuns(w) /\ AppendStep(w)
    BY <2>1, AppendKeepsTraces
  <2>2. CASE NeighbourWrites(w) \/ Die(w)
    BY <2>2, QuietFiles DEF NeighbourWrites, CallAppend, Die
  <2> QED
    BY <2>1, <2>2 DEF NeighbourRuns
<1>3. \A v \in Promoters : writer'[v] = writer[v]
  BY <1>w DEF NeighbourWrites, NeighbourRuns, CallAppend, AppendStep, Refuse, Enter, WriteEntry,
     WriteRecord, Answer, Die
<1>4. RunsCover'
  BY <1>1, <1>2, <1>3, RunStillCovers DEF CoverInv, RunsCover
<1>5. SettledInv' /\ FilesCover'
  BY <1>1, <1>2, FilesStillCover
<1> QED
  BY <1>4, <1>5 DEF CoverInv

\* A step of the research plane that adds no proposal.
LEMMA ReviewKeepsCover ==
  ASSUME Inv, CoverInv, UNCHANGED <<indexVars, trailVars, promoter, eligible, latest>>,
         research \subseteq research',
         \A p \in Proposals : plane'[p] = "absent" => plane[p] = "absent" /\ p \notin approved' \ approved
  PROVE  CoverInv'
<1>1. UNCHANGED <<validation, result, writer>> /\ UNCHANGED Kept
  BY QuietFiles DEF indexVars, trailVars
<1>2. SettledInv'
  BY <1>1 DEF CoverInv, SettledInv
<1>3. FilesCover' /\ RunsCover'
  BY <1>1 DEF CoverInv, FilesCover, RunsCover
<1> QED
  BY <1>2, <1>3 DEF CoverInv

\* A new proposal has no file and no run yet, and nobody else is touched.
LEMMA EmitKeepsCover ==
  ASSUME Inv, CoverInv, NEW p \in Proposals, NEW isRecommended, NEW isSound,
         EmitProposal(p, isRecommended, isSound)
  PROVE  CoverInv'
<1>t. plane \in [Proposals -> Planes] /\ eligible \in [Proposals -> SUBSET ResearchTraces]
  BY DEF Inv, TypeOK
<1>1. /\ plane[p] = "absent" /\ plane' = [plane EXCEPT ![p] = "pending"] /\ latest' = p
      /\ eligible' = [eligible EXCEPT ![p] = research \ cycle.before]
      /\ UNCHANGED <<indexVars, research, approved, trailVars, promoter>>
  BY DEF EmitProposal
<1>2. UNCHANGED <<validation, result, writer>> /\ UNCHANGED Kept
  BY <1>1, QuietFiles DEF indexVars, trailVars
<1>3. \A q \in Proposals : q # p => plane'[q] = plane[q] /\ eligible'[q] = eligible[q]
  BY <1>t, <1>1
<1>4. plane'[p] = "pending" /\ eligible'[p] \subseteq research
  BY <1>t, <1>1
<1>5. SettledInv'
  BY <1>1, <1>2, <1>3, <1>4 DEF CoverInv, SettledInv
<1>6. validation[p].status = "absent" /\ result[p].status = "absent" /\ p \notin approved
  BY <1>1 DEF CoverInv, SettledInv
<1>7. FilesCover'
  BY <1>2, <1>3, <1>6 DEF CoverInv, FilesCover
<1>8. RunsCover'
  <2> SUFFICES ASSUME NEW w \in Promoters
               PROVE  RunCovers(promoter[w], writer[w], eligible', Kept)
    BY <1>1, <1>2 DEF RunsCover
  <2>1. RunCovers(promoter[w], writer[w], eligible, Kept)
    BY CoverStanding
  <2>2. CASE At(w, "off")
    BY <2>2, NothingToCover DEF At
  <2>3. CASE ~At(w, "off")
    <3>1. promoter[w].proposal \in Proposals /\ promoter[w].proposal # p
      BY <1>6, <2>3, TrailStanding
    <3>2. eligible'[promoter[w].proposal] = eligible[promoter[w].proposal]
      BY <1>3, <3>1
    <3> QED
      BY <2>1, <3>2 DEF RunCovers
  <2> QED
    BY <2>2, <2>3
<1> QED
  BY <1>5, <1>7, <1>8 DEF CoverInv

\* Nobody's step uncovers a trace.
LEMMA NextKeepsCover == Inv /\ CoverInv /\ [Next]_vars => CoverInv'
<1> SUFFICES ASSUME Inv, CoverInv, [Next]_vars PROVE CoverInv'
  OBVIOUS
<1> USE PromotionAssumption
<1>t. plane \in [Proposals -> Planes] /\ recommended \subseteq Proposals
  BY DEF Inv, TypeOK
<1>1. CASE \/ UNCHANGED vars \/ CycleBegins \/ CycleFails
           \/ \E t \in ResearchTraces : CampaignRecords(t)
  <2>1. UNCHANGED <<indexVars, trailVars, promoter, eligible, latest>> /\ UNCHANGED <<plane, approved>>
        /\ research \subseteq research'
    BY <1>1 DEF vars, promotionVars, cycleVars, planeVars, CycleBegins, CycleFails, CampaignRecords
  <2> QED
    BY <2>1, ReviewKeepsCover
<1>2. CASE Accept
  <2>1. /\ latest \in Proposals /\ plane' = [plane EXCEPT ![latest] = "accepted"]
        /\ approved' = approved \cup {latest}
        /\ UNCHANGED <<indexVars, trailVars, promoter, eligible, latest, research>>
    BY <1>t, <1>2 DEF Accept, cycleVars
  <2>2. \A p \in Proposals : plane'[p] = "absent" => plane[p] = "absent" /\ p \notin approved' \ approved
    BY <1>t, <2>1
  <2> QED
    BY <2>1, <2>2, ReviewKeepsCover
<1>3. CASE Reject
  <2>1. /\ plane' = [plane EXCEPT ![latest] = "rejected"]
        /\ UNCHANGED <<indexVars, trailVars, promoter, eligible, latest, research, approved>>
    BY <1>3 DEF Reject, cycleVars
  <2>2. \A p \in Proposals : plane'[p] = "absent" => plane[p] = "absent" /\ p \notin approved' \ approved
    BY <1>t, <2>1
  <2> QED
    BY <2>1, <2>2, ReviewKeepsCover
<1>4. ASSUME NEW p \in Proposals, NEW isRecommended \in BOOLEAN, NEW isSound \in BOOLEAN,
             EmitProposal(p, isRecommended, isSound)
      PROVE  CoverInv'
  BY <1>4, EmitKeepsCover
<1>5. ASSUME NEW w \in Promoters,
             DaemonResumes(w) \/ PromoterDies(w) \/ \E dry \in BOOLEAN : OperatorPromotes(w, dry)
      PROVE  CoverInv'
  BY <1>5, SmallStepsKeepCover DEF DaemonResumes, OperatorPromotes
<1>6. ASSUME NEW w \in Promoters, RunStep(w)
      PROVE  CoverInv'
  BY <1>6, SmallStepsKeepCover, ValidateKeepsCover, SaveKeepsCover, ReadRecordsKeepsCover,
     CallsKeepCover, RunAppendKeepsCover, AppendReturnsKeepsCover, WriteResultKeepsCover
     DEF RunStep
<1>7. ASSUME NEW w \in Writers, NeighbourWrites(w) \/ NeighbourRuns(w)
      PROVE  CoverInv'
  BY <1>7, BesideKeepsCover
<1> QED
  BY <1>1, <1>2, <1>3, <1>4, <1>5, <1>6, <1>7 DEF Next

\* Where a promotion has its validated result, each trace of its proposal is in
\* production memory, or the canary policy keeps it out: no crash between the
\* files of the trail, no resumed, repeated or racing run loses one.
THEOREM FinishedLostNothing == Spec => []FinishedMeansWritten
<1>1. Init => CoverInv
  <2> SUFFICES ASSUME Init PROVE CoverInv
    OBVIOUS
  <2>1. SettledInv
    BY PromotionAssumption DEF Init, SettledInv, NoValidation, NoResult
  <2>2. FilesCover
    BY DEF Init, FilesCover, NoValidation, NoResult
  <2>3. RunsCover
    BY NothingToCover DEF Init, RunsCover, Off
  <2> QED
    BY <2>1, <2>2, <2>3 DEF CoverInv
<1>2. CoverInv => FinishedMeansWritten
  BY DEF CoverInv, FilesCover, FinishedMeansWritten, Kept
<1> QED
  BY <1>1, <1>2, NextKeepsCover, PromotionInvariant, PTL DEF Spec
=============================================================================

---------------------------- MODULE MemoryIndex ----------------------------
(***************************************************************************)
(* The memory index (memory/index.py, file_locks.py): two append-only      *)
(* files, MEMORY.md and deployments.jsonl, written by any number of        *)
(* processes.  append() holds the sidecar lock of deployments.jsonl from   *)
(* the duplicate check to the write; MEMORY.md is on disk before the       *)
(* record is, so a crash may separate them.  The kernel drops the flock of *)
(* a process that dies.                                                    *)
(*                                                                         *)
(* All records have one target and passed their validation: those are the  *)
(* only records that append() is called with, and the scope filter treats  *)
(* the targets independently.  The lock of MEMORY.md is taken only for the *)
(* length of one read or write, inside the other one, and is not modelled. *)
(*                                                                         *)
(* One campaign at a time loads its guardrails (core/guardrail_loader.py): *)
(* three reads, each under the lock, with the writers at work in between.  *)
(***************************************************************************)
EXTENDS Naturals, Sequences

CONSTANTS
  Writers,      \* processes that call append()
  Traces,       \* trace ids
  Clauses,      \* guardrail clauses, up to case and white space
  ClauseOf,     \* the clause synthesized for each trace
  Canaries,     \* the traces whose text carries a canary the policy blocks
  None,         \* nobody holds the lock
  MaxCrashes    \* bound on the crashes explored

GuardrailStatuses == {"validated_candidate", "active_guardrail"}

Record == [trace : Traces, status : GuardrailStatuses]

ASSUME IndexAssumption ==
  /\ None \notin Writers
  /\ None \notin Record
  /\ ClauseOf \in [Traces -> Clauses]
  /\ Canaries \subseteq Traces
  /\ MaxCrashes \in Nat

VARIABLES
  markdown,     \* the entries of MEMORY.md: their trace ids
  deployments,  \* the records of deployments.jsonl
  lock,         \* the process inside locked_append(deployments)
  writer,       \* the append() call each process is in
  crashes,      \* crashes so far
  loader,       \* where the campaign is in inject_guardrails
  injected      \* the clauses the last campaign injected

fileVars == <<markdown, deployments>>
loaderVars == <<loader, injected>>
indexVars == <<fileVars, lock, writer, crashes, loaderVars>>

\* wrote is the value the last call returned.
Call == [pc : {"idle", "wait", "entry", "record"}, record : Record \cup {None},
         wrote : BOOLEAN]

NoCall == [pc |-> "idle", record |-> None, wrote |-> FALSE]

Answer(w, wrote) == writer' = [writer EXCEPT ![w] = [NoCall EXCEPT !.wrote = wrote]]

-----------------------------------------------------------------------------
IndexInit ==
  /\ markdown = <<>>
  /\ deployments = <<>>
  /\ lock = None
  /\ writer = [w \in Writers |-> NoCall]
  /\ crashes = 0
  /\ loader = "idle"
  /\ injected = {}

Recorded == {deployments[i].trace : i \in DOMAIN deployments}
Noted == {markdown[i] : i \in DOMAIN markdown}

\* _is_duplicate: MEMORY.md is asked only while there is no record at all.
IsDuplicate(t) == IF deployments # <<>> THEN t \in Recorded ELSE t \in Noted

\* The records load_scoped_guardrail_records returns.
Active == {deployments[i].trace :
             i \in {j \in DOMAIN deployments : deployments[j].status = "active_guardrail"}}

\* load_scoped_guardrails: the active records, or every validated entry of
\* MEMORY.md while there is no record at all.
Loaded == {ClauseOf[t] : t \in IF deployments # <<>> THEN Active ELSE Noted}

IsDuplicateClause(t) == ClauseOf[t] \in Loaded

-----------------------------------------------------------------------------
(***************************************************************************)
(* append()                                                                *)
(***************************************************************************)

\* The canary check comes first and needs no lock.
CallAppend(w, t, status) ==
  /\ writer[w].pc = "idle"
  /\ writer' = [writer EXCEPT ![w] =
       IF t \in Canaries THEN NoCall
       ELSE [pc |-> "wait", record |-> [trace |-> t, status |-> status], wrote |-> FALSE]]
  /\ UNCHANGED <<fileVars, lock, crashes>>

\* Mutant of Enter: the duplicate check is made before the lock is taken, so a
\* call may go on although the trace is there by now.
EnterUnchecked(w) ==
  /\ writer[w].pc = "wait"
  /\ lock = None
  /\ lock' = w
  /\ writer' = [writer EXCEPT ![w].pc = "entry"]
  /\ UNCHANGED <<fileVars, crashes>>

\* The lock is taken, the trace is there already, the lock is given back.
Refuse(w) ==
  /\ writer[w].pc = "wait"
  /\ lock = None
  /\ IsDuplicate(writer[w].record.trace)
  /\ Answer(w, FALSE)
  /\ UNCHANGED <<fileVars, lock, crashes>>

\* Mutant of Enter: only an active guardrail gets its entry.
EnterActiveOnly(w) ==
  /\ writer[w].pc = "wait"
  /\ lock = None
  /\ ~IsDuplicate(writer[w].record.trace)
  /\ lock' = w
  /\ writer' = [writer EXCEPT ![w].pc =
                  IF \/ IsDuplicateClause(writer[w].record.trace)
                     \/ writer[w].record.status = "validated_candidate"
                  THEN "record" ELSE "entry"]
  /\ UNCHANGED <<fileVars, crashes>>

Enter(w) ==
  /\ writer[w].pc = "wait"
  /\ lock = None
  /\ ~IsDuplicate(writer[w].record.trace)
  /\ lock' = w
  /\ writer' = [writer EXCEPT ![w].pc =
                  IF IsDuplicateClause(writer[w].record.trace) THEN "record" ELSE "entry"]
  /\ UNCHANGED <<fileVars, crashes>>

WriteEntry(w) ==
  /\ writer[w].pc = "entry"
  /\ markdown' = Append(markdown, writer[w].record.trace)
  /\ writer' = [writer EXCEPT ![w].pc = "record"]
  /\ UNCHANGED <<deployments, lock, crashes>>

\* Mutant of WriteRecord: the lock is not given back.
WriteRecordKeepsLock(w) ==
  /\ writer[w].pc = "record"
  /\ deployments' = Append(deployments, writer[w].record)
  /\ Answer(w, TRUE)
  /\ UNCHANGED <<markdown, lock, crashes>>

\* Mutant of WriteRecord: the file is opened to be written, not appended to.
WriteRecordOver(w) ==
  /\ writer[w].pc = "record"
  /\ deployments' = <<writer[w].record>>
  /\ lock' = None
  /\ Answer(w, TRUE)
  /\ UNCHANGED <<markdown, crashes>>

\* The record is flushed and synced when the with block ends.
WriteRecord(w) ==
  /\ writer[w].pc = "record"
  /\ deployments' = Append(deployments, writer[w].record)
  /\ lock' = None
  /\ Answer(w, TRUE)
  /\ UNCHANGED <<markdown, crashes>>

\* The process dies and its lock with it.
Die(w) ==
  /\ crashes < MaxCrashes
  /\ crashes' = crashes + 1
  /\ writer' = [writer EXCEPT ![w] = NoCall]
  /\ lock' = IF lock = w THEN None ELSE lock
  /\ UNCHANGED fileVars

AppendStep(w) == Refuse(w) \/ Enter(w) \/ WriteEntry(w) \/ WriteRecord(w)

-----------------------------------------------------------------------------
(***************************************************************************)
(* inject_guardrails()                                                     *)
(***************************************************************************)
LoadRecords ==
  /\ loader = "idle"
  /\ lock = None
  /\ IF Active = {} THEN loader' = "none" /\ UNCHANGED injected
                    ELSE injected' = {ClauseOf[t] : t \in Active} /\ UNCHANGED loader

\* No active record: MEMORY.md is a fallback for an index without any record.
LookForRecords ==
  /\ loader = "none"
  /\ lock = None
  /\ IF deployments = <<>> THEN loader' = "fallback" /\ UNCHANGED injected
                           ELSE loader' = "idle" /\ injected' = {}

LoadFallback ==
  /\ loader = "fallback"
  /\ lock = None
  /\ injected' = Loaded
  /\ loader' = "idle"

Inject == (LoadRecords \/ LookForRecords \/ LoadFallback) /\ UNCHANGED <<fileVars, lock, writer, crashes>>

-----------------------------------------------------------------------------
IndexNext ==
  \/ \E w \in Writers :
       /\ \/ \E t \in Traces, status \in GuardrailStatuses : CallAppend(w, t, status)
          \/ AppendStep(w)
          \/ writer[w].pc # "idle" /\ Die(w)
       /\ UNCHANGED loaderVars
  \/ Inject

IndexSpec == IndexInit /\ [][IndexNext]_indexVars

\* A process in append() keeps running.
FairIndexSpec ==
  IndexSpec /\ \A w \in Writers : WF_indexVars(AppendStep(w) /\ UNCHANGED loaderVars)

-----------------------------------------------------------------------------
IndexTypeOK ==
  /\ markdown \in Seq(Traces)
  /\ deployments \in Seq(Record)
  /\ lock \in Writers \cup {None}
  /\ writer \in [Writers -> Call]
  /\ \A w \in Writers : writer[w].pc # "idle" => writer[w].record # None
  /\ crashes \in 0..MaxCrashes
  /\ loader \in {"idle", "none", "fallback"}
  /\ injected \subseteq Clauses

\* The two files agree: a clause that a record carries can be read in
\* MEMORY.md, although append() leaves the entry out for a clause it takes to
\* be there, judging by the records when there are some and by MEMORY.md else.
EveryClauseIsNoted == {ClauseOf[t] : t \in Recorded} \subseteq {ClauseOf[t] : t \in Noted}

\* The index keeps its promise to its writers: records are only added, and
\* never twice for a trace, however the calls and the crashes interleave.
Log == INSTANCE GuardrailLog WITH Statuses <- GuardrailStatuses, log <- deployments
AppendsOnce == Log!Spec

\* No call of append() waits for ever, whatever becomes of the other callers.
EveryCallReturns == \A w \in Writers : writer[w].pc = "wait" ~> writer[w].pc = "idle"

\* As long as no process has died: what a campaign injected, every later campaign
\* injects as well: no guardrail is lost on the way from MEMORY.md to the records,
\* or to a campaign that reads while a writer writes.
InjectedStaysInjected == [][crashes' = 0 => injected \subseteq injected']_indexVars

\* A campaign injects only clauses that a record makes an active guardrail,
\* never those of a candidate.
OnlyActiveGuardrails ==
  \A c \in injected : \E i \in DOMAIN deployments :
    ClauseOf[deployments[i].trace] = c /\ deployments[i].status = "active_guardrail"

\* So it is as long as no process has died.
InjectsOnlyActive == crashes = 0 => OnlyActiveGuardrails

=============================================================================

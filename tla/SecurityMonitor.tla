--------------------------- MODULE SecurityMonitor ---------------------------
(***************************************************************************)
(* The security daemon of daemon/ over the telemetry store: the warmup     *)
(* that fits and saves the drift baseline, the loop that sends a batch of  *)
(* canaries, scores the recorded answers and starts a follow-up campaign   *)
(* on an alert, its back-off, its stop and its cancellation.  A follow-up  *)
(* campaign is a task of the same event loop; its own telemetry pass       *)
(* writes canary records into the same SQLite file.  The process may die   *)
(* at any point and be started again; only the store outlives it.          *)
(*                                                                         *)
(* An answer is known by its embedding: equal answers have similarity 1,   *)
(* different ones 0.  Scores are integers of a hundred, rounded down.      *)
(* Nothing in src records an organic interaction, so the three sub-scores  *)
(* measured on organic records have no evidence and default to 100.        *)
(***************************************************************************)
EXTENDS Integers, FiniteSetsExt, Functions

CONSTANTS ProbeCount,    \* len(CANARY_PROMPTS)
          Answers,       \* what a probe may be answered, an error text included
          WarmupCount,   \* bootstrap_drift_baseline(probe_count=10)
          Neighbors,     \* DriftDetector(k_neighbors=5)
          Window,        \* asi_window_size
          Threshold,     \* asi_alert_threshold
          MaxRounds,     \* bound: metric loops of one process
          MaxTasks,      \* bound: follow-up campaigns
          MaxStarts      \* bound: processes started one after another

\* A threshold above 100 would make an alert of every report.
ASSUME MonitorAssumption ==
    /\ ProbeCount \in Nat /\ WarmupCount \in Nat /\ IsFiniteSet(Answers)
    /\ Threshold \in Int /\ Threshold <= 100

VARIABLES mon,      \* the SecurityGuardDaemon of the running process
          tasks,    \* the follow-up campaigns, each with what it has still to do
          store     \* telemetry.db

monitorVars == <<mon, tasks, store>>

WarmIds   == 1..WarmupCount                    \* canary_id "warmup-<i>"
Probes    == (WarmupCount + 1)..(WarmupCount + ProbeCount)
CanaryIds == WarmIds \cup Probes

Alive  == {"warmup", "probing", "waiting", "backoff"}
Idling == {"waiting", "backoff"}               \* _wait_or_stop

Dead == [at |-> "off", todo |-> {}, got |-> 0, fitted |-> 0, stop |-> FALSE,
         cancelled |-> FALSE, cooling |-> FALSE, rounds |-> 0, starts |-> 0]

MonitorInit ==
    /\ mon = Dead
    /\ tasks = [t \in 1..MaxTasks |-> [at |-> "none", todo |-> {}]]
    /\ store = [seen |-> [c \in CanaryIds |-> [a \in Answers |-> 0]],
                bare |-> 0, baseline |-> 0]

-----------------------------------------------------------------------------
(* telemetry/: collector, storage, drift, scoring                          *)

\* record_interaction and insert: an answer whose embedding failed is a
\* record without one.
Records(c, st) ==
    {[st EXCEPT !.seen[c][a] = @ + 1] : a \in Answers}
       \cup {[st EXCEPT !.bare = @ + 1]}

Embedded(c, st)  == SumFunction(st.seen[c])
TotalRecords(st) == st.bare + SumFunction([c \in CanaryIds |-> Embedded(c, st)])

\* save_baseline replaces what an earlier process saved.
Saved(n, st) == [st EXCEPT !.baseline = n]

\* fit_baseline: sorted_dist[:, k] of an n x n matrix needs k < n
DriftFits(n) == (IF Neighbors > n THEN (IF n > 2 THEN n - 1 ELSE 1) ELSE Neighbors) < n

\* One canary's mean similarity over all pairs of different records
Similarity(c, st) ==
    LET n == Embedded(c, st)
        alike == [a \in Answers |-> st.seen[c][a] * (st.seen[c][a] - 1)]
    IN (100 * SumFunction(alike)) \div (n * (n - 1))

Compared(st) == {c \in CanaryIds : Embedded(c, st) >= 2}

\* Mutant of ResponseConsistency: a canary without a pair counts as divergent.
ConsistencyOfAll(st) ==
    SumFunction([c \in CanaryIds |-> IF c \in Compared(st) THEN Similarity(c, st) ELSE 0])
       \div Cardinality(CanaryIds)

\* score_response_consistency: a canary with fewer than two embeddings is skipped.
ResponseConsistency(st) ==
    IF Compared(st) = {} THEN 100
    ELSE SumFunction([c \in Compared(st) |-> Similarity(c, st)]) \div Cardinality(Compared(st))

\* score_semantic_drift, score_operational_health, score_behavioral_stability
\* without one organic record
Defaulted == 100

\* AgentStabilityIndex.compute
Overall(st) == (30 * ResponseConsistency(st) + (30 + 25 + 15) * Defaulted) \div 100
IsAlert(st) == TotalRecords(st) >= Window /\ Overall(st) < Threshold

-----------------------------------------------------------------------------
(* daemon/warmup.py                                                        *)

\* start() up to the first await.  A saved baseline is fitted at once; an
\* exception here is outside the loop's tolerance and ends the process.
MonitorStart ==
    /\ mon.at = "off" /\ mon.starts < MaxStarts
    /\ \A t \in 1..MaxTasks : tasks[t].at \in {"none", "done"}
    /\ \E cooling \in BOOLEAN :     \* the host was booted within the cooldown
          LET fresh == [Dead EXCEPT !.starts = mon.starts + 1, !.cooling = cooling]
          IN mon' = IF store.baseline = 0
                    THEN [fresh EXCEPT !.at = "warmup", !.todo = WarmIds]
                    ELSE IF DriftFits(store.baseline)
                    THEN [fresh EXCEPT !.at = "probing", !.todo = Probes, !.rounds = 1,
                                       !.fitted = store.baseline]
                    ELSE [fresh EXCEPT !.at = "fatal"]
    /\ UNCHANGED <<tasks, store>>

\* A warmup probe: recorded with or without an embedding, or lost.  Any
\* exception of it is swallowed.  The sleep after it is part of the step.
WarmupProbe ==
    /\ mon.at = "warmup"
    /\ mon.todo # {}
    /\ LET c == Min(mon.todo)
       IN /\ store' \in Records(c, store) \cup {store}
          /\ mon' = [mon EXCEPT !.todo = @ \ {c},
                                !.got = @ + Embedded(c, store') - Embedded(c, store)]
    /\ UNCHANGED tasks

\* The end of the warmup: the baseline is saved before it is fitted.
WarmedUp ==
    /\ mon.at = "warmup" /\ mon.todo = {}
    /\ store' = IF mon.got > 0 THEN Saved(mon.got, store) ELSE store
    /\ mon' = IF mon.got > 0 /\ ~DriftFits(mon.got)
              THEN [mon EXCEPT !.at = "fatal"]
              ELSE [mon EXCEPT !.at = IF mon.stop THEN "ending" ELSE "probing",
                               !.todo = Probes, !.fitted = mon.got, !.rounds = 1]
    /\ UNCHANGED tasks

-----------------------------------------------------------------------------
(* daemon/monitor.py                                                       *)

\* inject_canary_batch, one canary: a failed send is recorded as an answer.
Probe ==
    /\ mon.at = "probing"
    /\ mon.todo # {}
    /\ LET c == Min(mon.todo) IN /\ store' \in Records(c, store)
                                /\ mon' = [mon EXCEPT !.todo = @ \ {c}]
    /\ UNCHANGED tasks

\* The store raises (locked, full): back off, the round is given up.
RoundFails ==
    /\ mon.at = "probing"
    /\ mon' = [mon EXCEPT !.at = "backoff", !.todo = {}]
    /\ UNCHANGED <<tasks, store>>

\* _handle_asi_report: an alert outside the cooldown starts a campaign.
Launches == IsAlert(store) /\ ~mon.cooling

\* compute and _handle_asi_report, without an await between them
Measure ==
    /\ mon.at = "probing" /\ mon.todo = {}
    /\ mon' = [mon EXCEPT !.at = "waiting", !.cooling = @ \/ Launches]
    /\ IF Launches
       THEN \E t \in 1..MaxTasks :
               /\ tasks[t].at = "none" /\ \A u \in 1..(t - 1) : tasks[u].at # "none"
               /\ tasks' = [tasks EXCEPT ![t] = [at |-> "running", todo |-> Probes]]
       ELSE UNCHANGED tasks
    /\ UNCHANGED store

CooldownEnds ==
    /\ mon.at \in Alive /\ mon.cooling
    /\ mon' = [mon EXCEPT !.cooling = FALSE]
    /\ UNCHANGED <<tasks, store>>

\* The wait is over: the loop's condition, then the next round.
NextRound ==
    /\ mon.at \in Idling /\ ~mon.stop /\ mon.rounds < MaxRounds
    /\ mon' = [mon EXCEPT !.at = "probing", !.todo = Probes, !.rounds = @ + 1]
    /\ UNCHANGED <<tasks, store>>

LoopEnds ==
    /\ mon.at \in Idling /\ mon.stop
    /\ mon' = [mon EXCEPT !.at = "ending"]
    /\ UNCHANGED <<tasks, store>>

Stop ==
    /\ mon.at \in Alive /\ ~mon.stop
    /\ mon' = [mon EXCEPT !.stop = TRUE]
    /\ UNCHANGED <<tasks, store>>

\* Ctrl-C: the event loop cancels the task that runs start().
Interrupt ==
    /\ mon.at \in Alive /\ ~mon.cancelled
    /\ mon' = [mon EXCEPT !.cancelled = TRUE]
    /\ UNCHANGED <<tasks, store>>

\* The cancellation arrives at the await; no handler on the way swallows it.
Cancelled ==
    /\ mon.at \in Alive /\ mon.cancelled
    /\ mon' = [mon EXCEPT !.at = "ending"]
    /\ UNCHANGED <<tasks, store>>

ActiveTasks == {t \in 1..MaxTasks : tasks[t].at = "running"}

\* Mutant of CancelActiveTasks: the set is cleared, its tasks are not cancelled.
ForgetActiveTasks == UNCHANGED tasks

\* _cancel_active_tasks: each live task is asked to end.
CancelActiveTasks ==
    tasks' = [t \in 1..MaxTasks |->
                 IF t \in ActiveTasks THEN [tasks[t] EXCEPT !.at = "cancelling"] ELSE tasks[t]]

\* The finally block of start(), after every ending, the fatal one too
Shutdown ==
    /\ mon.at \in {"ending", "fatal"}
    /\ mon' = [Dead EXCEPT !.starts = mon.starts]
    /\ CancelActiveTasks
    /\ UNCHANGED store

-----------------------------------------------------------------------------
(* The follow-up campaign: engine.run and its telemetry pass               *)

TaskProbe(t) ==
    /\ tasks[t].at = "running"
    /\ tasks[t].todo # {}
    /\ LET c == Min(tasks[t].todo)
       IN /\ store' \in Records(c, store)
          /\ tasks' = [tasks EXCEPT ![t].todo = @ \ {c}]
    /\ UNCHANGED mon

\* It is over, or the attack or the telemetry pass failed; both are swallowed.
TaskDone(t) ==
    /\ tasks[t].at = "running"
    /\ tasks' = [tasks EXCEPT ![t].at = "done", ![t].todo = {}]
    /\ UNCHANGED <<mon, store>>

TaskCancelled(t) ==
    /\ tasks[t].at = "cancelling"
    /\ tasks' = [tasks EXCEPT ![t].at = "done", ![t].todo = {}]
    /\ UNCHANGED <<mon, store>>

\* The process dies.
MonitorDies ==
    /\ mon.at \in Alive
    /\ mon' = [Dead EXCEPT !.starts = mon.starts]
    /\ tasks' = [t \in 1..MaxTasks |->
                    IF tasks[t].at = "none" THEN tasks[t] ELSE [at |-> "done", todo |-> {}]]
    /\ UNCHANGED store

Step == \/ WarmupProbe \/ WarmedUp \/ Probe \/ RoundFails \/ Measure \/ CooldownEnds
        \/ NextRound \/ LoopEnds \/ Cancelled \/ Shutdown

MonitorNext ==
    \/ MonitorStart \/ Step \/ Stop \/ Interrupt \/ MonitorDies
    \/ \E t \in 1..MaxTasks : TaskProbe(t) \/ TaskDone(t) \/ TaskCancelled(t)

MonitorSpec == MonitorInit /\ [][MonitorNext]_monitorVars

\* No step below waits for the provider: the event loop takes it.
MonitorFairness ==
    /\ WF_monitorVars(LoopEnds) /\ WF_monitorVars(Cancelled) /\ WF_monitorVars(Shutdown)
    /\ \A t \in 1..MaxTasks : WF_monitorVars(TaskCancelled(t))

-----------------------------------------------------------------------------
\* No follow-up campaign without evidence: when _handle_asi_report starts one,
\* the store holds a full window and one canary was answered in two ways.
AlertsAreEvidenced ==
    [][\A t \in 1..MaxTasks : tasks[t].at = "none" /\ tasks'[t].at = "running" =>
          /\ TotalRecords(store) >= Window
          /\ \E c \in CanaryIds, a, b \in Answers :
                a # b /\ store.seen[c][a] > 0 /\ store.seen[c][b] > 0]_monitorVars
=============================================================================

--------------------------- MODULE ResearchDaemon ---------------------------
(***************************************************************************)
(* The resume-safe research daemon (research/daemon.py, daemon_runtime.py, *)
(* daemon_recovery.py) and the operator's command line beside it.  All     *)
(* processes work on the same files, and only daemons look at the lock:    *)
(*                                                                         *)
(*   session.lock, heartbeat.json, daemon_state.json, proposals/*.json,    *)
(*   promotions/*/{promotion_checkpoint,promotion_result}.json, git        *)
(*                                                                         *)
(* What a process writes is computed from what it read.  A read and a      *)
(* write-back of daemon_state.json are two steps where other files are     *)
(* read in between (InitState, RunOnce) and in the stop command, and one   *)
(* step in the daemon's record_step_state, record_daemon_failure and the   *)
(* two exits of its loop.  The content of the work tree is reduced to      *)
(* "dirty or not".                                                         *)
(***************************************************************************)
EXTENDS Naturals, FiniteSets

CONSTANTS
  Daemons,      \* processes that may run `daemon start` or `research resume`
  Proposals,    \* identities of Phase 3 proposals: a bound on those emitted
  None,         \* no owner, no proposal
  OperatorCommands, \* the commands the operator uses
  MaxCrashes    \* bound on the crashes (kill -9, power loss) explored

ASSUME ConstantsAssumption ==
  /\ None \notin Daemons
  /\ None \notin Proposals
  /\ OperatorCommands \subseteq {"stop", "accept", "reject", "promote"}
  /\ MaxCrashes \in Nat

\* The thresholds of record_daemon_failure.  The counter is compared with
\* nothing larger, so it saturates at FailuresToHalt.
FailuresToCool == 2
FailuresToHalt == 3

VARIABLES
  session,      \* a Phase 3 session exists (session.json)
  lock,         \* owner_id in the lock file, None when there is no file
  fresh,        \* the heartbeat file is at most 60 seconds old
  state,        \* daemon_state.json
  cooling,      \* the cooldown deadline written last is still ahead
  dirty,        \* git reports changes outside autoresearch/ and logs/
  review,       \* research_plane_status of each proposal
  recommended,  \* the proposals the supervisor recommends to accept
  latest,       \* the proposal file with the newest mtime
  checkpointed, \* the proposals whose promotion has a checkpoint
  finished,     \* the proposals whose promotion has a result
  top,          \* the promotion directory that sorts last (a hash order)
  proc,         \* each daemon's location and local variables
  op,           \* the operator's command in progress
  crashes,      \* crashes so far
  approved      \* history: the proposals the operator ran `accept` on

lockVars  == <<lock, fresh>>
planeVars == <<session, dirty, review, recommended, latest>>
promoVars == <<checkpointed, finished, top>>
restVars  == <<op, crashes, approved>>
vars == <<lockVars, state, cooling, planeVars, promoVars, proc, restVars>>

Statuses == {"absent", "idle", "running", "awaiting_review", "cooldown",
             "halted", "stop_requested", "stopped"}

\* daemon_state.json; the status "absent" stands for the missing file, unsafe
\* for a last_error that contains the word.
DaemonState == [status : Statuses, failures : 0..FailuresToHalt, deadline : BOOLEAN,
                unsafe : BOOLEAN, proposal : Proposals \cup {None}]

NoState == [status |-> "absent", failures |-> 0, deadline |-> FALSE,
            unsafe |-> FALSE, proposal |-> None]

Reviews == {"absent", "pending", "accepted", "rejected"}

\* Locations inside the try of start(): they release the lock on the way out.
InTry == {"init", "pause", "begin", "poll", "once", "reopen", "gates", "promote",
          "promoting", "dirty", "mutate", "evaluate", "rewrite", "record", "recordBeat",
          "fail", "failSave", "cycled", "release"}

Locations == InTry \cup {"off", "acquire", "lock", "beat"}

\* mem is the copy of daemon_state.json being modified; next, emitted and
\* returns say what record_step_state will write and whether start() returns
\* after it; harness, that the mutation harness will rewrite the proposal.
Local == [pc : Locations, recover : BOOLEAN, mem : DaemonState,
          next : {"running", "awaiting_review"}, emitted : Proposals \cup {None},
          returns : BOOLEAN, harness : BOOLEAN, unsafe : BOOLEAN]

Idle == [pc |-> "off", recover |-> FALSE, mem |-> NoState, next |-> "running",
         emitted |-> None, returns |-> FALSE, harness |-> FALSE, unsafe |-> FALSE]

Commands == {"idle", "stop", "accept", "reject", "promote"}

\* The operator begins a command; NoCommand ends it.
Runs(command) == op.pc = "idle" /\ command \in OperatorCommands

Operator == [pc : Commands, proposal : Proposals \cup {None}, mem : DaemonState]

NoCommand == [pc |-> "idle", proposal |-> None, mem |-> NoState]

At(d, location) == proc[d].pc = location
InSession(d) == proc[d].pc \in InTry
Become(d, local) == proc' = [proc EXCEPT ![d] = local]
Goto(d, location) == proc' = [proc EXCEPT ![d].pc = location]
\* Go on without the local variables: none of them is read again.
Forget(d, location) == Become(d, [Idle EXCEPT !.pc = location])

-----------------------------------------------------------------------------
Init ==
  /\ session = FALSE
  /\ lock = None
  /\ fresh = FALSE
  /\ state = NoState
  /\ cooling = FALSE
  /\ dirty = FALSE
  /\ review = [p \in Proposals |-> "absent"]
  /\ recommended = {}
  /\ latest = None
  /\ checkpointed = {}
  /\ finished = {}
  /\ top = None
  /\ proc = [d \in Daemons |-> Idle]
  /\ op = NoCommand
  /\ crashes = 0
  /\ approved = {}

\* The proposal a state file names, or the latest one when it names none.
Referenced(s) == IF s.proposal # None THEN s.proposal ELSE latest

AwaitsReview(s) == Referenced(s) # None /\ review[Referenced(s)] = "pending"

LatestIs(status) == latest # None /\ review[latest] = status

\* The last promotion directory has a checkpoint and no result.
Interrupted == top # None /\ top \notin finished

-----------------------------------------------------------------------------
(***************************************************************************)
(* start() and resume()                                                    *)
(***************************************************************************)

\* ensure_session: an existing session, or --create-session on a clean tree.
Start(d, resume) ==
  /\ At(d, "off")
  /\ session \/ ~dirty
  /\ session' = TRUE
  /\ Become(d, [Idle EXCEPT !.pc = "acquire", !.recover = resume])
  /\ UNCHANGED <<lockVars, state, cooling, dirty, review, recommended, latest,
                 promoVars, restVars>>

\* Mutant of CheckLock: a stale lock is never recovered.
CheckLockStrict(d) ==
  /\ At(d, "acquire")
  /\ Forget(d, IF lock = None THEN "lock" ELSE "off")
  /\ UNCHANGED <<lockVars, state, cooling, planeVars, promoVars, restVars>>

\* acquire_lock reads the heartbeat and the lock; it refuses an active lock and,
\* unless this is a resume, a stale one.  It writes nothing yet.
CheckLock(d) ==
  /\ At(d, "acquire")
  /\ Forget(d, IF lock = None \/ (~fresh /\ proc[d].recover) THEN "lock" ELSE "off")
  /\ UNCHANGED <<lockVars, state, cooling, planeVars, promoVars, restVars>>

WriteLock(d) ==
  /\ At(d, "lock")
  /\ lock' = d
  /\ Goto(d, "beat")
  /\ UNCHANGED <<fresh, state, cooling, planeVars, promoVars, restVars>>

BeatIdle(d) ==
  /\ At(d, "beat")
  /\ fresh' = TRUE
  /\ Goto(d, "init")
  /\ UNCHANGED <<lock, state, cooling, planeVars, promoVars, restVars>>

\* Mutant of InitState: a proposal under review is not looked for at the start.
InitStateBegins(d) ==
  LET loaded == IF state.status = "absent" THEN [state EXCEPT !.status = "idle"] ELSE state
  IN  /\ At(d, "init")
      /\ Become(d, [proc[d] EXCEPT !.mem = loaded, !.pc = "begin"])
      /\ UNCHANGED <<lockVars, state, cooling, planeVars, promoVars, restVars>>

\* Load or create the state; a proposal still under review pauses the daemon.
InitState(d) ==
  LET loaded == IF state.status = "absent" THEN [state EXCEPT !.status = "idle"] ELSE state
  IN  /\ At(d, "init")
      /\ Become(d, [proc[d] EXCEPT !.mem = loaded,
                      !.pc = IF AwaitsReview(loaded) THEN "pause" ELSE "begin"])
      /\ UNCHANGED <<lockVars, state, cooling, planeVars, promoVars, restVars>>

Pause(d) ==
  /\ At(d, "pause")
  /\ state' = proc[d].mem
  /\ Become(d, [Idle EXCEPT !.pc = "record", !.next = "awaiting_review", !.returns = TRUE])
  /\ UNCHANGED <<lockVars, cooling, planeVars, promoVars, restVars>>

Begin(d) ==
  /\ At(d, "begin")
  /\ state' = [proc[d].mem EXCEPT !.status = "running"]
  /\ Forget(d, "poll")
  /\ UNCHANGED <<lockVars, cooling, planeVars, promoVars, restVars>>

\* Mutant of Poll: the request is seen and the loop goes on without an answer.
PollIgnores(d) ==
  /\ At(d, "poll")
  /\ Goto(d, IF state.status = "stop_requested" THEN "cycled" ELSE "once")
  /\ UNCHANGED <<lockVars, state, cooling, planeVars, promoVars, restVars>>

\* The head of the loop: the only place that looks for a stop request.
Poll(d) ==
  /\ At(d, "poll")
  /\ IF state.status = "stop_requested"
     THEN state' = [state EXCEPT !.status = "stopped"] /\ Goto(d, "release")
     ELSE Goto(d, "once") /\ UNCHANGED state
  /\ UNCHANGED <<lockVars, cooling, planeVars, promoVars, restVars>>

\* After run_once: another pass, or the end when max_cycles passes were made.
\* The caller chooses max_cycles, so both are possible after any pass.
Cycled(d) ==
  /\ At(d, "cycled")
  /\ \/ Goto(d, "poll") /\ UNCHANGED state
     \/ /\ Goto(d, "release")
        /\ state' = IF state.status = "running" THEN [state EXCEPT !.status = "stopped"]
                                                ELSE state
  /\ UNCHANGED <<lockVars, cooling, planeVars, promoVars, restVars>>

\* release_lock removes the file whoever wrote it.
Release(d) ==
  /\ At(d, "release")
  /\ lock' = None
  /\ Become(d, Idle)
  /\ UNCHANGED <<fresh, state, cooling, planeVars, promoVars, restVars>>

-----------------------------------------------------------------------------
(***************************************************************************)
(* run_once()                                                              *)
(***************************************************************************)
\* Mutant of RunOnce: the status alone decides, the review is not looked at.
RunOnceWaits(d) ==
  /\ At(d, "once")
  /\ IF \/ state.status = "awaiting_review"
        \/ state.status = "cooldown" /\ state.deadline /\ cooling
     THEN Goto(d, "cycled") ELSE Goto(d, "gates")
  /\ UNCHANGED <<lockVars, state, cooling, planeVars, promoVars, restVars>>

RunOnce(d) ==
  LET waits == state.status = "awaiting_review"
      cools == state.status = "cooldown" /\ state.deadline /\ cooling
  IN  /\ At(d, "once")
      /\ \/ waits /\ AwaitsReview(state) /\ Goto(d, "cycled")
         \/ /\ waits /\ ~AwaitsReview(state)
            /\ Become(d, [proc[d] EXCEPT !.mem = state, !.pc = "reopen"])
         \/ cools /\ Goto(d, "cycled")
         \/ ~waits /\ ~cools /\ Goto(d, "gates")
      /\ UNCHANGED <<lockVars, state, cooling, planeVars, promoVars, restVars>>

Reopen(d) ==
  /\ At(d, "reopen")
  /\ state' = [proc[d].mem EXCEPT !.status = "running"]
  /\ Forget(d, "gates")
  /\ UNCHANGED <<lockVars, cooling, planeVars, promoVars, restVars>>

Gates(d) ==
  /\ At(d, "gates")
  /\ Goto(d, CASE Interrupted -> "promote"
               [] ~Interrupted /\ dirty -> "dirty"
               [] OTHER -> "mutate")
  /\ UNCHANGED <<lockVars, state, cooling, planeVars, promoVars, restVars>>

\* An exception: its message decides whether the daemon halts at once.
Fails(d, message) == Become(d, [Idle EXCEPT !.pc = "fail", !.unsafe = message])

Records(d, status, proposal) ==
  Become(d, [Idle EXCEPT !.pc = "record", !.next = status, !.emitted = proposal])

\* The checkpoint of a promotion of the latest proposal: a new directory sorts
\* after or before the last one, as its hash has it.
WriteCheckpoint ==
  /\ checkpointed' = checkpointed \cup {latest}
  /\ top' \in IF latest \in checkpointed THEN {top}
              ELSE {latest} \cup ({top} \ {None})

\* resume_promotion_if_needed calls promote_latest: the latest proposal is
\* promoted, or refused when it is not accepted, or already has its result; an
\* artifact may be unreadable.
ResumePromotion(d) ==
  /\ At(d, "promote")
  /\ \/ /\ Fails(d, FALSE)
        /\ UNCHANGED promoVars
     \/ /\ LatestIs("accepted") /\ latest \in finished
        /\ Records(d, "running", None)
        /\ UNCHANGED promoVars
     \/ /\ LatestIs("accepted") /\ latest \notin finished
        /\ WriteCheckpoint
        /\ Become(d, [proc[d] EXCEPT !.pc = "promoting", !.emitted = latest])
        /\ UNCHANGED finished
  /\ UNCHANGED <<lockVars, state, cooling, planeVars, restVars>>

FinishPromotion(d) ==
  /\ At(d, "promoting")
  /\ \/ /\ finished' = finished \cup {proc[d].emitted}
        /\ Records(d, "running", None)
     \/ /\ Fails(d, FALSE)
        /\ UNCHANGED finished
  /\ UNCHANGED <<lockVars, state, cooling, planeVars, checkpointed, top, restVars>>

\* _handle_dirty_cycle.  The candidate that sorts last, of any phase, may have
\* diverged from the work tree; otherwise a proposal under review is waited for, and
\* what is in the tree is evaluated again, outside the mutation harness.
DirtyCycle(d) ==
  /\ At(d, "dirty")
  /\ \/ Fails(d, TRUE)
     \/ LatestIs("pending") /\ Records(d, "awaiting_review", latest)
     \/ ~LatestIs("pending") /\ Become(d, [proc[d] EXCEPT !.pc = "evaluate", !.harness = FALSE])
  /\ UNCHANGED <<lockVars, state, cooling, planeVars, promoVars, restVars>>

\* generate_and_apply: the patch reaches the tree, or the candidate is refused.
Mutate(d) ==
  /\ At(d, "mutate")
  /\ \/ /\ dirty' = TRUE
        /\ Become(d, [proc[d] EXCEPT !.pc = "evaluate", !.harness = TRUE])
     \/ /\ Fails(d, FALSE)
        /\ UNCHANGED dirty
  /\ UNCHANGED <<lockVars, state, cooling, session, review, recommended, latest,
                 promoVars, restVars>>

\* PhaseThreeHarness.run_cycle: a long evaluation that ends in a new pending
\* proposal or in an exception.
Evaluate(d) ==
  /\ At(d, "evaluate")
  /\ \/ \E p \in Proposals, advice \in BOOLEAN :
          /\ review[p] = "absent"
          /\ review' = [review EXCEPT ![p] = "pending"]
          /\ recommended' = IF advice THEN recommended \cup {p} ELSE recommended
          /\ latest' = p
          /\ IF proc[d].harness
             THEN Become(d, [Idle EXCEPT !.pc = "rewrite", !.emitted = p])
             ELSE Records(d, "awaiting_review", p)
     \/ /\ Fails(d, FALSE)
        /\ UNCHANGED <<review, recommended, latest>>
  /\ UNCHANGED <<lockVars, state, cooling, session, dirty, promoVars, restVars>>

\* SourceMutationHarness.run_cycle writes the proposal object it holds again.
Rewrite(d) ==
  /\ At(d, "rewrite")
  /\ review' = [review EXCEPT ![proc[d].emitted] = "pending"]
  /\ latest' = proc[d].emitted
  /\ Records(d, "awaiting_review", proc[d].emitted)
  /\ UNCHANGED <<lockVars, state, cooling, session, dirty, recommended, promoVars, restVars>>

-----------------------------------------------------------------------------
(***************************************************************************)
(* record_step_state and _handle_failure                                   *)
(***************************************************************************)
\* The state after a completed step; the proposal changes only if one is named.
Completed(s, status, emitted) ==
  [status |-> status, failures |-> 0, deadline |-> FALSE, unsafe |-> FALSE,
   proposal |-> IF emitted # None THEN emitted ELSE s.proposal]

Record(d) ==
  /\ At(d, "record")
  /\ state' = Completed(state, proc[d].next, proc[d].emitted)
  /\ Become(d, [Idle EXCEPT !.pc = "recordBeat", !.returns = proc[d].returns])
  /\ UNCHANGED <<lockVars, cooling, planeVars, promoVars, restVars>>

RecordBeat(d) ==
  /\ At(d, "recordBeat")
  /\ fresh' = TRUE
  /\ Forget(d, IF proc[d].returns THEN "release" ELSE "cycled")
  /\ UNCHANGED <<lock, state, cooling, planeVars, promoVars, restVars>>

\* The automatic revert of a dirty tree, whose own failure is swallowed.  It takes
\* the candidate of its own phase that sorts last, which need not be the one that
\* DirtyCycle looked at: it may succeed whatever the exception was, and then it is
\* the mutation of a proposal under review that leaves the tree.
FailRevert(d) ==
  /\ At(d, "fail")
  /\ dirty' \in {FALSE, dirty}
  /\ Goto(d, "failSave")
  /\ UNCHANGED <<lockVars, state, cooling, session, review, recommended, latest,
                 promoVars, restVars>>

\* Mutant of Failed: the thresholds are compared in the other order.
FailedSwapped(s, message) ==
  LET n == IF s.failures < FailuresToHalt THEN s.failures + 1 ELSE s.failures
      counted == [s EXCEPT !.failures = n, !.unsafe = message]
  IN  IF n >= FailuresToCool THEN [counted EXCEPT !.status = "cooldown", !.deadline = TRUE]
      ELSE IF message THEN [counted EXCEPT !.status = "halted"]
      ELSE counted

\* record_daemon_failure: neither the heartbeat nor, below the thresholds, the
\* status is touched.
Failed(s, message) ==
  LET n == IF s.failures < FailuresToHalt THEN s.failures + 1 ELSE s.failures
      counted == [s EXCEPT !.failures = n, !.unsafe = message]
  IN  IF message \/ n >= FailuresToHalt THEN [counted EXCEPT !.status = "halted"]
      ELSE IF n >= FailuresToCool THEN [counted EXCEPT !.status = "cooldown", !.deadline = TRUE]
      ELSE counted

FailSave(d) ==
  /\ At(d, "failSave")
  /\ state' = Failed(state, proc[d].unsafe)
  /\ cooling' = (cooling \/ state'.status = "cooldown")
  /\ Forget(d, "cycled")
  /\ UNCHANGED <<lockVars, planeVars, promoVars, restVars>>

-----------------------------------------------------------------------------
(***************************************************************************)
(* The operator's commands                                                 *)
(***************************************************************************)
OpStop ==
  /\ Runs("stop")
  /\ state.status # "absent"
  /\ op' = [op EXCEPT !.pc = "stop", !.mem = state]
  /\ UNCHANGED <<lockVars, state, cooling, planeVars, promoVars, proc, crashes, approved>>

OpStopSave ==
  /\ op.pc = "stop"
  /\ state' = [op.mem EXCEPT !.status = "stop_requested"]
  /\ op' = NoCommand
  /\ UNCHANGED <<lockVars, cooling, planeVars, promoVars, proc, crashes, approved>>

\* accept_latest commits first (git refuses an empty commit) and then writes the
\* proposal it read; whether it was still under review is not asked.
OpAccept ==
  /\ Runs("accept")
  /\ latest \in recommended
  /\ dirty
  /\ dirty' = FALSE
  /\ approved' = approved \cup {latest}
  /\ op' = [op EXCEPT !.pc = "accept", !.proposal = latest]
  /\ UNCHANGED <<lockVars, state, cooling, session, review, recommended, latest,
                 promoVars, proc, crashes>>

OpAcceptSave ==
  /\ op.pc = "accept"
  /\ review' = [review EXCEPT ![op.proposal] = "accepted"]
  /\ latest' = op.proposal
  /\ op' = NoCommand
  /\ UNCHANGED <<lockVars, state, cooling, session, dirty, recommended, promoVars, proc,
                 crashes, approved>>

\* reject_latest writes the proposal first and then resets the tree.
OpReject ==
  /\ Runs("reject")
  /\ latest # None
  /\ review' = [review EXCEPT ![latest] = "rejected"]
  /\ op' = [op EXCEPT !.pc = "reject"]
  /\ UNCHANGED <<lockVars, state, cooling, session, dirty, recommended, latest,
                 promoVars, proc, crashes, approved>>

OpRejectReset ==
  /\ op.pc = "reject"
  /\ dirty' = FALSE
  /\ op' = NoCommand
  /\ UNCHANGED <<lockVars, state, cooling, session, review, recommended, latest,
                 promoVars, proc, crashes, approved>>

\* Mutant of OpPromote: any proposal that was not rejected.
OpPromotePending ==
  /\ Runs("promote")
  /\ LatestIs("accepted") \/ LatestIs("pending")
  /\ WriteCheckpoint
  /\ op' = [op EXCEPT !.pc = "promote", !.proposal = latest]
  /\ UNCHANGED <<lockVars, state, cooling, planeVars, finished, proc, crashes, approved>>

\* A result that is there ends a promotion before its checkpoint, but not a dry run.
OpPromote ==
  /\ Runs("promote")
  /\ LatestIs("accepted")
  /\ WriteCheckpoint
  /\ op' = [op EXCEPT !.pc = "promote", !.proposal = latest]
  /\ UNCHANGED <<lockVars, state, cooling, planeVars, finished, proc, crashes, approved>>

OpPromoteFinish ==
  /\ op.pc = "promote"
  /\ finished' = finished \cup {op.proposal}
  /\ op' = NoCommand
  /\ UNCHANGED <<lockVars, state, cooling, planeVars, checkpointed, top, proc, crashes,
                 approved>>

-----------------------------------------------------------------------------
(***************************************************************************)
(* Crashes, Ctrl-C and the clock                                           *)
(***************************************************************************)
Crash(d) ==
  /\ ~At(d, "off")
  /\ crashes < MaxCrashes
  /\ crashes' = crashes + 1
  /\ Become(d, Idle)
  /\ UNCHANGED <<lockVars, state, cooling, planeVars, promoVars, op, approved>>

\* The operator's command dies between two of its steps.
OpCrash ==
  /\ op.pc # "idle"
  /\ crashes < MaxCrashes
  /\ crashes' = crashes + 1
  /\ op' = NoCommand
  /\ UNCHANGED <<lockVars, state, cooling, planeVars, promoVars, proc, approved>>

\* Ctrl-C: the finally of start() still runs.
Interrupt(d) ==
  /\ proc[d].pc \in InTry \ {"release"}
  /\ Forget(d, "release")
  /\ UNCHANGED <<lockVars, state, cooling, planeVars, promoVars, restVars>>

HeartbeatAges ==
  /\ fresh
  /\ fresh' = FALSE
  /\ UNCHANGED <<lock, state, cooling, planeVars, promoVars, proc, restVars>>

CooldownEnds ==
  /\ cooling
  /\ cooling' = FALSE
  /\ UNCHANGED <<lockVars, state, planeVars, promoVars, proc, restVars>>

\* What a daemon does by itself, once started.
DaemonStep(d) ==
  \/ CheckLock(d) \/ WriteLock(d) \/ BeatIdle(d) \/ InitState(d) \/ Pause(d) \/ Begin(d)
  \/ Poll(d) \/ Cycled(d) \/ Release(d)
  \/ RunOnce(d) \/ Reopen(d) \/ Gates(d) \/ ResumePromotion(d) \/ FinishPromotion(d)
  \/ DirtyCycle(d) \/ Mutate(d) \/ Evaluate(d) \/ Rewrite(d)
  \/ Record(d) \/ RecordBeat(d) \/ FailRevert(d) \/ FailSave(d)

OperatorStep ==
  \/ OpStop \/ OpStopSave \/ OpAccept \/ OpAcceptSave \/ OpReject \/ OpRejectReset
  \/ OpPromote \/ OpPromoteFinish

Next ==
  \/ \E d \in Daemons : DaemonStep(d) \/ Crash(d) \/ Interrupt(d)
  \/ \E d \in Daemons, resume \in BOOLEAN : Start(d, resume)
  \/ OperatorStep \/ OpCrash \/ HeartbeatAges \/ CooldownEnds

Spec == Init /\ [][Next]_vars

\* A started daemon keeps running (an event loop with nothing else in it), and
\* time passes.
Fairness ==
  /\ \A d \in Daemons : WF_vars(DaemonStep(d))
  /\ WF_vars(HeartbeatAges)
  /\ WF_vars(CooldownEnds)

FairSpec == Spec /\ Fairness

\* The operator who keeps trying `research resume` gets his turn.
ResumeSpec == FairSpec /\ \A d \in Daemons : SF_vars(Start(d, TRUE))

-----------------------------------------------------------------------------
(***************************************************************************)
(* Properties                                                              *)
(***************************************************************************)

\* Every file and every local variable holds a value of its type.
TypeOK ==
  /\ session \in BOOLEAN /\ fresh \in BOOLEAN /\ cooling \in BOOLEAN /\ dirty \in BOOLEAN
  /\ lock \in Daemons \cup {None}
  /\ state \in DaemonState
  /\ review \in [Proposals -> Reviews]
  /\ recommended \subseteq Proposals
  /\ latest \in Proposals \cup {None}
  /\ checkpointed \subseteq Proposals
  /\ finished \subseteq Proposals
  /\ top \in Proposals \cup {None}
  /\ proc \in [Daemons -> Local]
  /\ op \in Operator
  /\ crashes \in 0..MaxCrashes
  /\ approved \subseteq Proposals

\* A state is justified when a halt has its three failures or an unsafe error
\* behind it, and a cooldown its two failures and a deadline.
Justified(s) ==
  /\ s.status = "halted" => s.failures >= FailuresToHalt \/ (s.unsafe /\ s.failures > 0)
  /\ s.status = "cooldown" => s.failures = FailuresToCool /\ s.deadline

\* daemon_state.json stays justified although daemons and the stop command read
\* and write it back in any interleaving (record_daemon_failure, stop).
StateJustified == Justified(state)

\* The promotion boundary seen from the daemon: whoever starts a promotion, the
\* operator's command or the daemon's recovery, the operator accepted that
\* proposal before, and a result never exists without its checkpoint.
PromotedWasApproved == finished \subseteq checkpointed /\ checkpointed \subseteq approved

\* What makes both inductive: every copy of the state that will be written back is
\* justified, and every promotion under way is of an approved proposal.
InductiveParts ==
  /\ Justified(op.mem) /\ \A d \in Daemons : Justified(proc[d].mem)
  /\ \A p \in Proposals : review[p] = "accepted" => p \in approved
  /\ \A d \in Daemons : At(d, "promoting") => proc[d].emitted \in checkpointed
  /\ op.pc = "accept" => op.proposal \in approved
  /\ op.pc = "promote" => op.proposal \in checkpointed

IInv == TypeOK /\ StateJustified /\ PromotedWasApproved /\ InductiveParts

\* A daemon that waits for a review goes on waiting.  While the state file says
\* awaiting_review and its proposal is pending, nothing the daemon does gives the
\* wait up or touches the tree, the proposals or the promotions, also when it was
\* killed, restarted or resumed meanwhile, whatever the operator runs beside it
\* (start, run_once).  This is a property of one daemon: MutualExclusion below says
\* why there may be two.
WaitsForTheReview ==
  [][\A d \in Daemons :
       state.status = "awaiting_review" /\ AwaitsReview(state) /\ DaemonStep(d) =>
         /\ state'.status = "awaiting_review"
         /\ UNCHANGED <<planeVars, promoVars>>]_vars

\* The locations at which a daemon has decided to work.
Working == {"gates", "promote", "promoting", "dirty", "mutate", "evaluate", "rewrite",
            "fail", "failSave"}

\* What makes it inductive, for one daemon: the wait is over in the file before the
\* daemon begins to work, and a copy that it saves later waits if the file does.
WaitInv ==
  \A d \in Daemons : state.status = "awaiting_review" =>
    /\ proc[d].pc \notin Working
    /\ At(d, "record") => proc[d].next = "awaiting_review"
    /\ At(d, "pause") => proc[d].mem.status = "awaiting_review"
    /\ proc[d].pc \in {"begin", "reopen"} => ~AwaitsReview(state)

\* A stop request is answered while a daemon is there to answer it: the status
\* does not stay stop_requested (start's loop).
StopAnswered ==
  (state.status = "stop_requested" /\ \E d \in Daemons : InSession(d))
    ~> (state.status # "stop_requested" \/ \A d \in Daemons : ~InSession(d))

\* A daemon that waits for a review goes on, or ends, once the review is made.
ReviewResumes ==
  \A d \in Daemons :
    (state.status = "awaiting_review" /\ ~AwaitsReview(state) /\ InSession(d))
      ~> (state.status # "awaiting_review" \/ ~InSession(d))

\* A lock that a crashed daemon left behind does not block the workspace for
\* ever: an operator who keeps trying `research resume` gets a session.
LockRecovered == (lock # None) ~> (lock = None \/ \E d \in Daemons : InSession(d))

-----------------------------------------------------------------------------
(***************************************************************************)
(* What the repository says and the code does not do                       *)
(***************************************************************************)

\* daemon_models.py: "Exclusive ownership record for one research workspace": one
\* daemon at most is in session.  Check and write of the lock are two steps, and a
\* daemon that polls, cools down or evaluates for a minute does not beat, so that a
\* resume takes its lock over.
MutualExclusion ==
  \A d, e \in Daemons : InSession(d) /\ InSession(e) => d = e

\* test_research_daemon.py: "run_once should not execute while review is pending":
\* no mutation starts while the latest proposal is pending.  A stop request that
\* lands between the loop's look at the state and run_once's own hides the
\* awaiting_review status from run_once.
ReviewGate == \A d \in Daemons : At(d, "mutate") => ~LatestIs("pending")

\* daemon_models.py: "Periodic heartbeat used to detect stale daemon sessions":
\* a session that is reported stale belongs to no running daemon.
StaleMeansDead == \A d \in Daemons : InSession(d) /\ lock = d => fresh

\* test_divergence_during_resume_halts_without_clobbering_state: a daemon that
\* halted leaves the work tree to the operator.
HaltFreezesTree ==
  [][\A d \in Daemons : state.status = "halted" /\ DaemonStep(d) => dirty' = dirty]_vars

\* daemon_recovery.py: "Resume the latest interrupted promotion when a checkpoint
\* exists without a result": the promotion found interrupted is the one resumed.
ResumesTheInterrupted ==
  [][\A d \in Daemons :
       /\ proc[d].pc \in {"promote", "promoting"} /\ proc'[d].pc = "record"
       => top \in finished']_vars

\* `daemon stop` reports "Research daemon stop requested": a request made while a
\* daemon is in its loop makes that daemon stop.
StopStops ==
  \A d \in Daemons :
    (state.status = "stop_requested" /\ InSession(d)) ~> ~InSession(d)
=============================================================================

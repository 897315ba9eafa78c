------------------------------ MODULE LiveSend ------------------------------
(***************************************************************************)
(* One provider send, as pyrit_adapters/ makes it for every prompt a       *)
(* campaign sends: the controlled adapter's gate, the canary decision of   *)
(* the shared helper, the target's own containment, interception and       *)
(* capability guards, the retry loop with its back-off, and the execution  *)
(* record.  Senders run concurrently on one event loop and share the list  *)
(* of records that capture_execution_records installed.  Everything up to  *)
(* the provider call runs without an await, so it is one step; the call    *)
(* and the back-off are awaits, where other senders run and where a        *)
(* worker's deadline cancels the send.                                     *)
(***************************************************************************)
EXTENDS Integers, FiniteSets, Sequences

CONSTANTS Senders,     \* coroutines that send, one message at a time each
          MaxRetries,  \* send_with_retry(max_retries=3)
          Requests     \* the messages a sender may be asked to send

VARIABLES sends,       \* [Senders -> the state of its current or last send]
          records      \* execution_records of engine.run

sendVars == <<sends, records>>

Doors     == {"target", "helper", "adapter"}
Seams     == {"target", "generation", "judge", "memory"}
Presets   == {"monitor_only", "block_execution_boundary",
              "block_memory_and_outbound", "strict_fail_closed"}

\* door: target.send itself, the helper, or the controlled live adapter;
\* decision: what the authorization said, "locked" when the gate is closed.
Request == [door : Doors, seam : Seams, labelled : BOOLEAN, tagged : BOOLEAN,
            preset : Presets, decision : {"none", "allow", "deny", "locked"},
            intercepted : BOOLEAN, capable : BOOLEAN, legacy : BOOLEAN]

\* A target without metadata in its signature is met by the helper only.
ASSUME SendAssumption ==
    /\ MaxRetries \in Nat
    /\ Requests \subseteq Request
    /\ \A req \in Requests : req.legacy => req.door # "target"

NoRequest == [door |-> "target", seam |-> "judge", labelled |-> FALSE, tagged |-> FALSE,
              preset |-> "monitor_only", decision |-> "none",
              intercepted |-> FALSE, capable |-> TRUE, legacy |-> FALSE]

Idle == [at |-> "idle", req |-> NoRequest, calls |-> 0, delivered |-> 0]

-----------------------------------------------------------------------------
(* canary_containment.py                                                   *)

Boundary(seam) == CASE seam = "judge"  -> "analysis_only"
                    [] seam = "target" -> "execution_boundary"
                    [] seam = "memory" -> "memory_write"
                    [] OTHER           -> "unknown"

Protected(preset) == CASE preset = "monitor_only" -> {}
                       [] preset = "block_execution_boundary" -> {"execution_boundary"}
                       [] preset = "block_memory_and_outbound" ->
                             {"execution_boundary", "memory_write"}
                       [] preset = "strict_fail_closed" ->
                             {"execution_boundary", "memory_write", "unknown"}

\* evaluate_canary_containment: is the crossing blocked?
Blocked(req, preset) == req.tagged /\ Boundary(req.seam) \in Protected(preset)

\* Mutant of HelperBlocks: the helper leaves an execution boundary to the target.
HelperBlocksOthers(req) == /\ req.door # "target" /\ req.labelled /\ Blocked(req, req.preset)
                           /\ req.seam # "target"

\* _with_canary_decision: the helper decides, under the preset of the metadata.
HelperBlocks(req) == req.door # "target" /\ req.labelled /\ Blocked(req, req.preset)

\* apply_canary_containment: the target decides itself when nobody did yet.
TargetBlocks(req) == /\ req.door = "target" /\ req.labelled
                     /\ Blocked(req, "block_memory_and_outbound")

\* RedThreadTarget.send before the first provider call
GuardFails(req) == \/ TargetBlocks(req)
                   \/ (req.labelled /\ req.intercepted)
                   \/ ~req.capable

\* build_execution_record; a record carries the decision only when one was
\* attached to the metadata, and a decision that blocks never is.
Rec(s, req, success) == [sender |-> s, seam |-> req.seam, success |-> success,
                         tagged |-> /\ req.tagged /\ req.decision # "deny"
                                    /\ ~TargetBlocks(req)]

Record(s, req, success) ==
    records' = IF req.labelled THEN Append(records, Rec(s, req, success)) ELSE records

SendInit == /\ sends = [s \in Senders |-> Idle]
            /\ records = <<>>

Put(s, at, req, calls, delivered) ==
    sends' = [sends EXCEPT ![s] = [at |-> at, req |-> req, calls |-> calls,
                                   delivered |-> delivered]]

Settle(s, at) == sends' = [sends EXCEPT ![s].at = at]

-----------------------------------------------------------------------------
\* The adapter is locked, or the helper blocks: raised before target.send, so
\* there is no record.
StoppedEarly(s, req) ==
    /\ \/ req.decision = "locked"
       \/ req.decision # "deny" /\ HelperBlocks(req)
    /\ Put(s, "failed", req, 0, 0)
    /\ UNCHANGED records

\* ControlledLiveAdapter: the refused action is recorded as a failed send, when
\* the target is one that records (hasattr _record_execution).
Refused(s, req) ==
    /\ req.decision = "deny"
    /\ Put(s, "failed", req, 0, 0)
    /\ IF req.legacy THEN UNCHANGED records ELSE Record(s, req, FALSE)

Passes(req) == req.decision \in {"none", "allow"} /\ ~HelperBlocks(req)

\* A guard of RedThreadTarget.send raises inside its try: a failed record.
Guarded(s, req) ==
    /\ Passes(req) /\ ~req.legacy /\ GuardFails(req)
    /\ Put(s, "failed", req, 0, 0)
    /\ Record(s, req, FALSE)

\* The first provider call.  A target whose send() does not know the metadata
\* gets a second, plain call; the record of it is written before that call.
Call(s, req) ==
    /\ Passes(req)
    /\ Put(s, "calling", req, 1, 0)
    /\ IF req.legacy THEN Record(s, req, TRUE)
       ELSE /\ ~GuardFails(req)
            /\ UNCHANGED records

\* send_with_execution_metadata up to its first await
Issue(s) ==
    /\ sends[s].at = "idle"
    /\ \E req \in Requests :
          \/ StoppedEarly(s, req) \/ Refused(s, req)
          \/ Guarded(s, req) \/ Call(s, req)

InCall == {"calling", "waiting"}

\* The provider gets the request (or loses it: the step does not happen).
Deliver(s) ==
    /\ sends[s].at = "calling"
    /\ sends' = [sends EXCEPT ![s].at = "waiting", ![s].delivered = @ + 1]
    /\ UNCHANGED records

\* It answers.
Answer(s) ==
    LET x == sends[s] IN
    /\ x.at = "waiting"
    /\ Settle(s, "ok")
    /\ IF x.req.legacy THEN UNCHANGED records ELSE Record(s, x.req, TRUE)

\* The call raises something transient, whether or not the provider got it.
Transient(s) ==
    LET x == sends[s] IN
    /\ x.at \in InCall /\ ~x.req.legacy /\ x.calls <= MaxRetries
    /\ Settle(s, "backoff")
    /\ UNCHANGED records

\* Mutant of Raises: only a send that succeeds is recorded.
RaisesUnrecorded(s) == /\ sends[s].at \in InCall
                       /\ Settle(s, "failed")
                       /\ UNCHANGED records

\* It raises something else, or the last attempt raises.
Raises(s) ==
    LET x == sends[s] IN
    /\ x.at \in InCall
    /\ Settle(s, "failed")
    /\ IF x.req.legacy THEN UNCHANGED records ELSE Record(s, x.req, FALSE)

\* asyncio.sleep returned: the next attempt.
Retry(s) ==
    /\ sends[s].at = "backoff"
    /\ sends' = [sends EXCEPT ![s].at = "calling", ![s].calls = @ + 1]
    /\ UNCHANGED records

\* The caller is cancelled.  CancelledError is no Exception: neither the retry
\* loop nor the record sees it.
Cancel(s) ==
    /\ sends[s].at \in InCall \cup {"backoff"}
    /\ Settle(s, "cancelled")
    /\ UNCHANGED records

SendStep(s) == \/ Deliver(s) \/ Answer(s) \/ Transient(s) \/ Raises(s) \/ Retry(s)

-----------------------------------------------------------------------------
SendTypeOK ==
    /\ sends \in [Senders -> [at : {"idle", "calling", "waiting", "backoff", "ok", "failed", "cancelled"},
                              req : Requests \cup {NoRequest},
                              calls : 0..MaxRetries + 1, delivered : 0..MaxRetries + 1]]
    /\ records \in Seq([sender : Senders, seam : Seams, success : BOOLEAN, tagged : BOOLEAN])
=============================================================================

--------------------------- MODULE CampaignProofs ---------------------------
(***************************************************************************)
(* What a campaign promises for every number of personas, retries and      *)
(* cases, every policy and every set of requests: what it calls promotable *)
(* was replayed as a whole, tagged text stays inside, and the report says  *)
(* that a worker failed when one did.                                      *)
(***************************************************************************)
EXTENDS CampaignMC, FiniteSetTheorems, FunctionTheorems, TLAPS

-----------------------------------------------------------------------------
(***************************************************************************)
(* The defense worker                                                      *)
(***************************************************************************)
CaseType == [kind : {"exploit", "benign"}, sent : BOOLEAN, passed : BOOLEAN, refused : BOOLEAN]

DefenseRecord ==
    [step : {"off", "architect", "replay", "validated", "done"}, dry : BOOLEAN,
     clause : BOOLEAN, cases : Seq(CaseType),
     mode : {"none", "sealed_dry_run_replay", "live_replay", "live_validation_error"},
     validated : BOOLEAN, indexed : BOOLEAN, error : BOOLEAN]

\* Cases that a live replay ran: the suite's, in its order; who passed was sent.
LiveCases(cases) ==
    /\ Len(cases) <= Len(Suite)
    /\ \A i \in 1..Len(cases) :
          /\ cases[i].kind = Suite[i]
          /\ cases[i].passed => cases[i].sent /\ ~cases[i].refused

Consistent(d) ==
    /\ d \in DefenseRecord
    /\ d.step = "architect" => d.cases = <<>>
    /\ d.step = "replay" \/ d.mode = "live_replay" => LiveCases(d.cases)
    /\ d.step \in {"architect", "replay"} => d.mode = "none"
    /\ d.mode = "live_replay" => Len(d.cases) = Len(Suite)

DefenseInv == Consistent(defense)

LEMMA SuiteType ==
  ASSUME SuiteAssumption
  PROVE  /\ Len(Suite) = ExploitCases + BenignCases /\ Len(Suite) \in Nat
         /\ DOMAIN Suite = 1..Len(Suite)
         /\ \A i \in 1..Len(Suite) : Suite[i] \in {"exploit", "benign"}
<1>1. Suite \in Seq({"exploit", "benign"}) /\ DOMAIN Suite = 1..ExploitCases + BenignCases
  BY DEF SuiteAssumption, Suite
<1> QED  BY <1>1 DEF SuiteAssumption

LEMMA EmptyCases == <<>> \in Seq(CaseType)
  OBVIOUS

LEMMA NoDefenseInv == Consistent(NoDefense)
  BY EmptyCases DEF Consistent, DefenseRecord, NoDefense

LEMMA StartDefenseInv ==
  ASSUME NEW dry \in BOOLEAN, StartDefense(dry)
  PROVE  DefenseInv'
<1>1. defense' = [step |-> "architect", dry |-> dry, clause |-> FALSE, cases |-> <<>>,
                  mode |-> "none", validated |-> FALSE, indexed |-> FALSE, error |-> FALSE]
  BY DEF StartDefense, NoDefense
<1> QED  BY <1>1, EmptyCases DEF DefenseInv, Consistent, DefenseRecord

\* An exception clears the cases.
LEMMA DefenseRaisesInv == ASSUME DefenseInv, DefenseRaises PROVE DefenseInv'
<1>1. defense' \in DefenseRecord
  BY EmptyCases DEF DefenseRaises, DefenseInv, Consistent, DefenseRecord
<1>2. defense'.step = "done" /\ defense'.mode = "none"
  BY DEF DefenseRaises, DefenseInv, Consistent, DefenseRecord
<1> QED  BY <1>1, <1>2 DEF DefenseInv, Consistent

LEMMA ArchitectInv == ASSUME SuiteAssumption, DefenseInv, Architect PROVE DefenseInv'
<1>1. CASE defense.dry
  <2>1. SealedCases \in Seq(CaseType)
    <3>1. SealedCases = [i \in 1..Len(Suite) |-> Case(Suite[i], FALSE, TRUE, FALSE)]
      BY SuiteType DEF SealedCases
    <3>2. \A i \in 1..Len(Suite) : Case(Suite[i], FALSE, TRUE, FALSE) \in CaseType
      BY SuiteType DEF Case, CaseType
    <3>3. Len(Suite) \in Nat  BY SuiteType
    <3> DEFINE n == Len(Suite)
               s == SealedCases
    <3>4. n \in Nat /\ DOMAIN s = 1..n /\ s = [i \in 1..n |-> s[i]]
          /\ \A i \in 1..n : s[i] \in CaseType
      BY <3>1, <3>2, <3>3
    <3> HIDE DEF CaseType, s, n
    <3>5. s \in Seq(CaseType)  BY <3>4
    <3> QED  BY <3>5 DEF s
  <2>2. defense' = [defense EXCEPT !.step = "validated", !.clause = TRUE,
                                   !.mode = "sealed_dry_run_replay", !.cases = SealedCases]
    BY <1>1 DEF Architect
  <2>3. defense' \in DefenseRecord
    BY <2>1, <2>2 DEF DefenseInv, Consistent, DefenseRecord
  <2>4. defense'.step = "validated" /\ defense'.mode = "sealed_dry_run_replay"
    BY <2>2 DEF DefenseInv, Consistent, DefenseRecord
  <2> QED  BY <2>3, <2>4 DEF DefenseInv, Consistent
<1>2. CASE ~defense.dry
  <2>1. ASSUME NEW clause \in BOOLEAN,
               defense' = [defense EXCEPT !.step = "replay", !.clause = clause]
        PROVE  DefenseInv'
    <3>1. defense' \in DefenseRecord
      BY <2>1 DEF DefenseInv, Consistent, DefenseRecord
    <3>2. defense'.step = "replay" /\ defense'.mode = defense.mode
          /\ defense'.cases = defense.cases
      BY <2>1 DEF DefenseInv, Consistent, DefenseRecord
    <3>3. defense.mode = "none" /\ defense.cases = <<>>
      BY DEF Architect, DefenseInv, Consistent
    <3>4. LiveCases(<<>>)
      BY SuiteType DEF LiveCases
    <3> QED  BY <3>1, <3>2, <3>3, <3>4 DEF DefenseInv, Consistent
  <2> QED  BY <1>2, <2>1, DefenseRaisesInv DEF Architect
<1> QED  BY <1>1, <1>2

\* The next case is the suite's next, and no outcome of it is a pass unsent.
LEMMA ReplayCaseInv == ASSUME SuiteAssumption, DefenseInv, ReplayCase PROVE DefenseInv'
<1> DEFINE kind == Suite[Len(defense.cases) + 1]
           Outcome(c) == c.kind = kind /\ (c.passed => c.sent /\ ~c.refused)
<1>0. defense \in DefenseRecord /\ defense.cases \in Seq(CaseType)
  BY DEF DefenseInv, Consistent, DefenseRecord
<1>1. Len(defense.cases) \in Nat /\ Len(defense.cases) < Len(Suite)
  BY <1>0 DEF ReplayCase
<1>2. kind \in {"exploit", "benign"}  BY <1>1, SuiteType
<1> HIDE DEF kind
<1>3. \A sent, passed, refused \in BOOLEAN :
        LET c == Case(kind, sent, passed, refused) IN
        c \in CaseType /\ c.kind = kind /\ c.passed = passed /\ c.sent = sent
        /\ c.refused = refused
  BY <1>2 DEF Case, CaseType
<1>4. \E sent, passed, refused \in BOOLEAN :
        /\ passed => sent /\ ~refused
        /\ defense' = [defense EXCEPT !.cases = Append(@, Case(kind, sent, passed, refused))]
  <2>1. \/ defense' = [defense EXCEPT !.cases = Append(@, Case(kind, FALSE, FALSE, FALSE))]
        \/ defense' = [defense EXCEPT !.cases = Append(@, Case(kind, TRUE, TRUE, FALSE))]
        \/ defense' = [defense EXCEPT !.cases = Append(@, Case(kind, TRUE, FALSE, FALSE))]
        \/ defense' = [defense EXCEPT !.cases = Append(@, Case(kind, TRUE, FALSE, TRUE))]
    BY DEF ReplayCase, kind
  <2> QED  BY <2>1
<1>5. PICK c \in CaseType : /\ defense' = [defense EXCEPT !.cases = Append(@, c)]
                            /\ Outcome(c)
  <2>1. PICK sent, passed, refused \in BOOLEAN :
          /\ passed => sent /\ ~refused
          /\ defense' = [defense EXCEPT !.cases = Append(@, Case(kind, sent, passed, refused))]
    BY <1>4
  <2> DEFINE new == Case(kind, sent, passed, refused)
  <2>2. new \in CaseType /\ new.kind = kind /\ (new.passed => new.sent /\ ~new.refused)
    BY <1>3, <2>1
  <2>3. defense' = [defense EXCEPT !.cases = Append(@, new)]  BY <2>1
  <2> HIDE DEF new
  <2> QED  BY <2>2, <2>3
<1> HIDE DEF CaseType
<1>6. defense.step = "replay" /\ LiveCases(defense.cases) /\ defense.mode = "none"
  BY DEF ReplayCase, DefenseInv, Consistent
<1>7. LiveCases(Append(defense.cases, c))
  <2> DEFINE old == defense.cases
             new == Append(old, c)
  <2>1. /\ Len(new) = Len(old) + 1 /\ new[Len(old) + 1] = c
        /\ \A i \in 1..Len(old) : new[i] = old[i]
    BY <1>0
  <2>2. Len(Suite) \in Nat  BY SuiteType
  <2>3. c.kind = Suite[Len(old) + 1] /\ (c.passed => c.sent /\ ~c.refused)
    BY <1>5 DEF kind
  <2>4. \A i \in 1..Len(old) : /\ old[i].kind = Suite[i]
                               /\ old[i].passed => old[i].sent /\ ~old[i].refused
    BY <1>6 DEF LiveCases
  <2> HIDE DEF old, new
  <2>5. Len(old) \in Nat /\ Len(old) < Len(Suite)  BY <1>1 DEF old
  <2>6. Len(new) <= Len(Suite)  BY <2>1, <2>2, <2>5
  <2>7. ASSUME NEW i \in 1..Len(new)
        PROVE  new[i].kind = Suite[i] /\ (new[i].passed => new[i].sent /\ ~new[i].refused)
    <3>1. i = Len(old) + 1 \/ i \in 1..Len(old)  BY <2>1, <2>5
    <3>2. CASE i = Len(old) + 1  BY <3>2, <2>1, <2>3
    <3>3. CASE i \in 1..Len(old)
      <4>1. new[i] = old[i]  BY <3>3, <2>1
      <4> QED  BY <3>3, <4>1, <2>4
    <3> QED  BY <3>1, <3>2, <3>3
  <2> QED  BY <2>6, <2>7 DEF LiveCases, new, old
<1>8. defense'.cases = Append(defense.cases, c) /\ defense'.step = "replay"
      /\ defense'.mode = "none"
  BY <1>0, <1>5, <1>6 DEF DefenseRecord
<1>9. defense' \in DefenseRecord
  <2>1. Append(defense.cases, c) \in Seq(CaseType)  BY <1>0
  <2> QED  BY <1>0, <1>5, <2>1 DEF DefenseRecord
<1> QED  BY <1>7, <1>8, <1>9 DEF DefenseInv, Consistent

LEMMA ReplayEndsInv ==
  ASSUME SuiteAssumption, DefenseInv, ReplayRaises \/ ReplayDone PROVE DefenseInv'
<1>1. CASE ReplayRaises
  <2>1. defense' \in DefenseRecord
    BY <1>1, EmptyCases DEF ReplayRaises, DefenseInv, Consistent, DefenseRecord
  <2>2. defense'.step = "validated" /\ defense'.mode = "live_validation_error"
    BY <1>1 DEF ReplayRaises, DefenseInv, Consistent, DefenseRecord
  <2> QED  BY <2>1, <2>2 DEF DefenseInv, Consistent
<1>2. CASE ReplayDone
  <2>1. defense' \in DefenseRecord
    BY <1>2 DEF ReplayDone, DefenseInv, Consistent, DefenseRecord
  <2>2. defense'.step = "validated" /\ defense'.cases = defense.cases
    BY <1>2 DEF ReplayDone, DefenseInv, Consistent, DefenseRecord
  <2>3. LiveCases(defense.cases) /\ Len(defense.cases) = Len(Suite)
    BY <1>2 DEF ReplayDone, DefenseInv, Consistent
  <2> QED  BY <2>1, <2>2, <2>3 DEF DefenseInv, Consistent
<1> QED  BY <1>1, <1>2

LEMMA IndexInv == ASSUME DefenseInv, Index PROVE DefenseInv'
<1>1. ASSUME NEW written \in BOOLEAN,
             defense' = [defense EXCEPT !.step = "done", !.validated = TRUE,
                                        !.indexed = written]
      PROVE  DefenseInv'
  <2>1. defense' \in DefenseRecord
    BY <1>1 DEF DefenseInv, Consistent, DefenseRecord
  <2>2. defense'.step = "done" /\ defense'.cases = defense.cases
        /\ defense'.mode = defense.mode
    BY <1>1 DEF DefenseInv, Consistent, DefenseRecord
  <2> QED  BY <2>1, <2>2 DEF DefenseInv, Consistent
<1>2. CASE defense' = [defense EXCEPT !.step = "done"]
  <2>1. defense' \in DefenseRecord
    BY <1>2 DEF DefenseInv, Consistent, DefenseRecord
  <2>2. defense'.step = "done" /\ defense'.cases = defense.cases
        /\ defense'.mode = defense.mode
    BY <1>2 DEF DefenseInv, Consistent, DefenseRecord
  <2> QED  BY <2>1, <2>2 DEF DefenseInv, Consistent
<1> QED  BY <1>1, <1>2, DefenseRaisesInv DEF Index

LEMMA DefenseStepInv == ASSUME SuiteAssumption, DefenseInv, DefenseStep PROVE DefenseInv'
  BY ArchitectInv, ReplayCaseInv, ReplayEndsInv, IndexInv DEF DefenseStep

\* The evidence mode is the live one, and no case failed: so all of them ran.
LEMMA GateNeedsTheSuite ==
  ASSUME SuiteAssumption, DefenseInv PROVE PromotableWasReplayed
<1> SUFFICES ASSUME UtilityGate(defense)
             PROVE  /\ Len(defense.cases) = Len(Suite)
                    /\ \A i \in DOMAIN Suite :
                          /\ defense.cases[i].kind = Suite[i] /\ defense.cases[i].sent
                          /\ defense.cases[i].passed /\ ~defense.cases[i].refused
  BY DEF PromotableWasReplayed
<1>1. defense.mode = "live_replay"
  <2>1. defense.mode # "live_replay" => "evidence_mode_not_promotable" \in FailedChecks(defense)
    BY DEF FailedChecks
  <2> QED  BY <2>1 DEF UtilityGate
<1>2. \A i \in DOMAIN defense.cases : defense.cases[i].passed
  <2>1. defense.cases # <<>> /\ (\E i \in DOMAIN defense.cases : ~defense.cases[i].passed)
          => "replay_case_failures_present" \in FailedChecks(defense)
    BY DEF FailedChecks
  <2>2. defense.cases = <<>> => "missing_replay_case_evidence" \in FailedChecks(defense)
    BY DEF FailedChecks
  <2> QED  BY <2>1, <2>2 DEF UtilityGate
<1>3. LiveCases(defense.cases) /\ Len(defense.cases) = Len(Suite)
  BY <1>1 DEF DefenseInv, Consistent
<1>4. DOMAIN defense.cases = 1..Len(defense.cases)
  BY DEF DefenseInv, Consistent, DefenseRecord
<1> QED  BY <1>2, <1>3, <1>4, SuiteType DEF LiveCases

-----------------------------------------------------------------------------
(***************************************************************************)
(* Sends                                                                   *)
(***************************************************************************)
SendState == [at : {"idle", "calling", "waiting", "backoff", "ok", "failed", "cancelled"},
              req : Request, calls : Nat, delivered : Nat]

\* The boundary policy that was in force lets the message out.
Outbound(req) ==
    req.labelled => ~Blocked(req, IF req.door = "target" THEN "block_memory_and_outbound"
                                  ELSE req.preset)

Contained(x) ==
    /\ x \in SendState
    /\ x.at \in {"calling", "waiting", "backoff"} \/ x.delivered > 0 => Outbound(x.req)

SendsInv == sends \in [Senders -> SendState] /\ \A s \in Senders : Contained(sends[s])

LEMMA NoRequestType == NoRequest \in Request
  BY DEF NoRequest, Request, Doors, Seams, Presets

LEMMA IdleSend == Contained(Idle)
  BY NoRequestType DEF Contained, Idle, SendState

LEMMA IdleSends == ASSUME sends' = [s \in Senders |-> Idle] PROVE SendsInv'
<1>1. Idle \in SendState  BY IdleSend DEF Contained
<1> HIDE DEF Idle
<1> QED  BY <1>1, IdleSend DEF SendsInv

\* One send moves, the others stay.
LEMMA OneSend ==
  ASSUME SendsInv, NEW s \in Senders, NEW x, Contained(x), sends' = [sends EXCEPT ![s] = x]
  PROVE  SendsInv'
<1>1. x \in SendState  BY DEF Contained
<1> QED  BY <1>1 DEF SendsInv

LEMMA PutInv ==
  ASSUME SendsInv, NEW s \in Senders, NEW at \in {"calling", "failed"}, NEW req \in Request,
         NEW calls \in Nat, at = "calling" => Outbound(req), Put(s, at, req, calls, 0)
  PROVE  SendsInv'
<1> DEFINE x == [at |-> at, req |-> req, calls |-> calls, delivered |-> 0]
<1>1. Contained(x)  BY DEF Contained, SendState
<1>2. sends' = [sends EXCEPT ![s] = x]  BY DEF Put
<1> HIDE DEF x
<1> QED  BY <1>1, <1>2, OneSend

\* Nothing passes both the helper and the target when the policy blocks it.
LEMMA IssueInv ==
  ASSUME SendAssumption, SendsInv, NEW s \in Senders, Issue(s) PROVE SendsInv'
<1>1. PICK req \in Requests : \/ StoppedEarly(s, req) \/ Refused(s, req)
                              \/ Guarded(s, req) \/ Call(s, req)
  BY DEF Issue
<1>2. req \in Request /\ (req.legacy => req.door # "target")
  BY DEF SendAssumption
<1>3. CASE StoppedEarly(s, req) \/ Refused(s, req) \/ Guarded(s, req)
  <2>1. Put(s, "failed", req, 0, 0)
    BY <1>3 DEF StoppedEarly, Refused, Guarded
  <2> QED  BY <1>2, <2>1, PutInv
<1>4. CASE Call(s, req)
  <2>1. Outbound(req)
    BY <1>2, <1>4 DEF Call, Passes, HelperBlocks, GuardFails, TargetBlocks, Outbound
  <2>2. Put(s, "calling", req, 1, 0)  BY <1>4 DEF Call
  <2> QED  BY <1>2, <2>1, <2>2, PutInv
<1> QED  BY <1>1, <1>3, <1>4

\* The retry loop sends again what passed, and nothing else.
LEMMA SendStepInv ==
  ASSUME SendsInv, NEW s \in Senders, SendStep(s) \/ Cancel(s) PROVE SendsInv'
<1>0. sends[s] \in SendState /\ Contained(sends[s])  BY DEF SendsInv
<1>1. ASSUME NEW at \in {"backoff", "ok", "failed", "cancelled"}, Settle(s, at),
             sends[s].at \in {"calling", "waiting", "backoff"}
      PROVE  SendsInv'
  <2> DEFINE x == [sends[s] EXCEPT !.at = at]
  <2>1. x \in SendState /\ x.req = sends[s].req  BY <1>0 DEF SendState
  <2>2. Outbound(x.req)  BY <1>0, <1>1, <2>1 DEF Contained
  <2>3. sends' = [sends EXCEPT ![s] = x]  BY <1>1 DEF Settle
  <2> HIDE DEF x
  <2> QED  BY <2>1, <2>2, <2>3, OneSend DEF Contained
<1>2. CASE Deliver(s)
  <2> DEFINE x == [at |-> "waiting", req |-> sends[s].req, calls |-> sends[s].calls,
                  delivered |-> sends[s].delivered + 1]
  <2>1. x \in SendState /\ x.req = sends[s].req  BY <1>0 DEF SendState
  <2>2. Outbound(x.req)  BY <1>0, <1>2, <2>1 DEF Contained, Deliver
  <2>3. sends' = [sends EXCEPT ![s] = x]
    <3>1. sends = [t \in Senders |-> sends[t]]  BY DEF SendsInv
    <3>2. DOMAIN sends' = Senders /\ sends' = [t \in Senders |-> sends'[t]]
      BY <1>2, <3>1 DEF Deliver
    <3>3. \A t \in Senders : t # s => sends'[t] = sends[t]
      BY <1>2, <3>1 DEF Deliver
    <3>4. sends'[s] = x
      BY <1>2, <1>0, <3>1 DEF Deliver, SendState
    <3> HIDE DEF x
    <3> QED  BY <3>1, <3>2, <3>3, <3>4
  <2> HIDE DEF x
  <2> QED  BY <2>1, <2>2, <2>3, OneSend DEF Contained
<1>3. CASE Retry(s)
  <2> DEFINE x == [at |-> "calling", req |-> sends[s].req, calls |-> sends[s].calls + 1,
                  delivered |-> sends[s].delivered]
  <2>1. x \in SendState /\ x.req = sends[s].req  BY <1>0 DEF SendState
  <2>2. Outbound(x.req)  BY <1>0, <1>3, <2>1 DEF Contained, Retry
  <2>3. sends' = [sends EXCEPT ![s] = x]
    <3>1. sends = [t \in Senders |-> sends[t]]  BY DEF SendsInv
    <3>2. DOMAIN sends' = Senders /\ sends' = [t \in Senders |-> sends'[t]]
      BY <1>3, <3>1 DEF Retry
    <3>3. \A t \in Senders : t # s => sends'[t] = sends[t]
      BY <1>3, <3>1 DEF Retry
    <3>4. sends'[s] = x
      BY <1>3, <1>0, <3>1 DEF Retry, SendState
    <3> HIDE DEF x
    <3> QED  BY <3>1, <3>2, <3>3, <3>4
  <2> HIDE DEF x
  <2> QED  BY <2>1, <2>2, <2>3, OneSend DEF Contained
<1>4. CASE Answer(s) \/ Transient(s) \/ Raises(s) \/ Cancel(s)
  BY <1>1, <1>4 DEF Answer, Transient, Raises, Cancel, InCall
<1> QED  BY <1>2, <1>3, <1>4 DEF SendStep

-----------------------------------------------------------------------------
(***************************************************************************)
(* The steps of a campaign                                                 *)
(***************************************************************************)
\* The campaign's settings are a record, and its dry flag a Boolean.
CampShape ==
    /\ camp = [stage |-> camp.stage, run |-> camp.run, dry |-> camp.dry,
               chain |-> camp.chain, prompt |-> camp.prompt, at |-> camp.at]
    /\ camp.dry \in BOOLEAN

LEMMA NextCampShape == ASSUME CampShape, [Next]_vars PROVE CampShape'
<1>1. CASE camp' = camp
  BY <1>1 DEF CampShape
<1>2. CASE Start
  BY <1>2 DEF Start, CampShape
<1>3. ASSUME NEW stage, camp' = [camp EXCEPT !.stage = stage] PROVE CampShape'
  BY <1>3 DEF CampShape
<1>4. ASSUME NEW at, camp' = [camp EXCEPT !.at = at] PROVE CampShape'
  BY <1>4 DEF CampShape
<1>5. ASSUME NEW stage, NEW at, camp' = [camp EXCEPT !.stage = stage, !.at = at] PROVE CampShape'
  BY <1>5 DEF CampShape
<1>6. CASE FanOut \/ CampaignFails \/ Finalize \/ TelemetryFails \/ Complete
  BY <1>3, <1>6 DEF FanOut, CampaignFails, Finalize, TelemetryFails, Complete
<1>7. CASE Collect
  BY <1>5, <1>7 DEF Collect
<1>8. CASE Route \/ Defended
  <2>1. CASE Route  BY <2>1 DEF Route, CampShape
  <2>2. CASE Defended  BY <2>2 DEF Defended, CampShape
  <2> QED  BY <1>8, <2>1, <2>2
<1>9. CASE JudgeSkips \/ JudgeRules \/ JudgeRaises
  BY <1>4, <1>9 DEF JudgeSkips, JudgeRules, JudgeRaises, Pass
<1>10. ASSUME NEW p \in Personas, WorkerStep(p) \/ WorkerTimeout(p) PROVE camp' = camp
  BY <1>10 DEF WorkerStep, WorkerTimeout, Provider, Send, WorkerDone, WorkerRaises, Leave,
               campVars
<1>11. CASE Defend \/ DefenseRuns \/ Activate \/ UNCHANGED vars
  BY <1>1, <1>11 DEF Defend, DefenseRuns, Activate, vars, campVars
<1> QED  BY <1>1, <1>2, <1>6, <1>7, <1>8, <1>9, <1>10, <1>11 DEF Next, Node

LEMMA InitPartsInv == ASSUME SuiteAssumption, Init PROVE DefenseInv /\ SendsInv
<1>1. DefenseInv  BY NoDefenseInv DEF Init, DefenseInit, DefenseInv
<1>2. Idle \in SendState  BY IdleSend DEF Contained
<1> HIDE DEF Idle
<1>3. SendsInv  BY <1>2, IdleSend DEF Init, SendInit, SendsInv
<1> QED  BY <1>1, <1>3

\* The defense worker moves alone.
LEMMA NextDefenseInv ==
  ASSUME SuiteAssumption, DefenseInv, CampShape, [Next]_vars PROVE DefenseInv'
<1>1. CASE defense' = defense
  BY <1>1 DEF DefenseInv
<1>2. CASE Start \/ Defended
  BY <1>2, NoDefenseInv DEF Start, Defended, DefenseInv
<1>3. CASE Defend
  <2>1. camp.dry \in BOOLEAN /\ StartDefense(camp.dry)  BY <1>3 DEF CampShape, Defend
  <2> QED  BY <2>1, StartDefenseInv
<1>4. CASE DefenseRuns
  BY <1>4, DefenseStepInv DEF DefenseRuns
<1>5. ASSUME NEW p \in Personas, WorkerStep(p) \/ WorkerTimeout(p) PROVE defense' = defense
  BY <1>5 DEF WorkerStep, WorkerTimeout, Provider, Send, WorkerDone, WorkerRaises, Leave
<1>6. CASE FanOut \/ Collect \/ JudgeSkips \/ JudgeRules \/ Route \/ Finalize \/ Complete
           \/ CampaignFails \/ JudgeRaises \/ TelemetryFails \/ Activate \/ UNCHANGED vars
  BY <1>1, <1>6 DEF FanOut, Collect, JudgeSkips, JudgeRules, Route, Finalize, Complete,
     CampaignFails, JudgeRaises, TelemetryFails, Activate, Pass, vars
<1> QED  BY <1>1, <1>2, <1>3, <1>4, <1>5, <1>6 DEF Next, Node

LEMMA NextSendsInv ==
  ASSUME SendAssumption, SendsInv, [Next]_vars PROVE SendsInv'
<1>1. CASE sends' = sends
  BY <1>1 DEF SendsInv
<1>2. CASE Start \/ Collect
  BY <1>2, IdleSends DEF Start, Collect
<1>3. ASSUME NEW p \in Personas, WorkerStep(p) \/ WorkerTimeout(p) PROVE SendsInv'
  <2>1. p \in Senders  BY DEF Personas
  <2>2. CASE Provider(p)  BY <2>1, <2>2, SendStepInv DEF Provider
  <2>3. CASE Send(p)  BY <2>1, <2>3, IssueInv DEF Send
  <2>4. CASE WorkerDone(p) \/ WorkerRaises(p)
    BY <1>1, <2>4 DEF WorkerDone, WorkerRaises
  <2>5. CASE WorkerTimeout(p)
    BY <1>1, <2>1, <2>5, SendStepInv DEF WorkerTimeout
  <2> QED  BY <1>3, <2>2, <2>3, <2>4, <2>5 DEF WorkerStep
<1>4. CASE FanOut \/ JudgeSkips \/ JudgeRules \/ Route \/ Defend \/ DefenseRuns \/ Defended
           \/ Finalize \/ Complete \/ CampaignFails \/ JudgeRaises \/ TelemetryFails
           \/ Activate \/ UNCHANGED vars
  BY <1>1, <1>4 DEF FanOut, JudgeSkips, JudgeRules, Route, Defend, DefenseRuns, Defended,
     Finalize, Complete, CampaignFails, JudgeRaises, TelemetryFails, Activate, Pass, sendVars,
     vars
<1> QED  BY <1>2, <1>3, <1>4 DEF Next, Node

\* evaluate_defense_record: what the gate accepts was replayed, sent and passed, case
\* by case, over the whole suite and under any policies.
THEOREM GateSawTheSuite == Spec => []PromotableWasReplayed
<1>1. Init => DefenseInv /\ CampShape
  BY SuiteAssumption, InitPartsInv DEF Init, CampInit, CampShape
<1>2. DefenseInv /\ CampShape /\ [Next]_vars => (DefenseInv /\ CampShape)'
  BY SuiteAssumption, NextDefenseInv, NextCampShape
<1>3. DefenseInv => PromotableWasReplayed  BY SuiteAssumption, GateNeedsTheSuite
<1> QED  BY <1>1, <1>2, <1>3, PTL DEF Spec

\* canary_containment.py, send_with_execution_metadata: no labelled message that the
\* policy in force blocks reaches a provider, at any attempt of any sender.
THEOREM TaggedTextStays == Spec => []TaggedStaysInside
<1>1. Init => SendsInv  BY SuiteAssumption, InitPartsInv
<1>2. SendsInv /\ [Next]_vars => SendsInv'  BY SendAssumption, NextSendsInv
<1>3. SendsInv => TaggedStaysInside
  BY DEF SendsInv, Contained, Outbound, TaggedStaysInside
<1> QED  BY <1>1, <1>2, <1>3, PTL DEF Spec

-----------------------------------------------------------------------------
(***************************************************************************)
(* The report                                                              *)
(***************************************************************************)
OutputType == [persona : Personas, there : BOOLEAN,
               outcome : {"none", "skipped", "played", "error"}, jailbreak : BOOLEAN,
               turns : BOOLEAN, error : {"none", "text", "empty"}]

\* The counters and the report are records; the failures are counts.
CountShape ==
    /\ results \in Seq(OutputType)
    /\ tally = [attackTotal |-> tally.attackTotal, attackFailures |-> tally.attackFailures,
                judgeTotal |-> tally.judgeTotal, judgeFailures |-> tally.judgeFailures,
                defenseTotal |-> tally.defenseTotal,
                defenseFailures |-> tally.defenseFailures,
                validated |-> tally.validated, errors |-> tally.errors]
    /\ report = [there |-> report.there, results |-> report.results,
                 degraded |-> report.degraded, errors |-> report.errors,
                 validated |-> report.validated, records |-> report.records,
                 failedRecords |-> report.failedRecords, tagged |-> report.tagged,
                 contained |-> report.contained]
    /\ tally.attackFailures \in Nat /\ tally.judgeFailures \in Nat
    /\ tally.defenseFailures \in Nat

SomeFailed == \E i \in 1..Len(results) : Failed(results[i])

Failures == tally.attackFailures + tally.judgeFailures + tally.defenseFailures

\* Where the evidence of a failure is: in the outputs until they are collected,
\* then in the counters, then in the report.
EvidenceOfFailure ==
    /\ camp.stage = "personas" => results = <<>> /\ broken = {} /\ Failures = 0
    /\ camp.stage = "attacking" => Failures = 0 /\ (broken # {} <=> SomeFailed)
    /\ camp.stage \in {"judging", "defending", "finalize"} => (broken # {} <=> Failures > 0)
    /\ report.there => /\ camp.stage \in {"telemetry", "done", "failed", "idle"}
                       /\ report.degraded <=> broken # {}

DegradedInv == DefenseInv /\ CampShape /\ CountShape /\ EvidenceOfFailure

LEMMA InitDegraded == ASSUME SuiteAssumption, Init PROVE DegradedInv
<1>1. DefenseInv /\ CampShape
  BY InitPartsInv DEF Init, CampInit, CampShape
<1>2. CountShape
  BY DEF Init, CampInit, CountShape, NoTally, NoReport
<1>3. EvidenceOfFailure
  BY DEF Init, CampInit, EvidenceOfFailure, NoReport
<1> QED  BY <1>1, <1>2, <1>3 DEF DegradedInv

\* A campaign starts with nothing to show.
LEMMA StartDegraded ==
  ASSUME Start PROVE CountShape' /\ EvidenceOfFailure'
<1>1. CountShape'
  BY DEF Start, CountShape, NoTally, NoReport
<1>2. EvidenceOfFailure'
  BY DEF Start, EvidenceOfFailure, NoTally, NoReport, Failures
<1> QED  BY <1>1, <1>2

\* A worker leaves with a failed output when, and only when, it broke.
LEMMA LeaveDegraded ==
  ASSUME DegradedInv, NEW p \in Personas, NEW out \in OutputType, Running(p), Leave(p, out),
         \/ Failed(out) /\ broken' = broken \cup {<<"attack", p>>}
         \/ ~Failed(out) /\ broken' = broken
  PROVE  CountShape' /\ EvidenceOfFailure'
<1>0. results \in Seq(OutputType)  BY DEF DegradedInv, CountShape
<1>1. results' = Append(results, out)
  BY <1>0 DEF Leave, Merge
<1>2. results' \in Seq(OutputType) /\ Len(results') = Len(results) + 1
      /\ results'[Len(results) + 1] = out
      /\ \A i \in 1..Len(results) : results'[i] = results[i]
  BY <1>0, <1>1
<1>3. SomeFailed' <=> SomeFailed \/ Failed(out)
  <2>1. Len(results) \in Nat  BY <1>0
  <2>2. \A i \in 1..Len(results') : i \in 1..Len(results) \/ i = Len(results) + 1
    BY <1>2, <2>1
  <2>3. Len(results) + 1 \in 1..Len(results') /\ 1..Len(results) \subseteq 1..Len(results')
    BY <1>2, <2>1
  <2> QED  BY <1>2, <2>2, <2>3 DEF SomeFailed, Failed
<1>4. UNCHANGED <<camp, tally, report>> /\ camp.stage = "attacking"
  BY DEF Leave, Running
<1>5. CountShape'
  BY <1>2, <1>4 DEF DegradedInv, CountShape
<1>6. broken' # {} <=> broken # {} \/ Failed(out)
  OBVIOUS
<1>7. EvidenceOfFailure'
  BY <1>3, <1>4, <1>6 DEF DegradedInv, EvidenceOfFailure, Failures
<1> QED  BY <1>5, <1>7

LEMMA WorkerDegraded ==
  ASSUME DegradedInv, NEW p \in Personas, WorkerDone(p) \/ WorkerRaises(p) \/ WorkerTimeout(p)
  PROVE  CountShape' /\ EvidenceOfFailure'
<1>1. CASE WorkerDone(p)
  <2>1. PICK jailbreak \in BOOLEAN, outcome \in {"skipped", "played"} :
          Leave(p, Output(p, TRUE, outcome, jailbreak, "none"))
    BY <1>1 DEF WorkerDone
  <2> DEFINE out == Output(p, TRUE, outcome, jailbreak, "none")
  <2>2. out \in OutputType /\ ~Failed(out)
    BY DEF Output, OutputType, Failed
  <2>3. Running(p) /\ broken' = broken  BY <1>1 DEF WorkerDone
  <2>4. Leave(p, out)  BY <2>1
  <2> HIDE DEF out
  <2> QED  BY <2>2, <2>3, <2>4, LeaveDegraded
<1>2. CASE WorkerRaises(p) \/ WorkerTimeout(p)
  <2>1. PICK there \in BOOLEAN, outcome \in {"none", "error"}, error \in {"text", "empty"} :
          /\ Leave(p, Output(p, there, outcome, FALSE, error))
          /\ error = "empty" => ~there
    BY <1>2 DEF WorkerRaises, WorkerTimeout
  <2> DEFINE out == Output(p, there, outcome, FALSE, error)
  <2>2. out \in OutputType /\ Failed(out)
    BY <2>1 DEF Output, OutputType, Failed
  <2>3. Running(p) /\ broken' = broken \cup {<<"attack", p>>}
    BY <1>2 DEF WorkerRaises, WorkerTimeout
  <2>4. Leave(p, out)  BY <2>1
  <2> HIDE DEF out
  <2> QED  BY <2>2, <2>3, <2>4, LeaveDegraded
<1> QED  BY <1>1, <1>2

\* The barrier counts the outputs that failed.
LEMMA CollectDegraded ==
  ASSUME DegradedInv, Collect PROVE CountShape' /\ EvidenceOfFailure'
<1> DEFINE S == {i \in DOMAIN results : Failed(results[i])}
<1>0. results \in Seq(OutputType)  BY DEF DegradedInv, CountShape
<1>1. IsFiniteSet(S)
  <2>1. DOMAIN results = 1..Len(results) /\ Len(results) \in Nat  BY <1>0
  <2>2. IsFiniteSet(1..Len(results))  BY <2>1, FS_Interval
  <2> QED  BY <2>1, <2>2, FS_Subset
<1>2. Cardinality(S) \in Nat /\ (Cardinality(S) > 0 <=> S # {})
  BY <1>1, FS_CardinalityType, FS_EmptySet
<1>3. SomeFailed <=> S # {}
  BY <1>0 DEF SomeFailed
<1>4. CountOf(results, Failed) = Cardinality(S)
  BY DEF CountOf
<1>5. \E n : tally' = [tally EXCEPT !.attackTotal = Len(results),
                                    !.attackFailures = Cardinality(S), !.errors = n]
  BY <1>4 DEF Collect
<1> HIDE DEF S
<1>6. tally'.attackFailures = Cardinality(S) /\ tally'.judgeFailures = tally.judgeFailures
      /\ tally'.defenseFailures = tally.defenseFailures
  BY <1>5 DEF DegradedInv, CountShape
<1>7. CountShape'
  <2>1. UNCHANGED <<results, report>>  BY DEF Collect
  <2>2. tally' = [attackTotal |-> tally'.attackTotal,
                  attackFailures |-> tally'.attackFailures,
                  judgeTotal |-> tally'.judgeTotal, judgeFailures |-> tally'.judgeFailures,
                  defenseTotal |-> tally'.defenseTotal,
                  defenseFailures |-> tally'.defenseFailures,
                  validated |-> tally'.validated, errors |-> tally'.errors]
    BY <1>5 DEF DegradedInv, CountShape
  <2> QED  BY <1>2, <1>6, <2>1, <2>2 DEF DegradedInv, CountShape
<1>8. EvidenceOfFailure'
  <2>1. camp.stage = "attacking" /\ camp'.stage = "judging"
        /\ UNCHANGED <<report, broken>>
    BY DEF Collect, DegradedInv, CampShape
  <2>2. tally.judgeFailures = 0 /\ tally.defenseFailures = 0 /\ (broken # {} <=> SomeFailed)
    BY <2>1 DEF DegradedInv, CountShape, EvidenceOfFailure, Failures
  <2> QED  BY <1>2, <1>3, <1>6, <2>1, <2>2 DEF DegradedInv, EvidenceOfFailure, Failures
<1> QED  BY <1>7, <1>8

\* The judge and the defense node count a failure in the step that has it.
LEMMA JudgeDegraded ==
  ASSUME DegradedInv, JudgeSkips \/ JudgeRules \/ JudgeRaises
  PROVE  CountShape' /\ EvidenceOfFailure'
<1>1. PICK n \in {0, 1} : /\ tally' = [tally EXCEPT !.judgeFailures = @ + n, !.errors = @ + n]
                          /\ n = 0 => broken' = broken
                          /\ n = 1 => broken' # {}
  <2>1. CASE JudgeSkips \/ JudgeRules
    <3>1. tally' = [tally EXCEPT !.judgeFailures = @ + 0, !.errors = @ + 0]
          /\ broken' = broken
      BY <2>1 DEF JudgeSkips, JudgeRules, Pass
    <3> QED  BY <3>1
  <2>2. CASE JudgeRaises
    <3>1. tally' = [tally EXCEPT !.judgeFailures = @ + 1, !.errors = @ + 1]
          /\ broken' # {}
      BY <2>2 DEF JudgeRaises, Pass
    <3> QED  BY <3>1
  <2> QED  BY <2>1, <2>2
<1>2. /\ camp.stage = "judging" /\ camp'.stage = "judging"
      /\ UNCHANGED <<results, report>>
  BY DEF JudgeSkips, JudgeRules, JudgeRaises, Pass, DegradedInv, CampShape
<1>3. tally'.judgeFailures = tally.judgeFailures + n
      /\ tally'.attackFailures = tally.attackFailures
      /\ tally'.defenseFailures = tally.defenseFailures
  BY <1>1 DEF DegradedInv, CountShape
<1>4. CountShape'
  <2>1. tally' = [attackTotal |-> tally'.attackTotal,
                  attackFailures |-> tally'.attackFailures,
                  judgeTotal |-> tally'.judgeTotal, judgeFailures |-> tally'.judgeFailures,
                  defenseTotal |-> tally'.defenseTotal,
                  defenseFailures |-> tally'.defenseFailures,
                  validated |-> tally'.validated, errors |-> tally'.errors]
    BY <1>1 DEF DegradedInv, CountShape
  <2> QED  BY <1>2, <1>3, <2>1 DEF DegradedInv, CountShape
<1>5. EvidenceOfFailure'
  BY <1>1, <1>2, <1>3 DEF DegradedInv, CountShape, EvidenceOfFailure, Failures
<1> QED  BY <1>4, <1>5

LEMMA DefendedDegraded ==
  ASSUME DegradedInv, Defended PROVE CountShape' /\ EvidenceOfFailure'
<1>1. PICK n \in {0, 1}, v \in {0, 1} :
        /\ tally' = [tally EXCEPT !.defenseTotal = @ + 1, !.defenseFailures = @ + n,
                                  !.errors = @ + n, !.validated = @ + v]
        /\ n = 0 => broken' = broken
        /\ n = 1 => broken' # {}
  <2> DEFINE One(b) == IF b THEN 1 ELSE 0
  <2>1. tally' = [tally EXCEPT !.defenseTotal = @ + 1,
                               !.defenseFailures = @ + One(defense.error),
                               !.errors = @ + One(defense.error),
                               !.validated = @ + One(defense.validated)]
    BY DEF Defended
  <2>2. One(defense.error) \in {0, 1} /\ One(defense.validated) \in {0, 1}
    OBVIOUS
  <2>3. /\ One(defense.error) = 0 => broken' = broken
        /\ One(defense.error) = 1 => broken' # {}
    <3>1. CASE defense.error
      <4>1. broken' = broken \cup {<<"defense", Jailbreaks[camp.at].persona>>}
        BY <3>1 DEF Defended
      <4>2. broken' # {}  BY <4>1
      <4>3. One(defense.error) = 1  BY <3>1
      <4> QED  BY <4>2, <4>3
    <3>2. CASE ~defense.error
      BY <3>2 DEF Defended
    <3> QED  BY <3>1, <3>2
  <2> HIDE DEF One
  <2> QED  BY <2>1, <2>2, <2>3
<1>2. /\ camp.stage = "defending" /\ camp'.stage \in {"defending", "finalize"}
      /\ UNCHANGED <<results, report>>
  BY DEF Defended, DegradedInv, CampShape
<1>3. tally'.defenseFailures = tally.defenseFailures + n
      /\ tally'.attackFailures = tally.attackFailures
      /\ tally'.judgeFailures = tally.judgeFailures
  BY <1>1 DEF DegradedInv, CountShape
<1>4. CountShape'
  <2>1. tally' = [attackTotal |-> tally'.attackTotal,
                  attackFailures |-> tally'.attackFailures,
                  judgeTotal |-> tally'.judgeTotal, judgeFailures |-> tally'.judgeFailures,
                  defenseTotal |-> tally'.defenseTotal,
                  defenseFailures |-> tally'.defenseFailures,
                  validated |-> tally'.validated, errors |-> tally'.errors]
    BY <1>1 DEF DegradedInv, CountShape
  <2> QED  BY <1>2, <1>3, <2>1 DEF DegradedInv, CountShape
<1>5. EvidenceOfFailure'
  BY <1>1, <1>2, <1>3 DEF DegradedInv, CountShape, EvidenceOfFailure, Failures
<1> QED  BY <1>4, <1>5

LEMMA RouteDegraded ==
  ASSUME DegradedInv, Route PROVE CountShape' /\ EvidenceOfFailure'
<1>1. /\ camp.stage = "judging" /\ camp'.stage \in {"defending", "finalize"}
      /\ UNCHANGED <<results, report, broken>>
      /\ tally' = [tally EXCEPT !.judgeTotal = Len(Inputs)]
  BY DEF Route, DegradedInv, CampShape
<1>2. CountShape' /\ Failures' = Failures
  BY <1>1 DEF DegradedInv, CountShape, Failures
<1>3. EvidenceOfFailure'
  BY <1>1, <1>2 DEF DegradedInv, EvidenceOfFailure
<1> QED  BY <1>2, <1>3

\* The report adds the counters up.
LEMMA ReportDegraded ==
  ASSUME DegradedInv, Finalize \/ Complete PROVE CountShape' /\ EvidenceOfFailure'
<1>1. CASE Finalize
  <2>1. /\ camp.stage = "finalize" /\ camp'.stage = "telemetry"
        /\ UNCHANGED <<results, tally, broken>>
        /\ report' = [report EXCEPT !.there = TRUE, !.results = Len(judged),
                        !.degraded = Failures > 0, !.errors = tally.errors,
                        !.validated = tally.validated]
    BY <1>1 DEF Finalize, Failures, DegradedInv, CampShape
  <2>2. CountShape'  BY <2>1 DEF DegradedInv, CountShape
  <2>3. report'.degraded <=> Failures > 0
    BY <2>1 DEF DegradedInv, CountShape
  <2>4. EvidenceOfFailure'
    BY <2>1, <2>3 DEF DegradedInv, EvidenceOfFailure
  <2> QED  BY <2>2, <2>4
<1>2. CASE Complete
  <2>1. PICK n, k, t, c :
          report' = [report EXCEPT !.records = n, !.failedRecords = k, !.tagged = t,
                                   !.contained = c]
    BY <1>2 DEF Complete
  <2>2. /\ camp.stage = "telemetry" /\ camp'.stage = "done"
        /\ UNCHANGED <<results, tally, broken>>
    BY <1>2 DEF Complete, DegradedInv, CampShape
  <2>3. CountShape' /\ report'.there = report.there /\ report'.degraded = report.degraded
    BY <2>1, <2>2 DEF DegradedInv, CountShape
  <2>4. EvidenceOfFailure'
    BY <2>2, <2>3 DEF DegradedInv, EvidenceOfFailure
  <2> QED  BY <2>3, <2>4
<1> QED  BY <1>1, <1>2

Uncounted == results' = results /\ tally' = tally /\ report' = report /\ broken' = broken

LEMMA SameStage ==
  ASSUME DegradedInv, Uncounted, camp'.stage = camp.stage
  PROVE  CountShape' /\ EvidenceOfFailure'
  BY DEF Uncounted, DegradedInv, CountShape, EvidenceOfFailure, Failures, SomeFailed

LEMMA OtherStage ==
  ASSUME DegradedInv, Uncounted,
         \/ camp.stage = "personas" /\ camp'.stage \in {"attacking", "done", "failed"}
         \/ camp.stage = "telemetry" /\ camp'.stage = "failed"
  PROVE  CountShape' /\ EvidenceOfFailure'
<1>1. CountShape' /\ Failures' = Failures
  BY DEF Uncounted, DegradedInv, CountShape, Failures
<1>2. camp.stage = "personas" => ~SomeFailed'
  BY DEF Uncounted, DegradedInv, EvidenceOfFailure, SomeFailed
<1>3. EvidenceOfFailure'
  BY <1>1, <1>2 DEF Uncounted, DegradedInv, EvidenceOfFailure
<1> QED  BY <1>1, <1>3

LEMMA NextDegraded ==
  ASSUME SuiteAssumption, DegradedInv, [Next]_vars PROVE DegradedInv'
<1>0. DefenseInv' /\ CampShape'
  BY NextDefenseInv, NextCampShape DEF DegradedInv
<1> SUFFICES CountShape' /\ EvidenceOfFailure'  BY <1>0 DEF DegradedInv
<1>1. CASE FanOut \/ CampaignFails \/ TelemetryFails
  <2>1. Uncounted
    BY <1>1 DEF FanOut, CampaignFails, TelemetryFails, Uncounted
  <2>2. \/ camp.stage = "personas" /\ camp'.stage \in {"attacking", "done", "failed"}
        \/ camp.stage = "telemetry" /\ camp'.stage = "failed"
    BY <1>1 DEF FanOut, CampaignFails, TelemetryFails, DegradedInv, CampShape
  <2> QED  BY <2>1, <2>2, OtherStage
<1>2. CASE Defend \/ DefenseRuns \/ Activate \/ UNCHANGED vars
  <2>1. Uncounted /\ camp' = camp
    BY <1>2 DEF Defend, DefenseRuns, Activate, vars, campVars, Uncounted
  <2> QED  BY <2>1, SameStage
<1>3. CASE \E p \in Personas : WorkerStep(p) \/ WorkerTimeout(p)
  <2>1. PICK p \in Personas : WorkerStep(p) \/ WorkerTimeout(p)  BY <1>3
  <2>2. CASE Provider(p) \/ Send(p)
    <3>1. Uncounted /\ camp' = camp
      BY <2>2 DEF Provider, Send, campVars, Uncounted
    <3> QED  BY <3>1, SameStage
  <2> QED  BY <2>1, <2>2, WorkerDegraded DEF WorkerStep
<1>4. CASE Start  BY <1>4, StartDegraded
<1>5. CASE Collect \/ JudgeSkips \/ JudgeRules \/ JudgeRaises
  BY <1>5, CollectDegraded, JudgeDegraded
<1>6. CASE Defended \/ Route \/ Finalize \/ Complete
  BY <1>6, DefendedDegraded, RouteDegraded, ReportDegraded
<1> QED  BY <1>1, <1>2, <1>3, <1>4, <1>5, <1>6 DEF Next, Node

\* build_runtime_summary: for every number of personas, a campaign is reported as
\* degraded when, and only when, a worker of it failed, whatever its error reads.
THEOREM DegradedExactly == Spec => []DegradedIsTrue
<1>1. Init => DegradedInv  BY SuiteAssumption, InitDegraded
<1>2. DegradedInv /\ [Next]_vars => DegradedInv'  BY SuiteAssumption, NextDegraded
<1>3. DegradedInv => DegradedIsTrue
  BY DEF DegradedInv, EvidenceOfFailure, DegradedIsTrue
<1> QED  BY <1>1, <1>2, <1>3, PTL DEF Spec

-----------------------------------------------------------------------------
(***************************************************************************)
(* The execution records                                                   *)
(***************************************************************************)
RecordType == [sender : Senders, seam : Seams, success : BOOLEAN, tagged : BOOLEAN]

\* What is known of a send between its steps.
SendPath(x) ==
    /\ x.at = "idle" => ~x.req.labelled
    /\ x.at \in {"calling", "waiting", "backoff", "ok", "cancelled"} => Passes(x.req)
    /\ x.at = "backoff" => ~x.req.legacy

\* The outcome that a record of this send shows.
Shown(x) == x.at = "ok" \/ x.req.legacy

\* The records of a sender are those its send calls for.
MineIn(rs, s) == {i \in DOMAIN rs : rs[i].sender = s}

OwnRecords(rs, s, x) ==
    IF HasRecord(x)
    THEN \E i \in DOMAIN rs : MineIn(rs, s) = {i} /\ (rs[i].success <=> Shown(x))
    ELSE MineIn(rs, s) = {}

AllRecorded == \A s \in Senders : SendPath(sends[s]) /\ OwnRecords(records, s, sends[s])

\* Before the workers start there is nothing; after the barrier the sends are gone.
RecordsInv ==
    /\ records \in Seq(RecordType)
    /\ camp.stage = "personas" => records = <<>> /\ sends = [s \in Senders |-> Idle]
    /\ camp.stage = "attacking" => AllRecorded

LEMMA NothingRecorded ==
  ASSUME records = <<>>, sends = [s \in Senders |-> Idle] PROVE AllRecorded
<1> SUFFICES ASSUME NEW s \in Senders PROVE SendPath(sends[s]) /\ OwnRecords(records, s, sends[s])
  BY DEF AllRecorded
<1>1. sends[s] = Idle /\ Idle.at = "idle" /\ Idle.req = NoRequest /\ ~NoRequest.labelled
  BY DEF Idle, NoRequest
<1>2. MineIn(records, s) = {}  BY DEF MineIn
<1> HIDE DEF Idle, NoRequest
<1>3. SendPath(sends[s])  BY <1>1 DEF SendPath
<1>4. ~HasRecord(sends[s])  BY <1>1 DEF HasRecord
<1> QED  BY <1>2, <1>3, <1>4 DEF OwnRecords

\* A step of one send that records nothing, because nothing new is due.
LEMMA QuietStep ==
  ASSUME AllRecorded, sends \in [Senders -> SendState], NEW s \in Senders, NEW y,
         sends' = [sends EXCEPT ![s] = y], UNCHANGED records, SendPath(y),
         HasRecord(y) <=> HasRecord(sends[s]),
         HasRecord(y) => (Shown(y) <=> Shown(sends[s]))
  PROVE  AllRecorded'
<1> SUFFICES ASSUME NEW t \in Senders PROVE SendPath(sends'[t]) /\ OwnRecords(records', t, sends'[t])
  BY DEF AllRecorded
<1>1. OwnRecords(records, t, sends[t]) /\ SendPath(sends[t])  BY DEF AllRecorded
<1>2. MineIn(records', t) = MineIn(records, t)  BY DEF MineIn
<1>3. CASE t = s
  <2>1. sends'[t] = y  BY <1>3
  <2>2. OwnRecords(records', t, y)
    BY <1>1, <1>2, <1>3 DEF OwnRecords
  <2> QED  BY <2>1, <2>2
<1>4. CASE t # s
  <2>1. sends'[t] = sends[t]  BY <1>4
  <2> QED  BY <1>1, <1>2, <2>1 DEF OwnRecords
<1> QED  BY <1>3, <1>4

\* A step of one send that writes the record now due.
LEMMA RecordingStep ==
  ASSUME AllRecorded, sends \in [Senders -> SendState], records \in Seq(RecordType),
         NEW s \in Senders, NEW y, sends' = [sends EXCEPT ![s] = y], SendPath(y),
         NEW r \in RecordType, records' = Append(records, r), r.sender = s,
         HasRecord(y), ~HasRecord(sends[s]), r.success <=> Shown(y)
  PROVE  AllRecorded'
<1> SUFFICES ASSUME NEW t \in Senders PROVE SendPath(sends'[t]) /\ OwnRecords(records', t, sends'[t])
  BY DEF AllRecorded
<1> DEFINE n == Len(records)
<1>1. OwnRecords(records, t, sends[t]) /\ SendPath(sends[t])  BY DEF AllRecorded
<1>2. n \in Nat /\ DOMAIN records = 1..n
  OBVIOUS
<1>3. DOMAIN records' = 1..n + 1 /\ records'[n + 1] = r
      /\ \A i \in 1..n : records'[i] = records[i]
  OBVIOUS
<1> HIDE DEF n
<1>4. n + 1 \notin 1..n /\ 1..n + 1 = (1..n) \cup {n + 1}  BY <1>2
<1>5. CASE t = s
  <2>1. sends'[t] = y  BY <1>5
  <2>2. MineIn(records, s) = {}  BY <1>1, <1>5 DEF OwnRecords
  <2>3. MineIn(records', s) = {n + 1}
    BY <1>2, <1>3, <1>4, <2>2 DEF MineIn
  <2>4. n + 1 \in DOMAIN records' /\ (records'[n + 1].success <=> Shown(y))
    BY <1>3, <1>4
  <2>5. OwnRecords(records', t, y)  BY <1>5, <2>3, <2>4 DEF OwnRecords
  <2> QED  BY <2>1, <2>5
<1>6. CASE t # s
  <2>1. sends'[t] = sends[t]  BY <1>6
  <2>2. MineIn(records', t) = MineIn(records, t)
    BY <1>2, <1>3, <1>4, <1>6 DEF MineIn
  <2>3. OwnRecords(records', t, sends[t])
    <3>1. CASE HasRecord(sends[t])
      <4>1. PICK i \in DOMAIN records :
              MineIn(records, t) = {i} /\ (records[i].success <=> Shown(sends[t]))
        BY <1>1, <3>1 DEF OwnRecords
      <4>2. i \in DOMAIN records' /\ records'[i] = records[i]  BY <1>2, <1>3, <1>4
      <4> QED  BY <2>2, <3>1, <4>1, <4>2 DEF OwnRecords
    <3>2. CASE ~HasRecord(sends[t])
      BY <1>1, <2>2, <3>2 DEF OwnRecords
    <3> QED  BY <3>1, <3>2
  <2> QED  BY <1>1, <2>1, <2>3
<1> QED  BY <1>5, <1>6

LEMMA RecordType1 ==
  ASSUME NEW s \in Senders, NEW req \in Request, NEW success \in BOOLEAN
  PROVE  /\ Rec(s, req, success) \in RecordType
         /\ Rec(s, req, success).sender = s /\ Rec(s, req, success).success = success
<1>1. TargetBlocks(req) \in BOOLEAN  BY DEF TargetBlocks
<1> QED  BY <1>1 DEF Rec, RecordType, Request

\* A step that ends a send, or lets it go on: a record exactly when one is due.
LEMMA OneRecordStep ==
  ASSUME AllRecorded, sends \in [Senders -> SendState], records \in Seq(RecordType),
         NEW s \in Senders, NEW y \in SendState, sends' = [sends EXCEPT ![s] = y], SendPath(y),
         ~HasRecord(sends[s]), NEW success \in BOOLEAN, Record(s, y.req, success),
         y.req.labelled => HasRecord(y), success <=> Shown(y)
  PROVE  AllRecorded' /\ records' \in Seq(RecordType)
<1>0. y.req \in Request  BY DEF SendState
<1>1. CASE y.req.labelled
  <2> DEFINE r == Rec(s, y.req, success)
  <2>1. r \in RecordType /\ r.sender = s /\ r.success = success  BY <1>0, RecordType1
  <2>2. records' = Append(records, r)  BY <1>1 DEF Record
  <2>3. HasRecord(y) /\ (r.success <=> Shown(y))  BY <1>1, <2>1
  <2> HIDE DEF r
  <2>4. AllRecorded'  BY <2>1, <2>2, <2>3, RecordingStep
  <2> QED  BY <2>1, <2>2, <2>4
<1>2. CASE ~y.req.labelled
  <2>1. UNCHANGED records  BY <1>2 DEF Record
  <2>2. ~HasRecord(y)  BY <1>2 DEF HasRecord
  <2>3. AllRecorded'  BY <2>1, <2>2, QuietStep
  <2> QED  BY <2>1, <2>3
<1> QED  BY <1>1, <1>2

LEMMA IssueRecords ==
  ASSUME SendAssumption, SendsInv, AllRecorded, records \in Seq(RecordType),
         NEW s \in Senders, Issue(s)
  PROVE  AllRecorded' /\ records' \in Seq(RecordType)
<1>1. PICK req \in Requests : \/ StoppedEarly(s, req) \/ Refused(s, req)
                              \/ Guarded(s, req) \/ Call(s, req)
  BY DEF Issue
<1>2. req \in Request  BY DEF SendAssumption
<1>3. sends \in [Senders -> SendState]  BY DEF SendsInv
<1>4. sends[s].at = "idle" /\ SendPath(sends[s])  BY DEF Issue, AllRecorded
<1>5. ~HasRecord(sends[s])  BY <1>4 DEF SendPath, HasRecord
<1> DEFINE y(at, calls) == [at |-> at, req |-> req, calls |-> calls, delivered |-> 0]
<1>6. ASSUME NEW at \in {"calling", "failed"}, NEW calls \in Nat
      PROVE  y(at, calls) \in SendState /\ y(at, calls).at = at /\ y(at, calls).req = req
  BY <1>2 DEF SendState
<1>7. ASSUME NEW at \in {"calling", "failed"}, NEW calls \in Nat, Put(s, at, req, calls, 0)
      PROVE  sends' = [sends EXCEPT ![s] = y(at, calls)]
  BY <1>7 DEF Put
<1>8. ASSUME NEW at \in {"calling", "failed"}, NEW calls \in Nat, Put(s, at, req, calls, 0),
             at = "calling" => Passes(req), UNCHANGED records,
             req.labelled => ~HasRecord(y(at, calls))
      PROVE  AllRecorded' /\ records' \in Seq(RecordType)
  <2> DEFINE z == y(at, calls)
  <2>1. z \in SendState /\ z.at = at /\ z.req = req /\ sends' = [sends EXCEPT ![s] = z]
    BY <1>6, <1>7, <1>8
  <2>2. req.labelled => ~HasRecord(z)  BY <1>8
  <2> HIDE DEF z, y
  <2>3. SendPath(z)  BY <1>8, <2>1 DEF SendPath
  <2>4. ~HasRecord(z)  BY <2>1, <2>2 DEF HasRecord
  <2>5. AllRecorded'  BY <1>3, <1>5, <1>8, <2>1, <2>3, <2>4, QuietStep
  <2> QED  BY <1>8, <2>5
<1>9. ASSUME NEW at \in {"calling", "failed"}, NEW calls \in Nat, Put(s, at, req, calls, 0),
             at = "calling" => Passes(req), NEW success \in BOOLEAN, Record(s, req, success),
             req.labelled => HasRecord(y(at, calls)), success <=> req.legacy
      PROVE  AllRecorded' /\ records' \in Seq(RecordType)
  <2> DEFINE z == y(at, calls)
  <2>1. z \in SendState /\ z.at = at /\ z.req = req /\ sends' = [sends EXCEPT ![s] = z]
    BY <1>6, <1>7, <1>9
  <2>2. z.req.labelled => HasRecord(z)  BY <1>9, <2>1
  <2> HIDE DEF z, y
  <2>3. SendPath(z)  BY <1>9, <2>1 DEF SendPath
  <2>4. Record(s, z.req, success) /\ (success <=> Shown(z))  BY <1>9, <2>1 DEF Shown
  <2> QED  BY <1>3, <1>5, <2>1, <2>2, <2>3, <2>4, OneRecordStep
<1>10. CASE StoppedEarly(s, req)
  <2>1. Put(s, "failed", req, 0, 0) /\ UNCHANGED records  BY <1>10 DEF StoppedEarly
  <2>2. req.decision # "deny" /\ ~Passes(req)  BY <1>10 DEF StoppedEarly, Passes
  <2>3. ~HasRecord(y("failed", 0))  BY <2>2 DEF HasRecord
  <2> QED  BY <1>8, <2>1, <2>3
<1>11. CASE Refused(s, req)
  <2>1. Put(s, "failed", req, 0, 0) /\ req.decision = "deny" /\ ~Passes(req)
    BY <1>11 DEF Refused, Passes
  <2>2. CASE req.legacy
    <3>1. UNCHANGED records  BY <1>11, <2>2 DEF Refused
    <3>2. ~HasRecord(y("failed", 0))  BY <2>1, <2>2 DEF HasRecord
    <3> QED  BY <1>8, <2>1, <3>1, <3>2
  <2>3. CASE ~req.legacy
    <3>1. Record(s, req, FALSE)  BY <1>11, <2>3 DEF Refused
    <3>2. req.labelled => HasRecord(y("failed", 0))  BY <2>1, <2>3 DEF HasRecord
    <3> QED  BY <1>9, <2>1, <2>3, <3>1, <3>2
  <2> QED  BY <2>2, <2>3
<1>12. CASE Guarded(s, req)
  <2>1. Put(s, "failed", req, 0, 0) /\ Passes(req) /\ ~req.legacy /\ Record(s, req, FALSE)
    BY <1>12 DEF Guarded
  <2>2. req.labelled => HasRecord(y("failed", 0))  BY <2>1 DEF HasRecord
  <2> QED  BY <1>9, <2>1, <2>2
<1>13. CASE Call(s, req)
  <2>1. Put(s, "calling", req, 1, 0) /\ Passes(req)  BY <1>13 DEF Call
  <2>2. req.decision # "deny"  BY <2>1 DEF Passes
  <2>3. CASE req.legacy
    <3>1. Record(s, req, TRUE)  BY <1>13, <2>3 DEF Call
    <3>2. req.labelled => HasRecord(y("calling", 1))  BY <2>1, <2>3 DEF HasRecord
    <3> QED  BY <1>9, <2>1, <2>3, <3>1, <3>2
  <2>4. CASE ~req.legacy
    <3>1. UNCHANGED records  BY <1>13, <2>4 DEF Call
    <3>2. ~HasRecord(y("calling", 1))  BY <2>2, <2>4 DEF HasRecord
    <3> QED  BY <1>8, <2>1, <3>1, <3>2
  <2> QED  BY <2>3, <2>4
<1> QED  BY <1>1, <1>10, <1>11, <1>12, <1>13

LEMMA SendStepRecords ==
  ASSUME SendsInv, AllRecorded, records \in Seq(RecordType), NEW s \in Senders,
         SendStep(s) \/ Cancel(s)
  PROVE  AllRecorded' /\ records' \in Seq(RecordType)
<1> DEFINE x == sends[s]
<1>1. x \in SendState /\ sends \in [Senders -> SendState]  BY DEF SendsInv
<1>2. SendPath(x)  BY DEF AllRecorded
<1>3. ASSUME NEW y \in SendState, sends' = [sends EXCEPT ![s] = y], y.req = x.req,
             x.at \in {"calling", "waiting", "backoff"}, UNCHANGED records,
             \/ y.at \in {"calling", "waiting", "backoff", "cancelled"}
             \/ y.at \in {"ok", "failed"} /\ x.req.legacy,
             y.at = "backoff" => ~x.req.legacy
      PROVE  AllRecorded' /\ records' \in Seq(RecordType)
  <2> HIDE DEF x
  <2>1. Passes(x.req)  BY <1>2, <1>3 DEF SendPath
  <2>2. SendPath(y)  BY <1>3, <2>1 DEF SendPath
  <2>3. /\ HasRecord(y) <=> HasRecord(x)
        /\ HasRecord(y) => (Shown(y) <=> Shown(x))
    BY <1>3, <2>1 DEF HasRecord, Passes, Shown
  <2>4. AllRecorded'  BY <1>1, <1>3, <2>2, <2>3, QuietStep DEF x
  <2> QED  BY <1>3, <2>4
<1>4. ASSUME NEW at \in {"ok", "failed"}, Settle(s, at), x.at \in InCall
      PROVE  [x EXCEPT !.at = at] \in SendState /\ [x EXCEPT !.at = at].at = at
             /\ [x EXCEPT !.at = at].req = x.req
             /\ sends' = [sends EXCEPT ![s] = [x EXCEPT !.at = at]]
  BY <1>1, <1>4 DEF SendState, Settle
<1>5. ASSUME NEW at \in {"ok", "failed"}, Settle(s, at), x.at \in InCall,
             IF x.req.legacy THEN UNCHANGED records ELSE Record(s, x.req, at = "ok")
      PROVE  AllRecorded' /\ records' \in Seq(RecordType)
  <2> DEFINE y == [x EXCEPT !.at = at]
  <2>1. y \in SendState /\ y.at = at /\ y.req = x.req /\ sends' = [sends EXCEPT ![s] = y]
    BY <1>4, <1>5
  <2>2. x.at \in {"calling", "waiting"}  BY <1>5 DEF InCall
  <2> HIDE DEF y
  <2>3. CASE x.req.legacy
    BY <1>3, <1>5, <2>1, <2>2, <2>3
  <2>4. CASE ~x.req.legacy
    <3> HIDE DEF x
    <3>1. Passes(x.req)  BY <1>2, <2>2 DEF SendPath
    <3>2. SendPath(y)  BY <2>1, <3>1 DEF SendPath
    <3>3. ~HasRecord(x)  BY <2>2, <2>4, <3>1 DEF HasRecord, Passes
    <3>4. y.req.labelled => HasRecord(y)  BY <2>1, <3>1 DEF HasRecord
    <3>5. at = "ok" <=> Shown(y)  BY <2>1, <2>4 DEF Shown
    <3>6. Record(s, y.req, at = "ok") /\ (at = "ok") \in BOOLEAN  BY <1>5, <2>1, <2>4
    <3> QED  BY <1>1, <2>1, <3>2, <3>3, <3>4, <3>5, <3>6, OneRecordStep DEF x
  <2> QED  BY <2>3, <2>4
<1>6. ASSUME NEW at \in {"backoff", "cancelled"}, Settle(s, at)
      PROVE  [x EXCEPT !.at = at] \in SendState /\ [x EXCEPT !.at = at].at = at
             /\ [x EXCEPT !.at = at].req = x.req
             /\ sends' = [sends EXCEPT ![s] = [x EXCEPT !.at = at]]
  BY <1>1, <1>6 DEF SendState, Settle
<1>7. CASE Transient(s) \/ Cancel(s)
  <2>1. PICK at \in {"backoff", "cancelled"} :
          /\ Settle(s, at) /\ UNCHANGED records /\ x.at \in {"calling", "waiting", "backoff"}
          /\ at = "backoff" => ~x.req.legacy
    BY <1>7 DEF Transient, Cancel, InCall
  <2> DEFINE y == [x EXCEPT !.at = at]
  <2>2. y \in SendState /\ y.at = at /\ y.req = x.req /\ sends' = [sends EXCEPT ![s] = y]
    BY <1>6, <2>1
  <2> HIDE DEF y, x
  <2> QED  BY <1>3, <2>1, <2>2
<1>8. CASE Answer(s)
  <2>1. Settle(s, "ok") /\ x.at \in InCall
        /\ IF x.req.legacy THEN UNCHANGED records ELSE Record(s, x.req, "ok" = "ok")
    BY <1>8 DEF Answer, InCall, Record
  <2> HIDE DEF x
  <2> QED  BY <1>5, <2>1
<1>9. CASE Raises(s)
  <2>1. Settle(s, "failed") /\ x.at \in InCall
        /\ IF x.req.legacy THEN UNCHANGED records ELSE Record(s, x.req, "failed" = "ok")
    BY <1>9 DEF Raises, Record
  <2> HIDE DEF x
  <2> QED  BY <1>5, <2>1
<1>10. ASSUME NEW y \in SendState, y.at \in {"calling", "waiting"}, y.req = x.req,
              x.at \in {"calling", "backoff"}, UNCHANGED records, sends' = [sends EXCEPT ![s] = y]
       PROVE  AllRecorded' /\ records' \in Seq(RecordType)
  <2> HIDE DEF x
  <2> QED  BY <1>3, <1>10
<1>11. CASE Deliver(s)
  <2> DEFINE y == [at |-> "waiting", req |-> x.req, calls |-> x.calls,
                   delivered |-> x.delivered + 1]
  <2>1. y \in SendState /\ y.at = "waiting" /\ y.req = x.req  BY <1>1 DEF SendState
  <2>2. x.at = "calling" /\ UNCHANGED records  BY <1>11 DEF Deliver
  <2>3. sends'[s] = y  BY <1>1, <1>11 DEF Deliver, SendState
  <2>4. sends' = [sends EXCEPT ![s] = sends'[s]]  BY <1>1, <1>11 DEF Deliver
  <2>5. sends' = [sends EXCEPT ![s] = y]  BY <2>3, <2>4
  <2> HIDE DEF y, x
  <2> QED  BY <1>10, <2>1, <2>2, <2>5
<1>12. CASE Retry(s)
  <2> DEFINE y == [at |-> "calling", req |-> x.req, calls |-> x.calls + 1,
                   delivered |-> x.delivered]
  <2>1. y \in SendState /\ y.at = "calling" /\ y.req = x.req  BY <1>1 DEF SendState
  <2>2. x.at = "backoff" /\ UNCHANGED records  BY <1>12 DEF Retry
  <2>3. sends'[s] = y  BY <1>1, <1>12 DEF Retry, SendState
  <2>4. sends' = [sends EXCEPT ![s] = sends'[s]]  BY <1>1, <1>12 DEF Retry
  <2>5. sends' = [sends EXCEPT ![s] = y]  BY <2>3, <2>4
  <2> HIDE DEF y, x
  <2> QED  BY <1>10, <2>1, <2>2, <2>5
<1> QED  BY <1>7, <1>8, <1>9, <1>11, <1>12 DEF SendStep

RecordInv == SendsInv /\ CampShape /\ RecordsInv

LEMMA InitRecords == ASSUME SuiteAssumption, Init PROVE RecordInv
<1>1. SendsInv /\ CampShape
  BY InitPartsInv DEF Init, CampInit, CampShape
<1>2. RecordsInv
  <2>1. records = <<>> /\ camp.stage = "idle"  BY DEF Init, SendInit, CampInit
  <2> QED  BY <2>1 DEF RecordsInv
<1> QED  BY <1>1, <1>2 DEF RecordInv

\* The rest of a campaign neither sends nor records.
LEMMA NextRecords ==
  ASSUME SendAssumption, RecordInv, [Next]_vars PROVE RecordInv'
<1>1. SendsInv' /\ CampShape'  BY NextSendsInv, NextCampShape DEF RecordInv
<1> SUFFICES RecordsInv'  BY <1>1 DEF RecordInv
<1>2. records \in Seq(RecordType) /\ SendsInv  BY DEF RecordInv, RecordsInv
<1>3. CASE Start
  BY <1>3 DEF Start, RecordsInv
<1>4. CASE FanOut
  <2>1. UNCHANGED <<sends, records>> /\ camp.stage = "personas" /\ camp'.stage # "personas"
    BY <1>4 DEF FanOut, sendVars, RecordInv, CampShape
  <2>2. AllRecorded
    BY <2>1, NothingRecorded DEF RecordInv, RecordsInv
  <2>3. AllRecorded'
    BY <2>1, <2>2 DEF AllRecorded
  <2> QED  BY <1>2, <2>1, <2>3 DEF RecordsInv
<1>5. ASSUME NEW p \in Personas, WorkerStep(p) \/ WorkerTimeout(p) PROVE RecordsInv'
  <2>1. p \in Senders /\ camp' = camp /\ camp.stage = "attacking"
    BY <1>5 DEF Personas, WorkerStep, WorkerTimeout, Provider, Send, WorkerDone, WorkerRaises,
       Leave, Running, campVars
  <2>2. AllRecorded  BY <2>1 DEF RecordInv, RecordsInv
  <2>3. CASE Provider(p)  BY <1>2, <2>1, <2>2, <2>3, SendStepRecords DEF Provider, RecordsInv
  <2>4. CASE Send(p)  BY <1>2, <2>1, <2>2, <2>4, IssueRecords DEF Send, RecordsInv
  <2>5. CASE UNCHANGED <<sends, records>>
    <3>1. AllRecorded'  BY <2>2, <2>5 DEF AllRecorded
    <3> QED  BY <1>2, <2>1, <2>5, <3>1 DEF RecordsInv
  <2>6. CASE WorkerDone(p) \/ WorkerRaises(p)
    BY <2>5, <2>6 DEF WorkerDone, WorkerRaises, Leave
  <2>7. CASE WorkerTimeout(p)
    <3>1. CASE Cancel(p)  BY <1>2, <2>1, <2>2, <3>1, SendStepRecords DEF RecordsInv
    <3>2. CASE UNCHANGED sends  BY <2>5, <2>7, <3>2 DEF WorkerTimeout, Leave
    <3> QED  BY <2>7, <3>1, <3>2 DEF WorkerTimeout
  <2> QED  BY <1>5, <2>3, <2>4, <2>6, <2>7 DEF WorkerStep
<1>6. CASE UNCHANGED records /\ camp'.stage \notin {"personas", "attacking"}
  BY <1>2, <1>6 DEF RecordsInv
<1>7. CASE UNCHANGED <<sends, records>> /\ camp' = camp
  <2>1. AllRecorded' <=> AllRecorded  BY <1>7 DEF AllRecorded
  <2> QED  BY <1>7, <2>1 DEF RecordInv, RecordsInv
<1>8. CASE Collect \/ JudgeSkips \/ JudgeRules \/ JudgeRaises \/ Route \/ Defended \/ Finalize
           \/ Complete \/ CampaignFails \/ TelemetryFails
  <2>1. CASE Collect \/ Route \/ Finalize \/ Complete \/ CampaignFails \/ TelemetryFails
    BY <1>6, <2>1 DEF Collect, Route, Finalize, Complete, CampaignFails, TelemetryFails,
       sendVars, RecordInv, CampShape
  <2>2. CASE JudgeSkips \/ JudgeRules \/ JudgeRaises
    BY <1>6, <2>2 DEF JudgeSkips, JudgeRules, JudgeRaises, Pass, sendVars, RecordInv, CampShape
  <2>3. CASE Defended
    BY <1>6, <2>3 DEF Defended, sendVars, RecordInv, CampShape
  <2> QED  BY <1>8, <2>1, <2>2, <2>3
<1>9. CASE Defend \/ DefenseRuns \/ Activate \/ UNCHANGED vars
  BY <1>7, <1>9 DEF Defend, DefenseRuns, Activate, vars, campVars, sendVars
<1> QED  BY <1>3, <1>4, <1>5, <1>8, <1>9 DEF Next, Node

\* send_with_execution_metadata, _record_execution: for every set of concurrent senders,
\* requests and retries, a send has the one record it calls for, or none.
THEOREM OneRecordPerSend == Spec => []SendsAreRecorded
<1>1. Init => RecordInv  BY SuiteAssumption, InitRecords
<1>2. RecordInv /\ [Next]_vars => RecordInv'  BY SendAssumption, NextRecords
<1>3. RecordInv => SendsAreRecorded
  <2> SUFFICES ASSUME AllRecorded, NEW s \in Senders
               PROVE  IF HasRecord(sends[s])
                      THEN \E i \in DOMAIN records :
                             /\ Mine(s) = {i}
                             /\ records[i].success <=> (sends[s].at = "ok" \/ sends[s].req.legacy)
                      ELSE Mine(s) = {}
    BY DEF RecordInv, RecordsInv, SendsAreRecorded
  <2>1. OwnRecords(records, s, sends[s])  BY DEF AllRecorded
  <2>2. MineIn(records, s) = Mine(s)  BY DEF MineIn, Mine
  <2> QED  BY <2>1, <2>2 DEF OwnRecords, Shown
<1> QED  BY <1>1, <1>2, <1>3, PTL DEF Spec

-----------------------------------------------------------------------------
(***************************************************************************)
(* The workers and the barrier                                             *)
(***************************************************************************)
\* Every worker that ended left one output.
LeftOnce ==
    /\ \A i, j \in 1..Len(results) : results[i].persona = results[j].persona => i = j
    /\ worker \in [Personas -> {"off", "running", "done"}]
    /\ \A p \in Personas :
          worker[p] = "done" <=> \E i \in 1..Len(results) : results[i].persona = p

\* What the judge node may make of the outputs.
Verdicts ==
    {Judged(Inputs[i], status, jailbreak) :
        i \in 1..Len(Inputs), status \in {"passthrough", "re_evaluated", "judge_error"},
        jailbreak \in BOOLEAN \cup {Inputs[i].jailbreak : i \in 1..Len(Inputs)}}

\* The judge goes through the outputs in their order.
InOrder ==
    /\ judged \in Seq(Verdicts) /\ Len(judged) <= Len(Inputs)
    /\ \A i \in 1..Len(judged) : judged[i].persona = Inputs[i].persona

Counted == camp.stage \in {"judging", "defending", "finalize"} \/ report.there
Ruled   == camp.stage \in {"defending", "finalize"} \/ report.there

WorkersInv ==
    /\ LeftOnce
    /\ Counted => tally.attackTotal = Len(results)
    /\ camp.stage \in {"personas", "attacking"} => judged = <<>>
    /\ Counted => InOrder
    /\ camp.stage = "judging" => camp.at = Len(judged) + 1
    /\ Ruled => tally.judgeTotal = Len(Inputs) /\ Len(judged) = Len(Inputs)
    /\ report.there => report.results = Len(judged)

LostInv == DegradedInv /\ WorkersInv

\* What the barrier and the report read is settled.
LEMMA Settled ==
  ASSUME WorkersInv, UNCHANGED <<results, judged, worker>>,
         tally'.attackTotal = tally.attackTotal, tally'.judgeTotal = tally.judgeTotal,
         report'.there => report.there /\ report'.results = report.results,
         \/ camp'.stage \in {"idle", "done", "failed"}
         \/ camp'.stage = "judging" /\ camp' = camp
         \/ camp'.stage = "telemetry" /\ camp.stage = "telemetry"
         \/ camp'.stage \in {"defending", "finalize"}
            /\ camp.stage \in {"defending", "finalize"}
         \/ camp'.stage \in {"personas", "attacking"}
            /\ camp.stage \in {"personas", "attacking"}
  PROVE  WorkersInv'
<1>1. Inputs' = Inputs  BY DEF Inputs
<1>2. LeftOnce'  BY DEF WorkersInv, LeftOnce
<1>3. Verdicts' = Verdicts  BY <1>1 DEF Verdicts
<1>4. InOrder => InOrder'  BY <1>1, <1>3 DEF InOrder
<1>5. (Counted' => Counted) /\ (Ruled' => Ruled)
  BY DEF Counted, Ruled
<1> QED  BY <1>1, <1>2, <1>4, <1>5 DEF WorkersInv

LEMMA InitWorkers == ASSUME Init PROVE WorkersInv
<1>1. /\ worker = [p \in Personas |-> "off"] /\ results = <<>> /\ camp.stage = "idle"
      /\ report.there = FALSE
  BY DEF Init, CampInit, NoReport
<1>2. LeftOnce  BY <1>1 DEF LeftOnce
<1> QED  BY <1>1, <1>2 DEF WorkersInv, Counted, Ruled

LEMMA StartWorkers == ASSUME Start PROVE WorkersInv'
<1>1. /\ worker' = [p \in Personas |-> "off"] /\ results' = <<>> /\ judged' = <<>>
      /\ camp'.stage = "personas" /\ report'.there = FALSE
  BY DEF Start, NoReport
<1>2. LeftOnce'  BY <1>1 DEF LeftOnce
<1> QED  BY <1>1, <1>2 DEF WorkersInv, Counted, Ruled

LEMMA FanOutWorkers == ASSUME LostInv, FanOut PROVE WorkersInv'
<1>1. /\ results = <<>> /\ judged = <<>> /\ ~report.there
      /\ UNCHANGED <<results, judged, report>>
      /\ camp'.stage \in {"done", "attacking"}
  BY DEF FanOut, LostInv, DegradedInv, CampShape, EvidenceOfFailure, WorkersInv
<1>2. /\ worker' \in [Personas -> {"off", "running", "done"}]
      /\ \A p \in Personas : worker'[p] # "done"
  BY DEF FanOut
<1>3. LeftOnce'  BY <1>1, <1>2 DEF LeftOnce
<1> QED  BY <1>1, <1>3 DEF WorkersInv, Counted, Ruled

\* A worker that leaves was running, so its output is the first of its persona.
LEMMA LeaveWorkers ==
  ASSUME LostInv, NEW p \in Personas, NEW out \in OutputType, out.persona = p, Running(p),
         Leave(p, out)
  PROVE  WorkersInv'
<1>0. results \in Seq(OutputType) /\ LeftOnce
  BY DEF LostInv, DegradedInv, CountShape, WorkersInv
<1> DEFINE n == Len(results)
<1>1. results' = Append(results, out)  BY <1>0 DEF Leave, Merge
<1>2. n \in Nat /\ Len(results') = n + 1 /\ results'[n + 1] = out
      /\ \A i \in 1..n : results'[i] = results[i]
  BY <1>0, <1>1
<1>3. /\ UNCHANGED <<camp, judged, tally, report>> /\ camp.stage = "attacking"
      /\ worker' = [worker EXCEPT ![p] = "done"] /\ worker[p] = "running"
  BY DEF Leave, Running
<1>4. \A i \in 1..n : results[i].persona # p  BY <1>0, <1>3 DEF LeftOnce
<1> HIDE DEF n
<1>5. 1..n + 1 = (1..n) \cup {n + 1} /\ n + 1 \notin 1..n  BY <1>2
<1>6. LeftOnce'
  <2>1. \A i, j \in 1..n + 1 : results'[i].persona = results'[j].persona => i = j
    <3> SUFFICES ASSUME NEW i \in 1..n + 1, NEW j \in 1..n + 1,
                        results'[i].persona = results'[j].persona
                 PROVE  i = j
      OBVIOUS
    <3>1. CASE i \in 1..n /\ j \in 1..n
      BY <1>0, <1>2, <3>1 DEF LeftOnce, n
    <3>2. CASE i = n + 1 \/ j = n + 1
      BY <1>2, <1>4, <1>5, <3>2
    <3> QED  BY <1>5, <3>1, <3>2
  <2>2. worker' \in [Personas -> {"off", "running", "done"}]
    BY <1>0, <1>3 DEF LeftOnce
  <2>3. ASSUME NEW q \in Personas
        PROVE  worker'[q] = "done" <=> \E i \in 1..n + 1 : results'[i].persona = q
    <3>1. CASE q = p
      <4>1. worker'[q] = "done"  BY <1>0, <1>3, <3>1 DEF LeftOnce
      <4>2. results'[n + 1].persona = q  BY <1>2, <3>1
      <4> QED  BY <1>5, <4>1, <4>2
    <3>2. CASE q # p
      <4>1. worker'[q] = worker[q]  BY <1>0, <1>3, <3>2 DEF LeftOnce
      <4>2. worker[q] = "done" <=> \E i \in 1..n : results[i].persona = q
        BY <1>0 DEF LeftOnce, n
      <4>3. results'[n + 1].persona # q  BY <1>2, <3>2
      <4> QED  BY <1>2, <1>5, <4>1, <4>2, <4>3
    <3> QED  BY <3>1, <3>2
  <2> QED  BY <1>2, <2>1, <2>2, <2>3 DEF LeftOnce
<1>7. ~report.there  BY <1>3 DEF LostInv, DegradedInv, EvidenceOfFailure
<1> QED  BY <1>3, <1>6, <1>7 DEF LostInv, WorkersInv, Counted, Ruled

LEMMA WorkerLeaves ==
  ASSUME LostInv, NEW p \in Personas, WorkerDone(p) \/ WorkerRaises(p) \/ WorkerTimeout(p)
  PROVE  WorkersInv'
<1>1. PICK there \in BOOLEAN, outcome \in {"none", "skipped", "played", "error"},
           jailbreak \in BOOLEAN, error \in {"none", "text", "empty"} :
             Leave(p, Output(p, there, outcome, jailbreak, error))
  BY DEF WorkerDone, WorkerRaises, WorkerTimeout
<1> DEFINE out == Output(p, there, outcome, jailbreak, error)
<1>2. out \in OutputType /\ out.persona = p  BY DEF Output, OutputType
<1>3. Leave(p, out)  BY <1>1
<1>4. Running(p)  BY DEF WorkerDone, WorkerRaises, WorkerTimeout
<1> HIDE DEF out
<1> QED  BY <1>2, <1>3, <1>4, LeaveWorkers

LEMMA CollectWorkers == ASSUME LostInv, Collect PROVE WorkersInv'
<1>1. /\ camp.stage = "attacking" /\ camp'.stage = "judging" /\ camp'.at = 1
      /\ UNCHANGED <<results, judged, worker, report>>
      /\ tally'.attackTotal = Len(results)
  BY DEF Collect, LostInv, DegradedInv, CampShape, CountShape
<1>2. judged = <<>> /\ ~report.there
  BY <1>1 DEF LostInv, WorkersInv, DegradedInv, EvidenceOfFailure
<1>3. LeftOnce'  BY <1>1 DEF LostInv, WorkersInv, LeftOnce
<1>4. Len(Inputs)' \in Nat  OBVIOUS
<1>5. InOrder'  BY <1>1, <1>2, <1>4 DEF InOrder
<1> QED  BY <1>1, <1>2, <1>3, <1>5 DEF WorkersInv, Counted, Ruled

LEMMA JudgeWorkers ==
  ASSUME LostInv, JudgeSkips \/ JudgeRules \/ JudgeRaises PROVE WorkersInv'
<1> DEFINE r == Inputs[camp.at]
<1>1. PICK status \in {"passthrough", "re_evaluated", "judge_error"},
           jailbreak \in BOOLEAN \cup {r.jailbreak}, failed \in BOOLEAN :
             Pass(Judged(r, status, jailbreak), failed)
  BY DEF JudgeSkips, JudgeRules, JudgeRaises
<1>2. camp.stage = "judging" /\ camp.at <= Len(Inputs)
  BY DEF JudgeSkips, JudgeRules, JudgeRaises
<1> DEFINE out == Judged(r, status, jailbreak)
           n   == Len(judged)
<1>3. InOrder /\ camp.at = n + 1 /\ LeftOnce /\ tally.attackTotal = Len(results)
      /\ ~report.there
  BY <1>2 DEF LostInv, WorkersInv, Counted, DegradedInv, EvidenceOfFailure
<1>4. /\ camp'.stage = "judging" /\ camp'.at = camp.at + 1
      /\ UNCHANGED <<results, worker, report>> /\ judged' = Append(judged, out)
      /\ tally'.attackTotal = tally.attackTotal
  BY <1>1, <1>2 DEF Pass, LostInv, DegradedInv, CampShape, CountShape
<1>5. n \in Nat /\ Len(Inputs) \in Nat /\ camp.at \in 1..Len(Inputs)
  BY <1>2, <1>3 DEF InOrder
<1>6. out \in Verdicts /\ out.persona = r.persona
  <2>1. jailbreak \in BOOLEAN \cup {Inputs[i].jailbreak : i \in 1..Len(Inputs)}  BY <1>5
  <2> QED  BY <1>5, <2>1 DEF Verdicts, Judged
<1>7. Inputs' = Inputs  BY <1>4 DEF Inputs
<1>8. Verdicts' = Verdicts  BY <1>7 DEF Verdicts
<1>9. LeftOnce'  BY <1>3, <1>4 DEF LeftOnce
<1> HIDE DEF out
<1>10. /\ judged' \in Seq(Verdicts) /\ Len(judged') = n + 1 /\ judged'[n + 1] = out
       /\ \A i \in 1..n : judged'[i] = judged[i]
  BY <1>3, <1>4, <1>6 DEF InOrder
<1> HIDE DEF n
<1>11. InOrder'
  <2>1. 1..n + 1 = (1..n) \cup {n + 1}  BY <1>5
  <2>2. \A i \in 1..n : judged'[i].persona = Inputs[i].persona
    BY <1>3, <1>10 DEF InOrder, n
  <2>3. \A i \in 1..n + 1 : judged'[i].persona = Inputs[i].persona
    BY <1>3, <1>6, <1>10, <2>1, <2>2
  <2>4. n + 1 <= Len(Inputs)  BY <1>3, <1>5
  <2> QED  BY <1>7, <1>8, <1>10, <2>3, <2>4 DEF InOrder
<1>12. camp'.at = Len(judged') + 1  BY <1>3, <1>4, <1>10
<1> QED  BY <1>3, <1>4, <1>9, <1>11, <1>12 DEF WorkersInv, Counted, Ruled

LEMMA RouteWorkers == ASSUME LostInv, Route PROVE WorkersInv'
<1>1. /\ camp.stage = "judging" /\ camp.at > Len(Inputs)
      /\ camp'.stage \in {"defending", "finalize"}
      /\ UNCHANGED <<results, judged, worker, report>>
      /\ tally'.attackTotal = tally.attackTotal /\ tally'.judgeTotal = Len(Inputs)
  BY DEF Route, LostInv, DegradedInv, CampShape, CountShape
<1>2. InOrder /\ camp.at = Len(judged) + 1 /\ LeftOnce /\ tally.attackTotal = Len(results)
      /\ ~report.there
  BY <1>1 DEF LostInv, WorkersInv, Counted, DegradedInv, EvidenceOfFailure
<1>3. Len(judged) = Len(Inputs)
  <2>1. Len(judged) \in Nat /\ Len(Inputs) \in Nat /\ Len(judged) <= Len(Inputs)
    BY <1>2 DEF InOrder
  <2> QED  BY <1>1, <1>2, <2>1
<1>4. Inputs' = Inputs  BY <1>1 DEF Inputs
<1>5. LeftOnce'  BY <1>1, <1>2 DEF LeftOnce
<1>6. Verdicts' = Verdicts  BY <1>4 DEF Verdicts
<1>7. InOrder'  BY <1>1, <1>2, <1>4, <1>6 DEF InOrder
<1> QED  BY <1>1, <1>2, <1>3, <1>4, <1>5, <1>7 DEF WorkersInv, Counted, Ruled

LEMMA FinalizeWorkers == ASSUME LostInv, Finalize PROVE WorkersInv'
<1>1. /\ camp.stage = "finalize" /\ camp'.stage = "telemetry"
      /\ UNCHANGED <<results, judged, worker, tally>>
      /\ report'.results = Len(judged)
  BY DEF Finalize, LostInv, DegradedInv, CampShape, CountShape
<1>2. InOrder /\ LeftOnce /\ tally.attackTotal = Len(results)
      /\ tally.judgeTotal = Len(Inputs) /\ Len(judged) = Len(Inputs)
  BY <1>1 DEF LostInv, WorkersInv, Counted, Ruled
<1>3. Inputs' = Inputs  BY <1>1 DEF Inputs
<1>4. LeftOnce'  BY <1>1, <1>2 DEF LeftOnce
<1>5. Verdicts' = Verdicts  BY <1>3 DEF Verdicts
<1>6. InOrder'  BY <1>1, <1>2, <1>3, <1>5 DEF InOrder
<1> QED  BY <1>1, <1>2, <1>3, <1>4, <1>6 DEF WorkersInv, Counted, Ruled

\* The steps that touch neither the outputs nor the totals.
LEMMA OtherWorkers ==
  ASSUME LostInv,
         \/ CampaignFails \/ TelemetryFails \/ Defend \/ DefenseRuns \/ Defended \/ Complete
         \/ Activate \/ UNCHANGED vars
         \/ \E p \in Personas : Provider(p) \/ Send(p)
  PROVE  WorkersInv'
<1>1. CASE camp' = camp /\ UNCHANGED <<results, judged, worker, tally, report>>
  <2>1. Inputs' = Inputs  BY <1>1 DEF Inputs
  <2>2. LeftOnce'  BY <1>1 DEF LostInv, WorkersInv, LeftOnce
  <2>3. Verdicts' = Verdicts  BY <2>1 DEF Verdicts
  <2>4. InOrder' <=> InOrder  BY <1>1, <2>1, <2>3 DEF InOrder
  <2>5. (Counted' <=> Counted) /\ (Ruled' <=> Ruled)  BY <1>1 DEF Counted, Ruled
  <2> QED  BY <1>1, <2>1, <2>2, <2>4, <2>5 DEF LostInv, WorkersInv
<1>2. CASE Defend \/ DefenseRuns \/ Activate \/ UNCHANGED vars
  BY <1>1, <1>2 DEF Defend, DefenseRuns, Activate, vars, campVars
<1>3. CASE \E p \in Personas : Provider(p) \/ Send(p)
  BY <1>1, <1>3 DEF Provider, Send, campVars
<1>4. CASE CampaignFails \/ TelemetryFails
  <2>1. camp'.stage = "failed" /\ UNCHANGED <<results, judged, worker, tally, report>>
    BY <1>4 DEF CampaignFails, TelemetryFails, LostInv, DegradedInv, CampShape
  <2> QED  BY <2>1, Settled DEF LostInv
<1>5. CASE Complete
  <2>1. camp'.stage = "done" /\ UNCHANGED <<results, judged, worker, tally>>
    BY <1>5 DEF Complete, LostInv, DegradedInv, CampShape
  <2>2. PICK n, k, t, c :
          report' = [report EXCEPT !.records = n, !.failedRecords = k, !.tagged = t,
                                   !.contained = c]
    BY <1>5 DEF Complete
  <2>3. report'.there = report.there /\ report'.results = report.results
    BY <2>2 DEF LostInv, DegradedInv, CountShape
  <2> QED  BY <2>1, <2>3, Settled DEF LostInv
<1>6. CASE Defended
  <2>1. /\ camp.stage = "defending" /\ camp'.stage \in {"defending", "finalize"}
        /\ UNCHANGED <<results, judged, worker, report>>
    BY <1>6 DEF Defended, LostInv, DegradedInv, CampShape
  <2>2. PICK n, k, e, v :
          tally' = [tally EXCEPT !.defenseTotal = n, !.defenseFailures = k, !.errors = e,
                                 !.validated = v]
    BY <1>6 DEF Defended
  <2>3. tally'.attackTotal = tally.attackTotal /\ tally'.judgeTotal = tally.judgeTotal
    BY <2>2 DEF LostInv, DegradedInv, CountShape
  <2> QED  BY <2>1, <2>3, Settled DEF LostInv
<1> QED  BY <1>2, <1>3, <1>4, <1>5, <1>6

LEMMA NextWorkers == ASSUME SuiteAssumption, LostInv, [Next]_vars PROVE LostInv'
<1>1. DegradedInv'  BY NextDegraded DEF LostInv
<1>2. WorkersInv'
  BY StartWorkers, FanOutWorkers, WorkerLeaves, CollectWorkers, JudgeWorkers, RouteWorkers,
     FinalizeWorkers, OtherWorkers DEF Next, Node, WorkerStep
<1> QED  BY <1>1, <1>2 DEF LostInv

\* There are as many outputs as workers that ended.
LEMMA OneOutputEach ==
  ASSUME LeftOnce, results \in Seq(OutputType)
  PROVE  Len(results) = Cardinality({p \in Personas : worker[p] = "done"})
<1> DEFINE n    == Len(results)
           Done == {p \in Personas : worker[p] = "done"}
           f    == [i \in 1..n |-> results[i].persona]
<1>1. n \in Nat /\ \A i \in 1..n : results[i] \in OutputType  OBVIOUS
<1>2. \A i \in 1..n : results[i].persona \in Personas  BY <1>1 DEF OutputType
<1>3. f \in [1..n -> Done]
  <2>1. \A i \in 1..n : results[i].persona \in Done  BY <1>2 DEF LeftOnce
  <2> QED  BY <2>1
<1>4. \A i, j \in 1..n : f[i] = f[j] => i = j  BY DEF LeftOnce
<1>5. \A p \in Done : \E i \in 1..n : f[i] = p  BY DEF LeftOnce
<1> HIDE DEF f, Done, n
<1>6. f \in Bijection(1..n, Done)  BY <1>3, <1>4, <1>5, Fun_IsBij
<1>7. ExistsBijection(1..n, Done)  BY <1>6, Fun_ExistsBij
<1>8. Cardinality(Done) = n  BY <1>1, <1>7, FS_CountingElements
<1> QED  BY <1>8 DEF n, Done

\* collect_results_node, judge_all_results_node, build_runtime_summary: for every number
\* of personas, and in whatever order the workers end, each leaves one output, each output
\* with a result one verdict, and the report counts them all.
THEOREM EveryWorkerCounts == Spec => []NoWorkerLost
<1>1. Init => LostInv
  BY SuiteAssumption, InitDegraded, InitWorkers DEF LostInv
<1>2. LostInv /\ [Next]_vars => LostInv'  BY SuiteAssumption, NextWorkers
<1>3. LostInv => NoWorkerLost
  <2> SUFFICES ASSUME LostInv, report.there PROVE
        /\ tally.attackTotal = Cardinality({p \in Personas : worker[p] = "done"})
        /\ report.results = tally.judgeTotal
        /\ \A p \in Personas : worker[p] = "done" =>
              /\ Entries(results, p) = 1
              /\ Entries(judged, p) = Entries(Inputs, p)
    BY DEF NoWorkerLost
  <2>1. /\ LeftOnce /\ InOrder /\ results \in Seq(OutputType)
        /\ tally.attackTotal = Len(results)
        /\ tally.judgeTotal = Len(Inputs) /\ Len(judged) = Len(Inputs)
        /\ report.results = Len(judged)
    BY DEF LostInv, DegradedInv, CountShape, WorkersInv, Counted, Ruled
  <2>2. ASSUME NEW p \in Personas, worker[p] = "done" PROVE Entries(results, p) = 1
    <3>1. PICK i \in 1..Len(results) : results[i].persona = p  BY <2>1, <2>2 DEF LeftOnce
    <3>2. {j \in 1..Len(results) : results[j].persona = p} = {i}
      BY <2>1, <3>1 DEF LeftOnce
    <3> QED  BY <3>2, FS_Singleton DEF Entries
  <2>3. ASSUME NEW p \in Personas PROVE Entries(judged, p) = Entries(Inputs, p)
    <3>1. {i \in 1..Len(judged) : judged[i].persona = p}
            = {i \in 1..Len(Inputs) : Inputs[i].persona = p}
      BY <2>1 DEF InOrder
    <3> QED  BY <3>1 DEF Entries
  <2> QED  BY <2>1, <2>2, <2>3, OneOutputEach
<1> QED  BY <1>1, <1>2, <1>3, PTL DEF Spec
=============================================================================

----------------------------- MODULE CampaignMC -----------------------------
(* Model checking of Campaign: two personas, a retry, a suite of one       *)
(* exploit and two benign cases.                                           *)
EXTENDS Campaign

CONSTANTS p1, p2

Ask(door, seam, tagged, preset) ==
    [NoRequest EXCEPT !.door = door, !.seam = seam, !.labelled = TRUE,
                      !.tagged = tagged, !.preset = preset]

\* What the runners of a campaign ask for
MCRequests ==
    {Ask("helper", "target", FALSE, "block_memory_and_outbound"),
     Ask("helper", "target", TRUE, "block_memory_and_outbound"),
     Ask("helper", "target", TRUE, "monitor_only"),
     [Ask("helper", "target", FALSE, "strict_fail_closed") EXCEPT !.legacy = TRUE],
     [Ask("helper", "generation", TRUE, "block_execution_boundary") EXCEPT !.intercepted = TRUE],
     [Ask("adapter", "target", TRUE, "monitor_only") EXCEPT !.decision = "deny", !.legacy = TRUE],
     [Ask("adapter", "target", FALSE, "monitor_only") EXCEPT !.decision = "locked"],
     [Ask("target", "target", TRUE, "monitor_only") EXCEPT !.labelled = FALSE]}

MCFewRequests == {Ask("helper", "target", FALSE, "block_memory_and_outbound")}

MCPrompt  == {"plain"}
MCPrompts == {"plain", "padded"}
MCPadded  == {"padded"}
MCNone    == {}
MCDefault == {TRUE}
MCCustom  == BOOLEAN

-----------------------------------------------------------------------------
Entries(seq, p) == Cardinality({i \in 1..Len(seq) : seq[i].persona = p})

\* The barrier loses no worker: every persona that was launched left one
\* output, and every output with a result is judged and reported once, in
\* whatever order the workers ended.
NoWorkerLost ==
    report.there =>
       /\ tally.attackTotal = Cardinality({p \in Personas : worker[p] = "done"})
       /\ report.results = tally.judgeTotal
       /\ \A p \in Personas : worker[p] = "done" =>
             /\ Entries(results, p) = 1
             /\ Entries(judged, p) = Entries(Inputs, p)

\* A campaign is reported as degraded when, and only when, some attack, judge
\* or defense worker really failed, however its error reads.
DegradedIsTrue == report.there => (report.degraded <=> broken # {})

Mine(s) == {i \in DOMAIN records : records[i].sender = s}

\* A refused action is recorded, and so is what passed the helper: when it ended
\* by itself, without metadata before.
HasRecord(x) == /\ x.req.labelled
                /\ \/ x.req.decision = "deny" /\ ~x.req.legacy
                   \/ Passes(x.req) /\ (x.at \in {"ok", "failed"} \/ x.req.legacy)

\* A send that ended by itself past the helper, or that the controlled adapter
\* refused, has its one record, with the outcome the caller saw; one stopped
\* before, at the locked adapter, unlabelled or cancelled has none.
\* The fallback without metadata has its one record from before its call on,
\* which says it succeeded whatever comes of it.
SendsAreRecorded ==
    camp.stage = "attacking" => \A s \in Senders :
       LET x == sends[s] IN
       IF HasRecord(x)
       THEN \E i \in DOMAIN records :
              /\ Mine(s) = {i}
              /\ records[i].success <=> (x.at = "ok" \/ x.req.legacy)
       ELSE Mine(s) = {}

\* The utility gate accepts a record only when every case of the suite reached
\* the target and passed, whatever was blocked on the way.
PromotableWasReplayed ==
    defense.step = "done" /\ ~defense.error /\ UtilityGate(defense) =>
       /\ Len(defense.cases) = Len(Suite)
       /\ \A i \in DOMAIN Suite : /\ defense.cases[i].kind = Suite[i] /\ defense.cases[i].sent
                                  /\ defense.cases[i].passed /\ ~defense.cases[i].refused

\* A tagged, labelled message never reaches the provider over a boundary that
\* the policy in force protects.
TaggedStaysInside ==
    \A s \in Senders : LET x == sends[s] IN
       x.delivered > 0 /\ x.req.labelled =>
          ~Blocked(x.req, IF x.req.door = "target" THEN "block_memory_and_outbound"
                          ELSE x.req.preset)

\* The worker's deadline ends a campaign whose target never answers.
Fairness == /\ WF_vars(Node)
            /\ \A p \in Personas : WF_vars(WorkerDone(p)) /\ WF_vars(WorkerTimeout(p))

FairSpec == Spec /\ Fairness

CampaignEnds == (camp.stage = "attacking" /\ ~camp.chain) ~> Ended

-----------------------------------------------------------------------------
\* supervisor_routing.py: "no JudgeAgent-confirmed jailbreaks exist",
\* defense_graph.py: "Only called for confirmed jailbreaks (is_jailbreak=True
\* from JudgeWorker)": a defense runs on a verdict the judge gave.
ConfirmedOnly ==
    camp.stage = "defending" /\ camp.at <= Len(Jailbreaks) /\ defense.step # "off" =>
       Jailbreaks[camp.at].status = "re_evaluated"

\* README.md: "A validated candidate passed replay and indexing": the campaign
\* reports as many validated candidates as it added to the memory index.
CandidatesAreIndexed ==
    report.there =>
       report.validated = Cardinality({m \in memory : m.trace[1] = camp.run})

\* guardrail_loader.py: "Guardrails are scoped by `target_model` and the base
\* `system_prompt`": a campaign on a base prompt gets every guardrail that is
\* active for this base prompt.
ScopedByBasePrompt ==
    camp.stage = "personas" =>
       \A m \in memory : m.active /\ m.scope.base = camp.prompt.base =>
                            m.trace \in camp.prompt.clauses
=============================================================================

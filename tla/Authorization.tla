---------------------------- MODULE Authorization ----------------------------
(***************************************************************************)
(* The authorization engine of tools/authorization/: the least-agency      *)
(* policies and the checks of an action in the order the code makes them.  *)
(* A decision reads nothing but the action and the policies; the audit log *)
(* that an engine also keeps is left out.                                  *)
(*                                                                         *)
(* An argument value is known by what the checks tell apart:               *)
(*   plain     a short string, no path and no host of an allow list        *)
(*   long      a string over the limit of every rule of a policy           *)
(*   number    no string                                                   *)
(*   control   a string with a control character                           *)
(*   safe, scratch, outside   an absolute path, by the root it is under    *)
(*             once it is normalized                                       *)
(*   climbing  a path with .. that leaves every root                       *)
(*   listed, unlisted   a host or URL, by _TARGET_LLM_DOMAINS              *)
(*   named     a string the sensitivity catalog lists as high              *)
(***************************************************************************)
EXTENDS Integers, Sequences

CONSTANTS Actions,      \* what the engine is asked
          PolicyLists   \* the policies an engine is built with

\* An action is a record; a policy list is a sequence, and a policy that
\* requires trust levels accepts the trusted one.
ActionAssumption ==
    \A a \in Actions : a = [role |-> a.role, cap |-> a.cap, tool |-> a.tool, args |-> a.args,
                            sensitivity |-> a.sensitivity, trust |-> a.trust,
                            effect |-> a.effect]

PolicyAssumption ==
    \A ps \in PolicyLists :
       /\ Len(ps) \in Nat /\ DOMAIN ps = 1..Len(ps)
       /\ \A i \in DOMAIN ps : ps[i].trusts # {} => "trusted" \in ps[i].trusts

ASSUME InputAssumption == ActionAssumption /\ PolicyAssumption

VARIABLES engine        \* an AuthorizationEngine: its policies, what it was
                        \* asked and what it answered

Values   == {"plain", "long", "number", "control", "safe", "scratch", "outside",
             "climbing", "listed", "unlisted", "named"}
Absolute == {"safe", "scratch", "outside"}

-----------------------------------------------------------------------------
(* capabilities.py, sensitivity.py                                         *)

\* HIGH_RISK_CAPABILITIES, and what the prefixes of classify_capability add to
\* them among the names that src uses
HighRisk == {"agent.delegate", "db.export", "db.write", "file.write", "file.delete",
             "file.chmod", "http.post", "memory.write", "network.egress", "prompt.update",
             "secrets.read", "shell.exec", "system.update", "prompt.exfiltration"}

\* SENSITIVITY_ORDER; an unknown level counts as high.
Level(s) == CASE s = "low" -> 0 [] s = "medium" -> 1 [] OTHER -> 2

\* DEFAULT_SENSITIVITY_CATALOG
HighOnes   == {"agent.delegate", "db.export", "db.write", "http.post", "prompt.update",
               "secrets.read", "shell.exec", "system.update"}
MediumOnes == {"file.write", "memory.write"}

CatalogKeys == {"resource", "resource_id", "target", "path", "table", "url", "domain"}

\* authoritative_sensitivity: the highest entry for the capability, the tool or an
\* argument
Authoritative(a) ==
    IF \/ {a.cap, a.tool} \cap HighOnes # {}
       \/ \E k \in DOMAIN a.args \cap CatalogKeys : a.args[k] = "named"
    THEN "high" ELSE IF {a.cap, a.tool} \cap MediumOnes # {} THEN "medium" ELSE "none"

Spoofed(a) == /\ Authoritative(a) # "none"
              /\ Level(a.sensitivity) < Level(Authoritative(a))

\* The decision is made on the higher of the asserted and the catalogued level.
Raised(a) == IF Spoofed(a) THEN [a EXCEPT !.sensitivity = Authoritative(a)] ELSE a

-----------------------------------------------------------------------------
(* validation.py: a schema maps a key to the values its rule accepts       *)

Strings     == Values \ {"number", "control"}
Text        == Strings \ {"long"}
AnyPath     == Text                                 \* allow_absolute, kind plain
RelativePath == Text \ (Absolute \cup {"climbing"})  \* kind path

DefaultSchema(cap) ==
    CASE cap = "docs.search"   -> [k \in {"query"} |-> Strings]
      [] cap = "lookup_status" -> [k \in {"tenant"} |-> Text]
      [] cap = "secrets.read"  -> [k \in {"path"} |-> RelativePath]
      [] cap = "tool.read"     -> [k \in {"resource"} |-> Text]
      [] cap = "web.fetch"     -> [k \in {"url"} |-> Text]
      [] OTHER                 -> [k \in {} |-> {}]

Within(args, schema) == \A k \in DOMAIN args : k \in DOMAIN schema /\ args[k] \in schema[k]

Concerns(a, p) == a.role \in p.roles /\ a.cap \in p.allowed

\* argument_keys_match_policy
KeysMatch(a, p) == DOMAIN a.args \subseteq DOMAIN p.schema /\ p.required \subseteq DOMAIN a.args

\* validate_arguments: every policy that concerns the action must accept them.
ArgumentsValid(a, ps) ==
    /\ \A k \in DOMAIN a.args : a.args[k] # "control"
    /\ \A i \in DOMAIN ps : Concerns(a, ps[i]) =>
          KeysMatch(a, ps[i]) /\ Within(a.args, ps[i].schema)
    /\ \/ \E i \in DOMAIN ps : Concerns(a, ps[i])
       \/ Within(a.args, DefaultSchema(a.cap))

-----------------------------------------------------------------------------
(* policy_matching.py                                                      *)

\* matches_denied_policy
Denies(a, p) == /\ a.role \in p.roles /\ a.cap \in p.denied
                /\ p.trusts = {} \/ a.trust \notin p.trusts

\* matches_path_prefix; matches_allowed_domain takes the first of three keys.
InPaths(a, p)   == "path" \in DOMAIN a.args /\ a.args["path"] \in p.paths
InDomains(a, p) ==
    LET Key == IF "domain" \in DOMAIN a.args THEN "domain"
               ELSE IF "host" \in DOMAIN a.args THEN "host" ELSE "url"
    IN Key \in DOMAIN a.args /\ a.args[Key] = "listed"

\* matches_allowed_policy
Matches(a, p) == /\ Concerns(a, p)
                 /\ p.paths # {} => InPaths(a, p)
                 /\ p.domains => InDomains(a, p)
                 /\ KeysMatch(a, p)

Scoped(p) == p.paths # {} \/ p.domains

\* Mutant of OutOfScope: the first policy that concerns the action settles it.
OutOfScopeOfFirst(a, ps) ==
    \E i \in DOMAIN ps : /\ Concerns(a, ps[i]) /\ Scoped(ps[i]) /\ ~Matches(a, ps[i])
                         /\ \A j \in DOMAIN ps : j < i => ~Concerns(a, ps[j])

\* matches_scoped_allow_without_scope
OutOfScope(a, ps) ==
    \E i \in DOMAIN ps : Concerns(a, ps[i]) /\ Scoped(ps[i]) /\ ~Matches(a, ps[i])

\* The policies of one kind that match; the first of them decides.
Grants(a, ps, kind) == {i \in DOMAIN ps : ps[i].decision = kind /\ Matches(a, ps[i])}
FirstAllows(a, ps) ==
    LET G == Grants(a, ps, "allow")
    IN \E i \in G : (\A j \in G : i <= j) /\ Level(a.sensitivity) <= Level(ps[i].max)

\* requires_trusted_fallback_escalation
NeedsApproval(a) == \/ a.effect # "read"
                    \/ Level(a.sensitivity) > Level("medium")
                    \/ a.cap \in HighRisk

\* Mutant of Guarded: the raised level is trusted to have stopped the action.
GuardedByLevel(d, spoofed) == d

\* apply_sensitivity_guard: an understated action is escalated at best.
Guarded(d, spoofed) == IF spoofed /\ d = "allow" THEN "deny" ELSE d

\* _compute_decision after the arguments were accepted
Ruled(a, ps) ==
    IF \E i \in DOMAIN ps : Denies(a, ps[i]) THEN "deny"
    ELSE IF Grants(a, ps, "escalate") # {} THEN "escalate"
    ELSE IF OutOfScope(a, ps) THEN "deny"
    ELSE IF Grants(a, ps, "allow") # {}
         THEN IF FirstAllows(a, ps) THEN "allow" ELSE "escalate"
    ELSE IF a.trust # "trusted" THEN "deny"
    ELSE IF NeedsApproval(a) THEN "escalate" ELSE "allow"

\* _compute_decision; derived and untrusted lineage never gets a risky capability.
Decide(a, ps) ==
    IF \/ a.trust # "trusted" /\ a.cap \in HighRisk
       \/ ~ArgumentsValid(a, ps)
    THEN "deny"
    ELSE Guarded(Ruled(Raised(a), ps), Spoofed(a))

-----------------------------------------------------------------------------
(* presets.py                                                              *)

Policy(id, roles, allowed, denied) ==
    [id |-> id, roles |-> roles, allowed |-> allowed, denied |-> denied, trusts |-> {},
     max |-> "high", decision |-> "allow", schema |-> [k \in {} |-> {}], required |-> {},
     paths |-> {}, domains |-> FALSE]

ReadOnlyRetriever ==
    [Policy("read-only-retriever", {"retriever", "analyst", "tool_executor"},
            {"lookup_status", "web.fetch", "tool.read"}, {})
     EXCEPT !.schema = [k \in {"tenant", "url", "domain", "resource"} |-> Text]]

ReplayKeys == {"trace_id", "case_id", "kind", "prompt_sha256"}

DefenseValidatorReplay ==
    [Policy("defense-validator-replay", {"defense_validator"}, {"target.replay"}, {})
     EXCEPT !.schema = [k \in ReplayKeys |-> Text], !.required = ReplayKeys, !.max = "medium"]

DenyRiskyDerivedActions ==
    [Policy("deny-risky-derived-actions",
            {"tool_executor", "privileged_executor", "executor"}, {},
            HighRisk \ {"prompt.exfiltration"})
     EXCEPT !.trusts = {"trusted"}, !.decision = "deny"]

EscalateHighSensitivityWrites ==
    [Policy("escalate-high-sensitivity-writes", {"privileged_executor", "executor"},
            {"db.write", "memory.write", "file.write"}, {})
     EXCEPT !.schema = [k \in {"table", "entry", "path"} |->
                           IF k = "path" THEN RelativePath ELSE Text],
            !.max = "medium", !.decision = "escalate"]

FsReadOnly ==
    [Policy("fs-read-only", {"filesystem_reader", "retriever", "analyst", "tool_executor"},
            {"file.read"}, {"file.write", "file.delete", "file.chmod"})
     EXCEPT !.schema = [k \in {"path"} |-> AnyPath], !.paths = {"safe"}]

ScratchDirOnly ==
    [Policy("scratch-dir-only", {"filesystem_writer", "executor", "tool_executor"},
            {"file.read", "file.write", "file.delete"}, {"file.chmod"})
     EXCEPT !.schema = [k \in {"path"} |-> AnyPath], !.paths = {"scratch"}]

EgressAllowlist ==
    [Policy("egress-allowlist",
            {"network_client", "executor", "tool_executor", "retriever", "analyst"},
            {"network.egress", "http.post", "web.fetch"}, {})
     EXCEPT !.schema = [k \in {"domain", "url", "host"} |-> Text], !.domains = TRUE]

DefaultPolicies ==
    <<ReadOnlyRetriever, DefenseValidatorReplay, DenyRiskyDerivedActions,
      EscalateHighSensitivityWrites, FsReadOnly, ScratchDirOnly, EgressAllowlist>>

-----------------------------------------------------------------------------
(* engine.py                                                               *)

NoArguments == [k \in {} |-> "plain"]

Action(role, cap, tool, args, sensitivity, trust, effect) ==
    [role |-> role, cap |-> cap, tool |-> tool, args |-> args, sensitivity |-> sensitivity,
     trust |-> trust, effect |-> effect]

NoAction == Action("none", "none", "none", NoArguments, "low", "trusted", "read")

\* The actions src itself asks about: a tool's suggestion, the confused deputy,
\* the replay of a defense; the tool is named like the capability
SuggestedBy(cap) == Action("tool_executor", cap, cap, [k \in {"source_tool"} |-> "plain"],
                           "high", "untrusted", "execute")
ConfusedDeputy == Action("privileged_executor", "db.export", "db.export",
                         [k \in {"table", "limit"} |-> IF k = "limit" THEN "number" ELSE "plain"],
                         "high", "derived", "exfiltrate")
ReplayCase == Action("defense_validator", "target.replay", "target.replay",
                     [k \in ReplayKeys |-> "plain"],
                     "low", "trusted", "execute")

AuthorizationInit ==
    \E ps \in PolicyLists : engine = [policies |-> ps, asked |-> NoAction, answer |-> "none"]

\* authorize
Authorize(a) ==
    /\ engine.answer = "none"
    /\ engine' = [engine EXCEPT !.asked = a, !.answer = Decide(a, engine.policies)]

AuthorizationNext == \E a \in Actions : Authorize(a)

AuthorizationSpec == AuthorizationInit /\ [][AuthorizationNext]_engine

-----------------------------------------------------------------------------
Rank(d) == CASE d = "deny" -> 0 [] d = "escalate" -> 1 [] OTHER -> 2

Answered == engine.answer # "none"
Ask(a)   == Decide(a, engine.policies)

\* An action that understates its target is never allowed, and never gets more
\* than the same action with the catalogued level, under any policies.
SpoofNeverHelps ==
    Answered /\ Spoofed(engine.asked) =>
       LET honest == [engine.asked EXCEPT !.sensitivity = Authoritative(engine.asked)]
       IN /\ engine.answer # "allow"
          /\ Rank(engine.answer) <= Rank(Ask(honest))

\* Derived or untrusted lineage never gets more than a trusted one would.
TrustMonotone ==
    Answered =>
       Rank(engine.answer) <= Rank(Ask([engine.asked EXCEPT !.trust = "trusted"]))

PoliciesOf(ps) == {ps[i] : i \in DOMAIN ps}

\* For an action that states its target truly the order of the policies settles
\* between allow and escalate at most: engines built with the same policies, in
\* whatever order and however often repeated, all deny it or none does.
DenialIgnoresOrder ==
    Answered /\ ~Spoofed(engine.asked) =>
       \A qs \in PolicyLists : PoliciesOf(qs) = PoliciesOf(engine.policies) =>
          ((engine.answer = "deny") <=> (Decide(engine.asked, qs) = "deny"))
=============================================================================

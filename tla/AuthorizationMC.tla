--------------------------- MODULE AuthorizationMC ---------------------------
(* Model checking of Authorization: every combination of a role, a         *)
(* capability, an argument, a level, a lineage and an effect, under the    *)
(* default policies in three orders, a single preset and none.             *)
EXTENDS Authorization, SequencesExt, TLC

MCRoles == {"tool_executor", "executor", "filesystem_writer", "retriever",
            "network_client", "defense_validator"}
MCCaps  == {"tool.read", "file.read", "file.write", "http.post", "web.fetch",
            "memory.write", "docs.search", "target.replay"}
MCArgs  == {NoArguments, ReplayCase.args, "resource" :> "named", "entry" :> "long",
            "host" :> "listed"}
           \cup {"path" :> v : v \in {"safe", "scratch", "climbing", "plain"}}
           \cup {"url" :> v : v \in {"listed", "unlisted", "named"}}

MCActions == {Action(r, c, c, x, s, t, e) : r \in MCRoles, c \in MCCaps, x \in MCArgs,
                 s \in {"low", "high"}, t \in {"trusted", "derived"}, e \in {"read", "write"}}
             \cup {Action(r, "tool.read", tool, NoArguments, s, t, "read") :
                    r \in MCRoles, tool \in {"db.write", "file.write", "docs.search"},
                    s \in {"low", "medium", "high"}, t \in {"trusted", "derived"}}
             \cup {SuggestedBy(c) : c \in {"shell.exec", "prompt.exfiltration", "retry.loop"}}
             \cup {ConfusedDeputy, ReplayCase}

\* Two grants of one capability with different limits: their order matters.
MCStrict == [Policy("strict", {"executor", "network_client"}, {"http.post", "memory.write"}, {})
             EXCEPT !.schema = [k \in {"url", "entry"} |-> Text], !.max = "medium"]

MCPolicyLists == {DefaultPolicies, Reverse(DefaultPolicies),
                  SubSeq(DefaultPolicies, 5, 7) \o SubSeq(DefaultPolicies, 1, 4),
                  <<FsReadOnly>>, <<EgressAllowlist, MCStrict>>, <<MCStrict, EgressAllowlist>>,
                  <<EgressAllowlist, MCStrict, EgressAllowlist>>, <<>>}
=============================================================================

--------------------------- MODULE MaterialVaultMC ---------------------------
(* Model checking of MaterialVault: a Spiritual Spell fixture, one of       *)
(* JailbreakBench, whose risk is in no catalog, and imports that pass and   *)
(* fail each gate.                                                          *)
EXTENDS MaterialVault, TLC

CONSTANTS s1, b1, i1, i2

\* Importers are interchangeable.
Importing == Permutations({i1, i2})

MCRiskOf == s1 :> "prompt_injection" @@ b1 :> "unsafe_cyber_assistance"
MCStrategyOf == [f \in Fixtures |-> "static_seed_replay"]

Job(f, class, t, names, targets, nonlocal) ==
  [fixture |-> f, class |-> class, text |-> t, by |-> "owner", reviewers |-> names,
   targets |-> targets, nonlocal |-> nonlocal]

Approved(f, t, targets, nonlocal) ==
  Job(f, "approved_replay_seed", t, {"second"}, targets, nonlocal)

\* Approved for local-dev; for a live target alone, without the override and with it,
\* the latter for the other source; with one name and a blank one; redacted.
MCJobs ==
  {Approved(s1, "t1", {"local-dev"}, FALSE),
   Approved(s1, "t1", {"live"}, FALSE), Approved(b1, "t1", {"live"}, TRUE),
   Job(s1, "redacted", "t3", {}, {"local-dev"}, FALSE)}
  \cup {Job(s1, "approved_replay_seed", "t3", names, {"local-dev"}, FALSE) :
            names \in {{}, {"blank"}}}

\* Two approved texts of one fixture, and a fixture of the other source.
MCReimports == {Approved(s1, t, {"local-dev"}, FALSE) : t \in {"t1", "t2"}}
               \cup {Approved(b1, "t1", {"local-dev"}, FALSE)}
=============================================================================

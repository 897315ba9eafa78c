-------------------------- MODULE ResearchDaemonMC --------------------------
(* Model-checking instance of ResearchDaemon: the identities of proposals  *)
(* and daemons are interchangeable, which ResearchDaemonExclusive.cfg uses *)
(* as symmetry; the other runs check liveness and must not.                *)
EXTENDS ResearchDaemon, TLC

Identities == Permutations(Proposals) \cup Permutations(Daemons)
=============================================================================

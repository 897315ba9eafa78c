-------------------------- MODULE SourceMutationMC --------------------------
(* Instances of source mutation: two attack sources and a defense source.  *)
EXTENDS SourceMutation, TLC

CONSTANTS f1, f2, g1

AttackAndDefense == f1 :> "phase5" @@ f2 :> "phase5" @@ g1 :> "phase6"
AttackOnly == f1 :> "phase5" @@ f2 :> "phase5"

Sources == Permutations(Files)

=============================================================================

--------------------------- MODULE ResearchBatchMC ---------------------------
(* Instances of the research cycle: the same objectives in both packs.     *)
EXTENDS ResearchBatch, TLC

CONSTANTS a, b, c

Two == <<a, b>>
Three == <<a, b, c>>

\* The target holds against b, and gives way to the others now and then.
Weakness == a :> {"blocked", "defended"} @@ b :> {"blocked"}
WeaknessOfThree == a :> {"blocked", "breached"} @@ b :> {"blocked", "breached"} @@ c :> {"blocked", "breached"}

=============================================================================

--------------------------- MODULE AttackRunnerMC ---------------------------
EXTENDS AttackRunner

\* personas that exercise every branch of derive_strategies
MCPersonas ==
    {[allowed |-> a, triggers |-> t] :
        a \in {<<>>, << <<"own">> >>}, t \in {<<>>, <<"authority">>}}
=============================================================================

--------------------------- MODULE IndependentMC ---------------------------
(* One run for the parts that share no state with a campaign or with each  *)
(* other: an attack runner on its own, the authorization engine, the GEPA  *)
(* lanes, the vault of reviewed material and the batches of personas.  A   *)
(* behaviour is about one of them, and leaves the others as they are.      *)
EXTENDS AttackRunnerMC, AuthorizationMC, GepaMC, MaterialVaultMC, PersonaBatchMC

VARIABLE subject

independentVars == <<subject, attackVars, engine, gepaVars, vaultVars, batchVars>>

\* Every initial state of the subject, one of the others
IndependentInit ==
    /\ subject \in {"attack", "engine", "gepa", "vault", "batch"}
    /\ AttackInit /\ AuthorizationInit /\ GepaInit /\ VaultInit /\ BatchInit
    /\ subject # "attack" =>
          /\ algorithm = "pair" /\ ~atkDry /\ ~narrative.on
          /\ atkThreshold = Min(SuccessThresholds)
          /\ strategies = DeriveStrategies(CHOOSE p \in Personas : TRUE, FALSE)
    /\ subject # "engine" => engine.policies = <<>>
    /\ subject # "gepa" => spike.plan = <<"prompt">>

IndependentNext ==
    \/ subject = "attack" /\ AttackNext
         /\ UNCHANGED <<subject, engine, gepaVars, vaultVars, batchVars>>
    \/ subject = "engine" /\ ~Answered /\ AuthorizationNext
         /\ UNCHANGED <<subject, attackVars, gepaVars, vaultVars, batchVars>>
    \/ subject = "gepa" /\ GepaNext
         /\ UNCHANGED <<subject, attackVars, engine, vaultVars, batchVars>>
    \/ subject = "vault" /\ VaultNext
         /\ UNCHANGED <<subject, attackVars, engine, gepaVars, batchVars>>
    \/ subject = "batch" /\ BatchNext
         /\ UNCHANGED <<subject, attackVars, engine, gepaVars, vaultVars>>

IndependentSpec == IndependentInit /\ [][IndependentNext]_independentVars
=============================================================================

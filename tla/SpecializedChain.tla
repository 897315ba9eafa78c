-------------------------- MODULE SpecializedChain --------------------------
(***************************************************************************)
(* The agent_chain algorithm: src/redthread/orchestration/agents runs      *)
(* Recon, then Social, then Exploit over one phase state.  Every phase     *)
(* catches its own exceptions, so the chain always reaches the end; the    *)
(* adapter turns any phase error into the outcome ERROR.                   *)
(***************************************************************************)
EXTENDS AttackCommon

CONSTANT ReconProbes    \* number of probes of ReconAgent

ASSUME ChainAssumption == ReconProbes \in Nat \ {0}

VARIABLES
    chainPc,       \* "recon", "social", "exploit"
    chainStep,     \* probes sent in recon; 0 before, 1 after the attacker's message
    chainErrors,   \* phase_errors: the phases that caught an exception
    chainBreak     \* metadata.specialized_is_jailbreak, the exploit phase's heuristic

chainVars == <<chainPc, chainStep, chainErrors, chainBreak>>

ChainInit == chainPc = "recon" /\ chainStep = 0 /\ chainErrors = <<>> /\ chainBreak = FALSE

ChainSkip ==
    /\ Running("agent_chain") /\ atkDry
    /\ Finish("skipped", NoVerdict)
    /\ UNCHANGED <<atkSettings, atkSends, atkTurns, chainVars>>

ChainTurn(phase) == atkTurns' = Append(atkTurns, [phase |-> phase])
ChainError(phase) == /\ chainErrors' = Append(chainErrors, phase)
                     /\ UNCHANGED atkTurns

\* ReconAgent.run: a probe that fails is noted and the next one is still sent
ReconProbe ==
    /\ Running("agent_chain") /\ ~atkDry /\ chainPc = "recon"
    /\ Sent
    /\ (ChainTurn("recon") /\ UNCHANGED chainErrors) \/ ChainError("recon")
    /\ chainStep' = IF chainStep + 1 = ReconProbes THEN 0 ELSE chainStep + 1
    /\ chainPc' = IF chainStep + 1 = ReconProbes THEN "social" ELSE "recon"
    /\ UNCHANGED <<atkSettings, atkStage, atkVerdict, atkOutcome, chainBreak>>

\* SocialAgent.run and ExploitAgent.run: the attacker's message
PhaseMessage(phase) ==
    /\ chainPc = phase /\ chainStep = 0
    /\ chainStep' = 1
    /\ UNCHANGED <<atkStage, atkTurns, atkVerdict, atkOutcome, chainPc, chainErrors, chainBreak>>

\* ... and the end of the phase, by the target's answer or by an exception of either send
PhaseEnd(phase) ==
    /\ chainPc = phase
    /\ \/ chainStep = 1 /\ ChainTurn(phase) /\ UNCHANGED chainErrors
       \/ ChainError(phase)

SocialPhase ==
    /\ Running("agent_chain") /\ Sent /\ UNCHANGED atkSettings
    /\ \/ PhaseMessage("social")
       \/ /\ PhaseEnd("social")
          /\ chainPc' = "exploit" /\ chainStep' = 0
          /\ UNCHANGED <<atkStage, atkVerdict, atkOutcome, chainBreak>>

\* run_specialized_attack: the verdict is always unconfirmed, the outcome ERROR or FAILURE
ExploitPhase ==
    /\ Running("agent_chain") /\ Sent /\ UNCHANGED atkSettings
    /\ \/ PhaseMessage("exploit")
       \/ /\ PhaseEnd("exploit")
          /\ chainBreak' \in (IF atkTurns' = atkTurns THEN {FALSE} ELSE BOOLEAN)
          /\ Finish(IF chainErrors' # <<>> THEN "error" ELSE "failure", NoVerdict)
          /\ UNCHANGED <<chainPc, chainStep>>

ChainNext == ChainSkip \/ ReconProbe \/ SocialPhase \/ ExploitPhase
=============================================================================

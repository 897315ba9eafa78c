------------------------- MODULE PromotionBoundary -------------------------
(***************************************************************************)
(* What promotion promises: research evidence becomes an active guardrail  *)
(* in three moves that nobody can skip.  The operator accepts a proposal;  *)
(* a replay of the gates clears traces for that proposal; a cleared trace  *)
(* is activated, once.  Nothing is ever taken back.                        *)
(***************************************************************************)
CONSTANTS Proposals, Evidence

VARIABLES approved, cleared, active

vars == <<approved, cleared, active>>

Init ==
  /\ approved = {}
  /\ cleared = [p \in Proposals |-> {}]
  /\ active = {}

Approve(p) ==
  /\ approved' = approved \cup {p}
  /\ UNCHANGED <<cleared, active>>

Clear(p, traces) ==
  /\ p \in approved
  /\ cleared' = [cleared EXCEPT ![p] = @ \cup traces]
  /\ UNCHANGED <<approved, active>>

Activate(t) ==
  /\ t \notin active
  /\ \E p \in Proposals : t \in cleared[p]
  /\ active' = active \cup {t}
  /\ UNCHANGED <<approved, cleared>>

Next ==
  \/ \E p \in Proposals : Approve(p)
  \/ \E p \in Proposals, traces \in SUBSET Evidence : Clear(p, traces)
  \/ \E t \in Evidence : Activate(t)

Spec == Init /\ [][Next]_vars

=============================================================================

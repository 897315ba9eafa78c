---------------------------- MODULE PromotionMC ----------------------------
(* Instances of promotion.  Each trace has a clause of its own.            *)
EXTENDS Promotion, TLC

CONSTANTS w1, w2, n1, p1, p2, t1, t2, t3, u1

OwnClause == [t \in Traces |-> t]

\* The promotion of p1 sorts last.
Ranked == [p \in Proposals |-> IF p = p1 THEN 2 ELSE 1]

=============================================================================

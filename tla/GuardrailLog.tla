---------------------------- MODULE GuardrailLog ----------------------------
(***************************************************************************)
(* What the memory index promises its writers: a log of deployment records *)
(* that only grows, one record at a time, and never holds two records of   *)
(* one trace.                                                              *)
(***************************************************************************)
EXTENDS Sequences

CONSTANTS Traces, Statuses

VARIABLE log

Record == [trace : Traces, status : Statuses]

Logged(t) == \E i \in DOMAIN log : log[i].trace = t

Init == log = <<>>

Add(r) == ~Logged(r.trace) /\ log' = Append(log, r)

Next == \E r \in Record : Add(r)

Spec == Init /\ [][Next]_log

=============================================================================

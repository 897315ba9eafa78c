------------------------------- MODULE GepaMC -------------------------------
(* Model checking of Gepa: the seed, two mutations and one that strays, two *)
(* validation objectives of which one is also the control objective, as    *)
(* run_prompt_profile_spike selects them when no slug is given.            *)
EXTENDS Gepa

CONSTANTS seed, bold, meek, stray, o1, o2

MCResults == {[asr |-> 0, score |-> 1], [asr |-> 2, score |-> 5]}

MCPlans == {<<"prompt">>, <<"shadow", "shadow">>, <<"defense", "source">>}

-----------------------------------------------------------------------------
\* What build_frontier_payload says of its frontier, "unsafe candidates cannot
\* survive as specialists": each member passed the control gate.  The only
\* candidate that is ever run on the control objectives is the best one.
MembersPassedControl == Members \subseteq {disk.frontier.best}
=============================================================================

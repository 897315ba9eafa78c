--------------------------- MODULE PersonaBatchMC ---------------------------
(* Model checking of PersonaBatch: three layers, whose alphabetical order   *)
(* is not that of the fields, batches smaller and larger than the profile. *)
EXTENDS PersonaBatch, TLC

CONSTANTS plain, distraction, guardrail

MCFields == <<plain, distraction, guardrail>>
MCRank == guardrail :> 1 @@ plain :> 2 @@ distraction :> 3
MCLayerProfiles == {{}, {distraction, plain}, {plain, distraction, guardrail}}
MCEditedPlans == {guardrail :> 25 @@ plain :> 250}
MCUnasked == {{distraction}}
=============================================================================

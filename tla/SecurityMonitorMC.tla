-------------------------- MODULE SecurityMonitorMC --------------------------
(* Model checking of SecurityMonitor with one canary, two warmup prompts   *)
(* and an alert threshold a campaign can really fall below: at the default *)
(* one the three defaulted scores alone keep the monitor quiet.            *)
EXTENDS SecurityMonitor

CONSTANTS a1, a2

-----------------------------------------------------------------------------
\* A monitor that was interrupted, or is idle when it was asked to stop, ends,
\* and no campaign it started outlives it (_cancel_active_tasks).
MonitorEnds ==
    (mon.cancelled \/ (mon.stop /\ mon.at \in Idling)) ~>
       (mon.at = "off" /\ \A t \in 1..MaxTasks : tasks[t].at \in {"none", "done"})

\* What start() says of itself, "with transient error tolerance": probes that
\* fail do not end the monitor.
ToleratesProbeFailures == mon.at # "fatal"
=============================================================================

----------------------------- MODULE ServicesMC -----------------------------
(* One run for two components that share no state: the memory index and the*)
(* security monitor.  A behaviour is about one of them; the other one stays*)
(* as it started.                                                          *)
EXTENDS MemoryIndexMC, SecurityMonitorMC

VARIABLE service

serviceVars == <<service, indexVars, monitorVars>>

ServicesInit == service \in {"index", "monitor"} /\ IndexInit /\ MonitorInit

ServicesNext ==
    \/ service = "index" /\ IndexNext /\ UNCHANGED <<service, monitorVars>>
    \/ service = "monitor" /\ MonitorNext /\ UNCHANGED <<service, indexVars>>

OfIndex(A) == service = "index" /\ A /\ UNCHANGED <<service, monitorVars>>

OfMonitor(A) == service = "monitor" /\ A /\ UNCHANGED <<service, indexVars>>

\* FairIndexSpec and MonitorFairness, with the other service at rest.
ServicesSpec ==
    /\ ServicesInit /\ [][ServicesNext]_serviceVars
    /\ \A w \in Writers : WF_serviceVars(OfIndex(AppendStep(w) /\ UNCHANGED loaderVars))
    /\ WF_serviceVars(OfMonitor(LoopEnds)) /\ WF_serviceVars(OfMonitor(Cancelled))
    /\ WF_serviceVars(OfMonitor(Shutdown))
    /\ \A t \in 1..MaxTasks : WF_serviceVars(OfMonitor(TaskCancelled(t)))
=============================================================================

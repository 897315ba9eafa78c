----------------------- MODULE ResearchDaemonProofs -----------------------
(* Proofs about ResearchDaemon for any number of daemons and proposals. *)
EXTENDS ResearchDaemon, TLAPS

\* The missing state file is a state.
LEMMA NoStateType == NoState \in DaemonState
BY DEF NoState, DaemonState, Statuses, FailuresToHalt

\* A process outside the daemon has local variables of their types.
LEMMA IdleType == Idle \in Local
BY NoStateType DEF Idle, Local, Locations, InTry

\* A change of the status gives a state,
LEMMA StatusUpdate ==
  ASSUME NEW s \in DaemonState, NEW x \in Statuses
  PROVE  [s EXCEPT !.status = x] \in DaemonState
BY DEF DaemonState

\* and so does a completed step,
LEMMA CompletedType ==
  ASSUME NEW s \in DaemonState, NEW x \in Statuses, NEW p \in Proposals \cup {None}
  PROVE  Completed(s, x, p) \in DaemonState
BY DEF Completed, DaemonState, FailuresToHalt

\* and a failed one: the counter saturates where the daemon halts.
LEMMA FailedType ==
  ASSUME NEW s \in DaemonState, NEW message \in BOOLEAN
  PROVE  Failed(s, message) \in DaemonState
<1> DEFINE n == IF s.failures < FailuresToHalt THEN s.failures + 1 ELSE s.failures
           counted == [s EXCEPT !.failures = n, !.unsafe = message]
<1>1. n \in 0..FailuresToHalt
  BY DEF DaemonState, FailuresToHalt
<1>2. counted \in DaemonState
  BY <1>1 DEF DaemonState
<1>3. [counted EXCEPT !.status = "halted"] \in DaemonState
  BY <1>2 DEF DaemonState, Statuses
<1>4. [counted EXCEPT !.status = "cooldown", !.deadline = TRUE] \in DaemonState
  BY <1>2 DEF DaemonState, Statuses
<1> QED
  BY <1>2, <1>3, <1>4 DEF Failed

\* The updates that the actions make to a daemon's local variables keep their types.
LEMMA LocalUpdates ==
  ASSUME NEW l \in Local
  PROVE  /\ l.mem \in DaemonState /\ l.emitted \in Proposals \cup {None}
         /\ l.next \in Statuses /\ l.unsafe \in BOOLEAN /\ l.returns \in BOOLEAN
         /\ \A x \in Locations : [l EXCEPT !.pc = x] \in Local
         /\ \A x \in Locations, b \in BOOLEAN : 
              /\ [l EXCEPT !.pc = x, !.recover = b] \in Local
              /\ [l EXCEPT !.pc = x, !.unsafe = b] \in Local
              /\ [l EXCEPT !.pc = x, !.returns = b] \in Local
              /\ [l EXCEPT !.pc = x, !.harness = b] \in Local
         /\ \A x \in Locations, s \in DaemonState : 
               [l EXCEPT !.mem = s, !.pc = x] \in Local
         /\ \A x \in Locations, p \in Proposals \cup {None} : 
               [l EXCEPT !.pc = x, !.emitted = p] \in Local
         /\ \A x \in Locations, p \in Proposals \cup {None} : 
              \A y \in {"running", "awaiting_review"} : 
               [l EXCEPT !.pc = x, !.next = y, !.emitted = p] \in Local
BY DEF Local, Statuses

\* No command is a command's state.
LEMMA NoCommandType == NoCommand \in Operator
BY NoStateType DEF Operator, NoCommand, Commands

\* The updates that the operator's commands make keep their types.
LEMMA OperatorUpdates ==
  ASSUME NEW o \in Operator, NEW x \in Commands
  PROVE  /\ o.mem \in DaemonState /\ o.proposal \in Proposals \cup {None}
         /\ [o EXCEPT !.pc = x] \in Operator
         /\ \A s \in DaemonState : [o EXCEPT !.pc = x, !.mem = s] \in Operator
         /\ \A p \in Proposals : [o EXCEPT !.pc = x, !.proposal = p] \in Operator
BY DEF Operator

\* The ways in which a daemon moves on keep the types of all daemons:
LEMMA BecomeType ==
  ASSUME proc \in [Daemons -> Local], NEW d \in Daemons, NEW l \in Local, Become(d, l)
  PROVE  proc' \in [Daemons -> Local]
BY DEF Become

\* to a location, with or without its local variables,
LEMMA GotoType ==
  ASSUME proc \in [Daemons -> Local], NEW d \in Daemons, NEW x \in Locations,
         Goto(d, x) \/ Forget(d, x)
  PROVE  proc' \in [Daemons -> Local]
<1>1. proc[d] \in Local
  OBVIOUS
<1>2. [proc[d] EXCEPT !.pc = x] \in Local /\ [Idle EXCEPT !.pc = x] \in Local
  BY <1>1, IdleType, LocalUpdates
<1>3. CASE Goto(d, x)
  <2>1. proc' = [proc EXCEPT ![d] = [proc[d] EXCEPT !.pc = x]]
    BY <1>3 DEF Goto
  <2> QED BY <2>1, <1>2
<1>4. CASE Forget(d, x)
  BY <1>2, <1>4 DEF Forget, Become
<1> QED BY <1>3, <1>4

\* into the failure path,
LEMMA FailsType ==
  ASSUME proc \in [Daemons -> Local], NEW d \in Daemons, NEW b \in BOOLEAN, Fails(d, b)
  PROVE  proc' \in [Daemons -> Local]
<1>1. [Idle EXCEPT !.pc = "fail", !.unsafe = b] \in Local
  BY IdleType DEF Local, Locations, InTry
<1> QED BY <1>1, BecomeType DEF Fails

\* into the record of a completed step.
LEMMA RecordsType ==
  ASSUME proc \in [Daemons -> Local], NEW d \in Daemons,
         NEW s \in {"running", "awaiting_review"}, NEW p \in Proposals \cup {None},
         Records(d, s, p)
  PROVE  proc' \in [Daemons -> Local]
<1>1. [Idle EXCEPT !.pc = "record", !.next = s, !.emitted = p] \in Local
  BY IdleType DEF Local, Locations, InTry
<1> QED BY <1>1, BecomeType DEF Records

\* No step, of any daemon or of the operator, writes a value of another type.
LEMMA TypeStep == IInv /\ [Next]_vars => TypeOK'
<1> SUFFICES ASSUME IInv, [Next]_vars PROVE TypeOK'
  OBVIOUS
<1>a. TypeOK /\ PromotedWasApproved /\ InductiveParts
  BY DEF IInv
<1> USE <1>a, IdleType, NoStateType, NoCommandType DEF TypeOK, lockVars, planeVars, promoVars, restVars
<1>0. /\ \A x \in {"absent", "idle", "running", "awaiting_review", "cooldown", "halted", "stop_requested", "stopped"} : x \in Statuses
      /\ InTry \subseteq Locations /\ {"off", "acquire", "lock", "beat"} \subseteq Locations
      /\ \A x \in {"init", "pause", "begin", "poll", "once", "reopen", "gates", "promote",
          "promoting", "dirty", "mutate", "evaluate", "rewrite", "record", "recordBeat",
          "fail", "failSave", "cycled", "release"} : x \in Locations
      /\ \A d \in Daemons : proc[d] \in Local
  BY DEF Statuses, Locations, InTry
<1>1. ASSUME NEW d \in Daemons, CheckLock(d) PROVE TypeOK'
  <2>2. proc' \in [Daemons -> Local]
    BY <1>0, <1>1, GotoType DEF CheckLock
  <2> QED BY <1>1, <2>2 DEF CheckLock
<1>2. ASSUME NEW d \in Daemons, WriteLock(d) PROVE TypeOK'
  <2>2. proc' \in [Daemons -> Local]
    BY <1>0, <1>2, GotoType DEF WriteLock
  <2> QED BY <1>2, <2>2 DEF WriteLock
<1>3. ASSUME NEW d \in Daemons, BeatIdle(d) PROVE TypeOK'
  <2>2. proc' \in [Daemons -> Local]
    BY <1>0, <1>3, GotoType DEF BeatIdle
  <2> QED BY <1>3, <2>2 DEF BeatIdle
<1>4. ASSUME NEW d \in Daemons, InitState(d) PROVE TypeOK'
  <2>2. proc' \in [Daemons -> Local]
    BY <1>0, <1>4, LocalUpdates, BecomeType, StatusUpdate DEF InitState
  <2> QED BY <1>0, <1>4, <2>2, LocalUpdates, BecomeType, StatusUpdate DEF InitState
<1>5. ASSUME NEW d \in Daemons, Pause(d) PROVE TypeOK'
  <2>1. [Idle EXCEPT !.pc = "record", !.next = "awaiting_review", !.returns = TRUE] \in Local
    BY <1>0 DEF Local
  <2>2. proc' \in [Daemons -> Local]
    BY <1>0, <1>5, <2>1, LocalUpdates, BecomeType DEF Pause
  <2> QED BY <1>0, <1>5, <2>2, LocalUpdates, BecomeType DEF Pause
<1>6. ASSUME NEW d \in Daemons, Begin(d) PROVE TypeOK'
  <2>2. proc' \in [Daemons -> Local]
    BY <1>0, <1>6, LocalUpdates, GotoType, StatusUpdate DEF Begin
  <2> QED BY <1>0, <1>6, <2>2, LocalUpdates, GotoType, StatusUpdate DEF Begin
<1>7. ASSUME NEW d \in Daemons, Poll(d) PROVE TypeOK'
  <2>2. proc' \in [Daemons -> Local]
    BY <1>0, <1>7, LocalUpdates, GotoType, StatusUpdate DEF Poll
  <2>3. [state EXCEPT !.status = "stopped"] \in DaemonState
    BY <1>0, StatusUpdate
  <2> QED BY <1>7, <2>2, <2>3 DEF Poll
<1>8. ASSUME NEW d \in Daemons, Cycled(d) PROVE TypeOK'
  <2>2. proc' \in [Daemons -> Local]
    BY <1>0, <1>8, LocalUpdates, GotoType, StatusUpdate DEF Cycled
  <2>3. [state EXCEPT !.status = "stopped"] \in DaemonState
    BY <1>0, StatusUpdate
  <2> QED BY <1>8, <2>2, <2>3 DEF Cycled
<1>9. ASSUME NEW d \in Daemons, Release(d) PROVE TypeOK'
  <2>2. proc' \in [Daemons -> Local]
    BY <1>0, <1>9, BecomeType DEF Release
  <2> QED BY <1>9, <2>2 DEF Release
<1>10. ASSUME NEW d \in Daemons, RunOnce(d) PROVE TypeOK'
  <2>2. proc' \in [Daemons -> Local]
    BY <1>0, <1>10, LocalUpdates, GotoType, BecomeType DEF RunOnce
  <2> QED BY <1>0, <1>10, <2>2, LocalUpdates, GotoType, BecomeType DEF RunOnce
<1>11. ASSUME NEW d \in Daemons, Reopen(d) PROVE TypeOK'
  <2>2. proc' \in [Daemons -> Local]
    BY <1>0, <1>11, LocalUpdates, GotoType, StatusUpdate DEF Reopen
  <2> QED BY <1>0, <1>11, <2>2, LocalUpdates, GotoType, StatusUpdate DEF Reopen
<1>12. ASSUME NEW d \in Daemons, Gates(d) PROVE TypeOK'
  <2>2. proc' \in [Daemons -> Local]
    BY <1>0, <1>12, GotoType DEF Gates
  <2> QED BY <1>12, <2>2 DEF Gates
<1>13. ASSUME NEW d \in Daemons, ResumePromotion(d) PROVE TypeOK'
  <2>1. \A p \in Proposals : [proc[d] EXCEPT !.pc = "promoting", !.emitted = p] \in Local
    BY <1>0 DEF Local
  <2>2. proc' \in [Daemons -> Local]
    BY <1>0, <1>13, <2>1, LocalUpdates, FailsType, RecordsType, BecomeType DEF ResumePromotion, LatestIs, WriteCheckpoint
  <2> QED BY <1>0, <1>13, <2>2, LocalUpdates, FailsType, RecordsType, BecomeType DEF ResumePromotion, LatestIs, WriteCheckpoint
<1>14. ASSUME NEW d \in Daemons, FinishPromotion(d) PROVE TypeOK'
  <2>2. proc' \in [Daemons -> Local]
    BY <1>0, <1>14, FailsType, RecordsType DEF FinishPromotion
  <2>3. proc[d].emitted \in Proposals
    BY <1>14 DEF FinishPromotion, InductiveParts, At
  <2>4. finished' \subseteq Proposals
    BY <1>14, <2>3 DEF FinishPromotion
  <2> QED BY <1>14, <2>2, <2>4 DEF FinishPromotion
<1>15. ASSUME NEW d \in Daemons, DirtyCycle(d) PROVE TypeOK'
  <2>2. proc' \in [Daemons -> Local]
    BY <1>0, <1>15, LocalUpdates, FailsType, RecordsType, BecomeType DEF DirtyCycle
  <2> QED BY <1>0, <1>15, <2>2, LocalUpdates, FailsType, RecordsType, BecomeType DEF DirtyCycle
<1>16. ASSUME NEW d \in Daemons, Mutate(d) PROVE TypeOK'
  <2>2. proc' \in [Daemons -> Local]
    BY <1>0, <1>16, LocalUpdates, FailsType, BecomeType DEF Mutate
  <2> QED BY <1>0, <1>16, <2>2, LocalUpdates, FailsType, BecomeType DEF Mutate
<1>17. ASSUME NEW d \in Daemons, Evaluate(d) PROVE TypeOK'
  <2>1. \A p \in Proposals : [Idle EXCEPT !.pc = "rewrite", !.emitted = p] \in Local
    BY <1>0 DEF Local
  <2>2. proc' \in [Daemons -> Local]
    BY <1>0, <1>17, <2>1, LocalUpdates, FailsType, RecordsType, BecomeType DEF Evaluate, Reviews
  <2> QED BY <1>0, <1>17, <2>2, LocalUpdates, FailsType, RecordsType, BecomeType DEF Evaluate, Reviews
<1>18. ASSUME NEW d \in Daemons, Rewrite(d) PROVE TypeOK'
  <2>2. proc' \in [Daemons -> Local]
    BY <1>0, <1>18, LocalUpdates, RecordsType DEF Rewrite, Reviews
  <2> QED BY <1>0, <1>18, <2>2, LocalUpdates, RecordsType DEF Rewrite, Reviews
<1>19. ASSUME NEW d \in Daemons, Record(d) PROVE TypeOK'
  <2>1. [Idle EXCEPT !.pc = "recordBeat", !.returns = proc[d].returns] \in Local
    BY <1>0 DEF Local
  <2>2. proc' \in [Daemons -> Local]
    BY <1>0, <1>19, <2>1, LocalUpdates, BecomeType, CompletedType DEF Record
  <2> QED BY <1>0, <1>19, <2>2, LocalUpdates, BecomeType, CompletedType DEF Record
<1>20. ASSUME NEW d \in Daemons, RecordBeat(d) PROVE TypeOK'
  <2>2. proc' \in [Daemons -> Local]
    BY <1>0, <1>20, GotoType DEF RecordBeat
  <2> QED BY <1>20, <2>2 DEF RecordBeat
<1>21. ASSUME NEW d \in Daemons, FailRevert(d) PROVE TypeOK'
  <2>2. proc' \in [Daemons -> Local]
    BY <1>0, <1>21, GotoType DEF FailRevert
  <2> QED BY <1>21, <2>2 DEF FailRevert
<1>22. ASSUME NEW d \in Daemons, FailSave(d) PROVE TypeOK'
  <2>2. proc' \in [Daemons -> Local]
    BY <1>0, <1>22, LocalUpdates, GotoType, FailedType DEF FailSave
  <2> QED BY <1>0, <1>22, <2>2, LocalUpdates, GotoType, FailedType DEF FailSave
<1>23. ASSUME NEW d \in Daemons, Crash(d) PROVE TypeOK'
  <2>2. proc' \in [Daemons -> Local]
    BY <1>0, <1>23, BecomeType DEF Crash
  <2>3. crashes' \in 0..MaxCrashes
    BY <1>23, ConstantsAssumption DEF Crash
  <2> QED BY <1>23, <2>2, <2>3 DEF Crash
<1>24. ASSUME NEW d \in Daemons, Interrupt(d) PROVE TypeOK'
  <2>2. proc' \in [Daemons -> Local]
    BY <1>0, <1>24, GotoType DEF Interrupt
  <2> QED BY <1>24, <2>2 DEF Interrupt
<1>25. ASSUME NEW d \in Daemons, NEW resume \in BOOLEAN, Start(d, resume) PROVE TypeOK'
  BY <1>0, <1>25, BecomeType, LocalUpdates DEF Start
<1>26. ASSUME OpStop PROVE TypeOK'
  BY <1>26, OperatorUpdates DEF OpStop, Commands
<1>27. ASSUME OpStopSave PROVE TypeOK'
  BY <1>0, <1>27, StatusUpdate DEF OpStopSave, Operator
<1>28. ASSUME OpAccept PROVE TypeOK'
  BY <1>28, OperatorUpdates DEF OpAccept, Commands
<1>29. ASSUME OpAcceptSave PROVE TypeOK'
  <2>1. op.proposal \in Proposals
    BY <1>29 DEF OpAcceptSave, InductiveParts, PromotedWasApproved
  <2> QED BY <1>29, <2>1 DEF OpAcceptSave, Reviews
<1>30. ASSUME OpReject PROVE TypeOK'
  BY <1>30, OperatorUpdates DEF OpReject, Commands, Reviews
<1>31. ASSUME OpRejectReset PROVE TypeOK'
  BY <1>31 DEF OpRejectReset
<1>32. ASSUME OpPromote PROVE TypeOK'
  BY <1>32, OperatorUpdates DEF OpPromote, Commands, LatestIs, WriteCheckpoint
<1>33. ASSUME OpPromoteFinish PROVE TypeOK'
  BY <1>33 DEF OpPromoteFinish, PromotedWasApproved, InductiveParts
<1>34. ASSUME OpCrash PROVE TypeOK'
  BY <1>34, ConstantsAssumption DEF OpCrash
<1>35. ASSUME HeartbeatAges PROVE TypeOK'
  BY <1>35 DEF HeartbeatAges
<1>36. ASSUME CooldownEnds PROVE TypeOK'
  BY <1>36 DEF CooldownEnds
<1>37. CASE UNCHANGED vars
  BY <1>37 DEF vars
<1> QED
  BY <1>1, <1>2, <1>3, <1>4, <1>5, <1>6, <1>7, <1>8, <1>9, <1>10, <1>11, <1>12, <1>13,
     <1>14, <1>15, <1>16, <1>17, <1>18, <1>19, <1>20, <1>21, <1>22, <1>23, <1>24, <1>25,
     <1>26, <1>27, <1>28, <1>29, <1>30, <1>31, <1>32, <1>33, <1>34, <1>35, <1>36, <1>37
     DEF Next, DaemonStep, OperatorStep

-----------------------------------------------------------------------------
(* A step of d is harmless when it moves no other daemon, starts no promotion  *)
(* and leaves d with a justified copy of the state.                            *)
Harmless(d) ==
  /\ \A e \in Daemons : e # d => proc'[e] = proc[e]
  /\ proc'[d].pc # "promoting"
  /\ Justified(proc'[d].mem)

\* A daemon that moves on leaves the others where they are.
LEMMA BecomeEffect ==
  ASSUME proc \in [Daemons -> Local], NEW d \in Daemons, NEW l, Become(d, l)
  PROVE  proc'[d] = l /\ \A e \in Daemons : e # d => proc'[e] = proc[e]
BY DEF Become

\* Moving on is harmless, when the new copy of the state is justified:
LEMMA BecomeHarmless ==
  ASSUME proc \in [Daemons -> Local], NEW d \in Daemons, NEW l, Become(d, l),
         l.pc # "promoting", Justified(l.mem)
  PROVE  Harmless(d)
BY BecomeEffect DEF Harmless

\* to a location that starts no promotion,
LEMMA GotoHarmless ==
  ASSUME proc \in [Daemons -> Local], NEW d \in Daemons, NEW x, Goto(d, x),
         x # "promoting", Justified(proc[d].mem)
  PROVE  Harmless(d)
<1>1. Become(d, [proc[d] EXCEPT !.pc = x])
  BY DEF Goto, Become
<1>2. [proc[d] EXCEPT !.pc = x].pc = x /\ [proc[d] EXCEPT !.pc = x].mem = proc[d].mem
  BY DEF Local
<1> QED BY <1>1, <1>2, BecomeHarmless

\* (the missing state file is justified)
LEMMA JustifiedNoState == Justified(NoState) /\ Justified(Idle.mem)
BY DEF Justified, NoState, Idle

\* without the local variables,
LEMMA ForgetHarmless ==
  ASSUME proc \in [Daemons -> Local], NEW d \in Daemons, NEW x, Forget(d, x),
         x # "promoting"
  PROVE  Harmless(d)
<1>1. [Idle EXCEPT !.pc = x].pc = x /\ [Idle EXCEPT !.pc = x].mem = NoState
  BY DEF Idle
<1> QED BY <1>1, BecomeHarmless, JustifiedNoState DEF Forget

\* into the failure path,
LEMMA FailsHarmless ==
  ASSUME proc \in [Daemons -> Local], NEW d \in Daemons, NEW b, Fails(d, b)
  PROVE  Harmless(d)
<1> DEFINE l == [Idle EXCEPT !.pc = "fail", !.unsafe = b]
<1>1. l.pc = "fail" /\ l.mem = NoState
  BY DEF Idle
<1> QED BY <1>1, BecomeHarmless, JustifiedNoState DEF Fails

\* and into the record of a completed step.
LEMMA RecordsHarmless ==
  ASSUME proc \in [Daemons -> Local], NEW d \in Daemons, NEW s, NEW p, Records(d, s, p)
  PROVE  Harmless(d)
<1> DEFINE l == [Idle EXCEPT !.pc = "record", !.next = s, !.emitted = p]
<1>1. l.pc = "record" /\ l.mem = NoState
  BY DEF Idle
<1> QED BY <1>1, BecomeHarmless, JustifiedNoState DEF Records

\* A status other than halted and cooldown needs no justification,
LEMMA JustifiedStatus ==
  ASSUME NEW s \in DaemonState, NEW x \in {"idle", "running", "stopped", "stop_requested"}
  PROVE  Justified([s EXCEPT !.status = x])
BY DEF DaemonState, Justified

\* nor does a completed step;
LEMMA JustifiedCompleted ==
  ASSUME NEW s, NEW p, NEW x \in {"running", "awaiting_review"}
  PROVE  Justified(Completed(s, x, p))
BY DEF Completed, Justified

\* and a failure that halts or cools down has its reasons.
LEMMA JustifiedFailed ==
  ASSUME NEW s \in DaemonState, NEW message \in BOOLEAN, Justified(s)
  PROVE  Justified(Failed(s, message))
<1> DEFINE n == IF s.failures < FailuresToHalt THEN s.failures + 1 ELSE s.failures
           counted == [s EXCEPT !.failures = n, !.unsafe = message]
<1>1. s.failures \in 0..3
  BY DEF DaemonState, FailuresToHalt
<1>2. n \in 1..3 /\ (n = 1 => s.failures = 0)
  BY <1>1 DEF FailuresToHalt
<1>3. /\ counted.failures = n /\ counted.unsafe = message /\ counted.status = s.status
      /\ [counted EXCEPT !.status = "halted"].status = "halted"
      /\ [counted EXCEPT !.status = "halted"].failures = n
      /\ [counted EXCEPT !.status = "halted"].unsafe = message
      /\ [counted EXCEPT !.status = "cooldown", !.deadline = TRUE].status = "cooldown"
      /\ [counted EXCEPT !.status = "cooldown", !.deadline = TRUE].failures = n
      /\ [counted EXCEPT !.status = "cooldown", !.deadline = TRUE].deadline = TRUE
  BY DEF DaemonState
<1>4. CASE message \/ n = 3
  <2>1. Failed(s, message) = [counted EXCEPT !.status = "halted"]
    BY <1>2, <1>4 DEF Failed, FailuresToHalt
  <2> HIDE DEF n, counted
  <2> QED BY <1>2, <1>3, <1>4, <2>1 DEF Justified, FailuresToHalt
<1>5. CASE ~message /\ n = 2
  <2>1. Failed(s, message) = [counted EXCEPT !.status = "cooldown", !.deadline = TRUE]
    BY <1>5 DEF Failed, FailuresToCool, FailuresToHalt
  <2> HIDE DEF n, counted
  <2> QED BY <1>3, <1>5, <2>1 DEF Justified, FailuresToCool
<1>6. CASE ~message /\ n = 1
  <2>1. Failed(s, message) = counted
    BY <1>6 DEF Failed, FailuresToCool, FailuresToHalt
  <2>2. s.status # "halted" /\ s.status # "cooldown"
    BY <1>2, <1>6 DEF Justified, FailuresToCool, FailuresToHalt
  <2> HIDE DEF n, counted
  <2> QED BY <1>3, <2>1, <2>2 DEF Justified
<1> QED BY <1>2, <1>4, <1>5, <1>6

\* The rest of the invariant is kept by every step: whoever writes the state back
\* has a justified copy, and whoever promotes holds an accepted proposal.
LEMMA SafetyStep ==
  IInv /\ [Next]_vars => StateJustified' /\ PromotedWasApproved' /\ InductiveParts'
<1> SUFFICES ASSUME IInv, [Next]_vars
             PROVE  StateJustified' /\ PromotedWasApproved' /\ InductiveParts'
  OBVIOUS
<1> DEFINE Goal == StateJustified' /\ PromotedWasApproved' /\ InductiveParts'
<1>a. TypeOK /\ StateJustified /\ PromotedWasApproved /\ InductiveParts
  BY DEF IInv
<1>t. /\ proc \in [Daemons -> Local] /\ state \in DaemonState
      /\ \A d \in Daemons : /\ proc[d] \in Local /\ proc[d].mem \in DaemonState
                            /\ proc[d].unsafe \in BOOLEAN
                            /\ proc[d].next \in {"running", "awaiting_review"}
                            /\ Justified(proc[d].mem)
  BY <1>a DEF TypeOK, InductiveParts, Local
<1>b. ASSUME NEW d \in Daemons, Harmless(d), Justified(state'),
             UNCHANGED <<checkpointed, op, approved>>,
             finished' \subseteq checkpointed,
             \A p \in Proposals : review'[p] = "accepted" => review[p] = "accepted"
      PROVE  Goal
  <2>1. \A e \in Daemons : Justified(proc'[e].mem)
    BY <1>t, <1>b DEF Harmless
  <2>2. \A e \in Daemons : proc'[e].pc = "promoting" => proc'[e].emitted \in checkpointed'
    BY <1>a, <1>b DEF Harmless, InductiveParts, At
  <2> QED BY <1>a, <1>b, <2>1, <2>2 DEF StateJustified, PromotedWasApproved, InductiveParts, At
(* A step of d that leaves the review, the promotions and the operator alone.  *)
<1>c. ASSUME NEW d \in Daemons, Harmless(d), Justified(state'),
             UNCHANGED <<checkpointed, finished, review, op, approved>>
      PROVE  Goal
  BY <1>a, <1>b, <1>c DEF PromotedWasApproved
<1> USE DEF lockVars, planeVars, promoVars, restVars
<1>1. ASSUME NEW d \in Daemons, CheckLock(d) PROVE Goal
  <2>1. Harmless(d)
    BY <1>1, <1>t, ForgetHarmless DEF CheckLock
  <2> QED BY <1>1, <1>a, <1>c, <2>1 DEF CheckLock, StateJustified
<1>2. ASSUME NEW d \in Daemons, WriteLock(d) PROVE Goal
  <2>1. Harmless(d)
    BY <1>2, <1>t, GotoHarmless DEF WriteLock
  <2> QED BY <1>2, <1>a, <1>c, <2>1 DEF WriteLock, StateJustified
<1>3. ASSUME NEW d \in Daemons, BeatIdle(d) PROVE Goal
  <2>1. Harmless(d)
    BY <1>3, <1>t, GotoHarmless DEF BeatIdle
  <2> QED BY <1>3, <1>a, <1>c, <2>1 DEF BeatIdle, StateJustified
<1>4. ASSUME NEW d \in Daemons, InitState(d) PROVE Goal
  <2> DEFINE loaded == IF state.status = "absent" THEN [state EXCEPT !.status = "idle"] ELSE state
             l == [proc[d] EXCEPT !.mem = loaded, !.pc = IF AwaitsReview(loaded) THEN "pause" ELSE "begin"]
  <2>0. l.pc # "promoting" /\ l.mem = loaded /\ Become(d, l)
    BY <1>4, <1>t DEF InitState, Local
  <2>00. Justified(loaded)
    BY <1>a, <1>t, JustifiedStatus DEF StateJustified
  <2>1. Harmless(d)
    <3> HIDE DEF loaded, l
    <3> QED BY <1>t, <2>0, <2>00, BecomeHarmless
  <2> QED BY <1>4, <1>a, <1>c, <2>1 DEF InitState, StateJustified
<1>5. ASSUME NEW d \in Daemons, Pause(d) PROVE Goal
  <2> DEFINE l == [Idle EXCEPT !.pc = "record", !.next = "awaiting_review", !.returns = TRUE]
  <2>0. l.pc = "record" /\ l.mem = NoState
    BY DEF Idle
  <2>1. Harmless(d)
    BY <1>5, <1>t, <2>0, BecomeHarmless, JustifiedNoState DEF Pause
  <2>2. Justified(state')
    BY <1>5, <1>t DEF Pause
  <2> QED BY <1>5, <1>c, <2>1, <2>2 DEF Pause
<1>6. ASSUME NEW d \in Daemons, Begin(d) PROVE Goal
  <2>1. Harmless(d)
    BY <1>6, <1>t, ForgetHarmless DEF Begin
  <2>2. Justified(state')
    BY <1>6, <1>a, <1>t, JustifiedStatus DEF Begin, StateJustified
  <2> QED BY <1>6, <1>c, <2>1, <2>2 DEF Begin
<1>7. ASSUME NEW d \in Daemons, Poll(d) PROVE Goal
  <2>1. Harmless(d)
    BY <1>7, <1>t, GotoHarmless DEF Poll
  <2>2. Justified(state')
    BY <1>7, <1>a, <1>t, JustifiedStatus DEF Poll, StateJustified
  <2> QED BY <1>7, <1>c, <2>1, <2>2 DEF Poll
<1>8. ASSUME NEW d \in Daemons, Cycled(d) PROVE Goal
  <2>1. Harmless(d)
    BY <1>8, <1>t, GotoHarmless DEF Cycled
  <2>2. Justified(state')
    BY <1>8, <1>a, <1>t, JustifiedStatus DEF Cycled, StateJustified
  <2> QED BY <1>8, <1>c, <2>1, <2>2 DEF Cycled
<1>9. ASSUME NEW d \in Daemons, Release(d) PROVE Goal
  <2>1. Harmless(d)
    BY <1>9, <1>t, BecomeHarmless, JustifiedNoState DEF Release, Idle
  <2> QED BY <1>9, <1>a, <1>c, <2>1 DEF Release, StateJustified
<1>10. ASSUME NEW d \in Daemons, RunOnce(d) PROVE Goal
  <2> DEFINE l == [proc[d] EXCEPT !.mem = state, !.pc = "reopen"]
  <2>0. l.pc = "reopen" /\ l.mem = state
    BY <1>t DEF Local
  <2>00. Become(d, l) => Harmless(d)
    BY <1>a, <1>t, <2>0, BecomeHarmless DEF StateJustified
  <2>1. Harmless(d)
    BY <1>10, <1>t, <2>00, GotoHarmless DEF RunOnce
  <2> QED BY <1>10, <1>a, <1>c, <2>1 DEF RunOnce, StateJustified
<1>11. ASSUME NEW d \in Daemons, Reopen(d) PROVE Goal
  <2>1. Harmless(d)
    BY <1>11, <1>t, ForgetHarmless DEF Reopen
  <2>2. Justified(state')
    BY <1>11, <1>a, <1>t, JustifiedStatus DEF Reopen, StateJustified
  <2> QED BY <1>11, <1>c, <2>1, <2>2 DEF Reopen
<1>12. ASSUME NEW d \in Daemons, Gates(d) PROVE Goal
  <2>1. Harmless(d)
    BY <1>12, <1>t, GotoHarmless DEF Gates
  <2> QED BY <1>12, <1>a, <1>c, <2>1 DEF Gates, StateJustified
<1>13. ASSUME NEW d \in Daemons, ResumePromotion(d) PROVE Goal
  <2>1. CASE UNCHANGED promoVars /\ (Fails(d, FALSE) \/ Records(d, "running", None))
    <3>1. Harmless(d)
      BY <1>t, <2>1, FailsHarmless, RecordsHarmless
    <3> QED BY <1>13, <1>a, <1>c, <2>1, <3>1 DEF ResumePromotion, StateJustified
  <2>2. CASE /\ LatestIs("accepted") /\ WriteCheckpoint /\ UNCHANGED finished
             /\ Become(d, [proc[d] EXCEPT !.pc = "promoting", !.emitted = latest])
    <3>1. /\ \A e \in Daemons : e # d => proc'[e] = proc[e]
          /\ proc'[d] = [proc[d] EXCEPT !.pc = "promoting", !.emitted = latest]
      BY <1>t, <2>2, BecomeEffect
    <3>2. proc'[d].mem = proc[d].mem /\ proc'[d].emitted = latest
      BY <1>t, <3>1 DEF Local
    <3>3. latest \in approved
      BY <1>a, <2>2 DEF InductiveParts, LatestIs, TypeOK
    <3>4. /\ checkpointed' = checkpointed \cup {latest}
          /\ UNCHANGED <<op, approved, review, state, finished>>
      BY <1>13, <2>2 DEF ResumePromotion, WriteCheckpoint
    <3>5. \A e \in Daemons : Justified(proc'[e].mem)
      BY <1>t, <3>1, <3>2
    <3>6. \A e \in Daemons : proc'[e].pc = "promoting" => proc'[e].emitted \in checkpointed'
      BY <1>a, <3>1, <3>2, <3>4 DEF InductiveParts, At
    <3> QED BY <1>a, <3>3, <3>4, <3>5, <3>6
            DEF StateJustified, PromotedWasApproved, InductiveParts, At
  <2> QED BY <1>13, <2>1, <2>2 DEF ResumePromotion
<1>14. ASSUME NEW d \in Daemons, FinishPromotion(d) PROVE Goal
  <2>1. Harmless(d)
    BY <1>14, <1>t, FailsHarmless, RecordsHarmless DEF FinishPromotion
  <2>2. proc[d].emitted \in checkpointed
    BY <1>14, <1>a DEF FinishPromotion, InductiveParts
  <2>3. finished' \subseteq finished \cup {proc[d].emitted}
    BY <1>14 DEF FinishPromotion
  <2>4. finished' \subseteq checkpointed
    BY <1>a, <2>2, <2>3 DEF PromotedWasApproved
  <2> QED BY <1>14, <1>a, <1>b, <2>1, <2>4 DEF FinishPromotion, StateJustified
<1>15. ASSUME NEW d \in Daemons, DirtyCycle(d) PROVE Goal
  <2> DEFINE l == [proc[d] EXCEPT !.pc = "evaluate", !.harness = FALSE]
  <2>0. l.pc = "evaluate" /\ l.mem = proc[d].mem
    BY <1>t DEF Local
  <2>1. Harmless(d)
    BY <1>15, <1>t, <2>0, BecomeHarmless, FailsHarmless, RecordsHarmless DEF DirtyCycle
  <2> QED BY <1>15, <1>a, <1>c, <2>1 DEF DirtyCycle, StateJustified
<1>16. ASSUME NEW d \in Daemons, Mutate(d) PROVE Goal
  <2> DEFINE l == [proc[d] EXCEPT !.pc = "evaluate", !.harness = TRUE]
  <2>0. l.pc = "evaluate" /\ l.mem = proc[d].mem
    BY <1>t DEF Local
  <2>1. Harmless(d)
    BY <1>16, <1>t, <2>0, BecomeHarmless, FailsHarmless DEF Mutate
  <2> QED BY <1>16, <1>a, <1>c, <2>1 DEF Mutate, StateJustified
<1>17. ASSUME NEW d \in Daemons, Evaluate(d) PROVE Goal
  <2>0. ASSUME NEW p \in Proposals PROVE Become(d, [Idle EXCEPT !.pc = "rewrite", !.emitted = p]) => Harmless(d)
    <3> DEFINE l == [Idle EXCEPT !.pc = "rewrite", !.emitted = p]
    <3>1. l.pc = "rewrite" /\ l.mem = NoState
      BY DEF Idle
    <3> QED BY <1>t, <3>1, BecomeHarmless, JustifiedNoState
  <2>1. Harmless(d)
    BY <1>17, <1>t, <2>0, FailsHarmless, RecordsHarmless DEF Evaluate
  <2>2. \A p \in Proposals : review'[p] = "accepted" => review[p] = "accepted"
    BY <1>17, <1>a DEF Evaluate, TypeOK
  <2> QED BY <1>17, <1>a, <1>b, <2>1, <2>2 DEF Evaluate, StateJustified, PromotedWasApproved
<1>18. ASSUME NEW d \in Daemons, Rewrite(d) PROVE Goal
  <2>1. Harmless(d)
    BY <1>18, <1>t, RecordsHarmless DEF Rewrite
  <2>2. \A p \in Proposals : review'[p] = "accepted" => review[p] = "accepted"
    BY <1>18, <1>a DEF Rewrite, TypeOK
  <2> QED BY <1>18, <1>a, <1>b, <2>1, <2>2 DEF Rewrite, StateJustified, PromotedWasApproved
<1>19. ASSUME NEW d \in Daemons, Record(d) PROVE Goal
  <2> DEFINE l == [Idle EXCEPT !.pc = "recordBeat", !.returns = proc[d].returns]
  <2>0. l.pc = "recordBeat" /\ l.mem = NoState
    BY DEF Idle
  <2>1. Harmless(d)
    BY <1>19, <1>t, <2>0, BecomeHarmless, JustifiedNoState DEF Record
  <2>2. Justified(state')
    BY <1>19, <1>t, JustifiedCompleted DEF Record
  <2> QED BY <1>19, <1>c, <2>1, <2>2 DEF Record
<1>20. ASSUME NEW d \in Daemons, RecordBeat(d) PROVE Goal
  <2>1. Harmless(d)
    BY <1>20, <1>t, ForgetHarmless DEF RecordBeat
  <2> QED BY <1>20, <1>a, <1>c, <2>1 DEF RecordBeat, StateJustified
<1>21. ASSUME NEW d \in Daemons, FailRevert(d) PROVE Goal
  <2>1. Harmless(d)
    BY <1>21, <1>t, GotoHarmless DEF FailRevert
  <2> QED BY <1>21, <1>a, <1>c, <2>1 DEF FailRevert, StateJustified
<1>22. ASSUME NEW d \in Daemons, FailSave(d) PROVE Goal
  <2>1. Harmless(d)
    BY <1>22, <1>t, ForgetHarmless DEF FailSave
  <2>2. Justified(state')
    BY <1>22, <1>a, <1>t, JustifiedFailed DEF FailSave, StateJustified
  <2> QED BY <1>22, <1>c, <2>1, <2>2 DEF FailSave
<1>23. ASSUME NEW d \in Daemons, Crash(d) PROVE Goal
  <2>1. Harmless(d)
    BY <1>23, <1>t, BecomeHarmless, JustifiedNoState DEF Crash, Idle
  <2> QED BY <1>23, <1>a, <1>c, <2>1 DEF Crash, StateJustified
<1>24. ASSUME NEW d \in Daemons, Interrupt(d) PROVE Goal
  <2>1. Harmless(d)
    BY <1>24, <1>t, ForgetHarmless DEF Interrupt
  <2> QED BY <1>24, <1>a, <1>c, <2>1 DEF Interrupt, StateJustified
<1>25. ASSUME NEW d \in Daemons, NEW resume \in BOOLEAN, Start(d, resume) PROVE Goal
  <2> DEFINE l == [Idle EXCEPT !.pc = "acquire", !.recover = resume]
  <2>0. l.pc = "acquire" /\ l.mem = NoState
    BY DEF Idle
  <2>1. Harmless(d)
    BY <1>25, <1>t, <2>0, BecomeHarmless, JustifiedNoState DEF Start
  <2> QED BY <1>25, <1>a, <1>c, <2>1 DEF Start, StateJustified
<1>26. ASSUME OpStop PROVE Goal
  <2>1. op'.mem = state /\ op'.pc = "stop"
    BY <1>26, <1>a DEF OpStop, TypeOK, Operator
  <2> QED BY <1>26, <1>a, <2>1 DEF OpStop, StateJustified, PromotedWasApproved, InductiveParts, At
<1>27. ASSUME OpStopSave PROVE Goal
  <2>1. Justified(state') /\ Justified(op'.mem) /\ op'.pc = "idle"
    BY <1>27, <1>a, JustifiedStatus, JustifiedNoState DEF OpStopSave, TypeOK, Operator, NoCommand
  <2> QED BY <1>27, <1>a, <2>1 DEF OpStopSave, StateJustified, PromotedWasApproved, InductiveParts, At
<1>28. ASSUME OpAccept PROVE Goal
  <2>1. op'.mem = op.mem /\ op'.pc = "accept" /\ op'.proposal = latest
    BY <1>28, <1>a DEF OpAccept, TypeOK, Operator
  <2> QED BY <1>28, <1>a, <2>1 DEF OpAccept, StateJustified, PromotedWasApproved, InductiveParts, At
<1>29. ASSUME OpAcceptSave PROVE Goal
  <2>1. Justified(op'.mem) /\ op'.pc = "idle"
    BY <1>29, JustifiedNoState DEF OpAcceptSave, NoCommand
  <2> QED BY <1>29, <1>a, <2>1 DEF OpAcceptSave, StateJustified, PromotedWasApproved, InductiveParts, At, TypeOK
<1>30. ASSUME OpReject PROVE Goal
  <2>1. op'.mem = op.mem /\ op'.pc = "reject"
    BY <1>30, <1>a DEF OpReject, TypeOK, Operator
  <2> QED BY <1>30, <1>a, <2>1 DEF OpReject, StateJustified, PromotedWasApproved, InductiveParts, At, TypeOK
<1>31. ASSUME OpRejectReset PROVE Goal
  <2>1. Justified(op'.mem) /\ op'.pc = "idle"
    BY <1>31, JustifiedNoState DEF OpRejectReset, NoCommand
  <2> QED BY <1>31, <1>a, <2>1 DEF OpRejectReset, StateJustified, PromotedWasApproved, InductiveParts, At
<1>32. ASSUME OpPromote PROVE Goal
  <2>1. op'.mem = op.mem /\ op'.pc = "promote" /\ op'.proposal = latest
    BY <1>32, <1>a DEF OpPromote, TypeOK, Operator
  <2> QED BY <1>32, <1>a, <2>1 DEF OpPromote, StateJustified, PromotedWasApproved, InductiveParts, At, LatestIs, WriteCheckpoint, TypeOK
<1>33. ASSUME OpPromoteFinish PROVE Goal
  <2>1. Justified(op'.mem) /\ op'.pc = "idle"
    BY <1>33, JustifiedNoState DEF OpPromoteFinish, NoCommand
  <2> QED BY <1>33, <1>a, <2>1 DEF OpPromoteFinish, StateJustified, PromotedWasApproved, InductiveParts, At
<1>34. ASSUME OpCrash PROVE Goal
  <2>1. Justified(op'.mem) /\ op'.pc = "idle"
    BY <1>34, JustifiedNoState DEF OpCrash, NoCommand
  <2> QED BY <1>34, <1>a, <2>1 DEF OpCrash, StateJustified, PromotedWasApproved, InductiveParts, At
<1>35. ASSUME HeartbeatAges PROVE Goal
  BY <1>35, <1>a DEF HeartbeatAges, StateJustified, PromotedWasApproved, InductiveParts, At
<1>36. ASSUME CooldownEnds PROVE Goal
  BY <1>36, <1>a DEF CooldownEnds, StateJustified, PromotedWasApproved, InductiveParts, At
<1>37. CASE UNCHANGED vars
  BY <1>37, <1>a DEF vars, StateJustified, PromotedWasApproved, InductiveParts, At
<1> QED
  BY <1>1, <1>2, <1>3, <1>4, <1>5, <1>6, <1>7, <1>8, <1>9, <1>10, <1>11, <1>12, <1>13,
     <1>14, <1>15, <1>16, <1>17, <1>18, <1>19, <1>20, <1>21, <1>22, <1>23, <1>24, <1>25,
     <1>26, <1>27, <1>28, <1>29, <1>30, <1>31, <1>32, <1>33, <1>34, <1>35, <1>36, <1>37
     DEF Next, DaemonStep, OperatorStep

\* The invariant holds in a fresh workspace.
LEMMA InitIInv == Init => IInv
<1> SUFFICES ASSUME Init PROVE IInv
  OBVIOUS
<1> USE DEF Init
<1>1. 0 \in 0..MaxCrashes
  BY ConstantsAssumption
<1>2. /\ \A d \in Daemons : proc[d] = Idle
      /\ \A p \in Proposals : review[p] = "absent"
  OBVIOUS
<1>3. proc \in [Daemons -> Local] /\ review \in [Proposals -> Reviews]
  BY IdleType DEF Reviews
<1>4. TypeOK
  BY <1>1, <1>3, NoStateType, NoCommandType DEF TypeOK
<1>5. StateJustified /\ PromotedWasApproved
  BY JustifiedNoState DEF StateJustified, PromotedWasApproved
<1>6. /\ NoCommand.pc = "idle" /\ Justified(NoCommand.mem)
      /\ Idle.pc = "off" /\ Justified(Idle.mem)
  BY JustifiedNoState DEF NoCommand, Idle
<1>7. InductiveParts
  BY <1>2, <1>6 DEF InductiveParts, At
<1> QED BY <1>4, <1>5, <1>7 DEF IInv


\* The inductive invariant holds in every reachable state, for any number of
\* daemons, proposals and crashes.
THEOREM Inductive == Spec => []IInv
<1>1. IInv /\ [Next]_vars => IInv'
  BY TypeStep, SafetyStep DEF IInv
<1> QED BY InitIInv, <1>1, PTL DEF Spec

(* Type correctness of the daemon's files and local variables. *)
THEOREM TypeCorrect == Spec => []TypeOK
BY Inductive, PTL DEF IInv

(* Every halt and every cooldown found in daemon_state.json is justified. *)
THEOREM StateStaysJustified == Spec => []StateJustified
BY Inductive, PTL DEF IInv

(* Whatever the daemons and the operator do, and wherever they crash, only *)
(* proposals the operator accepted are ever promoted.                      *)
THEOREM PromotionBoundary == Spec => []PromotedWasApproved
BY Inductive, PTL DEF IInv

-----------------------------------------------------------------------------
(* A daemon that waits for a review.                                         *)

\* A step of d takes it from one location to another and leaves the others.
OthersStay(d) == \A e \in Daemons : e # d => proc'[e] = proc[e]

Moves(d, from, to) == proc[d].pc = from /\ proc'[d].pc \in to /\ OthersStay(d)

\* Moving on, in each of the forms the actions use, moves one daemon.
LEMMA Movements ==
  ASSUME proc \in [Daemons -> Local], NEW d \in Daemons
  PROVE  /\ \A x : Goto(d, x) \/ Forget(d, x) => OthersStay(d) /\ proc'[d].pc = x
         /\ \A b : Fails(d, b) => OthersStay(d) /\ proc'[d].pc = "fail" /\ proc'[d].unsafe = b
         /\ \A s, p : Records(d, s, p) => OthersStay(d) /\ proc'[d].pc = "record"
         /\ Become(d, Idle) => OthersStay(d) /\ proc'[d].pc = "off"
<1>1. proc[d] \in Local /\ Idle \in Local
  BY IdleType
<1>2. \A l : Become(d, l) => OthersStay(d) /\ proc'[d].pc = l.pc /\ proc'[d] = l
  BY DEF OthersStay, Become
<1>3. ASSUME NEW x PROVE Goto(d, x) => OthersStay(d) /\ proc'[d].pc = x
  <2>1. [proc[d] EXCEPT !.pc = x].pc = x
    BY <1>1 DEF Local
  <2>2. Goto(d, x) => Become(d, [proc[d] EXCEPT !.pc = x])
    BY DEF Goto, Become
  <2> QED BY <1>2, <2>1, <2>2
<1>4. ASSUME NEW x PROVE Forget(d, x) => OthersStay(d) /\ proc'[d].pc = x
  <2>1. [Idle EXCEPT !.pc = x].pc = x
    BY DEF Idle
  <2> QED BY <1>2, <2>1 DEF Forget
<1>5. ASSUME NEW b PROVE Fails(d, b) => OthersStay(d) /\ proc'[d].pc = "fail" /\ proc'[d].unsafe = b
  <2>1. [Idle EXCEPT !.pc = "fail", !.unsafe = b].pc = "fail" /\ [Idle EXCEPT !.pc = "fail", !.unsafe = b].unsafe = b
    BY DEF Idle
  <2> QED BY <1>2, <2>1 DEF Fails
<1>6. ASSUME NEW s, NEW p PROVE Records(d, s, p) => OthersStay(d) /\ proc'[d].pc = "record"
  <2>1. [Idle EXCEPT !.pc = "record", !.next = s, !.emitted = p].pc = "record"
    BY DEF Idle
  <2> QED BY <1>2, <2>1 DEF Records
<1>7. Become(d, Idle) => OthersStay(d) /\ proc'[d].pc = "off"
  BY <1>2 DEF Idle
<1> QED BY <1>3, <1>4, <1>5, <1>6, <1>7

\* Where each of a daemon's steps leads.
LEMMA Control ==
  ASSUME proc \in [Daemons -> Local], NEW d \in Daemons
  PROVE  /\ CheckLock(d) => Moves(d, "acquire", {"lock", "off"})
         /\ WriteLock(d) => Moves(d, "lock", {"beat"})
         /\ BeatIdle(d) => Moves(d, "beat", {"init"})
         /\ InitState(d) => Moves(d, "init", {"pause", "begin"})
         /\ Pause(d) => Moves(d, "pause", {"record"})
         /\ Begin(d) => Moves(d, "begin", {"poll"})
         /\ Poll(d) => Moves(d, "poll", {"release", "once"})
         /\ Cycled(d) => Moves(d, "cycled", {"poll", "release"})
         /\ Release(d) => Moves(d, "release", {"off"})
         /\ RunOnce(d) => Moves(d, "once", {"cycled", "reopen", "gates"})
         /\ Reopen(d) => Moves(d, "reopen", {"gates"})
         /\ Gates(d) => Moves(d, "gates", {"promote", "dirty", "mutate"})
         /\ ResumePromotion(d) => Moves(d, "promote", {"fail", "record", "promoting"})
         /\ FinishPromotion(d) => Moves(d, "promoting", {"fail", "record"})
         /\ DirtyCycle(d) => Moves(d, "dirty", {"fail", "record", "evaluate"})
         /\ Mutate(d) => Moves(d, "mutate", {"fail", "evaluate"})
         /\ Evaluate(d) => Moves(d, "evaluate", {"fail", "record", "rewrite"})
         /\ Rewrite(d) => Moves(d, "rewrite", {"record"})
         /\ Record(d) => Moves(d, "record", {"recordBeat"})
         /\ RecordBeat(d) => Moves(d, "recordBeat", {"release", "cycled"})
         /\ FailRevert(d) => Moves(d, "fail", {"failSave"})
         /\ FailSave(d) => Moves(d, "failSave", {"cycled"})
         /\ Crash(d) => Moves(d, proc[d].pc, {"off"})
         /\ Interrupt(d) => Moves(d, proc[d].pc, {"release"})
         /\ \A resume \in BOOLEAN : Start(d, resume) => Moves(d, "off", {"acquire"})
<1>1. proc[d] \in Local /\ Idle \in Local
  BY IdleType
<1>2. \A l : Become(d, l) => OthersStay(d) /\ proc'[d].pc = l.pc
  BY DEF OthersStay, Become
<1> USE Movements, <1>1, <1>2 DEF At, Moves
<1>4. CheckLock(d) => Moves(d, "acquire", {"lock", "off"})
  BY DEF CheckLock
<1>5. WriteLock(d) => Moves(d, "lock", {"beat"})
  BY DEF WriteLock
<1>6. BeatIdle(d) => Moves(d, "beat", {"init"})
  BY DEF BeatIdle
<1>7. InitState(d) => Moves(d, "init", {"pause", "begin"})
  <2> DEFINE loaded == IF state.status = "absent" THEN [state EXCEPT !.status = "idle"] ELSE state
             l == [proc[d] EXCEPT !.mem = loaded, !.pc = IF AwaitsReview(loaded) THEN "pause" ELSE "begin"]
  <2>1. l.pc \in {"pause", "begin"}
    BY DEF Local
  <2>2. InitState(d) => proc[d].pc = "init" /\ Become(d, l)
    BY DEF InitState
  <2> HIDE DEF l
  <2> QED BY <2>1, <2>2
<1>8. Pause(d) => Moves(d, "pause", {"record"})
  <2>1. [Idle EXCEPT !.pc = "record", !.next = "awaiting_review", !.returns = TRUE].pc = "record"
    BY DEF Idle
  <2> QED BY <2>1 DEF Pause
<1>9. Begin(d) => Moves(d, "begin", {"poll"})
  BY DEF Begin
<1>10. Poll(d) => Moves(d, "poll", {"release", "once"})
  BY DEF Poll
<1>11. Cycled(d) => Moves(d, "cycled", {"poll", "release"})
  BY DEF Cycled
<1>12. Release(d) => Moves(d, "release", {"off"})
  BY DEF Release
<1>13. RunOnce(d) => Moves(d, "once", {"cycled", "reopen", "gates"})
  <2>1. [proc[d] EXCEPT !.mem = state, !.pc = "reopen"].pc = "reopen"
    BY DEF Local
  <2> QED BY <2>1 DEF RunOnce
<1>14. Reopen(d) => Moves(d, "reopen", {"gates"})
  BY DEF Reopen
<1>15. Gates(d) => Moves(d, "gates", {"promote", "dirty", "mutate"})
  BY DEF Gates
<1>16. ResumePromotion(d) => Moves(d, "promote", {"fail", "record", "promoting"})
  <2>1. [proc[d] EXCEPT !.pc = "promoting", !.emitted = latest].pc = "promoting"
    BY DEF Local
  <2> QED BY <2>1 DEF ResumePromotion
<1>17. FinishPromotion(d) => Moves(d, "promoting", {"fail", "record"})
  BY DEF FinishPromotion
<1>18. DirtyCycle(d) => Moves(d, "dirty", {"fail", "record", "evaluate"})
  <2>1. [proc[d] EXCEPT !.pc = "evaluate", !.harness = FALSE].pc = "evaluate"
    BY DEF Local
  <2> QED BY <2>1 DEF DirtyCycle
<1>19. Mutate(d) => Moves(d, "mutate", {"fail", "evaluate"})
  <2>1. [proc[d] EXCEPT !.pc = "evaluate", !.harness = TRUE].pc = "evaluate"
    BY DEF Local
  <2> QED BY <2>1 DEF Mutate
<1>20. Evaluate(d) => Moves(d, "evaluate", {"fail", "record", "rewrite"})
  <2> SUFFICES ASSUME Evaluate(d) PROVE Moves(d, "evaluate", {"fail", "record", "rewrite"})
    OBVIOUS
  <2>1. ASSUME NEW p PROVE Become(d, [Idle EXCEPT !.pc = "rewrite", !.emitted = p]) =>
                             OthersStay(d) /\ proc'[d].pc = "rewrite"
    <3> DEFINE l == [Idle EXCEPT !.pc = "rewrite", !.emitted = p]
    <3>1. l.pc = "rewrite"
      BY DEF Idle
    <3> HIDE DEF l
    <3>2. Become(d, l) => OthersStay(d) /\ proc'[d].pc = "rewrite"
      BY <1>2, <3>1
    <3> QED BY <3>2 DEF l
  <2>2. ASSUME NEW p PROVE Records(d, "awaiting_review", p) => OthersStay(d) /\ proc'[d].pc = "record"
    BY Movements
  <2>3. Fails(d, FALSE) => OthersStay(d) /\ proc'[d].pc = "fail"
    BY Movements
  <2>4. OthersStay(d) /\ proc'[d].pc \in {"fail", "record", "rewrite"}
    BY <2>1, <2>2, <2>3 DEF Evaluate
  <2> QED BY <2>4 DEF Evaluate, At, Moves
<1>21. Rewrite(d) => Moves(d, "rewrite", {"record"})
  BY DEF Rewrite
<1>22. Record(d) => Moves(d, "record", {"recordBeat"})
  <2>1. [Idle EXCEPT !.pc = "recordBeat", !.returns = proc[d].returns].pc = "recordBeat"
    BY DEF Idle
  <2> QED BY <2>1 DEF Record
<1>23. RecordBeat(d) => Moves(d, "recordBeat", {"release", "cycled"})
  BY DEF RecordBeat
<1>24. FailRevert(d) => Moves(d, "fail", {"failSave"})
  BY DEF FailRevert
<1>25. FailSave(d) => Moves(d, "failSave", {"cycled"})
  BY DEF FailSave
<1>26. Crash(d) => Moves(d, proc[d].pc, {"off"})
  BY DEF Crash
<1>27. Interrupt(d) => Moves(d, proc[d].pc, {"release"})
  BY DEF Interrupt
<1>28. ASSUME NEW resume \in BOOLEAN PROVE Start(d, resume) => Moves(d, "off", {"acquire"})
  <2>1. [Idle EXCEPT !.pc = "acquire", !.recover = resume].pc = "acquire"
    BY DEF Idle
  <2> QED BY <2>1 DEF Start
<1> QED BY <1>4, <1>5, <1>6, <1>7, <1>8, <1>9, <1>10, <1>11, <1>12, <1>13, <1>14, <1>15,
           <1>16, <1>17, <1>18, <1>19, <1>20, <1>21, <1>22, <1>23, <1>24, <1>25, <1>26,
           <1>27, <1>28

\* What follows is about a workspace with one daemon.
OneDaemon == \A d, e \in Daemons : d = e

\* The part of WaitInv that is about d.
MayWait(d) ==
  state.status = "awaiting_review" =>
    /\ proc[d].pc \notin Working
    /\ At(d, "record") => proc[d].next = "awaiting_review"
    /\ At(d, "pause") => proc[d].mem.status = "awaiting_review"
    /\ proc[d].pc \in {"begin", "reopen"} => ~AwaitsReview(state)

\* A step that leaves the state file, or ends the wait in it, and takes the daemon
\* to a location where it may wait.
LEMMA StaysOut ==
  ASSUME NEW d \in Daemons, NEW from, NEW to, Moves(d, from, to),
         state'.status = "awaiting_review" =>
           to \cap (Working \cup {"record", "pause", "begin", "reopen"}) = {}
  PROVE  MayWait(d)'
<1>1. proc'[d].pc \in to
  BY DEF Moves
<1> QED BY <1>1 DEF MayWait, At

\* The steps on the way into a session and out of it, and those of the loop.
LEMMA LoopKeepsWait ==
  ASSUME NEW d \in Daemons, TypeOK, MayWait(d),
         \/ CheckLock(d) \/ WriteLock(d) \/ BeatIdle(d) \/ Begin(d) \/ Poll(d) \/ Cycled(d)
         \/ Release(d) \/ Record(d) \/ RecordBeat(d) \/ Crash(d) \/ Interrupt(d)
         \/ \E resume \in BOOLEAN : Start(d, resume)
  PROVE  MayWait(d)'
<1>1. proc \in [Daemons -> Local]
  BY DEF TypeOK
<1>2. PICK to \in {{"lock", "off"}, {"beat"}, {"init"}, {"poll"}, {"release", "once"},
                   {"poll", "release"}, {"off"}, {"recordBeat"}, {"release", "cycled"},
                   {"release"}, {"acquire"}} : Moves(d, proc[d].pc, to)
  BY <1>1, Control DEF Moves
<1>3. to \cap (Working \cup {"record", "pause", "begin", "reopen"}) = {}
  BY <1>2 DEF Working
<1> QED BY <1>2, <1>3, StaysOut

\* Once at work, a daemon finds the wait given up in the state file.
LEMMA WorkKeepsWait ==
  ASSUME NEW d \in Daemons, TypeOK, MayWait(d),
         \/ Gates(d) \/ ResumePromotion(d) \/ FinishPromotion(d) \/ DirtyCycle(d) \/ Mutate(d)
         \/ Evaluate(d) \/ Rewrite(d) \/ FailRevert(d) \/ FailSave(d)
  PROVE  MayWait(d)'
<1>1. proc[d].pc \in Working
  BY DEF Working, At, Gates, ResumePromotion, FinishPromotion, DirtyCycle, Mutate, Evaluate,
         Rewrite, FailRevert, FailSave
<1>2. state.status # "awaiting_review"
  BY <1>1 DEF MayWait
<1>3. ASSUME FailSave(d) PROVE state'.status # "awaiting_review"
  <2>1. state \in DaemonState
    BY DEF TypeOK
  <2>2. \A m \in BOOLEAN : Failed(state, m).status # "awaiting_review"
    BY <1>2, <2>1 DEF Failed, DaemonState
  <2>3. proc[d].unsafe \in BOOLEAN
    BY DEF TypeOK, Local
  <2> QED BY <1>3, <2>2, <2>3 DEF FailSave
<1>4. CASE FailSave(d)
  BY <1>3, <1>4 DEF MayWait
<1>5. CASE ~FailSave(d)
  <2>1. state' = state
    BY <1>5 DEF Gates, ResumePromotion, FinishPromotion, DirtyCycle, Mutate, Evaluate, Rewrite,
                FailRevert
  <2> QED BY <1>2, <2>1 DEF MayWait
<1> QED BY <1>4, <1>5

\* The steps that look at the review, and act on what they saw.
LEMMA ReviewKeepsWait ==
  ASSUME NEW d \in Daemons, TypeOK, MayWait(d),
         InitState(d) \/ Pause(d) \/ RunOnce(d) \/ Reopen(d)
  PROVE  MayWait(d)'
<1>1. proc \in [Daemons -> Local] /\ state \in DaemonState /\ proc[d] \in Local
  BY DEF TypeOK
<1>2. CASE InitState(d)
  <2> DEFINE loaded == IF state.status = "absent" THEN [state EXCEPT !.status = "idle"] ELSE state
             l == [proc[d] EXCEPT !.mem = loaded,
                     !.pc = IF AwaitsReview(loaded) THEN "pause" ELSE "begin"]
  <2>1. state.status = "awaiting_review" => loaded = state
    OBVIOUS
  <2>2. /\ l.mem = loaded
        /\ l.pc = IF AwaitsReview(loaded) THEN "pause" ELSE "begin"
    BY <1>1 DEF Local
  <2>3. Become(d, l) /\ UNCHANGED <<state, review, latest>>
    BY <1>2 DEF InitState, planeVars
  <2>4. proc'[d] = l
    BY <1>1, <2>3 DEF Become
  <2>5. AwaitsReview(state)' = AwaitsReview(state)
    BY <2>3 DEF AwaitsReview, Referenced
  <2> HIDE DEF l, loaded
  <2> QED BY <2>1, <2>2, <2>3, <2>4, <2>5 DEF MayWait, At, Working
<1>3. CASE Pause(d)
  <2>1. proc'[d] = [Idle EXCEPT !.pc = "record", !.next = "awaiting_review", !.returns = TRUE]
    BY <1>1, <1>3 DEF Pause, Become
  <2>2. proc'[d].pc = "record" /\ proc'[d].next = "awaiting_review"
    BY <2>1 DEF Idle
  <2> QED BY <2>2 DEF MayWait, At, Working
<1>4. CASE RunOnce(d)
  <2>1. UNCHANGED <<state, review, latest>>
    BY <1>4 DEF RunOnce, planeVars
  <2>2. AwaitsReview(state)' = AwaitsReview(state)
    BY <2>1 DEF AwaitsReview, Referenced
  <2>3. [proc[d] EXCEPT !.mem = state, !.pc = "reopen"].pc = "reopen"
    BY <1>1 DEF Local
  <2>4. /\ proc'[d].pc \in {"cycled", "reopen", "gates"}
        /\ proc'[d].pc = "reopen" => ~AwaitsReview(state)
        /\ proc'[d].pc = "gates" => state.status # "awaiting_review"
    <3>1. \A x : Goto(d, x) => proc'[d].pc = x
      BY <1>1, Movements
    <3>2. Become(d, [proc[d] EXCEPT !.mem = state, !.pc = "reopen"]) => proc'[d].pc = "reopen"
      BY <1>1, <2>3 DEF Become
    <3> QED BY <1>4, <3>1, <3>2 DEF RunOnce
  <2> QED BY <2>1, <2>2, <2>4 DEF MayWait, At, Working
<1>5. CASE Reopen(d)
  <2>1. state' = [proc[d].mem EXCEPT !.status = "running"]
    BY <1>5 DEF Reopen
  <2>2. state'.status = "running"
    BY <1>1, <2>1 DEF Local, DaemonState
  <2> QED BY <2>2 DEF MayWait
<1> QED BY <1>2, <1>3, <1>4, <1>5

\* The operator and the clock bring no proposal under review, and move no daemon.
LEMMA OperatorKeepsWait ==
  ASSUME IInv, WaitInv, OperatorStep \/ OpCrash \/ HeartbeatAges \/ CooldownEnds
  PROVE  WaitInv'
<1> USE DEF planeVars, restVars
<1>1. /\ review \in [Proposals -> Reviews] /\ latest \in Proposals \cup {None}
      /\ state \in DaemonState /\ op \in Operator /\ None \notin Proposals
  BY ConstantsAssumption DEF IInv, TypeOK
<1>2. proc' = proc /\ (state' = state \/ state'.status = "stop_requested")
  <2>1. CASE OpStopSave
    <3>1. [op.mem EXCEPT !.status = "stop_requested"].status = "stop_requested"
      BY <1>1 DEF Operator, DaemonState
    <3> QED BY <2>1, <3>1 DEF OpStopSave
  <2>2. CASE ~OpStopSave
    BY <2>2 DEF OperatorStep, OpStop, OpAccept, OpAcceptSave, OpReject, OpRejectReset, OpPromote,
                OpPromoteFinish, OpCrash, HeartbeatAges, CooldownEnds
  <2> QED BY <2>1, <2>2
<1>3. ASSUME state' = state PROVE AwaitsReview(state)' => AwaitsReview(state)
  <2>1. CASE OpAcceptSave
    <3>1. op.proposal \in Proposals
      BY <1>1, <2>1 DEF OpAcceptSave, IInv, InductiveParts, TypeOK
    <3>2. review' = [review EXCEPT ![op.proposal] = "accepted"] /\ latest' = op.proposal
      BY <2>1 DEF OpAcceptSave
    <3>3. state.proposal \in Proposals \cup {None}
      BY <1>1 DEF DaemonState
    <3> QED BY <1>1, <1>3, <3>1, <3>2, <3>3 DEF AwaitsReview, Referenced
  <2>2. CASE OpReject
    <3>1. latest \in Proposals /\ review' = [review EXCEPT ![latest] = "rejected"] /\ latest' = latest
      BY <1>1, <2>2 DEF OpReject
    <3>3. state.proposal \in Proposals \cup {None}
      BY <1>1 DEF DaemonState
    <3> QED BY <1>1, <1>3, <3>1, <3>3 DEF AwaitsReview, Referenced
  <2>3. CASE ~OpAcceptSave /\ ~OpReject
    <3>1. UNCHANGED <<review, latest>>
      BY <2>3 DEF OperatorStep, OpStop, OpStopSave, OpAccept, OpRejectReset, OpPromote,
                  OpPromoteFinish, OpCrash, HeartbeatAges, CooldownEnds
    <3> QED BY <1>3, <3>1 DEF AwaitsReview, Referenced
  <2> QED BY <2>1, <2>2, <2>3
<1> QED BY <1>2, <1>3 DEF WaitInv, At

\* The invariant of a workspace with one daemon.
LEMMA WaitInvariant ==
  ASSUME OneDaemon PROVE Spec => [](IInv /\ WaitInv)
<1>1. Init => WaitInv
  BY DEF Init, NoState, WaitInv
<1>2. IInv /\ WaitInv /\ [Next]_vars => WaitInv'
  <2> SUFFICES ASSUME IInv, WaitInv, [Next]_vars PROVE WaitInv'
    OBVIOUS
  <2>1. CASE UNCHANGED vars
    BY <2>1 DEF vars, planeVars, WaitInv, At, AwaitsReview, Referenced
  <2>2. ASSUME NEW d \in Daemons, MayWait(d)' PROVE WaitInv'
    BY <2>2 DEF OneDaemon, WaitInv, MayWait
  <2>3. ASSUME NEW d \in Daemons PROVE MayWait(d)
    BY DEF WaitInv, MayWait
  <2>4. ASSUME NEW d \in Daemons,
               \/ DaemonStep(d) \/ Crash(d) \/ Interrupt(d)
               \/ \E resume \in BOOLEAN : Start(d, resume)
        PROVE  MayWait(d)'
    <3>1. TypeOK /\ MayWait(d)
      BY <2>3 DEF IInv
    <3> QED BY <2>4, <3>1, LoopKeepsWait, WorkKeepsWait, ReviewKeepsWait DEF DaemonStep
  <2> QED BY <2>1, <2>2, <2>4, OperatorKeepsWait DEF Next
<1> QED BY <1>1, <1>2, Inductive, PTL DEF Spec

\* While it may wait, a daemon does nothing but wait.
LEMMA WaitingStep ==
  ASSUME NEW d \in Daemons, TypeOK, MayWait(d), DaemonStep(d),
         state.status = "awaiting_review", AwaitsReview(state)
  PROVE  state'.status = "awaiting_review" /\ UNCHANGED <<planeVars, promoVars>>
<1>1. proc[d].pc \notin Working \cup {"begin", "reopen"}
  BY DEF MayWait
<1>2. \/ CheckLock(d) \/ WriteLock(d) \/ BeatIdle(d) \/ InitState(d) \/ Pause(d) \/ Poll(d)
      \/ Cycled(d) \/ Release(d) \/ RunOnce(d) \/ Record(d) \/ RecordBeat(d)
  BY <1>1 DEF DaemonStep, Working, At, Begin, Reopen, Gates, ResumePromotion, FinishPromotion,
     DirtyCycle, Mutate, Evaluate, Rewrite, FailRevert, FailSave
<1>3. UNCHANGED <<planeVars, promoVars>>
  BY <1>2 DEF CheckLock, WriteLock, BeatIdle, InitState, Pause, Poll, Cycled, Release, RunOnce,
     Record, RecordBeat
<1>4. CASE Pause(d)
  BY <1>4 DEF Pause, MayWait, At
<1>5. CASE Record(d)
  <2>1. state' = Completed(state, "awaiting_review", proc[d].emitted)
    BY <1>5 DEF Record, MayWait, At
  <2> QED BY <1>3, <2>1 DEF Completed
<1>6. CASE ~Pause(d) /\ ~Record(d)
  <2>1. state' = state
    BY <1>2, <1>6 DEF CheckLock, WriteLock, BeatIdle, InitState, Poll, Cycled, Release, RunOnce,
       RecordBeat
  <2> QED BY <1>3, <2>1
<1> QED BY <1>3, <1>4, <1>5, <1>6

(* A daemon that waits for a review keeps waiting, over its own restarts and  *)
(* resumes, in a workspace that has no other daemon.                          *)
THEOREM TheWaitIsKept ==
  ASSUME OneDaemon PROVE Spec => WaitsForTheReview
<1>1. IInv /\ WaitInv /\ [Next]_vars =>
        [\A d \in Daemons :
           state.status = "awaiting_review" /\ AwaitsReview(state) /\ DaemonStep(d) =>
             /\ state'.status = "awaiting_review"
             /\ UNCHANGED <<planeVars, promoVars>>]_vars
  <2>1. IInv /\ WaitInv => TypeOK /\ \A d \in Daemons : MayWait(d)
    BY DEF IInv, WaitInv, MayWait
  <2> QED BY <2>1, WaitingStep
<1> QED BY <1>1, WaitInvariant, PTL DEF Spec, WaitsForTheReview
=============================================================================

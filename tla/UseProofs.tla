------------------------------- MODULE UseProofs -------------------------------
(***************************************************************************)
(* The clients of a managed host.  What happens to the updater among its   *)
(* clients is what may happen to it anyway, so all its theorems hold there; *)
(* and an approval that a client was given stays good for what it asks     *)
(* next: the release the service executes can only change to one that the  *)
(* pointer has named since.                                                *)
(***************************************************************************)
EXTENDS ManagedUse, ServiceProofs

\* A step among clients is a step of the updater, or none.
LEMMA UseStep == [UseNext]_useVars => [Next]_vars
<1> SUFFICES ASSUME [UseNext]_useVars PROVE [Next]_vars OBVIOUS
<1>1. CASE UNCHANGED useVars BY <1>1 DEF useVars
<1>2. CASE UseNext
  <2>1. ASSUME NEW p \in Procs, \/ \E tool \in {"cli", "mcp"} : Enter(p, tool)
                               \/ Ask(p) \/ OperatorRollback(p)
        PROVE  Next
    BY <2>1 DEF Enter, Ask, OperatorRollback, Next
  <2>2. ASSUME NEW p \in Procs,
               \/ GatePassed(p) \/ GateRefused(p) \/ Exec(p) \/ RecheckPassed(p)
               \/ RecheckRefused(p) \/ RecheckTimesOut(p) \/ Invoke(p) \/ Leave(p)
        PROVE  UNCHANGED vars
    BY <2>2 DEF GatePassed, GateRefused, Exec, RecheckPassed, RecheckRefused,
                RecheckTimesOut, Invoke, Leave
  <2>3. Background \/ HostPowerLoss => Next
    BY DEF Background, HostPowerLoss, Next, Environment
  <2> QED BY <1>2, <2>1, <2>2, <2>3 DEF UseNext
<1> QED BY <1>1, <1>2

\* The updater among its clients is the updater: whatever is proved of Spec holds of
\* UseSpec.
THEOREM UseRefines == UseSpec => Spec
<1>1. UseInit => Init BY DEF UseInit
<1> QED BY <1>1, UseStep, PTL DEF UseSpec, Spec

\* No client, however it enters, gives up or leaves, makes an invocation forget what
\* another one recorded.
THEOREM NothingForgottenInUse == UseSpec => []NoLostUpdate
BY UseRefines, NothingForgotten, PTL
-----------------------------------------------------------------------------
(* Types *)

Tools == {"none", "cli", "mcp"}
Sessions == [tool : Tools, step : Steps, binary : Releases \cup {NoRelease}]

\* What a client is at each step, besides its types.
Placed(p) ==
  LET s == session[p] IN
  /\ s.step \in {"open", "recheck", "invoke"} => s.binary \in Releases
  /\ s.step \in {"open", "recheck"} => s.tool = "mcp"
  /\ s.step = "away" => s = Away
  /\ s.step # "away" => s.tool \in {"cli", "mcp"}

SessionInv ==
  /\ session \in [Procs -> Sessions] /\ seen \in [Procs -> SUBSET Releases]
  /\ \A p \in Procs : Placed(p)

LEMMA AwayType == Away \in Sessions /\ Away.step = "away"
BY DEF Away, Sessions, Tools, Steps

\* A step of one client to another one of its steps.
LEMMA Stepped ==
  ASSUME session \in [Procs -> Sessions], NEW p \in Procs, NEW s \in Steps, Step(p, s)
  PROVE  /\ session' \in [Procs -> Sessions]
         /\ session'[p].step = s /\ session'[p].tool = session[p].tool
         /\ session'[p].binary = session[p].binary
         /\ \A q \in Procs : q # p => session'[q] = session[q]
BY DEF Step, Sessions

\* The history has its type.
LEMMA TrackType ==
  ASSUME IInv', session \in [Procs -> Sessions], Track
  PROVE  seen \in [Procs -> SUBSET Releases] => seen' \in [Procs -> SUBSET Releases]
<1>1. disk'.pointer \in Releases BY DEF IInv, TypeOK, FilesType, Disk
<1> QED BY <1>1 DEF Track

\* The steps of one client.
ClientActs(p) ==
  \/ \E tool \in {"cli", "mcp"} : Enter(p, tool)
  \/ GatePassed(p) \/ GateRefused(p) \/ Exec(p) \/ Ask(p) \/ RecheckPassed(p)
  \/ RecheckRefused(p) \/ RecheckTimesOut(p) \/ Invoke(p) \/ Leave(p)

LEMMA ClientTypes ==
  ASSUME IInv, SessionInv, NEW p \in Procs, ClientActs(p)
  PROVE  /\ session' \in [Procs -> Sessions] /\ Placed(p)'
         /\ \A q \in Procs : q # p => session'[q] = session[q]
<1> USE DEF At
<1>0. /\ session \in [Procs -> Sessions] /\ Placed(p) /\ session[p] \in Sessions
      /\ disk.pointer \in Releases
  BY DEF SessionInv, IInv, TypeOK, FilesType, Disk
<1>1. ASSUME NEW tool \in {"cli", "mcp"}, Enter(p, tool)
      PROVE  /\ session' \in [Procs -> Sessions] /\ Placed(p)'
             /\ \A q \in Procs : q # p => session'[q] = session[q]
  <2>1. /\ session' = [session EXCEPT ![p] = [Away EXCEPT !.tool = tool, !.step = "gate"]]
    BY <1>1 DEF Enter
  <2>2. /\ [Away EXCEPT !.tool = tool, !.step = "gate"] \in Sessions
        /\ [Away EXCEPT !.tool = tool, !.step = "gate"].step = "gate"
        /\ [Away EXCEPT !.tool = tool, !.step = "gate"].tool = tool
    BY AwayType DEF Sessions, Tools, Steps
  <2>3. session'[p] = [Away EXCEPT !.tool = tool, !.step = "gate"]
    BY <1>0, <2>1
  <2> QED BY <1>0, <2>1, <2>2, <2>3 DEF Placed
<1>2. CASE session' = [session EXCEPT ![p] = Away]
  <2>1. session'[p] = Away BY <1>0, <1>2
  <2> QED BY <1>0, <1>2, <2>1, AwayType DEF Placed
<1>3. CASE GatePassed(p)
  <2>1. Step(p, "exec") /\ "exec" \in Steps /\ session[p].step = "gate"
    BY <1>3 DEF GatePassed, Steps
  <2> QED BY <1>0, <2>1, Stepped DEF Placed
<1>4. CASE Ask(p)
  <2>1. Step(p, "recheck") /\ "recheck" \in Steps /\ session[p].step = "open"
    BY <1>4 DEF Ask, Steps
  <2> QED BY <1>0, <2>1, Stepped DEF Placed
<1>5. CASE RecheckPassed(p) \/ RecheckRefused(p) \/ RecheckTimesOut(p)
  <2>1. /\ Step(p, "open") \/ Step(p, "invoke")
        /\ "open" \in Steps /\ "invoke" \in Steps /\ session[p].step = "recheck"
    BY <1>5 DEF RecheckPassed, RecheckRefused, RecheckTimesOut, Steps
  <2> QED BY <1>0, <2>1, Stepped DEF Placed
<1>6. CASE Invoke(p) /\ session[p].tool # "cli"
  <2>1. Step(p, "open") /\ "open" \in Steps /\ session[p].step = "invoke"
    BY <1>6 DEF Invoke, Steps
  <2> QED BY <1>0, <1>6, <2>1, Stepped DEF Placed
<1>7. CASE Exec(p)
  <2>1. /\ session[p].step = "exec" /\ session[p].tool \in {"cli", "mcp"}
        /\ Load(p, disk.pointer)
    BY <1>0, <1>7 DEF Exec, Placed
  <2>2. /\ session' \in [Procs -> Sessions]
        /\ session'[p].tool = session[p].tool /\ session'[p].binary = disk.pointer
        /\ session'[p].step = IF session[p].tool = "cli" THEN "invoke" ELSE "open"
        /\ \A q \in Procs : q # p => session'[q] = session[q]
    BY <1>0, <2>1 DEF Load, Sessions, Steps
  <2> QED BY <1>0, <2>1, <2>2 DEF Placed
<1> QED BY <1>1, <1>2, <1>3, <1>4, <1>5, <1>6, <1>7
        DEF ClientActs, GateRefused, Leave, Invoke

LEMMA SessionHolds == UseSpec => []SessionInv
<1>1. UseInit => SessionInv
  BY AwayType DEF UseInit, SessionInv, Placed
<1>2. IInv /\ IInv' /\ SessionInv /\ [UseNext]_useVars => SessionInv'
  <2> SUFFICES ASSUME IInv, IInv', SessionInv, [UseNext]_useVars PROVE SessionInv'
    OBVIOUS
  <2>1. CASE UNCHANGED useVars BY <2>1 DEF useVars, SessionInv, Placed
  <2>2. ASSUME UseNext, session' \in [Procs -> Sessions], \A p \in Procs : Placed(p)'
        PROVE  SessionInv'
    BY <2>2, TrackType DEF SessionInv, UseNext
  <2>3. ASSUME NEW p \in Procs, ClientActs(p)
        PROVE  session' \in [Procs -> Sessions] /\ \A q \in Procs : Placed(q)'
    BY <2>3, ClientTypes DEF SessionInv, Placed
  <2>4. ASSUME session' = session
        PROVE  session' \in [Procs -> Sessions] /\ \A q \in Procs : Placed(q)'
    BY <2>4 DEF SessionInv, Placed
  <2>5. ASSUME HostPowerLoss
        PROVE  session' \in [Procs -> Sessions] /\ \A q \in Procs : Placed(q)'
    BY <2>5, AwayType DEF HostPowerLoss, Placed
  <2> QED BY <2>1, <2>2, <2>3, <2>4, <2>5
          DEF UseNext, ClientActs, Background, OperatorRollback
<1>3. Spec => []IInv BY Invariance
<1> QED BY <1>1, <1>2, <1>3, UseRefines, PTL DEF UseSpec

\* Whatever the adapter and the wrappers go through, a client that may ask the service
\* executes a release, and only an adapter waits for another request.
THEOREM SessionTypes == UseSpec => []SessionTypeOK
<1>1. SessionInv => SessionTypeOK
  BY DEF SessionInv, SessionTypeOK, Sessions, Tools, Placed, At
<1> QED BY <1>1, SessionHolds, PTL
-----------------------------------------------------------------------------
(* Approvals in use *)

\* A process that runs has not answered yet.
Unanswered(p) == pc[p] # "idle" => answer[p] = NoAnswer

\* An approval that still counts: since it was printed the pointer has only named,
\* and the service has only executed, releases that seen remembers.
Covered(p) ==
  /\ session[p] # Away => disk.pointer \in seen[p]
  /\ At(p, "exec") \/ At(p, "invoke") => Granted(p)
  /\ Granted(p) /\ session[p] # Away =>
       /\ answer[p].release \in seen[p]
       /\ running \in seen[p] \cup {NoRelease}
  /\ At(p, "invoke") => session[p].binary \in seen[p]
UseInv == \A p \in Procs : Unanswered(p) /\ Covered(p)

\* How a process answers: while it runs it has not, and only its own end changes what
\* it printed.
LEMMA Answered ==
  ASSUME IInv, NEW q \in Procs, Run(q) \/ Throw(q) \/ Kill(q)
  PROVE  /\ pc[q] # "idle"
         /\ \A p \in Procs : p # q => pc'[p] = pc[p] /\ answer'[p] = answer[p]
         /\ pc'[q] # "idle" => answer'[q] = answer[q]
<1>0. /\ pc \in [Procs -> Labels] /\ answer \in [Procs -> Answers]
  BY DEF IInv, TypeOK, ControlType
<1>1. /\ \A l : Goto(q, l) =>
           answer' = answer /\ \A p \in Procs : p # q => pc'[p] = pc[p]
      /\ \A a : Exit(q, a) =>
           /\ pc'[q] = "idle"
           /\ \A p \in Procs : p # q => pc'[p] = pc[p] /\ answer'[p] = answer[p]
      /\ Raise(q) =>
           /\ pc'[q] = "idle" \/ answer' = answer
           /\ \A p \in Procs : p # q => pc'[p] = pc[p] /\ answer'[p] = answer[p]
  BY <1>0 DEF Goto, Exit, Raise
<1>2. CASE Recover(q) \/ Verify(q) \/ VerifyRefused(q) \/ Fetch(q) \/ Stage(q) \/ Choose(q)
  <2>1. pc[q] # "idle" /\ ((\E l : Goto(q, l)) \/ (\E a : Exit(q, a)))
    BY <1>2
    DEF Recover, RecoverTxn, RecoverNone, RecoverRefused, Verify, VerifyRefused, Fetch,
        FetchOffline, FetchRefused, FetchRevoking, FetchCurrent, FetchUpgrade, Stage,
        Prepare, StageManifest, StageRoles, StageRefused, Choose
  <2> QED BY <1>1, <2>1
<1>3. CASE Write(q)
  <2>1. /\ pc[q] # "idle"
        /\ \/ UNCHANGED <<pc, answer>> \/ (\E l : Goto(q, l)) \/ (\E a : Exit(q, a))
           \/ Raise(q)
    BY <1>3
    DEF Write, Create, CreateRefused, Rename, Fsync, FsyncReturn, WriteSites, LedgerSites,
        LinkSites
  <2> QED BY <1>1, <2>1
<1>4. CASE Prove(q)
  <2>1. /\ pc[q] # "idle"
        /\ (\E l : Goto(q, l)) \/ (\E a : Exit(q, a)) \/ Raise(q)
    BY <1>4
    DEF Prove, Restart, ProbeNew, ProbeOld, ProbeRec, ProbeRefused, Audit, Unlink,
        RestartSites, ProbeSites, AuditSites, UnlinkSites
  <2> QED BY <1>1, <2>1
<1>5. CASE Throw(q) \/ Kill(q)
  BY <1>1, <1>5 DEF Throw, Kill
<1> QED BY <1>2, <1>3, <1>4, <1>5 DEF Run

LEMMA UnansweredKept ==
  ASSUME IInv, [Next]_vars, \A p \in Procs : Unanswered(p)
  PROVE  \A p \in Procs : Unanswered(p)'
<1> SUFFICES ASSUME NEW p \in Procs PROVE Unanswered(p)'
  OBVIOUS
<1>1. ASSUME NEW q \in Procs, Run(q) \/ Throw(q) \/ Kill(q) PROVE Unanswered(p)'
  BY <1>1, Answered DEF Unanswered
<1>2. ASSUME NEW q \in Procs, NEW o \in {"check", "rollback"}, Start(q, o)
      PROVE  Unanswered(p)'
  BY <1>2 DEF Start, Unanswered, IInv, TypeOK, ControlType
<1>3. CASE PowerLoss BY <1>3 DEF PowerLoss, Unanswered
<1>4. CASE \/ Writeback \/ ServiceCrash \/ ServiceStart \/ SetClock \/ OperatorClean
           \/ UNCHANGED vars
  BY <1>4 DEF Writeback, ServiceCrash, ServiceStart, SetClock, OperatorClean, vars, control,
              Unanswered
<1> QED BY <1>1, <1>2, <1>3, <1>4 DEF Next, Environment

\* The service only changes to what the pointer names, or stops.
LEMMA ServiceFollows ==
  ASSUME [Next]_vars
  PROVE  running' \in {running, NoRelease, disk.pointer}
<1>1. ASSUME NEW q \in Procs, Run(q) PROVE running' \in {running, disk.pointer}
  <2>1. CASE Recover(q) \/ Verify(q) \/ VerifyRefused(q) \/ Fetch(q) \/ Stage(q) \/ Choose(q)
    BY <2>1
    DEF Recover, RecoverTxn, RecoverNone, RecoverRefused, Verify, VerifyRefused, Fetch,
        FetchOffline, FetchRefused, FetchRevoking, FetchCurrent, FetchUpgrade, Stage,
        Prepare, StageManifest, StageRoles, StageRefused, Choose, host
  <2>2. CASE Write(q)
    BY <2>2 DEF Write, Create, CreateRefused, Rename, Fsync, FsyncReturn, host
  <2>3. CASE Prove(q)
    BY <2>3 DEF Prove, Restart, ProbeNew, ProbeOld, ProbeRec, ProbeRefused, Audit, Unlink, host
  <2> QED BY <1>1, <2>1, <2>2, <2>3 DEF Run
<1>2. CASE \E q \in Procs : Throw(q) \/ Kill(q) \/ \E o \in {"check", "rollback"} : Start(q, o)
  BY <1>2 DEF Throw, Kill, Start, host
<1>3. CASE Environment \/ UNCHANGED vars
  BY <1>3 DEF Environment, PowerLoss, Writeback, ServiceCrash, ServiceStart, OperatorClean,
              SetClock, vars, host
<1> QED BY <1>1, <1>2, <1>3 DEF Next

\* What a step may do to a client: nothing; begin to wait for an answer, which is not
\* there yet; go on by itself, with an approval wherever it needs one; or end.
Advance(p) ==
  /\ UNCHANGED vars /\ session[p] # Away
  /\ \/ session'[p].step = "open"
     \/ session'[p].step = "exec" /\ Granted(p)
     \/ /\ session'[p].step = "invoke" /\ Granted(p)
        /\ session'[p].binary \in {disk.pointer, answer[p].release}
Moved(p) ==
  \/ session'[p] = session[p]
  \/ session'[p].step \in {"gate", "recheck"} /\ answer'[p] = NoAnswer
  \/ Advance(p)
  \/ session'[p] = Away

LEMMA ClientMoves ==
  ASSUME IInv, SessionInv, UseInv, NEW p \in Procs, ClientActs(p)
  PROVE  Moved(p)
<1> USE DEF At
<1>0. /\ session \in [Procs -> Sessions] /\ session[p] \in Sessions /\ Covered(p)
      /\ answer \in [Procs -> Answers]
      /\ session[p].step # "away" => session[p] # Away
  BY AwayType DEF SessionInv, UseInv, IInv, TypeOK, ControlType
<1>1. CASE \E tool \in {"cli", "mcp"} : Enter(p, tool)
  <2>1. PICK tool \in {"cli", "mcp"} :
             /\ session' = [session EXCEPT ![p] = [Away EXCEPT !.tool = tool, !.step = "gate"]]
             /\ Start(p, "check")
    BY <1>1 DEF Enter
  <2>2. [Away EXCEPT !.tool = tool, !.step = "gate"].step = "gate"
    BY AwayType DEF Sessions
  <2>3. session'[p].step = "gate" BY <1>0, <2>1, <2>2
  <2>4. answer'[p] = NoAnswer BY <1>0, <2>1 DEF Start
  <2> QED BY <2>3, <2>4 DEF Moved
<1>2. CASE session' = [session EXCEPT ![p] = Away]
  BY <1>0, <1>2 DEF Moved
<1>3. CASE GatePassed(p)
  <2>1. Step(p, "exec") /\ "exec" \in Steps /\ session[p].step = "gate" /\ Granted(p)
        /\ UNCHANGED vars
    BY <1>3 DEF GatePassed, Steps
  <2> QED BY <1>0, <2>1, Stepped DEF Moved, Advance
<1>4. CASE Ask(p)
  <2>1. Step(p, "recheck") /\ "recheck" \in Steps /\ Start(p, "check")
    BY <1>4 DEF Ask, Steps
  <2>2. answer'[p] = NoAnswer BY <1>0, <2>1 DEF Start
  <2> QED BY <1>0, <2>1, <2>2, Stepped DEF Moved
<1>5. CASE RecheckPassed(p)
  <2>1. /\ Step(p, "open") \/ Step(p, "invoke")
        /\ "open" \in Steps /\ "invoke" \in Steps /\ session[p].step = "recheck"
        /\ Granted(p) /\ answer[p].release = session[p].binary /\ UNCHANGED vars
    BY <1>5 DEF RecheckPassed, Rechecked, Steps
  <2> QED BY <1>0, <2>1, Stepped DEF Moved, Advance
<1>6. CASE \/ RecheckRefused(p) \/ RecheckTimesOut(p)
           \/ Invoke(p) /\ session[p].tool # "cli"
  <2>1. /\ Step(p, "open") /\ "open" \in Steps /\ UNCHANGED vars
        /\ session[p].step \in {"recheck", "invoke"}
    BY <1>6 DEF RecheckRefused, RecheckTimesOut, Invoke, Steps
  <2> QED BY <1>0, <2>1, Stepped DEF Moved, Advance
<1>7. CASE Exec(p)
  <2>1. session[p].step = "exec" /\ Load(p, disk.pointer) /\ UNCHANGED vars
    BY <1>7 DEF Exec
  <2>2. /\ session'[p].binary = disk.pointer
        /\ session'[p].step \in {"invoke", "open"}
    BY <1>0, <2>1 DEF Load, Sessions, Steps
  <2>3. Granted(p) BY <1>0, <2>1 DEF Covered
  <2> QED BY <1>0, <2>1, <2>2, <2>3 DEF Moved, Advance
<1> QED BY <1>1, <1>2, <1>3, <1>4, <1>5, <1>6, <1>7
        DEF ClientActs, GateRefused, Leave, Invoke

LEMMA EveryoneMoves ==
  ASSUME IInv, SessionInv, UseInv, UseNext, NEW p \in Procs
  PROVE  Moved(p)
<1>1. ASSUME NEW q \in Procs, ClientActs(q) PROVE Moved(p)
  <2>1. p = q \/ session'[p] = session[p] BY <1>1, ClientTypes
  <2> QED BY <1>1, <2>1, ClientMoves DEF Moved
<1>2. CASE HostPowerLoss BY <1>2 DEF HostPowerLoss, Moved
<1>3. CASE session' = session BY <1>3 DEF Moved
<1> QED BY <1>1, <1>2, <1>3 DEF UseNext, ClientActs, Background, OperatorRollback

\* What seen remembers of a client that stays.
LEMMA Tracked ==
  ASSUME Track, NEW p \in Procs, session'[p] # Away
  PROVE  /\ disk'.pointer \in seen'[p]
         /\ answer'[p] = answer[p] => seen[p] \subseteq seen'[p]
         /\ answer'[p] # answer[p] => seen'[p] = {disk'.pointer}
BY DEF Track

\* A client about to use its approval is not started, and its invocation has ended, so
\* nothing changes what it was answered.
LEMMA Calm ==
  ASSUME IInv, SessionInv, UseNext, NEW p \in Procs, session'[p] # Away,
         session[p].step \in {"exec", "invoke"}, session'[p] = session[p], Granted(p)
  PROVE  Granted(p)' /\ answer'[p] = answer[p]
<1>0. /\ session \in [Procs -> Sessions] /\ answer \in [Procs -> Answers]
      /\ pc \in [Procs -> Labels] /\ pc[p] = "idle"
  BY DEF SessionInv, IInv, TypeOK, ControlType, Granted
<1> SUFFICES pc'[p] = pc[p] /\ answer'[p] = answer[p]
  BY DEF Granted
<1>1. ASSUME NEW q \in Procs, Run(q) \/ Throw(q) \/ Kill(q)
      PROVE  pc'[p] = pc[p] /\ answer'[p] = answer[p]
  BY <1>0, <1>1, Answered
<1>2. ASSUME NEW q \in Procs, NEW o \in {"check", "rollback"}, Start(q, o), q # p
      PROVE  pc'[p] = pc[p] /\ answer'[p] = answer[p]
  BY <1>0, <1>2 DEF Start
<1>3. ASSUME NEW tool \in {"cli", "mcp"}, Enter(p, tool) PROVE FALSE
  BY <1>3 DEF Enter, At
<1>4. ~Ask(p) /\ ~OperatorRollback(p) BY DEF Ask, OperatorRollback, At
<1>5. CASE UNCHANGED vars BY <1>5 DEF vars, control
<1>6. CASE HostPowerLoss BY <1>6 DEF HostPowerLoss
<1>7. CASE Background
  BY <1>1, <1>7 DEF Background, Writeback, ServiceCrash, ServiceStart, OperatorClean,
                    SetClock, control
<1>8. ASSUME NEW q \in Procs, \/ \E tool \in {"cli", "mcp"} : Enter(q, tool)
                             \/ Ask(q) \/ OperatorRollback(q)
      PROVE  pc'[p] = pc[p] /\ answer'[p] = answer[p]
  BY <1>2, <1>3, <1>4, <1>8 DEF Enter, Ask, OperatorRollback
<1>9. ASSUME NEW q \in Procs,
             \/ GatePassed(q) \/ GateRefused(q) \/ Exec(q) \/ RecheckPassed(q)
             \/ RecheckRefused(q) \/ RecheckTimesOut(q) \/ Invoke(q) \/ Leave(q)
      PROVE  UNCHANGED vars
  BY <1>9 DEF GatePassed, GateRefused, Exec, RecheckPassed, RecheckRefused,
              RecheckTimesOut, Invoke, Leave
<1> QED BY <1>5, <1>6, <1>7, <1>8, <1>9 DEF UseNext

\* A step leaves the approvals that clients hold good, or gives a new one.
LEMMA CoveredKept ==
  ASSUME IInv, IInv', MemoryInv, ServedInv, VouchedInv, LedgersOK, SessionInv, SessionInv',
         UseInv, UseNext, NEW p \in Procs
  PROVE  Covered(p)'
<1> USE DEF At
<1>1. CASE session'[p] = Away
  BY <1>1, AwayType DEF Covered
<1>2. CASE session'[p] # Away
  <2>0. Moved(p) /\ Track /\ Covered(p) /\ Unanswered(p) /\ [Next]_vars
    BY EveryoneMoves, UseStep DEF UseNext, UseInv
  <2>1. /\ disk'.pointer \in seen'[p]
        /\ answer'[p] = answer[p] => seen[p] \subseteq seen'[p]
        /\ answer'[p] # answer[p] => seen'[p] = {disk'.pointer}
    BY <1>2, <2>0, Tracked
  <2>2. Advance(p) => Granted(p)' = Granted(p) /\ UNCHANGED <<disk, answer>>
    BY DEF Advance, Granted, vars, files, control
  \* An approval in use stays as it was printed.
  <2>3. session'[p].step \in {"exec", "invoke"} => Granted(p)' /\ answer'[p] = answer[p]
    <3> SUFFICES ASSUME session'[p].step \in {"exec", "invoke"}
                 PROVE  Granted(p)' /\ answer'[p] = answer[p]
      OBVIOUS
    <3>1. CASE session'[p] = session[p]
      <4>1. Granted(p) BY <2>0, <3>1 DEF Covered
      <4> QED BY <1>2, <3>1, <4>1, Calm
    <3>2. CASE Advance(p)
      <4>1. Granted(p) BY <3>2 DEF Advance
      <4> QED BY <2>2, <3>2, <4>1
    <3> QED BY <1>2, <2>0, <3>1, <3>2 DEF Moved
  <2>4. Granted(p)' => Approval(p) \/ (Granted(p) /\ answer'[p] = answer[p])
    BY <2>0 DEF Granted, Approval, Unanswered, NoAnswer
  <2>5. ASSUME Approval(p)
        PROVE  /\ answer'[p].release \in seen'[p]
               /\ running' \in seen'[p] \cup {NoRelease}
    <3>1. answer'[p] # answer[p] BY <2>5 DEF Approval
    <3>2. Next BY <2>0, <3>1 DEF vars, control
    <3>3. ApprovalSound(p) BY <2>5, <3>2, ApprovalAgreed
    <3> QED BY <2>1, <3>1, <3>3 DEF ApprovalSound
  <2>6. ASSUME Granted(p)', Granted(p), answer'[p] = answer[p]
        PROVE  /\ answer'[p].release \in seen'[p]
               /\ running' \in seen'[p] \cup {NoRelease}
    <3>1. session[p] # Away
      BY <1>2, <2>0, <2>6 DEF Moved, Advance, Granted, NoAnswer
    <3>2. /\ answer[p].release \in seen[p] /\ disk.pointer \in seen[p]
          /\ running \in seen[p] \cup {NoRelease}
      BY <2>0, <2>6, <3>1 DEF Covered
    <3> QED BY <2>0, <2>1, <2>6, <3>2, ServiceFollows
  <2>7. session'[p].step = "invoke" => session'[p].binary \in seen'[p]
    <3> SUFFICES ASSUME session'[p].step = "invoke"
                 PROVE  session'[p].binary \in seen'[p]
      OBVIOUS
    <3>1. seen[p] \subseteq seen'[p] BY <2>1, <2>3
    <3>2. CASE session'[p] = session[p] BY <2>0, <3>1, <3>2 DEF Covered
    <3>3. CASE Advance(p)
      <4>1. /\ session[p] # Away /\ Granted(p)
            /\ session'[p].binary \in {disk.pointer, answer[p].release}
        BY <3>3 DEF Advance
      <4> QED BY <2>0, <3>1, <4>1 DEF Covered
    <3> QED BY <1>2, <2>0, <3>2, <3>3 DEF Moved
  <2> QED BY <2>1, <2>3, <2>4, <2>5, <2>6, <2>7 DEF Covered
<1> QED BY <1>1, <1>2

LEMMA UseHolds == UseSpec => []UseInv
<1> DEFINE Known == IInv /\ MemoryInv /\ ServedInv /\ VouchedInv /\ LedgersOK /\ SessionInv
<1>1. UseInit => UseInv
  BY AwayType DEF UseInit, Init, UseInv, Unanswered, Covered, At, Granted, NoAnswer
<1>2. Known /\ Known' /\ UseInv /\ [UseNext]_useVars => UseInv'
  <2> SUFFICES ASSUME Known, Known', UseInv, [UseNext]_useVars PROVE UseInv'
    OBVIOUS
  <2>1. CASE UNCHANGED useVars
    BY <2>1 DEF useVars, vars, files, control, host, UseInv, Unanswered, Covered, At, Granted
  <2>2. CASE UseNext
    <3>1. \A p \in Procs : Unanswered(p)'
      BY UnansweredKept, UseStep DEF UseInv
    <3>2. \A p \in Procs : Covered(p)' BY <2>2, CoveredKept
    <3> QED BY <3>1, <3>2 DEF UseInv
  <2> QED BY <2>1, <2>2
<1>3. UseSpec => []Known
  BY UseRefines, Invariance, MemoryHolds, ServedHolds, VouchedHolds, LedgersHold,
     SessionHolds, PTL
<1> QED BY <1>1, <1>2, <1>3, PTL DEF UseSpec

\* However clients, operator, updater, power failures and clock steps interleave: a client
\* about to ask the service executes, and the service executes if it is up, a release that
\* the pointer has named since the approval was printed, or at that moment.
THEOREM ApprovedInUse == UseSpec => []AnswersAreApproved
<1>1. UseInv => AnswersAreApproved
  BY DEF UseInv, Covered, AnswersAreApproved, At, Away
<1> QED BY <1>1, UseHolds, PTL
=============================================================================

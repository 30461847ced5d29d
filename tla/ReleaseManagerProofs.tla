-------------------------- MODULE ReleaseManagerProofs --------------------------
(***************************************************************************)
(* RecoverableDisk is not inductive: whether a rename leaves files that    *)
(* recover() can decide depends on what the process holding update.lock    *)
(* has in memory and wrote before.  IInv adds that knowledge, step by      *)
(* step (Knows), and that nobody else is active (Holder).                  *)
(* The first part proves that every action keeps the types, the second     *)
(* that it keeps the rest (Kept), action by action; both meet in NextIInv. *)
(***************************************************************************)
EXTENDS ReleaseManagerProperties, TLAPS

\* The constants the code compares and prints with have their types.
LEMMA NoTxnType == NoTxn \in Journal /\ Refused \in Answers /\ NoAnswer \in Answers
BY DEF NoTxn, Journal, Refused, NoAnswer, Answers

\* What main() prints is an answer.
LEMMA PrintedType ==
  ASSUME TypeOK, NEW p \in Procs,
         NEW status \in {"current", "offline", "upgraded", "rolledback"}
  PROVE  Printed(p, status) \in Answers
<1>1. mem[p].current \in Releases BY DEF TypeOK, LocalsType, Ledger
<1>2. [status |-> status, release |-> mem[p].current] \in Answers BY <1>1 DEF Answers
<1> QED BY <1>2, NoTxnType DEF Printed

\* What a process holds before it loads installed.json is a ledger.
LEMMA BlankType == Blank \in Ledger
BY ReleaseAssumption, TimeAssumption DEF Blank, Ledger

\* Moving a process to another step keeps the control state well typed.
LEMMA GotoType ==
  ASSUME ControlType, NEW p \in Procs, NEW l \in Labels, Goto(p, l)
  PROVE  ControlType'
BY DEF ControlType, Goto

\* So does ending a process, which also forgets its memory.
LEMMA ExitType ==
  ASSUME ControlType, LocalsType, NEW p \in Procs, NEW a \in Answers, Exit(p, a)
  PROVE  ControlType' /\ LocalsType'
BY BlankType DEF ControlType, LocalsType, Exit, Labels

\* So does an exception, caught by check() or rollback() or not.
LEMMA RaiseType ==
  ASSUME ControlType, LocalsType, NEW p \in Procs, Raise(p)
  PROVE  ControlType' /\ LocalsType'
<1>1. CASE Caught(p)
  <2>1. Goto(p, "linkOld") /\ UNCHANGED locals BY <1>1 DEF Raise
  <2>2. "linkOld" \in Labels BY DEF Labels, WriteSites, LinkSites
  <2>3. ControlType' BY <2>1, <2>2, GotoType
  <2> QED BY <2>1, <2>3 DEF LocalsType, locals
<1>2. CASE ~Caught(p)
  <2>1. Exit(p, Refused) BY <1>2 DEF Raise
  <2> QED BY <2>1, NoTxnType, ExitType
<1> QED BY <1>1, <1>2

\* flock() and the load of installed.json keep the types.
LEMMA StartType ==
  ASSUME TypeOK, NEW p \in Procs, NEW o \in {"check", "rollback"}, Start(p, o)
  PROVE  TypeOK'
<1> USE DEF Start
<1>1. FilesType' BY DEF TypeOK, FilesType, files
<1>2. ControlType' BY NoTxnType DEF TypeOK, ControlType, Labels
<1>3. LocalsType' BY DEF TypeOK, FilesType, LocalsType, Disk
<1>4. HostType' BY DEF TypeOK, HostType, host
<1> QED BY <1>1, <1>2, <1>3, <1>4 DEF TypeOK

\* link() is only reached with a release chosen, never with None.
LEMMA SubjectType ==
  ASSUME TypeOK, NEW p \in Procs, Holder(p), pc[p] \in LinkSites
  PROVE  Subject(p) \in Releases
BY ProcAssumption DEF TypeOK, LocalsType, ControlType, Holder, Knows, LinkSites, Chosen, Ledger, Subject

\* Every step a write, restart, probe or unlink leads to is a step.
LEMMA LabelsType ==
  /\ WriteSites \cup RestartSites \cup ProbeSites \subseteq Labels
  /\ AuditSites \cup UnlinkSites \subseteq Labels
  /\ "recover" \in Labels /\ "verify" \in Labels /\ "fetch" \in Labels
  /\ "prepare" \in Labels /\ "stageManifest" \in Labels
  /\ "stageRoles" \in Labels /\ "choose" \in Labels
BY DEF Labels

\* The system calls of atomic() and link() keep the types: this is where the
\* journal and installed.json get their contents, so it needs what the holder knows.
LEMMA WriteType ==
  ASSUME TypeOK, NEW p \in Procs, Holder(p), Write(p)
  PROVE  TypeOK'
<1> USE DEF TypeOK
<1>1. CASE Create(p)
  <2>1. FilesType' BY <1>1 DEF Create, FilesType, Disk, File
  <2>2. ControlType' BY <1>1 DEF Create, ControlType
  <2> QED BY <1>1, <2>1, <2>2 DEF Create, LocalsType, HostType, locals, host
<1>2. CASE CreateRefused(p)
  <2>1. ControlType' /\ LocalsType' BY <1>2, RaiseType DEF CreateRefused
  <2> QED BY <1>2, <2>1 DEF CreateRefused, FilesType, HostType, files, host
<1>3. CASE Rename(p)
  <2>1. Renamed(p) \in Disk
    <3>1. CASE pc[p] \in LedgerSites
      BY <3>1 DEF Renamed, FilesType, LocalsType, Disk, LedgerSites, LinkSites, File
    <3>2. CASE pc[p] \in LinkSites
      BY <3>2, SubjectType DEF Renamed, FilesType, Disk, LedgerSites, LinkSites, File
    <3>3. CASE pc[p] = "saveJournal"
      <4>1. cand[p] \in Releases /\ mem[p].current \in Releases
        BY <3>3, ProcAssumption DEF Holder, Knows, Chosen, LocalsType, Ledger
      <4> QED BY <3>3, <4>1
          DEF Renamed, FilesType, Disk, LedgerSites, LinkSites, File, Journal
    <3> QED BY <1>3, <3>1, <3>2, <3>3 DEF Rename, WriteSites
  <2>2. FilesType' BY <1>3, <2>1 DEF Rename, FilesType
  <2>3. ControlType' BY <1>3 DEF Rename, ControlType
  <2> QED BY <1>3, <2>2, <2>3 DEF Rename, LocalsType, HostType, locals, host
<1>4. CASE Fsync(p)
  <2>1. After(pc[p]) \in Labels
    BY LabelsType DEF After, WriteSites, LinkSites, RestartSites, AuditSites, UnlinkSites
  <2>2. ControlType' BY <1>4, <2>1, GotoType DEF Fsync
  <2> QED BY <1>4, <2>2 DEF Fsync, FilesType, LocalsType, HostType, locals, host
<1>5. CASE FsyncReturn(p)
  <2>1. Printed(p, "current") \in Answers BY PrintedType
  <2>2. ControlType' /\ LocalsType'
    BY <1>5, <2>1, NoTxnType, ExitType DEF FsyncReturn
  <2> QED BY <1>5, <2>2 DEF FsyncReturn, FilesType, HostType, host
<1> QED BY <1>1, <1>2, <1>3, <1>4, <1>5 DEF Write

\* recover() keeps the types.
LEMMA RecoverType ==
  ASSUME TypeOK, NEW p \in Procs, Recover(p)
  PROVE  TypeOK'
<1> USE DEF TypeOK
<1>1. CASE RecoverTxn(p)
  <2>1. ControlType' BY <1>1, GotoType, LabelsType DEF RecoverTxn, WriteSites, LinkSites
  <2> QED BY <1>1, <2>1 DEF RecoverTxn, FilesType, LocalsType, HostType, files, locals, host
<1>2. CASE RecoverNone(p)
  <2>1. ControlType' BY <1>2, GotoType, LabelsType DEF RecoverNone
  <2> QED BY <1>2, <2>1 DEF RecoverNone, FilesType, LocalsType, HostType, files, locals, host
<1>3. CASE RecoverRefused(p)
  <2>1. ControlType' /\ LocalsType' BY <1>3, ExitType, NoTxnType DEF RecoverRefused
  <2> QED BY <1>3, <2>1 DEF RecoverRefused, FilesType, HostType, files, host
<1> QED BY <1>1, <1>2, <1>3 DEF Recover

\* The sequence and revocations of a manifest make a ledger.
LEMMA ObservedType ==
  ASSUME TypeOK, NEW p \in Procs, NEW m \in Releases
  PROVE  Observed(p, m) \in Ledger
BY ReleaseAssumption DEF TypeOK, LocalsType, Ledger, Observed

\* check() up to its first write keeps the types.
LEMMA CheckType ==
  ASSUME TypeOK, NEW p \in Procs, Verify(p) \/ VerifyRefused(p) \/ Fetch(p)
  PROVE  TypeOK'
<1> USE DEF TypeOK
<1>1. CASE Verify(p)
  <2>1. ControlType' BY <1>1, GotoType, LabelsType DEF Verify
  <2>2. LocalsType' BY <1>1, TimeAssumption DEF Verify, LocalsType, HostType
  <2> QED BY <1>1, <2>1, <2>2 DEF Verify, FilesType, HostType, files, host
<1>2. CASE VerifyRefused(p)
  <2>1. ControlType' /\ LocalsType' BY <1>2, ExitType, NoTxnType DEF VerifyRefused
  <2> QED BY <1>2, <2>1 DEF VerifyRefused, FilesType, HostType, files, host
<1>3. CASE FetchOffline(p)
  <2>1. Printed(p, "offline") \in Answers BY PrintedType
  <2>2. ControlType' /\ LocalsType'
    BY <1>3, <2>1, ExitType, NoTxnType DEF FetchOffline
  <2> QED BY <1>3, <2>2 DEF FetchOffline, FilesType, HostType, files, host
<1>4. ASSUME NEW m \in Releases, FetchRefused(p, m) PROVE TypeOK'
  <2>1. ControlType' /\ LocalsType' BY <1>4, ExitType, NoTxnType DEF FetchRefused
  <2> QED BY <1>4, <2>1 DEF FetchRefused, FilesType, HostType, files, host
<1>5. ASSUME NEW m \in Releases, FetchRevoking(p, m) PROVE TypeOK'
  <2>1. ControlType'
    BY <1>5, GotoType, LabelsType DEF FetchRevoking, WriteSites, LedgerSites
  <2>2. LocalsType' BY <1>5, ObservedType DEF FetchRevoking, LocalsType
  <2> QED BY <1>5, <2>1, <2>2 DEF FetchRevoking, FilesType, HostType, files, host
<1>6. ASSUME NEW m \in Releases, FetchCurrent(p, m) PROVE TypeOK'
  <2>1. ControlType'
    BY <1>6, GotoType, LabelsType DEF FetchCurrent, WriteSites, LedgerSites
  <2>2. [Observed(p, m) EXCEPT !.verified = now[p], !.expires = Expires[m]] \in Ledger
    <3>1. Observed(p, m) \in Ledger BY ObservedType
    <3>2. now[p] \in Nat /\ Expires[m] \in Nat BY TimeAssumption DEF LocalsType
    <3> QED BY <3>1, <3>2 DEF Ledger
  <2>3. LocalsType' BY <1>6, <2>2 DEF FetchCurrent, LocalsType
  <2> QED BY <1>6, <2>1, <2>3 DEF FetchCurrent, FilesType, HostType, files, host
<1>7. ASSUME NEW m \in Releases, FetchUpgrade(p, m) PROVE TypeOK'
  <2>1. ControlType'
    BY <1>7, GotoType, LabelsType DEF FetchUpgrade, WriteSites, LedgerSites
  <2>2. LocalsType' BY <1>7, ObservedType DEF FetchUpgrade, LocalsType
  <2> QED BY <1>7, <2>1, <2>2 DEF FetchUpgrade, FilesType, HostType, files, host
<1> QED BY <1>1, <1>2, <1>3, <1>4, <1>5, <1>6, <1>7 DEF Fetch

\* Staging a release keeps the files well typed.
LEMMA SetStageType ==
  ASSUME FilesType, NEW m \in Releases, NEW s \in Stages, SetStage(m, s)
  PROVE  disk' \in Disk
BY DEF FilesType, Disk, SetStage

\* prepare() keeps the types.
LEMMA StageType ==
  ASSUME TypeOK, NEW p \in Procs, Holder(p), Stage(p)
  PROVE  TypeOK'
<1> USE DEF TypeOK
<1>0. cand[p] \in Releases
  <2>1. pc[p] \in {"prepare", "stageManifest", "stageRoles"}
    BY DEF Stage, Prepare, StageManifest, StageRoles, StageRefused
  <2> QED BY <2>1 DEF Holder, Knows, Chosen
<1>1. CASE Prepare(p)
  <2>1. CASE disk.stage[cand[p]] = "absent"
    <3>1. disk' \in Disk BY <1>0, <1>1, <2>1, SetStageType DEF Prepare, Stages
    <3>2. ControlType' BY <1>1, <2>1, GotoType, LabelsType DEF Prepare
    <3> QED BY <1>1, <2>1, <3>1, <3>2
        DEF Prepare, FilesType, LocalsType, HostType, locals, host
  <2>2. CASE disk.stage[cand[p]] = "dir"
    <3>1. ControlType' /\ LocalsType' BY <1>1, <2>2, ExitType, NoTxnType DEF Prepare
    <3> QED BY <1>1, <2>2, <3>1 DEF Prepare, FilesType, HostType, host
  <2>3. CASE disk.stage[cand[p]] \notin {"absent", "dir"}
    <3>1. ControlType' BY <1>1, <2>3, GotoType, LabelsType DEF Prepare
    <3> QED BY <1>1, <2>3, <3>1 DEF Prepare, FilesType, LocalsType, HostType, locals, host
  <2> QED BY <2>1, <2>2, <2>3
<1>2. CASE StageManifest(p)
  <2>1. disk' \in Disk BY <1>0, <1>2, SetStageType DEF StageManifest, Stages
  <2>2. ControlType' BY <1>2, GotoType, LabelsType DEF StageManifest
  <2> QED BY <1>2, <2>1, <2>2
      DEF StageManifest, FilesType, LocalsType, HostType, locals, host
<1>3. CASE StageRoles(p)
  <2>1. disk' \in Disk BY <1>0, <1>3, SetStageType DEF StageRoles, Stages
  <2>2. CASE Begun(cand[p])
    <3>1. Goto(p, "saveJournal") /\ UNCHANGED locals BY <1>3, <2>2 DEF StageRoles
    <3>2. ControlType' BY <3>1, GotoType, LabelsType DEF WriteSites
    <3> QED BY <1>3, <2>1, <3>1, <3>2
        DEF StageRoles, FilesType, LocalsType, HostType, locals, host
  <2>3. CASE ~Begun(cand[p])
    <3>1. Exit(p, Refused) BY <1>3, <2>3 DEF StageRoles
    <3>2. ControlType' /\ LocalsType' BY <3>1, ExitType, NoTxnType
    <3> QED BY <1>3, <2>1, <3>2 DEF StageRoles, FilesType, HostType, host
  <2> QED BY <2>2, <2>3
<1>4. CASE StageRefused(p)
  <2>1. disk' \in Disk BY <1>0, <1>4, SetStageType DEF StageRefused, Stages, FilesType
  <2>2. ControlType' /\ LocalsType' BY <1>4, ExitType, NoTxnType DEF StageRefused
  <2>3. faults' \in 0 .. MaxFaults
    BY <1>4, TimeAssumption DEF StageRefused, HostType
  <2> QED BY <1>4, <2>1, <2>2, <2>3 DEF StageRefused, FilesType, HostType
<1> QED BY <1>1, <1>2, <1>3, <1>4 DEF Stage

\* rollback() swaps current and previous: previous is not None when it does.
LEMMA ChooseType ==
  ASSUME TypeOK, NEW p \in Procs, Choose(p)
  PROVE  TypeOK'
<1> USE DEF TypeOK
<1>1. CASE mem[p].previous = NoRelease \/ mem[p].previous \in mem[p].revoked
  <2>1. ControlType' /\ LocalsType' BY <1>1, ExitType, NoTxnType DEF Choose
  <2> QED BY <1>1, <2>1 DEF Choose, FilesType, HostType, files, host
<1>2. CASE ~(mem[p].previous = NoRelease \/ mem[p].previous \in mem[p].revoked)
  <2>1. ControlType' BY <1>2, GotoType, LabelsType DEF Choose, WriteSites
  <2>2. LocalsType' BY <1>2 DEF Choose, LocalsType, Ledger
  <2> QED BY <1>2, <2>1, <2>2 DEF Choose, FilesType, HostType, files, host
<1> QED BY <1>1, <1>2

\* The restarts, probes and unlinks keep the types.
LEMMA ProveType ==
  ASSUME TypeOK, NEW p \in Procs, Holder(p), Prove(p)
  PROVE  TypeOK'
<1> USE DEF TypeOK
<1>1. CASE Restart(p)
  <2>1. ControlType' BY <1>1, GotoType, LabelsType DEF Restart, ProbeSites
  <2>2. HostType' BY <1>1 DEF Restart, FilesType, HostType, Disk
  <2> QED BY <1>1, <2>1, <2>2 DEF Restart, FilesType, LocalsType, files, locals
<1>2. CASE ProbeNew(p)
  <2>1. cand[p] \in Releases BY <1>2 DEF ProbeNew, Holder, Knows, Chosen
  <2>2. Activated(p) \in Ledger
    BY <2>1, TimeAssumption DEF Activated, LocalsType, Ledger
  <2>3. ControlType' BY <1>2, GotoType, LabelsType DEF ProbeNew, WriteSites, LedgerSites
  <2>4. LocalsType' BY <1>2, <2>2 DEF ProbeNew, LocalsType
  <2> QED BY <1>2, <2>3, <2>4 DEF ProbeNew, FilesType, HostType, files, host
<1>3. CASE ProbeOld(p)
  <2>1. cand[p] \in Releases BY <1>3 DEF ProbeOld, Holder, Knows, Chosen
  <2>2. ControlType'
    BY <1>3, GotoType, LabelsType DEF ProbeOld, WriteSites, LedgerSites, UnlinkSites
  <2>3. mem' \in [Procs -> Ledger] BY <1>3, <2>1 DEF ProbeOld, LocalsType, Ledger
  <2> QED BY <1>3, <2>2, <2>3 DEF ProbeOld, FilesType, LocalsType, HostType, files, host
<1>4. CASE ProbeRec(p)
  <2>1. ControlType' BY <1>4, GotoType, LabelsType DEF ProbeRec, AuditSites
  <2> QED BY <1>4, <2>1 DEF ProbeRec, FilesType, LocalsType, HostType, files, locals, host
<1>5. CASE ProbeRefused(p)
  <2>1. ControlType' /\ LocalsType' BY <1>5, RaiseType DEF ProbeRefused
  <2> QED BY <1>5, <2>1 DEF ProbeRefused, FilesType, HostType, files, host
<1>6. CASE Unlink(p)
  <2>1. FilesType' BY <1>6, NoTxnType DEF Unlink, FilesType, Disk
  <2>2. ControlType' /\ LocalsType'
    <3>1. CASE pc[p] = "unlinkRec"
      <4>1. Goto(p, "recover") /\ UNCHANGED locals BY <1>6, <3>1 DEF Unlink
      <4> QED BY <4>1, GotoType, LabelsType DEF LocalsType, locals
    <3>2. CASE pc[p] # "unlinkRec"
      <4>1. /\ Printed(p, "upgraded") \in Answers /\ Printed(p, "rolledback") \in Answers
            /\ Refused \in Answers
        BY PrintedType, NoTxnType
      <4>2. PICK a \in Answers : Exit(p, a)
        BY <1>6, <3>2, <4>1 DEF Unlink, UnlinkSites
      <4> QED BY <4>2, ExitType
    <3> QED BY <3>1, <3>2
  <2> QED BY <1>6, <2>1, <2>2 DEF Unlink, HostType, host
<1>7. CASE Audit(p)
  <2>1. disk' \in Disk
    BY <1>7 DEF Audit, FilesType, LocalsType, Disk, Ledger
  <2>2. FilesType' BY <1>7, <2>1 DEF Audit, FilesType
  <2>3. ControlType'
    BY <1>7, GotoType, LabelsType DEF Audit, UnlinkSites
  <2> QED BY <1>7, <2>2, <2>3 DEF Audit, LocalsType, HostType, locals, host
<1> QED BY <1>1, <1>2, <1>3, <1>4, <1>5, <1>6, <1>7 DEF Prove

\* Exceptions and kills keep the types.
LEMMA FaultType ==
  ASSUME TypeOK, NEW p \in Procs, Throw(p) \/ Kill(p)
  PROVE  TypeOK'
<1> USE DEF TypeOK
<1>1. faults' \in 0 .. MaxFaults BY TimeAssumption DEF Throw, Kill, HostType
<1>2. CASE Throw(p)
  <2>1. ControlType' /\ LocalsType' BY <1>2, RaiseType DEF Throw
  <2>2. running' \in Releases \cup {NoRelease}
    BY <1>2 DEF Throw, HostType, FilesType, Disk
  <2> QED BY <1>1, <1>2, <2>1, <2>2 DEF Throw, FilesType, HostType, files
<1>3. CASE Kill(p)
  <2>1. ControlType' /\ LocalsType' BY <1>3, ExitType, NoTxnType DEF Kill
  <2> QED BY <1>1, <1>3, <2>1 DEF Kill, FilesType, HostType, files
<1> QED BY <1>2, <1>3

\* Power loss, write-back, the service manager and the operator keep the types.
LEMMA EnvironmentType ==
  ASSUME TypeOK, Environment
  PROVE  TypeOK'
<1> USE DEF TypeOK
<1>1. CASE PowerLoss
  <2>1. ControlType' BY <1>1, NoTxnType DEF PowerLoss, ControlType, Labels
  <2>2. LocalsType' BY <1>1, BlankType DEF PowerLoss, LocalsType
  <2>3. HostType' BY <1>1, TimeAssumption DEF PowerLoss, HostType
  <2> QED BY <1>1, <2>1, <2>2, <2>3 DEF PowerLoss, FilesType
<1>2. CASE Writeback
  BY <1>2 DEF Writeback, FilesType, ControlType, LocalsType, HostType, control, locals, host
<1>3. CASE ServiceCrash
  <2>1. HostType' BY <1>3, TimeAssumption DEF ServiceCrash, HostType
  <2> QED BY <1>3, <2>1
      DEF ServiceCrash, FilesType, ControlType, LocalsType, files, control, locals
<1>4. CASE ServiceStart
  <2>1. HostType' BY <1>4 DEF ServiceStart, HostType, FilesType, Disk
  <2> QED BY <1>4, <2>1
      DEF ServiceStart, FilesType, ControlType, LocalsType, files, control, locals
<1>5. CASE OperatorClean
  <2>1. disk' \in Disk BY <1>5 DEF OperatorClean, FilesType, Disk, Stages
  <2> QED BY <1>5, <2>1
      DEF OperatorClean, FilesType, ControlType, LocalsType, HostType, control, locals, host
<1>6. CASE SetClock
  BY <1>6 DEF SetClock, FilesType, ControlType, LocalsType, HostType, files, control, locals
<1> QED BY <1>1, <1>2, <1>3, <1>4, <1>5, <1>6 DEF Environment
-----------------------------------------------------------------------------
\* A process that moves on stays the only one that is not idle.
LEMMA GotoHolds ==
  ASSUME IInv, NEW p \in Procs, pc[p] # "idle", NEW l \in Labels \ {"idle"},
         Goto(p, l), Knows(p)'
  PROVE  \A q \in Procs : Holder(q)'
BY DEF IInv, TypeOK, ControlType, Holder, Goto

\* After a process ends all are idle, so what the holder must know is nothing.
LEMMA ExitHolds ==
  ASSUME IInv, NEW p \in Procs, pc[p] # "idle", NEW a, Exit(p, a)
  PROVE  \A q \in Procs : Holder(q)'
BY ProcAssumption DEF IInv, TypeOK, ControlType, Holder, Exit

\* An exception leaves the holder with what the handler at linkOld must know.
LEMMA RaiseHolds ==
  ASSUME IInv, NEW p \in Procs, pc[p] # "idle", Raise(p), UNCHANGED disk
  PROVE  \A q \in Procs : Holder(q)'
<1>1. CASE Caught(p)
  <2>1. Goto(p, "linkOld") /\ UNCHANGED locals BY <1>1 DEF Raise
  <2>2. pc'[p] = "linkOld" /\ io'[p] = "create"
    BY <2>1 DEF Goto, IInv, TypeOK, ControlType
  <2>3. pc[p] \in {"linkNew", "restartNew", "probeNew"} BY <1>1 DEF Caught
  <2>4. Knows(p) BY DEF IInv, Holder
  <2>5. /\ cand[p] \in Releases /\ mem[p].current = disk.installed.current
        /\ disk.journal = [previous |-> mem[p].current, candidate |-> cand[p]]
    BY <2>3, <2>4 DEF Knows, Chosen, Open
  <2>6. Knows(p)'
    BY <2>1, <2>2, <2>5
    DEF Knows, locals, Chosen, Quiet, Open, Recovering, Restored, LinkSites
  <2>7. "linkOld" \in Labels \ {"idle"} BY DEF Labels, WriteSites, LinkSites
  <2> QED BY <2>1, <2>6, <2>7, GotoHolds
<1>2. CASE ~Caught(p)
  BY <1>2, ExitHolds DEF Raise
<1> QED BY <1>1, <1>2

Kept == RecoverableDisk' /\ \A q \in Procs : Holder(q)'

\* Unchanged files stay recoverable.
LEMMA SameFiles ==
  ASSUME IInv, UNCHANGED files
  PROVE  RecoverableDisk'
BY DEF IInv, RecoverableDisk, DiskOK, files

\* The new holder has loaded what is on the disk.
LEMMA StartKept ==
  ASSUME IInv, NEW p \in Procs, NEW o \in {"check", "rollback"}, Start(p, o)
  PROVE  Kept
<1>1. RecoverableDisk' BY SameFiles DEF Start
<1>2. pc'[p] = "recover" /\ mem'[p].current = disk'.installed.current
  BY DEF Start, files, IInv, TypeOK, ControlType, LocalsType
<1>3. Knows(p)'
  BY <1>2 DEF Knows, Chosen, Quiet, Open, Recovering, Restored, LinkSites
<1>4. ASSUME NEW q \in Procs PROVE Holder(q)'
  BY <1>2, <1>3, ProcAssumption DEF Start, Holder, IInv, TypeOK, ControlType
<1> QED BY <1>1, <1>4 DEF Kept

\* Creating X.new changes nothing recover() reads.
LEMMA CreateKept ==
  ASSUME IInv, NEW p \in Procs, Create(p)
  PROVE  Kept
<1> USE DEF Create
<1>1. /\ disk'.installed = disk.installed /\ disk'.journal = disk.journal
      /\ disk'.pointer = disk.pointer /\ disk'.stage = disk.stage
  BY DEF IInv, TypeOK, FilesType, Disk
<1>2. RecoverableDisk' BY <1>1 DEF IInv, RecoverableDisk, DiskOK
<1>3. io'[p] = "rename" /\ lock = p /\ Knows(p)
  BY DEF IInv, TypeOK, ControlType, Holder, WriteSites, LedgerSites, LinkSites
<1>4. Knows(p)'
  BY <1>1, <1>3 DEF Knows, Writable, Intact, Subject, locals
<1>5. ASSUME NEW q \in Procs PROVE Holder(q)'
  BY <1>3, <1>4 DEF IInv, Holder
<1> QED BY <1>2, <1>5 DEF Kept

\* A leftover X.new only raises.
LEMMA CreateRefusedKept ==
  ASSUME IInv, NEW p \in Procs, CreateRefused(p)
  PROVE  Kept
BY RaiseHolds, SameFiles
DEF CreateRefused, Kept, files, WriteSites, LedgerSites, LinkSites

\* The rename is where a file changes: each write site relates the new contents to
\* the two files it leaves alone.
LEMMA RenameKept ==
  ASSUME IInv, NEW p \in Procs, Rename(p)
  PROVE  Kept
<1>1. /\ disk' = Renamed(p) /\ io'[p] = "fsync" /\ lock = p /\ Knows(p)
      /\ UNCHANGED <<durable, mem, cand, pc, lock>>
  BY DEF Rename, IInv, TypeOK, ControlType, Holder, WriteSites, LedgerSites, LinkSites, locals
<1>2. DiskOK(disk) /\ DiskOK(durable) BY DEF IInv, RecoverableDisk
<1>3. disk \in Disk /\ mem[p] \in Ledger BY DEF IInv, TypeOK, FilesType, LocalsType
<1>4. io[p] = "rename" BY DEF Rename
<1>5. DiskOK(disk') /\ Knows(p)'
  <2>1. CASE pc[p] \in LedgerSites
    <3>1. /\ disk'.installed = mem[p] /\ disk'.journal = disk.journal
          /\ disk'.pointer = disk.pointer /\ disk'.stage = disk.stage
      BY <1>1, <1>3, <2>1 DEF Renamed, Disk, LedgerSites, LinkSites
    <3>2. CASE pc[p] = "saveUpgraded"
      <4>1. mem[p].current = disk.pointer /\ disk.journal # NoTxn
        BY <1>1, <3>2 DEF Knows
      <4>2. DiskOK(disk') BY <1>2, <3>1, <4>1 DEF DiskOK
      <4>3. Knows(p)'
        BY <1>1, <3>1, <3>2, <4>1
        DEF Knows, Chosen, Quiet, Open, Recovering, Restored, LinkSites
      <4> QED BY <4>2, <4>3
    <3>3. CASE pc[p] # "saveUpgraded"
      <4>1. mem[p].current = disk.installed.current
        BY <1>1, <2>1, <3>3 DEF Knows, LedgerSites
      <4>2. DiskOK(disk') BY <1>2, <3>1, <4>1 DEF DiskOK
      <4>3. Knows(p)'
        BY <1>1, <2>1, <3>1, <3>3, <4>1
        DEF Knows, LedgerSites, Chosen, Quiet, Open, Recovering, Restored, LinkSites
      <4> QED BY <4>2, <4>3
    <3> QED BY <3>2, <3>3
  <2>2. CASE pc[p] \in LinkSites
    <3>1. /\ disk'.installed = disk.installed /\ disk'.journal = disk.journal
          /\ disk'.pointer = Subject(p) /\ disk'.stage = disk.stage
      BY <1>1, <1>3, <2>2 DEF Renamed, Disk, LedgerSites, LinkSites
    <3>2. disk.stage[Subject(p)] = "ready" BY <1>1, <1>4, <2>2 DEF Knows
    <3>3. disk.journal # NoTxn /\ Subject(p) \in {disk.journal.previous, disk.journal.candidate}
      <4>1. CASE pc[p] = "linkRec"
        <5>1. /\ disk.journal # NoTxn /\ mem[p].current = disk.installed.current
          BY <1>1, <4>1 DEF Knows, Recovering
        <5> QED BY <1>2, <4>1, <5>1 DEF DiskOK, Subject
      <4>2. CASE pc[p] # "linkRec"
        <5>1. disk.journal = [previous |-> mem[p].current, candidate |-> cand[p]]
          BY <1>1, <2>2, <4>2 DEF Knows, Open, LinkSites
        <5>2. disk.journal # NoTxn
          BY <1>3, <5>1, ReleaseAssumption DEF NoTxn, Ledger
        <5> QED BY <2>2, <4>2, <5>1, <5>2 DEF Subject, LinkSites
      <4> QED BY <4>1, <4>2
    <3>4. DiskOK(disk') BY <1>2, <3>1, <3>2, <3>3 DEF DiskOK
    <3>5. Subject(p)' = Subject(p) BY <1>1 DEF Subject
    <3>6. Knows(p)'
      BY <1>1, <2>2, <3>1, <3>5
      DEF Knows, Chosen, Quiet, Open, Recovering, Restored, LinkSites
    <3> QED BY <3>4, <3>6
  <2>3. CASE pc[p] = "saveJournal"
    <3>1. /\ disk'.installed = disk.installed
          /\ disk'.journal = [previous |-> mem[p].current, candidate |-> cand[p]]
          /\ disk'.pointer = disk.pointer /\ disk'.stage = disk.stage
      BY <1>1, <1>3, <2>3 DEF Renamed, Disk, LedgerSites, LinkSites
    <3>2. /\ disk.journal = NoTxn /\ mem[p].current = disk.installed.current
          /\ cand[p] \in Releases
      BY <1>1, <1>4, <2>3 DEF Knows, Chosen
    <3>3. disk'.journal # NoTxn
      BY <1>3, <3>1, ReleaseAssumption DEF NoTxn, Ledger
    <3>4. DiskOK(disk') BY <1>2, <3>1, <3>2, <3>3 DEF DiskOK
    <3>5. Knows(p)'
      BY <1>1, <2>3, <3>1, <3>2
      DEF Knows, Chosen, Quiet, Open, Recovering, Restored, LinkSites
    <3> QED BY <3>4, <3>5
  <2> QED BY <2>1, <2>2, <2>3 DEF Rename, WriteSites
<1>6. RecoverableDisk' BY <1>1, <1>2, <1>5 DEF RecoverableDisk
<1>7. ASSUME NEW q \in Procs PROVE Holder(q)'
  BY <1>1, <1>5 DEF IInv, Holder
<1> QED BY <1>6, <1>7 DEF Kept

\* The fsync makes durable what is already recoverable.
LEMMA FsyncKept ==
  ASSUME IInv, NEW p \in Procs, Fsync(p)
  PROVE  Kept
<1>1. RecoverableDisk' BY DEF Fsync, IInv, RecoverableDisk
<1>2. /\ Goto(p, After(pc[p])) /\ io[p] = "fsync" /\ UNCHANGED <<disk, mem, cand>>
      /\ pc[p] \in WriteSites \ {"saveRevoked", "saveCurrent"}
  BY DEF Fsync, locals
<1>3. /\ After(pc[p]) \in Labels \ {"idle"} /\ pc[p] # "idle"
      /\ pc'[p] = After(pc[p]) /\ io'[p] = "create"
  BY <1>2 DEF IInv, TypeOK, ControlType, Goto, After, Labels, WriteSites, LedgerSites,
              LinkSites, RestartSites, AuditSites, UnlinkSites
<1>4. Knows(p) BY <1>3 DEF IInv, Holder
<1>5. Knows(p)'
  <2>1. CASE pc[p] = "saveSeen"
    BY <1>2, <1>3, <1>4, <2>1
    DEF Knows, After, Chosen, Quiet, Open, Recovering, Restored, LinkSites
  <2>2. CASE pc[p] = "saveJournal"
    BY <1>2, <1>3, <1>4, <2>2
    DEF Knows, After, Chosen, Quiet, Open, Recovering, Restored, LinkSites
  <2>3. CASE pc[p] = "linkNew"
    BY <1>2, <1>3, <1>4, <2>3
    DEF Knows, After, Subject, Chosen, Quiet, Open, Recovering, Restored, LinkSites
  <2>4. CASE pc[p] = "linkOld"
    BY <1>2, <1>3, <1>4, <2>4
    DEF Knows, After, Subject, Chosen, Quiet, Open, Recovering, Restored, LinkSites
  <2>5. CASE pc[p] = "linkRec"
    BY <1>2, <1>3, <1>4, <2>5
    DEF Knows, After, Subject, Chosen, Quiet, Open, Recovering, Restored, LinkSites
  <2>6. CASE pc[p] = "saveUpgraded"
    BY <1>2, <1>3, <1>4, <2>6
    DEF Knows, After, Chosen, Quiet, Open, Recovering, Restored, LinkSites
  <2>7. CASE pc[p] = "saveFailed"
    <3>1. /\ disk.journal = [previous |-> mem[p].current, candidate |-> cand[p]]
          /\ disk.pointer = mem[p].current /\ mem[p].current = disk.installed.current
      BY <1>4, <2>7 DEF Knows, Open, Restored
    <3>2. disk.journal # NoTxn
      BY <3>1, ReleaseAssumption DEF NoTxn, IInv, TypeOK, LocalsType, Ledger
    <3> QED BY <1>2, <1>3, <2>7, <3>1, <3>2
        DEF Knows, After, Chosen, Quiet, Open, Recovering, Restored, LinkSites
  <2> QED BY <1>2, <2>1, <2>2, <2>3, <2>4, <2>5, <2>6, <2>7
      DEF WriteSites, LedgerSites, LinkSites
<1> QED BY <1>1, <1>2, <1>3, <1>5, GotoHolds DEF Kept

\* So does the fsync check() returns from.
LEMMA FsyncReturnKept ==
  ASSUME IInv, NEW p \in Procs, FsyncReturn(p)
  PROVE  Kept
<1>1. RecoverableDisk' BY DEF FsyncReturn, IInv, RecoverableDisk
<1>2. pc[p] # "idle" BY DEF FsyncReturn
<1> QED BY <1>1, <1>2, ExitHolds DEF FsyncReturn, Kept

\* A step that moves p on and leaves the files alone keeps the invariant if p
\* still knows what it should.
LEMMA MoveKept ==
  ASSUME IInv, NEW p \in Procs, pc[p] # "idle", NEW l \in Labels \ {"idle"},
         Goto(p, l), UNCHANGED files,
         pc'[p] = l /\ io'[p] = "create" /\ Knows(p) => Knows(p)'
  PROVE  Kept
<1>1. pc'[p] = l /\ io'[p] = "create" /\ Knows(p)
  BY DEF Goto, IInv, TypeOK, ControlType, Holder
<1> QED BY <1>1, GotoHolds, SameFiles DEF Kept

\* A process that ends and leaves the files alone keeps the invariant.
LEMMA LeaveKept ==
  ASSUME IInv, NEW p \in Procs, pc[p] # "idle", NEW a, Exit(p, a), UNCHANGED files
  PROVE  Kept
BY ExitHolds, SameFiles DEF Kept

\* recover() finds the pointer and the ledger on the same journal.
LEMMA RecoverKept ==
  ASSUME IInv, NEW p \in Procs, Recover(p)
  PROVE  Kept
<1> USE DEF Knows, Chosen, Quiet, Open, Recovering, Restored, LinkSites
<1>1. CASE RecoverTxn(p)
  <2>1. "linkRec" \in Labels \ {"idle"} BY DEF Labels, WriteSites
  <2> QED BY <1>1, <2>1, MoveKept DEF RecoverTxn, files, locals
<1>2. CASE RecoverNone(p)
  <2>1. PICK l \in {"verify", "choose"} : Goto(p, l) BY <1>2 DEF RecoverNone
  <2>2. l \in Labels \ {"idle"} BY DEF Labels
  <2> QED BY <1>2, <2>1, <2>2, MoveKept DEF RecoverNone, files, locals
<1>3. CASE RecoverRefused(p)
  BY <1>3, LeaveKept DEF RecoverRefused
<1> QED BY <1>1, <1>2, <1>3 DEF Recover

\* check() up to its first write learns what it must know of its candidate.
LEMMA CheckKept ==
  ASSUME IInv, NEW p \in Procs, Verify(p) \/ VerifyRefused(p) \/ Fetch(p)
  PROVE  Kept
<1> USE DEF Knows, Chosen, Quiet, Open, Recovering, Restored, LinkSites
<1>0. mem \in [Procs -> Ledger] /\ cand \in [Procs -> Releases \cup {NoRelease}]
  BY DEF IInv, TypeOK, LocalsType
<1>1. CASE Verify(p)
  <2>1. "fetch" \in Labels \ {"idle"} BY DEF Labels
  <2> QED BY <1>1, <2>1, MoveKept DEF Verify, files
<1>2. CASE VerifyRefused(p)
  BY <1>2, LeaveKept DEF VerifyRefused
<1>3. CASE FetchOffline(p)
  BY <1>3, LeaveKept DEF FetchOffline
<1>4. ASSUME NEW m \in Releases, FetchRefused(p, m) PROVE Kept
  BY <1>4, LeaveKept DEF FetchRefused
<1>5. ASSUME NEW m \in Releases PROVE Observed(p, m).current = mem[p].current
  BY <1>0 DEF Observed, Ledger
<1>6. ASSUME NEW m \in Releases, FetchRevoking(p, m) PROVE Kept
  <2>1. "saveRevoked" \in Labels \ {"idle"} BY DEF Labels, WriteSites, LedgerSites
  <2>2. mem'[p].current = mem[p].current BY <1>0, <1>5, <1>6 DEF FetchRevoking
  <2> QED BY <1>6, <2>1, <2>2, MoveKept DEF FetchRevoking, files
<1>7. ASSUME NEW m \in Releases, FetchCurrent(p, m) PROVE Kept
  <2>1. "saveCurrent" \in Labels \ {"idle"} BY DEF Labels, WriteSites, LedgerSites
  <2>2. Observed(p, m) \in Ledger BY ObservedType DEF IInv
  <2>3. mem'[p].current = mem[p].current
    BY <1>0, <1>5, <1>7, <2>2 DEF FetchCurrent, Ledger
  <2> QED BY <1>7, <2>1, <2>3, MoveKept DEF FetchCurrent, files
<1>8. ASSUME NEW m \in Releases, FetchUpgrade(p, m) PROVE Kept
  <2>1. "saveSeen" \in Labels \ {"idle"} BY DEF Labels, WriteSites, LedgerSites
  <2>2. mem'[p].current = mem[p].current /\ cand'[p] = m
    BY <1>0, <1>5, <1>8 DEF FetchUpgrade
  <2> QED BY <1>8, <2>1, <2>2, MoveKept DEF FetchUpgrade, files
<1> QED BY <1>1, <1>2, <1>3, <1>4, <1>6, <1>7, <1>8 DEF Fetch

\* rollback() takes a previous release that is completely staged.
LEMMA ChooseKept ==
  ASSUME IInv, NEW p \in Procs, Choose(p)
  PROVE  Kept
<1>1. CASE mem[p].previous = NoRelease \/ mem[p].previous \in mem[p].revoked
  BY <1>1, LeaveKept DEF Choose
<1>2. CASE ~(mem[p].previous = NoRelease \/ mem[p].previous \in mem[p].revoked)
  <2>1. "saveJournal" \in Labels \ {"idle"} BY DEF Labels, WriteSites
  <2>2. cand'[p] \in Releases /\ mem' = mem
    BY <1>2 DEF Choose, IInv, TypeOK, LocalsType, Ledger
  <2> QED BY <1>2, <2>1, <2>2, MoveKept
      DEF Choose, files, Knows, Chosen, Quiet, Open, Recovering, Restored, LinkSites
<1> QED BY <1>1, <1>2

\* Staging touches one release that is not ready, so no other.
LEMMA SetStageKeeps ==
  ASSUME IInv, NEW m \in Releases, NEW s \in Stages, SetStage(m, s),
         disk.stage[m] # "ready" \/ s = "ready"
  PROVE  /\ disk'.installed = disk.installed /\ disk'.journal = disk.journal
         /\ disk'.pointer = disk.pointer /\ disk'.stage = [disk.stage EXCEPT ![m] = s]
         /\ DiskOK(disk')
<1>1. disk \in Disk BY DEF IInv, TypeOK, FilesType
<1>2. /\ disk'.installed = disk.installed /\ disk'.journal = disk.journal
      /\ disk'.pointer = disk.pointer /\ disk'.stage = [disk.stage EXCEPT ![m] = s]
  BY <1>1 DEF SetStage, Disk
<1>3. DiskOK(disk') BY <1>1, <1>2 DEF IInv, RecoverableDisk, DiskOK, Disk, Ledger
<1> QED BY <1>2, <1>3

\* prepare() never touches the release that is installed or linked.
LEMMA StageKept ==
  ASSUME IInv, NEW p \in Procs, Stage(p)
  PROVE  Kept
<1> USE DEF Chosen, Quiet, Open, Recovering, Restored, LinkSites
<1>1. pc[p] \in {"prepare", "stageManifest", "stageRoles"}
  BY DEF Stage, Prepare, StageManifest, StageRoles, StageRefused
<1>2. Knows(p) BY <1>1 DEF IInv, Holder
<1>3. /\ cand[p] \in Releases /\ mem[p].current = disk.installed.current
      /\ disk.journal = NoTxn
  BY <1>1, <1>2 DEF Knows
<1>4. ASSUME NEW l \in Labels, Goto(p, l) PROVE pc'[p] = l /\ io'[p] = "create"
  BY <1>4 DEF Goto, IInv, TypeOK, ControlType
<1>5. DiskOK(durable) BY DEF IInv, RecoverableDisk
<1>6. CASE Prepare(p)
  <2>1. CASE disk.stage[cand[p]] = "absent"
    <3>1. SetStage(cand[p], "dir") /\ Goto(p, "stageManifest") /\ UNCHANGED <<durable, locals>>
      BY <1>6, <2>1 DEF Prepare
    <3>2. /\ DiskOK(disk') /\ disk'.installed = disk.installed
          /\ disk'.journal = disk.journal
          /\ disk'.stage = [disk.stage EXCEPT ![cand[p]] = "dir"]
      BY <1>3, <2>1, <3>1, SetStageKeeps DEF Stages
    <3>3. disk'.stage[cand[p]] = "dir"
      BY <1>3, <3>2 DEF IInv, TypeOK, FilesType, Disk
    <3>4. "stageManifest" \in Labels \ {"idle"} BY DEF Labels
    <3>5. Knows(p)' BY <1>3, <1>4, <3>1, <3>2, <3>3, <3>4 DEF Knows, locals
    <3> QED BY <1>1, <1>5, <3>1, <3>2, <3>4, <3>5, GotoHolds DEF Kept, RecoverableDisk
  <2>2. CASE disk.stage[cand[p]] = "dir"
    BY <1>6, <2>2, LeaveKept DEF Prepare, files
  <2>3. CASE disk.stage[cand[p]] \notin {"absent", "dir"}
    <3>1. "stageRoles" \in Labels \ {"idle"} BY DEF Labels
    <3> QED BY <1>3, <1>6, <2>3, <3>1, MoveKept DEF Prepare, files, locals, Knows
  <2> QED BY <2>1, <2>2, <2>3
<1>7. CASE StageManifest(p)
  <2>1. disk.stage[cand[p]] = "dir" BY <1>2, <1>7 DEF StageManifest, Knows
  <2>2. SetStage(cand[p], "partial") /\ Goto(p, "stageRoles") /\ UNCHANGED locals
        /\ durable' = disk'
    BY <1>7 DEF StageManifest
  <2>3. /\ DiskOK(disk') /\ disk'.installed = disk.installed
        /\ disk'.journal = disk.journal
    BY <1>3, <2>1, <2>2, SetStageKeeps DEF Stages
  <2>4. "stageRoles" \in Labels \ {"idle"} BY DEF Labels
  <2>5. Knows(p)' BY <1>3, <1>4, <2>2, <2>3, <2>4 DEF Knows, locals
  <2> QED BY <1>1, <2>2, <2>3, <2>4, <2>5, GotoHolds DEF Kept, RecoverableDisk
<1>8. CASE StageRoles(p)
  <2>1. SetStage(cand[p], "ready") /\ durable' = disk' BY <1>8 DEF StageRoles
  <2>2. /\ DiskOK(disk') /\ disk'.installed = disk.installed
        /\ disk'.journal = disk.journal
    BY <1>3, <2>1, SetStageKeeps DEF Stages
  <2>3. CASE Begun(cand[p])
    <3>1. Goto(p, "saveJournal") /\ UNCHANGED locals BY <1>8, <2>3 DEF StageRoles
    <3>2. "saveJournal" \in Labels \ {"idle"} BY DEF Labels, WriteSites
    <3>3. Knows(p)' BY <1>3, <1>4, <2>2, <3>1, <3>2 DEF Knows, locals
    <3> QED BY <1>1, <2>1, <2>2, <3>1, <3>2, <3>3, GotoHolds DEF Kept, RecoverableDisk
  <2>4. CASE ~Begun(cand[p])
    <3>1. Exit(p, Refused) BY <1>8, <2>4 DEF StageRoles
    <3> QED BY <1>1, <2>1, <2>2, <3>1, ExitHolds DEF Kept, RecoverableDisk
  <2> QED BY <2>3, <2>4
<1>9. CASE StageRefused(p)
  <2>1. DiskOK(disk')
    BY <1>3, <1>9, SetStageKeeps DEF StageRefused, Stages, IInv, RecoverableDisk
  <2> QED BY <1>1, <1>5, <1>9, <2>1, ExitHolds DEF StageRefused, Kept, RecoverableDisk
<1> QED BY <1>6, <1>7, <1>8, <1>9 DEF Stage

\* Restarts and probes leave the files alone; the unlink closes a transaction
\* only when pointer and ledger agree.
LEMMA ProveKept ==
  ASSUME IInv, NEW p \in Procs, Prove(p)
  PROVE  Kept
<1> USE DEF Knows, Chosen, Quiet, Open, Recovering, Restored, LinkSites
<1>0. mem \in [Procs -> Ledger] /\ cand \in [Procs -> Releases \cup {NoRelease}]
  BY DEF IInv, TypeOK, LocalsType
<1>1. CASE Restart(p)
  <2>1. {"probeNew", "probeOld", "probeRec"} \subseteq Labels \ {"idle"}
    BY LabelsType DEF ProbeSites
  <2>2. CASE pc[p] = "restartNew"
    <3>1. Goto(p, "probeNew") BY <1>1, <2>2 DEF Restart
    <3> QED BY <1>1, <2>1, <2>2, <3>1, MoveKept DEF Restart, files, locals
  <2>3. CASE pc[p] = "restartOld"
    <3>1. Goto(p, "probeOld") BY <1>1, <2>3 DEF Restart
    <3> QED BY <1>1, <2>1, <2>3, <3>1, MoveKept DEF Restart, files, locals
  <2>4. CASE pc[p] = "restartRec"
    <3>1. Goto(p, "probeRec") BY <1>1, <2>4 DEF Restart
    <3> QED BY <1>1, <2>1, <2>4, <3>1, MoveKept DEF Restart, files, locals
  <2> QED BY <1>1, <2>2, <2>3, <2>4 DEF Restart, RestartSites
<1>2. CASE ProbeNew(p)
  <2>1. "saveUpgraded" \in Labels \ {"idle"} BY DEF Labels, WriteSites, LedgerSites
  <2>2. cand[p] \in Releases /\ mem[p].current \in Releases
    BY <1>0, <1>2 DEF ProbeNew, IInv, Holder, Ledger
  <2>3. mem'[p].current = cand[p]
    BY <1>0, <1>2 DEF ProbeNew, Activated, Ledger
  <2>4. [previous |-> mem[p].current, candidate |-> cand[p]] # NoTxn
    BY <2>2, ReleaseAssumption DEF NoTxn
  <2> QED BY <1>2, <2>1, <2>3, <2>4, MoveKept DEF ProbeNew, files
<1>3. CASE ProbeOld(p)
  <2>1. PICK l \in {"saveFailed", "unlinkFailed"} : Goto(p, l) BY <1>3 DEF ProbeOld
  <2>2. l \in Labels \ {"idle"} BY DEF Labels, WriteSites, LedgerSites, UnlinkSites
  <2>3. mem'[p].current = mem[p].current BY <1>0, <1>3 DEF ProbeOld, Ledger
  <2>4. [previous |-> mem[p].current, candidate |-> cand[p]] # NoTxn
    BY <1>0, ReleaseAssumption DEF NoTxn, Ledger
  <2> QED BY <1>3, <2>1, <2>2, <2>3, <2>4, MoveKept DEF ProbeOld, files
<1>4. CASE ProbeRec(p)
  <2>1. "auditRec" \in Labels \ {"idle"} BY DEF Labels, AuditSites
  <2> QED BY <1>4, <2>1, MoveKept DEF ProbeRec, files, locals
<1>5. CASE ProbeRefused(p)
  BY <1>5, RaiseHolds, SameFiles DEF ProbeRefused, Kept, files, ProbeSites
<1>6. CASE Unlink(p)
  <2>1. /\ disk'.installed = disk.installed /\ disk'.journal = NoTxn
        /\ disk'.pointer = disk.pointer /\ disk'.stage = disk.stage
    BY <1>6 DEF Unlink, IInv, TypeOK, FilesType, Disk
  <2>2. Knows(p) /\ pc[p] # "idle" BY <1>6 DEF Unlink, IInv, Holder, UnlinkSites
  <2>3. disk.installed.current = disk.pointer BY <1>6, <2>2 DEF Unlink, UnlinkSites
  <2>4. RecoverableDisk' BY <1>6, <2>1, <2>3 DEF Unlink, IInv, RecoverableDisk, DiskOK
  <2>5. CASE pc[p] = "unlinkRec"
    <3>1. Goto(p, "recover") /\ UNCHANGED locals BY <1>6, <2>5 DEF Unlink
    <3>2. pc'[p] = "recover" /\ mem'[p].current = disk'.installed.current
      BY <2>1, <2>2, <2>5, <3>1 DEF Goto, locals, IInv, TypeOK, ControlType
    <3>3. Knows(p)' BY <3>2
    <3>4. "recover" \in Labels \ {"idle"} BY DEF Labels
    <3> QED BY <2>2, <2>4, <3>1, <3>3, <3>4, GotoHolds DEF Kept
  <2>6. CASE pc[p] # "unlinkRec"
    <3>1. PICK a : Exit(p, a) BY <1>6, <2>6 DEF Unlink, UnlinkSites
    <3> QED BY <2>2, <2>4, <3>1, ExitHolds DEF Kept
  <2> QED BY <2>5, <2>6
<1>7. CASE Audit(p)
  <2>1. /\ disk'.installed = disk.installed /\ disk'.journal = disk.journal
        /\ disk'.pointer = disk.pointer /\ disk'.stage = disk.stage
    BY <1>7 DEF Audit, IInv, TypeOK, FilesType, Disk
  <2>2. Knows(p) /\ pc[p] # "idle" BY <1>7 DEF Audit, IInv, Holder, AuditSites
  <2>3. RecoverableDisk' BY <1>7, <2>1 DEF Audit, IInv, RecoverableDisk, DiskOK
  <2>4. PICK l \in {"unlinkDone", "unlinkRec"} :
          Goto(p, l) /\ l = IF pc[p] = "auditDone" THEN "unlinkDone" ELSE "unlinkRec"
    BY <1>7 DEF Audit
  <2>5. l \in Labels \ {"idle"} BY <2>4 DEF Labels, UnlinkSites
  <2>6. pc'[p] = l /\ mem' = mem
    BY <1>7, <2>4 DEF Audit, Goto, locals, IInv, TypeOK, ControlType
  <2>7. Knows(p)' BY <1>7, <2>1, <2>2, <2>4, <2>6 DEF Audit, AuditSites
  <2> QED BY <2>2, <2>3, <2>4, <2>5, <2>7, GotoHolds DEF Kept
<1> QED BY <1>1, <1>2, <1>3, <1>4, <1>5, <1>6, <1>7 DEF Prove

\* Exceptions and kills keep the invariant at every step.
LEMMA FaultKept ==
  ASSUME IInv, NEW p \in Procs, Throw(p) \/ Kill(p)
  PROVE  Kept
<1>1. CASE Throw(p)
  BY <1>1, RaiseHolds, SameFiles DEF Throw, Kept, files
<1>2. CASE Kill(p)
  BY <1>2, LeaveKept DEF Kill
<1> QED BY <1>1, <1>2

\* A power loss goes back to durable files, which are recoverable too.
LEMMA EnvironmentKept ==
  ASSUME IInv, Environment
  PROVE  Kept
<1>1. CASE PowerLoss
  BY <1>1, ProcAssumption DEF PowerLoss, Kept, IInv, RecoverableDisk, Holder
<1>2. ASSUME UNCHANGED <<disk, mem, cand, pc, io, lock>>, DiskOK(durable')
      PROVE  Kept
  <2>1. RecoverableDisk' BY <1>2 DEF IInv, RecoverableDisk
  <2>2. ASSUME NEW q \in Procs PROVE Holder(q)'
    BY <1>2 DEF IInv, Holder, Knows, Subject
  <2> QED BY <2>1, <2>2 DEF Kept
<1>3. CASE Writeback
  BY <1>2, <1>3 DEF Writeback, locals, control, IInv, RecoverableDisk
<1>4. CASE ServiceCrash \/ ServiceStart \/ SetClock
  BY <1>2, <1>4
  DEF ServiceCrash, ServiceStart, SetClock, files, locals, control, IInv, RecoverableDisk
<1>5. CASE OperatorClean
  <2>1. disk \in Disk BY DEF IInv, TypeOK, FilesType
  <2>2. /\ disk'.installed = disk.installed /\ disk'.journal = disk.journal
        /\ disk'.pointer = disk.pointer
        /\ \A m \in Releases : disk.stage[m] = "ready" => disk'.stage[m] = "ready"
    BY <1>5, <2>1 DEF OperatorClean, Disk
  <2>3. RecoverableDisk'
    BY <1>5, <2>1, <2>2
    DEF OperatorClean, IInv, RecoverableDisk, DiskOK, Disk, Ledger
  <2>4. ASSUME NEW q \in Procs PROVE Holder(q)'
    BY <1>5, ProcAssumption DEF OperatorClean, control, IInv, Holder
  <2> QED BY <2>3, <2>4 DEF Kept
<1> QED BY <1>1, <1>3, <1>4, <1>5 DEF Environment
-----------------------------------------------------------------------------
\* The installer leaves a host on which the invariant holds.
LEMMA InitIInv == Init => IInv
<1> SUFFICES ASSUME Init PROVE IInv OBVIOUS
<1>1. FirstDisk(clock) \in Disk
  BY ReleaseAssumption, TimeAssumption, BlankType, NoTxnType
  DEF Init, FirstDisk, Disk, Stages, Ledger
<1>2. TypeOK
  <2>1. FilesType BY <1>1 DEF Init, FilesType
  <2>2. ControlType BY NoTxnType DEF Init, ControlType, Labels
  <2>3. LocalsType BY BlankType DEF Init, LocalsType
  <2>4. HostType BY ReleaseAssumption, TimeAssumption DEF Init, HostType
  <2> QED BY <2>1, <2>2, <2>3, <2>4 DEF TypeOK
<1>3. DiskOK(FirstDisk(clock))
  BY ReleaseAssumption DEF FirstDisk, DiskOK, Blank
<1>4. RecoverableDisk BY <1>3 DEF Init, RecoverableDisk
<1>5. ASSUME NEW p \in Procs PROVE Holder(p)
  BY ProcAssumption DEF Init, Holder
<1> QED BY <1>2, <1>4, <1>5 DEF IInv

\* Every action preserves it.
LEMMA NextIInv == IInv /\ [Next]_vars => IInv'
<1> SUFFICES ASSUME IInv, [Next]_vars PROVE IInv' OBVIOUS
<1>1. TypeOK /\ \A p \in Procs : Holder(p) BY DEF IInv
<1>2. ASSUME NEW p \in Procs, NEW o \in {"check", "rollback"}, Start(p, o)
      PROVE  TypeOK' /\ Kept
  BY <1>1, <1>2, StartType, StartKept
<1>3. ASSUME NEW p \in Procs, Run(p) PROVE TypeOK' /\ Kept
  <2>1. CASE Recover(p) BY <1>1, <2>1, RecoverType, RecoverKept
  <2>2. CASE Verify(p) \/ VerifyRefused(p) \/ Fetch(p) BY <1>1, <2>2, CheckType, CheckKept
  <2>3. CASE Write(p)
    <3>1. TypeOK' BY <1>1, <2>3, WriteType
    <3>2. Kept
      BY <2>3, CreateKept, CreateRefusedKept, RenameKept, FsyncKept, FsyncReturnKept DEF Write
    <3> QED BY <3>1, <3>2
  <2>4. CASE Stage(p) BY <1>1, <2>4, StageType, StageKept
  <2>5. CASE Choose(p) BY <1>1, <2>5, ChooseType, ChooseKept
  <2>6. CASE Prove(p) BY <1>1, <2>6, ProveType, ProveKept
  <2> QED BY <1>3, <2>1, <2>2, <2>3, <2>4, <2>5, <2>6 DEF Run
<1>4. ASSUME NEW p \in Procs, Throw(p) \/ Kill(p) PROVE TypeOK' /\ Kept
  BY <1>1, <1>4, FaultType, FaultKept
<1>5. ASSUME Environment PROVE TypeOK' /\ Kept
  BY <1>1, <1>5, EnvironmentType, EnvironmentKept
<1>6. CASE UNCHANGED vars
  BY <1>6
  DEF vars, files, locals, control, host, IInv, TypeOK, FilesType, ControlType, LocalsType,
      HostType, RecoverableDisk, DiskOK, Holder, Knows, Subject
<1>7. CASE Next
  <2>1. TypeOK' /\ Kept BY <1>2, <1>3, <1>4, <1>5, <1>7 DEF Next
  <2> QED BY <2>1 DEF Kept, IInv
<1> QED BY <1>6, <1>7

\* The inductive invariant holds in every state of the updater.
THEOREM Invariance == Spec => []IInv
BY InitIInv, NextIInv, PTL DEF Spec

\* Type correctness, for every set of releases, processes and faults.
THEOREM TypeCorrect == Spec => []TypeOK
<1>1. IInv => TypeOK BY DEF IInv
<1> QED BY <1>1, Invariance, PTL

\* Whatever instruction a process dies at and whenever the power fails, recover()
\* finds files it can decide from.
THEOREM Recoverability == Spec => []RecoverableDisk
<1>1. IInv => RecoverableDisk BY DEF IInv
<1> QED BY <1>1, Invariance, PTL
-----------------------------------------------------------------------------
(* What the proofs of the other invariants use of this one *)

\* Whoever is not idle is the holder of update.lock, and knows.
LEMMA OnlyHolder ==
  ASSUME IInv, NEW p \in Procs, pc[p] # "idle"
  PROVE  Knows(p) /\ \A q \in Procs \ {p} : pc[q] = "idle"
BY DEF IInv, Holder

\* Moving on or ending changes the step of one process.
LEMMA OthersStay ==
  ASSUME IInv, NEW p \in Procs
  PROVE  /\ \A l \in Labels : Goto(p, l) =>
              pc'[p] = l /\ \A q \in Procs \ {p} : pc'[q] = pc[q]
         /\ \A a : Exit(p, a) => pc'[p] = "idle" /\ \A q \in Procs \ {p} : pc'[q] = pc[q]
         /\ Raise(p) => /\ pc'[p] \in {"idle", "linkOld"}
                        /\ \A q \in Procs \ {p} : pc'[q] = pc[q]
<1>1. "linkOld" \in Labels BY DEF Labels, WriteSites, LinkSites
<1> QED BY <1>1 DEF IInv, TypeOK, ControlType, Goto, Exit, Raise
=============================================================================

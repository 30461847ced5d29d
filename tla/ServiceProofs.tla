------------------------------ MODULE ServiceProofs ------------------------------
(***************************************************************************)
(* The service, the direction of updates and what approvals vouch for.     *)
(* Which release runs depends on the pointer, so ServedInv follows it      *)
(* through a transaction: from link() to the passed probe the service may  *)
(* run another release, but then the journal is open.  Then how far a      *)
(* power loss goes back (LossInv), and with it who alone brings a revoked  *)
(* or quarantined release back, and what recover() may refuse (StuckInv).  *)
(***************************************************************************)
EXTENDS LedgerProofs, AuditTrailProofs

\* A step of p after which p is not in the last part of a transaction.
LEMMA Unsettled ==
  ASSUME IInv, ServedInv, NEW p \in Procs, pc[p] # "idle",
         \A q \in Procs \ {p} : pc'[q] = pc[q], pc'[p] \notin Settled,
         disk'.journal = NoTxn =>
           \/ running' = NoRelease \/ running' = disk'.pointer
           \/ /\ disk.journal = NoTxn /\ disk'.pointer = disk.pointer
              /\ running' = running
  PROVE  ServedInv'
<1>1. \A q \in Procs : pc'[q] \notin Settled BY OnlyHolder DEF Settled
<1> QED BY <1>1 DEF ServedInv

\* A step of p within it, or into it once the running service is proven.
LEMMA Settles ==
  ASSUME ServedInv, NEW p \in Procs, disk'.pointer = disk.pointer, UNCHANGED running,
         pc[p] \in Settled \/ running = disk.pointer
  PROVE  ServedInv'
BY DEF ServedInv

\* link() moves the pointer only with the journal open and the service unsettled.
LEMMA WriteServed ==
  ASSUME IInv, ServedInv, NEW p \in Procs, Write(p)
  PROVE  ServedInv'
<1> USE DEF WriteSites, LedgerSites, LinkSites
<1>0. pc[p] # "idle" /\ Knows(p) /\ disk \in Disk /\ mem[p] \in Ledger
  <2>1. pc[p] # "idle"
    BY DEF Write, Create, CreateRefused, Rename, Fsync, FsyncReturn
  <2> QED BY <2>1, OnlyHolder DEF IInv, TypeOK, FilesType, LocalsType
<1>1. CASE Create(p)
  <2>1. /\ disk'.journal = disk.journal /\ disk'.pointer = disk.pointer
        /\ UNCHANGED <<pc, running>>
    BY <1>0, <1>1 DEF Create, Disk, host
  <2> QED BY <2>1 DEF ServedInv
<1>2. CASE Rename(p)
  <2>1. disk' = Renamed(p) /\ UNCHANGED <<pc, running>> BY <1>2 DEF Rename, host
  <2>2. CASE pc[p] \in LedgerSites
    <3>1. disk'.journal = disk.journal /\ disk'.pointer = disk.pointer
      BY <1>0, <2>1, <2>2 DEF Renamed, Disk
    <3> QED BY <2>1, <3>1 DEF ServedInv
  <2>3. CASE pc[p] \in LinkSites
    <3>1. disk'.journal = disk.journal BY <1>0, <2>1, <2>3 DEF Renamed, Disk
    <3>2. disk.journal # NoTxn
      BY <1>0, <2>3, ReleaseAssumption DEF Knows, Open, Recovering, NoTxn, Ledger
    <3> QED BY <1>0, <2>1, <2>3, <3>1, <3>2, Unsettled DEF Settled
  <2>4. CASE pc[p] = "saveJournal"
    <3>1. disk'.journal # NoTxn
      BY <1>0, <2>1, <2>4, ReleaseAssumption DEF Renamed, Disk, NoTxn, Ledger
    <3> QED BY <1>0, <2>1, <2>4, <3>1, Unsettled DEF Settled
  <2> QED BY <1>2, <2>2, <2>3, <2>4 DEF Rename
<1>3. CASE Fsync(p)
  <2>1. /\ After(pc[p]) \in Labels /\ Goto(p, After(pc[p]))
        /\ UNCHANGED <<disk, running>>
    BY <1>3, LabelsType DEF Fsync, After, RestartSites, AuditSites, UnlinkSites, host
  <2>2. Moves(p, After(pc[p])) BY <2>1, MovesOn
  <2>3. CASE pc[p] \in Settled BY <2>1, <2>3, Settles
  <2>4. CASE pc[p] \notin Settled
    <3>1. After(pc[p]) \notin Settled BY <1>3, <2>4 DEF Fsync, After, Settled
    <3> QED BY <1>0, <2>1, <2>2, <3>1, Unsettled DEF Moves
  <2> QED BY <2>3, <2>4
<1>4. CASE CreateRefused(p) \/ FsyncReturn(p)
  <2>1. UNCHANGED <<disk, running>> /\ (Moves(p, "idle") \/ Moves(p, "linkOld"))
    BY <1>4, MovesOn DEF CreateRefused, FsyncReturn, files, host
  <2> QED BY <1>0, <2>1, Unsettled DEF Moves, Settled
<1> QED BY <1>1, <1>2, <1>3, <1>4 DEF Write

\* Up to the journal nothing about the service changes.
LEMMA DecideServed ==
  ASSUME IInv, ServedInv, NEW p \in Procs,
         Recover(p) \/ Verify(p) \/ VerifyRefused(p) \/ Fetch(p) \/ Stage(p) \/ Choose(p)
  PROVE  ServedInv'
<1> USE DEF Recover, RecoverTxn, RecoverNone, RecoverRefused, Verify, VerifyRefused, Fetch,
            FetchOffline, FetchRefused, FetchRevoking, FetchCurrent, FetchUpgrade, Stage,
            Prepare, StageManifest, StageRoles, StageRefused, Choose
<1>1. pc[p] # "idle" OBVIOUS
<1>2. /\ disk'.journal = disk.journal /\ disk'.pointer = disk.pointer
      /\ UNCHANGED running
  BY DEF SetStage, files, host, IInv, TypeOK, FilesType, Disk
<1>3. \/ \E a : Exit(p, a)
      \/ \E l \in {"linkRec", "verify", "choose", "fetch", "saveRevoked", "saveCurrent",
                   "saveSeen", "stageManifest", "stageRoles", "saveJournal"} : Goto(p, l)
  OBVIOUS
<1>4. PICK l : Moves(p, l) /\ l \notin Settled
  BY <1>3, MovesOn DEF Labels, WriteSites, LedgerSites, LinkSites, Settled
<1> QED BY <1>1, <1>2, <1>4, Unsettled DEF Moves

\* The probe passes only when the service runs what the pointer names.
LEMMA ProveServed ==
  ASSUME IInv, ServedInv, NEW p \in Procs, Prove(p)
  PROVE  ServedInv'
<1>0. pc[p] # "idle" /\ Knows(p) /\ disk \in Disk
  <2>1. pc[p] # "idle"
    BY DEF Prove, Restart, ProbeNew, ProbeOld, ProbeRec, ProbeRefused, Audit, Unlink,
           RestartSites, ProbeSites, AuditSites, UnlinkSites
  <2> QED BY <2>1, OnlyHolder DEF IInv, TypeOK, FilesType
<1>1. CASE Restart(p)
  <2>1. running' = disk.pointer /\ UNCHANGED disk BY <1>1 DEF Restart, files
  <2> QED BY <2>1 DEF ServedInv
<1>2. CASE ProbeNew(p) \/ ProbeOld(p) \/ ProbeRec(p)
  <2>1. running = Subject(p) /\ UNCHANGED <<disk, running>>
    BY <1>2 DEF ProbeNew, ProbeOld, ProbeRec, Proven, files, host
  <2>2. Subject(p) = disk.pointer
    BY <1>0, <1>2 DEF ProbeNew, ProbeOld, ProbeRec, Knows, Subject, Restored
  <2> QED BY <2>1, <2>2, Settles
<1>3. CASE ProbeRefused(p)
  <2>1. UNCHANGED <<disk, running>> /\ (Moves(p, "idle") \/ Moves(p, "linkOld"))
    BY <1>3, MovesOn DEF ProbeRefused, files, host
  <2> QED BY <1>0, <2>1, Unsettled DEF Moves, Settled
<1>4. CASE Audit(p) \/ Unlink(p)
  <2>1. disk'.pointer = disk.pointer /\ UNCHANGED running
    BY <1>0, <1>4 DEF Audit, Unlink, Disk, host
  <2>2. pc[p] \in Settled BY <1>4 DEF Audit, Unlink, AuditSites, UnlinkSites, Settled
  <2> QED BY <2>1, <2>2, Settles
<1> QED BY <1>1, <1>2, <1>3, <1>4 DEF Prove

\* A failed service command leaves the service as it was, stopped or restarted.
LEMMA EndsServed ==
  ASSUME IInv, ServedInv, NEW p \in Procs,
         Throw(p) \/ Kill(p) \/ \E o \in {"check", "rollback"} : Start(p, o)
  PROVE  ServedInv'
<1>1. CASE Throw(p) \/ Kill(p)
  <2>1. /\ pc[p] # "idle" /\ UNCHANGED disk
        /\ running' \in {running, NoRelease, disk.pointer}
        /\ Moves(p, "idle") \/ Moves(p, "linkOld")
    BY <1>1, MovesOn DEF Throw, Kill, files
  <2> QED BY <2>1, Unsettled DEF Moves, Settled
<1>2. ASSUME NEW o \in {"check", "rollback"}, Start(p, o) PROVE ServedInv'
  <2>1. UNCHANGED <<disk, running>> /\ \A q \in Procs : pc'[q] \in {"idle", "recover"}
    BY <1>2, ProcAssumption DEF Start, files, host, IInv, TypeOK, ControlType, Holder
  <2> QED BY <2>1 DEF ServedInv, Settled
<1> QED BY <1>1, <1>2

\* systemd starts what the pointer names; a power loss leaves nothing running.
LEMMA EnvironmentServed ==
  ASSUME IInv, ServedInv, Environment
  PROVE  ServedInv'
<1>1. CASE PowerLoss BY <1>1 DEF PowerLoss, ServedInv
<1>2. CASE ServiceCrash \/ ServiceStart
  BY <1>2 DEF ServiceCrash, ServiceStart, ServedInv, files
<1>3. CASE Writeback \/ SetClock
  BY <1>3 DEF Writeback, SetClock, ServedInv, files, control, host
<1>4. CASE OperatorClean
  <2>1. /\ disk'.journal = disk.journal /\ disk'.pointer = disk.pointer
        /\ UNCHANGED <<pc, running>>
    BY <1>4 DEF OperatorClean, IInv, TypeOK, FilesType, Disk, control, host
  <2> QED BY <2>1 DEF ServedInv
<1> QED BY <1>1, <1>2, <1>3, <1>4 DEF Environment

\* Every step keeps service and pointer together outside a transaction.
LEMMA NextServed == IInv /\ ServedInv /\ [Next]_vars => ServedInv'
<1> SUFFICES ASSUME IInv, ServedInv, [Next]_vars PROVE ServedInv' OBVIOUS
<1>1. ASSUME NEW p \in Procs, Run(p) PROVE ServedInv'
  BY <1>1, DecideServed, WriteServed, ProveServed DEF Run
<1>2. CASE UNCHANGED vars
  BY <1>2 DEF vars, files, control, host, ServedInv
<1>3. CASE Next
  BY <1>1, <1>3, EndsServed, EnvironmentServed DEF Next
<1> QED BY <1>2, <1>3

\* Outside the middle of a transaction the service follows the pointer.
LEMMA ServedHolds == Spec => []ServedInv
<1>1. Init => ServedInv BY DEF Init, FirstDisk, ServedInv
<1> QED BY <1>1, NextServed, Invariance, PTL DEF Spec

\* Without a process and with the journal closed the service that runs is the
\* release the ledger names.
THEOREM ServedIsInstalled == Spec => []ServedMatchesLedger
<1>1. IInv /\ ServedInv => ServedMatchesLedger
  BY DEF IInv, RecoverableDisk, DiskOK, ServedInv, ServedMatchesLedger
<1> QED BY <1>1, ServedHolds, Invariance, PTL
-----------------------------------------------------------------------------
\* The installed release changes in three ways: an operator's rollback to a previous
\* release that is not revoked, an upgrade to the newest manifest seen, which is
\* approved and neither quarantined nor revoked by itself, and a power loss.
LEMMA Installs ==
  ASSUME IInv, MemoryInv, [Next]_vars,
         disk'.installed.current # disk.installed.current
  PROVE  LET l == disk.installed
             new == disk'.installed.current
         IN  \/ /\ lock' # NoProc /\ op[lock'] = "rollback" /\ op' = op
                /\ new = l.previous /\ new \notin l.revoked
             \/ /\ lock' # NoProc /\ op[lock'] = "check"
                /\ new = l.metadata /\ new \notin l.failed
                /\ new \in Approved \ Revokes[new]
             \/ PowerLoss
<1> DEFINE l == disk.installed
           new == disk'.installed.current
<1>0. disk.installed \in Ledger /\ disk \in Disk
  BY DEF IInv, TypeOK, FilesType, Disk
<1>1. ASSUME NEW p \in Procs, Rename(p), pc[p] \in LedgerSites
      PROVE  \/ /\ lock' # NoProc /\ op[lock'] = "rollback" /\ op' = op
                /\ new = l.previous /\ new \notin l.revoked
             \/ /\ lock' # NoProc /\ op[lock'] = "check"
                /\ new = l.metadata /\ new \notin l.failed
                /\ new \in Approved \ Revokes[new]
  <2>1. /\ disk' = Renamed(p) /\ UNCHANGED <<lock, op>> /\ pc[p] # "idle"
        /\ io[p] = "rename"
    BY <1>1 DEF Rename, LedgerSites
  <2>2. disk'.installed = mem[p] BY <1>0, <1>1, <2>1 DEF Renamed, Disk, LedgerSites, LinkSites
  <2>3. lock = p BY <2>1 DEF IInv, Holder
  <2>4. Pending(p) BY <1>1, <2>1, Remembered DEF Remembers
  <2>5. mem[p].current = l.current \/ pc[p] = "saveUpgraded"
    BY <1>0, <1>1, <2>4
    DEF Pending, Noted, Renewed, Barred, LedgerSites, Abstract!Saw, Ledger
  <2>6. pc[p] = "saveUpgraded" BY <2>2, <2>5
  <2>7. Upgraded(p) => /\ mem[p].current = l.metadata /\ mem[p].current \notin l.failed
                       /\ mem[p].current \in Approved \ Revokes[mem[p].current]
    BY <1>0 DEF Upgraded, Abstract!Fresh, Ledger
  <2>8. RolledBack(p) => mem[p].current = l.previous /\ mem[p].current \notin l.revoked
    BY <1>0 DEF RolledBack, Ledger
  <2>9. op[p] \in {"check", "rollback"} BY DEF IInv, TypeOK, ControlType
  <2> QED BY <2>1, <2>2, <2>3, <2>4, <2>6, <2>7, <2>8, <2>9, ProcAssumption DEF Pending
<1>2. ASSUME NEW p \in Procs,
             \/ Run(p) /\ ~(Rename(p) /\ pc[p] \in LedgerSites)
             \/ Throw(p) \/ Kill(p) \/ \E o \in {"check", "rollback"} : Start(p, o)
      PROVE  FALSE
  BY <1>2, OthersCommit
<1>3. CASE Writeback \/ ServiceCrash \/ ServiceStart \/ SetClock \/ OperatorClean
           \/ UNCHANGED vars
  BY <1>0, <1>3
  DEF Writeback, ServiceCrash, ServiceStart, SetClock, OperatorClean, vars, files, Disk
<1>4. CASE Next
  BY <1>1, <1>2, <1>3, <1>4 DEF Next, Environment
<1> QED BY <1>3, <1>4

\* A check() installs the newest manifest seen, so only an operator's rollback
\* and a power loss go back.
LEMMA Downgrades ==
  IInv /\ MemoryInv /\ LedgersOK /\ [Next]_vars =>
    (Seq[disk'.installed.current] < Seq[disk.installed.current] =>
       lock' = NoProc \/ op[lock'] = "rollback")
<1> SUFFICES ASSUME IInv, MemoryInv, LedgersOK, [Next]_vars,
                    Seq[disk'.installed.current] < Seq[disk.installed.current]
             PROVE  lock' = NoProc \/ op[lock'] = "rollback"
  OBVIOUS
<1>0. disk.installed \in Ledger /\ Seq \in [Releases -> Nat]
  BY ReleaseAssumption DEF IInv, TypeOK, FilesType, Disk
<1>1. disk'.installed.current # disk.installed.current BY <1>0 DEF Ledger
<1>2. disk'.installed.current # disk.installed.metadata
  <2>1. Seq[disk.installed.current] <= Seq[disk.installed.metadata]
    BY <1>0, ReleaseAssumption DEF LedgersOK, LedgerOK, Ledger
  <2> QED BY <1>0, <2>1 DEF Ledger
<1> QED BY <1>1, <1>2, Installs DEF PowerLoss

\* No replayed channel, failed upgrade or recovery downgrades the ledger.
THEOREM NoDowngrade == Spec => OnlyRollbackDowngrades
<1>1. IInv /\ MemoryInv /\ LedgersOK /\ [Next]_vars =>
        [LET old == disk.installed.current
             new == disk'.installed.current
         IN  Seq[new] < Seq[old] => lock' = NoProc \/ op[lock'] = "rollback"]_vars
  BY Downgrades
<1> QED BY <1>1, Invariance, MemoryHolds, LedgersHold, PTL
    DEF Spec, OnlyRollbackDowngrades
-----------------------------------------------------------------------------
(* Approvals *)

\* What an invocation on its way to an approval has established: the release it
\* will name is not revoked, or is the newest manifest seen; and a recorded
\* activation is on the disk for good.  What recovery puts back is not revoked.
Finishing == {"saveUpgraded", "auditDone", "unlinkDone"}
Unrevoked == {"fetch", "saveCurrent", "linkRec", "restartRec"}
Vouched(p) ==
  /\ pc[p] \in Unrevoked => mem[p].current \notin mem[p].revoked
  /\ pc[p] \in Finishing =>
       IF op[p] = "rollback" THEN mem[p].current \notin mem[p].revoked
                             ELSE mem[p].current = mem[p].metadata
  /\ pc[p] \in {"auditDone", "unlinkDone"} => durable.installed = disk.installed
VouchedInv == \A p \in Procs : Vouched(p)

\* Only the holder has something to vouch for.
LEMMA OthersVouched ==
  ASSUME IInv, NEW p \in Procs, pc[p] # "idle",
         \A q \in Procs \ {p} : pc'[q] = pc[q],
         pc'[p] \notin Unrevoked \cup Finishing \/ Vouched(p)'
  PROVE  VouchedInv'
BY OnlyHolder DEF VouchedInv, Vouched, Finishing, Unrevoked

LEMMA DecideVouched ==
  ASSUME IInv, VouchedInv, NEW p \in Procs,
         Recover(p) \/ Verify(p) \/ VerifyRefused(p) \/ Fetch(p) \/ Stage(p) \/ Choose(p)
  PROVE  VouchedInv'
<1>0. pc[p] # "idle" /\ mem \in [Procs -> Ledger]
  BY DEF IInv, TypeOK, LocalsType, Recover, RecoverTxn, RecoverNone, RecoverRefused, Verify,
         VerifyRefused, Fetch, FetchOffline, FetchRefused, FetchRevoking, FetchCurrent,
         FetchUpgrade, Stage, Prepare, StageManifest, StageRoles, StageRefused, Choose
<1>1. CASE Verify(p)
  <2>1. Moves(p, "fetch") BY <1>1, MovesOn, LabelsType DEF Verify
  <2>2. mem' = mem /\ mem[p].current \notin mem[p].revoked BY <1>1 DEF Verify, Fit
  <2>3. Vouched(p)' BY <2>1, <2>2 DEF Vouched, Moves, Finishing, Unrevoked
  <2> QED BY <1>0, <2>1, <2>3, OthersVouched DEF Moves
<1>2. ASSUME NEW m \in Releases, FetchCurrent(p, m) PROVE VouchedInv'
  <2>1. Moves(p, "saveCurrent") BY <1>2, MovesOn, LabelsType DEF FetchCurrent, WriteSites, LedgerSites
  <2>2. /\ mem'[p] = [Observed(p, m) EXCEPT !.verified = now[p], !.expires = Expires[m]]
        /\ m = mem[p].current /\ m \notin Observed(p, m).revoked
    BY <1>0, <1>2 DEF FetchCurrent
  <2>3. mem'[p].current = m /\ mem'[p].revoked = Observed(p, m).revoked
    BY <1>0, <2>2 DEF Observed, Ledger
  <2>4. Vouched(p)' BY <2>1, <2>2, <2>3 DEF Vouched, Moves, Finishing, Unrevoked
  <2> QED BY <1>0, <2>1, <2>4, OthersVouched DEF Moves
<1>3. CASE RecoverTxn(p)
  <2>1. Moves(p, "linkRec")
    BY <1>3, MovesOn DEF RecoverTxn, Labels, WriteSites, LinkSites
  <2>2. mem' = mem /\ mem[p].current \notin mem[p].revoked
    BY <1>3 DEF RecoverTxn, Recoverable, locals
  <2>3. Vouched(p)' BY <2>1, <2>2 DEF Vouched, Moves, Finishing, Unrevoked
  <2> QED BY <1>0, <2>1, <2>3, OthersVouched DEF Moves
<1>4. CASE \/ RecoverNone(p) \/ RecoverRefused(p) \/ VerifyRefused(p) \/ Stage(p) \/ Choose(p) \/ FetchOffline(p)
           \/ \E m \in Releases : FetchRefused(p, m) \/ FetchRevoking(p, m) \/ FetchUpgrade(p, m)
  <2>1. \/ \E a : Exit(p, a)
        \/ \E l \in {"verify", "choose", "saveRevoked", "saveSeen",
                     "stageManifest", "stageRoles", "saveJournal"} : Goto(p, l)
    BY <1>4 DEF RecoverNone, RecoverRefused, VerifyRefused, Stage,
        Prepare, StageManifest, StageRoles, StageRefused, Choose, FetchOffline, FetchRefused,
        FetchRevoking, FetchUpgrade
  <2>2. PICK l : Moves(p, l) /\ l \notin Unrevoked \cup Finishing
    BY <2>1, MovesOn DEF Labels, WriteSites, LedgerSites, LinkSites, Finishing, Unrevoked
  <2> QED BY <1>0, <2>2, OthersVouched DEF Moves
<1> QED BY <1>1, <1>2, <1>3, <1>4 DEF Fetch, Recover

LEMMA WriteVouched ==
  ASSUME IInv, VouchedInv, NEW p \in Procs, Write(p)
  PROVE  VouchedInv'
<1>0. pc[p] # "idle" /\ Vouched(p) /\ pc[p] \in WriteSites
  BY DEF VouchedInv, Write, Create, CreateRefused, Rename, Fsync, FsyncReturn, WriteSites,
         LedgerSites, LinkSites
<1>1. CASE Create(p) \/ Rename(p)
  <2>1. pc' = pc /\ mem' = mem /\ op' = op BY <1>1 DEF Create, Rename, locals
  <2>2. Vouched(p)'
    BY <1>0, <2>1 DEF Vouched, WriteSites, LedgerSites, LinkSites
  <2> QED BY <1>0, <2>1, <2>2, OthersVouched
<1>2. CASE Fsync(p)
  <2>1. /\ Goto(p, After(pc[p])) /\ After(pc[p]) \in Labels /\ durable' = disk
        /\ UNCHANGED <<disk, mem>> /\ pc[p] \notin {"saveRevoked", "saveCurrent"}
    <3>1. After(pc[p]) \in Labels
      BY <1>2, LabelsType DEF Fsync, After, RestartSites, AuditSites, UnlinkSites,
                              WriteSites, LedgerSites, LinkSites
    <3> QED BY <1>2, <3>1 DEF Fsync, locals
  <2>2. Moves(p, After(pc[p])) BY <2>1, MovesOn
  <2>3. CASE pc[p] = "saveUpgraded"
    <3>1. pc'[p] = "auditDone" /\ op' = op BY <2>2, <2>3 DEF Moves, After
    <3>2. Vouched(p)' BY <1>0, <2>1, <2>3, <3>1 DEF Vouched, Finishing, Unrevoked
    <3> QED BY <1>0, <2>2, <3>2, OthersVouched DEF Moves
  <2>4. CASE pc[p] = "linkRec"
    <3>1. pc'[p] = "restartRec" BY <2>2, <2>4 DEF Moves, After
    <3>2. Vouched(p)' BY <1>0, <2>1, <2>4, <3>1 DEF Vouched, Finishing, Unrevoked
    <3> QED BY <1>0, <2>2, <3>2, OthersVouched DEF Moves
  <2>5. CASE pc[p] \notin {"saveUpgraded", "linkRec"}
    <3>1. After(pc[p]) \notin Unrevoked \cup Finishing
      BY <1>0, <2>1, <2>5 DEF After, Finishing, Unrevoked, WriteSites, LedgerSites, LinkSites
    <3> QED BY <1>0, <2>2, <3>1, OthersVouched DEF Moves
  <2> QED BY <2>3, <2>4, <2>5
<1>3. CASE CreateRefused(p) \/ FsyncReturn(p)
  <2>1. Moves(p, "idle") \/ Moves(p, "linkOld")
    BY <1>3, MovesOn DEF CreateRefused, FsyncReturn
  <2> QED BY <1>0, <2>1, OthersVouched DEF Moves, Finishing, Unrevoked
<1> QED BY <1>1, <1>2, <1>3 DEF Write

LEMMA ProveVouched ==
  ASSUME IInv, MemoryInv, VouchedInv, NEW p \in Procs, Prove(p)
  PROVE  VouchedInv'
<1>0. /\ pc[p] # "idle" /\ Vouched(p) /\ Remembers(p) /\ disk \in Disk
      /\ mem \in [Procs -> Ledger] /\ op[p] \in {"check", "rollback"}
  <2>1. pc[p] # "idle"
    BY DEF Prove, Restart, ProbeNew, ProbeOld, ProbeRec, ProbeRefused, Audit, Unlink,
           RestartSites, ProbeSites, AuditSites, UnlinkSites
  <2> QED BY <2>1, Remembered DEF VouchedInv, IInv, TypeOK, FilesType, LocalsType, ControlType
<1>1. CASE ProbeNew(p)
  <2>1. /\ Moves(p, "saveUpgraded") /\ mem'[p] = Activated(p) /\ pc[p] = "probeNew"
    BY <1>0, <1>1, MovesOn, LabelsType DEF ProbeNew, WriteSites, LedgerSites
  <2>2. Candidate(p) BY <1>0, <2>1 DEF Remembers, Trying, Chosen
  <2>3. /\ Activated(p).current = cand[p] /\ Activated(p).revoked = mem[p].revoked
        /\ Activated(p).metadata = mem[p].metadata
    BY <1>0 DEF Activated, Ledger
  <2>4. Vouched(p)' BY <1>0, <2>1, <2>2, <2>3 DEF Vouched, Moves, Finishing, Unrevoked, Candidate
  <2> QED BY <1>0, <2>1, <2>4, OthersVouched DEF Moves
<1>2. CASE Audit(p)
  <2>1. CASE pc[p] = "auditDone"
    <3>1. Moves(p, "unlinkDone") /\ mem' = mem
      BY <1>2, <2>1, MovesOn, LabelsType DEF Audit, UnlinkSites, locals
    <3>2. durable' = disk' /\ op' = op BY <1>2, <3>1 DEF Audit, Moves
    <3>3. Vouched(p)' BY <1>0, <2>1, <3>1, <3>2 DEF Vouched, Moves, Finishing, Unrevoked
    <3> QED BY <1>0, <3>1, <3>3, OthersVouched DEF Moves
  <2>2. CASE pc[p] # "auditDone"
    <3>1. Moves(p, "unlinkRec")
      BY <1>2, <2>2, MovesOn, LabelsType DEF Audit, UnlinkSites, AuditSites
    <3> QED BY <1>0, <3>1, OthersVouched DEF Moves, Finishing, Unrevoked
  <2> QED BY <2>1, <2>2
<1>3. CASE Restart(p) \/ ProbeOld(p) \/ ProbeRec(p) \/ ProbeRefused(p) \/ Unlink(p)
  <2>1. \/ Moves(p, "idle") \/ Moves(p, "linkOld")
        \/ \E l \in {"probeNew", "probeOld", "probeRec", "saveFailed", "unlinkFailed",
                     "auditRec", "recover"} : Goto(p, l)
    BY <1>3, MovesOn DEF Restart, ProbeOld, ProbeRec, ProbeRefused, Unlink, UnlinkSites,
       RestartSites
  <2>2. PICK l : Moves(p, l) /\ l \notin Unrevoked \cup Finishing
    BY <2>1, MovesOn DEF Labels, WriteSites, LedgerSites, LinkSites, ProbeSites, AuditSites,
       UnlinkSites, Finishing, Unrevoked
  <2> QED BY <1>0, <2>2, OthersVouched DEF Moves
<1> QED BY <1>1, <1>2, <1>3 DEF Prove

LEMMA NextVouched == IInv /\ MemoryInv /\ VouchedInv /\ [Next]_vars => VouchedInv'
<1> SUFFICES ASSUME IInv, MemoryInv, VouchedInv, [Next]_vars PROVE VouchedInv' OBVIOUS
<1>1. ASSUME NEW p \in Procs, Run(p) PROVE VouchedInv'
  BY <1>1, DecideVouched, WriteVouched, ProveVouched DEF Run
<1>2. ASSUME NEW p \in Procs, Throw(p) \/ Kill(p) PROVE VouchedInv'
  <2>1. pc[p] # "idle" /\ (Moves(p, "idle") \/ Moves(p, "linkOld"))
    BY <1>2, MovesOn DEF Throw, Kill
  <2> QED BY <2>1, OthersVouched DEF Moves, Finishing, Unrevoked
<1>3. ASSUME NEW p \in Procs, NEW o \in {"check", "rollback"}, Start(p, o) PROVE VouchedInv'
  <2>1. \A q \in Procs : pc'[q] \in {"idle", "recover"}
    BY <1>3, ProcAssumption DEF Start, IInv, TypeOK, ControlType, Holder
  <2> QED BY <2>1 DEF VouchedInv, Vouched, Finishing, Unrevoked
<1>4. CASE PowerLoss BY <1>4 DEF PowerLoss, VouchedInv, Vouched, Finishing, Unrevoked
<1>5. CASE \/ Writeback \/ ServiceCrash \/ ServiceStart \/ SetClock \/ OperatorClean
           \/ UNCHANGED vars
  <2>1. /\ pc' = pc /\ mem' = mem /\ op' = op /\ disk'.installed = disk.installed
        /\ durable'.installed \in {durable.installed, disk.installed}
    BY <1>5 DEF Writeback, ServiceCrash, ServiceStart, SetClock, OperatorClean, vars, files,
                control, locals, IInv, TypeOK, FilesType, Disk
  <2> QED BY <2>1 DEF VouchedInv, Vouched
<1>6. CASE Next
  BY <1>1, <1>2, <1>3, <1>4, <1>5, <1>6 DEF Next, Environment
<1> QED BY <1>5, <1>6

\* What main() prints unless it refuses.
Approving(p, status) == [status |-> status, release |-> mem[p].current]

\* Only three steps answer with an approval.
LEMMA Answering ==
  ASSUME IInv, Next, NEW p \in Procs, Approval(p)
  PROVE  \/ FetchOffline(p) /\ answer'[p] = Approving(p, "offline")
         \/ FsyncReturn(p) /\ pc[p] = "saveCurrent" /\ answer'[p] = Approving(p, "current")
         \/ /\ Unlink(p) /\ pc[p] = "unlinkDone"
            /\ answer'[p] = Approving(p, IF op[p] = "check" THEN "upgraded" ELSE "rolledback")
<1> USE DEF Approving
<1>0. answer \in [Procs -> Answers] BY DEF IInv, TypeOK, ControlType
<1>1. ASSUME NEW q \in Procs
      PROVE  /\ \A l : Goto(q, l) => answer'[p] = answer[p]
             /\ \A a : Exit(q, a) => IF p = q THEN answer'[p] = a ELSE answer'[p] = answer[p]
             /\ Raise(q) => answer'[p] \in {answer[p], Refused}
  BY <1>0 DEF Goto, Exit, Raise
<1>2. /\ answer'[p] # answer[p] /\ answer'[p] # Refused /\ answer'[p] # NoAnswer
      /\ \A q \in Procs, s \in {"current", "offline", "upgraded", "rolledback"} :
           Printed(q, s) \in {Refused, Approving(q, s)}
  BY DEF Approval, Refused, NoAnswer, Printed
<1>3. ASSUME NEW q \in Procs, Recover(q) \/ Verify(q) \/ VerifyRefused(q) \/ Stage(q) \/ Choose(q)
      PROVE  FALSE
  BY <1>1, <1>2, <1>3 DEF Recover, RecoverTxn, RecoverNone, RecoverRefused, Verify,
     VerifyRefused, Stage, Prepare, StageManifest, StageRoles, StageRefused, Choose
<1>4. ASSUME NEW q \in Procs, Fetch(q)
      PROVE  FetchOffline(p) /\ answer'[p] = Approving(p, "offline")
  <2>1. FetchOffline(q)
    BY <1>1, <1>2, <1>4 DEF Fetch, FetchRefused, FetchRevoking, FetchCurrent, FetchUpgrade
  <2>2. p = q BY <1>1, <1>2, <2>1 DEF FetchOffline
  <2> QED BY <1>1, <1>2, <2>1, <2>2 DEF FetchOffline
<1>5. ASSUME NEW q \in Procs, Write(q)
      PROVE  FsyncReturn(p) /\ pc[p] = "saveCurrent" /\ answer'[p] = Approving(p, "current")
  <2>1. FsyncReturn(q)
    BY <1>1, <1>2, <1>5 DEF Write, Create, CreateRefused, Rename, Fsync
  <2>2. p = q BY <1>1, <1>2, <2>1 DEF FsyncReturn
  <2> QED BY <1>1, <1>2, <2>1, <2>2 DEF FsyncReturn
<1>6. ASSUME NEW q \in Procs, Prove(q)
      PROVE  /\ Unlink(p) /\ pc[p] = "unlinkDone"
             /\ answer'[p] = Approving(p, IF op[p] = "check" THEN "upgraded" ELSE "rolledback")
  <2>1. Unlink(q)
    BY <1>1, <1>2, <1>6 DEF Prove, Restart, ProbeNew, ProbeOld, ProbeRec, ProbeRefused, Audit
  <2>2. pc[q] = "unlinkDone"
    BY <1>1, <1>2, <2>1 DEF Unlink, UnlinkSites
  <2>3. Exit(q, Printed(q, IF op[q] = "check" THEN "upgraded" ELSE "rolledback"))
    BY <2>1, <2>2 DEF Unlink
  <2>4. p = q BY <1>1, <1>2, <2>3
  <2>5. answer'[p] = Printed(p, IF op[p] = "check" THEN "upgraded" ELSE "rolledback")
    BY <1>1, <2>3, <2>4
  <2> QED BY <1>2, <2>1, <2>2, <2>4, <2>5
<1>7. ASSUME NEW q \in Procs, Throw(q) \/ Kill(q) PROVE FALSE
  BY <1>1, <1>2, <1>7 DEF Throw, Kill
<1>8. ASSUME NEW q \in Procs, NEW o \in {"check", "rollback"}, Start(q, o) PROVE FALSE
  BY <1>0, <1>2, <1>8 DEF Start
<1>9. ASSUME Environment PROVE FALSE
  BY <1>2, <1>9 DEF Environment, PowerLoss, Writeback, ServiceCrash, ServiceStart,
     OperatorClean, SetClock, control
<1>10. ASSUME NEW q \in Procs, Run(q)
       PROVE  Fetch(q) \/ Write(q) \/ Prove(q)
  BY <1>3, <1>10 DEF Run
<1>11. PICK q \in Procs : Fetch(q) \/ Write(q) \/ Prove(q)
  BY <1>7, <1>8, <1>9, <1>10 DEF Next
<1> QED BY <1>4, <1>5, <1>6, <1>11

\* An approval names the release on which every file and the service agree.
LEMMA ApprovalAgreed ==
  ASSUME IInv, MemoryInv, ServedInv, VouchedInv, Next, NEW p \in Procs, Approval(p)
  PROVE  ApprovalSound(p)
<1> DEFINE r == mem[p].current
<1>0. /\ disk \in Disk /\ mem[p] \in Ledger /\ RecoverableDisk /\ Vouched(p)
      /\ op[p] \in {"check", "rollback"}
  BY DEF IInv, TypeOK, FilesType, LocalsType, ControlType, VouchedInv
<1>1. answer'[p].release = r
  <2>1. PICK s : answer'[p] = Approving(p, s) BY Answering
  <2> QED BY <2>1 DEF Approving
<1>2. CASE FetchOffline(p) /\ answer'[p] = Approving(p, "offline")
  <2>1. pc[p] = "fetch" /\ UNCHANGED <<disk, running>>
    BY <1>2 DEF FetchOffline, files, host
  <2>2. Knows(p) /\ Remembers(p) BY <2>1, OnlyHolder, Remembered
  <2>3. disk.journal = NoTxn /\ r = disk.installed.current /\ mem[p] = disk.installed
    BY <2>1, <2>2 DEF Knows, Quiet, Remembers, LedgerSites
  <2>4. disk.pointer = r /\ running \in {NoRelease, disk.pointer}
    BY <1>0, <2>3 DEF RecoverableDisk, DiskOK, ServedInv
  <2>5. r \notin disk.installed.revoked BY <1>0, <2>1, <2>3 DEF Vouched, Unrevoked
  <2> QED BY <1>1, <1>2, <2>1, <2>3, <2>4, <2>5 DEF ApprovalSound, Approving
<1>3. CASE /\ FsyncReturn(p) /\ pc[p] = "saveCurrent"
  <2>1. UNCHANGED <<disk, running>> /\ durable' = disk /\ io[p] = "fsync"
    BY <1>3 DEF FsyncReturn, host
  <2>2. Knows(p) /\ Remembers(p) BY <1>3, OnlyHolder, Remembered
  <2>3. disk.journal = NoTxn /\ r = disk.installed.current /\ mem[p] = disk.installed
    BY <1>3, <2>1, <2>2 DEF Knows, Quiet, Remembers, LedgerSites
  <2>4. disk.pointer = r /\ running \in {NoRelease, disk.pointer}
    BY <1>0, <2>3 DEF RecoverableDisk, DiskOK, ServedInv
  <2>5. r \notin disk.installed.revoked BY <1>0, <1>3, <2>3 DEF Vouched, Unrevoked
  <2> QED BY <1>1, <2>1, <2>3, <2>4, <2>5 DEF ApprovalSound
<1>4. CASE /\ Unlink(p) /\ pc[p] = "unlinkDone"
           /\ answer'[p] = Approving(p, IF op[p] = "check" THEN "upgraded" ELSE "rolledback")
  <2>1. /\ disk'.journal = NoTxn /\ disk'.pointer = disk.pointer
        /\ disk'.installed = disk.installed /\ UNCHANGED <<durable, running>>
    BY <1>0, <1>4 DEF Unlink, Disk, host
  <2>2. Knows(p) /\ Remembers(p) BY <1>4, OnlyHolder, Remembered
  <2>3. mem[p] = disk.installed /\ disk.installed.current = disk.pointer
    BY <1>4, <2>2 DEF Knows, Remembers, LedgerSites
  <2>4. running \in {NoRelease, disk.pointer} BY <1>4 DEF ServedInv, Settled
  <2>5. /\ durable.installed = disk.installed
        /\ \/ r \notin disk.installed.revoked
           \/ op[p] = "check" /\ r = disk.installed.metadata
    BY <1>0, <1>4, <2>3 DEF Vouched, Finishing, Unrevoked
  <2>6. answer'[p].status = IF op[p] = "check" THEN "upgraded" ELSE "rolledback"
    BY <1>4 DEF Approving
  <2> QED BY <1>1, <2>1, <2>3, <2>4, <2>5, <2>6 DEF ApprovalSound
<1> QED BY <1>2, <1>3, <1>4, Answering

LEMMA VouchedHolds == Spec => []VouchedInv
<1>1. Init => VouchedInv BY DEF Init, VouchedInv, Vouched, Finishing, Unrevoked
<1> QED BY <1>1, NextVouched, Invariance, MemoryHolds, PTL DEF Spec

\* Whatever the publisher revokes: an approval names the release that installed.json
\* and the pointer name, with no transaction open, that the service executes unless
\* it is down, and that is not revoked unless check() has just upgraded to it as the
\* newest manifest.
THEOREM ApprovalsAgree == Spec => ApprovalsAreSound
<1>1. IInv /\ MemoryInv /\ ServedInv /\ VouchedInv /\ [Next]_vars =>
        [\A p \in Procs : Approval(p) => ApprovalSound(p)]_vars
  BY ApprovalAgreed
<1> QED BY <1>1, Invariance, MemoryHolds, ServedHolds, VouchedHolds, PTL
    DEF Spec, ApprovalsAreSound
-----------------------------------------------------------------------------
(* How far a power loss goes back *)

\* A step of p that changes neither ledger nor journal, and that leads to a place
\* where both are at stake only from one, or by a sync.
LEMMA LossKept ==
  ASSUME IInv, LossInv, NEW p \in Procs, pc[p] # "idle",
         \A q \in Procs \ {p} : pc'[q] = pc[q],
         disk'.installed = disk.installed, disk'.journal = disk.journal,
         \/ durable' = disk \/ durable' = disk'
         \/ durable' = durable /\ (AtStake(p)' => AtStake(p))
  PROVE  LossInv'
<1>1. \A q \in Procs \ {p} : ~AtStake(q)'
  BY OnlyHolder DEF AtStake, UnlinkSites
<1>2. CASE durable' = disk \/ durable' = disk'
  <2>1. durable'.installed = disk'.installed /\ durable'.journal = disk'.journal BY <1>2
  <2> QED BY <2>1 DEF LossInv, UndoneIsJournalled, Committed
<1>3. CASE durable' = durable /\ (AtStake(p)' => AtStake(p))
  <2>1. UndoneIsJournalled' BY <1>3 DEF LossInv, UndoneIsJournalled
  <2>2. Committed' = Committed BY <1>3 DEF Committed
  <2> QED BY <1>1, <1>3, <2>1, <2>2 DEF LossInv
<1> QED BY <1>2, <1>3

\* A record that names the same current release is written with nothing undone.
LEMMA WriteLoss ==
  ASSUME IInv, MemoryInv, TrailInv, LossInv, NEW p \in Procs, Write(p)
  PROVE  LossInv'
<1> USE DEF WriteSites, LedgerSites, LinkSites
<1>0. /\ pc[p] # "idle" /\ Knows(p) /\ Audited(p) /\ DiskOK(disk)
      /\ disk \in Disk /\ mem[p] \in Ledger /\ io \in [Procs -> {"create", "rename", "fsync"}]
  <2>1. pc[p] # "idle"
    BY DEF Write, Create, CreateRefused, Rename, Fsync, FsyncReturn
  <2> QED BY <2>1, OnlyHolder
      DEF TrailInv, IInv, TypeOK, FilesType, LocalsType, ControlType, RecoverableDisk
<1>1. CASE Create(p)
  <2>1. /\ disk'.installed = disk.installed /\ disk'.journal = disk.journal
        /\ UNCHANGED <<durable, pc>> /\ io[p] = "create"
    BY <1>0, <1>1 DEF Create, Disk
  <2> QED BY <1>0, <2>1, LossKept DEF AtStake
<1>2. CASE CreateRefused(p)
  <2>1. UNCHANGED <<disk, durable>> /\ io[p] = "create" /\ Raise(p)
    BY <1>2 DEF CreateRefused, files
  <2>2. Caught(p) => AtStake(p) BY DEF Caught, AtStake
  <2>3. Moves(p, "idle") \/ (AtStake(p) /\ Moves(p, "linkOld")) BY <2>1, <2>2, MovesOn
  <2> QED BY <1>0, <2>1, <2>3, LossKept DEF Moves, AtStake, UnlinkSites
<1>3. CASE Rename(p)
  <2>1. /\ disk' = Renamed(p) /\ UNCHANGED <<durable, pc>> /\ io[p] = "rename"
        /\ io'[p] = "fsync" /\ Remembers(p)
    BY <1>0, <1>3, Remembered DEF Rename
  <2>2. \A q \in Procs \ {p} : ~AtStake(q)'
    BY <1>0, <2>1, OnlyHolder DEF AtStake, UnlinkSites
  <2>3. CASE pc[p] \in LinkSites
    <3>1. disk'.installed = disk.installed /\ disk'.journal = disk.journal
      BY <1>0, <2>1, <2>3 DEF Renamed, Disk
    <3>2. AtStake(p)' => AtStake(p) BY <2>1, <2>3 DEF AtStake, UnlinkSites
    <3> QED BY <1>0, <2>1, <3>1, <3>2, LossKept
  <2>4. CASE pc[p] \in LedgerSites \ {"saveUpgraded"}
    <3>1. disk'.installed = mem[p] /\ mem[p].current = disk.installed.current
      BY <1>0, <2>1, <2>4 DEF Renamed, Disk, Knows
    <3>2. durable.installed.current = disk.installed.current
      <4>1. CASE pc[p] = "saveFailed"
        BY <2>1, <4>1 DEF LossInv, AtStake, Committed
      <4>2. CASE pc[p] # "saveFailed"
        <5>1. disk.journal = NoTxn BY <1>0, <2>4, <4>2 DEF Knows, Quiet
        <5> QED BY <5>1, <1>0, ReleaseAssumption
            DEF LossInv, UndoneIsJournalled, NoTxn, Disk, Ledger
      <4> QED BY <4>1, <4>2
    <3>3. ~AtStake(p)' BY <2>1, <2>4 DEF AtStake, UnlinkSites
    <3> QED BY <2>1, <2>2, <3>1, <3>2, <3>3 DEF LossInv, UndoneIsJournalled
  <2>5. CASE pc[p] = "saveUpgraded"
    <3>1. /\ disk'.installed = mem[p] /\ disk'.journal = disk.journal
      BY <1>0, <2>1, <2>5 DEF Renamed, Disk
    <3>2. Committed BY <2>1, <2>5 DEF LossInv, AtStake
    <3>3. Pending(p) BY <2>1, <2>5 DEF Remembers
    <3>4. /\ mem[p].previous = disk.installed.current /\ mem[p].revoked = disk.installed.revoked
          /\ mem[p].failed = disk.installed.failed
          /\ \/ disk.installed.current \notin disk.installed.revoked
             \/ mem[p].current = disk.installed.previous
      BY <1>0, <2>5, <3>3 DEF Pending, Upgraded, RolledBack, Disk, Ledger
    <3>5. /\ mem[p].current = disk.journal.candidate /\ disk.journal # NoTxn
          /\ disk.journal \in Journal
      BY <1>0, <2>5 DEF Audited, Knows, Disk
    <3>6. mem[p].current # disk.installed.current =>
            disk.journal = [previous |-> disk.installed.current, candidate |-> mem[p].current]
      BY <1>0, <3>5 DEF DiskOK, Journal
    <3>7. ~AtStake(p)' BY <2>1, <2>5 DEF AtStake, UnlinkSites
    <3> QED BY <2>1, <2>2, <3>1, <3>2, <3>4, <3>6, <3>7
        DEF LossInv, UndoneIsJournalled, Committed
  <2>6. CASE pc[p] = "saveJournal"
    <3>1. disk'.installed = disk.installed /\ disk.journal = NoTxn
      BY <1>0, <2>1, <2>6 DEF Renamed, Disk, Knows
    <3>2. durable.installed.current = disk.installed.current
      BY <3>1, <1>0, ReleaseAssumption DEF LossInv, UndoneIsJournalled, NoTxn, Disk, Ledger
    <3>3. ~AtStake(p)' BY <2>1, <2>6 DEF AtStake, UnlinkSites
    <3> QED BY <2>1, <2>2, <3>1, <3>2, <3>3 DEF LossInv, UndoneIsJournalled
  <2> QED BY <1>3, <2>3, <2>4, <2>5, <2>6 DEF Rename
<1>4. CASE Fsync(p) \/ FsyncReturn(p)
  <2>1. UNCHANGED disk /\ durable' = disk BY <1>4 DEF Fsync, FsyncReturn
  <2>2. \A q \in Procs \ {p} : pc'[q] = pc[q]
    <3>1. CASE Fsync(p)
      <4>1. After(pc[p]) \in Labels /\ Goto(p, After(pc[p]))
        BY <3>1, LabelsType DEF Fsync, After, RestartSites, AuditSites, UnlinkSites
      <4> QED BY <4>1, OthersStay
    <3>2. CASE FsyncReturn(p) BY <3>2, OthersStay DEF FsyncReturn
    <3> QED BY <1>4, <3>1, <3>2
  <2> QED BY <1>0, <2>1, <2>2, LossKept
<1> QED BY <1>1, <1>2, <1>3, <1>4 DEF Write

\* Up to the journal nothing is at stake.
LEMMA DecideLoss ==
  ASSUME IInv, LossInv, NEW p \in Procs,
         Recover(p) \/ Verify(p) \/ VerifyRefused(p) \/ Fetch(p) \/ Stage(p) \/ Choose(p)
  PROVE  LossInv'
<1> USE DEF Recover, RecoverTxn, RecoverNone, RecoverRefused, Verify, VerifyRefused, Fetch,
            FetchOffline, FetchRefused, FetchRevoking, FetchCurrent, FetchUpgrade, Stage,
            Prepare, StageManifest, StageRoles, StageRefused, Choose
<1>1. pc[p] # "idle" /\ disk \in Disk BY DEF IInv, TypeOK, FilesType
<1>2. /\ disk'.installed = disk.installed /\ disk'.journal = disk.journal
      /\ durable' \in {durable, disk'}
  BY <1>1 DEF SetStage, files, Disk
<1>3. \/ \E a : Exit(p, a)
      \/ \E l \in {"linkRec", "verify", "choose", "fetch", "saveRevoked", "saveCurrent",
                   "saveSeen", "stageManifest", "stageRoles", "saveJournal"} : Goto(p, l)
  OBVIOUS
<1>4. \A q \in Procs \ {p} : pc'[q] = pc[q]
  BY <1>3, OthersStay DEF Labels, WriteSites, LedgerSites, LinkSites
<1>5. ~AtStake(p)'
  BY <1>3, OthersStay DEF Labels, WriteSites, LedgerSites, LinkSites, AtStake, UnlinkSites
<1> QED BY <1>1, <1>2, <1>4, <1>5, LossKept

\* The journal goes when the ledger is on the disk: synced by the audit of what was
\* done, or never touched since the journal was.
LEMMA ProveLoss ==
  ASSUME IInv, LossInv, NEW p \in Procs, Prove(p)
  PROVE  LossInv'
<1>0. pc[p] # "idle" /\ disk \in Disk
  BY DEF Prove, Restart, ProbeNew, ProbeOld, ProbeRec, ProbeRefused, Audit, Unlink,
         RestartSites, ProbeSites, AuditSites, UnlinkSites, IInv, TypeOK, FilesType
<1>1. CASE Restart(p) \/ ProbeNew(p) \/ ProbeOld(p) \/ ProbeRec(p) \/ ProbeRefused(p)
  <2>1. UNCHANGED <<disk, durable>>
    BY <1>1 DEF Restart, ProbeNew, ProbeOld, ProbeRec, ProbeRefused, files
  <2>2. \/ Goto(p, "probeRec") \/ Goto(p, "auditRec")
        \/ pc[p] \in {"restartNew", "restartOld", "probeNew", "probeOld"} /\
             \E l \in {"probeNew", "probeOld", "saveUpgraded", "saveFailed", "unlinkFailed"} :
               Goto(p, l)
        \/ Raise(p)
    BY <1>1 DEF Restart, ProbeNew, ProbeOld, ProbeRec, ProbeRefused, RestartSites
  <2>3. Caught(p) => AtStake(p)
    BY <1>1 DEF Caught, AtStake
  <2>4. /\ \A q \in Procs \ {p} : pc'[q] = pc[q]
        /\ AtStake(p)' => AtStake(p)
    <3>1. \/ Moves(p, "probeRec") \/ Moves(p, "auditRec") \/ Moves(p, "idle")
          \/ AtStake(p) /\ \E l \in Labels : Moves(p, l)
      BY <2>2, <2>3, MovesOn
      DEF Labels, WriteSites, LedgerSites, LinkSites, ProbeSites, AuditSites, UnlinkSites, AtStake
    <3> QED BY <3>1 DEF Moves, AtStake, UnlinkSites
  <2> QED BY <1>0, <2>1, <2>4, LossKept
<1>2. CASE Audit(p)
  <2>1. /\ disk'.installed = disk.installed /\ disk'.journal = disk.journal /\ durable' = disk'
    BY <1>0, <1>2 DEF Audit, Disk
  <2>2. \A q \in Procs \ {p} : pc'[q] = pc[q]
    BY <1>2, OthersStay, LabelsType DEF Audit, UnlinkSites
  <2> QED BY <1>0, <2>1, <2>2, LossKept
<1>3. CASE Unlink(p)
  <2>1. disk'.installed = disk.installed /\ durable' = durable
    BY <1>0, <1>3 DEF Unlink, Disk
  <2>2. durable.installed = disk.installed
    BY <1>3 DEF Unlink, LossInv, AtStake, Committed
  <2>3. pc'[p] \in {"recover", "idle"} /\ \A q \in Procs \ {p} : pc'[q] = pc[q]
    BY <1>3, OthersStay, LabelsType DEF Unlink
  <2>4. \A q \in Procs : ~AtStake(q)'
    BY <1>0, <2>3, OnlyHolder DEF AtStake, UnlinkSites
  <2> QED BY <2>1, <2>2, <2>4 DEF LossInv, UndoneIsJournalled
<1> QED BY <1>1, <1>2, <1>3 DEF Prove

\* The handler of a failure starts where the journal is on the disk.
LEMMA EndsLoss ==
  ASSUME IInv, LossInv, NEW p \in Procs,
         Throw(p) \/ Kill(p) \/ \E o \in {"check", "rollback"} : Start(p, o)
  PROVE  LossInv'
<1>1. CASE Throw(p) \/ Kill(p)
  <2>1. /\ pc[p] # "idle" /\ UNCHANGED <<disk, durable>>
        /\ Moves(p, "idle") \/ (Caught(p) /\ Moves(p, "linkOld"))
    BY <1>1, MovesOn DEF Throw, Kill, files
  <2>2. Caught(p) => AtStake(p) BY DEF Caught, AtStake
  <2> QED BY <2>1, <2>2, LossKept DEF Moves, AtStake, UnlinkSites
<1>2. ASSUME NEW o \in {"check", "rollback"}, Start(p, o) PROVE LossInv'
  <2>1. UNCHANGED <<disk, durable>> /\ \A q \in Procs : pc'[q] \in {"idle", "recover"}
    BY <1>2, ProcAssumption DEF Start, files, IInv, TypeOK, ControlType, Holder
  <2>2. \A q \in Procs : ~AtStake(q)' BY <2>1 DEF AtStake, UnlinkSites
  <2> QED BY <2>1, <2>2 DEF LossInv, UndoneIsJournalled
<1> QED BY <1>1, <1>2

LEMMA EnvironmentLoss ==
  ASSUME IInv, LossInv, Environment
  PROVE  LossInv'
<1>1. CASE PowerLoss
  <2>1. disk' = durable' /\ \A q \in Procs : ~AtStake(q)'
    BY <1>1 DEF PowerLoss, AtStake, UnlinkSites
  <2> QED BY <2>1 DEF LossInv, UndoneIsJournalled
<1>2. CASE Writeback
  <2>1. durable' = disk' BY <1>2 DEF Writeback
  <2> QED BY <2>1 DEF LossInv, UndoneIsJournalled, Committed
<1>3. CASE ServiceCrash \/ ServiceStart \/ SetClock \/ OperatorClean
  <2>1. /\ disk'.installed = disk.installed /\ disk'.journal = disk.journal
        /\ UNCHANGED <<durable, pc, io>>
    BY <1>3 DEF ServiceCrash, ServiceStart, SetClock, OperatorClean, IInv, TypeOK, FilesType,
                Disk, files, control
  <2> QED BY <2>1 DEF LossInv, UndoneIsJournalled, Committed, AtStake
<1> QED BY <1>1, <1>2, <1>3 DEF Environment

LEMMA NextLoss == IInv /\ MemoryInv /\ TrailInv /\ LossInv /\ [Next]_vars => LossInv'
<1> SUFFICES ASSUME IInv, MemoryInv, TrailInv, LossInv, [Next]_vars PROVE LossInv' OBVIOUS
<1>1. ASSUME NEW p \in Procs, Run(p) PROVE LossInv'
  BY <1>1, DecideLoss, WriteLoss, ProveLoss DEF Run
<1>2. CASE UNCHANGED vars
  BY <1>2 DEF vars, files, control, LossInv, UndoneIsJournalled, Committed, AtStake
<1>3. CASE Next
  BY <1>1, <1>3, EndsLoss, EnvironmentLoss DEF Next
<1> QED BY <1>2, <1>3

\* While ledger and journal are at stake both are on the disk for good.
LEMMA LossHolds == Spec => []LossInv
<1>1. Init => LossInv
  BY DEF Init, LossInv, UndoneIsJournalled, AtStake, UnlinkSites
<1> QED BY <1>1, NextLoss, Invariance, MemoryHolds, TrailHolds, PTL DEF Spec

\* However processes die and whenever the power fails: an installed release is taken
\* back only with the journal of its activation open and durable, and no revocation
\* or quarantine is taken back with it.
THEOREM UndoneJournalled == Spec => []UndoneIsJournalled
<1>1. LossInv => UndoneIsJournalled BY DEF LossInv
<1> QED BY <1>1, LossHolds, PTL
-----------------------------------------------------------------------------
(* What stays out *)

\* A power loss that changes the installed release takes back an activation.
LEMMA TakesBack ==
  ASSUME LossInv, PowerLoss, disk'.installed.current # disk.installed.current
  PROVE  /\ Undoes /\ durable.installed.revoked = disk.installed.revoked
         /\ \/ disk'.installed.current \notin disk.installed.revoked
            \/ disk.installed.current = durable.installed.previous
BY DEF LossInv, UndoneIsJournalled, PowerLoss, Undoes

\* Whatever the publisher revokes: of the quarantined releases only the operator
\* installs one, or has one taken back.
THEOREM QuarantineKept == Spec => QuarantinedStaysOut
<1>1. IInv /\ MemoryInv /\ LossInv /\ [Next]_vars =>
        [LET new == disk'.installed.current IN
         new # disk.installed.current /\ new \in disk.installed.failed =>
           Undoes \/ (lock' # NoProc /\ op[lock'] = "rollback")]_vars
  BY Installs, TakesBack
<1> QED BY <1>1, Invariance, MemoryHolds, LossHolds, PTL DEF Spec, QuarantinedStaysOut

\* Whatever the publisher revokes: of the releases recorded as revoked only the newest
\* approved manifest is installed, by an upgrade; no rollback and no recovery installs
\* one, and a power loss brings one back only with the journal of the rollback that had
\* left it.
THEOREM RevokedKeptOut == Spec => RevokedStaysOut
<1>1. IInv /\ MemoryInv /\ LossInv /\ [Next]_vars =>
        [LET new == disk'.installed.current IN
         new # disk.installed.current /\ new \in disk.installed.revoked =>
           \/ /\ lock' # NoProc /\ op[lock'] = "check"
              /\ new = disk.installed.metadata /\ new \in Approved \ Revokes[new]
           \/ Undoes /\ disk.installed.current = durable.installed.previous]_vars
  BY Installs, TakesBack
<1> QED BY <1>1, Invariance, MemoryHolds, LossHolds, PTL DEF Spec, RevokedStaysOut

\* An idle process takes no step but to start.
LEMMA Active ==
  ASSUME NEW p \in Procs, Run(p) \/ Throw(p) \/ Kill(p)
  PROVE  pc[p] # "idle"
BY DEF Run, Throw, Kill, Recover, RecoverTxn, RecoverNone, RecoverRefused, Verify,
       VerifyRefused, Fetch, FetchOffline, FetchRefused, FetchRevoking, FetchCurrent,
       FetchUpgrade, Write, Create, CreateRefused, Rename, Fsync, FsyncReturn, Stage, Prepare,
       StageManifest, StageRoles, StageRefused, Choose, Prove, Restart, ProbeNew, ProbeOld,
       ProbeRec, ProbeRefused, Audit, Unlink, WriteSites, LedgerSites, LinkSites,
       RestartSites, ProbeSites, AuditSites, UnlinkSites

\* What a restart starts is revoked only as the newest manifest, in an upgrade, or in
\* the handler of a failed rollback.
LEMMA Restarts ==
  ASSUME IInv, MemoryInv, VouchedInv, NEW p \in Procs, Restart(p),
         running' \in disk.installed.revoked
  PROVE  \/ pc[p] = "restartNew" /\ op[p] = "check" /\ running' = disk.installed.metadata
         \/ pc[p] = "restartOld" /\ op[p] = "rollback"
<1>0. /\ pc[p] \in RestartSites /\ running' = disk.pointer
      /\ Knows(p) /\ Remembers(p) /\ Vouched(p) /\ op[p] \in {"check", "rollback"}
  BY OnlyHolder, Remembered
  DEF Restart, RestartSites, VouchedInv, IInv, TypeOK, ControlType
<1>1. mem[p] = disk.installed BY <1>0 DEF Remembers, LedgerSites, RestartSites
<1>2. CASE pc[p] = "restartNew"
  <2>1. disk.pointer = cand[p] /\ Candidate(p)
    BY <1>0, <1>2 DEF Knows, Remembers, Trying, Chosen
  <2>2. op[p] = "check" /\ cand[p] = disk.installed.metadata
    BY <1>0, <1>1, <2>1 DEF Candidate
  <2> QED BY <1>0, <1>2, <2>1, <2>2
<1>3. CASE pc[p] = "restartRec"
  <2>1. disk.pointer = mem[p].current BY <1>0, <1>3 DEF Knows, Restored
  <2> QED BY <1>0, <1>1, <1>3, <2>1 DEF Vouched, Unrevoked
<1>4. CASE pc[p] = "restartOld"
  <2>1. disk.pointer = mem[p].current /\ Candidate(p)
    BY <1>0, <1>4 DEF Knows, Restored, Remembers, Trying, Chosen
  <2>2. op[p] = "rollback" BY <1>0, <1>1, <2>1 DEF Candidate
  <2> QED BY <1>4, <2>2
<1> QED BY <1>0, <1>2, <1>3, <1>4 DEF RestartSites

\* Whatever the publisher revokes: the manager starts a release recorded as revoked only
\* to prove the upgrade to the newest manifest, or to put it back after an operator's
\* rollback from it has failed; no recovery does.
THEOREM RevokedStarted == Spec => RevokedRestart
<1>1. ASSUME IInv, Next, NEW p \in Procs, pc[p] \in RestartSites, pc'[p] \in ProbeSites
      PROVE  Restart(p)
  <2>1. pc[p] # "idle" /\ pc'[p] # pc[p] /\ pc'[p] \notin {"idle", "linkOld", "recover"}
    BY <1>1 DEF RestartSites, ProbeSites
  <2>2. ASSUME NEW q \in Procs, q # p, Run(q) \/ Throw(q) \/ Kill(q)
        PROVE  FALSE
    <3>1. pc[q] # "idle" BY <2>2, Active
    <3> QED BY <1>1, <2>1, <2>2, <3>1, OnlyHolder
  <2>3. ASSUME NEW q \in Procs, NEW o \in {"check", "rollback"}, Start(q, o) PROVE FALSE
    <3>1. pc[p] = "idle" BY <1>1, <2>3, ProcAssumption DEF Start, IInv, Holder
    <3> QED BY <2>1, <3>1
  <2>4. ~(Throw(p) \/ Kill(p)) BY <1>1, <2>1, OthersStay DEF Throw, Kill
  <2>5. ~Environment
    BY <2>1 DEF Environment, PowerLoss, Writeback, ServiceCrash, ServiceStart, OperatorClean,
                SetClock, control
  <2>6. Run(p) BY <2>2, <2>3, <2>4, <2>5, <1>1 DEF Next
  <2>7. ASSUME Write(p) \/ Recover(p) \/ Verify(p) \/ VerifyRefused(p) \/ Fetch(p) \/ Stage(p)
               \/ Choose(p) PROVE FALSE
    BY <1>1, <2>7 DEF Write, Create, CreateRefused, Rename, Fsync, FsyncReturn, Recover,
       RecoverTxn, RecoverNone, RecoverRefused, Verify, VerifyRefused, Fetch, FetchOffline,
       FetchRefused, FetchRevoking, FetchCurrent, FetchUpgrade, Stage, Prepare,
       StageManifest, StageRoles, StageRefused, Choose, RestartSites, WriteSites,
       LedgerSites, LinkSites
  <2> QED BY <1>1, <2>6, <2>7 DEF Run, Prove, ProbeNew, ProbeOld, ProbeRec, ProbeRefused,
       Audit, Unlink, RestartSites, ProbeSites, AuditSites, UnlinkSites
<1>2. IInv /\ MemoryInv /\ VouchedInv /\ [Next]_vars =>
        [\A p \in Procs :
           pc[p] \in RestartSites /\ pc'[p] \in ProbeSites
             /\ running' \in disk.installed.revoked =>
               \/ /\ pc[p] = "restartNew" /\ op[p] = "check" /\ running' = disk.installed.metadata
               \/ pc[p] = "restartOld" /\ op[p] = "rollback"]_vars
  BY <1>1, Restarts
<1> QED BY <1>2, Invariance, MemoryHolds, VouchedHolds, PTL DEF Spec, RevokedRestart
-----------------------------------------------------------------------------
(* What recover() refuses *)

\* The files that decide about a recovery.
SameTxn == disk'.installed = disk.installed /\ disk'.journal = disk.journal

\* Every step that neither replaces ledger or journal nor loses them leaves them, or
\* makes them durable as they stand.
LEMMA TxnStays ==
  ASSUME IInv, NEW p \in Procs,
         \/ Run(p) /\ ~Unlink(p) /\ ~(Rename(p) /\ pc[p] \in LedgerSites \cup {"saveJournal"})
         \/ Throw(p) \/ Kill(p) \/ \E o \in {"check", "rollback"} : Start(p, o)
  PROVE  SameTxn /\ durable' \in {durable, disk, disk'}
<1> USE DEF SameTxn
<1>0. disk \in Disk BY DEF IInv, TypeOK, FilesType
<1>1. CASE Write(p) /\ ~(Rename(p) /\ pc[p] \in LedgerSites \cup {"saveJournal"})
  <2>1. CASE Create(p) BY <1>0, <2>1 DEF Create, Disk
  <2>2. CASE Rename(p)
    <3>1. pc[p] \in LinkSites BY <1>1, <2>2 DEF Rename, WriteSites
    <3>2. pc[p] \notin LedgerSites BY <3>1 DEF LinkSites, LedgerSites
    <3> QED BY <1>0, <2>2, <3>1, <3>2 DEF Rename, Renamed, Disk
  <2>3. CASE CreateRefused(p) \/ Fsync(p) \/ FsyncReturn(p)
    BY <2>3 DEF CreateRefused, Fsync, FsyncReturn, files
  <2> QED BY <1>1, <2>1, <2>2, <2>3 DEF Write
<1>2. CASE Stage(p)
  BY <1>0, <1>2
  DEF Stage, Prepare, StageManifest, StageRoles, StageRefused, SetStage, Disk
<1>3. CASE Prove(p) /\ ~Unlink(p)
  <2>1. CASE Audit(p) BY <1>0, <2>1 DEF Audit, Disk
  <2>2. CASE Restart(p) \/ ProbeNew(p) \/ ProbeOld(p) \/ ProbeRec(p) \/ ProbeRefused(p)
    BY <2>2 DEF Restart, ProbeNew, ProbeOld, ProbeRec, ProbeRefused, files
  <2> QED BY <1>3, <2>1, <2>2 DEF Prove
<1>4. CASE \/ Recover(p) \/ Verify(p) \/ VerifyRefused(p) \/ Fetch(p) \/ Choose(p)
           \/ Throw(p) \/ Kill(p) \/ \E o \in {"check", "rollback"} : Start(p, o)
  BY <1>4
  DEF Recover, RecoverTxn, RecoverNone, RecoverRefused, Verify, VerifyRefused, Fetch,
      FetchOffline, FetchRefused, FetchRevoking, FetchCurrent, FetchUpgrade, Choose,
      Throw, Kill, Start, files
<1> QED BY <1>1, <1>2, <1>3, <1>4 DEF Run

\* Only a rollback opens a journal that leaves a revoked release, and once its record is
\* written it has left it; only the record of an upgrade enters one.
LEMMA RenameStuck ==
  ASSUME IInv, MemoryInv, TrailInv, StuckInv,
         NEW p \in Procs, Rename(p), pc[p] \in LedgerSites \cup {"saveJournal"}
  PROVE  StuckInv'
<1>0. /\ pc[p] # "idle" /\ io[p] = "rename" /\ disk' = Renamed(p) /\ durable' = durable
      /\ disk \in Disk /\ mem[p] \in Ledger /\ disk.installed \in Ledger
      /\ op[p] \in {"check", "rollback"}
  BY DEF Rename, IInv, TypeOK, FilesType, LocalsType, ControlType, Disk, LedgerSites
<1>1. Remembers(p) /\ Knows(p) BY <1>0, Remembered, OnlyHolder
<1> SUFFICES Settleable(disk') BY <1>0 DEF StuckInv, Settleable, Stuck
<1>2. CASE pc[p] = "saveJournal"
  <2>1. /\ disk'.installed = disk.installed
        /\ disk'.journal = [previous |-> mem[p].current, candidate |-> cand[p]]
    BY <1>0, <1>2 DEF Renamed, Disk, LedgerSites, LinkSites
  <2>2. Candidate(p) /\ mem[p] = disk.installed
    BY <1>1, <1>2 DEF Remembers, Trying, Chosen, LedgerSites
  <2>3. disk.installed.current \in disk.installed.revoked =>
          cand[p] = disk.installed.previous /\ cand[p] \notin disk.installed.revoked
    BY <2>2 DEF Candidate
  <2> QED BY <2>1, <2>2, <2>3 DEF Settleable, Stuck
<1>3. CASE pc[p] \in LedgerSites
  <2>1. disk'.installed = mem[p] /\ disk'.journal = disk.journal /\ Pending(p)
    BY <1>0, <1>1, <1>3 DEF Renamed, Disk, LedgerSites, LinkSites, Remembers
  <2>2. CASE pc[p] \in {"saveRevoked", "saveSeen", "saveCurrent"}
    BY <1>1, <2>1, <2>2 DEF Knows, Quiet, Settleable
  <2>3. CASE pc[p] = "saveFailed"
    <3>1. /\ mem[p].current = disk.installed.current
          /\ mem[p].previous = disk.installed.previous
          /\ mem[p].revoked = disk.installed.revoked
          /\ mem[p].metadata = disk.installed.metadata
      BY <1>0, <2>1, <2>3 DEF Pending, Barred, Ledger
    <3> QED BY <2>1, <3>1 DEF StuckInv, Settleable, Stuck
  <2>4. CASE pc[p] = "saveUpgraded"
    <3>1. CASE RolledBack(p)
      <4>1. mem[p].current \notin mem[p].revoked BY <1>0, <3>1 DEF RolledBack, Ledger
      <4> QED BY <2>1, <4>1 DEF Settleable
    <3>2. CASE Upgraded(p)
      <4>1. /\ mem[p].current = mem[p].metadata /\ mem[p].previous = disk.installed.current
            /\ mem[p].current # disk.installed.current
        BY <1>0, <3>2 DEF Upgraded, Ledger
      <4>2. /\ mem[p].current = disk.journal.candidate /\ disk.journal # NoTxn
            /\ disk.journal \in Journal /\ DiskOK(disk)
        BY <1>0, <1>1, <2>4, OnlyHolder
        DEF TrailInv, Audited, Knows, Disk, IInv, RecoverableDisk
      <4>3. disk.journal = [previous |-> mem[p].previous, candidate |-> mem[p].current]
        BY <4>1, <4>2 DEF DiskOK, Journal
      <4> QED BY <2>1, <4>1, <4>3 DEF Settleable, Stuck
    <3> QED BY <2>1, <2>4, <3>1, <3>2 DEF Pending
  <2> QED BY <1>3, <2>2, <2>3, <2>4 DEF LedgerSites
<1> QED BY <1>2, <1>3

LEMMA NextStuck == IInv /\ MemoryInv /\ TrailInv /\ StuckInv /\ [Next]_vars => StuckInv'
<1> SUFFICES ASSUME IInv, MemoryInv, TrailInv, StuckInv, [Next]_vars PROVE StuckInv'
  OBVIOUS
<1>0. disk \in Disk BY DEF IInv, TypeOK, FilesType
<1>1. ASSUME SameTxn, durable' \in {durable, disk, disk'} PROVE StuckInv'
  BY <1>1 DEF SameTxn, StuckInv, Settleable, Stuck
<1>2. ASSUME NEW p \in Procs, Run(p) PROVE StuckInv'
  <2>1. CASE Unlink(p)
    <3>1. disk'.journal = NoTxn /\ durable' = durable BY <1>0, <2>1 DEF Unlink, Disk
    <3> QED BY <3>1 DEF StuckInv, Settleable, Stuck
  <2>2. CASE Rename(p) /\ pc[p] \in LedgerSites \cup {"saveJournal"}
    BY <2>2, RenameStuck
  <2> QED BY <1>1, <1>2, <2>1, <2>2, TxnStays
<1>3. ASSUME NEW p \in Procs,
             Throw(p) \/ Kill(p) \/ \E o \in {"check", "rollback"} : Start(p, o)
      PROVE  StuckInv'
  BY <1>1, <1>3, TxnStays
<1>4. CASE PowerLoss
  BY <1>4 DEF PowerLoss, StuckInv, Settleable, Stuck
<1>5. CASE Writeback \/ ServiceCrash \/ ServiceStart \/ SetClock \/ OperatorClean
           \/ UNCHANGED vars
  <2>1. SameTxn /\ durable' \in {durable, disk, disk'}
    BY <1>0, <1>5 DEF Writeback, ServiceCrash, ServiceStart, SetClock, OperatorClean, vars,
                      files, Disk, SameTxn
  <2> QED BY <1>1, <2>1
<1>6. CASE Next
  BY <1>2, <1>3, <1>4, <1>5, <1>6 DEF Next, Environment
<1> QED BY <1>5, <1>6

\* Whatever the publisher revokes: what recover() checks itself (ledger, journal, pointer
\* and revocations) makes it refuse in two cases only, an interrupted rollback from a
\* revoked release and the unfinished end of an upgrade to a revoked newest manifest.
THEOREM RefusedOnlyThere == Spec => RefusalIsStuck
<1>1. Init => StuckInv
  BY DEF Init, FirstDisk, StuckInv, Settleable
<1>2. IInv /\ MemoryInv /\ TrailInv /\ StuckInv /\ [Next]_vars => StuckInv'
  BY NextStuck
<1>3. ASSUME IInv, MemoryInv, StuckInv, NEW p \in Procs, RecoverRefused(p)
      PROVE  Stuck(disk)
  <2>1. pc[p] = "recover" /\ mem[p] = disk.installed
    BY <1>3, Remembered DEF RecoverRefused, Remembers, LedgerSites
  <2>2. DiskOK(disk) BY <1>3 DEF IInv, RecoverableDisk
  <2>3. disk.journal # NoTxn /\ ~Recoverable(p)
    BY <1>3, <2>1, <2>2 DEF RecoverRefused, DiskOK
  <2>4. disk.installed.current \in disk.installed.revoked
    BY <2>1, <2>2, <2>3 DEF Recoverable, DiskOK
  <2> QED BY <1>3, <2>3, <2>4 DEF StuckInv, Settleable
<1>4. IInv /\ MemoryInv /\ StuckInv /\ [Next]_vars =>
        [\A p \in Procs : RecoverRefused(p) => Stuck(disk)]_vars
  BY <1>3
<1> QED BY <1>1, <1>2, <1>4, Invariance, MemoryHolds, TrailHolds, PTL
    DEF Spec, RefusalIsStuck
=============================================================================

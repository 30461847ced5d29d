---------------------------- MODULE AuditTrailProofs ----------------------------
(***************************************************************************)
(* The updater's audit trail accounts for every activation.  A transaction *)
(* ends with unlink(), so ActivationsAudited needs to know what the trail  *)
(* says while the journal is open (TrailOK) and what the process that      *)
(* holds update.lock has written by then (Audited); IInv supplies what the *)
(* holder knows of the ledger and the journal.                             *)
(***************************************************************************)
EXTENDS ReleaseManagerProofs

\* The files a trail is judged by.
SameTrail == /\ disk'.installed.current = disk.installed.current
             /\ disk'.journal = disk.journal /\ disk'.trail = disk.trail

\* So a step of p leaves the others with nothing to have written.
LEMMA OthersAudited ==
  ASSUME IInv, NEW p \in Procs, pc[p] # "idle",
         \A q \in Procs \ {p} : pc'[q] = pc[q], Audited(p)'
  PROVE  \A q \in Procs : Audited(q)'
BY OnlyHolder DEF Audited, UnlinkSites

\* A step that changes neither ledger, journal nor trail and does not lead to one
\* of the steps that rest on them.
LEMMA PlainStep ==
  ASSUME IInv, TrailInv, NEW p \in Procs, pc[p] # "idle",
         \A q \in Procs \ {p} : pc'[q] = pc[q],
         pc'[p] \notin {"saveUpgraded", "auditDone"} \cup UnlinkSites,
         SameTrail, durable' \in {durable, disk, disk'}
  PROVE  TrailInv'
<1>1. Audited(p)' BY DEF Audited
<1>2. TrailOK(disk') BY DEF TrailInv, TrailOK, SameTrail
<1>3. TrailOK(durable') BY <1>2 DEF TrailInv
<1> QED BY <1>1, <1>2, <1>3, OthersAudited DEF TrailInv

\* atomic() and link(): the journal starts from the release the trail names, and
\* the ledger moves to the candidate of the journal.
LEMMA WriteTrail ==
  ASSUME IInv, TrailInv, NEW p \in Procs, Write(p)
  PROVE  TrailInv'
<1> USE DEF WriteSites, LedgerSites, LinkSites, UnlinkSites
<1>0. /\ pc[p] # "idle" /\ Knows(p) /\ Audited(p) /\ TrailOK(disk) /\ TrailOK(durable)
      /\ disk \in Disk /\ mem[p] \in Ledger
  <2>1. pc[p] # "idle"
    BY DEF Write, Create, CreateRefused, Rename, Fsync, FsyncReturn
  <2> QED BY <2>1, OnlyHolder DEF TrailInv, IInv, TypeOK, FilesType, LocalsType
<1>1. CASE Create(p)
  <2>1. SameTrail /\ UNCHANGED <<durable, mem, pc>>
    BY <1>0, <1>1 DEF Create, SameTrail, Disk, locals
  <2>2. Audited(p)' BY <1>0, <2>1 DEF Audited, SameTrail
  <2>3. TrailOK(disk') BY <1>0, <2>1 DEF TrailOK, SameTrail
  <2> QED BY <1>0, <2>1, <2>2, <2>3, OthersAudited DEF TrailInv
<1>2. CASE CreateRefused(p)
  BY <1>0, <1>2, OthersStay, PlainStep DEF CreateRefused, files, SameTrail
<1>3. CASE Rename(p)
  <2>1. disk' = Renamed(p) /\ UNCHANGED <<durable, mem, cand, pc>>
    BY <1>3 DEF Rename, locals
  <2>2. CASE pc[p] = "saveUpgraded"
    <3>1. /\ disk'.installed = mem[p] /\ disk'.journal = disk.journal
          /\ disk'.trail = disk.trail
      BY <1>0, <2>1, <2>2 DEF Renamed, Disk
    <3>2. mem[p].current = disk.journal.candidate /\ disk.journal # NoTxn
      BY <1>0, <2>2 DEF Audited, Knows
    <3>3. TrailOK(disk') BY <1>0, <3>1, <3>2 DEF TrailOK
    <3>4. Audited(p)' BY <2>1, <2>2, <3>1, <3>2 DEF Audited
    <3> QED BY <1>0, <2>1, <3>3, <3>4, OthersAudited DEF TrailInv
  <2>3. CASE pc[p] = "saveJournal"
    <3>1. /\ disk'.installed = disk.installed /\ disk'.trail = disk.trail
          /\ disk'.journal = [previous |-> mem[p].current, candidate |-> cand[p]]
      BY <1>0, <2>1, <2>3 DEF Renamed, Disk
    <3>2. disk.journal = NoTxn /\ mem[p].current = disk.installed.current
      BY <1>0, <1>3, <2>3 DEF Knows, Rename
    <3>3. disk'.journal # NoTxn BY <1>0, <3>1, ReleaseAssumption DEF NoTxn, Ledger
    <3>4. TrailOK(disk') BY <1>0, <3>1, <3>2, <3>3 DEF TrailOK
    <3>5. Audited(p)' BY <2>1, <2>3 DEF Audited
    <3> QED BY <1>0, <2>1, <3>4, <3>5, OthersAudited DEF TrailInv
  <2>4. CASE pc[p] \notin {"saveUpgraded", "saveJournal"}
    <3>1. pc[p] \in LedgerSites => mem[p].current = disk.installed.current
      BY <1>0, <2>4 DEF Knows
    <3>2. SameTrail
      BY <1>0, <1>3, <2>1, <2>4, <3>1 DEF Rename, Renamed, SameTrail, Disk
    <3> QED BY <1>0, <1>3, <2>1, <2>4, <3>2, PlainStep DEF Rename
  <2> QED BY <2>2, <2>3, <2>4
<1>4. CASE Fsync(p)
  <2>1. /\ After(pc[p]) \in Labels /\ Goto(p, After(pc[p]))
        /\ UNCHANGED <<disk, mem>> /\ durable' = disk
    BY <1>4, LabelsType DEF Fsync, After, RestartSites, AuditSites, locals
  <2>2. pc'[p] = After(pc[p]) /\ \A q \in Procs \ {p} : pc'[q] = pc[q]
    BY <2>1, OthersStay
  <2>3. CASE pc[p] = "saveUpgraded"
    <3>1. pc'[p] = "auditDone" BY <2>2, <2>3 DEF After
    <3>2. mem[p].current = disk.journal.candidate /\ mem[p].current = disk.installed.current
      BY <1>0, <1>4, <2>3 DEF Audited, Knows, Fsync
    <3>3. Audited(p)' BY <2>1, <3>1, <3>2 DEF Audited
    <3> QED BY <1>0, <2>1, <2>2, <3>3, OthersAudited DEF TrailInv
  <2>4. CASE pc[p] = "saveFailed"
    <3>1. pc'[p] = "unlinkFailed" BY <2>2, <2>4 DEF After
    <3>2. disk.journal.previous = disk.installed.current /\ disk.journal # NoTxn
      BY <1>0, <2>4, ReleaseAssumption DEF Knows, Open, NoTxn, Ledger
    <3>3. disk.trail = disk.installed.current BY <1>0, <3>2 DEF TrailOK
    <3>4. Audited(p)' BY <2>1, <3>1, <3>3 DEF Audited
    <3> QED BY <1>0, <2>1, <2>2, <3>4, OthersAudited DEF TrailInv
  <2>5. CASE pc[p] \notin {"saveUpgraded", "saveFailed"}
    <3>1. After(pc[p]) \in {"prepare", "linkNew"} \cup RestartSites
      BY <1>4, <2>5 DEF Fsync, After, RestartSites
    <3> QED BY <1>0, <2>1, <2>2, <3>1, PlainStep DEF RestartSites, SameTrail
  <2> QED BY <2>3, <2>4, <2>5
<1>5. CASE FsyncReturn(p)
  BY <1>0, <1>5, OthersStay, PlainStep DEF FsyncReturn, SameTrail
<1> QED BY <1>1, <1>2, <1>3, <1>4, <1>5 DEF Write

\* Nothing before the transaction and no recovery decision touches the trail.
LEMMA DecideTrail ==
  ASSUME IInv, TrailInv, NEW p \in Procs,
         Recover(p) \/ Verify(p) \/ VerifyRefused(p) \/ Fetch(p) \/ Choose(p)
  PROVE  TrailInv'
<1>1. pc[p] # "idle" /\ UNCHANGED files
  BY DEF Recover, RecoverTxn, RecoverNone, RecoverRefused, Verify, VerifyRefused, Fetch,
         FetchOffline, FetchRefused, FetchRevoking, FetchCurrent, FetchUpgrade, Choose
<1>2. \/ \E a : Exit(p, a)
      \/ \E l \in {"linkRec", "verify", "choose", "fetch", "saveRevoked", "saveCurrent",
                   "saveSeen", "saveJournal"} : Goto(p, l)
  BY DEF Recover, RecoverTxn, RecoverNone, RecoverRefused, Verify, VerifyRefused, Fetch,
         FetchOffline, FetchRefused, FetchRevoking, FetchCurrent, FetchUpgrade, Choose
<1>3. /\ pc'[p] \notin {"saveUpgraded", "auditDone"} \cup UnlinkSites
      /\ \A q \in Procs \ {p} : pc'[q] = pc[q]
  BY <1>2, OthersStay DEF Labels, WriteSites, LedgerSites, LinkSites, UnlinkSites
<1> QED BY <1>1, <1>3, PlainStep DEF files, SameTrail

\* Nor does prepare().
LEMMA StageTrail ==
  ASSUME IInv, TrailInv, NEW p \in Procs, Stage(p)
  PROVE  TrailInv'
<1>1. pc[p] # "idle" /\ disk \in Disk
  BY DEF Stage, Prepare, StageManifest, StageRoles, StageRefused, IInv, TypeOK, FilesType
<1>2. SameTrail /\ durable' \in {durable, disk'}
  BY <1>1
  DEF Stage, Prepare, StageManifest, StageRoles, StageRefused, SetStage, SameTrail, Disk
<1>3. \/ \E a : Exit(p, a)
      \/ \E l \in {"stageManifest", "stageRoles", "saveJournal"} : Goto(p, l)
  BY DEF Stage, Prepare, StageManifest, StageRoles, StageRefused
<1>4. /\ pc'[p] \notin {"saveUpgraded", "auditDone"} \cup UnlinkSites
      /\ \A q \in Procs \ {p} : pc'[q] = pc[q]
  BY <1>3, OthersStay DEF Labels, WriteSites, UnlinkSites
<1> QED BY <1>1, <1>2, <1>4, PlainStep

\* The probe decides which release the record to come will name, the record is
\* written, and only then is the journal removed.
LEMMA ProveTrail ==
  ASSUME IInv, TrailInv, NEW p \in Procs, Prove(p)
  PROVE  TrailInv'
<1> USE DEF UnlinkSites
<1>0. /\ pc[p] # "idle" /\ Knows(p) /\ Audited(p) /\ TrailOK(disk) /\ TrailOK(durable)
      /\ DiskOK(disk) /\ disk \in Disk
      /\ mem \in [Procs -> Ledger] /\ cand \in [Procs -> Releases \cup {NoRelease}]
  <2>1. pc[p] # "idle"
    BY DEF Prove, Restart, ProbeNew, ProbeOld, ProbeRec, ProbeRefused, Audit, Unlink,
           RestartSites, ProbeSites, AuditSites
  <2> QED BY <2>1, OnlyHolder
      DEF TrailInv, IInv, TypeOK, FilesType, LocalsType, RecoverableDisk
<1>1. CASE Restart(p)
  <2>1. PICK l \in ProbeSites : Goto(p, l) BY <1>1 DEF Restart, ProbeSites
  <2> QED BY <1>0, <1>1, <2>1, LabelsType, OthersStay, PlainStep
      DEF Restart, files, SameTrail, ProbeSites
<1>2. CASE ProbeNew(p)
  <2>1. /\ pc'[p] = "saveUpgraded" /\ UNCHANGED <<disk, durable>>
        /\ \A q \in Procs \ {p} : pc'[q] = pc[q]
    BY <1>2, OthersStay, LabelsType DEF ProbeNew, files, WriteSites, LedgerSites
  <2>2. mem'[p].current = cand[p] BY <1>0, <1>2 DEF ProbeNew, Activated, Ledger
  <2>3. disk.journal.candidate = cand[p] BY <1>0, <1>2 DEF ProbeNew, Knows, Open
  <2>4. Audited(p)' BY <2>1, <2>2, <2>3 DEF Audited
  <2> QED BY <1>0, <2>1, <2>4, OthersAudited DEF TrailInv
<1>3. CASE ProbeOld(p)
  <2>1. PICK l \in {"saveFailed", "unlinkFailed"} : Goto(p, l) BY <1>3 DEF ProbeOld
  <2>2. /\ pc'[p] = l /\ UNCHANGED <<disk, durable>>
        /\ \A q \in Procs \ {p} : pc'[q] = pc[q]
    BY <1>3, <2>1, OthersStay, LabelsType DEF ProbeOld, files, WriteSites, LedgerSites
  <2>3. disk.journal.previous = disk.installed.current /\ disk.journal # NoTxn
    BY <1>0, <1>3, ReleaseAssumption DEF ProbeOld, Knows, Open, NoTxn, Ledger
  <2>4. disk.trail = disk.installed.current BY <1>0, <2>3 DEF TrailOK
  <2>5. Audited(p)' BY <2>2, <2>4 DEF Audited
  <2> QED BY <1>0, <2>2, <2>5, OthersAudited DEF TrailInv
<1>4. CASE ProbeRec(p)
  BY <1>0, <1>4, LabelsType, OthersStay, PlainStep DEF ProbeRec, files, SameTrail, AuditSites
<1>5. CASE ProbeRefused(p)
  BY <1>0, <1>5, OthersStay, PlainStep DEF ProbeRefused, files, SameTrail
<1>6. CASE Audit(p)
  <2>1. /\ disk'.installed = disk.installed /\ disk'.journal = disk.journal
        /\ disk'.trail = IF disk.journal.candidate = mem[p].current
                         THEN mem[p].current ELSE disk.trail
        /\ durable' = disk'
    BY <1>0, <1>6 DEF Audit, Disk
  <2>2. pc'[p] \in {"unlinkDone", "unlinkRec"} /\ \A q \in Procs \ {p} : pc'[q] = pc[q]
    BY <1>6, OthersStay, LabelsType DEF Audit
  <2>3. mem[p].current = disk.installed.current /\ disk.journal # NoTxn
    BY <1>0, <1>6 DEF Audit, AuditSites, Audited, Knows, Recovering
  <2>4. disk'.trail = disk'.installed.current
    BY <1>0, <2>1, <2>3 DEF DiskOK, TrailOK
  <2>5. TrailOK(disk')
    <3>1. disk.journal.candidate = disk.installed.current
          \/ disk.journal.previous = disk.installed.current
      BY <1>0, <2>3 DEF DiskOK
    <3> QED BY <2>1, <2>3, <2>4, <3>1 DEF TrailOK
  <2>6. Audited(p)' BY <2>2, <2>4 DEF Audited
  <2> QED BY <1>0, <2>1, <2>2, <2>5, <2>6, OthersAudited DEF TrailInv
<1>7. CASE Unlink(p)
  <2>1. /\ disk'.installed = disk.installed /\ disk'.journal = NoTxn
        /\ disk'.trail = disk.trail /\ durable' = durable
    BY <1>0, <1>7 DEF Unlink, Disk
  <2>2. disk.trail = disk.installed.current BY <1>0, <1>7 DEF Unlink, Audited
  <2>3. TrailOK(disk') BY <2>1, <2>2 DEF TrailOK
  <2>4. pc'[p] \in {"recover", "idle"} /\ \A q \in Procs \ {p} : pc'[q] = pc[q]
    BY <1>7, OthersStay, LabelsType DEF Unlink
  <2>5. Audited(p)' BY <2>4 DEF Audited
  <2> QED BY <1>0, <2>1, <2>3, <2>4, <2>5, OthersAudited DEF TrailInv
<1> QED BY <1>1, <1>2, <1>3, <1>4, <1>5, <1>6, <1>7 DEF Prove

\* An invocation starts, fails or dies without touching the files.
LEMMA EndsTrail ==
  ASSUME IInv, TrailInv, NEW p \in Procs,
         Throw(p) \/ Kill(p) \/ \E o \in {"check", "rollback"} : Start(p, o)
  PROVE  TrailInv'
<1>1. CASE Throw(p) \/ Kill(p)
  BY <1>1, OthersStay, PlainStep DEF Throw, Kill, files, SameTrail, UnlinkSites
<1>2. ASSUME NEW o \in {"check", "rollback"}, Start(p, o) PROVE TrailInv'
  <2>1. UNCHANGED <<disk, durable>> /\ \A q \in Procs : pc'[q] \in {pc[q], "recover"}
        /\ \A c \in Procs : pc[c] = "idle"
    BY <1>2, ProcAssumption DEF Start, files, IInv, TypeOK, ControlType, Holder
  <2> QED BY <2>1 DEF TrailInv, Audited, UnlinkSites
<1> QED BY <1>1, <1>2

\* A power loss goes back to files whose trail is in order, with nobody active.
LEMMA EnvironmentTrail ==
  ASSUME IInv, TrailInv, Environment
  PROVE  TrailInv'
<1>1. CASE PowerLoss
  BY <1>1 DEF PowerLoss, TrailInv, Audited, UnlinkSites
<1>2. CASE Writeback
  BY <1>2 DEF Writeback, TrailInv, Audited, locals, control
<1>3. CASE ServiceCrash \/ ServiceStart \/ SetClock
  BY <1>3 DEF ServiceCrash, ServiceStart, SetClock, TrailInv, Audited, files, locals, control
<1>4. CASE OperatorClean
  <2>1. SameTrail /\ disk'.installed = disk.installed
        /\ UNCHANGED <<durable, mem, pc>>
    BY <1>4 DEF OperatorClean, SameTrail, IInv, TypeOK, FilesType, Disk, locals, control
  <2> QED BY <2>1 DEF SameTrail, TrailInv, TrailOK, Audited
<1> QED BY <1>1, <1>2, <1>3, <1>4 DEF Environment

\* Every step of the updater keeps the trail in order.
LEMMA NextTrail == IInv /\ TrailInv /\ [Next]_vars => TrailInv'
<1> SUFFICES ASSUME IInv, TrailInv, [Next]_vars PROVE TrailInv' OBVIOUS
<1>1. ASSUME NEW p \in Procs, Run(p) PROVE TrailInv'
  BY <1>1, DecideTrail, WriteTrail, StageTrail, ProveTrail DEF Run
<1>2. CASE UNCHANGED vars
  BY <1>2 DEF vars, files, locals, control, TrailInv, Audited
<1>3. CASE Next
  BY <1>1, <1>3, EndsTrail, EnvironmentTrail DEF Next
<1> QED BY <1>2, <1>3

\* The host is handed over with a trail that names the first release.
LEMMA InitTrail == Init => TrailInv
BY DEF Init, FirstDisk, Blank, TrailInv, TrailOK, Audited, UnlinkSites

\* The trail and the holder's part in it are in order at every step.
LEMMA TrailHolds == Spec => []TrailInv
BY InitTrail, NextTrail, Invariance, PTL DEF Spec

\* With the journal closed, also after a crash or a power loss at any
\* instruction, the last activation in updates.jsonl is the release the ledger
\* names: recovery never leaves an upgrade or rollback unrecorded.
THEOREM AuditTrail == Spec => []ActivationsAudited
<1>1. TrailInv => ActivationsAudited
  BY DEF TrailInv, TrailOK, ActivationsAudited, Accounted
<1> QED BY <1>1, TrailHolds, PTL
=============================================================================

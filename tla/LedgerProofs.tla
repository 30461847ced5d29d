------------------------------ MODULE LedgerProofs ------------------------------
(***************************************************************************)
(* The updater implements ReleaseLedger: every replacement of              *)
(* installed.json is one of its moves.  A rename writes what the process   *)
(* computed from the file it loaded before, so the proof needs that the    *)
(* holder of update.lock still has in memory what is on the disk, or one   *)
(* move from it (MemoryInv).  Lost updates, mixed leases and equivocation  *)
(* are then excluded once, for the moves.                                  *)
(***************************************************************************)
EXTENDS ReleaseManagerProofs

\* A process that is not idle moves on to l and no other process moves.
Moves(p, l) == /\ pc'[p] = l /\ io'[p] = "create" /\ op' = op
               /\ \A q \in Procs \ {p} : pc'[q] = pc[q]

\* Goto(), an exception and the end of a process, as this proof sees them.
LEMMA MovesOn ==
  ASSUME IInv, NEW p \in Procs
  PROVE  /\ \A l \in Labels : Goto(p, l) => Moves(p, l)
         /\ \A a : Exit(p, a) => Moves(p, "idle")
         /\ Raise(p) => \/ Caught(p) /\ Moves(p, "linkOld") /\ UNCHANGED locals
                        \/ Moves(p, "idle")
<1>1. "linkOld" \in Labels BY DEF Labels, WriteSites, LinkSites
<1> QED BY <1>1 DEF Moves, IInv, TypeOK, ControlType, Goto, Exit, Raise

\* The other processes are idle and stay so.
LEMMA OthersRemember ==
  ASSUME IInv, NEW p \in Procs, pc[p] # "idle",
         \A q \in Procs \ {p} : pc'[q] = pc[q],
         pc'[p] = "idle" \/ Remembers(p)'
  PROVE  MemoryInv'
BY OnlyHolder DEF MemoryInv

\* A step that leaves memory and ledger alone and does not lead to a record.
LEMMA PlainMove ==
  ASSUME IInv, MemoryInv, NEW p \in Procs, pc[p] # "idle", NEW l, Moves(p, l),
         l = "idle" \/
         /\ UNCHANGED <<mem, cand, now>> /\ disk'.installed = disk.installed
         /\ mem[p] = disk.installed
         /\ l \notin LedgerSites \cup {"fetch"} /\ (l \in Trying => Candidate(p))
         /\ l = "verify" => op[p] = "check"
         /\ l = "choose" => op[p] = "rollback"
  PROVE  MemoryInv'
<1>1. CASE l = "idle"
  BY <1>1, OthersRemember DEF Moves
<1>2. CASE l # "idle"
  <2>1. Candidate(p)' = Candidate(p) BY <1>2 DEF Candidate, Moves
  <2>2. Remembers(p)' BY <1>2, <2>1 DEF Remembers, Moves, LedgerSites
  <2> QED BY <2>2, OthersRemember DEF Moves
<1> QED BY <1>1, <1>2

\* The candidate of an invocation in a transaction, and its memory.
LEMMA Remembered ==
  ASSUME MemoryInv, NEW p \in Procs, pc[p] # "idle"
  PROVE  Remembers(p)
BY DEF MemoryInv

\* A write keeps the memory; from the rename of a record on, it is the ledger.
LEMMA WriteMemory ==
  ASSUME IInv, MemoryInv, NEW p \in Procs, Write(p)
  PROVE  MemoryInv'
<1> USE DEF WriteSites, LedgerSites, LinkSites
<1>0. pc[p] # "idle" /\ Remembers(p) /\ disk \in Disk
  <2>1. pc[p] # "idle"
    BY DEF Write, Create, CreateRefused, Rename, Fsync, FsyncReturn
  <2> QED BY <2>1, Remembered DEF IInv, TypeOK, FilesType
<1>1. CASE Create(p)
  <2>1. /\ disk'.installed = disk.installed /\ UNCHANGED <<mem, cand, now, pc, op>>
        /\ io[p] = "create" /\ io'[p] = "rename"
    BY <1>0, <1>1 DEF Create, Disk, locals, IInv, TypeOK, ControlType
  <2>2. Candidate(p)' = Candidate(p) BY <2>1 DEF Candidate
  <2>3. Pending(p)' = Pending(p)
    BY <2>1 DEF Pending, Noted, Renewed, Barred, Upgraded, RolledBack,
                Abstract!Fresh, Abstract!Saw
  <2>4. Remembers(p)' BY <1>0, <2>1, <2>2, <2>3 DEF Remembers
  <2> QED BY <1>0, <2>1, <2>4, OthersRemember
<1>2. CASE CreateRefused(p)
  <2>1. CASE Moves(p, "idle") BY <1>0, <2>1, PlainMove
  <2>2. CASE Caught(p) /\ Moves(p, "linkOld") /\ UNCHANGED locals
    <3>1. pc[p] = "linkNew" BY <1>2, <2>2 DEF Caught, CreateRefused
    <3>2. mem[p] = disk.installed /\ Candidate(p)
      BY <1>0, <3>1 DEF Remembers, Trying, Chosen
    <3> QED BY <1>0, <1>2, <2>2, <3>2, PlainMove DEF CreateRefused, files, locals
  <2> QED BY <1>2, <2>1, <2>2, MovesOn DEF CreateRefused
<1>3. CASE Rename(p)
  <2>1. /\ disk' = Renamed(p) /\ UNCHANGED <<mem, cand, now, pc, op>>
        /\ io[p] = "rename" /\ io'[p] = "fsync"
    BY <1>3 DEF Rename, locals, IInv, TypeOK, ControlType
  <2>2. disk'.installed = mem[p]
    <3>1. CASE pc[p] \in LedgerSites
      BY <1>0, <2>1, <3>1 DEF Renamed, Disk
    <3>2. CASE pc[p] \notin LedgerSites
      BY <1>0, <1>3, <2>1, <3>2 DEF Remembers, Renamed, Rename, Disk
    <3> QED BY <3>1, <3>2
  <2>3. Candidate(p)' = Candidate(p) BY <2>1 DEF Candidate
  <2>4. Remembers(p)' BY <1>0, <2>1, <2>2, <2>3 DEF Remembers
  <2> QED BY <1>0, <2>1, <2>4, OthersRemember
<1>4. CASE Fsync(p)
  <2>1. /\ After(pc[p]) \in Labels /\ Goto(p, After(pc[p]))
        /\ UNCHANGED <<disk, mem, cand, now>>
    BY <1>4, LabelsType DEF Fsync, After, RestartSites, AuditSites, UnlinkSites, locals
  <2>2. mem[p] = disk.installed /\ (pc[p] \in Trying => Candidate(p))
    BY <1>0, <1>4 DEF Remembers, Fsync
  <2>3. /\ After(pc[p]) \notin LedgerSites \cup {"fetch"}
        /\ After(pc[p]) \in Trying => pc[p] \in Trying
        /\ After(pc[p]) \notin {"verify", "choose"}
    BY <1>4 DEF Fsync, After, Trying, Chosen
  <2> QED BY <1>0, <2>1, <2>2, <2>3, MovesOn, PlainMove
<1>5. CASE FsyncReturn(p)
  BY <1>0, <1>5, MovesOn, PlainMove DEF FsyncReturn
<1> QED BY <1>1, <1>2, <1>3, <1>4, <1>5 DEF Write

\* check() computes its records from the ledger it loaded and what it accepted.
LEMMA FetchMemory ==
  ASSUME IInv, MemoryInv, NEW p \in Procs, Fetch(p)
  PROVE  MemoryInv'
<1>0. /\ pc[p] = "fetch" /\ Remembers(p) /\ mem[p] \in Ledger
      /\ mem \in [Procs -> Ledger] /\ cand \in [Procs -> Releases \cup {NoRelease}]
  <2>1. pc[p] = "fetch"
    BY DEF Fetch, FetchOffline, FetchRefused, FetchRevoking, FetchCurrent, FetchUpgrade
  <2> QED BY <2>1, Remembered DEF IInv, TypeOK, LocalsType
<1>1. /\ mem[p] = disk.installed /\ now[p] + Slack >= mem[p].verified
      /\ op[p] = "check"
  BY <1>0 DEF Remembers, LedgerSites
<1>2. CASE FetchOffline(p) \/ \E m \in Releases : FetchRefused(p, m)
  BY <1>0, <1>2, MovesOn, PlainMove DEF FetchOffline, FetchRefused
<1>3. ASSUME NEW m \in Releases, Accepts(p, m)
      PROVE  /\ Abstract!Fresh(m) /\ Observed(p, m) = Abstract!Saw(m)
             /\ Observed(p, m) \in Ledger
             /\ Observed(p, m).current = mem[p].current
             /\ Observed(p, m).failed = mem[p].failed
             /\ Observed(p, m).verified = mem[p].verified
             /\ Observed(p, m).metadata = m
  <2>1. Observed(p, m) \in Ledger BY ObservedType DEF IInv
  <2> QED BY <1>0, <1>1, <1>3, <2>1
      DEF Accepts, Observed, Abstract!Fresh, Abstract!Saw, Ledger
<1>4. ASSUME NEW m \in Releases, FetchRevoking(p, m) PROVE MemoryInv'
  <2>1. /\ Moves(p, "saveRevoked") /\ mem'[p] = Observed(p, m) /\ UNCHANGED disk
    BY <1>0, <1>4, MovesOn, LabelsType DEF FetchRevoking, files, WriteSites, LedgerSites
  <2>2. Abstract!Fresh(m) /\ mem'[p] = Abstract!Saw(m)
    BY <1>3, <1>4, <2>1 DEF FetchRevoking
  <2>3. Noted(p)' BY <2>1, <2>2 DEF Noted, Abstract!Fresh, Abstract!Saw
  <2>9. Pending(p)' BY <2>1, <2>3 DEF Pending, Moves
  <2>4. Remembers(p)' BY <2>1, <2>9 DEF Remembers, Moves, LedgerSites, Trying, Chosen
  <2> QED BY <1>0, <2>1, <2>4, OthersRemember DEF Moves
<1>5. ASSUME NEW m \in Releases, FetchUpgrade(p, m) PROVE MemoryInv'
  <2>1. /\ Moves(p, "saveSeen") /\ mem'[p] = Observed(p, m) /\ cand'[p] = m
        /\ UNCHANGED <<disk, now>>
    BY <1>0, <1>5, MovesOn, LabelsType DEF FetchUpgrade, files, WriteSites, LedgerSites
  <2>2. Abstract!Fresh(m) /\ mem'[p] = Abstract!Saw(m)
    BY <1>3, <1>5, <2>1 DEF FetchUpgrade
  <2>3. Noted(p)' BY <2>1, <2>2 DEF Noted, Abstract!Fresh, Abstract!Saw
  <2>9. Pending(p)' BY <2>1, <2>3 DEF Pending, Moves
  <2>4. Candidate(p)'
    BY <1>1, <1>3, <1>5, <2>1 DEF FetchUpgrade, Candidate, Accepts, Moves, TimeValid
  <2>5. Remembers(p)'
    BY <2>1, <2>9, <2>4 DEF Remembers, Moves, LedgerSites, Trying, Chosen
  <2> QED BY <1>0, <2>1, <2>5, OthersRemember DEF Moves
<1>6. ASSUME NEW m \in Releases, FetchCurrent(p, m) PROVE MemoryInv'
  <2>1. /\ Moves(p, "saveCurrent") /\ UNCHANGED <<disk, now>>
        /\ mem'[p] = [Observed(p, m) EXCEPT !.verified = now[p], !.expires = Expires[m]]
    BY <1>0, <1>6, MovesOn, LabelsType DEF FetchCurrent, files, WriteSites, LedgerSites
  <2>2. m = disk.installed.current /\ TimeValid(m, now[p]) /\ m \notin Observed(p, m).revoked
    BY <1>1, <1>6 DEF FetchCurrent, Accepts
  <2>3. Abstract!Fresh(m) /\ Observed(p, m) = Abstract!Saw(m)
    BY <1>3, <1>6 DEF FetchCurrent
  <2>9. Renewed(p)'
    BY <1>1, <2>1, <2>2, <2>3 DEF Renewed, Abstract!Fresh, Abstract!Saw, TimeValid
  <2>4. Pending(p)' BY <2>1, <2>9 DEF Pending, Moves
  <2>5. Remembers(p)' BY <2>1, <2>4 DEF Remembers, Moves, LedgerSites, Trying, Chosen
  <2> QED BY <1>0, <2>1, <2>5, OthersRemember DEF Moves
<1> QED BY <1>2, <1>4, <1>5, <1>6 DEF Fetch

\* recover(), the checks before the fetch, prepare() and the choice of rollback().
LEMMA DecideMemory ==
  ASSUME IInv, MemoryInv, NEW p \in Procs,
         Recover(p) \/ Verify(p) \/ VerifyRefused(p) \/ Stage(p) \/ Choose(p)
  PROVE  MemoryInv'
<1>0. /\ pc[p] \in {"recover", "verify", "prepare", "stageManifest", "stageRoles", "choose"}
      /\ disk'.installed = disk.installed
  BY DEF Recover, RecoverTxn, RecoverNone, RecoverRefused, Verify, VerifyRefused,
         Stage, Prepare, StageManifest, StageRoles, StageRefused, Choose, SetStage,
         files, IInv, TypeOK, FilesType, Disk
<1>1. Remembers(p) /\ mem[p] = disk.installed /\ pc[p] # "idle"
  BY <1>0, Remembered DEF Remembers, LedgerSites
<1>2. CASE Verify(p)
  <2>1. Moves(p, "fetch") BY <1>2, MovesOn, LabelsType DEF Verify
  <2>2. now'[p] + Slack >= mem[p].verified /\ UNCHANGED mem /\ op[p] = "check"
    BY <1>1, <1>2 DEF Verify, Fit, Remembers, IInv, TypeOK, LocalsType
  <2>3. Remembers(p)'
    BY <1>0, <1>1, <2>1, <2>2 DEF Remembers, Moves, LedgerSites, Trying, Chosen
  <2> QED BY <1>1, <2>1, <2>3, OthersRemember DEF Moves
<1>3. CASE Choose(p)
  <2>1. CASE Moves(p, "idle") BY <1>1, <2>1, PlainMove
  <2>2. CASE ~Moves(p, "idle")
    <3>1. /\ Moves(p, "saveJournal") /\ UNCHANGED <<mem, now>>
          /\ cand'[p] = mem[p].previous /\ mem[p].previous \notin mem[p].revoked
      BY <1>3, <2>2, MovesOn, LabelsType DEF Choose, WriteSites, IInv, TypeOK, LocalsType
    <3>2. op[p] = "rollback" BY <1>1, <1>3 DEF Choose, Remembers
    <3>3. Candidate(p)' BY <3>1, <3>2 DEF Candidate, Moves
    <3>4. Remembers(p)' BY <1>0, <1>1, <3>1, <3>3 DEF Remembers, Moves, LedgerSites
    <3> QED BY <1>1, <3>1, <3>4, OthersRemember DEF Moves
  <2> QED BY <2>1, <2>2
<1>4. CASE Recover(p) \/ VerifyRefused(p) \/ Stage(p)
  <2>1. \/ Moves(p, "idle")
        \/ /\ UNCHANGED locals
           /\ \/ Moves(p, "linkRec")
              \/ Moves(p, "verify") /\ op[p] = "check"
              \/ Moves(p, "choose") /\ op[p] = "rollback"
              \/ /\ pc[p] \in Trying
                 /\ \E l \in {"stageManifest", "stageRoles", "saveJournal"} : Moves(p, l)
    BY <1>4, MovesOn, LabelsType
    DEF Recover, RecoverTxn, RecoverNone, RecoverRefused, VerifyRefused, Stage, Prepare,
        StageManifest, StageRoles, StageRefused, Trying, Chosen, WriteSites, LinkSites,
        IInv, TypeOK, ControlType
  <2>2. pc[p] \in Trying => Candidate(p) BY <1>1 DEF Remembers
  <2> QED BY <1>0, <1>1, <2>1, <2>2, PlainMove DEF locals, LedgerSites, Trying, Chosen
<1> QED BY <1>2, <1>3, <1>4

\* Restarts, probes, audits and unlinks: a passed probe is what justifies the two
\* records of a transaction.
LEMMA ProveMemory ==
  ASSUME IInv, MemoryInv, NEW p \in Procs, Prove(p)
  PROVE  MemoryInv'
<1>0. /\ pc[p] # "idle" /\ Remembers(p) /\ Knows(p) /\ disk \in Disk
      /\ mem \in [Procs -> Ledger] /\ now \in [Procs -> Nat]
      /\ op[p] \in {"check", "rollback"}
      /\ pc[p] \in RestartSites \cup ProbeSites \cup AuditSites \cup UnlinkSites
  <2>1. pc[p] \in RestartSites \cup ProbeSites \cup AuditSites \cup UnlinkSites
    BY DEF Prove, Restart, ProbeNew, ProbeOld, ProbeRec, ProbeRefused, Audit, Unlink,
           ProbeSites
  <2>2. pc[p] # "idle" BY <2>1 DEF RestartSites, ProbeSites, AuditSites, UnlinkSites
  <2> QED BY <2>1, <2>2, Remembered, OnlyHolder
      DEF IInv, TypeOK, FilesType, LocalsType, ControlType
<1>1. mem[p] = disk.installed /\ (pc[p] \in Trying => Candidate(p))
  BY <1>0
  DEF Remembers, LedgerSites, RestartSites, ProbeSites, AuditSites, UnlinkSites
<1>2. CASE Restart(p) \/ ProbeRec(p) \/ Audit(p) \/ Unlink(p)
  <2>1. disk'.installed = disk.installed
    BY <1>0, <1>2 DEF Restart, ProbeRec, Audit, Unlink, files, Disk
  <2>2. \/ Moves(p, "idle")
        \/ /\ UNCHANGED locals
           /\ \E l \in {"probeRec", "auditRec", "unlinkDone", "unlinkRec", "recover"} :
                Moves(p, l)
        \/ /\ UNCHANGED locals /\ pc[p] \in {"restartNew", "restartOld"}
           /\ \E l \in {"probeNew", "probeOld"} : Moves(p, l)
    BY <1>0, <1>2, MovesOn, LabelsType
    DEF Restart, ProbeRec, Audit, Unlink, RestartSites, ProbeSites, AuditSites, UnlinkSites
  <2> QED BY <1>0, <1>1, <2>1, <2>2, PlainMove DEF locals, LedgerSites, Trying, Chosen
<1>3. CASE ProbeRefused(p)
  <2>1. CASE Moves(p, "idle") BY <1>0, <2>1, PlainMove
  <2>2. CASE Caught(p) /\ Moves(p, "linkOld") /\ UNCHANGED locals
    <3>1. pc[p] \in Trying BY <2>2 DEF Caught, Trying, Chosen
    <3> QED BY <1>0, <1>1, <1>3, <2>2, <3>1, PlainMove
        DEF ProbeRefused, files, locals, LedgerSites
  <2> QED BY <1>3, <2>1, <2>2, MovesOn DEF ProbeRefused
<1>4. CASE ProbeNew(p)
  <2>1. /\ Moves(p, "saveUpgraded") /\ mem'[p] = Activated(p)
        /\ UNCHANGED <<disk, cand, now>> /\ cand[p] \in Healthy
    BY <1>0, <1>4, MovesOn, LabelsType
    DEF ProbeNew, files, WriteSites, LedgerSites, Proven, Subject
  <2>2. Candidate(p) /\ cand[p] \in Releases
    BY <1>0, <1>1, <1>4 DEF ProbeNew, Trying, Chosen, Knows
  <2>3. CASE op[p] = "rollback"
    <3>1. RolledBack(p)'
      BY <1>0, <1>1, <2>1, <2>2, <2>3 DEF RolledBack, Candidate, Activated, Ledger
    <3>2. Pending(p)' BY <2>1, <2>3, <3>1 DEF Pending, Moves
    <3>3. Remembers(p)'
      BY <2>1, <3>2 DEF Remembers, Moves, LedgerSites, Trying, Chosen
    <3> QED BY <1>0, <2>1, <3>3, OthersRemember DEF Moves
  <2>4. CASE op[p] = "check"
    <3>1. Abstract!Fresh(cand[p])
      BY <1>1, <2>2, <2>4 DEF Candidate, Abstract!Fresh
    <3>2. mem'[p] = [disk.installed EXCEPT !.current = cand[p],
                       !.previous = disk.installed.current,
                       !.verified = now[p], !.expires = Expires[cand[p]]]
      BY <1>0, <1>1, <2>1, <2>4 DEF Activated, Ledger
    <3>3. Upgraded(p)'
      BY <1>1, <2>1, <2>2, <2>4, <3>1, <3>2
      DEF Upgraded, Candidate, Abstract!Fresh, TimeValid
    <3>4. Pending(p)' BY <2>1, <2>4, <3>3 DEF Pending, Moves
    <3>5. Remembers(p)'
      BY <2>1, <3>4 DEF Remembers, Moves, LedgerSites, Trying, Chosen
    <3> QED BY <1>0, <2>1, <3>5, OthersRemember DEF Moves
  <2> QED BY <1>0, <2>3, <2>4
<1>5. CASE ProbeOld(p)
  <2>1. CASE op[p] = "check"
    <3>1. /\ Moves(p, "saveFailed") /\ UNCHANGED <<disk, cand, now>>
          /\ mem' = [mem EXCEPT ![p].failed = @ \cup {cand[p]}]
      BY <1>5, <2>1, MovesOn, LabelsType DEF ProbeOld, files, WriteSites, LedgerSites
    <3>2. Candidate(p) BY <1>1, <1>5 DEF ProbeOld, Trying, Chosen
    <3>3. mem'[p] = [disk.installed EXCEPT !.failed = @ \cup {cand[p]}]
      BY <1>0, <1>1, <3>1
    <3>4. Barred(p)' BY <1>1, <2>1, <3>1, <3>2, <3>3 DEF Barred, Candidate
    <3>5. Pending(p)' BY <3>1, <3>4 DEF Pending, Moves
    <3>6. Remembers(p)'
      BY <3>1, <3>5 DEF Remembers, Moves, LedgerSites, Trying, Chosen
    <3> QED BY <1>0, <3>1, <3>6, OthersRemember DEF Moves
  <2>2. CASE op[p] # "check"
    <3>1. Moves(p, "unlinkFailed") /\ UNCHANGED <<disk, mem, cand, now>>
      BY <1>5, <2>2, MovesOn, LabelsType DEF ProbeOld, files, UnlinkSites
    <3> QED BY <1>0, <1>1, <3>1, PlainMove DEF LedgerSites, Trying, Chosen
  <2> QED BY <2>1, <2>2
<1> QED BY <1>2, <1>3, <1>4, <1>5 DEF Prove

\* An invocation loads the ledger; an exception leaves what the handler needs.
LEMMA EndsMemory ==
  ASSUME IInv, MemoryInv, NEW p \in Procs,
         Throw(p) \/ Kill(p) \/ \E o \in {"check", "rollback"} : Start(p, o)
  PROVE  MemoryInv'
<1>1. CASE Throw(p) \/ Kill(p)
  <2>1. pc[p] # "idle" /\ Remembers(p) /\ UNCHANGED disk
    BY <1>1, Remembered DEF Throw, Kill, files
  <2>2. CASE Moves(p, "idle") BY <2>1, <2>2, PlainMove
  <2>3. CASE Caught(p) /\ Moves(p, "linkOld") /\ UNCHANGED locals
    <3>1. mem[p] = disk.installed /\ Candidate(p)
      BY <2>1, <2>3 DEF Caught, Remembers, LedgerSites, Trying, Chosen
    <3> QED BY <2>1, <2>3, <3>1, PlainMove DEF locals, LedgerSites
  <2> QED BY <1>1, <2>2, <2>3, MovesOn DEF Throw, Kill
<1>2. ASSUME NEW o \in {"check", "rollback"}, Start(p, o) PROVE MemoryInv'
  <2>1. /\ UNCHANGED disk /\ pc'[p] = "recover" /\ mem'[p] = disk.installed
        /\ \A q \in Procs \ {p} : pc'[q] = "idle"
    BY <1>2, ProcAssumption
    DEF Start, files, IInv, TypeOK, ControlType, LocalsType, Holder
  <2>2. Remembers(p)' BY <2>1 DEF Remembers, LedgerSites, Trying, Chosen
  <2> QED BY <2>1, <2>2 DEF MemoryInv
<1> QED BY <1>1, <1>2

\* What a process remembers is about its own state and the ledger.
LEMMA SameMemory ==
  ASSUME MemoryInv, disk'.installed = disk.installed, UNCHANGED <<locals, pc, io, op>>
  PROVE  MemoryInv'
<1>1. ASSUME NEW q \in Procs PROVE Remembers(q)' = Remembers(q)
  BY DEF locals, Remembers, Candidate, Pending, Noted, Renewed, Barred, Upgraded,
         RolledBack, Abstract!Fresh, Abstract!Saw
<1> QED BY <1>1 DEF MemoryInv

\* Nothing outside the processes replaces installed.json, but a power loss, which
\* leaves no process.
LEMMA EnvironmentMemory ==
  ASSUME IInv, MemoryInv, Environment
  PROVE  MemoryInv'
<1>1. CASE PowerLoss
  BY <1>1 DEF PowerLoss, MemoryInv
<1>2. CASE Writeback \/ ServiceCrash \/ ServiceStart \/ SetClock \/ OperatorClean
  <2>1. disk'.installed = disk.installed /\ UNCHANGED <<locals, pc, io, op>>
    BY <1>2 DEF Writeback, ServiceCrash, ServiceStart, SetClock, OperatorClean,
                files, locals, control, IInv, TypeOK, FilesType, Disk
  <2> QED BY <2>1, SameMemory
<1> QED BY <1>1, <1>2 DEF Environment

\* Every step keeps the memory of the holder one move from the ledger.
LEMMA NextMemory == IInv /\ MemoryInv /\ [Next]_vars => MemoryInv'
<1> SUFFICES ASSUME IInv, MemoryInv, [Next]_vars PROVE MemoryInv' OBVIOUS
<1>1. ASSUME NEW p \in Procs, Run(p) PROVE MemoryInv'
  BY <1>1, DecideMemory, FetchMemory, WriteMemory, ProveMemory DEF Run
<1>2. CASE UNCHANGED vars
  BY <1>2, SameMemory DEF vars, files, locals, control
<1>3. CASE Next
  BY <1>1, <1>3, EndsMemory, EnvironmentMemory DEF Next
<1> QED BY <1>2, <1>3

\* The holder of update.lock always has the ledger, or a move from it, in memory.
LEMMA MemoryHolds == Spec => []MemoryInv
<1>1. Init => MemoryInv BY DEF Init, MemoryInv
<1> QED BY <1>1, NextMemory, Invariance, PTL DEF Spec
-----------------------------------------------------------------------------
(* Every step of the updater is a step of the abstract ledger *)

\* The rename of a record is the move the holder computed.
LEMMA RecordMoves ==
  ASSUME IInv, MemoryInv, NEW p \in Procs, Rename(p), pc[p] \in LedgerSites
  PROVE  Abstract!Replace
<1>0. disk \in Disk /\ mem[p] \in Ledger BY DEF IInv, TypeOK, FilesType, LocalsType
<1>1. /\ disk'.installed = mem[p] /\ durable' = durable
      /\ disk.installed \in Ledger /\ mem[p] \in Ledger
  <2>1. disk' = Renamed(p) /\ durable' = durable BY DEF Rename
  <2>2. Renamed(p).installed = mem[p] BY <1>0 DEF Renamed, Disk, LedgerSites, LinkSites
  <2> QED BY <1>0, <2>1, <2>2 DEF Disk
<1>2. Pending(p) /\ Knows(p)
  BY Remembered, OnlyHolder DEF Remembers, Rename, LedgerSites
<1>3. \A m \in Releases : Expires[m] \in Nat /\ Issued[m] \in Nat BY TimeAssumption
<1>4. now[p] \in Nat /\ Slack \in Nat /\ disk.installed.current \in Releases
  BY <1>1, TimeAssumption DEF IInv, TypeOK, LocalsType, Ledger
<1>5. CASE pc[p] \in {"saveRevoked", "saveSeen"}
  <2>1. PICK m \in Releases : Abstract!Fresh(m) /\ mem[p] = Abstract!Saw(m)
    BY <1>2, <1>5 DEF Pending, Noted
  <2>2. Abstract!Observe(m) BY <1>1, <2>1 DEF Abstract!Observe
  <2> QED BY <1>1, <2>2 DEF Abstract!Replace, Abstract!Move
<1>6. CASE pc[p] = "saveCurrent"
  <2> DEFINE m == disk.installed.current
  <2>1. Renewed(p) BY <1>2, <1>6 DEF Pending
  <2>2. now[p] \in 0 .. Expires[m]
    BY <1>3, <1>4, <2>1 DEF Renewed, TimeValid
  <2>3. Abstract!Renew(m, now[p])
    BY <1>1, <2>1 DEF Renewed, Abstract!Renew, Abstract!Leased, Abstract!TimeValid, TimeValid
  <2> QED BY <1>1, <1>4, <2>2, <2>3 DEF Abstract!Replace, Abstract!Move
<1>7. CASE pc[p] = "saveFailed"
  <2>1. Barred(p) /\ cand[p] \in Releases BY <1>2, <1>7 DEF Pending, Knows, Chosen
  <2>2. Abstract!Quarantine(cand[p])
    BY <1>1, <2>1 DEF Barred, Abstract!Quarantine
  <2> QED BY <1>1, <2>1, <2>2 DEF Abstract!Replace, Abstract!Move
<1>8. CASE pc[p] = "saveUpgraded" /\ op[p] = "rollback"
  <2>1. RolledBack(p) BY <1>2, <1>8 DEF Pending
  <2>2. Abstract!Rollback
    BY <1>1, <2>1, ReleaseAssumption DEF RolledBack, Abstract!Rollback
  <2> QED BY <1>1, <2>2 DEF Abstract!Replace, Abstract!Move
<1>9. CASE pc[p] = "saveUpgraded" /\ op[p] # "rollback"
  <2> DEFINE m == cand[p]
  <2>1. Upgraded(p) BY <1>2, <1>9 DEF Pending
  <2>2. m \in Releases /\ now[p] \in 0 .. Expires[m]
    BY <1>3, <1>4, <2>1, ReleaseAssumption DEF Upgraded, TimeValid
  <2>3. Abstract!Upgrade(m, now[p])
    BY <1>1, <2>1
    DEF Upgraded, Abstract!Upgrade, Abstract!Leased, Abstract!TimeValid, TimeValid
  <2> QED BY <1>1, <2>2, <2>3 DEF Abstract!Replace, Abstract!Move
<1> QED BY <1>5, <1>6, <1>7, <1>8, <1>9 DEF LedgerSites

\* No other step of a process writes installed.json; what it makes durable is the
\* ledger as it stands.
LEMMA OthersCommit ==
  ASSUME IInv, NEW p \in Procs,
         \/ Run(p) /\ ~(Rename(p) /\ pc[p] \in LedgerSites)
         \/ Throw(p) \/ Kill(p) \/ \E o \in {"check", "rollback"} : Start(p, o)
  PROVE  /\ disk'.installed = disk.installed
         /\ durable'.installed \in {durable.installed, disk.installed}
<1>0. disk \in Disk BY DEF IInv, TypeOK, FilesType
<1>1. CASE Write(p) /\ ~(Rename(p) /\ pc[p] \in LedgerSites)
  <2>1. CASE Create(p) BY <1>0, <2>1 DEF Create, Disk
  <2>2. CASE Rename(p) BY <1>0, <1>1, <2>2 DEF Rename, Renamed, Disk
  <2>3. CASE CreateRefused(p) \/ Fsync(p) \/ FsyncReturn(p)
    BY <2>3 DEF CreateRefused, Fsync, FsyncReturn, files
  <2> QED BY <1>1, <2>1, <2>2, <2>3 DEF Write
<1>2. CASE Stage(p)
  BY <1>0, <1>2
  DEF Stage, Prepare, StageManifest, StageRoles, StageRefused, SetStage, Disk
<1>3. CASE Prove(p)
  <2>1. CASE Audit(p) \/ Unlink(p) BY <1>0, <2>1 DEF Audit, Unlink, Disk
  <2>2. CASE ~(Audit(p) \/ Unlink(p))
    BY <1>3, <2>2 DEF Prove, Restart, ProbeNew, ProbeOld, ProbeRec, ProbeRefused, files
  <2> QED BY <2>1, <2>2
<1>4. CASE \/ Recover(p) \/ Verify(p) \/ VerifyRefused(p) \/ Fetch(p) \/ Choose(p)
           \/ Throw(p) \/ Kill(p) \/ \E o \in {"check", "rollback"} : Start(p, o)
  BY <1>4
  DEF Recover, RecoverTxn, RecoverNone, RecoverRefused, Verify, VerifyRefused, Fetch,
      FetchOffline, FetchRefused, FetchRevoking, FetchCurrent, FetchUpgrade, Choose,
      Throw, Kill, Start, files
<1> QED BY <1>1, <1>2, <1>3, <1>4 DEF Run

\* A step of the updater replaces the ledger, commits it, loses what was not
\* committed, or leaves it alone.
LEMMA Simulation ==
  IInv /\ MemoryInv /\ [Next]_vars => [Abstract!Next]_(Abstract!vars)
<1> SUFFICES ASSUME IInv, MemoryInv, [Next]_vars
             PROVE  [Abstract!Next]_(Abstract!vars)
  OBVIOUS
<1> USE DEF Abstract!vars, Abstract!Next, Abstract!Commit, Abstract!Lose
<1>1. ASSUME NEW p \in Procs, Rename(p), pc[p] \in LedgerSites
      PROVE  [Abstract!Next]_(Abstract!vars)
  BY <1>1, RecordMoves
<1>2. ASSUME NEW p \in Procs,
             \/ Run(p) /\ ~(Rename(p) /\ pc[p] \in LedgerSites)
             \/ Throw(p) \/ Kill(p) \/ \E o \in {"check", "rollback"} : Start(p, o)
      PROVE  [Abstract!Next]_(Abstract!vars)
  BY <1>2, OthersCommit
<1>3. CASE PowerLoss
  BY <1>3 DEF PowerLoss
<1>4. CASE OperatorClean
  BY <1>4 DEF OperatorClean, IInv, TypeOK, FilesType, Disk
<1>5. CASE Writeback \/ ServiceCrash \/ ServiceStart \/ SetClock \/ UNCHANGED vars
  BY <1>5 DEF Writeback, ServiceCrash, ServiceStart, SetClock, vars, files
<1>6. CASE Next
  BY <1>1, <1>2, <1>3, <1>4, <1>5, <1>6 DEF Next, Environment
<1> QED BY <1>5, <1>6

\* The host is handed over with a ledger the abstract one may start from.
LEMMA InitSimulation == Init => Abstract!Init
<1> SUFFICES ASSUME Init PROVE Abstract!Init OBVIOUS
<1>1. clock \in 0 .. Expires[First] /\ TimeValid(First, clock)
  BY ReleaseAssumption, TimeAssumption DEF Init, TimeValid
<1>2. disk.installed = [current |-> First, previous |-> NoRelease,
                        sequence |-> Seq[First], metadata |-> First,
                        verified |-> clock, expires |-> Expires[First],
                        revoked |-> {}, failed |-> {}]
  BY DEF Init, FirstDisk, Blank
<1> QED BY <1>1, <1>2 DEF Init, Abstract!Init, Abstract!TimeValid, TimeValid

\* Whatever the interleaving of invocations, crashes and power losses, the
\* updater's installed.json is an abstract ledger.
THEOREM LedgerRefinement == Spec => ImplementsLedger
<1>1. IInv /\ MemoryInv /\ [Next]_vars => [Abstract!Next]_(Abstract!vars)
  BY Simulation
<1> QED BY <1>1, InitSimulation, Invariance, MemoryHolds, PTL
    DEF Spec, ImplementsLedger, Abstract!Spec
-----------------------------------------------------------------------------
(* What every move keeps true *)

\* The moves preserve LedgerOK.
LEMMA MoveOK ==
  ASSUME disk.installed \in Ledger, disk'.installed \in Ledger,
         LedgerOK(disk.installed), Abstract!Move
  PROVE  LedgerOK(disk'.installed)
<1> DEFINE l == disk.installed
           n == disk'.installed
<1>0. /\ Seq \in [Releases -> Nat] /\ NoRelease \notin Releases
      /\ \A m \in Releases : Expires[m] \in Nat
  BY ReleaseAssumption, TimeAssumption
<1>1. ASSUME NEW m \in Releases, Abstract!Observe(m) PROVE LedgerOK(n)
  <2>1. /\ n.current = l.current /\ n.previous = l.previous
        /\ n.sequence = Seq[m] /\ n.metadata = m
        /\ n.verified = l.verified /\ n.expires = l.expires
    BY <1>1 DEF Abstract!Observe, Abstract!Saw, Ledger
  <2>2. Seq[m] > l.sequence \/ m = l.metadata
    BY <1>1 DEF Abstract!Observe, Abstract!Fresh
  <2> QED BY <1>0, <2>1, <2>2 DEF LedgerOK, Ledger
<1>2. ASSUME NEW m \in Releases, Abstract!Quarantine(m) PROVE LedgerOK(n)
  BY <1>2 DEF Abstract!Quarantine, LedgerOK, Ledger
<1>3. ASSUME NEW m \in Releases, NEW t \in 0 .. Expires[m], Abstract!Renew(m, t)
      PROVE  LedgerOK(n)
  <2>1. /\ n.current = m /\ m = l.current /\ n.previous = l.previous
        /\ n.sequence = Seq[m] /\ n.metadata = m
        /\ n.verified = t /\ n.expires = Expires[m] /\ TimeValid(m, t)
    BY <1>3 DEF Abstract!Renew, Abstract!Leased, Abstract!Saw, Abstract!TimeValid,
                TimeValid, Ledger
  <2>2. Seq[m] > l.sequence \/ m = l.metadata
    BY <1>3 DEF Abstract!Renew, Abstract!Fresh
  <2> QED BY <1>0, <2>1, <2>2 DEF LedgerOK, Ledger
<1>4. ASSUME NEW m \in Releases, NEW t \in 0 .. Expires[m], Abstract!Upgrade(m, t)
      PROVE  LedgerOK(n)
  <2>1. /\ n.current = m /\ m = l.metadata /\ n.previous = l.current
        /\ n.sequence = l.sequence /\ n.metadata = l.metadata
        /\ n.verified = t /\ n.expires = Expires[m] /\ TimeValid(m, t)
    BY <1>4 DEF Abstract!Upgrade, Abstract!Leased, Abstract!TimeValid, TimeValid, Ledger
  <2> QED BY <1>0, <2>1 DEF LedgerOK, Ledger
<1>5. CASE Abstract!Rollback
  <2>1. /\ n.current = l.previous /\ n.previous = l.current
        /\ n.sequence = l.sequence /\ n.metadata = l.metadata
        /\ n.verified = l.verified /\ n.expires = l.expires
    BY <1>5 DEF Abstract!Rollback, Ledger
  <2> QED BY <2>1 DEF LedgerOK
<1> QED BY <1>1, <1>2, <1>3, <1>4, <1>5 DEF Abstract!Move

\* Both the ledger and what a power loss would leave of it are in order.
LEMMA LedgersHold == Spec => []LedgersOK
<1>1. Init => LedgersOK
  <2> SUFFICES ASSUME Init PROVE LedgersOK OBVIOUS
  <2>1. Seq[First] \in Nat /\ First # NoRelease BY ReleaseAssumption
  <2> QED BY <2>1 DEF Init, FirstDisk, Blank, LedgersOK, LedgerOK
<1>2. IInv /\ IInv' /\ LedgersOK /\ [Abstract!Next]_(Abstract!vars) => LedgersOK'
  <2> SUFFICES ASSUME IInv, IInv', LedgersOK, [Abstract!Next]_(Abstract!vars)
               PROVE  LedgersOK'
    OBVIOUS
  <2>1. disk.installed \in Ledger /\ disk'.installed \in Ledger
    BY DEF IInv, TypeOK, FilesType, Disk
  <2>2. CASE Abstract!Replace
    BY <2>1, <2>2, MoveOK DEF Abstract!Replace, LedgersOK
  <2>3. CASE Abstract!Commit \/ Abstract!Lose \/ UNCHANGED Abstract!vars
    BY <2>3 DEF Abstract!Commit, Abstract!Lose, Abstract!vars, LedgersOK
  <2> QED BY <2>2, <2>3 DEF Abstract!Next
<1> QED BY <1>1, <1>2, Simulation, Invariance, MemoryHolds, PTL DEF Spec

\* A sequence number never stands for two manifests of the ledger.
THEOREM Unequivocal == Spec => []NoEquivocation
<1>1. LedgersOK => NoEquivocation BY DEF LedgersOK, LedgerOK, NoEquivocation
<1> QED BY <1>1, LedgersHold, PTL

\* The lease in the ledger was granted by one manifest, at a time it allows.
THEOREM LeasesBacked == Spec => []LeaseBacked
<1>1. LedgersOK => LeaseBacked BY DEF LedgersOK, LedgerOK, LeaseBacked
<1> QED BY <1>1, LedgersHold, PTL

\* No invocation forgets a revocation, a quarantine or a sequence number that
\* another one recorded.
THEOREM NothingForgotten == Spec => []NoLostUpdate
<1>1. IInv /\ MemoryInv /\ LedgersOK => NoLostUpdate
  <2> SUFFICES ASSUME IInv, MemoryInv, LedgersOK, NEW p \in Procs, pc[p] # "idle"
               PROVE  /\ disk.installed.revoked \subseteq mem[p].revoked
                      /\ disk.installed.failed \subseteq mem[p].failed
                      /\ disk.installed.sequence <= mem[p].sequence
    BY DEF NoLostUpdate
  <2>1. /\ Remembers(p) /\ disk.installed \in Ledger /\ cand[p] \in Releases \cup {NoRelease}
        /\ Seq[disk.installed.metadata] = disk.installed.sequence
    BY Remembered DEF IInv, TypeOK, FilesType, LocalsType, Disk, LedgersOK, LedgerOK
  <2>2. disk.installed.sequence \in Nat /\ Seq \in [Releases -> Nat]
    BY <2>1, ReleaseAssumption DEF Ledger
  <2>3. CASE ~(pc[p] \in LedgerSites /\ io[p] # "fsync")
    BY <2>1, <2>2, <2>3 DEF Remembers
  <2>4. ASSUME NEW m \in Releases, Abstract!Fresh(m)
        PROVE  /\ Abstract!Saw(m) \in Ledger
               /\ disk.installed.revoked \subseteq Abstract!Saw(m).revoked
               /\ Abstract!Saw(m).failed = disk.installed.failed
               /\ disk.installed.sequence <= Abstract!Saw(m).sequence
    <3>1. Seq[m] \in Nat /\ Revokes[m] \in SUBSET Releases BY <2>2, ReleaseAssumption
    <3>2. disk.installed.sequence <= Seq[m]
      BY <2>1, <2>2, <2>4, <3>1 DEF Abstract!Fresh
    <3> QED BY <2>1, <3>1, <3>2 DEF Abstract!Saw, Ledger
  <2>5. CASE pc[p] \in LedgerSites /\ io[p] # "fsync"
    <3>1. Pending(p) BY <2>1, <2>5 DEF Remembers
    <3>2. CASE Noted(p) BY <2>4, <3>2 DEF Noted
    <3>3. CASE Renewed(p)
      <4> DEFINE m == disk.installed.current
      <4>1. m \in Releases /\ Abstract!Fresh(m) BY <2>1, <3>3 DEF Renewed, Ledger
      <4>2. /\ mem[p].revoked = Abstract!Saw(m).revoked
            /\ mem[p].failed = Abstract!Saw(m).failed
            /\ mem[p].sequence = Abstract!Saw(m).sequence
        BY <2>4, <3>3, <4>1 DEF Renewed, Ledger
      <4> QED BY <2>4, <4>1, <4>2
    <3>4. CASE Barred(p) BY <2>1, <2>2, <3>4 DEF Barred, Ledger
    <3>5. CASE RolledBack(p) BY <2>1, <2>2, <3>5 DEF RolledBack, Ledger
    <3>6. CASE Upgraded(p) BY <2>1, <2>2, <3>6 DEF Upgraded, Ledger
    <3> QED BY <2>5, <3>1, <3>2, <3>3, <3>4, <3>5, <3>6 DEF Pending, LedgerSites
  <2> QED BY <2>3, <2>5
<1> QED BY <1>1, Invariance, MemoryHolds, LedgersHold, PTL
=============================================================================

----------------------- MODULE ReleaseManagerProperties -----------------------
(* What makes the managed updater correct.                                 *)
EXTENDS ReleaseManager

FilesType == disk \in Disk /\ durable \in Disk
ControlType ==
  /\ lock \in Procs \cup {NoProc}
  /\ pc \in [Procs -> Labels]
  /\ io \in [Procs -> {"create", "rename", "fsync"}]
  /\ op \in [Procs -> {"check", "rollback"}]
  /\ answer \in [Procs -> Answers]
LocalsType ==
  /\ mem \in [Procs -> Ledger]
  /\ cand \in [Procs -> Releases \cup {NoRelease}]
  /\ now \in [Procs -> Nat]
HostType ==
  /\ running \in Releases \cup {NoRelease}
  /\ clock \in Times /\ faults \in 0 .. MaxFaults

\* Every variable has its type: in particular every journal that reaches the
\* disk names two releases, and installed.json never names None as current.
TypeOK == FilesType /\ ControlType /\ LocalsType /\ HostType

\* recover() can decide from these files alone: a pointer that disagrees with
\* the ledger is covered by a journal naming both, and the release it has to
\* link is completely staged.
DiskOK(d) ==
  LET c == d.installed.current
      j == {d.journal.previous, d.journal.candidate}
  IN  /\ IF d.journal = NoTxn THEN d.pointer = c ELSE c \in j /\ d.pointer \in j
      /\ d.stage[c] = "ready" /\ d.stage[d.pointer] = "ready"

\* Whatever instruction a process dies at, and whenever the power fails,
\* neither 'transaction needs operator reconciliation' nor 'unexpected current
\* pointer' nor an incomplete release is what the next invocation finds.
RecoverableDisk == DiskOK(disk) /\ DiskOK(durable)

\* What the process that holds update.lock knows at each step: which release
\* it has chosen, what its memory shares with installed.json, what the journal
\* names and where the pointer is.  With it RecoverableDisk is inductive.
Chosen == {"saveSeen", "prepare", "stageManifest", "stageRoles", "saveJournal",
           "linkNew", "restartNew", "probeNew", "linkOld", "restartOld", "probeOld",
           "saveFailed"}
Quiet == {"verify", "fetch", "choose", "saveRevoked", "saveCurrent", "saveSeen",
          "prepare", "stageManifest", "stageRoles"}
Open == {"linkNew", "restartNew", "probeNew", "linkOld", "restartOld", "probeOld",
         "saveFailed", "unlinkFailed"}
Recovering == {"linkRec", "restartRec", "probeRec", "auditRec", "unlinkRec"}
Restored == {"restartOld", "probeOld", "saveFailed", "unlinkFailed", "restartRec",
             "probeRec", "auditRec", "unlinkRec"}

Knows(p) ==
  LET at == pc[p]
      j == [previous |-> mem[p].current, candidate |-> cand[p]]
  IN  /\ at \in Chosen => cand[p] \in Releases
      /\ at \notin {"saveUpgraded", "auditDone", "unlinkDone"} =>
           mem[p].current = disk.installed.current
      /\ at = "stageManifest" => disk.stage[cand[p]] = "dir"
      /\ at \in Quiet => disk.journal = NoTxn
      /\ at = "saveJournal" =>
           disk.journal = IF io[p] = "fsync" THEN j ELSE NoTxn
      /\ at \in Open \ {"unlinkFailed"} => disk.journal = j
      /\ at \in {"unlinkFailed", "auditDone", "unlinkDone", "saveUpgraded"}
                  \cup Recovering =>
           disk.journal # NoTxn
      /\ at \in LinkSites /\ io[p] = "rename" => disk.stage[Subject(p)] = "ready"
      /\ at \in {"restartNew", "probeNew"} => disk.pointer = cand[p]
      /\ at \in Restored => disk.pointer = mem[p].current
      /\ at \in LinkSites /\ io[p] = "fsync" => disk.pointer = Subject(p)
      /\ at = "saveUpgraded" =>
           /\ mem[p].current = disk.pointer
           /\ io[p] = "fsync" => disk.installed.current = disk.pointer
      /\ at \in {"auditDone", "unlinkDone"} => disk.installed.current = disk.pointer

Holder(p) == IF lock = p THEN pc[p] # "idle" /\ Knows(p) ELSE pc[p] = "idle"
IInv == TypeOK /\ RecoverableDisk /\ \A p \in Procs : Holder(p)

\* updates.jsonl accounts for every activation: with the journal closed, also
\* after a crash or a power loss at any instruction, the last one it names is
\* the release the ledger names.
Accounted(d) == d.journal = NoTxn => d.trail = d.installed.current
ActivationsAudited == Accounted(disk) /\ Accounted(durable)

\* What makes it inductive: an open journal starts from the release the trail
\* names, or the trail already has its end; and what the holder has done by then.
TrailOK(d) ==
  IF d.journal = NoTxn THEN d.trail = d.installed.current
  ELSE \/ d.trail = d.journal.previous
       \/ d.trail = d.journal.candidate /\ d.trail = d.installed.current
Audited(p) ==
  /\ pc[p] \in {"saveUpgraded", "auditDone"} => mem[p].current = disk.journal.candidate
  /\ pc[p] = "auditDone" => mem[p].current = disk.installed.current
  /\ pc[p] \in UnlinkSites => disk.trail = disk.installed.current
TrailInv == TrailOK(disk) /\ TrailOK(durable) /\ \A p \in Procs : Audited(p)

\* A sequence number identifies one manifest: of the two releases in the
\* ledger, the one with the highest sequence seen is the one recorded for it
\* ('release replay or equivocation').
NoEquivocation ==
  \A r \in {disk.installed.current, disk.installed.previous} \ {NoRelease} :
    Seq[r] = disk.installed.sequence => r = disk.installed.metadata

\* The lease in the ledger is one that a single manifest, current or kept for
\* rollback, granted at the recorded time: times and expiry of two releases
\* are never mixed, not even by a rollback or a failed upgrade.
LeaseBacked ==
  LET l == disk.installed IN
  \E r \in {l.current, l.previous} \ {NoRelease} :
    l.expires = Expires[r] /\ TimeValid(r, l.verified)

\* A process that holds the ledger in memory knows every revocation and
\* quarantine on the disk and the highest sequence: its next record() cannot
\* undo what another invocation recorded.
NoLostUpdate ==
  \A p \in Procs : pc[p] # "idle" =>
    /\ disk.installed.revoked \subseteq mem[p].revoked
    /\ disk.installed.failed \subseteq mem[p].failed
    /\ disk.installed.sequence <= mem[p].sequence

\* When the manager prints an approval, every file agrees on the release it
\* names, no transaction is open, and the service executes it unless it is down; a
\* recorded approval is durable.  The release is not revoked, unless the channel has
\* just presented it as the newest manifest and check() upgraded to it.
Approval(p) == /\ answer'[p] # answer[p]
               /\ answer'[p].status \notin {"none", "refused"}
ApprovalSound(p) ==
  LET r == answer'[p].release IN
  /\ disk'.installed.current = r /\ disk'.pointer = r /\ disk'.journal = NoTxn
  /\ \/ r \notin disk'.installed.revoked
     \/ answer'[p].status = "upgraded" /\ r = disk'.installed.metadata
  /\ running' \in {NoRelease, r}
  /\ answer'[p].status # "offline" => durable'.installed = disk'.installed
ApprovalsAreSound == [][\A p \in Procs : Approval(p) => ApprovalSound(p)]_vars

\* The ledger goes to an older release only in an operator's rollback: no
\* replayed channel, failed upgrade or recovery downgrades it ('an old channel
\* cannot erase a revocation').
OnlyRollbackDowngrades ==
  [][LET old == disk.installed.current
         new == disk'.installed.current
     IN  Seq[new] < Seq[old] => lock' = NoProc \/ op[lock'] = "rollback"]_vars

\* Without a process, a service that runs and a closed journal, the service is
\* the release the ledger names: no upgrade, rollback or recovery ends with
\* another one left running.
ServedMatchesLedger ==
  lock = NoProc /\ disk.journal = NoTxn =>
    running \in {NoRelease, disk.installed.current}

\* What makes it inductive: with the journal closed, and from the probe of a
\* transaction to its end, the service runs what the pointer names.
Settled == {"saveUpgraded", "auditDone", "unlinkDone", "saveFailed", "unlinkFailed",
            "auditRec", "unlinkRec"}
ServedInv ==
  disk.journal = NoTxn \/ (\E p \in Procs : pc[p] \in Settled) =>
    running \in {NoRelease, disk.pointer}

\* installed.json changes only by the moves of the abstract ledger, and a
\* power loss never takes it back behind what was committed.
Abstract == INSTANCE ReleaseLedger WITH ledger <- disk.installed,
                                        stable <- durable.installed
ImplementsLedger == Abstract!Spec

\* What makes it provable: the holder's memory is installed.json, except that
\* before the rename of a record it is the outcome of one move (Pending), and
\* the choice of a candidate stays justified until it is recorded (Candidate).
Trying == Chosen \ {"saveFailed"}
Candidate(p) ==
  LET m == cand[p]
      l == mem[p]
  IN  IF op[p] = "rollback" THEN m = l.previous /\ m \notin l.revoked
      ELSE /\ m \in Approved \ l.failed /\ m \notin Revokes[m]
           /\ m = l.metadata /\ m # l.current /\ l.current \notin l.revoked
           /\ TimeValid(m, now[p]) /\ now[p] + Slack >= l.verified
Noted(p) == \E m \in Releases : Abstract!Fresh(m) /\ mem[p] = Abstract!Saw(m)
Renewed(p) ==
  LET m == disk.installed.current IN
  /\ Abstract!Fresh(m) /\ m \notin Abstract!Saw(m).revoked
  /\ TimeValid(m, now[p]) /\ now[p] + Slack >= disk.installed.verified
  /\ mem[p] = [Abstract!Saw(m) EXCEPT !.verified = now[p], !.expires = Expires[m]]
Barred(p) ==
  LET l == disk.installed IN
  /\ cand[p] = l.metadata /\ cand[p] # l.current
  /\ mem[p] = [l EXCEPT !.failed = @ \cup {cand[p]}]
Upgraded(p) ==
  LET m == cand[p]
      l == disk.installed
  IN  /\ Abstract!Fresh(m) /\ m = l.metadata /\ m # l.current /\ m \in Healthy
      /\ l.current \notin l.revoked
      /\ TimeValid(m, now[p]) /\ now[p] + Slack >= l.verified
      /\ mem[p] = [l EXCEPT !.current = m, !.previous = l.current,
                            !.verified = now[p], !.expires = Expires[m]]
RolledBack(p) ==
  LET l == disk.installed IN
  /\ cand[p] = l.previous /\ cand[p] \in Releases \ l.revoked
  /\ mem[p] = [l EXCEPT !.current = cand[p], !.previous = l.current]
Pending(p) ==
  /\ pc[p] \in {"saveRevoked", "saveSeen"} => Noted(p)
  /\ pc[p] = "saveCurrent" => Renewed(p)
  /\ pc[p] = "saveFailed" => Barred(p)
  /\ pc[p] = "saveUpgraded" => IF op[p] = "rollback" THEN RolledBack(p) ELSE Upgraded(p)
Remembers(p) ==
  /\ IF pc[p] \in LedgerSites /\ io[p] # "fsync" THEN Pending(p)
     ELSE mem[p] = disk.installed
  /\ pc[p] \in {"verify", "fetch"} => op[p] = "check"
  /\ pc[p] = "choose" => op[p] = "rollback"
  /\ pc[p] = "fetch" => now[p] + Slack >= mem[p].verified
  /\ pc[p] \in Trying => Candidate(p)
MemoryInv == \A p \in Procs : pc[p] # "idle" => Remembers(p)

\* What every move keeps true of a ledger, and so a power loss too.
LedgerOK(l) ==
  /\ Seq[l.metadata] = l.sequence
  /\ \A r \in {l.current, l.previous} \ {NoRelease} :
       /\ Seq[r] <= l.sequence
       /\ Seq[r] = l.sequence => r = l.metadata
  /\ \E r \in {l.current, l.previous} \ {NoRelease} :
       l.expires = Expires[r] /\ TimeValid(r, l.verified)
LedgersOK == LedgerOK(disk.installed) /\ LedgerOK(durable.installed)

\* Every invocation ends: no step waits for ever, and recovery is not repeated
\* without end, so the next invocation gets update.lock.
LockReleased == lock # NoProc ~> lock = NoProc

\* An interrupted upgrade or rollback is finished or undone by the invocations that
\* follow, unless it comes to the one state in which recover() gives up (Stuck): once
\* the clock is no longer behind the issue of the release the ledger names, which
\* release() refuses until then.
Stuck(d) ==
  LET l == d.installed IN
  /\ l.current \in l.revoked
  /\ \/ /\ d.journal = [previous |-> l.current, candidate |-> l.previous]
        /\ l.previous \notin l.revoked
     \/ /\ d.journal = [previous |-> l.previous, candidate |-> l.current]
        /\ l.current = l.metadata
TransactionResolves ==
  <>[]Begun(disk.installed.current) =>
    (disk.journal # NoTxn ~> disk.journal = NoTxn \/ Stuck(disk))

\* The manager 'serialises atomic upgrades and rollback': an operator's rollback
\* that is interrupted is finished or undone too.
RollbackResolves ==
  disk.journal # NoTxn /\ disk.journal.candidate = disk.installed.previous
    ~> disk.journal = NoTxn

\* test_recovery_does_not_execute_cached_revoked_release: whatever puts a
\* previous release back does not start one recorded as revoked.
RevokedNeverRestarted ==
  [][\A p \in Procs : pc[p] \in {"restartOld", "restartRec"} /\ pc'[p] \in ProbeSites =>
       running' \notin disk.installed.revoked]_vars

\* 'channel release revoked': a release recorded as revoked is not installed.
RevokedNeverInstalled ==
  [][disk'.installed.current # disk.installed.current =>
       disk'.installed.current \notin disk.installed.revoked]_vars

\* 'failed release quarantined; new approval required': a release whose proof
\* failed does not become the installed one again.
QuarantineHolds ==
  [][disk'.installed.current # disk.installed.current =>
       disk'.installed.current \notin disk.installed.failed]_vars
-----------------------------------------------------------------------------
(* What the updater guarantees where the three documented promises above fail:  *)
(* how far a power loss goes back, and who alone can bring a revoked or a       *)
(* quarantined release back.                                                    *)

\* A power loss takes the installed release back only while the journal of its
\* activation is open and durable, so that recover() finds it, and it takes no
\* revocation and no quarantine back with it.
UndoneIsJournalled ==
  LET l == disk.installed
      o == durable.installed
  IN  o.current # l.current =>
        /\ disk.journal = [previous |-> o.current, candidate |-> l.current]
        /\ durable.journal = disk.journal /\ l.previous = o.current
        /\ o.revoked = l.revoked /\ o.failed = l.failed

\* What makes it inductive: from the synced journal to the rename of the record,
\* and again when the journal goes, ledger and journal are on the disk for good;
\* and an activation that may be undone left a revoked release by a rollback only.
AtStake(p) ==
  \/ pc[p] \in {"linkNew", "restartNew", "probeNew", "linkOld", "restartOld", "probeOld"}
                 \cup UnlinkSites
  \/ pc[p] \in {"saveUpgraded", "saveFailed"} /\ io[p] # "fsync"
Committed == durable.installed = disk.installed /\ durable.journal = disk.journal
LossInv ==
  /\ UndoneIsJournalled
  /\ LET o == durable.installed IN
     o.current # disk.installed.current =>
       o.current \notin o.revoked \/ disk.installed.current = o.previous
  /\ \A p \in Procs : AtStake(p) => Committed

\* A power loss takes back the last activation, whose journal is still open.
Undoes == /\ disk' = durable
          /\ disk.journal = [previous |-> disk'.installed.current,
                             candidate |-> disk.installed.current]

\* A release recorded as revoked becomes the installed one in two ways only: check()
\* upgrades to it because the channel presents it, approved, as the newest manifest; or
\* a power loss takes back the operator's rollback that had just left it.
RevokedStaysOut ==
  [][LET new == disk'.installed.current IN
     new # disk.installed.current /\ new \in disk.installed.revoked =>
       \/ /\ lock' # NoProc /\ op[lock'] = "check"
          /\ new = disk.installed.metadata /\ new \in Approved \ Revokes[new]
       \/ Undoes /\ disk.installed.current = durable.installed.previous]_vars

\* A quarantined release becomes the installed one only by an operator's rollback,
\* or when a power loss takes back the activation that had just replaced it: no
\* channel, failed upgrade or recovery installs it again.
QuarantinedStaysOut ==
  [][LET new == disk'.installed.current IN
     new # disk.installed.current /\ new \in disk.installed.failed =>
       Undoes \/ (lock' # NoProc /\ op[lock'] = "rollback")]_vars

\* The manager starts a release recorded as revoked in two ways only: to prove the
\* upgrade to the newest manifest, or to put it back after an operator's rollback from it
\* has failed.  No recovery and no failed upgrade does.
RevokedRestart ==
  [][\A p \in Procs :
       pc[p] \in RestartSites /\ pc'[p] \in ProbeSites /\ running' \in disk.installed.revoked =>
         \/ /\ pc[p] = "restartNew" /\ op[p] = "check" /\ running' = disk.installed.metadata
         \/ pc[p] = "restartOld" /\ op[p] = "rollback"]_vars

\* What recover() itself looks at makes it give up in two cases only: an interrupted
\* rollback from a revoked release to one that is not, and the end of an upgrade to a
\* revoked newest manifest.  It never does because a pointer or a journal disagrees.
\* The link() and probe() it goes on to may still fail, on a leftover current.new or
\* on the clock; the next invocation then tries again.
RefusalIsStuck == [][\A p \in Procs : RecoverRefused(p) => Stuck(disk)]_vars

\* What makes it provable: no other transaction leaves or enters a revoked release.
Settleable(d) ==
  d.journal # NoTxn /\ d.installed.current \in d.installed.revoked => Stuck(d)
StuckInv == Settleable(disk) /\ Settleable(durable)
=============================================================================

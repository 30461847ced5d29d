---------------------------- MODULE ReleaseManager ----------------------------
(***************************************************************************)
(* The managed updater, deploy/managed/release-manager.py: the operations  *)
(* "check" and "rollback" of class Manager as root runs them from main(),  *)
(* one process per invocation, against the files they share.               *)
(*                                                                         *)
(* A manifest stands for its SHA-256; Seq, Issued, Expires and Revokes are *)
(* the fields the code reads from it.  Every file replacement is the three *)
(* system calls of atomic() and link() (create X.new exclusively, rename   *)
(* it over X, fsync the directory), so a process can die, and the power    *)
(* can fail, between any two of them.                                      *)
(***************************************************************************)
EXTENDS Naturals

CONSTANTS
  Procs,      \* invocations of the manager that may be alive together
  NoProc,     \* the value of lock when update.lock is free
  Releases,   \* every manifest the channel may present
  NoRelease,  \* None
  First,      \* the release the installer put in place
  Seq,        \* manifest["sequence"]
  Issued,     \* manifest["issued_at"]
  Expires,    \* manifest["expires_at"]
  Revokes,    \* manifest["revoked"]
  Approved,   \* manifests authenticate() accepts: pinned or signed
  Healthy,    \* releases whose running service passes probe()
  Times,      \* the clock readings
  Slack,      \* the 60 seconds of tolerated clock error
  Grace,      \* policy["offline_grace_seconds"]
  MaxFaults   \* bound on kills, exceptions, service crashes and power losses

ASSUME ReleaseAssumption ==
  /\ First \in Releases /\ NoRelease \notin Releases
  /\ Healthy \subseteq Releases /\ First \in Healthy
  /\ Approved \subseteq Releases
  /\ Seq \in [Releases -> Nat] /\ Revokes \in [Releases -> SUBSET Releases]
ASSUME TimeAssumption ==
  /\ Times \subseteq Nat /\ Slack \in Nat /\ Grace \in Nat /\ MaxFaults \in Nat
  /\ Issued \in [Releases -> Nat] /\ Expires \in [Releases -> Nat]
  /\ \A m \in Approved \cup {First} : Issued[m] < Expires[m]
ASSUME ProcAssumption == NoProc \notin Procs

VARIABLES
  disk,      \* what a process sees in /opt/keybroker-health
  durable,   \* what of it a power loss would leave
  lock,      \* the holder of state/update.lock
  pc, io,    \* per process: the step it is at; the system call within a write
  op,        \* per process: "check" or "rollback"
  mem,       \* per process: self.state, installed.json as loaded and edited
  cand,      \* per process: the release being activated
  now,       \* per process: the clock reading check() took
  answer,    \* per process: what main() last printed
  running,   \* the release the keybroker-health service executes
  clock, faults

files == <<disk, durable>>
locals == <<mem, cand, now>>
control == <<lock, pc, io, op, answer>>
host == <<running, clock, faults>>
vars == <<files, locals, control, host>>
-----------------------------------------------------------------------------
(* Types *)

NoTxn == [previous |-> NoRelease, candidate |-> NoRelease]
NoAnswer == [status |-> "none", release |-> NoRelease]
Refused == [status |-> "refused", release |-> NoRelease]

Ledger == [current : Releases, previous : Releases \cup {NoRelease},
           sequence : Nat, metadata : Releases, verified : Nat, expires : Nat,
           revoked : SUBSET Releases, failed : SUBSET Releases]
Journal == [previous : Releases, candidate : Releases] \cup {NoTxn}
Stages == {"absent", "dir", "partial", "torn", "ready"}
Disk == [installed : Ledger, journal : Journal, pointer : Releases,
         tmp : SUBSET {"installed", "journal", "pointer"},
         stage : [Releases -> Stages], trail : Releases]

\* trail: the release that the last activation in updates.jsonl made current.
LedgerSites == {"saveRevoked", "saveCurrent", "saveSeen", "saveUpgraded", "saveFailed"}
LinkSites == {"linkNew", "linkOld", "linkRec"}
WriteSites == LedgerSites \cup LinkSites \cup {"saveJournal"}
RestartSites == {"restartNew", "restartOld", "restartRec"}
ProbeSites == {"probeNew", "probeOld", "probeRec"}
AuditSites == {"auditDone", "auditRec"}
UnlinkSites == {"unlinkDone", "unlinkFailed", "unlinkRec"}
Labels == {"idle", "recover", "verify", "fetch", "prepare", "stageManifest",
           "stageRoles", "choose"}
            \cup WriteSites \cup RestartSites \cup ProbeSites
            \cup AuditSites \cup UnlinkSites
Answers == [status : {"none", "refused", "current", "offline", "upgraded", "rolledback"},
            release : Releases \cup {NoRelease}]

Blank == [current |-> First, previous |-> NoRelease, sequence |-> Seq[First],
          metadata |-> First, verified |-> 0, expires |-> Expires[First],
          revoked |-> {}, failed |-> {}]
-----------------------------------------------------------------------------
(* Control flow of one process *)

Goto(p, l) ==
  /\ pc' = [pc EXCEPT ![p] = l]
  /\ io' = [io EXCEPT ![p] = "create"]
  /\ UNCHANGED <<lock, op, answer>>

\* The process ends: main() prints a, or fails; flock and self.state are gone.
Exit(p, a) ==
  /\ lock' = NoProc
  /\ pc' = [pc EXCEPT ![p] = "idle"]
  /\ io' = [io EXCEPT ![p] = "create"]
  /\ answer' = [answer EXCEPT ![p] = a]
  /\ mem' = [mem EXCEPT ![p] = Blank]
  /\ cand' = [cand EXCEPT ![p] = NoRelease]
  /\ now' = [now EXCEPT ![p] = 0]
  /\ UNCHANGED op

\* release(), before every link, probe and answer: the stage is complete and was not
\* issued in the future.  The clock it asks is capped at expires_at - 1, so that the
\* end of a life does not matter here.
Begun(m) == Issued[m] <= clock + Slack
Intact(m) == disk.stage[m] = "ready" /\ Begun(m)

\* What main() prints at the end.
Printed(p, status) == IF Intact(mem[p].current)
                      THEN [status |-> status, release |-> mem[p].current] ELSE Refused

\* The two try blocks whose handler puts the previous release back.
Caught(p) == \/ pc[p] \in {"restartNew", "probeNew"}
             \/ pc[p] = "linkNew" /\ op[p] = "check"

\* An exception at the step p is at.
Raise(p) == IF Caught(p) THEN Goto(p, "linkOld") /\ UNCHANGED locals
                         ELSE Exit(p, Refused)

\* Bug: installed.json is loaded without waiting for update.lock.
StartUnlocked(p, o) ==
  /\ pc[p] = "idle"
  /\ lock' = p
  /\ pc' = [pc EXCEPT ![p] = "recover"]
  /\ op' = [op EXCEPT ![p] = o]
  /\ mem' = [mem EXCEPT ![p] = disk.installed]
  /\ answer' = [answer EXCEPT ![p] = NoAnswer]
  /\ UNCHANGED <<files, io, cand, now, host>>

\* main(): flock(LOCK_EX), then Manager() loads installed.json.
Start(p, o) ==
  /\ pc[p] = "idle" /\ lock = NoProc
  /\ lock' = p
  /\ pc' = [pc EXCEPT ![p] = "recover"]
  /\ op' = [op EXCEPT ![p] = o]
  /\ mem' = [mem EXCEPT ![p] = disk.installed]
  /\ answer' = [answer EXCEPT ![p] = NoAnswer]
  /\ UNCHANGED <<files, io, cand, now, host>>
-----------------------------------------------------------------------------
(* atomic() and link(): replacing a file *)

\* The release a link, restart or probe is about.
Subject(p) == IF pc[p] \in {"linkNew", "restartNew", "probeNew"}
              THEN cand[p] ELSE mem[p].current

File(l) == CASE l \in LedgerSites -> "installed"
             [] l \in LinkSites -> "pointer"
             [] OTHER -> "journal"

\* link() first verifies the staged release.
Writable(p) == /\ File(pc[p]) \notin disk.tmp
               /\ pc[p] \in LinkSites => Intact(Subject(p))

Create(p) ==
  /\ pc[p] \in WriteSites /\ io[p] = "create" /\ Writable(p)
  /\ disk' = [disk EXCEPT !.tmp = @ \cup {File(pc[p])}]
  /\ io' = [io EXCEPT ![p] = "rename"]
  /\ UNCHANGED <<durable, locals, lock, pc, op, answer, host>>

\* O_EXCL finds a leftover X.new, or link() finds current.new: never cleaned up; or
\* release() refuses what link() is to point to.
CreateRefused(p) ==
  /\ pc[p] \in WriteSites /\ io[p] = "create" /\ ~Writable(p)
  /\ Raise(p)
  /\ UNCHANGED <<files, host>>

Renamed(p) ==
  LET d == [disk EXCEPT !.tmp = @ \ {File(pc[p])}] IN
  CASE pc[p] \in LedgerSites -> [d EXCEPT !.installed = mem[p]]
    [] pc[p] \in LinkSites -> [d EXCEPT !.pointer = Subject(p)]
    [] OTHER -> [d EXCEPT !.journal = [previous |-> mem[p].current,
                                       candidate |-> cand[p]]]

Rename(p) ==
  /\ pc[p] \in WriteSites /\ io[p] = "rename"
  /\ disk' = Renamed(p)
  /\ io' = [io EXCEPT ![p] = "fsync"]
  /\ UNCHANGED <<durable, locals, lock, pc, op, answer, host>>

\* Bug: recovery restores the pointer but does not restart the service.
AfterNoRestart(l) == CASE l = "saveSeen" -> "prepare"
                       [] l = "saveJournal" -> "linkNew"
                       [] l = "linkNew" -> "restartNew"
                       [] l = "linkOld" -> "restartOld"
                       [] l = "linkRec" -> "auditRec"
                       [] l = "saveUpgraded" -> "auditDone"
                       [] OTHER -> "unlinkFailed"

After(l) == CASE l = "saveSeen" -> "prepare"
              [] l = "saveJournal" -> "linkNew"
              [] l = "linkNew" -> "restartNew"
              [] l = "linkOld" -> "restartOld"
              [] l = "linkRec" -> "restartRec"
              [] l = "saveUpgraded" -> "auditDone"
              [] OTHER -> "unlinkFailed"

Fsync(p) ==
  /\ pc[p] \in WriteSites \ {"saveRevoked", "saveCurrent"} /\ io[p] = "fsync"
  /\ durable' = disk
  /\ Goto(p, After(pc[p]))
  /\ UNCHANGED <<disk, locals, host>>

\* Bug: 'current' is printed before the directory entry is on the disk.
FsyncReturnLazy(p) ==
  /\ pc[p] \in {"saveRevoked", "saveCurrent"} /\ io[p] = "fsync"
  /\ Exit(p, IF pc[p] = "saveRevoked" THEN Refused ELSE Printed(p, "current"))
  /\ UNCHANGED <<files, host>>

\* The two writes check() returns from: raise after a revocation, or 'current'.
FsyncReturn(p) ==
  /\ pc[p] \in {"saveRevoked", "saveCurrent"} /\ io[p] = "fsync"
  /\ durable' = disk
  /\ Exit(p, IF pc[p] = "saveRevoked" THEN Refused ELSE Printed(p, "current"))
  /\ UNCHANGED <<disk, host>>
-----------------------------------------------------------------------------
(* recover() *)

\* Bug: a transaction whose receipt was written is not recognised.
RecoverableOld(p) == /\ mem[p].current = disk.journal.previous
                     /\ mem[p].current \notin mem[p].revoked

\* Bug: a cached release is put back without looking at the revocations.
RecoverableRevoked(p) ==
  mem[p].current \in {disk.journal.candidate, disk.journal.previous}

Recoverable(p) ==
  /\ mem[p].current \in {disk.journal.candidate, disk.journal.previous}
  /\ mem[p].current \notin mem[p].revoked

\* Either branch links, restarts and probes the release the ledger names.
RecoverTxn(p) ==
  /\ pc[p] = "recover" /\ disk.journal # NoTxn /\ Recoverable(p)
  /\ Goto(p, "linkRec")
  /\ UNCHANGED <<files, locals, host>>

RecoverNone(p) ==
  /\ pc[p] = "recover" /\ disk.journal = NoTxn
  /\ disk.pointer = mem[p].current
  /\ Goto(p, IF op[p] = "check" THEN "verify" ELSE "choose")
  /\ UNCHANGED <<files, locals, host>>

\* 'needs operator reconciliation', 'recovery release revoked' and
\* 'unexpected current pointer'.
RecoverRefused(p) ==
  /\ pc[p] = "recover"
  /\ IF disk.journal # NoTxn THEN ~Recoverable(p) ELSE disk.pointer # mem[p].current
  /\ Exit(p, Refused)
  /\ UNCHANGED <<files, host>>
-----------------------------------------------------------------------------
(* check() *)

\* Bug: the clock may go back.
FitAnyTime(p) == /\ Intact(mem[p].current)
                 /\ mem[p].current \notin mem[p].revoked

\* Bug: revocation is checked only when the channel answers.
FitRevoked(p) == /\ Intact(mem[p].current)
                 /\ clock + Slack >= mem[p].verified

Fit(p) == /\ Intact(mem[p].current)
          /\ mem[p].current \notin mem[p].revoked
          /\ clock + Slack >= mem[p].verified

Verify(p) ==
  /\ pc[p] = "verify" /\ Fit(p)
  /\ now' = [now EXCEPT ![p] = clock]
  /\ Goto(p, "fetch")
  /\ UNCHANGED <<files, mem, cand, host>>

VerifyRefused(p) ==
  /\ pc[p] = "verify" /\ ~Fit(p)
  /\ Exit(p, Refused)
  /\ UNCHANGED <<files, host>>

LeaseHolds(p) == now[p] <= mem[p].expires /\ now[p] <= mem[p].verified + Grace

FetchOffline(p) ==
  /\ pc[p] = "fetch"
  /\ Exit(p, IF LeaseHolds(p) THEN Printed(p, "offline") ELSE Refused)
  /\ UNCHANGED <<files, host>>

\* manifest() against the clock.
TimeValid(m, t) == Issued[m] <= t + Slack /\ t < Expires[m]

\* Bug: a second manifest with the sequence last seen is accepted.
AcceptsEquivocation(p, m) ==
  /\ m \in Approved /\ TimeValid(m, now[p])
  /\ m \notin Revokes[m] /\ m \notin mem[p].failed
  /\ Seq[m] >= mem[p].sequence

\* Bug: the channel may be replayed.
AcceptsReplay(p, m) ==
  /\ m \in Approved /\ TimeValid(m, now[p])
  /\ m \notin Revokes[m] /\ m \notin mem[p].failed

\* Bug: a quarantined manifest is accepted when the channel presents it again.
AcceptsQuarantined(p, m) ==
  /\ m \in Approved /\ TimeValid(m, now[p]) /\ m \notin Revokes[m]
  /\ \/ Seq[m] > mem[p].sequence
     \/ Seq[m] = mem[p].sequence /\ m = mem[p].metadata

Accepts(p, m) ==
  /\ m \in Approved /\ TimeValid(m, now[p])
  /\ m \notin Revokes[m] /\ m \notin mem[p].failed
  /\ \/ Seq[m] > mem[p].sequence
     \/ Seq[m] = mem[p].sequence /\ m = mem[p].metadata

\* The channel answers with m, authentic or not, current or replayed.
FetchRefused(p, m) ==
  /\ pc[p] = "fetch" /\ ~Accepts(p, m)
  /\ Exit(p, Refused)
  /\ UNCHANGED <<files, host>>

Observed(p, m) == [mem[p] EXCEPT !.revoked = @ \cup Revokes[m],
                                 !.sequence = Seq[m], !.metadata = m]

FetchRevoking(p, m) ==
  /\ pc[p] = "fetch" /\ Accepts(p, m)
  /\ mem[p].current \in Observed(p, m).revoked
  /\ mem' = [mem EXCEPT ![p] = Observed(p, m)]
  /\ Goto(p, "saveRevoked")
  /\ UNCHANGED <<files, cand, now, host>>

FetchCurrent(p, m) ==
  /\ pc[p] = "fetch" /\ Accepts(p, m)
  /\ m = mem[p].current /\ m \notin Observed(p, m).revoked
  /\ mem' = [mem EXCEPT ![p] = [Observed(p, m) EXCEPT !.verified = now[p],
                                                      !.expires = Expires[m]]]
  /\ Goto(p, "saveCurrent")
  /\ UNCHANGED <<files, cand, now, host>>

FetchUpgrade(p, m) ==
  /\ pc[p] = "fetch" /\ Accepts(p, m)
  /\ m # mem[p].current /\ mem[p].current \notin Observed(p, m).revoked
  /\ mem' = [mem EXCEPT ![p] = Observed(p, m)]
  /\ cand' = [cand EXCEPT ![p] = m]
  /\ Goto(p, "saveSeen")
  /\ UNCHANGED <<files, now, host>>
-----------------------------------------------------------------------------
(* prepare(): stages are durable when atomic() returns *)

SetStage(m, s) == disk' = [disk EXCEPT !.stage[m] = s]

\* A directory with a manifest is resumed, a new one is created, and one
\* without its manifest makes read_bytes() raise.
Prepare(p) ==
  /\ pc[p] = "prepare"
  /\ CASE disk.stage[cand[p]] = "absent" ->
            /\ SetStage(cand[p], "dir")
            /\ Goto(p, "stageManifest") /\ UNCHANGED locals
       [] disk.stage[cand[p]] = "dir" ->
            Exit(p, Refused) /\ UNCHANGED disk
       [] OTHER ->
            Goto(p, "stageRoles") /\ UNCHANGED <<disk, locals>>
  /\ UNCHANGED <<durable, host>>

StageManifest(p) ==
  /\ pc[p] = "stageManifest"
  /\ SetStage(cand[p], "partial") /\ durable' = disk'
  /\ Goto(p, "stageRoles")
  /\ UNCHANGED <<locals, host>>

\* Bug: the pointer is moved without a journal.
StageRolesUnjournalled(p) ==
  /\ pc[p] = "stageRoles" /\ disk.stage[cand[p]] \in {"partial", "ready"}
  /\ SetStage(cand[p], "ready") /\ durable' = disk'
  /\ IF Begun(cand[p]) THEN Goto(p, "linkNew") /\ UNCHANGED locals ELSE Exit(p, Refused)
  /\ UNCHANGED host

\* The last artefact, then release(): the clock may be another than fetch saw.
StageRoles(p) ==
  /\ pc[p] = "stageRoles" /\ disk.stage[cand[p]] \in {"partial", "ready"}
  /\ SetStage(cand[p], "ready") /\ durable' = disk'
  /\ IF Begun(cand[p]) THEN Goto(p, "saveJournal") /\ UNCHANGED locals ELSE Exit(p, Refused)
  /\ UNCHANGED host

\* A leftover <role>.new, or one this process leaves when it dies writing it.
StageRefused(p) ==
  /\ pc[p] = "stageRoles"
  /\ \/ disk.stage[cand[p]] = "torn" /\ UNCHANGED <<disk, faults>>
     \/ /\ disk.stage[cand[p]] = "partial" /\ faults < MaxFaults
        /\ SetStage(cand[p], "torn")
        /\ faults' = faults + 1
  /\ Exit(p, Refused)
  /\ UNCHANGED <<durable, running, clock>>
-----------------------------------------------------------------------------
(* rollback(): the choice; the transaction below is shared with check() *)

\* Bug: a host that has had one release only is not recognised.
ChooseNone(p) ==
  /\ pc[p] = "choose"
  /\ IF mem[p].previous \in mem[p].revoked
     THEN Exit(p, Refused)
     ELSE /\ cand' = [cand EXCEPT ![p] = mem[p].previous]
          /\ Goto(p, "saveJournal") /\ UNCHANGED <<mem, now>>
  /\ UNCHANGED <<files, host>>

\* Bug: the previous release is taken without looking at the revocations.
ChooseRevoked(p) ==
  /\ pc[p] = "choose"
  /\ IF mem[p].previous = NoRelease
     THEN Exit(p, Refused)
     ELSE /\ cand' = [cand EXCEPT ![p] = mem[p].previous]
          /\ Goto(p, "saveJournal") /\ UNCHANGED <<mem, now>>
  /\ UNCHANGED <<files, host>>

Choose(p) ==
  /\ pc[p] = "choose"
  /\ IF mem[p].previous = NoRelease \/ mem[p].previous \in mem[p].revoked
     THEN Exit(p, Refused)
     ELSE /\ cand' = [cand EXCEPT ![p] = mem[p].previous]
          /\ Goto(p, "saveJournal") /\ UNCHANGED <<mem, now>>
  /\ UNCHANGED <<files, host>>
-----------------------------------------------------------------------------
(* restart(), probe() and the end of the transaction *)

\* systemctl restart / launchctl kickstart -k: the unit runs current/keybroker.
Restart(p) ==
  /\ pc[p] \in RestartSites
  /\ running' = disk.pointer
  /\ Goto(p, CASE pc[p] = "restartNew" -> "probeNew"
               [] pc[p] = "restartOld" -> "probeOld"
               [] OTHER -> "probeRec")
  /\ UNCHANGED <<files, locals, clock, faults>>

\* Bug: an upgrade keeps the expiry of the release it replaces.
ActivatedStale(p) ==
  LET l == [mem[p] EXCEPT !.current = cand[p], !.previous = mem[p].current]
  IN  IF op[p] = "rollback" THEN l ELSE [l EXCEPT !.verified = now[p]]

\* The ledger entry written once the new release has passed its probe.
Activated(p) ==
  LET l == [mem[p] EXCEPT !.current = cand[p], !.previous = mem[p].current]
  IN  IF op[p] = "rollback" THEN l
      ELSE [l EXCEPT !.verified = now[p], !.expires = Expires[cand[p]]]

Proven(p) == Intact(Subject(p)) /\ running = Subject(p) /\ Subject(p) \in Healthy

ProbeNew(p) ==
  /\ pc[p] = "probeNew" /\ Proven(p)
  /\ mem' = [mem EXCEPT ![p] = Activated(p)]
  /\ Goto(p, "saveUpgraded")
  /\ UNCHANGED <<files, cand, now, host>>

\* The previous release is back: check() quarantines the candidate.
ProbeOld(p) ==
  /\ pc[p] = "probeOld" /\ Proven(p)
  /\ IF op[p] = "check"
     THEN /\ mem' = [mem EXCEPT ![p].failed = @ \cup {cand[p]}]
          /\ Goto(p, "saveFailed")
     ELSE Goto(p, "unlinkFailed") /\ UNCHANGED mem
  /\ UNCHANGED <<files, cand, now, host>>

ProbeRec(p) ==
  /\ pc[p] = "probeRec" /\ Proven(p)
  /\ Goto(p, "auditRec")
  /\ UNCHANGED <<files, locals, host>>

\* A stopped service is waited for; one that answers wrongly is refused, and so is
\* a release that release() refuses before the service is asked.
ProbeRefused(p) ==
  /\ pc[p] \in ProbeSites
  /\ Intact(Subject(p)) /\ Subject(p) \in Healthy => running \notin {NoRelease, Subject(p)}
  /\ Raise(p)
  /\ UNCHANGED <<files, host>>

\* Bug: a recovery that completes a transaction is not logged as its completion.
AuditNotRecovered(p) ==
  /\ pc[p] \in AuditSites
  /\ disk' = [disk EXCEPT !.trail = IF pc[p] = "auditDone" THEN mem[p].current ELSE @]
  /\ durable' = disk'
  /\ Goto(p, IF pc[p] = "auditDone" THEN "unlinkDone" ELSE "unlinkRec")
  /\ UNCHANGED <<locals, host>>

\* audit(), synced: 'upgrade verified', 'operator rollback' and 'completed
\* interrupted receipt' activate the candidate of the journal, 'recovered
\* interrupted upgrade' does not.
Audit(p) ==
  /\ pc[p] \in AuditSites
  /\ disk' = [disk EXCEPT !.trail = IF disk.journal.candidate = mem[p].current
                                   THEN mem[p].current ELSE @]
  /\ durable' = disk'
  /\ Goto(p, IF pc[p] = "auditDone" THEN "unlinkDone" ELSE "unlinkRec")
  /\ UNCHANGED <<locals, host>>

\* Bug: recovery leaves its journal behind.
UnlinkNotRecovered(p) ==
  /\ pc[p] \in UnlinkSites
  /\ disk' = IF pc[p] = "unlinkRec" THEN disk ELSE [disk EXCEPT !.journal = NoTxn]
  /\ CASE pc[p] = "unlinkRec" -> Goto(p, "recover") /\ UNCHANGED locals
       [] pc[p] = "unlinkFailed" -> Exit(p, Refused)
       [] OTHER -> Exit(p, Printed(p, IF op[p] = "check" THEN "upgraded" ELSE "rolledback"))
  /\ UNCHANGED <<durable, host>>

\* unlink() is not followed by an fsync of its directory.
Unlink(p) ==
  /\ pc[p] \in UnlinkSites
  /\ disk' = [disk EXCEPT !.journal = NoTxn]
  /\ CASE pc[p] = "unlinkRec" -> Goto(p, "recover") /\ UNCHANGED locals
       [] pc[p] = "unlinkFailed" -> Exit(p, Refused)
       [] OTHER -> Exit(p, Printed(p, IF op[p] = "check" THEN "upgraded" ELSE "rolledback"))
  /\ UNCHANGED <<durable, host>>
-----------------------------------------------------------------------------
(* Faults and the rest of the host *)

\* An OSError, a timeout, a failed download or service command, at any step.
Throw(p) ==
  /\ pc[p] # "idle" /\ faults < MaxFaults
  /\ faults' = faults + 1
  /\ running' \in IF pc[p] \in RestartSites
                  THEN {running, NoRelease, disk.pointer} ELSE {running}
  /\ Raise(p)
  /\ UNCHANGED <<files, clock>>

Kill(p) ==
  /\ pc[p] # "idle" /\ faults < MaxFaults
  /\ faults' = faults + 1
  /\ Exit(p, Refused)
  /\ UNCHANGED <<files, running, clock>>

PowerLoss ==
  /\ faults < MaxFaults
  /\ faults' = faults + 1
  /\ disk' = durable
  /\ lock' = NoProc
  /\ pc' = [p \in Procs |-> "idle"] /\ io' = [p \in Procs |-> "create"]
  /\ mem' = [p \in Procs |-> Blank] /\ cand' = [p \in Procs |-> NoRelease]
  /\ now' = [p \in Procs |-> 0] /\ answer' = [p \in Procs |-> NoAnswer]
  /\ running' = NoRelease
  /\ UNCHANGED <<durable, op, clock>>

\* The journalling file system commits what it has been given so far.
Writeback ==
  /\ durable # disk
  /\ durable' = disk
  /\ UNCHANGED <<disk, locals, control, host>>

ServiceCrash ==
  /\ running # NoRelease /\ faults < MaxFaults
  /\ running' = NoRelease /\ faults' = faults + 1
  /\ UNCHANGED <<files, locals, control, clock>>

\* Restart=on-failure, KeepAlive, and the start at boot.
ServiceStart ==
  /\ running = NoRelease
  /\ running' = disk.pointer
  /\ UNCHANGED <<files, locals, control, clock, faults>>

\* 'Interrupted files stay for operator review': the operator removes them.
OperatorClean ==
  /\ lock = NoProc
  /\ disk' = [disk EXCEPT !.tmp = {},
                !.stage = [m \in Releases |->
                             CASE @[m] = "torn" -> "partial"
                               [] @[m] = "dir" -> "absent"
                               [] OTHER -> @[m]]]
  /\ disk' # disk
  /\ UNCHANGED <<durable, locals, control, host>>

SetClock ==
  /\ clock' \in Times /\ clock' # clock
  /\ UNCHANGED <<files, locals, control, running, faults>>
-----------------------------------------------------------------------------
(* Specification *)

FirstDisk(t) ==
  [installed |-> [Blank EXCEPT !.verified = t],
   journal |-> NoTxn, pointer |-> First, tmp |-> {},
   stage |-> [m \in Releases |-> IF m = First THEN "ready" ELSE "absent"],
   trail |-> First]

\* As the installer leaves the host once its own probe has passed.
Init ==
  /\ clock \in {t \in Times : TimeValid(First, t)}
  /\ disk = FirstDisk(clock) /\ durable = disk
  /\ lock = NoProc /\ running = First /\ faults = 0
  /\ pc = [p \in Procs |-> "idle"] /\ io = [p \in Procs |-> "create"]
  /\ op = [p \in Procs |-> "check"]
  /\ mem = [p \in Procs |-> Blank] /\ cand = [p \in Procs |-> NoRelease]
  /\ now = [p \in Procs |-> 0] /\ answer = [p \in Procs |-> NoAnswer]

Write(p) == Create(p) \/ CreateRefused(p) \/ Rename(p) \/ Fsync(p) \/ FsyncReturn(p)
Recover(p) == RecoverTxn(p) \/ RecoverNone(p) \/ RecoverRefused(p)
Fetch(p) == \/ FetchOffline(p)
            \/ \E m \in Releases : \/ FetchRefused(p, m) \/ FetchRevoking(p, m)
                                   \/ FetchCurrent(p, m) \/ FetchUpgrade(p, m)
Stage(p) == Prepare(p) \/ StageManifest(p) \/ StageRoles(p) \/ StageRefused(p)
Prove(p) == \/ Restart(p) \/ ProbeNew(p) \/ ProbeOld(p) \/ ProbeRec(p)
            \/ ProbeRefused(p) \/ Audit(p) \/ Unlink(p)

\* What a live process does by itself.
Run(p) == \/ Recover(p) \/ Verify(p) \/ VerifyRefused(p) \/ Fetch(p)
          \/ Write(p) \/ Stage(p) \/ Choose(p) \/ Prove(p)

Environment == \/ PowerLoss \/ Writeback \/ ServiceCrash \/ ServiceStart
               \/ OperatorClean \/ SetClock

Next == \/ \E p \in Procs : \/ \E o \in {"check", "rollback"} : Start(p, o)
                            \/ Run(p) \/ Throw(p) \/ Kill(p)
        \/ Environment

Spec == Init /\ [][Next]_vars

\* A live process runs on; clients keep invoking the manager (every wrapper
\* call does); systemd restarts the service; the operator reviews leftovers.
Fairness ==
  /\ \A p \in Procs : WF_vars(Run(p))
  /\ WF_vars(\E p \in Procs : Start(p, "check"))
  /\ WF_vars(ServiceStart) /\ SF_vars(OperatorClean)

FairSpec == Spec /\ Fairness
=============================================================================

----------------------------- MODULE HostInstaller -----------------------------
(***************************************************************************)
(* The installer, deploy/managed/install.py --apply, from the bundle a     *)
(* builder made to the receipt 'installed and health verified': an         *)
(* exclusive directory, a fixed order of files created exclusively, the    *)
(* start of the service, its proof, the record of the proof.  Installers   *)
(* may overlap, fail or be killed at any step; a failure runs              *)
(* stop_failed_install().  A client's check, which holds update.lock when  *)
(* the installer does not, may meet the installer's last write.            *)
(***************************************************************************)
EXTENDS BundleBuilder

CONSTANT Installers  \* invocations of install.py --apply

VARIABLES
  platform,
  inst,           \* per installer: its step, the file of Plan it is at, the bundle
                  \* it runs from, the bytes load_bundle() verified, ACTIVE_UNIT,
                  \* START_ATTEMPTED and the outcome of the stop
  root,           \* /opt/keybroker-health exists
  file,           \* the files of Plan
  release,        \* what was staged as the release
  ledger,         \* last_verified_at: 1, a client's check, the installer's proof
  tmp,            \* who created installed.json.new
  service,        \* enabled at boot; running
  proven,         \* the service has passed the installer's probe (history)
  sealed,         \* installation.json says 'installed and health verified'
  report,         \* the outcome in installation-failed.json
  client

onDisk == <<root, file, release, sealed, report>>
updater == <<ledger, tmp, client>>
unit == <<service, proven>>
hostVars == <<inst, onDisk, updater, unit, platform>>

\* Bug: the grant is installed with the other small files.
PlanGrantsEarly == <<"receipt", "sudoersCopy", "release", "unitCopy", "libexec",
                     "wrappers", "sudoers", "policy", "ledger", "unit">>

\* The order of write_new(); "release" is all stage_and_validate_release() stages.
Plan == <<"receipt", "sudoersCopy", "release", "unitCopy", "policy", "ledger",
          "libexec", "wrappers", "sudoers", "unit">>
Files == {Plan[n] : n \in 1 .. Len(Plan)}
Ok(f) == file[f] = "ok"

Steps == {"idle", "claim", "layout", "create", "fill", "flag", "start", "load",
          "probe", "record", "rename", "seal", "print", "stop", "note", "ended"}
Ready == [step |-> "idle", n |-> 1, from |-> Commit, bytes |-> NoBoot, active |-> FALSE,
          attempted |-> FALSE, outcome |-> "none"]

\* A process that has ended has nothing in memory.
Gone == [Ready EXCEPT !.step = "ended"]
Moves(i, from, to) ==
  /\ inst[i].step = from
  /\ inst' = [inst EXCEPT ![i] = IF to = "ended" THEN Gone ELSE [@ EXCEPT !.step = to]]
-----------------------------------------------------------------------------
(* main() *)

NoTarget == ~root /\ \A f \in {"libexec", "wrappers", "sudoers", "unit"} : file[f] = "absent"

\* load_bundle() keeps the bytes it verified.
Begin(i, v) ==
  /\ inst[i].step = "idle" /\ Loadable(v) /\ NoTarget
  /\ inst' = [inst EXCEPT ![i].step = "claim",
                          ![i].from = v, ![i].bytes = Payload(v)]
  /\ UNCHANGED <<onDisk, updater, unit, platform>>

\* 'bootstrap file mismatch', 'existing managed target requires inspection',
\* expired metadata, another platform, an unprotected parent.
BeginRefused(i, v) ==
  /\ Runnable(v)
  /\ Moves(i, "idle", "ended")
  /\ UNCHANGED <<onDisk, updater, unit, platform>>

\* Bug: ACTIVE_UNIT is set before the directory is this installer's.
ClaimEarly(i) ==
  /\ inst[i].step = "claim"
  /\ inst' = [inst EXCEPT ![i].step = IF root THEN "stop" ELSE "layout", ![i].active = TRUE]
  /\ root' = TRUE
  /\ UNCHANGED <<file, release, sealed, report, updater, unit, platform>>

\* ROOT.mkdir() decides between installers that passed the same checks.
Claim(i) ==
  /\ Moves(i, "claim", IF root THEN "ended" ELSE "layout")
  /\ root' = TRUE
  /\ UNCHANGED <<file, release, sealed, report, updater, unit, platform>>

\* The directories below it, and ACTIVE_UNIT = unit.
Layout(i) ==
  /\ inst[i].step = "layout"
  /\ inst' = [inst EXCEPT ![i].step = "create", ![i].active = TRUE]
  /\ UNCHANGED <<onDisk, updater, unit, platform>>

\* write_new(): the file exists before its content does.
Create(i) ==
  LET f == Plan[inst[i].n] IN
  /\ Moves(i, "create", "fill")
  /\ file[f] = "absent"
  /\ file' = [file EXCEPT ![f] = "torn"]
  /\ UNCHANGED <<root, release, sealed, report, updater, unit, platform>>

\* Bug: the files are read from the bundle again.
StagedAgain(i, f) == IF f = "release" THEN Payload(inst[i].from) ELSE release

\* stage_and_validate_release() writes the bytes that were verified.
Staged(i, f) == IF f = "release" THEN inst[i].bytes ELSE release

Fill(i) ==
  LET f == Plan[inst[i].n] IN
  /\ inst[i].step = "fill"
  /\ file' = [file EXCEPT ![f] = "ok"]
  /\ release' = Staged(i, f)
  /\ inst' = [inst EXCEPT ![i].n = @ + 1,
                          ![i].step = IF f = "unit" THEN "flag" ELSE "create"]
  /\ UNCHANGED <<root, sealed, report, updater, unit, platform>>

\* START_ATTEMPTED = True comes before the command.
Flag(i) ==
  /\ inst[i].step = "flag"
  /\ inst' = [inst EXCEPT ![i].step = "start", ![i].attempted = TRUE]
  /\ UNCHANGED <<onDisk, updater, unit, platform>>

\* systemctl enable --now, launchctl bootstrap: done, or failed half-way.
StartUnit(i) ==
  /\ Moves(i, "start", "load")
  /\ service' = [enabled |-> TRUE, running |-> TRUE]
  /\ UNCHANGED <<onDisk, updater, proven, platform>>

StartFails(i) ==
  /\ Moves(i, "start", "stop")
  /\ service' \in [enabled : BOOLEAN, running : BOOLEAN]
  /\ UNCHANGED <<onDisk, updater, proven, platform>>

\* Bug: the record is written although the service does not answer.
ProbeIgnored(i) ==
  /\ Moves(i, "load", "record")
  /\ UNCHANGED <<onDisk, updater, unit, platform>>

\* Manager() reads the files; probe() asks the service and logs the success.
Probe(i) ==
  /\ service.running /\ Moves(i, "load", "record")
  /\ proven' = TRUE
  /\ UNCHANGED <<onDisk, updater, service, platform>>

ProbeFails(i) ==
  /\ ~service.running /\ Moves(i, "load", "stop")
  /\ UNCHANGED <<onDisk, updater, unit, platform>>

\* Bug: installed.json.new is opened without O_EXCL.
RecordOver(i) ==
  /\ Moves(i, "record", "rename")
  /\ tmp' = "installer"
  /\ UNCHANGED <<onDisk, ledger, client, unit, platform>>

\* record() without update.lock: a client that is writing makes it fail.
Record(i) ==
  /\ Moves(i, "record", IF tmp = "none" THEN "rename" ELSE "stop")
  /\ tmp' = IF tmp = "none" THEN "installer" ELSE tmp
  /\ UNCHANGED <<onDisk, ledger, client, unit, platform>>

Rename(i) ==
  /\ Moves(i, "rename", "seal")
  /\ ledger' = "proof" /\ tmp' = "none"
  /\ UNCHANGED <<onDisk, client, unit, platform>>

\* save() of the receipt; print() may still fail after it.
Seal(i) ==
  /\ Moves(i, "seal", "print")
  /\ sealed' = TRUE
  /\ UNCHANGED <<root, file, release, report, updater, unit, platform>>

Report(i) ==
  /\ Moves(i, "print", "ended")
  /\ UNCHANGED <<onDisk, updater, unit, platform>>
-----------------------------------------------------------------------------
(* stop_failed_install() *)

\* Any exception, Ctrl-C included; SIGKILL leaves no handler.
Interrupt(i) ==
  /\ inst[i].step \notin {"idle", "ended"}
  /\ \E to \in {"ended"} \cup IF inst[i].active /\ inst[i].outcome = "none"
                            THEN {"stop"} ELSE {} : Moves(i, inst[i].step, to)
  /\ UNCHANGED <<onDisk, updater, unit, platform>>

Outcome(i, o) == inst' = [inst EXCEPT ![i].step = "note", ![i].outcome = o]

StopSkipped(i) ==
  /\ inst[i].step = "stop" /\ ~inst[i].attempted
  /\ Outcome(i, "not attempted")
  /\ UNCHANGED <<onDisk, updater, unit, platform>>

\* Bug: systemctl stop, without disable.
StopOnly(i) ==
  /\ inst[i].step = "stop" /\ inst[i].attempted
  /\ Outcome(i, "command succeeded")
  /\ service' = [service EXCEPT !.running = FALSE]
  /\ UNCHANGED <<onDisk, updater, proven, platform>>

\* systemctl disable --now; launchctl bootout keeps the plist of the next boot.
StopUnit(i) ==
  /\ inst[i].step = "stop" /\ inst[i].attempted
  /\ Outcome(i, "command succeeded")
  /\ service' = [enabled |-> platform = "darwin" /\ service.enabled, running |-> FALSE]
  /\ UNCHANGED <<onDisk, updater, proven, platform>>

\* 'command failed', 'timed out', 'execution failed': whatever was done by then.
StopFails(i) ==
  /\ inst[i].step = "stop" /\ inst[i].attempted
  /\ Outcome(i, "command failed")
  /\ service' \in {service, [service EXCEPT !.running = FALSE],
                   [enabled |-> FALSE, running |-> FALSE]}
  /\ UNCHANGED <<onDisk, updater, proven, platform>>

Note(i) ==
  /\ Moves(i, "note", "ended")
  /\ report' = IF report = "none" THEN inst[i].outcome ELSE report
  /\ UNCHANGED <<root, file, release, sealed, updater, unit, platform>>
-----------------------------------------------------------------------------
(* Clients and the host *)

\* The sudoers entry lets a client run check, which needs policy and ledger.  When the
\* channel answers with the release installed, the check begins to write the ledger; it
\* changes nothing when it is offline or somebody else's installed.json.new is there.
ClientCheck ==
  /\ client = "away" /\ Ok("sudoers") /\ Ok("libexec") /\ Ok("policy") /\ Ok("ledger")
  /\ tmp = "none"
  /\ client' = "writing" /\ tmp' = "client"
  /\ UNCHANGED <<inst, onDisk, ledger, unit, platform>>

ClientRename ==
  /\ client = "writing"
  /\ client' = "away" /\ ledger' = "check" /\ tmp' = "none"
  /\ UNCHANGED <<inst, onDisk, unit, platform>>

\* Killed, or the disk is full: an interrupted write stays for the operator.
ClientEnds ==
  /\ client = "writing" /\ client' = "away"
  /\ UNCHANGED <<inst, onDisk, ledger, tmp, unit, platform>>

\* systemd starts what is enabled, launchd every plist it finds.
AtBoot == IF platform = "linux" THEN service.enabled ELSE Ok("unit")

Reboot ==
  /\ inst' = [i \in Installers |-> IF inst[i].step = "idle" THEN Ready ELSE Gone]
  /\ service' = [service EXCEPT !.running = AtBoot]
  /\ client' = "away"
  /\ UNCHANGED <<onDisk, ledger, tmp, proven, platform>>

HostInit ==
  /\ platform \in {"linux", "darwin"}
  /\ inst = [i \in Installers |-> Ready]
  /\ root = FALSE /\ sealed = FALSE /\ proven = FALSE
  /\ file = [f \in Files |-> "absent"] /\ release = NoBoot
  /\ ledger = "never" /\ tmp = "none" /\ report = "none" /\ client = "away"
  /\ service = [enabled |-> FALSE, running |-> FALSE]

HostNext ==
  \/ \E i \in Installers :
       \/ \E v \in Versions : Begin(i, v) \/ BeginRefused(i, v)
       \/ Claim(i) \/ Layout(i) \/ Create(i) \/ Fill(i) \/ Flag(i) \/ StartUnit(i)
       \/ StartFails(i) \/ Probe(i) \/ ProbeFails(i) \/ Record(i) \/ Rename(i)
       \/ Seal(i) \/ Report(i) \/ Interrupt(i) \/ StopSkipped(i) \/ StopUnit(i)
       \/ StopFails(i) \/ Note(i)
  \/ ClientCheck \/ ClientRename \/ ClientEnds \/ Reboot

Init == BuildInit /\ HostInit

Next == \/ BuildNext /\ UNCHANGED hostVars
        \/ HostNext /\ UNCHANGED buildVars

Spec == Init /\ [][Next]_<<buildVars, hostVars>>
-----------------------------------------------------------------------------
\* Types; and whoever is about to rename installed.json.new is the one who created
\* it, so that a client and the installer never write one file together.
HostTypeOK ==
  /\ platform \in {"linux", "darwin"} /\ root \in BOOLEAN /\ sealed \in BOOLEAN
  /\ file \in [Files -> {"absent", "torn", "ok"}]
  /\ service \in [enabled : BOOLEAN, running : BOOLEAN]
  /\ ledger \in {"never", "check", "proof"} /\ tmp \in {"none", "client", "installer"}
  /\ report \in {"none", "not attempted", "command succeeded", "command failed"}
  /\ client \in {"away", "writing"}
  /\ client = "writing" => tmp = "client"
  /\ \A i \in Installers :
       /\ inst[i].step \in Steps /\ inst[i].n \in 1 .. Len(Plan) + 1
       /\ inst[i].step = "rename" => tmp = "installer"

\* What clients may run as root is complete before they may run it, whichever
\* step an installer stops at (test_fresh_linux_validation_sees_executables_before_grants).
GrantsFollowStaging ==
  file["sudoers"] # "absent" =>
    \A f \in {"release", "policy", "ledger", "libexec"} : Ok(f)

\* The release on the host is one complete build, whatever happens to the bundle
\* after its hashes were checked (test_verified_snapshot_survives_staging_swap).
InstalledIsOneBuild ==
  Ok("release") => /\ release.manifest.made = release.bins
                   /\ Len(release.bins) = Artefacts

\* 'installed and health verified' is only written for a service that passed its
\* proof, with every file in place and the verification in the ledger, also when
\* clients check at the same time.
SealedIsProven ==
  sealed => proven /\ ledger # "never" /\ \A f \in Files : Ok(f)

\* installation-failed.json can be relied on: a service it reports as stopped, or
\* as never started, is down and, on Linux, stays down over the next boot; an
\* installer that lost against another one does not write it
\* (test_failed_stop_and_timeout_are_not_reported_as_stopped).
StopReportIsTrue ==
  report \in {"not attempted", "command succeeded"} /\ platform = "linux" =>
    ~service.enabled /\ ~service.running
=============================================================================

---------------------------- MODULE InstallerProofs ----------------------------
(***************************************************************************)
(* Proofs about the builder and the installer: what a bundle that the      *)
(* pinned installer accepts contains, and what an installation leaves on   *)
(* the host, for every number of builders, installers, versions and files  *)
(* of a build.                                                             *)
(***************************************************************************)
EXTENDS HostInstaller, SequenceTheorems, TLAPS

(***************************************************************************)
(* The builder's inductive invariant.                                      *)
(***************************************************************************)
Manifests == [made : Seq(Versions), by : Builders \cup {Nobody}]
Boots == [bins : Seq(Versions), manifest : Manifests]
Bundles == [dir : BOOLEAN, bins : Seq(Versions), manifest : Manifests,
            boot : Boots, pin : Boots, receipt : BOOLEAN]
BuildSteps == {"idle", "hashed", "compile", "bootstrap", "installer", "receipt",
               "ended"}
Builds == [step : BuildSteps, id : Versions, made : Seq(Versions)]

BuilderTypes ==
  /\ source \in Versions /\ changed \in SUBSET Versions /\ edits \in 0 .. MaxEdits
  /\ stood \in [Builders -> SUBSET Versions]
  /\ build \in [Builders -> Builds] /\ bundle \in [Versions -> Bundles]

Working(b) == build[b].step \in {"compile", "bootstrap", "installer", "receipt"}

\* mkdir() gives a directory to one builder, which finds nothing finished in it.
OneWorker ==
  /\ \A b, c \in Builders : Working(b) /\ Working(c) /\ build[b].id = build[c].id => b = c
  /\ \A b \in Builders : Working(b) =>
       bundle[build[b].id].dir /\ ~bundle[build[b].id].receipt

\* What is in the directory at each step of the builder that made it.
Compiling(b) ==
  LET u == bundle[build[b].id] IN
  /\ build[b].step = "hashed" => build[b].made = <<>>
  /\ build[b].step = "compile" => /\ u.bins = build[b].made /\ u.pin = NoBoot
                                  /\ u.manifest = NoManifest

Listed(b) ==
  LET u == bundle[build[b].id] IN
  build[b].step = "bootstrap" =>
    /\ u.manifest.made = u.bins /\ Len(u.bins) = Artefacts /\ u.pin = NoBoot

Booted(b) ==
  LET u == bundle[build[b].id] IN
  build[b].step = "installer" =>
    /\ u.boot.bins = u.bins /\ u.boot.manifest = u.manifest
    /\ u.boot.manifest.made = u.boot.bins /\ Len(u.boot.bins) = Artefacts

\* What the installer copy vouches for, and what still is so afterwards.
Pinned(v) ==
  LET u == bundle[v] IN
  u.pin # NoBoot =>
    /\ u.pin = u.boot /\ u.boot.manifest = u.manifest
    /\ u.boot.manifest.made = u.boot.bins /\ Len(u.boot.bins) = Artefacts
    /\ v \notin changed => u.boot.bins = u.bins

\* What a build hashed and compiled stood while it was at work.
Seen(b) ==
  /\ build[b].step \notin {"idle", "ended"} => source \in stood[b] /\ build[b].id \in stood[b]
  /\ \A n \in 1 .. Len(build[b].made) : build[b].made[n] \in stood[b]

\* So did what is in the directory, of the build that its manifest is from.
Named(v) ==
  LET seen == stood[bundle[v].manifest.by] IN
  bundle[v].manifest.made # <<>> =>
    /\ bundle[v].manifest.by \in Builders /\ v \in seen
    /\ \A n \in 1 .. Len(bundle[v].bins) : bundle[v].bins[n] \in seen

Sourced == /\ \A b \in Builders : Seen(b)
           /\ \A v \in Versions \ changed : Named(v)

Room == \A v \in Versions : /\ Len(bundle[v].bins) <= Artefacts
                            /\ ~bundle[v].dir => bundle[v] = Absent

BuilderInv ==
  /\ BuilderTypes /\ OneWorker /\ Sourced /\ Room
  /\ \A b \in Builders : Compiling(b) /\ Listed(b) /\ Booted(b)
  /\ \A v \in Versions : Pinned(v)

(***************************************************************************)
(* The installer's inductive invariant.                                    *)
(***************************************************************************)
Outcomes == {"none", "not attempted", "command succeeded", "command failed"}
Insts == [step : Steps, n : 1 .. 11, from : Versions, bytes : Boots,
          active : BOOLEAN, attempted : BOOLEAN, outcome : Outcomes]

HostTypes ==
  /\ platform \in {"linux", "darwin"} /\ root \in BOOLEAN /\ sealed \in BOOLEAN
  /\ proven \in BOOLEAN
  /\ inst \in [Installers -> Insts]
  /\ file \in [Files -> {"absent", "torn", "ok"}] /\ release \in Boots
  /\ service \in [enabled : BOOLEAN, running : BOOLEAN]
  /\ ledger \in {"never", "check", "proof"} /\ tmp \in {"none", "client", "installer"}
  /\ report \in Outcomes /\ client \in {"away", "writing"}

\* The installer has made the directory and is still at work.
Active(i) == inst[i].step \notin {"idle", "claim", "ended"}
Off == ~service.enabled /\ ~service.running
WholeBuild(p) == p.manifest.made = p.bins /\ Len(p.bins) = Artefacts

\* mkdir() gives the host to one installer.
OneInstaller ==
  /\ \A i, j \in Installers : Active(i) /\ Active(j) => i = j
  /\ \A i \in Installers : Active(i) => root /\ report = "none"

\* Nothing is on a host without the directory.
Untouched == ~root => /\ \A f \in Files : file[f] = "absent"
                      /\ Off /\ ~sealed /\ report = "none"

\* A file is only begun when those before it in Plan are complete.
InOrder == \A m, n \in 1 .. 10 : m < n /\ file[Plan[n]] # "absent" => Ok(Plan[m])

\* What an installer relies on: its copy of the bundle, and its place in Plan.
Placed(i) ==
  /\ inst[i].step \notin {"idle", "ended"} => WholeBuild(inst[i].bytes)
  /\ inst[i].step \in {"idle", "claim", "layout"} => ~inst[i].active /\ inst[i].n = 1
  /\ inst[i].step = "layout" => \A m \in 1 .. 10 : file[Plan[m]] = "absent"
  /\ inst[i].step = "create" => /\ inst[i].n \in 1 .. 10
                                /\ \A m \in 1 .. 10 : m < inst[i].n => Ok(Plan[m])
                                /\ \A m \in 1 .. 10 : inst[i].n <= m => file[Plan[m]] = "absent"
  /\ inst[i].step = "fill" => /\ inst[i].n \in 1 .. 10
                              /\ \A m \in 1 .. 10 : m < inst[i].n => Ok(Plan[m])
                              /\ file[Plan[inst[i].n]] = "torn"
                              /\ \A m \in 1 .. 10 : inst[i].n < m => file[Plan[m]] = "absent"
  /\ inst[i].step \in {"flag", "start", "load", "record", "rename", "seal", "print"} =>
       \A f \in Files : Ok(f)

\* What an installer that has come so far has done, and has not.
Reached(i) ==
  /\ inst[i].step \in {"idle", "claim", "layout", "create", "fill", "flag"} =>
       ~inst[i].attempted
  /\ inst[i].step = "start" => inst[i].attempted
  /\ Active(i) /\ ~inst[i].attempted => Off
  /\ inst[i].step \in {"record", "rename", "seal", "print"} => proven
  /\ inst[i].step = "rename" => tmp = "installer"
  /\ inst[i].step \in {"seal", "print"} => ledger # "never"
  /\ inst[i].step = "note" /\ platform = "linux"
       /\ inst[i].outcome \in {"not attempted", "command succeeded"} => Off

HostInv ==
  /\ HostTypes /\ OneInstaller /\ Untouched /\ InOrder
  /\ \A i \in Installers : Placed(i) /\ Reached(i)
  /\ client = "writing" => tmp = "client"
  /\ InstalledIsOneBuild /\ SealedIsProven /\ StopReportIsTrue

InstallInv == BuilderInv /\ HostInv
-----------------------------------------------------------------------------
(* The builder *)

USE BuilderAssumption

LEMMA Blank ==
  /\ NoManifest \in Manifests /\ NoBoot \in Boots /\ Absent \in Bundles
  /\ Over \in Builds
BY DEF NoManifest, NoBoot, Absent, Over, Manifests, Boots, Bundles, Builds, BuildSteps

LEMMA BuilderStarts == BuildInit => BuilderInv
<1> SUFFICES ASSUME BuildInit PROVE BuilderInv OBVIOUS
<1>1. BuilderTypes
  BY Blank DEF BuildInit, BuilderTypes, Builds, BuildSteps
<1>2. OneWorker /\ Sourced /\ Room
  BY Blank DEF BuildInit, OneWorker, Sourced, Seen, Named, Room, Working, Absent, NoManifest
<1>3. \A b \in Builders : Compiling(b) /\ Listed(b) /\ Booted(b)
  BY DEF BuildInit, Compiling, Listed, Booted
<1>4. \A v \in Versions : Pinned(v)
  BY DEF BuildInit, Pinned, Absent
<1> QED BY <1>1, <1>2, <1>3, <1>4 DEF BuilderInv

\* Write changes one field of one bundle.
LEMMA Written ==
  ASSUME BuilderTypes, NEW b \in Builders,
         NEW field \in {"dir", "bins", "manifest", "boot", "pin", "receipt"},
         NEW value, Write(b, field, value)
  PROVE  /\ DOMAIN bundle' = Versions
         /\ \A v \in Versions : v # build[b].id => bundle'[v] = bundle[v]
         /\ bundle'[build[b].id][field] = value
         /\ \A g \in {"dir", "bins", "manifest", "boot", "pin", "receipt"} :
              g # field => bundle'[build[b].id][g] = bundle[build[b].id][g]
         /\ DOMAIN bundle'[build[b].id] = {"dir", "bins", "manifest", "boot", "pin", "receipt"}
BY DEF BuilderTypes, Write, Bundles, Builds

Fields == {"dir", "bins", "manifest", "boot", "pin", "receipt"}

\* A bundle of the right type with one field changed to a value of its type.
LEMMA WrittenType ==
  ASSUME BuilderTypes, NEW b \in Builders, NEW field \in Fields, NEW value,
         Write(b, field, value),
         field \in {"dir", "receipt"} => value \in BOOLEAN,
         field = "bins" => value \in Seq(Versions),
         field = "manifest" => value \in Manifests,
         field \in {"boot", "pin"} => value \in Boots
  PROVE  bundle' \in [Versions -> Bundles]
BY DEF BuilderTypes, Write, Bundles, Builds, Fields

\* A step of one builder from `from' to `to', which stays with its sources.
LEMMA Stepped ==
  ASSUME BuilderTypes, NEW b \in Builders, NEW from, NEW to \in BuildSteps \ {"ended"},
         BuildTo(b, from, to)
  PROVE  /\ build' \in [Builders -> Builds]
         /\ \A c \in Builders : c # b => build'[c] = build[c]
         /\ build[b].step = from /\ build'[b].step = to
         /\ build'[b].id = build[b].id /\ build'[b].made = build[b].made
         /\ source' = source /\ edits' = edits /\ UNCHANGED <<stood, changed>>
BY DEF BuilderTypes, BuildTo, Builds, history

LEMMA Ended ==
  ASSUME BuilderTypes, NEW b \in Builders, build' = [build EXCEPT ![b] = Over]
  PROVE  /\ build' \in [Builders -> Builds]
         /\ \A c \in Builders : c # b => build'[c] = build[c]
         /\ build'[b].step = "ended"
BY Blank DEF BuilderTypes, Over

LEMMA HashKeeps ==
  ASSUME BuilderInv, NEW b \in Builders, HashSources(b)
  PROVE  BuilderInv'
<1> USE DEF BuilderInv
<1>1. /\ build' \in [Builders -> Builds]
      /\ \A c \in Builders : c # b => build'[c] = build[c]
      /\ build'[b].step = "hashed" /\ build'[b].id = source /\ build'[b].made = <<>>
      /\ bundle' = bundle /\ source' = source /\ edits' = edits /\ changed' = changed
      /\ stood' = [stood EXCEPT ![b] = @ \cup {source}]
  BY DEF HashSources, BuildStart, BuilderTypes, Builds, BuildSteps
<1>2. BuilderTypes'
  BY <1>1 DEF BuilderTypes
<1>3. OneWorker' /\ Room'
  BY <1>1 DEF OneWorker, Room, Working
<1>7. \A c \in Builders : stood[c] \subseteq stood'[c] /\ source \in stood'[b]
  BY <1>1 DEF BuilderTypes
<1>8. \A c \in Builders : Seen(c)'
  BY <1>1, <1>7 DEF Sourced, Seen
<1>9. \A v \in Versions \ changed : Named(v)'
  BY <1>1, <1>7 DEF Sourced, Named
<1>10. Sourced'
  BY <1>1, <1>8, <1>9 DEF Sourced
<1>4. \A c \in Builders : (Compiling(c) /\ Listed(c) /\ Booted(c))'
  BY <1>1 DEF Compiling, Listed, Booted
<1>5. \A v \in Versions : Pinned(v)'
  BY <1>1 DEF Pinned
<1> QED BY <1>2, <1>3, <1>4, <1>5, <1>10

LEMMA EndKeeps ==
  ASSUME BuilderInv, NEW b \in Builders, BundleExists(b) \/ BuildFails(b)
  PROVE  BuilderInv'
<1> USE DEF BuilderInv
<1>1. /\ build' = [build EXCEPT ![b] = Over]
      /\ bundle' = bundle /\ source' = source /\ edits' = edits /\ UNCHANGED <<stood, changed>>
  BY DEF BundleExists, BuildFails, BuildTo, history
<1>2. /\ build' \in [Builders -> Builds]
      /\ \A c \in Builders : c # b => build'[c] = build[c]
      /\ build'[b].step = "ended"
  BY <1>1, Ended
<1>3. BuilderTypes'
  BY <1>1, <1>2 DEF BuilderTypes
<1>4. OneWorker' /\ Room'
  BY <1>1, <1>2 DEF OneWorker, Room, Working
<1>7. Sourced'
  BY <1>1, <1>2 DEF Sourced, Seen, Named, Over
<1>5. \A c \in Builders : (Compiling(c) /\ Listed(c) /\ Booted(c))'
  BY <1>1, <1>2 DEF Compiling, Listed, Booted
<1>6. \A v \in Versions : Pinned(v)'
  BY <1>1 DEF Pinned
<1> QED BY <1>3, <1>4, <1>5, <1>6, <1>7

\* Nobody else works in the directory that a builder makes or works in.
LEMMA Alone ==
  ASSUME BuilderInv, NEW b \in Builders,
         Working(b) \/ ~bundle[build[b].id].dir,
         NEW c \in Builders, c # b, Working(c)
  PROVE  build[c].id # build[b].id
BY DEF BuilderInv, OneWorker

\* What a step in one directory does not disturb.
LEMMA Elsewhere ==
  ASSUME BuilderInv, NEW b \in Builders,
         Working(b) \/ ~bundle[build[b].id].dir,
         build[b].step \notin {"idle", "ended"},
         \A c \in Builders : c # b => build'[c] = build[c],
         build'[b].id = build[b].id, Working(b)',
         source' = source, stood' = stood, changed' = changed,
         \A v \in Versions : v # build[b].id => bundle'[v] = bundle[v],
         bundle'[build[b].id].dir, ~bundle'[build[b].id].receipt,
         Len(bundle'[build[b].id].bins) <= Artefacts,
         Seen(b)', build[b].id \notin changed => Named(build[b].id)'
  PROVE  /\ OneWorker' /\ Sourced' /\ Room'
         /\ \A c \in Builders : c # b => (Compiling(c) /\ Listed(c) /\ Booted(c))'
         /\ \A v \in Versions : v # build[b].id => Pinned(v)'
<1> DEFINE id == build[b].id
<1>0. BuilderTypes /\ OneWorker /\ Sourced /\ Room
  BY DEF BuilderInv
<1>1. /\ \A c \in Builders : build[c].id \in Versions
      /\ \A c \in Builders : c # b /\ Working(c) => build[c].id # id
      /\ \A c \in Builders : c # b => Working(c)' = Working(c)
  BY <1>0, Alone DEF BuilderTypes, Builds, Working
<1>2. \A c \in Builders : Working(c)' => bundle'[build'[c].id].dir /\ ~bundle'[build'[c].id].receipt
  BY <1>0, <1>1 DEF OneWorker
<1>3. \A c, d \in Builders : Working(c)' /\ Working(d)' /\ build'[c].id = build'[d].id => c = d
  BY <1>0, <1>1 DEF OneWorker
<1>4. Sourced'
  <2>1. \A c \in Builders : Seen(c)'
    BY <1>0 DEF Sourced, Seen
  <2>2. \A v \in Versions \ changed : v # id => Named(v)'
    BY <1>0 DEF Sourced, Named
  <2>3. ASSUME NEW v \in Versions \ changed PROVE Named(v)'
    <3>1. CASE v = id
      <4>1. build'[b].id = id
        OBVIOUS
      <4> QED BY <3>1, <4>1
    <3> QED BY <2>2, <3>1
  <2> QED BY <2>1, <2>3 DEF Sourced
<1>5. Room'
  BY <1>0 DEF Room
<1>6. ASSUME NEW c \in Builders, c # b
      PROVE  (Compiling(c) /\ Listed(c) /\ Booted(c))'
  <2>1. Compiling(c) /\ Listed(c) /\ Booted(c) /\ build'[c] = build[c]
    BY <1>6 DEF BuilderInv
  <2>2. CASE Working(c)
    BY <1>1, <1>6, <2>1, <2>2 DEF Compiling, Listed, Booted
  <2>3. CASE ~Working(c)
    BY <2>1, <2>3 DEF Compiling, Listed, Booted, Working
  <2> QED BY <2>2, <2>3
<1>7. \A v \in Versions : v # id => Pinned(v)'
  BY DEF BuilderInv, Pinned
<1> QED BY <1>2, <1>3, <1>4, <1>5, <1>6, <1>7 DEF OneWorker

LEMMA MakeDirKeeps ==
  ASSUME BuilderInv, NEW b \in Builders, MakeDir(b)
  PROVE  BuilderInv'
<1> DEFINE id == build[b].id
<1>1. BuildTo(b, "hashed", "compile") /\ Write(b, "dir", TRUE)
  BY DEF MakeDir
<1>2. /\ id \in Versions /\ bundle[id] \in Bundles /\ BuilderTypes
      /\ Len(bundle[id].bins) <= Artefacts /\ bundle[id].bins \in Seq(Versions)
      /\ Seen(b) /\ (id \notin changed => Named(id))
  BY DEF BuilderInv, BuilderTypes, Builds, Bundles, Room, Sourced
<1>3. /\ build' \in [Builders -> Builds]
      /\ \A c \in Builders : c # b => build'[c] = build[c]
      /\ build[b].step = "hashed" /\ build'[b].step = "compile"
      /\ build'[b].id = id /\ build'[b].made = build[b].made
      /\ source' = source /\ edits' = edits /\ UNCHANGED <<stood, changed>>
  BY <1>1, <1>2, Stepped DEF BuildSteps
<1>4. /\ ~bundle[id].dir /\ ~bundle[id].receipt /\ bundle[id].bins = <<>>
      /\ bundle[id].pin = NoBoot /\ build[b].made = <<>>
      /\ bundle[id].manifest = NoManifest
  BY <1>2, <1>3 DEF BuilderInv, MakeDir, Room, Absent, Compiling
<1>5. /\ \A v \in Versions : v # id => bundle'[v] = bundle[v]
      /\ bundle'[id].dir
      /\ bundle'[id].bins = bundle[id].bins /\ bundle'[id].manifest = bundle[id].manifest
      /\ bundle'[id].boot = bundle[id].boot /\ bundle'[id].pin = bundle[id].pin
      /\ bundle'[id].receipt = bundle[id].receipt
  BY <1>1, <1>2, Written
<1>6. BuilderTypes'
  <2>1. TRUE \in BOOLEAN
    BY <1>2, <1>3 DEF BuilderTypes, Bundles, Boots, Manifests, Builds, Payload
  <2>2. bundle' \in [Versions -> Bundles]
    BY <1>1, <1>2, <2>1, WrittenType DEF Fields
  <2> QED BY <1>2, <1>3, <2>2 DEF BuilderTypes
<1>7. /\ OneWorker' /\ Sourced' /\ Room'
      /\ \A c \in Builders : c # b => (Compiling(c) /\ Listed(c) /\ Booted(c))'
      /\ \A v \in Versions : v # id => Pinned(v)'
  <2>1. /\ Working(b)' /\ (Working(b) \/ ~bundle[id].dir)
        /\ build[b].step \notin {"idle", "ended"}
        /\ bundle'[id].dir /\ ~bundle'[id].receipt /\ Len(bundle'[id].bins) <= Artefacts
    BY <1>2, <1>3, <1>4, <1>5 DEF Working
  <2>2. Seen(b)' /\ (id \notin changed => Named(id)')
    BY <1>2, <1>3, <1>4, <1>5 DEF Seen, Named, NoManifest
  <2> QED BY <1>3, <1>5, <2>1, <2>2, Elsewhere
<1>8. (Compiling(b) /\ Listed(b) /\ Booted(b))'
  BY <1>3, <1>4, <1>5 DEF Compiling, Listed, Booted, Payload
<1>9. ASSUME NEW v \in Versions, v = id
      PROVE  Pinned(v)'
  BY <1>9, <1>3, <1>4, <1>5 DEF Pinned, Payload
<1>10. \A c \in Builders : (Compiling(c) /\ Listed(c) /\ Booted(c))'
  BY <1>7, <1>8
<1>11. \A v \in Versions : Pinned(v)'
  BY <1>7, <1>9
<1> QED BY <1>6, <1>7, <1>10, <1>11 DEF BuilderInv

LEMMA WriteManifestKeeps ==
  ASSUME BuilderInv, NEW b \in Builders, WriteManifest(b)
  PROVE  BuilderInv'
<1> DEFINE id == build[b].id
<1>1. BuildTo(b, "compile", "bootstrap") /\ Write(b, "manifest", [made |-> build[b].made, by |-> b])
  BY DEF WriteManifest
<1>2. /\ id \in Versions /\ bundle[id] \in Bundles /\ BuilderTypes
      /\ Len(bundle[id].bins) <= Artefacts /\ bundle[id].bins \in Seq(Versions)
      /\ Seen(b) /\ (id \notin changed => Named(id))
  BY DEF BuilderInv, BuilderTypes, Builds, Bundles, Room, Sourced
<1>3. /\ build' \in [Builders -> Builds]
      /\ \A c \in Builders : c # b => build'[c] = build[c]
      /\ build[b].step = "compile" /\ build'[b].step = "bootstrap"
      /\ build'[b].id = id /\ build'[b].made = build[b].made
      /\ source' = source /\ edits' = edits /\ UNCHANGED <<stood, changed>>
  BY <1>1, <1>2, Stepped DEF BuildSteps
<1>4. /\ bundle[id].dir /\ ~bundle[id].receipt /\ Len(build[b].made) = Artefacts
      /\ bundle[id].bins = build[b].made /\ bundle[id].pin = NoBoot
  BY <1>2, <1>3 DEF BuilderInv, WriteManifest, OneWorker, Working, Compiling
<1>5. /\ \A v \in Versions : v # id => bundle'[v] = bundle[v]
      /\ bundle'[id].manifest = [made |-> build[b].made, by |-> b]
      /\ bundle'[id].dir = bundle[id].dir /\ bundle'[id].bins = bundle[id].bins
      /\ bundle'[id].boot = bundle[id].boot /\ bundle'[id].pin = bundle[id].pin
      /\ bundle'[id].receipt = bundle[id].receipt
  BY <1>1, <1>2, Written
<1>6. BuilderTypes'
  <2>1. [made |-> build[b].made, by |-> b] \in Manifests
    BY <1>2, <1>3 DEF BuilderTypes, Bundles, Boots, Manifests, Builds, Payload
  <2>2. bundle' \in [Versions -> Bundles]
    BY <1>1, <1>2, <2>1, WrittenType DEF Fields
  <2> QED BY <1>2, <1>3, <2>2 DEF BuilderTypes
<1>7. /\ OneWorker' /\ Sourced' /\ Room'
      /\ \A c \in Builders : c # b => (Compiling(c) /\ Listed(c) /\ Booted(c))'
      /\ \A v \in Versions : v # id => Pinned(v)'
  <2>1. /\ Working(b)' /\ (Working(b) \/ ~bundle[id].dir)
        /\ build[b].step \notin {"idle", "ended"}
        /\ bundle'[id].dir /\ ~bundle'[id].receipt /\ Len(bundle'[id].bins) <= Artefacts
    BY <1>2, <1>3, <1>4, <1>5 DEF Working
  <2>2. Seen(b)' /\ (id \notin changed => Named(id)')
    BY <1>2, <1>3, <1>4, <1>5 DEF Seen, Named
  <2> QED BY <1>3, <1>5, <2>1, <2>2, Elsewhere
<1>8. (Compiling(b) /\ Listed(b) /\ Booted(b))'
  BY <1>3, <1>4, <1>5 DEF Compiling, Listed, Booted, Payload
<1>9. ASSUME NEW v \in Versions, v = id
      PROVE  Pinned(v)'
  BY <1>9, <1>3, <1>4, <1>5 DEF Pinned, Payload
<1>10. \A c \in Builders : (Compiling(c) /\ Listed(c) /\ Booted(c))'
  BY <1>7, <1>8
<1>11. \A v \in Versions : Pinned(v)'
  BY <1>7, <1>9
<1> QED BY <1>6, <1>7, <1>10, <1>11 DEF BuilderInv

LEMMA WriteBootstrapKeeps ==
  ASSUME BuilderInv, NEW b \in Builders, WriteBootstrap(b)
  PROVE  BuilderInv'
<1> DEFINE id == build[b].id
<1>1. BuildTo(b, "bootstrap", "installer") /\ Write(b, "boot", Payload(build[b].id))
  BY DEF WriteBootstrap
<1>2. /\ id \in Versions /\ bundle[id] \in Bundles /\ BuilderTypes
      /\ Len(bundle[id].bins) <= Artefacts /\ bundle[id].bins \in Seq(Versions)
      /\ Seen(b) /\ (id \notin changed => Named(id))
  BY DEF BuilderInv, BuilderTypes, Builds, Bundles, Room, Sourced
<1>3. /\ build' \in [Builders -> Builds]
      /\ \A c \in Builders : c # b => build'[c] = build[c]
      /\ build[b].step = "bootstrap" /\ build'[b].step = "installer"
      /\ build'[b].id = id /\ build'[b].made = build[b].made
      /\ source' = source /\ edits' = edits /\ UNCHANGED <<stood, changed>>
  BY <1>1, <1>2, Stepped DEF BuildSteps
<1>4. /\ bundle[id].dir /\ ~bundle[id].receipt /\ bundle[id].pin = NoBoot
      /\ bundle[id].manifest.made = bundle[id].bins /\ Len(bundle[id].bins) = Artefacts
  BY <1>2, <1>3 DEF BuilderInv, OneWorker, Working, Listed
<1>5. /\ \A v \in Versions : v # id => bundle'[v] = bundle[v]
      /\ bundle'[id].boot = Payload(build[b].id)
      /\ bundle'[id].dir = bundle[id].dir /\ bundle'[id].bins = bundle[id].bins
      /\ bundle'[id].manifest = bundle[id].manifest /\ bundle'[id].pin = bundle[id].pin
      /\ bundle'[id].receipt = bundle[id].receipt
  BY <1>1, <1>2, Written
<1>6. BuilderTypes'
  <2>1. Payload(build[b].id) \in Boots
    BY <1>2, <1>3 DEF BuilderTypes, Bundles, Boots, Manifests, Builds, Payload
  <2>2. bundle' \in [Versions -> Bundles]
    BY <1>1, <1>2, <2>1, WrittenType DEF Fields
  <2> QED BY <1>2, <1>3, <2>2 DEF BuilderTypes
<1>7. /\ OneWorker' /\ Sourced' /\ Room'
      /\ \A c \in Builders : c # b => (Compiling(c) /\ Listed(c) /\ Booted(c))'
      /\ \A v \in Versions : v # id => Pinned(v)'
  <2>1. /\ Working(b)' /\ (Working(b) \/ ~bundle[id].dir)
        /\ build[b].step \notin {"idle", "ended"}
        /\ bundle'[id].dir /\ ~bundle'[id].receipt /\ Len(bundle'[id].bins) <= Artefacts
    BY <1>2, <1>3, <1>4, <1>5 DEF Working
  <2>2. Seen(b)' /\ (id \notin changed => Named(id)')
    BY <1>2, <1>3, <1>5 DEF Seen, Named
  <2> QED BY <1>3, <1>5, <2>1, <2>2, Elsewhere
<1>8. (Compiling(b) /\ Listed(b) /\ Booted(b))'
  BY <1>3, <1>4, <1>5 DEF Compiling, Listed, Booted, Payload
<1>9. ASSUME NEW v \in Versions, v = id
      PROVE  Pinned(v)'
  BY <1>9, <1>3, <1>4, <1>5 DEF Pinned, Payload
<1>10. \A c \in Builders : (Compiling(c) /\ Listed(c) /\ Booted(c))'
  BY <1>7, <1>8
<1>11. \A v \in Versions : Pinned(v)'
  BY <1>7, <1>9
<1> QED BY <1>6, <1>7, <1>10, <1>11 DEF BuilderInv

LEMMA WriteInstallerKeeps ==
  ASSUME BuilderInv, NEW b \in Builders, WriteInstaller(b)
  PROVE  BuilderInv'
<1> DEFINE id == build[b].id
<1>1. BuildTo(b, "installer", "receipt") /\ Write(b, "pin", bundle[build[b].id].boot)
  BY DEF WriteInstaller
<1>2. /\ id \in Versions /\ bundle[id] \in Bundles /\ BuilderTypes
      /\ Len(bundle[id].bins) <= Artefacts /\ bundle[id].bins \in Seq(Versions)
      /\ Seen(b) /\ (id \notin changed => Named(id))
  BY DEF BuilderInv, BuilderTypes, Builds, Bundles, Room, Sourced
<1>3. /\ build' \in [Builders -> Builds]
      /\ \A c \in Builders : c # b => build'[c] = build[c]
      /\ build[b].step = "installer" /\ build'[b].step = "receipt"
      /\ build'[b].id = id /\ build'[b].made = build[b].made
      /\ source' = source /\ edits' = edits /\ UNCHANGED <<stood, changed>>
  BY <1>1, <1>2, Stepped DEF BuildSteps
<1>4. /\ bundle[id].dir /\ ~bundle[id].receipt /\ bundle[id].boot.bins = bundle[id].bins
      /\ bundle[id].boot.manifest = bundle[id].manifest
      /\ bundle[id].boot.manifest.made = bundle[id].boot.bins
      /\ Len(bundle[id].boot.bins) = Artefacts
  BY <1>2, <1>3 DEF BuilderInv, OneWorker, Working, Booted
<1>5. /\ \A v \in Versions : v # id => bundle'[v] = bundle[v]
      /\ bundle'[id].pin = bundle[build[b].id].boot
      /\ bundle'[id].dir = bundle[id].dir /\ bundle'[id].bins = bundle[id].bins
      /\ bundle'[id].manifest = bundle[id].manifest /\ bundle'[id].boot = bundle[id].boot
      /\ bundle'[id].receipt = bundle[id].receipt
  BY <1>1, <1>2, Written
<1>6. BuilderTypes'
  <2>1. bundle[build[b].id].boot \in Boots
    BY <1>2, <1>3 DEF BuilderTypes, Bundles, Boots, Manifests, Builds, Payload
  <2>2. bundle' \in [Versions -> Bundles]
    BY <1>1, <1>2, <2>1, WrittenType DEF Fields
  <2> QED BY <1>2, <1>3, <2>2 DEF BuilderTypes
<1>7. /\ OneWorker' /\ Sourced' /\ Room'
      /\ \A c \in Builders : c # b => (Compiling(c) /\ Listed(c) /\ Booted(c))'
      /\ \A v \in Versions : v # id => Pinned(v)'
  <2>1. /\ Working(b)' /\ (Working(b) \/ ~bundle[id].dir)
        /\ build[b].step \notin {"idle", "ended"}
        /\ bundle'[id].dir /\ ~bundle'[id].receipt /\ Len(bundle'[id].bins) <= Artefacts
    BY <1>2, <1>3, <1>4, <1>5 DEF Working
  <2>2. Seen(b)' /\ (id \notin changed => Named(id)')
    BY <1>2, <1>3, <1>5 DEF Seen, Named
  <2> QED BY <1>3, <1>5, <2>1, <2>2, Elsewhere
<1>8. (Compiling(b) /\ Listed(b) /\ Booted(b))'
  BY <1>3, <1>4, <1>5 DEF Compiling, Listed, Booted, Payload
<1>9. ASSUME NEW v \in Versions, v = id
      PROVE  Pinned(v)'
  BY <1>9, <1>3, <1>4, <1>5 DEF Pinned, Payload
<1>10. \A c \in Builders : (Compiling(c) /\ Listed(c) /\ Booted(c))'
  BY <1>7, <1>8
<1>11. \A v \in Versions : Pinned(v)'
  BY <1>7, <1>9
<1> QED BY <1>6, <1>7, <1>10, <1>11 DEF BuilderInv

LEMMA CompileKeeps ==
  ASSUME BuilderInv, NEW b \in Builders, Compile(b)
  PROVE  BuilderInv'
<1> DEFINE id == build[b].id
           made == Append(build[b].made, source)
<1>1. /\ id \in Versions /\ bundle[id] \in Bundles /\ BuilderTypes
      /\ bundle[id].bins \in Seq(Versions) /\ source \in Versions
      /\ made \in Seq(Versions) /\ Len(made) = Len(build[b].made) + 1
      /\ build[b].step = "compile" /\ Len(made) <= Artefacts
  BY DEF BuilderInv, BuilderTypes, Builds, Bundles, Compile, CompileUpTo
<1>2. /\ bundle[id].dir /\ ~bundle[id].receipt /\ bundle[id].pin = NoBoot
      /\ bundle[id].bins = build[b].made
      /\ bundle[id].manifest = NoManifest
      /\ Seen(b)
  BY <1>1 DEF BuilderInv, OneWorker, Working, Compiling, Sourced
<1>3. Write(b, "bins", made)
  BY <1>1, <1>2 DEF Compile, CompileUpTo
<1>4. /\ build' \in [Builders -> Builds]
      /\ \A c \in Builders : c # b => build'[c] = build[c]
      /\ build'[b].step = "compile" /\ build'[b].id = id /\ build'[b].made = made
      /\ source' = source /\ edits' = edits /\ UNCHANGED <<stood, changed>>
  BY <1>1 DEF Compile, CompileUpTo, BuilderTypes, Builds, history
<1>5. /\ \A v \in Versions : v # id => bundle'[v] = bundle[v]
      /\ bundle'[id].bins = made
      /\ bundle'[id].dir = bundle[id].dir /\ bundle'[id].pin = bundle[id].pin
      /\ bundle'[id].manifest = bundle[id].manifest
      /\ bundle'[id].receipt = bundle[id].receipt
  BY <1>1, <1>3, Written
<1>6. BuilderTypes'
  <2>1. bundle' \in [Versions -> Bundles]
    BY <1>1, <1>3, WrittenType DEF Fields
  <2> QED BY <1>1, <1>4, <2>1 DEF BuilderTypes
<1>7. /\ OneWorker' /\ Sourced' /\ Room'
      /\ \A c \in Builders : c # b => (Compiling(c) /\ Listed(c) /\ Booted(c))'
      /\ \A v \in Versions : v # id => Pinned(v)'
  <2>1. /\ Working(b)' /\ Working(b)
        /\ build[b].step \notin {"idle", "ended"}
        /\ bundle'[id].dir /\ ~bundle'[id].receipt /\ Len(bundle'[id].bins) <= Artefacts
    BY <1>1, <1>2, <1>4, <1>5 DEF Working
  <2>2. \A n \in 1 .. Len(made) : made[n] \in stood[b]
    <3>1. build[b].made \in Seq(Versions)
      BY <1>1 DEF BuilderTypes, Builds
    <3>2. /\ \A n \in 1 .. Len(build[b].made) : made[n] = build[b].made[n]
          /\ made[Len(build[b].made) + 1] = source
      BY <1>1, <3>1
    <3>3. source \in stood[b] /\ \A n \in 1 .. Len(build[b].made) : build[b].made[n] \in stood[b]
      BY <1>1, <1>2 DEF Seen
    <3>4. \A n \in 1 .. Len(made) : n \in 1 .. Len(build[b].made) \/ n = Len(build[b].made) + 1
      BY <1>1, <3>1
    <3> QED BY <3>2, <3>3, <3>4
  <2>3. Seen(b)' /\ Named(id)'
    BY <1>1, <1>2, <1>4, <1>5, <2>2 DEF Seen, Named, NoManifest
  <2> QED BY <1>4, <1>5, <2>1, <2>3, Elsewhere
<1>8. (Compiling(b) /\ Listed(b) /\ Booted(b))'
  BY <1>2, <1>4, <1>5 DEF Compiling, Listed, Booted
<1>9. ASSUME NEW v \in Versions, v = id
      PROVE  Pinned(v)'
  BY <1>9, <1>2, <1>5 DEF Pinned
<1>10. \A c \in Builders : (Compiling(c) /\ Listed(c) /\ Booted(c))'
  BY <1>7, <1>8
<1>11. \A v \in Versions : Pinned(v)'
  BY <1>7, <1>9
<1> QED BY <1>6, <1>7, <1>10, <1>11 DEF BuilderInv

LEMMA WriteReceiptKeeps ==
  ASSUME BuilderInv, NEW b \in Builders, WriteReceipt(b)
  PROVE  BuilderInv'
<1> DEFINE id == build[b].id
<1>1. Write(b, "receipt", TRUE) /\ build' = [build EXCEPT ![b] = Over]
      /\ source' = source /\ edits' = edits /\ UNCHANGED <<stood, changed>>
  BY DEF WriteReceipt, BuildTo, history
<1>2. /\ id \in Versions /\ bundle[id] \in Bundles /\ BuilderTypes
      /\ Working(b) /\ bundle[id].dir
      /\ \A c \in Builders : c # b /\ Working(c) => build[c].id # id
  BY Alone DEF BuilderInv, BuilderTypes, Builds, OneWorker, Working, WriteReceipt, BuildTo
<1>3. /\ build' \in [Builders -> Builds]
      /\ \A c \in Builders : c # b => build'[c] = build[c]
      /\ build'[b].step = "ended"
  BY <1>1, <1>2, Ended
<1>4. /\ \A v \in Versions : v # id => bundle'[v] = bundle[v]
      /\ bundle'[id].dir = bundle[id].dir /\ bundle'[id].bins = bundle[id].bins
      /\ bundle'[id].manifest = bundle[id].manifest
      /\ bundle'[id].boot = bundle[id].boot /\ bundle'[id].pin = bundle[id].pin
  BY <1>1, <1>2, Written
<1>5. BuilderTypes'
  <2>1. bundle' \in [Versions -> Bundles]
    BY <1>1, <1>2, WrittenType DEF Fields
  <2> QED BY <1>1, <1>2, <1>3, <2>1 DEF BuilderTypes
<1>6. \A c \in Builders : Working(c)' =>
        c # b /\ Working(c) /\ build'[c] = build[c] /\ bundle'[build[c].id] = bundle[build[c].id]
  BY <1>2, <1>3, <1>4 DEF Working, BuilderTypes, Builds
<1>7. OneWorker'
  BY <1>6 DEF OneWorker, BuilderInv
<1>8. Sourced' /\ Room'
  <2>1. Sourced'
    BY <1>1, <1>3, <1>4 DEF BuilderInv, Sourced, Seen, Named, Over
  <2>2. Room'
    BY <1>2, <1>4 DEF BuilderInv, Room
  <2> QED BY <2>1, <2>2
<1>9. ASSUME NEW c \in Builders
      PROVE  (Compiling(c) /\ Listed(c) /\ Booted(c))'
  <2>1. CASE Working(c)'
    BY <1>6, <2>1 DEF BuilderInv, Compiling, Listed, Booted, Working
  <2>2. CASE ~Working(c)' /\ c # b
    BY <1>3, <2>2 DEF BuilderInv, Compiling, Listed, Booted, Working
  <2>3. CASE c = b
    BY <1>3, <2>3 DEF Compiling, Listed, Booted
  <2> QED BY <2>1, <2>2, <2>3
<1>10. ASSUME NEW v \in Versions
       PROVE  Pinned(v)'
  BY <1>1, <1>4 DEF BuilderInv, Pinned
<1> QED BY <1>5, <1>7, <1>8, <1>9, <1>10 DEF BuilderInv

LEMMA EditKeeps ==
  ASSUME BuilderInv, Edit
  PROVE  BuilderInv'
<1>1. /\ build' = build /\ bundle' = bundle /\ changed' = changed
      /\ \A b \in Builders : stood[b] \subseteq stood'[b]
      /\ \A b \in Builders : build[b].step \notin {"idle", "ended"} => source' \in stood'[b]
  BY DEF Edit
<1>2. BuilderTypes'
  BY DEF BuilderInv, BuilderTypes, Edit, Builds, BuilderAssumption
<1>3. OneWorker' /\ Room'
  BY <1>1 DEF BuilderInv, OneWorker, Room, Working
<1>6. Sourced'
  BY <1>1 DEF BuilderInv, Sourced, Seen, Named
<1>4. \A c \in Builders : (Compiling(c) /\ Listed(c) /\ Booted(c))'
  BY <1>1 DEF BuilderInv, Compiling, Listed, Booted
<1>5. \A v \in Versions : Pinned(v)'
  BY <1>1 DEF BuilderInv, Pinned
<1> QED BY <1>2, <1>3, <1>4, <1>5, <1>6 DEF BuilderInv

LEMMA Overwritten ==
  ASSUME NEW S, NEW s \in Seq(S), NEW n, NEW w \in S
  PROVE  [s EXCEPT ![n] = w] \in Seq(S) /\ Len([s EXCEPT ![n] = w]) = Len(s)
<1> DEFINE t == [s EXCEPT ![n] = w]
<1>1. /\ Len(s) \in Nat /\ DOMAIN s = 1 .. Len(s) /\ \A k \in 1 .. Len(s) : s[k] \in S
  OBVIOUS
<1>2. t \in [1 .. Len(s) -> S]
  BY <1>1
<1>3. t \in Seq(S)
  BY <1>1, <1>2, SeqDef
<1>4. DOMAIN t = 1 .. Len(t) /\ Len(t) \in Nat /\ DOMAIN t = 1 .. Len(s)
  BY <1>1, <1>2, <1>3
<1>5. Len(t) = Len(s)
  BY <1>1, <1>4, LenProperties
<1> QED BY <1>3, <1>5

LEMMA ReplaceKeeps ==
  ASSUME BuilderInv, NEW v \in Versions, Replace(v)
  PROVE  BuilderInv'
<1>1. PICK n \in 1 .. Artefacts, w \in Versions :
        bundle' = [bundle EXCEPT ![v].bins[n] = w]
  BY DEF Replace
<1>2. /\ build' = build /\ source' = source /\ edits' = edits + 1 /\ edits < MaxEdits
      /\ changed' = changed \cup {v} /\ stood' = stood /\ bundle[v].receipt
  BY DEF Replace
<1>3. BuilderTypes /\ bundle[v] \in Bundles /\ bundle[v].bins \in Seq(Versions)
  BY DEF BuilderInv, BuilderTypes, Bundles
<1>4. /\ [bundle[v].bins EXCEPT ![n] = w] \in Seq(Versions)
      /\ Len([bundle[v].bins EXCEPT ![n] = w]) = Len(bundle[v].bins)
  <2>1. \A s \in Seq(Versions) : /\ [s EXCEPT ![n] = w] \in Seq(Versions)
                                 /\ Len([s EXCEPT ![n] = w]) = Len(s)
    BY Overwritten
  <2> QED BY <1>3, <2>1
<1>5. /\ \A u \in Versions : u # v => bundle'[u] = bundle[u]
      /\ bundle'[v].bins = [bundle[v].bins EXCEPT ![n] = w]
      /\ bundle'[v].dir = bundle[v].dir /\ bundle'[v].manifest = bundle[v].manifest
      /\ bundle'[v].boot = bundle[v].boot /\ bundle'[v].pin = bundle[v].pin
      /\ bundle'[v].receipt = bundle[v].receipt
  BY <1>1, <1>3 DEF BuilderTypes, Bundles
<1>6. \A b \in Builders : Working(b) => build[b].id # v
  BY <1>2 DEF BuilderInv, OneWorker
<1>7. BuilderTypes'
  <2>1. bundle' \in [Versions -> Bundles]
    BY <1>1, <1>3, <1>4 DEF BuilderTypes, Bundles
  <2> QED BY <1>2, <1>3, <2>1, BuilderAssumption DEF BuilderTypes
<1>8. OneWorker'
  BY <1>2, <1>3, <1>5, <1>6 DEF BuilderInv, OneWorker, Working, BuilderTypes, Builds
<1>9. Sourced'
  BY <1>2, <1>5 DEF BuilderInv, Sourced, Seen, Named
<1>10. Room'
  <2>1. bundle[v].dir
    BY <1>2 DEF BuilderInv, Room, Absent
  <2> QED BY <2>1, <1>4, <1>5 DEF BuilderInv, Room
<1>11. ASSUME NEW b \in Builders
       PROVE  (Compiling(b) /\ Listed(b) /\ Booted(b))'
  BY <1>2, <1>3, <1>5, <1>6 DEF BuilderInv, Compiling, Listed, Booted, Working, BuilderTypes, Builds
<1>12. ASSUME NEW u \in Versions
       PROVE  Pinned(u)'
  BY <1>2, <1>5 DEF BuilderInv, Pinned
<1> QED BY <1>7, <1>8, <1>9, <1>10, <1>11, <1>12 DEF BuilderInv

LEMMA BuilderHolds == Spec => []BuilderInv
<1>1. Init => BuilderInv
  BY BuilderStarts DEF Init
<1>2. BuilderInv /\ [Next]_<<buildVars, hostVars>> => BuilderInv'
  <2>1. ASSUME BuilderInv, BuildNext PROVE BuilderInv'
    BY <2>1, HashKeeps, MakeDirKeeps, EndKeeps, CompileKeeps, WriteManifestKeeps,
       WriteBootstrapKeeps, WriteInstallerKeeps, WriteReceiptKeeps, EditKeeps, ReplaceKeeps
       DEF BuildNext
  <2>2. ASSUME BuilderInv, UNCHANGED buildVars PROVE BuilderInv'
    BY <2>2 DEF buildVars, BuilderInv, BuilderTypes, OneWorker, Working, Sourced, Seen, Named, Room,
                history, Compiling, Listed, Booted, Pinned
  <2> QED BY <2>1, <2>2 DEF Next, buildVars
<1> QED BY <1>1, <1>2, PTL DEF Spec

\* The records that load_bundle() compares agree when their fields do.
LEMMA BootEquality ==
  ASSUME NEW p \in Boots, NEW q \in Boots, p.bins = q.bins, p.manifest = q.manifest
  PROVE  p = q
BY DEF Boots

\* build.py keeps its types: a directory comes before anything in it, and never
\* holds more than the binaries of one build.
THEOREM BuildTypeCorrect == Spec => []BuildTypeOK
<1>1. BuilderInv => BuildTypeOK
  <2> SUFFICES ASSUME BuilderInv PROVE BuildTypeOK OBVIOUS
  <2>1. /\ source \in Versions /\ changed \subseteq Versions /\ edits \in 0 .. MaxEdits
        /\ stood \in [Builders -> SUBSET Versions]
        /\ \A b \in Builders : build[b] \in Builds
        /\ \A v \in Versions : bundle[v] \in Bundles
    BY DEF BuilderInv, BuilderTypes
  <2>2. \A b \in Builders : /\ build[b].step \in BuildSteps
                            /\ build[b].id \in Versions /\ build[b].made \in Seq(Versions)
    BY <2>1 DEF Builds
  <2>3. \A v \in Versions : /\ bundle[v].bins \in Seq(Versions)
                            /\ bundle[v].manifest.by \in Builders \cup {Nobody}
    BY <2>1 DEF Bundles, Manifests
  <2> QED BY <2>1, <2>2, <2>3 DEF BuildTypeOK, BuilderInv, Room, BuildSteps
<1> QED BY <1>1, BuilderHolds, PTL

\* A bundle that load_bundle() of the pinned installer accepts is complete: its
\* manifest lists exactly the binaries beside it, all of them of one build.
THEOREM AcceptedIsComplete == Spec => []LoadableIsComplete
<1>1. BuilderInv => LoadableIsComplete
  BY DEF BuilderInv, Pinned, LoadableIsComplete, Loadable, Runnable, Payload
<1> QED BY <1>1, BuilderHolds, PTL

\* The name of an accepted bundle and all that is in it are from trees that stood while the
\* one build that made it was at work, whatever was edited and built before, meanwhile and
\* afterwards, and whichever builds died.
THEOREM NamedAfterItsSources == Spec => []SourceIdentity
<1>1. BuilderInv => SourceIdentity
  <2> SUFFICES ASSUME BuilderInv, NEW v \in Versions \ changed, Loadable(v)
               PROVE  LET seen == stood[bundle[v].manifest.by] IN
                      v \in seen /\ \A n \in 1 .. Artefacts : bundle[v].bins[n] \in seen
    BY DEF SourceIdentity
  <2>1. /\ bundle[v].manifest.made = bundle[v].bins /\ Len(bundle[v].bins) = Artefacts
        /\ bundle[v].bins \in Seq(Versions)
    BY DEF BuilderInv, BuilderTypes, Bundles, Pinned, Loadable, Runnable, Payload
  <2>2. bundle[v].manifest.made # <<>>
    BY <2>1, BuilderAssumption
  <2> QED BY <2>1, <2>2 DEF BuilderInv, Sourced, Named
<1> QED BY <1>1, BuilderHolds, PTL

\* Whatever builds follow, also of the same sources, the installer copy beside a
\* prepared bundle goes on accepting it ('Bundle exists; preserve it').
THEOREM PreparedStaysAccepted == Spec => []PreparedIsPreserved
<1>1. BuilderInv => PreparedIsPreserved
  <2> SUFFICES ASSUME BuilderInv, NEW v \in Versions \ changed, Runnable(v)
               PROVE  Loadable(v)
    BY DEF PreparedIsPreserved
  <2>1. /\ bundle[v].pin = bundle[v].boot /\ bundle[v].boot.manifest = bundle[v].manifest
        /\ bundle[v].boot.bins = bundle[v].bins
    BY DEF BuilderInv, Pinned, Runnable
  <2>2. bundle[v].boot \in Boots /\ Payload(v) \in Boots
    BY DEF BuilderInv, BuilderTypes, Bundles, Boots, Payload
  <2>3. bundle[v].boot = Payload(v)
    BY <2>1, <2>2, BootEquality DEF Payload
  <2> QED BY <2>1, <2>3 DEF Loadable
<1> QED BY <1>1, BuilderHolds, PTL
-----------------------------------------------------------------------------
(* The installer *)

\* The order of write_new(), file by file.
LEMMA PlanOrder ==
  /\ Len(Plan) = 10
  /\ Plan[3] = "release" /\ Plan[5] = "policy" /\ Plan[6] = "ledger"
  /\ Plan[7] = "libexec" /\ Plan[9] = "sudoers" /\ Plan[10] = "unit"
BY DEF Plan

LEMMA PlanFiles ==
  /\ \A n \in 1 .. 10 : Plan[n] \in Files
  /\ \A f \in Files : \E n \in 1 .. 10 : Plan[n] = f
BY PlanOrder DEF Files

LEMMA PlanOnce ==
  ASSUME NEW m \in 1 .. 10, NEW n \in 1 .. 10, Plan[m] = Plan[n]
  PROVE  m = n
BY DEF Plan

LEMMA Nothing ==
  /\ Ready \in Insts /\ Gone \in Insts
  /\ Ready.step = "idle" /\ Ready.n = 1 /\ ~Ready.active /\ ~Ready.attempted
  /\ Gone.step = "ended"
<1>1. /\ Ready \in Insts /\ Ready.step = "idle" /\ Ready.n = 1
      /\ ~Ready.active /\ ~Ready.attempted
  BY Blank, BuilderAssumption DEF Ready, Insts, Steps, Outcomes
<1>2. Gone \in Insts /\ Gone.step = "ended"
  BY <1>1 DEF Gone, Insts, Steps
<1> QED BY <1>1, <1>2

\* One installer's step, which leaves the others alone.
LEMMA Moved ==
  ASSUME HostTypes, NEW i \in Installers, NEW from, NEW to \in Steps, Moves(i, from, to)
  PROVE  /\ inst' \in [Installers -> Insts]
         /\ \A j \in Installers : j # i => inst'[j] = inst[j]
         /\ inst[i].step = from /\ inst'[i].step = to
         /\ to # "ended" => /\ inst'[i].n = inst[i].n /\ inst'[i].bytes = inst[i].bytes
                            /\ inst'[i].active = inst[i].active
                            /\ inst'[i].attempted = inst[i].attempted
                            /\ inst'[i].outcome = inst[i].outcome
<1>1. CASE to = "ended"
  BY <1>1, Nothing DEF HostTypes, Moves
<1>2. CASE to # "ended"
  BY <1>2 DEF HostTypes, Moves, Insts
<1> QED BY <1>1, <1>2

LEMMA HostStarts == HostInit => HostInv
<1> SUFFICES ASSUME HostInit PROVE HostInv OBVIOUS
<1>1. HostTypes
  BY Nothing, Blank DEF HostInit, HostTypes, Outcomes
<1>2. OneInstaller /\ Untouched /\ InOrder
  BY Nothing, PlanFiles DEF HostInit, OneInstaller, Untouched, InOrder, Active, Off
<1>3. \A i \in Installers : Placed(i) /\ Reached(i)
  BY Nothing DEF HostInit, Placed, Reached, Active
<1>4. (client = "writing" => tmp = "client") /\ SealedIsProven /\ StopReportIsTrue
  BY DEF HostInit, SealedIsProven, StopReportIsTrue
<1>5. InstalledIsOneBuild
  BY PlanOrder, PlanFiles DEF HostInit, InstalledIsOneBuild, Ok
<1> QED BY <1>1, <1>2, <1>3, <1>4, <1>5 DEF HostInv

\* Those who are not at work rely on nothing that the one who is can change.
LEMMA OthersWait ==
  ASSUME HostInv, NEW i \in Installers, Active(i) \/ ~root,
         NEW k \in Installers, k # i, inst'[k] = inst[k]
  PROVE  ~Active(k) /\ ~Active(k)' /\ Placed(k)' /\ Reached(k)'
<1>1. ~Active(k) /\ Placed(k) /\ Reached(k) /\ inst[k].step \in Steps
  BY DEF HostInv, OneInstaller, HostTypes, Insts
<1>2. ~Active(k)'
  BY <1>1 DEF Active
<1>3. Placed(k)'
  BY <1>1 DEF Placed, Active, WholeBuild
<1>4. Reached(k)'
  BY <1>1 DEF Reached, Active
<1> QED BY <1>1, <1>2, <1>3, <1>4

\* An installer that has not made the directory changes nothing on the host.
LEMMA WaiterKeeps ==
  ASSUME HostInv, NEW i \in Installers, ~Active(i)',
         inst' \in [Installers -> Insts],
         \A j \in Installers : j # i => inst'[j] = inst[j],
         UNCHANGED <<onDisk, updater, unit, platform>>, Placed(i)', Reached(i)'
  PROVE  HostInv'
<1> USE DEF onDisk, updater, unit
<1>1. HostTypes'
  BY DEF HostInv, HostTypes
<1>2. OneInstaller'
  BY DEF HostInv, OneInstaller, Active
<1>3. Untouched' /\ InOrder'
  BY DEF HostInv, Untouched, InOrder, Off, Ok
<1>4. ASSUME NEW j \in Installers PROVE Placed(j)' /\ Reached(j)'
  <2>1. CASE j # i
    <3>1. Placed(j)'
      BY <2>1 DEF HostInv, Placed, Ok
    <3>2. Reached(j)'
      BY <2>1 DEF HostInv, Reached, Active, Off
    <3> QED BY <3>1, <3>2
  <2> QED BY <2>1
<1>5. /\ (client = "writing" => tmp = "client")' /\ InstalledIsOneBuild'
      /\ SealedIsProven' /\ StopReportIsTrue'
  BY DEF HostInv, InstalledIsOneBuild, SealedIsProven, StopReportIsTrue, Ok
<1> QED BY <1>1, <1>2, <1>3, <1>4, <1>5 DEF HostInv

\* A step of the installer at work keeps what concerns the others and the report.
LEMMA WorkerKeeps ==
  ASSUME HostInv, NEW i \in Installers, Active(i) \/ ~root,
         HostTypes', \A j \in Installers : j # i => inst'[j] = inst[j],
         root', report' = "none", InOrder', Placed(i)', Reached(i)',
         client' = "writing" => tmp' = "client",
         InstalledIsOneBuild', SealedIsProven'
  PROVE  HostInv'
<1>1. \A j \in Installers : j # i => ~Active(j)' /\ Placed(j)' /\ Reached(j)'
  BY OthersWait
<1>2. OneInstaller'
  BY <1>1 DEF OneInstaller
<1>3. Untouched' /\ StopReportIsTrue'
  BY DEF Untouched, StopReportIsTrue
<1> QED BY <1>1, <1>2, <1>3 DEF HostInv

LEMMA BeginKeeps ==
  ASSUME BuilderInv, HostInv, NEW i \in Installers, NEW v \in Versions, Begin(i, v)
  PROVE  HostInv'
<1>1. WholeBuild(Payload(v)) /\ Payload(v) \in Boots
  BY DEF Begin, BuilderInv, BuilderTypes, Pinned, Loadable, Runnable, Payload, WholeBuild,
         Bundles, Boots
<1>2. inst[i] \in Insts /\ Placed(i) /\ Reached(i) /\ inst[i].step = "idle"
  BY DEF HostInv, HostTypes, Begin
<1>3. /\ inst' \in [Installers -> Insts]
      /\ \A k \in Installers : k # i => inst'[k] = inst[k]
      /\ inst'[i].step = "claim" /\ inst'[i].bytes = Payload(v) /\ inst'[i].n = inst[i].n
      /\ inst'[i].active = inst[i].active /\ inst'[i].attempted = inst[i].attempted
  BY <1>1, <1>2 DEF HostInv, HostTypes, Begin, Insts, Steps
<1>4. Placed(i)'
  BY <1>1, <1>2, <1>3 DEF Placed, WholeBuild
<1>5. Reached(i)'
  BY <1>2, <1>3 DEF Reached, Active
<1> QED BY <1>3, <1>4, <1>5, WaiterKeeps DEF Active, Begin

LEMMA EndWaitKeeps ==
  ASSUME HostInv, NEW i \in Installers, NEW from, Moves(i, from, "ended"),
         UNCHANGED <<onDisk, updater, unit, platform>>
  PROVE  HostInv'
<1>1. HostTypes /\ "ended" \in Steps
  BY DEF HostInv, Steps
<1>2. /\ inst' \in [Installers -> Insts] /\ inst'[i].step = "ended"
      /\ \A k \in Installers : k # i => inst'[k] = inst[k]
  BY <1>1, Moved
<1>3. Placed(i)' /\ Reached(i)'
  BY <1>2 DEF Placed, Reached, Active
<1> QED BY <1>2, <1>3, WaiterKeeps DEF Active

LEMMA ClaimKeeps ==
  ASSUME HostInv, NEW i \in Installers, Claim(i)
  PROVE  HostInv'
<1>1. HostTypes /\ Placed(i) /\ Reached(i) /\ Untouched
  BY DEF HostInv
<1>2. CASE root
  <2>1. Moves(i, "claim", "ended") /\ UNCHANGED <<onDisk, updater, unit, platform>>
    BY <1>1, <1>2 DEF Claim, onDisk, HostTypes
  <2> QED BY <2>1, EndWaitKeeps
<1>3. CASE ~root
  <2>1. Moves(i, "claim", "layout") /\ "layout" \in Steps
    BY <1>3 DEF Claim, Steps
  <2>2. /\ inst' \in [Installers -> Insts] /\ inst'[i].step = "layout"
        /\ \A k \in Installers : k # i => inst'[k] = inst[k]
        /\ inst[i].step = "claim" /\ inst'[i].n = inst[i].n
        /\ inst'[i].bytes = inst[i].bytes /\ inst'[i].active = inst[i].active
        /\ inst'[i].attempted = inst[i].attempted
    BY <1>1, <2>1, Moved
  <2>3. /\ root' = TRUE /\ file' = file /\ release' = release /\ sealed' = sealed
        /\ report' = report /\ ledger' = ledger /\ tmp' = tmp /\ client' = client
        /\ service' = service /\ proven' = proven /\ platform' = platform
    BY DEF Claim, updater, unit
  <2>4. HostTypes'
    BY <1>1, <2>2, <2>3 DEF HostTypes
  <2>5. InOrder' /\ InstalledIsOneBuild' /\ SealedIsProven'
    BY <2>3 DEF HostInv, InOrder, InstalledIsOneBuild, SealedIsProven, Ok
  <2>6. Placed(i)'
    BY <1>1, <1>3, <2>2, <2>3, PlanFiles DEF Placed, Untouched, WholeBuild
  <2>7. Reached(i)'
    BY <1>1, <1>3, <2>2, <2>3 DEF Reached, Untouched, Off
  <2>8. report' = "none" /\ (client' = "writing" => tmp' = "client") /\ root'
    BY <1>1, <1>3, <2>3 DEF HostInv, Untouched
  <2> QED BY <1>3, <2>2, <2>4, <2>5, <2>6, <2>7, <2>8, WorkerKeeps
<1> QED BY <1>2, <1>3

\* A step of the installer at work that changes nothing but its own state.
LEMMA InstKeeps ==
  ASSUME HostInv, NEW i \in Installers, Active(i),
         inst' \in [Installers -> Insts],
         \A j \in Installers : j # i => inst'[j] = inst[j],
         UNCHANGED <<onDisk, updater, unit, platform>>, Placed(i)', Reached(i)'
  PROVE  HostInv'
<1> USE DEF onDisk, updater, unit
<1>1. HostTypes'
  BY DEF HostInv, HostTypes
<1>2. InOrder' /\ InstalledIsOneBuild' /\ SealedIsProven'
  BY DEF HostInv, InOrder, InstalledIsOneBuild, SealedIsProven, Ok
<1>3. root' /\ report' = "none" /\ (client' = "writing" => tmp' = "client")
  BY DEF HostInv, OneInstaller
<1> QED BY <1>1, <1>2, <1>3, WorkerKeeps

LEMMA LayoutKeeps ==
  ASSUME HostInv, NEW i \in Installers, Layout(i)
  PROVE  HostInv'
<1>1. inst[i] \in Insts /\ Placed(i) /\ Reached(i) /\ inst[i].step = "layout"
  BY DEF HostInv, HostTypes, Layout, Moves
<1>2. /\ inst' \in [Installers -> Insts]
      /\ \A k \in Installers : k # i => inst'[k] = inst[k]
      /\ inst'[i].step = "create" /\ inst'[i].n = inst[i].n /\ inst'[i].bytes = inst[i].bytes
      /\ inst'[i].attempted = inst[i].attempted
  BY <1>1 DEF HostInv, HostTypes, Layout, Moves, Outcome, Insts, Steps, Outcomes
<1>3. UNCHANGED <<onDisk, updater, unit, platform>>
  BY DEF Layout
<1>4. Placed(i)'
  BY <1>1, <1>2, <1>3, PlanOrder DEF Placed, WholeBuild, Ok, onDisk
<1>5. Reached(i)'
  BY <1>1, <1>2, <1>3 DEF Reached, Active, Off, unit, updater, Layout
<1> QED BY <1>1, <1>2, <1>3, <1>4, <1>5, InstKeeps DEF Active

LEMMA FlagKeeps ==
  ASSUME HostInv, NEW i \in Installers, Flag(i)
  PROVE  HostInv'
<1>1. inst[i] \in Insts /\ Placed(i) /\ Reached(i) /\ inst[i].step = "flag"
  BY DEF HostInv, HostTypes, Flag, Moves
<1>2. /\ inst' \in [Installers -> Insts]
      /\ \A k \in Installers : k # i => inst'[k] = inst[k]
      /\ inst'[i].step = "start" /\ inst'[i].n = inst[i].n /\ inst'[i].bytes = inst[i].bytes
      /\ inst'[i].attempted
  BY <1>1 DEF HostInv, HostTypes, Flag, Moves, Outcome, Insts, Steps, Outcomes
<1>3. UNCHANGED <<onDisk, updater, unit, platform>>
  BY DEF Flag
<1>4. Placed(i)'
  BY <1>1, <1>2, <1>3, PlanOrder DEF Placed, WholeBuild, Ok, onDisk
<1>5. Reached(i)'
  BY <1>1, <1>2, <1>3 DEF Reached, Active, Off, unit, updater, Flag
<1> QED BY <1>1, <1>2, <1>3, <1>4, <1>5, InstKeeps DEF Active

LEMMA ProbeFailsKeeps ==
  ASSUME HostInv, NEW i \in Installers, ProbeFails(i)
  PROVE  HostInv'
<1>1. inst[i] \in Insts /\ Placed(i) /\ Reached(i) /\ inst[i].step = "load"
  BY DEF HostInv, HostTypes, ProbeFails, Moves
<1>2. /\ inst' \in [Installers -> Insts]
      /\ \A k \in Installers : k # i => inst'[k] = inst[k]
      /\ inst'[i].step = "stop" /\ inst'[i].n = inst[i].n /\ inst'[i].bytes = inst[i].bytes
      /\ inst'[i].attempted = inst[i].attempted
  BY <1>1 DEF HostInv, HostTypes, ProbeFails, Moves, Outcome, Insts, Steps, Outcomes
<1>3. UNCHANGED <<onDisk, updater, unit, platform>>
  BY DEF ProbeFails
<1>4. Placed(i)'
  BY <1>1, <1>2, <1>3, PlanOrder DEF Placed, WholeBuild, Ok, onDisk
<1>5. Reached(i)'
  BY <1>1, <1>2, <1>3 DEF Reached, Active, Off, unit, updater, ProbeFails
<1> QED BY <1>1, <1>2, <1>3, <1>4, <1>5, InstKeeps DEF Active

LEMMA StopSkippedKeeps ==
  ASSUME HostInv, NEW i \in Installers, StopSkipped(i)
  PROVE  HostInv'
<1>1. inst[i] \in Insts /\ Placed(i) /\ Reached(i) /\ inst[i].step = "stop"
  BY DEF HostInv, HostTypes, StopSkipped, Moves
<1>2. /\ inst' \in [Installers -> Insts]
      /\ \A k \in Installers : k # i => inst'[k] = inst[k]
      /\ inst'[i].step = "note" /\ inst'[i].n = inst[i].n /\ inst'[i].bytes = inst[i].bytes
      /\ inst'[i].attempted = inst[i].attempted
  BY <1>1 DEF HostInv, HostTypes, StopSkipped, Moves, Outcome, Insts, Steps, Outcomes
<1>3. UNCHANGED <<onDisk, updater, unit, platform>>
  BY DEF StopSkipped
<1>4. Placed(i)'
  BY <1>1, <1>2, <1>3, PlanOrder DEF Placed, WholeBuild, Ok, onDisk
<1>5. Reached(i)'
  BY <1>1, <1>2, <1>3 DEF Reached, Active, Off, unit, updater, StopSkipped
<1> QED BY <1>1, <1>2, <1>3, <1>4, <1>5, InstKeeps DEF Active

LEMMA InterruptKeeps ==
  ASSUME HostInv, NEW i \in Installers, Interrupt(i)
  PROVE  HostInv'
<1>1. CASE Moves(i, inst[i].step, "ended")
  BY <1>1, EndWaitKeeps DEF Interrupt
<1>2. CASE inst[i].active /\ Moves(i, inst[i].step, "stop")
  <2>1. HostTypes /\ Placed(i) /\ Reached(i) /\ Active(i)
    BY <1>2 DEF HostInv, Placed, Interrupt, Active
  <2>2. /\ inst' \in [Installers -> Insts] /\ inst'[i].step = "stop"
        /\ \A k \in Installers : k # i => inst'[k] = inst[k]
        /\ inst'[i].bytes = inst[i].bytes /\ inst'[i].attempted = inst[i].attempted
    BY <1>2, <2>1, Moved DEF Steps
  <2>3. UNCHANGED <<onDisk, updater, unit, platform>>
    BY DEF Interrupt
  <2>4. Placed(i)'
    BY <2>1, <2>2 DEF Placed, WholeBuild, Active
  <2>5. Reached(i)'
    BY <2>1, <2>2, <2>3 DEF Reached, Active, Off, unit
  <2> QED BY <2>1, <2>2, <2>3, <2>4, <2>5, InstKeeps
<1> QED BY <1>1, <1>2 DEF Interrupt

LEMMA CreateKeeps ==
  ASSUME HostInv, NEW i \in Installers, Create(i)
  PROVE  HostInv'
<1> DEFINE n == inst[i].n
<1>1. HostTypes /\ Placed(i) /\ Reached(i) /\ Moves(i, "create", "fill") /\ "fill" \in Steps
  BY DEF HostInv, Create, Steps
<1>2. /\ inst' \in [Installers -> Insts]
      /\ \A k \in Installers : k # i => inst'[k] = inst[k]
      /\ inst[i].step = "create" /\ inst'[i].step = "fill" /\ inst'[i].n = n
      /\ inst'[i].bytes = inst[i].bytes /\ inst'[i].attempted = inst[i].attempted
  BY <1>1, Moved
<1>3. /\ n \in 1 .. 10 /\ file[Plan[n]] = "absent" /\ Plan[n] \in Files
      /\ \A m \in 1 .. 10 : m < n => Ok(Plan[m])
      /\ \A m \in 1 .. 10 : n <= m => file[Plan[m]] = "absent"
  BY <1>1, <1>2, PlanFiles DEF Placed
<1>4. /\ file' \in [Files -> {"absent", "torn", "ok"}] /\ file'[Plan[n]] = "torn"
      /\ \A m \in 1 .. 10 : m # n => file'[Plan[m]] = file[Plan[m]]
      /\ \A f \in Files : f # Plan[n] => file'[f] = file[f]
  BY <1>1, <1>3, PlanFiles, PlanOnce DEF HostTypes, Create
<1>5. UNCHANGED <<root, release, sealed, report, updater, unit, platform>>
  BY DEF Create
<1>6. HostTypes'
  BY <1>1, <1>2, <1>4, <1>5 DEF HostTypes, updater, unit
<1>7. InOrder'
  BY <1>3, <1>4 DEF HostInv, InOrder, Ok
<1>8. Placed(i)'
  BY <1>1, <1>2, <1>3, <1>4 DEF Placed, WholeBuild, Ok
<1>9. Reached(i)'
  BY <1>1, <1>2, <1>5 DEF Reached, Active, Off, unit
<1>10. InstalledIsOneBuild'
  BY <1>4, <1>5, PlanFiles, PlanOrder DEF HostInv, InstalledIsOneBuild, Ok
<1>11. SealedIsProven'
  BY <1>3, <1>5 DEF HostInv, SealedIsProven, Ok
<1>12. Active(i) /\ root' /\ report' = "none" /\ (client' = "writing" => tmp' = "client")
  BY <1>2, <1>5 DEF HostInv, OneInstaller, Active, updater
<1> QED BY <1>2, <1>6, <1>7, <1>8, <1>9, <1>10, <1>11, <1>12, WorkerKeeps

LEMMA FillKeeps ==
  ASSUME HostInv, NEW i \in Installers, Fill(i)
  PROVE  HostInv'
<1> DEFINE n == inst[i].n
<1>1. HostTypes /\ Placed(i) /\ Reached(i) /\ inst[i] \in Insts /\ inst[i].step = "fill"
  BY DEF HostInv, HostTypes, Fill
<1>2. /\ n \in 1 .. 10 /\ file[Plan[n]] = "torn" /\ Plan[n] \in Files
      /\ \A m \in 1 .. 10 : m < n => Ok(Plan[m])
      /\ \A m \in 1 .. 10 : n < m => file[Plan[m]] = "absent"
      /\ Plan[n] = "unit" <=> n = 10 
  BY <1>1, PlanFiles, PlanOnce, PlanOrder DEF Placed
<1>3. /\ inst' \in [Installers -> Insts]
      /\ \A k \in Installers : k # i => inst'[k] = inst[k]
      /\ inst'[i].step = IF n = 10 THEN "flag" ELSE "create"
      /\ inst'[i].n = n + 1
      /\ inst'[i].bytes = inst[i].bytes /\ inst'[i].attempted = inst[i].attempted
  BY <1>1, <1>2 DEF HostTypes, Fill, Insts, Steps
<1>4. /\ file' \in [Files -> {"absent", "torn", "ok"}] /\ file'[Plan[n]] = "ok"
      /\ \A m \in 1 .. 10 : m # n => file'[Plan[m]] = file[Plan[m]]
      /\ \A f \in Files : f # Plan[n] => file'[f] = file[f]
  BY <1>1, <1>2, PlanFiles, PlanOnce DEF HostTypes, Fill
<1>5. UNCHANGED <<root, sealed, report, updater, unit, platform>>
  BY DEF Fill
<1>6. /\ release' \in Boots
      /\ Plan[n] = "release" => WholeBuild(release')
      /\ Plan[n] # "release" => release' = release
  BY <1>1 DEF Fill, Staged, HostTypes, Insts, Placed
<1>7. HostTypes'
  BY <1>1, <1>3, <1>4, <1>5, <1>6 DEF HostTypes, updater, unit
<1>8. InOrder'
  BY <1>2, <1>4 DEF HostInv, InOrder, Ok
<1>9. Placed(i)'
  <2>1. CASE n = 10
    <3>1. \A f \in Files : Ok(f)'
      BY <1>2, <1>4, <2>1, PlanFiles DEF Ok
    <3> QED BY <1>1, <1>3, <2>1, <3>1 DEF Placed, WholeBuild
  <2>2. CASE n # 10
    <3>1. /\ inst'[i].step = "create" /\ inst'[i].n = n + 1 /\ n \in 1 .. 9
          /\ inst'[i].bytes = inst[i].bytes
      BY <1>1, <1>2, <1>3, <2>2
    <3>2. ASSUME NEW m \in 1 .. 10, m < inst'[i].n PROVE Ok(Plan[m])'
      <4>1. m = n \/ m < n
        BY <3>1, <3>2
      <4> QED BY <1>2, <1>4, <4>1 DEF Ok
    <3>3. ASSUME NEW m \in 1 .. 10, inst'[i].n <= m PROVE file'[Plan[m]] = "absent"
      <4>1. n < m /\ m # n
        BY <3>1, <3>3
      <4> QED BY <1>2, <1>4, <4>1
    <3>4. inst'[i].n \in 1 .. 10 /\ WholeBuild(inst'[i].bytes)
      BY <1>1, <3>1 DEF Placed, WholeBuild
    <3> QED BY <3>1, <3>2, <3>3, <3>4 DEF Placed, WholeBuild
  <2> QED BY <2>1, <2>2
<1>10. Reached(i)'
  BY <1>1, <1>3, <1>5 DEF Reached, Active, Off, unit
<1>11. InstalledIsOneBuild'
  BY <1>4, <1>6, PlanFiles, PlanOrder DEF HostInv, InstalledIsOneBuild, Ok, WholeBuild
<1>12. SealedIsProven'
  BY <1>2, <1>5 DEF HostInv, SealedIsProven, Ok
<1>13. Active(i) /\ root' /\ report' = "none" /\ (client' = "writing" => tmp' = "client")
  BY <1>1, <1>5 DEF HostInv, OneInstaller, Active, updater
<1> QED BY <1>3, <1>7, <1>8, <1>9, <1>10, <1>11, <1>12, <1>13, WorkerKeeps

LEMMA StartUnitKeeps ==
  ASSUME HostInv, NEW i \in Installers, StartUnit(i)
  PROVE  HostInv'
<1>1. HostTypes /\ Placed(i) /\ Reached(i) /\ inst[i] \in Insts /\ inst[i].step = "start"
  BY DEF HostInv, HostTypes, StartUnit, Moves
<1>2. /\ inst' \in [Installers -> Insts]
      /\ \A k \in Installers : k # i => inst'[k] = inst[k]
      /\ inst'[i].step = "load" /\ inst'[i].n = inst[i].n
      /\ inst'[i].bytes = inst[i].bytes /\ inst'[i].attempted = inst[i].attempted
  BY <1>1 DEF StartUnit, HostTypes, Moves, Outcome, Insts, Steps, Outcomes
<1>3. /\ root' = root /\ file' = file /\ release' = release /\ report' = report
      /\ platform' = platform /\ sealed' = sealed /\ proven' = proven
      /\ ledger' = ledger /\ tmp' = tmp /\ client' = client
  BY DEF StartUnit, onDisk, updater, unit
<1>4. HostTypes'
  BY <1>1, <1>2, <1>3 DEF HostTypes, StartUnit
<1>5. Placed(i)'
  BY <1>1, <1>2, <1>3 DEF Placed, WholeBuild, Ok
<1>6. Reached(i)'
  BY <1>1, <1>2, <1>3 DEF Reached, Active, Off, StartUnit
<1>7. InOrder' /\ InstalledIsOneBuild'
  BY <1>3 DEF HostInv, InOrder, InstalledIsOneBuild, Ok
<1>8. SealedIsProven'
  BY <1>1, <1>3 DEF HostInv, SealedIsProven, Ok, StartUnit
<1>9. Active(i) /\ root' /\ report' = "none" /\ (client' = "writing" => tmp' = "client")
  BY <1>1, <1>3 DEF HostInv, OneInstaller, Active, StartUnit
<1> QED BY <1>2, <1>4, <1>5, <1>6, <1>7, <1>8, <1>9, WorkerKeeps

LEMMA StartFailsKeeps ==
  ASSUME HostInv, NEW i \in Installers, StartFails(i)
  PROVE  HostInv'
<1>1. HostTypes /\ Placed(i) /\ Reached(i) /\ inst[i] \in Insts /\ inst[i].step = "start"
  BY DEF HostInv, HostTypes, StartFails, Moves
<1>2. /\ inst' \in [Installers -> Insts]
      /\ \A k \in Installers : k # i => inst'[k] = inst[k]
      /\ inst'[i].step = "stop" /\ inst'[i].n = inst[i].n
      /\ inst'[i].bytes = inst[i].bytes /\ inst'[i].attempted = inst[i].attempted
  BY <1>1 DEF StartFails, HostTypes, Moves, Outcome, Insts, Steps, Outcomes
<1>3. /\ root' = root /\ file' = file /\ release' = release /\ report' = report
      /\ platform' = platform /\ sealed' = sealed /\ proven' = proven
      /\ ledger' = ledger /\ tmp' = tmp /\ client' = client
  BY DEF StartFails, onDisk, updater, unit
<1>4. HostTypes'
  BY <1>1, <1>2, <1>3 DEF HostTypes, StartFails
<1>5. Placed(i)'
  BY <1>1, <1>2, <1>3 DEF Placed, WholeBuild, Ok
<1>6. Reached(i)'
  BY <1>1, <1>2, <1>3 DEF Reached, Active, Off, StartFails
<1>7. InOrder' /\ InstalledIsOneBuild'
  BY <1>3 DEF HostInv, InOrder, InstalledIsOneBuild, Ok
<1>8. SealedIsProven'
  BY <1>1, <1>3 DEF HostInv, SealedIsProven, Ok, StartFails
<1>9. Active(i) /\ root' /\ report' = "none" /\ (client' = "writing" => tmp' = "client")
  BY <1>1, <1>3 DEF HostInv, OneInstaller, Active, StartFails
<1> QED BY <1>2, <1>4, <1>5, <1>6, <1>7, <1>8, <1>9, WorkerKeeps

LEMMA ProbeKeeps ==
  ASSUME HostInv, NEW i \in Installers, Probe(i)
  PROVE  HostInv'
<1>1. HostTypes /\ Placed(i) /\ Reached(i) /\ inst[i] \in Insts /\ inst[i].step = "load"
  BY DEF HostInv, HostTypes, Probe, Moves
<1>2. /\ inst' \in [Installers -> Insts]
      /\ \A k \in Installers : k # i => inst'[k] = inst[k]
      /\ inst'[i].step = "record" /\ inst'[i].n = inst[i].n
      /\ inst'[i].bytes = inst[i].bytes /\ inst'[i].attempted = inst[i].attempted
  BY <1>1 DEF Probe, HostTypes, Moves, Outcome, Insts, Steps, Outcomes
<1>3. /\ root' = root /\ file' = file /\ release' = release /\ report' = report
      /\ platform' = platform /\ sealed' = sealed /\ service' = service
      /\ ledger' = ledger /\ tmp' = tmp /\ client' = client
  BY DEF Probe, onDisk, updater, unit
<1>4. HostTypes'
  BY <1>1, <1>2, <1>3 DEF HostTypes, Probe
<1>5. Placed(i)'
  BY <1>1, <1>2, <1>3 DEF Placed, WholeBuild, Ok
<1>6. Reached(i)'
  BY <1>1, <1>2, <1>3 DEF Reached, Active, Off, Probe
<1>7. InOrder' /\ InstalledIsOneBuild'
  BY <1>3 DEF HostInv, InOrder, InstalledIsOneBuild, Ok
<1>8. SealedIsProven'
  BY <1>1, <1>3 DEF HostInv, SealedIsProven, Ok, Probe
<1>9. Active(i) /\ root' /\ report' = "none" /\ (client' = "writing" => tmp' = "client")
  BY <1>1, <1>3 DEF HostInv, OneInstaller, Active, Probe
<1> QED BY <1>2, <1>4, <1>5, <1>6, <1>7, <1>8, <1>9, WorkerKeeps

LEMMA RecordKeeps ==
  ASSUME HostInv, NEW i \in Installers, Record(i)
  PROVE  HostInv'
<1>1. HostTypes /\ Placed(i) /\ Reached(i) /\ inst[i] \in Insts /\ inst[i].step = "record"
  BY DEF HostInv, HostTypes, Record, Moves
<1>2. /\ inst' \in [Installers -> Insts]
      /\ \A k \in Installers : k # i => inst'[k] = inst[k]
      /\ inst'[i].step \in {"rename", "stop"} /\ inst'[i].n = inst[i].n
      /\ inst'[i].bytes = inst[i].bytes /\ inst'[i].attempted = inst[i].attempted
  BY <1>1 DEF Record, HostTypes, Moves, Outcome, Insts, Steps, Outcomes
<1>3. /\ root' = root /\ file' = file /\ release' = release /\ report' = report
      /\ platform' = platform /\ sealed' = sealed /\ service' = service /\ proven' = proven
      /\ ledger' = ledger /\ client' = client
  BY DEF Record, onDisk, updater, unit
<1>4. HostTypes'
  BY <1>1, <1>2, <1>3 DEF HostTypes, Record
<1>5. Placed(i)'
  BY <1>1, <1>2, <1>3 DEF Placed, WholeBuild, Ok
<1>6. Reached(i)'
  BY <1>1, <1>2, <1>3 DEF Reached, Active, Off, Record, Moves
<1>7. InOrder' /\ InstalledIsOneBuild'
  BY <1>3 DEF HostInv, InOrder, InstalledIsOneBuild, Ok
<1>8. SealedIsProven'
  BY <1>1, <1>3 DEF HostInv, SealedIsProven, Ok, Record
<1>9. Active(i) /\ root' /\ report' = "none" /\ (client' = "writing" => tmp' = "client")
  BY <1>1, <1>3 DEF HostInv, OneInstaller, Active, Record
<1> QED BY <1>2, <1>4, <1>5, <1>6, <1>7, <1>8, <1>9, WorkerKeeps

LEMMA RenameKeeps ==
  ASSUME HostInv, NEW i \in Installers, Rename(i)
  PROVE  HostInv'
<1>1. HostTypes /\ Placed(i) /\ Reached(i) /\ inst[i] \in Insts /\ inst[i].step = "rename"
  BY DEF HostInv, HostTypes, Rename, Moves
<1>2. /\ inst' \in [Installers -> Insts]
      /\ \A k \in Installers : k # i => inst'[k] = inst[k]
      /\ inst'[i].step = "seal" /\ inst'[i].n = inst[i].n
      /\ inst'[i].bytes = inst[i].bytes /\ inst'[i].attempted = inst[i].attempted
  BY <1>1 DEF Rename, HostTypes, Moves, Outcome, Insts, Steps, Outcomes
<1>3. /\ root' = root /\ file' = file /\ release' = release /\ report' = report
      /\ platform' = platform /\ sealed' = sealed /\ service' = service /\ proven' = proven /\ client' = client
  BY DEF Rename, onDisk, updater, unit
<1>4. HostTypes'
  BY <1>1, <1>2, <1>3 DEF HostTypes, Rename
<1>5. Placed(i)'
  BY <1>1, <1>2, <1>3 DEF Placed, WholeBuild, Ok
<1>6. Reached(i)'
  BY <1>1, <1>2, <1>3 DEF Reached, Active, Off, Rename
<1>7. InOrder' /\ InstalledIsOneBuild'
  BY <1>3 DEF HostInv, InOrder, InstalledIsOneBuild, Ok
<1>8. SealedIsProven'
  BY <1>1, <1>3 DEF HostInv, SealedIsProven, Ok, Rename
<1>9. Active(i) /\ root' /\ report' = "none" /\ (client' = "writing" => tmp' = "client")
  BY <1>1, <1>3 DEF HostInv, OneInstaller, Active, Rename, Reached
<1> QED BY <1>2, <1>4, <1>5, <1>6, <1>7, <1>8, <1>9, WorkerKeeps

LEMMA SealKeeps ==
  ASSUME HostInv, NEW i \in Installers, Seal(i)
  PROVE  HostInv'
<1>1. HostTypes /\ Placed(i) /\ Reached(i) /\ inst[i] \in Insts /\ inst[i].step = "seal"
  BY DEF HostInv, HostTypes, Seal, Moves
<1>2. /\ inst' \in [Installers -> Insts]
      /\ \A k \in Installers : k # i => inst'[k] = inst[k]
      /\ inst'[i].step = "print" /\ inst'[i].n = inst[i].n
      /\ inst'[i].bytes = inst[i].bytes /\ inst'[i].attempted = inst[i].attempted
  BY <1>1 DEF Seal, HostTypes, Moves, Outcome, Insts, Steps, Outcomes
<1>3. /\ root' = root /\ file' = file /\ release' = release /\ report' = report
      /\ platform' = platform /\ service' = service /\ proven' = proven
      /\ ledger' = ledger /\ tmp' = tmp /\ client' = client
  BY DEF Seal, onDisk, updater, unit
<1>4. HostTypes'
  BY <1>1, <1>2, <1>3 DEF HostTypes, Seal
<1>5. Placed(i)'
  BY <1>1, <1>2, <1>3 DEF Placed, WholeBuild, Ok
<1>6. Reached(i)'
  BY <1>1, <1>2, <1>3 DEF Reached, Active, Off, Seal
<1>7. InOrder' /\ InstalledIsOneBuild'
  BY <1>3 DEF HostInv, InOrder, InstalledIsOneBuild, Ok
<1>8. SealedIsProven'
  BY <1>1, <1>3 DEF HostInv, SealedIsProven, Ok, Seal, Placed, Reached
<1>9. Active(i) /\ root' /\ report' = "none" /\ (client' = "writing" => tmp' = "client")
  BY <1>1, <1>3 DEF HostInv, OneInstaller, Active, Seal
<1> QED BY <1>2, <1>4, <1>5, <1>6, <1>7, <1>8, <1>9, WorkerKeeps

LEMMA StopUnitKeeps ==
  ASSUME HostInv, NEW i \in Installers, StopUnit(i)
  PROVE  HostInv'
<1>1. HostTypes /\ Placed(i) /\ Reached(i) /\ inst[i] \in Insts /\ inst[i].step = "stop"
  BY DEF HostInv, HostTypes, StopUnit, Moves
<1>2. /\ inst' \in [Installers -> Insts]
      /\ \A k \in Installers : k # i => inst'[k] = inst[k]
      /\ inst'[i].step = "note" /\ inst'[i].n = inst[i].n
      /\ inst'[i].bytes = inst[i].bytes /\ inst'[i].attempted = inst[i].attempted
  BY <1>1 DEF StopUnit, HostTypes, Moves, Outcome, Insts, Steps, Outcomes
<1>3. /\ root' = root /\ file' = file /\ release' = release /\ report' = report
      /\ platform' = platform /\ sealed' = sealed /\ proven' = proven
      /\ ledger' = ledger /\ tmp' = tmp /\ client' = client
  BY DEF StopUnit, onDisk, updater, unit
<1>4. HostTypes'
  BY <1>1, <1>2, <1>3 DEF HostTypes, StopUnit
<1>5. Placed(i)'
  BY <1>1, <1>2, <1>3 DEF Placed, WholeBuild, Ok
<1>6. Reached(i)'
  BY <1>1, <1>2, <1>3 DEF Reached, Active, Off, StopUnit
<1>7. InOrder' /\ InstalledIsOneBuild'
  BY <1>3 DEF HostInv, InOrder, InstalledIsOneBuild, Ok
<1>8. SealedIsProven'
  BY <1>1, <1>3 DEF HostInv, SealedIsProven, Ok
<1>9. Active(i) /\ root' /\ report' = "none" /\ (client' = "writing" => tmp' = "client")
  BY <1>1, <1>3 DEF HostInv, OneInstaller, Active, StopUnit
<1> QED BY <1>2, <1>4, <1>5, <1>6, <1>7, <1>8, <1>9, WorkerKeeps

LEMMA StopFailsKeeps ==
  ASSUME HostInv, NEW i \in Installers, StopFails(i)
  PROVE  HostInv'
<1>1. HostTypes /\ Placed(i) /\ Reached(i) /\ inst[i] \in Insts /\ inst[i].step = "stop"
  BY DEF HostInv, HostTypes, StopFails, Moves
<1>2. /\ inst' \in [Installers -> Insts]
      /\ \A k \in Installers : k # i => inst'[k] = inst[k]
      /\ inst'[i].step = "note" /\ inst'[i].n = inst[i].n
      /\ inst'[i].bytes = inst[i].bytes /\ inst'[i].attempted = inst[i].attempted
  BY <1>1 DEF StopFails, HostTypes, Moves, Outcome, Insts, Steps, Outcomes
<1>3. /\ root' = root /\ file' = file /\ release' = release /\ report' = report
      /\ platform' = platform /\ sealed' = sealed /\ proven' = proven
      /\ ledger' = ledger /\ tmp' = tmp /\ client' = client
  BY DEF StopFails, onDisk, updater, unit
<1>4. HostTypes'
  <2>1. service \in [enabled : BOOLEAN, running : BOOLEAN]
    BY <1>1 DEF HostTypes
  <2>2. service' \in [enabled : BOOLEAN, running : BOOLEAN]
    <3>1. CASE service' = service
      BY <2>1, <3>1
    <3>2. CASE service' = [service EXCEPT !.running = FALSE]
      BY <2>1, <3>2
    <3>3. CASE service' = [enabled |-> FALSE, running |-> FALSE]
      BY <3>3
    <3> QED BY <3>1, <3>2, <3>3 DEF StopFails
  <2> QED BY <1>1, <1>2, <1>3, <2>2 DEF HostTypes
<1>5. Placed(i)'
  BY <1>1, <1>2, <1>3 DEF Placed, WholeBuild, Ok
<1>6. Reached(i)'
  BY <1>1, <1>2, <1>3 DEF Reached, Active, Off, StopFails, Outcome, HostTypes, Insts
<1>7. InOrder' /\ InstalledIsOneBuild'
  BY <1>3 DEF HostInv, InOrder, InstalledIsOneBuild, Ok
<1>8. SealedIsProven'
  BY <1>1, <1>3 DEF HostInv, SealedIsProven, Ok
<1>9. Active(i) /\ root' /\ report' = "none" /\ (client' = "writing" => tmp' = "client")
  BY <1>1, <1>3 DEF HostInv, OneInstaller, Active, StopFails
<1> QED BY <1>2, <1>4, <1>5, <1>6, <1>7, <1>8, <1>9, WorkerKeeps

LEMMA NoteKeeps ==
  ASSUME HostInv, NEW i \in Installers, Note(i)
  PROVE  HostInv'
<1>1. HostTypes /\ Placed(i) /\ Reached(i) /\ inst[i] \in Insts /\ Active(i)
      /\ Moves(i, "note", "ended") /\ "ended" \in Steps /\ inst[i].step = "note"
  BY DEF HostInv, HostTypes, Note, Moves, Active, Steps
<1>2. /\ inst' \in [Installers -> Insts] /\ inst'[i].step = "ended"
      /\ \A k \in Installers : k # i => inst'[k] = inst[k]
  BY <1>1, Moved
<1>3. /\ root' = root /\ file' = file /\ release' = release /\ sealed' = sealed
      /\ ledger' = ledger /\ tmp' = tmp /\ client' = client
      /\ service' = service /\ proven' = proven /\ platform' = platform
  BY DEF Note, updater, unit
<1>4. report = "none" /\ root /\ report' = inst[i].outcome
  BY <1>1 DEF HostInv, OneInstaller, Note
<1>5. HostTypes'
  BY <1>1, <1>2, <1>3, <1>4 DEF HostTypes, Insts
<1>6. \A j \in Installers : ~Active(j)' /\ Placed(j)' /\ Reached(j)'
  <2>1. \A j \in Installers : j # i => ~Active(j)' /\ Placed(j)' /\ Reached(j)'
    BY <1>1, <1>2, OthersWait
  <2>2. ~Active(i)' /\ Placed(i)' /\ Reached(i)'
    BY <1>2 DEF Active, Placed, Reached
  <2> QED BY <2>1, <2>2
<1>7. OneInstaller'
  BY <1>6 DEF OneInstaller
<1>8. Untouched' /\ InOrder' /\ InstalledIsOneBuild' /\ SealedIsProven'
      /\ (client' = "writing" => tmp' = "client")
  BY <1>3, <1>4 DEF HostInv, Untouched, InOrder, InstalledIsOneBuild, SealedIsProven, Ok
<1>9. StopReportIsTrue'
  BY <1>1, <1>3, <1>4 DEF Reached, StopReportIsTrue, Off
<1> QED BY <1>5, <1>6, <1>7, <1>8, <1>9 DEF HostInv

\* Clients only touch installed.json, and its temporary file if they created it.
LEMMA ClientKeeps ==
  ASSUME HostInv, ClientCheck \/ ClientRename \/ ClientEnds
  PROVE  HostInv'
<1>1. /\ inst' = inst /\ root' = root /\ file' = file /\ release' = release
      /\ sealed' = sealed /\ report' = report /\ service' = service
      /\ proven' = proven /\ platform' = platform
  BY DEF ClientCheck, ClientRename, ClientEnds, onDisk, unit
<1>2. /\ client' \in {"away", "writing"} /\ tmp' \in {"none", "client", "installer"}
      /\ ledger' \in {ledger, "check"} /\ (client' = "writing" => tmp' = "client")
      /\ tmp = "installer" => tmp' = "installer"
  BY DEF HostInv, HostTypes, ClientCheck, ClientRename, ClientEnds
<1>3. HostTypes'
  BY <1>1, <1>2 DEF HostInv, HostTypes
<1>4. OneInstaller' /\ Untouched' /\ InOrder'
  BY <1>1 DEF HostInv, OneInstaller, Untouched, InOrder, Active, Off, Ok
<1>5. ASSUME NEW i \in Installers PROVE Placed(i)' /\ Reached(i)'
  <2>1. Placed(i)'
    BY <1>1 DEF HostInv, Placed, Ok
  <2>2. Reached(i)'
    BY <1>1, <1>2 DEF HostInv, Reached, Active, Off
  <2> QED BY <2>1, <2>2
<1>6. InstalledIsOneBuild' /\ SealedIsProven' /\ StopReportIsTrue'
  BY <1>1, <1>2 DEF HostInv, InstalledIsOneBuild, SealedIsProven, StopReportIsTrue, Ok
<1> QED BY <1>2, <1>3, <1>4, <1>5, <1>6 DEF HostInv

\* A boot starts what the files on the disk say, and no process survives it.
LEMMA RebootKeeps ==
  ASSUME HostInv, Reboot
  PROVE  HostInv'
<1>1. /\ root' = root /\ file' = file /\ release' = release /\ sealed' = sealed
      /\ report' = report /\ ledger' = ledger /\ tmp' = tmp
      /\ proven' = proven /\ platform' = platform /\ client' = "away"
  BY DEF Reboot, onDisk
<1>2. /\ service' \in [enabled : BOOLEAN, running : BOOLEAN]
      /\ service'.enabled = service.enabled
      /\ service'.running <=> AtBoot
  <2>1. service \in [enabled : BOOLEAN, running : BOOLEAN] /\ AtBoot \in BOOLEAN
    BY DEF HostInv, HostTypes, AtBoot, Ok
  <2>2. service' = [service EXCEPT !.running = AtBoot]
    BY DEF Reboot
  <2> QED BY <2>1, <2>2
<1>3. /\ inst' \in [Installers -> Insts]
      /\ \A i \in Installers : inst'[i] = Ready \/ inst'[i].step = "ended"
  BY Nothing DEF Reboot
<1>4. \A i \in Installers : ~Active(i)' /\ Placed(i)' /\ Reached(i)'
  <2> SUFFICES ASSUME NEW i \in Installers
               PROVE  ~Active(i)' /\ Placed(i)' /\ Reached(i)'
    OBVIOUS
  <2>1. inst'[i] = Ready \/ inst'[i].step = "ended"
    BY <1>3
  <2> QED BY <2>1, Nothing DEF Active, Placed, Reached
<1>5. HostTypes'
  BY <1>1, <1>2, <1>3 DEF HostInv, HostTypes
<1>6. OneInstaller'
  BY <1>4 DEF OneInstaller
<1>7. Untouched'
  <2>1. ~root => ~AtBoot
    BY PlanFiles, PlanOrder DEF HostInv, Untouched, Off, AtBoot, Ok
  <2> QED BY <1>1, <1>2, <2>1 DEF HostInv, Untouched, Off
<1>8. StopReportIsTrue'
  BY <1>1, <1>2 DEF HostInv, StopReportIsTrue, AtBoot
<1>9. InOrder' /\ InstalledIsOneBuild' /\ SealedIsProven'
  BY <1>1 DEF HostInv, InOrder, InstalledIsOneBuild, SealedIsProven, Ok
<1> QED BY <1>1, <1>4, <1>5, <1>6, <1>7, <1>8, <1>9 DEF HostInv

LEMMA InstallHolds == Spec => []InstallInv
<1>1. Init => InstallInv
  BY BuilderStarts, HostStarts DEF Init, InstallInv
<1>2. BuilderInv /\ HostInv /\ [Next]_<<buildVars, hostVars>> => HostInv'
  <2>1. ASSUME BuilderInv, HostInv, HostNext PROVE HostInv'
    <3>1. ASSUME NEW i \in Installers, NEW v \in Versions, Begin(i, v) \/ BeginRefused(i, v)
          PROVE  HostInv'
      BY <2>1, <3>1, BeginKeeps, EndWaitKeeps DEF BeginRefused
    <3>2. ASSUME NEW i \in Installers, Report(i) PROVE HostInv'
      BY <2>1, <3>2, EndWaitKeeps DEF Report
    <3>3. ASSUME NEW i \in Installers,
                 Claim(i) \/ Layout(i) \/ Create(i) \/ Fill(i) \/ Flag(i) \/ StartUnit(i)
                 \/ StartFails(i) \/ Probe(i) \/ ProbeFails(i) \/ Record(i) \/ Rename(i)
          PROVE  HostInv'
      BY <2>1, <3>3, ClaimKeeps, LayoutKeeps, CreateKeeps, FillKeeps, FlagKeeps,
         StartUnitKeeps, StartFailsKeeps, ProbeKeeps, ProbeFailsKeeps, RecordKeeps, RenameKeeps
    <3>4. ASSUME NEW i \in Installers,
                 Seal(i) \/ Interrupt(i) \/ StopSkipped(i) \/ StopUnit(i) \/ StopFails(i)
                 \/ Note(i)
          PROVE  HostInv'
      BY <2>1, <3>4, SealKeeps, InterruptKeeps, StopSkippedKeeps, StopUnitKeeps,
         StopFailsKeeps, NoteKeeps
    <3> QED BY <2>1, <3>1, <3>2, <3>3, <3>4, ClientKeeps, RebootKeeps DEF HostNext
  <2>2. ASSUME HostInv, UNCHANGED hostVars PROVE HostInv'
    <3> USE <2>2 DEF hostVars, onDisk, updater, unit
    <3>1. HostTypes' /\ OneInstaller' /\ Untouched' /\ InOrder'
      BY DEF HostInv, HostTypes, OneInstaller, Untouched, InOrder, Active, Off, Ok
    <3>2. ASSUME NEW i \in Installers PROVE Placed(i)' /\ Reached(i)'
      BY DEF HostInv, Placed, Reached, Active, Off, Ok
    <3>3. /\ (client' = "writing" => tmp' = "client")
          /\ InstalledIsOneBuild' /\ SealedIsProven' /\ StopReportIsTrue'
      BY DEF HostInv, InstalledIsOneBuild, SealedIsProven, StopReportIsTrue, Ok
    <3> QED BY <3>1, <3>2, <3>3 DEF HostInv
  <2> QED BY <2>1, <2>2 DEF Next
<1>3. InstallInv /\ BuilderInv' /\ [Next]_<<buildVars, hostVars>> => InstallInv'
  BY <1>2 DEF InstallInv
<1> QED BY <1>1, <1>3, BuilderHolds, PTL DEF Spec

\* install.py and its clients keep their types, and whoever is about to rename
\* installed.json.new is the one who created it.
THEOREM HostTypeCorrect == Spec => []HostTypeOK
<1>1. HostInv => HostTypeOK
  <2> SUFFICES ASSUME HostInv PROVE HostTypeOK OBVIOUS
  <2>1. \A i \in Installers : /\ inst[i].step \in Steps /\ inst[i].n \in 1 .. Len(Plan) + 1
                              /\ inst[i].step = "rename" => tmp = "installer"
    <3> SUFFICES ASSUME NEW i \in Installers
                 PROVE  /\ inst[i].step \in Steps /\ inst[i].n \in 1 .. Len(Plan) + 1
                        /\ inst[i].step = "rename" => tmp = "installer"
      OBVIOUS
    <3>1. inst[i] \in Insts /\ Reached(i)
      BY DEF HostInv, HostTypes
    <3>2. inst[i].step \in Steps /\ inst[i].n \in 1 .. 11
      BY <3>1 DEF Insts
    <3>3. Len(Plan) + 1 = 11
      BY PlanOrder
    <3>4. inst[i].step = "rename" => tmp = "installer"
      BY <3>1 DEF Reached
    <3> QED BY <3>2, <3>3, <3>4
  <2> QED BY <2>1 DEF HostInv, HostTypes, HostTypeOK, Outcomes
<1> QED BY <1>1, InstallHolds, PTL DEF InstallInv

\* The sudoers entry, which lets clients run the updater as root, only exists once
\* what it grants is complete, whichever step an installer stops or dies at.
THEOREM GrantsComeLast == Spec => []GrantsFollowStaging
<1>1. HostInv => GrantsFollowStaging
  BY PlanOrder DEF HostInv, InOrder, GrantsFollowStaging
<1> QED BY <1>1, InstallHolds, PTL DEF InstallInv

\* The release on the host is one complete build, whatever is done to the bundle
\* between load_bundle() and stage_and_validate_release().
THEOREM InstalledWhole == Spec => []InstalledIsOneBuild
<1>1. HostInv => InstalledIsOneBuild
  BY DEF HostInv
<1> QED BY <1>1, InstallHolds, PTL DEF InstallInv

\* A host whose receipt says 'installed and health verified' has all its files, a
\* service that passed the probe, and a verification in the ledger.
THEOREM SealedHonestly == Spec => []SealedIsProven
<1>1. HostInv => SealedIsProven
  BY DEF HostInv
<1> QED BY <1>1, InstallHolds, PTL DEF InstallInv

\* On Linux, a service that installation-failed.json reports as stopped or never
\* started is down, and stays down over every boot.
THEOREM ReportedStopsHold == Spec => []StopReportIsTrue
<1>1. HostInv => StopReportIsTrue
  BY DEF HostInv
<1> QED BY <1>1, InstallHolds, PTL DEF InstallInv

\* Of the installers that start together, at most one is at work on the host.
THEOREM OneAtWork == Spec => [](\A i, j \in Installers : Active(i) /\ Active(j) => i = j)
<1>1. HostInv => \A i, j \in Installers : Active(i) /\ Active(j) => i = j
  BY DEF HostInv, OneInstaller
<1> QED BY <1>1, InstallHolds, PTL DEF InstallInv
=============================================================================

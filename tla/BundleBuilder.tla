----------------------------- MODULE BundleBuilder -----------------------------
(***************************************************************************)
(* The release builder, deploy/managed/build.py: it hashes the listed      *)
(* sources, makes a directory named after the hash, compiles each binary   *)
(* from the working tree as it then is, and pins what it made: the         *)
(* manifest lists the binaries, bootstrap.json every file, and the copy of *)
(* the installer, written last, carries the hash of bootstrap.json.        *)
(* Builds may overlap with each other and with edits of the tree, and die  *)
(* at any step.  The content of a file stands for its hash.                *)
(***************************************************************************)
EXTENDS Naturals, Sequences

CONSTANTS
  Builders,       \* invocations of build.py
  Nobody,
  Versions,       \* contents of the files that source-files.json lists
  Commit,           \* the committed one
  Artefacts,      \* how many binaries a build makes
  MaxEdits        \* bound on edits of the tree and of bundles

ASSUME BuilderAssumption ==
  /\ Commit \in Versions /\ Nobody \notin Builders
  /\ Artefacts \in Nat \ {0} /\ MaxEdits \in Nat

VARIABLES
  source,         \* the working tree
  build,          \* per builder: its step, source_id and the hashes collected
  bundle,         \* release-preparation/<release>-<source_id>
  edits,
  stood,          \* per builder: the trees that stood since it read the sources
                  \* and while it was at work (history)
  changed         \* bundles changed by hand (history)

history == <<stood, changed>>
buildVars == <<source, build, bundle, edits, history>>

NoManifest == [made |-> <<>>, by |-> Nobody]
NoBoot == [bins |-> <<>>, manifest |-> NoManifest]
Absent == [dir |-> FALSE, bins |-> <<>>, manifest |-> NoManifest,
           boot |-> NoBoot, pin |-> NoBoot, receipt |-> FALSE]

\* What bootstrap.json pins; release-manager.py and the source list are left out.
Payload(v) == [bins |-> bundle[v].bins, manifest |-> bundle[v].manifest]

\* load_bundle(): the installer copy exists and every hash agrees.
Runnable(v) == bundle[v].pin # NoBoot
Loadable(v) == /\ Runnable(v)
               /\ bundle[v].pin = bundle[v].boot /\ bundle[v].boot = Payload(v)
-----------------------------------------------------------------------------
BuildStart(b, v) ==
  /\ build[b].step = "idle"
  /\ build' = [build EXCEPT ![b] = [step |-> "hashed", id |-> v, made |-> <<>>]]
  /\ stood' = [stood EXCEPT ![b] = @ \cup {source}]
  /\ UNCHANGED <<source, bundle, edits, changed>>

\* Bug: the identity is that of the commit, whatever the tree contains.
HashCommit(b) == BuildStart(b, Commit)

HashSources(b) == BuildStart(b, source)

\* A process that has ended has nothing in memory.
Over == [step |-> "ended", id |-> Commit, made |-> <<>>]
BuildTo(b, from, to) ==
  /\ build[b].step = from
  /\ build' = [build EXCEPT ![b] = IF to = "ended" THEN Over ELSE [@ EXCEPT !.step = to]]
  /\ UNCHANGED <<source, edits, history>>

Write(b, field, value) ==
  bundle' = [bundle EXCEPT ![build[b].id] = [@ EXCEPT ![field] = value]]

\* Bug: mkdir(exist_ok=True).
MakeDirReused(b) ==
  /\ BuildTo(b, "hashed", "compile")
  /\ Write(b, "dir", TRUE)

\* mkdir() is what decides between two builds of the same sources.
MakeDir(b) ==
  /\ ~bundle[build[b].id].dir
  /\ BuildTo(b, "hashed", "compile")
  /\ Write(b, "dir", TRUE)

\* 'Bundle exists; preserve it'.
BundleExists(b) ==
  /\ bundle[build[b].id].dir
  /\ BuildTo(b, "hashed", "ended")
  /\ UNCHANGED bundle

\* go build reads the tree again; its output is hashed as it is on the disk.
CompileUpTo(b, limit) ==
  LET n == Len(build[b].made) + 1
      old == bundle[build[b].id].bins
  IN  /\ build[b].step = "compile" /\ n <= limit
      /\ Write(b, "bins", IF n <= Len(old) THEN [old EXCEPT ![n] = source]
                                           ELSE Append(old, source))
      /\ build' = [build EXCEPT ![b].made = Append(@, source)]
      /\ UNCHANGED <<source, edits, history>>

\* Bug: an output is left over from the loop.
CompileOver(b) == CompileUpTo(b, Artefacts + 1)

Compile(b) == CompileUpTo(b, Artefacts)

WriteManifest(b) ==
  /\ Len(build[b].made) = Artefacts
  /\ BuildTo(b, "compile", "bootstrap")
  /\ Write(b, "manifest", [made |-> build[b].made, by |-> b])

WriteBootstrap(b) ==
  /\ BuildTo(b, "bootstrap", "installer")
  /\ Write(b, "boot", Payload(build[b].id))

WriteInstaller(b) ==
  /\ BuildTo(b, "installer", "receipt")
  /\ Write(b, "pin", bundle[build[b].id].boot)

WriteReceipt(b) ==
  /\ BuildTo(b, "receipt", "ended")
  /\ Write(b, "receipt", TRUE)

\* An input that changed under it, go vet, go build, a full disk, a kill.
BuildFails(b) ==
  /\ build[b].step \notin {"idle", "ended"}
  /\ build' = [build EXCEPT ![b] = Over]
  /\ UNCHANGED <<source, bundle, edits, history>>

\* A developer edits the tree while builds may be at work.
Edit ==
  /\ edits < MaxEdits
  /\ source' \in Versions \ {source}
  /\ edits' = edits + 1
  /\ stood' = [b \in Builders |-> IF build[b].step \in {"idle", "ended"} THEN stood[b]
                                  ELSE stood[b] \cup {source'}]
  /\ UNCHANGED <<build, bundle, changed>>

\* 'unapproved replacement': somebody changes a binary of a bundle.
Replace(v) ==
  /\ edits < MaxEdits /\ bundle[v].receipt
  /\ \E n \in 1 .. Artefacts, w \in Versions :
       /\ bundle[v].bins[n] # w
       /\ bundle' = [bundle EXCEPT ![v].bins[n] = w]
  /\ edits' = edits + 1 /\ changed' = changed \cup {v}
  /\ UNCHANGED <<source, build, stood>>

BuildInit ==
  /\ source = Commit /\ edits = 0
  /\ stood = [b \in Builders |-> {}] /\ changed = {}
  /\ build = [b \in Builders |-> [step |-> "idle", id |-> Commit, made |-> <<>>]]
  /\ bundle = [v \in Versions |-> Absent]

BuildNext ==
  \/ \E b \in Builders :
       \/ HashSources(b) \/ MakeDir(b) \/ BundleExists(b) \/ Compile(b)
       \/ WriteManifest(b) \/ WriteBootstrap(b) \/ WriteInstaller(b)
       \/ WriteReceipt(b) \/ BuildFails(b)
  \/ Edit
  \/ \E v \in Versions : Replace(v)
-----------------------------------------------------------------------------
\* Types: a directory is there before anything in it, and holds no more than
\* the binaries of one build.
BuildTypeOK ==
  /\ source \in Versions /\ changed \subseteq Versions
  /\ stood \in [Builders -> SUBSET Versions]
  /\ edits \in 0 .. MaxEdits
  /\ \A b \in Builders :
       /\ build[b].step \in {"idle", "hashed", "compile", "bootstrap", "installer",
                             "receipt", "ended"}
       /\ build[b].id \in Versions /\ build[b].made \in Seq(Versions)
  /\ \A v \in Versions :
       /\ bundle[v].bins \in Seq(Versions) /\ Len(bundle[v].bins) <= Artefacts
       /\ bundle[v].manifest.by \in Builders \cup {Nobody}
       /\ ~bundle[v].dir => bundle[v] = Absent

\* A bundle that the pinned installer accepts is one complete build: its
\* manifest lists exactly the binaries beside it, all made by one invocation.
LoadableIsComplete ==
  \A v \in Versions : Loadable(v) =>
    /\ bundle[v].manifest.made = bundle[v].bins
    /\ Len(bundle[v].bins) = Artefacts

\* 'The source identity covers the Go/package inputs': the name of an accepted bundle and
\* every binary in it come from trees that stood while the one build that made it was at
\* work: all from the same tree unless that tree was edited under the build, and never
\* from another build, the commit or a later tree.
SourceIdentity ==
  \A v \in Versions \ changed : Loadable(v) =>
    LET seen == stood[bundle[v].manifest.by] IN
    /\ v \in seen
    /\ \A n \in 1 .. Artefacts : bundle[v].bins[n] \in seen

\* No later build spoils a prepared bundle ('Bundle exists; preserve it'): the
\* installer copy that can be run accepts it, unless somebody changed it.
PreparedIsPreserved == \A v \in Versions \ changed : Runnable(v) => Loadable(v)
=============================================================================

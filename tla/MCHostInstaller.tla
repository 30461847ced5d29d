---------------------------- MODULE MCHostInstaller ----------------------------
(* Small instances of builder, bundle and installer for TLC.               *)
EXTENDS HostInstaller, TLC

\* Builders and installers are alike.
ScriptSymmetry == Permutations(Builders) \cup Permutations(Installers)
=============================================================================

----------------------------- MODULE MCManagedUse -----------------------------
(* Small instances of the clients with the updater for TLC.                *)
EXTENDS ManagedUse, TLC

ClientSymmetry == Permutations(Procs)

CONSTANTS r1, r2, r3

\* r1 is installed first, r2 and r3 follow it; r3 revokes r1.
SeqDef == [m \in Releases |-> CASE m = r1 -> 1 [] m = r2 -> 2 [] OTHER -> 3]
RevokesDef == [m \in Releases |-> IF m = r3 THEN {r1} ELSE {}]
IssuedDef == [m \in Releases |-> 1]
ExpiresDef == [m \in Releases |-> 9]
=============================================================================

--------------------------- MODULE MCReleaseManager ---------------------------
(* Small instances of the managed updater for TLC.                         *)
EXTENDS ReleaseManagerProperties, TLC

ProcSymmetry == Permutations(Procs)

CONSTANTS r1, r2, r3, r4

\* r1 is installed first, r2 follows it, r3 follows both and revokes r1, and r4
\* equivocates: it carries the sequence of r3.  r3 was numbered before r2 was issued,
\* and r2 withdraws it: a host that has seen r2 on the channel knows r3 as revoked.
SeqDef == [m \in Releases |-> CASE m = r1 -> 1 [] m = r2 -> 2 [] OTHER -> 3]
RevokesDef == [m \in Releases |-> CASE m = r2 -> {r3} \cap Releases [] m = r3 -> {r1}
                                    [] OTHER -> {}]

\* No metadata expires, or each expires in turn.
IssuedLong == [m \in Releases |-> 1]
ExpiresLong == [m \in Releases |-> 9]
IssuedShort == [m \in Releases |-> SeqDef[m]]
ExpiresShort == [m \in Releases |-> SeqDef[m] + 2]

=============================================================================

----------------------------- MODULE ReleaseLedger -----------------------------
(***************************************************************************)
(* What the managed updater promises about installed.json, whatever the    *)
(* interleaving of invocations, crashes and power losses: each replacement *)
(* of the file is one of five moves, and a power loss goes back to the     *)
(* last committed version and never further.                               *)
(***************************************************************************)
EXTENDS Naturals

CONSTANTS Releases, NoRelease, First, Seq, Issued, Expires, Revokes,
          Approved, Healthy, Slack

VARIABLES ledger, stable  \* installed.json as read, and as a power loss leaves it
vars == <<ledger, stable>>

TimeValid(m, t) == Issued[m] <= t + Slack /\ t < Expires[m]

Init == /\ \E t \in 0 .. Expires[First] :
              /\ TimeValid(First, t)
              /\ ledger = [current |-> First, previous |-> NoRelease,
                           sequence |-> Seq[First], metadata |-> First,
                           verified |-> t, expires |-> Expires[First],
                           revoked |-> {}, failed |-> {}]
        /\ stable = ledger

\* A manifest the updater may act on: approved, neither replayed nor
\* equivocating nor quarantined, and not naming itself as revoked.
Fresh(m) == /\ m \in Approved \ ledger.failed /\ m \notin Revokes[m]
            /\ Seq[m] > ledger.sequence \/ m = ledger.metadata

Saw(m) == [ledger EXCEPT !.sequence = Seq[m], !.metadata = m,
                         !.revoked = @ \cup Revokes[m]]

\* Revocations are recorded before anything of m is downloaded.
Observe(m) == Fresh(m) /\ ledger' = Saw(m)

\* A lease starts at a time the manifest itself allows, and the clock has not
\* gone back since the last one by more than the tolerated error.
Leased(l, m, t) == /\ TimeValid(m, t) /\ t + Slack >= ledger.verified
                   /\ ledger' = [l EXCEPT !.verified = t, !.expires = Expires[m]]

Renew(m, t) == /\ Fresh(m) /\ m = ledger.current /\ m \notin Saw(m).revoked
               /\ Leased(Saw(m), m, t)

\* Only the newest manifest seen, proven on the host, replaces a release that
\* is not itself revoked.
Upgrade(m, t) == /\ Fresh(m) /\ m = ledger.metadata /\ m # ledger.current
                 /\ m \in Healthy /\ ledger.current \notin ledger.revoked
                 /\ Leased([ledger EXCEPT !.current = m,
                                             !.previous = ledger.current], m, t)

Quarantine(m) == /\ m = ledger.metadata /\ m # ledger.current
                 /\ ledger' = [ledger EXCEPT !.failed = @ \cup {m}]

\* The sequence, the revocations and the lease stay with the newest release.
Rollback == /\ ledger.previous # NoRelease /\ ledger.previous \notin ledger.revoked
            /\ ledger' = [ledger EXCEPT !.current = ledger.previous,
                                        !.previous = ledger.current]

Move == \/ \E m \in Releases : Observe(m) \/ Quarantine(m)
        \/ \E m \in Releases : \E t \in 0 .. Expires[m] : Renew(m, t) \/ Upgrade(m, t)
        \/ Rollback

Replace == Move /\ UNCHANGED stable
Commit == stable' = ledger /\ UNCHANGED ledger
Lose == ledger' = stable /\ UNCHANGED stable

Next == Replace \/ Commit \/ Lose
Spec == Init /\ [][Next]_vars
=============================================================================

------------------------------ MODULE DecisionLog ------------------------------
(***************************************************************************)
(* What the broker promises about its audit file, whatever the             *)
(* interleaving of connections, failed writes, stops and power losses: the *)
(* file only grows, by one record per connection, before that connection   *)
(* is told a decision; only what is on the disk is told; and a power loss  *)
(* takes nothing that is.                                                  *)
(***************************************************************************)
EXTENDS Naturals, Sequences

CONSTANTS Conns

VARIABLES
  trail,  \* the records in the file, in order
  safe,   \* how many of them are on the disk
  told    \* per connection: the decision it got, "failed" or "none"
vars == <<trail, safe, told>>

Decisions == {"allowed", "denied"}
Entry == [conn : Conns, verdict : Decisions, whole : BOOLEAN]

Init == trail = <<>> /\ safe = 0 /\ told = [c \in Conns |-> "none"]

\* A record that is complete and on the disk says that c was decided so.
Backed(c, d) ==
  \E i \in 1 .. safe : trail[i] = [conn |-> c, verdict |-> d, whole |-> TRUE]

\* Connections end without a decision; what one was told stays said.
Ends(c) == told'[c] = told[c] \/ (told[c] = "none" /\ told'[c] = "failed")
Typed == told' \in [Conns -> Decisions \cup {"none", "failed"}]

\* Complete, or torn by a failed write.
Record(e) ==
  /\ told[e.conn] \notin Decisions
  /\ \A i \in 1 .. Len(trail) : trail[i].conn # e.conn
  /\ trail' = Append(trail, e)
  /\ UNCHANGED <<safe, told>>

Commit == safe' = Len(trail) /\ UNCHANGED <<trail, told>>

\* Connections are answered, or end, all those of a process that stops together.
Tell == /\ Typed
        /\ \A c \in Conns : Ends(c) \/ (told[c] = "none" /\ Backed(c, told'[c]))
        /\ UNCHANGED <<trail, safe>>

\* What is not on the disk is lost from some record on; the last one left of it may
\* be torn.
Lose == /\ Typed /\ \A c \in Conns : Ends(c)
        /\ \E n \in safe .. Len(trail), torn \in BOOLEAN :
             /\ torn => n > safe
             /\ trail' = [i \in 1 .. n |-> IF torn /\ i = n
                                           THEN [trail[i] EXCEPT !.whole = FALSE]
                                           ELSE trail[i]]
             /\ safe' = n

Next == (\E e \in Entry : Record(e)) \/ Commit \/ Tell \/ Lose
Spec == Init /\ [][Next]_vars
=============================================================================

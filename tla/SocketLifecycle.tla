---------------------------- MODULE SocketLifecycle ----------------------------
(***************************************************************************)
(* The life of the broker's socket: ServeUnix() from prepareSocketPath()   *)
(* to the deferred os.Remove(), one system call at a time, for broker      *)
(* processes that a supervisor starts one after the other or that are      *)
(* started by hand next to each other.  A socket file is named for the     *)
(* broker that bound it.  Every step works on the path, never on an inode. *)
(***************************************************************************)
EXTENDS Naturals, FiniteSets

CONSTANTS
  Brokers,    \* broker processes, each started once
  NoSocket    \* nothing at the socket path

ASSUME BrokerAssumption == NoSocket \notin Brokers

VARIABLES
  supervised, \* one broker at a time, as systemd and launchd run it
  path,       \* the socket file at the path
  listening,  \* sockets on which listen() was called and that are not closed
  private,    \* socket files with mode 0600
  pc          \* per broker: its next system call

vars == <<supervised, path, listening, private, pc>>

Ended == {"refused", "stopped", "dead"}
Labels == {"off", "lstat", "dial", "remove", "bind", "listen", "chmod", "accept",
           "unlink", "close", "cleanup", "unlink again", "close again"} \cup Ended

Goto(b, l) == pc' = [pc EXCEPT ![b] = l]

Start(b) ==
  /\ pc[b] = "off"
  /\ supervised => \A o \in Brokers \ {b} : pc[o] \in Ended \cup {"off"}
  /\ Goto(b, "lstat")
  /\ UNCHANGED <<path, listening, private>>

Lstat(b) ==
  /\ pc[b] = "lstat"
  /\ Goto(b, IF path = NoSocket THEN "bind" ELSE "dial")
  /\ UNCHANGED <<path, listening, private>>

\* Bug: a refused connection is taken for a free path.
DialForgets(b) ==
  /\ pc[b] = "dial"
  /\ Goto(b, IF path \in listening THEN "refused" ELSE "bind")
  /\ UNCHANGED <<path, listening, private>>

\* 'keybroker is already running', or ECONNREFUSED or ENOENT.
Dial(b) ==
  /\ pc[b] = "dial"
  /\ Goto(b, IF path \in listening THEN "refused" ELSE "remove")
  /\ UNCHANGED <<path, listening, private>>

\* os.Remove() of whatever is at the path by now; it fails if nothing is.
Remove(b) ==
  /\ pc[b] = "remove"
  /\ path' = NoSocket
  /\ Goto(b, IF path = NoSocket THEN "refused" ELSE "bind")
  /\ UNCHANGED <<listening, private>>

\* net.Listen(): bind() fails when the path is taken.
Bind(b) ==
  /\ pc[b] = "bind"
  /\ IF path = NoSocket THEN path' = b /\ Goto(b, "listen")
                        ELSE UNCHANGED path /\ Goto(b, "refused")
  /\ UNCHANGED <<listening, private>>

Listen(b) ==
  /\ pc[b] = "listen"
  /\ listening' = listening \cup {b}
  /\ Goto(b, "chmod")
  /\ UNCHANGED <<path, private>>

\* Bug: the mode is left to the umask.
ChmodSkipped(b) ==
  /\ pc[b] = "chmod"
  /\ Goto(b, "accept")
  /\ UNCHANGED <<path, listening, private>>

\* Bug: an error of os.Chmod() is ignored.
ChmodIgnored(b) ==
  /\ pc[b] = "chmod"
  /\ private' = private \cup {path}
  /\ Goto(b, "accept")
  /\ UNCHANGED <<path, listening>>

\* Bug: an error of os.Chmod() returns without the deferred calls.
ChmodLeaks(b) ==
  /\ pc[b] = "chmod"
  /\ private' = private \cup ({path} \ {NoSocket})
  /\ Goto(b, IF path = NoSocket THEN "refused" ELSE "accept")
  /\ UNCHANGED <<path, listening>>

Chmod(b) ==
  /\ pc[b] = "chmod"
  /\ private' = private \cup ({path} \ {NoSocket})
  /\ Goto(b, IF path = NoSocket THEN "cleanup" ELSE "accept")
  /\ UNCHANGED <<path, listening>>

\* SIGTERM: the goroutine closes the listener, which unlinks the path first.
Cancel(b) ==
  /\ pc[b] = "accept"
  /\ Goto(b, "unlink")
  /\ UNCHANGED <<path, listening, private>>

\* Any other error of Accept() ends ServeUnix() as well.
AcceptFails(b) ==
  /\ pc[b] = "accept"
  /\ Goto(b, "cleanup")
  /\ UNCHANGED <<path, listening, private>>

\* The two calls of listener.Close(): from the goroutine, or deferred.
Unlink(b) ==
  /\ pc[b] \in {"unlink", "unlink again"}
  /\ path' = NoSocket
  /\ Goto(b, IF pc[b] = "unlink" THEN "close" ELSE "close again")
  /\ UNCHANGED <<listening, private>>

Close(b) ==
  /\ pc[b] \in {"close", "close again"}
  /\ listening' = listening \ {b}
  /\ Goto(b, IF pc[b] = "close" THEN "cleanup" ELSE "stopped")
  /\ UNCHANGED <<path, private>>

\* The deferred os.Remove(socketPath); the deferred Close() does nothing to a
\* listener that is closed, and else unlinks the path once more.
Cleanup(b) ==
  /\ pc[b] = "cleanup"
  /\ path' = NoSocket
  /\ Goto(b, IF b \in listening THEN "unlink again" ELSE "stopped")
  /\ UNCHANGED <<listening, private>>

Kill(b) ==
  /\ pc[b] \notin Ended \cup {"off"}
  /\ listening' = listening \ {b}
  /\ Goto(b, "dead")
  /\ UNCHANGED <<path, private>>

Init ==
  /\ supervised \in BOOLEAN
  /\ path = NoSocket /\ listening = {} /\ private = {}
  /\ pc = [b \in Brokers |-> "off"]

Serve(b) == \/ Lstat(b) \/ Dial(b) \/ Remove(b) \/ Bind(b) \/ Listen(b) \/ Chmod(b)
            \/ Unlink(b) \/ Close(b) \/ Cleanup(b)

Next == /\ \E b \in Brokers : Start(b) \/ Serve(b) \/ Cancel(b) \/ AcceptFails(b) \/ Kill(b)
        /\ UNCHANGED supervised

Spec == Init /\ [][Next]_vars
-----------------------------------------------------------------------------
TypeOK ==
  /\ supervised \in BOOLEAN
  /\ path \in Brokers \cup {NoSocket}
  /\ listening \subseteq Brokers /\ private \subseteq Brokers
  /\ pc \in [Brokers -> Labels]

\* Under a supervisor a broker that accepts is the one trustedSocket() and a
\* client's dial reach, whatever socket a killed predecessor left behind.
AcceptingIsReachable ==
  supervised => \A b \in Brokers : pc[b] = "accept" => path = b /\ b \in listening /\ b \in private

\* Under a supervisor a start never fails: neither a stale socket nor one that is
\* being removed stops the next broker.
NoStartRefused == supervised => \A b \in Brokers : pc[b] # "refused"

\* Brokers that end by themselves leave nothing behind, however their starts and
\* stops overlap: no socket file, and no socket that still takes connections.
CleanStop ==
  (\A b \in Brokers : pc[b] \in {"off", "refused", "stopped"}) =>
    path = NoSocket /\ listening = {}

\* 'a stale socket is removed only after a refused connection proves no broker
\* is listening': a starting broker does not remove a socket being listened on.
OnlyStaleRemoved ==
  [][\A b \in Brokers : pc[b] = "remove" /\ pc'[b] = "bind" => path \notin listening]_vars
-----------------------------------------------------------------------------
(* What makes these inductive *)

Live(b) == pc[b] \notin Ended \cup {"off"}

\* A socket file is left only by a broker that is serving or was killed, and a
\* socket listens only between listen() and close().
OwnInv ==
  \A b \in Brokers :
    /\ path = b => pc[b] \in {"listen", "chmod", "accept", "unlink", "cleanup", "dead"}
    /\ b \in listening => pc[b] \in {"chmod", "accept", "unlink", "close", "cleanup",
                                      "unlink again", "close again"}

\* Under a supervisor one broker lives at a time, so what it found or made at
\* the path is still there at its next call.
AloneInv ==
  \A b \in Brokers :
    /\ \A o \in Brokers : Live(b) /\ Live(o) => b = o
    /\ pc[b] # "refused"
    /\ pc[b] \in {"dial", "remove"} => path # NoSocket
    /\ pc[b] = "bind" => path = NoSocket
    /\ pc[b] \in {"listen", "chmod", "accept", "unlink"} => path = b
    /\ pc[b] \in {"chmod", "accept"} => b \in listening
    /\ pc[b] = "accept" => b \in private
SocketInv == TypeOK /\ OwnInv /\ (supervised => AloneInv)
=============================================================================

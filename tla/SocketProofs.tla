------------------------------ MODULE SocketProofs ------------------------------
(***************************************************************************)
(* The life of the socket, for any number of brokers: who may own the path *)
(* and what a supervised broker finds there.  Brokers started by hand keep *)
(* OwnInv only, which is enough for a clean stop.                          *)
(***************************************************************************)
EXTENDS SocketLifecycle, TLAPS

Step(b) == Start(b) \/ Serve(b) \/ Cancel(b) \/ AcceptFails(b) \/ Kill(b)

\* A step of b leaves every other broker where it is.
LEMMA OthersWait ==
  ASSUME TypeOK, NEW b \in Brokers, Step(b)
  PROVE  \A o \in Brokers \ {b} : pc'[o] = pc[o]
BY DEF TypeOK, Step, Start, Serve, Cancel, AcceptFails, Kill, Goto, Lstat, Dial, Remove, Bind, Listen, Chmod,
       Unlink, Close, Cleanup

LEMMA SocketTypes ==
  ASSUME TypeOK, NEW b \in Brokers, Step(b),
         UNCHANGED supervised
  PROVE  TypeOK'
<1> USE DEF TypeOK, Goto, Labels, Ended
<1>1. CASE Start(b) \/ Cancel(b) \/ AcceptFails(b) \/ Kill(b) BY <1>1 DEF Start, Cancel, AcceptFails, Kill
<1>2. CASE Lstat(b) \/ Dial(b) \/ Remove(b) BY <1>2 DEF Lstat, Dial, Remove
<1>3. CASE Bind(b) \/ Listen(b) BY <1>3 DEF Bind, Listen
<1>4. CASE Chmod(b) BY <1>4 DEF Chmod
<1>5. CASE Unlink(b) \/ Close(b) \/ Cleanup(b) BY <1>5 DEF Unlink, Close, Cleanup
<1> QED BY <1>1, <1>2, <1>3, <1>4, <1>5 DEF Step, Serve

\* The path is only ever given to the broker that binds it.
LEMMA Owned ==
  ASSUME TypeOK, OwnInv, NEW b \in Brokers, Step(b)
  PROVE  OwnInv'
<1> SUFFICES ASSUME NEW o \in Brokers
             PROVE  /\ path' = o => pc'[o] \in {"listen", "chmod", "accept", "unlink", "cleanup", "dead"}
                    /\ o \in listening' =>
                         pc'[o] \in {"chmod", "accept", "unlink", "close", "cleanup",
                                  "unlink again", "close again"}
  BY DEF OwnInv
<1>0. /\ path = o => pc[o] \in {"listen", "chmod", "accept", "unlink", "cleanup", "dead"}
      /\ o \in listening => pc[o] \in {"chmod", "accept", "unlink", "close", "cleanup",
                                  "unlink again", "close again"}
      /\ o # b => pc'[o] = pc[o]
      /\ NoSocket # o
  BY OthersWait, BrokerAssumption DEF OwnInv
<1> USE DEF TypeOK, Goto
<1>1. CASE Start(b) \/ Cancel(b) \/ AcceptFails(b) \/ Kill(b)
  BY <1>0, <1>1 DEF Start, Cancel, AcceptFails, Kill, Ended
<1>2. CASE Lstat(b) \/ Dial(b) \/ Remove(b) BY <1>0, <1>2 DEF Lstat, Dial, Remove
<1>3. CASE Bind(b) \/ Listen(b) BY <1>0, <1>3 DEF Bind, Listen
<1>4. CASE Chmod(b) BY <1>0, <1>4 DEF Chmod
<1>5. CASE Unlink(b) \/ Close(b) \/ Cleanup(b) BY <1>0, <1>5 DEF Unlink, Close, Cleanup
<1> QED BY <1>1, <1>2, <1>3, <1>4, <1>5 DEF Step, Serve

\* Alone, a broker meets nothing at the path but what it, or a dead one, left.
LEMMA Alone ==
  ASSUME TypeOK, OwnInv, AloneInv, supervised,
         NEW b \in Brokers, Step(b)
  PROVE  AloneInv'
<1> USE DEF TypeOK, Goto, Live, Ended
<1>1. /\ \A o \in Brokers \ {b} : pc'[o] = pc[o] /\ ~Live(o)
      /\ pc[b] \in Labels
  BY OthersWait DEF AloneInv, Step, Start, Serve, Cancel, AcceptFails, Kill, Lstat, Dial, Remove, Bind, Listen,
                    Chmod, Unlink, Close, Cleanup
<1>2. \A o \in Brokers : \A q \in Brokers : (Live(o) /\ Live(q))' => o = q
  BY <1>1
<1>3. \A o \in Brokers \ {b} : pc[o] \in {"off", "stopped", "dead"}
  BY <1>1 DEF AloneInv
<1>4. path \in listening => pc[b] \notin {"dial"}
  BY <1>3 DEF OwnInv
<1>5. /\ pc'[b] # "refused"
      /\ pc'[b] \in {"dial", "remove"} => path' # NoSocket
      /\ pc'[b] = "bind" => path' = NoSocket
      /\ pc'[b] \in {"listen", "chmod", "accept", "unlink"} => path' = b
      /\ pc'[b] \in {"chmod", "accept"} => b \in listening'
      /\ pc'[b] = "accept" => b \in private'
  <2>0. /\ pc[b] \in {"dial", "remove"} => path # NoSocket
        /\ pc[b] = "bind" => path = NoSocket
        /\ pc[b] \in {"listen", "chmod", "accept", "unlink"} => path = b
        /\ pc[b] \in {"chmod", "accept"} => b \in listening
        /\ b # NoSocket
    BY BrokerAssumption DEF AloneInv
  <2>1. CASE Start(b) \/ Cancel(b) \/ AcceptFails(b) \/ Kill(b)
    BY <2>0, <2>1 DEF Start, Cancel, AcceptFails, Kill
  <2>2. CASE Lstat(b) \/ Dial(b) \/ Remove(b)
    BY <1>4, <2>0, <2>2 DEF Lstat, Dial, Remove
  <2>3. CASE Bind(b) \/ Listen(b) BY <2>0, <2>3 DEF Bind, Listen
  <2>4. CASE Chmod(b) BY <2>0, <2>4 DEF Chmod
  <2>5. CASE Unlink(b) \/ Close(b) \/ Cleanup(b) BY <2>0, <2>5 DEF Unlink, Close, Cleanup
  <2> QED BY <2>1, <2>2, <2>3, <2>4, <2>5 DEF Step, Serve
<1> QED BY <1>1, <1>2, <1>3, <1>5 DEF AloneInv
-----------------------------------------------------------------------------
\* However starts, stops and kills overlap, path and sockets have the owners
\* that OwnInv names, and under a supervisor those of AloneInv.
THEOREM Lifecycle == Spec => []SocketInv
<1>1. Init => SocketInv
  BY BrokerAssumption DEF Init, SocketInv, TypeOK, OwnInv, AloneInv, Live, Labels, Ended
<1>2. SocketInv /\ [Next]_vars => SocketInv'
  <2>1. ASSUME SocketInv, NEW b \in Brokers, Step(b),
               UNCHANGED supervised
        PROVE  SocketInv'
    BY <2>1, SocketTypes, Owned, Alone DEF SocketInv
  <2>2. ASSUME SocketInv, UNCHANGED vars PROVE SocketInv'
    BY <2>2 DEF SocketInv, TypeOK, OwnInv, AloneInv, Live, vars
  <2> QED BY <2>1, <2>2 DEF Next, Step
<1> QED BY <1>1, <1>2, PTL DEF Spec

\* Every variable of the socket's life keeps its type.
THEOREM SocketTyped == Spec => []TypeOK
BY Lifecycle, PTL DEF SocketInv

\* A supervised broker that accepts is the one clients reach, at a private path.
THEOREM Reachable == Spec => []AcceptingIsReachable
<1>1. SocketInv => AcceptingIsReachable
  BY DEF SocketInv, AloneInv, AcceptingIsReachable
<1> QED BY <1>1, Lifecycle, PTL

\* Nothing a killed or stopping predecessor leaves refuses a supervised start.
THEOREM StartsAgain == Spec => []NoStartRefused
<1>1. SocketInv => NoStartRefused BY DEF SocketInv, AloneInv, NoStartRefused
<1> QED BY <1>1, Lifecycle, PTL

\* Brokers that end by themselves leave neither file nor socket, in any overlap.
THEOREM StopsClean == Spec => []CleanStop
<1>1. SocketInv => CleanStop
  BY DEF SocketInv, TypeOK, OwnInv, CleanStop
<1> QED BY <1>1, Lifecycle, PTL
=============================================================================

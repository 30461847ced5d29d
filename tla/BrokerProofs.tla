------------------------------ MODULE BrokerProofs ------------------------------
(***************************************************************************)
(* The audit of the broker, for any number of connections, requests and    *)
(* faults: a decision that was answered is on the disk, and nothing is     *)
(* recorded twice.  The files alone do not tell why; BrokerInv adds what   *)
(* each goroutine, by its stage, knows of the mutex and of its record.     *)
(***************************************************************************)
EXTENDS BrokerService, SequenceTheorems, TLAPS

\* What a step does not touch, it leaves to every connection: nothing below
\* synced changes, and nobody else's record is added.
LEMMA OthersKeep ==
  ASSUME BrokerInv, NEW d \in Conns,
         stage'[d] = stage[d], reply'[d] = reply[d], req'[d] = req[d],
         mu' = d <=> mu = d,
         synced' \in Nat, synced' >= synced, Len(log') \in Nat, Len(log') >= Len(log),
         \A i \in 1 .. Len(log) : log'[i] = log[i],
         \A i \in 1 .. Len(log') : i > Len(log) => log'[i].conn # d
  PROVE  StageInv(d)'
<1>0. log \in Seq(Record) /\ synced \in 0 .. Len(log) /\ StageInv(d)
  BY DEF BrokerInv, TypeOK
<1>1. Event(d, TRUE)' = Event(d, TRUE) BY DEF Event, Caller, Allowed
<1>2. Invoked(d)' = Invoked(d) BY DEF Invoked
<1>3. ASSUME NEW i \in 1 .. Len(log), log[i] = Event(d, TRUE)
      PROVE  i \in 1 .. Len(log') /\ log'[i] = Event(d, TRUE)'
  <2>1. i \in 1 .. Len(log') BY <1>0
  <2>2. log'[i] = log[i] OBVIOUS
  <2> QED BY <1>1, <1>3, <2>1, <2>2
<1>4. /\ Holds(d, Len(log)) => Holds(d, Len(log))'
      /\ Holds(d, synced) => Holds(d, synced)'
  <2>1. \A i \in 1 .. synced : i \in 1 .. Len(log) /\ i \in 1 .. synced' BY <1>0
  <2> QED BY <1>3, <2>1 DEF Holds
<1>5. (\A i \in 1 .. Len(log) : log[i].conn # d)
        => (\A i \in 1 .. Len(log) : log[i].conn # d)'
  BY <1>0
<1>6. Allowed(Caller(d), req[d].capability)' = Allowed(Caller(d), req[d].capability)
  BY DEF Allowed, Caller
<1> QED BY <1>0, <1>1, <1>2, <1>4, <1>5, <1>6 DEF StageInv

\* The type of what Invoke() appends.
LEMMA EventType ==
  ASSUME TypeOK, NEW c \in Conns, Invoked(c), NEW w \in BOOLEAN
  PROVE  Event(c, w) \in Record /\ Event(c, w).conn = c
<1>1. req[c] \in Request BY RequestAssumption DEF TypeOK, Invoked
<1>2. req[c].capability \in Capabilities /\ req[c].input \in Inputs BY <1>1 DEF Request
<1>3. Caller(c) \in Callers BY DEF Caller, Callers
<1>4. Allowed(Caller(c), req[c].capability) \in BOOLEAN BY DEF Allowed
<1>5. Logged[req[c].input] \in {Logged[i] : i \in Inputs} BY <1>2
<1> HIDE DEF Logged, Caller, Allowed
<1> QED BY <1>2, <1>3, <1>4, <1>5 DEF Event, Record
-----------------------------------------------------------------------------
(* Steps that leave the file alone *)

\* A step of c that leaves file and request alone: what the invariant asks of c
\* at its new stage remains to be shown.
LEMMA Silent ==
  ASSUME BrokerInv, NEW c \in Conns, up, UNCHANGED <<up, req, log>>,
         NEW s \in Stages, Move(c, s),
         NEW r \in Replies, Answer(c, r) \/ UNCHANGED reply,
         mu' \in {mu, c, NoConn}, mu' # mu => mu \in {c, NoConn},
         faults' \in 0 .. MaxFaults, synced' \in {synced, Len(log)},
         StageInv(c)'
  PROVE  BrokerInv'
<1>0. TypeOK /\ LogInv BY DEF BrokerInv
<1>1. TypeOK' BY <1>0, ConnAssumption DEF TypeOK, Move, Answer
<1>2. LogInv' BY <1>0 DEF LogInv, Invoked, Event, Caller, Allowed
<1>3. ASSUME NEW d \in Conns, d # c PROVE StageInv(d)'
  <2>1. stage'[d] = stage[d] /\ reply'[d] = reply[d]
    BY <1>0, <1>3 DEF TypeOK, Move, Answer
  <2>2. mu' = d <=> mu = d BY <1>3, ConnAssumption
  <2>3. log \in Seq(Record) /\ synced \in 0 .. Len(log) BY <1>0 DEF TypeOK
  <2>4. Len(log) \in Nat BY <2>3
  <2> QED BY <2>1, <2>2, <2>3, <2>4, OthersKeep
<1> QED BY <1>1, <1>2, <1>3 DEF BrokerInv

LEMMA RespondKeeps ==
  ASSUME BrokerInv, NEW c \in Conns, Respond(c)
  PROVE  BrokerInv'
<1>0. TypeOK /\ StageInv(c) BY DEF BrokerInv
<1>1. ~Invoked(c) /\ ~Invoked(c)' BY DEF Respond, Invoked
<1>2. PICK r \in Replies : Answer(c, r)
  <2>1. Decision(c) \in Replies BY DEF Decision, Replies
  <2> QED BY <2>1 DEF Respond, Replies
<1>3. stage[c] = "sent" /\ Move(c, "closed") /\ stage'[c] = "closed"
  BY <1>0 DEF Respond, Move, TypeOK
<1>4. mu' = mu /\ mu # c BY <1>0, <1>3 DEF StageInv, Respond, audit
<1>5. StageInv(c)' BY <1>1, <1>3, <1>4 DEF StageInv
<1>6. "closed" \in Stages BY DEF Stages
<1> QED BY <1>0, <1>2, <1>3, <1>4, <1>5, <1>6, Silent DEF Respond, audit, TypeOK

LEMMA DecideKeeps ==
  ASSUME BrokerInv, NEW c \in Conns, Decide(c)
  PROVE  BrokerInv'
<1>0. TypeOK /\ StageInv(c) BY DEF BrokerInv
<1>1. Invoked(c)' BY <1>0 DEF Decide, Invoked, NoRequest, TypeOK
<1>2. stage[c] = "sent" /\ stage'[c] = "decided" BY <1>0 DEF Decide, Move, TypeOK
<1>3. StageInv(c)' BY <1>0, <1>1, <1>2 DEF StageInv, Decide, audit
<1>4. "decided" \in Stages /\ "eof" \in Replies BY DEF Stages, Replies
<1> QED BY <1>0, <1>3, <1>4, Silent DEF Decide, audit, TypeOK

LEMMA LockKeeps ==
  ASSUME BrokerInv, NEW c \in Conns, Lock(c)
  PROVE  BrokerInv'
<1>0. TypeOK /\ StageInv(c) BY DEF BrokerInv
<1>1. stage[c] = "decided" /\ stage'[c] = "locked" /\ mu' = c
  BY <1>0 DEF Lock, Move, TypeOK
<1>2. Invoked(c)' = Invoked(c) BY DEF Lock, Invoked
<1>3. StageInv(c)' BY <1>0, <1>1, <1>2 DEF StageInv, Lock
<1>4. "locked" \in Stages /\ "eof" \in Replies BY DEF Stages, Replies
<1> QED BY <1>0, <1>3, <1>4, Silent DEF Lock, TypeOK

\* The only step that lets a connection count on its record: the mutex kept
\* every other goroutine from writing behind it.
LEMMA SyncKeeps ==
  ASSUME BrokerInv, NEW c \in Conns, Sync(c)
  PROVE  BrokerInv'
<1>0. TypeOK /\ StageInv(c) BY DEF BrokerInv
<1>1. stage[c] = "appended" /\ stage'[c] = "recorded" /\ mu' = NoConn
  BY <1>0 DEF Sync, Move, TypeOK
<1>2. Invoked(c)' = Invoked(c) BY DEF Sync, Invoked
<1>3. Holds(c, synced)'
  <2>1. Holds(c, Len(log)) BY <1>0, <1>1 DEF StageInv
  <2> QED BY <2>1 DEF Holds, Sync, Event, Caller, Allowed
<1>4. StageInv(c)' BY <1>0, <1>1, <1>2, <1>3, ConnAssumption DEF StageInv, Sync
<1>5. "recorded" \in Stages /\ "eof" \in Replies BY DEF Stages, Replies
<1>6. mu = c BY <1>0, <1>1 DEF StageInv
<1> QED BY <1>0, <1>1, <1>4, <1>5, <1>6, Silent DEF Sync, TypeOK

LEMMA SyncFailsKeeps ==
  ASSUME BrokerInv, NEW c \in Conns, SyncFails(c)
  PROVE  BrokerInv'
<1>0. TypeOK /\ StageInv(c) BY DEF BrokerInv
<1>1. stage[c] = "appended" /\ stage'[c] = "failed" /\ mu' = NoConn
  BY <1>0 DEF SyncFails, Move, TypeOK
<1>2. Invoked(c)' = Invoked(c) BY DEF SyncFails, Invoked
<1>3. StageInv(c)' BY <1>0, <1>1, <1>2, ConnAssumption DEF StageInv, SyncFails
<1>4. "failed" \in Stages /\ "eof" \in Replies BY DEF Stages, Replies
<1>5. faults' \in 0 .. MaxFaults BY <1>0, ConnAssumption DEF SyncFails, TypeOK
<1>6. mu = c BY <1>0, <1>1 DEF StageInv
<1> QED BY <1>0, <1>1, <1>3, <1>4, <1>5, <1>6, Silent DEF SyncFails, TypeOK

LEMMA ReturnKeeps ==
  ASSUME BrokerInv, NEW c \in Conns, Return(c)
  PROVE  BrokerInv'
<1> DEFINE a == Allowed(Caller(c), req[c].capability)
<1>0. TypeOK /\ StageInv(c) BY DEF BrokerInv
<1>1. stage[c] \in {"recorded", "failed"} /\ stage'[c] = "closed"
  BY <1>0 DEF Return, Move, TypeOK
<1>2. Invoked(c)' = Invoked(c) /\ a' = a BY DEF Return, Invoked, Allowed, Caller
<1>3. PICK r \in {"unavailable", "allowed", "denied"} :
        /\ Answer(c, r)
        /\ stage[c] = "failed" => r = "unavailable"
        /\ stage[c] = "recorded" => r = IF a THEN "allowed" ELSE "denied"
  BY <1>1 DEF Return, Decision
<1>4. reply'[c] \in {r, "eof"} BY <1>0, <1>1, <1>3 DEF StageInv, Answer, TypeOK
<1>5. stage[c] = "recorded" => Holds(c, synced)'
  <2>1. stage[c] = "recorded" => Holds(c, synced) BY <1>0 DEF StageInv
  <2> QED BY <2>1 DEF Holds, Return, audit, Event, Caller, Allowed
<1>6. mu' = mu /\ mu # c BY <1>0, <1>1 DEF StageInv, Return, audit
<1>7. (reply[c] \in {"allowed", "denied"})' =>
        stage[c] = "recorded" /\ (reply'[c] = "allowed" <=> a)
  BY <1>1, <1>3, <1>4
<1>8. StageInv(c)'
  <2> HIDE DEF a
  <2>1. (Allowed(Caller(c), req[c].capability))' = a' BY DEF a
  <2> QED BY <1>1, <1>2, <1>5, <1>6, <1>7, <2>1 DEF StageInv
<1>9. "closed" \in Stages /\ r \in Replies BY <1>3 DEF Stages, Replies
<1> QED BY <1>0, <1>3, <1>6, <1>8, <1>9, Silent DEF Return, audit, TypeOK

LEMMA ClientTimeoutKeeps ==
  ASSUME BrokerInv, NEW c \in Conns, ClientTimeout(c)
  PROVE  BrokerInv'
<1>0. TypeOK /\ StageInv(c) BY DEF BrokerInv
<1>1. Invoked(c)' = Invoked(c) BY DEF ClientTimeout, Invoked
<1>2. reply'[c] = "eof" /\ stage' = stage /\ mu' = mu
  BY <1>0 DEF ClientTimeout, Answer, TypeOK, audit
<1>3. Move(c, stage[c]) BY <1>0, <1>2 DEF Move, TypeOK
<1>4. Holds(c, Len(log))' = Holds(c, Len(log)) /\ Holds(c, synced)' = Holds(c, synced)
  BY DEF Holds, ClientTimeout, audit, Event, Caller, Allowed
<1>5. StageInv(c)' BY <1>0, <1>1, <1>2, <1>4 DEF StageInv, ClientTimeout, audit
<1>6. stage[c] \in Stages /\ "eof" \in Replies BY <1>0 DEF TypeOK, Replies
<1>7. faults' \in 0 .. MaxFaults BY <1>0, ConnAssumption DEF ClientTimeout, TypeOK
<1> QED BY <1>0, <1>2, <1>3, <1>5, <1>6, <1>7, Silent DEF ClientTimeout, audit, TypeOK
-----------------------------------------------------------------------------
(* Steps that write, and new connections *)

\* The holder of the mutex appends its record, whole or torn.
LEMMA Appends ==
  ASSUME BrokerInv, NEW c \in Conns, up, stage[c] = "locked", NEW w \in BOOLEAN, Put(c, w),
         NEW s \in {"appended", "failed"}, Move(c, s),
         s = "appended" => w = TRUE /\ mu' = mu,
         s = "failed" => mu' = NoConn,
         UNCHANGED <<up, req, reply, synced>>, faults' \in 0 .. MaxFaults
  PROVE  BrokerInv'
<1>0. /\ TypeOK /\ LogInv /\ StageInv(c)
      /\ log \in Seq(Record) /\ Len(log) \in Nat /\ synced \in 0 .. Len(log)
  BY DEF BrokerInv, TypeOK
<1>1. Invoked(c) /\ mu = c /\ \A i \in 1 .. Len(log) : log[i].conn # c
  BY <1>0 DEF StageInv
<1>2. Event(c, w) \in Record /\ Event(c, w).conn = c BY <1>0, <1>1, EventType
<1>3. \A d, v : Event(d, v)' = Event(d, v) BY DEF Event, Caller, Allowed
<1>4. \A d : Invoked(d)' = Invoked(d) BY DEF Invoked
<1>5. /\ log' \in Seq(Record) /\ Len(log') = Len(log) + 1
      /\ \A i \in 1 .. Len(log) : log'[i] = log[i]
      /\ log'[Len(log) + 1] = Event(c, w)
  BY <1>0, <1>2 DEF Put
<1>6. stage'[c] = s /\ reply'[c] = reply[c] BY <1>0 DEF Move, TypeOK
<1>7. TypeOK'
  <2>1. stage' \in [Conns -> Stages] BY <1>0 DEF TypeOK, Move, Stages
  <2> QED BY <1>0, <1>5, <2>1 DEF TypeOK
<1>8. LogInv'
  <2>1. ASSUME NEW i \in 1 .. Len(log')
        PROVE  /\ Invoked(log'[i].conn)
               /\ \E v \in BOOLEAN : log'[i] = Event(log'[i].conn, v)
    <3>1. CASE i = Len(log) + 1 BY <1>1, <1>2, <1>5, <3>1
    <3>2. CASE i \in 1 .. Len(log) BY <1>0, <1>5, <3>2 DEF LogInv
    <3> QED BY <1>0, <1>5, <3>1, <3>2
  <2>2. ASSUME NEW i \in 1 .. Len(log'), NEW j \in 1 .. Len(log'),
               log'[i].conn = log'[j].conn
        PROVE  i = j
    <3>1. CASE i \in 1 .. Len(log) /\ j \in 1 .. Len(log)
      BY <1>0, <1>5, <2>2, <3>1 DEF LogInv
    <3>2. CASE i = Len(log) + 1 \/ j = Len(log) + 1
      BY <1>0, <1>1, <1>2, <1>5, <2>2, <3>2
    <3> QED BY <1>0, <1>5, <3>1, <3>2
  <2> QED BY <1>3, <1>4, <2>1, <2>2 DEF LogInv
<1>9. StageInv(c)'
  <2>1. s = "appended" => Holds(c, Len(log))'
    <3>1. s = "appended" => log'[Len(log) + 1] = Event(c, TRUE)'
      BY <1>5 DEF Event, Caller, Allowed
    <3>2. Len(log) + 1 \in 1 .. Len(log') BY <1>0, <1>5
    <3> QED BY <3>1, <3>2 DEF Holds
  <2>2. reply[c] \in {"none", "eof"} BY <1>0 DEF StageInv
  <2> QED BY <1>1, <1>4, <1>6, <2>1, <2>2, ConnAssumption DEF StageInv
<1>10. ASSUME NEW d \in Conns, d # c PROVE StageInv(d)'
  <2>1. stage'[d] = stage[d] /\ (mu' = d <=> mu = d)
    BY <1>0, <1>1, <1>10, ConnAssumption DEF TypeOK, Move
  <2>2. \A i \in 1 .. Len(log') : i > Len(log) => log'[i].conn # d
    BY <1>0, <1>2, <1>5, <1>10
  <2>3. Len(log') \in Nat /\ Len(log') >= Len(log) /\ synced' \in Nat BY <1>0, <1>5
  <2> QED BY <1>0, <1>5, <2>1, <2>2, <2>3, OthersKeep
<1> QED BY <1>7, <1>8, <1>9, <1>10 DEF BrokerInv

LEMMA AppendLineKeeps ==
  ASSUME BrokerInv, NEW c \in Conns, AppendLine(c)
  PROVE  BrokerInv'
BY Appends DEF AppendLine, BrokerInv, TypeOK

LEMMA AppendFailsKeeps ==
  ASSUME BrokerInv, NEW c \in Conns, AppendFails(c)
  PROVE  BrokerInv'
<1>0. TypeOK /\ StageInv(c) BY DEF BrokerInv
<1>1. faults' \in 0 .. MaxFaults BY <1>0, ConnAssumption DEF AppendFails, TypeOK
<1>2. CASE Put(c, FALSE) BY <1>1, <1>2, Appends DEF AppendFails
<1>3. CASE UNCHANGED log
  <2>1. stage[c] = "locked" /\ stage'[c] = "failed" /\ mu' = NoConn /\ mu = c
    BY <1>0 DEF AppendFails, Move, TypeOK, StageInv
  <2>2. Invoked(c)' = Invoked(c) BY DEF AppendFails, Invoked
  <2>3. StageInv(c)' BY <1>0, <2>1, <2>2, ConnAssumption DEF StageInv, AppendFails
  <2>4. "failed" \in Stages /\ "eof" \in Replies BY DEF Stages, Replies
  <2> QED BY <1>0, <1>1, <1>3, <2>1, <2>3, <2>4, Silent DEF AppendFails, TypeOK
<1> QED BY <1>2, <1>3 DEF AppendFails

\* A connection is used once, so no record is there under its name.
LEMMA ConnectKeeps ==
  ASSUME BrokerInv, NEW c \in Conns, NEW r \in Requests, Connect(c, r)
  PROVE  BrokerInv'
<1>0. /\ TypeOK /\ LogInv /\ StageInv(c)
      /\ log \in Seq(Record) /\ Len(log) \in Nat /\ synced \in 0 .. Len(log)
  BY DEF BrokerInv, TypeOK
<1>1. ~Invoked(c) BY <1>0 DEF Connect, StageInv, Invoked
<1>2. \A i \in 1 .. Len(log) : log[i].conn # c BY <1>0, <1>1 DEF LogInv
<1>3. TypeOK' BY <1>0 DEF TypeOK, Connect, Move, Stages, audit
<1>4. LogInv'
  <2>1. \A d : d # c => Invoked(d)' = Invoked(d) /\ \A v : Event(d, v)' = Event(d, v)
    BY <1>0 DEF Connect, TypeOK, Invoked, Event, Caller, Allowed
  <2>2. UNCHANGED log BY DEF Connect, audit
  <2> QED BY <1>0, <1>2, <2>1, <2>2 DEF LogInv
<1>5. StageInv(c)'
  <2>1. stage'[c] = "sent" /\ stage[c] = "free" /\ UNCHANGED <<reply, mu, log>>
    BY <1>0 DEF Connect, Move, TypeOK, audit
  <2> QED BY <1>0, <1>2, <2>1 DEF StageInv
<1>6. ASSUME NEW d \in Conns, d # c PROVE StageInv(d)'
  <2>1. /\ stage'[d] = stage[d] /\ req'[d] = req[d] /\ reply'[d] = reply[d]
        /\ UNCHANGED audit
    BY <1>0, <1>6 DEF Connect, Move, TypeOK
  <2> QED BY <1>0, <2>1, OthersKeep DEF audit
<1> QED BY <1>3, <1>4, <1>5, <1>6 DEF BrokerInv, Connect
-----------------------------------------------------------------------------
(* The end of the process *)

\* Goroutines end where they are; what was below synced stays, and nobody's
\* decision depended on more.
LEMMA DownKeeps ==
  ASSUME BrokerInv, Down, UNCHANGED req, LogInv',
         log' \in Seq(Record), synced' \in 0 .. Len(log'), synced' >= synced,
         \A i \in 1 .. synced : log'[i] = log[i], faults' \in 0 .. MaxFaults
  PROVE  BrokerInv'
<1>0. /\ TypeOK /\ synced \in Nat /\ synced' \in Nat
      /\ \A c \in Conns : StageInv(c)
  BY DEF BrokerInv, TypeOK
<1>1. ASSUME NEW c \in Conns
      PROVE  /\ stage'[c] \in {"free", "closed"} /\ (stage'[c] = "free" => stage[c] = "free")
             /\ reply'[c] \in {reply[c], "eof"}
             /\ stage'[c] = "free" => reply'[c] = reply[c]
  BY <1>0 DEF Down, TypeOK
<1>2. TypeOK'
  <2>1. stage' \in [Conns -> Stages] /\ reply' \in [Conns -> Replies]
    BY <1>0 DEF Down, TypeOK, Stages, Replies
  <2> QED BY <1>0, <2>1 DEF TypeOK, Down
<1>3. ASSUME NEW c \in Conns PROVE StageInv(c)'
  <2>1. /\ Invoked(c)' = Invoked(c) /\ Event(c, TRUE)' = Event(c, TRUE)
        /\ Allowed(Caller(c), req[c].capability)' = Allowed(Caller(c), req[c].capability)
    BY DEF Invoked, Event, Allowed, Caller
  <2>2. Holds(c, synced) => Holds(c, synced)'
    <3>1. \A i \in 1 .. synced : i \in 1 .. synced' /\ log'[i] = log[i] BY <1>0
    <3> QED BY <2>1, <3>1 DEF Holds
  <2>3. mu' # c BY ConnAssumption DEF Down
  <2>4. stage'[c] = "free" => req'[c] = NoRequest BY <1>0, <1>1 DEF StageInv
  <2>5. stage'[c] # "closed" => reply'[c] \in {"none", "eof"}
    BY <1>0, <1>1 DEF StageInv
  <2>6. Invoked(c) /\ reply'[c] \in {"allowed", "denied"} =>
          /\ Holds(c, synced)'
          /\ reply'[c] = "allowed" <=> Allowed(Caller(c), req[c].capability)
    BY <1>0, <1>1, <2>2 DEF StageInv
  <2> QED BY <1>1, <2>1, <2>3, <2>4, <2>5, <2>6 DEF StageInv
<1> QED BY <1>1, <1>2, <1>3 DEF BrokerInv, Down

LEMMA StopKeeps ==
  ASSUME BrokerInv, Stop
  PROVE  BrokerInv'
<1>0. TypeOK /\ LogInv BY DEF BrokerInv
<1>1. LogInv' BY <1>0 DEF LogInv, Stop, Invoked, Event, Caller, Allowed
<1>2. faults' \in 0 .. MaxFaults BY <1>0, ConnAssumption DEF Stop, TypeOK
<1> QED BY <1>0, <1>1, <1>2, DownKeeps DEF Stop, TypeOK

\* A torn record differs from the whole one in nothing else.
LEMMA Torn ==
  ASSUME NEW d \in Conns, NEW v \in BOOLEAN,
         Event(d, v) \in Record, Event(d, FALSE) \in Record
  PROVE  [Event(d, v) EXCEPT !.whole = FALSE] = Event(d, FALSE)
<1> DEFINE x == Event(d, v)
           y == Event(d, FALSE)
           t == [x EXCEPT !.whole = FALSE]
<1>1. /\ x.conn = y.conn /\ x.caller = y.caller /\ x.capability = y.capability
      /\ x.allowed = y.allowed /\ x.input = y.input /\ y.whole = FALSE
  BY Zenon DEF Event
<1>2. x \in Record /\ y \in Record OBVIOUS
<1> HIDE DEF x, y
<1>3. /\ t \in Record /\ t.conn = x.conn /\ t.caller = x.caller
      /\ t.capability = x.capability /\ t.allowed = x.allowed /\ t.input = x.input
      /\ t.whole = FALSE
  BY <1>2 DEF Record
<1>4. t = y BY <1>1, <1>2, <1>3 DEF Record
<1> QED BY <1>4 DEF x, y

\* A prefix of the file survives; its last record may be torn by the loss.
LEMMA Survives ==
  ASSUME BrokerInv, PowerLoss
  PROVE  \E n \in synced .. Len(log), torn \in BOOLEAN :
           /\ torn => n > synced
           /\ log' \in Seq(Record) /\ Len(log') = n
           /\ \A i \in 1 .. n : log'[i] = IF torn /\ i = n
                                          THEN [log[i] EXCEPT !.whole = FALSE] ELSE log[i]
<1>0. log \in Seq(Record) /\ Len(log) \in Nat /\ synced \in 0 .. Len(log)
  BY DEF BrokerInv, TypeOK
<1>1. PICK n \in synced .. Len(log) :
        \/ log' = SubSeq(log, 1, n)
        \/ n > synced /\ log' = [SubSeq(log, 1, n) EXCEPT ![n].whole = FALSE]
  BY DEF PowerLoss
<1> DEFINE kept == SubSeq(log, 1, n)
<1>2. /\ kept \in Seq(Record) /\ Len(kept) = n /\ n \in Nat
      /\ \A i \in 1 .. n : kept[i] = log[i]
  BY <1>0
<1>3. \A i \in 1 .. n : [log[i] EXCEPT !.whole = FALSE] \in Record
  <2>1. \A i \in 1 .. n : log[i] \in Record BY <1>0, <1>1
  <2> QED BY <2>1 DEF Record
<1> HIDE DEF kept
<1>4. CASE log' = kept
  <2>1. /\ log' \in Seq(Record) /\ Len(log') = n /\ \A i \in 1 .. n : log'[i] = log[i]
    BY <1>2, <1>4
  <2> WITNESS n \in synced .. Len(log), FALSE \in BOOLEAN
  <2> QED BY <2>1
<1>5. CASE n > synced /\ log' = [kept EXCEPT ![n].whole = FALSE]
  <2>1. n \in 1 .. n /\ kept[n] = log[n] BY <1>0, <1>2, <1>5
  <2>2. log' = [kept EXCEPT ![n] = [kept[n] EXCEPT !.whole = FALSE]] BY <1>5
  <2> DEFINE cut == [log[n] EXCEPT !.whole = FALSE]
  <2>3. cut \in Record /\ log' = [kept EXCEPT ![n] = cut] BY <1>3, <2>1, <2>2
  <2> HIDE DEF cut
  <2>4. /\ log' \in Seq(Record) /\ Len(log') = n /\ log'[n] = cut
        /\ \A i \in 1 .. n : i # n => log'[i] = kept[i]
    BY <1>2, <2>1, <2>3
  <2>5. \A i \in 1 .. n : log'[i] = IF i = n THEN [log[i] EXCEPT !.whole = FALSE] ELSE log[i]
    BY <1>2, <2>4 DEF cut
  <2> WITNESS n \in synced .. Len(log), TRUE \in BOOLEAN
  <2> QED BY <1>5, <2>4, <2>5
<1> QED BY <1>1, <1>4, <1>5 DEF kept

LEMMA PowerLossKeeps ==
  ASSUME BrokerInv, PowerLoss
  PROVE  BrokerInv'
<1>0. /\ TypeOK /\ LogInv
      /\ log \in Seq(Record) /\ Len(log) \in Nat /\ synced \in 0 .. Len(log)
  BY DEF BrokerInv, TypeOK
<1>1. PICK n \in synced .. Len(log) :
        /\ log' \in Seq(Record) /\ Len(log') = n
        /\ \A i \in 1 .. n :
             \/ log'[i] = log[i]
             \/ i > synced /\ log'[i] = [log[i] EXCEPT !.whole = FALSE]
  BY Survives
<1>2. n \in Nat BY <1>0
<1>3. LogInv'
  <2>1. /\ \A c : Invoked(c)' = Invoked(c) /\ \A v : Event(c, v)' = Event(c, v)
    BY DEF PowerLoss, Invoked, Event, Caller, Allowed
  <2>2. ASSUME NEW i \in 1 .. n
        PROVE  /\ log'[i].conn = log[i].conn
               /\ \E v \in BOOLEAN : log'[i] = Event(log[i].conn, v)
    <3>1. i \in 1 .. Len(log) /\ log[i] \in Record BY <1>0, <1>1, <1>2
    <3>2. PICK v \in BOOLEAN : log[i] = Event(log[i].conn, v) BY <1>0, <3>1 DEF LogInv
    <3>3. [log[i] EXCEPT !.whole = FALSE] = Event(log[i].conn, FALSE)
      <4>1. log[i].conn \in Conns BY <3>1 DEF Record
      <4>2. Invoked(log[i].conn) BY <1>0, <3>1 DEF LogInv
      <4> QED BY <1>0, <3>1, <3>2, <4>1, <4>2, EventType, Torn
    <3>4. [log[i] EXCEPT !.whole = FALSE].conn = log[i].conn BY <3>1 DEF Record
    <3> QED BY <1>1, <3>2, <3>3, <3>4
  <2>3. \A i \in 1 .. n : i \in 1 .. Len(log) BY <1>0, <1>1, <1>2
  <2> QED BY <1>0, <1>1, <2>1, <2>2, <2>3 DEF LogInv
<1>4. synced' = n BY <1>1 DEF PowerLoss
<1>5. faults' \in 0 .. MaxFaults BY <1>0, ConnAssumption DEF PowerLoss, TypeOK
<1>6. \A i \in 1 .. synced : log'[i] = log[i] BY <1>0, <1>1
<1> QED BY <1>0, <1>1, <1>2, <1>3, <1>4, <1>5, <1>6, DownKeeps DEF PowerLoss

LEMMA RestartKeeps ==
  ASSUME BrokerInv, Restart
  PROVE  BrokerInv'
<1>1. TypeOK' BY DEF BrokerInv, TypeOK, Restart, net, audit
<1>2. LogInv' BY DEF BrokerInv, LogInv, Restart, net, audit, Invoked, Event, Caller, Allowed
<1>3. ASSUME NEW c \in Conns PROVE StageInv(c)'
  BY DEF BrokerInv, StageInv, Restart, net, audit, Invoked, Event, Caller, Allowed, Holds
<1> QED BY <1>1, <1>2, <1>3 DEF BrokerInv, Restart
-----------------------------------------------------------------------------
\* Whatever interleaves and whatever fails, every connection stays at a stage
\* whose record, mutex and answer BrokerInv describes.
THEOREM Auditing == Spec => []BrokerInv
<1>1. Init => BrokerInv
  <2> SUFFICES ASSUME Init PROVE BrokerInv OBVIOUS
  <2>1. TypeOK BY ConnAssumption DEF Init, TypeOK, Stages, Replies
  <2>2. LogInv BY DEF Init, LogInv
  <2>3. \A c \in Conns : StageInv(c)
    BY ConnAssumption DEF Init, StageInv, Invoked, NoRequest
  <2> QED BY <2>1, <2>2, <2>3 DEF BrokerInv, Init
<1>2. BrokerInv /\ [Next]_vars => BrokerInv'
  <2> SUFFICES ASSUME BrokerInv, [Next]_vars PROVE BrokerInv' OBVIOUS
  <2>1. ASSUME NEW c \in Conns, NEW r \in Requests, Connect(c, r) PROVE BrokerInv'
    BY <2>1, ConnectKeeps
  <2>2. ASSUME NEW c \in Conns, Handle(c) PROVE BrokerInv'
    BY <2>2, RespondKeeps, DecideKeeps, LockKeeps, AppendLineKeeps, SyncKeeps, ReturnKeeps
       DEF Handle
  <2>3. ASSUME NEW c \in Conns, Fault(c) PROVE BrokerInv'
    BY <2>3, AppendFailsKeeps, SyncFailsKeeps, ClientTimeoutKeeps DEF Fault
  <2>4. CASE Stop \/ PowerLoss \/ Restart
    BY <2>4, StopKeeps, PowerLossKeeps, RestartKeeps
  <2>5. CASE UNCHANGED vars
    <3>1. TypeOK' BY <2>5 DEF BrokerInv, TypeOK, vars, net, audit
    <3>2. LogInv'
      BY <2>5 DEF BrokerInv, LogInv, vars, net, audit, Invoked, Event, Caller, Allowed
    <3>3. ASSUME NEW c \in Conns PROVE StageInv(c)'
      BY <2>5 DEF BrokerInv, StageInv, vars, net, audit, Invoked, Event, Caller, Allowed, Holds
    <3> QED BY <2>5, <3>1, <3>2, <3>3 DEF BrokerInv, vars, net
  <2> QED BY <2>1, <2>2, <2>3, <2>4, <2>5 DEF Next
<1> QED BY <1>1, <1>2, PTL DEF Spec

\* Every variable of the broker keeps its type.
THEOREM BrokerTypes == Spec => []TypeOK
BY Auditing, PTL DEF BrokerInv

\* 'Audit failure blocks invocation', for any number of connections and faults.
THEOREM DecisionsRecorded == Spec => []RepliesAreRecorded
<1>1. BrokerInv => RepliesAreRecorded
  <2> SUFFICES ASSUME BrokerInv, NEW c \in Conns, Invoked(c),
                      reply[c] \in {"allowed", "denied"}
               PROVE  \E i \in 1 .. synced :
                        /\ log[i].conn = c /\ log[i].whole
                        /\ log[i].caller = "local-user"
                        /\ log[i].capability = req[c].capability
                        /\ log[i].allowed = (reply[c] = "allowed")
    BY DEF RepliesAreRecorded
  <2>1. /\ Holds(c, synced)
        /\ (reply[c] = "allowed") = Allowed(Caller(c), req[c].capability)
    BY DEF BrokerInv, StageInv, Allowed
  <2>2. /\ Event(c, TRUE).conn = c /\ Event(c, TRUE).whole
        /\ Event(c, TRUE).caller = "local-user"
        /\ Event(c, TRUE).capability = req[c].capability
        /\ Event(c, TRUE).allowed = Allowed(Caller(c), req[c].capability)
    <3> HIDE DEF Logged, Allowed
    <3> QED BY DEF Event, Caller
  <2> QED BY <2>1, <2>2 DEF Holds
<1> QED BY <1>1, Auditing, PTL

\* No interleaving, retry or restart records a connection twice, and nothing but
\* an invocation of the owner's is recorded.
THEOREM RecordedOnce == Spec => []OneRecordEach
<1>1. BrokerInv => OneRecordEach BY DEF BrokerInv, LogInv, OneRecordEach
<1> QED BY <1>1, Auditing, PTL

-----------------------------------------------------------------------------
(* The refinement *)

Told == [c \in Conns |-> Outcome(c)]

LEMMA OutcomeType ==
  ASSUME NEW c \in Conns
  PROVE  /\ Outcome(c) \in {"none", "failed", "allowed", "denied"}
         /\ Told[c] = Outcome(c) /\ Told'[c] = Outcome(c)'
         /\ Told' \in [Conns -> Promise!Decisions \cup {"none", "failed"}]
BY DEF Outcome, Told, Promise!Decisions

\* The abstract trail is a sequence of entries, one for each record.
LEMMA TrailType ==
  ASSUME NEW l \in Seq(Record)
  PROVE  /\ [i \in 1 .. Len(l) |-> Summary(l[i])] \in Seq(Promise!Entry)
         /\ Len([i \in 1 .. Len(l) |-> Summary(l[i])]) = Len(l)
<1> DEFINE t == [i \in 1 .. Len(l) |-> Summary(l[i])]
<1>1. \A i \in 1 .. Len(l) : Summary(l[i]) \in Promise!Entry
  <2>1. \A i \in 1 .. Len(l) : l[i] \in Record OBVIOUS
  <2>2. \A e \in Record : /\ e.conn \in Conns /\ e.whole \in BOOLEAN
                          /\ Verdict(e.allowed) \in Promise!Decisions
    BY DEF Record, Verdict, Promise!Decisions
  <2> QED BY <2>1, <2>2 DEF Summary, Promise!Entry
<1>2. Len(l) \in Nat OBVIOUS
<1>3. t \in [1 .. Len(l) -> Promise!Entry] BY <1>1
<1>4. t \in Seq(Promise!Entry) BY <1>2, <1>3, SeqDef
<1>5. DOMAIN t = 1 .. Len(t) /\ Len(t) \in Nat BY <1>4, LenProperties
<1> QED BY <1>2, <1>4, <1>5

\* A step that leaves the file alone and, at most, answers connections.
LEMMA Tells ==
  ASSUME BrokerInv, BrokerInv', UNCHANGED <<log, synced>>,
         \A c \in Conns : \/ ~Invoked(c)
                          \/ /\ Invoked(c)' = Invoked(c)
                             /\ reply'[c] = reply[c] \/ reply[c] = "none"
  PROVE  Promise!Tell
<1>1. ASSUME NEW c \in Conns
      PROVE  Outcome(c)' = Outcome(c) \/ Outcome(c) = "none"
  BY <1>1 DEF Outcome
<1>2. ASSUME NEW c \in Conns, Outcome(c)' \in {"allowed", "denied"}
      PROVE  Promise!Backed(c, Outcome(c)')
  <2>1. Invoked(c)' /\ reply'[c] \in {"allowed", "denied"} /\ Outcome(c)' = reply'[c]
    BY <1>2 DEF Outcome
  <2>2. /\ Holds(c, synced)'
        /\ (reply'[c] = "allowed") = Allowed(Caller(c), req[c].capability)'
    BY <2>1 DEF BrokerInv, StageInv, Allowed
  <2>3. PICK i \in 1 .. synced : log[i] = Event(c, TRUE)' BY <2>2 DEF Holds
  <2>4. i \in 1 .. Len(log) BY <2>3 DEF BrokerInv, TypeOK
  <2>5. /\ Event(c, TRUE)'.conn = c /\ Event(c, TRUE)'.whole = TRUE
        /\ Event(c, TRUE)'.allowed = Allowed(Caller(c), req[c].capability)'
    <3> HIDE DEF Logged, Allowed
    <3> QED BY Zenon DEF Event
  <2>6. Verdict(Allowed(Caller(c), req[c].capability)') = reply'[c]
    BY <2>1, <2>2 DEF Verdict
  <2>7. Trail[i] = [conn |-> c, verdict |-> Outcome(c)', whole |-> TRUE]
    BY <2>1, <2>3, <2>4, <2>5, <2>6 DEF Trail, Summary
  <2> QED BY <2>3, <2>7 DEF Promise!Backed
<1>3. UNCHANGED Trail BY DEF Trail
<1>4. \A c \in Conns : \/ Promise!Ends(c)
                       \/ Told[c] = "none" /\ Promise!Backed(c, Told'[c])
  <2> SUFFICES ASSUME NEW c \in Conns
               PROVE  \/ Promise!Ends(c)
                      \/ Told[c] = "none" /\ Promise!Backed(c, Told'[c])
    OBVIOUS
  <2>1. /\ Outcome(c)' \in {"none", "failed", "allowed", "denied"}
        /\ Told[c] = Outcome(c) /\ Told'[c] = Outcome(c)'
    BY OutcomeType DEF Outcome
  <2> QED BY <1>1, <1>2, <2>1 DEF Promise!Ends, Told
<1>5. Promise!Typed BY OutcomeType DEF Promise!Typed, Told, Outcome, Promise!Decisions
<1> QED BY <1>3, <1>4, <1>5 DEF Promise!Tell, Told

\* A goroutine that appends has not been answered, and has no record yet.
LEMMA Records ==
  ASSUME BrokerInv, BrokerInv', NEW c \in Conns, stage[c] = "locked", NEW w \in BOOLEAN,
         Put(c, w), UNCHANGED <<req, reply, synced>>
  PROVE  \E e \in Promise!Entry : Promise!Record(e)
<1>0. /\ log \in Seq(Record) /\ log' \in Seq(Record) /\ Len(log) \in Nat /\ StageInv(c)
      /\ TypeOK
  BY DEF BrokerInv, TypeOK
<1>1. Event(c, w) \in Record /\ Event(c, w).conn = c
  BY <1>0, EventType DEF StageInv
<1> DEFINE e == Summary(Event(c, w))
<1>2. e.conn = c BY <1>1 DEF Summary
<1>3. /\ Len(log') = Len(log) + 1 /\ log'[Len(log) + 1] = Event(c, w)
      /\ \A i \in 1 .. Len(log) : log'[i] = log[i]
  BY <1>0, <1>1 DEF Put
<1>4. /\ Trail \in Seq(Promise!Entry) /\ Trail' \in Seq(Promise!Entry)
      /\ Len(Trail) = Len(log) /\ Len(Trail') = Len(log')
  BY <1>0, TrailType DEF Trail
<1>5. /\ Trail'[Len(log) + 1] = e
      /\ \A i \in 1 .. Len(log) : Trail'[i] = Trail[i]
  <2>1. /\ Len(log) + 1 \in 1 .. Len(log')
        /\ \A i \in 1 .. Len(log) : i \in 1 .. Len(log')
    BY <1>0, <1>3
  <2> QED BY <1>3, <2>1 DEF Trail
<1>6. e \in Promise!Entry
  <2>1. Len(log) + 1 \in 1 .. Len(Trail') BY <1>0, <1>3, <1>4
  <2> QED BY <1>4, <1>5, <2>1, ElementOfSeq
<1> HIDE DEF e
<1>7. Trail' = Append(Trail, e)
  <2>1. /\ Append(Trail, e) \in Seq(Promise!Entry)
        /\ Len(Append(Trail, e)) = Len(Trail')
        /\ \A i \in 1 .. Len(log) : Append(Trail, e)[i] = Trail[i]
        /\ Append(Trail, e)[Len(log) + 1] = e
    BY <1>0, <1>3, <1>4, <1>6
  <2>2. \A i \in 1 .. Len(Trail') : Trail'[i] = Append(Trail, e)[i]
    <3>1. \A i \in 1 .. Len(Trail') : i \in 1 .. Len(log) \/ i = Len(log) + 1
      BY <1>0, <1>3, <1>4
    <3> QED BY <1>5, <2>1, <3>1
  <2> QED BY <1>4, <2>1, <2>2, SeqEqual
<1>8. \A i \in 1 .. Len(Trail) : Trail[i].conn # c
  BY <1>0, <1>4 DEF Trail, Summary, StageInv
<1>9. Told' = Told /\ Told[c] \notin Promise!Decisions
  BY <1>0 DEF Told, Outcome, Invoked, StageInv, Promise!Decisions
<1> QED BY <1>2, <1>6, <1>7, <1>8, <1>9 DEF Promise!Record, Told

\* The summary of a torn record is the torn summary.
LEMMA TornSummary ==
  ASSUME NEW r \in Record
  PROVE  Summary([r EXCEPT !.whole = FALSE]) = [Summary(r) EXCEPT !.whole = FALSE]
<1> DEFINE x == [r EXCEPT !.whole = FALSE]
           s == Summary(r)
           t == [s EXCEPT !.whole = FALSE]
<1>1. x.conn = r.conn /\ x.allowed = r.allowed /\ x.whole = FALSE BY DEF Record
<1>2. /\ s.conn = r.conn /\ s.verdict = Verdict(r.allowed)
      /\ s \in Promise!Entry
  BY DEF Summary, Record, Verdict, Promise!Entry, Promise!Decisions
<1> HIDE DEF x, s
<1>3. /\ t \in Promise!Entry /\ t.conn = s.conn /\ t.verdict = s.verdict /\ t.whole = FALSE
  BY <1>2 DEF Promise!Entry
<1> DEFINE y == Summary(x)
<1>4. /\ y.conn = x.conn /\ y.verdict = Verdict(x.allowed) /\ y.whole = x.whole
      /\ y = [conn |-> x.conn, verdict |-> Verdict(x.allowed), whole |-> x.whole]
  BY Zenon DEF Summary
<1>5. x.conn \in Conns /\ Verdict(x.allowed) \in Promise!Decisions /\ x.whole \in BOOLEAN
  BY <1>1 DEF Record, Verdict, Promise!Decisions
<1>6. y \in Promise!Entry BY <1>4, <1>5 DEF Promise!Entry
<1> HIDE DEF y
<1>7. y = t BY <1>1, <1>2, <1>3, <1>4, <1>6 DEF Promise!Entry
<1> QED BY <1>7 DEF x, s, y

\* When the process stops, its connections end without a decision.
LEMMA EndsAll ==
  ASSUME BrokerInv, Down, UNCHANGED req
  PROVE  Promise!Typed /\ \A c \in Conns : Promise!Ends(c)
<1>1. ASSUME NEW c \in Conns
      PROVE  Outcome(c)' = Outcome(c) \/ (Outcome(c) = "none" /\ Outcome(c)' = "failed")
  <2>1. reply'[c] = reply[c] \/ (reply[c] = "none" /\ reply'[c] = "eof")
    BY DEF Down
  <2>2. Invoked(c)' = Invoked(c) BY DEF Invoked
  <2> QED BY <2>1, <2>2 DEF Outcome
<1>2. \A c \in Conns : Promise!Ends(c)
  BY <1>1, OutcomeType DEF Promise!Ends, Told
<1>3. Promise!Typed BY OutcomeType DEF Promise!Typed, Told, Outcome, Promise!Decisions
<1> QED BY <1>2, <1>3

LEMMA Loses ==
  ASSUME BrokerInv, PowerLoss
  PROVE  Promise!Lose
<1>0. /\ log \in Seq(Record) /\ Len(log) \in Nat /\ synced \in 0 .. Len(log)
      /\ Len(Trail) = Len(log)
  BY TrailType DEF BrokerInv, TypeOK, Trail
<1>1. PICK n \in synced .. Len(log), torn \in BOOLEAN :
        /\ torn => n > synced
        /\ Len(log') = n
        /\ \A i \in 1 .. n : log'[i] = IF torn /\ i = n
                                       THEN [log[i] EXCEPT !.whole = FALSE] ELSE log[i]
  BY Survives
<1>2. \A i \in 1 .. n : Summary(log'[i]) = IF torn /\ i = n
                                          THEN [Summary(log[i]) EXCEPT !.whole = FALSE]
                                          ELSE Summary(log[i])
  <2>1. \A i \in 1 .. n : log[i] \in Record BY <1>0
  <2> QED BY <1>1, <2>1, TornSummary
<1>3. \A i \in 1 .. n : Trail[i] = Summary(log[i]) BY <1>0 DEF Trail
<1>4. Trail' = [i \in 1 .. n |-> IF torn /\ i = n THEN [Trail[i] EXCEPT !.whole = FALSE]
                                 ELSE Trail[i]]
  BY <1>1, <1>2, <1>3 DEF Trail
<1>5. synced' = n BY <1>1 DEF PowerLoss
<1>6. Promise!Typed /\ \A c \in Conns : Promise!Ends(c) BY EndsAll DEF PowerLoss
<1> QED BY <1>0, <1>1, <1>4, <1>5, <1>6 DEF Promise!Lose

\* Every step of the broker is a move of the decision log.
LEMMA DecisionStep ==
  ASSUME BrokerInv, BrokerInv', [Next]_vars
  PROVE  [Promise!Next]_(Promise!vars)
<1>0. TypeOK /\ \A c \in Conns : StageInv(c) BY DEF BrokerInv
<1>1. ASSUME NEW c \in Conns, NEW r \in Requests, Connect(c, r) PROVE Promise!Tell
  <2>1. UNCHANGED <<log, synced, reply>> /\ ~Invoked(c)
    BY <1>0, <1>1 DEF Connect, audit, StageInv, Invoked
  <2>2. \A d \in Conns : d # c => Invoked(d)' = Invoked(d)
    BY <1>0, <1>1 DEF Connect, TypeOK, Invoked
  <2> QED BY <2>1, <2>2, Tells
<1>2. ASSUME NEW c \in Conns,
             \/ Respond(c) \/ Decide(c) \/ Lock(c) \/ Return(c) \/ SyncFails(c)
             \/ ClientTimeout(c)
      PROVE  Promise!Tell
  <2>1. /\ UNCHANGED <<req, log, synced>>
        /\ UNCHANGED reply \/ \E r : Answer(c, r)
    BY <1>2 DEF Respond, Decide, Lock, Return, SyncFails, ClientTimeout, audit
  <2>2. \A d \in Conns : reply'[d] = reply[d] \/ reply[d] = "none"
    BY <1>0, <2>1 DEF Answer, TypeOK
  <2>3. \A d \in Conns : Invoked(d)' = Invoked(d) BY <2>1 DEF Invoked
  <2> QED BY <2>1, <2>2, <2>3, Tells
<1>3. ASSUME NEW c \in Conns, AppendLine(c) PROVE \E e \in Promise!Entry : Promise!Record(e)
  BY <1>3, Records DEF AppendLine
<1>4. ASSUME NEW c \in Conns, AppendFails(c)
      PROVE  Promise!Tell \/ \E e \in Promise!Entry : Promise!Record(e)
  <2>1. CASE Put(c, FALSE) BY <1>4, <2>1, Records DEF AppendFails
  <2>2. CASE UNCHANGED log
    <3>1. UNCHANGED <<req, reply, log, synced>> BY <1>4, <2>2 DEF AppendFails
    <3>2. \A d \in Conns : Invoked(d)' = Invoked(d) BY <3>1 DEF Invoked
    <3> QED BY <3>1, <3>2, Tells
  <2> QED BY <1>4, <2>1, <2>2 DEF AppendFails
<1>5. ASSUME NEW c \in Conns, Sync(c) PROVE Promise!Commit
  <2>1. UNCHANGED <<req, reply, log>> /\ synced' = Len(log) BY <1>5 DEF Sync
  <2>2. Len(Trail) = Len(log) BY <1>0, TrailType DEF TypeOK, Trail
  <2> QED BY <2>1, <2>2 DEF Promise!Commit, Trail, Told, Outcome, Invoked
<1>6. ASSUME Stop \/ Restart PROVE Promise!Tell
  <2>1. UNCHANGED <<req, log, synced>> BY <1>6 DEF Stop, Restart, net, audit
  <2>2. \A d \in Conns : reply'[d] = reply[d] \/ reply[d] = "none"
    BY <1>6 DEF Stop, Down, Restart, net
  <2>3. \A d \in Conns : Invoked(d)' = Invoked(d) BY <2>1 DEF Invoked
  <2> QED BY <2>1, <2>2, <2>3, Tells
<1>7. UNCHANGED vars => UNCHANGED Promise!vars
  <2> SUFFICES ASSUME UNCHANGED vars PROVE UNCHANGED Promise!vars OBVIOUS
  <2>1. UNCHANGED <<req, reply, log, synced>> BY DEF vars, net, audit
  <2>2. Trail' = Trail BY <2>1 DEF Trail
  <2>3. Told' = Told BY <2>1 DEF Told, Outcome, Invoked
  <2> QED BY <2>1, <2>2, <2>3 DEF Promise!vars, Told
<1> QED BY <1>1, <1>2, <1>3, <1>4, <1>5, <1>6, <1>7, Loses
        DEF Next, Handle, Fault, Promise!Next

\* However connections interleave and whatever fails, the audit file is a decision log:
\* it grows by one record per connection, before its answer, and nothing that is on the
\* disk or was told is ever taken back.
THEOREM DecisionRefinement == Spec => ImplementsDecisionLog
<1>1. Init => Promise!Init
  <2> SUFFICES ASSUME Init PROVE Promise!Init OBVIOUS
  <2>1. log = <<>> /\ synced = 0 /\ \A c \in Conns : ~Invoked(c)
    BY DEF Init, Invoked
  <2>2. Trail = <<>>
    <3>1. Trail \in Seq(Promise!Entry) /\ Len(Trail) = 0 BY <2>1, TrailType DEF Trail
    <3> QED BY <3>1, EmptySeq
  <2> QED BY <2>1, <2>2 DEF Promise!Init, Outcome
<1>2. BrokerInv /\ BrokerInv' /\ [Next]_vars => [Promise!Next]_(Promise!vars)
  BY DecisionStep
<1> QED BY <1>1, <1>2, Auditing, PTL DEF Spec, ImplementsDecisionLog, Promise!Spec
=============================================================================

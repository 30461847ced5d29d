----------------------------- MODULE BrokerService -----------------------------
(***************************************************************************)
(* The broker: one goroutine per connection (handleUnixConnection) decodes *)
(* a request, decides it (Check), appends the decision to the JSONL audit  *)
(* file under the mutex of JSONLAudit and answers (Invoke).  Connections   *)
(* interleave, each file operation can fail, the client can give up, the   *)
(* process can stop with requests in flight and the power can fail.        *)
(***************************************************************************)
EXTENDS Naturals, Sequences

CONSTANTS
  Conns,         \* connections, each used for one request
  NoConn,        \* the value of mu when it is free
  Capabilities,  \* names a client may ask for
  Registered,    \* b.capabilities: the names NewDefault registers
  Requests,      \* what clients send
  Inputs,        \* the inputs of these requests
  Redact(_),     \* redactMap() of an input: AuditRedaction!redactValue
  MaxFaults      \* bound on failed file operations, timeouts, stops, power losses

ASSUME CapabilityAssumption == Registered \subseteq Capabilities
ASSUME ConnAssumption == NoConn \notin Conns /\ MaxFaults \in Nat

VARIABLES
  up,      \* the broker process runs
  stage,   \* per connection: where its goroutine is
  req,     \* per connection: what the client sent
  mu,      \* JSONLAudit.mu
  log,     \* the audit file: what each append left in it, in order
  synced,  \* how many of these appends are on the disk
  reply,   \* per connection: what the client got
  faults

net == <<stage, req, reply>>
audit == <<mu, log, synced>>
vars == <<up, net, audit, faults>>
-----------------------------------------------------------------------------
(* Requests, decisions, records *)

Operations == {"capabilities", "check", "invoke", "unknown", "malformed"}
Callers == {"", "local-cli", "local-user", "other"}
\* owner: the peer runs under the account of the service (trustedPeer).
Request == [operation : Operations, capability : Capabilities, caller : Callers,
            owner : BOOLEAN, input : Inputs]
ASSUME RequestAssumption == Requests \subseteq Request
NoRequest == [operation |-> "none"]

\* Invoke() redacts the input, JSONLAudit.Write() redacts what Invoke() left.
Logged == [i \in Inputs |-> Redact(Redact(i))]

\* An event, and whether all of its line, newline included, reached the file.
Record == [conn : Conns, caller : Callers, capability : Capabilities,
           allowed : BOOLEAN, input : {Logged[i] : i \in Inputs}, whole : BOOLEAN]
Replies == {"none", "capabilities", "allowed", "denied", "unavailable", "error", "eof"}
Stages == {"free", "sent", "decided", "locked", "appended", "failed", "recorded", "closed"}

\* Check().
Allowed(caller, capability) ==
  /\ caller # "" /\ capability \in Registered
  /\ caller \in {"local-cli", "local-user"}

\* handleUnixConnection() overwrites the caller.
Caller(c) == "local-user"

Decision(c) ==
  IF Allowed(Caller(c), req[c].capability) THEN "allowed" ELSE "denied"

Event(c, w) == [conn |-> c, caller |-> Caller(c), capability |-> req[c].capability,
                allowed |-> Allowed(Caller(c), req[c].capability),
                input |-> Logged[req[c].input], whole |-> w]

Move(c, s) == stage' = [stage EXCEPT ![c] = s]
Answer(c, r) == reply' = [reply EXCEPT ![c] = IF @ = "none" THEN r ELSE @]
-----------------------------------------------------------------------------
(* One connection *)

\* callUnix(): dial and send.
Connect(c, r) ==
  /\ up /\ stage[c] = "free"
  /\ req' = [req EXCEPT ![c] = r]
  /\ Move(c, "sent")
  /\ UNCHANGED <<up, reply, audit, faults>>

\* Everything but "invoke": a foreign peer is closed unread, the others are
\* answered without an audit record.
Respond(c) ==
  /\ up /\ stage[c] = "sent"
  /\ ~req[c].owner \/ req[c].operation # "invoke"
  /\ Answer(c, IF ~req[c].owner THEN "eof"
               ELSE CASE req[c].operation = "capabilities" -> "capabilities"
                      [] req[c].operation = "check" -> Decision(c)
                      [] OTHER -> "error")
  /\ Move(c, "closed")
  /\ UNCHANGED <<up, req, audit, faults>>

\* Invoke() decides and calls audit.Write().
Decide(c) ==
  /\ up /\ stage[c] = "sent" /\ req[c].owner /\ req[c].operation = "invoke"
  /\ Move(c, "decided")
  /\ UNCHANGED <<up, req, reply, audit, faults>>

Lock(c) ==
  /\ up /\ stage[c] = "decided" /\ mu = NoConn
  /\ mu' = c
  /\ Move(c, "locked")
  /\ UNCHANGED <<up, req, reply, log, synced, faults>>

Put(c, w) == log' = Append(log, Event(c, w))

\* openAudit() and file.Write() succeed.
AppendLine(c) ==
  /\ up /\ stage[c] = "locked"
  /\ Put(c, TRUE)
  /\ Move(c, "appended")
  /\ UNCHANGED <<up, req, reply, mu, synced, faults>>

\* Bug: the error path does not unlock the mutex.
AppendFailsLocked(c) ==
  /\ up /\ stage[c] = "locked" /\ faults < MaxFaults
  /\ faults' = faults + 1
  /\ UNCHANGED log \/ Put(c, FALSE)
  /\ Move(c, "failed")
  /\ UNCHANGED <<up, req, reply, mu, synced>>

\* openAudit() refuses the file, or file.Write() stops in the middle of the line.
AppendFails(c) ==
  /\ up /\ stage[c] = "locked" /\ faults < MaxFaults
  /\ faults' = faults + 1
  /\ \/ UNCHANGED log
     \/ Put(c, FALSE)
  /\ mu' = NoConn
  /\ Move(c, "failed")
  /\ UNCHANGED <<up, req, reply, synced>>

\* Bug: file.Sync() is not called.
SyncNever(c) ==
  /\ up /\ stage[c] = "appended"
  /\ mu' = NoConn
  /\ Move(c, "recorded")
  /\ UNCHANGED <<up, req, reply, log, synced, faults>>

Sync(c) ==
  /\ up /\ stage[c] = "appended"
  /\ synced' = Len(log) /\ mu' = NoConn
  /\ Move(c, "recorded")
  /\ UNCHANGED <<up, req, reply, log, faults>>

\* Bug: a failed sync is retried from the start.
SyncRetries(c) ==
  /\ up /\ stage[c] = "appended" /\ faults < MaxFaults
  /\ faults' = faults + 1
  /\ Move(c, "locked")
  /\ UNCHANGED <<up, req, reply, mu, log, synced>>

SyncFails(c) ==
  /\ up /\ stage[c] = "appended" /\ faults < MaxFaults
  /\ faults' = faults + 1 /\ mu' = NoConn
  /\ Move(c, "failed")
  /\ UNCHANGED <<up, req, reply, log, synced>>

\* Bug: an error of the audit does not keep the decision back.
ReturnUnaudited(c) ==
  /\ up /\ stage[c] \in {"recorded", "failed"}
  /\ Answer(c, Decision(c))
  /\ Move(c, "closed")
  /\ UNCHANGED <<up, req, audit, faults>>

\* Invoke() returns: the decision once recorded, 'broker unavailable' otherwise.
Return(c) ==
  /\ up /\ stage[c] \in {"recorded", "failed"}
  /\ Answer(c, IF stage[c] = "failed" THEN "unavailable" ELSE Decision(c))
  /\ Move(c, "closed")
  /\ UNCHANGED <<up, req, audit, faults>>

\* The ten seconds of callUnix() pass; the goroutine does not notice before it
\* writes its answer.
ClientTimeout(c) ==
  /\ up /\ stage[c] \notin {"free", "closed"} /\ reply[c] = "none"
  /\ faults < MaxFaults /\ faults' = faults + 1
  /\ Answer(c, "eof")
  /\ UNCHANGED <<up, stage, req, audit>>
-----------------------------------------------------------------------------
(* The process and the host *)

\* ServeUnix() returns without waiting for its goroutines, or a signal kills
\* the process: every connection in flight ends.
Down ==
  /\ up' = FALSE /\ mu' = NoConn
  /\ stage' = [c \in Conns |-> IF stage[c] = "free" THEN "free" ELSE "closed"]
  /\ reply' = [c \in Conns |-> IF stage[c] # "free" /\ reply[c] = "none"
                               THEN "eof" ELSE reply[c]]

Stop ==
  /\ up /\ faults < MaxFaults /\ faults' = faults + 1
  /\ Down
  /\ UNCHANGED <<req, log, synced>>

\* Of what was appended and not synced a prefix survives, torn or not.
PowerLoss ==
  /\ up /\ faults < MaxFaults /\ faults' = faults + 1
  /\ \E n \in synced .. Len(log) :
       \/ log' = SubSeq(log, 1, n)
       \/ n > synced /\ log' = [SubSeq(log, 1, n) EXCEPT ![n].whole = FALSE]
  /\ synced' = Len(log')
  /\ Down
  /\ UNCHANGED req

\* Bug: the existing audit file is opened with O_TRUNC.
RestartTruncates ==
  /\ ~up /\ up' = TRUE
  /\ log' = <<>>
  /\ UNCHANGED <<net, mu, synced, faults>>

\* NewJSONLAudit() opens the existing file and leaves it as it is.
Restart ==
  /\ ~up /\ up' = TRUE
  /\ UNCHANGED <<net, audit, faults>>
-----------------------------------------------------------------------------
Init ==
  /\ up = TRUE /\ faults = 0
  /\ stage = [c \in Conns |-> "free"] /\ req = [c \in Conns |-> NoRequest]
  /\ reply = [c \in Conns |-> "none"]
  /\ mu = NoConn /\ log = <<>> /\ synced = 0

Handle(c) == \/ Respond(c) \/ Decide(c) \/ Lock(c) \/ AppendLine(c) \/ Sync(c)
             \/ Return(c)
Fault(c) == AppendFails(c) \/ SyncFails(c) \/ ClientTimeout(c)

Next == \/ \E c \in Conns : \/ \E r \in Requests : Connect(c, r)
                            \/ Handle(c) \/ Fault(c)
        \/ Stop \/ PowerLoss \/ Restart

Spec == Init /\ [][Next]_vars

\* The Go scheduler runs every goroutine, the mutex is granted to every waiter
\* and file operations return.
Fairness == \A c \in Conns : WF_vars(Handle(c)) /\ SF_vars(Lock(c))
FairSpec == Spec /\ Fairness
-----------------------------------------------------------------------------
TypeOK ==
  /\ up \in BOOLEAN /\ faults \in 0 .. MaxFaults
  /\ stage \in [Conns -> Stages] /\ reply \in [Conns -> Replies]
  /\ req \in [Conns -> Requests \cup {NoRequest}]
  /\ mu \in Conns \cup {NoConn}
  /\ log \in Seq(Record) /\ synced \in 0 .. Len(log)

Invoked(c) == req[c] # NoRequest /\ req[c].operation = "invoke" /\ req[c].owner

\* 'Audit failure blocks invocation': a client that invoked a capability and got
\* a decision got the one that is completely recorded on the disk, under the
\* identity the service owns, whatever failed or stopped in between.
RepliesAreRecorded ==
  \A c \in Conns : Invoked(c) /\ reply[c] \in {"allowed", "denied"} =>
    \E i \in 1 .. synced :
      /\ log[i].conn = c /\ log[i].whole
      /\ log[i].caller = "local-user" /\ log[i].capability = req[c].capability
      /\ log[i].allowed = (reply[c] = "allowed")

\* Every invocation appends at most one record, complete or torn, and every
\* record belongs to an invocation of the owner's.
OneRecordEach ==
  /\ \A i, j \in 1 .. Len(log) : log[i].conn = log[j].conn => i = j
  /\ \A i \in 1 .. Len(log) : Invoked(log[i].conn)

\* Every request is answered or its connection ends, however many others are in
\* progress and whichever file operation fails.
EveryRequestEnds == \A c \in Conns : stage[c] = "sent" ~> reply[c] # "none"

\* 'The service appends one JSON object per decision': no record shares its line
\* with what is left of an earlier one.
OneObjectPerLine ==
  \A i \in 2 .. Len(log) : log[i].whole => log[i - 1].whole

\* What a record tells of the decision, and what an invocation was told.
Verdict(allowed) == IF allowed THEN "allowed" ELSE "denied"
Summary(e) == [conn |-> e.conn, verdict |-> Verdict(e.allowed), whole |-> e.whole]
Trail == [i \in 1 .. Len(log) |-> Summary(log[i])]
Outcome(c) == IF ~Invoked(c) \/ reply[c] = "none" THEN "none"
              ELSE IF reply[c] \in {"allowed", "denied"} THEN reply[c] ELSE "failed"

\* The audit file is a log of decisions: no step of any goroutine, failed write, stop,
\* restart or power loss changes or drops a record that is on the disk, adds a second
\* one for a connection or one behind its answer, or tells what is not on the disk.
Promise == INSTANCE DecisionLog WITH trail <- Trail, safe <- synced,
                                     told <- [c \in Conns |-> Outcome(c)]
ImplementsDecisionLog == Promise!Spec
-----------------------------------------------------------------------------
(* What makes these inductive *)

\* A record says what its connection asked and what was decided, torn or whole,
\* and no connection has two.
LogInv ==
  /\ \A i \in 1 .. Len(log) : /\ Invoked(log[i].conn)
                              /\ \E w \in BOOLEAN : log[i] = Event(log[i].conn, w)
  /\ \A i, j \in 1 .. Len(log) : log[i].conn = log[j].conn => i = j

\* The first n records hold the decision of c completely.
Holds(c, n) == \E i \in 1 .. n : log[i] = Event(c, TRUE)

\* What the stage of a connection says of request, mutex, records and answer.
StageInv(c) ==
  /\ stage[c] = "free" => req[c] = NoRequest
  /\ stage[c] \in {"decided", "locked", "appended", "failed", "recorded"} => Invoked(c)
  /\ stage[c] \in {"locked", "appended"} <=> mu = c
  /\ stage[c] \in {"sent", "decided", "locked"} =>
       \A i \in 1 .. Len(log) : log[i].conn # c
  /\ stage[c] = "appended" => Holds(c, Len(log))
  /\ stage[c] = "recorded" => Holds(c, synced)
  /\ stage[c] # "closed" => reply[c] \in {"none", "eof"}
  /\ Invoked(c) /\ reply[c] \in {"allowed", "denied"} =>
       Holds(c, synced) /\ (reply[c] = "allowed" <=> Allowed(Caller(c), req[c].capability))

BrokerInv ==
  /\ TypeOK /\ LogInv
  /\ \A c \in Conns : StageInv(c)
  /\ ~up => \A c \in Conns : stage[c] \in {"free", "closed"}
=============================================================================

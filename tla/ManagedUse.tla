------------------------------ MODULE ManagedUse ------------------------------
(***************************************************************************)
(* The clients of a managed host, composed with the updater: the wrapper   *)
(* scripts install.py writes run "check" and then exec the binary behind   *)
(* the pointer, and the MCP adapter (cmd/keybroker-mcp, managed.go) runs   *)
(* "check" again for every tool request before it asks the service.        *)
(* Nothing ties the three moments together: other clients and the operator *)
(* may upgrade or roll back between any two of them.                       *)
(*                                                                         *)
(* A client is named after the invocation of the manager it waits for: one *)
(* that gives up leaves that invocation running.                           *)
(***************************************************************************)
EXTENDS ReleaseManagerProperties

VARIABLES
  session,  \* per client: its tool, its step and the release its code is from
  seen      \* per client: what the pointer has named since the last answer of
            \* the manager to it (history)

useVars == <<vars, session, seen>>

\* away: no client; gate: the wrapper waits for check; exec: check succeeded;
\* open: the adapter waits for a request; recheck: it waits for check;
\* invoke: about to ask the service.
Steps == {"away", "gate", "exec", "open", "recheck", "invoke"}
Away == [tool |-> "none", step |-> "away", binary |-> NoRelease]

\* Sessions have their type: a client that may still ask the service executes a
\* release, and only an adapter waits for another request.
SessionTypeOK ==
  /\ session \in [Procs -> [tool : {"none", "cli", "mcp"}, step : Steps,
                            binary : Releases \cup {NoRelease}]]
  /\ seen \in [Procs -> SUBSET Releases]
  /\ \A p \in Procs : session[p].step \in {"open", "recheck", "invoke"} =>
       session[p].binary \in Releases
  /\ \A p \in Procs : session[p].step \in {"open", "recheck"} => session[p].tool = "mcp"
-----------------------------------------------------------------------------
\* The history: an answer starts it anew, every other step adds to it.
Track == seen' = [p \in Procs |->
                    IF session'[p] = Away THEN {}
                    ELSE IF answer'[p] # answer[p] THEN {disk'.pointer}
                    ELSE seen[p] \cup {disk'.pointer}]

At(p, step) == session[p].step = step
Step(p, s) == session' = [session EXCEPT ![p].step = s]
Granted(p) == pc[p] = "idle" /\ answer[p].status \notin {"none", "refused"}

\* A wrapper is started: sudo -n .../keybroker-health-maintain check.
Enter(p, tool) ==
  /\ At(p, "away") /\ Start(p, "check")
  /\ session' = [session EXCEPT ![p] = [Away EXCEPT !.tool = tool, !.step = "gate"]]

GatePassed(p) ==
  /\ At(p, "gate") /\ Granted(p)
  /\ Step(p, "exec")
  /\ UNCHANGED vars

\* '|| exit 1'.
GateRefused(p) ==
  /\ At(p, "gate") /\ pc[p] = "idle" /\ ~Granted(p)
  /\ session' = [session EXCEPT ![p] = Away]
  /\ UNCHANGED vars

Load(p, m) ==
  session' = [session EXCEPT ![p].binary = m,
                ![p].step = IF session[p].tool = "cli" THEN "invoke" ELSE "open"]

\* exec .../current/keybroker or keybroker-mcp: the pointer is read again.
Exec(p) == At(p, "exec") /\ Load(p, disk.pointer) /\ UNCHANGED vars

\* tools/list or tools/call: CheckManagedRelease() runs check again.
Ask(p) ==
  /\ At(p, "open") /\ Start(p, "check")
  /\ Step(p, "recheck")

\* Bug: the adapter asks for the approval but not which release it is for.
RecheckedAny(p) == Granted(p)

\* ReleaseID and SourceID of the running adapter against the manager's answer.
Rechecked(p) == Granted(p) /\ answer[p].release = session[p].binary

RecheckPassed(p) ==
  /\ At(p, "recheck") /\ Rechecked(p)
  /\ \/ Step(p, "invoke")   \* tools/call
     \/ Step(p, "open")     \* tools/list
  /\ UNCHANGED vars

\* 'restart the MCP client to load the approved release'.
RecheckRefused(p) ==
  /\ At(p, "recheck") /\ pc[p] = "idle" /\ ~Rechecked(p)
  /\ Step(p, "open")
  /\ UNCHANGED vars

\* After 90 seconds sudo is killed; the manager under it runs on.
RecheckTimesOut(p) ==
  /\ At(p, "recheck") /\ pc[p] # "idle"
  /\ Step(p, "open")
  /\ UNCHANGED vars

\* Bug: the CLI goes on as the adapter does after its answer.
InvokeReadsOn(p) == At(p, "invoke") /\ Step(p, "open") /\ UNCHANGED vars

\* The service answers, or is down; the CLI exits, the adapter reads on.
Invoke(p) ==
  /\ At(p, "invoke")
  /\ IF session[p].tool = "cli" THEN session' = [session EXCEPT ![p] = Away]
                                ELSE Step(p, "open")
  /\ UNCHANGED vars

\* The client ends: its input does, a line is longer than 64 KiB, it is killed.
Leave(p) ==
  /\ ~At(p, "away")
  /\ session' = [session EXCEPT ![p] = Away]
  /\ UNCHANGED vars

\* What the updater and the host do meanwhile.
Background ==
  /\ \/ \E p \in Procs : Run(p) \/ Throw(p) \/ Kill(p)
     \/ Writeback \/ ServiceCrash \/ ServiceStart \/ OperatorClean \/ SetClock
  /\ UNCHANGED session

OperatorRollback(p) ==
  /\ At(p, "away") /\ Start(p, "rollback")
  /\ UNCHANGED session

HostPowerLoss == PowerLoss /\ session' = [p \in Procs |-> Away]

UseInit == Init /\ session = [p \in Procs |-> Away] /\ seen = [p \in Procs |-> {}]

UseNext ==
  /\ \/ \E p \in Procs :
          \/ \E tool \in {"cli", "mcp"} : Enter(p, tool)
          \/ GatePassed(p) \/ GateRefused(p) \/ Exec(p) \/ Ask(p) \/ RecheckPassed(p)
          \/ RecheckRefused(p) \/ RecheckTimesOut(p) \/ Invoke(p) \/ Leave(p)
          \/ OperatorRollback(p)
     \/ Background \/ HostPowerLoss
  /\ Track

UseSpec == UseInit /\ [][UseNext]_useVars
-----------------------------------------------------------------------------
\* A client that may ask the service executes, and whatever service answers it
\* executes, a release the host switched to no earlier than the approval: an
\* approval is never followed by an answer from a release left behind before it,
\* by the service or by the adapter's own code.
AnswersAreApproved ==
  \A p \in Procs : At(p, "invoke") =>
    {session[p].binary, running} \subseteq seen[p] \cup {NoRelease}
=============================================================================

---------------------------- MODULE ServerLifecycle ----------------------------
(***************************************************************************)
(* The processes of the tool server and the one path they share.  Clients  *)
(* (Runtime.ensure_mcp_server) probe the socket, have the systemd user     *)
(* service started or, without a user bus, start a server themselves, and  *)
(* wait.  A server (run_server) removes whatever file it finds, binds,     *)
(* serves until it has been idle for INACTIVITY_TIMEOUT_SECONDS, and       *)
(* removes whatever file it finds again.                                   *)
(*                                                                         *)
(* The file system, the service manager and the process table are external *)
(* and modelled as far as the code relies on them: a connection reaches    *)
(* the process whose socket the path names, `start' does nothing for an    *)
(* active service, `restart' kills its process first, and a process that   *)
(* failed is started again.                                                *)
(***************************************************************************)
EXTENDS Naturals, FiniteSets

CONSTANTS
  Clients,     \* runtimes of one user
  MaxServers,  \* bound: server processes ever
  MaxCalls     \* bound: tool calls per client

ASSUME ServerLifecycleAssumption ==
  MaxServers \in Nat \ {0} /\ MaxCalls \in Nat /\ IsFiniteSet(Clients)

VARIABLES
  systemd,  \* whether there is a user service manager; it does not change
  unit,     \* the process of golim-tools.service, 0 when it is inactive
  proc,     \* per server process: where run_server is
  path,     \* the process whose socket the file names, 0 without a file
  idle,     \* per server process: last_activity is too long ago
  started,  \* processes so far
  client    \* per client: where ensure_mcp_server is, or the tool call

vars == <<systemd, unit, proc, path, idle, started, client>>

Servers == 1..MaxServers

Places == {"none", "look", "unlink", "bind", "bound", "listen", "serve", "doomed",
           "drain", "leave", "remove", "gone", "killed"}

Client == [pc: {"idle", "probe", "start", "wait", "restart", "last",
                "ready", "failed", "connected", "calling"},
           server: 0..MaxServers, late: BOOLEAN, calls: 0..MaxCalls]

TypeOK ==
  /\ systemd \in BOOLEAN
  /\ unit # 0 => systemd /\ proc[unit] \notin {"gone", "killed"}
  /\ unit \in 0..started /\ path \in 0..started /\ started \in 0..MaxServers
  /\ proc \in [Servers -> Places] /\ idle \in [Servers -> BOOLEAN]
  /\ client \in [Clients -> Client]
  /\ \A s \in Servers : proc[s] = "none" <=> s > started

\* An earlier process may have been killed and have left its file.
Init ==
  /\ systemd \in BOOLEAN /\ unit = 0
  /\ started \in {0, 1} /\ path \in {0, started}
  /\ proc = [s \in Servers |-> IF s <= started THEN "killed" ELSE "none"]
  /\ idle = [s \in Servers |-> FALSE]
  /\ client = [c \in Clients |-> [pc |-> "idle", server |-> 0,
                                  late |-> FALSE, calls |-> 0]]

-----------------------------------------------------------------------------
(* A server process.                                                       *)

Goto(s, place) == proc' = [proc EXCEPT ![s] = place]

\* Is there a file?  Then it is old.
Look(s) ==
  /\ proc[s] = "look"
  /\ Goto(s, IF path # 0 THEN "unlink" ELSE "bind")
  /\ UNCHANGED <<systemd, unit, path, idle, started, client>>

\* That it is gone by now is an error that is logged and ignored.
Unlink(s) ==
  /\ proc[s] = "unlink"
  /\ path' = 0 /\ Goto(s, "bind")
  /\ UNCHANGED <<systemd, unit, idle, started, client>>

\* Another file in the meantime: bind raises, and the process cleans up.
Bind(s) ==
  /\ proc[s] = "bind"
  /\ IF path = 0 THEN path' = s /\ Goto(s, "bound")
                 ELSE Goto(s, "leave") /\ UNCHANGED path
  /\ UNCHANGED <<systemd, unit, idle, started, client>>

\* listen: from here on a client can connect.
Listen(s) ==
  /\ proc[s] = "bound"
  /\ Goto(s, "listen")
  /\ UNCHANGED <<systemd, unit, path, idle, started, client>>

\* chmod of whatever file there is; without a file it raises, and the process
\* cleans up.
Chmod(s) ==
  /\ proc[s] = "listen"
  /\ Goto(s, IF path # 0 THEN "serve" ELSE "leave")
  /\ UNCHANGED <<systemd, unit, path, idle, started, client>>

Of(s, labels) == \E c \in Clients : client[c].pc \in labels /\ client[c].server = s
Held(s)       == Of(s, {"calling"})

\* Mutant: the timer thread does not stop a server without a file.
TimerLooksReachable(s) ==
  /\ proc[s] = "serve" /\ idle[s] /\ path = s
  /\ Goto(s, "doomed")
  /\ UNCHANGED <<systemd, unit, path, idle, started, client>>

\* check_for_timeout asks the loop to stop, which it will.
TimerLooks(s) ==
  /\ proc[s] = "serve" /\ idle[s]
  /\ Goto(s, "doomed")
  /\ UNCHANGED <<systemd, unit, path, idle, started, client>>

\* The loop has stopped and the listening socket is closed.
StopLoop(s) ==
  /\ proc[s] = "doomed"
  /\ Goto(s, "drain")
  /\ UNCHANGED <<systemd, unit, path, idle, started, client>>

\* wait_closed returns when the last connection is over.
Drained(s) ==
  /\ proc[s] = "drain" /\ ~Of(s, {"connected", "calling"})
  /\ Goto(s, "leave")
  /\ UNCHANGED <<systemd, unit, path, idle, started, client>>

\* The process is gone, and the service with it.
Exit(s, place) ==
  /\ Goto(s, place)
  /\ unit' = IF unit = s THEN 0 ELSE unit
  /\ UNCHANGED started

Spawn == started < MaxServers /\ started' = started + 1

\* The process is dead; the service manager replaces its own at once.
Fail(s, place) ==
  IF unit = s
    THEN /\ Spawn /\ unit' = started'
         /\ proc' = [proc EXCEPT ![s] = place, ![started'] = "look"]
    ELSE Exit(s, place)

\* Mutant: only a server that never served looks for the file.
LeaveOwn(s) ==
  /\ proc[s] = "leave"
  /\ Exit(s, "gone")
  /\ UNCHANGED <<systemd, path, idle, client>>

\* The finally block: is there a file?
Leave(s) ==
  /\ proc[s] = "leave"
  /\ IF path # 0 THEN Goto(s, "remove") /\ UNCHANGED <<unit, started>>
                 ELSE Exit(s, "gone")
  /\ UNCHANGED <<systemd, path, idle, client>>

\* Then it goes, whosever it is; without a file by now this raises.
RemoveFile(s) ==
  /\ proc[s] = "remove"
  /\ path' = 0
  /\ IF path # 0 THEN Exit(s, "gone") ELSE Fail(s, "gone")
  /\ UNCHANGED <<systemd, idle, client>>

-----------------------------------------------------------------------------
(* A client.                                                               *)

At(c, label) == client' = [client EXCEPT ![c].pc = label]

AtAny(labels) == {c \in Clients : client[c].pc \in labels}
Ensuring == AtAny({"probe", "start", "wait", "restart", "last"})

\* Bound: a client may have two processes started on its way.
Spare(n) ==
  started + n + 2 * Cardinality(AtAny({"probe", "start"}))
              + Cardinality(AtAny({"wait", "restart"})) <= MaxServers

\* _socket_is_ready
Ready == path # 0 /\ proc[path] \in {"listen", "serve", "doomed"}

\* A run or followup begins.
Ensure(c) ==
  /\ client[c].pc \in {"idle", "ready", "failed"} /\ Spare(2)
  /\ At(c, "probe")
  /\ UNCHANGED <<systemd, unit, proc, path, idle, started>>

Probe(c) ==
  /\ client[c].pc = "probe"
  /\ At(c, IF Ready THEN "ready" ELSE "start")
  /\ UNCHANGED <<systemd, unit, proc, path, idle, started>>

\* Mutant: the service is started whether or not it is active.
StartUnitAgain(c) ==
  /\ client[c].pc = "start" /\ systemd
  /\ Spawn /\ unit' = started' /\ Goto(started', "look")
  /\ At(c, "wait")
  /\ UNCHANGED <<systemd, path, idle>>

\* systemctl --user start: nothing for a service that is active.
StartUnit(c) ==
  /\ client[c].pc = "start" /\ systemd
  /\ IF unit # 0 THEN UNCHANGED <<unit, started, proc>>
                 ELSE Spawn /\ unit' = started' /\ Goto(started', "look")
  /\ At(c, "wait")
  /\ UNCHANGED <<systemd, path, idle>>

\* Without a user bus the client starts the server.
StartDirect(c) ==
  /\ client[c].pc = "start" /\ ~systemd
  /\ Spawn /\ Goto(started', "look")
  /\ At(c, "wait")
  /\ UNCHANGED <<systemd, unit, path, idle>>

\* _wait_for_socket finds it ...
WaitFinds(c) ==
  /\ client[c].pc \in {"wait", "last"} /\ Ready
  /\ At(c, "ready")
  /\ UNCHANGED <<systemd, unit, proc, path, idle, started>>

\* A process that starts has its socket, and one that leaves is gone, well
\* before RETRY_ATTEMPTS probes are over.
Settled == \A s \in Servers : proc[s] \in {"none", "serve", "drain", "gone", "killed"}

\* Mutant: the client gives up after the first wait.
WaitEndsOnce(c) ==
  /\ client[c].pc \in {"wait", "last"} /\ ~Ready /\ Settled
  /\ At(c, "failed")
  /\ UNCHANGED <<systemd, unit, proc, path, idle, started>>

\* ... or not: a service that is marked active without a socket is restarted
\* once.
WaitEnds(c) ==
  /\ client[c].pc \in {"wait", "last"} /\ ~Ready /\ Settled
  /\ At(c, IF systemd /\ client[c].pc = "wait" THEN "restart" ELSE "failed")
  /\ UNCHANGED <<systemd, unit, proc, path, idle, started>>

\* systemctl --user restart: SIGTERM ends the process where it is.
RestartUnit(c) ==
  /\ client[c].pc = "restart"
  /\ Spawn /\ unit' = started'
  /\ proc' = [s \in Servers |-> CASE s = started' -> "look"
                                  [] s = unit /\ s # started' -> "killed"
                                  [] OTHER -> proc[s]]
  /\ At(c, "last")
  /\ UNCHANGED <<systemd, path, idle>>

\* A tool call connects to whatever process the path names.
Connect(c) ==
  /\ client[c].pc = "ready" /\ Ready /\ client[c].calls < MaxCalls
  /\ client' = [client EXCEPT ![c] =
       [pc |-> "connected", server |-> path, late |-> FALSE, calls |-> @.calls + 1]]
  /\ UNCHANGED <<systemd, unit, proc, path, idle, started>>

\* The server has read the request, which is activity; late is one that the
\* timer has come before.
Call(c) ==
  LET s == client[c].server IN
  /\ client[c].pc = "connected" /\ proc[s] \in {"serve", "doomed", "drain"}
  /\ client' = [client EXCEPT ![c].pc = "calling", ![c].late = proc[s] # "serve"]
  /\ idle' = [idle EXCEPT ![s] = FALSE]
  /\ UNCHANGED <<systemd, unit, proc, path, started>>

\* The call is answered, given up, or cut off with its server.
CallEnds(c) ==
  /\ client[c].pc \in {"connected", "calling"}
  /\ client' = [client EXCEPT ![c] =
       [pc |-> "ready", server |-> 0, late |-> FALSE, calls |-> @.calls]]
  /\ idle' = IF client[c].pc = "calling" THEN [idle EXCEPT ![client[c].server] = FALSE] ELSE idle
  /\ UNCHANGED <<systemd, unit, proc, path, started>>

-----------------------------------------------------------------------------
(* Time and accidents.                                                     *)

\* Mutant: a call in progress is not activity.
LongTimeBlind ==
  /\ Ensuring = {}
  /\ idle' = [s \in Servers |-> proc[s] = "serve"]
  /\ UNCHANGED <<systemd, unit, proc, path, started, client>>

\* INACTIVITY_TIMEOUT_SECONDS pass.  ensure_mcp_server is over long before; a
\* call in progress is activity, for _run_tool_call polls its events.
LongTime ==
  /\ Ensuring = {}
  /\ idle' = [s \in Servers |-> proc[s] = "serve" /\ ~Held(s)]
  /\ UNCHANGED <<systemd, unit, proc, path, started, client>>

\* A process is killed; its file stays.
Crash(s) ==
  /\ proc[s] \notin {"none", "gone", "killed"} /\ Spare(1)
  /\ Fail(s, "killed")
  /\ UNCHANGED <<systemd, path, idle, client>>

\* SIGTERM kills it too, but is no failure: nothing replaces it.  Assumed is that
\* nobody does this while a client brings a server up.
Terminate(s) ==
  /\ proc[s] \notin {"none", "gone", "killed"} /\ Ensuring = {}
  /\ Exit(s, "killed")
  /\ UNCHANGED <<systemd, path, idle, client>>

-----------------------------------------------------------------------------

Server(s) ==
  \/ Look(s) \/ Unlink(s) \/ Bind(s) \/ Listen(s) \/ Chmod(s) \/ TimerLooks(s)
  \/ StopLoop(s) \/ Drained(s) \/ Leave(s) \/ RemoveFile(s)

EnsureStep(c) ==
  \/ Probe(c) \/ StartUnit(c) \/ StartDirect(c) \/ WaitFinds(c)
  \/ WaitEnds(c) \/ RestartUnit(c)

Next ==
  \/ \E s \in Servers : Server(s) \/ Crash(s) \/ Terminate(s)
  \/ \E c \in Clients : Ensure(c) \/ EnsureStep(c) \/ Connect(c) \/ Call(c) \/ CallEnds(c)
  \/ LongTime

Spec == Init /\ [][Next]_vars

\* Processes are scheduled, clients go on, and time passes.  A call need not
\* end.
Fairness ==
  /\ \A s \in Servers : WF_vars(Server(s))
  /\ \A c \in Clients : WF_vars(EnsureStep(c))
  /\ WF_vars(LongTime)

FairSpec == Spec /\ Fairness

-----------------------------------------------------------------------------

\* Safety.  With a service manager a client gets a server, whenever it comes:
\* also while the service is still marked active but its server is on its way
\* out, or when other clients start and restart it at the same time.
EnsureSucceeds == systemd => \A c \in Clients : client[c].pc # "failed"

\* Safety.  With a service manager a server that serves is the one the path
\* leads to: no process takes the socket of another.
ServingIsReachable ==
  systemd => \A s \in Servers : proc[s] = "serve" => path = s

\* Safety.  A server is not stopped for inactivity under a call whose request it
\* has read: a call that finds its server stopping was read after the timer had
\* looked, though it may have connected before.
InactivitySparesCalls ==
  \A c \in Clients :
    client[c].pc = "calling" /\ proc[client[c].server] \in {"doomed", "drain"} => client[c].late

\* Safety.  Only a process that was killed leaves its file behind.
OnlyKilledLeavesFile == \A s \in Servers : path = s => proc[s] # "gone"

\* Liveness.  When the clients have come to rest no server process stays for
\* ever, also one that another server has made unreachable, unless it is busy
\* with a call.
ServersEnd ==
  <>[](Ensuring = {}) =>
    \A s \in Servers : proc[s] = "serve" ~> proc[s] # "serve" \/ Held(s)
=============================================================================

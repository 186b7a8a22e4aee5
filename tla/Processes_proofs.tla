--------------------------- MODULE Processes_proofs ---------------------------
(***************************************************************************)
(* Proofs about processes that start, are told to end and leave something  *)
(* behind: those of the tool server (ServerLifecycle), for any number of   *)
(* clients and processes, and those of one command and what they write     *)
(* (CommandOutput, OutputFraming), for any output and any reads.           *)
(*                                                                         *)
(* With a service manager only one server process is alive, so that it may *)
(* remove whatever file it finds; and the process that a client's restart  *)
(* has started cannot become idle under it.  The frames of a command and   *)
(* its pending text are always what was read, cut at its ends of line.     *)
(***************************************************************************)
EXTENDS ServerLifecycle, CommandOutput, SequenceTheorems, WellFoundedInduction, TLAPS

Alive(s) == proc[s] \notin {"none", "gone", "killed"}

\* A process that was never started has not been idle.
Fresh == \A s \in Servers : idle[s] => s <= started

\* With a service manager the process of the service is the only one.
Single == systemd => \A s \in Servers : Alive(s) => s = unit

\* With a service manager a process finds the path as it left it.
Owns ==
  systemd => \A s \in Servers :
    /\ proc[s] = "bind" => path = 0
    /\ proc[s] \in {"bound", "listen", "serve", "doomed"} => path = s

\* A client that has restarted the service has a process on its way.
Coming ==
  systemd => \A c \in Clients : client[c].pc = "last" =>
    /\ unit # 0 /\ ~idle[unit]
    /\ proc[unit] \in {"look", "unlink", "bind", "bound", "listen", "serve"}

\* Only a client that has the service manager restarts anything.
Restarting == \A c \in Clients : client[c].pc = "restart" => systemd

\* A call that was read keeps its server from being idle, unless it came too late.
Calling ==
  /\ \A c \in Clients : client[c].pc \in {"connected", "calling"} => client[c].server \in 1..started
  /\ \A c \in Clients : client[c].pc = "calling" =>
    /\ proc[client[c].server] \in {"serve", "doomed", "drain", "killed"}
    /\ proc[client[c].server] = "serve" => ~idle[client[c].server]
    /\ proc[client[c].server] \in {"doomed", "drain"} => client[c].late

\* The inductive invariant.
IInv ==
  /\ TypeOK /\ Fresh /\ Single /\ Owns /\ Coming
  /\ Restarting /\ Calling /\ EnsureSucceeds /\ OnlyKilledLeavesFile

USE ServerLifecycleAssumption DEF Servers, Places, Client

\* The invariant holds when no client has come yet, with a stale file or not.
LEMMA Initial == Init => IInv
BY DEF Init, IInv, TypeOK, Fresh, Single, Owns, Coming, Restarting, Calling, Alive,
       EnsureSucceeds, OnlyKilledLeavesFile

\* A process that dies, replaced or not, leaves the state well typed.
LEMMA FailKeepsTypes ==
  ASSUME TypeOK, NEW s \in Servers, Alive(s), NEW place \in {"gone", "killed"},
         Fail(s, place), UNCHANGED <<systemd, idle, client>>, path' \in {0, path}
  PROVE  TypeOK'
<1>1. CASE unit # s
  BY <1>1 DEF TypeOK, Alive, Fail, Exit, Goto
<1>2. CASE unit = s
  <2>1. started < MaxServers /\ started' = started + 1 /\ unit' = started + 1
    BY <1>2 DEF Fail, Spawn
  <2>2. started + 1 \in Servers /\ proc[started + 1] = "none"
    BY <2>1 DEF TypeOK
  <2>3. proc' = [proc EXCEPT ![s] = place, ![started + 1] = "look"]
    BY <1>2, <2>1 DEF Fail
  <2>4. proc' \in [Servers -> Places]
    BY <2>2, <2>3 DEF TypeOK
  <2>5. \A t \in Servers : proc'[t] = "none" <=> t > started + 1
    BY <2>1, <2>2, <2>3 DEF TypeOK, Alive
  <2>. QED  BY <1>2, <2>1, <2>2, <2>3, <2>4, <2>5 DEF TypeOK
<1>. QED  BY <1>1, <1>2

\* The invariant is kept by looking for an old file.
LEMMA LookKeeps == \A s \in Servers : IInv /\ Look(s) => IInv'
<1> SUFFICES ASSUME NEW s \in Servers, IInv, Look(s) PROVE IInv'
  OBVIOUS
<1>1. TypeOK'
  BY DEF IInv, TypeOK, Look, Goto
<1>2. Fresh' /\ Single'
  BY DEF IInv, TypeOK, Fresh, Single, Alive, Look, Goto
<1>3. Owns'
  BY DEF IInv, TypeOK, Single, Alive, Owns, Look, Goto
<1>4. Coming' /\ Restarting'
  BY DEF IInv, TypeOK, Fresh, Single, Alive, Owns, Coming, Restarting, Look, Goto
<1>5. Calling'
  BY DEF IInv, TypeOK, Calling, Look, Goto
<1>6. EnsureSucceeds' /\ OnlyKilledLeavesFile'
  BY DEF IInv, TypeOK, Coming, Owns, EnsureSucceeds, OnlyKilledLeavesFile, Look, Goto
<1>. QED  BY <1>1, <1>2, <1>3, <1>4, <1>5, <1>6 DEF IInv

\* The invariant is kept by removing an old file.
LEMMA UnlinkKeeps == \A s \in Servers : IInv /\ Unlink(s) => IInv'
<1> SUFFICES ASSUME NEW s \in Servers, IInv, Unlink(s) PROVE IInv'
  OBVIOUS
<1>1. TypeOK'
  BY DEF IInv, TypeOK, Unlink, Goto
<1>2. Fresh' /\ Single'
  BY DEF IInv, TypeOK, Fresh, Single, Alive, Unlink, Goto
<1>3. Owns'
  BY DEF IInv, TypeOK, Single, Alive, Owns, Unlink, Goto
<1>4. Coming' /\ Restarting'
  BY DEF IInv, TypeOK, Fresh, Single, Alive, Owns, Coming, Restarting, Unlink, Goto
<1>5. Calling'
  BY DEF IInv, TypeOK, Calling, Unlink, Goto
<1>6. EnsureSucceeds' /\ OnlyKilledLeavesFile'
  BY DEF IInv, TypeOK, Coming, Owns, EnsureSucceeds, OnlyKilledLeavesFile, Unlink, Goto
<1>. QED  BY <1>1, <1>2, <1>3, <1>4, <1>5, <1>6 DEF IInv

\* The invariant is kept by binding, or failing to.
LEMMA BindKeeps == \A s \in Servers : IInv /\ Bind(s) => IInv'
<1> SUFFICES ASSUME NEW s \in Servers, IInv, Bind(s) PROVE IInv'
  OBVIOUS
<1>1. TypeOK'
  BY DEF IInv, TypeOK, Bind, Goto
<1>2. Fresh' /\ Single'
  BY DEF IInv, TypeOK, Fresh, Single, Alive, Bind, Goto
<1>3. Owns'
  BY DEF IInv, TypeOK, Single, Alive, Owns, Bind, Goto
<1>4. Coming' /\ Restarting'
  BY DEF IInv, TypeOK, Fresh, Single, Alive, Owns, Coming, Restarting, Bind, Goto
<1>5. Calling'
  BY DEF IInv, TypeOK, Calling, Bind, Goto
<1>6. EnsureSucceeds' /\ OnlyKilledLeavesFile'
  BY DEF IInv, TypeOK, Coming, Owns, EnsureSucceeds, OnlyKilledLeavesFile, Bind, Goto
<1>. QED  BY <1>1, <1>2, <1>3, <1>4, <1>5, <1>6 DEF IInv

\* The invariant is kept by listening.
LEMMA ListenKeeps == \A s \in Servers : IInv /\ Listen(s) => IInv'
<1> SUFFICES ASSUME NEW s \in Servers, IInv, Listen(s) PROVE IInv'
  OBVIOUS
<1>1. TypeOK'
  BY DEF IInv, TypeOK, Listen, Goto
<1>2. Fresh' /\ Single'
  BY DEF IInv, TypeOK, Fresh, Single, Alive, Listen, Goto
<1>3. Owns'
  BY DEF IInv, TypeOK, Single, Alive, Owns, Listen, Goto
<1>4. Coming' /\ Restarting'
  BY DEF IInv, TypeOK, Fresh, Single, Alive, Owns, Coming, Restarting, Listen, Goto
<1>5. Calling'
  BY DEF IInv, TypeOK, Calling, Listen, Goto
<1>6. EnsureSucceeds' /\ OnlyKilledLeavesFile'
  BY DEF IInv, TypeOK, Coming, Owns, EnsureSucceeds, OnlyKilledLeavesFile, Listen, Goto
<1>. QED  BY <1>1, <1>2, <1>3, <1>4, <1>5, <1>6 DEF IInv

\* The invariant is kept by chmod, or by its failure.
LEMMA ChmodKeeps == \A s \in Servers : IInv /\ Chmod(s) => IInv'
<1> SUFFICES ASSUME NEW s \in Servers, IInv, Chmod(s) PROVE IInv'
  OBVIOUS
<1>1. TypeOK'
  BY DEF IInv, TypeOK, Chmod, Goto
<1>2. Fresh' /\ Single'
  BY DEF IInv, TypeOK, Fresh, Single, Alive, Chmod, Goto
<1>3. Owns'
  BY DEF IInv, TypeOK, Single, Alive, Owns, Chmod, Goto
<1>4. Coming' /\ Restarting'
  BY DEF IInv, TypeOK, Fresh, Single, Alive, Owns, Coming, Restarting, Chmod, Goto
<1>5. Calling'
  BY DEF IInv, TypeOK, Calling, Chmod, Goto
<1>6. EnsureSucceeds' /\ OnlyKilledLeavesFile'
  BY DEF IInv, TypeOK, Coming, Owns, EnsureSucceeds, OnlyKilledLeavesFile, Chmod, Goto
<1>. QED  BY <1>1, <1>2, <1>3, <1>4, <1>5, <1>6 DEF IInv

\* The invariant is kept by the inactivity timer: nobody waits for the server it stops.
LEMMA TimerLooksKeeps == \A s \in Servers : IInv /\ TimerLooks(s) => IInv'
<1> SUFFICES ASSUME NEW s \in Servers, IInv, TimerLooks(s) PROVE IInv'
  OBVIOUS
<1>1. TypeOK'
  BY DEF IInv, TypeOK, TimerLooks, Goto
<1>2. Fresh' /\ Single'
  BY DEF IInv, TypeOK, Fresh, Single, Alive, TimerLooks, Goto
<1>3. Owns'
  BY DEF IInv, TypeOK, Single, Alive, Owns, TimerLooks, Goto
<1>4. Coming' /\ Restarting'
  BY DEF IInv, TypeOK, Fresh, Single, Alive, Owns, Coming, Restarting, TimerLooks, Goto
<1>5. Calling'
  BY DEF IInv, TypeOK, Calling, TimerLooks, Goto
<1>6. EnsureSucceeds' /\ OnlyKilledLeavesFile'
  BY DEF IInv, TypeOK, Coming, Owns, EnsureSucceeds, OnlyKilledLeavesFile, TimerLooks, Goto
<1>. QED  BY <1>1, <1>2, <1>3, <1>4, <1>5, <1>6 DEF IInv

\* The invariant is kept by the end of the event loop.
LEMMA StopLoopKeeps == \A s \in Servers : IInv /\ StopLoop(s) => IInv'
<1> SUFFICES ASSUME NEW s \in Servers, IInv, StopLoop(s) PROVE IInv'
  OBVIOUS
<1>1. TypeOK'
  BY DEF IInv, TypeOK, StopLoop, Goto
<1>2. Fresh' /\ Single'
  BY DEF IInv, TypeOK, Fresh, Single, Alive, StopLoop, Goto
<1>3. Owns'
  BY DEF IInv, TypeOK, Single, Alive, Owns, StopLoop, Goto
<1>4. Coming' /\ Restarting'
  BY DEF IInv, TypeOK, Fresh, Single, Alive, Owns, Coming, Restarting, StopLoop, Goto
<1>5. Calling'
  BY DEF IInv, TypeOK, Calling, StopLoop, Goto
<1>6. EnsureSucceeds' /\ OnlyKilledLeavesFile'
  BY DEF IInv, TypeOK, Coming, Owns, EnsureSucceeds, OnlyKilledLeavesFile, StopLoop, Goto
<1>. QED  BY <1>1, <1>2, <1>3, <1>4, <1>5, <1>6 DEF IInv

\* The invariant is kept by the end of the last connection.
LEMMA DrainedKeeps == \A s \in Servers : IInv /\ Drained(s) => IInv'
<1> SUFFICES ASSUME NEW s \in Servers, IInv, Drained(s) PROVE IInv'
  OBVIOUS
<1>1. TypeOK'
  BY DEF IInv, TypeOK, Drained, Goto, Of
<1>2. Fresh' /\ Single'
  BY DEF IInv, TypeOK, Fresh, Single, Alive, Drained, Goto, Of
<1>3. Owns'
  BY DEF IInv, TypeOK, Single, Alive, Owns, Drained, Goto, Of
<1>4. Coming' /\ Restarting'
  BY DEF IInv, TypeOK, Fresh, Single, Alive, Owns, Coming, Restarting, Drained, Goto, Of
<1>5. Calling'
  BY DEF IInv, TypeOK, Calling, Drained, Goto, Of
<1>6. EnsureSucceeds' /\ OnlyKilledLeavesFile'
  BY DEF IInv, TypeOK, Coming, Owns, EnsureSucceeds, OnlyKilledLeavesFile, Drained, Goto, Of
<1>. QED  BY <1>1, <1>2, <1>3, <1>4, <1>5, <1>6 DEF IInv

\* The invariant is kept by the look at the file on the way out.
LEMMA LeaveKeeps == \A s \in Servers : IInv /\ Leave(s) => IInv'
<1> SUFFICES ASSUME NEW s \in Servers, IInv, Leave(s) PROVE IInv'
  OBVIOUS
<1>1. TypeOK'
  BY DEF IInv, TypeOK, Leave, Goto, Exit
<1>2. Fresh' /\ Single'
  BY DEF IInv, TypeOK, Fresh, Single, Alive, Leave, Goto, Exit
<1>3. Owns'
  BY DEF IInv, TypeOK, Single, Alive, Owns, Leave, Goto, Exit
<1>4. Coming' /\ Restarting'
  BY DEF IInv, TypeOK, Fresh, Single, Alive, Owns, Coming, Restarting, Leave, Goto, Exit
<1>5. Calling'
  BY DEF IInv, TypeOK, Calling, Leave, Goto, Exit
<1>6. EnsureSucceeds' /\ OnlyKilledLeavesFile'
  BY DEF IInv, TypeOK, Coming, Owns, EnsureSucceeds, OnlyKilledLeavesFile, Leave, Goto, Exit
<1>. QED  BY <1>1, <1>2, <1>3, <1>4, <1>5, <1>6 DEF IInv

\* The invariant is kept by removing the file on the way out.
LEMMA RemoveKeeps == \A s \in Servers : IInv /\ RemoveFile(s) => IInv'
<1> SUFFICES ASSUME NEW s \in Servers, IInv, RemoveFile(s) PROVE IInv'
  OBVIOUS
<1>1. TypeOK'
  <2>1. CASE path # 0
    BY <2>1 DEF IInv, TypeOK, RemoveFile, Exit, Goto
  <2>2. CASE path = 0
    BY <2>2, FailKeepsTypes DEF IInv, Alive, RemoveFile
  <2>. QED  BY <2>1, <2>2
<1>2. Fresh' /\ Single'
  BY DEF IInv, TypeOK, Fresh, Single, Alive, RemoveFile, Goto, Exit, Fail, Spawn
<1>3. Owns'
  BY DEF IInv, TypeOK, Single, Alive, Owns, RemoveFile, Goto, Exit, Fail, Spawn
<1>4. Coming' /\ Restarting'
  BY DEF IInv, TypeOK, Fresh, Single, Alive, Owns, Coming, Restarting, RemoveFile, Goto, Exit, Fail, Spawn
<1>5. Calling'
  <2>1. /\ proc[s] = "remove" /\ s \in Servers /\ idle' = idle /\ client' = client
        /\ started' \in {started, started + 1}
    BY DEF RemoveFile, Exit, Fail, Spawn
  <2>2. \A t \in 1..started : t # s => proc'[t] = proc[t]
    BY DEF IInv, TypeOK, RemoveFile, Goto, Exit, Fail, Spawn
  <2>3. \A t \in 1..started : t \in 1..started'
    BY <2>1 DEF IInv, TypeOK
  <2>. QED  BY <2>1, <2>2, <2>3 DEF IInv, Calling
<1>6. EnsureSucceeds' /\ OnlyKilledLeavesFile'
  BY DEF IInv, TypeOK, Coming, Owns, EnsureSucceeds, OnlyKilledLeavesFile, RemoveFile, Goto, Exit, Fail, Spawn
<1>. QED  BY <1>1, <1>2, <1>3, <1>4, <1>5, <1>6 DEF IInv

\* The invariant is kept by a kill, and the replacement by the service manager.
LEMMA CrashKeeps == \A s \in Servers : IInv /\ Crash(s) => IInv'
<1> SUFFICES ASSUME NEW s \in Servers, IInv, Crash(s) PROVE IInv'
  OBVIOUS
<1>1. TypeOK'
  BY FailKeepsTypes DEF IInv, TypeOK, Alive, Crash
<1>2. Fresh' /\ Single'
  BY DEF IInv, TypeOK, Fresh, Single, Alive, Crash, Goto, Exit, Fail, Spawn
<1>3. Owns'
  BY DEF IInv, TypeOK, Single, Alive, Owns, Crash, Goto, Exit, Fail, Spawn
<1>4. Coming' /\ Restarting'
  BY DEF IInv, TypeOK, Fresh, Single, Alive, Owns, Coming, Restarting, Crash, Goto, Exit, Fail, Spawn
<1>5. Calling'
  BY DEF IInv, TypeOK, Calling, Crash, Goto, Exit, Fail, Spawn
<1>6. EnsureSucceeds' /\ OnlyKilledLeavesFile'
  BY DEF IInv, TypeOK, Coming, Owns, EnsureSucceeds, OnlyKilledLeavesFile, Crash, Goto, Exit, Fail, Spawn
<1>. QED  BY <1>1, <1>2, <1>3, <1>4, <1>5, <1>6 DEF IInv

\* The invariant is kept by the start of ensure_mcp_server.
LEMMA EnsureKeeps == \A c \in Clients : IInv /\ Ensure(c) => IInv'
<1> SUFFICES ASSUME NEW c \in Clients, IInv, Ensure(c) PROVE IInv'
  OBVIOUS
<1>1. TypeOK'
  BY DEF IInv, TypeOK, Ensure, At
<1>2. Fresh' /\ Single'
  BY DEF IInv, TypeOK, Fresh, Single, Alive, Ensure, At
<1>3. Owns'
  BY DEF IInv, TypeOK, Single, Alive, Owns, Ensure, At
<1>4. Coming' /\ Restarting'
  BY DEF IInv, TypeOK, Fresh, Single, Alive, Owns, Coming, Restarting, Ensure, At
<1>5. Calling'
  BY DEF IInv, TypeOK, Calling, Ensure, At
<1>6. EnsureSucceeds' /\ OnlyKilledLeavesFile'
  BY DEF IInv, TypeOK, Coming, Owns, EnsureSucceeds, OnlyKilledLeavesFile, Ensure, At
<1>. QED  BY <1>1, <1>2, <1>3, <1>4, <1>5, <1>6 DEF IInv

\* The invariant is kept by the first probe.
LEMMA ProbeKeeps == \A c \in Clients : IInv /\ Probe(c) => IInv'
<1> SUFFICES ASSUME NEW c \in Clients, IInv, Probe(c) PROVE IInv'
  OBVIOUS
<1>1. TypeOK'
  <2>1. PICK label \in {"ready", "start"} : At(c, label)
    BY DEF Probe
  <2>2. UNCHANGED <<systemd, unit, proc, path, idle, started>>
    BY DEF Probe
  <2>3. client' \in [Clients -> Client]
    BY <2>1 DEF IInv, TypeOK, At
  <2>. QED  BY <2>2, <2>3 DEF IInv, TypeOK
<1>2. Fresh' /\ Single'
  BY DEF IInv, TypeOK, Fresh, Single, Alive, Probe, At
<1>3. Owns'
  BY DEF IInv, TypeOK, Single, Alive, Owns, Probe, At
<1>4. Coming' /\ Restarting'
  BY DEF IInv, TypeOK, Fresh, Single, Alive, Owns, Coming, Restarting, Probe, At
<1>5. Calling'
  BY DEF IInv, TypeOK, Calling, Probe, At
<1>6. EnsureSucceeds' /\ OnlyKilledLeavesFile'
  BY DEF IInv, TypeOK, Coming, Owns, EnsureSucceeds, OnlyKilledLeavesFile, Probe, At
<1>. QED  BY <1>1, <1>2, <1>3, <1>4, <1>5, <1>6 DEF IInv

\* The invariant is kept by starting the service, active or not.
LEMMA StartUnitKeeps == \A c \in Clients : IInv /\ StartUnit(c) => IInv'
<1> SUFFICES ASSUME NEW c \in Clients, IInv, StartUnit(c) PROVE IInv'
  OBVIOUS
<1>1. TypeOK'
  <2>0. CASE unit # 0
    BY <2>0 DEF IInv, TypeOK, StartUnit, At
  <2>00. SUFFICES ASSUME unit = 0 PROVE TypeOK'
    BY <2>0
  <2>1. started < MaxServers /\ started' = started + 1
    BY <2>00 DEF StartUnit, Goto, At, Spawn
  <2>2. started + 1 \in Servers /\ proc[started + 1] = "none"
    BY <2>1 DEF IInv, TypeOK
  <2>3. proc' = [proc EXCEPT ![started + 1] = "look"]
    BY <2>00, <2>1 DEF StartUnit, Goto
  <2>4. proc' \in [Servers -> Places]
    BY <2>2, <2>3 DEF IInv, TypeOK
  <2>5. \A t \in Servers : proc'[t] = "none" <=> t > started + 1
    BY <2>1, <2>2, <2>3 DEF IInv, TypeOK
  <2>6. client' \in [Clients -> Client]
    BY DEF IInv, TypeOK, StartUnit, At
  <2>7. /\ systemd' \in BOOLEAN /\ unit' \in 0..(started + 1) /\ path' \in 0..(started + 1)
        /\ idle' \in [Servers -> BOOLEAN]
    BY <2>00, <2>1 DEF IInv, TypeOK, StartUnit, Goto, At, Spawn
  <2>8. unit' # 0 => systemd' /\ proc'[unit'] \notin {"gone", "killed"}
    BY <2>00, <2>1, <2>2, <2>3 DEF IInv, TypeOK, Restarting, StartUnit, Goto, At, Spawn
  <2>. QED  BY <2>1, <2>2, <2>4, <2>5, <2>6, <2>7, <2>8 DEF TypeOK
<1>2. Fresh' /\ Single'
  BY DEF IInv, TypeOK, Fresh, Single, Alive, StartUnit, Goto, At, Spawn
<1>3. Owns'
  BY DEF IInv, TypeOK, Single, Alive, Owns, StartUnit, Goto, At, Spawn
<1>4. Coming' /\ Restarting'
  BY DEF IInv, TypeOK, Fresh, Single, Alive, Owns, Coming, Restarting, StartUnit, Goto, At, Spawn
<1>5. Calling'
  BY DEF IInv, TypeOK, Calling, StartUnit, Goto, At, Spawn
<1>6. EnsureSucceeds' /\ OnlyKilledLeavesFile'
  BY DEF IInv, TypeOK, Coming, Owns, EnsureSucceeds, OnlyKilledLeavesFile, StartUnit, Goto, At, Spawn
<1>. QED  BY <1>1, <1>2, <1>3, <1>4, <1>5, <1>6 DEF IInv

\* The invariant is kept by starting a server without a service manager.
LEMMA StartDirectKeeps == \A c \in Clients : IInv /\ StartDirect(c) => IInv'
<1> SUFFICES ASSUME NEW c \in Clients, IInv, StartDirect(c) PROVE IInv'
  OBVIOUS
<1>1. TypeOK'
  <2>1. started < MaxServers /\ started' = started + 1
    BY  DEF StartDirect, Goto, At, Spawn
  <2>2. started + 1 \in Servers /\ proc[started + 1] = "none"
    BY <2>1 DEF IInv, TypeOK
  <2>3. proc' = [proc EXCEPT ![started + 1] = "look"]
    BY <2>1 DEF StartDirect, Goto
  <2>4. proc' \in [Servers -> Places]
    BY <2>2, <2>3 DEF IInv, TypeOK
  <2>5. \A t \in Servers : proc'[t] = "none" <=> t > started + 1
    BY <2>1, <2>2, <2>3 DEF IInv, TypeOK
  <2>6. client' \in [Clients -> Client]
    BY DEF IInv, TypeOK, StartDirect, At
  <2>7. /\ systemd' \in BOOLEAN /\ unit' \in 0..(started + 1) /\ path' \in 0..(started + 1)
        /\ idle' \in [Servers -> BOOLEAN]
    BY <2>1 DEF IInv, TypeOK, StartDirect, Goto, At, Spawn
  <2>8. unit' # 0 => systemd' /\ proc'[unit'] \notin {"gone", "killed"}
    BY <2>1, <2>2, <2>3 DEF IInv, TypeOK, Restarting, StartDirect, Goto, At, Spawn
  <2>. QED  BY <2>1, <2>2, <2>4, <2>5, <2>6, <2>7, <2>8 DEF TypeOK
<1>2. Fresh' /\ Single'
  BY DEF IInv, TypeOK, Fresh, Single, Alive, StartDirect, Goto, At, Spawn
<1>3. Owns'
  BY DEF IInv, TypeOK, Single, Alive, Owns, StartDirect, Goto, At, Spawn
<1>4. Coming' /\ Restarting'
  BY DEF IInv, TypeOK, Fresh, Single, Alive, Owns, Coming, Restarting, StartDirect, Goto, At, Spawn
<1>5. Calling'
  BY DEF IInv, TypeOK, Calling, StartDirect, Goto, At, Spawn
<1>6. EnsureSucceeds' /\ OnlyKilledLeavesFile'
  BY DEF IInv, TypeOK, Coming, Owns, EnsureSucceeds, OnlyKilledLeavesFile, StartDirect, Goto, At, Spawn
<1>. QED  BY <1>1, <1>2, <1>3, <1>4, <1>5, <1>6 DEF IInv

\* The invariant is kept by a probe that finds the server.
LEMMA WaitFindsKeeps == \A c \in Clients : IInv /\ WaitFinds(c) => IInv'
<1> SUFFICES ASSUME NEW c \in Clients, IInv, WaitFinds(c) PROVE IInv'
  OBVIOUS
<1>1. TypeOK'
  BY DEF IInv, TypeOK, WaitFinds, At, Ready
<1>2. Fresh' /\ Single'
  BY DEF IInv, TypeOK, Fresh, Single, Alive, WaitFinds, At, Ready
<1>3. Owns'
  BY DEF IInv, TypeOK, Single, Alive, Owns, WaitFinds, At, Ready
<1>4. Coming' /\ Restarting'
  BY DEF IInv, TypeOK, Fresh, Single, Alive, Owns, Coming, Restarting, WaitFinds, At, Ready
<1>5. Calling'
  BY DEF IInv, TypeOK, Calling, WaitFinds, At, Ready
<1>6. EnsureSucceeds' /\ OnlyKilledLeavesFile'
  BY DEF IInv, TypeOK, Coming, Owns, EnsureSucceeds, OnlyKilledLeavesFile, WaitFinds, At, Ready
<1>. QED  BY <1>1, <1>2, <1>3, <1>4, <1>5, <1>6 DEF IInv

\* The invariant is kept by the last probe: after a restart it cannot have failed.
LEMMA WaitEndsKeeps == \A c \in Clients : IInv /\ WaitEnds(c) => IInv'
<1> SUFFICES ASSUME NEW c \in Clients, IInv, WaitEnds(c) PROVE IInv'
  OBVIOUS
<1>1. TypeOK'
  <2>1. PICK label \in {"restart", "failed"} : At(c, label)
    BY DEF WaitEnds
  <2>2. UNCHANGED <<systemd, unit, proc, path, idle, started>>
    BY DEF WaitEnds
  <2>3. client' \in [Clients -> Client]
    BY <2>1 DEF IInv, TypeOK, At
  <2>. QED  BY <2>2, <2>3 DEF IInv, TypeOK
<1>2. Fresh' /\ Single'
  BY DEF IInv, TypeOK, Fresh, Single, Alive, WaitEnds, At, Ready, Settled
<1>3. Owns'
  BY DEF IInv, TypeOK, Single, Alive, Owns, WaitEnds, At, Ready, Settled
<1>4. Coming' /\ Restarting'
  BY DEF IInv, TypeOK, Fresh, Single, Alive, Owns, Coming, Restarting, WaitEnds, At, Ready, Settled
<1>5. Calling'
  <2>1. PICK label \in {"restart", "failed"} : At(c, label)
    BY DEF WaitEnds
  <2>2. client'[c].pc \in {"restart", "failed"} /\ \A d \in Clients \ {c} : client'[d] = client[d]
    BY <2>1 DEF IInv, TypeOK, At
  <2>3. proc' = proc /\ idle' = idle /\ started' = started
    BY DEF WaitEnds
  <2>. QED  BY <2>2, <2>3 DEF IInv, Calling
<1>6. EnsureSucceeds' /\ OnlyKilledLeavesFile'
  <2>1. ASSUME systemd, client[c].pc = "last" PROVE FALSE
    <3>1. unit # 0 /\ unit \in Servers /\ proc[unit] = "serve"
      BY <2>1 DEF IInv, TypeOK, Coming, WaitEnds, Settled
    <3>2. path = unit
      BY <2>1, <3>1 DEF IInv, Owns
    <3>. QED  BY <3>1, <3>2 DEF WaitEnds, Ready
  <2>2. /\ systemd => At(c, "restart")
        /\ UNCHANGED <<systemd, unit, proc, path, idle, started>>
    BY <2>1 DEF WaitEnds
  <2>3. systemd => \A d \in Clients : client'[d].pc = "restart" \/ client'[d] = client[d]
    BY <2>2 DEF IInv, TypeOK, At
  <2>. QED  BY <2>2, <2>3 DEF IInv, EnsureSucceeds, OnlyKilledLeavesFile
<1>. QED  BY <1>1, <1>2, <1>3, <1>4, <1>5, <1>6 DEF IInv

\* The invariant is kept by the restart, which leaves one process alive.
LEMMA RestartUnitKeeps == \A c \in Clients : IInv /\ RestartUnit(c) => IInv'
<1> SUFFICES ASSUME NEW c \in Clients, IInv, RestartUnit(c) PROVE IInv'
  OBVIOUS
<1>1. TypeOK'
  <2>1. started < MaxServers /\ started' = started + 1
    BY  DEF RestartUnit, At, Spawn
  <2>2. started + 1 \in Servers /\ proc[started + 1] = "none"
    BY <2>1 DEF IInv, TypeOK
  <2>3. proc' = [s \in Servers |-> CASE s = started + 1 -> "look"
                                 [] s = unit /\ s # started + 1 -> "killed"
                                 [] OTHER -> proc[s]]
    BY <2>1 DEF RestartUnit
  <2>4. proc' \in [Servers -> Places]
    BY <2>2, <2>3 DEF IInv, TypeOK
  <2>5. \A t \in Servers : proc'[t] = "none" <=> t > started + 1
    BY <2>1, <2>2, <2>3 DEF IInv, TypeOK
  <2>6. client' \in [Clients -> Client]
    BY DEF IInv, TypeOK, RestartUnit, At
  <2>7. /\ systemd' \in BOOLEAN /\ unit' \in 0..(started + 1) /\ path' \in 0..(started + 1)
        /\ idle' \in [Servers -> BOOLEAN]
    BY <2>1 DEF IInv, TypeOK, RestartUnit, At, Spawn
  <2>8. unit' # 0 => systemd' /\ proc'[unit'] \notin {"gone", "killed"}
    BY <2>1, <2>2, <2>3 DEF IInv, TypeOK, Restarting, RestartUnit, At, Spawn
  <2>. QED  BY <2>1, <2>2, <2>4, <2>5, <2>6, <2>7, <2>8 DEF TypeOK
<1>2. Fresh' /\ Single'
  BY DEF IInv, TypeOK, Fresh, Single, Alive, RestartUnit, At, Spawn
<1>3. Owns'
  BY DEF IInv, TypeOK, Single, Alive, Owns, RestartUnit, At, Spawn
<1>4. Coming' /\ Restarting'
  BY DEF IInv, TypeOK, Fresh, Single, Alive, Owns, Coming, Restarting, RestartUnit, At, Spawn
<1>5. Calling'
  BY DEF IInv, TypeOK, Calling, RestartUnit, At, Spawn
<1>6. EnsureSucceeds' /\ OnlyKilledLeavesFile'
  BY DEF IInv, TypeOK, Coming, Owns, EnsureSucceeds, OnlyKilledLeavesFile, RestartUnit, At, Spawn
<1>. QED  BY <1>1, <1>2, <1>3, <1>4, <1>5, <1>6 DEF IInv

\* The invariant is kept by a client that connects.
LEMMA ConnectKeeps == \A c \in Clients : IInv /\ Connect(c) => IInv'
<1> SUFFICES ASSUME NEW c \in Clients, IInv, Connect(c) PROVE IInv'
  OBVIOUS
<1>1. TypeOK'
  <2>1. client[c].calls + 1 \in 0..MaxCalls /\ path \in 0..MaxServers
    BY DEF IInv, TypeOK, Connect
  <2>2. client' \in [Clients -> Client]
    BY <2>1 DEF IInv, TypeOK, Connect
  <2>. QED  BY <2>2 DEF IInv, TypeOK, Connect
<1>2. Fresh' /\ Single'
  BY DEF IInv, TypeOK, Fresh, Single, Alive, Connect
<1>3. Owns'
  BY DEF IInv, TypeOK, Single, Alive, Owns, Connect
<1>4. Coming' /\ Restarting'
  BY DEF IInv, TypeOK, Coming, Restarting, Connect
<1>5. Calling'
  <2>1. path \in 1..started
    BY DEF IInv, TypeOK, Connect, Ready
  <2>. QED  BY <2>1 DEF IInv, TypeOK, Calling, Connect
<1>6. EnsureSucceeds' /\ OnlyKilledLeavesFile'
  BY DEF IInv, TypeOK, EnsureSucceeds, OnlyKilledLeavesFile, Connect
<1>. QED  BY <1>1, <1>2, <1>3, <1>4, <1>5, <1>6 DEF IInv

\* The invariant is kept by reading the request of a call.
LEMMA CallKeeps == \A c \in Clients : IInv /\ Call(c) => IInv'
<1> SUFFICES ASSUME NEW c \in Clients, IInv, Call(c) PROVE IInv'
  OBVIOUS
<1> DEFINE s == client[c].server
<1>1. /\ s \in 1..started /\ s \in Servers /\ proc[s] \in {"serve", "doomed", "drain"}
      /\ idle' = [idle EXCEPT ![s] = FALSE]
      /\ client' = [client EXCEPT ![c].pc = "calling", ![c].late = proc[s] # "serve"]
      /\ UNCHANGED <<systemd, unit, proc, path, started>>
  <2>1. s \in 1..started /\ s \in Servers
    BY DEF IInv, TypeOK, Calling, Call
  <2>. QED  BY <2>1 DEF Call
<1>2. /\ client'[c].pc = "calling" /\ client'[c].server = s
      /\ client'[c].late = (proc[s] # "serve")
      /\ \A d \in Clients \ {c} : client'[d] = client[d]
  BY <1>1 DEF IInv, TypeOK
<1>3. client' \in [Clients -> Client] /\ \A t \in Servers : idle'[t] => idle[t] /\ t # s
  <2>1. (proc[s] # "serve") \in BOOLEAN
    OBVIOUS
  <2> DEFINE r == [client[c] EXCEPT !.pc = "calling", !.late = proc[s] # "serve"]
  <2>2. client[c] \in Client
    BY DEF IInv, TypeOK
  <2>3. r \in Client
    BY <2>1, <2>2
  <2>4. client' = [client EXCEPT ![c] = r] /\ client \in [Clients -> Client]
    BY <1>1 DEF IInv, TypeOK
  <2>5. client' \in [Clients -> Client]
    <3> HIDE DEF r
    <3>. QED  BY <2>3, <2>4
  <2>6. \A t \in Servers : idle'[t] => idle[t] /\ t # s
    BY <1>1 DEF IInv, TypeOK
  <2>. QED  BY <2>5, <2>6
<1> HIDE DEF s
<1>4. TypeOK'
  BY <1>1, <1>3 DEF IInv, TypeOK
<1>5. Fresh' /\ Single' /\ Owns'
  BY <1>1, <1>3 DEF IInv, Fresh, Single, Alive, Owns
<1>6. Coming' /\ Restarting' /\ EnsureSucceeds' /\ OnlyKilledLeavesFile'
  <2>1. \A d \in Clients : client'[d].pc \in {"calling", client[d].pc}
    BY <1>2
  <2>2. systemd => unit = 0 \/ unit \in Servers
    BY DEF IInv, TypeOK
  <2>3. Coming'
    BY <1>1, <1>3, <2>1, <2>2 DEF IInv, Coming
  <2>. QED  BY <1>1, <2>1, <2>3 DEF IInv, Restarting, EnsureSucceeds, OnlyKilledLeavesFile
<1>7. Calling'
  <2>1. ASSUME NEW d \in Clients, client'[d].pc \in {"connected", "calling"}
        PROVE  client'[d].server \in 1..started
    BY <1>1, <1>2, <2>1 DEF IInv, Calling
  <2>2. ASSUME NEW d \in Clients, client'[d].pc = "calling"
        PROVE  /\ proc[client'[d].server] \in {"serve", "doomed", "drain", "killed"}
               /\ proc[client'[d].server] = "serve" => ~idle'[client'[d].server]
               /\ proc[client'[d].server] \in {"doomed", "drain"} => client'[d].late
    <3>1. CASE d = c
      BY <1>1, <1>2, <1>3, <3>1
    <3>2. CASE d # c
      <4>1. client[d].server \in Servers
        BY <1>2, <2>2, <3>2 DEF IInv, TypeOK, Calling
      <4>. QED  BY <1>2, <1>3, <2>2, <3>2, <4>1 DEF IInv, Calling
    <3>. QED  BY <3>1, <3>2
  <2>. QED  BY <1>1, <2>1, <2>2 DEF Calling
<1>. QED  BY <1>4, <1>5, <1>6, <1>7 DEF IInv

\* The invariant is kept by the end of a call.
LEMMA CallEndsKeeps == \A c \in Clients : IInv /\ CallEnds(c) => IInv'
<1> SUFFICES ASSUME NEW c \in Clients, IInv, CallEnds(c) PROVE IInv'
  OBVIOUS
<1>1. TypeOK'
  <2>1. client' \in [Clients -> Client]
    BY DEF IInv, TypeOK, CallEnds
  <2>2. idle' \in [Servers -> BOOLEAN]
    BY DEF IInv, TypeOK, CallEnds
  <2>. QED  BY <2>1, <2>2 DEF IInv, TypeOK, CallEnds
<1>2. Fresh' /\ Single'
  BY DEF IInv, TypeOK, Fresh, Single, Alive, CallEnds
<1>3. Owns'
  BY DEF IInv, TypeOK, Single, Alive, Owns, CallEnds
<1>4. Coming' /\ Restarting'
  BY DEF IInv, TypeOK, Fresh, Single, Alive, Owns, Coming, Restarting, CallEnds
<1>5. Calling'
  BY DEF IInv, TypeOK, Calling, CallEnds
<1>6. EnsureSucceeds' /\ OnlyKilledLeavesFile'
  BY DEF IInv, TypeOK, Coming, Owns, EnsureSucceeds, OnlyKilledLeavesFile, CallEnds
<1>. QED  BY <1>1, <1>2, <1>3, <1>4, <1>5, <1>6 DEF IInv

\* The invariant is kept by time passing: no client is on its way then.
LEMMA LongTimeKeeps == IInv /\ LongTime => IInv'
<1> SUFFICES ASSUME IInv, LongTime PROVE IInv'
  OBVIOUS
<1>1. TypeOK'
  BY DEF IInv, TypeOK, LongTime
<1>2. \A s \in Servers : idle'[s] <=> proc[s] = "serve" /\ ~Held(s)
  BY DEF LongTime
<1>3. \A c \in Clients : client[c].pc # "last"
  BY DEF LongTime, Ensuring, AtAny
<1>4. UNCHANGED <<systemd, unit, proc, path, started, client>>
  BY DEF LongTime
<1>5. Fresh' /\ Single' /\ Owns'
  BY <1>2, <1>4 DEF IInv, TypeOK, Fresh, Single, Alive, Owns
<1>6. Coming' /\ Restarting' /\ EnsureSucceeds' /\ OnlyKilledLeavesFile'
  BY <1>3, <1>4 DEF IInv, Coming, Restarting, EnsureSucceeds, OnlyKilledLeavesFile
<1>7. Calling'
  BY <1>2, <1>4 DEF IInv, TypeOK, Calling, Held, Of
<1>. QED  BY <1>1, <1>5, <1>6, <1>7 DEF IInv

\* The invariant is kept by a kill that nothing follows: no client is on its way then.
LEMMA TerminateKeeps == \A s \in Servers : IInv /\ Terminate(s) => IInv'
<1> SUFFICES ASSUME NEW s \in Servers, IInv, Terminate(s) PROVE IInv'
  OBVIOUS
<1>1. TypeOK'
  BY DEF IInv, TypeOK, Terminate, Exit, Goto
<1>2. Fresh' /\ Single'
  BY DEF IInv, TypeOK, Fresh, Single, Alive, Terminate, Exit, Goto
<1>3. Owns'
  BY DEF IInv, TypeOK, Single, Alive, Owns, Terminate, Exit, Goto
<1>4. Coming' /\ Restarting'
  <2>1. \A c \in Clients : client[c].pc # "last"
    BY DEF Terminate, Ensuring, AtAny
  <2>. QED  BY <2>1 DEF IInv, Coming, Restarting, Terminate, Exit, Goto
<1>5. Calling'
  BY DEF IInv, TypeOK, Calling, Terminate, Exit, Goto
<1>6. EnsureSucceeds' /\ OnlyKilledLeavesFile'
  BY DEF IInv, TypeOK, EnsureSucceeds, OnlyKilledLeavesFile, Terminate, Exit, Goto
<1>. QED  BY <1>1, <1>2, <1>3, <1>4, <1>5, <1>6 DEF IInv

\* Nothing changes in a stuttering step.
LEMMA StutterKeeps == IInv /\ UNCHANGED vars => IInv'
BY DEF vars, IInv, TypeOK, Fresh, Single, Alive, Owns, Coming, Restarting, Calling,
       EnsureSucceeds, OnlyKilledLeavesFile

\* Every behaviour of clients, processes and accidents keeps the invariant.
THEOREM Invariance == Spec => []IInv
<1>1. IInv /\ [Next]_vars => IInv'
  <2> SUFFICES ASSUME IInv, [Next]_vars PROVE IInv'
    OBVIOUS
  <2>1. ASSUME NEW s \in Servers, Server(s) PROVE IInv'
    BY <2>1, LookKeeps, UnlinkKeeps, BindKeeps, ListenKeeps, ChmodKeeps, TimerLooksKeeps,
       StopLoopKeeps, DrainedKeeps, LeaveKeeps, RemoveKeeps DEF Server
  <2>2. ASSUME NEW c \in Clients, EnsureStep(c) PROVE IInv'
    BY <2>2, ProbeKeeps, StartUnitKeeps, StartDirectKeeps, WaitFindsKeeps,
       WaitEndsKeeps, RestartUnitKeeps DEF EnsureStep
  <2>3. CASE UNCHANGED vars
    BY <2>3, StutterKeeps
  <2>. QED  BY <2>1, <2>2, <2>3, CrashKeeps, TerminateKeeps, EnsureKeeps, ConnectKeeps, CallKeeps,
               CallEndsKeeps, LongTimeKeeps DEF Next
<1>. QED  BY Initial, <1>1, PTL DEF Spec

\* The state is well typed: the service is active only with a live process.
THEOREM TypeCorrect == Spec => []TypeOK
<1>1. IInv => TypeOK
  BY DEF IInv
<1>. QED  BY Invariance, <1>1, PTL

\* With a service manager ensure_mcp_server gets a server, however many clients
\* start and restart it and whenever the old one leaves or dies.
THEOREM ClientsSucceed == Spec => []EnsureSucceeds
<1>1. IInv => EnsureSucceeds
  BY DEF IInv
<1>. QED  BY Invariance, <1>1, PTL

\* With a service manager the path leads to every server that serves.
THEOREM Reachable == Spec => []ServingIsReachable
<1>1. IInv => ServingIsReachable
  BY DEF IInv, Owns, ServingIsReachable
<1>. QED  BY Invariance, <1>1, PTL

\* A server is not stopped for inactivity under a call whose request it had read.
THEOREM CallsSpared == Spec => []InactivitySparesCalls
<1>1. IInv => InactivitySparesCalls
  BY DEF IInv, Calling, InactivitySparesCalls
<1>. QED  BY Invariance, <1>1, PTL

\* A server that leaves by itself, at any point, does not leave its file.
THEOREM FileRemoved == Spec => []OnlyKilledLeavesFile
<1>1. IInv => OnlyKilledLeavesFile
  BY DEF IInv
<1>. QED  BY Invariance, <1>1, PTL

HIDE ServerLifecycleAssumption DEF Servers, Places, Client

-----------------------------------------------------------------------------
(* The command of a call and its end (CommandOutput).  Every step of the   *)
(* command itself leaves the ending alone, and what was told to end stays  *)
(* told.                                                                   *)

\* A stream is read up to what was written, at most.
Reading ==
  /\ read \in [Streams -> Nat] /\ seen \in [Streams -> Nat]
  /\ written \in [Streams -> Seq(Bytes)]
  /\ \A s \in Streams : read[s] <= Len(written[s])
  /\ open \in SUBSET Used /\ tool \in {"pipe", "pty", "exec"}

Grouped ==
  /\ group \in [Procs -> [state: {"none", "live", "dead"}, holds: SUBSET Streams]]
  /\ group["leader"].state # "none"
  /\ found \in {"none", "live", "dead"} /\ told \in SUBSET Procs

\* A stream that is no longer watched is over, unless the thread is about to leave.
\* What a Python program writes is not watched.
Watching == pc \in {"select", "read", "poll"} \/ (pc = "check" /\ open # {})
Watched ==
  /\ Watching => \A s \in Used \ open : AtEnd(s)
  /\ tool = "exec" => open = Used /\ pc \notin {"select", "read", "poll"}
  /\ pc = "communicate" => tool = "exec"

\* What select gave up waiting for had been read.
ReadThrough == \A s \in Used : read[s] >= seen[s]

\* The leader is looked at once, when the group is told; from then on only a
\* child that the leader starts can have been missed.
Missed(p) == Live(p) /\ p \notin told \union root
Telling ==
  /\ found # "none" => pc \in {"killwait", "ended"}
  /\ pc = "killwait" => told # {}
  /\ found = "live" /\ told = {} => root = Procs
  /\ found = "live" => \A p \in Procs : Missed(p) => p = "child" /\ late

\* The leader is over with its call, if it may be signalled and the call of a
\* Python program did not end with an exception.
Abandoned == tool = "exec" /\ outcome = "error"
LeaderEnds == pc = "ended" => ~Live("leader") \/ "leader" \in root \/ Abandoned

CommandInv == Reading /\ Grouped /\ Watched /\ ReadThrough /\ Telling /\ LeaderEnds

LEMMA Outputs == ASSUME NEW s \in Used, tool \in {"pipe", "pty", "exec"} PROVE s \in Streams
BY DEF Used, Streams

\* What is left to read.
LEMMA UnreadIs ==
  ASSUME Reading, NEW s \in Streams
  PROVE  /\ Len(Unread(s)) = Len(written[s]) - read[s]
         /\ Unread(s) = <<>> => read[s] = Len(written[s])
<1>1. written[s] \in Seq(Bytes) /\ read[s] \in Nat /\ read[s] <= Len(written[s])
  BY DEF Reading
<1>2. Len(Unread(s)) = Len(written[s]) - read[s]
  BY <1>1 DEF Unread
<1>. QED  BY <1>1, <1>2

\* A stream that is over stays so as long as no process gets hold of it.
LEMMA OverStays ==
  ASSUME NEW s, AtEnd(s), written'[s] = written[s], read'[s] = read[s],
         \A p \in Procs :
           group'[p].state = "live" /\ s \in group'[p].holds =>
             \E q \in Procs : group[q].state = "live" /\ s \in group[q].holds
  PROVE  AtEnd(s)'
BY DEF AtEnd, Holders, Live, Unread

-----------------------------------------------------------------------------
(* The command itself.                                                     *)

\* A process that changes gets hold of no stream that is over.
LEMMA ChangeReads ==
  ASSUME CommandInv, NEW p \in Procs, NEW state \in {"live", "dead"},
         NEW holds \in SUBSET Streams,
         Change(p, state, holds),
         \A s \in holds : \E q \in Procs : Live(q) /\ s \in group[q].holds
  PROVE  Reading' /\ Grouped' /\ Watched' /\ ReadThrough'
<1>1. /\ group' = [group EXCEPT ![p] = [state |-> state, holds |-> holds]]
      /\ UNCHANGED <<tool, written, read, open, pc, found, told, seen>>
  BY DEF Change, output, ending
<1>2. Reading' /\ ReadThrough'
  BY <1>1 DEF CommandInv, Reading, ReadThrough, Used
<1>3. Grouped'
  BY <1>1 DEF CommandInv, Grouped, Procs
<1>4. Watched'
  <2>1. SUFFICES ASSUME NEW s \in Used \ open, AtEnd(s) PROVE AtEnd(s)'
    BY <1>1 DEF CommandInv, Watched, Watching, Used
  <2>2. \A q \in Procs : group'[q].state = "live" /\ s \in group'[q].holds =>
          \E q2 \in Procs : group[q2].state = "live" /\ s \in group[q2].holds
    BY <1>1 DEF CommandInv, Grouped, Live
  <2>. QED  BY <1>1, <2>1, <2>2, OverStays
<1>. QED  BY <1>2, <1>3, <1>4

LEMMA ForkKeeps == CommandInv /\ Fork => CommandInv'
<1>. SUFFICES ASSUME CommandInv, Fork PROVE CommandInv'
  OBVIOUS
<1>1. /\ Live("leader") /\ group["child"].state = "none"
      /\ Change("child", "live", group["leader"].holds) /\ late' = (told # {})
  BY DEF Fork
<1>2. /\ group["leader"].holds \in SUBSET Streams
      /\ "leader" \in Procs /\ "child" \in Procs
  BY DEF CommandInv, Grouped, Procs
<1>3. Reading' /\ Grouped' /\ Watched' /\ ReadThrough'
  BY <1>1, <1>2, ChangeReads
<1>4. Telling' /\ LeaderEnds'
  BY <1>1, <1>2 DEF CommandInv, Grouped, Telling, LeaderEnds, Abandoned, Missed, Change,
                    Live, ending, Procs
<1>. QED  BY <1>3, <1>4 DEF CommandInv

LEMMA ExitKeeps ==
  ASSUME CommandInv, NEW p \in Procs, ProcessExits(p)
  PROVE  CommandInv'
<1>1. Change(p, "dead", {}) /\ late' = late
  BY DEF ProcessExits
<1>2. Reading' /\ Grouped' /\ Watched' /\ ReadThrough'
  BY <1>1, ChangeReads
<1>3. Telling' /\ LeaderEnds'
  BY <1>1 DEF CommandInv, Grouped, Telling, LeaderEnds, Abandoned, Missed, Change,
              Live, ending, Procs
<1>. QED  BY <1>2, <1>3 DEF CommandInv

LEMMA CloseOutputKeeps == CommandInv /\ CloseOutput => CommandInv'
<1>. SUFFICES ASSUME CommandInv, CloseOutput PROVE CommandInv'
  OBVIOUS
<1>1. Live("leader") /\ Change("leader", "live", {}) /\ late' = late
  BY DEF CloseOutput
<1>2. "leader" \in Procs
  BY DEF Procs
<1>3. Reading' /\ Grouped' /\ Watched' /\ ReadThrough'
  BY <1>1, <1>2, ChangeReads
<1>4. Telling' /\ LeaderEnds'
  BY <1>1 DEF CommandInv, Grouped, Telling, LeaderEnds, Abandoned, Missed, Change,
              Live, ending, Procs
<1>. QED  BY <1>3, <1>4 DEF CommandInv

\* A write goes to a stream that somebody holds.
LEMMA WriteKeeps ==
  ASSUME CommandInv, NEW p \in Procs, NEW s \in Streams,
         NEW byte \in Bytes, Write(p, s, byte)
  PROVE  CommandInv'
<1>. DEFINE bytes == IF tool = "pty" /\ byte = "lf" THEN <<"cr", "lf">> ELSE <<byte>>
<1>1. /\ p \in Holders(s) /\ written' = [written EXCEPT ![s] = @ \o bytes]
      /\ UNCHANGED <<tool, group, cancelled, late, open, read, pc, outcome, told, found, root, seen>>
  BY DEF Write, output, ending
<1>2. bytes \in Seq(Bytes)
  <2>1. CASE tool = "pty" /\ byte = "lf"
    BY <2>1 DEF Bytes
  <2>2. CASE ~(tool = "pty" /\ byte = "lf")
    BY <2>2
  <2>. QED  BY <2>1, <2>2
<1>3. written[s] \o bytes \in Seq(Bytes) /\ Len(written[s] \o bytes) >= Len(written[s])
  BY <1>2 DEF CommandInv, Reading
<1>. HIDE DEF bytes
<1>4. Reading' /\ ReadThrough'
  BY <1>1, <1>3 DEF CommandInv, Reading, ReadThrough, Used
<1>5. Watched'
  <2>1. SUFFICES ASSUME NEW s2 \in Used \ open, AtEnd(s2) PROVE AtEnd(s2)'
    BY <1>1 DEF CommandInv, Watched, Watching, Used
  <2>2. s2 # s
    BY <1>1, <2>1 DEF AtEnd
  <2>3. s2 \in Streams
    BY Outputs DEF CommandInv, Reading
  <2>. QED  BY <1>1, <2>1, <2>2, <2>3
            DEF CommandInv, Reading, AtEnd, Holders, Live, Unread
<1>6. Grouped' /\ Telling' /\ LeaderEnds'
  BY <1>1 DEF CommandInv, Grouped, Telling, LeaderEnds, Abandoned, Missed, Live
<1>. QED  BY <1>4, <1>5, <1>6 DEF CommandInv

-----------------------------------------------------------------------------
(* The thread that reads.                                                  *)

\* A step that leaves the command and what was read of it alone, and does not
\* move to where the thread watches.
LEMMA MoveKeeps ==
  ASSUME CommandInv,
         UNCHANGED <<tool, group, written, read, open, seen, told, found, root, late>>,
         pc' \notin {"killwait", "ended"} => found = "none",
         pc' = "killwait" => told # {},
         pc' = "ended" => ~Live("leader") \/ "leader" \in root \/ Abandoned',
         Watching' => Watching \/ tool = "exec",
         tool = "exec" => pc' \notin {"select", "read", "poll"},
         pc' = "communicate" => tool = "exec"
  PROVE  CommandInv'
<1>1. Reading' /\ Grouped' /\ ReadThrough'
  BY DEF CommandInv, Reading, Grouped, ReadThrough, Used
<1>2. Watched'
  BY DEF CommandInv, Watched, Used, AtEnd, Holders, Live,
         Unread
<1>3. Telling' /\ LeaderEnds'
  BY DEF CommandInv, Telling, LeaderEnds, Abandoned, Missed, Live
<1>. QED  BY <1>1, <1>2, <1>3 DEF CommandInv

LEMMA CheckKeeps == CommandInv /\ Check => CommandInv'
<1>. SUFFICES ASSUME CommandInv, Check PROVE CommandInv'
  OBVIOUS
<1>. QED  BY MoveKeeps DEF Check, MoveTo, End, outside,
             output, ending, CommandInv, Telling, Watching

LEMMA SelectKeeps == CommandInv /\ Select => CommandInv'
<1>. SUFFICES ASSUME CommandInv, Select PROVE CommandInv'
  OBVIOUS
<1>1. /\ pc = "select" /\ ready' = {s \in open : Unread(s) # <<>> \/ Holders(s) = {}}
      /\ pc' = IF ready' = {} THEN "poll" ELSE "read"
      /\ seen' = [s \in Streams |-> IF pc' = "poll" THEN Len(written[s]) ELSE 0]
      /\ UNCHANGED <<tool, group, written, cancelled, late, open, read, told, found, root>>
  BY DEF Select, outside, output, ending
<1>2. \A s \in Used : s \in Streams
  BY Outputs DEF CommandInv, Reading
<1>3. \A s \in Streams : Len(written[s]) \in Nat
  BY DEF CommandInv, Reading
<1>4. \A s \in Used : AtEnd(s) \/ s \in open
  BY <1>1 DEF CommandInv, Watched, Watching
<1>5. ASSUME NEW s \in Used PROVE read[s] >= seen'[s]
  <2>1. CASE pc' = "poll"
    <3>1. Unread(s) = <<>>
      BY <1>1, <1>4, <2>1 DEF AtEnd
    <3>2. read[s] = Len(written[s])
      BY <1>2, <3>1, UnreadIs DEF CommandInv
    <3>. QED  BY <1>1, <1>2, <1>3, <2>1, <3>2
  <2>2. CASE pc' # "poll"
    BY <1>1, <1>2, <2>2 DEF CommandInv, Reading
  <2>. QED  BY <2>1, <2>2
<1>6. Reading' /\ ReadThrough'
  BY <1>1, <1>2, <1>3, <1>5 DEF CommandInv, Reading, ReadThrough, Used
<1>7. Watched'
  BY <1>1 DEF CommandInv, Watched, Watching, Used, AtEnd, Holders,
              Live, Unread
<1>8. Grouped' /\ Telling' /\ LeaderEnds'
  BY <1>1 DEF CommandInv, Grouped, Telling, LeaderEnds, Abandoned, Missed, Live
<1>. QED  BY <1>6, <1>7, <1>8 DEF CommandInv

\* With its leader gone a command is not watched any more.
LEMMA PollKeeps == CommandInv /\ Poll => CommandInv'
<1>. SUFFICES ASSUME CommandInv, Poll PROVE CommandInv'
  OBVIOUS
<1>1. /\ pc = "poll" /\ pc' = "check" /\ open' = (IF Live("leader") THEN open ELSE {})
      /\ UNCHANGED <<tool, group, written, late, read, seen, told, found, root>>
  BY DEF Poll, outside, ending
<1>2. Reading' /\ ReadThrough' /\ Grouped'
  BY <1>1 DEF CommandInv, Reading, ReadThrough, Grouped, Used
<1>3. Watched'
  BY <1>1 DEF CommandInv, Watched, Watching, Used, AtEnd, Holders,
              Live, Unread
<1>4. Telling' /\ LeaderEnds'
  BY <1>1 DEF CommandInv, Telling, LeaderEnds, Abandoned, Missed, Live
<1>. QED  BY <1>2, <1>3, <1>4 DEF CommandInv

\* A read never goes past what was written, and only a stream that is over is
\* taken off the watch.
LEMMA ReadKeeps == CommandInv /\ Read => CommandInv'
<1>. SUFFICES ASSUME CommandInv, Read PROVE CommandInv'
  OBVIOUS
<1>1. PICK s \in Streams :
        /\ pc = "read" /\ pc' \in {"check", "read"}
        /\ \/ AtEnd(s) /\ open' = open \ {s} /\ UNCHANGED read
           \/ /\ UNCHANGED open
              /\ \E n \in 1..Len(Unread(s)) : read' = [read EXCEPT ![s] = @ + n]
        /\ UNCHANGED <<tool, group, written, late, seen, told, found, root>>
  BY DEF Read, outside, ending, Streams
<1>2. Len(Unread(s)) = Len(written[s]) - read[s] /\ Len(written[s]) \in Nat /\ read[s] \in Nat
  BY UnreadIs DEF CommandInv, Reading
<1>3. \A r \in Streams : read[r] <= read'[r] /\ read'[r] <= Len(written[r]) /\ read'[r] \in Nat
  BY <1>1, <1>2 DEF CommandInv, Reading
<1>4. read' \in [Streams -> Nat]
  BY <1>1, <1>2, <1>3 DEF CommandInv, Reading
<1>5. Reading'
  BY <1>1, <1>3, <1>4 DEF CommandInv, Reading, Used
<1>6. ReadThrough'
  <2>1. \A r \in Used : r \in Streams
    BY Outputs DEF CommandInv, Reading
  <2>. QED  BY <1>1, <1>3, <2>1 DEF CommandInv, Reading, ReadThrough, Used
<1>7. Watched'
  <2>1. ASSUME NEW r \in Used \ open' PROVE AtEnd(r)'
    <3>1. AtEnd(r) /\ r \in Streams
      BY <1>1, Outputs DEF CommandInv, Reading, Watched, Watching
    <3>2. Unread(r) = <<>> /\ read[r] = Len(written[r])
      BY <3>1, UnreadIs DEF CommandInv, AtEnd
    <3>3. read'[r] = read[r]
      BY <1>3, <3>1, <3>2 DEF CommandInv, Reading
    <3>. QED  BY <1>1, <3>1, <3>3 DEF AtEnd, Holders, Live, Unread
  <2>2. tool # "exec"
    BY <1>1 DEF CommandInv, Watched
  <2>. QED  BY <1>1, <2>1, <2>2 DEF Watched, Used
<1>8. Grouped' /\ Telling' /\ LeaderEnds'
  BY <1>1 DEF CommandInv, Grouped, Telling, LeaderEnds, Abandoned, Missed, Live
<1>. QED  BY <1>5, <1>6, <1>7, <1>8 DEF CommandInv

LEMMA ReadErrorKeeps == CommandInv /\ ReadError => CommandInv'
<1>. SUFFICES ASSUME CommandInv, ReadError PROVE CommandInv'
  OBVIOUS
<1>. QED  BY MoveKeeps DEF ReadError, End, outside,
             output, CommandInv, Telling, Watching

LEMMA FlushKeeps == CommandInv /\ Flush => CommandInv'
<1>. SUFFICES ASSUME CommandInv, Flush PROVE CommandInv'
  OBVIOUS
<1>. QED  BY MoveKeeps DEF Flush, outside, CommandInv, Telling, Watching

-----------------------------------------------------------------------------
(* The end of a command.                                                   *)

LEMMA EndKeeps == CommandInv /\ (Finally \/ Wait) => CommandInv'
<1>. SUFFICES ASSUME CommandInv, Finally \/ Wait PROVE CommandInv'
  OBVIOUS
<1>. QED  BY MoveKeeps DEF Finally, Wait, MoveTo, outside,
             output, ending, CommandInv, Telling, Watching

\* Whoever dies holds nothing any more.
LEMMA SignalKeeps ==
  ASSUME CommandInv, NEW reach \in SUBSET Procs, NEW dying \in SUBSET reach,
         NEW label \in {"killwait", "ended"}, Signal(reach, dying, label),
         found' \in {"none", "live", "dead"}, pc \notin {"select", "read", "poll", "check"}
  PROVE  Reading' /\ Grouped' /\ Watched' /\ ReadThrough'
<1>1. /\ group' = [p \in Procs |->
                    IF p \in dying THEN [state |-> "dead", holds |-> {}] ELSE group[p]]
      /\ told' = told \union reach /\ pc' = label
      /\ UNCHANGED <<tool, written, read, open, seen, late>>
  BY DEF Signal, output
<1>2. Reading' /\ ReadThrough'
  BY <1>1 DEF CommandInv, Reading, ReadThrough, Used
<1>3. Watched'
  <2>1. SUFFICES ASSUME NEW s \in Used \ open, AtEnd(s) PROVE AtEnd(s)'
    BY <1>1 DEF CommandInv, Watched, Watching, Used
  <2>2. \A q \in Procs : group'[q].state = "live" /\ s \in group'[q].holds =>
          \E q2 \in Procs : group[q2].state = "live" /\ s \in group[q2].holds
    BY <1>1
  <2>. QED  BY <1>1, <2>1, <2>2, OverStays
<1>4. Grouped'
  <2>1. group' \in [Procs -> [state: {"none", "live", "dead"}, holds: SUBSET Streams]]
    BY <1>1 DEF CommandInv, Grouped
  <2>2. group'["leader"].state # "none"
    BY <1>1 DEF CommandInv, Grouped, Procs
  <2>3. found' \in {"none", "live", "dead"}
    OBVIOUS
  <2>. QED  BY <1>1, <2>1, <2>2, <2>3 DEF CommandInv, Grouped
<1>. QED  BY <1>2, <1>3, <1>4

LEMMA TermKeeps == CommandInv /\ Term => CommandInv'
<1>. SUFFICES ASSUME CommandInv, Term PROVE CommandInv'
  OBVIOUS
<1>1. PICK reach, dying, label :
        /\ reach \in SUBSET Procs /\ dying \in SUBSET reach
        /\ Signal(reach, dying, label)
        /\ \/ /\ ~Live("leader") \/ Reach(root') = {}
              /\ reach = {} /\ dying = {} /\ label = "ended"
           \/ /\ reach = Reach(root') /\ reach # {} /\ label = "killwait"
  BY DEF Term, Reach
<1>2. /\ pc = "term" /\ found' = group["leader"].state
      /\ root' \in {{}, {"child"}, Procs}
  BY DEF Term, Privileged, CommandInv, Reading
<1>3. Reading' /\ Grouped' /\ Watched' /\ ReadThrough'
  <2>1. /\ found' \in {"none", "live", "dead"} /\ label \in {"killwait", "ended"}
        /\ pc \notin {"select", "read", "poll", "check"}
    BY <1>1, <1>2 DEF CommandInv, Grouped, Procs
  <2>. QED  BY <1>1, <2>1, SignalKeeps
<1>4. /\ group' = [p \in Procs |->
                    IF p \in dying THEN [state |-> "dead", holds |-> {}] ELSE group[p]]
      /\ told' = told \union reach /\ pc' = label /\ UNCHANGED late
  BY <1>1 DEF Signal
<1>5. Telling'
  BY <1>1, <1>2, <1>4 DEF CommandInv, Telling, Missed, Live, Reach, Procs
<1>6. LeaderEnds'
  BY <1>1, <1>2, <1>4 DEF CommandInv, LeaderEnds, Abandoned, Live, Reach, Procs
<1>. QED  BY <1>3, <1>5, <1>6 DEF CommandInv

LEMMA KillWaitKeeps == CommandInv /\ KillWait => CommandInv'
<1>. SUFFICES ASSUME CommandInv, KillWait PROVE CommandInv'
  OBVIOUS
<1>1. PICK reach \in SUBSET Procs :
        /\ Signal(reach, reach, "ended")
        /\ \/ ~Live("leader") /\ reach = {}
           \/ Live("leader") /\ reach = Reach(root)
  BY DEF KillWait, Reach
<1>2. pc = "killwait" /\ UNCHANGED <<found, root>>
  BY DEF KillWait
<1>3. Reading' /\ Grouped' /\ Watched' /\ ReadThrough'
  BY <1>1, <1>2, SignalKeeps DEF CommandInv, Grouped, Procs
<1>4. /\ group' = [p \in Procs |->
                    IF p \in reach THEN [state |-> "dead", holds |-> {}] ELSE group[p]]
      /\ told' = told \union reach /\ pc' = "ended" /\ UNCHANGED late
  BY <1>1 DEF Signal
<1>5. Telling'
  BY <1>2, <1>4 DEF CommandInv, Telling, Missed, Live
<1>6. LeaderEnds'
  BY <1>1, <1>2, <1>4 DEF CommandInv, LeaderEnds, Abandoned, Live, Reach, Procs
<1>. QED  BY <1>3, <1>5, <1>6 DEF CommandInv

LEMMA ExecKeeps == CommandInv /\ (ExecCheck \/ Communicate) => CommandInv'
<1>. SUFFICES ASSUME CommandInv, ExecCheck \/ Communicate PROVE CommandInv'
  OBVIOUS
<1>1. CASE ExecCheck
  BY <1>1, MoveKeeps DEF ExecCheck, MoveTo, End, outside,
       output, ending, CommandInv, Telling, Watching
<1>2. CASE Communicate
  BY <1>2, MoveKeeps DEF Communicate, MoveTo, End, outside,
       output, ending, CommandInv, Telling, Watching, Watched, Abandoned
<1>. QED  BY <1>1, <1>2

LEMMA CommandInvariance == CommandSpec => []CommandInv
<1>1. CommandInit => CommandInv
  BY DEF CommandInit, CommandInv, Reading, Grouped, Watched, Watching, ReadThrough, Telling,
         LeaderEnds, Missed, Live, Used, Streams, Procs
<1>2. CommandInv /\ [CommandNext]_commandVars => CommandInv'
  <2>. SUFFICES ASSUME CommandInv, [CommandNext]_commandVars PROVE CommandInv'
    OBVIOUS
  <2>1. CASE Cancel
    BY <2>1, MoveKeeps DEF Cancel, output, ending, CommandInv,
         Telling, LeaderEnds, Abandoned, Watching, Watched
  <2>2. CASE Command
    BY <2>1, <2>2, WriteKeeps, ExitKeeps, ForkKeeps, CloseOutputKeeps DEF Command
  <2>3. CASE Worker
    BY <2>3, CheckKeeps, SelectKeeps, PollKeeps, ReadKeeps, ReadErrorKeeps, FlushKeeps,
       EndKeeps, TermKeeps, KillWaitKeeps, ExecKeeps DEF Worker
  <2>4. CASE UNCHANGED commandVars
    BY <2>4, MoveKeeps DEF commandVars, outside, output, ending,
         CommandInv, Telling, LeaderEnds, Abandoned, Watching, Watched
  <2>. QED  BY <2>2, <2>3, <2>4 DEF CommandNext
<1>. QED  BY <1>1, <1>2, PTL DEF CommandSpec

\* A command that is taken for finished was read up to where it was when the
\* thread last waited for it (_stream_subprocess).
THEOREM ReadToTheLastWait == CommandSpec => []OutputIsDrained
<1>1. CommandInv => OutputIsDrained
  BY DEF CommandInv, ReadThrough, OutputIsDrained
<1>. QED  BY <1>1, CommandInvariance, PTL

\* When a call is over, so is its leader, and the group has been told to end if
\* the leader was there to name it (_terminate_process_group); a process of root
\* escapes, one that was started too late, and a Python program whose call ended
\* with an exception.
THEOREM GroupEnds == CommandSpec => []GroupIsTold
<1>1. CommandInv => GroupIsTold
  BY DEF CommandInv, Telling, LeaderEnds, Abandoned, Missed, GroupIsTold
<1>. QED  BY <1>1, CommandInvariance, PTL

-----------------------------------------------------------------------------
(* How bytes become lines (OutputFraming).                                 *)

\* Induction, in a form the provers can use: a set of numbers with zero and all
\* successors is all numbers.
LEMMA LessIsWellFounded == IsWellFoundedOn({p \in Nat \X Nat : p[1] < p[2]}, Nat)
<1>1. OpToRel(<, Nat) = {p \in Nat \X Nat : p[1] < p[2]}
  BY DEF OpToRel
<1>. QED  BY <1>1, NatLessThanWellFounded

LEMMA Induction ==
  ASSUME NEW T \in SUBSET Nat, 0 \in T, \A n \in T : n + 1 \in T
  PROVE  T = Nat
<1>. DEFINE C == Nat \ T
            R == {p \in Nat \X Nat : p[1] < p[2]}
<1>. SUFFICES ASSUME C # {} PROVE FALSE
  OBVIOUS
<1>1. PICK x \in C : \A y \in C : <<y, x>> \notin R
  <2>1. C \subseteq Nat
    OBVIOUS
  <2>2. IsWellFoundedOn(R, Nat)
    BY LessIsWellFounded
  <2>. HIDE DEF R, C
  <2>. QED  BY <2>1, <2>2, WFMin
<1>2. x # 0 /\ x - 1 \in Nat /\ x \in Nat /\ x \notin T
  OBVIOUS
<1>3. x - 1 \notin C
  <2>1. <<x - 1, x>> \in R
    BY <1>2
  <2>. QED  BY <1>1, <2>1
<1>4. (x - 1) + 1 = x
  BY <1>2
<1>. QED  BY <1>2, <1>3, <1>4

\* A nonempty set of numbers has a least one.
LEMMA Least ==
  ASSUME NEW S \in SUBSET Nat, S # {}
  PROVE  \E x \in S : \A y \in S : x <= y
<1>. DEFINE R == {p \in Nat \X Nat : p[1] < p[2]}
<1>1. PICK x \in S : \A y \in S : <<y, x>> \notin R
  <2>1. IsWellFoundedOn(R, Nat)
    BY LessIsWellFounded
  <2>. HIDE DEF R
  <2>. QED  BY <2>1, WFMin
<1>2. ASSUME NEW y \in S PROVE x <= y
  <2>1. <<y, x>> \notin R /\ x \in Nat /\ y \in Nat
    BY <1>1
  <2>2. ~(y < x)
    BY <2>1
  <2>. QED  BY <2>1, <2>2
<1>. QED  BY <1>2

\* An end of line for good: a line feed, or a carriage return that something else
\* already follows.
EndOf(char) == char \in {"cr", "lf"}
Firm(text, i) ==
  text[i] = "lf" \/ (text[i] = "cr" /\ i < Len(text) /\ text[i + 1] # "lf")

\* A carriage return and a line feed end the line together.
Paired(text, from, to) == text[to] = "lf" /\ from < to - 1 /\ text[to - 1] = "cr"
Short(text, from, to) == IF Paired(text, from, to) THEN 2 ELSE 1

\* The frame is the line of the text that ends at `to', place by place.
Piece(frame, text, from, to) ==
  /\ from \in 0..Len(text) /\ to \in 1..Len(text) /\ from < to
  /\ Firm(text, to) /\ frame \in Frames /\ frame.end = text[to]
  /\ \A i \in (from + 1)..(to - 1) :
       EndOf(text[i]) => text[i] = "cr" /\ i + 1 = to /\ text[to] = "lf"
  /\ Len(frame.line) = to - from - Short(text, from, to)
  /\ \A i \in 1..Len(frame.line) : frame.line[i] = text[from + i]

\* What is left of the text behind a place.
Left(rest, text, from) ==
  /\ from \in 0..Len(text) /\ rest \in Seq(Units) /\ Len(rest) = Len(text) - from
  /\ \A i \in 1..Len(rest) : rest[i] = text[from + i]

Cuts(cut, given, rest, text) ==
  /\ cut \in [0..Len(given) -> 0..Len(text)] /\ cut[0] = 0
  /\ \A k \in 1..Len(given) : Piece(given[k], text, cut[k - 1], cut[k])
  /\ Left(rest, text, cut[Len(given)])

\* The frames given out and what is pending are the text, cut at its ends of line.
Framed(given, rest, text) ==
  /\ given \in Seq(Frames) /\ rest \in Seq(Units) /\ text \in Seq(Units)
  /\ \E cut : Cuts(cut, given, rest, text)

\* Nothing more can be given out yet.
Quiet(rest) == \A i \in 1..Len(rest) : EndOf(rest[i]) => rest[i] = "cr" /\ i = Len(rest)

\* The text is the ideal one, but for characters that are torn.
Torn(text, ideal) ==
  /\ text \in Seq(Units) /\ ideal \in Seq(Units) /\ Len(text) = Len(ideal)
  /\ \A i \in 1..Len(text) :
       /\ text[i] \in {ideal[i], "bad"}
       /\ text[i] = "bad" => ~EndOf(ideal[i])

LEMMA EmptyIsFramed == Framed(<<>>, <<>>, <<>>)
<1>1. Cuts([k \in 0..0 |-> 0], <<>>, <<>>, <<>>)
  BY DEF Cuts, Left
<1>. QED  BY <1>1 DEF Framed

\* A line stays a line when more text follows.
LEMMA PieceGrows ==
  ASSUME NEW text \in Seq(Units), NEW more \in Seq(Units), NEW frame, NEW from, NEW to,
         Piece(frame, text, from, to)
  PROVE  Piece(frame, text \o more, from, to)
<1>. DEFINE t == text \o more
<1>1. /\ Len(text) \in Nat /\ Len(more) \in Nat /\ Len(t) = Len(text) + Len(more)
      /\ \A i \in 1..Len(text) : t[i] = text[i]
  BY LenProperties, ConcatProperties
<1>2. /\ from \in 0..Len(text) /\ to \in 1..Len(text) /\ from < to
      /\ Firm(text, to) /\ frame \in Frames /\ frame.end = text[to]
      /\ \A i \in (from + 1)..(to - 1) :
           EndOf(text[i]) => text[i] = "cr" /\ i + 1 = to /\ text[to] = "lf"
      /\ Len(frame.line) = to - from - Short(text, from, to)
      /\ \A i \in 1..Len(frame.line) : frame.line[i] = text[from + i]
  BY DEF Piece
<1>. HIDE DEF t
<1>3. t[to] = text[to] /\ (from < to - 1 => t[to - 1] = text[to - 1])
  <2>1. to \in 1..Len(text) /\ (from < to - 1 => to - 1 \in 1..Len(text))
    <3>1. from \in 0..Len(text) /\ to \in 1..Len(text) /\ Len(text) \in Nat
      BY <1>1, <1>2
    <3>. QED  BY <3>1
  <2>. QED  BY <1>1, <2>1
<1>4. Short(t, from, to) = Short(text, from, to)
  BY <1>3 DEF Short, Paired
<1>5. Firm(t, to)
  <2>1. to < Len(text) => to < Len(t) /\ to + 1 \in 1..Len(text)
    BY <1>1, <1>2
  <2>. QED  BY <1>1, <1>2, <1>3, <2>1 DEF Firm
<1>6. \A i \in (from + 1)..(to - 1) : t[i] = text[i]
  BY <1>1, <1>2
<1>7. Len(frame.line) \in Nat /\ Short(text, from, to) \in {1, 2}
  BY <1>2 DEF Frames, Short
<1>8. \A i \in 1..Len(frame.line) : t[from + i] = text[from + i]
  <2>. SUFFICES ASSUME NEW i \in 1..Len(frame.line) PROVE t[from + i] = text[from + i]
    OBVIOUS
  <2>1. from + i \in 1..Len(text)
    BY <1>1, <1>2, <1>7
  <2>. QED  BY <1>1, <2>1
<1>9. from \in 0..Len(t) /\ to \in 1..Len(t)
  BY <1>1, <1>2
<1>10. Piece(frame, t, from, to)
  BY <1>2, <1>3, <1>4, <1>5, <1>6, <1>8, <1>9 DEF Piece
<1>. QED  BY <1>10 DEF t

LEMMA FramedGrows ==
  ASSUME NEW given, NEW rest, NEW text, Framed(given, rest, text), NEW more \in Seq(Units)
  PROVE  Framed(given, rest \o more, text \o more)
<1>. DEFINE t == text \o more
            r == rest \o more
            n == Len(given)
<1>1. PICK cut : Cuts(cut, given, rest, text)
  BY DEF Framed
<1>2. given \in Seq(Frames) /\ rest \in Seq(Units) /\ text \in Seq(Units) /\ n \in Nat
  BY DEF Framed
<1>3. /\ Len(text) \in Nat /\ Len(more) \in Nat /\ Len(t) = Len(text) + Len(more)
      /\ t \in Seq(Units)
      /\ \A i \in 1..(Len(text) + Len(more)) :
           t[i] = IF i <= Len(text) THEN text[i] ELSE more[i - Len(text)]
  BY <1>2, LenProperties, ConcatProperties
<1>4. /\ Len(rest) \in Nat /\ Len(r) = Len(rest) + Len(more) /\ r \in Seq(Units)
      /\ \A i \in 1..(Len(rest) + Len(more)) :
           r[i] = IF i <= Len(rest) THEN rest[i] ELSE more[i - Len(rest)]
  BY <1>2, LenProperties, ConcatProperties
<1>5. \A k \in 1..n : Piece(given[k], t, cut[k - 1], cut[k])
  BY <1>1, <1>2, PieceGrows DEF Cuts
<1>6. Left(rest, text, cut[n])
  BY <1>1 DEF Cuts
<1>. HIDE DEF t, r, n
<1>7. Left(r, t, cut[n])
  <2>. DEFINE c == cut[n]
  <2>1. c \in 0..Len(text) /\ Len(rest) = Len(text) - c
        /\ \A i \in 1..Len(rest) : rest[i] = text[c + i]
    BY <1>6 DEF Left
  <2>. HIDE DEF c
  <2>2. c \in 0..Len(t) /\ Len(r) = Len(t) - c
    BY <1>3, <1>4, <2>1
  <2>3. ASSUME NEW i \in 1..Len(r) PROVE r[i] = t[c + i]
    <3>1. i \in 1..(Len(rest) + Len(more)) /\ c + i \in 1..(Len(text) + Len(more))
      BY <1>3, <1>4, <2>1
    <3>2. CASE i <= Len(rest)
      <4>1. i \in 1..Len(rest) /\ c + i <= Len(text)
        BY <1>3, <1>4, <2>1, <3>2
      <4>. QED  BY <1>3, <1>4, <2>1, <3>1, <4>1
    <3>3. CASE ~(i <= Len(rest))
      <4>1. ~(c + i <= Len(text)) /\ (c + i) - Len(text) = i - Len(rest)
        BY <1>3, <1>4, <2>1, <3>3
      <4>. QED  BY <1>3, <1>4, <3>1, <3>3, <4>1
    <3>. QED  BY <3>2, <3>3
  <2>. QED  BY <1>4, <2>2, <2>3 DEF Left, c
<1>8. cut \in [0..n -> 0..Len(t)] /\ cut[0] = 0
  <2>1. cut \in [0..n -> 0..Len(text)] /\ cut[0] = 0
    BY <1>1 DEF Cuts, n
  <2>2. 0..Len(text) \subseteq 0..Len(t)
    BY <1>3
  <2>. QED  BY <2>1, <2>2
<1>9. Cuts(cut, given, r, t)
  BY <1>5, <1>7, <1>8 DEF Cuts, n
<1>. QED  BY <1>2, <1>3, <1>4, <1>9 DEF Framed, r, t

-----------------------------------------------------------------------------
(* One round of the loop.                                                  *)

Scans == [frames: Seq(Frames), pending: Seq(Units)]

\* The first end of line, if there is one.
LEMMA FirstEnd ==
  ASSUME NEW text \in Seq(Units), NEW ends, ends = {i \in DOMAIN text : text[i] \in {"cr", "lf"}},
         ends # {}
  PROVE  /\ Min(ends) \in 1..Len(text) /\ EndOf(text[Min(ends)])
         /\ \A i \in 1..(Min(ends) - 1) : ~EndOf(text[i])
<1>1. Len(text) \in Nat /\ DOMAIN text = 1..Len(text)
  BY LenProperties
<1>2. ends \in SUBSET Nat
  BY <1>1
<1>3. \E x \in ends : \A y \in ends : x <= y
  BY <1>2, Least
<1>. DEFINE m == Min(ends)
<1>4. m \in ends /\ \A y \in ends : m <= y
  BY <1>3 DEF Min
<1>. HIDE DEF m
<1>5. m \in 1..Len(text) /\ text[m] \in {"cr", "lf"}
  BY <1>1, <1>4
<1>6. ASSUME NEW i \in 1..(m - 1) PROVE ~EndOf(text[i])
  <2>1. i \in DOMAIN text /\ ~(m <= i)
    BY <1>1, <1>5
  <2>. QED  BY <1>4, <2>1 DEF EndOf
<1>. QED  BY <1>5, <1>6 DEF m, EndOf

\* A round changes nothing, and then nothing can be given out, or it takes the
\* first line out of the text.
LEMMA SplitIs ==
  ASSUME NEW scan \in Scans
  PROVE  \/ Split[scan] = scan /\ Quiet(scan.pending)
         \/ \E e \in 1..Len(scan.pending), frame \in Frames :
              /\ Piece(frame, scan.pending, 0, e)
              /\ Split[scan] =
                   [frames  |-> Append(scan.frames, frame),
                    pending |-> SubSeq(scan.pending, e + 1, Len(scan.pending))]
<1>. DEFINE text == scan.pending
            ends == {i \in DOMAIN text : text[i] \in {"cr", "lf"}}
            at   == Min(ends)
            crlf == text[at] = "cr" /\ text[at + 1] = "lf"
            frame == Frame(SubSeq(text, 1, at - 1), IF crlf THEN "lf" ELSE text[at])
            e == at + (IF crlf THEN 1 ELSE 0)
<1>1. text \in Seq(Units) /\ Len(text) \in Nat /\ DOMAIN text = 1..Len(text)
  BY LenProperties DEF Scans
<1>2. Split[scan] =
        IF ends = {} \/ (text[at] = "cr" /\ at = Len(text)) THEN scan
        ELSE [frames  |-> Append(scan.frames, frame),
              pending |-> SubSeq(text, at + (IF crlf THEN 2 ELSE 1), Len(text))]
  BY DEF Split, Scans
<1>. HIDE DEF text
<1>3. CASE ends = {}
  <2>1. Quiet(text)
    BY <1>1, <1>3 DEF Quiet, EndOf
  <2>. QED  BY <1>2, <1>3, <2>1 DEF text
<1>4. CASE ends # {}
  <2>. HIDE DEF ends
  <2>1. at \in 1..Len(text) /\ EndOf(text[at]) /\ \A i \in 1..(at - 1) : ~EndOf(text[i])
    BY <1>1, <1>4, FirstEnd DEF ends
  <2>. HIDE DEF at
  <2>2. CASE text[at] = "cr" /\ at = Len(text)
    <3>1. \A i \in 1..Len(text) : i \in 1..(at - 1) \/ i = at
      <4>1. at = Len(text) /\ Len(text) \in Nat
        BY <1>1, <2>2
      <4>. QED  BY <4>1
    <3>2. Quiet(text)
      BY <2>1, <2>2, <3>1 DEF Quiet
    <3>. QED  BY <1>2, <2>2, <3>2 DEF text
  <2>3. CASE ~(text[at] = "cr" /\ at = Len(text))
    <3>1. Split[scan] =
            [frames  |-> Append(scan.frames, frame),
             pending |-> SubSeq(text, at + (IF crlf THEN 2 ELSE 1), Len(text))]
      BY <1>2, <1>4, <2>3
    <3>2. text[at] = "cr" => at < Len(text)
      <4>1. at \in 1..Len(text) /\ Len(text) \in Nat
        BY <1>1, <2>1
      <4>. QED  BY <2>3, <4>1
    <3>3. e \in 1..Len(text) /\ at + (IF crlf THEN 2 ELSE 1) = e + 1
      BY <1>1, <2>1, <3>2
    <3>4. text[e] = IF crlf THEN "lf" ELSE text[at]
      BY <1>1, <2>1
    <3>5. Firm(text, e)
      BY <1>1, <2>1, <3>2 DEF Firm, EndOf
    <3>6. \A i \in 1..(e - 1) : EndOf(text[i]) => text[i] = "cr" /\ i + 1 = e /\ text[e] = "lf"
      <4>. SUFFICES ASSUME NEW i \in 1..(e - 1), EndOf(text[i])
                    PROVE  text[i] = "cr" /\ i + 1 = e /\ text[e] = "lf"
        OBVIOUS
      <4>1. i \notin 1..(at - 1)
        BY <2>1
      <4>2. crlf /\ i = at
        BY <1>1, <2>1, <4>1
      <4>. QED  BY <2>1, <3>4, <4>2
    <3>7. /\ SubSeq(text, 1, at - 1) \in Seq(Units)
          /\ Len(SubSeq(text, 1, at - 1)) = at - 1
          /\ \A i \in 1..(at - 1) : SubSeq(text, 1, at - 1)[i] = text[i]
      <4>1. \A i \in 1..(at - 1) : text[i] \in Units
        BY <1>1, <2>1, ElementOfSeq
      <4>2. 1 \in Int /\ at - 1 \in Int
        BY <2>1
      <4>3. /\ SubSeq(text, 1, at - 1) \in Seq(Units)
            /\ Len(SubSeq(text, 1, at - 1)) = IF 1 <= at - 1 THEN (at - 1) - 1 + 1 ELSE 0
            /\ \A i \in 1..((at - 1) - 1 + 1) : SubSeq(text, 1, at - 1)[i] = text[1 + i - 1]
        BY <4>1, <4>2, SubSeqProperties
      <4>4. (at - 1) - 1 + 1 = at - 1
        BY <2>1
      <4>. QED  BY <2>1, <4>3, <4>4
    <3>8. frame \in Frames /\ frame.end = text[e] /\ frame.line = SubSeq(text, 1, at - 1)
      BY <2>1, <3>4, <3>7 DEF Frame, Frames, EndOf
    <3>9. Short(text, 0, e) = IF crlf THEN 2 ELSE 1
      <4>1. CASE crlf
        <5>1. e = at + 1 /\ text[e] = "lf" /\ text[e - 1] = "cr"
          BY <2>1, <3>4, <4>1
        <5>. QED  BY <2>1, <4>1, <5>1 DEF Short, Paired
      <4>2. CASE ~crlf
        <5>1. e = at
          BY <2>1, <4>2
        <5>2. 0 < at - 1 => ~EndOf(text[at - 1])
          BY <2>1
        <5>. QED  BY <4>2, <5>1, <5>2 DEF Short, Paired, EndOf
      <4>. QED  BY <4>1, <4>2
    <3>10. Len(frame.line) = e - 0 - Short(text, 0, e)
      BY <2>1, <3>7, <3>8, <3>9
    <3>11. \A i \in 1..Len(frame.line) : frame.line[i] = text[0 + i]
      BY <2>1, <3>7, <3>8
    <3>. HIDE DEF frame, e
    <3>12. Piece(frame, text, 0, e)
      <4>1. 0 \in 0..Len(text) /\ 0 < e /\ 0 + 1 = 1
        BY <1>1, <3>3
      <4>. QED  BY <3>3, <3>5, <3>6, <3>8, <3>10, <3>11, <4>1 DEF Piece
    <3>. QED  BY <3>1, <3>3, <3>8, <3>12 DEF text
  <2>. QED  BY <2>2, <2>3
<1>. QED  BY <1>3, <1>4

\* A line of what is left is a line of the text.
LEMMA PieceOfLeft ==
  ASSUME NEW text \in Seq(Units), NEW rest, NEW from, Left(rest, text, from),
         NEW frame, NEW to, Piece(frame, rest, 0, to)
  PROVE  Piece(frame, text, from, from + to)
<1>1. /\ Len(text) \in Nat /\ from \in 0..Len(text) /\ Len(rest) = Len(text) - from
      /\ \A i \in 1..Len(rest) : rest[i] = text[from + i]
  BY LenProperties DEF Left
<1>2. /\ to \in 1..Len(rest) /\ Firm(rest, to) /\ frame \in Frames /\ frame.end = rest[to]
      /\ \A i \in 1..(to - 1) : EndOf(rest[i]) => rest[i] = "cr" /\ i + 1 = to /\ rest[to] = "lf"
      /\ Len(frame.line) = to - Short(rest, 0, to)
      /\ \A i \in 1..Len(frame.line) : frame.line[i] = rest[i]
  <2>1. 0 + 1 = 1 /\ to - 0 = to /\ \A i \in Nat : 0 + i = i
    BY DEF Piece
  <2>2. Len(frame.line) \in Nat
    BY DEF Piece, Frames
  <2>3. \A i \in 1..Len(frame.line) : i \in Nat
    BY <2>2
  <2>. QED  BY <2>1, <2>3 DEF Piece
<1>3. from + to \in 1..Len(text) /\ rest[to] = text[from + to]
  BY <1>1, <1>2
<1>4. 0 < to - 1 => rest[to - 1] = text[(from + to) - 1]
  <2>1. 0 < to - 1 => to - 1 \in 1..Len(rest) /\ from + (to - 1) = (from + to) - 1
    <3>1. to \in 1..Len(rest) /\ Len(rest) \in Nat /\ from \in Nat
      BY <1>1, <1>2
    <3>. QED  BY <3>1
  <2>. QED  BY <1>1, <2>1
<1>5. Short(text, from, from + to) = Short(rest, 0, to)
  <2>1. from < (from + to) - 1 <=> 0 < to - 1
    BY <1>1, <1>2
  <2>. QED  BY <1>3, <1>4, <2>1 DEF Short, Paired
<1>6. Firm(text, from + to)
  <2>1. to < Len(rest) => /\ from + to < Len(text) /\ rest[to + 1] = text[(from + to) + 1]
    <3>1. to < Len(rest) => to + 1 \in 1..Len(rest) /\ from + (to + 1) = (from + to) + 1
      BY <1>1, <1>2
    <3>. QED  BY <1>1, <1>2, <3>1
  <2>. QED  BY <1>2, <1>3, <2>1 DEF Firm
<1>7. ASSUME NEW i \in (from + 1)..((from + to) - 1), EndOf(text[i])
      PROVE  text[i] = "cr" /\ i + 1 = from + to /\ text[from + to] = "lf"
  <2>1. i - from \in 1..(to - 1) /\ i - from \in 1..Len(rest) /\ from + (i - from) = i
    BY <1>1, <1>2
  <2>2. rest[i - from] = text[i]
    BY <1>1, <2>1
  <2>3. rest[i - from] = "cr" /\ (i - from) + 1 = to /\ rest[to] = "lf"
    BY <1>2, <1>7, <2>1, <2>2
  <2>. QED  BY <1>1, <1>3, <2>1, <2>2, <2>3
<1>8. Short(rest, 0, to) \in {1, 2} /\ Len(frame.line) \in Nat
  BY <1>2 DEF Short, Frames
<1>9. \A i \in 1..Len(frame.line) : frame.line[i] = text[from + i]
  <2>. SUFFICES ASSUME NEW i \in 1..Len(frame.line) PROVE frame.line[i] = text[from + i]
    OBVIOUS
  <2>1. i \in 1..Len(rest)
    BY <1>1, <1>2, <1>8
  <2>. QED  BY <1>1, <1>2, <2>1
<1>10. Len(frame.line) = (from + to) - from - Short(text, from, from + to)
  BY <1>1, <1>2, <1>5, <1>8
<1>11. from < from + to
  BY <1>1, <1>2
<1>. QED  BY <1>1, <1>2, <1>3, <1>6, <1>7, <1>9, <1>10, <1>11 DEF Piece

\* The first line of what is left goes behind the frames.
LEMMA FramedTakes ==
  ASSUME NEW given, NEW rest, NEW text, Framed(given, rest, text),
         NEW frame, NEW e, Piece(frame, rest, 0, e)
  PROVE  Framed(Append(given, frame), SubSeq(rest, e + 1, Len(rest)), text)
<1>. DEFINE n == Len(given)
            more == Append(given, frame)
            behind == SubSeq(rest, e + 1, Len(rest))
<1>1. PICK cut : Cuts(cut, given, rest, text)
  BY DEF Framed
<1>2. /\ given \in Seq(Frames) /\ rest \in Seq(Units) /\ text \in Seq(Units)
      /\ n \in Nat /\ Len(rest) \in Nat /\ Len(text) \in Nat
  BY LenProperties DEF Framed
<1>3. /\ frame \in Frames /\ e \in 1..Len(rest)
  BY DEF Piece
<1>4. /\ more \in Seq(Frames) /\ Len(more) = n + 1
      /\ \A k \in 1..n : more[k] = given[k]
      /\ more[n + 1] = frame
  BY <1>2, <1>3, AppendProperties
<1>5. /\ cut \in [0..n -> 0..Len(text)] /\ cut[0] = 0
      /\ \A k \in 1..n : Piece(given[k], text, cut[k - 1], cut[k])
      /\ Left(rest, text, cut[n])
  BY <1>1 DEF Cuts
<1>6. /\ behind \in Seq(Units) /\ Len(behind) = Len(rest) - e
      /\ \A i \in 1..(Len(rest) - e) : behind[i] = rest[e + i]
  <2>1. \A i \in (e + 1)..Len(rest) : rest[i] \in Units
    <3>1. \A i \in (e + 1)..Len(rest) : i \in 1..Len(rest)
      BY <1>2, <1>3
    <3>. QED  BY <1>2, <3>1, ElementOfSeq
  <2>2. e + 1 \in Int /\ Len(rest) \in Int
    BY <1>2, <1>3
  <2>3. /\ behind \in Seq(Units)
        /\ Len(behind) = IF e + 1 <= Len(rest) THEN Len(rest) - (e + 1) + 1 ELSE 0
        /\ \A i \in 1..(Len(rest) - (e + 1) + 1) : behind[i] = rest[(e + 1) + i - 1]
    BY <2>1, <2>2, SubSeqProperties
  <2>4. Len(rest) - (e + 1) + 1 = Len(rest) - e
    BY <1>2, <1>3
  <2>5. \A i \in 1..(Len(rest) - e) : (e + 1) + i - 1 = e + i
    BY <1>2, <1>3
  <2>. HIDE DEF behind
  <2>6. Len(behind) = Len(rest) - e
    BY <1>2, <1>3, <2>3
  <2>. QED  BY <2>3, <2>4, <2>5, <2>6
<1>. DEFINE new == [k \in 0..(n + 1) |-> IF k = n + 1 THEN cut[n] + e ELSE cut[k]]
<1>. HIDE DEF n, more, behind
<1>7. /\ cut[n] \in 0..Len(text) /\ cut[n] + e \in 0..Len(text)
      /\ Len(rest) = Len(text) - cut[n]
      /\ \A i \in 1..Len(rest) : rest[i] = text[cut[n] + i]
  <2>1. /\ cut[n] \in 0..Len(text) /\ Len(rest) = Len(text) - cut[n]
        /\ \A i \in 1..Len(rest) : rest[i] = text[cut[n] + i]
    BY <1>5 DEF Left
  <2>2. cut[n] + e \in 0..Len(text)
    BY <1>2, <1>3, <2>1
  <2>. QED  BY <2>1, <2>2
<1>8. /\ new \in [0..(n + 1) -> 0..Len(text)] /\ new[n + 1] = cut[n] + e
      /\ \A k \in 0..n : new[k] = cut[k]
  <2>1. \A k \in 0..(n + 1) : k # n + 1 => k \in 0..n
    BY <1>2
  <2>2. \A k \in 0..n : k \in 0..(n + 1) /\ k # n + 1
    BY <1>2
  <2>3. n + 1 \in 0..(n + 1)
    BY <1>2
  <2>. QED  BY <1>5, <1>7, <2>1, <2>2, <2>3
<1>. HIDE DEF new
<1>9. Piece(frame, text, cut[n], cut[n] + e)
  BY <1>2, <1>5, PieceOfLeft
<1>10. ASSUME NEW k \in 1..(n + 1) PROVE Piece(more[k], text, new[k - 1], new[k])
  <2>1. CASE k = n + 1
    <3>1. k - 1 = n /\ n \in 0..n
      BY <1>2, <2>1
    <3>. QED  BY <1>4, <1>8, <1>9, <2>1, <3>1
  <2>2. CASE k # n + 1
    <3>1. k \in 1..n /\ k - 1 \in 0..n /\ k \in 0..n
      BY <1>2, <2>2
    <3>. QED  BY <1>4, <1>5, <1>8, <3>1
  <2>. QED  BY <2>1, <2>2
<1>11. Left(behind, text, new[n + 1])
  <2>1. Len(behind) = Len(text) - (cut[n] + e)
    BY <1>2, <1>3, <1>6, <1>7
  <2>2. ASSUME NEW i \in 1..Len(behind) PROVE behind[i] = text[(cut[n] + e) + i]
    <3>1. i \in 1..(Len(rest) - e) /\ e + i \in 1..Len(rest)
      BY <1>2, <1>3, <1>6
    <3>2. cut[n] + (e + i) = (cut[n] + e) + i
      BY <1>3, <1>7, <3>1
    <3>. QED  BY <1>6, <1>7, <3>1, <3>2
  <2>. QED  BY <1>6, <1>7, <1>8, <2>1, <2>2 DEF Left
<1>12. new[0] = 0
  <2>1. 0 \in 0..n
    BY <1>2
  <2>. QED  BY <1>5, <1>8, <2>1
<1>13. Cuts(new, more, behind, text)
  BY <1>4, <1>8, <1>10, <1>11, <1>12 DEF Cuts
<1>. QED  BY <1>2, <1>4, <1>6, <1>13 DEF Framed, more, behind

-----------------------------------------------------------------------------
(* The whole loop.                                                         *)

\* What the text is after each of the first n rounds.
Rounds(f, text, n) ==
  f = [i \in 0..n |-> IF i = 0 THEN [frames |-> <<>>, pending |-> text] ELSE Split[f[i - 1]]]

LEMMA RoundsExist == ASSUME NEW text PROVE \A n \in Nat : \E f : Rounds(f, text, n)
<1>. DEFINE T == {n \in Nat : \E f : Rounds(f, text, n)}
            start == [frames |-> <<>>, pending |-> text]
<1>. HIDE DEF start
<1>1. 0 \in T
  <2>1. Rounds([i \in 0..0 |-> start], text, 0)
    BY DEF Rounds, start
  <2>. QED  BY <2>1
<1>2. ASSUME NEW n \in T PROVE n + 1 \in T
  <2>1. PICK f : Rounds(f, text, n)
    BY <1>2
  <2>. DEFINE g == [i \in 0..(n + 1) |-> IF i = 0 THEN start ELSE Split[f[i - 1]]]
  <2>2. f = [i \in 0..n |-> IF i = 0 THEN start ELSE Split[f[i - 1]]]
    BY <2>1 DEF Rounds, start
  <2>3. \A i \in 0..n : g[i] = f[i]
    <3>. SUFFICES ASSUME NEW i \in 0..n PROVE g[i] = f[i]
      OBVIOUS
    <3>1. f[i] = IF i = 0 THEN start ELSE Split[f[i - 1]]
      BY <2>2
    <3>. QED  BY <3>1
  <2>4. g = [i \in 0..(n + 1) |-> IF i = 0 THEN start ELSE Split[g[i - 1]]]
    <3>. SUFFICES ASSUME NEW i \in 0..(n + 1)
                  PROVE  g[i] = IF i = 0 THEN start ELSE Split[g[i - 1]]
      OBVIOUS
    <3>1. i # 0 => i - 1 \in 0..n
      OBVIOUS
    <3>. QED  BY <2>3, <3>1
  <2>. HIDE DEF g
  <2>5. Rounds(g, text, n + 1)
    BY <2>4 DEF Rounds, start
  <2>. QED  BY <2>5
<1>3. T = Nat
  <2>. HIDE DEF T
  <2>1. T \in SUBSET Nat
    BY DEF T
  <2>. QED  BY <1>1, <1>2, <2>1, Induction
<1>. QED  BY <1>3

LEMMA AppendBehind ==
  ASSUME NEW a \in Seq(Frames), NEW b \in Seq(Frames), NEW x \in Frames
  PROVE  Append(a \o b, x) = a \o Append(b, x)
<1>. DEFINE one == <<x>>
<1>1. one \in Seq(Frames) /\ a \o b \in Seq(Frames)
  BY ConcatProperties
<1>2. Append(a \o b, x) = (a \o b) \o one /\ Append(b, x) = b \o one
  BY <1>1, AppendIsConcat
<1>. HIDE DEF one
<1>3. (a \o b) \o one = a \o (b \o one)
  BY <1>1, ConcatAssociative
<1>. QED  BY <1>2, <1>3

\* The state of the loop: the frames of this text go behind those given before,
\* and what is pending gets shorter unless nothing more can be given out.
Scanned(scan, given, text, length) ==
  /\ scan \in Scans /\ Framed(given \o scan.frames, scan.pending, text)
  /\ Quiet(scan.pending) \/ Len(scan.pending) <= length

LEMMA RoundKeeps ==
  ASSUME NEW given \in Seq(Frames), NEW scan, NEW text, NEW length \in Nat,
         Scanned(scan, given, text, length + 1)
  PROVE  Scanned(Split[scan], given, text, length)
<1>. DEFINE p == scan.pending
<1>1. /\ scan \in Scans /\ scan.frames \in Seq(Frames) /\ p \in Seq(Units) /\ Len(p) \in Nat
      /\ Framed(given \o scan.frames, p, text)
  BY LenProperties DEF Scanned, Scans
<1>2. CASE Split[scan] = scan /\ Quiet(p)
  BY <1>2 DEF Scanned
<1>3. ASSUME NEW e \in 1..Len(p), NEW frame \in Frames, Piece(frame, p, 0, e),
             Split[scan] = [frames  |-> Append(scan.frames, frame),
                            pending |-> SubSeq(p, e + 1, Len(p))]
      PROVE  Scanned(Split[scan], given, text, length)
  <2>. HIDE DEF p
  <2>1. Append(given \o scan.frames, frame) = given \o Append(scan.frames, frame)
    <3>. DEFINE old == scan.frames
    <3>1. old \in Seq(Frames)
      BY <1>1
    <3>. HIDE DEF old
    <3>2. Append(given \o old, frame) = given \o Append(old, frame)
      BY <3>1, AppendBehind
    <3>. QED  BY <3>2 DEF old
  <2>2. Framed(given \o Append(scan.frames, frame), SubSeq(p, e + 1, Len(p)), text)
    BY <1>1, <1>3, <2>1, FramedTakes
  <2>3. Append(scan.frames, frame) \in Seq(Frames) /\ SubSeq(p, e + 1, Len(p)) \in Seq(Units)
    BY <1>1, <2>2, AppendProperties DEF Framed
  <2>4. Quiet(SubSeq(p, e + 1, Len(p))) \/ Len(SubSeq(p, e + 1, Len(p))) <= length
    <3>1. CASE Quiet(p)
      <4>1. Firm(p, e) /\ EndOf(p[e])
        BY <1>3 DEF Piece, Firm, EndOf
      <4>2. p[e] = "cr" /\ e = Len(p)
        BY <3>1, <4>1 DEF Quiet
      <4>. QED  BY <1>1, <4>1, <4>2 DEF Firm
    <3>2. CASE Len(p) <= length + 1
      <4>1. \A i \in (e + 1)..Len(p) : p[i] \in Units
        <5>1. \A i \in (e + 1)..Len(p) : i \in 1..Len(p)
          BY <1>1
        <5>. QED  BY <1>1, <5>1, ElementOfSeq
      <4>2. Len(SubSeq(p, e + 1, Len(p))) =
              IF e + 1 <= Len(p) THEN Len(p) - (e + 1) + 1 ELSE 0
        <5>1. e + 1 \in Int /\ Len(p) \in Int
          BY <1>1
        <5>. QED  BY <4>1, <5>1, SubSeqProperties
      <4>. QED  BY <1>1, <3>2, <4>2
    <3>. QED  BY <3>1, <3>2 DEF Scanned, p
  <2>. QED  BY <1>3, <2>2, <2>3, <2>4 DEF Scanned, Scans
<1>. QED  BY <1>1, <1>2, <1>3, SplitIs

\* The loop gives out all the lines that are over.
LEMMA ScanFrames ==
  ASSUME NEW given, NEW rest, NEW text, Framed(given, rest, text)
  PROVE  /\ Scan(rest) \in Scans
         /\ Framed(given \o Scan(rest).frames, Scan(rest).pending, text)
         /\ Quiet(Scan(rest).pending)
<1>. DEFINE n == Len(rest)
            f == CHOOSE g : Rounds(g, rest, n)
            T == {i \in Nat : i <= n => Scanned(f[i], given, text, n - i)}
<1>1. given \in Seq(Frames) /\ rest \in Seq(Units) /\ n \in Nat
  BY LenProperties DEF Framed
<1>2. Rounds(f, rest, n)
  BY <1>1, RoundsExist
<1>3. Scan(rest) = f[n]
  BY DEF Scan, Rounds
<1>. HIDE DEF f
<1>4. /\ f[0] = [frames |-> <<>>, pending |-> rest]
      /\ \A i \in 1..n : f[i] = Split[f[i - 1]]
  <2>1. f = [i \in 0..n |-> IF i = 0 THEN [frames |-> <<>>, pending |-> rest]
                            ELSE Split[f[i - 1]]]
    BY <1>2 DEF Rounds
  <2>. HIDE DEF n
  <2>2. 0 \in 0..n /\ \A i \in 1..n : i \in 0..n /\ i # 0
    BY <1>1
  <2>. QED  BY <2>1, <2>2
<1>. HIDE DEF n
<1>5. 0 \in T
  <2>1. given \o <<>> = given
    BY <1>1, ConcatEmptySeq
  <2>2. n - 0 = n /\ n <= n
    BY <1>1
  <2>3. Scanned(f[0], given, text, n)
    BY <1>1, <1>4, <2>1, <2>2 DEF Scanned, Scans, n
  <2>. QED  BY <2>2, <2>3
<1>6. ASSUME NEW i \in T PROVE i + 1 \in T
  <2>. SUFFICES ASSUME i + 1 <= n PROVE Scanned(f[i + 1], given, text, n - (i + 1))
    OBVIOUS
  <2>1. Scanned(f[i], given, text, n - i) /\ i \in Nat
    BY <1>1, <1>6
  <2>2. f[i + 1] = Split[f[i]]
    <3>1. i + 1 \in 1..n /\ (i + 1) - 1 = i
      BY <1>1, <2>1
    <3>. QED  BY <1>4, <3>1
  <2>3. n - (i + 1) \in Nat /\ (n - (i + 1)) + 1 = n - i
    BY <1>1, <2>1
  <2>. QED  BY <1>1, <2>1, <2>2, <2>3, RoundKeeps
<1>7. T = Nat
  <2>. HIDE DEF T
  <2>1. T \in SUBSET Nat
    BY DEF T
  <2>. QED  BY <1>5, <1>6, <2>1, Induction
<1>8. Scanned(f[n], given, text, 0)
  <2>1. n \in T /\ n <= n /\ n - n = 0
    BY <1>1, <1>7
  <2>. QED  BY <2>1
<1>9. Quiet(f[n].pending)
  <2>1. f[n].pending \in Seq(Units)
    BY <1>8 DEF Scanned, Scans
  <2>2. CASE Len(f[n].pending) <= 0
    <3>1. Len(f[n].pending) = 0
      BY <2>1, <2>2, LenProperties
    <3>. QED  BY <3>1 DEF Quiet
  <2>. QED  BY <1>8, <2>2 DEF Scanned
<1>. QED  BY <1>3, <1>8, <1>9 DEF Scanned

-----------------------------------------------------------------------------
(* Decoding, and what the frames tell.                                     *)

\* A half is paired with the other half beside it.
Whole(data, i) == \/ data[i] = "lead" /\ i < Len(data) /\ data[i + 1] = "trail"
                  \/ data[i] = "trail" /\ i > 1 /\ data[i - 1] = "lead"

LEMMA DecodedIs ==
  ASSUME NEW data \in Seq(Bytes)
  PROVE  /\ Decoded(data) \in Seq(Units) /\ Len(Decoded(data)) = Len(data)
         /\ \A i \in 1..Len(data) :
              Decoded(data)[i] = IF EndOf(data[i]) \/ Whole(data, i) THEN data[i] ELSE "bad"
<1>. DEFINE d == [i \in 1..Len(data) |->
                    IF EndOf(data[i]) \/ Whole(data, i) THEN data[i] ELSE "bad"]
<1>1. Len(data) \in Nat /\ DOMAIN data = 1..Len(data)
      /\ \A i \in 1..Len(data) : data[i] \in Bytes
  BY LenProperties
<1>2. Decoded(data) = d
  BY <1>1 DEF Decoded, EndOf, Whole
<1>3. \A i \in 1..Len(data) : d[i] \in Units
  BY <1>1 DEF Units
<1>4. d \in Seq(Units) /\ Len(d) = Len(data)
  <2>1. d \in [1..Len(data) -> Units]
    BY <1>3
  <2>. HIDE DEF d
  <2>. QED  BY <1>1, <2>1
<1>. QED  BY <1>2, <1>4

\* What was read before and what is read now, each decoded for itself, is the
\* whole decoded, but for a character torn between them.
LEMMA TornMore ==
  ASSUME NEW text, NEW old \in Seq(Bytes), NEW new \in Seq(Bytes), NEW all,
         all = old \o new, Torn(text, Decoded(old))
  PROVE  Torn(text \o Decoded(new), Decoded(all))
<1>. DEFINE more == Decoded(new)
            t == text \o more
            ideal == Decoded(all)
<1>1. /\ all \in Seq(Bytes) /\ Len(old) \in Nat /\ Len(new) \in Nat
      /\ Len(all) = Len(old) + Len(new)
      /\ \A i \in 1..(Len(old) + Len(new)) :
           all[i] = IF i <= Len(old) THEN old[i] ELSE new[i - Len(old)]
  BY LenProperties, ConcatProperties
<1>2. /\ more \in Seq(Units) /\ Len(more) = Len(new)
      /\ \A i \in 1..Len(new) :
           more[i] = IF EndOf(new[i]) \/ Whole(new, i) THEN new[i] ELSE "bad"
  BY DecodedIs
<1>3. /\ ideal \in Seq(Units) /\ Len(ideal) = Len(all)
      /\ \A i \in 1..Len(all) :
           ideal[i] = IF EndOf(all[i]) \/ Whole(all, i) THEN all[i] ELSE "bad"
  BY <1>1, DecodedIs
<1>4. /\ text \in Seq(Units) /\ Len(text) = Len(old)
      /\ \A i \in 1..Len(old) :
           /\ text[i] \in {IF EndOf(old[i]) \/ Whole(old, i) THEN old[i] ELSE "bad", "bad"}
           /\ text[i] = "bad" => ~EndOf(old[i])
  <2>1. /\ Len(Decoded(old)) = Len(old)
        /\ \A i \in 1..Len(old) :
             Decoded(old)[i] = IF EndOf(old[i]) \/ Whole(old, i) THEN old[i] ELSE "bad"
    BY DecodedIs
  <2>2. /\ text \in Seq(Units) /\ Len(text) = Len(Decoded(old))
        /\ \A i \in 1..Len(text) :
             /\ text[i] \in {Decoded(old)[i], "bad"}
             /\ text[i] = "bad" => ~EndOf(Decoded(old)[i])
    BY DEF Torn
  <2>. QED  BY <2>1, <2>2
<1>. HIDE DEF more, ideal
<1>5. /\ t \in Seq(Units) /\ Len(t) = Len(old) + Len(new)
      /\ \A i \in 1..(Len(old) + Len(new)) :
           t[i] = IF i <= Len(old) THEN text[i] ELSE more[i - Len(old)]
  BY <1>2, <1>4, ConcatProperties
<1>. HIDE DEF t
<1>6. ASSUME NEW i \in 1..Len(t)
      PROVE  /\ t[i] \in {ideal[i], "bad"}
             /\ t[i] = "bad" => ~EndOf(ideal[i])
  <2>0. i \in 1..(Len(old) + Len(new)) /\ i \in 1..Len(all)
    BY <1>1, <1>5
  <2>1. ideal[i] = IF EndOf(all[i]) \/ Whole(all, i) THEN all[i] ELSE "bad"
    BY <1>3, <2>0
  <2>2. CASE i <= Len(old)
    <3>1. i \in 1..Len(old) /\ all[i] = old[i] /\ t[i] = text[i]
      BY <1>1, <1>5, <2>0, <2>2
    <3>2. Whole(old, i) => Whole(all, i)
      <4>1. i < Len(old) => /\ i < Len(all) /\ i + 1 \in 1..(Len(old) + Len(new))
                            /\ i + 1 <= Len(old)
        BY <1>1, <3>1
      <4>2. i < Len(old) => all[i + 1] = old[i + 1]
        BY <1>1, <4>1
      <4>3. i > 1 => i - 1 \in 1..(Len(old) + Len(new)) /\ i - 1 <= Len(old)
        BY <1>1, <3>1
      <4>4. i > 1 => all[i - 1] = old[i - 1]
        BY <1>1, <4>3
      <4>. QED  BY <3>1, <4>1, <4>2, <4>4 DEF Whole
    <3>3. /\ t[i] \in {IF EndOf(all[i]) \/ Whole(old, i) THEN all[i] ELSE "bad", "bad"}
          /\ t[i] = "bad" => ~EndOf(all[i])
      BY <1>4, <3>1
    <3>. QED  BY <2>1, <3>2, <3>3 DEF EndOf
  <2>3. CASE ~(i <= Len(old))
    <3>. DEFINE j == i - Len(old)
    <3>1. j \in 1..Len(new) /\ all[i] = new[j] /\ t[i] = more[j] /\ i = Len(old) + j
      BY <1>1, <1>5, <2>0, <2>3
    <3>. HIDE DEF j
    <3>2. Whole(new, j) => Whole(all, i)
      <4>1. j < Len(new) => /\ i < Len(all) /\ i + 1 \in 1..(Len(old) + Len(new))
                            /\ ~(i + 1 <= Len(old)) /\ (i + 1) - Len(old) = j + 1
        BY <1>1, <3>1
      <4>2. j < Len(new) => all[i + 1] = new[j + 1]
        BY <1>1, <4>1
      <4>3. j > 1 => /\ i > 1 /\ i - 1 \in 1..(Len(old) + Len(new))
                     /\ ~(i - 1 <= Len(old)) /\ (i - 1) - Len(old) = j - 1
        BY <1>1, <3>1
      <4>4. j > 1 => all[i - 1] = new[j - 1]
        BY <1>1, <4>3
      <4>. QED  BY <3>1, <4>1, <4>2, <4>3, <4>4 DEF Whole
    <3>3. t[i] = IF EndOf(all[i]) \/ Whole(new, j) THEN all[i] ELSE "bad"
      BY <1>2, <3>1
    <3>. QED  BY <2>1, <3>2, <3>3 DEF EndOf
  <2>. QED  BY <2>2, <2>3
<1>7. Len(t) = Len(ideal)
  BY <1>1, <1>3, <1>5
<1>8. Torn(t, ideal)
  BY <1>3, <1>5, <1>6, <1>7 DEF Torn
<1>. QED  BY <1>8 DEF t, more, ideal

LEMMA NothingIsTorn == Torn(<<>>, Decoded(<<>>))
<1>1. <<>> \in Seq(Bytes) /\ Len(<<>>) = 0
  OBVIOUS
<1>2. Decoded(<<>>) \in Seq(Units) /\ Len(Decoded(<<>>)) = 0
  BY <1>1, DecodedIs
<1>. QED  BY <1>1, <1>2 DEF Torn

\* A line of the torn text tells the line of the ideal one.
LEMMA PieceTells ==
  ASSUME NEW text, NEW ideal, Torn(text, ideal),
         NEW frame, NEW from, NEW to, Piece(frame, text, from, to)
  PROVE  /\ to \in Breaks(ideal) /\ Tells(frame, LineOf(ideal, from, to))
         /\ \A i \in (from + 1)..(to - 1) : i \notin Breaks(ideal)
<1>1. /\ text \in Seq(Units) /\ ideal \in Seq(Units) /\ Len(text) = Len(ideal)
      /\ Len(ideal) \in Nat /\ DOMAIN ideal = 1..Len(ideal)
      /\ \A i \in 1..Len(ideal) :
           /\ ideal[i] \in Units
           /\ text[i] \in {ideal[i], "bad"}
           /\ text[i] = "bad" => ~EndOf(ideal[i])
  BY LenProperties DEF Torn
<1>2. /\ from \in 0..Len(ideal) /\ to \in 1..Len(ideal) /\ from < to
      /\ Firm(text, to) /\ frame \in Frames /\ frame.end = text[to]
      /\ \A i \in (from + 1)..(to - 1) :
           EndOf(text[i]) => text[i] = "cr" /\ i + 1 = to /\ text[to] = "lf"
      /\ Len(frame.line) = to - from - Short(text, from, to)
      /\ \A i \in 1..Len(frame.line) : frame.line[i] = text[from + i]
  BY <1>1 DEF Piece
<1>3. \A i \in 1..Len(ideal) : /\ text[i] = "cr" <=> ideal[i] = "cr"
                               /\ text[i] = "lf" <=> ideal[i] = "lf"
  BY <1>1 DEF EndOf
<1>4. to \in Breaks(ideal)
  <2>1. to < Len(ideal) => to + 1 \in 1..Len(ideal)
    BY <1>1, <1>2
  <2>. QED  BY <1>1, <1>2, <1>3, <2>1 DEF Firm, Breaks
<1>5. ASSUME NEW i \in (from + 1)..(to - 1) PROVE i \notin Breaks(ideal)
  <2>1. i \in 1..Len(ideal) /\ i + 1 \in 1..Len(ideal) /\ i # Len(ideal)
    BY <1>1, <1>2
  <2>2. EndOf(text[i]) => text[i] = "cr" /\ i + 1 = to /\ text[to] = "lf"
    BY <1>2
  <2>3. EndOf(ideal[i]) => ideal[i] = "cr" /\ ideal[i + 1] = "lf"
    BY <1>2, <1>3, <2>1, <2>2 DEF EndOf
  <2>. QED  BY <2>1, <2>3 DEF Breaks, EndOf
<1>6. Short(ideal, from, to) = Short(text, from, to)
  <2>1. from < to - 1 => to - 1 \in 1..Len(ideal)
    BY <1>1, <1>2
  <2>. QED  BY <1>2, <1>3, <2>1 DEF Short, Paired
<1>7. LineOf(ideal, from, to) =
        Frame(SubSeq(ideal, from + 1, to - Short(ideal, from, to)), ideal[to])
  BY <1>4 DEF LineOf, Short, Paired
<1>. DEFINE last == to - Short(ideal, from, to)
            line == SubSeq(ideal, from + 1, last)
<1>8. /\ last \in Int /\ last <= Len(ideal) /\ last >= from /\ last - (from + 1) + 1 = last - from
      /\ Len(frame.line) = last - from
  BY <1>1, <1>2, <1>6 DEF Short, Paired
<1>. HIDE DEF last
<1>9. Len(line) = last - from /\ \A i \in 1..(last - from) : line[i] = ideal[from + i]
  <2>1. \A i \in (from + 1)..last : ideal[i] \in Units
    BY <1>1, <1>2, <1>8
  <2>2. from + 1 \in Int
    BY <1>2
  <2>3. /\ Len(line) = IF from + 1 <= last THEN last - (from + 1) + 1 ELSE 0
        /\ \A i \in 1..(last - (from + 1) + 1) : line[i] = ideal[(from + 1) + i - 1]
    BY <1>8, <2>1, <2>2, SubSeqProperties
  <2>4. \A i \in 1..(last - from) : (from + 1) + i - 1 = from + i
    BY <1>2, <1>8
  <2>. HIDE DEF line
  <2>5. Len(line) = last - from
    BY <1>2, <1>8, <2>3
  <2>. QED  BY <1>8, <2>3, <2>4, <2>5
<1>10. ASSUME NEW i \in 1..(last - from) PROVE frame.line[i] \in {line[i], "bad"}
  <2>1. from + i \in 1..Len(ideal) /\ i \in 1..Len(frame.line)
    BY <1>1, <1>2, <1>8
  <2>. QED  BY <1>1, <1>2, <1>9, <2>1
<1>11. frame.end = ideal[to]
  BY <1>1, <1>2, <1>3 DEF Firm
<1>12. DOMAIN frame.line = 1..(last - from)
  BY <1>2, <1>8, LenProperties DEF Frames
<1>13. Tells(frame, Frame(line, ideal[to]))
  BY <1>8, <1>9, <1>10, <1>11, <1>12 DEF Tells, Frame
<1>. QED  BY <1>4, <1>5, <1>7, <1>13 DEF last

\* What is left without an end of line tells the last line.
LEMMA LeftTells ==
  ASSUME NEW text, NEW ideal, Torn(text, ideal), NEW rest, NEW from, Left(rest, text, from),
         Quiet(rest), rest # <<>>
  PROVE  \E frame \in Frames :
           /\ Flushed(rest) = <<frame>> /\ from < Len(ideal)
           /\ Tells(frame, LineOf(ideal, from, Len(ideal)))
           /\ \A i \in (from + 1)..(Len(ideal) - 1) : i \notin Breaks(ideal)
<1>. DEFINE n == Len(ideal)
            cr == ideal[n] = "cr"
            line == IF cr THEN Front(rest) ELSE rest
            last == IF cr THEN n - 1 ELSE n
            frame == Frame(line, IF cr THEN "cr" ELSE "lf")
<1>1. /\ text \in Seq(Units) /\ ideal \in Seq(Units) /\ Len(text) = n
      /\ n \in Nat /\ DOMAIN ideal = 1..n
      /\ \A i \in 1..n : /\ ideal[i] \in Units /\ text[i] \in {ideal[i], "bad"}
                         /\ text[i] = "bad" => ~EndOf(ideal[i])
  BY LenProperties DEF Torn
<1>2. /\ from \in 0..n /\ rest \in Seq(Units) /\ Len(rest) = n - from
      /\ \A i \in 1..Len(rest) : rest[i] = text[from + i]
  BY <1>1 DEF Left
<1>3. Len(rest) \in Nat /\ Len(rest) # 0
  BY <1>2, EmptySeq
<1>4. from < n /\ n \in 1..n
  BY <1>1, <1>2, <1>3
<1>. HIDE DEF n
<1>5. \A i \in 1..n : /\ text[i] = "cr" <=> ideal[i] = "cr"
                      /\ text[i] = "lf" <=> ideal[i] = "lf"
  BY <1>1 DEF EndOf
<1>6. \A i \in 1..Len(rest) :
        /\ from + i \in 1..n /\ rest[i] \in {ideal[from + i], "bad"}
        /\ EndOf(ideal[from + i]) => ideal[from + i] = "cr" /\ i = Len(rest)
  <2>1. \A i \in 1..Len(rest) : from + i \in 1..n
    BY <1>1, <1>2, <1>3
  <2>2. \A i \in 1..Len(rest) : EndOf(rest[i]) => rest[i] = "cr" /\ i = Len(rest)
    BY DEF Quiet
  <2>. QED  BY <1>1, <1>2, <1>5, <2>1, <2>2 DEF EndOf
<1>7. Last(rest) = "cr" <=> cr
  <2>1. Len(rest) \in 1..Len(rest) /\ from + Len(rest) = n
    BY <1>1, <1>2, <1>3
  <2>. QED  BY <1>1, <1>2, <1>5, <1>6, <2>1 DEF Last
<1>8. ASSUME NEW i \in (from + 1)..(n - 1) PROVE ~EndOf(ideal[i])
  <2>1. i - from \in 1..Len(rest) /\ i - from # Len(rest) /\ from + (i - from) = i
    BY <1>1, <1>2, <1>3
  <2>. QED  BY <1>6, <2>1
<1>9. ~cr => ~EndOf(ideal[n])
  <2>1. Len(rest) \in 1..Len(rest) /\ from + Len(rest) = n
    BY <1>1, <1>2, <1>3
  <2>. QED  BY <1>6, <2>1
<1>10. Flushed(rest) = <<frame>>
  BY <1>7 DEF Flushed
<1>11. \A i \in (from + 1)..(n - 1) : i \notin Breaks(ideal)
  BY <1>8 DEF Breaks, EndOf
<1>12. n \in Breaks(ideal) <=> cr
  BY <1>1, <1>4, <1>9 DEF Breaks, EndOf, n
<1>13. LineOf(ideal, from, n) =
         Frame(SubSeq(ideal, from + 1, last), IF cr THEN "cr" ELSE "lf")
  BY <1>12 DEF LineOf
<1>14. last \in Int /\ last <= n /\ last >= from /\ last - (from + 1) + 1 = last - from
  BY <1>1, <1>2, <1>4
<1>15. /\ line \in Seq(Units) /\ Len(line) = last - from
       /\ \A i \in 1..(last - from) : line[i] = rest[i]
  <2>1. CASE cr
    <3>1. \A i \in 1..(Len(rest) - 1) : rest[i] \in Units
      <4>1. \A i \in 1..(Len(rest) - 1) : i \in 1..Len(rest)
        BY <1>3
      <4>. QED  BY <1>2, <4>1, ElementOfSeq
    <3>. DEFINE front == SubSeq(rest, 1, Len(rest) - 1)
    <3>2. /\ front \in Seq(Units)
          /\ Len(front) = IF 1 <= Len(rest) - 1 THEN (Len(rest) - 1) - 1 + 1 ELSE 0
          /\ \A i \in 1..((Len(rest) - 1) - 1 + 1) : front[i] = rest[1 + i - 1]
      <4>1. 1 \in Int /\ Len(rest) - 1 \in Int
        BY <1>3
      <4>. QED  BY <3>1, <4>1, SubSeqProperties
    <3>3. line = front
      BY <2>1 DEF Front
    <3>. HIDE DEF front
    <3>4. last - from = Len(rest) - 1 /\ (Len(rest) - 1) - 1 + 1 = Len(rest) - 1
      BY <1>1, <1>2, <1>3, <2>1
    <3>5. Len(front) = Len(rest) - 1
      <4>1. Len(front) = IF 1 <= Len(rest) - 1 THEN (Len(rest) - 1) - 1 + 1 ELSE 0
        BY <3>2
      <4>. DEFINE m == Len(rest)
      <4>2. m \in Nat /\ m # 0
        BY <1>3
      <4>. HIDE DEF m
      <4>3. (IF 1 <= m - 1 THEN (m - 1) - 1 + 1 ELSE 0) = m - 1
        BY <4>2
      <4>. QED  BY <4>1, <4>3 DEF m
    <3>6. \A i \in 1..(Len(rest) - 1) : 1 + i - 1 = i
      BY <1>3
    <3>. HIDE DEF line, last
    <3>. QED  BY <3>2, <3>3, <3>4, <3>5, <3>6
  <2>2. CASE ~cr
    BY <1>2, <2>2
  <2>. QED  BY <2>1, <2>2
<1>. DEFINE piece == SubSeq(ideal, from + 1, last)
<1>. HIDE DEF last, line
<1>16. Len(piece) = last - from /\ \A i \in 1..(last - from) : piece[i] = ideal[from + i]
  <2>1. \A i \in (from + 1)..last : ideal[i] \in Units
    BY <1>1, <1>2, <1>14
  <2>2. from + 1 \in Int
    BY <1>2
  <2>3. /\ Len(piece) = IF from + 1 <= last THEN last - (from + 1) + 1 ELSE 0
        /\ \A i \in 1..(last - (from + 1) + 1) : piece[i] = ideal[(from + 1) + i - 1]
    BY <1>14, <2>1, <2>2, SubSeqProperties
  <2>4. \A i \in 1..(last - from) : (from + 1) + i - 1 = from + i
    BY <1>2, <1>14
  <2>. HIDE DEF piece
  <2>5. Len(piece) = last - from
    BY <1>2, <1>14, <2>3
  <2>. QED  BY <1>14, <2>3, <2>4, <2>5
<1>17. \A i \in 1..(last - from) : line[i] \in {piece[i], "bad"}
  <2>. SUFFICES ASSUME NEW i \in 1..(last - from) PROVE line[i] \in {piece[i], "bad"}
    OBVIOUS
  <2>1. i \in 1..Len(rest)
    BY <1>1, <1>2, <1>14
  <2>. QED  BY <1>6, <1>15, <1>16, <2>1
<1>18. DOMAIN line = 1..(last - from)
  BY <1>15, LenProperties
<1>19. frame \in Frames
  BY <1>15 DEF Frame, Frames
<1>20. Tells(frame, LineOf(ideal, from, n))
  <2>. HIDE DEF piece
  <2>1. Tells(Frame(line, IF cr THEN "cr" ELSE "lf"), Frame(piece, IF cr THEN "cr" ELSE "lf"))
    BY <1>15, <1>16, <1>17, <1>18 DEF Tells, Frame
  <2>. QED  BY <1>13, <2>1 DEF piece
<1>. HIDE DEF frame
<1>. QED  BY <1>4, <1>10, <1>11, <1>19, <1>20 DEF n

\* Frames and pending text that are the torn text tell the lines of the ideal one.
LEMMA FramedTells ==
  ASSUME NEW given, NEW rest, NEW text, NEW ideal, Framed(given, rest, text),
         Quiet(rest), Torn(text, ideal)
  PROVE  TellLines(given \o Flushed(rest), ideal)
<1>. DEFINE n == Len(given)
            length == Len(ideal)
            Ends == Breaks(ideal) \union {0, length}
<1>1. PICK cut : Cuts(cut, given, rest, text)
  BY DEF Framed
<1>2. /\ given \in Seq(Frames) /\ rest \in Seq(Units) /\ n \in Nat /\ DOMAIN given = 1..n
      /\ length \in Nat /\ Len(text) = length
  BY LenProperties DEF Framed, Torn
<1>3. /\ cut \in [0..n -> 0..length] /\ cut[0] = 0
      /\ \A k \in 1..n : Piece(given[k], text, cut[k - 1], cut[k])
      /\ Left(rest, text, cut[n])
  BY <1>1, <1>2 DEF Cuts
<1>4. \A k \in 1..n :
        /\ cut[k - 1] < cut[k] /\ cut[k] \in Breaks(ideal)
        /\ \A i \in (cut[k - 1] + 1)..(cut[k] - 1) : i \notin Breaks(ideal)
        /\ Tells(given[k], LineOf(ideal, cut[k - 1], cut[k]))
  <2>1. \A k \in 1..n : cut[k - 1] < cut[k]
    BY <1>3 DEF Piece
  <2>. QED  BY <1>3, <2>1, PieceTells
<1>. HIDE DEF n, length
<1>5. cut \in [0..n -> Ends]
  <2>1. \A k \in 0..n : k = 0 \/ k \in 1..n
    BY <1>2
  <2>. QED  BY <1>3, <1>4, <2>1
<1>6. CASE rest = <<>>
  <2>1. given \o Flushed(rest) = given
    BY <1>2, <1>6, ConcatEmptySeq DEF Flushed
  <2>2. cut[n] = length
    <3>1. n \in 0..n /\ Len(rest) = 0
      BY <1>2, <1>6
    <3>. QED  BY <1>2, <1>3, <3>1 DEF Left
  <2>. QED  BY <1>2, <1>3, <1>4, <1>5, <2>1, <2>2 DEF TellLines, n, length
<1>7. CASE rest # <<>>
  <2>1. PICK frame \in Frames :
          /\ Flushed(rest) = <<frame>> /\ cut[n] < length
          /\ Tells(frame, LineOf(ideal, cut[n], length))
          /\ \A i \in (cut[n] + 1)..(length - 1) : i \notin Breaks(ideal)
    BY <1>3, <1>7, LeftTells DEF length
  <2>. DEFINE all == given \o Flushed(rest)
              new == [k \in 0..(n + 1) |-> IF k = n + 1 THEN length ELSE cut[k]]
  <2>2. /\ all \in Seq(Frames) /\ Len(all) = n + 1 /\ DOMAIN all = 1..(n + 1)
        /\ \A k \in 1..n : all[k] = given[k]
        /\ all[n + 1] = frame
    <3>1. all = Append(given, frame)
      BY <1>2, <2>1, AppendIsConcat
    <3>2. /\ Append(given, frame) \in Seq(Frames) /\ Len(Append(given, frame)) = n + 1
          /\ \A k \in 1..n : Append(given, frame)[k] = given[k]
          /\ Append(given, frame)[n + 1] = frame
      BY <1>2, <2>1, AppendProperties DEF n
    <3>. HIDE DEF all
    <3>. QED  BY <3>1, <3>2, LenProperties
  <2>. HIDE DEF all
  <2>3. /\ new \in [0..(n + 1) -> Ends] /\ new[n + 1] = length
        /\ \A k \in 0..n : new[k] = cut[k]
    <3>1. \A k \in 0..(n + 1) : k # n + 1 => k \in 0..n
      BY <1>2
    <3>2. \A k \in 0..n : k \in 0..(n + 1) /\ k # n + 1
      BY <1>2
    <3>3. n + 1 \in 0..(n + 1)
      BY <1>2
    <3>. QED  BY <1>5, <3>1, <3>2, <3>3
  <2>. HIDE DEF new
  <2>4. ASSUME NEW k \in 1..(n + 1)
        PROVE  /\ new[k - 1] < new[k]
               /\ new[k] \in Breaks(ideal) \/ k = n + 1
               /\ \A i \in (new[k - 1] + 1)..(new[k] - 1) : i \notin Breaks(ideal)
               /\ Tells(all[k], LineOf(ideal, new[k - 1], new[k]))
    <3>1. CASE k = n + 1
      <4>1. k - 1 = n /\ n \in 0..n
        BY <1>2, <3>1
      <4>. QED  BY <2>1, <2>2, <2>3, <3>1, <4>1
    <3>2. CASE k # n + 1
      <4>1. k \in 1..n /\ k - 1 \in 0..n /\ k \in 0..n
        BY <1>2, <3>2
      <4>. QED  BY <1>4, <2>2, <2>3, <4>1
    <3>. QED  BY <3>1, <3>2
  <2>5. new[0] = 0
    <3>1. 0 \in 0..n
      BY <1>2
    <3>. QED  BY <1>3, <2>3, <3>1
  <2>6. TellLines(all, ideal)
    <3>1. /\ new \in [0..Len(all) -> Ends] /\ new[0] = 0 /\ new[Len(all)] = length
          /\ \A k \in DOMAIN all :
               /\ new[k - 1] < new[k]
               /\ new[k] \in Breaks(ideal) \/ k = Len(all)
               /\ \A i \in (new[k - 1] + 1)..(new[k] - 1) : i \notin Breaks(ideal)
               /\ Tells(all[k], LineOf(ideal, new[k - 1], new[k]))
      BY <2>2, <2>3, <2>4, <2>5
    <3>. QED  BY <3>1 DEF TellLines, length
  <2>. QED  BY <2>6 DEF all
<1>. QED  BY <1>6, <1>7

-----------------------------------------------------------------------------
(* What a command wrote is told.                                           *)

LEMMA FlushedIsFrames ==
  ASSUME NEW rest \in Seq(Units)
  PROVE  Flushed(rest) \in Seq(Frames)
<1>1. CASE rest = <<>>
  BY <1>1 DEF Flushed
<1>2. CASE rest # <<>>
  <2>1. Len(rest) \in Nat \ {0}
    BY <1>2, EmptySeq
  <2>2. \A i \in 1..(Len(rest) - 1) : rest[i] \in Units
    <3>1. \A i \in 1..(Len(rest) - 1) : i \in 1..Len(rest)
      BY <2>1
    <3>. QED  BY <3>1, ElementOfSeq
  <2>3. Front(rest) \in Seq(Units)
    <3>1. 1 \in Int /\ Len(rest) - 1 \in Int
      BY <2>1
    <3>. QED  BY <2>2, <3>1, SubSeqProperties DEF Front
  <2>4. Frame(Front(rest), "cr") \in Frames /\ Frame(rest, "lf") \in Frames
    BY <2>3 DEF Frame, Frames
  <2>. QED  BY <1>2, <2>4 DEF Flushed
<1>. QED  BY <1>1, <1>2

\* What was read of a stream, as its lines should show it.
Ideal(s) == Decoded(SubSeq(written[s], 1, read[s]))

Reads == pc \in {"check", "select", "poll", "read", "flush"}

\* As long as the thread reads, the frames and the text without an end of line are
\* what was read, cut at its ends of line; they tell its lines then and later.
TextInv ==
  /\ frames \in [Streams -> Seq(Frames)] /\ pending \in [Streams -> Seq(Units)]
  /\ tool # "exec" =>
       \A s \in Streams :
         /\ TellLines(frames[s] \o Flushed(pending[s]), Ideal(s))
         /\ Reads => /\ Quiet(pending[s])
                     /\ \E text : /\ Torn(text, Ideal(s))
                                  /\ Framed(frames[s], pending[s], text)

LEMMA TextInitially == CommandInit => TextInv
<1>. SUFFICES ASSUME CommandInit PROVE TextInv
  OBVIOUS
<1>1. /\ frames = [s \in Streams |-> <<>>] /\ pending = [s \in Streams |-> <<>>]
      /\ written = [s \in Streams |-> <<>>] /\ read = [s \in Streams |-> 0]
  BY DEF CommandInit
<1>2. frames \in [Streams -> Seq(Frames)] /\ pending \in [Streams -> Seq(Units)]
  BY <1>1
<1>3. ASSUME NEW s \in Streams
      PROVE  /\ TellLines(frames[s] \o Flushed(pending[s]), Ideal(s))
             /\ Quiet(pending[s])
             /\ \E text : /\ Torn(text, Ideal(s))
                          /\ Framed(frames[s], pending[s], text)
  <2>1. frames[s] = <<>> /\ pending[s] = <<>>
    BY <1>1
  <2>2. Ideal(s) = Decoded(<<>>)
    <3>1. 0 \in Int /\ 1 \in Int /\ 0 < 1 /\ SubSeq(<<>>, 1, 0) = <<>>
      BY SubSeqEmpty
    <3>. QED  BY <1>1, <3>1 DEF Ideal
  <2>3. Quiet(<<>>)
    BY DEF Quiet
  <2>. QED  BY <2>1, <2>2, <2>3, EmptyIsFramed, NothingIsTorn, FramedTells
<1>. QED  BY <1>2, <1>3 DEF TextInv

\* A step that leaves what was read and given out alone.
LEMMA TextStays ==
  ASSUME TextInv, UNCHANGED <<tool, frames, pending, read>>,
         \A s \in Streams : Ideal(s)' = Ideal(s),
         Reads' => Reads \/ tool = "exec"
  PROVE  TextInv'
BY DEF TextInv

LEMMA WriteText ==
  ASSUME CommandInv, TextInv, NEW p \in Procs, NEW s \in Streams,
         NEW byte \in Bytes, Write(p, s, byte)
  PROVE  TextInv'
<1>. DEFINE bytes == IF tool = "pty" /\ byte = "lf" THEN <<"cr", "lf">> ELSE <<byte>>
<1>1. /\ written' = [written EXCEPT ![s] = @ \o bytes]
      /\ UNCHANGED <<tool, frames, pending, read, pc>>
  BY DEF Write, output
<1>2. bytes \in Seq(Bytes)
  <2>1. CASE tool = "pty" /\ byte = "lf"
    BY <2>1 DEF Bytes
  <2>2. CASE ~(tool = "pty" /\ byte = "lf")
    BY <2>2
  <2>. QED  BY <2>1, <2>2
<1>. HIDE DEF bytes
<1>3. ASSUME NEW r \in Streams PROVE Ideal(r)' = Ideal(r)
  <2>1. /\ written[r] \in Seq(Bytes) /\ read[r] \in Nat /\ read[r] <= Len(written[r])
        /\ Len(written[r]) \in Nat /\ read'[r] = read[r]
    BY <1>1, LenProperties DEF CommandInv, Reading
  <2>2. written'[r] = written[r] \/ written'[r] = written[r] \o bytes
    BY <1>1 DEF CommandInv, Reading
  <2>3. SubSeq(written[r] \o bytes, 1, read[r]) = SubSeq(written[r], 1, read[r])
    <3>1. CASE read[r] = 0
      <4>1. 0 \in Int /\ 1 \in Int /\ 0 < 1
        OBVIOUS
      <4>. QED  BY <3>1, <4>1, SubSeqEmpty
    <3>2. CASE read[r] # 0
      <4>1. 1 \in 1..Len(written[r]) /\ read[r] \in 1..Len(written[r])
        BY <2>1, <3>2
      <4>. QED  BY <1>2, <2>1, <4>1, SubSeqOfConcat1
    <3>. QED  BY <3>1, <3>2
  <2>. QED  BY <2>1, <2>2, <2>3 DEF Ideal
<1>4. Reads' => Reads
  BY <1>1 DEF Reads
<1>. QED  BY <1>1, <1>3, <1>4, TextStays

\* What is read next goes on where the last read ended.
LEMMA NextRead ==
  ASSUME Reading, NEW s \in Streams, NEW n \in 1..Len(Unread(s))
  PROVE  /\ read[s] + n \in 0..Len(written[s])
         /\ SubSeq(Unread(s), 1, n) \in Seq(Bytes)
         /\ SubSeq(written[s], 1, read[s]) \in Seq(Bytes)
         /\ SubSeq(written[s], 1, read[s] + n) =
              SubSeq(written[s], 1, read[s]) \o SubSeq(Unread(s), 1, n)
<1>. DEFINE w == written[s]
            r == read[s]
<1>1. /\ w \in Seq(Bytes) /\ Len(w) \in Nat /\ r \in Nat /\ r <= Len(w)
      /\ Len(Unread(s)) = Len(w) - r /\ Unread(s) = SubSeq(w, r + 1, Len(w))
  BY UnreadIs, LenProperties DEF Reading, Unread
<1>. HIDE DEF w, r
<1>2. /\ n \in Nat /\ n >= 1 /\ n <= Len(w) - r /\ r + n \in 0..Len(w)
  BY <1>1
<1>3. SubSeq(SubSeq(w, r + 1, Len(w)), 1, n) = SubSeq(w, r + 1, r + n)
  <2>1. /\ r + 1 \in 1..Len(w) /\ Len(w) \in 1..Len(w)
        /\ 1 \in 1..(Len(w) - (r + 1) + 1) /\ n \in 1..(Len(w) - (r + 1) + 1)
        /\ (r + 1) + 1 - 1 = r + 1 /\ (r + 1) + n - 1 = r + n
    BY <1>1, <1>2
  <2>2. SubSeq(SubSeq(w, r + 1, Len(w)), 1, n) = SubSeq(w, (r + 1) + 1 - 1, (r + 1) + n - 1)
    BY <1>1, <2>1, SubSeqOfSubSeq
  <2>. QED  BY <2>1, <2>2
<1>4. SubSeq(w, 1, r) \o SubSeq(w, r + 1, r + n) = SubSeq(w, 1, r + n)
  <2>1. 1 \in 1..(Len(w) + 1) /\ r \in (1 - 1)..Len(w) /\ r + n \in r..Len(w)
    BY <1>1, <1>2
  <2>. QED  BY <1>1, <2>1, ConcatAdjacentSubSeq
<1>5. \A i \in 1..Len(w) : w[i] \in Bytes
  BY <1>1, ElementOfSeq
<1>6. SubSeq(w, 1, r) \in Seq(Bytes)
  <2>1. \A i \in 1..r : w[i] \in Bytes
    BY <1>1, <1>5
  <2>. QED  BY <1>1, <2>1, SubSeqProperties
<1>7. SubSeq(w, r + 1, r + n) \in Seq(Bytes)
  <2>1. \A i \in (r + 1)..(r + n) : w[i] \in Bytes
    BY <1>1, <1>2, <1>5
  <2>2. r + 1 \in Int /\ r + n \in Int
    BY <1>1, <1>2
  <2>. QED  BY <2>1, <2>2, SubSeqProperties
<1>. QED  BY <1>1, <1>2, <1>3, <1>4, <1>6, <1>7 DEF w, r

\* A read appends what it decoded, and gives out the lines that are over now.
LEMMA ReadText == ASSUME CommandInv, TextInv, Read PROVE TextInv'
<1>1. PICK s \in Streams :
        /\ pc = "read" /\ pc' \in {"check", "read"}
        /\ \/ UNCHANGED <<read, pending, frames>>
           \/ \E n \in 1..Len(Unread(s)) :
                LET text == pending[s] \o Decoded(SubSeq(Unread(s), 1, n))
                    split == AppendStreamText(text)
                IN /\ read' = [read EXCEPT ![s] = @ + n]
                   /\ frames' = [frames EXCEPT ![s] = @ \o split.frames]
                   /\ pending' = [pending EXCEPT ![s] = split.pending]
        /\ UNCHANGED <<tool, written>>
  BY DEF Read, outside, Streams
<1>2. Reads /\ tool # "exec"
  BY <1>1 DEF Reads, CommandInv, Watched
<1>3. CASE UNCHANGED <<read, pending, frames>>
  <2>1. \A r \in Streams : Ideal(r)' = Ideal(r)
    BY <1>1, <1>3 DEF Ideal
  <2>. QED  BY <1>1, <1>2, <1>3, <2>1, TextStays
<1>4. ASSUME NEW n \in 1..Len(Unread(s)), NEW chunk, NEW split,
             chunk = Decoded(SubSeq(Unread(s), 1, n)),
             split = Scan(pending[s] \o chunk),
             read' = [read EXCEPT ![s] = @ + n],
             frames' = [frames EXCEPT ![s] = @ \o split.frames],
             pending' = [pending EXCEPT ![s] = split.pending]
      PROVE  TextInv'
  <2>1. /\ frames \in [Streams -> Seq(Frames)] /\ pending \in [Streams -> Seq(Units)]
        /\ read \in [Streams -> Nat] /\ Reading
    BY DEF TextInv, CommandInv, Reading
  <2>2. PICK text : Torn(text, Ideal(s)) /\ Framed(frames[s], pending[s], text)
    BY <1>2 DEF TextInv
  <2>. DEFINE new == SubSeq(Unread(s), 1, n)
              all == SubSeq(written[s], 1, read[s] + n)
  <2>3. /\ new \in Seq(Bytes) /\ SubSeq(written[s], 1, read[s]) \in Seq(Bytes)
        /\ all = SubSeq(written[s], 1, read[s]) \o new
    BY <2>1, NextRead
  <2>. HIDE DEF new, all
  <2>4. chunk \in Seq(Units)
    BY <1>4, <2>3, DecodedIs DEF new
  <2>5. Torn(text \o chunk, Decoded(all))
    BY <1>4, <2>2, <2>3, TornMore DEF new, Ideal
  <2>6. Framed(frames[s], pending[s] \o chunk, text \o chunk)
    BY <2>2, <2>4, FramedGrows
  <2>7. /\ split \in Scans /\ Framed(frames[s] \o split.frames, split.pending, text \o chunk)
        /\ Quiet(split.pending)
    BY <1>4, <2>6, ScanFrames
  <2>8. TellLines((frames[s] \o split.frames) \o Flushed(split.pending), Decoded(all))
    BY <2>5, <2>7, FramedTells
  <2>9. /\ frames[s] \o split.frames \in Seq(Frames) /\ split.pending \in Seq(Units)
    BY <2>7 DEF Framed
  <2>10. /\ frames' \in [Streams -> Seq(Frames)] /\ pending' \in [Streams -> Seq(Units)]
         /\ frames'[s] = frames[s] \o split.frames /\ pending'[s] = split.pending
         /\ read'[s] = read[s] + n
         /\ \A r \in Streams : r # s => /\ frames'[r] = frames[r] /\ pending'[r] = pending[r]
                                        /\ read'[r] = read[r]
    BY <1>4, <2>1, <2>9
  <2>11. Ideal(s)' = Decoded(all) /\ \A r \in Streams : r # s => Ideal(r)' = Ideal(r)
    BY <1>1, <2>10 DEF Ideal, all
  <2>12. ASSUME NEW r \in Streams
         PROVE  /\ TellLines(frames'[r] \o Flushed(pending'[r]), Ideal(r)')
                /\ Quiet(pending'[r])
                /\ \E t : Torn(t, Ideal(r)') /\ Framed(frames'[r], pending'[r], t)
    <3>1. CASE r = s
      BY <2>5, <2>7, <2>8, <2>10, <2>11, <3>1
    <3>2. CASE r # s
      <4>1. /\ TellLines(frames[r] \o Flushed(pending[r]), Ideal(r))
            /\ Quiet(pending[r])
            /\ \E t : Torn(t, Ideal(r)) /\ Framed(frames[r], pending[r], t)
        BY <1>2 DEF TextInv
      <4>2. /\ frames'[r] = frames[r] /\ pending'[r] = pending[r] /\ Ideal(r)' = Ideal(r)
        BY <2>10, <2>11, <3>2
      <4>. QED  BY <4>1, <4>2
    <3>. QED  BY <3>1, <3>2
  <2>. QED  BY <2>10, <2>12 DEF TextInv
<1>5. CASE \E n \in 1..Len(Unread(s)) :
             LET text == pending[s] \o Decoded(SubSeq(Unread(s), 1, n))
                 split == AppendStreamText(text)
             IN /\ read' = [read EXCEPT ![s] = @ + n]
                /\ frames' = [frames EXCEPT ![s] = @ \o split.frames]
                /\ pending' = [pending EXCEPT ![s] = split.pending]
  BY <1>4, <1>5 DEF AppendStreamText
<1>. QED  BY <1>1, <1>3, <1>5

\* At the end the text without an end of line is given out too.
LEMMA FlushText == ASSUME TextInv, Flush PROVE TextInv'
<1>1. /\ frames' = [s \in Streams |-> frames[s] \o Flushed(pending[s])]
      /\ pending' = [s \in Streams |-> <<>>]
      /\ pc' = "finally" /\ UNCHANGED <<tool, written, read>>
  BY DEF Flush, outside
<1>2. ASSUME NEW s \in Streams
      PROVE  /\ frames[s] \o Flushed(pending[s]) \in Seq(Frames)
             /\ frames'[s] \o Flushed(pending'[s]) = frames[s] \o Flushed(pending[s])
  <2>1. frames[s] \in Seq(Frames) /\ Flushed(pending[s]) \in Seq(Frames)
    BY FlushedIsFrames DEF TextInv
  <2>2. frames[s] \o Flushed(pending[s]) \in Seq(Frames)
    BY <2>1, ConcatProperties
  <2>3. frames'[s] = frames[s] \o Flushed(pending[s]) /\ Flushed(pending'[s]) = <<>>
    BY <1>1 DEF Flushed
  <2>. QED  BY <2>2, <2>3, ConcatEmptySeq
<1>3. frames' \in [Streams -> Seq(Frames)] /\ pending' \in [Streams -> Seq(Units)]
  <2>1. \A s \in Streams : frames[s] \o Flushed(pending[s]) \in Seq(Frames)
    BY <1>2
  <2>2. <<>> \in Seq(Units)
    OBVIOUS
  <2>. QED  BY <1>1, <2>1, <2>2
<1>4. \A s \in Streams : Ideal(s)' = Ideal(s)
  BY <1>1 DEF Ideal
<1>5. ~Reads'
  BY <1>1 DEF Reads
<1>6. tool # "exec" =>
        \A s \in Streams : TellLines(frames'[s] \o Flushed(pending'[s]), Ideal(s)')
  BY <1>2, <1>4 DEF TextInv
<1>. QED  BY <1>1, <1>3, <1>5, <1>6 DEF TextInv

LEMMA TextInvariance == CommandSpec => []TextInv
<1>1. CommandInv /\ TextInv /\ [CommandNext]_commandVars => TextInv'
  <2>. SUFFICES ASSUME CommandInv, TextInv, [CommandNext]_commandVars PROVE TextInv'
    OBVIOUS
  <2>1. ASSUME UNCHANGED <<tool, written, frames, pending, read>>,
               Reads' => Reads \/ tool = "exec"
        PROVE  TextInv'
    <3>1. \A s \in Streams : Ideal(s)' = Ideal(s)
      BY <2>1 DEF Ideal
    <3>. QED  BY <2>1, <3>1, TextStays
  <2>2. CASE \E p \in Procs, s \in Streams, byte \in Bytes : Write(p, s, byte)
    BY <2>2, WriteText
  <2>3. CASE Cancel \/ Fork \/ CloseOutput \/ \E p \in Procs : ProcessExits(p)
    BY <2>1, <2>3 DEF Cancel, Fork, CloseOutput, ProcessExits, Change, output, Reads
  <2>4. CASE Check \/ Select \/ Poll
    BY <2>1, <2>4 DEF Check, Select, Poll, MoveTo, End, outside, output, Reads
  <2>5. CASE ReadError \/ Finally \/ Wait
    BY <2>1, <2>5 DEF ReadError, Finally, Wait, MoveTo, End, outside, output, Reads
  <2>6. CASE Term \/ KillWait
    BY <2>1, <2>6 DEF Term, KillWait, Signal, output, Reads
  <2>7. CASE ExecCheck \/ Communicate
    BY <2>1, <2>7 DEF ExecCheck, Communicate, MoveTo, End, outside, output, Reads,
                      CommandInv, Watched
  <2>8. CASE UNCHANGED commandVars
    BY <2>1, <2>8 DEF commandVars, outside, output, Reads
  <2>. QED  BY <2>2, <2>3, <2>4, <2>5, <2>6, <2>7, <2>8, ReadText, FlushText
            DEF CommandNext, Command, Worker
<1>. QED  BY <1>1, TextInitially, CommandInvariance, PTL DEF CommandSpec

\* A text that is shortened keeps its first and its last half of the limit.
LEMMA TruncatedKeeps ==
  ASSUME NEW lines, lines \in Seq(Seq(Units)), NEW limit \in Nat, NEW half \in Nat,
         half = limit \div 2, limit = half + half, half >= 1, NEW cut \in BOOLEAN,
         ~cut => Len(lines) <= limit,
         NEW short, short = IF cut THEN Truncated(lines, limit) ELSE lines
  PROVE  /\ Len(short) <= limit + 1
         /\ \A i \in 1..half : i <= Len(lines) =>
              short[i] = lines[i] /\ Reverse(short)[i] = Reverse(lines)[i]
<1>. DEFINE n == Len(lines)
            S == Seq(Units) \union {Marker}
            head == SubSeq(lines, 1, half)
            tail == SubSeq(lines, n - half + 1, n)
            all == head \o <<Marker>> \o tail
<1>1. n \in Nat /\ \A i \in 1..n : lines[i] \in S
  BY LenProperties, ElementOfSeq
<1>2. CASE ~cut \/ n <= limit
  <2>1. short = lines /\ n <= limit
    BY <1>2 DEF Truncated
  <2>. QED  BY <1>1, <2>1
<1>3. CASE cut /\ n > limit
  <2>1. short = all
    BY <1>1, <1>3 DEF Truncated
  <2>. HIDE DEF n, S
  <2>2. /\ half <= n /\ half \in Int /\ n - half + 1 \in Int /\ n - half + 1 >= 1
        /\ n - (n - half + 1) + 1 = half /\ half - 1 + 1 = half /\ 1 \in Int /\ n \in Int
    BY <1>1, <1>3
  <2>3. /\ head \in Seq(S) /\ Len(head) = half
        /\ \A i \in 1..half : head[i] = lines[i]
    <3>1. \A i \in 1..half : lines[i] \in S
      BY <1>1, <2>2
    <3>2. /\ head \in Seq(S) /\ Len(head) = IF 1 <= half THEN half - 1 + 1 ELSE 0
          /\ \A i \in 1..(half - 1 + 1) : head[i] = lines[1 + i - 1]
      BY <2>2, <3>1, SubSeqProperties
    <3>3. \A i \in 1..half : 1 + i - 1 = i
      OBVIOUS
    <3>. HIDE DEF head
    <3>. QED  BY <2>2, <3>2, <3>3
  <2>4. /\ tail \in Seq(S) /\ Len(tail) = half
        /\ \A i \in 1..half : tail[i] = lines[(n - half) + i]
    <3>1. \A i \in (n - half + 1)..n : lines[i] \in S
      BY <1>1, <2>2
    <3>2. /\ tail \in Seq(S)
          /\ Len(tail) = IF n - half + 1 <= n THEN n - (n - half + 1) + 1 ELSE 0
          /\ \A i \in 1..(n - (n - half + 1) + 1) : tail[i] = lines[(n - half + 1) + i - 1]
      BY <2>2, <3>1, SubSeqProperties
    <3>3. \A i \in 1..half : (n - half + 1) + i - 1 = (n - half) + i
      BY <1>1
    <3>4. n - half + 1 <= n
      BY <1>1
    <3>. HIDE DEF tail
    <3>. QED  BY <2>2, <3>2, <3>3, <3>4
  <2>. DEFINE front == head \o <<Marker>>
  <2>. HIDE DEF head, tail
  <2>5. /\ front \in Seq(S) /\ Len(front) = half + 1
        /\ \A i \in 1..half : front[i] = lines[i]
    <3>1. <<Marker>> \in Seq(S) /\ Len(<<Marker>>) = 1
      BY DEF S
    <3>2. /\ front \in Seq(S) /\ Len(front) = Len(head) + 1
          /\ \A i \in 1..(Len(head) + 1) :
               front[i] = IF i <= Len(head) THEN head[i] ELSE <<Marker>>[i - Len(head)]
      BY <2>3, <3>1, ConcatProperties
    <3>. HIDE DEF front
    <3>. QED  BY <2>3, <3>2
  <2>6. /\ Len(all) = limit + 1
        /\ \A i \in 1..half : all[i] = lines[i]
        /\ \A i \in 1..half : all[half + 1 + i] = lines[(n - half) + i]
    <3>1. /\ Len(front \o tail) = Len(front) + Len(tail)
          /\ \A i \in 1..(Len(front) + Len(tail)) :
               (front \o tail)[i] = IF i <= Len(front) THEN front[i] ELSE tail[i - Len(front)]
      <4>1. front \in Seq(S) /\ tail \in Seq(S)
        BY <2>4, <2>5
      <4>. HIDE DEF front
      <4>. QED  BY <4>1, ConcatProperties
    <3>2. all = front \o tail
      OBVIOUS
    <3>. HIDE DEF all, front
    <3>3. \A i \in 1..half : /\ i \in 1..(Len(front) + Len(tail)) /\ i <= Len(front)
                             /\ half + 1 + i \in 1..(Len(front) + Len(tail))
                             /\ ~(half + 1 + i <= Len(front)) /\ (half + 1 + i) - Len(front) = i
      BY <2>4, <2>5
    <3>4. Len(all) = limit + 1
      <4>1. Len(all) = Len(front) + Len(tail)
        BY <3>1, <3>2
      <4>2. Len(front) = half + 1 /\ Len(tail) = half
        BY <2>4, <2>5
      <4>. QED  BY <4>1, <4>2
    <3>. QED  BY <2>4, <2>5, <3>1, <3>2, <3>3, <3>4
  <2>. HIDE DEF all
  <2>7. ASSUME NEW i \in 1..half PROVE Reverse(all)[i] = Reverse(lines)[i]
    <3>1. i \in 1..(limit + 1) /\ i \in 1..n
      BY <1>1, <1>3
    <3>2. Reverse(all)[i] = all[((limit + 1) - i) + 1] /\ Reverse(lines)[i] = lines[(n - i) + 1]
      BY <2>6, <3>1 DEF Reverse, n
    <3>3. /\ half + 1 - i \in 1..half
          /\ half + 1 + (half + 1 - i) = ((limit + 1) - i) + 1
          /\ (n - half) + (half + 1 - i) = (n - i) + 1
      BY <1>1
    <3>. QED  BY <2>6, <3>2, <3>3
  <2>. QED  BY <2>1, <2>6, <2>7
<1>. QED  BY <1>1, <1>2, <1>3

\* The lines of the result are lines of the frames.
LEMMA TextLinesAre ==
  ASSUME NEW given \in Seq(Frames)
  PROVE  TextLines([i \in DOMAIN given |-> given[i].line]) \in Seq(Seq(Units))
<1>. DEFINE n == Len(given)
            all == [i \in 1..n |-> given[i].line]
<1>1. n \in Nat /\ DOMAIN given = 1..n /\ \A i \in 1..n : given[i] \in Frames
  BY LenProperties, ElementOfSeq
<1>2. all \in [1..n -> Seq(Units)]
  BY <1>1 DEF Frames
<1>3. all \in Seq(Seq(Units)) /\ Len(all) = n
  <2>. HIDE DEF all, n
  <2>. QED  BY <1>1, <1>2
<1>. HIDE DEF all
<1>4. Front(all) \in Seq(Seq(Units))
  <2>1. \A i \in 1..(n - 1) : all[i] \in Seq(Units)
    <3>1. \A i \in 1..(n - 1) : i \in 1..n
      BY <1>1
    <3>. QED  BY <1>2, <3>1
  <2>2. 1 \in Int /\ n - 1 \in Int
    BY <1>1
  <2>. QED  BY <1>3, <2>1, <2>2, SubSeqProperties DEF Front
<1>. QED  BY <1>1, <1>3, <1>4 DEF TextLines, all

LEMMA ResultKeeps == ASSUME CommandInv, TextInv PROVE ResultKeepsEnds
<1>. DEFINE lines == [s \in Streams |-> TextLines([i \in DOMAIN frames[s] |-> frames[s][i].line])]
            final == Finalized(lines, OutputLineLimit)
            half  == OutputLineLimit \div 2
            count == Len(lines["stdout"]) + Len(lines["stderr"])
            cut   == count > OutputLineLimit
<1>1. \A s \in Streams : lines[s] \in Seq(Seq(Units))
  BY TextLinesAre DEF TextInv
<1>2. OutputLineLimit \in Nat /\ half \in Nat /\ half >= 1 /\ OutputLineLimit = half + half
  BY CommandOutputAssumption
<1>3. /\ final.truncated = cut
      /\ \A s \in Streams :
           final.lines[s] = IF cut THEN Truncated(lines[s], OutputLineLimit) ELSE lines[s]
  BY DEF Finalized
<1>. HIDE DEF lines, final
<1>4. /\ Len(lines["stdout"]) \in Nat /\ Len(lines["stderr"]) \in Nat
      /\ Streams = {"stdout", "stderr"}
  BY <1>1, LenProperties DEF Streams
<1>5. ASSUME NEW s \in Streams
      PROVE  /\ ~final.truncated => final.lines[s] = lines[s]
             /\ Len(final.lines[s]) <= OutputLineLimit + 1
             /\ \A i \in 1..half : i <= Len(lines[s]) =>
                  /\ final.lines[s][i] = lines[s][i]
                  /\ Reverse(final.lines[s])[i] = Reverse(lines[s])[i]
  <2>1. ~cut => Len(lines[s]) <= OutputLineLimit
    <3>1. Len(lines[s]) = Len(lines["stdout"]) \/ Len(lines[s]) = Len(lines["stderr"])
      BY <1>4
    <3>. DEFINE m == Len(lines["stdout"])
                k == Len(lines["stderr"])
    <3>2. m \in Nat /\ k \in Nat /\ (Len(lines[s]) = m \/ Len(lines[s]) = k)
      BY <1>4, <3>1
    <3>3. ~(m + k > OutputLineLimit) => Len(lines[s]) <= OutputLineLimit
      <4>. HIDE DEF m, k
      <4>1. OutputLineLimit \in Nat
        BY <1>2
      <4>. QED  BY <3>2, <4>1
    <3>. QED  BY <3>3
  <2>2. cut \in BOOLEAN /\ half = OutputLineLimit \div 2
    OBVIOUS
  <2>3. final.lines[s] = IF cut THEN Truncated(lines[s], OutputLineLimit) ELSE lines[s]
    BY <1>3
  <2>. HIDE DEF cut, half
  <2>4. /\ Len(final.lines[s]) <= OutputLineLimit + 1
        /\ \A i \in 1..half : i <= Len(lines[s]) =>
             /\ final.lines[s][i] = lines[s][i]
             /\ Reverse(final.lines[s])[i] = Reverse(lines[s])[i]
    BY <1>1, <1>2, <2>1, <2>2, <2>3, TruncatedKeeps
  <2>. QED  BY <1>3, <2>3, <2>4
<1>. QED  BY <1>5 DEF ResultKeepsEnds, lines, final

\* What a bash command wrote is told line by line, however the reads cut it, and
\* the result keeps its first and last lines (_append_stream_text,
\* _finalize_bash_payload).
THEOREM OutputTold == CommandSpec => []OutputIsTold
<1>1. TextInv => FramesAreOfOutput
  BY DEF TextInv, FramesAreOfOutput, Ideal
<1>2. CommandInv /\ TextInv => OutputIsTold
  BY <1>1, ResultKeeps DEF OutputIsTold
<1>. QED  BY <1>2, CommandInvariance, TextInvariance, PTL

-----------------------------------------------------------------------------
(* The rest of the types.                                                  *)

Labels == {"check", "select", "poll", "read", "flush", "finally", "wait",
           "communicate", "term", "killwait", "ended"}

Limited ==
  /\ root \in SUBSET Procs /\ Total <= MaxBytes
  /\ \A s \in Streams : seen[s] <= Len(written[s])
  /\ ready \in SUBSET Used /\ cancelled \in BOOLEAN /\ pc \in Labels
  /\ outcome \in {"none", "done", "cancelled", "timeout", "error"} /\ late \in BOOLEAN

\* A step of the thread or of the command that writes nothing.
LEMMA LimitedStays ==
  ASSUME Limited, UNCHANGED <<tool, written>>, root' \in SUBSET Procs,
         \A s \in Streams : seen'[s] <= Len(written[s]),
         ready' \in SUBSET Used, cancelled' \in BOOLEAN, pc' \in Labels,
         outcome' \in {"none", "done", "cancelled", "timeout", "error"}, late' \in BOOLEAN
  PROVE  Limited'
BY DEF Limited, Total, Used

LEMMA WriteLimited ==
  ASSUME CommandInv, Limited, NEW p \in Procs, NEW s \in Streams,
         NEW byte \in Bytes, Write(p, s, byte)
  PROVE  Limited'
<1>. DEFINE bytes == IF tool = "pty" /\ byte = "lf" THEN <<"cr", "lf">> ELSE <<byte>>
<1>1. /\ written' = [written EXCEPT ![s] = @ \o bytes] /\ Total + Len(bytes) <= MaxBytes
      /\ UNCHANGED <<tool, root, seen, ready, cancelled, pc, outcome, late>>
  BY DEF Write, ending
<1>2. bytes \in Seq(Bytes)
  <2>1. CASE tool = "pty" /\ byte = "lf"
    BY <2>1 DEF Bytes
  <2>2. CASE ~(tool = "pty" /\ byte = "lf")
    BY <2>2
  <2>. QED  BY <2>1, <2>2
<1>. HIDE DEF bytes
<1>3. \A r \in Streams : written[r] \in Seq(Bytes) /\ Len(written[r]) \in Nat /\ seen[r] \in Nat
  BY LenProperties DEF CommandInv, Reading
<1>4. /\ Len(written[s] \o bytes) = Len(written[s]) + Len(bytes) /\ Len(bytes) \in Nat
      /\ written'[s] = written[s] \o bytes
      /\ \A r \in Streams : r # s => written'[r] = written[r]
  BY <1>1, <1>2, <1>3, ConcatProperties, LenProperties DEF CommandInv, Reading
<1>5. \A r \in Streams : seen[r] <= Len(written'[r])
  BY <1>3, <1>4 DEF Limited
<1>6. Total' <= MaxBytes
  <2>1. CASE s = "stdout"
    <3>1. /\ Len(written'["stdout"]) = Len(written["stdout"]) + Len(bytes)
          /\ Len(written'["stderr"]) = Len(written["stderr"])
      BY <1>4, <2>1 DEF Streams
    <3>2. Len(written["stdout"]) \in Nat /\ Len(written["stderr"]) \in Nat
      BY <1>3 DEF Streams
    <3>3. Total' = Total + Len(bytes)
      <4>. DEFINE m == Len(written["stdout"])
                  k == Len(written["stderr"])
                  l == Len(bytes)
      <4>1. m \in Nat /\ k \in Nat /\ l \in Nat
        BY <1>4, <3>2
      <4>. HIDE DEF m, k, l
      <4>2. (m + l) + k = (m + k) + l /\ m + (k + l) = (m + k) + l
        BY <4>1
      <4>. QED  BY <3>1, <4>2 DEF Total, m, k, l
    <3>. QED  BY <1>1, <3>3
  <2>2. CASE s = "stderr"
    <3>1. /\ Len(written'["stderr"]) = Len(written["stderr"]) + Len(bytes)
          /\ Len(written'["stdout"]) = Len(written["stdout"])
      BY <1>4, <2>2 DEF Streams
    <3>2. Len(written["stdout"]) \in Nat /\ Len(written["stderr"]) \in Nat
      BY <1>3 DEF Streams
    <3>3. Total' = Total + Len(bytes)
      <4>. DEFINE m == Len(written["stdout"])
                  k == Len(written["stderr"])
                  l == Len(bytes)
      <4>1. m \in Nat /\ k \in Nat /\ l \in Nat
        BY <1>4, <3>2
      <4>. HIDE DEF m, k, l
      <4>2. (m + l) + k = (m + k) + l /\ m + (k + l) = (m + k) + l
        BY <4>1
      <4>. QED  BY <3>1, <4>2 DEF Total, m, k, l
    <3>. QED  BY <1>1, <3>3
  <2>. QED  BY <2>1, <2>2 DEF Streams
<1>. QED  BY <1>1, <1>5, <1>6 DEF Limited, Used

LEMMA StepLimited ==
  ASSUME CommandInv, Limited, [CommandNext]_commandVars
  PROVE  Limited'
<1>1. CASE \E p \in Procs, s \in Streams, byte \in Bytes : Write(p, s, byte)
  BY <1>1, WriteLimited
<1>2. CASE Cancel \/ Fork \/ CloseOutput \/ \E p \in Procs : ProcessExits(p)
  BY <1>2, LimitedStays
  DEF Limited, Cancel, Fork, CloseOutput, ProcessExits, Change, output, ending
<1>3. CASE Check \/ ReadError \/ Finally \/ Wait \/ ExecCheck \/ Communicate
  BY <1>3, LimitedStays
  DEF Limited, Labels, Check, ReadError, Finally, Wait, ExecCheck, Communicate, MoveTo, End,
      outside, output, ending
<1>4. CASE Select
  <2>1. /\ ready' = {s \in open : Unread(s) # <<>> \/ Holders(s) = {}}
        /\ pc' = IF ready' = {} THEN "poll" ELSE "read"
        /\ seen' = [s \in Streams |-> IF pc' = "poll" THEN Len(written[s]) ELSE 0]
        /\ UNCHANGED <<tool, written, cancelled, late, outcome, root>>
    BY <1>4 DEF Select, outside, ending
  <2>2. \A s \in Streams : Len(written[s]) \in Nat
    BY DEF CommandInv, Reading
  <2>3. \A s \in Streams : seen'[s] <= Len(written[s])
    BY <2>1, <2>2
  <2>4. ready' \in SUBSET Used /\ pc' \in Labels
    BY <2>1 DEF CommandInv, Reading, Labels
  <2>. QED  BY <2>1, <2>3, <2>4, LimitedStays DEF Limited
<1>5. CASE Poll \/ Flush
  BY <1>5, LimitedStays DEF Limited, Labels, Poll, Flush, outside, ending
<1>6. CASE Read
  <2>1. /\ ready' \in SUBSET ready /\ pc' \in {"check", "read"}
        /\ UNCHANGED <<tool, written, cancelled, late, outcome, root, seen>>
    BY <1>6 DEF Read, outside, ending
  <2>. QED  BY <2>1, LimitedStays DEF Limited, Labels
<1>7. CASE Term \/ KillWait
  <2>1. /\ UNCHANGED <<tool, written, cancelled, late, ready, outcome, seen>>
        /\ pc' \in {"killwait", "ended"} /\ root' \in Privileged \union {root}
    BY <1>7 DEF Term, KillWait, Signal
  <2>2. Privileged \subseteq SUBSET Procs
    BY DEF Privileged, Procs, CommandInv, Reading
  <2>. QED  BY <2>1, <2>2, LimitedStays DEF Limited, Labels
<1>8. CASE UNCHANGED commandVars
  BY <1>8, LimitedStays DEF Limited, commandVars, outside, output, ending
<1>. QED  BY <1>1, <1>2, <1>3, <1>4, <1>5, <1>6, <1>7, <1>8 DEF CommandNext, Command, Worker

\* The state of a command is well typed: a thread never reads past what was
\* written and only watches outputs that the command has (_stream_subprocess).
THEOREM CommandTypeCorrect == CommandSpec => []CommandTypeOK
<1>1. CommandInit => Limited
  <2>. SUFFICES ASSUME CommandInit PROVE Limited
    OBVIOUS
  <2>1. written["stdout"] = <<>> /\ written["stderr"] = <<>> /\ Len(<<>>) = 0
    BY DEF CommandInit, Streams
  <2>2. Total <= MaxBytes
    BY <2>1, CommandOutputAssumption DEF Total
  <2>3. \A s \in Streams : seen[s] <= Len(written[s])
    BY <2>1 DEF CommandInit, Streams
  <2>. QED  BY <2>2, <2>3 DEF CommandInit, Limited, Labels
<1>2. CommandInv /\ Limited /\ [CommandNext]_commandVars => Limited'
  BY StepLimited
<1>3. CommandInv /\ TextInv /\ Limited => CommandTypeOK
  <2>. SUFFICES ASSUME CommandInv, TextInv, Limited PROVE CommandTypeOK
    OBVIOUS
  <2>1. \A s \in Streams : /\ read[s] \in 0..Len(written[s])
                           /\ seen[s] \in 0..Len(written[s])
    <3>1. \A s \in Streams : Len(written[s]) \in Nat
      BY DEF CommandInv, Reading
    <3>. QED  BY <3>1 DEF CommandInv, Reading, Limited
  <2>. QED  BY <2>1 DEF CommandInv, Reading, Grouped, TextInv, Limited, Labels, CommandTypeOK
<1>. QED  BY <1>1, <1>2, <1>3, CommandInvariance, TextInvariance, PTL DEF CommandSpec
===============================================================================

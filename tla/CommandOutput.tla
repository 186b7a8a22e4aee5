----------------------------- MODULE CommandOutput -----------------------------
(***************************************************************************)
(* One command of a tool call: the processes it consists of, the pipes or  *)
(* the terminal they write to, and the worker thread that reads, gives out *)
(* frames and ends the command (_stream_subprocess, golim/toolset/utils/   *)
(* bash_utils.py; exec_python, golim/toolset/tools.py).                    *)
(*                                                                         *)
(* The leader is the process that was started; the child is one it left in *)
(* the background, in the same group and with the same outputs.  A process *)
(* that runs as root cannot be signalled by the server.  The thread and    *)
(* the processes run at any relative speed, so a time limit is a step that *)
(* may always come.                                                        *)
(***************************************************************************)
EXTENDS OutputFraming

CONSTANTS
  OutputLineLimit,  \* OUTPUT_LINE_LIMIT, an even number
  MaxBytes          \* bound: bytes ever written

ASSUME CommandOutputAssumption ==
  /\ OutputLineLimit \in Nat /\ OutputLineLimit >= 2 /\ OutputLineLimit % 2 = 0
  /\ MaxBytes \in Nat

VARIABLES
  tool,       \* "pipe" and "pty": a bash command; "exec": a Python program
  root,       \* the processes that run as root; drawn when the first signal is sent
  group,       \* per process: what it does, and which outputs it holds
  written,    \* history, per stream: all bytes written to it
  read,       \* per stream: how many of them have been read
  open,       \* fd_to_stream: the streams still watched
  pending,    \* per stream: text without an end of line yet
  frames,     \* per stream: the frames given out
  cancelled,  \* the event of bind_tool_cancellation
  pc, ready,  \* the worker thread, and what select said is readable
  outcome,    \* how the call ends
  told,       \* history: processes that were sent a signal
  found,      \* history: the leader, as the thread found it when it ended it
  late,       \* history: the child was started after a signal was sent
  seen        \* history, per stream: bytes written when select last gave up waiting

output      == <<open, pending, frames, read>>
outside     == <<tool, group, written, cancelled, late>>
ending      == <<outcome, told, found, root>>
commandVars == <<outside, output, pc, ready, ending, seen>>

Procs   == {"leader", "child"}
Streams == {"stdout", "stderr"}
Used    == IF tool = "pty" THEN {"stdout"} ELSE Streams

Live(p)    == group[p].state = "live"
Holders(s) == {p \in Procs : Live(p) /\ s \in group[p].holds}
Unread(s)  == SubSeq(written[s], read[s] + 1, Len(written[s]))
AtEnd(s)   == Holders(s) = {} /\ Unread(s) = <<>>
Total      == Len(written["stdout"]) + Len(written["stderr"])

CommandTypeOK ==
  /\ tool \in {"pipe", "pty", "exec"} /\ root \in SUBSET Procs
  /\ group \in [Procs -> [state: {"none", "live", "dead"}, holds: SUBSET Streams]]
  /\ written \in [Streams -> Seq(Bytes)] /\ Total <= MaxBytes
  /\ \A s \in Streams : /\ read[s] \in 0..Len(written[s])
                        /\ seen[s] \in 0..Len(written[s])
  /\ open \in SUBSET Used /\ ready \in SUBSET Used
  /\ pending \in [Streams -> Seq(Units)]
  /\ frames \in [Streams -> Seq(Frames)]
  /\ cancelled \in BOOLEAN
  /\ pc \in {"check", "select", "poll", "read", "flush", "finally", "wait",
             "communicate", "term", "killwait", "ended"}
  /\ outcome \in {"none", "done", "cancelled", "timeout", "error"}
  /\ told \in SUBSET Procs /\ found \in {"none", "live", "dead"} /\ late \in BOOLEAN

CommandInit ==
  /\ tool \in {"pipe", "pty", "exec"}
  /\ root = {}
  /\ open = Used
  /\ group = [p \in Procs |-> [state |-> IF p = "leader" THEN "live" ELSE "none",
                              holds |-> IF p = "leader" THEN Used ELSE {}]]
  /\ written = [s \in Streams |-> <<>>] /\ read = [s \in Streams |-> 0]
  /\ pending = [s \in Streams |-> <<>>]
  /\ frames = [s \in Streams |-> <<>>]
  /\ cancelled = FALSE /\ pc = "check" /\ ready = {}
  /\ outcome = "none" /\ told = {} /\ found = "none" /\ late = FALSE
  /\ seen = [s \in Streams |-> 0]

-----------------------------------------------------------------------------
(* The command.                                                            *)

\* A terminal turns a line feed into a carriage return and a line feed.  What a
\* Python program writes is collected as a whole and is left out.  Once the call
\* is over nobody holds the other end.
Write(p, s, byte) ==
  LET bytes == IF tool = "pty" /\ byte = "lf" THEN <<"cr", "lf">> ELSE <<byte>>
  IN /\ p \in Holders(s)
     /\ tool # "exec" /\ Total + Len(bytes) <= MaxBytes
     /\ pc # "ended"
     /\ written' = [written EXCEPT ![s] = @ \o bytes]
     /\ UNCHANGED <<tool, group, cancelled, late, output, pc, ready, ending, seen>>

Change(p, state, holds) ==
  /\ group' = [group EXCEPT ![p] = [state |-> state, holds |-> holds]]
  /\ UNCHANGED <<tool, written, cancelled, output, pc, ready, ending, seen>>

Fork ==
  /\ Live("leader") /\ group["child"].state = "none"
  /\ Change("child", "live", group["leader"].holds)
  /\ late' = (told # {})

ProcessExits(p) == Live(p) /\ Change(p, "dead", {}) /\ UNCHANGED late

\* The leader closes what it writes to and works on.
CloseOutput ==
  /\ Live("leader") /\ group["leader"].holds # {}
  /\ Change("leader", "live", {}) /\ UNCHANGED late

\* The client has hung up on a call that is running.
Cancel ==
  /\ pc # "ended" /\ ~cancelled /\ cancelled' = TRUE
  /\ UNCHANGED <<tool, group, written, late, output, pc, ready, ending, seen>>

Command ==
  \/ \E p \in Procs, s \in Streams, byte \in Bytes : Write(p, s, byte)
  \/ \E p \in Procs : ProcessExits(p)
  \/ Fork
  \/ CloseOutput
  \/ Cancel

-----------------------------------------------------------------------------
(* Reading (_stream_subprocess).                                           *)

\* A step of the thread that only moves it.
MoveTo(label) == pc' = label /\ UNCHANGED <<outside, output, ready, ending, seen>>

End(label, how) ==
  /\ pc' = label /\ outcome' = how
  /\ UNCHANGED <<outside, output, ready, told, found, root, seen>>

\* If the event were not looked at.
CheckOpenOnly ==
  /\ pc = "check" /\ tool # "exec"
  /\ \/ open = {} /\ MoveTo("flush")
     \/ open # {} /\ MoveTo("select")

Check ==
  /\ pc = "check" /\ tool # "exec"
  /\ \/ open = {} /\ MoveTo("flush")
     \/ open # {} /\ cancelled /\ End("finally", "cancelled")
     \/ open # {} /\ ~cancelled /\ MoveTo("select")

\* If the leader were polled before what is readable is read.
SelectPollsFirst ==
  /\ pc = "select"
  /\ ready' = {s \in open : Unread(s) # <<>> \/ Holders(s) = {}}
  /\ pc' = IF ready' = {} \/ ~Live("leader") THEN "poll" ELSE "read"
  /\ seen' = [s \in Streams |-> IF pc' = "poll" THEN Len(written[s]) ELSE 0]
  /\ UNCHANGED <<outside, output, ending>>

\* select returns what is readable, or nothing after a second.
Select ==
  /\ pc = "select"
  /\ ready' = {s \in open : Unread(s) # <<>> \/ Holders(s) = {}}
  /\ pc' = IF ready' = {} THEN "poll" ELSE "read"
  /\ seen' = [s \in Streams |-> IF pc' = "poll" THEN Len(written[s]) ELSE 0]
  /\ UNCHANGED <<outside, output, ending>>

\* A leader that has exited is over, even if a child holds its outputs.
Poll ==
  /\ pc = "poll"
  /\ pc' = "check"
  /\ open' = IF Live("leader") THEN open ELSE {}
  /\ UNCHANGED <<outside, pending, frames, read, ready, ending, seen>>

\* os.read: some of what is there, at most 4096 bytes; nothing at the end.
\* select keeps the order in which it was given the streams.
Read ==
  /\ pc = "read"
  /\ LET s == IF "stdout" \in ready THEN "stdout" ELSE "stderr"
     IN
       /\ ready' = ready \ {s}
       /\ pc' = IF ready' = {} THEN "check" ELSE "read"
       /\ IF AtEnd(s)
          THEN open' = open \ {s} /\ UNCHANGED <<read, pending, frames>>
          ELSE \E n \in 1..Len(Unread(s)) :
                 LET text == pending[s] \o Decoded(SubSeq(Unread(s), 1, n))
                     split == AppendStreamText(text)
                 IN /\ read' = [read EXCEPT ![s] = @ + n]
                    /\ frames' = [frames EXCEPT ![s] = @ \o split.frames]
                    /\ pending' = [pending EXCEPT ![s] = split.pending]
                    /\ UNCHANGED open
  /\ UNCHANGED <<outside, ending, seen>>

ReadError == pc = "read" /\ End("finally", "error")

Flush ==
  /\ pc = "flush"
  /\ frames' = [s \in Streams |-> frames[s] \o Flushed(pending[s])]
  /\ pending' = [s \in Streams |-> <<>>]
  /\ pc' = "finally" /\ outcome' = "done"
  /\ UNCHANGED <<outside, open, read, ready, told, found, root, seen>>

-----------------------------------------------------------------------------
(* The end of a bash command, and _terminate_process_group.                *)

Finally ==
  /\ pc = "finally"
  /\ \/ ~Live("leader") /\ MoveTo("ended")
     \/ Live("leader") /\ outcome # "done" /\ MoveTo("term")
     \/ Live("leader") /\ outcome = "done" /\ MoveTo("wait")

\* A command that has closed its output gets a second to exit.
Wait ==
  /\ pc = "wait"
  /\ \/ ~Live("leader") /\ MoveTo("ended")
     \/ Live("leader") /\ MoveTo("term")

Signal(reach, dying, label) ==
  /\ told' = told \union reach
  /\ group' = [p \in Procs |-> IF p \in dying THEN [state |-> "dead", holds |-> {}] ELSE group[p]]
  /\ pc' = label
  /\ UNCHANGED <<tool, written, cancelled, late, output, ready, outcome, seen>>

\* What a signal to the group reaches, when the processes in r run as root.
Reach(r) == {p \in Procs : Live(p)} \ r

\* Only a privileged command runs as root, and pty is for some of those.
Privileged == CASE tool = "exec" -> {{}}
                [] tool = "pty"  -> {{"child"}, Procs}
                [] tool = "pipe" -> {{}, {"child"}, Procs}

\* If only the leader were signalled, not its group.
TermLeaderOnly ==
  /\ pc = "term"
  /\ found' = group["leader"].state /\ root' \in Privileged
  /\ LET reach == Reach(root') \ {"child"}
     IN \/ (~Live("leader") \/ reach = {}) /\ Signal({}, {}, "ended")
        \/ /\ Live("leader") /\ reach # {}
           /\ \E dying \in SUBSET reach : Signal(reach, dying, "killwait")

\* SIGTERM to the group; a process may ignore it.  Nothing more is tried when no
\* member may be signalled.
Term ==
  /\ pc = "term"
  /\ found' = group["leader"].state /\ root' \in Privileged
  /\ LET reach == Reach(root')
     IN \/ (~Live("leader") \/ reach = {}) /\ Signal({}, {}, "ended")
        \/ /\ Live("leader") /\ reach # {}
           /\ \E dying \in SUBSET reach : Signal(reach, dying, "killwait")

\* SIGKILL after a second, when the leader is still there.
KillWait ==
  /\ pc = "killwait"
  /\ \/ ~Live("leader") /\ Signal({}, {}, "ended")
     \/ Live("leader") /\ Signal(Reach(root), Reach(root), "ended")
  /\ UNCHANGED <<found, root>>

-----------------------------------------------------------------------------
(* exec_python: communicate in slices of a tenth of a second.              *)

ExecCheck ==
  /\ pc = "check" /\ tool = "exec"
  /\ \/ cancelled /\ End("term", "cancelled")
     \/ ~cancelled /\ End("term", "timeout")
     \/ ~cancelled /\ MoveTo("communicate")

\* All output is over and the program has exited.  What communicate raises, which
\* for input that is no UTF-8 it does while the program runs, ends the call and
\* leaves the program as it is.
Communicate ==
  /\ pc = "communicate"
  /\ \/ ~Live("leader") /\ (\A s \in Streams : Holders(s) = {}) /\ End("ended", "done")
     \/ End("ended", "error")
     \/ MoveTo("check")

Worker == \/ Check \/ Select \/ Poll \/ Read \/ ReadError \/ Flush
          \/ Finally \/ Wait \/ Term \/ KillWait
          \/ ExecCheck \/ Communicate

CommandNext == Command \/ Worker

CommandSpec == CommandInit /\ [][CommandNext]_commandVars

\* The thread goes on; a command owes nothing.
FairCommandSpec == CommandSpec /\ WF_commandVars(Worker)

-----------------------------------------------------------------------------
(* Properties.                                                             *)

\* The frames a bash command has given out, with what is pending, are the lines
\* of its output however the reads cut it.
FramesAreOfOutput ==
  tool # "exec" =>
    \A s \in Streams :
      TellLines(frames[s] \o Flushed(pending[s]), Decoded(SubSeq(written[s], 1, read[s])))

\* The final result holds all the lines of the frames when it does not say it was
\* shortened, and the first and the last ones when it does.
ResultKeepsEnds ==
  pc = "ended" /\ outcome = "done" /\ tool # "exec" =>
    LET lines == [s \in Streams |-> TextLines([i \in DOMAIN frames[s] |-> frames[s][i].line])]
        final == Finalized(lines, OutputLineLimit)
        half  == OutputLineLimit \div 2
    IN \A s \in Streams :
         /\ ~final.truncated => final.lines[s] = lines[s]
         /\ Len(final.lines[s]) <= OutputLineLimit + 1
         /\ \A i \in 1..half : i <= Len(lines[s]) =>
              /\ final.lines[s][i] = lines[s][i]
              /\ Reverse(final.lines[s])[i] = Reverse(lines[s])[i]

\* What a bash command wrote is what the user and the model are given: as frames
\* while it runs, where a CRLF is one end of a line also when a read tears it
\* (_append_stream_text), and in the result, which may leave out lines in the
\* middle and says so (_finalize_bash_payload).  Only a character that is torn
\* between two reads is lost.
OutputIsTold == FramesAreOfOutput /\ ResultKeepsEnds

\* A command that is taken for finished has been read up to where it was when
\* the thread last waited for output (_stream_subprocess, "fully drained"): what
\* may be lost is what was written after that.
OutputIsDrained ==
  outcome = "done" => \A s \in Used : read[s] >= seen[s]

\* When a call is over, so is the process it started, and a call that is given up
\* has told the whole group to end, as long as the leader was there to name the
\* group (_terminate_process_group).  What escapes is a process of root, one that
\* the leader starts after it was told, and the Python program of a call that
\* ended with an exception (exec_python), which nobody tells to end.
GroupIsTold ==
  pc = "ended" =>
    /\ Live("leader") => "leader" \in root \/ (tool = "exec" /\ outcome = "error")
    /\ found = "live" =>
         \A p \in Procs : Live(p) => p \in told \union root \/ (p = "child" /\ late)

\* A cancelled call ends, whatever its command does.
CancelEndsCall == cancelled ~> pc = "ended"
=============================================================================

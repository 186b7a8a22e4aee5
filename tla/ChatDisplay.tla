------------------------------ MODULE ChatDisplay ------------------------------
(***************************************************************************)
(* What the user sees of a run, and the threads that show it: the chat     *)
(* worker with its agent, a daemon thread for every request to the model   *)
(* (which retries it and passes the thinking on as it streams), and one    *)
(* for every tool call, which passes on its output.  All of them go        *)
(* through the TUIAgentEventsHandler of the run: it looks whether the run  *)
(* is active, and then has the user interface's thread do the change       *)
(* (call_from_thread), for which the caller waits.  A cancelled run leaves *)
(* its threads behind, and they may have passed that check.                *)
(*                                                                         *)
(* The widget is module Transcript.  Texts are numbered; an interrupt, a   *)
(* limit and the content of a reply are the choice of what the agent does  *)
(* next (module AgentRun has them).  Left out are the status and empty     *)
(* lines and the prompts for approvals and passwords (module ChatSession). *)
(*                                                                         *)
(* An ended run frees the screen twice, by itself and by a call of the     *)
(* user interface's thread; in between the next run may have started, and  *)
(* the second time lets the user start one beside it.  The worker is that  *)
(* of the latest run, and its elders are those it was started beside.      *)
(***************************************************************************)
EXTENDS Transcript, FiniteSets

CONSTANTS
  StartWidth,   \* width the application starts with
  MaxToolLines, \* MAX_TOOL_OUTPUT_LINES
  Fd(_),        \* the stream that a command prints a line to
  MaxPrompts,   \* bound: prompts and followups submitted
  MaxRequests,  \* bound: requests to the model
  MaxTools,     \* bound: tool calls
  MaxThoughts,  \* bound: chunks with thinking, of all requests
  MaxGestures,  \* bound: clicks and changes of the width
  MaxOutput     \* bound: lines that a command prints

ASSUME ChatDisplayAssumption ==
  /\ StartWidth \in Widths
  /\ MaxToolLines \in Nat
  /\ MaxPrompts \in Nat /\ MaxRequests \in Nat /\ MaxTools \in Nat
  /\ MaxThoughts \in Nat /\ MaxGestures \in Nat /\ MaxOutput \in Nat

Worker   == 0
Requests == 1..MaxRequests
Tools    == (MaxRequests + 1)..(MaxRequests + MaxTools)
Threads  == {Worker} \cup Requests \cup Tools
Fds      == {"stdout", "stderr"}

ASSUME FdAssumption == \A k \in Tools, i \in 1..MaxOutput : Fd(<<k, i>>) \in Fds

VARIABLES
  app,     \* _active_run_id, _busy, its cancel event, the hard cancel, whether
           \* the runtime has messages, the prompts submitted so far, and the
           \* calls of set_busy(False) that ended runs still wait for
  t,       \* the transcript
  buffer,  \* _thinking_buffer of the handler of the latest run
  worker,  \* run_chat and its agent: where it is, its request, its call, what
           \* it has yet to show, _last_stream of its handler, and its elders
  req,     \* per request: its thread, the run it serves, the thinking
           \* it passed on (thinking_parts), whether a reply came
  tool,    \* per tool call: its thread, the run it serves, the lines printed
  post,    \* per thread: the change it waits for in call_from_thread
  late,    \* history: changes a thread made since its run was given up
  gestures \* clicks and changes of the width so far

NoStream == [fd \in Fds |-> <<>>]

vars == <<app, t, buffer, worker, req, tool, post, late, gestures>>

Init ==
  /\ app = [run |-> 0, busy |-> FALSE, cancelled |-> FALSE, hard |-> FALSE,
            talk |-> FALSE, prompts |-> 0, freed |-> 0]
  /\ t = Empty(StartWidth)
  /\ buffer = <<>>
  /\ worker = [pc |-> "idle", req |-> 0, tool |-> 0, todo |-> <<>>, stream |-> NoStream,
               elders |-> <<>>]
  /\ req  = [r \in Requests |-> [pc |-> "none", run |-> 0, thoughts |-> 0, ok |-> FALSE]]
  /\ tool = [k \in Tools |-> [pc |-> "none", run |-> 0, lines |-> 0]]
  /\ post = [h \in Threads |-> <<>>]
  /\ late = [h \in Threads |-> 0]
  /\ gestures = 0

-----------------------------------------------------------------------------
(* The handler.                                                            *)

\* is_cancelled, the other way round.
Active(run) == ~app.cancelled /\ app.busy /\ app.run = run

RunOf(h) == CASE h \in Requests -> req[h].run
              [] h \in Tools    -> tool[h].run
              [] OTHER          -> app.run

Ready(h) == post[h] = <<>>
Post(h, op, of) == post' = [post EXCEPT ![h] = <<[op |-> op, of |-> of]>>]

\* Mutant: the handler looks at the cancel event alone.
EmitUncancelled(h, op, of) == IF ~app.cancelled THEN Post(h, op, of) ELSE UNCHANGED post

\* _ensure_active, then call_from_thread.
Emit(h, op, of) == IF Active(RunOf(h)) THEN Post(h, op, of) ELSE UNCHANGED post

Checked(op, of)   == [op |-> op, of |-> of, checked |-> TRUE]
Unchecked(op, of) == [op |-> op, of |-> of, checked |-> FALSE]

\* _emit_capped_lines: an ellipsis and the last lines, which a click expands; a
\* short result is its own summary.
Etc == <<0, 0>>
Summary(lines) ==
  IF Len(lines) <= MaxToolLines THEN lines
  ELSE <<Etc>> \o SubSeq(lines, Len(lines) - MaxToolLines + 1, Len(lines))

\* The user interface's part of it: the change itself, whatever became of the
\* run.
Change(op, of) ==
  CASE op = "line"       -> Write(t, Text(of))
    [] op = "hold"       -> Hold(t, Text(of))
    [] op = "commit"     -> Commit(t, Text(of))
    [] op = "discard"    -> Discard(t)
    [] op = "expandable" -> WriteExpandable(t, Summary(of), of)
    [] op = "delta"      -> ThinkingDelta(t, of)
    [] op = "trace"      -> ThinkingTrace(t, of)

Show(h) ==
  /\ ~Ready(h)
  /\ t' = Change(post[h][1].op, post[h][1].of)
  /\ post' = [post EXCEPT ![h] = <<>>]
  /\ late' = IF h # Worker /\ ~Active(RunOf(h)) THEN [late EXCEPT ![h] = @ + 1] ELSE late
  /\ UNCHANGED <<app, buffer, worker, req, tool, gestures>>

-----------------------------------------------------------------------------
(* The user.                                                               *)

\* A worker that has not left becomes an elder: what it waits for is shown, and
\* what else it has to show unless it looks at its run first.
Elders ==
  LET change == post[Worker][1]
      shown  == IF Ready(Worker) THEN <<>> ELSE <<Unchecked(change.op, change.of)>>
  IN IF worker.pc = "idle" THEN worker.elders
     ELSE Append(worker.elders, [pc |-> worker.pc, todo |-> shown \o worker.todo])

\* handle_submit with no run active: a followup is shown as a query, the first
\* prompt of a conversation empties the transcript.
Submit ==
  /\ ~app.busy /\ app.prompts < MaxPrompts
  /\ app' = [app EXCEPT !.run = @ + 1, !.prompts = @ + 1, !.busy = TRUE, !.cancelled = FALSE, !.hard = FALSE]
  /\ t' = IF app.talk THEN Write(t, Text(<<<<0, app.prompts + 1>>>>))
                      ELSE Empty(t.width)
  /\ buffer' = <<>>
  /\ worker' = [pc |-> "ask", req |-> 0, tool |-> 0, todo |-> <<>>, stream |-> NoStream,
                elders |-> Elders]
  /\ post' = [post EXCEPT ![Worker] = <<>>]
  /\ UNCHANGED <<req, tool, late, gestures>>

\* /new, only while nothing runs.
NewChat ==
  /\ ~app.busy /\ app.talk
  /\ app' = [app EXCEPT !.talk = FALSE]
  /\ t' = Empty(t.width)
  /\ UNCHANGED <<buffer, worker, req, tool, post, late, gestures>>

\* The second Escape.
Cancel ==
  /\ app.busy /\ ~app.hard
  /\ app' = [app EXCEPT !.cancelled = TRUE, !.hard = TRUE]
  /\ UNCHANGED <<t, buffer, worker, req, tool, post, late, gestures>>

\* A click on a row, a new width of the terminal.
Gesture == gestures < MaxGestures /\ gestures' = gestures + 1

ClickRow(y) ==
  /\ Gesture
  /\ t' = Click(t, y) /\ t' # t
  /\ UNCHANGED <<app, buffer, worker, req, tool, post, late>>

ResizeTo(w) ==
  /\ Gesture /\ w # t.width
  /\ t' = Resize(t, w)
  /\ UNCHANGED <<app, buffer, worker, req, tool, post, late>>

-----------------------------------------------------------------------------
(* A request to the model: with_retries around one of the providers, all   *)
(* in a thread that the agent polls and cannot stop.                       *)

Thoughts(r) == [i \in 1..req[r].thoughts |-> <<r, i>>]

\* A chunk with thinking, of the first attempt or a later one: thinking_parts,
\* then thinking_delta.
Think(r) ==
  /\ req[r].pc = "streaming" /\ Ready(r)
  /\ MapThenSumSet(LAMBDA x : req[x].thoughts, Requests) < MaxThoughts
  /\ req' = [req EXCEPT ![r].thoughts = @ + 1]
  /\ buffer' = IF Active(req[r].run) THEN Append(buffer, <<r, req[r].thoughts + 1>>) ELSE buffer
  /\ Emit(r, "delta", buffer')
  /\ UNCHANGED <<app, t, worker, tool, late, gestures>>

\* thinking_complete: the trace takes the place of what was collected.
Complete(r, text) ==
  IF req[r].thoughts > 0 /\ Active(req[r].run)
  THEN buffer' = <<>> /\ Post(r, "trace", text)
  ELSE UNCHANGED <<buffer, post>>

\* Mutant: the trace is what the handler collected.
CloseBuffer(r, ok) ==
  /\ req' = [req EXCEPT ![r].pc = "done", ![r].ok = ok]
  /\ Complete(r, buffer)

\* _chat_with_optional_thinking shows the thinking of all attempts as a trace,
\* also after an error; then the outcome is there, a reply or an exception.
Close(r, ok) ==
  /\ req' = [req EXCEPT ![r].pc = "done", ![r].ok = ok]
  /\ Complete(r, Thoughts(r))

\* The stream ends, with its last chunk or early, which is the same to the code.
StreamEnds(r) ==
  /\ req[r].pc = "streaming" /\ Ready(r)
  /\ Close(r, TRUE)
  /\ UNCHANGED <<app, t, worker, tool, late, gestures>>

\* The connection or a chunk was bad in the last of its attempts, each of which
\* may have passed thinking on.
RequestFails(r) ==
  /\ req[r].pc = "streaming" /\ Ready(r)
  /\ Close(r, FALSE)
  /\ UNCHANGED <<app, t, worker, tool, late, gestures>>

-----------------------------------------------------------------------------
(* The chat worker and the agent in it.                                    *)

Goto(label) == worker' = [worker EXCEPT !.pc = label]

Unused == {r \in Requests : req[r].pc = "none"}

\* The thread of the next request.
StartRequest(label) ==
  LET r == CHOOSE x \in Unused : \A y \in Unused : x <= y IN
  /\ worker' = [worker EXCEPT !.pc = label, !.req = r]
  /\ req' = [req EXCEPT ![r].pc = "streaming", ![r].run = app.run]

\* _chat_with_hard_cancel, unless it is too late or the limit is reached.
Ask ==
  /\ worker.pc = "ask"
  /\ IF app.hard \/ Unused = {} THEN Goto("end") /\ UNCHANGED req ELSE StartRequest("think")
  /\ UNCHANGED <<app, t, buffer, tool, post, late, gestures>>

\* The poll finds the hard cancel; the threads go on by themselves.
Abort ==
  /\ worker.pc \in {"think", "tool", "decide"} /\ app.hard
  /\ Goto("end")
  /\ UNCHANGED <<app, t, buffer, req, tool, post, late, gestures>>

\* The poll finds the outcome: a tool call, or the end of the run.
TakeReply ==
  /\ worker.pc = "think" /\ req[worker.req].pc = "done" /\ Ready(worker.req)
  /\ \/ req[worker.req].ok /\ \E k \in Tools : tool[k].pc = "none" /\ Goto("call")
     \/ Goto("end")
  /\ UNCHANGED <<app, t, buffer, req, tool, post, late, gestures>>

\* _prepare_tool_call shows the call ...
CallTool ==
  /\ worker.pc = "call"
  /\ LET k == CHOOSE x \in Tools : tool[x].pc = "none" IN
       /\ worker' = [worker EXCEPT !.pc = "dispatch", !.tool = k, !.stream = NoStream]
       /\ tool' = [tool EXCEPT ![k].pc = "shown", ![k].run = app.run]
       /\ Emit(Worker, "line", <<<<k, 0>>>>)
  /\ UNCHANGED <<app, t, buffer, req, late, gestures>>

\* ... then its thread is started.
Dispatch ==
  /\ worker.pc = "dispatch" /\ Ready(Worker)
  /\ Goto("tool")
  /\ tool' = [tool EXCEPT ![worker.tool].pc = "running"]
  /\ UNCHANGED <<app, t, buffer, req, post, late, gestures>>

\* A line of the command's output, shown in the place of the one before.
Output(k) ==
  /\ tool[k].pc = "running" /\ Ready(k) /\ tool[k].lines < MaxOutput
  /\ tool' = [tool EXCEPT ![k].lines = @ + 1]
  /\ LET line == <<k, tool[k].lines + 1>> IN
       /\ worker' = IF Active(tool[k].run) THEN [worker EXCEPT !.stream[Fd(line)] = <<line>>]
                                          ELSE worker
       /\ Emit(k, "hold", <<line>>)
  /\ UNCHANGED <<app, t, buffer, req, late, gestures>>

ToolEnds(k) ==
  /\ tool[k].pc = "running" /\ Ready(k)
  /\ tool' = [tool EXCEPT ![k].pc = "done"]
  /\ UNCHANGED <<app, t, buffer, worker, req, post, late, gestures>>

\* The call lasts long: the model is asked about it while its output goes on.
AskToWait ==
  /\ worker.pc = "tool" /\ tool[worker.tool].pc # "done" /\ ~app.hard /\ Unused # {}
  /\ StartRequest("decide")
  /\ UNCHANGED <<app, t, buffer, tool, post, late, gestures>>

\* Whatever the answer is, the agent goes back to the outcome of the call.
TakeDecision ==
  /\ worker.pc = "decide" /\ req[worker.req].pc = "done" /\ Ready(worker.req)
  /\ Goto("tool")
  /\ UNCHANGED <<app, t, buffer, req, tool, post, late, gestures>>

\* _emit_bash_result_output
OutputOf(k) ==
  LET lines == [i \in 1..tool[k].lines |-> <<k, i>>] IN
  IF Len(lines) <= MaxToolLines THEN [i \in DOMAIN lines |-> Checked("line", <<lines[i]>>)]
                                ELSE <<Checked("expandable", lines)>>

\* What tool_output shows of a result: for bash the streamed line makes way for
\* the output, with a word on an error ...
BashResult(k) ==
  IF ~Active(app.run) THEN {<<>>}
  ELSE {<<Unchecked("discard", <<>>)>> \o OutputOf(k) \o error :
          error \in {<<>>, <<Checked("line", <<<<k, 0>>>>)>>}}

\* ... for any other tool a line, if any, or what a click expands.
OtherResult(k) ==
  {<<>>} \cup {<<Checked(op, <<<<k, 0>>>>)>> : op \in {"line", "expandable"}}

\* Before that, the last line of each stream is made final, which a thread that
\* was left behind may have streamed since the call was shown.
TakeResult ==
  /\ worker.pc = "tool" /\ tool[worker.tool].pc = "done"
  /\ \/ \E todo \in BashResult(worker.tool) :
          worker' = [worker EXCEPT !.pc = "result", !.todo = todo, !.stream = NoStream]
     \/ /\ tool[worker.tool].lines = 0
        /\ \E todo \in OtherResult(worker.tool) :
             worker' = [worker EXCEPT !.pc = "stdout", !.todo = todo]
  /\ UNCHANGED <<app, t, buffer, req, tool, post, late, gestures>>

\* _commit_stream, for stdout and then for stderr.
CommitStream ==
  /\ worker.pc \in Fds /\ Ready(Worker)
  /\ worker' = [worker EXCEPT !.pc = IF worker.pc = "stdout" THEN "stderr" ELSE "result",
                             !.stream[worker.pc] = <<>>]
  /\ IF worker.stream[worker.pc] = <<>> THEN UNCHANGED post
     ELSE Emit(Worker, "commit", worker.stream[worker.pc])
  /\ UNCHANGED <<app, t, buffer, req, tool, late, gestures>>

\* The worker shows what it has to, one change after the other.
Tell ==
  /\ worker.pc \in {"result", "report"} /\ Ready(Worker) /\ worker.todo # <<>>
  /\ LET todo == Head(worker.todo) IN
       IF todo.checked THEN Emit(Worker, todo.op, todo.of) ELSE Post(Worker, todo.op, todo.of)
  /\ worker' = [worker EXCEPT !.todo = Tail(@)]
  /\ UNCHANGED <<app, t, buffer, req, tool, late, gestures>>

ResultShown ==
  /\ worker.pc = "result" /\ Ready(Worker) /\ worker.todo = <<>>
  /\ \/ Goto("ask")
     \/ Goto("end")
  /\ UNCHANGED <<app, t, buffer, req, tool, post, late, gestures>>

\* The agent has returned.  A prompt submitted since is shown and run ...
PopFollowup ==
  /\ worker.pc = "end" /\ app.busy /\ app.prompts < MaxPrompts
  /\ Goto("followup") /\ Post(Worker, "line", <<<<0, app.prompts + 1>>>>)
  /\ app' = [app EXCEPT !.prompts = @ + 1, !.talk = TRUE]
  /\ UNCHANGED <<t, buffer, req, tool, late, gestures>>

\* ... with the flags cleared, so that the interface listens again, also to
\* the threads left behind.
RunFollowup ==
  /\ worker.pc = "followup" /\ Ready(Worker)
  /\ Goto("ask")
  /\ app' = [app EXCEPT !.cancelled = FALSE, !.hard = FALSE]
  /\ late' = [h \in Threads |-> 0]
  /\ UNCHANGED <<t, buffer, req, tool, post, gestures>>

\* Otherwise the answer is shown, with the name of its log ...
Report ==
  /\ worker.pc = "end" /\ app.busy
  /\ worker' = [worker EXCEPT !.pc = "report",
                  !.todo = <<Unchecked("line", <<<<0, 0>>>>)>>]
  /\ app' = [app EXCEPT !.talk = TRUE]
  /\ UNCHANGED <<t, buffer, req, tool, post, late, gestures>>

\* ... unless the run is not active any more.
Unheard ==
  /\ worker.pc = "end" /\ ~app.busy
  /\ Goto("idle")
  /\ app' = [app EXCEPT !.talk = TRUE]
  /\ UNCHANGED <<t, buffer, req, tool, post, late, gestures>>

\* The run is over: the screen is free, and will be told so once more.
Free ==
  /\ worker.pc = "report" /\ Ready(Worker) /\ worker.todo = <<>>
  /\ Goto("idle")
  /\ app' = IF app.busy THEN [app EXCEPT !.busy = FALSE, !.freed = @ + 1] ELSE app
  /\ UNCHANGED <<t, buffer, req, tool, post, late, gestures>>

\* set_busy(False) of an ended run, whichever run is on.
SetBusy ==
  /\ app.freed > 0
  /\ app' = [app EXCEPT !.busy = FALSE, !.freed = @ - 1]
  /\ UNCHANGED <<t, buffer, worker, req, tool, post, late, gestures>>

-----------------------------------------------------------------------------
(* The elders, whose handlers are silent.                                  *)

ElderShows(i) ==
  LET todo == Head(worker.elders[i].todo) IN
  /\ worker.elders[i].todo # <<>>
  /\ worker' = [worker EXCEPT !.elders[i].todo = Tail(@)]
  /\ t' = IF todo.checked THEN t ELSE Change(todo.op, todo.of)
  /\ UNCHANGED <<app, buffer, req, tool, post, late, gestures>>

\* The followup that it had popped: the flags it clears are those of the latest run.
ElderRuns(i) ==
  /\ worker.elders[i].pc = "followup" /\ worker.elders[i].todo = <<>>
  /\ worker' = [worker EXCEPT !.elders[i].pc = "ask"]
  /\ app' = [app EXCEPT !.cancelled = FALSE, !.hard = FALSE]
  /\ late' = [h \in Threads |-> 0]
  /\ UNCHANGED <<t, buffer, req, tool, post, gestures>>

\* Its agent returns, and leaves the runtime its messages.
ElderLeaves(i) ==
  /\ worker.elders[i].pc \notin {"idle", "followup"} /\ worker.elders[i].todo = <<>>
  /\ worker' = [worker EXCEPT !.elders[i].pc = "idle"]
  /\ app' = IF worker.elders[i].pc = "report" THEN app ELSE [app EXCEPT !.talk = TRUE]
  /\ UNCHANGED <<t, buffer, req, tool, post, late, gestures>>

Elder(i) == ElderShows(i) \/ ElderRuns(i) \/ ElderLeaves(i)

-----------------------------------------------------------------------------

User == \/ Submit \/ NewChat \/ Cancel
        \/ \E y \in 1..Len(t.lines) : ClickRow(y)
        \/ \E w \in Widths : ResizeTo(w)

Request(r) == Think(r) \/ StreamEnds(r) \/ RequestFails(r)

Work == \/ Ask \/ Abort \/ TakeReply \/ CallTool \/ Dispatch \/ AskToWait \/ TakeDecision
        \/ TakeResult \/ CommitStream \/ Tell \/ ResultShown \/ PopFollowup \/ RunFollowup
        \/ Report \/ Unheard \/ Free

Next ==
  \/ User \/ Work \/ SetBusy
  \/ \E i \in DOMAIN worker.elders : Elder(i)
  \/ \E h \in Threads : Show(h)
  \/ \E r \in Requests : Request(r)
  \/ \E k \in Tools : Output(k) \/ ToolEnds(k)

Spec == Init /\ [][Next]_vars

-----------------------------------------------------------------------------

TypeOK ==
  /\ app \in [run: 0..MaxPrompts, busy: BOOLEAN, cancelled: BOOLEAN, hard: BOOLEAN,
              talk: BOOLEAN, prompts: 0..MaxPrompts, freed: Nat]
  /\ worker.pc \in {"idle", "ask", "think", "call", "dispatch", "tool", "decide", "result",
                    "end", "followup", "report"} \cup Fds
  /\ worker.req \in {0} \cup Requests /\ worker.tool \in {0} \cup Tools
  /\ \A r \in Requests :
       /\ req[r].pc \in {"none", "streaming", "done"}
       /\ req[r].thoughts \in 0..MaxThoughts
  /\ \A k \in Tools : tool[k].pc \in {"none", "shown", "running", "done"}
  /\ \A h \in Threads : Len(post[h]) <= 1 /\ late[h] \in Nat
  /\ t.live \in 0..Len(t.entries) /\ t.width \in Widths /\ gestures \in 0..MaxGestures

\* Safety.  Whatever was streamed, held, committed, discarded, clicked and
\* resized, in whatever order the threads did it, the rows on screen and the
\* counts by which a click finds its entry are those of what was written.
ScreenIsFaithful == Faithful(t)

\* Safety.  A trace that is closed is all the thinking of one request, also
\* when the thread of an abandoned request streams into the same handler.
TracesAreOwn ==
  \A i \in DOMAIN t.entries :
    LET e == t.entries[i] IN
    e.kind = "thinking" /\ ~e.live => \E r \in Requests : e.text = Thoughts(r)

\* Safety.  Once a run is given up a thread that it leaves behind changes the
\* transcript at most once more.
CancelSilences == \A h \in Threads \ {Worker} : late[h] <= 1

\* Action property.  What is in the transcript keeps its place and its text
\* until the transcript is emptied; thinking that goes on may be replaced.
WrittenStays ==
  [][ \/ t'.log = <<>>
      \/ /\ Len(t'.log) >= Len(t.log)
         /\ \A i \in DOMAIN t.log :
              /\ t'.log[i].id = t.log[i].id
              /\ t.log[i].id = 0 => t'.log[i].shown = t.log[i].shown
         /\ \A i \in DOMAIN t.entries :
              ~t.entries[i].live => t'.entries[i].text = t.entries[i].text ]_vars
=============================================================================

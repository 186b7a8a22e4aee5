------------------------------- MODULE AgentRun -------------------------------
(***************************************************************************)
(* A conversation with the model: Runtime starts runs and followups, and   *)
(* ToolAgent executes one in the chat worker thread.  Every tool call has  *)
(* a daemon thread of its own, which the agent polls and cannot kill; the  *)
(* user interface sets two flags at any moment, which the agent looks at   *)
(* where the code does.                                                    *)
(*                                                                         *)
(* A run whose worker has not left when the interface already takes the    *)
(* next input has another run beside it, on the same Runtime.  Of that one *)
(* only what it takes from Runtime and leaves there is modelled, without   *)
(* tool calls of its own, and one at a time.                               *)
(*                                                                         *)
(* A message is its role and the tool calls it asks for or answers; what   *)
(* it says, and the thinking traces folded into it, are left out.          *)
(***************************************************************************)
EXTENDS Naturals, Sequences, SequencesExt

CONSTANTS
  MaxIterations,  \* MAX_AGENT_ITERATIONS
  MaxReply,       \* bound: tool calls in one reply of the model
  MaxCalls,       \* bound: tool calls ever asked for
  MaxRuns         \* bound: runs, followups and new chats

ASSUME AgentRunAssumption ==
  /\ MaxIterations \in Nat \ {0}
  /\ MaxReply \in Nat /\ MaxCalls \in Nat /\ MaxRuns \in Nat

VARIABLES
  interrupt, hard,  \* _interrupt_requested, _hard_cancel_requested
  saved,     \* Runtime.messages and execution_history, between runs
  other,     \* the run beside the agent's, with what it took from Runtime
  agent,     \* ToolAgent and where the chat worker thread is
  thread,    \* per tool call: its daemon thread, whether its socket is shut
  issued,    \* tool calls asked for so far
  runs,      \* runs started so far
  base,      \* history: `issued' when the conversation was last reset
  beside,    \* history: the conversation was shared by two runs
  late       \* history: calls dispatched since the interrupt

flags  == <<interrupt, hard>>
second == <<other, beside>>
vars   == <<interrupt, hard, saved, agent, thread, issued, runs, base, late, other, beside>>

Ids     == 1..MaxCalls
Message == [role: {"system", "user", "assistant", "tool"}, calls: Seq(Ids), call: 0..MaxCalls]
Say(role)   == [role |-> role, calls |-> <<>>, call |-> 0]
Asks(calls) == [role |-> "assistant", calls |-> calls, call |-> 0]
Result(k)   == [role |-> "tool", calls |-> <<>>, call |-> k]

Rest == [pc |-> "idle", messages |-> <<>>, history |-> <<>>, calls |-> <<>>,
         done |-> 0, turn |-> 0, terminated |-> FALSE]
Off  == [on |-> FALSE, messages |-> <<>>, history |-> <<>>]

TypeOK ==
  /\ interrupt \in BOOLEAN /\ hard \in BOOLEAN
  /\ saved \in [messages: Seq(Message), history: Seq(Ids)]
  /\ agent \in [pc: {"idle", "ensure", "prepare", "ask", "think", "call",
                     "tool", "decide", "summary"},
                messages: Seq(Message), history: Seq(Ids), calls: Seq(Ids),
                done: Nat, turn: 0..MaxIterations, terminated: BOOLEAN]
  /\ thread \in [Ids -> [pc: {"none", "spawned", "open", "asking", "done", "taken"},
                         shut: BOOLEAN]]
  /\ issued \in 0..MaxCalls /\ base \in 0..issued
  /\ runs \in 0..MaxRuns /\ late \in Nat
  /\ other \in [on: BOOLEAN, messages: Seq(Message), history: Seq(Ids)] /\ beside \in BOOLEAN

Init ==
  /\ interrupt = FALSE /\ hard = FALSE
  /\ saved = [messages |-> <<>>, history |-> <<>>]
  /\ agent = Rest
  /\ thread = [k \in Ids |-> [pc |-> "none", shut |-> FALSE]]
  /\ issued = 0 /\ runs = 0 /\ base = 0 /\ late = 0
  /\ other = Off /\ beside = FALSE

-----------------------------------------------------------------------------
(* The user interface.  The first Escape and a queued clarification        *)
(* interrupt; Escape on top of an interrupt cancels hard.                  *)

Interrupt ==
  /\ ~interrupt
  /\ interrupt' = TRUE
  /\ UNCHANGED <<hard, saved, agent, thread, issued, runs, base, late, second>>

HardCancel ==
  /\ interrupt /\ ~hard
  /\ hard' = TRUE
  /\ UNCHANGED <<interrupt, saved, agent, thread, issued, runs, base, late, second>>

ClearFlags == interrupt' = FALSE /\ hard' = FALSE /\ late' = 0

\* The end of a run frees the interface in two steps; when the second comes
\* late, the next run is under way and the interface not busy.
Stale == runs > 1

\* reset_conversation, for /new: only while the interface is not busy.
NewChat ==
  /\ (agent.pc = "idle" /\ ~other.on) \/ Stale
  /\ runs < MaxRuns /\ saved.messages # <<>>
  /\ ClearFlags
  /\ saved' = [messages |-> <<>>, history |-> <<>>]
  /\ base' = issued /\ runs' = runs + 1
  /\ beside' = (agent.pc # "idle" \/ other.on)
  /\ UNCHANGED <<agent, thread, issued, other>>

\* A run is started beside the agent's: it clears the flags, for both, and
\* takes what Runtime holds.
OtherStarts ==
  /\ agent.pc # "idle" /\ Stale /\ ~other.on /\ runs < MaxRuns
  /\ ClearFlags
  /\ other' = [on |-> TRUE, messages |-> saved.messages, history |-> saved.history]
  /\ beside' = TRUE /\ runs' = runs + 1
  /\ UNCHANGED <<saved, agent, thread, issued, base>>

\* What the other run makes of what it took: the system prompt at the head, what
\* the user says and, unless it was interrupted, the answer.
OtherSays(answer) ==
  (IF other.messages = <<>> THEN <<Say("system")>>
                            ELSE [other.messages EXCEPT ![1] = Say("system")])
  \o <<Say("user")>> \o answer

\* It leaves that in Runtime, whatever has been saved there since, or it fails
\* before it has an agent.
OtherEnds ==
  /\ other.on
  /\ \/ UNCHANGED saved
     \/ \E answer \in {<<>>, <<Say("assistant")>>} :
          saved' = [messages |-> OtherSays(answer), history |-> other.history]
  /\ other' = Off
  /\ UNCHANGED <<flags, agent, thread, issued, runs, base, late, beside>>

-----------------------------------------------------------------------------
(* Runtime.run and run_followup, up to the start of the agent.             *)

Goto(label) == agent' = [agent EXCEPT !.pc = label]

\* run clears the flags first, and comes only for an empty conversation.
Run ==
  /\ agent.pc = "idle" /\ runs < MaxRuns /\ saved.messages = <<>>
  /\ ClearFlags
  /\ Goto("prepare") /\ runs' = runs + 1
  /\ UNCHANGED <<saved, thread, issued, base, second>>

\* run_followup wakes the tool server first ...
Followup ==
  /\ agent.pc = "idle" /\ runs < MaxRuns
  /\ Goto("ensure") /\ runs' = runs + 1
  /\ UNCHANGED <<flags, saved, thread, issued, base, late, second>>

\* The next turn of the loop, or its end.
NextTurn(a) ==
  IF a.turn < MaxIterations THEN [a EXCEPT !.pc = "ask", !.turn = @ + 1]
                            ELSE [a EXCEPT !.pc = "summary"]

StartAgent(messages, history) ==
  agent' = NextTurn([Rest EXCEPT !.messages = Append(messages, Say("user")),
                                 !.history = history])

\* Mutant: the followup starts from its own message.
StartFollowupFresh ==
  /\ agent.pc = "ensure" /\ saved.messages # <<>>
  /\ ClearFlags
  /\ StartAgent(<<Say("system")>>, saved.history)
  /\ UNCHANGED <<saved, thread, issued, runs, base, second>>

\* ... then clears the flags, and resumes from the saved conversation, whose
\* system prompt is put back at its head.
StartFollowup ==
  /\ agent.pc = "ensure" /\ saved.messages # <<>>
  /\ ClearFlags
  /\ StartAgent([saved.messages EXCEPT ![1] = Say("system")], saved.history)
  /\ UNCHANGED <<saved, thread, issued, runs, base, second>>

\* A followup of nothing is a run.
FollowupRuns ==
  /\ agent.pc = "ensure" /\ saved.messages = <<>>
  /\ ClearFlags
  /\ Goto("prepare")
  /\ UNCHANGED <<saved, thread, issued, runs, base, second>>

\* The server is up, its tools are known, the skills are selected.
StartRun ==
  /\ agent.pc = "prepare"
  /\ StartAgent(<<Say("system")>>, <<>>)
  /\ UNCHANGED <<flags, saved, thread, issued, runs, base, late, second>>

\* No server, or no tool list: the exception passes through Runtime.
StartFails ==
  /\ agent.pc \in {"ensure", "prepare"}
  /\ agent' = Rest
  /\ UNCHANGED <<flags, saved, thread, issued, runs, base, late, second>>

-----------------------------------------------------------------------------
(* How a run ends: the agent keeps what is safe to resume from, and        *)
(* Runtime copies it.                                                      *)

End(messages, history) ==
  /\ saved' = [messages |-> messages, history |-> history]
  /\ agent' = Rest

\* An assistant message that asks for tools is not kept without the results.
Safe(messages) ==
  LET n == Len(messages) IN
  IF n > 0 /\ messages[n].calls # <<>> THEN SubSeq(messages, 1, n - 1) ELSE messages

\* _interrupt_result
Interrupted(history) == End(Safe(agent.messages), history)

\* Mutant: the history is only kept by an orderly end.
RaiseForgetful ==
  IF hard THEN Interrupted(agent.history) ELSE End(agent.messages, saved.history)

\* The exception handler of _run_action_agent.
Raise == IF hard THEN Interrupted(agent.history) ELSE End(agent.messages, agent.history)

-----------------------------------------------------------------------------
(* The loop: one request to the model, then the tool calls of its reply.   *)

\* _chat_with_hard_cancel starts the request unless it is too late.
Ask ==
  /\ agent.pc = "ask"
  /\ IF hard THEN Raise ELSE Goto("think") /\ UNCHANGED saved
  /\ UNCHANGED <<flags, thread, issued, runs, base, late, second>>

\* The poll finds the hard cancel; a later reply is discarded.
AbortThink ==
  /\ agent.pc = "think" /\ hard
  /\ Raise
  /\ UNCHANGED <<flags, thread, issued, runs, base, late, second>>

ProviderFails ==
  /\ agent.pc \in {"think", "summary"}
  /\ Raise
  /\ UNCHANGED <<flags, thread, issued, runs, base, late, second>>

NewCalls(n) == [i \in 1..n |-> issued + i]

\* The reply asks for n tool calls.
ReplyCalls(n) ==
  /\ agent.pc = "think" /\ n > 0 /\ issued + n <= MaxCalls
  /\ issued' = issued + n
  /\ IF interrupt THEN Interrupted(agent.history)
     ELSE /\ agent' = [agent EXCEPT !.pc = "call", !.calls = NewCalls(n), !.done = 0]
          /\ UNCHANGED saved
  /\ UNCHANGED <<flags, thread, runs, base, late, second>>

\* The reply is the answer (_finalize_direct_response).
ReplyAnswer ==
  /\ agent.pc = "think"
  /\ IF interrupt THEN Interrupted(agent.history)
     ELSE End(Append(agent.messages, Say("assistant")), agent.history)
  /\ UNCHANGED <<flags, thread, issued, runs, base, late, second>>

\* _summarize_after_iteration_limit: a plain request, with a prompt of its
\* own, that no flag cuts short.
Summarize ==
  /\ agent.pc = "summary"
  /\ End(agent.messages \o <<Say("user"), Say("assistant")>>, agent.history)
  /\ UNCHANGED <<flags, thread, issued, runs, base, late, second>>

-----------------------------------------------------------------------------
(* One tool call.                                                          *)

Current == agent.calls[agent.done + 1]

\* An assistant message and the results of all its calls.
Exchange(calls) == <<Asks(calls)>> \o [i \in DOMAIN calls |-> Result(calls[i])]

\* Mutant: the flag is looked at when all calls of the reply are done.
RecordAll ==
  LET history == Append(agent.history, Current)
      done    == agent.done + 1 IN
  CASE done < Len(agent.calls) ->
         /\ agent' = [agent EXCEPT !.pc = "call", !.history = history, !.done = done]
         /\ UNCHANGED saved
    [] done >= Len(agent.calls) /\ interrupt -> Interrupted(history)
    [] OTHER ->
         /\ agent' = NextTurn([agent EXCEPT !.history = history, !.calls = <<>>, !.done = 0,
                                            !.messages = @ \o Exchange(agent.calls)])
         /\ UNCHANGED saved

\* Mutant: an interrupted reply is kept as far as it got.
RecordPartial ==
  LET history == Append(agent.history, Current)
      done    == agent.done + 1 IN
  CASE interrupt ->
         End(agent.messages \o SubSeq(Exchange(agent.calls), 1, done + 1), history)
    [] ~interrupt /\ done < Len(agent.calls) ->
         /\ agent' = [agent EXCEPT !.pc = "call", !.history = history, !.done = done]
         /\ UNCHANGED saved
    [] OTHER ->
         /\ agent' = NextTurn([agent EXCEPT !.history = history, !.calls = <<>>, !.done = 0,
                                            !.messages = @ \o Exchange(agent.calls)])
         /\ UNCHANGED saved

\* The result of the current call is there: it is recorded, then the flag is
\* looked at; the messages are extended when all calls are done.
Record ==
  LET history == Append(agent.history, Current)
      done    == agent.done + 1 IN
  CASE interrupt -> Interrupted(history)
    [] ~interrupt /\ done < Len(agent.calls) ->
         /\ agent' = [agent EXCEPT !.pc = "call", !.history = history, !.done = done]
         /\ UNCHANGED saved
    [] OTHER ->
         /\ agent' = NextTurn([agent EXCEPT !.history = history, !.calls = <<>>, !.done = 0,
                                            !.messages = @ \o Exchange(agent.calls)])
         /\ UNCHANGED saved

\* Permissions lets the call pass, or the user does: its thread is started.
Dispatch ==
  /\ agent.pc = "call"
  /\ agent' = [agent EXCEPT !.pc = "tool", !.terminated = FALSE]
  /\ thread' = [thread EXCEPT ![Current].pc = "spawned"]
  /\ late' = IF interrupt THEN late + 1 ELSE late
  /\ UNCHANGED <<flags, saved, issued, runs, base, second>>

\* The call is denied: the denial is its result.
Deny ==
  /\ agent.pc = "call"
  /\ Record
  /\ UNCHANGED <<flags, thread, issued, runs, base, late, second>>

\* Arguments that are no object raise before anything is dispatched.
Malformed ==
  /\ agent.pc = "call"
  /\ Raise
  /\ UNCHANGED <<flags, thread, issued, runs, base, late, second>>

\* FastMCPClient.close: the sockets that are open are shut.
CloseSocket == thread' = [thread EXCEPT ![Current].shut =
                            @ \/ thread[Current].pc \in {"open", "asking"}]

\* Mutant: the poll waits for the outcome before it looks at the flag.
AbortToolLate ==
  /\ agent.pc = "tool" /\ hard /\ thread[Current].pc = "done"
  /\ CloseSocket /\ Raise
  /\ UNCHANGED <<flags, issued, runs, base, late, second>>

\* The poll finds the hard cancel and leaves the thread behind.
AbortTool ==
  /\ agent.pc = "tool" /\ hard
  /\ CloseSocket /\ Raise
  /\ UNCHANGED <<flags, issued, runs, base, late, second>>

\* The poll finds the outcome; a terminated call counts as cancelled.
TakeOutcome ==
  /\ agent.pc = "tool" /\ thread[Current].pc = "done"
  /\ thread' = [thread EXCEPT ![Current].pc = "taken"]
  /\ Record
  /\ UNCHANGED <<flags, issued, runs, base, late, second>>

\* The outcome is an exception of the thread; what call_tool raises is not, it
\* is turned into a result.
OutcomeRaises ==
  /\ agent.pc = "tool" /\ thread[Current].pc = "done" /\ ~agent.terminated
  /\ Raise
  /\ UNCHANGED <<flags, thread, issued, runs, base, late, second>>

\* After LONG_TOOL_NOTICE_SECONDS the model is asked what to do.
Notice ==
  /\ agent.pc = "tool" /\ thread[Current].pc # "done"
  /\ ~agent.terminated /\ ~hard
  /\ Goto("decide")
  /\ UNCHANGED <<flags, saved, thread, issued, runs, base, late, second>>

\* Anything but a clear word keeps the tool.
DecideKeep ==
  /\ agent.pc = "decide"
  /\ Goto("tool")
  /\ UNCHANGED <<flags, saved, thread, issued, runs, base, late, second>>

DecideTerminate ==
  /\ agent.pc = "decide"
  /\ CloseSocket
  /\ agent' = [agent EXCEPT !.pc = "tool", !.terminated = TRUE]
  /\ UNCHANGED <<flags, saved, issued, runs, base, late, second>>

AbortDecide ==
  /\ agent.pc = "decide" /\ hard
  /\ CloseSocket /\ Raise
  /\ UNCHANGED <<flags, issued, runs, base, late, second>>

-----------------------------------------------------------------------------
(* The thread of a tool call, which outlives a run that gives it up.       *)

Move(k, from, to) ==
  /\ thread[k].pc = from
  /\ thread' = [thread EXCEPT ![k].pc = to]
  /\ UNCHANGED <<flags, saved, agent, issued, runs, base, late, second>>

\* The socket is connected and the request sent, or there is no server.
Connect(k) == Move(k, "spawned", "open") \/ Move(k, "spawned", "done")

\* The server asks for an approval or a password in the middle of the call.
AskUser(k) == ~thread[k].shut /\ Move(k, "open", "asking")

UserAnswers(k) == Move(k, "asking", "open")

\* The result frame comes, or the end of a shut socket.
ToolEnds(k) == Move(k, "open", "done")

-----------------------------------------------------------------------------

Gate == Dispatch \/ Deny \/ Malformed

Next ==
  \/ Interrupt \/ HardCancel \/ NewChat \/ OtherStarts \/ OtherEnds
  \/ Run \/ Followup \/ StartFollowup \/ FollowupRuns \/ StartRun \/ StartFails
  \/ Ask \/ AbortThink \/ ProviderFails \/ ReplyAnswer \/ Summarize
  \/ \E n \in 1..MaxReply : ReplyCalls(n)
  \/ Gate \/ AbortTool \/ TakeOutcome \/ OutcomeRaises \/ Notice
  \/ DecideKeep \/ DecideTerminate \/ AbortDecide
  \/ \E k \in Ids : Connect(k) \/ AskUser(k) \/ UserAnswers(k) \/ ToolEnds(k)

Spec == Init /\ [][Next]_vars

\* The chat worker runs.  Escape answers an open prompt and a cancelled
\* interface denies the next ones, so the gate opens; plain requests to the
\* provider have a time limit.  Tools and polled requests may last for ever.
Fairness ==
  /\ WF_vars(Ask) /\ WF_vars(AbortThink) /\ WF_vars(Gate)
  /\ WF_vars(AbortTool) /\ WF_vars(TakeOutcome) /\ WF_vars(AbortDecide)
  /\ WF_vars(Summarize)

FairSpec == Spec /\ Fairness

-----------------------------------------------------------------------------

Running == agent.pc \notin {"idle", "ensure", "prepare"}
Kept    == IF Running THEN agent ELSE saved

\* Every assistant message that asks for tools is followed by the results of
\* its calls in their order, and there are no other results.
WellPaired(s) ==
  \A i \in DOMAIN s :
    /\ \A j \in DOMAIN s[i].calls :
         i + j \in DOMAIN s /\ s[i + j] = Result(s[i].calls[j])
    /\ s[i].role = "tool" =>
         \E h \in 1..(i - 1) :
           i - h \in DOMAIN s[h].calls /\ s[h].calls[i - h] = s[i].call

\* The conversation a request in flight carries.
Request ==
  IF agent.pc \in {"decide", "summary"} THEN Append(agent.messages, Say("user"))
                                        ELSE agent.messages

-----------------------------------------------------------------------------
(* normalize_messages_for_openai, which every request to such a provider   *)
(* passes.  Each call of the history has an identifier, its number here,   *)
(* and a name, which calls may share.  A result names its call by the      *)
(* identifier only if the provider that made the call gave it one (the     *)
(* user may have changed the provider since); otherwise it is matched by   *)
(* name.  What counts is the call each result is sent for, 0 for none.     *)

\* Mutant: the latest of the calls that wait under the name is taken.
ForLatest(queued, k, known) ==
  CASE queued = <<>> -> 0
    [] queued # <<>> /\ k \in known /\ Contains(queued, k) ->
         CHOOSE i \in DOMAIN queued : queued[i] = k /\ \A j \in 1..(i - 1) : queued[j] # k
    [] OTHER -> Len(queued)

\* The place of the call that the result of k is sent for, among those that wait
\* under its name; 0 for none.
For(queued, k, known) ==
  CASE queued = <<>> -> 0
    [] queued # <<>> /\ k \in known /\ Contains(queued, k) ->
         CHOOSE i \in DOMAIN queued : queued[i] = k /\ \A j \in 1..(i - 1) : queued[j] # k
    [] OTHER -> 1

\* The calls of a message that queue up under the name n; last[i] is what the
\* last i of them add.
Queued(calls, name, n) ==
  LET last[i \in 0..Len(calls)] ==
        IF i = 0 THEN <<>>
        ELSE LET k == calls[Len(calls) - i + 1]
             IN (IF name[k] = n THEN <<k>> ELSE <<>>) \o last[i - 1]
  IN last[Len(calls)]

\* One message: its calls queue up, or it is a result and takes one out.
Normalize(acc, m, name, known) ==
  IF m.role = "tool"
  THEN LET n == name[m.call]
           i == For(acc.pending[n], m.call, known)
       IN IF i = 0 THEN [acc EXCEPT !.sent = Append(@, 0)]
          ELSE [pending |-> [acc.pending EXCEPT ![n] = RemoveAt(@, i)],
                sent    |-> Append(acc.sent, acc.pending[n][i])]
  ELSE [pending |-> [n \in DOMAIN acc.pending |-> acc.pending[n] \o Queued(m.calls, name, n)],
        sent    |-> Append(acc.sent, 0)]

\* For every message the call that it is sent as the result of, or 0.
Normalized(messages, name, known) ==
  LET after[i \in 0..Len(messages)] ==
        IF i = 0
        THEN [pending |-> [n \in {name[k] : k \in Ids} |-> <<>>], sent |-> <<>>]
        ELSE Normalize(after[i - 1], messages[i], name, known)
  IN after[Len(messages)].sent

-----------------------------------------------------------------------------

\* Safety.  Whatever the names of the calls and whichever of them came with an
\* identifier, a provider is told every result as that of its own call.
ResultsMeetTheirCalls ==
  agent.pc \in {"think", "decide", "summary"} =>
    \A name \in [Ids -> {"a", "b"}] : \A known \in SUBSET Ids :
      LET sent == Normalized(Request, name, known) IN
      \A i \in DOMAIN Request : Request[i].role = "tool" => sent[i] = Request[i].call

\* Safety.  Whatever was interrupted, cancelled or failed before, in this run
\* or an earlier one, the provider is only sent conversations it accepts.
ProviderAccepts ==
  agent.pc \in {"think", "decide", "summary"} =>
    WellPaired(Request) /\ Request[1] = Say("system")

\* Safety.  A result the agent has taken from a tool is in the execution
\* history, however the run that asked for it ended, unless the conversation
\* was shared: of two runs on one Runtime the last to return leaves its own.
ResultsAreKept ==
  beside \/ \A k \in (base + 1)..issued :
    thread[k].pc = "taken" => \E i \in DOMAIN Kept.history : Kept.history[i] = k

\* Safety.  After an interrupt at most one more tool call is dispatched, the
\* one the agent was about to make.
OneCallAfterInterrupt == late <= 1

\* Action property.  Runs extend the conversation and never rewrite what was
\* said before; only a new chat empties it.  Two runs that share one may.
Extends(new, old) ==
  Len(new) > Len(old) /\ \A i \in 2..Len(old) : new[i] = old[i]

ConversationGrows ==
  [][ \/ beside' \/ saved'.messages = saved.messages
      \/ saved'.messages = <<>> /\ agent.pc = "idle" /\ agent'.pc = "idle"
      \/ Extends(saved'.messages, saved.messages) ]_vars

\* Liveness.  A hard cancel ends the run that it finds, however long the
\* model or the tool would have taken, unless a run or a new chat beside it
\* takes the cancel back.
HardCancelEnds == hard /\ Running ~> ~Running \/ ~hard
=============================================================================

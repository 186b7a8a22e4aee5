------------------------------ MODULE ChatSession ------------------------------
(***************************************************************************)
(* The Textual application: what its event loop and the threads around it  *)
(* do to each other.  A prompt starts a chat worker (run_chat), which runs *)
(* the prompt and then the clarifications that were queued meanwhile; the  *)
(* worker and the threads of its tool calls ask the user through one slot  *)
(* for approvals and one for the password.  Event handlers are steps of    *)
(* the loop; call_from_thread makes a thread wait for such a step.         *)
(*                                                                         *)
(* What the agent does inside a run is in module AgentRun; here it asks,   *)
(* calls tools, gives a call up when it finds the hard cancel, and ends.   *)
(***************************************************************************)
EXTENDS Naturals, FiniteSets

CONSTANTS
  MaxRuns,     \* bound: chat workers ever started
  MaxPrompts,  \* bound: messages ever submitted
  MaxAsks      \* bound: questions ever asked

ASSUME ChatSessionAssumption ==
  MaxRuns \in Nat /\ MaxPrompts \in Nat /\ MaxAsks \in Nat

VARIABLES
  busy, runId,      \* _busy, _active_run_id
  pending,          \* _pending_followup: a prompt, or 0
  slot,             \* _approval_request and _auth_request: a question, or 0
  cancel,           \* per run: the event in _active_cancel_event
  interrupt, hard,  \* the flags of Runtime
  talked,           \* Runtime.messages is not empty
  worker,           \* per run: the thread in run_chat
  ask,              \* per question: the thread that asked it
  prompts, asks,    \* how many there have been
  handed            \* history: how often each prompt was given to Runtime

ui      == <<busy, runId, pending, slot>>
flags   == <<interrupt, hard>>
vars    == <<ui, cancel, flags, talked, worker, ask, prompts, asks, handed>>

Runs    == 1..MaxRuns
Prompts == 1..MaxPrompts
Asks    == 1..MaxAsks
Kinds   == {"approval", "auth"}

Worker == [pc: {"none", "start", "resume", "clear", "agent", "asking", "tool",
                "returned", "report", "free", "unbusy", "over"},
           prompt: 0..MaxPrompts, followup: BOOLEAN, orphans: BOOLEAN]
Asker  == [pc: {"none", "posted", "waiting", "answered"}, run: 0..MaxRuns,
           kind: Kinds, by: {"agent", "tool", "orphan"}]

TypeOK ==
  /\ busy \in BOOLEAN /\ runId \in 0..MaxRuns
  /\ pending \in 0..prompts /\ slot \in [Kinds -> 0..asks]
  /\ cancel \in [Runs -> BOOLEAN]
  /\ interrupt \in BOOLEAN /\ hard \in BOOLEAN /\ talked \in BOOLEAN
  /\ worker \in [Runs -> Worker] /\ ask \in [Asks -> Asker]
  /\ prompts \in 0..MaxPrompts /\ asks \in 0..MaxAsks
  /\ handed \in [Prompts -> Nat]
  /\ \A r \in Runs : worker[r].pc # "none" => worker[r].prompt # 0

Init ==
  /\ busy = FALSE /\ runId = 0 /\ pending = 0 /\ slot = [k \in Kinds |-> 0]
  /\ cancel = [r \in Runs |-> FALSE]
  /\ interrupt = FALSE /\ hard = FALSE /\ talked = FALSE
  /\ worker = [r \in Runs |-> [pc |-> "none", prompt |-> 0,
                               followup |-> FALSE, orphans |-> FALSE]]
  /\ ask = [a \in Asks |-> [pc |-> "none", run |-> 0, kind |-> "auth", by |-> "tool"]]
  /\ prompts = 0 /\ asks = 0 /\ handed = [p \in Prompts |-> 0]

\* is_run_active, and is_cancelled of the run's event handler
Active(r)    == busy /\ runId = r
Cancelled(r) == cancel[r] \/ ~Active(r)

Goto(r, label) == worker' = [worker EXCEPT ![r].pc = label]

-----------------------------------------------------------------------------
(* The user, through the event loop.                                       *)

Answer(a) == ask' = [ask EXCEPT ![a].pc = "answered"]

\* on_input_submitted: the input answers the question that is shown, first a
\* password, whoever asked for it.
SubmitAnswer(k) ==
  /\ slot[k] # 0 /\ (k = "approval" => slot["auth"] = 0)
  /\ Answer(slot[k])
  /\ slot' = [slot EXCEPT ![k] = 0]
  /\ UNCHANGED <<busy, runId, pending, cancel, flags, talked, worker, prompts, asks, handed>>

NothingShown == \A k \in Kinds : slot[k] = 0

\* During a run it is queued (queue_followup) and interrupts the run.
SubmitClarification ==
  /\ NothingShown /\ busy /\ prompts < MaxPrompts
  /\ prompts' = prompts + 1
  /\ pending' = prompts'
  /\ interrupt' = TRUE
  /\ UNCHANGED <<busy, runId, slot, cancel, hard, talked, worker, ask, asks, handed>>

\* Otherwise it starts a run, a followup when there is a conversation.
SubmitPrompt ==
  /\ NothingShown /\ ~busy /\ prompts < MaxPrompts /\ runId < MaxRuns
  /\ prompts' = prompts + 1
  /\ runId' = runId + 1 /\ busy' = TRUE
  /\ worker' = [worker EXCEPT ![runId + 1] =
       [@ EXCEPT !.pc = "start", !.prompt = prompts', !.followup = talked]]
  /\ UNCHANGED <<pending, slot, cancel, flags, talked, ask, asks, handed>>

\* Mutant: the slots are left as they are.
EscapeKeeping ==
  /\ busy
  /\ interrupt' = TRUE /\ hard' = (hard \/ interrupt)
  /\ cancel' = [cancel EXCEPT ![runId] = @ \/ interrupt]
  /\ ask' = [a \in Asks |-> IF \E k \in Kinds : slot[k] = a
                              THEN [ask[a] EXCEPT !.pc = "answered"] ELSE ask[a]]
  /\ UNCHANGED <<ui, talked, worker, prompts, asks, handed>>

\* Mutant: the questions are taken off the screen without an answer.
EscapeSilent ==
  /\ busy
  /\ interrupt' = TRUE /\ hard' = (hard \/ interrupt)
  /\ cancel' = [cancel EXCEPT ![runId] = @ \/ interrupt]
  /\ slot' = [k \in Kinds |-> 0]
  /\ UNCHANGED <<busy, runId, pending, talked, worker, ask, prompts, asks, handed>>

\* action_interrupt during a run: the interrupt, or the hard cancel when the
\* interrupt is already set; the questions shown are answered no.
Escape ==
  /\ busy
  /\ interrupt' = TRUE /\ hard' = (hard \/ interrupt)
  /\ cancel' = [cancel EXCEPT ![runId] = @ \/ interrupt]
  /\ ask' = [a \in Asks |-> IF \E k \in Kinds : slot[k] = a
                              THEN [ask[a] EXCEPT !.pc = "answered"] ELSE ask[a]]
  /\ slot' = [k \in Kinds |-> 0]
  /\ UNCHANGED <<busy, runId, pending, talked, worker, prompts, asks, handed>>

\* _start_new_chat: /new empties the slot and resets the runtime.
NewChat ==
  /\ NothingShown /\ ~busy /\ talked
  /\ pending' = 0 /\ talked' = FALSE
  /\ interrupt' = FALSE /\ hard' = FALSE
  /\ UNCHANGED <<busy, runId, slot, cancel, worker, ask, prompts, asks, handed>>

-----------------------------------------------------------------------------
(* The chat worker of run r.                                               *)

Hand(r) == handed' = [handed EXCEPT ![worker[r].prompt] = @ + 1]

\* A followup un-cancels the interface: the event of the latest run, which
\* need not be r.
Begin(r) ==
  /\ worker[r].pc \in {"start", "resume"}
  /\ Goto(r, "clear") /\ Hand(r)
  /\ cancel' = IF worker[r].followup THEN [cancel EXCEPT ![runId] = FALSE] ELSE cancel
  /\ UNCHANGED <<ui, flags, talked, ask, prompts, asks>>

\* run, run_followup: the flags are cleared, in a followup after the tool
\* server is up.
ClearFlags(r) ==
  /\ worker[r].pc = "clear"
  /\ Goto(r, "agent")
  /\ interrupt' = FALSE /\ hard' = FALSE
  /\ UNCHANGED <<ui, cancel, talked, ask, prompts, asks, handed>>

\* No tool server: the exception goes to the handler in run_chat.
RunFails(r) ==
  /\ worker[r].pc \in {"start", "clear", "agent"}
  /\ Goto(r, "report")
  /\ UNCHANGED <<ui, cancel, flags, talked, ask, prompts, asks, handed>>

\* The agent starts a tool call in a thread of its own ...
CallTool(r) ==
  /\ worker[r].pc = "agent"
  /\ Goto(r, "tool")
  /\ UNCHANGED <<ui, cancel, flags, talked, ask, prompts, asks, handed>>

Open(a, r, by) == ask[a].pc \in {"posted", "waiting"} /\ ask[a].run = r /\ ask[a].by = by

\* ... takes its outcome ...
ToolEnds(r) ==
  /\ worker[r].pc = "tool" /\ \A a \in Asks : ~Open(a, r, "tool")
  /\ Goto(r, "agent")
  /\ UNCHANGED <<ui, cancel, flags, talked, ask, prompts, asks, handed>>

\* ... or gives it up: the thread lives on by itself and may still ask, for
\* frames it has read or because its socket was not open yet.
AbandonTool(r) ==
  /\ worker[r].pc = "tool" /\ hard
  /\ worker' = [worker EXCEPT ![r] = [@ EXCEPT !.pc = "returned", !.orphans = TRUE]]
  /\ ask' = [a \in Asks |-> IF Open(a, r, "tool") THEN [ask[a] EXCEPT !.by = "orphan"] ELSE ask[a]]
  /\ talked' = TRUE
  /\ UNCHANGED <<ui, cancel, flags, prompts, asks, handed>>

\* The run is over and Runtime keeps its conversation.
Return(r) ==
  /\ worker[r].pc = "agent"
  /\ Goto(r, "returned")
  /\ talked' = TRUE
  /\ UNCHANGED <<ui, cancel, flags, ask, prompts, asks, handed>>

\* Mutant: the queued prompt stays in its slot.
PopKeeping(r) ==
  /\ worker[r].pc = "returned"
  /\ IF Active(r) /\ pending # 0
       THEN worker' = [worker EXCEPT ![r] =
              [@ EXCEPT !.pc = "resume", !.prompt = pending, !.followup = TRUE]]
       ELSE Goto(r, "report")
  /\ UNCHANGED <<ui, cancel, flags, talked, ask, prompts, asks, handed>>

\* pop_pending_followup: what was queued is the next followup.
Pop(r) ==
  /\ worker[r].pc = "returned"
  /\ IF Active(r) /\ pending # 0
       THEN /\ worker' = [worker EXCEPT ![r] =
                 [@ EXCEPT !.pc = "resume", !.prompt = pending, !.followup = TRUE]]
            /\ pending' = 0
       ELSE Goto(r, "report") /\ UNCHANGED pending
  /\ UNCHANGED <<busy, runId, slot, cancel, flags, talked, ask, prompts, asks, handed>>

\* The answer or the error is shown, unless the run is no longer the active
\* one, and the finally block is reached.
Report(r) ==
  /\ worker[r].pc = "report"
  /\ Goto(r, "free")
  /\ UNCHANGED <<ui, cancel, flags, talked, ask, prompts, asks, handed>>

\* Mutant: a cancelled run is not freed.
FreeUncancelled(r) ==
  /\ worker[r].pc = "free"
  /\ IF Active(r) /\ ~cancel[r] THEN busy' = FALSE /\ Goto(r, "unbusy")
                                ELSE Goto(r, "over") /\ UNCHANGED busy
  /\ UNCHANGED <<runId, pending, slot, cancel, flags, talked, ask, prompts, asks, handed>>

\* The worker takes the busy mark back itself ...
Free(r) ==
  /\ worker[r].pc = "free"
  /\ IF Active(r) THEN busy' = FALSE /\ Goto(r, "unbusy")
                  ELSE Goto(r, "over") /\ UNCHANGED busy
  /\ UNCHANGED <<runId, pending, slot, cancel, flags, talked, ask, prompts, asks, handed>>

\* ... and once more through the event loop (set_busy), whatever run is the
\* active one by then.
Unbusy(r) ==
  /\ worker[r].pc = "unbusy"
  /\ busy' = FALSE /\ Goto(r, "over")
  /\ UNCHANGED <<runId, pending, slot, cancel, flags, talked, ask, prompts, asks, handed>>

-----------------------------------------------------------------------------
(* Questions.  A handler that is cancelled answers no by itself.           *)

MayAsk(r, by) ==
  CASE by = "agent"  -> worker[r].pc = "agent"
    [] by = "tool"   -> worker[r].pc = "tool" /\ \A a \in Asks : ~Open(a, r, "tool")
    [] by = "orphan" -> worker[r].orphans /\ \A a \in Asks : ~Open(a, r, "orphan")

\* request_..._approval, request_sudo_password: a prompt is posted to the loop.
Post(r, by, kind) ==
  /\ MayAsk(r, by) /\ ~Cancelled(r) /\ asks < MaxAsks
  /\ asks' = asks + 1
  /\ ask' = [ask EXCEPT ![asks + 1] = [pc |-> "posted", run |-> r, kind |-> kind, by |-> by]]
  /\ IF by = "agent" THEN Goto(r, "asking") ELSE UNCHANGED worker
  /\ UNCHANGED <<ui, cancel, flags, talked, prompts, handed>>

\* start_..._prompt, in the loop: the slot is overwritten.
Show(a) ==
  /\ ask[a].pc = "posted"
  /\ IF Active(ask[a].run)
       THEN /\ ask' = [ask EXCEPT ![a].pc = "waiting"]
            /\ slot' = [slot EXCEPT ![ask[a].kind] = a]
       ELSE Answer(a) /\ UNCHANGED slot
  /\ UNCHANGED <<busy, runId, pending, cancel, flags, talked, worker, prompts, asks, handed>>

\* The worker goes on with the answer to its own question.
Resume(r) ==
  /\ worker[r].pc = "asking" /\ \A a \in Asks : ~Open(a, r, "agent")
  /\ Goto(r, "agent")
  /\ UNCHANGED <<ui, cancel, flags, talked, ask, prompts, asks, handed>>

-----------------------------------------------------------------------------

Chat(r) ==
  \/ Begin(r) \/ ClearFlags(r) \/ RunFails(r) \/ CallTool(r) \/ ToolEnds(r)
  \/ AbandonTool(r) \/ Return(r) \/ Pop(r) \/ Report(r) \/ Free(r) \/ Unbusy(r)
  \/ Resume(r)

Next ==
  \/ SubmitClarification \/ SubmitPrompt \/ Escape \/ NewChat
  \/ \E k \in Kinds : SubmitAnswer(k)
  \/ \E r \in Runs : Chat(r)
  \/ \E r \in Runs, by \in {"agent", "tool", "orphan"}, kind \in Kinds : Post(r, by, kind)
  \/ \E a \in Asks : Show(a)

Spec == Init /\ [][Next]_vars

-----------------------------------------------------------------------------

\* Safety.  No prompt is given to the runtime twice, however clarifications,
\* cancellations and new runs interleave.
PromptRunsOnce == \A p \in Prompts : handed[p] <= 1

\* Safety.  A question that is shown belongs to the latest run, and its thread
\* still waits for it: input is not swallowed by a question that has its answer,
\* and no earlier run, whose tools may live on, has the user answer for it.
ShownIsAwaited ==
  \A k \in Kinds : slot[k] # 0 =>
    LET a == ask[slot[k]] IN a.pc = "waiting" /\ a.kind = k /\ a.run = runId

\* Safety.  A question that is waited for is on the screen, where an answer or
\* Escape reaches it, unless one of a given-up tool thread was involved: the
\* worker's own questions never replace each other.
WaitingIsShown ==
  \A a \in Asks : ask[a].pc = "waiting" =>
    \/ \E k \in Kinds : slot[k] = a
    \/ \E b \in Asks \ {a} :
         /\ ask[b].pc # "none" /\ ask[b].kind = ask[a].kind
         /\ "orphan" \in {ask[a].by, ask[b].by}

\* Safety.  The application is never busy with a run whose worker is gone,
\* also when the run failed or was cancelled: it would queue prompts for ever.
BusyHasWorker ==
  busy => worker[runId].pc \notin {"none", "unbusy", "over"}

=============================================================================
